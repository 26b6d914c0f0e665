----------------------------- MODULE MCPlanner -----------------------------
(* Small instances of Planner for TLC.                                     *)
EXTENDS Planner, TLC

AllLayers == 0 .. 3
Uniform(x) == [l \in AllLayers |-> x]

(* A master that holds two layers, a fast worker that holds two and a slow *)
(* one that holds three, all with one unit of cache per layer.             *)
MasterDev ==
  [name |-> "orin", role |-> "master", host |-> None, enabled |-> TRUE,
   usable |-> 5, fixed |-> 1, memory |-> Uniform(1),
   prefill |-> Uniform(3), decode |-> Uniform(2),
   prefill_tail |-> Uniform(3), decode_tail |-> Uniform(2),
   prefill_energy |-> Uniform(1), decode_energy |-> Uniform(1),
   latency |-> 0, latency_tail |-> 0, transfer |-> 0, transfer_tail |-> 0]

Fast ==
  [MasterDev EXCEPT !.name = "fast", !.role = "worker", !.host = "h1",
                    !.prefill = Uniform(1), !.decode = Uniform(1),
                    !.prefill_tail = [l \in AllLayers |-> 1 + 8 * (l % 2)],
                    !.decode_tail = Uniform(5), !.prefill_energy = Uniform(4),
                    !.latency = 1, !.latency_tail = 2, !.transfer_tail = 1]

Slow ==
  [MasterDev EXCEPT !.name = "slow", !.role = "worker", !.host = "h2",
                    !.usable = 8, !.fixed = 2, !.memory = [l \in AllLayers |-> l % 3],
                    !.prefill = [l \in AllLayers |-> 4 - l], !.decode = Uniform(3),
                    !.prefill_tail = Uniform(5), !.decode_tail = Uniform(3),
                    !.latency = 1, !.latency_tail = 1,
                    !.transfer = 1, !.transfer_tail = 1]

Base ==
  [devices |-> <<MasterDev, Fast, Slow>>, num_layers |-> 4, max_seq |-> 2,
   prompt_tokens |-> 2, output_tokens |-> 2, kv_context |-> 1, kv_per_token |-> 1,
   ttft_weight |-> 1, tpot_weight |-> 1, risk |-> 0, energy_weight |-> 0,
   penalty |-> 0, min_devices |-> 1, max_devices |-> None, algorithm |-> "dial"]

Large(dev) == [dev EXCEPT !.usable = 20]

(* Any device may hold all layers.                                         *)
Roomy == [Base EXCEPT !.devices = <<Fast, MasterDev, Slow>>,
                      !.devices[1] = Large(@), !.devices[2] = Large(@), !.devices[3] = Large(@)]

Algorithms == {"dial", "edgeshard-latency", "edgeshard-throughput"}

Plannable ==
  UNION {{[b EXCEPT !.algorithm = a],
          [b EXCEPT !.algorithm = a, !.min_devices = 2, !.kv_context = 0],
          [b EXCEPT !.algorithm = a, !.max_devices = 2, !.ttft_weight = 0]}
           : <<a, b>> \in Algorithms \X {Base, Roomy}}
  \cup {[b EXCEPT !.risk = r, !.energy_weight = e, !.penalty = x, !.kv_context = 0]
          : <<b, r, e, x>> \in {Base, Roomy} \X {0, 1, 2} \X {0, 1} \X {0, 9}}

(* Equal scores everywhere: workers that cost nothing more than a master,  *)
(* the last of which holds all layers.                                     *)
Twin == [MasterDev EXCEPT !.name = "twin", !.role = "worker", !.host = "h3"]
Ties == {[Base EXCEPT !.devices = <<MasterDev, Twin, [Large(Twin) EXCEPT !.name = "t2", !.host = "h4"]>>,
                      !.algorithm = a] : a \in Algorithms}

(* Profiles that validate refuses, and one no layout fits.                 *)
Refusable ==
  {[Base EXCEPT !.prompt_tokens = 0], [Base EXCEPT !.output_tokens = 0],
   [Base EXCEPT !.min_devices = 0], [Base EXCEPT !.max_devices = 0],
   [Base EXCEPT !.risk = RiskUnit + 1], [Base EXCEPT !.devices = <<>>],
   [Base EXCEPT !.min_devices = 4], [Base EXCEPT !.min_devices = 2, !.max_devices = 1],
   [Base EXCEPT !.devices[2].role = "master"], [Base EXCEPT !.devices[1].enabled = FALSE],
   [Base EXCEPT !.devices[3].name = "fast"], [Base EXCEPT !.devices[3].host = "h1"],
   [Base EXCEPT !.devices[2].host = None], [Base EXCEPT !.devices[2].fixed = 6],
   [Base EXCEPT !.devices[2].latency_tail = 0],
   [Base EXCEPT !.devices[2].prefill_tail = Uniform(0)],
   [Base EXCEPT !.devices[2].decode = [l \in 0 .. 2 |-> 1]]}

Odd ==
  {[Base EXCEPT !.devices[3].enabled = FALSE],
   [Base EXCEPT !.devices[3].enabled = FALSE, !.kv_context = 2],
   [Base EXCEPT !.max_devices = 1], [Base EXCEPT !.max_devices = 9, !.min_devices = 3]}

MCProfiles == Plannable \cup Ties \cup Refusable \cup Odd
=============================================================================
