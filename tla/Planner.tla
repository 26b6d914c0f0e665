------------------------------ MODULE Planner ------------------------------
(* The automatic planner (spm/planner.rs): a dynamic program that lays the *)
(* layers of a model out over a master and its workers, each device taking *)
(* one continuous segment.  All quantities are naturals in the unit of     *)
(* their profile field.  A uniform metric is the constant function of the  *)
(* layers; rtt and protocol time are one latency, and the size and the     *)
(* bandwidth of a transfer one cost per token.                             *)
EXTENDS Integers, Sequences, FiniteSets, FiniteSetsExt

CONSTANTS
  Profiles,   \* the profile, model and algorithm of one run of the planner
  RiskUnit,   \* a risk weight of 1
  None        \* an absent host or bound

ASSUME RiskAssumption == RiskUnit \in Nat \ {0}

(* The figures a profile file and a model configuration can hold.          *)
Metrics ==
  {"memory", "prefill", "decode", "prefill_tail", "decode_tail", "prefill_energy",
   "decode_energy"}

ASSUME ProfilesAssumption ==
  \A p \in Profiles :
    /\ \A field \in {"num_layers", "max_seq", "prompt_tokens", "output_tokens", "kv_context",
                     "kv_per_token", "ttft_weight", "tpot_weight", "risk", "energy_weight",
                     "penalty", "min_devices"} : p[field] \in Nat
    /\ p.max_devices \in Nat \cup {None}
    /\ p.algorithm \in {"dial", "edgeshard-latency", "edgeshard-throughput"}
    /\ DOMAIN p.devices \subseteq Nat /\ IsFiniteSet(DOMAIN p.devices)
    /\ \A d \in DOMAIN p.devices :
         /\ p.devices[d].role \in {"master", "worker"}
         /\ \A field \in {"usable", "fixed", "latency", "latency_tail", "transfer",
                          "transfer_tail"} : p.devices[d][field] \in Nat
         /\ \A metric \in Metrics :
              \A l \in DOMAIN p.devices[d][metric] : p.devices[d][metric][l] \in Nat

VARIABLES
  profile,    \* the profile, the model configuration and the algorithm
  phase,      \* "validate", "seed", "search", then "planned", "refused" or "infeasible"
  dp,         \* the labels found so far, by end layer, devices and last device
  expanded,   \* the states whose label has been extended
  topology    \* the nodes of the plan: name -> host and layers

vars == <<profile, phase, dp, expanded, topology>>

-----------------------------------------------------------------------------
(* The enabled devices, by their place in the profile; the code numbers    *)
(* them without gaps, in the same order.                                   *)
Device(d) == profile.devices[d]
Devices == {d \in DOMAIN profile.devices : Device(d).enabled}
NumDevices == Cardinality(Devices)
IsWorker(d) == Device(d).role = "worker"

NumLayers == profile.num_layers
Layers == 0 .. NumLayers - 1

Lesser(a, b) == IF a < b THEN a ELSE b
Greater(a, b) == IF a < b THEN b ELSE a

MaxDevices ==
  IF profile.max_devices = None THEN NumDevices
  ELSE Lesser(Greater(profile.max_devices, 1), NumDevices)

KvContext ==
  IF profile.kv_context = 0 THEN profile.max_seq
  ELSE Lesser(profile.kv_context, profile.max_seq)

-----------------------------------------------------------------------------
(* What validate refuses.                                                  *)
ValidObjective ==
  /\ profile.prompt_tokens > 0
  /\ profile.output_tokens > 0
  /\ profile.min_devices > 0
  /\ profile.max_devices # 0
  /\ profile.risk <= RiskUnit
  /\ profile.ttft_weight + profile.tpot_weight + profile.energy_weight > 0

ValidCount ==
  /\ NumDevices \in 1 .. 12
  /\ profile.min_devices <= (IF profile.max_devices = None THEN NumDevices
                             ELSE Lesser(profile.max_devices, NumDevices))
  /\ Cardinality({d \in Devices : ~IsWorker(d)}) = 1

PerLayer(metric) == DOMAIN metric = Layers

NotBelow(tail, mean) == PerLayer(tail) /\ \A l \in Layers : tail[l] >= mean[l]

ValidDevice(dev) ==
  /\ dev.usable > 0
  /\ dev.fixed <= dev.usable
  /\ PerLayer(dev.memory) /\ PerLayer(dev.prefill) /\ PerLayer(dev.decode)
  /\ NotBelow(dev.prefill_tail, dev.prefill)
  /\ NotBelow(dev.decode_tail, dev.decode)
  /\ PerLayer(dev.prefill_energy) /\ PerLayer(dev.decode_energy)
  /\ dev.role = "worker" => /\ dev.host # None
                            /\ dev.latency_tail >= dev.latency
                            /\ dev.transfer_tail >= dev.transfer

DistinctNames == \A c, d \in Devices : Device(c).name = Device(d).name => c = d

DistinctHosts ==
  \A c, d \in Devices :
     IsWorker(c) /\ IsWorker(d) /\ Device(c).host = Device(d).host => c = d

Valid ==
  /\ ValidObjective
  /\ ValidCount
  /\ \A d \in Devices : ValidDevice(Device(d))
  /\ DistinctNames
  /\ DistinctHosts

-----------------------------------------------------------------------------
(* What the layers a .. b cost on device d.                                *)
SumOver(metric, a, b) == MapThenSumSet(LAMBDA l : metric[l], a .. b)

MemoryOf(d, a, b) ==
  Device(d).fixed + SumOver(Device(d).memory, a, b)
    + profile.kv_per_token * KvContext * (b - a + 1)

Fits(d, a, b) == MemoryOf(d, a, b) <= Device(d).usable

PrefillNet(d, latency, transfer) ==
  IF IsWorker(d) THEN latency + profile.prompt_tokens * transfer ELSE 0

DecodeNet(d, latency, transfer) ==
  IF IsWorker(d) THEN latency + transfer ELSE 0

(* The time to the first token and between two tokens, mean or tail.       *)
Ttft(d, a, b, prefill, decode, latency, transfer) ==
  SumOver(prefill, a, b) + SumOver(decode, a, b)
    + PrefillNet(d, latency, transfer) + DecodeNet(d, latency, transfer)

Tpot(d, a, b, decode, latency, transfer) ==
  SumOver(decode, a, b) + DecodeNet(d, latency, transfer)

MeanTtft(d, a, b) ==
  LET dev == Device(d)
  IN  Ttft(d, a, b, dev.prefill, dev.decode, dev.latency, dev.transfer)

LatencyScore(ttft, tpot) == profile.ttft_weight * ttft + profile.tpot_weight * tpot

MeanScore(d, a, b) ==
  LET dev == Device(d)
  IN  LatencyScore(MeanTtft(d, a, b),
                   Tpot(d, a, b, dev.decode, dev.latency, dev.transfer))

TailScore(d, a, b) ==
  LET dev == Device(d)
  IN  LatencyScore(Ttft(d, a, b, dev.prefill_tail, dev.decode_tail,
                        dev.latency_tail, dev.transfer_tail),
                   Tpot(d, a, b, dev.decode_tail, dev.latency_tail, dev.transfer_tail))

RequestEnergy(d, a, b) ==
  SumOver(Device(d).prefill_energy, a, b)
    + profile.output_tokens * SumOver(Device(d).decode_energy, a, b)

DialScore(d, a, b) ==
  (RiskUnit - profile.risk) * MeanScore(d, a, b) + profile.risk * TailScore(d, a, b)
    + RiskUnit * (profile.energy_weight * RequestEnergy(d, a, b)
                  + IF IsWorker(d) THEN profile.penalty ELSE 0)

RequestCompute(d, a, b) ==
  SumOver(Device(d).prefill, a, b)
    + profile.output_tokens * SumOver(Device(d).decode, a, b)

RequestNet(d) ==
  LET dev == Device(d)
  IN  PrefillNet(d, dev.latency, dev.transfer)
        + profile.output_tokens * DecodeNet(d, dev.latency, dev.transfer)

(* The score of a segment alone, by algorithm.                             *)
SegmentScore(d, a, b) ==
  CASE profile.algorithm = "dial" -> DialScore(d, a, b)
    [] profile.algorithm = "edgeshard-latency" -> RequestCompute(d, a, b) + RequestNet(d)
    [] profile.algorithm = "edgeshard-throughput" ->
         Greater(RequestCompute(d, a, b), RequestNet(d))

(* The score of a layout and of one more segment.                          *)
Combined(score, more) ==
  IF profile.algorithm = "edgeshard-throughput" THEN Greater(score, more) ELSE score + more

-----------------------------------------------------------------------------
(* Mutant: the end of a segment is the first layer behind it.              *)
SegmentOpen(d, a, b) == [device |-> d, start |-> a, end |-> b + 1]

Segment(d, a, b) == [device |-> d, start |-> a, end |-> b]

(* The places of the table: the layers before end are on the devices mask, *)
(* the last of them on device last.                                        *)
States == [end : 1 .. NumLayers, mask : SUBSET Devices, last : Devices]

State(end, mask, last) == [end |-> end, mask |-> mask, last |-> last]

InitialLabel(d, end) ==
  [score |-> SegmentScore(d, 0, end - 1), ttft |-> MeanTtft(d, 0, end - 1),
   segments |-> <<Segment(d, 0, end - 1)>>]

(* label, whose segments end before layer end, and layers end .. next-1 on d. *)
Extended(label, d, end, next) ==
  [score |-> Combined(label.score, SegmentScore(d, end, next - 1)),
   ttft |-> label.ttft + MeanTtft(d, end, next - 1),
   segments |-> Append(label.segments, Segment(d, end, next - 1))]

(* Mutant: the time to the first token decides before the score.           *)
ReplacesSooner(candidate, current) ==
  \/ candidate.ttft < current.ttft
  \/ candidate.ttft = current.ttft /\ candidate.score < current.score

Replaces(candidate, current) ==
  \/ candidate.score < current.score
  \/ candidate.score = current.score /\ candidate.ttft < current.ttft

(* The order of the loops: by end layer, then by the devices as a binary   *)
(* number, then by last device.                                            *)
Smaller(m, n) == \E d \in n \ m : \A e \in m \ n : e < d

Before(s, t) ==
  \/ s.end < t.end
  \/ s.end = t.end /\ Smaller(s.mask, t.mask)
  \/ s.end = t.end /\ s.mask = t.mask /\ s.last < t.last

FirstOf(states) == CHOOSE s \in states : \A t \in states \ {s} : Before(s, t)

(* Mutant: the state that reaches the limit is not expanded, nor the one before. *)
ExpandableEarly ==
  {s \in DOMAIN dp : s.end < NumLayers /\ Cardinality(s.mask) < MaxDevices - 1}

Expandable ==
  {s \in DOMAIN dp : s.end < NumLayers /\ Cardinality(s.mask) < MaxDevices}

Successors(s) ==
  {t \in States : /\ t.end > s.end
                  /\ t.last \notin s.mask
                  /\ t.mask = s.mask \cup {t.last}
                  /\ Fits(t.last, s.end, t.end - 1)}

Complete ==
  {s \in DOMAIN dp : /\ s.end = NumLayers
                     /\ Cardinality(s.mask) \in profile.min_devices .. MaxDevices}

(* Mutant: the first of the cheapest, however many segments it has.        *)
BestFirst == FirstOf({s \in Complete : \A t \in Complete : dp[s].score <= dp[t].score})

(* The first of the cheapest complete states, with fewest segments among them. *)
Best ==
  FirstOf({s \in Complete :
    \A t \in Complete :
       \/ dp[s].score < dp[t].score
       \/ /\ dp[s].score = dp[t].score
          /\ Cardinality(s.mask) <= Cardinality(t.mask)})

(* The nodes of the enabled workers, the unused ones without layers.       *)
NodesOf(segments) ==
  [name \in {Device(d).name : d \in {e \in Devices : IsWorker(e)}} |->
     LET d == CHOOSE e \in Devices : Device(e).name = name
     IN  [host |-> Device(d).host,
          layers |-> UNION {segments[i].start .. segments[i].end :
                              i \in {j \in DOMAIN segments : segments[j].device = d}}]]

-----------------------------------------------------------------------------
Init ==
  /\ profile \in Profiles
  /\ phase = "validate"
  /\ dp = << >>
  /\ expanded = {}
  /\ topology = << >>

Validate ==
  /\ phase = "validate"
  /\ phase' = IF Valid THEN "seed" ELSE "refused"
  /\ UNCHANGED <<profile, dp, expanded, topology>>

(* Every device alone, from the first layer.                               *)
Seed ==
  /\ phase = "seed"
  /\ dp' = [s \in {t \in States : t.mask = {t.last} /\ Fits(t.last, 0, t.end - 1)}
             |-> InitialLabel(s.last, s.end)]
  /\ phase' = "search"
  /\ UNCHANGED <<profile, expanded, topology>>

(* The label of the next state, with every other device behind it.         *)
Extend ==
  /\ phase = "search"
  /\ Expandable \ expanded # {}
  /\ LET s == FirstOf(Expandable \ expanded)
         candidate(t) == Extended(dp[s], t.last, s.end, t.end)
         replaced == {t \in Successors(s) :
                        t \in DOMAIN dp => Replaces(candidate(t), dp[t])}
     IN  /\ dp' = [t \in DOMAIN dp \cup replaced |->
                     IF t \in replaced THEN candidate(t) ELSE dp[t]]
         /\ expanded' = expanded \cup {s}
  /\ UNCHANGED <<profile, phase, topology>>

Pick ==
  /\ phase = "search"
  /\ Expandable \subseteq expanded
  /\ Complete # {}
  /\ phase' = "planned"
  /\ topology' = NodesOf(dp[Best].segments)
  /\ UNCHANGED <<profile, dp, expanded>>

NoPlacement ==
  /\ phase = "search"
  /\ Expandable \subseteq expanded
  /\ Complete = {}
  /\ phase' = "infeasible"
  /\ UNCHANGED <<profile, dp, expanded, topology>>

Next == Validate \/ Seed \/ Extend \/ Pick \/ NoPlacement

Spec == Init /\ [][Next]_vars

-----------------------------------------------------------------------------
(* Every state and label is about the devices and layers of the profile.   *)
TypeOK ==
  /\ profile \in Profiles
  /\ phase \in {"validate", "seed", "search", "planned", "refused", "infeasible"}
  /\ \A s \in DOMAIN dp :
       /\ s \in States
       /\ dp[s].score \in Nat /\ dp[s].ttft \in Nat
       /\ dp[s].segments \in Seq([device : Devices, start : Layers, end : Layers])
  /\ expanded \subseteq DOMAIN dp

-----------------------------------------------------------------------------
(* The reference: the first end layers are given to devices one by one,    *)
(* and a device's layers must be consecutive and fit.                      *)
LayersOf(layout, d) == {l \in DOMAIN layout : layout[l] = d}

Used(layout) == {layout[l] : l \in DOMAIN layout}

Layouts(end) ==
  {f \in [0 .. end - 1 -> Devices] :
     \A d \in Used(f) : LET own == LayersOf(f, d)
                        IN  own = Min(own) .. Max(own) /\ Fits(d, Min(own), Max(own))}

Scores(f) ==
  [d \in Used(f) |-> SegmentScore(d, Min(LayersOf(f, d)), Max(LayersOf(f, d)))]

Total(scores) == MapThenSumSet(LAMBDA d : scores[d], DOMAIN scores)

LayoutScore(f) ==
  IF profile.algorithm = "edgeshard-throughput"
  THEN Max({Scores(f)[d] : d \in Used(f)})
  ELSE Total(Scores(f))

StateOf(f, end) == State(end, Used(f), f[end - 1])

(* How far the table is final.                                             *)
Ready ==
  IF Expandable \subseteq expanded THEN NumLayers ELSE FirstOf(Expandable \ expanded).end

Allowed(f) == Cardinality(Used(f)) \in profile.min_devices .. MaxDevices

(* plan_with_algorithm's comment: a state of the table "stores the exact   *)
(* best scalar-cost layout for that state".  Once all labels that end      *)
(* earlier have been extended, a state has a label if its layers fit on    *)
(* its devices at all, of the least score a layout has, and the score is   *)
(* the one of the segments the label lists.                                *)
ExactBest ==
  phase = "search" =>
    \A end \in 1 .. Ready :
      LET layouts == {f \in Layouts(end) : Cardinality(Used(f)) <= MaxDevices}
      IN  /\ {s \in DOMAIN dp : s.end = end} = {StateOf(f, end) : f \in layouts}
          /\ \A f \in layouts :
               LET label == dp[StateOf(f, end)]
               IN  /\ label.score <= LayoutScore(f)
                   /\ (\A l \in 0 .. end - 1 :
                         \E i \in DOMAIN label.segments :
                            /\ label.segments[i].device = f[l]
                            /\ l \in label.segments[i].start .. label.segments[i].end)
                      => label.score = LayoutScore(f)

Planned(nodes, l) == {name \in DOMAIN nodes : l \in nodes[name].layers}

(* The layout a topology stands for: the master has the layers no node has. *)
PlannedLayout(nodes) ==
  [l \in Layers |->
     CHOOSE d \in Devices :
       IF Planned(nodes, l) = {} THEN ~IsWorker(d) ELSE Device(d).name \in Planned(nodes, l)]

Optimal(layout) ==
  \A f \in Layouts(NumLayers) :
    Allowed(f) =>
      \/ LayoutScore(layout) < LayoutScore(f)
      \/ /\ LayoutScore(layout) = LayoutScore(f)
         /\ Cardinality(Used(layout)) <= Cardinality(Used(f))

(* The plan is one that fits, within the bounds on devices, and no layout  *)
(* scores less; among equals none uses fewer devices.  Every enabled       *)
(* worker has a node, and no layer has two.                                *)
GoodPlan(nodes) ==
  /\ \A l \in Layers : Cardinality(Planned(nodes, l)) <= 1
  /\ {nodes[n].host : n \in DOMAIN nodes}
       = {Device(d).host : d \in {e \in Devices : IsWorker(e)}}
  /\ PlannedLayout(nodes) \in Layouts(NumLayers)
  /\ Allowed(PlannedLayout(nodes))
  /\ Optimal(PlannedLayout(nodes))

(* The plan with which a search ends is a good one.                        *)
PlanOptimal == phase = "planned" => GoodPlan(topology)

(* The planner gives up only where no layout within the bounds fits.       *)
GivesUpRightly ==
  phase = "infeasible" => \A f \in Layouts(NumLayers) : ~Allowed(f)
=============================================================================
