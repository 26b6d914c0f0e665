----------------------------- MODULE Placement -----------------------------
(* Who computes which layer: every process reads the topology file of its  *)
(* own machine, or plans one, and master and workers meet only in the      *)
(* requests of a pass (spm/topology.rs, Context::from_args, Worker::new,   *)
(* the model loaders, Client::forward_batch, the worker loop, and the      *)
(* topology answer of the API).  A layer name stands for its index.        *)
EXTENDS Integers, Sequences, FiniteSets, SequencesExt

CONSTANTS
  Deployments,   \* the installations to choose from
  Master,        \* the machine of the master; the others are worker addresses
  None           \* no host, no name

(* The files an installation may read: those of its machines, what they    *)
(* are edited to, and the plans.                                           *)
FilesOf(d) ==
  {d.files[m] : m \in d.hosts \cup {Master}} \cup d.edits
    \cup ({d.plan[m] : m \in d.hosts \cup {Master}} \ {None})

(* None is no index of a layer and no name of a node, a topology has       *)
(* finitely many nodes, and a request has one of the three encodings.      *)
ASSUME DeploymentsAssumption ==
  /\ None \notin Int
  /\ \A d \in Deployments :
       /\ d.num_layers \in Nat
       /\ d.encoding \in {"batch", "compact", "range"}
       /\ d.files \in [d.hosts \cup {Master} -> FilesOf(d)]
       /\ \A file \in FilesOf(d) : IsFiniteSet(DOMAIN file) /\ None \notin DOMAIN file

VARIABLES
  deployment,    \* the installation: arguments and environment of every process
  files,         \* machine -> topology file on its disk
  workers,       \* address -> what its worker process has loaded, or its status
  master,        \* what the master has loaded, or its status
  connected,     \* the addresses with a usable connection in the master's pool
  pass,          \* the forward pass in progress or the last one
  report         \* the last topology answer

vars == <<deployment, files, workers, master, connected, pass, report>>

NumLayers == deployment.num_layers
Layers == 0 .. NumLayers - 1
Hosts == deployment.hosts

-----------------------------------------------------------------------------
(* Topology::from_path: a range a-b of a node must grow.                   *)
Readable(file) ==
  \A name \in DOMAIN file : \A i \in DOMAIN file[name].specs :
     LET spec == file[name].specs[i] IN spec.range => spec.last > spec.first

Expanded(spec) == spec.first .. spec.last

Node(entry) ==
  [host |-> entry.host, layers |-> UNION {Expanded(entry.specs[i]) : i \in DOMAIN entry.specs}]

Topology(file) == [name \in DOMAIN file |-> Node(file[name])]

(* Context::from_args: the plan of the process's own arguments, or the     *)
(* file of its machine.                                                    *)
Planned(m) == deployment.plan[m] # None

Loads(m) == Planned(m) \/ Readable(files[m])

View(m) == IF Planned(m) THEN Topology(deployment.plan[m]) ELSE Topology(files[m])

(* A hash map is iterated in an order of its own, fixed once it is built.  *)
Orders(topology) == SetToSeqs(DOMAIN topology)

Claimants(topology, l) == {name \in DOMAIN topology : l \in topology[name].layers}

(* get_node_for_layer: the first claimant of the map's order.              *)
Owner(topology, order, l) ==
  IF Claimants(topology, l) = {} THEN None
  ELSE order[SelectInSeq(order, LAMBDA name : l \in topology[name].layers)]

-----------------------------------------------------------------------------
(* Worker::new.                                                            *)
Name(h) == deployment.name[h]

(* The node a worker serves: its own, or without a plan any node at all.   *)
NodesFor(h, topology) ==
  IF Name(h) \in DOMAIN topology THEN {Name(h)}
  ELSE IF Planned(h) THEN {} ELSE DOMAIN topology

ShadowLayers(h, layers) ==
  IF deployment.auto_shadow /\ layers # {}
  THEN {l \in Layers : \A k \in layers : l < k}
  ELSE {}

ValidExtra(h) ==
  \A i \in DOMAIN deployment.extra[h] :
     deployment.extra[h][i].last >= deployment.extra[h][i].first

ExtraLayers(h) ==
  IF deployment.load_all THEN Layers
  ELSE UNION {Expanded(deployment.extra[h][i]) : i \in DOMAIN deployment.extra[h]}

BlocksOf(h, node) == node.layers \cup ShadowLayers(h, node.layers) \cup ExtraLayers(h)

(* Mutant: layers without weights are loaded as well.                      *)
WorkerLoadsAny(h, node) == deployment.load_all => deployment.model = "qwen"

(* Only the layers of the model have weights to load; all layers of the    *)
(* environment have the names of a Qwen model.                             *)
WorkerLoads(h, node) ==
  /\ BlocksOf(h, node) \subseteq Layers
  /\ deployment.load_all => deployment.model = "qwen"

NoWorker(why) == [status |-> why, blocks |-> {}, view |-> << >>]

StartWorker(h) ==
  /\ workers[h].status = "down"
  /\ \/ /\ Loads(h) /\ (deployment.load_all \/ ValidExtra(h))
        /\ \E name \in NodesFor(h, View(h)) :
             /\ WorkerLoads(h, View(h)[name])
             /\ workers' = [workers EXCEPT ![h] =
                  [status |-> "up", blocks |-> BlocksOf(h, View(h)[name]), view |-> View(h)]]
     \/ /\ \/ ~Loads(h)
           \/ ~deployment.load_all /\ ~ValidExtra(h)
           \/ NodesFor(h, View(h)) = {}
           \/ \E name \in NodesFor(h, View(h)) : ~WorkerLoads(h, View(h)[name])
        /\ workers' = [workers EXCEPT ![h] = NoWorker("refused")]
  /\ UNCHANGED <<deployment, files, master, connected, pass, report>>

(* A worker is stopped to be started again with what its machine then has. *)
StopWorker(h) ==
  /\ workers[h].status = "up"
  /\ workers' = [workers EXCEPT ![h] = NoWorker("down")]
  /\ connected' = connected \ {h}
  /\ UNCHANGED <<deployment, files, master, pass, report>>

-----------------------------------------------------------------------------
(* The loaders of the master: a client of the pool for every layer a node  *)
(* claims, and with a shadow host a second one for every other layer.      *)
Route(topology, order, l) ==
  LET name == Owner(topology, order, l)
  IN  IF name = None THEN None ELSE topology[name].host

ShadowHost(topology, order) ==
  IF deployment.shadow_host # None THEN deployment.shadow_host
  ELSE IF order = <<>> THEN None ELSE topology[Head(order)].host

NoPass == [status |-> "none", prompt |-> FALSE, next |-> 0, computed |-> <<>>]

NoMaster(why) ==
  [status |-> why, view |-> << >>, routes |-> << >>, shadow |-> None, promoted |-> FALSE]

StartMaster ==
  /\ master.status = "down"
  /\ \/ /\ Loads(Master)
        /\ \E order \in Orders(View(Master)) :
             LET routes == [l \in Layers |-> Route(View(Master), order, l)]
                 shadow == IF deployment.shadow /\ \E l \in Layers : routes[l] = None
                           THEN ShadowHost(View(Master), order) ELSE None
                 needed == ({routes[l] : l \in Layers} \cup {shadow}) \ {None}
                 up == {h \in Hosts : workers[h].status = "up"}
             IN  IF needed \subseteq up
                 THEN /\ master' = [status |-> "up", view |-> View(Master),
                                    routes |-> routes, shadow |-> shadow, promoted |-> FALSE]
                      /\ connected' = needed
                 ELSE /\ master' = NoMaster("refused")
                      /\ connected' = {}
     \/ /\ ~Loads(Master)
        /\ master' = NoMaster("refused")
        /\ connected' = {}
  /\ pass' = NoPass
  /\ UNCHANGED <<deployment, files, workers, report>>

StopMaster ==
  /\ master.status # "down"
  /\ pass.status # "running"
  /\ master' = NoMaster("down")
  /\ connected' = {}
  /\ pass' = NoPass
  /\ UNCHANGED <<deployment, files, workers, report>>

-----------------------------------------------------------------------------
(* A pass over a prompt of several tokens starts a dialog, and a pass over *)
(* the next token continues it.                                            *)
StartPass(prompt) ==
  /\ master.status = "up"
  /\ pass.status # "running"
  /\ prompt \/ pass.status = "done"
  /\ pass' = [NoPass EXCEPT !.status = "running", !.prompt = prompt]
  /\ master' = [master EXCEPT !.promoted = @ /\ ~prompt]
  /\ UNCHANGED <<deployment, files, workers, connected, report>>

Running == master.status = "up" /\ pass.status = "running"

UsesShadow(l) ==
  /\ master.routes[l] = None
  /\ master.shadow # None
  /\ master.promoted \/ pass.prompt

Remote(l) == master.routes[l] # None \/ UsesShadow(l)

Target(l) == IF master.routes[l] # None THEN master.routes[l] ELSE master.shadow

(* Mutant: any remote layer continues a request.                           *)
SameRequestRemote(l, k) ==
  \A j \in l .. k : (master.routes[j] = None) = (master.routes[l] = None)

(* The last layer of the request that starts at layer l: the same client   *)
(* address, and shadows only with shadows.                                 *)
SameRequest(l, k) ==
  \A j \in l .. k : master.routes[j] = master.routes[l]

RequestEnd(l) ==
  CHOOSE k \in l .. NumLayers - 1 :
    /\ SameRequest(l, k)
    /\ k + 1 \in Layers => ~SameRequest(l, k + 1)

(* Mutant: the names of a compact request are counted from behind the first. *)
OperationsShifted(h, first, last) ==
  IF deployment.encoding = "compact" THEN [i \in 1 .. last - first + 1 |-> first + i]
  ELSE [i \in 1 .. last - first + 1 |-> first + i - 1]

(* The layers a worker looks up for a request over first .. last: the      *)
(* names sent, the names it counts up from the first one, or its own names *)
(* by index; a name that is not loaded ends the connection.                *)
Operations(h, first, last) ==
  CASE deployment.encoding = "batch" -> [i \in 1 .. last - first + 1 |-> first + i - 1]
    [] deployment.encoding = "compact" ->
         LET num_layers == last - first + 1
         IN  [offset \in 1 .. num_layers |-> first + (offset - 1)]
    [] deployment.encoding = "range" ->
         LET block_names_by_idx == [l \in Layers |-> IF l \in workers[h].blocks THEN l ELSE None]
         IN  [offset \in 1 .. last - first + 1 |-> block_names_by_idx[first + offset - 1]]

LocalLayer ==
  /\ Running /\ pass.next \in Layers /\ ~Remote(pass.next)
  /\ pass' = [pass EXCEPT !.next = @ + 1, !.computed = Append(@, pass.next)]
  /\ UNCHANGED <<deployment, files, workers, master, connected, report>>

Promoted ==
  master.promoted \/ (UsesShadow(pass.next) /\ pass.prompt /\ deployment.promote)

Request ==
  /\ Running /\ pass.next \in Layers /\ Remote(pass.next)
  /\ LET h == Target(pass.next)
         last == RequestEnd(pass.next)
         ops == Operations(h, pass.next, last)
         served == h \in connected /\ \A i \in DOMAIN ops : ops[i] \in workers[h].blocks
     IN  /\ pass' = IF served
                    THEN [pass EXCEPT !.next = last + 1, !.computed = @ \o ops]
                    ELSE [pass EXCEPT !.status =
                            IF h \in connected THEN "missing" ELSE "disconnected"]
         /\ connected' = IF served THEN connected ELSE connected \ {h}
         /\ master' = [master EXCEPT !.promoted = Promoted]
  /\ UNCHANGED <<deployment, files, workers, report>>

EndPass ==
  /\ Running /\ pass.next = NumLayers
  /\ pass' = [pass EXCEPT !.status = "done"]
  /\ UNCHANGED <<deployment, files, workers, master, connected, report>>

-----------------------------------------------------------------------------
(* The operator edits the file of a machine.                               *)
Edit(m) ==
  /\ \E file \in deployment.edits \ {files[m]} : files' = [files EXCEPT ![m] = file]
  /\ UNCHANGED <<deployment, workers, master, connected, pass, report>>

(* Mutant: a worker is active if one of its name was loaded.               *)
ReportByName ==
  /\ master.status = "up"
  /\ report' =
       IF ~Readable(files[Master]) THEN [error |-> TRUE, workers |-> << >>, reload |-> FALSE]
       ELSE LET now == Topology(files[Master])
                active(name) == name \in DOMAIN master.view
            IN  [error |-> FALSE,
                 workers |-> [name \in DOMAIN now |->
                                [node |-> now[name], active |-> active(name), online |-> FALSE]],
                 reload |-> \E name \in DOMAIN now : ~active(name)]
  /\ UNCHANGED <<deployment, files, workers, master, connected, pass>>

(* The topology answer: the file as it is now, against what was loaded.    *)
Report ==
  /\ master.status = "up"
  /\ report' =
       IF ~Readable(files[Master]) THEN [error |-> TRUE, workers |-> << >>, reload |-> FALSE]
       ELSE LET now == Topology(files[Master])
                active(name) == name \in DOMAIN master.view /\ master.view[name] = now[name]
                online(name) == now[name].host \in Hosts /\ workers[now[name].host].status = "up"
            IN  [error |-> FALSE,
                 workers |-> [name \in DOMAIN now |->
                                [node |-> now[name], active |-> active(name),
                                 online |-> online(name)]],
                 reload |-> \E name \in DOMAIN now : ~active(name)]
  /\ UNCHANGED <<deployment, files, workers, master, connected, pass>>

NoReport == [error |-> FALSE, workers |-> << >>, reload |-> FALSE]

Init ==
  /\ deployment \in Deployments
  /\ files = deployment.files
  /\ workers = [h \in deployment.hosts |-> NoWorker("down")]
  /\ master = NoMaster("down")
  /\ connected = {}
  /\ pass = NoPass
  /\ report = NoReport

Next ==
  \/ \E h \in Hosts : StartWorker(h) \/ StopWorker(h)
  \/ StartMaster \/ StopMaster
  \/ \E prompt \in BOOLEAN : StartPass(prompt)
  \/ LocalLayer \/ Request \/ EndPass
  \/ \E m \in Hosts \cup {Master} : Edit(m)
  \/ Report

Spec == Init /\ [][Next]_vars

-----------------------------------------------------------------------------
TypeOK ==
  /\ deployment \in Deployments
  /\ workers \in [Hosts -> [status : {"up", "down", "refused"}, blocks : SUBSET Layers,
                            view : {w.view : w \in {workers[h] : h \in Hosts}}]]
  /\ master.status \in {"up", "down", "refused"}
  /\ master.shadow \in Hosts \cup {None}
  /\ connected \subseteq Hosts
  /\ pass.status \in {"none", "running", "done", "missing", "disconnected"}
  /\ pass.next \in 0 .. NumLayers

(* Whatever files and arguments the machines have, also while they         *)
(* disagree, a pass that ends has computed every layer of the model, once  *)
(* and in order; the hidden state is never that of another model.          *)
PassIsModel ==
  pass.status \in {"running", "done"} =>
    /\ pass.computed = [i \in 1 .. pass.next |-> i - 1]
    /\ pass.status = "done" => pass.next = NumLayers

(* The one node of the topology at address h is the one its worker serves. *)
Named(topology, h) == {name \in DOMAIN topology : topology[name].host = h} = {Name(h)}

(* A worker lacks a layer of a request only where the machines disagree:   *)
(* one that has loaded the master's topology, with its own name and an     *)
(* address no other node has, serves every request of its own layers, even *)
(* if two nodes claim a layer and the processes iterate their maps in      *)
(* different orders, and the shadow of the layers it has been given.       *)
AgreementServes ==
  [][pass.status = "running" /\ pass'.status = "missing" =>
       LET h == Target(pass.next)
       IN  IF master.routes[pass.next] = None
           THEN \E l \in Layers : master.routes[l] = None /\ l \notin workers[h].blocks
           ELSE workers[h].view # master.view \/ ~Named(master.view, h)]_vars

(* api/mod.rs:214-216: active "tells callers whether the running Master    *)
(* already loaded the same worker at startup".  While the file is edited,  *)
(* an active worker of the answer gets the requests for each of its layers *)
(* that no other loaded node claims, and if no reload is asked for, so     *)
(* does every worker of the file.                                          *)
ReportTrue ==
  [][report' # report /\ ~report'.error =>
       \A name \in DOMAIN report'.workers :
          LET worker == report'.workers[name]
          IN  worker.active \/ ~report'.reload =>
                \A l \in worker.node.layers \cap Layers :
                   Claimants(master.view, l) \subseteq {name} => master.routes[l] = worker.node.host]_vars
=============================================================================
