-------------------------- MODULE PlacementProofs --------------------------
(***************************************************************************)
(* Proofs about Placement: whatever the machines have read, a pass that    *)
(* ends is the model; machines that agree serve each other; the topology   *)
(* answer is true of the routes in use.  The inductive invariant keeps,    *)
(* for every process, how what it has loaded follows from the topology it  *)
(* read when it started, since the files change underneath.                *)
(***************************************************************************)
EXTENDS Placement, FiniteSetTheorems, SequenceTheorems, TLAPS

-----------------------------------------------------------------------------
(* The inductive invariant, in named parts.                                *)

Processes == Hosts \cup {Master}

(* A worker is a record, and none has loaded a layer without weights.      *)
WorkersInv ==
  /\ workers = [h \in Hosts |-> workers[h]]
  /\ \A h \in Hosts :
       /\ workers[h] = [status |-> workers[h].status, blocks |-> workers[h].blocks,
                        view |-> workers[h].view]
       /\ workers[h].status \in {"up", "down", "refused"}
       /\ workers[h].blocks \subseteq Layers

(* What a worker has loaded follows from the topology it read when it      *)
(* started, and from the node it found itself to be there.                 *)
LoadedInv ==
  \A h \in Hosts : workers[h].status = "up" =>
     \E name \in NodesFor(h, workers[h].view) :
        workers[h].blocks = BlocksOf(h, workers[h].view[name])

MasterInv ==
  /\ master = [status |-> master.status, view |-> master.view, routes |-> master.routes,
               shadow |-> master.shadow, promoted |-> master.promoted]
  /\ master.status \in {"up", "down", "refused"}
  /\ master.shadow \in Hosts \cup {None}

(* The routes follow from the topology the master read, in some order of   *)
(* its map, and the map has finitely many names.                           *)
RoutesInv ==
  master.status = "up" =>
     /\ IsFiniteSet(DOMAIN master.view) /\ None \notin DOMAIN master.view
     /\ \E order \in Orders(master.view) :
          master.routes = [l \in Layers |-> Route(master.view, order, l)]

(* A connection of the pool leads to a worker that runs.                   *)
ConnectedInv == \A h \in connected : h \in Hosts /\ workers[h].status = "up"

PassInv ==
  /\ pass = [status |-> pass.status, prompt |-> pass.prompt, next |-> pass.next,
             computed |-> pass.computed]
  /\ pass.status \in {"none", "running", "done", "missing", "disconnected"}
  /\ pass.next \in 0 .. NumLayers
  /\ PassIsModel

IInv ==
  /\ deployment \in Deployments
  /\ files \in [Processes -> FilesOf(deployment)]
  /\ WorkersInv
  /\ LoadedInv
  /\ MasterInv
  /\ RoutesInv
  /\ ConnectedInv
  /\ PassInv

-----------------------------------------------------------------------------
(* Operators of the model.                                                 *)

(* A set of naturals that has an element has a least one.                  *)
LEMMA Least ==
  ASSUME NEW T \in SUBSET Nat, T # {}
  PROVE  \E n \in T : \A m \in T : n <= m
<1> DEFINE R == OpToRel(<, Nat)
<1>1. \A x, y \in Nat : x < y => <<x, y>> \in R
  BY DEF OpToRel
<1>2. IsWellFoundedOn(R, Nat)
  BY NatLessThanWellFounded
<1> HIDE DEF R
<1>3. PICK n \in T : \A m \in T : ~(<<m, n>> \in R)
  BY <1>2, WFMin
<1>4. \A m \in T : ~(m < n)
  BY <1>1, <1>3
<1> QED BY <1>4

(* What the assumption says of the installation that was chosen.           *)
LEMMA Chosen ==
  ASSUME deployment \in Deployments
  PROVE  /\ NumLayers \in Nat /\ None \notin Layers
         /\ deployment.encoding \in {"batch", "compact", "range"}
         /\ deployment.files \in [Processes -> FilesOf(deployment)]
         /\ \A file \in FilesOf(deployment) : IsFiniteSet(DOMAIN file) /\ None \notin DOMAIN file
<1>1. NumLayers \in Nat
  BY DeploymentsAssumption DEF NumLayers
<1>2. None \notin Layers
  BY <1>1, DeploymentsAssumption DEF Layers
<1> QED BY <1>1, <1>2, DeploymentsAssumption DEF Processes, Hosts

(* The order of a map of finitely many names passes every one of them.     *)
LEMMA OrderCovers ==
  ASSUME NEW topology, IsFiniteSet(DOMAIN topology), NEW order \in Orders(topology)
  PROVE  /\ order \in [1..Cardinality(DOMAIN topology) -> DOMAIN topology]
         /\ Cardinality(DOMAIN topology) \in Nat
         /\ Len(order) = Cardinality(DOMAIN topology)
         /\ \A name \in DOMAIN topology : \E i \in 1..Len(order) : order[i] = name
<1> DEFINE n == Cardinality(DOMAIN topology)
<1>1. n \in Nat
  BY FS_CardinalityType
<1>2. order \in [1..n -> DOMAIN topology]
  BY DEF Orders, SetToSeqs
<1>3. \A i, j \in 1..n : i # j => order[i] # order[j]
  BY DEF Orders, SetToSeqs
<1>4. order \in Injection(1..n, DOMAIN topology)
  BY <1>2, <1>3 DEF Injection, IsInjective
<1>5. IsFiniteSet(1..n) /\ Cardinality(1..n) = n
  BY <1>1, FS_Interval
<1>6. order \in Surjection(1..n, DOMAIN topology)
  BY <1>4, <1>5, FS_Injection
<1>7. Len(order) = n
  BY <1>1, <1>2
<1> QED BY <1>1, <1>2, <1>6, <1>7 DEF Surjection

(* The owner of a layer is one of its claimants.                           *)
LEMMA OwnerClaims ==
  ASSUME NEW topology, IsFiniteSet(DOMAIN topology), NEW order \in Orders(topology), NEW l,
         Claimants(topology, l) # {}
  PROVE  Owner(topology, order, l) \in Claimants(topology, l)
<1> DEFINE I == {i \in 1..Len(order) : l \in topology[order[i]].layers}
<1>1. PICK name \in DOMAIN topology : l \in topology[name].layers
  BY DEF Claimants
<1>2. PICK i \in 1..Len(order) : order[i] = name
  BY OrderCovers
<1>3. I # {} /\ I \in SUBSET Nat
  BY <1>1, <1>2, OrderCovers
<1>4. Min(I) \in I
  <2>1. PICK m \in I : \A k \in I : m <= k
    BY <1>3, Least
  <2> HIDE DEF I
  <2> QED BY <2>1 DEF Min
<1>5. SelectInSeq(order, LAMBDA name_1 : l \in topology[name_1].layers) = Min(I)
  BY <1>3 DEF SelectInSeq
<1>6. Owner(topology, order, l) = order[Min(I)]
  BY <1>5 DEF Owner
<1>7. order[Min(I)] \in DOMAIN topology
  BY <1>4, OrderCovers
<1> QED BY <1>4, <1>6, <1>7 DEF Claimants

(* A request goes from its first layer to a last one of the model, over    *)
(* layers of one route only.                                               *)
LEMMA RequestEnds ==
  ASSUME NumLayers \in Nat, NEW l \in Layers
  PROVE  RequestEnd(l) \in l..NumLayers - 1 /\ SameRequest(l, RequestEnd(l))
<1> DEFINE Ends == {k \in l..NumLayers - 1 : k + 1 \in Layers => ~SameRequest(l, k + 1)}
<1>1. l \in Nat /\ l <= NumLayers - 1
  BY DEF Layers
<1>2. Ends \in SUBSET Nat
  BY <1>1
<1>3. NumLayers - 1 \in Ends
  BY <1>1 DEF Layers
<1>4. PICK k \in Ends : \A j \in Ends : k <= j
  BY <1>2, <1>3, Least
<1>5. SameRequest(l, k)
  <2>1. CASE k = l
    BY <2>1, <1>1 DEF SameRequest
  <2>2. CASE k # l
    <3>1. k - 1 \in l..NumLayers - 1 /\ k - 1 \notin Ends
      BY <2>2, <1>1, <1>4
    <3>2. SameRequest(l, (k - 1) + 1)
      BY <3>1
    <3>3. (k - 1) + 1 = k
      BY <1>1, <1>4
    <3> QED BY <3>2, <3>3
  <2> QED BY <2>1, <2>2
<1>6. \E e \in l..NumLayers - 1 : SameRequest(l, e) /\ (e + 1 \in Layers => ~SameRequest(l, e + 1))
  BY <1>4, <1>5
<1> QED BY <1>6 DEF RequestEnd

(* In each encoding a worker looks up the layers of the request one after  *)
(* the other, or finds no name where it has not loaded the layer.          *)
LEMMA LooksUp ==
  ASSUME deployment \in Deployments, NEW h, NEW l \in Layers, NEW last \in l..NumLayers - 1,
         NEW i \in 1..last - l + 1
  PROVE  /\ DOMAIN Operations(h, l, last) = 1..last - l + 1
         /\ l + i - 1 \in l..last
         /\ \/ Operations(h, l, last)[i] = l + i - 1
            \/ /\ Operations(h, l, last)[i] = None
               /\ l + i - 1 \notin workers[h].blocks
<1>1. NumLayers \in Nat /\ l \in Nat /\ last \in Int /\ i \in Int
  BY Chosen DEF Layers
<1>2. l + i - 1 \in l..last /\ l + i - 1 \in Layers /\ l + (i - 1) = l + i - 1
  BY <1>1 DEF Layers
<1>3. CASE deployment.encoding = "batch"
  BY <1>2, <1>3 DEF Operations
<1>4. CASE deployment.encoding = "compact"
  BY <1>2, <1>4 DEF Operations
<1>5. CASE deployment.encoding = "range"
  BY <1>2, <1>5 DEF Operations
<1> QED BY <1>3, <1>4, <1>5, Chosen

-----------------------------------------------------------------------------
(* A request that is served computes its layers in order.                  *)

(* The invariant of the workers in the words of the type invariant.        *)
LEMMA WorkersTyped ==
  ASSUME WorkersInv
  PROVE  workers \in [Hosts -> [status : {"up", "down", "refused"}, blocks : SUBSET Layers,
                                view : {w.view : w \in {workers[h] : h \in Hosts}}]]
<1> DEFINE R == [status : {"up", "down", "refused"}, blocks : SUBSET Layers,
                 view : {w.view : w \in {workers[h] : h \in Hosts}}]
<1>1. \A h \in Hosts : workers[h] \in R
  BY DEF WorkersInv
<1> QED BY <1>1 DEF WorkersInv

(* What a worker has loaded are layers of the model, so a name that it     *)
(* found is the layer the master meant.                                    *)
LEMMA ServedExact ==
  ASSUME deployment \in Deployments, WorkersInv, NEW h \in Hosts, NEW l \in Layers,
         NEW last \in l..NumLayers - 1,
         \A i \in DOMAIN Operations(h, l, last) :
            Operations(h, l, last)[i] \in workers[h].blocks
  PROVE  Operations(h, l, last) = [i \in 1..last - l + 1 |-> l + i - 1]
<1>1. NumLayers \in Nat /\ l \in Nat /\ last \in Int /\ last >= l /\ None \notin Layers
  BY Chosen DEF Layers
<1>2. 1 \in 1..last - l + 1
  BY <1>1
<1>3. DOMAIN Operations(h, l, last) = 1..last - l + 1
  BY <1>2, LooksUp
<1>4. \A i \in 1..last - l + 1 : Operations(h, l, last)[i] = l + i - 1
  <2> SUFFICES ASSUME NEW i \in 1..last - l + 1 PROVE Operations(h, l, last)[i] = l + i - 1
    OBVIOUS
  <2>1. Operations(h, l, last)[i] \in Layers
    BY <1>3 DEF WorkersInv
  <2> QED BY <2>1, <1>1, LooksUp
<1> DEFINE ops == Operations(h, l, last)
<1>5. ops = [i \in DOMAIN ops |-> ops[i]]
  <2>1. CASE deployment.encoding = "batch"
    BY <2>1 DEF Operations
  <2>2. CASE deployment.encoding = "compact"
    BY <2>2 DEF Operations
  <2>3. CASE deployment.encoding = "range"
    BY <2>3 DEF Operations
  <2> QED BY <2>1, <2>2, <2>3, Chosen
<1> QED BY <1>3, <1>4, <1>5

(* The layers of a pass, continued by those of a request.                  *)
LEMMA Continued ==
  ASSUME NEW n \in Nat, NEW k \in Nat
  PROVE  [i \in 1..n |-> i - 1] \o [i \in 1..k |-> n + i - 1] = [i \in 1..n + k |-> i - 1]
<1> DEFINE s == [i \in 1..n |-> i - 1]
           t == [i \in 1..k |-> n + i - 1]
           u == [i \in 1..n + k |-> i - 1]
<1>1. s \in Seq(Int) /\ Len(s) = n
  OBVIOUS
<1>2. t \in Seq(Int) /\ Len(t) = k
  OBVIOUS
<1>3. s \o t \in Seq(Int) /\ Len(s \o t) = n + k
  BY <1>1, <1>2
<1>4. \A i \in 1..n + k : (s \o t)[i] = i - 1
  <2> SUFFICES ASSUME NEW i \in 1..n + k PROVE (s \o t)[i] = i - 1
    OBVIOUS
  <2>1. CASE i <= n
    <3>1. (s \o t)[i] = s[i]
      BY <1>1, <1>2, <2>1
    <3> QED BY <3>1, <2>1
  <2>2. CASE i > n
    <3>1. (s \o t)[i] = t[i - n]
      BY <1>1, <1>2, <2>2
    <3>2. i - n \in 1..k
      BY <2>2
    <3>3. t[i - n] = n + (i - n) - 1
      BY <3>2
    <3> QED BY <3>1, <3>3
  <2> QED BY <2>1, <2>2
<1>5. u \in Seq(Int) /\ Len(u) = n + k
  OBVIOUS
<1>6. \A i \in 1..n + k : (s \o t)[i] = u[i]
  BY <1>4
<1> HIDE DEF s, t, u
<1>7. Len(s \o t) = Len(u) /\ \A i \in 1..Len(s \o t) : (s \o t)[i] = u[i]
  BY <1>3, <1>5, <1>6
<1>8. s \o t = u
  BY <1>3, <1>5, <1>7, SeqEqual
<1> QED BY <1>8 DEF s, t, u

-----------------------------------------------------------------------------
(* Steps that leave parts of the state alone.                              *)

(* The invariant of a part depends on the variables of that part and on    *)
(* the installation.                                                       *)
LEMMA PartsSame ==
  ASSUME deployment' = deployment
  PROVE  /\ files' = files /\ files \in [Processes -> FilesOf(deployment)] =>
              files' \in [Processes' -> FilesOf(deployment')]
         /\ workers' = workers /\ WorkersInv /\ LoadedInv => WorkersInv' /\ LoadedInv'
         /\ master' = master /\ MasterInv /\ RoutesInv => MasterInv' /\ RoutesInv'
         /\ connected' = connected /\ workers' = workers /\ ConnectedInv => ConnectedInv'
         /\ pass' = pass /\ PassInv => PassInv'
<1>1. NumLayers' = NumLayers /\ Layers' = Layers /\ Hosts' = Hosts /\ Processes' = Processes
  BY DEF NumLayers, Layers, Hosts, Processes
<1>2. files' = files /\ files \in [Processes -> FilesOf(deployment)] =>
        files' \in [Processes' -> FilesOf(deployment')]
  BY <1>1
<1>3. workers' = workers /\ WorkersInv /\ LoadedInv => WorkersInv' /\ LoadedInv'
  BY <1>1 DEF WorkersInv, LoadedInv, NodesFor, BlocksOf, Name, Planned, ShadowLayers, ExtraLayers
<1>4. master' = master /\ MasterInv /\ RoutesInv => MasterInv' /\ RoutesInv'
  BY <1>1 DEF MasterInv, RoutesInv
<1>5. connected' = connected /\ workers' = workers /\ ConnectedInv => ConnectedInv'
  BY <1>1 DEF ConnectedInv
<1>6. pass' = pass /\ PassInv => PassInv'
  BY <1>1 DEF PassInv, PassIsModel
<1> QED BY <1>2, <1>3, <1>4, <1>5, <1>6

(* What a process reads is a file of the installation.                     *)
LEMMA ViewFinite ==
  ASSUME deployment \in Deployments, files \in [Processes -> FilesOf(deployment)],
         NEW m \in Processes
  PROVE  IsFiniteSet(DOMAIN View(m)) /\ None \notin DOMAIN View(m)
<1>1. CASE Planned(m)
  <2>1. deployment.plan[m] \in FilesOf(deployment)
    BY <1>1 DEF FilesOf, Planned, Processes, Hosts
  <2>2. DOMAIN View(m) = DOMAIN deployment.plan[m]
    BY <1>1 DEF View, Topology
  <2> QED BY <2>1, <2>2, Chosen
<1>2. CASE ~Planned(m)
  <2>1. files[m] \in FilesOf(deployment)
    OBVIOUS
  <2>2. DOMAIN View(m) = DOMAIN files[m]
    BY <1>2 DEF View, Topology
  <2> QED BY <2>1, <2>2, Chosen
<1> QED BY <1>1, <1>2

-----------------------------------------------------------------------------
(* Workers and the master start and stop.                                  *)

(* A worker becomes what its topology gives it, or is not up.              *)
LEMMA WorkerBecomes ==
  ASSUME IInv, NEW h \in Hosts, NEW w, deployment' = deployment,
         workers' = [workers EXCEPT ![h] = w],
         w = [status |-> w.status, blocks |-> w.blocks, view |-> w.view],
         w.status \in {"up", "down", "refused"}, w.blocks \subseteq Layers,
         w.status = "up" => \E name \in NodesFor(h, w.view) :
                               w.blocks = BlocksOf(h, w.view[name]),
         \/ workers[h].status # "up" /\ connected' = connected
         \/ connected' = connected \ {h}
  PROVE  WorkersInv' /\ LoadedInv' /\ ConnectedInv'
<1>1. Hosts' = Hosts /\ Layers' = Layers
  BY DEF Hosts, Layers, NumLayers
<1>2. workers' = [k \in Hosts |-> IF k = h THEN w ELSE workers[k]]
  BY DEF IInv, WorkersInv
<1>3. \A k \in Hosts : workers'[k] = IF k = h THEN w ELSE workers[k]
  BY <1>2
<1>4. workers' = [k \in Hosts |-> workers'[k]]
  BY <1>2
<1>5. WorkersInv'
  <2>1. ASSUME NEW k \in Hosts
        PROVE  /\ workers'[k] = [status |-> workers'[k].status, blocks |-> workers'[k].blocks,
                                 view |-> workers'[k].view]
               /\ workers'[k].status \in {"up", "down", "refused"}
               /\ workers'[k].blocks \subseteq Layers
    BY <1>3 DEF IInv, WorkersInv
  <2> QED BY <1>1, <1>4, <2>1 DEF WorkersInv
<1>6. LoadedInv'
  <2>1. ASSUME NEW k \in Hosts, workers'[k].status = "up"
        PROVE  \E name \in NodesFor(k, workers'[k].view) :
                  workers'[k].blocks = BlocksOf(k, workers'[k].view[name])
    BY <1>3, <2>1 DEF IInv, LoadedInv
  <2>2. ASSUME NEW k \in Hosts
        PROVE  NodesFor(k, workers[k].view)' = NodesFor(k, workers'[k].view)
    BY DEF NodesFor, Name, Planned
  <2>3. ASSUME NEW k \in Hosts, NEW name
        PROVE  BlocksOf(k, workers[k].view[name])' = BlocksOf(k, workers'[k].view[name])
    BY <1>1 DEF BlocksOf, ShadowLayers, ExtraLayers
  <2> QED BY <1>1, <2>1, <2>2, <2>3 DEF LoadedInv
<1>7. ConnectedInv'
  BY <1>1, <1>3 DEF IInv, ConnectedInv
<1> QED BY <1>5, <1>6, <1>7

(* A worker that does not run has loaded nothing.                          *)
LEMMA WorkerGone ==
  ASSUME IInv, NEW h \in Hosts, NEW why \in {"down", "refused"}, deployment' = deployment,
         workers' = [workers EXCEPT ![h] = NoWorker(why)],
         \/ workers[h].status # "up" /\ connected' = connected
         \/ connected' = connected \ {h}
  PROVE  WorkersInv' /\ LoadedInv' /\ ConnectedInv'
<1> DEFINE w == NoWorker(why)
<1>1. /\ w = [status |-> w.status, blocks |-> w.blocks, view |-> w.view]
      /\ w.status \in {"down", "refused"} /\ w.blocks \subseteq Layers
  BY DEF NoWorker
<1>2. workers' = [workers EXCEPT ![h] = w]
  OBVIOUS
<1> HIDE DEF w
<1> QED BY <1>1, <1>2, WorkerBecomes

(* A worker that starts has no connection yet.                             *)
LEMMA StartWorkerInv ==
  ASSUME IInv, NEW h \in Hosts, StartWorker(h)
  PROVE  IInv'
<1>1. UNCHANGED <<deployment, files, master, connected, pass, report>>
      /\ workers[h].status = "down"
  BY DEF StartWorker
<1>2. WorkersInv' /\ LoadedInv' /\ ConnectedInv'
  <2>1. ASSUME NEW name \in NodesFor(h, View(h)), WorkerLoads(h, View(h)[name]),
               workers' = [workers EXCEPT ![h] =
                 [status |-> "up", blocks |-> BlocksOf(h, View(h)[name]), view |-> View(h)]]
        PROVE  WorkersInv' /\ LoadedInv' /\ ConnectedInv'
    <3> DEFINE w == [status |-> "up", blocks |-> BlocksOf(h, View(h)[name]), view |-> View(h)]
    <3>1. /\ w = [status |-> w.status, blocks |-> w.blocks, view |-> w.view]
          /\ w.status = "up" /\ w.blocks \subseteq Layers
          /\ w.blocks = BlocksOf(h, w.view[name]) /\ name \in NodesFor(h, w.view)
      BY <2>1 DEF WorkerLoads
    <3>2. workers' = [workers EXCEPT ![h] = w]
      BY <2>1
    <3> HIDE DEF w
    <3> QED BY <1>1, <3>1, <3>2, WorkerBecomes
  <2>2. CASE workers' = [workers EXCEPT ![h] = NoWorker("refused")]
    BY <1>1, <2>2, WorkerGone
  <2> QED BY <2>1, <2>2 DEF StartWorker
<1> QED BY <1>1, <1>2, PartsSame DEF IInv

(* A worker that stops leaves the master without its connection.           *)
LEMMA StopWorkerInv ==
  ASSUME IInv, NEW h \in Hosts, StopWorker(h)
  PROVE  IInv'
<1>1. WorkersInv' /\ LoadedInv' /\ ConnectedInv'
  BY WorkerGone DEF StopWorker
<1> QED BY <1>1, PartsSame DEF IInv, StopWorker

(* Before its first pass the master has computed nothing.                  *)
LEMMA NoPassInv ==
  ASSUME IInv, deployment' = deployment, pass' = NoPass
  PROVE  PassInv'
<1>1. NumLayers' = NumLayers /\ NumLayers \in Nat
  BY Chosen DEF IInv, NumLayers
<1> QED BY <1>1 DEF PassInv, PassIsModel, NoPass

(* A master that is not up has no routes.                                  *)
LEMMA MasterGone ==
  ASSUME NEW why \in {"down", "refused"}, master' = NoMaster(why), connected' = {}
  PROVE  MasterInv' /\ RoutesInv' /\ ConnectedInv'
BY DEF MasterInv, RoutesInv, ConnectedInv, NoMaster

(* A master that starts has read a topology, routes its layers by it, and  *)
(* is connected to every worker it needs.                                  *)
LEMMA StartMasterInv ==
  ASSUME IInv, StartMaster
  PROVE  IInv'
<1>1. UNCHANGED <<deployment, files, workers>> /\ pass' = NoPass
  BY DEF StartMaster
<1>2. Hosts' = Hosts /\ Layers' = Layers
  BY <1>1 DEF Hosts, Layers, NumLayers
<1>3. MasterInv' /\ RoutesInv' /\ ConnectedInv'
  <2>1. CASE master' = NoMaster("refused") /\ connected' = {}
    BY <2>1, MasterGone
  <2>2. ASSUME NEW order \in Orders(View(Master)), NEW shadow, NEW routes,
               routes = [l \in Layers |-> Route(View(Master), order, l)],
               (({routes[l] : l \in Layers} \cup {shadow}) \ {None})
                 \subseteq {h \in Hosts : workers[h].status = "up"},
               master' = [status |-> "up", view |-> View(Master), routes |-> routes,
                          shadow |-> shadow, promoted |-> FALSE],
               connected' = ({routes[l] : l \in Layers} \cup {shadow}) \ {None}
        PROVE  MasterInv' /\ RoutesInv' /\ ConnectedInv'
    <3>1. shadow \in Hosts \cup {None}
      BY <2>2
    <3>2. MasterInv'
      BY <1>2, <2>2, <3>1 DEF MasterInv
    <3>3. IsFiniteSet(DOMAIN View(Master)) /\ None \notin DOMAIN View(Master)
      BY ViewFinite DEF IInv, Processes
    <3>4. RoutesInv'
      BY <1>2, <2>2, <3>3 DEF RoutesInv
    <3>5. ConnectedInv'
      BY <1>1, <1>2, <2>2 DEF ConnectedInv
    <3> QED BY <3>2, <3>4, <3>5
  <2>3. ASSUME NEW order \in Orders(View(Master)),
               LET routes == [l \in Layers |-> Route(View(Master), order, l)]
                   shadow == IF deployment.shadow /\ \E l \in Layers : routes[l] = None
                             THEN ShadowHost(View(Master), order) ELSE None
                   needed == ({routes[l] : l \in Layers} \cup {shadow}) \ {None}
                   up == {h \in Hosts : workers[h].status = "up"}
               IN  IF needed \subseteq up
                   THEN /\ master' = [status |-> "up", view |-> View(Master),
                                      routes |-> routes, shadow |-> shadow, promoted |-> FALSE]
                        /\ connected' = needed
                   ELSE /\ master' = NoMaster("refused")
                        /\ connected' = {}
        PROVE  MasterInv' /\ RoutesInv' /\ ConnectedInv'
    <3> DEFINE routes == [l \in Layers |-> Route(View(Master), order, l)]
               shadow == IF deployment.shadow /\ \E l \in Layers : routes[l] = None
                         THEN ShadowHost(View(Master), order) ELSE None
               needed == ({routes[l] : l \in Layers} \cup {shadow}) \ {None}
               up == {h \in Hosts : workers[h].status = "up"}
    <3>1. CASE needed \subseteq up
      <4>1. /\ master' = [status |-> "up", view |-> View(Master), routes |-> routes,
                          shadow |-> shadow, promoted |-> FALSE]
            /\ connected' = needed
        BY <2>3, <3>1
      <4>2. routes = [l \in Layers |-> Route(View(Master), order, l)]
        OBVIOUS
      <4> HIDE DEF routes, shadow
      <4> QED BY <2>2, <3>1, <4>1, <4>2
    <3>2. CASE ~(needed \subseteq up)
      BY <2>1, <2>3, <3>2
    <3> QED BY <3>1, <3>2
  <2> QED BY <2>1, <2>3 DEF StartMaster
<1>4. PassInv'
  BY <1>1, NoPassInv
<1> QED BY <1>1, <1>3, <1>4, PartsSame DEF IInv

(* A master that stops forgets its routes and its connections.             *)
LEMMA StopMasterInv ==
  ASSUME IInv, StopMaster
  PROVE  IInv'
<1>1. MasterInv' /\ RoutesInv' /\ ConnectedInv'
  BY MasterGone DEF StopMaster
<1>2. PassInv'
  BY NoPassInv DEF StopMaster
<1> QED BY <1>1, <1>2, PartsSame DEF IInv, StopMaster

-----------------------------------------------------------------------------
(* Passes.                                                                 *)

(* Only which way the next requests go, not where, may change in a pass.   *)
LEMMA MasterPromotes ==
  ASSUME IInv, deployment' = deployment, NEW p, master' = [master EXCEPT !.promoted = p]
  PROVE  MasterInv' /\ RoutesInv'
<1>1. /\ Hosts' = Hosts /\ Layers' = Layers
  BY DEF Hosts, Layers, NumLayers
<1>2. master' = [status |-> master.status, view |-> master.view, routes |-> master.routes,
                 shadow |-> master.shadow, promoted |-> p]
  BY DEF IInv, MasterInv
<1>3. MasterInv'
  BY <1>1, <1>2 DEF IInv, MasterInv
<1>4. RoutesInv'
  BY <1>1, <1>2 DEF IInv, RoutesInv
<1> QED BY <1>3, <1>4

(* A pass begins with the first layer.                                     *)
LEMMA StartPassInv ==
  ASSUME IInv, NEW prompt, StartPass(prompt)
  PROVE  IInv'
<1>1. MasterInv' /\ RoutesInv'
  BY MasterPromotes DEF StartPass
<1>2. NumLayers' = NumLayers /\ NumLayers \in Nat
  BY Chosen DEF IInv, NumLayers, StartPass
<1>3. pass' = [status |-> "running", prompt |-> prompt, next |-> 0, computed |-> <<>>]
  BY DEF StartPass, NoPass
<1>4. PassInv'
  BY <1>2, <1>3 DEF PassInv, PassIsModel
<1> QED BY <1>1, <1>4, PartsSame DEF IInv, StartPass

(* What a step that continues the pass makes of its record.                *)
LEMMA PassFields ==
  ASSUME IInv, pass.status = "running", NEW n, NEW c,
         pass' = [pass EXCEPT !.next = n, !.computed = c]
  PROVE  /\ pass' = [status |-> pass'.status, prompt |-> pass'.prompt, next |-> pass'.next,
                     computed |-> pass'.computed]
         /\ pass'.status = "running" /\ pass'.next = n /\ pass'.computed = c
<1>1. pass = [status |-> pass.status, prompt |-> pass.prompt, next |-> pass.next,
              computed |-> pass.computed]
  BY DEF IInv, PassInv
<1> QED BY <1>1

(* A running pass goes on by the layers that follow.                       *)
LEMMA PassGoesOn ==
  ASSUME IInv, deployment' = deployment, pass.status = "running", NEW k \in Nat,
         pass.next + k <= NumLayers, NEW n, NEW c, n = pass.next + k,
         c = pass.computed \o [i \in 1..k |-> pass.next + i - 1],
         pass' = [pass EXCEPT !.next = n, !.computed = c]
  PROVE  PassInv'
<1>1. NumLayers' = NumLayers /\ NumLayers \in Nat /\ pass.next \in Nat
  BY Chosen DEF IInv, NumLayers, PassInv
<1>2. pass.computed = [i \in 1..pass.next |-> i - 1]
  BY DEF IInv, PassInv, PassIsModel
<1>3. c = [i \in 1..n |-> i - 1]
  BY <1>1, <1>2, Continued
<1>4. n \in 0..NumLayers'
  BY <1>1
<1>5. PassIsModel'
  BY <1>3, PassFields, Zenon DEF PassIsModel
<1> QED BY <1>4, <1>5, PassFields DEF PassInv

(* The master computes a layer of its own.                                 *)
LEMMA LocalLayerInv ==
  ASSUME IInv, LocalLayer
  PROVE  IInv'
<1>1. pass.next \in Nat /\ pass.next + 1 <= NumLayers /\ NumLayers \in Nat
  BY Chosen DEF IInv, PassInv, LocalLayer, Layers
<1>2. <<pass.next>> = [i \in 1..1 |-> pass.next + i - 1]
  BY <1>1
<1>3. pass.computed \in Seq(Int)
  BY <1>1 DEF IInv, PassInv, PassIsModel, LocalLayer, Running
<1>4. Append(pass.computed, pass.next) = pass.computed \o [i \in 1..1 |-> pass.next + i - 1]
  BY <1>1, <1>2, <1>3, AppendIsConcat
<1>5. PassInv'
  BY <1>1, <1>4, PassGoesOn DEF LocalLayer, Running
<1> QED BY <1>5, PartsSame DEF IInv, LocalLayer

(* A worker computes the layers of a request, all of them or, where one is *)
(* missing or the connection is gone, none.                                *)
LEMMA RequestInv ==
  ASSUME IInv, Request
  PROVE  IInv'
<1> DEFINE h == Target(pass.next)
           last == RequestEnd(pass.next)
           ops == Operations(h, pass.next, last)
           served == h \in connected /\ \A i \in DOMAIN ops : ops[i] \in workers[h].blocks
<1>1. /\ Running /\ pass.next \in Layers
      /\ UNCHANGED <<deployment, files, workers, report>>
      /\ master' = [master EXCEPT !.promoted = Promoted]
  BY DEF Request
<1>2. MasterInv' /\ RoutesInv'
  BY <1>1, MasterPromotes
<1>3. NumLayers' = NumLayers /\ NumLayers \in Nat /\ pass.next \in Nat
      /\ last \in pass.next..NumLayers - 1
  BY <1>1, Chosen, RequestEnds DEF IInv, NumLayers, Layers
<1>4. CASE served
  <2>1. pass' = [pass EXCEPT !.next = last + 1, !.computed = @ \o ops] /\ connected' = connected
    BY <1>4 DEF Request
  <2>2. h \in Hosts
    BY <1>4 DEF IInv, ConnectedInv
  <2>3. ops = [i \in 1..last - pass.next + 1 |-> pass.next + i - 1]
    BY <1>1, <1>3, <1>4, <2>2, ServedExact DEF IInv
  <2> DEFINE k == last - pass.next + 1
  <2>4. k \in Nat /\ pass.next + k = last + 1 /\ pass.next + k <= NumLayers
    BY <1>3
  <2>5. pass' = [pass EXCEPT !.next = pass.next + k,
                             !.computed = @ \o [i \in 1..k |-> pass.next + i - 1]]
    BY <2>1, <2>3, <2>4
  <2> HIDE DEF k
  <2>6. PassInv'
    BY <1>1, <2>4, <2>5, PassGoesOn DEF Running
  <2> QED BY <1>1, <1>2, <2>1, <2>6, PartsSame DEF IInv
<1>5. CASE ~served
  <2>1. PICK why \in {"missing", "disconnected"} :
          pass' = [pass EXCEPT !.status = why] /\ connected' = connected \ {h}
    BY <1>5 DEF Request
  <2>2. PassInv'
    BY <1>3, <2>1 DEF IInv, PassInv, PassIsModel
  <2>3. ConnectedInv'
    BY <1>1, <2>1 DEF IInv, ConnectedInv, Hosts
  <2> QED BY <1>1, <1>2, <2>2, <2>3, PartsSame DEF IInv
<1> QED BY <1>4, <1>5

(* A pass is done when it has passed the last layer.                       *)
LEMMA EndPassInv ==
  ASSUME IInv, EndPass
  PROVE  IInv'
<1>1. NumLayers' = NumLayers
  BY DEF EndPass, NumLayers
<1>2. PassInv'
  BY <1>1 DEF IInv, PassInv, PassIsModel, EndPass, Running
<1> QED BY <1>2, PartsSame DEF IInv, EndPass

(* Editing a file changes nothing that was loaded.                         *)
LEMMA EditInv ==
  ASSUME IInv, NEW m \in Hosts \cup {Master}, Edit(m)
  PROVE  IInv'
<1>1. PICK file \in deployment.edits : files' = [files EXCEPT ![m] = file]
  BY DEF Edit
<1>2. file \in FilesOf(deployment)
  BY DEF FilesOf
<1>3. files' \in [Processes -> FilesOf(deployment)]
  BY <1>1, <1>2 DEF IInv
<1>4. Processes' = Processes
  BY DEF Edit, Processes, Hosts
<1> QED BY <1>3, <1>4, PartsSame DEF IInv, Edit

-----------------------------------------------------------------------------
(* The invariant.                                                          *)

(* Nothing runs at first.                                                  *)
LEMMA InitInv == Init => IInv
<1> SUFFICES ASSUME Init
             PROVE  IInv
  OBVIOUS
<1>1. NumLayers \in Nat /\ files \in [Processes -> FilesOf(deployment)]
  BY Chosen DEF Init
<1>2. WorkersInv /\ LoadedInv
  BY DEF Init, WorkersInv, LoadedInv, NoWorker, Hosts
<1>3. MasterInv /\ RoutesInv /\ ConnectedInv
  BY DEF Init, MasterInv, RoutesInv, ConnectedInv, NoMaster
<1>4. PassInv
  BY <1>1 DEF Init, PassInv, PassIsModel, NoPass
<1> QED BY <1>1, <1>2, <1>3, <1>4 DEF IInv, Init

(* Every step preserves the invariant.                                     *)
LEMMA StepInv == IInv /\ [Next]_vars => IInv'
<1> SUFFICES ASSUME IInv, [Next]_vars
             PROVE  IInv'
  OBVIOUS
<1>1. ASSUME NEW h \in Hosts, StartWorker(h) PROVE IInv'
  BY <1>1, StartWorkerInv
<1>2. ASSUME NEW h \in Hosts, StopWorker(h) PROVE IInv'
  BY <1>2, StopWorkerInv
<1>3. CASE StartMaster
  BY <1>3, StartMasterInv
<1>4. CASE StopMaster
  BY <1>4, StopMasterInv
<1>5. ASSUME NEW prompt \in BOOLEAN, StartPass(prompt) PROVE IInv'
  BY <1>5, StartPassInv
<1>6. CASE LocalLayer
  BY <1>6, LocalLayerInv
<1>7. CASE Request
  BY <1>7, RequestInv
<1>8. CASE EndPass
  BY <1>8, EndPassInv
<1>9. ASSUME NEW m \in Hosts \cup {Master}, Edit(m) PROVE IInv'
  BY <1>9, EditInv
<1>10. CASE Report
  BY <1>10, PartsSame DEF IInv, Report
<1>11. CASE UNCHANGED vars
  BY <1>11, PartsSame DEF IInv, vars
<1> QED BY <1>1, <1>2, <1>3, <1>4, <1>5, <1>6, <1>7, <1>8, <1>9, <1>10, <1>11 DEF Next

(* What every process has loaded follows from the topology it read when it *)
(* started, whatever the files are by now, and a pass has computed a first *)
(* part of the model, in order (spm/topology.rs, Worker::new, the loaders  *)
(* of the master, Client::forward_batch and the worker loop).              *)
THEOREM Invariance == Spec => []IInv
BY InitInv, StepInv, PTL DEF Spec

(* Type correctness: in particular no worker ever holds a layer the model  *)
(* does not have, and the pool connects to workers only.                   *)
THEOREM TypeCorrect == Spec => []TypeOK
<1>1. IInv => TypeOK
  BY WorkersTyped DEF IInv, TypeOK, MasterInv, ConnectedInv, PassInv
<1> QED BY <1>1, Invariance, PTL

(* Whatever topology files and arguments the machines have, and in every   *)
(* request encoding, a pass that ends has computed every layer of the      *)
(* model, once and in order (Context::forward, the worker loop's lookup).  *)
THEOREM PassesAreTheModel == Spec => []PassIsModel
<1>1. IInv => PassIsModel
  BY DEF IInv, PassInv
<1> QED BY <1>1, Invariance, PTL

-----------------------------------------------------------------------------
(* What holds of a step.                                                   *)

(* A request that a worker cannot serve has a layer it has not loaded.     *)
LEMMA MissingLayer ==
  ASSUME IInv, Request, pass'.status = "missing"
  PROVE  LET h == Target(pass.next)
         IN  /\ h \in Hosts /\ workers[h].status = "up"
             /\ \E k \in Layers : /\ master.routes[k] = master.routes[pass.next]
                                  /\ k \notin workers[h].blocks
<1> DEFINE h == Target(pass.next)
           last == RequestEnd(pass.next)
           ops == Operations(h, pass.next, last)
           served == h \in connected /\ \A i \in DOMAIN ops : ops[i] \in workers[h].blocks
<1>1. Running /\ pass.next \in Layers
  BY DEF Request
<1>2. ~served /\ h \in connected
  <2>1. pass' = IF served
                THEN [pass EXCEPT !.next = last + 1, !.computed = @ \o ops]
                ELSE [pass EXCEPT !.status =
                        IF h \in connected THEN "missing" ELSE "disconnected"]
    BY DEF Request
  <2>2. pass.status = "running"
    BY <1>1 DEF Running
  <2> HIDE DEF served, h, last, ops
  <2> QED BY <2>1, <2>2 DEF IInv, PassInv
<1>3. h \in Hosts /\ workers[h].status = "up"
  BY <1>2 DEF IInv, ConnectedInv
<1>4. PICK i \in DOMAIN ops : ops[i] \notin workers[h].blocks
  BY <1>2
<1>5. NumLayers \in Nat /\ pass.next \in Nat
  BY <1>1, Chosen DEF IInv, Layers
<1>6. last \in pass.next..NumLayers - 1 /\ SameRequest(pass.next, last)
  BY <1>1, <1>5, RequestEnds
<1>7. DOMAIN ops = 1..last - pass.next + 1
  <2>1. 1 \in 1..last - pass.next + 1
    BY <1>5, <1>6
  <2> QED BY <1>1, <1>6, <2>1, LooksUp, ZenonT(60) DEF IInv
<1> DEFINE k == pass.next + i - 1
<1>8. k \in pass.next..last /\ k \notin workers[h].blocks
  BY <1>1, <1>4, <1>6, <1>7, LooksUp DEF IInv
<1>9. k \in Layers /\ master.routes[k] = master.routes[pass.next]
  BY <1>5, <1>6, <1>8 DEF Layers, SameRequest
<1> QED BY <1>3, <1>8, <1>9

(* Only a request ends a pass for a missing layer.                         *)
LEMMA OnlyRequestsMiss ==
  ASSUME IInv, [Next]_vars, pass.status = "running", pass'.status = "missing"
  PROVE  Request
<1>1. pass' # pass
  OBVIOUS
<1>2. ASSUME NEW prompt \in BOOLEAN, StartPass(prompt) PROVE FALSE
  BY <1>2 DEF StartPass
<1>3. CASE LocalLayer
  BY <1>3 DEF LocalLayer, IInv, PassInv
<1>4. CASE EndPass
  BY <1>4 DEF EndPass, IInv, PassInv
<1>5. CASE StartMaster
  BY <1>5 DEF StartMaster, NoPass
<1> QED BY <1>1, <1>2, <1>3, <1>4, <1>5
        DEF Next, StartWorker, StopWorker, StopMaster, Edit, Report, vars

(* A worker that runs by the master's topology, under its own name and at  *)
(* an address of its own, has loaded every layer the master sends there.   *)
LEMMA AgreedLoaded ==
  ASSUME IInv, master.status = "up", NEW h \in Hosts, workers[h].status = "up",
         workers[h].view = master.view, Named(master.view, h),
         NEW k \in Layers, master.routes[k] = h, h # None
  PROVE  k \in workers[h].blocks
<1>1. PICK order \in Orders(master.view) :
        master.routes = [l \in Layers |-> Route(master.view, order, l)]
  BY DEF IInv, RoutesInv
<1>2. IsFiniteSet(DOMAIN master.view) /\ None \notin DOMAIN master.view
  BY DEF IInv, RoutesInv
<1> DEFINE name == Owner(master.view, order, k)
<1>3. Route(master.view, order, k) = h
  BY <1>1
<1>4. name # None /\ master.view[name].host = h
  BY <1>3 DEF Route
<1>5. Claimants(master.view, k) # {}
  BY <1>4 DEF Owner
<1>6. name \in DOMAIN master.view /\ k \in master.view[name].layers
  BY <1>2, <1>5, OwnerClaims DEF Claimants
<1>7. name = Name(h)
  BY <1>4, <1>6 DEF Named
<1>8. NodesFor(h, workers[h].view) = {name}
  BY <1>6, <1>7 DEF NodesFor
<1>9. workers[h].blocks = BlocksOf(h, master.view[name])
  BY <1>8 DEF IInv, LoadedInv
<1> QED BY <1>6, <1>9 DEF BlocksOf

(* A worker lacks a layer of a request only where the machines disagree,   *)
(* in every encoding and however the processes iterate their maps          *)
(* (Worker::new, get_node_for_layer, the worker loop's lookup).            *)
THEOREM AgreementIsEnough == Spec => AgreementServes
<1> DEFINE A == pass.status = "running" /\ pass'.status = "missing" =>
                  LET h == Target(pass.next)
                  IN  IF master.routes[pass.next] = None
                      THEN \E l \in Layers : master.routes[l] = None /\ l \notin workers[h].blocks
                      ELSE workers[h].view # master.view \/ ~Named(master.view, h)
<1>1. ASSUME IInv, [Next]_vars PROVE A
  <2> SUFFICES ASSUME pass.status = "running", pass'.status = "missing"
               PROVE  A
    OBVIOUS
  <2> DEFINE h == Target(pass.next)
  <2>1. Request
    BY <1>1, OnlyRequestsMiss
  <2>2. /\ h \in Hosts /\ workers[h].status = "up" /\ master.status = "up"
        /\ \E k \in Layers : /\ master.routes[k] = master.routes[pass.next]
                             /\ k \notin workers[h].blocks
    BY <1>1, <2>1, MissingLayer DEF Request, Running
  <2>3. CASE master.routes[pass.next] = None
    BY <2>2, <2>3
  <2>4. CASE master.routes[pass.next] # None
    <3>1. h = master.routes[pass.next]
      BY <2>4 DEF Target
    <3>2. ~(workers[h].view = master.view /\ Named(master.view, h))
      BY <1>1, <2>2, <2>4, <3>1, AgreedLoaded
    <3> QED BY <2>4, <3>2
  <2> QED BY <2>3, <2>4
<1> HIDE DEF A
<1>2. IInv /\ [Next]_vars => [A]_vars
  BY <1>1
<1>3. Spec => [][A]_vars
  BY <1>2, Invariance, PTL DEF Spec
<1> QED BY <1>3 DEF AgreementServes, A

(* A layer only one node claims is routed to it.                           *)
LEMMA OnlyClaimant ==
  ASSUME IInv, master.status = "up", NEW name, NEW l \in Layers,
         name \in DOMAIN master.view, l \in master.view[name].layers,
         Claimants(master.view, l) \subseteq {name}
  PROVE  master.routes[l] = master.view[name].host
<1>1. PICK order \in Orders(master.view) :
        master.routes = [k \in Layers |-> Route(master.view, order, k)]
  BY DEF IInv, RoutesInv
<1>2. IsFiniteSet(DOMAIN master.view) /\ None \notin DOMAIN master.view
  BY DEF IInv, RoutesInv
<1>3. name \in Claimants(master.view, l)
  BY DEF Claimants
<1>4. Owner(master.view, order, l) = name
  BY <1>2, <1>3, OwnerClaims
<1> QED BY <1>1, <1>2, <1>4 DEF Route

(* api/mod.rs:214-216: an active worker of a topology answer really gets   *)
(* the requests for the layers that are its own in what the master has     *)
(* loaded, however the file was edited, and without a demand to reload so  *)
(* does every worker of the file.                                          *)
THEOREM ReportIsTrue == Spec => ReportTrue
<1> DEFINE B == report' # report /\ ~report'.error =>
                  \A name \in DOMAIN report'.workers :
                     LET worker == report'.workers[name]
                     IN  worker.active \/ ~report'.reload =>
                           \A l \in worker.node.layers \cap Layers :
                              Claimants(master.view, l) \subseteq {name} =>
                                 master.routes[l] = worker.node.host
<1>1. ASSUME IInv, [Next]_vars PROVE B
  <2> SUFFICES ASSUME report' # report, ~report'.error
               PROVE  B
    OBVIOUS
  <2>1. Report
    BY <1>1 DEF Next, StartWorker, StopWorker, StartMaster, StopMaster, StartPass, LocalLayer,
          Request, EndPass, Edit, vars
  <2> DEFINE now == Topology(files[Master])
             active(name) == name \in DOMAIN master.view /\ master.view[name] = now[name]
             online(name) == now[name].host \in Hosts /\ workers[now[name].host].status = "up"
  <2>2. report' = [error |-> FALSE,
                   workers |-> [name \in DOMAIN now |->
                                  [node |-> now[name], active |-> active(name),
                                   online |-> online(name)]],
                   reload |-> \E name \in DOMAIN now : ~active(name)]
    BY <2>1 DEF Report
  <2>3. ASSUME NEW name \in DOMAIN now, active(name), NEW l \in now[name].layers \cap Layers,
               Claimants(master.view, l) \subseteq {name}
        PROVE  master.routes[l] = now[name].host
    BY <1>1, <2>1, <2>3, OnlyClaimant DEF Report
  <2> HIDE DEF now, active, online
  <2>4. ASSUME NEW name \in DOMAIN report'.workers
        PROVE  /\ name \in DOMAIN now /\ report'.workers[name].node = now[name]
               /\ report'.workers[name].active \/ ~report'.reload => active(name)
    BY <2>2
  <2> QED BY <2>3, <2>4
<1> HIDE DEF B
<1>2. IInv /\ [Next]_vars => [B]_vars
  BY <1>1
<1>3. Spec => [][B]_vars
  BY <1>2, Invariance, PTL DEF Spec
<1> QED BY <1>3 DEF ReportTrue, B

=============================================================================
