----------------------------- MODULE WireProofs -----------------------------
(***************************************************************************)
(* What holds of the frames of a client and a worker, whatever is dropped. *)
(*                                                                         *)
(* RateLimited is not inductive: a request and a probe may both hold slots,*)
(* the one with the later slot may write first, and either may be dropped  *)
(* with its slot unused.  Paced says what a held slot promises.            *)
(*                                                                         *)
(* HandledWhole is not inductive either: a dropped request leaves part of  *)
(* a frame on the stream, and the next frame follows it.  WholeInv says    *)
(* that the parts of requests are in order all the same.                   *)
(*                                                                         *)
(* Undisturbed is not inductive: StageInv says where the one frame of the  *)
(* request in progress is while nothing has been dropped or cut off.       *)
(***************************************************************************)
EXTENDS Wire, TLAPS

Phases == {"idle", "write", "await", "read"}
Task == [of : Nat, length : Nat, phase : Phases, done : Nat, slot : Nat \cup {None}]

(* A unit that was sent: the parts belong to requests.                     *)
HeaderUnits == [kind : {"header"}, of : {None}, index : Nat, total : Nat]
PartUnits == [kind : {"part"}, of : Requests, index : Nat, total : Nat]
SentUnits == HeaderUnits \cup PartUnits

TypeInv ==
  /\ request \in Task /\ request.of \in Requests
  /\ probe \in Task /\ probe.of \in 0 .. MaxProbes
  /\ request.phase = "write" => request.done <= request.length
  /\ up \in Seq(SentUnits) /\ down \in Seq(SentUnits) /\ buffer \in Seq(SentUnits)
  /\ buffer # <<>> => request.phase = "read" /\ Len(buffer) <= request.length
  /\ serving \in Requests \cup {None}
  /\ limiter \in Nat /\ now \in 0 .. MaxTime /\ sent \in Nat
  /\ answers \subseteq Requests \X Requests
  /\ dropped \subseteq Requests

Holds(task) == task.phase = "write" /\ task.slot # None
Held(task) == IF Holds(task) THEN TimeOf(task) ELSE 0

(* With the time s of all units written, the end l of the last slot and    *)
(* the time n: a slot that was given out ends before the last one does,    *)
(* and what was written before it begins leaves room for its unit.         *)
Slotted(task, s, l, n) ==
  Holds(task) =>
    /\ task.slot + TimeOf(task) <= l
    /\ (s <= task.slot \/ s + TimeOf(task) <= n + PartTime)

(* The slots of two tasks do not overlap, and the later one leaves room    *)
(* for the unit of the earlier one, which may be written after its own.    *)
Before(task, other) == task.slot + TimeOf(task) <= other.slot
Apart(task, other, s) ==
  Holds(task) /\ Holds(other) =>
    /\ (Before(task, other) \/ Before(other, task))
    /\ Before(task, other) => s + TimeOf(task) <= other.slot
    /\ Before(other, task) => s + TimeOf(other) <= task.slot

Paced(task, other, s, l, n) ==
  /\ s + Held(task) + Held(other) <= l
  /\ Slotted(task, s, l, n) /\ Slotted(other, s, l, n)
  /\ Apart(task, other, s)
  /\ s <= n + PartTime

PaceInv == limited => Paced(request, probe, sent, limiter, now)

-----------------------------------------------------------------------------
(* to_writer: what the header holds is a length, whatever was cast.        *)
LEMMA SizeType ==
  ASSUME NEW length \in Nat
  PROVE  SizeOf(length) \in Nat
<1>1. Wrap \in Nat /\ Wrap > 0
  BY SizeAssumption
<1> QED BY <1>1 DEF SizeOf

(* What is appended to a stream is a stream.                               *)
LEMMA JoinType ==
  ASSUME NEW S, NEW s \in Seq(S), NEW t \in Seq(S)
  PROVE  s \o t \in Seq(S) /\ Len(s \o t) = Len(s) + Len(t)
OBVIOUS

(* The units of a stream that was appended to.                             *)
LEMMA JoinUnits ==
  ASSUME NEW S, NEW s \in Seq(S), NEW t \in Seq(S)
  PROVE  \A j \in 1 .. Len(s) + Len(t) :
           (s \o t)[j] = IF j <= Len(s) THEN s[j] ELSE t[j - Len(s)]
OBVIOUS

(* A part of a stream is a stream.                                         *)
LEMMA PartOfStream ==
  ASSUME NEW S, NEW s \in Seq(S), NEW i \in 1 .. Len(s) + 1, NEW j \in 0 .. Len(s)
  PROVE  SubSeq(s, i, j) \in Seq(S)
OBVIOUS

(* The units of the rest of a stream.                                      *)
LEMMA UnitsOfPart ==
  ASSUME NEW S, NEW s \in Seq(S), NEW i \in 1 .. Len(s) + 1
  PROVE  /\ DOMAIN SubSeq(s, i, Len(s)) = 1 .. Len(s) - i + 1
         /\ \A k \in 1 .. Len(s) - i + 1 : SubSeq(s, i, Len(s))[k] = s[k + i - 1]
OBVIOUS

(* A stream of some units is a stream of more kinds of units.              *)
LEMMA WiderStream ==
  ASSUME NEW S, NEW T, S \subseteq T, NEW s \in Seq(S)
  PROVE  s \in Seq(T)
OBVIOUS

(* A frame is its header and the parts of one request.                     *)
LEMMA FrameType ==
  ASSUME NEW m \in Requests, NEW length \in Nat
  PROVE  Frame(m, length) \in Seq(SentUnits) /\ Len(Frame(m, length)) = length + 1
<1> DEFINE header == <<Header(SizeOf(length))>>
           parts == [i \in 1 .. length |-> Part(m, i, length)]
<1>1. header \in Seq(SentUnits) /\ Len(header) = 1
  BY SizeType DEF Header, SentUnits, HeaderUnits
<1>2. parts \in Seq(SentUnits) /\ Len(parts) = length
  BY DEF Part, SentUnits, PartUnits
<1>3. Frame(m, length) = header \o parts
  BY DEF Frame
<1> HIDE DEF header, parts
<1>4. header \in Seq(SentUnits) /\ parts \in Seq(SentUnits)
  BY <1>1, <1>2
<1>5. header \o parts \in Seq(SentUnits) /\ Len(header \o parts) = Len(header) + Len(parts)
  BY <1>4, JoinType, Zenon
<1> QED BY <1>1, <1>2, <1>3, <1>5

(* The first k units of the frame of a request's message.                  *)
FrameAt(m, length, i) == IF i = 1 THEN Header(SizeOf(length)) ELSE Part(m, i - 1, length)
Begins(units, m, length, k) ==
  Len(units) = k /\ \A i \in 1 .. k : units[i] = FrameAt(m, length, i)

(* The units of a frame.                                                   *)
LEMMA FrameBegins ==
  ASSUME NEW m \in Requests, NEW length \in Nat
  PROVE  Begins(Frame(m, length), m, length, length + 1)
<1> DEFINE header == <<Header(SizeOf(length))>>
           parts == [i \in 1 .. length |-> Part(m, i, length)]
           frame == Frame(m, length)
<1>1. header \in Seq(SentUnits) /\ Len(header) = 1 /\ header[1] = Header(SizeOf(length))
  BY SizeType DEF Header, SentUnits, HeaderUnits
<1>2. parts \in Seq(SentUnits) /\ Len(parts) = length /\ \A i \in 1 .. length : parts[i] = Part(m, i, length)
  BY DEF Part, SentUnits, PartUnits
<1>3. frame = header \o parts
  BY DEF Frame
<1> HIDE DEF header, parts, frame
<1>4. header \in Seq(SentUnits) /\ parts \in Seq(SentUnits)
  BY <1>1, <1>2
<1>5. \A j \in 1 .. Len(header) + Len(parts) :
        (header \o parts)[j] = IF j <= Len(header) THEN header[j] ELSE parts[j - Len(header)]
  BY <1>4, JoinUnits, Zenon
<1>6. ASSUME NEW i \in 1 .. length + 1 PROVE frame[i] = FrameAt(m, length, i)
  <2>1. i \in 1 .. Len(header) + Len(parts)
    BY <1>1, <1>2
  <2>2. frame[i] = IF i <= Len(header) THEN header[i] ELSE parts[i - Len(header)]
    BY <1>3, <1>5, <2>1
  <2>3. CASE i = 1
    BY <1>1, <2>2, <2>3 DEF FrameAt
  <2>4. CASE i # 1
    <3>1. i - 1 \in 1 .. length /\ i - Len(header) = i - 1 /\ ~(i <= Len(header))
      BY <1>1, <2>4
    <3> QED BY <1>2, <2>2, <2>4, <3>1 DEF FrameAt
  <2> QED BY <2>3, <2>4
<1>7. Len(frame) = length + 1
  BY FrameType DEF frame
<1> QED BY <1>6, <1>7 DEF Begins, frame

(* A unit of a frame is one that may be sent.                              *)
LEMMA UnitType ==
  ASSUME NEW m \in Requests, NEW length \in Nat, NEW done \in Nat, done <= length
  PROVE  Frame(m, length)[done + 1] \in SentUnits
<1> DEFINE frame == Frame(m, length)
<1>1. frame \in Seq(SentUnits) /\ Len(frame) = length + 1 /\ done + 1 \in 1 .. length + 1
  BY FrameType
<1> HIDE DEF frame
<1>2. frame[done + 1] \in SentUnits
  BY <1>1
<1> QED BY <1>2 DEF frame

(* from_bytes: what is a message belongs to a request.                     *)
LEMMA MessageType ==
  ASSUME NEW units \in Seq(SentUnits), IsMessage(units)
  PROVE  units[1].of \in Requests
<1>1. units # <<>> /\ 1 \in DOMAIN units /\ units[1] \in SentUnits
  BY DEF IsMessage
<1>2. units[1] = Part(units[1].of, 1, Len(units))
  BY <1>1 DEF IsMessage
<1>3. units[1].kind = "part"
  BY <1>2 DEF Part
<1> QED BY <1>1, <1>3 DEF SentUnits, HeaderUnits, PartUnits

(* The head of a stream that is not empty, and the rest of it.             *)
LEMMA StreamType ==
  ASSUME NEW units \in Seq(SentUnits), units # <<>>
  PROVE  /\ Head(units) \in SentUnits
         /\ Head(units).total \in Nat
         /\ Tail(units) \in Seq(SentUnits)
<1>1. Head(units) \in SentUnits /\ Tail(units) \in Seq(SentUnits)
  OBVIOUS
<1> QED BY <1>1 DEF SentUnits, HeaderUnits, PartUnits

(* The times of the units, and the steps of a writer, have their types.    *)
LEMMA TimeType ==
  ASSUME NEW task \in Task
  PROVE  /\ TimeOf(task) \in Nat /\ TimeOf(task) <= PartTime
         /\ Held(task) \in Nat /\ Held(task) <= TimeOf(task)
BY TimeAssumption DEF Task, TimeOf, Held, Holds

(* The steps of a writer keep the type of its task.                        *)
LEMMA TaskType ==
  ASSUME NEW task \in Task
  PROVE  /\ Ended(task) \in Task
         /\ Ended(task).phase = "idle" /\ Ended(task).of = task.of
         /\ Written(task) \in Task
         /\ Written(task).of = task.of
         /\ Written(task).phase \in {task.phase, "await"}
         /\ Written(task).slot = None
<1>1. None \in Nat \cup {None}
  OBVIOUS
<1>2. Ended(task) \in Task /\ Ended(task).phase = "idle" /\ Ended(task).of = task.of
  BY <1>1 DEF Task, Ended, Phases
<1>3. CASE task.done = task.length
  BY <1>1, <1>2, <1>3 DEF Task, Written, Phases
<1>4. CASE task.done # task.length
  <2>1. Written(task) = [task EXCEPT !.done = task.done + 1, !.slot = None]
    BY <1>4 DEF Written, Task
  <2>2. task.done + 1 \in Nat
    BY DEF Task
  <2>3. Written(task) \in Task
    BY <1>1, <2>1, <2>2 DEF Task
  <2>4. /\ Written(task).of = task.of /\ Written(task).phase = task.phase
        /\ Written(task).slot = None
    BY <2>1 DEF Task
  <2> QED BY <1>2, <2>3, <2>4
<1> QED BY <1>3, <1>4

-----------------------------------------------------------------------------
(* No step leaves the types: nothing but whole units of requests is on a   *)
(* stream, and a buffer is only kept while its response is read.           *)
LEMMA InitTypes == Init => TypeInv
<1> SUFFICES ASSUME Init PROVE TypeInv
  OBVIOUS
<1>1. Writing(0, 0) \in Task /\ Writing(0, 0).of = 0
  BY DEF Writing, Task, Phases
<1>2. Ended(Writing(0, 0)) \in Task /\ Ended(Writing(0, 0)).phase = "idle"
      /\ Ended(Writing(0, 0)).of = 0
  BY <1>1, TaskType
<1>3. <<>> \in Seq(SentUnits)
  OBVIOUS
<1> QED BY <1>2, <1>3, BoundsAssumption DEF Init, TypeInv, Requests

(* The request of a chat: started, given a slot, written, dropped.         *)
LEMMA RequestTypes ==
  ASSUME TypeInv,
         StartRequest \/ ReserveRequest \/ WriteRequest \/ DropRequest
  PROVE  TypeInv'
<1> USE DEF TypeInv
<1>1. CASE StartRequest
  <2>1. PICK length \in Lengths :
          request' = IF Refuses(length) THEN Ended([request EXCEPT !.of = @ + 1])
                     ELSE Writing(request.of + 1, length)
    BY <1>1 DEF StartRequest
  <2>2. request.of \in 0 .. MaxRequests /\ request.of < MaxRequests /\ request.of + 1 \in Requests
        /\ request.of + 1 \in Nat
    BY <1>1, BoundsAssumption, SMTT(30) DEF StartRequest, Requests
  <2>3. [request EXCEPT !.of = @ + 1] \in Task /\ [request EXCEPT !.of = @ + 1].of = request.of + 1
    BY <2>2 DEF Task
  <2>4. Writing(request.of + 1, length) \in Task /\ Writing(request.of + 1, length).of = request.of + 1
        /\ Writing(request.of + 1, length).done <= Writing(request.of + 1, length).length
    BY <2>2, BoundsAssumption DEF Writing, Task, Phases
  <2>5. request' \in Task /\ request'.of \in Requests
        /\ (request'.phase = "write" => request'.done <= request'.length)
    <3> DEFINE next == [request EXCEPT !.of = @ + 1]
    <3>1. next \in Task /\ next.of = request.of + 1
      BY <2>3
    <3> HIDE DEF next
    <3>2. Ended(next) \in Task /\ Ended(next).of = request.of + 1 /\ Ended(next).phase = "idle"
      BY <3>1, TaskType
    <3>3. request' = Ended(next) \/ request' = Writing(request.of + 1, length)
      BY <2>1 DEF next
    <3> QED BY <2>2, <2>4, <3>2, <3>3
  <2>6. buffer = <<>>
    BY <1>1 DEF StartRequest
  <2> QED BY <1>1, <2>5, <2>6 DEF StartRequest, streams, clock
<1>2. CASE ReserveRequest
  <2>1. Later(limiter, now) \in Nat /\ limiter' \in Nat
    BY <1>2, TimeType DEF ReserveRequest, Reserved, Later
  <2>2. /\ request.phase = "write"
        /\ request' = [request EXCEPT !.slot = Later(limiter, now)]
    BY <1>2 DEF ReserveRequest, Reserved
  <2>3. request' \in Task /\ request'.of = request.of /\ request'.phase = request.phase
        /\ request'.done = request.done /\ request'.length = request.length
    BY <2>1, <2>2 DEF Task
  <2> QED BY <1>2, <2>1, <2>2, <2>3 DEF ReserveRequest, streams
<1>3. CASE WriteRequest
  <2>1. request.phase = "write" /\ request.done \in Nat /\ request.length \in Nat
        /\ request.done <= request.length /\ buffer = <<>>
    BY <1>3 DEF WriteRequest, MayWrite, Task
  <2>2. CASE /\ up' = IF open THEN Append(up, Frame(request.of, request.length)[request.done + 1]) ELSE up
             /\ request' = Written(request)
             /\ sent' = sent + TimeOf(request)
    <3>1. Frame(request.of, request.length)[request.done + 1] \in SentUnits
      BY <2>1, UnitType
    <3>2. up' \in Seq(SentUnits)
      BY <2>2, <3>1
    <3>3. request' \in Task /\ request'.of = request.of
      BY <2>2, TaskType
    <3>4. request'.phase = "write" => request'.done <= request'.length
      BY <2>1, <2>2 DEF Written, Task
    <3>5. sent' \in Nat
      BY <2>2, TimeType, SMTT(30)
    <3> QED BY <1>3, <2>1, <3>2, <3>3, <3>4, <3>5 DEF WriteRequest
  <2>3. CASE request' = Ended(request) /\ UNCHANGED <<up, sent>>
    <3>1. request' \in Task /\ request'.of = request.of /\ request'.phase = "idle"
      BY <2>3, TaskType
    <3> QED BY <1>3, <2>1, <2>3, <3>1 DEF WriteRequest
  <2> QED BY <1>3, <2>2, <2>3 DEF WriteRequest
<1>4. CASE DropRequest
  <2>1. request' \in Task /\ request'.of = request.of /\ request'.phase = "idle"
    BY <1>4, TaskType DEF DropRequest
  <2>2. buffer' = <<>> /\ buffer' \in Seq(SentUnits)
    BY <1>4 DEF DropRequest
  <2> QED BY <1>4, <2>1, <2>2 DEF DropRequest, streams, clock
<1> QED BY <1>1, <1>2, <1>3, <1>4

(* The response is read, a header first.                                   *)
LEMMA ResponseTypes ==
  ASSUME TypeInv, ReadHeader \/ ReadPart \/ ReadResponse
  PROVE  TypeInv'
<1> USE DEF TypeInv
<1>1. Ended(request) \in Task /\ Ended(request).of = request.of /\ Ended(request).phase = "idle"
  BY TaskType
<1>2. CASE ReadHeader
  <2>1. buffer = <<>> /\ request.phase = "await"
    BY <1>2 DEF ReadHeader
  <2>2. down' \in Seq(SentUnits)
    BY <1>2, StreamType DEF ReadHeader
  <2>3. request' \in Task /\ request'.of = request.of /\ request'.phase \in {"read", "idle"}
    <3>1. CASE request' = Ended(request)
      BY <1>1, <3>1
    <3>2. CASE down # <<>> /\ request' = [request EXCEPT !.phase = "read", !.length = Head(down).total]
      <4>1. Head(down).total \in Nat
        BY <3>2, StreamType
      <4> QED BY <3>2, <4>1 DEF Task, Phases
    <3> QED BY <1>2, <3>1, <3>2 DEF ReadHeader
  <2> QED BY <1>2, <2>1, <2>2, <2>3 DEF ReadHeader, clock
<1>3. CASE ReadPart
  <2>1. CASE down # <<>> /\ buffer' = Append(buffer, Head(down)) /\ down' = Tail(down) /\ UNCHANGED request
    <3>1. buffer' \in Seq(SentUnits) /\ Len(buffer') = Len(buffer) + 1 /\ down' \in Seq(SentUnits)
      BY <2>1, StreamType
    <3>2. request.phase = "read" /\ Len(buffer) < request.length /\ request.length \in Nat
      BY <1>3 DEF ReadPart, Task
    <3>3. Len(buffer') <= request.length
      BY <3>1, <3>2
    <3> QED BY <1>3, <2>1, <3>1, <3>2, <3>3 DEF ReadPart, clock
  <2>2. CASE request' = Ended(request) /\ buffer' = <<>> /\ UNCHANGED down
    <3>1. buffer' \in Seq(SentUnits)
      BY <2>2
    <3> QED BY <1>1, <1>3, <2>2, <3>1 DEF ReadPart, clock
  <2> QED BY <1>3, <2>1, <2>2 DEF ReadPart
<1>4. CASE ReadResponse
  <2>1. answers' \subseteq Requests \X Requests
    BY <1>4, MessageType DEF ReadResponse
  <2>2. buffer' = <<>> /\ buffer' \in Seq(SentUnits) /\ request' = Ended(request)
    BY <1>4 DEF ReadResponse
  <2> QED BY <1>1, <1>4, <2>1, <2>2 DEF ReadResponse, streams, clock
<1> QED BY <1>2, <1>3, <1>4

(* The worker reads a frame, and answers it.                               *)
LEMMA WorkerTypes ==
  ASSUME TypeInv, WorkerRead \/ WorkerReply
  PROVE  TypeInv'
<1> USE DEF TypeInv
<1>1. ASSUME Close PROVE up' \in Seq(SentUnits) /\ down' \in Seq(SentUnits)
  <2>1. <<>> \in Seq(SentUnits) /\ down \in Seq(SentUnits)
    OBVIOUS
  <2>2. up' = <<>> /\ (down' = down \/ down' = <<>>)
    BY <1>1 DEF Close
  <2> QED BY <2>1, <2>2
<1>2. CASE WorkerRead
  <2>1. up' \in Seq(SentUnits) /\ down' \in Seq(SentUnits) /\ serving' \in Requests \cup {None}
    <3>1. CASE Close /\ UNCHANGED serving
      BY <1>1, <3>1
    <3>2. CASE /\ Arrived /\ IsMessage(Received)
               /\ serving' = Received[1].of
               /\ up' = SubSeq(up, 2 + Head(up).total, Len(up))
               /\ UNCHANGED down
      <4>1. up # <<>> /\ Head(up).total \in Nat
        BY <1>2, StreamType DEF WorkerRead
      <4>2. Head(up).total < Len(up) /\ Len(up) \in Nat
        BY <3>2, <4>1 DEF Arrived
      <4>3. Received \in Seq(SentUnits)
        BY <4>1, <4>2, PartOfStream DEF Received
      <4>4. Received[1].of \in Requests
        BY <3>2, <4>3, MessageType
      <4>5. up' \in Seq(SentUnits)
        BY <3>2, <4>1, <4>2, PartOfStream
      <4> QED BY <3>2, <4>4, <4>5
    <3> QED BY <1>2, <3>1, <3>2 DEF WorkerRead
  <2> QED BY <1>2, <2>1 DEF WorkerRead, clock
<1>3. CASE WorkerReply
  <2>1. PICK length \in Lengths :
          IF Refuses(length) THEN Close
          ELSE down' = down \o Frame(serving, length) /\ UNCHANGED <<up, open, handled>>
    BY <1>3 DEF WorkerReply
  <2>2. serving \in Requests /\ length \in Nat
    BY <1>3, <2>1, BoundsAssumption DEF WorkerReply
  <2>3. Frame(serving, length) \in Seq(SentUnits) /\ down \in Seq(SentUnits)
    BY <2>2, FrameType
  <2>4. down \o Frame(serving, length) \in Seq(SentUnits)
    BY <2>3, JoinType, Zenon
  <2>5. up' \in Seq(SentUnits) /\ down' \in Seq(SentUnits)
    BY <1>1, <2>1, <2>4
  <2> QED BY <1>3, <2>5 DEF WorkerReply, clock
<1> QED BY <1>2, <1>3

(* The topology probe, and the clock.                                      *)
LEMMA ProbeTypes ==
  ASSUME TypeInv, StartProbe \/ ReserveProbe \/ WriteProbe \/ EndProbe \/ Tick
  PROVE  TypeInv'
<1> USE DEF TypeInv
<1>1. CASE StartProbe
  <2>1. probe.of + 1 \in 0 .. MaxProbes
    BY <1>1, BoundsAssumption DEF StartProbe
  <2>2. Writing(probe.of + 1, 1) \in Task /\ Writing(probe.of + 1, 1).of = probe.of + 1
    BY <2>1 DEF Writing, Task, Phases
  <2> QED BY <1>1, <2>1, <2>2 DEF StartProbe, streams, clock
<1>2. CASE ReserveProbe
  <2>1. Later(limiter, now) \in Nat /\ limiter' \in Nat
    BY <1>2, TimeType DEF ReserveProbe, Reserved, Later
  <2>2. probe' = [probe EXCEPT !.slot = Later(limiter, now)]
    BY <1>2 DEF ReserveProbe, Reserved
  <2>3. probe' \in Task /\ probe'.of = probe.of
    BY <2>1, <2>2 DEF Task
  <2> QED BY <1>2, <2>1, <2>3 DEF ReserveProbe, streams
<1>3. CASE WriteProbe
  <2>1. sent' \in Nat /\ probe' \in Task /\ probe'.of = probe.of
    BY <1>3, TaskType, TimeType, SMTT(30) DEF WriteProbe
  <2> QED BY <1>3, <2>1 DEF WriteProbe, streams
<1>4. CASE EndProbe
  <2>1. probe' \in Task /\ probe'.of = probe.of
    BY <1>4, TaskType DEF EndProbe
  <2> QED BY <1>4, <2>1 DEF EndProbe, streams, clock
<1>5. CASE Tick
  BY <1>5, BoundsAssumption DEF Tick, streams
<1> QED BY <1>1, <1>2, <1>3, <1>4, <1>5

(* Every step keeps the types.                                             *)
LEMMA NextTypes == TypeInv /\ [Next]_vars => TypeInv'
<1> SUFFICES ASSUME TypeInv, [Next]_vars PROVE TypeInv'
  OBVIOUS
<1>1. CASE UNCHANGED vars
  BY <1>1 DEF TypeInv, vars, streams, clock
<1> QED BY <1>1, RequestTypes, ResponseTypes, WorkerTypes, ProbeTypes DEF Next

(* The streams hold headers and parts of requests, a response is collected *)
(* only while it is read, and the clock and the limiter count up from 0    *)
(* (client.rs, message.rs and the loop of a worker).                       *)
THEOREM TypeCorrect == Spec => []TypeOK
<1>1. TypeInv => TypeOK
  <2> SUFFICES ASSUME TypeInv PROVE TypeOK
    OBVIOUS
  <2>1. SentUnits \subseteq Units
    BY DEF SentUnits, HeaderUnits, PartUnits, Units
  <2>2. up \in Seq(Units) /\ down \in Seq(Units) /\ buffer \in Seq(Units)
    BY <2>1, WiderStream DEF TypeInv
  <2>3. request.phase \in {"idle", "write", "await", "read"}
    BY DEF TypeInv, Task, Phases
  <2> QED BY <2>2, <2>3 DEF TypeInv, TypeOK
<1> QED BY <1>1, InitTypes, NextTypes, PTL DEF Spec

-----------------------------------------------------------------------------
(* The pace.  Only the limiter, the clock and the tasks matter; a step of  *)
(* one task leaves the other as it is, and the two play the same part.     *)
LEMMA PacedSymmetric ==
  ASSUME NEW a \in Task, NEW b \in Task, NEW s \in Nat, NEW l \in Nat, NEW n \in Nat,
         Paced(a, b, s, l, n)
  PROVE  Paced(b, a, s, l, n)
BY TimeType DEF Paced, Apart

(* A slot that is held is a time.                                          *)
LEMMA SlotType ==
  ASSUME NEW task \in Task, Holds(task)
  PROVE  task.slot \in Nat /\ Held(task) = TimeOf(task)
BY DEF Task, Holds, Held

(* wait_for_slot gives out a slot behind all others.                       *)
LEMMA ReservePaced ==
  ASSUME NEW a \in Task, NEW b \in Task, NEW s \in Nat, NEW l \in Nat, NEW n \in Nat,
         Paced(a, b, s, l, n), ~Holds(a)
  PROVE  Paced([a EXCEPT !.slot = Later(l, n)], b, s, Later(l, n) + TimeOf(a), n)
<1> DEFINE slot == Later(l, n)
           c == [a EXCEPT !.slot = slot]
<1>1. slot \in Nat /\ slot >= l
  BY DEF Later
<1>2. c.slot = slot /\ TimeOf(c) = TimeOf(a) /\ c \in Task
  BY <1>1 DEF Task, TimeOf
<1>3. s + Held(b) <= l /\ Held(b) \in Nat /\ TimeOf(c) \in Nat /\ Held(c) \in Nat
      /\ Held(c) <= TimeOf(c) /\ TimeOf(b) \in Nat
  BY <1>2, TimeType DEF Paced
<1> HIDE DEF c, slot
<1>4. s + Held(c) + Held(b) <= slot + TimeOf(c)
  BY <1>1, <1>3
<1>5. Slotted(c, s, slot + TimeOf(c), n)
  BY <1>1, <1>2, <1>3 DEF Slotted
<1>6. Slotted(b, s, slot + TimeOf(c), n)
  BY <1>1, <1>3, SlotType DEF Slotted, Paced
<1>7. Apart(c, b, s)
  <2> SUFFICES ASSUME Holds(c), Holds(b) PROVE Apart(c, b, s)
    BY DEF Apart
  <2>1. b.slot \in Nat /\ Held(b) = TimeOf(b) /\ b.slot + TimeOf(b) <= l
    BY SlotType DEF Paced, Slotted
  <2>2. Before(b, c) /\ s + TimeOf(b) <= c.slot
    BY <1>1, <1>2, <1>3, <2>1 DEF Before
  <2>3. Before(c, b) => s + TimeOf(c) <= b.slot
    BY <1>1, <1>2, <1>3, <2>1 DEF Before
  <2> QED BY <2>2, <2>3 DEF Apart
<1>8. Paced(c, b, s, slot + TimeOf(c), n)
  BY <1>4, <1>5, <1>6, <1>7 DEF Paced
<1> QED BY <1>2, <1>8 DEF c, slot

(* A unit is written in its slot or later.                                 *)
LEMMA WritePaced ==
  ASSUME NEW a \in Task, NEW b \in Task, NEW s \in Nat, NEW l \in Nat, NEW n \in Nat,
         Paced(a, b, s, l, n), Holds(a), n >= a.slot,
         NEW c \in Task, ~Holds(c)
  PROVE  Paced(c, b, s + TimeOf(a), l, n)
<1>1. a.slot \in Nat /\ Held(a) = TimeOf(a) /\ TimeOf(a) \in Nat /\ TimeOf(a) <= PartTime
  BY SlotType, TimeType
<1>2. Held(c) = 0 /\ Held(b) \in Nat /\ TimeOf(b) \in Nat /\ TimeOf(b) <= PartTime /\ PartTime \in Nat
  BY TimeType, TimeAssumption DEF Held
<1>3. s + TimeOf(a) + Held(c) + Held(b) <= l
  BY <1>1, <1>2 DEF Paced
<1>4. s + TimeOf(a) <= n + PartTime
  BY <1>1, <1>2 DEF Paced, Slotted
<1>5. Slotted(b, s + TimeOf(a), l, n)
  <2> SUFFICES ASSUME Holds(b) PROVE Slotted(b, s + TimeOf(a), l, n)
    BY DEF Slotted
  <2>1. b.slot \in Nat /\ b.slot + TimeOf(b) <= l
    BY SlotType DEF Paced, Slotted
  <2>2. CASE Before(a, b)
    <3>1. s + TimeOf(a) <= b.slot
      BY <2>2 DEF Paced, Apart
    <3> QED BY <2>1, <3>1 DEF Slotted
  <2>3. CASE Before(b, a)
    <3>1. s + TimeOf(b) <= a.slot
      BY <2>3 DEF Paced, Apart
    <3>2. s + TimeOf(a) + TimeOf(b) <= n + PartTime
      BY <1>1, <1>2, <3>1
    <3> QED BY <2>1, <3>2 DEF Slotted
  <2> QED BY <2>2, <2>3 DEF Paced, Apart
<1> QED BY <1>2, <1>3, <1>4, <1>5 DEF Paced, Slotted, Apart

(* A task that gives its slot up, or that has none, keeps the pace.        *)
LEMMA DropPaced ==
  ASSUME NEW a \in Task, NEW b \in Task, NEW s \in Nat, NEW l \in Nat, NEW n \in Nat,
         Paced(a, b, s, l, n), NEW c \in Task, ~Holds(c)
  PROVE  Paced(c, b, s, l, n)
<1>1. Held(c) = 0 /\ Held(a) \in Nat /\ Held(b) \in Nat
  BY TimeType DEF Held
<1> QED BY <1>1 DEF Paced, Slotted, Apart

(* Time only makes room.                                                   *)
LEMMA TickPaced ==
  ASSUME NEW a \in Task, NEW b \in Task, NEW s \in Nat, NEW l \in Nat, NEW n \in Nat,
         Paced(a, b, s, l, n)
  PROVE  Paced(a, b, s, l, n + 1)
BY TimeType, TimeAssumption, SlotType DEF Paced, Slotted

-----------------------------------------------------------------------------
(* Nothing is written at first.                                            *)
LEMMA InitPace == Init => PaceInv
<1> SUFFICES ASSUME Init PROVE PaceInv
  OBVIOUS
<1>1. ~Holds(request) /\ ~Holds(probe)
  BY DEF Init, Ended, Writing, Holds
<1> QED BY <1>1, TimeAssumption DEF Init, PaceInv, Paced, Slotted, Apart, Held

(* What a step of the request does to the pace: a slot, a unit, or neither. *)
LEMMA RequestPace ==
  ASSUME TypeInv, TypeInv', PaceInv, limited, limited', UNCHANGED probe,
         \/ Reserved(request, request') /\ UNCHANGED <<now, sent>>
         \/ /\ MayWrite(request) /\ sent' = sent + TimeOf(request)
            /\ ~Holds(request') /\ UNCHANGED <<limiter, now>>
         \/ ~Holds(request') /\ UNCHANGED <<limiter, now, sent>>
  PROVE  PaceInv'
<1>1. /\ request \in Task /\ probe \in Task /\ request' \in Task
      /\ sent \in Nat /\ limiter \in Nat /\ now \in Nat
      /\ Paced(request, probe, sent, limiter, now)
  BY DEF TypeInv, PaceInv
<1>2. CASE Reserved(request, request') /\ UNCHANGED <<now, sent>>
  <2>1. ~Holds(request)
    BY <1>2 DEF Reserved, Holds
  <2> QED BY <1>1, <1>2, <2>1, ReservePaced DEF Reserved, PaceInv
<1>3. CASE /\ MayWrite(request) /\ sent' = sent + TimeOf(request)
           /\ UNCHANGED <<limiter, now>> /\ ~Holds(request')
  <2>1. Holds(request) /\ now >= request.slot
    BY <1>3 DEF MayWrite, Holds
  <2> QED BY <1>1, <1>3, <2>1, WritePaced DEF PaceInv
<1>4. CASE ~Holds(request') /\ UNCHANGED <<limiter, now, sent>>
  BY <1>1, <1>4, DropPaced DEF PaceInv
<1> QED BY <1>2, <1>3, <1>4

(* The same of the probe.                                                  *)
LEMMA ProbePace ==
  ASSUME TypeInv, TypeInv', PaceInv, limited, limited', UNCHANGED request,
         \/ Reserved(probe, probe') /\ UNCHANGED <<now, sent>>
         \/ /\ MayWrite(probe) /\ sent' = sent + TimeOf(probe)
            /\ ~Holds(probe') /\ UNCHANGED <<limiter, now>>
         \/ ~Holds(probe') /\ UNCHANGED <<limiter, now, sent>>
  PROVE  PaceInv'
<1>1. /\ request \in Task /\ probe \in Task /\ probe' \in Task
      /\ sent \in Nat /\ limiter \in Nat /\ now \in Nat
      /\ Paced(probe, request, sent, limiter, now)
  BY PacedSymmetric DEF TypeInv, PaceInv
<1>2. /\ sent' \in Nat /\ limiter' \in Nat /\ now' \in Nat
      /\ Paced(probe', request, sent', limiter', now') => PaceInv'
  BY <1>1, PacedSymmetric DEF TypeInv, PaceInv
<1>3. CASE Reserved(probe, probe') /\ UNCHANGED <<now, sent>>
  <2>1. ~Holds(probe)
    BY <1>3 DEF Reserved, Holds
  <2> QED BY <1>1, <1>2, <1>3, <2>1, ReservePaced DEF Reserved
<1>4. CASE /\ MayWrite(probe) /\ sent' = sent + TimeOf(probe)
           /\ UNCHANGED <<limiter, now>> /\ ~Holds(probe')
  <2>1. Holds(probe) /\ now >= probe.slot
    BY <1>4 DEF MayWrite, Holds
  <2> QED BY <1>1, <1>2, <1>4, <2>1, WritePaced
<1>5. CASE ~Holds(probe') /\ UNCHANGED <<limiter, now, sent>>
  BY <1>1, <1>2, <1>5, DropPaced
<1> QED BY <1>3, <1>4, <1>5

(* Every step keeps the pace.                                              *)
LEMMA NextPace ==
  TypeInv /\ TypeInv' /\ PaceInv /\ [Next]_vars => PaceInv'
<1> SUFFICES ASSUME TypeInv, TypeInv', PaceInv, [Next]_vars, limited'
             PROVE  PaceInv'
  BY DEF PaceInv
<1>1. limited
  BY DEF Next, StartRequest, ReserveRequest, WriteRequest, ReadHeader, ReadPart, ReadResponse,
     DropRequest, WorkerRead, WorkerReply, StartProbe, ReserveProbe, WriteProbe, EndProbe, Tick, vars
<1>2. request \in Task /\ probe \in Task
  BY DEF TypeInv
<1>3. ~Holds(Ended(request)) /\ ~Holds(Ended(probe))
  BY <1>2, TaskType DEF Holds
<1>4. ~Holds(Written(request)) /\ ~Holds(Written(probe))
  BY <1>2, TaskType DEF Holds
<1>5. CASE StartRequest
  <2>1. PICK length \in Lengths :
          request' = IF Refuses(length) THEN Ended([request EXCEPT !.of = @ + 1])
                     ELSE Writing(request.of + 1, length)
    BY <1>5 DEF StartRequest
  <2>2. request'.phase = "idle" \/ request'.slot = None
    BY <1>2, <2>1 DEF Ended, Writing, Task
  <2> QED BY <1>1, <1>5, <2>2, RequestPace DEF StartRequest, clock, Holds
<1>6. CASE ReserveRequest
  <2>1. Reserved(request, request') /\ UNCHANGED <<now, sent>> /\ UNCHANGED probe
        /\ limited' = limited
    BY <1>6 DEF ReserveRequest
  <2> QED BY <1>1, <2>1, RequestPace
<1>7. CASE WriteRequest
  <2>1. UNCHANGED probe /\ UNCHANGED <<limiter, now>> /\ MayWrite(request)
    BY <1>7 DEF WriteRequest
  <2>2. \/ request' = Written(request) /\ sent' = sent + TimeOf(request)
        \/ request' = Ended(request) /\ UNCHANGED sent
    BY <1>7 DEF WriteRequest
  <2>3. ~Holds(request')
    BY <1>3, <1>4, <2>2
  <2> QED BY <1>1, <2>1, <2>2, <2>3, RequestPace
<1>8. CASE ReadHeader
  <2>1. request' = Ended(request) \/ request'.phase = "read"
    BY <1>2, <1>8 DEF ReadHeader, Task
  <2> QED BY <1>1, <1>3, <1>8, <2>1, RequestPace DEF ReadHeader, clock, Holds
<1>9. CASE ReadPart
  <2>1. request' = Ended(request) \/ request'.phase = "read"
    BY <1>9 DEF ReadPart
  <2> QED BY <1>1, <1>3, <1>9, <2>1, RequestPace DEF ReadPart, clock, Holds
<1>10. CASE ReadResponse
  BY <1>1, <1>3, <1>10, RequestPace DEF ReadResponse, clock
<1>11. CASE DropRequest
  BY <1>1, <1>3, <1>11, RequestPace DEF DropRequest, clock
<1>12. CASE WorkerRead \/ WorkerReply \/ UNCHANGED vars
  BY <1>12 DEF WorkerRead, WorkerReply, vars, clock, PaceInv
<1>13. CASE StartProbe
  <2>1. probe'.slot = None
    BY <1>13 DEF StartProbe, Writing
  <2> QED BY <1>1, <1>13, <2>1, ProbePace DEF StartProbe, clock, Holds
<1>14. CASE ReserveProbe
  <2>1. Reserved(probe, probe') /\ UNCHANGED <<now, sent>> /\ UNCHANGED request
        /\ limited' = limited
    BY <1>14 DEF ReserveProbe
  <2> QED BY <1>1, <2>1, ProbePace
<1>15. CASE WriteProbe
  <2>1. UNCHANGED request /\ UNCHANGED <<limiter, now>> /\ MayWrite(probe)
    BY <1>15 DEF WriteProbe, streams
  <2>2. probe' = Written(probe) /\ sent' = sent + TimeOf(probe)
    BY <1>15 DEF WriteProbe
  <2> QED BY <1>1, <1>4, <2>1, <2>2, ProbePace
<1>16. CASE EndProbe
  BY <1>1, <1>3, <1>16, ProbePace DEF EndProbe, clock
<1>17. CASE Tick
  <2>1. sent \in Nat /\ limiter \in Nat /\ now \in Nat
    BY DEF TypeInv
  <2> QED BY <1>1, <1>2, <1>17, <2>1, TickPaced DEF Tick, PaceInv
<1> QED BY <1>5, <1>6, <1>7, <1>8, <1>9, <1>10, <1>11, <1>12, <1>13, <1>14, <1>15, <1>16, <1>17
     DEF Next

(* Whatever is dropped with its slot unused, and in whatever order the     *)
(* writers wake, the units written on both connections by now fit in the   *)
(* time that has passed, but for one (TransferLimiter::wait_for_slot).     *)
THEOREM RateCorrect == Spec => []RateLimited
<1>1. PaceInv => RateLimited
  BY DEF PaceInv, Paced, RateLimited
<1> QED BY <1>1, InitTypes, NextTypes, InitPace, NextPace, PTL DEF Spec

-----------------------------------------------------------------------------
(* Whole requests.  The parts on the stream to the worker are in order,    *)
(* whatever is missing between them, and the last part of a request tells  *)
(* that it was written to its end.                                         *)
IsPart(u) == u.kind = "part"

Follows(u, v) ==
  \/ u.of < v.of
  \/ u.of = v.of /\ u.total = v.total /\ u.index < v.index

(* The part u on the stream, behind what was handled and before what the   *)
(* request writes next.                                                    *)
Placed(u) ==
  /\ u.index <= u.total
  /\ u.index = u.total => u.of \in written
  /\ \/ u.of < request.of
     \/ /\ u.of = request.of
        /\ request.phase = "write" => u.total = request.length /\ u.index < request.done
  /\ \A k \in DOMAIN handled : handled[k] < u.of

PartsPlaced == \A i \in DOMAIN up : IsPart(up[i]) => Placed(up[i])
PartsOrdered ==
  \A i, j \in DOMAIN up : i < j /\ IsPart(up[i]) /\ IsPart(up[j]) => Follows(up[i], up[j])
WrittenDone ==
  \A m \in written : m < request.of \/ (m = request.of /\ request.phase # "write")

WholeInv ==
  /\ handled \in Seq(Requests) /\ written \subseteq Requests
  /\ WrittenDone /\ PartsPlaced /\ PartsOrdered /\ HandledWhole

(* The unit a writer is at.                                                *)
LEMMA FrameUnit ==
  ASSUME NEW m \in Requests, NEW length \in Nat, NEW done \in Nat, done <= length
  PROVE  LET u == Frame(m, length)[done + 1]
         IN  IF done = 0 THEN ~IsPart(u) ELSE u = Part(m, done, length)
<1>1. done + 1 \in 1 .. length + 1 /\ (done + 1) - 1 = done /\ (done + 1 = 1 <=> done = 0)
  OBVIOUS
<1>2. Begins(Frame(m, length), m, length, length + 1)
  BY FrameBegins
<1>3. Frame(m, length)[done + 1] = FrameAt(m, length, done + 1)
  BY <1>1, <1>2 DEF Begins
<1> QED BY <1>1, <1>3 DEF FrameAt, Header, IsPart

(* A part is of a request, and counted.                                    *)
LEMMA PartType ==
  ASSUME NEW u \in SentUnits, IsPart(u)
  PROVE  u.of \in Requests /\ u.of \in Int /\ u.index \in Nat /\ u.total \in Nat
BY BoundsAssumption DEF IsPart, SentUnits, HeaderUnits, PartUnits, Requests

(* Nothing is handled at first.                                            *)
LEMMA InitWhole == Init => WholeInv
<1> SUFFICES ASSUME Init PROVE WholeInv
  OBVIOUS
<1>1. handled = <<>> /\ written = {} /\ up = <<>>
  BY DEF Init
<1>2. handled \in Seq(Requests) /\ DOMAIN up = {} /\ DOMAIN handled = {}
  BY <1>1
<1> QED BY <1>1, <1>2 DEF WholeInv, WrittenDone, PartsPlaced, PartsOrdered, HandledWhole

(* A request that stops writing, waits for a slot, or ends: the same       *)
(* streams, and nothing is written.                                        *)
LEMMA SameWhole ==
  ASSUME TypeInv, WholeInv, UNCHANGED <<up, handled, written>>,
         request'.of = request.of,
         request'.phase = "write" =>
           /\ request.phase = "write"
           /\ request'.done = request.done /\ request'.length = request.length
  PROVE  WholeInv'
<1>1. WrittenDone' /\ HandledWhole' /\ PartsOrdered'
  BY DEF WholeInv, WrittenDone, HandledWhole, PartsOrdered
<1>2. PartsPlaced'
  BY DEF WholeInv, PartsPlaced, Placed
<1> QED BY <1>1, <1>2 DEF WholeInv

(* A request that starts is behind all that was written.                   *)
LEMMA StartWhole ==
  ASSUME TypeInv, WholeInv, StartRequest
  PROVE  WholeInv'
<1>1. request'.of = request.of + 1 /\ request.of \in Int
  <2>1. PICK length \in Lengths :
          request' = IF Refuses(length) THEN Ended([request EXCEPT !.of = @ + 1])
                     ELSE Writing(request.of + 1, length)
    BY DEF StartRequest
  <2>2. request \in Task /\ request.of \in Nat
    BY DEF TypeInv, Task
  <2> QED BY <2>1, <2>2 DEF Ended, Writing, Task
<1>2. UNCHANGED <<up, handled, written>>
  BY DEF StartRequest, streams
<1>3. WrittenDone'
  BY <1>1, <1>2, BoundsAssumption DEF WholeInv, WrittenDone, Requests
<1>4. PartsPlaced'
  <2> SUFFICES ASSUME NEW i \in DOMAIN up, IsPart(up[i]) PROVE Placed(up[i])'
    BY <1>2 DEF PartsPlaced
  <2>1. up[i].of \in Int
    BY PartType DEF TypeInv
  <2>2. Placed(up[i])
    BY DEF WholeInv, PartsPlaced
  <2> QED BY <1>1, <1>2, <2>1, <2>2 DEF Placed
<1> QED BY <1>2, <1>3, <1>4 DEF WholeInv, PartsOrdered, HandledWhole

(* A unit that is written is behind all units on the stream.               *)
LEMMA WriteWhole ==
  ASSUME TypeInv, TypeInv', WholeInv, MayWrite(request),
         up' = IF open THEN Append(up, Frame(request.of, request.length)[request.done + 1]) ELSE up,
         request' = Written(request),
         written' = IF request.done = request.length THEN written \cup {request.of} ELSE written,
         UNCHANGED handled
  PROVE  WholeInv'
<1>0. PICK u : u = Frame(request.of, request.length)[request.done + 1]
  OBVIOUS
<1>1. /\ request \in Task /\ request.of \in Requests /\ request.of \in Int
      /\ request.phase = "write" /\ request.done \in Nat /\ request.length \in Nat
      /\ request.done <= request.length
  BY BoundsAssumption DEF TypeInv, MayWrite, Task, Requests
<1>2. /\ request'.of = request.of
      /\ request.done = request.length => request'.phase # "write"
      /\ request.done # request.length =>
           request'.done = request.done + 1 /\ request'.length = request.length
  BY <1>1 DEF Written, Task
<1>3. u \in SentUnits /\ (IsPart(u) => request.done # 0 /\ u = Part(request.of, request.done, request.length))
  BY <1>0, <1>1, UnitType, FrameUnit
<1>4. IsPart(u) => u.of = request.of /\ u.index = request.done /\ u.total = request.length
  BY <1>3 DEF Part
<1>5. WrittenDone'
  BY <1>1, <1>2 DEF WholeInv, WrittenDone
<1>6. \A k \in DOMAIN handled : handled[k] < request.of
  BY <1>1 DEF WholeInv, WrittenDone, HandledWhole
<1>7. ASSUME NEW v \in SentUnits, IsPart(v), Placed(v)
      PROVE  Placed(v)' /\ (IsPart(u) => Follows(v, u))
  <2>1. v.of \in Int /\ v.index \in Nat /\ v.total \in Nat
    BY <1>7, PartType
  <2>2. Placed(v)'
    BY <1>1, <1>2, <1>7, <2>1 DEF Placed
  <2>3. IsPart(u) => Follows(v, u)
    BY <1>1, <1>4, <1>7, <2>1 DEF Placed, Follows
  <2> QED BY <2>2, <2>3
<1>8. IsPart(u) => Placed(u)'
  BY <1>1, <1>2, <1>4, <1>6 DEF Placed
<1>9. /\ up \in Seq(SentUnits)
      /\ DOMAIN up' \subseteq 1 .. Len(up) + 1 /\ DOMAIN up = 1 .. Len(up) /\ Len(up) \in Nat
      /\ \A i \in DOMAIN up' : up'[i] = IF i <= Len(up) THEN up[i] ELSE u
  <2>1. up \in Seq(SentUnits) /\ (up' = Append(up, u) \/ up' = up)
    BY <1>0 DEF TypeInv
  <2>2. /\ DOMAIN up = 1 .. Len(up) /\ Len(up) \in Nat
        /\ DOMAIN Append(up, u) = 1 .. Len(up) + 1
        /\ \A i \in 1 .. Len(up) + 1 : Append(up, u)[i] = IF i <= Len(up) THEN up[i] ELSE u
    BY <1>3, <2>1
  <2>3. CASE up' = Append(up, u)
    BY <2>1, <2>2, <2>3
  <2>4. CASE up' = up
    <3>1. DOMAIN up \subseteq 1 .. Len(up) + 1
          /\ \A i \in DOMAIN up : up[i] = IF i <= Len(up) THEN up[i] ELSE u
      BY <2>2
    <3> QED BY <2>1, <2>2, <2>4, <3>1, Zenon
  <2> QED BY <2>1, <2>3, <2>4
<1>10. \A i \in DOMAIN up' : i <= Len(up) /\ IsPart(up'[i]) =>
          up[i] \in SentUnits /\ up'[i] = up[i] /\ Placed(up[i]) /\ i \in DOMAIN up
  BY <1>9 DEF WholeInv, PartsPlaced
<1>11. PartsPlaced'
  <2> SUFFICES ASSUME NEW i \in DOMAIN up', IsPart(up'[i]) PROVE Placed(up[i])'
    BY DEF PartsPlaced
  <2>1. PICK v : v = up'[i]
    OBVIOUS
  <2>2. \/ v \in SentUnits /\ Placed(v)
        \/ v = u
    BY <1>9, <1>10, <2>1
  <2>3. Placed(v)'
    BY <1>7, <1>8, <2>1, <2>2
  <2> QED BY <2>1, <2>3 DEF Placed
<1>12. PartsOrdered'
  <2> SUFFICES ASSUME NEW i \in DOMAIN up', NEW j \in DOMAIN up', i < j,
                      IsPart(up'[i]), IsPart(up'[j])
               PROVE  Follows(up'[i], up'[j])
    BY DEF PartsOrdered
  <2>1. i <= Len(up)
    BY <1>9
  <2>2. CASE j <= Len(up)
    BY <1>10, <2>1, <2>2 DEF WholeInv, PartsOrdered
  <2>3. CASE ~(j <= Len(up))
    BY <1>7, <1>9, <1>10, <2>1, <2>3
  <2> QED BY <2>2, <2>3
<1>13. HandledWhole' /\ handled' \in Seq(Requests) /\ written' \subseteq Requests
  BY <1>1 DEF WholeInv, HandledWhole
<1> QED BY <1>5, <1>11, <1>12, <1>13 DEF WholeInv

(* The connection ends: what is on its way to the worker is lost.          *)
LEMMA CloseWhole ==
  ASSUME TypeInv, WholeInv, Close, UNCHANGED <<request, written>>
  PROVE  WholeInv'
<1>1. up' = <<>> /\ DOMAIN up' = {} /\ handled' = handled
  BY DEF Close
<1> QED BY <1>1 DEF WholeInv, WrittenDone, PartsPlaced, PartsOrdered, HandledWhole

(* The worker takes a whole message: its last part was there, so it was    *)
(* written to its end, and no part of it or of an earlier one is left.     *)
LEMMA ReadWhole ==
  ASSUME TypeInv, WholeInv, up # <<>>, Arrived, IsMessage(Received),
         handled' = Append(handled, Received[1].of),
         up' = SubSeq(up, 2 + Head(up).total, Len(up)),
         UNCHANGED <<request, written>>
  PROVE  WholeInv'
<1> DEFINE total == Head(up).total
           m == Received[1].of
<1>1. /\ up \in Seq(SentUnits) /\ total \in Nat /\ total < Len(up) /\ Len(up) \in Nat
      /\ DOMAIN up = 1 .. Len(up)
      /\ up' = SubSeq(up, 2 + total, Len(up))
  BY StreamType DEF TypeInv, Arrived
<1> HIDE DEF total
<1>2. /\ Received \in Seq(SentUnits) /\ Len(Received) = total
      /\ \A i \in 1 .. total : Received[i] = up[i + 1]
  BY <1>1 DEF Received, total
<1>3. total >= 1 /\ \A i \in 1 .. total : Received[i] = Part(m, i, total)
  <2>1. Received # <<>> /\ DOMAIN Received = 1 .. total
    BY <1>2 DEF IsMessage
  <2>2. total # 0
    BY <1>2, <2>1
  <2>3. \A i \in 1 .. total : Received[i] = Part(Received[1].of, i, Len(Received))
    BY <2>1 DEF IsMessage
  <2> QED BY <1>1, <1>2, <2>2, <2>3
<1>4. m \in Requests /\ m \in Int
  BY <1>2, MessageType, BoundsAssumption DEF Requests
<1> HIDE DEF m
<1> DEFINE last == up[total + 1]
<1>5. total + 1 \in DOMAIN up /\ last = Part(m, total, total)
  BY <1>1, <1>2, <1>3
<1>6. IsPart(last) /\ last.of = m /\ last.index = total /\ last.total = total
  BY <1>5 DEF Part, IsPart
<1>7. Placed(last)
  BY <1>5, <1>6 DEF WholeInv, PartsPlaced
<1>8. m \in written /\ \A k \in DOMAIN handled : handled[k] < m
  BY <1>6, <1>7 DEF Placed
<1>9. ASSUME NEW i \in DOMAIN up, i > total + 1, IsPart(up[i])
      PROVE  m < up[i].of /\ Placed(up[i])
  <2>1. Follows(last, up[i]) /\ Placed(up[i])
    BY <1>1, <1>5, <1>6, <1>9 DEF WholeInv, PartsOrdered, PartsPlaced
  <2>2. up[i].of \in Int /\ up[i].index \in Nat /\ up[i].total \in Nat
    BY <1>1, <1>9, PartType
  <2>3. m < up[i].of
    BY <1>1, <1>4, <1>6, <2>1, <2>2 DEF Follows, Placed
  <2> QED BY <2>1, <2>3
<1> HIDE DEF last
<1>10. /\ DOMAIN up' = 1 .. Len(up) - (total + 1)
       /\ \A i \in DOMAIN up' : /\ up'[i] = up[i + (total + 1)]
                                /\ i + (total + 1) \in DOMAIN up /\ i + (total + 1) > total + 1
  <2>1. up' = SubSeq(up, total + 2, Len(up)) /\ total + 2 \in 1 .. Len(up) + 1
    <3>1. total + 2 = 2 + total
      BY <1>1
    <3>2. up' = SubSeq(up, total + 2, Len(up))
      BY <1>1, <3>1, Zenon
    <3>3. total + 2 \in 1 .. Len(up) + 1
      BY <1>1
    <3> QED BY <3>2, <3>3, Zenon
  <2>2. /\ DOMAIN up' = 1 .. Len(up) - (total + 2) + 1
        /\ \A i \in DOMAIN up' : up'[i] = up[i + (total + 2) - 1]
    BY <1>1, <2>1, UnitsOfPart
  <2>3. Len(up) - (total + 2) + 1 = Len(up) - (total + 1)
    BY <1>1
  <2>4. \A i \in 1 .. Len(up) - (total + 1) :
                               /\ i + (total + 2) - 1 = i + (total + 1)
                               /\ i + (total + 1) \in 1 .. Len(up) /\ i + (total + 1) > total + 1
    BY <1>1
  <2> QED BY <1>1, <2>2, <2>3, <2>4
<1>11. /\ handled \in Seq(Requests) /\ handled' \in Seq(Requests)
       /\ DOMAIN handled' = 1 .. Len(handled) + 1 /\ Len(handled) \in Nat
       /\ DOMAIN handled = 1 .. Len(handled)
       /\ \A k \in DOMAIN handled' : handled'[k] = IF k <= Len(handled) THEN handled[k] ELSE m
  BY <1>4 DEF WholeInv, m
<1>12. PartsPlaced'
  <2> SUFFICES ASSUME NEW i \in DOMAIN up', IsPart(up'[i]) PROVE Placed(up[i])'
    BY DEF PartsPlaced
  <2>1. PICK v : v = up'[i]
    OBVIOUS
  <2>2. m < v.of /\ Placed(v)
    BY <1>9, <1>10, <2>1
  <2>3. Placed(v)'
    BY <1>11, <2>2 DEF Placed
  <2> QED BY <2>1, <2>3 DEF Placed
<1>13. PartsOrdered'
  <2> SUFFICES ASSUME NEW i \in DOMAIN up', NEW j \in DOMAIN up', i < j,
                      IsPart(up'[i]), IsPart(up'[j])
               PROVE  Follows(up'[i], up'[j])
    BY DEF PartsOrdered
  <2>1. i + (total + 1) < j + (total + 1)
    BY <1>1, <1>10
  <2> QED BY <1>10, <2>1 DEF WholeInv, PartsOrdered
<1>14. HandledWhole'
  BY <1>8, <1>11 DEF WholeInv, HandledWhole
<1> QED BY <1>11, <1>12, <1>13, <1>14 DEF WholeInv, WrittenDone

(* Every step keeps the order of the parts.                                *)
LEMMA NextWhole ==
  TypeInv /\ TypeInv' /\ WholeInv /\ [Next]_vars => WholeInv'
<1> SUFFICES ASSUME TypeInv, TypeInv', WholeInv, [Next]_vars PROVE WholeInv'
  OBVIOUS
<1>1. Ended(request).of = request.of /\ Ended(request).phase = "idle" /\ request \in Task
  BY TaskType DEF TypeInv
<1>2. CASE StartRequest
  BY <1>2, StartWhole
<1>3. CASE ReserveRequest
  <2>1. request' = [request EXCEPT !.slot = Later(limiter, now)] /\ UNCHANGED <<up, handled, written>>
    BY <1>3 DEF ReserveRequest, Reserved, streams
  <2>2. request'.of = request.of /\ request'.phase = request.phase
        /\ request'.done = request.done /\ request'.length = request.length
    BY <1>1, <2>1 DEF Task
  <2> QED BY <2>1, <2>2, SameWhole
<1>4. CASE WriteRequest
  <2>1. CASE request' = Ended(request) /\ UNCHANGED <<up, sent, written>>
    BY <1>1, <1>4, <2>1, SameWhole DEF WriteRequest
  <2>2. CASE /\ up' = IF open THEN Append(up, Frame(request.of, request.length)[request.done + 1]) ELSE up
             /\ request' = Written(request)
             /\ written' = IF request.done = request.length THEN written \cup {request.of} ELSE written
    <3>1. MayWrite(request) /\ UNCHANGED handled
      BY <1>4 DEF WriteRequest
    <3> QED BY <2>2, <3>1, WriteWhole
  <2> QED BY <1>4, <2>1, <2>2 DEF WriteRequest
<1>5. CASE ReadHeader
  <2>1. request'.of = request.of /\ request'.phase \in {"idle", "read"}
    BY <1>1, <1>5 DEF ReadHeader, Task
  <2> QED BY <1>5, <2>1, SameWhole DEF ReadHeader
<1>6. CASE ReadPart
  <2>1. request'.of = request.of /\ request'.phase \in {"idle", "read"}
    BY <1>1, <1>6 DEF ReadPart
  <2> QED BY <1>6, <2>1, SameWhole DEF ReadPart
<1>7. CASE ReadResponse
  BY <1>1, <1>7, SameWhole DEF ReadResponse, streams
<1>8. CASE DropRequest
  BY <1>1, <1>8, SameWhole DEF DropRequest, streams
<1>9. CASE WorkerRead
  <2>1. CASE Close
    BY <1>9, <2>1, CloseWhole DEF WorkerRead
  <2>2. CASE /\ Arrived /\ IsMessage(Received)
             /\ handled' = Append(handled, Received[1].of)
             /\ up' = SubSeq(up, 2 + Head(up).total, Len(up))
    BY <1>9, <2>2, ReadWhole DEF WorkerRead
  <2> QED BY <1>9, <2>1, <2>2 DEF WorkerRead
<1>10. CASE WorkerReply
  <2>1. Close \/ UNCHANGED <<up, handled>>
    BY <1>10 DEF WorkerReply
  <2>2. UNCHANGED <<request, written>>
    BY <1>10 DEF WorkerReply
  <2> QED BY <2>1, <2>2, CloseWhole, SameWhole
<1>11. CASE StartProbe \/ ReserveProbe \/ WriteProbe \/ EndProbe \/ Tick \/ UNCHANGED vars
  <2>1. UNCHANGED <<request, up, handled, written>>
    BY <1>11 DEF StartProbe, ReserveProbe, WriteProbe, EndProbe, Tick, streams, vars
  <2> QED BY <2>1, SameWhole
<1> QED BY <1>2, <1>3, <1>4, <1>5, <1>6, <1>7, <1>8, <1>9, <1>10, <1>11 DEF Next

(* The worker handles only what was written to its end, once and in order, *)
(* whatever was dropped half written before it (worker.rs, the loop of a   *)
(* connection; message.rs, from_reader).                                   *)
THEOREM HandledCorrect == Spec => []HandledWhole
<1>1. WholeInv => HandledWhole
  BY DEF WholeInv
<1> QED BY <1>1, InitTypes, NextTypes, InitWhole, NextWhole, PTL DEF Spec

-----------------------------------------------------------------------------
(* The request in progress.  Until one is dropped or a response is cut     *)
(* off, at most one frame is on its way, and where it is follows from the  *)
(* phase of the request.                                                   *)

Sends ==
  /\ request.phase \in {"write", "await"} /\ down = <<>> /\ serving = None
  /\ ~Refuses(request.length)
  /\ Begins(up, request.of, request.length,
            IF request.phase = "write" THEN request.done ELSE request.length + 1)

Served == request.phase = "await" /\ up = <<>> /\ down = <<>> /\ serving = request.of

Responds ==
  /\ request.phase = "await" /\ up = <<>> /\ serving = None
  /\ \E n \in 0 .. MaxSize : Begins(down, request.of, n, n + 1)

Reads ==
  /\ request.phase = "read" /\ up = <<>> /\ serving = None
  /\ Len(buffer) + Len(down) = request.length
  /\ \A i \in 1 .. Len(buffer) : buffer[i] = Part(request.of, i, request.length)
  /\ \A i \in 1 .. Len(down) : down[i] = Part(request.of, Len(buffer) + i, request.length)

Rests == request.phase = "idle" /\ up = <<>> /\ down = <<>> /\ serving = None

StageInv ==
  /\ OwnResponse
  /\ open => Rests \/ Sends \/ Served \/ Responds \/ Reads
  /\ ~open => down = <<>> /\ request.phase # "read"

Whole == dropped = {} /\ cut = {}

(* A header that states its length, or less.                               *)
LEMMA SizeBound ==
  ASSUME NEW length \in Nat
  PROVE  /\ SizeOf(length) \in Nat /\ SizeOf(length) <= length
         /\ length <= MaxSize => SizeOf(length) = length
<1>1. Wrap \in Nat /\ Wrap > 0 /\ MaxSize \in Nat /\ MaxSize < Wrap
  BY SizeAssumption
<1>2. length % Wrap \in 0 .. Wrap - 1 /\ length = Wrap * (length \div Wrap) + (length % Wrap)
      /\ length \div Wrap \in Nat
  BY <1>1
<1>3. Wrap * (length \div Wrap) >= 0
  BY <1>1, <1>2
<1>4. length < Wrap => length % Wrap = length
  BY <1>1
<1> QED BY <1>1, <1>2, <1>3, <1>4 DEF SizeOf

(* A step that changes nothing of the request in progress but its slot.    *)
LEMMA StageSame ==
  ASSUME StageInv, UNCHANGED <<up, down, buffer, open, serving, answers>>,
         request'.of = request.of, request'.phase = request.phase,
         request'.done = request.done, request'.length = request.length
  PROVE  StageInv'
<1>1. OwnResponse'
  BY DEF StageInv, OwnResponse
<1>2. Rests \/ Sends \/ Served \/ Responds \/ Reads =>
        Rests' \/ Sends' \/ Served' \/ Responds' \/ Reads'
  BY DEF Rests, Sends, Served, Responds, Reads
<1> QED BY <1>1, <1>2 DEF StageInv

(* A request begins where nothing is left of the last one.                 *)
LEMMA StartStage ==
  ASSUME TypeInv, StageInv, StartRequest
  PROVE  StageInv'
<1>1. PICK length \in Lengths :
        request' = IF Refuses(length) THEN Ended([request EXCEPT !.of = @ + 1])
                   ELSE Writing(request.of + 1, length)
  BY DEF StartRequest
<1>2. /\ request.phase = "idle" /\ length \in Nat
      /\ UNCHANGED <<up, down, open, serving, answers>>
  BY BoundsAssumption DEF StartRequest, streams
<1>3. open => Rests
  BY <1>2 DEF StageInv, Rests, Sends, Served, Responds, Reads
<1>4. OwnResponse'
  BY <1>2 DEF StageInv, OwnResponse
<1>5. CASE Refuses(length)
  <2>1. request'.phase = "idle"
    BY <1>1, <1>5 DEF Ended, TypeInv, Task
  <2> QED BY <1>2, <1>3, <1>4, <2>1 DEF StageInv, Rests
<1>6. CASE ~Refuses(length)
  <2>1. /\ request'.phase = "write" /\ request'.done = 0 /\ request'.length = length
        /\ request'.of = request.of + 1
    BY <1>1, <1>6 DEF Writing
  <2>2. open => Sends'
    <3>1. Refuses(length)' = Refuses(length)
      BY DEF Refuses, SizeOf
    <3>2. \A i \in 1 .. 0 : FALSE
      OBVIOUS
    <3> QED BY <1>2, <1>3, <1>6, <2>1, <3>2 DEF Sends, Begins, Rests, Refuses
  <2> QED BY <1>2, <1>4, <2>1, <2>2 DEF StageInv
<1> QED BY <1>5, <1>6

(* One more unit of the request is on the stream.                          *)
LEMMA WriteStage ==
  ASSUME TypeInv, StageInv, WriteRequest
  PROVE  StageInv'
<1> DEFINE done == request.done
           length == request.length
           m == request.of
<1>1. /\ request.phase = "write" /\ request \in Task /\ m \in Requests
      /\ done \in Nat /\ length \in Nat /\ done <= length
      /\ UNCHANGED <<down, open, serving, answers>>
  BY DEF WriteRequest, MayWrite, TypeInv, Task
<1>2. OwnResponse'
  BY <1>1 DEF StageInv, OwnResponse
<1>3. request'.phase \in {"write", "await", "idle"}
  BY <1>1, TaskType DEF WriteRequest
<1>4. CASE ~open
  BY <1>1, <1>2, <1>3, <1>4 DEF StageInv
<1>5. CASE open
  <2>1. /\ up' = Append(up, Frame(m, length)[done + 1])
        /\ request' = Written(request)
    BY <1>5 DEF WriteRequest
  <2>2. Sends /\ Begins(up, m, length, done)
    BY <1>1, <1>5 DEF StageInv, Rests, Sends, Served, Responds, Reads
  <2>3. Frame(m, length)[done + 1] = FrameAt(m, length, done + 1)
    <3>1. done + 1 \in 1 .. length + 1
      BY <1>1
    <3>2. Begins(Frame(m, length), m, length, length + 1)
      BY <1>1, FrameBegins
    <3> QED BY <3>1, <3>2 DEF Begins
  <2>4. Begins(up', m, length, done + 1)
    <3>1. up \in Seq(SentUnits) /\ Len(up) = done
      BY <2>2 DEF TypeInv, Begins
    <3>2. Len(up') = done + 1 /\ \A i \in 1 .. done + 1 : up'[i] = IF i = done + 1 THEN FrameAt(m, length, done + 1) ELSE up[i]
      BY <1>1, <2>1, <2>3, <3>1
    <3>3. ASSUME NEW i \in 1 .. done + 1 PROVE up'[i] = FrameAt(m, length, i)
      BY <1>1, <2>2, <3>2 DEF Begins
    <3> QED BY <3>2, <3>3 DEF Begins
  <2>5. CASE done = length
    <3>1. request'.phase = "await" /\ request'.of = m /\ request'.length = length
      BY <1>1, <2>1, <2>5 DEF Written, Task
    <3>2. Sends'
      BY <1>1, <2>2, <2>4, <2>5, <3>1 DEF Sends, Begins, FrameAt, Refuses, SizeOf, Header, Part
    <3> QED BY <1>1, <1>2, <1>5, <3>2 DEF StageInv
  <2>6. CASE done # length
    <3>1. /\ request'.phase = "write" /\ request'.of = m /\ request'.length = length
          /\ request'.done = done + 1
      BY <1>1, <2>1, <2>6 DEF Written, Task
    <3>2. Sends'
      BY <1>1, <2>2, <2>4, <3>1 DEF Sends, Begins, FrameAt, Refuses, SizeOf, Header, Part
    <3> QED BY <1>1, <1>2, <1>5, <3>2 DEF StageInv
  <2> QED BY <2>5, <2>6
<1> QED BY <1>4, <1>5

(* The header of the response, and with it the length that will be read.   *)
LEMMA HeaderStage ==
  ASSUME TypeInv, StageInv, ReadHeader
  PROVE  StageInv'
<1>1. /\ request.phase = "await" /\ buffer = <<>> /\ request \in Task
      /\ UNCHANGED <<buffer, up, open, serving, answers>>
  BY DEF ReadHeader, TypeInv
<1>2. OwnResponse'
  BY <1>1 DEF StageInv, OwnResponse
<1>3. CASE ~open
  <2>1. request' = Ended(request) /\ down' = down
    BY <1>3 DEF ReadHeader, StageInv
  <2> QED BY <1>1, <1>2, <1>3, <2>1, TaskType DEF StageInv
<1>4. CASE open
  <2>1. down # <<>>
    BY <1>4 DEF ReadHeader
  <2>2. up = <<>> /\ serving = None /\ \E k \in 0 .. MaxSize : Begins(down, request.of, k, k + 1)
    BY <1>1, <1>4, <2>1 DEF StageInv, Rests, Sends, Served, Responds, Reads
  <2>3. PICK n \in 0 .. MaxSize : Begins(down, request.of, n, n + 1)
    BY <2>2
  <2>4. n \in Nat /\ n <= MaxSize /\ SizeOf(n) = n
    BY <2>3, SizeAssumption, SizeBound
  <2>5. down[1] = Header(n) /\ Head(down) = down[1]
    BY <2>1, <2>3, <2>4 DEF Begins, FrameAt, TypeInv
  <2>6. request' = [request EXCEPT !.phase = "read", !.length = n] /\ down' = Tail(down)
    <3>1. Head(down).kind = "header" /\ Head(down).total = n
      BY <2>5 DEF Header
    <3>2. Head(down).kind = "header" /\ Head(down).total <= MaxSize
      BY <2>4, <3>1
    <3>3. request' = [request EXCEPT !.phase = "read", !.length = Head(down).total]
          /\ down' = Tail(down)
      BY <2>1, <3>2 DEF ReadHeader
    <3> QED BY <3>1, <3>3
  <2>7. request'.phase = "read" /\ request'.length = n /\ request'.of = request.of
    BY <1>1, <2>6 DEF Task
  <2>8. Len(down') = n /\ \A i \in 1 .. n : down'[i] = Part(request.of, i, n)
    <3>1. down \in Seq(SentUnits) /\ Len(down) = n + 1
      BY <2>3 DEF TypeInv, Begins
    <3>2. Len(down') = n /\ \A i \in 1 .. n : down'[i] = down[i + 1]
      BY <2>1, <2>4, <2>6, <3>1
    <3>3. ASSUME NEW i \in 1 .. n PROVE down'[i] = Part(request.of, i, n)
      <4>1. i + 1 \in 1 .. n + 1 /\ i + 1 # 1 /\ (i + 1) - 1 = i
        BY <2>4
      <4>2. down[i + 1] = FrameAt(request.of, n, i + 1)
        BY <2>3, <4>1 DEF Begins
      <4> QED BY <3>2, <4>1, <4>2 DEF FrameAt
    <3> QED BY <3>2, <3>3
  <2>9. Reads'
    <3>1. Len(buffer') = 0 /\ \A i \in 1 .. 0 : FALSE
      BY <1>1
    <3>2. \A i \in 1 .. n : 0 + i = i
      BY <2>4
    <3> QED BY <1>1, <2>2, <2>4, <2>7, <2>8, <3>1, <3>2 DEF Reads
  <2> QED BY <1>1, <1>2, <1>4, <2>9 DEF StageInv
<1> QED BY <1>3, <1>4

(* One more part of the response is read.                                  *)
LEMMA PartStage ==
  ASSUME TypeInv, StageInv, ReadPart
  PROVE  StageInv'
<1>1. /\ request.phase = "read" /\ Len(buffer) < request.length
      /\ UNCHANGED <<up, open, serving, answers>>
      /\ buffer \in Seq(SentUnits) /\ down \in Seq(SentUnits)
  BY DEF ReadPart, TypeInv
<1>2. OwnResponse' /\ open
  BY <1>1 DEF StageInv, OwnResponse
<1>3. Reads
  BY <1>1, <1>2 DEF StageInv, Rests, Sends, Served, Responds, Reads
<1>4. down # <<>> /\ buffer' = Append(buffer, Head(down)) /\ down' = Tail(down) /\ UNCHANGED request
  BY <1>1, <1>2, <1>3 DEF ReadPart, Reads
<1> DEFINE b == Len(buffer)
           d == Len(down)
           m == request.of
           length == request.length
<1>5. b \in Nat /\ d \in Nat /\ d >= 1 /\ b + d = length
  BY <1>1, <1>3, <1>4 DEF Reads
<1>6. /\ Len(buffer') = b + 1 /\ Len(down') = d - 1
      /\ \A i \in 1 .. b + 1 : buffer'[i] = IF i = b + 1 THEN down[1] ELSE buffer[i]
      /\ \A i \in 1 .. d - 1 : down'[i] = down[i + 1]
  BY <1>1, <1>4, <1>5
<1>7. /\ \A i \in 1 .. b : buffer[i] = Part(m, i, length)
      /\ \A i \in 1 .. d : down[i] = Part(m, b + i, length)
  BY <1>3 DEF Reads
<1>8. ASSUME NEW i \in 1 .. b + 1 PROVE buffer'[i] = Part(m, i, length)
  <2>1. CASE i = b + 1
    BY <1>5, <1>6, <1>7, <2>1
  <2>2. CASE i # b + 1
    BY <1>5, <1>6, <1>7, <2>2, SMTT(30)
  <2> QED BY <2>1, <2>2
<1>9. ASSUME NEW i \in 1 .. d - 1 PROVE down'[i] = Part(m, (b + 1) + i, length)
  <2>1. i + 1 \in 1 .. d /\ b + (i + 1) = (b + 1) + i
    BY <1>5
  <2> QED BY <1>6, <1>7, <2>1
<1>10. Len(buffer') + Len(down') = length
  BY <1>5, <1>6
<1>11. Reads'
  BY <1>1, <1>3, <1>4, <1>6, <1>8, <1>9, <1>10 DEF Reads
<1> QED BY <1>1, <1>2, <1>11 DEF StageInv

(* The response is complete, and it is the one to this request.            *)
LEMMA ResponseStage ==
  ASSUME TypeInv, StageInv, ReadResponse
  PROVE  StageInv'
<1>1. /\ request.phase = "read" /\ Len(buffer) = request.length
      /\ UNCHANGED <<up, down, open, serving>>
      /\ request' = Ended(request)
      /\ buffer \in Seq(SentUnits) /\ down \in Seq(SentUnits)
  BY DEF ReadResponse, TypeInv, streams
<1>2. open /\ Reads
  BY <1>1 DEF StageInv, Rests, Sends, Served, Responds, Reads
<1>3. down = <<>>
  BY <1>1, <1>2 DEF Reads
<1>4. Rests'
  BY <1>1, <1>2, <1>3, TaskType DEF Rests, Reads, TypeInv
<1>5. ASSUME IsMessage(buffer) PROVE buffer[1].of = request.of
  <2>1. 1 \in 1 .. Len(buffer)
    BY <1>1, <1>5 DEF IsMessage
  <2>2. buffer[1] = Part(request.of, 1, request.length)
    BY <1>2, <2>1 DEF Reads
  <2> QED BY <2>2 DEF Part
<1>6. OwnResponse'
  <2>1. answers' = answers \/ answers' = answers \cup {<<request.of, request.of>>}
    BY <1>5 DEF ReadResponse
  <2> QED BY <2>1 DEF StageInv, OwnResponse
<1> QED BY <1>1, <1>2, <1>4, <1>6 DEF StageInv

(* A worker reads a frame of which something has arrived: it takes all of  *)
(* it, or gives up the connection.                                         *)
LEMMA ServeStage ==
  ASSUME TypeInv, StageInv, WorkerRead
  PROVE  StageInv'
<1> DEFINE m == request.of
           length == request.length
           total == SizeOf(request.length)
<1>1. /\ open /\ serving = None /\ up # <<>>
      /\ UNCHANGED <<request, buffer, answers>>
      /\ up \in Seq(SentUnits) /\ request \in Task /\ m \in Requests /\ length \in Nat
      /\ None \notin Requests
  BY NoneAssumption, BoundsAssumption DEF WorkerRead, WorkerIdle, TypeInv, Task, Requests
<1>2. OwnResponse'
  BY <1>1 DEF StageInv, OwnResponse
<1>3. Sends
  BY <1>1 DEF StageInv, Rests, Sends, Served, Responds, Reads
<1> DEFINE k == IF request.phase = "write" THEN request.done ELSE request.length + 1
<1>4. /\ k \in Nat /\ k <= length + 1 /\ (k = length + 1 => request.phase = "await")
      /\ Begins(up, m, length, k) /\ request.phase \in {"write", "await"}
  BY <1>1, <1>3 DEF Sends, TypeInv, Task
<1> HIDE DEF k
<1>5. total \in Nat /\ total <= length
  BY <1>1, SizeBound
<1>6. Head(up) = Header(total) /\ Len(up) = k /\ k >= 1
  BY <1>1, <1>4 DEF Begins, FrameAt
<1>7. CASE Close /\ UNCHANGED serving
  BY <1>1, <1>2, <1>3, <1>4, <1>7 DEF StageInv, Sends, Close
<1>8. CASE /\ Arrived /\ IsMessage(Received)
           /\ serving' = Received[1].of
           /\ up' = SubSeq(up, 2 + Head(up).total, Len(up))
           /\ UNCHANGED <<down, open>>
  <2>1. Head(up).total = total
    BY <1>6 DEF Header
  <2>2. total < k
    BY <1>6, <1>8, <2>1 DEF Arrived
  <2>3. Len(Received) = total /\ \A i \in 1 .. total : Received[i] = up[i + 1]
    BY <1>1, <1>5, <1>6, <2>1, <2>2 DEF Received
  <2>4. \A i \in 1 .. total : Received[i] = Part(m, i, length)
    <3> SUFFICES ASSUME NEW i \in 1 .. total PROVE Received[i] = Part(m, i, length)
      OBVIOUS
    <3>1. i + 1 \in 1 .. k /\ i + 1 # 1 /\ (i + 1) - 1 = i
      BY <1>4, <1>5, <2>2
    <3>2. up[i + 1] = FrameAt(m, length, i + 1)
      BY <1>4, <3>1 DEF Begins
    <3> QED BY <2>3, <3>1, <3>2 DEF FrameAt
  <2>5. Received \in Seq(SentUnits)
    BY <1>1, <1>5, <1>6, <2>1, <2>2, PartOfStream DEF Received
  <2>6. total >= 1 /\ Received[1] = Part(Received[1].of, 1, total)
    <3>1. Received # <<>> /\ DOMAIN Received = 1 .. total
      BY <1>8, <2>3, <2>5 DEF IsMessage
    <3>2. total # 0
      BY <2>3, <2>5, <3>1
    <3> QED BY <1>5, <1>8, <2>3, <3>1, <3>2 DEF IsMessage
  <2>7. Received[1] = Part(m, 1, length)
    BY <1>5, <2>4, <2>6
  <2>8. length = total /\ Received[1].of = m
    BY <2>6, <2>7 DEF Part
  <2>9. k = length + 1
    BY <1>1, <1>4, <2>2, <2>8
  <2>10. up' = <<>>
    <3>1. up' = SubSeq(up, 2 + length, length + 1)
      BY <1>6, <1>8, <2>1, <2>8, <2>9
    <3> QED BY <1>1, <3>1
  <2>11. Served'
    BY <1>1, <1>3, <1>4, <1>8, <2>8, <2>9, <2>10 DEF Served, Sends
  <2> QED BY <1>1, <1>2, <1>8, <2>11 DEF StageInv
<1> QED BY <1>7, <1>8 DEF WorkerRead

(* The worker answers what it was asked, in a frame that states its length.*)
LEMMA ReplyStage ==
  ASSUME TypeInv, StageInv, WorkerReply, cut = {}, cut' = {}
  PROVE  StageInv'
<1>1. /\ open /\ serving # None /\ serving' = None
      /\ UNCHANGED <<request, buffer, answers>>
  BY DEF WorkerReply
<1>2. OwnResponse'
  BY <1>1 DEF StageInv, OwnResponse
<1>3. Served /\ request.of \in Requests
  BY <1>1 DEF StageInv, Rests, Sends, Served, Responds, Reads, TypeInv
<1>4. PICK length \in Lengths :
        IF Refuses(length) THEN Close /\ UNCHANGED cut
        ELSE /\ down' = down \o Frame(serving, length)
             /\ cut' = IF SizeOf(length) = length THEN cut ELSE cut \cup {serving}
             /\ UNCHANGED <<up, open, handled>>
  BY DEF WorkerReply
<1>5. length \in Nat /\ MaxSize \in Nat
  BY BoundsAssumption, SizeAssumption
<1>6. CASE Refuses(length)
  BY <1>1, <1>2, <1>3, <1>4, <1>6 DEF StageInv, Served, Close
<1>7. CASE ~Refuses(length)
  <2>1. SizeOf(length) = length
    BY <1>4, <1>7
  <2>2. length \in 0 .. MaxSize
    BY <1>5, <1>7, <2>1 DEF Refuses
  <2>3. down' = <<>> \o Frame(request.of, length)
    BY <1>3, <1>4, <1>7 DEF Served
  <2>4. Frame(request.of, length) \in Seq(SentUnits)
    BY <1>3, <1>5, FrameType
  <2>5. down' = Frame(request.of, length)
    BY <2>3, <2>4
  <2>6. Begins(down', request.of, length, length + 1)
    BY <1>3, <1>5, <2>5, FrameBegins
  <2>7. Responds'
    <3>1. up' = <<>> /\ request'.phase = "await" /\ request' = request
      BY <1>1, <1>3, <1>4, <1>7 DEF Served
    <3> QED BY <1>1, <2>2, <2>6, <3>1 DEF Responds, Begins, FrameAt, Header, Part, SizeOf
  <2>8. open' = open
    BY <1>4, <1>7
  <2> QED BY <1>1, <1>2, <2>7, <2>8 DEF StageInv
<1> QED BY <1>6, <1>7

(* Nothing is on its way at first.                                         *)
LEMMA InitStage == Init => StageInv
BY DEF Init, StageInv, OwnResponse, Rests, Ended, Writing

(* Every step but a drop keeps the stage of the request.                   *)
LEMMA NextStage ==
  TypeInv /\ (Whole => StageInv) /\ [Next]_vars => (Whole => StageInv)'
<1> SUFFICES ASSUME TypeInv, Whole => StageInv, [Next]_vars, dropped' = {}, cut' = {}
             PROVE  StageInv'
  BY DEF Whole
<1>1. CASE DropRequest
  BY <1>1 DEF DropRequest
<1>2. CASE WorkerReply
  <2>1. cut = {} /\ dropped = {}
    BY <1>2 DEF WorkerReply
  <2> QED BY <1>2, <2>1, ReplyStage DEF Whole
<1>3. CASE StartRequest
  BY <1>3, StartStage DEF StartRequest, streams, Whole
<1>4. CASE WriteRequest
  BY <1>4, WriteStage DEF WriteRequest, Whole
<1>5. CASE ReadHeader
  BY <1>5, HeaderStage DEF ReadHeader, Whole
<1>6. CASE ReadPart
  BY <1>6, PartStage DEF ReadPart, Whole
<1>7. CASE ReadResponse
  BY <1>7, ResponseStage DEF ReadResponse, streams, Whole
<1>8. CASE WorkerRead
  BY <1>8, ServeStage DEF WorkerRead, Whole
<1>9. CASE ReserveRequest
  <2>1. request' = [request EXCEPT !.slot = Later(limiter, now)] /\ request \in Task
    BY <1>9 DEF ReserveRequest, Reserved, TypeInv
  <2>2. request'.of = request.of /\ request'.phase = request.phase
        /\ request'.done = request.done /\ request'.length = request.length
    BY <2>1 DEF Task
  <2> QED BY <1>9, <2>2, StageSame DEF ReserveRequest, streams, Whole
<1>10. CASE StartProbe \/ ReserveProbe \/ WriteProbe \/ EndProbe \/ Tick \/ UNCHANGED vars
  <2>1. UNCHANGED <<request, buffer, streams, answers, dropped>>
    BY <1>10 DEF StartProbe, ReserveProbe, WriteProbe, EndProbe, Tick, streams, vars
  <2> QED BY <2>1, StageSame DEF streams, Whole
<1> QED BY <1>1, <1>2, <1>3, <1>4, <1>5, <1>6, <1>7, <1>8, <1>9, <1>10 DEF Next

(* Until a request is dropped or the header of a response states less than *)
(* follows it, every response is that of the request that reads it, and    *)
(* master and worker never both wait for the other (client.rs, request;    *)
(* worker.rs, the loop of a connection; message.rs, to_writer).            *)
THEOREM ResponsesCorrect == Spec => []Undisturbed
<1>1. ASSUME TypeInv, Whole => StageInv PROVE Undisturbed
  <2> SUFFICES ASSUME StageInv, AwaitsResponse, open, serving = None
               PROVE  ~AwaitsFrame
    BY <1>1 DEF Undisturbed, Whole, StageInv, OwnResponse, WorkerIdle
  <2>1. down = <<>> /\ (request.phase = "await" \/ (request.phase = "read" /\ Len(buffer) < request.length))
    BY DEF AwaitsResponse
  <2>2. request.of \in Requests /\ None \notin Requests /\ request.length \in Nat
    BY <1>1, NoneAssumption, BoundsAssumption DEF TypeInv, Task, Requests
  <2>3. ~Responds
    <3> SUFFICES ASSUME NEW n \in 0 .. MaxSize, Begins(down, request.of, n, n + 1) PROVE FALSE
      BY DEF Responds
    <3>1. n \in Nat
      BY SizeAssumption
    <3> QED BY <2>1, <3>1 DEF Begins
  <2>4. ~Reads
    BY <1>1, <2>1 DEF Reads, TypeInv
  <2>5. Sends /\ request.phase = "await"
    BY <2>1, <2>2, <2>3, <2>4 DEF StageInv, Rests, Served, Sends
  <2>6. Begins(up, request.of, request.length, request.length + 1) /\ ~Refuses(request.length)
    BY <2>5 DEF Sends
  <2>7. SizeOf(request.length) \in Nat /\ SizeOf(request.length) <= request.length
    BY <2>2, SizeBound
  <2>8. Len(up) = request.length + 1 /\ up # <<>> /\ Head(up) = Header(SizeOf(request.length))
    BY <1>1, <2>2, <2>6 DEF Begins, FrameAt, TypeInv
  <2> QED BY <2>2, <2>6, <2>7, <2>8, SizeAssumption DEF AwaitsFrame, Unreadable, Arrived, Header, Refuses
<1> QED BY <1>1, InitTypes, NextTypes, InitStage, NextStage, PTL DEF Spec
=============================================================================
