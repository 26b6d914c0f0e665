-------------------------------- MODULE Wire --------------------------------
(* Frames on the connection of a worker (Client::request, probe_worker,    *)
(* Message::to_writer and from_reader, TransferLimiter, the worker loop).  *)
(* A frame is a header unit with the size of the message and one unit per  *)
(* part of it.  The master writes and reads a frame unit by unit, and its  *)
(* request may be dropped, with the handler it runs in, at each await.     *)
EXTENDS Integers, Sequences, FiniteSets

CONSTANTS
  Lengths,       \* the lengths of requests and responses, in units
  MaxSize,       \* MESSAGE_MAX_SIZE, in units
  Wrap,          \* one more than the largest size a header holds
  MaxRequests,   \* bound: requests of the master
  MaxProbes,     \* bound: topology probes
  MaxTime,       \* bound: ticks of the clock
  HeaderTime,    \* the time of a header at the limited rate
  PartTime,      \* the time of a part
  None           \* no slot, no request

ASSUME NoneAssumption == None \notin Nat
ASSUME SizeAssumption == MaxSize \in Nat /\ Wrap \in Nat /\ MaxSize < Wrap
ASSUME BoundsAssumption ==
  /\ Lengths \subseteq Nat
  /\ MaxRequests \in Nat /\ MaxProbes \in Nat /\ MaxTime \in Nat
ASSUME TimeAssumption == HeaderTime \in Nat /\ PartTime \in Nat /\ HeaderTime <= PartTime

VARIABLES
  request,   \* the request of the chat that holds the master
  probe,     \* the topology probe, on a connection of its own
  buffer,    \* the parts of a response read so far
  up, down,  \* the two streams of the pool's connection
  open,      \* whether the worker still has it open
  serving,   \* the request the worker has read and not answered
  limited,   \* whether a transfer limit is configured
  limiter,   \* next_write_at, the end of the last slot given out
  now,       \* the clock of the master's process
  sent,      \* the time of all units the master has written
  answers,   \* pairs of a request and the request whose response it returned
  handled,   \* the requests the worker has read, in order
  dropped,   \* the requests that were dropped
  written,   \* history: the requests the master has written to their end
  cut        \* history: the requests whose response is longer than its header says

vars == <<request, probe, buffer, up, down, open, serving, limited, limiter, now, sent,
          answers, handled, dropped, written, cut>>

streams == <<up, down, open, serving, handled, cut>>
clock == <<limiter, now, sent>>

-----------------------------------------------------------------------------
Header(size) == [kind |-> "header", of |-> None, index |-> 0, total |-> size]
Part(m, i, total) == [kind |-> "part", of |-> m, index |-> i, total |-> total]

(* to_writer: the length is cast to the header's width, then compared.     *)
SizeOf(length) == length % Wrap
Refuses(length) == SizeOf(length) > MaxSize

(* Mutant: a message of the largest size is written behind a header that   *)
(* counts itself.                                                          *)
FrameCounted(m, length) ==
  <<Header(SizeOf(length) + 1)>> \o [i \in 1 .. length |-> Part(m, i, length)]

Frame(m, length) ==
  <<Header(SizeOf(length))>> \o [i \in 1 .. length |-> Part(m, i, length)]

(* Mutant: what the bytes begin with decides.                              *)
BeginsMessage(units) == units # <<>> /\ units[1].kind = "part"

(* from_bytes: the bytes read are those of one message, all of them.       *)
IsMessage(units) ==
  /\ units # <<>>
  /\ \A i \in DOMAIN units : units[i] = Part(units[1].of, i, Len(units))

(* A writer is at unit `done` of its frame, or waits for the slot of the next. *)
Writing(m, length) == [of |-> m, length |-> length, phase |-> "write", done |-> 0, slot |-> None]
Ended(task) == [task EXCEPT !.phase = "idle", !.done = 0, !.slot = None]

TimeOf(task) == IF task.done = 0 THEN HeaderTime ELSE PartTime

Later(a, b) == IF a < b THEN b ELSE a

(* Mutant: the slot is counted from now.                                   *)
ReservedFromNow(task, task_) ==
  /\ limited
  /\ task.phase = "write" /\ task.slot = None
  /\ task_ = [task EXCEPT !.slot = Later(limiter, now)]
  /\ limiter' = now + TimeOf(task)

(* wait_for_slot, first half: the slot starts when the last one ends.      *)
Reserved(task, task_) ==
  /\ limited
  /\ task.phase = "write" /\ task.slot = None
  /\ task_ = [task EXCEPT !.slot = Later(limiter, now)]
  /\ limiter' = Later(limiter, now) + TimeOf(task)

(* Second half: asleep until the slot starts.                              *)
MayWrite(task) ==
  /\ task.phase = "write"
  /\ limited => task.slot # None /\ now >= task.slot

(* One more unit is written; behind the last one the response is read.     *)
Written(task) ==
  IF task.done = task.length
  THEN [task EXCEPT !.phase = "await", !.done = 0, !.slot = None]
  ELSE [task EXCEPT !.done = @ + 1, !.slot = None]

-----------------------------------------------------------------------------
StartRequest ==
  /\ request.phase = "idle"
  /\ request.of < MaxRequests
  /\ \E length \in Lengths :
       request' = IF Refuses(length) THEN Ended([request EXCEPT !.of = @ + 1])
                  ELSE Writing(request.of + 1, length)
  /\ UNCHANGED <<probe, buffer, streams, limited, clock, answers, dropped, written>>

ReserveRequest ==
  /\ Reserved(request, request')
  /\ UNCHANGED <<probe, buffer, streams, limited, now, sent, answers, dropped, written>>

WriteRequest ==
  /\ MayWrite(request)
  /\ \/ /\ up' = IF open THEN Append(up, Frame(request.of, request.length)[request.done + 1]) ELSE up
        /\ request' = Written(request)
        /\ sent' = sent + TimeOf(request)
        /\ written' = IF request.done = request.length THEN written \cup {request.of} ELSE written
     \/ /\ ~open
        /\ request' = Ended(request)
        /\ UNCHANGED <<up, sent, written>>
  /\ UNCHANGED <<probe, buffer, down, open, serving, handled, cut, limited, limiter, now, answers, dropped>>

(* The header of a response; without a magic number only that is consumed. *)
ReadHeader ==
  /\ request.phase = "await"
  /\ \/ /\ down # <<>>
        /\ IF Head(down).kind = "header" /\ Head(down).total <= MaxSize
           THEN /\ request' = [request EXCEPT !.phase = "read", !.length = Head(down).total]
                /\ down' = Tail(down)
           ELSE /\ request' = Ended(request)
                /\ down' \in {down, Tail(down)}
     \/ /\ down = <<>> /\ ~open
        /\ request' = Ended(request)
        /\ UNCHANGED down
  /\ UNCHANGED <<probe, buffer, up, open, serving, handled, cut, limited, clock, answers, dropped, written>>

(* The parts of a response: read_exact consumes them as they arrive.       *)
ReadPart ==
  /\ request.phase = "read" /\ Len(buffer) < request.length
  /\ \/ /\ down # <<>>
        /\ buffer' = Append(buffer, Head(down))
        /\ down' = Tail(down)
        /\ UNCHANGED request
     \/ /\ down = <<>> /\ ~open
        /\ request' = Ended(request)
        /\ buffer' = <<>>
        /\ UNCHANGED down
  /\ UNCHANGED <<probe, up, open, serving, handled, cut, limited, clock, answers, dropped, written>>

(* Mutant: the buffer is kept for the next response.                       *)
ReadResponseKeeps ==
  /\ request.phase = "read" /\ Len(buffer) = request.length
  /\ answers' = IF IsMessage(buffer)
                THEN answers \cup {<<request.of, buffer[1].of>>} ELSE answers
  /\ request' = Ended(request)
  /\ UNCHANGED <<probe, buffer, streams, limited, clock, dropped, written>>

ReadResponse ==
  /\ request.phase = "read" /\ Len(buffer) = request.length
  /\ answers' = IF IsMessage(buffer)
                THEN answers \cup {<<request.of, buffer[1].of>>} ELSE answers
  /\ request' = Ended(request)
  /\ buffer' = <<>>
  /\ UNCHANGED <<probe, streams, limited, clock, dropped, written>>

(* The handler of a plain chat is dropped: what it has read is lost, what  *)
(* it has written stays, and the next chat finds the connection like that. *)
DropRequest ==
  /\ request.phase # "idle"
  /\ request' = Ended(request)
  /\ buffer' = <<>>
  /\ dropped' = dropped \cup {request.of}
  /\ UNCHANGED <<probe, streams, limited, clock, answers, written>>

-----------------------------------------------------------------------------
(* The worker loop.  A frame that cannot be read ends the connection.      *)
Unreadable ==
  \/ Head(up).kind # "header"
  \/ Head(up).total > MaxSize

Arrived == Len(up) > Head(up).total

Received == SubSeq(up, 2, 1 + Head(up).total)

Close ==
  /\ open' = FALSE
  /\ up' = <<>>
  /\ down' \in {down, <<>>}
  /\ UNCHANGED <<handled>>

WorkerIdle == open /\ serving = None

WorkerRead ==
  /\ WorkerIdle /\ up # <<>>
  /\ \/ /\ Unreadable
        /\ Close
        /\ UNCHANGED serving
     \/ /\ ~Unreadable /\ Arrived /\ ~IsMessage(Received)
        /\ Close
        /\ UNCHANGED serving
     \/ /\ ~Unreadable /\ Arrived /\ IsMessage(Received)
        /\ serving' = Received[1].of
        /\ handled' = Append(handled, Received[1].of)
        /\ up' = SubSeq(up, 2 + Head(up).total, Len(up))
        /\ UNCHANGED <<down, open>>
  /\ UNCHANGED <<request, probe, buffer, limited, clock, answers, dropped, written, cut>>

(* A response too long for a frame ends the connection, too.               *)
WorkerReply ==
  /\ open /\ serving # None
  /\ serving' = None
  /\ \E length \in Lengths :
       IF Refuses(length) THEN Close /\ UNCHANGED cut
       ELSE /\ down' = down \o Frame(serving, length)
            /\ cut' = IF SizeOf(length) = length THEN cut ELSE cut \cup {serving}
            /\ UNCHANGED <<up, open, handled>>
  /\ UNCHANGED <<request, probe, buffer, limited, clock, answers, dropped, written>>

-----------------------------------------------------------------------------
(* probe_worker: a hello of one part on a fresh connection; it shares the  *)
(* limiter with the requests, and gives up 900 ms after it started.        *)
StartProbe ==
  /\ probe.phase = "idle"
  /\ probe.of < MaxProbes
  /\ probe' = Writing(probe.of + 1, 1)
  /\ UNCHANGED <<request, buffer, streams, limited, clock, answers, dropped, written>>

ReserveProbe ==
  /\ Reserved(probe, probe')
  /\ UNCHANGED <<request, buffer, streams, limited, now, sent, answers, dropped, written>>

WriteProbe ==
  /\ MayWrite(probe)
  /\ probe' = Written(probe)
  /\ sent' = sent + TimeOf(probe)
  /\ UNCHANGED <<request, buffer, streams, limited, limiter, now, answers, dropped, written>>

EndProbe ==
  /\ probe.phase # "idle"
  /\ probe' = Ended(probe)
  /\ UNCHANGED <<request, buffer, streams, limited, clock, answers, dropped, written>>

Tick ==
  /\ limited /\ now < MaxTime
  /\ now' = now + 1
  /\ UNCHANGED <<request, probe, buffer, streams, limited, limiter, sent, answers, dropped, written>>

-----------------------------------------------------------------------------
Init ==
  /\ request = Ended(Writing(0, 0)) /\ probe = Ended(Writing(0, 0))
  /\ buffer = <<>> /\ up = <<>> /\ down = <<>> /\ open = TRUE /\ serving = None
  /\ limited \in BOOLEAN
  /\ limiter = 0 /\ now = 0 /\ sent = 0
  /\ answers = {} /\ handled = <<>> /\ dropped = {} /\ written = {} /\ cut = {}

Next ==
  \/ StartRequest \/ ReserveRequest \/ WriteRequest
  \/ ReadHeader \/ ReadPart \/ ReadResponse \/ DropRequest
  \/ WorkerRead \/ WorkerReply
  \/ StartProbe \/ ReserveProbe \/ WriteProbe \/ EndProbe
  \/ Tick

Spec == Init /\ [][Next]_vars

-----------------------------------------------------------------------------
Requests == 0 .. MaxRequests

Units == [kind : {"header", "part"}, of : Requests \cup {None}, index : Nat, total : Nat]

TypeOK ==
  /\ request.of \in Requests /\ probe.of \in 0 .. MaxProbes
  /\ request.phase \in {"idle", "write", "await", "read"}
  /\ up \in Seq(Units) /\ down \in Seq(Units) /\ buffer \in Seq(Units)
  /\ buffer # <<>> => request.phase = "read" /\ Len(buffer) <= request.length
  /\ serving \in Requests \cup {None}
  /\ limiter \in Nat /\ now \in 0 .. MaxTime /\ sent \in Nat
  /\ answers \subseteq Requests \X Requests
  /\ dropped \subseteq Requests

(* The worker handles only requests that were written to their end, none   *)
(* twice and none out of order, whatever was dropped, cast or left over    *)
(* before.                                                                 *)
HandledWhole ==
  \A i \in DOMAIN handled :
    /\ handled[i] \in written
    /\ \A j \in 1 .. i - 1 : handled[j] < handled[i]

AwaitsResponse ==
  /\ \/ request.phase = "await"
     \/ request.phase = "read" /\ Len(buffer) < request.length
  /\ down = <<>>

AwaitsFrame == up = <<>> \/ (~Unreadable /\ ~Arrived)

(* Until a handler is dropped, or the header of a response states less     *)
(* than follows it (message.rs:395 casts the length to 32 bits), every     *)
(* response goes to the request it is the response to, and no request      *)
(* waits for a worker that waits for the rest of a frame.                  *)
Undisturbed ==
  dropped = {} /\ cut = {} =>
    /\ \A pair \in answers : pair[1] = pair[2]
    /\ ~(AwaitsResponse /\ WorkerIdle /\ AwaitsFrame)

(* Of the units of both connections written by now, all but one fit in the *)
(* time that has passed at the limited rate.                               *)
RateLimited == limited => sent <= now + PartTime

(* client.rs:280: "Send a Message to the worker and return a response."    *)
OwnResponse == \A pair \in answers : pair[1] = pair[2]
=============================================================================
