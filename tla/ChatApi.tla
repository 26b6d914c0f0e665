------------------------------ MODULE ChatApi ------------------------------
(***************************************************************************)
(* The HTTP side of a master: the handlers of                              *)
(* dial-core/src/spm/api/mod.rs, the lock they share the one Master        *)
(* through, and what Master::generate (spm/master.rs) and the dialog state *)
(* of the model (models/llama3/llama.rs) do under it.                      *)
(*                                                                         *)
(* A token is a record: the request it belongs to, its place, and what its *)
(* text is.  A message of a request stands for the tokens it encodes to.   *)
(* Neither reset nor add_message fails in any model of the repository, so  *)
(* their error answers are left out.  What next_token computes is the      *)
(* subject of Session; here it samples anything, fails, or never returns.  *)
(***************************************************************************)
EXTENDS Integers, Sequences

CONSTANTS Requests,  \* the HTTP requests
          Kind,      \* Kind[r]: "plain" or "stream" chat, or "topology"
          Turns,     \* Turns[r]: number of messages of a chat request
          SampleLen, \* args.sample_len
          Echo,      \* args.prompt is not empty
          None       \* no request

ASSUME ChatApiAssumption ==
  /\ Kind \in [Requests -> {"plain", "stream", "topology"}]
  /\ Turns \in [Requests -> Nat \ {0}]
  /\ SampleLen \in Nat \ {0}
  /\ Echo \in BOOLEAN
  /\ None \notin Requests

VARIABLES
  pc,        \* "new", "spawned", "queued", "busy", "hung", "probing" or "done"
  gone,      \* the client has left
  answer,    \* "none", "200" or "500"; a stream's is sent before anything is done
  out,       \* what the client gets: the resp string, or the events of the channel
  counted,   \* generated_tokens of the handler
  queue,     \* the requests that wait for the lock, in order
  holder,    \* the request that holds it for writing, or None
  history,   \* the model's history: messages
  tokens,    \* the model's tokens: encoded prompt and sampled tokens
  generated, \* the model's count of sampled tokens
  said       \* history variable: the tokens next_token returned for a request

handlerVars == <<pc, gone, answer, out, counted>>
lockVars == <<queue, holder>>
modelVars == <<history, tokens, generated>>
vars == <<handlerVars, lockVars, modelVars, said>>

Token(r, k, kind) == [by |-> r, index |-> k, kind |-> kind]
Messages(r) == [k \in 1..Turns[r] |-> Token(r, k, "message")]
Event(r, kind) == Token(r, 0, kind)

Init ==
  /\ pc = [r \in Requests |-> "new"]
  /\ gone = [r \in Requests |-> FALSE]
  /\ answer = [r \in Requests |-> "none"]
  /\ out = [r \in Requests |-> <<>>]
  /\ counted = [r \in Requests |-> 0]
  /\ queue = <<>>
  /\ holder = None
  /\ history = <<>>
  /\ tokens = <<>>
  /\ generated = 0
  /\ said = [r \in Requests |-> <<>>]

Goto(r, place) == pc' = [pc EXCEPT ![r] = place]

-----------------------------------------------------------------------------
(* A plain chat and the topology endpoint wait for the lock in the         *)
(* handler; a stream answers at once and leaves the rest to a task.        *)
Arrive(r) ==
  /\ pc[r] = "new"
  /\ IF Kind[r] = "stream"
     THEN /\ Goto(r, "spawned")
          /\ answer' = [answer EXCEPT ![r] = "200"]
          /\ UNCHANGED queue
     ELSE /\ Goto(r, "queued")
          /\ queue' = Append(queue, r)
          /\ UNCHANGED answer
  /\ UNCHANGED <<gone, out, counted, holder, modelVars, said>>

TaskRuns(r) ==
  /\ pc[r] = "spawned"
  /\ Goto(r, "queued")
  /\ queue' = Append(queue, r)
  /\ UNCHANGED <<gone, answer, out, counted, holder, modelVars, said>>

(* tokio's RwLock is fair: the first in the queue gets it, once a writer   *)
(* has released it.  Readers hold it for no longer than a step.            *)
Granted(r) == queue # <<>> /\ Head(queue) = r /\ holder = None

(* The closure that generate calls with a piece of text: a plain chat      *)
(* counts every call, a stream skips empty text.                           *)
CountedOf(r, text) ==
  IF Kind[r] = "plain" \/ text.kind # "empty" THEN counted[r] + 1 ELSE counted[r]

Streamed(r, text) ==
  /\ counted' = [counted EXCEPT ![r] = CountedOf(r, text)]
  /\ out' = [out EXCEPT ![r] =
               IF text.kind = "empty" \/ gone[r] THEN @ ELSE Append(@, text)]

Prompt(r) == Event(r, IF Echo THEN "echo" ELSE "empty")

(* Mutant: reset forgets the count of generated tokens.                    *)
StartKeepsCount(r) ==
  /\ pc[r] = "queued"
  /\ Kind[r] # "topology"
  /\ Granted(r)
  /\ Goto(r, "busy")
  /\ queue' = Tail(queue)
  /\ holder' = r
  /\ history' = Messages(r)
  /\ tokens' = <<>>
  /\ Streamed(r, Prompt(r))
  /\ UNCHANGED <<gone, answer, generated, said>>

(* The lock is taken: Master::reset, add_message for every message, and    *)
(* generate up to its loop, which starts by streaming args.prompt.         *)
Start(r) ==
  /\ pc[r] = "queued"
  /\ Kind[r] # "topology"
  /\ Granted(r)
  /\ Goto(r, "busy")
  /\ queue' = Tail(queue)
  /\ holder' = r
  /\ history' = Messages(r)
  /\ tokens' = <<>>
  /\ generated' = 0
  /\ Streamed(r, Prompt(r))
  /\ UNCHANGED <<gone, answer, said>>

(* The handler, or the task, ends and releases the lock.                   *)
Close(r, status, events) ==
  /\ Goto(r, "done")
  /\ holder' = None
  /\ answer' = [answer EXCEPT ![r] = IF Kind[r] = "plain" THEN status ELSE @]
  /\ out' = [out EXCEPT ![r] = IF Kind[r] = "stream" /\ ~gone[r] THEN @ \o events ELSE @]

(* generate returns, after a last call of the closure with no text.        *)
Finish(r) ==
  /\ counted' = [counted EXCEPT ![r] = CountedOf(r, Event(r, "empty"))]
  /\ Close(r, "200", <<Event(r, "final"), Event(r, "done")>>)

(* next_token: the prompt is encoded when nothing is generated yet.        *)
Prefilled == IF generated = 0 THEN history ELSE tokens

Generating(r) == pc[r] = "busy" /\ Len(said[r]) < SampleLen

Sampled(r, token) ==
  /\ generated' = generated + 1
  /\ tokens' = Append(Prefilled, token)
  /\ said' = [said EXCEPT ![r] = Append(@, token)]

(* A token with or without text: the loop goes on after it.                *)
NextToken(r) ==
  \E kind \in {"text", "empty"} :
    LET token == Token(r, Len(said[r]) + 1, kind) IN
    /\ Generating(r)
    /\ Sampled(r, token)
    /\ Streamed(r, token)
    /\ UNCHANGED <<pc, gone, answer, lockVars, history>>

EndOfStream(r) ==
  /\ Generating(r)
  /\ Sampled(r, Token(r, Len(said[r]) + 1, "eos"))
  /\ Finish(r)
  /\ UNCHANGED <<gone, queue, history>>

(* Mutant: the loop ends one token later than it samples.                  *)
EndOfLoopLate(r) ==
  /\ pc[r] = "busy"
  /\ Len(said[r]) > SampleLen
  /\ Finish(r)
  /\ UNCHANGED <<gone, queue, modelVars, said>>

EndOfLoop(r) ==
  /\ pc[r] = "busy"
  /\ Len(said[r]) = SampleLen
  /\ Finish(r)
  /\ UNCHANGED <<gone, queue, modelVars, said>>

(* Mutant: a failed stream returns at once, as after a failed reset, but   *)
(* without the end marker.                                                 *)
NextTokenFailsShort(r) ==
  /\ Generating(r)
  /\ tokens' = Prefilled
  /\ Close(r, "500", <<Event(r, "error")>>)
  /\ UNCHANGED <<gone, counted, queue, history, generated, said>>

(* Mutant: the token that failed is taken off the count.                   *)
NextTokenFailsUncounted(r) ==
  /\ Generating(r)
  /\ tokens' = Prefilled
  /\ generated' = generated - 1
  /\ Close(r, "500", <<Event(r, "error"), Event(r, "done")>>)
  /\ UNCHANGED <<gone, counted, queue, history, said>>

NextTokenFails(r) ==
  /\ Generating(r)
  /\ tokens' = Prefilled
  /\ Close(r, "500", <<Event(r, "error"), Event(r, "done")>>)
  /\ UNCHANGED <<gone, counted, queue, history, generated, said>>

(* A forward pass waits on a connection that died unnoticed.               *)
NextTokenHangs(r) ==
  /\ Generating(r)
  /\ tokens' = Prefilled
  /\ Goto(r, "hung")
  /\ UNCHANGED <<gone, answer, out, counted, lockVars, history, generated, said>>

-----------------------------------------------------------------------------
(* The topology endpoint copies what it needs under the read lock, then    *)
(* probes the workers, each for 900 ms at most, without it.                *)
ReadTopology(r) ==
  /\ pc[r] = "queued"
  /\ Kind[r] = "topology"
  /\ Granted(r)
  /\ Goto(r, "probing")
  /\ queue' = Tail(queue)
  /\ UNCHANGED <<gone, answer, out, counted, holder, modelVars, said>>

(* 500 when the topology file can no longer be read.                       *)
AnswerTopology(r) ==
  /\ pc[r] = "probing"
  /\ Goto(r, "done")
  /\ \E status \in {"200", "500"} : answer' = [answer EXCEPT ![r] = status]
  /\ UNCHANGED <<gone, out, counted, lockVars, modelVars, said>>

-----------------------------------------------------------------------------
Running(r) == pc[r] \notin {"new", "done"}

(* The client of a stream leaves: the receiver is dropped, and the task,   *)
(* whose sends fail from now on and are ignored, goes on.                  *)
StreamClientLeaves(r) ==
  /\ Kind[r] = "stream"
  /\ Running(r)
  /\ ~gone[r]
  /\ gone' = [gone EXCEPT ![r] = TRUE]
  /\ UNCHANGED <<pc, answer, out, counted, lockVars, modelVars, said>>

(* The queue when its i-th waiter has given up.                            *)
Without(i) == SubSeq(queue, 1, i - 1) \o SubSeq(queue, i + 1, Len(queue))

(* Mutant: the dropped handler keeps its place in the queue.               *)
HandlerDroppedLate(r) ==
  /\ Kind[r] # "stream"
  /\ Running(r)
  /\ gone' = [gone EXCEPT ![r] = TRUE]
  /\ Goto(r, "done")
  /\ holder' = IF holder = r THEN None ELSE holder
  /\ UNCHANGED <<answer, out, counted, queue, modelVars, said>>

(* The client of another request resets its connection: the server drops   *)
(* the handler where it waits, with its place in the queue or its lock.    *)
HandlerDropped(r) ==
  /\ Kind[r] # "stream"
  /\ Running(r)
  /\ gone' = [gone EXCEPT ![r] = TRUE]
  /\ Goto(r, "done")
  /\ IF pc[r] = "queued"
     THEN \E i \in 1..Len(queue) : queue[i] = r /\ queue' = Without(i)
     ELSE UNCHANGED queue
  /\ holder' = IF holder = r THEN None ELSE holder
  /\ UNCHANGED <<answer, out, counted, modelVars, said>>

ServerStep(r) ==
  \/ TaskRuns(r)
  \/ Start(r)
  \/ NextToken(r)
  \/ EndOfStream(r)
  \/ EndOfLoop(r)
  \/ NextTokenFails(r)
  \/ NextTokenHangs(r)
  \/ ReadTopology(r)
  \/ AnswerTopology(r)

Next ==
  \E r \in Requests :
    \/ Arrive(r)
    \/ ServerStep(r)
    \/ StreamClientLeaves(r)
    \/ HandlerDropped(r)

Spec == Init /\ [][Next]_vars

(* Every handler and task that can run does.                               *)
FairSpec == Spec /\ \A r \in Requests : WF_vars(ServerStep(r))

-----------------------------------------------------------------------------
(* Properties.                                                             *)

Kinds == {"message", "echo", "text", "empty", "eos", "error", "final", "done"}
Tokens == [by : Requests, index : Nat, kind : Kinds]

(* Every variable has the type of the field it stands for.                 *)
TypeOK ==
  /\ pc \in [Requests -> {"new", "spawned", "queued", "busy", "hung", "probing", "done"}]
  /\ gone \in [Requests -> BOOLEAN]
  /\ answer \in [Requests -> {"none", "200", "500"}]
  /\ out \in [Requests -> Seq(Tokens)]
  /\ counted \in [Requests -> Nat]
  /\ queue \in Seq(Requests)
  /\ holder \in Requests \union {None}
  /\ history \in Seq(Tokens)
  /\ tokens \in Seq(Tokens)
  /\ generated \in Nat
  /\ said \in [Requests -> Seq(Tokens)]

(* The model belongs to the request that generates: its history is that    *)
(* request's messages and its tokens are that prompt and what was sampled  *)
(* after it, whatever an earlier request that failed, hung up or was       *)
(* dropped half way left behind (reset, and the test generated == 0 that   *)
(* next_token encodes the prompt by).                                      *)
DialogOwned ==
  \A r \in Requests :
    pc[r] \in {"busy", "hung"} =>
      /\ holder = r
      /\ history = Messages(r)
      /\ generated = Len(said[r])
      /\ generated > 0 => tokens = Messages(r) \o said[r]

Visible(token) == token.kind \in {"text", "echo"}

(* What an answer is made of: args.prompt and the sampled tokens.          *)
Shown(r) == <<Prompt(r)>> \o said[r]

(* The text is the visible tokens of a sequence, each once and in order.   *)
IsTextOf(text, sequence) ==
  \E place \in [1..Len(text) -> 1..Len(sequence)] :
    /\ \A i, j \in 1..Len(text) : i < j => place[i] < place[j]
    /\ \A i \in 1..Len(text) : text[i] = sequence[place[i]]
    /\ \A k \in 1..Len(sequence) :
         Visible(sequence[k]) <=> \E i \in 1..Len(text) : place[i] = k

Ending(kind, r) == <<Event(r, kind), Event(r, "done")>>

(* A chat that has ended and whose client has stayed has got what was      *)
(* sampled for it, in order and without the end-of-stream token, in one    *)
(* string or as events; a stream ends with the final chunk or the error,   *)
(* and then, once, with [DONE].                                            *)
AnswerExact ==
  \A r \in Requests :
    Kind[r] # "topology" /\ pc[r] = "done" /\ ~gone[r] =>
      IF Kind[r] = "plain"
      THEN answer[r] \in {"200", "500"} /\ IsTextOf(out[r], Shown(r))
      ELSE \E kind \in {"final", "error"}, n \in 0..Len(out[r]) :
             /\ out[r] = SubSeq(out[r], 1, n) \o Ending(kind, r)
             /\ IsTextOf(SubSeq(out[r], 1, n), Shown(r))

(* The lock is held by a request that can go on, or the queue holds every  *)
(* request that waits, once, and nothing else: no request that has left or *)
(* ended keeps the others from the master.                                 *)
QueueExact ==
  /\ \A r \in Requests :
       pc[r] = "queued" <=> \E i \in 1..Len(queue) : queue[i] = r
  /\ \A i, j \in 1..Len(queue) : queue[i] = queue[j] => i = j
  /\ holder # None => pc[holder] \in {"busy", "hung"}

(* Every request is answered in its turn, chat or topology, except behind  *)
(* a chat whose forward pass never returns.                                *)
Answered ==
  \A r \in Requests :
    Running(r) ~> pc[r] = "done" \/ (holder # None /\ pc[holder] = "hung")

IsEmitted(token) == token.kind # "eos"

(* api/mod.rs:55 of generated_tokens: "Number of tokens emitted before EOS *)
(* or the configured sample limit."                                        *)
CountsTokens ==
  \A r \in Requests :
    Kind[r] = "plain" /\ pc[r] = "done" /\ answer[r] = "200" =>
      counted[r] = Len(SelectSeq(said[r], IsEmitted))
=============================================================================
