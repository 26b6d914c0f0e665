--------------------------- MODULE ChatApiProofs ---------------------------
(***************************************************************************)
(* Why the one dialog of a master belongs to the chat that generates, and  *)
(* why a client gets the text that was sampled for it.                     *)
(*                                                                         *)
(* DialogOwned and QueueExact are inductive together with the types and    *)
(* with Unstarted: a request that has not been granted the lock has        *)
(* sampled nothing.  AnswerExact needs what the client has been sent while *)
(* a chat still generates: the text of the tokens so far.                  *)
(***************************************************************************)
EXTENDS ChatApi, SequenceTheorems, TLAPS

Unstarted ==
  \A r \in Requests : pc[r] \in {"new", "spawned", "queued"} => said[r] = <<>>

Inv == TypeOK /\ Unstarted /\ DialogOwned /\ QueueExact

-----------------------------------------------------------------------------
(* The queue without its i-th waiter holds the others, in their order      *)
(* (a waiter of tokio's RwLock that is dropped).                           *)
LEMMA WithoutDef ==
  ASSUME TypeOK, NEW i \in 1..Len(queue)
  PROVE  /\ Without(i) \in Seq(Requests)
         /\ Len(Without(i)) = Len(queue) - 1
         /\ \A j \in 1..Len(queue) - 1 :
              Without(i)[j] = IF j < i THEN queue[j] ELSE queue[j + 1]
<1> DEFINE front == SubSeq(queue, 1, i - 1)
           back == SubSeq(queue, i + 1, Len(queue))
<1>1. queue \in Seq(Requests) /\ i \in 1..Len(queue) /\ Len(queue) \in Nat
  BY DEF TypeOK
<1>2. front \in Seq(Requests) /\ Len(front) = i - 1
      /\ \A j \in 1..i - 1 : front[j] = queue[j]
  BY <1>1
<1>3. back \in Seq(Requests) /\ Len(back) = Len(queue) - i
      /\ \A j \in 1..Len(queue) - i : back[j] = queue[i + j]
  BY <1>1
<1>4. Without(i) = front \o back
  BY DEF Without
<1> HIDE DEF front, back
<1>5. ASSUME NEW S, NEW s \in Seq(S), NEW t \in Seq(S)
      PROVE  /\ s \o t \in Seq(S)
             /\ Len(s \o t) = Len(s) + Len(t)
             /\ \A j \in 1..Len(s) + Len(t) :
                  (s \o t)[j] = IF j <= Len(s) THEN s[j] ELSE t[j - Len(s)]
  OBVIOUS
<1>6. /\ Without(i) \in Seq(Requests)
      /\ Len(Without(i)) = Len(front) + Len(back)
      /\ \A j \in 1..Len(front) + Len(back) :
           Without(i)[j] = IF j <= Len(front) THEN front[j] ELSE back[j - Len(front)]
  <2>1. front \in Seq(Requests) /\ back \in Seq(Requests)
    BY <1>2, <1>3
  <2>2. /\ front \o back \in Seq(Requests)
        /\ Len(front \o back) = Len(front) + Len(back)
        /\ \A j \in 1..Len(front) + Len(back) :
             (front \o back)[j] = IF j <= Len(front) THEN front[j] ELSE back[j - Len(front)]
    BY <2>1, <1>5, Zenon
  <2> QED BY <1>4, <2>2
<1>7. ASSUME NEW j \in 1..Len(queue) - 1
      PROVE  Without(i)[j] = IF j < i THEN queue[j] ELSE queue[j + 1]
  <2>1. CASE j < i
    <3>1. j \in 1..i - 1 /\ j <= Len(front) /\ j \in 1..Len(front) + Len(back)
      BY <1>1, <1>2, <1>3, <2>1
    <3>2. Without(i)[j] = front[j]
      BY <1>6, <3>1
    <3>3. front[j] = queue[j]
      BY <1>2, <3>1
    <3> QED BY <2>1, <3>2, <3>3
  <2>2. CASE ~(j < i)
    <3>1. Without(i)[j] = back[j - (i - 1)]
      BY <1>1, <1>2, <1>3, <1>6, <2>2
    <3>2. j - (i - 1) \in 1..Len(queue) - i /\ i + (j - (i - 1)) = j + 1
      BY <1>1, <2>2
    <3>3. back[j - (i - 1)] = queue[j + 1]
      BY <1>3, <3>2
    <3> QED BY <2>2, <3>1, <3>3
  <2> QED BY <2>1, <2>2
<1> QED BY <1>1, <1>2, <1>3, <1>6, <1>7

(* The tokens of the server are typed.                                     *)
LEMMA TokenType ==
  ASSUME NEW r \in Requests, NEW k \in Nat, NEW kind \in Kinds
  PROVE  Token(r, k, kind) \in Tokens
BY DEF Token, Tokens

LEMMA EventType ==
  ASSUME NEW r \in Requests, NEW kind \in Kinds
  PROVE  Event(r, kind) \in Tokens
BY TokenType DEF Event

LEMMA MessagesType ==
  ASSUME NEW r \in Requests
  PROVE  /\ Messages(r) \in Seq(Tokens)
         /\ Len(Messages(r)) = Turns[r]
<1>1. Turns[r] \in Nat
  BY ChatApiAssumption
<1>2. \A k \in 1..Turns[r] : Token(r, k, "message") \in Tokens
  BY <1>1, TokenType DEF Kinds
<1> QED BY <1>1, <1>2 DEF Messages

LEMMA PromptType ==
  ASSUME NEW r \in Requests
  PROVE  Prompt(r) \in Tokens
BY EventType DEF Prompt, Kinds

(* What the closure of generate does to the answer and the count.          *)
LEMMA StreamedType ==
  ASSUME TypeOK, NEW r \in Requests, NEW text \in Tokens, Streamed(r, text)
  PROVE  /\ counted' \in [Requests -> Nat]
         /\ out' \in [Requests -> Seq(Tokens)]
BY DEF TypeOK, Streamed, CountedOf

LEMMA PrefilledType ==
  ASSUME TypeOK
  PROVE  Prefilled \in Seq(Tokens)
BY DEF TypeOK, Prefilled

(* A handler or task that ends: the types.                                 *)
LEMMA CloseType ==
  ASSUME TypeOK, NEW r \in Requests, NEW status \in {"200", "500"},
         NEW events \in Seq(Tokens), Close(r, status, events)
  PROVE  /\ pc' \in [Requests -> {"new", "spawned", "queued", "busy", "hung", "probing", "done"}]
         /\ pc' = [pc EXCEPT ![r] = "done"]
         /\ holder' = None
         /\ answer' \in [Requests -> {"none", "200", "500"}]
         /\ out' \in [Requests -> Seq(Tokens)]
BY DEF TypeOK, Close, Goto

LEMMA FinishType ==
  ASSUME TypeOK, NEW r \in Requests, Finish(r)
  PROVE  /\ pc' \in [Requests -> {"new", "spawned", "queued", "busy", "hung", "probing", "done"}]
         /\ pc' = [pc EXCEPT ![r] = "done"]
         /\ holder' = None
         /\ answer' \in [Requests -> {"none", "200", "500"}]
         /\ out' \in [Requests -> Seq(Tokens)]
         /\ counted' \in [Requests -> Nat]
<1>1. <<Event(r, "final"), Event(r, "done")>> \in Seq(Tokens)
  BY EventType DEF Kinds
<1>2. counted' \in [Requests -> Nat]
  BY DEF TypeOK, Finish, CountedOf
<1> QED BY <1>1, <1>2, CloseType DEF Finish

-----------------------------------------------------------------------------
LEMMA TypeInit == Init => TypeOK
BY ChatApiAssumption DEF Init, TypeOK

LEMMA NextTokenType ==
  ASSUME TypeOK, NEW r \in Requests, NextToken(r)
  PROVE  TypeOK'
<1> PICK kind \in {"text", "empty"} :
      LET token == Token(r, Len(said[r]) + 1, kind) IN
      /\ Generating(r)
      /\ Sampled(r, token)
      /\ Streamed(r, token)
      /\ UNCHANGED <<pc, gone, answer, lockVars, history>>
  BY DEF NextToken
<1> DEFINE token == Token(r, Len(said[r]) + 1, kind)
<1>1. token \in Tokens
  <2>1. Len(said[r]) + 1 \in Nat
    BY DEF TypeOK
  <2> QED BY <2>1, TokenType DEF Kinds
<1>2. Sampled(r, token) /\ Streamed(r, token)
  OBVIOUS
<1> HIDE DEF token
<1>3. counted' \in [Requests -> Nat] /\ out' \in [Requests -> Seq(Tokens)]
  BY <1>1, <1>2, StreamedType
<1>4. generated' \in Nat /\ tokens' \in Seq(Tokens) /\ said' \in [Requests -> Seq(Tokens)]
  BY <1>1, <1>2, PrefilledType DEF Sampled, TypeOK
<1> QED BY <1>3, <1>4 DEF TypeOK, lockVars

LEMMA EndOfStreamType ==
  ASSUME TypeOK, NEW r \in Requests, EndOfStream(r)
  PROVE  TypeOK'
<1> DEFINE token == Token(r, Len(said[r]) + 1, "eos")
<1>1. token \in Tokens
  <2>1. Len(said[r]) + 1 \in Nat
    BY DEF TypeOK
  <2> QED BY <2>1, TokenType DEF Kinds
<1>2. Sampled(r, token) /\ Finish(r) /\ UNCHANGED <<gone, queue, history>>
  BY DEF EndOfStream
<1> HIDE DEF token
<1>3. generated' \in Nat /\ tokens' \in Seq(Tokens) /\ said' \in [Requests -> Seq(Tokens)]
  BY <1>1, <1>2, PrefilledType DEF Sampled, TypeOK
<1> QED BY <1>2, <1>3, FinishType DEF TypeOK

LEMMA TypeStep == TypeOK /\ [Next]_vars => TypeOK'
<1> SUFFICES ASSUME TypeOK, [Next]_vars
             PROVE  TypeOK'
  OBVIOUS
<1>1. ASSUME NEW r \in Requests, Arrive(r)
      PROVE  TypeOK'
  <2>1. pc' \in [Requests -> {"new", "spawned", "queued", "busy", "hung", "probing", "done"}]
    BY <1>1, ZenonT(60) DEF TypeOK, Arrive, Goto
  <2>2. answer' \in [Requests -> {"none", "200", "500"}]
    BY <1>1 DEF TypeOK, Arrive
  <2>3. queue' \in Seq(Requests)
    <3>1. queue \in Seq(Requests)
      BY DEF TypeOK
    <3>2. queue' = queue \/ queue' = Append(queue, r)
      BY <1>1 DEF Arrive
    <3> QED BY <3>1, <3>2
  <2> QED BY <1>1, <2>1, <2>2, <2>3 DEF TypeOK, Arrive, modelVars
<1>2. ASSUME NEW r \in Requests, TaskRuns(r)
      PROVE  TypeOK'
  BY <1>2 DEF TypeOK, TaskRuns, Goto, modelVars
<1>3. ASSUME NEW r \in Requests, Start(r)
      PROVE  TypeOK'
  <2>1. counted' \in [Requests -> Nat] /\ out' \in [Requests -> Seq(Tokens)]
    BY <1>3, PromptType, StreamedType DEF Start
  <2>2. queue' \in Seq(Requests)
    BY <1>3 DEF TypeOK, Start, Granted
  <2>3. history' \in Seq(Tokens) /\ tokens' \in Seq(Tokens) /\ generated' \in Nat
    BY <1>3, MessagesType DEF Start
  <2> QED BY <1>3, <2>1, <2>2, <2>3 DEF TypeOK, Start, Goto
<1>4. ASSUME NEW r \in Requests, NextToken(r)
      PROVE  TypeOK'
  BY <1>4, NextTokenType
<1>5. ASSUME NEW r \in Requests, EndOfStream(r)
      PROVE  TypeOK'
  BY <1>5, EndOfStreamType
<1>6. ASSUME NEW r \in Requests, EndOfLoop(r)
      PROVE  TypeOK'
  BY <1>6, FinishType DEF TypeOK, EndOfLoop, modelVars
<1>7. ASSUME NEW r \in Requests, NextTokenFails(r)
      PROVE  TypeOK'
  <2>1. <<Event(r, "error"), Event(r, "done")>> \in Seq(Tokens)
    BY EventType DEF Kinds
  <2>2. tokens' \in Seq(Tokens)
    BY <1>7, PrefilledType DEF NextTokenFails
  <2> QED BY <1>7, <2>1, <2>2, CloseType DEF TypeOK, NextTokenFails
<1>8. ASSUME NEW r \in Requests, NextTokenHangs(r)
      PROVE  TypeOK'
  BY <1>8, PrefilledType DEF TypeOK, NextTokenHangs, Goto, lockVars
<1>9. ASSUME NEW r \in Requests, ReadTopology(r)
      PROVE  TypeOK'
  BY <1>9 DEF TypeOK, ReadTopology, Granted, Goto, modelVars
<1>10. ASSUME NEW r \in Requests, AnswerTopology(r)
       PROVE  TypeOK'
  BY <1>10 DEF TypeOK, AnswerTopology, Goto, lockVars, modelVars
<1>11. ASSUME NEW r \in Requests, StreamClientLeaves(r)
       PROVE  TypeOK'
  BY <1>11 DEF TypeOK, StreamClientLeaves, lockVars, modelVars
<1>12. ASSUME NEW r \in Requests, HandlerDropped(r)
       PROVE  TypeOK'
  <2>1. queue' \in Seq(Requests)
    BY <1>12, WithoutDef DEF TypeOK, HandlerDropped
  <2> QED BY <1>12, <2>1 DEF TypeOK, HandlerDropped, Goto, modelVars
<1>13. CASE UNCHANGED vars
  BY <1>13 DEF TypeOK, vars, handlerVars, lockVars, modelVars
<1> QED
  BY <1>1, <1>2, <1>3, <1>4, <1>5, <1>6, <1>7, <1>8, <1>9, <1>10, <1>11, <1>12, <1>13
  DEF Next, ServerStep

(* Every variable of the server has its type, for all sets of requests.    *)
THEOREM TypeCorrect == Spec => []TypeOK
BY TypeInit, TypeStep, PTL DEF Spec

-----------------------------------------------------------------------------
LEMMA InvInit == Init => Inv
<1> SUFFICES ASSUME Init
             PROVE  Inv
  OBVIOUS
<1>1. TypeOK
  BY TypeInit
<1>2. Unstarted /\ DialogOwned
  BY DEF Init, Unstarted, DialogOwned
<1>3. QueueExact
  BY DEF Init, QueueExact
<1> QED BY <1>1, <1>2, <1>3 DEF Inv

(* A step that leaves the model alone and gives nobody the lock.           *)
LEMMA Untouched ==
  ASSUME DialogOwned, UNCHANGED <<holder, modelVars, said>>,
         \A q \in Requests : pc'[q] \in {"busy", "hung"} => pc[q] \in {"busy", "hung"}
  PROVE  DialogOwned'
BY DEF DialogOwned, modelVars

(* Only the holder of the lock is in generate; once it has released the    *)
(* lock nobody is.                                                         *)
LEMMA Released ==
  ASSUME TypeOK, DialogOwned, NEW r \in Requests, pc[r] \in {"busy", "hung"},
         pc' = [pc EXCEPT ![r] = "done"]
  PROVE  DialogOwned'
<1>1. \A q \in Requests : pc'[q] \notin {"busy", "hung"}
  BY DEF TypeOK, DialogOwned
<1> QED BY <1>1 DEF DialogOwned

LEMMA UnstartedStep == TypeOK /\ Unstarted /\ [Next]_vars => Unstarted'
<1> SUFFICES ASSUME TypeOK, Unstarted, [Next]_vars, NEW q \in Requests,
                    pc'[q] \in {"new", "spawned", "queued"}
             PROVE  said'[q] = <<>>
  BY DEF Unstarted
<1>1. ASSUME NEW r \in Requests, Arrive(r) \/ TaskRuns(r)
      PROVE  said'[q] = <<>>
  BY <1>1 DEF TypeOK, Unstarted, Arrive, TaskRuns, Goto
<1>2. ASSUME NEW r \in Requests, Start(r)
      PROVE  said'[q] = <<>>
  BY <1>2 DEF TypeOK, Unstarted, Start, Goto
<1>3. ASSUME NEW r \in Requests, NextToken(r)
      PROVE  said'[q] = <<>>
  BY <1>3 DEF TypeOK, Unstarted, NextToken, Sampled, Generating
<1>4. ASSUME NEW r \in Requests, EndOfStream(r) \/ EndOfLoop(r) \/ NextTokenFails(r)
      PROVE  said'[q] = <<>>
  BY <1>4 DEF TypeOK, Unstarted, EndOfStream, EndOfLoop, NextTokenFails, Sampled,
              Finish, Close, Goto
<1>5. ASSUME NEW r \in Requests, NextTokenHangs(r)
      PROVE  said'[q] = <<>>
  BY <1>5 DEF TypeOK, Unstarted, NextTokenHangs, Goto
<1>6. ASSUME NEW r \in Requests, ReadTopology(r) \/ AnswerTopology(r)
      PROVE  said'[q] = <<>>
  BY <1>6 DEF TypeOK, Unstarted, ReadTopology, AnswerTopology, Goto
<1>7. ASSUME NEW r \in Requests, StreamClientLeaves(r) \/ HandlerDropped(r)
      PROVE  said'[q] = <<>>
  BY <1>7 DEF TypeOK, Unstarted, StreamClientLeaves, HandlerDropped, Goto
<1>8. CASE UNCHANGED vars
  BY <1>8 DEF Unstarted, vars, handlerVars
<1> QED BY <1>1, <1>2, <1>3, <1>4, <1>5, <1>6, <1>7, <1>8 DEF Next, ServerStep

(* The new token follows the prompt and the tokens before it.              *)
LEMMA SampledOwned ==
  ASSUME TypeOK, DialogOwned, NEW r \in Requests, pc[r] = "busy",
         NEW token \in Tokens, Sampled(r, token)
  PROVE  /\ generated' = Len(said'[r])
         /\ tokens' = Messages(r) \o said'[r]
<1>1. /\ history = Messages(r)
      /\ generated = Len(said[r])
      /\ generated > 0 => tokens = Messages(r) \o said[r]
  BY DEF DialogOwned
<1>2. /\ said[r] \in Seq(Tokens)
      /\ said'[r] = Append(said[r], token)
      /\ generated' = generated + 1
      /\ tokens' = Append(Prefilled, token)
  BY DEF TypeOK, Sampled
<1>3. Messages(r) \in Seq(Tokens)
  BY MessagesType
<1>4. Prefilled = Messages(r) \o said[r]
  <2>1. CASE generated = 0
    <3>1. said[r] = <<>>
      <4>1. Len(said[r]) = 0 /\ said[r] \in Seq(Tokens)
        BY <1>1, <1>2, <2>1
      <4> QED BY <4>1
    <3> QED BY <1>1, <1>3, <2>1, <3>1 DEF Prefilled
  <2>2. CASE generated # 0
    BY <1>1, <1>2, <2>2 DEF Prefilled
  <2> QED BY <2>1, <2>2
<1>5. \A s, t \in Seq(Tokens), e \in Tokens : Append(s \o t, e) = s \o Append(t, e)
  OBVIOUS
<1>6. Append(Messages(r) \o said[r], token) = Messages(r) \o Append(said[r], token)
  BY <1>2, <1>3, <1>5
<1>7. Len(said'[r]) = Len(said[r]) + 1
  BY <1>2
<1> QED BY <1>1, <1>2, <1>4, <1>6, <1>7

LEMMA OwnedStep == Inv /\ [Next]_vars => DialogOwned'
<1> SUFFICES ASSUME TypeOK, Unstarted, DialogOwned, [Next]_vars
             PROVE  DialogOwned'
  BY DEF Inv
<1>1. ASSUME NEW r \in Requests, Arrive(r) \/ TaskRuns(r)
      PROVE  DialogOwned'
  <2>1. \A q \in Requests : pc'[q] \in {"busy", "hung"} => pc[q] \in {"busy", "hung"}
    BY <1>1 DEF TypeOK, Arrive, TaskRuns, Goto
  <2> QED BY <1>1, <2>1, Untouched DEF Arrive, TaskRuns
<1>2. ASSUME NEW r \in Requests, Start(r)
      PROVE  DialogOwned'
  <2>1. holder = None /\ pc[r] = "queued"
    BY <1>2 DEF Start, Granted
  <2>2. \A q \in Requests : pc[q] \notin {"busy", "hung"}
    BY <2>1, ChatApiAssumption DEF DialogOwned
  <2>3. \A q \in Requests : pc'[q] \in {"busy", "hung"} => q = r
    BY <1>2, <2>2 DEF TypeOK, Start, Goto
  <2>4. said'[r] = <<>>
    BY <1>2, <2>1 DEF Unstarted, Start
  <2> QED BY <1>2, <2>3, <2>4 DEF DialogOwned, Start
<1>3. ASSUME NEW r \in Requests, NextToken(r)
      PROVE  DialogOwned'
  <2>1. PICK kind \in {"text", "empty"} :
          LET token == Token(r, Len(said[r]) + 1, kind) IN
          Sampled(r, token) /\ UNCHANGED <<pc, lockVars, history>>
    BY <1>3 DEF NextToken
  <2>2. Token(r, Len(said[r]) + 1, kind) \in Tokens
    <3>1. Len(said[r]) + 1 \in Nat
      BY DEF TypeOK
    <3> QED BY <3>1, TokenType DEF Kinds
  <2>3. pc[r] = "busy"
    BY <1>3 DEF NextToken, Generating
  <2>4. generated' = Len(said'[r]) /\ tokens' = Messages(r) \o said'[r]
    BY <2>1, <2>2, <2>3, SampledOwned
  <2>5. \A q \in Requests : pc'[q] \in {"busy", "hung"} => q = r
    BY <2>1, <2>3 DEF DialogOwned
  <2>6. holder' = r /\ history' = Messages(r)
    BY <2>1, <2>3 DEF DialogOwned, lockVars
  <2> QED BY <2>4, <2>5, <2>6 DEF DialogOwned
<1>4. ASSUME NEW r \in Requests, EndOfStream(r) \/ EndOfLoop(r) \/ NextTokenFails(r)
      PROVE  DialogOwned'
  <2>1. pc[r] = "busy"
    BY <1>4 DEF EndOfStream, EndOfLoop, NextTokenFails, Generating
  <2>2. pc' = [pc EXCEPT ![r] = "done"]
    BY <1>4 DEF EndOfStream, EndOfLoop, NextTokenFails, Finish, Close, Goto
  <2> QED BY <2>1, <2>2, Released
<1>5. ASSUME NEW r \in Requests, NextTokenHangs(r)
      PROVE  DialogOwned'
  <2>1. pc[r] = "busy" /\ pc' = [pc EXCEPT ![r] = "hung"]
    BY <1>5 DEF NextTokenHangs, Generating, Goto
  <2>2. \A q \in Requests : pc'[q] \in {"busy", "hung"} => q = r
    BY <2>1 DEF TypeOK, DialogOwned
  <2> QED BY <1>5, <2>1, <2>2 DEF DialogOwned, NextTokenHangs, lockVars, Prefilled
<1>6. ASSUME NEW r \in Requests, ReadTopology(r) \/ AnswerTopology(r)
      PROVE  DialogOwned'
  <2>1. \A q \in Requests : pc'[q] \in {"busy", "hung"} => pc[q] \in {"busy", "hung"}
    BY <1>6 DEF TypeOK, ReadTopology, AnswerTopology, Goto
  <2> QED BY <1>6, <2>1, Untouched DEF ReadTopology, AnswerTopology, lockVars
<1>7. ASSUME NEW r \in Requests, StreamClientLeaves(r)
      PROVE  DialogOwned'
  BY <1>7, Untouched DEF StreamClientLeaves, lockVars
<1>8. ASSUME NEW r \in Requests, HandlerDropped(r)
      PROVE  DialogOwned'
  <2>1. pc' = [pc EXCEPT ![r] = "done"]
    BY <1>8 DEF HandlerDropped, Goto
  <2>2. CASE pc[r] \in {"busy", "hung"}
    BY <2>1, <2>2, Released
  <2>3. CASE pc[r] \notin {"busy", "hung"}
    <3>1. ASSUME NEW q \in Requests, pc'[q] \in {"busy", "hung"}
          PROVE  q # r /\ pc[q] \in {"busy", "hung"} /\ holder' = q
      BY <1>8, <2>1, <3>1 DEF TypeOK, DialogOwned, HandlerDropped
    <3> QED BY <1>8, <3>1 DEF DialogOwned, HandlerDropped, modelVars
  <2> QED BY <2>2, <2>3
<1>9. CASE UNCHANGED vars
  BY <1>9, Untouched DEF vars, handlerVars, lockVars
<1> QED BY <1>1, <1>2, <1>3, <1>4, <1>5, <1>6, <1>7, <1>8, <1>9 DEF Next, ServerStep

-----------------------------------------------------------------------------
(* A request joins the end of the queue.                                   *)
LEMMA Joined ==
  ASSUME TypeOK, QueueExact, NEW r \in Requests,
         pc[r] \notin {"queued", "busy", "hung"},
         pc' = [pc EXCEPT ![r] = "queued"],
         queue' = Append(queue, r),
         holder' = holder
  PROVE  QueueExact'
<1>1. /\ queue \in Seq(Requests) /\ Len(queue) \in Nat
      /\ Len(queue') = Len(queue) + 1
      /\ queue'[Len(queue) + 1] = r
      /\ \A i \in 1..Len(queue) : queue'[i] = queue[i]
  BY DEF TypeOK
<1>2. \A i \in 1..Len(queue) : queue[i] # r
  BY DEF QueueExact
<1>3. \A i \in 1..Len(queue') : i \in 1..Len(queue) \/ i = Len(queue) + 1
  BY <1>1
<1>4. ASSUME NEW q \in Requests
      PROVE  pc'[q] = "queued" <=> \E i \in 1..Len(queue') : queue'[i] = q
  <2>1. CASE q = r
    <3>1. pc'[r] = "queued" /\ Len(queue) + 1 \in 1..Len(queue')
      BY <1>1 DEF TypeOK
    <3> QED BY <1>1, <2>1, <3>1
  <2>2. CASE q # r
    <3>1. pc'[q] = pc[q]
      BY <2>2 DEF TypeOK
    <3>2. (\E i \in 1..Len(queue') : queue'[i] = q) <=> \E i \in 1..Len(queue) : queue[i] = q
      BY <1>1, <1>3, <2>2
    <3> QED BY <3>1, <3>2 DEF QueueExact
  <2> QED BY <2>1, <2>2
<1>5. ASSUME NEW i \in 1..Len(queue'), NEW j \in 1..Len(queue'), queue'[i] = queue'[j]
      PROVE  i = j
  BY <1>1, <1>2, <1>3, <1>5 DEF QueueExact
<1>6. holder' # None => pc'[holder'] \in {"busy", "hung"}
  BY DEF TypeOK, QueueExact
<1> QED BY <1>4, <1>5, <1>6 DEF QueueExact

(* The i-th waiter leaves the queue, with the lock or without.             *)
LEMMA Left ==
  ASSUME TypeOK, QueueExact, NEW r \in Requests, NEW i \in 1..Len(queue), queue[i] = r,
         pc'[r] # "queued",
         \A q \in Requests : q # r => pc'[q] = pc[q],
         Len(queue') = Len(queue) - 1,
         \A j \in 1..Len(queue) - 1 :
           queue'[j] = IF j < i THEN queue[j] ELSE queue[j + 1],
         holder' # None => pc'[holder'] \in {"busy", "hung"}
  PROVE  QueueExact'
<1> DEFINE old(j) == IF j < i THEN j ELSE j + 1
<1>1. Len(queue) \in Nat /\ i \in 1..Len(queue)
  BY DEF TypeOK
<1>2. ASSUME NEW j \in 1..Len(queue')
      PROVE  j \in Int /\ old(j) \in 1..Len(queue) /\ old(j) # i /\ queue'[j] = queue[old(j)]
  <2>1. j \in 1..Len(queue) - 1
    OBVIOUS
  <2>2. queue'[j] = queue[old(j)]
    BY <2>1
  <2>3. j \in Int /\ old(j) \in 1..Len(queue) /\ old(j) # i
    BY <1>1, <2>1
  <2> QED BY <2>2, <2>3
<1>3. \A j, k \in Int : old(j) = old(k) => j = k
  BY <1>1
<1>4. ASSUME NEW k \in 1..Len(queue), k # i
      PROVE  \E j \in 1..Len(queue') : old(j) = k
  <2>1. CASE k < i
    <3>1. k \in 1..Len(queue') /\ old(k) = k
      BY <1>1, <1>4, <2>1
    <3> QED BY <3>1
  <2>2. CASE ~(k < i)
    <3>1. k - 1 \in 1..Len(queue') /\ old(k - 1) = k
      BY <1>1, <1>4, <2>2
    <3> QED BY <3>1
  <2> QED BY <2>1, <2>2
<1> HIDE DEF old
<1>5. \A j, k \in 1..Len(queue) : queue[j] = queue[k] => j = k
  BY DEF QueueExact
<1>6. ASSUME NEW q \in Requests
      PROVE  pc'[q] = "queued" <=> \E j \in 1..Len(queue') : queue'[j] = q
  <2>1. CASE q = r
    BY <1>2, <1>5, <2>1
  <2>2. CASE q # r
    <3>1. pc'[q] = "queued" <=> \E k \in 1..Len(queue) : queue[k] = q
      BY <2>2 DEF QueueExact
    <3>2. (\E k \in 1..Len(queue) : queue[k] = q) => \E j \in 1..Len(queue') : queue'[j] = q
      <4>1. ASSUME NEW k \in 1..Len(queue), queue[k] = q
            PROVE  \E j \in 1..Len(queue') : queue'[j] = q
        <5>1. k # i
          BY <2>2, <4>1
        <5>2. PICK j \in 1..Len(queue') : old(j) = k
          BY <1>4, <5>1
        <5> QED BY <1>2, <4>1, <5>2
      <4> QED BY <4>1
    <3>3. (\E j \in 1..Len(queue') : queue'[j] = q) => \E k \in 1..Len(queue) : queue[k] = q
      BY <1>2
    <3> QED BY <3>1, <3>2, <3>3
  <2> QED BY <2>1, <2>2
<1>7. ASSUME NEW j \in 1..Len(queue'), NEW k \in 1..Len(queue'), queue'[j] = queue'[k]
      PROVE  j = k
  <2>1. old(j) = old(k)
    BY <1>2, <1>5, <1>7
  <2> QED BY <1>2, <1>3, <2>1
<1> QED BY <1>6, <1>7 DEF QueueExact

(* The first waiter is granted the lock.                                   *)
LEMMA GrantedLeaves ==
  ASSUME TypeOK, QueueExact, NEW r \in Requests, Granted(r), NEW place,
         place # "queued", pc' = [pc EXCEPT ![r] = place], queue' = Tail(queue),
         holder' = holder \/ (holder' = r /\ place = "busy")
  PROVE  QueueExact'
<1>1. queue \in Seq(Requests) /\ queue # <<>> /\ holder = None /\ queue[1] = r
  BY DEF TypeOK, Granted
<1>2. /\ 1 \in 1..Len(queue)
      /\ Len(queue') = Len(queue) - 1
      /\ \A j \in 1..Len(queue) - 1 : queue'[j] = queue[j + 1]
  BY <1>1
<1>3. \A j \in 1..Len(queue) - 1 : queue'[j] = IF j < 1 THEN queue[j] ELSE queue[j + 1]
  BY <1>2
<1>4. pc'[r] = place /\ \A q \in Requests : q # r => pc'[q] = pc[q]
  BY DEF TypeOK
<1>5. holder' # None => pc'[holder'] \in {"busy", "hung"}
  BY <1>1, <1>4
<1> QED BY <1>1, <1>2, <1>3, <1>4, <1>5, Left

(* A request that does not wait moves on, and the holder still runs.       *)
LEMMA Moved ==
  ASSUME TypeOK, QueueExact, NEW r \in Requests, NEW place,
         pc[r] # "queued", place # "queued", pc' = [pc EXCEPT ![r] = place],
         queue' = queue,
         holder' # None => pc'[holder'] \in {"busy", "hung"}
  PROVE  QueueExact'
<1>1. \A q \in Requests : pc'[q] = "queued" <=> pc[q] = "queued"
  BY DEF TypeOK
<1> QED BY <1>1 DEF QueueExact

LEMMA QueueStep == Inv /\ [Next]_vars => QueueExact'
<1> SUFFICES ASSUME TypeOK, QueueExact, [Next]_vars
             PROVE  QueueExact'
  BY DEF Inv
<1>1. ASSUME NEW r \in Requests, Arrive(r)
      PROVE  QueueExact'
  <2>1. pc[r] = "new"
    BY <1>1 DEF Arrive
  <2>2. CASE Kind[r] = "stream"
    <3>1. pc' = [pc EXCEPT ![r] = "spawned"] /\ queue' = queue /\ holder' = holder
      BY <1>1, <2>2 DEF Arrive, Goto
    <3>2. holder' # None => pc'[holder'] \in {"busy", "hung"}
      BY <2>1, <3>1 DEF TypeOK, QueueExact
    <3> QED BY <2>1, <3>1, <3>2, Moved
  <2>3. CASE Kind[r] # "stream"
    BY <1>1, <2>1, <2>3, Joined DEF Arrive, Goto
  <2> QED BY <2>2, <2>3
<1>2. ASSUME NEW r \in Requests, TaskRuns(r)
      PROVE  QueueExact'
  BY <1>2, Joined DEF TaskRuns, Goto
<1>3. ASSUME NEW r \in Requests, Start(r)
      PROVE  QueueExact'
  BY <1>3, GrantedLeaves DEF Start, Goto
<1>4. ASSUME NEW r \in Requests, NextToken(r)
      PROVE  QueueExact'
  <2>1. UNCHANGED <<pc, queue, holder>>
    BY <1>4 DEF NextToken, lockVars
  <2> QED BY <2>1 DEF QueueExact
<1>5. ASSUME NEW r \in Requests, EndOfStream(r) \/ EndOfLoop(r) \/ NextTokenFails(r)
      PROVE  QueueExact'
  <2>1. pc[r] = "busy" /\ queue' = queue
    BY <1>5 DEF EndOfStream, EndOfLoop, NextTokenFails, Generating
  <2>2. pc' = [pc EXCEPT ![r] = "done"] /\ holder' = None
    BY <1>5 DEF EndOfStream, EndOfLoop, NextTokenFails, Finish, Close, Goto
  <2> QED BY <2>1, <2>2, Moved
<1>6. ASSUME NEW r \in Requests, NextTokenHangs(r)
      PROVE  QueueExact'
  <2>1. /\ pc[r] = "busy" /\ pc' = [pc EXCEPT ![r] = "hung"]
        /\ queue' = queue /\ holder' = holder
    BY <1>6 DEF NextTokenHangs, Generating, Goto, lockVars
  <2>2. holder' # None => pc'[holder'] \in {"busy", "hung"}
    BY <2>1 DEF TypeOK, QueueExact
  <2> QED BY <2>1, <2>2, Moved
<1>7. ASSUME NEW r \in Requests, ReadTopology(r)
      PROVE  QueueExact'
  BY <1>7, GrantedLeaves DEF ReadTopology, Goto
<1>8. ASSUME NEW r \in Requests, AnswerTopology(r)
      PROVE  QueueExact'
  <2>1. /\ pc[r] = "probing" /\ pc' = [pc EXCEPT ![r] = "done"]
        /\ queue' = queue /\ holder' = holder
    BY <1>8 DEF AnswerTopology, Goto, lockVars
  <2>2. holder' # None => pc'[holder'] \in {"busy", "hung"}
    BY <2>1 DEF TypeOK, QueueExact
  <2> QED BY <2>1, <2>2, Moved
<1>9. ASSUME NEW r \in Requests, StreamClientLeaves(r)
      PROVE  QueueExact'
  BY <1>9 DEF StreamClientLeaves, lockVars, QueueExact
<1>10. ASSUME NEW r \in Requests, HandlerDropped(r)
       PROVE  QueueExact'
  <2>1. /\ pc' = [pc EXCEPT ![r] = "done"]
        /\ holder' = IF holder = r THEN None ELSE holder
    BY <1>10 DEF HandlerDropped, Goto
  <2>2. holder' # None => pc'[holder'] \in {"busy", "hung"}
    BY <2>1 DEF TypeOK, QueueExact
  <2>3. CASE pc[r] = "queued"
    <3>1. PICK i \in 1..Len(queue) : queue[i] = r /\ queue' = Without(i)
      BY <1>10, <2>3 DEF HandlerDropped
    <3>2. /\ Len(queue') = Len(queue) - 1
          /\ \A j \in 1..Len(queue) - 1 :
               queue'[j] = IF j < i THEN queue[j] ELSE queue[j + 1]
      BY <3>1, WithoutDef
    <3>3. pc'[r] # "queued" /\ \A q \in Requests : q # r => pc'[q] = pc[q]
      BY <2>1 DEF TypeOK
    <3> QED BY <2>2, <3>1, <3>2, <3>3, Left
  <2>4. CASE pc[r] # "queued"
    <3>1. queue' = queue
      BY <1>10, <2>4 DEF HandlerDropped
    <3> QED BY <2>1, <2>2, <2>4, <3>1, Moved
  <2> QED BY <2>3, <2>4
<1>11. CASE UNCHANGED vars
  BY <1>11 DEF QueueExact, vars, handlerVars, lockVars
<1> QED
  BY <1>1, <1>2, <1>3, <1>4, <1>5, <1>6, <1>7, <1>8, <1>9, <1>10, <1>11
  DEF Next, ServerStep

LEMMA InvStep == Inv /\ [Next]_vars => Inv'
BY TypeStep, UnstartedStep, OwnedStep, QueueStep DEF Inv

LEMMA Invariance == Spec => []Inv
BY InvInit, InvStep, PTL DEF Spec

(* Whatever requests come, fail, hang or are dropped, the chat that is     *)
(* generating under the lock of the Master works on its own messages and   *)
(* the tokens sampled for it (reset, add_message and generate, called in   *)
(* turn by the handlers of spm/api/mod.rs).                                *)
THEOREM DialogIsOwned == Spec => []DialogOwned
<1>1. Inv => DialogOwned
  BY DEF Inv
<1> QED BY <1>1, Invariance, PTL

(* Every request that waits for the RwLock of the Master is in its queue,  *)
(* once, nobody else is, and the lock is held by a chat that generates: a  *)
(* handler that is dropped while it waits or generates gives both up.      *)
THEOREM QueueIsExact == Spec => []QueueExact
<1>1. Inv => QueueExact
  BY DEF Inv
<1> QED BY <1>1, Invariance, PTL
-----------------------------------------------------------------------------
(* The text of nothing is nothing.                                         *)
LEMMA TextOfNothing == IsTextOf(<<>>, <<>>)
<1> DEFINE place == [i \in 1..0 |-> 0]
<1>1. Len(<<>>) = 0 /\ 1..0 = {}
  OBVIOUS
<1>2. place \in [1..0 -> 1..0]
  BY <1>1
<1> HIDE DEF place
<1>3. \E f \in [1..0 -> 1..0] :
        /\ \A i, j \in 1..0 : i < j => f[i] < f[j]
        /\ \A i \in 1..0 : <<>>[i] = <<>>[f[i]]
        /\ \A k \in 1..0 : Visible(<<>>[k]) <=> \E i \in 1..0 : f[i] = k
  BY <1>1, <1>2
<1> QED BY <1>1, <1>3 DEF IsTextOf

(* A token without text adds nothing to the text (the closures of generate *)
(* skip it), a token with text adds itself.                                *)
LEMMA TextOfAppend ==
  ASSUME NEW text \in Seq(Tokens), NEW sequence \in Seq(Tokens), NEW token \in Tokens,
         IsTextOf(text, sequence)
  PROVE  IsTextOf(IF Visible(token) THEN Append(text, token) ELSE text,
                  Append(sequence, token))
<1> DEFINE n == Len(text)
           m == Len(sequence)
           longer == Append(sequence, token)
<1>1. /\ n \in Nat /\ m \in Nat /\ Len(longer) = m + 1
      /\ longer[m + 1] = token
      /\ \A k \in 1..m : longer[k] = sequence[k]
  OBVIOUS
<1>2. PICK place \in [1..n -> 1..m] :
        /\ \A i, j \in 1..n : i < j => place[i] < place[j]
        /\ \A i \in 1..n : text[i] = sequence[place[i]]
        /\ \A k \in 1..m : Visible(sequence[k]) <=> \E i \in 1..n : place[i] = k
  BY DEF IsTextOf
<1>3. CASE ~Visible(token)
  <2> HIDE DEF n, m, longer
  <2>1. place \in [1..n -> 1..m + 1]
    BY <1>1, <1>2
  <2>2. \A i \in 1..n : text[i] = longer[place[i]]
    BY <1>1, <1>2
  <2>3. ASSUME NEW k \in 1..m + 1
        PROVE  Visible(longer[k]) <=> \E i \in 1..n : place[i] = k
    <3>1. CASE k \in 1..m
      BY <1>1, <1>2, <3>1
    <3>2. CASE k = m + 1
      <4>1. \A i \in 1..n : place[i] # k
        BY <1>1, <1>2, <3>2
      <4> QED BY <1>1, <1>3, <3>2, <4>1
    <3> QED BY <1>1, <3>1, <3>2
  <2>4. IsTextOf(text, longer)
    <3>1. n = Len(text) /\ m + 1 = Len(longer)
      BY <1>1 DEF n
    <3>2. place \in [1..Len(text) -> 1..Len(longer)]
      BY <2>1, <3>1
    <3>3. \A i, j \in 1..Len(text) : i < j => place[i] < place[j]
      BY <1>2, <3>1
    <3>4. \A i \in 1..Len(text) : text[i] = longer[place[i]]
      BY <2>2, <3>1
    <3>5. \A k \in 1..Len(longer) :
            Visible(longer[k]) <=> \E i \in 1..Len(text) : place[i] = k
      BY <2>3, <3>1
    <3> QED BY <3>2, <3>3, <3>4, <3>5 DEF IsTextOf
  <2> QED BY <1>3, <2>4 DEF longer
<1>4. CASE Visible(token)
  <2> DEFINE more == Append(text, token)
             further == [i \in 1..n + 1 |-> IF i = n + 1 THEN m + 1 ELSE place[i]]
  <2>1. /\ Len(more) = n + 1 /\ more[n + 1] = token
        /\ \A i \in 1..n : more[i] = text[i]
    OBVIOUS
  <2> HIDE DEF n, m, longer, more
  <2>2. further[n + 1] = m + 1 /\ \A i \in 1..n : further[i] = place[i]
    BY <1>1
  <2>3. further \in [1..n + 1 -> 1..m + 1]
    BY <1>1, <1>2
  <2> HIDE DEF further
  <2>4. \A i \in 1..n + 1 : i \in 1..n \/ i = n + 1
    BY <1>1
  <2>5. \A i, j \in 1..n + 1 : i < j => further[i] < further[j]
    BY <1>1, <1>2, <2>2, <2>4
  <2>6. ASSUME NEW i \in 1..n + 1
        PROVE  more[i] = longer[further[i]]
    <3>1. CASE i \in 1..n
      BY <1>1, <1>2, <2>1, <2>2, <3>1
    <3>2. CASE i = n + 1
      BY <1>1, <2>1, <2>2, <3>2
    <3> QED BY <2>4, <3>1, <3>2
  <2>7. ASSUME NEW k \in 1..m + 1
        PROVE  Visible(longer[k]) <=> \E i \in 1..n + 1 : further[i] = k
    <3>1. CASE k \in 1..m
      <4>1. (\E i \in 1..n + 1 : further[i] = k) <=> \E i \in 1..n : place[i] = k
        <5>1. ASSUME NEW i \in 1..n + 1, further[i] = k
              PROVE  \E j \in 1..n : place[j] = k
          <6>1. k # m + 1
            BY <1>1, <3>1
          <6>2. i \in 1..n
            BY <2>2, <2>4, <5>1, <6>1
          <6> QED BY <2>2, <5>1, <6>2
        <5>2. ASSUME NEW i \in 1..n, place[i] = k
              PROVE  \E j \in 1..n + 1 : further[j] = k
          <6>1. i \in 1..n + 1
            BY <1>1
          <6> QED BY <2>2, <5>2, <6>1
        <5> QED BY <5>1, <5>2
      <4> QED BY <1>1, <1>2, <3>1, <4>1
    <3>2. CASE k = m + 1
      <4>1. n + 1 \in 1..n + 1
        BY <1>1
      <4> QED BY <1>1, <1>4, <2>2, <3>2, <4>1
    <3> QED BY <1>1, <3>1, <3>2
  <2>8. n + 1 = Len(more) /\ m + 1 = Len(longer)
    BY <1>1, <2>1
  <2>9. IsTextOf(more, longer)
    <3>1. further \in [1..Len(more) -> 1..Len(longer)]
      BY <2>3, <2>8
    <3>2. \A i, j \in 1..Len(more) : i < j => further[i] < further[j]
      BY <2>5, <2>8
    <3>3. \A i \in 1..Len(more) : more[i] = longer[further[i]]
      BY <2>6, <2>8
    <3>4. \A k \in 1..Len(longer) :
            Visible(longer[k]) <=> \E i \in 1..Len(more) : further[i] = k
      BY <2>7, <2>8
    <3> QED BY <3>1, <3>2, <3>3, <3>4 DEF IsTextOf
  <2> QED BY <1>4, <2>9 DEF more, longer
<1> QED BY <1>3, <1>4

(* A chat that waits has sent nothing, one that generates has sent the     *)
(* text so far, unless the client left; only the topology endpoint probes. *)
Sent(q) ==
  /\ pc[q] \in {"new", "spawned", "queued"} => out[q] = <<>>
  /\ pc[q] \in {"busy", "hung"} /\ ~gone[q] => IsTextOf(out[q], Shown(q))
  /\ pc[q] = "probing" => Kind[q] = "topology"

(* AnswerExact of one request.                                             *)
Answer(q) ==
  Kind[q] # "topology" /\ pc[q] = "done" /\ ~gone[q] =>
    IF Kind[q] = "plain"
    THEN answer[q] \in {"200", "500"} /\ IsTextOf(out[q], Shown(q))
    ELSE \E kind \in {"final", "error"}, n \in 0..Len(out[q]) :
           /\ out[q] = SubSeq(out[q], 1, n) \o Ending(kind, q)
           /\ IsTextOf(SubSeq(out[q], 1, n), Shown(q))

AnswerInv == \A q \in Requests : Sent(q) /\ Answer(q)

(* What a chat is made of grows by the token that was sampled.             *)
LEMMA ShownAppend ==
  ASSUME TypeOK, NEW r \in Requests, NEW token \in Tokens,
         said' = [said EXCEPT ![r] = Append(@, token)]
  PROVE  /\ Shown(r) \in Seq(Tokens)
         /\ Shown(r)' = Append(Shown(r), token)
<1>1. said[r] \in Seq(Tokens) /\ said'[r] = Append(said[r], token)
  BY DEF TypeOK
<1>2. <<Prompt(r)>> \in Seq(Tokens)
  BY PromptType
<1>3. \A s, t \in Seq(Tokens), e \in Tokens : s \o Append(t, e) = Append(s \o t, e)
  OBVIOUS
<1>4. <<Prompt(r)>> \o Append(said[r], token) = Append(<<Prompt(r)>> \o said[r], token)
  BY <1>1, <1>2, <1>3
<1>5. Shown(r)' = <<Prompt(r)>> \o said'[r]
  BY DEF Shown, Prompt, Event, Token
<1> QED BY <1>1, <1>2, <1>4, <1>5 DEF Shown

(* An answer stays what it is when its request does not move.              *)
LEMMA AnswerStays ==
  ASSUME AnswerInv, NEW q \in Requests,
         pc'[q] = pc[q], gone'[q] = gone[q], answer'[q] = answer[q],
         out'[q] = out[q], said'[q] = said[q]
  PROVE  Sent(q)' /\ Answer(q)'
<1>1. Shown(q)' = Shown(q) /\ \A kind : Ending(kind, q)' = Ending(kind, q)
  BY DEF Shown, Prompt, Ending, Event, Token
<1>2. Sent(q)'
  BY <1>1 DEF AnswerInv, Sent
<1>3. Answer(q)'
  BY <1>1 DEF AnswerInv, Answer
<1> QED BY <1>2, <1>3

(* A chat whose client stayed has sent its text when it ends: a plain one  *)
(* gets a status, a stream two more events (the end of a handler or task). *)
LEMMA AnswerClosed ==
  ASSUME TypeOK, NEW r \in Requests, NEW status \in {"200", "500"},
         NEW kind \in {"final", "error"},
         Close(r, status, <<Event(r, kind), Event(r, "done")>>),
         gone' = gone,
         ~gone[r] => IsTextOf(out[r], Shown(r)')
  PROVE  Sent(r)' /\ Answer(r)'
<1>1. /\ pc'[r] = "done"
      /\ Kind[r] = "plain" => answer'[r] = status
      /\ out'[r] = IF Kind[r] = "stream" /\ ~gone[r] THEN out[r] \o Ending(kind, r) ELSE out[r]
  BY DEF TypeOK, Close, Goto, Ending
<1>2. Sent(r)'
  BY <1>1 DEF Sent
<1>3. ASSUME ~gone[r], Kind[r] = "stream"
      PROVE  \E e \in {"final", "error"}, n \in 0..Len(out'[r]) :
               /\ out'[r] = SubSeq(out'[r], 1, n) \o Ending(e, r)
               /\ IsTextOf(SubSeq(out'[r], 1, n), Shown(r)')
  <2>1. out[r] \in Seq(Tokens) /\ Ending(kind, r) \in Seq(Tokens)
    BY EventType DEF TypeOK, Ending, Kinds
  <2>2. \A s, t \in Seq(Tokens) :
          Len(s) \in 0..Len(s \o t) /\ SubSeq(s \o t, 1, Len(s)) = s
    <3> TAKE s \in Seq(Tokens), t \in Seq(Tokens)
    <3>1. Len(s) \in Nat /\ Len(t) \in Nat /\ Len(s \o t) = Len(s) + Len(t)
          /\ s \o t \in Seq(Tokens) /\ \A k \in 1..Len(s) : (s \o t)[k] = s[k]
      OBVIOUS
    <3> DEFINE part == SubSeq(s \o t, 1, Len(s))
    <3>2. part \in Seq(Tokens) /\ Len(part) = Len(s)
          /\ \A k \in 1..Len(s) : part[k] = (s \o t)[k]
      BY <3>1
    <3> HIDE DEF part
    <3>3. part = s
      BY <3>1, <3>2, SeqEqual
    <3> QED BY <3>1, <3>3 DEF part
  <2>3. out'[r] = out[r] \o Ending(kind, r)
    BY <1>1, <1>3
  <2>4. Len(out[r]) \in 0..Len(out'[r]) /\ SubSeq(out'[r], 1, Len(out[r])) = out[r]
    BY <2>1, <2>2, <2>3
  <2>5. /\ out'[r] = SubSeq(out'[r], 1, Len(out[r])) \o Ending(kind, r)
        /\ IsTextOf(SubSeq(out'[r], 1, Len(out[r])), Shown(r)')
    BY <1>3, <2>3, <2>4
  <2> QED BY <2>4, <2>5
<1>4. \A e : Ending(e, r)' = Ending(e, r)
  BY DEF Ending, Event, Token
<1>5. Kind[r] \in {"plain", "stream", "topology"}
  BY ChatApiAssumption
<1>6. ASSUME Kind[r] = "plain", ~gone[r]
      PROVE  Answer(r)'
  BY <1>1, <1>6 DEF Answer
<1>7. ASSUME Kind[r] = "stream", ~gone[r]
      PROVE  Answer(r)'
  BY <1>3, <1>4, <1>7 DEF Answer
<1>8. ASSUME Kind[r] = "topology" \/ gone[r]
      PROVE  Answer(r)'
  BY <1>8 DEF Answer
<1> QED BY <1>2, <1>5, <1>6, <1>7, <1>8

(* The closure of generate sends what a piece of text adds.                *)
LEMMA StreamedText ==
  ASSUME TypeOK, NEW r \in Requests, NEW text \in Tokens, NEW sequence \in Seq(Tokens),
         text.kind \in {"text", "echo", "empty"},
         Streamed(r, text), ~gone[r], IsTextOf(out[r], sequence)
  PROVE  IsTextOf(out'[r], Append(sequence, text))
<1>1. out[r] \in Seq(Tokens)
  BY DEF TypeOK
<1>2. out'[r] = IF Visible(text) THEN Append(out[r], text) ELSE out[r]
  BY DEF TypeOK, Streamed, Visible
<1> QED BY <1>1, <1>2, TextOfAppend

LEMMA AnswerInit == Init => AnswerInv
BY DEF Init, AnswerInv, Sent, Answer

LEMMA AnswerStep == Inv /\ AnswerInv /\ [Next]_vars => AnswerInv'
<1> SUFFICES ASSUME TypeOK, Unstarted, AnswerInv, [Next]_vars, NEW q \in Requests
             PROVE  Sent(q)' /\ Answer(q)'
  BY DEF Inv, AnswerInv
<1> DEFINE Goal == Sent(q)' /\ Answer(q)'
<1>1. ASSUME NEW r \in Requests, Arrive(r)
      PROVE  Goal
  <2>1. CASE q = r
    <3>1. pc'[r] \in {"spawned", "queued"} /\ out'[r] = <<>>
      BY <1>1 DEF TypeOK, AnswerInv, Sent, Arrive, Goto
    <3> QED BY <2>1, <3>1 DEF Sent, Answer
  <2>2. CASE q # r
    BY <1>1, <2>2, AnswerStays DEF TypeOK, Arrive, Goto
  <2> QED BY <2>1, <2>2
<1>2. ASSUME NEW r \in Requests, TaskRuns(r)
      PROVE  Goal
  <2>1. CASE q = r
    <3>1. pc'[r] = "queued" /\ out'[r] = <<>>
      BY <1>2 DEF TypeOK, AnswerInv, Sent, TaskRuns, Goto
    <3> QED BY <2>1, <3>1 DEF Sent, Answer
  <2>2. CASE q # r
    BY <1>2, <2>2, AnswerStays DEF TypeOK, TaskRuns, Goto
  <2> QED BY <2>1, <2>2
<1>3. ASSUME NEW r \in Requests, Start(r)
      PROVE  Goal
  <2>1. CASE q = r
    <3>1. pc'[r] = "busy" /\ out[r] = <<>> /\ said'[r] = <<>> /\ gone' = gone
      BY <1>3 DEF TypeOK, Unstarted, AnswerInv, Sent, Start, Goto
    <3>2. Shown(r)' = Append(<<>>, Prompt(r))
      <4>1. \A e \in Tokens : <<e>> \o <<>> = Append(<<>>, e)
        OBVIOUS
      <4>2. Shown(r)' = <<Prompt(r)>> \o said'[r]
        BY DEF Shown, Prompt, Event, Token
      <4> QED BY <3>1, <4>1, <4>2, PromptType
    <3>3. ASSUME ~gone[r]
          PROVE  IsTextOf(out'[r], Shown(r)')
      <4>1. Prompt(r).kind \in {"text", "echo", "empty"}
        BY DEF Prompt, Event, Token
      <4>2. Streamed(r, Prompt(r)) /\ IsTextOf(out[r], <<>>) /\ <<>> \in Seq(Tokens)
        BY <1>3, <3>1, TextOfNothing DEF Start
      <4> QED BY <3>2, <3>3, <4>1, <4>2, PromptType, StreamedText
    <3> QED BY <2>1, <3>1, <3>3 DEF Sent, Answer
  <2>2. CASE q # r
    BY <1>3, <2>2, AnswerStays DEF TypeOK, Start, Streamed, Goto
  <2> QED BY <2>1, <2>2
<1>4. ASSUME NEW r \in Requests, NextToken(r)
      PROVE  Goal
  <2> PICK kind \in {"text", "empty"} :
        LET token == Token(r, Len(said[r]) + 1, kind) IN
        /\ Generating(r)
        /\ Sampled(r, token)
        /\ Streamed(r, token)
        /\ UNCHANGED <<pc, gone, answer, lockVars, history>>
    BY <1>4 DEF NextToken
  <2> DEFINE token == Token(r, Len(said[r]) + 1, kind)
  <2>1. token \in Tokens /\ token.kind = kind
    <3>1. Len(said[r]) + 1 \in Nat
      BY DEF TypeOK
    <3> QED BY <3>1, TokenType DEF Kinds, Token
  <2>2. Generating(r) /\ Sampled(r, token) /\ Streamed(r, token)
        /\ UNCHANGED <<pc, gone, answer>>
    OBVIOUS
  <2> HIDE DEF token
  <2>3. CASE q = r
    <3>1. pc[r] = "busy" /\ pc'[r] = "busy" /\ gone' = gone
      BY <2>2 DEF Generating
    <3>2. Shown(r) \in Seq(Tokens) /\ Shown(r)' = Append(Shown(r), token)
      BY <2>1, <2>2, ShownAppend DEF Sampled
    <3>3. ASSUME ~gone[r]
          PROVE  IsTextOf(out'[r], Shown(r)')
      BY <2>1, <2>2, <3>1, <3>2, <3>3, StreamedText DEF AnswerInv, Sent
    <3> QED BY <2>3, <3>1, <3>3 DEF Sent, Answer
  <2>4. CASE q # r
    BY <2>2, <2>4, AnswerStays DEF TypeOK, Streamed, Sampled
  <2> QED BY <2>3, <2>4
<1>5. ASSUME NEW r \in Requests, EndOfStream(r)
      PROVE  Goal
  <2> DEFINE token == Token(r, Len(said[r]) + 1, "eos")
  <2>1. token \in Tokens /\ ~Visible(token)
    <3>1. Len(said[r]) + 1 \in Nat
      BY DEF TypeOK
    <3> QED BY <3>1, TokenType DEF Kinds, Token, Visible
  <2>2. Generating(r) /\ Sampled(r, token) /\ Finish(r) /\ gone' = gone
    BY <1>5 DEF EndOfStream
  <2> HIDE DEF token
  <2>3. CASE q = r
    <3>1. Shown(r) \in Seq(Tokens) /\ Shown(r)' = Append(Shown(r), token)
      BY <2>1, <2>2, ShownAppend DEF Sampled
    <3>2. ASSUME ~gone[r]
          PROVE  IsTextOf(out[r], Shown(r)')
      <4>1. IsTextOf(out[r], Shown(r)) /\ out[r] \in Seq(Tokens)
        BY <2>2, <3>2 DEF TypeOK, AnswerInv, Sent, Generating
      <4> QED BY <2>1, <3>1, <4>1, TextOfAppend
    <3> QED BY <2>2, <2>3, <3>2, AnswerClosed DEF Finish
  <2>4. CASE q # r
    BY <2>2, <2>4, AnswerStays DEF TypeOK, Sampled, Finish, Close, Goto
  <2> QED BY <2>3, <2>4
<1>6. ASSUME NEW r \in Requests, EndOfLoop(r) \/ NextTokenFails(r)
      PROVE  Goal
  <2>1. pc[r] = "busy" /\ gone' = gone /\ said' = said
    BY <1>6 DEF EndOfLoop, NextTokenFails, Generating
  <2>2. PICK status \in {"200", "500"}, kind \in {"final", "error"} :
          Close(r, status, <<Event(r, kind), Event(r, "done")>>)
    BY <1>6 DEF EndOfLoop, NextTokenFails, Finish
  <2>3. CASE q = r
    <3>1. Shown(r)' = Shown(r)
      BY <2>1 DEF Shown, Prompt, Event, Token
    <3>2. ~gone[r] => IsTextOf(out[r], Shown(r)')
      BY <2>1, <3>1 DEF AnswerInv, Sent
    <3> QED BY <2>1, <2>2, <2>3, <3>2, AnswerClosed
  <2>4. CASE q # r
    BY <2>1, <2>2, <2>4, AnswerStays DEF TypeOK, Close, Goto
  <2> QED BY <2>3, <2>4
<1>7. ASSUME NEW r \in Requests, NextTokenHangs(r)
      PROVE  Goal
  <2>1. CASE q = r
    <3>1. pc[r] = "busy" /\ pc'[r] = "hung" /\ UNCHANGED <<gone, out, said>>
      BY <1>7 DEF TypeOK, NextTokenHangs, Generating, Goto
    <3>2. Shown(r)' = Shown(r)
      BY <3>1 DEF Shown, Prompt, Event, Token
    <3> QED BY <2>1, <3>1, <3>2 DEF AnswerInv, Sent, Answer
  <2>2. CASE q # r
    BY <1>7, <2>2, AnswerStays DEF TypeOK, NextTokenHangs, Goto
  <2> QED BY <2>1, <2>2
<1>8. ASSUME NEW r \in Requests, ReadTopology(r) \/ AnswerTopology(r)
      PROVE  Goal
  <2>1. CASE q = r
    <3>1. Kind[r] = "topology" /\ pc'[r] \in {"probing", "done"}
      BY <1>8 DEF TypeOK, AnswerInv, Sent, ReadTopology, AnswerTopology, Goto
    <3> QED BY <2>1, <3>1 DEF Sent, Answer
  <2>2. CASE q # r
    BY <1>8, <2>2, AnswerStays DEF TypeOK, ReadTopology, AnswerTopology, Goto
  <2> QED BY <2>1, <2>2
<1>9. ASSUME NEW r \in Requests, StreamClientLeaves(r)
      PROVE  Goal
  <2>1. CASE q = r
    <3>1. gone'[r] /\ UNCHANGED <<pc, out>>
      BY <1>9 DEF TypeOK, StreamClientLeaves
    <3> QED BY <2>1, <3>1 DEF AnswerInv, Sent, Answer
  <2>2. CASE q # r
    BY <1>9, <2>2, AnswerStays DEF TypeOK, StreamClientLeaves
  <2> QED BY <2>1, <2>2
<1>10. ASSUME NEW r \in Requests, HandlerDropped(r)
       PROVE  Goal
  <2>1. CASE q = r
    <3>1. gone'[r] /\ pc'[r] = "done"
      BY <1>10 DEF TypeOK, HandlerDropped, Goto
    <3> QED BY <2>1, <3>1 DEF Sent, Answer
  <2>2. CASE q # r
    BY <1>10, <2>2, AnswerStays DEF TypeOK, HandlerDropped, Goto
  <2> QED BY <2>1, <2>2
<1>11. CASE UNCHANGED vars
  BY <1>11, AnswerStays DEF vars, handlerVars
<1> QED
  BY <1>1, <1>2, <1>3, <1>4, <1>5, <1>6, <1>7, <1>8, <1>9, <1>10, <1>11
  DEF Next, ServerStep

(* A chat that ends while its client is there has been sent what was       *)
(* sampled for it, each token with text once and in order, and nothing of  *)
(* another request: in the one string of a plain chat, or as events that   *)
(* end with the final chunk or the error and [DONE] (the handlers of       *)
(* spm/api/mod.rs and the closures they pass to Master::generate).         *)
THEOREM AnswerIsExact == Spec => []AnswerExact
<1>1. Init => AnswerInv
  BY AnswerInit
<1>2. Inv /\ AnswerInv /\ [Next]_vars => AnswerInv'
  BY AnswerStep
<1>3. AnswerInv => AnswerExact
  BY DEF AnswerInv, Answer, AnswerExact
<1> QED BY <1>1, <1>2, <1>3, Invariance, PTL DEF Spec
=============================================================================
