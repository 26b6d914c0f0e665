----------------------------- MODULE Generation -----------------------------
(***************************************************************************)
(* What a chat promises, whatever machines compute it: the abstract        *)
(* specification that Session implements.                                  *)
(*                                                                         *)
(* A master answers one chat at a time.  The k-th token it samples is the  *)
(* token a single machine holding every layer would sample after the       *)
(* prompt and the k-1 tokens before it: every layer, in order, attends to  *)
(* exactly the positions of this chat so far, to no position of another    *)
(* chat or another master.  A chat may fail at any point; what it has      *)
(* sampled until then is still right.                                      *)
(***************************************************************************)
EXTENDS Dialog

CONSTANTS Masters,    \* master processes
          PromptLens, \* prompt lengths, in tokens
          SampleLen,  \* args.sample_len
          MaxChats    \* bound on the chats one master is asked

VARIABLES chat,     \* chat[m]: number of the current or last chat of m
          prompt,   \* prompt[m]: length of its prompt
          sampled,  \* sampled[m]: tokens sampled in it
          status    \* status[m]: "down", "idle" or "busy"

vars == <<chat, prompt, sampled, status>>

Init ==
  /\ chat = [m \in Masters |-> 0]
  /\ prompt = [m \in Masters |-> 0]
  /\ sampled = [m \in Masters |-> <<>>]
  /\ status = [m \in Masters |-> "down"]

Load(m) ==
  /\ status[m] = "down"
  /\ status' = [status EXCEPT ![m] = "idle"]
  /\ UNCHANGED <<chat, prompt, sampled>>

Ask(m, n) ==
  /\ status[m] = "idle"
  /\ chat[m] < MaxChats
  /\ chat' = [chat EXCEPT ![m] = @ + 1]
  /\ prompt' = [prompt EXCEPT ![m] = n]
  /\ sampled' = [sampled EXCEPT ![m] = <<>>]
  /\ status' = [status EXCEPT ![m] = "busy"]

(* The next token.  The chat may end with it (end of stream) and must end  *)
(* with it at the sample limit.                                            *)
SampleNext(m) ==
  LET k == Len(sampled[m]) IN
  /\ status[m] = "busy"
  /\ k < SampleLen
  /\ sampled' = [sampled EXCEPT ![m] = Append(@, Reference(m, chat[m], prompt[m] + k))]
  /\ \/ status' = [status EXCEPT ![m] = "idle"]
     \/ k + 1 < SampleLen /\ UNCHANGED status
  /\ UNCHANGED <<chat, prompt>>

Fail(m) ==
  /\ status[m] = "busy"
  /\ status' = [status EXCEPT ![m] = "idle"]
  /\ UNCHANGED <<chat, prompt, sampled>>

Stop(m) ==
  /\ status[m] # "down"
  /\ status' = [status EXCEPT ![m] = "down"]
  /\ UNCHANGED <<chat, prompt, sampled>>

Next ==
  \E m \in Masters :
    \/ Load(m)
    \/ \E n \in PromptLens : Ask(m, n)
    \/ SampleNext(m)
    \/ Fail(m)
    \/ Stop(m)

Spec == Init /\ [][Next]_vars
=============================================================================
