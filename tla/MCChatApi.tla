---------------------------- MODULE MCChatApi ----------------------------
(* Small instances of ChatApi for TLC. *)
EXTENDS ChatApi, TLC

CONSTANTS p, q, s, t

(* p and q are plain chats, s a stream, t a topology request. *)
KindOf == [r \in Requests |-> CASE r = s -> "stream"
                                [] r = t -> "topology"
                                [] OTHER -> "plain"]

(* Chats of different length. *)
TurnsOf == [r \in Requests |-> IF r = s THEN 2 ELSE 1]
=============================================================================
