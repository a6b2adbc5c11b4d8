--------------------------- MODULE OperationServer ---------------------------
(***************************************************************************)
(* What g_op_lock promises the threads that use the lock: operations are  *)
(* served one at a time, nobody is served without asking, and the server  *)
(* is never idle while somebody waits: the one who finishes hands over to *)
(* a waiting one directly.  No mutex, no queue, no radio.                 *)
(***************************************************************************)
CONSTANT Clients

VARIABLE phase   \* per client: "idle", "waiting" or "active"

Active == {c \in Clients : phase[c] = "active"}
Waiting == {c \in Clients : phase[c] = "waiting"}

\* At start-up at most one client is already being served: the poller.
ServerInit ==
  \E first \in SUBSET Clients :
    /\ \A c, d \in first : c = d
    /\ phase = [c \in Clients |-> IF c \in first THEN "active" ELSE "idle"]

Ask(c) ==
  /\ phase[c] = "idle"
  /\ phase' = [phase EXCEPT ![c] = IF Active = {} THEN "active" ELSE "waiting"]

\* The operation is over and nobody waits.
Finish(c) ==
  /\ phase[c] = "active" /\ Waiting = {}
  /\ phase' = [phase EXCEPT ![c] = "idle"]

HandOver(c, w) ==
  /\ phase[c] = "active" /\ phase[w] = "waiting"
  /\ phase' = [phase EXCEPT ![c] = "idle", ![w] = "active"]

ServerNext ==
  \E c \in Clients : Ask(c) \/ Finish(c) \/ \E w \in Clients : HandOver(c, w)

ServerSpec == ServerInit /\ [][ServerNext]_phase
=============================================================================
