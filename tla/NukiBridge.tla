------------------------------ MODULE NukiBridge ------------------------------
(***************************************************************************)
(* What the bridge promises the Miniserver: operations on the lock are    *)
(* served one at a time (OperationServer), and what it tells about the    *)
(* lock is a state the lock really had, never older than what it told     *)
(* before.                                                                *)
(***************************************************************************)
EXTENDS OperationServer, Naturals

VARIABLES
  lock_ver,      \* the lock's state, numbered by its changes
  known          \* the state the bridge tells; 0 while it has none

\* The lock moves, by an operation or by hand.
Move ==
  /\ lock_ver' = lock_ver + 1
  /\ UNCHANGED <<phase, known>>

\* A state is learnt: not necessarily the present one, never an older one
\* than the one known.
Learn ==
  /\ known' \in Nat /\ known <= known' /\ known' <= lock_ver
  /\ UNCHANGED <<phase, lock_ver>>

Serve == ServerNext /\ UNCHANGED <<lock_ver, known>>

Init == ServerInit /\ known = 0 /\ lock_ver = 1

Next == Serve \/ Move \/ Learn

Spec == Init /\ [][Next]_<<phase, lock_ver, known>>
=============================================================================
