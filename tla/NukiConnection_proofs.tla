------------------------ MODULE NukiConnection_proofs ------------------------
(***************************************************************************)
(* Proofs about NukiConnection, for any set of callers and any scheduling *)
(* class of each.  The inductive invariant has two halves: the types, and *)
(* the agreement of the connection slot with the pointer, the flags, the  *)
(* running discovery and the reference count.  Neither RefsBalanced nor   *)
(* SlotAccounting is inductive alone: a callback releases what the flags  *)
(* say, and only the slot says which flags can be set when it runs.       *)
(***************************************************************************)
EXTENDS NukiConnection, TLAPS

Types == CallersTypeOK /\ AttemptTypeOK /\ ConnTypeOK
SlotInv == RefsBalanced /\ SlotAccounting
ConnInv == Types /\ SlotInv

\* Everything a caller can do.
CallerStep(c) == Step(c) \/ \E o \in OpsOf(c) : Start(c, o)

-----------------------------------------------------------------------------
(* Initial states.                                                          *)

\* Every variable starts with its type.
LEMMA InitTypes == Init => Types
<1> SUFFICES ASSUME Init PROVE Types
  OBVIOUS
<1>1. CallersTypeOK
  BY DEF Init, CallersTypeOK, Pcs, Ops
<1>2. AttemptTypeOK
  BY DEF Init, AttemptTypeOK, Errs
<1>3. ConnTypeOK
  BY DEF Init, ConnTypeOK
<1> QED
  BY <1>1, <1>2, <1>3 DEF Types

\* References and the connection slot agree at boot: there are none.
LEMMA InitSlot == Init => SlotInv
  BY DEF Init, SlotInv, RefsBalanced, SlotAccounting, B

-----------------------------------------------------------------------------
(* Steps of a caller.                                                       *)

\* A caller never touches the connection's bookkeeping; the most it does is to
\* tell an established link to close.
LEMMA CallerKeepsConn ==
  ASSUME NEW c \in Callers, CallerStep(c)
  PROVE  /\ UNCHANGED <<g_conn, conn_refs, discovering, g_gdio_ready, g_usdio_ready>>
         /\ link' = link \/ (link = "up" /\ link' = "closing")
  BY DEF CallerStep, Step, Start, Begin, Clear, Arm, ScanStart, Schedule, ConnectDone,
     ConnectTimeout, GiveUp, GiveUpStop, GiveUpCheck, GiveUpDisconnect, CheckReady,
     Exchange, SavePairing, Disconnect, DisconnectRequest, DisconnectWait, Unlock,
     bt_conn_disconnect, connVars

\* A caller moves itself, or the waiter it hands the mutex to, between program
\* counters.
LEMMA CallerKeepsCallersTypes ==
  ASSUME CallersTypeOK, NEW c \in Callers, CallerStep(c)
  PROVE  CallersTypeOK'
<1> USE DEF CallersTypeOK, Pcs
<1>1. ASSUME NEW o \in OpsOf(c), Start(c, o) PROVE CallersTypeOK'
  BY <1>1 DEF Start, OpsOf, Ops
<1>2. CASE Begin(c) \/ Clear(c) \/ Arm(c) \/ ScanStart(c) \/ Schedule(c)
  BY <1>2 DEF Begin, Clear, Arm, ScanStart, Schedule, Goto
<1>3. CASE ConnectDone(c) \/ ConnectTimeout(c)
  BY <1>3 DEF ConnectDone, ConnectTimeout, Goto
<1>4. CASE GiveUp(c) \/ GiveUpStop(c) \/ GiveUpCheck(c) \/ GiveUpDisconnect(c)
  BY <1>4 DEF GiveUp, GiveUpStop, GiveUpCheck, GiveUpDisconnect, Goto
<1>5. CASE CheckReady(c) \/ Exchange(c) \/ SavePairing(c)
  BY <1>5 DEF CheckReady, Exchange, SavePairing, Goto
<1>6. CASE Disconnect(c) \/ DisconnectRequest(c) \/ DisconnectWait(c)
  BY <1>6 DEF Disconnect, DisconnectRequest, DisconnectWait, Goto
<1>7. CASE Unlock(c)
  BY <1>7 DEF Unlock, NextOwners, Waiters, Ops
<1> QED
  BY <1>1, <1>2, <1>3, <1>4, <1>5, <1>6, <1>7 DEF CallerStep, Step

\* The callers' steps keep the types of the attempt's shared variables.
LEMMA CallerKeepsAttemptTypes ==
  ASSUME AttemptTypeOK, NEW c \in Callers, CallerStep(c)
  PROVE  AttemptTypeOK'
<1> USE DEF AttemptTypeOK, attemptVars, scanVars
<1>1. ASSUME NEW o \in OpsOf(c), Start(c, o) PROVE AttemptTypeOK'
  BY <1>1 DEF Start
<1>2. CASE Begin(c)
  BY <1>2 DEF Begin, ResetReadySem
<1>3. CASE Clear(c)
  BY <1>3 DEF Clear, Errs
<1>4. CASE Arm(c)
  <2>1. g_need_gdio' \in BOOLEAN /\ g_connecting' \in BOOLEAN
    BY <1>4 DEF Arm
  <2> QED
    BY <1>4, <2>1 DEF Arm
<1>5. CASE ScanStart(c)
  BY <1>5 DEF ScanStart
<1>6. CASE Schedule(c)
  BY <1>6 DEF Schedule
<1>7. CASE ConnectDone(c)
  BY <1>7 DEF ConnectDone
<1>8. CASE ConnectTimeout(c) \/ GiveUp(c)
  BY <1>8 DEF ConnectTimeout, GiveUp
<1>9. CASE GiveUpStop(c) \/ GiveUpCheck(c) \/ GiveUpDisconnect(c)
  BY <1>9 DEF GiveUpStop, GiveUpCheck, GiveUpDisconnect, bt_le_scan_stop
<1>10. CASE CheckReady(c) \/ Exchange(c) \/ SavePairing(c)
  BY <1>10 DEF CheckReady, Exchange, SavePairing
<1>11. CASE Disconnect(c) \/ DisconnectRequest(c) \/ DisconnectWait(c)
  BY <1>11 DEF Disconnect, DisconnectRequest, DisconnectWait
<1>12. CASE Unlock(c)
  BY <1>12 DEF Unlock
<1> QED
  BY <1>1, <1>2, <1>3, <1>4, <1>5, <1>6, <1>7, <1>8, <1>9, <1>10, <1>11, <1>12
     DEF CallerStep, Step

\* A step of a caller preserves the whole invariant.
LEMMA CallerInv == ASSUME ConnInv, NEW c \in Callers, CallerStep(c) PROVE ConnInv'
<1>1. CallersTypeOK' /\ AttemptTypeOK'
  BY CallerKeepsCallersTypes, CallerKeepsAttemptTypes DEF ConnInv, Types
<1>2. ConnTypeOK'
  BY CallerKeepsConn DEF ConnInv, Types, ConnTypeOK
<1>3. RefsBalanced'
  BY CallerKeepsConn DEF ConnInv, SlotInv, RefsBalanced, B
<1>4. SlotAccounting'
  BY CallerKeepsConn DEF ConnInv, SlotInv, SlotAccounting
<1> QED
  BY <1>1, <1>2, <1>3, <1>4 DEF ConnInv, Types, SlotInv

-----------------------------------------------------------------------------
(* Steps of the Bluetooth host.                                             *)

\* finish_connect_attempt leaves well-typed values behind.
LEMMA FinishTypes ==
  ASSUME AttemptTypeOK, NEW err \in Errs, finish_connect_attempt(err)
  PROVE  /\ g_connecting' \in BOOLEAN /\ g_connect_err' \in Errs
         /\ g_ready_sem' \in {0, 1} /\ g_scan_timeout_work' \in BOOLEAN
<1>1. g_scan_timeout_work' \in BOOLEAN
  BY DEF finish_connect_attempt
<1>2. g_connecting' \in BOOLEAN /\ g_connect_err' \in Errs /\ g_ready_sem' \in {0, 1}
  BY DEF AttemptTypeOK, finish_connect_attempt, EndAttempt
<1> QED
  BY <1>1, <1>2

\* Starting a discovery, or failing to, leaves well-typed values behind.
LEMMA DiscoverTypes ==
  ASSUME AttemptTypeOK, NEW svc, NEW up, DiscoverOrFinish(svc, up)
  PROVE  /\ g_connecting' \in BOOLEAN /\ g_connect_err' \in Errs
         /\ g_ready_sem' \in {0, 1} /\ g_scan_timeout_work' \in BOOLEAN
<1>1. CASE UNCHANGED attemptVars
  BY <1>1 DEF AttemptTypeOK, attemptVars
<1>2. CASE finish_connect_attempt("EDRV")
  BY <1>2, FinishTypes DEF Errs
<1> QED
  BY <1>1, <1>2 DEF DiscoverOrFinish

\* The callbacks keep the types of the attempt's shared variables.
LEMMA HostKeepsAttemptTypes == ASSUME AttemptTypeOK, Host PROVE AttemptTypeOK'
<1> USE DEF attemptVars, scanVars
<1>1. ASSUME NEW addr \in Addrs, device_found(addr) PROVE AttemptTypeOK'
  BY <1>1 DEF AttemptTypeOK, device_found, bt_le_scan_stop
<1>2. CASE device_found_create
  BY <1>2 DEF AttemptTypeOK, device_found_create, EndAttempt, Errs
<1>3. CASE scan_timeout_handler
  BY <1>3 DEF AttemptTypeOK, scan_timeout_handler, bt_le_scan_stop
<1>4. CASE scan_timeout_finish
  BY <1>4, FinishTypes DEF AttemptTypeOK, scan_timeout_finish, Errs
<1>5. CASE connected
  BY <1>5, DiscoverTypes DEF AttemptTypeOK, connected, start_discovery
<1>6. CASE connected_err
  BY <1>6, FinishTypes DEF AttemptTypeOK, connected_err, Errs
<1>7. CASE gdio_discovered
  BY <1>7, DiscoverTypes DEF AttemptTypeOK, gdio_discovered, discover_keyturner_service
<1>8. CASE gdio_not_found
  BY <1>8, DiscoverTypes DEF AttemptTypeOK, gdio_not_found, discover_keyturner_service
<1>9. CASE usdio_discovered
  BY <1>9, FinishTypes DEF AttemptTypeOK, usdio_discovered, Errs
<1>10. CASE usdio_failed
  BY <1>10, FinishTypes DEF AttemptTypeOK, usdio_failed, Errs
<1>11. CASE LinkLost
  BY <1>11 DEF AttemptTypeOK, LinkLost
<1>12. CASE disconnected
  BY <1>12, FinishTypes DEF AttemptTypeOK, disconnected, Errs
<1> QED
  BY <1>1, <1>2, <1>3, <1>4, <1>5, <1>6, <1>7, <1>8, <1>9, <1>10, <1>11, <1>12 DEF Host

\* No callback touches a caller's program counter, the mutex or the pairing data.
LEMMA HostKeepsCallers == ASSUME Host PROVE UNCHANGED <<pc, op, g_op_lock, stored>>
  BY DEF Host, device_found, device_found_create, scan_timeout_handler,
     scan_timeout_finish, connected, connected_err, gdio_discovered, gdio_not_found,
     usdio_discovered, usdio_failed, LinkLost, disconnected, callerVars

\* Each callback moves the slot, the pointer, the flags, the discovery and the
\* reference count together.
LEMMA HostKeepsSlot ==
  ASSUME ConnTypeOK, SlotInv, Host
  PROVE  ConnTypeOK' /\ SlotInv'
<1> USE DEF SlotInv, SlotAccounting, connVars
<1>1. ASSUME NEW addr \in Addrs, device_found(addr) PROVE ConnTypeOK' /\ SlotInv'
  BY <1>1 DEF device_found, ConnTypeOK, RefsBalanced, B
<1>2. CASE device_found_create
  <2>1. ConnTypeOK' /\ SlotAccounting'
    <3>1. UNCHANGED <<discovering, g_gdio_ready, g_usdio_ready>>
      BY <1>2 DEF device_found_create
    <3>2. CASE link = "none" /\ g_conn' = TRUE /\ link' = "initiating"
      <4>1. ~g_gdio_ready /\ ~g_usdio_ready /\ discovering = "none"
        BY <3>2 DEF ConnTypeOK
      <4>2. ConnTypeOK'
        BY <3>1, <3>2 DEF ConnTypeOK
      <4> QED
        BY <3>1, <3>2, <4>1, <4>2 DEF ConnTypeOK
    <3>3. CASE UNCHANGED <<g_conn, link>>
      BY <3>1, <3>3 DEF ConnTypeOK
    <3> QED
      BY <1>2, <3>2, <3>3 DEF device_found_create, SlotFree
  <2>2. RefsBalanced'
    BY <1>2 DEF device_found_create, SlotFree, ConnTypeOK, RefsBalanced, B
  <2> QED
    BY <2>1, <2>2
<1>3. CASE scan_timeout_handler \/ scan_timeout_finish
  BY <1>3 DEF scan_timeout_handler, scan_timeout_finish, ConnTypeOK, RefsBalanced, B
<1>5. CASE connected
  <2>1. ConnTypeOK' /\ SlotAccounting'
    BY <1>5 DEF connected, start_discovery, DiscoverOrFinish, ConnTypeOK
  <2>2. RefsBalanced'
    BY <1>5 DEF connected, RefsBalanced, B
  <2> QED
    BY <2>1, <2>2
<1>6. CASE connected_err
  <2>1. ConnTypeOK' /\ SlotAccounting'
    BY <1>6 DEF connected_err, DropConn, ConnTypeOK
  <2>2. RefsBalanced'
    BY <1>6 DEF connected_err, DropConn, ConnTypeOK, RefsBalanced, B
  <2> QED
    BY <2>1, <2>2
<1>7. CASE gdio_discovered
  <2>1. ConnTypeOK' /\ SlotAccounting'
    BY <1>7 DEF gdio_discovered, TransportInitOK, discover_keyturner_service,
       DiscoverOrFinish, ConnTypeOK
  <2>2. RefsBalanced'
    BY <1>7 DEF gdio_discovered, TransportInitOK, TransportInitFails, ConnTypeOK,
       RefsBalanced, B
  <2> QED
    BY <2>1, <2>2
<1>8. CASE gdio_not_found
  <2>1. ConnTypeOK' /\ SlotAccounting'
    BY <1>8 DEF gdio_not_found, discover_keyturner_service, DiscoverOrFinish, ConnTypeOK
  <2>2. RefsBalanced'
    BY <1>8 DEF gdio_not_found, RefsBalanced, B
  <2> QED
    BY <2>1, <2>2
<1>9. CASE usdio_discovered
  <2>1. ConnTypeOK' /\ SlotAccounting'
    BY <1>9 DEF usdio_discovered, TransportInitOK, ConnTypeOK
  <2>2. RefsBalanced'
    BY <1>9 DEF usdio_discovered, TransportInitOK, TransportInitFails, ConnTypeOK,
       RefsBalanced, B
  <2> QED
    BY <2>1, <2>2
<1>10. CASE usdio_failed
  <2>1. ConnTypeOK' /\ SlotAccounting'
    BY <1>10 DEF usdio_failed, bt_conn_disconnect, ConnTypeOK
  <2>2. RefsBalanced'
    BY <1>10 DEF usdio_failed, RefsBalanced, B
  <2> QED
    BY <2>1, <2>2
<1>11. CASE LinkLost
  BY <1>11 DEF LinkLost, ConnTypeOK, RefsBalanced, B
<1>12. CASE disconnected
  <2>1. ConnTypeOK' /\ SlotAccounting'
    BY <1>12 DEF disconnected, DropConn, ConnTypeOK
  <2>2. RefsBalanced'
    BY <1>12 DEF disconnected, DropConn, Released, ConnTypeOK, RefsBalanced, B
  <2> QED
    BY <2>1, <2>2
<1> QED
  BY <1>1, <1>2, <1>3, <1>5, <1>6, <1>7, <1>8, <1>9, <1>10, <1>11, <1>12 DEF Host

\* A callback preserves the whole invariant.
LEMMA HostInv == ASSUME ConnInv, Host PROVE ConnInv'
  BY HostKeepsSlot, HostKeepsAttemptTypes, HostKeepsCallers
     DEF ConnInv, Types, CallersTypeOK

-----------------------------------------------------------------------------
(* The invariant, and the theorems.                                         *)

\* Every step preserves the invariant.
LEMMA NextInv == ConnInv /\ [Next]_vars => ConnInv'
<1> SUFFICES ASSUME ConnInv, [Next]_vars PROVE ConnInv'
  OBVIOUS
<1>1. CASE UNCHANGED vars
  <2> USE <1>1 DEF vars, callerVars, attemptVars, connVars, scanVars
  <2>1. Types'
    BY DEF ConnInv, Types, CallersTypeOK, AttemptTypeOK, ConnTypeOK
  <2>2. SlotInv'
    BY DEF ConnInv, SlotInv, RefsBalanced, SlotAccounting, B
  <2> QED
    BY <2>1, <2>2 DEF ConnInv
<1>2. CASE Next
  BY <1>2, CallerInv, HostInv DEF Next, CallerStep
<1> QED
  BY <1>1, <1>2

\* The invariant contains the three properties the runs check.
LEMMA InvImplies == ConnInv => TypeOK /\ RefsBalanced /\ SlotAccounting
<1> SUFFICES ASSUME ConnInv PROVE TypeOK
  BY DEF ConnInv, SlotInv
<1>1. conn_refs \in 0..3
  BY DEF ConnInv, SlotInv, RefsBalanced, Types, ConnTypeOK, B
<1> QED
  BY <1>1 DEF ConnInv, Types, TypeOK

\* The invariant holds in every reachable state.
LEMMA AlwaysConnInv == Spec => []ConnInv
<1>1. Init => ConnInv
  BY InitTypes, InitSlot DEF ConnInv
<1> QED
  BY <1>1, NextInv, PTL DEF Spec

\* Every reachable state is well typed; in particular the number of references
\* held on the single bt_conn never leaves 0..3.
THEOREM TypeCorrect == Spec => []TypeOK
  BY AlwaysConnInv, InvImplies, PTL

\* No path through the connection callbacks leaks a bt_conn reference or drops
\* one twice, whatever the callers, their priorities and the radio do.
THEOREM ReferencesBalance == Spec => []RefsBalanced
  BY AlwaysConnInv, InvImplies, PTL

\* g_conn, the ready flags and the running discovery always agree with the
\* state of the connection slot.
THEOREM SlotAgrees == Spec => []SlotAccounting
  BY AlwaysConnInv, InvImplies, PTL

-----------------------------------------------------------------------------
(* Refinement: the callers behind g_op_lock are an OperationServer.         *)

Outside == {"idle", "waitlock"}
Ph == [c \in Callers |-> PhaseOf(pc[c])]

\* g_op_lock belongs to the one caller that is inside an operation.
OwnerInv ==
  /\ pc \in [Callers -> Pcs]
  /\ \A c \in Callers : pc[c] \notin Outside => g_op_lock = c
  /\ g_op_lock # NoOne => g_op_lock \in Callers /\ pc[g_op_lock] \notin Outside

\* Between taking and releasing the mutex a caller stays inside its operation:
\* no error path leaves it without reaching the k_mutex_unlock at the end.
LEMMA InsideStaysInside ==
  ASSUME NEW c \in Callers, Step(c), ~Unlock(c)
  PROVE  /\ pc[c] \notin Outside /\ g_op_lock' = g_op_lock
         /\ \E x \in Pcs \ Outside : pc' = [pc EXCEPT ![c] = x]
<1> USE DEF Goto, Outside, Pcs
<1>1. CASE Begin(c) \/ Clear(c) \/ Arm(c) \/ ScanStart(c) \/ Schedule(c)
  BY <1>1 DEF Begin, Clear, Arm, ScanStart, Schedule
<1>2. CASE ConnectDone(c) \/ ConnectTimeout(c)
  BY <1>2 DEF ConnectDone, ConnectTimeout
<1>3. CASE GiveUp(c) \/ GiveUpStop(c) \/ GiveUpCheck(c) \/ GiveUpDisconnect(c)
  BY <1>3 DEF GiveUp, GiveUpStop, GiveUpCheck, GiveUpDisconnect
<1>4. CASE CheckReady(c) \/ Exchange(c) \/ SavePairing(c)
  BY <1>4 DEF CheckReady, Exchange, SavePairing
<1>5. CASE Disconnect(c) \/ DisconnectRequest(c) \/ DisconnectWait(c)
  BY <1>5 DEF Disconnect, DisconnectRequest, DisconnectWait
<1> QED
  BY <1>1, <1>2, <1>3, <1>4, <1>5 DEF Step

\* Starting an operation is asking the server.
LEMMA StartAsks ==
  ASSUME OwnerInv, NEW c \in Callers, NEW o, Start(c, o)
  PROVE  OwnerInv' /\ Server!Ask(c)
<1> USE DEF OwnerInv, Outside
<1>1. CASE g_op_lock = NoOne
  <2>1. pc[c] = "idle" /\ g_op_lock' = c /\ pc' = [pc EXCEPT ![c] = "begin"]
    BY <1>1 DEF Start
  <2>2. \A d \in Callers : pc[d] \in Outside
    BY <1>1, CallersAssumption
  <2>3. OwnerInv'
    BY <2>1, <2>2 DEF Pcs
  <2>4. Server!Active = {}
    BY <2>2 DEF Server!Active, PhaseOf
  <2> QED
    BY <2>1, <2>3, <2>4 DEF Server!Ask, PhaseOf
<1>2. CASE g_op_lock # NoOne
  <2>1. pc[c] = "idle" /\ g_op_lock' = g_op_lock /\ pc' = [pc EXCEPT ![c] = "waitlock"]
    BY <1>2 DEF Start
  <2>2. g_op_lock \in Callers /\ PhaseOf(pc[g_op_lock]) = "active"
    BY <1>2 DEF PhaseOf
  <2>3. OwnerInv'
    BY <2>1, <2>2 DEF Pcs
  <2>4. Server!Active # {}
    BY <2>2 DEF Server!Active
  <2> QED
    BY <2>1, <2>3, <2>4 DEF Server!Ask, PhaseOf
<1> QED
  BY <1>1, <1>2

\* Unlocking is finishing, or handing over.
LEMMA UnlockServes ==
  ASSUME OwnerInv, NEW c \in Callers, Unlock(c)
  PROVE  OwnerInv' /\ (Server!Finish(c) \/ \E w \in Callers : Server!HandOver(c, w))
<1> USE DEF OwnerInv, Outside
<1>1. pc[c] = "unlock" /\ g_op_lock = c
  BY DEF Unlock
<1>2. \A d \in Callers \ {c} : pc[d] \in Outside
  BY <1>1
<1>3. CASE Waiters = {} /\ g_op_lock' = NoOne /\ pc' = [pc EXCEPT ![c] = "idle"]
  <2>1. OwnerInv'
    BY <1>1, <1>2, <1>3 DEF Pcs
  <2>2. Server!Waiting = {}
    BY <1>3 DEF Server!Waiting, Waiters, PhaseOf
  <2> QED
    BY <1>1, <1>3, <2>1, <2>2 DEF Server!Finish, PhaseOf
<1>4. ASSUME NEW w \in NextOwners, g_op_lock' = w,
             pc' = [pc EXCEPT ![c] = "idle", ![w] = "begin"]
      PROVE  OwnerInv' /\ Server!HandOver(c, w)
  <2>1. w \in Callers /\ pc[w] = "waitlock" /\ w # c
    BY <1>1 DEF NextOwners, Waiters
  <2>2. OwnerInv'
    BY <1>1, <1>2, <1>4, <2>1 DEF Pcs
  <2> QED
    BY <1>1, <1>4, <2>1, <2>2 DEF Server!HandOver, PhaseOf
<1> QED
  BY <1>3, <1>4 DEF Unlock, NextOwners, Waiters

\* Every step of the callers and the host is one of the server's, or none.
LEMMA StepServes ==
  ASSUME OwnerInv, [Next]_vars
  PROVE  OwnerInv' /\ (Server!ServerNext \/ Ph' = Ph)
<1>1. ASSUME NEW c \in Callers, Step(c), ~Unlock(c) PROVE OwnerInv' /\ Ph' = Ph
  <2>1. PICK x \in Pcs \ Outside : pc' = [pc EXCEPT ![c] = x]
    BY <1>1, InsideStaysInside
  <2>2. pc[c] \notin Outside /\ g_op_lock' = g_op_lock
    BY <1>1, InsideStaysInside
  <2>3. OwnerInv'
    BY <2>1, <2>2 DEF OwnerInv
  <2>4. \A d \in Callers : PhaseOf(pc'[d]) = PhaseOf(pc[d])
    BY <2>1, <2>2 DEF OwnerInv, PhaseOf, Outside
  <2> QED
    BY <2>3, <2>4 DEF Ph
<1>2. ASSUME NEW c \in Callers, Unlock(c) PROVE OwnerInv' /\ Server!ServerNext
  BY <1>2, UnlockServes DEF Server!ServerNext
<1>3. ASSUME NEW c \in Callers, NEW o, Start(c, o) PROVE OwnerInv' /\ Server!ServerNext
  BY <1>3, StartAsks DEF Server!ServerNext
<1>4. CASE Host \/ UNCHANGED vars
  <2>1. UNCHANGED <<pc, g_op_lock>>
    BY <1>4, HostKeepsCallers DEF vars, callerVars
  <2> QED
    BY <2>1 DEF OwnerInv, Ph
<1> QED
  BY <1>1, <1>2, <1>3, <1>4 DEF Next

\* Whatever the callers, their priorities, the callbacks and the radio do, the
\* operations on the lock are served one at a time, and the mutex is never
\* left locked or free with a caller waiting.
THEOREM OneOperationAtATime == Spec => ImplementsServer
<1>1. Init => OwnerInv /\ Server!ServerInit
  <2> SUFFICES ASSUME Init PROVE OwnerInv /\ Server!ServerInit
    OBVIOUS
  <2>1. pc = [c \in Callers |-> "idle"] /\ g_op_lock = NoOne
    BY DEF Init
  <2>2. OwnerInv
    BY <2>1 DEF OwnerInv, Outside, Pcs
  <2>3. [c \in Callers |-> PhaseOf(pc[c])]
          = [c \in Callers |-> IF c \in {} THEN "active" ELSE "idle"]
    BY <2>1 DEF PhaseOf
  <2>4. {} \in SUBSET Callers /\ \A c, d \in {} : c = d
    OBVIOUS
  <2>5. Server!ServerInit
    BY <2>3, <2>4, Zenon DEF Server!ServerInit
  <2> QED
    BY <2>2, <2>5
<1>2. OwnerInv /\ [Next]_vars => OwnerInv' /\ [Server!ServerNext]_Ph
  BY StepServes
<1> QED
  BY <1>1, <1>2, PTL DEF Spec, ImplementsServer, Server!ServerSpec, Ph

-----------------------------------------------------------------------------
(* Cooperative callers.  A thread created with K_PRIO_COOP that is able to  *)
(* run keeps every callback away (CallbackMayRun), so what it tested is     *)
(* still so when it uses it.  This needs nothing of the other callers: they *)
(* may be preemptible.                                                      *)

\* Program counters at which a cooperative caller has the CPU.
LEMMA CoopKeepsCallbacksAway ==
  ASSUME NEW c \in CoopCallers, pc[c] \notin BlockedPcs
  PROVE  ~CallbackMayRun
  BY CallersAssumption DEF CallbackMayRun, Cooperative, Ready

\* Without CallbackMayRun the host can only lose the link.
LEMMA HostNeedsTheCpu ==
  ASSUME Host, ~CallbackMayRun
  PROVE  LinkLost
  BY DEF Host, device_found, device_found_create, scan_timeout_handler,
     scan_timeout_finish, connected, connected_err, gdio_discovered, gdio_not_found,
     usdio_discovered, usdio_failed, disconnected

\* A step of one caller moves another one only by handing it the mutex.
LEMMA OthersStandStill ==
  ASSUME pc \in [Callers -> Pcs], NEW c \in Callers, CallerStep(c),
         NEW d \in Callers \ {c}
  PROVE  pc'[d] = pc[d] \/ (pc[d] = "waitlock" /\ pc'[d] = "begin")
<1>1. CASE Unlock(c)
  BY <1>1 DEF Unlock, NextOwners, Waiters
<1>2. CASE Step(c) /\ ~Unlock(c)
  BY <1>2, InsideStaysInside
<1>3. CASE \E o \in OpsOf(c) : Start(c, o)
  BY <1>3 DEF Start
<1> QED
  BY <1>1, <1>2, <1>3 DEF CallerStep

\* Where a caller is about to use g_conn, in bt_conn_disconnect or in
\* bt_conn_get_dst, without another test.
Using == {"disc_req", "exp_disc", "save"}

\* A cooperative caller about to use g_conn has it.
LivePointer == \A c \in CoopCallers : pc[c] \in Using => g_conn

\* The way to a bt_conn_disconnect leads through the test of g_conn.
LEMMA DisconnectAfterTest ==
  ASSUME pc \in [Callers -> Pcs], NEW c \in Callers, CallerStep(c),
         pc'[c] \in {"disc_req", "exp_disc"}
  PROVE  g_conn
<1> USE DEF Goto
<1>1. CASE Unlock(c) \/ \E o \in OpsOf(c) : Start(c, o)
  BY <1>1 DEF Unlock, NextOwners, Waiters, Start
<1>2. CASE Begin(c) \/ Clear(c) \/ Arm(c) \/ ScanStart(c) \/ Schedule(c)
  BY <1>2 DEF Begin, Clear, Arm, ScanStart, Schedule
<1>3. CASE ConnectDone(c) \/ ConnectTimeout(c)
  BY <1>3 DEF ConnectDone, ConnectTimeout
<1>4. CASE GiveUp(c) \/ GiveUpStop(c) \/ GiveUpCheck(c) \/ GiveUpDisconnect(c)
  BY <1>4 DEF GiveUp, GiveUpStop, GiveUpCheck, GiveUpDisconnect
<1>5. CASE CheckReady(c) \/ Exchange(c) \/ SavePairing(c)
  BY <1>5 DEF CheckReady, Exchange, SavePairing
<1>6. CASE Disconnect(c) \/ DisconnectRequest(c) \/ DisconnectWait(c)
  BY <1>6 DEF Disconnect, DisconnectRequest, DisconnectWait
<1> QED
  BY <1>1, <1>2, <1>3, <1>4, <1>5, <1>6 DEF CallerStep, Step

\* nuki_pairing_run succeeds over an established link only, so its caller
\* reaches the save with g_conn set.
LEMMA SaveAfterExchange ==
  ASSUME ConnInv, NEW c \in Callers, CallerStep(c), pc'[c] = "save"
  PROVE  g_conn
<1> USE DEF Goto
<1>0. pc \in [Callers -> Pcs]
  BY DEF ConnInv, Types, CallersTypeOK
<1>1. CASE Exchange(c)
  BY <1>0, <1>1 DEF Exchange, connVars, ConnInv, SlotInv, SlotAccounting
<1>2. ~Unlock(c) /\ ~\E o \in OpsOf(c) : Start(c, o)
  BY <1>0 DEF Unlock, NextOwners, Waiters, Start
<1>3. ~Begin(c) /\ ~Clear(c) /\ ~Arm(c) /\ ~ScanStart(c) /\ ~Schedule(c)
  BY <1>0 DEF Begin, Clear, Arm, ScanStart, Schedule
<1>4. ~ConnectDone(c) /\ ~ConnectTimeout(c)
  BY <1>0 DEF ConnectDone, ConnectTimeout
<1>5. ~GiveUp(c) /\ ~GiveUpStop(c) /\ ~GiveUpCheck(c) /\ ~GiveUpDisconnect(c)
  BY <1>0 DEF GiveUp, GiveUpStop, GiveUpCheck, GiveUpDisconnect
<1>6. ~CheckReady(c) /\ ~SavePairing(c)
  BY <1>0 DEF CheckReady, SavePairing
<1>7. ~Disconnect(c) /\ ~DisconnectRequest(c) /\ ~DisconnectWait(c)
  BY <1>0 DEF Disconnect, DisconnectRequest, DisconnectWait
<1> QED
  BY <1>1, <1>2, <1>3, <1>4, <1>5, <1>6, <1>7 DEF CallerStep, Step

\* Between the test, or the handshake, and the use no callback runs and no
\* caller drops g_conn.
LEMMA PointerStep ==
  LivePointer /\ ConnInv /\ [Next]_vars => LivePointer'
<1> SUFFICES ASSUME LivePointer, ConnInv, [Next]_vars,
                    NEW c \in CoopCallers, pc'[c] \in Using
             PROVE  g_conn'
  BY DEF LivePointer
<1>1. c \in Callers /\ pc \in [Callers -> Pcs]
  BY CallersAssumption DEF ConnInv, Types, CallersTypeOK
<1>2. ASSUME NEW d \in Callers, CallerStep(d) PROVE g_conn'
  <2>1. CASE d = c
    BY <1>1, <1>2, <2>1, DisconnectAfterTest, SaveAfterExchange, CallerKeepsConn DEF Using
  <2>2. CASE d # c
    BY <1>1, <1>2, <2>2, OthersStandStill, CallerKeepsConn DEF LivePointer, Using
  <2> QED
    BY <2>1, <2>2
<1>3. CASE Host
  <2>1. pc[c] \in Using
    BY <1>3, HostKeepsCallers
  <2>2. LinkLost
    BY <1>3, <2>1, CoopKeepsCallbacksAway, HostNeedsTheCpu DEF BlockedPcs, Using
  <2> QED
    BY <2>1, <2>2 DEF LinkLost, LivePointer
<1>4. CASE UNCHANGED vars
  BY <1>4 DEF vars, callerVars, connVars, LivePointer
<1> QED
  BY <1>2, <1>3, <1>4 DEF Next, CallerStep

\* A cooperative caller about to use g_conn has it, in every state.
LEMMA AlwaysLivePointer == Spec => []LivePointer
<1>1. Init => LivePointer
  BY CallersAssumption DEF Init, LivePointer, Using
<1> QED
  BY <1>1, PointerStep, AlwaysConnInv, PTL DEF Spec

\* The g_conn that uart1 or the poller tested in disconnect_from_lock() or
\* connect_to_lock() is still there when it calls bt_conn_disconnect, however
\* many preemptible callers such as the shell there are beside it.
THEOREM CoopDisconnectsLiveLink == Spec => []NoNullDisconnect
<1>1. LivePointer => NoNullDisconnect
  BY DEF LivePointer, NoNullDisconnect, Using
<1> QED
  BY <1>1, AlwaysLivePointer, PTL

\* When a cooperative caller such as uart1 pairs, bt_conn_get_dst reads the
\* address of the lock, and that is what pair_locked() stores, even if the link
\* was lost at the end of the handshake and whoever else may pair.
THEOREM CoopPairingStoresTheLock == Spec => PairingStoresTheLock
<1> DEFINE Stores == \A c \in CoopCallers : pc[c] = "save" /\ pc'[c] # "save" => stored' = "lock"
<1>1. LivePointer /\ ConnInv /\ [Next]_vars => [Stores]_vars
  <2> SUFFICES ASSUME LivePointer, ConnInv, Next,
                      NEW c \in CoopCallers, pc[c] = "save", pc'[c] # "save"
               PROVE  stored' = "lock"
    OBVIOUS
  <2>1. c \in Callers /\ pc \in [Callers -> Pcs] /\ g_conn
    BY CallersAssumption DEF ConnInv, Types, CallersTypeOK, LivePointer, Using
  <2>2. CallerStep(c)
    BY <2>1, HostKeepsCallers, OthersStandStill DEF Next, CallerStep
  <2>3. SavePairing(c)
    BY <2>2 DEF CallerStep, Step, Goto, Start, Begin, Clear, Arm, ScanStart, Schedule,
       ConnectDone, ConnectTimeout, GiveUp, GiveUpStop, GiveUpCheck, GiveUpDisconnect,
       CheckReady, Exchange, Disconnect, DisconnectRequest, DisconnectWait, Unlock
  <2> QED
    BY <2>1, <2>3 DEF SavePairing
<1> QED
  BY <1>1, AlwaysLivePointer, AlwaysConnInv, PTL DEF Spec, PairingStoresTheLock

-----------------------------------------------------------------------------
(* The result of a connection attempt.                                      *)

Waiting == {"scan", "sched", "wait"}

\* From the k_sem_reset of connect_to_lock() to the start of the scan the
\* semaphore stays empty; after that a result that says "connected" comes
\* from a usdio_discovered() of this attempt.
FreshResult(c) ==
  /\ pc[c] \in {"clear", "arm"} => g_ready_sem = 0
  /\ pc[c] \in Waiting /\ g_ready_sem = 1 /\ g_connect_err = "OK" => ready_seen
  /\ pc[c] = "check" => ready_seen

CoopFreshResults == \A c \in CoopCallers : FreshResult(c)

\* A caller that waits for the mutex cannot touch the attempt of its owner.
LEMMA OutsidersOnlyStart ==
  ASSUME OwnerInv, NEW c \in Callers, pc[c] \notin Outside,
         NEW d \in Callers \ {c}, CallerStep(d)
  PROVE  /\ pc'[c] = pc[c]
         /\ UNCHANGED <<g_ready_sem, g_connect_err, g_connecting, ready_seen>>
<1>1. pc[d] \in Outside
  BY DEF OwnerInv
<1>2. ~Unlock(d)
  BY <1>1 DEF Unlock, Outside
<1>3. ~Step(d)
  BY <1>1, <1>2, InsideStaysInside
<1>4. PICK o \in OpsOf(d) : Start(d, o)
  BY <1>3 DEF CallerStep
<1> QED
  BY <1>4 DEF Start, attemptVars, OwnerInv

\* A caller's own steps keep its result fresh.
LEMMA OwnResult ==
  ASSUME pc \in [Callers -> Pcs], NEW c \in Callers, CallerStep(c), FreshResult(c)
  PROVE  FreshResult(c)'
<1> USE DEF Goto, FreshResult, Waiting, attemptVars
<1>1. CASE Unlock(c) \/ \E o \in OpsOf(c) : Start(c, o)
  BY <1>1 DEF Unlock, NextOwners, Waiters, Start
<1>2. CASE Begin(c)
  BY <1>2 DEF Begin, ResetReadySem
<1>3. CASE Clear(c) \/ Arm(c)
  BY <1>3 DEF Clear, Arm
<1>4. CASE ScanStart(c) \/ Schedule(c)
  BY <1>4 DEF ScanStart, Schedule
<1>5. CASE ConnectDone(c) \/ ConnectTimeout(c)
  BY <1>5 DEF ConnectDone, ConnectTimeout
<1>6. CASE GiveUp(c) \/ GiveUpStop(c) \/ GiveUpCheck(c) \/ GiveUpDisconnect(c)
  BY <1>6 DEF GiveUp, GiveUpStop, GiveUpCheck, GiveUpDisconnect
<1>7. CASE CheckReady(c) \/ Exchange(c) \/ SavePairing(c)
  BY <1>7 DEF CheckReady, Exchange, SavePairing
<1>8. CASE Disconnect(c) \/ DisconnectRequest(c) \/ DisconnectWait(c)
  BY <1>8 DEF Disconnect, DisconnectRequest, DisconnectWait
<1> QED
  BY <1>1, <1>2, <1>3, <1>4, <1>5, <1>6, <1>7, <1>8 DEF CallerStep, Step

\* What a callback does to the result: it leaves it alone, or it is the first
\* of its attempt to end it; and only usdio_discovered() ends it with 0.
LEMMA HostResult ==
  ASSUME Host
  PROVE  /\ \/ UNCHANGED <<g_ready_sem, g_connect_err, g_connecting>>
            \/ g_connecting /\ ~g_connecting' /\ g_ready_sem' = 1
               /\ (g_connect_err' = "OK" => ready_seen')
         /\ ready_seen => ready_seen'
<1> USE DEF finish_connect_attempt, EndAttempt, attemptVars
<1>1. CASE \E addr \in Addrs : device_found(addr)
  BY <1>1 DEF device_found
<1>2. CASE device_found_create
  BY <1>2 DEF device_found_create
<1>3. CASE scan_timeout_handler \/ scan_timeout_finish
  BY <1>3 DEF scan_timeout_handler, scan_timeout_finish
<1>4. CASE connected
  BY <1>4 DEF connected, start_discovery, DiscoverOrFinish
<1>5. CASE connected_err
  BY <1>5 DEF connected_err
<1>6. CASE gdio_discovered \/ gdio_not_found
  BY <1>6 DEF gdio_discovered, gdio_not_found, discover_keyturner_service, DiscoverOrFinish
<1>7. CASE usdio_discovered
  BY <1>7 DEF usdio_discovered
<1>8. CASE usdio_failed
  BY <1>8 DEF usdio_failed
<1>9. CASE LinkLost
  BY <1>9 DEF LinkLost
<1>10. CASE disconnected
  BY <1>10 DEF disconnected
<1> QED
  BY <1>1, <1>2, <1>3, <1>4, <1>5, <1>6, <1>7, <1>8, <1>9, <1>10 DEF Host

\* A callback does not run between the reset and the start of the scan, and
\* after it keeps the result honest.
LEMMA HostKeepsFresh ==
  ASSUME Host, NEW c \in CoopCallers, FreshResult(c)
  PROVE  FreshResult(c)'
<1>1. pc' = pc
  BY HostKeepsCallers
<1>2. CASE pc[c] \in {"clear", "arm"}
  <2>1. LinkLost
    BY <1>2, CoopKeepsCallbacksAway, HostNeedsTheCpu DEF BlockedPcs
  <2> QED
    BY <1>1, <1>2, <2>1 DEF LinkLost, attemptVars, FreshResult, Waiting
<1>3. CASE pc[c] \notin {"clear", "arm"}
  BY <1>1, <1>3, HostResult DEF FreshResult
<1> QED
  BY <1>2, <1>3

\* Every step keeps the results of the cooperative callers fresh.
LEMMA FreshStep ==
  CoopFreshResults /\ OwnerInv /\ [Next]_vars => CoopFreshResults'
<1> SUFFICES ASSUME OwnerInv, [Next]_vars, NEW c \in CoopCallers, FreshResult(c)
             PROVE  FreshResult(c)'
  BY DEF CoopFreshResults
<1>0. c \in Callers /\ pc \in [Callers -> Pcs]
  BY CallersAssumption DEF OwnerInv
<1>1. ASSUME NEW d \in Callers, CallerStep(d) PROVE FreshResult(c)'
  <2>1. CASE d = c
    BY <1>0, <1>1, <2>1, OwnResult
  <2>2. CASE d # c /\ pc[c] \notin Outside
    BY <1>0, <1>1, <2>2, OutsidersOnlyStart DEF FreshResult
  <2>3. CASE d # c /\ pc[c] \in Outside
    <3>1. pc'[c] \in {"idle", "waitlock", "begin"}
      BY <1>0, <1>1, <2>3, OthersStandStill DEF Outside
    <3> QED
      BY <3>1 DEF FreshResult, Waiting
  <2> QED
    BY <2>1, <2>2, <2>3
<1>2. CASE UNCHANGED vars
  BY <1>2 DEF vars, callerVars, attemptVars, FreshResult
<1> QED
  BY <1>1, <1>2, HostKeepsFresh DEF Next, CallerStep

\* g_op_lock belongs to the caller inside an operation, in every state.
LEMMA AlwaysOwned == Spec => []OwnerInv
<1>1. Init => OwnerInv
  BY DEF Init, OwnerInv, Outside, Pcs
<1>2. OwnerInv /\ [Next]_vars => OwnerInv'
  BY StepServes
<1> QED
  BY <1>1, <1>2, PTL DEF Spec

\* The cooperative callers' results are fresh in every state.
LEMMA AlwaysFresh == Spec => []CoopFreshResults
<1>1. Init => CoopFreshResults
  BY CallersAssumption DEF Init, CoopFreshResults, FreshResult, Waiting
<1> QED
  BY <1>1, FreshStep, AlwaysOwned, PTL DEF Spec

\* connect_to_lock() returns 0 to a cooperative caller only if the Keyturner
\* Service was discovered and subscribed to during that call, even after a
\* preemptible caller left g_connecting or the semaphore set behind.
THEOREM CoopSuccess == Spec => []SuccessIsReal
<1>1. CoopFreshResults => SuccessIsReal
  BY DEF CoopFreshResults, FreshResult, SuccessIsReal
<1> QED
  BY <1>1, AlwaysFresh, PTL

\* Where a caller that is inside an operation has the CPU and what it finds in
\* g_connecting and the semaphore may still be another caller's.
Undecided == {"begin", "clear", "arm", "unlock"}

\* Once a cooperative caller has armed its attempt, a result that has not been
\* taken belongs to an attempt that is over.
ResultEndsAttempt(c) ==
  pc[c] \notin Outside \cup Undecided /\ g_ready_sem = 1 => ~g_connecting

CoopResultsEnd == \A c \in CoopCallers : ResultEndsAttempt(c)

\* A cooperative caller sets g_connecting, or clears the result, only with the
\* semaphore empty.
LEMMA CallerKeepsResult ==
  ASSUME AttemptTypeOK, pc \in [Callers -> Pcs], NEW c \in Callers, CallerStep(c),
         FreshResult(c), ResultEndsAttempt(c)
  PROVE  /\ ResultEndsAttempt(c)'
         /\ g_ready_sem = 1 /\ g_ready_sem' = 1 => g_connect_err' = g_connect_err
<1> USE DEF Goto, FreshResult, ResultEndsAttempt, Outside, Undecided, attemptVars
<1>1. CASE Unlock(c) \/ \E o \in OpsOf(c) : Start(c, o)
  BY <1>1 DEF Unlock, NextOwners, Waiters, Start
<1>2. CASE Begin(c) \/ Clear(c) \/ Arm(c)
  BY <1>2 DEF Begin, Clear, Arm, ResetReadySem
<1>3. CASE ScanStart(c) \/ Schedule(c)
  BY <1>3 DEF ScanStart, Schedule
<1>4. CASE ConnectDone(c) \/ ConnectTimeout(c)
  BY <1>4 DEF ConnectDone, ConnectTimeout
<1>5. CASE GiveUp(c) \/ GiveUpStop(c) \/ GiveUpCheck(c) \/ GiveUpDisconnect(c)
  BY <1>5 DEF GiveUp, GiveUpStop, GiveUpCheck, GiveUpDisconnect
<1>6. CASE CheckReady(c) \/ Exchange(c) \/ SavePairing(c)
  BY <1>6 DEF CheckReady, Exchange, SavePairing
<1>7. CASE Disconnect(c) \/ DisconnectRequest(c) \/ DisconnectWait(c)
  BY <1>7 DEF Disconnect, DisconnectRequest, DisconnectWait
<1> QED
  BY <1>1, <1>2, <1>3, <1>4, <1>5, <1>6, <1>7 DEF CallerStep, Step

\* A callback leaves the result of a cooperative owner alone: it cannot run,
\* or it finds the attempt over.
LEMMA HostKeepsResult ==
  ASSUME Host, NEW c \in CoopCallers, pc[c] \notin Outside, ResultEndsAttempt(c)
  PROVE  /\ ResultEndsAttempt(c)'
         /\ g_ready_sem = 1 /\ g_ready_sem' = 1 => g_connect_err' = g_connect_err
<1>1. pc' = pc
  BY HostKeepsCallers
<1>2. CASE pc[c] \in Undecided
  <2>1. LinkLost
    BY <1>2, CoopKeepsCallbacksAway, HostNeedsTheCpu DEF BlockedPcs, Undecided
  <2> QED
    BY <1>1, <1>2, <2>1 DEF LinkLost, attemptVars, ResultEndsAttempt
<1>3. CASE pc[c] \notin Undecided
  BY <1>1, <1>3, HostResult DEF ResultEndsAttempt
<1> QED
  BY <1>2, <1>3

\* While a cooperative caller is inside an operation, a recorded result stands
\* until it has been consumed: no late callback of any attempt, not even of one
\* that a preemptible caller has abandoned, replaces it.
THEOREM CoopResultStands == Spec => ResultNotClobbered
<1> DEFINE Kept == g_ready_sem = 1 /\ g_ready_sem' = 1 /\ g_op_lock \in CoopCallers
                     => g_connect_err' = g_connect_err
           Inv == CoopFreshResults /\ OwnerInv /\ ConnInv
<1>1. Init => CoopResultsEnd
  BY DEF Init, CoopResultsEnd, ResultEndsAttempt
<1>2. CoopResultsEnd /\ Inv /\ [Next]_vars => CoopResultsEnd'
  <2> SUFFICES ASSUME CoopResultsEnd, Inv, [Next]_vars, NEW c \in CoopCallers
               PROVE  ResultEndsAttempt(c)'
    BY DEF CoopResultsEnd
  <2>0. /\ c \in Callers /\ pc \in [Callers -> Pcs] /\ AttemptTypeOK
        /\ FreshResult(c) /\ ResultEndsAttempt(c)
    BY CallersAssumption DEF OwnerInv, ConnInv, Types, CoopFreshResults, CoopResultsEnd
  <2>1. ASSUME NEW d \in Callers, CallerStep(d) PROVE ResultEndsAttempt(c)'
    <3>1. CASE d = c
      BY <2>0, <2>1, <3>1, CallerKeepsResult
    <3>2. CASE d # c /\ pc[c] \notin Outside
      BY <2>0, <2>1, <3>2, OutsidersOnlyStart DEF ResultEndsAttempt
    <3>3. CASE d # c /\ pc[c] \in Outside
      BY <2>0, <2>1, <3>3, OthersStandStill DEF ResultEndsAttempt, Outside, Undecided
    <3> QED
      BY <3>1, <3>2, <3>3
  <2>2. CASE Host
    BY <2>0, <2>2, HostKeepsResult, HostKeepsCallers DEF ResultEndsAttempt
  <2>3. CASE UNCHANGED vars
    BY <2>0, <2>3 DEF vars, callerVars, attemptVars, ResultEndsAttempt
  <2> QED
    BY <2>1, <2>2, <2>3 DEF Next, CallerStep
<1>3. CoopResultsEnd /\ Inv /\ [Next]_vars => [Kept]_vars
  <2> SUFFICES ASSUME CoopResultsEnd, Inv, Next, g_op_lock \in CoopCallers,
                      g_ready_sem = 1, g_ready_sem' = 1
               PROVE  g_connect_err' = g_connect_err
    OBVIOUS
  <2> DEFINE c == g_op_lock
  <2>0. /\ c \in Callers /\ pc \in [Callers -> Pcs] /\ AttemptTypeOK
        /\ FreshResult(c) /\ ResultEndsAttempt(c) /\ pc[c] \notin Outside
    BY CallersAssumption DEF OwnerInv, ConnInv, Types, CoopFreshResults, CoopResultsEnd
  <2>1. ASSUME NEW d \in Callers, CallerStep(d) PROVE g_connect_err' = g_connect_err
    <3>1. CASE d = c
      BY <2>0, <2>1, <3>1, CallerKeepsResult
    <3>2. CASE d # c
      BY <2>0, <2>1, <3>2, OutsidersOnlyStart
    <3> QED
      BY <3>1, <3>2
  <2>2. CASE Host
    BY <2>0, <2>2, HostKeepsResult
  <2> QED
    BY <2>1, <2>2 DEF Next, CallerStep
<1> QED
  BY <1>1, <1>2, <1>3, AlwaysFresh, AlwaysOwned, AlwaysConnInv, PTL
  DEF Spec, ResultNotClobbered
=============================================================================
