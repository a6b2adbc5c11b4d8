-------------------------- MODULE NukiCommand_proofs --------------------------
(***************************************************************************)
(* Proofs about a command over the transport, for every buffer size,      *)
(* header and ciphertext length, drain limit and either kind of caller.   *)
(***************************************************************************)
EXTENDS NukiCommand, SequenceTheorems, TLAPS

Units == Kinds \X (0..1) \X Nat

CommandTypeOK ==
  /\ rx_buf \in Seq(Units) /\ lock_out \in Seq(Units)
  /\ lock_n \in 0..1 /\ min_len \in Nat
  /\ rx_sem \in 0..1 /\ write_sem \in 0..1

\* Both waits of recv_encrypted ask for at least a header.
AtLeastHeader == HDR <= min_len

BufferInv == CommandTypeOK /\ AtLeastHeader /\ RxBufferInBounds /\ TransportAssertions

\* Where a request can still be in flight.
WriteInv ==
  /\ write_sem = 1 => in_flight = "none"
  /\ pc \notin {"writing", "done"} => in_flight = "none"

\* Everything that says COMPLETE comes from a lock that has completed.
CompleteInv ==
  /\ \A i \in 1..Len(rx_buf) : rx_buf[i][1] = "COMPLETE" => lock_done
  /\ \A i \in 1..Len(lock_out) : lock_out[i][1] = "COMPLETE" => lock_done
  /\ taken = "COMPLETE" => lock_done
  /\ phase = "state" => op = "get_state"
  /\ SuccessMeansCompleted

-----------------------------------------------------------------------------
(* Messages.                                                                *)

\* The lengths a header announces are natural numbers.
LEMMA CtLenNat == \A k \in Kinds : CtLen[k] \in Nat
  BY CommandAssumption DEF Kinds, CtLen

\* A message of the lock is a sequence of units of its kind.
LEMMA MessageSeq ==
  ASSUME NEW k \in Kinds, NEW n \in 0..1
  PROVE  /\ Message(k, n) \in Seq(Units)
         /\ \A i \in 1..Len(Message(k, n)) : Message(k, n)[i][1] = k
<1> DEFINE len == IF k = "LONG" THEN HDR ELSE HDR + CtLen[k]
<1>1. len \in Nat
  BY CtLenNat, CommandAssumption
<1>2. Message(k, n) = [i \in 1..len |-> <<k, n, i>>]
  BY DEF Message
<1>3. Message(k, n) \in [1..len -> Units]
  BY <1>2 DEF Units
<1> HIDE DEF len
<1>4. Message(k, n) \in Seq(Units)
  BY <1>1, <1>3, SeqDef
<1>5. Len(Message(k, n)) = len
  BY <1>1, <1>3, <1>4, LenProperties
<1>6. ASSUME NEW i \in 1..len PROVE Message(k, n)[i][1] = k
  <2>1. Message(k, n)[i] = <<k, n, i>>
    BY <1>2, Zenon
  <2>2. QED
    BY <2>1
<1>7. QED
  BY <1>4, <1>5, <1>6

\* What an indication leaves in the buffer: no less than before, never more
\* than fits, and nothing but units of the indication behind the old ones.
LEMMA CopyEffect ==
  ASSUME NEW units \in Seq(Units), rx_buf \in Seq(Units), RxBufferInBounds
  PROVE  /\ Copy(units) \in Seq(Units)
         /\ Len(Copy(units)) <= RX_BUF /\ Len(Copy(units)) >= rx_len
         /\ \A i \in 1..Len(Copy(units)) :
              \/ i \in 1..rx_len /\ Copy(units)[i] = rx_buf[i]
              \/ \E j \in 1..Len(units) : Copy(units)[i] = units[j]
<1> DEFINE space == RX_BUF - rx_len
           n == IF Len(units) < space THEN Len(units) ELSE space
           s == SubSeq(units, 1, n)
<1>1. n \in Nat /\ n <= Len(units) /\ n <= space
  BY RxBufAssumption DEF RxBufferInBounds, rx_len
<1>3. Copy(units) = rx_buf \o s
  BY DEF Copy
<1> HIDE DEF n, space
<1>2. s \in Seq(Units) /\ Len(s) = n /\ \A j \in 1..n : s[j] = units[j]
  BY <1>1, SubSeqProperties
<1> HIDE DEF s
<1>4. Copy(units) \in Seq(Units) /\ Len(Copy(units)) = rx_len + n
  BY <1>2, <1>3, ConcatProperties DEF rx_len
<1>5. \A i \in 1..(rx_len + n) :
        \/ i \in 1..rx_len /\ Copy(units)[i] = rx_buf[i]
        \/ i - rx_len \in 1..n /\ Copy(units)[i] = s[i - rx_len]
  BY <1>1, <1>2, <1>3 DEF rx_len
<1>6. rx_len \in Nat /\ n <= RX_BUF - rx_len
  BY <1>1 DEF space, rx_len
<1>7. Len(Copy(units)) <= RX_BUF /\ Len(Copy(units)) >= rx_len
  BY <1>1, <1>4, <1>6, RxBufAssumption
<1>8. \A i \in 1..Len(Copy(units)) :
        \/ i \in 1..rx_len /\ Copy(units)[i] = rx_buf[i]
        \/ \E j \in 1..Len(units) : Copy(units)[i] = units[j]
  <2>1. SUFFICES ASSUME NEW i \in 1..(rx_len + n),
                        i - rx_len \in 1..n, Copy(units)[i] = s[i - rx_len]
                 PROVE  \E j \in 1..Len(units) : Copy(units)[i] = units[j]
    BY <1>4, <1>5
  <2>2. i - rx_len \in 1..Len(units)
    BY <1>1, <2>1
  <2>3. QED
    BY <1>2, <2>1, <2>2
<1>9. QED
  BY <1>4, <1>7, <1>8

\* The rest of a message after an indication, and the indication itself.
LEMMA Split ==
  ASSUME NEW s \in Seq(Units), NEW m \in 1..Len(s)
  PROVE  /\ SubSeq(s, 1, m) \in Seq(Units)
         /\ SubSeq(s, m + 1, Len(s)) \in Seq(Units)
         /\ \A j \in 1..Len(SubSeq(s, 1, m)) : \E i \in 1..Len(s) : SubSeq(s, 1, m)[j] = s[i]
         /\ \A j \in 1..Len(SubSeq(s, m + 1, Len(s))) :
              \E i \in 1..Len(s) : SubSeq(s, m + 1, Len(s))[j] = s[i]
  OBVIOUS

-----------------------------------------------------------------------------
(* The buffer.                                                              *)

\* The reassembly buffer's invariant holds after nuki_transport_init.
LEMMA BufferInit == Init => BufferInv
<1> SUFFICES ASSUME Init PROVE BufferInv
  OBVIOUS
<1>1. CommandTypeOK
  BY CommandAssumption DEF Init, TransportInit, CommandTypeOK
<1>2. AtLeastHeader /\ RxBufferInBounds /\ TransportAssertions
  BY CommandAssumption, RxBufAssumption
     DEF Init, TransportInit, AtLeastHeader, RxBufferInBounds, TransportAssertions, rx_len
<1>3. QED
  BY <1>1, <1>2 DEF BufferInv

\* Every notification, reset and decode keeps rx_len inside rx_buf.
LEMMA BufferStep == BufferInv /\ [Next]_vars => BufferInv'
<1> SUFFICES ASSUME BufferInv, [Next]_vars PROVE BufferInv'
  OBVIOUS
<1> USE CommandAssumption, RxBufAssumption
    DEF BufferInv, CommandTypeOK, AtLeastHeader, RxBufferInBounds, TransportAssertions,
        rx_len, transportVars, lockVars, Goto, Return
<1>1. CASE Send
  BY <1>1 DEF Send, WriteStart
<1>2. CASE Written
  BY <1>2 DEF Written, AfterWrite
<1>3. CASE WriteTimeout
  BY <1>3 DEF WriteTimeout
<1>4. CASE Check
  BY <1>4 DEF Check, Enough, AfterWait
<1>5. CASE Wake
  BY <1>5 DEF Wake, SemTaken
<1>6. CASE WaitTimeout
  BY <1>6 DEF WaitTimeout
<1>7. CASE LastCheck
  BY <1>7 DEF LastCheck, Enough, AfterWait
<1>8. CASE Header
  <2>1. UNCHANGED <<rx_buf, lock_out, lock_n, rx_sem, write_sem>>
        /\ pc' \in {"reset", "check"}
    BY <1>8 DEF Header
  <2>2. min_len' = min_len \/ \E ct_len \in HeaderLens : ~Implausible(ct_len) /\ min_len' = HDR + ct_len
    BY <1>8 DEF Header
  <2>3. HeaderLens \subseteq Nat
    <3>1. CASE \E k \in Kinds, n \in 0..1 :
                 SubSeq(rx_buf, 1, HDR) = SubSeq(Message(k, n), 1, HDR)
      <4>1. pc = "header" /\ Len(rx_buf) >= 1
        BY <1>8 DEF Header
      <4>2. rx_buf[1] \in Units
        BY <4>1
      <4>3. rx_buf[1][1] \in Kinds
        BY <4>2 DEF Units
      <4>4. HeaderLens = {CtLen[rx_buf[1][1]]}
        BY <3>1 DEF HeaderLens
      <4>5. QED
        BY <4>3, <4>4, CtLenNat
    <3>2. CASE ~ \E k \in Kinds, n \in 0..1 :
                 SubSeq(rx_buf, 1, HDR) = SubSeq(Message(k, n), 1, HDR)
      <4>1. HeaderLens = 0..(MAX_CT + 1)
        BY <3>2 DEF HeaderLens
      <4>2. QED
        BY <4>1
    <3>3. QED
      BY <3>1, <3>2
  <2>4. min_len' \in Nat /\ HDR <= min_len' /\ min_len' <= RX_BUF
    BY <2>2, <2>3 DEF Implausible
  <2>5. QED
    BY <2>1, <2>4
<1>9. CASE Peek
  BY <1>9 DEF Peek
<1>10. CASE ResetLen
  BY <1>10 DEF ResetLen, ResetRxLen
<1>11. CASE ResetSem
  BY <1>11 DEF ResetSem, ResetRxSem
<1>12. CASE Decode
  <2>1. UNCHANGED <<rx_buf, lock_out, lock_n, rx_sem, write_sem>>
    BY <1>12 DEF Decode
  <2>2. pc' \in {"done", "check", "send"} /\ min_len' \in {min_len, HDR}
    BY <1>12 DEF Decode, Drain, Answer, NextMessage
  <2>3. QED
    BY <2>1, <2>2
<1>13. CASE Reconnect
  BY <1>13 DEF Reconnect, nuki_transport_init
<1>14. CASE Deliver
  BY <1>14 DEF Deliver, WriteDelivered, callerVars
<1>15. CASE WriteCallback
  BY <1>15 DEF WriteCallback, write_cb, callerVars
<1>16. CASE LockSays
  <2>1. PICK k \in Replies : lock_out' = Message(k, lock_n)
    BY <1>16 DEF LockSays
  <2>2. k \in Kinds
    BY <2>1 DEF Replies, Kinds, CtLen
  <2>3. lock_out' \in Seq(Units)
    BY <2>1, <2>2, MessageSeq
  <2>4. UNCHANGED <<rx_buf, rx_sem, write_sem, pc, min_len>> /\ lock_n' = (lock_n + 1) % 2
    BY <1>16 DEF LockSays, callerVars
  <2>5. QED
    BY <2>3, <2>4
<1>17. CASE Indicate
  <2>1. PICK m \in 1..Len(lock_out) :
          /\ rx_buf' = Copy(SubSeq(lock_out, 1, m)) /\ rx_sem' = 1
          /\ lock_out' = SubSeq(lock_out, m + 1, Len(lock_out))
    BY <1>17 DEF Indicate, notify_cb
  <2>2. SubSeq(lock_out, 1, m) \in Seq(Units) /\ lock_out' \in Seq(Units)
    BY <2>1, Split
  <2>3. rx_buf' \in Seq(Units) /\ Len(rx_buf') <= RX_BUF /\ Len(rx_buf') >= Len(rx_buf)
    BY <2>1, <2>2, CopyEffect
  <2>4. UNCHANGED <<write_sem, pc, min_len, lock_n>>
    BY <1>17 DEF Indicate, notify_cb, callerVars
  <2>5. QED
    BY <2>1, <2>2, <2>3, <2>4
<1>18. CASE UNCHANGED vars
  BY <1>18 DEF vars, callerVars
<1>19. QED
  BY <1>1, <1>2, <1>3, <1>4, <1>5, <1>6, <1>7, <1>8, <1>9, <1>10, <1>11, <1>12, <1>13,
     <1>14, <1>15, <1>16, <1>17, <1>18 DEF Next, CallerStep

\* However much the lock sends and however it is split, notify_cb stays inside
\* rx_buf.
THEOREM ReassemblyInBounds == Spec => []RxBufferInBounds
<1>1. BufferInv => RxBufferInBounds
  BY DEF BufferInv
<1>2. QED
  BY BufferInit, BufferStep, <1>1, PTL DEF Spec

\* The assertions of nuki_transport.c never fail: no wait asks for more than
\* the buffer holds, and no peek for more than has arrived.
THEOREM AssertionsHold == Spec => []TransportAssertions
<1>1. BufferInv => TransportAssertions
  BY DEF BufferInv
<1>2. QED
  BY BufferInit, BufferStep, <1>1, PTL DEF Spec

-----------------------------------------------------------------------------
(* Waiting and writing.                                                     *)

\* No step lets rx_len reach the awaited length with rx_sem left untaken.
LEMMA WakeupStep == NoLostWakeup /\ [Next]_vars => NoLostWakeup'
<1> SUFFICES ASSUME NoLostWakeup, [Next]_vars PROVE NoLostWakeup'
  OBVIOUS
<1> USE DEF NoLostWakeup, Enough, rx_len, transportVars, callerVars
<1>1. CASE Check
  BY <1>1 DEF Check, Goto, AfterWait
<1>2. CASE Send \/ Written \/ WriteTimeout \/ Wake \/ WaitTimeout
  BY <1>2 DEF Send, Written, AfterWrite, WriteTimeout, Wake, WaitTimeout, Goto, Return
<1>3. CASE LastCheck
  BY <1>3 DEF LastCheck, AfterWait, Return
<1>4. CASE Header \/ Peek \/ ResetLen \/ ResetSem
  BY <1>4 DEF Header, Peek, ResetLen, ResetSem, Goto
<1>5. CASE Decode
  BY <1>5 DEF Decode, Drain, Answer, NextMessage, Return
<1>6. CASE Reconnect
  BY <1>6 DEF Reconnect
<1>7. CASE Deliver \/ WriteCallback \/ LockSays
  BY <1>7 DEF Deliver, WriteDelivered, WriteCallback, write_cb, LockSays
<1>8. CASE Indicate
  BY <1>8 DEF Indicate, notify_cb
<1>9. CASE UNCHANGED vars
  BY <1>9 DEF vars
<1>10. QED
  BY <1>1, <1>2, <1>3, <1>4, <1>5, <1>6, <1>7, <1>8, <1>9 DEF Next, CallerStep

\* nuki_transport_wait_min never sleeps through the indication that completes
\* its message, although the buffer and the semaphore are reset separately.
THEOREM WakeupNotLost == Spec => []NoLostWakeup
<1>1. Init => NoLostWakeup
  BY DEF Init, NoLostWakeup
<1>2. QED
  BY <1>1, WakeupStep, PTL DEF Spec

\* No step starts a write while an earlier one is still outstanding.
LEMMA WriteInvStep == WriteInv /\ [Next]_vars => WriteInv'
<1> SUFFICES ASSUME WriteInv, [Next]_vars PROVE WriteInv'
  OBVIOUS
<1> USE DEF WriteInv, transportVars, callerVars
<1>1. CASE Send
  BY <1>1 DEF Send, WriteStart, Goto, Return
<1>2. CASE Written
  BY <1>2 DEF Written, AfterWrite, Return
<1>3. CASE WriteTimeout
  BY <1>3 DEF WriteTimeout, Return
<1>4. CASE Check \/ Wake \/ WaitTimeout \/ LastCheck
  BY <1>4 DEF Check, Wake, SemTaken, WaitTimeout, LastCheck, AfterWait, Goto, Return
<1>5. CASE Header \/ Peek \/ ResetLen \/ ResetSem
  BY <1>5 DEF Header, Peek, ResetLen, ResetRxLen, ResetSem, ResetRxSem, Goto
<1>6. CASE Decode
  BY <1>6 DEF Decode, Drain, Answer, NextMessage, Return
<1>7. CASE Reconnect
  BY <1>7 DEF Reconnect, nuki_transport_init
<1>8. CASE Deliver
  BY <1>8 DEF Deliver, WriteDelivered
<1>9. CASE WriteCallback
  BY <1>9 DEF WriteCallback, write_cb
<1>10. CASE LockSays \/ Indicate
  BY <1>10 DEF LockSays, Indicate, notify_cb
<1>11. CASE UNCHANGED vars
  BY <1>11 DEF vars
<1>12. QED
  BY <1>1, <1>2, <1>3, <1>4, <1>5, <1>6, <1>7, <1>8, <1>9, <1>10, <1>11 DEF Next, CallerStep

\* nuki_transport_write is never called with the previous request still in
\* flight, so write_params and write_sem always belong to one request.
THEOREM WritesDoNotOverlap == Spec => []OneWriteInFlight
<1>1. Init => WriteInv
  BY DEF Init, TransportInit, WriteInv
<1>2. WriteInv => OneWriteInFlight
  BY DEF WriteInv, OneWriteInFlight
<1>3. QED
  BY <1>1, <1>2, WriteInvStep, PTL DEF Spec

-----------------------------------------------------------------------------
(* Success.                                                                 *)

\* No step reports success for an action before a terminal status was decoded.
LEMMA CompleteStep == BufferInv /\ CompleteInv /\ [Next]_vars => CompleteInv'
<1> SUFFICES ASSUME BufferInv, CompleteInv, [Next]_vars PROVE CompleteInv'
  OBVIOUS
<1> USE DEF CompleteInv, SuccessMeansCompleted, transportVars, callerVars, lockVars
<1>1. CASE Send \/ Written \/ WriteTimeout
  BY <1>1 DEF Send, WriteStart, Written, AfterWrite, WriteTimeout, Goto, Return
<1>2. CASE Check \/ Wake \/ WaitTimeout \/ LastCheck
  BY <1>2 DEF Check, Wake, SemTaken, WaitTimeout, LastCheck, Goto, Return
<1>3. CASE Header
  BY <1>3 DEF Header
<1>4. CASE Peek
  <2>1. min_len \in Nat /\ min_len >= 1 /\ Len(rx_buf) >= min_len /\ rx_buf \in Seq(Units)
    BY <1>4, CommandAssumption
       DEF Peek, Goto, BufferInv, CommandTypeOK, AtLeastHeader, TransportAssertions, rx_len
  <2>2. SubSeq(rx_buf, 1, min_len)[1] = rx_buf[1]
    BY <2>1
  <2>3. taken' \in {rx_buf[1][1], "BAD"}
    BY <1>4, <2>2 DEF Peek, Decoded
  <2>4. taken' = "COMPLETE" => lock_done
    BY <2>1, <2>3
  <2>5. QED
    BY <1>4, <2>4 DEF Peek
<1>5. CASE ResetLen
  BY <1>5 DEF ResetLen, ResetRxLen
<1>6. CASE ResetSem
  BY <1>6 DEF ResetSem, ResetRxSem
<1>7. CASE Decode
  <2>1. UNCHANGED <<rx_buf, op, lock_out, lock_done>> /\ taken' = "none"
    BY <1>7 DEF Decode
  <2>2. phase' = "state" => phase = "state"
    BY <1>7 DEF Decode, Drain, Answer
  <2>3. result' = "OK" => result = "OK" \/ taken = "COMPLETE" \/ phase = "state"
    BY <1>7 DEF Decode, Drain, Answer, IsTerminal, Return
  <2>4. QED
    BY <2>1, <2>2, <2>3
<1>8. CASE Reconnect
  BY <1>8 DEF Reconnect, nuki_transport_init, FirstPhase, Ops
<1>9. CASE Deliver
  BY <1>9 DEF Deliver, WriteDelivered
<1>10. CASE WriteCallback
  BY <1>10 DEF WriteCallback, write_cb
<1>11. CASE LockSays
  <2>1. PICK k \in Replies : /\ lock_out' = Message(k, lock_n)
                             /\ lock_done' = (lock_done \/ k = "COMPLETE")
    BY <1>11 DEF LockSays
  <2>2. k \in Kinds /\ lock_n \in 0..1
    BY <2>1 DEF Replies, Kinds, CtLen, BufferInv, CommandTypeOK
  <2>3. \A i \in 1..Len(lock_out') : lock_out'[i][1] = k
    BY <2>1, <2>2, MessageSeq
  <2>4. UNCHANGED <<rx_buf, taken, phase, op, result>>
    BY <1>11 DEF LockSays
  <2>5. QED
    BY <2>1, <2>3, <2>4
<1>12. CASE Indicate
  <2>1. PICK m \in 1..Len(lock_out) :
          /\ rx_buf' = Copy(SubSeq(lock_out, 1, m))
          /\ lock_out' = SubSeq(lock_out, m + 1, Len(lock_out))
    BY <1>12 DEF Indicate, notify_cb
  <2> DEFINE part == SubSeq(lock_out, 1, m)
  <2>2. UNCHANGED <<taken, phase, op, result, lock_done>>
    BY <1>12 DEF Indicate
  <2>3. lock_out \in Seq(Units) /\ rx_buf \in Seq(Units) /\ RxBufferInBounds
    BY DEF BufferInv, CommandTypeOK
  <2>4. part \in Seq(Units) /\ \A j \in 1..Len(part) : part[j][1] = "COMPLETE" => lock_done
    <3>1. /\ part \in Seq(Units)
          /\ \A j \in 1..Len(part) : \E i \in 1..Len(lock_out) : part[j] = lock_out[i]
      BY <2>3, Split
    <3> HIDE DEF part
    <3>2. ASSUME NEW j \in 1..Len(part), part[j][1] = "COMPLETE" PROVE lock_done
      <4>1. PICK i \in 1..Len(lock_out) : part[j] = lock_out[i]
        BY <3>1
      <4>2. lock_out[i][1] = "COMPLETE"
        BY <3>2, <4>1
      <4>3. QED
        BY <4>2
    <3>3. QED
      BY <3>1, <3>2
  <2>5. \A i \in 1..Len(lock_out') : lock_out'[i][1] = "COMPLETE" => lock_done
    BY <2>1, <2>3, Split
  <2> HIDE DEF part
  <2>6. \A i \in 1..Len(Copy(part)) :
              \/ i \in 1..rx_len /\ Copy(part)[i] = rx_buf[i]
              \/ \E j \in 1..Len(part) : Copy(part)[i] = part[j]
    BY <2>3, <2>4, CopyEffect
  <2>7. \A i \in 1..Len(Copy(part)) : Copy(part)[i][1] = "COMPLETE" => lock_done
    BY <2>4, <2>6 DEF rx_len
  <2>8. rx_buf' = Copy(part)
    BY <2>1 DEF part
  <2>9. \A i \in 1..Len(rx_buf') : rx_buf'[i][1] = "COMPLETE" => lock_done
    BY <2>7, <2>8, Zenon
  <2>10. QED
    BY <2>2, <2>5, <2>9, Zenon
<1>13. CASE UNCHANGED vars
  BY <1>13 DEF vars
<1>14. QED
  BY <1>1, <1>2, <1>3, <1>4, <1>5, <1>6, <1>7, <1>8, <1>9, <1>10, <1>11, <1>12, <1>13
     DEF Next, CallerStep

\* nuki_command_lock_action and nuki_command_calibrate return 0 only if the
\* lock has reported completion on this connection.
THEOREM SuccessIsCompletion == Spec => []SuccessMeansCompleted
<1>1. Init => CompleteInv
  BY DEF Init, TransportInit, CompleteInv, SuccessMeansCompleted, FirstPhase, Ops
<1>2. CompleteInv => SuccessMeansCompleted
  BY DEF CompleteInv
<1>3. QED
  BY <1>1, <1>2, BufferInit, BufferStep, CompleteStep, PTL DEF Spec
=============================================================================
