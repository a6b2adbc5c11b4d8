-------------------------- MODULE NukiPairing_proofs --------------------------
(***************************************************************************)
(* Proofs about pairing, for any number of handshakes and faults, any     *)
(* buffer and frame lengths, and power lost anywhere.                     *)
(***************************************************************************)
EXTENDS NukiPairing, SequenceTheorems, TLAPS

-----------------------------------------------------------------------------
(* What has been reported survives.                                         *)

\* A handshake's app id is its number, so a pairing that is written is newer
\* than the one it replaces; "OK" is returned only for the one in flash.
StoredInv ==
  /\ session \in Nat /\ flash.app_id \in Nat /\ reported \in Nat
  /\ flash.app_id <= session
  /\ pc = "flash" => ram.app_id = session
  /\ pc = "closing" /\ result = "OK" => flash.app_id = session
  /\ ReportedPairingSurvives

\* Steps that neither write flash nor report.
LEMMA StoredKept ==
  ASSUME StoredInv, UNCHANGED <<session, flash, reported>>, pc' # "flash",
         pc' = "closing" => result' # "OK"
  PROVE  StoredInv'
  BY DEF StoredInv, ReportedPairingSurvives

\* Every step keeps the invariant of the stored pairing.
LEMMA StoredStep == ASSUME StoredInv, [Next]_vars PROVE StoredInv'
<1> USE DEF nothingRead, storageVars, callerVars, Goto, Fail
<1>1. CASE Send \/ Written \/ WriteTimeout \/ Check \/ Wake \/ WaitTimeout \/ LastCheck
  BY <1>1, StoredKept
     DEF Send, Written, WriteTimeout, Check, Wake, WaitTimeout, LastCheck, AfterWait
<1>2. CASE Partial \/ PartialPeek \/ Header \/ Peek \/ ResetLen \/ ResetSem
  BY <1>2, StoredKept DEF Partial, PartialPeek, Header, Peek, ResetLen, ResetSem
<1>3. CASE Decode
  BY <1>3, StoredKept DEF Decode
<1>4. CASE SaveRam
  BY <1>4 DEF SaveRam, Pairing, app_id, StoredInv, ReportedPairingSurvives
<1>5. CASE SaveFlash
  BY <1>5 DEF SaveFlash, StoredInv, ReportedPairingSurvives
<1>6. CASE Closed
  BY <1>6 DEF Closed, StoredInv, ReportedPairingSurvives
<1>7. CASE pair_locked
  <2>1. session' = session + 1 /\ UNCHANGED <<flash, reported>> /\ pc' # "flash"
        /\ (pc' = "closing" => result' # "OK")
    BY <1>7 DEF pair_locked, NewSession
  <2> QED
    BY <2>1 DEF StoredInv, ReportedPairingSurvives
<1>8. CASE pair_unconnected \/ main \/ main_fails
  BY <1>8, StoredKept DEF pair_unconnected, main, main_fails
<1>9. CASE PowerLoss
  BY <1>9 DEF PowerLoss, StoredInv, ReportedPairingSurvives
<1>10. CASE Deliver \/ WriteCallback \/ Indicate \/ LockStep
  BY <1>10 DEF Deliver, WriteCallback, Indicate, LockStep, LockAccepts, LockRefuses,
               LockRepeats, StoredInv, ReportedPairingSurvives
<1>11. CASE UNCHANGED vars
  BY <1>11 DEF vars, StoredInv, ReportedPairingSurvives
<1> QED
  BY <1>1, <1>2, <1>3, <1>4, <1>5, <1>6, <1>7, <1>8, <1>9, <1>10, <1>11
     DEF Next, CallerStep

\* A pairing reported as successful is in flash, or a later one is, through
\* every later failure and loss of power.
THEOREM PairingSurvives == Spec => []ReportedPairingSurvives
<1>1. Init => StoredInv
  BY DEF Init, StoredInv, ReportedPairingSurvives, NoPairing, Pairing
<1>2. StoredInv /\ [Next]_vars => StoredInv'
  BY StoredStep
<1>3. StoredInv => ReportedPairingSurvives
  BY DEF StoredInv
<1> QED
  BY <1>1, <1>2, <1>3, PTL DEF Spec

-----------------------------------------------------------------------------
(* Receiving stays within the buffers.                                      *)

\* A set that the buffered and the outstanding units are taken from.
UnitsFrom(S) == rx_buf \in Seq(S) /\ lock_out \in Seq(S)

\* Between the test of rx_len and its use the buffer can only grow.
RecvInv ==
  /\ rx_len <= RX_BUF
  /\ min_len \in Nat /\ min_len <= FRAME_MAX
  /\ pc = "header" => min_len = HDR
  /\ pc \in {"peek", "partial_peek", "header"} => min_len <= rx_len
  /\ pc = "peek" => min_len >= 1
  /\ min_len = 0 => pc \in {"partial_peek", "closing", "idle", "boot", "dead"}

BufInv == RecvInv /\ \E S : UnitsFrom(S)

\* The lengths of frames are at least one unit and fit the local buffer.
LEMMA FrameLens == \A cmd : FrameLen(cmd) \in 1..FRAME_MAX
  BY PairingAssumption DEF FrameLen

\* A frame is a sequence of its own units.
LEMMA UnitsSeq ==
  ASSUME NEW f
  PROVE  Units(f) \in Seq({<<f, i>> : i \in 1..FrameLen(f.cmd)})
  BY FrameLens DEF Units

\* notify_cb appends what fits of an indication.
LEMMA IndicateEffect ==
  ASSUME NEW S, UnitsFrom(S), rx_len <= RX_BUF, Indicate
  PROVE  UnitsFrom(S)' /\ rx_len' <= RX_BUF /\ rx_len <= rx_len'
<1>1. PICK m \in 1..Len(lock_out) :
        /\ rx_buf' = Copy(SubSeq(lock_out, 1, m))
        /\ lock_out' = SubSeq(lock_out, m + 1, Len(lock_out))
  BY DEF Indicate, notify_cb
<1> DEFINE units == SubSeq(lock_out, 1, m)
           space == RX_BUF - rx_len
           n == IF Len(units) < space THEN Len(units) ELSE space
           s == SubSeq(units, 1, n)
<1>2. units \in Seq(S) /\ lock_out' \in Seq(S)
  BY <1>1 DEF UnitsFrom
<1>3. rx_buf' = rx_buf \o s
  BY <1>1 DEF Copy
<1> HIDE DEF units
<1>4. rx_len \in Nat /\ space \in Nat /\ n \in Nat /\ n <= Len(units) /\ n <= space
  BY <1>2, RxBufAssumption DEF UnitsFrom, rx_len
<1> HIDE DEF n, space
<1>5. s \in Seq(S) /\ Len(s) = n
  BY <1>2, <1>4, SubSeqProperties
<1> HIDE DEF s
<1>6. rx_buf' \in Seq(S) /\ Len(rx_buf') = rx_len + n
  BY <1>3, <1>5, ConcatProperties DEF UnitsFrom, rx_len
<1>7. rx_len + n <= RX_BUF /\ rx_len <= rx_len + n
  BY <1>4, RxBufAssumption DEF space
<1> QED
  BY <1>2, <1>6, <1>7 DEF UnitsFrom, rx_len

\* What the lock starts to say joins the units on their way.
LEMMA SayEffect ==
  ASSUME NEW S, UnitsFrom(S), NEW f, lock_out' = Units(f), UNCHANGED rx_buf
  PROVE  UnitsFrom(S \cup {<<f, i>> : i \in 1..FrameLen(f.cmd)})'
<1> DEFINE T == {<<f, i>> : i \in 1..FrameLen(f.cmd)}
<1>1. Units(f) \in Seq(T)
  BY UnitsSeq
<1> HIDE DEF T
<1>2. \A q : q \in Seq(T) => q \in Seq(S \cup T)
  OBVIOUS
<1>3. \A q : q \in Seq(S) => q \in Seq(S \cup T)
  OBVIOUS
<1>4. Units(f) \in Seq(S \cup T) /\ rx_buf \in Seq(S \cup T)
  BY <1>1, <1>2, <1>3 DEF UnitsFrom
<1> QED
  BY <1>4 DEF UnitsFrom, T

\* Steps that leave the buffers alone and do not start to read them.
LEMMA RecvKept ==
  ASSUME BufInv, UNCHANGED <<rx_buf, lock_out, min_len>>,
         pc' = pc \/ (pc' \notin {"header", "peek", "partial_peek"}
                      /\ (min_len # 0 \/ pc' \in {"closing", "idle", "boot", "dead"}))
  PROVE  BufInv'
<1>1. rx_len' = rx_len
  BY DEF rx_len
<1>2. RecvInv'
  BY <1>1 DEF BufInv, RecvInv
<1>3. \E S : UnitsFrom(S)'
  BY DEF BufInv, UnitsFrom
<1> QED
  BY <1>2, <1>3 DEF BufInv

\* Every step keeps recv_plain within its buffers.
LEMMA BufStep == ASSUME BufInv, [Next]_vars PROVE BufInv'
<1> USE DEF nothingRead, storageVars, callerVars, transportVars, lockVars, Goto, Fail
<1>0. PICK S : UnitsFrom(S)
  BY DEF BufInv
<1>00. /\ rx_len \in Nat /\ min_len \in Nat /\ HDR \in Nat \ {0} /\ HDR <= FRAME_MAX
       /\ FRAME_MAX \in Nat /\ RX_BUF \in Nat /\ FRAME_MAX <= RX_BUF
  BY <1>0, PairingAssumption, RxBufAssumption DEF UnitsFrom, rx_len, BufInv, RecvInv
<1>1. CASE Send \/ WriteTimeout
  <2>1. UNCHANGED <<rx_buf, lock_out, min_len>>
    BY <1>1 DEF Send, WriteStart, WriteTimeout
  <2>2. min_len # 0
    BY <1>1 DEF Send, WriteTimeout, BufInv, RecvInv
  <2>3. pc' \notin {"header", "peek", "partial_peek"}
    BY <1>1 DEF Send, WriteTimeout
  <2> QED
    BY <2>1, <2>2, <2>3, RecvKept
<1>2. CASE Written
  <2>1. UNCHANGED <<rx_buf, lock_out>> /\ rx_len' = rx_len /\ pc = "writing"
    BY <1>2 DEF Written, rx_len
  <2>2. \/ pc' = "closing" /\ min_len' = min_len
        \/ pc' = "check" /\ min_len' = HDR
    BY <1>2 DEF Written
  <2>3. RecvInv'
    BY <1>00, <2>1, <2>2 DEF BufInv, RecvInv
  <2> QED
    BY <1>0, <2>1, <2>3 DEF BufInv, UnitsFrom
<1>3. CASE Check \/ LastCheck
  <2>1. UNCHANGED <<rx_buf, lock_out, min_len>> /\ rx_len' = rx_len
    BY <1>3 DEF Check, LastCheck, rx_len
  <2>2. min_len # 0
    BY <1>3 DEF Check, LastCheck, BufInv, RecvInv
  <2>3. \/ pc' \notin {"header", "peek", "partial_peek"}
        \/ pc' = AfterWait /\ Enough(min_len)
    BY <1>3 DEF Check, LastCheck
  <2>4. CASE pc' = AfterWait /\ Enough(min_len)
    <3>1. RecvInv'
      BY <1>00, <2>1, <2>2, <2>4 DEF BufInv, RecvInv, AfterWait, Enough
    <3> QED
      BY <1>0, <2>1, <3>1 DEF BufInv, UnitsFrom
  <2> QED
    BY <2>1, <2>2, <2>3, <2>4, RecvKept
<1>4. CASE Wake \/ WaitTimeout
  <2>1. UNCHANGED <<rx_buf, lock_out, min_len>> /\ pc' \in {"check", "last_check"}
    BY <1>4 DEF Wake, SemTaken, WaitTimeout
  <2>2. min_len # 0
    BY <1>4 DEF Wake, WaitTimeout, BufInv, RecvInv
  <2> QED
    BY <2>1, <2>2, RecvKept
<1>5. CASE Partial
  <2>1. UNCHANGED <<rx_buf, lock_out>> /\ rx_len' = rx_len /\ pc' = "partial_peek"
        /\ min_len' = Clipped(rx_len)
    BY <1>5 DEF Partial, rx_len
  <2>2. RecvInv'
    BY <1>00, <2>1 DEF Clipped, BufInv, RecvInv
  <2> QED
    BY <1>0, <2>1, <2>2 DEF BufInv, UnitsFrom
<1>6. CASE PartialPeek
  <2>1. UNCHANGED <<rx_buf, lock_out, min_len>> /\ pc' = "closing"
    BY <1>6 DEF PartialPeek
  <2> QED
    BY <2>1, RecvKept
<1>7. CASE Header
  <2>1. UNCHANGED <<rx_buf, lock_out>> /\ rx_len' = rx_len /\ pc' = "check"
    BY <1>7 DEF Header, rx_len
  <2>2. min_len' \in 1..FRAME_MAX
    BY <1>7, FrameLens DEF Header, WantedLen
  <2>3. RecvInv'
    BY <1>00, <2>1, <2>2 DEF BufInv, RecvInv
  <2> QED
    BY <1>0, <2>1, <2>3 DEF BufInv, UnitsFrom
<1>8. CASE Peek \/ ResetSem \/ Decode
  <2>1. UNCHANGED <<rx_buf, lock_out, min_len>>
    BY <1>8 DEF Peek, ResetSem, ResetRxSem, Decode
  <2>2. min_len # 0
    BY <1>8 DEF Peek, ResetSem, Decode, BufInv, RecvInv
  <2>3. pc' \notin {"header", "peek", "partial_peek"}
    BY <1>8 DEF Peek, ResetSem, Decode
  <2> QED
    BY <2>1, <2>2, <2>3, RecvKept
<1>9. CASE ResetLen
  <2>1. rx_buf' = << >> /\ UNCHANGED <<lock_out, min_len>> /\ pc' = "reset_sem" /\ pc = "reset"
    BY <1>9 DEF ResetLen, ResetRxLen
  <2>2. rx_buf' \in Seq(S) /\ rx_len' = 0
    BY <2>1 DEF rx_len
  <2>3. RecvInv'
    BY <1>00, <2>1, <2>2 DEF BufInv, RecvInv
  <2> QED
    BY <1>0, <2>1, <2>2, <2>3 DEF BufInv, UnitsFrom
<1>10. CASE SaveRam \/ SaveFlash \/ Closed
  <2>1. UNCHANGED <<rx_buf, lock_out, min_len>> /\ pc' \in {"flash", "closing", "idle"}
        /\ (pc' = "flash" => pc = "save")
    BY <1>10 DEF SaveRam, SaveFlash, Closed
  <2>2. pc = "save" => min_len # 0
    BY DEF BufInv, RecvInv
  <2> QED
    BY <2>1, <2>2, RecvKept
<1>11. CASE pair_locked
  <2>1. rx_buf' = << >> /\ lock_out' = << >> /\ min_len' = HDR /\ pc' \in {"send", "closing"}
    BY <1>11 DEF pair_locked, NewSession, nuki_transport_init
  <2>2. UnitsFrom({})' /\ rx_len' = 0
    BY <2>1 DEF UnitsFrom, rx_len
  <2>3. RecvInv'
    BY <1>00, <2>1, <2>2 DEF RecvInv
  <2> QED
    BY <2>2, <2>3 DEF BufInv
<1>12. CASE pair_unconnected \/ main \/ main_fails \/ PowerLoss
  <2>1. UNCHANGED <<rx_buf, lock_out, min_len>> /\ pc' \in {"idle", "boot", "dead"}
    BY <1>12 DEF pair_unconnected, main, main_fails, PowerLoss
  <2> QED
    BY <2>1, RecvKept
<1>13. CASE Deliver \/ WriteCallback
  <2>1. UNCHANGED <<rx_buf, lock_out, min_len, pc>>
    BY <1>13 DEF Deliver, WriteDelivered, WriteCallback, write_cb
  <2> QED
    BY <2>1, RecvKept
<1>14. CASE Indicate
  <2>1. UnitsFrom(S)' /\ rx_len' <= RX_BUF /\ rx_len <= rx_len'
    BY <1>0, <1>14, IndicateEffect DEF BufInv, RecvInv
  <2>2. UNCHANGED <<min_len, pc>>
    BY <1>14 DEF Indicate
  <2>3. rx_len' \in Nat
    BY <2>1 DEF UnitsFrom, rx_len
  <2>4. RecvInv'
    BY <1>00, <2>1, <2>2, <2>3 DEF BufInv, RecvInv
  <2> QED
    BY <2>1, <2>4 DEF BufInv
<1>15. CASE LockStep
  <2>1. UNCHANGED <<rx_buf, min_len, pc>> /\ \E f : lock_out' = Units(f)
    BY <1>15 DEF LockStep, LockAccepts, LockRefuses, LockRepeats, Say
  <2>2. \E T : UnitsFrom(T)'
    BY <1>0, <2>1, SayEffect
  <2>3. RecvInv'
    BY <2>1 DEF BufInv, RecvInv, rx_len
  <2> QED
    BY <2>2, <2>3 DEF BufInv
<1>16. CASE UNCHANGED vars
  BY <1>16, RecvKept DEF vars
<1> QED
  BY <1>1, <1>2, <1>3, <1>4, <1>5, <1>6, <1>7, <1>8, <1>9, <1>10, <1>11, <1>12, <1>13, <1>14,
     <1>15, <1>16 DEF Next, CallerStep

\* The invariant holds at boot.
LEMMA BufInit == Init => BufInv
<1> SUFFICES ASSUME Init PROVE BufInv
  OBVIOUS
<1>1. UnitsFrom({}) /\ rx_len = 0
  BY DEF Init, TransportInit, UnitsFrom, rx_len
<1>2. RecvInv
  BY <1>1, PairingAssumption, RxBufAssumption DEF Init, RecvInv
<1> QED
  BY <1>1, <1>2 DEF BufInv

\* However the answers are split, cut off or repeated, recv_plain reads what is
\* in rx_buf and writes what fits its own buffer.
THEOREM RecvStaysWithinBuffers == Spec => []RecvWithinBuffers
<1>1. BufInv => RecvWithinBuffers
  BY PairingAssumption, RxBufAssumption DEF BufInv, RecvInv, RecvWithinBuffers, UnitsFrom, rx_len
<1>2. BufInv /\ [Next]_vars => BufInv'
  BY BufStep
<1> QED
  BY <1>1, <1>2, BufInit, PTL DEF Spec

-----------------------------------------------------------------------------
(* What is stored is what the lock has confirmed.                           *)

\* The lock has confirmed the authorisation the handshake in progress has
\* negotiated, as the bridge sees it.
Done == step = 5 /\ Pairing(shared_key, rcv.auth_id, app_id, rcv.lock_uuid) \in lock_auths

IsComplete(f) == f.data # << >> /\ f.cmd = "STATUS" /\ f.data.code = "COMPLETE"

\* A frame of the lock: a final status means Done, and the authenticator of an
\* AUTH_ID, which no fault changes, covers the lock's own uuid.
FrameOK(f) ==
  /\ IsComplete(f) => Done
  /\ f.data # << >> /\ f.cmd = "AUTH_ID" => f.data.mac.fields[2] = UUID

\* All the lock has said in this handshake and the bridge has not used yet.
AirInv ==
  /\ \E S : UnitsFrom(S) /\ \A u \in S : FrameOK(u[1])
  /\ FrameOK(lock_last)
  /\ taken = NoFrame \/ (taken.data # << >> /\ FrameOK(taken))

IsRcv == rcv = [sl_pub |-> rcv.sl_pub, challenge |-> rcv.challenge, auth_id |-> rcv.auth_id,
                lock_uuid |-> rcv.lock_uuid, nonce_k2 |-> rcv.nonce_k2]

\* The two ends of the handshake against each other.
HandInv ==
  /\ step \in 1..5 /\ lock_step \in 1..5 /\ IsRcv
  /\ lock_known = [pk |-> lock_known.pk, app_id |-> lock_known.app_id]
  /\ step = 5 => rcv.lock_uuid = UUID
  /\ lock_step = 5 => lock_known.app_id = session
  /\ lock_in.cmd = "AUTH_DATA" => lock_in.data.app_id = session
  /\ lock_in.cmd = "AUTH_ID_CONFIRMATION" =>
       /\ step = 5 /\ lock_in.data.auth_id = rcv.auth_id
       /\ lock_in.data.mac = h1(shared_key, <<rcv.auth_id, rcv.nonce_k2>>)

\* What is about to be stored, and what is.
SavedInv ==
  /\ pc = "save" => Done
  /\ pc = "flash" => ram \in lock_auths
  /\ CredentialsAgree

PairInv == BufInv /\ AirInv /\ HandInv /\ SavedInv

\* An authenticator determines its key and the fields it covers.
LEMMA h1Injective ==
  ASSUME NEW k, NEW l, NEW x, NEW y, h1(k, x) = h1(l, y)
  PROVE  k = l /\ x = y
<1>1. h1(k, x).key = k /\ h1(l, y).key = l /\ h1(k, x).fields = x /\ h1(l, y).fields = y
  BY DEF h1
<1> QED
  BY <1>1

\* Nothing undoes a confirmed authorisation within the handshake.
LEMMA FramesKept ==
  ASSUME NEW f, FrameOK(f), Done => Done'
  PROVE  FrameOK(f)'
  BY DEF FrameOK, IsComplete

\* Steps that only move the caller, the transport or the flags.
LEMMA PairKept ==
  ASSUME PairInv, BufInv', UNCHANGED <<step, session, rcv, taken, lock_step, lock_in,
                                       lock_known, lock_last, lock_auths, lock_out, rx_buf>>,
         SavedInv'
  PROVE  PairInv'
<1> USE DEF PairInv
<1>0. Done => Done'
  BY DEF Done, shared_key, app_id
<1>1. HandInv'
  BY DEF HandInv, IsRcv, shared_key
<1>2. PICK S : UnitsFrom(S) /\ \A u \in S : FrameOK(u[1])
  BY DEF AirInv
<1>3. UnitsFrom(S)' /\ \A u \in S : FrameOK(u[1])'
  BY <1>0, <1>2, FramesKept DEF UnitsFrom
<1>4. FrameOK(lock_last)' /\ (FrameOK(taken) => FrameOK(taken)')
  BY <1>0 DEF AirInv, FrameOK, IsComplete
<1>5. AirInv'
  BY <1>3, <1>4 DEF AirInv
<1> QED
  BY <1>1, <1>5

\* Steps of the caller that touch nothing of the handshake's data.
LEMMA CallerKeeps ==
  ASSUME PairInv, BufInv',
         \/ Send \/ Written \/ WriteTimeout \/ Check \/ Wake \/ WaitTimeout \/ LastCheck
         \/ Partial \/ PartialPeek \/ Header \/ ResetSem \/ Closed
         \/ pair_unconnected \/ main_fails \/ WriteCallback
  PROVE  PairInv'
<1> USE DEF nothingRead, storageVars, callerVars, transportVars, lockVars, Goto, Fail
<1>1. /\ UNCHANGED <<step, session, rcv, taken, ram, flash, lockVars>>
      /\ pc' = pc \/ pc' \notin {"save", "flash"}
  BY DEF Send, Written, WriteTimeout, Check, Wake, WaitTimeout, LastCheck, AfterWait,
         Partial, PartialPeek, Header, ResetSem, Closed, pair_unconnected, main_fails,
         WriteCallback
<1>2. UNCHANGED rx_buf
  BY DEF Send, WriteStart, Written, WriteTimeout, Check, Wake, SemTaken, WaitTimeout,
         LastCheck, Partial, PartialPeek, Header, ResetSem, ResetRxSem, Closed,
         pair_unconnected, main_fails, WriteCallback, write_cb
<1>3. SavedInv'
  BY <1>1 DEF PairInv, SavedInv, CredentialsAgree, Done, shared_key, app_id
<1> QED
  BY <1>1, <1>2, <1>3, PairKept

\* A frame taken out of the buffer is one the lock has said.
LEMMA PeekKeeps == ASSUME PairInv, BufInv', Peek PROVE PairInv'
<1> USE DEF nothingRead, storageVars, callerVars, transportVars, lockVars, Goto
<1>1. /\ UNCHANGED <<rx_buf, lock_out, step, session, rcv, ram, flash, lockVars>>
      /\ pc = "peek" /\ pc' = "reset" /\ taken' = Parsed(SubSeq(rx_buf, 1, min_len))
  BY DEF Peek
<1>2. PICK S : UnitsFrom(S) /\ \A u \in S : FrameOK(u[1])
  BY DEF PairInv, AirInv
<1>3. min_len \in Nat /\ 1 <= min_len /\ min_len <= Len(rx_buf)
  BY <1>1 DEF PairInv, BufInv, RecvInv, rx_len
<1> DEFINE units == SubSeq(rx_buf, 1, min_len)
           f == units[1][1]
<1>4. units[1] = rx_buf[1] /\ rx_buf[1] \in S
  BY <1>2, <1>3 DEF UnitsFrom
<1>5. FrameOK(f)
  BY <1>2, <1>4
<1>6. taken' = NoFrame \/ (taken' = f /\ f.data # << >>)
  BY <1>1 DEF Parsed
<1> HIDE DEF f, units
<1>7. Done => Done'
  BY <1>1 DEF Done, shared_key, app_id
<1>9. taken' = NoFrame \/ (taken'.data # << >> /\ FrameOK(taken)')
  BY <1>1, <1>5, <1>6, <1>7 DEF FrameOK, IsComplete
<1>10. UnitsFrom(S)' /\ \A u \in S : FrameOK(u[1])'
  BY <1>1, <1>2, <1>7, FramesKept DEF UnitsFrom
<1>11. FrameOK(lock_last)'
  BY <1>1, <1>7 DEF PairInv, AirInv, FrameOK, IsComplete
<1>12. AirInv'
  BY <1>9, <1>10, <1>11 DEF AirInv
<1>13. HandInv' /\ SavedInv'
  BY <1>1 DEF PairInv, HandInv, IsRcv, shared_key, SavedInv, CredentialsAgree
<1> QED
  BY <1>12, <1>13 DEF PairInv

\* nuki_transport_reset only removes units; the rest of an indication only
\* moves them.
LEMMA BufferKeeps == ASSUME PairInv, BufInv', ResetLen \/ Indicate PROVE PairInv'
<1> USE DEF nothingRead, storageVars, callerVars, transportVars, lockVars, Goto
<1>1. /\ UNCHANGED <<step, session, rcv, taken, ram, flash, lock_step, lock_in, lock_known,
                     lock_last, lock_auths>>
      /\ pc' = pc \/ pc' \notin {"save", "flash"}
  BY DEF ResetLen, Indicate
<1>2. PICK S : UnitsFrom(S) /\ \A u \in S : FrameOK(u[1])
  BY DEF PairInv, AirInv
<1>3. UnitsFrom(S)'
  <2>1. CASE ResetLen
    <3>1. rx_buf' = << >> /\ UNCHANGED lock_out
      BY <2>1 DEF ResetLen, ResetRxLen
    <3> QED
      BY <1>2, <3>1 DEF UnitsFrom
  <2>2. CASE Indicate
    BY <1>2, <2>2, IndicateEffect DEF PairInv, BufInv, RecvInv
  <2> QED
    BY <2>1, <2>2
<1>4. Done => Done'
  BY <1>1 DEF Done, shared_key, app_id
<1>5. \A u \in S : FrameOK(u[1])'
  BY <1>2, <1>4, FramesKept
<1>6. FrameOK(lock_last)' /\ (FrameOK(taken) => FrameOK(taken)')
  BY <1>1, <1>4 DEF PairInv, AirInv, FrameOK, IsComplete
<1>7. AirInv'
  BY <1>1, <1>3, <1>5, <1>6 DEF PairInv, AirInv
<1>8. HandInv' /\ SavedInv'
  BY <1>1 DEF PairInv, HandInv, IsRcv, shared_key, SavedInv, CredentialsAgree, Done, app_id
<1> QED
  BY <1>7, <1>8 DEF PairInv

\* An answer that passes the checks: the uuid accepted is the one the
\* authenticator covers, and a final status is believed only when Done.
LEMMA DecodeKeeps == ASSUME PairInv, BufInv', Decode PROVE PairInv'
<1> USE DEF nothingRead, storageVars, callerVars, transportVars, lockVars, Fail
<1>1. /\ UNCHANGED <<rx_buf, lock_out, session, ram, flash, lockVars>>
      /\ pc = "decode" /\ taken' = NoFrame
  BY DEF Decode
<1>2. PICK S : UnitsFrom(S) /\ \A u \in S : FrameOK(u[1])
  BY DEF PairInv, AirInv
<1>3. ASSUME Done => Done', HandInv', SavedInv' PROVE PairInv'
  <2>1. UnitsFrom(S)' /\ \A u \in S : FrameOK(u[1])'
    BY <1>1, <1>2, <1>3, FramesKept DEF UnitsFrom
  <2>2. FrameOK(lock_last)'
    BY <1>1, <1>3 DEF PairInv, AirInv, FrameOK, IsComplete
  <2>3. AirInv'
    BY <1>1, <2>1, <2>2 DEF AirInv
  <2> QED
    BY <1>3, <2>3 DEF PairInv
<1>4. CASE pc' = "closing" /\ UNCHANGED <<step, rcv>>
  <2>1. Done => Done'
    BY <1>1, <1>4 DEF Done, shared_key, app_id
  <2>2. HandInv' /\ SavedInv'
    BY <1>1, <1>4 DEF PairInv, HandInv, IsRcv, shared_key, SavedInv, CredentialsAgree
  <2> QED
    BY <1>3, <2>1, <2>2
<1>5. CASE /\ taken.cmd = Expects[step] /\ ContentOK(taken) /\ rcv' = Received(taken)
           /\ \/ step < 5 /\ step' = step + 1 /\ pc' = "send"
              \/ step < 5 /\ pc' = "closing" /\ UNCHANGED step
              \/ step = 5 /\ pc' = "save" /\ UNCHANGED step
  <2>0. step \in 1..5
    BY DEF PairInv, HandInv
  <2>1. taken # NoFrame /\ taken.data # << >> /\ FrameOK(taken)
    <3>1. taken.cmd # "none"
      BY <1>5, <2>0 DEF Expects
    <3>2. NoFrame.cmd = "none"
      BY DEF NoFrame, Frame
    <3> QED
      BY <3>1, <3>2 DEF PairInv, AirInv
  <2>2. IsRcv'
    BY <1>5 DEF PairInv, HandInv, IsRcv, Received
  <2>3. CASE step = 5
    <3>1. taken.cmd = "STATUS" /\ UNCHANGED step /\ pc' = "save"
      BY <1>5, <2>3 DEF Expects
    <3>2. rcv' = rcv /\ taken.data.code = "COMPLETE"
      BY <1>5, <3>1 DEF Received, ContentOK
    <3>3. Done /\ Done'
      BY <1>1, <2>1, <3>1, <3>2 DEF FrameOK, IsComplete, Done, shared_key, app_id
    <3>4. HandInv'
      BY <1>1, <3>1, <3>2 DEF PairInv, HandInv, IsRcv, shared_key
    <3>5. SavedInv'
      BY <1>1, <3>1, <3>3 DEF PairInv, SavedInv, CredentialsAgree
    <3> QED
      BY <1>3, <3>3, <3>4, <3>5
  <2>4. CASE step # 5
    <3>1. ~Done /\ step' \in 1..5 /\ pc' \notin {"save", "flash"} /\ step < 5
          /\ (step' = 5 => step = 4)
      BY <1>5, <2>0, <2>4 DEF Done
    <3>2. ASSUME step = 4 PROVE rcv'.lock_uuid = UUID
      <4>1. taken.cmd = "AUTH_ID"
        BY <1>5, <3>2 DEF Expects
      <4>2. /\ rcv' = [rcv EXCEPT !.auth_id = taken.data.auth_id,
                                  !.lock_uuid = taken.data.uuid, !.nonce_k2 = taken.data.nonce]
            /\ taken.data.mac = h1(shared_key, <<taken.data.auth_id, taken.data.uuid,
                                                 taken.data.nonce, nonce_abf>>)
        BY <1>5, <4>1 DEF Received, ContentOK
      <4>3. taken.data.mac.fields[2] = taken.data.uuid
        BY <4>2 DEF h1
      <4>4. taken.data.uuid = UUID
        BY <2>1, <4>1, <4>3 DEF FrameOK
      <4>5. rcv'.lock_uuid = taken.data.uuid
        BY <4>2 DEF PairInv, HandInv, IsRcv
      <4> QED
        BY <4>4, <4>5
    <3>3. HandInv'
      BY <1>1, <2>2, <2>4, <3>1, <3>2 DEF PairInv, HandInv
    <3>4. SavedInv'
      BY <1>1, <3>1 DEF PairInv, SavedInv, CredentialsAgree
    <3> QED
      BY <1>3, <3>1, <3>3, <3>4
  <2> QED
    BY <2>3, <2>4
<1> QED
  BY <1>4, <1>5 DEF Decode

\* nuki_storage_save_pairing copies what is Done to RAM and then to flash;
\* loss of power and the start after it lose at most the copy in RAM.
LEMMA StorageKeeps ==
  ASSUME PairInv, BufInv', SaveRam \/ SaveFlash \/ PowerLoss \/ main
  PROVE  PairInv'
<1> USE DEF nothingRead, storageVars, callerVars, transportVars, lockVars, Goto
<1>1. UNCHANGED <<rx_buf, step, session, rcv, taken, lockVars>>
  BY DEF SaveRam, SaveFlash, PowerLoss, main
<1>2. SavedInv'
  <2> USE <1>1 DEF PairInv, SavedInv, CredentialsAgree
  <2>1. CASE SaveRam
    BY <2>1 DEF SaveRam, Done
  <2>2. CASE SaveFlash
    BY <2>2 DEF SaveFlash
  <2>3. CASE PowerLoss
    BY <2>3 DEF PowerLoss
  <2>4. CASE main
    BY <2>4 DEF main
  <2> QED
    BY <2>1, <2>2, <2>3, <2>4
<1> QED
  BY <1>1, <1>2, PairKept

\* A new connection starts with nothing said.
LEMMA NewSessionKeeps == ASSUME PairInv, BufInv', pair_locked PROVE PairInv'
<1> USE DEF storageVars, Fail
<1>1. /\ step' = 1 /\ taken' = NoFrame /\ lock_step' = 1 /\ lock_in' = NoFrame
      /\ lock_last' = NoFrame /\ lock_known' = [pk |-> 0, app_id |-> 0]
      /\ rcv' = [sl_pub |-> 0, challenge |-> 0, auth_id |-> 0, lock_uuid |-> 0, nonce_k2 |-> 0]
      /\ rx_buf' = << >> /\ lock_out' = << >>
      /\ UNCHANGED <<ram, flash, lock_auths>> /\ pc' \notin {"save", "flash"}
  BY DEF pair_locked, NewSession, nuki_transport_init
<1>2. NoFrame.data = << >> /\ NoFrame.cmd = "none"
  BY DEF NoFrame, Frame
<1>3. UnitsFrom({})' /\ \A u \in {} : FrameOK(u[1])'
  BY <1>1 DEF UnitsFrom
<1>4. FrameOK(lock_last)'
  BY <1>1, <1>2 DEF FrameOK, IsComplete
<1>5. AirInv'
  BY <1>1, <1>3, <1>4 DEF AirInv
<1>6. HandInv'
  BY <1>1, <1>2 DEF HandInv, IsRcv
<1>7. SavedInv'
  BY <1>1 DEF PairInv, SavedInv, CredentialsAgree
<1> QED
  BY <1>5, <1>6, <1>7 DEF PairInv

\* The lock receives the request of the step the bridge is at.
LEMMA DeliverKeeps == ASSUME PairInv, BufInv', Deliver PROVE PairInv'
<1> USE DEF nothingRead, storageVars, callerVars
<1>1. /\ UNCHANGED <<rx_buf, pc, step, session, rcv, taken, ram, flash, lock_step, lock_known,
                     lock_out, lock_last, lock_auths>>
      /\ lock_in' = Request
  BY DEF Deliver, WriteDelivered
<1>2. step \in 1..5
  BY DEF PairInv, HandInv
<1>3. Request.cmd = "AUTH_DATA" => Request.data.app_id = session
  BY <1>2 DEF Request, Frame, app_id
<1>4. Request.cmd = "AUTH_ID_CONFIRMATION" =>
        /\ step = 5 /\ Request.data.auth_id = rcv.auth_id
        /\ Request.data.mac = h1(shared_key, <<rcv.auth_id, rcv.nonce_k2>>)
  BY <1>2 DEF Request, Frame
<1>5. HandInv'
  BY <1>1, <1>3, <1>4 DEF PairInv, HandInv, IsRcv, shared_key
<1>6. Done => Done'
  BY <1>1 DEF Done, shared_key, app_id
<1>7. SavedInv'
  BY <1>1, <1>6 DEF PairInv, SavedInv, CredentialsAgree
<1>8. PICK S : UnitsFrom(S) /\ \A u \in S : FrameOK(u[1])
  BY DEF PairInv, AirInv
<1>9. UnitsFrom(S)' /\ \A u \in S : FrameOK(u[1])'
  BY <1>1, <1>6, <1>8, FramesKept DEF UnitsFrom
<1>10. FrameOK(lock_last)' /\ (FrameOK(taken) => FrameOK(taken)')
  BY <1>1, <1>6 DEF PairInv, AirInv, FrameOK, IsComplete
<1>11. AirInv'
  BY <1>1, <1>9, <1>10 DEF PairInv, AirInv
<1> QED
  BY <1>5, <1>7, <1>11 DEF PairInv

\* The lock says a frame that is in order.
LEMMA SaidKeeps ==
  ASSUME PairInv, BufInv', NEW f, lock_out' = Units(f), FrameOK(f)', lock_last' = f,
         Done => Done', HandInv', SavedInv', UNCHANGED <<rx_buf, taken>>
  PROVE  PairInv'
<1>1. PICK S : UnitsFrom(S) /\ \A u \in S : FrameOK(u[1])
  BY DEF PairInv, AirInv
<1> DEFINE T == {<<f, i>> : i \in 1..FrameLen(f.cmd)}
<1>2. UnitsFrom(S \cup T)'
  BY <1>1, SayEffect
<1>3. \A u \in S \cup T : FrameOK(u[1])'
  <2>1. ASSUME NEW u \in S PROVE FrameOK(u[1])'
    BY <1>1, FramesKept
  <2>2. ASSUME NEW u \in T PROVE FrameOK(u[1])'
    <3>1. u[1] = f
      OBVIOUS
    <3> QED
      BY <3>1 DEF FrameOK
  <2> QED
    BY <2>1, <2>2
<1>4. FrameOK(lock_last)' /\ (FrameOK(taken) => FrameOK(taken)')
  BY DEF FrameOK, IsComplete
<1>5. AirInv'
  <2> HIDE DEF T
  <2> QED
    BY <1>2, <1>3, <1>4 DEF PairInv, AirInv
<1> QED
  BY <1>5 DEF PairInv

\* The lock's answer, intact or altered, is in order.
LEMMA AnswerOK ==
  ASSUME lock_step \in 1..5, lock_step = 5 => Done',
         NEW f \in {Answer(lock_in)} \cup Altered(Answer(lock_in))
  PROVE  FrameOK(f)'
<1>1. CASE lock_step \in {1, 2, 3}
  <2>1. Answer(lock_in).cmd \in {"PUBLIC_KEY", "CHALLENGE"}
    BY <1>1 DEF Answer, Frame
  <2>2. f.cmd = Answer(lock_in).cmd
    BY <1>1 DEF Answer, Frame, Altered
  <2> QED
    BY <2>1, <2>2 DEF FrameOK, IsComplete
<1>2. CASE lock_step = 4
  <2>1. f.cmd = "AUTH_ID" /\ (f.data = << >> \/ f.data.mac.fields[2] = UUID)
    BY <1>2, SMTT(30) DEF Answer, Frame, Altered, h1
  <2> QED
    BY <2>1 DEF FrameOK, IsComplete
<1>3. CASE lock_step = 5
  <2>1. f.cmd = "STATUS"
    BY <1>3 DEF Answer, Frame, Altered
  <2> QED
    BY <1>3, <2>1 DEF FrameOK, IsComplete
<1> QED
  BY <1>1, <1>2, <1>3

\* The lock accepts a request: in the last step this makes the authorisation
\* the one the bridge holds, because both authenticators fit.
LEMMA AcceptKeeps == ASSUME PairInv, BufInv', LockAccepts PROVE PairInv'
<1> USE DEF callerVars, storageVars, transportVars
<1>1. /\ UNCHANGED <<rx_buf, pc, step, session, rcv, taken, ram, flash>>
      /\ Accepts(lock_in) /\ lock_in' = NoFrame
      /\ lock_step' = IF lock_step < 5 THEN lock_step + 1 ELSE 1
      /\ lock_auths' = lock_auths \cup
                       IF lock_step = 5
                       THEN {Pairing(LockKey, session, lock_known.app_id, UUID)} ELSE {}
  BY DEF LockAccepts
<1>2. lock_step \in 1..5 /\ NoFrame.cmd = "none"
  BY DEF PairInv, HandInv, NoFrame, Frame
<1>3. lock_step = 5 => Done'
  <2> SUFFICES ASSUME lock_step = 5 PROVE Done'
    OBVIOUS
  <2>1. lock_in.cmd = "AUTH_ID_CONFIRMATION" /\ lock_in.data.auth_id = session
        /\ lock_in.data.mac = h1(LockKey, <<session, NONCE_K>>)
    BY <1>1 DEF Accepts, Sends
  <2>2. /\ step = 5 /\ rcv.auth_id = session /\ rcv.lock_uuid = UUID
        /\ lock_in.data.mac = h1(shared_key, <<rcv.auth_id, rcv.nonce_k2>>)
        /\ lock_known.app_id = session
    BY <2>1 DEF PairInv, HandInv
  <2>3. LockKey = shared_key
    BY <2>1, <2>2, h1Injective
  <2>4. Pairing(shared_key, rcv.auth_id, app_id, rcv.lock_uuid)
          = Pairing(LockKey, session, lock_known.app_id, UUID)
    BY <2>2, <2>3 DEF app_id
  <2>5. Pairing(shared_key, rcv.auth_id, app_id, rcv.lock_uuid) \in lock_auths'
    BY <1>1, <2>4
  <2> QED
    BY <1>1, <2>2, <2>5 DEF Done, shared_key, app_id
<1>4. Done => Done'
  BY <1>1 DEF Done, shared_key, app_id
<1>5. HandInv'
  <2>1. /\ lock_known' = [pk |-> lock_known'.pk, app_id |-> lock_known'.app_id]
        /\ lock_step = 4 => lock_known'.app_id = lock_in.data.app_id
    BY <1>2 DEF LockAccepts, PairInv, HandInv
  <2>2. lock_step = 4 => lock_known'.app_id = session
    BY <1>1, <2>1 DEF Accepts, Sends, PairInv, HandInv
  <2> QED
    BY <1>1, <1>2, <2>1, <2>2 DEF PairInv, HandInv, IsRcv
<1>6. SavedInv'
  BY <1>1, <1>4 DEF PairInv, SavedInv, CredentialsAgree
<1>7. PICK f \in {Answer(lock_in)} \cup Altered(Answer(lock_in)) : Say(f)
  BY DEF LockAccepts
<1>8. FrameOK(f)'
  BY <1>2, <1>3, <1>7, AnswerOK
<1> QED
  BY <1>1, <1>4, <1>5, <1>6, <1>7, <1>8, SaidKeeps DEF Say

\* It refuses, or repeats itself.
LEMMA RefuseKeeps == ASSUME PairInv, BufInv', LockRefuses \/ LockRepeats PROVE PairInv'
<1> USE DEF callerVars, storageVars, transportVars
<1>1. /\ UNCHANGED <<rx_buf, pc, step, session, rcv, taken, ram, flash, lock_step, lock_known,
                     lock_auths>>
      /\ lock_in' = NoFrame \/ lock_in' = lock_in
  BY DEF LockRefuses, LockRepeats
<1>2. NoFrame.cmd = "none"
  BY DEF NoFrame, Frame
<1>3. Done => Done'
  BY <1>1 DEF Done, shared_key, app_id
<1>4. HandInv'
  BY <1>1, <1>2 DEF PairInv, HandInv, IsRcv, shared_key
<1>5. SavedInv'
  BY <1>1, <1>3 DEF PairInv, SavedInv, CredentialsAgree
<1>6. CASE LockRefuses
  <2>1. PICK f \in Refusal : Say(f)
    BY <1>6 DEF LockRefuses
  <2>2. FrameOK(f)'
    BY <2>1 DEF Refusal, Frame, FrameOK, IsComplete
  <2> QED
    BY <1>1, <1>3, <1>4, <1>5, <2>1, <2>2, SaidKeeps DEF Say
<1>7. CASE LockRepeats
  <2>1. lock_out' = Units(lock_last) /\ lock_last' = lock_last
    BY <1>7 DEF LockRepeats
  <2>2. PICK f : f = lock_last
    OBVIOUS
  <2>3. FrameOK(f)'
    BY <1>3, <2>2, FramesKept DEF PairInv, AirInv
  <2> QED
    BY <1>1, <1>3, <1>4, <1>5, <2>1, <2>2, <2>3, SaidKeeps
<1> QED
  BY <1>6, <1>7

\* Every step keeps the two ends of the handshake and the store in agreement.
LEMMA PairStep == ASSUME PairInv, [Next]_vars PROVE PairInv'
<1>0. BufInv'
  BY BufStep DEF PairInv
<1>1. CASE UNCHANGED vars
  <2>1. UNCHANGED <<pc, ram, flash, step, session, rcv, taken, lockVars, rx_buf>>
    BY <1>1 DEF vars, callerVars, storageVars, transportVars
  <2>2. SavedInv'
    BY <2>1 DEF PairInv, SavedInv, CredentialsAgree, Done, shared_key, app_id, lockVars
  <2> QED
    BY <1>0, <2>1, <2>2, PairKept DEF lockVars
<1>2. CASE Next
  BY <1>0, <1>2, CallerKeeps, PeekKeeps, BufferKeeps, DecodeKeeps, StorageKeeps,
     NewSessionKeeps, DeliverKeeps, AcceptKeeps, RefuseKeeps DEF Next, CallerStep, LockStep
<1> QED
  BY <1>1, <1>2

\* The two ends agree at boot: nothing is paired and nothing has been said.
LEMMA PairInit == Init => PairInv
<1> SUFFICES ASSUME Init PROVE PairInv
  OBVIOUS
<1>1. BufInv
  BY BufInit
<1>2. NoFrame.data = << >> /\ NoFrame.cmd = "none"
  BY DEF NoFrame, Frame
<1>3. UnitsFrom({}) /\ \A u \in {} : FrameOK(u[1])
  BY DEF Init, TransportInit, UnitsFrom
<1>4. FrameOK(lock_last)
  BY <1>2 DEF Init, FrameOK, IsComplete
<1>5. AirInv
  BY <1>3, <1>4 DEF Init, AirInv
<1>6. HandInv
  BY <1>2 DEF Init, HandInv, IsRcv
<1>7. SavedInv
  BY DEF Init, SavedInv, CredentialsAgree
<1> QED
  BY <1>1, <1>5, <1>6, <1>7 DEF PairInv

\* Whatever arrives altered, cut off or twice, and wherever power is lost, the
\* bridge never keeps credentials that the lock has not confirmed.
THEOREM CredentialsAlwaysAgree == Spec => []CredentialsAgree
<1>1. PairInv /\ [Next]_vars => PairInv'
  BY PairStep
<1>2. PairInv => CredentialsAgree
  BY DEF PairInv, SavedInv
<1> QED
  BY <1>1, <1>2, PairInit, PTL DEF Spec

-----------------------------------------------------------------------------
(* No byte of an answer is thrown away.  As long as the lock answers as it  *)
(* should, one exchange is over before the next begins: at most one answer  *)
(* is under way, and nuki_transport_reset comes when it has arrived whole   *)
(* and nothing has been asked since.                                        *)

Exchanging == {"send", "writing", "check", "sleep", "last_check", "partial",
               "partial_peek", "header", "peek", "reset", "reset_sem", "decode"}
Between == {"send", "reset_sem", "decode"}
Waiting == {"check", "sleep", "last_check", "header"}

\* The answers to the request of step s: the expected one, or a refusal.
AnswerCmds(s) == {Expects[s], "STATUS", "ERROR_REPORT"}

\* An ATT write is under way only while its caller waits for it.
WriteOrder ==
  /\ pc # "writing" => in_flight = "none"
  /\ write_sem = 1 => in_flight = "none"

\* Nothing has been answered yet: the lock may have the request, or not.
NothingSaid ==
  /\ rx_buf = << >> /\ lock_out = << >>
  /\ lock_in # NoFrame =>
       lock_in.cmd = Sends[step] /\ in_flight # "sent" /\ pc \notin Between
  /\ pc \notin {"peek", "reset"}
  /\ pc \in Waiting => min_len = HDR

\* The lock is giving, or has given, the answer f; what has arrived of it and
\* what is still to come make up f.
Said(f) ==
  /\ f.cmd \in AnswerCmds(step)
  /\ rx_buf \o lock_out = Units(f)
  /\ lock_in = NoFrame /\ in_flight # "sent" /\ pc \notin Between
  /\ pc \in Waiting => min_len \in {HDR, FrameLen(f.cmd)}
  /\ pc \in {"peek", "reset"} =>
       min_len = FrameLen(f.cmd) /\ rx_len = min_len /\ lock_out = << >>

OneExchange ==
  faults = 0 /\ pc \in Exchanging => WriteOrder /\ (NothingSaid \/ \E f : Said(f))

ExchangeInv == faults \in Nat /\ OneExchange

\* A frame is as long as its units, longer than a command id, and fits.
LEMMA UnitsLen ==
  ASSUME NEW f
  PROVE  /\ Len(Units(f)) = FrameLen(f.cmd) /\ FrameLen(f.cmd) \in 1..FRAME_MAX
         /\ FrameLen(f.cmd) # HDR /\ HDR < FrameLen(f.cmd)
         /\ Units(f)[1] = <<f, 1>>
<1>1. FrameLen(f.cmd) \in 1..FRAME_MAX
  BY FrameLens
<1>2. HDR < FrameLen(f.cmd) /\ FrameLen(f.cmd) # HDR
  BY PairingAssumption DEF FrameLen
<1>3. Len(Units(f)) = FrameLen(f.cmd)
  BY <1>1, PairingAssumption DEF Units
<1>4. Units(f)[1] = <<f, 1>>
  BY <1>1, PairingAssumption DEF Units
<1> QED
  BY <1>1, <1>2, <1>3, <1>4

\* How much of an answer has arrived, and what it starts with.
LEMMA SaidSoFar ==
  ASSUME BufInv, NEW f, rx_buf \o lock_out = Units(f)
  PROVE  /\ rx_len \in Nat /\ Len(lock_out) \in Nat
         /\ rx_len + Len(lock_out) = FrameLen(f.cmd)
         /\ Len(lock_out) = 0 => lock_out = << >>
         /\ rx_len >= 1 => rx_buf[1] = <<f, 1>>
<1>1. PICK S : UnitsFrom(S)
  BY DEF BufInv
<1>2. rx_len \in Nat /\ Len(lock_out) \in Nat /\ (Len(lock_out) = 0 => lock_out = << >>)
  BY <1>1 DEF UnitsFrom, rx_len
<1>3. /\ Len(rx_buf \o lock_out) = rx_len + Len(lock_out)
      /\ rx_len >= 1 => (rx_buf \o lock_out)[1] = rx_buf[1]
  BY <1>1, <1>2, ConcatProperties DEF UnitsFrom, rx_len
<1> QED
  BY <1>2, <1>3, UnitsLen

\* Faults are only ever counted up.
LEMMA FaultsCounted ==
  ASSUME faults \in Nat, [Next]_vars
  PROVE  faults' \in Nat /\ (faults' = 0 => faults = 0)
<1> USE DEF lockVars
<1>1. CASE CallerStep
  BY <1>1 DEF CallerStep, Send, Written, WriteTimeout, Check, Wake, WaitTimeout, LastCheck,
     Partial, PartialPeek, Header, Peek, ResetLen, ResetSem, Decode, SaveRam, SaveFlash, Closed
<1>2. CASE pair_locked \/ pair_unconnected \/ PowerLoss \/ main \/ main_fails
  BY <1>2 DEF pair_locked, pair_unconnected, PowerLoss, main, main_fails
<1>3. CASE Deliver \/ WriteCallback \/ Indicate
  BY <1>3 DEF Deliver, WriteCallback, Indicate
<1>4. CASE LockStep
  BY <1>4 DEF LockStep, LockAccepts, LockRefuses, LockRepeats
<1>5. CASE UNCHANGED vars
  BY <1>5 DEF vars
<1> QED
  BY <1>1, <1>2, <1>3, <1>4, <1>5 DEF Next

\* Steps that leave the answer under way as it is.
LEMMA AnswerKept ==
  ASSUME NothingSaid \/ \E f : Said(f),
         UNCHANGED <<rx_buf, lock_out, lock_in, step>>,
         in_flight' # "sent",
         pc' \notin Between /\ pc' \notin {"peek", "reset"},
         pc' \in Waiting => min_len' = HDR \/ (pc \in Waiting /\ min_len' = min_len)
  PROVE  (NothingSaid \/ \E f : Said(f))'
<1>1. CASE NothingSaid
  <2>1. NothingSaid'
    BY <1>1 DEF NothingSaid
  <2> QED
    BY <2>1
<1>2. ASSUME NEW f, Said(f) PROVE Said(f)'
  BY <1>2 DEF Said, AnswerCmds
<1> QED
  BY <1>1, <1>2

\* Sending and confirming a request.
LEMMA ExchangeWrite ==
  ASSUME OneExchange, faults = 0, Send \/ Written \/ WriteTimeout, pc' \in Exchanging
  PROVE  WriteOrder' /\ (NothingSaid \/ \E f : Said(f))'
<1> USE DEF Goto, Fail, nothingRead, lockVars
<1>1. CASE Send
  <2>1. /\ pc = "send" /\ pc' = "writing" /\ in_flight' = "sent" /\ write_sem' = 0
        /\ UNCHANGED <<rx_buf, lock_out, lock_in, step>>
    BY <1>1 DEF Send, WriteStart, Exchanging
  <2>2. NothingSaid
    BY <2>1 DEF OneExchange, Exchanging, Said, Between
  <2>3. WriteOrder'
    BY <2>1 DEF WriteOrder
  <2>4. NothingSaid'
    BY <2>1, <2>2 DEF NothingSaid, Between, Waiting
  <2> QED
    BY <2>3, <2>4
<1>2. CASE Written \/ WriteTimeout
  <2>1. /\ pc = "writing" /\ pc' = "check" /\ write_sem = 1 /\ in_flight' = in_flight
        /\ min_len' = HDR /\ UNCHANGED <<rx_buf, lock_out, lock_in, step>>
    BY <1>2 DEF Written, WriteTimeout, Exchanging
  <2>2. WriteOrder /\ (NothingSaid \/ \E f : Said(f))
    BY <2>1 DEF OneExchange, Exchanging
  <2>3. WriteOrder' /\ in_flight' = "none"
    BY <2>1, <2>2 DEF WriteOrder
  <2> QED
    BY <2>1, <2>2, <2>3, AnswerKept DEF Between, Waiting
<1> QED
  BY <1>1, <1>2

\* Waiting for it and reading its command id: the length waited for next is
\* that of the answer that is arriving.
LEMMA ExchangeWait ==
  ASSUME BufInv, OneExchange, faults = 0, pc' \in Exchanging,
         \/ Check \/ Wake \/ WaitTimeout \/ LastCheck \/ Partial \/ PartialPeek \/ Header
  PROVE  WriteOrder' /\ (NothingSaid \/ \E f : Said(f))'
<1> USE DEF Goto, Fail, nothingRead, lockVars, transportVars
<1>1. /\ UNCHANGED <<rx_buf, lock_out, lock_in, step, in_flight, write_sem>>
      /\ pc \in Waiting \cup {"partial"} /\ pc # "writing" /\ pc' # "writing"
  BY DEF Check, Wake, SemTaken, WaitTimeout, LastCheck, Partial, PartialPeek, Header,
         Waiting, Exchanging, AfterWait
<1>2. WriteOrder /\ (NothingSaid \/ \E f : Said(f))
  BY <1>1 DEF OneExchange, Exchanging, Waiting
<1>3. in_flight = "none" /\ WriteOrder'
  BY <1>1, <1>2 DEF WriteOrder
<1>4. CASE Wake \/ WaitTimeout \/ Partial \/ PartialPeek
  <2>1. /\ pc' \in {"check", "last_check", "partial_peek"}
        /\ pc' # "partial_peek" => pc = "sleep" /\ min_len' = min_len
    BY <1>4 DEF Wake, WaitTimeout, Partial, PartialPeek, Exchanging
  <2> QED
    BY <1>1, <1>2, <1>3, <2>1, AnswerKept DEF Between, Waiting
<1>5. CASE Check \/ LastCheck
  <2>1. /\ min_len' = min_len /\ pc \in {"check", "last_check"}
        /\ \/ pc' \in {"sleep", "partial"}
           \/ pc' = "header" /\ Enough(min_len) /\ min_len = HDR
           \/ pc' = "peek" /\ Enough(min_len) /\ min_len # HDR
    BY <1>5 DEF Check, LastCheck, AfterWait, Exchanging
  <2>2. CASE pc' # "peek"
    BY <1>1, <1>2, <1>3, <2>1, <2>2, AnswerKept DEF Between, Waiting
  <2>3. CASE pc' = "peek"
    <3>1. PICK f : Said(f)
      BY <1>2, <2>1, <2>3 DEF NothingSaid, Waiting
    <3>2. min_len = FrameLen(f.cmd) /\ rx_len >= min_len
      BY <2>1, <2>3, <3>1 DEF Said, Waiting, Enough
    <3>3. rx_buf \o lock_out = Units(f)
      BY <3>1 DEF Said
    <3>4. FrameLen(f.cmd) \in Nat
      BY UnitsLen, PairingAssumption
    <3>5. rx_len = min_len /\ lock_out = << >>
      BY <3>2, <3>3, <3>4, SaidSoFar
    <3>6. Said(f)'
      BY <1>1, <1>3, <2>1, <2>3, <3>1, <3>2, <3>5 DEF Said, AnswerCmds, Between, Waiting, rx_len
    <3> QED
      BY <1>3, <3>6
  <2> QED
    BY <2>2, <2>3
<1>6. CASE Header
  <2>1. pc = "header" /\ pc' = "check" /\ \E cmd \in HeaderCmds : min_len' = WantedLen(cmd)
    BY <1>6 DEF Header
  <2>2. min_len = HDR /\ HDR <= rx_len /\ HDR \in Nat \ {0}
    BY <2>1, PairingAssumption DEF BufInv, RecvInv
  <2>3. rx_buf # << >>
    BY <2>2 DEF rx_len
  <2>4. PICK f : Said(f)
    BY <1>2, <2>3 DEF NothingSaid
  <2>5. rx_len >= 1 /\ rx_buf[1] = <<f, 1>>
    <3>1. rx_buf \o lock_out = Units(f)
      BY <2>4 DEF Said
    <3> QED
      BY <2>2, <3>1, SaidSoFar
  <2>6. HeaderCmds = {f.cmd}
    BY <2>5 DEF HeaderCmds
  <2>7. WantedLen(f.cmd) = FrameLen(f.cmd)
    BY <2>4 DEF Said, AnswerCmds, WantedLen
  <2>8. min_len' = FrameLen(f.cmd)
    BY <2>1, <2>6, <2>7
  <2>9. Said(f)'
    BY <1>1, <1>3, <2>1, <2>4, <2>8 DEF Said, AnswerCmds, Between, Waiting
  <2> QED
    BY <1>3, <2>9
<1> QED
  BY <1>4, <1>5, <1>6

\* Taking the answer, resetting the transport, and going on to the next step.
LEMMA ExchangeTake ==
  ASSUME OneExchange, faults = 0, pc' \in Exchanging,
         Peek \/ ResetLen \/ ResetSem \/ Decode
  PROVE  WriteOrder' /\ (NothingSaid \/ \E f : Said(f))'
<1> USE DEF Goto, Fail, nothingRead, lockVars, transportVars
<1>1. /\ UNCHANGED <<lock_out, lock_in, in_flight, write_sem>>
      /\ pc \in {"peek", "reset", "reset_sem", "decode"} /\ pc' # "writing"
  BY DEF Peek, ResetLen, ResetRxLen, ResetSem, ResetRxSem, Decode, Exchanging
<1>2. WriteOrder /\ (NothingSaid \/ \E f : Said(f))
  BY <1>1 DEF OneExchange, Exchanging
<1>3. in_flight = "none" /\ WriteOrder'
  BY <1>1, <1>2 DEF WriteOrder
<1>4. CASE Peek
  <2>1. UNCHANGED <<rx_buf, step, min_len>> /\ pc = "peek" /\ pc' = "reset"
    BY <1>4 DEF Peek
  <2>2. PICK f : Said(f)
    BY <1>2, <2>1 DEF NothingSaid
  <2>3. Said(f)'
    BY <1>1, <2>1, <2>2 DEF Said, AnswerCmds, Between, Waiting, rx_len
  <2> QED
    BY <1>3, <2>3
<1>5. CASE ResetLen
  <2>1. rx_buf' = << >> /\ UNCHANGED <<step, min_len>> /\ pc = "reset" /\ pc' = "reset_sem"
    BY <1>5 DEF ResetLen, ResetRxLen
  <2>2. PICK f : Said(f)
    BY <1>2, <2>1 DEF NothingSaid
  <2>3. NothingSaid'
    BY <1>1, <2>1, <2>2 DEF Said, NothingSaid, Between, Waiting
  <2> QED
    BY <1>3, <2>3
<1>6. CASE ResetSem \/ Decode
  <2>1. UNCHANGED rx_buf /\ pc \in {"reset_sem", "decode"} /\ pc' \in {"decode", "send"}
    BY <1>6 DEF ResetSem, ResetRxSem, Decode, Exchanging
  <2>2. NothingSaid /\ lock_in = NoFrame
    BY <1>2, <2>1 DEF Said, NothingSaid, Between
  <2>3. NothingSaid'
    BY <1>1, <2>1, <2>2 DEF NothingSaid, Between, Waiting
  <2> QED
    BY <1>3, <2>3
<1> QED
  BY <1>4, <1>5, <1>6

\* An indication moves part of the answer into the buffer, where it fits.
LEMMA ExchangeIndicate ==
  ASSUME BufInv, OneExchange, faults = 0, Indicate, pc' \in Exchanging
  PROVE  WriteOrder' /\ (NothingSaid \/ \E f : Said(f))'
<1> USE DEF callerVars
<1>1. UNCHANGED <<pc, step, min_len, lock_in, write_sem, in_flight>>
  BY DEF Indicate, notify_cb
<1>2. PICK m \in 1..Len(lock_out) :
        /\ rx_buf' = Copy(SubSeq(lock_out, 1, m))
        /\ lock_out' = SubSeq(lock_out, m + 1, Len(lock_out))
  BY DEF Indicate, notify_cb
<1>3. WriteOrder /\ WriteOrder'
  BY <1>1 DEF OneExchange, WriteOrder
<1>4. PICK S : UnitsFrom(S)
  BY DEF BufInv
<1>5. lock_out # << >>
  BY <1>2
<1>6. PICK f : Said(f)
  BY <1>1, <1>5 DEF OneExchange, NothingSaid
<1>7. /\ rx_len \in Nat /\ Len(lock_out) \in Nat /\ RX_BUF \in Nat
      /\ rx_len + Len(lock_out) <= RX_BUF
  <2>1. rx_buf \o lock_out = Units(f)
    BY <1>6 DEF Said
  <2> QED
    BY <2>1, SaidSoFar, UnitsLen, PairingAssumption, RxBufAssumption
<1> DEFINE u == SubSeq(lock_out, 1, m)
           r == SubSeq(lock_out, m + 1, Len(lock_out))
<1>8. u \in Seq(S) /\ Len(u) = m /\ r \in Seq(S)
  BY <1>2, <1>4, <1>7 DEF UnitsFrom
<1>9. u \o r = lock_out
  <2>1. u \o r = SubSeq(lock_out, 1, Len(lock_out))
    BY <1>2, <1>4, <1>7, ConcatAdjacentSubSeq DEF UnitsFrom
  <2> QED
    BY <1>4, <2>1, SubSeqFull DEF UnitsFrom
<1> HIDE DEF r
<1>10. rx_buf' = rx_buf \o u
  <2> DEFINE space == RX_BUF - rx_len
             n == IF Len(u) < space THEN Len(u) ELSE space
  <2>1. rx_buf' = rx_buf \o SubSeq(u, 1, n)
    BY <1>2 DEF Copy
  <2>2. n = Len(u)
    <3> HIDE DEF u
    <3>1. m <= space /\ space \in Nat
      BY <1>2, <1>7
    <3> QED
      BY <1>8, <3>1
  <2> HIDE DEF n, u
  <2>3. SubSeq(u, 1, Len(u)) = u
    BY <1>8, SubSeqFull
  <2> QED
    BY <2>1, <2>2, <2>3
<1> HIDE DEF u
<1>11. rx_buf' \o lock_out' = rx_buf \o lock_out
  <2>1. (rx_buf \o u) \o r = rx_buf \o (u \o r)
    BY <1>4, <1>8, ConcatAssociative, SMTT(30) DEF UnitsFrom
  <2>2. lock_out' = r
    BY <1>2 DEF r
  <2> QED
    BY <1>9, <1>10, <2>1, <2>2
<1>12. pc \notin {"peek", "reset"}
  BY <1>5, <1>6 DEF Said
<1>13. rx_buf' \o lock_out' = Units(f)
  BY <1>6, <1>11 DEF Said
<1>14. Said(f)'
  BY <1>1, <1>6, <1>12, <1>13 DEF Said, AnswerCmds
<1> QED
  BY <1>3, <1>14

\* The lock gets the request of the step its sender is at, with nothing under
\* way, and starts to answer it, or to refuse.
LEMMA ExchangeLock ==
  ASSUME BufInv, HandInv, ExchangeInv, faults = 0, faults' = 0, pc' \in Exchanging,
         Deliver \/ WriteCallback \/ LockStep
  PROVE  WriteOrder' /\ (NothingSaid \/ \E f : Said(f))'
<1> USE DEF callerVars, transportVars
<1>1. UNCHANGED <<pc, step, min_len, rx_buf>>
  BY DEF Deliver, WriteDelivered, WriteCallback, write_cb, LockStep, LockAccepts, LockRefuses,
         LockRepeats
<1>2. WriteOrder /\ (NothingSaid \/ \E f : Said(f))
  BY <1>1 DEF ExchangeInv, OneExchange
<1>3. step \in 1..5 /\ lock_step \in 1..5
  BY DEF HandInv
<1>4. CASE Deliver
  <2>1. /\ in_flight = "sent" /\ in_flight' = "delivered" /\ lock_in' = Request
        /\ UNCHANGED <<lock_out, write_sem>>
    BY <1>4 DEF Deliver, WriteDelivered
  <2>2. NothingSaid /\ pc = "writing"
    BY <1>2, <2>1 DEF Said, WriteOrder
  <2>3. WriteOrder'
    BY <1>1, <1>2, <2>1, <2>2 DEF WriteOrder
  <2>4. Request.cmd = Sends[step]
    BY <1>3 DEF Request, Frame, Sends
  <2>5. NothingSaid'
    BY <1>1, <2>1, <2>2, <2>4 DEF NothingSaid, Between, Waiting
  <2> QED
    BY <2>3, <2>5
<1>5. CASE WriteCallback
  <2>1. /\ in_flight # "none" /\ in_flight' = "none" /\ UNCHANGED <<lock_out, lock_in>>
    BY <1>5 DEF WriteCallback, write_cb, lockVars
  <2>2. pc = "writing" /\ WriteOrder'
    BY <1>2, <2>1 DEF WriteOrder
  <2> QED
    BY <1>1, <1>2, <2>1, <2>2, AnswerKept DEF Between, Waiting
<1>6. CASE LockStep
  <2>1. /\ lock_in # NoFrame /\ lock_in' = NoFrame /\ UNCHANGED <<in_flight, write_sem>>
        /\ \/ Accepts(lock_in) /\ Say(Answer(lock_in))
           \/ \E f \in Refusal : Say(f)
    BY <1>6 DEF LockStep, LockAccepts, LockRefuses, LockRepeats
  <2>2. NothingSaid
    BY <1>2, <2>1 DEF Said
  <2>3. WriteOrder'
    BY <1>1, <1>2, <2>1 DEF WriteOrder
  <2>4. PICK f : Say(f) /\ f.cmd \in AnswerCmds(step)
    <3>1. CASE Accepts(lock_in) /\ Say(Answer(lock_in))
      <4>1. Sends[step] = Sends[lock_step]
        BY <2>1, <2>2, <3>1 DEF NothingSaid, Accepts
      <4>2. step = lock_step
        BY <1>3, <4>1 DEF Sends
      <4>3. Answer(lock_in).cmd = Expects[step]
        BY <1>3, <4>2 DEF Answer, Frame, Expects
      <4> QED
        BY <3>1, <4>3 DEF AnswerCmds
    <3>2. ASSUME NEW f \in Refusal, Say(f) PROVE f.cmd \in AnswerCmds(step)
      BY DEF Refusal, Frame, AnswerCmds
    <3> QED
      BY <2>1, <3>1, <3>2
  <2>5. rx_buf' \o lock_out' = Units(f)
    <3>1. rx_buf' = << >> /\ lock_out' = Units(f)
      BY <1>1, <2>2, <2>4 DEF NothingSaid, Say
    <3>2. << >> \o Units(f) = Units(f)
      BY UnitsSeq, ConcatEmptySeq
    <3> QED
      BY <3>1, <3>2
  <2>6. Said(f)'
    BY <1>1, <2>1, <2>2, <2>4, <2>5 DEF Said, NothingSaid, AnswerCmds
  <2> QED
    BY <2>3, <2>6
<1> QED
  BY <1>4, <1>5, <1>6

\* Every step keeps the exchanges apart.
LEMMA ExchangeStep == PairInv /\ ExchangeInv /\ [Next]_vars => ExchangeInv'
<1> SUFFICES ASSUME PairInv, ExchangeInv, [Next]_vars PROVE ExchangeInv'
  OBVIOUS
<1>1. faults' \in Nat /\ (faults' = 0 => faults = 0)
  BY FaultsCounted DEF ExchangeInv
<1>2. SUFFICES ASSUME faults = 0, faults' = 0, pc' \in Exchanging
               PROVE  WriteOrder' /\ (NothingSaid \/ \E f : Said(f))'
  BY <1>1 DEF ExchangeInv, OneExchange
<1>3. BufInv /\ HandInv /\ OneExchange
  BY DEF PairInv, ExchangeInv
<1>4. CASE Send \/ Written \/ WriteTimeout
  BY <1>2, <1>3, <1>4, ExchangeWrite
<1>5. CASE \/ Check \/ Wake \/ WaitTimeout \/ LastCheck \/ Partial \/ PartialPeek \/ Header
  BY <1>2, <1>3, <1>5, ExchangeWait
<1>6. CASE Peek \/ ResetLen \/ ResetSem \/ Decode
  BY <1>2, <1>3, <1>6, ExchangeTake
<1>7. CASE \/ SaveRam \/ SaveFlash \/ Closed \/ pair_unconnected \/ PowerLoss \/ main
           \/ main_fails
  BY <1>2, <1>7 DEF SaveRam, SaveFlash, Closed, pair_unconnected, PowerLoss, main,
     main_fails, Goto, Exchanging
<1>8. CASE pair_locked
  <2>1. /\ pc' = "send" /\ rx_buf' = << >> /\ lock_out' = << >> /\ lock_in' = NoFrame
        /\ in_flight' = "none"
    BY <1>2, <1>8 DEF pair_locked, Fail, Exchanging, NewSession, nuki_transport_init
  <2>2. WriteOrder' /\ NothingSaid'
    BY <2>1 DEF WriteOrder, NothingSaid, Between, Waiting
  <2> QED
    BY <2>2
<1>9. CASE Indicate
  BY <1>2, <1>3, <1>9, ExchangeIndicate
<1>10. CASE Deliver \/ WriteCallback \/ LockStep
  BY <1>2, <1>3, <1>10, ExchangeLock
<1>11. CASE UNCHANGED vars
  <2>1. UNCHANGED <<pc, step, min_len, rx_buf, lock_in, lock_out, in_flight, write_sem>>
    BY <1>11 DEF vars, callerVars, transportVars, lockVars
  <2>2. WriteOrder /\ (NothingSaid \/ \E f : Said(f))
    BY <1>2, <1>3, <2>1 DEF OneExchange
  <2>3. WriteOrder'
    BY <2>1, <2>2 DEF WriteOrder
  <2>4. NothingSaid => NothingSaid'
    BY <2>1 DEF NothingSaid
  <2>5. ASSUME NEW f, Said(f) PROVE Said(f)'
    BY <2>1, <2>5 DEF Said, AnswerCmds, rx_len
  <2> QED
    BY <2>2, <2>3, <2>4, <2>5
<1> QED
  BY <1>4, <1>5, <1>6, <1>7, <1>8, <1>9, <1>10, <1>11 DEF Next, CallerStep

\* The two ends of the handshake and the store agree in every state.
LEMMA AlwaysPairInv == Spec => []PairInv
<1>1. PairInv /\ [Next]_vars => PairInv'
  BY PairStep
<1> QED
  BY <1>1, PairInit, PTL DEF Spec

\* However the lock splits its answers into indications and however its answer
\* races the caller, nuki_transport_reset never throws away a byte of an
\* answer, as long as the lock sends none twice and none unasked.
THEOREM NoAnswerDiscarded == Spec => AnswersNotDiscarded
<1> DEFINE Kept == faults = 0 /\ pc = "reset" /\ pc' = "reset_sem" => rx_len = min_len
<1>1. Init => ExchangeInv
  BY DEF Init, ExchangeInv, OneExchange, Exchanging
<1>2. ExchangeInv => (faults = 0 /\ pc = "reset" => rx_len = min_len)
  BY DEF ExchangeInv, OneExchange, Exchanging, NothingSaid, Said
<1>3. ExchangeInv => [Kept]_vars
  BY <1>2
<1> QED
  BY <1>1, <1>3, ExchangeStep, AlwaysPairInv, PTL DEF Spec, AnswersNotDiscarded
=============================================================================
