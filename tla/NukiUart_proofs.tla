--------------------------- MODULE NukiUart_proofs ---------------------------
(***************************************************************************)
(* Proofs about the uart1 frame receiver, for every buffer size, queue    *)
(* capacity, command and payload alphabet and noise.                      *)
(***************************************************************************)
EXTENDS NukiUart, SequenceTheorems, TLAPS

\* What Loxone has on the wire: nothing, or a well-formed frame not fully sent.
FrameOK ==
  \/ out = NoFrame /\ out_pos = 0
  \/ /\ out \in Seq(Nat) /\ Len(out) >= 3 /\ out # NoFrame
     /\ out[1] = SOF_REQ /\ out[3] = Len(out) - 3 /\ out[3] <= MAX_PAYLOAD
     /\ out_pos \in Nat /\ out_pos < Len(out)

RxInv == RxTypeOK /\ PayloadWriteInBounds /\ FrameOK

\* The inductive invariant of framing adds what the history variable records.
SyncInv == RxInv /\ clean \in BOOLEAN /\ FramingTransparent

\* serial_cb keeps the receiver's state well-typed and its write index in
\* bounds, whatever byte it is given.
LEMMA SerialKeepsBounds ==
  ASSUME NEW b \in Nat, RxTypeOK, PayloadWriteInBounds, serial_cb(b)
  PROVE  RxTypeOK' /\ PayloadWriteInBounds'
<1> USE UartAssumption DEF RxTypeOK, PayloadWriteInBounds, BackToSof
<1>1. CASE RxSof(b)
  BY <1>1 DEF RxSof
<1>2. CASE RxCmd(b)
  BY <1>2 DEF RxCmd
<1>3. CASE RxLen(b)
  BY <1>3 DEF RxLen, LenTooLong
<1>4. CASE RxPayload(b)
  BY <1>4 DEF RxPayload, LastByte
<1>5. QED
  BY <1>1, <1>2, <1>3, <1>4 DEF serial_cb

\* A frame Loxone begins is well-formed.
LEMMA BeginFrame ==
  ASSUME NEW cmd \in SendCmds, NEW p \in Payloads,
         out' = <<SOF_REQ, cmd, Len(p)>> \o p, out_pos = 0, out_pos' = out_pos
  PROVE  FrameOK'
<1> USE UartAssumption
<1>1. PICK n \in 0..MAX_PAYLOAD : p \in [1..n -> PayloadBytes]
  BY DEF Payloads
<1>2. p \in Seq(Nat) /\ Len(p) = n
  <2>1. p \in [1..n -> Nat]
    BY <1>1
  <2>2. p \in Seq(Nat)
    BY <2>1, SeqDef
  <2>3. QED
    BY <2>1, <2>2, LenProperties
<1>3. out' \in Seq(Nat) /\ Len(out') = 3 + n
  BY <1>2
<1>4. out'[1] = SOF_REQ /\ out'[3] = n
  BY <1>2
<1>5. QED
  BY <1>3, <1>4 DEF FrameOK, NoFrame

\* Sending a byte of a frame leaves the rest of it, or nothing.
LEMMA AdvanceFrame ==
  ASSUME FrameOK, out # NoFrame, Advance
  PROVE  FrameOK' /\ out[out_pos + 1] \in Nat
  BY SMTT(30) DEF FrameOK, Advance, NoFrame

\* The receiver starts in WAIT_SOF with an empty frame.
LEMMA RxInvInit == Init => RxInv
  BY DEF Init, RxInv, RxTypeOK, PayloadWriteInBounds, FrameOK

\* No byte takes serial_cb() outside its frame buffer.
LEMMA RxInvStep == RxInv /\ [Next]_vars => RxInv'
<1> SUFFICES ASSUME RxInv, [Next]_vars PROVE RxInv'
  OBVIOUS
<1> USE DEF RxInv
<1>1. CASE Begin
  <2>1. out_pos = 0
    BY <1>1 DEF Begin, FrameOK
  <2>2. FrameOK'
    BY <1>1, <2>1, BeginFrame DEF Begin
  <2>3. QED
    BY <1>1, <2>2 DEF Begin, RxTypeOK, PayloadWriteInBounds, rxVars
<1>2. CASE SendByte
  <2>1. FrameOK' /\ out[out_pos + 1] \in Nat
    BY <1>2, AdvanceFrame DEF SendByte
  <2>2. QED
    BY <1>2, <2>1, SerialKeepsBounds DEF SendByte
<1>3. CASE DisturbByte
  <2>1. FrameOK'
    BY <1>3, AdvanceFrame DEF DisturbByte
  <2>2. CASE UNCHANGED <<rxVars, msgq, dropped>>
    BY <2>1, <2>2 DEF RxTypeOK, PayloadWriteInBounds, rxVars
  <2>3. CASE \E b \in NoiseBytes : serial_cb(b)
    BY <2>1, <2>3, SerialKeepsBounds, UartAssumption
  <2>4. QED
    BY <1>3, <2>2, <2>3 DEF DisturbByte
<1>4. CASE Dispatch \/ OperationDone \/ UNCHANGED vars
  BY <1>4 DEF Dispatch, OperationDone, vars, rxVars, hostVars, RxTypeOK,
              PayloadWriteInBounds, FrameOK
<1>5. QED
  BY <1>1, <1>2, <1>3, <1>4 DEF Next

\* Whatever arrives on uart1, disturbed or not, serial_cb never stores a byte
\* outside rx_frame.payload.
THEOREM PayloadStaysInBounds == Spec => []PayloadWriteInBounds
<1>1. RxInv => PayloadWriteInBounds
  BY DEF RxInv
<1>2. QED
  BY RxInvInit, RxInvStep, <1>1, PTL DEF Spec

-----------------------------------------------------------------------------

\* A byte that reaches the receiver as sent keeps it in step.
LEMMA SendKeepsSync ==
  ASSUME RxInv, InSync, SendByte
  PROVE  InSync'
<1> DEFINE b == out[out_pos + 1]
<1>1. /\ out \in Seq(Nat) /\ Len(out) \in Nat /\ Len(out) >= 3
      /\ out[1] = SOF_REQ /\ out[2] \in Nat
      /\ out[3] \in Nat /\ out[3] = Len(out) - 3 /\ out[3] <= MAX_PAYLOAD
      /\ out_pos \in Nat /\ out_pos < Len(out)
  BY DEF SendByte, RxInv, FrameOK
<1>2. serial_cb(b)
  BY DEF SendByte
<1>3. /\ out_pos + 1 = Len(out) => out' = << >> /\ out_pos' = 0
      /\ out_pos + 1 # Len(out) => out' = out /\ out_pos' = out_pos + 1
  BY DEF SendByte, Advance, NoFrame
<1>4. CASE out_pos = 0
  <2>1. RxSof(SOF_REQ)
    BY <1>1, <1>2, <1>4 DEF InSync, serial_cb, RxSof, RxCmd, RxLen, RxPayload
  <2>2. out_pos' = 1
    BY <1>1, <1>3, <1>4
  <2>3. QED
    BY <2>1, <2>2 DEF InSync, RxSof
<1>5. CASE out_pos = 1
  <2>1. RxCmd(out[2])
    BY <1>1, <1>2, <1>5 DEF InSync, serial_cb, RxSof, RxCmd, RxLen, RxPayload
  <2>2. out_pos' = 2 /\ out' = out
    BY <1>1, <1>3, <1>5
  <2>3. QED
    BY <2>1, <2>2 DEF InSync, RxCmd
<1>6. CASE out_pos = 2
  <2>0. rx_state = "RX_WAIT_LEN" /\ rx_cmd = out[2]
    BY <1>6 DEF InSync
  <2>1. RxLen(out[3])
    <3>1. b = out[3]
      BY <1>6
    <3>2. RxLen(b)
      BY <1>2, <2>0 DEF serial_cb, RxSof, RxCmd, RxPayload
    <3>3. QED
      BY <3>1, <3>2, Zenon
  <2>2. ~LenTooLong(out[3])
    BY <1>1, UartAssumption DEF LenTooLong
  <2>3. CASE out[3] = 0
    <3>0. Len(out) = 3
      <4>1. Len(out) \in Nat /\ 0 = Len(out) - 3
        BY <1>1, <2>3, Zenon
      <4>2. QED
        BY <4>1
    <3>1. out_pos' = 0
      BY <1>3, <1>6, <3>0
    <3>2. rx_state' = "RX_WAIT_SOF"
      BY <2>1, <2>2, <2>3 DEF RxLen, BackToSof
    <3>3. QED
      BY <3>1, <3>2 DEF InSync
  <2>4. CASE out[3] # 0
    <3>1. out_pos' = 3 /\ out' = out
      BY <1>1, <1>3, <1>6, <2>4
    <3>2. rx_state' = "RX_WAIT_PAYLOAD" /\ rx_cmd' = rx_cmd /\ rx_len' = out[3]
          /\ rx_payload_pos' = 0
      BY <2>1, <2>2, <2>4 DEF RxLen
    <3>3. QED
      BY <2>0, <3>1, <3>2 DEF InSync
  <2>5. QED
    BY <2>3, <2>4
<1>7. CASE out_pos > 2
  <2>1. /\ rx_state = "RX_WAIT_PAYLOAD"
        /\ rx_cmd = out[2] /\ rx_len = out[3] /\ rx_payload_pos = out_pos - 3
    BY <1>1, <1>7 DEF InSync
  <2>2. RxPayload(b)
    BY <1>2, <2>1 DEF serial_cb, RxSof, RxCmd, RxLen, RxPayload
  <2>3. CASE out_pos + 1 = Len(out)
    <3>1. LastByte
      BY <1>1, <1>7, <2>1, <2>3 DEF LastByte
    <3>2. rx_state' = "RX_WAIT_SOF"
      BY <2>2, <3>1 DEF RxPayload, BackToSof
    <3>3. QED
      BY <1>3, <2>3, <3>2 DEF InSync
  <2>4. CASE out_pos + 1 # Len(out)
    <3>1. ~LastByte
      BY <1>1, <1>7, <2>1, <2>4 DEF LastByte
    <3>2. rx_payload_pos' = rx_payload_pos + 1 /\ UNCHANGED <<rx_state, rx_cmd, rx_len>>
      BY <2>2, <3>1 DEF RxPayload
    <3>3. out_pos' = out_pos + 1 /\ out' = out
      BY <1>3, <2>4
    <3>4. out_pos' \notin {0, 1, 2} /\ rx_payload_pos' = out_pos' - 3
      BY <1>1, <1>7, <2>1, <3>2, <3>3
    <3>5. rx_state' = "RX_WAIT_PAYLOAD" /\ rx_cmd' = out'[2] /\ rx_len' = out'[3]
      BY <2>1, <3>2, <3>3
    <3>6. QED
      BY <3>4, <3>5 DEF InSync
  <2>5. QED
    BY <2>3, <2>4
<1>8. QED
  BY <1>1, <1>4, <1>5, <1>6, <1>7

\* No step lets a receiver fed only whole frames fall out of step with the sender.
LEMMA SyncInvStep == SyncInv /\ [Next]_vars => SyncInv'
<1> SUFFICES ASSUME SyncInv, [Next]_vars PROVE SyncInv'
  OBVIOUS
<1>0. RxInv'
  BY RxInvStep DEF SyncInv
<1>1. CASE Begin
  BY <1>0, <1>1 DEF Begin, SyncInv, RxInv, FrameOK, FramingTransparent, InSync, rxVars, NoFrame
<1>2. CASE SendByte
  BY <1>0, <1>2, SendKeepsSync DEF SendByte, SyncInv, FramingTransparent
<1>3. CASE DisturbByte
  BY <1>0, <1>3 DEF DisturbByte, SyncInv, FramingTransparent
<1>4. CASE Dispatch \/ OperationDone \/ UNCHANGED vars
  BY <1>0, <1>4 DEF Dispatch, OperationDone, vars, rxVars, hostVars, histVars, SyncInv,
                    FramingTransparent, InSync
<1>5. QED
  BY <1>1, <1>2, <1>3, <1>4 DEF Next

\* On an undisturbed line the receiver is where the sender is, for every
\* command and payload, SOF bytes inside a payload included.
THEOREM FramingIsTransparent == Spec => []FramingTransparent
<1>1. Init => SyncInv
  BY RxInvInit DEF Init, SyncInv, FramingTransparent, InSync
<1>2. SyncInv => FramingTransparent
  BY DEF SyncInv
<1>3. QED
  BY <1>1, <1>2, SyncInvStep, PTL DEF Spec

-----------------------------------------------------------------------------

\* The queue and its history variables.
QueueTypeOK ==
  /\ msgq \in Seq({"instant", "ble"}) /\ open \in Nat
  /\ busy \in BOOLEAN /\ dropped \in BOOLEAN /\ polite \in BOOLEAN

\* A sender that has been polite so far has room for the frame it is sending.
PoliteHasRoom ==
  clean /\ polite => ~dropped /\ (out # NoFrame => open < QUEUE_CAP)

AccountInv == SyncInv /\ QueueTypeOK /\ EveryFrameAccounted /\ PoliteHasRoom

\* In step with the sender, serial_cb queues a frame exactly when its last byte
\* has been sent.
LEMMA SendPutsLast ==
  ASSUME RxInv, InSync, SendByte
  PROVE  \/ out' = NoFrame /\ \E cmd, len : Put(cmd, len)
         \/ out' # NoFrame /\ UNCHANGED <<msgq, dropped>>
<1> DEFINE b == out[out_pos + 1]
<1>1. /\ out \in Seq(Nat) /\ Len(out) \in Nat /\ Len(out) >= 3 /\ out # NoFrame
      /\ out[1] = SOF_REQ /\ out[2] \in Nat
      /\ out[3] \in Nat /\ out[3] = Len(out) - 3 /\ out[3] <= MAX_PAYLOAD
      /\ out_pos \in Nat /\ out_pos < Len(out)
  BY DEF SendByte, RxInv, FrameOK
<1>2. serial_cb(b)
  BY DEF SendByte
<1>3. /\ out_pos + 1 = Len(out) => out' = NoFrame
      /\ out_pos + 1 # Len(out) => out' = out
  BY DEF SendByte, Advance
<1>4. CASE out_pos \in {0, 1}
  <2>1. RxSof(b) \/ RxCmd(b)
    BY <1>2, <1>4 DEF InSync, serial_cb, RxLen, RxPayload
  <2>2. out' # NoFrame
    BY <1>1, <1>3, <1>4
  <2>3. QED
    BY <2>1, <2>2 DEF RxSof, RxCmd
<1>5. CASE out_pos = 2
  <2>1. rx_state = "RX_WAIT_LEN"
    BY <1>5 DEF InSync
  <2>2. RxLen(b) /\ b = out[3]
    BY <1>2, <1>5, <2>1 DEF serial_cb, RxSof, RxCmd, RxPayload
  <2>3. b \in Nat /\ b = Len(out) - 3 /\ ~LenTooLong(b)
    BY <1>1, <2>2, UartAssumption DEF LenTooLong
  <2>4. CASE b = 0
    <3>1. out_pos + 1 = Len(out)
      <4>1. Len(out) \in Nat /\ 0 = Len(out) - 3
        BY <1>1, <2>3, <2>4, Zenon
      <4>2. QED
        BY <1>5, <4>1
    <3>2. Put(rx_cmd, 0)
      BY <2>2, <2>3, <2>4 DEF RxLen
    <3>3. QED
      BY <1>3, <3>1, <3>2
  <2>5. CASE b # 0
    <3>1. out_pos + 1 # Len(out)
      BY <1>1, <1>5, <2>3, <2>5
    <3>2. UNCHANGED <<msgq, dropped>>
      BY <2>2, <2>3, <2>5 DEF RxLen
    <3>3. QED
      BY <1>1, <1>3, <3>1, <3>2
  <2>6. QED
    BY <2>4, <2>5
<1>6. CASE out_pos > 2
  <2>1. rx_state = "RX_WAIT_PAYLOAD" /\ rx_len = out[3] /\ rx_payload_pos = out_pos - 3
    BY <1>1, <1>6 DEF InSync
  <2>2. RxPayload(b)
    BY <1>2, <2>1 DEF serial_cb, RxSof, RxCmd, RxLen
  <2>3. LastByte <=> out_pos + 1 = Len(out)
    BY <1>1, <1>6, <2>1 DEF LastByte
  <2>4. CASE LastByte
    BY <1>3, <2>2, <2>3, <2>4 DEF RxPayload
  <2>5. CASE ~LastByte
    BY <1>1, <1>3, <2>2, <2>3, <2>5 DEF RxPayload
  <2>6. QED
    BY <2>4, <2>5
<1>7. QED
  BY <1>1, <1>4, <1>5, <1>6

\* What k_msgq_put does, in the terms of the invariant.
LEMMA PutEffect ==
  ASSUME NEW cmd, NEW len, Put(cmd, len), QueueTypeOK
  PROVE  /\ msgq' \in Seq({"instant", "ble"}) /\ dropped' \in BOOLEAN
         /\ \/ Len(msgq') = Len(msgq) + 1 /\ dropped' = dropped
            \/ Len(msgq) >= QUEUE_CAP /\ dropped'
<1>1. RequestClass(cmd, len) \in {"instant", "ble"}
  BY DEF RequestClass
<1>2. CASE Len(msgq) < QUEUE_CAP
  BY <1>1, <1>2 DEF Put, QueueTypeOK
<1>3. CASE ~(Len(msgq) < QUEUE_CAP)
  <2>1. dropped' = TRUE /\ msgq' = msgq
    BY <1>3 DEF Put
  <2>2. Len(msgq) >= QUEUE_CAP
    BY <1>3, UartAssumption DEF QueueTypeOK
  <2>3. QED
    BY <2>1, <2>2 DEF QueueTypeOK
<1>4. QED
  BY <1>2, <1>3

\* A byte of a frame keeps the accounting of frames, drops and answers.
LEMMA AccountSend == AccountInv /\ SendByte => QueueTypeOK' /\ EveryFrameAccounted' /\ PoliteHasRoom'
<1> SUFFICES ASSUME AccountInv, SendByte
             PROVE  QueueTypeOK' /\ EveryFrameAccounted' /\ PoliteHasRoom'
  OBVIOUS
<1>1. UNCHANGED <<busy, clean, polite>> /\ QueueTypeOK /\ RxInv /\ out # NoFrame
  BY DEF SendByte, AccountInv, SyncInv
<1>2. open' = IF clean /\ ~dropped' /\ out' = NoFrame THEN open + 1 ELSE open
  BY DEF SendByte
<1>3. CASE clean
  <2>1. InSync
    BY <1>3 DEF AccountInv, SyncInv, FramingTransparent
  <2>2. CASE out' # NoFrame /\ UNCHANGED <<msgq, dropped>>
    BY <1>1, <1>2, <2>2 DEF QueueTypeOK, EveryFrameAccounted, PoliteHasRoom, AccountInv
  <2>3. CASE out' = NoFrame /\ \E cmd, len : Put(cmd, len)
    <3>1. /\ msgq' \in Seq({"instant", "ble"}) /\ dropped' \in BOOLEAN
          /\ \/ Len(msgq') = Len(msgq) + 1 /\ dropped' = dropped
             \/ Len(msgq) >= QUEUE_CAP /\ dropped'
      BY <1>1, <2>3, PutEffect
    <3>2. QueueTypeOK'
      BY <1>1, <1>2, <3>1 DEF QueueTypeOK
    <3>3. ~dropped' => Len(msgq') = Len(msgq) + 1 /\ ~dropped /\ open' = open + 1
      BY <1>2, <1>3, <2>3, <3>1
    <3>4. EveryFrameAccounted'
      BY <1>1, <1>3, <3>3 DEF EveryFrameAccounted, AccountInv, QueueTypeOK
    <3>5. clean /\ polite => ~dropped'
      <4>1. SUFFICES ASSUME clean, polite PROVE Len(msgq) < QUEUE_CAP
        BY <3>1, <4>1, UartAssumption DEF AccountInv, PoliteHasRoom, QueueTypeOK
      <4>2. ~dropped /\ open < QUEUE_CAP
        BY <1>1, <4>1 DEF AccountInv, PoliteHasRoom
      <4>3. open = Len(msgq) + (IF busy THEN 1 ELSE 0)
        BY <4>1, <4>2 DEF AccountInv, EveryFrameAccounted
      <4>4. QED
        BY <1>1, <4>2, <4>3, UartAssumption DEF QueueTypeOK
    <3>6. QED
      BY <1>1, <2>3, <3>2, <3>4, <3>5 DEF PoliteHasRoom
  <2>4. QED
    BY <1>1, <2>1, <2>2, <2>3, SendPutsLast
<1>4. CASE ~clean
  <2>1. open' = open
    BY <1>2, <1>4
  <2>2. msgq' \in Seq({"instant", "ble"}) /\ dropped' \in BOOLEAN
    BY <1>1, PutEffect DEF SendByte, serial_cb, RxSof, RxCmd, RxLen, RxPayload, QueueTypeOK
  <2>3. QED
    BY <1>1, <1>4, <2>1, <2>2 DEF QueueTypeOK, EveryFrameAccounted, PoliteHasRoom
<1>5. QED
  BY <1>3, <1>4

\* A line disturbance keeps the accounting.
LEMMA AccountDisturb == AccountInv /\ DisturbByte => QueueTypeOK' /\ EveryFrameAccounted' /\ PoliteHasRoom'
<1> SUFFICES ASSUME AccountInv, DisturbByte
             PROVE  QueueTypeOK' /\ EveryFrameAccounted' /\ PoliteHasRoom'
  OBVIOUS
<1>1. clean' = FALSE /\ open' = 0 /\ UNCHANGED <<busy, polite>> /\ QueueTypeOK
  BY DEF DisturbByte, AccountInv
<1>2. msgq' \in Seq({"instant", "ble"}) /\ dropped' \in BOOLEAN
  <2>1. CASE UNCHANGED <<rxVars, msgq, dropped>>
    BY <1>1, <2>1 DEF QueueTypeOK
  <2>2. CASE \E b \in NoiseBytes : serial_cb(b)
    BY <1>1, <2>2, PutEffect DEF serial_cb, RxSof, RxCmd, RxLen, RxPayload, QueueTypeOK
  <2>3. QED
    BY <2>1, <2>2 DEF DisturbByte
<1>3. QED
  BY <1>1, <1>2 DEF QueueTypeOK, EveryFrameAccounted, PoliteHasRoom

\* Taking a frame off the queue keeps the accounting.
LEMMA AccountDispatch == AccountInv /\ Dispatch => QueueTypeOK' /\ EveryFrameAccounted' /\ PoliteHasRoom'
<1> SUFFICES ASSUME AccountInv, Dispatch
             PROVE  QueueTypeOK' /\ EveryFrameAccounted' /\ PoliteHasRoom'
  OBVIOUS
<1>1. UNCHANGED <<clean, polite, dropped, out>> /\ QueueTypeOK /\ ~busy
  BY DEF Dispatch, AccountInv, hostVars
<1>2. msgq' \in Seq({"instant", "ble"}) /\ Len(msgq') = Len(msgq) - 1 /\ Len(msgq) > 0
  BY <1>1 DEF Dispatch, QueueTypeOK
<1>3. clean /\ ~dropped => open = Len(msgq)
  BY <1>1 DEF AccountInv, EveryFrameAccounted, QueueTypeOK
<1>4. CASE Answered /\ UNCHANGED busy
  <2>1. open' \in Nat /\ (clean /\ ~dropped => open' = Len(msgq'))
    BY <1>1, <1>2, <1>3, <1>4 DEF Answered, QueueTypeOK
  <2>2. clean /\ ~dropped => open' <= open
    BY <1>1, <1>4 DEF Answered, QueueTypeOK
  <2>3. EveryFrameAccounted'
    BY <1>1, <1>2, <1>4, <2>1 DEF EveryFrameAccounted
  <2>4. PoliteHasRoom'
    BY <1>1, <2>1, <2>2, UartAssumption DEF PoliteHasRoom, AccountInv, QueueTypeOK
  <2>5. QED
    BY <1>1, <1>2, <1>4, <2>1, <2>3, <2>4 DEF QueueTypeOK
<1>5. CASE busy' = TRUE /\ UNCHANGED open
  <2>1. EveryFrameAccounted'
    BY <1>1, <1>2, <1>3, <1>5 DEF EveryFrameAccounted
  <2>2. PoliteHasRoom'
    BY <1>1, <1>5 DEF PoliteHasRoom, AccountInv
  <2>3. QED
    BY <1>1, <1>2, <1>5, <2>1, <2>2 DEF QueueTypeOK
<1>6. QED
  BY <1>4, <1>5 DEF Dispatch

\* The end of a BLE operation keeps the accounting.
LEMMA AccountDone == AccountInv /\ OperationDone => QueueTypeOK' /\ EveryFrameAccounted' /\ PoliteHasRoom'
<1> SUFFICES ASSUME AccountInv, OperationDone
             PROVE  QueueTypeOK' /\ EveryFrameAccounted' /\ PoliteHasRoom'
  OBVIOUS
<1>1. UNCHANGED <<msgq, clean, polite, dropped, out>> /\ QueueTypeOK /\ busy /\ busy' = FALSE
  BY DEF OperationDone, AccountInv, hostVars
<1>2. clean /\ ~dropped => open = Len(msgq) + 1
  BY <1>1 DEF AccountInv, EveryFrameAccounted
<1>3. open' \in Nat /\ (clean /\ ~dropped => open' = Len(msgq) /\ open' <= open)
  BY <1>1, <1>2 DEF OperationDone, Answered, QueueTypeOK
<1>4. EveryFrameAccounted'
  BY <1>1, <1>3 DEF EveryFrameAccounted, QueueTypeOK
<1>5. PoliteHasRoom'
  BY <1>1, <1>3, UartAssumption DEF PoliteHasRoom, AccountInv, QueueTypeOK
<1>6. QED
  BY <1>1, <1>3, <1>4, <1>5 DEF QueueTypeOK

\* Every step keeps the accounting.
LEMMA AccountInvStep == AccountInv /\ [Next]_vars => AccountInv'
<1> SUFFICES ASSUME AccountInv, [Next]_vars PROVE AccountInv'
  OBVIOUS
<1>0. SyncInv'
  BY SyncInvStep DEF AccountInv
<1>1. CASE Begin
  <2>1. UNCHANGED <<msgq, busy, clean, open, dropped>> /\ out = NoFrame
        /\ polite' = (polite /\ open < QUEUE_CAP)
    BY <1>1 DEF Begin
  <2>2. QueueTypeOK' /\ EveryFrameAccounted'
    BY <2>1 DEF AccountInv, QueueTypeOK, EveryFrameAccounted
  <2>3. PoliteHasRoom'
    BY <2>1 DEF AccountInv, PoliteHasRoom
  <2>4. QED
    BY <1>0, <2>2, <2>3 DEF AccountInv
<1>2. CASE UNCHANGED vars
  BY <1>0, <1>2 DEF vars, hostVars, histVars, AccountInv, QueueTypeOK, EveryFrameAccounted,
                    PoliteHasRoom
<1>3. QED
  BY <1>0, <1>1, <1>2, AccountSend, AccountDisturb, AccountDispatch, AccountDone
     DEF Next, AccountInv

\* The accounting starts balanced at zero.
LEMMA AccountInvInit == Init => AccountInv
<1>1. Init => SyncInv
  BY RxInvInit DEF Init, SyncInv, FramingTransparent, InSync
<1>2. Init => QueueTypeOK
  <2>1. Init => msgq \in Seq({"instant", "ble"}) /\ open \in Nat
    BY DEF Init
  <2>2. Init => busy \in BOOLEAN /\ dropped \in BOOLEAN /\ polite \in BOOLEAN
    BY Zenon DEF Init
  <2>3. QED
    BY <2>1, <2>2 DEF QueueTypeOK
<1>3. Init => EveryFrameAccounted
  BY DEF Init, EveryFrameAccounted
<1>4. Init => PoliteHasRoom
  BY DEF Init, PoliteHasRoom
<1>5. QED
  BY <1>1, <1>2, <1>3, <1>4 DEF AccountInv

\* On an undisturbed line every frame Loxone has sent is queued, in progress or
\* answered once, as long as the queue has never overflowed.
THEOREM FramesAreAccounted == Spec => []EveryFrameAccounted
<1>1. AccountInv => EveryFrameAccounted
  BY DEF AccountInv
<1>2. QED
  BY AccountInvInit, AccountInvStep, <1>1, PTL DEF Spec

\* A sender with at most QUEUE_CAP requests open never loses one to the silent
\* drop of a full queue.
THEOREM PoliteSenderKeepsFrames == Spec => []PoliteSenderNeverDropped
<1>1. AccountInv => PoliteSenderNeverDropped
  BY DEF AccountInv, PoliteHasRoom, PoliteSenderNeverDropped
<1>2. QED
  BY AccountInvInit, AccountInvStep, <1>1, PTL DEF Spec

-----------------------------------------------------------------------------
(* Resynchronisation.  While the receiver is out of step, what it may still *)
(* swallow before it looks for SOF again, and then what is left of the      *)
(* frame it finds itself in, use up the clean bytes of RESYNC.              *)

\* Bytes the receiver still takes for the rest of a frame, at most.
Swallows ==
  CASE rx_state = "RX_WAIT_CMD" -> MAX_PAYLOAD + 2
    [] rx_state = "RX_WAIT_LEN" -> MAX_PAYLOAD + 1
    [] rx_state = "RX_WAIT_PAYLOAD" -> rx_len - rx_payload_pos
    [] OTHER -> 0

\* Clean bytes that can have gone by while the receiver is out of step.
QuietBound ==
  /\ rx_state # "RX_WAIT_SOF" => quiet + Swallows <= MAX_PAYLOAD + 2
  /\ rx_state = "RX_WAIT_SOF" => quiet + (Len(out) - out_pos) <= 2 * MAX_PAYLOAD + 4

ResyncInv == RxInv /\ quiet \in 0..RESYNC /\ (~InSync => QuietBound)

\* How far the sender is from the end of its frame, before and after a byte.
LEMMA AdvanceLeft ==
  ASSUME FrameOK, out # NoFrame, Advance
  PROVE  /\ Len(out) \in Nat /\ out_pos \in Nat /\ Len(out') \in Nat /\ out_pos' \in Nat
         /\ Len(out) - out_pos <= MAX_PAYLOAD + 3
         /\ \/ out_pos' = 0 /\ Len(out') = 0
            \/ Len(out') - out_pos' = Len(out) - out_pos - 1
         /\ Len(out') - out_pos' <= MAX_PAYLOAD + 2
<1>1. /\ out \in Seq(Nat) /\ Len(out) \in Nat /\ out_pos \in Nat
      /\ Len(out) <= MAX_PAYLOAD + 3
  BY UartAssumption DEF FrameOK
<1>2. CASE out_pos + 1 = Len(out)
  BY <1>1, <1>2, UartAssumption DEF Advance, NoFrame
<1>3. CASE out_pos + 1 # Len(out)
  BY <1>1, <1>3, UartAssumption, SMTT(30) DEF Advance
<1> QED
  BY <1>2, <1>3

\* A byte that is not the SOF of its frame counts as quiet, or as none.
LEMMA QuietStep ==
  ASSUME quiet \in 0..RESYNC, SendByte
  PROVE  /\ quiet' \in 0..RESYNC /\ quiet' <= quiet + 1
         /\ out[out_pos + 1] = SOF_REQ /\ out_pos > 0 => quiet' = 0
  BY UartAssumption DEF SendByte, RESYNC

\* Of l payload bytes, p received, one more arrives: the bound is used up by
\* as much as the count of quiet bytes grows.
LEMMA OneByteUsed ==
  \A q, r, l, p, m \in Nat :
    q + (l - p) <= m + 2 /\ r <= q + 1 => r + (l - (p + 1)) <= m + 2
  OBVIOUS

\* What is left of a payload is within the bound.
LEMMA NothingUsed == \A l, p, m \in Nat : l <= m => 0 + (l - p) <= m + 2
  OBVIOUS

\* Between its SOF and its last byte the receiver uses one byte of its bound
\* per byte received, whatever the byte is.
LEMMA SwallowStep ==
  ASSUME RxInv, quiet \in 0..RESYNC, SendByte, QuietBound, rx_state # "RX_WAIT_SOF"
  PROVE  QuietBound'
<1> DEFINE b == out[out_pos + 1]
<1>1. b \in Nat /\ serial_cb(b) /\ RxTypeOK /\ PayloadWriteInBounds
  BY AdvanceFrame DEF SendByte, RxInv
<1>2. quiet \in Nat /\ quiet' \in Nat /\ quiet' <= quiet + 1 /\ MAX_PAYLOAD \in Nat
  BY QuietStep, UartAssumption DEF RESYNC
<1>3. Len(out') \in Nat /\ out_pos' \in Nat /\ Len(out') - out_pos' <= MAX_PAYLOAD + 2
  BY AdvanceLeft DEF SendByte, RxInv
<1>4. quiet + Swallows <= MAX_PAYLOAD + 2
  BY DEF QuietBound
<1>5. CASE RxCmd(b)
  <2>1. rx_state = "RX_WAIT_CMD" /\ rx_state' = "RX_WAIT_LEN"
    BY <1>5 DEF RxCmd
  <2>2. quiet = 0
    BY <1>2, <1>4, <2>1 DEF Swallows
  <2> QED
    BY <1>2, <2>1, <2>2 DEF QuietBound, Swallows
<1>6. CASE RxLen(b)
  <2>1. rx_state = "RX_WAIT_LEN" /\ quiet' <= 2
    BY <1>2, <1>4, <1>6 DEF RxLen, Swallows
  <2>2. CASE rx_state' = "RX_WAIT_SOF"
    BY <1>2, <1>3, <2>1, <2>2 DEF QuietBound
  <2>3. CASE rx_state' = "RX_WAIT_PAYLOAD" /\ rx_len' = b /\ rx_payload_pos' = 0
             /\ ~LenTooLong(b)
    <3>1. b <= MAX_PAYLOAD
      BY <1>1, <1>2, <2>3 DEF LenTooLong
    <3>2. Swallows' = b
      BY <1>1, <2>3 DEF Swallows
    <3> QED
      BY <1>1, <1>2, <2>1, <2>3, <3>1, <3>2 DEF QuietBound
  <2> QED
    BY <1>6, <2>2, <2>3 DEF RxLen, BackToSof
<1>7. CASE RxPayload(b)
  <2>1. /\ rx_state = "RX_WAIT_PAYLOAD" /\ rx_len \in Nat /\ rx_payload_pos \in Nat
        /\ quiet + (rx_len - rx_payload_pos) <= MAX_PAYLOAD + 2
    BY <1>1, <1>4, <1>7 DEF RxPayload, RxTypeOK, Swallows
  <2>2. CASE LastByte /\ rx_state' = "RX_WAIT_SOF"
    <3>1. quiet <= MAX_PAYLOAD + 1
      BY <1>2, <2>1, <2>2 DEF LastByte
    <3> QED
      BY <1>2, <1>3, <2>2, <3>1 DEF QuietBound
  <2>3. CASE rx_payload_pos' = rx_payload_pos + 1 /\ UNCHANGED <<rx_state, rx_len>>
    <3>1. /\ rx_state' = "RX_WAIT_PAYLOAD" /\ rx_len' = rx_len
          /\ rx_payload_pos' = rx_payload_pos + 1
      BY <2>1, <2>3
    <3>2. quiet' + (rx_len - (rx_payload_pos + 1)) <= MAX_PAYLOAD + 2
      BY <1>2, <2>1, OneByteUsed, Zenon
    <3>3. quiet' + (rx_len' - rx_payload_pos') <= MAX_PAYLOAD + 2
      BY <3>1, <3>2, Zenon
    <3> QED
      BY <3>1, <3>3 DEF QuietBound, Swallows
  <2> QED
    BY <1>7, <2>2, <2>3 DEF RxPayload, BackToSof
<1> QED
  BY <1>1, <1>5, <1>6, <1>7 DEF serial_cb, RxSof

\* Looking for SOF inside a frame, the receiver passes over the rest of it; a
\* SOF byte among them starts the count again.
LEMMA SearchStep ==
  ASSUME RxInv, quiet \in 0..RESYNC, SendByte, QuietBound, ~InSync,
         rx_state = "RX_WAIT_SOF"
  PROVE  InSync' \/ QuietBound'
<1> DEFINE b == out[out_pos + 1]
<1>1. RxSof(b) /\ FrameOK /\ out # NoFrame /\ Advance
  BY DEF SendByte, serial_cb, RxCmd, RxLen, RxPayload, RxInv
<1>2. quiet \in Nat /\ quiet' \in Nat /\ quiet' <= quiet + 1 /\ MAX_PAYLOAD \in Nat
  BY QuietStep, UartAssumption DEF RESYNC
<1>3. out_pos > 0
  BY <1>1, AdvanceLeft DEF InSync
<1>4. CASE b = SOF_REQ
  <2>1. quiet' = 0 /\ rx_state' = "RX_WAIT_CMD"
    BY <1>1, <1>3, <1>4, QuietStep DEF RxSof
  <2> QED
    BY <1>2, <2>1 DEF QuietBound, Swallows
<1>5. CASE b # SOF_REQ
  <2>1. rx_state' = "RX_WAIT_SOF"
    BY <1>1, <1>5 DEF RxSof
  <2>2. CASE out_pos' = 0
    BY <2>1, <2>2 DEF InSync
  <2>3. CASE Len(out') - out_pos' = Len(out) - out_pos - 1
    <3>1. /\ Len(out) \in Nat /\ out_pos \in Nat /\ Len(out') \in Nat /\ out_pos' \in Nat
      BY <1>1, AdvanceLeft
    <3>2. quiet + (Len(out) - out_pos) <= 2 * MAX_PAYLOAD + 4
      BY DEF QuietBound
    <3> QED
      BY <1>2, <2>1, <2>3, <3>1, <3>2 DEF QuietBound
  <2> QED
    BY <1>1, <2>2, <2>3, AdvanceLeft
<1> QED
  BY <1>4, <1>5

\* Right after a disturbance nothing has gone by yet.
LEMMA DisturbedBound ==
  ASSUME RxInv', quiet' = 0, Len(out') \in Nat, out_pos' \in Nat,
         Len(out') - out_pos' <= MAX_PAYLOAD + 2
  PROVE  QuietBound'
<1> USE UartAssumption DEF RxInv, RxTypeOK, PayloadWriteInBounds
<1>1. CASE rx_state' = "RX_WAIT_SOF"
  BY <1>1 DEF QuietBound
<1>2. CASE rx_state' = "RX_WAIT_PAYLOAD"
  <2>0. /\ rx_len' \in Nat /\ rx_payload_pos' \in Nat /\ MAX_PAYLOAD \in Nat
        /\ rx_len' <= MAX_PAYLOAD
    BY <1>2
  <2>1. 0 + (rx_len' - rx_payload_pos') <= MAX_PAYLOAD + 2
    BY <2>0, NothingUsed, Zenon
  <2>2. quiet' + (rx_len' - rx_payload_pos') <= MAX_PAYLOAD + 2
    BY <2>1, Zenon
  <2> QED
    BY <1>2, <2>2 DEF QuietBound, Swallows
<1>3. CASE rx_state' \in {"RX_WAIT_CMD", "RX_WAIT_LEN"}
  BY <1>3 DEF QuietBound, Swallows
<1> QED
  BY <1>1, <1>2, <1>3

\* Every step keeps the bound on the clean bytes seen out of step.
LEMMA ResyncStep == ResyncInv /\ [Next]_vars => ResyncInv'
<1> SUFFICES ASSUME ResyncInv, [Next]_vars PROVE ResyncInv'
  OBVIOUS
<1>0. RxInv' /\ RxInv
  BY RxInvStep DEF ResyncInv
<1>1. CASE Begin
  <2>1. out_pos = 0 /\ out_pos' = 0 /\ UNCHANGED <<rxVars, quiet>>
    BY <1>0, <1>1 DEF Begin, RxInv, FrameOK, NoFrame
  <2>2. CASE rx_state = "RX_WAIT_SOF"
    BY <1>0, <2>1, <2>2 DEF ResyncInv, InSync, rxVars
  <2>3. CASE rx_state # "RX_WAIT_SOF"
    <3>1. ~InSync
      BY <2>1, <2>3 DEF InSync
    <3>2. QuietBound'
      BY <2>1, <2>3, <3>1 DEF ResyncInv, QuietBound, Swallows, rxVars
    <3> QED
      BY <1>0, <2>1, <3>2 DEF ResyncInv
  <2> QED
    BY <2>2, <2>3
<1>2. CASE SendByte
  <2>1. quiet' \in 0..RESYNC
    BY <1>2, QuietStep DEF ResyncInv
  <2>2. CASE InSync
    BY <1>0, <1>2, <2>1, <2>2, SendKeepsSync DEF ResyncInv
  <2>3. CASE ~InSync
    BY <1>0, <1>2, <2>1, <2>3, SwallowStep, SearchStep DEF ResyncInv
  <2> QED
    BY <2>2, <2>3
<1>3. CASE DisturbByte
  <2>1. quiet' = 0
    BY <1>3 DEF DisturbByte
  <2>2. /\ Len(out') \in Nat /\ out_pos' \in Nat
        /\ Len(out') - out_pos' <= MAX_PAYLOAD + 2
    BY <1>0, <1>3, AdvanceLeft DEF DisturbByte, RxInv
  <2>3. quiet' \in 0..RESYNC
    BY <2>1, UartAssumption DEF RESYNC
  <2> QED
    BY <1>0, <2>1, <2>2, <2>3, DisturbedBound DEF ResyncInv
<1>4. CASE Dispatch \/ OperationDone \/ UNCHANGED vars
  <2>1. UNCHANGED <<rx_state, rx_cmd, rx_len, rx_payload_pos, out, out_pos, quiet>>
    BY <1>4 DEF Dispatch, OperationDone, vars, rxVars, hostVars, histVars
  <2>2. (~InSync => QuietBound)'
    BY <2>1 DEF ResyncInv, InSync, QuietBound, Swallows
  <2> QED
    BY <1>0, <2>1, <2>2 DEF ResyncInv
<1> QED
  BY <1>1, <1>2, <1>3, <1>4 DEF Next

\* Within RESYNC clean bytes free of SOF in a payload the receiver is back in
\* step, whatever was lost or changed before, for every buffer size.
THEOREM ResyncIsBounded == Spec => []ResyncBounded
<1>1. Init => ResyncInv
  <2> SUFFICES ASSUME Init PROVE ResyncInv
    OBVIOUS
  <2>1. quiet \in 0..RESYNC
    BY UartAssumption DEF Init, RESYNC
  <2>2. InSync
    BY DEF Init, InSync
  <2> QED
    BY <2>1, <2>2, RxInvInit DEF ResyncInv
<1>2. ResyncInv => ResyncBounded
  <2> SUFFICES ASSUME ResyncInv, quiet = RESYNC, ~InSync PROVE FALSE
    BY DEF ResyncBounded
  <2>1. QuietBound /\ RxTypeOK /\ PayloadWriteInBounds /\ FrameOK /\ MAX_PAYLOAD \in Nat
    BY UartAssumption DEF ResyncInv, RxInv
  <2>2. CASE rx_state = "RX_WAIT_SOF"
    <3>1. Len(out) - out_pos >= 0 /\ Len(out) \in Nat /\ out_pos \in Nat
      BY <2>1 DEF FrameOK, NoFrame
    <3>2. quiet + (Len(out) - out_pos) <= 2 * MAX_PAYLOAD + 4
      BY <2>1, <2>2 DEF QuietBound
    <3> QED
      BY <2>1, <3>1, <3>2 DEF RESYNC
  <2>3. CASE rx_state # "RX_WAIT_SOF"
    <3>1. Swallows \in Nat
      BY <2>1, <2>3 DEF Swallows, RxTypeOK, PayloadWriteInBounds
    <3>2. quiet + Swallows <= MAX_PAYLOAD + 2
      BY <2>1, <2>3 DEF QuietBound
    <3> QED
      BY <2>1, <3>1, <3>2 DEF RESYNC
  <2> QED
    BY <2>2, <2>3
<1> QED
  BY <1>1, <1>2, ResyncStep, PTL DEF Spec
=============================================================================
