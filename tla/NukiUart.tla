------------------------------ MODULE NukiUart ------------------------------
(***************************************************************************)
(* The uart1 frame protocol of nuki_uart_proto.c: the byte-wise receive   *)
(* state machine run by the UART interrupt (serial_cb), the message queue *)
(* between interrupt and thread, and the thread that dispatches requests  *)
(* and answers them.                                                      *)
(*                                                                        *)
(* The Loxone side is a nondeterministic sender of SOF | CMD | LEN |      *)
(* PAYLOAD frames over a wire that may lose or change single bytes.  It   *)
(* may send without waiting for answers.                                  *)
(***************************************************************************)
EXTENDS Naturals, Sequences

CONSTANTS
  MAX_PAYLOAD,   \* NUKI_UART_MAX_PAYLOAD (32 in the code)
  QUEUE_CAP,     \* capacity of nuki_uart_msgq (4 in the code)
  SOF_REQ,       \* NUKI_UART_FRAME_SOF_REQ (0xA5)
  SendCmds,      \* command codes the Loxone side uses
  PayloadBytes,  \* payload bytes it uses
  NoiseBytes     \* what a disturbed byte may turn into

CMD_STATUS == 1
CMD_PAIR == 2
CMD_STATE == 3
CMD_LOCK == 4
CMD_UNLOCK == 5
CMD_UNLATCH == 6
CMD_CALIBRATE == 7
SIZEOF_REQ_CALIBRATE == 2

ASSUME UartAssumption ==
  /\ MAX_PAYLOAD \in Nat /\ QUEUE_CAP \in Nat \ {0} /\ SOF_REQ \in Nat
  /\ SOF_REQ > MAX_PAYLOAD
  /\ SendCmds \subseteq Nat \ {SOF_REQ} /\ PayloadBytes \subseteq Nat
  /\ NoiseBytes \subseteq Nat

VARIABLES
  rx_state, rx_cmd, rx_len, rx_payload_pos,  \* owned by the interrupt
  msgq,           \* nuki_uart_msgq, one request class per queued frame
  busy,           \* the thread is inside a BLE operation
  out, out_pos,   \* Loxone side: frame being sent, bytes of it already sent
  quiet,          \* history: bytes sent since the last disturbance, capped
  clean,          \* history: no byte was ever disturbed
  polite,         \* history: the sender never had more than QUEUE_CAP open
  open,           \* history: requests sent and not yet answered
  dropped         \* history: a frame met a full queue

rxVars   == <<rx_state, rx_cmd, rx_len, rx_payload_pos>>
hostVars == <<out, out_pos>>
histVars == <<quiet, clean, polite, open, dropped>>
vars == <<rxVars, msgq, busy, hostVars, histVars>>

-----------------------------------------------------------------------------
(* dispatch_frame: what becomes of a request.  "instant" ones are answered *)
(* on the spot (STATUS and STATE from RAM, EINVAL for an unknown command   *)
(* or a CALIBRATE without its PIN); "ble" ones block the thread until the  *)
(* operation of NukiConnection has returned.                               *)

BleCmds == {CMD_PAIR, CMD_LOCK, CMD_UNLOCK, CMD_UNLATCH}

RequestClass(cmd, len) ==
  IF cmd \in BleCmds \/ (cmd = CMD_CALIBRATE /\ len = SIZEOF_REQ_CALIBRATE)
  THEN "ble" ELSE "instant"

-----------------------------------------------------------------------------
(* serial_cb, one received byte.                                            *)

PutOneShort(cmd, len) ==   \* mutant: the queue holds one frame less
  IF Len(msgq) + 1 < QUEUE_CAP
  THEN msgq' = Append(msgq, RequestClass(cmd, len)) /\ UNCHANGED dropped
  ELSE dropped' = TRUE /\ UNCHANGED msgq

\* k_msgq_put(..., K_NO_WAIT): a full queue drops the frame silently.
Put(cmd, len) ==
  IF Len(msgq) < QUEUE_CAP
  THEN msgq' = Append(msgq, RequestClass(cmd, len)) /\ UNCHANGED dropped
  ELSE dropped' = TRUE /\ UNCHANGED msgq

\* Where the state machine goes once a frame is complete.  (What it leaves in
\* rx_frame and rx_payload_pos is dead until overwritten; zero here.)
BackToSof ==
  rx_state' = "RX_WAIT_SOF" /\ rx_cmd' = 0 /\ rx_len' = 0 /\ rx_payload_pos' = 0

RxSof(b) ==
  /\ rx_state = "RX_WAIT_SOF"
  /\ rx_state' = IF b = SOF_REQ THEN "RX_WAIT_CMD" ELSE "RX_WAIT_SOF"
  /\ UNCHANGED <<rx_cmd, rx_len, rx_payload_pos, msgq, dropped>>

RxCmd(b) ==
  /\ rx_state = "RX_WAIT_CMD"
  /\ rx_state' = "RX_WAIT_LEN" /\ rx_cmd' = b
  /\ UNCHANGED <<rx_len, rx_payload_pos, msgq, dropped>>

LenTooLongOffByOne(b) == b > MAX_PAYLOAD + 1   \* mutant
LenTooLong(b) == b > MAX_PAYLOAD

RxLen(b) ==
  /\ rx_state = "RX_WAIT_LEN"
  /\ \/ /\ LenTooLong(b)
        /\ BackToSof
        /\ UNCHANGED <<msgq, dropped>>
     \/ /\ b = 0
        /\ Put(rx_cmd, 0)
        /\ BackToSof
     \/ /\ b # 0 /\ ~LenTooLong(b)
        /\ rx_state' = "RX_WAIT_PAYLOAD" /\ rx_len' = b /\ rx_payload_pos' = 0
        /\ UNCHANGED <<rx_cmd, msgq, dropped>>

LastByteLate == rx_payload_pos = rx_len         \* mutant: compared before ++
LastByte == rx_payload_pos + 1 = rx_len

RxPayload(b) ==
  /\ rx_state = "RX_WAIT_PAYLOAD"
  /\ \/ /\ LastByte
        /\ Put(rx_cmd, rx_len)
        /\ BackToSof
     \/ /\ ~LastByte
        /\ rx_payload_pos' = rx_payload_pos + 1
        /\ UNCHANGED <<rx_state, rx_cmd, rx_len, msgq, dropped>>

serial_cb(b) == RxSof(b) \/ RxCmd(b) \/ RxLen(b) \/ RxPayload(b)

-----------------------------------------------------------------------------
(* The Loxone side and the wire.                                            *)

NoFrame == << >>
Payloads == UNION {[1..n -> PayloadBytes] : n \in 0..MAX_PAYLOAD}

\* The longest run of clean, SOF-free bytes the receiver may need to find the
\* next frame boundary: what it still swallows as CMD, LEN and PAYLOAD, then
\* what is left of the frame it finds itself in.
RESYNC == 2 * MAX_PAYLOAD + 5

Begin ==
  /\ out = NoFrame
  /\ \E cmd \in SendCmds, p \in Payloads : out' = <<SOF_REQ, cmd, Len(p)>> \o p
  /\ polite' = (polite /\ open < QUEUE_CAP)
  /\ UNCHANGED <<rxVars, msgq, busy, out_pos, quiet, clean, open, dropped>>

\* Loxone's side after a byte went out.
Advance ==
  IF out_pos + 1 = Len(out)
  THEN out' = NoFrame /\ out_pos' = 0
  ELSE out_pos' = out_pos + 1 /\ UNCHANGED out

SendByte ==
  /\ out # NoFrame
  /\ LET b == out[out_pos + 1] IN
       /\ serial_cb(b)
       /\ quiet' = IF b = SOF_REQ /\ out_pos > 0 THEN 0
                   ELSE IF quiet < RESYNC THEN quiet + 1 ELSE quiet
  /\ Advance
  /\ open' = IF clean /\ ~dropped' /\ out' = NoFrame THEN open + 1 ELSE open
  /\ UNCHANGED <<busy, clean, polite>>

\* The byte is lost, or arrives changed.
DisturbByte ==
  /\ out # NoFrame
  /\ \/ UNCHANGED <<rxVars, msgq, dropped>>
     \/ \E b \in NoiseBytes : serial_cb(b)
  /\ quiet' = 0 /\ clean' = FALSE /\ open' = 0
  /\ Advance
  /\ UNCHANGED <<busy, polite>>

-----------------------------------------------------------------------------
(* nuki_uart_thread_fn.                                                     *)

AnsweredNot == UNCHANGED open               \* mutant: a handler returns silently
\* send_frame / send_simple_response: one response frame goes out.
Answered == open' = IF clean /\ ~dropped THEN open - 1 ELSE open

\* k_msgq_get and dispatch_frame.
Dispatch ==
  /\ ~busy /\ msgq # << >>
  /\ msgq' = Tail(msgq)
  /\ \/ Head(msgq) = "instant" /\ Answered /\ UNCHANGED busy
     \/ Head(msgq) = "ble" /\ busy' = TRUE /\ UNCHANGED open
  /\ UNCHANGED <<rxVars, hostVars, quiet, clean, polite, dropped>>

\* The BLE operation returned, with whatever rc; the answer is sent.
OperationDone ==
  /\ busy
  /\ busy' = FALSE
  /\ Answered
  /\ UNCHANGED <<rxVars, msgq, hostVars, quiet, clean, polite, dropped>>

Init ==
  /\ rx_state = "RX_WAIT_SOF" /\ rx_cmd = 0 /\ rx_len = 0 /\ rx_payload_pos = 0
  /\ msgq = << >> /\ busy = FALSE
  /\ out = NoFrame /\ out_pos = 0
  /\ quiet = RESYNC /\ clean = TRUE /\ polite = TRUE /\ open = 0 /\ dropped = FALSE

Next == Begin \/ SendByte \/ DisturbByte \/ Dispatch \/ OperationDone

Spec == Init /\ [][Next]_vars

-----------------------------------------------------------------------------
(* Properties.                                                              *)

RxTypeOK ==
  /\ rx_state \in {"RX_WAIT_SOF", "RX_WAIT_CMD", "RX_WAIT_LEN", "RX_WAIT_PAYLOAD"}
  /\ rx_cmd \in Nat /\ rx_len \in Nat /\ rx_payload_pos \in Nat

\* Every payload byte is stored inside rx_frame.payload, whatever arrives: in
\* RX_WAIT_PAYLOAD the write index is below the announced length, which fits
\* the buffer.
PayloadWriteInBounds ==
  rx_state = "RX_WAIT_PAYLOAD" => rx_payload_pos < rx_len /\ rx_len <= MAX_PAYLOAD

\* The receiver is exactly where the sender is.
InSync ==
  CASE out_pos = 0 -> rx_state = "RX_WAIT_SOF"
    [] out_pos = 1 -> rx_state = "RX_WAIT_CMD"
    [] out_pos = 2 -> rx_state = "RX_WAIT_LEN" /\ rx_cmd = out[2]
    [] OTHER -> /\ rx_state = "RX_WAIT_PAYLOAD"
                /\ rx_cmd = out[2] /\ rx_len = out[3] /\ rx_payload_pos = out_pos - 3

\* On an undisturbed line the receiver never loses step with the sender, so
\* every frame is decoded as sent, even when SOF occurs inside a payload.
FramingTransparent == clean => InSync

\* After a lost or changed byte the receiver finds the frame boundary again
\* within RESYNC clean bytes, as long as no payload among them contains SOF.
ResyncBounded == quiet = RESYNC => InSync

\* On an undisturbed line each frame Loxone has sent is queued, in progress or
\* answered, and answered once: serial_cb takes one frame off the wire per
\* frame sent, and every path through dispatch_frame answers.
EveryFrameAccounted ==
  clean /\ ~dropped => open = Len(msgq) + (IF busy THEN 1 ELSE 0)

\* A sender that never has more than QUEUE_CAP requests open (the protocol
\* document asks for one) never loses a request to the silent drop.
PoliteSenderNeverDropped == clean /\ polite => ~dropped
=============================================================================
