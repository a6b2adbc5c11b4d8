----------------------------- MODULE NukiCommand -----------------------------
(***************************************************************************)
(* nuki_command.c over nuki_transport.c: get-state, lock-action and       *)
(* calibrate as exchanges of encrypted messages with the lock, from the   *)
(* first write on a fresh connection to the return of nuki_command_*().   *)
(*                                                                        *)
(* The lock (external) answers each request with messages of its own      *)
(* choice, one after the other, each split into indications as it likes.  *)
(* A message is known by its kind and by a number modulo 2 that tells it  *)
(* from its neighbours in the stream.                                     *)
(***************************************************************************)
EXTENDS NukiTransport

CONSTANTS
  HDR,         \* ADATA_HDR_LEN: nonce, authId, msgLen (30 bytes)
  MAX_CT,      \* largest accepted ciphertext: tag + MAX_PLAINTEXT (216 bytes)
  DRAIN_MAX,   \* messages drain_until_complete reads at most (10)
  Preemptible  \* the caller is the shell thread: callbacks can preempt it

ASSUME CommandAssumption ==
  /\ HDR \in Nat \ {0} /\ MAX_CT \in Nat \ {0} /\ DRAIN_MAX \in Nat \ {0}
  /\ HDR + MAX_CT <= RX_BUF
  /\ Preemptible \in BOOLEAN

VARIABLES
  pc,          \* where the caller is
  op,          \* "get_state", "lock_action", "calibrate"
  phase,       \* request being made: "state", "challenge", "action"; then "drain"
  min_len,     \* argument of the wait in progress, later length of the message
  taken,       \* what the last peek copied out decodes to, "none" before
  drained,     \* iterations of drain_until_complete
  got_state, result,
  lock_req,    \* lock: request it is answering
  lock_out,    \* lock: rest of the message it is indicating
  lock_n,      \* lock: number of that message, modulo 2
  lock_done    \* lock: has carried out the action and begun to say so

callerVars == <<pc, op, phase, min_len, taken, drained, got_state, result>>
lockVars   == <<lock_req, lock_out, lock_n, lock_done>>
vars == <<transportVars, callerVars, lockVars>>

Ops == {"get_state", "lock_action", "calibrate"}
FirstPhase(o) == IF o = "get_state" THEN "state" ELSE "challenge"

\* Message kinds and the lengths their headers announce.  BAD fails to
\* authenticate or to parse; LONG announces more than recv_encrypted accepts.
CtLen == [CHALLENGE |-> 2, STATES |-> 2, ACCEPTED |-> 1, COMPLETE |-> 1, ERROR |-> 1,
          UPDATE |-> 1, BAD |-> 1, LONG |-> MAX_CT + 1]
Kinds == DOMAIN CtLen

\* The units of a message; LONG never gets past its header.
Message(k, n) ==
  LET len == IF k = "LONG" THEN HDR ELSE HDR + CtLen[k]
  IN  [i \in 1..len |-> <<k, n, i>>]

-----------------------------------------------------------------------------
(* The caller.                                                              *)

Goto(from, to) == pc = from /\ pc' = to

Return(err) == pc' = "done" /\ result' = err

\* send_encrypted: build, encrypt, nuki_transport_write up to the wait.
Send ==
  /\ \/ /\ Goto("send", "writing")
        /\ WriteStart
        /\ UNCHANGED result
     \/ /\ pc = "send"                       \* bt_gatt_write refuses
        /\ write_sem' = 0
        /\ Return("EIO")
        /\ UNCHANGED <<rx_buf, rx_sem, write_err, in_flight>>
  /\ UNCHANGED <<op, phase, min_len, taken, drained, got_state, lockVars>>

\* Where a command goes on after a write: to the wait for an answer.
AfterWrite ==
  /\ pc' = "check"
  /\ min_len' = HDR
  /\ phase' = IF phase = "action" THEN "drain" ELSE phase

Written ==
  /\ pc = "writing" /\ write_sem = 1
  /\ write_sem' = 0
  /\ IF write_err
     THEN Return("EIO") /\ UNCHANGED <<phase, min_len>>
     ELSE AfterWrite /\ UNCHANGED result
  /\ UNCHANGED <<rx_buf, rx_sem, write_err, in_flight, op, taken, drained, got_state,
                 lockVars>>

\* The 5 s wait for write_cb expires; the request stays in flight.
IgnoreWriteTimeout ==      \* mutant: the return value is not looked at
  /\ pc = "writing" /\ write_sem = 0
  /\ pc' = "send"
  /\ UNCHANGED <<transportVars, op, phase, min_len, taken, drained, got_state, result,
                 lockVars>>
WriteTimeout ==
  /\ pc = "writing" /\ write_sem = 0
  /\ Return("ETIMEDOUT")
  /\ UNCHANGED <<transportVars, op, phase, min_len, taken, drained, got_state, lockVars>>

\* nuki_transport_wait_min: test, sleep, test again.
CheckNever ==              \* mutant: sleeps first
  /\ Goto("check", "sleep")
  /\ UNCHANGED <<transportVars, op, phase, min_len, taken, drained, got_state, result,
                 lockVars>>
AfterWait == IF min_len = HDR THEN "header" ELSE "peek"

Check ==
  /\ Goto("check", IF Enough(min_len) THEN AfterWait ELSE "sleep")
  /\ UNCHANGED <<transportVars, op, phase, min_len, taken, drained, got_state, result,
                 lockVars>>

Wake ==
  /\ Goto("sleep", "check")
  /\ SemTaken
  /\ UNCHANGED <<op, phase, min_len, taken, drained, got_state, result, lockVars>>

\* RECV_TIMEOUT expires; wait_min tests once more before it gives up, and
\* leaves the buffer as it is.
WaitForever == UNCHANGED vars          \* mutant: K_FOREVER
WaitTimeout ==
  /\ Goto("sleep", "last_check") /\ rx_sem = 0
  /\ UNCHANGED <<transportVars, op, phase, min_len, taken, drained, got_state, result,
                 lockVars>>

LastCheck ==
  /\ pc = "last_check"
  /\ \/ Enough(min_len) /\ pc' = AfterWait /\ UNCHANGED result
     \/ ~Enough(min_len) /\ Return("EAGAIN")
  /\ UNCHANGED <<transportVars, op, phase, min_len, taken, drained, got_state, lockVars>>

\* The length in a header: the message's own if the buffer starts with one,
\* any value if it starts inside a message.
HeaderLens ==
  IF \E k \in Kinds, n \in 0..1 : SubSeq(rx_buf, 1, HDR) = SubSeq(Message(k, n), 1, HDR)
  THEN {CtLen[rx_buf[1][1]]}
  ELSE 0..(MAX_CT + 1)

ImplausibleMissing(ct_len) == ct_len < 1       \* mutant: no upper bound
Implausible(ct_len) == ct_len < 1 \/ ct_len > MAX_CT

\* recv_encrypted peeks the header and sizes the message.
Header ==
  /\ pc = "header"
  /\ \E ct_len \in HeaderLens :
       \/ Implausible(ct_len) /\ pc' = "reset" /\ taken' = "BAD" /\ UNCHANGED min_len
       \/ /\ ~Implausible(ct_len)
          /\ min_len' = HDR + ct_len
          /\ pc' = "check"
          /\ UNCHANGED taken
  /\ UNCHANGED <<transportVars, op, phase, drained, got_state, result, lockVars>>

\* The kind nuki_crypto_d1 and nuki_frame_parse_auth find in the units copied
\* out: a message whole and unmixed authenticates, anything else does not.
Decoded(units) ==
  IF \E n \in 0..1 : units = Message(units[1][1], n) THEN units[1][1] ELSE "BAD"

\* nuki_transport_peek of the whole message ...
Peek ==
  /\ Goto("peek", "reset")
  /\ taken' = Decoded(SubSeq(rx_buf, 1, min_len))
  /\ UNCHANGED <<transportVars, op, phase, min_len, drained, got_state, result, lockVars>>

\* ... and the reset: the length under the mutex, then the semaphore.
ResetLen ==
  /\ Goto("reset", "reset_sem")
  /\ ResetRxLen
  /\ UNCHANGED <<op, phase, min_len, taken, drained, got_state, result, lockVars>>

ResetSem ==
  /\ Goto("reset_sem", "decode")
  /\ ResetRxSem
  /\ UNCHANGED <<op, phase, min_len, taken, drained, got_state, result, lockVars>>

NextMessage == pc' = "check" /\ min_len' = HDR

IsTerminalEarly(k) == k \in {"COMPLETE", "ACCEPTED"}   \* mutant
IsTerminal(k) == k = "COMPLETE"

\* drain_until_complete: one decoded message, with loop counter and limit.
Drain(k) ==
  /\ drained' = drained + 1
  /\ \E parsed \in BOOLEAN :                \* nuki_keyturner_state_parse
       got_state' = (got_state \/ (k = "STATES" /\ op = "lock_action" /\ parsed))
  /\ \/ k = "ERROR" /\ Return("EIO") /\ UNCHANGED min_len
     \/ IsTerminal(k) /\ Return("OK") /\ UNCHANGED min_len
     \/ /\ k # "ERROR" /\ ~IsTerminal(k)
        /\ IF drained + 1 < DRAIN_MAX
           THEN NextMessage /\ UNCHANGED result
           ELSE Return("ETIMEDOUT") /\ UNCHANGED min_len
  /\ UNCHANGED phase

Expected == IF phase = "state" THEN "STATES" ELSE "CHALLENGE"

\* get_state and request_challenge: the one message they wait for.
Answer(k) ==
  /\ \/ k # Expected /\ Return("EBADMSG") /\ UNCHANGED phase
     \/ /\ k = Expected /\ phase = "state"
        /\ \E err \in {"OK", "EINVAL"} : Return(err)   \* nuki_keyturner_state_parse
        /\ UNCHANGED phase
     \/ /\ k = Expected /\ phase = "challenge"
        /\ phase' = "action" /\ pc' = "send" /\ UNCHANGED result
  /\ UNCHANGED <<min_len, drained, got_state>>

Decode ==
  /\ pc = "decode"
  /\ taken' = "none"
  /\ \/ /\ taken = "BAD"
        /\ Return("EBADMSG")
        /\ UNCHANGED <<phase, min_len, drained, got_state>>
     \/ taken # "BAD" /\ phase = "drain" /\ Drain(taken)
     \/ taken # "BAD" /\ phase # "drain" /\ Answer(taken)
  /\ UNCHANGED <<transportVars, op, lockVars>>

CallerStep ==
  \/ Send \/ Written \/ WriteTimeout \/ Check \/ Wake \/ WaitTimeout \/ LastCheck
  \/ Header \/ Peek \/ ResetLen \/ ResetSem \/ Decode

\* The operation is over; the next one gets a new connection and a transport
\* initialised from scratch.
Reconnect ==
  /\ pc = "done"
  /\ op' \in Ops
  /\ phase' = FirstPhase(op')
  /\ nuki_transport_init
  /\ pc' = "send" /\ min_len' = HDR /\ taken' = "none" /\ drained' = 0
  /\ got_state' = FALSE /\ result' = "none"
  /\ lock_req' = "none" /\ lock_out' = << >> /\ lock_n' = 0 /\ lock_done' = FALSE

-----------------------------------------------------------------------------
(* The Bluetooth RX thread and the lock.                                    *)

CallerReady ==
  \/ pc \notin {"writing", "sleep", "done"}
  \/ pc = "writing" /\ write_sem = 1
  \/ pc = "sleep" /\ rx_sem = 1

CallbackMayRun == pc # "done" /\ (Preemptible \/ ~CallerReady)

Deliver ==
  /\ WriteDelivered
  /\ lock_req' = phase
  /\ UNCHANGED <<callerVars, lock_out, lock_n, lock_done>>

WriteCallback ==
  /\ CallbackMayRun
  /\ \E failed \in BOOLEAN : write_cb(failed)
  /\ UNCHANGED <<callerVars, lockVars>>

\* What the lock may say next, given the request it last received.
Replies ==
  CASE lock_req = "none" -> {}
    [] lock_req = "state" -> {"STATES", "ERROR", "BAD", "LONG"}
    [] lock_req = "challenge" -> {"CHALLENGE", "ERROR", "BAD"}
    [] OTHER -> {"ACCEPTED", "STATES", "UPDATE", "ERROR", "COMPLETE", "BAD"}

LockSays ==
  /\ lock_out = << >>
  /\ \E k \in Replies :
       /\ lock_out' = Message(k, lock_n)
       /\ lock_done' = (lock_done \/ k = "COMPLETE")
       /\ lock_req' = IF lock_req \in {"state", "challenge"} \/ k \in {"COMPLETE", "ERROR"}
                      THEN "none" ELSE lock_req
  /\ lock_n' = (lock_n + 1) % 2
  /\ UNCHANGED <<transportVars, callerVars>>

\* One indication: any non-empty front part of the message being sent.
Indicate ==
  /\ CallbackMayRun
  /\ \E m \in 1..Len(lock_out) :
       /\ notify_cb(SubSeq(lock_out, 1, m))
       /\ lock_out' = SubSeq(lock_out, m + 1, Len(lock_out))
  /\ UNCHANGED <<callerVars, lock_req, lock_n, lock_done>>

Init ==
  /\ TransportInit
  /\ op \in Ops /\ phase = FirstPhase(op)
  /\ pc = "send" /\ min_len = HDR /\ taken = "none" /\ drained = 0
  /\ got_state = FALSE /\ result = "none"
  /\ lock_req = "none" /\ lock_out = << >> /\ lock_n = 0 /\ lock_done = FALSE

Next == CallerStep \/ Reconnect \/ Deliver \/ WriteCallback \/ LockSays \/ Indicate

Spec == Init /\ [][Next]_vars

\* The caller's thread runs, and both its waits have a timeout.
FairSpec == Spec /\ WF_vars(CallerStep)

-----------------------------------------------------------------------------
(* Properties.                                                              *)

\* notify_cb never writes past rx_buf, however much the lock sends and
\* however late it is read.
RxBufferInBounds == rx_len <= RX_BUF

\* The two assertions of nuki_transport.c hold: no wait asks for more than the
\* buffer can hold, and whatever is peeked has arrived.
TransportAssertions ==
  /\ min_len <= RX_BUF
  /\ pc = "header" => rx_len >= HDR
  /\ pc = "peek" => rx_len >= min_len

\* The caller never sleeps on rx_sem, with nothing left to wake it, once the
\* bytes it waits for are in the buffer.
NoLostWakeup == pc = "sleep" /\ rx_sem = 0 => ~Enough(min_len)

\* A second request is never written while the first is still in flight: both
\* would share write_params, and write_sem could not tell whose end it signals.
OneWriteInFlight == pc = "send" => in_flight = "none"

\* A lock-action or calibrate that returns 0 was reported complete by the lock.
SuccessMeansCompleted == result = "OK" /\ op # "get_state" => lock_done

\* A command returns within DRAIN_MAX messages and its timeouts, whatever the
\* lock sends.
CommandReturns == pc # "done" ~> pc = "done"

\* Reading a message discards no byte of the message that follows it.
ResetDiscardsNothing ==
  [][pc = "reset" /\ pc' # "reset" /\ taken # "BAD" => rx_len = min_len]_vars
=============================================================================
