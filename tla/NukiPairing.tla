----------------------------- MODULE NukiPairing -----------------------------
(***************************************************************************)
(* nuki_pairing.c over nuki_transport.c, nuki_storage.c and the start-up  *)
(* of main.c: the five request/answer pairs of "Authorize App", what is   *)
(* kept of their result in RAM and in flash, and loss of power anywhere.  *)
(*                                                                        *)
(* Cryptography is symbolic.  A key pair is a number: LOCK_PK the lock's,  *)
(* the number of the handshake the bridge's; a shared key is the two      *)
(* numbers it is derived from, an authenticator the key and the fields it *)
(* covers.  Nonces, ids and the uuid are numbers too; 0 is a field that   *)
(* arrived changed with a CRC that fits.  The lock is external.           *)
(***************************************************************************)
EXTENDS NukiTransport

CONSTANTS
  HDR,                               \* a command id (2 bytes)
  STATUS_LEN, ERROR_LEN,             \* whole frames (5, 7, 36 and 88 bytes)
  KEY_LEN, AUTH_ID_LEN,
  FRAME_MAX,                         \* NUKI_FRAME_MAX_LEN (160)
  MAX_SESSIONS,                      \* bound: handshakes that are started
  MAX_FAULTS,                        \* bound: answers that are not as they should be
  Preemptible                        \* the caller is the shell thread

ASSUME PairingAssumption ==
  /\ HDR \in Nat \ {0} /\ FRAME_MAX \in Nat
  /\ \A len \in {STATUS_LEN, ERROR_LEN, KEY_LEN, AUTH_ID_LEN} :
       len \in Nat /\ HDR < len /\ len <= FRAME_MAX
  /\ FRAME_MAX <= RX_BUF
  /\ MAX_SESSIONS \in Nat /\ MAX_FAULTS \in Nat
  /\ Preemptible \in BOOLEAN

VARIABLES
  pc,           \* where nuki_app_pair is; "boot" and "dead": main
  step,         \* request/answer pair of the handshake, 1..5
  session,      \* handshakes started so far
  min_len,      \* argument of the wait in progress, then length to copy
  taken,        \* frame the last peek copied out, NoFrame if it parses to none
  rcv,          \* fields received: sl_pub, challenge, auth_id, lock_uuid, nonce_k2
  result,       \* last return value of nuki_app_pair
  ram, flash,   \* pairing/have_pairing and the settings record
  reported,     \* latest handshake nuki_app_pair has returned 0 for
  lock_step,    \* lock: request it expects next
  lock_in,      \* lock: request it has yet to answer
  lock_known,   \* lock: the bridge's public key and AUTH_DATA's app id
  lock_out,     \* lock: rest of the frame it is indicating
  lock_last,    \* lock: that frame
  lock_auths,   \* lock: authorisations it has confirmed
  faults

callerVars  == <<pc, step, session, min_len, taken, rcv, result>>
storageVars == <<ram, flash, reported>>
lockVars    == <<lock_step, lock_in, lock_known, lock_out, lock_last, lock_auths, faults>>
vars == <<transportVars, callerVars, storageVars, lockVars>>

LOCK_PK == 1
UUID    == 1
NONCE_K == 3

\* nuki_crypto_dh1 and kdf1: the same on both sides.
SharedKey(cl, sl) == [cl |-> cl, sl |-> sl]

\* nuki_crypto_h1.
h1(key, fields) == [key |-> key, fields |-> fields]

\* struct nuki_pairing_data without the address (NukiConnection has it).
Pairing(key, auth_id, app_id, lock_uuid) ==
  [shared_key |-> key, auth_id |-> auth_id, app_id |-> app_id, lock_uuid |-> lock_uuid]
NoPairing == Pairing(SharedKey(0, 0), 0, 0, 0)

\* What each step of nuki_pairing_run sends and waits for.
Sends   == <<"REQUEST_DATA", "PUBLIC_KEY", "AUTH_AUTHENTICATOR", "AUTH_DATA",
             "AUTH_ID_CONFIRMATION">>
Expects == <<"PUBLIC_KEY", "CHALLENGE", "CHALLENGE", "AUTH_ID", "STATUS">>
Cmds == {"PUBLIC_KEY", "CHALLENGE", "AUTH_ID", "STATUS", "ERROR_REPORT"}

Frame(cmd, data) == [cmd |-> cmd, data |-> data]
NoFrame == Frame("none", << >>)

\* The length recv_plain gives a frame once it has seen its command id; an
\* unexpected command is taken to be as long as the expected one.
FrameLen(cmd) ==
  CASE cmd = "STATUS" -> STATUS_LEN
    [] cmd = "ERROR_REPORT" -> ERROR_LEN
    [] cmd = "AUTH_ID" -> AUTH_ID_LEN
    [] OTHER -> KEY_LEN

Units(f) == [i \in 1..FrameLen(f.cmd) |-> <<f, i>>]

-----------------------------------------------------------------------------
(* Sending: send_plain and nuki_transport_write.                            *)

Goto(from, to) == pc = from /\ pc' = to

\* nuki_pairing_run gives up; pair_locked disconnects.
Fail(err) == pc' = "closing" /\ result' = err

nothingRead == <<step, session, min_len, taken, rcv>>

Send ==
  /\ \/ Goto("send", "writing") /\ WriteStart /\ UNCHANGED result
     \/ /\ pc = "send"                       \* bt_gatt_write refuses
        /\ write_sem' = 0
        /\ Fail("EIO")
        /\ UNCHANGED <<rx_buf, rx_sem, write_err, in_flight>>
  /\ UNCHANGED <<nothingRead, storageVars, lockVars>>

\* The write is confirmed; nuki_crypto_dh1 after the second one may fail.
Written ==
  /\ pc = "writing" /\ write_sem = 1
  /\ write_sem' = 0
  /\ \/ (write_err \/ step = 2) /\ Fail("EIO") /\ UNCHANGED min_len
     \/ ~write_err /\ pc' = "check" /\ min_len' = HDR /\ UNCHANGED result
  /\ UNCHANGED <<rx_buf, rx_sem, write_err, in_flight, step, session, taken, rcv,
                 storageVars, lockVars>>

WriteTimeout ==
  /\ pc = "writing" /\ write_sem = 0
  /\ Fail("ETIMEDOUT")
  /\ UNCHANGED <<transportVars, nothingRead, storageVars, lockVars>>

-----------------------------------------------------------------------------
(* Receiving: recv_plain.                                                   *)

AfterWait == IF min_len = HDR THEN "header" ELSE "peek"

Check ==
  /\ Goto("check", IF Enough(min_len) THEN AfterWait ELSE "sleep")
  /\ UNCHANGED <<transportVars, nothingRead, result, storageVars, lockVars>>

Wake ==
  /\ Goto("sleep", "check")
  /\ SemTaken
  /\ UNCHANGED <<nothingRead, result, storageVars, lockVars>>

\* RECV_TIMEOUT expires; wait_min tests once more.
WaitForever == UNCHANGED vars          \* mutant: K_FOREVER
WaitTimeout ==
  /\ Goto("sleep", "last_check") /\ rx_sem = 0
  /\ UNCHANGED <<transportVars, nothingRead, result, storageVars, lockVars>>

LastCheck ==
  /\ pc = "last_check"
  /\ \/ Enough(min_len) /\ pc' = AfterWait /\ UNCHANGED result
     \/ ~Enough(min_len) /\ min_len = HDR /\ Fail("EAGAIN")
     \/ ~Enough(min_len) /\ min_len # HDR /\ pc' = "partial" /\ UNCHANGED result
  /\ UNCHANGED <<transportVars, nothingRead, storageVars, lockVars>>

\* A frame cut short: what there is of it is copied out for the log, as much
\* as fits the local buffer.
ClippedNot(n) == n                     \* mutant: got not limited
Clipped(n) == IF n > FRAME_MAX THEN FRAME_MAX ELSE n

Partial ==
  /\ Goto("partial", "partial_peek")
  /\ min_len' = Clipped(rx_len)
  /\ UNCHANGED <<transportVars, step, session, taken, rcv, result, storageVars, lockVars>>

PartialPeek ==
  /\ pc = "partial_peek"
  /\ Fail("EAGAIN")
  /\ UNCHANGED <<transportVars, nothingRead, storageVars, lockVars>>

\* The command id at the front of the buffer: the frame's own, or any value if
\* the buffer starts inside a frame.
HeaderCmds ==
  LET unit == rx_buf[1] IN IF unit[2] = 1 THEN {unit[1].cmd} ELSE Cmds

WantedLenFixed(cmd) ==                   \* mutant: every answer is 32 bytes
  IF cmd \in {"STATUS", "ERROR_REPORT"} THEN FrameLen(cmd) ELSE KEY_LEN
WantedLen(cmd) ==
  IF cmd \in {"STATUS", "ERROR_REPORT"} THEN FrameLen(cmd) ELSE FrameLen(Expects[step])

Header ==
  /\ Goto("header", "check")
  /\ \E cmd \in HeaderCmds : min_len' = WantedLen(cmd)
  /\ UNCHANGED <<transportVars, step, session, taken, rcv, result, storageVars, lockVars>>

\* nuki_frame_parse_plain: one frame, whole and unmixed, passes the CRC.
Parsed(units) ==
  LET f == units[1][1] IN IF units = Units(f) /\ f.data # << >> THEN f ELSE NoFrame

Peek ==
  /\ Goto("peek", "reset")
  /\ taken' = Parsed(SubSeq(rx_buf, 1, min_len))
  /\ UNCHANGED <<transportVars, step, session, min_len, rcv, result, storageVars, lockVars>>

ResetLen ==
  /\ Goto("reset", "reset_sem")
  /\ ResetRxLen
  /\ UNCHANGED <<nothingRead, result, storageVars, lockVars>>

ResetSem ==
  /\ Goto("reset_sem", "decode")
  /\ ResetRxSem
  /\ UNCHANGED <<nothingRead, result, storageVars, lockVars>>

-----------------------------------------------------------------------------
(* nuki_pairing_run: what is done with an answer, and the next request.     *)

shared_key == SharedKey(session, rcv.sl_pub)
app_id     == session                \* sys_rand_get: new in every handshake
nonce_abf  == session

Request ==
  CASE step = 1 -> Frame("REQUEST_DATA", [want |-> "PUBLIC_KEY"])
    [] step = 2 -> Frame("PUBLIC_KEY", [pk |-> session])
    [] step = 3 -> Frame("AUTH_AUTHENTICATOR",
                     [mac |-> h1(shared_key, <<session, rcv.sl_pub, rcv.challenge>>)])
    [] step = 4 -> Frame("AUTH_DATA",
                     [app_id |-> app_id, nonce |-> nonce_abf,
                      mac |-> h1(shared_key, <<app_id, nonce_abf, rcv.challenge>>)])
    [] step = 5 -> Frame("AUTH_ID_CONFIRMATION",
                     [auth_id |-> rcv.auth_id,
                      mac |-> h1(shared_key, <<rcv.auth_id, rcv.nonce_k2>>)])

Received(f) ==
  CASE f.cmd = "PUBLIC_KEY" -> [rcv EXCEPT !.sl_pub = f.data.pk]
    [] f.cmd = "CHALLENGE" -> [rcv EXCEPT !.challenge = f.data.nonce]
    [] f.cmd = "AUTH_ID" -> [rcv EXCEPT !.auth_id = f.data.auth_id,
                                        !.lock_uuid = f.data.uuid, !.nonce_k2 = f.data.nonce]
    [] OTHER -> rcv

\* The memcmp of the authenticator and the check of the final status.
ContentOKStatusOnly(f) == f.cmd = "STATUS" => f.data.code = "COMPLETE"   \* mutant
ContentOKMacOnly(f) ==                                                   \* mutant
  f.cmd = "AUTH_ID" =>
    f.data.mac = h1(shared_key, <<f.data.auth_id, f.data.uuid, f.data.nonce, nonce_abf>>)
ContentOK(f) ==
  /\ f.cmd = "AUTH_ID" =>
       f.data.mac = h1(shared_key, <<f.data.auth_id, f.data.uuid, f.data.nonce, nonce_abf>>)
  /\ f.cmd = "STATUS" => f.data.code = "COMPLETE"

\* The end of recv_plain and the code up to the next send_plain, whose
\* nuki_crypto_keypair or _h1 may fail.
Decode ==
  /\ pc = "decode"
  /\ taken' = NoFrame
  /\ \/ /\ taken.cmd = "ERROR_REPORT"
        /\ Fail("EIO")
        /\ UNCHANGED <<step, rcv>>
     \/ /\ taken.cmd # "ERROR_REPORT"
        /\ \/ taken.cmd # Expects[step]
           \/ taken.cmd = Expects[step] /\ ~ContentOK(taken)
        /\ \/ Fail("EBADMSG")
           \/ step = 4 /\ taken.cmd = "AUTH_ID" /\ Fail("EIO")
        /\ UNCHANGED <<step, rcv>>
     \/ /\ taken.cmd = Expects[step] /\ ContentOK(taken)
        /\ rcv' = Received(taken)
        /\ \/ step < 5 /\ step' = step + 1 /\ pc' = "send" /\ UNCHANGED result
           \/ step < 5 /\ Fail("EIO") /\ UNCHANGED step
           \/ step = 5 /\ pc' = "save" /\ UNCHANGED <<step, result>>
  /\ UNCHANGED <<transportVars, session, min_len, storageVars, lockVars>>

-----------------------------------------------------------------------------
(* nuki_storage_save_pairing, and pair_locked around the handshake.         *)

\* The copy in RAM first ...
SaveRam ==
  /\ Goto("save", "flash")
  /\ ram' = Pairing(shared_key, rcv.auth_id, app_id, rcv.lock_uuid)
  /\ UNCHANGED <<transportVars, nothingRead, result, flash, reported, lockVars>>

\* ... then settings_save_one, whose error is the caller's.
SaveFlashIgnoringError ==                \* mutant: settings_save_one not looked at
  /\ Goto("flash", "closing")
  /\ flash' \in {flash, ram}
  /\ result' = "OK"
  /\ UNCHANGED <<transportVars, nothingRead, ram, reported, lockVars>>
SaveFlash ==
  /\ Goto("flash", "closing")
  /\ \/ flash' = ram /\ result' = "OK"
     \/ UNCHANGED flash /\ result' = "EIO"
  /\ UNCHANGED <<transportVars, nothingRead, ram, reported, lockVars>>

\* disconnect_from_lock, and nuki_app_pair returns.
Closed ==
  /\ Goto("closing", "idle")
  /\ reported' = IF result = "OK" THEN session ELSE reported
  /\ UNCHANGED <<transportVars, nothingRead, result, ram, flash, lockVars>>

\* nuki_app_pair: a new connection and its transport; nuki_crypto_init.
NewSession ==
  /\ session' = session + 1
  /\ step' = 1 /\ min_len' = HDR /\ taken' = NoFrame
  /\ rcv' = [sl_pub |-> 0, challenge |-> 0, auth_id |-> 0, lock_uuid |-> 0, nonce_k2 |-> 0]
  /\ nuki_transport_init
  /\ lock_step' = 1 /\ lock_in' = NoFrame /\ lock_out' = << >> /\ lock_last' = NoFrame
  /\ lock_known' = [pk |-> 0, app_id |-> 0]

pair_locked ==
  /\ pc = "idle" /\ session < MAX_SESSIONS
  /\ \/ pc' = "send" /\ result' = "none"
     \/ Fail("EIO")                          \* nuki_crypto_init
  /\ NewSession
  /\ UNCHANGED <<storageVars, lock_auths, faults>>

\* No connection, or one without the Pairing Service.
pair_unconnected ==
  /\ pc = "idle"
  /\ result' = "ENOTCONN"
  /\ UNCHANGED <<transportVars, pc, nothingRead, storageVars, lockVars>>

CallerStep ==
  \/ Send \/ Written \/ WriteTimeout \/ Check \/ Wake \/ WaitTimeout \/ LastCheck
  \/ Partial \/ PartialPeek \/ Header \/ Peek \/ ResetLen \/ ResetSem \/ Decode
  \/ SaveRam \/ SaveFlash \/ Closed

\* Power fails.  RAM is gone; a flash write in progress has happened or not.
PowerLoss ==
  /\ pc # "boot"
  /\ pc' = "boot"
  /\ flash' \in IF pc = "flash" THEN {flash, ram} ELSE {flash}
  /\ ram' = NoPairing
  /\ result' = "none"
  /\ UNCHANGED <<transportVars, nothingRead, reported, lockVars>>

\* main: settings_load, and nuki_settings_set with it, before nuki_app_init.  A
\* record that cannot be read, or of another size, leaves the bridge unpaired.
main ==
  /\ Goto("boot", "idle")
  /\ ram' \in {flash, NoPairing}
  /\ UNCHANGED <<transportVars, nothingRead, result, flash, reported, lockVars>>

\* bt_enable, nuki_crypto_init or settings_subsys_init fails: main returns.
main_fails ==
  /\ Goto("boot", "dead")
  /\ UNCHANGED <<transportVars, nothingRead, result, storageVars, lockVars>>

-----------------------------------------------------------------------------
(* The Bluetooth RX thread and the lock (external).                         *)

Linked == pc \notin {"idle", "boot", "dead"}

CallerReady ==
  \/ pc \notin {"writing", "sleep", "closing"}
  \/ pc = "writing" /\ write_sem = 1
  \/ pc = "sleep" /\ rx_sem = 1

CallbackMayRun == Linked /\ (Preemptible \/ ~CallerReady)

Deliver ==
  /\ Linked
  /\ WriteDelivered
  /\ lock_in' = Request
  /\ UNCHANGED <<callerVars, storageVars, lock_step, lock_known, lock_out, lock_last,
                 lock_auths, faults>>

WriteCallback ==
  /\ CallbackMayRun
  /\ \E failed \in BOOLEAN : write_cb(failed)
  /\ UNCHANGED <<callerVars, storageVars, lockVars>>

LockKey == SharedKey(lock_known.pk, LOCK_PK)

\* The lock's checks of a request against what it knows and last said.
Accepts(f) ==
  /\ f.cmd = Sends[lock_step]
  /\ lock_step = 3 => f.data.mac = h1(LockKey, <<lock_known.pk, LOCK_PK, 1>>)
  /\ lock_step = 4 => f.data.mac = h1(LockKey, <<f.data.app_id, f.data.nonce, 2>>)
  /\ lock_step = 5 => /\ f.data.auth_id = session
                      /\ f.data.mac = h1(LockKey, <<session, NONCE_K>>)

\* Its answer; it numbers an authorisation by the handshake it is made in.
Answer(f) ==
  CASE lock_step = 1 -> Frame("PUBLIC_KEY", [pk |-> LOCK_PK])
    [] lock_step \in {2, 3} -> Frame("CHALLENGE", [nonce |-> lock_step - 1])
    [] lock_step = 4 -> Frame("AUTH_ID",
                          [auth_id |-> session, uuid |-> UUID, nonce |-> NONCE_K,
                           mac |-> h1(LockKey, <<session, UUID, NONCE_K, f.data.nonce>>)])
    [] lock_step = 5 -> Frame("STATUS", [code |-> "COMPLETE"])

\* A frame that arrives changed: in one field with a CRC that fits, or not.  Not
\* among the changes is the one that nothing could notice: a Status of another
\* code turned into COMPLETE with its CRC, since nothing authenticates a Status
\* (nuki_pairing.c:283).  CredentialsAgree assumes that it does not happen.
Altered(f) ==
  {[f EXCEPT !.data = << >>]} \cup
  CASE f.cmd = "PUBLIC_KEY" -> {[f EXCEPT !.data.pk = 0]}
    [] f.cmd = "CHALLENGE" -> {[f EXCEPT !.data.nonce = 0]}
    [] f.cmd = "AUTH_ID" -> {[f EXCEPT !.data.auth_id = 0], [f EXCEPT !.data.uuid = 0],
                             [f EXCEPT !.data.nonce = 0]}
    [] OTHER -> {}

Refusal == {Frame("ERROR_REPORT", [code |-> "BAD"]), Frame("STATUS", [code |-> "ACCEPTED"])}

Say(f) == lock_out' = Units(f) /\ lock_last' = f

LockAccepts ==
  /\ lock_in # NoFrame /\ lock_out = << >> /\ Accepts(lock_in)
  /\ lock_in' = NoFrame
  /\ lock_step' = IF lock_step < 5 THEN lock_step + 1 ELSE 1
  /\ lock_known' = CASE lock_step = 2 -> [lock_known EXCEPT !.pk = lock_in.data.pk]
                     [] lock_step = 4 -> [lock_known EXCEPT !.app_id = lock_in.data.app_id]
                     [] OTHER -> lock_known
  /\ lock_auths' = lock_auths \cup
                   IF lock_step = 5
                   THEN {Pairing(LockKey, session, lock_known.app_id, UUID)} ELSE {}
  /\ \/ Say(Answer(lock_in)) /\ UNCHANGED faults
     \/ /\ faults < MAX_FAULTS
        /\ \E f \in Altered(Answer(lock_in)) : Say(f)
        /\ faults' = faults + 1
  /\ UNCHANGED <<transportVars, callerVars, storageVars>>

\* It refuses what does not fit, and now and then what does.
LockRefuses ==
  /\ lock_in # NoFrame /\ lock_out = << >>
  /\ IF Accepts(lock_in) THEN faults < MAX_FAULTS /\ faults' = faults + 1
                         ELSE UNCHANGED faults
  /\ lock_in' = NoFrame
  /\ \E f \in Refusal : Say(f)
  /\ UNCHANGED <<transportVars, callerVars, storageVars, lock_step, lock_known, lock_auths>>

\* It says something twice.
LockRepeats ==
  /\ lock_last # NoFrame /\ lock_out = << >> /\ faults < MAX_FAULTS
  /\ lock_out' = Units(lock_last)
  /\ faults' = faults + 1
  /\ UNCHANGED <<transportVars, callerVars, storageVars, lock_step, lock_in, lock_known,
                 lock_last, lock_auths>>

Indicate ==
  /\ CallbackMayRun
  /\ \E m \in 1..Len(lock_out) :
       /\ notify_cb(SubSeq(lock_out, 1, m))
       /\ lock_out' = SubSeq(lock_out, m + 1, Len(lock_out))
  /\ UNCHANGED <<callerVars, storageVars, lock_step, lock_in, lock_known, lock_last,
                 lock_auths, faults>>

LockStep == Linked /\ (LockAccepts \/ LockRefuses \/ LockRepeats)

Init ==
  /\ TransportInit
  /\ pc = "boot" /\ step = 1 /\ session = 0 /\ min_len = HDR /\ taken = NoFrame
  /\ rcv = [sl_pub |-> 0, challenge |-> 0, auth_id |-> 0, lock_uuid |-> 0, nonce_k2 |-> 0]
  /\ result = "none"
  /\ ram = NoPairing /\ flash = NoPairing /\ reported = 0
  /\ lock_step = 1 /\ lock_in = NoFrame /\ lock_known = [pk |-> 0, app_id |-> 0]
  /\ lock_out = << >> /\ lock_last = NoFrame /\ lock_auths = {} /\ faults = 0

Next ==
  \/ CallerStep \/ pair_locked \/ pair_unconnected \/ PowerLoss \/ main \/ main_fails
  \/ Deliver \/ WriteCallback \/ Indicate \/ LockStep

Spec == Init /\ [][Next]_vars

\* The caller's thread runs, and all its waits have a timeout.
FairSpec == Spec /\ WF_vars(CallerStep)

-----------------------------------------------------------------------------
(* Properties.                                                              *)

\* Whatever the bridge holds as its pairing, in RAM or in flash, before and
\* after loss of power, is an authorisation the lock has confirmed: the same
\* key, id, app id and uuid on both sides.
CredentialsAgree == {ram, flash} \subseteq lock_auths \cup {NoPairing}

\* Once "nuki pair" has reported success, flash holds that pairing or a later
\* one: neither loss of power nor a later failed attempt can undo it.
ReportedPairingSurvives == reported <= flash.app_id

\* recv_plain keeps within the transport's assertions and its own buffers,
\* the copy of a cut-off frame included.
RecvWithinBuffers ==
  /\ min_len <= RX_BUF
  /\ pc = "header" => rx_len >= HDR
  /\ pc \in {"peek", "partial_peek"} => min_len <= rx_len /\ min_len <= FRAME_MAX

\* "nuki pair" returns, whatever the lock says or leaves unsaid.
PairReturns == Linked ~> ~Linked

\* A lock that answers as it should never has a byte of an answer thrown away
\* by the reset after the previous one.
AnswersNotDiscarded ==
  [][faults = 0 /\ pc = "reset" /\ pc' = "reset_sem" => rx_len = min_len]_vars
=============================================================================
