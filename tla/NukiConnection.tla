--------------------------- MODULE NukiConnection ---------------------------
(***************************************************************************)
(* The connect-on-demand state machine of nuki_app.c: the threads that    *)
(* call pair / get-state / lock-action / calibrate, serialised by         *)
(* g_op_lock, against the Bluetooth host's callbacks and the scan-timeout *)
(* work item, which share g_conn, the ready flags, two semaphores and     *)
(* g_connecting with no lock at all.                                      *)
(*                                                                        *)
(* A caller's program counter stops where another thread can get in: at   *)
(* every blocking call, and, because the shell thread is preemptible,     *)
(* between the statements whose order matters.  Threads created with      *)
(* K_PRIO_COOP run from one blocking call to the next undisturbed (see    *)
(* Cooperative and CallbackMayRun).                                       *)
(***************************************************************************)
EXTENDS Naturals, FiniteSets

CONSTANTS
  Callers,      \* threads that issue BLE operations (shell, uart1, poller)
  CoopCallers,  \* those of them created with K_PRIO_COOP
  Pairers,      \* those that can call nuki_app_pair(): all but the poller
  NoOne         \* g_op_lock's owner when it is free

ASSUME CallersAssumption ==
  CoopCallers \subseteq Callers /\ Pairers \subseteq Callers /\ NoOne \notin Callers

VARIABLES
  pc, op,                     \* per caller: where it is, what it was asked to do
  g_op_lock,                  \* owner of the operation mutex
  g_conn,                     \* TRUE iff the connection pointer is not NULL
  g_gdio_ready, g_usdio_ready, g_need_gdio,
  g_ready_sem, g_disconnected_sem,
  g_connect_err, g_connecting,
  g_scan_timeout_work,        \* TRUE iff the delayable work is pending
  timeout_running,            \* scan_timeout_handler is inside bt_le_scan_stop
  found_pending,              \* device_found is inside bt_le_scan_stop
  conn_refs,                  \* references this module holds on the bt_conn
  stored,                     \* address of the RAM copy of the pairing data
  scanning, link, discovering,\* Bluetooth host: scan, connection slot, gatt_dm
  ready_seen                  \* history: usdio_discovered() succeeded since the
                              \* owner of g_op_lock entered connect_to_lock()

callerVars  == <<pc, op, g_op_lock>>
attemptVars == <<g_connecting, g_connect_err, g_scan_timeout_work, g_ready_sem>>
connVars    == <<g_conn, conn_refs, link, discovering, g_gdio_ready, g_usdio_ready>>
scanVars    == <<scanning, timeout_running, found_pending>>
vars == <<callerVars, attemptVars, connVars, scanVars,
          g_need_gdio, g_disconnected_sem, stored, ready_seen>>

Ops == {"pair", "cmd"}         \* cmd: get-state, lock-action or calibrate
Errs == {"OK", "ETIMEDOUT", "EIO", "ENOTSUP", "ENOTCONN", "EDRV"} \* EDRV: any host error
Addrs == {"lock", "other"}     \* advertisers: the Nuki lock, anything else
Pcs == {"idle", "waitlock", "begin", "clear", "arm", "scan", "sched", "wait",
        "expired", "exp_stop", "exp_check", "exp_disc", "check", "run", "save",
        "disc", "disc_req", "disc_wait", "unlock"}

\* Where a caller is blocked in the kernel; at every other pc it has the CPU.
BlockedPcs == {"idle", "waitlock", "scan", "wait", "exp_stop", "run", "disc_wait"}

-----------------------------------------------------------------------------
(* Scheduling.  uart1's thread and the poller are cooperative, at a higher  *)
(* priority than the Bluetooth RX thread and the system work queue; the     *)
(* shell thread is preemptible.                                             *)

AllPreemptible(c) == FALSE   \* mutant: the threads get K_PRIO_PREEMPT
Cooperative(c) == c \in CoopCallers

Ready(c) == \/ pc[c] \notin BlockedPcs
            \/ pc[c] = "wait" /\ g_ready_sem = 1
            \/ pc[c] = "disc_wait" /\ g_disconnected_sem = 1

\* A callback gets the CPU only when no cooperative caller is able to run.
CallbackMayRun == \A c \in Callers : Cooperative(c) => ~Ready(c)

-----------------------------------------------------------------------------
(* Bluetooth host services, modelled from how nuki_app.c uses them.         *)

\* bt_le_scan_stop: the scan is off when it returns, whatever it returns.
bt_le_scan_stop == scanning' = FALSE

\* bt_conn_disconnect: ends an established link.  One that is still being set
\* up is cancelled, which comes back as connected_err; that can come at any
\* time, so it needs no state here.
bt_conn_disconnect == link' = IF link = "up" THEN "closing" ELSE link

\* The host has one bt_conn (CONFIG_BT_MAX_CONN=1); it is free again when no
\* link uses it and nobody holds a reference.
SlotFree == link = "none" /\ conn_refs = 0

-----------------------------------------------------------------------------
(* Helpers of nuki_app.c.                                                   *)

EndAttemptUnguarded(err) ==  \* mutant: no test of g_connecting
  g_connecting' = FALSE /\ g_connect_err' = err /\ g_ready_sem' = 1

EndAttempt(err) ==
  IF g_connecting
  THEN g_connecting' = FALSE /\ g_connect_err' = err /\ g_ready_sem' = 1
  ELSE UNCHANGED <<g_connecting, g_connect_err, g_ready_sem>>

\* Only the first call of an attempt counts; it also cancels the scan timer.
finish_connect_attempt(err) ==
  /\ EndAttempt(err)
  /\ g_scan_timeout_work' = (g_scan_timeout_work /\ ~g_connecting)

\* ad_has_uuid || ad_has_nuki_name: the Keyturner UUID, in a UUID list or as
\* service data, or a name that starts with "Nuki_".  Only the lock has them.
AdIsNuki(addr) == addr = "lock"

\* An advertisement is the lock's: by its content before pairing, after that
\* by the stored address alone.
Match(addr) == IF stored = "none" THEN AdIsNuki(addr) ELSE addr = stored

\* bt_gatt_dm_start with the discovery manager free: it can start only over
\* an established link.  A failure ends the attempt and nothing else: the
\* link is left as it is.
DiscoverOrFinish(svc, established) ==
  \/ /\ established
     /\ discovering' = svc
     /\ UNCHANGED attemptVars
  \/ /\ discovering' = "none"
     /\ finish_connect_attempt("EDRV")

discover_keyturner_service == DiscoverOrFinish("usdio", link = "up")

\* Called from connected(): pairing looks for the Pairing Service first.
start_discovery == DiscoverOrFinish(IF g_need_gdio THEN "gdio" ELSE "usdio", TRUE)

\* nuki_transport_init takes a reference and gives it back when the
\* subscription fails, which it does when the link is gone.
TransportInitOK == link = "up" /\ conn_refs' = conn_refs + 1
TransportInitLeaks == conn_refs' = conn_refs + 1   \* mutant: no bt_conn_unref
TransportInitFails == conn_refs' = conn_refs

\* References given back by "if (ready) nuki_transport_release(...)".
ReleasedAlways(ready) == 1                         \* mutant: no test
Released(ready) == IF ready THEN 1 ELSE 0

\* bt_conn_unref(g_conn); g_conn = NULL, after released other references.
DropConnDangling(released) ==                      \* mutant: pointer kept
  conn_refs' = conn_refs - released - 1 /\ UNCHANGED g_conn
DropConn(released) ==
  conn_refs' = conn_refs - released - 1 /\ g_conn' = FALSE

Init ==
  /\ pc = [c \in Callers |-> "idle"]
  /\ op = [c \in Callers |-> "cmd"]
  /\ g_op_lock = NoOne
  /\ g_conn = FALSE /\ conn_refs = 0
  /\ g_gdio_ready = FALSE /\ g_usdio_ready = FALSE /\ g_need_gdio = FALSE
  /\ g_ready_sem = 0 /\ g_disconnected_sem = 0
  /\ g_connect_err = "OK" /\ g_connecting = FALSE
  /\ g_scan_timeout_work = FALSE
  /\ scanning = FALSE /\ timeout_running = FALSE /\ found_pending = FALSE
  /\ link = "none" /\ discovering = "none"
  /\ stored \in {"none", "lock"}
  /\ ready_seen = FALSE

-----------------------------------------------------------------------------
(* The callers: nuki_app_pair(), nuki_app_get_state(), ...                  *)

Goto(c, from, to) == pc[c] = from /\ pc' = [pc EXCEPT ![c] = to]

StartUnlocked(c, o) ==       \* mutant: the handler forgets k_mutex_lock
  /\ pc[c] = "idle"
  /\ op' = [op EXCEPT ![c] = o]
  /\ g_op_lock' = c
  /\ pc' = [pc EXCEPT ![c] = "begin"]
  /\ UNCHANGED <<attemptVars, connVars, scanVars, g_need_gdio,
                 g_disconnected_sem, stored, ready_seen>>

\* k_mutex_lock(&g_op_lock, K_FOREVER).
Start(c, o) ==
  /\ pc[c] = "idle"
  /\ op' = [op EXCEPT ![c] = o]
  /\ IF g_op_lock = NoOne
     THEN /\ g_op_lock' = c
          /\ pc' = [pc EXCEPT ![c] = "begin"]
     ELSE /\ pc' = [pc EXCEPT ![c] = "waitlock"]
          /\ UNCHANGED g_op_lock
  /\ UNCHANGED <<attemptVars, connVars, scanVars, g_need_gdio,
                 g_disconnected_sem, stored, ready_seen>>

ResetReadySemSkipped == UNCHANGED g_ready_sem      \* mutant: no k_sem_reset
ResetReadySem == g_ready_sem' = 0

\* Commands need stored credentials; then connect_to_lock()'s k_sem_reset.
Begin(c) ==
  /\ \/ /\ op[c] = "cmd" /\ stored = "none"
        /\ Goto(c, "begin", "unlock")
        /\ UNCHANGED <<g_ready_sem, ready_seen>>
     \/ /\ op[c] = "pair" \/ stored # "none"
        /\ Goto(c, "begin", "clear")
        /\ ResetReadySem
        /\ ready_seen' = FALSE
  /\ UNCHANGED <<op, g_op_lock, g_connecting, g_connect_err, g_scan_timeout_work,
                 connVars, scanVars, g_need_gdio, g_disconnected_sem, stored>>

Clear(c) ==
  /\ Goto(c, "clear", "arm")
  /\ g_connect_err' = "OK"
  /\ UNCHANGED <<op, g_op_lock, g_connecting, g_scan_timeout_work, g_ready_sem,
                 connVars, scanVars, g_need_gdio, g_disconnected_sem, stored, ready_seen>>

Arm(c) ==
  /\ Goto(c, "arm", "scan")
  /\ g_need_gdio' = (op[c] = "pair")
  /\ g_connecting' = TRUE
  /\ UNCHANGED <<op, g_op_lock, g_connect_err, g_scan_timeout_work, g_ready_sem,
                 connVars, scanVars, g_disconnected_sem, stored, ready_seen>>

\* bt_le_scan_start fails when a scan is already running, or in the driver;
\* connect_to_lock() then returns at once, g_connecting still set.
ScanStart(c) ==
  /\ \/ /\ ~scanning
        /\ scanning' = TRUE
        /\ Goto(c, "scan", "sched")
     \/ /\ Goto(c, "scan", "unlock")
        /\ UNCHANGED scanning
  /\ UNCHANGED <<op, g_op_lock, attemptVars, connVars, timeout_running, found_pending,
                 g_need_gdio, g_disconnected_sem, stored, ready_seen>>

Schedule(c) ==
  /\ Goto(c, "sched", "wait")
  /\ g_scan_timeout_work' = TRUE
  /\ UNCHANGED <<op, g_op_lock, g_connecting, g_connect_err, g_ready_sem,
                 connVars, scanVars, g_need_gdio, g_disconnected_sem, stored, ready_seen>>

\* k_sem_take(&g_ready_sem) succeeds; connect_to_lock() returns g_connect_err.
ConnectDone(c) ==
  /\ g_ready_sem = 1
  /\ g_ready_sem' = 0
  /\ Goto(c, "wait", IF g_connect_err = "OK" THEN "check" ELSE "unlock")
  /\ UNCHANGED <<op, g_op_lock, g_connecting, g_connect_err, g_scan_timeout_work,
                 connVars, scanVars, g_need_gdio, g_disconnected_sem, stored, ready_seen>>

\* SCAN_TIMEOUT (15 s) < CONNECT_TIMEOUT (20 s), both counted from the same
\* moment: the scan timer has fired or was cancelled before the wait expires.
ScanTimerSpent == ~g_scan_timeout_work /\ ~timeout_running

ConnectTimeout(c) ==
  /\ g_ready_sem = 0
  /\ ScanTimerSpent
  /\ Goto(c, "wait", "expired")
  /\ UNCHANGED <<op, g_op_lock, attemptVars, connVars, scanVars,
                 g_need_gdio, g_disconnected_sem, stored, ready_seen>>

GiveUp(c) ==
  /\ Goto(c, "expired", "exp_stop")
  /\ g_connecting' = FALSE
  /\ UNCHANGED <<op, g_op_lock, g_connect_err, g_scan_timeout_work, g_ready_sem,
                 connVars, scanVars, g_need_gdio, g_disconnected_sem, stored, ready_seen>>

GiveUpStop(c) ==
  /\ Goto(c, "exp_stop", "exp_check")
  /\ bt_le_scan_stop
  /\ UNCHANGED <<op, g_op_lock, attemptVars, connVars, timeout_running, found_pending,
                 g_need_gdio, g_disconnected_sem, stored, ready_seen>>

GiveUpCheck(c) ==
  /\ Goto(c, "exp_check", IF g_conn THEN "exp_disc" ELSE "unlock")
  /\ UNCHANGED <<op, g_op_lock, attemptVars, connVars, scanVars,
                 g_need_gdio, g_disconnected_sem, stored, ready_seen>>

\* The link is told to close, and nobody waits for disconnected().
GiveUpDisconnect(c) ==
  /\ Goto(c, "exp_disc", "unlock")
  /\ bt_conn_disconnect
  /\ UNCHANGED <<op, g_op_lock, attemptVars, g_conn, conn_refs, discovering,
                 g_gdio_ready, g_usdio_ready, scanVars, g_need_gdio,
                 g_disconnected_sem, stored, ready_seen>>

\* Pairing needs the Pairing Service; commands go straight on.
CheckReady(c) ==
  /\ Goto(c, "check", IF op[c] = "pair" /\ ~g_gdio_ready THEN "disc" ELSE "run")
  /\ UNCHANGED <<op, g_op_lock, attemptVars, connVars, scanVars,
                 g_need_gdio, g_disconnected_sem, stored, ready_seen>>

\* The exchange over GDIO or USDIO (nuki_pairing_run, nuki_command_*): it
\* fails at any time, by an answer or by its own timeouts, and can succeed
\* only over an established link.  Only a successful pairing has more to do.
Exchange(c) ==
  /\ \/ Goto(c, "run", "disc")
     \/ /\ link = "up" /\ op[c] = "pair"
        /\ Goto(c, "run", "save")
  /\ UNCHANGED <<op, g_op_lock, attemptVars, connVars, scanVars,
                 g_need_gdio, g_disconnected_sem, stored, ready_seen>>

\* bt_addr_le_copy(&data.addr, bt_conn_get_dst(g_conn)) reads whatever lies
\* at the bottom of memory when g_conn is NULL; nuki_storage_save_pairing
\* updates the RAM copy whether or not the write to flash succeeds.
SavePairing(c) ==
  /\ Goto(c, "save", "disc")
  /\ stored' = IF g_conn THEN "lock" ELSE "garbage"
  /\ UNCHANGED <<op, g_op_lock, attemptVars, connVars, scanVars,
                 g_need_gdio, g_disconnected_sem, ready_seen>>

\* disconnect_from_lock().
Disconnect(c) ==
  /\ Goto(c, "disc", IF g_conn THEN "disc_req" ELSE "unlock")
  /\ UNCHANGED <<op, g_op_lock, attemptVars, connVars, scanVars,
                 g_need_gdio, g_disconnected_sem, stored, ready_seen>>

DisconnectRequest(c) ==
  /\ Goto(c, "disc_req", "disc_wait")
  /\ g_disconnected_sem' = 0
  /\ bt_conn_disconnect
  /\ UNCHANGED <<op, g_op_lock, attemptVars, g_conn, conn_refs, discovering,
                 g_gdio_ready, g_usdio_ready, scanVars, g_need_gdio, stored, ready_seen>>

DisconnectWaitForever(c) ==                        \* mutant: K_FOREVER
  /\ g_disconnected_sem = 1
  /\ Goto(c, "disc_wait", "unlock")
  /\ g_disconnected_sem' = 0
  /\ UNCHANGED <<op, g_op_lock, attemptVars, connVars, scanVars, g_need_gdio, stored,
                 ready_seen>>

\* k_sem_take(&g_disconnected_sem, DISCONNECT_TIMEOUT): taken or timed out.
DisconnectWait(c) ==
  /\ Goto(c, "disc_wait", "unlock")
  /\ g_disconnected_sem' = 0
  /\ UNCHANGED <<op, g_op_lock, attemptVars, connVars, scanVars, g_need_gdio, stored,
                 ready_seen>>

\* k_mutex_unlock hands the mutex to the waiter of highest priority.
Waiters == {c \in Callers : pc[c] = "waitlock"}
NextOwners == {c \in Waiters : Cooperative(c) \/ \A d \in Waiters : ~Cooperative(d)}

Unlock(c) ==
  /\ pc[c] = "unlock"
  /\ op' = [op EXCEPT ![c] = "cmd"]    \* meaningless while idle
  /\ \/ /\ Waiters = {}
        /\ g_op_lock' = NoOne
        /\ pc' = [pc EXCEPT ![c] = "idle"]
     \/ \E w \in NextOwners :
          /\ g_op_lock' = w
          /\ pc' = [pc EXCEPT ![c] = "idle", ![w] = "begin"]
  /\ UNCHANGED <<attemptVars, connVars, scanVars, g_need_gdio,
                 g_disconnected_sem, stored, ready_seen>>

Step(c) ==
  \/ Begin(c) \/ Clear(c) \/ Arm(c) \/ ScanStart(c) \/ Schedule(c)
  \/ ConnectDone(c) \/ ConnectTimeout(c)
  \/ GiveUp(c) \/ GiveUpStop(c) \/ GiveUpCheck(c) \/ GiveUpDisconnect(c)
  \/ CheckReady(c) \/ Exchange(c) \/ SavePairing(c)
  \/ Disconnect(c) \/ DisconnectRequest(c) \/ DisconnectWait(c) \/ Unlock(c)

-----------------------------------------------------------------------------
(* Callbacks: scanning.                                                     *)

\* device_found up to and into its bt_le_scan_stop.  A report that no longer
\* finds the scan running gets an error from it and returns, like one that
\* does not match.
device_found(addr) ==
  /\ CallbackMayRun
  /\ scanning
  /\ ~g_conn /\ Match(addr)
  /\ ~found_pending
  /\ bt_le_scan_stop
  /\ found_pending' \in BOOLEAN     \* FALSE: the stop failed, return
  /\ UNCHANGED <<callerVars, attemptVars, connVars, timeout_running,
                 g_need_gdio, g_disconnected_sem, stored, ready_seen>>

\* The rest of device_found: the timer is cancelled and the connection
\* created, or the attempt ends with the error.
device_found_create ==
  /\ CallbackMayRun
  /\ found_pending
  /\ found_pending' = FALSE
  /\ g_scan_timeout_work' = FALSE
  /\ \/ /\ SlotFree /\ ~scanning
        /\ g_conn' = TRUE /\ conn_refs' = 1 /\ link' = "initiating"
        /\ UNCHANGED <<g_connecting, g_connect_err, g_ready_sem>>
     \/ /\ EndAttempt("EDRV")
        /\ UNCHANGED <<g_conn, conn_refs, link>>
  /\ UNCHANGED <<callerVars, discovering, g_gdio_ready, g_usdio_ready, scanning,
                 timeout_running, g_need_gdio, g_disconnected_sem, stored, ready_seen>>

\* scan_timeout_handler, up to and after its blocking bt_le_scan_stop.
scan_timeout_handler ==
  /\ CallbackMayRun
  /\ g_scan_timeout_work
  /\ g_scan_timeout_work' = FALSE
  /\ timeout_running' = TRUE
  /\ bt_le_scan_stop
  /\ UNCHANGED <<callerVars, g_connecting, g_connect_err, g_ready_sem, connVars,
                 found_pending, g_need_gdio, g_disconnected_sem, stored, ready_seen>>

scan_timeout_finish ==
  /\ CallbackMayRun
  /\ timeout_running
  /\ timeout_running' = FALSE
  /\ finish_connect_attempt("ETIMEDOUT")
  /\ UNCHANGED <<callerVars, connVars, scanning, found_pending,
                 g_need_gdio, g_disconnected_sem, stored, ready_seen>>

-----------------------------------------------------------------------------
(* Callbacks: connection and GATT discovery.                                *)

\* connected(conn, 0).
connected ==
  /\ CallbackMayRun
  /\ link = "initiating"
  /\ link' = "up"
  /\ start_discovery
  /\ UNCHANGED <<callerVars, g_conn, conn_refs, g_gdio_ready, g_usdio_ready,
                 scanVars, g_need_gdio, g_disconnected_sem, stored, ready_seen>>

\* connected(conn, err): refused, timed out or cancelled.
connected_err ==
  /\ CallbackMayRun
  /\ link = "initiating"
  /\ link' = "none"
  /\ DropConn(0)
  /\ finish_connect_attempt("EIO")
  /\ UNCHANGED <<callerVars, discovering, g_gdio_ready, g_usdio_ready,
                 scanVars, g_need_gdio, g_disconnected_sem, stored, ready_seen>>

\* The Pairing Service was found; its characteristic and the subscription
\* are optional, the Keyturner Service is looked for next in any case.
gdio_discovered ==
  /\ CallbackMayRun
  /\ discovering = "gdio"
  /\ \/ TransportInitOK /\ g_gdio_ready' = TRUE
     \/ TransportInitFails /\ UNCHANGED g_gdio_ready
  /\ discover_keyturner_service
  /\ UNCHANGED <<callerVars, g_conn, link, g_usdio_ready,
                 scanVars, g_need_gdio, g_disconnected_sem, stored, ready_seen>>

\* gdio_not_found and gdio_discovery_error: not fatal.
gdio_not_found ==
  /\ CallbackMayRun
  /\ discovering = "gdio"
  /\ discover_keyturner_service
  /\ UNCHANGED <<callerVars, g_conn, conn_refs, link, g_gdio_ready, g_usdio_ready,
                 scanVars, g_need_gdio, g_disconnected_sem, stored, ready_seen>>

\* Ready; or the characteristic is missing (ENOTSUP) or the subscription
\* fails (EDRV), and then the attempt ends with the link still established.
usdio_discovered ==
  /\ CallbackMayRun
  /\ discovering = "usdio"
  /\ discovering' = "none"
  /\ \/ /\ TransportInitOK
        /\ g_usdio_ready' = TRUE
        /\ ready_seen' = TRUE
        /\ finish_connect_attempt("OK")
     \/ /\ TransportInitFails
        /\ UNCHANGED <<g_usdio_ready, ready_seen>>
        /\ \E err \in {"ENOTSUP", "EDRV"} : finish_connect_attempt(err)
  /\ UNCHANGED <<callerVars, g_conn, link, g_gdio_ready,
                 scanVars, g_need_gdio, g_disconnected_sem, stored>>

\* usdio_not_found (ENOTSUP) and usdio_discovery_error (EIO).
usdio_failed ==
  /\ CallbackMayRun
  /\ discovering = "usdio"
  /\ discovering' = "none"
  /\ bt_conn_disconnect
  /\ \E err \in {"ENOTSUP", "EIO"} : finish_connect_attempt(err)
  /\ UNCHANGED <<callerVars, g_conn, conn_refs, g_gdio_ready, g_usdio_ready,
                 scanVars, g_need_gdio, g_disconnected_sem, stored, ready_seen>>

\* The peer, or the supervision timeout, drops an established link.
LinkLost ==
  /\ link = "up"
  /\ link' = "closing"
  /\ UNCHANGED <<callerVars, attemptVars, g_conn, conn_refs, discovering, g_gdio_ready,
                 g_usdio_ready, scanVars, g_need_gdio, g_disconnected_sem, stored, ready_seen>>

\* disconnected(): the host ends an outstanding discovery first.
disconnected ==
  /\ CallbackMayRun
  /\ link = "closing" /\ discovering = "none"
  /\ link' = "none"
  /\ DropConn(Released(g_gdio_ready) + Released(g_usdio_ready))
  /\ g_gdio_ready' = FALSE /\ g_usdio_ready' = FALSE
  /\ finish_connect_attempt("ENOTCONN")
  /\ g_disconnected_sem' = 1
  /\ UNCHANGED <<callerVars, discovering, scanVars, g_need_gdio, stored, ready_seen>>

Host ==
  \/ \E addr \in Addrs : device_found(addr)
  \/ device_found_create \/ scan_timeout_handler \/ scan_timeout_finish
  \/ connected \/ connected_err
  \/ gdio_discovered \/ gdio_not_found \/ usdio_discovered \/ usdio_failed
  \/ LinkLost \/ disconnected

OpsOf(c) == IF c \in Pairers THEN Ops ELSE Ops \ {"pair"}

Next == \/ \E c \in Callers : (\E o \in OpsOf(c) : Start(c, o)) \/ Step(c)
        \/ Host

Spec == Init /\ [][Next]_vars

\* Every blocking call of a caller returns: semaphores are taken with a
\* timeout, HCI commands and the exchange have their own, and the mutex is
\* handed over directly.  Timers fire and host callbacks that are due are
\* delivered.  Nothing makes an advertisement arrive or a peer answer.
Fairness ==
  /\ \A c \in Callers : WF_vars(Step(c))
  /\ WF_vars(device_found_create)
  /\ WF_vars(scan_timeout_handler)
  /\ WF_vars(scan_timeout_finish)
  /\ WF_vars(disconnected)

FairSpec == Spec /\ Fairness

-----------------------------------------------------------------------------
(* Properties.                                                              *)

CallersTypeOK ==
  /\ pc \in [Callers -> Pcs] /\ op \in [Callers -> Ops]
  /\ g_op_lock \in Callers \cup {NoOne}
  /\ stored \in {"none", "lock", "garbage"}

AttemptTypeOK ==
  /\ g_connecting \in BOOLEAN /\ g_connect_err \in Errs
  /\ g_ready_sem \in {0, 1} /\ g_disconnected_sem \in {0, 1}
  /\ g_scan_timeout_work \in BOOLEAN /\ g_need_gdio \in BOOLEAN
  /\ timeout_running \in BOOLEAN /\ found_pending \in BOOLEAN /\ scanning \in BOOLEAN
  /\ ready_seen \in BOOLEAN

ConnTypeOK ==
  /\ g_conn \in BOOLEAN /\ g_gdio_ready \in BOOLEAN /\ g_usdio_ready \in BOOLEAN
  /\ link \in {"none", "initiating", "up", "closing"}
  /\ discovering \in {"none", "gdio", "usdio"}

\* Types of the callers' state and of the shared variables of nuki_app.c; the
\* module never holds more than three references on its bt_conn.
TypeOK == CallersTypeOK /\ AttemptTypeOK /\ ConnTypeOK /\ conn_refs \in 0..3

B(flag) == IF flag THEN 1 ELSE 0

\* References on the single bt_conn balance on every path through
\* device_found, the discovery callbacks, connected() and disconnected(): one
\* for g_conn and one for each transport that is ready.  A lost one would
\* keep the only connection slot busy until reboot.
RefsBalanced == conn_refs = B(g_conn) + B(g_gdio_ready) + B(g_usdio_ready)

\* g_conn is set exactly while the host uses the connection slot, so the
\* stale-pointer tests (conn != g_conn, if (g_conn)) tell the truth, and the
\* transports are only ever ready on a live slot.
SlotAccounting ==
  /\ g_conn <=> link # "none"
  /\ g_gdio_ready \/ g_usdio_ready => link \in {"up", "closing"}
  /\ discovering # "none" => link \in {"up", "closing"} /\ ~g_usdio_ready
  /\ discovering = "gdio" => ~g_gdio_ready

\* connect_to_lock() returns 0 to uart1 and the poller only if the Keyturner
\* Service was discovered and subscribed to since the call began: neither a
\* result left behind by an earlier attempt, the shell's included, nor a late
\* callback of it is taken for this one's.
SuccessIsReal == \A c \in CoopCallers : pc[c] = "check" => ready_seen

\* uart1 and the poller never call bt_conn_disconnect with a NULL g_conn: the
\* pointer they tested in disconnect_from_lock() or connect_to_lock() is still
\* the one they use, whatever the shell has left behind.
NoNullDisconnect ==
  \A c \in CoopCallers : pc[c] \in {"disc_req", "exp_disc"} => g_conn

\* When uart1 pairs, the address it stores is the one of the lock the
\* handshake ran with, although g_conn is not tested after the handshake.
PairingStoresTheLock ==
  [][\A c \in CoopCallers : pc[c] = "save" /\ pc'[c] # "save" => stored' = "lock"]_vars

\* The same for whoever pairs: no other address is ever stored.
PairedAddressIsTheLocks == stored # "garbage"

\* While uart1 or the poller is inside an operation, a result that was
\* recorded and not yet consumed is not replaced: not by a later callback of
\* the attempt, and not by one of an attempt the shell has abandoned (the
\* guard at the top of finish_connect_attempt).
ResultNotClobbered ==
  [][g_ready_sem = 1 /\ g_ready_sem' = 1 /\ g_op_lock \in CoopCallers
       => g_connect_err' = g_connect_err]_vars

\* An operation that was asked for returns to its caller, whatever the lock
\* and the radio do, as long as no two others keep the mutex between them.
OperationReturns ==
  \A c \in Callers : pc[c] # "idle" ~> pc[c] = "idle"

\* The connection is released with the operation: when no operation is in
\* progress the link is down or being taken down.
LinkReleasedAfterOperation ==
  g_op_lock = NoOne => link \notin {"initiating", "up"}

\* A disconnected() that belongs to an earlier connection does not end the
\* attempt that is scanning for a new one.
LateDisconnectKeepsNewAttempt ==
  [][g_connecting /\ scanning /\ g_conn /\ ~g_conn' => g_connecting']_vars

-----------------------------------------------------------------------------
(* Refinement: what g_op_lock adds up to.                                   *)

PhaseOf(p) == IF p = "idle" THEN "idle" ELSE IF p = "waitlock" THEN "waiting" ELSE "active"

Server == INSTANCE OperationServer
            WITH Clients <- Callers, phase <- [c \in Callers |-> PhaseOf(pc[c])]

\* Every path through connect_to_lock, the exchange and disconnect_from_lock,
\* errors included, ends in one k_mutex_unlock: the callers together behave as
\* a server of one operation at a time that hands over to a waiting caller.
ImplementsServer == Server!ServerSpec
=============================================================================
