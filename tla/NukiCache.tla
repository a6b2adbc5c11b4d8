------------------------------ MODULE NukiCache ------------------------------
(***************************************************************************)
(* The state cache of nuki_app.c and everyone who writes or reads it: the *)
(* background poller, the uart1 thread (STATE from the cache, LOCK with   *)
(* the cache in the answer) and the shell.  A BLE operation is seen only  *)
(* through its outcome; NukiConnection and NukiCommand model its inside.  *)
(*                                                                        *)
(* The lock's state is a version number that grows with every change, so  *)
(* that "older" and "newer" can be told apart; 0 stands for no state.     *)
(***************************************************************************)
EXTENDS Naturals, Sequences

CONSTANTS
  CoopThreads,   \* threads with a cooperative priority: poll and uart
  MAX_RETRIES,   \* STATE_POLL_MAX_RETRIES (3)
  MAX_VER        \* bound: changes of the lock's state that are followed

Threads == {"poll", "uart", "shell"}

ASSUME CacheAssumption ==
  CoopThreads \subseteq Threads /\ MAX_RETRIES \in Nat /\ MAX_VER \in Nat \ {0}

VARIABLES
  pc,            \* where each thread is
  task,          \* what its operation is: "state", "action", "pair", "calibrate"
  ok,            \* the operation succeeded (err == 0)
  snap,          \* state read, or pushed by the lock and captured; 0 if none
  g_op_lock,     \* owner of the mutex, "none"
  op_queue,      \* threads blocked on it, in the order they will get it
  cached,        \* g_cached_state; 0 while g_cache_valid is false
  g_state_poll_retries,
  next_poll,     \* argument of the poller's k_sleep: "long" or "short"
  paired,        \* nuki_app_is_paired()
  lock_ver,      \* the lock's own state
  burst,         \* history: polls since the last long sleep
  reply          \* history: last uart1 answer to LOCK, UNLOCK or UNLATCH

cacheVars == <<cached, paired, lock_ver>>
pollVars  == <<g_state_poll_retries, next_poll, burst>>
mutexVars == <<g_op_lock, op_queue>>
vars == <<pc, task, ok, snap, mutexVars, cacheVars, pollVars, reply>>

NoReply == [rc |-> "none", ver |-> 0, pushed |-> 0]

-----------------------------------------------------------------------------
(* Scheduling: a cooperative thread between two blocking calls lets no    *)
(* other thread run; a preemptible one can be overtaken anywhere.         *)

Running == {"cache", "unlock", "after"}

NoneCooperative(t) == FALSE                 \* mutant: K_PRIO_PREEMPT
Cooperative(t) == t \in CoopThreads

MayRun(t) == \A c \in Threads \ {t} : Cooperative(c) => pc[c] \notin Running

-----------------------------------------------------------------------------
(* nuki_app_get_state, _lock_action, _pair, _calibrate.                   *)

\* A mutex queue is ordered by priority, then by time of arrival.
Enqueue(t) ==
  \E i \in 0..Len(op_queue) :
    /\ \A j \in 1..i : Cooperative(op_queue[j]) \/ ~Cooperative(t)
    /\ \A j \in (i + 1)..Len(op_queue) : ~Cooperative(op_queue[j]) /\ Cooperative(t)
    /\ op_queue' = SubSeq(op_queue, 1, i) \o <<t>> \o SubSeq(op_queue, i + 1, Len(op_queue))

\* k_mutex_lock(&g_op_lock, K_FOREVER).
Lock(t) ==
  IF g_op_lock = "none"
  THEN g_op_lock' = t /\ pc' = [pc EXCEPT ![t] = "op"] /\ UNCHANGED op_queue
  ELSE Enqueue(t) /\ pc' = [pc EXCEPT ![t] = "queued"] /\ UNCHANGED g_op_lock

Bump == IF lock_ver < MAX_VER THEN lock_ver + 1 ELSE lock_ver

\* Not paired: -ENOENT before anything is sent.
NotPaired(t) ==
  /\ ~paired /\ task[t] # "pair"
  /\ pc' = [pc EXCEPT ![t] = "unlock"]
  /\ ok' = [ok EXCEPT ![t] = FALSE] /\ snap' = [snap EXCEPT ![t] = 0]
  /\ UNCHANGED <<lock_ver, paired>>

Read(t) ==
  /\ paired /\ task[t] = "state"
  /\ \E good \in BOOLEAN :
       /\ ok' = [ok EXCEPT ![t] = good]
       /\ snap' = [snap EXCEPT ![t] = IF good THEN lock_ver ELSE 0]
  /\ UNCHANGED <<lock_ver, paired>>

\* A lock action may have moved the lock even when it is reported failed;
\* the state the lock pushes on the way is captured if it arrives and parses.
Act(t) ==
  /\ paired /\ task[t] = "action"
  /\ lock_ver' \in {lock_ver, Bump}
  /\ \E good \in BOOLEAN, got_state \in BOOLEAN :
       /\ ok' = [ok EXCEPT ![t] = good]
       /\ snap' = [snap EXCEPT ![t] = IF got_state THEN lock_ver' ELSE 0]
  /\ UNCHANGED paired

\* Pairing, whose result is stored whether or not it can be saved to flash,
\* and calibration, which moves the lock.
Other(t) ==
  /\ task[t] = "pair" \/ (paired /\ task[t] = "calibrate")
  /\ \E good \in BOOLEAN :
       /\ ok' = [ok EXCEPT ![t] = good]
       /\ paired' \in {paired, paired \/ task[t] = "pair"}
       /\ task[t] = "pair" /\ good => paired'
  /\ snap' = [snap EXCEPT ![t] = 0]
  /\ lock_ver' \in {lock_ver, Bump}

\* connect_to_lock and the exchange; the thread blocks in between and again
\* in disconnect_from_lock.
Operate(t) ==
  /\ pc[t] = "op" /\ MayRun(t)
  /\ \/ NotPaired(t)
     \/ pc' = [pc EXCEPT ![t] = "closing"] /\ (Read(t) \/ Act(t) \/ Other(t))
  /\ UNCHANGED <<task, mutexVars, cached, pollVars, reply>>

CloseLeaks(t) ==           \* mutant: an error returns without k_mutex_unlock
  /\ pc[t] = "closing" /\ MayRun(t)
  /\ pc' = [pc EXCEPT ![t] = IF ~ok[t] THEN "after"
                             ELSE IF task[t] = "action" THEN "cache" ELSE "unlock"]
  /\ UNCHANGED <<task, ok, snap, mutexVars, cacheVars, pollVars, reply>>

\* disconnect_from_lock has returned.
Close(t) ==
  /\ pc[t] = "closing" /\ MayRun(t)
  /\ pc' = [pc EXCEPT ![t] = IF task[t] = "action" THEN "cache" ELSE "unlock"]
  /\ UNCHANGED <<task, ok, snap, mutexVars, cacheVars, pollVars, reply>>

\* lock_action_locked: the captured state goes to the cache.
CaptureNothing(t) == UNCHANGED cached          \* mutant
Capture(t) == cached' = IF ok[t] /\ snap[t] # 0 THEN snap[t] ELSE cached

CacheCaptured(t) ==
  /\ pc[t] = "cache" /\ MayRun(t)
  /\ Capture(t)
  /\ pc' = [pc EXCEPT ![t] = "unlock"]
  /\ UNCHANGED <<task, ok, snap, mutexVars, paired, lock_ver, pollVars, reply>>

UnlockNoHandOver(t) ==     \* mutant: the waiting threads are made ready, not owner
  /\ pc[t] = "unlock" /\ MayRun(t)
  /\ g_op_lock' = "none" /\ op_queue' = << >>
  /\ pc' = [u \in Threads |-> IF u = t THEN "after"
                             ELSE IF pc[u] = "queued" THEN "op" ELSE pc[u]]
  /\ UNCHANGED <<task, ok, snap, cacheVars, pollVars, reply>>

\* k_mutex_unlock: the first thread in the queue becomes the owner.
Unlock(t) ==
  /\ pc[t] = "unlock" /\ MayRun(t)
  /\ IF op_queue = << >>
     THEN /\ g_op_lock' = "none" /\ UNCHANGED op_queue
          /\ pc' = [pc EXCEPT ![t] = "after"]
     ELSE /\ g_op_lock' = Head(op_queue) /\ op_queue' = Tail(op_queue)
          /\ pc' = [pc EXCEPT ![t] = "after", ![Head(op_queue)] = "op"]
  /\ UNCHANGED <<task, ok, snap, cacheVars, pollVars, reply>>

Operation(t) == Operate(t) \/ Close(t) \/ CacheCaptured(t) \/ Unlock(t)

\* The operation's locals are gone.
Forget(t) ==
  /\ task' = [task EXCEPT ![t] = "state"]
  /\ ok' = [ok EXCEPT ![t] = FALSE] /\ snap' = [snap EXCEPT ![t] = 0]

-----------------------------------------------------------------------------
(* state_poll_thread_fn.                                                  *)

\* The sleep is over: poll if paired, else sleep the full interval.
PollWake ==
  /\ pc["poll"] = "sleep" /\ MayRun("poll")
  /\ \/ /\ paired
        /\ task' = [task EXCEPT !["poll"] = "state"]
        /\ burst' = IF next_poll = "long" THEN 1 ELSE burst + 1
        /\ Lock("poll")
        /\ UNCHANGED next_poll
     \/ /\ ~paired
        /\ next_poll' = "long"
        /\ UNCHANGED <<pc, task, mutexVars, burst>>
  /\ UNCHANGED <<ok, snap, cacheVars, g_state_poll_retries, reply>>

RetryLeftAlways == TRUE                       \* mutant: the limit is not tested
RetryLeft == g_state_poll_retries < MAX_RETRIES

\* After nuki_app_get_state, with g_op_lock already released.
PollResult ==
  /\ pc["poll"] = "after" /\ MayRun("poll")
  /\ pc' = [pc EXCEPT !["poll"] = "sleep"]
  /\ \/ /\ ok["poll"]
        /\ cached' = snap["poll"]
        /\ g_state_poll_retries' = 0 /\ next_poll' = "long"
     \/ /\ ~ok["poll"] /\ RetryLeft
        /\ g_state_poll_retries' = g_state_poll_retries + 1 /\ next_poll' = "short"
        /\ UNCHANGED cached
     \/ /\ ~ok["poll"] /\ ~RetryLeft
        /\ g_state_poll_retries' = 0 /\ next_poll' = "long"
        /\ UNCHANGED cached
  /\ Forget("poll")
  /\ UNCHANGED <<mutexVars, paired, lock_ver, burst, reply>>

-----------------------------------------------------------------------------
(* The uart1 thread and the shell.                                        *)

\* Commands whose handler calls into nuki_app; STATE only reads the cache and
\* STATUS only flags, which changes nothing here.
Request(t) ==
  /\ pc[t] = "idle" /\ MayRun(t)
  /\ \E k \in {"action", "pair", "calibrate"} \cup (IF t = "shell" THEN {"state"} ELSE {}) :
       task' = [task EXCEPT ![t] = k]
  /\ Lock(t)
  /\ reply' = IF t = "uart" THEN NoReply ELSE reply
  /\ UNCHANGED <<ok, snap, cacheVars, pollVars>>

\* handle_lock_action: on success nuki_app_get_cached_state fills the answer,
\* if there is anything in the cache.
LockReply ==
  [rc     |-> IF ok["uart"] THEN "OK" ELSE "ERR",
   ver    |-> IF ok["uart"] THEN cached ELSE 0,
   pushed |-> IF ok["uart"] THEN snap["uart"] ELSE 0]

UartAnswer ==
  /\ pc["uart"] = "after" /\ MayRun("uart")
  /\ pc' = [pc EXCEPT !["uart"] = "idle"]
  /\ reply' = IF task["uart"] = "action" THEN LockReply ELSE reply
  /\ Forget("uart")
  /\ UNCHANGED <<mutexVars, cacheVars, pollVars>>

\* The shell prints the outcome.
ShellAnswer ==
  /\ pc["shell"] = "after" /\ MayRun("shell")
  /\ pc' = [pc EXCEPT !["shell"] = "idle"]
  /\ Forget("shell")
  /\ UNCHANGED <<mutexVars, cacheVars, pollVars, reply>>

\* The lock is turned by hand, by key or by the Nuki app (external).
Turned ==
  /\ lock_ver < MAX_VER
  /\ lock_ver' = lock_ver + 1
  /\ UNCHANGED <<pc, task, ok, snap, mutexVars, cached, paired, pollVars, reply>>

\* nuki_app_init has started the poller, which has run up to its first blocking
\* call before main goes on to start the uart1 thread.
Init ==
  /\ paired \in BOOLEAN
  /\ pc = [t \in Threads |-> IF t # "poll" THEN "idle" ELSE IF paired THEN "op" ELSE "sleep"]
  /\ task = [t \in Threads |-> "state"]
  /\ ok = [t \in Threads |-> FALSE] /\ snap = [t \in Threads |-> 0]
  /\ g_op_lock = (IF paired THEN "poll" ELSE "none") /\ op_queue = << >>
  /\ cached = 0 /\ lock_ver = 1
  /\ g_state_poll_retries = 0 /\ next_poll = "long" /\ burst = (IF paired THEN 1 ELSE 0)
  /\ reply = NoReply

Poller == PollWake \/ Operation("poll") \/ PollResult
Uart == Operation("uart") \/ UartAnswer
Shell == Operation("shell") \/ ShellAnswer

Next == Poller \/ Uart \/ Shell \/ Request("uart") \/ Request("shell") \/ Turned

Spec == Init /\ [][Next]_vars

\* Every ready thread gets the processor again and again: each operation
\* spends its time blocked on the radio, and the others run meanwhile.
FairSpec == Spec /\ SF_vars(Poller) /\ SF_vars(Uart) /\ SF_vars(Shell)

-----------------------------------------------------------------------------
(* Properties.                                                            *)

\* The cache never goes back to an older state of the lock, nor to having
\* none: the poller stores what it read after it has released g_op_lock, and
\* an action may have been waiting for just that.
CacheNeverGoesBackwards == [][cached' >= cached]_vars

\* A failing poll is retried at most MAX_RETRIES times in a row before the
\* poller sleeps the full interval again.
RetryBurstBounded == burst <= MAX_RETRIES + 1

\* When the lock pushed its state during a successful action, the answer to
\* LOCK reports exactly that state, whatever the poller and the shell do.
AnswerIsPushedState == reply.pushed # 0 => reply.ver = reply.pushed

\* Once paired, the poller reads the lock's state again and again, whoever
\* else uses the lock.
PollerKeepsPolling == paired ~> pc["poll"] = "op"

\* A successful LOCK, UNLOCK or UNLATCH is answered with a state of the lock.
SuccessCarriesState == reply.rc = "OK" => reply.ver # 0

-----------------------------------------------------------------------------
(* Refinement: what the threads, the mutex and the cache add up to.       *)

PhaseOf(p) == IF p \in {"idle", "sleep", "after"} THEN "idle"
              ELSE IF p = "queued" THEN "waiting" ELSE "active"

Bridge == INSTANCE NukiBridge
            WITH Clients <- Threads, known <- cached,
                 phase <- [t \in Threads |-> PhaseOf(pc[t])]

\* The poller, uart1 and the shell behind g_op_lock behave as one server that
\* takes one operation at a time and always hands over to a waiting thread,
\* and g_cached_state is a state the lock had, never older than before.
ImplementsBridge == Bridge!Spec
=============================================================================
