--------------------------- MODULE NukiCache_proofs ---------------------------
(***************************************************************************)
(* Proofs about the state cache, for every retry limit and any number of  *)
(* changes of the lock; at the end, that NukiCache implements NukiBridge. *)
(***************************************************************************)
EXTENDS NukiCache, SequenceTheorems, TLAPS

PCs == {"idle", "sleep", "queued", "op", "closing", "cache", "unlock", "after"}
Tasks == {"state", "action", "pair", "calibrate"}

\* Inside the operation, with its result known.
Finishing == {"closing", "cache", "unlock"}

TypeInv ==
  /\ pc \in [Threads -> PCs] /\ task \in [Threads -> Tasks]
  /\ ok \in [Threads -> BOOLEAN] /\ snap \in [Threads -> Nat]
  /\ cached \in Nat /\ lock_ver \in Nat
  /\ op_queue \in Seq(Threads)
  /\ pc["poll"] # "idle" /\ task["poll"] = "state"

\* g_op_lock is held by whoever is inside an operation, and the queue holds
\* each waiting thread once.
MutexInv ==
  /\ \A t \in Threads : pc[t] \in {"op"} \cup Finishing => g_op_lock = t
  /\ \A i \in 1..Len(op_queue) : pc[op_queue[i]] = "queued"
  /\ \A i, j \in 1..Len(op_queue) : op_queue[i] = op_queue[j] => i = j

\* A thread about to write the cache holds nothing older than what is there.
FreshInv ==
  /\ cached <= lock_ver
  /\ \A t \in Threads : snap[t] <= lock_ver
  /\ \A t \in Threads :
       /\ pc[t] \in Finishing \/ (t = "poll" /\ pc[t] = "after")
       /\ ok[t] /\ (snap[t] # 0 \/ task[t] = "state")
       => cached <= snap[t]
  /\ pc["poll"] = "after" => \A t \in Threads \ {"poll"} : pc[t] \notin Finishing

CacheInv == TypeInv /\ MutexInv /\ FreshInv

-----------------------------------------------------------------------------
(* The mutex.                                                               *)

\* A thread that is not waiting yet gets one place in the queue.
LEMMA EnqueueEffect ==
  ASSUME NEW t \in Threads, op_queue \in Seq(Threads), Enqueue(t),
         \A i \in 1..Len(op_queue) : op_queue[i] # t,
         \A i, j \in 1..Len(op_queue) : op_queue[i] = op_queue[j] => i = j
  PROVE  /\ op_queue' \in Seq(Threads)
         /\ \A k \in 1..Len(op_queue') :
              op_queue'[k] = t \/ \E i \in 1..Len(op_queue) : op_queue'[k] = op_queue[i]
         /\ \A k, l \in 1..Len(op_queue') : op_queue'[k] = op_queue'[l] => k = l
         /\ \E k \in 1..Len(op_queue') : op_queue'[k] = t
         /\ \A j \in 1..Len(op_queue) : \E k \in 1..Len(op_queue') : op_queue'[k] = op_queue[j]
<1>1. PICK i \in 0..Len(op_queue) :
        op_queue' = SubSeq(op_queue, 1, i) \o <<t>> \o SubSeq(op_queue, i + 1, Len(op_queue))
  BY DEF Enqueue
<1> DEFINE a == SubSeq(op_queue, 1, i)
           b == SubSeq(op_queue, i + 1, Len(op_queue))
           n == Len(op_queue)
<1>2. n \in Nat /\ i \in Nat /\ i <= n
  OBVIOUS
<1>3. a \in Seq(Threads) /\ Len(a) = i /\ \A k \in 1..i : a[k] = op_queue[k]
  BY <1>2
<1>4. b \in Seq(Threads) /\ Len(b) = n - i /\ \A k \in 1..(n - i) : b[k] = op_queue[k + i]
  BY <1>2
<1>5. op_queue' = a \o <<t>> \o b
  BY <1>1
<1> HIDE DEF a, b
<1>6. a \o <<t>> \in Seq(Threads) /\ Len(a \o <<t>>) = i + 1
  BY <1>3
<1>7. op_queue' \in Seq(Threads) /\ Len(op_queue') = n + 1
  BY <1>2, <1>4, <1>5, <1>6
<1>8. \A k \in 1..(n + 1) :
        op_queue'[k] = IF k <= i THEN op_queue[k]
                       ELSE IF k = i + 1 THEN t ELSE op_queue[k - 1]
  <2>1. ASSUME NEW k \in 1..(n + 1), k <= i PROVE op_queue'[k] = op_queue[k]
    BY <1>2, <1>3, <1>4, <1>5, <1>6, <2>1
  <2>2. op_queue'[i + 1] = t
    BY <1>2, <1>3, <1>4, <1>5, <1>6
  <2>3. ASSUME NEW k \in 1..(n + 1), k > i + 1 PROVE op_queue'[k] = op_queue[k - 1]
    <3>1. k - (i + 1) \in 1..(n - i) /\ k \in (i + 2)..(n + 1)
      BY <1>2, <2>3
    <3>2. op_queue'[k] = b[k - (i + 1)]
      BY <1>2, <1>4, <1>5, <1>6, <3>1
    <3>3. QED
      BY <1>2, <1>4, <3>1, <3>2
  <2>4. SUFFICES ASSUME NEW k \in 1..(n + 1)
                 PROVE  op_queue'[k] = IF k <= i THEN op_queue[k]
                                       ELSE IF k = i + 1 THEN t ELSE op_queue[k - 1]
    OBVIOUS
  <2> HIDE DEF n
  <2>5. k <= i \/ k = i + 1 \/ k > i + 1
    BY <1>2
  <2>6. CASE k <= i
    BY <2>1, <2>6
  <2>7. CASE k = i + 1
    BY <1>2, <2>2, <2>7
  <2>8. CASE k > i + 1
    <3>1. ~(k <= i) /\ k # i + 1
      BY <1>2, <2>8
    <3>2. QED
      BY <2>3, <2>8, <3>1
  <2>9. QED
    BY <2>5, <2>6, <2>7, <2>8
<1> DEFINE old(k) == IF k <= i THEN k ELSE k - 1
<1>9. \A k \in 1..(n + 1) : k # i + 1 =>
        old(k) \in 1..n /\ op_queue'[k] = op_queue[old(k)]
  BY <1>2, <1>8
<1>10. op_queue'[i + 1] = t
  BY <1>2, <1>8
<1>11. ASSUME NEW k \in 1..(n + 1), NEW l \in 1..(n + 1), op_queue'[k] = op_queue'[l]
       PROVE  k = l
  <2>1. CASE k = i + 1 /\ l # i + 1
    BY <1>9, <1>10, <1>11, <2>1
  <2>2. CASE k # i + 1 /\ l = i + 1
    BY <1>9, <1>10, <1>11, <2>2
  <2>3. CASE k # i + 1 /\ l # i + 1
    <3>1. old(k) \in 1..n /\ old(l) \in 1..n /\ op_queue[old(k)] = op_queue[old(l)]
      BY <1>9, <1>11, <2>3
    <3>2. old(k) = old(l)
      BY <3>1
    <3>3. QED
      BY <1>2, <2>3, <3>2
  <2>4. QED
    BY <2>1, <2>2, <2>3
<1>12. \A k \in 1..Len(op_queue') :
         op_queue'[k] = t \/ \E j \in 1..Len(op_queue) : op_queue'[k] = op_queue[j]
  BY <1>7, <1>9, <1>10
<1>13. \E k \in 1..Len(op_queue') : op_queue'[k] = t
  BY <1>2, <1>7, <1>10
<1>14. ASSUME NEW j \in 1..n PROVE \E k \in 1..Len(op_queue') : op_queue'[k] = op_queue[j]
  <2>1. CASE j <= i
    BY <1>2, <1>7, <1>8, <2>1
  <2>2. CASE j > i
    <3>1. j + 1 \in 1..(n + 1) /\ op_queue'[j + 1] = op_queue[j]
      BY <1>2, <1>8, <2>2
    <3>2. QED
      BY <1>7, <3>1
  <2>3. QED
    BY <1>2, <2>1, <2>2
<1>15. QED
  BY <1>7, <1>11, <1>12, <1>13, <1>14

\* k_mutex_lock: the thread owns the mutex or waits for it.
LEMMA LockEffect ==
  ASSUME NEW t \in Threads, TypeInv, MutexInv, pc[t] \in {"idle", "sleep"}, Lock(t)
  PROVE  /\ op_queue' \in Seq(Threads) /\ MutexInv'
         /\ \E x \in {"op", "queued"} : pc' = [pc EXCEPT ![t] = x]
<1> USE DEF TypeInv, MutexInv
<1>1. CASE g_op_lock = "none"
  <2>1. g_op_lock' = t /\ pc' = [pc EXCEPT ![t] = "op"] /\ op_queue' = op_queue
    BY <1>1 DEF Lock
  <2>2. \A u \in Threads : pc'[u] \in {"op"} \cup Finishing => g_op_lock' = u
    BY <1>1, <2>1 DEF Threads, Finishing
  <2>3. \A i \in 1..Len(op_queue) : pc'[op_queue[i]] = "queued"
    BY <2>1
  <2>4. QED
    BY <2>1, <2>2, <2>3
<1>2. CASE g_op_lock # "none"
  <2>1. Enqueue(t) /\ pc' = [pc EXCEPT ![t] = "queued"] /\ g_op_lock' = g_op_lock
    BY <1>2 DEF Lock
  <2>2. \A i \in 1..Len(op_queue) : op_queue[i] # t
    OBVIOUS
  <2>3. /\ op_queue' \in Seq(Threads)
        /\ \A k \in 1..Len(op_queue') :
             op_queue'[k] = t \/ \E i \in 1..Len(op_queue) : op_queue'[k] = op_queue[i]
        /\ \A k, l \in 1..Len(op_queue') : op_queue'[k] = op_queue'[l] => k = l
    BY <2>1, <2>2, EnqueueEffect
  <2>4. \A u \in Threads : pc'[u] \in {"op"} \cup Finishing => g_op_lock' = u
    BY <2>1 DEF Finishing
  <2>5. ASSUME NEW k \in 1..Len(op_queue') PROVE pc'[op_queue'[k]] = "queued"
    <3>1. CASE op_queue'[k] = t
      BY <2>1, <3>1
    <3>2. CASE \E i \in 1..Len(op_queue) : op_queue'[k] = op_queue[i]
      <4>1. PICK i \in 1..Len(op_queue) : op_queue'[k] = op_queue[i]
        BY <3>2
      <4>2. op_queue[i] \in Threads /\ pc[op_queue[i]] = "queued" /\ op_queue[i] # t
        BY <2>2, <4>1
      <4>3. QED
        BY <2>1, <4>1, <4>2
    <3>3. QED
      BY <2>3, <3>1, <3>2
  <2>6. QED
    BY <2>1, <2>3, <2>4, <2>5
<1>3. QED
  BY <1>1, <1>2

\* k_mutex_unlock: the mutex is free, or belongs to a thread that was waiting.
LEMMA UnlockEffect ==
  ASSUME NEW t \in Threads, TypeInv, MutexInv, Unlock(t)
  PROVE  /\ op_queue' \in Seq(Threads) /\ MutexInv'
         /\ \/ pc' = [pc EXCEPT ![t] = "after"]
            \/ \E h \in Threads : /\ pc[h] = "queued" /\ h # t
                                  /\ pc' = [pc EXCEPT ![t] = "after", ![h] = "op"]
<1> USE DEF TypeInv, MutexInv
<1>0. pc[t] = "unlock" /\ g_op_lock = t
  BY DEF Unlock, Finishing
<1>1. CASE op_queue = << >>
  <2>1. g_op_lock' = "none" /\ op_queue' = op_queue /\ pc' = [pc EXCEPT ![t] = "after"]
    BY <1>1 DEF Unlock
  <2>2. \A u \in Threads : pc'[u] \in {"op"} \cup Finishing => g_op_lock' = u
    BY <1>0, <2>1 DEF Finishing
  <2>3. 1..Len(op_queue') = {}
    BY <1>1, <2>1
  <2>4. QED
    BY <2>1, <2>2, <2>3
<1>2. CASE op_queue # << >>
  <2> DEFINE h == Head(op_queue)
  <2>1. /\ g_op_lock' = h /\ op_queue' = Tail(op_queue)
        /\ pc' = [pc EXCEPT ![t] = "after", ![h] = "op"]
    BY <1>2 DEF Unlock
  <2>2. /\ Len(op_queue) \in Nat /\ Len(op_queue) >= 1 /\ h = op_queue[1]
        /\ Tail(op_queue) \in Seq(Threads) /\ Len(Tail(op_queue)) = Len(op_queue) - 1
        /\ \A i \in 1..(Len(op_queue) - 1) : Tail(op_queue)[i] = op_queue[i + 1]
    BY <1>2, HeadTailProperties
  <2>3. h \in Threads /\ pc[h] = "queued" /\ h # t
    BY <1>0, <2>2
  <2> HIDE DEF h
  <2>4. \A u \in Threads : pc'[u] \in {"op"} \cup Finishing => g_op_lock' = u
    BY <1>0, <2>1, <2>3 DEF Finishing
  <2>5. ASSUME NEW i \in 1..Len(op_queue') PROVE pc'[op_queue'[i]] = "queued"
    <3>1. i + 1 \in 1..Len(op_queue) /\ op_queue'[i] = op_queue[i + 1] /\ i + 1 # 1
      BY <2>1, <2>2
    <3>2. op_queue[i + 1] # h /\ pc[op_queue[i + 1]] = "queued" /\ op_queue[i + 1] \in Threads
      BY <2>2, <3>1
    <3>3. QED
      BY <1>0, <2>1, <3>1, <3>2
  <2>6. ASSUME NEW i \in 1..Len(op_queue'), NEW j \in 1..Len(op_queue'),
               op_queue'[i] = op_queue'[j]
        PROVE  i = j
    <3>1. i + 1 \in 1..Len(op_queue) /\ j + 1 \in 1..Len(op_queue)
          /\ op_queue[i + 1] = op_queue[j + 1]
      BY <2>1, <2>2, <2>6
    <3>2. i + 1 = j + 1
      BY <3>1
    <3>3. QED
      BY <3>2
  <2>7. QED
    BY <2>1, <2>2, <2>3, <2>4, <2>5, <2>6
<1>3. QED
  BY <1>1, <1>2

-----------------------------------------------------------------------------
(* The cache.                                                               *)

\* The inductive invariant holds when the threads start.
LEMMA CacheInit == Init => CacheInv
<1> SUFFICES ASSUME Init PROVE CacheInv
  OBVIOUS
<1>1. ok \in [Threads -> BOOLEAN] /\ \A t \in Threads : ok[t] = FALSE
  BY Zenon DEF Init
<1>2. TypeInv
  BY <1>1 DEF Init, TypeInv, Threads, PCs, Tasks
<1>3. MutexInv
  BY DEF Init, MutexInv, Threads, Finishing
<1>4. FreshInv
  BY <1>1 DEF Init, FreshInv, Threads, Finishing
<1>5. QED
  BY <1>2, <1>3, <1>4 DEF CacheInv

\* An operation that ends takes its result from the lock as it is now.
LEMMA OperateStep ==
  ASSUME NEW t \in Threads, CacheInv, Operate(t), "poll" \in CoopThreads
  PROVE  CacheInv'
<1> USE DEF CacheInv
<1>1. /\ UNCHANGED <<task, g_op_lock, op_queue, cached>> /\ pc[t] = "op"
      /\ \E x \in {"closing", "unlock"} : pc' = [pc EXCEPT ![t] = x]
  BY DEF Operate, mutexVars, NotPaired
<1>2. t # "poll" => pc["poll"] # "after"
  BY DEF Operate, MayRun, Cooperative, Running, Threads
<1>3. \E g \in BOOLEAN : ok' = [ok EXCEPT ![t] = g]
  BY Zenon DEF Operate, NotPaired, Read, Act, Other
<1>30. ok' \in [Threads -> BOOLEAN] /\ \A u \in Threads \ {t} : ok'[u] = ok[u]
  BY <1>3 DEF TypeInv
<1>31. /\ snap' \in [Threads -> Nat] /\ \A u \in Threads \ {t} : snap'[u] = snap[u]
       /\ snap'[t] <= lock_ver' /\ (snap'[t] # 0 => snap'[t] = lock_ver')
       /\ task[t] = "state" /\ ok'[t] => snap'[t] = lock_ver'
  <2> USE DEF TypeInv
  <2>1. CASE NotPaired(t)
    <3>1. snap' = [snap EXCEPT ![t] = 0] /\ ~ok'[t] /\ lock_ver' = lock_ver
      BY <2>1 DEF NotPaired
    <3>2. QED
      BY <3>1
  <2>2. CASE Read(t)
    <3>1. PICK good \in BOOLEAN : /\ ok' = [ok EXCEPT ![t] = good]
                                  /\ snap' = [snap EXCEPT ![t] = IF good THEN lock_ver ELSE 0]
      BY <2>2 DEF Read
    <3>2. lock_ver' = lock_ver
      BY <2>2 DEF Read
    <3>3. ok'[t] = good
      BY <3>1
    <3>4. QED
      BY <3>1, <3>2, <3>3
  <2>3. CASE Act(t)
    <3>1. PICK got_state \in BOOLEAN :
            snap' = [snap EXCEPT ![t] = IF got_state THEN lock_ver' ELSE 0]
      BY <2>3 DEF Act
    <3>2. lock_ver' \in Nat /\ task[t] = "action"
      BY <2>3 DEF Act, Bump
    <3>3. QED
      BY <3>1, <3>2
  <2>4. CASE Other(t)
    <3>1. snap' = [snap EXCEPT ![t] = 0] /\ lock_ver' \in Nat /\ task[t] # "state"
      BY <2>4 DEF Other, Bump
    <3>2. QED
      BY <3>1
  <2>5. QED
    BY <2>1, <2>2, <2>3, <2>4 DEF Operate
<1>4. lock_ver' \in Nat /\ lock_ver' >= lock_ver
  BY DEF Operate, NotPaired, Read, Act, Other, Bump, TypeInv
<1>40. /\ pc' \in [Threads -> PCs] /\ \A u \in Threads \ {t} : pc'[u] = pc[u]
       /\ pc'[t] \in {"closing", "unlock"} /\ "poll" \in Threads
  BY <1>1 DEF TypeInv, PCs, Threads
<1>5. TypeInv'
  BY <1>1, <1>30, <1>31, <1>4, <1>40 DEF TypeInv
<1>6. MutexInv'
  BY <1>1 DEF MutexInv, TypeInv, Finishing
<1>7. FreshInv'
  <2>0. cached' <= lock_ver'
    BY <1>1, <1>4 DEF FreshInv, TypeInv
  <2>1. ASSUME NEW u \in Threads PROVE snap'[u] <= lock_ver'
    <3>1. CASE u = t
      BY <1>31, <3>1
    <3>2. CASE u # t
      <4>1. snap'[u] = snap[u] /\ snap[u] \in Nat /\ snap[u] <= lock_ver /\ lock_ver \in Nat
        BY <1>31, <3>2 DEF FreshInv, TypeInv
      <4>2. QED
        BY <1>4, <4>1
    <3>3. QED
      BY <3>1, <3>2
  <2>2. ASSUME NEW u \in Threads,
               pc'[u] \in Finishing \/ (u = "poll" /\ pc'[u] = "after"),
               ok'[u], snap'[u] # 0 \/ task'[u] = "state"
        PROVE  cached' <= snap'[u]
    <3>1. CASE u = t
      BY <1>1, <1>31, <1>4, <2>2, <3>1 DEF FreshInv, TypeInv
    <3>2. CASE u # t
      BY <1>1, <1>30, <1>31, <1>40, <2>2, <3>2 DEF FreshInv
    <3>3. QED
      BY <3>1, <3>2
  <2>3. pc'["poll"] = "after" => \A u \in Threads \ {"poll"} : pc'[u] \notin Finishing
    BY <1>2, <1>40 DEF FreshInv
  <2>4. QED
    BY <2>0, <2>1, <2>2, <2>3 DEF FreshInv
<1>8. QED
  BY <1>5, <1>6, <1>7

\* disconnect_from_lock() and the return to the wrapper preserve the invariant.
LEMMA CloseStep ==
  ASSUME NEW t \in Threads, CacheInv, Close(t), "poll" \in CoopThreads
  PROVE  CacheInv'
<1> USE DEF CacheInv
<1>1. /\ UNCHANGED <<task, ok, snap, g_op_lock, op_queue, cached, lock_ver>>
      /\ pc[t] = "closing"
      /\ \E x \in {"cache", "unlock"} : pc' = [pc EXCEPT ![t] = x]
  BY DEF Close, mutexVars, cacheVars
<1>2. /\ pc' \in [Threads -> PCs] /\ \A u \in Threads \ {t} : pc'[u] = pc[u]
      /\ pc'[t] \in {"cache", "unlock"} /\ "poll" \in Threads
  BY <1>1 DEF TypeInv, PCs, Threads
<1>3. TypeInv'
  BY <1>1, <1>2 DEF TypeInv
<1>4. MutexInv'
  BY <1>1, <1>2 DEF MutexInv, TypeInv, Finishing
<1>5. FreshInv'
  BY <1>1, <1>2 DEF FreshInv, Finishing
<1>6. QED
  BY <1>3, <1>4, <1>5

\* lock_action_locked writes a state no older than the cached one.
LEMMA CaptureStep ==
  ASSUME NEW t \in Threads, CacheInv, CacheCaptured(t), "poll" \in CoopThreads
  PROVE  CacheInv' /\ cached' >= cached
<1> USE DEF CacheInv
<1>1. /\ UNCHANGED <<task, ok, snap, g_op_lock, op_queue, lock_ver>>
      /\ pc[t] = "cache" /\ pc' = [pc EXCEPT ![t] = "unlock"]
      /\ cached' = IF ok[t] /\ snap[t] # 0 THEN snap[t] ELSE cached
  BY DEF CacheCaptured, Capture, mutexVars
<1>2. /\ pc' \in [Threads -> PCs] /\ \A u \in Threads \ {t} : pc'[u] = pc[u]
      /\ pc'[t] = "unlock" /\ "poll" \in Threads
  BY <1>1 DEF TypeInv, PCs, Threads
<1>3. cached' \in Nat /\ cached' >= cached /\ cached' <= lock_ver
  <2>1. CASE ok[t] /\ snap[t] # 0
    BY <1>1, <2>1 DEF FreshInv, TypeInv, Finishing
  <2>2. CASE ~(ok[t] /\ snap[t] # 0)
    <3>1. cached' = cached
      BY <1>1, <2>2
    <3>2. QED
      BY <3>1 DEF FreshInv, TypeInv
  <2>3. QED
    BY <2>1, <2>2
<1>4. TypeInv'
  BY <1>1, <1>2, <1>3 DEF TypeInv
<1>5. MutexInv'
  BY <1>1, <1>2 DEF MutexInv, TypeInv, Finishing
<1>6. \A u \in Threads \ {t} : pc[u] \notin Finishing
  BY <1>1 DEF MutexInv, Finishing
<1>7. pc["poll"] # "after"
  BY <1>1 DEF FreshInv, Finishing
<1>8. FreshInv'
  <2>1. ASSUME ok[t], snap[t] # 0 \/ task[t] = "state" PROVE cached' <= snap[t]
    BY <1>1, <2>1 DEF FreshInv, TypeInv, Finishing
  <2>2. ASSUME NEW u \in Threads,
               pc'[u] \in Finishing \/ (u = "poll" /\ pc'[u] = "after"),
               ok'[u], snap'[u] # 0 \/ task'[u] = "state"
        PROVE  cached' <= snap'[u]
    <3>1. u = t
      BY <1>2, <1>6, <1>7, <2>2
    <3>2. QED
      BY <1>1, <2>1, <2>2, <3>1
  <2>3. pc'["poll"] # "after"
    BY <1>2, <1>7
  <2>4. cached' <= lock_ver' /\ \A u \in Threads : snap'[u] <= lock_ver'
    BY <1>1, <1>3 DEF FreshInv
  <2>5. QED
    BY <2>2, <2>3, <2>4 DEF FreshInv
<1>9. QED
  BY <1>3, <1>4, <1>5, <1>8

\* k_mutex_unlock, with the hand-over to the next waiter, preserves the invariant.
LEMMA UnlockStep ==
  ASSUME NEW t \in Threads, CacheInv, Unlock(t), "poll" \in CoopThreads
  PROVE  CacheInv'
<1> USE DEF CacheInv
<1>1. UNCHANGED <<task, ok, snap, cached, lock_ver>> /\ pc[t] = "unlock"
  BY DEF Unlock, cacheVars
<1>2. op_queue' \in Seq(Threads) /\ MutexInv'
  BY UnlockEffect
<1>3. /\ pc' \in [Threads -> PCs] /\ pc'[t] = "after" /\ "poll" \in Threads
      /\ \A u \in Threads \ {t} : pc'[u] = pc[u] \/ (pc[u] = "queued" /\ pc'[u] = "op")
  <2>1. CASE pc' = [pc EXCEPT ![t] = "after"]
    BY <2>1 DEF TypeInv, PCs, Threads
  <2>2. CASE \E h \in Threads : /\ pc[h] = "queued" /\ h # t
                                /\ pc' = [pc EXCEPT ![t] = "after", ![h] = "op"]
    BY <2>2 DEF TypeInv, PCs, Threads
  <2>3. QED
    BY <2>1, <2>2, UnlockEffect
<1>4. TypeInv'
  BY <1>1, <1>2, <1>3 DEF TypeInv
<1>5. \A u \in Threads \ {t} : pc[u] \notin Finishing
  BY <1>1 DEF MutexInv, Finishing
<1>6. \A u \in Threads : pc'[u] \notin Finishing
  BY <1>3, <1>5 DEF Finishing
<1>7. pc'["poll"] = "after" => pc["poll"] \in {"after", "unlock"}
  BY <1>1, <1>3
<1>8. FreshInv'
  BY <1>1, <1>3, <1>6, <1>7 DEF FreshInv, Finishing
<1>9. QED
  BY <1>2, <1>4, <1>8

\* A thread that asks for the mutex has nothing to write yet.
LEMMA LockStep ==
  ASSUME NEW t \in Threads, NEW k \in Tasks, CacheInv, pc[t] \in {"idle", "sleep"}, Lock(t),
         task' = [task EXCEPT ![t] = k], t = "poll" => k = "state",
         UNCHANGED <<ok, snap, cached, lock_ver>>
  PROVE  CacheInv'
<1> USE DEF CacheInv
<1>1. op_queue' \in Seq(Threads) /\ MutexInv'
  BY LockEffect
<1>2. \E x \in {"op", "queued"} : pc' = [pc EXCEPT ![t] = x]
  BY LockEffect
<1>3. /\ pc' \in [Threads -> PCs] /\ \A u \in Threads \ {t} : pc'[u] = pc[u]
      /\ pc'[t] \in {"op", "queued"} /\ "poll" \in Threads
  BY <1>2 DEF TypeInv, PCs, Threads
<1>4. /\ task' \in [Threads -> Tasks] /\ task'["poll"] = "state"
      /\ \A u \in Threads \ {t} : task'[u] = task[u]
  BY <1>3 DEF TypeInv
<1>5. TypeInv'
  BY <1>1, <1>3, <1>4 DEF TypeInv
<1>6. FreshInv'
  <2>1. ASSUME NEW u \in Threads,
               pc'[u] \in Finishing \/ (u = "poll" /\ pc'[u] = "after"),
               ok'[u], snap'[u] # 0 \/ task'[u] = "state"
        PROVE  cached' <= snap'[u]
    <3>1. u # t
      BY <1>3, <2>1 DEF Finishing
    <3>2. QED
      BY <1>3, <1>4, <2>1, <3>1 DEF FreshInv
  <2>2. pc'["poll"] = "after" => \A u \in Threads \ {"poll"} : pc'[u] \notin Finishing
    BY <1>3 DEF FreshInv, Finishing
  <2>3. cached' <= lock_ver' /\ \A u \in Threads : snap'[u] <= lock_ver'
    BY DEF FreshInv
  <2>4. QED
    BY <2>1, <2>2, <2>3 DEF FreshInv
<1>7. QED
  BY <1>1, <1>5, <1>6

\* The poller's wake-up preserves the invariant.
LEMMA PollWakeStep == ASSUME CacheInv, PollWake PROVE CacheInv'
<1>1. "poll" \in Threads /\ "state" \in Tasks /\ UNCHANGED <<ok, snap, cached, lock_ver>>
      /\ pc["poll"] = "sleep"
  BY DEF PollWake, cacheVars, Threads, Tasks
<1>2. CASE task' = [task EXCEPT !["poll"] = "state"] /\ Lock("poll")
  BY <1>1, <1>2, LockStep
<1>3. CASE UNCHANGED <<pc, task, mutexVars>>
  BY <1>1, <1>3 DEF CacheInv, TypeInv, MutexInv, FreshInv, mutexVars
<1>4. QED
  BY <1>2, <1>3 DEF PollWake

\* A UART or shell request preserves the invariant.
LEMMA RequestStep ==
  ASSUME NEW t \in {"uart", "shell"}, CacheInv, Request(t)
  PROVE  CacheInv'
<1>1. /\ t \in Threads /\ t # "poll" /\ pc[t] = "idle" /\ Lock(t)
      /\ UNCHANGED <<ok, snap, cached, lock_ver>>
  BY DEF Request, Threads, cacheVars
<1>2. PICK k \in {"action", "pair", "calibrate"} \cup (IF t = "shell" THEN {"state"} ELSE {}) :
        task' = [task EXCEPT ![t] = k]
  BY DEF Request
<1>3. k \in Tasks
  BY <1>2 DEF Tasks
<1>4. QED
  BY <1>1, <1>2, <1>3, LockStep

\* A thread that has returned from its operation no longer has a result.
LEMMA ForgetEffect ==
  ASSUME NEW t \in Threads, TypeInv, Forget(t)
  PROVE  /\ task' \in [Threads -> Tasks] /\ ok' \in [Threads -> BOOLEAN]
         /\ snap' \in [Threads -> Nat] /\ task'["poll"] = "state"
         /\ \A u \in Threads \ {t} : task'[u] = task[u] /\ ok'[u] = ok[u] /\ snap'[u] = snap[u]
         /\ snap'[t] = 0
<1>1. task' \in [Threads -> Tasks] /\ task'["poll"] = "state"
      /\ \A u \in Threads \ {t} : task'[u] = task[u]
  BY DEF Forget, TypeInv, Tasks, Threads
<1>2. ok' \in [Threads -> BOOLEAN] /\ \A u \in Threads \ {t} : ok'[u] = ok[u]
  BY DEF Forget, TypeInv
<1>3. snap' \in [Threads -> Nat] /\ snap'[t] = 0 /\ \A u \in Threads \ {t} : snap'[u] = snap[u]
  BY DEF Forget, TypeInv
<1>4. QED
  BY <1>1, <1>2, <1>3

\* The poller writes what it read only if that is no older than the cache: it
\* has let nobody run since it released g_op_lock.
LEMMA PollResultStep ==
  ASSUME CacheInv, PollResult
  PROVE  CacheInv' /\ cached' >= cached
<1> USE DEF CacheInv
<1>0. "poll" \in Threads
  BY DEF Threads
<1>1. /\ UNCHANGED <<g_op_lock, op_queue, lock_ver>> /\ Forget("poll")
      /\ pc["poll"] = "after" /\ pc' = [pc EXCEPT !["poll"] = "sleep"]
      /\ cached' = cached \/ (ok["poll"] /\ cached' = snap["poll"])
  BY DEF PollResult, mutexVars
<1>2. /\ pc' \in [Threads -> PCs] /\ \A u \in Threads \ {"poll"} : pc'[u] = pc[u]
      /\ pc'["poll"] = "sleep"
  BY <1>0, <1>1 DEF TypeInv, PCs
<1>3. cached' \in Nat /\ cached' >= cached /\ cached' <= lock_ver
  <2>1. CASE cached' = cached
    BY <2>1 DEF TypeInv, FreshInv
  <2>2. CASE ok["poll"] /\ cached' = snap["poll"]
    BY <1>0, <1>1, <2>2 DEF TypeInv, FreshInv
  <2>3. QED
    BY <1>1, <2>1, <2>2
<1>4. TypeInv'
  BY <1>0, <1>1, <1>2, <1>3, ForgetEffect DEF TypeInv
<1>5. MutexInv'
  BY <1>1, <1>2 DEF MutexInv, TypeInv, Finishing
<1>6. FreshInv'
  <2>1. \A u \in Threads : pc'[u] \notin Finishing
    BY <1>1, <1>2 DEF FreshInv, Finishing
  <2>2. \A u \in Threads : snap'[u] <= lock_ver'
    <3>1. \A u \in Threads : snap'[u] = 0 \/ snap'[u] = snap[u]
      BY <1>0, <1>1, ForgetEffect
    <3>2. QED
      BY <1>1, <3>1 DEF FreshInv, TypeInv
  <2>3. QED
    BY <1>1, <1>2, <1>3, <2>1, <2>2 DEF FreshInv
<1>7. QED
  BY <1>3, <1>4, <1>5, <1>6

\* The three uses of an operation's result (poller, UART, shell) preserve it.
LEMMA AnswerStep ==
  ASSUME NEW t \in {"uart", "shell"}, CacheInv,
         pc[t] = "after", pc' = [pc EXCEPT ![t] = "idle"], Forget(t),
         UNCHANGED <<mutexVars, cacheVars>>
  PROVE  CacheInv'
<1> USE DEF CacheInv, mutexVars, cacheVars
<1>0. t \in Threads /\ t # "poll" /\ "poll" \in Threads
  BY DEF Threads
<1>2. /\ pc' \in [Threads -> PCs] /\ \A u \in Threads \ {t} : pc'[u] = pc[u]
      /\ pc'[t] = "idle"
  BY <1>0 DEF TypeInv, PCs
<1>3. TypeInv'
  BY <1>0, <1>2, ForgetEffect DEF TypeInv
<1>4. MutexInv'
  BY <1>0, <1>2 DEF MutexInv, TypeInv, Finishing
<1>5. FreshInv'
  <2>1. \A u \in Threads \ {t} : task'[u] = task[u] /\ ok'[u] = ok[u] /\ snap'[u] = snap[u]
    BY <1>0, ForgetEffect
  <2>2. snap'[t] = 0
    BY <1>0, ForgetEffect
  <2>3. \A u \in Threads : snap'[u] <= lock_ver'
    BY <2>1, <2>2 DEF FreshInv, TypeInv
  <2>4. ASSUME NEW u \in Threads,
               pc'[u] \in Finishing \/ (u = "poll" /\ pc'[u] = "after"),
               ok'[u], snap'[u] # 0 \/ task'[u] = "state"
        PROVE  cached' <= snap'[u]
    <3>1. u # t
      BY <1>0, <1>2, <2>4 DEF Finishing
    <3>2. QED
      BY <1>2, <2>1, <2>4, <3>1 DEF FreshInv
  <2>5. pc'["poll"] = "after" => \A u \in Threads \ {"poll"} : pc'[u] \notin Finishing
    BY <1>0, <1>2 DEF FreshInv, Finishing
  <2>6. QED
    BY <2>3, <2>4, <2>5 DEF FreshInv
<1>6. QED
  BY <1>3, <1>4, <1>5

\* Every step keeps the invariant and never takes the cache back.
LEMMA CacheStep ==
  ASSUME "poll" \in CoopThreads, CacheInv, [Next]_vars
  PROVE  CacheInv' /\ cached' >= cached
<1>0. cached \in Nat /\ "poll" \in Threads /\ "uart" \in Threads /\ "shell" \in Threads
  BY DEF CacheInv, TypeInv, Threads
<1>1. ASSUME NEW t \in Threads, Operation(t) PROVE CacheInv' /\ cached' >= cached
  <2>1. CASE CacheCaptured(t)
    BY <2>1, CaptureStep
  <2>2. CASE Operate(t) \/ Close(t) \/ Unlock(t)
    <3>1. CacheInv'
      BY <2>2, OperateStep, CloseStep, UnlockStep
    <3>2. cached' = cached
      BY <2>2 DEF Operate, Close, Unlock, cacheVars
    <3>3. QED
      BY <1>0, <3>1, <3>2
  <2>3. QED
    BY <1>1, <2>1, <2>2 DEF Operation
<1>2. CASE PollWake \/ Request("uart") \/ Request("shell")
  <2>1. CacheInv'
    BY <1>2, PollWakeStep, RequestStep
  <2>2. cached' = cached
    BY <1>2 DEF PollWake, Request, cacheVars
  <2>3. QED
    BY <1>0, <2>1, <2>2
<1>3. CASE UartAnswer \/ ShellAnswer
  <2>1. CacheInv' /\ cached' = cached
    BY <1>3, AnswerStep DEF UartAnswer, ShellAnswer, mutexVars, cacheVars
  <2>2. QED
    BY <1>0, <2>1
<1>4. CASE Turned
  <2>1. /\ UNCHANGED <<pc, task, ok, snap, g_op_lock, op_queue, cached>>
        /\ lock_ver' = lock_ver + 1
    BY <1>4 DEF Turned, mutexVars
  <2>2. TypeInv' /\ MutexInv'
    BY <2>1 DEF CacheInv, TypeInv, MutexInv
  <2>3. FreshInv'
    BY <2>1 DEF CacheInv, TypeInv, FreshInv
  <2>4. QED
    BY <1>0, <2>1, <2>2, <2>3 DEF CacheInv
<1>5. CASE UNCHANGED vars
  BY <1>0, <1>5 DEF vars, mutexVars, cacheVars, CacheInv, TypeInv, MutexInv, FreshInv
<1>6. QED
  BY <1>0, <1>1, <1>2, <1>3, <1>4, <1>5, PollResultStep DEF Next, Poller, Uart, Shell

\* With a cooperative poller the cache never returns to an older state of the
\* lock, although the poller writes it after releasing g_op_lock.
THEOREM CacheMovesForward ==
  ASSUME "poll" \in CoopThreads
  PROVE  Spec => CacheNeverGoesBackwards
<1>1. CacheInv /\ [Next]_vars => CacheInv' /\ [cached' >= cached]_vars
  BY CacheStep
<1>2. QED
  BY <1>1, CacheInit, PTL DEF Spec, CacheNeverGoesBackwards

-----------------------------------------------------------------------------
(* The retry limit.                                                         *)

\* The retry counter stands for the polls made since the last long sleep.
RetryInv ==
  /\ g_state_poll_retries \in 0..MAX_RETRIES /\ burst \in Nat
  /\ pc["poll"] = "sleep" /\ next_poll # "long" => burst <= g_state_poll_retries
  /\ pc["poll"] # "sleep" => burst <= g_state_poll_retries + 1
  /\ RetryBurstBounded

\* Steps of other actors, and of the poller inside its operation.
LEMMA RetryKept ==
  ASSUME RetryInv, UNCHANGED pollVars, pc'["poll"] = "sleep" <=> pc["poll"] = "sleep"
  PROVE  RetryInv'
  BY DEF RetryInv, pollVars, RetryBurstBounded

\* No step lets the poller's burst of quick retries exceed MAX_RETRIES.
LEMMA RetryStep == ASSUME CacheInv, RetryInv, [Next]_vars PROVE RetryInv'
<1>0. "poll" \in Threads /\ pc \in [Threads -> PCs] /\ TypeInv /\ MutexInv
  BY DEF CacheInv, TypeInv, Threads
<1>1. ASSUME NEW t \in Threads, Operation(t) PROVE RetryInv'
  <2>1. UNCHANGED pollVars
    BY <1>1 DEF Operation, Operate, Close, CacheCaptured, Unlock
  <2>2. CASE Operate(t) \/ Close(t) \/ CacheCaptured(t)
    <3>1. /\ pc[t] # "sleep"
          /\ \E x \in PCs \ {"sleep"} : pc' = [pc EXCEPT ![t] = x]
      BY <2>2 DEF Operate, NotPaired, Close, CacheCaptured, PCs
    <3>2. pc'["poll"] = "sleep" <=> pc["poll"] = "sleep"
      BY <1>0, <3>1
    <3>3. QED
      BY <2>1, <3>2, RetryKept
  <2>3. CASE Unlock(t)
    <3>1. pc[t] = "unlock"
      BY <2>3 DEF Unlock
    <3>2. pc'["poll"] = "sleep" <=> pc["poll"] = "sleep"
      BY <1>0, <2>3, <3>1, UnlockEffect
    <3>3. QED
      BY <2>1, <3>2, RetryKept
  <2>4. QED
    BY <1>1, <2>2, <2>3 DEF Operation
<1>2. CASE PollWake
  <2>1. pc["poll"] = "sleep" /\ UNCHANGED g_state_poll_retries
    BY <1>2 DEF PollWake
  <2>2. CASE burst' = (IF next_poll = "long" THEN 1 ELSE burst + 1) /\ Lock("poll")
    <3>1. pc'["poll"] # "sleep"
      BY <1>0, <2>1, <2>2, LockEffect
    <3>2. QED
      BY <2>1, <2>2, <3>1, CacheAssumption DEF RetryInv, RetryBurstBounded
  <2>3. CASE next_poll' = "long" /\ UNCHANGED <<pc, burst>>
    BY <2>1, <2>3 DEF RetryInv, RetryBurstBounded
  <2>4. QED
    BY <1>2, <2>2, <2>3 DEF PollWake
<1>3. CASE PollResult
  <2>1. pc["poll"] = "after" /\ pc'["poll"] = "sleep" /\ UNCHANGED burst
    BY <1>0, <1>3 DEF PollResult
  <2>2. \/ g_state_poll_retries' = 0 /\ next_poll' = "long"
        \/ RetryLeft /\ g_state_poll_retries' = g_state_poll_retries + 1
    BY <1>3 DEF PollResult
  <2>3. QED
    BY <2>1, <2>2, CacheAssumption DEF RetryInv, RetryBurstBounded, RetryLeft
<1>4. ASSUME NEW t \in {"uart", "shell"}, Request(t) PROVE RetryInv'
  <2>1. UNCHANGED pollVars /\ t \in Threads /\ t # "poll" /\ pc[t] = "idle" /\ Lock(t)
    BY <1>4 DEF Request, Threads
  <2>2. pc'["poll"] = "sleep" <=> pc["poll"] = "sleep"
    BY <1>0, <2>1, LockEffect
  <2>3. QED
    BY <2>1, <2>2, RetryKept
<1>5. CASE UartAnswer \/ ShellAnswer \/ Turned \/ UNCHANGED vars
  <2>1. UNCHANGED pollVars /\ pc'["poll"] = pc["poll"]
    BY <1>0, <1>5 DEF UartAnswer, ShellAnswer, Turned, vars
  <2>2. QED
    BY <2>1, RetryKept
<1>6. QED
  BY <1>1, <1>2, <1>3, <1>4, <1>5 DEF Next, Poller, Uart, Shell, Threads

\* The poller never makes more than MAX_RETRIES + 1 polls between two sleeps of
\* the full interval.
THEOREM RetriesAreBounded ==
  ASSUME "poll" \in CoopThreads
  PROVE  Spec => []RetryBurstBounded
<1>1. Init => RetryInv
  BY CacheAssumption DEF Init, RetryInv, RetryBurstBounded, Threads
<1>2. RetryInv => RetryBurstBounded
  BY DEF RetryInv
<1>3. CacheInv /\ [Next]_vars => CacheInv'
  BY CacheStep
<1>4. CacheInv /\ RetryInv /\ [Next]_vars => RetryInv'
  BY RetryStep
<1>5. QED
  BY <1>1, <1>2, <1>3, <1>4, CacheInit, PTL DEF Spec

-----------------------------------------------------------------------------
(* The answer to LOCK.                                                      *)

\* From the moment the uart1 thread has cached the pushed state, that is what
\* the cache holds until it has answered.
AnswerInv ==
  /\ /\ pc["uart"] \in {"unlock", "after"} /\ task["uart"] = "action"
     /\ ok["uart"] /\ snap["uart"] # 0
     => cached = snap["uart"]
  /\ AnswerIsPushedState

\* A step that does not touch the uart1 thread's result, and the cache only
\* while that thread is not between writing and reading it.
LEMMA AnswerKept ==
  ASSUME AnswerInv, pc'["uart"] \in {"unlock", "after"} =>
                      /\ pc["uart"] \in {"unlock", "after"}
                      /\ task'["uart"] = task["uart"] /\ ok'["uart"] = ok["uart"]
                      /\ snap'["uart"] = snap["uart"] /\ cached' = cached,
         AnswerIsPushedState'
  PROVE  AnswerInv'
  BY DEF AnswerInv

\* No step separates the state a successful action answers with from the one
\* the lock pushed while that action was in progress.
LEMMA AnswerInvStep ==
  ASSUME "uart" \in CoopThreads, CacheInv, AnswerInv, [Next]_vars
  PROVE  AnswerInv'
<1>0. /\ "poll" \in Threads /\ "uart" \in Threads /\ "shell" \in Threads
      /\ pc \in [Threads -> PCs] /\ task \in [Threads -> Tasks]
      /\ ok \in [Threads -> BOOLEAN] /\ snap \in [Threads -> Nat] /\ TypeInv /\ MutexInv
  BY DEF CacheInv, TypeInv, Threads
<1>00. ASSUME UNCHANGED reply PROVE AnswerIsPushedState'
  BY <1>00 DEF AnswerInv, AnswerIsPushedState
<1>1. ASSUME NEW t \in Threads \ {"uart"}, MayRun(t) PROVE pc["uart"] \notin {"unlock", "after"}
  BY <1>0, <1>1 DEF MayRun, Cooperative, Running
<1>2. ASSUME Operation("uart") PROVE AnswerInv'
  <2>0. UNCHANGED reply
    BY <1>2 DEF Operation, Operate, Close, CacheCaptured, Unlock
  <2>1. CASE Operate("uart")
    <3>1. CASE NotPaired("uart")
      <4>1. snap'["uart"] = 0
        BY <1>0, <3>1 DEF NotPaired
      <4>2. QED
        BY <1>00, <2>0, <4>1 DEF AnswerInv
    <3>2. CASE pc' = [pc EXCEPT !["uart"] = "closing"]
      BY <1>0, <1>00, <2>0, <3>2 DEF AnswerInv
    <3>3. QED
      BY <2>1, <3>1, <3>2 DEF Operate
  <2>2. CASE Close("uart")
    <3>1. UNCHANGED task /\ pc'["uart"] = IF task["uart"] = "action" THEN "cache" ELSE "unlock"
      BY <1>0, <2>2 DEF Close
    <3>2. QED
      BY <1>00, <2>0, <3>1 DEF AnswerInv
  <2>3. CASE CacheCaptured("uart")
    <3>1. UNCHANGED <<task, ok, snap>>
          /\ cached' = IF ok["uart"] /\ snap["uart"] # 0 THEN snap["uart"] ELSE cached
      BY <2>3 DEF CacheCaptured, Capture
    <3>2. QED
      BY <1>00, <2>0, <3>1 DEF AnswerInv
  <2>4. CASE Unlock("uart")
    <3>1. UNCHANGED <<task, ok, snap, cached>> /\ pc["uart"] = "unlock"
      BY <2>4 DEF Unlock, cacheVars
    <3>2. QED
      BY <1>00, <2>0, <3>1, AnswerKept
  <2>5. QED
    BY <1>2, <2>1, <2>2, <2>3, <2>4 DEF Operation
<1>3. ASSUME NEW t \in Threads \ {"uart"}, Operation(t) PROVE AnswerInv'
  <2>0. UNCHANGED reply /\ pc["uart"] \notin {"unlock", "after"}
    BY <1>1, <1>3 DEF Operation, Operate, Close, CacheCaptured, Unlock
  <2>1. pc'["uart"] \notin {"unlock", "after"}
    <3>1. CASE Unlock(t)
      BY <1>0, <2>0, <3>1, UnlockEffect
    <3>2. CASE Operate(t) \/ Close(t) \/ CacheCaptured(t)
      <4>1. \E x \in PCs : pc' = [pc EXCEPT ![t] = x]
        BY <3>2 DEF Operate, NotPaired, Close, CacheCaptured, PCs
      <4>2. QED
        BY <1>0, <2>0, <4>1
    <3>3. QED
      BY <1>3, <3>1, <3>2 DEF Operation
  <2>2. QED
    BY <1>00, <2>0, <2>1, AnswerKept
<1>4. CASE PollResult
  <2>1. UNCHANGED reply /\ pc["uart"] \notin {"unlock", "after"} /\ pc'["uart"] = pc["uart"]
    BY <1>0, <1>1, <1>4 DEF PollResult
  <2>2. QED
    BY <1>00, <2>1, AnswerKept
<1>5. CASE PollWake
  <2>1. UNCHANGED reply /\ pc["uart"] \notin {"unlock", "after"} /\ pc["poll"] = "sleep"
    BY <1>0, <1>1, <1>5 DEF PollWake
  <2>2. pc'["uart"] = pc["uart"]
    <3>1. CASE Lock("poll")
      BY <1>0, <2>1, <3>1, LockEffect
    <3>2. CASE UNCHANGED pc
      BY <3>2
    <3>3. QED
      BY <1>5, <3>1, <3>2 DEF PollWake
  <2>3. QED
    BY <1>00, <2>1, <2>2, AnswerKept
<1>6. ASSUME NEW t \in {"uart", "shell"}, Request(t) PROVE AnswerInv'
  <2>1. t \in Threads /\ pc[t] = "idle" /\ Lock(t) /\ MayRun(t)
        /\ reply' = IF t = "uart" THEN NoReply ELSE reply
    BY <1>6 DEF Request, Threads
  <2>2. AnswerIsPushedState'
    BY <1>00, <2>1 DEF AnswerIsPushedState, NoReply
  <2>3. \E x \in {"op", "queued"} : pc' = [pc EXCEPT ![t] = x]
    BY <1>0, <2>1, LockEffect
  <2>4. pc'["uart"] \notin {"unlock", "after"}
    BY <1>0, <1>1, <2>1, <2>3
  <2>5. QED
    BY <2>2, <2>4, AnswerKept
<1>7. CASE UartAnswer
  <2>1. /\ pc["uart"] = "after" /\ pc'["uart"] = "idle"
        /\ reply' = IF task["uart"] = "action" THEN LockReply ELSE reply
    BY <1>0, <1>7 DEF UartAnswer
  <2>2. task["uart"] = "action" => (LockReply.pushed # 0 => LockReply.ver = LockReply.pushed)
    BY <2>1 DEF LockReply, AnswerInv
  <2>3. AnswerIsPushedState'
    BY <1>00, <2>1, <2>2 DEF AnswerIsPushedState
  <2>4. QED
    BY <2>1, <2>3, AnswerKept
<1>8. CASE ShellAnswer
  <2>1. UNCHANGED reply /\ pc["uart"] \notin {"unlock", "after"} /\ pc'["uart"] = pc["uart"]
    BY <1>0, <1>1, <1>8 DEF ShellAnswer
  <2>2. QED
    BY <1>00, <2>1, AnswerKept
<1>9. CASE Turned \/ UNCHANGED vars
  <2>1. UNCHANGED <<pc, task, ok, snap, cached, reply>>
    BY <1>9 DEF Turned, vars, cacheVars
  <2>2. QED
    BY <1>00, <2>1, AnswerKept
<1>10. QED
  BY <1>0, <1>2, <1>3, <1>4, <1>5, <1>6, <1>7, <1>8, <1>9 DEF Next, Poller, Uart, Shell

\* With cooperative poller and uart1 threads, a LOCK that is answered with
\* success carries exactly the state the lock pushed, if it pushed one.
THEOREM AnswersCarryThePushedState ==
  ASSUME "poll" \in CoopThreads, "uart" \in CoopThreads
  PROVE  Spec => []AnswerIsPushedState
<1>1. Init => AnswerInv
  BY DEF Init, AnswerInv, AnswerIsPushedState, NoReply, Threads
<1>2. AnswerInv => AnswerIsPushedState
  BY DEF AnswerInv
<1>3. CacheInv /\ [Next]_vars => CacheInv'
  BY CacheStep
<1>4. CacheInv /\ AnswerInv /\ [Next]_vars => AnswerInv'
  BY AnswerInvStep
<1>5. QED
  BY <1>1, <1>2, <1>3, <1>4, CacheInit, PTL DEF Spec

-----------------------------------------------------------------------------
(* NukiCache implements NukiBridge: the poller, uart1 and the shell behind  *)
(* g_op_lock, with the cache they share, are one server that takes one      *)
(* operation at a time and never tells an older state of the lock than it   *)
(* told before.                                                             *)

Inside == {"op"} \cup Finishing
Ph == [t \in Threads |-> PhaseOf(pc[t])]

\* The other half of MutexInv: the mutex is held only from inside an
\* operation, and whoever waits is in the queue.
OwnerInv ==
  /\ g_op_lock # "none" => g_op_lock \in Threads /\ pc[g_op_lock] \in Inside
  /\ \A t \in Threads : pc[t] = "queued" => \E i \in 1..Len(op_queue) : op_queue[i] = t

BridgeInv == CacheInv /\ OwnerInv

\* k_mutex_lock is asking the server.
LEMMA LockAsks ==
  ASSUME NEW t \in Threads, BridgeInv, pc[t] \in {"idle", "sleep"}, Lock(t)
  PROVE  OwnerInv' /\ Bridge!Ask(t)
<1> USE DEF BridgeInv, CacheInv, TypeInv
<1>1. CASE g_op_lock = "none"
  <2>1. g_op_lock' = t /\ pc' = [pc EXCEPT ![t] = "op"] /\ op_queue' = op_queue
    BY <1>1 DEF Lock
  <2>2. OwnerInv'
    BY <2>1 DEF OwnerInv, Inside
  <2>3. \A u \in Threads : pc[u] \notin Inside
    BY <1>1 DEF MutexInv, Inside, Threads
  <2>4. Bridge!Active = {}
    BY <2>3 DEF Bridge!Active, PhaseOf, Inside, Finishing, PCs
  <2> QED
    BY <2>1, <2>2, <2>4 DEF Bridge!Ask, PhaseOf
<1>2. CASE g_op_lock # "none"
  <2>1. Enqueue(t) /\ pc' = [pc EXCEPT ![t] = "queued"] /\ g_op_lock' = g_op_lock
    BY <1>2 DEF Lock
  <2>2. g_op_lock \in Threads /\ pc[g_op_lock] \in Inside /\ g_op_lock # t
    BY <1>2 DEF OwnerInv, Inside, Finishing
  <2>3. /\ \E k \in 1..Len(op_queue') : op_queue'[k] = t
        /\ \A j \in 1..Len(op_queue) : \E k \in 1..Len(op_queue') : op_queue'[k] = op_queue[j]
    <3>1. \A i \in 1..Len(op_queue) : op_queue[i] # t
      BY DEF MutexInv
    <3> QED
      BY <2>1, <3>1, EnqueueEffect DEF MutexInv
  <2>4. ASSUME NEW u \in Threads, pc'[u] = "queued"
        PROVE  \E k \in 1..Len(op_queue') : op_queue'[k] = u
    <3>1. CASE u = t
      BY <2>3, <3>1
    <3>2. CASE u # t
      <4>1. pc[u] = "queued"
        BY <2>1, <2>4, <3>2
      <4>2. PICK j \in 1..Len(op_queue) : op_queue[j] = u
        BY <4>1 DEF OwnerInv
      <4> QED
        BY <2>3, <4>2
    <3> QED
      BY <3>1, <3>2
  <2>5. g_op_lock' \in Threads /\ pc'[g_op_lock'] \in Inside
    BY <2>1, <2>2
  <2>6. PhaseOf(pc[g_op_lock]) = "active"
    BY <2>2 DEF PhaseOf, Inside, Finishing
  <2>7. Bridge!Active # {}
    BY <2>2, <2>6 DEF Bridge!Active
  <2> QED
    BY <2>1, <2>4, <2>5, <2>7 DEF OwnerInv, Bridge!Ask, PhaseOf
<1> QED
  BY <1>1, <1>2

\* k_mutex_unlock is finishing, or handing over to the head of the queue.
LEMMA UnlockServes ==
  ASSUME NEW t \in Threads, BridgeInv, Unlock(t)
  PROVE  OwnerInv' /\ (Bridge!Finish(t) \/ \E w \in Threads : Bridge!HandOver(t, w))
<1> USE DEF BridgeInv, CacheInv, TypeInv
<1>0. pc[t] = "unlock" /\ PhaseOf(pc[t]) = "active"
  BY DEF Unlock, PhaseOf
<1>1. CASE op_queue = << >>
  <2>1. g_op_lock' = "none" /\ op_queue' = op_queue /\ pc' = [pc EXCEPT ![t] = "after"]
    BY <1>1 DEF Unlock
  <2>2. \A u \in Threads : pc[u] # "queued"
    BY <1>1 DEF OwnerInv
  <2>3. OwnerInv'
    BY <2>1, <2>2 DEF OwnerInv
  <2>4. Bridge!Waiting = {}
    BY <2>2 DEF Bridge!Waiting, PhaseOf
  <2> QED
    BY <1>0, <2>1, <2>3, <2>4 DEF Bridge!Finish, PhaseOf
<1>2. CASE op_queue # << >>
  <2> DEFINE h == Head(op_queue)
  <2>1. /\ g_op_lock' = h /\ op_queue' = Tail(op_queue)
        /\ pc' = [pc EXCEPT ![t] = "after", ![h] = "op"]
    BY <1>2 DEF Unlock
  <2>2. /\ Len(op_queue) \in Nat /\ Len(op_queue) >= 1 /\ h = op_queue[1]
        /\ Len(Tail(op_queue)) = Len(op_queue) - 1
        /\ \A i \in 1..(Len(op_queue) - 1) : Tail(op_queue)[i] = op_queue[i + 1]
    BY <1>2, HeadTailProperties
  <2>3. h \in Threads /\ pc[h] = "queued" /\ h # t
    BY <1>0, <2>2 DEF MutexInv
  <2> HIDE DEF h
  <2>4. ASSUME NEW u \in Threads, pc'[u] = "queued"
        PROVE  \E i \in 1..Len(op_queue') : op_queue'[i] = u
    <3>1. pc[u] = "queued" /\ u # h
      BY <2>1, <2>3, <2>4
    <3>2. PICK i \in 1..Len(op_queue) : op_queue[i] = u
      BY <3>1 DEF OwnerInv
    <3>3. i # 1 /\ i - 1 \in 1..(Len(op_queue) - 1) /\ i = (i - 1) + 1
      BY <2>2, <3>1, <3>2
    <3>4. op_queue'[i - 1] = u
      BY <2>1, <2>2, <3>2, <3>3
    <3> QED
      BY <2>1, <2>2, <3>3, <3>4
  <2>5. OwnerInv'
    BY <2>1, <2>3, <2>4 DEF OwnerInv, Inside
  <2>6. Bridge!HandOver(t, h)
    BY <1>0, <2>1, <2>3 DEF Bridge!HandOver, PhaseOf
  <2> QED
    BY <2>3, <2>5, <2>6
<1> QED
  BY <1>1, <1>2

\* A step that moves one thread within its phase and leaves the mutex alone.
LEMMA MoveKeepsPhase ==
  ASSUME NEW t \in Threads, NEW x \in PCs, BridgeInv, pc' = [pc EXCEPT ![t] = x],
         UNCHANGED mutexVars, x # "queued",
         \/ pc[t] \in Inside /\ x \in Inside
         \/ pc[t] = "after" /\ x \in {"idle", "sleep"}
  PROVE  OwnerInv' /\ Ph' = Ph
<1> USE DEF BridgeInv, CacheInv, TypeInv, mutexVars
<1>1. OwnerInv'
  BY DEF OwnerInv, MutexInv, Inside, Finishing
<1>2. \A u \in Threads : PhaseOf(pc'[u]) = PhaseOf(pc[u])
  BY DEF PhaseOf, Inside, Finishing
<1> QED
  BY <1>1, <1>2 DEF Ph

\* Every step of the threads is one of the bridge's, or none.
LEMMA StepServes ==
  ASSUME "poll" \in CoopThreads, BridgeInv, [Next]_vars
  PROVE  BridgeInv' /\ [Bridge!Next]_<<Ph, lock_ver, cached>>
<1> DEFINE Served == OwnerInv' /\ [Bridge!Next]_<<Ph, lock_ver, cached>>
<1>0. /\ CacheInv' /\ cached' >= cached /\ cached \in Nat /\ lock_ver \in Nat
      /\ cached' \in Nat /\ lock_ver' \in Nat /\ cached' <= lock_ver'
      /\ "poll" \in Threads /\ "uart" \in Threads /\ "shell" \in Threads
  BY CacheStep DEF BridgeInv, CacheInv, TypeInv, FreshInv, Threads
<1> SUFFICES Served
  BY <1>0 DEF BridgeInv
<1>1. ASSUME NEW t \in Threads, pc[t] \in {"idle", "sleep"}, Lock(t), UNCHANGED <<lock_ver, cached>>
      PROVE  Served
  BY <1>1, LockAsks DEF Bridge!Next, Bridge!Serve, Bridge!ServerNext
<1>2. ASSUME NEW t \in Threads, Unlock(t) PROVE Served
  <2>1. UNCHANGED <<lock_ver, cached>>
    BY <1>2 DEF Unlock, cacheVars
  <2> QED
    BY <1>2, <2>1, UnlockServes DEF Bridge!Next, Bridge!Serve, Bridge!ServerNext
<1>3. ASSUME OwnerInv', Ph' = Ph, UNCHANGED lock_ver PROVE Served
  <2>1. Bridge!Learn
    BY <1>0, <1>3 DEF Bridge!Learn, Ph
  <2> QED
    BY <1>3, <2>1 DEF Bridge!Next
<1>4. ASSUME OwnerInv', Ph' = Ph, lock_ver' = lock_ver + 1, UNCHANGED cached PROVE Served
  <2>1. Bridge!Move
    BY <1>4 DEF Bridge!Move, Ph
  <2> QED
    BY <1>4, <2>1 DEF Bridge!Next
<1>5. ASSUME NEW t \in Threads, Operate(t) PROVE Served
  <2>1. /\ pc[t] = "op" /\ UNCHANGED mutexVars /\ UNCHANGED cached
        /\ \E x \in {"closing", "unlock"} : pc' = [pc EXCEPT ![t] = x]
    BY <1>5 DEF Operate, NotPaired
  <2>2. OwnerInv' /\ Ph' = Ph
    BY <2>1, MoveKeepsPhase DEF Inside, Finishing, PCs
  <2>3. lock_ver' = lock_ver \/ lock_ver' = lock_ver + 1
    BY <1>5 DEF Operate, NotPaired, Read, Act, Other, Bump
  <2> QED
    BY <1>3, <1>4, <2>1, <2>2, <2>3
<1>6. ASSUME NEW t \in Threads, Close(t) \/ CacheCaptured(t) PROVE Served
  <2>1. /\ pc[t] \in {"closing", "cache"} /\ UNCHANGED mutexVars /\ UNCHANGED lock_ver
        /\ \E x \in {"cache", "unlock"} : pc' = [pc EXCEPT ![t] = x]
    BY <1>6 DEF Close, CacheCaptured, cacheVars
  <2>2. OwnerInv' /\ Ph' = Ph
    BY <2>1, MoveKeepsPhase DEF Inside, Finishing, PCs
  <2> QED
    BY <1>3, <2>1, <2>2
<1>7. CASE PollResult \/ UartAnswer \/ ShellAnswer
  <2>1. PICK t \in Threads : /\ pc[t] = "after" /\ UNCHANGED mutexVars /\ UNCHANGED lock_ver
                             /\ \E x \in {"idle", "sleep"} : pc' = [pc EXCEPT ![t] = x]
    BY <1>0, <1>7 DEF PollResult, UartAnswer, ShellAnswer, cacheVars
  <2>2. OwnerInv' /\ Ph' = Ph
    BY <2>1, MoveKeepsPhase DEF PCs
  <2> QED
    BY <1>3, <2>1, <2>2
<1>8. CASE PollWake
  <2>1. UNCHANGED <<lock_ver, cached>> /\ pc["poll"] = "sleep"
    BY <1>8 DEF PollWake, cacheVars
  <2>2. CASE Lock("poll")
    BY <1>0, <1>1, <2>1, <2>2
  <2>3. CASE UNCHANGED <<pc, mutexVars>>
    BY <1>3, <2>1, <2>3 DEF BridgeInv, OwnerInv, mutexVars, Ph
  <2> QED
    BY <1>8, <2>2, <2>3 DEF PollWake
<1>9. ASSUME NEW t \in {"uart", "shell"}, Request(t) PROVE Served
  <2>1. t \in Threads /\ pc[t] = "idle" /\ Lock(t) /\ UNCHANGED <<lock_ver, cached>>
    BY <1>9 DEF Request, cacheVars, Threads
  <2> QED
    BY <1>1, <2>1
<1>10. CASE Turned
  <2>1. UNCHANGED <<pc, g_op_lock, op_queue, cached>> /\ lock_ver' = lock_ver + 1
    BY <1>10 DEF Turned, mutexVars
  <2> QED
    BY <1>4, <2>1 DEF BridgeInv, OwnerInv, Ph
<1>11. CASE UNCHANGED vars
  <2>1. UNCHANGED <<pc, g_op_lock, op_queue, lock_ver>>
    BY <1>11 DEF vars, mutexVars, cacheVars
  <2> QED
    BY <1>3, <2>1 DEF BridgeInv, OwnerInv, Ph
<1> QED
  BY <1>0, <1>2, <1>5, <1>6, <1>7, <1>8, <1>9, <1>10, <1>11
     DEF Next, Poller, Uart, Shell, Operation

\* With a cooperative poller the threads behind g_op_lock implement the bridge:
\* one operation at a time, handed over to a waiting thread, and a cache that
\* holds a state the lock had, never an older one than before.
THEOREM CacheImplementsBridge ==
  ASSUME "poll" \in CoopThreads
  PROVE  Spec => ImplementsBridge
<1>1. Init => BridgeInv /\ Bridge!Init
  <2> SUFFICES ASSUME Init PROVE BridgeInv /\ Bridge!Init
    OBVIOUS
  <2> DEFINE first == IF paired THEN {"poll"} ELSE {}
  <2>1. OwnerInv
    BY DEF Init, OwnerInv, Inside, Threads
  <2>2. [t \in Threads |-> PhaseOf(pc[t])]
          = [t \in Threads |-> IF t \in first THEN "active" ELSE "idle"]
    BY DEF Init, PhaseOf, Threads
  <2>3. first \in SUBSET Threads /\ \A c, d \in first : c = d
    BY DEF Threads
  <2>4. Bridge!ServerInit
    BY <2>2, <2>3, Zenon DEF Bridge!ServerInit
  <2> QED
    BY <2>1, <2>4, CacheInit DEF Init, BridgeInv, Bridge!Init
<1>2. BridgeInv /\ [Next]_vars => BridgeInv' /\ [Bridge!Next]_<<Ph, lock_ver, cached>>
  BY StepServes
<1> QED
  BY <1>1, <1>2, PTL DEF Spec, ImplementsBridge, Bridge!Spec, Ph
==============================================================================
