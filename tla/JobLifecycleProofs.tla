------------------------- MODULE JobLifecycleProofs -------------------------
(***************************************************************************)
(* Theorems about JobLifecycle, for every number of jobs, queues,          *)
(* processes and permits: type correctness and promotions on time first,   *)
(* then the safety theorems.  Registry (a record tells whether its process *)
(* lives, a sweep works only on the gone) is inductive while no live       *)
(* process misses its heartbeats; Custody adds where each job and claim is *)
(* and is inductive while, besides, nobody deletes jobs by hand.           *)
(* ClaimsHeld, by which no claim of a running process is stranded, needs   *)
(* neither assumption.                                                     *)
(***************************************************************************)
EXTENDS JobLifecycle, SequenceTheorems, FiniteSetTheorems, TLAPS

USE StoreAssumption, LifecycleAssumption DEF StoreAssumption, LifecycleAssumption

LEMMA IdleTypes ==
    /\ IdleWorker \in Worker /\ IdleWorker.pc = "idle"
    /\ IdleSweep \in Sweep /\ IdleSweep.pc = "idle" /\ IdleSweep.target = None
    /\ IdlePromo \in Promo
    /\ IdleDelete \in Delete /\ IdleDelete.pc = "idle"
  BY DEF IdleWorker, Worker, Phases, IdleSweep, Sweep, SweepPhases, NoIds, IdlePromo, Promo,
         IdleDelete, Delete

LEMMA InitType == Init => TypeOK
<1> SUFFICES ASSUME Init PROVE TypeOK
  OBVIOUS
<1>1. StoreType
  BY DEF Init, StoreInit, StoreType, Envelope, Lists, Zsets, Entry
<1>2. WorkersTyped
  BY IdleTypes DEF Init, WorkersTyped, Holding
<1>3. LoopsTyped
  BY IdleTypes DEF Init, LoopsTyped
<1>4. UsersTyped
  BY IdleTypes DEF Init, UsersTyped
<1>5. ProcsTyped /\ HistoryTyped
  BY DEF Init, ProcsTyped, HistoryTyped
<1> QED
  BY <1>1, <1>2, <1>3, <1>4, <1>5 DEF TypeOK

-----------------------------------------------------------------------------
(* What the list commands do to every count.                               *)

LEMMA PushedCounts ==
    ASSUME StoreType, NEW k \in Lists, NEW id \in Ids
    PROVE  /\ Pushed(k, id) \in [Lists -> [Ids -> Nat]]
           /\ \A l \in Lists, i \in Ids : Pushed(k, id)[l][i] =
                IF l = k /\ i = id THEN list[l][i] + 1 ELSE list[l][i]
  BY DEF StoreType, Pushed

LEMMA RemovedCounts ==
    ASSUME StoreType, NEW k \in Lists, NEW id \in Ids
    PROVE  /\ Removed(k, id) \in [Lists -> [Ids -> Nat]]
           /\ \A l \in Lists, i \in Ids : Removed(k, id)[l][i] =
                IF l = k /\ i = id /\ list[l][i] > 0 THEN list[l][i] - 1 ELSE list[l][i]
<1>1. list[k][id] \in Nat
  BY DEF StoreType
<1> DEFINE n == IF list[k][id] > 0 THEN list[k][id] - 1 ELSE list[k][id]
<1>2. n \in Nat
  BY <1>1
<1>3. Removed(k, id) = [list EXCEPT ![k][id] = n]
  BY DEF Removed
<1> HIDE DEF n
<1>4. /\ Removed(k, id) \in [Lists -> [Ids -> Nat]]
      /\ \A l \in Lists, i \in Ids :
            Removed(k, id)[l][i] = IF l = k /\ i = id THEN n ELSE list[l][i]
  BY <1>2, <1>3 DEF StoreType
<1> QED
  BY <1>4 DEF n

LEMMA MovedCounts ==
    ASSUME StoreType, NEW k \in Lists, NEW m \in Lists, k # m, NEW id \in Ids,
           list[k][id] > 0
    PROVE  /\ Moved(k, m, id) \in [Lists -> [Ids -> Nat]]
           /\ \A l \in Lists, i \in Ids : Moved(k, m, id)[l][i] =
                IF i = id /\ l = k THEN list[l][i] - 1
                ELSE IF i = id /\ l = m THEN list[l][i] + 1 ELSE list[l][i]
<1>1. list[k][id] - 1 \in Nat /\ list[m][id] + 1 \in Nat
  BY DEF StoreType
<1> DEFINE a == list[k][id] - 1
           b == list[m][id] + 1
           f == [list EXCEPT ![k][id] = a]
<1>2. a \in Nat /\ b \in Nat
  BY <1>1
<1>3. f \in [Lists -> [Ids -> Nat]] /\ f[m][id] = list[m][id]
  <2> HIDE DEF a
  <2> QED BY <1>2 DEF StoreType
<1>4. Moved(k, m, id) = [f EXCEPT ![m][id] = b]
  BY <1>3 DEF Moved
<1>5. \A l \in Lists, i \in Ids : f[l][i] = IF i = id /\ l = k THEN a ELSE list[l][i]
  <2> HIDE DEF a
  <2> QED BY <1>2 DEF StoreType
<1> HIDE DEF a, b, f
<1>6. /\ Moved(k, m, id) \in [Lists -> [Ids -> Nat]]
      /\ \A l \in Lists, i \in Ids :
           Moved(k, m, id)[l][i] = IF i = id /\ l = m THEN b ELSE f[l][i]
  BY <1>2, <1>3, <1>4
<1> QED
  BY <1>5, <1>6 DEF a, b

-----------------------------------------------------------------------------
(* Every script and command keeps the store well typed.                    *)

LEMMA HSetType ==
    ASSUME StoreType, NEW id \in Ids, NEW env \in Envelope, HSet(id, env)
    PROVE  StoreType'
  BY DEF StoreType, HSet

LEMMA LPushType ==
    ASSUME StoreType, NEW id \in Ids, NEW q \in Queues, LPush(q, id)
    PROVE  StoreType'
<1>1. Pushed(q, id) \in [Lists -> [Ids -> Nat]]
  BY PushedCounts DEF Lists
<1> QED
  BY <1>1 DEF StoreType, LPush

LEMMA ZAddType ==
    ASSUME StoreType, NEW id \in Ids, NEW z \in Zsets, ZAdd(z, id) \/ ComeDue(z, id)
    PROVE  StoreType'
<1>1. CASE ZAdd(z, id)
  BY <1>1 DEF StoreType, ZAdd, Entry
<1>2. CASE ComeDue(z, id)
  BY <1>2 DEF StoreType, ComeDue, Entry
<1> QED BY <1>1, <1>2

LEMMA EnqueueType ==
    ASSUME StoreType, NEW id \in Ids, NEW env \in Envelope,
           EnqueueQueue(id, env) \/ EnqueueSchedule(id, env)
    PROVE  StoreType'
<1>1. env.queue \in Lists
  BY DEF Envelope, Lists
<1>2. Pushed(env.queue, id) \in [Lists -> [Ids -> Nat]]
  BY <1>1, PushedCounts
<1>3. CASE EnqueueQueue(id, env)
  BY <1>2, <1>3 DEF StoreType, EnqueueQueue
<1>4. CASE EnqueueSchedule(id, env)
  BY <1>4 DEF StoreType, EnqueueSchedule, Entry, Zsets
<1> QED BY <1>3, <1>4

LEMMA ClaimType ==
    ASSUME StoreType, NEW id \in Ids, NEW q \in Queues, NEW p \in Procs, Claim(q, p, id)
    PROVE  StoreType'
<1>1. q \in Lists /\ p \in Lists /\ q # p
  BY DEF Lists
<1>2. list' \in [Lists -> [Ids -> Nat]]
  BY <1>1, MovedCounts DEF Claim
<1> QED
  BY <1>2 DEF StoreType, Claim

LEMMA TransitionType ==
    ASSUME StoreType, NEW id \in Ids, NEW p \in Procs, NEW env \in Envelope,
           \/ FinishSuccess(p, id) \/ FinishDead(p, id, env)
           \/ RetryFailed(p, id, env)
    PROVE  StoreType'
<1>1. Removed(p, id) \in [Lists -> [Ids -> Nat]]
  BY RemovedCounts DEF Lists
<1>2. CASE FinishSuccess(p, id)
  BY <1>1, <1>2 DEF StoreType, FinishSuccess
<1>3. CASE FinishDead(p, id, env)
  <2> DEFINE s == <<[id |-> id, env |-> env]>> \o dead
  <2>1. s \in Seq(DeadEntry)
    BY DEF StoreType, DeadEntry
  <2>2. LTRIM(s) \in Seq(DeadEntry)
    <3> HIDE DEF s
    <3> QED BY <2>1 DEF LTRIM
  <2>3. dead' \in Seq(DeadEntry)
    BY <1>3, <2>2 DEF FinishDead
  <2> QED
    BY <1>1, <1>3, <2>3 DEF StoreType, FinishDead
<1>4. CASE RetryFailed(p, id, env)
  BY <1>1, <1>4 DEF StoreType, RetryFailed, Entry, Zsets
<1> QED BY <1>2, <1>3, <1>4

LEMMA ReleaseType ==
    ASSUME StoreType, NEW id \in Ids, NEW p \in Procs, ReleaseClaim(p, id)
    PROVE  StoreType'
<1>1. Removed(p, id) \in [Lists -> [Ids -> Nat]]
  BY RemovedCounts DEF Lists
<1> QED
  BY <1>1 DEF StoreType, ReleaseClaim

LEMMA PromoteType ==
    ASSUME StoreType, NEW id \in Ids, NEW z \in Zsets,
           NEW seen \in Envelope \cup {None}, PromoteScheduled(z, id, seen)
    PROVE  StoreType'
<1>1. CASE zset[z][id] # "due" \/ jobs[id] # seen
  BY <1>1 DEF PromoteScheduled, StoreType, storeVars
<1>2. CASE ~(zset[z][id] # "due" \/ jobs[id] # seen)
  <2>1. seen # None => seen.queue \in Lists
    BY DEF Envelope, Lists
  <2>2. seen # None => Pushed(seen.queue, id) \in [Lists -> [Ids -> Nat]]
    BY <2>1, PushedCounts
  <2>3. list' \in [Lists -> [Ids -> Nat]]
    BY <1>2, <2>2 DEF StoreType, PromoteScheduled
  <2>4. zset' = [zset EXCEPT ![z][id] = "none"]
    BY <1>2 DEF PromoteScheduled
  <2>5. zset' \in [Zsets -> [Ids -> Entry]]
    BY <2>4 DEF StoreType, Entry
  <2> QED
    BY <1>2, <2>3, <2>5 DEF StoreType, PromoteScheduled
<1> QED BY <1>1, <1>2

LEMMA ResurrectType ==
    ASSUME StoreType, NEW id \in Ids, NEW p \in Procs,
           NEW seen \in Envelope \cup {None}, ResurrectClaim(p, id, seen)
    PROVE  StoreType'
<1>1. CASE list[p][id] = 0 \/ jobs[id] # seen
  BY <1>1 DEF ResurrectClaim, StoreType, storeVars
<1>2. CASE ~(list[p][id] = 0 \/ jobs[id] # seen)
  <2>1. p \in Lists /\ (seen # None => seen.queue \in Lists /\ seen.queue # p)
    BY DEF Envelope, Lists
  <2>2. list[p][id] > 0
    BY <1>2, <2>1 DEF StoreType
  <2>3. seen # None => Moved(p, seen.queue, id) \in [Lists -> [Ids -> Nat]]
    BY <2>1, <2>2, MovedCounts
  <2>4. Removed(p, id) \in [Lists -> [Ids -> Nat]]
    BY <2>1, RemovedCounts
  <2>5. list' \in [Lists -> [Ids -> Nat]]
    BY <1>2, <2>3, <2>4 DEF ResurrectClaim
  <2> QED
    BY <1>2, <2>5 DEF StoreType, ResurrectClaim
<1> QED BY <1>1, <1>2

LEMMA DeleteType ==
    ASSUME StoreType, NEW id \in Ids, NEW p \in Procs \cup {None},
           NEW seen \in Envelope \cup {None}, DeleteJob(p, id, seen)
    PROVE  StoreType'
<1>1. list' \in [Lists -> [Ids -> Nat]]
  BY DEF StoreType, DeleteJob, Lists
<1>2. zset' \in [Zsets -> [Ids -> Entry]]
  BY DEF StoreType, DeleteJob, Entry
<1> QED
  BY <1>1, <1>2 DEF StoreType, DeleteJob

-----------------------------------------------------------------------------
(* Type correctness, one lemma per group of actions.                       *)

LEMMA ProducerType ==
    ASSUME TypeOK, Produce
    PROVE  TypeOK'
<1> PICK id \in Ids : \/ EnqueuePush(id) \/ EnqueueBroken(id)
                      \/ \E q \in Queues : EnqueueSave(id, q) \/ EnqueueUnique(id, q)
  BY DEF Produce
<1>1. StoreType'
  <2>1. ASSUME NEW q \in Queues, EnqueueSave(id, q) PROVE StoreType'
    <3>1. NewEnvelope(q, 1) \in Envelope
      BY DEF NewEnvelope, Envelope
    <3> QED
      BY <2>1, <3>1, HSetType DEF EnqueueSave, TypeOK
  <2>2. CASE EnqueuePush(id)
    <3>1. sending[id] \in Queues
      BY <2>2 DEF EnqueuePush, TypeOK, UsersTyped
    <3> QED
      BY <2>2, <3>1, LPushType, ZAddType DEF EnqueuePush, TypeOK, Zsets
  <2>3. CASE EnqueueBroken(id)
    BY <2>3 DEF EnqueueBroken, TypeOK, StoreType, storeVars
  <2>4. ASSUME NEW q \in Queues, EnqueueUnique(id, q) PROVE StoreType'
    <3>1. NewEnvelope(q, acked[id] + 1) \in Envelope
      BY DEF NewEnvelope, Envelope, TypeOK, HistoryTyped
    <3> QED
      BY <2>4, <3>1, EnqueueType DEF EnqueueUnique, TypeOK
  <2> QED BY <2>1, <2>2, <2>3, <2>4
<1>2. UNCHANGED <<proc, record, wk, sweep, promo, del, deletes, resolved, stalls>>
  BY DEF EnqueueSave, EnqueuePush, EnqueueBroken, EnqueueUnique, producerUnchanged,
         procVars, loopVars, histVars
<1>3. /\ enq' \in [Ids -> {"new", "saved", "done"}]
      /\ sending' \in [Ids -> Queues \cup {None}]
      /\ \A i \in Ids : enq'[i] = "saved" => sending'[i] \in Queues
  BY DEF EnqueueSave, EnqueuePush, EnqueueBroken, EnqueueUnique, TypeOK, UsersTyped
<1>4. acked' \in [Ids -> Nat] /\ faults' \in Nat
  BY DEF EnqueueSave, EnqueuePush, EnqueueBroken, EnqueueUnique, Fault, histVars,
         TypeOK, HistoryTyped
<1> QED
  BY <1>1, <1>2, <1>3, <1>4 DEF TypeOK, ProcsTyped, WorkersTyped, LoopsTyped, UsersTyped,
     HistoryTyped

LEMMA ForgetType ==
    ASSUME WorkersTyped, LoopsTyped, NEW p \in Procs, Forget(p)
    PROVE  WorkersTyped' /\ LoopsTyped'
<1>1. WorkersTyped'
  BY IdleTypes DEF WorkersTyped, Forget, Holding
<1>2. LoopsTyped'
  BY IdleTypes DEF LoopsTyped, Forget
<1> QED BY <1>1, <1>2

LEMMA ProcessType ==
    ASSUME TypeOK, ProcessStep
    PROVE  TypeOK'
<1> PICK p \in Procs :
        \/ Register(p) \/ Ping(p) \/ Expire(p) \/ Stall(p)
        \/ Shutdown(p) \/ Deregister(p) \/ ShutdownTimeout(p) \/ Crash(p)
  BY DEF ProcessStep
<1>1. StoreType'
  BY DEF TypeOK, StoreType, storeVars, Register, Ping, Expire, Stall, Shutdown, Deregister,
         ShutdownTimeout, Crash
<1>2. ProcsTyped'
  BY DEF TypeOK, ProcsTyped, Register, Ping, Expire, Stall, Shutdown, FailRuntime, Deregister,
         ShutdownTimeout, Crash
<1>3. WorkersTyped' /\ LoopsTyped'
  <2>1. CASE ShutdownTimeout(p) \/ Crash(p)
    BY <2>1, ForgetType DEF TypeOK, ShutdownTimeout, Crash
  <2>2. CASE ~(ShutdownTimeout(p) \/ Crash(p))
    <3>1. UNCHANGED <<wk, sweep, promo>>
      BY <2>2 DEF Register, Ping, Expire, Stall, Shutdown, Deregister, loopVars
    <3> QED
      BY <3>1 DEF TypeOK, WorkersTyped, LoopsTyped
  <2> QED BY <2>1, <2>2
<1>4. UsersTyped' /\ HistoryTyped'
  BY DEF TypeOK, Register, Ping, Expire, Stall, Shutdown, Deregister, ShutdownTimeout, Crash,
         Fault, userVars, histVars, UsersTyped, HistoryTyped
<1> QED
  BY <1>1, <1>2, <1>3, <1>4 DEF TypeOK

-----------------------------------------------------------------------------
(* Workers.                                                                *)

LEMMA UnansweredType ==
    ASSUME TypeOK, NEW w \in Workers, Unanswered(w), UNCHANGED record
    PROVE  ProcsTyped' /\ WorkersTyped' /\ faults' \in Nat
<1>1. WorkersTyped'
  BY IdleTypes DEF TypeOK, WorkersTyped, Unanswered, Holding
<1>2. ProcsTyped'
  BY DEF TypeOK, ProcsTyped, Unanswered, FailRuntime
<1>3. faults' \in Nat
  BY DEF TypeOK, HistoryTyped, Unanswered, Fault
<1> QED BY <1>1, <1>2, <1>3

LEMMA SetType ==
    ASSUME TypeOK, NEW w \in Workers, NEW pc \in Phases, NEW id \in Ids,
           NEW env \in Envelope \cup {None}, pc \in Holding => env \in Envelope,
           Set(w, pc, id, env)
    PROVE  WorkersTyped'
<1> DEFINE r == [pc |-> pc, id |-> id, env |-> env]
<1>1. r \in Worker /\ r.pc = pc /\ r.id = id /\ r.env = env
  BY DEF Worker
<1>2. wk' = [wk EXCEPT ![w] = r]
  BY DEF Set
<1> HIDE DEF r
<1> QED
  BY <1>1, <1>2 DEF TypeOK, WorkersTyped

LEMMA FinishType ==
    ASSUME TypeOK, NEW w \in Workers, Finish(w), UNCHANGED record
    PROVE  ProcsTyped' /\ WorkersTyped' /\ faults' \in Nat
<1>1. CASE Unanswered(w)
  BY <1>1, UnansweredType
<1>2. CASE wk' = [wk EXCEPT ![w] = IdleWorker] /\ Replied(w)
  <2>1. WorkersTyped'
    BY <1>2, IdleTypes DEF TypeOK, WorkersTyped, Holding
  <2> QED
    BY <1>2, <2>1 DEF TypeOK, ProcsTyped, HistoryTyped, Replied
<1> QED BY <1>1, <1>2 DEF Finish

(* Steps that only read the store or decide, and move the worker on.       *)
LEMMA WorkerLocalType ==
    ASSUME TypeOK, NEW w \in Workers,
           \/ LoadCancelled(w) \/ Load(w) \/ DeleteRead(w) \/ BuildFails(w)
           \/ Succeed(w) \/ Fail(w) \/ RetryRead(w)
    PROVE  TypeOK'
<1>1. /\ wk[w].id \in Ids \/ wk[w].pc = "idle"
      /\ wk[w].pc \in Holding => wk[w].env \in Envelope
      /\ wk[w].env \in Envelope \cup {None}
  BY DEF TypeOK, WorkersTyped, Worker
<1>2. \A i \in Ids : jobs[i] \in Envelope \cup {None}
  BY DEF TypeOK, StoreType
<1>3. WorkersTyped'
  <2>1. CASE LoadCancelled(w)
    BY <2>1, IdleTypes DEF LoadCancelled, TypeOK, WorkersTyped, Holding
  <2>2. CASE Load(w)
    BY <1>1, <1>2, <2>2, SetType DEF Load, Phases, Holding
  <2>3. CASE DeleteRead(w)
    BY <1>1, <1>2, <2>3, SetType DEF DeleteRead, Phases, Holding
  <2>4. CASE BuildFails(w)
    BY <1>1, <2>4, SetType DEF BuildFails, Phases, Holding
  <2>5. CASE Succeed(w)
    BY <1>1, <2>5, SetType DEF Succeed, Phases, Holding
  <2>6. CASE Fail(w)
    BY <1>1, <2>6, SetType DEF Fail, Phases, Holding
  <2>7. CASE RetryRead(w)
    <3>1. \A e \in Envelope : WithRetriesIncremented(e) \in Envelope
      BY DEF WithRetriesIncremented, Envelope
    <3> QED
      BY <1>1, <1>2, <2>7, <3>1, SetType DEF RetryRead, Phases, Holding
  <2> QED BY <2>1, <2>2, <2>3, <2>4, <2>5, <2>6, <2>7
<1>4. UNCHANGED <<jobs, list, zset, dead, proc, record, sweep, promo, enq, sending, del, deletes, acked,
                  resolved, faults, stalls>>
  BY DEF LoadCancelled, Load, DeleteRead, BuildFails, Succeed, Fail, RetryRead, storeVars,
         workerUnchanged, loopVars, userVars
<1> QED
  BY <1>3, <1>4 DEF TypeOK, StoreType, ProcsTyped, LoopsTyped, UsersTyped, HistoryTyped

LEMMA DispatchType ==
    ASSUME TypeOK, NEW w \in Workers, NEW q \in Queues, NEW i \in Ids, Dispatch(w, q, i)
    PROVE  TypeOK'
<1>1. Owner(w) \in Procs
  BY DEF Workers, Owner
<1>2. UNCHANGED <<record, sweep, promo, enq, sending, del, deletes, acked, resolved, stalls>>
  BY DEF Dispatch, workerUnchanged, loopVars, userVars
<1>3. StoreType'
  BY <1>1, ClaimType DEF Dispatch, TypeOK
<1>4. ProcsTyped' /\ WorkersTyped' /\ faults' \in Nat
  <2>1. CASE Unanswered(w)
    BY <1>2, <2>1, UnansweredType
  <2>2. CASE Set(w, "claimed", i, None) /\ Replied(w)
    BY <1>2, <2>2, SetType DEF Phases, Holding, Replied, ProcsTyped, HistoryTyped, TypeOK
  <2>3. CASE UNCHANGED <<wk, proc, faults>>
    BY <1>2, <2>3 DEF ProcsTyped, WorkersTyped, HistoryTyped, TypeOK
  <2> QED BY <2>1, <2>2, <2>3 DEF Dispatch
<1> QED
  BY <1>2, <1>3, <1>4 DEF TypeOK, LoopsTyped, UsersTyped, HistoryTyped

(* Steps that change the store.                                            *)
LEMMA WorkerStoreType ==
    ASSUME TypeOK, NEW w \in Workers,
           \/ DeleteMissing(w) \/ Start(w) \/ Acknowledge(w)
           \/ Bury(w) \/ RetryCommit(w) \/ RetryRelease(w) \/ TransitionFails(w)
    PROVE  TypeOK'
<1>1. /\ wk[w].id \in Ids \/ wk[w].pc = "idle"
      /\ wk[w].pc \in Holding => wk[w].env \in Envelope
      /\ wk[w].env \in Envelope \cup {None}
  BY DEF TypeOK, WorkersTyped, Worker
<1>2. Owner(w) \in Procs
  BY DEF Workers, Owner
<1>3. /\ UNCHANGED <<record, sweep, promo, enq, sending, del, deletes, acked, stalls>>
      /\ resolved' \subseteq Ids \X Nat
  <2>1. UNCHANGED <<record, sweep, promo, enq, sending, del, deletes, acked, stalls>>
    BY DEF DeleteMissing, Start, Acknowledge, Bury, RetryCommit, RetryRelease,
           TransitionFails, workerUnchanged, loopVars, userVars
  <2>2. wk[w].pc \in Holding => wk[w].env.gen \in Nat
    BY <1>1 DEF Envelope
  <2>3. resolved' \subseteq Ids \X Nat
    BY <1>1, <2>2 DEF DeleteMissing, Start, Acknowledge, Bury, RetryCommit,
           RetryRelease, TransitionFails, Holding, TypeOK, HistoryTyped
  <2> QED BY <2>1, <2>3
<1>4. StoreType' /\ ProcsTyped' /\ WorkersTyped' /\ faults' \in Nat
  <2> USE DEF TypeOK
  <2>2. CASE DeleteMissing(w)
    <3>1. StoreType'
      BY <1>1, <1>2, <2>2, DeleteType DEF DeleteMissing
    <3> QED BY <1>3, <2>2, <3>1, FinishType DEF DeleteMissing
  <2>3. CASE Start(w)
    <3> DEFINE e == [wk[w].env EXCEPT !.started = TRUE]
    <3>1. wk[w].id \in Ids /\ e \in Envelope
      BY <1>1, <2>3 DEF Start, Holding, Envelope
    <3>2. StoreType'
      BY <2>3, <3>1, HSetType DEF Start
    <3>3. CASE Unanswered(w)
      BY <1>3, <3>2, <3>3, UnansweredType
    <3>4. CASE Set(w, "running", wk[w].id, e) /\ Replied(w)
      BY <1>3, <3>1, <3>2, <3>4, SetType DEF Phases, Holding, Replied, ProcsTyped, HistoryTyped
    <3> QED BY <2>3, <3>3, <3>4 DEF Start
  <2>4. CASE Acknowledge(w)
    <3>1. StoreType'
      BY <1>1, <1>2, <2>4, TransitionType DEF Acknowledge, Holding
    <3> QED BY <1>3, <2>4, <3>1, FinishType DEF Acknowledge
  <2>5. CASE Bury(w)
    <3>1. StoreType'
      BY <1>1, <1>2, <2>5, TransitionType DEF Bury, Holding
    <3> QED BY <1>3, <2>5, <3>1, FinishType DEF Bury
  <2>6. CASE RetryCommit(w)
    <3>1. StoreType'
      BY <1>1, <1>2, <2>6, TransitionType DEF RetryCommit, Holding
    <3> QED BY <1>3, <2>6, <3>1, FinishType DEF RetryCommit
  <2>7. CASE RetryRelease(w)
    <3>1. StoreType'
      BY <1>1, <1>2, <2>7, ReleaseType DEF RetryRelease
    <3> QED BY <1>3, <2>7, <3>1, FinishType DEF RetryRelease
  <2>8. CASE TransitionFails(w)
    <3>1. StoreType'
      BY <2>8 DEF TransitionFails, StoreType, storeVars
    <3> QED BY <1>3, <2>8, <3>1, UnansweredType DEF TransitionFails
  <2> QED BY <2>2, <2>3, <2>4, <2>5, <2>6, <2>7, <2>8
<1> QED
  BY <1>3, <1>4 DEF TypeOK, LoopsTyped, UsersTyped, HistoryTyped

-----------------------------------------------------------------------------
(* Background loops, deletion and time.                                    *)

LEMMA SweepType ==
    ASSUME TypeOK, NEW p \in Procs, SweepStep(p) \/ SweepFails(p)
    PROVE  TypeOK'
<1> DEFINE Shape(s) == /\ s \in Sweep
                       /\ s.pc \in {"claims", "moving", "emptied"} <=> s.target \in Procs
                       /\ s.pc = "moving" => s.id \in Ids
<1>1. Shape(sweep[p])
  BY DEF TypeOK, LoopsTyped
<1>2. \A i \in Ids : jobs[i] \in Envelope \cup {None}
  BY DEF TypeOK, StoreType
<1>3. \A ps \in SUBSET Procs : Shape(NextTarget(ps))
  BY DEF NextTarget, IdleSweep, Sweep, SweepPhases, NoIds
<1>4. \E s : Shape(s) /\ sweep' = [sweep EXCEPT ![p] = s]
  <2>1. CASE SweepScan(p)
    <3> DEFINE ps == sweep[p].procs \cup {q \in Procs : \E i \in Ids : list[q][i] > 0}
    <3>1. sweep' = [sweep EXCEPT ![p] = [sweep[p] EXCEPT !.pc = "scanned", !.procs = ps]]
      BY <2>1 DEF SweepScan, TypeOK, LoopsTyped
    <3>2. Shape([sweep[p] EXCEPT !.pc = "scanned", !.procs = ps])
      BY <1>1, <2>1 DEF SweepScan, Sweep, SweepPhases
    <3> QED BY <3>1, <3>2
  <2>2. CASE SweepRecords(p)
    BY <1>3, <2>2 DEF SweepRecords
  <2>3. CASE SweepMove(p)
    <3>1. sweep' = [sweep EXCEPT ![p] =
                     [sweep[p] EXCEPT !.pc = "claims", !.id = None, !.seen = None]]
      BY <2>3 DEF SweepMove, TypeOK, LoopsTyped
    <3>2. Shape([sweep[p] EXCEPT !.pc = "claims", !.id = None, !.seen = None])
      BY <1>1, <2>3 DEF SweepMove, Sweep, SweepPhases
    <3> QED BY <3>1, <3>2
  <2>4. CASE SweepLength(p)
    <3>1. Shape([sweep[p] EXCEPT !.pc = "emptied"])
      BY <1>1, <2>4 DEF SweepLength, Sweep, SweepPhases
    <3>2. Shape(NextTarget(sweep[p].procs))
      BY <1>1, <1>3 DEF Sweep
    <3> QED
      BY <2>4, <3>1, <3>2 DEF SweepLength, TypeOK, LoopsTyped
  <2>5. CASE SweepForget(p)
    <3>1. Shape(NextTarget(sweep[p].procs))
      BY <1>1, <1>3 DEF Sweep
    <3> QED
      BY <2>5, <3>1 DEF SweepForget, TypeOK, LoopsTyped
  <2>6. ASSUME NEW q \in Procs, SweepTarget(p, q)
        PROVE  \E s : Shape(s) /\ sweep' = [sweep EXCEPT ![p] = s]
    <3> DEFINE s == [sweep[p] EXCEPT !.pc = "claims", !.procs = @ \ {q}, !.target = q,
                                     !.ids = list[q]]
    <3>1. sweep' = [sweep EXCEPT ![p] = s]
      BY <2>6 DEF SweepTarget, TypeOK, LoopsTyped
    <3>2. list[q] \in [Ids -> Nat]
      BY DEF TypeOK, StoreType, Lists
    <3>3. Shape(s)
      BY <1>1, <3>2 DEF Sweep, SweepPhases
    <3> QED BY <3>1, <3>3
  <2>7. ASSUME NEW i \in Ids, SweepRead(p, i)
        PROVE  \E s : Shape(s) /\ sweep' = [sweep EXCEPT ![p] = s]
    <3> DEFINE n == [sweep[p].ids EXCEPT ![i] = @ - 1]
               s == [sweep[p] EXCEPT !.pc = "moving", !.ids = n, !.id = i, !.seen = jobs[i]]
    <3>1. sweep' = [sweep EXCEPT ![p] = s]
      <4> HIDE DEF n
      <4>1. sweep' = [sweep EXCEPT ![p].pc = "moving", ![p].ids = n, ![p].id = i,
                                   ![p].seen = jobs[i]]
        BY <2>7 DEF SweepRead, n
      <4> QED BY <4>1 DEF TypeOK, LoopsTyped
    <3>2. n \in [Ids -> Nat]
      BY <1>1, <2>7 DEF SweepRead, Sweep
    <3>3. Shape(s)
      <4> HIDE DEF n
      <4> QED BY <1>1, <1>2, <2>7, <3>2 DEF SweepRead, Sweep, SweepPhases
    <3> QED BY <3>1, <3>3
  <2>8. CASE SweepFails(p)
    BY <2>8, IdleTypes DEF SweepFails
  <2> QED BY <2>1, <2>2, <2>3, <2>4, <2>5, <2>6, <2>7, <2>8 DEF SweepStep
<1>5. StoreType'
  <2>1. CASE SweepMove(p)
    <3>1. sweep[p].seen \in Envelope \cup {None}
      BY <1>1 DEF Sweep
    <3> QED
      BY <1>1, <2>1, <3>1, ResurrectType DEF SweepMove, TypeOK
  <2>2. CASE ~SweepMove(p)
    BY <2>2 DEF SweepStep, SweepScan, SweepRecords, SweepLength, SweepForget, SweepTarget,
                SweepRead, SweepFails, TypeOK, StoreType, storeVars
  <2> QED BY <2>1, <2>2
<1>6. ProcsTyped' /\ HistoryTyped'
  <2>1. sweep[p].seen # None => sweep[p].seen.gen \in Nat
    BY <1>1 DEF Sweep, Envelope
  <2>2. CASE SweepMove(p)
    BY <1>1, <2>1, <2>2 DEF SweepMove, sweepUnchanged, procVars, TypeOK, ProcsTyped, HistoryTyped
  <2>3. CASE SweepForget(p)
    BY <2>3 DEF SweepForget, histVars, TypeOK, ProcsTyped, HistoryTyped
  <2>4. CASE ~SweepMove(p) /\ ~SweepForget(p)
    <3>1. UNCHANGED <<proc, record, acked, resolved, stalls>>
      BY <2>4 DEF SweepStep, SweepScan, SweepRecords, SweepLength, SweepTarget,
                  SweepRead, SweepFails, sweepUnchanged, procVars, histVars
    <3>2. faults' = faults \/ faults' = faults + 1
      BY <2>4 DEF SweepStep, SweepScan, SweepRecords, SweepLength, SweepTarget,
                  SweepRead, SweepFails, Fault
    <3> QED
      BY <3>1, <3>2 DEF TypeOK, ProcsTyped, HistoryTyped
  <2> QED BY <2>2, <2>3, <2>4
<1>7. UNCHANGED <<wk, promo, enq, sending, del, deletes>>
  BY DEF SweepStep, SweepScan, SweepRecords, SweepMove, SweepLength, SweepForget, SweepTarget,
         SweepRead, SweepFails, sweepUnchanged, userVars
<1>8. LoopsTyped'
  <2> PICK s : Shape(s) /\ sweep' = [sweep EXCEPT ![p] = s]
    BY <1>4
  <2>1. sweep' \in [Procs -> Sweep] /\ \A r \in Procs : Shape(sweep'[r])
    BY DEF TypeOK, LoopsTyped
  <2> QED
    BY <1>7, <2>1 DEF TypeOK, LoopsTyped
<1> QED
  BY <1>5, <1>6, <1>7, <1>8 DEF TypeOK, WorkersTyped, UsersTyped

LEMMA PromoteLoopType ==
    ASSUME TypeOK, NEW p \in Procs, NEW z \in Zsets, PromoteStep(p, z) \/ PromoteFails(p, z)
    PROVE  TypeOK'
<1> DEFINE l == <<p, z>>
<1>1. l \in Procs \X Zsets /\ promo[l] \in Promo
  BY DEF TypeOK, LoopsTyped
<1>2. \A i \in Ids : jobs[i] \in Envelope \cup {None}
  BY DEF TypeOK, StoreType
<1>3. promo' \in [Procs \X Zsets -> Promo]
  <2> USE <1>1, <1>2 DEF TypeOK, LoopsTyped, Promo
  <2>1. CASE PromoteRange(p, z)
    BY <2>1 DEF PromoteRange
  <2>2. CASE PromoteMove(p, z)
    BY <2>2 DEF PromoteMove
  <2>3. ASSUME NEW i \in Ids, PromoteRead(p, z, i)
        PROVE  promo' \in [Procs \X Zsets -> Promo]
    BY <2>3 DEF PromoteRead
  <2>4. CASE PromoteFails(p, z)
    BY <2>4, IdleTypes DEF PromoteFails
  <2> QED BY <2>1, <2>2, <2>3, <2>4 DEF PromoteStep
<1>4. StoreType'
  <2>1. CASE PromoteMove(p, z)
    <3>1. promo[l].id \in Ids /\ promo[l].seen \in Envelope \cup {None}
      BY <1>1, <2>1 DEF PromoteMove, Promo
    <3> QED
      BY <2>1, <3>1, PromoteType DEF PromoteMove, TypeOK
  <2>2. CASE ~PromoteMove(p, z)
    BY <2>2 DEF PromoteStep, PromoteRange, PromoteRead, PromoteFails, TypeOK, StoreType, storeVars
  <2> QED BY <2>1, <2>2
<1>5. UNCHANGED <<proc, record, wk, sweep, enq, sending, del, deletes, acked, resolved, stalls>>
      /\ faults' \in Nat
  <2>1. UNCHANGED <<proc, record, wk, sweep, enq, sending, del, deletes, acked, resolved, stalls>>
    BY DEF PromoteStep, PromoteRange, PromoteRead, PromoteMove, PromoteFails, promoUnchanged,
           procVars, userVars, histVars
  <2>2. faults' = faults \/ faults' = faults + 1
    BY DEF PromoteStep, PromoteRange, PromoteRead, PromoteMove, PromoteFails, Fault
  <2> QED
    BY <2>1, <2>2 DEF TypeOK, HistoryTyped
<1> QED
  BY <1>3, <1>4, <1>5 DEF TypeOK, ProcsTyped, WorkersTyped, LoopsTyped, UsersTyped, HistoryTyped

LEMMA TickType ==
    ASSUME TypeOK, NEW z \in Zsets, NEW id \in Ids, Tick(z, id)
    PROVE  TypeOK'
<1>1. StoreType'
  BY ZAddType DEF Tick, TypeOK
<1> QED
  BY <1>1 DEF Tick, TypeOK, ProcsTyped, WorkersTyped, LoopsTyped, UsersTyped, HistoryTyped,
              procVars, loopVars, userVars, histVars

LEMMA AdminType ==
    ASSUME TypeOK, AdminDelete \/ \E by \in Procs \cup {None}, id \in Ids : AdminRead(by, id)
    PROVE  TypeOK'
<1>1. CASE AdminDelete
  <2>1. del \in Delete /\ del.id \in Ids /\ del.by \in Procs \cup {None}
        /\ del.seen \in Envelope \cup {None}
    BY <1>1 DEF AdminDelete, TypeOK, UsersTyped, Delete
  <2>2. StoreType'
    BY <1>1, <2>1, DeleteType DEF AdminDelete, TypeOK
  <2>3. resolved' \subseteq Ids \X Nat
    BY <1>1, <2>1 DEF AdminDelete, TypeOK, HistoryTyped
  <2> QED
    BY <1>1, <2>2, <2>3, IdleTypes DEF AdminDelete, deleteUnchanged, TypeOK, ProcsTyped,
       WorkersTyped, LoopsTyped, UsersTyped, HistoryTyped, procVars, loopVars
<1>2. ASSUME NEW by \in Procs \cup {None}, NEW id \in Ids, AdminRead(by, id)
      PROVE  TypeOK'
  <2>1. jobs[id] \in Envelope \cup {None}
    BY DEF TypeOK, StoreType
  <2>2. del' \in Delete /\ del'.id \in Ids /\ deletes' \in Nat
    BY <1>2, <2>1 DEF AdminRead, Delete, TypeOK, UsersTyped
  <2> QED
    BY <1>2, <2>2 DEF AdminRead, deleteUnchanged, TypeOK, StoreType, ProcsTyped,
       WorkersTyped, LoopsTyped, UsersTyped, HistoryTyped, storeVars, procVars, loopVars
<1> QED BY <1>1, <1>2

-----------------------------------------------------------------------------
LEMMA NextType == TypeOK /\ [Next]_vars => TypeOK'
<1> SUFFICES ASSUME TypeOK, [Next]_vars PROVE TypeOK'
  OBVIOUS
<1>1. CASE UNCHANGED vars
  BY <1>1 DEF vars, TypeOK, StoreType, ProcsTyped, WorkersTyped, LoopsTyped, UsersTyped,
     HistoryTyped, storeVars, procVars, loopVars, userVars, histVars
<1>2. CASE Produce
  BY <1>2, ProducerType
<1>3. CASE ProcessStep
  BY <1>3, ProcessType
<1>4. ASSUME NEW w \in Workers, WorkerStep(w) \/ TransitionFails(w)
                   \/ \E q \in Queues, id \in Ids : Dispatch(w, q, id)
      PROVE  TypeOK'
  BY <1>4, WorkerLocalType, WorkerStoreType, DispatchType DEF WorkerStep
<1>5. ASSUME NEW p \in Procs, SweepStep(p) \/ SweepFails(p)
      PROVE  TypeOK'
  BY <1>5, SweepType
<1>6. ASSUME NEW p \in Procs, NEW z \in Zsets, PromoteStep(p, z) \/ PromoteFails(p, z)
      PROVE  TypeOK'
  BY <1>6, PromoteLoopType
<1>7. ASSUME NEW z \in Zsets, NEW id \in Ids, Tick(z, id)
      PROVE  TypeOK'
  BY <1>7, TickType
<1>8. CASE AdminDelete \/ \E by \in Procs \cup {None}, id \in Ids : AdminRead(by, id)
  BY <1>8, AdminType
<1> QED
  BY <1>1, <1>2, <1>3, <1>4, <1>5, <1>6, <1>7, <1>8 DEF Next

(* Every reachable state of the lifecycle is well typed: the store holds   *)
(* envelopes and counts, and every task has the fields its phase uses.     *)
THEOREM TypeCorrect == Spec => []TypeOK
<1>1. Init => TypeOK
  BY InitType
<1>2. TypeOK /\ [Next]_vars => TypeOK'
  BY NextType
<1> QED
  BY <1>1, <1>2, PTL DEF Spec

-----------------------------------------------------------------------------
(* An entry that is not due leaves its sorted set only with its payload.   *)
LEMMA EarlyRemoval ==
    ASSUME TypeOK, [Next]_vars, NEW z \in Zsets, NEW id \in Ids,
           zset[z][id] = "wait", zset'[z][id] = "none"
    PROVE  jobs'[id] = None
<1>1. zset \in [Zsets -> [Ids -> Entry]] /\ jobs \in [Ids -> Envelope \cup {None}]
  BY DEF TypeOK, StoreType
<1>2. ~UNCHANGED zset
  OBVIOUS
<1>3. ASSUME NEW y \in Zsets, NEW i \in Ids, NEW e \in {"wait", "due"},
             zset' = [zset EXCEPT ![y][i] = e]
      PROVE  FALSE
  BY <1>1, <1>3
<1>4. ASSUME NEW p \in Procs \cup {None}, NEW i \in Ids, NEW seen, DeleteJob(p, i, seen)
      PROVE  jobs'[id] = None
  BY <1>1, <1>4 DEF DeleteJob
<1>5. ~UNCHANGED vars
  BY <1>2 DEF vars, storeVars
<1>6. ~Produce
  <2> SUFFICES ASSUME Produce PROVE FALSE
    OBVIOUS
  <2>1. PICK i \in Ids : \/ EnqueuePush(i) \/ EnqueueBroken(i)
                         \/ \E q \in Queues : EnqueueSave(i, q) \/ EnqueueUnique(i, q)
    BY DEF Produce
  <2>2. UNCHANGED zset \/ zset' = [zset EXCEPT !["schedule"][i] = "wait"]
    BY <2>1 DEF EnqueuePush, EnqueueBroken, EnqueueSave, EnqueueUnique, LPush, ZAdd, HSet,
       EnqueueQueue, EnqueueSchedule, storeVars
  <2> QED BY <1>2, <1>3, <2>2 DEF Zsets
<1>7. ~ProcessStep
  BY <1>2 DEF ProcessStep, Register, Ping, Expire, Stall, Shutdown, Deregister, ShutdownTimeout,
     Crash, storeVars
<1>8. ASSUME NEW w \in Workers, WorkerStep(w) \/ TransitionFails(w)
                   \/ \E q \in Queues, i \in Ids : Dispatch(w, q, i)
      PROVE  jobs'[id] = None
  <2>1. Owner(w) \in Procs
    BY DEF Workers, Owner
  <2>2. CASE DeleteMissing(w) \/ RetryCommit(w)
    <3>1. wk[w].id \in Ids
      BY <2>2 DEF DeleteMissing, RetryCommit, TypeOK, WorkersTyped
    <3>2. CASE DeleteMissing(w)
      BY <1>4, <2>1, <3>1, <3>2 DEF DeleteMissing
    <3>3. CASE RetryCommit(w)
      BY <1>3, <3>1, <3>3 DEF RetryCommit, RetryFailed, Zsets
    <3> QED BY <2>2, <3>2, <3>3
  <2>3. CASE ~(DeleteMissing(w) \/ RetryCommit(w))
    BY <1>2, <1>8, <2>3 DEF WorkerStep, LoadCancelled, Load, DeleteRead, BuildFails, Start,
       Succeed, Fail, Acknowledge, Bury, RetryRead, RetryRelease, TransitionFails, Dispatch,
       storeVars, HSet, FinishSuccess, FinishDead, ReleaseClaim, Claim
  <2> QED BY <2>2, <2>3
<1>9. ASSUME NEW p \in Procs, SweepStep(p) \/ SweepFails(p)
      PROVE  FALSE
  BY <1>2, <1>9 DEF SweepStep, SweepScan, SweepRecords, SweepMove, SweepLength, SweepForget,
     SweepTarget, SweepRead, SweepFails, storeVars, ResurrectClaim
<1>10. ASSUME NEW p \in Procs, NEW y \in Zsets, PromoteStep(p, y) \/ PromoteFails(p, y)
       PROVE  FALSE
  <2>1. PromoteMove(p, y)
    BY <1>2, <1>10 DEF PromoteStep, PromoteRange, PromoteRead, PromoteFails, storeVars
  <2>2. PICK i \in Ids : i = promo[<<p, y>>].id
    BY <2>1 DEF PromoteMove, TypeOK, LoopsTyped, Promo
  <2>3. zset[y][i] = "due" /\ zset' = [zset EXCEPT ![y][i] = "none"]
    BY <1>2, <2>1, <2>2 DEF PromoteMove, PromoteScheduled, storeVars
  <2> QED BY <1>1, <2>3
<1>11. ASSUME NEW y \in Zsets, NEW i \in Ids, Tick(y, i)
       PROVE  FALSE
  BY <1>3, <1>11 DEF Tick, ComeDue
<1>12. CASE AdminDelete \/ \E by \in Procs \cup {None}, i \in Ids : AdminRead(by, i)
  <2>1. AdminDelete
    BY <1>2, <1>12 DEF AdminRead, storeVars
  <2>2. del.by \in Procs \cup {None} /\ del.id \in Ids
    BY <2>1 DEF AdminDelete, TypeOK, UsersTyped, Delete
  <2> QED BY <1>4, <2>1, <2>2 DEF AdminDelete
<1> QED
  BY <1>5, <1>6, <1>7, <1>8, <1>9, <1>10, <1>11, <1>12 DEF Next

(* A retry or a scheduled job is never queued before its time, with any    *)
(* number of processes running the schedule and retry loops at once, in    *)
(* the presence of stalls, crashes and deletions.                          *)
THEOREM PromotionsOnTime == Spec => NoEarlyPromotion
<1>1. TypeOK /\ [Next]_vars =>
        [\A z \in Zsets, id \in Ids :
            zset[z][id] = "wait" /\ zset'[z][id] = "none" => jobs'[id] = None]_vars
  BY EarlyRemoval
<1> QED
  BY <1>1, TypeCorrect, PTL DEF Spec, NoEarlyPromotion

-----------------------------------------------------------------------------
(* Registry.                                                               *)

LEMMA RegistryInit == Init => Registry
<1> SUFFICES ASSUME Init PROVE Registry
  OBVIOUS
<1>1. \A p \in Procs : /\ proc[p] = "new" /\ record[p] = "none" /\ sweep[p] = IdleSweep
                       /\ \A i \in Ids : list[p][i] = 0
  BY DEF Init, StoreInit, Lists
<1>2. \A w \in Workers : wk[w].pc = "idle"
  BY IdleTypes DEF Init
<1>3. IdleSweep.procs = {}
  BY DEF IdleSweep
<1> QED
  BY <1>1, <1>2, <1>3, IdleTypes
  DEF Registry, RecordsTruthful, SweepsTheGone, WorkersAlive, Alive

(* Steps that leave records and sweeps alone, drain at most a process that *)
(* is alive, and put nothing on the list of a process that has not started.*)
LEMMA RegistryKept ==
    ASSUME TypeOK, Registry, UNCHANGED <<record, sweep>>,
           \A p \in Procs : proc'[p] = proc[p] \/ (Alive(p) /\ proc'[p] = "draining"),
           \A p \in Procs, i \in Ids : proc[p] = "new" => list'[p][i] = 0,
           \A w \in Workers : wk'[w].pc # "idle" => Alive(Owner(w))
    PROVE  Registry'
<1>1. \A p \in Procs : /\ Alive(p)' <=> Alive(p)
                       /\ Gone(p)' <=> Gone(p)
                       /\ proc'[p] = "new" <=> proc[p] = "new"
  BY DEF Alive, Gone
<1>2. RecordsTruthful'
  BY <1>1 DEF Registry, RecordsTruthful
<1>3. SweepsTheGone'
  <2>1. \A p \in Procs : sweep[p].procs \subseteq Procs /\ sweep[p].target \in Procs \cup {None}
    BY DEF TypeOK, LoopsTyped, Sweep
  <2> QED
    BY <1>1, <2>1 DEF Registry, SweepsTheGone
<1>4. WorkersAlive'
  <2>1. \A w \in Workers : Owner(w) \in Procs
    BY DEF Workers, Owner
  <2> QED
    BY <1>1, <2>1 DEF WorkersAlive, Owner
<1> QED BY <1>2, <1>3, <1>4 DEF Registry

LEMMA ListsOf ==
    ASSUME TypeOK
    PROVE  /\ \A k \in Lists, i \in Ids : list[k][i] \in Nat
           /\ \A p \in Procs : p \in Lists /\ p \notin Queues
           /\ \A q \in Queues : q \in Lists /\ q \notin Procs
<1>1. \A k \in Lists, i \in Ids : list[k][i] \in Nat
  BY DEF TypeOK, StoreType
<1>2. \A p \in Procs : p \in Lists /\ p \notin Queues
  BY DEF Lists
<1>3. \A q \in Queues : q \in Lists /\ q \notin Procs
  BY DEF Lists
<1> QED BY <1>1, <1>2, <1>3

(* What a producer pushes never lands on a processing list.                *)
LEMMA ProducePushes ==
    ASSUME TypeOK, NEW id \in Ids,
           \/ EnqueuePush(id) \/ EnqueueBroken(id)
           \/ \E q \in Queues : EnqueueSave(id, q) \/ EnqueueUnique(id, q)
    PROVE  UNCHANGED list \/ \E q \in Queues : list' = Pushed(q, id)
<1>1. CASE EnqueuePush(id)
  <2>1. sending[id] \in Queues
    BY <1>1 DEF EnqueuePush, TypeOK, UsersTyped
  <2> QED
    BY <1>1, <2>1 DEF EnqueuePush, ZAdd, LPush
<1>2. CASE EnqueueBroken(id)
  BY <1>2 DEF EnqueueBroken, storeVars
<1>3. ASSUME NEW q \in Queues, EnqueueSave(id, q) PROVE UNCHANGED list
  BY <1>3 DEF EnqueueSave, HSet
<1>4. ASSUME NEW q \in Queues, EnqueueUnique(id, q)
      PROVE  UNCHANGED list \/ list' = Pushed(q, id)
  <2>1. NewEnvelope(q, acked[id] + 1).queue = q
    BY DEF NewEnvelope
  <2> QED
    BY <1>4, <2>1 DEF EnqueueUnique, EnqueueQueue, EnqueueSchedule
<1> QED BY <1>1, <1>2, <1>3, <1>4

(* Neither does what a promoter moves.                                     *)
LEMMA PromoteSpares ==
    ASSUME TypeOK, NEW p \in Procs, NEW z \in Zsets, PromoteStep(p, z) \/ PromoteFails(p, z)
    PROVE  \A r \in Procs, i \in Ids : list'[r][i] = list[r][i]
<1>1. CASE PromoteMove(p, z)
  <2> DEFINE id == promo[<<p, z>>].id  seen == promo[<<p, z>>].seen
  <2>1. id \in Ids /\ seen \in Envelope \cup {None}
    BY <1>1 DEF PromoteMove, TypeOK, LoopsTyped, Promo
  <2>2. seen # None => seen.queue \in Queues
    BY <2>1 DEF Envelope
  <2>3. UNCHANGED list \/ (seen # None /\ list' = Pushed(seen.queue, id))
    BY <1>1 DEF PromoteMove, PromoteScheduled, storeVars
  <2> HIDE DEF id, seen
  <2> QED
    BY <2>1, <2>2, <2>3, ListsOf, PushedCounts DEF TypeOK
<1>2. CASE ~PromoteMove(p, z)
  BY <1>2 DEF PromoteStep, PromoteRange, PromoteRead, PromoteFails, storeVars
<1> QED BY <1>1, <1>2

(* A sweep takes jobs off processing lists and adds none.                  *)
LEMMA SweepShrinks ==
    ASSUME TypeOK, NEW p \in Procs, SweepMove(p)
    PROVE  \A r \in Procs, i \in Ids : list'[r][i] <= list[r][i]
<1> DEFINE id == sweep[p].id  seen == sweep[p].seen  t == sweep[p].target
<1>1. id \in Ids /\ seen \in Envelope \cup {None} /\ t \in Procs
  BY DEF SweepMove, TypeOK, LoopsTyped, Sweep
<1>2. seen # None => seen.queue \in Queues
  BY <1>1 DEF Envelope
<1>3. \/ UNCHANGED list
      \/ list[t][id] # 0 /\ seen # None /\ list' = Moved(t, seen.queue, id)
      \/ list' = Removed(t, id)
  BY DEF SweepMove, ResurrectClaim, storeVars
<1> HIDE DEF id, seen, t
<1>4. \A k \in Lists, i \in Ids : list[k][i] \in Nat
  BY ListsOf
<1>5. CASE list[t][id] # 0 /\ seen # None /\ list' = Moved(t, seen.queue, id)
  <2>1. list[t][id] > 0 /\ t \in Lists /\ seen.queue \in Lists /\ seen.queue # t
    BY <1>1, <1>2, <1>4, <1>5, ListsOf
  <2>2. \A r \in Procs : r \in Lists /\ r # seen.queue
    BY <1>2, <1>5, ListsOf
  <2> QED BY <1>1, <1>4, <1>5, <2>1, <2>2, MovedCounts DEF TypeOK
<1>6. CASE list' = Removed(t, id)
  <2>1. \A k \in Lists, i \in Ids : list'[k][i] =
            IF k = t /\ i = id /\ list[k][i] > 0 THEN list[k][i] - 1 ELSE list[k][i]
    BY <1>1, <1>6, ListsOf, RemovedCounts DEF TypeOK
  <2> QED BY <1>4, <2>1, ListsOf
<1>7. CASE UNCHANGED list
  BY <1>4, <1>7, ListsOf
<1> QED BY <1>3, <1>5, <1>6, <1>7

LEMMA RegistryProduce ==
    ASSUME TypeOK, Registry, Produce
    PROVE  Registry'
<1> PICK id \in Ids : \/ EnqueuePush(id) \/ EnqueueBroken(id)
                      \/ \E q \in Queues : EnqueueSave(id, q) \/ EnqueueUnique(id, q)
  BY DEF Produce
<1>1. UNCHANGED <<proc, record, wk, sweep>>
  BY DEF EnqueueSave, EnqueuePush, EnqueueBroken, EnqueueUnique, producerUnchanged,
         procVars, loopVars
<1>2. UNCHANGED list \/ \E q \in Queues : list' = Pushed(q, id)
  BY ProducePushes
<1>3. \A p \in Procs, i \in Ids : list'[p][i] = list[p][i]
  <2>1. ASSUME NEW q \in Queues, list' = Pushed(q, id)
        PROVE  \A p \in Procs, i \in Ids : list'[p][i] = list[p][i]
    BY <2>1, ListsOf, PushedCounts DEF TypeOK
  <2> QED BY <1>2, <2>1
<1> QED
  BY <1>1, <1>3, RegistryKept DEF Registry, RecordsTruthful, WorkersAlive

LEMMA RegistryProcess ==
    ASSUME MaxStalls = 0, TypeOK, Registry, ProcessStep
    PROVE  Registry'
<1> PICK p \in Procs :
        \/ Register(p) \/ Ping(p) \/ Expire(p) \/ Stall(p)
        \/ Shutdown(p) \/ Deregister(p) \/ ShutdownTimeout(p) \/ Crash(p)
  BY DEF ProcessStep
<1>0. ~Stall(p)
  BY DEF Stall, TypeOK, HistoryTyped
<1>1. UNCHANGED list
  BY <1>0 DEF Register, Ping, Expire, Shutdown, Deregister, ShutdownTimeout, Crash, storeVars
<1>2. /\ \A q \in Procs : q # p => proc'[q] = proc[q] /\ record'[q] = record[q]
      /\ \/ proc[p] = "new" /\ proc'[p] = "running" /\ record'[p] = "fresh"
         \/ Alive(p) /\ proc'[p] = proc[p] /\ record'[p] = "fresh"
         \/ ~Alive(p) /\ proc'[p] = proc[p] /\ record[p] = "fresh" /\ record'[p] = "stale"
         \/ Alive(p) /\ proc'[p] = "draining" /\ record'[p] = record[p]
         \/ Alive(p) /\ proc'[p] \in {"stopped", "crashed"}
  BY <1>0 DEF TypeOK, ProcsTyped, Register, Ping, Expire, Shutdown, FailRuntime, Deregister,
     ShutdownTimeout, Crash, Alive
<1>3. RecordsTruthful'
  BY <1>1, <1>2 DEF Registry, RecordsTruthful, Alive
<1>4. /\ \A q \in Procs : proc'[q] = "new" => proc[q] = "new"
      /\ \A q \in Procs : Gone(q) => Gone(q)'
  BY <1>2 DEF Gone, Alive
<1>5. \A q \in Procs : sweep'[q] = sweep[q] \/ sweep'[q] = IdleSweep
  BY <1>0 DEF TypeOK, LoopsTyped, Register, Ping, Expire, Shutdown, Deregister, ShutdownTimeout,
     Crash, Forget, loopVars
<1>6. SweepsTheGone'
  <2>1. \A q \in Procs : sweep[q].procs \subseteq Procs /\ sweep[q].target \in Procs \cup {None}
    BY DEF TypeOK, LoopsTyped, Sweep
  <2>2. IdleSweep.procs = {} /\ IdleSweep.pc = "idle" /\ IdleSweep.target = None
    BY DEF IdleSweep
  <2> QED
    BY <1>4, <1>5, <2>1, <2>2 DEF Registry, SweepsTheGone
<1>7. WorkersAlive'
  <2>1. CASE ShutdownTimeout(p) \/ Crash(p)
    <3>1. \A w \in Workers : wk'[w].pc # "idle" => Owner(w) # p /\ wk'[w] = wk[w]
      BY <2>1, IdleTypes DEF ShutdownTimeout, Crash, Forget
    <3> QED
      BY <1>2, <3>1 DEF Registry, WorkersAlive, Workers, Owner, Alive
  <2>2. CASE ~(ShutdownTimeout(p) \/ Crash(p))
    <3>1. UNCHANGED wk
      BY <1>0, <2>2 DEF Register, Ping, Expire, Shutdown, Deregister
    <3>2. \A w \in Workers : Owner(w) \in Procs /\ (Owner(w) = p => w \in SlotsOf(p))
      BY DEF Workers, Owner, SlotsOf
    <3>3. CASE Deregister(p)
      BY <1>2, <3>1, <3>2, <3>3 DEF Registry, WorkersAlive, Deregister, Alive
    <3>4. CASE ~Deregister(p)
      <4>1. \A q \in Procs : Alive(q) => Alive(q)'
        BY <1>0, <2>2, <3>4 DEF Register, Ping, Expire, Shutdown, FailRuntime, Alive, TypeOK,
           ProcsTyped
      <4> QED
        BY <3>1, <3>2, <4>1 DEF Registry, WorkersAlive
    <3> QED BY <3>3, <3>4
  <2> QED BY <2>1, <2>2
<1> QED BY <1>3, <1>6, <1>7 DEF Registry

LEMMA RegistryWorker ==
    ASSUME TypeOK, Registry, NEW w \in Workers, WorkerStep(w) \/ TransitionFails(w)
    PROVE  Registry'
<1>1. UNCHANGED <<record, sweep>>
  BY DEF WorkerStep, LoadCancelled, Load, DeleteRead, DeleteMissing, BuildFails, Start, Succeed,
     Fail, Acknowledge, Bury, RetryRead, RetryCommit, RetryRelease, TransitionFails,
     workerUnchanged, loopVars
<1>2. wk[w].pc # "idle" /\ Alive(Owner(w)) /\ Owner(w) \in Procs
  <2>1. wk[w].pc # "idle"
    BY DEF WorkerStep, LoadCancelled, Load, DeleteRead, DeleteMissing, BuildFails, Start, Succeed,
       Fail, Acknowledge, Bury, RetryRead, RetryCommit, RetryRelease, TransitionFails
  <2> QED
    BY <2>1 DEF Registry, WorkersAlive, Workers, Owner
<1>3. UNCHANGED proc \/ proc' = [proc EXCEPT ![Owner(w)] = "draining"]
  BY DEF WorkerStep, LoadCancelled, Load, DeleteRead, DeleteMissing, BuildFails, Start, Succeed,
     Fail, Acknowledge, Bury, RetryRead, RetryCommit, RetryRelease, TransitionFails, Finish,
     Replied, Unanswered, FailRuntime
<1>4. \A p \in Procs : proc'[p] = proc[p] \/ (Alive(p) /\ proc'[p] = "draining")
  BY <1>2, <1>3 DEF TypeOK, ProcsTyped
<1>5. \A v \in Workers : v # w => wk'[v] = wk[v]
  BY DEF WorkerStep, LoadCancelled, Load, DeleteRead, DeleteMissing, BuildFails, Start, Succeed,
     Fail, Acknowledge, Bury, RetryRead, RetryCommit, RetryRelease, TransitionFails, Finish,
     Unanswered, Set, TypeOK, WorkersTyped
<1>6. \/ UNCHANGED list
      \/ list' = Removed(Owner(w), wk[w].id)
      \/ DeleteJob(Owner(w), wk[w].id, wk[w].env)
  BY DEF WorkerStep, LoadCancelled, Load, DeleteRead, DeleteMissing, BuildFails, Start, Succeed,
     Fail, Acknowledge, Bury, RetryRead, RetryCommit, RetryRelease, TransitionFails,
     storeVars, HSet, FinishSuccess, FinishDead, RetryFailed, ReleaseClaim
<1>7. \A p \in Procs, i \in Ids : proc[p] = "new" => list'[p][i] = 0
  <2>1. wk[w].id \in Ids
    BY <1>2 DEF TypeOK, WorkersTyped
  <2>2. \A p \in Procs, i \in Ids : proc[p] = "new" => list[p][i] = 0 /\ p # Owner(w)
    BY <1>2 DEF Registry, RecordsTruthful, Alive
  <2>3. CASE UNCHANGED list
    BY <2>2, <2>3
  <2>4. CASE list' = Removed(Owner(w), wk[w].id)
    <3>1. StoreType /\ Owner(w) \in Lists
      BY <1>2, ListsOf DEF TypeOK
    <3>2. \A p \in Procs, i \in Ids : p # Owner(w) => list'[p][i] = list[p][i]
      BY <2>1, <2>4, <3>1, ListsOf, RemovedCounts
    <3> QED BY <2>2, <3>2
  <2>5. CASE DeleteJob(Owner(w), wk[w].id, wk[w].env)
    <3>1. \A p \in Procs, i \in Ids : list'[p][i] = list[p][i] \/ list'[p][i] = 0
      BY <2>5, ListsOf DEF DeleteJob, TypeOK, StoreType
    <3> QED BY <2>2, <3>1
  <2> QED BY <1>6, <2>3, <2>4, <2>5
<1> QED
  BY <1>1, <1>2, <1>4, <1>5, <1>7, RegistryKept DEF Registry, WorkersAlive

LEMMA RegistryDispatch ==
    ASSUME TypeOK, Registry, NEW w \in Workers, NEW q \in Queues, NEW id \in Ids,
           Dispatch(w, q, id)
    PROVE  Registry'
<1>1. UNCHANGED <<record, sweep>>
  BY DEF Dispatch, workerUnchanged, loopVars
<1>2. Alive(Owner(w)) /\ Owner(w) \in Procs
  BY DEF Dispatch, Alive, Workers, Owner
<1>3. UNCHANGED proc \/ proc' = [proc EXCEPT ![Owner(w)] = "draining"]
  BY DEF Dispatch, Replied, Unanswered, FailRuntime
<1>4. \A p \in Procs : proc'[p] = proc[p] \/ (Alive(p) /\ proc'[p] = "draining")
  BY <1>2, <1>3 DEF TypeOK, ProcsTyped
<1>5. \A v \in Workers : v # w => wk'[v] = wk[v]
  BY DEF Dispatch, Unanswered, Set, TypeOK, WorkersTyped
<1>6. \A p \in Procs, i \in Ids : proc[p] = "new" => list'[p][i] = 0
  <2>1. \A p \in Procs, i \in Ids : proc[p] = "new" => list[p][i] = 0 /\ p # Owner(w)
    BY <1>2 DEF Registry, RecordsTruthful, Alive
  <2>2. list' = Moved(q, Owner(w), id) /\ list[q][id] > 0
    BY DEF Dispatch, Claim
  <2>3. \A p \in Procs, i \in Ids : p # Owner(w) => list'[p][i] = list[p][i]
    BY <1>2, <2>2, ListsOf, MovedCounts DEF TypeOK
  <2> QED BY <2>1, <2>3
<1> QED
  BY <1>1, <1>2, <1>4, <1>5, <1>6, RegistryKept DEF Registry, WorkersAlive

LEMMA RegistryPromote ==
    ASSUME TypeOK, Registry, NEW p \in Procs, NEW z \in Zsets,
           PromoteStep(p, z) \/ PromoteFails(p, z)
    PROVE  Registry'
<1>1. UNCHANGED <<proc, record, wk, sweep>>
  BY DEF PromoteStep, PromoteRange, PromoteRead, PromoteMove, PromoteFails, promoUnchanged,
     procVars
<1>2. \A r \in Procs, i \in Ids : list'[r][i] = list[r][i]
  BY PromoteSpares
<1> QED
  BY <1>1, <1>2, RegistryKept DEF Registry, RecordsTruthful, WorkersAlive

LEMMA RegistryAdmin ==
    ASSUME TypeOK, Registry,
           AdminDelete \/ \E by \in Procs \cup {None}, id \in Ids : AdminRead(by, id)
    PROVE  Registry'
<1>1. UNCHANGED <<proc, record, wk, sweep>>
  BY DEF AdminDelete, AdminRead, deleteUnchanged, procVars, loopVars
<1>2. \A p \in Procs, i \in Ids : list'[p][i] = list[p][i] \/ list'[p][i] = 0
  BY ListsOf DEF AdminDelete, AdminRead, DeleteJob, TypeOK, StoreType, storeVars
<1> QED
  BY <1>1, <1>2, RegistryKept DEF Registry, RecordsTruthful, WorkersAlive

(* A sweep that reads the records after the scan selects only the gone.    *)
LEMMA RegistrySweep ==
    ASSUME TypeOK, Registry, NEW p \in Procs, SweepStep(p) \/ SweepFails(p)
    PROVE  Registry'
<1> DEFINE Good(s) == /\ s.pc \in {"idle", "scanned"} => \A q \in s.procs : proc[q] # "new"
                      /\ s.pc \notin {"idle", "scanned"} => \A q \in s.procs : Gone(q)
                      /\ s.target # None => Gone(s.target)
<1>1. UNCHANGED <<proc, wk>>
  BY DEF SweepStep, SweepScan, SweepRecords, SweepMove, SweepLength, SweepForget, SweepTarget,
     SweepRead, SweepFails, sweepUnchanged, procVars
<1>2. \A q \in Procs : sweep[q] \in Sweep /\ Good(sweep[q])
  BY DEF Registry, SweepsTheGone, TypeOK, LoopsTyped
<1>3. \A q \in Procs : q # p => sweep'[q] = sweep[q]
  BY DEF SweepStep, SweepScan, SweepRecords, SweepMove, SweepLength, SweepForget, SweepTarget,
     SweepRead, SweepFails, TypeOK, LoopsTyped
<1>4. \A ps \in SUBSET Procs : (\A q \in ps : Gone(q)) => Good(NextTarget(ps))
  BY DEF NextTarget, IdleSweep
<1> DEFINE s == sweep[p]  t == sweep'[p]
<1>5. Good(t)
  <2>0. s \in Sweep /\ Good(s) /\ sweep \in [Procs -> Sweep]
    BY <1>2 DEF TypeOK, LoopsTyped
  <2>1. CASE SweepScan(p)
    <3> DEFINE found == {q \in Procs : \E i \in Ids : list[q][i] > 0}
    <3>1. t.pc = "scanned" /\ t.target = s.target /\ t.procs = s.procs \cup found
      BY <2>0, <2>1 DEF SweepScan, Sweep
    <3>2. \A q \in found : proc[q] # "new"
      BY DEF Registry, RecordsTruthful
    <3>3. s.pc \in {"idle", "scanned"}
      BY <2>1 DEF SweepScan
    <3> HIDE DEF s, t, found
    <3> QED BY <2>0, <3>1, <3>2, <3>3
  <2>2. CASE SweepRecords(p)
    <3> DEFINE ps == {q \in Procs : record[q] = "stale" \/ (record[q] = "none" /\ q \in s.procs)}
    <3>1. t = NextTarget(ps)
      BY <2>0, <2>2 DEF SweepRecords
    <3>2. \A q \in s.procs : proc[q] # "new"
      BY <2>0, <2>2 DEF SweepRecords
    <3>3. \A q \in ps : Gone(q)
      BY <3>2 DEF Registry, RecordsTruthful, Gone, Alive, TypeOK, ProcsTyped
    <3>4. ps \in SUBSET Procs
      OBVIOUS
    <3> HIDE DEF t, ps
    <3> QED BY <1>4, <3>1, <3>3, <3>4
  <2>3. CASE SweepMove(p)
    <3>1. t.pc = "claims" /\ t.target = s.target /\ t.procs = s.procs /\ s.pc = "moving"
      BY <2>0, <2>3 DEF SweepMove, Sweep
    <3> HIDE DEF s, t
    <3> QED BY <2>0, <3>1
  <2>4. s.pc \in {"claims", "emptied", "targets"} => Good(NextTarget(s.procs))
    <3>1. s.procs \in SUBSET Procs
      BY <2>0 DEF Sweep
    <3> HIDE DEF s
    <3> QED BY <1>4, <2>0, <3>1
  <2>5. CASE SweepLength(p)
    <3>1. CASE t = NextTarget(s.procs)
      BY <2>4, <2>5, <3>1 DEF SweepLength
    <3>2. CASE t # NextTarget(s.procs)
      <4>1. t.pc = "emptied" /\ t.target = s.target /\ t.procs = s.procs /\ s.pc = "claims"
        BY <2>0, <2>5, <3>2 DEF SweepLength, Sweep
      <4> HIDE DEF s, t
      <4> QED BY <2>0, <4>1
    <3> QED BY <3>1, <3>2
  <2>6. CASE SweepForget(p)
    BY <2>0, <2>4, <2>6 DEF SweepForget
  <2>7. ASSUME NEW q \in Procs, SweepTarget(p, q) PROVE Good(t)
    <3>1. /\ t.pc = "claims" /\ t.target = q /\ t.procs = s.procs \ {q}
          /\ s.pc = "targets" /\ q \in s.procs
      BY <2>0, <2>7 DEF SweepTarget, Sweep
    <3> HIDE DEF s, t
    <3> QED BY <2>0, <3>1
  <2>8. ASSUME NEW i \in Ids, SweepRead(p, i) PROVE Good(t)
    <3>1. t.pc = "moving" /\ t.target = s.target /\ t.procs = s.procs /\ s.pc = "claims"
      BY <2>0, <2>8 DEF SweepRead, Sweep
    <3> HIDE DEF s, t
    <3> QED BY <2>0, <3>1
  <2>9. CASE SweepFails(p)
    <3>1. t = IdleSweep /\ IdleSweep.procs = {}
      BY <2>0, <2>9 DEF SweepFails, IdleSweep
    <3> QED BY <3>1, IdleTypes
  <2> QED BY <2>1, <2>2, <2>3, <2>5, <2>6, <2>7, <2>8, <2>9 DEF SweepStep
<1>6. SweepsTheGone'
  <2>1. \A q \in Procs : Good(sweep'[q])
    BY <1>2, <1>3, <1>5
  <2> QED
    BY <1>1, <2>1 DEF SweepsTheGone, Gone
<1>7. RecordsTruthful'
  <2>1. \A q \in Procs : record'[q] = record[q] \/ (record'[q] = "none" /\ ~Alive(q))
    <3>1. CASE SweepForget(p)
      <4>1. sweep[p].target \in Procs => Gone(sweep[p].target)
        BY <1>2
      <4> QED
        BY <3>1, <4>1 DEF SweepForget, TypeOK, ProcsTyped, LoopsTyped, Gone, Alive
    <3>2. CASE ~SweepForget(p)
      BY <3>2 DEF SweepStep, SweepScan, SweepRecords, SweepMove, SweepLength, SweepTarget,
         SweepRead, SweepFails, sweepUnchanged, procVars
    <3> QED BY <3>1, <3>2
  <2>2. \A q \in Procs, i \in Ids : list'[q][i] = list[q][i] \/ list[q][i] > 0
    <3>1. CASE SweepMove(p)
      <4> DEFINE id == sweep[p].id  seen == sweep[p].seen  r == sweep[p].target
      <4>1. id \in Ids /\ r \in Procs /\ seen \in Envelope \cup {None} /\ r \in Lists
        BY <3>1, ListsOf DEF SweepMove, TypeOK, LoopsTyped, Sweep
      <4>2. seen # None => seen.queue \in Queues /\ seen.queue \in Lists /\ seen.queue # r
        BY <4>1, ListsOf DEF Envelope
      <4>3. \/ UNCHANGED list
            \/ list[r][id] > 0 /\ list' = Removed(r, id)
            \/ list[r][id] > 0 /\ seen # None /\ list' = Moved(r, seen.queue, id)
        BY <3>1, <4>1, ListsOf DEF SweepMove, ResurrectClaim, storeVars
      <4>4. StoreType
        BY DEF TypeOK
      <4> HIDE DEF id, seen, r
      <4>5. CASE list[r][id] > 0 /\ list' = Removed(r, id)
        BY <4>1, <4>4, <4>5, ListsOf, RemovedCounts
      <4>6. CASE list[r][id] > 0 /\ seen # None /\ list' = Moved(r, seen.queue, id)
        BY <4>1, <4>2, <4>4, <4>6, ListsOf, MovedCounts
      <4> QED BY <4>3, <4>5, <4>6
    <3>2. CASE ~SweepMove(p)
      BY <3>2 DEF SweepStep, SweepScan, SweepRecords, SweepLength, SweepForget, SweepTarget,
         SweepRead, SweepFails, storeVars
    <3> QED BY <3>1, <3>2
  <2> QED
    BY <1>1, <2>1, <2>2 DEF Registry, RecordsTruthful, Alive
<1>8. WorkersAlive'
  BY <1>1 DEF Registry, WorkersAlive, Alive
<1> QED BY <1>6, <1>7, <1>8 DEF Registry

LEMMA RegistryNext ==
    ASSUME MaxStalls = 0, TypeOK, Registry, [Next]_vars
    PROVE  Registry'
<1>1. CASE UNCHANGED vars
  BY <1>1 DEF vars, Registry, RecordsTruthful, SweepsTheGone, WorkersAlive, Alive, Gone,
     storeVars, procVars, loopVars
<1>2. CASE Produce
  BY <1>2, RegistryProduce
<1>3. CASE ProcessStep
  BY <1>3, RegistryProcess
<1>4. ASSUME NEW w \in Workers, WorkerStep(w) \/ TransitionFails(w)
                   \/ \E q \in Queues, id \in Ids : Dispatch(w, q, id)
      PROVE  Registry'
  BY <1>4, RegistryWorker, RegistryDispatch
<1>5. ASSUME NEW p \in Procs, SweepStep(p) \/ SweepFails(p)
      PROVE  Registry'
  BY <1>5, RegistrySweep
<1>6. ASSUME NEW p \in Procs, NEW z \in Zsets, PromoteStep(p, z) \/ PromoteFails(p, z)
      PROVE  Registry'
  BY <1>6, RegistryPromote
<1>7. ASSUME NEW z \in Zsets, NEW id \in Ids, Tick(z, id)
      PROVE  Registry'
  <2>1. UNCHANGED <<proc, record, wk, sweep, list>>
    BY <1>7 DEF Tick, ComeDue, procVars, loopVars
  <2> QED
    BY <2>1, RegistryKept DEF Registry, RecordsTruthful, WorkersAlive
<1>8. CASE AdminDelete \/ \E by \in Procs \cup {None}, id \in Ids : AdminRead(by, id)
  BY <1>8, RegistryAdmin
<1> QED
  BY <1>1, <1>2, <1>3, <1>4, <1>5, <1>6, <1>7, <1>8 DEF Next

(* As long as no live process misses its heartbeats, no sweep ever works   *)
(* on the processing list of a process that is alive: dead_process_ids_in  *)
(* reads the process set after the scan, and registration writes the       *)
(* record before the first claim.                                          *)
THEOREM SweepsSpareTheLiving ==
    ASSUME MaxStalls = 0
    PROVE  Spec => []LiveNeverSwept
<1>1. Init => TypeOK /\ Registry
  BY InitType, RegistryInit
<1>2. TypeOK /\ Registry /\ [Next]_vars => TypeOK' /\ Registry'
  BY NextType, RegistryNext
<1>3. TypeOK /\ Registry => LiveNeverSwept
  BY DEF Registry, SweepsTheGone, LiveNeverSwept, Gone, Alive, TypeOK, LoopsTyped, Sweep
<1> QED
  BY <1>1, <1>2, <1>3, PTL DEF Spec

-----------------------------------------------------------------------------
(* Custody.  A step touches at most one job; for the others, and for the   *)
(* workers that hold them, nothing changes.                                *)

Untouched(id) ==
    /\ jobs'[id] = jobs[id]
    /\ \A k \in Lists : list'[k][id] = list[k][id]
    /\ \A z \in Zsets : zset'[z][id] = zset[z][id]
    /\ acked'[id] = acked[id]
    /\ enq'[id] = enq[id]

Placed(id) == InOnePlace(id) /\ Accounted(id)

LEMMA CustodyInit == Init => Custody
<1> SUFFICES ASSUME Init PROVE Custody
  OBVIOUS
<1>1. \A id \in Ids : /\ \A k \in Lists : list[k][id] = 0
                      /\ \A z \in Zsets : zset[z][id] = "none"
                      /\ jobs[id] = None /\ acked[id] = 0 /\ enq[id] = "new"
  BY DEF Init, StoreInit
<1>2. \A id \in Ids : InOnePlace(id) /\ Accounted(id)
  <2> TAKE id \in Ids
  <2>1. InOnePlace(id)
    BY <1>1 DEF InOnePlace, Zsets
  <2>2. ~Located(id)
    BY <1>1 DEF Located
  <2>3. Accounted(id)
    BY <1>1, <2>2 DEF Accounted
  <2> QED BY <2>1, <2>3
<1>3. \A w \in Workers : wk[w].pc = "idle"
  BY IdleTypes DEF Init
<1> QED
  BY <1>2, <1>3, RegistryInit DEF Custody, OwnsClaim, OneWorkerPerJob

LEMMA PlaceFrame ==
    ASSUME NEW id \in Ids, Placed(id), Untouched(id), resolved \subseteq resolved'
    PROVE  Placed(id)'
<1>1. InOnePlace(id)'
  BY DEF Placed, InOnePlace, Untouched, Zsets
<1>2. Accounted(id)'
  BY DEF Placed, Accounted, Untouched, Located
<1> QED BY <1>1, <1>2 DEF Placed

LEMMA ClaimFrame ==
    ASSUME NEW w \in Workers, OwnsClaim(w), wk'[w] = wk[w],
           wk[w].pc # "idle" => /\ list'[Owner(w)][wk[w].id] > 0
                                /\ jobs'[wk[w].id] = jobs[wk[w].id]
    PROVE  OwnsClaim(w)'
  BY DEF OwnsClaim, Owner, WithRetriesIncremented

(* What a worker that holds job wk[w].id knows about it.                   *)
LEMMA HeldJob ==
    ASSUME TypeOK, Custody, NEW w \in Workers, wk[w].pc # "idle"
    PROVE  /\ wk[w].id \in Ids /\ Owner(w) \in Procs /\ Owner(w) \in Lists
           /\ Alive(Owner(w))
           /\ list[Owner(w)][wk[w].id] = 1
           /\ \A k \in Lists : k # Owner(w) => list[k][wk[w].id] = 0
           /\ \A z \in Zsets : zset[z][wk[w].id] = "none"
           /\ jobs[wk[w].id] \in Envelope /\ jobs[wk[w].id] # None
           /\ acked[wk[w].id] > 0 /\ jobs[wk[w].id].gen = acked[wk[w].id]
<1> DEFINE id == wk[w].id  p == Owner(w)
<1>1. id \in Ids
  BY DEF TypeOK, WorkersTyped
<1>2. p \in Procs /\ p \in Lists
  BY ListsOf DEF Workers, Owner
<1>3. Alive(p)
  BY DEF Custody, Registry, WorkersAlive
<1>4. list[p][id] > 0
  BY DEF Custody, OwnsClaim
<1>5. InOnePlace(id) /\ Accounted(id)
  BY <1>1 DEF Custody
<1>6. jobs[id] \in Envelope \cup {None} /\ \A k \in Lists : list[k][id] \in Nat
  BY <1>1, ListsOf DEF TypeOK, StoreType
<1> HIDE DEF id, p
<1>7. list[p][id] = 1 /\ \A k \in Lists : k # p => list[k][id] = 0
  BY <1>2, <1>4, <1>5, <1>6 DEF InOnePlace
<1>8. \A z \in Zsets : zset[z][id] = "none"
  BY <1>2, <1>4, <1>5 DEF InOnePlace
<1>9. jobs[id] # None /\ acked[id] > 0
  BY <1>2, <1>4, <1>5 DEF Accounted, Located
<1>10. jobs[id].gen = acked[id]
  BY <1>5, <1>9 DEF Accounted
<1> QED
  BY <1>1, <1>2, <1>3, <1>6, <1>7, <1>8, <1>9, <1>10 DEF id, p

(* A step that leaves the workers alone and touches no job they hold.      *)
LEMMA CustodyFrame ==
    ASSUME TypeOK, Custody, Registry', UNCHANGED wk, resolved \subseteq resolved', NEW id,
           id \in Ids => Placed(id)',
           \A i \in Ids : i # id => Untouched(i),
           \A w \in Workers : wk[w].pc # "idle" => wk[w].id # id
    PROVE  Custody'
<1>1. \A i \in Ids : Placed(i)'
  BY PlaceFrame DEF Custody, Placed
<1>2. \A w \in Workers : OwnsClaim(w)'
  <2> SUFFICES ASSUME NEW w \in Workers PROVE OwnsClaim(w)'
    OBVIOUS
  <2>1. OwnsClaim(w)
    BY DEF Custody
  <2>2. wk[w].pc # "idle" => list'[Owner(w)][wk[w].id] > 0 /\ jobs'[wk[w].id] = jobs[wk[w].id]
    BY HeldJob DEF Untouched
  <2> QED BY <2>1, <2>2, ClaimFrame
<1>3. OneWorkerPerJob'
  BY DEF Custody, OneWorkerPerJob
<1> QED
  BY <1>1, <1>2, <1>3 DEF Custody, Placed

(* A step of worker w, which touches at most the job w holds.              *)
LEMMA CustodyWorkerFrame ==
    ASSUME TypeOK, Custody, Registry', NEW w \in Workers, wk[w].pc # "idle",
           NEW id \in Ids, id = wk[w].id, resolved \subseteq resolved',
           Placed(id)',
           \A i \in Ids : i # id => Untouched(i),
           \A v \in Workers : v # w => wk'[v] = wk[v],
           OwnsClaim(w)',
           wk'[w].pc # "idle" => wk'[w].id = id
    PROVE  Custody'
<1>1. \A i \in Ids : Placed(i)'
  BY PlaceFrame DEF Custody, Placed
<1>2. \A v \in Workers : v # w /\ wk[v].pc # "idle" => wk[v].id # id
  BY DEF Custody, OneWorkerPerJob
<1>3. \A v \in Workers : OwnsClaim(v)'
  <2> SUFFICES ASSUME NEW v \in Workers, v # w PROVE OwnsClaim(v)'
    OBVIOUS
  <2>1. OwnsClaim(v)
    BY DEF Custody
  <2>2. wk[v].pc # "idle" => list'[Owner(v)][wk[v].id] > 0 /\ jobs'[wk[v].id] = jobs[wk[v].id]
    BY <1>2, HeldJob DEF Untouched
  <2> QED BY <2>1, <2>2, ClaimFrame
<1>4. OneWorkerPerJob'
  BY <1>2 DEF Custody, OneWorkerPerJob
<1> QED
  BY <1>1, <1>3, <1>4 DEF Custody, Placed

-----------------------------------------------------------------------------
(* Where a job may be after a step: on one list, in one sorted set, or     *)
(* nowhere.                                                                *)

LEMMA OnOneList ==
    ASSUME NEW id \in Ids, NEW k \in Lists,
           \A l \in Lists : list'[l][id] = IF l = k THEN 1 ELSE 0,
           \A z \in Zsets : zset'[z][id] = "none"
    PROVE  InOnePlace(id)' /\ Located(id)'
<1>1. list'[k][id] > 0
  OBVIOUS
<1>2. Located(id)'
  BY <1>1 DEF Located
<1>3. InOnePlace(id)'
  BY DEF InOnePlace, Zsets
<1> QED BY <1>2, <1>3

LEMMA InOneZset ==
    ASSUME NEW id \in Ids, NEW z \in Zsets, zset'[z][id] # "none",
           \A l \in Lists : list'[l][id] = 0,
           \A y \in Zsets : y # z => zset'[y][id] = "none"
    PROVE  InOnePlace(id)' /\ Located(id)'
<1>1. Located(id)'
  BY DEF Located
<1>2. InOnePlace(id)'
  BY DEF InOnePlace, Zsets
<1> QED BY <1>1, <1>2

LEMMA Nowhere ==
    ASSUME NEW id \in Ids,
           \A l \in Lists : list'[l][id] = 0,
           \A z \in Zsets : zset'[z][id] = "none"
    PROVE  InOnePlace(id)' /\ ~Located(id)'
<1>1. ~Located(id)'
  BY DEF Located
<1>2. InOnePlace(id)'
  BY DEF InOnePlace, Zsets
<1> QED BY <1>1, <1>2

LEMMA NotLocated ==
    ASSUME TypeOK, NEW id \in Ids, ~Located(id)
    PROVE  /\ \A k \in Lists : list[k][id] = 0
           /\ \A z \in Zsets : zset[z][id] = "none"
  BY ListsOf DEF Located

LEMMA EnvelopeFacts ==
    /\ None \notin Envelope
    /\ \A q \in Queues, g \in Nat : /\ NewEnvelope(q, g) # None
                                    /\ NewEnvelope(q, g).gen = g
                                    /\ NewEnvelope(q, g).queue = q
    /\ \A e \in Envelope : /\ WithRetriesIncremented(e) \in Envelope
                            /\ WithRetriesIncremented(e).gen = e.gen
<1>1. None \notin Envelope
  BY DEF Envelope
<1>2. ASSUME NEW q \in Queues, NEW g \in Nat
      PROVE  /\ NewEnvelope(q, g) \in Envelope
             /\ NewEnvelope(q, g).gen = g
             /\ NewEnvelope(q, g).queue = q
  BY DEF NewEnvelope, Envelope
<1>3. ASSUME NEW e \in Envelope
      PROVE  /\ WithRetriesIncremented(e) \in Envelope
             /\ WithRetriesIncremented(e).gen = e.gen
  BY DEF WithRetriesIncremented, Envelope
<1> QED BY <1>1, <1>2, <1>3

-----------------------------------------------------------------------------
LEMMA CustodyProduce ==
    ASSUME TypeOK, Custody, Registry', Produce
    PROVE  Custody'
<1> PICK id \in Ids : \/ EnqueuePush(id) \/ EnqueueBroken(id)
                      \/ \E q \in Queues : EnqueueSave(id, q) \/ EnqueueUnique(id, q)
  BY DEF Produce
<1>1. UNCHANGED <<wk, resolved>>
  BY DEF EnqueueSave, EnqueuePush, EnqueueBroken, EnqueueUnique, producerUnchanged, histVars
<1>2. Accounted(id) /\ jobs[id] \in Envelope \cup {None} /\ acked[id] \in Nat
  BY DEF Custody, TypeOK, StoreType, HistoryTyped
<1>3. ~Located(id)
  BY <1>2 DEF Accounted, EnqueueSave, EnqueuePush, EnqueueBroken, EnqueueUnique
<1>4. /\ \A k \in Lists : list[k][id] = 0
      /\ \A z \in Zsets : zset[z][id] = "none"
  BY <1>3, NotLocated
<1>5. \A w \in Workers : wk[w].pc # "idle" => wk[w].id # id
  BY <1>4, HeldJob
<1>6. StoreType /\ acked \in [Ids -> Nat] /\ enq \in [Ids -> {"new", "saved", "done"}]
  BY DEF TypeOK, HistoryTyped, UsersTyped
<1>7. CASE EnqueuePush(id)
  <2>1. /\ enq[id] = "saved" /\ jobs[id] # None /\ UNCHANGED jobs
        /\ enq' = [enq EXCEPT ![id] = "done"] /\ acked' = [acked EXCEPT ![id] = 1]
    BY <1>2, <1>7 DEF EnqueuePush, ZAdd, LPush, Accounted
  <2>2. CASE id \in Delayed
    <3>1. UNCHANGED list /\ zset' = [zset EXCEPT !["schedule"][id] = "wait"]
      BY <1>7, <2>2 DEF EnqueuePush, ZAdd
    <3>2. /\ \A z \in Zsets, i \in Ids :
                zset'[z][i] = IF z = "schedule" /\ i = id THEN "wait" ELSE zset[z][i]
      BY <3>1 DEF TypeOK, StoreType, Zsets
    <3>3. InOnePlace(id)' /\ Located(id)'
      BY <1>4, <3>1, <3>2, InOneZset DEF Zsets
    <3>4. Placed(id)'
      BY <1>2, <1>6, <2>1, <3>3 DEF Accounted, Placed
    <3>5. \A i \in Ids : i # id => Untouched(i)
      BY <1>6, <2>1, <3>1, <3>2 DEF Untouched
    <3> QED
      BY <1>1, <1>5, <3>4, <3>5, CustodyFrame
  <2>3. CASE id \notin Delayed
    <3> DEFINE k == sending[id]
    <3>1. UNCHANGED zset /\ list' = Pushed(k, id) /\ k \in Lists
      BY <1>7, <2>1, <2>3 DEF EnqueuePush, LPush, Lists, TypeOK, UsersTyped
    <3> HIDE DEF k
    <3>2. \A l \in Lists, i \in Ids :
            list'[l][i] = IF l = k /\ i = id THEN list[l][i] + 1 ELSE list[l][i]
      BY <1>6, <3>1, PushedCounts
    <3>3. InOnePlace(id)' /\ Located(id)'
      <4> PICK m \in Lists : m = k
        BY <3>1
      <4> QED BY <1>4, <3>1, <3>2, OnOneList
    <3>4. Placed(id)'
      BY <1>2, <1>6, <2>1, <3>3 DEF Accounted, Placed
    <3>5. \A i \in Ids : i # id => Untouched(i)
      BY <1>6, <2>1, <3>1, <3>2 DEF Untouched
    <3> QED
      BY <1>1, <1>5, <3>4, <3>5, CustodyFrame
  <2> QED BY <2>2, <2>3
<1>8. CASE EnqueueBroken(id)
  <2>1. /\ UNCHANGED <<jobs, list, zset, acked>>
        /\ enq[id] = "saved" /\ enq' = [enq EXCEPT ![id] = "done"]
    BY <1>8 DEF EnqueueBroken, storeVars, histVars
  <2>2. InOnePlace(id)' /\ ~Located(id)'
    BY <1>4, <2>1, Nowhere
  <2>3. Placed(id)'
    BY <1>1, <1>2, <1>6, <2>1, <2>2 DEF Accounted, Placed
  <2>4. \A i \in Ids : i # id => Untouched(i)
    BY <1>6, <2>1 DEF Untouched
  <2> QED
    BY <1>1, <1>5, <2>3, <2>4, CustodyFrame
<1>9. ASSUME NEW q \in Queues, EnqueueSave(id, q) PROVE Custody'
  <2> DEFINE env == NewEnvelope(q, 1)
  <2>1. /\ UNCHANGED <<list, zset, acked>> /\ jobs' = [jobs EXCEPT ![id] = env]
        /\ enq[id] = "new" /\ id \notin Unique /\ enq' = [enq EXCEPT ![id] = "saved"]
    BY <1>9 DEF EnqueueSave, HSet, histVars
  <2>2. env # None /\ env.gen = 1
    BY EnvelopeFacts
  <2> HIDE DEF env
  <2>3. InOnePlace(id)' /\ ~Located(id)'
    BY <1>4, <2>1, Nowhere
  <2>4. jobs'[id] = env /\ \A i \in Ids : i # id => jobs'[i] = jobs[i]
    BY <1>6, <2>1 DEF StoreType
  <2>5. Placed(id)'
    BY <1>1, <1>2, <1>6, <2>1, <2>2, <2>3, <2>4 DEF Accounted, Placed
  <2>6. \A i \in Ids : i # id => Untouched(i)
    BY <1>6, <2>1, <2>4 DEF Untouched
  <2> QED
    BY <1>1, <1>5, <2>5, <2>6, CustodyFrame
<1>10. ASSUME NEW q \in Queues, EnqueueUnique(id, q) PROVE Custody'
  <2> DEFINE env == NewEnvelope(q, acked[id] + 1)
  <2>1. /\ UNCHANGED enq /\ jobs[id] = None /\ id \in Unique
        /\ acked' = [acked EXCEPT ![id] = @ + 1]
        /\ IF id \in Delayed THEN EnqueueSchedule(id, env) ELSE EnqueueQueue(id, env)
    BY <1>10 DEF EnqueueUnique
  <2>2. env # None /\ env.gen = acked[id] + 1 /\ env.queue = q /\ q \in Lists
    BY <1>2, ListsOf, EnvelopeFacts
  <2> HIDE DEF env
  <2>3. jobs' = [jobs EXCEPT ![id] = env]
    BY <2>1 DEF EnqueueSchedule, EnqueueQueue
  <2>4. jobs'[id] = env /\ \A i \in Ids : i # id => jobs'[i] = jobs[i]
    BY <1>6, <2>3 DEF StoreType
  <2>5. /\ InOnePlace(id)' /\ Located(id)'
        /\ \A k \in Lists, i \in Ids : i # id => list'[k][i] = list[k][i]
        /\ \A z \in Zsets, i \in Ids : i # id => zset'[z][i] = zset[z][i]
    <3>1. CASE id \in Delayed
      <4>1. UNCHANGED list /\ zset' = [zset EXCEPT !["schedule"][id] = "wait"]
        BY <2>1, <3>1 DEF EnqueueSchedule
      <4>2. \A z \in Zsets, i \in Ids :
              zset'[z][i] = IF z = "schedule" /\ i = id THEN "wait" ELSE zset[z][i]
        BY <4>1 DEF TypeOK, StoreType, Zsets
      <4> QED
        BY <1>4, <4>1, <4>2, InOneZset DEF Zsets
    <3>2. CASE id \notin Delayed
      <4>1. UNCHANGED zset /\ list' = Pushed(q, id)
        BY <2>1, <2>2, <3>2 DEF EnqueueQueue
      <4>2. \A l \in Lists, i \in Ids :
              list'[l][i] = IF l = q /\ i = id THEN list[l][i] + 1 ELSE list[l][i]
        BY <1>6, <2>2, <4>1, PushedCounts
      <4> QED
        BY <1>4, <2>2, <4>1, <4>2, OnOneList
    <3> QED BY <3>1, <3>2
  <2>6. acked'[id] = acked[id] + 1 /\ \A i \in Ids : i # id => acked'[i] = acked[i]
    BY <1>6, <2>1
  <2>7. Placed(id)'
    BY <1>1, <1>2, <2>1, <2>2, <2>4, <2>5, <2>6 DEF Accounted, Placed
  <2>8. \A i \in Ids : i # id => Untouched(i)
    BY <2>1, <2>4, <2>5, <2>6 DEF Untouched
  <2> QED
    BY <1>1, <1>5, <2>7, <2>8, CustodyFrame
<1> QED BY <1>7, <1>8, <1>9, <1>10

LEMMA CustodyProcess ==
    ASSUME TypeOK, Custody, Registry', ProcessStep
    PROVE  Custody'
<1>1. UNCHANGED <<jobs, list, zset, acked, resolved, enq>>
  BY DEF ProcessStep, Register, Ping, Expire, Stall, Shutdown, Deregister, ShutdownTimeout, Crash,
     storeVars, userVars, histVars
<1>2. \A w \in Workers : wk'[w] = wk[w] \/ wk'[w] = IdleWorker
  BY DEF ProcessStep, Register, Ping, Expire, Stall, Shutdown, Deregister, ShutdownTimeout, Crash,
     Forget
<1>3. \A id \in Ids : Placed(id)'
  BY <1>1, PlaceFrame DEF Custody, Placed, Untouched
<1>4. \A w \in Workers : OwnsClaim(w)'
  <2> SUFFICES ASSUME NEW w \in Workers PROVE OwnsClaim(w)'
    OBVIOUS
  <2>1. CASE wk'[w] = IdleWorker
    BY <2>1, IdleTypes DEF OwnsClaim
  <2>2. CASE wk'[w] = wk[w]
    BY <1>1, <2>2, HeldJob, ClaimFrame DEF Custody
  <2> QED BY <1>2, <2>1, <2>2
<1>5. OneWorkerPerJob'
  BY <1>2, IdleTypes DEF Custody, OneWorkerPerJob
<1> QED
  BY <1>3, <1>4, <1>5 DEF Custody, Placed

(* Steps of a worker that do not write to the store.                       *)
LEMMA CustodyWorkerLocal ==
    ASSUME TypeOK, Custody, Registry', NEW w \in Workers,
           \/ LoadCancelled(w) \/ Load(w) \/ BuildFails(w)
           \/ Succeed(w) \/ Fail(w) \/ RetryRead(w) \/ TransitionFails(w)
    PROVE  Custody'
<1>1. UNCHANGED <<jobs, list, zset, acked, resolved, enq>>
  BY DEF LoadCancelled, Load, BuildFails, Succeed, Fail, RetryRead, TransitionFails, storeVars,
     workerUnchanged, userVars
<1>2. wk[w].pc # "idle"
  BY DEF LoadCancelled, Load, BuildFails, Succeed, Fail, RetryRead, TransitionFails
<1>3. PICK id \in Ids : id = wk[w].id
  BY <1>2, HeldJob
<1>4. \A v \in Workers : v # w => wk'[v] = wk[v]
  BY DEF LoadCancelled, Load, BuildFails, Succeed, Fail, RetryRead, TransitionFails, Unanswered,
     Set, TypeOK, WorkersTyped
<1>5. /\ list[Owner(w)][id] > 0 /\ jobs[id] # None
      /\ OwnsClaim(w)
  BY <1>2, <1>3, HeldJob DEF Custody
<1>6. OwnsClaim(w)' /\ (wk'[w].pc # "idle" => wk'[w].id = id)
  <2>1. CASE LoadCancelled(w) \/ TransitionFails(w)
    <3>1. wk'[w] = IdleWorker
      BY <2>1 DEF LoadCancelled, TransitionFails, Unanswered, TypeOK, WorkersTyped
    <3> QED
      BY <3>1, IdleTypes DEF OwnsClaim
  <2>2. CASE Load(w)
    <3>1. wk'[w].pc = "loaded" /\ wk'[w].id = id /\ wk'[w].env = jobs[id]
      BY <1>3, <1>5, <2>2 DEF Load, Set, TypeOK, WorkersTyped
    <3> QED
      BY <1>1, <1>5, <3>1 DEF OwnsClaim, Owner
  <2>3. CASE BuildFails(w) \/ Succeed(w) \/ Fail(w)
    <3>1. /\ wk'[w].pc \in {"burying", "acking", "retrying"}
          /\ wk'[w].id = id /\ wk'[w].env = wk[w].env
          /\ wk[w].pc \in {"loaded", "running"}
      BY <1>3, <2>3 DEF BuildFails, Succeed, Fail, Set, TypeOK, WorkersTyped
    <3> QED
      BY <1>1, <1>3, <1>5, <3>1 DEF OwnsClaim, Owner
  <2>4. CASE RetryRead(w)
    <3>1. /\ wk'[w].pc = "rescheduling" /\ wk'[w].id = id
          /\ wk'[w].env = WithRetriesIncremented(jobs[id])
      BY <1>3, <1>5, <2>4 DEF RetryRead, Set, TypeOK, WorkersTyped
    <3> QED
      BY <1>1, <1>5, <3>1 DEF OwnsClaim, Owner, WithRetriesIncremented
  <2> QED BY <2>1, <2>2, <2>3, <2>4
<1>7. \A i \in Ids : Untouched(i)
  BY <1>1 DEF Untouched
<1>8. Placed(id)'
  BY <1>1, <1>7, PlaceFrame DEF Custody, Placed
<1> QED
  BY <1>1, <1>2, <1>3, <1>4, <1>6, <1>7, <1>8, CustodyWorkerFrame

(* A worker whose transition removed the claim: success, burial or retry.  *)
LEMMA CustodyRelease ==
    ASSUME TypeOK, Custody, Registry', NEW w \in Workers, wk[w].pc # "idle",
           wk' = [wk EXCEPT ![w] = IdleWorker],
           NEW id \in Ids, id = wk[w].id, NEW env \in Envelope,
           env.gen = jobs[id].gen,
           UNCHANGED <<acked, enq>>,
           \/ /\ FinishSuccess(Owner(w), id) \/ FinishDead(Owner(w), id, env)
              /\ resolved' = resolved \cup {<<id, env.gen>>}
           \/ RetryFailed(Owner(w), id, env) /\ UNCHANGED resolved
    PROVE  Custody'
<1> DEFINE p == Owner(w)
<1>1. /\ p \in Lists /\ list[p][id] = 1
      /\ \A k \in Lists : k # p => list[k][id] = 0
      /\ \A z \in Zsets : zset[z][id] = "none"
      /\ acked[id] > 0 /\ jobs[id].gen = acked[id]
  BY HeldJob
<1>2. StoreType /\ Accounted(id) /\ acked[id] \in Nat
  BY DEF TypeOK, Custody, HistoryTyped
<1>3. list' = Removed(p, id)
  BY DEF FinishSuccess, FinishDead, RetryFailed
<1>4. wk'[w] = IdleWorker /\ \A v \in Workers : v # w => wk'[v] = wk[v]
  BY DEF TypeOK, WorkersTyped
<1>5. OwnsClaim(w)'
  BY <1>4, IdleTypes DEF OwnsClaim
<1> HIDE DEF p
<1>6. /\ \A l \in Lists : list'[l][id] = 0
      /\ \A l \in Lists, i \in Ids : i # id => list'[l][i] = list[l][i]
  <2>1. \A l \in Lists, i \in Ids : Removed(p, id)[l][i] =
          IF l = p /\ i = id /\ list[l][i] > 0 THEN list[l][i] - 1 ELSE list[l][i]
    BY <1>1, <1>2, RemovedCounts
  <2> QED BY <1>1, <1>3, <2>1
<1>7. CASE /\ FinishSuccess(Owner(w), id) \/ FinishDead(Owner(w), id, env)
           /\ resolved' = resolved \cup {<<id, env.gen>>}
  <2>1. UNCHANGED zset /\ jobs' = [jobs EXCEPT ![id] = None]
    BY <1>7 DEF FinishSuccess, FinishDead
  <2>2. jobs'[id] = None /\ \A i \in Ids : i # id => jobs'[i] = jobs[i]
    BY <1>2, <2>1 DEF StoreType
  <2>3. InOnePlace(id)' /\ ~Located(id)'
    BY <1>1, <1>6, <2>1, Nowhere
  <2>4. \A g \in 1 .. acked[id] : <<id, g>> \in resolved'
    BY <1>1, <1>2, <1>7 DEF Accounted
  <2>5. Placed(id)'
    BY <1>1, <1>2, <2>2, <2>3, <2>4 DEF Placed, Accounted
  <2>6. \A i \in Ids : i # id => Untouched(i)
    BY <1>6, <2>1, <2>2 DEF Untouched
  <2> QED
    BY <1>4, <1>5, <1>7, <2>5, <2>6, IdleTypes, CustodyWorkerFrame
<1>8. CASE RetryFailed(Owner(w), id, env) /\ UNCHANGED resolved
  <2>1. jobs' = [jobs EXCEPT ![id] = env] /\ zset' = [zset EXCEPT !["retry"][id] = "wait"]
    BY <1>8 DEF RetryFailed
  <2>2. jobs'[id] = env /\ \A i \in Ids : i # id => jobs'[i] = jobs[i]
    BY <1>2, <2>1 DEF StoreType
  <2>3. \A z \in Zsets, i \in Ids :
          zset'[z][i] = IF z = "retry" /\ i = id THEN "wait" ELSE zset[z][i]
    BY <1>2, <2>1 DEF StoreType, Zsets
  <2>4. InOnePlace(id)' /\ Located(id)'
    BY <1>1, <1>6, <2>3, InOneZset DEF Zsets
  <2>5. jobs[id] # None /\ env # None
    BY HeldJob, EnvelopeFacts
  <2>6. Placed(id)'
    BY <1>1, <1>2, <1>8, <2>2, <2>4, <2>5 DEF Placed, Accounted
  <2>7. \A i \in Ids : i # id => Untouched(i)
    BY <1>6, <2>2, <2>3 DEF Untouched
  <2> QED
    BY <1>4, <1>5, <1>8, <2>6, <2>7, IdleTypes, CustodyWorkerFrame
<1> QED BY <1>7, <1>8

LEMMA CustodyStart ==
    ASSUME TypeOK, Custody, Registry', NEW w \in Workers, Start(w)
    PROVE  Custody'
<1>1. wk[w].pc = "loaded"
  BY DEF Start
<1>2. PICK id \in Ids : id = wk[w].id
  BY <1>1, HeldJob
<1> DEFINE env == [wk[w].env EXCEPT !.started = TRUE]
<1>3. /\ jobs' = [jobs EXCEPT ![id] = env]
      /\ UNCHANGED <<list, zset, acked, enq, resolved>>
      /\ wk' = [wk EXCEPT ![w] = [pc |-> "running", id |-> id, env |-> env]]
         \/ wk' = [wk EXCEPT ![w] = IdleWorker]
  <2>1. jobs' = [jobs EXCEPT ![id] = env] /\ UNCHANGED <<list, zset>>
    BY <1>2 DEF Start, HSet
  <2>2. UNCHANGED <<acked, enq, resolved>>
    BY DEF Start, workerUnchanged, userVars
  <2>3. Set(w, "running", id, env) \/ Unanswered(w)
    BY <1>2 DEF Start
  <2> HIDE DEF env
  <2> QED
    BY <2>1, <2>2, <2>3 DEF Set, Unanswered
<1>4. wk[w].env = jobs[id] /\ wk[w].env \in Envelope
  BY <1>1, <1>2, HeldJob DEF Custody, OwnsClaim
<1>5. env \in Envelope /\ env.gen = jobs[id].gen
  BY <1>4 DEF Envelope
<1> HIDE DEF env
<1>6. jobs'[id] = env /\ \A i \in Ids : i # id => jobs'[i] = jobs[i]
  BY <1>3 DEF TypeOK, StoreType
<1>7. \A i \in Ids : i # id => Untouched(i)
  BY <1>3, <1>6 DEF Untouched
<1>8. env # None /\ jobs[id] # None /\ acked[id] > 0 /\ list[Owner(w)][id] > 0
  BY <1>1, <1>2, <1>5, EnvelopeFacts, HeldJob
<1>9. Placed(id)'
  <2>1. InOnePlace(id)'
    BY <1>3 DEF Custody, InOnePlace
  <2>2. Located(id)' <=> Located(id)
    BY <1>3 DEF Located
  <2>3. Accounted(id) /\ acked[id] \in Nat
    BY DEF Custody, TypeOK, HistoryTyped
  <2>4. Accounted(id)'
    BY <1>3, <1>5, <1>6, <1>8, <2>2, <2>3 DEF Accounted
  <2> QED BY <2>1, <2>4 DEF Placed
<1>10. \A v \in Workers : v # w => wk'[v] = wk[v]
  BY <1>3 DEF TypeOK, WorkersTyped
<1>11. OwnsClaim(w)' /\ (wk'[w].pc # "idle" => wk'[w].id = id)
  <2>1. CASE wk' = [wk EXCEPT ![w] = IdleWorker]
    <3>1. wk'[w] = IdleWorker
      BY <2>1 DEF TypeOK, WorkersTyped
    <3> QED
      BY <3>1, IdleTypes DEF OwnsClaim
  <2>2. CASE wk' = [wk EXCEPT ![w] = [pc |-> "running", id |-> id, env |-> env]]
    <3>1. wk'[w].pc = "running" /\ wk'[w].id = id /\ wk'[w].env = env
      BY <2>2 DEF TypeOK, WorkersTyped
    <3> QED
      BY <1>3, <1>6, <1>8, <3>1 DEF OwnsClaim, Owner
  <2> QED BY <1>3, <2>1, <2>2
<1> QED
  BY <1>1, <1>2, <1>3, <1>7, <1>9, <1>10, <1>11, CustodyWorkerFrame

LEMMA CustodyWorker ==
    ASSUME TypeOK, Custody, Registry', NEW w \in Workers, WorkerStep(w) \/ TransitionFails(w)
    PROVE  Custody'
<1>1. ~DeleteRead(w) /\ ~DeleteMissing(w) /\ ~RetryRelease(w)
  BY DEF Custody, OwnsClaim, DeleteRead, DeleteMissing, RetryRelease
<1>2. CASE Start(w)
  BY <1>2, CustodyStart
<1>3. CASE Acknowledge(w) \/ Bury(w) \/ RetryCommit(w)
  <2>1. wk[w].pc \in {"acking", "burying", "rescheduling"}
    BY <1>3 DEF Acknowledge, Bury, RetryCommit
  <2>2. PICK id \in Ids, env \in Envelope : id = wk[w].id /\ env = wk[w].env
    BY <2>1 DEF TypeOK, WorkersTyped, Holding
  <2>3. wk' = [wk EXCEPT ![w] = IdleWorker]
    BY <1>3 DEF Acknowledge, Bury, RetryCommit, Finish, Unanswered
  <2>4. env.gen = jobs[id].gen
    BY <2>1, <2>2, HeldJob, EnvelopeFacts DEF Custody, OwnsClaim
  <2>5. UNCHANGED <<acked, enq>>
    BY <1>3 DEF Acknowledge, Bury, RetryCommit, workerUnchanged, userVars
  <2>6. \/ /\ FinishSuccess(Owner(w), id) \/ FinishDead(Owner(w), id, env)
           /\ resolved' = resolved \cup {<<id, env.gen>>}
        \/ RetryFailed(Owner(w), id, env) /\ UNCHANGED resolved
    BY <1>3, <2>2 DEF Acknowledge, Bury, RetryCommit
  <2> QED
    BY <2>1, <2>2, <2>3, <2>4, <2>5, <2>6, CustodyRelease
<1>4. CASE ~Start(w) /\ ~(Acknowledge(w) \/ Bury(w) \/ RetryCommit(w))
  BY <1>1, <1>4, CustodyWorkerLocal DEF WorkerStep
<1> QED BY <1>2, <1>3, <1>4

LEMMA CustodyDispatch ==
    ASSUME TypeOK, Custody, Registry', NEW w \in Workers, NEW q \in Queues, NEW id \in Ids,
           Dispatch(w, q, id)
    PROVE  Custody'
<1> DEFINE p == Owner(w)
<1>1. p \in Procs /\ p \in Lists /\ q \in Lists /\ p # q
  BY ListsOf DEF Workers, Owner
<1>2. list[q][id] > 0 /\ list' = Moved(q, p, id)
  BY DEF Dispatch, Claim
<1>3. UNCHANGED <<jobs, zset, acked, enq, resolved>>
  BY DEF Dispatch, Claim, workerUnchanged, userVars
<1>4. StoreType /\ InOnePlace(id) /\ Accounted(id) /\ \A k \in Lists : list[k][id] \in Nat
  BY ListsOf DEF TypeOK, Custody
<1> HIDE DEF p
<1>5. /\ list[q][id] = 1 /\ \A k \in Lists : k # q => list[k][id] = 0
      /\ \A z \in Zsets : zset[z][id] = "none"
  BY <1>1, <1>2, <1>4 DEF InOnePlace
<1>6. /\ \A l \in Lists : list'[l][id] = IF l = p THEN 1 ELSE 0
      /\ \A l \in Lists, i \in Ids : i # id => list'[l][i] = list[l][i]
  BY <1>1, <1>2, <1>4, <1>5, MovedCounts
<1>7. \A v \in Workers : wk[v].pc # "idle" => wk[v].id # id
  BY <1>1, <1>5, HeldJob DEF Workers, Owner
<1>8. \A i \in Ids : i # id => Untouched(i)
  BY <1>3, <1>6 DEF Untouched
<1>9. Placed(id)'
  <2>1. InOnePlace(id)' /\ Located(id)'
    <3> PICK k \in Lists : k = p
      BY <1>1
    <3> QED
      BY <1>3, <1>5, <1>6, OnOneList
  <2>2. Located(id)
    BY <1>1, <1>2 DEF Located
  <2> QED
    BY <1>3, <1>4, <2>1, <2>2 DEF Placed, Accounted
<1>10. CASE UNCHANGED wk \/ wk' = [wk EXCEPT ![w] = IdleWorker]
  <2>1. UNCHANGED wk \/ (wk'[w] = IdleWorker /\ \A v \in Workers : v # w => wk'[v] = wk[v])
    BY <1>10 DEF TypeOK, WorkersTyped
  <2>2. \A i \in Ids : Placed(i)'
    BY <1>3, <1>8, <1>9, PlaceFrame DEF Custody, Placed
  <2>3. \A v \in Workers : OwnsClaim(v)'
    <3> SUFFICES ASSUME NEW v \in Workers PROVE OwnsClaim(v)'
      OBVIOUS
    <3>1. CASE wk'[v] = IdleWorker
      BY <3>1, IdleTypes DEF OwnsClaim
    <3>2. CASE wk'[v] = wk[v]
      BY <1>7, <1>8, <3>2, HeldJob, ClaimFrame DEF Custody, Untouched
    <3> QED BY <2>1, <3>1, <3>2
  <2>4. OneWorkerPerJob'
    BY <2>1, IdleTypes DEF Custody, OneWorkerPerJob
  <2> QED
    BY <2>2, <2>3, <2>4 DEF Custody, Placed
<1>11. CASE Set(w, "claimed", id, None)
  <2>1. /\ wk'[w].pc = "claimed" /\ wk'[w].id = id
        /\ \A v \in Workers : v # w => wk'[v] = wk[v]
    BY <1>11 DEF Set, TypeOK, WorkersTyped
  <2>2. \A i \in Ids : Placed(i)'
    BY <1>3, <1>8, <1>9, PlaceFrame DEF Custody, Placed
  <2>3. \A v \in Workers : OwnsClaim(v)'
    <3> SUFFICES ASSUME NEW v \in Workers PROVE OwnsClaim(v)'
      OBVIOUS
    <3>1. CASE v = w
      BY <1>1, <1>6, <2>1, <3>1 DEF OwnsClaim, p, Owner
    <3>2. CASE v # w
      BY <1>7, <1>8, <2>1, <3>2, HeldJob, ClaimFrame DEF Custody, Untouched
    <3> QED BY <3>1, <3>2
  <2>4. OneWorkerPerJob'
    BY <1>7, <2>1 DEF Custody, OneWorkerPerJob
  <2> QED
    BY <2>2, <2>3, <2>4 DEF Custody, Placed
<1> QED
  BY <1>10, <1>11 DEF Dispatch, Unanswered

LEMMA CustodyPromote ==
    ASSUME TypeOK, Custody, Registry', NEW p \in Procs, NEW z \in Zsets,
           PromoteStep(p, z) \/ PromoteFails(p, z)
    PROVE  Custody'
<1>1. UNCHANGED <<wk, acked, enq, resolved>>
  BY DEF PromoteStep, PromoteRange, PromoteRead, PromoteMove, PromoteFails, promoUnchanged,
     userVars, histVars
<1>2. CASE UNCHANGED storeVars
  <2>1. \A i \in Ids : Untouched(i)
    BY <1>1, <1>2 DEF Untouched, storeVars
  <2>2. \A w \in Workers : wk[w].pc # "idle" => wk[w].id # None
    BY HeldJob
  <2> QED
    BY <1>1, <2>1, <2>2, CustodyFrame
<1>3. CASE PromoteMove(p, z) /\ ~UNCHANGED storeVars
  <2>1. PICK id \in Ids : id = promo[<<p, z>>].id
    BY <1>3 DEF PromoteMove, TypeOK, LoopsTyped, Promo
  <2>2. /\ zset[z][id] = "due" /\ zset' = [zset EXCEPT ![z][id] = "none"] /\ UNCHANGED jobs
        /\ list' = IF jobs[id] = None THEN list ELSE Pushed(jobs[id].queue, id)
    BY <1>3, <2>1 DEF PromoteMove, PromoteScheduled
  <2>3. StoreType /\ InOnePlace(id) /\ Accounted(id) /\ \A k \in Lists : list[k][id] \in Nat
    BY ListsOf DEF TypeOK, Custody
  <2>4. Located(id) /\ jobs[id] # None
    BY <2>2, <2>3 DEF Located, Accounted
  <2>5. \A k \in Lists : list[k][id] = 0
    BY <2>2, <2>3 DEF InOnePlace
  <2>6. PICK k \in Lists : k = jobs[id].queue
    BY <2>3, <2>4 DEF StoreType, Envelope, Lists
  <2>7. /\ \A l \in Lists : list'[l][id] = IF l = k THEN 1 ELSE 0
        /\ \A l \in Lists, i \in Ids : i # id => list'[l][i] = list[l][i]
    <3>1. \A l \in Lists, i \in Ids : Pushed(k, id)[l][i] =
            IF l = k /\ i = id THEN list[l][i] + 1 ELSE list[l][i]
      BY <2>3, PushedCounts
    <3> QED BY <2>2, <2>4, <2>5, <2>6, <3>1
  <2>8. \A y \in Zsets, i \in Ids : zset'[y][i] = IF y = z /\ i = id THEN "none" ELSE zset[y][i]
    BY <2>2, <2>3 DEF StoreType
  <2>9. \A y \in Zsets : zset'[y][id] = "none"
    BY <2>2, <2>3, <2>8 DEF InOnePlace, Zsets
  <2>10. InOnePlace(id)' /\ Located(id)'
    BY <2>7, <2>9, OnOneList
  <2>11. Placed(id)'
    BY <1>1, <2>2, <2>3, <2>4, <2>10 DEF Placed, Accounted
  <2>12. \A i \in Ids : i # id => Untouched(i)
    BY <1>1, <2>2, <2>7, <2>8 DEF Untouched
  <2>13. \A w \in Workers : wk[w].pc # "idle" => wk[w].id # id
    BY <2>2, HeldJob
  <2> QED
    BY <1>1, <2>11, <2>12, <2>13, CustodyFrame
<1> QED
  BY <1>2, <1>3 DEF PromoteStep, PromoteRange, PromoteRead, PromoteFails

LEMMA CustodySweep ==
    ASSUME TypeOK, Custody, Registry', NEW p \in Procs, SweepStep(p) \/ SweepFails(p)
    PROVE  Custody'
<1>1. UNCHANGED <<wk, acked, enq>>
  BY DEF SweepStep, SweepScan, SweepRecords, SweepMove, SweepLength, SweepForget, SweepTarget,
     SweepRead, SweepFails, sweepUnchanged, userVars, histVars
<1>2. resolved \subseteq resolved'
  BY DEF SweepStep, SweepScan, SweepRecords, SweepMove, SweepLength, SweepForget, SweepTarget,
     SweepRead, SweepFails, histVars
<1>3. CASE UNCHANGED storeVars
  <2>1. \A i \in Ids : Untouched(i)
    BY <1>1, <1>3 DEF Untouched, storeVars
  <2>2. \A w \in Workers : wk[w].pc # "idle" => wk[w].id # None
    BY HeldJob
  <2> QED
    BY <1>1, <1>2, <2>1, <2>2, CustodyFrame
<1>4. CASE SweepMove(p) /\ ~UNCHANGED storeVars
  <2>1. PICK id \in Ids, r \in Procs : id = sweep[p].id /\ r = sweep[p].target
    BY <1>4 DEF SweepMove, TypeOK, LoopsTyped
  <2>2. /\ list[r][id] # 0 /\ jobs[id] = sweep[p].seen /\ UNCHANGED zset
        /\ list' = IF jobs[id] # None /\ id \in Lasting
                   THEN Moved(r, jobs[id].queue, id) ELSE Removed(r, id)
        /\ jobs' = IF jobs[id] = None \/ id \in Lasting THEN jobs
                   ELSE [jobs EXCEPT ![id] = None]
    BY <1>4, <2>1 DEF SweepMove, ResurrectClaim
  <2>3. StoreType /\ InOnePlace(id) /\ Accounted(id) /\ \A k \in Lists : list[k][id] \in Nat
    BY ListsOf DEF TypeOK, Custody
  <2>4. r \in Lists /\ r \notin Queues /\ list[r][id] > 0
    BY <2>2, <2>3, ListsOf
  <2>5. Located(id) /\ jobs[id] # None /\ acked[id] > 0 /\ jobs[id].gen = acked[id]
    BY <2>3, <2>4 DEF Located, Accounted
  <2>6. /\ list[r][id] = 1 /\ \A k \in Lists : k # r => list[k][id] = 0
        /\ \A z \in Zsets : zset[z][id] = "none"
    BY <2>3, <2>4 DEF InOnePlace
  <2>7. \A w \in Workers : wk[w].pc # "idle" => wk[w].id # id
    <3>1. Gone(r)
      BY <2>1 DEF Custody, Registry, SweepsTheGone
    <3>2. \A w \in Workers : wk[w].pc # "idle" => Owner(w) # r /\ Owner(w) \in Lists
      BY <3>1, HeldJob DEF Gone, Alive
    <3> QED BY <2>6, <3>2, HeldJob
  <2>8. CASE id \in Lasting
    <3>1. UNCHANGED jobs /\ UNCHANGED resolved
      BY <1>4, <2>1, <2>2, <2>8 DEF SweepMove
    <3>2. PICK k \in Lists : k = jobs[id].queue /\ k # r
      BY <2>3, <2>4, <2>5 DEF StoreType, Envelope, Lists
    <3>3. \A l \in Lists, i \in Ids : Moved(r, k, id)[l][i] =
            IF i = id /\ l = r THEN list[l][i] - 1
            ELSE IF i = id /\ l = k THEN list[l][i] + 1 ELSE list[l][i]
      BY <2>3, <2>4, <3>2, MovedCounts
    <3>4. list' = Moved(r, k, id)
      BY <2>2, <2>5, <2>8, <3>2
    <3>5. /\ \A l \in Lists : list'[l][id] = IF l = k THEN 1 ELSE 0
          /\ \A l \in Lists, i \in Ids : i # id => list'[l][i] = list[l][i]
      BY <2>6, <3>2, <3>3, <3>4
    <3>6. InOnePlace(id)' /\ Located(id)'
      BY <2>2, <2>6, <3>5, OnOneList
    <3>7. Placed(id)'
      BY <1>1, <2>3, <2>5, <3>1, <3>6 DEF Placed, Accounted
    <3>8. \A i \in Ids : i # id => Untouched(i)
      BY <1>1, <2>2, <3>1, <3>5 DEF Untouched
    <3> QED
      BY <1>1, <1>2, <2>7, <3>7, <3>8, CustodyFrame
  <2>9. CASE id \notin Lasting
    <3>1. jobs' = [jobs EXCEPT ![id] = None] /\ list' = Removed(r, id)
      BY <2>2, <2>5, <2>9
    <3>2. jobs'[id] = None /\ \A i \in Ids : i # id => jobs'[i] = jobs[i]
      BY <2>3, <3>1 DEF StoreType
    <3>3. resolved' = resolved \cup {<<id, jobs[id].gen>>}
      BY <1>4, <2>1, <2>2, <2>4, <2>5, <2>9 DEF SweepMove
    <3>4. \A l \in Lists, i \in Ids : Removed(r, id)[l][i] =
            IF l = r /\ i = id /\ list[l][i] > 0 THEN list[l][i] - 1 ELSE list[l][i]
      BY <2>3, <2>4, RemovedCounts
    <3>5. /\ \A l \in Lists : list'[l][id] = 0
          /\ \A l \in Lists, i \in Ids : i # id => list'[l][i] = list[l][i]
      BY <2>6, <3>1, <3>4
    <3>6. InOnePlace(id)' /\ ~Located(id)'
      BY <2>2, <2>6, <3>5, Nowhere
    <3>7. acked[id] \in Nat
      BY DEF TypeOK, HistoryTyped
    <3>8. \A g \in 1 .. acked[id] : <<id, g>> \in resolved'
      BY <2>3, <2>5, <3>3, <3>7 DEF Accounted
    <3>9. Placed(id)'
      BY <1>1, <2>3, <2>5, <3>2, <3>6, <3>7, <3>8 DEF Placed, Accounted
    <3>10. \A i \in Ids : i # id => Untouched(i)
      BY <1>1, <2>2, <3>2, <3>5 DEF Untouched
    <3> QED
      BY <1>1, <1>2, <2>7, <3>9, <3>10, CustodyFrame
  <2> QED BY <2>8, <2>9
<1> QED
  BY <1>3, <1>4 DEF SweepStep, SweepScan, SweepRecords, SweepLength, SweepForget, SweepTarget,
     SweepRead, SweepFails

LEMMA CustodyTick ==
    ASSUME TypeOK, Custody, Registry', NEW z \in Zsets, NEW id \in Ids, Tick(z, id)
    PROVE  Custody'
<1>1. /\ UNCHANGED <<wk, acked, enq, resolved, jobs, list>>
      /\ zset[z][id] = "wait" /\ zset' = [zset EXCEPT ![z][id] = "due"]
  BY DEF Tick, ComeDue, userVars, histVars
<1>2. \A y \in Zsets, i \in Ids : zset'[y][i] = IF y = z /\ i = id THEN "due" ELSE zset[y][i]
  BY <1>1 DEF TypeOK, StoreType
<1>3. InOnePlace(id) /\ Accounted(id)
  BY DEF Custody
<1>4. InOnePlace(id)'
  BY <1>1, <1>2, <1>3 DEF InOnePlace, Zsets
<1>5. Located(id) /\ Located(id)'
  BY <1>1, <1>2 DEF Located
<1>6. Placed(id)'
  BY <1>1, <1>3, <1>4, <1>5 DEF Placed, Accounted
<1>7. \A i \in Ids : i # id => Untouched(i)
  BY <1>1, <1>2 DEF Untouched
<1>8. \A w \in Workers : wk[w].pc # "idle" => wk[w].id # id
  BY <1>1, HeldJob
<1> QED
  BY <1>1, <1>6, <1>7, <1>8, CustodyFrame

LEMMA CustodyNext ==
    ASSUME MaxStalls = 0, MaxDeletes = 0, TypeOK, Custody, del.pc = "idle", [Next]_vars
    PROVE  Custody' /\ del'.pc = "idle"
<1>1. Registry'
  BY RegistryNext DEF Custody
<1>2. ~AdminDelete /\ \A by \in Procs \cup {None}, id \in Ids : ~AdminRead(by, id)
  BY DEF AdminDelete, AdminRead, TypeOK, UsersTyped
<1>3. Custody'
  <2>1. CASE UNCHANGED vars
    <3>1. UNCHANGED <<wk, jobs, list, zset, acked, enq, resolved>>
      BY <2>1 DEF vars, storeVars, userVars, histVars
    <3>2. \A w \in Workers : wk[w].pc # "idle" => wk[w].id # None
      BY HeldJob
    <3> QED
      BY <1>1, <3>1, <3>2, CustodyFrame DEF Untouched
  <2>2. CASE Produce
    BY <1>1, <2>2, CustodyProduce
  <2>3. CASE ProcessStep
    BY <1>1, <2>3, CustodyProcess
  <2>4. ASSUME NEW w \in Workers, WorkerStep(w) \/ TransitionFails(w)
                     \/ \E q \in Queues, id \in Ids : Dispatch(w, q, id)
        PROVE  Custody'
    BY <1>1, <2>4, CustodyWorker, CustodyDispatch
  <2>5. ASSUME NEW p \in Procs, SweepStep(p) \/ SweepFails(p)
        PROVE  Custody'
    BY <1>1, <2>5, CustodySweep
  <2>6. ASSUME NEW p \in Procs, NEW z \in Zsets, PromoteStep(p, z) \/ PromoteFails(p, z)
        PROVE  Custody'
    BY <1>1, <2>6, CustodyPromote
  <2>7. ASSUME NEW z \in Zsets, NEW id \in Ids, Tick(z, id)
        PROVE  Custody'
    BY <1>1, <2>7, CustodyTick
  <2> QED
    BY <1>2, <2>1, <2>2, <2>3, <2>4, <2>5, <2>6, <2>7 DEF Next
<1>4. UNCHANGED del
  <2>1. UNCHANGED vars => UNCHANGED del
    BY DEF vars, userVars
  <2>2. Produce => UNCHANGED del
    BY DEF Produce, EnqueueSave, EnqueuePush, EnqueueBroken, EnqueueUnique, producerUnchanged
  <2>3. ProcessStep => UNCHANGED del
    BY DEF ProcessStep, Register, Ping, Expire, Stall, Shutdown, Deregister, ShutdownTimeout,
       Crash, userVars
  <2>4. ASSUME NEW w \in Workers, WorkerStep(w) \/ TransitionFails(w)
                     \/ \E q \in Queues, id \in Ids : Dispatch(w, q, id)
        PROVE  UNCHANGED del
    <3>1. workerUnchanged
      BY <2>4 DEF WorkerStep, LoadCancelled, Load, DeleteRead, DeleteMissing, BuildFails, Start,
         Succeed, Fail, Acknowledge, Bury, RetryRead, RetryCommit, RetryRelease, TransitionFails,
         Dispatch
    <3> QED BY <3>1 DEF workerUnchanged, userVars
  <2>5. ASSUME NEW p \in Procs, SweepStep(p) \/ SweepFails(p)
        PROVE  UNCHANGED del
    BY <2>5 DEF SweepStep, SweepScan, SweepRecords, SweepMove, SweepLength, SweepForget,
       SweepTarget, SweepRead, SweepFails, sweepUnchanged, userVars
  <2>6. ASSUME NEW p \in Procs, NEW z \in Zsets, PromoteStep(p, z) \/ PromoteFails(p, z)
        PROVE  UNCHANGED del
    BY <2>6 DEF PromoteStep, PromoteRange, PromoteRead, PromoteMove, PromoteFails,
       promoUnchanged, userVars
  <2>7. ASSUME NEW z \in Zsets, NEW id \in Ids, Tick(z, id)
        PROVE  UNCHANGED del
    BY <2>7 DEF Tick, userVars
  <2> QED
    BY <1>2, <2>1, <2>2, <2>3, <2>4, <2>5, <2>6, <2>7 DEF Next
<1> QED BY <1>3, <1>4

(* While no live process misses its heartbeats and nobody deletes jobs by  *)
(* hand, every job is in one place, in the custody of at most one worker.  *)
THEOREM CustodyKept ==
    ASSUME MaxStalls = 0, MaxDeletes = 0
    PROVE  Spec => []Custody
<1>1. Init => TypeOK /\ Custody /\ del.pc = "idle"
  BY InitType, CustodyInit, IdleTypes DEF Init
<1>2. TypeOK /\ Custody /\ del.pc = "idle" /\ [Next]_vars
        => TypeOK' /\ Custody' /\ (del.pc = "idle")'
  BY NextType, CustodyNext
<1> QED
  BY <1>1, <1>2, PTL DEF Spec

(* No accepted job is lost, whatever crashes, shutdowns, failed commands   *)
(* and lost replies happen, on any number of processes.                    *)
THEOREM AcceptedJobsKept ==
    ASSUME MaxStalls = 0, MaxDeletes = 0
    PROVE  Spec => []NoJobLost
<1>1. TypeOK /\ Custody => NoJobLost
  <2> SUFFICES ASSUME TypeOK, Custody, NEW id \in Ids, NEW g \in 1 .. acked[id],
                      <<id, g>> \notin resolved
               PROVE  jobs[id] # None /\ jobs[id].gen = g /\ Located(id)
    BY DEF NoJobLost
  <2>1. Accounted(id) /\ acked[id] \in Nat
    BY DEF Custody, TypeOK, HistoryTyped
  <2>2. jobs[id] # None /\ g = acked[id]
    BY <2>1 DEF Accounted
  <2> QED
    BY <2>1, <2>2 DEF Accounted
<1> QED
  BY <1>1, TypeCorrect, CustodyKept, PTL

(* No job executes in two workers at once under the same assumptions.      *)
THEOREM NoJobRunsTwice ==
    ASSUME MaxStalls = 0, MaxDeletes = 0
    PROVE  Spec => []ExclusiveExecution
<1>1. Custody => ExclusiveExecution
  BY DEF Custody, OneWorkerPerJob, ExclusiveExecution
<1> QED
  BY <1>1, CustodyKept, PTL

-----------------------------------------------------------------------------
(* No claim is stranded.  The invariant adds that a process that has not   *)
(* started has no claims, which is what it has when it starts running.     *)

HeldBy(p, id) == {w \in SlotsOf(p) : wk[w].pc # "idle" /\ wk[w].id = id}

NewUnclaimed == \A p \in Procs, id \in Ids : proc[p] = "new" => list[p][id] = 0

ClaimsHeld == NewUnclaimed /\ NoStrandedClaim

(* A set of workers of one process is finite.                              *)
LEMMA SlotsFinite ==
    ASSUME NEW p \in Procs, NEW S \in SUBSET SlotsOf(p)
    PROVE  IsFiniteSet(S) /\ Cardinality(S) \in Nat
<1>1. IsFiniteSet(SlotsOf(p))
  <2>1. IsFiniteSet({p})
    BY FS_Singleton
  <2>2. IsFiniteSet(Slots)
    BY LifecycleAssumption DEF LifecycleAssumption
  <2> QED BY <2>1, <2>2, FS_Product DEF SlotsOf
<1> QED
  BY <1>1, FS_Subset, FS_CardinalityType

(* A step that adds no claim, starts only processes that had none, and     *)
(* leaves to the running processes the jobs their workers hold.            *)
LEMMA ClaimsFrame ==
    ASSUME TypeOK, TypeOK', ClaimsHeld,
           \A p \in Procs, i \in Ids : list'[p][i] <= list[p][i],
           \A p \in Procs : proc'[p] = "new" => proc[p] = "new",
           \A p \in Procs : proc'[p] = "running" =>
                \/ proc[p] = "new"
                \/ /\ proc[p] = "running"
                   /\ \A w \in SlotsOf(p) : /\ wk'[w].pc = "idle" <=> wk[w].pc = "idle"
                                            /\ wk'[w].id = wk[w].id
    PROVE  ClaimsHeld'
<1>1. \A p \in Procs, i \in Ids : list[p][i] \in Nat /\ list'[p][i] \in Nat
  BY DEF TypeOK, StoreType, Lists
<1>2. NewUnclaimed'
  BY <1>1 DEF ClaimsHeld, NewUnclaimed
<1>3. ASSUME NEW p \in Procs, NEW i \in Ids, proc'[p] = "running"
      PROVE  list'[p][i] <= Cardinality(HeldBy(p, i)')
  <2>1. CASE proc[p] = "new"
    <3>1. list'[p][i] = 0
      BY <1>1, <2>1 DEF ClaimsHeld, NewUnclaimed
    <3>2. Cardinality(HeldBy(p, i)') \in Nat
      BY SlotsFinite DEF HeldBy, SlotsOf
    <3> QED BY <3>1, <3>2
  <2>2. CASE proc[p] = "running"
    <3>1. HeldBy(p, i)' = HeldBy(p, i)
      BY <1>3, <2>2 DEF HeldBy, SlotsOf
    <3>2. list[p][i] <= Cardinality(HeldBy(p, i))
      BY <2>2 DEF ClaimsHeld, NoStrandedClaim, HeldBy
    <3>3. Cardinality(HeldBy(p, i)) \in Nat
      BY SlotsFinite DEF HeldBy
    <3> QED BY <1>1, <3>1, <3>2, <3>3
  <2> QED BY <1>3, <2>1, <2>2
<1>4. NoStrandedClaim'
  BY <1>3 DEF NoStrandedClaim, HeldBy
<1> QED BY <1>2, <1>4 DEF ClaimsHeld

(* A claim that ends: the worker goes idle, and the list of its process    *)
(* loses one entry of the job, if there is one; or the reply is lost and   *)
(* the process drains.                                                     *)
LEMMA ClaimsRelease ==
    ASSUME TypeOK, TypeOK', ClaimsHeld, NEW w \in Workers, wk[w].pc # "idle", Finish(w),
           \A p \in Procs, i \in Ids : list'[p][i] <= list[p][i],
           list[Owner(w)][wk[w].id] > 0 => list'[Owner(w)][wk[w].id] < list[Owner(w)][wk[w].id]
    PROVE  ClaimsHeld'
<1> DEFINE o == Owner(w)  j == wk[w].id
<1>1. o \in Procs /\ j \in Ids /\ w \in SlotsOf(o)
  BY DEF TypeOK, WorkersTyped, Workers, Owner, SlotsOf
<1>2. \A p \in Procs, i \in Ids : list[p][i] \in Nat /\ list'[p][i] \in Nat
  BY DEF TypeOK, StoreType, Lists
<1>3. wk' = [wk EXCEPT ![w] = IdleWorker]
  BY DEF Finish, Unanswered
<1>4. \A p \in Procs : /\ proc'[p] = "new" => proc[p] = "new"
                       /\ proc'[p] = "running" => proc[p] = "running"
  BY DEF Finish, Replied, Unanswered, FailRuntime, TypeOK, ProcsTyped
<1>5. NewUnclaimed'
  BY <1>2, <1>4 DEF ClaimsHeld, NewUnclaimed
<1>6. ASSUME NEW p \in Procs, NEW i \in Ids, proc'[p] = "running"
      PROVE  list'[p][i] <= Cardinality(HeldBy(p, i)')
  <2>1. list[p][i] <= Cardinality(HeldBy(p, i))
    BY <1>4, <1>6 DEF ClaimsHeld, NoStrandedClaim, HeldBy
  <2>2. IsFiniteSet(HeldBy(p, i)) /\ Cardinality(HeldBy(p, i)) \in Nat
    BY SlotsFinite DEF HeldBy
  <2>3. HeldBy(p, i)' = HeldBy(p, i) \ {w}
    <3>1. \A v \in SlotsOf(p) : v \in Workers
      BY DEF SlotsOf, Workers
    <3>2. \A v \in Workers : IF v = w THEN wk'[v].pc = "idle" ELSE wk'[v] = wk[v]
      BY <1>3, IdleTypes DEF TypeOK, WorkersTyped
    <3> QED BY <3>1, <3>2 DEF HeldBy, SlotsOf
  <2>4. CASE w \in HeldBy(p, i)
    <3>1. p = o /\ i = j
      BY <2>4 DEF HeldBy, SlotsOf, Owner
    <3>2. Cardinality(HeldBy(p, i)') = Cardinality(HeldBy(p, i)) - 1
      BY <2>2, <2>3, <2>4, FS_RemoveElement
    <3>3. Cardinality(HeldBy(p, i)') \in Nat
      BY SlotsFinite DEF HeldBy, SlotsOf
    <3> QED BY <1>2, <2>1, <2>2, <3>1, <3>2, <3>3
  <2>5. CASE w \notin HeldBy(p, i)
    <3>1. HeldBy(p, i)' = HeldBy(p, i)
      BY <2>3, <2>5
    <3> QED BY <1>2, <2>1, <2>2, <3>1
  <2> QED BY <2>4, <2>5
<1>7. NoStrandedClaim'
  BY <1>6 DEF NoStrandedClaim, HeldBy
<1> QED BY <1>5, <1>7 DEF ClaimsHeld

(* The steps of a worker that has a job.                                   *)
LEMMA ClaimsWorker ==
    ASSUME TypeOK, TypeOK', ClaimsHeld, NEW w \in Workers, WorkerStep(w) \/ TransitionFails(w)
    PROVE  ClaimsHeld'
<1> DEFINE o == Owner(w)  j == wk[w].id
<1>1. wk[w].pc # "idle"
  BY DEF WorkerStep, LoadCancelled, Load, DeleteRead, DeleteMissing, BuildFails, Start, Succeed,
     Fail, Acknowledge, Bury, RetryRead, RetryCommit, RetryRelease, TransitionFails
<1>2. o \in Procs /\ o \in Lists /\ j \in Ids /\ w \in SlotsOf(o)
  BY <1>1 DEF TypeOK, WorkersTyped, Workers, Owner, SlotsOf, Lists
<1>3. \A p \in Procs, i \in Ids : list[p][i] \in Nat /\ list'[p][i] \in Nat
  BY DEF TypeOK, StoreType, Lists
<1>4. CASE Acknowledge(w) \/ Bury(w) \/ RetryCommit(w) \/ RetryRelease(w)
  <2>1. list' = Removed(o, j) /\ Finish(w)
    BY <1>4 DEF Acknowledge, Bury, RetryCommit, RetryRelease, FinishSuccess, FinishDead,
       RetryFailed, ReleaseClaim
  <2>2. \A l \in Lists, i \in Ids : list'[l][i] =
            IF l = o /\ i = j /\ list[l][i] > 0 THEN list[l][i] - 1 ELSE list[l][i]
    <3> HIDE DEF o, j
    <3> QED BY <1>2, <2>1, RemovedCounts DEF TypeOK
  <2>3. \A p \in Procs, i \in Ids : list'[p][i] <= list[p][i]
    BY <1>3, <2>2 DEF Lists
  <2>4. list[o][j] > 0 => list'[o][j] < list[o][j]
    BY <1>2, <1>3, <2>2
  <2> QED BY <1>1, <2>1, <2>3, <2>4, ClaimsRelease
<1>5. CASE DeleteMissing(w)
  <2>1. DeleteJob(o, j, wk[w].env) /\ Finish(w)
    BY <1>5 DEF DeleteMissing
  <2>2. \A p \in Procs, i \in Ids : list'[p][i] = list[p][i] \/ list'[p][i] = 0
    BY <2>1, ListsOf DEF DeleteJob, TypeOK, StoreType
  <2>3. list'[o][j] = 0
    BY <1>2, <2>1 DEF DeleteJob, TypeOK, StoreType
  <2>4. \A p \in Procs, i \in Ids : list'[p][i] <= list[p][i]
    BY <1>3, <2>2
  <2> QED BY <1>1, <1>2, <1>3, <2>1, <2>3, <2>4, ClaimsRelease
<1>6. CASE ~(\/ Acknowledge(w) \/ Bury(w) \/ RetryCommit(w) \/ RetryRelease(w)
             \/ DeleteMissing(w))
  <2>1. UNCHANGED list
    BY <1>6 DEF WorkerStep, LoadCancelled, Load, DeleteRead, BuildFails, Start, Succeed, Fail,
       RetryRead, TransitionFails, storeVars, HSet
  <2>2. \/ UNCHANGED proc /\ proc[o] = "draining"
        \/ proc' = [proc EXCEPT ![o] = "draining"]
        \/ UNCHANGED proc /\ wk'[w].pc # "idle" /\ wk'[w].id = j
    <3>1. ASSUME NEW pc, NEW env, Set(w, pc, j, env) PROVE wk'[w].pc = pc /\ wk'[w].id = j
      BY <3>1 DEF Set, TypeOK, WorkersTyped
    <3> QED
      BY <1>6, <3>1 DEF WorkerStep, LoadCancelled, Load, DeleteRead, BuildFails, Start, Succeed,
         Fail, RetryRead, TransitionFails, Unanswered, FailRuntime, Replied
  <2>3. \A v \in Workers : v # w => wk'[v] = wk[v]
    BY <1>6 DEF WorkerStep, LoadCancelled, Load, DeleteRead, BuildFails, Start, Succeed, Fail,
       RetryRead, TransitionFails, Unanswered, Set, TypeOK, WorkersTyped
  <2>4. \A p \in Procs : proc'[p] = "new" => proc[p] = "new"
    BY <2>2 DEF TypeOK, ProcsTyped
  <2>5. ASSUME NEW p \in Procs, proc'[p] = "running"
        PROVE  /\ proc[p] = "running"
               /\ \A v \in SlotsOf(p) : /\ wk'[v].pc = "idle" <=> wk[v].pc = "idle"
                                        /\ wk'[v].id = wk[v].id
    <3>1. proc[p] = "running" /\ (p = o => wk'[w].pc # "idle" /\ wk'[w].id = j)
      BY <1>2, <2>2, <2>5 DEF TypeOK, ProcsTyped
    <3>2. \A v \in SlotsOf(p) : v \in Workers /\ (v = w => p = o)
      BY DEF SlotsOf, Workers, Owner
    <3> QED BY <1>1, <2>3, <3>1, <3>2
  <2>6. \A p \in Procs, i \in Ids : list'[p][i] <= list[p][i]
    BY <1>3, <2>1
  <2> QED BY <2>4, <2>5, <2>6, ClaimsFrame
<1> QED BY <1>4, <1>5, <1>6

(* A claim: the new entry on the list is the job of the claiming worker,   *)
(* unless the process drains.                                              *)
LEMMA ClaimsDispatch ==
    ASSUME TypeOK, TypeOK', ClaimsHeld, NEW w \in Workers, NEW q \in Queues, NEW id \in Ids,
           Dispatch(w, q, id)
    PROVE  ClaimsHeld'
<1> DEFINE o == Owner(w)
<1>1. o \in Procs /\ o \in Lists /\ w \in SlotsOf(o) /\ wk[w].pc = "idle"
  BY DEF Workers, Owner, SlotsOf, Lists, Dispatch
<1>2. \A p \in Procs, i \in Ids : list[p][i] \in Nat /\ list'[p][i] \in Nat
  BY DEF TypeOK, StoreType, Lists
<1>3. list' = Moved(q, o, id) /\ list[q][id] > 0
  BY DEF Dispatch, Claim
<1>4. \A p \in Procs, i \in Ids : list'[p][i] =
          IF i = id /\ p = o THEN list[p][i] + 1 ELSE list[p][i]
  <2> HIDE DEF o
  <2>1. q \in Lists /\ q # o /\ \A p \in Procs : p # q /\ p \in Lists
    BY <1>1, ListsOf
  <2> QED BY <1>1, <1>3, <2>1, MovedCounts DEF TypeOK
<1>5. \A p \in Procs : proc'[p] = "new" => proc[p] = "new" /\ p # o
  BY <1>1 DEF Dispatch, Replied, Unanswered, FailRuntime, TypeOK, ProcsTyped
<1>6. NewUnclaimed'
  BY <1>2, <1>4, <1>5 DEF ClaimsHeld, NewUnclaimed
<1>7. ASSUME NEW p \in Procs, NEW i \in Ids, proc'[p] = "running"
      PROVE  list'[p][i] <= Cardinality(HeldBy(p, i)')
  <2>1. proc[p] = "running"
    BY <1>7 DEF Dispatch, Replied, Unanswered, FailRuntime, TypeOK, ProcsTyped
  <2>2. list[p][i] <= Cardinality(HeldBy(p, i))
    BY <2>1 DEF ClaimsHeld, NoStrandedClaim, HeldBy
  <2>3. IsFiniteSet(HeldBy(p, i)) /\ Cardinality(HeldBy(p, i)) \in Nat
    BY SlotsFinite DEF HeldBy
  <2>4. \A v \in SlotsOf(p) : v \in Workers /\ (v = w => p = o)
    BY DEF SlotsOf, Workers, Owner
  <2>5. \A v \in Workers : v # w => wk'[v] = wk[v]
    BY DEF Dispatch, Unanswered, Set, TypeOK, WorkersTyped
  <2>6. CASE p # o
    <3>1. HeldBy(p, i)' = HeldBy(p, i)
      BY <2>4, <2>5, <2>6 DEF HeldBy, SlotsOf
    <3> QED BY <1>4, <2>2, <2>6, <3>1
  <2>7. CASE p = o
    <3>1. Set(w, "claimed", id, None)
      BY <1>1, <1>7, <2>1, <2>7 DEF Dispatch, Unanswered, FailRuntime, TypeOK, ProcsTyped
    <3>2. wk'[w].pc # "idle" /\ wk'[w].id = id
      BY <3>1 DEF Set, TypeOK, WorkersTyped
    <3>3. HeldBy(p, i)' = IF i = id THEN HeldBy(p, i) \cup {w} ELSE HeldBy(p, i)
      BY <1>1, <2>4, <2>5, <2>7, <3>2 DEF HeldBy, SlotsOf
    <3>4. w \notin HeldBy(p, i)
      BY <1>1 DEF HeldBy
    <3>5. Cardinality(HeldBy(p, i) \cup {w}) = Cardinality(HeldBy(p, i)) + 1
      BY <2>3, <3>4, FS_AddElement
    <3> QED BY <1>2, <1>4, <2>2, <2>3, <2>7, <3>3, <3>5
  <2> QED BY <2>6, <2>7
<1>8. NoStrandedClaim'
  BY <1>7 DEF NoStrandedClaim, HeldBy
<1> QED BY <1>6, <1>8 DEF ClaimsHeld

(* Registration, heartbeats and the ends of a process.                     *)
LEMMA ClaimsProcess ==
    ASSUME TypeOK, TypeOK', ClaimsHeld, ProcessStep
    PROVE  ClaimsHeld'
<1> PICK p \in Procs :
        \/ Register(p) \/ Ping(p) \/ Expire(p) \/ Stall(p)
        \/ Shutdown(p) \/ Deregister(p) \/ ShutdownTimeout(p) \/ Crash(p)
  BY DEF ProcessStep
<1>1. UNCHANGED list
  BY DEF Register, Ping, Expire, Stall, Shutdown, Deregister, ShutdownTimeout, Crash, storeVars
<1>2. \A r \in Procs : proc'[r] = "new" => proc[r] = "new"
  BY DEF Register, Ping, Expire, Stall, Shutdown, Deregister, ShutdownTimeout, Crash, FailRuntime,
     TypeOK, ProcsTyped
<1>3. ASSUME NEW r \in Procs, proc'[r] = "running", proc[r] # "new"
      PROVE  proc[r] = "running" /\ \A w \in SlotsOf(r) : wk'[w] = wk[w]
  <2>1. proc[r] = "running" /\ (r = p => ~ShutdownTimeout(p) /\ ~Crash(p))
    BY <1>3 DEF Register, Ping, Expire, Stall, Shutdown, Deregister, ShutdownTimeout, Crash,
       FailRuntime, TypeOK, ProcsTyped
  <2>2. UNCHANGED wk \/ ((ShutdownTimeout(p) \/ Crash(p)) /\ Forget(p))
    BY DEF Register, Ping, Expire, Stall, Shutdown, Deregister, ShutdownTimeout, Crash
  <2>3. \A w \in SlotsOf(r) : w \in Workers /\ Owner(w) = r
    BY DEF SlotsOf, Workers, Owner
  <2>4. ASSUME r # p, Forget(p) PROVE \A w \in SlotsOf(r) : wk'[w] = wk[w]
    BY <2>3, <2>4 DEF Forget
  <2> QED BY <2>1, <2>2, <2>4
<1>4. \A r \in Procs, i \in Ids : list'[r][i] <= list[r][i]
  BY <1>1 DEF TypeOK, StoreType, Lists
<1> QED BY <1>2, <1>3, <1>4, ClaimsFrame

(* Every step keeps the claims of running processes in their workers'      *)
(* hands.                                                                  *)
LEMMA ClaimsNext == TypeOK /\ TypeOK' /\ ClaimsHeld /\ [Next]_vars => ClaimsHeld'
<1> SUFFICES ASSUME TypeOK, TypeOK', ClaimsHeld, [Next]_vars PROVE ClaimsHeld'
  OBVIOUS
<1>1. ASSUME UNCHANGED <<proc, wk>>, \A p \in Procs, i \in Ids : list'[p][i] <= list[p][i]
      PROVE  ClaimsHeld'
  <2>1. \A p \in Procs : proc'[p] = "running" => proc[p] = "running"
    BY <1>1
  <2> QED BY <1>1, <2>1, ClaimsFrame DEF TypeOK, ProcsTyped
<1>2. \A p \in Procs, i \in Ids : list[p][i] \in Nat
  BY DEF TypeOK, StoreType, Lists
<1>3. ASSUME Produce PROVE ClaimsHeld'
  <2> PICK id \in Ids : \/ EnqueuePush(id) \/ EnqueueBroken(id)
                        \/ \E q \in Queues : EnqueueSave(id, q) \/ EnqueueUnique(id, q)
    BY <1>3 DEF Produce
  <2>1. UNCHANGED <<proc, wk>>
    BY DEF EnqueueSave, EnqueuePush, EnqueueBroken, EnqueueUnique, producerUnchanged, procVars
  <2>2. UNCHANGED list \/ \E q \in Queues : list' = Pushed(q, id)
    BY ProducePushes
  <2>3. \A p \in Procs, i \in Ids : list'[p][i] = list[p][i]
    <3>1. ASSUME NEW q \in Queues, list' = Pushed(q, id)
          PROVE  \A p \in Procs, i \in Ids : list'[p][i] = list[p][i]
      BY <3>1, ListsOf, PushedCounts DEF TypeOK
    <3> QED BY <2>2, <3>1
  <2> QED BY <1>1, <1>2, <2>1, <2>3
<1>4. ASSUME NEW p \in Procs, SweepStep(p) \/ SweepFails(p) PROVE ClaimsHeld'
  <2>1. UNCHANGED <<proc, wk>>
    BY <1>4 DEF SweepStep, SweepScan, SweepRecords, SweepMove, SweepLength, SweepForget,
       SweepTarget, SweepRead, SweepFails, sweepUnchanged, procVars
  <2>2. CASE SweepMove(p)
    BY <1>1, <1>2, <2>1, <2>2, SweepShrinks
  <2>3. CASE ~SweepMove(p)
    <3>1. UNCHANGED list
      BY <1>4, <2>3 DEF SweepStep, SweepScan, SweepRecords, SweepLength, SweepForget,
         SweepTarget, SweepRead, SweepFails, storeVars
    <3> QED BY <1>1, <1>2, <2>1, <3>1
  <2> QED BY <2>2, <2>3
<1>5. ASSUME NEW p \in Procs, NEW z \in Zsets, PromoteStep(p, z) \/ PromoteFails(p, z)
      PROVE  ClaimsHeld'
  <2>1. UNCHANGED <<proc, wk>>
    BY <1>5 DEF PromoteStep, PromoteRange, PromoteRead, PromoteMove, PromoteFails,
       promoUnchanged, procVars
  <2>2. \A r \in Procs, i \in Ids : list'[r][i] = list[r][i]
    BY <1>5, PromoteSpares
  <2> QED BY <1>1, <1>2, <2>1, <2>2
<1>6. ASSUME NEW z \in Zsets, NEW id \in Ids, Tick(z, id) PROVE ClaimsHeld'
  BY <1>1, <1>2, <1>6 DEF Tick, ComeDue, procVars
<1>7. ASSUME AdminDelete PROVE ClaimsHeld'
  <2>1. UNCHANGED <<proc, wk>>
    BY <1>7 DEF AdminDelete, deleteUnchanged, procVars
  <2>2. \A p \in Procs, i \in Ids : list'[p][i] = list[p][i] \/ list'[p][i] = 0
    BY <1>7, ListsOf DEF AdminDelete, DeleteJob, TypeOK, StoreType
  <2> QED BY <1>1, <1>2, <2>1, <2>2
<1>8. ASSUME NEW by \in Procs \cup {None}, NEW id \in Ids, AdminRead(by, id) PROVE ClaimsHeld'
  BY <1>1, <1>2, <1>8 DEF AdminRead, deleteUnchanged, procVars, storeVars
<1>9. ASSUME UNCHANGED vars PROVE ClaimsHeld'
  BY <1>1, <1>2, <1>9 DEF vars, storeVars, procVars
<1> QED
  BY <1>3, <1>4, <1>5, <1>6, <1>7, <1>8, <1>9, ClaimsWorker, ClaimsDispatch, ClaimsProcess
  DEF Next

(* While a process runs, every entry of its processing list is held by one *)
(* of its workers, whatever crashes, lost replies, stalled heartbeats and  *)
(* deletions happen: nothing that recovery would have to release is left   *)
(* behind by a process that recovery spares.                               *)
THEOREM ClaimsAreHeld == Spec => []NoStrandedClaim
<1>1. Init => TypeOK /\ ClaimsHeld
  <2> SUFFICES ASSUME Init PROVE ClaimsHeld
    BY InitType
  <2>1. \A p \in Procs : proc[p] = "new" /\ \A i \in Ids : list[p][i] = 0
    BY DEF Init, StoreInit, Lists
  <2> QED BY <2>1 DEF ClaimsHeld, NewUnclaimed, NoStrandedClaim
<1>2. TypeOK /\ ClaimsHeld /\ [Next]_vars => TypeOK' /\ ClaimsHeld'
  BY NextType, ClaimsNext
<1>3. ClaimsHeld => NoStrandedClaim
  BY DEF ClaimsHeld
<1> QED BY <1>1, <1>2, <1>3, PTL DEF Spec
=============================================================================
