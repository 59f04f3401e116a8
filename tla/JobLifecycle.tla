---------------------------- MODULE JobLifecycle ----------------------------
(***************************************************************************)
(* The life of a job across the processes of an oxana deployment: enqueue, *)
(* claim, load, start, finish, retry and burial by the workers of          *)
(* executor.rs and coordinator.rs; promotion of due entries and recovery   *)
(* of dead processes' claims by the background loops of                    *)
(* storage_internal.rs; registration, heartbeat, shutdown and crash of a   *)
(* process (launcher.rs).  Each action is the code between two points      *)
(* where another client's Redis command may run.                           *)
(***************************************************************************)
EXTENDS JobStore, FiniteSets

CONSTANTS
    Slots,        \* worker permits of one process
    Unique,       \* ids enqueued with on_conflict = Skip; the others are fresh uuids
    Delayed,      \* ids enqueued with enqueue_at or enqueue_in, for later
    MaxRetries,   \* worker.max_retries
    MaxGen,       \* bound: occurrences of one unique id
    MaxFaults,    \* bound: crashes, shutdowns, failed or unanswered commands
    MaxStalls,    \* bound: heartbeats of a live process that miss the threshold
    MaxDeletes,   \* bound: calls of Storage::delete_job
    Loopers       \* bound: processes whose background loops run (in the code, all)

ASSUME LifecycleAssumption ==
    /\ Unique \subseteq Ids /\ Delayed \subseteq Ids
    /\ MaxRetries \in Nat /\ MaxGen \in Nat
    /\ MaxFaults \in Nat /\ MaxStalls \in Nat /\ MaxDeletes \in Nat
    /\ Loopers \subseteq Procs /\ IsFiniteSet(Slots)

VARIABLES
    proc,      \* state of each process
    record,    \* its entry in the processes sorted set
    wk,        \* what each worker slot does
    sweep,     \* progress of each process's resurrect loop
    promo,     \* progress of each process's schedule and retry loops
    del,       \* progress of a delete_job call by an operator or by user code
    enq,       \* progress of the producer of each ordinary id
    sending,   \* the queue to which its pipeline pushes the id
    acked,     \* history: occurrences of each id accepted by Redis
    resolved,  \* history: occurrences finished, buried or given up
    faults, stalls, deletes   \* how much of each bound is used up

procVars == <<proc, record>>
loopVars == <<sweep, promo>>
userVars == <<enq, sending, del, deletes>>
histVars == <<acked, resolved>>
vars == <<storeVars, procVars, wk, loopVars, userVars, histVars, faults, stalls>>

Workers == Procs \X Slots
Owner(w) == w[1]

Phases == {"idle", "claimed", "missing", "deleting", "loaded", "running", "acking",
           "retrying", "rescheduling", "releasing", "burying"}
SweepPhases == {"idle", "scanned", "targets", "claims", "moving", "emptied"}

Worker == [pc : Phases, id : Ids \cup {None}, env : Envelope \cup {None}]
Sweep  == [pc : SweepPhases, procs : SUBSET Procs, target : Procs \cup {None},
           ids : [Ids -> Nat], id : Ids \cup {None}, seen : Envelope \cup {None}]
Delete == [pc : {"idle", "read"}, by : Procs \cup {None}, id : Ids \cup {None},
           seen : Envelope \cup {None}]
Promo  == [todo : SUBSET Ids, id : Ids \cup {None}, seen : Envelope \cup {None}]

IdleWorker == [pc |-> "idle", id |-> None, env |-> None]
NoIds      == [i \in Ids |-> 0]
IdleSweep  == [pc |-> "idle", procs |-> {}, target |-> None, ids |-> NoIds,
               id |-> None, seen |-> None]
IdleDelete == [pc |-> "idle", by |-> None, id |-> None, seen |-> None]
IdlePromo  == [todo |-> {}, id |-> None, seen |-> None]

(* Phases in which a worker holds an envelope it may write back.           *)
Holding == {"loaded", "running", "acking", "retrying", "rescheduling", "burying"}

WorkersTyped ==
    /\ wk \in [Workers -> Worker]
    /\ \A w \in Workers : /\ wk[w].pc # "idle" => wk[w].id \in Ids
                          /\ wk[w].pc \in Holding => wk[w].env \in Envelope

LoopsTyped ==
    /\ sweep \in [Procs -> Sweep]
    /\ \A p \in Procs :
         /\ sweep[p].pc \in {"claims", "moving", "emptied"} <=> sweep[p].target \in Procs
         /\ sweep[p].pc = "moving" => sweep[p].id \in Ids
    /\ promo \in [Procs \X Zsets -> Promo]

UsersTyped ==
    /\ enq \in [Ids -> {"new", "saved", "done"}]
    /\ sending \in [Ids -> Queues \cup {None}]
    /\ \A i \in Ids : enq[i] = "saved" => sending[i] \in Queues
    /\ del \in Delete /\ (del.pc = "read" => del.id \in Ids)
    /\ deletes \in Nat

ProcsTyped ==
    /\ proc \in [Procs -> {"new", "running", "draining", "stopped", "crashed"}]
    /\ record \in [Procs -> {"none", "fresh", "stale"}]

HistoryTyped ==
    /\ acked \in [Ids -> Nat]
    /\ resolved \subseteq Ids \X Nat
    /\ faults \in Nat /\ stalls \in Nat

(* The type invariant of the lifecycle, with the fields each phase uses.   *)
TypeOK == StoreType /\ ProcsTyped /\ WorkersTyped /\ LoopsTyped /\ UsersTyped /\ HistoryTyped

Init ==
    /\ StoreInit
    /\ proc = [p \in Procs |-> "new"]
    /\ record = [p \in Procs |-> "none"]
    /\ wk = [w \in Workers |-> IdleWorker]
    /\ sweep = [p \in Procs |-> IdleSweep]
    /\ promo = [l \in Procs \X Zsets |-> IdlePromo]
    /\ enq = [i \in Ids |-> "new"] /\ sending = [i \in Ids |-> None]
    /\ acked = [i \in Ids |-> 0]
    /\ resolved = {}
    /\ del = IdleDelete
    /\ faults = 0 /\ stalls = 0 /\ deletes = 0

Alive(p) == proc[p] \in {"running", "draining"}

Fault == faults < MaxFaults /\ faults' = faults + 1

(* Runtime::fail: the first error is kept and the cancel token fires.      *)
FailRuntime(p) == proc' = [proc EXCEPT ![p] = "draining"]

-----------------------------------------------------------------------------
(* Producers.  An ordinary enqueue is a pipeline of two commands, HSET and *)
(* then LPUSH or ZADD; other clients run between them and the connection   *)
(* can break there.  A unique enqueue is one script.                       *)

producerUnchanged == UNCHANGED <<procVars, wk, loopVars, del, deletes, stalls>>

EnqueueSave(id, q) ==
    /\ id \notin Unique /\ enq[id] = "new"
    /\ HSet(id, NewEnvelope(q, 1))
    /\ enq' = [enq EXCEPT ![id] = "saved"] /\ sending' = [sending EXCEPT ![id] = q]
    /\ UNCHANGED <<histVars, faults>> /\ producerUnchanged

EnqueuePush(id) ==
    /\ enq[id] = "saved"
    /\ IF id \in Delayed THEN ZAdd("schedule", id) ELSE LPush(sending[id], id)
    /\ enq' = [enq EXCEPT ![id] = "done"]
    /\ acked' = [acked EXCEPT ![id] = 1]
    /\ UNCHANGED <<sending, resolved, faults>> /\ producerUnchanged

EnqueueBroken(id) ==
    /\ enq[id] = "saved"
    /\ Fault
    /\ enq' = [enq EXCEPT ![id] = "done"]
    /\ UNCHANGED <<storeVars, sending, histVars>> /\ producerUnchanged

EnqueueUnique(id, q) ==
    /\ id \in Unique /\ jobs[id] = None /\ acked[id] < MaxGen
    /\ LET env == NewEnvelope(q, acked[id] + 1)
       IN  IF id \in Delayed THEN EnqueueSchedule(id, env) ELSE EnqueueQueue(id, env)
    /\ acked' = [acked EXCEPT ![id] = @ + 1]
    /\ UNCHANGED <<resolved, enq, sending, faults>> /\ producerUnchanged

-----------------------------------------------------------------------------
(* Processes.                                                              *)

(* Mutant of Register: the loops and the workers start before the first ping. *)
RegisterSilently(p) ==
    /\ proc[p] = "new"
    /\ proc' = [proc EXCEPT ![p] = "running"]
    /\ UNCHANGED <<storeVars, record, wk, loopVars, userVars, histVars, faults, stalls>>

(* launcher::register: the first ping; loops and coordinators start after. *)
Register(p) ==
    /\ proc[p] = "new"
    /\ proc' = [proc EXCEPT ![p] = "running"]
    /\ record' = [record EXCEPT ![p] = "fresh"]
    /\ UNCHANGED <<storeVars, wk, loopVars, userVars, histVars, faults, stalls>>

(* ping_loop keeps the record fresh until execution has stopped.           *)
Ping(p) ==
    /\ Alive(p) /\ record[p] # "fresh"
    /\ record' = [record EXCEPT ![p] = "fresh"]
    /\ UNCHANGED <<storeVars, proc, wk, loopVars, userVars, histVars, faults, stalls>>

(* The score of a process that no longer pings falls behind the threshold. *)
Expire(p) ==
    /\ ~Alive(p) /\ record[p] = "fresh"
    /\ record' = [record EXCEPT ![p] = "stale"]
    /\ UNCHANGED <<storeVars, proc, wk, loopVars, userVars, histVars, faults, stalls>>

(* A live process whose pings are delayed past the threshold.              *)
Stall(p) ==
    /\ Alive(p) /\ record[p] = "fresh"
    /\ stalls < MaxStalls /\ stalls' = stalls + 1
    /\ record' = [record EXCEPT ![p] = "stale"]
    /\ UNCHANGED <<storeVars, proc, wk, loopVars, userVars, histVars, faults>>

(* A shutdown signal, or a background task that ended with an error.       *)
Shutdown(p) ==
    /\ proc[p] = "running"
    /\ Fault
    /\ FailRuntime(p)
    /\ UNCHANGED <<storeVars, record, wk, loopVars, userVars, histVars, stalls>>

SlotsOf(p) == {p} \X Slots

(* Everything that lived in the memory of p is gone.                       *)
Forget(p) ==
    /\ wk' = [w \in Workers |-> IF Owner(w) = p THEN IdleWorker ELSE wk[w]]
    /\ sweep' = [sweep EXCEPT ![p] = IdleSweep]
    /\ promo' = [l \in Procs \X Zsets |-> IF l[1] = p THEN IdlePromo ELSE promo[l]]

(* launcher::run after a complete drain: self_cleanup removes the record   *)
(* and leaves the processing list; its error only changes run()'s result.  *)
Deregister(p) ==
    /\ proc[p] = "draining"
    /\ \A w \in SlotsOf(p) : wk[w].pc = "idle"
    /\ sweep[p] = IdleSweep
    /\ \A z \in Zsets : promo[<<p, z>>] = IdlePromo
    /\ proc' = [proc EXCEPT ![p] = "stopped"]
    /\ \/ record' = [record EXCEPT ![p] = "none"] /\ UNCHANGED faults
       \/ Fault /\ UNCHANGED record
    /\ UNCHANGED <<storeVars, wk, loopVars, userVars, histVars, stalls>>

(* launcher::run at the shutdown deadline: tasks are aborted and joined,   *)
(* heartbeats stop, the record is left to expire.                          *)
ShutdownTimeout(p) ==
    /\ proc[p] = "draining"
    /\ proc' = [proc EXCEPT ![p] = "stopped"]
    /\ Forget(p)
    /\ UNCHANGED <<storeVars, record, userVars, histVars, faults, stalls>>

Crash(p) ==
    /\ Alive(p)
    /\ Fault
    /\ proc' = [proc EXCEPT ![p] = "crashed"]
    /\ Forget(p)
    /\ UNCHANGED <<storeVars, record, userVars, histVars, stalls>>

-----------------------------------------------------------------------------
(* Workers: dispatcher, coordinator and executor for one permit.           *)

Set(w, pc, id, env) == wk' = [wk EXCEPT ![w] = [pc |-> pc, id |-> id, env |-> env]]

workerUnchanged == UNCHANGED <<record, loopVars, userVars, acked, stalls>>

(* Mutant of Unanswered: the error is only logged.                         *)
UnansweredIgnored(w) ==
    /\ Fault
    /\ wk' = [wk EXCEPT ![w] = IdleWorker]
    /\ UNCHANGED proc

(* A command of worker w has taken effect in Redis.  Its reply arrives and *)
(* the worker goes on, or it is lost: the error fails the runtime and the  *)
(* worker keeps its claim, if it still has one, for recovery.              *)
Replied(w) == UNCHANGED <<proc, faults>>
Unanswered(w) ==
    /\ Fault
    /\ FailRuntime(Owner(w))
    /\ wk' = [wk EXCEPT ![w] = IdleWorker]
Finish(w) == (wk' = [wk EXCEPT ![w] = IdleWorker] /\ Replied(w)) \/ Unanswered(w)

(* dispatcher: LMOVE under a permit.  When its reply is lost, or the       *)
(* shutdown drops the dispatcher first, nobody remembers the claim.        *)
Dispatch(w, q, id) ==
    /\ wk[w].pc = "idle"
    /\ Claim(q, Owner(w), id)
    /\ \/ proc[Owner(w)] = "running" /\ Set(w, "claimed", id, None) /\ Replied(w)
       \/ proc[Owner(w)] = "running" /\ Unanswered(w)
       \/ proc[Owner(w)] = "draining" /\ UNCHANGED <<wk, proc, faults>>
    /\ UNCHANGED resolved /\ workerUnchanged

(* Mutant of LoadCancelled: the claim is given back with a bare LREM.      *)
LoadCancelledReleases(w) ==
    /\ wk[w].pc = "claimed" /\ proc[Owner(w)] = "draining"
    /\ ReleaseClaim(Owner(w), wk[w].id)
    /\ wk' = [wk EXCEPT ![w] = IdleWorker]
    /\ UNCHANGED <<proc, faults, resolved>> /\ workerUnchanged

(* Mutant of Load: a missing payload goes unnoticed.                       *)
LoadUnchecked(w) ==
    /\ wk[w].pc = "claimed" /\ proc[Owner(w)] = "running"
    /\ Set(w, "loaded", wk[w].id, jobs[wk[w].id])
    /\ UNCHANGED <<storeVars, proc, faults, resolved>> /\ workerUnchanged

(* load_pending_job: cancellation wins and keeps the claim.                *)
LoadCancelled(w) ==
    /\ wk[w].pc = "claimed" /\ proc[Owner(w)] = "draining"
    /\ wk' = [wk EXCEPT ![w] = IdleWorker]
    /\ UNCHANGED <<storeVars, proc, faults, resolved>> /\ workerUnchanged

Load(w) ==
    /\ wk[w].pc = "claimed" /\ proc[Owner(w)] = "running"
    /\ Set(w, IF jobs[wk[w].id] = None THEN "missing" ELSE "loaded", wk[w].id, jobs[wk[w].id])
    /\ UNCHANGED <<storeVars, proc, faults, resolved>> /\ workerUnchanged

(* A transition that fails before Redis executes it (get_claimed_job,      *)
(* claimed_connection, WRONGTYPE): config.fail, the claim stays.           *)
TransitionFails(w) ==
    /\ wk[w].pc \notin {"idle", "running"}
    /\ Unanswered(w)
    /\ UNCHANGED <<storeVars, resolved>> /\ workerUnchanged

(* delete_job on the id whose payload was missing: HGET again for the      *)
(* queue name, then the transaction.                                       *)
DeleteRead(w) ==
    /\ wk[w].pc = "missing"
    /\ Set(w, "deleting", wk[w].id, jobs[wk[w].id])
    /\ UNCHANGED <<storeVars, proc, faults, resolved>> /\ workerUnchanged

DeleteMissing(w) ==
    /\ wk[w].pc = "deleting"
    /\ DeleteJob(Owner(w), wk[w].id, wk[w].env)
    /\ Finish(w)
    /\ UNCHANGED resolved /\ workerUnchanged

(* registry.build rejects the arguments: kill without executing.           *)
BuildFails(w) ==
    /\ wk[w].pc = "loaded"
    /\ Set(w, "burying", wk[w].id, wk[w].env)
    /\ UNCHANGED <<storeVars, proc, faults, resolved>> /\ workerUnchanged

(* executor::run: set_started_at_batch writes the envelope that was loaded *)
(* over whatever is stored, then the job runs.                             *)
Start(w) ==
    /\ wk[w].pc = "loaded"
    /\ LET env == [wk[w].env EXCEPT !.started = TRUE]
       IN  /\ HSet(wk[w].id, env)
           /\ (Set(w, "running", wk[w].id, env) /\ Replied(w)) \/ Unanswered(w)
    /\ UNCHANGED resolved /\ workerUnchanged

Succeed(w) ==
    /\ wk[w].pc = "running"
    /\ Set(w, "acking", wk[w].id, wk[w].env)
    /\ UNCHANGED <<storeVars, proc, faults, resolved>> /\ workerUnchanged

(* An error or a caught panic; handle_err decides on the loaded envelope.  *)
Fail(w) ==
    /\ wk[w].pc = "running"
    /\ Set(w, IF wk[w].env.retries < MaxRetries THEN "retrying" ELSE "burying",
           wk[w].id, wk[w].env)
    /\ UNCHANGED <<storeVars, proc, faults, resolved>> /\ workerUnchanged

Acknowledge(w) ==
    /\ wk[w].pc = "acking"
    /\ FinishSuccess(Owner(w), wk[w].id)
    /\ resolved' = resolved \cup {<<wk[w].id, wk[w].env.gen>>}
    /\ Finish(w)
    /\ workerUnchanged

Bury(w) ==
    /\ wk[w].pc = "burying"
    /\ FinishDead(Owner(w), wk[w].id, wk[w].env)
    /\ resolved' = resolved \cup {<<wk[w].id, wk[w].env.gen>>}
    /\ Finish(w)
    /\ workerUnchanged

(* retry_in reads the stored payload first; the increment is made on that. *)
RetryRead(w) ==
    /\ wk[w].pc = "retrying"
    /\ LET stored == jobs[wk[w].id]
       IN  IF stored = None THEN Set(w, "releasing", wk[w].id, None)
           ELSE Set(w, "rescheduling", wk[w].id, WithRetriesIncremented(stored))
    /\ UNCHANGED <<storeVars, proc, faults, resolved>> /\ workerUnchanged

RetryCommit(w) ==
    /\ wk[w].pc = "rescheduling"
    /\ RetryFailed(Owner(w), wk[w].id, wk[w].env)
    /\ Finish(w)
    /\ UNCHANGED resolved /\ workerUnchanged

RetryRelease(w) ==
    /\ wk[w].pc = "releasing"
    /\ ReleaseClaim(Owner(w), wk[w].id)
    /\ Finish(w)
    /\ UNCHANGED resolved /\ workerUnchanged

-----------------------------------------------------------------------------
(* resurrect: one sweep of the processing lists of dead processes.         *)

sweepUnchanged == UNCHANGED <<procVars, wk, promo, userVars, acked, stalls>>

(* The dead processes still to visit; the sweep ends with the last one.    *)
NextTarget(ps) == [IdleSweep EXCEPT !.procs = ps, !.pc = IF ps = {} THEN "idle" ELSE "targets"]

(* SCAN for processing lists; a list that appears while the scan runs may  *)
(* still be returned by a later page.                                      *)
SweepScan(p) ==
    /\ \/ sweep[p].pc = "idle" /\ proc[p] = "running" /\ p \in Loopers
       \/ sweep[p].pc = "scanned"
    /\ sweep' = [sweep EXCEPT ![p].pc = "scanned",
                     ![p].procs = @ \cup {q \in Procs : \E i \in Ids : list[q][i] > 0}]
    /\ UNCHANGED <<storeVars, record, proc, wk, promo, userVars, histVars, faults, stalls>>

(* Mutant of SweepRecords: only processes without a record are swept.      *)
SweepRecordsUnregistered(p) ==
    /\ sweep[p].pc = "scanned"
    /\ sweep' = [sweep EXCEPT ![p] =
                    NextTarget({q \in Procs : record[q] = "none" /\ q \in @.procs})]
    /\ UNCHANGED <<storeVars, resolved, faults>> /\ sweepUnchanged

(* dead_process_ids_in: the process set is read after the scan.            *)
SweepRecords(p) ==
    /\ sweep[p].pc = "scanned"
    /\ sweep' = [sweep EXCEPT ![p] =
                    NextTarget({q \in Procs : \/ record[q] = "stale"
                                              \/ record[q] = "none" /\ q \in @.procs})]
    /\ UNCHANGED <<storeVars, resolved, faults>> /\ sweepUnchanged

(* LRANGE of the next dead process.                                        *)
SweepTarget(p, q) ==
    /\ sweep[p].pc = "targets" /\ q \in sweep[p].procs
    /\ sweep' = [sweep EXCEPT ![p].pc = "claims", ![p].procs = @ \ {q},
                     ![p].target = q, ![p].ids = list[q]]
    /\ UNCHANGED <<storeVars, resolved, faults>> /\ sweepUnchanged

(* transition_snapshot of the next claim.                                  *)
SweepRead(p, id) ==
    /\ sweep[p].pc = "claims" /\ sweep[p].ids[id] > 0
    /\ LET left == [sweep[p].ids EXCEPT ![id] = @ - 1]
       IN  sweep' = [sweep EXCEPT ![p].pc = "moving", ![p].ids = left,
                         ![p].id = id, ![p].seen = jobs[id]]
    /\ UNCHANGED <<storeVars, resolved, faults>> /\ sweepUnchanged

(* resurrect_claim.lua; a job type that is not resurrected is given up.    *)
SweepMove(p) ==
    /\ sweep[p].pc = "moving"
    /\ LET id == sweep[p].id  seen == sweep[p].seen  q == sweep[p].target
       IN  /\ ResurrectClaim(q, id, seen)
           /\ resolved' = IF seen # None /\ list[q][id] > 0 /\ jobs[id] = seen /\ id \notin Lasting
                          THEN resolved \cup {<<id, seen.gen>>} ELSE resolved
    /\ sweep' = [sweep EXCEPT ![p].pc = "claims", ![p].id = None, ![p].seen = None]
    /\ UNCHANGED faults /\ sweepUnchanged

(* LLEN of the processing list: a dead process is forgotten once it is     *)
(* empty, by a later command.                                              *)
SweepLength(p) ==
    /\ sweep[p].pc = "claims" /\ sweep[p].ids = NoIds
    /\ sweep' = IF \A i \in Ids : list[sweep[p].target][i] = 0
                THEN [sweep EXCEPT ![p].pc = "emptied"]
                ELSE [sweep EXCEPT ![p] = NextTarget(@.procs)]
    /\ UNCHANGED <<storeVars, resolved, faults>> /\ sweepUnchanged

SweepForget(p) ==
    /\ sweep[p].pc = "emptied"
    /\ record' = [record EXCEPT ![sweep[p].target] = "none"]
    /\ sweep' = [sweep EXCEPT ![p] = NextTarget(@.procs)]
    /\ UNCHANGED <<storeVars, proc, wk, promo, userVars, histVars, faults, stalls>>

(* A Redis error ends the sweep; poll_redis starts another one later.      *)
SweepFails(p) ==
    /\ sweep[p].pc # "idle"
    /\ Fault
    /\ sweep' = [sweep EXCEPT ![p] = IdleSweep]
    /\ UNCHANGED <<storeVars, resolved>> /\ sweepUnchanged

-----------------------------------------------------------------------------
(* enqueue_scheduled on one sorted set.                                    *)

promoUnchanged == UNCHANGED <<procVars, wk, sweep, userVars, histVars, stalls>>

PromoteRange(p, z) ==
    /\ proc[p] = "running" /\ p \in Loopers /\ promo[<<p, z>>] = IdlePromo
    /\ \E i \in Ids : zset[z][i] = "due"
    /\ promo' = [promo EXCEPT ![<<p, z>>].todo = {i \in Ids : zset[z][i] = "due"}]
    /\ UNCHANGED <<storeVars, faults>> /\ promoUnchanged

PromoteRead(p, z, id) ==
    /\ id \in promo[<<p, z>>].todo /\ promo[<<p, z>>].id = None
    /\ promo' = [promo EXCEPT ![<<p, z>>] =
                    [todo |-> @.todo \ {id}, id |-> id, seen |-> jobs[id]]]
    /\ UNCHANGED <<storeVars, faults>> /\ promoUnchanged

PromoteMove(p, z) ==
    /\ promo[<<p, z>>].id # None
    /\ PromoteScheduled(z, promo[<<p, z>>].id, promo[<<p, z>>].seen)
    /\ promo' = [promo EXCEPT ![<<p, z>>] = [todo |-> @.todo, id |-> None, seen |-> None]]
    /\ UNCHANGED faults /\ promoUnchanged

PromoteFails(p, z) ==
    /\ promo[<<p, z>>] # IdlePromo
    /\ Fault
    /\ promo' = [promo EXCEPT ![<<p, z>>] = IdlePromo]
    /\ UNCHANGED storeVars /\ promoUnchanged

(* Time passes for one entry.                                              *)
Tick(z, id) ==
    /\ ComeDue(z, id)
    /\ UNCHANGED <<procVars, wk, loopVars, userVars, histVars, faults, stalls>>

-----------------------------------------------------------------------------
(* Storage::delete_job from the dashboard (by None) or from code running   *)
(* inside a worker process: the payload is read, then the transaction      *)
(* removes the job.  What was accepted until then is given up on purpose.  *)

deleteUnchanged == UNCHANGED <<procVars, wk, loopVars, enq, sending, acked, faults, stalls>>

AdminRead(by, id) ==
    /\ del.pc = "idle" /\ deletes < MaxDeletes /\ deletes' = deletes + 1
    /\ acked[id] > 0
    /\ by # None => Alive(by)
    /\ del' = [pc |-> "read", by |-> by, id |-> id, seen |-> jobs[id]]
    /\ UNCHANGED <<storeVars, resolved>> /\ deleteUnchanged

AdminDelete ==
    /\ del.pc = "read"
    /\ del.by # None => Alive(del.by)
    /\ DeleteJob(del.by, del.id, del.seen)
    /\ resolved' = resolved \cup ({del.id} \X (1 .. acked[del.id]))
    /\ del' = IdleDelete
    /\ UNCHANGED deletes /\ deleteUnchanged

-----------------------------------------------------------------------------
Produce ==
    \E id \in Ids :
        \/ EnqueuePush(id) \/ EnqueueBroken(id)
        \/ \E q \in Queues : EnqueueSave(id, q) \/ EnqueueUnique(id, q)

ProcessStep ==
    \E p \in Procs :
        \/ Register(p) \/ Ping(p) \/ Expire(p) \/ Stall(p)
        \/ Shutdown(p) \/ Deregister(p) \/ ShutdownTimeout(p) \/ Crash(p)

WorkerStep(w) ==
    \/ LoadCancelled(w) \/ Load(w) \/ DeleteRead(w) \/ DeleteMissing(w)
    \/ BuildFails(w) \/ Start(w) \/ Succeed(w) \/ Fail(w) \/ Acknowledge(w) \/ Bury(w)
    \/ RetryRead(w) \/ RetryCommit(w) \/ RetryRelease(w)

SweepStep(p) ==
    \/ SweepScan(p) \/ SweepRecords(p) \/ SweepMove(p)
    \/ SweepLength(p) \/ SweepForget(p)
    \/ \E q \in Procs : SweepTarget(p, q)
    \/ \E id \in Ids : SweepRead(p, id)

PromoteStep(p, z) ==
    \/ PromoteRange(p, z) \/ PromoteMove(p, z)
    \/ \E id \in Ids : PromoteRead(p, z, id)

Next ==
    \/ Produce
    \/ ProcessStep
    \/ \E w \in Workers : WorkerStep(w) \/ TransitionFails(w)
                          \/ \E q \in Queues, id \in Ids : Dispatch(w, q, id)
    \/ \E p \in Procs : SweepStep(p) \/ SweepFails(p)
    \/ \E p \in Procs, z \in Zsets : PromoteStep(p, z) \/ PromoteFails(p, z)
    \/ \E z \in Zsets, id \in Ids : Tick(z, id)
    \/ AdminDelete \/ \E by \in Procs \cup {None}, id \in Ids : AdminRead(by, id)

Spec == Init /\ [][Next]_vars

(* The scheduler polls every task that can run, timers fire, user code     *)
(* returns, and Redis answers: the loops, the workers and time are fair.   *)
(* Faults, stalls and new enqueues are not owed to anybody.                *)
Fairness ==
    /\ \A id \in Ids : WF_vars(EnqueuePush(id))
    /\ \A p \in Procs :
         /\ WF_vars(Register(p)) /\ WF_vars(Ping(p)) /\ WF_vars(Expire(p))
         /\ WF_vars(Deregister(p))
         /\ WF_vars(SweepStep(p))
         /\ \A z \in Zsets : WF_vars(PromoteStep(p, z))
    /\ \A w \in Workers :
         /\ WF_vars(WorkerStep(w))
         /\ WF_vars(\E q \in Queues, id \in Ids : Dispatch(w, q, id))
    /\ \A z \in Zsets, id \in Ids : WF_vars(Tick(z, id))

FairSpec == Spec /\ Fairness

-----------------------------------------------------------------------------
(* Properties.                                                             *)

Located(id) == \/ \E k \in Lists : list[k][id] > 0
               \/ \E z \in Zsets : zset[z][id] # "none"

(* No accepted job is lost: an occurrence that Redis accepted has either   *)
(* been finished, buried or given up, or its own payload is stored and     *)
(* some list or sorted set still leads to it, whatever crashes, lost       *)
(* replies and failed transitions happened (the claim is released only     *)
(* when the destination is durable: retry_in, kill, resurrect).            *)
NoJobLost ==
    \A id \in Ids : \A g \in 1 .. acked[id] :
        \/ <<id, g>> \in resolved
        \/ jobs[id] # None /\ jobs[id].gen = g /\ Located(id)

(* No claim is stranded: while a process runs, an id on its processing     *)
(* list is held by one of its workers.  Nobody else would ever release it, *)
(* because recovery spares a process that heartbeats (dispatcher::run:     *)
(* "Continuing would abandon a claim").                                    *)
NoStrandedClaim ==
    \A p \in Procs, id \in Ids :
        proc[p] = "running" =>
            list[p][id] <= Cardinality({w \in SlotsOf(p) : wk[w].pc # "idle" /\ wk[w].id = id})

(* CHANGELOG.md on delete_job: "Remove deleted jobs from pending,          *)
(* scheduled, retry, and processing queues so they can be re-enqueued      *)
(* cleanly."  An occurrence enqueued after the deletion of an earlier one  *)
(* is not lost.                                                            *)
ReenqueuedJobKept ==
    \A id \in Ids :
        acked[id] > 1 =>
            \/ <<id, acked[id]>> \in resolved
            \/ jobs[id] # None /\ jobs[id].gen = acked[id] /\ Located(id)

(* As long as no live process misses its heartbeats, a job never executes  *)
(* in two workers at once: claims, recovery, promotion and retry hand it   *)
(* over without duplicating it.                                            *)
ExclusiveExecution ==
    \A v, w \in Workers :
        wk[v].pc = "running" /\ wk[w].pc = "running" /\ wk[v].id = wk[w].id => v = w

(* dead_process_ids_in: "Reading the set afterwards leaves no such window".*)
(* A sweep never works on the processing list of a process that is alive   *)
(* and heartbeating.                                                       *)
LiveNeverSwept ==
    \A p \in Procs : sweep[p].target # None => ~Alive(sweep[p].target)

(* A retry or scheduled job is never queued before its time, even by a     *)
(* promoter that read the sorted set before the job ran and failed again   *)
(* (promote_scheduled.lua compares the score).                             *)
NoEarlyPromotion ==
    [][\A z \in Zsets, id \in Ids :
         zset[z][id] = "wait" /\ zset'[z][id] = "none" => jobs'[id] = None]_vars

(* Every accepted occurrence is eventually settled: finished, buried, or   *)
(* given up by recovery.                                                   *)
EveryJobSettles ==
    \A id \in Ids : \A g \in 1 .. MaxGen :
        (acked[id] >= g) ~> (<<id, g>> \in resolved)

-----------------------------------------------------------------------------
(* The inductive invariants.  Registry carries LiveNeverSwept as long as   *)
(* no live process misses its heartbeats; Custody, which adds where every  *)
(* job and claim is, carries NoJobLost and ExclusiveExecution as long as,  *)
(* besides, nobody deletes jobs by hand.                                   *)

Gone(p) == proc[p] \in {"stopped", "crashed"}

(* A record tells the truth about its process.                             *)
RecordsTruthful ==
    \A p \in Procs :
        /\ Alive(p) => record[p] = "fresh"
        /\ proc[p] = "new" => record[p] = "none" /\ \A i \in Ids : list[p][i] = 0

SweepsTheGone ==
    \A p \in Procs :
        /\ sweep[p].pc \in {"idle", "scanned"} => \A q \in sweep[p].procs : proc[q] # "new"
        /\ sweep[p].pc \notin {"idle", "scanned"} => \A q \in sweep[p].procs : Gone(q)
        /\ sweep[p].target # None => Gone(sweep[p].target)

WorkersAlive == \A w \in Workers : wk[w].pc # "idle" => Alive(Owner(w))

(* While no process stalls, a record tells whether its process lives, and  *)
(* a sweep (launcher::resurrect_loop) selects only processes that are gone.*)
Registry == RecordsTruthful /\ SweepsTheGone /\ WorkersAlive

(* A job is in one place: one list or one sorted set, once.                *)
InOnePlace(id) ==
    /\ \A k \in Lists : list[k][id] \in {0, 1}
    /\ \A k, l \in Lists : list[k][id] > 0 /\ list[l][id] > 0 => k = l
    /\ \A k \in Lists, z \in Zsets : list[k][id] > 0 => zset[z][id] = "none"
    /\ zset["schedule"][id] = "none" \/ zset["retry"][id] = "none"

(* The place, the payload and the history of a job agree.                  *)
Accounted(id) ==
    /\ Located(id) => jobs[id] # None /\ acked[id] > 0
    /\ jobs[id] # None /\ acked[id] > 0 => Located(id) /\ jobs[id].gen = acked[id]
    /\ acked[id] = 0 /\ id \in Unique => jobs[id] = None
    /\ enq[id] # "new" => id \notin Unique
    /\ id \notin Unique /\ enq[id] = "new" => acked[id] = 0 /\ jobs[id] = None
    /\ enq[id] = "saved" => acked[id] = 0 /\ jobs[id] # None /\ jobs[id].gen = 1
    /\ \A g \in 1 .. acked[id] : g < acked[id] \/ jobs[id] = None => <<id, g>> \in resolved

(* A worker at work holds the claim of its job, and its copy of the        *)
(* envelope is the stored one.                                             *)
OwnsClaim(w) ==
    wk[w].pc # "idle" =>
        /\ list[Owner(w)][wk[w].id] > 0
        /\ wk[w].pc \notin {"missing", "deleting", "releasing"}
        /\ wk[w].pc \in {"loaded", "running", "acking", "retrying", "burying"}
              => wk[w].env = jobs[wk[w].id]
        /\ wk[w].pc = "rescheduling"
              => wk[w].env = WithRetriesIncremented(jobs[wk[w].id])

OneWorkerPerJob ==
    \A v, w \in Workers :
        wk[v].pc # "idle" /\ wk[w].pc # "idle" /\ wk[v].id = wk[w].id => v = w

(* While no process stalls and nobody deletes jobs, every job is in one    *)
(* place, every claim belongs to at most one worker, and recovery touches  *)
(* only what the gone left behind.                                         *)
Custody ==
    /\ Registry
    /\ \A id \in Ids : InOnePlace(id) /\ Accounted(id)
    /\ \A w \in Workers : OwnsClaim(w)
    /\ OneWorkerPerJob
=============================================================================
