------------------------------ MODULE Batcher ------------------------------
(***************************************************************************)
(* The way of a loaded job through the coordinator of one queue:           *)
(* route_job, send_to_batcher, run_batcher, flush_batcher, spawn_batch,    *)
(* process_pending_batch (process_pending_job is its case of one job) and  *)
(* executor::run_batch with finish_batch_result.                           *)
(*                                                                         *)
(* Every job starts in the coordinator's channel, claimed and with its     *)
(* permit; when it is received decides when it arrived.  A tokio channel   *)
(* is a sequence, closed by its receiver (open = FALSE) or abandoned by    *)
(* its senders (the coordinator has left its loop).                        *)
(***************************************************************************)
EXTENDS Naturals, Sequences, SequencesExt, FiniteSets

CONSTANTS
    Jobs,          \* the claimed jobs, numbered in the order of the channel
    Keys,          \* batch keys: worker and queue
    KeyOf,         \* the batch key of a job, or Single
    Single,        \* the job's worker has no batch_config
    Malformed,     \* jobs whose arguments do not deserialize
    Exhausted,     \* jobs that have no retries left
    BatchSize,     \* WorkerBatchConfig::size
    ZeroTimeout,   \* whether WorkerBatchConfig::timeout is zero
    Slots,         \* bound on the batcher tasks alive at a time
    MaxErrors      \* bound on the failed commands and refused batches

ASSUME BatcherAssumption ==
    /\ IsFiniteSet(Jobs) /\ Jobs = 1 .. Cardinality(Jobs)
    /\ KeyOf \in [Jobs -> Keys \cup {Single}] /\ Single \notin Keys
    /\ Malformed \subseteq Jobs /\ Exhausted \subseteq Jobs
    /\ BatchSize \in Nat \ {0} /\ ZeroTimeout \in BOOLEAN
    /\ Slots \subseteq Nat \ {0} /\ MaxErrors \in Nat

VARIABLES
    inbox,      \* job_rx
    coord,      \* run: at its select, sending a job to a batcher, or gone
    current,    \* the map batchers: key -> slot, or 0
    batcher,    \* the batcher tasks
    batches,    \* the spawned batches
    permits,    \* jobs whose queue permit is held
    outcome,    \* what the store says of a job
    results,    \* jobs counted in the results sent to the collector
    loaded,     \* history: jobs that were routed
    refused,    \* history: jobs of batches the factory refused
    cancelled,  \* cancel_token
    failed,     \* Runtime::fail was called
    errors

queueVars == <<inbox, coord, current, batcher>>
vars == <<inbox, coord, current, batcher, batches, permits, outcome, results, loaded, refused,
          cancelled, failed, errors>>

Capacity == 2 * BatchSize
Vacant == [key |-> Single, pc |-> "done", open |-> FALSE, chan |-> <<>>, pending |-> <<>>]
Fresh(key) == [key |-> key, pc |-> "idle", open |-> TRUE, chan |-> <<>>, pending |-> <<>>]

Init ==
    /\ inbox = [j \in Jobs |-> j]
    /\ coord = [pc |-> "select", job |-> 0]
    /\ current = [k \in Keys |-> 0]
    /\ batcher = [b \in Slots |-> Vacant]
    /\ batches = {} /\ permits = Jobs
    /\ outcome = [j \in Jobs |-> "claimed"]
    /\ results = [k \in {"success", "failed"} |-> 0]
    /\ loaded = {} /\ refused = {}
    /\ cancelled = FALSE /\ failed = FALSE /\ errors = 0

-----------------------------------------------------------------------------
(* invalid_jobs_by_index.                                                  *)
Invalid(js) == ToSet(js) \cap Malformed

(* job_batch_factory sorts out the jobs to kill for their arguments (todo) *)
(* and the jobs to run; the task holds the permits of all of them.         *)
Batch(js) == [jobs |-> js, pc |-> "built", kind |-> "none", held |-> ToSet(js),
              todo |-> Invalid(js), run |-> ToSet(js) \ Invalid(js)]

(* spawn_batch: nothing is spawned for no jobs.                            *)
Spawned(js) == IF js = <<>> THEN batches ELSE batches \cup {Batch(js)}

(* Runtime::fail: remembers the error and cancels the runtime.             *)
Fail ==
    /\ errors < MaxErrors /\ errors' = errors + 1
    /\ failed' = TRUE /\ cancelled' = TRUE

Cancel ==
    /\ ~cancelled /\ cancelled' = TRUE
    /\ UNCHANGED <<inbox, coord, current, batcher, batches, permits, outcome, results, loaded,
                   refused, failed, errors>>

-----------------------------------------------------------------------------
(* The coordinator.  A job received after cancellation is left claimed.    *)
Route ==
    /\ coord.pc = "select" /\ inbox # <<>>
    /\ LET j == Head(inbox)
       IN  /\ inbox' = Tail(inbox)
           /\ IF cancelled
              THEN /\ permits' = permits \ {j}
                   /\ UNCHANGED <<coord, batches, loaded>>
              ELSE /\ loaded' = loaded \cup {j}
                   /\ UNCHANGED permits
                   /\ IF KeyOf[j] = Single
                      THEN batches' = Spawned(<<j>>) /\ UNCHANGED coord
                      ELSE coord' = [pc |-> "send", job |-> j] /\ UNCHANGED batches
    /\ UNCHANGED <<current, batcher, outcome, results, refused, cancelled, failed, errors>>

(* load_pending_job fails: the runtime fails and the loop ends.            *)
RouteFails ==
    /\ coord.pc = "select" /\ inbox # <<>> /\ ~cancelled
    /\ Fail
    /\ coord' = [coord EXCEPT !.pc = "gone"]
    /\ inbox' = <<>> /\ permits' = permits \ ToSet(inbox)
    /\ UNCHANGED <<current, batcher, batches, outcome, results, loaded, refused>>

(* The loop ends on cancellation: the batchers' senders and the jobs still *)
(* in the channel are dropped.                                             *)
Leave ==
    /\ coord.pc = "select" /\ cancelled
    /\ coord' = [coord EXCEPT !.pc = "gone"]
    /\ inbox' = <<>> /\ permits' = permits \ ToSet(inbox)
    /\ UNCHANGED <<current, batcher, batches, outcome, results, loaded, refused, cancelled, failed,
                   errors>>

Target == current[KeyOf[coord.job]]

(* entry().or_insert_with(spawn_batcher): a task of its own, a new channel.*)
Spawn ==
    /\ coord.pc = "send" /\ Target = 0
    /\ \E b \in Slots :
          /\ batcher[b].pc = "done" /\ \A c \in Slots : c < b => batcher[c].pc # "done"
          /\ batcher' = [batcher EXCEPT ![b] = Fresh(KeyOf[coord.job])]
          /\ current' = [k \in Keys |-> IF k = KeyOf[coord.job] THEN b
                                        ELSE IF current[k] = b THEN 0 ELSE current[k]]
    /\ UNCHANGED <<inbox, coord, batches, permits, outcome, results, loaded, refused, cancelled,
                   failed, errors>>

(* tx.send: waits for room in the channel.                                 *)
Send ==
    /\ coord.pc = "send" /\ Target # 0
    /\ batcher[Target].open /\ Len(batcher[Target].chan) < Capacity
    /\ batcher' = [batcher EXCEPT ![Target].chan = Append(@, coord.job)]
    /\ coord' = [pc |-> "select", job |-> 0]
    /\ UNCHANGED <<inbox, current, batches, permits, outcome, results, loaded, refused, cancelled,
                   failed, errors>>

(* Mutant of SendFails: the job the closed channel gives back is dropped.  *)
SendFailsDrops ==
    /\ coord.pc = "send" /\ Target # 0 /\ ~batcher[Target].open
    /\ current' = [current EXCEPT ![KeyOf[coord.job]] = 0]
    /\ coord' = [pc |-> "select", job |-> 0]
    /\ permits' = permits \ {coord.job}
    /\ UNCHANGED <<inbox, batcher, batches, outcome, results, loaded, refused, cancelled, failed,
                   errors>>

(* The channel was closed: the job comes back and the batcher is replaced. *)
SendFails ==
    /\ coord.pc = "send" /\ Target # 0 /\ ~batcher[Target].open
    /\ current' = [current EXCEPT ![KeyOf[coord.job]] = 0]
    /\ UNCHANGED <<inbox, coord, batcher, batches, permits, outcome, results, loaded, refused,
                   cancelled, failed, errors>>

-----------------------------------------------------------------------------
(* A batcher task.                                                         *)
OnlyBatcher == UNCHANGED <<inbox, coord, current, permits, outcome, results, loaded, refused,
                           cancelled, failed, errors>>

(* A job is received; a full batch is spawned, and so is any batch when    *)
(* the timeout is zero.                                                    *)
Recv(b) ==
    /\ batcher[b].pc \in {"idle", "filling"} /\ batcher[b].chan # <<>>
    /\ LET got == Append(batcher[b].pending, Head(batcher[b].chan))
           full == Len(got) >= BatchSize \/ ZeroTimeout
       IN  /\ batches' = IF full THEN Spawned(got) ELSE batches
           /\ batcher' = [batcher EXCEPT ![b].chan = Tail(@),
                                         ![b].pending = IF full THEN <<>> ELSE got,
                                         ![b].pc = IF full THEN "idle" ELSE "filling"]
    /\ OnlyBatcher

(* Mutant of TimeoutElapses: a job alone waits for company.                *)
TimeoutElapsesForTwo(b) ==
    /\ batcher[b].pc = "filling" /\ Len(batcher[b].pending) > 1
    /\ batches' = Spawned(batcher[b].pending)
    /\ batcher' = [batcher EXCEPT ![b].pending = <<>>, ![b].pc = "idle"]
    /\ OnlyBatcher

(* The timeout of a batch that is not full.                                *)
TimeoutElapses(b) ==
    /\ batcher[b].pc = "filling"
    /\ batches' = Spawned(batcher[b].pending)
    /\ batcher' = [batcher EXCEPT ![b].pending = <<>>, ![b].pc = "idle"]
    /\ OnlyBatcher

(* The senders are gone and the channel is empty.                          *)
Hangup(b) ==
    /\ batcher[b].pc \in {"idle", "filling"} /\ batcher[b].chan = <<>>
    /\ coord.pc = "gone" \/ b \notin {current[k] : k \in Keys}
    /\ batches' = Spawned(batcher[b].pending)
    /\ batcher' = [batcher EXCEPT ![b] = Vacant]
    /\ OnlyBatcher

(* Cancellation: flush_batcher closes the channel.                         *)
Close(b) ==
    /\ batcher[b].pc \in {"idle", "filling"} /\ cancelled
    /\ batcher' = [batcher EXCEPT ![b].pc = "flush", ![b].open = FALSE]
    /\ UNCHANGED batches
    /\ OnlyBatcher

(* flush_batcher: what the channel still holds, in batches of full size.   *)
Drain(b) ==
    /\ batcher[b].pc = "flush"
    /\ LET got == Append(batcher[b].pending, Head(batcher[b].chan))
       IN  IF batcher[b].chan = <<>>
           THEN /\ batches' = Spawned(batcher[b].pending)
                /\ batcher' = [batcher EXCEPT ![b] = Vacant]
           ELSE /\ batches' = IF Len(got) >= BatchSize THEN Spawned(got) ELSE batches
                /\ batcher' = [batcher EXCEPT ![b].chan = Tail(@),
                                  ![b].pending = IF Len(got) >= BatchSize THEN <<>> ELSE got]
    /\ OnlyBatcher

-----------------------------------------------------------------------------
(* A batch.                                                                *)
OnlyBatch == UNCHANGED <<queueVars, loaded>>
Free == UNCHANGED <<cancelled, failed, errors>>

Become(t, u) == batches' = (batches \ {t}) \cup {u}
(* The task ends: whatever permits it still has are dropped.               *)
End(t) == batches' = batches \ {t} /\ permits' = permits \ t.held

(* The jobs of a batch are handled in the order of their arrival.          *)
First(t, js, j) ==
    \E i \in DOMAIN t.jobs : /\ t.jobs[i] = j /\ j \in js
                             /\ \A k \in 1 .. (i - 1) : t.jobs[k] \notin js

(* build_batch returns an error instead: every job is killed.              *)
BuildRefused(t) ==
    /\ t = Batch(t.jobs) /\ errors < MaxErrors /\ errors' = errors + 1
    /\ Become(t, [t EXCEPT !.todo = t.held, !.run = {}])
    /\ refused' = refused \cup t.held
    /\ UNCHANGED <<permits, outcome, results, cancelled, failed>> /\ OnlyBatch

(* kill, one job after the other.  The permit of a job killed for its      *)
(* arguments is dropped at once.                                           *)
Kill(t) ==
    /\ t.pc = "built"
    /\ \E j \in t.todo :
          LET dropped == {j} \ refused
          IN  /\ First(t, t.todo, j)
              /\ outcome' = [outcome EXCEPT ![j] = "dead"]
              /\ permits' = permits \ dropped
              /\ Become(t, [t EXCEPT !.todo = @ \ {j}, !.held = @ \ dropped])
    /\ UNCHANGED <<results, refused>> /\ Free /\ OnlyBatch

(* kill or set_started_at_batch fails: the jobs left are not touched.      *)
TaskFails(t) ==
    /\ t.pc = "built" /\ t.todo \cup t.run # {}
    /\ Fail /\ End(t)
    /\ UNCHANGED <<outcome, results, refused>> /\ OnlyBatch

(* No job is left to run.                                                  *)
NothingToRun(t) ==
    /\ t.pc = "built" /\ t.todo = {} /\ t.run = {}
    /\ End(t)
    /\ UNCHANGED <<outcome, results, refused>> /\ Free /\ OnlyBatch

(* set_started_at_batch, and run_process returns: success, or an error or  *)
(* a panic for the whole batch.                                            *)
Work(t) ==
    /\ t.pc = "built" /\ t.todo = {} /\ t.run # {}
    /\ \E k \in {"success", "failed"} :
          Become(t, [t EXCEPT !.kind = k, !.todo = t.run, !.pc = "finish"])
    /\ UNCHANGED <<permits, outcome, results, refused>> /\ Free /\ OnlyBatch

(* finish_with_success_batch: one script for all.                          *)
Acknowledge(t) ==
    /\ t.pc = "finish" /\ t.kind = "success" /\ t.todo # {}
    /\ outcome' = [j \in Jobs |-> IF j \in t.run THEN "done" ELSE outcome[j]]
    /\ Become(t, [t EXCEPT !.todo = {}])
    /\ UNCHANGED <<permits, results, refused>> /\ Free /\ OnlyBatch

(* Mutant of HandleErr: one policy, the first job's, for the whole batch.  *)
HandleErrFirstPolicy(t) ==
    /\ t.pc = "finish" /\ t.kind = "failed"
    /\ \E i \in t.run, j \in t.todo :
          /\ First(t, t.run, i) /\ First(t, t.todo, j)
          /\ outcome' = [outcome EXCEPT ![j] = IF i \in Exhausted THEN "dead" ELSE "retry"]
          /\ Become(t, [t EXCEPT !.todo = @ \ {j}])
    /\ UNCHANGED <<permits, results, refused>> /\ Free /\ OnlyBatch

(* handle_err, one job after the other, each by its own policy.            *)
HandleErr(t) ==
    /\ t.pc = "finish" /\ t.kind = "failed"
    /\ \E j \in t.todo :
          /\ First(t, t.todo, j)
          /\ outcome' = [outcome EXCEPT ![j] = IF j \in Exhausted THEN "dead" ELSE "retry"]
          /\ Become(t, [t EXCEPT !.todo = @ \ {j}])
    /\ UNCHANGED <<permits, results, refused>> /\ Free /\ OnlyBatch

(* The first transition that fails fails the runtime and is the last.      *)
FinishFails(t) ==
    /\ t.pc = "finish" /\ t.todo # {}
    /\ Fail
    /\ Become(t, [t EXCEPT !.todo = {}])
    /\ UNCHANGED <<permits, outcome, results, refused>> /\ OnlyBatch

(* Mutant of Report: the permits outlive the batch.                        *)
ReportKeepsPermits(t) ==
    /\ t.pc = "finish" /\ t.todo = {}
    /\ batches' = batches \ {t}
    /\ results' = [results EXCEPT ![t.kind] = @ + Cardinality(t.run)]
    /\ UNCHANGED <<permits, outcome, refused>> /\ Free /\ OnlyBatch

(* The permits are dropped; process_result counts the jobs that ran.       *)
Report(t) ==
    /\ t.pc = "finish" /\ t.todo = {}
    /\ End(t)
    /\ results' = [results EXCEPT ![t.kind] = @ + Cardinality(t.run)]
    /\ UNCHANGED <<outcome, refused>> /\ Free /\ OnlyBatch

BatchStep(t) ==
    \/ Kill(t) \/ NothingToRun(t) \/ Work(t)
    \/ Acknowledge(t) \/ HandleErr(t) \/ Report(t)

BatcherStep(b) == Recv(b) \/ Hangup(b) \/ Drain(b)

Next ==
    \/ Cancel \/ Route \/ RouteFails \/ Leave \/ Spawn \/ Send \/ SendFails
    \/ \E b \in Slots : BatcherStep(b) \/ TimeoutElapses(b) \/ Close(b)
    \/ \E t \in batches : BatchStep(t) \/ BuildRefused(t) \/ TaskFails(t) \/ FinishFails(t)

Spec == Init /\ [][Next]_vars

(* Tasks make progress, timers fire, workers return.  A send that loses    *)
(* the race against a closing batcher again and again wins it in the end.  *)
FairSpec ==
    /\ Spec
    /\ WF_vars(Route \/ Leave \/ Spawn \/ SendFails) /\ SF_vars(Send)
    /\ \A b \in Slots : WF_vars(BatcherStep(b)) /\ WF_vars(TimeoutElapses(b)) /\ WF_vars(Close(b))
    /\ WF_vars(\E t \in batches : BatchStep(t))

-----------------------------------------------------------------------------
(* Where a job is in memory.                                               *)
Sending  == IF coord.pc = "send" THEN {coord.job} ELSE {}
Waiting  == UNION {ToSet(batcher[b].chan) \cup ToSet(batcher[b].pending) : b \in Slots}
InBatch  == UNION {t.held : t \in batches}
Held     == ToSet(inbox) \cup Sending \cup Waiting \cup InBatch

(* Type correctness; a channel never holds more than its capacity.         *)
TypeOK ==
    /\ coord \in [pc : {"select", "send", "gone"}, job : Jobs \cup {0}]
    /\ current \in [Keys -> Slots \cup {0}]
    /\ \A b \in Slots : /\ batcher[b].pc \in {"idle", "filling", "flush", "done"}
                        /\ Len(batcher[b].chan) <= Capacity
                        /\ Len(batcher[b].pending) < BatchSize
    /\ permits \subseteq Jobs /\ loaded \subseteq Jobs /\ refused \subseteq Jobs
    /\ outcome \in [Jobs -> {"claimed", "done", "retry", "dead"}]
    /\ cancelled \in BOOLEAN /\ failed \in BOOLEAN /\ errors \in 0 .. MaxErrors

(* A batch holds jobs of one worker and queue and never more than the      *)
(* worker asked for; no job is in two batches.                             *)
BatchesWellFormed ==
    /\ \A t \in batches : /\ Len(t.jobs) <= BatchSize
                          /\ \A i, j \in ToSet(t.jobs) : KeyOf[i] = KeyOf[j]
    /\ \A t, u \in batches : t # u => ToSet(t.jobs) \cap ToSet(u.jobs) = {}

(* Only a failed runtime lets go of a job it had loaded without settling   *)
(* it: neither a batcher that closes while a job is sent to it nor one     *)
(* that is replaced loses a job.                                           *)
LoadedAreSettled == \A j \in loaded \ Held : outcome[j] = "claimed" => failed

(* A permit is held as long as the job is in memory and no longer.         *)
PermitsFollowJobs == permits = Held

(* A job ends on the dead list for a reason of its own: its arguments, its *)
(* retries, or a factory that refused the batch.                           *)
DeadDeserved ==
    \A j \in Jobs : outcome[j] = "dead" => j \in Malformed \cup Exhausted \cup refused

(* The results count the jobs whose run the store has recorded; only a     *)
(* failed runtime counts more.                                             *)
ResultsMatchStore ==
    LET ran == {j \in Jobs \ InBatch : \/ outcome[j] \in {"done", "retry"}
                                       \/ outcome[j] = "dead" /\ j \notin Malformed \cup refused}
    IN  /\ Cardinality(ran) <= results["success"] + results["failed"]
        /\ Cardinality(ran) < results["success"] + results["failed"] => failed

(* After cancellation every batcher and every batch ends, the ones spawned *)
(* for a job that met a closed channel too.                                *)
BatchersEnd ==
    <>[](cancelled => /\ batches = {} /\ coord.pc = "gone"
                      /\ \A b \in Slots : batcher[b].pc = "done")

(* Every job that was loaded leaves memory for good: no batch waits for    *)
(* ever to fill up.                                                        *)
LoadedLeave == <>[](loaded \cap Held = {})

(* No job is lost between the coordinator and a batch: batches are well    *)
(* formed, and only a failed runtime lets go of a job that it loaded.      *)
BatchesSound == TypeOK /\ BatchesWellFormed /\ LoadedAreSettled

(* What the store says of a job, and what the collector is told, is what   *)
(* happened to it, also when the batch of others is refused.               *)
StoreAgrees == DeadDeserved /\ ResultsMatchStore

(* Batchers and batches end, and every loaded job leaves memory.           *)
BatchesEnd == BatchersEnd /\ LoadedLeave
=============================================================================
