------------------------------ MODULE JobStore ------------------------------
(***************************************************************************)
(* The Redis keyspace that every oxana process shares, and one operator    *)
(* per Lua script or atomic command of storage_internal.rs.  Redis runs a  *)
(* script without interleaving, so each operator is one state change; what *)
(* happens between two of them is the business of the modules that extend  *)
(* this one.                                                               *)
(*                                                                         *)
(* Abstractions.  A Redis list is the number of times each id is on it:    *)
(* no operation modelled here reads the order, which decides only who is   *)
(* served first.  A sorted-set entry keeps of its score whether its time   *)
(* has come.  An envelope keeps the fields that the transitions read or    *)
(* write; args, error text and time stamps are folded into gen (which      *)
(* enqueue wrote it) and started.                                          *)
(***************************************************************************)
EXTENDS Naturals, Sequences

CONSTANTS
    Ids,         \* job ids
    Queues,      \* queue keys
    Procs,       \* process identities (one uuid per Storage instance)
    Lasting,     \* ids whose job type keeps meta.resurrect = true
    DeadLimit,   \* dead_job_limit, 0 for unlimited retention
    None         \* Redis nil: no payload, no id, no process

ASSUME StoreAssumption ==
    /\ Queues \cap Procs = {}
    /\ Lasting \subseteq Ids
    /\ DeadLimit \in Nat
    /\ None \notin Ids \cup Procs
    /\ None \notin [queue : Queues, gen : Nat, retries : Nat, started : BOOLEAN]

VARIABLES
    jobs,    \* the jobs hash: id -> envelope
    list,    \* the queue lists and the processing list of each process
    zset,    \* the schedule and retry sorted sets
    dead     \* the dead list, newest first

storeVars == <<jobs, list, zset, dead>>

Envelope == [queue : Queues, gen : Nat, retries : Nat, started : BOOLEAN]
Lists    == Queues \cup Procs
Zsets    == {"schedule", "retry"}
Entry    == {"none", "wait", "due"}

DeadEntry == [id : Ids, env : Envelope]

StoreType ==
    /\ jobs \in [Ids -> Envelope \cup {None}]
    /\ list \in [Lists -> [Ids -> Nat]]
    /\ zset \in [Zsets -> [Ids -> Entry]]
    /\ dead \in Seq(DeadEntry)

StoreInit ==
    /\ jobs = [i \in Ids |-> None]
    /\ list = [k \in Lists |-> [i \in Ids |-> 0]]
    /\ zset = [z \in Zsets |-> [i \in Ids |-> "none"]]
    /\ dead = <<>>

-----------------------------------------------------------------------------
(* List commands: LPUSH, LREM 1 (the first occurrence, if any) and a move  *)
(* of an id that is known to be on list k.                                 *)

Pushed(k, id)    == [list EXCEPT ![k][id] = @ + 1]
Removed(k, id)   == [list EXCEPT ![k][id] = IF @ > 0 THEN @ - 1 ELSE @]
Moved(k, l, id)  == [list EXCEPT ![k][id] = @ - 1, ![l][id] = @ + 1]

(* LTRIM 0 limit-1, which finish_dead.lua skips when the limit is 0.       *)
LTRIM(s) == IF DeadLimit > 0 /\ Len(s) > DeadLimit THEN SubSeq(s, 1, DeadLimit) ELSE s

(* JobEnvelope::new: what an enqueue of occurrence g stores.               *)
NewEnvelope(q, g) == [queue |-> q, gen |-> g, retries |-> 0, started |-> FALSE]

(* JobEnvelope::with_retries_incremented. *)
WithRetriesIncremented(env) ==
    [queue |-> env.queue, gen |-> env.gen, retries |-> env.retries + 1, started |-> FALSE]

-----------------------------------------------------------------------------
(* HSET alone: the first command of an ordinary enqueue's pipeline, and    *)
(* set_started_at_batch.  The write is unconditional.                      *)
HSet(id, env) ==
    /\ jobs' = [jobs EXCEPT ![id] = env]
    /\ UNCHANGED <<list, zset, dead>>

(* LPUSH or ZADD alone: the second command of the ordinary pipeline.       *)
LPush(q, id) ==
    /\ list' = Pushed(q, id)
    /\ UNCHANGED <<jobs, zset, dead>>

ZAdd(z, id) ==
    /\ zset' = [zset EXCEPT ![z][id] = "wait"]
    /\ UNCHANGED <<jobs, list, dead>>

(* enqueue.lua for one unique job whose conflict strategy is Skip and that *)
(* is not stored yet: payload and destination are written together.        *)
EnqueueQueue(id, env) ==
    /\ jobs' = [jobs EXCEPT ![id] = env]
    /\ list' = Pushed(env.queue, id)
    /\ UNCHANGED <<zset, dead>>

EnqueueSchedule(id, env) ==
    /\ jobs' = [jobs EXCEPT ![id] = env]
    /\ zset' = [zset EXCEPT !["schedule"][id] = "wait"]
    /\ UNCHANGED <<list, dead>>

(* LMOVE queue RIGHT processing LEFT: the claim.                           *)
Claim(q, p, id) ==
    /\ list[q][id] > 0
    /\ list' = Moved(q, p, id)
    /\ UNCHANGED <<jobs, zset, dead>>

(* finish_success.lua *)
FinishSuccess(p, id) ==
    /\ jobs' = [jobs EXCEPT ![id] = None]
    /\ list' = Removed(p, id)
    /\ UNCHANGED <<zset, dead>>

(* finish_dead.lua *)
FinishDead(p, id, env) ==
    /\ dead' = LTRIM(<<[id |-> id, env |-> env]>> \o dead)
    /\ jobs' = [jobs EXCEPT ![id] = None]
    /\ list' = Removed(p, id)
    /\ UNCHANGED zset

(* Mutant of RetryFailed: without the LREM.                                *)
RetryFailedKeepsClaim(p, id, env) ==
    /\ jobs' = [jobs EXCEPT ![id] = env]
    /\ zset' = [zset EXCEPT !["retry"][id] = "wait"]
    /\ UNCHANGED <<list, dead>>

(* retry_failed.lua; the delay is positive or zero, time decides.          *)
RetryFailed(p, id, env) ==
    /\ jobs' = [jobs EXCEPT ![id] = env]
    /\ zset' = [zset EXCEPT !["retry"][id] = "wait"]
    /\ list' = Removed(p, id)
    /\ UNCHANGED dead

(* LREM processing 1: retry_in when the payload is gone.                   *)
ReleaseClaim(p, id) ==
    /\ list' = Removed(p, id)
    /\ UNCHANGED <<jobs, zset, dead>>

(* Mutants of PromoteScheduled: the ZREM's result is ignored, and neither  *)
(* score nor payload is compared.                                          *)
PromoteScheduledTwice(z, id, seen) ==
    IF jobs[id] # seen
    THEN UNCHANGED storeVars
    ELSE /\ zset' = [zset EXCEPT ![z][id] = "none"]
         /\ list' = IF seen = None THEN list ELSE Pushed(seen.queue, id)
         /\ UNCHANGED <<jobs, dead>>

PromoteScheduledBlindly(z, id, seen) ==
    /\ zset' = [zset EXCEPT ![z][id] = "none"]
    /\ list' = IF seen = None THEN list ELSE Pushed(seen.queue, id)
    /\ UNCHANGED <<jobs, dead>>

(* promote_scheduled.lua: seen is the payload read before the script, and  *)
(* the caller read the entry as due.  A changed score or payload moves     *)
(* nothing.                                                                *)
PromoteScheduled(z, id, seen) ==
    IF zset[z][id] # "due" \/ jobs[id] # seen
    THEN UNCHANGED storeVars
    ELSE /\ zset' = [zset EXCEPT ![z][id] = "none"]
         /\ list' = IF seen = None THEN list ELSE Pushed(seen.queue, id)
         /\ UNCHANGED <<jobs, dead>>

(* resurrect_claim.lua on the claim of process p.                          *)
ResurrectClaim(p, id, seen) ==
    IF list[p][id] = 0 \/ jobs[id] # seen
    THEN UNCHANGED storeVars
    ELSE /\ list' = IF seen # None /\ id \in Lasting
                    THEN Moved(p, seen.queue, id)
                    ELSE Removed(p, id)
         /\ jobs' = IF seen = None \/ id \in Lasting THEN jobs
                    ELSE [jobs EXCEPT ![id] = None]
         /\ UNCHANGED <<zset, dead>>

(* The MULTI/EXEC of delete_job issued by process p, or by a client that   *)
(* runs no workers (None); seen is the payload read before it, which only  *)
(* tells the queue to clean.                                               *)
DeleteJob(p, id, seen) ==
    /\ jobs' = [jobs EXCEPT ![id] = None]
    /\ zset' = [z \in Zsets |-> [zset[z] EXCEPT ![id] = "none"]]
    /\ list' = [k \in Lists |-> IF k = p \/ (seen # None /\ k = seen.queue)
                                THEN [list[k] EXCEPT ![id] = 0] ELSE list[k]]
    /\ UNCHANGED dead

(* Time passes: the score of an entry is no longer in the future.          *)
ComeDue(z, id) ==
    /\ zset[z][id] = "wait"
    /\ zset' = [zset EXCEPT ![z][id] = "due"]
    /\ UNCHANGED <<jobs, list, dead>>
=============================================================================
