------------------------------ MODULE Drainer -------------------------------
(***************************************************************************)
(* drain(): the jobs of one queue are processed one by one by a process    *)
(* record of its own, which a heartbeat task keeps fresh.  Sweeps of other *)
(* processes put the claims of a record that is missing or stale back on   *)
(* the queue.  The drain may be dropped, or panic, at any await.           *)
(***************************************************************************)
EXTENDS Naturals, Sequences, FiniteSets

CONSTANTS
    Drains,      \* drains of the same queue
    Ids,         \* jobs on it at first, 1 .. n
    MaxFaults,   \* bound on failed calls, drops and panics
    MaxRequeues, \* bound on the ids put back by sweeps
    None

(* What is assumed of the constants.                                       *)
DrainerAssumption == IsFiniteSet(Ids)

VARIABLES
    queue,      \* ids, the next one first
    payload,    \* ids whose envelope is stored
    dead,       \* ids on the dead list
    claims,     \* the processing list of each drain
    record,     \* its process record: "none", "fresh" or "stale"
    beating,    \* whether its heartbeat task runs
    pc, hand,   \* where the drain is, and the id in its hand
    result,     \* "ok" or "error" once drain_queue returned
    missing,    \* ids a drain counted as missing
    stats,      \* processed, succeeded, failed of each drain
    faults, requeues,
    lapsed      \* drains whose heartbeat ended by itself

vars == <<queue, payload, dead, claims, record, beating, pc, hand, result,
          missing, stats, faults, requeues, lapsed>>

store == <<queue, payload, dead>>

Init ==
    /\ queue = [i \in 1 .. Cardinality(Ids) |-> i] /\ payload = Ids /\ dead = {}
    /\ claims = [d \in Drains |-> {}] /\ record = [d \in Drains |-> "none"]
    /\ beating = [d \in Drains |-> FALSE] /\ pc = [d \in Drains |-> "idle"]
    /\ hand = [d \in Drains |-> None] /\ result = [d \in Drains |-> None]
    /\ missing = [d \in Drains |-> {}]
    /\ stats = [d \in Drains |-> [processed |-> 0, succeeded |-> 0, failed |-> 0]]
    /\ faults = 0 /\ requeues = 0 /\ lapsed = {}

Faulty == faults < MaxFaults /\ faults' = faults + 1

-----------------------------------------------------------------------------
(* Mutant of Begin: the first heartbeat comes with the task.               *)
BeginUnregistered(d) ==
    /\ pc[d] = "idle" /\ pc' = [pc EXCEPT ![d] = "next"]
    /\ beating' = [beating EXCEPT ![d] = TRUE]
    /\ UNCHANGED <<record, store, claims, hand, result, missing, stats, faults, requeues, lapsed>>

(* The record is written before anything is claimed.                       *)
Begin(d) ==
    /\ pc[d] = "idle" /\ pc' = [pc EXCEPT ![d] = "next"]
    /\ record' = [record EXCEPT ![d] = "fresh"] /\ beating' = [beating EXCEPT ![d] = TRUE]
    /\ UNCHANGED <<store, claims, hand, result, missing, stats, faults, requeues, lapsed>>

BeginFails(d) ==
    /\ pc[d] = "idle" /\ Faulty /\ pc' = [pc EXCEPT ![d] = "returned"]
    /\ result' = [result EXCEPT ![d] = "error"]
    /\ UNCHANGED <<store, claims, record, beating, hand, missing, stats, requeues, lapsed>>

(* The ping loop gives up after too many failures; the drain goes on.      *)
BeatGivesUp(d) ==
    /\ beating[d] /\ Faulty /\ beating' = [beating EXCEPT ![d] = FALSE]
    /\ lapsed' = lapsed \union {d}
    /\ UNCHANGED <<store, claims, record, pc, hand, result, missing, stats, requeues>>

(* dead_process_threshold passes without a heartbeat; a loop that pings    *)
(* keeps the record fresh.                                                 *)
Expire(d) ==
    /\ ~beating[d] /\ record[d] = "fresh" /\ record' = [record EXCEPT ![d] = "stale"]
    /\ UNCHANGED <<store, claims, beating, pc, hand, result, missing, stats, faults, requeues, lapsed>>

-----------------------------------------------------------------------------
Dequeue(d) ==
    /\ pc[d] = "next" /\ queue # <<>>
    /\ hand' = [hand EXCEPT ![d] = Head(queue)] /\ queue' = Tail(queue)
    /\ claims' = [claims EXCEPT ![d] = @ \union {Head(queue)}]
    /\ pc' = [pc EXCEPT ![d] = "load"]
    /\ UNCHANGED <<payload, dead, record, beating, result, missing, stats, faults, requeues, lapsed>>

Empty(d) ==
    /\ pc[d] = "next" /\ queue = <<>>
    /\ pc' = [pc EXCEPT ![d] = "stop"] /\ result' = [result EXCEPT ![d] = "ok"]
    /\ UNCHANGED <<store, claims, record, beating, hand, missing, stats, faults, requeues, lapsed>>

Load(d) ==
    /\ pc[d] = "load" /\ hand[d] \in payload
    /\ pc' = [pc EXCEPT ![d] = "process"]
    /\ UNCHANGED <<store, claims, record, beating, hand, result, missing, stats, faults,
                   requeues, lapsed>>

(* A job without payload is counted; its claim is left to the sweeps.      *)
Missing(d) ==
    /\ pc[d] = "load" /\ hand[d] \notin payload
    /\ missing' = [missing EXCEPT ![d] = @ \union {hand[d]}]
    /\ stats' = [stats EXCEPT ![d].processed = @ + 1]
    /\ pc' = [pc EXCEPT ![d] = "next"] /\ hand' = [hand EXCEPT ![d] = None]
    /\ UNCHANGED <<store, claims, record, beating, result, faults, requeues, lapsed>>

Count(d, outcome) ==
    /\ stats' = IF outcome = "ok"
                THEN [stats EXCEPT ![d].processed = @ + 1, ![d].succeeded = @ + 1]
                ELSE [stats EXCEPT ![d].processed = @ + 1, ![d].failed = @ + 1]
    /\ claims' = [claims EXCEPT ![d] = @ \ {hand[d]}]
    /\ payload' = payload \ {hand[d]}
    /\ pc' = [pc EXCEPT ![d] = "next"] /\ hand' = [hand EXCEPT ![d] = None]
    /\ UNCHANGED <<queue, record, beating, result, missing, faults, requeues, lapsed>>

Succeed(d) == pc[d] = "process" /\ Count(d, "ok") /\ UNCHANGED dead

(* A drain does not retry: what fails is killed.                           *)
Kill(d) == pc[d] = "process" /\ Count(d, "failed") /\ dead' = dead \union {hand[d]}

(* A call to Redis fails, or the job cannot be built: drain_queue returns  *)
(* with the claim in its processing list.                                  *)
GiveUp(d) ==
    /\ pc[d] \in {"next", "load", "process"} /\ Faulty
    /\ pc' = [pc EXCEPT ![d] = "stop"] /\ result' = [result EXCEPT ![d] = "error"]
    /\ hand' = [hand EXCEPT ![d] = None]
    /\ UNCHANGED <<store, claims, record, beating, missing, stats, requeues, lapsed>>

(* The transition of a processed job is applied and its answer lost.       *)
Unanswered(d) ==
    /\ pc[d] = "process" /\ Faulty /\ payload' = payload \ {hand[d]}
    /\ \E k \in BOOLEAN : dead' = IF k THEN dead \union {hand[d]} ELSE dead
    /\ claims' = [claims EXCEPT ![d] = @ \ {hand[d]}] /\ hand' = [hand EXCEPT ![d] = None]
    /\ pc' = [pc EXCEPT ![d] = "stop"] /\ result' = [result EXCEPT ![d] = "error"]
    /\ UNCHANGED <<queue, record, beating, missing, stats, requeues, lapsed>>

(* The heartbeat is stopped and awaited before the record is dropped.      *)
Stop(d) ==
    /\ pc[d] = "stop" /\ pc' = [pc EXCEPT ![d] = "cleanup"]
    /\ beating' = [beating EXCEPT ![d] = FALSE]
    /\ UNCHANGED <<store, claims, record, hand, result, missing, stats, faults, requeues, lapsed>>

SelfCleanup(d) ==
    /\ pc[d] = "cleanup" /\ pc' = [pc EXCEPT ![d] = "returned"]
    /\ \/ record' = [record EXCEPT ![d] = "none"] /\ UNCHANGED <<faults, result>>
       \/ Faulty /\ result' = [result EXCEPT ![d] = "error"] /\ UNCHANGED record
    /\ UNCHANGED <<store, claims, beating, hand, missing, stats, requeues, lapsed>>

(* Mutant of Drop: no guard stops the heartbeat.                           *)
DropUnguarded(d) ==
    /\ pc[d] \in {"next", "load", "process", "stop", "cleanup"} /\ Faulty
    /\ pc' = [pc EXCEPT ![d] = "dropped"] /\ hand' = [hand EXCEPT ![d] = None]
    /\ UNCHANGED <<store, claims, record, beating, result, missing, stats, requeues, lapsed>>

(* The future is dropped, or the worker panics: the guard stops the        *)
(* heartbeat, and nothing else is cleaned up.                              *)
Drop(d) ==
    /\ pc[d] \in {"next", "load", "process", "stop", "cleanup"} /\ Faulty
    /\ pc' = [pc EXCEPT ![d] = "dropped"] /\ hand' = [hand EXCEPT ![d] = None]
    /\ beating' = [beating EXCEPT ![d] = FALSE]
    /\ UNCHANGED <<store, claims, record, result, missing, stats, requeues, lapsed>>

-----------------------------------------------------------------------------
(* A sweep of another process: the claims of a drain without a fresh       *)
(* record go back to the queue, or away when the payload is gone.          *)
Sweep(d) ==
    /\ claims[d] # {} /\ record[d] # "fresh"
    /\ \E i \in claims[d] :
          /\ claims' = [claims EXCEPT ![d] = @ \ {i}]
          /\ IF i \in payload THEN /\ requeues < MaxRequeues /\ requeues' = requeues + 1
                                   /\ queue' = Append(queue, i)
             ELSE UNCHANGED <<queue, requeues>>
    /\ UNCHANGED <<payload, dead, record, beating, pc, hand, result, missing, stats, faults, lapsed>>

(* The dashboard deletes a job.                                            *)
Delete(i) ==
    /\ i \in payload /\ Faulty /\ payload' = payload \ {i}
    /\ UNCHANGED <<queue, dead, claims, record, beating, pc, hand, result, missing, stats,
                   requeues, lapsed>>

Work(d) ==
    Dequeue(d) \/ Empty(d) \/ Load(d) \/ Missing(d) \/ Succeed(d) \/ Kill(d)
    \/ Stop(d) \/ SelfCleanup(d)

Next ==
    \/ \E d \in Drains : Work(d) \/ Begin(d) \/ BeginFails(d) \/ BeatGivesUp(d) \/ Expire(d)
                         \/ GiveUp(d) \/ Unanswered(d) \/ Drop(d) \/ Sweep(d)
    \/ \E i \in Ids : Delete(i)

Spec == Init /\ [][Next]_vars

(* The drains, the passing of time and the sweeps of a running worker go on. *)
FairSpec ==
    Spec /\ \A d \in Drains : WF_vars(Work(d)) /\ WF_vars(Expire(d)) /\ WF_vars(Sweep(d))

-----------------------------------------------------------------------------
(* Two drains process the same job only after the heartbeat of one of them *)
(* gave up: neither starting, nor stopping, nor being dropped hands a job  *)
(* that is being processed to another drain.                               *)
DrainsExclusive ==
    \A d, e \in Drains :
        d # e /\ pc[d] = "process" /\ pc[e] = "process" /\ hand[d] = hand[e]
            => {d, e} \intersect lapsed # {}

(* A drain that returns Ok settled every job it took, except for those it  *)
(* reported as missing.                                                    *)
OkMeansDrained ==
    \A d \in Drains :
        pc[d] \in {"cleanup", "returned"} /\ result[d] = "ok" =>
            /\ claims[d] \subseteq missing[d]
            /\ stats[d].processed >= stats[d].succeeded + stats[d].failed + Cardinality(missing[d])

(* However a drain ends, by an error, a panic or being dropped, its claims *)
(* are recovered: none stays on the list of a drain that is gone.          *)
NoClaimLeft == \A d \in Drains : pc[d] \in {"returned", "dropped"} => claims[d] = {}

(* A drain has its jobs alone while its heartbeat lives, and returns Ok    *)
(* only when it settled all it took.                                       *)
DrainSound == DrainsExclusive /\ OkMeansDrained
=============================================================================
