--------------------------- MODULE ResultCollector ---------------------------
(***************************************************************************)
(* result_collector.rs: a task of every coordinator receives the results   *)
(* of executions, counts them in memory and adds the counts to Redis when  *)
(* a timer fires and before it exits.  A flush is a pipeline of HINCRBY    *)
(* commands that is not a transaction: when it fails, a part of it may     *)
(* have been executed, and the counts stay in memory for the next flush.   *)
(***************************************************************************)
EXTENDS Naturals, Sequences, FiniteSets, FiniteSetsExt

CONSTANTS
    Collectors,    \* one for each coordinator
    Queues,        \* queue keys
    CollectorOf,   \* the collector that receives the results of a queue
    JobCounts,     \* job_count of results: a batch is one result
    ExitWhen,      \* exit_when_processed, zero for none
    Tolerance,     \* redis_failure_tolerance
    MaxResults,    \* bound on the results
    MaxFaults,     \* bound on the failed commands
    MaxEvents,     \* bound on both together
    MaxLength      \* bound on the length of a queue

Kinds == {"success", "panicked", "failed"}
(* The order of the commands in flush_result_stats.                        *)
StatOrder == <<"processed", "succeeded", "panicked", "failed">>
StatNames == {"processed", "succeeded", "panicked", "failed"}
Counts == [StatNames -> Nat]
NoCounts == [s \in StatNames |-> 0]

(* What is assumed of the constants.                                       *)
CollectorAssumption ==
    /\ CollectorOf \in [Queues -> Collectors] /\ IsFiniteSet(Queues)
    /\ JobCounts \subseteq Nat \ {0} /\ Tolerance \in Nat \ {0}
    /\ {ExitWhen, MaxResults, MaxFaults, MaxEvents, MaxLength} \subseteq Nat

VARIABLES
    channel,    \* the results on their way to a collector
    open,       \* whether a sender of the channel is left
    pc,         \* the point a collector has reached
    metrics,    \* JobMetricsBuffer, as the number of executions in it
    pending,    \* pending_stats, by queue
    active,     \* active_queues
    stats,      \* the counts of the whole process, behind a mutex
    stored,     \* the counters in Redis, by queue
    snapshot,   \* its length as last written to the statistics
    cancel,     \* the cancel token of the runtime
    failures,   \* consecutive_redis_failures
    received,   \* history: the results counted, by queue
    extra,      \* history: what failed flushes have executed all the same
    gaveUp,     \* history: collectors whose last flush failed
    results, faults

redis == <<stored, snapshot>>
memory == <<metrics, pending, active, stats, received>>
vars == <<channel, open, pc, metrics, pending, active, stats, stored, snapshot,
          cancel, failures, received, extra, gaveUp, results, faults>>

Init ==
    /\ channel = [c \in Collectors |-> <<>>]
    /\ open = [c \in Collectors |-> TRUE]
    /\ pc = [c \in Collectors |-> "running"]
    /\ metrics = [c \in Collectors |-> 0]
    /\ pending = [q \in Queues |-> NoCounts]
    /\ active = [c \in Collectors |-> {}]
    /\ stats = NoCounts
    /\ stored = [q \in Queues |-> NoCounts]
    /\ snapshot = [q \in Queues |-> 0]
    /\ cancel = FALSE /\ failures = 0
    /\ received = [q \in Queues |-> NoCounts] /\ extra = [q \in Queues |-> NoCounts]
    /\ gaveUp = {} /\ results = 0 /\ faults = 0

QueuesOf(c) == {q \in Queues : CollectorOf[q] = c}
Add(x, y) == [s \in StatNames |-> x[s] + y[s]]

-----------------------------------------------------------------------------
(* QueueResultStats::record, and the same counts of the process.           *)
Record(counts, r) ==
    Add(counts, [s \in StatNames |->
        IF s = "processed" \/ (s = "succeeded" /\ r.kind = "success")
           \/ (s = "panicked" /\ r.kind = "panicked") \/ (s = "failed" /\ r.kind # "success")
        THEN r.n ELSE 0])

(* An execution ends and reports.                                          *)
Send(q) ==
    LET c == CollectorOf[q] IN
    /\ results < MaxResults /\ results + faults < MaxEvents /\ open[c] /\ results' = results + 1
    /\ \E k \in Kinds, n \in JobCounts :
          channel' = [channel EXCEPT ![c] = Append(@, [queue |-> q, kind |-> k, n |-> n])]
    /\ UNCHANGED <<open, pc, memory, redis, cancel, failures, extra, gaveUp, faults>>

(* The cancelled coordinator waits for its executions and then drops the   *)
(* sender.                                                                 *)
Hangup(c) ==
    /\ cancel /\ open[c]
    /\ open' = [open EXCEPT ![c] = FALSE]
    /\ UNCHANGED <<channel, pc, memory, redis, cancel, failures, extra, gaveUp, results, faults>>

(* A signal cancels the runtime.                                           *)
Cancel ==
    /\ ~cancel /\ cancel' = TRUE
    /\ UNCHANGED <<channel, open, pc, memory, redis, failures, extra, gaveUp, results, faults>>

Activated(c, q) == active[c] \cup {q}

Enough(processed) == ExitWhen # 0 /\ processed >= ExitWhen

(* rx.recv(): the metrics and update_stats.                                *)
Receive(c) ==
    /\ pc[c] = "running" /\ channel[c] # <<>>
    /\ LET r == Head(channel[c]) IN
       /\ pending' = [pending EXCEPT ![r.queue] = Record(@, r)]
       /\ received' = [received EXCEPT ![r.queue] = Record(@, r)]
       /\ stats' = Record(stats, r)
       /\ active' = [active EXCEPT ![c] = Activated(c, r.queue)]
    /\ metrics' = [metrics EXCEPT ![c] = @ + 1]
    /\ channel' = [channel EXCEPT ![c] = Tail(@)]
    /\ cancel' = (cancel \/ Enough(stats'["processed"]))
    /\ UNCHANGED <<open, pc, redis, failures, extra, gaveUp, results, faults>>

-----------------------------------------------------------------------------
(* The three flushes happen on a timer while the collector runs, and one   *)
(* after the other once the channel is closed and empty.                   *)
NextStage == [metrics |-> "stats", stats |-> "lengths", lengths |-> "ended"]

Timer(c) == pc[c] = "running"
Leaves(c, stage) == pc' = IF pc[c] = stage THEN [pc EXCEPT ![c] = NextStage[stage]] ELSE pc

(* None: the channel is closed and everything in it was received.          *)
Exit(c) ==
    /\ pc[c] = "running" /\ ~open[c] /\ channel[c] = <<>>
    /\ pc' = [pc EXCEPT ![c] = "metrics"]
    /\ UNCHANGED <<channel, open, memory, redis, cancel, failures, extra, gaveUp, results, faults>>

(* track_redis_result: an answer resets the counter of failures ...        *)
Answered == failures' = 0

(* ... and a failure is tolerated: the collector goes on, in the exit path *)
(* too, where nobody will try again; or it ends the collector.             *)
Failed(c, stage) ==
    /\ faults < MaxFaults /\ results + faults < MaxEvents /\ faults' = faults + 1
    /\ failures' = failures + 1
    /\ IF failures' >= Tolerance THEN pc' = [pc EXCEPT ![c] = "failed"] ELSE Leaves(c, stage)
    /\ gaveUp' = IF pc[c] = stage \/ failures' >= Tolerance THEN gaveUp \cup {c} ELSE gaveUp

FlushMetrics(c) ==
    /\ Timer(c) \/ pc[c] = "metrics"
    /\ IF metrics[c] = 0 THEN UNCHANGED <<metrics, failures>>
       ELSE metrics' = [metrics EXCEPT ![c] = 0] /\ Answered
    /\ Leaves(c, "metrics")
    /\ UNCHANGED <<channel, open, pending, active, stats, received, stored, snapshot, cancel,
                   extra, gaveUp, results, faults>>

(* A failed pipeline of metrics; the buffer is kept.                       *)
FlushMetricsFails(c) ==
    /\ Timer(c) \/ pc[c] = "metrics"
    /\ metrics[c] > 0 /\ Failed(c, "metrics")
    /\ UNCHANGED <<channel, open, memory, stored, snapshot, cancel, extra, results>>

(* What the first k commands for a queue add to its counters.              *)
Executed(q, k) ==
    [s \in StatNames |-> IF \E i \in 1 .. k : StatOrder[i] = s THEN pending[q][s] ELSE 0]

Buffered(c) == {q \in QueuesOf(c) : pending[q] # NoCounts}

(* Mutant of FlushStats: the counts are kept for the next flush.           *)
FlushStatsKeeps(c) ==
    /\ Timer(c) \/ pc[c] = "stats"
    /\ stored' = [q \in Queues |-> IF q \in QueuesOf(c) THEN Add(stored[q], pending[q]) ELSE stored[q]]
    /\ IF Buffered(c) = {} THEN UNCHANGED failures ELSE Answered
    /\ Leaves(c, "stats")
    /\ UNCHANGED <<channel, open, memory, snapshot, cancel,
                   extra, gaveUp, results, faults>>

FlushStats(c) ==
    /\ Timer(c) \/ pc[c] = "stats"
    /\ stored' = [q \in Queues |-> IF q \in QueuesOf(c) THEN Add(stored[q], pending[q]) ELSE stored[q]]
    /\ pending' = [q \in Queues |-> IF q \in QueuesOf(c) THEN NoCounts ELSE pending[q]]
    /\ IF Buffered(c) = {} THEN UNCHANGED failures ELSE Answered
    /\ Leaves(c, "stats")
    /\ UNCHANGED <<channel, open, metrics, active, stats, received, snapshot, cancel,
                   extra, gaveUp, results, faults>>

(* The commands come in the order of the stats, queue after queue, and the *)
(* first ones were executed.                                               *)
FlushStatsFails(c) ==
    /\ Timer(c) \/ pc[c] = "stats"
    /\ Buffered(c) # {} /\ Failed(c, "stats")
    /\ \E done \in SUBSET Buffered(c), last \in Buffered(c), k \in 0 .. 4 :
          LET part == [q \in Queues |-> IF q = last THEN Executed(q, k)
                                        ELSE IF q \in done THEN Executed(q, 4) ELSE NoCounts]
          IN  /\ stored' = [q \in Queues |-> Add(stored[q], part[q])]
              /\ extra' = [q \in Queues |-> Add(extra[q], part[q])]
    /\ UNCHANGED <<channel, open, memory, snapshot, cancel, results>>

(* prune_active_queues: a queue found empty is not refreshed any more.     *)
Pruned(c, lengths) == {q \in active[c] : lengths[q] > 0}

(* LLEN of every active queue, and the lengths with their time stamp.      *)
Lengths(c) == [active[c] -> 0 .. MaxLength]
Measured(c, lengths) == [q \in Queues |-> IF q \in active[c] THEN lengths[q] ELSE snapshot[q]]

RefreshLengths(c) ==
    /\ Timer(c) \/ pc[c] = "lengths"
    /\ \E lengths \in Lengths(c) : /\ snapshot' = Measured(c, lengths)
                                   /\ active' = [active EXCEPT ![c] = Pruned(c, lengths)]
    /\ IF active[c] = {} THEN UNCHANGED failures ELSE Answered
    /\ Leaves(c, "lengths")
    /\ UNCHANGED <<channel, open, metrics, pending, stats, received, stored, cancel,
                   extra, gaveUp, results, faults>>

(* The lengths may have been written; none of the queues is pruned.        *)
RefreshLengthsFails(c) ==
    /\ Timer(c) \/ pc[c] = "lengths"
    /\ active[c] # {} /\ Failed(c, "lengths")
    /\ \/ \E lengths \in Lengths(c) : snapshot' = Measured(c, lengths)
       \/ UNCHANGED snapshot
    /\ UNCHANGED <<channel, open, memory, stored, cancel, extra, results>>

Flush(c) == FlushMetrics(c) \/ FlushStats(c) \/ RefreshLengths(c)

Fails(c) == FlushMetricsFails(c) \/ FlushStatsFails(c) \/ RefreshLengthsFails(c)

Next ==
    \/ Cancel
    \/ \E q \in Queues : Send(q)
    \/ \E c \in Collectors : Hangup(c) \/ Receive(c) \/ Exit(c) \/ Flush(c) \/ Fails(c)

Spec == Init /\ [][Next]_vars

(* The coordinator ends its executions, and the collector runs.            *)
FairSpec ==
    /\ Spec
    /\ \A c \in Collectors : /\ WF_vars(Hangup(c)) /\ WF_vars(Receive(c)) /\ WF_vars(Exit(c))
                             /\ WF_vars(pc[c] # "running" /\ Flush(c))

-----------------------------------------------------------------------------
(* Type correctness.                                                       *)
TypeOK ==
    /\ pc \in [Collectors -> {"running", "metrics", "stats", "lengths", "ended", "failed"}]
    /\ \A q \in Queues : {pending[q], stored[q], received[q], extra[q]} \subseteq Counts
    /\ \A c \in Collectors : active[c] \subseteq QueuesOf(c)

(* Every result that was received is in memory or in Redis, once, but for  *)
(* what a failed flush has executed: the counters of a queue are never     *)
(* short, and too high by no more than that.                               *)
CountsAccounted ==
    \A q \in Queues : Add(stored[q], pending[q]) = Add(received[q], extra[q])

(* A collector that ended has left nothing in memory, unless its last      *)
(* flush failed.                                                           *)
ExitFlushesAll ==
    \A c \in Collectors \ gaveUp :
        pc[c] = "ended" => metrics[c] = 0 /\ Buffered(c) = {} /\ channel[c] = <<>>

(* The dashboard never sees more outcomes than processed jobs, even in the *)
(* middle of a flush that failed: the total is written first.              *)
OutcomesWithinTotal ==
    \A q \in Queues : stored[q]["succeeded"] + stored[q]["failed"] <= stored[q]["processed"]

(* The counts of the process agree with the queues': every result is one   *)
(* of success or failure, and a panic is a failure.                        *)
ProcessAddsUp ==
    /\ \A s \in StatNames : stats[s] = MapThenSumSet(LAMBDA q : received[q][s], Queues)
    /\ stats["succeeded"] + stats["failed"] = stats["processed"]
    /\ stats["panicked"] <= stats["failed"]

(* A length that the dashboard shows as not zero is refreshed again: its   *)
(* queue stays active as long as the collector runs.                       *)
ShownIsRefreshed ==
    \A q \in Queues : snapshot[q] > 0 /\ pc[CollectorOf[q]] = "running" => q \in active[CollectorOf[q]]

(* A process that has processed exit_when_processed jobs, or was told to   *)
(* stop, ends its collectors.                                              *)
ToldToEnd == cancel \/ (ExitWhen # 0 /\ stats["processed"] >= ExitWhen)
AllEnded == \A c \in Collectors : pc[c] \in {"ended", "failed"}

(* The statistics are sound: every result is counted once, in memory or in *)
(* Redis, whatever flush fails; none is left behind at the exit; queues,   *)
(* outcomes and process agree; and no length that is shown goes stale.     *)
StatisticsSound ==
    /\ TypeOK /\ CountsAccounted /\ ExitFlushesAll
    /\ OutcomesWithinTotal /\ ProcessAddsUp /\ ShownIsRefreshed
=============================================================================
