------------------------------ MODULE Metrics ------------------------------
(***************************************************************************)
(* metrics.rs: execution metrics per minute, worker and queue.  Results    *)
(* are counted in a buffer under the minute they are received in, flushed  *)
(* to one Redis hash per minute that expires after the retention, and      *)
(* queried over a window of minutes.  The queries are checked against the  *)
(* log of the results that were flushed.                                   *)
(*                                                                         *)
(* A minute is TicksPerMinute ticks, so that a flush happens somewhere in  *)
(* a minute.  u64 counters are naturals; the histogram saturates.          *)
(***************************************************************************)
EXTENDS Naturals, Sequences, FiniteSets, FiniteSetsExt

CONSTANTS
    Workers,         \* metric identities
    Queues,          \* queue keys
    Bounds,          \* upper bounds of the histogram buckets but the last
    Durations,       \* execution times
    JobCounts,       \* jobs of an execution
    TicksPerMinute,
    MaxMinutes,      \* MAX_METRIC_MINUTES, also the retention
    DefaultMinutes,  \* DEFAULT_METRIC_MINUTES
    BucketCap,       \* the largest value of a histogram field
    LastTick,        \* bound on the clock
    MaxResults       \* bound on the results

Kinds == {"success", "panicked", "failed"}
Fields == {"p", "f", "pn", "xs", "xf", "xpn", "ms"}
QueueFields == {"p", "s", "f"}
Minutes == 0 .. LastTick \div TicksPerMinute
Buckets == 1 .. Len(Bounds) + 1
Zero == [x \in Fields |-> 0]

VARIABLES
    clock,       \* in ticks
    buffer,      \* JobMetricsBuffer: the results received since the last flush
    counters,    \* the hash of each minute: worker and field -> count
    queued,      \* the queue counters of each minute
    histogram,   \* per minute and worker
    expires,     \* when the keys of a minute expire
    log,         \* history: the results flushed, with their minutes
    results      \* how many results there were

vars == <<clock, buffer, counters, queued, histogram, expires, log, results>>

Minute == clock \div TicksPerMinute

(* A release without execution counts may have written minute 0.           *)
Legacy(p) == [x \in Fields |-> IF x = "p" THEN p ELSE 0]

Init ==
    /\ clock = 0 /\ buffer = <<>> /\ log = <<>> /\ results = 0
    /\ \E w \in Workers, p \in {0, 1} :
          counters = [m \in Minutes |-> [v \in Workers |-> IF m = 0 /\ v = w THEN Legacy(p) ELSE Zero]]
    /\ queued = [m \in Minutes |-> [q \in Queues |-> [x \in QueueFields |-> 0]]]
    /\ histogram = [m \in Minutes |-> [w \in Workers |-> [b \in Buckets |-> 0]]]
    /\ expires = [m \in Minutes |-> TicksPerMinute * MaxMinutes]

-----------------------------------------------------------------------------
(* What one result adds: the jobs of an execution and the execution.       *)
Increments(r) ==
    [x \in Fields |->
        CASE x = "p" -> r.n
          [] x = "f" -> IF r.kind = "success" THEN 0 ELSE r.n
          [] x = "pn" -> IF r.kind = "panicked" THEN r.n ELSE 0
          [] x = "xs" -> IF r.kind = "success" THEN 1 ELSE 0
          [] x = "xf" -> IF r.kind = "success" THEN 0 ELSE 1
          [] x = "xpn" -> IF r.kind = "panicked" THEN 1 ELSE 0
          [] x = "ms" -> r.ms]

QueueIncrements(r) ==
    [x \in QueueFields |-> IF x = "p" \/ (x = "s" <=> r.kind = "success") THEN r.n ELSE 0]

(* histogram_bucket_index: the first bound above the duration.             *)
BucketIndex(ms) == Min({b \in 1 .. Len(Bounds) : ms < Bounds[b]} \cup {Len(Bounds) + 1})

Sum(S, Op(_)) == MapThenSumSet(Op, S)

(* JobMetricsBuffer::record, which looks at the time of successes only.    *)
Record ==
    /\ results < MaxResults /\ results' = results + 1
    /\ \E w \in Workers, q \in Queues, k \in Kinds, n \in JobCounts :
       \E ms \in IF k = "success" THEN Durations ELSE {0} :
          buffer' = Append(buffer, [minute |-> Minute, worker |-> w, queue |-> q,
                                    kind |-> k, n |-> n, ms |-> ms])
    /\ UNCHANGED <<clock, counters, queued, histogram, expires, log>>

Added(old, indices, Inc(_)) ==
    [x \in DOMAIN old |-> old[x] + Sum(indices, LAMBDA i : Inc(buffer[i])[x])]

Saturated(n) == Min({n, BucketCap})

HistogramIncrements(r) ==
    [b \in Buckets |-> IF r.kind = "success" /\ BucketIndex(r.ms) = b THEN 1 ELSE 0]

FlushMinute(i) == buffer[i].minute

(* flush_job_metrics: HINCRBY and BITFIELD INCRBY with saturation, and a   *)
(* new expiry for every key touched.                                       *)
Flush ==
    /\ buffer # <<>>
    /\ LET At(m) == {i \in 1 .. Len(buffer) : FlushMinute(i) = m}
       IN  /\ counters' = [m \in Minutes |-> [w \in Workers |->
                  Added(counters[m][w], {i \in At(m) : buffer[i].worker = w}, Increments)]]
           /\ queued' = [m \in Minutes |-> [q \in Queues |->
                  Added(queued[m][q], {i \in At(m) : buffer[i].queue = q}, QueueIncrements)]]
           /\ histogram' = [m \in Minutes |-> [w \in Workers |-> [b \in Buckets |->
                  Saturated(Added(histogram[m][w], {i \in At(m) : buffer[i].worker = w},
                                  HistogramIncrements)[b])]]]
           /\ expires' = [m \in Minutes |-> IF At(m) = {} THEN expires[m]
                                            ELSE clock + TicksPerMinute * MaxMinutes]
    /\ log' = log \o buffer /\ buffer' = <<>>
    /\ UNCHANGED <<clock, results>>

(* Time passes, and keys expire.                                           *)
Tick ==
    /\ clock < LastTick /\ clock' = clock + 1
    /\ LET Kept(m) == clock' < expires[m]
       IN  /\ counters' = [m \in Minutes |-> IF Kept(m) THEN counters[m] ELSE [w \in Workers |-> Zero]]
           /\ queued' = [m \in Minutes |-> IF Kept(m) THEN queued[m]
                                           ELSE [q \in Queues |-> [x \in QueueFields |-> 0]]]
           /\ histogram' = [m \in Minutes |-> IF Kept(m) THEN histogram[m]
                                              ELSE [w \in Workers |-> [b \in Buckets |-> 0]]]
    /\ UNCHANGED <<buffer, expires, log, results>>

Next == Record \/ Flush \/ Tick

Spec == Init /\ [][Next]_vars

-----------------------------------------------------------------------------
(* The queries.                                                            *)
EffectiveMinutes(n) == IF n = 0 THEN DefaultMinutes ELSE Min({n, MaxMinutes})

MetricMinutes(n) == {m \in Minutes : m <= Minute /\ m + EffectiveMinutes(n) > Minute}

Monus(x, y) == IF x > y THEN x - y ELSE 0

(* finalize: the successes, and the executions of legacy minutes.          *)
Finalize(c) ==
    LET ok == Monus(c["p"], c["f"])
        legacy == c["xs"] + c["xf"] + c["xpn"] = 0
    IN  [succeeded |-> ok, p |-> c["p"], f |-> c["f"], pn |-> c["pn"],
         xs |-> IF legacy THEN ok ELSE c["xs"],
         xf |-> IF legacy THEN c["f"] ELSE c["xf"],
         xpn |-> IF legacy THEN c["pn"] ELSE c["xpn"], ms |-> c["ms"]]

(* aggregate_counter_hashes over some minutes and some workers.            *)
Total(ms, ws) == [x \in Fields |-> Sum(ms, LAMBDA m : Sum(ws, LAMBDA w : counters[m][w][x]))]
Totals(n) == Finalize(Total(MetricMinutes(n), Workers))
Point(m) == Finalize(Total({m}, Workers))
WorkerTotals(n, w) == Finalize(Total(MetricMinutes(n), {w}))

(* Workers with a field in the window, by time, jobs and name.             *)
Listed(n) == {w \in Workers : \E m \in MetricMinutes(n) : counters[m][w] # Zero}

Histogram(n, w) == [b \in Buckets |-> Sum(MetricMinutes(n), LAMBDA m : histogram[m][w][b])]

(* aggregate_queue_counter_hashes.                                         *)
QueueTotals(n, q) == [x \in QueueFields |-> Sum(MetricMinutes(n), LAMBDA m : queued[m][q][x])]

-----------------------------------------------------------------------------
(* The default window, and more than there is.                             *)
Queries == {0, MaxMinutes + 1}

(* Type correctness.                                                       *)
TypeOK ==
    /\ clock \in 0 .. LastTick /\ results \in 0 .. MaxResults
    /\ histogram \in [Minutes -> [Workers -> [Buckets -> 0 .. BucketCap]]]
    /\ counters \in [Minutes -> [Workers -> [Fields -> Nat]]]

Logged(n) == {i \in 1 .. Len(log) : log[i].minute \in MetricMinutes(n)}
Jobs(S) == Sum(S, LAMBDA i : log[i].n)

(* A query answers for exactly the results of its window, whatever minute  *)
(* they were flushed in: nothing in the window has expired, and batches    *)
(* count their jobs.  (Minute 0 may hold a legacy job more.)               *)
QueriesMatchLog ==
    \A n \in Queries :
        LET in == Logged(n)
            failed == {i \in in : log[i].kind # "success"}
            legacy == IF 0 \in MetricMinutes(n) THEN {0, 1} ELSE {0}
            T == Totals(n)
        IN  /\ T.p - Jobs(in) \in legacy
            /\ T.f = Jobs(failed)
            /\ T.succeeded - Jobs(in \ failed) \in legacy
            /\ in # {} => T.xs = Cardinality(in \ failed) /\ T.xf = Cardinality(failed)
            /\ \A q \in Queues : QueueTotals(n, q)["p"] = Jobs({i \in in : log[i].queue = q})

(* The points of the series, and the workers, add up to the totals; only   *)
(* the executions of legacy minutes are in the points alone.               *)
SeriesAddUp ==
    \A n \in Queries :
        LET T == Totals(n)
            points == [m \in MetricMinutes(n) |-> Point(m)]
            workers == [w \in Listed(n) |-> WorkerTotals(n, w)]
        IN  /\ \A x \in {"p", "f", "pn", "succeeded", "ms"} :
                  /\ T[x] = Sum(DOMAIN points, LAMBDA m : points[m][x])
                  /\ T[x] = Sum(DOMAIN workers, LAMBDA w : workers[w][x])
            /\ T.xs <= Sum(DOMAIN points, LAMBDA m : points[m].xs)

(* The histogram of a worker holds its successful executions, each in the  *)
(* bucket whose bounds enclose its duration, up to saturation.             *)
HistogramExact ==
    \A n \in Queries, w \in Workers, b \in Buckets :
        LET those == {i \in Logged(n) : /\ log[i].worker = w /\ log[i].kind = "success"
                                        /\ b > 1 => log[i].ms >= Bounds[b - 1]
                                        /\ b <= Len(Bounds) => log[i].ms < Bounds[b]}
        IN  /\ Histogram(n, w)[b] <= Cardinality(those)
            /\ Cardinality(those) <= BucketCap => Histogram(n, w)[b] = Cardinality(those)

(* The metrics answer for exactly what happened in their window.           *)
MetricsExact == TypeOK /\ QueriesMatchLog /\ SeriesAddUp /\ HistogramExact
=============================================================================
