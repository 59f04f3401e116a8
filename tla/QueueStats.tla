----------------------------- MODULE QueueStats -----------------------------
(***************************************************************************)
(* The statistics of queues that the dashboard, the API and Prometheus     *)
(* show: counters and cached lengths from one hash, live lengths and       *)
(* latencies, grouped by the base of dynamic queues (queue_stats.rs,       *)
(* build_queue_stats and stats_with_rates of storage_internal.rs, and the  *)
(* rates of stats.rs), while jobs come and go.                             *)
(***************************************************************************)
EXTENDS Integers, FiniteSets, FiniteSetsExt

CONSTANTS
    Keys,        \* queue keys
    BaseOf,      \* queue_base of a key: itself unless the key is dynamic
    None,        \* no snapshot, no eta
    Lost,        \* the job at the head has no payload any more
    Ttl,         \* QUEUE_LENGTH_SNAPSHOT_TTL_SECS
    MaxLength,   \* bound on the length of a queue
    MaxAge,      \* bound on ages
    MaxSteps     \* bound on the changes of queues

Dynamic == {k \in Keys : BaseOf[k] # k}

VARIABLES
    length,     \* of the list of a queue
    head,       \* the age of its oldest job
    counters,   \* [processed, failed], in the hash
    snapshot,   \* the cached length and its age, in the hash
    sample,     \* the length sampled at the start of the rate window
    done,       \* jobs processed in the rate window
    drift,      \* history: changes of a queue since its snapshot
    steps

vars == <<length, head, counters, snapshot, sample, done, drift, steps>>

NoCounts == [processed |-> 0, failed |-> 0]

Init ==
    /\ length = [k \in Keys |-> 0] /\ head = [k \in Keys |-> 0]
    /\ counters = [k \in Keys |-> NoCounts]
    /\ snapshot = [k \in Keys |-> None]
    /\ sample = [k \in Keys |-> 0] /\ done = [k \in Keys |-> 0]
    /\ drift = [k \in Keys |-> 0] /\ steps = 0

-----------------------------------------------------------------------------
Changed(k) == steps < MaxSteps /\ steps' = steps + 1 /\ drift' = [drift EXCEPT ![k] = @ + 1]

Push(k) ==
    /\ length[k] < MaxLength /\ Changed(k)
    /\ length' = [length EXCEPT ![k] = @ + 1]
    /\ head' = IF length[k] = 0 THEN [head EXCEPT ![k] = 0] ELSE head
    /\ UNCHANGED <<counters, snapshot, sample, done>>

(* A job is processed; the next one is younger.                            *)
Process(k) ==
    /\ length[k] > 0 /\ Changed(k)
    /\ length' = [length EXCEPT ![k] = @ - 1]
    /\ \E f \in {0, 1} : counters' = [counters EXCEPT ![k].processed = @ + 1, ![k].failed = @ + f]
    /\ done' = [done EXCEPT ![k] = @ + 1]
    /\ \E a \in 0 .. (IF head[k] = Lost THEN MaxAge ELSE head[k]) : head' = [head EXCEPT ![k] = a]
    /\ UNCHANGED <<snapshot, sample>>

(* The payload of the job at the head is deleted.                          *)
Lose(k) ==
    /\ length[k] > 0 /\ head[k] # Lost
    /\ head' = [head EXCEPT ![k] = Lost]
    /\ UNCHANGED <<length, counters, snapshot, sample, done, drift, steps>>

(* A job is deleted by an operator.                                        *)
Remove(k) ==
    /\ length[k] > 0 /\ Changed(k)
    /\ length' = [length EXCEPT ![k] = @ - 1]
    /\ UNCHANGED <<head, counters, snapshot, sample, done>>

(* write_queue_length_stats by a collector, also the sample of a minute.   *)
Refresh(k) ==
    /\ snapshot' = [snapshot EXCEPT ![k] = [n |-> length[k], age |-> 0]]
    /\ drift' = [drift EXCEPT ![k] = 0]
    /\ \/ sample' = [sample EXCEPT ![k] = length[k]] /\ done' = [done EXCEPT ![k] = 0]
       \/ UNCHANGED <<sample, done>>
    /\ UNCHANGED <<length, head, counters, steps>>

Tick ==
    /\ head' = [k \in Keys |-> IF head[k] = Lost THEN Lost ELSE Min({MaxAge, head[k] + 1})]
    /\ snapshot' = [k \in Keys |-> IF snapshot[k] = None THEN None
                                   ELSE [snapshot[k] EXCEPT !.age = Min({Ttl + 1, @ + 1})]]
    /\ UNCHANGED <<length, counters, sample, done, drift, steps>>

Next == Tick \/ \E k \in Keys : Push(k) \/ Process(k) \/ Lose(k) \/ Remove(k) \/ Refresh(k)

Spec == Init /\ [][Next]_vars

-----------------------------------------------------------------------------
(* aggregate_queue_stats.                                                  *)
Sum(S, Op(_)) == MapThenSumSet(Op, S)

(* fresh_enqueued.                                                         *)
(* Mutant of FreshEnqueued: a snapshot never expires.                      *)
FreshEnqueuedForever(k) == snapshot[k] # None

FreshEnqueued(k) == snapshot[k] # None /\ snapshot[k].age <= Ttl

(* SCAN finds the lists that are not empty.                                *)
Scanned == {k \in Keys : length[k] > 0}

(* The queues SCAN found, those with a counter, and those with a fresh     *)
(* snapshot above zero; with a filter, those of a selected base.           *)
Shown(selected, filter) ==
    {k \in Keys :
        \/ k \in selected
        \/ /\ filter => \E s \in selected : BaseOf[s] = BaseOf[k]
           /\ counters[k] # NoCounts \/ (FreshEnqueued(k) /\ snapshot[k].n > 0)}

Members(shown, base) == {k \in shown : BaseOf[k] = base}
Children(shown, base) == Members(shown, base) \cap Dynamic

(* queue_lengths_and_latencies.                                            *)
Enqueued(k) == IF FreshEnqueued(k) THEN snapshot[k].n ELSE length[k]
Latency(k) == IF length[k] = 0 \/ head[k] = Lost THEN 0 ELSE head[k]

(* build_queue_stats: the numbers of a queue, from its children if it has  *)
(* any.                                                                    *)
Read(shown, base) == IF Children(shown, base) = {} THEN {base} ELSE Children(shown, base)

GroupEnqueued(shown, base) == Sum(Read(shown, base), Enqueued)
GroupLatency(shown, base) == Max({Latency(k) : k \in Read(shown, base)})
GroupCount(shown, base, field) == Sum(Members(shown, base), LAMBDA k : counters[k][field])

Bases(shown) == {BaseOf[k] : k \in shown}

(* stats_with_rates: the global numbers.                                   *)
All == Shown(Scanned, FALSE)
GlobalEnqueued == LET shown == All IN Sum(Bases(shown), LAMBDA b : GroupEnqueued(shown, b))
GlobalCount(field) == LET shown == All IN Sum(Bases(shown), LAMBDA b : GroupCount(shown, b, field))
GlobalLatency == LET shown == All IN Max({GroupLatency(shown, b) : b \in Bases(shown)} \cup {0})

(* QueueRateStats, times the length of the window.                         *)
Growth(k) == Enqueued(k) - sample[k]

EffectiveDrain(processed, growth) == IF processed > 0 THEN Max({-growth, 0}) ELSE 0

HasEta(enqueued, drain) == enqueued = 0 \/ drain > 0

QueueHasEta(k) == HasEta(Enqueued(k), EffectiveDrain(done[k], Growth(k)))

(* QueueRateStats::aggregate: the sums of the children's rates.            *)
GroupHasEta(shown, base) ==
    HasEta(GroupEnqueued(shown, base),
           EffectiveDrain(Sum(Read(shown, base), LAMBDA k : done[k]), Sum(Read(shown, base), Growth)))

-----------------------------------------------------------------------------
(* is_dynamic_parent_queue: the page of such a queue lists its children.   *)
DynamicParents == {BaseOf[k] : k \in Dynamic}

(* queue_stats_with_live_enqueued: the cached length gives way to a live   *)
(* one, which the estimate follows.                                        *)
WithLiveEnqueued(k, drain) == [enqueued |-> length[k], eta |-> HasEta(length[k], drain)]

(* queue_detail_queue_stats: the numbers of one queue, from its group or   *)
(* from the children of its parent.                                        *)
Detail(k) ==
    IF k \in Bases(All) \ DynamicParents \/ k \in Children(All, BaseOf[k])
    THEN WithLiveEnqueued(k, EffectiveDrain(done[k], Growth(k))) ELSE None

(* The families of Prometheus: a sample per group, and one per child.      *)
QueueFamily ==
    LET shown == All IN
    [b \in Bases(shown) |->
        [enqueued |-> GroupEnqueued(shown, b), processed |-> GroupCount(shown, b, "processed"),
         failed |-> GroupCount(shown, b, "failed"), latency |-> GroupLatency(shown, b)]]

DynamicFamily ==
    [x \in {<<BaseOf[k], k>> : k \in All \cap Dynamic} |->
        [enqueued |-> Enqueued(x[2]), processed |-> counters[x[2]].processed,
         failed |-> counters[x[2]].failed, latency |-> Latency(x[2])]]

GlobalGauges ==
    [enqueued |-> GlobalEnqueued, processed |-> GlobalCount("processed"),
     failed |-> GlobalCount("failed"), latency |-> GlobalLatency]

-----------------------------------------------------------------------------
(* Type correctness.                                                       *)
TypeOK ==
    /\ length \in [Keys -> 0 .. MaxLength] /\ head \in [Keys -> 0 .. MaxAge \cup {Lost}]
    /\ snapshot \in [Keys -> {None} \cup [n : 0 .. MaxLength, age : 0 .. Ttl + 1]]

Distance(a, b) == IF a > b THEN a - b ELSE b - a

(* No queue with jobs or with a history is hidden, whether or not a filter *)
(* selects its base.                                                       *)
QueuesShown ==
    \A k \in Keys :
        /\ length[k] > 0 \/ counters[k] # NoCounts => k \in All
        /\ length[k] > 0 => k \in Shown(Scanned \cap Members(Keys, BaseOf[k]), TRUE)

(* A length that is shown is off by no more than what happened since a     *)
(* snapshot younger than the limit.                                        *)
LengthsRecent ==
    \A k \in All : /\ Distance(Enqueued(k), length[k]) <= drift[k]
                   /\ snapshot[k] = None \/ snapshot[k].age > Ttl => Enqueued(k) = length[k]

(* The global numbers are those of the queues: every job and every count   *)
(* is in one group, and the latency is that of the oldest readable job.    *)
TotalsAddUp ==
    /\ GlobalEnqueued = Sum(All, Enqueued)
    /\ GlobalCount("processed") = Sum(Keys, LAMBDA k : counters[k].processed)
    /\ GlobalCount("failed") = Sum(Keys, LAMBDA k : counters[k].failed)
    /\ LET latency == GlobalLatency IN
       \A k \in Keys : length[k] > 0 /\ head[k] # Lost => latency >= head[k]

(* A group gets an estimate only if it is empty or one of its queues       *)
(* shrinks; and if they all have one and none grows, it does.              *)
GroupEtas ==
    LET shown == All IN
    \A b \in Bases(shown) :
        /\ GroupHasEta(shown, b) =>
              GroupEnqueued(shown, b) = 0 \/ \E k \in Read(shown, b) : Growth(k) < 0
        /\ (\A k \in Read(shown, b) : QueueHasEta(k) /\ Growth(k) <= 0) => GroupHasEta(shown, b)

(* The page of a queue with jobs or with a history has its numbers, with   *)
(* the length of this moment; unless the queue changed since its snapshot, *)
(* the page and the list agree about the estimate.                         *)
DetailAgrees ==
    \A k \in All :
        LET page == Detail(k) IN
        /\ page # None /\ page.enqueued = length[k]
        /\ drift[k] = 0 => page.enqueued = Enqueued(k) /\ page.eta = QueueHasEta(k)

(* What Prometheus is given can be summed: the samples of a family make    *)
(* the global gauge, and those of the children make the enqueued jobs and  *)
(* the latency of their queue.                                             *)
ExportAddsUp ==
    LET queues == QueueFamily
        children == DynamicFamily
        gauges == GlobalGauges
    IN  /\ \A f \in {"enqueued", "processed", "failed"} :
              Sum(DOMAIN queues, LAMBDA b : queues[b][f]) = gauges[f]
        /\ \A b \in DOMAIN queues :
              LET own == {x \in DOMAIN children : x[1] = b} IN
              own # {} =>
                  /\ queues[b].enqueued = Sum(own, LAMBDA x : children[x].enqueued)
                  /\ \A x \in own : /\ children[x].latency <= queues[b].latency
                                     /\ children[x].latency <= gauges.latency

(* No queue is hidden, every length shown is recent, and the numbers of    *)
(* queues, groups, pages and exports agree.                                *)
StatsAgree ==
    TypeOK /\ QueuesShown /\ LengthsRecent /\ TotalsAddUp /\ GroupEtas /\ DetailAgrees /\ ExportAddsUp
=============================================================================
