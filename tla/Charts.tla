------------------------------- MODULE Charts -------------------------------
(***************************************************************************)
(* What the dashboard computes before it draws: the points of the metric   *)
(* charts (templates.rs) and of the queue length chart (metrics.rs), the   *)
(* progress bar of a job (filters.rs), and the headers that sort a table.  *)
(* The inputs are chosen at first; one step draws them.                    *)
(*                                                                         *)
(* A minute is a number, and 120, 480, 5 and 15 minutes are constants.     *)
(***************************************************************************)
EXTENDS Integers, Sequences, SequencesExt, FiniteSets, FiniteSetsExt, Functions

CONSTANTS
    Keys,           \* queues or workers, 1 .. n
    MaxWindow,      \* bound on the minutes of a metric chart
    MaxSamples,     \* bound on the minutes of a length chart
    FineWindow, MidWindow,    \* 120 and 480
    MidBucket, WideBucket,    \* 5 and 15
    Cap,            \* the largest u64
    MaxTotal,       \* bound on the items of a progress
    None

VARIABLES
    kind,     \* what is drawn
    input,
    output    \* None before

vars == <<kind, input, output>>

(* A series of counts per worker; the hash of every minute with the length *)
(* of some queues, where a negative number may be stored; a progress with  *)
(* the time since the start of the job; the parameters of a table.         *)
Params == [sort : {None, "default", "other", "unknown"}, dir : {None, "asc", "desc"}]

Init ==
    /\ output = None
    /\ \/ kind = "metrics" /\ \E w \in 1 .. MaxWindow : input \in [Keys -> [1 .. w -> {0, 1, Cap}]]
       \/ kind = "lengths" /\ \E w \in 1 .. MaxSamples : input \in [1 .. w -> [Keys -> {None, -1, 1, 2}]]
       \/ /\ kind = "progress"
          /\ input \in [cursor : -1 .. MaxTotal + 1, total : -1 .. MaxTotal,
                        started : BOOLEAN, elapsed : -1 .. 2]
       \/ kind \in {"queues", "workers"} /\ input \in Params

-----------------------------------------------------------------------------
(* metrics_chart_bucket_minutes.                                           *)
BucketMinutes(window) ==
    IF window <= FineWindow THEN 1 ELSE IF window <= MidWindow THEN MidBucket ELSE WideBucket

SaturatingSum(s) == Min({Cap, FoldFunction(+, 0, s)})

(* Mutant of Chunk: the next bucket starts at the last minute of this one. *)
ChunkOverlapping(s, size, i) == SubSeq(s, (i - 1) * size + 1, Min({i * size + 1, Len(s)}))

Chunk(s, size, i) == SubSeq(s, (i - 1) * size + 1, Min({i * size, Len(s)}))

(* downsample_job_metrics_points: a point is the sum of its bucket, at the *)
(* first minute of it.                                                     *)
Downsample(s) ==
    LET size == BucketMinutes(Len(s)) IN
    [i \in 1 .. (Len(s) + size - 1) \div size |->
        [timestamp |-> (i - 1) * size + 1, value |-> SaturatingSum(Chunk(s, size, i))]]

(* summary_chart_data_json: the timestamps of the summary, the data of     *)
(* every worker.                                                           *)
MetricsChart(series) ==
    LET minutes == DOMAIN series[Min(Keys)]
        summary == Downsample([m \in minutes |-> SaturatingSum([k \in Keys |-> series[k][m]])])
    IN  [timestamps |-> [i \in DOMAIN summary |-> summary[i].timestamp],
         data |-> [k \in Keys |-> [i \in DOMAIN Downsample(series[k]) |-> Downsample(series[k])[i].value]]]

-----------------------------------------------------------------------------
Recorded(hashes, k) == \E m \in DOMAIN hashes : hashes[m][k] # None

(* queue_length_series_from_hashes: zero where nothing, or a negative      *)
(* number, is stored; the highest peak first.                              *)
Points(hashes, k) ==
    [m \in DOMAIN hashes |-> IF hashes[m][k] = None \/ hashes[m][k] < 0 THEN 0 ELSE hashes[m][k]]

Peak(s) == Max(Range(s))

Before(hashes, k, l) ==
    LET p == Peak(Points(hashes, k)) q == Peak(Points(hashes, l))
    IN  p > q \/ (p = q /\ k < l)

LengthSeries(hashes) ==
    LET order == SetToSortSeq({k \in Keys : Recorded(hashes, k)}, LAMBDA k, l : Before(hashes, k, l))
    IN  [i \in DOMAIN order |-> [queue |-> order[i], points |-> Points(hashes, order[i])]]

(* queue_length_chart_data_json: the timestamps of the first queue, or of  *)
(* the window when no queue has a sample.                                  *)
LengthChart(hashes) ==
    LET series == LengthSeries(hashes) IN
    [timestamps |-> IF series = <<>> THEN [i \in DOMAIN hashes |-> i]
                    ELSE [i \in DOMAIN series[1].points |-> i],
     series |-> series]

-----------------------------------------------------------------------------
Percent(p) == Min({100, (Max({0, p.cursor}) * 100) \div p.total})

(* progress_eta_s, as the numerator of a fraction over the cursor.         *)
Eta(p) ==
    LET remaining == Max({0, p.total - p.cursor}) IN
    IF ~p.started \/ p.total <= 0 \/ p.cursor <= 0 THEN None
    ELSE IF remaining = 0 THEN 0
    ELSE IF p.elapsed <= 0 THEN None
    ELSE p.elapsed * remaining

(* ProgressView::from_state.                                               *)
ProgressView(p) == IF p.total <= 0 THEN None ELSE [percent |-> Percent(p), eta |-> Eta(p)]

-----------------------------------------------------------------------------
(* sort_queues_for_params: any column, ascending unless asked otherwise;   *)
(* without a column the longest queue first.                               *)
QueueSort(p) ==
    [sort |-> IF p.sort = None THEN "default" ELSE p.sort,
     dir |-> IF p.dir # None THEN p.dir ELSE IF p.sort = None THEN "desc" ELSE "asc"]

(* metrics: an unknown column is the default one, always descending.       *)
WorkerSort(p) ==
    IF p.sort \in {None, "unknown"} THEN [sort |-> "default", dir |-> "desc"]
    ELSE [sort |-> p.sort, dir |-> IF p.dir = "asc" THEN "asc" ELSE "desc"]

(* next_dir: the link of a header.                                         *)
NextDir(shown, column) ==
    IF shown.sort = column /\ shown.dir = "desc" THEN "asc" ELSE "desc"

SortOf(p) == IF kind = "queues" THEN QueueSort(p) ELSE WorkerSort(p)

Draw ==
    /\ output = None /\ UNCHANGED <<kind, input>>
    /\ output' = CASE kind = "metrics" -> MetricsChart(input)
                   [] kind = "lengths" -> LengthChart(input)
                   [] kind = "progress" -> [view |-> ProgressView(input)]
                   [] OTHER -> SortOf(input)

Next == Draw

Spec == Init /\ [][Next]_vars

-----------------------------------------------------------------------------
Drawn(k) == kind = k /\ output # None

(* Between two timestamps lies what happened between them: every series of *)
(* a metric chart has a value for every timestamp, and it is the sum of    *)
(* the minutes up to the next timestamp, whatever the width of the buckets *)
(* and although the last one may be shorter.                               *)
ChartAligned ==
    Drawn("metrics") =>
        LET T == output.timestamps IN
        \A k \in Keys :
            /\ DOMAIN output.data[k] = DOMAIN T /\ T[1] = 1
            /\ \A i \in DOMAIN T :
                  LET end == IF i = Len(T) THEN Len(input[k]) + 1 ELSE T[i + 1] IN
                  output.data[k][i] =
                      Min({Cap, MapThenSumSet(LAMBDA m : input[k][m], T[i] .. end - 1)})

(* Every queue with a sample has one series, with the sample of a minute   *)
(* at the timestamp of that minute, and a busier queue comes first.        *)
LengthsAligned ==
    Drawn("lengths") =>
        LET S == output.series IN
        /\ {S[i].queue : i \in DOMAIN S} = {k \in Keys : Recorded(input, k)}
        /\ \A i \in DOMAIN S :
              /\ DOMAIN S[i].points = DOMAIN output.timestamps
              /\ \A j \in DOMAIN S : i < j => S[i].queue # S[j].queue
                                              /\ Peak(S[i].points) >= Peak(S[j].points)
              /\ \A n \in DOMAIN S[i].points :
                    LET raw == input[output.timestamps[n]][S[i].queue] IN
                    S[i].points[n] = IF raw = None THEN 0 ELSE Max({0, raw})
        /\ Len(output.timestamps) = Len(input)

(* A bar stays within its frame whatever a worker stores, is full exactly  *)
(* when nothing remains, and then promises no more time; a time is never   *)
(* negative, although the clocks of two hosts may disagree.                *)
BarSensible ==
    Drawn("progress") /\ output.view # None =>
        /\ output.view.percent \in 0 .. 100
        /\ output.view.percent = 100 <=> input.cursor >= input.total
        /\ output.view.eta # None =>
              /\ output.view.eta >= 0 /\ input.cursor > 0
              /\ output.view.eta = 0 <=> output.view.percent = 100

(* The header of the sorted column reverses it and that of another column  *)
(* sorts it descending, in both tables and from every address.             *)
HeadersToggle ==
    kind \in {"queues", "workers"} /\ output # None =>
        \A c \in {"default", "other"} :
            LET next == SortOf([sort |-> c, dir |-> NextDir(output, c)]) IN
            /\ next.sort = c
            /\ IF c = output.sort THEN next.dir # output.dir ELSE next.dir = "desc"

(* A chart, a bar and a header show what they were given.                  *)
ChartsFaithful == ChartAligned /\ LengthsAligned /\ BarSensible /\ HeadersToggle
=============================================================================
