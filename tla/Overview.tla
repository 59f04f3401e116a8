------------------------------ MODULE Overview ------------------------------
(***************************************************************************)
(* Who works on what, as the dashboard, the MCP server and Prometheus show *)
(* it: stats_with_rates of storage_internal.rs reads the process set, the  *)
(* process records, one processing list after the other and the payloads,  *)
(* while processes beat, crash and leave, and jobs move.  Pipelines are    *)
(* not transactions: each of their commands is a step.                     *)
(*                                                                         *)
(* An id is at most once in a processing list, so a list is a set here.    *)
(***************************************************************************)
EXTENDS Naturals, Sequences, SequencesExt, FiniteSetsExt

CONSTANTS
    Procs,      \* 1 .. n, runtimes in the order of their ids
    LabelOf,    \* hostname and pid, which two runtimes of an OS process share
    Ids,        \* jobs
    Threshold,  \* dead_process_threshold
    None,       \* no score, no record
    MaxClock,   \* bound on the clock
    MaxMoves    \* bound on the moves of jobs

OverviewAssumption ==
    /\ Procs \subseteq Nat /\ IsFiniteSet(Procs) /\ IsFiniteSet(Ids)
    /\ Threshold \in Nat /\ MaxClock \in Nat /\ MaxMoves \in Nat /\ None \notin Nat

VARIABLES
    clock,
    life,       \* of a process: "new", "up", "leaving" or "down"
    beating,    \* the heartbeat whose record is not written yet
    score,      \* the process set
    record,     \* the hash of process records: the heartbeat of each
    claims,     \* the processing lists
    queue,      \* jobs that wait
    payload,    \* jobs whose envelope is stored
    moves,
    reader,     \* the reading
    held,       \* history: claims on stored jobs at some time of the reading
    always,     \* history: claims on stored jobs all the time
    steady,     \* history: processes whose record existed all the time
    quiet       \* history: no heartbeat was being written while they were read

procVars == <<life, beating, score, record>>
jobVars == <<claims, queue, payload, moves>>
history == <<held, always, steady, quiet>>
vars == <<clock, procVars, jobVars, reader, history>>

Idle == [pc |-> "idle", ids |-> <<>>, shown |-> <<>>, todo |-> <<>>,
         listed |-> {}, rows |-> {}]

Pairs == {<<p, j>> : p \in Procs, j \in Ids}
Working == {x \in Pairs : x[2] \in claims[x[1]] /\ x[2] \in payload}
Reading == reader.pc \in {"ids", "records"}

Init ==
    /\ clock = 0
    /\ life = [p \in Procs |-> "new"] /\ beating = [p \in Procs |-> None]
    /\ score = [p \in Procs |-> None] /\ record = [p \in Procs |-> None]
    /\ claims = [p \in Procs |-> {}] /\ queue = Ids /\ payload = Ids /\ moves = 0
    /\ reader = Idle /\ held = {} /\ always = {} /\ steady = {} /\ quiet = TRUE

-----------------------------------------------------------------------------
(* Processes.                                                              *)
Tick ==
    /\ clock < MaxClock /\ clock' = clock + 1
    /\ UNCHANGED <<procVars, jobVars, reader, history>>

(* ping: ZADD, then HSET of the record made before it.                     *)
PingScore(p) ==
    /\ life[p] \in {"new", "up"} /\ beating[p] = None /\ score[p] # clock
    /\ score' = [score EXCEPT ![p] = clock] /\ beating' = [beating EXCEPT ![p] = clock]
    /\ quiet' = (quiet /\ reader.pc # "ids")
    /\ UNCHANGED <<clock, life, record, jobVars, reader, held, always, steady>>

PingRecord(p) ==
    /\ life[p] \in {"new", "up"} /\ beating[p] # None
    /\ record' = [record EXCEPT ![p] = beating[p]] /\ beating' = [beating EXCEPT ![p] = None]
    /\ life' = [life EXCEPT ![p] = "up"] /\ quiet' = (quiet /\ reader.pc # "ids")
    /\ UNCHANGED <<clock, score, jobVars, reader, held, always, steady>>

Crash(p) ==
    /\ life[p] # "down" /\ (life[p] = "new" => beating[p] # None)
    /\ life' = [life EXCEPT ![p] = "down"]
    /\ UNCHANGED <<clock, beating, score, record, jobVars, reader, history>>

(* ZREM and HDEL, of self_cleanup after the drain.                         *)
Leave(p) ==
    /\ life[p] = "up" /\ claims[p] = {} /\ beating[p] = None
    /\ life' = [life EXCEPT ![p] = "leaving"] /\ score' = [score EXCEPT ![p] = None]
    /\ UNCHANGED <<clock, beating, record, jobVars, reader, history>>

Left(p) ==
    /\ life[p] = "leaving" /\ life' = [life EXCEPT ![p] = "down"]
    /\ record' = [record EXCEPT ![p] = None] /\ steady' = steady \ {p}
    /\ UNCHANGED <<clock, beating, score, jobVars, reader, held, always, quiet>>

Dead(p) ==
    /\ life[p] = "down"
    /\ IF score[p] = None THEN claims[p] # {} ELSE score[p] + Threshold < clock

(* resurrect forgets a dead process without claims: ZREM, and in the       *)
(* record's case HDEL.                                                     *)
SweepForget(p) ==
    /\ Dead(p) /\ claims[p] = {} /\ score' = [score EXCEPT ![p] = None]
    /\ life' = [life EXCEPT ![p] = "leaving"]
    /\ UNCHANGED <<clock, beating, record, jobVars, reader, history>>

-----------------------------------------------------------------------------
(* Jobs.                                                                   *)
Move == moves < MaxMoves /\ moves' = moves + 1
Note ==
    /\ held' = IF Reading THEN held \union Working' ELSE held
    /\ always' = IF Reading THEN always \cap Working' ELSE always
    /\ UNCHANGED <<steady, quiet>>

Claim(p, j) ==
    /\ life[p] = "up" /\ j \in queue /\ Move
    /\ queue' = queue \ {j} /\ claims' = [claims EXCEPT ![p] = @ \union {j}]
    /\ UNCHANGED payload /\ Note /\ UNCHANGED <<clock, procVars, reader>>

Finish(p, j) ==
    /\ life[p] = "up" /\ j \in claims[p] /\ Move
    /\ claims' = [claims EXCEPT ![p] = @ \ {j}] /\ payload' = payload \ {j}
    /\ UNCHANGED queue /\ Note /\ UNCHANGED <<clock, procVars, reader>>

(* A failed job is retried, or recovered from a dead process.              *)
Requeue(p, j) ==
    /\ life[p] = "up" \/ Dead(p)
    /\ j \in claims[p] /\ Move
    /\ claims' = [claims EXCEPT ![p] = @ \ {j}] /\ queue' = queue \union {j}
    /\ UNCHANGED payload /\ Note /\ UNCHANGED <<clock, procVars, reader>>

(* Deleted by hand: the payload goes, the claim may stay.                  *)
Delete(j) ==
    /\ j \in payload /\ Move
    /\ payload' = payload \ {j} /\ queue' = queue \ {j}
    /\ UNCHANGED claims /\ Note /\ UNCHANGED <<clock, procVars, reader>>

-----------------------------------------------------------------------------
(* The reading.                                                            *)
Before(p, q) == score[p] < score[q] \/ (score[p] = score[q] /\ p < q)

(* ZRANGEBYSCORE from the threshold to now.                                *)
Fresh(p) == score[p] # None /\ score[p] + Threshold >= clock

InOrder(ids, S) ==
    /\ ToSet(ids) = S
    /\ \A i, j \in DOMAIN ids : i < j => Before(ids[i], ids[j])

ReadIds ==
    /\ reader.pc = "idle"
    /\ LET fresh == {p \in Procs : Fresh(p)} IN
       \E ids \in [1 .. Cardinality(fresh) -> fresh] :
          InOrder(ids, fresh) /\ reader' = [Idle EXCEPT !.pc = "ids", !.ids = ids]
    /\ held' = Working /\ always' = Working
    /\ steady' = {p \in Procs : score[p] # None /\ score[p] + Threshold >= clock /\ record[p] # None}
    /\ quiet' = \A p \in Procs : beating[p] = None
    /\ UNCHANGED <<clock, procVars, jobVars>>

(* A list without what is not in S.                                        *)
Only(list, S) ==
    LET upTo[n \in 0 .. Len(list)] ==
            IF n = 0 THEN <<>>
            ELSE IF list[n] \in S THEN Append(upTo[n - 1], list[n]) ELSE upTo[n - 1]
    IN  upTo[Len(list)]

(* HMGET of the records, in the order of the ids; an id without a record   *)
(* is left out.                                                            *)
ReadRecords ==
    /\ reader.pc = "ids"
    /\ LET known == Only(reader.ids, {p \in Procs : record[p] # None}) IN
       reader' = [reader EXCEPT !.pc = "records", !.ids = <<>>, !.todo = known,
                                !.shown = [i \in 1 .. Len(known) |->
                                              [id |-> known[i], heartbeat |-> record[known[i]]]]]
    /\ UNCHANGED <<clock, procVars, jobVars, history>>

(* LRANGE of the next processing list.                                     *)
ReadClaims ==
    /\ reader.pc = "records" /\ reader.todo # <<>>
    /\ LET p == Head(reader.todo) IN
       reader' = [reader EXCEPT !.todo = Tail(@), !.listed = @ \union {<<p, j>> : j \in claims[p]}]
    /\ UNCHANGED <<clock, procVars, jobVars, history>>

(* HMGET of the payloads; what has none is left out.                       *)
Resolved == {x \in reader.listed : x[2] \in payload}

ReadJobs ==
    /\ reader.pc = "records" /\ reader.todo = <<>>
    /\ reader' = [reader EXCEPT !.pc = "answered", !.listed = {}, !.rows = Resolved]
    /\ UNCHANGED <<clock, procVars, jobVars, history>>

Show ==
    /\ reader.pc = "answered" /\ reader' = Idle
    /\ held' = {} /\ always' = {} /\ steady' = {} /\ quiet' = TRUE
    /\ UNCHANGED <<clock, procVars, jobVars>>

Next ==
    \/ Tick \/ ReadIds \/ ReadRecords \/ ReadClaims \/ ReadJobs \/ Show
    \/ \E p \in Procs : \/ PingScore(p) \/ PingRecord(p) \/ Crash(p) \/ Leave(p) \/ Left(p)
                        \/ SweepForget(p)
                        \/ \E j \in Ids : Claim(p, j) \/ Finish(p, j) \/ Requeue(p, j)
    \/ \E j \in Ids : Delete(j)

Spec == Init /\ [][Next]_vars

-----------------------------------------------------------------------------
(* What is made of the answer.                                             *)
ShownIds == {reader.shown[i].id : i \in 1 .. Len(reader.shown)}

(* busy_for_process: the rows of a process, by its whole id.               *)
BusyForProcess(p) == Cardinality({x \in reader.rows : x[1] = p})

(* Prometheus: the last process with the labels of a gauge sets it.        *)
Heartbeat(label) ==
    LET i == Max({n \in 1 .. Len(reader.shown) : LabelOf[reader.shown[n].id] = label})
    IN  reader.shown[i].heartbeat

Labels == {LabelOf[p] : p \in ShownIds}

-----------------------------------------------------------------------------
Answered == reader.pc = "answered"

(* A job is shown in work only where it was claimed and stored during the  *)
(* reading, and only with a process that is listed: neither the claim that *)
(* a deletion left nor a recovered one is reported.                        *)
RowsSound ==
    Answered => /\ reader.rows \subseteq held
                /\ \A x \in reader.rows : x[1] \in ShownIds

(* A process that was alive and registered all the time is listed, and so  *)
(* is every job that it held all the time.                                 *)
RowsComplete ==
    Answered =>
        /\ steady \subseteq ShownIds
        /\ \A x \in always : x[1] \in steady => x \in reader.rows

(* The busy numbers of the processes add up to the jobs in work, also when *)
(* two runtimes share an OS process.                                       *)
BusyAddsUp ==
    Answered => MapThenSumSet(BusyForProcess, ShownIds) = Cardinality(reader.rows)

(* Unless one is being written, the exported heartbeat of an OS process is *)
(* the latest of its runtimes.                                             *)
LatestBeatExported ==
    Answered /\ quiet =>
        \A i \in 1 .. Len(reader.shown) :
            Heartbeat(LabelOf[reader.shown[i].id]) >= reader.shown[i].heartbeat

(* What is shown in work was in work, and what was in work all the time is *)
(* shown, counted and exported.                                            *)
WorkShown == RowsSound /\ RowsComplete /\ BusyAddsUp /\ LatestBeatExported
=============================================================================
