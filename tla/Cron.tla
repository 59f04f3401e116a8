------------------------------- MODULE Cron --------------------------------
(***************************************************************************)
(* cron_job_loop, unique_cron_action and JobEnvelope::new_cron: every      *)
(* process runs a loop per cron job that walks the occurrences of its      *)
(* schedule and enqueues each one a little ahead of its time.  The loops   *)
(* know of each other only through the job id: name and time of the        *)
(* occurrence, or the unique id that the job declares and all occurrences  *)
(* share.  An enqueue is one step (BulkEnqueue shows that it is) and skips *)
(* an id that is stored.                                                   *)
(***************************************************************************)
EXTENDS Naturals, FiniteSets, FiniteSetsExt

CONSTANTS
    Procs,          \* processes that run the cron loop
    Occurrences,    \* the times of the schedule
    DeclaredUnique, \* whether the job defines a unique_id
    InitialOffset,  \* cron_initial_offset
    Lookahead,      \* cron_lookahead
    MaxTime,        \* bound on the clock
    MaxErrors,      \* bound on the Redis errors, below the tolerance
    None            \* no job, no occurrence

Times == 0 .. MaxTime
CronJob == [occ : Occurrences, at : Times, place : {"schedule", "queue", "run"}]

(* What is assumed of the constants.                                       *)
CronAssumption ==
    /\ Occurrences \subseteq 1 .. MaxTime
    /\ DeclaredUnique \in BOOLEAN
    /\ {InitialOffset, Lookahead, MaxTime, MaxErrors} \subseteq Nat
    /\ None \notin Nat /\ None \notin CronJob /\ IsFiniteSet(Procs)

VARIABLES
    clock,    \* the time
    job,      \* the stored cron jobs: id -> occurrence, due time and place
    loop,     \* each process's loop
    writes,   \* history: how often an occurrence was written
    late,     \* history: occurrences some process first looked at, or wrote, too late
    errors

vars == <<clock, job, loop, writes, late, errors>>

(* The occurrence itself, or the shared unique id.                         *)
IdOf(o) == IF DeclaredUnique THEN 0 ELSE o
CronIds == {IdOf(o) : o \in Occurrences}

(* observed: the unique job was seen since the occurrence came near;       *)
(* punctual: history, the decision to enqueue was taken before its time.   *)
Loop == [pc : {"off", "wait", "check", "enqueue", "stopped"}, next : Occurrences \cup {None},
         previous : Occurrences \cup {None}, observed : BOOLEAN, punctual : BOOLEAN]

Init ==
    /\ clock = 0
    /\ job = [i \in CronIds |-> None]
    /\ loop = [p \in Procs |-> [pc |-> "off", next |-> None, previous |-> None, observed |-> FALSE,
                            punctual |-> FALSE]]
    /\ writes = [o \in Occurrences |-> 0]
    /\ late = {} /\ errors = 0

-----------------------------------------------------------------------------
(* The next occurrence of the iterator after time t; the loop ends when    *)
(* there is none (in the code: at the end of time).                        *)
After(t) == LET later == {o \in Occurrences : o > t}
            IN  IF later = {} THEN None ELSE Min(later)

At(p, point) == loop[p].pc = point

(* The runtime starts: occurrences after now + cron_initial_offset.        *)
Start(p) ==
    /\ At(p, "off")
    /\ loop' = [loop EXCEPT ![p] = [pc |-> IF After(clock + InitialOffset) = None THEN "stopped" ELSE "wait",
                                    next |-> After(clock + InitialOffset), previous |-> None,
                                    observed |-> FALSE, punctual |-> FALSE]]
    /\ UNCHANGED <<clock, job, writes, late, errors>>

(* Cancellation is looked at before every step of the loop.                *)
Cancel(p) ==
    /\ loop[p].pc \in {"wait", "check", "enqueue"}
    /\ loop' = [loop EXCEPT ![p].pc = "stopped"]
    /\ UNCHANGED <<clock, job, writes, late, errors>>

(* A first look after the time of the occurrence comes too late to know    *)
(* what the other processes did.                                           *)
Lateness(p) == IF clock >= loop[p].next THEN {loop[p].next} ELSE {}

(* The occurrence is within the lookahead and the previous one is past.    *)
(* envelope_factory then fixes the due time.                               *)
Approach(p) ==
    /\ At(p, "wait")
    /\ loop[p].next <= clock + Lookahead
    /\ loop[p].previous # None => loop[p].previous <= clock
    /\ loop' = [loop EXCEPT ![p].pc = IF DeclaredUnique THEN "check" ELSE "enqueue",
                            ![p].observed = FALSE, ![p].punctual = clock < loop[p].next]
    /\ late' = IF DeclaredUnique THEN late ELSE late \cup Lateness(p)
    /\ UNCHANGED <<clock, job, writes, errors>>

(* The occurrence is settled: on to the next one.                          *)
Advanced(l) ==
    [pc |-> IF After(l.next) = None THEN "stopped" ELSE "wait",
     next |-> After(l.next), previous |-> l.next, observed |-> FALSE,
     punctual |-> FALSE]

(* Mutant of UniqueCronAction: an earlier sighting is forgotten.           *)
UniqueCronActionForgets(existing, observed, at) ==
    IF clock >= at /\ existing THEN "skip" ELSE IF existing THEN "wait" ELSE "enqueue"

UniqueCronAction(existing, observed, at) ==
    IF clock >= at /\ (existing \/ observed) THEN "skip"
    ELSE IF existing THEN "wait" ELSE "enqueue"

(* get_job of the unique id.                                               *)
Check(p) ==
    /\ At(p, "check")
    /\ LET existing == job[IdOf(loop[p].next)] # None
           action   == UniqueCronAction(existing, loop[p].observed, loop[p].next)
       IN  /\ loop' = [loop EXCEPT ![p] =
                CASE action = "skip"    -> Advanced(@)
                  [] action = "wait"    -> [@ EXCEPT !.observed = loop[p].observed \/ existing]
                  [] action = "enqueue" -> [@ EXCEPT !.pc = "enqueue", !.punctual = clock < loop[p].next]]
           /\ late' = IF action = "enqueue" /\ ~loop[p].observed THEN late \cup Lateness(p) ELSE late
    /\ UNCHANGED <<clock, job, writes, errors>>

(* enqueue_at: a time that has come means the queue itself.                *)
EnqueuePlace(at) == IF at <= clock THEN "queue" ELSE "schedule"

(* enqueue_at: on the schedule, or on the queue when the time has come.    *)
(* The due time of new_cron is not before now.                             *)
Enqueue(p) ==
    /\ At(p, "enqueue")
    /\ LET o  == loop[p].next
           at == Max({o, clock})
       IN  /\ IF job[IdOf(o)] # None THEN UNCHANGED <<job, writes>>
              ELSE /\ job' = [job EXCEPT ![IdOf(o)] =
                         [occ |-> o, at |-> at, place |-> EnqueuePlace(at)]]
                   /\ writes' = [writes EXCEPT ![o] = @ + 1]
    /\ late' = IF loop[p].punctual THEN late \cup Lateness(p) ELSE late
    /\ loop' = [loop EXCEPT ![p] = Advanced(@)]
    /\ UNCHANGED <<clock, errors>>

(* A Redis error within the tolerance: the same step again after a tick.   *)
Retry(p) ==
    /\ errors < MaxErrors /\ loop[p].pc \in {"check", "enqueue"}
    /\ errors' = errors + 1
    /\ UNCHANGED <<clock, job, loop, writes, late>>

(* The job's own life: promoted when due, executed, retried or finished.   *)
Promote(i) ==
    /\ job[i] # None /\ job[i].place = "schedule" /\ job[i].at <= clock
    /\ job' = [job EXCEPT ![i].place = "queue"]
    /\ UNCHANGED <<clock, loop, writes, late, errors>>

Run(i) ==
    /\ job[i] # None /\ job[i].place = "queue"
    /\ job' = [job EXCEPT ![i].place = "run"]
    /\ UNCHANGED <<clock, loop, writes, late, errors>>

Finish(i) ==
    /\ job[i] # None /\ job[i].place = "run"
    /\ job' = [job EXCEPT ![i] = None]
    /\ UNCHANGED <<clock, loop, writes, late, errors>>

Tick ==
    /\ clock < MaxTime
    /\ clock' = clock + 1
    /\ UNCHANGED <<job, loop, writes, late, errors>>

Step(p) == Approach(p) \/ Check(p) \/ Enqueue(p)

Next ==
    \/ Tick
    \/ \E p \in Procs : Start(p) \/ Step(p) \/ Cancel(p) \/ Retry(p)
    \/ \E i \in CronIds : Promote(i) \/ Run(i) \/ Finish(i)

Spec == Init /\ [][Next]_vars

(* Time passes and loops go on; nothing is assumed of the jobs.            *)
FairSpec == Spec /\ WF_vars(Tick) /\ \A p \in Procs : WF_vars(Step(p))

-----------------------------------------------------------------------------
(* Type correctness of clock, jobs and loops.                              *)
TypeOK ==
    /\ clock \in Times
    /\ job \in [CronIds -> CronJob \cup {None}]
    /\ loop \in [Procs -> Loop]
    /\ \A p \in Procs : loop[p].pc \in {"wait", "check", "enqueue"} => loop[p].next # None
    /\ writes \in [Occurrences -> 0 .. Cardinality(Procs)]
    /\ late \subseteq Occurrences /\ errors \in 0 .. MaxErrors

(* However many processes run the loop, an occurrence is enqueued once:    *)
(* twice only if some process first looked at it at or after its time, or  *)
(* decided in time and wrote late, when the job of the others may have     *)
(* come and gone.                                                          *)
PunctualOnce == \A o \in Occurrences \ late : writes[o] <= 1

(* No occurrence starts before its time.                                   *)
NeverEarly == \A i \in CronIds : job[i] # None /\ job[i].place # "schedule" => job[i].occ <= clock

(* A loop never hangs on an occurrence, even if the job of the previous    *)
(* one never ends.                                                         *)
Checking(p) == At(p, "check")

(* However many processes run the loop, an occurrence that was looked at   *)
(* in time is enqueued once, and none starts before its time.              *)
CronSound == TypeOK /\ PunctualOnce /\ NeverEarly
=============================================================================
