----------------------------- MODULE MCDispatch -----------------------------
(***************************************************************************)
(* Instances for TLC of what decides when a job starts, where it resumes   *)
(* and how its failure is reported: the throttler, the cron loop (of a job *)
(* with a unique id and of one without), the progress of a resumable job   *)
(* and the failure reports.  They are checked side by side, not composed:  *)
(* `part` says which of them a behaviour is about.                         *)
(***************************************************************************)
EXTENDS Naturals

CONSTANTS
    Dispatchers, Limit, Window, Costs, FallbackWait, MaxJobs, MaxErrors,
    Procs, Occurrences, InitialOffset, Lookahead, MaxTime, None,
    Attempts, Total, MaxRetries, MaxRuns,
    Jobs, MaxCrumbs, MaxCaptures

VARIABLES
    part, errors, recorded,
    entries, disp, backlog, pushed, unrecorded,
    clock, job, loop, writes, late,
    resumes, payload, queued, claims, retrying, dead, attempt, runs, done, overlap, began,
    build, custom, hook, policy, pc, failure, crumbs, captures, retained, sent, calls, report, fate,
    broke

Throttler == INSTANCE Throttler
Cron(DeclaredUnique) == INSTANCE Cron
Progress == INSTANCE Progress
Failures == INSTANCE FailureReport

ASSUME DispatchAssumption ==
    /\ Throttler!ThrottlerAssumption /\ \A unique \in BOOLEAN : Cron(unique)!CronAssumption
    /\ Progress!ProgressAssumption /\ Failures!FailureAssumption

(* The variables that one part declares alone.                             *)
ofThrottler == <<entries, disp, backlog, pushed, unrecorded>>
ofCron == <<clock, job, loop, writes, late>>
ofProgress == <<resumes, payload, queued, claims, retrying, dead, attempt, runs, done, overlap, began>>
ofFailures == <<build, custom, hook, policy, pc, failure, crumbs, captures, retained, sent, calls,
                report, fate, broke>>

notThrottler == <<ofCron, ofProgress, ofFailures>>
notCron == <<ofThrottler, ofProgress, ofFailures, recorded>>
notProgress == <<ofThrottler, ofCron, ofFailures, errors>>
notFailures == <<ofThrottler, ofCron, ofProgress, errors, recorded>>
vars == <<part, notFailures, ofFailures>>

Throttling == part = "throttler"
Scheduling(unique) == part = IF unique THEN "unique_cron" ELSE "cron"
Resuming == part = "progress"
Reporting == part = "failures"

(* The variables of the parts that a behaviour is not about.               *)
NoThrottler ==
    /\ entries = "unused" /\ disp = "unused" /\ backlog = "unused" /\ pushed = "unused"
    /\ unrecorded = "unused"

NoCron ==
    /\ clock = "unused" /\ job = "unused" /\ loop = "unused" /\ writes = "unused"
    /\ late = "unused"

NoProgress ==
    /\ resumes = "unused" /\ payload = "unused" /\ queued = "unused" /\ claims = "unused"
    /\ retrying = "unused" /\ dead = "unused" /\ attempt = "unused" /\ runs = "unused"
    /\ done = "unused" /\ overlap = "unused" /\ began = "unused"

NoFailures ==
    /\ build = "unused" /\ custom = "unused" /\ hook = "unused" /\ policy = "unused"
    /\ pc = "unused" /\ failure = "unused" /\ crumbs = "unused" /\ captures = "unused"
    /\ retained = "unused" /\ sent = "unused" /\ calls = "unused" /\ report = "unused"
    /\ fate = "unused" /\ broke = "unused"

Init ==
    \/ Throttling /\ Throttler!Init /\ NoCron /\ NoProgress /\ NoFailures
    \/ \E unique \in BOOLEAN :
          /\ Scheduling(unique) /\ Cron(unique)!Init
          /\ NoThrottler /\ NoProgress /\ NoFailures /\ recorded = "unused"
    \/ /\ Resuming /\ Progress!Init
       /\ NoThrottler /\ NoCron /\ NoFailures /\ errors = "unused"
    \/ /\ Reporting /\ Failures!Init
       /\ NoThrottler /\ NoCron /\ NoProgress /\ errors = "unused" /\ recorded = "unused"

Next ==
    /\ UNCHANGED part
    /\ \/ Throttling /\ Throttler!Next /\ UNCHANGED notThrottler
       \/ \E unique \in BOOLEAN : Scheduling(unique) /\ Cron(unique)!Next /\ UNCHANGED notCron
       \/ Resuming /\ Progress!Next /\ UNCHANGED notProgress
       \/ Reporting /\ Failures!Next /\ UNCHANGED notFailures

Spec == Init /\ [][Next]_vars

(* The fairness of the throttler and of the cron loops.                    *)
FairSpec ==
    /\ Spec
    /\ WF_(Throttler!vars)(Throttling /\ Throttler!Tick)
    /\ \A d \in Dispatchers : WF_(Throttler!vars)(Throttling /\ Throttler!Step(d))
    /\ \A unique \in BOOLEAN :
          /\ WF_(Cron(unique)!vars)(Scheduling(unique) /\ Cron(unique)!Tick)
          /\ \A p \in Procs : WF_(Cron(unique)!vars)(Scheduling(unique) /\ Cron(unique)!Step(p))

-----------------------------------------------------------------------------
(* The budget of a window is exceeded, and a job started off the books,    *)
(* only by what dispatchers do between the check and the consume of        *)
(* another.                                                                *)
ThrottleSound == Throttling => Throttler!ThrottleSound

(* However many processes run a cron loop, an occurrence that was looked   *)
(* at in time is enqueued once, and none starts before its time.           *)
CronSound == \A unique \in BOOLEAN : Scheduling(unique) => Cron(unique)!CronSound

(* A resumable job leaves no item out, whatever attempts overlap, and      *)
(* without overlap starts where the last one stopped.                      *)
ProgressSound == Resuming => Progress!ProgressSound

(* A failed execution is reported once, with the trail of its worker, and  *)
(* truly about what follows.                                               *)
ReportsSound == Reporting => Failures!ReportsSound

(* A dispatcher that slept because of the limit is throttled again only if *)
(* the others have meanwhile recorded a whole budget.                      *)
NoIdleThrottle == [][Throttling => Throttler!SleepsForAReason]_vars

(* A throttled queue is served in the end.                                 *)
ThrottledServed ==
    (Throttling /\ Throttler!Waiting) ~> (Throttling /\ Throttler!Served)

(* A cron loop never hangs on an occurrence, even if the job of the        *)
(* previous one never ends.                                                *)
LoopMovesOn ==
    \A p \in Procs : []<>(\A unique \in BOOLEAN : Scheduling(unique) => ~Cron(unique)!Checking(p))

(* Nobody waits for nothing: a throttled queue is served, after sleeps     *)
(* that had a reason, and a cron loop never hangs on an occurrence.        *)
DispatchMovesOn == NoIdleThrottle /\ ThrottledServed /\ LoopMovesOn
=============================================================================
