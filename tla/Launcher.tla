------------------------------ MODULE Launcher ------------------------------
(***************************************************************************)
(* launcher.rs and Runtime: one process, from the spawning of its tasks to *)
(* the result of run().  The launcher joins three sets of tasks (the       *)
(* coordinators, the background loops and the heartbeat), while their      *)
(* descendants are counted by a tracker.  A descendant is owned by the     *)
(* JoinSet of its parent and dropped with it (cron job loops, dispatchers) *)
(* or spawned on the runtime and dropped by the force token (batches).     *)
(*                                                                         *)
(* Any task may fail at Redis; failures are tolerated up to a limit of     *)
(* consecutive ones, counted for all tasks together.  A descendant may     *)
(* hang, run() may be dropped, and the deadline of the shutdown may pass   *)
(* at any moment of it.                                                    *)
(***************************************************************************)
EXTENDS Naturals, FiniteSets

CONSTANTS
    Coordinators,   \* one task for each queue that the process serves
    Polls,          \* the loops that poll Redis from the start
    Sweepers,       \* the loops that wait for the registration (resurrect)
    Owned,          \* descendants in a JoinSet of their parent
    Spawned,        \* descendants of Runtime::spawn
    ParentOf,       \* of every descendant
    HasDeadline,    \* shutdown_timeout is set
    Tolerance,      \* redis_failure_tolerance
    MaxFailures,    \* bound on the Redis failures
    Ping, None      \* the heartbeat task; no error, no registration

Loops == Polls \cup Sweepers
Tasks == Coordinators \cup Loops \cup {Ping}
Descendants == Owned \cup Spawned

(* What is assumed of the constants: tasks and descendants are different   *)
(* things, and none of them is one of the other outcomes of run().         *)
LauncherAssumption ==
    /\ ParentOf \in [Descendants -> Coordinators \cup Loops]
    /\ Coordinators \cap Loops = {} /\ Ping \notin Coordinators \cup Loops /\ Tasks \cap Descendants = {}
    /\ {"cleanup", "ok", "timeout", None} \cap (Tasks \cup Descendants) = {}
    /\ None \notin BOOLEAN /\ None \notin {"cleanup", "ok", "timeout"}
    /\ HasDeadline \in BOOLEAN /\ Tolerance \in Nat \ {0} /\ MaxFailures \in Nat

VARIABLES
    pc,          \* the point run() has reached
    task,        \* state of the tasks the launcher joins
    child,       \* state of the descendants
    cancel, force, pingCancel,   \* the three tokens
    registered,  \* the OnceCell
    record,      \* this process in the set of processes
    failures,    \* consecutive_redis_failures
    firstError,  \* shutdown_error
    timedOut,    \* drained.is_err()
    failed,      \* history: tasks that ended with an error
    faults       \* history: Redis failures so far

tokens == <<cancel, force, pingCancel>>
vars == <<pc, task, child, cancel, force, pingCancel, registered, record, failures, firstError,
          timedOut, failed, faults>>

Live == {"starting", "running", "aborting"}
Draining == {"coordinators", "loops", "tasks", "ping", "cleanup"}

Init ==
    /\ pc = "running"
    /\ task = [t \in Tasks |-> IF t \in Coordinators \cup Sweepers THEN "starting" ELSE "running"]
    /\ child = [d \in Descendants |-> "unborn"]
    /\ cancel = FALSE /\ force = FALSE /\ pingCancel = FALSE
    /\ registered = None /\ record = "absent" /\ failures = 0
    /\ firstError = None /\ timedOut = FALSE /\ failed = {} /\ faults = 0

-----------------------------------------------------------------------------
(* Runtime::fail: the first error is kept and the runtime cancelled.       *)
FirstOf(error) == IF firstError = None THEN error ELSE firstError

Fail(error) == firstError' = FirstOf(error) /\ cancel' = TRUE

(* A task ends with an error of Redis.                                     *)
EndsBadly(t) == task' = [task EXCEPT ![t] = "error"] /\ failed' = failed \cup {t}

(* track_redis_result on a failure: past the tolerance it ends the task.   *)
Track(t) ==
    /\ faults < MaxFailures /\ faults' = faults + 1
    /\ failures' = failures + 1
    /\ IF failures' >= Tolerance THEN EndsBadly(t) ELSE UNCHANGED <<task, failed>>

(* register, by the first task that gets to it: the OnceCell lets one ping *)
(* at a time and keeps the answer.  Cancelled first, the answer is no.     *)
Register(t) ==
    /\ task[t] = "starting" /\ registered = None
    /\ IF cancel THEN registered' = FALSE /\ UNCHANGED <<record, failures>>
       ELSE registered' = TRUE /\ record' = "present" /\ failures' = 0
    /\ UNCHANGED <<pc, task, child, tokens, firstError, timedOut, failed, faults>>

RegisterFails(t) ==
    /\ task[t] = "starting" /\ registered = None /\ ~cancel /\ Track(t)
    /\ UNCHANGED <<pc, child, tokens, registered, record, firstError, timedOut>>

(* The tasks that wait for the registration go on, or end without it.      *)
Start(t) ==
    /\ task[t] = "starting" /\ registered # None
    /\ task' = [task EXCEPT ![t] = IF registered THEN "running" ELSE "ok"]
    /\ UNCHANGED <<pc, child, tokens, registered, record, failures, firstError, timedOut, failed, faults>>

Token(t) == IF t = Ping THEN pingCancel ELSE cancel

(* poll_redis: a round that succeeds resets the counter; a ping writes the *)
(* record of the process.                                                  *)
Poll(t) ==
    /\ task[t] = "running" /\ t \notin Coordinators
    /\ failures' = 0
    /\ record' = IF t = Ping THEN "present" ELSE record
    /\ UNCHANGED <<pc, task, child, tokens, registered, firstError, timedOut, failed, faults>>

(* A round that fails.  One that an abort has reached may still end so.    *)
PollFails(t) ==
    /\ task[t] \in {"running", "aborting"} /\ Track(t)
    /\ UNCHANGED <<pc, child, tokens, registered, record, firstError, timedOut>>

(* The token ends a loop; a coordinator also waits for the descendants it  *)
(* owns.  Those it has spawned may outlive it.                             *)
Return(t) ==
    /\ task[t] = "running" /\ Token(t)
    /\ \A d \in Owned : ParentOf[d] = t => child[d] \in {"unborn", "gone"}
    /\ task' = [task EXCEPT ![t] = "ok"]
    /\ UNCHANGED <<pc, child, tokens, registered, record, failures, firstError, timedOut, failed, faults>>

Aborted(t) ==
    /\ task[t] = "aborting"
    /\ task' = [task EXCEPT ![t] = "aborted"]
    /\ UNCHANGED <<pc, child, tokens, registered, record, failures, firstError, timedOut, failed, faults>>

-----------------------------------------------------------------------------
(* The descendants.                                                        *)
Beget(d) ==
    /\ child[d] = "unborn" /\ task[ParentOf[d]] = "running" /\ ~cancel
    /\ child' = [child EXCEPT ![d] = "running"]
    /\ UNCHANGED <<pc, task, tokens, registered, record, failures, firstError, timedOut, failed, faults>>

Complete(d) ==
    /\ child[d] = "running"
    /\ child' = [child EXCEPT ![d] = "gone"]
    /\ UNCHANGED <<pc, task, tokens, registered, record, failures, firstError, timedOut, failed, faults>>

(* An error of an owned descendant ends its parent, and of a spawned one   *)
(* fails the runtime directly.                                             *)
OwnedFails(d) ==
    /\ d \in Owned /\ child[d] = "running" /\ task[ParentOf[d]] = "running"
    /\ faults < MaxFailures /\ faults' = faults + 1
    /\ child' = [child EXCEPT ![d] = "gone"]
    /\ EndsBadly(ParentOf[d])
    /\ UNCHANGED <<pc, tokens, registered, record, failures, firstError, timedOut>>

SpawnedFails(d) ==
    /\ d \in Spawned /\ child[d] = "running"
    /\ faults < MaxFailures /\ faults' = faults + 1
    /\ child' = [child EXCEPT ![d] = "gone"]
    /\ Fail(d) /\ failed' = failed \cup {d}
    /\ UNCHANGED <<pc, task, force, pingCancel, registered, record, failures, timedOut>>

(* A descendant is dropped with the future of its parent, or by the force  *)
(* token.                                                                  *)
Orphaned(d) == IF d \in Owned THEN task[ParentOf[d]] \notin {"starting", "running", "aborting"} ELSE force

Dropped(d) ==
    /\ child[d] = "running" /\ Orphaned(d)
    /\ child' = [child EXCEPT ![d] = "gone"]
    /\ UNCHANGED <<pc, task, tokens, registered, record, failures, firstError, timedOut, failed, faults>>

-----------------------------------------------------------------------------
(* The launcher.                                                           *)
Joinable(set) == {t \in set : task[t] \in {"ok", "error", "aborted"}}

(* record_task_result of a joined task; abort_and_join leaves cancelled    *)
(* ones out.                                                               *)
Join(t) ==
    /\ task' = [task EXCEPT ![t] = "joined"]
    /\ cancel' = TRUE
    /\ firstError' = IF task[t] = "error" THEN FirstOf(t) ELSE firstError

(* The select: a task ended, the runtime was cancelled (by a failure or by *)
(* exit_when_processed), or a signal came.  Everything is cancelled.       *)
Shutdown ==
    /\ pc = "running" /\ pc' = "coordinators"
    /\ \/ \E t \in Joinable(Tasks) : Join(t)
       \/ cancel' = TRUE /\ UNCHANGED <<task, firstError>>
    /\ UNCHANGED <<child, force, pingCancel, registered, record, failures, timedOut, failed, faults>>

(* The drain joins the coordinators, then the loops, and then the ping.    *)
Joins(at, set) ==
    /\ pc = at
    /\ \E t \in Joinable(set) : Join(t)
    /\ UNCHANGED <<pc, child, force, pingCancel, registered, record, failures, timedOut, failed, faults>>

JoinStep ==
    \/ Joins("coordinators", Coordinators) \/ Joins("loops", Loops) \/ Joins("ping", {Ping})
    \/ Joins("abort_coordinators", Coordinators) \/ Joins("abort_loops", Loops)
    \/ Joins("abort_ping", {Ping})

Joined(set) == \A t \in set : task[t] = "joined"

Onward(from, to, ready) ==
    /\ pc = from /\ ready /\ pc' = to
    /\ UNCHANGED <<task, child, tokens, registered, record, failures, firstError, timedOut, failed, faults>>

CoordinatorsDone == Onward("coordinators", "loops", Joined(Coordinators))
LoopsDone == Onward("loops", "tasks", Joined(Loops))
PingDone == Onward("ping", "cleanup", Joined({Ping}))
AbortedLoopsDone == Onward("abort_loops", "abort_tasks", Joined(Loops))
AbortedPingDone == Onward("abort_ping", "done", Joined({Ping}))

NoDescendant == \A d \in Descendants : child[d] # "running"

(* Mutant of TasksDone: the heartbeat stops with the coordinators.         *)
TasksDoneEarly ==
    /\ pc = "tasks" /\ pc' = "ping" /\ pingCancel' = TRUE
    /\ UNCHANGED <<task, child, cancel, force, registered, record, failures, firstError, timedOut, failed, faults>>

(* runtime.tasks.wait(), and only then the heartbeat is stopped.           *)
TasksDone ==
    /\ pc = "tasks" /\ NoDescendant
    /\ pc' = "ping" /\ pingCancel' = TRUE
    /\ UNCHANGED <<task, child, cancel, force, registered, record, failures, firstError, timedOut, failed, faults>>

(* self_cleanup: the registration goes last, or the attempt fails.         *)
SelfCleanup ==
    /\ pc = "cleanup" /\ pc' = "done"
    /\ record' = "removed"
    /\ UNCHANGED <<task, child, tokens, registered, failures, firstError, timedOut, failed, faults>>

SelfCleanupFails ==
    /\ pc = "cleanup" /\ pc' = "done"
    /\ faults < MaxFailures /\ faults' = faults + 1
    /\ Fail("cleanup") /\ failed' = failed \cup {"cleanup"}
    /\ UNCHANGED <<task, child, force, pingCancel, registered, record, failures, timedOut>>

Abort(set) == task' = [t \in Tasks |-> IF t \in set /\ task[t] \in Live THEN "aborting" ELSE task[t]]

(* The deadline passes: everything is forced.  If self_cleanup was under   *)
(* way its command may have been executed.                                 *)
TimeUp ==
    /\ HasDeadline /\ pc \in Draining
    /\ pc' = "abort_coordinators" /\ timedOut' = TRUE /\ force' = TRUE
    /\ Abort(Coordinators)
    /\ record' \in IF pc = "cleanup" THEN {record, "removed"} ELSE {record}
    /\ UNCHANGED <<child, cancel, pingCancel, registered, failures, firstError, failed, faults>>

AbortLoops ==
    /\ pc = "abort_coordinators" /\ Joined(Coordinators)
    /\ pc' = "abort_loops" /\ Abort(Loops)
    /\ UNCHANGED <<child, tokens, registered, record, failures, firstError, timedOut, failed, faults>>

AbortPing ==
    /\ pc = "abort_tasks" /\ NoDescendant
    /\ pc' = "abort_ping" /\ pingCancel' = TRUE /\ Abort({Ping})
    /\ UNCHANGED <<child, cancel, force, registered, record, failures, firstError, timedOut, failed, faults>>

(* The future of run() is dropped: its JoinSets abort their tasks, and the *)
(* guard cancels the force token.                                          *)
DropRun ==
    /\ pc \notin {"done", "dropped"} /\ pc' = "dropped"
    /\ force' = TRUE /\ Abort(Tasks)
    /\ UNCHANGED <<child, cancel, pingCancel, registered, record, failures, firstError, timedOut, failed, faults>>

LauncherStep ==
    \/ JoinStep \/ CoordinatorsDone \/ LoopsDone \/ TasksDone \/ PingDone \/ SelfCleanup
    \/ AbortLoops \/ AbortedLoopsDone \/ AbortPing \/ AbortedPingDone

TaskStep(t) == Register(t) \/ Start(t) \/ Return(t) \/ Aborted(t)

Next ==
    \/ \E t \in Tasks : TaskStep(t) \/ RegisterFails(t) \/ Poll(t) \/ PollFails(t)
    \/ \E d \in Descendants : Beget(d) \/ Complete(d) \/ OwnedFails(d) \/ SpawnedFails(d) \/ Dropped(d)
    \/ Shutdown \/ LauncherStep \/ SelfCleanupFails \/ TimeUp \/ DropRun

Spec == Init /\ [][Next]_vars

(* Tasks obey their tokens and their aborts and futures are dropped; the   *)
(* deadline passes.  A descendant may run for ever.                        *)
FairSpec ==
    /\ Spec
    /\ WF_vars(LauncherStep) /\ WF_vars(TimeUp)
    /\ \A t \in Tasks : WF_vars(TaskStep(t))
    /\ \A d \in Descendants : WF_vars(Dropped(d))

-----------------------------------------------------------------------------
(* Type correctness, and the tolerance: beyond it every failure in a row   *)
(* has ended a task.                                                       *)
TypeOK ==
    /\ pc \in {"running", "done", "dropped", "abort_coordinators", "abort_loops", "abort_tasks",
               "abort_ping"} \cup Draining
    /\ task \in [Tasks -> Live \cup {"ok", "error", "aborted", "joined"}]
    /\ child \in [Descendants -> {"unborn", "running", "gone"}]
    /\ {cancel, force, pingCancel, timedOut} \subseteq BOOLEAN
    /\ registered \in BOOLEAN \cup {None} /\ record \in {"absent", "present", "removed"}
    /\ firstError \in Tasks \cup Descendants \cup {"cleanup", None}
    /\ failures < Tolerance + Cardinality(failed) /\ faults \in 0 .. MaxFailures

Working == {t \in Tasks \ {Ping} : task[t] \in {"running", "aborting"}} \cup
           {d \in Descendants : child[d] = "running"}

(* The launcher stops the heartbeat only when nothing of the process runs, *)
(* and removes the registration only when no heartbeat can write it again: *)
(* otherwise a peer would take over jobs that are still being executed.    *)
HeartbeatOutlastsWork ==
    /\ pingCancel => Working = {}
    /\ record = "removed" => task[Ping] \notin Live

(* Coordinators claim, and the resurrect loop sweeps, only after a ping    *)
(* has landed: the descendants of an unregistered process are none.        *)
RegisteredFirst ==
    record = "absent" => /\ \A t \in Coordinators \cup Sweepers : task[t] # "running"
                         /\ \A d \in Descendants : ParentOf[d] \in Coordinators => child[d] = "unborn"

(* run() returns Ok only if no task and no spawned descendant ended with   *)
(* an error and the drain met its deadline; an error it returns is of one  *)
(* that did.  A cancellation by the abort is not an error.                 *)
Outcome == IF firstError # None THEN firstError ELSE IF timedOut THEN "timeout" ELSE "ok"

ErrorsReported ==
    pc = "done" => /\ Outcome = "ok" <=> failed = {} /\ ~timedOut
                   /\ Outcome \in failed \cup {"ok", "timeout"}

(* When run() returns nothing it started is left running (the assertions   *)
(* on tasks and on the strong count of the runtime).                       *)
NothingLeaks == pc = "done" => Working = {} /\ task[Ping] = "joined"

(* With a deadline a shutdown ends even if a job hangs; and a dropped      *)
(* run() takes all its descendants with it.                                *)
Ending == pc = "dropped" \/ (HasDeadline /\ pc \in Draining)
Ended == pc = "done" \/ (pc = "dropped" /\ Working = {})

(* Shutdown is orderly: what claims jobs starts after the first heartbeat  *)
(* and stops before the last one, run() returns with nothing left running, *)
(* and what it returns is what happened.                                   *)
ShutdownOrderly ==
    TypeOK /\ HeartbeatOutlastsWork /\ RegisteredFirst /\ ErrorsReported /\ NothingLeaks
=============================================================================
