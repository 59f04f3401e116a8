----------------------------- MODULE MCProcess -----------------------------
(***************************************************************************)
(* Instances for TLC of the parts of a process that keep no job data of    *)
(* their own: its launcher, its result collectors, a drain and the retries *)
(* made with a claim in hand.  They are checked side by side, not          *)
(* composed: `part` says which of them a behaviour is about, and           *)
(* a variable that several of them declare is theirs in turn.              *)
(***************************************************************************)
EXTENDS Naturals

CONSTANTS
    Coordinators, Polls, Sweepers, Owned, Spawned, HasDeadline, Tolerance, MaxFailures, Ping, None,
    Collectors, Queues, JobCounts, ExitWhen, MaxResults, MaxFaults, MaxEvents,
    MaxLength,
    Drains, Ids, DrainFaults, MaxRequeues,
    Window, Initial, Ceiling, LongestTry

VARIABLES
    part,
    pc, task, child, cancel, force, pingCancel, registered, record, failures, firstError, timedOut,
    failed, faults,
    channel, open, metrics, pending, active, stats, stored, snapshot, received, extra, gaveUp, results,
    queue, payload, dead, claims, beating, hand, result, missing, requeues, lapsed,
    kind, now, deadline, backoff, error, attempts

ParentOf == [d \in Owned \cup Spawned |-> IF d \in Spawned THEN "c1" ELSE "cron"]
CollectorOf == [q \in Queues |-> IF q = "d" THEN "c2" ELSE "c1"]

Launcher == INSTANCE Launcher
Collector == INSTANCE ResultCollector
Drainer == INSTANCE Drainer WITH MaxFaults <- DrainFaults
Retries == INSTANCE ClaimRetry

ASSUME ProcessAssumption ==
    /\ Launcher!LauncherAssumption /\ Collector!CollectorAssumption
    /\ Drainer!DrainerAssumption /\ Retries!RetryAssumption

(* The variables that only one of the parts, or only two of them, declare. *)
ofLauncher == <<task, child, force, pingCancel, registered, firstError, timedOut, failed>>
ofCollector == <<channel, open, metrics, pending, active, stored, snapshot, received, extra, gaveUp,
                 results>>
ofDrainer == <<queue, payload, dead, claims, beating, hand, missing, requeues, lapsed>>
ofRetries == <<kind, now, deadline, backoff, error, attempts>>

notLauncher == <<ofCollector, ofDrainer, ofRetries, stats, result>>
notCollector == <<ofLauncher, ofDrainer, ofRetries, record, result>>
notDrainer == <<ofLauncher, ofCollector, ofRetries, cancel, failures>>
notRetries == <<ofLauncher, ofCollector, ofDrainer, cancel, failures, record, stats, faults>>
vars == <<part, pc, notRetries, ofRetries, result>>

Launching == part = "launcher"
Collecting == part = "collector"
Draining == part = "drainer"
Retrying == part = "retries"

(* The variables of the parts that a behaviour is not about.               *)
NoLauncher ==
    /\ task = "unused" /\ child = "unused" /\ force = "unused" /\ pingCancel = "unused"
    /\ registered = "unused" /\ firstError = "unused" /\ timedOut = "unused" /\ failed = "unused"

NoCollector ==
    /\ channel = "unused" /\ open = "unused" /\ metrics = "unused" /\ pending = "unused"
    /\ active = "unused" /\ stored = "unused" /\ snapshot = "unused" /\ received = "unused"
    /\ extra = "unused" /\ gaveUp = "unused" /\ results = "unused"

NoDrainer ==
    /\ queue = "unused" /\ payload = "unused" /\ dead = "unused" /\ claims = "unused"
    /\ beating = "unused" /\ hand = "unused" /\ missing = "unused" /\ requeues = "unused"
    /\ lapsed = "unused"

NoRetries ==
    /\ kind = "unused" /\ now = "unused" /\ deadline = "unused" /\ backoff = "unused"
    /\ error = "unused" /\ attempts = "unused"

Init ==
    \/ /\ Launching /\ Launcher!Init
       /\ NoCollector /\ NoDrainer /\ NoRetries /\ stats = "unused" /\ result = "unused"
    \/ /\ Collecting /\ Collector!Init
       /\ NoLauncher /\ NoDrainer /\ NoRetries /\ record = "unused" /\ result = "unused"
    \/ /\ Draining /\ Drainer!Init
       /\ NoLauncher /\ NoCollector /\ NoRetries /\ cancel = "unused" /\ failures = "unused"
    \/ /\ Retrying /\ Retries!Init
       /\ NoLauncher /\ NoCollector /\ NoDrainer
       /\ cancel = "unused" /\ failures = "unused" /\ record = "unused" /\ stats = "unused"
       /\ faults = "unused"

Next ==
    /\ UNCHANGED part
    /\ \/ Launching /\ Launcher!Next /\ UNCHANGED notLauncher
       \/ Collecting /\ Collector!Next /\ UNCHANGED notCollector
       \/ Draining /\ Drainer!Next /\ UNCHANGED notDrainer
       \/ Retrying /\ Retries!Next /\ UNCHANGED notRetries

Spec == Init /\ [][Next]_vars

(* The fairness of the four specifications, each of its own behaviours.    *)
FairSpec ==
    /\ Spec
    /\ WF_(Launcher!vars)(Launching /\ Launcher!LauncherStep)
    /\ WF_(Launcher!vars)(Launching /\ Launcher!TimeUp)
    /\ \A t \in Launcher!Tasks : WF_(Launcher!vars)(Launching /\ Launcher!TaskStep(t))
    /\ \A d \in Launcher!Descendants : WF_(Launcher!vars)(Launching /\ Launcher!Dropped(d))
    /\ \A c \in Collectors :
          /\ WF_(Collector!vars)(Collecting /\ Collector!Hangup(c))
          /\ WF_(Collector!vars)(Collecting /\ Collector!Receive(c))
          /\ WF_(Collector!vars)(Collecting /\ Collector!Exit(c))
          /\ WF_(Collector!vars)(Collecting /\ pc[c] # "running" /\ Collector!Flush(c))
    /\ \A d \in Drains :
          /\ WF_(Drainer!vars)(Draining /\ Drainer!Work(d))
          /\ WF_(Drainer!vars)(Draining /\ Drainer!Expire(d))
          /\ WF_(Drainer!vars)(Draining /\ Drainer!Sweep(d))
    /\ WF_(Retries!vars)(Retrying /\ Retries!Next)

-----------------------------------------------------------------------------
(* What claims jobs starts after the first heartbeat and stops before the  *)
(* last one, run() returns with nothing left running, and what it returns  *)
(* is what happened.                                                       *)
ShutdownOrderly == Launching => Launcher!ShutdownOrderly

(* Every result is counted once, in memory or in Redis, whatever flush     *)
(* fails; none is left behind at the exit; queues, outcomes and process    *)
(* agree; and no length that is shown goes stale.                          *)
StatisticsSound == Collecting => Collector!StatisticsSound

(* A drain has its jobs alone while its heartbeat lives, and returns Ok    *)
(* only when it settled all it took.                                       *)
DrainSound == Draining => Drainer!DrainSound

(* A retry of a claim keeps to its window and to a bounded number of       *)
(* attempts, and returns an error that it met.                             *)
RetryBounded == Retrying => Retries!RetryBounded

Ending ==
    \/ Launching /\ Launcher!Ending
    \/ Collecting /\ Collector!ToldToEnd
    \/ Draining /\ ~Drainer!NoClaimLeft
    \/ Retrying /\ ~Retries!Returned

Ended ==
    \/ Launching /\ Launcher!Ended
    \/ Collecting /\ Collector!AllEnded
    \/ Draining /\ Drainer!NoClaimLeft
    \/ Retrying /\ Retries!Returned

(* What is told to end does: a shutdown with a deadline although a job     *)
(* hangs, the descendants of a dropped run(), the collectors of a process  *)
(* that is cancelled or has processed enough, the claims of a drain that   *)
(* is gone however it ended, a call that is retried.                       *)
EverythingEnds == Ending ~> Ended
=============================================================================
