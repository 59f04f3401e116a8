---------------------------- MODULE FailureReport ---------------------------
(***************************************************************************)
(* The report of a failed execution: what the Sentry client of the         *)
(* application receives while a worker runs, panics and unwinds, what the  *)
(* reporter is told, and what then happens to the jobs of the execution.   *)
(***************************************************************************)
EXTENDS Naturals, Sequences, FiniteSets

CONSTANTS
    Jobs,        \* the jobs of the execution, 1 .. n
    MaxRetries,  \* bound on the retries a job has had and is allowed
    MaxCrumbs,   \* bound on the breadcrumbs of the worker
    MaxCaptures, \* bound on the events it captures itself
    None

Origins == {"worker", "destructor", "hook", "nested", "fallback", "error"}
Events == [origin : Origins, crumbs : Nat, metadata : BOOLEAN, handled : BOOLEAN]

(* What is assumed of the constants: None is neither an event nor a report.*)
FailureAssumption ==
    /\ Jobs \subseteq Nat /\ {MaxRetries, MaxCrumbs, MaxCaptures} \subseteq Nat
    /\ None \notin Events /\ None \notin [Jobs -> BOOLEAN]

VARIABLES
    build,      \* features: "none", "sentry" or "sentry-panic"
    custom,     \* whether a failure_reporter is set
    hook,       \* whether the application installed Sentry's panic hook
    policy,     \* per job: retries made and allowed
    pc,         \* "running", "unwinding", "caught", "returned" or "handled"
    failure,    \* "error" or "panic", None before
    crumbs,     \* breadcrumbs in the scope of the execution
    captures,   \* events the worker and its destructors captured
    retained,   \* the panic event kept by the event processor
    sent,       \* events that left the client
    calls,      \* reports handed to the custom reporter
    report,     \* per job: will_retry
    fate,       \* per job: "claimed", "retry" or "dead"
    broke       \* a transition failed: the remaining claims are left

vars == <<build, custom, hook, policy, pc, failure, crumbs, captures, retained,
          sent, calls, report, fate, broke>>

Policies == [retries : 0 .. MaxRetries, max : 0 .. MaxRetries]

Init ==
    /\ build \in {"none", "sentry", "sentry-panic"}
    /\ custom \in BOOLEAN /\ hook \in BOOLEAN
    /\ policy \in [Jobs -> Policies]
    /\ pc = "running" /\ failure = None /\ crumbs = 0 /\ captures = 0
    /\ retained = None /\ sent = <<>> /\ calls = 0
    /\ report = None /\ fate = [j \in Jobs |-> "claimed"] /\ broke = FALSE

settings == <<build, custom, hook, policy>>
outcome == <<calls, report, fate, broke>>

(* An event as the client applies a scope to it: the breadcrumbs of the    *)
(* scope are appended to its own.                                          *)
Applied(event, scope) == [event EXCEPT !.crumbs = @ + scope]

Event(origin) == [origin |-> origin, crumbs |-> 0, metadata |-> FALSE, handled |-> FALSE]

-----------------------------------------------------------------------------
(* is_panic_integration_event                                              *)
FromHook(event) == event.origin \in {"hook", "nested"}

(* The event processor of the execution's scope: while the thread unwinds  *)
(* nothing is sent, and the first event of the panic hook is kept.         *)
Processed(event) ==
    /\ retained' = IF build = "sentry-panic" /\ FromHook(event) /\ retained = None
                   THEN event ELSE retained
    /\ sent' = IF build # "none" /\ pc' = "unwinding" THEN sent ELSE Append(sent, event)

LeaveCrumb ==
    /\ pc = "running" /\ crumbs < MaxCrumbs /\ crumbs' = crumbs + 1
    /\ UNCHANGED <<settings, pc, failure, captures, retained, sent, outcome>>

(* The worker captures an event of its own; so do destructors, while the   *)
(* thread unwinds.                                                         *)
Capture ==
    /\ pc \in {"running", "unwinding"} /\ captures < MaxCaptures
    /\ captures' = captures + 1 /\ pc' = pc
    /\ IF pc = "unwinding" THEN Processed(Applied(Event("destructor"), crumbs))
       ELSE sent' = Append(sent, Applied(Event("worker"), crumbs)) /\ UNCHANGED retained
    /\ UNCHANGED <<settings, failure, crumbs, outcome>>

(* The panic hook runs first, in the panicking thread.                     *)
Panic ==
    /\ pc = "running" /\ pc' = "unwinding" /\ failure' = "panic"
    /\ IF hook THEN Processed(Applied(Event("hook"), crumbs)) ELSE UNCHANGED <<retained, sent>>
    /\ UNCHANGED <<settings, crumbs, captures, outcome>>

(* A destructor panics too, and catches it: the hook runs once more.       *)
PanicAgain ==
    /\ pc = "unwinding" /\ hook /\ captures < MaxCaptures /\ captures' = captures + 1
    /\ pc' = pc /\ Processed(Applied(Event("nested"), crumbs))
    /\ UNCHANGED <<settings, failure, crumbs, outcome>>

Catch ==
    /\ pc = "unwinding" /\ pc' = "caught"
    /\ UNCHANGED <<settings, failure, crumbs, captures, retained, sent, outcome>>

Fails ==
    /\ pc = "running" /\ pc' = "caught" /\ failure' = "error"
    /\ UNCHANGED <<settings, crumbs, captures, retained, sent, outcome>>

Succeeds ==
    /\ pc = "running" /\ pc' = "handled"
    /\ UNCHANGED <<settings, failure, crumbs, captures, retained, sent, outcome>>

-----------------------------------------------------------------------------
(* Mutant of PanicReport: the retained event goes through the execution's  *)
(* own scope.                                                              *)
PanicReportOnHub ==
    IF retained # None THEN Applied([retained EXCEPT !.handled = TRUE], crumbs)
    ELSE [Applied(Event("fallback"), crumbs) EXCEPT !.handled = TRUE]

(* The retained event already went through the scope of the execution and  *)
(* is captured with a fresh one; a fallback is made when there is none.    *)
PanicReport ==
    IF retained # None THEN Applied([retained EXCEPT !.handled = TRUE], 0)
    ELSE [Applied(Event("fallback"), crumbs) EXCEPT !.handled = TRUE]

(* default_sentry_report                                                   *)
DefaultReport ==
    IF failure = "error" THEN <<Applied(Event("error"), crumbs)>>
    ELSE IF build = "sentry-panic" THEN <<PanicReport>> ELSE <<>>

WithMetadata(events) == [i \in DOMAIN events |-> [events[i] EXCEPT !.metadata = TRUE]]

(* failure_metadata                                                        *)
WillRetry(p) == p.retries < p.max

(* report_failure: a custom reporter replaces the default one.             *)
Report ==
    /\ pc = "caught" /\ pc' = "returned"
    /\ report' = [j \in Jobs |-> WillRetry(policy[j])]
    /\ IF custom THEN calls' = calls + 1 /\ UNCHANGED <<retained, sent>>
       ELSE /\ UNCHANGED calls
            /\ sent' = IF build = "none" THEN sent ELSE sent \o WithMetadata(DefaultReport)
            /\ retained' = IF build = "none" \/ failure = "error" THEN retained ELSE None
    /\ UNCHANGED <<settings, failure, crumbs, captures, fate, broke>>

(* handle_err, job after job.                                              *)
HandleErr ==
    /\ pc = "returned" /\ ~broke /\ \E j \in Jobs : fate[j] = "claimed"
    /\ LET j == CHOOSE j \in Jobs : fate[j] = "claimed"
                                 /\ \A k \in Jobs : fate[k] = "claimed" => j <= k
       IN  \/ /\ fate' = [fate EXCEPT ![j] =
                             IF policy[j].retries < policy[j].max THEN "retry" ELSE "dead"]
              /\ UNCHANGED broke
           \/ broke' = TRUE /\ UNCHANGED fate
    /\ UNCHANGED <<settings, pc, failure, crumbs, captures, retained, sent, calls, report>>

Next ==
    \/ LeaveCrumb \/ Capture \/ Panic \/ PanicAgain \/ Catch \/ Fails \/ Succeeds
    \/ Report \/ HandleErr

Spec == Init /\ [][Next]_vars

-----------------------------------------------------------------------------
Failures == {i \in DOMAIN sent : sent[i].metadata}

(* A failed execution is reported exactly once: to the custom reporter, or *)
(* as one event with the metadata of the execution when the build has a    *)
(* reporter for it.  Nothing captured while the thread unwinds is sent     *)
(* beside it, and the panic that is reported is the worker's, not that of  *)
(* a destructor.                                                           *)
ReportedOnce ==
    /\ pc = "returned" =>
          /\ calls = IF custom THEN 1 ELSE 0
          /\ Cardinality(Failures) =
                IF ~custom /\ (build = "sentry-panic" \/ (build = "sentry" /\ failure = "error"))
                THEN 1 ELSE 0
    /\ build # "none" =>
          \A i \in DOMAIN sent :
             /\ sent[i].origin \notin {"destructor", "nested"}
             /\ sent[i].origin = "hook" => sent[i].metadata /\ sent[i].handled

(* No event carries a breadcrumb of the worker twice, the retained panic   *)
(* event included, and the report of a failure carries all of them.        *)
CrumbsOnce ==
    \A i \in DOMAIN sent :
        /\ sent[i].crumbs <= crumbs
        /\ sent[i].metadata => sent[i].crumbs = crumbs

(* What the reporter is told about the retries of every job of the batch   *)
(* is what happens to it, in builds and batches where one transition fails *)
(* too.                                                                    *)
ReportTrue ==
    \A j \in Jobs : /\ fate[j] # "claimed" => report # None
                    /\ fate[j] = "retry" => report[j]
                    /\ fate[j] = "dead" => ~report[j]

(* A failed execution is reported once, with the trail of its worker, and  *)
(* truly about what follows.                                               *)
ReportsSound == ReportedOnce /\ CrumbsOnce /\ ReportTrue
=============================================================================
