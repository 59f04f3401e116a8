------------------------------ MODULE Registry ------------------------------
(***************************************************************************)
(* Building a runtime: the registrations of workers and queues, the        *)
(* selection of the queues it runs, the checks of run(), and the catalog   *)
(* that the dashboard enqueues from, which may be taken before the last    *)
(* registration.  A registration that panics ends the build.               *)
(***************************************************************************)
EXTENDS Integers, FiniteSets, Functions

CONSTANTS
    Names,             \* job names and legacy names
    Keys,              \* keys of static queues, prefixes of dynamic ones
    Configs,           \* configurations of a queue, other than the default 0
    MaxRegistrations,  \* bound on the registrations of a build
    None

(* QueueKind: a static and a dynamic queue never share an identity.        *)
Queues == [key : Keys, dynamic : BOOLEAN]

VARIABLES
    jobs,        \* name -> the registration that serves it
    aliases,     \* legacy name -> job name
    schedules,   \* name of a cron job -> key of its queue
    onDemand,    \* names with a form on the dashboard
    queues,      \* registered queue -> its configuration, a number
    allowlist, denylist,
    phase,       \* "building", "panicked", "refused" or "running"
    running,     \* the coordinators and cron loops of the process
    catalog,     \* what the dashboard was given
    submitted,   \* the last job it enqueued
    serial,      \* number of registrations made
    explicit,    \* queue -> the configuration the user gave last
    claimed      \* legacy names that a worker asked for

registry == <<jobs, aliases, schedules, onDemand>>
settings == <<allowlist, denylist>>
vars == <<registry, queues, settings, phase, running, catalog, submitted,
          serial, explicit, claimed>>

Empty == [x \in {} |-> x]

Init ==
    /\ jobs = Empty /\ aliases = Empty /\ schedules = Empty /\ onDemand = {}
    /\ queues = Empty /\ explicit = Empty /\ claimed = {} /\ serial = 0
    /\ allowlist = {} /\ denylist = {}
    /\ phase = "building" /\ running = [queues |-> {}, crons |-> {}]
    /\ catalog = None /\ submitted = None

Put(f, x, v) == [y \in DOMAIN f \union {x} |-> IF y = x THEN v ELSE f[y]]
Remove(f, x) == Restrict(f, DOMAIN f \ {x})

-----------------------------------------------------------------------------
(* Mutant of AddLegacy: a job registered under the name is hidden.         *)
AddLegacyOverJob(as, js, name, legacy) ==
    IF legacy = name \/ legacy \in DOMAIN as THEN as ELSE Put(as, legacy, name)

(* register_legacy_name: first come, first served, and never over a job.   *)
AddLegacy(as, js, name, legacy) ==
    IF legacy = name \/ legacy \in js \/ legacy \in DOMAIN as THEN as
    ELSE Put(as, legacy, name)

Reschedule(name, cron) ==
    IF cron = None THEN Remove(schedules, name) ELSE Put(schedules, name, cron)

Offer(name, offered) ==
    IF offered THEN onDemand \union {name} ELSE onDemand \ {name}

(* WorkerRegistry::register_worker_with, which overwrites an earlier       *)
(* registration of the name.                                               *)
RegisterWorkerWith(name, legacy, cron, offered, typed) ==
    /\ serial' = serial + 1
    /\ jobs' = Put(jobs, name, [typed |-> typed, offered |-> offered])
    /\ onDemand' = Offer(name, offered)
    /\ schedules' = Reschedule(name, cron)
    /\ aliases' = AddLegacy(Remove(aliases, name), DOMAIN jobs', name, legacy)
    /\ claimed' = claimed \union {legacy}
    /\ UNCHANGED <<settings, phase, running, catalog, submitted, explicit>>

Building == phase = "building" /\ serial < MaxRegistrations

(* The default configuration of a cron queue, number 0, when the queue is  *)
(* not registered.                                                         *)
RegisterDefaultQueue(key) ==
    LET q == [key |-> key, dynamic |-> FALSE] IN
    queues' = IF q \in DOMAIN queues THEN queues ELSE Put(queues, q, 0)

(* A typed worker, the legacy name of which is the name of its type.       *)
RegisterWorker(name, legacy, offered) ==
    /\ Building
    /\ RegisterWorkerWith(name, legacy, None, offered, TRUE)
    /\ UNCHANGED queues

RegisterCronWorker(name, legacy, key, offered) ==
    /\ Building
    /\ RegisterDefaultQueue(key)
    /\ RegisterWorkerWith(name, legacy, key, offered, TRUE)

(* A worker described by hand; as a cron it is refused below.              *)
RegisterManually(name, legacy) ==
    /\ Building
    /\ RegisterWorkerWith(name, legacy, None, FALSE, FALSE)
    /\ UNCHANGED queues

(* A cron described by hand, on a dynamic queue, with arguments that do    *)
(* not come from {}, or with a schedule that does not parse.               *)
RegistrationPanics ==
    /\ Building /\ phase' = "panicked"
    /\ UNCHANGED <<registry, queues, settings, running, catalog, submitted,
                   serial, explicit, claimed>>

RegisterQueueWith(q, config) ==
    /\ Building /\ serial' = serial + 1
    /\ queues' = Put(queues, q, config) /\ explicit' = Put(explicit, q, config)
    /\ UNCHANGED <<registry, settings, phase, running, catalog, submitted, claimed>>

(* The two selections commute with the registrations: they come first.     *)
Selecting == phase = "building" /\ serial = 0

OnlyQueue(q) ==
    /\ Selecting /\ allowlist' = allowlist \union {q}
    /\ UNCHANGED <<registry, queues, denylist, phase, running, catalog, submitted,
                   serial, explicit, claimed>>

ExceptQueue(q) ==
    /\ Selecting /\ denylist' = denylist \union {q}
    /\ UNCHANGED <<registry, queues, allowlist, phase, running, catalog, submitted,
                   serial, explicit, claimed>>

-----------------------------------------------------------------------------
RunsQueue(q) == (allowlist = {} \/ q \in allowlist) /\ q \notin denylist

RunsStaticQueue(key) ==
    /\ allowlist = {} \/ \E q \in allowlist : ~q.dynamic /\ q.key = key
    /\ ~\E q \in denylist : ~q.dynamic /\ q.key = key

Selected == allowlist \union denylist \subseteq DOMAIN queues

(* run() refuses a selection of queues that are not registered, and then   *)
(* starts a coordinator per queue and a loop per cron job it runs.         *)
Run ==
    /\ phase = "building"
    /\ IF Selected
       THEN /\ phase' = "running"
            /\ running' = [queues |-> {q \in DOMAIN queues : RunsQueue(q)},
                           crons  |-> {n \in DOMAIN schedules : RunsStaticQueue(schedules[n])}]
       ELSE phase' = "refused" /\ UNCHANGED running
    /\ UNCHANGED <<registry, queues, settings, catalog, submitted, serial, explicit, claimed>>

CatalogWithQueues ==
    [cron |-> schedules, onDemand |-> onDemand, queues |-> DOMAIN queues]

(* The application hands a catalog to the dashboard.                       *)
TakeCatalog ==
    /\ phase = "building" /\ catalog = None /\ catalog' = CatalogWithQueues
    /\ UNCHANGED <<registry, queues, settings, phase, running, submitted, serial,
                   explicit, claimed>>

(* on_demand_envelope_from_form: a form names a static queue and a job     *)
(* with a form; an error otherwise, and for arguments that do not parse.   *)
OnDemandEnvelope(name, key) ==
    IF [key |-> key, dynamic |-> FALSE] \in catalog.queues /\ name \in catalog.onDemand
    THEN [name |-> name, key |-> key] ELSE None

(* cron_envelope_from_form: to the queue of the schedule.                  *)
CronEnvelope(name) ==
    IF name \in DOMAIN catalog.cron THEN [name |-> name, key |-> catalog.cron[name]] ELSE None

Submit(envelope) ==
    /\ phase = "running" /\ envelope # None /\ submitted' = envelope
    /\ UNCHANGED <<registry, queues, settings, phase, running, catalog, serial,
                   explicit, claimed>>

SubmitOnDemand(name, key) == catalog # None /\ Submit(OnDemandEnvelope(name, key))

SubmitCron(name) == catalog # None /\ Submit(CronEnvelope(name))

Next ==
    \/ \E n, l \in Names, o \in BOOLEAN :
          \/ RegisterWorker(n, l, o)
          \/ \E k \in Keys : RegisterCronWorker(n, l, k, o)
    \/ \E n, l \in Names : RegisterManually(n, l)
    \/ RegistrationPanics
    \/ \E q \in Queues :
          OnlyQueue(q) \/ ExceptQueue(q) \/ \E c \in Configs : RegisterQueueWith(q, c)
    \/ Run \/ TakeCatalog
    \/ \E n \in Names : SubmitCron(n) \/ \E k \in Keys : SubmitOnDemand(n, k)

Spec == Init /\ [][Next]_vars

-----------------------------------------------------------------------------
(* resolve_name: a job before an alias.                                    *)
ResolveName(name) ==
    IF name \in DOMAIN jobs THEN name
    ELSE IF name \in DOMAIN aliases THEN aliases[name] ELSE name

Buildable(name) == ResolveName(name) \in DOMAIN jobs

(* A name that a queued job carries, a job name or a legacy name that a    *)
(* worker ever asked for, resolves to a registered job, and no alias hides *)
(* a job.                                                                  *)
NamesResolve ==
    /\ \A n \in DOMAIN jobs \union claimed : Buildable(n)
    /\ DOMAIN aliases \intersect DOMAIN jobs = {}

(* No registration changes which job a queued name means, except the       *)
(* registration of that very name: jobs of an old release do not move to   *)
(* another worker because of the order of the registrations.               *)
MeaningUnchanged ==
    \A n \in Names :
        Buildable(n) /\ ResolveName(n)' # ResolveName(n) => n \in DOMAIN jobs' \ DOMAIN jobs

(* What a cron loop needs is there: cron_envelope never meets a schedule   *)
(* without a typed factory, and a form comes from the registration that    *)
(* runs the job.                                                           *)
RegistrationsWhole ==
    /\ \A n \in DOMAIN schedules : n \in DOMAIN jobs /\ jobs[n].typed
    /\ onDemand = {n \in DOMAIN jobs : jobs[n].offered}

(* An implicit cron queue never replaces a declared one.                   *)
DeclaredQueueKept == \A q \in DOMAIN explicit : queues[q] = explicit[q]

(* A process runs exactly the cron loops of the queues it serves, and the  *)
(* queues it was told to serve exist: a schedule is neither produced for a *)
(* queue nobody reads here nor left out.                                   *)
SelectionExact ==
    phase = "running" =>
        /\ running.crons = {n \in DOMAIN schedules :
                               [key |-> schedules[n], dynamic |-> FALSE] \in running.queues}
        /\ allowlist # {} => running.queues = allowlist \ denylist
        /\ running.queues \union denylist \subseteq DOMAIN queues

(* A job that the dashboard submits from a stale catalog still names a     *)
(* registered job and a static queue.                                      *)
SubmissionsRunnable ==
    submitted # None =>
        /\ Buildable(submitted.name)
        /\ [key |-> submitted.key, dynamic |-> FALSE] \in DOMAIN queues

(* A registry is sound: queued names keep their jobs, registrations are    *)
(* whole, declared queues stay, the selection is exact, and what the       *)
(* dashboard submits can run.                                              *)
RegistrySound ==
    /\ NamesResolve /\ RegistrationsWhole /\ DeclaredQueueKept
    /\ SelectionExact /\ SubmissionsRunnable
=============================================================================
