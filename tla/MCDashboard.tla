---------------------------- MODULE MCDashboard ----------------------------
(***************************************************************************)
(* Instances for TLC of what the dashboard and its users read and write:   *)
(* the queue settings, the metrics, the queue statistics, the job pages,   *)
(* the tables, the registry that its forms come from, the jobs in work and *)
(* the charts.  They are checked side by side, not composed: `part` says   *)
(* which of them a behaviour is about.                                     *)
(***************************************************************************)
EXTENDS Naturals, Sequences, TLC

CONSTANTS
    ConfigQueues, ConfigChildren, ConfigBase, DefaultLimit, DynamicLimit, Limits, Clients, Unset, MaxOps,
    Workers, MetricQueues, Durations, JobCounts, TicksPerMinute, MaxMinutes, DefaultMinutes,
    BucketCap, LastTick, MaxResults,
    ChildKeys, None, Lost, Ttl, MaxLength, MaxAge, MaxSteps,
    Ids, PerPage, MaxPage, MaxLimit, DeadLimit, MaxMoves,
    Values, Segments, MaxSegments, MaxEntries,
    Names, Keys, Configs, MaxRegistrations,
    Procs, WorkIds, Threshold, MaxClock, WorkMoves,
    ChartKeys, MaxWindow, MaxSamples, FineWindow, MidWindow, MidBucket, WideBucket, Cap, MaxTotal

VARIABLES
    part, counters,
    stored, client, ops,
    clock, buffer, queued, histogram, expires, log, results,
    length, head, snapshot, sample, done, drift, steps,
    queue, dead, payload, reviving, moves, request, kept, steady, stays,
    table, column, desc, names, shown, rows,
    jobs, aliases, schedules, onDemand, queues, allowlist, denylist, phase, running,
    catalog, submitted, serial, explicit, claimed,
    now, life, beating, score, record, claims, waiting, envelopes, shifts, reader, held, always,
    registered, quiet,
    kind, input, output

(* A queue and the dynamic ones under its prefix; two dynamic queues of    *)
(* one prefix; a histogram of two buckets; the runtimes of one OS process. *)
Settings == INSTANCE QueueConfigStore WITH
    Queues <- ConfigQueues,
    BaseOf <- [q \in ConfigQueues |-> IF q \in ConfigChildren THEN ConfigBase ELSE q],
    Default <- [q \in ConfigQueues |-> DefaultLimit]
Metrics == INSTANCE Metrics WITH Queues <- MetricQueues, Bounds <- <<2>>
Stats == INSTANCE QueueStats WITH
    Keys <- {"a"} \union ChildKeys,
    BaseOf <- [k \in {"a"} \union ChildKeys |-> IF k = "a" THEN "a" ELSE "d"]
Pages == INSTANCE Dashboard
Tables == INSTANCE Listing
Registry == INSTANCE Registry
Work == INSTANCE Overview WITH
    Ids <- WorkIds, LabelOf <- [p \in Procs |-> "a"], MaxMoves <- WorkMoves,
    clock <- now, queue <- waiting, payload <- envelopes, moves <- shifts, steady <- registered
Charts == INSTANCE Charts WITH Keys <- ChartKeys

ASSUME SettingsAssumption == Settings!QueueConfigAssumption
ASSUME PagesAssumption == Pages!DashboardAssumption
ASSUME WorkAssumption == Work!OverviewAssumption

Symmetry == Permutations(Clients) \union Permutations(Names) \union Permutations(ChildKeys)

(* The variables that one part declares alone.                             *)
ofSettings == <<stored, client, ops>>
ofMetrics == <<clock, buffer, queued, histogram, expires, log, results>>
ofStats == <<length, head, snapshot, sample, done, drift, steps>>
ofPages == <<queue, dead, payload, reviving, moves, request, kept, steady, stays>>
ofTables == <<table, column, desc, names, shown, rows>>
ofRegistry == <<jobs, aliases, schedules, onDemand, queues, allowlist, denylist, phase, running,
                catalog, submitted, serial, explicit, claimed>>
ofWork == <<now, life, beating, score, record, claims, waiting, envelopes, shifts, reader, held,
            always, registered, quiet>>
ofCharts == <<kind, input, output>>

notSettings == <<ofMetrics, ofStats, ofPages, ofTables, ofRegistry, ofWork, ofCharts, counters>>
notMetrics == <<ofSettings, ofStats, ofPages, ofTables, ofRegistry, ofWork, ofCharts>>
notStats == <<ofSettings, ofMetrics, ofPages, ofTables, ofRegistry, ofWork, ofCharts>>
notPages == <<ofSettings, ofMetrics, ofStats, ofTables, ofRegistry, ofWork, ofCharts, counters>>
notTables == <<ofSettings, ofMetrics, ofStats, ofPages, ofRegistry, ofWork, ofCharts, counters>>
notRegistry == <<ofSettings, ofMetrics, ofStats, ofPages, ofTables, ofWork, ofCharts, counters>>
notWork == <<ofSettings, ofMetrics, ofStats, ofPages, ofTables, ofRegistry, ofCharts, counters>>
notCharts == <<ofSettings, ofMetrics, ofStats, ofPages, ofTables, ofRegistry, ofWork, counters>>
vars == <<part, notCharts, ofCharts>>

Configuring == part = "settings"
Measuring == part = "metrics"
Counting == part = "stats"
Paging == part = "pages"
Listing == part = "tables"
Registering == part = "registry"
Working == part = "work"
Drawing == part = "charts"

(* The variables of the parts that a behaviour is not about.               *)
NoSettings ==
    /\ stored = "unused" /\ client = "unused" /\ ops = "unused"

NoMetrics ==
    /\ clock = "unused" /\ buffer = "unused" /\ queued = "unused" /\ histogram = "unused"
    /\ expires = "unused" /\ log = "unused" /\ results = "unused"

NoStats ==
    /\ length = "unused" /\ head = "unused" /\ snapshot = "unused" /\ sample = "unused"
    /\ done = "unused" /\ drift = "unused" /\ steps = "unused"

NoPages ==
    /\ queue = "unused" /\ dead = "unused" /\ payload = "unused" /\ reviving = "unused"
    /\ moves = "unused" /\ request = "unused" /\ kept = "unused" /\ steady = "unused"
    /\ stays = "unused"

NoTables ==
    /\ table = "unused" /\ column = "unused" /\ desc = "unused" /\ names = "unused"
    /\ shown = "unused" /\ rows = "unused"

NoRegistry ==
    /\ jobs = "unused" /\ aliases = "unused" /\ schedules = "unused" /\ onDemand = "unused"
    /\ queues = "unused" /\ allowlist = "unused" /\ denylist = "unused" /\ phase = "unused"
    /\ running = "unused" /\ catalog = "unused" /\ submitted = "unused" /\ serial = "unused"
    /\ explicit = "unused" /\ claimed = "unused"

NoWork ==
    /\ now = "unused" /\ life = "unused" /\ beating = "unused" /\ score = "unused"
    /\ record = "unused" /\ claims = "unused" /\ waiting = "unused" /\ envelopes = "unused"
    /\ shifts = "unused" /\ reader = "unused" /\ held = "unused" /\ always = "unused"
    /\ registered = "unused" /\ quiet = "unused"

NoCharts == kind = "unused" /\ input = "unused" /\ output = "unused"

Init ==
    \/ /\ Configuring /\ Settings!Init
       /\ NoMetrics /\ NoStats /\ NoPages /\ NoTables /\ NoRegistry /\ NoWork /\ NoCharts
       /\ counters = "unused"
    \/ /\ Measuring /\ Metrics!Init
       /\ NoSettings /\ NoStats /\ NoPages /\ NoTables /\ NoRegistry /\ NoWork /\ NoCharts
    \/ /\ Counting /\ Stats!Init
       /\ NoSettings /\ NoMetrics /\ NoPages /\ NoTables /\ NoRegistry /\ NoWork /\ NoCharts
    \/ /\ Paging /\ Pages!Init
       /\ NoSettings /\ NoMetrics /\ NoStats /\ NoTables /\ NoRegistry /\ NoWork /\ NoCharts
       /\ counters = "unused"
    \/ /\ Listing /\ Tables!Init
       /\ NoSettings /\ NoMetrics /\ NoStats /\ NoPages /\ NoRegistry /\ NoWork /\ NoCharts
       /\ counters = "unused"
    \/ /\ Registering /\ Registry!Init
       /\ NoSettings /\ NoMetrics /\ NoStats /\ NoPages /\ NoTables /\ NoWork /\ NoCharts
       /\ counters = "unused"
    \/ /\ Working /\ Work!Init
       /\ NoSettings /\ NoMetrics /\ NoStats /\ NoPages /\ NoTables /\ NoRegistry /\ NoCharts
       /\ counters = "unused"
    \/ /\ Drawing /\ Charts!Init
       /\ NoSettings /\ NoMetrics /\ NoStats /\ NoPages /\ NoTables /\ NoRegistry /\ NoWork
       /\ counters = "unused"

Next ==
    /\ UNCHANGED part
    /\ \/ Configuring /\ Settings!Next /\ UNCHANGED notSettings
       \/ Measuring /\ Metrics!Next /\ UNCHANGED notMetrics
       \/ Counting /\ Stats!Next /\ UNCHANGED notStats
       \/ Paging /\ Pages!Next /\ UNCHANGED notPages
       \/ Listing /\ Tables!Next /\ UNCHANGED notTables
       \/ Registering /\ Registry!Next /\ UNCHANGED notRegistry
       \/ Working /\ Work!Next /\ UNCHANGED notWork
       \/ Drawing /\ Charts!Next /\ UNCHANGED notCharts

Spec == Init /\ [][Next]_vars

-----------------------------------------------------------------------------
(* The dashboard shows the configuration that the workers of a queue run   *)
(* with, and says "override" exactly of those that differ from what they   *)
(* would inherit, whatever the hash holds.                                 *)
SettingsShown == Configuring => Settings!SettingsShown

(* The metrics answer for exactly what happened in their window, no queue  *)
(* is hidden, every length shown is recent, and the numbers of queues,     *)
(* groups, pages and exports agree.                                        *)
NumbersAddUp ==
    /\ Measuring => Metrics!MetricsExact
    /\ Counting => Stats!StatsAgree

(* What is answered about jobs that move meanwhile is true of those that   *)
(* stayed: a job is found, a page exact, a walk complete, and a job shown  *)
(* in work exactly when a listed process held it.                          *)
PagesTrue ==
    /\ Paging => Pages!PagesTrue
    /\ Working => Work!WorkShown

(* What is drawn is what was read: tables have a total order, trees put    *)
(* every job under its own groups, charts sum what lies between their      *)
(* timestamps, and a progress bar stays within its frame.                  *)
ViewsFaithful ==
    /\ Listing => Tables!TablesFaithful
    /\ Drawing => Charts!ChartsFaithful

(* Queued names keep their jobs, registrations are whole, declared queues  *)
(* stay, a process runs exactly the cron loops of its queues, and what the *)
(* dashboard submits from a stale catalog can run.                         *)
RegistrySound == Registering => Registry!RegistrySound

(* An operation on the settings that nobody interferes with has its effect *)
(* on the workers and no other; and no registration changes which job a    *)
(* queued name means, except that of the very name.                        *)
OperationsEffective ==
    [][/\ Configuring => Settings!OperationEffective
       /\ Registering => Registry!MeaningUnchanged]_vars
=============================================================================
