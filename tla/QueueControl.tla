---------------------------- MODULE QueueControl ----------------------------
(***************************************************************************)
(* The runtime of one queue configuration inside one process: the queue    *)
(* watcher that discovers queues, and for each queue its QueueControl      *)
(* (semaphores_map.rs), its dispatcher (dispatcher.rs) and its config      *)
(* watcher; the bounded job channel and the coordinator that routes what   *)
(* arrives there (coordinator.rs).  Tasks run on several threads: an       *)
(* action is the code between two points where another one may take the    *)
(* mutex, the channel or Redis.                                            *)
(*                                                                         *)
(* What the jobs are, and where their payloads go, is in JobLifecycle;     *)
(* here a job is its permit.  tokio's Notify, mpsc channel and             *)
(* CancellationToken are external and modelled by their documented         *)
(* contract: notify_waiters completes every Notified future that exists,   *)
(* polled or not, and stores nothing for later ones.                       *)
(***************************************************************************)
EXTENDS Naturals

CONSTANTS
    Keys,         \* queue keys of this configuration
    Base,         \* key_or_prefix: the key of a static queue, or the prefix
    Dynamic,      \* QueueConcurrency::Dynamic, else Fixed
    Default,      \* its default or fixed number
    Limits,       \* bound: concurrency values an operator may store
    MaxChanges,   \* bound: changes of the stored configuration
    MaxJobs,      \* bound: jobs pushed to the queues
    MaxErrors,    \* bound: Redis errors and failed tasks
    None          \* a field or a key that is not set

(* Fixed concurrency is asserted positive by QueueConfig::concurrency.     *)
ASSUME ControlAssumption ==
    /\ Dynamic \in BOOLEAN /\ Default \in Nat /\ (~Dynamic => Default > 0)
    /\ Limits \subseteq Nat /\ None \notin Nat /\ None \notin Keys
    /\ None \notin [concurrency : Nat \cup {None}, state : {"active", "paused"}]
    /\ MaxChanges \in Nat /\ MaxJobs \in Nat /\ MaxErrors \in Nat

VARIABLES
    stored,      \* Redis: the runtime configuration of each key
    backlog,     \* Redis: jobs on each queue list
    scan,        \* the queue watcher
    control,     \* QueueControlState of each queue
    disp,        \* the dispatcher of each queue
    woken,       \* its Notified future has been completed
    returning,   \* threads between the unlock and the notify of release
    watch,       \* the config watcher of each queue
    seen,        \* the configuration it has read
    coord,       \* the coordinator loop
    routed,      \* the permit's queue while the coordinator is in route_job
    room,        \* free places of the job channel
    queued,      \* jobs in the channel
    working,     \* jobs in spawned tasks (workers without batches)
    failed,      \* a joined task has returned an error
    cancelled,   \* cancel_token
    unexpected,  \* "Job receiver closed unexpectedly" was returned
    changes, pushed, errors   \* how much of each bound is used up

redisVars == <<stored, backlog, changes, pushed>>
dispVars  == <<disp, woken>>
watchVars == <<watch, seen>>
coordVars == <<coord, routed, failed>>
chanVars  == <<room, queued>>
vars == <<redisVars, scan, control, dispVars, returning, watchVars, coordVars, chanVars,
          working, cancelled, unexpected, errors>>

States  == {"active", "paused"}
Config  == [concurrency : Nat \cup {None}, state : States]
Control == [concurrency : Nat, active : Nat, state : States]
Scan    == [pc : {"scan", "track", "sleep", "done"}, found : SUBSET Keys]

(* channel_capacity in coordinator::run. *)
Capacity == IF Default > 0 THEN Default ELSE 1

(* Phases of dispatcher::run; in Permitted it holds a permit.              *)
DispPhases == {"none", "ready", "armed", "refused", "waiting", "popping", "resting",
               "sending", "napping", "stopped"}
Permitted == {"popping", "resting", "sending"}

(* The type invariant: every part of the runtime has the shape above, and  *)
(* the channel is never given more jobs than it has free places.           *)
TypeOK ==
    /\ stored \in [Keys \cup {Base} -> Config \cup {None}]
    /\ backlog \in [Keys -> Nat]
    /\ scan \in Scan
    /\ control \in [Keys -> Control]
    /\ disp \in [Keys -> DispPhases]
    /\ woken \in [Keys -> BOOLEAN]
    /\ returning \in [Keys -> Nat]
    /\ watch \in [Keys -> {"none", "idle", "read", "notify", "stopped"}]
    /\ seen \in [Keys -> Config \cup {None}]
    /\ \A k \in Keys : watch[k] = "read" => seen[k] \in Config
    /\ coord \in {"recv", "routing", "spawning", "closing", "draining", "done"}
    /\ routed \in Keys \cup {None} /\ (coord \in {"routing", "spawning"} <=> routed # None)
    /\ room \in Nat
    /\ queued \in [Keys -> Nat] /\ working \in [Keys -> Nat]
    /\ failed \in BOOLEAN /\ cancelled \in BOOLEAN /\ unexpected \in BOOLEAN
    /\ changes \in Nat /\ pushed \in Nat /\ errors \in Nat

Init ==
    /\ stored = [k \in Keys \cup {Base} |-> None]
    /\ backlog = [k \in Keys |-> 0]
    /\ scan = [pc |-> "scan", found |-> {}]
    /\ control = [k \in Keys |-> [concurrency |-> 0, active |-> 0, state |-> "paused"]]
    /\ disp = [k \in Keys |-> "none"] /\ woken = [k \in Keys |-> FALSE]
    /\ returning = [k \in Keys |-> 0]
    /\ watch = [k \in Keys |-> "none"] /\ seen = [k \in Keys |-> None]
    /\ coord = "recv" /\ routed = None
    /\ room = Capacity
    /\ queued = [k \in Keys |-> 0] /\ working = [k \in Keys |-> 0]
    /\ failed = FALSE /\ cancelled = FALSE /\ unexpected = FALSE
    /\ changes = 0 /\ pushed = 0 /\ errors = 0

Error == errors < MaxErrors /\ errors' = errors + 1

-----------------------------------------------------------------------------
(* Clients of Redis: producers and operators of the dashboard.             *)

Push(k) ==
    /\ pushed < MaxJobs /\ pushed' = pushed + 1
    /\ backlog' = [backlog EXCEPT ![k] = @ + 1]
    /\ UNCHANGED <<stored, changes, scan, control, dispVars, returning, watchVars, coordVars,
                   chanVars, working, cancelled, unexpected, errors>>

(* What an operator may store: a configuration, or nothing (reset).        *)
Storable == [concurrency : Limits \cup {None}, state : States] \cup {None}

Configure(k, c) ==
    /\ changes < MaxChanges /\ changes' = changes + 1
    /\ stored' = [stored EXCEPT ![k] = c]
    /\ UNCHANGED <<backlog, pushed, scan, control, dispVars, returning, watchVars, coordVars,
                   chanVars, working, cancelled, unexpected, errors>>

(* The stored configuration of one key over a default: with_defaults       *)
(* inherits the concurrency and never the state.                           *)
OrDefault(c, d) ==
    IF c = None THEN d
    ELSE [concurrency |-> IF c.concurrency = None THEN d.concurrency ELSE c.concurrency,
          state |-> c.state]

(* stored_runtime_default *)
StoredDefault == [concurrency |-> IF Dynamic THEN Default ELSE None, state |-> "active"]

(* runtime_queue_config: a queue found under a prefix inherits from it.    *)
RuntimeConfig(k) ==
    IF k = Base THEN OrDefault(stored[Base], StoredDefault)
    ELSE OrDefault(stored[k], OrDefault(stored[Base], StoredDefault))

(* Mutant of Effective: a stored concurrency also overrides a fixed one.   *)
EffectiveOverFixed(c) ==
    [concurrency |-> IF c.concurrency # None THEN c.concurrency ELSE Default,
     state |-> c.state]

(* effective_runtime_config *)
Effective(c) ==
    [concurrency |-> IF Dynamic /\ c.concurrency # None THEN c.concurrency ELSE Default,
     state |-> c.state]

(* QueueControl::apply_config under the mutex.                             *)
Applied(k, c) ==
    [control EXCEPT ![k].concurrency = Effective(c).concurrency, ![k].state = Effective(c).state]

-----------------------------------------------------------------------------
(* run_queue_watcher: list the queues, track the new ones, sleep, repeat;  *)
(* a static configuration has one queue and one round.                     *)

scanUnchanged == UNCHANGED <<redisVars, returning, coord, routed, chanVars, working,
                             cancelled, unexpected>>

Discover ==
    /\ scan.pc = "scan"
    /\ scan' = [pc |-> "track",
                found |-> {k \in Keys : disp[k] = "none" /\ (k = Base \/ backlog[k] > 0)}]
    /\ UNCHANGED <<control, dispVars, watchVars, failed, errors>> /\ scanUnchanged

(* A tolerated failure of the listing finds nothing.                       *)
DiscoverNothing ==
    /\ scan.pc = "scan" /\ Base \notin Keys
    /\ Error
    /\ scan' = [pc |-> "track", found |-> {}]
    /\ UNCHANGED <<control, dispVars, watchVars, failed>> /\ scanUnchanged

(* get_or_create and apply_config, then the two tasks are spawned.         *)
Track(k) ==
    /\ scan.pc = "track" /\ k \in scan.found
    /\ scan' = [scan EXCEPT !.found = @ \ {k}]
    /\ control' = Applied(k, RuntimeConfig(k))
    /\ disp' = [disp EXCEPT ![k] = "ready"]
    /\ watch' = [watch EXCEPT ![k] = "idle"]
    /\ UNCHANGED <<woken, seen, failed, errors>> /\ scanUnchanged

(* A Redis error past the tolerance ends the watcher with an error.        *)
TrackFails ==
    /\ \/ scan.pc = "scan" /\ Base \notin Keys
       \/ scan.pc = "track" /\ scan.found # {}
    /\ Error
    /\ scan' = [pc |-> "done", found |-> {}]
    /\ failed' = TRUE
    /\ UNCHANGED <<control, dispVars, watchVars>> /\ scanUnchanged

ScanEnds ==
    /\ scan.pc = "track" /\ scan.found = {}
    /\ scan' = [scan EXCEPT !.pc = IF cancelled \/ Base \in Keys THEN "done" ELSE "sleep"]
    /\ UNCHANGED <<control, dispVars, watchVars, failed, errors>> /\ scanUnchanged

ScanAgain ==
    /\ scan.pc = "sleep"
    /\ scan' = [scan EXCEPT !.pc = "scan"]
    /\ UNCHANGED <<control, dispVars, watchVars, failed, errors>> /\ scanUnchanged

-----------------------------------------------------------------------------
(* Permits.  A permit dropped by another task decrements the counter under *)
(* the mutex and notifies after it; the dispatcher itself is the only      *)
(* waiter of its queue, so a permit that it drops wakes nobody.            *)

Taken(k)    == [control EXCEPT ![k].active = @ + 1]
Released(k) == [control EXCEPT ![k].active = IF @ > 0 THEN @ - 1 ELSE 0]

Admits(k) == control[k].state = "active" /\ control[k].active < control[k].concurrency

Release(k) ==
    /\ control' = Released(k)
    /\ returning' = [returning EXCEPT ![k] = @ + 1]

(* notify_waiters at the end of release. *)
ReleaseNotify(k) ==
    /\ returning[k] > 0
    /\ returning' = [returning EXCEPT ![k] = @ - 1]
    /\ woken' = [woken EXCEPT ![k] = TRUE]
    /\ UNCHANGED <<redisVars, scan, control, disp, watchVars, coordVars, chanVars, working,
                   cancelled, unexpected, errors>>

-----------------------------------------------------------------------------
(* run_queue_config_watcher: every second the configuration is read and    *)
(* applied, changed or not.  Its select is not biased: a tick that is due  *)
(* together with the cancellation may win.                                 *)

watchUnchanged == UNCHANGED <<redisVars, scan, disp, returning, coordVars, chanVars, working,
                              unexpected>>

WatchRead(k) ==
    /\ watch[k] = "idle"
    /\ watch' = [watch EXCEPT ![k] = "read"]
    /\ seen' = [seen EXCEPT ![k] = RuntimeConfig(k)]
    /\ UNCHANGED <<control, woken, cancelled, errors>> /\ watchUnchanged

WatchApply(k) ==
    /\ watch[k] = "read"
    /\ control' = Applied(k, seen[k])
    /\ watch' = [watch EXCEPT ![k] = "notify"]
    /\ seen' = [seen EXCEPT ![k] = None]
    /\ UNCHANGED <<woken, cancelled, errors>> /\ watchUnchanged

WatchNotify(k) ==
    /\ watch[k] = "notify"
    /\ woken' = [woken EXCEPT ![k] = TRUE]
    /\ watch' = [watch EXCEPT ![k] = "idle"]
    /\ UNCHANGED <<control, seen, cancelled, errors>> /\ watchUnchanged

WatchStops(k) ==
    /\ watch[k] = "idle" /\ cancelled
    /\ watch' = [watch EXCEPT ![k] = "stopped"]
    /\ UNCHANGED <<control, woken, seen, cancelled, errors>> /\ watchUnchanged

(* A Redis error past the tolerance; spawn_queue_task fails the runtime.   *)
WatchFails(k) ==
    /\ watch[k] = "idle"
    /\ Error
    /\ watch' = [watch EXCEPT ![k] = "stopped"]
    /\ cancelled' = TRUE
    /\ UNCHANGED <<control, woken, seen>> /\ watchUnchanged

-----------------------------------------------------------------------------
(* dispatcher::run.                                                        *)

dispUnchanged == UNCHANGED <<stored, changes, pushed, scan, returning, watchVars, coordVars,
                             working>>

Goto(k, pc) == disp' = [disp EXCEPT ![k] = pc]

(* acquire: the Notified future is created before the state is looked at.  *)
Arm(k) ==
    /\ disp[k] = "ready" /\ ~cancelled
    /\ Goto(k, "armed")
    /\ woken' = [woken EXCEPT ![k] = FALSE]
    /\ UNCHANGED <<backlog, control, chanVars, cancelled, unexpected, errors>> /\ dispUnchanged

(* Under the mutex: take a permit or be refused.                           *)
Acquire(k) ==
    /\ disp[k] = "armed"
    /\ IF Admits(k) THEN Goto(k, "popping") /\ control' = Taken(k)
                    ELSE Goto(k, "refused") /\ UNCHANGED control
    /\ UNCHANGED <<backlog, woken, chanVars, cancelled, unexpected, errors>> /\ dispUnchanged

(* Mutant of Await: the future is created only now.                        *)
AwaitLate(k) ==
    /\ disp[k] = "refused"
    /\ Goto(k, "waiting")
    /\ woken' = [woken EXCEPT ![k] = FALSE]
    /\ UNCHANGED <<backlog, control, chanVars, cancelled, unexpected, errors>> /\ dispUnchanged

(* The mutex is released, the future is polled.                            *)
Await(k) ==
    /\ disp[k] = "refused"
    /\ Goto(k, "waiting")
    /\ UNCHANGED <<backlog, control, woken, chanVars, cancelled, unexpected, errors>>
    /\ dispUnchanged

Wake(k) ==
    /\ disp[k] = "waiting" /\ woken[k] /\ ~cancelled
    /\ Goto(k, "armed")
    /\ woken' = [woken EXCEPT ![k] = FALSE]
    /\ UNCHANGED <<backlog, control, chanVars, cancelled, unexpected, errors>> /\ dispUnchanged

(* Mutant of StopAcquiring: acquire is awaited without a select.           *)
StopAcquiringWhenWoken(k) ==
    /\ cancelled
    /\ disp[k] = "ready" \/ (disp[k] = "waiting" /\ woken[k])
    /\ Goto(k, "stopped")
    /\ UNCHANGED <<backlog, control, woken, chanVars, cancelled, unexpected, errors>>
    /\ dispUnchanged

(* acquire_while_running: the biased select sees the cancellation first.   *)
StopAcquiring(k) ==
    /\ cancelled
    /\ disp[k] \in {"ready", "waiting"}
    /\ Goto(k, "stopped")
    /\ UNCHANGED <<backlog, control, woken, chanVars, cancelled, unexpected, errors>>
    /\ dispUnchanged

(* The claim succeeds (LMOVE, JobLifecycle!Dispatch).                      *)
PopJob(k) ==
    /\ disp[k] = "popping" /\ backlog[k] > 0
    /\ Goto(k, "sending")
    /\ backlog' = [backlog EXCEPT ![k] = @ - 1]
    /\ UNCHANGED <<control, woken, chanVars, cancelled, unexpected, errors>> /\ dispUnchanged

(* Nothing to claim: sleep for dequeue_timeout with the permit in hand,    *)
(* then give it back.                                                      *)
PopNothing(k) ==
    /\ disp[k] = "popping" /\ backlog[k] = 0
    /\ Goto(k, "resting")
    /\ UNCHANGED <<backlog, control, woken, chanVars, cancelled, unexpected, errors>>
    /\ dispUnchanged

PopRested(k) ==
    /\ disp[k] = "resting"
    /\ Goto(k, "ready")
    /\ control' = Released(k)
    /\ UNCHANGED <<backlog, woken, chanVars, cancelled, unexpected, errors>> /\ dispUnchanged

(* A tolerated error before the claim: give the permit back, then sleep.   *)
PopTolerated(k) ==
    /\ disp[k] = "popping"
    /\ Error
    /\ Goto(k, "napping")
    /\ control' = Released(k)
    /\ UNCHANGED <<backlog, woken, chanVars, cancelled, unexpected>> /\ dispUnchanged

Nap(k) ==
    /\ disp[k] = "napping"
    /\ Goto(k, "ready")
    /\ UNCHANGED <<backlog, control, woken, chanVars, cancelled, unexpected, errors>>
    /\ dispUnchanged

(* An LMOVE whose reply nobody reads may have moved a job.                 *)
MaybeClaimed(k) ==
    backlog' \in {backlog} \cup {[backlog EXCEPT ![k] = @ - 1] : j \in 1 .. backlog[k]}

(* PopError::Claim, or the tolerance is exceeded: the task returns the     *)
(* error and spawn_queue_task fails the runtime.                           *)
PopFails(k) ==
    /\ disp[k] = "popping"
    /\ Error
    /\ Goto(k, "stopped")
    /\ control' = Released(k)
    /\ cancelled' = TRUE
    /\ MaybeClaimed(k)
    /\ UNCHANGED <<woken, chanVars, unexpected>> /\ dispUnchanged

(* The cancellation wins the select: the pop is dropped.                   *)
PopCancelled(k) ==
    /\ disp[k] \in {"popping", "resting"} /\ cancelled
    /\ Goto(k, "stopped")
    /\ control' = Released(k)
    /\ IF disp[k] = "popping" THEN MaybeClaimed(k) ELSE UNCHANGED backlog
    /\ UNCHANGED <<woken, chanVars, cancelled, unexpected, errors>> /\ dispUnchanged

(* The receiver lives until the coordinator has dropped job_rx.            *)
Open == coord \in {"recv", "routing", "spawning", "closing"}

(* Mutant of Send: the channel is unbounded.                               *)
SendUnbounded(k) ==
    /\ disp[k] = "sending" /\ Open
    /\ Goto(k, "ready")
    /\ room' = room - 1
    /\ queued' = [queued EXCEPT ![k] = @ + 1]
    /\ UNCHANGED <<backlog, control, woken, cancelled, unexpected, errors>> /\ dispUnchanged

Send(k) ==
    /\ disp[k] = "sending" /\ Open /\ room > 0
    /\ Goto(k, "ready")
    /\ room' = room - 1
    /\ queued' = [queued EXCEPT ![k] = @ + 1]
    /\ UNCHANGED <<backlog, control, woken, cancelled, unexpected, errors>> /\ dispUnchanged

(* The cancellation wins: the job is dropped with its permit.              *)
SendCancelled(k) ==
    /\ disp[k] = "sending" /\ cancelled
    /\ Goto(k, "stopped")
    /\ control' = Released(k)
    /\ UNCHANGED <<backlog, woken, chanVars, cancelled, unexpected, errors>> /\ dispUnchanged

(* The receiver is gone: an error unless the runtime is stopping anyway.   *)
SendClosed(k) ==
    /\ disp[k] = "sending" /\ ~Open
    /\ Goto(k, "stopped")
    /\ control' = Released(k)
    /\ unexpected' = (unexpected \/ ~cancelled)
    /\ cancelled' = TRUE
    /\ UNCHANGED <<backlog, woken, chanVars, errors>> /\ dispUnchanged

-----------------------------------------------------------------------------
(* coordinator::run.                                                       *)

coordUnchanged == UNCHANGED <<redisVars, scan, dispVars, watchVars, unexpected>>

Receive(k) ==
    /\ coord = "recv" /\ queued[k] > 0
    /\ queued' = [queued EXCEPT ![k] = @ - 1] /\ room' = room + 1
    /\ coord' = "routing" /\ routed' = k
    /\ UNCHANGED <<control, returning, failed, working, cancelled, errors>> /\ coordUnchanged

(* load_pending_job: the payload is there, unless the cancellation is seen *)
(* first.                                                                  *)
RouteLoad ==
    /\ coord = "routing" /\ ~cancelled
    /\ coord' = "spawning"
    /\ UNCHANGED <<control, returning, routed, failed, chanVars, working, cancelled, errors>>
    /\ coordUnchanged

(* route_job hands the job and its permit to a spawned task.               *)
RouteSpawn ==
    /\ coord = "spawning"
    /\ working' = [working EXCEPT ![routed] = @ + 1]
    /\ coord' = "recv" /\ routed' = None
    /\ UNCHANGED <<control, returning, failed, chanVars, cancelled, errors>> /\ coordUnchanged

(* No payload, or cancelled while loading: the permit is dropped.          *)
RouteDrop ==
    /\ coord = "routing"
    /\ Release(routed)
    /\ coord' = "recv" /\ routed' = None
    /\ UNCHANGED <<failed, chanVars, working, cancelled, errors>> /\ coordUnchanged

(* Mutant of RouteFails: the loop is left without Runtime::fail.           *)
RouteBreaks ==
    /\ coord = "routing"
    /\ Error
    /\ Release(routed)
    /\ coord' = "closing" /\ routed' = None
    /\ UNCHANGED <<failed, chanVars, working, cancelled>> /\ coordUnchanged

(* get_claimed_job or delete_job failed: Runtime::fail, leave the loop.    *)
RouteFails ==
    /\ coord = "routing"
    /\ Error
    /\ Release(routed)
    /\ cancelled' = TRUE
    /\ coord' = "closing" /\ routed' = None
    /\ UNCHANGED <<failed, chanVars, working>> /\ coordUnchanged

(* A task ends, well or with an error that the coordinator will join.      *)
TaskDone(k) ==
    /\ working[k] > 0
    /\ working' = [working EXCEPT ![k] = @ - 1]
    /\ Release(k)
    /\ \/ UNCHANGED <<failed, errors>>
       \/ Error /\ failed' = TRUE
    /\ UNCHANGED <<coord, routed, chanVars, cancelled>> /\ coordUnchanged

(* join_next yields an error: Runtime::fail; in the loop, leave it.        *)
JoinFailed ==
    /\ failed /\ coord \in {"recv", "draining"}
    /\ failed' = FALSE
    /\ cancelled' = TRUE
    /\ coord' = IF coord = "recv" THEN "closing" ELSE coord
    /\ UNCHANGED <<control, returning, routed, chanVars, working, errors>> /\ coordUnchanged

StopReceiving ==
    /\ coord = "recv" /\ cancelled
    /\ coord' = "closing"
    /\ UNCHANGED <<control, returning, routed, failed, chanVars, working, cancelled, errors>>
    /\ coordUnchanged

(* drop(job_rx): the channel is closed, then what it holds is dropped.     *)
CloseChannel ==
    /\ coord = "closing"
    /\ coord' = "draining"
    /\ UNCHANGED <<control, returning, routed, failed, chanVars, working, cancelled, errors>>
    /\ coordUnchanged

(* Mutant of DropBuffered: the permits of buffered jobs are forgotten.     *)
DropBufferedLeaks(k) ==
    /\ coord = "draining" /\ queued[k] > 0
    /\ queued' = [queued EXCEPT ![k] = @ - 1] /\ room' = room + 1
    /\ UNCHANGED <<control, returning, coordVars, working, cancelled, errors>> /\ coordUnchanged

DropBuffered(k) ==
    /\ coord = "draining" /\ queued[k] > 0
    /\ queued' = [queued EXCEPT ![k] = @ - 1] /\ room' = room + 1
    /\ Release(k)
    /\ UNCHANGED <<coordVars, working, cancelled, errors>> /\ coordUnchanged

(* The join set is empty: the queue watcher and every task have ended.     *)
CoordDone ==
    /\ coord = "draining" /\ ~failed /\ scan.pc = "done"
    /\ \A k \in Keys : queued[k] = 0 /\ working[k] = 0
    /\ coord' = "done"
    /\ UNCHANGED <<control, returning, routed, failed, chanVars, working, cancelled, errors>>
    /\ coordUnchanged

(* A shutdown signal, or Runtime::fail in another part of the process.     *)
Cancel ==
    /\ ~cancelled /\ cancelled' = TRUE
    /\ Error
    /\ UNCHANGED <<redisVars, scan, control, dispVars, returning, watchVars, coordVars, chanVars,
                   working, unexpected>>

Drained ==
    /\ coord = "done"
    /\ \A k \in Keys : /\ disp[k] \in {"none", "stopped"}
                       /\ watch[k] \in {"none", "stopped"}
                       /\ control[k].active = 0

(* The drained runtime is dropped; deadlock elsewhere would be a defect.   *)
Terminated == Drained /\ UNCHANGED vars

-----------------------------------------------------------------------------
ScanStep == Discover \/ ScanEnds \/ ScanAgain \/ \E k \in Keys : Track(k)

WatchStep(k) == WatchRead(k) \/ WatchApply(k) \/ WatchNotify(k) \/ WatchStops(k)

DispStep(k) ==
    \/ Arm(k) \/ Acquire(k) \/ Await(k) \/ Wake(k) \/ StopAcquiring(k)
    \/ PopJob(k) \/ PopNothing(k) \/ PopRested(k) \/ PopCancelled(k) \/ Nap(k)
    \/ Send(k) \/ SendCancelled(k) \/ SendClosed(k)

CoordStep ==
    \/ RouteLoad \/ RouteSpawn \/ RouteDrop \/ JoinFailed \/ StopReceiving \/ CloseChannel \/ CoordDone
    \/ \E k \in Keys : Receive(k) \/ DropBuffered(k)

Next ==
    \/ \E k \in Keys : Push(k)
    \/ \E k \in Keys \cup {Base}, c \in Storable : Configure(k, c)
    \/ ScanStep \/ DiscoverNothing \/ TrackFails
    \/ \E k \in Keys : \/ WatchStep(k) \/ WatchFails(k)
                       \/ DispStep(k) \/ PopTolerated(k) \/ PopFails(k)
                       \/ ReleaseNotify(k) \/ TaskDone(k)
    \/ CoordStep \/ RouteFails \/ Cancel \/ Terminated

Spec == Init /\ [][Next]_vars

(* Every task that can run is polled, timers fire and user code returns.   *)
(* The channel is first in, first out, so a job in it is received although *)
(* others compete for the coordinator: strong fairness per queue stands    *)
(* for the order that the counters do not keep.  The config watcher's      *)
(* select picks at random among its ready branches, and the cancellation   *)
(* stays ready: strong fairness again.                                     *)
Fairness ==
    /\ WF_vars(ScanStep) /\ WF_vars(CoordStep)
    /\ \A k \in Keys :
         /\ WF_vars(Track(k)) /\ WF_vars(WatchStep(k)) /\ WF_vars(DispStep(k))
         /\ WF_vars(ReleaseNotify(k)) /\ WF_vars(TaskDone(k))
         /\ SF_vars(Receive(k)) /\ SF_vars(WatchStops(k))

FairSpec == Spec /\ Fairness

-----------------------------------------------------------------------------
(* Properties.                                                             *)

Holds(b) == IF b THEN 1 ELSE 0

(* The permits of queue k that exist: in the dispatcher, in the channel,   *)
(* in the coordinator and in tasks.                                        *)
Permits(k) == Holds(disp[k] \in Permitted) + queued[k] + Holds(routed = k) + working[k]

(* The counter of a QueueControl counts the permits that exist, wherever   *)
(* the job that carries one is: the dispatcher, the channel, the           *)
(* coordinator or a task.  saturating_sub would hide a permit returned     *)
(* twice; a permit that is forgotten would shrink the queue for good.      *)
PermitsExact == \A k \in Keys : control[k].active = Permits(k)

(* No lost wakeup: a dispatcher that sleeps in acquire while its queue     *)
(* would admit it has been notified, or the thread that made room is just  *)
(* about to notify it, however releases and configuration changes fall     *)
(* between its look at the state and its await.                            *)
NoLostWakeup ==
    \A k \in Keys :
        disp[k] \in {"refused", "waiting"} /\ Admits(k) =>
            woken[k] \/ returning[k] > 0 \/ watch[k] = "notify"

(* A fixed concurrency is a hard limit: whatever is stored for the queue   *)
(* or its prefix, and however often, no more jobs than that are claimed by *)
(* this process and not yet done (effective_runtime_config).               *)
FixedLimit ==
    ~Dynamic => \A k \in Keys : queued[k] + Holds(routed = k) + working[k] <= Default

(* The dispatcher's "Job receiver closed unexpectedly" is never reported:  *)
(* whoever makes the coordinator leave its loop cancels the runtime first. *)
ReceiverOutlivesSenders == ~unexpected

(* A queue that stays active with a positive concurrency in a process that *)
(* keeps running has its backlog drained again and again, through pauses,  *)
(* reconfiguration and tolerated Redis errors.                             *)
BacklogServed ==
    \A k \in Keys :
        <>[](/\ ~cancelled
             /\ Effective(RuntimeConfig(k)).state = "active"
             /\ Effective(RuntimeConfig(k)).concurrency > 0)
          => []<>(backlog[k] = 0)

(* A cancelled runtime drains: the coordinator, the dispatchers and the    *)
(* watchers end and every permit is back, also when the dispatcher is      *)
(* blocked on a full channel or sleeping in acquire of a paused queue.     *)
DrainCompletes == cancelled ~> Drained

(* Queue control never gets stuck: a running process serves its active     *)
(* queues, and a cancelled one comes to its end.                           *)
QueueLiveness == BacklogServed /\ DrainCompletes

-----------------------------------------------------------------------------
(* What the proofs of the invariants need besides.                         *)

(* The queue watcher tracks a queue once.                                  *)
TrackedOnce == \A k \in scan.found : disp[k] = "none"

(* A fixed concurrency bounds the counter itself.                          *)
FixedCounter ==
    ~Dynamic => \A k \in Keys : /\ control[k].concurrency <= Default
                               /\ control[k].active <= Default

(* The coordinator leaves its loop in a cancelled runtime only.            *)
CancelledFirst == coord \notin {"recv", "routing", "spawning"} => cancelled
=============================================================================
