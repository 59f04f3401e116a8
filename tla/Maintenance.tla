---------------------------- MODULE Maintenance ----------------------------
(***************************************************************************)
(* The operations that change the jobs behind the workers' back: cleanup,  *)
(* wipe_queue, wipe_dead, revive_all_dead, retry_all_now, delete_job and   *)
(* update_state, called by the API, by the dashboard and by a background   *)
(* loop, in the middle of the life of jobs.  Each is a sequence of Redis   *)
(* commands; producers, workers and other tools act between any two.       *)
(*                                                                         *)
(* The jobs are unique (the harder case: an id comes back), of one queue.  *)
(* The transitions of workers are single scripts, as in JobStore.          *)
(***************************************************************************)
EXTENDS Naturals, Sequences, SequencesExt, FiniteSets

CONSTANTS
    Ids,         \* unique job ids
    Workers,     \* executions that can be in progress
    Tools,       \* operator sessions, numbers
    DeadLimit,   \* dead_job_limit, zero for none
    Absent,      \* no payload, no entry, no job
    MaxGen,      \* bound on the enqueues
    MaxOps,      \* bound on the tools' operations
    MaxErrors    \* bound on the failed commands and crashes of tools

Envelope == [gen : 1 .. MaxGen, retries : 0 .. 1, scheduled : BOOLEAN]
Claimed == [id : Ids, env : {Absent} \cup Envelope, read : {Absent} \cup Envelope]

ASSUME MaintenanceAssumption ==
    /\ IsFiniteSet(Workers) /\ Tools \subseteq Nat
    /\ DeadLimit \in Nat /\ MaxGen \in Nat /\ MaxOps \in Nat /\ MaxErrors \in Nat
    /\ Absent \notin Nat /\ Absent \notin Envelope /\ Absent \notin Claimed
    /\ Absent \notin [Ids -> 0 .. MaxGen]

VARIABLES
    payload,    \* the hash of jobs
    queue,      \* how often an id is on the list
    run,        \* the job a worker has claimed
    retry,      \* the retry set: id -> score
    dead,       \* the dead list, newest first
    tool,       \* operator sessions
    sweep,      \* the cleanup loop: ids collected by HSCAN
    gen,        \* enqueues so far
    age,        \* of each: 1, created longer ago than the retention; 2, due longer ago
    kills,      \* history: how many jobs were killed
    gone,       \* history: the dead entries that were wiped, trimmed or revived
    forgotten,  \* history: ids whose payload was deleted while they were listed
    unlisted,   \* history: ids whose queue entry was deleted and payload kept
    ops, errors

jobVars == <<payload, queue, run, retry, dead, gen, kills>>
vars == <<payload, queue, run, retry, dead, tool, sweep, gen, age, kills, gone, forgotten, unlisted, ops, errors>>

(* What a session keeps between two commands: ids or retry entries, the    *)
(* entry it has read, and the dead entries it has claimed.                 *)
Quiet == [op |-> "none", todo |-> {}, snap |-> Absent, hand |-> <<>>]

Init ==
    /\ payload = [i \in Ids |-> Absent]
    /\ queue = [i \in Ids |-> 0] /\ dead = <<>>
    /\ run = [w \in Workers |-> Absent]
    /\ retry = [i \in Ids |-> Absent]
    /\ tool = [t \in Tools |-> Quiet]
    /\ sweep = Absent
    /\ gen = 0 /\ kills = 0 /\ age = [g \in 1 .. MaxGen |-> 0]
    /\ gone = {} /\ forgotten = {} /\ unlisted = {}
    /\ ops = 0 /\ errors = 0

-----------------------------------------------------------------------------
Stored(i) == payload[i] # Absent
Queued == {i \in Ids : queue[i] > 0}
Claims(i) == {w \in Workers : run[w] # Absent /\ run[w].id = i}

Listed(i) == queue[i] + Cardinality(Claims(i)) + (IF retry[i] = Absent THEN 0 ELSE 1)

Push(i) == queue' = [queue EXCEPT ![i] = @ + 1]

(* An id leaves the histories with its last trace.                         *)
Settle(set) == {i \in set : Listed(i)' > 0 \/ Stored(i)'}

(* Enqueue of a unique job: one script, skipped when the id is stored.     *)
EnqueueEnvelope(i, env) ==
    /\ ~Stored(i)
    /\ payload' = [payload EXCEPT ![i] = env]
    /\ Push(i)

Enqueue(i) ==
    /\ gen < MaxGen /\ gen' = gen + 1
    /\ EnqueueEnvelope(i, [gen |-> gen', retries |-> 0, scheduled |-> FALSE])
    /\ UNCHANGED <<kills, run, retry, dead, tool, sweep, gone, forgotten, unlisted, ops, errors>>

(* enqueue_at: the retention of the job starts when it becomes due.  The   *)
(* schedule is the retry set here: both are promoted in the same way.      *)
EnqueueAt(i) ==
    /\ gen < MaxGen /\ ~Stored(i)
    /\ gen' = gen + 1
    /\ payload' = [payload EXCEPT ![i] = [gen |-> gen', retries |-> 0, scheduled |-> TRUE]]
    /\ retry' = [retry EXCEPT ![i] = gen']
    /\ UNCHANGED <<kills, queue, run, dead, tool, sweep, gone, forgotten, unlisted, ops, errors>>

(* Days pass: created_at falls out of the retention, then the due time;    *)
(* what was created earlier is out of it by then.  Time is told apart only *)
(* for envelopes that are stored, the ones that cleanup looks at.          *)
Age(i) ==
    /\ Stored(i) /\ age[payload[i].gen] < IF payload[i].scheduled THEN 2 ELSE 1
    /\ LET g == payload[i].gen
       IN  age' = [h \in DOMAIN age |-> IF h = g THEN age[h] + 1
                                        ELSE IF h < g /\ age[h] = 0 THEN 1 ELSE age[h]]
    /\ UNCHANGED <<kills, payload, queue, run, retry, dead, tool, sweep, gen, gone, forgotten, unlisted, ops, errors>>

-----------------------------------------------------------------------------
(* Workers: the claim, the load, the state updates and the transitions.    *)
Claim(w) ==
    /\ run[w] = Absent
    /\ \E i \in Queued :
          /\ queue' = [queue EXCEPT ![i] = @ - 1]
          /\ run' = [run EXCEPT ![w] = [id |-> i, env |-> Absent, read |-> Absent]]
    /\ UNCHANGED <<kills, payload, retry, dead, tool, sweep, gen, gone, forgotten, unlisted, ops, errors>>

Release(w) == run' = [run EXCEPT ![w] = Absent]

Load(w) ==
    /\ run[w] # Absent /\ run[w].env = Absent
    /\ IF Stored(run[w].id) THEN run' = [run EXCEPT ![w].env = payload[run[w].id]] ELSE Release(w)
    /\ UNCHANGED <<kills, payload, queue, retry, dead, tool, sweep, gen, gone, ops, errors>>
    /\ forgotten' = Settle(forgotten) /\ unlisted' = Settle(unlisted)

Running(w) == run[w] # Absent /\ run[w].env # Absent

(* update_state reads the stored envelope ...                              *)
StateRead(w) ==
    /\ Running(w) /\ run[w].read = Absent /\ Stored(run[w].id)
    /\ run' = [run EXCEPT ![w].read = payload[run[w].id]]
    /\ UNCHANGED <<kills, payload, queue, retry, dead, tool, sweep, gen, gone, forgotten, unlisted, ops, errors>>

(* ... and writes back all of it, with the state replaced.                 *)
StateWrite(w) ==
    /\ Running(w) /\ run[w].read # Absent
    /\ payload' = [payload EXCEPT ![run[w].id] = run[w].read]
    /\ run' = [run EXCEPT ![w].read = Absent]
    /\ UNCHANGED <<kills, queue, retry, dead, tool, sweep, gen, gone, forgotten, unlisted, ops, errors>>

Done(w) == Running(w) /\ run[w].read = Absent

Finish(w) ==
    /\ Done(w) /\ Release(w)
    /\ payload' = [payload EXCEPT ![run[w].id] = Absent]
    /\ UNCHANGED <<kills, queue, retry, dead, tool, sweep, gen, gone, ops, errors>>
    /\ forgotten' = Settle(forgotten) /\ unlisted' = Settle(unlisted)

(* retry_in: the stored envelope with one retry more; none left of it      *)
(* means the claim is dropped.                                             *)
Retry(w) ==
    /\ Done(w) /\ run[w].env.retries = 0 /\ Release(w)
    /\ LET i == run[w].id
       IN  IF Stored(i) THEN /\ payload' = [payload EXCEPT ![i].retries = 1]
                             /\ retry' = [retry EXCEPT ![i] = payload[i].gen]
           ELSE UNCHANGED <<payload, retry>>
    /\ UNCHANGED <<kills, queue, dead, tool, sweep, gen, gone, ops, errors>>
    /\ forgotten' = Settle(forgotten) /\ unlisted' = Settle(unlisted)

(* kill: the envelope in memory goes on the dead list, which is trimmed.   *)
Kill(w) ==
    /\ Done(w) /\ run[w].env.retries = 1 /\ Release(w)
    /\ kills' = kills + 1
    /\ LET i == run[w].id
           longer == <<[id |-> i, n |-> kills', env |-> run[w].env]>> \o dead
       IN  /\ dead' = IF DeadLimit = 0 \/ Len(longer) <= DeadLimit THEN longer
                      ELSE SubSeq(longer, 1, DeadLimit)
           /\ payload' = [payload EXCEPT ![i] = Absent]
           /\ gone' = gone \cup (ToSet(longer) \ ToSet(dead'))
    /\ UNCHANGED <<queue, retry, tool, sweep, gen, ops, errors>>
    /\ forgotten' = Settle(forgotten) /\ unlisted' = Settle(unlisted)

(* promote_scheduled: the script moves an entry whose score and payload    *)
(* are the ones that were read, and drops one without payload.             *)
Moved(i) == /\ retry' = [retry EXCEPT ![i] = Absent]
            /\ IF Stored(i) THEN Push(i) ELSE UNCHANGED queue

Promote(i) ==
    /\ retry[i] # Absent /\ Moved(i)
    /\ UNCHANGED <<kills, payload, run, dead, tool, sweep, gen, gone, ops, errors>>
    /\ forgotten' = Settle(forgotten) /\ unlisted' = Settle(unlisted)

-----------------------------------------------------------------------------
(* cleanup: HSCAN collects the expired ids ...                             *)
Expired(p) == age[p.gen] >= IF p.scheduled THEN 2 ELSE 1

CleanupScan ==
    /\ sweep = Absent
    /\ sweep' = [i \in Ids |-> IF Stored(i) /\ Expired(payload[i]) THEN payload[i].gen ELSE 0]
    /\ UNCHANGED <<kills, payload, queue, run, retry, dead, tool, gen, gone, forgotten, unlisted, ops, errors>>

(* Mutant of CleanupDelete: the collected ids are never deleted.           *)
CleanupDeleteNothing ==
    /\ sweep # Absent /\ sweep' = Absent
    /\ UNCHANGED <<kills, payload, queue, run, retry, dead, tool, gen, gone, forgotten, unlisted, ops, errors>>

(* ... and HDEL deletes whatever they hold by then.                        *)
CleanupDelete ==
    /\ sweep # Absent
    /\ payload' = [i \in Ids |-> IF sweep[i] # 0 THEN Absent ELSE payload[i]]
    /\ sweep' = Absent
    /\ UNCHANGED <<kills, queue, run, retry, dead, tool, gen, gone, ops, errors>>
    /\ forgotten' = Settle(forgotten \cup {i \in Ids : sweep[i] # 0}) /\ unlisted' = Settle(unlisted)

-----------------------------------------------------------------------------
(* The tools, numbered: an operation is begun in the first idle session.   *)
Free(t) == /\ tool[t].op = "none" /\ \A u \in Tools : u < t => tool[u].op # "none"
           /\ ops < MaxOps /\ ops' = ops + 1
At(t, op) == tool[t].op = op
Set(t, op, todo, snap, hand) ==
    tool' = [tool EXCEPT ![t] = [op |-> op, todo |-> todo, snap |-> snap, hand |-> hand]]
End(t) == tool' = [tool EXCEPT ![t] = Quiet]
Still == UNCHANGED <<sweep, gone, forgotten, unlisted, errors>>

(* wipe_queue: LRANGE; HDEL of the ids; DEL of the list.                   *)
WipeRead(t) ==
    /\ Free(t)
    /\ Set(t, IF Queued = {} THEN "wipe_del" ELSE "wipe_hdel", Queued, Absent, <<>>)
    /\ UNCHANGED jobVars /\ Still

WipePayloads(t) ==
    /\ At(t, "wipe_hdel")
    /\ payload' = [i \in Ids |-> IF i \in tool[t].todo THEN Absent ELSE payload[i]]
    /\ Set(t, "wipe_del", {}, Absent, <<>>)
    /\ UNCHANGED <<kills, queue, run, retry, dead, sweep, gen, gone, ops, errors>>
    /\ forgotten' = Settle(forgotten \cup tool[t].todo) /\ unlisted' = Settle(unlisted)

(* What was stored since loses its list entry and keeps its payload.       *)
WipeList(t) ==
    /\ At(t, "wipe_del")
    /\ queue' = [i \in Ids |-> 0] /\ End(t)
    /\ UNCHANGED <<kills, payload, run, retry, dead, sweep, gen, gone, ops, errors>>
    /\ forgotten' = Settle(forgotten)
    /\ unlisted' = Settle(unlisted \cup Queued)

WipeDead(t) ==
    /\ Free(t)
    /\ dead' = <<>> /\ gone' = gone \cup ToSet(dead)
    /\ UNCHANGED <<kills, payload, queue, run, retry, tool, sweep, gen, forgotten, unlisted, errors>>

(* delete_job reads the envelope for the name of its queue ...             *)
DeleteRead(t, i) ==
    /\ Free(t)
    /\ Set(t, IF Stored(i) THEN "delete" ELSE "delete_rest", {i}, Absent, <<>>)
    /\ UNCHANGED jobVars /\ Still

(* ... and deletes every trace of the job but a claim of another process,  *)
(* or but the queue entry, if there was no envelope.                       *)
DeleteJob(t) ==
    /\ tool[t].op \in {"delete", "delete_rest"} /\ End(t)
    /\ \E i \in tool[t].todo :
          /\ payload' = [payload EXCEPT ![i] = Absent]
          /\ retry' = [retry EXCEPT ![i] = Absent]
          /\ queue' = IF At(t, "delete") THEN [queue EXCEPT ![i] = 0] ELSE queue
    /\ UNCHANGED <<kills, run, dead, sweep, gen, gone, ops, errors>>
    /\ forgotten' = Settle(forgotten \cup tool[t].todo) /\ unlisted' = Settle(unlisted)

(* retry_all_now: the whole set is read, then the payload of each entry,   *)
(* then the entry is moved.                                                *)
Entries == {[id |-> i, gen |-> retry[i]] : i \in {j \in Ids : retry[j] # Absent}}

RetryAllRead(t) ==
    /\ Free(t) /\ Set(t, "retry_snap", Entries, Absent, <<>>)
    /\ UNCHANGED jobVars /\ Still

RetryAllSnapshot(t) ==
    /\ At(t, "retry_snap")
    /\ \/ tool[t].todo = {} /\ End(t)
       \/ \E e \in tool[t].todo :
             Set(t, "retry_move", tool[t].todo \ {e},
                 [id |-> e.id, gen |-> e.gen, env |-> payload[e.id]], <<>>)
    /\ UNCHANGED <<jobVars, ops>> /\ Still

(* Mutant of RetryAllMove: the script does not look at what was read.      *)
RetryAllMoveBlindly(t) ==
    /\ At(t, "retry_move")
    /\ LET e == tool[t].snap
       IN  /\ IF Stored(e.id) THEN Push(e.id) ELSE UNCHANGED queue
           /\ retry' = [retry EXCEPT ![e.id] = Absent]
    /\ Set(t, "retry_snap", tool[t].todo, Absent, <<>>)
    /\ UNCHANGED <<kills, payload, run, dead, sweep, gen, gone, ops, errors>>
    /\ forgotten' = Settle(forgotten) /\ unlisted' = Settle(unlisted)

(* The script moves the entry only if score and payload are unchanged.     *)
RetryAllMove(t) ==
    /\ At(t, "retry_move")
    /\ LET e == tool[t].snap
       IN  IF retry[e.id] = e.gen /\ payload[e.id] = e.env THEN Moved(e.id)
           ELSE UNCHANGED <<queue, retry>>
    /\ Set(t, "retry_snap", tool[t].todo, Absent, <<>>)
    /\ UNCHANGED <<kills, payload, run, dead, sweep, gen, gone, ops, errors>>
    /\ forgotten' = Settle(forgotten) /\ unlisted' = Settle(unlisted)

(* revive_all_dead: one script renames the list to a private key.          *)
ReviveClaim(t) ==
    /\ Free(t) /\ dead # <<>>
    /\ Set(t, "revive", {}, Absent, dead)
    /\ dead' = <<>>
    /\ UNCHANGED <<kills, payload, queue, run, retry, gen>> /\ Still

(* Each entry is enqueued as it is, with the time of its creation and its  *)
(* retries; the id of a live job is skipped.                               *)
ReviveEnqueue(t) ==
    /\ At(t, "revive") /\ tool[t].hand # <<>>
    /\ LET e == Head(tool[t].hand)
       IN  \/ EnqueueEnvelope(e.id, e.env)
           \/ Stored(e.id) /\ UNCHANGED <<payload, queue>>
    /\ gone' = gone \cup {Head(tool[t].hand)}
    /\ Set(t, "revive", {}, Absent, Tail(tool[t].hand))
    /\ UNCHANGED <<kills, run, retry, dead, sweep, gen, forgotten, unlisted, ops, errors>>

(* Mutant of ReviveFails: the entry that failed is not restored.           *)
ReviveFailsSkips(t) ==
    /\ At(t, "revive") /\ tool[t].hand # <<>>
    /\ errors < MaxErrors /\ errors' = errors + 1
    /\ dead' = dead \o Tail(tool[t].hand) /\ End(t)
    /\ UNCHANGED <<kills, payload, queue, run, retry, gen, sweep, gone, forgotten, unlisted, ops>>

(* An enqueue fails: this entry and the rest go back, at the old end.      *)
ReviveFails(t) ==
    /\ At(t, "revive") /\ tool[t].hand # <<>>
    /\ errors < MaxErrors /\ errors' = errors + 1
    /\ dead' = dead \o tool[t].hand /\ End(t)
    /\ UNCHANGED <<kills, payload, queue, run, retry, gen, sweep, gone, forgotten, unlisted, ops>>

(* DEL of the private key.                                                 *)
ReviveEnd(t) ==
    /\ At(t, "revive") /\ tool[t].hand = <<>> /\ End(t)
    /\ UNCHANGED <<jobVars, ops>> /\ Still

(* A tool dies or its restore fails: a private key stays where it is.      *)
Crash(t) ==
    /\ tool[t].op \notin {"none", "stranded"}
    /\ errors < MaxErrors /\ errors' = errors + 1
    /\ IF At(t, "revive") THEN Set(t, "stranded", {}, Absent, tool[t].hand) ELSE End(t)
    /\ UNCHANGED <<jobVars, sweep, gone, forgotten, unlisted, ops>>

ToolStep(t) ==
    \/ WipePayloads(t) \/ WipeList(t) \/ DeleteJob(t) \/ RetryAllSnapshot(t) \/ RetryAllMove(t)
    \/ ReviveEnqueue(t) \/ ReviveFails(t) \/ ReviveEnd(t) \/ Crash(t)

WorkerStep(w) ==
    Claim(w) \/ Load(w) \/ StateRead(w) \/ StateWrite(w) \/ Finish(w) \/ Retry(w) \/ Kill(w)

Cleanup == (CleanupScan \/ CleanupDelete) /\ UNCHANGED age

ToolBegins(t) ==
    \/ WipeRead(t) \/ WipeDead(t) \/ RetryAllRead(t) \/ ReviveClaim(t)
    \/ \E i \in Ids : DeleteRead(t, i)

Next ==
    \/ \E i \in Ids : Age(i)
    \/ Cleanup
    \/ /\ UNCHANGED age
       /\ \/ \E i \in Ids : Enqueue(i) \/ EnqueueAt(i) \/ Promote(i)
          \/ \E w \in Workers : WorkerStep(w)
          \/ \E t \in Tools : ToolBegins(t) \/ ToolStep(t)

Spec == Init /\ [][Next]_vars

(* Time passes and the cleanup loop runs.                                  *)
FairSpec == Spec /\ WF_vars(Cleanup) /\ \A i \in Ids : WF_vars(Age(i))

-----------------------------------------------------------------------------
(* Type correctness of the store.                                          *)
TypeOK ==
    /\ payload \in [Ids -> {Absent} \cup Envelope]
    /\ queue \in [Ids -> Nat]
    /\ retry \in [Ids -> {Absent} \cup 1 .. MaxGen]
    /\ gen \in 0 .. MaxGen /\ kills \in Nat /\ age \in [1 .. MaxGen -> 0 .. 2]
    /\ ops \in 0 .. MaxOps /\ errors \in 0 .. MaxErrors

(* A payload nobody lists is the trace of a wipe: its job was pushed       *)
(* between the LRANGE and the DEL.  No other operation leaves one.         *)
OrphansExplained == \A i \in Ids : Stored(i) /\ Listed(i) = 0 => i \in unlisted

(* Such a payload is not kept for ever: once the operators and producers   *)
(* are done, cleanup reclaims every payload that nothing lists.            *)
OrphansReclaimed == <>[](\A i \in Ids : Stored(i) => Listed(i) > 0)

(* A unique id is in one place at a time: two executions of it need a      *)
(* payload that an operator or the cleanup deleted while it was listed.    *)
OnePlace == \A i \in Ids \ forgotten : Listed(i) <= 1

(* Cleanup deletes the payload of a job within its retention only if the   *)
(* id was stored anew after the scan; the retention of a scheduled job     *)
(* starts when it is due.                                                  *)
CleanupSparesFresh ==
    [][\A i \in Ids : (sweep # Absent /\ sweep' = Absent /\ Stored(i) /\ payload'[i] = Absent)
          => \/ payload[i].gen # sweep[i]
             \/ age[payload[i].gen] = 2
             \/ age[payload[i].gen] = 1 /\ ~payload[i].scheduled]_vars

(* A dead job is on the dead list, in the hands of one tool (even one that *)
(* crashed), or wiped, trimmed or revived; it is never in two hands.       *)
DeadInOneHand ==
    \A t \in Tools : /\ ToSet(tool[t].hand) \cap (ToSet(dead) \cup gone) = {}
                     /\ \A u \in Tools \ {t} : ToSet(tool[t].hand) \cap ToSet(tool[u].hand) = {}

Kept == ToSet(dead) \cup UNION {ToSet(tool[t].hand) : t \in Tools}

(* A job that was killed does not vanish from the hands of its keepers     *)
(* without having been wiped, trimmed or revived.                          *)
DeadKept == [][Kept \subseteq Kept' \cup gone']_vars

(* However operators, cleanup and workers interleave, a job is in one      *)
(* place, a dead one in one hand, and a payload that nobody lists is the   *)
(* trace of a wipe.                                                        *)
JobsAccounted == TypeOK /\ OnePlace /\ DeadInOneHand /\ OrphansExplained

(* No payload within its retention, and no dead job, vanishes.             *)
NothingVanishes == CleanupSparesFresh /\ DeadKept
=============================================================================
