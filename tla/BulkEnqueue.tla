---------------------------- MODULE BulkEnqueue ----------------------------
(***************************************************************************)
(* enqueue_chunk_w_conn of storage_internal.rs and enqueue.lua: how a      *)
(* chunk of jobs is written by a client that reads first, decides outside  *)
(* Redis and lets a script check that what it read still holds.            *)
(*                                                                         *)
(* A client goes through one Redis command per step: HMGET of the payloads *)
(* it is going to replace, HEXISTS of the ids it is going to skip, and the *)
(* script, again and again while a snapshot is stale.  A snapshot keeps    *)
(* the smaller side of the payload around its queue field: the arguments   *)
(* before it or the metadata after it; other layouts are compared whole.   *)
(* Which one is smaller is left open.  Store, requests and workers are     *)
(* those of AtomicEnqueue, whose specification this one implements.        *)
(***************************************************************************)
EXTENDS Naturals, Sequences, SequencesExt, FiniteSetsExt

CONSTANTS Clients, Workers, Ids, Fresh, Queues, Requests, ChunkSize, MaxRequests, MaxRetries, None

VARIABLES jobs, list, zset, work, made,
    call,      \* the request of each client and how far it has come
    overrun    \* history: the ids that were replaced while a worker had them

vars == <<jobs, list, zset, work, made, call, overrun>>

(* The client as the abstract specification sees it: during the HEXISTS    *)
(* pipeline the Skip jobs that were found stored are already decided.      *)
Known(k) == k.found \cup {id \in DOMAIN k.snaps : k.snaps[id] # None}
Waiting(k) ==
    {i \in k.pending : ~(k.req.items[i].mode = "skip" /\ k.req.items[i].id \in Known(k))}
Left(k) == IF k.pc = "exists" THEN Waiting(k) ELSE k.pending
Seen(k) ==
    [phase   |-> IF k.pc \in {"snapshot", "exists", "script"}
                 THEN "unique" ELSE k.pc,
     req     |-> k.req, at |-> k.at, left |-> Left(k), half |-> k.half,
     stamp   |-> k.stamp, written |-> k.written]

Atomic == INSTANCE AtomicEnqueue WITH ask <- [c \in Clients |-> Seen(call[c])]

NoCall == [pc |-> "idle", req |-> None, at |-> 0, pending |-> {}, half |-> FALSE,
           stamp |-> 0, written |-> {}, snaps |-> << >>, found |-> {}, unknown |-> {}]

Init ==
    /\ call = [c \in Clients |-> NoCall]
    /\ Atomic!Init
    /\ overrun = {}

-----------------------------------------------------------------------------
(* EnqueueSnapshot: what of the payload is compared.                       *)
Part(cmp, p) ==
    CASE cmp = "prefix" -> <<p.args, p.queue>>
      [] cmp = "suffix" -> <<p.queue, p.created, p.retries>>
      [] cmp = "exact"  -> p

Comparisons == {"prefix", "suffix", "exact"}
Images == [cmp : Comparisons, payload : Atomic!Payload]
Parsed(cmp, p) == IF p = None THEN None ELSE [cmp |-> cmp, payload |-> p]

ASSUME BulkEnqueueAssumption == Atomic!EnqueueAssumption /\ None \notin Images

Matches(snap, p) ==
    IF snap = None THEN p = None
    ELSE p # None /\ Part(snap.cmp, snap.payload) = Part(snap.cmp, p)

(* The ids whose first unconditional write in the chunk is a Replace.      *)
ReplacementIds(k) ==
    {k.req.items[i].id : i \in {i \in k.pending :
        /\ k.req.items[i].mode = "replace"
        /\ \A j \in k.pending :
              j < i /\ k.req.items[j].id = k.req.items[i].id => k.req.items[j].mode = "skip"}}

SkipIds(k) == {k.req.items[i].id : i \in {i \in k.pending : k.req.items[i].mode = "skip"}}

(* After the snapshots: HEXISTS for the Skip jobs not covered by one.      *)
ThenExists(k) ==
    LET unknown == SkipIds(k) \ DOMAIN k.snaps
    IN  [k EXCEPT !.pc = "exists", !.unknown = unknown, !.found = {}]

(* The chunk is settled; the request goes on with the next one.            *)
ChunkDone(k, written) ==
    [NoCall EXCEPT !.pc = "chunk", !.req = k.req, !.at = k.at, !.stamp = k.stamp, !.written = written]

(* After the existence checks: the script for what is left, if anything.   *)
Resolved(k) ==
    IF Waiting(k) = {}
    THEN ChunkDone(k, k.written)
    ELSE [k EXCEPT !.pc = "script", !.pending = Waiting(k), !.found = {}, !.unknown = {}]

NextStep(k) == IF k.pc = "exists" /\ k.unknown = {} THEN Resolved(k) ELSE k

-----------------------------------------------------------------------------
Call(c, req) ==
    /\ Atomic!MayAsk(c, req)
    /\ made' = made + 1
    /\ call' = [call EXCEPT ![c] = [NoCall EXCEPT !.pc = "chunk", !.req = req, !.stamp = made + 1]]
    /\ UNCHANGED <<jobs, list, zset, work, overrun>>

(* Mutant of BeginChunk: what earlier chunks wrote is forgotten.           *)
BeginChunkForgets(c) ==
    /\ call[c].pc = "chunk"
    /\ LET k       == call[c]
           chunk   == Atomic!Chunk(k.req, k.at)
           pending == Atomic!Undecided(k.req, chunk, {})
           begun   == [k EXCEPT !.at = Atomic!ChunkEnd(k.req, k.at), !.pending = pending]
       IN  call' = [call EXCEPT ![c] =
             IF chunk = {} THEN NoCall
             ELSE IF Atomic!Ordinary(k.req, chunk) THEN [begun EXCEPT !.pc = "pipe"]
             ELSE IF pending = {} THEN begun
             ELSE IF ReplacementIds(begun) # {} THEN [begun EXCEPT !.pc = "snapshot"]
             ELSE NextStep(ThenExists(begun))]
    /\ UNCHANGED <<jobs, list, zset, work, made, overrun>>

(* The chunk in hand: what is left of it, and the first command to send.   *)
BeginChunk(c) ==
    /\ call[c].pc = "chunk"
    /\ LET k       == call[c]
           chunk   == Atomic!Chunk(k.req, k.at)
           pending == Atomic!Undecided(k.req, chunk, k.written)
           begun   == [k EXCEPT !.at = Atomic!ChunkEnd(k.req, k.at), !.pending = pending]
       IN  call' = [call EXCEPT ![c] =
             IF chunk = {} THEN NoCall
             ELSE IF Atomic!Ordinary(k.req, chunk) THEN [begun EXCEPT !.pc = "pipe"]
             ELSE IF pending = {} THEN begun
             ELSE IF ReplacementIds(begun) # {} THEN [begun EXCEPT !.pc = "snapshot"]
             ELSE NextStep(ThenExists(begun))]
    /\ UNCHANGED <<jobs, list, zset, work, made, overrun>>

(* HMGET of the ids to replace.                                            *)
Snapshot(c) ==
    /\ call[c].pc = "snapshot"
    /\ \E cmp \in Comparisons :
          call' = [call EXCEPT ![c] = NextStep(ThenExists([@ EXCEPT !.snaps =
             [id \in ReplacementIds(call[c]) |-> Parsed(cmp, jobs[id])]]))]
    /\ UNCHANGED <<jobs, list, zset, work, made, overrun>>

(* One HEXISTS of the pipeline.                                            *)
Exists(c, id) ==
    /\ call[c].pc = "exists" /\ id \in call[c].unknown
    /\ LET k == call[c]
       IN  call' = [call EXCEPT ![c] = NextStep([k EXCEPT !.unknown = k.unknown \ {id},
                       !.found = IF jobs[id] = None THEN k.found ELSE k.found \cup {id}])]
    /\ UNCHANGED <<jobs, list, zset, work, made, overrun>>

(* enqueue.lua: the ids whose snapshot no longer holds.                    *)
Stale(k) == {id \in DOMAIN k.snaps : ~Matches(k.snaps[id], jobs[id])}

(* Mutant of Refuse: the client goes round with the snapshots it had.      *)
RefuseKeepsSnapshots(c) ==
    /\ call[c].pc = "script" /\ Stale(call[c]) # {}
    /\ UNCHANGED vars

(* Stale snapshots: nothing is written, the script returns the payloads it *)
(* found and the client goes round.                                        *)
Refuse(c) ==
    /\ call[c].pc = "script" /\ Stale(call[c]) # {}
    /\ \E cmp \in Comparisons :
          call' = [call EXCEPT ![c].snaps = [id \in DOMAIN @ |->
             IF id \in Stale(call[c]) THEN Parsed(cmp, jobs[id]) ELSE @[id]]]
    /\ UNCHANGED <<jobs, list, zset, work, made, overrun>>

(* The planning loop of the script.  The queue to clean is the snapshot's, *)
(* or the one an earlier job of this chunk wrote to.                       *)
Planned(acc, item, k) ==
    LET st      == acc.st
        exists  == st.jobs[item.id] # None
        cleared == IF item.mode = "replace" /\ exists
                   THEN Atomic!Cleared(st, item.id, acc.old[item.id], k.req.queue) ELSE st
        stored  == Atomic!Stored(cleared, item.id, Atomic!PayloadOf(k.req, k.stamp))
    IN  IF item.mode = "skip" /\ exists THEN acc
        ELSE [st  |-> [Atomic!Pushed(stored, item.id, k.req) EXCEPT !.written =
                          IF item.mode = "default" THEN @ ELSE @ \cup {item.id}],
              old |-> [acc.old EXCEPT ![item.id] = k.req.queue]]

Result(k) ==
    LET old == [id \in Ids \cup Fresh |->
                   IF id \in DOMAIN k.snaps /\ k.snaps[id] # None
                   THEN k.snaps[id].payload.queue ELSE k.req.queue]
        plan[n \in 0 .. Len(k.req.items)] ==
            IF n = 0 THEN [st |-> Atomic!Current(k.written), old |-> old]
            ELSE IF n \in k.pending THEN Planned(plan[n - 1], k.req.items[n], k)
            ELSE plan[n - 1]
    IN  plan[Len(k.req.items)].st

Held == {work[w].id : w \in Workers}
Replaced(k) == {id \in ReplacementIds(k) : jobs[id] # None}

(* Mutant of Write: the snapshots are not checked.                         *)
WriteUnchecked(c, answered) ==
    /\ call[c].pc = "script"
    /\ LET st == Result(call[c])
       IN  /\ Atomic!Becomes(st)
           /\ call' = [call EXCEPT ![c] = IF answered THEN ChunkDone(@, st.written) ELSE NoCall]
    /\ overrun' = overrun \cup (Replaced(call[c]) \cap Held)
    /\ UNCHANGED <<work, made>>

(* Every snapshot holds: the whole chunk is written.  The reply may be     *)
(* lost, and the caller gets an error.                                     *)
Write(c, answered) ==
    /\ call[c].pc = "script" /\ Stale(call[c]) = {}
    /\ LET st == Result(call[c])
       IN  /\ Atomic!Becomes(st)
           /\ call' = [call EXCEPT ![c] = IF answered THEN ChunkDone(@, st.written) ELSE NoCall]
    /\ overrun' = overrun \cup (Replaced(call[c]) \cap Held)
    /\ UNCHANGED <<work, made>>

(* The pipeline of a chunk without unique jobs.                            *)
PipeSet(c) ==
    /\ call[c].pc = "pipe" /\ ~call[c].half
    /\ LET k == call[c]
       IN  Atomic!Becomes(Atomic!Stored(Atomic!Current({}), Atomic!First(k.req, k.pending),
                                        Atomic!PayloadOf(k.req, k.stamp)))
    /\ call' = [call EXCEPT ![c].half = TRUE]
    /\ UNCHANGED <<work, made, overrun>>

PipePush(c) ==
    /\ call[c].pc = "pipe" /\ call[c].half
    /\ LET k == call[c]
           n == Min(k.pending)
       IN  /\ Atomic!Becomes(Atomic!Pushed(Atomic!Current({}), Atomic!First(k.req, k.pending), k.req))
           /\ call' = [call EXCEPT ![c] = IF k.pending = {n} THEN ChunkDone(k, k.written)
                                          ELSE [k EXCEPT !.half = FALSE, !.pending = k.pending \ {n}]]
    /\ UNCHANGED <<work, made, overrun>>

(* A command fails before it takes effect.                                 *)
Fail(c) ==
    /\ call[c].pc \in {"pipe", "snapshot", "exists", "script"}
    /\ call' = [call EXCEPT ![c] = NoCall]
    /\ UNCHANGED <<jobs, list, zset, work, made, overrun>>

ClientStep(c) ==
    \/ BeginChunk(c) \/ Snapshot(c) \/ (\E id \in Ids : Exists(c, id))
    \/ Refuse(c) \/ Write(c, TRUE) \/ PipeSet(c) \/ PipePush(c)

WorkerStep ==
    /\ UNCHANGED <<call, overrun>>
    /\ \/ \E w \in Workers :
             \/ \E q \in Queues : Atomic!Claim(w, q)
             \/ Atomic!Load(w) \/ Atomic!DropRead(w) \/ Atomic!Drop(w)
             \/ Atomic!Finish(w) \/ Atomic!RetryRead(w) \/ Atomic!RetryCommit(w)
       \/ \E z \in {"schedule", "retry"}, id \in Ids \cup Fresh : Atomic!Promote(z, id)

Next ==
    \/ \E c \in Clients :
          \/ \E req \in Requests : Call(c, req)
          \/ ClientStep(c)
          \/ Write(c, FALSE)
          \/ Fail(c)
    \/ WorkerStep

Spec == Init /\ [][Next]_vars

(* A client that is not answered yet goes on; tokio polls its task.        *)
FairSpec == Spec /\ \A c \in Clients : WF_vars(ClientStep(c))

-----------------------------------------------------------------------------
(* Type correctness of store, calls and history.                           *)
TypeOK ==
    /\ jobs \in [Ids \cup Fresh -> Atomic!Payload \cup {None}]
    /\ \A q \in Queues : \A i \in DOMAIN list[q] : list[q][i] \in Ids \cup Fresh
    /\ \A z \in DOMAIN zset : zset[z] \subseteq Ids \cup Fresh
    /\ made \in 0 .. MaxRequests
    /\ \A c \in Clients :
          /\ call[c].pc \in {"idle", "chunk", "pipe", "snapshot", "exists", "script"}
          /\ call[c].pc \in {"pipe", "snapshot", "exists", "script"} => call[c].pending # {}
          /\ call[c].pc = "exists" => call[c].unknown # {}
    /\ overrun \subseteq Ids

(* enqueue_chunk_w_conn and enqueue.lua implement AtomicEnqueue: however   *)
(* reads, scripts, retries and workers interleave, a chunk takes effect at *)
(* one instant and in request order, a Skip job is passed over only if its *)
(* id was stored or written by the request, and a replacement cleans the   *)
(* queue in which the replaced job is.                                     *)
ImplementsAtomicEnqueue == Atomic!Spec

(* Where an id is: in a queue, in a sorted set, with a worker.             *)
Places(id) ==
    (UNION {{<<"list", q, i>> : i \in {i \in DOMAIN list[q] : list[q][i] = id}} : q \in Queues})
    \cup {<<"zset", z>> : z \in {z \in DOMAIN zset : id \in zset[z]}}
    \cup {<<"work", w>> : w \in {w \in Workers : work[w].id = id}}

(* Concurrent producers neither duplicate a unique job nor leave a stale   *)
(* entry: unless it was replaced while a worker had it, a unique id is in  *)
(* exactly one place while its payload is stored and in none otherwise.    *)
UniqueInOnePlace ==
    \A id \in Ids \ overrun : Cardinality(Places(id)) = IF jobs[id] = None THEN 0 ELSE 1

(* A request is answered: the retry after stale snapshots ends once others *)
(* stop changing the payloads.                                             *)
RequestsAnswered == \A c \in Clients : call[c].pc # "idle" ~> call[c].pc = "idle"
=============================================================================
