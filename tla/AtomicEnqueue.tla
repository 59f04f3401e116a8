--------------------------- MODULE AtomicEnqueue ---------------------------
(***************************************************************************)
(* What an enqueue request promises, whatever commands carry it out.       *)
(*                                                                         *)
(* A request is a list of jobs taken in chunks.  A chunk with a unique job *)
(* takes effect at one instant, in request order, with the conflict rules  *)
(* of its jobs applied to the store of that instant; a Skip job may be     *)
(* decided earlier, at an instant at which its id is stored.  A chunk of   *)
(* ordinary jobs is written command by command.  A client that meets an    *)
(* error knows nothing about the chunk in progress.                        *)
(*                                                                         *)
(* The workers that claim, finish, retry and promote jobs meanwhile are    *)
(* the environment: one action per script of storage_internal.rs, the read *)
(* of retry_in kept apart from its write.                                  *)
(***************************************************************************)
EXTENDS Naturals, Sequences, SequencesExt, FiniteSetsExt

CONSTANTS
    Clients,     \* callers of enqueue, try_enqueue, enqueue_list, enqueue_at
    Workers,     \* executions in progress
    Ids,         \* deterministic ids of unique jobs
    Fresh,       \* generated ids of ordinary jobs
    Queues,      \* queue keys
    Requests,    \* the requests made: records of Request
    ChunkSize,   \* ENQUEUE_LIST_CHUNK_SIZE
    MaxRequests, \* bound on the requests made in a behaviour
    MaxRetries,  \* bound on the retries of a payload
    None         \* no payload

Mode    == {"default", "skip", "replace"}
Item    == [id : Ids \cup Fresh, mode : Mode]
AllIds  == Ids \cup Fresh
Payload == [queue : Queues, args : Nat, created : Nat, retries : Nat]
(* The queue, the job arguments, and the delay of enqueue_in/enqueue_at.   *)
Request == [items : Seq(Item), queue : Queues, args : Nat, delay : Nat]

(* What is assumed of the constants: generated ids are not those of unique *)
(* jobs, and only a single job is delayed.                                 *)
EnqueueAssumption ==
    /\ ChunkSize \in Nat \ {0} /\ MaxRequests \in Nat /\ Ids \cap Fresh = {}
    /\ None \notin Ids \cup Fresh \cup Payload
    /\ Requests \subseteq Request
    /\ \A r \in Requests : \A i \in DOMAIN r.items :
          r.items[i].id \in Fresh <=> r.items[i].mode = "default"
    /\ \A r \in Requests : r.delay > 0 => Len(r.items) = 1

VARIABLES
    jobs,      \* the jobs hash: id -> payload
    list,      \* queue lists, head first: LPUSH puts an id in front
    zset,      \* the ids in the schedule and retry sorted sets
    work,      \* what each worker executes
    made,      \* how many requests were made: the created_at of payloads
    ask        \* what is left of each client's request

storeVars == <<jobs, list, zset, work>>
vars      == <<jobs, list, zset, work, made, ask>>

Idle == [phase |-> "idle", req |-> None, at |-> 0, left |-> {}, half |-> FALSE,
         stamp |-> 0, written |-> {}]
NoWork == [phase |-> "idle", id |-> None, env |-> None]

Init ==
    /\ jobs = [i \in AllIds |-> None]
    /\ list = [q \in Queues |-> <<>>]
    /\ zset = [z \in {"schedule", "retry"} |-> {}]
    /\ work = [w \in Workers |-> NoWork]
    /\ made = 0
    /\ ask = [c \in Clients |-> Idle]

-----------------------------------------------------------------------------
(* The store as a value, for scripts that change it item by item.          *)

Current(written) == [jobs |-> jobs, list |-> list, zset |-> zset, written |-> written]
Becomes(st)      == jobs' = st.jobs /\ list' = st.list /\ zset' = st.zset

(* JobEnvelope::new for an item of a request.                              *)
PayloadOf(req, stamp) ==
    [queue |-> req.queue, args |-> req.args, created |-> stamp, retries |-> 0]

(* enqueue_in and enqueue_at: no delay left means an immediate enqueue.    *)
Destination(req) == IF req.delay = 0 THEN "queue" ELSE "schedule"

(* LREM of every occurrence.                                               *)
Without(s, id) ==
    LET kept[n \in 0 .. Len(s)] ==
            IF n = 0 THEN <<>>
            ELSE IF s[n] = id THEN kept[n - 1] ELSE Append(kept[n - 1], s[n])
    IN  kept[Len(s)]

(* HSET of the payload, then LPUSH or ZADD.                                *)
Stored(st, id, payload) == [st EXCEPT !.jobs[id] = payload]
Pushed(st, id, req) ==
    IF Destination(req) = "queue"
    THEN [st EXCEPT !.list[req.queue] = <<id>> \o @]
    ELSE [st EXCEPT !.zset["schedule"] = @ \cup {id}]

(* ZREM from both sorted sets and LREM from the old and the new queue.     *)
Cleared(st, id, old, new) ==
    [st EXCEPT !.zset = [z \in DOMAIN @ |-> @[z] \ {id}],
               !.list = [q \in Queues |-> IF q \in {old, new} THEN Without(@[q], id) ELSE @[q]]]

(* One job of a chunk, by its conflict strategy.                           *)
Applied(st, item, req, stamp) ==
    LET exists  == st.jobs[item.id] # None
        cleared == IF item.mode = "replace" /\ exists
                   THEN Cleared(st, item.id, st.jobs[item.id].queue, req.queue)
                   ELSE st
        written == Pushed(Stored(cleared, item.id, PayloadOf(req, stamp)), item.id, req)
    IN  IF item.mode = "skip" /\ exists THEN st
        ELSE IF item.mode = "default" THEN written
        ELSE [written EXCEPT !.written = @ \cup {item.id}]

(* The jobs at the positions in left, in request order.                    *)
ApplyAll(st, left, req, stamp) ==
    LET after[n \in 0 .. Len(req.items)] ==
            IF n = 0 THEN st
            ELSE IF n \in left THEN Applied(after[n - 1], req.items[n], req, stamp)
            ELSE after[n - 1]
    IN  after[Len(req.items)]

-----------------------------------------------------------------------------
(* Requests.                                                               *)

(* A chunk and what is left of it are positions of the request.            *)
ChunkEnd(req, at) ==
    IF at + ChunkSize <= Len(req.items) THEN at + ChunkSize ELSE Len(req.items)
Chunk(req, at) == at + 1 .. ChunkEnd(req, at)

(* A Skip job whose id this request wrote, or that an earlier job of the   *)
(* chunk names, is left out.  (The earlier one is seen, or was left out    *)
(* because its id was written.)                                            *)
Undecided(req, chunk, written) ==
    {i \in chunk :
        ~ /\ req.items[i].mode = "skip"
          /\ \/ req.items[i].id \in written
             \/ \E j \in chunk : j < i /\ req.items[j].id = req.items[i].id}

Ordinary(req, chunk) == \A i \in chunk : req.items[i].mode = "default"

(* The generated ids of a request are new.                                 *)
MayAsk(c, req) ==
    /\ ask[c].phase = "idle" /\ made < MaxRequests
    /\ \A i \in DOMAIN req.items : req.items[i].id \in Fresh =>
          /\ jobs[req.items[i].id] = None
          /\ \A d \in Clients : ask[d].phase # "idle" =>
                \A j \in DOMAIN ask[d].req.items : ask[d].req.items[j].id # req.items[i].id

Ask(c, req) ==
    /\ MayAsk(c, req)
    /\ made' = made + 1
    /\ ask' = [ask EXCEPT ![c] = [Idle EXCEPT !.phase = "chunk", !.req = req, !.stamp = made + 1]]
    /\ UNCHANGED storeVars

(* The next chunk, or the reply when there is none.                        *)
Take(c) ==
    /\ ask[c].phase = "chunk"
    /\ LET a     == ask[c]
           chunk == Chunk(a.req, a.at)
           left  == Undecided(a.req, chunk, a.written)
       IN  ask' = [ask EXCEPT ![c] =
             IF chunk = {} THEN Idle
             ELSE [a EXCEPT !.at = ChunkEnd(a.req, a.at), !.left = left,
                            !.phase = IF left = {} THEN "chunk"
                                      ELSE IF Ordinary(a.req, chunk) THEN "pipe" ELSE "unique"]]
    /\ UNCHANGED <<storeVars, made>>

(* Skip jobs found stored are decided; the rest of the chunk stays.        *)
Skip(c, S) ==
    /\ ask[c].phase = "unique" /\ S # {}
    /\ S \subseteq {i \in ask[c].left : LET item == ask[c].req.items[i]
                                       IN  item.mode = "skip" /\ jobs[item.id] # None}
    /\ ask' = [ask EXCEPT ![c].left = @ \ S,
                          ![c].phase = IF ask[c].left = S THEN "chunk" ELSE "unique"]
    /\ UNCHANGED <<storeVars, made>>

(* The chunk takes effect.                                                 *)
Commit(c) ==
    /\ ask[c].phase = "unique"
    /\ LET st == ApplyAll(Current(ask[c].written), ask[c].left, ask[c].req, ask[c].stamp)
       IN  /\ Becomes(st)
           /\ ask' = [ask EXCEPT ![c].left = {}, ![c].phase = "chunk", ![c].written = st.written]
    /\ UNCHANGED <<work, made>>

(* The chunk takes effect and the reply is lost.                           *)
CommitUnanswered(c) ==
    /\ ask[c].phase = "unique"
    /\ Becomes(ApplyAll(Current(ask[c].written), ask[c].left, ask[c].req, ask[c].stamp))
    /\ ask' = [ask EXCEPT ![c] = Idle]
    /\ UNCHANGED <<work, made>>

(* The two commands of an ordinary job in the pipeline.                    *)
First(req, left) == req.items[Min(left)].id

PipeSet(c) ==
    /\ ask[c].phase = "pipe" /\ ~ask[c].half
    /\ Becomes(Stored(Current({}), First(ask[c].req, ask[c].left),
                      PayloadOf(ask[c].req, ask[c].stamp)))
    /\ ask' = [ask EXCEPT ![c].half = TRUE]
    /\ UNCHANGED <<work, made>>

PipePush(c) ==
    /\ ask[c].phase = "pipe" /\ ask[c].half
    /\ Becomes(Pushed(Current({}), First(ask[c].req, ask[c].left), ask[c].req))
    /\ ask' = [ask EXCEPT ![c].half = FALSE, ![c].left = @ \ {Min(@)},
                          ![c].phase = IF ask[c].left = {Min(ask[c].left)} THEN "chunk" ELSE "pipe"]
    /\ UNCHANGED <<work, made>>

(* An error is returned: nothing more of the request is carried out.       *)
Break(c) ==
    /\ ask[c].phase \in {"pipe", "unique"}
    /\ ask' = [ask EXCEPT ![c] = Idle]
    /\ UNCHANGED <<storeVars, made>>

-----------------------------------------------------------------------------
(* Workers.                                                                *)

(* LMOVE queue RIGHT processing LEFT.                                      *)
Claim(w, q) ==
    /\ work[w].phase = "idle" /\ list[q] # <<>>
    /\ work' = [work EXCEPT ![w] = [phase |-> "load", id |-> Last(list[q]), env |-> None]]
    /\ list' = [list EXCEPT ![q] = Front(@)]
    /\ UNCHANGED <<jobs, zset, made, ask>>

(* load_pending_job: a claim without a payload goes to delete_job, which   *)
(* reads the payload again for its queue.                                  *)
Load(w) ==
    /\ work[w].phase = "load"
    /\ work' = [work EXCEPT ![w].phase = IF jobs[work[w].id] = None THEN "missing" ELSE "run"]
    /\ UNCHANGED <<jobs, list, zset, made, ask>>

DropRead(w) ==
    /\ work[w].phase = "missing"
    /\ work' = [work EXCEPT ![w].phase = "drop", ![w].env = jobs[work[w].id]]
    /\ UNCHANGED <<jobs, list, zset, made, ask>>

Drop(w) ==
    /\ work[w].phase = "drop"
    /\ LET id == work[w].id
           env == work[w].env
       IN  /\ jobs' = [jobs EXCEPT ![id] = None]
           /\ zset' = [z \in DOMAIN zset |-> zset[z] \ {id}]
           /\ list' = IF env = None THEN list ELSE [list EXCEPT ![env.queue] = Without(@, id)]
    /\ work' = [work EXCEPT ![w] = NoWork]
    /\ UNCHANGED <<made, ask>>

(* finish_success.lua and finish_dead.lua delete the payload.              *)
Finish(w) ==
    /\ work[w].phase = "run"
    /\ jobs' = [jobs EXCEPT ![work[w].id] = None]
    /\ work' = [work EXCEPT ![w] = NoWork]
    /\ UNCHANGED <<list, zset, made, ask>>

(* retry_in: the read, and retry_failed.lua or the release of the claim.   *)
RetryRead(w) ==
    /\ work[w].phase = "run"
    /\ jobs[work[w].id] # None => jobs[work[w].id].retries < MaxRetries
    /\ work' = [work EXCEPT ![w] = IF jobs[@.id] = None THEN NoWork
                                   ELSE [@ EXCEPT !.phase = "retry", !.env = jobs[work[w].id]]]
    /\ UNCHANGED <<jobs, list, zset, made, ask>>

RetryCommit(w) ==
    /\ work[w].phase = "retry"
    /\ LET env == work[w].env
       IN  jobs' = [jobs EXCEPT ![work[w].id] = [env EXCEPT !.retries = env.retries + 1]]
    /\ zset' = [zset EXCEPT !["retry"] = @ \cup {work[w].id}]
    /\ work' = [work EXCEPT ![w] = NoWork]
    /\ UNCHANGED <<list, made, ask>>

(* promote_scheduled.lua, which acts only on the payload that was read.    *)
Promote(z, id) ==
    /\ id \in zset[z]
    /\ zset' = [zset EXCEPT ![z] = @ \ {id}]
    /\ list' = IF jobs[id] = None THEN list
               ELSE [list EXCEPT ![jobs[id].queue] = <<id>> \o @]
    /\ UNCHANGED <<jobs, work, made, ask>>

Environment ==
    \/ \E w \in Workers :
          \/ \E q \in Queues : Claim(w, q)
          \/ Load(w) \/ DropRead(w) \/ Drop(w)
          \/ Finish(w) \/ RetryRead(w) \/ RetryCommit(w)
    \/ \E z \in {"schedule", "retry"}, id \in AllIds : Promote(z, id)

Next ==
    \/ \E c \in Clients :
          \/ \E req \in Requests : Ask(c, req)
          \/ Take(c)
          \/ \E S \in SUBSET ask[c].left : Skip(c, S)
          \/ Commit(c) \/ CommitUnanswered(c)
          \/ PipeSet(c) \/ PipePush(c) \/ Break(c)
    \/ Environment

Spec == Init /\ [][Next]_vars
=============================================================================
