--------------------------- MODULE EnqueueProofs ---------------------------
(***************************************************************************)
(* Proofs about enqueue_chunk_w_conn and enqueue.lua, for any number of    *)
(* clients, workers, queues, ids and requests, and any chunk size.         *)
(*                                                                         *)
(* A chunk is written as if at one instant: the plan that the script makes *)
(* from the snapshots is the plan made from the store, because a snapshot  *)
(* that still matches knows the queue of the stored job, whichever side of *)
(* the payload it compares, and an id that the chunk itself has written is *)
(* in the queue of the request (WritesChunk).  The rest of the refinement  *)
(* follows a call through its commands (CallSound).                        *)
(*                                                                         *)
(* A unique job is in one place: the queue that is cleaned is the one its  *)
(* payload names, and the payload names the queue its id is in (Alone).    *)
(***************************************************************************)
EXTENDS BulkEnqueue, SequenceTheorems, FiniteSetTheorems, TLAPS

-----------------------------------------------------------------------------
(* Numbers and lists.                                                      *)

(* A set of numbers has a smallest one.                                    *)
LEMMA HasSmallest ==
    ASSUME NEW S \in SUBSET Nat, S # {}
    PROVE  \E m \in S : \A k \in S : m <= k
<1>1. IsWellFoundedOn(OpToRel(<, Nat), Nat)
  BY NatLessThanWellFounded
<1>2. PICK m \in S : \A k \in S : ~(<<k, m>> \in OpToRel(<, Nat))
  BY <1>1, WFMin
<1>3. \A k \in S : ~(k < m)
  BY <1>2 DEF OpToRel
<1> QED
  BY <1>3

(* Induction up to a number, as the choice of a least counterexample.      *)
LEMMA UpTo ==
    ASSUME NEW N \in Nat, NEW G, 0 \in G,
           \A n \in 1 .. N : n - 1 \in G => n \in G
    PROVE  0 .. N \subseteq G
<1> DEFINE bad == (0 .. N) \ G
<1> SUFFICES ASSUME bad # {} PROVE FALSE
  OBVIOUS
<1>1. PICK x \in bad : \A y \in bad : x <= y
  <2>1. bad \in SUBSET Nat
    OBVIOUS
  <2> QED
    BY <2>1, HasSmallest
<1>2. x \in 1 .. N /\ x - 1 \in 0 .. N
  OBVIOUS
<1>3. x - 1 \notin bad
  BY <1>1, <1>2
<1> QED
  BY <1>2, <1>3

(* The prefixes of a list, up to the n-th, without an id.                  *)
Keeps(f, s, id, n) ==
    f = [m \in 0 .. n |->
            IF m = 0 THEN <<>> ELSE IF s[m] = id THEN f[m - 1] ELSE Append(f[m - 1], s[m])]

(* The recursion of Without has a solution at every length.                *)
LEMMA KeepsExists ==
    ASSUME NEW s, Len(s) \in Nat, NEW id
    PROVE  \E f : Keeps(f, s, id, Len(s))
<1> DEFINE G == {n \in 0 .. Len(s) : \E f : Keeps(f, s, id, n)}
<1>1. 0 \in G
  <2>1. Keeps([m \in 0 .. 0 |-> <<>>], s, id, 0)
    BY DEF Keeps
  <2> QED
    BY <2>1
<1>2. ASSUME NEW n \in 1 .. Len(s), n - 1 \in G PROVE n \in G
  <2>1. PICK f : Keeps(f, s, id, n - 1)
    BY <1>2
  <2> DEFINE g == [m \in 0 .. n |-> IF m < n THEN f[m]
                   ELSE IF s[n] = id THEN f[n - 1] ELSE Append(f[n - 1], s[n])]
  <2>2. \A m \in 0 .. n : g[m] = IF m = 0 THEN <<>> ELSE IF s[m] = id THEN g[m - 1]
                                 ELSE Append(g[m - 1], s[m])
    <3> SUFFICES ASSUME NEW m \in 0 .. n
                 PROVE  g[m] = IF m = 0 THEN <<>> ELSE IF s[m] = id THEN g[m - 1]
                               ELSE Append(g[m - 1], s[m])
      OBVIOUS
    <3>1. CASE m < n
      <4>1. m \in 0 .. n - 1 /\ (m # 0 => m - 1 \in 0 .. n /\ m - 1 < n)
        BY <3>1
      <4> QED
        BY <2>1, <3>1, <4>1 DEF Keeps
    <3>2. CASE m = n
      <4>1. m # 0 /\ m - 1 \in 0 .. n /\ m - 1 < n
        BY <3>2
      <4> QED
        BY <3>2, <4>1
    <3> QED
      BY <3>1, <3>2
  <2>3. Keeps(g, s, id, n)
    BY <2>2 DEF Keeps
  <2> QED
    BY <2>3
<1>3. 0 .. Len(s) \subseteq G
  BY <1>1, <1>2, UpTo
<1> QED
  BY <1>3

(* Without is the last value of that recursion.                            *)
LEMMA WithoutIs ==
    ASSUME NEW s, Len(s) \in Nat, NEW id
    PROVE  \E f : Keeps(f, s, id, Len(s)) /\ Atomic!Without(s, id) = f[Len(s)]
  BY KeepsExists DEF Keeps, Atomic!Without

In(s, x) == \E i \in DOMAIN s : s[i] = x
Once(s, x) == \A i, j \in DOMAIN s : s[i] = x /\ s[j] = x => i = j

(* LREM takes out an id and leaves the others as often as they were.       *)
LEMMA WithoutKeeps ==
    ASSUME NEW A, NEW s \in Seq(A), NEW id
    PROVE  /\ Atomic!Without(s, id) \in Seq(A)
           /\ \A x : In(Atomic!Without(s, id), x) <=> x # id /\ In(s, x)
           /\ \A x : Once(s, x) => Once(Atomic!Without(s, id), x)
<1>1. PICK f : Keeps(f, s, id, Len(s)) /\ Atomic!Without(s, id) = f[Len(s)]
  BY WithoutIs
<1>0. /\ \A m \in 0 .. Len(s) :
            f[m] = IF m = 0 THEN <<>> ELSE IF s[m] = id THEN f[m - 1] ELSE Append(f[m - 1], s[m])
      /\ Len(s) \in Nat /\ DOMAIN s = 1 .. Len(s)
  <2>1. Len(s) \in Nat /\ DOMAIN s = 1 .. Len(s)
    OBVIOUS
  <2>2. ASSUME NEW m \in 0 .. Len(s)
        PROVE  f[m] = IF m = 0 THEN <<>> ELSE IF s[m] = id THEN f[m - 1]
                      ELSE Append(f[m - 1], s[m])
    BY <1>1, Zenon DEF Keeps
  <2> QED
    BY <2>1, <2>2
<1> DEFINE OnceTo(n, x) == \A i, j \in 1 .. n : s[i] = x /\ s[j] = x => i = j
           G == {n \in 0 .. Len(s) :
                   /\ f[n] \in Seq(A)
                   /\ \A x : In(f[n], x) <=> x # id /\ \E i \in 1 .. n : s[i] = x
                   /\ \A x : OnceTo(n, x) => Once(f[n], x)}
<1>2. 0 \in G
  <2>1. f[0] = <<>>
    BY <1>0
  <2>2. <<>> \in Seq(A) /\ (\A x : ~In(<<>>, x) /\ Once(<<>>, x)) /\ 0 \in 0 .. Len(s)
    BY <1>0 DEF In, Once
  <2>3. \A x : ~ \E i \in 1 .. 0 : s[i] = x
    OBVIOUS
  <2> QED
    BY <2>1, <2>2, <2>3
<1>3. ASSUME NEW n \in 1 .. Len(s), n - 1 \in G PROVE n \in G
  <2> DEFINE t == f[n - 1]
  <2>1. f[n] = IF s[n] = id THEN t ELSE Append(t, s[n])
    <3>1. n \in 0 .. Len(s) /\ n # 0
      OBVIOUS
    <3> QED
      BY <1>0, <3>1
  <2>2. /\ t \in Seq(A) /\ s[n] \in A
        /\ \A x : In(t, x) <=> x # id /\ \E i \in 1 .. n - 1 : s[i] = x
        /\ \A x : OnceTo(n - 1, x) => Once(t, x)
    BY <1>3
  <2> HIDE DEF t
  <2>3. CASE s[n] = id
    <3>1. \A x : (x # id /\ \E i \in 1 .. n : s[i] = x) <=> (x # id /\ \E i \in 1 .. n - 1 : s[i] = x)
      BY <2>3
    <3>2. \A x : OnceTo(n, x) => OnceTo(n - 1, x)
      OBVIOUS
    <3> QED
      BY <2>1, <2>2, <2>3, <3>1, <3>2
  <2>4. CASE s[n] # id
    <3> DEFINE u == Append(t, s[n])
    <3>1. /\ u \in Seq(A) /\ Len(u) = Len(t) + 1 /\ u[Len(u)] = s[n] /\ DOMAIN u = 1 .. Len(t) + 1
          /\ DOMAIN t = 1 .. Len(t) /\ Len(t) \in Nat
          /\ \A i \in 1 .. Len(t) : u[i] = t[i]
      BY <2>2
    <3> HIDE DEF u
    <3>2. ASSUME NEW x PROVE In(u, x) <=> x # id /\ \E i \in 1 .. n : s[i] = x
      <4>1. In(u, x) <=> In(t, x) \/ s[n] = x
        BY <3>1 DEF In
      <4>2. (\E i \in 1 .. n : s[i] = x) <=> (\E i \in 1 .. n - 1 : s[i] = x) \/ s[n] = x
        OBVIOUS
      <4> QED
        BY <2>2, <2>4, <4>1, <4>2
    <3>3. ASSUME NEW x, OnceTo(n, x) PROVE Once(u, x)
      <4>1. OnceTo(n - 1, x)
        BY <3>3
      <4>2. Once(t, x)
        BY <2>2, <4>1
      <4>3. s[n] = x => ~In(t, x)
        BY <2>2, <3>3
      <4> QED
        BY <3>1, <4>2, <4>3 DEF Once, In
    <3>4. f[n] = u
      BY <2>1, <2>4 DEF u
    <3> QED
      BY <3>1, <3>2, <3>3, <3>4
  <2> QED
    BY <2>3, <2>4
<1>4. Len(s) \in G
  <2>1. 0 .. Len(s) \subseteq G
    <3> HIDE DEF G
    <3> QED
      BY <1>0, <1>2, <1>3, UpTo
  <2>2. Len(s) \in 0 .. Len(s)
    BY <1>0
  <2> HIDE DEF G
  <2> QED
    BY <2>1, <2>2
<1>5. /\ f[Len(s)] \in Seq(A)
      /\ \A x : In(f[Len(s)], x) <=> x # id /\ \E i \in 1 .. Len(s) : s[i] = x
      /\ \A x : OnceTo(Len(s), x) => Once(f[Len(s)], x)
  BY <1>4
<1>6. /\ \A x : In(s, x) <=> (\E i \in 1 .. Len(s) : s[i] = x)
      /\ \A x : Once(s, x) => OnceTo(Len(s), x)
  BY <1>0 DEF In, Once
<1>7. Atomic!Without(s, id) = f[Len(s)]
  BY <1>1
<1> HIDE DEF OnceTo
<1> QED
  BY <1>5, <1>6, <1>7

-----------------------------------------------------------------------------
(* A chunk, job by job.                                                    *)

(* The store after each position of a request.                             *)
Applies(f, st, left, req, stamp, n) ==
    f = [m \in 0 .. n |-> IF m = 0 THEN st
                          ELSE IF m \in left THEN Atomic!Applied(f[m - 1], req.items[m], req, stamp)
                          ELSE f[m - 1]]

(* The recursion of ApplyAll has a solution.                               *)
LEMMA AppliesExists ==
    ASSUME NEW st, NEW left, NEW req, NEW stamp, NEW N \in Nat
    PROVE  \E f : Applies(f, st, left, req, stamp, N)
<1> DEFINE After(m, before) ==
               IF m = 0 THEN st
               ELSE IF m \in left THEN Atomic!Applied(before, req.items[m], req, stamp) ELSE before
           Fits(f, n) == f = [m \in 0 .. n |-> After(m, f[m - 1])]
           G == {n \in 0 .. N : \E f : Fits(f, n)}
<1> HIDE DEF After
<1>1. 0 \in G
  <2>1. Fits([m \in 0 .. 0 |-> st], 0)
    BY DEF After
  <2> QED
    BY <2>1
<1>2. ASSUME NEW n \in 1 .. N, n - 1 \in G PROVE n \in G
  <2>1. PICK f : Fits(f, n - 1)
    BY <1>2
  <2> DEFINE g == [m \in 0 .. n |-> IF m < n THEN f[m] ELSE After(n, f[n - 1])]
  <2>2. ASSUME NEW m \in 0 .. n PROVE g[m] = After(m, g[m - 1])
    <3>1. CASE m = 0
      BY <2>1, <3>1 DEF After
    <3>2. CASE m # 0 /\ m < n
      <4>1. m \in 0 .. n - 1 /\ m - 1 \in 0 .. n /\ m - 1 < n
        BY <3>2
      <4> QED
        BY <2>1, <3>2, <4>1
    <3>3. CASE m = n
      <4>1. m - 1 \in 0 .. n /\ m - 1 < n
        BY <3>3
      <4> QED
        BY <3>3, <4>1
    <3> QED
      BY <3>1, <3>2, <3>3
  <2>3. Fits(g, n)
    BY <2>2
  <2>4. n \in 0 .. N
    OBVIOUS
  <2> HIDE DEF g, Fits
  <2> QED
    BY <2>3, <2>4
<1>3. 0 .. N \subseteq G
  <2> HIDE DEF G
  <2> QED
    BY <1>1, <1>2, UpTo
<1>4. PICK f : Fits(f, N)
  BY <1>3
<1>5. Applies(f, st, left, req, stamp, N)
  BY <1>4 DEF Applies, After
<1> QED
  BY <1>5

(* ApplyAll is the last value of that recursion.                           *)
LEMMA ApplyAllIs ==
    ASSUME NEW st, NEW left, NEW req, NEW stamp, Len(req.items) \in Nat
    PROVE  \E f : /\ Applies(f, st, left, req, stamp, Len(req.items))
                  /\ Atomic!ApplyAll(st, left, req, stamp) = f[Len(req.items)]
<1>1. \E f : Applies(f, st, left, req, stamp, Len(req.items))
  BY AppliesExists
<1> DEFINE h == CHOOSE f : Applies(f, st, left, req, stamp, Len(req.items))
<1>2. Applies(h, st, left, req, stamp, Len(req.items))
  BY <1>1, Zenon
<1>3. Atomic!ApplyAll(st, left, req, stamp) = h[Len(req.items)]
  BY Zenon DEF Applies, Atomic!ApplyAll
<1> HIDE DEF h
<1> QED
  BY <1>2, <1>3

(* The plan of the script after each position.                             *)
Plans(f, k, acc, n) ==
    f = [m \in 0 .. n |-> IF m = 0 THEN acc
                          ELSE IF m \in k.pending THEN Planned(f[m - 1], k.req.items[m], k)
                          ELSE f[m - 1]]

(* The recursion of Result, the planning loop of the script, has a         *)
(* solution.                                                               *)
LEMMA PlansExists ==
    ASSUME NEW k, NEW acc, NEW N \in Nat
    PROVE  \E f : Plans(f, k, acc, N)
<1> DEFINE After(m, before) ==
               IF m = 0 THEN acc
               ELSE IF m \in k.pending THEN Planned(before, k.req.items[m], k) ELSE before
           Fits(f, n) == f = [m \in 0 .. n |-> After(m, f[m - 1])]
           G == {n \in 0 .. N : \E f : Fits(f, n)}
<1> HIDE DEF After
<1>1. 0 \in G
  <2>1. Fits([m \in 0 .. 0 |-> acc], 0)
    BY DEF After
  <2> QED
    BY <2>1
<1>2. ASSUME NEW n \in 1 .. N, n - 1 \in G PROVE n \in G
  <2>1. PICK f : Fits(f, n - 1)
    BY <1>2
  <2> DEFINE g == [m \in 0 .. n |-> IF m < n THEN f[m] ELSE After(n, f[n - 1])]
  <2>2. ASSUME NEW m \in 0 .. n PROVE g[m] = After(m, g[m - 1])
    <3>1. CASE m = 0
      BY <2>1, <3>1 DEF After
    <3>2. CASE m # 0 /\ m < n
      <4>1. m \in 0 .. n - 1 /\ m - 1 \in 0 .. n /\ m - 1 < n
        BY <3>2
      <4> QED
        BY <2>1, <3>2, <4>1
    <3>3. CASE m = n
      <4>1. m - 1 \in 0 .. n /\ m - 1 < n
        BY <3>3
      <4> QED
        BY <3>3, <4>1
    <3> QED
      BY <3>1, <3>2, <3>3
  <2>3. Fits(g, n)
    BY <2>2
  <2>4. n \in 0 .. N
    OBVIOUS
  <2> HIDE DEF g, Fits
  <2> QED
    BY <2>3, <2>4
<1>3. 0 .. N \subseteq G
  <2> HIDE DEF G
  <2> QED
    BY <1>1, <1>2, UpTo
<1>4. PICK f : Fits(f, N)
  BY <1>3
<1>5. Plans(f, k, acc, N)
  BY <1>4 DEF Plans, After
<1> QED
  BY <1>5

(* The queues that the script starts with.                                 *)
OldQueues(k) ==
    [id \in Ids \cup Fresh |-> IF id \in DOMAIN k.snaps /\ k.snaps[id] # None
                               THEN k.snaps[id].payload.queue ELSE k.req.queue]

(* Result is the store at the end of that recursion.                       *)
LEMMA ResultIs ==
    ASSUME NEW k, Len(k.req.items) \in Nat
    PROVE  \E f : /\ Plans(f, k, [st |-> Atomic!Current(k.written), old |-> OldQueues(k)],
                           Len(k.req.items))
                  /\ Result(k) = f[Len(k.req.items)].st
<1> DEFINE acc == [st |-> Atomic!Current(k.written), old |-> OldQueues(k)]
           h == CHOOSE f : Plans(f, k, acc, Len(k.req.items))
<1>1. \E f : Plans(f, k, acc, Len(k.req.items))
  BY PlansExists
<1>2. Plans(h, k, acc, Len(k.req.items))
  BY <1>1, Zenon
<1>3. Result(k) = h[Len(k.req.items)].st
  BY Zenon DEF Plans, Result, OldQueues
<1> HIDE DEF h
<1> QED
  BY <1>2, <1>3

-----------------------------------------------------------------------------
(* Types.                                                                  *)

Every == Ids \cup Fresh
Value == Atomic!Payload \cup {None}
Stores ==
    [jobs : [Every -> Value], list : [Queues -> Seq(Every)],
     zset : [{"schedule", "retry"} -> SUBSET Every], written : SUBSET Every]
Snaps == Images \cup {None}

StoreTyped ==
    /\ jobs \in [Every -> Value] /\ list \in [Queues -> Seq(Every)]
    /\ zset \in [{"schedule", "retry"} -> SUBSET Every] /\ made \in Nat

(* What the assumption says of the names.                                  *)
LEMMA Names ==
    /\ ChunkSize \in Nat \ {0} /\ Ids \cap Fresh = {}
    /\ None \notin Every /\ None \notin Atomic!Payload /\ None \notin Images
  BY BulkEnqueueAssumption DEF Atomic!EnqueueAssumption, Every

(* The parts of a request.                                                 *)
LEMMA RequestTyped ==
    ASSUME NEW r \in Requests
    PROVE  /\ r.queue \in Queues /\ r.args \in Nat /\ r.delay \in Nat
           /\ Len(r.items) \in Nat /\ DOMAIN r.items = 1 .. Len(r.items)
           /\ \A i \in 1 .. Len(r.items) :
                 /\ r.items[i].id \in Every /\ r.items[i].mode \in {"default", "skip", "replace"}
                 /\ r.items[i].id \in Fresh <=> r.items[i].mode = "default"
<1>1. /\ r \in [items : Seq(Atomic!Item), queue : Queues, args : Nat, delay : Nat]
      /\ \A i \in DOMAIN r.items : r.items[i].id \in Fresh <=> r.items[i].mode = "default"
  BY BulkEnqueueAssumption DEF Atomic!EnqueueAssumption, Atomic!Request
<1>2. r.items \in Seq(Atomic!Item) /\ r.queue \in Queues /\ r.args \in Nat /\ r.delay \in Nat
  BY <1>1
<1>3. Len(r.items) \in Nat /\ DOMAIN r.items = 1 .. Len(r.items)
      /\ \A i \in 1 .. Len(r.items) : r.items[i] \in Atomic!Item
  BY <1>2
<1> QED
  BY <1>1, <1>2, <1>3 DEF Atomic!Item, Atomic!Mode, Every

(* The payload of a new job is in the queue of its request.                *)
LEMMA PayloadTyped ==
    ASSUME NEW r \in Requests, NEW stamp \in Nat
    PROVE  Atomic!PayloadOf(r, stamp) \in Atomic!Payload /\ Atomic!PayloadOf(r, stamp).queue = r.queue
  BY RequestTyped DEF Atomic!PayloadOf, Atomic!Payload

(* A job that is not passed over is stored; a replaced one is cleared      *)
(* first, from the queue `old` and from that of the request.               *)
Rewritten(st, item, old, req, stamp) ==
    LET cleared == IF item.mode = "replace" /\ st.jobs[item.id] # None
                   THEN Atomic!Cleared(st, item.id, old, req.queue) ELSE st
    IN  Atomic!Pushed(Atomic!Stored(cleared, item.id, Atomic!PayloadOf(req, stamp)), item.id, req)

Overwritten(st, item, old, req, stamp) ==
    [Rewritten(st, item, old, req, stamp)
        EXCEPT !.written = IF item.mode = "default" THEN @ ELSE @ \cup {item.id}]

(* The ZREM and LREM before a replacement.                                 *)
LEMMA ClearedTyped ==
    ASSUME NEW st \in Stores, NEW id, NEW old, NEW new
    PROVE  /\ Atomic!Cleared(st, id, old, new) \in Stores
           /\ Atomic!Cleared(st, id, old, new).jobs = st.jobs
           /\ Atomic!Cleared(st, id, old, new).written = st.written
           /\ \A z \in {"schedule", "retry"} : Atomic!Cleared(st, id, old, new).zset[z] = st.zset[z] \ {id}
           /\ \A q \in Queues : Atomic!Cleared(st, id, old, new).list[q] =
                 IF q \in {old, new} THEN Atomic!Without(st.list[q], id) ELSE st.list[q]
<1>1. \A q \in Queues : Atomic!Without(st.list[q], id) \in Seq(Every)
  BY WithoutKeeps DEF Stores
<1> QED
  BY <1>1 DEF Stores, Atomic!Cleared

(* What they leave.                                                        *)
Clears(st, item) == item.mode = "replace" /\ st.jobs[item.id] # None
Leaves(new, st, item, old, r, stamp) ==
    /\ new \in Stores
    /\ new.jobs = [st.jobs EXCEPT ![item.id] = Atomic!PayloadOf(r, stamp)]
    /\ \A z \in {"schedule", "retry"} : new.zset[z] =
          (IF Clears(st, item) THEN st.zset[z] \ {item.id} ELSE st.zset[z])
          \cup (IF z = "schedule" /\ r.delay # 0 THEN {item.id} ELSE {})
    /\ \A q \in Queues : new.list[q] =
          (IF q = r.queue /\ r.delay = 0 THEN <<item.id>> ELSE <<>>)
          \o (IF Clears(st, item) /\ q \in {old, r.queue} THEN Atomic!Without(st.list[q], item.id)
              ELSE st.list[q])

(* Writing a job leaves exactly that.                                      *)
LEMMA RewrittenLeaves ==
    ASSUME NEW st \in Stores, NEW r \in Requests, NEW n \in 1 .. Len(r.items), NEW stamp \in Nat, NEW old
    PROVE  /\ Leaves(Rewritten(st, r.items[n], old, r, stamp), st, r.items[n], old, r, stamp)
           /\ Leaves(Overwritten(st, r.items[n], old, r, stamp), st, r.items[n], old, r, stamp)
<1> DEFINE item == r.items[n]
           clears == Clears(st, item)
           st1 == IF clears THEN Atomic!Cleared(st, item.id, old, r.queue) ELSE st
           p == Atomic!PayloadOf(r, stamp)
           st2 == Atomic!Stored(st1, item.id, p)
           st3 == Atomic!Pushed(st2, item.id, r)
           new == Overwritten(st, item, old, r, stamp)
<1>0. item.id \in Every /\ r.queue \in Queues /\ r.delay \in Nat /\ p \in Atomic!Payload
  BY RequestTyped, PayloadTyped
<1>1. /\ st1 \in Stores /\ st1.jobs = st.jobs
      /\ \A z \in {"schedule", "retry"} : st1.zset[z] = IF clears THEN st.zset[z] \ {item.id} ELSE st.zset[z]
      /\ \A q \in Queues : st1.list[q] = IF clears /\ q \in {old, r.queue}
                                         THEN Atomic!Without(st.list[q], item.id) ELSE st.list[q]
  <2>1. CASE clears
    BY <2>1, ClearedTyped
  <2>2. CASE ~clears
    BY <2>2
  <2> QED
    BY <2>1, <2>2
<1>2. /\ Rewritten(st, item, old, r, stamp) = st3
      /\ new = [st3 EXCEPT !.written = IF item.mode = "default" THEN @ ELSE @ \cup {item.id}]
  BY DEF Rewritten, Overwritten, Clears
<1> HIDE DEF clears, item, p, st1, new
<1>3. /\ st2 \in Stores /\ st2.list = st1.list /\ st2.zset = st1.zset
      /\ st2.jobs = [st.jobs EXCEPT ![item.id] = p]
  BY <1>0, <1>1 DEF Stores, Atomic!Stored, Value
<1> HIDE DEF st2
<1>4. /\ st3 \in Stores /\ st3.jobs = st2.jobs
      /\ \A z \in {"schedule", "retry"} :
            st3.zset[z] = st2.zset[z] \cup (IF z = "schedule" /\ r.delay # 0 THEN {item.id} ELSE {})
      /\ \A q \in Queues :
            st3.list[q] = (IF q = r.queue /\ r.delay = 0 THEN <<item.id>> ELSE <<>>) \o st2.list[q]
  <2>1. \A q \in Queues : /\ st2.list[q] \in Seq(Every) /\ <<>> \o st2.list[q] = st2.list[q]
                          /\ <<item.id>> \o st2.list[q] \in Seq(Every)
    BY <1>0, <1>3 DEF Stores
  <2>2. CASE r.delay = 0
    BY <1>0, <1>3, <2>1, <2>2 DEF Stores, Atomic!Pushed, Atomic!Destination
  <2>3. CASE r.delay # 0
    BY <1>0, <1>3, <2>1, <2>3 DEF Stores, Atomic!Pushed, Atomic!Destination
  <2> QED
    BY <2>2, <2>3
<1> HIDE DEF st3
<1>5. new \in Stores /\ new.jobs = st3.jobs /\ new.zset = st3.zset /\ new.list = st3.list
  BY <1>0, <1>2, <1>4 DEF Stores
<1>6. Leaves(st3, st, item, old, r, stamp)
  <2>1. st3.jobs = [st.jobs EXCEPT ![item.id] = Atomic!PayloadOf(r, stamp)]
    BY <1>3, <1>4 DEF p
  <2>2. ASSUME NEW z \in {"schedule", "retry"}
        PROVE  st3.zset[z] = (IF clears THEN st.zset[z] \ {item.id} ELSE st.zset[z])
                             \cup (IF z = "schedule" /\ r.delay # 0 THEN {item.id} ELSE {})
    BY <1>1, <1>3, <1>4
  <2>3. ASSUME NEW q \in Queues
        PROVE  st3.list[q] =
                 (IF q = r.queue /\ r.delay = 0 THEN <<item.id>> ELSE <<>>)
                 \o (IF clears /\ q \in {old, r.queue} THEN Atomic!Without(st.list[q], item.id)
                     ELSE st.list[q])
    <3>1. st3.list[q] = (IF q = r.queue /\ r.delay = 0 THEN <<item.id>> ELSE <<>>) \o st1.list[q]
      BY <1>3, <1>4
    <3> QED
      BY <1>1, <3>1, Zenon
  <2> QED
    BY <1>4, <2>1, <2>2, <2>3, Zenon DEF Leaves, clears
<1>7. Leaves(new, st, item, old, r, stamp)
  BY <1>5, <1>6 DEF Leaves
<1> QED
  BY <1>2, <1>6, <1>7 DEF item, new

(* The step of the abstract specification and that of the script.          *)
LEMMA AppliedIs ==
    ASSUME NEW st \in Stores, NEW r \in Requests, NEW n \in 1 .. Len(r.items), NEW stamp \in Nat
    PROVE  Atomic!Applied(st, r.items[n], r, stamp) =
             IF r.items[n].mode = "skip" /\ st.jobs[r.items[n].id] # None THEN st
             ELSE Overwritten(st, r.items[n], st.jobs[r.items[n].id].queue, r, stamp)
<1> DEFINE item == r.items[n]
           w == Rewritten(st, item, st.jobs[item.id].queue, r, stamp)
<1>1. Atomic!Applied(st, item, r, stamp) =
        IF item.mode = "skip" /\ st.jobs[item.id] # None THEN st
        ELSE IF item.mode = "default" THEN w ELSE [w EXCEPT !.written = @ \cup {item.id}]
  BY DEF Atomic!Applied, Rewritten
<1>2. w \in Stores
  BY RewrittenLeaves DEF Leaves
<1> HIDE DEF w
<1>3. w = [w EXCEPT !.written = w.written]
  BY <1>2 DEF Stores
<1>4. Overwritten(st, item, st.jobs[item.id].queue, r, stamp) =
        [w EXCEPT !.written = IF item.mode = "default" THEN @ ELSE @ \cup {item.id}]
  BY DEF Overwritten, w
<1>5. CASE item.mode = "default"
  BY <1>1, <1>3, <1>4, <1>5
<1>6. CASE item.mode # "default"
  BY <1>1, <1>4, <1>6
<1> QED
  BY <1>5, <1>6

(* One turn of the planning loop: the job is passed over or written, and   *)
(* its queue is remembered.                                                *)
LEMMA PlannedIs ==
    ASSUME NEW acc, NEW k, NEW item
    PROVE  Planned(acc, item, k) =
             IF item.mode = "skip" /\ acc.st.jobs[item.id] # None THEN acc
             ELSE [st  |-> Overwritten(acc.st, item, acc.old[item.id], k.req, k.stamp),
                   old |-> [acc.old EXCEPT ![item.id] = k.req.queue]]
  BY DEF Planned, Overwritten, Rewritten

-----------------------------------------------------------------------------
(* A request in progress.                                                  *)

Calls ==
    [pc : {"idle", "chunk", "pipe", "snapshot", "exists", "script"}, req : Requests \cup {None},
     at : Nat, pending : SUBSET Nat, half : BOOLEAN, stamp : Nat, written : SUBSET Every,
     snaps : UNION {[D -> Snaps] : D \in SUBSET Every}, found : SUBSET Every, unknown : SUBSET Every]

(* Every job that is going to be replaced has its snapshot when the script *)
(* runs, and the Skip jobs whose answer is awaited are undecided.          *)
CallSound(k) ==
    /\ k \in Calls
    /\ k.pc # "idle" => k.req \in Requests /\ k.pending \subseteq 1 .. Len(k.req.items)
    /\ k.pc \in {"idle", "chunk"} <=> k.pending = {}
    /\ k.pc \in {"chunk", "snapshot"} => DOMAIN k.snaps = {} /\ k.found = {}
    /\ k.half => k.pc = "pipe"
    /\ k.pc = "pipe" => \A i \in k.pending : k.req.items[i].mode = "default"
    /\ k.pc \in {"exists", "script"} =>
          \A i \in k.pending : k.req.items[i].mode = "replace" => k.req.items[i].id \in DOMAIN k.snaps
    /\ k.pc = "exists" => k.unknown # {} /\ k.unknown \subseteq SkipIds(k) /\ k.unknown \cap Known(k) = {}

(* The store in hand is well formed.                                       *)
LEMMA CurrentTyped ==
    ASSUME StoreTyped, NEW w \in SUBSET Every
    PROVE  /\ Atomic!Current(w) \in Stores
           /\ Atomic!Current(w).jobs = jobs /\ Atomic!Current(w).list = list
           /\ Atomic!Current(w).zset = zset /\ Atomic!Current(w).written = w
  BY DEF StoreTyped, Atomic!Current, Stores

(* A snapshot that still matches knows the queue of the stored job.        *)
LEMMA MatchKnowsQueue ==
    ASSUME NEW snap \in Snaps, NEW p \in Value, Matches(snap, p)
    PROVE  /\ snap = None <=> p = None
           /\ p # None => snap.payload.queue = p.queue
<1>1. snap = None <=> p = None
  BY DEF Matches
<1>2. ASSUME p # None PROVE snap.payload.queue = p.queue
  <2>1. /\ snap.cmp \in {"prefix", "suffix", "exact"}
        /\ Part(snap.cmp, snap.payload) = Part(snap.cmp, p)
    BY <1>1, <1>2 DEF Matches, Snaps, Images, Comparisons
  <2>2. CASE snap.cmp = "prefix"
    <3>1. <<snap.payload.args, snap.payload.queue>> = <<p.args, p.queue>>
      BY <2>1, <2>2 DEF Part
    <3> QED
      BY <3>1
  <2>3. CASE snap.cmp = "suffix"
    <3>1. <<snap.payload.queue, snap.payload.created, snap.payload.retries>>
          = <<p.queue, p.created, p.retries>>
      BY <2>1, <2>3 DEF Part
    <3> QED
      BY <3>1
  <2>4. CASE snap.cmp = "exact"
    BY <2>1, <2>4 DEF Part
  <2> QED
    BY <2>1, <2>2, <2>3, <2>4
<1> QED
  BY <1>1, <1>2

(* The script writes what the abstract specification says.                 *)
LEMMA WritesChunk ==
    ASSUME StoreTyped, NEW k, CallSound(k), k.pc = "script", Stale(k) = {}
    PROVE  /\ Result(k) = Atomic!ApplyAll(Atomic!Current(k.written), k.pending, k.req, k.stamp)
           /\ Result(k) \in Stores
<1>1. /\ k.req \in Requests /\ k.pending \subseteq 1 .. Len(k.req.items) /\ k.stamp \in Nat
      /\ k.written \in SUBSET Every /\ k.snaps \in [DOMAIN k.snaps -> Snaps]
      /\ DOMAIN k.snaps \subseteq Every
      /\ \A i \in k.pending : k.req.items[i].mode = "replace" => k.req.items[i].id \in DOMAIN k.snaps
  BY DEF CallSound, Calls
<1> DEFINE req == k.req
           N == Len(req.items)
           st == Atomic!Current(k.written)
<1>2. N \in Nat /\ req.queue \in Queues
      /\ \A i \in 1 .. N : req.items[i].id \in Every /\ req.items[i].mode \in {"default", "skip", "replace"}
  BY <1>1, RequestTyped
<1>3. PICK a : /\ Applies(a, st, k.pending, req, k.stamp, N)
               /\ Atomic!ApplyAll(st, k.pending, req, k.stamp) = a[N]
  <2>1. PICK s, p, r, n : s = st /\ p = k.pending /\ r = req /\ n = k.stamp
    OBVIOUS
  <2>2. \E a : Applies(a, s, p, r, n, Len(r.items)) /\ Atomic!ApplyAll(s, p, r, n) = a[Len(r.items)]
    BY <1>2, <2>1, ApplyAllIs
  <2> QED
    BY <2>1, <2>2
<1>4. PICK f : /\ Plans(f, k, [st |-> st, old |-> OldQueues(k)], N)
               /\ Result(k) = f[N].st
  BY <1>2, ResultIs, Zenon
<1>5. st \in Stores /\ st.jobs = jobs
  BY <1>1, CurrentTyped
<1> DEFINE G == {n \in 0 .. N :
                   /\ f[n].st = a[n] /\ a[n] \in Stores /\ f[n].old \in [Every -> Queues]
                   /\ \A id \in DOMAIN k.snaps : a[n].jobs[id] # None => f[n].old[id] = a[n].jobs[id].queue}
<1>6. 0 \in G
  <2>1. a[0] = st /\ f[0] = [st |-> st, old |-> OldQueues(k)]
    BY <1>2, <1>3, <1>4 DEF Applies, Plans
  <2>2. \A id \in DOMAIN k.snaps : /\ k.snaps[id] \in Snaps /\ jobs[id] \in Value
                                   /\ Matches(k.snaps[id], jobs[id])
    BY <1>1 DEF Stale, StoreTyped
  <2>3. \A id \in DOMAIN k.snaps :
           /\ k.snaps[id] = None <=> jobs[id] = None
           /\ jobs[id] # None => k.snaps[id].payload.queue = jobs[id].queue
    BY <2>2, MatchKnowsQueue
  <2>4. OldQueues(k) \in [Every -> Queues]
    <3>1. \A id \in DOMAIN k.snaps : k.snaps[id] # None => k.snaps[id].payload.queue \in Queues
      BY <2>2 DEF Snaps, Images, Atomic!Payload
    <3> QED
      BY <1>2, <3>1 DEF OldQueues, Every
  <2>5. \A id \in DOMAIN k.snaps : jobs[id] # None => OldQueues(k)[id] = jobs[id].queue
    BY <1>1, <2>3 DEF OldQueues, Every
  <2> QED
    BY <1>2, <1>5, <2>1, <2>4, <2>5
<1>7. ASSUME NEW n \in 1 .. N, n - 1 \in G PROVE n \in G
  <2>1. /\ n \in 0 .. N /\ n # 0 /\ n - 1 \in 0 .. N
    BY <1>2
  <2>2. /\ a[n] = IF n \in k.pending THEN Atomic!Applied(a[n - 1], req.items[n], req, k.stamp) ELSE a[n - 1]
        /\ f[n] = IF n \in k.pending THEN Planned(f[n - 1], req.items[n], k) ELSE f[n - 1]
    BY <1>3, <1>4, <2>1, Zenon DEF Applies, Plans
  <2> DEFINE s == a[n - 1]
             old == f[n - 1].old
             item == req.items[n]
  <2>3. /\ f[n - 1].st = s /\ s \in Stores /\ old \in [Every -> Queues]
        /\ \A id \in DOMAIN k.snaps : s.jobs[id] # None => old[id] = s.jobs[id].queue
    BY <1>7
  <2>4. CASE n \notin k.pending \/ (item.mode = "skip" /\ s.jobs[item.id] # None)
    <3>1. a[n] = s /\ f[n] = f[n - 1]
      BY <1>1, <2>2, <2>3, <2>4, AppliedIs, PlannedIs
    <3> QED
      BY <1>7, <2>1, <3>1
  <2>5. CASE n \in k.pending /\ ~(item.mode = "skip" /\ s.jobs[item.id] # None)
    <3>1. a[n] = Overwritten(s, item, s.jobs[item.id].queue, req, k.stamp)
      BY <1>1, <2>2, <2>3, <2>5, AppliedIs
    <3>2. f[n] = [st  |-> Overwritten(s, item, old[item.id], req, k.stamp),
                  old |-> [old EXCEPT ![item.id] = req.queue]]
      BY <1>1, <2>2, <2>3, <2>5, PlannedIs
    <3>3. item.mode = "replace" /\ s.jobs[item.id] # None => old[item.id] = s.jobs[item.id].queue
      BY <1>1, <2>3, <2>5
    <3>4. Overwritten(s, item, old[item.id], req, k.stamp)
          = Overwritten(s, item, s.jobs[item.id].queue, req, k.stamp)
      BY <3>3 DEF Overwritten, Rewritten
    <3>5. a[n] \in Stores /\ a[n].jobs = [s.jobs EXCEPT ![item.id] = Atomic!PayloadOf(req, k.stamp)]
      <4>1. n \in 1 .. Len(k.req.items)
        OBVIOUS
      <4>2. Leaves(Overwritten(s, k.req.items[n], s.jobs[item.id].queue, k.req, k.stamp),
                   s, k.req.items[n], s.jobs[item.id].queue, k.req, k.stamp)
        BY <1>1, <2>3, <4>1, RewrittenLeaves, Zenon
      <4> QED
        BY <3>1, <4>2 DEF Leaves
    <3>6. item.id \in Every /\ Atomic!PayloadOf(req, k.stamp).queue = req.queue
      BY <1>1, <1>2, PayloadTyped
    <3>7. f[n].old = [old EXCEPT ![item.id] = req.queue] /\ f[n].st = a[n]
      BY <3>1, <3>2, <3>4
    <3>8. s.jobs \in [Every -> Value]
      BY <2>3 DEF Stores
    <3>9. \A id \in DOMAIN k.snaps : a[n].jobs[id] # None => f[n].old[id] = a[n].jobs[id].queue
      BY <1>1, <2>3, <3>5, <3>6, <3>7, <3>8
    <3>10. f[n].old \in [Every -> Queues]
      BY <1>2, <2>3, <3>7
    <3> QED
      BY <2>1, <3>5, <3>7, <3>9, <3>10
  <2> QED
    BY <2>4, <2>5
<1>8. N \in G
  <2> HIDE DEF G, N
  <2>1. 0 .. N \subseteq G
    BY <1>2, <1>6, <1>7, UpTo
  <2>2. N \in 0 .. N
    BY <1>2
  <2> QED
    BY <2>1, <2>2
<1> QED
  BY <1>3, <1>4, <1>8

(* Between snapshots and script, with or without answers to wait for.      *)
Asking(e) ==
    /\ e \in Calls /\ e.pc = "exists" /\ ~e.half
    /\ e.req \in Requests /\ e.pending \subseteq 1 .. Len(e.req.items) /\ e.pending # {}
    /\ \A i \in e.pending : e.req.items[i].mode = "replace" => e.req.items[i].id \in DOMAIN e.snaps
    /\ e.unknown \subseteq SkipIds(e) /\ e.unknown \cap Known(e) = {}

(* The client as it is seen while the jobs at the positions in left are    *)
(* undecided.                                                              *)
SeenWith(e, left) ==
    [phase |-> IF left = {} THEN "chunk" ELSE "unique", req |-> e.req, at |-> e.at, left |-> left,
     half |-> FALSE, stamp |-> e.stamp, written |-> e.written]

(* No snapshots are a function on no ids.                                  *)
LEMMA NoSnaps == << >> \in UNION {[D -> Snaps] : D \in SUBSET Every} /\ DOMAIN << >> = {}
<1>1. << >> \in [{} -> Snaps] /\ {} \in SUBSET Every
  OBVIOUS
<1> QED
  BY <1>1

(* A client without a request.                                             *)
LEMMA NoCallTyped ==
    /\ NoCall \in Calls /\ NoCall.pc = "idle" /\ NoCall.half = FALSE /\ NoCall.pending = {}
    /\ NoCall.snaps = << >> /\ NoCall.found = {} /\ NoCall.req = None
    /\ NoCall.at = 0 /\ NoCall.stamp = 0 /\ NoCall.written = {}
    /\ CallSound(NoCall) /\ Seen(NoCall) = Atomic!Idle
<1>1. PICK e : e = << >>
  OBVIOUS
<1>2. NoCall = [pc |-> "idle", req |-> None, at |-> 0, pending |-> {}, half |-> FALSE,
                stamp |-> 0, written |-> {}, snaps |-> e, found |-> {}, unknown |-> {}]
  BY <1>1, Zenon DEF NoCall
<1>3. e \in UNION {[D -> Snaps] : D \in SUBSET Every}
  BY <1>1, NoSnaps
<1>4. NoCall \in Calls
  BY <1>2, <1>3 DEF Calls
<1>5. /\ NoCall.pc = "idle" /\ NoCall.half = FALSE /\ NoCall.pending = {} /\ NoCall.at = 0
      /\ NoCall.stamp = 0 /\ NoCall.written = {}
      /\ NoCall.snaps = << >> /\ NoCall.found = {} /\ NoCall.req = None
  BY <1>1, <1>2
<1>6. CallSound(NoCall)
  BY <1>4, <1>5 DEF CallSound
<1>7. Seen(NoCall) = Atomic!Idle
  BY <1>5 DEF Seen, Left, Atomic!Idle
<1> QED
  BY <1>4, <1>5, <1>6, <1>7

(* A settled chunk leaves a sound call.                                    *)
LEMMA DoneSound ==
    ASSUME NEW k \in Calls, k.req \in Requests, NEW w \in SUBSET Every
    PROVE  /\ CallSound(ChunkDone(k, w))
           /\ Seen(ChunkDone(k, w)) = [phase |-> "chunk", req |-> k.req, at |-> k.at, left |-> {},
                                       half |-> FALSE, stamp |-> k.stamp, written |-> w]
<1>1. PICK d : d = ChunkDone(k, w)
  OBVIOUS
<1>2. /\ d \in Calls /\ d.pc = "chunk" /\ d.req = k.req /\ d.at = k.at /\ d.pending = {} /\ ~d.half
      /\ d.half = FALSE /\ d.stamp = k.stamp /\ d.written = w /\ d.snaps = << >> /\ d.found = {}
  BY <1>1, NoCallTyped DEF ChunkDone, Calls
<1>3. CallSound(d)
  BY <1>2, NoSnaps DEF CallSound
<1>4. Seen(d) = [phase |-> "chunk", req |-> k.req, at |-> k.at, left |-> {},
                 half |-> FALSE, stamp |-> k.stamp, written |-> w]
  BY <1>2 DEF Seen, Left
<1> QED
  BY <1>1, <1>3, <1>4

(* Once the answers are in, the rest of the chunk goes to the script, and  *)
(* the abstract client has passed over what was found stored.              *)
LEMMA Resolving ==
    ASSUME NEW e, Asking(e)
    PROVE  CallSound(NextStep(e)) /\ Seen(NextStep(e)) = SeenWith(e, Waiting(e))
<1> DEFINE W == Waiting(e)
           n == NextStep(e)
<1>1. W \subseteq e.pending
  BY DEF Waiting
<1>2. CASE e.unknown # {}
  <2>1. n = e
    BY <1>2 DEF NextStep
  <2>2. W # {}
    BY <1>2 DEF Asking, SkipIds, Waiting
  <2>3. CallSound(e)
    BY <1>2 DEF Asking, CallSound
  <2>4. Seen(e) = SeenWith(e, W)
    BY <2>2 DEF Seen, SeenWith, Left, Asking, Calls
  <2> QED
    BY <2>1, <2>3, <2>4
<1>3. CASE e.unknown = {} /\ W = {}
  <2>1. n = ChunkDone(e, e.written)
    BY <1>3 DEF NextStep, Resolved, Asking
  <2>2. e \in Calls /\ e.req \in Requests /\ e.written \in SUBSET Every
    BY DEF Asking, Calls
  <2>3. CallSound(n) /\ Seen(n) = [phase |-> "chunk", req |-> e.req, at |-> e.at, left |-> {},
                                   half |-> FALSE, stamp |-> e.stamp, written |-> e.written]
    BY <2>1, <2>2, DoneSound
  <2> QED
    BY <1>3, <2>3 DEF SeenWith
<1>4. CASE e.unknown = {} /\ W # {}
  <2>1. n = [e EXCEPT !.pc = "script", !.pending = W, !.found = {}, !.unknown = {}]
    BY <1>4 DEF NextStep, Resolved, Asking
  <2>2. /\ e \in Calls /\ e.req \in Requests /\ ~e.half /\ W \subseteq 1 .. Len(e.req.items)
        /\ \A i \in W : e.req.items[i].mode = "replace" => e.req.items[i].id \in DOMAIN e.snaps
        /\ W \in SUBSET Nat
    BY <1>1 DEF Asking, Calls
  <2> HIDE DEF W, n
  <2>3. /\ n \in Calls /\ n.pc = "script" /\ n.pending = W /\ n.req = e.req /\ n.half = e.half
        /\ n.snaps = e.snaps /\ n.at = e.at /\ n.stamp = e.stamp /\ n.written = e.written
    BY <2>1, <2>2 DEF Calls
  <2>4. CallSound(n)
    BY <1>4, <2>2, <2>3 DEF CallSound
  <2>5. Seen(n) = SeenWith(e, W)
    BY <1>4, <2>2, <2>3 DEF Seen, SeenWith, Left, Calls
  <2> QED
    BY <2>4, <2>5 DEF n, W
<1> QED
  BY <1>2, <1>3, <1>4

(* The next chunk.                                                         *)
Begun(k) ==
    LET chunk   == Atomic!Chunk(k.req, k.at)
        pending == Atomic!Undecided(k.req, chunk, k.written)
        begun   == [k EXCEPT !.at = Atomic!ChunkEnd(k.req, k.at), !.pending = pending]
    IN  IF chunk = {} THEN NoCall
        ELSE IF Atomic!Ordinary(k.req, chunk) THEN [begun EXCEPT !.pc = "pipe"]
        ELSE IF pending = {} THEN begun
        ELSE IF ReplacementIds(begun) # {} THEN [begun EXCEPT !.pc = "snapshot"]
        ELSE NextStep(ThenExists(begun))

(* Only an id that is replaced is read before the script.                  *)
LEMMA Replacements ==
    ASSUME NEW k, k.req \in Requests, k.pending \subseteq 1 .. Len(k.req.items)
    PROVE  /\ ReplacementIds(k) = {k.req.items[i].id : i \in {i \in k.pending : k.req.items[i].mode = "replace"}}
           /\ ReplacementIds(k) \subseteq Ids
<1> DEFINE R == {i \in k.pending : k.req.items[i].mode = "replace"}
<1>0. \A i \in k.pending : /\ k.req.items[i].id \in Every
                           /\ k.req.items[i].mode \in {"default", "skip", "replace"}
                           /\ k.req.items[i].id \in Fresh <=> k.req.items[i].mode = "default"
  BY RequestTyped
<1>1. ReplacementIds(k) \subseteq {k.req.items[i].id : i \in R}
  BY DEF ReplacementIds
<1>2. ASSUME NEW i \in R PROVE k.req.items[i].id \in ReplacementIds(k)
  <2> DEFINE S == {j \in R : k.req.items[j].id = k.req.items[i].id}
  <2>0. Len(k.req.items) \in Nat
    BY RequestTyped
  <2>1. S \in SUBSET Nat /\ S # {}
    BY <2>0
  <2>2. PICK m \in S : \A j \in S : m <= j
    BY <2>1, HasSmallest
  <2>3. ASSUME NEW j \in k.pending, j < m, k.req.items[j].id = k.req.items[m].id
        PROVE  k.req.items[j].mode = "skip"
    <3>1. j \notin S
      BY <2>0, <2>1, <2>2, <2>3
    <3>2. k.req.items[j].mode # "replace"
      BY <2>3, <3>1
    <3>3. k.req.items[j].mode # "default"
      BY <1>0, <2>3
    <3> QED
      BY <1>0, <3>2, <3>3
  <2> QED
    BY <2>3 DEF ReplacementIds
<1>3. {k.req.items[i].id : i \in R} \subseteq Ids
  BY <1>0 DEF Every
<1> QED
  BY <1>1, <1>2, <1>3

(* A chunk and what is undecided of it are positions of the request.       *)
LEMMA ChunkTyped ==
    ASSUME NEW r \in Requests, NEW at \in Nat
    PROVE  /\ Atomic!ChunkEnd(r, at) \in Nat
           /\ Atomic!Chunk(r, at) \subseteq 1 .. Len(r.items) /\ Atomic!Chunk(r, at) \subseteq Nat
  BY RequestTyped, Names DEF Atomic!ChunkEnd, Atomic!Chunk

(* A chunk that was begun, before its first command.                       *)
LEMMA BegunSound ==
    ASSUME NEW k, CallSound(k), k.pc = "chunk", NEW chunk, chunk = Atomic!Chunk(k.req, k.at),
           NEW left, left = Atomic!Undecided(k.req, chunk, k.written)
    PROVE  /\ CallSound(Begun(k))
           /\ chunk = {} => Seen(Begun(k)) = Atomic!Idle
           /\ chunk # {} => Seen(Begun(k)) =
                 [phase |-> IF left = {} THEN "chunk"
                            ELSE IF Atomic!Ordinary(k.req, chunk) THEN "pipe" ELSE "unique",
                  req |-> k.req, at |-> Atomic!ChunkEnd(k.req, k.at), left |-> left, half |-> FALSE,
                  stamp |-> k.stamp, written |-> k.written]
<1>1. /\ k \in Calls /\ k.req \in Requests /\ k.half = FALSE /\ DOMAIN k.snaps = {} /\ k.found = {}
      /\ k.at \in Nat
  BY DEF CallSound, Calls
<1>2. /\ chunk \subseteq 1 .. Len(k.req.items) /\ chunk \subseteq Nat
      /\ Atomic!ChunkEnd(k.req, k.at) \in Nat /\ left \subseteq chunk
  BY <1>1, ChunkTyped DEF Atomic!Undecided
<1>3. PICK b : b = [k EXCEPT !.at = Atomic!ChunkEnd(k.req, k.at), !.pending = left]
  OBVIOUS
<1>4. /\ b \in Calls /\ b.pc = "chunk" /\ b.req = k.req /\ b.at = Atomic!ChunkEnd(k.req, k.at)
      /\ b.pending = left /\ b.half = FALSE /\ b.stamp = k.stamp /\ b.written = k.written
      /\ b.snaps = k.snaps /\ b.found = {}
  BY <1>1, <1>2, <1>3 DEF Calls
<1>5. Begun(k) = IF chunk = {} THEN NoCall
                 ELSE IF Atomic!Ordinary(k.req, chunk) THEN [b EXCEPT !.pc = "pipe"]
                 ELSE IF left = {} THEN b
                 ELSE IF ReplacementIds(b) # {} THEN [b EXCEPT !.pc = "snapshot"]
                 ELSE NextStep(ThenExists(b))
  BY <1>3 DEF Begun
<1>6. CASE chunk = {}
  BY <1>5, <1>6, NoCallTyped
<1>7. CASE chunk # {} /\ Atomic!Ordinary(k.req, chunk)
  <2>1. \A i \in chunk : k.req.items[i].mode = "default"
    BY <1>7 DEF Atomic!Ordinary
  <2>2. left = chunk
    BY <2>1 DEF Atomic!Undecided
  <2>3. PICK p : p = [b EXCEPT !.pc = "pipe"]
    OBVIOUS
  <2>4. /\ p \in Calls /\ p.pc = "pipe" /\ p.req = k.req /\ p.at = b.at /\ p.pending = left
        /\ p.half = FALSE /\ p.stamp = k.stamp /\ p.written = k.written
    BY <1>4, <2>3 DEF Calls
  <2>5. CallSound(p)
    BY <1>1, <1>2, <1>7, <2>1, <2>2, <2>4 DEF CallSound
  <2>6. Seen(p) = [phase |-> "pipe", req |-> k.req, at |-> b.at, left |-> left, half |-> FALSE,
                   stamp |-> k.stamp, written |-> k.written]
    BY <2>4 DEF Seen, Left
  <2> QED
    BY <1>4, <1>5, <1>7, <2>2, <2>3, <2>5, <2>6
<1>8. CASE chunk # {} /\ ~Atomic!Ordinary(k.req, chunk) /\ left = {}
  <2>1. CallSound(b)
    BY <1>1, <1>4, <1>8 DEF CallSound
  <2>2. Seen(b) = [phase |-> "chunk", req |-> k.req, at |-> b.at, left |-> {}, half |-> FALSE,
                   stamp |-> k.stamp, written |-> k.written]
    BY <1>4, <1>8 DEF Seen, Left
  <2> QED
    BY <1>4, <1>5, <1>8, <2>1, <2>2
<1>9. CASE chunk # {} /\ ~Atomic!Ordinary(k.req, chunk) /\ left # {} /\ ReplacementIds(b) # {}
  <2>3. PICK p : p = [b EXCEPT !.pc = "snapshot"]
    OBVIOUS
  <2>4. /\ p \in Calls /\ p.pc = "snapshot" /\ p.req = k.req /\ p.at = b.at /\ p.pending = left
        /\ p.half = FALSE /\ p.stamp = k.stamp /\ p.written = k.written /\ p.snaps = k.snaps
        /\ p.found = {}
    BY <1>4, <2>3 DEF Calls
  <2>5. CallSound(p)
    BY <1>1, <1>2, <1>9, <2>4 DEF CallSound
  <2>6. Seen(p) = [phase |-> "unique", req |-> k.req, at |-> b.at, left |-> left, half |-> FALSE,
                   stamp |-> k.stamp, written |-> k.written]
    BY <2>4 DEF Seen, Left
  <2> QED
    BY <1>4, <1>5, <1>9, <2>3, <2>5, <2>6
<1>10. CASE chunk # {} /\ ~Atomic!Ordinary(k.req, chunk) /\ left # {} /\ ReplacementIds(b) = {}
  <2>1. PICK e : e = ThenExists(b)
    OBVIOUS
  <2>2. SkipIds(b) \subseteq Every
    BY <1>1, <1>2, <1>4, RequestTyped DEF SkipIds
  <2>3. /\ e \in Calls /\ e.pc = "exists" /\ e.req = k.req /\ e.at = b.at /\ e.pending = left
        /\ e.half = FALSE /\ e.stamp = k.stamp /\ e.written = k.written /\ e.snaps = k.snaps
        /\ e.found = {} /\ e.unknown = SkipIds(b) \ DOMAIN b.snaps
    BY <1>4, <2>1, <2>2 DEF ThenExists, Calls
  <2>4. Known(e) = {} /\ SkipIds(e) = SkipIds(b)
    BY <1>1, <1>4, <2>3 DEF Known, SkipIds
  <2>5. \A i \in left : k.req.items[i].mode # "replace"
    <3>1. b.req \in Requests /\ b.pending \subseteq 1 .. Len(b.req.items)
      BY <1>1, <1>2, <1>4
    <3>2. {b.req.items[i].id : i \in {i \in b.pending : b.req.items[i].mode = "replace"}} = {}
      BY <1>10, <3>1, Replacements
    <3> QED
      BY <1>4, <3>2
  <2>6. Asking(e)
    BY <1>1, <1>2, <1>10, <2>3, <2>4, <2>5 DEF Asking
  <2>7. Waiting(e) = left
    BY <2>3, <2>4 DEF Waiting
  <2>8. CallSound(NextStep(e)) /\ Seen(NextStep(e)) = SeenWith(e, left)
    BY <2>6, <2>7, Resolving
  <2> QED
    BY <1>4, <1>5, <1>10, <2>1, <2>3, <2>8 DEF SeenWith
<1> QED
  BY <1>6, <1>7, <1>8, <1>9, <1>10

(* Skip jobs found stored are decided, the others are not.                 *)
Skips(k, new) ==
    /\ Seen(k) = SeenWith(k, Left(k)) /\ Left(k) # {}
    /\ \E S \in SUBSET Left(k) :
          /\ \A i \in S : k.req.items[i].mode = "skip" /\ jobs[k.req.items[i].id] # None
          /\ Seen(new) = SeenWith(k, Left(k) \ S)

(* A snapshot of a stored value is a snapshot.                             *)
LEMMA ParsedTyped ==
    ASSUME NEW cmp \in Comparisons, NEW p \in Value
    PROVE  Parsed(cmp, p) \in Snaps /\ (Parsed(cmp, p) # None <=> p # None)
<1>1. CASE p = None
  BY <1>1 DEF Parsed, Snaps
<1>2. CASE p # None
  <2>1. p \in Atomic!Payload
    BY <1>2 DEF Value
  <2>2. Parsed(cmp, p) = [cmp |-> cmp, payload |-> p]
    BY <1>2 DEF Parsed
  <2>3. [cmp |-> cmp, payload |-> p] # None
    BY <2>1, Names DEF Images
  <2> QED
    BY <1>2, <2>1, <2>2, <2>3 DEF Snaps, Images
<1> QED
  BY <1>1, <1>2

(* After HMGET every job that is going to be replaced has a snapshot.      *)
LEMMA SnapshotSound ==
    ASSUME StoreTyped, NEW k, CallSound(k), k.pc = "snapshot", NEW cmp \in Comparisons, NEW new,
           new = NextStep(ThenExists([k EXCEPT !.snaps =
                    [id \in ReplacementIds(k) |-> Parsed(cmp, jobs[id])]]))
    PROVE  CallSound(new) /\ Skips(k, new)
<1>1. /\ k \in Calls /\ k.req \in Requests /\ k.half = FALSE /\ k.pending \subseteq 1 .. Len(k.req.items)
      /\ k.pending # {} /\ k.pending \in SUBSET Nat
  BY DEF CallSound, Calls
<1>2. /\ ReplacementIds(k) \subseteq Every
      /\ \A i \in k.pending : k.req.items[i].mode = "replace" => k.req.items[i].id \in ReplacementIds(k)
  BY <1>1, Replacements DEF Every
<1>3. PICK s : s = [id \in ReplacementIds(k) |-> Parsed(cmp, jobs[id])]
  OBVIOUS
<1>4. s \in [ReplacementIds(k) -> Snaps] /\ \A id \in ReplacementIds(k) : s[id] # None <=> jobs[id] # None
  <2>1. \A id \in ReplacementIds(k) : jobs[id] \in Value
    BY <1>2 DEF StoreTyped
  <2> QED
    BY <1>3, <2>1, ParsedTyped
<1>5. s \in UNION {[D -> Snaps] : D \in SUBSET Every}
  BY <1>2, <1>4
<1>6. PICK b : b = [k EXCEPT !.snaps = s]
  OBVIOUS
<1>7. /\ b \in Calls /\ b.req = k.req /\ b.at = k.at /\ b.pending = k.pending /\ b.half = FALSE
      /\ b.stamp = k.stamp /\ b.written = k.written /\ b.snaps = s
  BY <1>1, <1>5, <1>6 DEF Calls
<1>8. PICK e : e = ThenExists(b)
  OBVIOUS
<1>9. SkipIds(b) \subseteq Every
  BY <1>1, <1>7, RequestTyped DEF SkipIds
<1>10. /\ e \in Calls /\ e.pc = "exists" /\ e.req = k.req /\ e.at = k.at /\ e.pending = k.pending
       /\ e.half = FALSE /\ e.stamp = k.stamp /\ e.written = k.written /\ e.snaps = s
       /\ e.found = {} /\ e.unknown = SkipIds(b) \ ReplacementIds(k)
  BY <1>4, <1>7, <1>8, <1>9 DEF ThenExists, Calls
<1>11. Known(e) = {id \in ReplacementIds(k) : jobs[id] # None} /\ SkipIds(e) = SkipIds(b)
  BY <1>4, <1>7, <1>10 DEF Known, SkipIds
<1>12. Asking(e)
  BY <1>1, <1>2, <1>4, <1>10, <1>11 DEF Asking
<1>13. CallSound(new) /\ Seen(new) = SeenWith(e, Waiting(e))
  BY <1>3, <1>6, <1>8, <1>12, Resolving
<1> DEFINE S == {i \in k.pending : k.req.items[i].mode = "skip" /\ k.req.items[i].id \in Known(e)}
<1>14. Left(k) = k.pending /\ Waiting(e) = Left(k) \ S /\ S \in SUBSET Left(k)
  BY <1>10 DEF Left, Waiting
<1>15. Seen(k) = SeenWith(k, Left(k))
  BY <1>1, <1>14 DEF Seen, SeenWith
<1>16. SeenWith(e, Waiting(e)) = SeenWith(k, Left(k) \ S)
  BY <1>10, <1>14 DEF SeenWith
<1>17. \A i \in S : k.req.items[i].mode = "skip" /\ jobs[k.req.items[i].id] # None
  BY <1>11
<1> QED
  BY <1>1, <1>13, <1>14, <1>15, <1>16, <1>17 DEF Skips

(* One HEXISTS answer more.                                                *)
LEMMA ExistsSound ==
    ASSUME StoreTyped, NEW k, CallSound(k), k.pc = "exists", NEW id \in k.unknown, NEW new,
           new = NextStep([k EXCEPT !.unknown = k.unknown \ {id},
                      !.found = IF jobs[id] = None THEN k.found ELSE k.found \cup {id}])
    PROVE  CallSound(new) /\ Skips(k, new)
<1>1. /\ k \in Calls /\ k.req \in Requests /\ k.half = FALSE /\ k.pending \subseteq 1 .. Len(k.req.items)
      /\ k.pending # {} /\ k.unknown \subseteq SkipIds(k) /\ k.unknown \cap Known(k) = {}
      /\ k.unknown \subseteq Every /\ k.found \subseteq Every
      /\ \A i \in k.pending : k.req.items[i].mode = "replace" => k.req.items[i].id \in DOMAIN k.snaps
  BY DEF CallSound, Calls
<1>2. PICK found : found = IF jobs[id] = None THEN k.found ELSE k.found \cup {id}
  OBVIOUS
<1>3. PICK e : e = [k EXCEPT !.unknown = k.unknown \ {id},
                             !.found = IF jobs[id] = None THEN k.found ELSE k.found \cup {id}]
  OBVIOUS
<1>4. found \subseteq Every
  BY <1>1, <1>2
<1>5. /\ e \in Calls /\ e.pc = "exists" /\ e.req = k.req /\ e.at = k.at /\ e.pending = k.pending
      /\ e.half = FALSE /\ e.stamp = k.stamp /\ e.written = k.written /\ e.snaps = k.snaps
      /\ e.found = found /\ e.unknown = k.unknown \ {id}
  BY <1>1, <1>2, <1>3, <1>4 DEF Calls
<1>6. /\ SkipIds(e) = SkipIds(k)
      /\ Known(e) = IF jobs[id] = None THEN Known(k) ELSE Known(k) \cup {id}
  BY <1>2, <1>5 DEF SkipIds, Known
<1>7. Asking(e)
  BY <1>1, <1>5, <1>6 DEF Asking
<1>8. CallSound(new) /\ Seen(new) = SeenWith(e, Waiting(e))
  BY <1>3, <1>7, Resolving
<1> DEFINE S == {i \in Waiting(k) : k.req.items[i].mode = "skip" /\ k.req.items[i].id = id
                                    /\ jobs[id] # None}
<1>9. Left(k) = Waiting(k) /\ Waiting(e) = Left(k) \ S /\ S \in SUBSET Left(k)
  BY <1>5, <1>6 DEF Left, Waiting
<1>10. Left(k) # {}
  BY <1>1, <1>9 DEF SkipIds, Waiting
<1>11. Seen(k) = SeenWith(k, Left(k))
  BY <1>1, <1>10 DEF Seen, SeenWith
<1>12. SeenWith(e, Waiting(e)) = SeenWith(k, Left(k) \ S)
  BY <1>5, <1>9 DEF SeenWith
<1>13. \A i \in S : k.req.items[i].mode = "skip" /\ jobs[k.req.items[i].id] # None
  OBVIOUS
<1> QED
  BY <1>8, <1>9, <1>10, <1>11, <1>12, <1>13 DEF Skips

(* A refused script renews the stale snapshots and keeps the others.       *)
LEMMA RefuseSound ==
    ASSUME StoreTyped, NEW k, CallSound(k), k.pc = "script", NEW cmp \in Comparisons, NEW new,
           new = [k EXCEPT !.snaps = [id \in DOMAIN @ |->
                    IF id \in Stale(k) THEN Parsed(cmp, jobs[id]) ELSE @[id]]]
    PROVE  CallSound(new) /\ Seen(new) = Seen(k)
<1>1. /\ k \in Calls /\ k.snaps \in [DOMAIN k.snaps -> Snaps] /\ DOMAIN k.snaps \subseteq Every
      /\ k.half = FALSE
  BY DEF CallSound, Calls
<1>2. PICK s : s = [id \in DOMAIN k.snaps |-> IF id \in Stale(k) THEN Parsed(cmp, jobs[id]) ELSE k.snaps[id]]
  OBVIOUS
<1>3. s \in [DOMAIN k.snaps -> Snaps]
  <2>1. ASSUME NEW id \in DOMAIN k.snaps PROVE s[id] \in Snaps
    BY <1>1, <1>2, ParsedTyped DEF StoreTyped
  <2> QED
    BY <1>2, <2>1
<1>4. s \in UNION {[D -> Snaps] : D \in SUBSET Every} /\ DOMAIN s = DOMAIN k.snaps
  BY <1>1, <1>3
<1>5. new = [k EXCEPT !.snaps = s]
  BY <1>1, <1>2
<1>6. /\ new \in Calls /\ new.pc = "script" /\ new.req = k.req /\ new.at = k.at /\ new.pending = k.pending
      /\ new.half = FALSE /\ new.stamp = k.stamp /\ new.written = k.written /\ DOMAIN new.snaps = DOMAIN k.snaps
  BY <1>1, <1>4, <1>5 DEF Calls
<1>7. CallSound(new)
  BY <1>6 DEF CallSound
<1>8. Seen(new) = Seen(k)
  BY <1>1, <1>6 DEF Seen, Left
<1> QED
  BY <1>7, <1>8

(* The smallest position.                                                  *)
LEMMA MinIn ==
    ASSUME NEW S \in SUBSET Nat, S # {}
    PROVE  Min(S) \in S /\ \A x \in S : Min(S) <= x
<1>1. \E m \in S : \A x \in S : m <= x
  BY HasSmallest
<1> QED
  BY <1>1, Zenon DEF Min

(* The second command of an ordinary job.                                  *)
LEMMA PushSound ==
    ASSUME NEW k, CallSound(k), k.pc = "pipe", NEW new,
           new = IF k.pending = {Min(k.pending)} THEN ChunkDone(k, k.written)
                 ELSE [k EXCEPT !.half = FALSE, !.pending = k.pending \ {Min(k.pending)}]
    PROVE  /\ CallSound(new)
           /\ Seen(new) = [phase |-> IF k.pending = {Min(k.pending)} THEN "chunk" ELSE "pipe",
                           req |-> k.req, at |-> k.at, left |-> k.pending \ {Min(k.pending)},
                           half |-> FALSE, stamp |-> k.stamp, written |-> k.written]
<1>1. /\ k \in Calls /\ k.req \in Requests /\ k.pending \subseteq 1 .. Len(k.req.items)
      /\ k.pending # {} /\ k.pending \in SUBSET Nat /\ k.written \in SUBSET Every
      /\ \A i \in k.pending : k.req.items[i].mode = "default"
  BY DEF CallSound, Calls
<1>2. Min(k.pending) \in k.pending
  BY <1>1, MinIn
<1>3. CASE k.pending = {Min(k.pending)}
  <2>1. k.pending \ {Min(k.pending)} = {}
    BY <1>3
  <2> QED
    BY <1>1, <1>3, <2>1, DoneSound
<1>4. CASE k.pending # {Min(k.pending)}
  <2>1. /\ new \in Calls /\ new.pc = "pipe" /\ new.req = k.req /\ new.at = k.at /\ new.half = FALSE
        /\ new.pending = k.pending \ {Min(k.pending)} /\ new.stamp = k.stamp /\ new.written = k.written
    BY <1>1, <1>4 DEF Calls
  <2>2. k.pending \ {Min(k.pending)} # {}
    BY <1>2, <1>4
  <2>3. CallSound(new)
    BY <1>1, <2>1, <2>2 DEF CallSound
  <2> QED
    BY <1>4, <2>1, <2>3 DEF Seen, Left
<1> QED
  BY <1>3, <1>4

(* The first command of an ordinary job.                                   *)
LEMMA SetSound ==
    ASSUME NEW k, CallSound(k), k.pc = "pipe", NEW new, new = [k EXCEPT !.half = TRUE]
    PROVE  /\ CallSound(new)
           /\ Seen(new) = [phase |-> "pipe", req |-> k.req, at |-> k.at, left |-> k.pending,
                           half |-> TRUE, stamp |-> k.stamp, written |-> k.written]
<1>1. /\ new \in Calls /\ new.pc = "pipe" /\ new.req = k.req /\ new.at = k.at /\ new.half = TRUE
      /\ new.pending = k.pending /\ new.stamp = k.stamp /\ new.written = k.written
  BY DEF CallSound, Calls
<1> QED
  BY <1>1 DEF CallSound, Seen, Left

-----------------------------------------------------------------------------
(* The invariant, and the steps of the clients as abstract steps.          *)

Works ==
    [phase : {"idle", "load", "missing", "drop", "run", "retry"}, id : Every \cup {None}, env : Value]

WorkSound ==
    /\ work \in [Workers -> Works]
    /\ \A w \in Workers : /\ work[w].phase = "idle" <=> work[w].id = None
                          /\ work[w].phase = "retry" => work[w].env # None

CallsSound == call \in [Clients -> Calls] /\ \A c \in Clients : CallSound(call[c])

EnqueueInv == StoreTyped /\ WorkSound /\ CallsSound

Asked == [c \in Clients |-> Seen(call[c])]

(* A step of the abstract specification, or none.                          *)
Abstractly == Atomic!Next \/ UNCHANGED Atomic!vars

(* A step of one client changes what is seen of that client only.          *)
LEMMA AskedStep ==
    ASSUME CallsSound, NEW c \in Clients, NEW new, CallSound(new), call' = [call EXCEPT ![c] = new]
    PROVE  CallsSound' /\ Asked' = [Asked EXCEPT ![c] = Seen(new)] /\ Asked[c] = Seen(call[c])
<1>1. new \in Calls
  BY DEF CallSound
<1>2. call' \in [Clients -> Calls] /\ call'[c] = new /\ \A d \in Clients \ {c} : call'[d] = call[d]
  BY <1>1 DEF CallsSound
<1>3. CallsSound'
  BY <1>2 DEF CallsSound
<1>4. Asked' = [d \in Clients |-> Seen(call'[d])]
  BY DEF Asked
<1>5. PICK a : a = [Asked EXCEPT ![c] = Seen(new)]
  OBVIOUS
<1>6. a = [d \in Clients |-> Seen(call'[d])]
  BY <1>2, <1>5 DEF Asked
<1> QED
  BY <1>3, <1>4, <1>5, <1>6 DEF Asked

(* The parts of a client as it is seen.                                    *)
LEMMA SeenFields ==
    ASSUME NEW k
    PROVE  /\ Seen(k).phase = IF k.pc \in {"snapshot", "exists", "script"} THEN "unique" ELSE k.pc
           /\ Seen(k).req = k.req /\ Seen(k).at = k.at /\ Seen(k).left = Left(k) /\ Seen(k).half = k.half
           /\ Seen(k).stamp = k.stamp /\ Seen(k).written = k.written
  BY DEF Seen

(* A new request is a new request of the abstract specification.           *)
LEMMA CallStep ==
    ASSUME EnqueueInv, NEW c \in Clients, NEW req \in Requests, Call(c, req)
    PROVE  EnqueueInv' /\ Atomic!Ask(c, req)
<1>1. PICK new : new = [NoCall EXCEPT !.pc = "chunk", !.req = req, !.stamp = made + 1]
  OBVIOUS
<1>2. /\ new \in Calls /\ new.pc = "chunk" /\ new.req = req /\ new.at = 0 /\ new.pending = {}
      /\ new.half = FALSE /\ new.stamp = made + 1 /\ new.written = {} /\ new.snaps = << >>
      /\ new.found = {}
  <2>1. made + 1 \in Nat
    BY DEF EnqueueInv, StoreTyped
  <2>2. PICK n, m : n = NoCall /\ m = made + 1
    OBVIOUS
  <2>3. /\ n \in Calls /\ n.half = FALSE /\ n.pending = {} /\ n.snaps = << >> /\ n.found = {}
        /\ n.at = 0 /\ n.written = {}
    BY <2>2, NoCallTyped
  <2> QED
    BY <1>1, <2>1, <2>2, <2>3 DEF Calls
<1>3. CallSound(new)
  BY <1>2, NoSnaps DEF CallSound
<1>4. call' = [call EXCEPT ![c] = new] /\ made' = made + 1 /\ UNCHANGED <<jobs, list, zset, work>>
      /\ Atomic!MayAsk(c, req)
  BY <1>1 DEF Call
<1>5. CallsSound' /\ Asked' = [Asked EXCEPT ![c] = Seen(new)]
  BY <1>3, <1>4, AskedStep DEF EnqueueInv
<1>6. EnqueueInv'
  BY <1>4, <1>5 DEF EnqueueInv, StoreTyped, WorkSound
<1>7. PICK a : a = [Atomic!Idle EXCEPT !.phase = "chunk", !.req = req, !.stamp = made + 1]
  OBVIOUS
<1>8. a = [phase |-> "chunk", req |-> req, at |-> 0, left |-> {}, half |-> FALSE,
           stamp |-> made + 1, written |-> {}]
  BY <1>7 DEF Atomic!Idle
<1>9. Seen(new) = a
  BY <1>2, <1>8 DEF Seen, Left
<1> QED
  BY <1>4, <1>5, <1>6, <1>7, <1>9 DEF Atomic!Ask, Atomic!storeVars, Asked

(* A step that the abstract specification does not see.                    *)
LEMMA QuietStep ==
    ASSUME EnqueueInv, NEW c \in Clients, NEW new, CallSound(new), call' = [call EXCEPT ![c] = new],
           UNCHANGED <<jobs, list, zset, work, made>>
    PROVE  /\ EnqueueInv' /\ Asked' = [Asked EXCEPT ![c] = Seen(new)] /\ Asked[c] = Seen(call[c])
           /\ CallSound(call[c])
<1>1. CallsSound' /\ Asked' = [Asked EXCEPT ![c] = Seen(new)] /\ Asked[c] = Seen(call[c])
  BY AskedStep DEF EnqueueInv
<1> QED
  BY <1>1 DEF EnqueueInv, StoreTyped, WorkSound, CallsSound

(* Beginning a chunk is taking it.                                         *)
LEMMA BeginStep ==
    ASSUME EnqueueInv, NEW c \in Clients, BeginChunk(c)
    PROVE  EnqueueInv' /\ Atomic!Take(c)
<1>1. PICK k : k = call[c]
  OBVIOUS
<1>2. CallSound(k) /\ k.pc = "chunk" /\ call' = [call EXCEPT ![c] = Begun(k)]
      /\ UNCHANGED <<jobs, list, zset, work, made>>
  BY <1>1 DEF EnqueueInv, CallsSound, BeginChunk, Begun
<1>3. PICK chunk, left : chunk = Atomic!Chunk(k.req, k.at) /\ left = Atomic!Undecided(k.req, chunk, k.written)
  OBVIOUS
<1>4. PICK new : new = Begun(k)
  OBVIOUS
<1>5. /\ CallSound(new)
      /\ chunk = {} => Seen(new) = Atomic!Idle
      /\ chunk # {} => Seen(new) =
           [phase |-> IF left = {} THEN "chunk"
                      ELSE IF Atomic!Ordinary(k.req, chunk) THEN "pipe" ELSE "unique",
            req |-> k.req, at |-> Atomic!ChunkEnd(k.req, k.at), left |-> left, half |-> FALSE,
            stamp |-> k.stamp, written |-> k.written]
  BY <1>2, <1>3, <1>4, BegunSound
<1>6. EnqueueInv' /\ Asked' = [Asked EXCEPT ![c] = Seen(new)] /\ Asked[c] = Seen(k)
  BY <1>1, <1>2, <1>4, <1>5, QuietStep
<1>7. PICK a : a = [Seen(k) EXCEPT !.at = Atomic!ChunkEnd(k.req, k.at), !.left = left,
                      !.phase = IF left = {} THEN "chunk"
                                ELSE IF Atomic!Ordinary(k.req, chunk) THEN "pipe" ELSE "unique"]
  OBVIOUS
<1>8. k.half = FALSE
  BY <1>2 DEF CallSound, Calls
<1>9. a = [phase |-> IF left = {} THEN "chunk"
                     ELSE IF Atomic!Ordinary(k.req, chunk) THEN "pipe" ELSE "unique",
           req |-> k.req, at |-> Atomic!ChunkEnd(k.req, k.at), left |-> left, half |-> FALSE,
           stamp |-> k.stamp, written |-> k.written]
  BY <1>7, <1>8 DEF Seen
<1>10. Seen(k).phase = "chunk" /\ Seen(k).req = k.req /\ Seen(k).at = k.at /\ Seen(k).written = k.written
  BY <1>2 DEF Seen
<1>11. Seen(new) = IF chunk = {} THEN Atomic!Idle ELSE a
  BY <1>5, <1>9
<1>12. Atomic!Take(c)
  <2> DEFINE s == Asked[c]
             part == Atomic!Chunk(s.req, s.at)
             rest == Atomic!Undecided(s.req, part, s.written)
  <2>1. /\ s = Seen(k) /\ s.phase = "chunk" /\ part = chunk /\ rest = left
        /\ Atomic!ChunkEnd(s.req, s.at) = Atomic!ChunkEnd(k.req, k.at)
        /\ Atomic!Ordinary(s.req, part) = Atomic!Ordinary(k.req, chunk)
    BY <1>3, <1>6, <1>10
  <2>2. Asked' = [Asked EXCEPT ![c] =
           IF part = {} THEN Atomic!Idle
           ELSE [s EXCEPT !.at = Atomic!ChunkEnd(s.req, s.at), !.left = rest,
                          !.phase = IF rest = {} THEN "chunk"
                                    ELSE IF Atomic!Ordinary(s.req, part) THEN "pipe" ELSE "unique"]]
    <3> HIDE DEF s, part, rest
    <3>1. a = [s EXCEPT !.at = Atomic!ChunkEnd(s.req, s.at), !.left = rest,
                        !.phase = IF rest = {} THEN "chunk"
                                  ELSE IF Atomic!Ordinary(s.req, part) THEN "pipe" ELSE "unique"]
      BY <1>7, <2>1, Zenon
    <3> QED
      BY <1>6, <1>11, <2>1, <3>1
  <2> QED
    BY <1>2, <2>1, <2>2 DEF Atomic!Take, Asked, Atomic!storeVars
<1> QED
  BY <1>6, <1>12

(* Skip jobs that were found stored, or none.                              *)
LEMMA SkipStep ==
    ASSUME EnqueueInv, NEW c \in Clients, NEW k, k = call[c], NEW new, CallSound(new), Skips(k, new),
           call' = [call EXCEPT ![c] = new], UNCHANGED <<jobs, list, zset, work, made>>
    PROVE  EnqueueInv' /\ Abstractly
<1>1. /\ EnqueueInv' /\ Asked' = [Asked EXCEPT ![c] = Seen(new)] /\ Asked[c] = Seen(k)
  BY QuietStep
<1>2. /\ Seen(k) = SeenWith(k, Left(k)) /\ Left(k) # {}
  BY DEF Skips
<1>3. PICK S \in SUBSET Left(k) :
         /\ \A i \in S : k.req.items[i].mode = "skip" /\ jobs[k.req.items[i].id] # None
         /\ Seen(new) = SeenWith(k, Left(k) \ S)
  BY DEF Skips
<1>4. CASE S = {}
  <2>1. Seen(new) = Seen(k)
    BY <1>2, <1>3, <1>4
  <2>2. Asked' = Asked
    BY <1>1, <2>1 DEF Asked
  <2> QED
    BY <1>1, <2>2 DEF Abstractly, Atomic!vars, Asked
<1>5. CASE S # {}
  <2>1. /\ Seen(k).phase = "unique" /\ Seen(k).left = Left(k) /\ Seen(k).req = k.req
    BY <1>2 DEF SeenWith
  <2>2. PICK a : a = [Seen(k) EXCEPT !.left = @ \ S, !.phase = IF Seen(k).left = S THEN "chunk" ELSE "unique"]
    OBVIOUS
  <2>3. PICK rest : rest = Left(k) \ S
    OBVIOUS
  <2>4. a = SeenWith(k, Left(k) \ S)
    <3>1. (rest = {}) <=> (Left(k) = S)
      BY <2>3
    <3>2. a = [SeenWith(k, Left(k)) EXCEPT !.left = rest, !.phase = IF rest = {} THEN "chunk" ELSE "unique"]
      BY <1>2, <2>1, <2>2, <2>3, <3>1
    <3>3. a = SeenWith(k, rest)
      BY <3>2 DEF SeenWith
    <3> QED
      BY <2>3, <3>3
  <2>5. [Asked EXCEPT ![c] = a] = [Asked EXCEPT ![c].left = @ \ S,
                                   ![c].phase = IF Asked[c].left = S THEN "chunk" ELSE "unique"]
    BY <1>1, <2>2 DEF Asked
  <2>6. Asked' = [Asked EXCEPT ![c].left = @ \ S,
                               ![c].phase = IF Asked[c].left = S THEN "chunk" ELSE "unique"]
    BY <1>1, <1>3, <2>4, <2>5
  <2>7. S \subseteq {i \in Asked[c].left : LET item == Asked[c].req.items[i]
                                           IN  item.mode = "skip" /\ jobs[item.id] # None}
    BY <1>1, <1>3, <2>1
  <2>8. Atomic!Skip(c, S)
    BY <1>1, <1>5, <2>1, <2>6, <2>7 DEF Atomic!Skip, Asked, Atomic!storeVars
  <2>9. S \in SUBSET Asked[c].left
    BY <1>1, <2>1
  <2>10. Atomic!Next
    BY <2>8, <2>9 DEF Atomic!Next, Asked
  <2> QED
    BY <1>1, <2>10 DEF Abstractly
<1> QED
  BY <1>4, <1>5

(* HMGET decides the Skip jobs it finds stored, or nothing.                *)
LEMMA SnapshotStep ==
    ASSUME EnqueueInv, NEW c \in Clients, Snapshot(c)
    PROVE  EnqueueInv' /\ Abstractly
<1>1. PICK k : k = call[c]
  OBVIOUS
<1>2. PICK cmp \in Comparisons :
        call' = [call EXCEPT ![c] = NextStep(ThenExists([@ EXCEPT !.snaps =
                   [id \in ReplacementIds(call[c]) |-> Parsed(cmp, jobs[id])]]))]
  BY DEF Snapshot
<1>3. PICK new : new = NextStep(ThenExists([k EXCEPT !.snaps =
                   [id \in ReplacementIds(k) |-> Parsed(cmp, jobs[id])]]))
  OBVIOUS
<1>4. call' = [call EXCEPT ![c] = new] /\ UNCHANGED <<jobs, list, zset, work, made>>
      /\ k.pc = "snapshot" /\ CallSound(k) /\ StoreTyped
  BY <1>1, <1>2, <1>3 DEF Snapshot, EnqueueInv, CallsSound
<1>5. CallSound(new) /\ Skips(k, new)
  BY <1>3, <1>4, SnapshotSound
<1> QED
  BY <1>1, <1>4, <1>5, SkipStep

(* HEXISTS decides the Skip jobs of the id it finds stored, or nothing.    *)
LEMMA ExistsStep ==
    ASSUME EnqueueInv, NEW c \in Clients, NEW id \in Ids, Exists(c, id)
    PROVE  EnqueueInv' /\ Abstractly
<1>1. PICK k : k = call[c]
  OBVIOUS
<1>2. PICK new : new = NextStep([k EXCEPT !.unknown = k.unknown \ {id},
                          !.found = IF jobs[id] = None THEN k.found ELSE k.found \cup {id}])
  OBVIOUS
<1>3. call' = [call EXCEPT ![c] = new] /\ UNCHANGED <<jobs, list, zset, work, made>>
      /\ k.pc = "exists" /\ id \in k.unknown /\ CallSound(k) /\ StoreTyped
  BY <1>1, <1>2 DEF Exists, EnqueueInv, CallsSound
<1>4. CallSound(new) /\ Skips(k, new)
  BY <1>2, <1>3, ExistsSound
<1> QED
  BY <1>1, <1>3, <1>4, SkipStep

(* A refused script is not seen.                                           *)
LEMMA RefuseStep ==
    ASSUME EnqueueInv, NEW c \in Clients, Refuse(c)
    PROVE  EnqueueInv' /\ Abstractly
<1>1. PICK k : k = call[c]
  OBVIOUS
<1>2. PICK cmp \in Comparisons :
          call' = [call EXCEPT ![c].snaps = [id \in DOMAIN @ |->
             IF id \in Stale(call[c]) THEN Parsed(cmp, jobs[id]) ELSE @[id]]]
  BY DEF Refuse
<1>3. PICK new : new = [k EXCEPT !.snaps = [id \in DOMAIN @ |->
                          IF id \in Stale(k) THEN Parsed(cmp, jobs[id]) ELSE @[id]]]
  OBVIOUS
<1>4. /\ UNCHANGED <<jobs, list, zset, work, made>>
      /\ k.pc = "script" /\ CallSound(k) /\ StoreTyped
  BY <1>1 DEF Refuse, EnqueueInv, CallsSound
<1>5. call' = [call EXCEPT ![c] = new]
  BY <1>1, <1>2, <1>3
<1>6. CallSound(new) /\ Seen(new) = Seen(k)
  BY <1>3, <1>4, RefuseSound
<1>7. EnqueueInv' /\ Asked' = [Asked EXCEPT ![c] = Seen(new)] /\ Asked[c] = Seen(k)
  BY <1>1, <1>4, <1>5, <1>6, QuietStep
<1>8. Asked' = Asked
  BY <1>6, <1>7 DEF Asked
<1> QED
  BY <1>4, <1>7, <1>8 DEF Abstractly, Atomic!vars, Asked

(* A command that fails ends the request.                                  *)
LEMMA FailStep ==
    ASSUME EnqueueInv, NEW c \in Clients, Fail(c)
    PROVE  EnqueueInv' /\ Atomic!Break(c)
<1>1. PICK k : k = call[c]
  OBVIOUS
<1>2. call' = [call EXCEPT ![c] = NoCall] /\ UNCHANGED <<jobs, list, zset, work, made>>
      /\ k.pc \in {"pipe", "snapshot", "exists", "script"}
  BY <1>1 DEF Fail
<1>3. EnqueueInv' /\ Asked' = [Asked EXCEPT ![c] = Atomic!Idle] /\ Asked[c] = Seen(k)
  BY <1>1, <1>2, NoCallTyped, QuietStep
<1>4. Seen(k).phase \in {"pipe", "unique"}
  BY <1>2 DEF Seen
<1> QED
  BY <1>2, <1>3, <1>4 DEF Atomic!Break, Asked, Atomic!storeVars

(* A script that writes is the instant at which the chunk takes effect.    *)
LEMMA WriteStep ==
    ASSUME EnqueueInv, NEW c \in Clients, NEW answered \in BOOLEAN, Write(c, answered)
    PROVE  EnqueueInv' /\ (Atomic!Commit(c) \/ Atomic!CommitUnanswered(c))
<1>1. PICK k, st : k = call[c] /\ st = Result(k)
  OBVIOUS
<1>2. /\ CallSound(k) /\ k.pc = "script" /\ Stale(k) = {} /\ StoreTyped
      /\ jobs' = st.jobs /\ list' = st.list /\ zset' = st.zset /\ UNCHANGED <<work, made>>
      /\ call' = [call EXCEPT ![c] = IF answered THEN ChunkDone(k, st.written) ELSE NoCall]
  BY <1>1 DEF Write, EnqueueInv, CallsSound, Atomic!Becomes
<1>3. /\ st = Atomic!ApplyAll(Atomic!Current(k.written), k.pending, k.req, k.stamp)
      /\ st \in Stores
  BY <1>1, <1>2, WritesChunk
<1>4. StoreTyped' /\ WorkSound'
  BY <1>2, <1>3 DEF StoreTyped, Stores, EnqueueInv, WorkSound
<1>5. /\ k \in Calls /\ k.req \in Requests /\ k.half = FALSE /\ st.written \in SUBSET Every
  BY <1>2, <1>3 DEF CallSound, Calls, Stores
<1>6. /\ Seen(k).phase = "unique" /\ Seen(k).written = k.written /\ Seen(k).left = k.pending
      /\ Seen(k).req = k.req /\ Seen(k).stamp = k.stamp /\ Seen(k).at = k.at /\ Seen(k).half = FALSE
  BY <1>2, <1>5 DEF Seen, Left
<1>7. CASE answered
  <2>1. PICK new : new = ChunkDone(k, st.written)
    OBVIOUS
  <2>2. CallSound(new) /\ Seen(new) = [phase |-> "chunk", req |-> k.req, at |-> k.at, left |-> {},
                                       half |-> FALSE, stamp |-> k.stamp, written |-> st.written]
    BY <1>5, <2>1, DoneSound
  <2>3. CallsSound' /\ Asked' = [Asked EXCEPT ![c] = Seen(new)] /\ Asked[c] = Seen(k)
    BY <1>1, <1>2, <1>7, <2>1, <2>2, AskedStep DEF EnqueueInv
  <2>4. PICK a : a = [Seen(k) EXCEPT !.left = {}, !.phase = "chunk", !.written = st.written]
    OBVIOUS
  <2>5. a = Seen(new)
    BY <1>2, <1>5, <2>2, <2>4 DEF Seen
  <2>6. Asked' = [Asked EXCEPT ![c].left = {}, ![c].phase = "chunk", ![c].written = st.written]
    BY <2>3, <2>4, <2>5 DEF Asked
  <2>7. Atomic!Commit(c)
    BY <1>2, <1>3, <1>6, <2>3, <2>6 DEF Atomic!Commit, Asked, Atomic!Becomes
  <2> QED
    BY <1>4, <2>3, <2>7 DEF EnqueueInv
<1>8. CASE ~answered
  <2>1. CallsSound' /\ Asked' = [Asked EXCEPT ![c] = Atomic!Idle] /\ Asked[c] = Seen(k)
    BY <1>1, <1>2, <1>8, NoCallTyped, AskedStep DEF EnqueueInv
  <2>2. Atomic!CommitUnanswered(c)
    BY <1>2, <1>3, <1>6, <2>1 DEF Atomic!CommitUnanswered, Asked, Atomic!Becomes
  <2> QED
    BY <1>4, <2>1, <2>2 DEF EnqueueInv
<1> QED
  BY <1>7, <1>8

(* HSET of an ordinary job.                                                *)
LEMMA StoredTyped ==
    ASSUME StoreTyped, NEW id \in Every, NEW p \in Atomic!Payload,
           Atomic!Becomes(Atomic!Stored(Atomic!Current({}), id, p)), UNCHANGED made
    PROVE  StoreTyped' /\ jobs' = [jobs EXCEPT ![id] = p] /\ UNCHANGED <<list, zset>>
<1>1. PICK st : st = Atomic!Current({})
  OBVIOUS
<1>2. st \in Stores /\ st.jobs = jobs /\ st.list = list /\ st.zset = zset
  BY <1>1, CurrentTyped
<1>3. PICK new : new = Atomic!Stored(st, id, p)
  OBVIOUS
<1>4. new.jobs = [jobs EXCEPT ![id] = p] /\ new.list = list /\ new.zset = zset
  BY <1>2, <1>3 DEF Stores, Atomic!Stored
<1>5. jobs' = new.jobs /\ list' = new.list /\ zset' = new.zset
  BY <1>1, <1>3 DEF Atomic!Becomes
<1> QED
  BY <1>4, <1>5 DEF StoreTyped, Value

(* LPUSH or ZADD of an ordinary job.                                       *)
LEMMA PushedTyped ==
    ASSUME StoreTyped, NEW id \in Every, NEW r \in Requests,
           Atomic!Becomes(Atomic!Pushed(Atomic!Current({}), id, r)), UNCHANGED made
    PROVE  /\ StoreTyped' /\ jobs' = jobs
           /\ \A q \in Queues : list'[q] = IF q = r.queue /\ r.delay = 0 THEN <<id>> \o list[q] ELSE list[q]
           /\ \A z \in {"schedule", "retry"} :
                 zset'[z] = IF z = "schedule" /\ r.delay # 0 THEN zset[z] \cup {id} ELSE zset[z]
<1>1. PICK st : st = Atomic!Current({})
  OBVIOUS
<1>2. st \in Stores /\ st.jobs = jobs /\ st.list = list /\ st.zset = zset
  BY <1>1, CurrentTyped
<1>3. PICK new : new = Atomic!Pushed(st, id, r)
  OBVIOUS
<1>4. /\ jobs' = new.jobs /\ list' = new.list /\ zset' = new.zset
      /\ r.queue \in Queues /\ r.delay \in Nat
  BY <1>1, <1>3, RequestTyped DEF Atomic!Becomes
<1>5. \A q \in Queues : list[q] \in Seq(Every) /\ <<id>> \o list[q] \in Seq(Every)
  BY DEF StoreTyped
<1>6. CASE r.delay = 0
  <2>1. new.jobs = jobs /\ new.zset = zset /\ new.list = [list EXCEPT ![r.queue] = <<id>> \o @]
    BY <1>2, <1>3, <1>6 DEF Stores, Atomic!Pushed, Atomic!Destination
  <2> QED
    BY <1>4, <1>5, <1>6, <2>1 DEF StoreTyped
<1>7. CASE r.delay # 0
  <2>1. new.jobs = jobs /\ new.list = list /\ new.zset = [zset EXCEPT !["schedule"] = @ \cup {id}]
    BY <1>2, <1>3, <1>7 DEF Stores, Atomic!Pushed, Atomic!Destination
  <2> QED
    BY <1>4, <1>5, <1>7, <2>1 DEF StoreTyped
<1> QED
  BY <1>6, <1>7

(* The first job of the pipeline is an ordinary one.                       *)
LEMMA FirstFresh ==
    ASSUME NEW k, CallSound(k), k.pc = "pipe"
    PROVE  /\ Atomic!First(k.req, k.pending) \in Fresh /\ Atomic!First(k.req, k.pending) \in Every
           /\ k.req \in Requests /\ k.stamp \in Nat
<1>1. /\ k.req \in Requests /\ k.pending \subseteq 1 .. Len(k.req.items) /\ k.stamp \in Nat
      /\ k.pending # {} /\ k.pending \in SUBSET Nat
      /\ \A i \in k.pending : k.req.items[i].mode = "default"
  BY DEF CallSound, Calls
<1>2. Min(k.pending) \in k.pending
  BY <1>1, MinIn
<1>3. Atomic!First(k.req, k.pending) = k.req.items[Min(k.pending)].id
  BY DEF Atomic!First, Atomic!Min, Min
<1> QED
  BY <1>1, <1>2, <1>3, RequestTyped

(* HSET of the pipeline, as the abstract specification has it.             *)
LEMMA PipeSetStep ==
    ASSUME EnqueueInv, NEW c \in Clients, PipeSet(c)
    PROVE  EnqueueInv' /\ Atomic!PipeSet(c)
<1>1. PICK k : k = call[c]
  OBVIOUS
<1>2. PICK new : new = [k EXCEPT !.half = TRUE]
  OBVIOUS
<1>3. /\ k.pc = "pipe" /\ ~k.half /\ CallSound(k) /\ StoreTyped /\ UNCHANGED <<work, made>>
      /\ Atomic!Becomes(Atomic!Stored(Atomic!Current({}), Atomic!First(k.req, k.pending),
                                      Atomic!PayloadOf(k.req, k.stamp)))
      /\ call' = [call EXCEPT ![c] = new]
  BY <1>1, <1>2 DEF PipeSet, EnqueueInv, CallsSound
<1>4. /\ CallSound(new)
      /\ Seen(new) = [phase |-> "pipe", req |-> k.req, at |-> k.at, left |-> k.pending,
                      half |-> TRUE, stamp |-> k.stamp, written |-> k.written]
  BY <1>2, <1>3, SetSound
<1>5. CallsSound' /\ Asked' = [Asked EXCEPT ![c] = Seen(new)] /\ Asked[c] = Seen(k)
  BY <1>1, <1>3, <1>4, AskedStep DEF EnqueueInv
<1>6. StoreTyped'
  BY <1>3, FirstFresh, PayloadTyped, StoredTyped
<1>7. EnqueueInv'
  BY <1>3, <1>5, <1>6 DEF EnqueueInv, WorkSound
<1>8. PICK a : a = [Seen(k) EXCEPT !.half = TRUE]
  OBVIOUS
<1>9. a = Seen(new)
  BY <1>3, <1>4, <1>8 DEF Seen, Left
<1>10. Asked' = [Asked EXCEPT ![c].half = TRUE]
  BY <1>5, <1>8, <1>9
<1>11. /\ Seen(k).phase = "pipe" /\ ~Seen(k).half /\ Seen(k).req = k.req /\ Seen(k).left = k.pending
       /\ Seen(k).stamp = k.stamp
  BY <1>3 DEF Seen, Left
<1>12. Atomic!PipeSet(c)
  BY <1>3, <1>5, <1>10, <1>11 DEF Atomic!PipeSet, Asked
<1> QED
  BY <1>7, <1>12

(* LPUSH or ZADD of the pipeline, as the abstract specification has it.    *)
LEMMA PipePushStep ==
    ASSUME EnqueueInv, NEW c \in Clients, PipePush(c)
    PROVE  EnqueueInv' /\ Atomic!PipePush(c)
<1>1. PICK k : k = call[c]
  OBVIOUS
<1>2. PICK new : new = IF k.pending = {Min(k.pending)} THEN ChunkDone(k, k.written)
                       ELSE [k EXCEPT !.half = FALSE, !.pending = k.pending \ {Min(k.pending)}]
  OBVIOUS
<1>3. /\ k.pc = "pipe" /\ k.half /\ CallSound(k) /\ StoreTyped /\ UNCHANGED <<work, made>>
      /\ Atomic!Becomes(Atomic!Pushed(Atomic!Current({}), Atomic!First(k.req, k.pending), k.req))
      /\ call' = [call EXCEPT ![c] = new]
  BY <1>1, <1>2 DEF PipePush, EnqueueInv, CallsSound
<1>4. /\ CallSound(new)
      /\ Seen(new) = [phase |-> IF k.pending = {Min(k.pending)} THEN "chunk" ELSE "pipe",
                      req |-> k.req, at |-> k.at, left |-> k.pending \ {Min(k.pending)},
                      half |-> FALSE, stamp |-> k.stamp, written |-> k.written]
  BY <1>2, <1>3, PushSound
<1>5. CallsSound' /\ Asked' = [Asked EXCEPT ![c] = Seen(new)] /\ Asked[c] = Seen(k)
  BY <1>1, <1>3, <1>4, AskedStep DEF EnqueueInv
<1>6. StoreTyped'
  BY <1>3, FirstFresh, PushedTyped
<1>7. EnqueueInv'
  BY <1>3, <1>5, <1>6 DEF EnqueueInv, WorkSound
<1>8. PICK a, n : /\ n = Atomic!Min(k.pending)
                  /\ a = [Seen(k) EXCEPT !.half = FALSE, !.left = k.pending \ {n},
                                         !.phase = IF k.pending = {n} THEN "chunk" ELSE "pipe"]
  OBVIOUS
<1>9. n = Min(k.pending)
  BY <1>8 DEF Atomic!Min, Min
<1>10. a = Seen(new)
  <2>1. Seen(k) = [phase |-> "pipe", req |-> k.req, at |-> k.at, left |-> k.pending,
                   half |-> TRUE, stamp |-> k.stamp, written |-> k.written]
    <3>1. k.half = TRUE
      BY <1>3 DEF CallSound, Calls
    <3> QED
      BY <1>3, <3>1 DEF Seen, Left
  <2>2. a = [phase |-> IF k.pending = {n} THEN "chunk" ELSE "pipe", req |-> k.req, at |-> k.at,
             left |-> k.pending \ {n}, half |-> FALSE, stamp |-> k.stamp, written |-> k.written]
    <3>1. PICK s, ph, rest : /\ s = Seen(k) /\ rest = k.pending \ {n}
                             /\ ph = IF k.pending = {n} THEN "chunk" ELSE "pipe"
      OBVIOUS
    <3>2. a = [s EXCEPT !.half = FALSE, !.left = rest, !.phase = ph]
      BY <1>8, <3>1
    <3>3. a = [phase |-> ph, req |-> k.req, at |-> k.at, left |-> rest, half |-> FALSE,
               stamp |-> k.stamp, written |-> k.written]
      <4>1. PICK r, at, l, st, w : /\ r = k.req /\ at = k.at /\ l = k.pending /\ st = k.stamp
                                   /\ w = k.written
        OBVIOUS
      <4>2. s = [phase |-> "pipe", req |-> r, at |-> at, left |-> l, half |-> TRUE,
                 stamp |-> st, written |-> w]
        BY <2>1, <3>1, <4>1
      <4>3. a = [phase |-> ph, req |-> r, at |-> at, left |-> rest, half |-> FALSE,
                 stamp |-> st, written |-> w]
        BY <3>2, <4>2
      <4> QED
        BY <4>1, <4>3
    <3> QED
      BY <3>1, <3>3
  <2> QED
    BY <1>4, <1>9, <2>2
<1>11. /\ Seen(k).phase = "pipe" /\ Seen(k).half /\ Seen(k).req = k.req /\ Seen(k).left = k.pending
  BY <1>3 DEF Seen, Left
<1>12. Asked' = [Asked EXCEPT ![c].half = FALSE, ![c].left = @ \ {Atomic!Min(@)},
                   ![c].phase = IF Asked[c].left = {Atomic!Min(Asked[c].left)} THEN "chunk" ELSE "pipe"]
  BY <1>5, <1>8, <1>10, <1>11
<1>13. Atomic!PipePush(c)
  BY <1>3, <1>5, <1>11, <1>12 DEF Atomic!PipePush, Asked
<1> QED
  BY <1>7, <1>13

(* The workers.                                                            *)
LEMMA NoWorkTyped ==
    /\ Atomic!NoWork \in Works /\ Atomic!NoWork.id = None /\ Atomic!NoWork.phase = "idle"
  BY DEF Atomic!NoWork, Works, Value

(* A worker that goes on to a sound state.                                 *)
LEMMA WorkSet ==
    ASSUME WorkSound, NEW w \in Workers, NEW new \in Works, work' = [work EXCEPT ![w] = new],
           new.phase = "idle" <=> new.id = None, new.phase = "retry" => new.env # None
    PROVE  WorkSound'
  BY DEF WorkSound

(* The two parts of LMOVE: the last id and the rest of the queue.          *)
LEMMA ListEnds ==
    ASSUME NEW A, NEW s \in Seq(A), s # <<>>
    PROVE  /\ Last(s) \in A /\ Front(s) \in Seq(A) /\ Len(s) > 0 /\ Len(Front(s)) = Len(s) - 1
           /\ Last(s) = s[Len(s)] /\ \A i \in 1 .. Len(s) - 1 : Front(s)[i] = s[i]
<1>1. Len(s) \in Nat /\ Len(s) > 0 /\ Last(s) = s[Len(s)] /\ Front(s) = SubSeq(s, 1, Len(s) - 1)
  BY DEF Last, Front
<1>2. PICK n \in Nat : n = Len(s) - 1
  BY <1>1
<1>3. /\ SubSeq(s, 1, n) \in Seq(A) /\ Len(SubSeq(s, 1, n)) = n
      /\ \A i \in 1 .. n : SubSeq(s, 1, n)[i] = s[i]
  <2>1. 1 \in Int /\ 1 >= 1 /\ n \in Int /\ n <= Len(s) /\ \A i \in 1 .. n : i \in 1 .. Len(s)
    BY <1>1, <1>2
  <2>2. \A i \in 1 .. n : s[i] \in A
    BY <2>1
  <2>3. SubSeq(s, 1, n) = [i \in 1 .. n |-> s[i]]
    BY <2>1
  <2> QED
    BY <1>2, <2>2, <2>3
<1> QED
  BY <1>1, <1>2, <1>3

(* What a step of a worker does to the store, with its types.              *)
LEMMA WorkerTyped ==
    ASSUME StoreTyped, WorkSound, NEW w \in Workers,
           \/ \E q \in Queues : Atomic!Claim(w, q)
           \/ Atomic!Load(w) \/ Atomic!DropRead(w) \/ Atomic!Drop(w)
           \/ Atomic!Finish(w) \/ Atomic!RetryRead(w) \/ Atomic!RetryCommit(w)
    PROVE  StoreTyped' /\ WorkSound'
<1>0. PICK x : x = work[w]
  OBVIOUS
<1>00. /\ x \in Works /\ (x.phase = "idle" <=> x.id = None) /\ (x.phase = "retry" => x.env # None)
       /\ x.phase # "idle" => x.id \in Every /\ jobs[x.id] \in Value
  BY <1>0 DEF WorkSound, Works, StoreTyped
<1>1. ASSUME NEW q \in Queues, Atomic!Claim(w, q) PROVE StoreTyped' /\ WorkSound'
  <2>1. PICK new : new = [phase |-> "load", id |-> Last(list[q]), env |-> None]
    OBVIOUS
  <2>2. list[q] \in Seq(Every) /\ list[q] # <<>>
    BY <1>1 DEF Atomic!Claim, StoreTyped
  <2>3. Last(list[q]) \in Every /\ Front(list[q]) \in Seq(Every)
    BY <2>2, ListEnds
  <2>4. /\ work' = [work EXCEPT ![w] = new] /\ list' = [list EXCEPT ![q] = Front(list[q])]
        /\ UNCHANGED <<jobs, zset, made>>
    BY <1>1, <2>1 DEF Atomic!Claim, Atomic!Last, Atomic!Front, Last, Front
  <2>5. new \in Works /\ new.phase = "load" /\ new.id # None
    BY <2>1, <2>3, Names DEF Works, Value
  <2> QED
    BY <2>3, <2>4, <2>5, WorkSet DEF StoreTyped
<1>2. CASE Atomic!Load(w)
  <2>1. PICK new : new = [x EXCEPT !.phase = IF jobs[x.id] = None THEN "missing" ELSE "run"]
    OBVIOUS
  <2>2. work' = [work EXCEPT ![w] = new] /\ UNCHANGED <<jobs, list, zset, made>> /\ x.phase = "load"
    BY <1>0, <1>2, <2>1 DEF Atomic!Load
  <2>3. new \in Works /\ new.phase \in {"missing", "run"} /\ new.id = x.id
    BY <1>00, <2>1 DEF Works
  <2> QED
    BY <1>00, <2>2, <2>3, WorkSet DEF StoreTyped
<1>3. CASE Atomic!DropRead(w)
  <2>1. PICK new : new = [x EXCEPT !.phase = "drop", !.env = jobs[x.id]]
    OBVIOUS
  <2>2. work' = [work EXCEPT ![w] = new] /\ UNCHANGED <<jobs, list, zset, made>> /\ x.phase = "missing"
    BY <1>0, <1>3, <2>1 DEF Atomic!DropRead
  <2>3. new \in Works /\ new.phase = "drop" /\ new.id = x.id
    BY <1>00, <2>1, <2>2 DEF Works
  <2> QED
    BY <1>00, <2>2, <2>3, WorkSet DEF StoreTyped
<1>4. CASE Atomic!Drop(w)
  <2>1. /\ x.phase = "drop" /\ work' = [work EXCEPT ![w] = Atomic!NoWork] /\ UNCHANGED made
        /\ jobs' = [jobs EXCEPT ![x.id] = None]
        /\ zset' = [z \in DOMAIN zset |-> zset[z] \ {x.id}]
        /\ list' = IF x.env = None THEN list
                   ELSE [list EXCEPT ![x.env.queue] = Atomic!Without(@, x.id)]
    BY <1>0, <1>4 DEF Atomic!Drop
  <2>2. WorkSound'
    BY <2>1, NoWorkTyped, WorkSet
  <2>3. jobs' \in [Every -> Value] /\ zset' \in [{"schedule", "retry"} -> SUBSET Every] /\ made' \in Nat
    BY <2>1 DEF StoreTyped, Value
  <2>4. \A q \in Queues : Atomic!Without(list[q], x.id) \in Seq(Every)
    BY WithoutKeeps DEF StoreTyped
  <2>5. list' \in [Queues -> Seq(Every)]
    BY <2>1, <2>4 DEF StoreTyped
  <2> QED
    BY <2>2, <2>3, <2>5 DEF StoreTyped
<1>5. CASE Atomic!Finish(w)
  <2>1. /\ work' = [work EXCEPT ![w] = Atomic!NoWork] /\ UNCHANGED <<list, zset, made>>
        /\ jobs' = [jobs EXCEPT ![x.id] = None]
    BY <1>0, <1>5 DEF Atomic!Finish
  <2>2. WorkSound'
    BY <2>1, NoWorkTyped, WorkSet
  <2> QED
    BY <2>1, <2>2 DEF StoreTyped, Value
<1>6. CASE Atomic!RetryRead(w)
  <2>1. PICK new : new = IF jobs[x.id] = None THEN Atomic!NoWork
                         ELSE [x EXCEPT !.phase = "retry", !.env = jobs[x.id]]
    OBVIOUS
  <2>2. work' = [work EXCEPT ![w] = new] /\ UNCHANGED <<jobs, list, zset, made>> /\ x.phase = "run"
    BY <1>0, <1>6, <2>1 DEF Atomic!RetryRead
  <2>3. CASE jobs[x.id] = None
    BY <2>1, <2>2, <2>3, NoWorkTyped, WorkSet DEF StoreTyped
  <2>4. CASE jobs[x.id] # None
    <3>1. new \in Works /\ new.phase = "retry" /\ new.id = x.id /\ new.env = jobs[x.id]
      BY <1>00, <2>1, <2>2, <2>4 DEF Works
    <3> QED
      BY <1>00, <2>2, <2>4, <3>1, WorkSet DEF StoreTyped
  <2> QED
    BY <2>3, <2>4
<1>7. CASE Atomic!RetryCommit(w)
  <2>1. PICK p : p = [x.env EXCEPT !.retries = x.env.retries + 1]
    OBVIOUS
  <2>2. /\ x.phase = "retry" /\ work' = [work EXCEPT ![w] = Atomic!NoWork] /\ UNCHANGED <<list, made>>
        /\ jobs' = [jobs EXCEPT ![x.id] = p] /\ zset' = [zset EXCEPT !["retry"] = @ \cup {x.id}]
    BY <1>0, <1>7, <2>1 DEF Atomic!RetryCommit
  <2>3. x.env \in Atomic!Payload
    BY <1>00, <2>2 DEF Works, Value
  <2>4. p \in Atomic!Payload
    BY <2>1, <2>3 DEF Atomic!Payload
  <2>5. WorkSound'
    BY <2>2, NoWorkTyped, WorkSet
  <2>6. jobs' \in [Every -> Value] /\ zset' \in [{"schedule", "retry"} -> SUBSET Every]
    BY <1>00, <2>2, <2>4 DEF StoreTyped, Value
  <2> QED
    BY <2>2, <2>5, <2>6 DEF StoreTyped
<1> QED
  BY <1>1, <1>2, <1>3, <1>4, <1>5, <1>6, <1>7

(* A promotion keeps the store well formed.                                *)
LEMMA PromoteTyped ==
    ASSUME StoreTyped, NEW z \in {"schedule", "retry"}, NEW id \in Every, Atomic!Promote(z, id)
    PROVE  StoreTyped' /\ work' = work /\ jobs' = jobs
<1>1. /\ zset' = [zset EXCEPT ![z] = @ \ {id}] /\ UNCHANGED <<jobs, work, made>>
      /\ list' = IF jobs[id] = None THEN list ELSE [list EXCEPT ![jobs[id].queue] = <<id>> \o @]
  BY DEF Atomic!Promote
<1>2. \A q \in Queues : <<id>> \o list[q] \in Seq(Every)
  BY DEF StoreTyped
<1>3. list' \in [Queues -> Seq(Every)]
  BY <1>1, <1>2 DEF StoreTyped
<1> QED
  BY <1>1, <1>3 DEF StoreTyped

(* The workers do to the concrete store what the environment of the        *)
(* abstract specification does.                                            *)
LEMMA WorkerStepSound ==
    ASSUME EnqueueInv, WorkerStep
    PROVE  EnqueueInv' /\ Atomic!Environment
<1>1. CallsSound'
  BY DEF EnqueueInv, CallsSound, WorkerStep
<1>2. Atomic!Environment
  BY DEF WorkerStep, Atomic!Environment, Atomic!AllIds
<1>3. StoreTyped' /\ WorkSound'
  <2>1. CASE \E w \in Workers :
               \/ \E q \in Queues : Atomic!Claim(w, q)
               \/ Atomic!Load(w) \/ Atomic!DropRead(w) \/ Atomic!Drop(w)
               \/ Atomic!Finish(w) \/ Atomic!RetryRead(w) \/ Atomic!RetryCommit(w)
    BY <2>1, WorkerTyped DEF EnqueueInv
  <2>2. CASE \E z \in {"schedule", "retry"}, id \in Ids \cup Fresh : Atomic!Promote(z, id)
    BY <2>2, PromoteTyped DEF EnqueueInv, WorkSound, Every
  <2> QED
    BY <2>1, <2>2 DEF WorkerStep
<1> QED
  BY <1>1, <1>2, <1>3 DEF EnqueueInv

(* Initially nothing is stored and nobody asks.                            *)
LEMMA EnqueueInit == Init => EnqueueInv /\ Atomic!Init
<1> SUFFICES ASSUME Init PROVE EnqueueInv /\ Atomic!Init
  OBVIOUS
<1>1. Atomic!Init /\ call = [c \in Clients |-> NoCall]
  BY DEF Init
<1>2. CallsSound
  BY <1>1, NoCallTyped DEF CallsSound
<1>3. /\ jobs = [i \in Every |-> None] /\ list = [q \in Queues |-> <<>>]
      /\ zset = [z \in {"schedule", "retry"} |-> {}] /\ work = [w \in Workers |-> Atomic!NoWork]
      /\ made = 0
  BY <1>1 DEF Atomic!Init, Every, Atomic!AllIds
<1>4. StoreTyped
  BY <1>3 DEF StoreTyped, Value
<1>5. WorkSound
  BY <1>3, NoWorkTyped DEF WorkSound
<1> QED
  BY <1>1, <1>2, <1>4, <1>5 DEF EnqueueInv

(* Every step keeps the invariant and is a step of the abstract            *)
(* specification or none of it.                                            *)
LEMMA EnqueueStep == EnqueueInv /\ [Next]_vars => EnqueueInv' /\ Abstractly
<1> SUFFICES ASSUME EnqueueInv, [Next]_vars PROVE EnqueueInv' /\ Abstractly
  OBVIOUS
<1>1. ASSUME NEW c \in Clients, NEW req \in Requests, Call(c, req) PROVE EnqueueInv' /\ Abstractly
  BY <1>1, CallStep DEF Abstractly, Atomic!Next
<1>2. ASSUME NEW c \in Clients, BeginChunk(c) PROVE EnqueueInv' /\ Abstractly
  BY <1>2, BeginStep DEF Abstractly, Atomic!Next
<1>3. ASSUME NEW c \in Clients, Snapshot(c) PROVE EnqueueInv' /\ Abstractly
  BY <1>3, SnapshotStep
<1>4. ASSUME NEW c \in Clients, NEW id \in Ids, Exists(c, id) PROVE EnqueueInv' /\ Abstractly
  BY <1>4, ExistsStep
<1>5. ASSUME NEW c \in Clients, Refuse(c) PROVE EnqueueInv' /\ Abstractly
  BY <1>5, RefuseStep
<1>6. ASSUME NEW c \in Clients, Write(c, TRUE) \/ Write(c, FALSE) PROVE EnqueueInv' /\ Abstractly
  <2>1. EnqueueInv' /\ (Atomic!Commit(c) \/ Atomic!CommitUnanswered(c))
    BY <1>6, WriteStep
  <2> QED
    BY <2>1 DEF Abstractly, Atomic!Next
<1>7. ASSUME NEW c \in Clients, PipeSet(c) PROVE EnqueueInv' /\ Abstractly
  BY <1>7, PipeSetStep DEF Abstractly, Atomic!Next
<1>8. ASSUME NEW c \in Clients, PipePush(c) PROVE EnqueueInv' /\ Abstractly
  BY <1>8, PipePushStep DEF Abstractly, Atomic!Next
<1>9. ASSUME NEW c \in Clients, Fail(c) PROVE EnqueueInv' /\ Abstractly
  BY <1>9, FailStep DEF Abstractly, Atomic!Next
<1>10. CASE WorkerStep
  BY <1>10, WorkerStepSound DEF Abstractly, Atomic!Next
<1>11. CASE UNCHANGED vars
  <2>1. UNCHANGED Atomic!vars
    BY <1>11 DEF vars, Atomic!vars
  <2>2. EnqueueInv'
    BY <1>11 DEF vars, EnqueueInv, StoreTyped, WorkSound, CallsSound
  <2> QED
    BY <2>1, <2>2 DEF Abstractly
<1> QED
  BY <1>1, <1>2, <1>3, <1>4, <1>5, <1>6, <1>7, <1>8, <1>9, <1>10, <1>11 DEF Next, ClientStep

(* ImplementsAtomicEnqueue: enqueue_chunk_w_conn and enqueue.lua implement *)
(* the abstract enqueue, whatever the interleaving of snapshots, HEXISTS   *)
(* answers, refused and repeated scripts, lost replies and workers.        *)
THEOREM EnqueueIsAtomic == Spec => ImplementsAtomicEnqueue
<1>1. EnqueueInv /\ [Next]_vars => EnqueueInv'
  BY EnqueueStep
<1>2. EnqueueInv /\ [Next]_vars => [Atomic!Next]_Atomic!vars
  BY EnqueueStep DEF Abstractly
<1> QED
  BY EnqueueInit, <1>1, <1>2, PTL DEF Spec, ImplementsAtomicEnqueue, Atomic!Spec

-----------------------------------------------------------------------------
(* A unique job is in one place.                                           *)

(* In the store js, ls, zs and with the workers hs: an id without payload  *)
(* is nowhere, one with a payload is in the queue the payload names, or in *)
(* one sorted set, or with a worker, and in no two of them.                *)
Alone(js, ls, zs, hs, id) ==
    /\ \A q \in Queues : Once(ls[q], id)
    /\ \A q \in Queues : In(ls[q], id) =>
          /\ js[id] # None /\ js[id].queue = q
          /\ hs = {} /\ \A z \in {"schedule", "retry"} : id \notin zs[z]
    /\ \A z \in {"schedule", "retry"} : id \in zs[z] => js[id] # None /\ hs = {}
    /\ ~(id \in zs["schedule"] /\ id \in zs["retry"])
    /\ hs # {} => js[id] # None
    /\ js[id] # None => \/ hs # {}
                        \/ \E z \in {"schedule", "retry"} : id \in zs[z]
                        \/ \E q \in Queues : In(ls[q], id)

Holders(id) == {w \in Workers : work[w].id = id}

(* Only a job that was replaced under its worker loses its payload there.  *)
Undisturbed(id) ==
    /\ Alone(jobs, list, zset, Holders(id), id)
    /\ \A w, v \in Holders(id) : w = v
    /\ \A w \in Holders(id) : work[w].phase \notin {"missing", "drop"}

UniqueInv == \A id \in Ids \ overrun : Undisturbed(id)

(* What a queue has after LPUSH.                                           *)
LEMMA PushedIn ==
    ASSUME NEW A, NEW s \in Seq(A), NEW x \in A
    PROVE  /\ <<x>> \o s \in Seq(A)
           /\ \A y : In(<<x>> \o s, y) <=> y = x \/ In(s, y)
           /\ \A y : (y # x /\ Once(s, y)) \/ (y = x /\ ~In(s, y)) => Once(<<x>> \o s, y)
<1>1. PICK t : t = <<x>> \o s
  OBVIOUS
<1>2. /\ t \in Seq(A) /\ Len(s) \in Nat /\ DOMAIN s = 1 .. Len(s) /\ DOMAIN t = 1 .. Len(s) + 1 /\ t[1] = x
      /\ \A i \in 2 .. Len(s) + 1 : t[i] = s[i - 1] /\ i - 1 \in 1 .. Len(s)
      /\ \A i \in 1 .. Len(s) : t[i + 1] = s[i] /\ i + 1 \in 1 .. Len(s) + 1
  BY <1>1
<1>3. ASSUME NEW y PROVE In(t, y) <=> y = x \/ In(s, y)
  <2>1. In(t, y) => y = x \/ In(s, y)
    <3>1. \A i \in 1 .. Len(s) + 1 : i = 1 \/ i \in 2 .. Len(s) + 1
      BY <1>2
    <3> QED
      BY <1>2, <3>1 DEF In
  <2>2. y = x => In(t, y)
    <3>1. 1 \in 1 .. Len(s) + 1
      BY <1>2
    <3> QED
      BY <1>2, <3>1 DEF In
  <2>3. In(s, y) => In(t, y)
    BY <1>2 DEF In
  <2> QED
    BY <2>1, <2>2, <2>3
<1>4. ASSUME NEW y, (y # x /\ Once(s, y)) \/ (y = x /\ ~In(s, y)) PROVE Once(t, y)
  <2> SUFFICES ASSUME NEW i \in DOMAIN t, NEW j \in DOMAIN t, t[i] = y, t[j] = y PROVE i = j
    BY DEF Once
  <2>1. i \in 1 .. Len(s) + 1 /\ j \in 1 .. Len(s) + 1
    BY <1>2
  <2>2. CASE y = x /\ ~In(s, y)
    <3>1. \A n \in 2 .. Len(s) + 1 : t[n] # y
      BY <1>2, <2>2 DEF In
    <3> QED
      BY <1>2, <2>1, <3>1
  <2>3. CASE y # x /\ Once(s, y)
    <3>1. i \in 2 .. Len(s) + 1 /\ j \in 2 .. Len(s) + 1
      BY <1>2, <2>1, <2>3
    <3>2. i - 1 \in DOMAIN s /\ j - 1 \in DOMAIN s /\ s[i - 1] = y /\ s[j - 1] = y
      BY <1>2, <3>1
    <3>3. i - 1 = j - 1
      BY <2>3, <3>2 DEF Once
    <3> QED
      BY <1>2, <3>1, <3>3
  <2> QED
    BY <1>4, <2>2, <2>3
<1> QED
  BY <1>1, <1>2, <1>3, <1>4

(* What a queue has after its last id was claimed.                         *)
LEMMA ClaimedIn ==
    ASSUME NEW A, NEW s \in Seq(A), s # <<>>
    PROVE  /\ In(s, Last(s)) /\ Front(s) \in Seq(A)
           /\ \A y : In(Front(s), y) => In(s, y)
           /\ \A y : In(s, y) /\ y # Last(s) => In(Front(s), y)
           /\ \A y : Once(s, y) => Once(Front(s), y)
           /\ Once(s, Last(s)) => ~In(Front(s), Last(s))
<1>1. PICK t : t = Front(s)
  OBVIOUS
<1>2. /\ t \in Seq(A) /\ Len(s) \in Nat /\ Len(s) > 0 /\ DOMAIN s = 1 .. Len(s) /\ DOMAIN t = 1 .. Len(s) - 1
      /\ Last(s) = s[Len(s)] /\ \A i \in 1 .. Len(s) - 1 : t[i] = s[i]
  BY <1>1, ListEnds
<1>9. PICK n \in Nat : n = Len(s) /\ n > 0
  BY <1>2
<1>3. /\ \A i \in 1 .. n : i = n \/ i \in 1 .. n - 1
      /\ \A i \in 1 .. n - 1 : i \in 1 .. n /\ i # n
      /\ n \in 1 .. n
  BY <1>9
<1>4. In(s, Last(s))
  BY <1>2, <1>9, <1>3 DEF In
<1>5. \A y : In(t, y) => In(s, y)
  BY <1>2, <1>9, <1>3 DEF In
<1>6. \A y : In(s, y) /\ y # Last(s) => In(t, y)
  BY <1>2, <1>9, <1>3 DEF In
<1>7. \A y : Once(s, y) => Once(t, y)
  BY <1>2, <1>9, <1>3 DEF Once
<1>8. Once(s, Last(s)) => ~In(t, Last(s))
  BY <1>2, <1>9, <1>3 DEF In, Once
<1> QED
  BY <1>1, <1>2, <1>4, <1>5, <1>6, <1>7, <1>8

(* A job of a chunk that is written leaves every unique id in one place,   *)
(* unless it replaces the job of a worker.                                 *)
LEMMA JobWritten ==
    ASSUME NEW st \in Stores, NEW r \in Requests, NEW n \in 1 .. Len(r.items), NEW stamp \in Nat,
           NEW hs, NEW id \in Ids, Alone(st.jobs, st.list, st.zset, hs, id), NEW new,
           Leaves(new, st, r.items[n], st.jobs[r.items[n].id].queue, r, stamp),
           ~(r.items[n].mode = "skip" /\ st.jobs[r.items[n].id] # None),
           ~(r.items[n].mode = "replace" /\ r.items[n].id = id /\ hs # {})
    PROVE  Alone(new.jobs, new.list, new.zset, hs, id)
<1>1. PICK x, p, old : /\ x = r.items[n].id /\ p = Atomic!PayloadOf(r, stamp) /\ old = st.jobs[x].queue
  OBVIOUS
<1>2. /\ x \in Every /\ id \in Every /\ r.queue \in Queues /\ p \in Atomic!Payload /\ p.queue = r.queue /\ p # None
      /\ r.delay \in Nat
      /\ x = id => r.items[n].mode \in {"skip", "replace"}
  <2>1. /\ r.items[n].id \in Every /\ r.items[n].mode \in {"default", "skip", "replace"}
        /\ r.items[n].id \in Fresh <=> r.items[n].mode = "default"
    BY RequestTyped
  <2> QED
    BY <1>1, <2>1, RequestTyped, PayloadTyped, Names DEF Every
<1>3. /\ st.jobs \in [Every -> Value] /\ st.list \in [Queues -> Seq(Every)]
      /\ st.zset \in [{"schedule", "retry"} -> SUBSET Every]
  BY DEF Stores
<1>4. /\ new.jobs = [st.jobs EXCEPT ![x] = p]
      /\ \A z \in {"schedule", "retry"} : new.zset[z] =
            (IF Clears(st, r.items[n]) THEN st.zset[z] \ {x} ELSE st.zset[z])
            \cup (IF z = "schedule" /\ r.delay # 0 THEN {x} ELSE {})
      /\ \A q \in Queues : new.list[q] =
            (IF q = r.queue /\ r.delay = 0 THEN <<x>> ELSE <<>>)
            \o (IF Clears(st, r.items[n]) /\ q \in {old, r.queue} THEN Atomic!Without(st.list[q], x)
                ELSE st.list[q])
  BY <1>1 DEF Leaves
<1> DEFINE base(q) == IF Clears(st, r.items[n]) /\ q \in {old, r.queue}
                      THEN Atomic!Without(st.list[q], x) ELSE st.list[q]
<1>5. ASSUME NEW q \in Queues
      PROVE  /\ base(q) \in Seq(Every)
             /\ Once(base(q), id)
             /\ x # id => (In(base(q), id) <=> In(st.list[q], id))
             /\ In(base(q), id) => In(st.list[q], id)
             /\ x = id /\ Clears(st, r.items[n]) => ~In(base(q), id)
  <2>1. /\ Atomic!Without(st.list[q], x) \in Seq(Every) /\ st.list[q] \in Seq(Every)
        /\ \A y : In(Atomic!Without(st.list[q], x), y) <=> y # x /\ In(st.list[q], y)
        /\ \A y : Once(st.list[q], y) => Once(Atomic!Without(st.list[q], x), y)
    BY <1>3, WithoutKeeps
  <2>2. Once(st.list[q], id) /\ (In(st.list[q], id) => st.jobs[id].queue = q)
    BY DEF Alone
  <2> QED
    BY <1>1, <2>1, <2>2
<1>6. ASSUME NEW q \in Queues
      PROVE  /\ Once(new.list[q], id)
                \/ (x = id /\ q = r.queue /\ r.delay = 0 /\ In(base(q), id))
             /\ In(new.list[q], id) <=> In(base(q), id) \/ (x = id /\ q = r.queue /\ r.delay = 0)
  <2>1. CASE q = r.queue /\ r.delay = 0
    <3>1. new.list[q] = <<x>> \o base(q)
      BY <1>4, <2>1
    <3>2. PICK b : b = base(q)
      OBVIOUS
    <3>3. b \in Seq(Every) /\ Once(b, id)
      BY <1>5, <3>2
    <3>4. /\ In(<<x>> \o b, id) <=> id = x \/ In(b, id)
          /\ (id # x /\ Once(b, id)) \/ (id = x /\ ~In(b, id)) => Once(<<x>> \o b, id)
      BY <1>2, <3>3, PushedIn
    <3> QED
      BY <2>1, <3>1, <3>2, <3>3, <3>4
  <2>2. CASE ~(q = r.queue /\ r.delay = 0)
    <3>1. new.list[q] = base(q)
      <4>1. new.list[q] = <<>> \o base(q)
        BY <1>4, <2>2
      <4>2. PICK b \in Seq(Every) : b = base(q)
        BY <1>5
      <4>3. <<>> \o b = b
        OBVIOUS
      <4> QED
        BY <4>1, <4>2, <4>3
    <3> QED
      BY <1>5, <2>2, <3>1
  <2> QED
    BY <2>1, <2>2
<1> HIDE DEF base
<1>7. CASE x # id
  <2>1. new.jobs[id] = st.jobs[id]
    BY <1>2, <1>3, <1>4, <1>7
  <2>2. \A q \in Queues : Once(new.list[q], id) /\ (In(new.list[q], id) <=> In(st.list[q], id))
    BY <1>5, <1>6, <1>7
  <2>3. \A z \in {"schedule", "retry"} : id \in new.zset[z] <=> id \in st.zset[z]
    BY <1>4, <1>7
  <2> QED
    BY <2>1, <2>2, <2>3 DEF Alone
<1>8. CASE x = id
  <2>1. new.jobs[id] = p
    BY <1>2, <1>3, <1>4, <1>8
  <2>2. hs = {} /\ (st.jobs[id] # None => Clears(st, r.items[n]))
    BY <1>1, <1>2, <1>8 DEF Alone, Clears
  <2>3. \A q \in Queues : ~In(base(q), id)
    BY <1>5, <1>8, <2>2 DEF Alone
  <2>4. \A q \in Queues : Once(new.list[q], id) /\ (In(new.list[q], id) <=> q = r.queue /\ r.delay = 0)
    BY <1>6, <1>8, <2>3
  <2>5. \A z \in {"schedule", "retry"} : id \in new.zset[z] <=> z = "schedule" /\ r.delay # 0
    BY <1>4, <1>8, <2>2 DEF Alone
  <2> QED
    BY <1>2, <2>1, <2>2, <2>4, <2>5 DEF Alone
<1> QED
  BY <1>7, <1>8

(* The whole chunk, job by job.                                            *)
LEMMA ChunkWritten ==
    ASSUME NEW st \in Stores, NEW r \in Requests, NEW left, NEW stamp \in Nat, NEW hs, NEW id \in Ids,
           Alone(st.jobs, st.list, st.zset, hs, id),
           \A n \in 1 .. Len(r.items) : n \in left /\ r.items[n].mode = "replace" /\ r.items[n].id = id => hs = {},
           NEW new, new = Atomic!ApplyAll(st, left, r, stamp)
    PROVE  Alone(new.jobs, new.list, new.zset, hs, id)
<1>1. PICK N \in Nat : N = Len(r.items)
  BY RequestTyped
<1>2. PICK a : Applies(a, st, left, r, stamp, N) /\ new = a[N]
  BY <1>1, ApplyAllIs
<1> DEFINE G == {n \in 0 .. N : a[n] \in Stores /\ Alone(a[n].jobs, a[n].list, a[n].zset, hs, id)}
<1>3. 0 \in G
  <2>1. a[0] = st /\ 0 \in 0 .. N
    BY <1>1, <1>2 DEF Applies
  <2> QED
    BY <2>1
<1>4. ASSUME NEW n \in 1 .. N, n - 1 \in G PROVE n \in G
  <2>1. n \in 0 .. N /\ n # 0
    BY <1>1
  <2>2. PICK s : s = a[n - 1]
    OBVIOUS
  <2>3. s \in Stores /\ Alone(s.jobs, s.list, s.zset, hs, id)
    BY <1>4, <2>2
  <2>4. a[n] = IF n \in left THEN Atomic!Applied(s, r.items[n], r, stamp) ELSE s
    BY <1>2, <2>1, <2>2, Zenon DEF Applies
  <2>5. n \in 1 .. Len(r.items)
    BY <1>1
  <2>6. CASE n \notin left \/ (r.items[n].mode = "skip" /\ s.jobs[r.items[n].id] # None)
    <3>1. a[n] = s
      BY <2>3, <2>4, <2>5, <2>6, AppliedIs
    <3> QED
      BY <2>1, <2>3, <3>1
  <2>7. CASE n \in left /\ ~(r.items[n].mode = "skip" /\ s.jobs[r.items[n].id] # None)
    <3>1. a[n] = Overwritten(s, r.items[n], s.jobs[r.items[n].id].queue, r, stamp)
      BY <2>3, <2>4, <2>5, <2>7, AppliedIs
    <3>2. Leaves(a[n], s, r.items[n], s.jobs[r.items[n].id].queue, r, stamp)
      BY <2>3, <2>5, <3>1, RewrittenLeaves, Zenon
    <3>3. ~(r.items[n].mode = "replace" /\ r.items[n].id = id /\ hs # {})
      BY <2>5, <2>7
    <3>4. PICK t : t = a[n]
      OBVIOUS
    <3>5. Alone(t.jobs, t.list, t.zset, hs, id)
      BY <2>3, <2>5, <2>7, <3>2, <3>3, <3>4, JobWritten, Zenon
    <3>6. t \in Stores
      BY <3>2, <3>4 DEF Leaves
    <3> QED
      BY <2>1, <3>4, <3>5, <3>6
  <2> QED
    BY <2>6, <2>7
<1>5. N \in G
  <2> HIDE DEF G
  <2>1. 0 .. N \subseteq G
    BY <1>3, <1>4, UpTo
  <2>2. N \in 0 .. N
    BY <1>1
  <2> QED
    BY <2>1, <2>2
<1> QED
  BY <1>2, <1>5

(* A step that leaves an id where it is.                                   *)
LEMMA LeftAlone ==
    ASSUME NEW id, Undisturbed(id), jobs'[id] = jobs[id],
           \A q \in Queues : Once(list'[q], id) /\ (In(list'[q], id) <=> In(list[q], id)),
           \A z \in {"schedule", "retry"} : id \in zset'[z] <=> id \in zset[z],
           Holders(id)' = Holders(id),
           \A w \in Holders(id) : work'[w].phase \notin {"missing", "drop"}
    PROVE  Undisturbed(id)'
  BY DEF Undisturbed, Alone

(* A worker with another job changes nothing for this id.                  *)
LEMMA OthersHolders ==
    ASSUME NEW id, NEW w \in Workers, NEW new, work \in [Workers -> Works],
           work' = [work EXCEPT ![w] = new], work[w].id # id, new.id # id
    PROVE  /\ Holders(id)' = Holders(id)
           /\ \A v \in Holders(id) : work'[v] = work[v]
  BY DEF Holders

(* LMOVE takes the only entry of the id from the queue to the worker.      *)
LEMMA ClaimUnique ==
    ASSUME EnqueueInv, UniqueInv, NEW w \in Workers, NEW q \in Queues, Atomic!Claim(w, q),
           NEW id \in Ids \ overrun
    PROVE  Undisturbed(id)'
<1>1. PICK l, t, new : /\ l = Last(list[q]) /\ t = Front(list[q])
                       /\ new = [phase |-> "load", id |-> Last(list[q]), env |-> None]
  OBVIOUS
<1>2. /\ list[q] \in Seq(Every) /\ list[q] # <<>> /\ list \in [Queues -> Seq(Every)]
      /\ work \in [Workers -> Works] /\ work[w].id = None /\ id # None
  BY Names DEF Atomic!Claim, EnqueueInv, StoreTyped, WorkSound, Every
<1>3. /\ work' = [work EXCEPT ![w] = new] /\ list' = [list EXCEPT ![q] = t]
      /\ jobs' = jobs /\ zset' = zset
  BY <1>1 DEF Atomic!Claim, Atomic!Last, Atomic!Front, Last, Front
<1>4. /\ In(list[q], l)
      /\ \A y : In(t, y) => In(list[q], y)
      /\ \A y : In(list[q], y) /\ y # l => In(t, y)
      /\ \A y : Once(list[q], y) => Once(t, y)
      /\ Once(list[q], l) => ~In(t, l)
  BY <1>1, <1>2, ClaimedIn
<1>5. Undisturbed(id)
  BY DEF UniqueInv
<1>6. \A p \in Queues : /\ list'[p] = IF p = q THEN t ELSE list[p]
                        /\ Once(list[p], id) /\ Once(list'[p], id)
  BY <1>2, <1>3, <1>4, <1>5 DEF Undisturbed, Alone
<1>7. CASE id # l
  <2>1. \A p \in Queues : In(list'[p], id) <=> In(list[p], id)
    BY <1>4, <1>6, <1>7
  <2>2. Holders(id)' = Holders(id) /\ \A v \in Holders(id) : work'[v] = work[v]
    <3>1. new.id = l /\ new.id # id
      BY <1>1, <1>7
    <3> QED
      BY <1>2, <1>3, <3>1, OthersHolders
  <2> QED
    BY <1>3, <1>5, <1>6, <2>1, <2>2, LeftAlone DEF Undisturbed
<1>8. CASE id = l
  <2>1. /\ jobs[id] # None /\ jobs[id].queue = q /\ Holders(id) = {}
        /\ \A z \in {"schedule", "retry"} : id \notin zset[z]
    BY <1>4, <1>5, <1>8 DEF Undisturbed, Alone
  <2>2. \A p \in Queues : ~In(list'[p], id)
    <3>1. \A p \in Queues : In(list[p], id) => p = q
      BY <1>5, <2>1 DEF Undisturbed, Alone
    <3> QED
      BY <1>4, <1>6, <1>8, <3>1
  <2>3. Holders(id)' = {w} /\ work'[w].phase = "load"
    <3>1. new.id = id /\ new.phase = "load"
      BY <1>1, <1>8
    <3> QED
      BY <1>2, <1>3, <2>1, <3>1 DEF Holders
  <2> QED
    BY <1>3, <1>6, <2>1, <2>2, <2>3 DEF Undisturbed, Alone
<1> QED
  BY <1>7, <1>8

(* The steps of a worker with its job.                                     *)
LEMMA ExecuteUnique ==
    ASSUME EnqueueInv, UniqueInv, NEW w \in Workers,
           \/ Atomic!Load(w) \/ Atomic!DropRead(w) \/ Atomic!Drop(w)
           \/ Atomic!Finish(w) \/ Atomic!RetryRead(w) \/ Atomic!RetryCommit(w),
           NEW id \in Ids \ overrun
    PROVE  Undisturbed(id)'
<1>0. PICK x : x = work[w]
  OBVIOUS
<1>1. /\ x \in Works /\ work \in [Workers -> Works] /\ (x.phase = "idle" <=> x.id = None)
      /\ x.phase = "retry" => x.env # None
      /\ id \in Every /\ id # None /\ list \in [Queues -> Seq(Every)]
      /\ jobs \in [Every -> Value] /\ zset \in [{"schedule", "retry"} -> SUBSET Every]
      /\ x.id \in Every \cup {None} /\ x.phase # "idle"
  BY <1>0, Names DEF EnqueueInv, StoreTyped, WorkSound, Every, Works, Atomic!Load, Atomic!DropRead,
     Atomic!Drop, Atomic!Finish, Atomic!RetryRead, Atomic!RetryCommit
<1>2. Undisturbed(id)
  BY DEF UniqueInv
<1>3. x.id = id => /\ Holders(id) = {w} /\ jobs[id] # None /\ x.phase \notin {"missing", "drop"}
                   /\ \A q \in Queues : Once(list[q], id) /\ ~In(list[q], id)
                   /\ \A z \in {"schedule", "retry"} : id \notin zset[z]
  <2> SUFFICES ASSUME x.id = id
               PROVE  /\ Holders(id) = {w} /\ jobs[id] # None /\ x.phase \notin {"missing", "drop"}
                      /\ \A q \in Queues : Once(list[q], id) /\ ~In(list[q], id)
                      /\ \A z \in {"schedule", "retry"} : id \notin zset[z]
    OBVIOUS
  <2>1. w \in Holders(id)
    BY <1>0 DEF Holders
  <2>2. Holders(id) = {w} /\ x.phase \notin {"missing", "drop"}
    BY <1>0, <1>2, <2>1 DEF Undisturbed
  <2>3. Holders(id) # {}
    BY <2>1
  <2> QED
    BY <1>2, <2>2, <2>3 DEF Undisturbed, Alone
<1>4. \A q \in Queues : Once(list[q], id)
  BY <1>2 DEF Undisturbed, Alone
<1>5. ASSUME x.id # id, NEW new, new.id # id, work' = [work EXCEPT ![w] = new],
             jobs'[id] = jobs[id],
             \A q \in Queues : Once(list'[q], id) /\ (In(list'[q], id) <=> In(list[q], id)),
             \A z \in {"schedule", "retry"} : id \in zset'[z] <=> id \in zset[z]
      PROVE  Undisturbed(id)'
  <2>1. Holders(id)' = Holders(id) /\ \A v \in Holders(id) : work'[v] = work[v]
    BY <1>0, <1>1, <1>5, OthersHolders
  <2> QED
    BY <1>2, <1>5, <2>1, LeftAlone DEF Undisturbed
<1>6. ASSUME x.id = id, NEW new, new.id = id, new.phase \notin {"missing", "drop"},
             work' = [work EXCEPT ![w] = new], jobs' = jobs, list' = list, zset' = zset
      PROVE  Undisturbed(id)'
  <2>1. Holders(id)' = Holders(id)
    BY <1>0, <1>1, <1>6 DEF Holders
  <2>2. \A v \in Holders(id) : work'[v].phase \notin {"missing", "drop"}
    BY <1>1, <1>3, <1>6
  <2> QED
    BY <1>2, <1>4, <1>6, <2>1, <2>2, LeftAlone
<1>7. CASE Atomic!Load(w)
  <2>1. PICK new : new = [x EXCEPT !.phase = IF jobs[x.id] = None THEN "missing" ELSE "run"]
    OBVIOUS
  <2>2. work' = [work EXCEPT ![w] = new] /\ jobs' = jobs /\ list' = list /\ zset' = zset
    BY <1>0, <1>7, <2>1 DEF Atomic!Load
  <2>3. new.id = x.id /\ (jobs[x.id] # None => new.phase = "run")
    BY <1>1, <2>1 DEF Works
  <2> QED
    BY <1>3, <1>4, <1>5, <1>6, <2>2, <2>3
<1>8. CASE Atomic!DropRead(w)
  <2>1. PICK new : new = [x EXCEPT !.phase = "drop", !.env = jobs[x.id]]
    OBVIOUS
  <2>2. /\ work' = [work EXCEPT ![w] = new] /\ jobs' = jobs /\ list' = list /\ zset' = zset
        /\ x.phase = "missing"
    BY <1>0, <1>8, <2>1 DEF Atomic!DropRead
  <2>3. new.id = x.id /\ x.id # id
    BY <1>1, <1>3, <2>1, <2>2 DEF Works
  <2> QED
    BY <1>4, <1>5, <2>2, <2>3
<1>9. CASE Atomic!Drop(w)
  <2>1. /\ x.phase = "drop" /\ work' = [work EXCEPT ![w] = Atomic!NoWork]
        /\ jobs' = [jobs EXCEPT ![x.id] = None]
        /\ zset' = [z \in DOMAIN zset |-> zset[z] \ {x.id}]
        /\ list' = IF x.env = None THEN list
                   ELSE [list EXCEPT ![x.env.queue] = Atomic!Without(@, x.id)]
    BY <1>0, <1>9 DEF Atomic!Drop
  <2>2. x.id # id /\ Atomic!NoWork.id # id
    BY <1>1, <1>3, <2>1, NoWorkTyped
  <2>3. \A q \in Queues :
           /\ In(Atomic!Without(list[q], x.id), id) <=> In(list[q], id)
           /\ Once(Atomic!Without(list[q], x.id), id)
    BY <1>1, <1>4, <2>2, WithoutKeeps
  <2>4. \A q \in Queues : list'[q] = list[q] \/ list'[q] = Atomic!Without(list[q], x.id)
    BY <1>1, <2>1
  <2>5. \A q \in Queues : Once(list'[q], id) /\ (In(list'[q], id) <=> In(list[q], id))
    BY <1>4, <2>3, <2>4
  <2>6. jobs'[id] = jobs[id] /\ \A z \in {"schedule", "retry"} : id \in zset'[z] <=> id \in zset[z]
    BY <1>1, <2>1, <2>2
  <2> QED
    BY <1>5, <2>1, <2>2, <2>5, <2>6
<1>10. CASE Atomic!Finish(w)
  <2>1. /\ work' = [work EXCEPT ![w] = Atomic!NoWork] /\ list' = list /\ zset' = zset
        /\ jobs' = [jobs EXCEPT ![x.id] = None]
    BY <1>0, <1>10 DEF Atomic!Finish
  <2>2. Atomic!NoWork.id # id
    BY <1>1, NoWorkTyped
  <2>3. CASE x.id # id
    <3>1. jobs'[id] = jobs[id]
      BY <1>1, <2>1, <2>3
    <3> QED
      BY <1>4, <1>5, <2>1, <2>2, <2>3, <3>1
  <2>4. CASE x.id = id
    <3>1. jobs'[id] = None
      BY <1>1, <2>1, <2>4
    <3>2. Holders(id)' = {}
      BY <1>1, <1>3, <2>1, <2>2, <2>4 DEF Holders
    <3> QED
      BY <1>3, <2>1, <2>4, <3>1, <3>2 DEF Undisturbed, Alone
  <2> QED
    BY <2>3, <2>4
<1>11. CASE Atomic!RetryRead(w)
  <2>1. PICK new : new = IF jobs[x.id] = None THEN Atomic!NoWork
                         ELSE [x EXCEPT !.phase = "retry", !.env = jobs[x.id]]
    OBVIOUS
  <2>2. work' = [work EXCEPT ![w] = new] /\ jobs' = jobs /\ list' = list /\ zset' = zset
    BY <1>0, <1>11, <2>1 DEF Atomic!RetryRead
  <2>3. /\ jobs[x.id] = None => new.id = None
        /\ jobs[x.id] # None => new.id = x.id /\ new.phase = "retry"
    BY <1>1, <2>1, NoWorkTyped DEF Works
  <2>4. CASE x.id # id
    BY <1>1, <1>4, <1>5, <2>2, <2>3, <2>4
  <2>5. CASE x.id = id
    BY <1>3, <1>6, <2>2, <2>3, <2>5
  <2> QED
    BY <2>4, <2>5
<1>12. CASE Atomic!RetryCommit(w)
  <2>1. PICK p : p = [x.env EXCEPT !.retries = x.env.retries + 1]
    OBVIOUS
  <2>2. /\ x.phase = "retry" /\ work' = [work EXCEPT ![w] = Atomic!NoWork] /\ list' = list
        /\ jobs' = [jobs EXCEPT ![x.id] = p] /\ zset' = [zset EXCEPT !["retry"] = @ \cup {x.id}]
    BY <1>0, <1>12, <2>1 DEF Atomic!RetryCommit
  <2>3. x.env \in Atomic!Payload
    BY <1>1, <2>2 DEF Works, Value
  <2>4. p # None
    <3>1. p \in Atomic!Payload
      BY <2>1, <2>3 DEF Atomic!Payload
    <3> QED
      BY <3>1, Names
  <2>5. Atomic!NoWork.id # id
    BY <1>1, NoWorkTyped
  <2>6. CASE x.id # id
    <3>1. jobs'[id] = jobs[id] /\ \A z \in {"schedule", "retry"} : id \in zset'[z] <=> id \in zset[z]
      BY <1>1, <2>2, <2>6
    <3> QED
      BY <1>4, <1>5, <2>2, <2>5, <2>6, <3>1
  <2>7. CASE x.id = id
    <3>1. jobs'[id] = p /\ id \in zset'["retry"] /\ id \notin zset'["schedule"]
      BY <1>1, <1>3, <2>2, <2>7
    <3>2. Holders(id)' = {}
      BY <1>1, <1>3, <2>2, <2>5, <2>7 DEF Holders
    <3> QED
      BY <1>3, <2>2, <2>4, <2>7, <3>1, <3>2 DEF Undisturbed, Alone
  <2> QED
    BY <2>6, <2>7
<1> QED
  BY <1>7, <1>8, <1>9, <1>10, <1>11, <1>12

(* A promotion takes the id from its sorted set to the queue its payload   *)
(* names.                                                                  *)
LEMMA PromoteUnique ==
    ASSUME EnqueueInv, UniqueInv, NEW z \in {"schedule", "retry"}, NEW x \in Every, Atomic!Promote(z, x),
           NEW id \in Ids \ overrun
    PROVE  Undisturbed(id)'
<1>1. /\ x \in zset[z] /\ jobs' = jobs /\ work' = work
      /\ zset' = [zset EXCEPT ![z] = @ \ {x}]
      /\ list' = IF jobs[x] = None THEN list ELSE [list EXCEPT ![jobs[x].queue] = <<x>> \o @]
  BY DEF Atomic!Promote
<1>2. /\ list \in [Queues -> Seq(Every)] /\ jobs \in [Every -> Value] /\ id \in Every
      /\ zset \in [{"schedule", "retry"} -> SUBSET Every]
  BY DEF EnqueueInv, StoreTyped, Every
<1>3. Undisturbed(id) /\ Holders(id)' = Holders(id)
  BY <1>1 DEF UniqueInv, Holders
<1>4. \A q \in Queues :
         /\ In(<<x>> \o list[q], id) <=> id = x \/ In(list[q], id)
         /\ (id # x /\ Once(list[q], id)) \/ (id = x /\ ~In(list[q], id)) => Once(<<x>> \o list[q], id)
  BY <1>2, PushedIn
<1>5. \A q \in Queues : Once(list[q], id)
  BY <1>3 DEF Undisturbed, Alone
<1>6. CASE x # id
  <2>1. \A q \in Queues : list'[q] = list[q] \/ list'[q] = <<x>> \o list[q]
    BY <1>1, <1>2
  <2>2. \A q \in Queues : Once(list'[q], id) /\ (In(list'[q], id) <=> In(list[q], id))
    BY <1>4, <1>5, <1>6, <2>1
  <2>3. \A y \in {"schedule", "retry"} : id \in zset'[y] <=> id \in zset[y]
    BY <1>1, <1>2, <1>6
  <2> QED
    BY <1>1, <1>3, <2>2, <2>3, LeftAlone DEF Undisturbed
<1>7. CASE x = id
  <2>1. /\ jobs[id] # None /\ Holders(id) = {} /\ \A q \in Queues : ~In(list[q], id)
        /\ \A y \in {"schedule", "retry"} : id \in zset[y] => y = z
    BY <1>1, <1>3, <1>7 DEF Undisturbed, Alone
  <2>2. PICK q \in Queues : q = jobs[id].queue
    BY <1>2, <2>1 DEF Value, Atomic!Payload
  <2>3. \A p \in Queues : list'[p] = IF p = q THEN <<id>> \o list[p] ELSE list[p]
    BY <1>1, <1>2, <1>7, <2>1, <2>2
  <2>4. \A p \in Queues : Once(list'[p], id) /\ (In(list'[p], id) <=> p = q)
    BY <1>4, <1>5, <1>7, <2>1, <2>3
  <2>5. \A y \in {"schedule", "retry"} : id \notin zset'[y]
    BY <1>1, <1>2, <1>7, <2>1
  <2> QED
    BY <1>1, <1>3, <2>1, <2>2, <2>4, <2>5 DEF Undisturbed, Alone
<1> QED
  BY <1>6, <1>7

(* The workers keep unique ids in one place.                               *)
LEMMA WorkersUnique ==
    ASSUME EnqueueInv, UniqueInv, WorkerStep
    PROVE  UniqueInv'
<1> SUFFICES ASSUME NEW id \in Ids \ overrun PROVE Undisturbed(id)'
  BY DEF UniqueInv, WorkerStep
<1>1. CASE \E z \in {"schedule", "retry"}, x \in Ids \cup Fresh : Atomic!Promote(z, x)
  BY <1>1, PromoteUnique DEF Every
<1>2. ASSUME NEW w \in Workers,
             \/ \E q \in Queues : Atomic!Claim(w, q)
             \/ Atomic!Load(w) \/ Atomic!DropRead(w) \/ Atomic!Drop(w)
             \/ Atomic!Finish(w) \/ Atomic!RetryRead(w) \/ Atomic!RetryCommit(w)
      PROVE  Undisturbed(id)'
  BY <1>2, ClaimUnique, ExecuteUnique
<1> QED
  BY <1>1, <1>2 DEF WorkerStep

(* A script that finds its snapshots current.                              *)
LEMMA WriteUnique ==
    ASSUME EnqueueInv, UniqueInv, NEW c \in Clients, Write(c, TRUE) \/ Write(c, FALSE)
    PROVE  UniqueInv' /\ overrun' = overrun \cup (Replaced(call[c]) \cap Held)
<1>1. PICK k : k = call[c]
  OBVIOUS
<1>2. PICK new : new = Result(k)
  OBVIOUS
<1>3. /\ k.pc = "script" /\ Stale(k) = {} /\ CallSound(k) /\ StoreTyped /\ work' = work
      /\ jobs' = new.jobs /\ list' = new.list /\ zset' = new.zset
      /\ overrun' = overrun \cup (Replaced(k) \cap Held)
  BY <1>1, <1>2 DEF Write, Atomic!Becomes, EnqueueInv, CallsSound
<1>4. /\ k.req \in Requests /\ k.pending \subseteq 1 .. Len(k.req.items) /\ k.stamp \in Nat
      /\ k.written \in SUBSET Every
  BY <1>3 DEF CallSound, Calls
<1>5. PICK st : st = Atomic!Current(k.written)
  OBVIOUS
<1>6. st \in Stores /\ st.jobs = jobs /\ st.list = list /\ st.zset = zset
  BY <1>3, <1>4, <1>5, CurrentTyped
<1>7. new = Atomic!ApplyAll(st, k.pending, k.req, k.stamp)
  BY <1>2, <1>3, <1>5, WritesChunk
<1>8. ASSUME NEW id \in Ids \ overrun' PROVE Undisturbed(id)'
  <2>1. id \in Ids /\ id \notin overrun /\ ~(id \in Replaced(k) /\ id \in Held)
    BY <1>3, <1>8
  <2>2. PICK hs : hs = Holders(id)
    OBVIOUS
  <2>3. Undisturbed(id) /\ Alone(jobs, list, zset, hs, id)
    BY <2>1, <2>2 DEF UniqueInv, Undisturbed
  <2>4. \A n \in 1 .. Len(k.req.items) :
           n \in k.pending /\ k.req.items[n].mode = "replace" /\ k.req.items[n].id = id => hs = {}
    <3> SUFFICES ASSUME NEW n \in 1 .. Len(k.req.items), n \in k.pending, hs # {},
                        k.req.items[n].mode = "replace", k.req.items[n].id = id
                 PROVE  FALSE
      OBVIOUS
    <3>1. id \in ReplacementIds(k)
      BY <1>4, Replacements
    <3>2. jobs[id] # None
      BY <2>3 DEF Alone
    <3>3. id \in Held
      BY <2>2 DEF Held, Holders
    <3> QED
      BY <2>1, <3>1, <3>2, <3>3 DEF Replaced
  <2>5. Alone(st.jobs, st.list, st.zset, hs, id)
    BY <1>6, <2>3
  <2>6. Alone(new.jobs, new.list, new.zset, hs, id)
    BY <1>4, <1>6, <1>7, <2>1, <2>4, <2>5, ChunkWritten
  <2>7. Holders(id)' = Holders(id)
    BY <1>3 DEF Holders
  <2> QED
    BY <1>3, <2>2, <2>3, <2>6, <2>7 DEF Undisturbed
<1> QED
  BY <1>1, <1>3, <1>8 DEF UniqueInv

(* The commands of the pipeline are about generated ids only.              *)
LEMMA PipeUnique ==
    ASSUME EnqueueInv, UniqueInv, NEW c \in Clients, PipeSet(c) \/ PipePush(c)
    PROVE  UniqueInv'
<1>1. PICK k : k = call[c]
  OBVIOUS
<1>2. PICK x : x = Atomic!First(k.req, k.pending)
  OBVIOUS
<1>3. /\ k.pc = "pipe" /\ CallSound(k) /\ StoreTyped
      /\ made' = made /\ work' = work /\ overrun' = overrun
  BY <1>1 DEF PipeSet, PipePush, EnqueueInv, CallsSound
<1>4. x \in Fresh /\ x \in Every /\ k.req \in Requests /\ k.stamp \in Nat
  BY <1>2, <1>3, FirstFresh
<1> SUFFICES ASSUME NEW id \in Ids \ overrun PROVE Undisturbed(id)'
  BY <1>3 DEF UniqueInv
<1>5. /\ x # id /\ id \in Every /\ list \in [Queues -> Seq(Every)] /\ jobs \in [Every -> Value]
      /\ Undisturbed(id) /\ Holders(id)' = Holders(id)
  BY <1>3, <1>4, Names DEF StoreTyped, Every, UniqueInv, Holders
<1>6. \A q \in Queues : Once(list[q], id)
  BY <1>5 DEF Undisturbed, Alone
<1>7. CASE PipeSet(c)
  <2>1. PICK p \in Atomic!Payload : p = Atomic!PayloadOf(k.req, k.stamp)
    BY <1>4, PayloadTyped
  <2>2. Atomic!Becomes(Atomic!Stored(Atomic!Current({}), x, p))
    BY <1>1, <1>2, <1>7, <2>1 DEF PipeSet
  <2>3. jobs' = [jobs EXCEPT ![x] = p] /\ list' = list /\ zset' = zset
    BY <1>3, <1>4, <2>2, StoredTyped
  <2>4. jobs'[id] = jobs[id]
    BY <1>5, <2>3
  <2> QED
    BY <1>3, <1>5, <1>6, <2>3, <2>4, LeftAlone DEF Undisturbed
<1>8. CASE PipePush(c)
  <2>1. Atomic!Becomes(Atomic!Pushed(Atomic!Current({}), x, k.req))
    BY <1>1, <1>2, <1>8 DEF PipePush
  <2>2. /\ jobs' = jobs
        /\ \A q \in Queues : list'[q] = list[q] \/ list'[q] = <<x>> \o list[q]
        /\ \A z \in {"schedule", "retry"} : zset'[z] = zset[z] \/ zset'[z] = zset[z] \cup {x}
    <3>1. /\ jobs' = jobs
          /\ \A q \in Queues : list'[q] = IF q = k.req.queue /\ k.req.delay = 0
                                          THEN <<x>> \o list[q] ELSE list[q]
          /\ \A z \in {"schedule", "retry"} :
                zset'[z] = IF z = "schedule" /\ k.req.delay # 0 THEN zset[z] \cup {x} ELSE zset[z]
      BY <1>3, <1>4, <2>1, PushedTyped
    <3> QED
      BY <3>1
  <2>3. \A q \in Queues : /\ In(<<x>> \o list[q], id) <=> id = x \/ In(list[q], id)
                          /\ id # x /\ Once(list[q], id) => Once(<<x>> \o list[q], id)
    BY <1>4, <1>5, PushedIn
  <2>4. \A q \in Queues : Once(list'[q], id) /\ (In(list'[q], id) <=> In(list[q], id))
    BY <1>5, <1>6, <2>2, <2>3
  <2>5. \A z \in {"schedule", "retry"} : id \in zset'[z] <=> id \in zset[z]
    BY <1>5, <2>2
  <2> QED
    BY <1>3, <1>5, <2>2, <2>4, <2>5, LeftAlone DEF Undisturbed
<1> QED
  BY <1>7, <1>8

Bounds == made \in 0 .. MaxRequests /\ overrun \subseteq Ids

(* What the clients do between their writes leaves the store alone.        *)
LEMMA ReadUnique ==
    ASSUME UniqueInv, UNCHANGED <<jobs, list, zset, work, overrun>>
    PROVE  UniqueInv'
  BY DEF UniqueInv, Undisturbed, Alone, Holders

(* Initially no id is anywhere.                                            *)
LEMMA UniqueInit == Init => UniqueInv /\ Bounds
<1> SUFFICES ASSUME Init PROVE UniqueInv /\ Bounds
  OBVIOUS
<1>1. /\ jobs = [i \in Every |-> None] /\ list = [q \in Queues |-> <<>>] /\ overrun = {}
      /\ zset = [z \in {"schedule", "retry"} |-> {}] /\ work = [w \in Workers |-> Atomic!NoWork]
      /\ made = 0
  BY DEF Init, Atomic!Init, Every, Atomic!AllIds
<1>2. Bounds
  BY <1>1, BulkEnqueueAssumption DEF Bounds, Atomic!EnqueueAssumption
<1>3. ASSUME NEW id \in Ids PROVE Undisturbed(id)
  <2>1. jobs[id] = None /\ Holders(id) = {} /\ id # None
    BY <1>1, Names, NoWorkTyped DEF Every, Holders
  <2>2. \A q \in Queues : Once(list[q], id) /\ ~In(list[q], id)
    <3>1. DOMAIN <<>> = {}
      OBVIOUS
    <3> QED
      BY <1>1, <3>1 DEF Once, In
  <2> QED
    BY <1>1, <2>1, <2>2 DEF Undisturbed, Alone
<1> QED
  BY <1>2, <1>3 DEF UniqueInv

(* Every step keeps unique ids in one place.                               *)
LEMMA UniqueStep == EnqueueInv /\ UniqueInv /\ Bounds /\ [Next]_vars => UniqueInv' /\ Bounds'
<1> SUFFICES ASSUME EnqueueInv, UniqueInv, Bounds, [Next]_vars PROVE UniqueInv' /\ Bounds'
  OBVIOUS
<1>1. ASSUME NEW c \in Clients, NEW req \in Requests, Call(c, req) PROVE UniqueInv' /\ Bounds'
  <2>1. UNCHANGED <<jobs, list, zset, work, overrun>> /\ made' = made + 1 /\ made < MaxRequests
    BY <1>1 DEF Call, Atomic!MayAsk
  <2>2. MaxRequests \in Nat
    BY BulkEnqueueAssumption DEF Atomic!EnqueueAssumption
  <2> QED
    BY <2>1, <2>2, ReadUnique DEF Bounds
<1>2. ASSUME NEW c \in Clients, BeginChunk(c) \/ Snapshot(c) \/ (\E id \in Ids : Exists(c, id)) \/ Refuse(c) \/ Fail(c)
      PROVE  UniqueInv' /\ Bounds'
  <2>1. UNCHANGED <<jobs, list, zset, work, overrun, made>>
    BY <1>2 DEF BeginChunk, Snapshot, Exists, Refuse, Fail
  <2> QED
    BY <2>1, ReadUnique DEF Bounds
<1>3. ASSUME NEW c \in Clients, Write(c, TRUE) \/ Write(c, FALSE) PROVE UniqueInv' /\ Bounds'
  <2>1. PICK k : k = call[c]
    OBVIOUS
  <2>2. CallSound(k) /\ k.pc = "script"
    BY <1>3, <2>1 DEF Write, EnqueueInv, CallsSound
  <2>3. ReplacementIds(k) \subseteq Ids
    BY <2>2, Replacements DEF CallSound
  <2>4. made' = made /\ overrun' = overrun \cup (Replaced(k) \cap Held)
    BY <1>3, <2>1 DEF Write
  <2>5. Bounds'
    BY <2>3, <2>4 DEF Bounds, Replaced
  <2> QED
    BY <1>3, <2>5, WriteUnique
<1>4. ASSUME NEW c \in Clients, PipeSet(c) \/ PipePush(c) PROVE UniqueInv' /\ Bounds'
  <2>1. UNCHANGED <<made, overrun>>
    BY <1>4 DEF PipeSet, PipePush
  <2> QED
    BY <1>4, <2>1, PipeUnique DEF Bounds
<1>5. CASE WorkerStep
  <2>1. UNCHANGED <<made, overrun>>
    BY <1>5 DEF WorkerStep, Atomic!Claim, Atomic!Load, Atomic!DropRead, Atomic!Drop, Atomic!Finish,
       Atomic!RetryRead, Atomic!RetryCommit, Atomic!Promote
  <2> QED
    BY <1>5, <2>1, WorkersUnique DEF Bounds
<1>6. CASE UNCHANGED vars
  BY <1>6, ReadUnique DEF vars, Bounds
<1> QED
  BY <1>1, <1>2, <1>3, <1>4, <1>5, <1>6 DEF Next, ClientStep

(* The one place, as the set Places.                                       *)
LEMMA OnePlace ==
    ASSUME EnqueueInv, NEW id \in Ids, Undisturbed(id)
    PROVE  Cardinality(Places(id)) = IF jobs[id] = None THEN 0 ELSE 1
<1>1. Alone(jobs, list, zset, Holders(id), id) /\ \A w, v \in Holders(id) : w = v
  BY DEF Undisturbed
<1> DEFINE L == UNION {{<<"list", q, i>> : i \in {i \in DOMAIN list[q] : list[q][i] = id}} : q \in Queues}
           Z == {<<"zset", z>> : z \in {z \in DOMAIN zset : id \in zset[z]}}
           W == {<<"work", w>> : w \in {w \in Workers : work[w].id = id}}
<1>3. Places(id) = L \cup Z \cup W
  BY DEF Places
<1>4. DOMAIN zset = {"schedule", "retry"}
  BY DEF EnqueueInv, StoreTyped
<1>5. (\A q \in Queues : ~In(list[q], id)) => L = {}
  BY DEF In
<1>6. (\A z \in {"schedule", "retry"} : id \notin zset[z]) => Z = {}
  BY <1>4
<1>10. W = {<<"work", w>> : w \in Holders(id)}
  BY DEF Holders
<1> HIDE DEF W
<1>7. Holders(id) = {} => W = {}
  BY <1>10
<1>8. CASE jobs[id] = None
  <2>1. Places(id) = {}
    BY <1>1, <1>3, <1>5, <1>6, <1>7, <1>8 DEF Alone
  <2> QED
    BY <1>8, <2>1, FS_EmptySet
<1>9. CASE jobs[id] # None
  <2>1. \E s : Places(id) = {s}
    <3>1. CASE Holders(id) # {}
      <4>1. L = {} /\ Z = {}
        BY <1>1, <1>5, <1>6, <3>1 DEF Alone
      <4>2. PICK w : Holders(id) = {w}
        BY <1>1, <3>1
      <4>3. W = {<<"work", w>>}
        BY <1>10, <4>2
      <4> QED
        BY <1>3, <4>1, <4>3
    <3>2. CASE \E z \in {"schedule", "retry"} : id \in zset[z]
      <4>1. PICK z \in {"schedule", "retry"} : id \in zset[z]
        BY <3>2
      <4>2. L = {} /\ W = {}
        BY <1>1, <1>5, <1>7, <4>1 DEF Alone
      <4>3. {y \in DOMAIN zset : id \in zset[y]} = {z}
        BY <1>1, <1>4, <4>1 DEF Alone
      <4>4. Z = {<<"zset", z>>}
        BY <4>3
      <4> QED
        BY <1>3, <4>2, <4>4
    <3>3. CASE \E q \in Queues : In(list[q], id)
      <4>1. PICK q \in Queues : In(list[q], id)
        BY <3>3
      <4>2. Z = {} /\ W = {}
        BY <1>1, <1>6, <1>7, <4>1 DEF Alone
      <4>3. PICK i \in DOMAIN list[q] : list[q][i] = id
        BY <4>1 DEF In
      <4>4. {j \in DOMAIN list[q] : list[q][j] = id} = {i}
        BY <1>1, <4>3 DEF Alone, Once
      <4>5. \A p \in Queues : p # q => {j \in DOMAIN list[p] : list[p][j] = id} = {}
        BY <1>1, <4>1 DEF Alone, In
      <4>6. L = {<<"list", q, i>>}
        <5> DEFINE at(p) == {j \in DOMAIN list[p] : list[p][j] = id}
        <5>1. L = UNION {{<<"list", p, j>> : j \in at(p)} : p \in Queues}
          OBVIOUS
        <5>2. at(q) = {i} /\ \A p \in Queues : p # q => at(p) = {}
          BY <4>4, <4>5
        <5> HIDE DEF at, L
        <5>3. ASSUME NEW s \in L PROVE s = <<"list", q, i>>
          BY <5>1, <5>2
        <5>4. <<"list", q, i>> \in L
          BY <5>1, <5>2
        <5> QED
          BY <5>3, <5>4
      <4> QED
        BY <1>3, <4>2, <4>6
    <3> QED
      BY <1>1, <1>9, <3>1, <3>2, <3>3 DEF Alone
  <2> QED
    BY <1>9, <2>1, FS_Singleton
<1> QED
  BY <1>8, <1>9

(* UniqueInOnePlace: concurrent Skip and Replace requests leave a unique   *)
(* id in exactly one queue, sorted set or worker while its payload is      *)
(* stored, and nowhere otherwise, unless enqueue.lua replaced it while a   *)
(* worker had it.                                                          *)
THEOREM UniqueJobsAreSingle == Spec => []UniqueInOnePlace
<1>1. EnqueueInv /\ [Next]_vars => EnqueueInv'
  BY EnqueueStep
<1>2. EnqueueInv /\ UniqueInv => UniqueInOnePlace
  BY OnePlace DEF UniqueInv, UniqueInOnePlace
<1> QED
  BY EnqueueInit, UniqueInit, UniqueStep, <1>1, <1>2, PTL DEF Spec

(* TypeOK: the store that the scripts leave and the calls in progress are  *)
(* well formed; a client that waits for Redis has something left to write. *)
THEOREM EnqueueTyped == Spec => []TypeOK
<1>1. EnqueueInv /\ [Next]_vars => EnqueueInv'
  BY EnqueueStep
<1>2. EnqueueInv /\ Bounds => TypeOK
  <2> SUFFICES ASSUME EnqueueInv, Bounds PROVE TypeOK
    OBVIOUS
  <2>1. /\ jobs \in [Ids \cup Fresh -> Atomic!Payload \cup {None}]
        /\ \A z \in DOMAIN zset : zset[z] \subseteq Ids \cup Fresh
    BY DEF EnqueueInv, StoreTyped, Every, Value
  <2>2. ASSUME NEW q \in Queues, NEW i \in DOMAIN list[q] PROVE list[q][i] \in Ids \cup Fresh
    <3>1. list[q] \in Seq(Every)
      BY DEF EnqueueInv, StoreTyped
    <3> QED
      BY <3>1 DEF Every
  <2>3. ASSUME NEW c \in Clients
        PROVE  /\ call[c].pc \in {"idle", "chunk", "pipe", "snapshot", "exists", "script"}
               /\ call[c].pc \in {"pipe", "snapshot", "exists", "script"} => call[c].pending # {}
               /\ call[c].pc = "exists" => call[c].unknown # {}
    <3>1. PICK k : k = call[c]
      OBVIOUS
    <3>2. CallSound(k)
      BY <3>1 DEF EnqueueInv, CallsSound
    <3>3. k.pc \in {"idle", "chunk", "pipe", "snapshot", "exists", "script"}
      BY <3>2 DEF CallSound, Calls
    <3>4. k.pc \in {"idle", "chunk"} <=> k.pending = {}
      BY <3>2 DEF CallSound
    <3>5. k.pc = "exists" => k.unknown # {}
      BY <3>2 DEF CallSound
    <3> QED
      BY <3>1, <3>3, <3>4, <3>5
  <2> QED
    BY <2>1, <2>2, <2>3 DEF TypeOK, Bounds
<1> QED
  BY EnqueueInit, UniqueInit, UniqueStep, <1>1, <1>2, PTL DEF Spec
=============================================================================
