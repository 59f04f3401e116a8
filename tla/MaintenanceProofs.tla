------------------------- MODULE MaintenanceProofs -------------------------
(***************************************************************************)
(* Proofs about the operations behind the workers' back, for any number of *)
(* ids, workers and sessions, any dead_job_limit, and any number of        *)
(* enqueues, operations and crashes.                                       *)
(*                                                                         *)
(* The invariant has four parts, carried one after the other: the types    *)
(* and what a session holds at each point (Typed); where an id is, and why *)
(* a payload that nothing lists is there (Placed); that the dead entries   *)
(* are numbered and each in one hand (Buried); and that all copies of an   *)
(* envelope agree on the kind of their job, so that what the cleanup       *)
(* collected had expired (Dated).                                          *)
(***************************************************************************)
EXTENDS Maintenance, SequenceTheorems, FiniteSetTheorems, TLAPS

-----------------------------------------------------------------------------
(* The inductive invariant.                                                *)

DeadEntry == [id : Ids, n : Nat, env : Envelope]
Entry == [id : Ids, gen : 1 .. MaxGen]
Snap == [id : Ids, gen : 1 .. MaxGen, env : {Absent} \cup Envelope]
Ops == {"none", "wipe_hdel", "wipe_del", "delete", "delete_rest", "retry_snap", "retry_move",
        "revive", "stranded"}
Session == [op : Ops, todo : SUBSET (Ids \cup Entry), snap : {Absent} \cup Snap,
            hand : Seq(DeadEntry)]

(* A session holds what its operation has read, and dead entries only if   *)
(* it revives them.                                                        *)
SessionOK(s) ==
    /\ s.op \in {"wipe_hdel", "delete", "delete_rest"} => s.todo \subseteq Ids
    /\ s.op \in {"retry_snap", "retry_move"} => s.todo \subseteq Entry
    /\ s.op = "retry_move" => s.snap \in Snap
    /\ s.op \notin {"revive", "stranded"} => s.hand = <<>>

Typed ==
    /\ TypeOK
    /\ run \in [Workers -> {Absent} \cup Claimed]
    /\ sweep \in {Absent} \cup [Ids -> 0 .. MaxGen]
    /\ dead \in Seq(DeadEntry) /\ gone \subseteq DeadEntry
    /\ forgotten \subseteq Ids /\ unlisted \subseteq Ids
    /\ tool \in [Tools -> Session] /\ \A t \in Tools : SessionOK(tool[t])

(* An id whose payload nobody deleted is in one place, and stored.         *)
ListedStored == \A i \in Ids \ forgotten : Listed(i) <= 1 /\ (Listed(i) > 0 => Stored(i))

Placed == ListedStored /\ OrphansExplained

Distinct(s) == \A i, k \in 1 .. Len(s) : s[i] = s[k] => i = k
Disjoint(A, B) == \A x \in A : x \notin B

(* A dead entry is numbered, and in one hand once: on the dead list, with  *)
(* a session, or gone.                                                     *)
Buried ==
    /\ Distinct(dead) /\ Disjoint(ToSet(dead), gone)
    /\ \A e \in ToSet(dead) \cup gone : e.n <= kills
    /\ \A t \in Tools :
          /\ Distinct(tool[t].hand)
          /\ Disjoint(ToSet(tool[t].hand), ToSet(dead)) /\ Disjoint(ToSet(tool[t].hand), gone)
          /\ \A e \in ToSet(tool[t].hand) : e.n <= kills
          /\ \A u \in Tools : t # u => Disjoint(ToSet(tool[t].hand), ToSet(tool[u].hand))

(* One enqueue, one kind of job: all copies of an envelope agree, wherever *)
(* they are kept.                                                          *)
Agrees(kind, e) == e # Absent => e.gen <= gen /\ e.scheduled = kind[e.gen]

Dates(kind) ==
    /\ \A i \in Ids : Agrees(kind, payload[i])
    /\ \A w \in Workers :
          run[w] # Absent => Agrees(kind, run[w].env) /\ Agrees(kind, run[w].read)
    /\ \A e \in Kept : Agrees(kind, e.env)
    /\ sweep # Absent => \A i \in Ids : sweep[i] # 0 =>
          /\ sweep[i] <= gen
          /\ age[sweep[i]] = 2 \/ (age[sweep[i]] = 1 /\ ~kind[sweep[i]])

(* What the cleanup collected had expired when it was read.                *)
Dated == \E kind \in [1 .. MaxGen -> BOOLEAN] : Dates(kind)

Inv == Typed /\ Placed /\ Buried /\ Dated

-----------------------------------------------------------------------------
(* Sequences without repetition.                                           *)

(* The elements of a sequence.                                             *)
LEMMA Elements ==
    ASSUME NEW S, NEW s \in Seq(S)
    PROVE  /\ ToSet(s) \subseteq S
           /\ \A x : x \in ToSet(s) <=> \E i \in 1 .. Len(s) : s[i] = x
           /\ ToSet(<<>>) = {} /\ Distinct(<<>>)
  BY DEF ToSet, Distinct

(* What follows the head of a sequence.                                    *)
LEMMA TailElements ==
    ASSUME NEW S, NEW s \in Seq(S), s # <<>>, Distinct(s)
    PROVE  /\ Head(s) \in ToSet(s) /\ Head(s) \in S
           /\ Tail(s) \in Seq(S) /\ Distinct(Tail(s)) /\ ToSet(Tail(s)) = ToSet(s) \ {Head(s)}
<1>1. Len(s) \in Nat /\ Len(s) > 0 /\ Head(s) = s[1] /\ DOMAIN s = 1 .. Len(s)
  BY EmptySeq
<1>2. /\ Tail(s) \in Seq(S) /\ Len(Tail(s)) = Len(s) - 1
      /\ \A i \in 1 .. Len(Tail(s)) : Tail(s)[i] = s[i + 1]
      /\ DOMAIN Tail(s) = 1 .. Len(Tail(s))
  BY HeadTailProperties, LenProperties
<1>3. Head(s) \in ToSet(s) /\ Head(s) \in S
  BY <1>1 DEF ToSet
<1>4. Distinct(Tail(s))
  <2> SUFFICES ASSUME NEW i \in 1 .. Len(Tail(s)), NEW k \in 1 .. Len(Tail(s)),
                      Tail(s)[i] = Tail(s)[k]
               PROVE  i = k
    BY DEF Distinct
  <2>1. s[i + 1] = s[k + 1] /\ i + 1 \in 1 .. Len(s) /\ k + 1 \in 1 .. Len(s)
    BY <1>1, <1>2
  <2>2. i + 1 = k + 1
    BY <2>1 DEF Distinct
  <2> QED BY <2>2
<1>5. ToSet(Tail(s)) \subseteq ToSet(s) \ {Head(s)}
  <2> SUFFICES ASSUME NEW i \in 1 .. Len(Tail(s))
               PROVE  Tail(s)[i] \in ToSet(s) \ {Head(s)}
    BY <1>2 DEF ToSet
  <2>1. Tail(s)[i] = s[i + 1] /\ i + 1 \in 1 .. Len(s) /\ 1 \in 1 .. Len(s) /\ i + 1 # 1
    BY <1>1, <1>2
  <2>2. s[i + 1] # s[1]
    BY <2>1 DEF Distinct
  <2> QED BY <1>1, <2>1, <2>2 DEF ToSet
<1>6. ToSet(s) \ {Head(s)} \subseteq ToSet(Tail(s))
  <2> SUFFICES ASSUME NEW i \in 1 .. Len(s), s[i] # s[1]
               PROVE  s[i] \in ToSet(Tail(s))
    BY <1>1 DEF ToSet
  <2>1. i - 1 \in 1 .. Len(Tail(s)) /\ Tail(s)[i - 1] = s[(i - 1) + 1] /\ (i - 1) + 1 = i
    BY <1>1, <1>2
  <2> QED BY <1>2, <2>1 DEF ToSet
<1> QED BY <1>2, <1>3, <1>4, <1>5, <1>6

(* Two sequences, one after the other.                                     *)
LEMMA ConcatElements ==
    ASSUME NEW S, NEW s \in Seq(S), NEW r \in Seq(S), Distinct(s), Distinct(r),
           Disjoint(ToSet(s), ToSet(r))
    PROVE  /\ s \o r \in Seq(S) /\ Distinct(s \o r) /\ ToSet(s \o r) = ToSet(s) \cup ToSet(r)
<1>1. /\ s \o r \in Seq(S) /\ Len(s \o r) = Len(s) + Len(r)
      /\ \A i \in 1 .. Len(s) + Len(r) : (s \o r)[i] = IF i <= Len(s) THEN s[i] ELSE r[i - Len(s)]
  BY ConcatProperties
<1>2. Len(s) \in Nat /\ Len(r) \in Nat
  BY LenProperties
<1>3. ToSet(s \o r) \subseteq ToSet(s) \cup ToSet(r)
  <2> SUFFICES ASSUME NEW i \in 1 .. Len(s) + Len(r)
               PROVE  (s \o r)[i] \in ToSet(s) \cup ToSet(r)
    BY <1>1 DEF ToSet
  <2>1. CASE i <= Len(s)
    BY <1>1, <1>2, <2>1, Elements
  <2>2. CASE ~(i <= Len(s))
    <3>1. i - Len(s) \in 1 .. Len(r) /\ (s \o r)[i] = r[i - Len(s)]
      BY <1>1, <1>2, <2>2
    <3> QED BY <3>1, Elements
  <2> QED BY <2>1, <2>2
<1>4. ToSet(s) \cup ToSet(r) \subseteq ToSet(s \o r)
  <2>1. ASSUME NEW i \in 1 .. Len(s) PROVE s[i] \in ToSet(s \o r)
    <3>1. i \in 1 .. Len(s \o r) /\ (s \o r)[i] = s[i]
      BY <1>1, <1>2
    <3> QED BY <1>1, <3>1, Elements
  <2>2. ASSUME NEW i \in 1 .. Len(r) PROVE r[i] \in ToSet(s \o r)
    <3>1. i + Len(s) \in 1 .. Len(s) + Len(r) /\ ~(i + Len(s) <= Len(s))
          /\ (i + Len(s)) - Len(s) = i
      BY <1>2
    <3>2. i + Len(s) \in 1 .. Len(s \o r) /\ (s \o r)[i + Len(s)] = r[i]
      BY <1>1, <3>1
    <3> QED BY <1>1, <3>2, Elements
  <2> QED BY <2>1, <2>2, Elements
<1>5. Distinct(s \o r)
  <2> SUFFICES ASSUME NEW i \in 1 .. Len(s) + Len(r), NEW k \in 1 .. Len(s) + Len(r),
                      (s \o r)[i] = (s \o r)[k]
               PROVE  i = k
    BY <1>1 DEF Distinct
  <2>1. CASE i <= Len(s) /\ k <= Len(s)
    BY <1>1, <1>2, <2>1 DEF Distinct
  <2>2. CASE ~(i <= Len(s)) /\ ~(k <= Len(s))
    <3>1. i - Len(s) \in 1 .. Len(r) /\ k - Len(s) \in 1 .. Len(r)
          /\ r[i - Len(s)] = r[k - Len(s)]
      BY <1>1, <1>2, <2>2
    <3>2. i - Len(s) = k - Len(s)
      BY <3>1 DEF Distinct
    <3> QED BY <1>2, <3>2
  <2>3. CASE i <= Len(s) /\ ~(k <= Len(s))
    <3>1. i \in 1 .. Len(s) /\ k - Len(s) \in 1 .. Len(r) /\ s[i] = r[k - Len(s)]
      BY <1>1, <1>2, <2>3
    <3> QED BY <3>1, Elements DEF Disjoint
  <2>4. CASE ~(i <= Len(s)) /\ k <= Len(s)
    <3>1. k \in 1 .. Len(s) /\ i - Len(s) \in 1 .. Len(r) /\ s[k] = r[i - Len(s)]
      BY <1>1, <1>2, <2>4
    <3> QED BY <3>1, Elements DEF Disjoint
  <2> QED BY <2>1, <2>2, <2>3, <2>4
<1> QED BY <1>1, <1>3, <1>4, <1>5

(* The beginning of a sequence.                                            *)
LEMMA PrefixElements ==
    ASSUME NEW S, NEW s \in Seq(S), NEW n \in Nat, n <= Len(s), Distinct(s)
    PROVE  /\ SubSeq(s, 1, n) \in Seq(S) /\ Distinct(SubSeq(s, 1, n))
           /\ ToSet(SubSeq(s, 1, n)) \subseteq ToSet(s)
<1>1. /\ SubSeq(s, 1, n) \in Seq(S) /\ Len(SubSeq(s, 1, n)) = n
      /\ \A i \in 1 .. n : SubSeq(s, 1, n)[i] = s[i] /\ i \in 1 .. Len(s)
  <2>1. Len(s) \in Nat
    BY LenProperties
  <2>2. 1 .. n \subseteq 1 .. Len(s)
    BY <2>1
  <2>3. /\ SubSeq(s, 1, n) = [i \in 1 .. n |-> s[i]]
    BY <2>1, <2>2
  <2>4. [i \in 1 .. n |-> s[i]] \in Seq(S) /\ Len([i \in 1 .. n |-> s[i]]) = n
    BY <2>1, <2>2
  <2> QED BY <2>2, <2>3, <2>4
<1> DEFINE r == SubSeq(s, 1, n)
<1> HIDE DEF r
<1>2. r \in Seq(S) /\ Len(r) = n /\ \A i \in 1 .. n : r[i] = s[i] /\ i \in 1 .. Len(s)
  BY <1>1 DEF r
<1>3. Distinct(r)
  BY <1>2 DEF Distinct
<1>4. ToSet(r) \subseteq ToSet(s)
  <2> SUFFICES ASSUME NEW x \in ToSet(r) PROVE x \in ToSet(s)
    OBVIOUS
  <2>1. PICK i \in 1 .. n : r[i] = x
    BY <1>2, Elements
  <2>2. i \in 1 .. Len(s) /\ s[i] = x
    BY <1>2, <2>1
  <2> QED BY <2>2, Elements
<1> QED BY <1>2, <1>3, <1>4 DEF r

(* A sequence of one.                                                      *)
LEMMA OneElement ==
    ASSUME NEW S, NEW x \in S
    PROVE  <<x>> \in Seq(S) /\ Distinct(<<x>>) /\ ToSet(<<x>>) = {x}
<1> DEFINE s == <<x>>
<1>1. s \in Seq(S) /\ Len(s) = 1 /\ s[1] = x
  OBVIOUS
<1> HIDE DEF s
<1>2. \A i \in 1 .. 1 : i = 1
  OBVIOUS
<1>3. Distinct(s)
  BY <1>1, <1>2 DEF Distinct
<1>4. \A y : y \in ToSet(s) <=> y = x
  <2>1. \A y : y \in ToSet(s) <=> \E i \in 1 .. 1 : s[i] = y
    BY <1>1, Elements
  <2> QED BY <1>1, <1>2, <2>1
<1> QED BY <1>1, <1>3, <1>4 DEF s

-----------------------------------------------------------------------------
(* Types.                                                                  *)

(* What the assumption says of the constants.                              *)
LEMMA Constants ==
    /\ IsFiniteSet(Workers) /\ DeadLimit \in Nat /\ MaxGen \in Nat /\ MaxOps \in Nat
    /\ MaxErrors \in Nat /\ Absent \notin Nat /\ Absent \notin Envelope /\ Absent \notin Claimed
    /\ Absent \notin [Ids -> 0 .. MaxGen]
  BY MaintenanceAssumption DEF MaintenanceAssumption

(* The types, one by one.                                                  *)
LEMMA TypesOf ==
    ASSUME Typed
    PROVE  /\ payload \in [Ids -> {Absent} \cup Envelope] /\ queue \in [Ids -> Nat]
           /\ retry \in [Ids -> {Absent} \cup 1 .. MaxGen] /\ gen \in 0 .. MaxGen /\ gen \in Nat
           /\ kills \in Nat
           /\ run \in [Workers -> {Absent} \cup Claimed] /\ dead \in Seq(DeadEntry)
           /\ tool \in [Tools -> Session] /\ \A t \in Tools : SessionOK(tool[t])
<1>1. gen \in 0 .. MaxGen /\ MaxGen \in Nat
  BY Constants DEF Typed, TypeOK
<1>2. gen \in Nat
  BY <1>1
<1> QED BY <1>1, <1>2 DEF Typed, TypeOK

(* Settled histories are histories of ids.                                 *)
LEMMA SettleType ==
    ASSUME NEW set \in SUBSET Ids
    PROVE  Settle(set) \subseteq Ids
  BY DEF Settle

(* A session that changes keeps the types of all.                          *)
LEMMA SessionType ==
    ASSUME Typed, NEW t \in Tools, NEW s \in Session, SessionOK(s),
           tool' = [tool EXCEPT ![t] = s]
    PROVE  tool' \in [Tools -> Session] /\ \A u \in Tools : SessionOK(tool'[u])
<1>1. \A u \in Tools : tool'[u] = IF u = t THEN s ELSE tool[u]
  BY DEF Typed
<1> QED BY <1>1 DEF Typed

(* The states of a session.                                                *)
LEMMA SessionForms ==
    ASSUME NEW op, NEW todo, NEW snap, NEW hand
    PROVE  LET s == [op |-> op, todo |-> todo, snap |-> snap, hand |-> hand]
           IN  /\ s.op = op /\ s.todo = todo /\ s.snap = snap /\ s.hand = hand
               /\ (/\ op \in Ops /\ todo \in SUBSET (Ids \cup Entry)
                   /\ snap \in {Absent} \cup Snap /\ hand \in Seq(DeadEntry)) => s \in Session
  BY DEF Session

(* A session at rest.                                                      *)
LEMMA QuietType ==
    Quiet \in Session /\ SessionOK(Quiet) /\ Quiet.hand = <<>> /\ Quiet.op = "none"
<1>1. <<>> \in Seq(DeadEntry)
  BY EmptySeq
<1> QED BY <1>1 DEF Quiet, Session, SessionOK, Ops

(* The types of an envelope.                                               *)
LEMMA EnvelopeType ==
    ASSUME NEW g \in 1 .. MaxGen
    PROVE  /\ [gen |-> g, retries |-> 0, scheduled |-> FALSE] \in Envelope
           /\ [gen |-> g, retries |-> 0, scheduled |-> TRUE] \in Envelope
<1>1. 0 \in 0 .. 1
  OBVIOUS
<1> QED BY <1>1 DEF Envelope

(* A promoted entry.                                                       *)
LEMMA MovedType ==
    ASSUME Typed, NEW i \in Ids, Moved(i)
    PROVE  queue' \in [Ids -> Nat] /\ retry' \in [Ids -> {Absent} \cup 1 .. MaxGen]
<1>1. retry' = [retry EXCEPT ![i] = Absent] /\ (Push(i) \/ queue' = queue)
  BY DEF Moved
<1>2. retry' \in [Ids -> {Absent} \cup 1 .. MaxGen]
  BY <1>1, TypesOf
<1>3. [queue EXCEPT ![i] = @ + 1] \in [Ids -> Nat]
  BY TypesOf
<1> QED BY <1>1, <1>2, <1>3, TypesOf DEF Push

(* The cleanup loop.                                                       *)
LEMMA TypedCleanup ==
    ASSUME Typed, Cleanup
    PROVE  Typed'
<1>1. CASE CleanupScan /\ UNCHANGED age
  <2>1. \A j \in Ids : Stored(j) => payload[j].gen \in 0 .. MaxGen
    <3>1. \A e \in Envelope : e.gen \in 1 .. MaxGen
      BY DEF Envelope
    <3>2. \A g \in 1 .. MaxGen : g \in 0 .. MaxGen
      BY Constants
    <3> QED BY <3>1, <3>2, TypesOf DEF Stored
  <2>2. sweep' \in [Ids -> 0 .. MaxGen]
    <3>1. 0 \in 0 .. MaxGen
      BY Constants
    <3> QED BY <1>1, <2>1, <3>1 DEF CleanupScan
  <2> QED BY <1>1, <2>2 DEF CleanupScan, Typed, TypeOK
<1>2. CASE CleanupDelete /\ UNCHANGED age
  <2>1. payload' \in [Ids -> {Absent} \cup Envelope] /\ sweep' = Absent
    BY <1>2, TypesOf DEF CleanupDelete
  <2>2. forgotten' \subseteq Ids /\ unlisted' \subseteq Ids
    BY <1>2, SettleType DEF CleanupDelete, Typed
  <2> QED BY <1>2, <2>1, <2>2 DEF CleanupDelete, Typed, TypeOK
<1> QED BY <1>1, <1>2 DEF Cleanup

(* Producers, the promoter and the clock.                                  *)
LEMMA TypedOutside ==
    ASSUME Typed, NEW i \in Ids,
           \/ (Enqueue(i) \/ EnqueueAt(i) \/ Promote(i)) /\ UNCHANGED age
           \/ Age(i)
    PROVE  Typed'
<1>1. CASE Enqueue(i) /\ UNCHANGED age
  <2>1. gen' \in 1 .. MaxGen /\ gen' \in 0 .. MaxGen
    BY <1>1, TypesOf, Constants DEF Enqueue
  <2>2. [gen |-> gen', retries |-> 0, scheduled |-> FALSE] \in Envelope
    BY <2>1, EnvelopeType
  <2>3. payload' \in [Ids -> {Absent} \cup Envelope]
    BY <1>1, <2>2, TypesOf DEF Enqueue, EnqueueEnvelope
  <2>4. queue' \in [Ids -> Nat]
    BY <1>1, TypesOf DEF Enqueue, EnqueueEnvelope, Push
  <2> QED BY <1>1, <2>1, <2>3, <2>4 DEF Enqueue, Typed, TypeOK
<1>2. CASE EnqueueAt(i) /\ UNCHANGED age
  <2>1. gen' \in 1 .. MaxGen /\ gen' \in 0 .. MaxGen
    BY <1>2, TypesOf, Constants DEF EnqueueAt
  <2>2. [gen |-> gen', retries |-> 0, scheduled |-> TRUE] \in Envelope
    BY <2>1, EnvelopeType
  <2>3. payload' \in [Ids -> {Absent} \cup Envelope]
    BY <1>2, <2>2, TypesOf DEF EnqueueAt
  <2>4. retry' \in [Ids -> {Absent} \cup 1 .. MaxGen]
    BY <1>2, <2>1, TypesOf DEF EnqueueAt
  <2> QED BY <1>2, <2>1, <2>3, <2>4 DEF EnqueueAt, Typed, TypeOK
<1>3. CASE Promote(i) /\ UNCHANGED age
  <2>1. queue' \in [Ids -> Nat] /\ retry' \in [Ids -> {Absent} \cup 1 .. MaxGen]
    BY <1>3, MovedType DEF Promote
  <2>2. forgotten' \subseteq Ids /\ unlisted' \subseteq Ids
    BY <1>3, SettleType DEF Promote, Typed
  <2> QED BY <1>3, <2>1, <2>2 DEF Promote, Typed, TypeOK
<1>4. CASE Age(i)
  <2>0. age \in [1 .. MaxGen -> 0 .. 2] /\ payload[i].gen \in 1 .. MaxGen
    BY <1>4, TypesOf DEF Age, Typed, TypeOK, Stored, Envelope
  <2>1. age[payload[i].gen] < 2
    <3>1. age[payload[i].gen] \in 0 .. 2
      BY <2>0
    <3>2. age[payload[i].gen] < 2 \/ age[payload[i].gen] < 1
      BY <1>4 DEF Age
    <3> QED BY <3>1, <3>2
  <2>2. age' \in [1 .. MaxGen -> 0 .. 2]
    BY <1>4, <2>0, <2>1 DEF Age
  <2> QED BY <1>4, <2>2 DEF Age, Typed, TypeOK
<1> QED BY <1>1, <1>2, <1>3, <1>4

(* Workers.                                                                *)
LEMMA TypedWorker ==
    ASSUME Typed, NEW w \in Workers, WorkerStep(w), UNCHANGED age
    PROVE  Typed'
<1>0. /\ run[w] # Absent => run[w] \in Claimed /\ run[w].id \in Ids
      /\ \A i \in Ids : payload[i] # Absent => payload[i] \in Envelope /\ payload[i].gen \in 1 .. MaxGen
      /\ Absent \notin Claimed
  BY TypesOf, Constants DEF Claimed, Envelope
<1>1. CASE Claim(w)
  <2>1. PICK i \in Ids : /\ queue[i] > 0 /\ queue' = [queue EXCEPT ![i] = @ - 1]
                         /\ run' = [run EXCEPT ![w] = [id |-> i, env |-> Absent, read |-> Absent]]
    BY <1>1 DEF Claim, Queued
  <2>2. queue' \in [Ids -> Nat]
    BY <2>1, TypesOf
  <2>3. [id |-> i, env |-> Absent, read |-> Absent] \in Claimed
    BY DEF Claimed
  <2>4. run' \in [Workers -> {Absent} \cup Claimed]
    BY <2>1, <2>3, TypesOf
  <2> QED BY <1>1, <2>2, <2>4 DEF Claim, Typed, TypeOK
<1>2. CASE Load(w)
  <2>1. run' \in [Workers -> {Absent} \cup Claimed]
    <3>1. CASE Stored(run[w].id)
      <4>1. [run[w] EXCEPT !.env = payload[run[w].id]] \in Claimed
        BY <1>0, <1>2, <3>1 DEF Load, Claimed, Stored
      <4> QED BY <1>2, <3>1, <4>1, TypesOf DEF Load
    <3>2. CASE ~Stored(run[w].id)
      BY <1>2, <3>2, TypesOf DEF Load, Release
    <3> QED BY <3>1, <3>2
  <2>2. forgotten' \subseteq Ids /\ unlisted' \subseteq Ids
    BY <1>2, SettleType DEF Load, Typed
  <2> QED BY <1>2, <2>1, <2>2 DEF Load, Typed, TypeOK
<1>3. CASE StateRead(w)
  <2>1. [run[w] EXCEPT !.read = payload[run[w].id]] \in Claimed
    BY <1>0, <1>3 DEF StateRead, Claimed, Stored, Running
  <2>2. run' \in [Workers -> {Absent} \cup Claimed]
    BY <1>3, <2>1, TypesOf DEF StateRead
  <2> QED BY <1>3, <2>2 DEF StateRead, Typed, TypeOK
<1>4. CASE StateWrite(w)
  <2>1. [run[w] EXCEPT !.read = Absent] \in Claimed /\ run[w].read \in Envelope
    BY <1>0, <1>4 DEF StateWrite, Claimed, Running
  <2>2. run' \in [Workers -> {Absent} \cup Claimed]
    BY <1>4, <2>1, TypesOf DEF StateWrite
  <2>3. payload' \in [Ids -> {Absent} \cup Envelope]
    BY <1>0, <1>4, <2>1, TypesOf DEF StateWrite, Running
  <2> QED BY <1>4, <2>2, <2>3 DEF StateWrite, Typed, TypeOK
<1>5. CASE Finish(w)
  <2>1. run' \in [Workers -> {Absent} \cup Claimed] /\ payload' \in [Ids -> {Absent} \cup Envelope]
    BY <1>5, TypesOf DEF Finish, Release
  <2>2. forgotten' \subseteq Ids /\ unlisted' \subseteq Ids
    BY <1>5, SettleType DEF Finish, Typed
  <2> QED BY <1>5, <2>1, <2>2 DEF Finish, Typed, TypeOK
<1>6. CASE Retry(w)
  <2>1. run' \in [Workers -> {Absent} \cup Claimed]
    BY <1>6, TypesOf DEF Retry, Release
  <2>2. payload' \in [Ids -> {Absent} \cup Envelope] /\ retry' \in [Ids -> {Absent} \cup 1 .. MaxGen]
    <3>1. CASE Stored(run[w].id)
      <4>1. [payload[run[w].id] EXCEPT !.retries = 1] \in Envelope
        BY <1>0, <1>6, <3>1 DEF Retry, Envelope, Stored, Done, Running
      <4>2. payload' = [payload EXCEPT ![run[w].id] = [payload[run[w].id] EXCEPT !.retries = 1]]
        BY <1>6, <3>1 DEF Retry
      <4>3. retry' = [retry EXCEPT ![run[w].id] = payload[run[w].id].gen]
        BY <1>6, <3>1 DEF Retry
      <4>4. payload[run[w].id].gen \in 1 .. MaxGen
        BY <1>0, <1>6, <3>1 DEF Stored, Retry, Done, Running
      <4> QED BY <4>1, <4>2, <4>3, <4>4, TypesOf
    <3>2. CASE ~Stored(run[w].id)
      BY <1>6, <3>2, TypesOf DEF Retry
    <3> QED BY <3>1, <3>2
  <2>3. forgotten' \subseteq Ids /\ unlisted' \subseteq Ids
    BY <1>6, SettleType DEF Retry, Typed
  <2> QED BY <1>6, <2>1, <2>2, <2>3 DEF Retry, Typed, TypeOK
<1>7. CASE Kill(w)
  <2> DEFINE e == [id |-> run[w].id, n |-> kills', env |-> run[w].env]
             longer == <<e>> \o dead
  <2>1. /\ kills' = kills + 1 /\ run' = [run EXCEPT ![w] = Absent]
        /\ payload' = [payload EXCEPT ![run[w].id] = Absent]
        /\ dead' = IF DeadLimit = 0 \/ Len(longer) <= DeadLimit THEN longer
                   ELSE SubSeq(longer, 1, DeadLimit)
        /\ gone' = gone \cup (ToSet(longer) \ ToSet(dead'))
    BY <1>7 DEF Kill, Release
  <2>2. e \in DeadEntry
    BY <1>0, <1>7, <2>1, TypesOf DEF Kill, Done, Running, DeadEntry, Claimed
  <2> HIDE DEF e
  <2>3. longer \in Seq(DeadEntry)
    BY <2>2, TypesOf
  <2> HIDE DEF longer
  <2>4. dead' \in Seq(DeadEntry)
    <3>1. CASE DeadLimit = 0 \/ Len(longer) <= DeadLimit
      BY <2>1, <2>3, <3>1
    <3>2. CASE ~(DeadLimit = 0 \/ Len(longer) <= DeadLimit)
      <4>1. DeadLimit <= Len(longer) /\ 1 <= DeadLimit
        BY <2>3, <3>2, Constants, LenProperties
      <4>2. SubSeq(longer, 1, DeadLimit) \in Seq(DeadEntry)
        BY <2>3, <4>1, Constants, SubSeqProperties
      <4> QED BY <2>1, <3>2, <4>2
    <3> QED BY <3>1, <3>2
  <2>5. gone' \subseteq DeadEntry
    BY <2>1, <2>3, Elements DEF Typed
  <2>6. /\ run' \in [Workers -> {Absent} \cup Claimed] /\ kills' \in Nat
        /\ payload' \in [Ids -> {Absent} \cup Envelope]
    <3>1. kills' \in Nat
      BY <2>1, TypesOf
    <3>2. run' \in [Workers -> {Absent} \cup Claimed]
      BY <2>1, TypesOf
    <3>3. payload' \in [Ids -> {Absent} \cup Envelope]
      BY <2>1, TypesOf
    <3> QED BY <3>1, <3>2, <3>3
  <2>7. forgotten' \subseteq Ids /\ unlisted' \subseteq Ids
    BY <1>7, SettleType DEF Kill, Typed
  <2> QED BY <1>7, <2>4, <2>5, <2>6, <2>7 DEF Kill, Typed, TypeOK
<1> QED BY <1>1, <1>2, <1>3, <1>4, <1>5, <1>6, <1>7 DEF WorkerStep

(* The session that Set writes.                                            *)
LEMMA SetType ==
    ASSUME Typed, NEW t \in Tools, NEW op \in Ops, NEW todo \in SUBSET (Ids \cup Entry),
           NEW snap \in {Absent} \cup Snap, NEW hand \in Seq(DeadEntry),
           op \in {"wipe_hdel", "delete", "delete_rest"} => todo \subseteq Ids,
           op \in {"retry_snap", "retry_move"} => todo \subseteq Entry,
           op = "retry_move" => snap \in Snap,
           op \notin {"revive", "stranded"} => hand = <<>>,
           Set(t, op, todo, snap, hand)
    PROVE  tool' \in [Tools -> Session] /\ \A u \in Tools : SessionOK(tool'[u])
<1> DEFINE s == [op |-> op, todo |-> todo, snap |-> snap, hand |-> hand]
<1>1. tool' = [tool EXCEPT ![t] = s]
  BY DEF Set
<1>2. s \in Session /\ SessionOK(s)
  BY DEF Session, SessionOK
<1> HIDE DEF s
<1> QED BY <1>1, <1>2, SessionType

(* The end of an operation.                                                *)
LEMMA EndType ==
    ASSUME Typed, NEW t \in Tools, End(t)
    PROVE  tool' \in [Tools -> Session] /\ \A u \in Tools : SessionOK(tool'[u])
  BY SessionType, QuietType DEF End

(* What a session holds at each point.                                     *)
LEMMA SessionFacts ==
    ASSUME Typed, NEW t \in Tools
    PROVE  /\ tool[t].op \in Ops /\ tool[t].hand \in Seq(DeadEntry)
           /\ tool[t].op \in {"wipe_hdel", "delete", "delete_rest"} => tool[t].todo \subseteq Ids
           /\ tool[t].op \in {"retry_snap", "retry_move"} => tool[t].todo \subseteq Entry
           /\ tool[t].op = "retry_move" => tool[t].snap \in Snap
           /\ tool[t].op \notin {"revive", "stranded"} => tool[t].hand = <<>>
           /\ <<>> \in Seq(DeadEntry)
<1>1. <<>> \in Seq(DeadEntry)
  BY EmptySeq
<1> QED BY <1>1, TypesOf DEF Session, SessionOK

(* One operation more is within its bound.                                 *)
LEMMA OpsType ==
    ASSUME Typed, NEW t \in Tools, Free(t)
    PROVE  ops' \in 0 .. MaxOps
<1>1. ops \in 0 .. MaxOps /\ MaxOps \in Nat /\ ops < MaxOps /\ ops' = ops + 1
  BY Constants DEF Typed, TypeOK, Free
<1> QED BY <1>1

(* Tools that begin.                                                       *)
LEMMA TypedBegins ==
    ASSUME Typed, NEW t \in Tools, ToolBegins(t), UNCHANGED age
    PROVE  Typed'
<1>0. Free(t)
  BY DEF ToolBegins, WipeRead, WipeDead, RetryAllRead, ReviveClaim, DeleteRead
<1>1. CASE WipeRead(t)
  <2>1. Queued \in SUBSET (Ids \cup Entry) /\ Queued \subseteq Ids
    BY DEF Queued
  <2>2. tool' \in [Tools -> Session] /\ \A u \in Tools : SessionOK(tool'[u])
    BY <1>1, <2>1, SetType, SessionFacts DEF WipeRead, Ops
  <2> QED BY <1>0, <1>1, <2>2, OpsType DEF WipeRead, Typed, TypeOK, jobVars, Still
<1>2. CASE WipeDead(t)
  <2>1. dead' \in Seq(DeadEntry) /\ gone' \subseteq DeadEntry
    BY <1>2, Elements, SessionFacts, TypesOf DEF WipeDead, Typed
  <2> QED BY <1>0, <1>2, <2>1, OpsType DEF WipeDead, Typed, TypeOK
<1>3. CASE RetryAllRead(t)
  <2>1. Entries \subseteq Entry
    BY TypesOf DEF Entries, Entry
  <2>2. tool' \in [Tools -> Session] /\ \A u \in Tools : SessionOK(tool'[u])
    BY <1>3, <2>1, SetType, SessionFacts DEF RetryAllRead, Ops
  <2> QED BY <1>0, <1>3, <2>2, OpsType DEF RetryAllRead, Typed, TypeOK, jobVars, Still
<1>4. CASE ReviveClaim(t)
  <2>1. tool' \in [Tools -> Session] /\ \A u \in Tools : SessionOK(tool'[u])
    BY <1>4, SetType, TypesOf DEF ReviveClaim, Ops
  <2>2. dead' \in Seq(DeadEntry)
    BY <1>4, SessionFacts DEF ReviveClaim
  <2> QED BY <1>0, <1>4, <2>1, <2>2, OpsType DEF ReviveClaim, Typed, TypeOK, Still
<1>5. ASSUME NEW i \in Ids, DeleteRead(t, i) PROVE Typed'
  <2>1. tool' \in [Tools -> Session] /\ \A u \in Tools : SessionOK(tool'[u])
    BY <1>5, SetType, SessionFacts DEF DeleteRead, Ops
  <2> QED BY <1>0, <1>5, <2>1, OpsType DEF DeleteRead, Typed, TypeOK, jobVars, Still
<1> QED BY <1>1, <1>2, <1>3, <1>4, <1>5 DEF ToolBegins

(* One error more is within its bound.                                     *)
LEMMA ErrorsType ==
    ASSUME Typed, errors < MaxErrors, errors' = errors + 1
    PROVE  errors' \in 0 .. MaxErrors
<1>1. errors \in 0 .. MaxErrors /\ MaxErrors \in Nat
  BY Constants DEF Typed, TypeOK
<1> QED BY <1>1

(* Tools that go on.                                                       *)
LEMMA TypedTool ==
    ASSUME Typed, NEW t \in Tools, ToolStep(t), UNCHANGED age
    PROVE  Typed'
<1>1. CASE WipePayloads(t)
  <2>1. tool[t].todo \subseteq Ids /\ payload' \in [Ids -> {Absent} \cup Envelope]
    BY <1>1, SessionFacts, TypesOf DEF WipePayloads, At
  <2>2. tool' \in [Tools -> Session] /\ \A u \in Tools : SessionOK(tool'[u])
    BY <1>1, SetType, SessionFacts DEF WipePayloads, Ops
  <2>3. forgotten' \subseteq Ids /\ unlisted' \subseteq Ids
    BY <1>1, <2>1, SettleType DEF WipePayloads, Typed
  <2> QED BY <1>1, <2>1, <2>2, <2>3 DEF WipePayloads, Typed, TypeOK
<1>2. CASE WipeList(t)
  <2>1. queue' \in [Ids -> Nat]
    BY <1>2 DEF WipeList
  <2>2. tool' \in [Tools -> Session] /\ \A u \in Tools : SessionOK(tool'[u])
    BY <1>2, EndType DEF WipeList
  <2>3. forgotten' \subseteq Ids /\ unlisted' \subseteq Ids
    BY <1>2, SettleType DEF WipeList, Typed, Queued
  <2> QED BY <1>2, <2>1, <2>2, <2>3 DEF WipeList, Typed, TypeOK
<1>3. CASE DeleteJob(t)
  <2>1. tool[t].todo \subseteq Ids
    BY <1>3, SessionFacts DEF DeleteJob
  <2>2. PICK i \in Ids : /\ payload' = [payload EXCEPT ![i] = Absent]
                         /\ retry' = [retry EXCEPT ![i] = Absent]
                         /\ queue' = [queue EXCEPT ![i] = 0] \/ queue' = queue
    BY <1>3, <2>1 DEF DeleteJob
  <2>3. payload' \in [Ids -> {Absent} \cup Envelope]
    BY <2>2, TypesOf
  <2>4. retry' \in [Ids -> {Absent} \cup 1 .. MaxGen]
    BY <2>2, TypesOf
  <2>5. queue' \in [Ids -> Nat]
    BY <2>2, TypesOf
  <2>6. tool' \in [Tools -> Session] /\ \A u \in Tools : SessionOK(tool'[u])
    BY <1>3, EndType DEF DeleteJob
  <2>7. forgotten' \subseteq Ids /\ unlisted' \subseteq Ids
    BY <1>3, <2>1, SettleType DEF DeleteJob, Typed
  <2> QED BY <1>3, <2>3, <2>4, <2>5, <2>6, <2>7 DEF DeleteJob, Typed, TypeOK
<1>4. CASE RetryAllSnapshot(t)
  <2>1. tool' \in [Tools -> Session] /\ \A u \in Tools : SessionOK(tool'[u])
    <3>1. CASE End(t)
      BY <3>1, EndType
    <3>2. ASSUME NEW e \in tool[t].todo,
                 Set(t, "retry_move", tool[t].todo \ {e},
                     [id |-> e.id, gen |-> e.gen, env |-> payload[e.id]], <<>>)
          PROVE  tool' \in [Tools -> Session] /\ \A u \in Tools : SessionOK(tool'[u])
      <4>1. tool[t].todo \subseteq Entry
        BY <1>4, SessionFacts DEF RetryAllSnapshot, At
      <4>2. [id |-> e.id, gen |-> e.gen, env |-> payload[e.id]] \in Snap
        BY <4>1, TypesOf DEF Entry, Snap
      <4> QED BY <3>2, <4>1, <4>2, SetType, SessionFacts DEF Ops
    <3> QED BY <1>4, <3>1, <3>2 DEF RetryAllSnapshot
  <2> QED BY <1>4, <2>1 DEF RetryAllSnapshot, jobVars, Still, Typed, TypeOK
<1>5. CASE RetryAllMove(t)
  <2>1. tool[t].snap \in Snap /\ tool[t].todo \subseteq Entry /\ tool[t].snap.id \in Ids
    BY <1>5, SessionFacts DEF RetryAllMove, At, Snap
  <2>2. tool' \in [Tools -> Session] /\ \A u \in Tools : SessionOK(tool'[u])
    BY <1>5, <2>1, SetType, SessionFacts DEF RetryAllMove, Ops
  <2>3. queue' \in [Ids -> Nat] /\ retry' \in [Ids -> {Absent} \cup 1 .. MaxGen]
    <3>1. Moved(tool[t].snap.id) \/ UNCHANGED <<queue, retry>>
      BY <1>5 DEF RetryAllMove
    <3> QED BY <2>1, <3>1, MovedType, TypesOf
  <2>4. forgotten' \subseteq Ids /\ unlisted' \subseteq Ids
    BY <1>5, SettleType DEF RetryAllMove, Typed
  <2> QED BY <1>5, <2>2, <2>3, <2>4 DEF RetryAllMove, Typed, TypeOK
<1>6. CASE ReviveEnqueue(t)
  <2> DEFINE e == Head(tool[t].hand)
  <2>1. e \in DeadEntry /\ Tail(tool[t].hand) \in Seq(DeadEntry)
    BY <1>6, SessionFacts, HeadTailProperties DEF ReviveEnqueue
  <2>2. tool' \in [Tools -> Session] /\ \A u \in Tools : SessionOK(tool'[u])
    BY <1>6, <2>1, SetType DEF ReviveEnqueue, Ops
  <2>3. e.id \in Ids /\ e.env \in Envelope
    BY <2>1 DEF DeadEntry
  <2>4. \/ payload' = [payload EXCEPT ![e.id] = e.env] /\ queue' = [queue EXCEPT ![e.id] = @ + 1]
        \/ payload' = payload /\ queue' = queue
    BY <1>6 DEF ReviveEnqueue, EnqueueEnvelope, Push
  <2>5. gone' = gone \cup {e}
    BY <1>6 DEF ReviveEnqueue
  <2> HIDE DEF e
  <2>6. payload' \in [Ids -> {Absent} \cup Envelope]
    BY <2>3, <2>4, TypesOf
  <2>7. queue' \in [Ids -> Nat]
    BY <2>3, <2>4, TypesOf
  <2>8. gone' \subseteq DeadEntry
    BY <2>1, <2>5 DEF Typed
  <2> QED BY <1>6, <2>2, <2>6, <2>7, <2>8 DEF ReviveEnqueue, Typed, TypeOK
<1>7. CASE ReviveFails(t)
  <2>1. tool' \in [Tools -> Session] /\ \A u \in Tools : SessionOK(tool'[u])
    BY <1>7, EndType DEF ReviveFails
  <2>2. dead' \in Seq(DeadEntry)
    BY <1>7, SessionFacts, TypesOf, ConcatProperties DEF ReviveFails
  <2>3. errors' \in 0 .. MaxErrors
    BY <1>7, ErrorsType DEF ReviveFails
  <2> QED BY <1>7, <2>1, <2>2, <2>3 DEF ReviveFails, Typed, TypeOK
<1>8. CASE ReviveEnd(t)
  <2>1. tool' \in [Tools -> Session] /\ \A u \in Tools : SessionOK(tool'[u])
    BY <1>8, EndType DEF ReviveEnd
  <2> QED BY <1>8, <2>1 DEF ReviveEnd, Typed, TypeOK, jobVars, Still
<1>9. CASE Crash(t)
  <2>1. tool' \in [Tools -> Session] /\ \A u \in Tools : SessionOK(tool'[u])
    <3>1. CASE End(t)
      BY <3>1, EndType
    <3>2. CASE Set(t, "stranded", {}, Absent, tool[t].hand)
      BY <3>2, SetType, SessionFacts DEF Ops
    <3> QED BY <1>9, <3>1, <3>2 DEF Crash
  <2>2. errors' \in 0 .. MaxErrors
    BY <1>9, ErrorsType DEF Crash
  <2> QED BY <1>9, <2>1, <2>2 DEF Crash, Typed, TypeOK, jobVars
<1> QED BY <1>1, <1>2, <1>3, <1>4, <1>5, <1>6, <1>7, <1>8, <1>9 DEF ToolStep

-----------------------------------------------------------------------------
(* Where an id is listed.                                                  *)

Entered(i) == IF retry[i] = Absent THEN 0 ELSE 1

(* The places of an id are counted by numbers.                             *)
LEMMA ListedParts ==
    ASSUME Typed, NEW i \in Ids
    PROVE  /\ queue[i] \in Nat /\ Cardinality(Claims(i)) \in Nat /\ IsFiniteSet(Claims(i))
           /\ Entered(i) \in {0, 1} /\ (Entered(i) = 0 <=> retry[i] = Absent)
           /\ Listed(i) = queue[i] + Cardinality(Claims(i)) + Entered(i) /\ Listed(i) \in Nat
           /\ Claims(i) # {} => Cardinality(Claims(i)) > 0
<1>1. IsFiniteSet(Claims(i))
  BY Constants, FS_Subset DEF Claims
<1>2. Cardinality(Claims(i)) \in Nat /\ (Claims(i) # {} => Cardinality(Claims(i)) # 0)
  BY <1>1, FS_CardinalityType, FS_EmptySet
<1>3. queue[i] \in Nat
  BY TypesOf
<1>4. Entered(i) \in {0, 1} /\ (Entered(i) = 0 <=> retry[i] = Absent)
  BY DEF Entered
<1>5. Listed(i) = queue[i] + Cardinality(Claims(i)) + Entered(i)
  BY DEF Listed, Entered
<1> QED BY <1>1, <1>2, <1>3, <1>4, <1>5

(* The same after a step.                                                  *)
LEMMA ListedPartsPrimed ==
    ASSUME Typed', NEW i \in Ids
    PROVE  /\ queue'[i] \in Nat /\ Cardinality(Claims(i)') \in Nat
           /\ Entered(i)' \in {0, 1} /\ (Entered(i)' = 0 <=> retry'[i] = Absent)
           /\ Listed(i)' = queue'[i] + Cardinality(Claims(i)') + Entered(i)'
           /\ Listed(i)' \in Nat
           /\ Claims(i)' # {} => Cardinality(Claims(i)') > 0
<1>1. IsFiniteSet(Claims(i)')
  BY Constants, FS_Subset DEF Claims
<1>2. Cardinality(Claims(i)') \in Nat /\ (Claims(i)' # {} => Cardinality(Claims(i)') # 0)
  BY <1>1, FS_CardinalityType, FS_EmptySet
<1>3. queue'[i] \in Nat
  BY DEF Typed, TypeOK
<1>4. Entered(i)' \in {0, 1} /\ (Entered(i)' = 0 <=> retry'[i] = Absent)
  BY DEF Entered
<1>5. Listed(i)' = queue'[i] + Cardinality(Claims(i)') + Entered(i)'
  BY DEF Listed, Entered
<1> QED BY <1>1, <1>2, <1>3, <1>4, <1>5

(* A claim.                                                                *)
LEMMA ClaimTaken ==
    ASSUME Typed, NEW w \in Workers, NEW c \in Claimed, run[w] = Absent,
           run' = [run EXCEPT ![w] = c]
    PROVE  \A i \in Ids : Cardinality(Claims(i)')
                          = Cardinality(Claims(i)) + (IF i = c.id THEN 1 ELSE 0)
<1> SUFFICES ASSUME NEW i \in Ids
             PROVE  Cardinality(Claims(i)')
                    = Cardinality(Claims(i)) + (IF i = c.id THEN 1 ELSE 0)
  OBVIOUS
<1>1. c # Absent /\ run'[w] = c /\ \A v \in Workers : v # w => run'[v] = run[v]
  BY Constants, TypesOf
<1>2. w \notin Claims(i) /\ IsFiniteSet(Claims(i)) /\ Cardinality(Claims(i)) \in Nat
  BY ListedParts DEF Claims
<1>3. CASE i = c.id
  <2>1. Claims(i)' = Claims(i) \cup {w}
    BY <1>1, <1>3 DEF Claims
  <2>2. Cardinality(Claims(i) \cup {w}) = Cardinality(Claims(i)) + 1
    BY <1>2, FS_AddElement
  <2> QED BY <1>3, <2>1, <2>2
<1>4. CASE i # c.id
  <2>1. Claims(i)' = Claims(i)
    BY <1>1, <1>2, <1>4 DEF Claims
  <2> QED BY <1>2, <1>4, <2>1
<1> QED BY <1>3, <1>4

(* A claim is let go.                                                      *)
LEMMA ClaimReleased ==
    ASSUME Typed, NEW w \in Workers, run[w] # Absent, Release(w)
    PROVE  /\ run[w].id \in Ids /\ w \in Claims(run[w].id)
           /\ Cardinality(Claims(run[w].id)) > 0
           /\ Cardinality(Claims(run[w].id)) \in Nat
           /\ \A i \in Ids : Cardinality(Claims(i)')
                             = Cardinality(Claims(i)) - (IF i = run[w].id THEN 1 ELSE 0)
<1>0. run[w].id \in Ids /\ w \in Claims(run[w].id)
  BY TypesOf DEF Claims, Claimed
<1>1. run'[w] = Absent /\ \A v \in Workers : v # w => run'[v] = run[v]
  BY TypesOf DEF Release
<1>2. ASSUME NEW i \in Ids
      PROVE  Cardinality(Claims(i)')
             = Cardinality(Claims(i)) - (IF i = run[w].id THEN 1 ELSE 0)
  <2>1. IsFiniteSet(Claims(i)) /\ Cardinality(Claims(i)) \in Nat
    BY ListedParts
  <2>2. CASE i = run[w].id
    <3>1. Claims(i)' = Claims(i) \ {w} /\ w \in Claims(i)
      BY <1>0, <1>1, <2>2 DEF Claims
    <3>2. Cardinality(Claims(i) \ {w}) = Cardinality(Claims(i)) - 1
      BY <2>1, <3>1, FS_RemoveElement
    <3> QED BY <2>2, <3>1, <3>2
  <2>3. CASE i # run[w].id
    <3>1. Claims(i)' = Claims(i)
      BY <1>1, <2>3 DEF Claims
    <3> QED BY <2>1, <2>3, <3>1
  <2> QED BY <2>2, <2>3
<1> QED BY <1>0, <1>2, ListedParts

(* A worker goes on with the same job.                                     *)
LEMMA ClaimKept ==
    ASSUME Typed, NEW w \in Workers, NEW c \in Claimed, run[w] # Absent, c.id = run[w].id,
           run' = [run EXCEPT ![w] = c]
    PROVE  \A i \in Ids : Claims(i)' = Claims(i)
<1>1. c # Absent /\ run'[w] = c /\ \A v \in Workers : v # w => run'[v] = run[v]
  BY Constants, TypesOf
<1> QED BY <1>1 DEF Claims

(* An id is where it was, or in its right place.                           *)
Untouched(i) == Listed(i)' = Listed(i) /\ (Stored(i)' <=> Stored(i))

InPlace(i, F, U) ==
    /\ i \notin forgotten \cup F => Listed(i)' <= 1 /\ (Listed(i)' > 0 => Stored(i)')
    /\ Stored(i)' /\ Listed(i)' = 0 => i \in unlisted \cup U

(* A step that records what it deletes.                                    *)
LEMMA PlacedStep ==
    ASSUME Typed, Placed, Typed', NEW F \in SUBSET Ids, NEW U \in SUBSET Ids,
           forgotten' = Settle(forgotten \cup F), unlisted' = Settle(unlisted \cup U),
           \A i \in Ids : Untouched(i) \/ InPlace(i, F, U)
    PROVE  Placed'
<1>1. \A i \in Ids : InPlace(i, F, U)
  BY DEF Untouched, InPlace, Placed, ListedStored, OrphansExplained
<1>2. ASSUME NEW i \in Ids \ forgotten'
      PROVE  Listed(i)' <= 1 /\ (Listed(i)' > 0 => Stored(i)')
  <2>1. CASE i \notin forgotten \cup F
    BY <1>1, <2>1 DEF InPlace
  <2>2. CASE i \in forgotten \cup F
    <3>1. ~(Listed(i)' > 0) /\ Listed(i)' \in Nat
      BY <1>2, <2>2, ListedPartsPrimed DEF Settle
    <3> QED BY <3>1
  <2> QED BY <2>1, <2>2
<1>3. ASSUME NEW i \in Ids, Stored(i)', Listed(i)' = 0
      PROVE  i \in unlisted'
  BY <1>1, <1>3 DEF InPlace, Settle
<1>4. ListedStored'
  BY <1>2 DEF ListedStored
<1>5. OrphansExplained'
  BY <1>3 DEF OrphansExplained
<1> QED BY <1>4, <1>5 DEF Placed

(* A step that deletes nothing.                                            *)
LEMMA PlacedPlain ==
    ASSUME Typed, Placed, Typed', forgotten' = forgotten, unlisted' = unlisted,
           \A i \in Ids : Untouched(i) \/ InPlace(i, {}, {})
    PROVE  Placed'
<1>1. \A i \in Ids : InPlace(i, {}, {})
  BY DEF Untouched, InPlace, Placed, ListedStored, OrphansExplained
<1>2. ListedStored'
  BY <1>1 DEF ListedStored, InPlace
<1>3. OrphansExplained'
  BY <1>1 DEF OrphansExplained, InPlace
<1> QED BY <1>2, <1>3 DEF Placed

(* A step that leaves the lists and the payloads alone.                    *)
LEMMA PlacedCalm ==
    ASSUME Typed, Placed, Typed', UNCHANGED <<payload, queue, run, retry, forgotten, unlisted>>
    PROVE  Placed'
<1>1. \A i \in Ids : Untouched(i)
  BY DEF Untouched, Listed, Claims, Stored
<1> QED BY <1>1, PlacedPlain

(* An id outside the histories that is stored nowhere is listed nowhere.   *)
LEMMA PlacedFacts ==
    ASSUME Typed, Placed, NEW i \in Ids
    PROVE  /\ i \notin forgotten => Listed(i) <= 1 /\ (~Stored(i) => Listed(i) = 0)
           /\ Stored(i) /\ Listed(i) = 0 => i \in unlisted
<1>1. Listed(i) \in Nat
  BY ListedParts
<1> QED BY <1>1 DEF Placed, ListedStored, OrphansExplained

(* An unchanged set of workers has an unchanged number of claims.          *)
LEMMA SameClaims ==
    ASSUME UNCHANGED run
    PROVE  \A i \in Ids : Claims(i)' = Claims(i)
  BY DEF Claims

(* A job is enqueued.                                                      *)
LEMMA PlacedEnqueue ==
    ASSUME Typed, Placed, Typed', NEW i \in Ids, NEW env \in Envelope, EnqueueEnvelope(i, env),
           UNCHANGED <<run, retry, forgotten, unlisted>>
    PROVE  Placed'
<1>1. /\ ~Stored(i) /\ payload' = [payload EXCEPT ![i] = env]
      /\ queue' = [queue EXCEPT ![i] = @ + 1]
  BY DEF EnqueueEnvelope, Push
<1>2. \A j \in Ids : Claims(j)' = Claims(j) /\ Entered(j)' = Entered(j)
  BY SameClaims DEF Entered
<1>3. \A j \in Ids : j # i => Untouched(j)
  BY <1>1, <1>2, TypesOf, ListedParts, ListedPartsPrimed DEF Untouched, Stored
<1>4. Listed(i)' = Listed(i) + 1
  <2>1. queue'[i] = queue[i] + 1
    BY <1>1, TypesOf
  <2>2. Listed(i)' = queue'[i] + Cardinality(Claims(i)') + Entered(i)'
        /\ Listed(i) = queue[i] + Cardinality(Claims(i)) + Entered(i)
        /\ queue[i] \in Nat /\ Cardinality(Claims(i)) \in Nat /\ Entered(i) \in {0, 1}
    BY ListedParts, ListedPartsPrimed
  <2> QED BY <1>2, <2>1, <2>2
<1>5. Stored(i)'
  BY <1>1, TypesOf, Constants DEF Stored
<1>6. InPlace(i, {}, {})
  <2>1. Listed(i) \in Nat
    BY ListedParts
  <2>2. Listed(i)' > 0 /\ (i \notin forgotten => Listed(i)' = 1)
    BY <1>1, <1>4, <2>1, PlacedFacts
  <2> QED BY <1>5, <2>2 DEF InPlace
<1> QED BY <1>3, <1>6, PlacedPlain

(* A scheduled job is enqueued.                                            *)
LEMMA PlacedEnqueueAt ==
    ASSUME Typed, Placed, Typed', NEW i \in Ids, EnqueueAt(i)
    PROVE  Placed'
<1>1. /\ ~Stored(i) /\ retry' = [retry EXCEPT ![i] = gen'] /\ gen' = gen + 1
      /\ payload' = [payload EXCEPT ![i] = [gen |-> gen', retries |-> 0, scheduled |-> TRUE]]
      /\ UNCHANGED <<queue, run, forgotten, unlisted>>
  BY DEF EnqueueAt
<1>2. \A j \in Ids : Claims(j)' = Claims(j)
  BY <1>1, SameClaims
<1>3. \A j \in Ids : j # i => Untouched(j)
  <2>1. \A j \in Ids : j # i => retry'[j] = retry[j] /\ payload'[j] = payload[j]
    BY <1>1, TypesOf
  <2>2. \A j \in Ids : j # i => Entered(j)' = Entered(j) /\ (Stored(j)' <=> Stored(j))
    BY <2>1 DEF Entered, Stored
  <2> QED BY <1>1, <1>2, <2>2, ListedParts, ListedPartsPrimed DEF Untouched
<1>4. retry'[i] # Absent /\ Stored(i)'
  <2>1. gen' \in 1 .. MaxGen
    BY <1>1, TypesOf, Constants DEF EnqueueAt
  <2>2. [gen |-> gen', retries |-> 0, scheduled |-> TRUE] \in Envelope
    BY <2>1, EnvelopeType
  <2>3. gen' \in Nat
    BY <2>1
  <2> QED BY <1>1, <2>2, <2>3, TypesOf, Constants DEF Stored
<1>5. Entered(i)' = 1
  BY <1>4, ListedPartsPrimed
<1>6. InPlace(i, {}, {})
  <2>1. Listed(i)' = queue[i] + Cardinality(Claims(i)) + 1
        /\ Listed(i) = queue[i] + Cardinality(Claims(i)) + Entered(i)
        /\ queue[i] \in Nat /\ Cardinality(Claims(i)) \in Nat /\ Entered(i) \in {0, 1}
    BY <1>1, <1>2, <1>5, ListedParts, ListedPartsPrimed
  <2>2. i \notin forgotten => Listed(i) = 0
    BY <1>1, PlacedFacts
  <2>3. Listed(i)' > 0 /\ (i \notin forgotten => Listed(i)' = 1)
    BY <2>1, <2>2
  <2> QED BY <1>4, <2>3 DEF InPlace
<1> QED BY <1>1, <1>3, <1>6, PlacedPlain

(* An entry is moved to its queue, or dropped when nothing is stored.      *)
LEMMA PlacedMoved ==
    ASSUME Typed, Placed, Typed', NEW i \in Ids, retry[i] # Absent, Moved(i),
           UNCHANGED <<payload, run>>,
           forgotten' = Settle(forgotten), unlisted' = Settle(unlisted)
    PROVE  Placed'
<1>1. \A j \in Ids : Claims(j)' = Claims(j) /\ (Stored(j)' <=> Stored(j))
  BY SameClaims DEF Stored
<1>2. retry' = [retry EXCEPT ![i] = Absent]
  BY DEF Moved
<1>3. \A j \in Ids : j # i => queue'[j] = queue[j] /\ retry'[j] = retry[j]
  BY TypesOf DEF Moved, Push
<1>4. \A j \in Ids : j # i => Untouched(j)
  <2>1. \A j \in Ids : j # i => Entered(j)' = Entered(j)
    BY <1>3 DEF Entered
  <2> QED BY <1>1, <1>3, <2>1, ListedParts, ListedPartsPrimed DEF Untouched
<1>5. Entered(i) = 1 /\ Entered(i)' = 0
  BY <1>2, ListedParts, TypesOf DEF Entered
<1>6. Listed(i)' = queue'[i] + Cardinality(Claims(i)) + 0
      /\ Listed(i) = queue[i] + Cardinality(Claims(i)) + 1
      /\ queue[i] \in Nat /\ Cardinality(Claims(i)) \in Nat
  BY <1>1, <1>5, ListedParts, ListedPartsPrimed
<1>7. Untouched(i) \/ InPlace(i, {}, {})
  <2>1. CASE Stored(i)
    <3>1. queue'[i] = queue[i] + 1
      BY <2>1, TypesOf DEF Moved, Push
    <3>2. Listed(i)' = Listed(i)
      BY <1>6, <3>1
    <3> QED BY <1>1, <3>2 DEF Untouched
  <2>2. CASE ~Stored(i)
    <3>1. queue'[i] = queue[i]
      BY <2>2 DEF Moved
    <3>2. i \in forgotten
      BY <1>6, <2>2, PlacedFacts
    <3> QED BY <1>1, <2>2, <3>2 DEF InPlace
  <2> QED BY <2>1, <2>2
<1>8. forgotten' = Settle(forgotten \cup {}) /\ unlisted' = Settle(unlisted \cup {})
  OBVIOUS
<1>9. \A j \in Ids : Untouched(j) \/ InPlace(j, {}, {})
  BY <1>4, <1>7, Zenon
<1> QED BY <1>8, <1>9, PlacedStep

(* A worker lets go of a job that is not stored any more, or entered for a *)
(* retry.                                                                  *)
LEMMA PlacedRelease ==
    ASSUME Typed, Placed, Typed', NEW w \in Workers, NEW i \in Ids, run[w] # Absent,
           i = run[w].id, Release(w), UNCHANGED queue,
           \A j \in Ids : j # i => payload'[j] = payload[j] /\ retry'[j] = retry[j],
           \/ ~Stored(i)' /\ retry'[i] = retry[i]
           \/ Stored(i)' /\ retry'[i] # Absent,
           forgotten' = Settle(forgotten), unlisted' = Settle(unlisted)
    PROVE  Placed'
<1>2. /\ \A j \in Ids : Cardinality(Claims(j)') = Cardinality(Claims(j)) - (IF j = i THEN 1 ELSE 0)
      /\ Cardinality(Claims(i)) > 0
  BY ClaimReleased
<1>3. \A j \in Ids : j # i => Untouched(j)
  <2> SUFFICES ASSUME NEW j \in Ids, j # i PROVE Untouched(j)
    OBVIOUS
  <2>1. payload'[j] = payload[j] /\ retry'[j] = retry[j] /\ queue'[j] = queue[j]
    OBVIOUS
  <2>2. Entered(j)' = Entered(j) /\ (Stored(j)' <=> Stored(j))
    BY <2>1 DEF Entered, Stored
  <2>3. Cardinality(Claims(j)') = Cardinality(Claims(j)) - 0 /\ Cardinality(Claims(j)) \in Nat
    BY <1>2, ListedParts
  <2>4. Cardinality(Claims(j)') = Cardinality(Claims(j))
    BY <2>3
  <2> QED BY <2>1, <2>2, <2>4, ListedParts, ListedPartsPrimed DEF Untouched
<1>4. /\ Listed(i)' = queue[i] + Cardinality(Claims(i)') + Entered(i)'
      /\ Listed(i) = queue[i] + Cardinality(Claims(i)) + Entered(i)
      /\ queue[i] \in Nat /\ Cardinality(Claims(i)) \in Nat /\ Entered(i) \in {0, 1}
      /\ Entered(i)' \in {0, 1}
      /\ Cardinality(Claims(i)') = Cardinality(Claims(i)) - 1
  BY <1>2, ListedParts, ListedPartsPrimed
<1>5. i \notin forgotten => /\ Listed(i) = 1 /\ queue[i] = 0
                            /\ Cardinality(Claims(i)) = 1 /\ Entered(i) = 0
  <2>1. i \notin forgotten => Listed(i) <= 1
    BY PlacedFacts
  <2> QED BY <1>2, <1>4, <2>1
<1>6. InPlace(i, {}, {})
  <2>1. CASE ~Stored(i)' /\ retry'[i] = retry[i]
    <3>1. Entered(i)' = Entered(i)
      BY <2>1 DEF Entered
    <3>2. i \notin forgotten => Listed(i)' = 0
      BY <1>4, <1>5, <3>1
    <3>3. i \notin forgotten => Listed(i)' <= 1 /\ ~(Listed(i)' > 0)
      BY <3>2
    <3> QED BY <2>1, <3>3 DEF InPlace
  <2>2. CASE Stored(i)' /\ retry'[i] # Absent
    <3>1. Entered(i)' = 1
      BY <2>2 DEF Entered
    <3>2. Listed(i)' > 0 /\ (i \notin forgotten => Listed(i)' = 1)
      BY <1>2, <1>4, <1>5, <3>1
    <3>3. i \notin forgotten => Listed(i)' <= 1
      BY <3>2
    <3>4. ~(Listed(i)' = 0)
      BY <3>2
    <3> QED BY <2>2, <3>3, <3>4 DEF InPlace
  <2> QED BY <2>1, <2>2
<1>7. forgotten' = Settle(forgotten \cup {}) /\ unlisted' = Settle(unlisted \cup {})
  OBVIOUS
<1> QED BY <1>3, <1>6, <1>7, PlacedStep

(* A step that deletes payloads, and perhaps entries of theirs, and says   *)
(* so.                                                                     *)
LEMMA PlacedDelete ==
    ASSUME Typed, Placed, Typed', NEW F \in SUBSET Ids,
           \A j \in Ids : \/ j \in F /\ ~Stored(j)'
                          \/ payload'[j] = payload[j] /\ queue'[j] = queue[j] /\ retry'[j] = retry[j],
           UNCHANGED run, forgotten' = Settle(forgotten \cup F), unlisted' = Settle(unlisted)
    PROVE  Placed'
<1>1. ASSUME NEW j \in Ids PROVE Untouched(j) \/ InPlace(j, F, {})
  <2>1. CASE j \in F /\ ~Stored(j)'
    BY <2>1 DEF InPlace
  <2>2. CASE payload'[j] = payload[j] /\ queue'[j] = queue[j] /\ retry'[j] = retry[j]
    <3>1. Entered(j)' = Entered(j) /\ (Stored(j)' <=> Stored(j)) /\ Claims(j)' = Claims(j)
      BY <2>2, SameClaims DEF Entered, Stored
    <3> QED BY <2>2, <3>1, ListedParts, ListedPartsPrimed DEF Untouched
  <2> QED BY <2>1, <2>2
<1>2. unlisted' = Settle(unlisted \cup {})
  OBVIOUS
<1> QED BY <1>1, <1>2, PlacedStep

(* A worker's step keeps every id in its place.                            *)
LEMMA PlacedWorker ==
    ASSUME Typed, Placed, Typed', NEW w \in Workers, WorkerStep(w)
    PROVE  Placed'
<1>0. /\ run[w] # Absent => run[w] \in Claimed /\ run[w].id \in Ids
      /\ \A j \in Ids : payload[j] # Absent => payload[j] \in Envelope
  BY TypesOf DEF Claimed
<1>1. CASE Claim(w)
  <2>1. PICK i \in Ids : /\ queue[i] > 0 /\ queue' = [queue EXCEPT ![i] = @ - 1]
                         /\ run' = [run EXCEPT ![w] = [id |-> i, env |-> Absent, read |-> Absent]]
    BY <1>1 DEF Claim, Queued
  <2>2. [id |-> i, env |-> Absent, read |-> Absent] \in Claimed
    BY DEF Claimed
  <2>3. run[w] = Absent /\ UNCHANGED <<payload, retry, forgotten, unlisted>>
    BY <1>1 DEF Claim
  <2>4. \A j \in Ids : Cardinality(Claims(j)') = Cardinality(Claims(j)) + (IF j = i THEN 1 ELSE 0)
    BY <2>1, <2>2, <2>3, ClaimTaken
  <2>5. ASSUME NEW j \in Ids PROVE Untouched(j)
    <3>1. Entered(j)' = Entered(j) /\ (Stored(j)' <=> Stored(j))
      BY <2>3 DEF Entered, Stored
    <3>2. /\ Listed(j)' = queue'[j] + Cardinality(Claims(j)') + Entered(j)
          /\ Listed(j) = queue[j] + Cardinality(Claims(j)) + Entered(j)
          /\ queue[j] \in Nat /\ Cardinality(Claims(j)) \in Nat /\ Entered(j) \in {0, 1}
      BY <3>1, ListedParts, ListedPartsPrimed
    <3>3. queue'[j] + Cardinality(Claims(j)') = queue[j] + Cardinality(Claims(j))
      <4>1. CASE j = i
        <5>1. queue'[j] = queue[j] - 1 /\ Cardinality(Claims(j)') = Cardinality(Claims(j)) + 1
          BY <2>1, <2>4, <4>1, TypesOf
        <5> QED BY <3>2, <5>1
      <4>2. CASE j # i
        <5>1. queue'[j] = queue[j] /\ Cardinality(Claims(j)') = Cardinality(Claims(j)) + 0
          BY <2>1, <2>4, <4>2, TypesOf
        <5> QED BY <3>2, <5>1
      <4> QED BY <4>1, <4>2
    <3>4. Listed(j)' = Listed(j)
      BY <3>2, <3>3
    <3> QED BY <3>1, <3>4 DEF Untouched
  <2> QED BY <2>3, <2>5, PlacedPlain
<1>2. CASE Load(w)
  <2>1. /\ run[w] # Absent /\ UNCHANGED <<payload, queue, retry>>
        /\ forgotten' = Settle(forgotten) /\ unlisted' = Settle(unlisted)
    BY <1>2 DEF Load
  <2>2. PICK i \in Ids : i = run[w].id
    BY <1>0, <2>1
  <2>3. CASE Stored(i)
    <3>1. [run[w] EXCEPT !.env = payload[i]] \in Claimed
          /\ [run[w] EXCEPT !.env = payload[i]].id = i
      BY <1>0, <2>1, <2>2, <2>3 DEF Claimed, Stored
    <3>2. run' = [run EXCEPT ![w] = [run[w] EXCEPT !.env = payload[i]]]
      BY <1>2, <2>2, <2>3 DEF Load
    <3>3. \A j \in Ids : Claims(j)' = Claims(j)
      BY <2>1, <2>2, <3>1, <3>2, ClaimKept
    <3>4. \A j \in Ids : Entered(j)' = Entered(j) /\ (Stored(j)' <=> Stored(j))
      BY <2>1 DEF Entered, Stored
    <3>5. \A j \in Ids : Untouched(j)
      BY <2>1, <3>3, <3>4, ListedParts, ListedPartsPrimed DEF Untouched
    <3>6. forgotten' = Settle(forgotten \cup {}) /\ unlisted' = Settle(unlisted \cup {})
      BY <2>1
    <3>7. \A j \in Ids : Untouched(j) \/ InPlace(j, {}, {})
      BY <3>5
    <3> QED BY <3>6, <3>7, PlacedStep
  <2>4. CASE ~Stored(i)
    <3>1. Release(w) /\ ~Stored(i)'
      BY <1>2, <2>1, <2>2, <2>4 DEF Load, Stored
    <3> QED BY <2>1, <2>2, <3>1, PlacedRelease
  <2> QED BY <2>3, <2>4
<1>3. CASE StateRead(w)
  <2>1. /\ run[w] # Absent /\ Stored(run[w].id)
        /\ UNCHANGED <<payload, queue, retry, forgotten, unlisted>>
        /\ run' = [run EXCEPT ![w] = [run[w] EXCEPT !.read = payload[run[w].id]]]
    BY <1>3 DEF StateRead, Running
  <2>2. [run[w] EXCEPT !.read = payload[run[w].id]] \in Claimed
        /\ [run[w] EXCEPT !.read = payload[run[w].id]].id = run[w].id
    BY <1>0, <2>1 DEF Claimed, Stored
  <2>3. \A j \in Ids : Claims(j)' = Claims(j)
    BY <2>1, <2>2, ClaimKept
  <2>4. \A j \in Ids : Entered(j)' = Entered(j) /\ (Stored(j)' <=> Stored(j))
    BY <2>1 DEF Entered, Stored
  <2>5. \A j \in Ids : Untouched(j)
    BY <2>1, <2>3, <2>4, ListedParts, ListedPartsPrimed DEF Untouched
  <2> QED BY <2>1, <2>5, PlacedPlain
<1>4. CASE StateWrite(w)
  <2>1. /\ run[w] # Absent /\ run[w].read # Absent
        /\ UNCHANGED <<queue, retry, forgotten, unlisted>>
        /\ payload' = [payload EXCEPT ![run[w].id] = run[w].read]
        /\ run' = [run EXCEPT ![w] = [run[w] EXCEPT !.read = Absent]]
    BY <1>4 DEF StateWrite, Running
  <2>2. PICK i \in Ids : i = run[w].id
    BY <1>0, <2>1
  <2>3. [run[w] EXCEPT !.read = Absent] \in Claimed /\ [run[w] EXCEPT !.read = Absent].id = run[w].id
    BY <1>0, <2>1 DEF Claimed
  <2>4. \A j \in Ids : Claims(j)' = Claims(j) /\ Entered(j)' = Entered(j)
    BY <2>1, <2>3, ClaimKept DEF Entered
  <2>5. \A j \in Ids : Listed(j)' = Listed(j)
    BY <2>1, <2>4, ListedParts, ListedPartsPrimed
  <2>6. Stored(i)' /\ \A j \in Ids : j # i => payload'[j] = payload[j]
    BY <2>1, <2>2, TypesOf DEF Stored
  <2>7. \A j \in Ids : j # i => Untouched(j)
    BY <2>5, <2>6 DEF Untouched, Stored
  <2>8. Listed(i)' > 0
    <3>1. w \in Claims(i)
      BY <2>1, <2>2 DEF Claims
    <3>2. Cardinality(Claims(i)) > 0 /\ Listed(i) = queue[i] + Cardinality(Claims(i)) + Entered(i)
          /\ queue[i] \in Nat /\ Cardinality(Claims(i)) \in Nat /\ Entered(i) \in {0, 1}
      BY <3>1, ListedParts
    <3>3. Listed(i) > 0
      BY <3>2
    <3> QED BY <2>5, <3>3
  <2>9. InPlace(i, {}, {})
    <3>1. i \notin forgotten => Listed(i)' <= 1
      BY <2>5, PlacedFacts
    <3>2. ~(Listed(i)' = 0)
      BY <2>8
    <3> QED BY <2>6, <3>1, <3>2 DEF InPlace
  <2> QED BY <2>1, <2>7, <2>9, PlacedPlain
<1>5. CASE Finish(w) \/ Kill(w)
  <2>1. /\ run[w] # Absent /\ Release(w) /\ UNCHANGED <<queue, retry>>
        /\ payload' = [payload EXCEPT ![run[w].id] = Absent]
        /\ forgotten' = Settle(forgotten) /\ unlisted' = Settle(unlisted)
    BY <1>5 DEF Finish, Kill, Done, Running
  <2>2. PICK i \in Ids : i = run[w].id
    BY <1>0, <2>1
  <2>3. ~Stored(i)' /\ \A j \in Ids : j # i => payload'[j] = payload[j]
    BY <2>1, <2>2, TypesOf DEF Stored
  <2> QED BY <2>1, <2>2, <2>3, PlacedRelease
<1>6. CASE Retry(w)
  <2>1. /\ run[w] # Absent /\ Release(w) /\ UNCHANGED queue
        /\ forgotten' = Settle(forgotten) /\ unlisted' = Settle(unlisted)
    BY <1>6 DEF Retry, Done, Running
  <2>2. PICK i \in Ids : i = run[w].id
    BY <1>0, <2>1
  <2>3. CASE Stored(i)
    <3>1. /\ payload' = [payload EXCEPT ![i] = [payload[i] EXCEPT !.retries = 1]]
          /\ retry' = [retry EXCEPT ![i] = payload[i].gen]
      BY <1>6, <2>2, <2>3 DEF Retry
    <3>2. [payload[i] EXCEPT !.retries = 1] \in Envelope /\ payload[i].gen \in 1 .. MaxGen
      BY <1>0, <2>3 DEF Envelope, Stored
    <3>3. payload[i].gen \in Nat
      BY <3>2
    <3>4. /\ Stored(i)' /\ retry'[i] # Absent
          /\ \A j \in Ids : j # i => payload'[j] = payload[j] /\ retry'[j] = retry[j]
      BY <3>1, <3>2, <3>3, TypesOf, Constants DEF Stored
    <3> QED BY <2>1, <2>2, <3>4, PlacedRelease
  <2>4. CASE ~Stored(i)
    <3>1. UNCHANGED <<payload, retry>> /\ ~Stored(i)'
      BY <1>6, <2>2, <2>4 DEF Retry, Stored
    <3> QED BY <2>1, <2>2, <3>1, PlacedRelease
  <2> QED BY <2>3, <2>4
<1> QED BY <1>1, <1>2, <1>3, <1>4, <1>5, <1>6 DEF WorkerStep

(* The cleanup loop leaves the ids it deletes to the histories.            *)
LEMMA PlacedCleanup ==
    ASSUME Typed, Placed, Typed', Cleanup
    PROVE  Placed'
<1>1. CASE CleanupScan
  BY <1>1, PlacedCalm DEF CleanupScan
<1>2. CASE CleanupDelete
  <2> DEFINE F == {j \in Ids : sweep[j] # 0}
  <2>1. /\ F \in SUBSET Ids /\ UNCHANGED <<queue, retry, run>>
        /\ forgotten' = Settle(forgotten \cup F) /\ unlisted' = Settle(unlisted)
        /\ \A j \in Ids : payload'[j] = IF j \in F THEN Absent ELSE payload[j]
    BY <1>2 DEF CleanupDelete
  <2> HIDE DEF F
  <2>2. \A j \in Ids : \/ j \in F /\ ~Stored(j)'
                       \/ payload'[j] = payload[j] /\ queue'[j] = queue[j] /\ retry'[j] = retry[j]
    BY <2>1 DEF Stored
  <2> QED BY <2>1, <2>2, PlacedDelete
<1> QED BY <1>1, <1>2 DEF Cleanup

(* So do the steps of everybody else.                                      *)
LEMMA PlacedOutside ==
    ASSUME Typed, Placed, Typed', NEW i \in Ids,
           Age(i) \/ Enqueue(i) \/ EnqueueAt(i) \/ Promote(i)
    PROVE  Placed'
<1>1. CASE Enqueue(i)
  <2>1. gen' \in 1 .. MaxGen
    BY <1>1, TypesOf, Constants DEF Enqueue
  <2>2. [gen |-> gen', retries |-> 0, scheduled |-> FALSE] \in Envelope
    BY <2>1, EnvelopeType
  <2> QED BY <1>1, <2>2, PlacedEnqueue DEF Enqueue
<1>2. CASE EnqueueAt(i)
  BY <1>2, PlacedEnqueueAt
<1>3. CASE Promote(i)
  BY <1>3, PlacedMoved DEF Promote
<1>4. CASE Age(i)
  BY <1>4, PlacedCalm DEF Age
<1> QED BY <1>1, <1>2, <1>3, <1>4

(* And those of the tools.                                                 *)
LEMMA PlacedTool ==
    ASSUME Typed, Placed, Typed', NEW t \in Tools, ToolBegins(t) \/ ToolStep(t)
    PROVE  Placed'
<1>1. CASE ToolBegins(t)
  BY <1>1, PlacedCalm
  DEF ToolBegins, WipeRead, WipeDead, RetryAllRead, ReviveClaim, DeleteRead, jobVars, Still
<1>2. CASE RetryAllSnapshot(t) \/ ReviveFails(t) \/ ReviveEnd(t) \/ Crash(t)
  BY <1>2, PlacedCalm DEF RetryAllSnapshot, ReviveFails, ReviveEnd, Crash, jobVars, Still
<1>3. CASE WipePayloads(t)
  <2>1. /\ tool[t].todo \in SUBSET Ids /\ UNCHANGED <<queue, retry, run>>
        /\ forgotten' = Settle(forgotten \cup tool[t].todo) /\ unlisted' = Settle(unlisted)
        /\ \A j \in Ids : payload'[j] = IF j \in tool[t].todo THEN Absent ELSE payload[j]
    BY <1>3, SessionFacts DEF WipePayloads, At
  <2>2. \A j \in Ids : \/ j \in tool[t].todo /\ ~Stored(j)'
                       \/ payload'[j] = payload[j] /\ queue'[j] = queue[j] /\ retry'[j] = retry[j]
    BY <2>1 DEF Stored
  <2>3. PICK F \in SUBSET Ids : F = tool[t].todo
    BY <2>1
  <2> QED BY <2>1, <2>2, <2>3, PlacedDelete
<1>4. CASE DeleteJob(t)
  <2>1. /\ tool[t].todo \in SUBSET Ids /\ UNCHANGED run
        /\ forgotten' = Settle(forgotten \cup tool[t].todo) /\ unlisted' = Settle(unlisted)
    BY <1>4, SessionFacts DEF DeleteJob
  <2>2. PICK i \in tool[t].todo : /\ payload' = [payload EXCEPT ![i] = Absent]
                                  /\ retry' = [retry EXCEPT ![i] = Absent]
                                  /\ queue' = [queue EXCEPT ![i] = 0] \/ queue' = queue
    BY <1>4 DEF DeleteJob
  <2>3. \A j \in Ids : \/ j \in tool[t].todo /\ ~Stored(j)'
                       \/ payload'[j] = payload[j] /\ queue'[j] = queue[j] /\ retry'[j] = retry[j]
    BY <2>1, <2>2, TypesOf DEF Stored
  <2>4. PICK F \in SUBSET Ids : F = tool[t].todo
    BY <2>1
  <2> QED BY <2>1, <2>3, <2>4, PlacedDelete
<1>5. CASE WipeList(t)
  <2>1. /\ UNCHANGED <<payload, run, retry>> /\ \A j \in Ids : queue'[j] = 0
        /\ forgotten' = Settle(forgotten \cup {}) /\ unlisted' = Settle(unlisted \cup Queued)
    BY <1>5 DEF WipeList
  <2>2. ASSUME NEW j \in Ids PROVE Untouched(j) \/ InPlace(j, {}, Queued)
    <3>1. Entered(j)' = Entered(j) /\ Claims(j)' = Claims(j) /\ (Stored(j)' <=> Stored(j))
      BY <2>1, SameClaims DEF Entered, Stored
    <3>2. /\ Listed(j)' = 0 + Cardinality(Claims(j)) + Entered(j)
          /\ Listed(j) = queue[j] + Cardinality(Claims(j)) + Entered(j)
          /\ queue[j] \in Nat /\ Cardinality(Claims(j)) \in Nat /\ Entered(j) \in {0, 1}
      BY <2>1, <3>1, ListedParts, ListedPartsPrimed
    <3>3. CASE queue[j] = 0
      <4>1. Listed(j)' = Listed(j)
        BY <3>2, <3>3
      <4> QED BY <3>1, <4>1 DEF Untouched
    <3>4. CASE queue[j] # 0
      <4>1. queue[j] > 0 /\ Listed(j)' < Listed(j) /\ Listed(j) > 0
        BY <3>2, <3>4
      <4>2. j \in Queued
        BY <4>1 DEF Queued
      <4>3. j \notin forgotten => Listed(j) <= 1 /\ Stored(j)
        BY <4>1, PlacedFacts, ListedParts
      <4>4. j \notin forgotten => Listed(j)' <= 1
        BY <3>2, <4>1, <4>3
      <4> QED BY <3>1, <4>2, <4>3, <4>4 DEF InPlace
    <3> QED BY <3>3, <3>4
  <2>3. PICK U \in SUBSET Ids : U = Queued
    BY DEF Queued
  <2> QED BY <2>1, <2>2, <2>3, PlacedStep
<1>6. CASE RetryAllMove(t)
  <2>1. tool[t].snap \in Snap /\ tool[t].snap.id \in Ids
    BY <1>6, SessionFacts DEF RetryAllMove, At, Snap
  <2>2. PICK i \in Ids : i = tool[t].snap.id
    BY <2>1
  <2>3. /\ UNCHANGED <<payload, run>>
        /\ forgotten' = Settle(forgotten) /\ unlisted' = Settle(unlisted)
    BY <1>6 DEF RetryAllMove
  <2>4. CASE retry[i] = tool[t].snap.gen /\ Moved(i)
    <3>1. tool[t].snap.gen \in 1 .. MaxGen
      BY <2>1 DEF Snap
    <3>2. tool[t].snap.gen \in Nat
      BY <3>1
    <3>3. retry[i] # Absent
      BY <2>4, <3>2, Constants
    <3> QED BY <2>3, <2>4, <3>3, PlacedMoved
  <2>5. CASE UNCHANGED <<queue, retry>>
    <3>1. \A j \in Ids : Untouched(j)
      BY <2>3, <2>5 DEF Untouched, Listed, Claims, Stored
    <3>2. forgotten' = Settle(forgotten \cup {}) /\ unlisted' = Settle(unlisted \cup {})
      BY <2>3
    <3>3. \A j \in Ids : Untouched(j) \/ InPlace(j, {}, {})
      BY <3>1
    <3> QED BY <3>2, <3>3, PlacedStep
  <2> QED BY <1>6, <2>2, <2>4, <2>5 DEF RetryAllMove
<1>7. CASE ReviveEnqueue(t)
  <2>1. Head(tool[t].hand) \in DeadEntry
    BY <1>7, SessionFacts, HeadTailProperties DEF ReviveEnqueue
  <2>2. PICK e \in DeadEntry : e = Head(tool[t].hand)
    BY <2>1
  <2>3. e.id \in Ids /\ e.env \in Envelope
    BY DEF DeadEntry
  <2>4. UNCHANGED <<run, retry, forgotten, unlisted>>
        /\ (EnqueueEnvelope(e.id, e.env) \/ UNCHANGED <<payload, queue>>)
    BY <1>7, <2>2 DEF ReviveEnqueue
  <2> QED BY <2>3, <2>4, PlacedEnqueue, PlacedCalm
<1> QED BY <1>1, <1>2, <1>3, <1>4, <1>5, <1>6, <1>7 DEF ToolStep

-----------------------------------------------------------------------------
(* The dead.                                                               *)

(* The keepers of a dead entry, one by one.                                *)
LEMMA Keepers ==
    \A x : x \in Kept <=> (x \in ToSet(dead) \/ \E t \in Tools : x \in ToSet(tool[t].hand))
  BY DEF Kept

(* The same after a step.                                                  *)
LEMMA KeepersPrimed ==
    \A x : x \in Kept' <=> (x \in ToSet(dead') \/ \E t \in Tools : x \in ToSet(tool'[t].hand))
  BY DEF Kept

(* Lists of dead entries, one after the other.                             *)
LEMMA DeadConcat ==
    \A s, r \in Seq(DeadEntry) :
        Distinct(s) /\ Distinct(r) /\ Disjoint(ToSet(s), ToSet(r))
        => /\ s \o r \in Seq(DeadEntry) /\ Distinct(s \o r)
           /\ ToSet(s \o r) = ToSet(s) \cup ToSet(r)
<1> TAKE s, r \in Seq(DeadEntry)
<1> HAVE Distinct(s) /\ Distinct(r) /\ Disjoint(ToSet(s), ToSet(r))
<1> QED BY ConcatElements

(* What an action owes to the dead.                                        *)
Recorded(x) == x \in Kept \/ \E w \in Workers : run[w] # Absent /\ x.env = run[w].env

Respected ==
    /\ Buried' /\ Kept \subseteq Kept' \cup gone'
    /\ \A x \in Kept' : Recorded(x)

(* A step that touches no dead entry.                                      *)
LEMMA BuriedCalm ==
    ASSUME Buried, UNCHANGED <<dead, gone, kills>>,
           \A t \in Tools : tool'[t].hand = tool[t].hand
    PROVE  Respected
<1>1. Buried'
  BY DEF Buried
<1>2. Kept' = Kept
  BY Keepers, KeepersPrimed
<1> QED BY <1>1, <1>2 DEF Respected, Recorded

(* A session that holds no dead entry changes.                             *)
LEMMA EmptyHands ==
    ASSUME Typed, NEW t \in Tools, tool[t].op \notin {"revive", "stranded"},
           \/ End(t)
           \/ \E op, todo, snap : Set(t, op, todo, snap, <<>>)
    PROVE  \A u \in Tools : tool'[u].hand = tool[u].hand
<1>1. tool[t].hand = <<>>
  BY SessionFacts
<1>2. tool'[t].hand = <<>> /\ \A u \in Tools : u # t => tool'[u] = tool[u]
  <2>1. CASE End(t)
    BY <2>1, TypesOf, QuietType DEF End
  <2>2. ASSUME NEW op, NEW todo, NEW snap, Set(t, op, todo, snap, <<>>)
        PROVE  tool'[t].hand = <<>> /\ \A u \in Tools : u # t => tool'[u] = tool[u]
    BY <2>2, TypesOf DEF Set
  <2> QED BY <2>1, <2>2
<1> QED BY <1>1, <1>2

(* Workers other than one that kills.                                      *)
LEMMA BuriedOutside ==
    ASSUME Typed, Buried,
           \/ \E w \in Workers : WorkerStep(w) /\ ~Kill(w)
           \/ \E i \in Ids : Age(i) \/ Enqueue(i) \/ EnqueueAt(i) \/ Promote(i)
           \/ CleanupScan \/ CleanupDelete
    PROVE  Respected
<1>1. UNCHANGED <<dead, gone, kills, tool>>
  BY DEF WorkerStep, Claim, Load, StateRead, StateWrite, Finish, Retry, Age, Enqueue, EnqueueAt,
         Promote, CleanupScan, CleanupDelete
<1> QED BY <1>1, BuriedCalm

(* Tools that do not work on the dead list.                                *)
LEMMA BuriedTool ==
    ASSUME Typed, Buried, NEW t \in Tools,
           \/ WipeRead(t) \/ RetryAllRead(t) \/ \E i \in Ids : DeleteRead(t, i)
           \/ WipePayloads(t) \/ WipeList(t) \/ DeleteJob(t) \/ RetryAllSnapshot(t) \/ RetryAllMove(t)
    PROVE  Respected
<1>1. UNCHANGED <<dead, gone, kills>>
  BY DEF WipeRead, RetryAllRead, DeleteRead, WipePayloads, WipeList, DeleteJob, RetryAllSnapshot,
         RetryAllMove, jobVars, Still
<1>2. tool[t].op \notin {"revive", "stranded"}
  BY DEF WipeRead, RetryAllRead, DeleteRead, WipePayloads, WipeList, DeleteJob, RetryAllSnapshot,
         RetryAllMove, At, Free
<1>3. \/ End(t)
      \/ \E op, todo, snap : Set(t, op, todo, snap, <<>>)
  <2>1. CASE WipeRead(t)
    BY <2>1 DEF WipeRead
  <2>2. CASE RetryAllRead(t)
    BY <2>2 DEF RetryAllRead
  <2>3. CASE \E i \in Ids : DeleteRead(t, i)
    BY <2>3 DEF DeleteRead
  <2>4. CASE WipePayloads(t)
    BY <2>4 DEF WipePayloads
  <2>5. CASE WipeList(t) \/ DeleteJob(t)
    BY <2>5 DEF WipeList, DeleteJob
  <2>6. CASE RetryAllSnapshot(t)
    BY <2>6 DEF RetryAllSnapshot
  <2>7. CASE RetryAllMove(t)
    BY <2>7 DEF RetryAllMove
  <2> QED BY <2>1, <2>2, <2>3, <2>4, <2>5, <2>6, <2>7
<1> QED BY <1>1, <1>2, <1>3, EmptyHands, BuriedCalm

(* A killed job gets a number of its own; what is trimmed is gone.         *)
LEMMA BuriedKill ==
    ASSUME Typed, Buried, NEW w \in Workers, Kill(w)
    PROVE  Respected
<1> DEFINE e == [id |-> run[w].id, n |-> kills + 1, env |-> run[w].env]
           longer == <<e>> \o dead
<1>1. /\ kills' = kills + 1 /\ UNCHANGED tool
      /\ dead' = IF DeadLimit = 0 \/ Len(longer) <= DeadLimit THEN longer
                 ELSE SubSeq(longer, 1, DeadLimit)
      /\ gone' = gone \cup (ToSet(longer) \ ToSet(dead'))
  BY DEF Kill
<1>2. e \in DeadEntry /\ e.n = kills + 1 /\ kills \in Nat
  <2>1. run[w] \in Claimed /\ run[w].env # Absent /\ kills + 1 \in Nat
    BY TypesOf DEF Kill, Done, Running
  <2> QED BY <2>1, TypesOf DEF DeadEntry, Claimed
<1> HIDE DEF e
<1>3. /\ e \notin ToSet(dead) /\ e \notin gone
      /\ \A t \in Tools : e \notin ToSet(tool[t].hand)
  <2>1. ~(e.n <= kills)
    BY <1>2
  <2> QED BY <2>1 DEF Buried
<1>4. <<e>> \in Seq(DeadEntry) /\ Distinct(<<e>>) /\ ToSet(<<e>>) = {e}
  BY <1>2, OneElement
<1>5. dead \in Seq(DeadEntry) /\ Distinct(dead) /\ Disjoint(ToSet(<<e>>), ToSet(dead))
  BY <1>3, <1>4, TypesOf DEF Buried, Disjoint
<1>6. /\ longer \in Seq(DeadEntry) /\ Distinct(longer) /\ ToSet(longer) = {e} \cup ToSet(dead)
  <2> DEFINE s == <<e>>
  <2>1. s \in Seq(DeadEntry) /\ Distinct(s) /\ ToSet(s) = {e} /\ longer = s \o dead
        /\ Disjoint(ToSet(s), ToSet(dead))
    BY <1>4, <1>5
  <2> HIDE DEF s, longer
  <2>2. s \o dead \in Seq(DeadEntry) /\ Distinct(s \o dead)
        /\ ToSet(s \o dead) = ToSet(s) \cup ToSet(dead)
    BY <1>5, <2>1, DeadConcat, Zenon
  <2> QED BY <2>1, <2>2
<1> HIDE DEF longer
<1>7. Distinct(dead') /\ ToSet(dead') \subseteq ToSet(longer)
  <2>1. CASE DeadLimit = 0 \/ Len(longer) <= DeadLimit
    BY <1>1, <1>6, <2>1
  <2>2. CASE ~(DeadLimit = 0 \/ Len(longer) <= DeadLimit)
    <3>1. DeadLimit \in Nat /\ DeadLimit <= Len(longer)
      BY <1>6, <2>2, Constants, LenProperties
    <3> QED BY <1>1, <1>6, <2>2, <3>1, PrefixElements
  <2> QED BY <2>1, <2>2
<1>8. ASSUME NEW x \in ToSet(longer) \cup gone, x \in DeadEntry PROVE x.n <= kills'
  <2>1. CASE x = e
    <3>1. kills' \in Nat /\ x.n = kills'
      BY <1>1, <1>2, <2>1
    <3> QED BY <3>1
  <2>2. CASE x # e
    <3>1. x \in ToSet(dead) \cup gone
      BY <1>6, <1>8, <2>2
    <3>2. x.n <= kills /\ x.n \in Nat /\ kills \in Nat
      BY <1>2, <1>8, <3>1 DEF Buried, DeadEntry
    <3> QED BY <1>1, <3>2
  <2> QED BY <2>1, <2>2
<1>9. gone' \subseteq ToSet(longer) \cup gone /\ ToSet(longer) \cup gone \subseteq DeadEntry
  <2>1. ToSet(longer) \subseteq DeadEntry /\ gone \subseteq DeadEntry
    BY <1>6, Elements DEF Typed
  <2> QED BY <1>1, <2>1
<1>10. \A x \in ToSet(dead') \cup gone' : x.n <= kills'
  BY <1>7, <1>8, <1>9
<1>11. Disjoint(ToSet(dead'), gone')
  BY <1>1, <1>3, <1>6, <1>7 DEF Buried, Disjoint
<1>12. ASSUME NEW t \in Tools
       PROVE  /\ Distinct(tool'[t].hand)
              /\ Disjoint(ToSet(tool'[t].hand), ToSet(dead'))
              /\ Disjoint(ToSet(tool'[t].hand), gone')
              /\ \A x \in ToSet(tool'[t].hand) : x.n <= kills'
              /\ \A u \in Tools : t # u => Disjoint(ToSet(tool'[t].hand), ToSet(tool'[u].hand))
  <2>1. \A x \in ToSet(tool[t].hand) : x.n <= kills'
    <3>1. ToSet(tool[t].hand) \subseteq DeadEntry
      BY SessionFacts, Elements
    <3>2. \A x \in ToSet(tool[t].hand) : x.n <= kills /\ x.n \in Nat
      BY <3>1 DEF Buried, DeadEntry
    <3> QED BY <1>1, <1>2, <3>2
  <2>2. \A x \in ToSet(tool[t].hand) : x \notin ToSet(longer) \cup gone
    BY <1>3, <1>6 DEF Buried, Disjoint
  <2>3. Disjoint(ToSet(tool[t].hand), ToSet(dead')) /\ Disjoint(ToSet(tool[t].hand), gone')
    BY <1>7, <1>9, <2>2 DEF Disjoint
  <2> QED BY <1>1, <2>1, <2>3 DEF Buried
<1>13. Buried'
  BY <1>7, <1>10, <1>11, <1>12 DEF Buried
<1>14. Kept \subseteq Kept' \cup gone'
  <2>1. ToSet(dead) \subseteq ToSet(dead') \cup gone'
    BY <1>1, <1>6
  <2> QED BY <1>1, <2>1, Keepers, KeepersPrimed
<1>15. \A x \in Kept' : Recorded(x)
  <2> SUFFICES ASSUME NEW x \in Kept' PROVE Recorded(x)
    OBVIOUS
  <2>1. CASE x = e
    <3>1. run[w] # Absent /\ x.env = run[w].env
      BY <2>1 DEF e, Kill, Done, Running
    <3> QED BY <3>1 DEF Recorded
  <2>2. CASE x # e
    <3>1. x \in Kept
      BY <1>1, <1>6, <1>7, <2>2, Keepers, KeepersPrimed
    <3> QED BY <3>1 DEF Recorded
  <2> QED BY <2>1, <2>2
<1> QED BY <1>13, <1>14, <1>15 DEF Respected

(* The dead list is wiped.                                                 *)
LEMMA BuriedWipe ==
    ASSUME Typed, Buried, NEW t \in Tools, WipeDead(t)
    PROVE  Respected
<1>1. dead' = <<>> /\ gone' = gone \cup ToSet(dead) /\ UNCHANGED <<kills, tool>>
  BY DEF WipeDead
<1>2. ToSet(<<>>) = {} /\ Distinct(<<>>)
  BY Elements, SessionFacts
<1>3. Buried'
  <2>1. Distinct(dead') /\ Disjoint(ToSet(dead'), gone')
        /\ \A e \in ToSet(dead') \cup gone' : e.n <= kills'
    BY <1>1, <1>2 DEF Buried, Disjoint
  <2>2. ASSUME NEW u \in Tools
        PROVE  /\ Distinct(tool'[u].hand)
               /\ Disjoint(ToSet(tool'[u].hand), ToSet(dead'))
               /\ Disjoint(ToSet(tool'[u].hand), gone')
               /\ \A x \in ToSet(tool'[u].hand) : x.n <= kills'
               /\ \A v \in Tools : u # v => Disjoint(ToSet(tool'[u].hand), ToSet(tool'[v].hand))
    BY <1>1, <1>2 DEF Buried, Disjoint
  <2> QED BY <2>1, <2>2 DEF Buried
<1>4. Kept \subseteq Kept' \cup gone'
  BY <1>1, Keepers, KeepersPrimed
<1>5. \A x \in Kept' : Recorded(x)
  BY <1>1, <1>2, Keepers, KeepersPrimed DEF Recorded
<1> QED BY <1>3, <1>4, <1>5 DEF Respected

(* Entries move between the dead list, one session and what is gone.       *)
LEMMA BuriedMove ==
    ASSUME Typed, Buried, NEW t \in Tools, kills' = kills,
           \A u \in Tools : u # t => tool'[u].hand = tool[u].hand,
           Distinct(dead'), Distinct(tool'[t].hand),
           Disjoint(ToSet(dead'), gone'), Disjoint(ToSet(tool'[t].hand), ToSet(dead') \cup gone'),
           ToSet(dead') \cup ToSet(tool'[t].hand) \cup gone'
           = ToSet(dead) \cup ToSet(tool[t].hand) \cup gone,
           gone \subseteq gone'
    PROVE  Respected
<1> DEFINE all == ToSet(dead) \cup ToSet(tool[t].hand) \cup gone
<1>1. \A x \in all : x.n <= kills
  BY DEF Buried
<1>2. \A x \in ToSet(dead') \cup ToSet(tool'[t].hand) \cup gone' : x \in all
  OBVIOUS
<1>3. \A u \in Tools : u # t => Disjoint(ToSet(tool[u].hand), all)
  BY DEF Buried, Disjoint
<1> HIDE DEF all
<1>4. ASSUME NEW u \in Tools
      PROVE  /\ Distinct(tool'[u].hand)
             /\ Disjoint(ToSet(tool'[u].hand), ToSet(dead'))
             /\ Disjoint(ToSet(tool'[u].hand), gone')
             /\ \A x \in ToSet(tool'[u].hand) : x.n <= kills'
             /\ \A v \in Tools : u # v => Disjoint(ToSet(tool'[u].hand), ToSet(tool'[v].hand))
  <2>1. CASE u = t
    <3>1. \A v \in Tools : u # v => Disjoint(ToSet(tool'[u].hand), ToSet(tool'[v].hand))
      BY <1>2, <1>3, <2>1 DEF Disjoint
    <3> QED BY <1>1, <1>2, <2>1, <3>1 DEF Disjoint
  <2>2. CASE u # t
    <3>1. tool'[u].hand = tool[u].hand
      BY <2>2
    <3>2. \A v \in Tools : u # v => Disjoint(ToSet(tool'[u].hand), ToSet(tool'[v].hand))
      <4> SUFFICES ASSUME NEW v \in Tools, u # v
                   PROVE  Disjoint(ToSet(tool[u].hand), ToSet(tool'[v].hand))
        BY <3>1
      <4>1. CASE v = t
        BY <1>2, <1>3, <2>2, <4>1 DEF Disjoint
      <4>2. CASE v # t
        BY <4>2 DEF Buried
      <4> QED BY <4>1, <4>2
    <3>3. Disjoint(ToSet(tool[u].hand), ToSet(dead')) /\ Disjoint(ToSet(tool[u].hand), gone')
      BY <1>2, <1>3, <2>2 DEF Disjoint
    <3>4. Distinct(tool[u].hand) /\ \A x \in ToSet(tool[u].hand) : x.n <= kills
      BY DEF Buried
    <3> QED BY <3>1, <3>2, <3>3, <3>4
  <2> QED BY <2>1, <2>2
<1>5. \A x \in ToSet(dead') \cup gone' : x.n <= kills'
  BY <1>1, <1>2
<1>6. Buried'
  BY <1>4, <1>5 DEF Buried
<1>7. Kept \subseteq Kept' \cup gone'
  <2> SUFFICES ASSUME NEW x \in Kept PROVE x \in Kept' \cup gone'
    OBVIOUS
  <2>1. CASE x \in ToSet(dead) \cup ToSet(tool[t].hand)
    BY <2>1, KeepersPrimed
  <2>2. CASE x \notin ToSet(dead) \cup ToSet(tool[t].hand)
    <3>1. PICK u \in Tools : x \in ToSet(tool[u].hand)
      BY <2>2, Keepers
    <3>2. u # t
      BY <2>2, <3>1
    <3> QED BY <3>1, <3>2, KeepersPrimed
  <2> QED BY <2>1, <2>2
<1>8. \A x \in Kept' : Recorded(x)
  <2> SUFFICES ASSUME NEW x \in Kept' PROVE x \in Kept
    BY DEF Recorded
  <2>1. CASE x \in ToSet(dead') \cup ToSet(tool'[t].hand)
    <3>1. x \in all /\ x \notin gone
      BY <1>2, <2>1 DEF Disjoint
    <3> QED BY <3>1, Keepers DEF all
  <2>2. CASE x \notin ToSet(dead') \cup ToSet(tool'[t].hand)
    <3>1. PICK u \in Tools : x \in ToSet(tool'[u].hand)
      BY <2>2, KeepersPrimed
    <3>2. u # t
      BY <2>2, <3>1
    <3> QED BY <3>1, <3>2, Keepers
  <2> QED BY <2>1, <2>2
<1> QED BY <1>6, <1>7, <1>8 DEF Respected

(* What the sessions hold after one of them has changed.                   *)
LEMMA HandAfter ==
    ASSUME Typed, NEW t \in Tools
    PROVE  /\ \A op, todo, snap, hand : Set(t, op, todo, snap, hand)
                 => /\ tool'[t].hand = hand
                    /\ \A u \in Tools : u # t => tool'[u].hand = tool[u].hand
           /\ End(t) => /\ tool'[t].hand = <<>>
                        /\ \A u \in Tools : u # t => tool'[u].hand = tool[u].hand
<1>1. ASSUME NEW op, NEW todo, NEW snap, NEW hand, Set(t, op, todo, snap, hand)
      PROVE  /\ tool'[t].hand = hand
             /\ \A u \in Tools : u # t => tool'[u].hand = tool[u].hand
  BY <1>1, TypesOf DEF Set
<1>2. ASSUME End(t)
      PROVE  /\ tool'[t].hand = <<>>
             /\ \A u \in Tools : u # t => tool'[u].hand = tool[u].hand
  BY <1>2, TypesOf, QuietType DEF End
<1> QED BY <1>1, <1>2

(* A tool takes the whole dead list.                                       *)
LEMMA BuriedClaim ==
    ASSUME Typed, Buried, NEW t \in Tools, ReviveClaim(t)
    PROVE  Respected
<1>1. /\ dead' = <<>> /\ kills' = kills /\ gone' = gone /\ tool[t].op = "none"
      /\ Set(t, "revive", {}, Absent, dead)
  BY DEF ReviveClaim, Still, Free
<1>2. tool[t].hand = <<>> /\ tool'[t].hand = dead
      /\ \A u \in Tools : u # t => tool'[u].hand = tool[u].hand
  BY <1>1, HandAfter, SessionFacts
<1>3. ToSet(<<>>) = {} /\ Distinct(<<>>)
  BY Elements, SessionFacts
<1>4. Distinct(dead) /\ Disjoint(ToSet(dead), gone)
  BY DEF Buried
<1>5. /\ Distinct(dead') /\ Distinct(tool'[t].hand) /\ Disjoint(ToSet(dead'), gone')
      /\ Disjoint(ToSet(tool'[t].hand), ToSet(dead') \cup gone')
  BY <1>1, <1>2, <1>3, <1>4 DEF Disjoint
<1>6. ToSet(dead') \cup ToSet(tool'[t].hand) \cup gone'
      = ToSet(dead) \cup ToSet(tool[t].hand) \cup gone
  BY <1>1, <1>2, <1>3
<1> QED BY <1>1, <1>2, <1>5, <1>6, BuriedMove

(* The entry at the head of a session's list is enqueued or skipped.       *)
LEMMA BuriedRevive ==
    ASSUME Typed, Buried, NEW t \in Tools, ReviveEnqueue(t)
    PROVE  Respected
<1>0. PICK h \in Seq(DeadEntry) : h = tool[t].hand
  BY SessionFacts
<1>1. /\ dead' = dead /\ kills' = kills /\ h # <<>> /\ gone' = gone \cup {Head(h)}
      /\ Set(t, "revive", {}, Absent, Tail(h))
  BY <1>0 DEF ReviveEnqueue
<1>2. tool'[t].hand = Tail(h) /\ \A u \in Tools : u # t => tool'[u].hand = tool[u].hand
  BY <1>1, HandAfter
<1>3. /\ Distinct(dead) /\ Disjoint(ToSet(dead), gone) /\ Distinct(h)
      /\ Disjoint(ToSet(h), ToSet(dead)) /\ Disjoint(ToSet(h), gone)
  BY <1>0 DEF Buried
<1>4. /\ Head(h) \in ToSet(h) /\ Distinct(Tail(h)) /\ ToSet(Tail(h)) = ToSet(h) \ {Head(h)}
  BY <1>1, <1>3, TailElements
<1>5. /\ Distinct(dead') /\ Distinct(tool'[t].hand) /\ Disjoint(ToSet(dead'), gone')
      /\ Disjoint(ToSet(tool'[t].hand), ToSet(dead') \cup gone')
  BY <1>1, <1>2, <1>3, <1>4 DEF Disjoint
<1>6. ToSet(dead') \cup ToSet(tool'[t].hand) \cup gone'
      = ToSet(dead) \cup ToSet(tool[t].hand) \cup gone
  <2>1. ToSet(dead') \cup ToSet(Tail(h)) \cup gone' = ToSet(dead) \cup ToSet(h) \cup gone
    BY <1>1, <1>4
  <2> QED BY <1>0, <1>2, <2>1
<1> QED BY <1>1, <1>2, <1>5, <1>6, BuriedMove

(* A failed revival puts back what it holds.                               *)
LEMMA BuriedBack ==
    ASSUME Typed, Buried, NEW t \in Tools, ReviveFails(t)
    PROVE  Respected
<1>0. PICK h \in Seq(DeadEntry) : h = tool[t].hand
  BY SessionFacts
<1>1. dead' = dead \o h /\ kills' = kills /\ gone' = gone /\ End(t)
  BY <1>0 DEF ReviveFails
<1>2. tool'[t].hand = <<>> /\ \A u \in Tools : u # t => tool'[u].hand = tool[u].hand
  BY <1>1, HandAfter
<1>3. /\ Distinct(dead) /\ Disjoint(ToSet(dead), gone) /\ Distinct(h)
      /\ Disjoint(ToSet(dead), ToSet(h)) /\ Disjoint(ToSet(h), gone)
      /\ dead \in Seq(DeadEntry)
  BY <1>0, TypesOf DEF Buried, Disjoint
<1>4. Distinct(dead \o h) /\ ToSet(dead \o h) = ToSet(dead) \cup ToSet(h)
  BY <1>3, DeadConcat, Zenon
<1>5. ToSet(<<>>) = {} /\ Distinct(<<>>)
  BY Elements, SessionFacts
<1>6. /\ Distinct(dead') /\ ToSet(dead') = ToSet(dead) \cup ToSet(h)
  BY <1>1, <1>4, Zenon
<1>7. /\ Distinct(tool'[t].hand) /\ Disjoint(ToSet(dead'), gone')
      /\ Disjoint(ToSet(tool'[t].hand), ToSet(dead') \cup gone')
  BY <1>1, <1>2, <1>3, <1>5, <1>6 DEF Disjoint
<1>8. ToSet(dead') \cup ToSet(tool'[t].hand) \cup gone'
      = ToSet(dead) \cup ToSet(tool[t].hand) \cup gone
  BY <1>0, <1>1, <1>2, <1>5, <1>6
<1>9. gone \subseteq gone'
  BY <1>1
<1> QED BY <1>1, <1>2, <1>6, <1>7, <1>8, <1>9, BuriedMove

(* A session that is done or crashes keeps the entries it holds.           *)
LEMMA BuriedEnd ==
    ASSUME Typed, Buried, NEW t \in Tools, ReviveEnd(t) \/ Crash(t)
    PROVE  Respected
<1>1. UNCHANGED <<dead, gone, kills>>
  BY DEF ReviveEnd, Crash, jobVars, Still
<1>2. \A u \in Tools : tool'[u].hand = tool[u].hand
  <2>1. CASE ReviveEnd(t)
    <3>1. tool[t].hand = <<>> /\ End(t)
      BY <2>1 DEF ReviveEnd
    <3> QED BY <3>1, HandAfter
  <2>2. CASE Crash(t) /\ At(t, "revive")
    <3>1. Set(t, "stranded", {}, Absent, tool[t].hand)
      BY <2>2 DEF Crash
    <3> QED BY <3>1, HandAfter
  <2>3. CASE Crash(t) /\ ~At(t, "revive")
    <3>1. tool[t].op \notin {"revive", "stranded"} /\ End(t)
      BY <2>3 DEF Crash, At
    <3> QED BY <3>1, HandAfter, SessionFacts
  <2> QED BY <2>1, <2>2, <2>3
<1> QED BY <1>1, <1>2, BuriedCalm

(* Every step respects the dead.                                           *)
LEMMA BuriedNext ==
    ASSUME Typed, Buried, [Next]_vars
    PROVE  Respected
<1>1. CASE UNCHANGED vars
  BY <1>1, BuriedCalm DEF vars
<1>2. ASSUME NEW w \in Workers, WorkerStep(w)
      PROVE  Respected
  BY <1>2, BuriedOutside, BuriedKill
<1>3. ASSUME NEW t \in Tools, ToolBegins(t)
      PROVE  Respected
  BY <1>3, BuriedTool, BuriedWipe, BuriedClaim DEF ToolBegins
<1>4. ASSUME NEW t \in Tools, ToolStep(t)
      PROVE  Respected
  BY <1>4, BuriedTool, BuriedRevive, BuriedBack, BuriedEnd DEF ToolStep
<1>5. CASE \/ \E i \in Ids : Age(i) \/ Enqueue(i) \/ EnqueueAt(i) \/ Promote(i)
           \/ CleanupScan \/ CleanupDelete
  BY <1>5, BuriedOutside
<1> QED BY <1>1, <1>2, <1>3, <1>4, <1>5 DEF Next, Cleanup

-----------------------------------------------------------------------------
(* The dates.                                                              *)

(* The gens and the kinds of what is stored and of what workers hold.      *)
LEMMA EnvelopeFacts ==
    ASSUME NEW e \in Envelope
    PROVE  e.gen \in 1 .. MaxGen /\ e.scheduled \in BOOLEAN /\ e # Absent
  BY Constants DEF Envelope

(* A step without a new envelope: what is stored, claimed and kept agreed  *)
(* before it.                                                              *)
LEMMA DatesKept ==
    ASSUME NEW kind, Dates(kind), gen' = gen, age' = age,
           \A i \in Ids : Agrees(kind, payload'[i]),
           \A w \in Workers :
               run'[w] # Absent => Agrees(kind, run'[w].env) /\ Agrees(kind, run'[w].read),
           \A x \in Kept' : Recorded(x),
           sweep' \in {sweep, Absent}
    PROVE  Dates(kind)'
<1>1. \A x \in Kept' : Agrees(kind, x.env)
  BY DEF Dates, Recorded
<1>2. \A i \in Ids : Agrees(kind, payload[i])'
  BY DEF Agrees
<1>3. \A w \in Workers :
          run'[w] # Absent => Agrees(kind, run[w].env)' /\ Agrees(kind, run[w].read)'
  BY DEF Agrees
<1>4. \A x \in Kept' : (x.env # Absent => x.env.gen <= gen' /\ x.env.scheduled = kind[x.env.gen])
  BY <1>1 DEF Agrees
<1>5. sweep' # Absent => \A i \in Ids : sweep'[i] # 0 =>
          /\ sweep'[i] <= gen'
          /\ age'[sweep'[i]] = 2 \/ (age'[sweep'[i]] = 1 /\ ~kind[sweep'[i]])
  <2>1. CASE sweep' = Absent
    BY <2>1
  <2>2. CASE sweep' = sweep
    BY <2>2 DEF Dates
  <2> QED BY <2>1, <2>2
<1> QED BY <1>2, <1>3, <1>4, <1>5 DEF Dates, Agrees

(* Workers.                                                                *)
LEMMA DatesWorker ==
    ASSUME Typed, NEW kind, Dates(kind), NEW w \in Workers, WorkerStep(w), UNCHANGED age,
           \A x \in Kept' : Recorded(x)
    PROVE  Dates(kind)'
<1>0. /\ gen' = gen /\ sweep' = sweep
  BY DEF WorkerStep, Claim, Load, StateRead, StateWrite, Finish, Retry, Kill
<1>1. /\ \A i \in Ids : Agrees(kind, payload[i])
      /\ \A v \in Workers :
            run[v] # Absent => Agrees(kind, run[v].env) /\ Agrees(kind, run[v].read)
      /\ Agrees(kind, Absent)
  BY DEF Dates, Agrees
<1>2. /\ payload \in [Ids -> {Absent} \cup Envelope] /\ run \in [Workers -> {Absent} \cup Claimed]
      /\ run[w] # Absent => run[w] \in Claimed /\ run[w].id \in Ids
  BY TypesOf DEF Claimed
<1>3. \A i \in Ids : Agrees(kind, payload'[i])
  <2>1. CASE Claim(w) \/ Load(w) \/ StateRead(w)
    BY <1>1, <2>1 DEF Claim, Load, StateRead
  <2>2. CASE StateWrite(w)
    BY <1>1, <1>2, <2>2 DEF StateWrite, Running
  <2>3. CASE Finish(w) \/ Kill(w)
    BY <1>1, <1>2, <2>3 DEF Finish, Kill, Done, Running
  <2>4. CASE Retry(w)
    <3>1. PICK i \in Ids : i = run[w].id
      BY <1>2, <2>4 DEF Retry, Done, Running
    <3>2. CASE payload' = payload
      BY <1>1, <3>2
    <3>3. CASE payload[i] # Absent /\ payload' = [payload EXCEPT ![i].retries = 1]
      <4>1. /\ payload[i] \in Envelope /\ payload'[i] = [payload[i] EXCEPT !.retries = 1]
            /\ \A j \in Ids : j # i => payload'[j] = payload[j]
        BY <1>2, <3>3
      <4>2. payload'[i].gen = payload[i].gen /\ payload'[i].scheduled = payload[i].scheduled
        BY <4>1 DEF Envelope
      <4>3. Agrees(kind, payload'[i])
        BY <1>1, <3>3, <4>2 DEF Agrees
      <4> QED BY <1>1, <4>1, <4>3
    <3> QED BY <2>4, <3>1, <3>2, <3>3 DEF Retry, Stored
  <2> QED BY <2>1, <2>2, <2>3, <2>4 DEF WorkerStep
<1>4. \A v \in Workers : v # w => run'[v] = run[v]
  BY <1>2 DEF WorkerStep, Claim, Load, StateRead, StateWrite, Finish, Retry, Kill, Release
<1>5. run'[w] # Absent => Agrees(kind, run'[w].env) /\ Agrees(kind, run'[w].read)
  <2>1. CASE Claim(w)
    <3>1. PICK i \in Ids : run' = [run EXCEPT ![w] = [id |-> i, env |-> Absent, read |-> Absent]]
      BY <2>1 DEF Claim, Queued
    <3>2. run'[w].env = Absent /\ run'[w].read = Absent
      BY <1>2, <3>1
    <3> QED BY <1>1, <3>2
  <2>2. CASE Load(w)
    <3>1. CASE Release(w)
      BY <1>2, <3>1 DEF Release
    <3>2. CASE run' = [run EXCEPT ![w].env = payload[run[w].id]]
      <4>1. run[w] # Absent /\ run[w] \in Claimed
        BY <1>2, <2>2 DEF Load
      <4>2. run'[w].env = payload[run[w].id] /\ run'[w].read = run[w].read
        BY <1>2, <3>2, <4>1 DEF Claimed
      <4> QED BY <1>1, <1>2, <4>1, <4>2
    <3> QED BY <2>2, <3>1, <3>2 DEF Load
  <2>3. CASE StateRead(w)
    <3>1. run' = [run EXCEPT ![w].read = payload[run[w].id]] /\ run[w] # Absent /\ run[w] \in Claimed
      BY <1>2, <2>3 DEF StateRead, Running
    <3>2. run'[w].read = payload[run[w].id] /\ run'[w].env = run[w].env
      BY <1>2, <3>1 DEF Claimed
    <3> QED BY <1>1, <1>2, <3>1, <3>2
  <2>4. CASE StateWrite(w)
    <3>1. run' = [run EXCEPT ![w].read = Absent] /\ run[w] # Absent /\ run[w] \in Claimed
      BY <1>2, <2>4 DEF StateWrite, Running
    <3>2. run'[w].read = Absent /\ run'[w].env = run[w].env
      BY <1>2, <3>1 DEF Claimed
    <3> QED BY <1>1, <1>2, <3>1, <3>2
  <2>5. CASE Finish(w) \/ Retry(w) \/ Kill(w)
    BY <1>2, <2>5 DEF Finish, Retry, Kill, Release
  <2> QED BY <2>1, <2>2, <2>3, <2>4, <2>5 DEF WorkerStep
<1>6. \A v \in Workers :
          run'[v] # Absent => Agrees(kind, run'[v].env) /\ Agrees(kind, run'[v].read)
  BY <1>1, <1>4, <1>5
<1> QED BY <1>0, <1>3, <1>6, DatesKept

(* Tools.                                                                  *)
LEMMA DatesTool ==
    ASSUME Typed, NEW kind, Dates(kind), NEW t \in Tools, ToolBegins(t) \/ ToolStep(t),
           UNCHANGED age, \A x \in Kept' : Recorded(x)
    PROVE  Dates(kind)'
<1>0. gen' = gen /\ sweep' = sweep /\ run' = run
  BY DEF ToolBegins, ToolStep, WipeRead, WipeDead, RetryAllRead, ReviveClaim, DeleteRead,
         WipePayloads, WipeList, DeleteJob, RetryAllSnapshot, RetryAllMove, ReviveEnqueue,
         ReviveFails, ReviveEnd, Crash, Still, jobVars
<1>1. /\ \A i \in Ids : Agrees(kind, payload[i])
      /\ \A v \in Workers :
            run[v] # Absent => Agrees(kind, run[v].env) /\ Agrees(kind, run[v].read)
      /\ Agrees(kind, Absent)
  BY DEF Dates, Agrees
<1>2. payload \in [Ids -> {Absent} \cup Envelope]
  BY TypesOf
<1>3. \A i \in Ids : Agrees(kind, payload'[i])
  <2>1. CASE WipePayloads(t)
    BY <1>1, <2>1 DEF WipePayloads
  <2>2. CASE DeleteJob(t)
    <3>1. PICK i : payload' = [payload EXCEPT ![i] = Absent]
      BY <2>2 DEF DeleteJob
    <3> QED BY <1>1, <1>2, <3>1
  <2>3. CASE ReviveEnqueue(t)
    <3>1. PICK h \in Seq(DeadEntry) : h = tool[t].hand
      BY SessionFacts
    <3>2. h # <<>> /\ Head(h) \in ToSet(h)
      <4>1. h # <<>>
        BY <2>3, <3>1 DEF ReviveEnqueue
      <4> QED BY <4>1 DEF ToSet
    <3>3. PICK x : x = Head(h)
      OBVIOUS
    <3>4. Agrees(kind, x.env)
      BY <3>1, <3>2, <3>3, Keepers DEF Dates
    <3>5. payload' = payload \/ payload' = [payload EXCEPT ![x.id] = x.env]
      BY <2>3, <3>1, <3>3 DEF ReviveEnqueue, EnqueueEnvelope
    <3> QED BY <1>1, <1>2, <3>4, <3>5
  <2>4. CASE UNCHANGED payload
    BY <1>1, <2>4
  <2>5. \/ WipePayloads(t) \/ DeleteJob(t) \/ ReviveEnqueue(t) \/ UNCHANGED payload
    BY DEF ToolBegins, ToolStep, WipeRead, WipeDead, RetryAllRead, ReviveClaim, DeleteRead,
           WipeList, RetryAllSnapshot, RetryAllMove, ReviveFails, ReviveEnd, Crash, jobVars
  <2> QED BY <2>1, <2>2, <2>3, <2>4, <2>5
<1> QED BY <1>0, <1>1, <1>3, DatesKept

(* A new enqueue fixes the kind of its number; older ones keep theirs.     *)
LEMMA DatesGrow ==
    ASSUME Typed, NEW kind \in [1 .. MaxGen -> BOOLEAN], Dates(kind), NEW b \in BOOLEAN,
           NEW i \in Ids, gen < MaxGen, gen' = gen + 1,
           payload' = [payload EXCEPT ![i] = [gen |-> gen', retries |-> 0, scheduled |-> b]],
           UNCHANGED <<run, dead, tool, sweep, age>>
    PROVE  Dated'
<1> DEFINE env == [gen |-> gen', retries |-> 0, scheduled |-> b]
<1>1. /\ gen \in Nat /\ gen + 1 \in 1 .. MaxGen
      /\ payload \in [Ids -> {Absent} \cup Envelope] /\ run \in [Workers -> {Absent} \cup Claimed]
  BY TypesOf, Constants
<1>2. PICK k \in [1 .. MaxGen -> BOOLEAN] :
          /\ k[gen + 1] = b
          /\ \A g \in 1 .. MaxGen : g <= gen => k[g] = kind[g]
  <2> DEFINE new == [kind EXCEPT ![gen + 1] = b]
  <2>1. /\ new \in [1 .. MaxGen -> BOOLEAN] /\ new[gen + 1] = b
        /\ \A g \in 1 .. MaxGen : g <= gen => new[g] = kind[g]
    BY <1>1
  <2> QED BY <2>1
<1>3. ASSUME NEW e \in {Absent} \cup Envelope, Agrees(kind, e)
      PROVE  e # Absent => e.gen <= gen' /\ e.scheduled = k[e.gen]
  <2> SUFFICES ASSUME e # Absent PROVE e.gen <= gen' /\ e.scheduled = k[e.gen]
    OBVIOUS
  <2>1. e.gen \in 1 .. MaxGen /\ e.gen <= gen /\ e.scheduled = kind[e.gen]
    BY <1>3, EnvelopeFacts DEF Agrees
  <2>2. e.gen <= gen + 1
    BY <1>1, <2>1
  <2> QED BY <1>2, <2>1, <2>2
<1>4. env.gen = gen' /\ env.scheduled = b
  OBVIOUS
<1>5. payload'[i] = env /\ \A j \in Ids : j # i => payload'[j] = payload[j]
  BY <1>1
<1> HIDE DEF env
<1>6. ASSUME NEW j \in Ids
      PROVE  payload'[j] # Absent => payload'[j].gen <= gen' /\ payload'[j].scheduled = k[payload'[j].gen]
  <2>1. CASE j = i
    <3>1. payload'[j].gen = gen + 1 /\ payload'[j].scheduled = b /\ gen + 1 <= gen'
      BY <1>1, <1>4, <1>5, <2>1
    <3> QED BY <1>2, <3>1
  <2>2. CASE j # i
    <3>1. Agrees(kind, payload[j]) /\ payload[j] \in {Absent} \cup Envelope
      BY <1>1 DEF Dates
    <3> QED BY <1>3, <1>5, <2>2, <3>1
  <2> QED BY <2>1, <2>2
<1>7. ASSUME NEW w \in Workers, run[w] # Absent
      PROVE  /\ run[w].env # Absent => run[w].env.gen <= gen' /\ run[w].env.scheduled = k[run[w].env.gen]
             /\ run[w].read # Absent => run[w].read.gen <= gen' /\ run[w].read.scheduled = k[run[w].read.gen]
  <2>1. run[w].env \in {Absent} \cup Envelope /\ run[w].read \in {Absent} \cup Envelope
    BY <1>1, <1>7 DEF Claimed
  <2>2. Agrees(kind, run[w].env) /\ Agrees(kind, run[w].read)
    BY <1>7 DEF Dates
  <2> QED BY <1>3, <2>1, <2>2
<1>8. Kept' = Kept
  BY DEF Kept
<1>9. ASSUME NEW x \in Kept
      PROVE  x.env # Absent => x.env.gen <= gen' /\ x.env.scheduled = k[x.env.gen]
  <2>1. x \in DeadEntry
    <3>1. ToSet(dead) \subseteq DeadEntry
      BY TypesOf, Elements
    <3>2. \A t \in Tools : ToSet(tool[t].hand) \subseteq DeadEntry
      BY SessionFacts, Elements
    <3> QED BY <3>1, <3>2, Keepers
  <2>2. x.env \in {Absent} \cup Envelope
    BY <2>1 DEF DeadEntry
  <2>3. Agrees(kind, x.env)
    BY DEF Dates
  <2> QED BY <1>3, <2>2, <2>3
<1>10. ASSUME sweep # Absent, NEW j \in Ids, sweep[j] # 0
       PROVE  /\ sweep[j] <= gen'
              /\ age[sweep[j]] = 2 \/ (age[sweep[j]] = 1 /\ ~k[sweep[j]])
  <2>1. sweep[j] \in 1 .. MaxGen
    <3>1. sweep[j] \in 0 .. MaxGen /\ MaxGen \in Nat
      BY <1>10, Constants DEF Typed
    <3> QED BY <1>10, <3>1
  <2>2. /\ sweep[j] <= gen
        /\ age[sweep[j]] = 2 \/ (age[sweep[j]] = 1 /\ ~kind[sweep[j]])
    BY <1>10 DEF Dates
  <2>3. sweep[j] <= gen + 1
    BY <1>1, <2>1, <2>2
  <2> QED BY <1>2, <2>1, <2>2, <2>3
<1>11. Dates(k)'
  BY <1>6, <1>7, <1>8, <1>9, <1>10 DEF Dates, Agrees
<1> QED BY <1>2, <1>11 DEF Dated

(* Producers and the promoter.                                             *)
LEMMA DatedProducer ==
    ASSUME Typed, NEW kind \in [1 .. MaxGen -> BOOLEAN], Dates(kind), NEW i \in Ids,
           Enqueue(i) \/ EnqueueAt(i) \/ Promote(i), UNCHANGED age
    PROVE  Dated'
<1>1. CASE Enqueue(i)
  BY <1>1, DatesGrow DEF Enqueue, EnqueueEnvelope
<1>2. CASE EnqueueAt(i)
  BY <1>2, DatesGrow DEF EnqueueAt
<1>3. CASE Promote(i)
  <2>1. UNCHANGED <<payload, run, dead, tool, sweep, gen, age>>
    BY <1>3 DEF Promote
  <2>2. Dates(kind)'
    BY <2>1 DEF Dates, Agrees, Kept
  <2> QED BY <2>2 DEF Dated
<1> QED BY <1>1, <1>2, <1>3

(* Time passes: what had expired has still expired.                        *)
LEMMA DatedAge ==
    ASSUME Typed, NEW kind \in [1 .. MaxGen -> BOOLEAN], Dates(kind), NEW i \in Ids, Age(i)
    PROVE  Dated'
<1>1. UNCHANGED <<payload, run, dead, tool, sweep, gen>>
  BY DEF Age
<1>2. PICK g : g = payload[i].gen
  OBVIOUS
<1>3. /\ g \in 1 .. MaxGen /\ payload[i].scheduled = kind[g]
      /\ age \in [1 .. MaxGen -> 0 .. 2]
  <2>1. payload[i] \in Envelope /\ payload[i] # Absent
    BY TypesOf DEF Age, Stored
  <2> QED BY <1>2, <2>1, EnvelopeFacts DEF Dates, Agrees, Typed, TypeOK
<1>4. /\ age[g] < 2 /\ (~kind[g] => age[g] < 1)
      /\ age' = [h \in 1 .. MaxGen |-> IF h = g THEN age[h] + 1
                                       ELSE IF h < g /\ age[h] = 0 THEN 1 ELSE age[h]]
  <2>1. age[g] < IF kind[g] THEN 2 ELSE 1
    BY <1>2, <1>3 DEF Age
  <2>2. age[g] \in 0 .. 2
    BY <1>3
  <2>3. age[g] < 2 /\ (~kind[g] => age[g] < 1)
    BY <2>1, <2>2
  <2>4. DOMAIN age = 1 .. MaxGen
    BY <1>3
  <2> QED BY <1>2, <2>3, <2>4 DEF Age
<1>5. ASSUME NEW h \in 1 .. MaxGen, age[h] = 2 \/ (age[h] = 1 /\ ~kind[h])
      PROVE  age'[h] = age[h]
  <2>1. h # g
    BY <1>3, <1>4, <1>5
  <2> QED BY <1>4, <1>5, <2>1
<1>6. ASSUME sweep # Absent, NEW j \in Ids, sweep[j] # 0
      PROVE  /\ sweep[j] <= gen
             /\ age'[sweep[j]] = 2 \/ (age'[sweep[j]] = 1 /\ ~kind[sweep[j]])
  <2>1. sweep[j] \in 1 .. MaxGen
    <3>1. sweep[j] \in 0 .. MaxGen /\ MaxGen \in Nat
      BY <1>6, Constants DEF Typed
    <3> QED BY <1>6, <3>1
  <2>2. /\ sweep[j] <= gen
        /\ age[sweep[j]] = 2 \/ (age[sweep[j]] = 1 /\ ~kind[sweep[j]])
    BY <1>6 DEF Dates
  <2> QED BY <1>5, <2>1, <2>2
<1>7. Dates(kind)'
  BY <1>1, <1>6 DEF Dates, Agrees, Kept
<1> QED BY <1>7 DEF Dated

(* The cleanup collects what has expired.                                  *)
LEMMA DatedScan ==
    ASSUME Typed, NEW kind \in [1 .. MaxGen -> BOOLEAN], Dates(kind), CleanupScan, UNCHANGED age
    PROVE  Dated'
<1>1. UNCHANGED <<payload, run, dead, tool, gen>>
  BY DEF CleanupScan
<1>2. ASSUME NEW j \in Ids, sweep'[j] # 0
      PROVE  /\ sweep'[j] <= gen
             /\ age[sweep'[j]] = 2 \/ (age[sweep'[j]] = 1 /\ ~kind[sweep'[j]])
  <2>1. Stored(j) /\ Expired(payload[j]) /\ sweep'[j] = payload[j].gen
    BY <1>2 DEF CleanupScan
  <2>2. PICK g \in 1 .. MaxGen : g = payload[j].gen /\ g <= gen /\ payload[j].scheduled = kind[g]
    <3>1. payload[j] \in Envelope /\ payload[j] # Absent
      BY <2>1, TypesOf DEF Stored
    <3> QED BY <3>1, EnvelopeFacts DEF Dates, Agrees
  <2>3. age[g] \in 0 .. 2 /\ age[g] >= (IF kind[g] THEN 2 ELSE 1)
    BY <2>1, <2>2 DEF Expired, Typed, TypeOK
  <2>4. age[g] = 2 \/ (age[g] = 1 /\ ~kind[g])
    <3>1. CASE kind[g]
      BY <2>3, <3>1
    <3>2. CASE ~kind[g]
      BY <2>3, <3>2
    <3> QED BY <3>1, <3>2
  <2> QED BY <2>1, <2>2, <2>4
<1>3. Dates(kind)'
  BY <1>1, <1>2 DEF Dates, Agrees, Kept
<1> QED BY <1>3 DEF Dated

(* The cleanup deletes it.                                                 *)
LEMMA DatedDelete ==
    ASSUME Typed, NEW kind \in [1 .. MaxGen -> BOOLEAN], Dates(kind), CleanupDelete, UNCHANGED age
    PROVE  Dated'
<1>1. UNCHANGED <<run, dead, tool, gen>> /\ sweep' = Absent
      /\ payload' = [j \in Ids |-> IF sweep[j] # 0 THEN Absent ELSE payload[j]]
  BY DEF CleanupDelete
<1>2. \A j \in Ids : payload'[j] # Absent => payload'[j] = payload[j]
  BY <1>1
<1>3. Dates(kind)'
  BY <1>1, <1>2 DEF Dates, Agrees, Kept
<1> QED BY <1>3 DEF Dated

-----------------------------------------------------------------------------
(* The invariant holds in every state, and every step respects the dead.   *)

(* At the start nothing is listed, stored, dead or held.                   *)
LEMMA InvInit ==
    ASSUME Init
    PROVE  Inv
<1>0. <<>> \in Seq(DeadEntry) /\ ToSet(<<>>) = {} /\ Distinct(<<>>)
  <2>1. <<>> \in Seq(DeadEntry)
    OBVIOUS
  <2> QED BY <2>1, Elements
<1>1. Typed
  <2>1. TypeOK
    <3>1. 0 \in Nat /\ 0 \in 0 .. 2 /\ 0 \in 0 .. MaxGen /\ 0 \in 0 .. MaxOps /\ 0 \in 0 .. MaxErrors
      BY Constants
    <3> QED BY <3>1 DEF Init, TypeOK
  <2>2. tool \in [Tools -> Session] /\ \A t \in Tools : SessionOK(tool[t])
    BY QuietType DEF Init
  <2> QED BY <1>0, <2>1, <2>2 DEF Init, Typed
<1>2. Placed
  <2> SUFFICES ASSUME NEW i \in Ids PROVE Listed(i) = 0 /\ ~Stored(i)
    BY DEF Placed, ListedStored, OrphansExplained
  <2>1. Claims(i) = {} /\ Cardinality({}) = 0
    BY FS_EmptySet DEF Init, Claims
  <2>2. Cardinality(Claims(i)) = 0 /\ queue[i] = 0 /\ retry[i] = Absent
    BY <2>1 DEF Init
  <2>3. Listed(i) = 0
    BY <2>2 DEF Listed
  <2> QED BY <2>3 DEF Init, Stored
<1>3. \A t \in Tools : tool[t].hand = <<>>
  BY QuietType DEF Init
<1>4. Buried
  BY <1>0, <1>3 DEF Init, Buried, Disjoint
<1>5. Dated
  <2>1. PICK kind \in [1 .. MaxGen -> BOOLEAN] : TRUE
    <3>1. [g \in 1 .. MaxGen |-> FALSE] \in [1 .. MaxGen -> BOOLEAN]
      OBVIOUS
    <3> QED BY <3>1
  <2>2. \A x : x \notin Kept
    BY <1>0, <1>3, Keepers DEF Init
  <2>3. Dates(kind)
    BY <2>2 DEF Init, Dates, Agrees
  <2> QED BY <2>3 DEF Dated
<1> QED BY <1>1, <1>2, <1>4, <1>5 DEF Inv

(* Types after a step.                                                     *)
LEMMA TypedNext ==
    ASSUME Typed, Next
    PROVE  Typed'
  BY TypedCleanup, TypedOutside, TypedWorker, TypedBegins, TypedTool DEF Next

(* Places after a step.                                                    *)
LEMMA PlacedNext ==
    ASSUME Typed, Placed, Typed', Next
    PROVE  Placed'
  BY PlacedCleanup, PlacedOutside, PlacedWorker, PlacedTool DEF Next

(* Dates after a step.                                                     *)
LEMMA DatedNext ==
    ASSUME Typed, Dated, Next, \A x \in Kept' : Recorded(x)
    PROVE  Dated'
<1>1. PICK kind \in [1 .. MaxGen -> BOOLEAN] : Dates(kind)
  BY DEF Dated
<1>2. ASSUME NEW i \in Ids, Age(i) PROVE Dated'
  BY <1>1, <1>2, DatedAge
<1>3. ASSUME Cleanup PROVE Dated'
  BY <1>1, <1>3, DatedScan, DatedDelete DEF Cleanup
<1>4. ASSUME NEW i \in Ids, Enqueue(i) \/ EnqueueAt(i) \/ Promote(i), UNCHANGED age
      PROVE  Dated'
  BY <1>1, <1>4, DatedProducer
<1>5. ASSUME NEW w \in Workers, WorkerStep(w), UNCHANGED age PROVE Dated'
  <2>1. Dates(kind)'
    BY <1>1, <1>5, DatesWorker
  <2> QED BY <2>1 DEF Dated
<1>6. ASSUME NEW t \in Tools, ToolBegins(t) \/ ToolStep(t), UNCHANGED age PROVE Dated'
  <2>1. Dates(kind)'
    BY <1>1, <1>6, DatesTool
  <2> QED BY <2>1 DEF Dated
<1> QED BY <1>2, <1>3, <1>4, <1>5, <1>6 DEF Next

(* The invariant after a step.                                             *)
LEMMA InvNext ==
    ASSUME Inv, [Next]_vars
    PROVE  Inv'
<1>1. CASE UNCHANGED vars
  <2>1. Typed' /\ Buried'
    BY <1>1 DEF vars, Inv, Typed, TypeOK, Buried
  <2>2. Placed'
    BY <1>1, <2>1, PlacedCalm DEF vars, Inv
  <2>3. Dated'
    <3>1. PICK kind \in [1 .. MaxGen -> BOOLEAN] : Dates(kind)
      BY DEF Inv, Dated
    <3>2. UNCHANGED <<payload, run, dead, tool, sweep, gen, age>>
      BY <1>1 DEF vars
    <3>3. Dates(kind)'
      BY <3>1, <3>2 DEF Dates, Agrees, Kept
    <3> QED BY <3>3 DEF Dated
  <2> QED BY <2>1, <2>2, <2>3 DEF Inv
<1>2. CASE Next
  <2>1. Typed /\ Placed /\ Buried /\ Dated
    BY DEF Inv
  <2>2. Typed'
    BY <1>2, <2>1, TypedNext
  <2>3. Placed'
    BY <1>2, <2>1, <2>2, PlacedNext
  <2>4. Buried' /\ \A x \in Kept' : Recorded(x)
    BY <1>2, <2>1, BuriedNext DEF Respected
  <2>5. Dated'
    BY <1>2, <2>1, <2>4, DatedNext
  <2> QED BY <2>2, <2>3, <2>4, <2>5 DEF Inv
<1> QED BY <1>1, <1>2

(* The invariant always holds.                                             *)
LEMMA InvAlways == Spec => []Inv
<1>1. Init => Inv
  BY InvInit
<1>2. Inv /\ [Next]_vars => Inv'
  BY InvNext
<1> QED BY <1>1, <1>2, PTL DEF Spec

(* However the operators' tools, the cleanup loop and the workers          *)
(* interleave, an id whose payload was not deleted under it is in one      *)
(* place, a dead job in one hand, and a payload that nothing lists was     *)
(* left by a wipe.                                                         *)
THEOREM JobsAreAccounted == Spec => []JobsAccounted
<1>1. ASSUME Inv PROVE JobsAccounted
  <2>1. TypeOK /\ OrphansExplained
    BY <1>1 DEF Inv, Typed, Placed
  <2>2. OnePlace
    BY <1>1 DEF Inv, Placed, ListedStored, OnePlace
  <2>3. DeadInOneHand
    BY <1>1 DEF Inv, Buried, Disjoint, DeadInOneHand
  <2> QED BY <2>1, <2>2, <2>3 DEF JobsAccounted
<1>2. Inv => JobsAccounted
  BY <1>1
<1> QED BY <1>2, InvAlways, PTL

(* The cleanup deletes no payload within its retention that it has seen,   *)
(* and no step loses a dead job that was not wiped, trimmed or revived.    *)
THEOREM NothingIsLost == Spec => NothingVanishes
<1>1. ASSUME Inv, [Next]_vars
      PROVE  [\A i \in Ids : (sweep # Absent /\ sweep' = Absent /\ Stored(i) /\ payload'[i] = Absent)
                 => \/ payload[i].gen # sweep[i]
                    \/ age[payload[i].gen] = 2
                    \/ age[payload[i].gen] = 1 /\ ~payload[i].scheduled]_vars
  <2> SUFFICES ASSUME NEW i \in Ids, sweep # Absent, sweep' = Absent, Stored(i),
                      payload'[i] = Absent, payload[i].gen = sweep[i]
               PROVE  \/ age[payload[i].gen] = 2
                      \/ age[payload[i].gen] = 1 /\ ~payload[i].scheduled
    OBVIOUS
  <2>1. PICK kind \in [1 .. MaxGen -> BOOLEAN] : Dates(kind)
    BY <1>1 DEF Inv, Dated
  <2>2. Typed /\ payload[i] \in Envelope /\ payload[i] # Absent
    BY <1>1, TypesOf DEF Inv, Stored
  <2>3. payload[i].gen \in 1 .. MaxGen /\ payload[i].scheduled \in BOOLEAN
        /\ payload[i].scheduled = kind[payload[i].gen]
    BY <2>1, <2>2, EnvelopeFacts DEF Dates, Agrees
  <2>4. sweep[i] # 0
    BY <2>3
  <2>5. age[sweep[i]] = 2 \/ (age[sweep[i]] = 1 /\ ~kind[sweep[i]])
    BY <2>1, <2>4 DEF Dates
  <2> QED BY <2>3, <2>5
<1>2. ASSUME Inv, [Next]_vars
      PROVE  [Kept \subseteq Kept' \cup gone']_vars
  BY <1>2, BuriedNext DEF Inv, Respected
<1>3. Spec => CleanupSparesFresh
  <2>1. Inv /\ [Next]_vars
        => [\A i \in Ids : (sweep # Absent /\ sweep' = Absent /\ Stored(i) /\ payload'[i] = Absent)
                 => \/ payload[i].gen # sweep[i]
                    \/ age[payload[i].gen] = 2
                    \/ age[payload[i].gen] = 1 /\ ~payload[i].scheduled]_vars
    BY <1>1
  <2> QED BY <2>1, InvAlways, PTL DEF Spec, CleanupSparesFresh
<1>4. Spec => DeadKept
  <2>1. Inv /\ [Next]_vars => [Kept \subseteq Kept' \cup gone']_vars
    BY <1>2
  <2> QED BY <2>1, InvAlways, PTL DEF Spec, DeadKept
<1> QED BY <1>3, <1>4, PTL DEF NothingVanishes
=============================================================================
