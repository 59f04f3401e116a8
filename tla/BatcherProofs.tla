--------------------------- MODULE BatcherProofs ---------------------------
(***************************************************************************)
(* Proofs about the way of a job through batchers and batches, for any     *)
(* number of jobs, keys and batcher slots, any batch size and any number   *)
(* of errors.                                                              *)
(*                                                                         *)
(* The invariant says where every job is (in one place, once), and how far *)
(* a batch has come with each of its jobs.  Every step is one of three     *)
(* kinds: it moves jobs along the line of a batcher (LineStep), it brings  *)
(* a batch forward (TaskStep, Settling), or it takes jobs from the         *)
(* coordinator's inbox (EarlyStep).  A lemma for each kind carries the     *)
(* invariant, and a lemma for each action shows of which kind it is.       *)
(***************************************************************************)
EXTENDS Batcher, SequenceTheorems, FiniteSetTheorems, TLAPS

-----------------------------------------------------------------------------
(* Sequences without repetition, by the sets of their elements.            *)

Distinct(s) == \A i, k \in 1 .. Len(s) : s[i] = s[k] => i = k

Disjoint(A, B) == \A x \in A : x \notin B

(* The elements of a sequence.                                             *)
LEMMA Elements ==
    ASSUME NEW s \in Seq(Jobs)
    PROVE  /\ ToSet(s) \subseteq Jobs
           /\ \A x : x \in ToSet(s) <=> \E i \in 1 .. Len(s) : s[i] = x
           /\ ToSet(<<>>) = {} /\ Distinct(<<>>)
           /\ s # <<>> => Len(s) > 0
  BY DEF ToSet, Distinct

(* The head of a sequence without repetition is not in its tail.           *)
LEMMA TailElements ==
    ASSUME NEW s \in Seq(Jobs), s # <<>>, Distinct(s)
    PROVE  /\ Head(s) \in ToSet(s) /\ Head(s) \in Jobs
           /\ Tail(s) \in Seq(Jobs) /\ Len(Tail(s)) = Len(s) - 1
           /\ Distinct(Tail(s)) /\ ToSet(Tail(s)) = ToSet(s) \ {Head(s)}
<1>1. Len(s) \in Nat /\ Len(s) > 0 /\ Head(s) = s[1] /\ DOMAIN s = 1 .. Len(s)
  BY EmptySeq
<1>2. /\ Tail(s) \in Seq(Jobs) /\ Len(Tail(s)) = Len(s) - 1
      /\ \A i \in 1 .. Len(Tail(s)) : Tail(s)[i] = s[i + 1]
      /\ DOMAIN Tail(s) = 1 .. Len(Tail(s))
  BY HeadTailProperties, LenProperties
<1>3. Head(s) \in ToSet(s) /\ Head(s) \in Jobs
  BY <1>1 DEF ToSet
<1>4. Distinct(Tail(s))
  <2> SUFFICES ASSUME NEW i \in 1 .. Len(Tail(s)), NEW k \in 1 .. Len(Tail(s)),
                      Tail(s)[i] = Tail(s)[k]
               PROVE  i = k
    BY DEF Distinct
  <2>1. s[i + 1] = s[k + 1] /\ i + 1 \in 1 .. Len(s) /\ k + 1 \in 1 .. Len(s)
    BY <1>1, <1>2
  <2>2. i + 1 = k + 1
    BY <2>1 DEF Distinct
  <2> QED BY <2>2
<1>5. ToSet(Tail(s)) \subseteq ToSet(s) \ {Head(s)}
  <2> SUFFICES ASSUME NEW i \in 1 .. Len(Tail(s))
               PROVE  Tail(s)[i] \in ToSet(s) \ {Head(s)}
    BY <1>2 DEF ToSet
  <2>1. Tail(s)[i] = s[i + 1] /\ i + 1 \in 1 .. Len(s) /\ 1 \in 1 .. Len(s) /\ i + 1 # 1
    BY <1>1, <1>2
  <2>2. s[i + 1] # s[1]
    BY <2>1 DEF Distinct
  <2> QED BY <1>1, <2>1, <2>2 DEF ToSet
<1>6. ToSet(s) \ {Head(s)} \subseteq ToSet(Tail(s))
  <2> SUFFICES ASSUME NEW i \in 1 .. Len(s), s[i] # s[1]
               PROVE  s[i] \in ToSet(Tail(s))
    BY <1>1 DEF ToSet
  <2>1. i - 1 \in 1 .. Len(Tail(s)) /\ Tail(s)[i - 1] = s[(i - 1) + 1] /\ (i - 1) + 1 = i
    BY <1>1, <1>2
  <2> QED BY <1>2, <2>1 DEF ToSet
<1> QED BY <1>2, <1>3, <1>4, <1>5, <1>6

(* Appending an element that is not there yet.                             *)
LEMMA AppendElements ==
    ASSUME NEW s \in Seq(Jobs), NEW e \in Jobs
    PROVE  /\ Append(s, e) \in Seq(Jobs) /\ Len(Append(s, e)) = Len(s) + 1 /\ Append(s, e) # <<>>
           /\ ToSet(Append(s, e)) = ToSet(s) \cup {e}
           /\ Distinct(s) /\ e \notin ToSet(s) => Distinct(Append(s, e))
<1>1. /\ Append(s, e) \in Seq(Jobs) /\ Len(Append(s, e)) = Len(s) + 1 /\ Len(s) \in Nat
      /\ \A i \in 1 .. Len(s) : Append(s, e)[i] = s[i]
      /\ Append(s, e)[Len(s) + 1] = e
  OBVIOUS
<1>2. DOMAIN Append(s, e) = 1 .. (Len(s) + 1) /\ DOMAIN s = 1 .. Len(s)
  BY <1>1, LenProperties
<1>3. Append(s, e) # <<>>
  BY <1>1
<1>4. \A i \in 1 .. (Len(s) + 1) : i \in 1 .. Len(s) \/ i = Len(s) + 1
  BY <1>1
<1> HIDE <1>1
<1>5. ToSet(Append(s, e)) = ToSet(s) \cup {e}
  <2>1. ToSet(Append(s, e)) \subseteq ToSet(s) \cup {e}
    BY <1>1, <1>2, <1>4 DEF ToSet
  <2>2. \A i \in 1 .. Len(s) : i \in 1 .. (Len(s) + 1)
    BY <1>1
  <2>3. Len(s) + 1 \in 1 .. (Len(s) + 1)
    BY <1>1
  <2>4. ToSet(s) \cup {e} \subseteq ToSet(Append(s, e))
    BY <1>1, <1>2, <2>2, <2>3 DEF ToSet
  <2> QED BY <2>1, <2>4
<1>6. ASSUME Distinct(s), e \notin ToSet(s) PROVE Distinct(Append(s, e))
  <2>1. \A i \in 1 .. Len(s) : s[i] # e
    BY <1>2, <1>6 DEF ToSet
  <2> QED BY <1>1, <1>4, <1>6, <2>1 DEF Distinct
<1> QED BY <1>1, <1>3, <1>5, <1>6

(* One job by itself.                                                      *)
LEMMA SingleElement ==
    ASSUME NEW e \in Jobs
    PROVE  /\ <<e>> \in Seq(Jobs) /\ Len(<<e>>) = 1 /\ <<e>> # <<>>
           /\ ToSet(<<e>>) = {e} /\ Distinct(<<e>>)
  BY DEF ToSet, Distinct

-----------------------------------------------------------------------------
(* The inductive invariant.                                                *)

BatcherTask == [key : Keys \cup {Single}, pc : {"idle", "filling", "flush", "done"},
                open : BOOLEAN, chan : Seq(Jobs), pending : Seq(Jobs)]
BatchTask == [jobs : Seq(Jobs), pc : {"built", "finish"}, kind : {"none", "success", "failed"},
              held : SUBSET Jobs, todo : SUBSET Jobs, run : SUBSET Jobs]

Typed ==
    /\ TypeOK
    /\ inbox \in Seq(Jobs) /\ batcher \in [Slots -> BatcherTask]
    /\ \A t \in batches : t \in BatchTask
    /\ results \in [{"success", "failed"} -> Nat]

(* What a batcher has received or will receive, and what is before that.   *)
Line(b) == ToSet(batcher[b].chan) \cup ToSet(batcher[b].pending)
Early   == ToSet(inbox) \cup Sending

(* A job is in one place, once.                                            *)
Apart ==
    /\ Distinct(inbox) /\ Disjoint(ToSet(inbox), Sending)
    /\ \A b \in Slots :
         /\ Distinct(batcher[b].chan) /\ Distinct(batcher[b].pending)
         /\ Disjoint(ToSet(batcher[b].chan), ToSet(batcher[b].pending))
         /\ Disjoint(Line(b), Early)
         /\ \A c \in Slots : b # c => Disjoint(Line(b), Line(c))
    /\ \A t \in batches :
         /\ Disjoint(ToSet(t.jobs), Early)
         /\ \A b \in Slots : Disjoint(ToSet(t.jobs), Line(b))
         /\ \A u \in batches : t # u => Disjoint(ToSet(t.jobs), ToSet(u.jobs))

(* A job waits in the line of its own worker and queue, a closed task has  *)
(* no line, and what is not in a batch yet is claimed and nothing else.    *)
Routed ==
    /\ coord.pc = "send" => coord.job \in Jobs /\ KeyOf[coord.job] \in Keys
    /\ \A k \in Keys : current[k] # 0 /\ batcher[current[k]].open => batcher[current[k]].key = k
    /\ \A b \in Slots :
         /\ \A j \in Line(b) : KeyOf[j] = batcher[b].key
         /\ batcher[b].pc = "done" => ~batcher[b].open /\ Line(b) = {}
    /\ Disjoint(loaded, ToSet(inbox))
    /\ \A j \in Early \cup Waiting : outcome[j] = "claimed" /\ j \notin refused

(* The three stages of a batch, with the outcomes of its jobs: jobs to     *)
(* kill for their arguments and jobs to run; jobs that ran; and a batch    *)
(* the factory refused.                                                    *)
Built(t, oc, rf) ==
    /\ t.pc = "built" /\ Disjoint(ToSet(t.jobs), rf)
    /\ t.held = t.todo \cup t.run /\ t.todo \subseteq Malformed /\ Disjoint(t.run, Malformed)
    /\ \A j \in t.held : oc[j] = "claimed"
Finishing(t, oc, rf, fl) ==
    /\ t.pc = "finish" /\ t.kind # "none" /\ Disjoint(ToSet(t.jobs), rf)
    /\ t.held = t.run /\ t.todo \subseteq t.run /\ Disjoint(t.run, Malformed)
    /\ \A j \in t.todo : oc[j] = "claimed"
    /\ \A j \in t.run \ t.todo : oc[j] # "claimed" \/ fl
Condemned(t, oc, rf) ==
    /\ t.pc = "built" /\ t.run = {} /\ t.todo \subseteq t.held /\ t.held \subseteq rf
    /\ \A j \in t.todo : oc[j] = "claimed"
    /\ \A j \in t.held \ t.todo : oc[j] = "dead"

BatchOK(t, oc, rf, fl) ==
    /\ Len(t.jobs) <= BatchSize /\ \A i, j \in ToSet(t.jobs) : KeyOf[i] = KeyOf[j]
    /\ t.held \subseteq ToSet(t.jobs)
    /\ Built(t, oc, rf) \/ Finishing(t, oc, rf, fl) \/ Condemned(t, oc, rf)

BatchesOK == \A t \in batches : BatchOK(t, outcome, refused, failed)

BatcherInv == Typed /\ Apart /\ Routed /\ BatchesOK

(* A job that left memory with a result in the store, as ResultsMatchStore *)
(* counts it.                                                              *)
HasRun(j) == \/ outcome[j] \in {"done", "retry"}
             \/ outcome[j] = "dead" /\ j \notin Malformed \cup refused
Ran == {j \in Jobs \ InBatch : HasRun(j)}

Kept == BatcherInv /\ PermitsFollowJobs /\ LoadedAreSettled /\ StoreAgrees

(* What the task has to say of a freshly built batch.                      *)
LEMMA FreshBatch ==
    ASSUME NEW js \in Seq(Jobs), Len(js) <= BatchSize,
           \A i, j \in ToSet(js) : KeyOf[i] = KeyOf[j],
           NEW oc, NEW rf, NEW fl, \A j \in ToSet(js) : oc[j] = "claimed" /\ j \notin rf
    PROVE  /\ Batch(js) \in BatchTask /\ Batch(js).jobs = js /\ Batch(js).held = ToSet(js)
           /\ BatchOK(Batch(js), oc, rf, fl)
<1>1. ToSet(js) \subseteq Jobs
  BY Elements
<1>2. /\ Batch(js).jobs = js /\ Batch(js).held = ToSet(js) /\ Batch(js).pc = "built"
      /\ Batch(js).todo = ToSet(js) \cap Malformed /\ Batch(js).run = ToSet(js) \ Batch(js).todo
      /\ Batch(js) \in BatchTask
  BY <1>1 DEF Batch, BatchTask, Invalid
<1>3. Built(Batch(js), oc, rf)
  BY <1>2 DEF Built, Disjoint
<1> QED BY <1>2, <1>3 DEF BatchOK

(* The places of a job, one by one.                                        *)
LEMMA Places ==
    /\ Waiting = UNION {Line(b) : b \in Slots}
    /\ Held = Early \cup Waiting \cup InBatch
    /\ \A j : j \in Waiting <=> \E b \in Slots : j \in Line(b)
    /\ \A j : j \in InBatch <=> \E t \in batches : j \in t.held
  BY DEF Waiting, Line, Held, Early, InBatch

(* The same after a step.                                                  *)
LEMMA PlacesPrimed ==
    /\ Held' = Early' \cup Waiting' \cup InBatch'
    /\ \A j : j \in Waiting' <=> \E b \in Slots : j \in Line(b)'
    /\ \A j : j \in InBatch' <=> \E t \in batches' : j \in t.held
  BY DEF Waiting, Line, Held, Early, InBatch

-----------------------------------------------------------------------------
(* A step of one batcher: its line is shared out again among the channel,  *)
(* the jobs it holds and a batch it spawns, if any.                        *)
LineStep(b, n, js) ==
    /\ b \in Slots /\ n \in BatcherTask /\ js \in Seq(Jobs)
    /\ batcher' = [batcher EXCEPT ![b] = n]
    /\ batches' = Spawned(js)
    /\ OnlyBatcher
    /\ Len(n.chan) <= Capacity /\ Len(n.pending) < BatchSize /\ Len(js) <= BatchSize
    /\ Distinct(n.chan) /\ Distinct(n.pending)
    /\ Disjoint(ToSet(n.chan), ToSet(n.pending))
    /\ Disjoint(ToSet(n.chan), ToSet(js)) /\ Disjoint(ToSet(n.pending), ToSet(js))
    /\ ToSet(n.chan) \cup ToSet(n.pending) \cup ToSet(js) = Line(b)
    /\ n.open => batcher[b].open /\ n.pc # "done"
    /\ \/ n.key = batcher[b].key /\ n.pc # "done"
       \/ n = Vacant

(* A batcher's step keeps the invariant and every job in memory.           *)
LEMMA LineStepKeeps ==
    ASSUME BatcherInv, NEW b, NEW n, NEW js, LineStep(b, n, js)
    PROVE  BatcherInv' /\ Held' = Held /\ InBatch' = InBatch \cup ToSet(js)
<1>0. /\ b \in Slots /\ n \in BatcherTask /\ js \in Seq(Jobs)
      /\ batcher' = [batcher EXCEPT ![b] = n] /\ batches' = Spawned(js)
      /\ UNCHANGED <<inbox, coord, current, permits, outcome, results, loaded, refused,
                     cancelled, failed, errors>>
  BY DEF LineStep, OnlyBatcher
<1>1. batcher'[b] = n /\ \A c \in Slots : c # b => batcher'[c] = batcher[c]
  BY <1>0 DEF BatcherInv, Typed
<1>2. ToSet(<<>>) = {} /\ (js = <<>> => ToSet(js) = {})
  BY <1>0, Elements
<1>3. ToSet(js) \subseteq Line(b)
  BY DEF LineStep
<1>4. \A j \in Line(b) : outcome[j] = "claimed" /\ j \notin refused /\ KeyOf[j] = batcher[b].key
  BY <1>0, Places DEF BatcherInv, Routed
<1>5. /\ js # <<>> => /\ batches' = batches \cup {Batch(js)} /\ Batch(js) \in BatchTask
                      /\ Batch(js).jobs = js /\ Batch(js).held = ToSet(js)
                      /\ BatchOK(Batch(js), outcome, refused, failed)
      /\ js = <<>> => batches' = batches
  <2>1. \A j \in ToSet(js) : outcome[j] = "claimed" /\ j \notin refused
    BY <1>3, <1>4
  <2>2. \A i, j \in ToSet(js) : KeyOf[i] = KeyOf[j]
    BY <1>3, <1>4
  <2> QED
    BY <1>0, <2>1, <2>2, FreshBatch DEF LineStep, Spawned
<1>6. /\ \A t \in batches' : t \in batches \/ (js # <<>> /\ t.jobs = js /\ t = Batch(js))
      /\ \A t \in batches : t \in batches'
  BY <1>5
<1>7. /\ Line(b)' = ToSet(n.chan) \cup ToSet(n.pending)
      /\ \A c \in Slots : c # b => Line(c)' = Line(c)
      /\ \A c \in Slots : Line(c)' \subseteq Line(c)
  BY <1>1 DEF Line, LineStep
<1>8. Line(b) = Line(b)' \cup ToSet(js) /\ Disjoint(Line(b)', ToSet(js))
  BY <1>7 DEF LineStep, Disjoint
<1>9. Early' = Early /\ Sending' = Sending
  BY <1>0 DEF Early, Sending
<1>10. Typed'
  <2>1. batcher' \in [Slots -> BatcherTask]
    BY <1>0 DEF BatcherInv, Typed
  <2>2. \A t \in batches' : t \in BatchTask
    BY <1>5, <1>6 DEF BatcherInv, Typed
  <2>3. \A c \in Slots : /\ batcher'[c].pc \in {"idle", "filling", "flush", "done"}
                         /\ Len(batcher'[c].chan) <= Capacity
                         /\ Len(batcher'[c].pending) < BatchSize
    <3>1. n.pc \in {"idle", "filling", "flush", "done"}
      BY <1>0 DEF BatcherTask
    <3> QED BY <1>1, <3>1 DEF BatcherInv, Typed, TypeOK, LineStep
  <2>4. TypeOK'
    BY <1>0, <2>3 DEF BatcherInv, Typed, TypeOK
  <2> QED BY <1>0, <2>1, <2>2, <2>4 DEF BatcherInv, Typed
<1>11. Apart'
  <2>1. Distinct(inbox') /\ Disjoint(ToSet(inbox'), Sending')
    BY <1>0, <1>9 DEF BatcherInv, Apart
  <2>2. ASSUME NEW c \in Slots
        PROVE  /\ Distinct(batcher'[c].chan) /\ Distinct(batcher'[c].pending)
               /\ Disjoint(ToSet(batcher'[c].chan), ToSet(batcher'[c].pending))
               /\ Disjoint(Line(c)', Early')
               /\ \A d \in Slots : c # d => Disjoint(Line(c)', Line(d)')
    <3>1. /\ Distinct(batcher'[c].chan) /\ Distinct(batcher'[c].pending)
          /\ Disjoint(ToSet(batcher'[c].chan), ToSet(batcher'[c].pending))
      BY <1>1 DEF BatcherInv, Apart, LineStep
    <3>2. Disjoint(Line(c)', Early')
      BY <1>7, <1>9 DEF BatcherInv, Apart, Disjoint
    <3>3. \A d \in Slots : c # d => Disjoint(Line(c)', Line(d)')
      BY <1>7 DEF BatcherInv, Apart, Disjoint
    <3> QED BY <3>1, <3>2, <3>3
  <2>3. ASSUME NEW t \in batches'
        PROVE  /\ Disjoint(ToSet(t.jobs), Early')
               /\ \A c \in Slots : Disjoint(ToSet(t.jobs), Line(c)')
               /\ \A u \in batches' : t # u => Disjoint(ToSet(t.jobs), ToSet(u.jobs))
    <3>1. CASE t \in batches
      <4>1. Disjoint(ToSet(t.jobs), Early') /\ \A c \in Slots : Disjoint(ToSet(t.jobs), Line(c)')
        BY <1>7, <1>9, <3>1 DEF BatcherInv, Apart, Disjoint
      <4>2. Disjoint(ToSet(t.jobs), ToSet(js))
        BY <1>0, <1>3, <3>1 DEF BatcherInv, Apart, Disjoint
      <4> QED
        BY <1>6, <3>1, <4>1, <4>2 DEF BatcherInv, Apart
    <3>2. CASE t \notin batches
      <4>1. t.jobs = js
        BY <1>6, <3>2
      <4>2. Disjoint(ToSet(js), Early')
        BY <1>0, <1>3, <1>9 DEF BatcherInv, Apart, Disjoint
      <4>3. \A c \in Slots : Disjoint(ToSet(js), Line(c)')
        BY <1>0, <1>3, <1>7, <1>8 DEF BatcherInv, Apart, Disjoint
      <4>4. \A u \in batches : Disjoint(ToSet(js), ToSet(u.jobs))
        BY <1>0, <1>3 DEF BatcherInv, Apart, Disjoint
      <4> QED BY <1>6, <3>2, <4>1, <4>2, <4>3, <4>4
    <3> QED BY <3>1, <3>2
  <2> QED BY <2>1, <2>2, <2>3 DEF Apart
<1>12. Waiting' \subseteq Waiting
  BY <1>7, <1>10, Places, PlacesPrimed DEF BatcherInv
<1>13. Routed'
  <2>1. ASSUME NEW k \in Keys, current'[k] # 0, batcher'[current'[k]].open
        PROVE  batcher'[current'[k]].key = k
    <3>1. current[k] \in Slots /\ current'[k] = current[k]
      BY <1>0, <2>1 DEF BatcherInv, Typed, TypeOK
    <3>2. batcher[current[k]].open
      BY <1>1, <2>1, <3>1 DEF LineStep
    <3>3. batcher[current[k]].key = k
      BY <2>1, <3>1, <3>2 DEF BatcherInv, Routed
    <3>4. current[k] = b => n.key = batcher[b].key
      BY <1>1, <2>1, <3>1 DEF LineStep, Vacant
    <3> QED BY <1>1, <3>1, <3>3, <3>4
  <2>2. ASSUME NEW c \in Slots, NEW j \in Line(c)' PROVE KeyOf[j] = batcher'[c].key
    <3>1. CASE c # b
      BY <1>1, <1>7, <2>2, <3>1 DEF BatcherInv, Routed
    <3>2. CASE c = b
      <4>1. n # Vacant
        BY <1>2, <1>7, <2>2, <3>2 DEF Vacant
      <4>2. n.key = batcher[b].key
        BY <4>1 DEF LineStep
      <4> QED BY <1>1, <1>4, <1>7, <2>2, <3>2, <4>2
    <3> QED BY <3>1, <3>2
  <2>3. ASSUME NEW c \in Slots, batcher'[c].pc = "done"
        PROVE  ~batcher'[c].open /\ Line(c)' = {}
    <3>1. CASE c # b
      BY <1>1, <1>7, <2>3, <3>1 DEF BatcherInv, Routed
    <3>2. CASE c = b
      <4>1. n = Vacant
        BY <1>1, <2>3, <3>2 DEF LineStep
      <4> QED BY <1>1, <1>2, <1>7, <3>2, <4>1 DEF Vacant
    <3> QED BY <3>1, <3>2
  <2>4. \A j \in (Early \cup Waiting)' : outcome'[j] = "claimed" /\ j \notin refused'
    BY <1>0, <1>9, <1>12 DEF BatcherInv, Routed
  <2> QED BY <1>0, <2>1, <2>2, <2>3, <2>4 DEF BatcherInv, Routed
<1>14. BatchesOK'
  BY <1>0, <1>5, <1>6 DEF BatcherInv, BatchesOK
<1>15. InBatch' = InBatch \cup ToSet(js)
  <2>1. ASSUME NEW t \in batches' PROVE t \in batches \/ t.held = ToSet(js)
    BY <1>5, <1>6, <2>1
  <2>2. js # <<>> => \E t \in batches' : t.held = ToSet(js)
    BY <1>5
  <2>3. InBatch' \subseteq InBatch \cup ToSet(js)
    BY <2>1 DEF InBatch
  <2>4. InBatch \subseteq InBatch'
    BY <1>6 DEF InBatch
  <2>5. ToSet(js) \subseteq InBatch'
    BY <1>2, <2>2 DEF InBatch
  <2> QED BY <2>3, <2>4, <2>5
<1>16. Waiting = Waiting' \cup ToSet(js)
  <2>1. \A j : j \in Waiting <=> \E c \in Slots : j \in Line(c)
    BY Places DEF BatcherInv
  <2>2. \A j : j \in Waiting' <=> \E c \in Slots : j \in Line(c)'
    BY <1>10, PlacesPrimed
  <2> QED BY <1>0, <1>7, <1>8, <2>1, <2>2
<1>17. Held' = Held
  <2>1. Held = Early \cup Waiting \cup InBatch
    BY Places DEF BatcherInv
  <2>2. Held' = Early' \cup Waiting' \cup InBatch'
    BY <1>10, PlacesPrimed
  <2> QED BY <1>9, <1>15, <1>16, <2>1, <2>2
<1> QED BY <1>10, <1>11, <1>13, <1>14, <1>15, <1>17 DEF BatcherInv

-----------------------------------------------------------------------------
(* A step of one batch: it becomes u, or it ends; only its own jobs are    *)
(* touched.                                                                *)
TaskStep(t, ts) ==
    /\ t \in batches /\ batches' = (batches \ {t}) \cup ts
    /\ \A u \in ts : /\ u \in BatchTask /\ u.jobs = t.jobs
                     /\ BatchOK(u, outcome', refused', failed')
    /\ \A u, v \in ts : u = v
    /\ queueVars' = queueVars /\ loaded' = loaded
    /\ \A j \in Jobs : j \notin t.held => /\ outcome'[j] = outcome[j]
                                          /\ j \in refused' <=> j \in refused
    /\ refused \subseteq refused'
    /\ failed => failed'

(* What a step of a batch may change in the types.                         *)
TaskTyped ==
    /\ permits' \subseteq Jobs /\ refused' \subseteq Jobs
    /\ outcome' \in [Jobs -> {"claimed", "done", "retry", "dead"}]
    /\ cancelled' \in BOOLEAN /\ failed' \in BOOLEAN /\ errors' \in 0 .. MaxErrors
    /\ results' \in [{"success", "failed"} -> Nat]

(* A batch's step keeps the invariant, and what it lets go leaves memory.  *)
LEMMA TaskStepKeeps ==
    ASSUME BatcherInv, NEW t, NEW ts, TaskStep(t, ts), TaskTyped
    PROVE  /\ BatcherInv'
           /\ \A j : j \in InBatch' <=> \/ j \in InBatch /\ j \notin t.held
                                        \/ \E u \in ts : j \in u.held
           /\ Held' = (Held \ t.held) \cup UNION {u.held : u \in ts}
<1>0. /\ t \in batches /\ batches' = (batches \ {t}) \cup ts
      /\ UNCHANGED <<inbox, coord, current, batcher, loaded>>
      /\ t \in BatchTask /\ t.held \subseteq ToSet(t.jobs) /\ ToSet(t.jobs) \subseteq Jobs
  <2>1. t \in batches /\ t \in BatchTask /\ t.held \subseteq ToSet(t.jobs)
    BY DEF TaskStep, BatcherInv, Typed, BatchesOK, BatchOK
  <2>2. t.jobs \in Seq(Jobs)
    BY <2>1 DEF BatchTask
  <2>3. ToSet(t.jobs) \subseteq Jobs
    BY <2>2, Elements
  <2> QED BY <2>1, <2>3 DEF TaskStep, queueVars
<1>1. /\ Early' = Early /\ Sending' = Sending /\ Waiting' = Waiting
      /\ \A b \in Slots : Line(b)' = Line(b)
  BY <1>0 DEF Early, Sending, Waiting, Line
<1>2. \A v \in batches' : \/ v \in batches /\ v # t
                          \/ v \in ts /\ v.jobs = t.jobs
  BY <1>0 DEF TaskStep
<1>3. Typed'
  <2>1. \A v \in batches' : v \in BatchTask
    BY <1>2 DEF BatcherInv, Typed, TaskStep
  <2>2. TypeOK'
    BY <1>0 DEF BatcherInv, Typed, TypeOK, TaskTyped
  <2> QED BY <1>0, <2>1, <2>2 DEF BatcherInv, Typed, TaskTyped
<1>4. Apart'
  <2>1. Distinct(inbox') /\ Disjoint(ToSet(inbox'), Sending')
    BY <1>0, <1>1 DEF BatcherInv, Apart
  <2>2. \A b \in Slots :
          /\ Distinct(batcher'[b].chan) /\ Distinct(batcher'[b].pending)
          /\ Disjoint(ToSet(batcher'[b].chan), ToSet(batcher'[b].pending))
          /\ Disjoint(Line(b)', Early')
          /\ \A c \in Slots : b # c => Disjoint(Line(b)', Line(c)')
    BY <1>0, <1>1 DEF BatcherInv, Apart
  <2>3. ASSUME NEW v \in batches'
        PROVE  /\ Disjoint(ToSet(v.jobs), Early')
               /\ \A b \in Slots : Disjoint(ToSet(v.jobs), Line(b)')
    BY <1>0, <1>1, <1>2 DEF BatcherInv, Apart
  <2>4. ASSUME NEW u \in batches', NEW v \in batches', u # v
        PROVE  Disjoint(ToSet(u.jobs), ToSet(v.jobs))
    <3>1. ~(u \in ts /\ v \in ts)
      BY <2>4 DEF TaskStep
    <3> QED BY <1>0, <1>2, <2>4, <3>1 DEF BatcherInv, Apart
  <2> QED BY <2>1, <2>2, <2>3, <2>4 DEF Apart
<1>5. Routed'
  <2>1. \A j \in (Early \cup Waiting)' : j \in Jobs /\ j \notin ToSet(t.jobs)
    <3>1. \A j \in Early \cup Waiting : j \in Jobs
      <4>1. ToSet(inbox) \subseteq Jobs /\ Sending \subseteq Jobs
        BY Elements DEF BatcherInv, Typed, Routed, Sending
      <4>2. \A b \in Slots : Line(b) \subseteq Jobs
        <5> SUFFICES ASSUME NEW b \in Slots PROVE Line(b) \subseteq Jobs
          OBVIOUS
        <5>1. batcher[b].chan \in Seq(Jobs) /\ batcher[b].pending \in Seq(Jobs)
          BY DEF BatcherInv, Typed, BatcherTask
        <5> QED BY <5>1, Elements DEF Line
      <4> QED BY <4>1, <4>2, Places DEF Early
    <3>2. \A j \in Early \cup Waiting : j \notin ToSet(t.jobs)
      BY <1>0, Places DEF BatcherInv, Apart, Disjoint
    <3> QED BY <1>1, <3>1, <3>2
  <2>2. \A j \in (Early \cup Waiting)' : outcome'[j] = "claimed" /\ j \notin refused'
    BY <1>0, <1>1, <2>1 DEF BatcherInv, Routed, TaskStep
  <2>3. \A b \in Slots :
          /\ \A j \in Line(b)' : KeyOf[j] = batcher'[b].key
          /\ batcher'[b].pc = "done" => ~batcher'[b].open /\ Line(b)' = {}
    BY <1>0, <1>1 DEF BatcherInv, Routed
  <2> QED BY <1>0, <2>2, <2>3 DEF BatcherInv, Routed
<1>6. BatchesOK'
  <2> SUFFICES ASSUME NEW v \in batches' PROVE BatchOK(v, outcome', refused', failed')
    BY DEF BatchesOK
  <2>1. CASE v \in ts
    BY <2>1 DEF TaskStep
  <2>2. CASE v \in batches /\ v # t
    <3>1. BatchOK(v, outcome, refused, failed) /\ v \in BatchTask
      BY <2>2 DEF BatcherInv, BatchesOK, Typed
    <3>2. Disjoint(ToSet(v.jobs), ToSet(t.jobs))
      BY <1>0, <2>2 DEF BatcherInv, Apart
    <3>3. v.jobs \in Seq(Jobs)
      BY <3>1 DEF BatchTask
    <3>4. \A j \in ToSet(v.jobs) : j \in Jobs /\ j \notin ToSet(t.jobs)
      BY <3>2, <3>3, Elements DEF Disjoint
    <3>5. \A j \in ToSet(v.jobs) : outcome'[j] = outcome[j] /\ (j \in refused' <=> j \in refused)
      BY <1>0, <3>4 DEF TaskStep
    <3>6. v.held \subseteq ToSet(v.jobs) /\ (failed => failed')
      BY <3>1 DEF BatchOK, TaskStep
    <3>7. ASSUME Built(v, outcome, refused) PROVE Built(v, outcome', refused')
      BY <3>5, <3>6, <3>7 DEF Built, Disjoint
    <3>8. ASSUME Finishing(v, outcome, refused, failed)
          PROVE  Finishing(v, outcome', refused', failed')
      BY <3>5, <3>6, <3>8 DEF Finishing, Disjoint
    <3>9. ASSUME Condemned(v, outcome, refused) PROVE Condemned(v, outcome', refused')
      BY <3>5, <3>6, <3>9 DEF Condemned
    <3> QED BY <3>1, <3>7, <3>8, <3>9 DEF BatchOK
  <2> QED BY <1>2, <2>1, <2>2
<1>7. \A j : j \in InBatch' <=> \/ j \in InBatch /\ j \notin t.held
                                \/ \E u \in ts : j \in u.held
  <2>1. \A v \in batches : v # t => Disjoint(v.held, t.held)
    <3>1. \A v \in batches : v.held \subseteq ToSet(v.jobs)
      BY DEF BatcherInv, BatchesOK, BatchOK
    <3> QED BY <1>0, <3>1 DEF BatcherInv, Apart, Disjoint
  <2>2. \A j : j \in InBatch <=> \E v \in batches : j \in v.held
    BY Places
  <2>3. \A j : j \in InBatch' <=> \E v \in batches' : j \in v.held
    BY PlacesPrimed
  <2> QED BY <1>0, <2>1, <2>2, <2>3 DEF Disjoint
<1>8. Held' = (Held \ t.held) \cup UNION {u.held : u \in ts}
  <2>1. \A j \in Early \cup Waiting : j \notin t.held
    BY <1>0, Places DEF BatcherInv, Apart, Disjoint
  <2>2. Held = Early \cup Waiting \cup InBatch
    BY Places
  <2>3. Held' = Early \cup Waiting \cup InBatch'
    BY <1>1, PlacesPrimed
  <2> QED BY <1>7, <2>1, <2>2, <2>3
<1> QED BY <1>3, <1>4, <1>5, <1>6, <1>7, <1>8 DEF BatcherInv

-----------------------------------------------------------------------------
(* The jobs a step of a batch lets go.                                     *)
LetGo(t, ts) == t.held \ UNION {u.held : u \in ts}

(* ResultsMatchStore, by the set Ran.                                      *)
LEMMA ResultsByRan ==
    ResultsMatchStore <=>
        /\ Cardinality(Ran) <= results["success"] + results["failed"]
        /\ Cardinality(Ran) < results["success"] + results["failed"] => failed
  BY DEF ResultsMatchStore, Ran, HasRun

(* The same after a step.                                                  *)
LEMMA ResultsByRanPrimed ==
    ResultsMatchStore' <=>
        /\ Cardinality(Ran') <= results'["success"] + results'["failed"]
        /\ Cardinality(Ran') < results'["success"] + results'["failed"] => failed'
  BY DEF ResultsMatchStore, Ran, HasRun

(* Jobs are finitely many.                                                 *)
LEMMA JobsFinite ==
    ASSUME NEW S \in SUBSET Jobs
    PROVE  IsFiniteSet(S) /\ Cardinality(S) \in Nat
  BY BatcherAssumption, FS_Subset, FS_CardinalityType DEF BatcherAssumption

(* A step of a batch lets a job go only when it is settled, kills for a    *)
(* reason, and lets go of no job that ran, unless it counts it.            *)
Settling(t, ts) ==
    /\ \A u \in ts : u.held \subseteq t.held
    /\ permits' = permits \ LetGo(t, ts)
    /\ \A j \in t.held : outcome[j] # "claimed" => outcome'[j] # "claimed"
    /\ \A j \in LetGo(t, ts) : outcome'[j] # "claimed" \/ failed'
    /\ \A j \in t.held : outcome'[j] = "dead" => j \in Malformed \cup Exhausted \cup refused'
    /\ \/ results' = results /\ \A j \in LetGo(t, ts) : ~HasRun(j)'
       \/ /\ ts = {}
          /\ results'["success"] + results'["failed"]
                = results["success"] + results["failed"] + Cardinality(t.held)
          /\ \A j \in t.held : HasRun(j)' \/ failed'

(* Such a step keeps all the invariants.                                   *)
LEMMA TaskKeeps ==
    ASSUME Kept, NEW t, NEW ts, TaskStep(t, ts), TaskTyped, Settling(t, ts)
    PROVE  Kept'
<1>1. /\ BatcherInv'
      /\ \A j : j \in InBatch' <=> \/ j \in InBatch /\ j \notin t.held
                                   \/ \E u \in ts : j \in u.held
      /\ Held' = (Held \ t.held) \cup UNION {u.held : u \in ts}
  BY TaskStepKeeps DEF Kept
<1>2. t.held \subseteq InBatch /\ InBatch \subseteq Held /\ t.held \subseteq Jobs
  <2>1. t \in batches /\ t \in BatchTask
    BY DEF Kept, BatcherInv, Typed, TaskStep
  <2>2. t.held \subseteq Jobs
    BY <2>1 DEF BatchTask
  <2> QED BY <2>1, <2>2, Places
<1>3. Held' = Held \ LetGo(t, ts)
  BY <1>1, <1>2 DEF LetGo, Settling
<1>4. PermitsFollowJobs'
  BY <1>3 DEF Kept, PermitsFollowJobs, Settling
<1>5. LoadedAreSettled'
  <2> SUFFICES ASSUME NEW j \in loaded', j \notin Held', outcome'[j] = "claimed" PROVE failed'
    BY DEF LoadedAreSettled
  <2>1. CASE j \in Held
    BY <1>3, <2>1 DEF Settling
  <2>2. CASE j \notin Held
    <3>1. j \in loaded /\ j \in Jobs /\ j \notin t.held
      BY <1>2, <2>2 DEF TaskStep, Kept, BatcherInv, Typed, TypeOK
    <3> QED BY <2>2, <3>1 DEF Kept, LoadedAreSettled, TaskStep
  <2> QED BY <2>1, <2>2
<1>6. DeadDeserved'
  BY DEF Kept, StoreAgrees, DeadDeserved, TaskStep, Settling
<1>7. \A j \in Jobs : j \notin t.held => (HasRun(j)' <=> HasRun(j))
  BY DEF HasRun, TaskStep
<1>8. Ran' = Ran \cup {j \in LetGo(t, ts) : HasRun(j)'}
  BY <1>1, <1>2, <1>7 DEF Ran, LetGo, Settling
<1>9. /\ results["success"] + results["failed"] \in Nat
      /\ results'["success"] + results'["failed"] \in Nat
      /\ Ran \in SUBSET Jobs
  BY <1>1 DEF Kept, BatcherInv, Typed, Ran
<1>10. /\ Cardinality(Ran) <= results["success"] + results["failed"]
       /\ Cardinality(Ran) < results["success"] + results["failed"] => failed
       /\ Cardinality(Ran) \in Nat /\ IsFiniteSet(Ran)
  BY <1>9, ResultsByRan, JobsFinite DEF Kept, StoreAgrees
<1>11. ResultsMatchStore'
  <2>1. CASE results' = results /\ \A j \in LetGo(t, ts) : ~HasRun(j)'
    <3>1. Ran' = Ran
      BY <1>8, <2>1
    <3> QED BY <1>10, <2>1, <3>1, ResultsByRanPrimed DEF TaskStep
  <2>2. CASE /\ ts = {}
             /\ results'["success"] + results'["failed"]
                   = results["success"] + results["failed"] + Cardinality(t.held)
             /\ \A j \in t.held : HasRun(j)' \/ failed'
    <3> DEFINE S == {j \in LetGo(t, ts) : HasRun(j)'}
    <3>1. S \subseteq t.held /\ (S = t.held \/ failed')
      BY <2>2 DEF LetGo
    <3>2. S \in SUBSET Jobs /\ Ran \cap S = {}
      BY <1>2, <3>1 DEF Ran
    <3>3. /\ IsFiniteSet(S) /\ Cardinality(S) \in Nat
          /\ IsFiniteSet(t.held) /\ Cardinality(t.held) \in Nat
      BY <1>2, <3>2, JobsFinite
    <3>4. Cardinality(S) <= Cardinality(t.held)
      BY <3>1, <3>3, FS_Subset
    <3>5. Ran' = Ran \cup S
      BY <1>8
    <3> HIDE DEF S
    <3>6. Cardinality(Ran \cup S) = Cardinality(Ran) + Cardinality(S) - Cardinality(Ran \cap S)
      BY <1>10, <3>3, FS_Union
    <3>7. Cardinality(Ran \cap S) = 0
      BY <3>2, FS_EmptySet
    <3>8. Cardinality(Ran') = Cardinality(Ran) + Cardinality(S)
      BY <1>10, <3>3, <3>5, <3>6, <3>7
    <3>9. failed => failed'
      BY DEF TaskStep
    <3>10. Cardinality(Ran') <= results'["success"] + results'["failed"]
      BY <1>9, <1>10, <2>2, <3>3, <3>4, <3>8
    <3>11. ASSUME Cardinality(Ran') < results'["success"] + results'["failed"], S = t.held
           PROVE  failed
      BY <1>9, <1>10, <2>2, <3>3, <3>8, <3>11
    <3> QED BY <3>1, <3>9, <3>10, <3>11, ResultsByRanPrimed
  <2> QED BY <2>1, <2>2 DEF Settling
<1> QED BY <1>1, <1>4, <1>5, <1>6, <1>11 DEF Kept, StoreAgrees

-----------------------------------------------------------------------------
(* The steps of a batch, one lemma each.                                   *)

(* What is known of a batch, and what a step that touches neither types    *)
(* nor results has to show.                                                *)
LEMMA BatchFacts ==
    ASSUME Kept, NEW t \in batches
    PROVE  /\ t \in BatchTask /\ BatchOK(t, outcome, refused, failed)
           /\ t.held \subseteq ToSet(t.jobs) /\ t.held \subseteq Jobs
           /\ t.run \subseteq Jobs /\ t.todo \subseteq Jobs
           /\ permits \subseteq Jobs /\ refused \subseteq Jobs
           /\ outcome \in [Jobs -> {"claimed", "done", "retry", "dead"}]
           /\ results \in [{"success", "failed"} -> Nat]
           /\ cancelled \in BOOLEAN /\ failed \in BOOLEAN /\ errors \in 0 .. MaxErrors
           /\ \A j \in Jobs : outcome[j] = "dead" => j \in Malformed \cup Exhausted \cup refused
<1>1. t \in BatchTask /\ BatchOK(t, outcome, refused, failed)
  BY DEF Kept, BatcherInv, Typed, BatchesOK
<1>2. /\ t.held \subseteq ToSet(t.jobs) /\ t.held \subseteq Jobs
      /\ t.run \subseteq Jobs /\ t.todo \subseteq Jobs
  BY <1>1 DEF BatchOK, BatchTask
<1>3. \A j \in Jobs : outcome[j] = "dead" => j \in Malformed \cup Exhausted \cup refused
  BY DEF Kept, StoreAgrees, DeadDeserved
<1> QED BY <1>1, <1>2, <1>3 DEF Kept, BatcherInv, Typed, TypeOK

(* A refused batch has all its jobs still to kill, each of them remembered *)
(* as refused.                                                             *)
LEMMA BuildRefusedKeeps == ASSUME Kept, NEW t \in batches, BuildRefused(t) PROVE Kept'
<1> DEFINE u == [t EXCEPT !.todo = t.held, !.run = {}]
<1>1. /\ t = Batch(t.jobs) /\ errors < MaxErrors /\ errors' = errors + 1
      /\ batches' = (batches \ {t}) \cup {u} /\ refused' = refused \cup t.held
      /\ UNCHANGED <<permits, outcome, results, cancelled, failed, queueVars, loaded>>
  BY DEF BuildRefused, Become, OnlyBatch
<1>2. /\ u \in BatchTask /\ u.jobs = t.jobs /\ u.held = t.held /\ u.todo = t.held /\ u.run = {}
      /\ u.pc = t.pc
  BY BatchFacts DEF BatchTask
<1>3. t.pc = "built" /\ t.run = t.held \ t.todo /\ t.todo \subseteq t.held
  <2>1. Batch(t.jobs).pc = "built" /\ Batch(t.jobs).run = Batch(t.jobs).held \ Batch(t.jobs).todo
    BY DEF Batch
  <2>2. Batch(t.jobs).todo \subseteq Batch(t.jobs).held
    BY DEF Batch, Invalid
  <2> QED BY <1>1, <2>1, <2>2
<1>4. \A j \in t.held : outcome[j] = "claimed"
  BY <1>3, BatchFacts DEF BatchOK, Built, Finishing, Condemned
<1> HIDE DEF u
<1>5. BatchOK(u, outcome', refused', failed')
  <2>1. Condemned(u, outcome', refused')
    BY <1>1, <1>2, <1>3, <1>4 DEF Condemned
  <2> QED BY <1>2, <2>1, BatchFacts DEF BatchOK
<1>6. TaskStep(t, {u})
  BY <1>1, <1>2, <1>5, BatchFacts DEF TaskStep
<1>7. TaskTyped
  BY <1>1, BatchFacts, BatcherAssumption DEF TaskTyped, BatcherAssumption
<1>8. LetGo(t, {u}) = {}
  BY <1>2 DEF LetGo
<1>9. Settling(t, {u})
  BY <1>1, <1>2, <1>8, BatchFacts DEF Settling
<1> QED BY <1>6, <1>7, <1>9, TaskKeeps

(* A killed job was malformed or refused, and its permit goes with it or   *)
(* stays with the batch.                                                   *)
LEMMA KillKeeps == ASSUME Kept, NEW t \in batches, Kill(t) PROVE Kept'
<1> PICK j \in t.todo :
         /\ outcome' = [outcome EXCEPT ![j] = "dead"]
         /\ permits' = permits \ ({j} \ refused)
         /\ Become(t, [t EXCEPT !.todo = @ \ {j}, !.held = @ \ ({j} \ refused)])
  BY DEF Kill
<1> DEFINE u == [t EXCEPT !.todo = @ \ {j}, !.held = @ \ ({j} \ refused)]
<1>1. /\ t.pc = "built" /\ batches' = (batches \ {t}) \cup {u}
      /\ UNCHANGED <<results, refused, cancelled, failed, errors, queueVars, loaded>>
  BY DEF Kill, Become, Free, OnlyBatch
<1>2. /\ u \in BatchTask /\ u.jobs = t.jobs /\ u.held = t.held \ ({j} \ refused)
      /\ u.todo = t.todo \ {j} /\ u.run = t.run /\ u.pc = t.pc
  BY BatchFacts DEF BatchTask
<1> HIDE DEF u
<1>3. j \in Jobs /\ j \in t.held /\ j \in ToSet(t.jobs) /\ j \in Malformed \cup refused
  BY <1>1, BatchFacts DEF BatchOK, Built, Finishing, Condemned
<1>4. \A i \in Jobs : outcome'[i] = IF i = j THEN "dead" ELSE outcome[i]
  BY <1>3, BatchFacts
<1>5. BatchOK(u, outcome', refused', failed')
  <2>1. CASE Built(t, outcome, refused)
    <3>1. Built(u, outcome', refused')
      BY <1>1, <1>2, <1>3, <1>4, <2>1, BatchFacts DEF Built, Disjoint
    <3> QED BY <1>2, <3>1, BatchFacts DEF BatchOK
  <2>2. CASE Condemned(t, outcome, refused)
    <3>1. Condemned(u, outcome', refused')
      BY <1>1, <1>2, <1>3, <1>4, <2>2, BatchFacts DEF Condemned
    <3> QED BY <1>2, <3>1, BatchFacts DEF BatchOK
  <2> QED BY <1>1, <2>1, <2>2, BatchFacts DEF BatchOK, Finishing
<1>6. TaskStep(t, {u})
  BY <1>1, <1>2, <1>3, <1>4, <1>5, BatchFacts DEF TaskStep
<1>7. outcome' \in [Jobs -> {"claimed", "done", "retry", "dead"}]
  BY BatchFacts
<1>8. TaskTyped
  BY <1>1, <1>7, BatchFacts DEF TaskTyped
<1>9. LetGo(t, {u}) = {j} \ refused
  BY <1>2, <1>3 DEF LetGo
<1>10. \A i \in LetGo(t, {u}) : i = j /\ ~HasRun(i)' /\ outcome'[i] # "claimed"
  BY <1>1, <1>3, <1>4, <1>9 DEF HasRun
<1>11. \A i \in t.held : /\ outcome[i] # "claimed" => outcome'[i] # "claimed"
                         /\ outcome'[i] = "dead" => i \in Malformed \cup Exhausted \cup refused'
  BY <1>1, <1>3, <1>4, BatchFacts
<1>12. Settling(t, {u})
  BY <1>1, <1>2, <1>9, <1>10, <1>11 DEF Settling
<1> QED BY <1>6, <1>8, <1>12, TaskKeeps

(* A batch that fails lets go of jobs that a failed runtime may leave      *)
(* claimed; one with nothing to run lets go of settled jobs only.          *)
LEMMA EndKeeps ==
    ASSUME Kept, NEW t \in batches, TaskFails(t) \/ NothingToRun(t)
    PROVE  Kept'
<1>1. /\ t.pc = "built" /\ batches' = (batches \ {t}) \cup {} /\ permits' = permits \ t.held
      /\ UNCHANGED <<outcome, results, refused, queueVars, loaded>>
      /\ failed => failed'
  BY DEF TaskFails, NothingToRun, End, Free, OnlyBatch, Fail
<1>2. TaskStep(t, {})
  BY <1>1 DEF TaskStep
<1>3. TaskTyped
  <2>1. cancelled' \in BOOLEAN /\ failed' \in BOOLEAN
    BY BatchFacts DEF TaskFails, NothingToRun, Free, Fail
  <2>2. errors' \in 0 .. MaxErrors
    BY BatchFacts, BatcherAssumption DEF TaskFails, NothingToRun, Free, Fail, BatcherAssumption
  <2> QED BY <1>1, <2>1, <2>2, BatchFacts DEF TaskTyped
<1>4. LetGo(t, {}) = t.held
  BY DEF LetGo
<1>5. \A j \in t.held : outcome[j] = "claimed" \/ (outcome[j] = "dead" /\ j \in refused)
  BY <1>1, BatchFacts DEF BatchOK, Built, Finishing, Condemned
<1>6. \A j \in t.held : ~HasRun(j)'
  BY <1>1, <1>5 DEF HasRun
<1>7. \A j \in t.held : outcome'[j] # "claimed" \/ failed'
  <2>1. CASE TaskFails(t)
    BY <2>1 DEF TaskFails, Fail
  <2>2. CASE NothingToRun(t)
    <3>1. t.todo = {} /\ t.run = {}
      BY <2>2 DEF NothingToRun
    <3> QED BY <1>1, <3>1, BatchFacts DEF BatchOK, Built, Finishing, Condemned
  <2> QED BY <2>1, <2>2
<1>8. Settling(t, {})
  BY <1>1, <1>4, <1>6, <1>7, BatchFacts DEF Settling
<1> QED BY <1>2, <1>3, <1>8, TaskKeeps

(* The run of a batch settles nothing yet: every job that ran is to be     *)
(* recorded.                                                               *)
LEMMA WorkKeeps == ASSUME Kept, NEW t \in batches, Work(t) PROVE Kept'
<1> PICK k \in {"success", "failed"} :
         Become(t, [t EXCEPT !.kind = k, !.todo = t.run, !.pc = "finish"])
  BY DEF Work
<1> DEFINE u == [t EXCEPT !.kind = k, !.todo = t.run, !.pc = "finish"]
<1>1. /\ t.pc = "built" /\ t.todo = {} /\ t.run # {} /\ batches' = (batches \ {t}) \cup {u}
      /\ UNCHANGED <<permits, outcome, results, refused, cancelled, failed, errors, queueVars,
                     loaded>>
  BY DEF Work, Become, Free, OnlyBatch
<1>2. /\ u \in BatchTask /\ u.jobs = t.jobs /\ u.held = t.held /\ u.todo = t.run /\ u.run = t.run
      /\ u.pc = "finish" /\ u.kind = k
  BY BatchFacts DEF BatchTask
<1> HIDE DEF u
<1>3. BatchOK(u, outcome', refused', failed')
  <2>1. Built(t, outcome, refused)
    BY <1>1, BatchFacts DEF BatchOK, Finishing, Condemned
  <2>2. Finishing(u, outcome', refused', failed')
    BY <1>1, <1>2, <2>1 DEF Built, Finishing
  <2> QED BY <1>2, <2>2, BatchFacts DEF BatchOK
<1>4. TaskStep(t, {u})
  BY <1>1, <1>2, <1>3 DEF TaskStep
<1>5. TaskTyped
  BY <1>1, BatchFacts DEF TaskTyped
<1>6. LetGo(t, {u}) = {}
  BY <1>2 DEF LetGo
<1>7. Settling(t, {u})
  BY <1>1, <1>2, <1>6, BatchFacts DEF Settling
<1> QED BY <1>4, <1>5, <1>7, TaskKeeps

(* The steps that record what became of a job that ran.                    *)
LEMMA FinishKeeps ==
    ASSUME Kept, NEW t \in batches, Acknowledge(t) \/ HandleErr(t) \/ FinishFails(t)
    PROVE  Kept'
<1>0. PICK todo \in SUBSET t.todo :
         /\ batches' = (batches \ {t}) \cup {[t EXCEPT !.todo = todo]}
         /\ \A j \in Jobs : j \notin t.run => outcome'[j] = outcome[j]
         /\ \A j \in t.run : outcome[j] # "claimed" => outcome'[j] # "claimed"
         /\ \A j \in todo : outcome'[j] = outcome[j]
         /\ \A j \in t.todo \ todo : outcome'[j] # "claimed" \/ failed'
         /\ \A j \in t.run : /\ outcome'[j] \in {"claimed", "done", "retry", "dead"}
                             /\ outcome'[j] = "dead" => outcome[j] = "dead" \/ j \in Exhausted
         /\ outcome' \in [Jobs -> {"claimed", "done", "retry", "dead"}]
  <2>0. t.todo \subseteq t.run /\ t.run \subseteq Jobs
    BY BatchFacts DEF BatchOK, Built, Finishing, Condemned, Acknowledge, HandleErr, FinishFails
  <2>1. CASE Acknowledge(t)
    <3>1. \A j \in Jobs : outcome'[j] = IF j \in t.run THEN "done" ELSE outcome[j]
      BY <2>1 DEF Acknowledge
    <3>2. outcome' \in [Jobs -> {"claimed", "done", "retry", "dead"}]
      BY <2>1, BatchFacts DEF Acknowledge
    <3>3. {} \in SUBSET t.todo /\ batches' = (batches \ {t}) \cup {[t EXCEPT !.todo = {}]}
      BY <2>1 DEF Acknowledge, Become
    <3> QED BY <2>0, <3>1, <3>2, <3>3
  <2>2. CASE HandleErr(t)
    <3>0. PICK j \in t.todo :
              /\ outcome' = [outcome EXCEPT ![j] = IF j \in Exhausted THEN "dead" ELSE "retry"]
              /\ batches' = (batches \ {t}) \cup {[t EXCEPT !.todo = t.todo \ {j}]}
      BY <2>2 DEF HandleErr, Become
    <3>1. \A i \in Jobs : outcome'[i] = IF i # j THEN outcome[i]
                                        ELSE IF j \in Exhausted THEN "dead" ELSE "retry"
      BY <2>0, <3>0, BatchFacts
    <3>2. outcome' \in [Jobs -> {"claimed", "done", "retry", "dead"}]
      BY <3>0, BatchFacts
    <3>3. t.todo \ {j} \in SUBSET t.todo
      OBVIOUS
    <3>4. /\ \A i \in Jobs : i \notin t.run => outcome'[i] = outcome[i]
          /\ \A i \in t.run : outcome[i] # "claimed" => outcome'[i] # "claimed"
          /\ \A i \in t.todo \ {j} : outcome'[i] = outcome[i]
          /\ \A i \in t.todo \ (t.todo \ {j}) : outcome'[i] # "claimed"
      BY <2>0, <3>1
    <3>5. \A i \in t.run : /\ outcome'[i] \in {"claimed", "done", "retry", "dead"}
                           /\ outcome'[i] = "dead" => outcome[i] = "dead" \/ i \in Exhausted
      BY <2>0, <3>1, <3>2
    <3> QED BY <3>0, <3>2, <3>3, <3>4, <3>5
  <2>3. CASE FinishFails(t)
    <3>1. /\ {} \in SUBSET t.todo /\ batches' = (batches \ {t}) \cup {[t EXCEPT !.todo = {}]}
          /\ outcome' = outcome /\ failed' = TRUE
      BY <2>3 DEF FinishFails, Become, Fail
    <3> QED BY <2>0, <3>1, BatchFacts
  <2> QED BY <2>1, <2>2, <2>3
<1> DEFINE u == [t EXCEPT !.todo = todo]
<1>1. /\ t.pc = "finish" /\ UNCHANGED <<permits, results, refused, queueVars, loaded>>
      /\ failed => failed'
  BY DEF Acknowledge, HandleErr, FinishFails, Free, OnlyBatch, Fail
<1>2. Finishing(t, outcome, refused, failed)
  BY <1>1, BatchFacts DEF BatchOK, Built, Condemned
<1>3. /\ u \in BatchTask /\ u.jobs = t.jobs /\ u.held = t.held /\ u.todo = todo /\ u.run = t.run
      /\ u.pc = "finish" /\ u.kind = t.kind
  BY <1>1, BatchFacts DEF BatchTask
<1> HIDE DEF u
<1>4. BatchOK(u, outcome', refused', failed')
  <2>1. Finishing(u, outcome', refused', failed')
    BY <1>0, <1>1, <1>2, <1>3 DEF Finishing
  <2> QED BY <1>3, <2>1, BatchFacts DEF BatchOK
<1>5. t.held = t.run
  BY <1>2 DEF Finishing
<1>6. TaskStep(t, {u})
  <2>1. batches' = (batches \ {t}) \cup {u}
    BY <1>0 DEF u
  <2> QED BY <1>0, <1>1, <1>3, <1>4, <1>5, <2>1 DEF TaskStep
<1>7. TaskTyped
  <2>1. cancelled' \in BOOLEAN /\ failed' \in BOOLEAN
    BY BatchFacts DEF Acknowledge, HandleErr, FinishFails, Free, Fail
  <2>2. errors' \in 0 .. MaxErrors
    BY BatchFacts, BatcherAssumption
    DEF Acknowledge, HandleErr, FinishFails, Free, Fail, BatcherAssumption
  <2> QED BY <1>0, <1>1, <2>1, <2>2, BatchFacts DEF TaskTyped
<1>8. LetGo(t, {u}) = {}
  BY <1>3 DEF LetGo
<1>9. \A j \in t.held : /\ outcome[j] # "claimed" => outcome'[j] # "claimed"
                        /\ outcome'[j] = "dead" => j \in Malformed \cup Exhausted \cup refused'
  BY <1>0, <1>1, <1>5, BatchFacts
<1>10. Settling(t, {u})
  BY <1>1, <1>3, <1>8, <1>9 DEF Settling
<1> QED BY <1>6, <1>7, <1>10, TaskKeeps

(* The jobs the results count are the ones the batch lets go.              *)
LEMMA ReportKeeps == ASSUME Kept, NEW t \in batches, Report(t) PROVE Kept'
<1>1. /\ t.pc = "finish" /\ t.todo = {}
      /\ batches' = (batches \ {t}) \cup {} /\ permits' = permits \ t.held
      /\ results' = [results EXCEPT ![t.kind] = @ + Cardinality(t.run)]
      /\ UNCHANGED <<outcome, refused, cancelled, failed, errors, queueVars, loaded>>
  BY DEF Report, End, Free, OnlyBatch
<1>2. Finishing(t, outcome, refused, failed) /\ t.kind \in {"success", "failed"}
  BY <1>1, BatchFacts DEF BatchOK, Built, Condemned, Finishing, BatchTask
<1>3. t.held = t.run /\ t.held \subseteq Jobs /\ Cardinality(t.run) \in Nat
  BY <1>2, BatchFacts, JobsFinite DEF Finishing
<1>4. /\ results' \in [{"success", "failed"} -> Nat]
      /\ results'["success"] + results'["failed"]
            = results["success"] + results["failed"] + Cardinality(t.run)
  BY <1>1, <1>2, <1>3, BatchFacts
<1>5. TaskStep(t, {})
  BY <1>1 DEF TaskStep
<1>6. TaskTyped
  BY <1>1, <1>4, BatchFacts DEF TaskTyped
<1>7. LetGo(t, {}) = t.held
  BY DEF LetGo
<1>8. \A j \in t.held : outcome'[j] # "claimed" \/ failed'
  BY <1>1, <1>2, <1>3 DEF Finishing
<1>9. \A j \in t.held : HasRun(j)' \/ failed'
  <2> SUFFICES ASSUME NEW j \in t.held, ~failed PROVE HasRun(j)'
    BY <1>1
  <2>1. j \in Jobs /\ outcome[j] # "claimed" /\ j \notin Malformed /\ j \notin refused
    BY <1>1, <1>2, <1>3, BatchFacts DEF Finishing, Disjoint
  <2>2. outcome[j] \in {"done", "retry", "dead"}
    BY <2>1, BatchFacts
  <2> QED BY <1>1, <2>1, <2>2 DEF HasRun
<1>10. Settling(t, {})
  BY <1>1, <1>3, <1>4, <1>7, <1>8, <1>9, BatchFacts DEF Settling
<1> QED BY <1>5, <1>6, <1>10, TaskKeeps

-----------------------------------------------------------------------------
(* The steps of a batcher.                                                 *)

(* A step of a batcher changes neither what is in memory nor what the      *)
(* store says.                                                             *)
LEMMA LineKeeps == ASSUME Kept, NEW b, NEW n, NEW js, LineStep(b, n, js) PROVE Kept'
<1>1. BatcherInv' /\ Held' = Held /\ InBatch' = InBatch \cup ToSet(js)
  BY LineStepKeeps DEF Kept
<1>2. UNCHANGED <<permits, outcome, results, loaded, refused, failed>>
  BY DEF LineStep, OnlyBatcher
<1>3. \A j \in ToSet(js) : outcome[j] = "claimed"
  BY Places DEF Kept, BatcherInv, Routed, LineStep
<1>4. Ran' = Ran
  BY <1>1, <1>2, <1>3 DEF Ran, HasRun
<1>5. ResultsMatchStore'
  BY <1>2, <1>4, ResultsByRan, ResultsByRanPrimed DEF Kept, StoreAgrees
<1>6. PermitsFollowJobs' /\ LoadedAreSettled'
  BY <1>1, <1>2 DEF Kept, PermitsFollowJobs, LoadedAreSettled
<1>7. DeadDeserved'
  BY <1>2 DEF Kept, StoreAgrees, DeadDeserved
<1> QED BY <1>1, <1>5, <1>6, <1>7 DEF Kept, StoreAgrees

(* What is known of a batcher task.                                        *)
LEMMA TaskFacts ==
    ASSUME Kept, NEW b \in Slots
    PROVE  /\ batcher \in [Slots -> BatcherTask] /\ batcher[b] \in BatcherTask
           /\ batcher[b].chan \in Seq(Jobs) /\ batcher[b].pending \in Seq(Jobs)
           /\ Distinct(batcher[b].chan) /\ Distinct(batcher[b].pending)
           /\ Disjoint(ToSet(batcher[b].chan), ToSet(batcher[b].pending))
           /\ Len(batcher[b].chan) <= Capacity /\ Len(batcher[b].pending) < BatchSize
           /\ Len(batcher[b].chan) \in Nat /\ Len(batcher[b].pending) \in Nat
           /\ BatchSize \in Nat /\ BatchSize > 0 /\ Capacity \in Nat
           /\ Len(batcher[b].pending) <= BatchSize
           /\ Len(<<>>) < BatchSize /\ Len(<<>>) <= Capacity /\ Len(<<>>) <= BatchSize
           /\ Vacant \in BatcherTask /\ Vacant.chan = <<>> /\ Vacant.pending = <<>>
           /\ Vacant.open = FALSE /\ Vacant.pc = "done"
           /\ <<>> \in Seq(Jobs) /\ Len(<<>>) = 0 /\ ToSet(<<>>) = {} /\ Distinct(<<>>)
<1>1. batcher \in [Slots -> BatcherTask] /\ batcher[b] \in BatcherTask
  BY DEF Kept, BatcherInv, Typed
<1>2. batcher[b].chan \in Seq(Jobs) /\ batcher[b].pending \in Seq(Jobs)
  BY <1>1 DEF BatcherTask
<1>3. Vacant \in BatcherTask /\ Vacant.chan = <<>> /\ Vacant.pending = <<>>
      /\ Vacant.open = FALSE /\ Vacant.pc = "done"
  BY DEF Vacant, BatcherTask
<1>4. BatchSize \in Nat /\ BatchSize > 0 /\ Capacity \in Nat
  BY BatcherAssumption DEF BatcherAssumption, Capacity
<1>5. <<>> \in Seq(Jobs) /\ Len(<<>>) = 0 /\ ToSet(<<>>) = {} /\ Distinct(<<>>)
  BY Elements, EmptySeq
<1>6. Len(batcher[b].chan) \in Nat /\ Len(batcher[b].pending) \in Nat
  BY <1>2, LenProperties
<1>7. Len(batcher[b].chan) <= Capacity /\ Len(batcher[b].pending) < BatchSize
  BY DEF Kept, BatcherInv, Typed, TypeOK
<1>8. /\ Len(batcher[b].pending) <= BatchSize
      /\ Len(<<>>) < BatchSize /\ Len(<<>>) <= Capacity /\ Len(<<>>) <= BatchSize
  BY <1>4, <1>5, <1>6, <1>7
<1> QED
  BY <1>1, <1>2, <1>3, <1>4, <1>5, <1>6, <1>7, <1>8 DEF Kept, BatcherInv, Apart

(* A job moves from the channel to the jobs the batcher holds.             *)
LEMMA TakeFacts ==
    ASSUME Kept, NEW b \in Slots, batcher[b].chan # <<>>
    PROVE  LET got == Append(batcher[b].pending, Head(batcher[b].chan))
               rest == Tail(batcher[b].chan)
           IN  /\ got \in Seq(Jobs) /\ rest \in Seq(Jobs) /\ got # <<>>
               /\ Len(got) <= BatchSize /\ Len(got) \in Nat /\ Len(rest) <= Capacity
               /\ Distinct(got) /\ Distinct(rest)
               /\ Disjoint(ToSet(rest), ToSet(got)) /\ ToSet(rest) \cup ToSet(got) = Line(b)
<1> DEFINE c == batcher[b].chan  p == batcher[b].pending  h == Head(batcher[b].chan)
           got == Append(p, h)  rest == Tail(c)
<1>1. /\ c \in Seq(Jobs) /\ p \in Seq(Jobs) /\ Distinct(c) /\ Distinct(p)
      /\ Disjoint(ToSet(c), ToSet(p)) /\ Len(c) <= Capacity /\ Len(p) < BatchSize
      /\ Len(c) \in Nat /\ Len(p) \in Nat /\ BatchSize \in Nat /\ Capacity \in Nat
  BY TaskFacts
<1>2. Line(b) = ToSet(c) \cup ToSet(p)
  BY DEF Line
<1> HIDE DEF c, p
<1>3. /\ h \in ToSet(c) /\ h \in Jobs /\ rest \in Seq(Jobs) /\ Len(rest) = Len(c) - 1
      /\ Distinct(rest) /\ ToSet(rest) = ToSet(c) \ {h}
  BY <1>1, TailElements DEF c
<1> HIDE DEF h, rest
<1>4. h \notin ToSet(p)
  BY <1>1, <1>3 DEF Disjoint
<1>5. /\ got \in Seq(Jobs) /\ Len(got) = Len(p) + 1 /\ got # <<>>
      /\ ToSet(got) = ToSet(p) \cup {h} /\ Distinct(got)
  BY <1>1, <1>3, <1>4, AppendElements
<1> HIDE DEF got
<1>6. Disjoint(ToSet(rest), ToSet(got)) /\ ToSet(rest) \cup ToSet(got) = Line(b)
  BY <1>1, <1>2, <1>3, <1>5 DEF Disjoint
<1>7. Len(got) <= BatchSize /\ Len(got) \in Nat /\ Len(rest) <= Capacity
  BY <1>1, <1>3, <1>5
<1> QED
  BY <1>3, <1>5, <1>6, <1>7 DEF got, rest, h, p, c

(* A received job is held by the batcher, or spawned with a full batch.    *)
LEMMA RecvKeeps == ASSUME Kept, NEW b \in Slots, Recv(b) PROVE Kept'
<1> DEFINE got == Append(batcher[b].pending, Head(batcher[b].chan))
           rest == Tail(batcher[b].chan)
           full == Len(got) >= BatchSize \/ ZeroTimeout
           js == IF full THEN got ELSE <<>>
           n == [batcher[b] EXCEPT !.chan = rest, !.pending = IF full THEN <<>> ELSE got,
                                   !.pc = IF full THEN "idle" ELSE "filling"]
<1>0. /\ BatchSize \in Nat /\ BatchSize > 0 /\ Capacity \in Nat
      /\ <<>> \in Seq(Jobs) /\ Len(<<>>) = 0 /\ ToSet(<<>>) = {} /\ Distinct(<<>>)
  BY TaskFacts
<1>1. /\ got \in Seq(Jobs) /\ rest \in Seq(Jobs) /\ got # <<>>
      /\ Len(got) <= BatchSize /\ Len(got) \in Nat /\ Len(rest) <= Capacity
      /\ Distinct(got) /\ Distinct(rest)
      /\ Disjoint(ToSet(rest), ToSet(got)) /\ ToSet(rest) \cup ToSet(got) = Line(b)
  BY TakeFacts DEF Recv
<1>2. /\ batches' = IF full THEN Spawned(got) ELSE batches
      /\ batcher' = [batcher EXCEPT ![b] = n] /\ OnlyBatcher
  BY TaskFacts DEF Recv, BatcherTask
<1> HIDE DEF got, rest, full
<1>3. /\ n.chan = rest /\ n.pending = (IF full THEN <<>> ELSE got)
      /\ n.pc \in {"idle", "filling"} /\ n.open = batcher[b].open /\ n.key = batcher[b].key
      /\ n \in BatcherTask
  BY <1>1, TaskFacts DEF BatcherTask
<1> HIDE DEF n
<1>4. batches' = Spawned(js) /\ js \in Seq(Jobs)
  BY <1>1, <1>2, TaskFacts DEF Spawned
<1>5. /\ Len(n.pending) < BatchSize /\ Len(js) <= BatchSize
      /\ Distinct(n.pending) /\ Disjoint(ToSet(n.chan), ToSet(n.pending))
      /\ Disjoint(ToSet(n.chan), ToSet(js)) /\ Disjoint(ToSet(n.pending), ToSet(js))
      /\ ToSet(n.chan) \cup ToSet(n.pending) \cup ToSet(js) = Line(b)
  <2>1. CASE full
    BY <1>0, <1>1, <1>3, <2>1 DEF Disjoint
  <2>2. CASE ~full
    <3>1. Len(got) < BatchSize
      BY <1>0, <1>1, <2>2 DEF full
    <3> QED BY <1>0, <1>1, <1>3, <2>2, <3>1 DEF Disjoint
  <2> QED BY <2>1, <2>2
<1> HIDE DEF js
<1>6. LineStep(b, n, js)
  BY <1>1, <1>2, <1>3, <1>4, <1>5 DEF LineStep
<1> QED BY <1>6, LineKeeps

(* A timeout spawns what the batcher holds.                                *)
LEMMA TimeoutKeeps == ASSUME Kept, NEW b \in Slots, TimeoutElapses(b) PROVE Kept'
<1> DEFINE js == batcher[b].pending
           n == [batcher[b] EXCEPT !.pending = <<>>, !.pc = "idle"]
<1>1. batches' = Spawned(js) /\ batcher' = [batcher EXCEPT ![b] = n] /\ OnlyBatcher
  BY TaskFacts DEF TimeoutElapses, BatcherTask
<1>2. /\ n.chan = batcher[b].chan /\ n.pending = <<>> /\ n.pc = "idle"
      /\ n.open = batcher[b].open /\ n.key = batcher[b].key /\ n \in BatcherTask
  BY TaskFacts DEF BatcherTask
<1> HIDE DEF n
<1>3. Disjoint(ToSet(n.pending), ToSet(js)) /\ Disjoint(ToSet(n.chan), ToSet(n.pending))
  BY <1>2, TaskFacts DEF Disjoint
<1>4. /\ Len(batcher[b].pending) <= BatchSize /\ Len(<<>>) < BatchSize /\ Len(<<>>) <= Capacity
      /\ Len(<<>>) <= BatchSize
  BY TaskFacts
<1>5. LineStep(b, n, js)
  BY <1>1, <1>2, <1>3, <1>4, TaskFacts DEF LineStep, Line
<1> QED BY <1>5, LineKeeps

(* The end of a batcher: what it holds is spawned, and its channel is      *)
(* empty.                                                                  *)
LEMMA RetireKeeps ==
    ASSUME Kept, NEW b \in Slots, batcher[b].chan = <<>>, batches' = Spawned(batcher[b].pending),
           batcher' = [batcher EXCEPT ![b] = Vacant], OnlyBatcher
    PROVE  Kept'
<1>1. /\ Disjoint(ToSet(Vacant.pending), ToSet(batcher[b].pending))
      /\ Disjoint(ToSet(Vacant.chan), ToSet(batcher[b].pending))
      /\ Disjoint(ToSet(Vacant.chan), ToSet(Vacant.pending))
  BY TaskFacts DEF Disjoint
<1>2. /\ Len(batcher[b].pending) <= BatchSize /\ Len(<<>>) < BatchSize /\ Len(<<>>) <= Capacity
      /\ Len(<<>>) <= BatchSize
  BY TaskFacts
<1>3. LineStep(b, Vacant, batcher[b].pending)
  BY <1>1, <1>2, TaskFacts DEF LineStep, Line
<1> QED BY <1>3, LineKeeps

(* A batcher whose senders are gone retires.                               *)
LEMMA HangupKeeps == ASSUME Kept, NEW b \in Slots, Hangup(b) PROVE Kept'
  BY RetireKeeps DEF Hangup

(* A closed channel keeps its jobs.                                        *)
LEMMA CloseKeeps == ASSUME Kept, NEW b \in Slots, Close(b) PROVE Kept'
<1> DEFINE n == [batcher[b] EXCEPT !.pc = "flush", !.open = FALSE]
<1>1. batches' = Spawned(<<>>) /\ batcher' = [batcher EXCEPT ![b] = n] /\ OnlyBatcher
  BY TaskFacts DEF Close, BatcherTask, Spawned
<1>2. /\ n.chan = batcher[b].chan /\ n.pending = batcher[b].pending /\ n.pc = "flush"
      /\ n.open = FALSE /\ n.key = batcher[b].key /\ n \in BatcherTask
  BY TaskFacts DEF BatcherTask
<1> HIDE DEF n
<1>3. Disjoint(ToSet(n.pending), ToSet(<<>>)) /\ Disjoint(ToSet(n.chan), ToSet(<<>>))
  BY TaskFacts DEF Disjoint
<1>4. /\ Len(batcher[b].pending) <= BatchSize /\ Len(<<>>) < BatchSize /\ Len(<<>>) <= Capacity
      /\ Len(<<>>) <= BatchSize
  BY TaskFacts
<1>5. LineStep(b, n, <<>>)
  BY <1>1, <1>2, <1>3, <1>4, TaskFacts DEF LineStep, Line
<1> QED BY <1>5, LineKeeps

(* A flushing batcher takes the jobs of its channel, or retires.           *)
LEMMA DrainKeeps == ASSUME Kept, NEW b \in Slots, Drain(b) PROVE Kept'
<1>0. /\ BatchSize \in Nat /\ BatchSize > 0 /\ Capacity \in Nat
      /\ <<>> \in Seq(Jobs) /\ Len(<<>>) = 0 /\ ToSet(<<>>) = {} /\ Distinct(<<>>)
  BY TaskFacts
<1>1. CASE batcher[b].chan = <<>>
  BY <1>1, RetireKeeps DEF Drain
<1>2. CASE batcher[b].chan # <<>>
  <2> DEFINE got == Append(batcher[b].pending, Head(batcher[b].chan))
             rest == Tail(batcher[b].chan)
             full == Len(got) >= BatchSize
             js == IF full THEN got ELSE <<>>
             n == [batcher[b] EXCEPT !.chan = rest, !.pending = IF full THEN <<>> ELSE got]
  <2>1. /\ got \in Seq(Jobs) /\ rest \in Seq(Jobs) /\ got # <<>>
        /\ Len(got) <= BatchSize /\ Len(got) \in Nat /\ Len(rest) <= Capacity
        /\ Distinct(got) /\ Distinct(rest)
        /\ Disjoint(ToSet(rest), ToSet(got)) /\ ToSet(rest) \cup ToSet(got) = Line(b)
    BY <1>2, TakeFacts
  <2>2. /\ batcher[b].pc = "flush" /\ batches' = IF full THEN Spawned(got) ELSE batches
        /\ batcher' = [batcher EXCEPT ![b] = n] /\ OnlyBatcher
    BY <1>2, TaskFacts DEF Drain, BatcherTask
  <2> HIDE DEF got, rest, full
  <2>3. /\ n.chan = rest /\ n.pending = (IF full THEN <<>> ELSE got)
        /\ n.pc = "flush" /\ n.open = batcher[b].open /\ n.key = batcher[b].key
        /\ n \in BatcherTask
    BY <2>1, <2>2, TaskFacts DEF BatcherTask
  <2> HIDE DEF n
  <2>4. batches' = Spawned(js) /\ js \in Seq(Jobs)
    BY <2>1, <2>2, TaskFacts DEF Spawned
  <2>5. /\ Len(n.pending) < BatchSize /\ Len(js) <= BatchSize
        /\ Distinct(n.pending) /\ Disjoint(ToSet(n.chan), ToSet(n.pending))
        /\ Disjoint(ToSet(n.chan), ToSet(js)) /\ Disjoint(ToSet(n.pending), ToSet(js))
        /\ ToSet(n.chan) \cup ToSet(n.pending) \cup ToSet(js) = Line(b)
    <3>1. CASE full
      BY <1>0, <2>1, <2>3, <3>1 DEF Disjoint
    <3>2. CASE ~full
      <4>1. Len(got) < BatchSize
        BY <1>0, <2>1, <3>2 DEF full
      <4> QED BY <1>0, <2>1, <2>3, <3>2, <4>1 DEF Disjoint
    <3> QED BY <3>1, <3>2
  <2> HIDE DEF js
  <2>6. LineStep(b, n, js)
    BY <2>1, <2>2, <2>3, <2>4, <2>5 DEF LineStep
  <2> QED BY <2>6, LineKeeps
<1> QED BY <1>1, <1>2

-----------------------------------------------------------------------------
(* The steps of the coordinator.                                           *)

(* A step that takes jobs out of the inbox, or drops them: some are sent,  *)
(* or spawned as a batch js of one.                                        *)
EarlyStep(js) ==
    /\ js \in Seq(Jobs) /\ Len(js) <= BatchSize /\ \A i, k \in ToSet(js) : i = k
    /\ batches' = Spawned(js)
    /\ UNCHANGED <<current, batcher, outcome, results, refused>>
    /\ Early' \subseteq Early /\ ToSet(js) \subseteq Early /\ Disjoint(Early', ToSet(js))
    /\ inbox' \in Seq(Jobs) /\ Distinct(inbox') /\ Disjoint(ToSet(inbox'), Sending')
    /\ coord' \in [pc : {"select", "send", "gone"}, job : Jobs \cup {0}]
    /\ coord'.pc = "send" => coord'.job \in Jobs /\ KeyOf[coord'.job] \in Keys
    /\ loaded' \subseteq Jobs /\ loaded \subseteq loaded' /\ Disjoint(loaded', ToSet(inbox'))
    /\ loaded' \ loaded \subseteq Early' \cup ToSet(js)
    /\ permits' = permits \ (Early \ (Early' \cup ToSet(js)))
    /\ Disjoint(loaded, Early \ (Early' \cup ToSet(js)))
    /\ cancelled' \in BOOLEAN /\ failed' \in BOOLEAN /\ errors' \in 0 .. MaxErrors
    /\ failed => failed'

(* Such a step keeps all the invariants.                                   *)
LEMMA EarlyKeeps == ASSUME Kept, NEW js, EarlyStep(js) PROVE Kept'
<1>0. /\ js \in Seq(Jobs) /\ batches' = Spawned(js)
      /\ UNCHANGED <<current, batcher, outcome, results, refused>>
      /\ Early' \subseteq Early /\ ToSet(js) \subseteq Early /\ (failed => failed')
      /\ BatcherInv
  BY DEF EarlyStep, Kept
<1>1. \A j \in Early : outcome[j] = "claimed" /\ j \notin refused
  BY DEF Kept, BatcherInv, Routed
<1>2. /\ js # <<>> => /\ batches' = batches \cup {Batch(js)} /\ Batch(js) \in BatchTask
                      /\ Batch(js).jobs = js /\ Batch(js).held = ToSet(js)
                      /\ BatchOK(Batch(js), outcome, refused, failed')
      /\ js = <<>> => batches' = batches /\ ToSet(js) = {}
  <2>1. \A j \in ToSet(js) : outcome[j] = "claimed" /\ j \notin refused
    BY <1>0, <1>1
  <2>2. \A i, j \in ToSet(js) : KeyOf[i] = KeyOf[j]
    BY DEF EarlyStep
  <2>3. js = <<>> => ToSet(js) = {}
    BY <1>0, Elements
  <2> QED
    BY <1>0, <2>1, <2>2, <2>3, FreshBatch DEF EarlyStep, Spawned
<1>3. /\ \A t \in batches' : t \in batches \/ (js # <<>> /\ t.jobs = js /\ t = Batch(js))
      /\ \A t \in batches : t \in batches'
  BY <1>2
<1>4. Waiting' = Waiting /\ \A b \in Slots : Line(b)' = Line(b)
  BY <1>0 DEF Waiting, Line
<1>5. Typed'
  <2>1. \A t \in batches' : t \in BatchTask
    BY <1>2, <1>3 DEF Kept, BatcherInv, Typed
  <2>2. permits' \subseteq Jobs
    BY DEF EarlyStep, Kept, BatcherInv, Typed, TypeOK
  <2>3. TypeOK'
    BY <1>0, <2>2 DEF EarlyStep, Kept, BatcherInv, Typed, TypeOK
  <2> QED BY <1>0, <2>1, <2>3 DEF EarlyStep, Kept, BatcherInv, Typed
<1>6. Apart'
  <2>1. Distinct(inbox') /\ Disjoint(ToSet(inbox'), Sending')
    BY DEF EarlyStep
  <2>2. ASSUME NEW b \in Slots
        PROVE  /\ Distinct(batcher'[b].chan) /\ Distinct(batcher'[b].pending)
               /\ Disjoint(ToSet(batcher'[b].chan), ToSet(batcher'[b].pending))
               /\ Disjoint(Line(b)', Early')
               /\ \A c \in Slots : b # c => Disjoint(Line(b)', Line(c)')
    <3>1. Disjoint(Line(b)', Early')
      BY <1>0, <1>4 DEF BatcherInv, Apart, Disjoint
    <3> QED BY <1>0, <1>4, <3>1 DEF BatcherInv, Apart
  <2>3. ASSUME NEW t \in batches'
        PROVE  /\ Disjoint(ToSet(t.jobs), Early')
               /\ \A b \in Slots : Disjoint(ToSet(t.jobs), Line(b)')
               /\ \A u \in batches' : t # u => Disjoint(ToSet(t.jobs), ToSet(u.jobs))
    <3>1. CASE t \in batches
      <4>1. Disjoint(ToSet(t.jobs), Early') /\ \A b \in Slots : Disjoint(ToSet(t.jobs), Line(b)')
        BY <1>0, <1>4, <3>1 DEF BatcherInv, Apart, Disjoint
      <4>2. Disjoint(ToSet(t.jobs), ToSet(js))
        BY <1>0, <3>1 DEF BatcherInv, Apart, Disjoint
      <4> QED
        BY <1>0, <1>3, <3>1, <4>1, <4>2 DEF BatcherInv, Apart
    <3>2. CASE t \notin batches
      <4>1. t.jobs = js
        BY <1>3, <3>2
      <4>2. Disjoint(ToSet(js), Early')
        BY DEF EarlyStep, Disjoint
      <4>3. \A b \in Slots : Disjoint(ToSet(js), Line(b)')
        BY <1>0, <1>4 DEF BatcherInv, Apart, Disjoint
      <4>4. \A u \in batches : Disjoint(ToSet(js), ToSet(u.jobs))
        BY <1>0 DEF BatcherInv, Apart, Disjoint
      <4> QED BY <1>3, <3>2, <4>1, <4>2, <4>3, <4>4
    <3> QED BY <3>1, <3>2
  <2> QED BY <2>1, <2>2, <2>3 DEF Apart
<1>7. Routed'
  <2>1. \A j \in (Early \cup Waiting)' : outcome'[j] = "claimed" /\ j \notin refused'
    BY <1>0, <1>4 DEF BatcherInv, Routed
  <2>2. \A b \in Slots :
          /\ \A j \in Line(b)' : KeyOf[j] = batcher'[b].key
          /\ batcher'[b].pc = "done" => ~batcher'[b].open /\ Line(b)' = {}
    BY <1>0, <1>4 DEF BatcherInv, Routed
  <2>3. \A k \in Keys : current'[k] # 0 /\ batcher'[current'[k]].open
                          => batcher'[current'[k]].key = k
    BY <1>0 DEF BatcherInv, Routed
  <2> QED BY <2>1, <2>2, <2>3 DEF Routed, EarlyStep
<1>8. BatchesOK'
  <2> SUFFICES ASSUME NEW t \in batches' PROVE BatchOK(t, outcome, refused, failed')
    BY <1>0 DEF BatchesOK
  <2>1. CASE t \in batches
    BY <1>0, <2>1 DEF BatcherInv, BatchesOK, BatchOK, Finishing
  <2>2. CASE t \notin batches
    BY <1>2, <1>3, <2>2
  <2> QED BY <2>1, <2>2
<1>9. InBatch' = InBatch \cup ToSet(js)
  <2>1. ASSUME NEW t \in batches' PROVE t \in batches \/ t.held = ToSet(js)
    BY <1>2, <1>3, <2>1
  <2>2. js # <<>> => \E t \in batches' : t.held = ToSet(js)
    BY <1>2
  <2>3. InBatch' \subseteq InBatch \cup ToSet(js)
    BY <2>1 DEF InBatch
  <2>4. InBatch \subseteq InBatch'
    BY <1>3 DEF InBatch
  <2>5. ToSet(js) \subseteq InBatch'
    BY <1>2, <2>2 DEF InBatch
  <2> QED BY <2>3, <2>4, <2>5
<1>10. Held' = Held \ (Early \ (Early' \cup ToSet(js)))
  <2>1. \A j \in Early : j \notin Waiting /\ j \notin InBatch
    <3>1. \A t \in batches : t.held \subseteq ToSet(t.jobs)
      BY <1>0 DEF BatcherInv, BatchesOK, BatchOK
    <3> QED BY <1>0, <3>1, Places DEF BatcherInv, Apart, Disjoint
  <2>2. Held = Early \cup Waiting \cup InBatch /\ Held' = Early' \cup Waiting' \cup InBatch'
    BY Places, PlacesPrimed
  <2> QED BY <1>0, <1>4, <1>9, <2>1, <2>2
<1>11. PermitsFollowJobs'
  BY <1>10 DEF Kept, PermitsFollowJobs, EarlyStep
<1>12. LoadedAreSettled'
  <2> SUFFICES ASSUME NEW j \in loaded', j \notin Held', outcome'[j] = "claimed" PROVE failed'
    BY DEF LoadedAreSettled
  <2>1. j \notin Early' \cup ToSet(js)
    BY <1>9, PlacesPrimed
  <2>2. j \in loaded
    BY <2>1 DEF EarlyStep
  <2>3. j \notin Held
    BY <1>10, <2>2 DEF EarlyStep, Disjoint
  <2> QED BY <1>0, <2>2, <2>3 DEF Kept, LoadedAreSettled
<1>13. DeadDeserved'
  BY <1>0 DEF Kept, StoreAgrees, DeadDeserved
<1>14. Ran' = Ran
  BY <1>0, <1>1, <1>9 DEF Ran, HasRun
<1>15. ResultsMatchStore'
  BY <1>0, <1>14, ResultsByRan, ResultsByRanPrimed DEF Kept, StoreAgrees
<1> QED
  BY <1>5, <1>6, <1>7, <1>8, <1>11, <1>12, <1>13, <1>15 DEF Kept, BatcherInv, StoreAgrees

(* What is known of the inbox and of the coordinator.                      *)
LEMMA InboxFacts ==
    ASSUME Kept
    PROVE  /\ inbox \in Seq(Jobs) /\ Distinct(inbox) /\ ToSet(inbox) \subseteq Jobs
           /\ coord \in [pc : {"select", "send", "gone"}, job : Jobs \cup {0}]
           /\ Disjoint(loaded, ToSet(inbox)) /\ loaded \subseteq Jobs /\ permits \subseteq Jobs
           /\ cancelled \in BOOLEAN /\ failed \in BOOLEAN /\ errors \in 0 .. MaxErrors
           /\ MaxErrors \in Nat
           /\ <<>> \in Seq(Jobs) /\ Len(<<>>) = 0 /\ ToSet(<<>>) = {} /\ Distinct(<<>>)
           /\ Len(<<>>) <= BatchSize /\ 1 <= BatchSize
<1>1. inbox \in Seq(Jobs)
  BY DEF Kept, BatcherInv, Typed
<1>2. ToSet(inbox) \subseteq Jobs
  BY <1>1, Elements
<1>3. <<>> \in Seq(Jobs) /\ Len(<<>>) = 0 /\ ToSet(<<>>) = {} /\ Distinct(<<>>)
  BY <1>1, Elements, EmptySeq
<1>4. MaxErrors \in Nat /\ BatchSize \in Nat /\ 1 <= BatchSize
  BY BatcherAssumption DEF BatcherAssumption
<1>5. Len(<<>>) <= BatchSize
  BY <1>3, <1>4
<1> QED
  BY <1>1, <1>2, <1>3, <1>4, <1>5 DEF Kept, BatcherInv, Typed, TypeOK, Apart, Routed

(* A routed job becomes a batch of its own or is on its way to a batcher;  *)
(* a cancelled coordinator drops it with its permit.                       *)
LEMMA RouteKeeps == ASSUME Kept, Route PROVE Kept'
<1> DEFINE j == Head(inbox)
<1>1. /\ coord.pc = "select" /\ inbox # <<>> /\ inbox' = Tail(inbox)
      /\ UNCHANGED <<current, batcher, outcome, results, refused, cancelled, failed, errors>>
  BY DEF Route
<1>2. /\ j \in ToSet(inbox) /\ j \in Jobs /\ Tail(inbox) \in Seq(Jobs)
      /\ Distinct(Tail(inbox)) /\ ToSet(Tail(inbox)) = ToSet(inbox) \ {j}
  BY <1>1, InboxFacts, TailElements
<1>3. Sending = {} /\ Early = ToSet(inbox)
  BY <1>1 DEF Sending, Early
<1>4. j \notin loaded
  BY <1>2, InboxFacts DEF Disjoint
<1>5. CASE cancelled
  <2>1. permits' = permits \ {j} /\ UNCHANGED <<coord, batches, loaded>>
    BY <1>5 DEF Route
  <2>2. Sending' = {} /\ Early' = Early \ {j}
    BY <1>1, <1>2, <1>3, <2>1 DEF Sending, Early
  <2>3. batches' = Spawned(<<>>)
    BY <2>1 DEF Spawned
  <2>4. Early \ (Early' \cup ToSet(<<>>)) = {j}
    BY <1>2, <1>3, <2>2, InboxFacts
  <2>5. Disjoint(loaded', ToSet(inbox')) /\ Disjoint(ToSet(inbox'), Sending')
    BY <1>1, <1>2, <2>1, <2>2, InboxFacts DEF Disjoint
  <2>6. Disjoint(Early', ToSet(<<>>)) /\ Disjoint(loaded, Early \ (Early' \cup ToSet(<<>>)))
    BY <1>4, <2>4, InboxFacts DEF Disjoint
  <2>7. coord'.pc = "select"
    BY <1>1, <2>1
  <2> HIDE DEF j
  <2>8. EarlyStep(<<>>)
    BY <1>1, <1>2, <2>1, <2>2, <2>3, <2>4, <2>5, <2>6, <2>7, InboxFacts DEF EarlyStep
  <2> QED BY <2>8, EarlyKeeps
<1>6. CASE ~cancelled /\ KeyOf[j] = Single
  <2>1. /\ loaded' = loaded \cup {j} /\ batches' = Spawned(<<j>>)
        /\ UNCHANGED <<coord, permits>>
    BY <1>6 DEF Route
  <2>2. Sending' = {} /\ Early' = Early \ {j}
    BY <1>1, <1>2, <1>3, <2>1 DEF Sending, Early
  <2>3. <<j>> \in Seq(Jobs) /\ Len(<<j>>) = 1 /\ ToSet(<<j>>) = {j}
    BY <1>2, SingleElement
  <2>4. Early \ (Early' \cup ToSet(<<j>>)) = {}
    BY <1>2, <1>3, <2>2, <2>3
  <2>5. Disjoint(loaded', ToSet(inbox')) /\ Disjoint(ToSet(inbox'), Sending')
    BY <1>1, <1>2, <2>1, <2>2, InboxFacts DEF Disjoint
  <2>6. /\ Disjoint(Early', ToSet(<<j>>)) /\ ToSet(<<j>>) \subseteq Early
        /\ Disjoint(loaded, Early \ (Early' \cup ToSet(<<j>>)))
    BY <1>2, <1>3, <2>2, <2>3, <2>4 DEF Disjoint
  <2>7. coord'.pc = "select" /\ Len(<<j>>) <= BatchSize
    BY <1>1, <2>1, <2>3, InboxFacts
  <2>8. /\ permits' = permits \ (Early \ (Early' \cup ToSet(<<j>>)))
        /\ loaded' \subseteq Jobs /\ loaded \subseteq loaded'
        /\ loaded' \ loaded \subseteq Early' \cup ToSet(<<j>>)
        /\ \A i, k \in ToSet(<<j>>) : i = k
    BY <1>2, <2>1, <2>3, <2>4, InboxFacts
  <2> HIDE DEF j
  <2>9. EarlyStep(<<j>>)
    BY <1>1, <1>2, <2>1, <2>2, <2>3, <2>5, <2>6, <2>7, <2>8, InboxFacts DEF EarlyStep
  <2> QED BY <2>9, EarlyKeeps
<1>7. CASE ~cancelled /\ KeyOf[j] # Single
  <2>1. /\ loaded' = loaded \cup {j} /\ coord' = [pc |-> "send", job |-> j]
        /\ UNCHANGED <<batches, permits>>
    BY <1>7 DEF Route
  <2>2. Sending' = {j} /\ Early' = Early
    BY <1>1, <1>2, <1>3, <2>1 DEF Sending, Early
  <2>3. batches' = Spawned(<<>>)
    BY <2>1 DEF Spawned
  <2>4. Early \ (Early' \cup ToSet(<<>>)) = {}
    BY <2>2
  <2>5. Disjoint(loaded', ToSet(inbox')) /\ Disjoint(ToSet(inbox'), Sending')
    BY <1>1, <1>2, <2>1, <2>2, InboxFacts DEF Disjoint
  <2>6. Disjoint(Early', ToSet(<<>>)) /\ Disjoint(loaded, Early \ (Early' \cup ToSet(<<>>)))
    BY <2>4, InboxFacts DEF Disjoint
  <2>7. /\ coord'.pc = "send" /\ coord'.job = j /\ KeyOf[j] \in Keys
        /\ coord' \in [pc : {"select", "send", "gone"}, job : Jobs \cup {0}]
    BY <1>2, <1>7, <2>1, BatcherAssumption DEF BatcherAssumption
  <2>8. /\ permits' = permits \ (Early \ (Early' \cup ToSet(<<>>)))
        /\ loaded' \subseteq Jobs /\ loaded \subseteq loaded'
        /\ loaded' \ loaded \subseteq Early' \cup ToSet(<<>>)
        /\ \A i, k \in ToSet(<<>>) : i = k
    BY <1>2, <1>3, <2>1, <2>2, <2>4, InboxFacts
  <2> HIDE DEF j
  <2>9. EarlyStep(<<>>)
    BY <1>1, <1>2, <2>2, <2>3, <2>5, <2>6, <2>7, <2>8, InboxFacts DEF EarlyStep
  <2> QED BY <2>9, EarlyKeeps
<1> QED BY <1>5, <1>6, <1>7

(* A coordinator that leaves drops the jobs it never loaded.               *)
LEMMA LeaveKeeps == ASSUME Kept, RouteFails \/ Leave PROVE Kept'
<1>1. /\ coord.pc = "select" /\ inbox' = <<>> /\ permits' = permits \ ToSet(inbox)
      /\ coord' = [coord EXCEPT !.pc = "gone"]
      /\ UNCHANGED <<current, batcher, batches, outcome, results, loaded, refused>>
      /\ failed => failed'
  BY DEF RouteFails, Leave, Fail
<1>2. /\ coord' \in [pc : {"select", "send", "gone"}, job : Jobs \cup {0}]
      /\ coord'.pc = "gone"
  BY <1>1, InboxFacts
<1>3. Early = ToSet(inbox) /\ Early' = {} /\ Sending' = {}
  BY <1>1, <1>2, InboxFacts DEF Early, Sending
<1>4. cancelled' \in BOOLEAN /\ failed' \in BOOLEAN
  BY InboxFacts DEF RouteFails, Leave, Fail
<1>5. errors' \in 0 .. MaxErrors
  BY InboxFacts DEF RouteFails, Leave, Fail
<1>6. batches' = Spawned(<<>>)
  BY <1>1 DEF Spawned
<1>7. /\ Disjoint(ToSet(inbox'), Sending') /\ Disjoint(loaded', ToSet(inbox'))
      /\ Disjoint(Early', ToSet(<<>>)) /\ Early \ (Early' \cup ToSet(<<>>)) = ToSet(inbox)
  BY <1>1, <1>3, InboxFacts DEF Disjoint
<1>8. EarlyStep(<<>>)
  BY <1>1, <1>2, <1>3, <1>4, <1>5, <1>6, <1>7, InboxFacts DEF EarlyStep
<1> QED BY <1>8, EarlyKeeps

(* Cancellation moves no job.                                              *)
LEMMA CancelKeeps == ASSUME Kept, Cancel PROVE Kept'
<1>1. /\ UNCHANGED <<inbox, coord, current, batcher, batches, permits, outcome, results, loaded,
                     refused, failed, errors>>
      /\ cancelled' = TRUE
  BY DEF Cancel
<1>2. Early' = Early /\ Sending' = Sending
  BY <1>1 DEF Early, Sending
<1>3. batches' = Spawned(<<>>)
  BY <1>1 DEF Spawned
<1>4. /\ Disjoint(Early', ToSet(<<>>)) /\ Early \ (Early' \cup ToSet(<<>>)) = {}
      /\ Disjoint(loaded, Early \ (Early' \cup ToSet(<<>>)))
  BY <1>2, InboxFacts DEF Disjoint
<1>5. /\ Disjoint(ToSet(inbox), Sending)
      /\ coord.pc = "send" => coord.job \in Jobs /\ KeyOf[coord.job] \in Keys
  BY DEF Kept, BatcherInv, Apart, Routed
<1>6. EarlyStep(<<>>)
  BY <1>1, <1>2, <1>3, <1>4, <1>5, InboxFacts DEF EarlyStep
<1> QED BY <1>6, EarlyKeeps

(* A step that moves jobs towards the batchers, or none, and touches       *)
(* nothing else.                                                           *)
LEMMA CalmKeeps ==
    ASSUME Kept, BatcherInv', Held' = Held,
           UNCHANGED <<batches, permits, outcome, results, loaded, refused, failed>>
    PROVE  Kept'
<1>1. Ran' = Ran
  BY DEF Ran, HasRun, InBatch
<1>2. ResultsMatchStore'
  BY <1>1, ResultsByRan, ResultsByRanPrimed DEF Kept, StoreAgrees
<1>3. PermitsFollowJobs' /\ LoadedAreSettled' /\ DeadDeserved'
  BY DEF Kept, PermitsFollowJobs, LoadedAreSettled, StoreAgrees, DeadDeserved
<1> QED BY <1>2, <1>3 DEF Kept, StoreAgrees

(* A sent job joins the line of the batcher of its key.                    *)
LEMMA SendKeeps == ASSUME Kept, Send PROVE Kept'
<1>0. coord.pc = "send" /\ Target # 0 /\ coord.job \in Jobs /\ KeyOf[coord.job] \in Keys
      /\ Target \in Slots
  BY DEF Send, Target, Kept, BatcherInv, Routed, Typed, TypeOK
<1>j. PICK j \in Jobs : j = coord.job
  BY <1>0
<1>b. PICK b \in Slots : b = Target
  BY <1>0
<1> DEFINE n == [batcher[b] EXCEPT !.chan = Append(batcher[b].chan, j)]
<1>1. /\ coord.pc = "send" /\ batcher[b].open /\ Len(batcher[b].chan) < Capacity
      /\ j \in Jobs /\ KeyOf[j] \in Keys /\ current[KeyOf[j]] = b /\ b \in Slots /\ b # 0
      /\ coord' = [pc |-> "select", job |-> 0]
      /\ UNCHANGED <<inbox, current, batches, permits, outcome, results, loaded, refused,
                     cancelled, failed, errors>>
  BY <1>0, <1>j, <1>b DEF Send, Target
<1>2. batcher[b].key = KeyOf[j] /\ batcher[b].pc # "done"
  BY <1>1, BatcherAssumption DEF Kept, BatcherInv, Routed, BatcherAssumption
<1>3. batcher' = [batcher EXCEPT ![b] = n]
  BY <1>1, <1>j, <1>b, TaskFacts DEF Send, BatcherTask
<1>4. Sending = {j} /\ Sending' = {} /\ Early = ToSet(inbox) \cup {j} /\ Early' = ToSet(inbox)
      /\ j \notin ToSet(inbox)
  BY <1>1, <1>j DEF Sending, Early, Kept, BatcherInv, Apart, Disjoint
<1>5. j \notin Line(b) /\ Disjoint(Line(b), Early)
  BY <1>1, <1>4 DEF Kept, BatcherInv, Apart, Disjoint
<1>6. b \in Slots /\ j \in Jobs
  BY <1>1
<1>7. /\ Append(batcher[b].chan, j) \in Seq(Jobs)
      /\ Len(Append(batcher[b].chan, j)) = Len(batcher[b].chan) + 1
      /\ ToSet(Append(batcher[b].chan, j)) = ToSet(batcher[b].chan) \cup {j}
      /\ Distinct(Append(batcher[b].chan, j))
  BY <1>5, <1>6, TaskFacts, AppendElements DEF Line
<1>8. /\ n.chan = Append(batcher[b].chan, j) /\ n.pending = batcher[b].pending
      /\ n.pc = batcher[b].pc /\ n.open = batcher[b].open /\ n.key = batcher[b].key
      /\ n \in BatcherTask
  BY <1>6, <1>7, TaskFacts DEF BatcherTask
<1>9. Len(n.chan) <= Capacity
  <2>1. Len(batcher[b].chan) \in Nat /\ Capacity \in Nat
    BY <1>6, TaskFacts
  <2> QED BY <1>1, <1>7, <1>8, <2>1
<1> HIDE DEF n
<1>10. batcher'[b] = n /\ \A c \in Slots : c # b => batcher'[c] = batcher[c]
  BY <1>3, <1>6, TaskFacts
<1>11. Line(b)' = Line(b) \cup {j} /\ \A c \in Slots : c # b => Line(c)' = Line(c)
  BY <1>7, <1>8, <1>10 DEF Line
<1>12. Typed'
  <2>1. batcher' \in [Slots -> BatcherTask]
    BY <1>3, <1>6, <1>8, TaskFacts
  <2>2. \A c \in Slots : /\ batcher'[c].pc \in {"idle", "filling", "flush", "done"}
                         /\ Len(batcher'[c].chan) <= Capacity
                         /\ Len(batcher'[c].pending) < BatchSize
    BY <1>6, <1>8, <1>9, <1>10 DEF Kept, BatcherInv, Typed, TypeOK
  <2>3. coord' \in [pc : {"select", "send", "gone"}, job : Jobs \cup {0}]
    BY <1>1
  <2>4. TypeOK'
    BY <1>1, <2>2, <2>3 DEF Kept, BatcherInv, Typed, TypeOK
  <2> QED BY <1>1, <2>1, <2>4 DEF Kept, BatcherInv, Typed
<1>13. Apart'
  <2>1. Distinct(inbox') /\ Disjoint(ToSet(inbox'), Sending')
    BY <1>1, <1>4, InboxFacts DEF Disjoint
  <2>2. ASSUME NEW c \in Slots
        PROVE  /\ Distinct(batcher'[c].chan) /\ Distinct(batcher'[c].pending)
               /\ Disjoint(ToSet(batcher'[c].chan), ToSet(batcher'[c].pending))
               /\ Disjoint(Line(c)', Early')
               /\ \A d \in Slots : c # d => Disjoint(Line(c)', Line(d)')
    <3>1. /\ Distinct(batcher'[c].chan) /\ Distinct(batcher'[c].pending)
          /\ Disjoint(ToSet(batcher'[c].chan), ToSet(batcher'[c].pending))
      <4>1. CASE c = b
        BY <1>5, <1>6, <1>7, <1>8, <1>10, <4>1, TaskFacts DEF Disjoint, Line
      <4>2. CASE c # b
        BY <1>10, <4>2 DEF Kept, BatcherInv, Apart
      <4> QED BY <4>1, <4>2
    <3>2. Disjoint(Line(c)', Early')
      BY <1>4, <1>11 DEF Kept, BatcherInv, Apart, Disjoint
    <3>3. \A d \in Slots : c # d => Disjoint(Line(c)', Line(d)')
      BY <1>4, <1>11 DEF Kept, BatcherInv, Apart, Disjoint
    <3> QED BY <3>1, <3>2, <3>3
  <2>3. ASSUME NEW t \in batches'
        PROVE  /\ Disjoint(ToSet(t.jobs), Early')
               /\ \A c \in Slots : Disjoint(ToSet(t.jobs), Line(c)')
               /\ \A u \in batches' : t # u => Disjoint(ToSet(t.jobs), ToSet(u.jobs))
    <3>1. Disjoint(ToSet(t.jobs), Early) /\ \A c \in Slots : Disjoint(ToSet(t.jobs), Line(c))
      BY <1>1 DEF Kept, BatcherInv, Apart
    <3>2. Disjoint(ToSet(t.jobs), Early') /\ \A c \in Slots : Disjoint(ToSet(t.jobs), Line(c)')
      BY <1>4, <1>11, <3>1 DEF Disjoint
    <3>3. \A u \in batches' : t # u => Disjoint(ToSet(t.jobs), ToSet(u.jobs))
      BY <1>1 DEF Kept, BatcherInv, Apart
    <3> QED BY <3>2, <3>3
  <2> QED BY <2>1, <2>2, <2>3 DEF Apart
<1>14. Waiting' = Waiting \cup {j}
  BY <1>6, <1>11, Places, PlacesPrimed
<1>15. Routed'
  <2>1. ASSUME NEW k \in Keys, current'[k] # 0, batcher'[current'[k]].open
        PROVE  batcher'[current'[k]].key = k
    <3>1. current'[k] = current[k] /\ current[k] \in Slots
      BY <1>1, <2>1 DEF Kept, BatcherInv, Typed, TypeOK
    <3> QED BY <1>8, <1>10, <2>1, <3>1 DEF Kept, BatcherInv, Routed
  <2>2. \A c \in Slots :
          /\ \A i \in Line(c)' : KeyOf[i] = batcher'[c].key
          /\ batcher'[c].pc = "done" => ~batcher'[c].open /\ Line(c)' = {}
    <3>1. KeyOf[j] = batcher[b].key /\ batcher[b].pc # "done"
      BY <1>2
    <3> QED BY <1>6, <1>8, <1>10, <1>11, <3>1 DEF Kept, BatcherInv, Routed
  <2>3. \A i \in (Early \cup Waiting)' : outcome'[i] = "claimed" /\ i \notin refused'
    BY <1>1, <1>4, <1>14 DEF Kept, BatcherInv, Routed
  <2>4. coord'.pc # "send" /\ Disjoint(loaded', ToSet(inbox'))
    BY <1>1, InboxFacts
  <2> QED BY <2>1, <2>2, <2>3, <2>4 DEF Routed
<1>16. BatchesOK'
  BY <1>1 DEF Kept, BatcherInv, BatchesOK
<1>17. Held' = Held
  <2>1. InBatch' = InBatch
    BY <1>1 DEF InBatch
  <2> QED BY <1>4, <1>14, <2>1, Places, PlacesPrimed
<1> QED
  BY <1>1, <1>12, <1>13, <1>15, <1>16, <1>17, CalmKeeps DEF BatcherInv

(* A closed channel gives the job back: it stays with the coordinator.     *)
LEMMA SendFailsKeeps == ASSUME Kept, SendFails PROVE Kept'
<1> DEFINE k == KeyOf[coord.job]
<1>1. /\ current' = [current EXCEPT ![k] = 0]
      /\ UNCHANGED <<inbox, coord, batcher, batches, permits, outcome, results, loaded, refused,
                     cancelled, failed, errors>>
  BY DEF SendFails
<1>2. /\ current' \in [Keys -> Slots \cup {0}]
      /\ \A i \in Keys : current'[i] = current[i] \/ current'[i] = 0
  BY <1>1 DEF Kept, BatcherInv, Typed, TypeOK
<1>3. /\ Early' = Early /\ Sending' = Sending /\ Waiting' = Waiting /\ Held' = Held
      /\ \A b \in Slots : Line(b)' = Line(b)
  BY <1>1 DEF Early, Sending, Waiting, Line, Held, InBatch
<1>4. Typed'
  BY <1>1, <1>2 DEF Kept, BatcherInv, Typed, TypeOK
<1>5. Apart'
  BY <1>1, <1>3 DEF Kept, BatcherInv, Apart
<1>6. Routed'
  BY <1>1, <1>2, <1>3 DEF Kept, BatcherInv, Routed
<1>7. BatchesOK'
  BY <1>1 DEF Kept, BatcherInv, BatchesOK
<1> QED BY <1>1, <1>3, <1>4, <1>5, <1>6, <1>7, CalmKeeps DEF BatcherInv

(* A new batcher takes a slot whose line is empty, so that it inherits no  *)
(* job.                                                                    *)
LEMMA SpawnKeeps == ASSUME Kept, Spawn PROVE Kept'
<1> DEFINE key == KeyOf[coord.job]
<1>1. PICK b \in Slots :
         /\ batcher[b].pc = "done" /\ batcher' = [batcher EXCEPT ![b] = Fresh(key)]
         /\ current' = [k \in Keys |-> IF k = key THEN b
                                       ELSE IF current[k] = b THEN 0 ELSE current[k]]
  BY DEF Spawn
<1>2. /\ key \in Keys
      /\ UNCHANGED <<inbox, coord, batches, permits, outcome, results, loaded, refused, cancelled,
                     failed, errors>>
  BY DEF Spawn, Kept, BatcherInv, Routed
<1> HIDE DEF key
<1>3. /\ Fresh(key) \in BatcherTask /\ Fresh(key).chan = <<>> /\ Fresh(key).pending = <<>>
      /\ Fresh(key).key = key /\ Fresh(key).pc = "idle"
  BY <1>2 DEF Fresh, BatcherTask
<1>4. batcher'[b] = Fresh(key) /\ \A c \in Slots : c # b => batcher'[c] = batcher[c]
  BY <1>1, TaskFacts
<1>5. Line(b) = {} /\ \A c \in Slots : Line(c)' = Line(c)
  BY <1>1, <1>3, <1>4, TaskFacts DEF Line, Kept, BatcherInv, Routed
<1>6. Early' = Early /\ Sending' = Sending /\ InBatch' = InBatch
  BY <1>2 DEF Early, Sending, InBatch
<1>7. Waiting' = Waiting /\ Held' = Held
  BY <1>5, <1>6, Places, PlacesPrimed
<1>8. Typed'
  <2>1. batcher' \in [Slots -> BatcherTask]
    BY <1>1, <1>3, TaskFacts
  <2>2. \A c \in Slots : /\ batcher'[c].pc \in {"idle", "filling", "flush", "done"}
                         /\ Len(batcher'[c].chan) <= Capacity
                         /\ Len(batcher'[c].pending) < BatchSize
    BY <1>3, <1>4, TaskFacts DEF Kept, BatcherInv, Typed, TypeOK
  <2>3. current' \in [Keys -> Slots \cup {0}]
    BY <1>1 DEF Kept, BatcherInv, Typed, TypeOK
  <2>4. TypeOK'
    BY <1>2, <2>2, <2>3 DEF Kept, BatcherInv, Typed, TypeOK
  <2> QED BY <1>2, <2>1, <2>4 DEF Kept, BatcherInv, Typed
<1>9. Apart'
  <2>1. ASSUME NEW c \in Slots
        PROVE  /\ Distinct(batcher'[c].chan) /\ Distinct(batcher'[c].pending)
               /\ Disjoint(ToSet(batcher'[c].chan), ToSet(batcher'[c].pending))
    <3>1. CASE c = b
      BY <1>3, <1>4, <3>1, TaskFacts DEF Disjoint
    <3>2. CASE c # b
      BY <1>4, <3>2 DEF Kept, BatcherInv, Apart
    <3> QED BY <3>1, <3>2
  <2>2. \A c \in Slots : /\ Disjoint(Line(c)', Early')
                         /\ \A d \in Slots : c # d => Disjoint(Line(c)', Line(d)')
    BY <1>5, <1>6 DEF Kept, BatcherInv, Apart
  <2>3. \A t \in batches' :
          /\ Disjoint(ToSet(t.jobs), Early')
          /\ \A c \in Slots : Disjoint(ToSet(t.jobs), Line(c)')
          /\ \A u \in batches' : t # u => Disjoint(ToSet(t.jobs), ToSet(u.jobs))
    BY <1>2, <1>5, <1>6 DEF Kept, BatcherInv, Apart
  <2>4. Distinct(inbox') /\ Disjoint(ToSet(inbox'), Sending')
    BY <1>2, <1>6 DEF Kept, BatcherInv, Apart
  <2> QED BY <2>1, <2>2, <2>3, <2>4 DEF Apart
<1>10. Routed'
  <2>1. ASSUME NEW k \in Keys, current'[k] # 0, batcher'[current'[k]].open
        PROVE  batcher'[current'[k]].key = k
    <3>1. CASE k = key
      BY <1>1, <1>3, <1>4, <3>1
    <3>2. CASE k # key
      <4>1. current'[k] = current[k] /\ current[k] # b /\ current[k] \in Slots
        BY <1>1, <2>1, <3>2 DEF Kept, BatcherInv, Typed, TypeOK
      <4> QED BY <1>4, <2>1, <4>1 DEF Kept, BatcherInv, Routed
    <3> QED BY <3>1, <3>2
  <2>2. \A c \in Slots :
          /\ \A i \in Line(c)' : KeyOf[i] = batcher'[c].key
          /\ batcher'[c].pc = "done" => ~batcher'[c].open /\ Line(c)' = {}
    BY <1>3, <1>4, <1>5 DEF Kept, BatcherInv, Routed
  <2>3. \A i \in (Early \cup Waiting)' : outcome'[i] = "claimed" /\ i \notin refused'
    BY <1>2, <1>6, <1>7 DEF Kept, BatcherInv, Routed
  <2> QED BY <1>2, <2>1, <2>2, <2>3 DEF Kept, BatcherInv, Routed
<1>11. BatchesOK'
  BY <1>2 DEF Kept, BatcherInv, BatchesOK
<1> QED BY <1>2, <1>7, <1>8, <1>9, <1>10, <1>11, CalmKeeps DEF BatcherInv

-----------------------------------------------------------------------------
(* The theorems.                                                           *)

(* At the start every job is in the inbox.                                 *)
LEMMA KeptInit == Init => Kept
<1> SUFFICES ASSUME Init PROVE Kept
  OBVIOUS
<1> DEFINE N == Cardinality(Jobs)
<1>1. N \in Nat /\ Jobs = 1 .. N
  BY BatcherAssumption, FS_CardinalityType DEF BatcherAssumption
<1> HIDE DEF N
<1>2. inbox = [j \in 1 .. N |-> j]
  BY <1>1 DEF Init
<1>3. /\ inbox \in Seq(Jobs) /\ Len(inbox) = N /\ DOMAIN inbox = Jobs
      /\ \A j \in Jobs : inbox[j] = j
  BY <1>1, <1>2
<1>4. ToSet(inbox) = Jobs
  BY <1>3 DEF ToSet
<1>5. Distinct(inbox)
  BY <1>1, <1>3 DEF Distinct
<1>6. /\ coord = [pc |-> "select", job |-> 0] /\ current = [k \in Keys |-> 0]
      /\ batcher = [b \in Slots |-> Vacant] /\ batches = {} /\ permits = Jobs
      /\ outcome = [j \in Jobs |-> "claimed"] /\ results = [k \in {"success", "failed"} |-> 0]
      /\ loaded = {} /\ refused = {} /\ cancelled = FALSE /\ failed = FALSE /\ errors = 0
  BY DEF Init
<1>7. /\ Vacant \in BatcherTask /\ Vacant.chan = <<>> /\ Vacant.pending = <<>>
      /\ Vacant.open = FALSE /\ Vacant.pc = "done"
  BY DEF Vacant, BatcherTask
<1>8. /\ Len(<<>>) = 0 /\ ToSet(<<>>) = {} /\ Distinct(<<>>)
      /\ BatchSize \in Nat /\ BatchSize > 0 /\ Capacity \in Nat /\ MaxErrors \in Nat
  BY <1>3, Elements, EmptySeq, BatcherAssumption DEF BatcherAssumption, Capacity
<1>9. \A b \in Slots : Line(b) = {}
  BY <1>6, <1>7, <1>8 DEF Line
<1>10. Sending = {} /\ Early = Jobs /\ Waiting = {} /\ InBatch = {} /\ Held = Jobs
  <2>1. Sending = {} /\ Early = Jobs
    BY <1>4, <1>6 DEF Sending, Early
  <2>2. Waiting = {} /\ InBatch = {}
    BY <1>6, <1>9, Places
  <2> QED BY <2>1, <2>2, Places
<1>11. Typed
  <2>1. \A b \in Slots : /\ batcher[b].pc \in {"idle", "filling", "flush", "done"}
                         /\ Len(batcher[b].chan) <= Capacity
                         /\ Len(batcher[b].pending) < BatchSize
    BY <1>6, <1>7, <1>8
  <2>2. coord \in [pc : {"select", "send", "gone"}, job : Jobs \cup {0}]
        /\ current \in [Keys -> Slots \cup {0}]
    BY <1>6
  <2>3. outcome \in [Jobs -> {"claimed", "done", "retry", "dead"}]
    BY <1>6
  <2>4. errors \in 0 .. MaxErrors
    BY <1>6, <1>8
  <2>8. cancelled \in BOOLEAN /\ failed \in BOOLEAN
    BY <1>6
  <2>5. permits \subseteq Jobs /\ loaded \subseteq Jobs /\ refused \subseteq Jobs
    BY <1>6
  <2>6. TypeOK
    BY <2>1, <2>2, <2>3, <2>4, <2>5, <2>8 DEF TypeOK
  <2>7. batcher \in [Slots -> BatcherTask]
    BY <1>6, <1>7
  <2> QED BY <1>3, <1>6, <2>6, <2>7 DEF Typed
<1>12. Apart
  BY <1>5, <1>6, <1>7, <1>8, <1>9, <1>10 DEF Apart, Disjoint
<1>13. Routed
  <2>1. coord.pc = "select" /\ \A k \in Keys : current[k] = 0
    BY <1>6
  <2> QED BY <1>6, <1>7, <1>9, <1>10, <2>1 DEF Routed, Disjoint
<1>14. BatchesOK /\ PermitsFollowJobs /\ LoadedAreSettled /\ DeadDeserved
  BY <1>6, <1>10 DEF BatchesOK, PermitsFollowJobs, LoadedAreSettled, DeadDeserved
<1>15. ResultsMatchStore
  <2>1. Ran = {} /\ results["success"] + results["failed"] = 0
    BY <1>6 DEF Ran, HasRun
  <2>2. Cardinality({}) = 0
    BY FS_EmptySet
  <2> QED BY <2>1, <2>2, ResultsByRan
<1> QED BY <1>11, <1>12, <1>13, <1>14, <1>15 DEF Kept, BatcherInv, StoreAgrees

(* Every step keeps the invariants.                                        *)
LEMMA KeptNext == Kept /\ [Next]_vars => Kept'
<1> SUFFICES ASSUME Kept, [Next]_vars PROVE Kept'
  OBVIOUS
<1>1. ASSUME UNCHANGED vars PROVE Kept'
  <2>1. Early' = Early /\ Sending' = Sending /\ Waiting' = Waiting /\ Held' = Held
        /\ \A b \in Slots : Line(b)' = Line(b)
    BY <1>1 DEF vars, Early, Sending, Waiting, Line, Held, InBatch
  <2>2. Typed' /\ BatchesOK'
    BY <1>1 DEF vars, Kept, BatcherInv, Typed, TypeOK, BatchesOK
  <2>3. Apart'
    BY <1>1, <2>1 DEF vars, Kept, BatcherInv, Apart
  <2>4. Routed'
    BY <1>1, <2>1 DEF vars, Kept, BatcherInv, Routed
  <2> QED BY <1>1, <2>1, <2>2, <2>3, <2>4, CalmKeeps DEF vars, BatcherInv
<1>2. ASSUME NEW b \in Slots, BatcherStep(b) \/ TimeoutElapses(b) \/ Close(b) PROVE Kept'
  BY <1>2, RecvKeeps, HangupKeeps, DrainKeeps, TimeoutKeeps, CloseKeeps DEF BatcherStep
<1>3. ASSUME NEW t \in batches,
             BatchStep(t) \/ BuildRefused(t) \/ TaskFails(t) \/ FinishFails(t)
      PROVE  Kept'
  BY <1>3, KillKeeps, EndKeeps, WorkKeeps, FinishKeeps, ReportKeeps, BuildRefusedKeeps
  DEF BatchStep
<1> QED
  BY <1>1, <1>2, <1>3, CancelKeeps, RouteKeeps, LeaveKeeps, SpawnKeeps, SendKeeps, SendFailsKeeps
  DEF Next

(* The invariants hold in every behaviour.                                 *)
LEMMA KeptAlways == Spec => []Kept
  BY KeptInit, KeptNext, PTL DEF Spec

(* Between the coordinator and a batch no job is lost, split or mixed: a   *)
(* batch holds at most the configured number of jobs, all of one worker    *)
(* and queue, no job is in two batches, and only a failed runtime lets go  *)
(* of a loaded job that is not settled (send_to_batcher, run_batcher,      *)
(* flush_batcher, process_pending_batch).                                  *)
THEOREM NoJobLostInBatches == Spec => []BatchesSound
<1>1. Kept => BatchesSound
  <2> SUFFICES ASSUME Kept PROVE BatchesSound
    OBVIOUS
  <2>1. TypeOK /\ LoadedAreSettled
    BY DEF Kept, BatcherInv, Typed
  <2>2. \A t \in batches : /\ Len(t.jobs) <= BatchSize
                           /\ \A i, j \in ToSet(t.jobs) : KeyOf[i] = KeyOf[j]
    BY DEF Kept, BatcherInv, BatchesOK, BatchOK
  <2>3. \A t, u \in batches : t # u => ToSet(t.jobs) \cap ToSet(u.jobs) = {}
    BY DEF Kept, BatcherInv, Apart, Disjoint
  <2> QED BY <2>1, <2>2, <2>3 DEF BatchesSound, BatchesWellFormed
<1> QED BY <1>1, KeptAlways, PTL

(* A queue permit is held exactly as long as its job is in memory, through *)
(* channels, closed batchers, refused batches, errors and cancellation.    *)
THEOREM PermitsAreNotLeaked == Spec => []PermitsFollowJobs
<1>1. Kept => PermitsFollowJobs
  BY DEF Kept
<1> QED BY <1>1, KeptAlways, PTL

(* What the store says of a job is what happened to it, and the collector  *)
(* is told of as many results as the store recorded, unless the runtime    *)
(* failed.                                                                 *)
THEOREM StoreAndResultsAgree == Spec => []StoreAgrees
<1>1. Kept => StoreAgrees
  BY DEF Kept
<1> QED BY <1>1, KeptAlways, PTL
=============================================================================
