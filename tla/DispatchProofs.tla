--------------------------- MODULE DispatchProofs ---------------------------
(***************************************************************************)
(* Proofs about what decides when a job starts, where it resumes and how   *)
(* its failure is reported: the throttler, the cron loops, the progress of *)
(* a resumable job and the failure reports, each for every value of the    *)
(* constants.  A part has an inductive invariant of its own, kept by every *)
(* step of the part; the behaviours about the other parts leave it alone.  *)
(***************************************************************************)
EXTENDS MCDispatch, SequenceTheorems, FiniteSetTheorems, TLAPS

-----------------------------------------------------------------------------
(* Sums over a finite set.  A sum is the number of elements of a set of    *)
(* units; induction on finite sets is the choice of a least counterexample.*)

(* A set with g[q] elements for every q of T: its cardinality is the sum.  *)
Units(g, T) == {p \in T \X Nat : p[2] < g[p[1]]}

(* The element that a fold over T takes first.                             *)
Pick(T) == CHOOSE x \in T : TRUE

(* The units of one summand are as many as it says.                        *)
LEMMA UnitsOfOne ==
    ASSUME NEW Q, NEW g \in [Q -> Nat], NEW x \in Q
    PROVE  IsFiniteSet(Units(g, {x})) /\ Cardinality(Units(g, {x})) = g[x]
<1>1. Units(g, {x}) = {x} \X (0 .. g[x] - 1)
  BY DEF Units
<1>2. IsFiniteSet({x}) /\ Cardinality({x}) = 1
  BY FS_Singleton
<1>3. IsFiniteSet(0 .. g[x] - 1) /\ Cardinality(0 .. g[x] - 1) = g[x]
  BY FS_Interval
<1>4. IsFiniteSet({x} \X (0 .. g[x] - 1)) /\ Cardinality({x} \X (0 .. g[x] - 1)) = 1 * g[x]
  BY <1>2, <1>3, FS_Product
<1>5. g[x] \in Nat /\ 1 * g[x] = g[x]
  OBVIOUS
<1>6. Cardinality(Units(g, {x})) = 1 * g[x]
  BY <1>1, <1>4
<1> QED
  BY <1>1, <1>4, <1>5, <1>6

(* The units of a set are those of one element and those of the others.    *)
LEMMA UnitsSplit ==
    ASSUME NEW Q, NEW g \in [Q -> Nat], NEW T \in SUBSET Q, NEW x \in T,
           IsFiniteSet(Units(g, T \ {x}))
    PROVE  /\ IsFiniteSet(Units(g, T))
           /\ Cardinality(Units(g, T)) = g[x] + Cardinality(Units(g, T \ {x}))
           /\ Cardinality(Units(g, T \ {x})) \in Nat
<1>1. IsFiniteSet(Units(g, {x})) /\ Cardinality(Units(g, {x})) = g[x]
  BY UnitsOfOne
<1>2. /\ Units(g, T) = Units(g, {x}) \cup Units(g, T \ {x})
      /\ Units(g, {x}) \cap Units(g, T \ {x}) = {}
  BY DEF Units
<1>3. Cardinality(Units(g, T \ {x})) \in Nat /\ Cardinality({}) = 0 /\ g[x] \in Nat
  BY FS_CardinalityType, FS_EmptySet
<1>4. /\ IsFiniteSet(Units(g, {x}) \cup Units(g, T \ {x}))
      /\ Cardinality(Units(g, {x}) \cup Units(g, T \ {x}))
         = Cardinality(Units(g, {x})) + Cardinality(Units(g, T \ {x}))
           - Cardinality(Units(g, {x}) \cap Units(g, T \ {x}))
  BY <1>1, FS_Union
<1>5. Cardinality(Units(g, T)) = g[x] + Cardinality(Units(g, T \ {x})) - 0
  BY <1>1, <1>2, <1>3, <1>4, Zenon
<1>6. IsFiniteSet(Units(g, T))
  BY <1>2, <1>4, Zenon
<1>7. \A m, n \in Nat : m + n - 0 = m + n
  OBVIOUS
<1>8. Cardinality(Units(g, T)) = g[x] + Cardinality(Units(g, T \ {x}))
  BY <1>3, <1>5, <1>7, Zenon
<1> QED
  BY <1>3, <1>6, <1>8, Zenon

(* Induction on finite sets, as the existence of a least counterexample.   *)
LEMMA LeastSubset ==
    ASSUME NEW Q, IsFiniteSet(Q), NEW C \in SUBSET (SUBSET Q), C # {}
    PROVE  \E T \in C : \A x \in T : T \ {x} \notin C
<1>1. IsWellFoundedOn(StrictSubsetOrdering(Q), SUBSET Q)
  BY FS_StrictSubsetOrderingWellFounded, FS_FiniteSubsetsOfFinite
<1>2. PICK T \in C : \A U \in C : ~(<<U, T>> \in StrictSubsetOrdering(Q))
  BY <1>1, WFMin
<1>3. \A x \in T : <<T \ {x}, T>> \in StrictSubsetOrdering(Q)
  BY DEF StrictSubsetOrdering
<1> QED
  BY <1>2, <1>3

(* Finitely many summands have finitely many units.                        *)
LEMMA UnitsFinite ==
    ASSUME NEW Q, IsFiniteSet(Q), NEW g \in [Q -> Nat], NEW T \in SUBSET Q
    PROVE  IsFiniteSet(Units(g, T)) /\ Cardinality(Units(g, T)) \in Nat
<1> DEFINE C == {U \in SUBSET Q : ~IsFiniteSet(Units(g, U))}
<1>1. ASSUME C # {} PROVE FALSE
  <2>1. PICK U \in C : \A x \in U : U \ {x} \notin C
    BY <1>1, LeastSubset
  <2>2. CASE U = {}
    <3>1. Units(g, {}) = {}
      BY DEF Units
    <3> QED
      BY <2>1, <2>2, <3>1, FS_EmptySet
  <2>3. CASE U # {}
    <3>1. PICK x \in U : TRUE
      BY <2>3
    <3>2. IsFiniteSet(Units(g, U \ {x}))
      BY <2>1
    <3> QED
      BY <2>1, <3>2, UnitsSplit
  <2> QED
    BY <2>2, <2>3
<1> QED
  BY <1>1, FS_CardinalityType

(* A function that adds up g over the subsets of Q, in the order in which  *)
(* their elements are picked.                                              *)
SumsUp(f, g, Q) ==
    \A T \in SUBSET Q : f[T] = IF T = {} THEN 0 ELSE g[Pick(T)] + f[T \ {Pick(T)}]

(* A function that adds up the summands finds the number of units ...      *)
LEMMA SumUnique ==
    ASSUME NEW Q, IsFiniteSet(Q), NEW g \in [Q -> Nat], NEW f, SumsUp(f, g, Q)
    PROVE  f[Q] = Cardinality(Units(g, Q))
<1> DEFINE C == {U \in SUBSET Q : f[U] # Cardinality(Units(g, U))}
<1>1. ASSUME C # {} PROVE FALSE
  <2>1. PICK U \in C : \A x \in U : U \ {x} \notin C
    BY <1>1, LeastSubset
  <2>2. CASE U = {}
    <3>1. Units(g, {}) = {} /\ f[{}] = 0
      BY DEF Units, SumsUp
    <3> QED
      BY <2>1, <2>2, <3>1, FS_EmptySet
  <2>3. CASE U # {}
    <3>1. Pick(U) \in U
      BY <2>3 DEF Pick
    <3>2. f[U \ {Pick(U)}] = Cardinality(Units(g, U \ {Pick(U)}))
      BY <2>1, <3>1
    <3>3. f[U] = g[Pick(U)] + f[U \ {Pick(U)}]
      BY <2>3 DEF SumsUp
    <3>4. Cardinality(Units(g, U)) = g[Pick(U)] + Cardinality(Units(g, U \ {Pick(U)}))
      BY <3>1, UnitsFinite, UnitsSplit
    <3> QED
      BY <2>1, <3>2, <3>3, <3>4
  <2> QED
    BY <2>2, <2>3
<1> QED
  BY <1>1

(* ... and there is one: the function of these numbers.                    *)
LEMMA SumExists ==
    ASSUME NEW Q, IsFiniteSet(Q), NEW g \in [Q -> Nat]
    PROVE  LET u == [T \in SUBSET Q |-> Cardinality(Units(g, T))]
           IN  \A T \in SUBSET Q : u[T] = IF T = {} THEN 0 ELSE g[Pick(T)] + u[T \ {Pick(T)}]
<1> SUFFICES ASSUME NEW T \in SUBSET Q
             PROVE  Cardinality(Units(g, T)) =
                       IF T = {} THEN 0 ELSE g[Pick(T)] + Cardinality(Units(g, T \ {Pick(T)}))
  OBVIOUS
<1>1. CASE T = {}
  <2>1. Units(g, {}) = {}
    BY DEF Units
  <2> QED
    BY <1>1, <2>1, FS_EmptySet
<1>2. CASE T # {}
  <2>1. Pick(T) \in T
    BY <1>2 DEF Pick
  <2> QED
    BY <1>2, <2>1, UnitsFinite, UnitsSplit
<1> QED
  BY <1>1, <1>2

(* Adding n to one summand adds n to the sum.                              *)
LEMMA SumGrows ==
    ASSUME NEW Q, IsFiniteSet(Q), NEW g \in [Q -> Nat], NEW h \in [Q -> Nat], NEW x \in Q,
           NEW n \in Nat, h[x] = g[x] + n, \A y \in Q \ {x} : h[y] = g[y]
    PROVE  Cardinality(Units(h, Q)) = Cardinality(Units(g, Q)) + n
<1>1. Units(h, Q \ {x}) = Units(g, Q \ {x})
  BY DEF Units
<1>2. IsFiniteSet(Units(g, Q \ {x})) /\ Cardinality(Units(g, Q \ {x})) \in Nat
  BY UnitsFinite
<1>3. Cardinality(Units(g, Q)) = g[x] + Cardinality(Units(g, Q \ {x}))
  BY <1>2, UnitsSplit
<1>4. Cardinality(Units(h, Q)) = h[x] + Cardinality(Units(h, Q \ {x}))
  BY <1>1, <1>2, UnitsSplit
<1>5. \A a, b \in Nat : (a + n) + b = (a + b) + n
  OBVIOUS
<1>6. g[x] \in Nat
  OBVIOUS
<1>7. Cardinality(Units(h, Q)) = (g[x] + n) + Cardinality(Units(g, Q \ {x}))
  BY <1>1, <1>4, Zenon
<1> QED
  BY <1>2, <1>3, <1>5, <1>6, <1>7, Zenon

(* The sum of nothing but zeros is zero.                                   *)
LEMMA SumOfZeros ==
    ASSUME NEW Q, NEW g \in [Q -> Nat], \A y \in Q : g[y] = 0
    PROVE  Cardinality(Units(g, Q)) = 0
<1>1. Units(g, Q) = {}
  BY DEF Units
<1> QED
  BY <1>1, FS_EmptySet

-----------------------------------------------------------------------------
(* What FailureAssumption says, in the names of this module.               *)
Events == Failures!Events
FNames ==
    /\ Jobs \subseteq Nat /\ MaxRetries \in Nat
    /\ None \notin Events /\ None \notin [Jobs -> BOOLEAN]

(* The assumption gives these names.                                       *)
LEMMA FailureConstants == FNames
  BY DispatchAssumption DEF Failures!FailureAssumption, FNames, Events

FailureTypes ==
    /\ build \in {"none", "sentry", "sentry-panic"} /\ custom \in BOOLEAN /\ hook \in BOOLEAN
    /\ pc \in {"running", "unwinding", "caught", "returned", "handled"}
    /\ crumbs \in Nat
    /\ retained \in Events \cup {None} /\ sent \in Seq(Events)

(* Before the report nothing has the metadata of the execution, and the    *)
(* panic event that is kept is the first one of the hook.                  *)
NotYetReported ==
    /\ pc \in {"running", "unwinding", "caught", "handled"} =>
          calls = 0 /\ \A i \in DOMAIN sent : ~sent[i].metadata
    /\ pc = "running" => retained = None
    /\ pc \in {"unwinding", "caught"} /\ retained # None =>
          retained.origin = "hook" /\ retained.crumbs = crumbs
    /\ pc \in {"unwinding", "caught"} /\ failure # "error" /\ hook /\ build = "sentry-panic" => retained # None
    /\ pc = "unwinding" => failure = "panic"
    /\ pc \in {"caught", "returned"} => failure \in {"error", "panic"}

OnlyClean ==
    build # "none" =>
       \A i \in DOMAIN sent :
          /\ sent[i].origin \notin {"destructor", "nested"}
          /\ sent[i].origin = "hook" => sent[i].metadata /\ sent[i].handled

ToldOnce ==
    pc = "returned" =>
      /\ calls = IF custom THEN 1 ELSE 0
      /\ IF ~custom /\ (build = "sentry-panic" \/ (build = "sentry" /\ failure = "error"))
         THEN \E i \in DOMAIN sent : \A j \in DOMAIN sent : sent[j].metadata <=> j = i
         ELSE \A i \in DOMAIN sent : ~sent[i].metadata

FateKept ==
    /\ fate \in [Jobs -> {"claimed", "retry", "dead"}]
    /\ pc # "returned" => \A j \in Jobs : fate[j] = "claimed"
    /\ pc = "returned" => report = [j \in Jobs |-> Failures!WillRetry(policy[j])]
    /\ \A j \in Jobs : /\ fate[j] = "retry" => policy[j].retries < policy[j].max
                       /\ fate[j] = "dead" => ~(policy[j].retries < policy[j].max)

FailureInv == FailureTypes /\ NotYetReported /\ OnlyClean /\ ToldOnce /\ Failures!CrumbsOnce /\ FateKept

(* The cardinality of the instance is the one of this module.              *)
LEMMA FailuresCard == \A S : Failures!Cardinality(S) = Cardinality(S)
  BY DEF Failures!Cardinality, Cardinality

(* The invariant implies the property ...                                  *)
LEMMA FailureImplied == ASSUME FNames, FailureInv PROVE Failures!ReportsSound
<1>1. ASSUME pc = "returned"
      PROVE  Cardinality(Failures!Failures) =
                IF ~custom /\ (build = "sentry-panic" \/ (build = "sentry" /\ failure = "error"))
                THEN 1 ELSE 0
  <2>1. CASE ~custom /\ (build = "sentry-panic" \/ (build = "sentry" /\ failure = "error"))
    <3>1. PICK i \in DOMAIN sent : \A j \in DOMAIN sent : sent[j].metadata <=> j = i
      BY <1>1, <2>1 DEF FailureInv, ToldOnce
    <3>2. Failures!Failures = {i}
      BY <3>1 DEF Failures!Failures
    <3> QED
      BY <2>1, <3>2, FS_Singleton
  <2>2. CASE ~(~custom /\ (build = "sentry-panic" \/ (build = "sentry" /\ failure = "error")))
    <3>1. Failures!Failures = {}
      BY <1>1, <2>2 DEF Failures!Failures, FailureInv, ToldOnce
    <3> QED
      BY <2>2, <3>1, FS_EmptySet
  <2> QED
    BY <2>1, <2>2
<1>2. Failures!ReportedOnce
  BY <1>1, FailuresCard DEF FailureInv, OnlyClean, ToldOnce, Failures!ReportedOnce
<1>3. Failures!ReportTrue
  <2>0. \A j \in Jobs : Failures!WillRetry(policy[j]) \in BOOLEAN
    BY DEF Failures!WillRetry
  <2>1. pc = "returned" => report \in [Jobs -> BOOLEAN]
    BY <2>0, Zenon DEF FailureInv, FateKept
  <2> QED
    BY <2>1 DEF FailureInv, FateKept, FNames, Failures!ReportTrue, Failures!WillRetry
<1> QED
  BY <1>2, <1>3 DEF FailureInv, Failures!ReportsSound

(* ... and holds before the execution begins.                              *)
LEMMA FailureInit == ASSUME FNames, Failures!Init PROVE FailureInv
  BY DEF Failures!Init, FailureInv, FailureTypes, NotYetReported, OnlyClean, ToldOnce,
     Failures!CrumbsOnce, FateKept

(* What is sent when one event more is.                                    *)
LEMMA OneSent ==
    ASSUME NEW t \in Seq(Events), NEW e \in Events
    PROVE  /\ Append(t, e) \in Seq(Events)
           /\ \A i \in DOMAIN Append(t, e) :
                 \/ i \in DOMAIN t /\ Append(t, e)[i] = t[i]
                 \/ i = Len(t) + 1 /\ i \notin DOMAIN t /\ Append(t, e)[i] = e
           /\ DOMAIN t \subseteq DOMAIN Append(t, e) /\ Len(t) + 1 \in DOMAIN Append(t, e)
  OBVIOUS

(* Events of the worker, of its destructors and of the hook.               *)
LEMMA AppliedEvent ==
    ASSUME NEW origin \in Failures!Origins, crumbs \in Nat
    PROVE  LET e == Failures!Applied(Failures!Event(origin), crumbs)
           IN  /\ e \in Events /\ e.origin = origin /\ e.crumbs = crumbs
               /\ e.metadata = FALSE /\ e.handled = FALSE
<1> DEFINE e == [origin |-> origin, crumbs |-> 0, metadata |-> FALSE, handled |-> FALSE]
<1>1. e.crumbs + crumbs = crumbs
  OBVIOUS
<1>2. Failures!Applied(Failures!Event(origin), crumbs) = [e EXCEPT !.crumbs = e.crumbs + crumbs]
  BY DEF Failures!Applied, Failures!Event
<1>3. Failures!Applied(Failures!Event(origin), crumbs) = [e EXCEPT !.crumbs = crumbs]
  BY <1>1, <1>2, Zenon
<1>4. e \in Events /\ e.origin = origin /\ e.metadata = FALSE /\ e.handled = FALSE
  BY DEF Events, Failures!Events
<1> HIDE DEF e
<1>5. [e EXCEPT !.crumbs = crumbs] \in Events
  BY <1>4 DEF Events, Failures!Events
<1>6. /\ [e EXCEPT !.crumbs = crumbs].origin = origin /\ [e EXCEPT !.crumbs = crumbs].crumbs = crumbs
      /\ [e EXCEPT !.crumbs = crumbs].metadata = FALSE /\ [e EXCEPT !.crumbs = crumbs].handled = FALSE
  BY <1>4 DEF Events, Failures!Events
<1> QED
  BY <1>3, <1>5, <1>6, Zenon

(* The execution before it is reported.                                    *)
LEMMA BeforeReport ==
    ASSUME FNames, FailureInv,
           Failures!LeaveCrumb \/ Failures!Capture \/ Failures!Panic \/ Failures!PanicAgain
             \/ Failures!Catch \/ Failures!Fails \/ Failures!Succeeds
    PROVE  FailureInv'
<1> USE DEF FailureInv
<1>1. /\ UNCHANGED <<build, custom, hook, policy, calls, report, fate, broke>>
      /\ pc \in {"running", "unwinding"} /\ pc' \in {"running", "unwinding", "caught", "handled"}
  BY DEF FailureTypes, Failures!LeaveCrumb, Failures!Capture, Failures!Panic, Failures!PanicAgain,
     Failures!Catch, Failures!Fails, Failures!Succeeds, Failures!settings, Failures!outcome
<1>2. FateKept'
  BY <1>1 DEF FateKept, Failures!WillRetry
<1>3. ToldOnce'
  BY <1>1 DEF ToldOnce
<1>4. CASE UNCHANGED <<retained, sent>>
  <2>1. crumbs' \in Nat /\ crumbs' >= crumbs /\ (pc # "running" => crumbs' = crumbs)
    BY DEF FailureTypes, Failures!LeaveCrumb, Failures!Capture, Failures!Panic, Failures!PanicAgain,
     Failures!Catch, Failures!Fails, Failures!Succeeds
  <2>2. FailureTypes'
    BY <1>1, <1>4, <2>1 DEF FailureTypes, Events, Failures!Events, Failures!Origins
  <2>3. NotYetReported'
    <3>1. NotYetReported /\ FailureTypes
      OBVIOUS
    <3>2. calls' = 0 /\ \A i \in DOMAIN sent' : ~sent'[i].metadata
      BY <1>1, <1>4, <3>1 DEF NotYetReported
    <3>3. CASE Failures!LeaveCrumb
      BY <1>1, <1>4, <3>1, <3>2, <3>3 DEF NotYetReported, Failures!LeaveCrumb
    <3>4. CASE Failures!Capture
      <4>1. pc' = pc /\ failure' = failure /\ crumbs' = crumbs
        BY <3>4 DEF Failures!Capture
      <4> QED
        BY <1>1, <1>4, <3>1, <4>1 DEF NotYetReported
    <3>5. CASE Failures!Panic
      <4>1. pc' = "unwinding" /\ failure' = "panic" /\ retained = None /\ crumbs' = crumbs
        BY <3>1, <3>5 DEF Failures!Panic, NotYetReported
      <4>2. ~(hook /\ build = "sentry-panic")
        <5>1. SUFFICES ASSUME hook, build = "sentry-panic" PROVE FALSE
          OBVIOUS
        <5>2. retained' = Failures!Applied(Failures!Event("hook"), crumbs)
          <6>1. Failures!Applied(Failures!Event("hook"), crumbs).origin = "hook"
            BY <3>1, AppliedEvent DEF FailureTypes, Failures!Origins
          <6> QED
            BY <3>5, <4>1, <5>1, <6>1 DEF Failures!Panic, Failures!Processed, Failures!FromHook
        <5>4. crumbs \in Nat /\ "hook" \in Failures!Origins
          BY <3>1 DEF FailureTypes, Failures!Origins
        <5>5. retained' \in Events
          BY <5>2, <5>4, AppliedEvent
        <5> QED
          BY <1>4, <4>1, <5>5 DEF FNames
      <4> QED
        BY <1>1, <1>4, <3>2, <4>1, <4>2 DEF NotYetReported
    <3>6. CASE Failures!PanicAgain
      <4>1. pc' = pc /\ failure' = failure /\ crumbs' = crumbs
        BY <3>6 DEF Failures!PanicAgain
      <4> QED
        BY <1>1, <1>4, <3>1, <4>1 DEF NotYetReported
    <3>7. CASE Failures!Catch
      BY <1>1, <1>4, <3>1, <3>2, <3>7 DEF NotYetReported, Failures!Catch
    <3>8. CASE Failures!Fails
      BY <1>1, <1>4, <3>1, <3>2, <3>8 DEF NotYetReported, Failures!Fails
    <3>9. CASE Failures!Succeeds
      BY <1>1, <1>4, <3>1, <3>2, <3>9 DEF NotYetReported, Failures!Succeeds
    <3> QED
      BY <3>3, <3>4, <3>5, <3>6, <3>7, <3>8, <3>9
  <2>4. OnlyClean'
    BY <1>1, <1>4 DEF OnlyClean
  <2>5. Failures!CrumbsOnce'
    <3> SUFFICES ASSUME NEW i \in DOMAIN sent
                 PROVE  sent[i].crumbs <= crumbs' /\ ~sent[i].metadata
      BY <1>4 DEF Failures!CrumbsOnce
    <3>1. sent[i].crumbs <= crumbs /\ sent[i].crumbs \in Nat /\ ~sent[i].metadata
      <4>1. sent[i] \in Events
        BY DEF FailureTypes
      <4>2. sent[i].crumbs \in Nat
        BY <4>1 DEF Events, Failures!Events
      <4> QED
        BY <1>1, <4>2 DEF Failures!CrumbsOnce, NotYetReported
    <3> QED
      BY <2>1, <3>1 DEF FailureTypes
  <2> QED
    BY <1>2, <1>3, <2>2, <2>3, <2>4, <2>5
<1>5. CASE ~UNCHANGED <<retained, sent>>
  <2>1. crumbs' = crumbs /\ pc' \in {"running", "unwinding"}
    BY <1>5 DEF FailureTypes, Failures!LeaveCrumb, Failures!Capture, Failures!Panic,
       Failures!PanicAgain,
     Failures!Catch, Failures!Fails, Failures!Succeeds
  <2>2. PICK origin \in {"worker", "destructor", "hook", "nested"} :
          LET e == Failures!Applied(Failures!Event(origin), crumbs)
          IN  \/ /\ origin = "worker" /\ pc = "running" /\ pc' = "running"
                 /\ sent' = Append(sent, e) /\ retained' = retained
              \/ /\ origin \in {"destructor", "nested"} /\ pc = "unwinding" /\ pc' = "unwinding"
                 /\ origin = "nested" => hook
                 /\ Failures!Processed(e) /\ failure' = failure
              \/ /\ origin = "hook" /\ hook /\ pc = "running" /\ pc' = "unwinding"
                 /\ Failures!Processed(e) /\ failure' = "panic"
    <3>2. CASE Failures!Capture
      BY <3>2, <1>1 DEF Failures!Capture
    <3>3. CASE Failures!Panic
      BY <3>3, <1>5 DEF Failures!Panic
    <3>4. CASE Failures!PanicAgain
      BY <3>4 DEF Failures!PanicAgain
    <3> QED
      BY <1>5, <3>2, <3>3, <3>4 DEF Failures!LeaveCrumb, Failures!Catch, Failures!Fails,
         Failures!Succeeds
  <2> DEFINE e == Failures!Applied(Failures!Event(origin), crumbs)
  <2>3. /\ e \in Events /\ e # None /\ e.origin = origin /\ e.crumbs = crumbs
        /\ e.metadata = FALSE /\ e.handled = FALSE
    <3>1. crumbs \in Nat /\ origin \in Failures!Origins
      BY DEF Failures!Origins, FailureTypes
    <3> QED
      BY <3>1, AppliedEvent DEF FNames
  <2>20. \/ /\ origin = "worker" /\ pc = "running" /\ pc' = "running"
            /\ sent' = Append(sent, e) /\ retained' = retained
         \/ /\ origin \in {"destructor", "nested"} /\ pc = "unwinding" /\ pc' = "unwinding"
            /\ origin = "nested" => hook
            /\ Failures!Processed(e) /\ failure' = failure
         \/ /\ origin = "hook" /\ hook /\ pc = "running" /\ pc' = "unwinding"
            /\ Failures!Processed(e) /\ failure' = "panic"
    BY <2>2
  <2> HIDE DEF e
  <2>4. sent' = sent \/ sent' = Append(sent, e)
    BY <2>20 DEF Failures!Processed
  <2>5. retained' = retained \/ retained' = e
    BY <2>20 DEF Failures!Processed
  <2>6. build # "none" /\ sent' # sent => origin = "worker"
    BY <2>20 DEF Failures!Processed
  <2>7. retained' # retained => origin = "hook"
    <3>1. FailureTypes /\ NotYetReported
      OBVIOUS
    <3> QED
      BY <2>3, <2>20, <3>1 DEF NotYetReported, FailureTypes, Failures!Processed, Failures!FromHook
  <2>8. FailureTypes'
    <3>1. sent' \in Seq(Events) /\ retained' \in Events \cup {None}
      <4>1. sent \in Seq(Events) /\ retained \in Events \cup {None}
        BY DEF FailureTypes
      <4>2. Append(sent, e) \in Seq(Events)
        BY <2>3, <4>1, OneSent
      <4> QED
        BY <2>3, <2>4, <2>5, <4>1, <4>2
    <3> QED
      BY <1>1, <2>1, <3>1 DEF FailureTypes, Events, Failures!Events, Failures!Origins
  <2>9. \A i \in DOMAIN sent' : (i \in DOMAIN sent /\ sent'[i] = sent[i]) \/ (sent' # sent /\ sent'[i] = e)
    BY <2>3, <2>4, OneSent DEF FailureTypes
  <2>10. NotYetReported'
    <3>1. \A i \in DOMAIN sent' : ~sent'[i].metadata
      BY <2>3, <2>9, <1>1 DEF NotYetReported
    <3>2. retained' # None => pc' = "unwinding" /\ retained'.origin = "hook" /\ retained'.crumbs = crumbs
      <4>1. NotYetReported /\ FailureTypes
        OBVIOUS
      <4>2. CASE retained' = retained
        BY <2>20, <4>1, <4>2 DEF NotYetReported, FailureTypes
      <4>3. CASE retained' # retained
        BY <2>3, <2>20, <2>5, <2>7, <4>3
      <4> QED
        BY <4>2, <4>3
    <3>3. pc' = "unwinding" /\ hook /\ build = "sentry-panic" => retained' # None
      <4>1. NotYetReported /\ FailureTypes
        OBVIOUS
      <4>2. CASE pc = "running"
        <5>1. pc' = "unwinding" => origin = "hook" /\ Failures!Processed(e)
          BY <2>20, <4>2
        <5>2. retained = None
          BY <4>1, <4>2 DEF NotYetReported
        <5> QED
          BY <2>3, <5>1, <5>2 DEF Failures!Processed, Failures!FromHook
      <4>3. CASE pc = "unwinding"
        <5>1. hook /\ build = "sentry-panic" => retained # None
          BY <4>1, <4>3 DEF NotYetReported
        <5> QED
          BY <2>3, <2>5, <5>1
      <4> QED
        BY <1>1, <4>2, <4>3
    <3>4. pc' = "unwinding" => failure' = "panic"
      BY <2>20 DEF NotYetReported
    <3>5. calls' = 0 /\ (pc' = "running" => retained' = None)
      BY <1>1, <3>2 DEF NotYetReported
    <3> QED
      BY <1>1, <2>1, <3>1, <3>2, <3>3, <3>4, <3>5 DEF NotYetReported
  <2>11. OnlyClean'
    BY <1>1, <2>3, <2>20, <2>6, <2>9 DEF OnlyClean
  <2>12. Failures!CrumbsOnce'
    BY <2>1, <2>3, <2>9 DEF Failures!CrumbsOnce, FailureTypes
  <2> QED
    BY <1>2, <1>3, <2>8, <2>10, <2>11, <2>12
<1> QED
  BY <1>4, <1>5

(* What is sent when the report is.                                        *)
LEMMA OneReported ==
    ASSUME NEW t \in Seq(Events), NEW e, NEW m \in Events, m = [e EXCEPT !.metadata = TRUE]
    PROVE  LET u == t \o Failures!WithMetadata(<<e>>)
           IN  /\ u \in Seq(Events) /\ Len(t) + 1 \in DOMAIN u
               /\ u[Len(t) + 1] = m
               /\ \A i \in DOMAIN u : i # Len(t) + 1 => i \in DOMAIN t /\ u[i] = t[i]
<1> DEFINE s == <<e>>
           w == Failures!WithMetadata(s)
<1>0. DOMAIN s = 1 .. 1 /\ s[1] = e
  OBVIOUS
<1> HIDE DEF s
<1>1. w = [i \in DOMAIN s |-> [s[i] EXCEPT !.metadata = TRUE]]
  BY DEF Failures!WithMetadata
<1>2. w \in Seq(Events) /\ Len(w) = 1 /\ w[1] = m
  <2>1. \A i \in 1 .. 1 : [s[i] EXCEPT !.metadata = TRUE] = m
    <3>1. \A i \in 1 .. 1 : i = 1
      OBVIOUS
    <3> QED
      BY <1>0, <3>1, Zenon
  <2> DEFINE h == [i \in 1 .. 1 |-> m]
  <2>2. w = h
    BY <1>0, <1>1, <2>1, Zenon
  <2>3. h \in [1 .. 1 -> Events] /\ h[1] = m
    OBVIOUS
  <2> HIDE DEF h, w
  <2>4. h \in Seq(Events) /\ Len(h) = 1
    <3>1. h \in Seq(Events)
      <4>1. 1 \in Nat
        OBVIOUS
      <4>2. h \in UNION {[1 .. n -> Events] : n \in Nat}
        BY <2>3, <4>1, Zenon
      <4> QED
        BY <4>2, SeqDef, Zenon
    <3> QED
      BY <2>3, <3>1, LenProperties
  <2> QED
    BY <2>2, <2>3, <2>4
<1> HIDE DEF w
<1>3. t \o w \in Seq(Events) /\ Len(t \o w) = Len(t) + 1 /\ (t \o w)[Len(t) + 1] = m
  <2>1. Len(t) \in Nat /\ Len(t) + 1 \in 1 .. Len(t) + 1 /\ (Len(t) + 1) - Len(t) = 1 /\ ~(Len(t) + 1 <= Len(t))
    BY LenProperties
  <2>2. /\ t \o w \in Seq(Events) /\ Len(t \o w) = Len(t) + Len(w)
        /\ \A i \in 1 .. Len(t) + Len(w) : (t \o w)[i] = IF i <= Len(t) THEN t[i] ELSE w[i - Len(t)]
    <3>1. w \in Seq(Events)
      BY <1>2
    <3> QED
      BY <3>1, ConcatProperties
  <2>3. (t \o w)[Len(t) + 1] = w[(Len(t) + 1) - Len(t)]
    BY <1>2, <2>1, <2>2, Zenon
  <2> QED
    BY <1>2, <2>1, <2>2, <2>3, Zenon
<1>4. \A i \in 1 .. Len(t) : (t \o w)[i] = t[i]
  BY <1>2
<1>5. DOMAIN (t \o w) = 1 .. Len(t) + 1 /\ DOMAIN t = 1 .. Len(t) /\ Len(t) \in Nat
  BY <1>3
<1> QED
  BY <1>3, <1>4, <1>5 DEF w, s

(* A step before the report, of an execution that is not over, keeps the   *)
(* invariant if it keeps its two halves.                                   *)
LEMMA NothingReported ==
    ASSUME NEW t \in Seq(Events)
    PROVE  t \o Failures!WithMetadata(<<>>) = t
<1>1. Failures!WithMetadata(<<>>) = <<>>
  BY DEF Failures!WithMetadata
<1> QED
  BY <1>1

(* An event with its metadata, or marked as handled, is an event.          *)
LEMMA MarkedEvent ==
    ASSUME NEW e \in Events
    PROVE  /\ LET m == [e EXCEPT !.metadata = TRUE]
              IN  /\ m \in Events /\ m.metadata = TRUE
                  /\ m.origin = e.origin /\ m.crumbs = e.crumbs /\ m.handled = e.handled
           /\ LET m == [e EXCEPT !.handled = TRUE]
              IN  /\ m \in Events /\ m.handled = TRUE
                  /\ m.origin = e.origin /\ m.crumbs = e.crumbs /\ m.metadata = e.metadata
<1>1. ASSUME NEW m, m = [e EXCEPT !.metadata = TRUE]
      PROVE  /\ m \in Events /\ m.metadata = TRUE
             /\ m.origin = e.origin /\ m.crumbs = e.crumbs /\ m.handled = e.handled
  BY <1>1 DEF Events, Failures!Events
<1>2. ASSUME NEW m, m = [e EXCEPT !.handled = TRUE]
      PROVE  /\ m \in Events /\ m.handled = TRUE
             /\ m.origin = e.origin /\ m.crumbs = e.crumbs /\ m.metadata = e.metadata
  BY <1>2 DEF Events, Failures!Events
<1> QED
  BY <1>1, <1>2

(* The event that reports a failure carries the breadcrumbs once.          *)
LEMMA ReportedEvent ==
    ASSUME FNames, FailureInv, pc = "caught",
           failure = "error" \/ build = "sentry-panic"
    PROVE  \E e \in Events : /\ Failures!DefaultReport = <<e>> /\ e.crumbs = crumbs
                             /\ e.origin \in {"error", "hook", "fallback"}
                             /\ e.origin = "hook" => e.handled
<1>1. crumbs \in Nat /\ retained \in Events \cup {None} /\ NotYetReported
  BY DEF FailureInv, FailureTypes
<1>2. CASE failure = "error"
  BY <1>1, <1>2, AppliedEvent DEF Failures!DefaultReport, Failures!Origins
<1>3. CASE failure # "error" /\ retained # None
  <2> DEFINE m == [retained EXCEPT !.handled = TRUE]
  <2>1. /\ m \in Events /\ m.handled = TRUE /\ m.crumbs = crumbs /\ m.origin = "hook"
    BY <1>1, <1>3, MarkedEvent DEF NotYetReported
  <2>2. Failures!DefaultReport = <<Failures!Applied(m, 0)>>
    BY <1>3 DEF Failures!DefaultReport, Failures!PanicReport
  <2> HIDE DEF m
  <2>3. m.crumbs + 0 = crumbs
    BY <1>1, <2>1
  <2>4. Failures!Applied(m, 0) = [m EXCEPT !.crumbs = crumbs]
    BY <2>3, Zenon DEF Failures!Applied
  <2>5. ASSUME NEW e, e = [m EXCEPT !.crumbs = crumbs]
        PROVE  e \in Events /\ e.crumbs = crumbs /\ e.origin = "hook" /\ e.handled = TRUE
    BY <1>1, <2>1, <2>5 DEF Events, Failures!Events
  <2> QED
    BY <2>2, <2>4, <2>5
<1>4. CASE failure # "error" /\ retained = None
  <2> DEFINE f == Failures!Applied(Failures!Event("fallback"), crumbs)
  <2>1. f \in Events /\ f.crumbs = crumbs /\ f.origin = "fallback"
    BY <1>1, AppliedEvent DEF Failures!Origins
  <2>2. Failures!DefaultReport = <<[f EXCEPT !.handled = TRUE]>>
    BY <1>4 DEF Failures!DefaultReport, Failures!PanicReport
  <2> HIDE DEF f
  <2>3. [f EXCEPT !.handled = TRUE] \in Events
        /\ [f EXCEPT !.handled = TRUE].crumbs = crumbs /\ [f EXCEPT !.handled = TRUE].origin = "fallback"
    BY <2>1, MarkedEvent
  <2> QED
    BY <2>2, <2>3
<1> QED
  BY <1>2, <1>3, <1>4

(* The report itself: the one event with the metadata.                     *)
LEMMA ReportStep == ASSUME FNames, FailureInv, Failures!Report PROVE FailureInv'
<1>1. /\ UNCHANGED <<build, custom, hook, policy, failure, crumbs, fate>>
      /\ pc = "caught" /\ pc' = "returned"
      /\ report' = [j \in Jobs |-> Failures!WillRetry(policy[j])]
  BY DEF Failures!Report, Failures!settings
<1>2. FailureTypes /\ NotYetReported /\ OnlyClean /\ Failures!CrumbsOnce /\ FateKept
  BY DEF FailureInv
<1>3. calls = 0 /\ failure \in {"error", "panic"} /\ sent \in Seq(Events) /\ crumbs \in Nat
      /\ \A i \in DOMAIN sent : ~sent[i].metadata
  BY <1>1, <1>2 DEF NotYetReported, FailureTypes
<1>4. FateKept'
  BY <1>1, <1>2 DEF FateKept, Failures!WillRetry
<1>5. retained' \in Events \cup {None}
  BY <1>2 DEF Failures!Report, FailureTypes
<1>6. NotYetReported'
  BY <1>1, <1>2 DEF NotYetReported
<1>7. calls' = IF custom THEN 1 ELSE 0
  BY <1>3 DEF Failures!Report
<1> DEFINE Reports == ~custom /\ (build = "sentry-panic" \/ (build = "sentry" /\ failure = "error"))
<1>8. CASE ~Reports
  <2>1. sent' = sent
    <3>1. CASE custom
      BY <3>1 DEF Failures!Report
    <3>2. CASE ~custom /\ build = "none"
      BY <3>2 DEF Failures!Report
    <3>3. CASE ~custom /\ build = "sentry" /\ failure = "panic"
      <4>1. Failures!DefaultReport = <<>>
        BY <3>3 DEF Failures!DefaultReport
      <4>2. sent' = sent \o Failures!WithMetadata(<<>>)
        BY <3>3, <4>1 DEF Failures!Report
      <4> QED
        BY <1>3, <4>2, NothingReported
    <3> QED
      BY <1>2, <1>3, <1>8, <3>1, <3>2, <3>3 DEF FailureTypes
  <2>2. FailureTypes'
    BY <1>1, <1>2, <1>5, <2>1 DEF FailureTypes, Events, Failures!Events, Failures!Origins
  <2>3. ToldOnce'
    BY <1>1, <1>3, <1>7, <1>8, <2>1 DEF ToldOnce
  <2>4. OnlyClean' /\ Failures!CrumbsOnce'
    BY <1>1, <1>2, <2>1 DEF OnlyClean, Failures!CrumbsOnce
  <2> QED
    BY <1>4, <1>6, <2>2, <2>3, <2>4 DEF FailureInv
<1>9. CASE Reports
  <2>1. PICK e \in Events : /\ Failures!DefaultReport = <<e>> /\ e.crumbs = crumbs
                            /\ e.origin \in {"error", "hook", "fallback"}
                            /\ e.origin = "hook" => e.handled
    BY <1>1, <1>9, ReportedEvent
  <2>2. sent' = sent \o Failures!WithMetadata(<<e>>)
    BY <1>9, <2>1 DEF Failures!Report
  <2> DEFINE m == [e EXCEPT !.metadata = TRUE]
  <2>3. m \in Events /\ m.metadata = TRUE /\ m.origin = e.origin /\ m.crumbs = e.crumbs /\ m.handled = e.handled
    BY MarkedEvent
  <2>4. /\ sent' \in Seq(Events) /\ Len(sent) + 1 \in DOMAIN sent'
        /\ sent'[Len(sent) + 1] = m
        /\ \A i \in DOMAIN sent' : i # Len(sent) + 1 => i \in DOMAIN sent /\ sent'[i] = sent[i]
    BY <1>3, <2>2, <2>3, OneReported
  <2> HIDE DEF m
  <2>5. FailureTypes'
    BY <1>1, <1>2, <1>5, <2>4 DEF FailureTypes, Events, Failures!Events, Failures!Origins
  <2>6. ToldOnce'
    <3>1. \A j \in DOMAIN sent' : sent'[j].metadata <=> j = Len(sent) + 1
      BY <1>3, <2>3, <2>4
    <3> QED
      BY <1>1, <1>7, <1>9, <2>4, <3>1 DEF ToldOnce
  <2>7. OnlyClean'
    BY <1>1, <1>2, <2>1, <2>3, <2>4 DEF OnlyClean
  <2>8. Failures!CrumbsOnce'
    BY <1>1, <1>2, <1>3, <2>1, <2>3, <2>4 DEF Failures!CrumbsOnce
  <2> QED
    BY <1>4, <1>6, <2>5, <2>6, <2>7, <2>8 DEF FailureInv
<1> QED
  BY <1>8, <1>9

(* Every step of an execution keeps the invariant.                         *)
LEMMA FailureStep == ASSUME FNames, FailureInv, Failures!Next PROVE FailureInv'
<1>1. CASE Failures!HandleErr
  <2>1. /\ UNCHANGED <<build, custom, hook, policy, pc, failure, crumbs, captures, retained, sent, calls, report>>
        /\ pc = "returned"
    BY <1>1 DEF Failures!HandleErr, Failures!settings
  <2>2. \/ fate' = fate
        \/ \E j \in Jobs : fate' = [fate EXCEPT ![j] = IF policy[j].retries < policy[j].max THEN "retry" ELSE "dead"]
    <3>1. (\E j \in Jobs : fate[j] = "claimed") => \E j \in Jobs : fate[j] = "claimed"
                                 /\ \A k \in Jobs : fate[k] = "claimed" => j <= k
      <4> SUFFICES ASSUME \E j \in Jobs : fate[j] = "claimed"
                   PROVE  \E j \in Jobs : fate[j] = "claimed" /\ \A k \in Jobs : fate[k] = "claimed" => j <= k
        OBVIOUS
      <4> DEFINE S == {j \in Jobs : fate[j] = "claimed"}
      <4>1. S \in SUBSET Nat /\ S # {}
        BY DEF FNames
      <4>2. PICK j \in S : \A k \in S : j <= k
        <5>1. IsWellFoundedOn(OpToRel(<, Nat), Nat)
          BY NatLessThanWellFounded
        <5>2. PICK j \in S : \A k \in S : ~(<<k, j>> \in OpToRel(<, Nat))
          BY <4>1, <5>1, WFMin
        <5>3. \A k \in S : ~(k < j)
          BY <4>1, <5>2 DEF OpToRel
        <5> QED
          BY <4>1, <5>3
      <4> QED
        BY <4>2
    <3> QED
      BY <1>1, <3>1 DEF Failures!HandleErr
  <2>3. FateKept'
    BY <2>1, <2>2 DEF FailureInv, FateKept, Failures!WillRetry
  <2>4. FailureTypes' /\ NotYetReported' /\ OnlyClean'
    BY <2>1 DEF FailureInv, FailureTypes, NotYetReported, OnlyClean, Events, Failures!Events,
       Failures!Origins
  <2>5. ToldOnce' /\ Failures!CrumbsOnce'
    BY <2>1 DEF FailureInv, ToldOnce, Failures!CrumbsOnce
  <2> QED
    BY <2>3, <2>4, <2>5 DEF FailureInv
<1> QED
  BY <1>1, BeforeReport, ReportStep DEF Failures!Next

(* A failed execution is reported at most once, with the breadcrumbs of    *)
(* its own worker and with the retries that really follow, whatever hook,  *)
(* policy and failure meet (failure.rs, executor.rs).                      *)
THEOREM ReportsAreSound == Spec => []ReportsSound
<1> DEFINE Inv == Reporting => FailureInv
<1>1. Init => Inv
  BY FailureConstants, FailureInit DEF Init, Throttling, Scheduling, Resuming, Reporting
<1>2. Inv /\ [Next]_vars => Inv'
  <2> SUFFICES ASSUME Inv, [Next]_vars, Reporting'
               PROVE  FailureInv'
    OBVIOUS
  <2>1. CASE Next
    BY <2>1, FailureConstants, FailureStep DEF Next, Throttling, Scheduling, Resuming, Reporting
  <2>2. CASE UNCHANGED vars
    <3>1. /\ FailureInv
          /\ UNCHANGED <<build, custom, hook, policy, pc, failure, crumbs, retained, sent, calls, report, fate>>
      BY <2>2 DEF vars, ofFailures, Reporting
    <3>2. FailureTypes' /\ NotYetReported' /\ OnlyClean'
      BY <3>1 DEF FailureInv, FailureTypes, NotYetReported, OnlyClean, Events, Failures!Events,
         Failures!Origins
    <3>3. ToldOnce' /\ Failures!CrumbsOnce' /\ FateKept'
      BY <3>1 DEF FailureInv, ToldOnce, Failures!CrumbsOnce, FateKept, Failures!WillRetry
    <3> QED
      BY <3>2, <3>3 DEF FailureInv
  <2> QED
    BY <2>1, <2>2
<1>3. Inv => ReportsSound
  BY FailureConstants, FailureImplied DEF ReportsSound
<1> QED
  BY <1>1, <1>2, <1>3, PTL DEF Spec

-----------------------------------------------------------------------------
States == Progress!States
Envelopes == Progress!Envelopes

(* What ProgressAssumption says, in the names of this module.              *)
PNames ==
    /\ Total \in Nat /\ None \notin Nat /\ None \notin States /\ None \notin Envelopes

(* The assumption gives these names.                                       *)
LEMMA ProgressConstants == PNames
  BY DispatchAssumption DEF Progress!ProgressAssumption, PNames, States, Envelopes

Records == [pc : {"idle", "loaded", "process", "ready", "mark", "failed"},
            envelope : Envelopes \cup {None}, current : Nat \cup {None}, next : Nat,
            read : Envelopes \cup {None}]

Covered(envelope) == Progress!Below(Progress!Cursor(envelope.state)) \subseteq done

ProgressTypes ==
    /\ payload \in Envelopes \cup {None} /\ dead \in SUBSET Envelopes
    /\ attempt \in [Attempts -> Records]
    /\ recorded \in Nat

(* Everything that may be stored is covered, and so is what will be.       *)
AllCovered ==
    /\ payload # None => Covered(payload)
    /\ \A d \in dead : Covered(d)
    /\ \A a \in Attempts :
          /\ attempt[a].pc \in {"loaded", "process", "ready", "mark", "failed"} =>
                attempt[a].envelope # None /\ Covered(attempt[a].envelope)
          /\ attempt[a].pc \in {"ready", "mark"} => Progress!Below(attempt[a].next) \subseteq done
          /\ attempt[a].pc \in {"ready", "mark"} /\ attempt[a].current # None =>
                attempt[a].next = attempt[a].current + 1
          /\ attempt[a].pc = "mark" => attempt[a].read # None /\ attempt[a].current # None
          /\ attempt[a].pc \in {"loaded", "process"} => attempt[a].current = None

(* As long as attempts have not overlapped, one runs at a time, the job is *)
(* in one place, and its cursor is the one that was recorded.              *)
Alone ==
    ~overlap =>
        /\ \A a, b \in Attempts : attempt[a].pc # "idle" /\ attempt[b].pc # "idle" => a = b
        /\ \A a \in Attempts : attempt[a].pc # "idle" => payload # None
        /\ payload # None => dead = {} /\ Progress!Cursor(payload.state) = recorded
        /\ \A d \in dead : Progress!Cursor(d.state) = recorded
        /\ \A d, e \in dead : d = e
        /\ \A a \in Attempts : attempt[a].pc = "loaded" => Progress!Cursor(attempt[a].envelope.state) = recorded

ProgressInv == ProgressTypes /\ AllCovered /\ Alone /\ Progress!StartsWhereLeft

(* The cursor of a state is a number, and that of a stored cursor itself.  *)
LEMMA CursorOf ==
    ASSUME PNames
    PROVE  /\ Progress!Cursor(None) = 0
           /\ \A s \in States : Progress!Cursor(s) = IF s.cursor < 0 THEN 0 ELSE s.cursor
           /\ \A s \in States \cup {None} : Progress!Cursor(s) \in Nat
<1>1. Progress!Cursor(None) = 0
  BY DEF Progress!Cursor
<1>2. ASSUME NEW s \in States PROVE Progress!Cursor(s) = IF s.cursor < 0 THEN 0 ELSE s.cursor
  <2>1. s # None /\ s.cursor \in Int
    BY DEF PNames, States, Progress!States
  <2>2. ASSUME NEW c \in Int PROVE Progress!Max({0, c}) = IF c < 0 THEN 0 ELSE c
    <3> DEFINE m == IF c < 0 THEN 0 ELSE c
    <3>1. m \in {0, c} /\ \A y \in {0, c} : m >= y
      OBVIOUS
    <3>2. \A x \in {0, c} : (\A y \in {0, c} : x >= y) => x = m
      OBVIOUS
    <3> QED
      BY <3>1, <3>2 DEF Progress!Max
  <2> QED
    BY <2>1, <2>2 DEF Progress!Cursor
<1>3. \A s \in States \cup {None} : Progress!Cursor(s) \in Nat
  BY <1>1, <1>2 DEF States, Progress!States
<1> QED
  BY <1>1, <1>2, <1>3

(* The invariant implies the property ...                                  *)
LEMMA ProgressImplied == ASSUME ProgressInv PROVE Progress!ProgressSound
  BY DEF ProgressInv, AllCovered, Covered, Progress!ProgressSound, Progress!CursorCovered

(* ... and holds when the job is enqueued.                                 *)
LEMMA ProgressInit == ASSUME PNames, Progress!Init PROVE ProgressInv
<1>1. PICK s \in {None, [form |-> "cursor", cursor |-> -1]} \cup [form : Progress!Forms, cursor : {1}] :
        payload = [state |-> s, retries |-> 0]
  BY DEF Progress!Init
<1>2. s \in States \cup {None}
  BY DEF States, Progress!States, Progress!Forms
<1>3. payload \in Envelopes /\ payload.state = s /\ payload # None
  BY <1>1, <1>2 DEF PNames, Envelopes, Progress!Envelopes, States
<1>4. recorded = Progress!Cursor(s) /\ recorded \in Nat
  BY <1>2, <1>3, CursorOf DEF Progress!Init, Progress!Cursor
<1>5. \A a \in Attempts : attempt[a] = Progress!Idle
  BY DEF Progress!Init
<1>6. ProgressTypes
  BY <1>3, <1>4 DEF Progress!Init, ProgressTypes, Records, Progress!Idle
<1>7. Covered(payload)
  <2>1. CASE s = None \/ s.cursor <= 0
    <3>1. Progress!Cursor(s) = 0
      BY <1>2, <2>1, CursorOf DEF States, Progress!States
    <3> QED
      BY <1>3, <3>1 DEF Covered, Progress!Below
  <2>2. CASE s # None /\ ~(s.cursor <= 0)
    <3>1. s.cursor = 1
      BY <1>2, <2>2
    <3>2. Progress!Cursor(s) = 1
      BY <1>2, <2>2, <3>1, CursorOf
    <3>3. done = {0}
      BY <1>3, <2>2 DEF Progress!Init
    <3> QED
      BY <1>3, <3>2, <3>3 DEF Covered, Progress!Below
  <2> QED
    BY <2>1, <2>2
<1>8. AllCovered
  BY <1>5, <1>7 DEF AllCovered, Progress!Init, Progress!Idle
<1>9. Alone /\ Progress!StartsWhereLeft
  BY <1>3, <1>4, <1>5 DEF Alone, Progress!StartsWhereLeft, Progress!Init, Progress!Idle
<1> QED
  BY <1>6, <1>8, <1>9 DEF ProgressInv

CoveredIn(envelope, items) == Progress!Below(Progress!Cursor(envelope.state)) \subseteq items

(* What a record of an attempt must satisfy to be covered.                 *)
Sound(r, items) ==
    /\ r.pc \in {"loaded", "process", "ready", "mark", "failed"} =>
          r.envelope # None /\ CoveredIn(r.envelope, items)
    /\ r.pc \in {"ready", "mark"} => Progress!Below(r.next) \subseteq items
    /\ r.pc \in {"ready", "mark"} /\ r.current # None => r.next = r.current + 1
    /\ r.pc = "mark" => r.read # None /\ r.current # None
    /\ r.pc \in {"loaded", "process"} => r.current = None

(* A step of one attempt, or of none, keeps everything covered if what it  *)
(* stores and its own record are.                                          *)
LEMMA StaysCovered ==
    ASSUME ProgressInv, NEW a \in Attempts, NEW r \in Records,
           attempt' = [attempt EXCEPT ![a] = r], done \subseteq done',
           payload' \in Envelopes \cup {None}, dead' \in SUBSET Envelopes, recorded' \in Nat,
           payload' # None => CoveredIn(payload', done'),
           \A d \in dead' : d \in dead \/ CoveredIn(d, done'),
           Sound(r, done')
    PROVE  ProgressTypes' /\ AllCovered'
<1>1. ProgressTypes'
  BY DEF ProgressInv, ProgressTypes, Records, Envelopes, Progress!Envelopes, Progress!States,
     Progress!Forms
<1>2. \A e : Covered(e) => CoveredIn(e, done')
  BY DEF Covered, CoveredIn
<1>3. \A b \in Attempts : attempt'[b] = IF b = a THEN r ELSE attempt[b]
  BY DEF ProgressInv, ProgressTypes
<1>4. \A b \in Attempts : Sound(attempt'[b], done')
  <2> SUFFICES ASSUME NEW b \in Attempts, b # a PROVE Sound(attempt[b], done')
    BY <1>3
  <2> QED
    BY <1>2 DEF ProgressInv, AllCovered, Sound
<1>5. \A d \in dead' : CoveredIn(d, done')
  BY <1>2 DEF ProgressInv, AllCovered
<1>6. AllCovered'
  BY <1>4, <1>5 DEF AllCovered, Covered, CoveredIn, Sound
<1> QED
  BY <1>1, <1>6

(* The facts of the invariant about one attempt.                           *)
LEMMA OfAttempt ==
    ASSUME ProgressInv, NEW a \in Attempts
    PROVE  attempt[a] \in Records /\ Sound(attempt[a], done)
  BY DEF ProgressInv, ProgressTypes, AllCovered, Sound, Covered, CoveredIn

(* An attempt takes over the cursor of the stored payload.                 *)
LEMMA ProgressLoad ==
    ASSUME PNames, ProgressInv, NEW a \in Attempts, Progress!Load(a)
    PROVE  ProgressInv'
<1> DEFINE r == [Progress!Idle EXCEPT !.pc = "loaded", !.envelope = payload]
<1>1. /\ attempt' = [attempt EXCEPT ![a] = r]
      /\ payload # None /\ attempt[a].pc = "idle" /\ UNCHANGED <<payload, dead, done, recorded, began>>
      /\ overlap' = (overlap \/ \E b \in Attempts : attempt[b].pc # "idle")
  BY DEF Progress!Load, Progress!Running
<1>2. r \in Records /\ r.pc = "loaded" /\ r.envelope = payload /\ r.current = None
  BY <1>1 DEF Records, ProgressInv, ProgressTypes, Progress!Idle
<1> HIDE DEF r
<1>3. ProgressTypes' /\ AllCovered'
  BY <1>1, <1>2, StaysCovered DEF ProgressInv, ProgressTypes, AllCovered, Sound, Covered, CoveredIn
<1>4. Alone'
  <2> SUFFICES ASSUME ~overlap' PROVE Alone'
    BY DEF Alone
  <2>1. ~overlap /\ \A b \in Attempts : attempt[b].pc = "idle"
    BY <1>1
  <2>2. \A b \in Attempts : attempt'[b] = IF b = a THEN r ELSE attempt[b]
    BY <1>1 DEF ProgressInv, ProgressTypes
  <2> QED
    BY <1>1, <1>2, <2>1, <2>2 DEF ProgressInv, Alone
<1>5. Progress!StartsWhereLeft'
  BY <1>1 DEF ProgressInv, Progress!StartsWhereLeft
<1> QED
  BY <1>3, <1>4, <1>5 DEF ProgressInv

(* An attempt starts to iterate at its cursor.                             *)
LEMMA ProgressStart ==
    ASSUME PNames, ProgressInv, NEW a \in Attempts, Progress!Start(a)
    PROVE  ProgressInv'
<1> DEFINE v == Progress!Started(attempt[a].envelope)
           r == [attempt[a] EXCEPT !.pc = "process", !.envelope = v]
<1>1. /\ attempt' = [attempt EXCEPT ![a] = r] /\ payload' = v
      /\ attempt[a].pc = "loaded" /\ UNCHANGED <<dead, done, overlap, began>>
      /\ recorded' = IF resumes THEN recorded ELSE 0
  BY DEF Progress!Start, Progress!places
<1>2. attempt[a] \in Records /\ attempt[a].envelope \in Envelopes /\ CoveredIn(attempt[a].envelope, done)
  BY <1>1, OfAttempt DEF Records, Sound
<1>3. v \in Envelopes /\ v # None /\ v.state = IF resumes THEN attempt[a].envelope.state ELSE None
  BY <1>2 DEF Progress!Started, PNames, Envelopes, Progress!Envelopes, States
<1>4. CoveredIn(v, done)
  BY <1>2, <1>3, CursorOf DEF CoveredIn, Progress!Below
<1> HIDE DEF v
<1>5. r \in Records /\ r.pc = "process" /\ r.envelope = v /\ r.current = None
  <2>1. attempt[a].current = None
    BY <1>1, OfAttempt DEF Sound
  <2> QED
    BY <1>2, <1>3, <2>1 DEF Records
<1> HIDE DEF r
<1>6. ProgressTypes' /\ AllCovered'
  <2>1. recorded' \in Nat /\ dead' \in SUBSET Envelopes
    BY <1>1 DEF ProgressInv, ProgressTypes
  <2> QED
    BY <1>1, <1>3, <1>4, <1>5, <2>1, StaysCovered DEF Sound
<1>7. Alone'
  <2> SUFFICES ASSUME ~overlap PROVE Alone'
    BY <1>1 DEF Alone
  <2>1. \A b \in Attempts : attempt'[b] = IF b = a THEN r ELSE attempt[b]
    BY <1>1 DEF ProgressInv, ProgressTypes
  <2>2. Progress!Cursor(v.state) = recorded'
    BY <1>1, <1>3, CursorOf DEF ProgressInv, Alone
  <2>3. dead = {} /\ \A b \in Attempts : b # a => attempt[b].pc = "idle"
    BY <1>1 DEF ProgressInv, Alone
  <2> QED
    BY <1>1, <1>3, <1>5, <2>1, <2>2, <2>3 DEF Alone
<1>8. Progress!StartsWhereLeft'
  BY <1>1 DEF ProgressInv, Progress!StartsWhereLeft
<1> QED
  BY <1>6, <1>7, <1>8 DEF ProgressInv

(* The steps of an iteration: an item, a save, and what follows an error.  *)
LEMMA ProgressIterator ==
    ASSUME PNames, ProgressInv, NEW a \in Attempts, Progress!NewIterator(a) PROVE ProgressInv'
<1> DEFINE c == IF payload = None THEN 0 ELSE Progress!Cursor(payload.state)
           r == [attempt[a] EXCEPT !.pc = "ready", !.next = c]
<1>1. /\ attempt' = [attempt EXCEPT ![a] = r] /\ attempt[a].pc = "process"
      /\ began' = [at |-> c, expected |-> recorded]
      /\ UNCHANGED <<payload, dead, done, recorded, overlap>>
  BY DEF Progress!NewIterator, Progress!places
<1>2. attempt[a] \in Records /\ Sound(attempt[a], done)
  BY OfAttempt
<1>3. c \in Nat /\ Progress!Below(c) \subseteq done
  <2>1. CASE payload = None
    BY <2>1 DEF Progress!Below
  <2>2. CASE payload # None
    <3>1. payload \in Envelopes /\ Covered(payload)
      BY <2>2 DEF ProgressInv, ProgressTypes, AllCovered
    <3>2. payload.state \in States \cup {None}
      BY <3>1 DEF Envelopes, Progress!Envelopes, States
    <3> QED
      BY <2>2, <3>1, <3>2, CursorOf DEF Covered
  <2> QED
    BY <2>1, <2>2
<1>4. ~overlap => c = recorded
  BY <1>1 DEF ProgressInv, Alone
<1> HIDE DEF c
<1>5. /\ r \in Records /\ r.pc = "ready" /\ r.next = c /\ r.envelope = attempt[a].envelope
      /\ r.current = attempt[a].current
  BY <1>2, <1>3 DEF Records
<1> HIDE DEF r
<1>6. ProgressTypes' /\ AllCovered'
  <2>1. recorded' \in Nat /\ dead' \in SUBSET Envelopes /\ payload' \in Envelopes \cup {None}
    BY <1>1 DEF ProgressInv, ProgressTypes
  <2>2. payload' # None => CoveredIn(payload', done')
    BY <1>1 DEF ProgressInv, AllCovered, Covered, CoveredIn
  <2>3. Sound(r, done')
    BY <1>1, <1>2, <1>3, <1>5 DEF Sound
  <2> QED
    BY <1>1, <1>5, <2>1, <2>2, <2>3, StaysCovered
<1>7. Alone'
  <2>1. \A b \in Attempts : attempt'[b] = IF b = a THEN r ELSE attempt[b]
    BY <1>1 DEF ProgressInv, ProgressTypes
  <2> QED
    BY <1>1, <1>5, <2>1 DEF ProgressInv, Alone
<1>8. Progress!StartsWhereLeft'
  BY <1>1, <1>4 DEF Progress!StartsWhereLeft
<1> QED
  BY <1>6, <1>7, <1>8 DEF ProgressInv

(* The steps of an attempt between two writes: nothing is stored.          *)
LEMMA ProgressQuiet ==
    ASSUME PNames, ProgressInv, NEW a \in Attempts,
           Progress!MarkRead(a) \/ Progress!Process(a) \/ Progress!Fail(a) \/ Progress!Crash(a)
    PROVE  ProgressInv'
<1>1. /\ UNCHANGED <<payload, dead, recorded, overlap, began>>
      /\ done \subseteq done' /\ attempt[a].pc # "idle"
  BY DEF Progress!MarkRead, Progress!Process, Progress!Fail, Progress!Crash, Progress!places,
     Progress!Running
<1>2. attempt[a] \in Records /\ Sound(attempt[a], done)
  BY OfAttempt
<1>3. \E r \in Records : /\ attempt' = [attempt EXCEPT ![a] = r] /\ Sound(r, done')
                         /\ r.pc \in {"idle", "ready", "mark", "failed"}
  <2>1. CASE Progress!MarkRead(a)
    <3>1. CASE payload = None
      <4> DEFINE r == [attempt[a] EXCEPT !.pc = "failed"]
      <4>1. r \in Records /\ r.pc = "failed" /\ r.envelope = attempt[a].envelope
        BY <1>2 DEF Records
      <4>2. attempt' = [attempt EXCEPT ![a] = r] /\ done' = done /\ attempt[a].pc = "ready"
        BY <2>1, <3>1 DEF Progress!MarkRead
      <4> HIDE DEF r
      <4>3. Sound(r, done')
        BY <1>2, <4>1, <4>2 DEF Sound
      <4> QED
        BY <4>1, <4>2, <4>3
    <3>2. CASE payload # None
      <4> DEFINE r == [attempt[a] EXCEPT !.pc = "mark", !.read = payload]
      <4>1. /\ r \in Records /\ r.pc = "mark" /\ r.envelope = attempt[a].envelope /\ r.read = payload
            /\ r.current = attempt[a].current /\ r.next = attempt[a].next
        BY <1>2 DEF Records, ProgressInv, ProgressTypes
      <4>2. /\ attempt' = [attempt EXCEPT ![a] = r] /\ done' = done
            /\ attempt[a].pc = "ready" /\ attempt[a].current # None
        BY <2>1, <3>2 DEF Progress!MarkRead
      <4> HIDE DEF r
      <4>3. Sound(r, done')
        BY <1>2, <3>2, <4>1, <4>2 DEF Sound
      <4> QED
        BY <4>1, <4>2, <4>3
    <3> QED
      BY <3>1, <3>2
  <2>2. CASE Progress!Process(a)
    <3> DEFINE n == attempt[a].next
               r == [attempt[a] EXCEPT !.current = n, !.next = n + 1]
    <3>1. attempt' = [attempt EXCEPT ![a] = r] /\ done' = done \cup {n} /\ attempt[a].pc = "ready" /\ n \in Nat
      BY <1>2, <2>2 DEF Progress!Process, Records
    <3>3. Progress!Below(n) \subseteq done
      BY <1>2, <3>1 DEF Sound
    <3> HIDE DEF n
    <3>7. n + 1 \in Nat
      BY <3>1
    <3>2. /\ r \in Records /\ r.pc = "ready" /\ r.envelope = attempt[a].envelope
          /\ r.current = n /\ r.next = n + 1
      BY <1>2, <3>1, <3>7 DEF Records
    <3> HIDE DEF r
    <3>4. Progress!Below(n + 1) \subseteq done'
      BY <3>1, <3>3 DEF Progress!Below
    <3>5. CoveredIn(r.envelope, done')
      BY <1>2, <3>1, <3>2 DEF Sound, CoveredIn
    <3>6. Sound(r, done')
      BY <1>2, <3>1, <3>2, <3>4, <3>5 DEF Sound
    <3> QED
      BY <3>1, <3>2, <3>6
  <2>3. CASE Progress!Fail(a)
    <3> DEFINE r == [attempt[a] EXCEPT !.pc = "failed"]
    <3>1. r \in Records /\ r.pc = "failed" /\ r.envelope = attempt[a].envelope
      BY <1>2 DEF Records
    <3>2. attempt' = [attempt EXCEPT ![a] = r] /\ done' = done /\ attempt[a].pc \in {"process", "ready"}
      BY <2>3 DEF Progress!Fail
    <3> HIDE DEF r
    <3>3. Sound(r, done')
      BY <1>2, <3>1, <3>2 DEF Sound
    <3> QED
      BY <3>1, <3>2, <3>3
  <2>4. CASE Progress!Crash(a)
    <3>1. attempt' = [attempt EXCEPT ![a] = Progress!Idle] /\ done' = done
      BY <2>4 DEF Progress!Crash
    <3>2. Progress!Idle \in Records /\ Progress!Idle.pc = "idle"
      BY DEF Records, Progress!Idle
    <3> QED
      BY <3>1, <3>2 DEF Sound
  <2> QED
    BY <2>1, <2>2, <2>3, <2>4
<1>4. PICK r \in Records : /\ attempt' = [attempt EXCEPT ![a] = r] /\ Sound(r, done')
                           /\ r.pc \in {"idle", "ready", "mark", "failed"}
  BY <1>3
<1>5. ProgressTypes' /\ AllCovered'
  <2>1. recorded' \in Nat /\ dead' \in SUBSET Envelopes /\ payload' \in Envelopes \cup {None}
    BY <1>1 DEF ProgressInv, ProgressTypes
  <2>2. payload' # None => CoveredIn(payload', done')
    BY <1>1 DEF ProgressInv, AllCovered, Covered, CoveredIn
  <2> QED
    BY <1>1, <1>4, <2>1, <2>2, StaysCovered
<1>6. Alone'
  <2>1. \A b \in Attempts : attempt'[b] = IF b = a THEN r ELSE attempt[b]
    BY <1>4 DEF ProgressInv, ProgressTypes
  <2> QED
    BY <1>1, <1>4, <2>1 DEF ProgressInv, Alone
<1>7. Progress!StartsWhereLeft'
  BY <1>1 DEF ProgressInv, Progress!StartsWhereLeft
<1> QED
  BY <1>5, <1>6, <1>7 DEF ProgressInv

(* The cursor past the current item is written.                            *)
LEMMA ProgressMark ==
    ASSUME PNames, ProgressInv, NEW a \in Attempts, Progress!MarkWrite(a) PROVE ProgressInv'
<1> DEFINE c == attempt[a].current + 1
           s == [form |-> "struct", cursor |-> c]
           v == [attempt[a].read EXCEPT !.state = s]
           r == [attempt[a] EXCEPT !.pc = "ready", !.current = None, !.read = None]
<1>1. /\ attempt' = [attempt EXCEPT ![a] = r] /\ payload' = v /\ recorded' = c
      /\ attempt[a].pc = "mark" /\ UNCHANGED <<dead, done, overlap, began>>
  BY DEF Progress!MarkWrite, Progress!Marked, Progress!places
<1>2. attempt[a] \in Records /\ Sound(attempt[a], done)
  BY OfAttempt
<1>3. /\ attempt[a].read \in Envelopes /\ attempt[a].current \in Nat /\ c \in Nat
      /\ attempt[a].next = c /\ Progress!Below(c) \subseteq done
  BY <1>1, <1>2 DEF Sound, Records
<1>4. /\ r \in Records /\ r.pc = "ready" /\ r.envelope = attempt[a].envelope /\ r.current = None
      /\ r.next = attempt[a].next
  BY <1>2 DEF Records
<1> HIDE DEF c, r
<1>5. s \in States /\ s.cursor = c
  BY <1>3 DEF States, Progress!States, Progress!Forms
<1>6. Progress!Cursor(s) = c
  BY <1>3, <1>5, CursorOf
<1> HIDE DEF s
<1>7. v \in Envelopes /\ v.state = s /\ v # None
  BY <1>3, <1>5 DEF Envelopes, Progress!Envelopes, PNames, States
<1> HIDE DEF v
<1>8. Sound(r, done)
  BY <1>1, <1>2, <1>3, <1>4 DEF Sound
<1>9. ProgressTypes' /\ AllCovered'
  <2>1. recorded' \in Nat /\ dead' \in SUBSET Envelopes
    BY <1>1, <1>3 DEF ProgressInv, ProgressTypes
  <2>2. CoveredIn(v, done)
    BY <1>3, <1>6, <1>7 DEF CoveredIn
  <2> QED
    BY <1>1, <1>4, <1>7, <1>8, <2>1, <2>2, StaysCovered
<1>10. Alone'
  <2> SUFFICES ASSUME ~overlap PROVE Alone'
    BY <1>1 DEF Alone
  <2>1. \A b \in Attempts : attempt'[b] = IF b = a THEN r ELSE attempt[b]
    BY <1>1 DEF ProgressInv, ProgressTypes
  <2>2. dead = {} /\ \A b \in Attempts : b # a => attempt[b].pc = "idle"
    BY <1>1 DEF ProgressInv, Alone
  <2> QED
    BY <1>1, <1>4, <1>6, <1>7, <2>1, <2>2 DEF Alone
<1>11. Progress!StartsWhereLeft'
  BY <1>1 DEF ProgressInv, Progress!StartsWhereLeft
<1> QED
  BY <1>9, <1>10, <1>11 DEF ProgressInv

(* An attempt ends: it succeeded, is retried, finds its job gone or kills  *)
(* it.                                                                     *)
LEMMA ProgressEnds ==
    ASSUME PNames, ProgressInv, NEW a \in Attempts,
           Progress!Succeed(a) \/ Progress!RetryIn(a) \/ Progress!RetryMissing(a) \/ Progress!Kill(a)
    PROVE  ProgressInv'
<1>1. /\ attempt' = [attempt EXCEPT ![a] = Progress!Idle] /\ attempt[a].pc # "idle"
      /\ UNCHANGED <<done, overlap, began>>
  BY DEF Progress!Succeed, Progress!RetryIn, Progress!RetryMissing, Progress!Kill,
     Progress!Release, Progress!Retried
<1>2. Progress!Idle \in Records /\ Progress!Idle.pc = "idle" /\ Sound(Progress!Idle, done)
  BY DEF Records, Progress!Idle, Sound
<1>3. attempt[a] \in Records /\ Sound(attempt[a], done)
  BY OfAttempt
<1>4. \/ payload' = None /\ dead' = dead /\ recorded' = recorded
      \/ /\ payload \in Envelopes /\ payload' \in Envelopes /\ payload'.state = payload.state
         /\ dead' = dead /\ recorded' = recorded
      \/ /\ payload' = None /\ dead' = dead \cup {attempt[a].envelope} /\ attempt[a].envelope \in Envelopes
         /\ recorded' = Progress!Cursor(attempt[a].envelope.state) /\ CoveredIn(attempt[a].envelope, done)
  <2>1. CASE Progress!Succeed(a)
    BY <2>1 DEF Progress!Succeed
  <2>2. CASE Progress!RetryIn(a)
    <3>1. payload \in Envelopes /\ payload' = [payload EXCEPT !.retries = payload.retries + 1]
      BY <2>2 DEF Progress!RetryIn, ProgressInv, ProgressTypes
    <3>2. payload' \in Envelopes /\ payload'.state = payload.state
      BY <3>1 DEF Envelopes, Progress!Envelopes
    <3> QED
      BY <2>2, <3>1, <3>2 DEF Progress!RetryIn
  <2>3. CASE Progress!RetryMissing(a)
    BY <2>3 DEF Progress!RetryMissing
  <2>4. CASE Progress!Kill(a)
    BY <1>3, <2>4 DEF Progress!Kill, Records, Sound
  <2> QED
    BY <2>1, <2>2, <2>3, <2>4
<1>5. ProgressTypes' /\ AllCovered'
  <2>1. /\ recorded' \in Nat /\ dead' \in SUBSET Envelopes /\ payload' \in Envelopes \cup {None}
    <3>1. attempt[a].envelope \in Envelopes => attempt[a].envelope.state \in States \cup {None}
      BY DEF Envelopes, Progress!Envelopes, States
    <3> QED
      BY <1>4, <3>1, CursorOf DEF ProgressInv, ProgressTypes
  <2>2. payload' # None => CoveredIn(payload', done')
    BY <1>1, <1>4 DEF ProgressInv, AllCovered, Covered, CoveredIn, PNames
  <2>3. \A d \in dead' : d \in dead \/ CoveredIn(d, done')
    BY <1>1, <1>4
  <2> QED
    BY <1>1, <1>2, <2>1, <2>2, <2>3, StaysCovered
<1>6. Alone'
  <2> SUFFICES ASSUME ~overlap PROVE Alone'
    BY <1>1 DEF Alone
  <2>1. \A b \in Attempts : attempt'[b] = IF b = a THEN Progress!Idle ELSE attempt[b]
    BY <1>1 DEF ProgressInv, ProgressTypes
  <2>2. /\ dead = {} /\ \A b \in Attempts : b # a => attempt[b].pc = "idle"
        /\ payload # None /\ Progress!Cursor(payload.state) = recorded
    BY <1>1 DEF ProgressInv, Alone
  <2>3. \A b \in Attempts : attempt'[b].pc = "idle"
    BY <1>2, <2>1, <2>2
  <2> QED
    BY <1>4, <2>2, <2>3 DEF Alone
<1>7. Progress!StartsWhereLeft'
  BY <1>1 DEF ProgressInv, Progress!StartsWhereLeft
<1> QED
  BY <1>5, <1>6, <1>7 DEF ProgressInv

(* Steps that no attempt takes: entries move, a dead job is revived.       *)
LEMMA ProgressRest ==
    ASSUME PNames, ProgressInv,
           Progress!LoadMissing \/ Progress!Promote \/ Progress!Revive \/ \E a \in Attempts : Progress!Sweep(a)
    PROVE  ProgressInv'
<1>1. UNCHANGED <<attempt, done, recorded, overlap, began>>
  BY DEF Progress!LoadMissing, Progress!Promote, Progress!Revive, Progress!Sweep
<1>2. \/ payload' = payload /\ dead' = dead
      \/ \E d \in dead : payload' = d /\ dead' = dead \ {d}
  BY DEF Progress!LoadMissing, Progress!Promote, Progress!Revive, Progress!Sweep
<1>3. ProgressTypes'
  BY <1>1, <1>2 DEF ProgressInv, ProgressTypes, Records, Envelopes, Progress!Envelopes,
     Progress!States, Progress!Forms
<1>4. AllCovered'
  <2>1. (payload' # None => Covered(payload')) /\ \A d \in dead' : Covered(d)
    BY <1>2 DEF ProgressInv, AllCovered
  <2>2. (payload' # None => CoveredIn(payload', done)) /\ \A d \in dead' : CoveredIn(d, done)
    BY <2>1 DEF Covered, CoveredIn
  <2>3. \A a \in Attempts : Sound(attempt[a], done)
    BY OfAttempt
  <2> QED
    BY <1>1, <2>2, <2>3 DEF AllCovered, Covered, CoveredIn, Sound
<1>5. Alone'
  <2> SUFFICES ASSUME ~overlap PROVE Alone'
    BY <1>1 DEF Alone
  <2>1. CASE payload' = payload /\ dead' = dead
    BY <1>1, <2>1 DEF ProgressInv, Alone
  <2>2. CASE \E d \in dead : payload' = d /\ dead' = dead \ {d}
    <3>1. PICK d \in dead : payload' = d /\ dead' = dead \ {d}
      BY <2>2
    <3>2. /\ dead' = {} /\ payload' # None /\ Progress!Cursor(payload'.state) = recorded
          /\ \A a \in Attempts : attempt[a].pc = "idle"
      BY <3>1 DEF ProgressInv, ProgressTypes, Alone, PNames
    <3> QED
      BY <1>1, <3>2 DEF Alone
  <2> QED
    BY <1>2, <2>1, <2>2
<1>6. Progress!StartsWhereLeft'
  BY <1>1 DEF ProgressInv, Progress!StartsWhereLeft
<1> QED
  BY <1>3, <1>4, <1>5, <1>6 DEF ProgressInv

(* Every step keeps the invariant.                                         *)
LEMMA ProgressStep == ASSUME PNames, ProgressInv, Progress!Next PROVE ProgressInv'
  BY ProgressLoad, ProgressStart, ProgressIterator, ProgressQuiet, ProgressMark, ProgressEnds,
     ProgressRest
  DEF Progress!Next, Progress!Step

(* A resumable job leaves no item out, however attempts overlap, and       *)
(* without overlap each attempt starts where the last one stopped          *)
(* (job_state.rs, context.rs).                                             *)
THEOREM ProgressIsSound == Spec => []ProgressSound
<1> DEFINE Inv == Resuming => ProgressInv
<1>1. Init => Inv
  BY ProgressConstants, ProgressInit DEF Init, Throttling, Scheduling, Resuming, Reporting
<1>2. Inv /\ [Next]_vars => Inv'
  <2> SUFFICES ASSUME Inv, [Next]_vars, Resuming'
               PROVE  ProgressInv'
    OBVIOUS
  <2>1. CASE Next
    BY <2>1, ProgressConstants, ProgressStep DEF Next, Throttling, Scheduling, Resuming, Reporting
  <2>2. CASE UNCHANGED vars
    <3>1. ProgressInv /\ UNCHANGED <<payload, dead, attempt, done, recorded, overlap, began>>
      BY <2>2 DEF vars, notFailures, ofProgress, Resuming
    <3>2. ProgressTypes'
      BY <3>1 DEF ProgressInv, ProgressTypes, Records, Envelopes, Progress!Envelopes,
         Progress!States, Progress!Forms
    <3>3. AllCovered'
      BY <3>1 DEF ProgressInv, AllCovered, Covered
    <3>4. Alone' /\ Progress!StartsWhereLeft'
      BY <3>1 DEF ProgressInv, Alone, Progress!StartsWhereLeft
    <3> QED
      BY <3>2, <3>3, <3>4 DEF ProgressInv
  <2> QED
    BY <2>1, <2>2
<1>3. Inv => ProgressSound
  BY ProgressImplied DEF ProgressSound
<1> QED
  BY <1>1, <1>2, <1>3, PTL DEF Spec

-----------------------------------------------------------------------------
LoopOf == [pc : {"off", "wait", "check", "enqueue", "stopped"}, next : Occurrences \cup {None},
           previous : Occurrences \cup {None}, observed : BOOLEAN, punctual : BOOLEAN]
JobOf == [occ : Occurrences, at : 0 .. MaxTime, place : {"schedule", "queue", "run"}]

(* What CronAssumption says, in the names of this module.                  *)
CRNames ==
    /\ Occurrences \subseteq 1 .. MaxTime /\ IsFiniteSet(Procs)
    /\ InitialOffset \in Nat /\ Lookahead \in Nat /\ MaxTime \in Nat /\ MaxErrors \in Nat
    /\ None \notin Nat /\ None \notin JobOf

(* The assumption gives these names, for either kind of job.               *)
LEMMA CronConstants == CRNames
<1>1. Cron(TRUE)!CronAssumption
  BY DispatchAssumption
<1>2. IsFiniteSet(Procs)
  BY <1>1 DEF Cron!CronAssumption, Cron!IsFiniteSet, IsFiniteSet
<1> QED
  BY <1>1, <1>2 DEF Cron!CronAssumption, CRNames, JobOf, Cron!CronJob, Cron!Times

(* A set of numbers has a smallest one.                                    *)
LEMMA HasSmallest ==
    ASSUME NEW S \in SUBSET Nat, S # {}
    PROVE  \E m \in S : \A k \in S : m <= k
<1>1. IsWellFoundedOn(OpToRel(<, Nat), Nat)
  BY NatLessThanWellFounded
<1>2. PICK m \in S : \A k \in S : ~(<<k, m>> \in OpToRel(<, Nat))
  BY <1>1, WFMin
<1>3. \A k \in S : ~(k < m)
  BY <1>2 DEF OpToRel
<1> QED
  BY <1>3

(* The processes whose loop has come past an occurrence.                   *)
Past(o) == {p \in Procs : loop[p].pc # "off" /\ (loop[p].next = None \/ loop[p].next > o)}

LoopKept ==
    /\ loop \in [Procs -> LoopOf]
    /\ \A p \in Procs : loop[p].pc \in {"wait", "check", "enqueue"} => loop[p].next # None
    /\ \A p \in Procs : loop[p].pc = "enqueue" /\ ~loop[p].punctual => loop[p].next \in late

JobsKept(u) ==
    /\ job \in [Cron(u)!CronIds -> JobOf \cup {None}]
    /\ \A i \in Cron(u)!CronIds : job[i] # None => job[i].occ <= job[i].at
    /\ Cron(u)!NeverEarly

WritesKept(u) ==
    /\ writes \in [Occurrences -> Nat]
    /\ \A o \in Occurrences : writes[o] <= Cardinality(Past(o))
    /\ \A o \in Occurrences :
          writes[o] >= 1 => \/ job[Cron(u)!IdOf(o)] # None /\ job[Cron(u)!IdOf(o)].occ = o
                            \/ clock >= o
    /\ Cron(u)!PunctualOnce

CronInv(u) ==
    /\ clock \in 0 .. MaxTime /\ late \in SUBSET Occurrences /\ errors \in 0 .. MaxErrors
    /\ LoopKept /\ JobsKept(u) /\ WritesKept(u)

(* There are at most as many processes past an occurrence as processes.    *)
LEMMA PastFinite ==
    ASSUME CRNames, NEW o
    PROVE  IsFiniteSet(Past(o)) /\ Cardinality(Past(o)) \in Nat /\ Cardinality(Procs) \in Nat
           /\ Cardinality(Past(o)) <= Cardinality(Procs)
<1>1. IsFiniteSet(Procs) /\ Past(o) \subseteq Procs
  BY DEF CRNames, Past
<1> QED
  BY <1>1, FS_Subset, FS_CardinalityType

(* The cardinality of the instance is the one of this module.              *)
LEMMA CronCard == ASSUME NEW u \in BOOLEAN PROVE \A S : Cron(u)!Cardinality(S) = Cardinality(S)
  BY DEF Cron!Cardinality, Cardinality

(* The invariant implies the property ...                                  *)
LEMMA CronImplied == ASSUME CRNames, NEW u \in BOOLEAN, CronInv(u) PROVE Cron(u)!CronSound
<1>1. writes \in [Occurrences -> 0 .. Cardinality(Procs)]
  <2>1. \A o \in Occurrences : writes[o] \in 0 .. Cardinality(Procs)
    BY PastFinite DEF CronInv, WritesKept
  <2> QED
    BY <2>1 DEF CronInv, WritesKept
<1>2. Cron(u)!TypeOK
  BY <1>1, CronCard DEF CronInv, LoopKept, JobsKept, LoopOf, JobOf, Cron!TypeOK, Cron!Times,
     Cron!CronJob, Cron!Loop
<1> QED
  BY <1>2 DEF CronInv, JobsKept, WritesKept, Cron!CronSound

(* ... and holds before any loop starts.                                   *)
LEMMA CronInit == ASSUME CRNames, NEW u \in BOOLEAN, Cron(u)!Init PROVE CronInv(u)
<1>1. LoopKept
  BY DEF Cron!Init, LoopKept, LoopOf
<1>2. JobsKept(u)
  BY DEF Cron!Init, JobsKept, Cron!NeverEarly
<1>3. WritesKept(u)
  BY PastFinite DEF Cron!Init, WritesKept, Cron!PunctualOnce
<1> QED
  BY <1>1, <1>2, <1>3 DEF CronInv, Cron!Init, CRNames

(* The occurrences are times.                                              *)
LEMMA OccurrenceTimes ==
    ASSUME CRNames
    PROVE  None \notin Occurrences /\ \A o \in Occurrences : o \in Nat /\ o \in 0 .. MaxTime
<1>1. Occurrences \subseteq 1 .. MaxTime /\ MaxTime \in Nat /\ None \notin Nat
  BY DEF CRNames
<1>2. ASSUME NEW o \in 1 .. MaxTime PROVE o \in Nat /\ o \in 0 .. MaxTime
  BY <1>1
<1> QED
  BY <1>1, <1>2, Zenon

(* The occurrence after a time, if there is one.                           *)
LEMMA NextOne ==
    ASSUME CRNames, NEW u \in BOOLEAN, NEW t \in Nat
    PROVE  Cron(u)!After(t) = None \/ (Cron(u)!After(t) \in Occurrences /\ Cron(u)!After(t) > t)
<1> DEFINE S == {o \in Occurrences : o > t}
<1>1. CASE S = {}
  BY <1>1 DEF Cron!After
<1>2. CASE S # {}
  <2>1. S \in SUBSET Nat
    BY OccurrenceTimes
  <2>2. Cron(u)!After(t) = Cron(u)!Min(S)
    BY <1>2 DEF Cron!After
  <2>3. Cron(u)!Min(S) \in S
    <3> HIDE DEF S
    <3>1. \E m \in S : \A k \in S : m <= k
      BY <1>2, <2>1, HasSmallest
    <3> QED
      BY <3>1 DEF Cron!Min
  <2> QED
    BY <2>2, <2>3
<1> QED
  BY <1>1, <1>2

(* A step of a loop to state r: it has not come off, has an occurrence     *)
(* while it runs, is late where it decided too late, and no earlier than   *)
(* before.                                                                 *)
LoopStep(p, r) ==
    /\ loop' = [loop EXCEPT ![p] = r]
    /\ r.pc # "off" /\ late \subseteq late'
    /\ r.pc \in {"wait", "check", "enqueue"} => r.next # None
    /\ r.pc = "enqueue" /\ ~r.punctual => r.next \in late'
    /\ loop[p].pc # "off" /\ loop[p].next # None =>
          (r.next = None \/ (r.next \in Nat /\ r.next >= loop[p].next))
    /\ loop[p].pc # "off" /\ loop[p].next = None => r.next = None

(* A step of a loop: what holds of the new state of the loop is enough for *)
(* all of them, and no process falls behind an occurrence.                 *)
LEMMA LoopMoves ==
    ASSUME CRNames, LoopKept, NEW p \in Procs, NEW r \in LoopOf, LoopStep(p, r)
    PROVE  /\ LoopKept'
           /\ \A o \in Occurrences :
                 /\ Past(o) \subseteq Past(o)' /\ IsFiniteSet(Past(o)')
                 /\ Cardinality(Past(o)') \in Nat /\ Cardinality(Past(o)') >= Cardinality(Past(o))
                 /\ p \notin Past(o) /\ p \in Past(o)' =>
                       Cardinality(Past(o)') >= Cardinality(Past(o)) + 1
<1>1. \A q \in Procs : loop'[q] = IF q = p THEN r ELSE loop[q]
  BY DEF LoopKept, LoopStep
<1>2. loop' \in [Procs -> LoopOf]
  BY DEF LoopKept, LoopStep
<1>3. LoopKept'
  BY <1>1, <1>2 DEF LoopKept, LoopOf, LoopStep
<1>4. ASSUME NEW o \in Occurrences
      PROVE  /\ Past(o) \subseteq Past(o)' /\ IsFiniteSet(Past(o)')
             /\ Cardinality(Past(o)') \in Nat /\ Cardinality(Past(o)') >= Cardinality(Past(o))
             /\ p \notin Past(o) /\ p \in Past(o)' =>
                   Cardinality(Past(o)') >= Cardinality(Past(o)) + 1
  <2>1. o \in Nat /\ \A q \in Procs : loop[q].next = None \/ loop[q].next \in Nat
    BY OccurrenceTimes DEF LoopKept, LoopOf
  <2>2. Past(o) \subseteq Past(o)'
    <3> SUFFICES ASSUME NEW q \in Past(o) PROVE q \in Past(o)'
      OBVIOUS
    <3>1. CASE q = p
      BY <1>1, <2>1, <3>1 DEF Past, LoopStep
    <3>2. CASE q # p
      BY <1>1, <3>2 DEF Past
    <3> QED
      BY <3>1, <3>2
  <2>3. IsFiniteSet(Past(o)') /\ Cardinality(Past(o)') \in Nat
    <3>1. IsFiniteSet(Procs) /\ Past(o)' \subseteq Procs
      BY DEF CRNames, Past
    <3> QED
      BY <3>1, FS_Subset, FS_CardinalityType
  <2>4. IsFiniteSet(Past(o)) /\ Cardinality(Past(o)) \in Nat
    BY PastFinite
  <2>5. Cardinality(Past(o)') >= Cardinality(Past(o))
    BY <2>2, <2>3, <2>4, FS_Subset
  <2>6. ASSUME p \notin Past(o), p \in Past(o)'
        PROVE  Cardinality(Past(o)') >= Cardinality(Past(o)) + 1
    <3> DEFINE U == Past(o) \cup {p}
    <3>1. IsFiniteSet(U) /\ Cardinality(U) = Cardinality(Past(o)) + 1
      BY <2>4, <2>6, FS_AddElement
    <3>2. U \subseteq Past(o)'
      BY <2>2, <2>6
    <3>3. Cardinality(U) <= Cardinality(Past(o)')
      BY <2>3, <3>2, FS_Subset
    <3> HIDE DEF U
    <3> QED
      BY <2>3, <2>4, <3>1, <3>3
  <2> QED
    BY <2>2, <2>3, <2>5, <2>6
<1> QED
  BY <1>3, <1>4

(* The steps of a loop that write nothing.                                 *)
LEMMA CronQuiet ==
    ASSUME CRNames, NEW u \in BOOLEAN, CronInv(u), NEW p \in Procs, NEW r \in LoopOf,
           LoopStep(p, r), UNCHANGED <<clock, job, writes>>,
           late' \in SUBSET Occurrences, errors' \in 0 .. MaxErrors
    PROVE  CronInv(u)'
<1>1. LoopKept
  BY DEF CronInv
<1>2. /\ LoopKept'
      /\ \A o \in Occurrences : Cardinality(Past(o)') \in Nat /\ Cardinality(Past(o)') >= Cardinality(Past(o))
  BY <1>1, LoopMoves
<1>3. JobsKept(u)'
  BY DEF CronInv, JobsKept, JobOf, Cron!NeverEarly, Cron!CronIds, Cron!IdOf
<1>4. WritesKept(u)'
  <2>1. \A o \in Occurrences : writes'[o] <= Cardinality(Past(o)')
    BY <1>2, PastFinite DEF CronInv, WritesKept
  <2>2. Cron(u)!PunctualOnce'
    BY DEF CronInv, WritesKept, LoopStep, Cron!PunctualOnce
  <2>3. \A o \in Occurrences :
          writes'[o] >= 1 => \/ job'[Cron(u)!IdOf(o)] # None /\ job'[Cron(u)!IdOf(o)].occ = o
                             \/ clock' >= o
    BY DEF CronInv, WritesKept
  <2> QED
    BY <2>1, <2>2, <2>3 DEF CronInv, WritesKept, Cron!IdOf
<1> QED
  BY <1>2, <1>3, <1>4 DEF CronInv

(* A step that keeps the occurrence of the loop.                           *)
LEMMA SameOccurrence ==
    ASSUME NEW p, NEW r, loop' = [loop EXCEPT ![p] = r], r.pc # "off", late \subseteq late',
           r.next = loop[p].next, loop[p].next \in Nat, loop[p].next # None,
           r.pc = "enqueue" => (r.punctual \/ r.next \in late')
    PROVE  LoopStep(p, r)
<1>1. r.next \in Nat /\ r.next >= loop[p].next /\ r.next # None
  OBVIOUS
<1> QED
  BY <1>1, Zenon DEF LoopStep

(* The loop goes on to the occurrence after its own, or ends.              *)
LEMMA GoesOn ==
    ASSUME CRNames, NEW u \in BOOLEAN, NEW l \in LoopOf, l.next # None
    PROVE  LET r == Cron(u)!Advanced(l)
           IN  /\ r \in LoopOf /\ r.pc \in {"wait", "stopped"} /\ (r.pc = "wait" => r.next # None)
               /\ r.next = None \/ (r.next \in Nat /\ r.next > l.next)
<1>1. l.next \in Occurrences /\ l.next \in Nat
  BY OccurrenceTimes DEF LoopOf
<1> DEFINE n == Cron(u)!After(l.next)
<1>2. n = None \/ (n \in Occurrences /\ n > l.next /\ n \in Nat)
  BY <1>1, NextOne, OccurrenceTimes
<1>3. Cron(u)!Advanced(l) = [pc |-> IF n = None THEN "stopped" ELSE "wait", next |-> n, previous |-> l.next,
                             observed |-> FALSE, punctual |-> FALSE]
  BY DEF Cron!Advanced
<1> HIDE DEF n
<1> QED
  BY <1>1, <1>2, <1>3 DEF LoopOf

(* A loop starts at an occurrence that is still to come.                   *)
LEMMA CronStart ==
    ASSUME CRNames, NEW u \in BOOLEAN, CronInv(u), NEW p \in Procs, Cron(u)!Start(p)
    PROVE  CronInv(u)'
<1> DEFINE n == Cron(u)!After(clock + InitialOffset)
           r == [pc |-> IF n = None THEN "stopped" ELSE "wait", next |-> n, previous |-> None,
                 observed |-> FALSE, punctual |-> FALSE]
<1>1. /\ loop' = [loop EXCEPT ![p] = r] /\ loop[p].pc = "off"
      /\ UNCHANGED <<clock, job, writes, late, errors>>
  BY DEF Cron!Start, Cron!At
<1>2. n = None \/ n \in Occurrences
  <2>1. clock + InitialOffset \in Nat
    BY DEF CRNames, CronInv
  <2> QED
    BY <2>1, NextOne
<1> HIDE DEF n
<1>3. r \in LoopOf /\ r.pc \in {"wait", "stopped"} /\ (r.pc = "wait" => r.next # None)
  BY <1>2 DEF LoopOf
<1> HIDE DEF r
<1>4. late' \in SUBSET Occurrences /\ errors' \in 0 .. MaxErrors /\ late \subseteq late'
  BY <1>1 DEF CronInv
<1>5. LoopStep(p, r)
  BY <1>1, <1>3, <1>4 DEF LoopStep
<1> QED
  BY <1>1, <1>3, <1>4, <1>5, CronQuiet

(* A cancelled loop keeps its occurrence.                                  *)
LEMMA CronCancel ==
    ASSUME CRNames, NEW u \in BOOLEAN, CronInv(u), NEW p \in Procs, Cron(u)!Cancel(p)
    PROVE  CronInv(u)'
<1> DEFINE r == [loop[p] EXCEPT !.pc = "stopped"]
<1>1. loop' = [loop EXCEPT ![p] = r] /\ UNCHANGED <<clock, job, writes, late, errors>>
  BY DEF Cron!Cancel
<1>2. loop[p] \in LoopOf /\ (loop[p].next # None => loop[p].next \in Nat)
  BY OccurrenceTimes DEF CronInv, LoopKept, LoopOf
<1>3. r \in LoopOf /\ r.pc = "stopped" /\ r.next = loop[p].next
  BY <1>2 DEF LoopOf
<1> HIDE DEF r
<1>4. late' \in SUBSET Occurrences /\ errors' \in 0 .. MaxErrors /\ late \subseteq late'
  BY <1>1 DEF CronInv
<1>5. LoopStep(p, r)
  BY <1>1, <1>2, <1>3, <1>4 DEF LoopStep
<1> QED
  BY <1>1, <1>3, <1>4, <1>5, CronQuiet

(* A tolerated error changes no loop.                                      *)
LEMMA CronRetry ==
    ASSUME CRNames, NEW u \in BOOLEAN, CronInv(u), NEW p \in Procs, Cron(u)!Retry(p)
    PROVE  CronInv(u)'
<1>1. /\ loop' = [loop EXCEPT ![p] = loop[p]] /\ UNCHANGED <<clock, job, writes, late>>
      /\ loop[p].pc \in {"check", "enqueue"} /\ errors' = errors + 1 /\ errors < MaxErrors
  BY DEF Cron!Retry, CronInv, LoopKept
<1>2. loop[p] \in LoopOf /\ loop[p].next \in Nat /\ (loop[p].pc = "enqueue" /\ ~loop[p].punctual => loop[p].next \in late)
  BY <1>1, OccurrenceTimes DEF CronInv, LoopKept, LoopOf
<1>3. late' \in SUBSET Occurrences /\ errors' \in 0 .. MaxErrors /\ late \subseteq late'
  BY <1>1 DEF CronInv, CRNames
<1>5. LoopStep(p, loop[p])
  BY <1>1, <1>2, <1>3, SameOccurrence DEF CRNames
<1> QED
  BY <1>1, <1>2, <1>3, <1>5, CronQuiet

(* A loop that decides after the time of its occurrence is recorded as     *)
(* late.                                                                   *)
LEMMA CronApproach ==
    ASSUME CRNames, NEW u \in BOOLEAN, CronInv(u), NEW p \in Procs, Cron(u)!Approach(p)
    PROVE  CronInv(u)'
<1> DEFINE c == IF u THEN "check" ELSE "enqueue"
           t == clock < loop[p].next
           r == [loop[p] EXCEPT !.pc = c, !.observed = FALSE, !.punctual = t]
<1>1. /\ loop' = [loop EXCEPT ![p] = r] /\ loop[p].pc = "wait"
      /\ late' = IF u THEN late ELSE late \cup Cron(u)!Lateness(p)
      /\ UNCHANGED <<clock, job, writes, errors>>
  BY DEF Cron!Approach, Cron!At
<1>2. loop[p] \in LoopOf /\ loop[p].next \in Occurrences /\ loop[p].next \in Nat
  BY <1>1, OccurrenceTimes DEF CronInv, LoopKept, LoopOf
<1>3. c \in {"check", "enqueue"} /\ t \in BOOLEAN /\ (c = "enqueue" => u = FALSE)
  OBVIOUS
<1>4. c = "enqueue" /\ ~t => loop[p].next \in late'
  <2>1. clock \in Nat
    BY DEF CronInv
  <2> QED
    BY <1>1, <1>2, <1>3, <2>1 DEF Cron!Lateness
<1>5. late' \in SUBSET Occurrences /\ errors' \in 0 .. MaxErrors /\ late \subseteq late'
  BY <1>1, <1>2 DEF CronInv, Cron!Lateness
<1> HIDE DEF c, t
<1>6. r \in LoopOf /\ r.pc = c /\ r.next = loop[p].next /\ r.punctual = t
  BY <1>2, <1>3 DEF LoopOf
<1> HIDE DEF r
<1>7. r.pc # "off" /\ (r.pc = "enqueue" /\ ~r.punctual => r.next \in late')
  BY <1>3, <1>4, <1>6
<1>8. LoopStep(p, r)
  BY <1>1, <1>2, <1>5, <1>6, <1>7, SameOccurrence DEF CRNames
<1> QED
  BY <1>1, <1>5, <1>6, <1>8, CronQuiet

(* A unique job that was seen is waited for or skipped; otherwise the loop *)
(* decides to enqueue, in time or recorded as late.                        *)
LEMMA CronCheck ==
    ASSUME CRNames, NEW u \in BOOLEAN, CronInv(u), NEW p \in Procs, Cron(u)!Check(p)
    PROVE  CronInv(u)'
<1> DEFINE existing == job[Cron(u)!IdOf(loop[p].next)] # None
           action == Cron(u)!UniqueCronAction(existing, loop[p].observed, loop[p].next)
<1>1. /\ loop[p].pc = "check" /\ UNCHANGED <<clock, job, writes, errors>>
      /\ loop' = [loop EXCEPT ![p] =
                CASE action = "skip"    -> Cron(u)!Advanced(loop[p])
                  [] action = "wait"    -> [loop[p] EXCEPT !.observed = loop[p].observed \/ existing]
                  [] action = "enqueue" -> [loop[p] EXCEPT !.pc = "enqueue", !.punctual = clock < loop[p].next]]
      /\ late' = IF action = "enqueue" /\ ~loop[p].observed THEN late \cup Cron(u)!Lateness(p) ELSE late
  BY DEF Cron!Check, Cron!At
<1>2. loop[p] \in LoopOf /\ loop[p].next \in Occurrences /\ loop[p].next \in Nat /\ loop[p].next # None
  BY <1>1, OccurrenceTimes DEF CronInv, LoopKept, LoopOf
<1>3. /\ action \in {"skip", "wait", "enqueue"}
      /\ action = "enqueue" /\ clock >= loop[p].next => ~loop[p].observed
  BY DEF Cron!UniqueCronAction
<1>4. existing \in BOOLEAN /\ loop[p].observed \in BOOLEAN
  BY <1>2 DEF LoopOf
<1> HIDE DEF existing, action
<1>5. late' \in SUBSET Occurrences /\ errors' \in 0 .. MaxErrors /\ late \subseteq late'
  BY <1>1, <1>2 DEF CronInv, Cron!Lateness
<1>6. CASE action = "skip"
  <2> DEFINE r == Cron(u)!Advanced(loop[p])
  <2>1. loop' = [loop EXCEPT ![p] = r]
    BY <1>1, <1>6
  <2>2. /\ r \in LoopOf /\ r.pc \in {"wait", "stopped"} /\ (r.pc = "wait" => r.next # None)
        /\ r.next = None \/ (r.next \in Nat /\ r.next > loop[p].next)
    BY <1>2, GoesOn
  <2> HIDE DEF r
  <2>3. loop[p].next # None => r.next = None \/ (r.next \in Nat /\ r.next >= loop[p].next)
    BY <1>2, <2>2
  <2>9. LoopStep(p, r)
    BY <1>1, <1>2, <1>5, <2>1, <2>2, <2>3 DEF LoopStep
  <2> QED
    BY <1>1, <1>5, <2>2, <2>9, CronQuiet
<1>7. CASE action = "wait"
  <2> DEFINE s == loop[p].observed \/ existing
             r == [loop[p] EXCEPT !.observed = s]
  <2>1. loop' = [loop EXCEPT ![p] = r]
    BY <1>1, <1>7
  <2>2. s \in BOOLEAN
    BY <1>4
  <2> HIDE DEF s
  <2>3. r \in LoopOf /\ r.pc = "check" /\ r.next = loop[p].next
    BY <1>1, <1>2, <2>2 DEF LoopOf
  <2> HIDE DEF r
  <2>9. LoopStep(p, r)
    BY <1>2, <1>5, <2>1, <2>3, SameOccurrence
  <2> QED
    BY <1>1, <1>5, <2>3, <2>9, CronQuiet
<1>8. CASE action = "enqueue"
  <2> DEFINE t == clock < loop[p].next
             r == [loop[p] EXCEPT !.pc = "enqueue", !.punctual = t]
  <2>1. loop' = [loop EXCEPT ![p] = r]
    BY <1>1, <1>8
  <2>2. t \in BOOLEAN
    OBVIOUS
  <2>3. ~t => loop[p].next \in late'
    <3>1. clock \in Nat
      BY DEF CronInv
    <3> QED
      BY <1>1, <1>2, <1>3, <1>8, <3>1 DEF Cron!Lateness
  <2> HIDE DEF t
  <2>4. r \in LoopOf /\ r.pc = "enqueue" /\ r.next = loop[p].next /\ r.punctual = t
    BY <1>2, <2>2 DEF LoopOf
  <2> HIDE DEF r
  <2>5. ~r.punctual => r.next \in late'
    BY <2>3, <2>4
  <2>9. LoopStep(p, r)
    BY <1>2, <1>5, <2>1, <2>4, <2>5, SameOccurrence
  <2> QED
    BY <1>1, <1>5, <2>4, <2>9, CronQuiet
<1> QED
  BY <1>3, <1>6, <1>7, <1>8

(* The life of a job and the clock.                                        *)
LEMMA CronJobs ==
    ASSUME CRNames, NEW u \in BOOLEAN, CronInv(u),
           \E i \in Cron(u)!CronIds : Cron(u)!Promote(i) \/ Cron(u)!Run(i) \/ Cron(u)!Finish(i)
    PROVE  CronInv(u)'
<1>1. PICK i \in Cron(u)!CronIds : Cron(u)!Promote(i) \/ Cron(u)!Run(i) \/ Cron(u)!Finish(i)
  OBVIOUS
<1>2. UNCHANGED <<clock, loop, writes, late, errors>>
  BY <1>1 DEF Cron!Promote, Cron!Run, Cron!Finish
<1>3. job[i] \in JobOf /\ job[i].occ \in Nat /\ job[i].at \in Nat /\ clock \in Nat
      /\ job[i].occ <= job[i].at /\ (job[i].place # "schedule" => job[i].occ <= clock)
  BY <1>1, OccurrenceTimes DEF Cron!Promote, Cron!Run, Cron!Finish, CronInv, JobsKept, JobOf,
     Cron!NeverEarly
<1>4. /\ job[i].occ <= clock
      /\ \E v \in JobOf \cup {None} : /\ job' = [job EXCEPT ![i] = v]
                                      /\ v # None => v.occ = job[i].occ /\ v.at = job[i].at
  <2>1. CASE Cron(u)!Promote(i)
    <3> DEFINE v == [job[i] EXCEPT !.place = "queue"]
    <3>1. job' = [job EXCEPT ![i] = v] /\ job[i].at <= clock
      BY <2>1 DEF Cron!Promote
    <3>2. v \in JobOf /\ v.occ = job[i].occ /\ v.at = job[i].at
      BY <1>3 DEF JobOf
    <3>3. job[i].occ <= clock
      BY <1>3, <3>1
    <3> HIDE DEF v
    <3> QED
      BY <3>1, <3>2, <3>3
  <2>2. CASE Cron(u)!Run(i)
    <3> DEFINE v == [job[i] EXCEPT !.place = "run"]
    <3>1. job' = [job EXCEPT ![i] = v] /\ job[i].place = "queue"
      BY <2>2 DEF Cron!Run
    <3>2. v \in JobOf /\ v.occ = job[i].occ /\ v.at = job[i].at
      BY <1>3 DEF JobOf
    <3> QED
      BY <1>3, <3>1, <3>2
  <2>3. CASE Cron(u)!Finish(i)
    BY <1>3, <2>3 DEF Cron!Finish
  <2> QED
    BY <1>1, <2>1, <2>2, <2>3
<1>5. PICK v \in JobOf \cup {None} : /\ job' = [job EXCEPT ![i] = v]
                                     /\ v # None => v.occ = job[i].occ /\ v.at = job[i].at
  BY <1>4
<1>6. \A k \in Cron(u)!CronIds : job'[k] = IF k = i THEN v ELSE job[k]
  BY <1>5 DEF CronInv, JobsKept
<1>7. JobsKept(u)'
  <2>1. job' \in [Cron(u)!CronIds -> JobOf \cup {None}]
    BY <1>5 DEF CronInv, JobsKept
  <2>2. \A k \in Cron(u)!CronIds : job'[k] # None => job'[k].occ <= job'[k].at
    BY <1>3, <1>5, <1>6 DEF CronInv, JobsKept
  <2>3. \A k \in Cron(u)!CronIds : job'[k] # None /\ job'[k].place # "schedule" => job'[k].occ <= clock
    BY <1>4, <1>5, <1>6 DEF CronInv, JobsKept, Cron!NeverEarly
  <2> QED
    BY <1>2, <2>1, <2>2, <2>3 DEF JobsKept, JobOf, Cron!NeverEarly, Cron!CronIds, Cron!IdOf
<1>8. WritesKept(u)'
  <2>1. \A o \in Occurrences :
          writes[o] >= 1 => \/ job'[Cron(u)!IdOf(o)] # None /\ job'[Cron(u)!IdOf(o)].occ = o
                            \/ clock >= o
    <3> SUFFICES ASSUME NEW o \in Occurrences, writes[o] >= 1
                 PROVE  (job'[Cron(u)!IdOf(o)] # None /\ job'[Cron(u)!IdOf(o)].occ = o) \/ clock >= o
      OBVIOUS
    <3>1. Cron(u)!IdOf(o) \in Cron(u)!CronIds
      BY DEF Cron!CronIds
    <3>2. (job[Cron(u)!IdOf(o)] # None /\ job[Cron(u)!IdOf(o)].occ = o) \/ clock >= o
      BY DEF CronInv, WritesKept
    <3> QED
      BY <1>3, <1>4, <1>6, <3>1, <3>2
  <2>2. \A o \in Occurrences : Past(o)' = Past(o)
    BY <1>2 DEF Past
  <2>3. Cron(u)!PunctualOnce'
    BY <1>2 DEF CronInv, WritesKept, Cron!PunctualOnce
  <2> QED
    BY <1>2, <2>1, <2>2, <2>3 DEF CronInv, WritesKept, Cron!IdOf
<1> QED
  BY <1>2, <1>7, <1>8 DEF CronInv, LoopKept, LoopOf

(* Time passes: what had come stays so.                                    *)
LEMMA CronTick == ASSUME CRNames, NEW u \in BOOLEAN, CronInv(u), Cron(u)!Tick PROVE CronInv(u)'
<1>1. /\ clock' = clock + 1 /\ clock \in Nat /\ clock' \in 0 .. MaxTime
      /\ UNCHANGED <<job, loop, writes, late, errors>>
  BY DEF Cron!Tick, CronInv, CRNames
<1>2. JobsKept(u)'
  <2>1. \A k \in Cron(u)!CronIds : job[k] # None => job[k].occ \in Nat
    BY OccurrenceTimes DEF CronInv, JobsKept, JobOf
  <2>2. \A k \in Cron(u)!CronIds : job[k] # None /\ job[k].place # "schedule" => job[k].occ <= clock'
    BY <1>1, <2>1 DEF CronInv, JobsKept, Cron!NeverEarly
  <2> QED
    BY <1>1, <2>2 DEF CronInv, JobsKept, JobOf, Cron!NeverEarly, Cron!CronIds, Cron!IdOf
<1>3. WritesKept(u)'
  <2>1. \A o \in Occurrences :
          writes[o] >= 1 => \/ job[Cron(u)!IdOf(o)] # None /\ job[Cron(u)!IdOf(o)].occ = o
                            \/ clock' >= o
    BY <1>1, OccurrenceTimes DEF CronInv, WritesKept
  <2>2. \A o \in Occurrences : Past(o)' = Past(o)
    BY <1>1 DEF Past
  <2>3. Cron(u)!PunctualOnce'
    BY <1>1 DEF CronInv, WritesKept, Cron!PunctualOnce
  <2> QED
    BY <1>1, <2>1, <2>2, <2>3 DEF CronInv, WritesKept, Cron!IdOf
<1> QED
  BY <1>1, <1>2, <1>3 DEF CronInv, LoopKept, LoopOf

(* An occurrence is written: by then its time has not come, or some        *)
(* process is known to have been late.                                     *)
LEMMA CronEnqueue ==
    ASSUME CRNames, NEW u \in BOOLEAN, CronInv(u), NEW p \in Procs, Cron(u)!Enqueue(p),
           NEW o, o = loop[p].next
    PROVE  CronInv(u)'
<1> DEFINE at == Cron(u)!Max({o, clock})
           i == Cron(u)!IdOf(o)
           v == [occ |-> o, at |-> at, place |-> Cron(u)!EnqueuePlace(at)]
           r == Cron(u)!Advanced(loop[p])
<1>1. /\ loop[p].pc = "enqueue" /\ UNCHANGED <<clock, errors>>
      /\ IF job[i] # None THEN UNCHANGED <<job, writes>>
         ELSE job' = [job EXCEPT ![i] = v] /\ writes' = [writes EXCEPT ![o] = writes[o] + 1]
      /\ late' = IF loop[p].punctual THEN late \cup Cron(u)!Lateness(p) ELSE late
      /\ loop' = [loop EXCEPT ![p] = r]
  BY DEF Cron!Enqueue, Cron!At
<1>2. loop[p] \in LoopOf /\ o \in Occurrences /\ o \in Nat /\ o # None /\ o <= MaxTime
  BY <1>1, OccurrenceTimes DEF CronInv, LoopKept, LoopOf
<1>3. clock \in Nat /\ clock <= MaxTime
  BY DEF CronInv, CRNames
<1>4. at = IF o >= clock THEN o ELSE clock
  <2> DEFINE m == IF o >= clock THEN o ELSE clock
  <2>1. m \in {o, clock} /\ \A y \in {o, clock} : m >= y
    BY <1>2, <1>3
  <2>2. \A x \in {o, clock} : (\A y \in {o, clock} : x >= y) => x = m
    BY <1>2, <1>3
  <2> QED
    BY <2>1, <2>2 DEF Cron!Max
<1>5. i \in Cron(u)!CronIds
  BY <1>2 DEF Cron!CronIds
<1>6. clock >= o => o \in late'
  <2>1. ~loop[p].punctual => o \in late
    BY <1>1 DEF CronInv, LoopKept
  <2> QED
    BY <1>1, <1>2, <1>3, <2>1 DEF Cron!Lateness
<1>7. /\ r \in LoopOf /\ r.pc \in {"wait", "stopped"} /\ (r.pc = "wait" => r.next # None)
      /\ r.next = None \/ (r.next \in Nat /\ r.next > o)
  BY <1>2, GoesOn
<1>8. late' \in SUBSET Occurrences /\ late \subseteq late'
  BY <1>1, <1>2 DEF CronInv, Cron!Lateness
<1>9. /\ v \in JobOf /\ v.occ = o /\ v.occ <= v.at /\ v # None
      /\ v.place # "schedule" => v.occ <= clock
  <2>1. at \in 0 .. MaxTime /\ o <= at /\ (at <= clock => o <= clock)
    BY <1>2, <1>3, <1>4 DEF CRNames
  <2>2. Cron(u)!EnqueuePlace(at) \in {"schedule", "queue"} /\ (Cron(u)!EnqueuePlace(at) # "schedule" => at <= clock)
    BY DEF Cron!EnqueuePlace
  <2> HIDE DEF at
  <2>3. v \in JobOf /\ v.occ = o /\ v.at = at /\ v.place = Cron(u)!EnqueuePlace(at)
    BY <1>2, <2>1, <2>2 DEF JobOf
  <2>4. v # None
    BY <2>3 DEF CRNames
  <2> QED
    BY <2>1, <2>2, <2>3, <2>4
<1> HIDE DEF v, r, at, i
<1>10. LoopKept
  BY DEF CronInv
<1>11. /\ LoopKept'
       /\ \A k \in Occurrences :
             /\ Cardinality(Past(k)') \in Nat /\ Cardinality(Past(k)') >= Cardinality(Past(k))
             /\ p \notin Past(k) /\ p \in Past(k)' => Cardinality(Past(k)') >= Cardinality(Past(k)) + 1
  <2>1. loop[p].next # None => r.next = None \/ (r.next \in Nat /\ r.next >= loop[p].next)
    BY <1>2, <1>7
  <2>2. r.pc # "off" /\ r.pc # "enqueue"
    BY <1>7
  <2>9. LoopStep(p, r)
    BY <1>1, <1>2, <1>7, <1>8, <2>1, <2>2 DEF LoopStep
  <2> QED
    BY <1>7, <1>10, <2>9, LoopMoves
<1>12. p \notin Past(o) /\ p \in Past(o)'
  <2>1. loop'[p] = r
    BY <1>1, <1>10 DEF LoopKept
  <2>2. loop'[p].pc # "off" /\ (loop'[p].next = None \/ loop'[p].next > o)
    BY <1>7, <2>1
  <2>3. p \in Past(o)'
    BY <2>2 DEF Past
  <2>4. ~(loop[p].next = None \/ loop[p].next > o)
    BY <1>2
  <2>5. p \notin Past(o)
    BY <2>4 DEF Past
  <2> QED
    BY <2>3, <2>5
<1>13. CASE job[i] # None
  <2>1. UNCHANGED <<clock, job, writes, errors>>
    BY <1>1, <1>13
  <2>2. JobsKept(u)'
    BY <2>1 DEF CronInv, JobsKept, JobOf, Cron!NeverEarly, Cron!CronIds, Cron!IdOf
  <2>3. WritesKept(u)'
    <3>1. \A k \in Occurrences : writes'[k] <= Cardinality(Past(k)')
      BY <1>11, <2>1, PastFinite DEF CronInv, WritesKept
    <3>2. Cron(u)!PunctualOnce'
      BY <1>8, <2>1 DEF CronInv, WritesKept, Cron!PunctualOnce
    <3> QED
      BY <2>1, <3>1, <3>2 DEF CronInv, WritesKept, Cron!IdOf
  <2> QED
    BY <1>8, <1>11, <2>1, <2>2, <2>3 DEF CronInv
<1>14. CASE job[i] = None
  <2>1. job' = [job EXCEPT ![i] = v] /\ writes' = [writes EXCEPT ![o] = writes[o] + 1] /\ UNCHANGED <<clock, errors>>
    BY <1>1, <1>14
  <2>2. \A k \in Cron(u)!CronIds : job'[k] = IF k = i THEN v ELSE job[k]
    BY <2>1 DEF CronInv, JobsKept
  <2>3. JobsKept(u)'
    <3>1. job' \in [Cron(u)!CronIds -> JobOf \cup {None}]
      BY <1>9, <2>1 DEF CronInv, JobsKept
    <3>2. \A k \in Cron(u)!CronIds : job'[k] # None => job'[k].occ <= job'[k].at
      BY <1>9, <2>2 DEF CronInv, JobsKept
    <3>3. \A k \in Cron(u)!CronIds : job'[k] # None /\ job'[k].place # "schedule" => job'[k].occ <= clock
      BY <1>9, <2>2 DEF CronInv, JobsKept, Cron!NeverEarly
    <3> QED
      BY <2>1, <3>1, <3>2, <3>3 DEF JobsKept, JobOf, Cron!NeverEarly, Cron!CronIds, Cron!IdOf
  <2>4. writes \in [Occurrences -> Nat] /\ writes' \in [Occurrences -> Nat]
        /\ \A k \in Occurrences : writes'[k] = IF k = o THEN writes[k] + 1 ELSE writes[k]
    BY <1>2, <2>1 DEF CronInv, WritesKept
  <2>5. \A k \in Occurrences : writes'[k] <= Cardinality(Past(k)')
    <3> SUFFICES ASSUME NEW k \in Occurrences PROVE writes'[k] <= Cardinality(Past(k)')
      OBVIOUS
    <3>1. writes[k] <= Cardinality(Past(k)) /\ Cardinality(Past(k)) \in Nat /\ writes[k] \in Nat
      BY <2>4, PastFinite DEF CronInv, WritesKept
    <3>2. CASE k = o
      <4>1. Cardinality(Past(k)') >= Cardinality(Past(k)) + 1 /\ Cardinality(Past(k)') \in Nat
        <5>1. p \notin Past(k) /\ p \in Past(k)'
          BY <1>12, <3>2
        <5> QED
          BY <1>11, <5>1
      <4> QED
        BY <2>4, <3>1, <3>2, <4>1
    <3>3. CASE k # o
      <4>1. Cardinality(Past(k)') >= Cardinality(Past(k)) /\ Cardinality(Past(k)') \in Nat
        BY <1>11
      <4> QED
        BY <2>4, <3>1, <3>3, <4>1
    <3> QED
      BY <3>2, <3>3
  <2>6. \A k \in Occurrences : writes[k] >= 1 /\ Cron(u)!IdOf(k) = i => clock >= k
    BY <1>14 DEF CronInv, WritesKept
  <2>7. \A k \in Occurrences :
          writes'[k] >= 1 => \/ job'[Cron(u)!IdOf(k)] # None /\ job'[Cron(u)!IdOf(k)].occ = k
                             \/ clock >= k
    <3> SUFFICES ASSUME NEW k \in Occurrences, writes'[k] >= 1
                 PROVE  (job'[Cron(u)!IdOf(k)] # None /\ job'[Cron(u)!IdOf(k)].occ = k) \/ clock >= k
      OBVIOUS
    <3>1. Cron(u)!IdOf(k) \in Cron(u)!CronIds
      BY DEF Cron!CronIds
    <3>2. CASE k = o
      BY <1>5, <1>9, <2>2, <3>2 DEF i
    <3>3. CASE k # o /\ Cron(u)!IdOf(k) = i
      BY <2>4, <2>6, <3>3
    <3>4. CASE k # o /\ Cron(u)!IdOf(k) # i
      BY <2>2, <2>4, <3>1, <3>4 DEF CronInv, WritesKept
    <3> QED
      BY <3>2, <3>3, <3>4
  <2>8. Cron(u)!PunctualOnce'
    <3> SUFFICES ASSUME NEW k \in Occurrences \ late' PROVE writes'[k] <= 1
      BY DEF Cron!PunctualOnce
    <3>1. writes[k] <= 1 /\ writes[k] \in Nat
      BY <1>8, <2>4 DEF CronInv, WritesKept, Cron!PunctualOnce
    <3>2. CASE k = o
      <4>1. ~(writes[k] >= 1)
        BY <1>6, <2>6, <3>2 DEF i
      <4> QED
        BY <2>4, <3>1, <3>2, <4>1
    <3>3. CASE k # o
      BY <2>4, <3>1, <3>3
    <3> QED
      BY <3>2, <3>3
  <2>9. WritesKept(u)'
    BY <2>1, <2>4, <2>5, <2>7, <2>8 DEF WritesKept, Cron!IdOf
  <2> QED
    BY <1>8, <1>11, <2>1, <2>3, <2>9 DEF CronInv
<1> QED
  BY <1>13, <1>14

(* Every step keeps the invariant.                                         *)
LEMMA CronStep == ASSUME CRNames, NEW u \in BOOLEAN, CronInv(u), Cron(u)!Next PROVE CronInv(u)'
<1>1. ASSUME NEW p \in Procs, Cron(u)!Enqueue(p) PROVE CronInv(u)'
  <2>1. \E o : o = loop[p].next
    OBVIOUS
  <2> QED
    BY <1>1, <2>1, CronEnqueue
<1> QED
  BY <1>1, CronStart, CronCancel, CronRetry, CronApproach, CronCheck, CronJobs, CronTick
  DEF Cron!Next, Cron!Step

(* However many processes run the loop of a cron job, unique or not, an    *)
(* occurrence that all of them looked at and wrote in time is enqueued     *)
(* once, and none starts before its time (coordinator.rs, cron_job_loop).  *)
THEOREM CronIsSound == Spec => []CronSound
<1> DEFINE Inv == \A u \in BOOLEAN : Scheduling(u) => CronInv(u)
<1>1. Init => Inv
  <2> SUFFICES ASSUME Init, NEW u \in BOOLEAN, Scheduling(u) PROVE CronInv(u)
    OBVIOUS
  <2>1. Cron(u)!Init
    BY DEF Init, Throttling, Scheduling, Resuming, Reporting
  <2> QED
    BY <2>1, CronConstants, CronInit
<1>2. Inv /\ [Next]_vars => Inv'
  <2> SUFFICES ASSUME Inv, [Next]_vars, NEW u \in BOOLEAN, Scheduling(u)'
               PROVE  CronInv(u)'
    BY DEF Scheduling
  <2>1. CASE Next
    <3>1. Scheduling(u) /\ Cron(u)!Next
      BY <2>1 DEF Next, Throttling, Scheduling, Resuming, Reporting
    <3> QED
      BY <3>1, CronConstants, CronStep
  <2>2. CASE UNCHANGED vars
    <3>1. CronInv(u) /\ UNCHANGED <<clock, job, loop, writes, late, errors>>
      BY <2>2 DEF vars, notFailures, ofCron, Scheduling
    <3>2. LoopKept' /\ JobsKept(u)'
      BY <3>1 DEF CronInv, LoopKept, LoopOf, JobsKept, JobOf, Cron!NeverEarly, Cron!CronIds,
         Cron!IdOf
    <3>3. \A o \in Occurrences : Past(o)' = Past(o)
      BY <3>1 DEF Past
    <3>4. WritesKept(u)'
      BY <3>1, <3>3 DEF CronInv, WritesKept, Cron!IdOf, Cron!PunctualOnce
    <3> QED
      BY <3>1, <3>2, <3>4 DEF CronInv
  <2> QED
    BY <2>1, <2>2
<1>3. Inv => CronSound
  BY CronConstants, CronImplied DEF CronSound
<1> QED
  BY <1>1, <1>2, <1>3, PTL DEF Spec

-----------------------------------------------------------------------------
(* The throttler.                                                          *)
Ages == 0 .. Window - 1
MaxCost == Throttler!Max(Costs)
LongestWait == Throttler!Max({FallbackWait, 2 * Window})
DispOf == [pc : {"check", "claim", "cost", "consume", "add", "sleep", "failed"}, wait : 0 .. LongestWait,
           cost : Costs \cup {0}, age : 0 .. Window, throttled : BOOLEAN, added : 0 .. Limit]

(* What ThrottlerAssumption says, in the names of this module.             *)
THNames ==
    /\ Dispatchers # {} /\ IsFiniteSet(Dispatchers)
    /\ Limit \in Nat /\ Window \in Nat \ {0} /\ FallbackWait \in Nat \ {0}
    /\ Costs \subseteq Nat /\ IsFiniteSet(Costs) /\ 1 \in Costs
    /\ MaxJobs \in Nat /\ MaxErrors \in Nat

(* A finite set of numbers has a largest one.                              *)
LEMMA HasLargest ==
    ASSUME NEW S \in SUBSET Nat, S # {}, IsFiniteSet(S)
    PROVE  \E m \in S : \A k \in S : m >= k
<1> DEFINE C == {U \in SUBSET S : U # {} /\ ~\E m \in U : \A k \in U : m >= k}
<1>1. ASSUME C # {} PROVE FALSE
  <2>1. PICK U \in C : \A x \in U : U \ {x} \notin C
    BY <1>1, LeastSubset
  <2>2. PICK x \in U : TRUE
    BY <2>1
  <2>3. CASE U \ {x} = {}
    BY <2>1, <2>3
  <2>4. CASE U \ {x} # {}
    <3>1. PICK m \in U \ {x} : \A k \in U \ {x} : m >= k
      BY <2>1, <2>4
    <3>2. CASE m >= x
      BY <2>1, <3>1, <3>2
    <3>3. CASE ~(m >= x)
      <4>1. \A k \in U : x >= k
        BY <2>1, <3>1, <3>3
      <4> QED
        BY <2>1, <4>1
    <3> QED
      BY <3>2, <3>3
  <2> QED
    BY <2>3, <2>4
<1> QED
  BY <1>1

(* Max finds it.                                                           *)
LEMMA Largest ==
    ASSUME NEW S \in SUBSET Nat, S # {}, IsFiniteSet(S)
    PROVE  Throttler!Max(S) \in S /\ \A k \in S : Throttler!Max(S) >= k
<1>1. \E m \in S : \A k \in S : m >= k
  BY HasLargest
<1> QED
  BY <1>1 DEF Throttler!Max

(* The assumption gives these names, the dearest job costs at least one,   *)
(* and the longest wait covers both kinds of sleep.                        *)
LEMMA ThrottlerConstants ==
    /\ THNames
    /\ MaxCost \in Nat \ {0} /\ \A c \in Costs \cup {0} : c \in Nat /\ c <= MaxCost
    /\ LongestWait \in Nat /\ FallbackWait <= LongestWait /\ 2 * Window <= LongestWait
    /\ IsFiniteSet(Ages) /\ Ages \subseteq Nat
<1>1. THNames
  <2>1. Throttler!ThrottlerAssumption
    BY DispatchAssumption
  <2>2. \A S : Throttler!IsFiniteSet(S) = IsFiniteSet(S)
    BY DEF Throttler!IsFiniteSet, IsFiniteSet
  <2> QED
    BY <2>1, <2>2 DEF Throttler!ThrottlerAssumption, THNames
<1>2. MaxCost \in Costs /\ \A k \in Costs : MaxCost >= k
  BY <1>1, Largest DEF THNames, MaxCost
<1>3. MaxCost \in Nat \ {0} /\ \A c \in Costs \cup {0} : c \in Nat /\ c <= MaxCost
  BY <1>1, <1>2 DEF THNames
<1>4. LongestWait \in Nat /\ FallbackWait <= LongestWait /\ 2 * Window <= LongestWait
  <2> DEFINE S == {FallbackWait, 2 * Window}
  <2>1. S \in SUBSET Nat /\ S # {}
    BY <1>1 DEF THNames
  <2>2. IsFiniteSet(S)
    <3>1. S = {FallbackWait} \cup {2 * Window}
      OBVIOUS
    <3>2. IsFiniteSet({FallbackWait})
      BY FS_Singleton
    <3>3. IsFiniteSet({FallbackWait} \cup {2 * Window})
      BY <3>2, FS_AddElement, Zenon
    <3> QED
      BY <3>1, <3>3, Zenon
  <2>3. LongestWait \in S /\ \A k \in S : LongestWait >= k
    <3> HIDE DEF S
    <3>1. Throttler!Max(S) \in S /\ \A k \in S : Throttler!Max(S) >= k
      BY <2>1, <2>2, Largest
    <3> QED
      BY <3>1 DEF S, LongestWait
  <2>4. FallbackWait \in Nat /\ 2 * Window \in Nat
    BY <2>1
  <2> QED
    BY <2>3, <2>4
<1>5. IsFiniteSet(Ages) /\ Ages \subseteq Nat
  BY <1>1, FS_Interval DEF THNames, Ages
<1> QED
  BY <1>1, <1>3, <1>4, <1>5

(* A sum over the ages, and the entries that live for w more milliseconds. *)
Sum(f) == Cardinality(Units(f, Ages))
Alive(f, w) == [a \in Ages |-> IF a + w < Window THEN f[a] ELSE 0]

(* The sum over the ages is a number.                                      *)
LEMMA SumType == ASSUME THNames, NEW f \in [Ages -> Nat] PROVE Sum(f) \in Nat
  BY ThrottlerConstants, UnitsFinite DEF Sum

(* Requests is that sum.                                                   *)
LEMMA RequestsSum ==
    ASSUME entries \in [Ages -> Nat]
    PROVE  Throttler!Requests = Sum(entries)
<1> DEFINE F(f) == f = [T \in SUBSET Ages |-> IF T = {} THEN 0 ELSE entries[Pick(T)] + f[T \ {Pick(T)}]]
<1>1. IsFiniteSet(Ages)
  BY ThrottlerConstants
<1>2. Throttler!Requests = (CHOOSE f : F(f))[Ages]
  BY DEF Throttler!Requests, Throttler!MapThenSumSet, Throttler!MapThenFoldSet, Pick,
     Throttler!Ages, Ages
<1>3. \A f : F(f) => SumsUp(f, entries, Ages)
  BY DEF SumsUp
<1>4. \E f : F(f)
  <2> DEFINE u == [T \in SUBSET Ages |-> Cardinality(Units(entries, T))]
  <2>1. \A T \in SUBSET Ages : u[T] = IF T = {} THEN 0 ELSE entries[Pick(T)] + u[T \ {Pick(T)}]
    BY <1>1, SumExists
  <2>2. F(u)
    BY <2>1
  <2> QED
    BY <2>2
<1>5. F(CHOOSE f : F(f))
  BY <1>4
<1> QED
  BY <1>1, <1>2, <1>3, <1>5, SumUnique DEF Sum

(* Growing older, entries do not become more.                              *)
LEMMA SumShift ==
    ASSUME THNames, NEW g \in [Ages -> Nat], NEW h \in [Ages -> Nat],
           \A a \in Ages : h[a] = 0 \/ (a > 0 /\ h[a] <= g[a - 1])
    PROVE  Sum(h) <= Sum(g)
<1> DEFINE S == Units(h, Ages)
           T == Units(g, Ages)
           f == [u \in S |-> <<u[1] - 1, u[2]>>]
<1>1. IsFiniteSet(T)
  BY ThrottlerConstants, UnitsFinite
<1>2. \A u \in S : u = <<u[1], u[2]>> /\ u[1] \in Ages /\ u[1] \in Nat /\ u[2] \in Nat /\ u[2] < h[u[1]]
  <2> SUFFICES ASSUME NEW u \in S
               PROVE  u = <<u[1], u[2]>> /\ u[1] \in Ages /\ u[1] \in Nat /\ u[2] \in Nat /\ u[2] < h[u[1]]
    OBVIOUS
  <2>1. u \in Ages \X Nat /\ u[2] < h[u[1]]
    BY DEF Units
  <2>2. PICK a \in Ages, n \in Nat : u = <<a, n>>
    BY <2>1
  <2>3. a \in Nat
    BY ThrottlerConstants
  <2> QED
    BY <2>1, <2>2, <2>3
<1>3. \A u \in S : f[u] \in T
  <2> SUFFICES ASSUME NEW u \in S PROVE f[u] \in T
    OBVIOUS
  <2>1. u[1] > 0 /\ h[u[1]] <= g[u[1] - 1] /\ h[u[1]] \in Nat
    BY <1>2
  <2>2. u[1] - 1 \in Ages
    BY <1>2, <2>1 DEF Ages, THNames
  <2>3. u[2] < g[u[1] - 1]
    BY <1>2, <2>1, <2>2
  <2>4. <<u[1] - 1, u[2]>> \in Ages \X Nat
    BY <1>2, <2>2
  <2> QED
    BY <2>3, <2>4 DEF Units
<1>4. ASSUME NEW u \in S, NEW v \in S, f[u] = f[v] PROVE u = v
  <2>1. u[1] - 1 = v[1] - 1 /\ u[2] = v[2]
    BY <1>4
  <2>2. u[1] = v[1]
    BY <1>2, <2>1
  <2> QED
    BY <1>2, <2>1, <2>2
<1> HIDE DEF T, S
<1>5. f \in Injection(S, T)
  BY <1>3, <1>4 DEF Injection, IsInjective
<1>6. Cardinality(S) <= Cardinality(T)
  BY <1>1, <1>5, FS_Injection
<1> QED
  BY <1>6 DEF S, T, Sum

-----------------------------------------------------------------------------
(* The dispatchers at one of the points P.                                 *)
AtPoint(P) == {d \in Dispatchers : disp[d].pc \in P}

THTypes ==
    /\ entries \in [Ages -> Nat] /\ disp \in [Dispatchers -> DispOf]
    /\ backlog \in Nat /\ pushed \in 0 .. MaxJobs /\ recorded \in Nat /\ unrecorded \in Nat
    /\ errors \in 0 .. MaxErrors

(* Every job pushed is on the queue, with a dispatcher, or counted.        *)
JobsCounted ==
    recorded + unrecorded + backlog + Cardinality(AtPoint({"cost", "consume", "add"})) <= pushed

(* What is recorded, and what those about to record may add.               *)
BudgetKept ==
    Sum(entries) + Cardinality(AtPoint({"add"})) * MaxCost
      <= Limit + Cardinality(Dispatchers) * MaxCost - 1

(* While the budget is used up, all between check and consume will be      *)
(* refused: the last record has overtaken them.                            *)
Overtaken == IF Sum(entries) < Limit THEN 0 ELSE Cardinality(AtPoint({"claim", "cost", "consume"}))
RefusalsKept == unrecorded + Overtaken <= (Cardinality(Dispatchers) - 1) * recorded

(* What is left of the window at the end of a sleep was recorded since it  *)
(* began.                                                                  *)
SleepOK(r, f) ==
    r.throttled => /\ r.pc \in {"check", "sleep"} /\ (r.pc = "check" => r.wait = 0)
                   /\ r.added < Limit => Sum(Alive(f, r.wait)) <= r.added
SleepKept == \A d \in Dispatchers : SleepOK(disp[d], entries)

THInv == THTypes /\ JobsCounted /\ BudgetKept /\ RefusalsKept /\ SleepKept

(* There are at most as many dispatchers at a point as dispatchers.        *)
LEMMA PointsFinite ==
    ASSUME NEW P
    PROVE  /\ IsFiniteSet(AtPoint(P)) /\ Cardinality(AtPoint(P)) \in Nat
           /\ Cardinality(Dispatchers) \in Nat \ {0}
           /\ Cardinality(AtPoint(P)) <= Cardinality(Dispatchers)
<1>1. IsFiniteSet(Dispatchers) /\ Dispatchers # {} /\ AtPoint(P) \subseteq Dispatchers
  BY ThrottlerConstants DEF THNames, AtPoint
<1>2. Cardinality(Dispatchers) # 0
  BY <1>1, FS_EmptySet
<1> QED
  BY <1>1, <1>2, FS_Subset, FS_CardinalityType

(* There is at least one dispatcher.                                       *)
LEMMA Crowd == Cardinality(Dispatchers) \in Nat \ {0} /\ Cardinality(Dispatchers) - 1 \in Nat
<1>1. Cardinality(Dispatchers) \in Nat \ {0}
  BY PointsFinite
<1> QED
  BY <1>1

(* One dispatcher moves.                                                   *)
LEMMA OneMoves ==
    ASSUME NEW P, NEW d \in Dispatchers, \A e \in Dispatchers \ {d} : disp'[e].pc = disp[e].pc
    PROVE  /\ Cardinality(AtPoint(P)') \in Nat /\ Cardinality(AtPoint(P)) \in Nat
           /\ disp'[d].pc \in P /\ disp[d].pc \notin P =>
                 Cardinality(AtPoint(P)') = Cardinality(AtPoint(P)) + 1
           /\ disp'[d].pc \notin P /\ disp[d].pc \in P =>
                 Cardinality(AtPoint(P)) = Cardinality(AtPoint(P)') + 1
           /\ (disp'[d].pc \in P <=> disp[d].pc \in P) =>
                 Cardinality(AtPoint(P)') = Cardinality(AtPoint(P))
<1> DEFINE S == AtPoint(P)
           T == AtPoint(P)'
<1>1. IsFiniteSet(S) /\ Cardinality(S) \in Nat
  BY PointsFinite
<1>2. IsFiniteSet(T) /\ Cardinality(T) \in Nat
  <2>1. IsFiniteSet(Dispatchers) /\ T \subseteq Dispatchers
    BY ThrottlerConstants DEF THNames, AtPoint
  <2> QED
    BY <2>1, FS_Subset, FS_CardinalityType
<1>3. ASSUME disp'[d].pc \in P, disp[d].pc \notin P PROVE Cardinality(T) = Cardinality(S) + 1
  <2>1. T = S \cup {d} /\ d \notin S
    BY <1>3 DEF AtPoint
  <2> QED
    BY <1>1, <2>1, FS_AddElement
<1>4. ASSUME disp'[d].pc \notin P, disp[d].pc \in P PROVE Cardinality(S) = Cardinality(T) + 1
  <2>1. S = T \cup {d} /\ d \notin T
    BY <1>4 DEF AtPoint
  <2> QED
    BY <1>2, <2>1, FS_AddElement
<1>5. ASSUME disp'[d].pc \in P <=> disp[d].pc \in P PROVE Cardinality(T) = Cardinality(S)
  <2>1. T = S
    BY <1>5 DEF AtPoint
  <2> QED
    BY <2>1
<1> QED
  BY <1>1, <1>2, <1>3, <1>4, <1>5

(* The invariant holds at first ...                                        *)
LEMMA ThrottleInit == ASSUME Throttler!Init PROVE THInv
<1>1. THTypes
  BY ThrottlerConstants DEF THTypes, THNames, Throttler!Init, Throttler!Ready, DispOf,
     Throttler!Ages, Ages
<1>2. Sum(entries) = 0
  BY <1>1, SumOfZeros DEF THTypes, Sum, Throttler!Init, Throttler!Ages, Ages
<1>3. \A P : "check" \notin P => Cardinality(AtPoint(P)) = 0
  <2> SUFFICES ASSUME NEW P, "check" \notin P PROVE Cardinality(AtPoint(P)) = 0
    OBVIOUS
  <2>1. AtPoint(P) = {}
    BY DEF AtPoint, Throttler!Init, Throttler!Ready
  <2> QED
    BY <2>1, FS_EmptySet
<1>4. JobsCounted
  BY <1>3 DEF JobsCounted, Throttler!Init
<1>5. BudgetKept
  <2> DEFINE n == Cardinality(Dispatchers)
  <2>1. n \in Nat \ {0} /\ MaxCost \in Nat \ {0} /\ Limit \in Nat
    BY PointsFinite, ThrottlerConstants DEF THNames
  <2>2. Cardinality(AtPoint({"add"})) = 0
    BY <1>3
  <2> HIDE DEF n
  <2>3. n * MaxCost >= 1 /\ n * MaxCost \in Nat
    BY <2>1
  <2> QED
    BY <1>2, <2>1, <2>2, <2>3 DEF BudgetKept, n
<1>6. RefusalsKept
  <2>1. Overtaken = 0
    BY <1>3 DEF Overtaken
  <2>2. (Cardinality(Dispatchers) - 1) * 0 = 0
    BY PointsFinite
  <2> QED
    BY <2>1, <2>2 DEF RefusalsKept, Throttler!Init
<1>7. SleepKept
  BY DEF SleepKept, SleepOK, Throttler!Init, Throttler!Ready
<1> QED
  BY <1>1, <1>4, <1>5, <1>6, <1>7 DEF THInv

(* ... and implies the property.                                           *)
LEMMA ThrottleImplied == ASSUME THInv PROVE Throttler!ThrottleSound
<1>1. Throttler!TypeOK
  <2>1. {backlog, pushed, recorded, unrecorded} \subseteq 0 .. MaxJobs
    BY PointsFinite, ThrottlerConstants DEF THInv, THTypes, JobsCounted, THNames
  <2> QED
    BY <2>1 DEF THInv, THTypes, DispOf, Throttler!TypeOK, Throttler!Points, Throttler!Ages, Ages,
       LongestWait
<1>2. \A S : Throttler!Cardinality(S) = Cardinality(S)
  BY DEF Throttler!Cardinality, Cardinality
<1>3. Throttler!Requests = Sum(entries) /\ Sum(entries) \in Nat
  BY RequestsSum, SumType, ThrottlerConstants DEF THInv, THTypes
<1>4. Throttler!WindowBudget
  <2> DEFINE k == Cardinality(AtPoint({"add"})) * MaxCost
             n == Cardinality(Dispatchers) * MaxCost
  <2>1. k \in Nat /\ n \in Nat /\ Limit \in Nat
    BY PointsFinite, ThrottlerConstants DEF THNames
  <2>2. Sum(entries) + k <= Limit + n - 1
    BY DEF THInv, BudgetKept
  <2> HIDE DEF k, n
  <2>3. Sum(entries) <= Limit + n - 1
    BY <1>3, <2>1, <2>2
  <2> QED
    BY <1>2, <1>3, <2>3 DEF Throttler!WindowBudget, n, MaxCost
<1>5. Throttler!RefusalsExplained
  <2>1. Overtaken \in Nat /\ unrecorded \in Nat
    BY PointsFinite DEF Overtaken, THInv, THTypes
  <2> DEFINE m == (Cardinality(Dispatchers) - 1) * recorded
  <2>2. m \in Nat
    <3>1. Cardinality(Dispatchers) - 1 \in Nat /\ recorded \in Nat
      BY PointsFinite DEF THInv, THTypes
    <3>2. \A a, b \in Nat : a * b \in Nat
      OBVIOUS
    <3> QED
      BY <3>1, <3>2
  <2>3. unrecorded + Overtaken <= m
    BY DEF THInv, RefusalsKept
  <2> HIDE DEF m
  <2>4. unrecorded <= m
    BY <2>1, <2>2, <2>3
  <2> QED
    BY <1>2, <2>4 DEF Throttler!RefusalsExplained, m
<1> QED
  BY <1>1, <1>4, <1>5 DEF Throttler!ThrottleSound

-----------------------------------------------------------------------------
(* More factors, a larger product.                                         *)
LEMMA Products ==
    ASSUME NEW a \in Nat, NEW b \in Nat, NEW c \in Nat
    PROVE  /\ a * c \in Nat /\ a <= b => a * c <= b * c
           /\ (a + 1) * c = a * c + c /\ a * (c + 1) = a * c + a
<1>1. a * c \in Nat /\ (a + 1) * c = a * c + c /\ a * (c + 1) = a * c + a
  OBVIOUS
<1>2. ASSUME a <= b PROVE a * c <= b * c
  <2>1. PICK n \in Nat : b = a + n
    <3>1. b - a \in Nat /\ b = a + (b - a)
      BY <1>2
    <3> QED
      BY <3>1
  <2>2. b * c = a * c + n * c /\ n * c \in Nat
    BY <2>1
  <2> QED
    BY <1>1, <2>2
<1> QED
  BY <1>1, <1>2

(* A step that records nothing and lets nobody on to record.               *)
LEMMA BudgetStays ==
    ASSUME THInv, entries' \in [Ages -> Nat], Sum(entries') <= Sum(entries),
           Cardinality(AtPoint({"add"})') \in Nat,
           Cardinality(AtPoint({"add"})') <= Cardinality(AtPoint({"add"}))
    PROVE  BudgetKept'
<1> DEFINE j == Cardinality(AtPoint({"add"})')
           k == Cardinality(AtPoint({"add"}))
           n == Cardinality(Dispatchers)
           x == Sum(entries)
           y == Sum(entries')
<1>1. j \in Nat /\ k \in Nat /\ n \in Nat /\ MaxCost \in Nat /\ Limit \in Nat /\ x \in Nat /\ y \in Nat
  BY PointsFinite, ThrottlerConstants, SumType DEF THNames, THInv, THTypes
<1>2. x + k * MaxCost <= Limit + n * MaxCost - 1 /\ y <= x /\ j <= k
  BY DEF THInv, BudgetKept
<1> HIDE DEF j, k, n, x, y
<1>3. j * MaxCost <= k * MaxCost /\ j * MaxCost \in Nat /\ k * MaxCost \in Nat /\ n * MaxCost \in Nat
  BY <1>1, <1>2, Products
<1> DEFINE jm == j * MaxCost
           km == k * MaxCost
           nm == n * MaxCost
<1>4. x + km <= Limit + nm - 1 /\ jm <= km /\ jm \in Nat /\ km \in Nat /\ nm \in Nat
  BY <1>2, <1>3
<1> HIDE DEF jm, km, nm
<1>5. y + jm <= Limit + nm - 1
  BY <1>1, <1>2, <1>4
<1> QED
  BY <1>5 DEF BudgetKept, jm, nm, j, n, y

(* A step that records nothing: a refusal takes one of the overtaken.      *)
LEMMA RefusalsStay ==
    ASSUME THInv, entries' \in [Ages -> Nat], Sum(entries') <= Sum(entries),
           recorded' = recorded, unrecorded' \in Nat,
           Sum(entries) < Limit => unrecorded' = unrecorded,
           Cardinality(AtPoint({"claim", "cost", "consume"})') \in Nat,
           ~(Sum(entries) < Limit) =>
              unrecorded' + Cardinality(AtPoint({"claim", "cost", "consume"})')
              <= unrecorded + Cardinality(AtPoint({"claim", "cost", "consume"}))
    PROVE  RefusalsKept'
<1> DEFINE j == Cardinality(AtPoint({"claim", "cost", "consume"})')
           k == Cardinality(AtPoint({"claim", "cost", "consume"}))
           m == (Cardinality(Dispatchers) - 1) * recorded
           x == Sum(entries)
           y == Sum(entries')
<1>1. j \in Nat /\ k \in Nat /\ Limit \in Nat /\ x \in Nat /\ y \in Nat /\ unrecorded \in Nat
  BY PointsFinite, ThrottlerConstants, SumType DEF THNames, THInv, THTypes
<1>2. m \in Nat
  <2>1. Cardinality(Dispatchers) - 1 \in Nat /\ recorded \in Nat
    BY Crowd DEF THInv, THTypes
  <2> QED
    BY <2>1, Products
<1>3. unrecorded + (IF x < Limit THEN 0 ELSE k) <= m
  BY DEF THInv, RefusalsKept, Overtaken
<1>4. /\ y <= x /\ (x < Limit => unrecorded' = unrecorded)
      /\ ~(x < Limit) => unrecorded' + j <= unrecorded + k
  OBVIOUS
<1> HIDE DEF j, k, m, x, y
<1>5. unrecorded' + (IF y < Limit THEN 0 ELSE j) <= m
  <2>1. CASE x < Limit
    <3>1. y < Limit /\ unrecorded' <= m
      BY <1>1, <1>2, <1>3, <1>4, <2>1
    <3> QED
      BY <3>1
  <2>2. CASE ~(x < Limit)
    <3>1. unrecorded + k <= m /\ unrecorded' + j <= unrecorded + k /\ unrecorded' \in Nat
      BY <1>3, <1>4, <2>2
    <3>2. \A a, b, c, e, n \in Nat : a + b <= n /\ c + e <= a + b => (c + e <= n /\ c + 0 <= n)
      OBVIOUS
    <3>3. unrecorded' + j <= m /\ unrecorded' + 0 <= m
      BY <1>1, <1>2, <3>1, <3>2
    <3> QED
      BY <3>3
  <2> QED
    BY <2>1, <2>2
<1>6. UNCHANGED recorded
  OBVIOUS
<1> QED
  BY <1>5, <1>6 DEF RefusalsKept, Overtaken, m, j, y

(* A dispatcher moves, and the entries stay.                               *)
LEMMA DispatcherMoves ==
    ASSUME THInv, NEW d \in Dispatchers, NEW r \in DispOf, disp' = [disp EXCEPT ![d] = r],
           SleepOK(r, entries), UNCHANGED entries
    PROVE  /\ disp' \in [Dispatchers -> DispOf] /\ SleepKept'
           /\ disp'[d] = r /\ \A e \in Dispatchers \ {d} : disp'[e] = disp[e]
<1>1. /\ disp' \in [Dispatchers -> DispOf]
      /\ disp'[d] = r /\ \A e \in Dispatchers \ {d} : disp'[e] = disp[e]
  BY DEF THInv, THTypes
<1>2. SleepKept'
  <2> SUFFICES ASSUME NEW e \in Dispatchers PROVE SleepOK(disp'[e], entries')
    BY DEF SleepKept
  <2>1. CASE e = d
    BY <1>1, <2>1
  <2>2. CASE e # d
    BY <1>1, <2>2 DEF THInv, SleepKept
  <2> QED
    BY <2>1, <2>2
<1> QED
  BY <1>1, <1>2

(* A push adds a job to the queue and to the jobs pushed.                  *)
LEMMA ThrottlePush == ASSUME THInv, Throttler!Push PROVE THInv'
<1>1. UNCHANGED <<entries, disp, recorded, unrecorded, errors>> /\ pushed' = pushed + 1 /\ backlog' = backlog + 1 /\ pushed < MaxJobs
  BY DEF Throttler!Push
<1>2. \A P : AtPoint(P)' = AtPoint(P)
  BY <1>1 DEF AtPoint
<1>3. THTypes'
  BY <1>1, ThrottlerConstants DEF THInv, THTypes, THNames
<1>4. JobsCounted'
  BY <1>1, <1>2, PointsFinite DEF THInv, THTypes, JobsCounted
<1>5. BudgetKept' /\ RefusalsKept'
  BY <1>1, <1>2 DEF THInv, BudgetKept, RefusalsKept, Overtaken
<1>6. SleepKept'
  BY <1>1 DEF THInv, SleepKept
<1> QED
  BY <1>3, <1>4, <1>5, <1>6 DEF THInv

(* Only a consume is refused, and only when the budget is used up: then    *)
(* nobody comes past the check.                                            *)
Refused(d, r) ==
    /\ Sum(entries) < Limit => unrecorded' = unrecorded
    /\ ~(Sum(entries) < Limit) =>
          \/ /\ unrecorded' = unrecorded
             /\ r.pc \in {"claim", "cost", "consume"} => disp[d].pc \in {"claim", "cost", "consume"}
          \/ /\ unrecorded' = unrecorded + 1 /\ disp[d].pc = "consume"
             /\ r.pc \notin {"claim", "cost", "consume"}

(* A dispatcher has a job by claiming it, and gives it up by a refusal.    *)
Handled(d, r) ==
    \/ /\ unrecorded' = unrecorded /\ backlog' = backlog
       /\ r.pc \in {"cost", "consume", "add"} => disp[d].pc \in {"cost", "consume", "add"}
    \/ /\ unrecorded' = unrecorded + 1 /\ backlog' = backlog /\ disp[d].pc = "consume"
       /\ r.pc \notin {"cost", "consume", "add"}
    \/ /\ unrecorded' = unrecorded /\ backlog = backlog' + 1
       /\ disp[d].pc = "claim" /\ r.pc = "cost"

(* A move that lets no dispatcher on to record: what is left to show.      *)
LEMMA QuietMove ==
    ASSUME THInv, NEW d \in Dispatchers, NEW r \in DispOf, disp' = [disp EXCEPT ![d] = r],
           SleepOK(r, entries), UNCHANGED <<entries, pushed, recorded>>,
           unrecorded' \in Nat, errors' \in 0 .. MaxErrors, backlog' \in Nat,
           r.pc \notin {"add"} \/ disp[d].pc \in {"add"},
           Refused(d, r), Handled(d, r)
    PROVE  THInv'
<1>1. /\ disp' \in [Dispatchers -> DispOf] /\ SleepKept'
      /\ disp'[d] = r /\ \A e \in Dispatchers \ {d} : disp'[e] = disp[e]
  BY DispatcherMoves
<1>2. \A e \in Dispatchers \ {d} : disp'[e].pc = disp[e].pc
  BY <1>1
<1>3. entries \in [Ages -> Nat] /\ Sum(entries) \in Nat /\ Sum(entries') <= Sum(entries) /\ unrecorded \in Nat
      /\ recorded \in Nat /\ backlog \in Nat /\ pushed \in Nat
  BY ThrottlerConstants, SumType DEF THInv, THTypes
<1>4. THTypes'
  BY <1>1 DEF THInv, THTypes
<1>5. JobsCounted'
  <2> DEFINE P == {"cost", "consume", "add"}
             j == Cardinality(AtPoint(P)')
             k == Cardinality(AtPoint(P))
  <2>1. /\ j \in Nat /\ k \in Nat
        /\ r.pc \in P /\ disp[d].pc \notin P => j = k + 1
        /\ r.pc \notin P /\ disp[d].pc \in P => k = j + 1
        /\ (r.pc \in P <=> disp[d].pc \in P) => j = k
    BY <1>1, <1>2, OneMoves
  <2>2. recorded + unrecorded + backlog + k <= pushed
    BY DEF THInv, JobsCounted
  <2>3. \/ unrecorded' = unrecorded /\ backlog' = backlog /\ j <= k
        \/ unrecorded' = unrecorded + 1 /\ backlog' = backlog /\ k = j + 1
        \/ unrecorded' = unrecorded /\ backlog = backlog' + 1 /\ j = k + 1
    BY <2>1 DEF Handled
  <2> HIDE DEF j, k
  <2>4. recorded + unrecorded' + backlog' + j <= pushed
    <3>1. unrecorded' \in Nat /\ backlog' \in Nat
      OBVIOUS
    <3>2. CASE unrecorded' = unrecorded /\ backlog' = backlog /\ j <= k
      BY <1>3, <2>1, <2>2, <3>2
    <3>3. CASE unrecorded' = unrecorded + 1 /\ backlog' = backlog /\ k = j + 1
      BY <1>3, <2>1, <2>2, <3>3
    <3>4. CASE unrecorded' = unrecorded /\ backlog = backlog' + 1 /\ j = k + 1
      <4>1. \A a, b, c, e, n \in Nat : a + b + (c + 1) + e <= n => a + b + c + (e + 1) <= n
        OBVIOUS
      <4>2. recorded + unrecorded' + (backlog' + 1) + k <= pushed
        BY <2>2, <3>4
      <4>3. recorded + unrecorded' + backlog' + (k + 1) <= pushed
        BY <1>3, <2>1, <3>1, <4>1, <4>2
      <4> QED
        BY <3>4, <4>3
    <3> QED
      BY <2>3, <3>2, <3>3, <3>4
  <2> QED
    BY <2>4 DEF JobsCounted, j
<1>6. BudgetKept'
  <2>1. /\ Cardinality(AtPoint({"add"})') \in Nat
        /\ Cardinality(AtPoint({"add"})') <= Cardinality(AtPoint({"add"}))
    BY <1>1, <1>2, OneMoves
  <2> QED
    BY <1>3, <2>1, BudgetStays
<1>7. RefusalsKept'
  <2> DEFINE P == {"claim", "cost", "consume"}
             j == Cardinality(AtPoint(P)')
             k == Cardinality(AtPoint(P))
  <2>1. /\ j \in Nat /\ k \in Nat
        /\ r.pc \in P /\ disp[d].pc \notin P => j = k + 1
        /\ r.pc \notin P /\ disp[d].pc \in P => k = j + 1
        /\ (r.pc \in P <=> disp[d].pc \in P) => j = k
    BY <1>1, <1>2, OneMoves
  <2>2. ~(Sum(entries) < Limit) => unrecorded' + j <= unrecorded + k
    <3> SUFFICES ASSUME ~(Sum(entries) < Limit) PROVE unrecorded' + j <= unrecorded + k
      OBVIOUS
    <3>1. CASE unrecorded' = unrecorded /\ (r.pc \in P => disp[d].pc \in P)
      <4>1. j <= k
        BY <2>1, <3>1
      <4> QED
        BY <1>3, <2>1, <3>1, <4>1
    <3>2. CASE unrecorded' = unrecorded + 1 /\ disp[d].pc = "consume" /\ r.pc \notin P
      <4>1. k = j + 1
        BY <2>1, <3>2
      <4> QED
        BY <1>3, <2>1, <3>2, <4>1
    <3> QED
      BY <3>1, <3>2 DEF Refused
  <2>3. Sum(entries) < Limit => unrecorded' = unrecorded
    BY DEF Refused
  <2> QED
    BY <1>3, <2>1, <2>2, <2>3, RefusalsStay
<1> QED
  BY <1>1, <1>4, <1>5, <1>6, <1>7 DEF THInv

(* A dispatcher at the start of a pop.                                     *)
LEMMA ReadyFields ==
    LET R == Throttler!Ready IN
    /\ R \in DispOf /\ R.pc = "check" /\ R.wait = 0 /\ R.cost = 0 /\ R.age = 0
    /\ R.throttled = FALSE /\ R.added = 0
  BY ThrottlerConstants DEF Throttler!Ready, DispOf, THNames

(* Entries of a window that is over by then do not live on.                *)
LEMMA NothingLives ==
    ASSUME entries \in [Ages -> Nat], NEW w \in Nat, w >= Window
    PROVE  Sum(Alive(entries, w)) = 0
<1>1. \A a \in Ages : ~(a + w < Window)
  BY ThrottlerConstants DEF THNames
<1>2. Alive(entries, w) \in [Ages -> Nat] /\ \A a \in Ages : Alive(entries, w)[a] = 0
  BY <1>1 DEF Alive
<1> QED
  BY <1>2, SumOfZeros DEF Sum

(* The wait of a throttled dispatcher.                                     *)
LEMMA ThrottledWait ==
    ASSUME entries \in [Ages -> Nat]
    PROVE  Throttler!ThrottledFor \in 0 .. LongestWait /\ Throttler!ThrottledFor >= Window
<1> DEFINE S == {a \in Ages : entries[a] > 0} \cup {0}
<1>1. S \in SUBSET Nat /\ S # {} /\ S \subseteq Ages
  BY ThrottlerConstants DEF THNames, Ages
<1>2. IsFiniteSet(S)
  BY <1>1, ThrottlerConstants, FS_Subset
<1>3. Throttler!ThrottledFor = Throttler!Max(S) + Window + 1
  BY DEF Throttler!ThrottledFor, Throttler!Ages, Ages
<1> HIDE DEF S
<1>4. Throttler!Max(S) \in S
  BY <1>1, <1>2, Largest
<1> DEFINE m == Throttler!Max(S)
<1>5. m \in Nat /\ m <= Window - 1
  <2>1. m \in 0 .. Window - 1 /\ Window \in Nat \ {0}
    BY <1>1, <1>4, ThrottlerConstants DEF THNames, Ages
  <2> HIDE DEF m
  <2> QED
    BY <2>1
<1> HIDE DEF m
<1>6. Throttler!ThrottledFor = m + Window + 1
  BY <1>3 DEF m
<1>7. Window \in Nat /\ LongestWait \in Nat /\ 2 * Window <= LongestWait
  BY ThrottlerConstants DEF THNames
<1>8. m + Window + 1 \in Nat /\ m + Window + 1 <= LongestWait /\ m + Window + 1 >= Window
  BY <1>5, <1>7
<1> QED
  BY <1>6, <1>7, <1>8

(* A dispatcher comes past the check only while the budget lasts; it       *)
(* sleeps until all that is recorded has left the window.                  *)
LEMMA ThrottleCheck == ASSUME THInv, NEW d \in Dispatchers, Throttler!Check(d) PROVE THInv'
<1>1. disp[d].pc = "check" /\ UNCHANGED <<entries, backlog, pushed, recorded, unrecorded, errors>>
  BY DEF Throttler!Check
<1>2. /\ entries \in [Ages -> Nat] /\ (Throttler!IsAllowed <=> Sum(entries) < Limit)
      /\ Sum(entries) \in Nat /\ Limit \in Nat /\ Throttler!Requests = Sum(entries)
  BY RequestsSum, SumType, ThrottlerConstants DEF THInv, THTypes, THNames, Throttler!IsAllowed
<1>3. /\ unrecorded' \in Nat /\ errors' \in 0 .. MaxErrors /\ backlog' \in Nat
      /\ UNCHANGED <<entries, pushed, recorded>>
  BY <1>1 DEF THInv, THTypes
<1>4. CASE Throttler!IsAllowed
  <2> DEFINE r == [Throttler!Ready EXCEPT !.pc = "claim"]
  <2>1. disp' = [disp EXCEPT ![d] = r]
    BY <1>4 DEF Throttler!Check
  <2>2. r \in DispOf /\ r.pc = "claim" /\ r.throttled = FALSE
    BY ReadyFields DEF DispOf
  <2> HIDE DEF r
  <2>3. SleepOK(r, entries)
    BY <2>2 DEF SleepOK
  <2>4. Refused(d, r)
    <3>1. Sum(entries) < Limit /\ unrecorded' = unrecorded
      BY <1>1, <1>2, <1>4
    <3> QED
      BY <3>1 DEF Refused
  <2>5. Handled(d, r)
    BY <1>1, <2>2 DEF Handled
  <2> QED
    BY <1>3, <2>1, <2>2, <2>3, <2>4, <2>5, QuietMove
<1>5. CASE ~Throttler!IsAllowed
  <2> DEFINE w == IF Throttler!Requests = 0 THEN FallbackWait ELSE Throttler!ThrottledFor
             r == [Throttler!Ready EXCEPT !.pc = "sleep", !.throttled = TRUE, !.wait = w]
  <2>1. disp' = [disp EXCEPT ![d] = r]
    BY <1>5 DEF Throttler!Check
  <2>2. w \in 0 .. LongestWait /\ (Sum(entries) # 0 => w >= Window /\ w \in Nat)
    <3>1. FallbackWait \in 0 .. LongestWait /\ LongestWait \in Nat
      BY ThrottlerConstants DEF THNames
    <3>2. Throttler!ThrottledFor \in 0 .. LongestWait /\ Throttler!ThrottledFor >= Window
      BY <1>2, ThrottledWait
    <3>3. CASE Sum(entries) = 0
      BY <1>2, <3>1, <3>3
    <3>4. CASE Sum(entries) # 0
      <4>1. w = Throttler!ThrottledFor
        BY <1>2, <3>4
      <4>2. w \in Nat
        BY <3>1, <3>2, <4>1
      <4> QED
        BY <3>2, <4>1, <4>2
    <3> QED
      BY <3>3, <3>4
  <2> HIDE DEF w
  <2>3. r \in DispOf /\ r.pc = "sleep" /\ r.wait = w /\ r.added = 0
    BY <2>2, ReadyFields DEF DispOf
  <2> HIDE DEF r
  <2>4. SleepOK(r, entries)
    <3>1. 0 < Limit => Sum(Alive(entries, w)) = 0
      <4>1. 0 < Limit => Sum(entries) # 0
        BY <1>2, <1>5
      <4> QED
        BY <1>2, <2>2, <4>1, NothingLives
    <3> QED
      BY <2>3, <3>1 DEF SleepOK
  <2>5. Refused(d, r)
    BY <1>1, <2>3 DEF Refused
  <2>6. Handled(d, r)
    BY <1>1, <2>3 DEF Handled
  <2> QED
    BY <1>3, <2>1, <2>3, <2>4, <2>5, <2>6, QuietMove
<1> QED
  BY <1>4, <1>5

(* A claim takes a job off the queue.                                      *)
LEMMA ThrottleClaim == ASSUME THInv, NEW d \in Dispatchers, Throttler!Claim(d) PROVE THInv'
<1>1. disp[d].pc = "claim" /\ UNCHANGED <<entries, pushed, recorded, unrecorded, errors>>
  BY DEF Throttler!Claim
<1>2. unrecorded' \in Nat /\ errors' \in 0 .. MaxErrors /\ backlog \in Nat
  BY <1>1 DEF THInv, THTypes
<1>3. CASE backlog > 0
  <2> DEFINE r == [Throttler!Ready EXCEPT !.pc = "cost"]
  <2>1. disp' = [disp EXCEPT ![d] = r] /\ backlog' = backlog - 1
    BY <1>3 DEF Throttler!Claim
  <2>2. r \in DispOf /\ r.pc = "cost" /\ r.throttled = FALSE
    BY ReadyFields DEF DispOf
  <2> HIDE DEF r
  <2>3. SleepOK(r, entries)
    BY <2>2 DEF SleepOK
  <2>4. Refused(d, r)
    BY <1>1, <2>2 DEF Refused
  <2>5. Handled(d, r) /\ backlog' \in Nat
    BY <1>1, <1>2, <1>3, <2>1, <2>2 DEF Handled
  <2> QED
    BY <1>1, <1>2, <2>1, <2>2, <2>3, <2>4, <2>5, QuietMove
<1>4. CASE ~(backlog > 0)
  <2> DEFINE r == [Throttler!Ready EXCEPT !.pc = "sleep", !.wait = FallbackWait]
  <2>1. disp' = [disp EXCEPT ![d] = r] /\ backlog' = backlog
    BY <1>4 DEF Throttler!Claim
  <2>2. r \in DispOf /\ r.pc = "sleep" /\ r.throttled = FALSE
    <3>1. FallbackWait \in 0 .. LongestWait
      BY ThrottlerConstants DEF THNames
    <3> QED
      BY <3>1, ReadyFields DEF DispOf
  <2> HIDE DEF r
  <2>3. SleepOK(r, entries)
    BY <2>2 DEF SleepOK
  <2>4. Refused(d, r)
    BY <1>1, <2>2 DEF Refused
  <2>5. Handled(d, r)
    BY <1>1, <2>1, <2>2 DEF Handled
  <2> QED
    BY <1>1, <1>2, <2>1, <2>2, <2>3, <2>4, <2>5, QuietMove
<1> QED
  BY <1>3, <1>4

(* Reading the cost moves nobody on to record.                             *)
LEMMA ThrottleReadCost == ASSUME THInv, NEW d \in Dispatchers, Throttler!ReadCost(d) PROVE THInv'
<1>1. disp[d].pc = "cost" /\ UNCHANGED <<entries, backlog, pushed, recorded, unrecorded, errors>>
  BY DEF Throttler!ReadCost
<1>2. unrecorded' \in Nat /\ errors' \in 0 .. MaxErrors /\ backlog' \in Nat
  BY <1>1 DEF THInv, THTypes
<1>3. disp[d] \in DispOf /\ SleepOK(disp[d], entries)
  BY DEF THInv, THTypes, SleepKept
<1>4. PICK c \in Costs : disp' = [disp EXCEPT ![d].pc = "consume", ![d].cost = c]
  BY DEF Throttler!ReadCost
<1> DEFINE r == [disp[d] EXCEPT !.pc = "consume", !.cost = c]
<1>5. disp' = [disp EXCEPT ![d] = r]
  BY <1>4 DEF THInv, THTypes
<1>6. r \in DispOf /\ r.pc = "consume" /\ r.throttled = disp[d].throttled
  BY <1>3 DEF DispOf
<1>7. ~disp[d].throttled
  BY <1>1, <1>3 DEF SleepOK
<1> HIDE DEF r
<1>8. SleepOK(r, entries)
  BY <1>6, <1>7 DEF SleepOK
<1>9. Refused(d, r) /\ Handled(d, r)
  BY <1>1, <1>6 DEF Refused, Handled
<1> QED
  BY <1>1, <1>2, <1>5, <1>6, <1>8, <1>9, QuietMove

(* A sleep ends with its wait.                                             *)
LEMMA ThrottleWake == ASSUME THInv, NEW d \in Dispatchers, Throttler!Wake(d) PROVE THInv'
<1>1. /\ disp[d].pc = "sleep" /\ disp[d].wait = 0
      /\ UNCHANGED <<entries, backlog, pushed, recorded, unrecorded, errors>>
  BY DEF Throttler!Wake
<1>2. unrecorded' \in Nat /\ errors' \in 0 .. MaxErrors /\ backlog' \in Nat
  BY <1>1 DEF THInv, THTypes
<1>3. disp[d] \in DispOf /\ SleepOK(disp[d], entries)
  BY DEF THInv, THTypes, SleepKept
<1> DEFINE r == [disp[d] EXCEPT !.pc = "check"]
<1>4. disp' = [disp EXCEPT ![d] = r]
  BY DEF THInv, THTypes, Throttler!Wake
<1>5. r \in DispOf /\ r.pc = "check" /\ r.wait = 0 /\ r.added = disp[d].added
  BY <1>1, <1>3 DEF DispOf
<1>6. r.throttled = disp[d].throttled
  BY <1>3 DEF DispOf
<1> HIDE DEF r
<1>7. SleepOK(r, entries)
  BY <1>1, <1>3, <1>5, <1>6 DEF SleepOK
<1>8. Refused(d, r) /\ Handled(d, r)
  BY <1>1, <1>5 DEF Refused, Handled
<1> QED
  BY <1>1, <1>2, <1>4, <1>5, <1>7, <1>8, QuietMove

(* An error ends the pop, or the dispatcher.                               *)
LEMMA ThrottleError == ASSUME THInv, NEW d \in Dispatchers, Throttler!Error(d) PROVE THInv'
<1>1. /\ disp[d].pc \in {"check", "claim", "cost", "consume", "add"}
      /\ errors < MaxErrors /\ errors' = errors + 1
      /\ UNCHANGED <<entries, backlog, pushed, recorded, unrecorded>>
  BY DEF Throttler!Error
<1>2. unrecorded' \in Nat /\ errors' \in 0 .. MaxErrors /\ backlog' \in Nat
  BY <1>1, ThrottlerConstants DEF THInv, THTypes, THNames
<1> DEFINE r == IF disp[d].pc = "check" THEN Throttler!Ready ELSE [Throttler!Ready EXCEPT !.pc = "failed"]
<1>3. disp' = [disp EXCEPT ![d] = r]
  BY DEF THInv, THTypes, Throttler!Error
<1>4. r \in DispOf /\ r.pc \in {"check", "failed"} /\ r.throttled = FALSE
  BY ReadyFields DEF DispOf
<1> HIDE DEF r
<1>5. SleepOK(r, entries)
  BY <1>4 DEF SleepOK
<1>6. Refused(d, r) /\ Handled(d, r)
  BY <1>1, <1>4 DEF Refused, Handled
<1> QED
  BY <1>1, <1>2, <1>3, <1>4, <1>5, <1>6, QuietMove

(* One that consumes leaves with nothing, or goes on to record its cost.   *)
LEMMA ThrottleConsume == ASSUME THInv, NEW d \in Dispatchers, Throttler!Consume(d) PROVE THInv'
<1>1. disp[d].pc = "consume" /\ UNCHANGED <<entries, backlog, pushed, recorded, errors>>
  BY DEF Throttler!Consume
<1>2. /\ entries \in [Ages -> Nat] /\ (Throttler!IsAllowed <=> Sum(entries) < Limit)
      /\ Sum(entries) \in Nat /\ Limit \in Nat
  BY RequestsSum, SumType, ThrottlerConstants DEF THInv, THTypes, THNames, Throttler!IsAllowed
<1>3. disp[d] \in DispOf /\ SleepOK(disp[d], entries) /\ unrecorded \in Nat
  BY DEF THInv, THTypes, SleepKept
<1>4. errors' \in 0 .. MaxErrors /\ backlog' \in Nat /\ UNCHANGED <<entries, pushed, recorded>>
  BY <1>1 DEF THInv, THTypes
<1>5. CASE ~(Throttler!IsAllowed /\ disp[d].cost > 0)
  <2> DEFINE r == Throttler!Ready
  <2>1. disp' = [disp EXCEPT ![d] = r] /\ unrecorded' = IF Throttler!IsAllowed THEN unrecorded ELSE unrecorded + 1
    BY <1>5 DEF Throttler!Consume
  <2>2. r \in DispOf /\ r.pc = "check" /\ r.throttled = FALSE
    BY ReadyFields
  <2> HIDE DEF r
  <2>3. SleepOK(r, entries)
    BY <2>2 DEF SleepOK
  <2>4. CASE Throttler!IsAllowed
    <3>1. unrecorded' = unrecorded /\ Sum(entries) < Limit /\ unrecorded' \in Nat
      BY <1>2, <1>3, <2>1, <2>4
    <3>2. Refused(d, r) /\ Handled(d, r)
      BY <1>1, <2>2, <3>1 DEF Refused, Handled
    <3> QED
      BY <1>4, <2>1, <2>2, <2>3, <3>1, <3>2, QuietMove
  <2>5. CASE ~Throttler!IsAllowed
    <3>1. unrecorded' = unrecorded + 1 /\ ~(Sum(entries) < Limit) /\ unrecorded' \in Nat
      BY <1>2, <1>3, <2>1, <2>5
    <3>2. Refused(d, r) /\ Handled(d, r)
      BY <1>1, <2>2, <3>1 DEF Refused, Handled
    <3> QED
      BY <1>4, <2>1, <2>2, <2>3, <3>1, <3>2, QuietMove
  <2> QED
    BY <2>4, <2>5
<1>6. CASE Throttler!IsAllowed /\ disp[d].cost > 0
  <2> DEFINE r == [disp[d] EXCEPT !.pc = "add", !.age = 0]
  <2>1. disp' = [disp EXCEPT ![d] = r] /\ unrecorded' = unrecorded
    BY <1>6 DEF Throttler!Consume
  <2>2. r \in DispOf /\ r.pc = "add" /\ r.throttled = disp[d].throttled
    <3>1. 0 \in 0 .. Window
      BY ThrottlerConstants DEF THNames
    <3> QED
      BY <1>3, <3>1 DEF DispOf
  <2>3. ~disp[d].throttled
    BY <1>1, <1>3 DEF SleepOK
  <2> HIDE DEF r
  <2>4. SleepOK(r, entries)
    BY <2>2, <2>3 DEF SleepOK
  <2>5. /\ disp' \in [Dispatchers -> DispOf] /\ SleepKept'
        /\ disp'[d] = r /\ \A e \in Dispatchers \ {d} : disp'[e] = disp[e]
    BY <1>4, <2>1, <2>2, <2>4, DispatcherMoves
  <2>6. \A e \in Dispatchers \ {d} : disp'[e].pc = disp[e].pc
    BY <2>5
  <2>7. THTypes'
    BY <1>1, <2>1, <2>5 DEF THInv, THTypes
  <2>8. JobsCounted'
    <3>1. Cardinality(AtPoint({"cost", "consume", "add"})') = Cardinality(AtPoint({"cost", "consume", "add"}))
      BY <1>1, <2>2, <2>5, <2>6, OneMoves
    <3> QED
      BY <1>1, <2>1, <3>1 DEF THInv, JobsCounted
  <2>9. BudgetKept'
    <3> DEFINE j == Cardinality(AtPoint({"add"})')
               n == Cardinality(Dispatchers)
    <3>1. j <= n /\ j \in Nat /\ n \in Nat
      <4>1. IsFiniteSet(Dispatchers) /\ AtPoint({"add"})' \subseteq Dispatchers
        BY ThrottlerConstants DEF THNames, AtPoint
      <4> QED
        BY <4>1, FS_Subset, FS_CardinalityType
    <3> HIDE DEF j, n
    <3>2. j * MaxCost <= n * MaxCost /\ j * MaxCost \in Nat /\ n * MaxCost \in Nat
      BY <3>1, Products, ThrottlerConstants
    <3> DEFINE jm == j * MaxCost
               nm == n * MaxCost
               x == Sum(entries)
    <3>3. x \in Nat /\ Limit \in Nat /\ x < Limit /\ jm <= nm /\ jm \in Nat /\ nm \in Nat
      BY <1>2, <1>6, <3>2
    <3> HIDE DEF jm, nm, x
    <3>4. x + jm <= Limit + nm - 1
      BY <3>3
    <3> QED
      BY <1>1, <3>4 DEF BudgetKept, jm, nm, x, j, n
  <2>10. RefusalsKept'
    <3>1. Overtaken' = 0 /\ Overtaken = 0
      BY <1>1, <1>2, <1>6 DEF Overtaken
    <3> QED
      BY <1>1, <2>1, <3>1 DEF THInv, RefusalsKept
  <2> QED
    BY <2>5, <2>7, <2>8, <2>9, <2>10 DEF THInv
<1> QED
  BY <1>5, <1>6

(* Recording n at one age adds no more than n to what lives on.            *)
LEMMA AddedAlive ==
    ASSUME THNames, NEW g \in [Ages -> Nat], NEW x \in Ages, NEW n \in Nat, NEW w \in Nat
    PROVE  LET h == [g EXCEPT ![x] = g[x] + n]
           IN  /\ h \in [Ages -> Nat] /\ Sum(h) = Sum(g) + n
               /\ Sum(Alive(h, w)) <= Sum(Alive(g, w)) + n
<1> DEFINE h == [g EXCEPT ![x] = g[x] + n]
           k == IF x + w < Window THEN n ELSE 0
<1>1. h \in [Ages -> Nat] /\ h[x] = g[x] + n /\ \A y \in Ages \ {x} : h[y] = g[y]
  OBVIOUS
<1>2. IsFiniteSet(Ages)
  BY ThrottlerConstants
<1> HIDE DEF h
<1>3. Sum(h) = Sum(g) + n
  BY <1>1, <1>2, SumGrows DEF Sum
<1>4. k \in Nat /\ k <= n
  OBVIOUS
<1>5. /\ Alive(h, w) \in [Ages -> Nat] /\ Alive(g, w) \in [Ages -> Nat]
      /\ Alive(h, w)[x] = Alive(g, w)[x] + k
      /\ \A y \in Ages \ {x} : Alive(h, w)[y] = Alive(g, w)[y]
  BY <1>1 DEF Alive
<1> HIDE DEF k
<1>6. Sum(Alive(h, w)) = Sum(Alive(g, w)) + k
  BY <1>2, <1>4, <1>5, SumGrows DEF Sum
<1>7. Sum(Alive(g, w)) \in Nat
  BY <1>5, SumType
<1>8. Sum(Alive(h, w)) <= Sum(Alive(g, w)) + n
  BY <1>4, <1>6, <1>7
<1> QED
  BY <1>1, <1>3, <1>8 DEF h

(* Min of two numbers.                                                     *)
LEMMA Smaller ==
    ASSUME NEW a \in Nat, NEW b \in Nat
    PROVE  Throttler!Min({a, b}) = IF a <= b THEN a ELSE b
<1> DEFINE m == IF a <= b THEN a ELSE b
<1>1. m \in {a, b} /\ \A y \in {a, b} : m <= y
  OBVIOUS
<1>2. \A x \in {a, b} : (\A y \in {a, b} : x <= y) => x = m
  OBVIOUS
<1> QED
  BY <1>1, <1>2 DEF Throttler!Min

(* The cost is recorded; those between check and consume are overtaken.    *)
LEMMA ThrottleAdd == ASSUME THInv, NEW d \in Dispatchers, Throttler!Add(d) PROVE THInv'
<1> DEFINE x == disp[d].age
           c == disp[d].cost
           added(e) == Throttler!Min({Limit, disp[e].added + c})
           r(e) == [disp[e] EXCEPT !.added = added(e)]
<1>1. /\ disp[d].pc = "add" /\ UNCHANGED <<backlog, pushed, unrecorded, errors>> /\ recorded' = recorded + 1
      /\ entries' = IF x \in Ages THEN [entries EXCEPT ![x] = entries[x] + c] ELSE entries
  BY DEF Throttler!Add, Throttler!Ages, Ages
<1>2. disp' = [e \in Dispatchers |-> IF e = d THEN Throttler!Ready
                                     ELSE IF disp[e].throttled THEN r(e) ELSE disp[e]]
  BY DEF Throttler!Add
<1>3. entries \in [Ages -> Nat] /\ (\A e \in Dispatchers : disp[e] \in DispOf) /\ unrecorded \in Nat
      /\ recorded \in Nat /\ backlog \in Nat /\ pushed \in Nat
  BY ThrottlerConstants DEF THInv, THTypes
<1>4. c \in Nat /\ c <= MaxCost /\ MaxCost \in Nat /\ Limit \in Nat
  BY <1>3, ThrottlerConstants DEF DispOf, THNames
<1>5. /\ entries' \in [Ages -> Nat] /\ Sum(entries') \in Nat /\ Sum(entries') <= Sum(entries) + c
      /\ \A w \in Nat : Sum(Alive(entries', w)) <= Sum(Alive(entries, w)) + c
  <2> SUFFICES ASSUME NEW w \in Nat
               PROVE  /\ entries' \in [Ages -> Nat] /\ Sum(entries') \in Nat /\ Sum(entries') <= Sum(entries) + c
                      /\ Sum(Alive(entries', w)) <= Sum(Alive(entries, w)) + c
    OBVIOUS
  <2>1. Sum(entries) \in Nat /\ Sum(Alive(entries, w)) \in Nat
    <3>1. Alive(entries, w) \in [Ages -> Nat]
      BY <1>3 DEF Alive
    <3> QED
      BY <1>3, <3>1, SumType, ThrottlerConstants
  <2>2. CASE x \in Ages
    <3>1. entries' = [entries EXCEPT ![x] = entries[x] + c]
      BY <1>1, <2>2
    <3>2. /\ entries' \in [Ages -> Nat] /\ Sum(entries') = Sum(entries) + c
          /\ Sum(Alive(entries', w)) <= Sum(Alive(entries, w)) + c
      BY <1>3, <1>4, <2>2, <3>1, AddedAlive, ThrottlerConstants
    <3> QED
      BY <1>4, <2>1, <3>2
  <2>3. CASE x \notin Ages
    <3>1. entries' = entries
      BY <1>1, <2>3
    <3> QED
      BY <1>3, <1>4, <2>1, <3>1
  <2> QED
    BY <2>2, <2>3
<1>6. \A e \in Dispatchers : /\ added(e) \in 0 .. Limit
                             /\ added(e) < Limit => added(e) = disp[e].added + c /\ disp[e].added < Limit
  <2> SUFFICES ASSUME NEW e \in Dispatchers
               PROVE  /\ added(e) \in 0 .. Limit
                      /\ added(e) < Limit => added(e) = disp[e].added + c /\ disp[e].added < Limit
    OBVIOUS
  <2>1. disp[e].added \in 0 .. Limit
    BY <1>3 DEF DispOf
  <2> HIDE DEF c
  <2>2. disp[e].added \in Nat /\ disp[e].added + c \in Nat
    BY <1>4, <2>1
  <2>3. added(e) = IF Limit <= disp[e].added + c THEN Limit ELSE disp[e].added + c
    BY <1>4, <2>2, Smaller
  <2> HIDE DEF added
  <2> QED
    BY <1>4, <2>1, <2>2, <2>3
<1> HIDE DEF added
<1>7. ASSUME NEW e \in Dispatchers \ {d}
      PROVE  /\ disp'[e] \in DispOf /\ disp'[e].pc = disp[e].pc /\ SleepOK(disp'[e], entries')
  <2>0. disp[e] \in DispOf /\ SleepOK(disp[e], entries)
    BY <1>3 DEF THInv, SleepKept
  <2>1. CASE disp[e].throttled
    <3>1. disp'[e] = r(e)
      BY <1>2, <1>7, <2>1
    <3>2. r(e) \in DispOf /\ r(e).pc = disp[e].pc /\ r(e).wait = disp[e].wait /\ r(e).added = added(e)
      BY <1>6, <2>0 DEF DispOf
    <3> HIDE DEF r
    <3>3. disp[e].wait \in Nat /\ disp[e].added \in Nat
      BY <2>0, ThrottlerConstants DEF DispOf, THNames
    <3>4. /\ disp[e].pc \in {"check", "sleep"} /\ (disp[e].pc = "check" => disp[e].wait = 0)
          /\ disp[e].added < Limit => Sum(Alive(entries, disp[e].wait)) <= disp[e].added
      BY <2>0, <2>1 DEF SleepOK
    <3>5. added(e) < Limit => Sum(Alive(entries', disp[e].wait)) <= added(e)
      <4> SUFFICES ASSUME added(e) < Limit PROVE Sum(Alive(entries', disp[e].wait)) <= added(e)
        OBVIOUS
      <4>1. added(e) = disp[e].added + c /\ Sum(Alive(entries, disp[e].wait)) <= disp[e].added
        BY <1>6, <3>4
      <4>2. Sum(Alive(entries', disp[e].wait)) <= Sum(Alive(entries, disp[e].wait)) + c
        BY <1>5, <3>3
      <4>3. Sum(Alive(entries', disp[e].wait)) \in Nat /\ Sum(Alive(entries, disp[e].wait)) \in Nat
        <5>1. Alive(entries', disp[e].wait) \in [Ages -> Nat] /\ Alive(entries, disp[e].wait) \in [Ages -> Nat]
          BY <1>3, <1>5 DEF Alive
        <5> QED
          BY <5>1, SumType, ThrottlerConstants
      <4> HIDE DEF c
      <4> QED
        BY <1>4, <3>3, <4>1, <4>2, <4>3
    <3>6. SleepOK(r(e), entries')
      BY <3>2, <3>4, <3>5 DEF SleepOK
    <3> QED
      BY <3>1, <3>2, <3>6
  <2>2. CASE ~disp[e].throttled
    <3>1. disp'[e] = disp[e]
      BY <1>2, <1>7, <2>2
    <3> QED
      BY <2>0, <2>2, <3>1 DEF SleepOK
  <2> QED
    BY <2>1, <2>2
<1>8. disp'[d] = Throttler!Ready
  BY <1>2
<1>9. SleepKept' /\ disp' \in [Dispatchers -> DispOf]
  <2>1. \A e \in Dispatchers : disp'[e] \in DispOf /\ SleepOK(disp'[e], entries')
    <3> SUFFICES ASSUME NEW e \in Dispatchers PROVE disp'[e] \in DispOf /\ SleepOK(disp'[e], entries')
      OBVIOUS
    <3>1. CASE e = d
      BY <1>8, <3>1, ReadyFields DEF SleepOK
    <3>2. CASE e # d
      BY <1>7, <3>2
    <3> QED
      BY <3>1, <3>2
  <2>2. disp' \in [Dispatchers -> DispOf]
    <3>1. disp' = [e \in Dispatchers |-> disp'[e]]
      BY <1>2, Zenon
    <3> QED
      BY <2>1, <3>1, Zenon
  <2> QED
    BY <2>1, <2>2 DEF SleepKept
<1>10. THTypes'
  BY <1>1, <1>3, <1>5, <1>9 DEF THInv, THTypes
<1>11. disp'[d].pc = "check" /\ \A e \in Dispatchers \ {d} : disp'[e].pc = disp[e].pc
  BY <1>7, <1>8, ReadyFields
<1> HIDE DEF c, x
<1>12. JobsCounted'
  <2> DEFINE j == Cardinality(AtPoint({"cost", "consume", "add"})')
             k == Cardinality(AtPoint({"cost", "consume", "add"}))
  <2>1. k = j + 1 /\ j \in Nat
    BY <1>1, <1>11, OneMoves
  <2>2. recorded + unrecorded + backlog + k <= pushed
    BY DEF THInv, JobsCounted
  <2> HIDE DEF j, k
  <2>3. (recorded + 1) + unrecorded + backlog + j <= pushed
    BY <1>3, <2>1, <2>2
  <2> QED
    BY <1>1, <2>3 DEF JobsCounted, j
<1>13. BudgetKept'
  <2> DEFINE j == Cardinality(AtPoint({"add"})')
             k == Cardinality(AtPoint({"add"}))
             y == Sum(entries)
             z == Sum(entries')
             jm == j * MaxCost
             nm == Cardinality(Dispatchers) * MaxCost
  <2>1. k = j + 1 /\ j \in Nat
    BY <1>1, <1>11, OneMoves
  <2>2. k * MaxCost = jm + MaxCost /\ jm \in Nat /\ nm \in Nat
    <3> HIDE DEF j, k
    <3>1. (j + 1) * MaxCost = j * MaxCost + MaxCost /\ j * MaxCost \in Nat
      BY <1>4, <2>1, Products
    <3>2. nm \in Nat
      BY <1>4, Crowd, Products
    <3> QED
      BY <2>1, <3>1, <3>2
  <2>3. y + (jm + MaxCost) <= Limit + nm - 1
    BY <2>2 DEF THInv, BudgetKept
  <2>4. y \in Nat /\ z \in Nat /\ z <= y + c
    BY <1>3, <1>5, SumType, ThrottlerConstants
  <2> HIDE DEF j, k, y, z, jm, nm
  <2>5. z + jm <= Limit + nm - 1
    BY <1>4, <2>2, <2>3, <2>4
  <2> QED
    BY <2>5 DEF BudgetKept, j, z, jm, nm
<1>14. RefusalsKept'
  <2> DEFINE j == Cardinality(AtPoint({"claim", "cost", "consume"})')
             n == Cardinality(Dispatchers) - 1
             m == n * recorded
  <2>1. j <= n /\ j \in Nat /\ n \in Nat
    <3>1. IsFiniteSet(Dispatchers) /\ AtPoint({"claim", "cost", "consume"})' \subseteq Dispatchers \ {d}
      BY <1>11, ThrottlerConstants DEF THNames, AtPoint
    <3>2. IsFiniteSet(Dispatchers \ {d}) /\ Cardinality(Dispatchers \ {d}) = Cardinality(Dispatchers) - 1
      BY <3>1, FS_RemoveElement
    <3>3. j <= Cardinality(Dispatchers \ {d}) /\ j \in Nat
      BY <3>1, <3>2, FS_Subset, FS_CardinalityType
    <3> QED
      BY <3>2, <3>3, Crowd
  <2>2. unrecorded + Overtaken <= m
    BY DEF THInv, RefusalsKept
  <2>3. Overtaken \in Nat
    BY PointsFinite DEF Overtaken
  <2>4. n * (recorded + 1) = m + n /\ m \in Nat
    <3> HIDE DEF n
    <3> QED
      BY <1>3, <2>1, Products
  <2> DEFINE o == Overtaken'
  <2>5. o = 0 \/ o = j
    BY DEF Overtaken
  <2> HIDE DEF j, n, m, o
  <2>6. unrecorded + o <= m + n
    BY <1>3, <2>1, <2>2, <2>3, <2>4, <2>5
  <2>7. unrecorded' + Overtaken' <= n * recorded'
    BY <1>1, <2>4, <2>6 DEF o
  <2> QED
    BY <2>7 DEF RefusalsKept, n
<1> QED
  BY <1>9, <1>10, <1>12, <1>13, <1>14 DEF THInv

(* A millisecond passes for entries, sleepers and those about to record.   *)
LEMMA ThrottleTick == ASSUME THInv, Throttler!Tick PROVE THInv'
<1> DEFINE w(d) == IF disp[d].wait > 0 THEN disp[d].wait - 1 ELSE 0
           x(d) == IF disp[d].pc = "add" /\ disp[d].age < Window THEN disp[d].age + 1 ELSE disp[d].age
           r(d) == [disp[d] EXCEPT !.wait = w(d), !.age = x(d)]
<1>1. /\ entries' = [a \in Ages |-> IF a = 0 THEN 0 ELSE entries[a - 1]]
      /\ UNCHANGED <<backlog, pushed, recorded, unrecorded, errors>>
  BY DEF Throttler!Tick, Throttler!Aged, Throttler!Ages, Ages
<1>2. disp' = [d \in Dispatchers |-> r(d)]
  BY DEF Throttler!Tick
<1>3. entries \in [Ages -> Nat] /\ (\A d \in Dispatchers : disp[d] \in DispOf /\ SleepOK(disp[d], entries))
  BY DEF THInv, THTypes, SleepKept
<1>4. \A a \in Ages : a # 0 => a - 1 \in Ages /\ a \in Nat /\ a > 0
  BY ThrottlerConstants DEF Ages, THNames
<1>5. entries' \in [Ages -> Nat] /\ \A a \in Ages : entries'[a] = IF a = 0 THEN 0 ELSE entries[a - 1]
  BY <1>1, <1>3, <1>4
<1>6. Sum(entries') <= Sum(entries)
  <2>1. \A a \in Ages : entries'[a] = 0 \/ (a > 0 /\ entries'[a] <= entries[a - 1])
    BY <1>3, <1>4, <1>5
  <2> QED
    BY <1>3, <1>5, <2>1, SumShift, ThrottlerConstants
<1>7. ASSUME NEW d \in Dispatchers
      PROVE  disp'[d] \in DispOf /\ disp'[d].pc = disp[d].pc /\ SleepOK(disp'[d], entries')
  <2>1. disp'[d] = r(d)
    BY <1>2
  <2>2. disp[d].wait \in 0 .. LongestWait /\ disp[d].age \in 0 .. Window /\ Window \in Nat /\ LongestWait \in Nat
    BY <1>3, ThrottlerConstants DEF DispOf, THNames
  <2>3. w(d) \in 0 .. LongestWait /\ w(d) \in Nat /\ (w(d) = disp[d].wait - 1 \/ (w(d) = 0 /\ disp[d].wait = 0))
    BY <2>2
  <2>4. x(d) \in 0 .. Window
    BY <2>2
  <2> HIDE DEF w, x
  <2>5. r(d) \in DispOf /\ r(d).pc = disp[d].pc /\ r(d).wait = w(d) /\ r(d).added = disp[d].added
    BY <1>3, <2>3, <2>4 DEF DispOf
  <2>6. r(d).throttled = disp[d].throttled
    BY <1>3 DEF DispOf
  <2> HIDE DEF r
  <2>7. SleepOK(r(d), entries')
    <3> SUFFICES ASSUME r(d).throttled
                 PROVE  /\ r(d).pc \in {"check", "sleep"} /\ (r(d).pc = "check" => r(d).wait = 0)
                        /\ r(d).added < Limit => Sum(Alive(entries', r(d).wait)) <= r(d).added
      BY DEF SleepOK
    <3>1. /\ disp[d].pc \in {"check", "sleep"} /\ (disp[d].pc = "check" => disp[d].wait = 0)
          /\ disp[d].added < Limit => Sum(Alive(entries, disp[d].wait)) <= disp[d].added
      BY <1>3, <2>6 DEF SleepOK
    <3>2. disp[d].wait = 0 => w(d) = 0
      BY <2>2, <2>3
    <3> DEFINE g == Alive(entries, disp[d].wait)
               h == Alive(entries', w(d))
    <3>3. g \in [Ages -> Nat] /\ h \in [Ages -> Nat]
      BY <1>3, <1>5 DEF Alive
    <3>4. ASSUME NEW a \in Ages PROVE h[a] = 0 \/ (a > 0 /\ h[a] <= g[a - 1])
      <4>1. CASE a = 0
        BY <1>5, <3>4, <4>1 DEF Alive
      <4>2. CASE a # 0 /\ ~(a + w(d) < Window)
        BY <3>4, <4>2 DEF Alive
      <4>3. CASE a # 0 /\ a + w(d) < Window
        <5>1. a - 1 \in Ages /\ a \in Nat /\ a > 0 /\ entries'[a] = entries[a - 1] /\ entries[a - 1] \in Nat
          BY <1>3, <1>4, <1>5, <3>4, <4>3
        <5>2. (a - 1) + disp[d].wait < Window
          BY <2>2, <2>3, <4>3, <5>1
        <5>3. h[a] = entries'[a] /\ g[a - 1] = entries[a - 1]
          BY <3>4, <4>3, <5>1, <5>2 DEF Alive
        <5> QED
          BY <5>1, <5>3
      <4> QED
        BY <4>1, <4>2, <4>3
    <3> HIDE DEF g, h
    <3>5. Sum(h) <= Sum(g) /\ Sum(h) \in Nat /\ Sum(g) \in Nat
      BY <3>3, <3>4, SumShift, SumType, ThrottlerConstants
    <3>6. disp[d].added \in Nat
      BY <1>3, ThrottlerConstants DEF DispOf, THNames
    <3>7. disp[d].added < Limit => Sum(h) <= disp[d].added
      BY <3>1, <3>5, <3>6 DEF g
    <3> QED
      BY <2>5, <3>1, <3>2, <3>7 DEF h
  <2> QED
    BY <2>1, <2>5, <2>7
<1>8. SleepKept' /\ disp' \in [Dispatchers -> DispOf]
  <2>1. disp' = [d \in Dispatchers |-> disp'[d]]
    BY <1>2, Zenon
  <2>2. disp' \in [Dispatchers -> DispOf]
    BY <1>7, <2>1, Zenon
  <2> QED
    BY <1>7, <2>2 DEF SleepKept
<1>9. \A P : AtPoint(P)' = AtPoint(P)
  BY <1>7 DEF AtPoint
<1>10. THTypes'
  BY <1>1, <1>5, <1>8 DEF THInv, THTypes
<1>11. JobsCounted'
  BY <1>1, <1>9 DEF THInv, JobsCounted
<1>12. BudgetKept'
  BY <1>5, <1>6, <1>9, BudgetStays, PointsFinite
<1>13. RefusalsKept'
  <2>1. unrecorded \in Nat /\ unrecorded' = unrecorded /\ recorded' = recorded
    BY <1>1 DEF THInv, THTypes
  <2>2. Cardinality(AtPoint({"claim", "cost", "consume"})) \in Nat
        /\ Cardinality(AtPoint({"claim", "cost", "consume"})') = Cardinality(AtPoint({"claim", "cost", "consume"}))
    BY <1>9, PointsFinite
  <2> QED
    BY <1>5, <1>6, <2>1, <2>2, RefusalsStay
<1> QED
  BY <1>8, <1>10, <1>11, <1>12, <1>13 DEF THInv

(* Every step keeps the invariant.                                         *)
LEMMA ThrottleStep == ASSUME THInv, Throttler!Next PROVE THInv'
  BY ThrottlePush, ThrottleCheck, ThrottleClaim, ThrottleReadCost, ThrottleConsume, ThrottleAdd,
     ThrottleWake, ThrottleError, ThrottleTick
  DEF Throttler!Next, Throttler!Step

ThrottleInv == Throttling => THInv

(* The invariant holds in every state about the throttler.                 *)
LEMMA ThrottleInvariant == Spec => []ThrottleInv
<1>1. Init => ThrottleInv
  BY ThrottleInit DEF Init, Throttling, Scheduling, Resuming, Reporting, ThrottleInv
<1>2. ThrottleInv /\ [Next]_vars => ThrottleInv'
  <2> SUFFICES ASSUME ThrottleInv, [Next]_vars, Throttling' PROVE THInv'
    BY DEF ThrottleInv
  <2>1. CASE Next
    <3>1. Throttling /\ Throttler!Next
      BY <2>1 DEF Next, Throttling, Scheduling, Resuming, Reporting
    <3> QED
      BY <3>1, ThrottleStep DEF ThrottleInv
  <2>2. CASE UNCHANGED vars
    <3>1. THInv /\ UNCHANGED <<entries, disp, backlog, pushed, recorded, unrecorded, errors>>
      BY <2>2 DEF vars, notFailures, ofThrottler, Throttling, ThrottleInv
    <3>2. \A P : AtPoint(P)' = AtPoint(P)
      BY <3>1 DEF AtPoint
    <3>3. THTypes' /\ JobsCounted' /\ BudgetKept'
      BY <3>1, <3>2 DEF THInv, THTypes, JobsCounted, BudgetKept
    <3>4. RefusalsKept' /\ SleepKept'
      BY <3>1, <3>2 DEF THInv, RefusalsKept, Overtaken, SleepKept
    <3> QED
      BY <3>3, <3>4 DEF THInv
  <2> QED
    BY <2>1, <2>2
<1> QED
  BY <1>1, <1>2, PTL DEF Spec

(* In no window is more recorded than the limit and what dispatchers that  *)
(* read the budget at the same time add on top of it, and a job starts     *)
(* without being recorded only if a record of another dispatcher overtook  *)
(* it: for any number of dispatchers, any costs, limit and window          *)
(* (throttler.rs, dispatcher.rs).                                          *)
THEOREM ThrottleIsSound == Spec => []ThrottleSound
<1>1. ThrottleInv => ThrottleSound
  BY ThrottleImplied DEF ThrottleInv, ThrottleSound
<1> QED
  BY <1>1, ThrottleInvariant, PTL

(* throttled_for is long enough: a dispatcher that slept because of the    *)
(* limit is throttled again only if the others have meanwhile recorded a   *)
(* whole budget.                                                           *)
THEOREM ThrottleSleepsForAReason == Spec => NoIdleThrottle
<1>1. ThrottleInv /\ [Next]_vars => [Throttling => Throttler!SleepsForAReason]_vars
  <2> SUFFICES ASSUME ThrottleInv, Next, Throttling, NEW d \in Dispatchers,
                      disp[d].throttled, disp[d].pc = "check", disp'[d].throttled, disp'[d].pc = "sleep"
               PROVE  disp[d].added = Limit
    BY DEF Throttler!SleepsForAReason
  <2>1. THInv /\ Throttler!Next
    BY DEF ThrottleInv, Next, Throttling, Scheduling, Resuming, Reporting
  <2>2. disp \in [Dispatchers -> DispOf] /\ disp[d] \in DispOf /\ disp[d].added \in 0 .. Limit
    BY <2>1 DEF THInv, THTypes, DispOf
  <2>3. Throttler!Check(d)
    <3>1. ASSUME Throttler!Push PROVE FALSE
      BY <3>1 DEF Throttler!Push
    <3>2. ASSUME Throttler!Tick PROVE FALSE
      BY <2>2, <3>2 DEF Throttler!Tick, DispOf
    <3>3. ASSUME NEW e \in Dispatchers, e # d, Throttler!Step(e) \/ Throttler!Error(e) PROVE FALSE
      <4>1. disp'[d].pc = disp[d].pc
        <5>1. CASE Throttler!Add(e)
          BY <2>2, <3>3, <5>1 DEF Throttler!Add, DispOf
        <5>2. CASE ~Throttler!Add(e)
          BY <2>2, <3>3, <5>2 DEF Throttler!Step, Throttler!Check, Throttler!Claim,
             Throttler!ReadCost,
             Throttler!Consume, Throttler!Wake, Throttler!Error
        <5> QED
          BY <5>1, <5>2
      <4> QED
        BY <4>1
    <3>4. ASSUME Throttler!Error(d) PROVE FALSE
      BY <2>2, <3>4 DEF Throttler!Error, Throttler!Ready
    <3> QED
      BY <2>1, <3>1, <3>2, <3>3, <3>4 DEF Throttler!Next, Throttler!Step, Throttler!Claim,
         Throttler!ReadCost,
         Throttler!Consume, Throttler!Add, Throttler!Wake
  <2>4. /\ entries \in [Ages -> Nat] /\ (Throttler!IsAllowed <=> Sum(entries) < Limit)
        /\ Sum(entries) \in Nat /\ Limit \in Nat
    BY <2>1, RequestsSum, SumType, ThrottlerConstants DEF THInv, THTypes, THNames,
       Throttler!IsAllowed
  <2>5. ~Throttler!IsAllowed
    BY <2>2, <2>3 DEF Throttler!Check, Throttler!Ready
  <2>6. disp[d].added < Limit => Sum(Alive(entries, 0)) <= disp[d].added
    BY <2>1 DEF THInv, SleepKept, SleepOK
  <2>7. Alive(entries, 0) = entries
    <3>1. \A a \in Ages : a + 0 < Window
      BY ThrottlerConstants DEF THNames, Ages
    <3> QED
      BY <2>4, <3>1 DEF Alive
  <2> QED
    BY <2>2, <2>4, <2>5, <2>6, <2>7
<1> QED
  BY <1>1, ThrottleInvariant, PTL DEF Spec, NoIdleThrottle
=============================================================================
