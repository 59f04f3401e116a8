---------------------------- MODULE ProcessProofs ----------------------------
(***************************************************************************)
(* Theorems about the parts of a process, for every value of the constants *)
(* that ProcessAssumption admits: the launcher, a drain, the retries made  *)
(* with a claim in hand and the result collectors.  The parts are proved   *)
(* one after the other; at the end each invariant is a theorem of Spec.    *)
(***************************************************************************)
EXTENDS MCProcess, Sequences, FiniteSetTheorems, TLAPS

-----------------------------------------------------------------------------
(* Sums over a finite set.  A sum is the number of elements of a set of    *)
(* units; induction on finite sets is the choice of a least counterexample.*)

(* A set with g[q] elements for every q of T: its cardinality is the sum.  *)
Units(g, T) == {p \in T \X Nat : p[2] < g[p[1]]}

(* The element that a fold over T takes first.                             *)
Pick(T) == CHOOSE x \in T : TRUE

(* The units of one summand are as many as it says.                        *)
LEMMA UnitsOfOne ==
    ASSUME NEW Q, NEW g \in [Q -> Nat], NEW x \in Q
    PROVE  IsFiniteSet(Units(g, {x})) /\ Cardinality(Units(g, {x})) = g[x]
<1>1. Units(g, {x}) = {x} \X (0 .. g[x] - 1)
  BY DEF Units
<1>2. IsFiniteSet({x}) /\ Cardinality({x}) = 1
  BY FS_Singleton
<1>3. IsFiniteSet(0 .. g[x] - 1) /\ Cardinality(0 .. g[x] - 1) = g[x]
  BY FS_Interval
<1>4. IsFiniteSet({x} \X (0 .. g[x] - 1)) /\ Cardinality({x} \X (0 .. g[x] - 1)) = 1 * g[x]
  BY <1>2, <1>3, FS_Product
<1>5. g[x] \in Nat /\ 1 * g[x] = g[x]
  OBVIOUS
<1>6. Cardinality(Units(g, {x})) = 1 * g[x]
  BY <1>1, <1>4
<1> QED
  BY <1>1, <1>4, <1>5, <1>6

(* The units of a set are those of one element and those of the others.    *)
LEMMA UnitsSplit ==
    ASSUME NEW Q, NEW g \in [Q -> Nat], NEW T \in SUBSET Q, NEW x \in T,
           IsFiniteSet(Units(g, T \ {x}))
    PROVE  /\ IsFiniteSet(Units(g, T))
           /\ Cardinality(Units(g, T)) = g[x] + Cardinality(Units(g, T \ {x}))
           /\ Cardinality(Units(g, T \ {x})) \in Nat
<1>1. IsFiniteSet(Units(g, {x})) /\ Cardinality(Units(g, {x})) = g[x]
  BY UnitsOfOne
<1>2. /\ Units(g, T) = Units(g, {x}) \cup Units(g, T \ {x})
      /\ Units(g, {x}) \cap Units(g, T \ {x}) = {}
  BY DEF Units
<1>3. Cardinality(Units(g, T \ {x})) \in Nat /\ Cardinality({}) = 0 /\ g[x] \in Nat
  BY FS_CardinalityType, FS_EmptySet
<1>4. /\ IsFiniteSet(Units(g, {x}) \cup Units(g, T \ {x}))
      /\ Cardinality(Units(g, {x}) \cup Units(g, T \ {x}))
         = Cardinality(Units(g, {x})) + Cardinality(Units(g, T \ {x}))
           - Cardinality(Units(g, {x}) \cap Units(g, T \ {x}))
  BY <1>1, FS_Union
<1>5. Cardinality(Units(g, T)) = g[x] + Cardinality(Units(g, T \ {x})) - 0
  BY <1>1, <1>2, <1>3, <1>4, Zenon
<1>6. IsFiniteSet(Units(g, T))
  BY <1>2, <1>4, Zenon
<1>7. \A m, n \in Nat : m + n - 0 = m + n
  OBVIOUS
<1>8. Cardinality(Units(g, T)) = g[x] + Cardinality(Units(g, T \ {x}))
  BY <1>3, <1>5, <1>7, Zenon
<1> QED
  BY <1>3, <1>6, <1>8, Zenon

(* Induction on finite sets, as the existence of a least counterexample.   *)
LEMMA LeastSubset ==
    ASSUME NEW Q, IsFiniteSet(Q), NEW C \in SUBSET (SUBSET Q), C # {}
    PROVE  \E T \in C : \A x \in T : T \ {x} \notin C
<1>1. IsWellFoundedOn(StrictSubsetOrdering(Q), SUBSET Q)
  BY FS_StrictSubsetOrderingWellFounded, FS_FiniteSubsetsOfFinite
<1>2. PICK T \in C : \A U \in C : ~(<<U, T>> \in StrictSubsetOrdering(Q))
  BY <1>1, WFMin
<1>3. \A x \in T : <<T \ {x}, T>> \in StrictSubsetOrdering(Q)
  BY DEF StrictSubsetOrdering
<1> QED
  BY <1>2, <1>3

(* Finitely many summands have finitely many units.                        *)
LEMMA UnitsFinite ==
    ASSUME NEW Q, IsFiniteSet(Q), NEW g \in [Q -> Nat], NEW T \in SUBSET Q
    PROVE  IsFiniteSet(Units(g, T)) /\ Cardinality(Units(g, T)) \in Nat
<1> DEFINE C == {U \in SUBSET Q : ~IsFiniteSet(Units(g, U))}
<1>1. ASSUME C # {} PROVE FALSE
  <2>1. PICK U \in C : \A x \in U : U \ {x} \notin C
    BY <1>1, LeastSubset
  <2>2. CASE U = {}
    <3>1. Units(g, {}) = {}
      BY DEF Units
    <3> QED
      BY <2>1, <2>2, <3>1, FS_EmptySet
  <2>3. CASE U # {}
    <3>1. PICK x \in U : TRUE
      BY <2>3
    <3>2. IsFiniteSet(Units(g, U \ {x}))
      BY <2>1
    <3> QED
      BY <2>1, <3>2, UnitsSplit
  <2> QED
    BY <2>2, <2>3
<1> QED
  BY <1>1, FS_CardinalityType

(* A function that adds up g over the subsets of Q, in the order in which  *)
(* their elements are picked.                                              *)
SumsUp(f, g, Q) ==
    \A T \in SUBSET Q : f[T] = IF T = {} THEN 0 ELSE g[Pick(T)] + f[T \ {Pick(T)}]

(* A function that adds up the summands finds the number of units ...      *)
LEMMA SumUnique ==
    ASSUME NEW Q, IsFiniteSet(Q), NEW g \in [Q -> Nat], NEW f, SumsUp(f, g, Q)
    PROVE  f[Q] = Cardinality(Units(g, Q))
<1> DEFINE C == {U \in SUBSET Q : f[U] # Cardinality(Units(g, U))}
<1>1. ASSUME C # {} PROVE FALSE
  <2>1. PICK U \in C : \A x \in U : U \ {x} \notin C
    BY <1>1, LeastSubset
  <2>2. CASE U = {}
    <3>1. Units(g, {}) = {} /\ f[{}] = 0
      BY DEF Units, SumsUp
    <3> QED
      BY <2>1, <2>2, <3>1, FS_EmptySet
  <2>3. CASE U # {}
    <3>1. Pick(U) \in U
      BY <2>3 DEF Pick
    <3>2. f[U \ {Pick(U)}] = Cardinality(Units(g, U \ {Pick(U)}))
      BY <2>1, <3>1
    <3>3. f[U] = g[Pick(U)] + f[U \ {Pick(U)}]
      BY <2>3 DEF SumsUp
    <3>4. Cardinality(Units(g, U)) = g[Pick(U)] + Cardinality(Units(g, U \ {Pick(U)}))
      BY <3>1, UnitsFinite, UnitsSplit
    <3> QED
      BY <2>1, <3>2, <3>3, <3>4
  <2> QED
    BY <2>2, <2>3
<1> QED
  BY <1>1

(* ... and there is one: the function of these numbers.                    *)
LEMMA SumExists ==
    ASSUME NEW Q, IsFiniteSet(Q), NEW g \in [Q -> Nat]
    PROVE  LET u == [T \in SUBSET Q |-> Cardinality(Units(g, T))]
           IN  \A T \in SUBSET Q : u[T] = IF T = {} THEN 0 ELSE g[Pick(T)] + u[T \ {Pick(T)}]
<1> SUFFICES ASSUME NEW T \in SUBSET Q
             PROVE  Cardinality(Units(g, T)) =
                       IF T = {} THEN 0 ELSE g[Pick(T)] + Cardinality(Units(g, T \ {Pick(T)}))
  OBVIOUS
<1>1. CASE T = {}
  <2>1. Units(g, {}) = {}
    BY DEF Units
  <2> QED
    BY <1>1, <2>1, FS_EmptySet
<1>2. CASE T # {}
  <2>1. Pick(T) \in T
    BY <1>2 DEF Pick
  <2> QED
    BY <1>2, <2>1, UnitsFinite, UnitsSplit
<1> QED
  BY <1>1, <1>2

(* Adding n to one summand adds n to the sum.                              *)
LEMMA SumGrows ==
    ASSUME NEW Q, IsFiniteSet(Q), NEW g \in [Q -> Nat], NEW h \in [Q -> Nat], NEW x \in Q,
           NEW n \in Nat, h[x] = g[x] + n, \A y \in Q \ {x} : h[y] = g[y]
    PROVE  Cardinality(Units(h, Q)) = Cardinality(Units(g, Q)) + n
<1>1. Units(h, Q \ {x}) = Units(g, Q \ {x})
  BY DEF Units
<1>2. IsFiniteSet(Units(g, Q \ {x})) /\ Cardinality(Units(g, Q \ {x})) \in Nat
  BY UnitsFinite
<1>3. Cardinality(Units(g, Q)) = g[x] + Cardinality(Units(g, Q \ {x}))
  BY <1>2, UnitsSplit
<1>4. Cardinality(Units(h, Q)) = h[x] + Cardinality(Units(h, Q \ {x}))
  BY <1>1, <1>2, UnitsSplit
<1>5. \A a, b \in Nat : (a + n) + b = (a + b) + n
  OBVIOUS
<1>6. g[x] \in Nat
  OBVIOUS
<1>7. Cardinality(Units(h, Q)) = (g[x] + n) + Cardinality(Units(g, Q \ {x}))
  BY <1>1, <1>4, Zenon
<1> QED
  BY <1>2, <1>3, <1>5, <1>6, <1>7, Zenon

(* The sum of nothing but zeros is zero.                                   *)
LEMMA SumOfZeros ==
    ASSUME NEW Q, NEW g \in [Q -> Nat], \A y \in Q : g[y] = 0
    PROVE  Cardinality(Units(g, Q)) = 0
<1>1. Units(g, Q) = {}
  BY DEF Units
<1> QED
  BY <1>1, FS_EmptySet

-----------------------------------------------------------------------------
(* The cardinality of a set with one element more.                         *)
LEMMA OneMore ==
    ASSUME NEW S, IsFiniteSet(S), NEW x
    PROVE  /\ Cardinality(S) \in Nat /\ Cardinality(S \cup {x}) \in Nat
           /\ Cardinality(S \cup {x}) >= Cardinality(S)
           /\ Cardinality(S \cup {x}) <= Cardinality(S) + 1
           /\ x \notin S => Cardinality(S \cup {x}) = Cardinality(S) + 1
<1>1. Cardinality(S) \in Nat
  BY FS_CardinalityType
<1>2. Cardinality(S \cup {x}) = IF x \in S THEN Cardinality(S) ELSE Cardinality(S) + 1
  BY FS_AddElement
<1> QED
  BY <1>1, <1>2

-----------------------------------------------------------------------------
(* The launcher.                                                           *)
Tasks == Launcher!Tasks
Descendants == Launcher!Descendants
Workers == Coordinators \cup Launcher!Loops

PcOK == pc \in {"running", "done", "dropped", "abort_coordinators", "abort_loops", "abort_tasks",
               "abort_ping", "coordinators", "loops", "tasks", "ping", "cleanup"}
TaskOK == task \in [Tasks -> {"starting", "running", "aborting", "ok", "error", "aborted", "joined"}]
ChildOK == child \in [Descendants -> {"unborn", "running", "gone"}]
TokensOK == cancel \in BOOLEAN /\ force \in BOOLEAN /\ pingCancel \in BOOLEAN /\ timedOut \in BOOLEAN
RecordOK == registered \in BOOLEAN \cup {None} /\ record \in {"absent", "present", "removed"}
FailedOK ==
    /\ firstError \in Tasks \cup Descendants \cup {"cleanup", None}
    /\ IsFiniteSet(failed) /\ failed \subseteq Tasks \cup Descendants \cup {"cleanup"}
CountOK ==
    /\ failures \in Nat /\ faults \in 0 .. MaxFailures
    /\ failures < Tolerance + Cardinality(failed)
LauncherTypes == PcOK /\ TaskOK /\ ChildOK /\ TokensOK /\ RecordOK /\ FailedOK /\ CountOK

(* The stages of the shutdown: what has been joined when run() has reached *)
(* a point of it.                                                          *)
StagesKept ==
    /\ pc \in {"loops", "tasks", "ping", "cleanup", "done", "abort_loops", "abort_tasks", "abort_ping"}
          => Launcher!Joined(Coordinators)
    /\ pc \in {"tasks", "ping", "cleanup", "done", "abort_tasks", "abort_ping"}
          => Launcher!Joined(Launcher!Loops)
    /\ pc \in {"ping", "cleanup", "done", "abort_ping"} => Launcher!NoDescendant
    /\ pc \in {"cleanup", "done"} => task[Ping] = "joined"
    /\ pingCancel => Launcher!Joined(Workers) /\ Launcher!NoDescendant
    /\ record = "removed" => task[Ping] = "joined"

(* Where the errors are: an error that was not yet reported is in a task   *)
(* that was not yet joined.                                                *)
ErrorsKept ==
    /\ \A t \in failed \cap Tasks : task[t] \in {"error", "joined"}
    /\ \A t \in Tasks : task[t] = "error" => t \in failed
    /\ firstError # None => firstError \in failed
    /\ failed # {} => firstError # None \/ \E t \in Tasks : task[t] = "error"

(* A process that took itself for registered has written its record.       *)
RegistrationKept ==
    /\ Launcher!RegisteredFirst
    /\ registered = TRUE => record # "absent"

(* The inductive invariant of the launcher.                                *)
LauncherInv == LauncherTypes /\ StagesKept /\ ErrorsKept /\ RegistrationKept

(* What LauncherAssumption says, in the names of this module.              *)
LNames ==
    /\ ParentOf \in [Descendants -> Workers]
    /\ HasDeadline \in BOOLEAN /\ Tolerance \in Nat \ {0} /\ MaxFailures \in Nat
    /\ Coordinators \cap Launcher!Loops = {} /\ Ping \notin Workers
    /\ Tasks \cap Descendants = {}
    /\ {"cleanup", "ok", "timeout", None} \cap (Tasks \cup Descendants) = {}
    /\ None \notin BOOLEAN \cup {"cleanup", "ok", "timeout"}

(* The constants are as LauncherAssumption says.                           *)
LEMMA NamesAreApart == LNames
  BY ProcessAssumption
  DEF Launcher!LauncherAssumption, LNames, Tasks, Descendants, Workers

(* The instance's cardinality is the one the library is about.             *)
LEMMA LauncherCard == \A S : Launcher!Cardinality(S) = Cardinality(S)
  BY DEF Launcher!Cardinality, Cardinality

(* The types in parts, as the proof needs them, imply the type invariant.  *)
LEMMA TypesAgree == LauncherTypes => Launcher!TypeOK
  BY LauncherCard DEF LauncherTypes, PcOK, TaskOK, ChildOK, TokensOK, RecordOK, FailedOK, CountOK,
     Launcher!TypeOK, Launcher!Live, Launcher!Draining, Tasks, Descendants

(* The invariant implies the property, ...                                 *)
LEMMA LauncherImplied ==
    ASSUME LNames, LauncherInv
    PROVE  Launcher!ShutdownOrderly
<1> USE DEF LauncherInv
<1>1. Launcher!TypeOK /\ Launcher!RegisteredFirst
  BY TypesAgree DEF RegistrationKept
<1>2. Launcher!HeartbeatOutlastsWork
  BY DEF LauncherTypes, TaskOK, StagesKept, Launcher!HeartbeatOutlastsWork, Launcher!Working,
     Launcher!Joined, Launcher!NoDescendant, Workers, Tasks, Launcher!Tasks, Launcher!Live
<1>3. Launcher!NothingLeaks
  BY DEF StagesKept, Launcher!NothingLeaks, Launcher!Working,
     Launcher!Joined, Launcher!NoDescendant, Workers, Tasks, Launcher!Tasks
<1>4. Launcher!ErrorsReported
  <2> SUFFICES ASSUME pc = "done" PROVE Launcher!ErrorsReported
    BY DEF Launcher!ErrorsReported
  <2>1. \A t \in Tasks : task[t] = "joined"
    BY DEF StagesKept, Launcher!Joined, Workers, Tasks, Launcher!Tasks
  <2>2. failed # {} <=> firstError # None
    BY <2>1 DEF ErrorsKept
  <2>3. firstError # None => firstError \in failed /\ firstError \notin {"ok", "timeout"}
    BY DEF ErrorsKept, LauncherTypes, FailedOK, LNames
  <2> QED
    BY <2>2, <2>3 DEF Launcher!ErrorsReported, Launcher!Outcome, LauncherTypes, TokensOK
<1> QED
  BY <1>1, <1>2, <1>3, <1>4 DEF Launcher!ShutdownOrderly

(* and holds when the tasks are spawned.                                   *)
LEMMA LauncherInit ==
    ASSUME LNames, Launcher!Init
    PROVE  LauncherInv
<1> USE DEF Launcher!Init, LNames
<1>1. IsFiniteSet({}) /\ Cardinality({}) = 0
  BY FS_EmptySet
<1>2. FailedOK /\ CountOK
  BY <1>1 DEF FailedOK, CountOK
<1>3. PcOK /\ TaskOK /\ ChildOK /\ RecordOK
  BY DEF PcOK, TaskOK, ChildOK, RecordOK, Tasks, Descendants
<1>4. TokensOK
  BY DEF TokensOK
<1>5. StagesKept
  BY DEF StagesKept
<1>6. ErrorsKept
  BY DEF ErrorsKept, Tasks
<1>7. RegistrationKept
  BY DEF RegistrationKept, Launcher!RegisteredFirst, Launcher!Tasks, Launcher!Loops,
     Launcher!Descendants
<1> QED
  BY <1>2, <1>3, <1>4, <1>5, <1>6, <1>7 DEF LauncherInv, LauncherTypes

(* What one step does to a task: a joined task stays so, an error is there *)
(* until its task is joined and is then the error of run() or comes after  *)
(* one, and who ends with an error is among the failed.                    *)
LEMMA TaskMoves ==
    ASSUME LNames, TaskOK, Launcher!Next, NEW t \in Tasks
    PROVE  /\ task[t] = "joined" => task'[t] = "joined"
           /\ task[t] = "error" => \/ task'[t] = "error"
                                   \/ task'[t] = "joined" /\ firstError' = Launcher!FirstOf(t)
           /\ task'[t] = "error" /\ task[t] # "error" => failed' = failed \cup {t}
           /\ t \in failed' /\ t \notin failed => task'[t] = "error"
<1> DEFINE Goal == /\ task[t] = "joined" => task'[t] = "joined"
                   /\ task[t] = "error" => \/ task'[t] = "error"
                                           \/ task'[t] = "joined" /\ firstError' = Launcher!FirstOf(t)
                   /\ task'[t] = "error" /\ task[t] # "error" => failed' = failed \cup {t}
                   /\ t \in failed' /\ t \notin failed => task'[t] = "error"
<1> USE DEF TaskOK, Tasks
<1>1. ASSUME task' = task, failed' = failed
      PROVE  Goal
  BY <1>1
<1>2. ASSUME NEW u \in Tasks, Launcher!TaskStep(u)
      PROVE  Goal
  BY <1>2 DEF Launcher!TaskStep, Launcher!Register, Launcher!Start, Launcher!Return,
     Launcher!Aborted
<1>3. ASSUME NEW u \in Tasks, Launcher!RegisterFails(u) \/ Launcher!PollFails(u)
      PROVE  Goal
  BY <1>3 DEF Launcher!RegisterFails, Launcher!PollFails, Launcher!Track, Launcher!EndsBadly
<1>4. ASSUME NEW d \in Descendants, Launcher!OwnedFails(d)
      PROVE  Goal
  BY <1>4 DEF Launcher!OwnedFails, Launcher!EndsBadly, LNames, Descendants
<1>5. ASSUME NEW d \in Descendants, Launcher!SpawnedFails(d)
      PROVE  Goal
  BY <1>5 DEF Launcher!SpawnedFails, LNames, Descendants
<1>6. ASSUME NEW u \in Launcher!Joinable(Tasks), Launcher!Join(u), failed' = failed
      PROVE  Goal
  BY <1>6 DEF Launcher!Join, Launcher!Joinable
<1>7. ASSUME NEW S, Launcher!Abort(S), failed' = failed
      PROVE  Goal
  BY <1>7 DEF Launcher!Abort, Launcher!Live
<1>8. Launcher!SelfCleanupFails => Goal
  BY DEF Launcher!SelfCleanupFails, LNames
<1>9. Launcher!TimeUp \/ Launcher!DropRun \/ Launcher!AbortLoops \/ Launcher!AbortPing => Goal
  BY <1>7 DEF Launcher!TimeUp, Launcher!DropRun, Launcher!AbortLoops, Launcher!AbortPing
<1>10. Launcher!Shutdown => Goal
  BY <1>1, <1>6 DEF Launcher!Shutdown
<1>11. Launcher!JoinStep => Goal
  <2>1. \A S \in SUBSET Tasks : Launcher!Joinable(S) \subseteq Launcher!Joinable(Tasks)
    BY DEF Launcher!Joinable
  <2>2. Coordinators \in SUBSET Tasks /\ Launcher!Loops \in SUBSET Tasks /\ {Ping} \in SUBSET Tasks
    BY DEF Launcher!Tasks
  <2> QED
    BY <1>6, <2>1, <2>2 DEF Launcher!JoinStep, Launcher!Joins
<1> QED
  <2>1. CASE UNCHANGED <<task, failed>>
    BY <2>1, <1>1
  <2> QED
    BY <2>1, <1>2, <1>3, <1>4, <1>5, <1>8, <1>9, <1>10, <1>11
    DEF Launcher!Next, Launcher!LauncherStep, Launcher!Poll, Launcher!Beget, Launcher!Complete, Launcher!Dropped,
        Launcher!CoordinatorsDone, Launcher!LoopsDone, Launcher!TasksDone, Launcher!PingDone,
        Launcher!SelfCleanup,
        Launcher!AbortedLoopsDone, Launcher!AbortedPingDone, Launcher!Onward, Descendants

(* Every step of the launcher keeps its invariant, conjunct by conjunct.   *)
LEMMA LauncherStep ==
    ASSUME LNames, LauncherInv, Launcher!Next
    PROVE  LauncherInv'
<1> USE DEF LauncherInv, LauncherTypes, Launcher!Next,
    Launcher!TaskStep, Launcher!Register, Launcher!Start, Launcher!Return, Launcher!Aborted,
    Launcher!RegisterFails, Launcher!PollFails, Launcher!Poll, Launcher!Track, Launcher!EndsBadly,
    Launcher!Beget, Launcher!Complete, Launcher!OwnedFails, Launcher!SpawnedFails, Launcher!Dropped,
    Launcher!Shutdown, Launcher!LauncherStep, Launcher!SelfCleanupFails, Launcher!TimeUp,
    Launcher!DropRun,
    Launcher!JoinStep, Launcher!Joins, Launcher!Join, Launcher!CoordinatorsDone, Launcher!LoopsDone,
    Launcher!TasksDone, Launcher!PingDone, Launcher!SelfCleanup, Launcher!AbortLoops, Launcher!AbortedLoopsDone,
    Launcher!AbortPing, Launcher!AbortedPingDone, Launcher!Onward, Launcher!Fail, Launcher!tokens
<1>1. LauncherTypes'
  <2>1. PcOK'
    BY DEF PcOK
  <2>2. TaskOK'
    BY DEF TaskOK, LNames, Launcher!Abort, Tasks, Workers, Descendants
  <2>3. ChildOK'
    BY DEF ChildOK, Descendants
  <2>4. TokensOK'
    BY DEF TokensOK
  <2>5. RecordOK'
    BY DEF RecordOK
  <2>6. FailedOK'
    BY FS_AddElement DEF FailedOK, LNames, Launcher!FirstOf, Tasks, Workers, Descendants,
       Launcher!Joinable, Launcher!Tasks, Launcher!Loops
  <2>7. CountOK'
    <3>1. IsFiniteSet(failed) /\ Cardinality(failed) \in Nat
      BY FS_CardinalityType DEF FailedOK
    <3>2. failures' \in Nat /\ faults' \in 0 .. MaxFailures
      BY DEF CountOK, LNames
    <3>3. ASSUME NEW t \in Tasks, Launcher!Track(t), t \notin failed
          PROVE  failures' < Tolerance + Cardinality(failed')
      <4>1. /\ failures' = failures + 1
            /\ failures' >= Tolerance => failed' = failed \cup {t}
            /\ ~(failures' >= Tolerance) => failed' = failed
        BY <3>3
      <4>2. Cardinality(failed \cup {t}) = Cardinality(failed) + 1
        BY <3>1, <3>3, OneMore, Zenon
      <4> QED
        BY <3>1, <4>1, <4>2 DEF CountOK, LNames
    <3>4. \A t \in Tasks : task[t] \in {"starting", "running", "aborting"} => t \notin failed
      BY DEF ErrorsKept
    <3>5. CASE \E t \in Tasks : Launcher!RegisterFails(t) \/ Launcher!PollFails(t)
      <4> HIDE DEF Launcher!Track
      <4> QED
        BY <3>2, <3>3, <3>4, <3>5 DEF CountOK
    <3>6. CASE failures' \in {failures, 0} /\ \E x : failed' \in {failed, failed \cup {x}}
      <4>1. Cardinality(failed') \in Nat /\ Cardinality(failed') >= Cardinality(failed)
        <5> PICK x : failed' \in {failed, failed \cup {x}}
          BY <3>6
        <5>1. /\ Cardinality(failed \cup {x}) \in Nat
              /\ Cardinality(failed \cup {x}) >= Cardinality(failed)
          BY <3>1, OneMore, Zenon
        <5>2. CASE failed' = failed
          BY <3>1, <5>2
        <5>3. CASE failed' = failed \cup {x}
          BY <5>1, <5>3
        <5> QED
          BY <5>2, <5>3
      <4> QED
        BY <3>1, <3>2, <3>6, <4>1 DEF CountOK, LNames
    <3> QED
      BY <3>5, <3>6 DEF Tasks
  <2> QED
    BY <2>1, <2>2, <2>3, <2>4, <2>5, <2>6, <2>7
<1>2. RegistrationKept'
  <2>0. record' = "absent" => record = "absent"
    OBVIOUS
  <2>1. (registered = TRUE => record # "absent")'
    BY DEF RegistrationKept, LNames
  <2>2. ASSUME record = "absent", NEW t \in Coordinators \cup Sweepers
        PROVE  task'[t] # "running"
    BY <2>2 DEF RegistrationKept, LNames, Launcher!RegisteredFirst, TaskOK, Tasks, RecordOK,
       Launcher!Tasks, Launcher!Loops, Launcher!Abort
  <2>3. ASSUME record = "absent", NEW d \in Descendants, ParentOf[d] \in Coordinators
        PROVE  child'[d] = "unborn"
    BY <2>3 DEF RegistrationKept, LNames, Launcher!RegisteredFirst, ChildOK, Descendants
  <2> QED
    BY <2>0, <2>1, <2>2, <2>3 DEF RegistrationKept, Launcher!RegisteredFirst, Descendants
<1>3. ErrorsKept'
  <2>0. failed \subseteq failed' /\ (firstError # None => firstError' = firstError)
    BY DEF Launcher!FirstOf
  <2>1. ASSUME NEW t \in Tasks, t \in failed'
        PROVE  task'[t] \in {"error", "joined"}
    BY <2>1, TaskMoves DEF ErrorsKept
  <2>2. ASSUME NEW t \in Tasks, task'[t] = "error"
        PROVE  t \in failed'
    BY <2>0, <2>2, TaskMoves DEF ErrorsKept
  <2>3. ASSUME firstError = None, firstError' # None
        PROVE  firstError' \in failed'
    <3>1. Launcher!Loops \subseteq Tasks /\ Coordinators \subseteq Tasks /\ Ping \in Tasks
      BY DEF Tasks, Launcher!Tasks
    <3>2. \/ firstError' \in failed'
          \/ \E t \in Tasks : task[t] = "error" /\ firstError' = t
      BY <3>1, <2>3 DEF Launcher!FirstOf, Launcher!Joinable, Tasks
    <3> QED
      BY <3>2, <2>0 DEF ErrorsKept
  <2>4. failed' # {} => firstError' # None \/ \E t \in Tasks : task'[t] = "error"
    <3>1. CASE \E t \in Tasks : task[t] = "error"
      BY <3>1, TaskMoves DEF Launcher!FirstOf, LNames
    <3>2. CASE firstError # None
      BY <3>2, <2>0
    <3>3. ASSUME NEW x \in failed', x \notin failed, x \in Tasks
          PROVE  task'[x] = "error"
      BY <3>3, TaskMoves
    <3>4. ASSUME NEW x \in failed', x \notin failed, x \notin Tasks
          PROVE  firstError' # None
      BY <3>4 DEF LNames, Launcher!FirstOf, Descendants, Tasks, Workers, Launcher!Tasks
    <3> QED
      BY <3>1, <3>2, <3>3, <3>4, <2>0 DEF ErrorsKept
  <2> QED
    BY <2>0, <2>1, <2>2, <2>3, <2>4 DEF ErrorsKept
<1>4. StagesKept'
  <2>1. ASSUME NEW t \in Tasks, task[t] = "joined"
        PROVE  task'[t] = "joined"
    BY <2>1, TaskMoves
  <2>2. ASSUME Launcher!Joined(Workers), Launcher!NoDescendant
        PROVE  Launcher!NoDescendant'
    BY <2>2 DEF Launcher!Joined, Launcher!NoDescendant, ChildOK, Descendants, LNames
  <2>3. \A S \in SUBSET Tasks : Launcher!Joined(S) => Launcher!Joined(S)'
    BY <2>1 DEF Launcher!Joined
  <2>4. Coordinators \in SUBSET Tasks /\ Launcher!Loops \in SUBSET Tasks /\ Ping \in Tasks /\ {Ping} \in SUBSET Tasks /\ Workers \in SUBSET Tasks
    BY DEF Tasks, Launcher!Tasks, Workers
  <2>5. Launcher!Joined(Workers) <=> Launcher!Joined(Coordinators) /\ Launcher!Joined(Launcher!Loops)
    BY DEF Launcher!Joined, Workers
  <2> USE <2>3, <2>4, <2>5
  <2>11. pc' \in {"loops", "tasks", "ping", "cleanup", "done", "abort_loops", "abort_tasks", "abort_ping"}
            => Launcher!Joined(Coordinators)'
    BY DEF StagesKept
  <2>12. pc' \in {"tasks", "ping", "cleanup", "done", "abort_tasks", "abort_ping"}
            => Launcher!Joined(Launcher!Loops)'
    BY DEF StagesKept
  <2>13. pc' \in {"ping", "cleanup", "done", "abort_ping"} => Launcher!NoDescendant'
    BY <2>2 DEF StagesKept
  <2>14. pc' \in {"cleanup", "done"} => task'[Ping] = "joined"
    BY <2>1 DEF StagesKept, Launcher!Joined
  <2>15. pingCancel' => Launcher!Joined(Workers)' /\ Launcher!NoDescendant'
    BY <2>2 DEF StagesKept
  <2>16. record' = "removed" => task'[Ping] = "joined"
    BY <2>1 DEF StagesKept
  <2> QED
    BY <2>11, <2>12, <2>13, <2>14, <2>15, <2>16 DEF StagesKept
<1> QED
  BY <1>1, <1>2, <1>3, <1>4

-----------------------------------------------------------------------------
(* The drainer.                                                            *)
LEMMA DrainerCard == \A S : Drainer!Cardinality(S) = Cardinality(S)
  BY DEF Drainer!Cardinality, Cardinality

(* The jobs of a queue are finitely many, as DrainerAssumption says.       *)
LEMMA IdsFinite == IsFiniteSet(Ids)
  BY ProcessAssumption DEF Drainer!DrainerAssumption, Drainer!IsFiniteSet, IsFiniteSet

DrainTypes ==
    /\ queue \in Seq(Nat)
    /\ claims \in [Drains -> SUBSET Nat]
    /\ record \in [Drains -> {"none", "fresh", "stale"}] /\ beating \in [Drains -> BOOLEAN]
    /\ pc \in [Drains -> {"idle", "next", "load", "process", "stop", "cleanup", "returned", "dropped"}]
    /\ hand \in [Drains -> Nat \cup {None}]
    /\ \A d \in Drains : pc[d] \in {"load", "process"} => hand[d] \in Nat
    /\ result \in [Drains -> {None, "ok", "error"}]

(* Every id is in one place: once on the queue, or in one processing list. *)
IdInOnePlace ==
    /\ \A i, j \in 1 .. Len(queue) : queue[i] = queue[j] => i = j
    /\ \A i \in 1 .. Len(queue), d \in Drains : queue[i] \notin claims[d]
    /\ \A d, e \in Drains : d # e => claims[d] \cap claims[e] = {}

(* A drain whose heartbeat did not give up has its record and its claim.   *)
ClaimKept ==
    \A d \in Drains \ lapsed :
        /\ pc[d] \in {"next", "load", "process", "stop"} => record[d] = "fresh" /\ beating[d]
        /\ pc[d] \in {"load", "process"} => hand[d] \in claims[d]

(* What is left of the claims of a drain.                                  *)
ClaimsSettled ==
    \A d \in Drains :
        /\ pc[d] = "idle" => claims[d] = {}
        /\ pc[d] = "next" => claims[d] \subseteq missing[d]
        /\ pc[d] \in {"load", "process"} => claims[d] \subseteq missing[d] \cup {hand[d]}
        /\ pc[d] \in {"stop", "cleanup", "returned"} /\ result[d] = "ok" => claims[d] \subseteq missing[d]

(* What a drain counts: no job is missing and settled too.                 *)
Numbers == [processed : Nat, succeeded : Nat, failed : Nat]

CountsKept ==
    /\ missing \in [Drains -> SUBSET Nat]
    /\ stats \in [Drains -> Numbers]
    /\ \A d \in Drains : IsFiniteSet(missing[d])
    /\ \A d \in Drains :
       stats[d].processed >= stats[d].succeeded + stats[d].failed + Cardinality(missing[d])

(* The inductive invariant of the drainer.                                 *)
DrainerInv == DrainTypes /\ IdInOnePlace /\ ClaimKept /\ ClaimsSettled /\ CountsKept

(* It implies the property.                                                *)
LEMMA DrainerImplied == DrainerInv => Drainer!DrainSound
<1>1. ASSUME DrainerInv PROVE Drainer!DrainsExclusive
  BY <1>1 DEF DrainerInv, IdInOnePlace, ClaimKept, Drainer!DrainsExclusive
<1>2. ASSUME DrainerInv PROVE Drainer!OkMeansDrained
  BY <1>2, DrainerCard DEF DrainerInv, ClaimsSettled, CountsKept, Drainer!OkMeansDrained
<1> QED
  BY <1>1, <1>2 DEF Drainer!DrainSound

(* It holds at first ...                                                   *)
LEMMA DrainerInit ==
    ASSUME IsFiniteSet(Ids), Drainer!Init
    PROVE  DrainerInv
<1>1. Cardinality(Ids) \in Nat
  BY FS_CardinalityType
<1>2. queue \in Seq(Nat) /\ Len(queue) = Cardinality(Ids) /\ \A i \in 1 .. Len(queue) : queue[i] = i
  BY <1>1, DrainerCard DEF Drainer!Init
<1>3. DrainTypes
  BY <1>2 DEF Drainer!Init, DrainTypes
<1>4. IdInOnePlace
  <2>1. \A d \in Drains : claims[d] = {}
    BY DEF Drainer!Init
  <2> QED
    BY <1>2, <2>1 DEF IdInOnePlace
<1>6. ClaimKept
  BY DEF Drainer!Init, ClaimKept
<1>7. ClaimsSettled
  BY DEF Drainer!Init, ClaimsSettled
<1>5. CountsKept
  <2>1. IsFiniteSet({}) /\ Cardinality({}) = 0
    BY FS_EmptySet
  <2> QED
    BY <2>1 DEF Drainer!Init, CountsKept, Numbers
<1> QED
  BY <1>3, <1>4, <1>5, <1>6, <1>7 DEF DrainerInv

(* What taking an id off a processing list leaves.                         *)
LEMMA Unclaimed ==
    ASSUME claims \in [Drains -> SUBSET Nat], NEW d \in Drains, NEW i,
           claims' = [claims EXCEPT ![d] = @ \ {i}]
    PROVE  /\ claims' \in [Drains -> SUBSET Nat]
           /\ claims'[d] = claims[d] \ {i}
           /\ \A e \in Drains : e # d => claims'[e] = claims[e]
<1>1. claims[d] \ {i} \in SUBSET Nat
  OBVIOUS
<1> QED
  BY <1>1

(* What counting a job adds.                                               *)
LEMMA Counted ==
    ASSUME NEW f \in [Drains -> Numbers], NEW d \in Drains
    PROVE  LET g == [f EXCEPT ![d].processed = @ + 1]
           IN  /\ g \in [Drains -> Numbers] /\ \A e \in Drains : e # d => g[e] = f[e]
               /\ g[d].processed = f[d].processed + 1
               /\ g[d].succeeded = f[d].succeeded /\ g[d].failed = f[d].failed
  BY DEF Numbers

(* A job that succeeded is counted once.                                   *)
LEMMA CountedSucceeded ==
    ASSUME NEW f \in [Drains -> Numbers], NEW d \in Drains
    PROVE  LET g == [f EXCEPT ![d].processed = @ + 1, ![d].succeeded = @ + 1]
           IN  /\ g \in [Drains -> Numbers] /\ \A e \in Drains : e # d => g[e] = f[e]
               /\ g[d].succeeded = f[d].succeeded + 1
               /\ g[d].processed = f[d].processed + 1 /\ g[d].failed = f[d].failed
<1> DEFINE h == [f EXCEPT ![d].processed = @ + 1]
<1>1. /\ h \in [Drains -> Numbers] /\ \A e \in Drains : e # d => h[e] = f[e]
      /\ h[d].processed = f[d].processed + 1
      /\ h[d].succeeded = f[d].succeeded /\ h[d].failed = f[d].failed
  BY Counted, Zenon
<1>2. [f EXCEPT ![d].processed = @ + 1, ![d].succeeded = @ + 1] = [h EXCEPT ![d].succeeded = f[d].succeeded + 1]
  OBVIOUS
<1> HIDE DEF h
<1> QED
  BY <1>1, <1>2 DEF Numbers

(* A job that failed is counted once.                                      *)
LEMMA CountedFailed ==
    ASSUME NEW f \in [Drains -> Numbers], NEW d \in Drains
    PROVE  LET g == [f EXCEPT ![d].processed = @ + 1, ![d].failed = @ + 1]
           IN  /\ g \in [Drains -> Numbers] /\ \A e \in Drains : e # d => g[e] = f[e]
               /\ g[d].failed = f[d].failed + 1
               /\ g[d].processed = f[d].processed + 1 /\ g[d].succeeded = f[d].succeeded
<1> DEFINE h == [f EXCEPT ![d].processed = @ + 1]
<1>1. /\ h \in [Drains -> Numbers] /\ \A e \in Drains : e # d => h[e] = f[e]
      /\ h[d].processed = f[d].processed + 1
      /\ h[d].succeeded = f[d].succeeded /\ h[d].failed = f[d].failed
  BY Counted, Zenon
<1>2. [f EXCEPT ![d].processed = @ + 1, ![d].failed = @ + 1] = [h EXCEPT ![d].failed = f[d].failed + 1]
  OBVIOUS
<1> HIDE DEF h
<1> QED
  BY <1>1, <1>2 DEF Numbers

(* An id that is put back on a queue that has it not stays the only one.   *)
LEMMA PutBack ==
    ASSUME NEW q \in Seq(Nat), NEW i \in Nat,
           \A j, k \in 1 .. Len(q) : q[j] = q[k] => j = k,
           \A j \in 1 .. Len(q) : q[j] # i
    PROVE  /\ Append(q, i) \in Seq(Nat) /\ Len(Append(q, i)) = Len(q) + 1
           /\ \A j \in 1 .. Len(q) + 1 : Append(q, i)[j] = IF j = Len(q) + 1 THEN i ELSE q[j]
           /\ \A j, k \in 1 .. Len(q) + 1 : Append(q, i)[j] = Append(q, i)[k] => j = k
<1>1. /\ Append(q, i) \in Seq(Nat) /\ Len(Append(q, i)) = Len(q) + 1
      /\ \A j \in 1 .. Len(q) + 1 : Append(q, i)[j] = IF j = Len(q) + 1 THEN i ELSE q[j]
  OBVIOUS
<1> QED
  BY <1>1

(* ... and every step of a drain, of a sweep or of the dashboard keeps it. *)
LEMMA DrainerStep ==
    ASSUME DrainerInv, Drainer!Next
    PROVE  DrainerInv'
<1> USE DEF DrainerInv, DrainTypes
<1>1. ASSUME NEW d \in Drains, Drainer!Begin(d) \/ Drainer!BeginFails(d) \/ Drainer!BeatGivesUp(d) \/ Drainer!Expire(d)
      PROVE  DrainerInv'
  <2> USE <1>1 DEF Drainer!Begin, Drainer!BeginFails, Drainer!BeatGivesUp, Drainer!Expire, Drainer!Faulty, Drainer!store
  <2>1. DrainTypes'
    OBVIOUS
  <2>2. IdInOnePlace'
    BY DEF IdInOnePlace
  <2>3. ClaimKept'
    BY DEF ClaimKept
  <2>4. ClaimsSettled'
    BY DEF ClaimsSettled, CountsKept
  <2>5. CountsKept'
    BY DEF CountsKept
  <2> QED
    BY <2>1, <2>2, <2>3, <2>4, <2>5
<1>2. ASSUME NEW d \in Drains, Drainer!Stop(d) \/ Drainer!SelfCleanup(d) \/ Drainer!Drop(d)
      PROVE  DrainerInv'
  <2> USE <1>2 DEF Drainer!Stop, Drainer!SelfCleanup, Drainer!Drop, Drainer!Faulty, Drainer!store
  <2>1. DrainTypes'
    OBVIOUS
  <2>2. IdInOnePlace'
    BY DEF IdInOnePlace
  <2>3. ClaimKept'
    BY DEF ClaimKept
  <2>4. ClaimsSettled'
    <3>1. CASE Drainer!SelfCleanup(d)
      BY <3>1 DEF ClaimsSettled
    <3>2. CASE Drainer!Stop(d) \/ Drainer!Drop(d)
      BY <3>2 DEF ClaimsSettled
    <3> QED
      BY <3>1, <3>2
  <2>5. CountsKept'
    BY DEF CountsKept
  <2> QED
    BY <2>1, <2>2, <2>3, <2>4, <2>5
<1>3. ASSUME NEW d \in Drains, Drainer!Dequeue(d)
      PROVE  DrainerInv'
  <2> USE <1>3 DEF Drainer!Dequeue, Drainer!Faulty, Drainer!store
  <2>1. DrainTypes'
    OBVIOUS
  <2>2. IdInOnePlace'
    BY DEF IdInOnePlace
  <2>3. ClaimKept'
    BY DEF ClaimKept
  <2>4. ClaimsSettled'
    BY DEF ClaimsSettled, CountsKept
  <2>5. CountsKept'
    BY DEF CountsKept
  <2> QED
    BY <2>1, <2>2, <2>3, <2>4, <2>5
<1>4. ASSUME NEW d \in Drains, Drainer!Empty(d) \/ Drainer!Load(d) \/ Drainer!GiveUp(d)
      PROVE  DrainerInv'
  <2> USE <1>4 DEF Drainer!Empty, Drainer!Load, Drainer!GiveUp, Drainer!Faulty, Drainer!store
  <2>1. DrainTypes'
    OBVIOUS
  <2>2. IdInOnePlace'
    BY DEF IdInOnePlace
  <2>3. ClaimKept'
    BY DEF ClaimKept
  <2>4. ClaimsSettled'
    BY DEF ClaimsSettled, CountsKept
  <2>5. CountsKept'
    BY DEF CountsKept
  <2> QED
    BY <2>1, <2>2, <2>3, <2>4, <2>5
<1>5. ASSUME NEW d \in Drains, Drainer!Missing(d)
      PROVE  DrainerInv'
  <2> USE <1>5 DEF Drainer!Missing, Drainer!Faulty, Drainer!store
  <2>1. DrainTypes'
    OBVIOUS
  <2>2. IdInOnePlace'
    BY DEF IdInOnePlace
  <2>3. ClaimKept'
    BY DEF ClaimKept
  <2>4. ClaimsSettled'
    BY DEF ClaimsSettled, CountsKept
  <2>5. CountsKept'
    <3>1. /\ Cardinality(missing[d]) \in Nat /\ Cardinality(missing[d] \cup {hand[d]}) \in Nat
          /\ Cardinality(missing[d] \cup {hand[d]}) <= Cardinality(missing[d]) + 1
          /\ IsFiniteSet(missing[d] \cup {hand[d]})
      BY OneMore, FS_AddElement DEF CountsKept
    <3>2. hand[d] \in Nat
      OBVIOUS
    <3>3. missing[d] \cup {hand[d]} \in SUBSET Nat
      BY <3>2 DEF CountsKept
    <3>4. missing' \in [Drains -> SUBSET Nat] /\ missing'[d] = missing[d] \cup {hand[d]}
          /\ \A e \in Drains : e # d => missing'[e] = missing[e]
      BY <3>3 DEF CountsKept
    <3>5. /\ stats' \in [Drains -> Numbers]
          /\ stats'[d].processed = stats[d].processed + 1 /\ stats'[d].succeeded = stats[d].succeeded
          /\ stats'[d].failed = stats[d].failed
          /\ \A e \in Drains : e # d => stats'[e] = stats[e]
      BY Counted, Zenon DEF CountsKept
    <3>6. stats'[d].processed >= stats'[d].succeeded + stats'[d].failed + Cardinality(missing'[d])
      BY <3>1, <3>4, <3>5 DEF CountsKept, Numbers
    <3> QED
      BY <3>1, <3>4, <3>5, <3>6 DEF CountsKept
  <2> QED
    BY <2>1, <2>2, <2>3, <2>4, <2>5
<1>6. ASSUME NEW d \in Drains, Drainer!Succeed(d) \/ Drainer!Kill(d) \/ Drainer!Unanswered(d)
      PROVE  DrainerInv'
  <2>1. /\ queue' = queue /\ record' = record /\ beating' = beating /\ missing' = missing /\ lapsed' = lapsed
        /\ claims' = [claims EXCEPT ![d] = @ \ {hand[d]}]
        /\ hand' = [hand EXCEPT ![d] = None]
        /\ \/ pc' = [pc EXCEPT ![d] = "next"] /\ result' = result
           \/ pc' = [pc EXCEPT ![d] = "stop"] /\ result' = [result EXCEPT ![d] = "error"]
        /\ pc[d] = "process"
    BY <1>6 DEF Drainer!Succeed, Drainer!Kill, Drainer!Unanswered, Drainer!Count
  <2>2. /\ claims' \in [Drains -> SUBSET Nat]
        /\ claims'[d] = claims[d] \ {hand[d]}
        /\ \A e \in Drains : e # d => claims'[e] = claims[e]
    BY <2>1, Unclaimed
  <2>3. DrainTypes'
    BY <2>1, <2>2
  <2>4. IdInOnePlace'
    BY <2>1, <2>2 DEF IdInOnePlace
  <2>5. ClaimKept'
    BY <2>1, <2>2 DEF ClaimKept
  <2>6. ClaimsSettled'
    BY <2>1, <2>2 DEF ClaimsSettled, CountsKept
  <2>7. CountsKept'
    <3>0. stats \in [Drains -> Numbers] /\ d \in Drains
      BY DEF CountsKept
    <3>1. \/ stats' = stats
          \/ stats' = [stats EXCEPT ![d].processed = @ + 1, ![d].succeeded = @ + 1]
          \/ stats' = [stats EXCEPT ![d].processed = @ + 1, ![d].failed = @ + 1]
      BY <1>6 DEF Drainer!Succeed, Drainer!Kill, Drainer!Unanswered, Drainer!Count
    <3>2. \A e \in Drains : Cardinality(missing[e]) \in Nat
      BY FS_CardinalityType DEF CountsKept
    <3>3. CASE stats' = stats
      BY <2>1, <3>3 DEF CountsKept
    <3>4. CASE stats' = [stats EXCEPT ![d].processed = @ + 1, ![d].succeeded = @ + 1]
      <4>1. /\ stats' \in [Drains -> Numbers] /\ \A e \in Drains : e # d => stats'[e] = stats[e]
            /\ stats'[d].succeeded = stats[d].succeeded + 1
            /\ stats'[d].processed = stats[d].processed + 1 /\ stats'[d].failed = stats[d].failed
        BY ONLY <3>0, <3>4, CountedSucceeded, Zenon
      <4>2. stats'[d].processed >= stats'[d].succeeded + stats'[d].failed + Cardinality(missing[d])
        BY <3>2, <4>1 DEF CountsKept, Numbers
      <4> QED
        BY <2>1, <4>1, <4>2 DEF CountsKept
    <3>5. CASE stats' = [stats EXCEPT ![d].processed = @ + 1, ![d].failed = @ + 1]
      <4>1. /\ stats' \in [Drains -> Numbers] /\ \A e \in Drains : e # d => stats'[e] = stats[e]
            /\ stats'[d].failed = stats[d].failed + 1
            /\ stats'[d].processed = stats[d].processed + 1 /\ stats'[d].succeeded = stats[d].succeeded
        BY ONLY <3>0, <3>5, CountedFailed, Zenon
      <4>2. stats'[d].processed >= stats'[d].succeeded + stats'[d].failed + Cardinality(missing[d])
        BY <3>2, <4>1 DEF CountsKept, Numbers
      <4> QED
        BY <2>1, <4>1, <4>2 DEF CountsKept
    <3> QED
      BY <3>1, <3>3, <3>4, <3>5
  <2> QED
    BY <2>3, <2>4, <2>5, <2>6, <2>7
<1>8. ASSUME NEW d \in Drains, NEW i \in claims[d], record[d] # "fresh",
             claims' = [claims EXCEPT ![d] = @ \ {i}],
             queue' = Append(queue, i) \/ queue' = queue,
             UNCHANGED <<record, beating, pc, hand, result, missing, stats, lapsed>>
      PROVE  DrainerInv'
  <2>0. /\ claims' \in [Drains -> SUBSET Nat]
        /\ claims'[d] = claims[d] \ {i}
        /\ \A e \in Drains : e # d => claims'[e] = claims[e]
    BY <1>8, Unclaimed
  <2> USE <1>8, <2>0
  <2>1. DrainTypes'
    <3>1. i \in Nat
      OBVIOUS
    <3>2. queue' \in Seq(Nat)
      BY <3>1
    <3> QED
      BY <3>2
  <2>2. IdInOnePlace'
    <3>1. i \in Nat /\ \A j \in 1 .. Len(queue) : queue[j] # i
      BY DEF IdInOnePlace
    <3>2. CASE queue' = Append(queue, i)
      <4>1. /\ Len(queue') = Len(queue) + 1
            /\ \A j \in 1 .. Len(queue') : queue'[j] = IF j = Len(queue') THEN i ELSE queue[j]
            /\ \A j, k \in 1 .. Len(queue') : queue'[j] = queue'[k] => j = k
        BY <3>1, <3>2, PutBack DEF IdInOnePlace
      <4>2. \A j \in 1 .. Len(queue'), e \in Drains : queue'[j] \notin claims'[e]
        BY <3>1, <4>1 DEF IdInOnePlace
      <4>3. \A e, f \in Drains : e # f => claims'[e] \cap claims'[f] = {}
        BY DEF IdInOnePlace
      <4> QED
        BY <4>1, <4>2, <4>3 DEF IdInOnePlace
    <3>3. CASE queue' = queue
      BY <3>1, <3>3 DEF IdInOnePlace
    <3> QED
      BY <3>2, <3>3
  <2>3. ClaimKept'
    BY DEF ClaimKept
  <2>4. ClaimsSettled'
    BY DEF ClaimsSettled, CountsKept
  <2>5. CountsKept'
    BY DEF CountsKept
  <2> QED
    BY <2>1, <2>2, <2>3, <2>4, <2>5
<1>9. ASSUME NEW d \in Drains, Drainer!Sweep(d)
      PROVE  DrainerInv'
  BY <1>9, <1>8 DEF Drainer!Sweep
<1>10. ASSUME NEW i \in Ids, Drainer!Delete(i)
      PROVE  DrainerInv'
  BY <1>10 DEF Drainer!Delete, Drainer!Faulty, IdInOnePlace, ClaimKept, ClaimsSettled, CountsKept
<1> QED
  BY <1>1, <1>2, <1>3, <1>4, <1>5, <1>6, <1>9, <1>10 DEF Drainer!Next, Drainer!Work

-----------------------------------------------------------------------------
(* The retries made with a claim in hand.                                  *)
RetryAssumption ==
    /\ {Window, Initial, Ceiling, LongestTry} \subseteq Nat
    /\ Initial >= 2 /\ Initial <= Ceiling

(* The constants are as RetryAssumption says.                              *)
LEMMA RetryConstants == RetryAssumption
  BY ProcessAssumption DEF RetryAssumption, Retries!RetryAssumption

(* What Min is of two numbers.                                             *)
LEMMA SmallerOf ==
    ASSUME NEW a \in Int, NEW b \in Int
    PROVE  Retries!Min({a, b}) = IF a <= b THEN a ELSE b
<1> DEFINE m == IF a <= b THEN a ELSE b
<1>1. m \in {a, b} /\ \A y \in {a, b} : m <= y
  OBVIOUS
<1>2. \A x \in {a, b} : (\A y \in {a, b} : x <= y) => x = m
  OBVIOUS
<1> QED
  BY <1>1, <1>2 DEF Retries!Min

(* What Max is of two numbers.                                             *)
LEMMA LargerOf ==
    ASSUME NEW a \in Int, NEW b \in Int
    PROVE  Retries!Max({a, b}) = IF a >= b THEN a ELSE b
<1> DEFINE m == IF a >= b THEN a ELSE b
<1>1. m \in {a, b} /\ \A y \in {a, b} : m >= y
  OBVIOUS
<1>2. \A x \in {a, b} : (\A y \in {a, b} : x >= y) => x = m
  OBVIOUS
<1> QED
  BY <1>1, <1>2 DEF Retries!Max

(* Facts on the arithmetic of the backoff: half of a larger ceiling is not *)
(* smaller, and as many delays fit in a window as their sum says.          *)
LEMMA Halves ==
    ASSUME NEW a \in Nat, NEW b \in Nat, a <= b
    PROVE  /\ a \div 2 \in Nat /\ b \div 2 \in Nat /\ a \div 2 <= b \div 2
           /\ a >= 2 => a \div 2 >= 1
  OBVIOUS

(* As many delays fit in a window as their sum says ...                    *)
LEMMA FitsIn ==
    ASSUME NEW a \in Nat, NEW h \in Nat \ {0}, NEW w \in Nat, a * h <= w
    PROVE  a <= w \div h
  OBVIOUS

(* ... and with one delay more, one more fits.                             *)
LEMMA OneDelayMore ==
    ASSUME NEW a \in Nat, NEW h \in Nat
    PROVE  /\ (a + 1) * h = a * h + h /\ a * h \in Nat
           /\ 0 * h = 0
  OBVIOUS

Half == Initial \div 2

(* The start of the window.                                                *)
Opened == IF kind = "connection" THEN 0 ELSE deadline - Window

RetryTypes ==
    /\ Retries!TypeOK
    /\ {now, deadline, error, attempts} \subseteq Nat

(* The inductive invariant of a retry: until it returns, the error is the  *)
(* one of the last attempt; and half of the first ceiling has passed for   *)
(* every delay.                                                            *)
RetryInv ==
    /\ RetryTypes /\ Retries!WindowKept
    /\ pc # "done" => result = "none" /\ error = attempts
    /\ pc = "backoff" => attempts > 0
    /\ result = "transient" => error > 0 /\ error + 1 >= attempts
    /\ result = "timeout" => kind = "connection" /\ error = 0
    /\ kind = "payload" /\ attempts > 0 => deadline >= Window
    /\ kind = "payload" /\ attempts = 0 => pc = "try"
    /\ pc = "try" /\ (kind = "connection" \/ attempts > 0) => now - Opened >= attempts * Half
    /\ pc = "backoff" => now - Opened >= (attempts - 1) * Half
    /\ pc = "done" => attempts <= 1 \/ (Window >= (attempts - 1) * Half /\ attempts >= 1)

(* It implies the property, ...                                            *)
LEMMA RetryImplied ==
    ASSUME RetryAssumption, RetryInv
    PROVE  Retries!RetryBounded
<1>1. Half \in Nat \ {0} /\ Retries!Max({1, Initial \div 2}) = Half
  BY LargerOf, Halves DEF RetryAssumption, Half
<1>2. attempts <= 1 \/ (Window >= (attempts - 1) * Half /\ attempts >= 1)
  <2>1. CASE pc = "done"
    BY <2>1 DEF RetryInv
  <2>2. CASE pc = "try"
    <3>1. CASE attempts > 1
      <4>1. now - Opened <= Window /\ now - Opened >= attempts * Half
        BY <2>2, <3>1 DEF RetryInv, RetryTypes, Retries!WindowKept, Retries!TypeOK, Opened,
           RetryAssumption
      <4>2. attempts * Half = (attempts - 1) * Half + Half
        BY <1>1, <3>1 DEF RetryInv, RetryTypes
      <4> QED
        BY <1>1, <3>1, <4>1, <4>2 DEF RetryInv, RetryTypes, RetryAssumption, Opened
    <3> QED
      BY <3>1 DEF RetryInv, RetryTypes
  <2>3. CASE pc = "backoff"
    <3>1. now - Opened <= Window /\ now - Opened >= (attempts - 1) * Half /\ attempts >= 1
      BY <2>3 DEF RetryInv, RetryTypes, Retries!WindowKept, Retries!TypeOK, Opened, RetryAssumption
    <3>2. (attempts - 1) * Half \in Nat /\ now - Opened \in Int
      BY <1>1, <3>1 DEF RetryInv, RetryTypes, RetryAssumption, Opened
    <3> QED
      BY <3>1, <3>2 DEF RetryAssumption
  <2> QED
    BY <2>1, <2>2, <2>3 DEF RetryInv, RetryTypes, Retries!TypeOK
<1>3. Retries!TrafficBounded
  <2>1. attempts - 1 <= Window \div Half \/ attempts <= 1
    BY <1>1, <1>2, FitsIn DEF RetryInv, RetryTypes, RetryAssumption
  <2>2. Window \div Half \in Nat
    BY <1>1 DEF RetryAssumption
  <2>3. attempts \in Nat /\ Retries!TrafficBounded = (attempts <= 2 + Window \div Half)
    BY <1>1 DEF Retries!TrafficBounded, RetryInv, RetryTypes
  <2> HIDE DEF Half
  <2>4. attempts <= 2 + Window \div Half
    BY <2>1, <2>2, <2>3
  <2> QED
    BY <2>3, <2>4
<1> QED
  BY <1>3 DEF RetryInv, RetryTypes, Retries!RetryBounded, Retries!ErrorsTrue

(* holds at first ...                                                      *)
LEMMA RetryInit ==
    ASSUME RetryAssumption, Retries!Init
    PROVE  RetryInv
<1>1. Half \in Nat /\ 0 * Half = 0
  BY Halves DEF RetryAssumption, Half
<1> QED
  BY <1>1 DEF Retries!Init, RetryAssumption, RetryInv, RetryTypes, Retries!TypeOK,
     Retries!WindowKept, Opened

(* and is kept by every attempt, timeout and wait.                         *)
LEMMA RetryStep ==
    ASSUME RetryAssumption, RetryInv, Retries!Next
    PROVE  RetryInv'
<1>0. Half \in Nat \ {0} /\ 0 * Half = 0 /\ (\A a \in Nat : (a + 1) * Half = a * Half + Half /\ a * Half \in Nat)
  BY Halves, OneDelayMore DEF RetryAssumption, Half
<1> USE DEF RetryAssumption, RetryInv, RetryTypes, Retries!TypeOK, Retries!WindowKept
<1>1. CASE Retries!Attempt
  BY <1>0, <1>1 DEF Retries!Attempt, Retries!Return, Retries!Unbounded, Opened
<1>2. CASE Retries!TimesOut
  BY <1>0, <1>2 DEF Retries!TimesOut, Retries!Return, Retries!Unbounded, Opened
<1>3. CASE Retries!Wait
  <2>1. Retries!Doubled(backoff) \in Initial .. Ceiling
    BY SmallerOf DEF Retries!Doubled
  <2>2. \A d \in Retries!Delays(backoff) : d \in Nat /\ d >= Half
    BY Halves DEF Retries!Delays, Half
  <2> QED
    BY <1>0, <1>3, <2>1, <2>2 DEF Retries!Wait, Retries!Return, Opened
<1> QED
  BY <1>1, <1>2, <1>3 DEF Retries!Next

-----------------------------------------------------------------------------
(* The result collectors.                                                  *)
StatNames == Collector!StatNames
Counts == Collector!Counts
QueuesOf(c) == Collector!QueuesOf(c)
Results(c) == [queue : QueuesOf(c), kind : Collector!Kinds, n : JobCounts]

(* What CollectorAssumption says, in the names of this module.             *)
CNames ==
    /\ CollectorOf \in [Queues -> Collectors] /\ IsFiniteSet(Queues)
    /\ JobCounts \subseteq Nat /\ MaxLength \in Nat

(* The constants are as CollectorAssumption says.                          *)
LEMMA CollectorConstants == CNames
  BY ProcessAssumption DEF Collector!CollectorAssumption, Collector!IsFiniteSet, IsFiniteSet, CNames

(* The types in parts.                                                     *)
ChannelOK ==
    /\ channel = [c \in Collectors |-> channel[c]]
    /\ \A c \in Collectors : channel[c] \in Seq(Results(c))
CPcOK == pc \in [Collectors -> {"running", "metrics", "stats", "lengths", "ended", "failed"}]
OpenOK == open \in [Collectors -> BOOLEAN]
MetricsOK == metrics \in [Collectors -> Nat]
CountsOK ==
    /\ pending \in [Queues -> Counts] /\ stored \in [Queues -> Counts]
    /\ received \in [Queues -> Counts] /\ extra \in [Queues -> Counts] /\ stats \in Counts
ActiveOK ==
    /\ active \in [Collectors -> SUBSET Queues]
    /\ \A c \in Collectors : active[c] \subseteq QueuesOf(c)
SnapshotOK == snapshot \in [Queues -> Nat]

(* Every result is counted once.                                           *)
Accounted == \A q \in Queues, s \in StatNames :
    stored[q][s] + pending[q][s] = received[q][s] + extra[q][s]

(* What a collector has left behind at each stage of its exit.             *)
StagesFlushed ==
    \A c \in Collectors \ gaveUp :
        /\ pc[c] \in {"metrics", "stats", "lengths", "ended"} => ~open[c] /\ channel[c] = <<>>
        /\ pc[c] \in {"stats", "lengths", "ended"} => metrics[c] = 0
        /\ pc[c] \in {"lengths", "ended"} =>
              \A q \in QueuesOf(c), s \in StatNames : pending[q][s] = 0

(* Every result is one of success or failure, and a panic is a failure.    *)
Balanced(x) == x["succeeded"] + x["failed"] = x["processed"] /\ x["panicked"] <= x["failed"]
OutcomesKept ==
    /\ \A q \in Queues : Balanced(pending[q])
    /\ Balanced(stats)
    /\ \A q \in Queues : stored[q]["succeeded"] + stored[q]["failed"] <= stored[q]["processed"]

(* The counts of the process are the sums over the queues.                 *)
Summands(s) == [q \in Queues |-> received[q][s]]
Total(s) == Cardinality(Units(Summands(s), Queues))
AddedUp == \A s \in StatNames : stats[s] = Total(s)

(* The inductive invariant of the collectors.                              *)
CollectorTypes == ChannelOK /\ CPcOK /\ OpenOK /\ MetricsOK /\ CountsOK /\ ActiveOK /\ SnapshotOK
CollectorInv ==
    /\ CollectorTypes /\ Accounted /\ StagesFlushed /\ OutcomesKept /\ AddedUp
    /\ Collector!ShownIsRefreshed

(* The sum over the queues is the number of units of its summands.         *)
LEMMA Summed ==
    ASSUME NEW s, IsFiniteSet(Queues), \A q \in Queues : received[q][s] \in Nat
    PROVE  Collector!MapThenSumSet(LAMBDA q : received[q][s], Queues) = Total(s)
<1> DEFINE g == Summands(s)
<1> DEFINE F(f) == f = [T \in SUBSET Queues |-> IF T = {} THEN 0 ELSE received[Pick(T)][s] + f[T \ {Pick(T)}]]
<1>1. g \in [Queues -> Nat]
  BY DEF Summands
<1>2. Collector!MapThenSumSet(LAMBDA q : received[q][s], Queues) = (CHOOSE f : F(f))[Queues]
  BY DEF Collector!MapThenSumSet, Collector!MapThenFoldSet, Pick
<1>3. \A f : F(f) => SumsUp(f, g, Queues)
  <2> SUFFICES ASSUME NEW f, F(f), NEW T \in SUBSET Queues
               PROVE  f[T] = IF T = {} THEN 0 ELSE g[Pick(T)] + f[T \ {Pick(T)}]
    BY DEF SumsUp
  <2>1. T # {} => Pick(T) \in Queues
    BY DEF Pick
  <2> QED
    BY <2>1 DEF Summands
<1>4. \E f : F(f)
  <2> DEFINE u == [T \in SUBSET Queues |-> Cardinality(Units(g, T))]
  <2>1. \A T \in SUBSET Queues : u[T] = IF T = {} THEN 0 ELSE g[Pick(T)] + u[T \ {Pick(T)}]
    BY <1>1, SumExists
  <2>2. \A T \in SUBSET Queues : T # {} => g[Pick(T)] = received[Pick(T)][s]
    BY DEF Pick, Summands
  <2>3. F(u)
    BY <2>1, <2>2
  <2> QED
    BY <2>3
<1>5. F(CHOOSE f : F(f))
  BY <1>4
<1> QED
  BY <1>1, <1>2, <1>3, <1>5, SumUnique DEF Total

(* The invariant implies the property ...                                  *)
LEMMA CollectorImplied ==
    ASSUME CNames, CollectorInv PROVE Collector!StatisticsSound
<1>1. Collector!TypeOK
  BY DEF CollectorInv, CollectorTypes, CPcOK, CountsOK, ActiveOK, QueuesOf, Counts, Collector!TypeOK
<1>2. Collector!CountsAccounted
  <2> SUFFICES ASSUME NEW q \in Queues
      PROVE [s \in StatNames |-> stored[q][s] + pending[q][s]] = [s \in StatNames |-> received[q][s] + extra[q][s]]
    BY DEF Collector!CountsAccounted, Collector!Add, StatNames
  <2> QED
    BY DEF CollectorInv, Accounted
<1>3. Collector!ExitFlushesAll
  <2> SUFFICES ASSUME NEW c \in Collectors \ gaveUp, pc[c] = "ended"
               PROVE  metrics[c] = 0 /\ Collector!Buffered(c) = {} /\ channel[c] = <<>>
    BY DEF Collector!ExitFlushesAll
  <2>1. metrics[c] = 0 /\ channel[c] = <<>>
     BY DEF CollectorInv, StagesFlushed
  <2>2. \A q \in QueuesOf(c) : pending[q] = [s \in StatNames |-> 0]
    BY DEF CollectorInv, StagesFlushed, CollectorTypes, CountsOK, Counts, Collector!Counts,
       StatNames, QueuesOf, Collector!QueuesOf
  <2> QED
    BY <2>1, <2>2 DEF Collector!Buffered, Collector!NoCounts, QueuesOf, StatNames
<1>4. Collector!OutcomesWithinTotal
  BY DEF CollectorInv, OutcomesKept, Collector!OutcomesWithinTotal
<1>5. Collector!ProcessAddsUp
  <2>1. ASSUME NEW s \in StatNames
        PROVE stats[s] = Collector!MapThenSumSet(LAMBDA q : received[q][s], Queues)
    <3>1. \A q \in Queues : received[q][s] \in Nat
      BY DEF CollectorInv, CollectorTypes, CountsOK, Counts, Collector!Counts, StatNames
    <3> QED
      BY <3>1, Summed DEF CNames, CollectorInv, AddedUp
  <2>2. Balanced(stats)
    BY DEF CollectorInv, OutcomesKept
  <2> QED
    BY <2>1, <2>2 DEF Collector!ProcessAddsUp, Balanced, StatNames
<1> QED
  BY <1>1, <1>2, <1>3, <1>4, <1>5 DEF CollectorInv, Collector!StatisticsSound

(* ... and holds at first.                                                 *)
LEMMA CollectorInit == ASSUME CNames, Collector!Init PROVE CollectorInv
<1>1. CollectorTypes
  BY DEF Collector!Init, CollectorTypes, ChannelOK, CPcOK, OpenOK, MetricsOK, CountsOK, ActiveOK,
     SnapshotOK,
    Counts, Collector!Counts, Collector!NoCounts, StatNames
<1>2. Accounted /\ StagesFlushed /\ Collector!ShownIsRefreshed
  BY DEF Collector!Init, CNames, Accounted, StagesFlushed, Collector!ShownIsRefreshed,
     Collector!NoCounts, StatNames
<1>3. OutcomesKept
  BY DEF Collector!Init, OutcomesKept, Balanced, Collector!NoCounts, Collector!StatNames
<1>4. AddedUp
  <2> SUFFICES ASSUME NEW s \in StatNames PROVE stats[s] = Total(s)
    BY DEF AddedUp
  <2>1. Summands(s) \in [Queues -> Nat] /\ \A q \in Queues : Summands(s)[q] = 0
    BY DEF Summands, Collector!Init, Collector!NoCounts, StatNames
  <2>2. Total(s) = 0
    BY <2>1, SumOfZeros DEF Total
  <2> QED
    BY <2>2 DEF Collector!Init, Collector!NoCounts, StatNames
<1> QED
  BY <1>1, <1>2, <1>3, <1>4 DEF CollectorInv

(* The counts that a received result adds.                                 *)
Gain(r, s) ==
    IF s = "processed" \/ (s = "succeeded" /\ r.kind = "success")
       \/ (s = "panicked" /\ r.kind = "panicked") \/ (s = "failed" /\ r.kind # "success")
    THEN r.n ELSE 0

(* Recording a result adds its gain to every count, and keeps a balance.   *)
LEMMA Recorded ==
    ASSUME NEW x \in Counts, NEW r, r.n \in Nat
    PROVE  /\ Collector!Record(x, r) \in Counts
           /\ \A s \in StatNames : Collector!Record(x, r)[s] = x[s] + Gain(r, s) /\ Gain(r, s) \in Nat
           /\ Balanced(x) => Balanced(Collector!Record(x, r))
<1>1. \A s \in StatNames : Gain(r, s) \in Nat /\ x[s] \in Nat
  BY DEF Gain, Counts, Collector!Counts, StatNames
<1>2. \A s \in StatNames : Collector!Record(x, r)[s] = x[s] + Gain(r, s)
  BY DEF Collector!Record, Collector!Add, Gain, StatNames
<1>3. Collector!Record(x, r) \in Counts
  <2>1. Collector!Record(x, r) = [s \in StatNames |-> x[s] + Gain(r, s)]
    BY DEF Collector!Record, Collector!Add, Gain, StatNames
  <2>2. \A s \in StatNames : x[s] + Gain(r, s) \in Nat
    BY <1>1
  <2> QED
    BY <2>1, <2>2 DEF Counts, Collector!Counts, StatNames
<1>4. Balanced(x) => Balanced(Collector!Record(x, r))
  <2>1. {"processed", "succeeded", "panicked", "failed"} = StatNames
    BY DEF StatNames, Collector!StatNames
  <2>2. /\ Gain(r, "processed") = r.n
        /\ Gain(r, "succeeded") + Gain(r, "failed") = r.n
        /\ Gain(r, "panicked") <= Gain(r, "failed")
    BY DEF Gain
  <2> QED
    BY <1>1, <1>2, <2>1, <2>2 DEF Balanced
<1> QED
  BY <1>1, <1>2, <1>3, <1>4

(* What receiving does.                                                    *)
LEMMA Received ==
    ASSUME CNames, CollectorTypes, NEW c \in Collectors, Collector!Receive(c)
    PROVE  \E r \in Results(c) :
             /\ r.queue \in Queues /\ CollectorOf[r.queue] = c /\ r.n \in Nat
             /\ pending' = [pending EXCEPT ![r.queue] = Collector!Record(pending[r.queue], r)]
             /\ received' = [received EXCEPT ![r.queue] = Collector!Record(received[r.queue], r)]
             /\ stats' = Collector!Record(stats, r)
             /\ active' = [active EXCEPT ![c] = active[c] \cup {r.queue}]
             /\ channel' = [channel EXCEPT ![c] = Tail(channel[c])]
<1> DEFINE r == Head(channel[c])
<1>1. channel[c] \in Seq(Results(c)) /\ channel[c] # <<>>
  BY DEF CollectorTypes, ChannelOK, Collector!Receive
<1>2. r \in Results(c)
  BY <1>1
<1>3. r.queue \in Queues /\ CollectorOf[r.queue] = c /\ r.n \in Nat
  BY <1>2 DEF Results, QueuesOf, Collector!QueuesOf, CNames
<1>4. /\ pending' = [pending EXCEPT ![r.queue] = Collector!Record(pending[r.queue], r)]
      /\ received' = [received EXCEPT ![r.queue] = Collector!Record(received[r.queue], r)]
      /\ stats' = Collector!Record(stats, r)
      /\ active' = [active EXCEPT ![c] = active[c] \cup {r.queue}]
      /\ channel' = [channel EXCEPT ![c] = Tail(channel[c])]
  BY DEF Collector!Receive, Collector!Activated
<1> QED
  BY <1>2, <1>3, <1>4

(* A result that is received is counted in memory and for the process.     *)
LEMMA CollectorReceive ==
    ASSUME CNames, CollectorInv, NEW c \in Collectors, Collector!Receive(c)
    PROVE  CollectorInv'
<1>1. PICK r \in Results(c) :
             /\ r.queue \in Queues /\ CollectorOf[r.queue] = c /\ r.n \in Nat
             /\ pending' = [pending EXCEPT ![r.queue] = Collector!Record(pending[r.queue], r)]
             /\ received' = [received EXCEPT ![r.queue] = Collector!Record(received[r.queue], r)]
             /\ stats' = Collector!Record(stats, r)
             /\ active' = [active EXCEPT ![c] = active[c] \cup {r.queue}]
             /\ channel' = [channel EXCEPT ![c] = Tail(channel[c])]
  BY Received DEF CollectorInv
<1>2. /\ UNCHANGED <<open, pc, stored, snapshot, extra, gaveUp>>
      /\ pc[c] = "running" /\ metrics' = [metrics EXCEPT ![c] = metrics[c] + 1]
      /\ channel[c] # <<>>
  BY DEF Collector!Receive, Collector!redis
<1>3. CountsOK /\ ChannelOK /\ ActiveOK /\ MetricsOK /\ CPcOK /\ OpenOK /\ SnapshotOK
  BY DEF CollectorInv, CollectorTypes
<1>4. /\ pending[r.queue] \in Counts /\ received[r.queue] \in Counts /\ stats \in Counts
  BY <1>1, <1>3 DEF CountsOK
<1>5. CountsOK'
  <2>1. Collector!Record(pending[r.queue], r) \in Counts
    BY <1>1, <1>4, Recorded
  <2>2. Collector!Record(received[r.queue], r) \in Counts
    BY <1>1, <1>4, Recorded
  <2>3. stats' \in Counts
    BY <1>1, <1>4, Recorded
  <2> QED
    BY <1>1, <1>2, <1>3, <2>1, <2>2, <2>3 DEF CountsOK, Counts, Collector!Counts,
       Collector!StatNames
<1>6. ChannelOK'
  <2>1. Tail(channel[c]) \in Seq(Results(c))
    BY <1>2, <1>3 DEF ChannelOK
  <2>2. \A d \in Collectors : channel'[d] = IF d = c THEN Tail(channel[c]) ELSE channel[d]
    BY <1>1, <1>3 DEF ChannelOK
  <2>3. channel' = [d \in Collectors |-> channel'[d]]
    BY <1>1, <1>3 DEF ChannelOK
  <2>4. \A d \in Collectors : channel'[d] \in Seq(Results(d))
    BY <1>3, <2>1, <2>2 DEF ChannelOK
  <2> QED
    BY <2>3, <2>4 DEF ChannelOK, Results, QueuesOf, Collector!QueuesOf, Collector!Kinds
<1>7. ActiveOK'
  <2>1. r.queue \in QueuesOf(c)
    BY <1>1 DEF QueuesOf, Collector!QueuesOf
  <2> QED
    BY <1>1, <1>3, <2>1 DEF ActiveOK, QueuesOf, Collector!QueuesOf
<1>8. (MetricsOK /\ CPcOK /\ OpenOK /\ SnapshotOK)'
  BY <1>2, <1>3 DEF MetricsOK, CPcOK, OpenOK, SnapshotOK
<1>9. Accounted'
  <2> SUFFICES ASSUME NEW q \in Queues, NEW s \in StatNames
               PROVE  stored'[q][s] + pending'[q][s] = received'[q][s] + extra'[q][s]
    BY DEF Accounted
  <2>1. stored[q][s] + pending[q][s] = received[q][s] + extra[q][s]
    BY DEF CollectorInv, Accounted
  <2>2. {stored[q][s], pending[q][s], received[q][s], extra[q][s]} \subseteq Nat
    BY <1>3 DEF CountsOK, Counts, Collector!Counts, StatNames
  <2>3. CASE q = r.queue
    <3>1. pending'[q] = Collector!Record(pending[q], r) /\ received'[q] = Collector!Record(received[q], r)
      BY <1>1, <1>3, <2>3 DEF CountsOK
    <3>2. pending'[q][s] = pending[q][s] + Gain(r, s) /\ Gain(r, s) \in Nat
      BY <1>1, <1>4, <2>3, <3>1, Recorded
    <3>3. received'[q][s] = received[q][s] + Gain(r, s)
      BY <1>1, <1>4, <2>3, <3>1, Recorded
    <3>4. stored'[q][s] = stored[q][s] /\ extra'[q][s] = extra[q][s]
      BY <1>2
    <3>5. \A a, b, m, n, k \in Nat : a + b = m + n => a + (b + k) = (m + k) + n
      OBVIOUS
    <3> QED
      BY <2>1, <2>2, <3>2, <3>3, <3>4, <3>5
  <2>4. CASE q # r.queue
    BY <1>1, <1>2, <1>3, <2>1, <2>4 DEF CountsOK
  <2> QED
    BY <2>3, <2>4
<1>10. StagesFlushed'
  <2> SUFFICES ASSUME NEW d \in Collectors \ gaveUp
               PROVE  /\ pc[d] \in {"metrics", "stats", "lengths", "ended"} => ~open[d] /\ channel'[d] = <<>>
                      /\ pc[d] \in {"stats", "lengths", "ended"} => metrics'[d] = 0
                      /\ pc[d] \in {"lengths", "ended"} =>
                           \A q \in QueuesOf(d), s \in StatNames : pending'[q][s] = 0
    BY <1>2 DEF StagesFlushed, QueuesOf, Collector!QueuesOf, StatNames
  <2>1. CASE d = c
    BY <1>2, <2>1
  <2>2. CASE d # c
    <3>1. channel'[d] = channel[d] /\ metrics'[d] = metrics[d]
      BY <1>1, <1>2, <1>3, <2>2 DEF ChannelOK, MetricsOK
    <3>2. \A q \in QueuesOf(d) : pending'[q] = pending[q]
      BY <1>1, <1>3, <2>2 DEF CountsOK, QueuesOf, Collector!QueuesOf
    <3> QED
      BY <3>1, <3>2 DEF CollectorInv, StagesFlushed
  <2> QED
    BY <2>1, <2>2
<1>11. OutcomesKept'
  <2>1. Balanced(stats)'
    BY <1>1, <1>4, Recorded DEF CollectorInv, OutcomesKept, Balanced
  <2>2. ASSUME NEW q \in Queues PROVE Balanced(pending[q])'
    <3>1. CASE q = r.queue
      <4>1. Balanced(Collector!Record(pending[q], r))
        BY <1>1, <1>4, <3>1, Recorded DEF CollectorInv, OutcomesKept
      <4>2. pending'[q] = Collector!Record(pending[q], r)
        BY <1>1, <1>3, <3>1 DEF CountsOK
      <4> QED
        BY <4>1, <4>2 DEF Balanced
    <3>2. CASE q # r.queue
      BY <1>1, <1>3, <3>2 DEF CountsOK, CollectorInv, OutcomesKept, Balanced
    <3> QED
      BY <3>1, <3>2
  <2> QED
    BY <1>2, <2>1, <2>2 DEF CollectorInv, OutcomesKept
<1>12. AddedUp'
  <2> SUFFICES ASSUME NEW s \in StatNames
               PROVE  stats'[s] = Cardinality(Units([q \in Queues |-> received'[q][s]], Queues))
    BY DEF AddedUp, Total, Summands, StatNames
  <2> DEFINE g == [q \in Queues |-> received[q][s]]
             h == [q \in Queues |-> received'[q][s]]
  <2>1. g \in [Queues -> Nat] /\ h \in [Queues -> Nat]
    BY <1>3, <1>5 DEF CountsOK, Counts, Collector!Counts, StatNames
  <2>2. stats'[s] = stats[s] + Gain(r, s) /\ Gain(r, s) \in Nat
    BY <1>1, <1>4, Recorded
  <2>3. h[r.queue] = g[r.queue] + Gain(r, s)
    <3>1. received'[r.queue] = Collector!Record(received[r.queue], r)
      BY <1>1, <1>3 DEF CountsOK
    <3>2. received'[r.queue][s] = received[r.queue][s] + Gain(r, s)
      BY <1>1, <1>4, <3>1, Recorded
    <3> QED
      BY <1>1, <3>2
  <2>4. \A y \in Queues \ {r.queue} : h[y] = g[y]
    BY <1>1, <1>3 DEF CountsOK
  <2>5. stats[s] = Cardinality(Units(g, Queues))
    BY DEF CollectorInv, AddedUp, Total, Summands
  <2> HIDE DEF g, h
  <2>6. Cardinality(Units(h, Queues)) = Cardinality(Units(g, Queues)) + Gain(r, s)
    BY <1>1, <2>1, <2>2, <2>3, <2>4, SumGrows DEF CNames
  <2>7. stats'[s] = Cardinality(Units(h, Queues))
    BY <2>2, <2>5, <2>6
  <2> QED
    BY <2>7 DEF h
<1>13. Collector!ShownIsRefreshed'
  BY <1>1, <1>2, <1>3 DEF CollectorInv, Collector!ShownIsRefreshed, ActiveOK, CNames
<1> QED
  BY <1>5, <1>6, <1>7, <1>8, <1>9, <1>10, <1>11, <1>12, <1>13 DEF CollectorInv, CollectorTypes

(* The counts are as they were: nothing about them changes.                *)
LEMMA CountsStay ==
    ASSUME CollectorInv, UNCHANGED <<pending, stored, received, extra, stats>>
    PROVE  CountsOK' /\ Accounted' /\ OutcomesKept' /\ AddedUp'
<1>1. CountsOK'
  BY DEF CollectorInv, CollectorTypes, CountsOK, Counts, Collector!Counts, Collector!StatNames
<1>2. Accounted' /\ AddedUp'
  BY DEF CollectorInv, Accounted, AddedUp, Total, Summands, StatNames, Collector!StatNames
<1>3. OutcomesKept'
  BY DEF CollectorInv, OutcomesKept, Balanced
<1> QED
  BY <1>1, <1>2, <1>3

(* An execution reports: its channel is open, so its collector has not     *)
(* left.                                                                   *)
LEMMA CollectorSend ==
    ASSUME CNames, CollectorInv, NEW q \in Queues, Collector!Send(q)
    PROVE  CollectorInv'
<1> DEFINE c == CollectorOf[q]
<1>1. c \in Collectors
  BY DEF CNames
<1>2. PICK k \in Collector!Kinds, n \in JobCounts :
        channel' = [channel EXCEPT ![c] = Append(channel[c], [queue |-> q, kind |-> k, n |-> n])]
  BY DEF Collector!Send
<1>3. open[c] /\ UNCHANGED <<open, pc, metrics, pending, active, stats, received, stored, snapshot, extra, gaveUp>>
  BY DEF Collector!Send, Collector!memory, Collector!redis
<1>4. CountsOK' /\ Accounted' /\ OutcomesKept' /\ AddedUp'
  BY <1>3, CountsStay
<1>5. CollectorTypes
  BY DEF CollectorInv
<1>6. (CPcOK /\ OpenOK /\ MetricsOK /\ ActiveOK /\ SnapshotOK)'
  BY <1>3, <1>5 DEF CollectorTypes, CPcOK, OpenOK, MetricsOK, ActiveOK, SnapshotOK, QueuesOf,
     Collector!QueuesOf
<1> HIDE DEF c
<1>7. ChannelOK'
  <2>1. [queue |-> q, kind |-> k, n |-> n] \in Results(c)
    BY DEF Results, QueuesOf, Collector!QueuesOf, c
  <2>2. Append(channel[c], [queue |-> q, kind |-> k, n |-> n]) \in Seq(Results(c))
    BY <1>1, <1>5, <2>1 DEF CollectorTypes, ChannelOK
  <2>3. \A d \in Collectors : channel'[d] = IF d = c THEN Append(channel[c], [queue |-> q, kind |-> k, n |-> n]) ELSE channel[d]
    BY <1>2, <1>5 DEF CollectorTypes, ChannelOK
  <2>4. channel' = [d \in Collectors |-> channel'[d]]
    BY <1>2, <1>5 DEF CollectorTypes, ChannelOK
  <2>5. \A d \in Collectors : channel'[d] \in Seq(Results(d))
    BY <1>5, <2>2, <2>3 DEF CollectorTypes, ChannelOK
  <2> QED
    BY <2>4, <2>5 DEF ChannelOK, Results, QueuesOf, Collector!QueuesOf, Collector!Kinds
<1>8. StagesFlushed'
  BY <1>1, <1>2, <1>3, <1>5 DEF CollectorInv, StagesFlushed, CollectorTypes, ChannelOK, QueuesOf,
     Collector!QueuesOf, StatNames
<1>9. Collector!ShownIsRefreshed'
  BY <1>3 DEF CollectorInv, Collector!ShownIsRefreshed
<1> QED
  BY <1>4, <1>6, <1>7, <1>8, <1>9 DEF CollectorInv, CollectorTypes

(* Hangup, Cancel and Exit leave all but the ends of the channel alone.    *)
LEMMA CollectorEnds ==
    ASSUME CNames, CollectorInv,
           Collector!Cancel \/ \E c \in Collectors : Collector!Hangup(c) \/ Collector!Exit(c)
    PROVE  CollectorInv'
<1>1. UNCHANGED <<channel, metrics, pending, active, stats, received, stored, snapshot, extra, gaveUp>>
  BY DEF Collector!Cancel, Collector!Hangup, Collector!Exit, Collector!memory, Collector!redis
<1>2. CountsOK' /\ Accounted' /\ OutcomesKept' /\ AddedUp'
  BY <1>1, CountsStay
<1>3. CollectorTypes
  BY DEF CollectorInv
<1>4. (ChannelOK /\ MetricsOK /\ ActiveOK /\ SnapshotOK)'
  BY <1>1, <1>3 DEF CollectorTypes, ChannelOK, MetricsOK, ActiveOK, SnapshotOK, Results, QueuesOf,
     Collector!QueuesOf, Collector!Kinds
<1>5. (CPcOK /\ OpenOK)'
  BY <1>3 DEF CollectorTypes, CPcOK, OpenOK, Collector!Cancel, Collector!Hangup, Collector!Exit
<1>6. StagesFlushed'
  BY <1>1, <1>3 DEF CollectorInv, StagesFlushed, CollectorTypes, CPcOK, OpenOK, Collector!Cancel,
     Collector!Hangup, Collector!Exit,
     QueuesOf, Collector!QueuesOf, StatNames
<1>7. Collector!ShownIsRefreshed'
  BY <1>1, <1>3 DEF CollectorInv, Collector!ShownIsRefreshed, CNames, CollectorTypes, CPcOK,
     Collector!Cancel, Collector!Hangup, Collector!Exit
<1> QED
  BY <1>2, <1>4, <1>5, <1>6, <1>7 DEF CollectorInv, CollectorTypes

(* A flush that fails leaves its collector where it was or marks it.       *)
LEMMA Failing ==
    ASSUME NEW c, NEW stage \in {"metrics", "stats", "lengths"}, Collector!Failed(c, stage)
    PROVE  \/ pc' = pc /\ gaveUp' = gaveUp
           \/ pc' = [pc EXCEPT ![c] = "failed"] /\ gaveUp' = gaveUp \cup {c}
           \/ pc' = [pc EXCEPT ![c] = Collector!NextStage[stage]] /\ gaveUp' = gaveUp \cup {c}
  BY DEF Collector!Failed, Collector!Leaves

(* The metrics are flushed.                                                *)
LEMMA CollectorFlushMetrics ==
    ASSUME CNames, CollectorInv, NEW c \in Collectors, Collector!FlushMetrics(c)
    PROVE  CollectorInv'
<1>1. UNCHANGED <<channel, open, pending, active, stats, received, stored, snapshot, extra, gaveUp>>
  BY DEF Collector!FlushMetrics
<1>2. CountsOK' /\ Accounted' /\ OutcomesKept' /\ AddedUp'
  BY <1>1, CountsStay
<1>3. CollectorTypes
  BY DEF CollectorInv
<1>4. (ChannelOK /\ OpenOK /\ ActiveOK /\ SnapshotOK)'
  BY <1>1, <1>3 DEF CollectorTypes, ChannelOK, OpenOK, ActiveOK, SnapshotOK, Results, QueuesOf,
     Collector!QueuesOf, Collector!Kinds
<1>5. /\ \/ pc' = pc /\ pc[c] = "running"
         \/ pc[c] = "metrics" /\ pc' = [pc EXCEPT ![c] = "stats"]
      /\ metrics' = [metrics EXCEPT ![c] = 0]
  BY <1>3 DEF Collector!FlushMetrics, Collector!Leaves, Collector!NextStage, Collector!Timer,
     CollectorTypes, MetricsOK
<1>6. (CPcOK /\ MetricsOK)'
  BY <1>3, <1>5 DEF CollectorTypes, CPcOK, MetricsOK
<1>7. StagesFlushed'
  BY <1>1, <1>3, <1>5 DEF CollectorInv, StagesFlushed, CollectorTypes, CPcOK, MetricsOK,
     QueuesOf, Collector!QueuesOf, StatNames
<1>8. Collector!ShownIsRefreshed'
  BY <1>1, <1>3, <1>5 DEF CollectorInv, Collector!ShownIsRefreshed, CNames, CollectorTypes, CPcOK
<1> QED
  BY <1>2, <1>4, <1>6, <1>7, <1>8 DEF CollectorInv, CollectorTypes

(* The flush of the metrics fails.                                         *)
LEMMA CollectorFlushMetricsFails ==
    ASSUME CNames, CollectorInv, NEW c \in Collectors, Collector!FlushMetricsFails(c)
    PROVE  CollectorInv'
<1>1. UNCHANGED <<channel, open, metrics, pending, active, stats, received, stored, snapshot, extra>>
  BY DEF Collector!FlushMetricsFails, Collector!memory
<1>2. CountsOK' /\ Accounted' /\ OutcomesKept' /\ AddedUp'
  BY <1>1, CountsStay
<1>3. CollectorTypes
  BY DEF CollectorInv
<1>4. (ChannelOK /\ OpenOK /\ MetricsOK /\ ActiveOK /\ SnapshotOK)'
  BY <1>1, <1>3 DEF CollectorTypes, ChannelOK, OpenOK, MetricsOK, ActiveOK, SnapshotOK, Results,
     QueuesOf, Collector!QueuesOf, Collector!Kinds
<1>5. \/ pc' = pc /\ gaveUp' = gaveUp
      \/ pc' = [pc EXCEPT ![c] = "failed"] /\ gaveUp' = gaveUp \cup {c}
      \/ pc' = [pc EXCEPT ![c] = "stats"] /\ gaveUp' = gaveUp \cup {c}
  BY Failing DEF Collector!FlushMetricsFails, Collector!NextStage
<1>6. CPcOK'
  BY <1>3, <1>5 DEF CollectorTypes, CPcOK
<1>7. StagesFlushed'
  BY <1>1, <1>3, <1>5 DEF CollectorInv, StagesFlushed, CollectorTypes, CPcOK,
     QueuesOf, Collector!QueuesOf, StatNames
<1>8. Collector!ShownIsRefreshed'
  BY <1>1, <1>3, <1>5 DEF CollectorInv, Collector!ShownIsRefreshed, CNames, CollectorTypes, CPcOK
<1> QED
  BY <1>2, <1>4, <1>6, <1>7, <1>8 DEF CollectorInv, CollectorTypes

(* The lengths are refreshed, or may have been: what is shown as not empty *)
(* stays active.                                                           *)
LEMMA CollectorRefresh ==
    ASSUME CNames, CollectorInv, NEW c \in Collectors,
           Collector!RefreshLengths(c) \/ Collector!RefreshLengthsFails(c)
    PROVE  CollectorInv'
<1>1. UNCHANGED <<channel, open, metrics, pending, stats, received, stored, extra>>
  BY DEF Collector!RefreshLengths, Collector!RefreshLengthsFails, Collector!memory
<1>2. CountsOK' /\ Accounted' /\ OutcomesKept' /\ AddedUp'
  BY <1>1, CountsStay
<1>3. CollectorTypes
  BY DEF CollectorInv
<1>4. (ChannelOK /\ OpenOK /\ MetricsOK)'
  BY <1>1, <1>3 DEF CollectorTypes, ChannelOK, OpenOK, MetricsOK, Results, QueuesOf,
     Collector!QueuesOf, Collector!Kinds
<1>5. \/ pc' = pc /\ gaveUp' = gaveUp
      \/ pc[c] = "lengths" /\ pc' = [pc EXCEPT ![c] = "ended"] /\ gaveUp' = gaveUp
      \/ pc' = [pc EXCEPT ![c] = "failed"] /\ gaveUp' = gaveUp \cup {c}
      \/ pc' = [pc EXCEPT ![c] = "ended"] /\ gaveUp' = gaveUp \cup {c}
  <2>1. CASE Collector!RefreshLengths(c)
    BY <2>1 DEF Collector!RefreshLengths, Collector!Leaves, Collector!NextStage
  <2>2. CASE Collector!RefreshLengthsFails(c)
    BY <2>2, Failing DEF Collector!RefreshLengthsFails, Collector!NextStage
  <2> QED
    BY <2>1, <2>2
<1>6. CPcOK'
  BY <1>3, <1>5 DEF CollectorTypes, CPcOK
<1>7. StagesFlushed'
  BY <1>1, <1>3, <1>5 DEF CollectorInv, StagesFlushed, CollectorTypes, CPcOK,
     QueuesOf, Collector!QueuesOf, StatNames
<1>8. /\ snapshot' \in [Queues -> Nat]
      /\ \A q \in Queues \ active[c] : snapshot'[q] = snapshot[q]
      /\ active' = active \/ active' = [active EXCEPT ![c] = {q \in active[c] : snapshot'[q] > 0}]
  <2>1. ASSUME NEW lengths \in Collector!Lengths(c)
        PROVE  /\ Collector!Measured(c, lengths) \in [Queues -> Nat]
               /\ \A q \in Queues \ active[c] : Collector!Measured(c, lengths)[q] = snapshot[q]
               /\ \A q \in active[c] : Collector!Measured(c, lengths)[q] = lengths[q]
    BY <1>3 DEF CNames, CollectorTypes, SnapshotOK, ActiveOK, Collector!Measured, Collector!Lengths
  <2>2. CASE Collector!RefreshLengths(c)
    <3>1. PICK lengths \in Collector!Lengths(c) :
            /\ snapshot' = Collector!Measured(c, lengths)
            /\ active' = [active EXCEPT ![c] = {q \in active[c] : lengths[q] > 0}]
      BY <2>2 DEF Collector!RefreshLengths, Collector!Pruned
    <3>2. {q \in active[c] : lengths[q] > 0} = {q \in active[c] : snapshot'[q] > 0}
      BY <2>1, <3>1
    <3> QED
      BY <2>1, <3>1, <3>2
  <2>3. CASE Collector!RefreshLengthsFails(c)
    BY <1>3, <2>1, <2>3 DEF Collector!RefreshLengthsFails, Collector!memory, CollectorTypes,
       SnapshotOK
  <2> QED
    BY <2>2, <2>3
<1>9. (ActiveOK /\ SnapshotOK)'
  BY <1>3, <1>8 DEF CollectorTypes, ActiveOK, SnapshotOK, QueuesOf, Collector!QueuesOf
<1>10. Collector!ShownIsRefreshed'
  <2> SUFFICES ASSUME NEW q \in Queues, snapshot'[q] > 0, pc'[CollectorOf[q]] = "running"
               PROVE  q \in active'[CollectorOf[q]]
    BY DEF Collector!ShownIsRefreshed
  <2>1. pc[CollectorOf[q]] = "running"
    BY <1>3, <1>5 DEF CNames, CollectorTypes, CPcOK
  <2>2. CASE q \in active[c]
    <3>1. CollectorOf[q] = c
      BY <1>3, <2>2 DEF CollectorTypes, ActiveOK, QueuesOf, Collector!QueuesOf
    <3> QED
      BY <1>3, <1>8, <2>2, <3>1 DEF CollectorTypes, ActiveOK
  <2>3. CASE q \notin active[c]
    <3>1. q \in active[CollectorOf[q]]
      BY <1>8, <2>1, <2>3 DEF CollectorInv, Collector!ShownIsRefreshed
    <3> QED
      BY <1>3, <1>8, <2>3, <3>1 DEF CNames, CollectorTypes, ActiveOK
  <2> QED
    BY <2>2, <2>3
<1> QED
  BY <1>2, <1>4, <1>6, <1>7, <1>9, <1>10 DEF CollectorInv, CollectorTypes

(* The sum of two counts.                                                  *)
LEMMA Added ==
    ASSUME NEW x \in Counts, NEW y \in Counts
    PROVE  /\ Collector!Add(x, y) \in Counts
           /\ \A s \in StatNames : Collector!Add(x, y)[s] = x[s] + y[s] /\ x[s] \in Nat /\ y[s] \in Nat
<1>1. \A s \in StatNames : x[s] \in Nat /\ y[s] \in Nat
  BY DEF Counts, Collector!Counts, StatNames
<1>2. \A s \in StatNames : x[s] + y[s] \in Nat
  BY <1>1
<1> QED
  BY <1>1, <1>2 DEF Collector!Add, Counts, Collector!Counts, StatNames

(* Adding a part in which no outcome is without its job.                   *)
Covered(y) == y["succeeded"] + y["failed"] <= y["processed"]

(* It keeps the outcomes within the total.                                 *)
LEMMA StillWithin ==
    ASSUME NEW x \in Counts, NEW y \in Counts, Covered(x), Covered(y)
    PROVE  Covered(Collector!Add(x, y))
<1>1. {"processed", "succeeded", "panicked", "failed"} = StatNames
  BY DEF StatNames, Collector!StatNames
<1> QED
  BY <1>1, Added DEF Covered

(* The counts move from memory to Redis.                                   *)
LEMMA CollectorFlushStats ==
    ASSUME CNames, CollectorInv, NEW c \in Collectors, Collector!FlushStats(c)
    PROVE  CollectorInv'
<1>1. UNCHANGED <<channel, open, metrics, active, stats, received, snapshot, extra, gaveUp>>
  BY DEF Collector!FlushStats
<1>2. CollectorTypes
  BY DEF CollectorInv
<1>3. (ChannelOK /\ OpenOK /\ MetricsOK /\ ActiveOK /\ SnapshotOK)'
  BY <1>1, <1>2 DEF CollectorTypes, ChannelOK, OpenOK, MetricsOK, ActiveOK, SnapshotOK, Results,
     QueuesOf, Collector!QueuesOf, Collector!Kinds
<1>4. /\ \/ pc' = pc /\ pc[c] = "running"
         \/ pc[c] = "stats" /\ pc' = [pc EXCEPT ![c] = "lengths"]
      /\ stored' = [q \in Queues |-> IF q \in QueuesOf(c) THEN Collector!Add(stored[q], pending[q]) ELSE stored[q]]
      /\ pending' = [q \in Queues |-> IF q \in QueuesOf(c) THEN Collector!NoCounts ELSE pending[q]]
  BY DEF Collector!FlushStats, Collector!Leaves, Collector!NextStage, Collector!Timer, QueuesOf
<1>5. CPcOK'
  BY <1>2, <1>4 DEF CollectorTypes, CPcOK
<1>6. CountsOK
  BY <1>2 DEF CollectorTypes
<1>7. \A q \in Queues : /\ stored[q] \in Counts /\ pending[q] \in Counts
                        /\ received[q] \in Counts /\ extra[q] \in Counts
  BY <1>6 DEF CountsOK
<1>8. Collector!NoCounts \in Counts /\ \A s \in StatNames : Collector!NoCounts[s] = 0
  BY DEF Collector!NoCounts, Counts, Collector!Counts, StatNames
<1>9. CountsOK'
  <2>1. \A q \in Queues : stored'[q] \in Counts
    BY <1>4, <1>7, Added
  <2>2. \A q \in Queues : pending'[q] \in Counts
    BY <1>4, <1>7, <1>8
  <2> QED
    BY <1>1, <1>4, <1>6, <2>1, <2>2 DEF CountsOK, Counts, Collector!Counts, Collector!StatNames
<1>10. Accounted'
  <2> SUFFICES ASSUME NEW q \in Queues, NEW s \in StatNames
               PROVE  stored'[q][s] + pending'[q][s] = received[q][s] + extra[q][s]
    BY <1>1 DEF Accounted, StatNames
  <2>1. stored[q][s] + pending[q][s] = received[q][s] + extra[q][s]
    BY DEF CollectorInv, Accounted
  <2>2. CASE q \in QueuesOf(c)
    <3>1. stored'[q][s] = stored[q][s] + pending[q][s] /\ stored[q][s] \in Nat /\ pending[q][s] \in Nat
      BY <1>4, <1>7, <2>2, Added
    <3>2. pending'[q][s] = 0
      BY <1>4, <1>8, <2>2
    <3> QED
      BY <2>1, <3>1, <3>2
  <2>3. CASE q \notin QueuesOf(c)
    BY <1>4, <2>1, <2>3
  <2> QED
    BY <2>2, <2>3
<1>11. StagesFlushed'
  <2>1. \A d \in Collectors : \A q \in QueuesOf(d), s \in StatNames :
           pending'[q][s] = IF d = c THEN 0 ELSE pending[q][s]
    BY <1>4, <1>8 DEF QueuesOf, Collector!QueuesOf
  <2> QED
    BY <1>1, <1>2, <1>4, <2>1 DEF CollectorInv, StagesFlushed, CollectorTypes, CPcOK,
       QueuesOf, Collector!QueuesOf, StatNames
<1>12. OutcomesKept'
  <2>1. \A q \in Queues : Covered(pending[q]) /\ Covered(stored[q])
    <3> SUFFICES ASSUME NEW q \in Queues PROVE Covered(pending[q])
      BY DEF CollectorInv, OutcomesKept, Covered
    <3>1. pending[q]["processed"] \in Nat
      BY <1>7 DEF Counts, Collector!Counts, Collector!StatNames
    <3> QED
      BY <3>1 DEF CollectorInv, OutcomesKept, Covered, Balanced
  <2>2. \A q \in Queues : Covered(stored'[q])
    BY <1>4, <1>7, <2>1, StillWithin
  <2>3. \A q \in Queues : Balanced(pending'[q])
    <3>1. Balanced(Collector!NoCounts)
      BY DEF Balanced, Collector!NoCounts, Collector!StatNames
    <3> QED
      BY <1>4, <3>1 DEF CollectorInv, OutcomesKept
  <2>4. Balanced(stats)'
    BY <1>1 DEF Balanced, CollectorInv, OutcomesKept
  <2> QED
    BY <2>2, <2>3, <2>4 DEF OutcomesKept, Covered, Balanced
<1>13. AddedUp'
  BY <1>1 DEF CollectorInv, AddedUp, Total, Summands, StatNames, Collector!StatNames
<1>14. Collector!ShownIsRefreshed'
  BY <1>1, <1>2, <1>4 DEF CollectorInv, Collector!ShownIsRefreshed, CNames, CollectorTypes, CPcOK
<1> QED
  BY <1>3, <1>5, <1>9, <1>10, <1>11, <1>12, <1>13, <1>14 DEF CollectorInv, CollectorTypes

(* What the first commands for a queue add has no outcome without its job, *)
(* because the total comes first.                                          *)
LEMMA ExecutedCovered ==
    ASSUME NEW q \in Queues, pending[q] \in Counts, Balanced(pending[q]), NEW k \in 0 .. 4
    PROVE  Collector!Executed(q, k) \in Counts /\ Covered(Collector!Executed(q, k))
<1>1. {"processed", "succeeded", "panicked", "failed"} = Collector!StatNames
  BY DEF Collector!StatNames
<1>2. \A s \in Collector!StatNames : pending[q][s] \in Nat
  BY DEF Counts, Collector!Counts
<1>3. \A s \in Collector!StatNames : Collector!Executed(q, k)[s]
          = IF \E i \in 1 .. k : Collector!StatOrder[i] = s THEN pending[q][s] ELSE 0
  BY DEF Collector!Executed
<1>4. Collector!Executed(q, k) \in Counts
  BY <1>2 DEF Collector!Executed, Counts, Collector!Counts
<1>5. (\E i \in 1 .. k : Collector!StatOrder[i] = "succeeded")
        => \E i \in 1 .. k : Collector!StatOrder[i] = "processed"
  <2>1. Collector!StatOrder[1] = "processed" /\ (k >= 1 => 1 \in 1 .. k)
    BY DEF Collector!StatOrder
  <2> QED
    BY <2>1
<1>6. (\E i \in 1 .. k : Collector!StatOrder[i] = "failed")
        => \E i \in 1 .. k : Collector!StatOrder[i] = "processed"
  <2>1. Collector!StatOrder[1] = "processed" /\ (k >= 1 => 1 \in 1 .. k)
    BY DEF Collector!StatOrder
  <2> QED
    BY <2>1
<1> DEFINE P(s) == \E i \in 1 .. k : Collector!StatOrder[i] = s
<1>7. /\ Collector!Executed(q, k)["processed"] = IF P("processed") THEN pending[q]["processed"] ELSE 0
      /\ Collector!Executed(q, k)["succeeded"] = IF P("succeeded") THEN pending[q]["succeeded"] ELSE 0
      /\ Collector!Executed(q, k)["failed"] = IF P("failed") THEN pending[q]["failed"] ELSE 0
  BY <1>1, <1>3
<1>8. /\ pending[q]["processed"] \in Nat /\ pending[q]["succeeded"] \in Nat /\ pending[q]["failed"] \in Nat
      /\ pending[q]["succeeded"] + pending[q]["failed"] = pending[q]["processed"]
  BY <1>1, <1>2 DEF Balanced
<1>9. (P("succeeded") => P("processed")) /\ (P("failed") => P("processed"))
  BY <1>5, <1>6
<1> HIDE DEF P
<1>10. Covered(Collector!Executed(q, k))
  BY <1>7, <1>8, <1>9 DEF Covered
<1> QED
  BY <1>4, <1>10

(* A flush of the counts fails after a part of it was executed.            *)
LEMMA CollectorFlushStatsFails ==
    ASSUME CNames, CollectorInv, NEW c \in Collectors, Collector!FlushStatsFails(c)
    PROVE  CollectorInv'
<1>1. UNCHANGED <<channel, open, metrics, pending, active, stats, received, snapshot>>
  BY DEF Collector!FlushStatsFails, Collector!memory
<1>2. CollectorTypes
  BY DEF CollectorInv
<1>3. (ChannelOK /\ OpenOK /\ MetricsOK /\ ActiveOK /\ SnapshotOK)'
  BY <1>1, <1>2 DEF CollectorTypes, ChannelOK, OpenOK, MetricsOK, ActiveOK, SnapshotOK, Results,
     QueuesOf, Collector!QueuesOf, Collector!Kinds
<1>4. \/ pc' = pc /\ gaveUp' = gaveUp
      \/ pc' = [pc EXCEPT ![c] = "failed"] /\ gaveUp' = gaveUp \cup {c}
      \/ pc' = [pc EXCEPT ![c] = "lengths"] /\ gaveUp' = gaveUp \cup {c}
  BY Failing DEF Collector!FlushStatsFails, Collector!NextStage
<1>5. CPcOK'
  BY <1>2, <1>4 DEF CollectorTypes, CPcOK
<1>6. \A q \in Queues : /\ stored[q] \in Counts /\ pending[q] \in Counts
                        /\ received[q] \in Counts /\ extra[q] \in Counts
  BY <1>2 DEF CollectorTypes, CountsOK
<1>7. \A q \in Queues : Balanced(pending[q]) /\ Covered(stored[q])
  BY DEF CollectorInv, OutcomesKept, Covered
<1>8. Collector!NoCounts \in Counts /\ Covered(Collector!NoCounts)
  BY DEF Collector!NoCounts, Counts, Collector!Counts, StatNames, Covered, Collector!StatNames
<1>9. PICK done \in SUBSET Collector!Buffered(c), last \in Collector!Buffered(c), k \in 0 .. 4 :
        LET some == [q \in Queues |-> IF q = last THEN Collector!Executed(q, k)
                                      ELSE IF q \in done THEN Collector!Executed(q, 4) ELSE Collector!NoCounts]
        IN  /\ stored' = [q \in Queues |-> Collector!Add(stored[q], some[q])]
            /\ extra' = [q \in Queues |-> Collector!Add(extra[q], some[q])]
  BY DEF Collector!FlushStatsFails
<1> DEFINE some == [q \in Queues |-> IF q = last THEN Collector!Executed(q, k)
                                     ELSE IF q \in done THEN Collector!Executed(q, 4) ELSE Collector!NoCounts]
<1>10. \A q \in Queues : some[q] \in Counts /\ Covered(some[q])
  <2>1. \A q \in Queues : /\ Collector!Executed(q, k) \in Counts /\ Covered(Collector!Executed(q, k))
                          /\ Collector!Executed(q, 4) \in Counts /\ Covered(Collector!Executed(q, 4))
    BY <1>6, <1>7, ExecutedCovered
  <2> QED
    BY <1>8, <2>1
<1>11. /\ stored' = [q \in Queues |-> Collector!Add(stored[q], some[q])]
       /\ extra' = [q \in Queues |-> Collector!Add(extra[q], some[q])]
  BY <1>9
<1> HIDE DEF some
<1>12. CountsOK'
  <2>1. \A q \in Queues : Collector!Add(stored[q], some[q]) \in Counts /\ Collector!Add(extra[q], some[q]) \in Counts
    BY <1>6, <1>10, Added
  <2>2. stored' \in [Queues -> Counts] /\ extra' \in [Queues -> Counts]
    BY <1>11, <2>1
  <2> QED
    BY <1>1, <1>2, <2>2 DEF CollectorTypes, CountsOK, Counts, Collector!Counts, Collector!StatNames
<1>13. Accounted'
  <2> SUFFICES ASSUME NEW q \in Queues, NEW s \in StatNames
               PROVE  stored'[q][s] + pending[q][s] = received[q][s] + extra'[q][s]
    BY <1>1 DEF Accounted, StatNames
  <2>1. stored[q][s] + pending[q][s] = received[q][s] + extra[q][s]
    BY DEF CollectorInv, Accounted
  <2>2. stored'[q][s] = stored[q][s] + some[q][s] /\ stored[q][s] \in Nat /\ some[q][s] \in Nat
    BY <1>6, <1>10, <1>11, Added
  <2>3. extra'[q][s] = extra[q][s] + some[q][s] /\ extra[q][s] \in Nat
    BY <1>6, <1>10, <1>11, Added
  <2>4. pending[q][s] \in Nat /\ received[q][s] \in Nat
    BY <1>6 DEF Counts, Collector!Counts, StatNames
  <2> QED
    BY <2>1, <2>2, <2>3, <2>4
<1>14. StagesFlushed'
  BY <1>1, <1>2, <1>4 DEF CollectorInv, StagesFlushed, CollectorTypes, CPcOK,
     QueuesOf, Collector!QueuesOf, StatNames
<1>15. OutcomesKept'
  <2>1. \A q \in Queues : Covered(stored'[q])
    BY <1>6, <1>7, <1>10, <1>11, StillWithin
  <2>2. \A q \in Queues : Balanced(pending[q])'
    BY <1>1, <1>7 DEF Balanced
  <2>3. Balanced(stats)'
    BY <1>1 DEF Balanced, CollectorInv, OutcomesKept
  <2> QED
    BY <2>1, <2>2, <2>3 DEF OutcomesKept, Covered
<1>16. AddedUp'
  BY <1>1 DEF CollectorInv, AddedUp, Total, Summands, StatNames, Collector!StatNames
<1>17. Collector!ShownIsRefreshed'
  BY <1>1, <1>2, <1>4 DEF CollectorInv, Collector!ShownIsRefreshed, CNames, CollectorTypes, CPcOK
<1> QED
  BY <1>3, <1>5, <1>12, <1>13, <1>14, <1>15, <1>16, <1>17 DEF CollectorInv, CollectorTypes

(* Every step of the collectors keeps their invariant.                     *)
LEMMA CollectorStep == ASSUME CNames, CollectorInv, Collector!Next PROVE CollectorInv'
<1>1. CASE Collector!Cancel
  BY <1>1, CollectorEnds
<1>2. ASSUME NEW q \in Queues, Collector!Send(q) PROVE CollectorInv'
  BY <1>2, CollectorSend
<1>3. ASSUME NEW c \in Collectors, Collector!Hangup(c) \/ Collector!Exit(c) PROVE CollectorInv'
  BY <1>3, CollectorEnds
<1>4. ASSUME NEW c \in Collectors, Collector!Receive(c) PROVE CollectorInv'
  BY <1>4, CollectorReceive
<1>5. ASSUME NEW c \in Collectors, Collector!Flush(c) PROVE CollectorInv'
  BY <1>5, CollectorFlushMetrics, CollectorFlushStats, CollectorRefresh DEF Collector!Flush
<1>6. ASSUME NEW c \in Collectors, Collector!Fails(c) PROVE CollectorInv'
  BY <1>6, CollectorFlushMetricsFails, CollectorFlushStatsFails,
     CollectorRefresh DEF Collector!Fails
<1> QED
  BY <1>1, <1>2, <1>3, <1>4, <1>5, <1>6 DEF Collector!Next

-----------------------------------------------------------------------------
(* A process starts no work before its registration and keeps its          *)
(* heartbeat until the last of it ends; run() leaves nothing running and   *)
(* returns what happened: Launcher::run, record_task_result and            *)
(* abort_and_join, whatever fails, hangs, is dropped or meets its deadline.*)
THEOREM ShutdownIsOrderly == Spec => []ShutdownOrderly
<1> DEFINE Inv == Launching => LauncherInv
<1>1. Init => Inv
  BY NamesAreApart, LauncherInit DEF Init, Launching, Collecting, Draining, Retrying
<1>2. Inv /\ [Next]_vars => Inv'
  <2> SUFFICES ASSUME Inv, [Next]_vars, Launching'
               PROVE  LauncherInv'
    OBVIOUS
  <2>1. CASE Next
    BY <2>1, NamesAreApart, LauncherStep DEF Next, Launching, Collecting, Draining, Retrying
  <2>2. CASE UNCHANGED vars
    <3> USE <2>2 DEF vars, notRetries, ofLauncher, Launching, LauncherInv
    <3>1. UNCHANGED <<pc, task, child, cancel, force, pingCancel, registered, record, failures,
                      firstError, timedOut, failed, faults>>
      OBVIOUS
    <3>2. LauncherTypes'
      BY <3>1 DEF LauncherTypes, PcOK, TaskOK, ChildOK, TokensOK, RecordOK, FailedOK, CountOK
    <3>3. StagesKept'
      BY <3>1 DEF StagesKept, Launcher!Joined, Launcher!NoDescendant
    <3>4. ErrorsKept' /\ RegistrationKept'
      BY <3>1 DEF ErrorsKept, RegistrationKept, Launcher!RegisteredFirst
    <3> QED
      BY <3>2, <3>3, <3>4
  <2> QED
    BY <2>1, <2>2
<1>3. Inv => ShutdownOrderly
  BY NamesAreApart, LauncherImplied DEF ShutdownOrderly
<1> QED
  BY <1>1, <1>2, <1>3, PTL DEF Spec

(* A drain processes its jobs alone unless its heartbeat gave up, and      *)
(* returns Ok only when it settled all it took: drain_queue against the    *)
(* sweeps, with lost answers, drops and panics.                            *)
THEOREM DrainIsSound == Spec => []DrainSound
<1> DEFINE Inv == Draining => DrainerInv
<1>1. Init => Inv
  BY IdsFinite, DrainerInit DEF Init, Launching, Collecting, Draining, Retrying
<1>2. Inv /\ [Next]_vars => Inv'
  <2> SUFFICES ASSUME Inv, [Next]_vars, Draining'
               PROVE  DrainerInv'
    OBVIOUS
  <2>1. CASE Next
    BY <2>1, DrainerStep DEF Next, Launching, Collecting, Draining, Retrying
  <2>2. CASE UNCHANGED vars
    BY <2>2 DEF vars, notRetries, ofDrainer, Draining, DrainerInv, DrainTypes, IdInOnePlace,
       ClaimKept, ClaimsSettled, CountsKept
  <2> QED
    BY <2>1, <2>2
<1>3. Inv => DrainSound
  BY DrainerImplied DEF DrainSound
<1> QED
  BY <1>1, <1>2, <1>3, PTL DEF Spec

(* A retry made with a claim in hand keeps to its window and to a bounded  *)
(* number of attempts, and returns an error that it met: get_claimed_job   *)
(* and claimed_connection, however long an attempt takes.                  *)
THEOREM RetryIsBounded == Spec => []RetryBounded
<1> DEFINE Inv == Retrying => RetryInv
<1>1. Init => Inv
  BY RetryConstants, RetryInit DEF Init, Launching, Collecting, Draining, Retrying
<1>2. Inv /\ [Next]_vars => Inv'
  <2> SUFFICES ASSUME Inv, [Next]_vars, Retrying'
               PROVE  RetryInv'
    OBVIOUS
  <2>1. CASE Next
    BY <2>1, RetryConstants, RetryStep DEF Next, Launching, Collecting, Draining, Retrying
  <2>2. CASE UNCHANGED vars
    BY <2>2 DEF vars, ofRetries, Retrying, RetryInv, RetryTypes, Retries!TypeOK,
       Retries!WindowKept, Opened
  <2> QED
    BY <2>1, <2>2
<1>3. Inv => RetryBounded
  BY RetryConstants, RetryImplied DEF RetryBounded
<1> QED
  BY <1>1, <1>2, <1>3, PTL DEF Spec

(* Every result is counted once, in memory or in Redis, whatever flush of  *)
(* flush_result_stats fails and wherever it stops; nothing is left behind  *)
(* at the exit; outcomes, queues and process agree.                        *)
THEOREM StatisticsAreSound == Spec => []StatisticsSound
<1> DEFINE Inv == Collecting => CollectorInv
<1>1. Init => Inv
  BY CollectorConstants, CollectorInit DEF Init, Launching, Collecting, Draining, Retrying
<1>2. Inv /\ [Next]_vars => Inv'
  <2> SUFFICES ASSUME Inv, [Next]_vars, Collecting'
               PROVE  CollectorInv'
    OBVIOUS
  <2>1. CASE Next
    BY <2>1, CollectorConstants, CollectorStep DEF Next, Launching, Collecting, Draining, Retrying
  <2>2. CASE UNCHANGED vars
    <3>1. /\ Collecting /\ CollectorInv
          /\ UNCHANGED <<channel, open, pc, metrics, pending, active, stats, received, stored, snapshot, extra, gaveUp>>
      BY <2>2 DEF vars, notRetries, ofCollector, Collecting
    <3>2. CountsOK' /\ Accounted' /\ OutcomesKept' /\ AddedUp'
      BY <3>1, CountsStay
    <3>3. CollectorTypes'
      BY <3>1, <3>2 DEF CollectorInv, CollectorTypes, ChannelOK, CPcOK, OpenOK, MetricsOK,
         ActiveOK, SnapshotOK,
         Results, QueuesOf, Collector!QueuesOf, Collector!Kinds
    <3>4. StagesFlushed' /\ Collector!ShownIsRefreshed'
      BY <3>1 DEF CollectorInv, StagesFlushed, Collector!ShownIsRefreshed, QueuesOf,
         Collector!QueuesOf, StatNames
    <3> QED
      BY <3>2, <3>3, <3>4 DEF CollectorInv
  <2> QED
    BY <2>1, <2>2
<1>3. Inv => StatisticsSound
  BY CollectorConstants, CollectorImplied DEF StatisticsSound
<1> QED
  BY <1>1, <1>2, <1>3, PTL DEF Spec
=============================================================================
