------------------------- MODULE QueueControlProofs -------------------------
(* Theorems about QueueControl for every value of its constants.           *)
EXTENDS QueueControl, TLAPS

USE ControlAssumption DEF ControlAssumption

(* What the counters of a QueueControl become.                             *)
LEMMA ReleasedControl ==
    ASSUME control \in [Keys -> Control], NEW k \in Keys
    PROVE  /\ Released(k) \in [Keys -> Control]
           /\ \A q \in Keys : /\ Released(k)[q].concurrency = control[q].concurrency
                              /\ Released(k)[q].state = control[q].state
                              /\ q # k => Released(k)[q] = control[q]
           /\ control[k].active > 0 => Released(k)[k].active = control[k].active - 1
           /\ Released(k)[k].active <= control[k].active
<1> DEFINE n == IF control[k].active > 0 THEN control[k].active - 1 ELSE 0
<1>1. n \in Nat /\ n <= control[k].active
  BY DEF Control
<1>2. Released(k) = [control EXCEPT ![k].active = n]
  BY DEF Released
<1>3. control[k].active > 0 => n = control[k].active - 1
  OBVIOUS
<1> HIDE DEF n
<1> QED
  BY <1>1, <1>2, <1>3 DEF Control

LEMMA TakenControl ==
    ASSUME control \in [Keys -> Control], NEW k \in Keys
    PROVE  /\ Taken(k) \in [Keys -> Control]
           /\ \A q \in Keys : /\ Taken(k)[q].concurrency = control[q].concurrency
                              /\ Taken(k)[q].state = control[q].state
                              /\ q # k => Taken(k)[q] = control[q]
           /\ Taken(k)[k].active = control[k].active + 1
  BY DEF Taken, Control

LEMMA ConfigTypes ==
    ASSUME stored \in [Keys \cup {Base} -> Config \cup {None}], NEW k \in Keys
    PROVE  RuntimeConfig(k) \in Config
<1>1. StoredDefault \in Config
  BY DEF StoredDefault, Config, States
<1>2. ASSUME NEW c \in Config \cup {None}, NEW d \in Config
      PROVE  OrDefault(c, d) \in Config
  BY <1>2 DEF OrDefault, Config, States
<1>3. OrDefault(stored[Base], StoredDefault) \in Config
  BY <1>1, <1>2
<1> QED
  BY <1>1, <1>2, <1>3 DEF RuntimeConfig

LEMMA AppliedControl ==
    ASSUME control \in [Keys -> Control], NEW k \in Keys, NEW c \in Config
    PROVE  /\ Applied(k, c) \in [Keys -> Control]
           /\ \A q \in Keys : /\ Applied(k, c)[q].active = control[q].active
                              /\ q # k => Applied(k, c)[q] = control[q]
           /\ ~Dynamic => Applied(k, c)[k].concurrency = Default
<1>1. /\ Effective(c).concurrency \in Nat /\ Effective(c).state \in States
      /\ ~Dynamic => Effective(c).concurrency = Default
  BY DEF Effective, Config
<1> HIDE DEF Effective
<1> QED
  BY <1>1 DEF Applied, Control

(* Every action keeps the types.                                           *)
LEMMA TypeStep ==
    ASSUME TypeOK, Next PROVE TypeOK'
<1> USE DEF TypeOK, Error, Goto, Config, Scan, DispPhases, States, redisVars, dispVars,
   watchVars, coordVars, chanVars, vars
<1>1. ASSUME NEW k \in Keys, Push(k) PROVE TypeOK'
  BY <1>1 DEF Push
<1>2. ASSUME NEW k \in Keys \cup {Base}, NEW c \in Storable, Configure(k, c)
      PROVE  TypeOK'
  <2>1. c \in Config \cup {None}
    BY DEF Storable, Config
  <2> QED
    BY <1>2, <2>1 DEF Configure
<1>3. CASE Discover
  BY <1>3 DEF Discover, scanUnchanged
<1>4. CASE DiscoverNothing
  BY <1>4 DEF DiscoverNothing, scanUnchanged
<1>5. ASSUME NEW k \in Keys, Track(k) PROVE TypeOK'
  BY <1>5, ConfigTypes, AppliedControl DEF Track, scanUnchanged
<1>6. CASE TrackFails
  BY <1>6 DEF TrackFails, scanUnchanged
<1>7. CASE ScanEnds
  BY <1>7 DEF ScanEnds, scanUnchanged
<1>8. CASE ScanAgain
  BY <1>8 DEF ScanAgain, scanUnchanged
<1>9. ASSUME NEW k \in Keys, WatchRead(k) PROVE TypeOK'
  BY <1>9, ConfigTypes DEF WatchRead, watchUnchanged
<1>10. ASSUME NEW k \in Keys, WatchApply(k) PROVE TypeOK'
  BY <1>10, AppliedControl DEF WatchApply, watchUnchanged
<1>11. ASSUME NEW k \in Keys, WatchNotify(k) PROVE TypeOK'
  BY <1>11 DEF WatchNotify, watchUnchanged
<1>12. ASSUME NEW k \in Keys, WatchStops(k) PROVE TypeOK'
  BY <1>12 DEF WatchStops, watchUnchanged
<1>13. ASSUME NEW k \in Keys, WatchFails(k) PROVE TypeOK'
  BY <1>13 DEF WatchFails, watchUnchanged
<1>14. ASSUME NEW k \in Keys, Arm(k) PROVE TypeOK'
  BY <1>14 DEF Arm, dispUnchanged
<1>15. ASSUME NEW k \in Keys, Acquire(k) PROVE TypeOK'
  <2>1. control' = control \/ control' = Taken(k)
    BY <1>15 DEF Acquire
  <2>2. disp' \in [Keys -> DispPhases]
    BY <1>15 DEF Acquire
  <2>3. control' \in [Keys -> Control]
    BY <2>1, TakenControl
  <2> QED
    BY <1>15, <2>2, <2>3 DEF Acquire, dispUnchanged
<1>16. ASSUME NEW k \in Keys, Await(k) PROVE TypeOK'
  BY <1>16 DEF Await, dispUnchanged
<1>17. ASSUME NEW k \in Keys, Wake(k) PROVE TypeOK'
  BY <1>17 DEF Wake, dispUnchanged
<1>18. ASSUME NEW k \in Keys, StopAcquiring(k) PROVE TypeOK'
  BY <1>18 DEF StopAcquiring, dispUnchanged
<1>19. ASSUME NEW k \in Keys, PopJob(k) PROVE TypeOK'
  BY <1>19 DEF PopJob, dispUnchanged
<1>20. ASSUME NEW k \in Keys, PopNothing(k) PROVE TypeOK'
  BY <1>20 DEF PopNothing, dispUnchanged
<1>21. ASSUME NEW k \in Keys, PopRested(k) PROVE TypeOK'
  BY <1>21, ReleasedControl DEF PopRested, dispUnchanged
<1>22. ASSUME NEW k \in Keys, PopTolerated(k) PROVE TypeOK'
  BY <1>22, ReleasedControl DEF PopTolerated, dispUnchanged
<1>23. ASSUME NEW k \in Keys, Nap(k) PROVE TypeOK'
  BY <1>23 DEF Nap, dispUnchanged
<1>24. ASSUME NEW k \in Keys, PopFails(k) PROVE TypeOK'
  <2>1. control' \in [Keys -> Control]
    BY <1>24, ReleasedControl DEF PopFails
  <2>2. backlog' \in [Keys -> Nat]
    BY <1>24 DEF PopFails, MaybeClaimed
  <2>3. disp' \in [Keys -> DispPhases] /\ errors' \in Nat
    BY <1>24 DEF PopFails
  <2>4. cancelled' \in BOOLEAN
    BY <1>24 DEF PopFails
  <2> QED
    BY <1>24, <2>1, <2>2, <2>3, <2>4 DEF PopFails, dispUnchanged
<1>25. ASSUME NEW k \in Keys, PopCancelled(k) PROVE TypeOK'
  <2>1. control' \in [Keys -> Control]
    BY <1>25, ReleasedControl DEF PopCancelled
  <2>2. backlog' \in [Keys -> Nat]
    BY <1>25 DEF PopCancelled, MaybeClaimed
  <2>3. disp' \in [Keys -> DispPhases] /\ errors' \in Nat
    BY <1>25 DEF PopCancelled
  <2>4. cancelled' \in BOOLEAN
    BY <1>25 DEF PopCancelled
  <2> QED
    BY <1>25, <2>1, <2>2, <2>3, <2>4 DEF PopCancelled, dispUnchanged
<1>26. ASSUME NEW k \in Keys, Send(k) PROVE TypeOK'
  BY <1>26 DEF Send, dispUnchanged
<1>27. ASSUME NEW k \in Keys, SendCancelled(k) PROVE TypeOK'
  BY <1>27, ReleasedControl DEF SendCancelled, dispUnchanged
<1>28. ASSUME NEW k \in Keys, SendClosed(k) PROVE TypeOK'
  BY <1>28, ReleasedControl DEF SendClosed, dispUnchanged
<1>29. ASSUME NEW k \in Keys, ReleaseNotify(k) PROVE TypeOK'
  BY <1>29 DEF ReleaseNotify
<1>30. ASSUME NEW k \in Keys, Receive(k) PROVE TypeOK'
  BY <1>30 DEF Receive, coordUnchanged
<1>31. CASE RouteLoad
  BY <1>31 DEF RouteLoad, coordUnchanged
<1>32. CASE RouteSpawn
  BY <1>32 DEF RouteSpawn, coordUnchanged
<1>33. CASE RouteDrop
  BY <1>33, ReleasedControl DEF RouteDrop, coordUnchanged, Release
<1>34. CASE RouteFails
  BY <1>34, ReleasedControl DEF RouteFails, coordUnchanged, Release
<1>35. ASSUME NEW k \in Keys, TaskDone(k) PROVE TypeOK'
  <2>1. /\ working' \in [Keys -> Nat] /\ control' \in [Keys -> Control]
        /\ returning' \in [Keys -> Nat]
    BY <1>35, ReleasedControl DEF TaskDone, Release
  <2>2. errors' \in Nat
    BY <1>35 DEF TaskDone
  <2>3. CASE UNCHANGED failed
    BY <1>35, <2>1, <2>2, <2>3 DEF TaskDone, coordUnchanged
  <2>4. CASE failed' = TRUE
    BY <1>35, <2>1, <2>2, <2>4 DEF TaskDone, coordUnchanged
  <2> QED
    BY <1>35, <2>3, <2>4 DEF TaskDone
<1>36. CASE JoinFailed
  BY <1>36 DEF JoinFailed, coordUnchanged
<1>37. CASE StopReceiving
  BY <1>37 DEF StopReceiving, coordUnchanged
<1>38. CASE CloseChannel
  BY <1>38 DEF CloseChannel, coordUnchanged
<1>39. ASSUME NEW k \in Keys, DropBuffered(k) PROVE TypeOK'
  BY <1>39, ReleasedControl DEF DropBuffered, coordUnchanged, Release
<1>40. CASE CoordDone
  BY <1>40 DEF CoordDone, coordUnchanged
<1>41. CASE Cancel
  BY <1>41 DEF Cancel
<1>42. CASE Terminated
  BY <1>42 DEF Terminated
<1> QED
  BY <1>1, <1>2, <1>3, <1>4, <1>5, <1>6, <1>7, <1>8, <1>9, <1>10, <1>11, <1>12, <1>13,
     <1>14, <1>15, <1>16, <1>17, <1>18, <1>19, <1>20, <1>21, <1>22, <1>23, <1>24, <1>25,
     <1>26, <1>27, <1>28, <1>29, <1>30, <1>31, <1>32, <1>33, <1>34, <1>35, <1>36, <1>37,
     <1>38, <1>39, <1>40, <1>41, <1>42 DEF Next, ScanStep, WatchStep, DispStep, CoordStep

(* Only Track creates a dispatcher, and no dispatcher goes back to none.   *)
LEMMA TrackedStep ==
    ASSUME TypeOK, TrackedOnce, Next PROVE TrackedOnce'
<1> USE DEF TypeOK, Scan, TrackedOnce, Error, Goto, redisVars, dispVars, watchVars,
   coordVars, chanVars, vars
<1>1. ASSUME NEW k \in Keys, Push(k) PROVE TrackedOnce'
  BY <1>1 DEF Push
<1>2. ASSUME NEW k \in Keys \cup {Base}, NEW c \in Storable, Configure(k, c)
      PROVE  TrackedOnce'
  BY <1>2 DEF Configure
<1>3. CASE Discover
  BY <1>3 DEF Discover, scanUnchanged
<1>4. CASE DiscoverNothing
  BY <1>4 DEF DiscoverNothing, scanUnchanged
<1>5. ASSUME NEW k \in Keys, Track(k) PROVE TrackedOnce'
  BY <1>5, ConfigTypes, AppliedControl DEF Track, scanUnchanged
<1>6. CASE TrackFails
  BY <1>6 DEF TrackFails, scanUnchanged
<1>7. CASE ScanEnds
  BY <1>7 DEF ScanEnds, scanUnchanged
<1>8. CASE ScanAgain
  BY <1>8 DEF ScanAgain, scanUnchanged
<1>9. ASSUME NEW k \in Keys, WatchRead(k) PROVE TrackedOnce'
  BY <1>9, ConfigTypes DEF WatchRead, watchUnchanged
<1>10. ASSUME NEW k \in Keys, WatchApply(k) PROVE TrackedOnce'
  BY <1>10, AppliedControl DEF WatchApply, watchUnchanged
<1>11. ASSUME NEW k \in Keys, WatchNotify(k) PROVE TrackedOnce'
  BY <1>11 DEF WatchNotify, watchUnchanged
<1>12. ASSUME NEW k \in Keys, WatchStops(k) PROVE TrackedOnce'
  BY <1>12 DEF WatchStops, watchUnchanged
<1>13. ASSUME NEW k \in Keys, WatchFails(k) PROVE TrackedOnce'
  BY <1>13 DEF WatchFails, watchUnchanged
<1>14. ASSUME NEW k \in Keys, Arm(k) PROVE TrackedOnce'
  BY <1>14 DEF Arm, dispUnchanged
<1>15. ASSUME NEW k \in Keys, Acquire(k) PROVE TrackedOnce'
  BY <1>15, TakenControl DEF Acquire, dispUnchanged
<1>16. ASSUME NEW k \in Keys, Await(k) PROVE TrackedOnce'
  BY <1>16 DEF Await, dispUnchanged
<1>17. ASSUME NEW k \in Keys, Wake(k) PROVE TrackedOnce'
  BY <1>17 DEF Wake, dispUnchanged
<1>18. ASSUME NEW k \in Keys, StopAcquiring(k) PROVE TrackedOnce'
  BY <1>18 DEF StopAcquiring, dispUnchanged
<1>19. ASSUME NEW k \in Keys, PopJob(k) PROVE TrackedOnce'
  BY <1>19 DEF PopJob, dispUnchanged
<1>20. ASSUME NEW k \in Keys, PopNothing(k) PROVE TrackedOnce'
  BY <1>20 DEF PopNothing, dispUnchanged
<1>21. ASSUME NEW k \in Keys, PopRested(k) PROVE TrackedOnce'
  BY <1>21, ReleasedControl DEF PopRested, dispUnchanged
<1>22. ASSUME NEW k \in Keys, PopTolerated(k) PROVE TrackedOnce'
  BY <1>22, ReleasedControl DEF PopTolerated, dispUnchanged
<1>23. ASSUME NEW k \in Keys, Nap(k) PROVE TrackedOnce'
  BY <1>23 DEF Nap, dispUnchanged
<1>24. ASSUME NEW k \in Keys, PopFails(k) PROVE TrackedOnce'
  BY <1>24, ReleasedControl DEF PopFails, dispUnchanged, MaybeClaimed
<1>25. ASSUME NEW k \in Keys, PopCancelled(k) PROVE TrackedOnce'
  BY <1>25, ReleasedControl DEF PopCancelled, dispUnchanged, MaybeClaimed
<1>26. ASSUME NEW k \in Keys, Send(k) PROVE TrackedOnce'
  BY <1>26 DEF Send, dispUnchanged
<1>27. ASSUME NEW k \in Keys, SendCancelled(k) PROVE TrackedOnce'
  BY <1>27, ReleasedControl DEF SendCancelled, dispUnchanged
<1>28. ASSUME NEW k \in Keys, SendClosed(k) PROVE TrackedOnce'
  BY <1>28, ReleasedControl DEF SendClosed, dispUnchanged
<1>29. ASSUME NEW k \in Keys, ReleaseNotify(k) PROVE TrackedOnce'
  BY <1>29 DEF ReleaseNotify
<1>30. ASSUME NEW k \in Keys, Receive(k) PROVE TrackedOnce'
  BY <1>30 DEF Receive, coordUnchanged
<1>31. CASE RouteLoad
  BY <1>31 DEF RouteLoad, coordUnchanged
<1>32. CASE RouteSpawn
  BY <1>32 DEF RouteSpawn, coordUnchanged
<1>33. CASE RouteDrop
  BY <1>33, ReleasedControl DEF RouteDrop, coordUnchanged, Release
<1>34. CASE RouteFails
  BY <1>34, ReleasedControl DEF RouteFails, coordUnchanged, Release
<1>35. ASSUME NEW k \in Keys, TaskDone(k) PROVE TrackedOnce'
  BY <1>35, ReleasedControl DEF TaskDone, coordUnchanged, Release
<1>36. CASE JoinFailed
  BY <1>36 DEF JoinFailed, coordUnchanged
<1>37. CASE StopReceiving
  BY <1>37 DEF StopReceiving, coordUnchanged
<1>38. CASE CloseChannel
  BY <1>38 DEF CloseChannel, coordUnchanged
<1>39. ASSUME NEW k \in Keys, DropBuffered(k) PROVE TrackedOnce'
  BY <1>39, ReleasedControl DEF DropBuffered, coordUnchanged, Release
<1>40. CASE CoordDone
  BY <1>40 DEF CoordDone, coordUnchanged
<1>41. CASE Cancel
  BY <1>41 DEF Cancel
<1>42. CASE Terminated
  BY <1>42 DEF Terminated
<1> QED
  BY <1>1, <1>2, <1>3, <1>4, <1>5, <1>6, <1>7, <1>8, <1>9, <1>10, <1>11, <1>12, <1>13,
     <1>14, <1>15, <1>16, <1>17, <1>18, <1>19, <1>20, <1>21, <1>22, <1>23, <1>24, <1>25,
     <1>26, <1>27, <1>28, <1>29, <1>30, <1>31, <1>32, <1>33, <1>34, <1>35, <1>36, <1>37,
     <1>38, <1>39, <1>40, <1>41, <1>42 DEF Next, ScanStep, WatchStep, DispStep, CoordStep

(* A permit less, a permit more, and as many as before.                    *)
LEMMA PermitDropped ==
    ASSUME TypeOK, PermitsExact, NEW k \in Keys,
           control' = Released(k), Permits(k) > 0, Permits(k)' = Permits(k) - 1,
           \A q \in Keys \ {k} : Permits(q)' = Permits(q)
    PROVE  PermitsExact'
<1>1. control'[k].active = control[k].active - 1
  BY ReleasedControl DEF TypeOK, PermitsExact
<1>2. \A q \in Keys \ {k} : control'[q].active = control[q].active
  BY ReleasedControl DEF TypeOK
<1> QED
  BY <1>1, <1>2 DEF PermitsExact

LEMMA PermitTaken ==
    ASSUME TypeOK, PermitsExact, NEW k \in Keys,
           control' = Taken(k), Permits(k)' = Permits(k) + 1,
           \A q \in Keys \ {k} : Permits(q)' = Permits(q)
    PROVE  PermitsExact'
<1>1. control'[k].active = control[k].active + 1
  BY TakenControl DEF TypeOK
<1>2. \A q \in Keys \ {k} : control'[q].active = control[q].active
  BY TakenControl DEF TypeOK
<1> QED
  BY <1>1, <1>2 DEF PermitsExact

LEMMA PermitsKept ==
    ASSUME TypeOK, PermitsExact, \A q \in Keys : control'[q].active = control[q].active,
           \A q \in Keys : Permits(q)' = Permits(q)
    PROVE  PermitsExact'
  BY DEF PermitsExact

(* Every action that creates, moves or drops a permit keeps the count.     *)
LEMMA PermitsStep ==
    ASSUME TypeOK, TrackedOnce, PermitsExact, Next PROVE PermitsExact'
<1> USE DEF TypeOK, Permitted, Holds, Error, Goto, redisVars, dispVars, watchVars,
   coordVars, chanVars, vars
<1>1. ASSUME NEW k \in Keys, Push(k) PROVE PermitsExact'
  BY <1>1 DEF Push, PermitsExact, Permits
<1>2. ASSUME NEW k \in Keys \cup {Base}, NEW c \in Storable, Configure(k, c)
      PROVE  PermitsExact'
  BY <1>2 DEF Configure, PermitsExact, Permits
<1>3. CASE Discover
  BY <1>3 DEF Discover, scanUnchanged, PermitsExact, Permits
<1>4. CASE DiscoverNothing
  BY <1>4 DEF DiscoverNothing, scanUnchanged, PermitsExact, Permits
<1>5. ASSUME NEW k \in Keys, Track(k) PROVE PermitsExact'
  <2>1. \A q \in Keys : control'[q].active = control[q].active
    BY <1>5, ConfigTypes, AppliedControl DEF Track, scanUnchanged
  <2>2. \A q \in Keys : Permits(q)' = Permits(q)
    BY <1>5 DEF TrackedOnce, Track, scanUnchanged, Permits
  <2> QED
    BY <2>1, <2>2, PermitsKept
<1>6. CASE TrackFails
  BY <1>6 DEF TrackFails, scanUnchanged, PermitsExact, Permits
<1>7. CASE ScanEnds
  BY <1>7 DEF ScanEnds, scanUnchanged, PermitsExact, Permits
<1>8. CASE ScanAgain
  BY <1>8 DEF ScanAgain, scanUnchanged, PermitsExact, Permits
<1>9. ASSUME NEW k \in Keys, WatchRead(k) PROVE PermitsExact'
  BY <1>9, ConfigTypes DEF WatchRead, watchUnchanged, PermitsExact, Permits
<1>10. ASSUME NEW k \in Keys, WatchApply(k) PROVE PermitsExact'
  <2>1. \A q \in Keys : control'[q].active = control[q].active
    BY <1>10, AppliedControl DEF WatchApply, watchUnchanged
  <2>2. \A q \in Keys : Permits(q)' = Permits(q)
    BY <1>10 DEF WatchApply, watchUnchanged, Permits
  <2> QED
    BY <2>1, <2>2, PermitsKept
<1>11. ASSUME NEW k \in Keys, WatchNotify(k) PROVE PermitsExact'
  BY <1>11 DEF WatchNotify, watchUnchanged, PermitsExact, Permits
<1>12. ASSUME NEW k \in Keys, WatchStops(k) PROVE PermitsExact'
  BY <1>12 DEF WatchStops, watchUnchanged, PermitsExact, Permits
<1>13. ASSUME NEW k \in Keys, WatchFails(k) PROVE PermitsExact'
  BY <1>13 DEF WatchFails, watchUnchanged, PermitsExact, Permits
<1>14. ASSUME NEW k \in Keys, Arm(k) PROVE PermitsExact'
  BY <1>14 DEF Arm, dispUnchanged, PermitsExact, Permits
<1>15. ASSUME NEW k \in Keys, Acquire(k) PROVE PermitsExact'
  <2>1. CASE Admits(k)
    <3>1. /\ control' = Taken(k) /\ Permits(k)' = Permits(k) + 1
          /\ \A q \in Keys \ {k} : Permits(q)' = Permits(q)
      BY <1>15, <2>1 DEF Acquire, dispUnchanged, Permits
    <3> QED
      BY <3>1, PermitTaken
  <2>2. CASE ~Admits(k)
    <3>1. /\ control' = control
          /\ \A q \in Keys : Permits(q)' = Permits(q)
      BY <1>15, <2>2 DEF Acquire, dispUnchanged, Permits
    <3> QED
      BY <3>1, PermitsKept
  <2> QED
    BY <2>1, <2>2
<1>16. ASSUME NEW k \in Keys, Await(k) PROVE PermitsExact'
  BY <1>16 DEF Await, dispUnchanged, PermitsExact, Permits
<1>17. ASSUME NEW k \in Keys, Wake(k) PROVE PermitsExact'
  BY <1>17 DEF Wake, dispUnchanged, PermitsExact, Permits
<1>18. ASSUME NEW k \in Keys, StopAcquiring(k) PROVE PermitsExact'
  BY <1>18 DEF StopAcquiring, dispUnchanged, PermitsExact, Permits
<1>19. ASSUME NEW k \in Keys, PopJob(k) PROVE PermitsExact'
  BY <1>19 DEF PopJob, dispUnchanged, PermitsExact, Permits
<1>20. ASSUME NEW k \in Keys, PopNothing(k) PROVE PermitsExact'
  BY <1>20 DEF PopNothing, dispUnchanged, PermitsExact, Permits
<1>21. ASSUME NEW k \in Keys, PopRested(k) PROVE PermitsExact'
  <2>1. /\ k \in Keys /\ control' = Released(k)
        /\ Permits(k) > 0 /\ Permits(k)' = Permits(k) - 1
        /\ \A q \in Keys \ {k} : Permits(q)' = Permits(q)
    BY <1>21 DEF PopRested, dispUnchanged, Permits
  <2> QED
    BY <2>1, PermitDropped
<1>22. ASSUME NEW k \in Keys, PopTolerated(k) PROVE PermitsExact'
  <2>1. /\ k \in Keys /\ control' = Released(k)
        /\ Permits(k) > 0 /\ Permits(k)' = Permits(k) - 1
        /\ \A q \in Keys \ {k} : Permits(q)' = Permits(q)
    BY <1>22 DEF PopTolerated, dispUnchanged, Permits
  <2> QED
    BY <2>1, PermitDropped
<1>23. ASSUME NEW k \in Keys, Nap(k) PROVE PermitsExact'
  BY <1>23 DEF Nap, dispUnchanged, PermitsExact, Permits
<1>24. ASSUME NEW k \in Keys, PopFails(k) PROVE PermitsExact'
  <2>1. /\ k \in Keys /\ control' = Released(k)
        /\ Permits(k) > 0 /\ Permits(k)' = Permits(k) - 1
        /\ \A q \in Keys \ {k} : Permits(q)' = Permits(q)
    BY <1>24 DEF PopFails, dispUnchanged, MaybeClaimed, Permits
  <2> QED
    BY <2>1, PermitDropped
<1>25. ASSUME NEW k \in Keys, PopCancelled(k) PROVE PermitsExact'
  <2>1. /\ k \in Keys /\ control' = Released(k)
        /\ Permits(k) > 0 /\ Permits(k)' = Permits(k) - 1
        /\ \A q \in Keys \ {k} : Permits(q)' = Permits(q)
    BY <1>25 DEF PopCancelled, dispUnchanged, MaybeClaimed, Permits
  <2> QED
    BY <2>1, PermitDropped
<1>26. ASSUME NEW k \in Keys, Send(k) PROVE PermitsExact'
  BY <1>26 DEF Send, dispUnchanged, PermitsExact, Permits
<1>27. ASSUME NEW k \in Keys, SendCancelled(k) PROVE PermitsExact'
  <2>1. /\ k \in Keys /\ control' = Released(k)
        /\ Permits(k) > 0 /\ Permits(k)' = Permits(k) - 1
        /\ \A q \in Keys \ {k} : Permits(q)' = Permits(q)
    BY <1>27 DEF SendCancelled, dispUnchanged, Permits
  <2> QED
    BY <2>1, PermitDropped
<1>28. ASSUME NEW k \in Keys, SendClosed(k) PROVE PermitsExact'
  <2>1. /\ k \in Keys /\ control' = Released(k)
        /\ Permits(k) > 0 /\ Permits(k)' = Permits(k) - 1
        /\ \A q \in Keys \ {k} : Permits(q)' = Permits(q)
    BY <1>28 DEF SendClosed, dispUnchanged, Permits
  <2> QED
    BY <2>1, PermitDropped
<1>29. ASSUME NEW k \in Keys, ReleaseNotify(k) PROVE PermitsExact'
  BY <1>29 DEF ReleaseNotify, PermitsExact, Permits
<1>30. ASSUME NEW k \in Keys, Receive(k) PROVE PermitsExact'
  BY <1>30 DEF Receive, coordUnchanged, PermitsExact, Permits
<1>31. CASE RouteLoad
  BY <1>31 DEF RouteLoad, coordUnchanged, PermitsExact, Permits
<1>32. CASE RouteSpawn
  <2>1. \A q \in Keys : control'[q].active = control[q].active
    BY <1>32 DEF RouteSpawn, coordUnchanged
  <2>2. \A q \in Keys : Permits(q)' = Permits(q)
    BY <1>32 DEF RouteSpawn, coordUnchanged, Permits
  <2> QED
    BY <2>1, <2>2, PermitsKept
<1>33. CASE RouteDrop
  <2>1. PICK q \in Keys : q = routed
    BY <1>33 DEF RouteDrop
  <2>2. /\ control' = Released(q)
        /\ Permits(q) > 0 /\ Permits(q)' = Permits(q) - 1
        /\ \A r \in Keys \ {q} : Permits(r)' = Permits(r)
    BY <1>33, <2>1 DEF RouteDrop, coordUnchanged, Release, Permits
  <2> QED
    BY <2>2, PermitDropped
<1>34. CASE RouteFails
  <2>1. PICK q \in Keys : q = routed
    BY <1>34 DEF RouteFails
  <2>2. /\ control' = Released(q)
        /\ Permits(q) > 0 /\ Permits(q)' = Permits(q) - 1
        /\ \A r \in Keys \ {q} : Permits(r)' = Permits(r)
    BY <1>34, <2>1 DEF RouteFails, coordUnchanged, Release, Permits
  <2> QED
    BY <2>2, PermitDropped
<1>35. ASSUME NEW k \in Keys, TaskDone(k) PROVE PermitsExact'
  <2>1. /\ k \in Keys /\ control' = Released(k)
        /\ Permits(k) > 0 /\ Permits(k)' = Permits(k) - 1
        /\ \A q \in Keys \ {k} : Permits(q)' = Permits(q)
    BY <1>35 DEF TaskDone, coordUnchanged, Release, Permits
  <2> QED
    BY <2>1, PermitDropped
<1>36. CASE JoinFailed
  BY <1>36 DEF JoinFailed, coordUnchanged, PermitsExact, Permits
<1>37. CASE StopReceiving
  BY <1>37 DEF StopReceiving, coordUnchanged, PermitsExact, Permits
<1>38. CASE CloseChannel
  BY <1>38 DEF CloseChannel, coordUnchanged, PermitsExact, Permits
<1>39. ASSUME NEW k \in Keys, DropBuffered(k) PROVE PermitsExact'
  <2>1. /\ k \in Keys /\ control' = Released(k)
        /\ Permits(k) > 0 /\ Permits(k)' = Permits(k) - 1
        /\ \A q \in Keys \ {k} : Permits(q)' = Permits(q)
    BY <1>39 DEF DropBuffered, coordUnchanged, Release, Permits
  <2> QED
    BY <2>1, PermitDropped
<1>40. CASE CoordDone
  BY <1>40 DEF CoordDone, coordUnchanged, PermitsExact, Permits
<1>41. CASE Cancel
  BY <1>41 DEF Cancel, PermitsExact, Permits
<1>42. CASE Terminated
  BY <1>42 DEF Terminated, PermitsExact, Permits
<1> QED
  BY <1>1, <1>2, <1>3, <1>4, <1>5, <1>6, <1>7, <1>8, <1>9, <1>10, <1>11, <1>12, <1>13,
     <1>14, <1>15, <1>16, <1>17, <1>18, <1>19, <1>20, <1>21, <1>22, <1>23, <1>24, <1>25,
     <1>26, <1>27, <1>28, <1>29, <1>30, <1>31, <1>32, <1>33, <1>34, <1>35, <1>36, <1>37,
     <1>38, <1>39, <1>40, <1>41, <1>42 DEF Next, ScanStep, WatchStep, DispStep, CoordStep

(* Whoever makes room is on its way to notify.                             *)
LEMMA WakeupStep ==
    ASSUME TypeOK, NoLostWakeup, Next PROVE NoLostWakeup'
<1> USE DEF TypeOK, NoLostWakeup, Admits, Control, Error, Goto, redisVars, dispVars,
   watchVars, coordVars, chanVars, vars
<1>1. ASSUME NEW k \in Keys, Push(k) PROVE NoLostWakeup'
  BY <1>1 DEF Push
<1>2. ASSUME NEW k \in Keys \cup {Base}, NEW c \in Storable, Configure(k, c)
      PROVE  NoLostWakeup'
  BY <1>2 DEF Configure
<1>3. CASE Discover
  BY <1>3 DEF Discover, scanUnchanged
<1>4. CASE DiscoverNothing
  BY <1>4 DEF DiscoverNothing, scanUnchanged
<1>5. ASSUME NEW k \in Keys, Track(k) PROVE NoLostWakeup'
  BY <1>5, ConfigTypes, AppliedControl DEF Track, scanUnchanged
<1>6. CASE TrackFails
  BY <1>6 DEF TrackFails, scanUnchanged
<1>7. CASE ScanEnds
  BY <1>7 DEF ScanEnds, scanUnchanged
<1>8. CASE ScanAgain
  BY <1>8 DEF ScanAgain, scanUnchanged
<1>9. ASSUME NEW k \in Keys, WatchRead(k) PROVE NoLostWakeup'
  BY <1>9, ConfigTypes DEF WatchRead, watchUnchanged
<1>10. ASSUME NEW k \in Keys, WatchApply(k) PROVE NoLostWakeup'
  BY <1>10, AppliedControl DEF WatchApply, watchUnchanged
<1>11. ASSUME NEW k \in Keys, WatchNotify(k) PROVE NoLostWakeup'
  BY <1>11 DEF WatchNotify, watchUnchanged
<1>12. ASSUME NEW k \in Keys, WatchStops(k) PROVE NoLostWakeup'
  BY <1>12 DEF WatchStops, watchUnchanged
<1>13. ASSUME NEW k \in Keys, WatchFails(k) PROVE NoLostWakeup'
  BY <1>13 DEF WatchFails, watchUnchanged
<1>14. ASSUME NEW k \in Keys, Arm(k) PROVE NoLostWakeup'
  BY <1>14 DEF Arm, dispUnchanged
<1>15. ASSUME NEW k \in Keys, Acquire(k) PROVE NoLostWakeup'
  <2>1. /\ \A q \in Keys \ {k} : /\ control'[q] = control[q]
                                 /\ disp'[q] = disp[q] /\ woken'[q] = woken[q]
        /\ UNCHANGED <<returning, watch>>
    BY <1>15, TakenControl DEF Acquire, dispUnchanged
  <2>2. CASE Admits(k)
    <3>1. disp'[k] = "popping"
      BY <1>15, <2>2 DEF Acquire
    <3> QED
      BY <2>1, <3>1
  <2>3. CASE ~Admits(k)
    BY <1>15, <2>3 DEF Acquire, dispUnchanged
  <2> QED
    BY <2>2, <2>3
<1>16. ASSUME NEW k \in Keys, Await(k) PROVE NoLostWakeup'
  BY <1>16 DEF Await, dispUnchanged
<1>17. ASSUME NEW k \in Keys, Wake(k) PROVE NoLostWakeup'
  BY <1>17 DEF Wake, dispUnchanged
<1>18. ASSUME NEW k \in Keys, StopAcquiring(k) PROVE NoLostWakeup'
  BY <1>18 DEF StopAcquiring, dispUnchanged
<1>19. ASSUME NEW k \in Keys, PopJob(k) PROVE NoLostWakeup'
  BY <1>19 DEF PopJob, dispUnchanged
<1>20. ASSUME NEW k \in Keys, PopNothing(k) PROVE NoLostWakeup'
  BY <1>20 DEF PopNothing, dispUnchanged
<1>21. ASSUME NEW k \in Keys, PopRested(k) PROVE NoLostWakeup'
  BY <1>21, ReleasedControl DEF PopRested, dispUnchanged
<1>22. ASSUME NEW k \in Keys, PopTolerated(k) PROVE NoLostWakeup'
  BY <1>22, ReleasedControl DEF PopTolerated, dispUnchanged
<1>23. ASSUME NEW k \in Keys, Nap(k) PROVE NoLostWakeup'
  BY <1>23 DEF Nap, dispUnchanged
<1>24. ASSUME NEW k \in Keys, PopFails(k) PROVE NoLostWakeup'
  BY <1>24, ReleasedControl DEF PopFails, dispUnchanged, MaybeClaimed
<1>25. ASSUME NEW k \in Keys, PopCancelled(k) PROVE NoLostWakeup'
  BY <1>25, ReleasedControl DEF PopCancelled, dispUnchanged, MaybeClaimed
<1>26. ASSUME NEW k \in Keys, Send(k) PROVE NoLostWakeup'
  BY <1>26 DEF Send, dispUnchanged
<1>27. ASSUME NEW k \in Keys, SendCancelled(k) PROVE NoLostWakeup'
  BY <1>27, ReleasedControl DEF SendCancelled, dispUnchanged
<1>28. ASSUME NEW k \in Keys, SendClosed(k) PROVE NoLostWakeup'
  BY <1>28, ReleasedControl DEF SendClosed, dispUnchanged
<1>29. ASSUME NEW k \in Keys, ReleaseNotify(k) PROVE NoLostWakeup'
  BY <1>29 DEF ReleaseNotify
<1>30. ASSUME NEW k \in Keys, Receive(k) PROVE NoLostWakeup'
  BY <1>30 DEF Receive, coordUnchanged
<1>31. CASE RouteLoad
  BY <1>31 DEF RouteLoad, coordUnchanged
<1>32. CASE RouteSpawn
  BY <1>32 DEF RouteSpawn, coordUnchanged
<1>33. CASE RouteDrop
  BY <1>33, ReleasedControl DEF RouteDrop, coordUnchanged, Release
<1>34. CASE RouteFails
  BY <1>34, ReleasedControl DEF RouteFails, coordUnchanged, Release
<1>35. ASSUME NEW k \in Keys, TaskDone(k) PROVE NoLostWakeup'
  BY <1>35, ReleasedControl DEF TaskDone, coordUnchanged, Release
<1>36. CASE JoinFailed
  BY <1>36 DEF JoinFailed, coordUnchanged
<1>37. CASE StopReceiving
  BY <1>37 DEF StopReceiving, coordUnchanged
<1>38. CASE CloseChannel
  BY <1>38 DEF CloseChannel, coordUnchanged
<1>39. ASSUME NEW k \in Keys, DropBuffered(k) PROVE NoLostWakeup'
  BY <1>39, ReleasedControl DEF DropBuffered, coordUnchanged, Release
<1>40. CASE CoordDone
  BY <1>40 DEF CoordDone, coordUnchanged
<1>41. CASE Cancel
  BY <1>41 DEF Cancel
<1>42. CASE Terminated
  BY <1>42 DEF Terminated
<1> QED
  BY <1>1, <1>2, <1>3, <1>4, <1>5, <1>6, <1>7, <1>8, <1>9, <1>10, <1>11, <1>12, <1>13,
     <1>14, <1>15, <1>16, <1>17, <1>18, <1>19, <1>20, <1>21, <1>22, <1>23, <1>24, <1>25,
     <1>26, <1>27, <1>28, <1>29, <1>30, <1>31, <1>32, <1>33, <1>34, <1>35, <1>36, <1>37,
     <1>38, <1>39, <1>40, <1>41, <1>42 DEF Next, ScanStep, WatchStep, DispStep, CoordStep

(* The counter under a fixed concurrency.                                  *)
LEMMA LimitReleased ==
    ASSUME TypeOK, FixedCounter, NEW k \in Keys, control' = Released(k)
    PROVE  FixedCounter'
<1> SUFFICES ASSUME ~Dynamic, NEW q \in Keys
            PROVE  control'[q].concurrency <= Default /\ control'[q].active <= Default
  BY DEF FixedCounter
<1> USE DEF FixedCounter
<1>1. control \in [Keys -> Control] /\ control' \in [Keys -> Control]
  BY ReleasedControl DEF TypeOK
<1>2. /\ control'[q].concurrency = control[q].concurrency
      /\ q # k => control'[q] = control[q]
      /\ control'[k].active <= control[k].active
  BY ReleasedControl DEF TypeOK
<1>3. control[q].active \in Nat /\ control'[q].active \in Nat
  BY <1>1 DEF Control
<1> QED
  BY <1>2, <1>3

LEMMA LimitApplied ==
    ASSUME TypeOK, FixedCounter, NEW k \in Keys, NEW c \in Config, control' = Applied(k, c)
    PROVE  FixedCounter'
<1> SUFFICES ASSUME ~Dynamic, NEW q \in Keys
            PROVE  control'[q].concurrency <= Default /\ control'[q].active <= Default
  BY DEF FixedCounter
<1> USE DEF FixedCounter
<1>1. /\ control'[q].active = control[q].active
      /\ q # k => control'[q] = control[q]
      /\ control'[k].concurrency = Default
  BY AppliedControl DEF TypeOK
<1> QED
  BY <1>1

LEMMA LimitTaken ==
    ASSUME TypeOK, FixedCounter, NEW k \in Keys, Admits(k), control' = Taken(k)
    PROVE  FixedCounter'
<1> SUFFICES ASSUME ~Dynamic, NEW q \in Keys
            PROVE  control'[q].concurrency <= Default /\ control'[q].active <= Default
  BY DEF FixedCounter
<1> USE DEF FixedCounter
<1>1. /\ control'[q].concurrency = control[q].concurrency
      /\ q # k => control'[q] = control[q]
      /\ control'[k].active = control[k].active + 1
  BY TakenControl DEF TypeOK
<1>2. control[k].active \in Nat /\ control[k].concurrency \in Nat
  BY DEF TypeOK, Control
<1> QED
  BY <1>1, <1>2 DEF Admits

(* Under a fixed concurrency the counter stops at it.                      *)
LEMMA LimitStep ==
    ASSUME TypeOK, FixedCounter, Next PROVE FixedCounter'
<1> USE DEF TypeOK, Error, Goto, redisVars, dispVars, watchVars, coordVars, chanVars, vars
<1>1. ASSUME NEW k \in Keys, Push(k) PROVE FixedCounter'
  BY <1>1 DEF Push, FixedCounter
<1>2. ASSUME NEW k \in Keys \cup {Base}, NEW c \in Storable, Configure(k, c)
      PROVE  FixedCounter'
  BY <1>2 DEF Configure, FixedCounter
<1>3. CASE Discover
  BY <1>3 DEF Discover, scanUnchanged, FixedCounter
<1>4. CASE DiscoverNothing
  BY <1>4 DEF DiscoverNothing, scanUnchanged, FixedCounter
<1>5. ASSUME NEW k \in Keys, Track(k) PROVE FixedCounter'
  BY <1>5, ConfigTypes, LimitApplied DEF Track
<1>6. CASE TrackFails
  BY <1>6 DEF TrackFails, scanUnchanged, FixedCounter
<1>7. CASE ScanEnds
  BY <1>7 DEF ScanEnds, scanUnchanged, FixedCounter
<1>8. CASE ScanAgain
  BY <1>8 DEF ScanAgain, scanUnchanged, FixedCounter
<1>9. ASSUME NEW k \in Keys, WatchRead(k) PROVE FixedCounter'
  BY <1>9, ConfigTypes DEF WatchRead, watchUnchanged, FixedCounter
<1>10. ASSUME NEW k \in Keys, WatchApply(k) PROVE FixedCounter'
  BY <1>10, LimitApplied DEF WatchApply
<1>11. ASSUME NEW k \in Keys, WatchNotify(k) PROVE FixedCounter'
  BY <1>11 DEF WatchNotify, watchUnchanged, FixedCounter
<1>12. ASSUME NEW k \in Keys, WatchStops(k) PROVE FixedCounter'
  BY <1>12 DEF WatchStops, watchUnchanged, FixedCounter
<1>13. ASSUME NEW k \in Keys, WatchFails(k) PROVE FixedCounter'
  BY <1>13 DEF WatchFails, watchUnchanged, FixedCounter
<1>14. ASSUME NEW k \in Keys, Arm(k) PROVE FixedCounter'
  BY <1>14 DEF Arm, dispUnchanged, FixedCounter
<1>15. ASSUME NEW k \in Keys, Acquire(k) PROVE FixedCounter'
  <2>1. CASE Admits(k)
    BY <1>15, <2>1, LimitTaken DEF Acquire
  <2>2. CASE ~Admits(k)
    BY <1>15, <2>2 DEF Acquire, FixedCounter
  <2> QED
    BY <2>1, <2>2
<1>16. ASSUME NEW k \in Keys, Await(k) PROVE FixedCounter'
  BY <1>16 DEF Await, dispUnchanged, FixedCounter
<1>17. ASSUME NEW k \in Keys, Wake(k) PROVE FixedCounter'
  BY <1>17 DEF Wake, dispUnchanged, FixedCounter
<1>18. ASSUME NEW k \in Keys, StopAcquiring(k) PROVE FixedCounter'
  BY <1>18 DEF StopAcquiring, dispUnchanged, FixedCounter
<1>19. ASSUME NEW k \in Keys, PopJob(k) PROVE FixedCounter'
  BY <1>19 DEF PopJob, dispUnchanged, FixedCounter
<1>20. ASSUME NEW k \in Keys, PopNothing(k) PROVE FixedCounter'
  BY <1>20 DEF PopNothing, dispUnchanged, FixedCounter
<1>21. ASSUME NEW k \in Keys, PopRested(k) PROVE FixedCounter'
  BY <1>21, LimitReleased DEF PopRested
<1>22. ASSUME NEW k \in Keys, PopTolerated(k) PROVE FixedCounter'
  BY <1>22, LimitReleased DEF PopTolerated
<1>23. ASSUME NEW k \in Keys, Nap(k) PROVE FixedCounter'
  BY <1>23 DEF Nap, dispUnchanged, FixedCounter
<1>24. ASSUME NEW k \in Keys, PopFails(k) PROVE FixedCounter'
  BY <1>24, LimitReleased DEF PopFails
<1>25. ASSUME NEW k \in Keys, PopCancelled(k) PROVE FixedCounter'
  BY <1>25, LimitReleased DEF PopCancelled
<1>26. ASSUME NEW k \in Keys, Send(k) PROVE FixedCounter'
  BY <1>26 DEF Send, dispUnchanged, FixedCounter
<1>27. ASSUME NEW k \in Keys, SendCancelled(k) PROVE FixedCounter'
  BY <1>27, LimitReleased DEF SendCancelled
<1>28. ASSUME NEW k \in Keys, SendClosed(k) PROVE FixedCounter'
  BY <1>28, LimitReleased DEF SendClosed
<1>29. ASSUME NEW k \in Keys, ReleaseNotify(k) PROVE FixedCounter'
  BY <1>29 DEF ReleaseNotify, FixedCounter
<1>30. ASSUME NEW k \in Keys, Receive(k) PROVE FixedCounter'
  BY <1>30 DEF Receive, coordUnchanged, FixedCounter
<1>31. CASE RouteLoad
  BY <1>31 DEF RouteLoad, coordUnchanged, FixedCounter
<1>32. CASE RouteSpawn
  BY <1>32 DEF RouteSpawn, coordUnchanged, FixedCounter
<1>33. CASE RouteDrop
  BY <1>33, LimitReleased DEF RouteDrop, Release
<1>34. CASE RouteFails
  BY <1>34, LimitReleased DEF RouteFails, Release
<1>35. ASSUME NEW k \in Keys, TaskDone(k) PROVE FixedCounter'
  BY <1>35, LimitReleased DEF TaskDone, Release
<1>36. CASE JoinFailed
  BY <1>36 DEF JoinFailed, coordUnchanged, FixedCounter
<1>37. CASE StopReceiving
  BY <1>37 DEF StopReceiving, coordUnchanged, FixedCounter
<1>38. CASE CloseChannel
  BY <1>38 DEF CloseChannel, coordUnchanged, FixedCounter
<1>39. ASSUME NEW k \in Keys, DropBuffered(k) PROVE FixedCounter'
  BY <1>39, LimitReleased DEF DropBuffered, Release
<1>40. CASE CoordDone
  BY <1>40 DEF CoordDone, coordUnchanged, FixedCounter
<1>41. CASE Cancel
  BY <1>41 DEF Cancel, FixedCounter
<1>42. CASE Terminated
  BY <1>42 DEF Terminated, FixedCounter
<1> QED
  BY <1>1, <1>2, <1>3, <1>4, <1>5, <1>6, <1>7, <1>8, <1>9, <1>10, <1>11, <1>12, <1>13,
     <1>14, <1>15, <1>16, <1>17, <1>18, <1>19, <1>20, <1>21, <1>22, <1>23, <1>24, <1>25,
     <1>26, <1>27, <1>28, <1>29, <1>30, <1>31, <1>32, <1>33, <1>34, <1>35, <1>36, <1>37,
     <1>38, <1>39, <1>40, <1>41, <1>42 DEF Next, ScanStep, WatchStep, DispStep, CoordStep

(* Leaving the loop comes after the cancellation.                          *)
LEMMA ReceiverStep ==
    ASSUME TypeOK, CancelledFirst, ReceiverOutlivesSenders, Next PROVE (CancelledFirst /\ ReceiverOutlivesSenders)'
<1> USE DEF TypeOK, CancelledFirst, ReceiverOutlivesSenders, Open, Error, Goto, redisVars,
   dispVars, watchVars, coordVars, chanVars, vars
<1>1. ASSUME NEW k \in Keys, Push(k) PROVE (CancelledFirst /\ ReceiverOutlivesSenders)'
  BY <1>1 DEF Push
<1>2. ASSUME NEW k \in Keys \cup {Base}, NEW c \in Storable, Configure(k, c)
      PROVE  (CancelledFirst /\ ReceiverOutlivesSenders)'
  BY <1>2 DEF Configure
<1>3. CASE Discover
  BY <1>3 DEF Discover, scanUnchanged
<1>4. CASE DiscoverNothing
  BY <1>4 DEF DiscoverNothing, scanUnchanged
<1>5. ASSUME NEW k \in Keys, Track(k) PROVE (CancelledFirst /\ ReceiverOutlivesSenders)'
  BY <1>5, ConfigTypes, AppliedControl DEF Track, scanUnchanged
<1>6. CASE TrackFails
  BY <1>6 DEF TrackFails, scanUnchanged
<1>7. CASE ScanEnds
  BY <1>7 DEF ScanEnds, scanUnchanged
<1>8. CASE ScanAgain
  BY <1>8 DEF ScanAgain, scanUnchanged
<1>9. ASSUME NEW k \in Keys, WatchRead(k) PROVE (CancelledFirst /\ ReceiverOutlivesSenders)'
  BY <1>9, ConfigTypes DEF WatchRead, watchUnchanged
<1>10. ASSUME NEW k \in Keys, WatchApply(k) PROVE (CancelledFirst /\ ReceiverOutlivesSenders)'
  BY <1>10, AppliedControl DEF WatchApply, watchUnchanged
<1>11. ASSUME NEW k \in Keys, WatchNotify(k) PROVE (CancelledFirst /\ ReceiverOutlivesSenders)'
  BY <1>11 DEF WatchNotify, watchUnchanged
<1>12. ASSUME NEW k \in Keys, WatchStops(k) PROVE (CancelledFirst /\ ReceiverOutlivesSenders)'
  BY <1>12 DEF WatchStops, watchUnchanged
<1>13. ASSUME NEW k \in Keys, WatchFails(k) PROVE (CancelledFirst /\ ReceiverOutlivesSenders)'
  BY <1>13 DEF WatchFails, watchUnchanged
<1>14. ASSUME NEW k \in Keys, Arm(k) PROVE (CancelledFirst /\ ReceiverOutlivesSenders)'
  BY <1>14 DEF Arm, dispUnchanged
<1>15. ASSUME NEW k \in Keys, Acquire(k) PROVE (CancelledFirst /\ ReceiverOutlivesSenders)'
  BY <1>15, TakenControl DEF Acquire, dispUnchanged
<1>16. ASSUME NEW k \in Keys, Await(k) PROVE (CancelledFirst /\ ReceiverOutlivesSenders)'
  BY <1>16 DEF Await, dispUnchanged
<1>17. ASSUME NEW k \in Keys, Wake(k) PROVE (CancelledFirst /\ ReceiverOutlivesSenders)'
  BY <1>17 DEF Wake, dispUnchanged
<1>18. ASSUME NEW k \in Keys, StopAcquiring(k) PROVE (CancelledFirst /\ ReceiverOutlivesSenders)'
  BY <1>18 DEF StopAcquiring, dispUnchanged
<1>19. ASSUME NEW k \in Keys, PopJob(k) PROVE (CancelledFirst /\ ReceiverOutlivesSenders)'
  BY <1>19 DEF PopJob, dispUnchanged
<1>20. ASSUME NEW k \in Keys, PopNothing(k) PROVE (CancelledFirst /\ ReceiverOutlivesSenders)'
  BY <1>20 DEF PopNothing, dispUnchanged
<1>21. ASSUME NEW k \in Keys, PopRested(k) PROVE (CancelledFirst /\ ReceiverOutlivesSenders)'
  BY <1>21, ReleasedControl DEF PopRested, dispUnchanged
<1>22. ASSUME NEW k \in Keys, PopTolerated(k) PROVE (CancelledFirst /\ ReceiverOutlivesSenders)'
  BY <1>22, ReleasedControl DEF PopTolerated, dispUnchanged
<1>23. ASSUME NEW k \in Keys, Nap(k) PROVE (CancelledFirst /\ ReceiverOutlivesSenders)'
  BY <1>23 DEF Nap, dispUnchanged
<1>24. ASSUME NEW k \in Keys, PopFails(k) PROVE (CancelledFirst /\ ReceiverOutlivesSenders)'
  BY <1>24, ReleasedControl DEF PopFails, dispUnchanged, MaybeClaimed
<1>25. ASSUME NEW k \in Keys, PopCancelled(k) PROVE (CancelledFirst /\ ReceiverOutlivesSenders)'
  BY <1>25, ReleasedControl DEF PopCancelled, dispUnchanged, MaybeClaimed
<1>26. ASSUME NEW k \in Keys, Send(k) PROVE (CancelledFirst /\ ReceiverOutlivesSenders)'
  BY <1>26 DEF Send, dispUnchanged
<1>27. ASSUME NEW k \in Keys, SendCancelled(k) PROVE (CancelledFirst /\ ReceiverOutlivesSenders)'
  BY <1>27, ReleasedControl DEF SendCancelled, dispUnchanged
<1>28. ASSUME NEW k \in Keys, SendClosed(k) PROVE (CancelledFirst /\ ReceiverOutlivesSenders)'
  BY <1>28, ReleasedControl DEF SendClosed, dispUnchanged
<1>29. ASSUME NEW k \in Keys, ReleaseNotify(k) PROVE (CancelledFirst /\ ReceiverOutlivesSenders)'
  BY <1>29 DEF ReleaseNotify
<1>30. ASSUME NEW k \in Keys, Receive(k) PROVE (CancelledFirst /\ ReceiverOutlivesSenders)'
  BY <1>30 DEF Receive, coordUnchanged
<1>31. CASE RouteLoad
  BY <1>31 DEF RouteLoad, coordUnchanged
<1>32. CASE RouteSpawn
  BY <1>32 DEF RouteSpawn, coordUnchanged
<1>33. CASE RouteDrop
  BY <1>33, ReleasedControl DEF RouteDrop, coordUnchanged, Release
<1>34. CASE RouteFails
  BY <1>34, ReleasedControl DEF RouteFails, coordUnchanged, Release
<1>35. ASSUME NEW k \in Keys, TaskDone(k) PROVE (CancelledFirst /\ ReceiverOutlivesSenders)'
  BY <1>35, ReleasedControl DEF TaskDone, coordUnchanged, Release
<1>36. CASE JoinFailed
  BY <1>36 DEF JoinFailed, coordUnchanged
<1>37. CASE StopReceiving
  BY <1>37 DEF StopReceiving, coordUnchanged
<1>38. CASE CloseChannel
  BY <1>38 DEF CloseChannel, coordUnchanged
<1>39. ASSUME NEW k \in Keys, DropBuffered(k) PROVE (CancelledFirst /\ ReceiverOutlivesSenders)'
  BY <1>39, ReleasedControl DEF DropBuffered, coordUnchanged, Release
<1>40. CASE CoordDone
  BY <1>40 DEF CoordDone, coordUnchanged
<1>41. CASE Cancel
  BY <1>41 DEF Cancel
<1>42. CASE Terminated
  BY <1>42 DEF Terminated
<1> QED
  BY <1>1, <1>2, <1>3, <1>4, <1>5, <1>6, <1>7, <1>8, <1>9, <1>10, <1>11, <1>12, <1>13,
     <1>14, <1>15, <1>16, <1>17, <1>18, <1>19, <1>20, <1>21, <1>22, <1>23, <1>24, <1>25,
     <1>26, <1>27, <1>28, <1>29, <1>30, <1>31, <1>32, <1>33, <1>34, <1>35, <1>36, <1>37,
     <1>38, <1>39, <1>40, <1>41, <1>42 DEF Next, ScanStep, WatchStep, DispStep, CoordStep

-----------------------------------------------------------------------------
(* Type correctness of the queue runtime, whatever the number of queues,   *)
(* the limits and the bounds; the channel of coordinator::run is never     *)
(* overfilled.                                                             *)
THEOREM ControlTypeCorrect == Spec => []TypeOK
<1>1. Init => TypeOK
  <2> SUFFICES ASSUME Init PROVE TypeOK
    OBVIOUS
  <2>1. control \in [Keys -> Control] /\ scan \in Scan /\ room \in Nat
    BY DEF Init, Control, Scan, States, Capacity
  <2>2. failed \in BOOLEAN /\ cancelled \in BOOLEAN /\ unexpected \in BOOLEAN
    BY DEF Init
  <2> QED
    BY <2>1, <2>2 DEF Init, TypeOK, DispPhases
<1>2. TypeOK /\ [Next]_vars => TypeOK'
  <2>1. CASE UNCHANGED vars
    BY <2>1 DEF TypeOK, vars, redisVars, dispVars, watchVars, coordVars, chanVars
  <2> QED
    BY <2>1, TypeStep
<1> QED
  BY <1>1, <1>2, PTL DEF Spec

(* QueuePermit: the counter is the number of permits in existence, on      *)
(* every path a permit can take, including errors and shutdown.            *)
THEOREM PermitsCounted == Spec => []PermitsExact
<1>1. Init => TrackedOnce /\ PermitsExact
  BY DEF Init, TrackedOnce, PermitsExact, Permits, Permitted, Holds
<1>2. TypeOK /\ TrackedOnce /\ PermitsExact /\ [Next]_vars => (TrackedOnce /\ PermitsExact)'
  <2>1. CASE UNCHANGED vars
    BY <2>1 DEF TrackedOnce, PermitsExact, Permits, Holds, vars, dispVars, coordVars, chanVars
  <2> QED
    BY <2>1, TrackedStep, PermitsStep
<1> QED
  BY <1>1, <1>2, ControlTypeCorrect, PTL DEF Spec

(* QueueControl::acquire never sleeps through room that a release or a     *)
(* configuration change has made.                                          *)
THEOREM WakeupsArrive == Spec => []NoLostWakeup
<1>1. Init => NoLostWakeup
  BY DEF Init, NoLostWakeup
<1>2. TypeOK /\ NoLostWakeup /\ [Next]_vars => NoLostWakeup'
  <2>1. CASE UNCHANGED vars
    BY <2>1 DEF NoLostWakeup, Admits, vars, dispVars, watchVars
  <2> QED
    BY <2>1, WakeupStep
<1> QED
  BY <1>1, <1>2, ControlTypeCorrect, PTL DEF Spec

(* effective_runtime_config: no stored configuration raises a fixed limit. *)
THEOREM FixedLimitKept == Spec => []FixedLimit
<1>1. Init => FixedCounter
  <2> SUFFICES ASSUME Init, NEW k \in Keys
               PROVE  control[k].concurrency <= Default /\ control[k].active <= Default
    BY DEF FixedCounter
  <2>1. control[k].concurrency = 0 /\ control[k].active = 0
    BY DEF Init
  <2> QED
    BY <2>1
<1>2. TypeOK /\ FixedCounter /\ [Next]_vars => FixedCounter'
  <2>1. CASE UNCHANGED vars
    BY <2>1 DEF FixedCounter, vars
  <2> QED
    BY <2>1, LimitStep
<1>3. TypeOK /\ PermitsExact /\ FixedCounter => FixedLimit
  <2> SUFFICES ASSUME TypeOK, PermitsExact, FixedCounter, ~Dynamic, NEW k \in Keys
               PROVE  queued[k] + Holds(routed = k) + working[k] <= Default
    BY DEF FixedLimit
  <2>1. Permits(k) <= Default
    BY DEF PermitsExact, FixedCounter
  <2> QED
    BY <2>1 DEF TypeOK, Permits, Holds
<1> QED
  BY <1>1, <1>2, <1>3, ControlTypeCorrect, PermitsCounted, PTL DEF Spec

(* dispatcher::run never reports a receiver that closed unexpectedly.      *)
THEOREM ReceiverKept == Spec => []ReceiverOutlivesSenders
<1> DEFINE Inv == CancelledFirst /\ ReceiverOutlivesSenders
<1>1. Init => Inv
  BY DEF Init, CancelledFirst, ReceiverOutlivesSenders
<1>2. TypeOK /\ Inv /\ [Next]_vars => Inv'
  <2>1. CASE UNCHANGED vars
    BY <2>1 DEF CancelledFirst, ReceiverOutlivesSenders, vars, coordVars
  <2> QED
    BY <2>1, ReceiverStep
<1> QED
  BY <1>1, <1>2, ControlTypeCorrect, PTL DEF Spec
=============================================================================
