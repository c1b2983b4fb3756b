--------------------------- MODULE SupervisorProofs ---------------------------
(***************************************************************************)
(* Machine-checked proofs about Supervisor, for any number of attempts:    *)
(* the inductive invariant IInv and the safety properties it implies.      *)
(***************************************************************************)
EXTENDS Supervisor, TLAPS

\* Nothing has been started.
LEMMA InitInv ==
  ASSUME Init
  PROVE  IInv
<1>1. TypeOK
  <2>1. \A a \in Attempts : attempt[a] = "none" /\ a > starts
    BY BoundType DEF Init, Attempts
  <2>2. starts \in 0..MaxStarts
    BY BoundType DEF Init
  <2>3. /\ attempt \in [Attempts -> {"none", "version", "waiting", "started", "failed"}]
        /\ child \in [Attempts -> {"none", "absent", "running", "killed", "zero", "nonzero",
                                   "signal"}]
    BY DEF Init
  <2>. QED
    BY <2>1, <2>2, <2>3 DEF Init, TypeOK
<1>. QED
  BY <1>1 DEF Init, IInv, NothingBeforeResolved, VersionIsShared, ChildOfAttempt,
              InFlightIsShared,
              InFlight, AliveIsShared, Alive, Refused, UrlOfStarted, UrlOfShared

\* A start is made when no promise is shared: until stop, nothing is in flight or alive then.
LEMMA StartInv ==
  ASSUME IInv, Start
  PROVE  IInv'
<1>. USE BoundType DEF IInv, Attempts
<1>1. TypeOK'
  <2>1. starts' \in 0..MaxStarts /\ starts' = starts + 1 /\ starts' \in Attempts
    BY DEF Start, TypeOK
  <2>2. \A a \in Attempts : (attempt'[a] = "none") <=> (a > starts')
    BY <2>1 DEF Start, Spawned, TypeOK
  <2>3. proc' # None => child'[proc'] \notin {"none", "killed"}
    BY <2>1 DEF Start, Spawned, TypeOK
  <2>4. /\ attempt' \in [Attempts -> {"none", "version", "waiting", "started", "failed"}]
        /\ child' \in [Attempts -> {"none", "absent", "running", "killed", "zero", "nonzero",
                                    "signal"}]
        /\ proc' \in Attempts \cup {None} /\ starting' \in Attempts \cup {None}
    BY <2>1 DEF Start, Spawned, TypeOK
  <2>. QED
    BY <2>1, <2>2, <2>3, <2>4 DEF Start, TypeOK
<1>2. NothingBeforeResolved'
  BY DEF Start, Spawned, NothingBeforeResolved, TypeOK
<1>3. VersionIsShared'
  BY DEF Start, Spawned, VersionIsShared, TypeOK
<1>4. ChildOfAttempt'
  BY DEF Start, Spawned, ChildOfAttempt, TypeOK
<1>5. InFlightIsShared'
  BY DEF Start, Spawned, InFlightIsShared, InFlight, TypeOK
<1>6. AliveIsShared'
  BY DEF Start, Spawned, AliveIsShared, Alive, Refused, TypeOK
<1>7. UrlOfStarted'
  BY DEF Start, Spawned, UrlOfStarted, TypeOK
<1>8. UrlOfShared'
  BY DEF Start, Spawned, UrlOfShared, TypeOK
<1>. QED
  BY <1>1, <1>2, <1>3, <1>4, <1>5, <1>6, <1>7, <1>8

\* An attempt that fails at once leaves no child.
LEMMA StartFailsInv ==
  ASSUME IInv, StartFails
  PROVE  IInv'
<1>. USE BoundType DEF IInv, Attempts
<1>1. TypeOK'
  <2>1. starts' \in 0..MaxStarts /\ starts' = starts + 1 /\ starts' \in Attempts
    BY DEF StartFails, TypeOK
  <2>2. \A a \in Attempts : (attempt'[a] = "none") <=> (a > starts')
    BY <2>1 DEF StartFails, Fail, TypeOK
  <2>3. /\ attempt' \in [Attempts -> {"none", "version", "waiting", "started", "failed"}]
        /\ resolved' \in BOOLEAN /\ cleared' \subseteq Attempts
    BY <2>1 DEF StartFails, Fail, TypeOK
  <2>. QED
    BY <2>1, <2>2, <2>3 DEF StartFails, Fail, TypeOK
<1>2. NothingBeforeResolved'
  BY DEF StartFails, Fail, NothingBeforeResolved, TypeOK
<1>3. VersionIsShared'
  BY DEF StartFails, Fail, VersionIsShared, TypeOK
<1>4. ChildOfAttempt'
  BY DEF StartFails, Fail, ChildOfAttempt, TypeOK
<1>5. InFlightIsShared'
  BY DEF StartFails, Fail, InFlightIsShared, InFlight, TypeOK
<1>6. AliveIsShared'
  BY DEF StartFails, Fail, AliveIsShared, Alive, Refused, TypeOK
<1>7. UrlOfStarted'
  BY DEF StartFails, Fail, UrlOfStarted, TypeOK
<1>8. UrlOfShared'
  BY DEF StartFails, Fail, UrlOfShared, TypeOK
<1>. QED
  BY <1>1, <1>2, <1>3, <1>4, <1>5, <1>6, <1>7, <1>8

\* The version check was the shared attempt's, and nothing has been spawned before it.
LEMMA VersionDoneInv ==
  ASSUME IInv, NEW a \in Attempts, VersionDone(a)
  PROVE  IInv'
<1>. USE BoundType DEF IInv, Attempts
<1>1. TypeOK'
  BY DEF VersionDone, Spawned, Fail, TypeOK
<1>2. NothingBeforeResolved'
  BY DEF VersionDone, Spawned, Fail, NothingBeforeResolved, TypeOK
<1>3. VersionIsShared'
  BY DEF VersionDone, Spawned, Fail, VersionIsShared, TypeOK
<1>4. ChildOfAttempt'
  BY DEF VersionDone, Spawned, Fail, ChildOfAttempt, TypeOK
<1>5. InFlightIsShared'
  <2>1. starting = a
    BY DEF VersionDone, VersionIsShared
  <2>2. cleared' = cleared
    BY <2>1 DEF VersionDone, Fail
  <2>. QED
    BY <2>1, <2>2 DEF VersionDone, Spawned, Fail, InFlightIsShared, InFlight, TypeOK
<1>6. AliveIsShared'
  BY DEF VersionDone, Spawned, Fail, AliveIsShared, Alive, Refused, TypeOK, NothingBeforeResolved,
         VersionIsShared
<1>7. UrlOfStarted'
  BY DEF VersionDone, Spawned, Fail, UrlOfStarted, TypeOK
<1>8. UrlOfShared'
  BY DEF VersionDone, Spawned, Fail, UrlOfShared, TypeOK, NothingBeforeResolved, VersionIsShared,
         UrlOfStarted
<1>. QED
  BY <1>1, <1>2, <1>3, <1>4, <1>5, <1>6, <1>7, <1>8

\* A child prints its first line.
LEMMA PrintInv ==
  ASSUME IInv, NEW a \in Attempts, NEW line \in Lines, PrintLine(a, line)
  PROVE  IInv'
<1>. USE BoundType, LinesType DEF IInv, Attempts
<1>1. TypeOK'
  BY DEF PrintLine, slots, TypeOK
<1>2. NothingBeforeResolved'
  BY DEF PrintLine, slots, NothingBeforeResolved, TypeOK
<1>3. VersionIsShared'
  BY DEF PrintLine, slots, VersionIsShared, TypeOK
<1>4. ChildOfAttempt'
  BY DEF PrintLine, slots, ChildOfAttempt, TypeOK
<1>5. InFlightIsShared'
  BY DEF PrintLine, slots, InFlightIsShared, InFlight, TypeOK
<1>6. AliveIsShared'
  BY DEF PrintLine, slots, AliveIsShared, Alive, Refused, TypeOK
<1>7. UrlOfStarted'
  BY DEF PrintLine, slots, UrlOfStarted, TypeOK
<1>8. UrlOfShared'
  BY DEF PrintLine, slots, UrlOfShared, TypeOK
<1>. QED
  BY <1>1, <1>2, <1>3, <1>4, <1>5, <1>6, <1>7, <1>8

\* A child ends, by itself or because it was killed.
LEMMA EndInv ==
  ASSUME IInv, NEW a \in Attempts, NEW how \in {"zero", "nonzero", "signal"}, End(a, how)
  PROVE  IInv'
<1>. USE BoundType DEF IInv, Attempts
<1>1. TypeOK'
  BY DEF End, slots, TypeOK
<1>2. NothingBeforeResolved'
  BY DEF End, slots, NothingBeforeResolved, TypeOK
<1>3. VersionIsShared'
  BY DEF End, slots, VersionIsShared, TypeOK
<1>4. ChildOfAttempt'
  BY DEF End, slots, ChildOfAttempt, TypeOK
<1>5. InFlightIsShared'
  BY DEF End, slots, InFlightIsShared, InFlight, TypeOK
<1>6. AliveIsShared'
  BY DEF End, slots, AliveIsShared, Alive, Refused, TypeOK
<1>7. UrlOfStarted'
  BY DEF End, slots, UrlOfStarted, TypeOK
<1>8. UrlOfShared'
  BY DEF End, slots, UrlOfShared, TypeOK
<1>. QED
  BY <1>1, <1>2, <1>3, <1>4, <1>5, <1>6, <1>7, <1>8

\* The port of an attempt in flight: until stop, the shared one's.
LEMMA DataInv ==
  ASSUME IInv, NEW a \in Attempts, Data(a)
  PROVE  IInv'
<1>. USE BoundType DEF IInv, Attempts
<1>1. TypeOK'
  BY DEF Data, TypeOK
<1>2. NothingBeforeResolved'
  BY DEF Data, NothingBeforeResolved, TypeOK
<1>3. VersionIsShared'
  BY DEF Data, VersionIsShared, TypeOK
<1>4. ChildOfAttempt'
  BY DEF Data, ChildOfAttempt, TypeOK
<1>5. InFlightIsShared'
  BY DEF Data, InFlightIsShared, InFlight, TypeOK
<1>6. AliveIsShared'
  BY DEF Data, AliveIsShared, Alive, Refused, TypeOK
<1>7. UrlOfStarted'
  BY DEF Data, UrlOfStarted, TypeOK
<1>8. UrlOfShared'
  BY DEF Data, UrlOfShared, TypeOK, InFlightIsShared, InFlight
<1>. QED
  BY <1>1, <1>2, <1>3, <1>4, <1>5, <1>6, <1>7, <1>8

\* An attempt whose child is gone fails: no child that lives is its own.
LEMMA GoneInv ==
  ASSUME IInv, NEW a \in Attempts, Gone(a)
  PROVE  IInv'
<1>. USE BoundType DEF IInv, Attempts
<1>1. TypeOK'
  BY DEF Gone, Fail, Dead, TypeOK
<1>2. NothingBeforeResolved'
  BY DEF Gone, Fail, Dead, NothingBeforeResolved, TypeOK
<1>3. VersionIsShared'
  BY DEF Gone, Fail, Dead, VersionIsShared, TypeOK, NothingBeforeResolved
<1>4. ChildOfAttempt'
  BY DEF Gone, Fail, Dead, ChildOfAttempt, TypeOK
<1>5. InFlightIsShared'
  BY DEF Gone, Fail, Dead, InFlightIsShared, InFlight, TypeOK
<1>6. AliveIsShared'
  BY DEF Gone, Fail, Dead, AliveIsShared, Alive, Refused, TypeOK
<1>7. UrlOfStarted'
  BY DEF Gone, Fail, Dead, UrlOfStarted, TypeOK
<1>8. UrlOfShared'
  BY DEF Gone, Fail, Dead, UrlOfShared, TypeOK, InFlightIsShared, InFlight, UrlOfStarted
<1>. QED
  BY <1>1, <1>2, <1>3, <1>4, <1>5, <1>6, <1>7, <1>8

\* An attempt refused for its line may leave its child alive, and takes nobody else's slot
\* until stop.
LEMMA NotAPortInv ==
  ASSUME IInv, NEW a \in Attempts, NotAPort(a)
  PROVE  IInv'
<1>. USE BoundType DEF IInv, Attempts
<1>1. TypeOK'
  BY DEF NotAPort, Fail, TypeOK
<1>2. NothingBeforeResolved'
  BY DEF NotAPort, Fail, NothingBeforeResolved, TypeOK
<1>3. VersionIsShared'
  BY DEF NotAPort, Fail, VersionIsShared, TypeOK, NothingBeforeResolved
<1>4. ChildOfAttempt'
  BY DEF NotAPort, Fail, ChildOfAttempt, TypeOK
<1>5. InFlightIsShared'
  BY DEF NotAPort, Fail, InFlightIsShared, InFlight, TypeOK
<1>6. AliveIsShared'
  BY DEF NotAPort, Fail, AliveIsShared, Alive, Refused, TypeOK
<1>7. UrlOfStarted'
  BY DEF NotAPort, Fail, UrlOfStarted, TypeOK
<1>8. UrlOfShared'
  BY DEF NotAPort, Fail, UrlOfShared, TypeOK, InFlightIsShared, InFlight, UrlOfStarted
<1>. QED
  BY <1>1, <1>2, <1>3, <1>4, <1>5, <1>6, <1>7, <1>8

\* The child stop kills is the one that may be alive.
LEMMA StopInv ==
  ASSUME IInv, Stop
  PROVE  IInv'
<1>. USE BoundType DEF IInv, Attempts
<1>1. TypeOK'
  BY DEF Stop, TypeOK
<1>2. NothingBeforeResolved'
  BY DEF Stop, NothingBeforeResolved, TypeOK
<1>3. VersionIsShared'
  BY DEF Stop, VersionIsShared, TypeOK, NothingBeforeResolved
<1>4. ChildOfAttempt'
  BY DEF Stop, ChildOfAttempt, TypeOK
<1>5. InFlightIsShared'
  BY DEF Stop, InFlightIsShared, InFlight, TypeOK
<1>6. AliveIsShared'
  BY DEF Stop, AliveIsShared, Alive, Refused, TypeOK
<1>7. UrlOfStarted'
  BY DEF Stop, UrlOfStarted, TypeOK
<1>8. UrlOfShared'
  BY DEF Stop, UrlOfShared, TypeOK
<1>. QED
  BY <1>1, <1>2, <1>3, <1>4, <1>5, <1>6, <1>7, <1>8

\* Every step preserves the invariant.
LEMMA NextInv ==
  ASSUME IInv, [Next]_vars
  PROVE  IInv'
<1>1. CASE UNCHANGED vars
  BY <1>1 DEF vars, slots, IInv, TypeOK, NothingBeforeResolved, VersionIsShared, ChildOfAttempt,
              InFlightIsShared, InFlight, AliveIsShared, Alive, Refused, UrlOfStarted, UrlOfShared
<1>2. CASE Start \/ StartFails \/ Stop
  BY <1>2, StartInv, StartFailsInv, StopInv
<1>3. ASSUME NEW a \in Attempts, VersionDone(a) \/ Data(a) \/ NotAPort(a) \/ Gone(a)
      PROVE  IInv'
  BY <1>3, VersionDoneInv, DataInv, NotAPortInv, GoneInv
<1>4. ASSUME NEW a \in Attempts, NEW how \in {"zero", "nonzero", "signal"}, End(a, how)
      PROVE  IInv'
  BY <1>4, EndInv
<1>5. ASSUME NEW a \in Attempts, NEW line \in Lines, PrintLine(a, line)
      PROVE  IInv'
  BY <1>5, PrintInv
<1>. QED
  BY <1>1, <1>2, <1>3, <1>4, <1>5 DEF Next

\* The invariant that the slots of ServeProcess, its attempts and their children keep
\* between them, for any number of starts and any order of the events.
THEOREM SupervisorInvariant == Spec => []IInv
<1>1. IInv /\ [Next]_vars => IInv'
  BY NextInv
<1>. QED
  BY <1>1, InitInv, PTL DEF Spec

\* The slots hold attempts that were made, and #proc a child that was spawned.
THEOREM SupervisorTypeOK == Spec => []TypeOK
<1>. QED
  BY SupervisorInvariant, PTL DEF IInv

\* Until stop, whoever calls start shares the one child there is, but for those whose own
\* start was refused for what they printed.
THEOREM SupervisorSharedSpawn == Spec => []SharedSpawn
<1>1. IInv => SharedSpawn
  BY DEF IInv, SharedSpawn, InFlightIsShared, AliveIsShared
<1>. QED
  BY <1>1, SupervisorInvariant, PTL

\* A child that stop would not kill had its own start refused for what it printed, or its
\* slot cleared by the late failure of another.
THEOREM SupervisorNoStray == Spec => []NoStray
<1>1. IInv => NoStray
  BY DEF IInv, NoStray, AliveIsShared
<1>. QED
  BY <1>1, SupervisorInvariant, PTL

\* Until stop, the base URL is the shared child's.
THEOREM SupervisorUrlOfShared == Spec => []UrlOfShared
<1>. QED
  BY SupervisorInvariant, PTL DEF IInv

\* Only Node has a child that was never spawned or keeps a blank line, and an attempt waits
\* from its spawn on.
ChildOfWaiting ==
  \A a \in Attempts :
    /\ attempt[a] = "waiting" => child[a] # "none"
    /\ child[a] = "absent" => runtime = "node"
    /\ output[a] = "blank" => runtime = "node"

LEMMA ChildOfWaitingStep ==
  ASSUME IInv, ChildOfWaiting, [Next]_vars
  PROVE  ChildOfWaiting'
<1>. USE DEF ChildOfWaiting, IInv, TypeOK
<1>1. CASE UNCHANGED vars
  BY <1>1 DEF vars
<1>2. CASE Start
  <2>1. starts + 1 \in Attempts
    BY <1>2, BoundType DEF Start, Attempts
  <2>. QED
    BY <1>2, <2>1 DEF Start, Spawned
<1>3. CASE StartFails \/ Stop
  BY <1>3 DEF StartFails, Fail, Stop
<1>4. ASSUME NEW a \in Attempts, VersionDone(a)
      PROVE  ChildOfWaiting'
  BY <1>4 DEF VersionDone, Spawned, Fail
<1>5. ASSUME NEW a \in Attempts,
             \/ Data(a) \/ NotAPort(a) \/ Gone(a)
             \/ \E line \in Lines : PrintLine(a, line)
             \/ \E how \in {"zero", "nonzero", "signal"} : End(a, how)
      PROVE  ChildOfWaiting'
  BY <1>5, LinesType DEF PrintLine, Data, NotAPort, Gone, Fail, End
<1>. QED
  BY <1>1, <1>2, <1>3, <1>4, <1>5 DEF Next

\* A start that waits is settled by a line or an end that is still to come, except where
\* Node hears none: the safety half of StartSettles.
THEOREM SupervisorWaitersHear == Spec => []WaitersHear
<1>1. Init => ChildOfWaiting
  BY DEF Init, ChildOfWaiting
<1>2. IInv /\ ChildOfWaiting /\ [Next]_vars => ChildOfWaiting'
  BY ChildOfWaitingStep
<1>3. IInv /\ ChildOfWaiting => WaitersHear
  BY DEF WaitersHear, ChildOfWaiting, IInv, TypeOK, Dead, Unheard
<1>. QED
  BY <1>1, <1>2, <1>3, SupervisorInvariant, PTL DEF Spec
=============================================================================
