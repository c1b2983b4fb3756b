------------------------- MODULE EngineServerProofs ------------------------
(***************************************************************************)
(* Machine-checked proofs about EngineServer, for every set of engines,    *)
(* calls and ports: the inductive invariant IInv, and the safety           *)
(* properties it implies.                                                  *)
(***************************************************************************)
EXTENDS EngineServer, TLAPS

\* A port variable never leads outside the range of ports.
LEMMA PreferredType ==
  ASSUME NEW e \in Engines
  PROVE  Preferred(e) \in Ports
BY PortsType DEF Preferred, Ports

\* Nothing has been called, bound or published.
LEMMA InitInv ==
  ASSUME Init
  PROVE  IInv
<1>. USE NoneIsNoValue
<1>1. TypeOK
  BY DEF Init, TypeOK, Ports
<1>. QED
  BY <1>1 DEF Init, IInv, BindsLocked, UntoldYet, ToldByServer, ListensOnTold, PublishedServes,
              ServesPublished, ToldIsCurrent, ShutDownWaits, BusyIsAlive


\* A caller that has not called yet has been told nothing.
LEMMA CallInv ==
  ASSUME IInv, NEW c \in Callers, NEW j \in Jobs[c], Call(c, j)
  PROVE  IInv'
<1>. USE JobsType, NoneIsNoValue DEF IInv
<1>0. j \in {"start", "start_with", "prepare", "shutdown"}
  OBVIOUS
<1>1. TypeOK'
  BY <1>0 DEF Call, Goto, servers, TypeOK
<1>2. BindsLocked'
  BY DEF Call, Goto, servers, BindsLocked, TypeOK
<1>3. UntoldYet'
  BY DEF Call, Goto, servers, UntoldYet, TypeOK
<1>4. ToldByServer'
  BY DEF Call, Goto, servers, ToldByServer, TypeOK, UntoldYet
<1>5. ListensOnTold'
  BY DEF Call, Goto, servers, ListensOnTold, TypeOK, UntoldYet
<1>6. PublishedServes'
  BY DEF Call, Goto, servers, PublishedServes, TypeOK, ToldByServer
<1>7. ServesPublished'
  BY DEF Call, Goto, servers, ServesPublished, TypeOK, UntoldYet
<1>8. ToldIsCurrent'
  BY DEF Call, Goto, servers, ToldIsCurrent, TakenDown, TypeOK, UntoldYet
<1>9. ShutDownWaits'
  BY DEF Call, Goto, servers, ShutDownWaits, TypeOK, UntoldYet
<1>10. BusyIsAlive'
  BY DEF Call, Goto, servers, BusyIsAlive, TypeOK
<1>. QED
  BY <1>1, <1>2, <1>3, <1>4, <1>5, <1>6, <1>7, <1>8, <1>9, <1>10

\* A state that is published names a port and the caller whose server has it.
LEMMA PublishedState ==
  ASSUME TypeOK, NEW c \in Callers, server[Of[c]] # None
  PROVE  Of[c] \in Engines /\ server[Of[c]] \in [port : Ports, by : Callers]
           /\ server[Of[c]].port \in Ports /\ server[Of[c]].by \in Callers
<1>1. Of[c] \in Engines
  BY JobsType
<1>2. server \in [Engines -> [port : Ports, by : Callers] \cup {None}]
  BY DEF TypeOK
<1>3. server[Of[c]] \in [port : Ports, by : Callers]
  BY <1>1, <1>2
<1>. QED
  BY <1>1, <1>3

\* A start that finds the server running is told what is published.
LEMMA FindInv ==
  ASSUME IInv, NEW c \in Callers, Find(c)
  PROVE  IInv'
<1>. USE JobsType, NoneIsNoValue DEF IInv
<1>1. TypeOK'
  <2>1. /\ \A d \in Callers \ {c} : pc'[d] = pc[d]
        /\ \A e \in Engines : lock[e] # c
    BY DEF Find, Goto, TypeOK
  <2>2. server[Of[c]] \in [port : Ports, by : Callers]
    BY PublishedState DEF Find, TypeOK
  <2>3. told' \in [Callers -> [port : Ports, by : Callers] \cup {None}]
    BY <2>2 DEF Find, TypeOK
  <2>. QED
    BY <2>1, <2>3 DEF Find, Goto, Started, servers, TypeOK
<1>2. BindsLocked'
  BY DEF Find, Goto, Started, servers, BindsLocked, TypeOK
<1>3. UntoldYet'
  BY DEF Find, Goto, Started, servers, UntoldYet, TypeOK
<1>4. ToldByServer'
  <2>1. /\ told' = [told EXCEPT ![c] = server[Of[c]]]
        /\ UNCHANGED task
    BY DEF Find, servers
  <2>. DEFINE b == server[Of[c]].by
  <2>0. Of[c] \in Engines /\ server[Of[c]] \in [port : Ports, by : Callers]
    <3>1. Of[c] \in Engines /\ server[Of[c]] # None
      BY DEF Find
    <3>. QED
      BY <3>1 DEF TypeOK
  <2>2. b \in Callers /\ task[b] = "serving" /\ Of[b] = Of[c]
    BY <2>0, NoneIsNoValue DEF PublishedServes, Ports
  <2>4. told[b] = server[Of[c]]
    BY <2>2 DEF ServesPublished
  <2>3. task[c] = "none" /\ told[c] = None
    BY DEF Find, UntoldYet
  <2>. QED
    BY <2>1, <2>2, <2>3, <2>4 DEF ToldByServer, TypeOK
<1>5. ListensOnTold'
  BY DEF Find, Goto, Started, servers, ListensOnTold, TypeOK, UntoldYet
<1>6. PublishedServes'
  BY DEF Find, Goto, Started, servers, PublishedServes, TypeOK, ToldByServer
<1>7. ServesPublished'
  BY DEF Find, Goto, Started, servers, ServesPublished, TypeOK, UntoldYet
<1>8. ToldIsCurrent'
  BY DEF Find, Goto, Started, servers, ToldIsCurrent, TakenDown, TypeOK, UntoldYet
<1>9. ShutDownWaits'
  BY DEF Find, Goto, Started, servers, ShutDownWaits, TypeOK, UntoldYet
<1>10. BusyIsAlive'
  BY DEF Find, Goto, Started, servers, BusyIsAlive, TypeOK
<1>. QED
  BY <1>1, <1>2, <1>3, <1>4, <1>5, <1>6, <1>7, <1>8, <1>9, <1>10

\* A start that finds no server takes the mutex.
LEMMA LockInv ==
  ASSUME IInv, NEW c \in Callers, Lock(c)
  PROVE  IInv'
<1>. USE JobsType, NoneIsNoValue DEF IInv
<1>0. /\ \A e \in Engines : lock'[e] = IF e = Of[c] THEN c ELSE lock[e]
      /\ \A d \in Callers : pc'[d] = IF d = c THEN FirstBind(Of[c]) ELSE pc[d]
      /\ FirstBind(Of[c]) \in {"binding", "fallback"} /\ Of[c] \in Engines
  <2>1. FirstBind(Of[c]) \in {"binding", "fallback"} /\ Of[c] \in Engines
    BY DEF FirstBind
  <2>. QED
    BY <2>1 DEF Lock, Goto, TypeOK
<1>1. TypeOK'
  <2>1. \A e \in Engines : lock'[e] # None =>
          Of[lock'[e]] = e /\ pc'[lock'[e]] \in {"binding", "fallback"}
    BY <1>0 DEF TypeOK
  <2>. QED
    BY <1>0, <2>1 DEF Lock, Goto, servers, TypeOK
<1>2. BindsLocked'
  BY <1>0 DEF Lock, servers, BindsLocked, TypeOK
<1>3. UntoldYet'
  BY DEF Lock, Goto, FirstBind, servers, UntoldYet, TypeOK
<1>4. ToldByServer'
  BY DEF Lock, Goto, FirstBind, servers, ToldByServer, TypeOK, UntoldYet
<1>5. ListensOnTold'
  BY DEF Lock, Goto, FirstBind, servers, ListensOnTold, TypeOK, UntoldYet
<1>6. PublishedServes'
  BY DEF Lock, Goto, FirstBind, servers, PublishedServes, TypeOK, ToldByServer
<1>7. ServesPublished'
  BY DEF Lock, Goto, FirstBind, servers, ServesPublished, TypeOK, UntoldYet
<1>8. ToldIsCurrent'
  BY DEF Lock, Goto, FirstBind, servers, ToldIsCurrent, TakenDown, TypeOK, UntoldYet
<1>9. ShutDownWaits'
  BY DEF Lock, Goto, FirstBind, servers, ShutDownWaits, TypeOK, UntoldYet
<1>10. BusyIsAlive'
  BY DEF Lock, Goto, FirstBind, servers, BusyIsAlive, TypeOK
<1>. QED
  BY <1>1, <1>2, <1>3, <1>4, <1>5, <1>6, <1>7, <1>8, <1>9, <1>10

\* A start that fails gives the mutex back.
LEMMA FailInv ==
  ASSUME IInv, NEW c \in Callers, pc[c] \in {"binding", "fallback"}, Fail(c)
  PROVE  IInv'
<1>. USE JobsType, NoneIsNoValue DEF IInv
<1>0. /\ \A e \in Engines : lock'[e] = IF e = Of[c] THEN None ELSE lock[e]
      /\ \A d \in Callers : pc'[d] = IF d = c THEN "failed" ELSE pc[d]
      /\ \A e \in Engines : lock[e] = c => e = Of[c]
  BY DEF Fail, Goto, TypeOK
<1>1. TypeOK'
  <2>1. \A e \in Engines : lock'[e] # None =>
          Of[lock'[e]] = e /\ pc'[lock'[e]] \in {"binding", "fallback"}
    BY <1>0 DEF TypeOK
  <2>. QED
    BY <2>1 DEF Fail, Goto, servers, TypeOK
<1>2. BindsLocked'
  BY DEF Fail, Goto, servers, BindsLocked, TypeOK
<1>3. UntoldYet'
  BY DEF Fail, Goto, servers, UntoldYet, TypeOK
<1>4. ToldByServer'
  BY DEF Fail, Goto, servers, ToldByServer, TypeOK, UntoldYet
<1>5. ListensOnTold'
  BY DEF Fail, Goto, servers, ListensOnTold, TypeOK, UntoldYet
<1>6. PublishedServes'
  BY DEF Fail, Goto, servers, PublishedServes, TypeOK, ToldByServer
<1>7. ServesPublished'
  BY DEF Fail, Goto, servers, ServesPublished, TypeOK, UntoldYet
<1>8. ToldIsCurrent'
  BY DEF Fail, Goto, servers, ToldIsCurrent, TakenDown, TypeOK, UntoldYet
<1>9. ShutDownWaits'
  BY DEF Fail, Goto, servers, ShutDownWaits, TypeOK, UntoldYet
<1>10. BusyIsAlive'
  BY DEF Fail, Goto, servers, BusyIsAlive, TypeOK
<1>. QED
  BY <1>1, <1>2, <1>3, <1>4, <1>5, <1>6, <1>7, <1>8, <1>9, <1>10

\* The URL has the port the start was told.
LEMMA PrepareInv ==
  ASSUME IInv, NEW c \in Callers, Prepare(c)
  PROVE  IInv'
<1>. USE JobsType, NoneIsNoValue DEF IInv
<1>1. TypeOK'
  <2>1. told[c] \in [port : Ports, by : Callers]
    BY DEF Prepare, UntoldYet, TypeOK
  <2>2. url' \in [Callers -> [port : Ports, id : Callers] \cup {None}]
    BY <2>1 DEF Prepare, TypeOK
  <2>. QED
    BY <2>2 DEF Prepare, Goto, servers, TypeOK
<1>2. BindsLocked'
  BY DEF Prepare, Goto, servers, BindsLocked, TypeOK
<1>3. UntoldYet'
  BY DEF Prepare, Goto, servers, UntoldYet, TypeOK
<1>4. ToldByServer'
  BY DEF Prepare, Goto, servers, ToldByServer, TypeOK, UntoldYet
<1>5. ListensOnTold'
  BY DEF Prepare, Goto, servers, ListensOnTold, TypeOK, UntoldYet
<1>6. PublishedServes'
  BY DEF Prepare, Goto, servers, PublishedServes, TypeOK, ToldByServer
<1>7. ServesPublished'
  BY DEF Prepare, Goto, servers, ServesPublished, TypeOK, UntoldYet
<1>8. ToldIsCurrent'
  BY DEF Prepare, Goto, servers, ToldIsCurrent, TakenDown, TypeOK, UntoldYet
<1>9. ShutDownWaits'
  BY DEF Prepare, Goto, servers, ShutDownWaits, TypeOK, UntoldYet
<1>10. BusyIsAlive'
  BY DEF Prepare, Goto, servers, BusyIsAlive, TypeOK
<1>. QED
  BY <1>1, <1>2, <1>3, <1>4, <1>5, <1>6, <1>7, <1>8, <1>9, <1>10

\* A dropped call gives back the mutex if it held it.
LEMMA DropInv ==
  ASSUME IInv, NEW c \in Callers, Drop(c)
  PROVE  IInv'
<1>. USE JobsType, NoneIsNoValue DEF IInv
<1>1. TypeOK'
  BY DEF Drop, Goto, servers, TypeOK
<1>2. BindsLocked'
  <2>1. /\ \A e \in Engines : lock'[e] = IF lock[e] = c THEN None ELSE lock[e]
        /\ \A d \in Callers : pc'[d] = IF d = c THEN "dropped" ELSE pc[d]
    BY DEF Drop, Goto, TypeOK
  <2>. QED
    BY <2>1 DEF Drop, servers, BindsLocked, TypeOK
<1>3. UntoldYet'
  BY DEF Drop, Goto, servers, UntoldYet, TypeOK
<1>4. ToldByServer'
  BY DEF Drop, Goto, servers, ToldByServer, TypeOK, UntoldYet
<1>5. ListensOnTold'
  BY DEF Drop, Goto, servers, ListensOnTold, TypeOK, UntoldYet
<1>6. PublishedServes'
  BY DEF Drop, Goto, servers, PublishedServes, TypeOK, ToldByServer
<1>7. ServesPublished'
  BY DEF Drop, Goto, servers, ServesPublished, TypeOK, UntoldYet
<1>8. ToldIsCurrent'
  BY DEF Drop, Goto, servers, ToldIsCurrent, TakenDown, TypeOK, UntoldYet
<1>9. ShutDownWaits'
  BY DEF Drop, Goto, servers, ShutDownWaits, TypeOK, UntoldYet
<1>10. BusyIsAlive'
  BY DEF Drop, Goto, servers, BusyIsAlive, TypeOK
<1>. QED
  BY <1>1, <1>2, <1>3, <1>4, <1>5, <1>6, <1>7, <1>8, <1>9, <1>10

\* A shutdown returns when the server it took has ended.
LEMMA DrainedInv ==
  ASSUME IInv, NEW c \in Callers, Drained(c)
  PROVE  IInv'
<1>. USE JobsType, NoneIsNoValue DEF IInv
<1>1. TypeOK'
  BY DEF Drained, Goto, servers, TypeOK
<1>2. BindsLocked'
  BY DEF Drained, Goto, servers, BindsLocked, TypeOK
<1>3. UntoldYet'
  BY DEF Drained, Goto, servers, UntoldYet, TypeOK
<1>4. ToldByServer'
  BY DEF Drained, Goto, servers, ToldByServer, TypeOK, UntoldYet
<1>5. ListensOnTold'
  BY DEF Drained, Goto, servers, ListensOnTold, TypeOK, UntoldYet
<1>6. PublishedServes'
  BY DEF Drained, Goto, servers, PublishedServes, TypeOK, ToldByServer
<1>7. ServesPublished'
  BY DEF Drained, Goto, servers, ServesPublished, TypeOK, UntoldYet
<1>8. ToldIsCurrent'
  BY DEF Drained, Goto, servers, ToldIsCurrent, TakenDown, TypeOK, UntoldYet
<1>9. ShutDownWaits'
  BY DEF Drained, Goto, servers, ShutDownWaits, TypeOK, UntoldYet
<1>10. BusyIsAlive'
  BY DEF Drained, Goto, servers, BusyIsAlive, TypeOK
<1>. QED
  BY <1>1, <1>2, <1>3, <1>4, <1>5, <1>6, <1>7, <1>8, <1>9, <1>10

\* A request comes in at a server that serves.
LEMMA RequestInInv ==
  ASSUME IInv, NEW c \in Callers, RequestIn(c)
  PROVE  IInv'
<1>. USE JobsType, NoneIsNoValue DEF IInv
<1>1. TypeOK'
  BY DEF RequestIn, callers, TypeOK
<1>2. BindsLocked'
  BY DEF RequestIn, callers, BindsLocked, TypeOK
<1>3. UntoldYet'
  BY DEF RequestIn, callers, UntoldYet, TypeOK
<1>4. ToldByServer'
  BY DEF RequestIn, callers, ToldByServer, TypeOK, UntoldYet
<1>5. ListensOnTold'
  BY DEF RequestIn, callers, ListensOnTold, TypeOK, UntoldYet
<1>6. PublishedServes'
  BY DEF RequestIn, callers, PublishedServes, TypeOK, ToldByServer
<1>7. ServesPublished'
  BY DEF RequestIn, callers, ServesPublished, TypeOK, UntoldYet
<1>8. ToldIsCurrent'
  BY DEF RequestIn, callers, ToldIsCurrent, TakenDown, TypeOK, UntoldYet
<1>9. ShutDownWaits'
  BY DEF RequestIn, callers, ShutDownWaits, TypeOK, UntoldYet
<1>10. BusyIsAlive'
  BY DEF RequestIn, callers, BusyIsAlive, TypeOK
<1>. QED
  BY <1>1, <1>2, <1>3, <1>4, <1>5, <1>6, <1>7, <1>8, <1>9, <1>10

\* A request is answered.
LEMMA RequestOutInv ==
  ASSUME IInv, NEW c \in Callers, RequestOut(c)
  PROVE  IInv'
<1>. USE JobsType, NoneIsNoValue DEF IInv
<1>1. TypeOK'
  BY DEF RequestOut, callers, TypeOK
<1>2. BindsLocked'
  BY DEF RequestOut, callers, BindsLocked, TypeOK
<1>3. UntoldYet'
  BY DEF RequestOut, callers, UntoldYet, TypeOK
<1>4. ToldByServer'
  BY DEF RequestOut, callers, ToldByServer, TypeOK, UntoldYet
<1>5. ListensOnTold'
  BY DEF RequestOut, callers, ListensOnTold, TypeOK, UntoldYet
<1>6. PublishedServes'
  BY DEF RequestOut, callers, PublishedServes, TypeOK, ToldByServer
<1>7. ServesPublished'
  BY DEF RequestOut, callers, ServesPublished, TypeOK, UntoldYet
<1>8. ToldIsCurrent'
  BY DEF RequestOut, callers, ToldIsCurrent, TakenDown, TypeOK, UntoldYet
<1>9. ShutDownWaits'
  BY DEF RequestOut, callers, ShutDownWaits, TypeOK, UntoldYet
<1>10. BusyIsAlive'
  BY DEF RequestOut, callers, BusyIsAlive, TypeOK
<1>. QED
  BY <1>1, <1>2, <1>3, <1>4, <1>5, <1>6, <1>7, <1>8, <1>9, <1>10

\* A signalled server closes its listener.
LEMMA StopAcceptingInv ==
  ASSUME IInv, NEW c \in Callers, StopAccepting(c)
  PROVE  IInv'
<1>. USE JobsType, NoneIsNoValue DEF IInv
<1>1. TypeOK'
  BY DEF StopAccepting, callers, TypeOK
<1>2. BindsLocked'
  BY DEF StopAccepting, callers, BindsLocked, TypeOK
<1>3. UntoldYet'
  BY DEF StopAccepting, callers, UntoldYet, TypeOK
<1>4. ToldByServer'
  BY DEF StopAccepting, callers, ToldByServer, TypeOK, UntoldYet
<1>5. ListensOnTold'
  BY DEF StopAccepting, callers, ListensOnTold, TypeOK, UntoldYet
<1>6. PublishedServes'
  BY DEF StopAccepting, callers, PublishedServes, TypeOK, ToldByServer
<1>7. ServesPublished'
  BY DEF StopAccepting, callers, ServesPublished, TypeOK, UntoldYet
<1>8. ToldIsCurrent'
  BY DEF StopAccepting, callers, ToldIsCurrent, TakenDown, TypeOK, UntoldYet
<1>9. ShutDownWaits'
  BY DEF StopAccepting, callers, ShutDownWaits, TypeOK, UntoldYet
<1>10. BusyIsAlive'
  BY DEF StopAccepting, callers, BusyIsAlive, TypeOK
<1>. QED
  BY <1>1, <1>2, <1>3, <1>4, <1>5, <1>6, <1>7, <1>8, <1>9, <1>10

\* A closed server with nothing in flight ends.
LEMMA EndInv ==
  ASSUME IInv, NEW c \in Callers, End(c)
  PROVE  IInv'
<1>. USE JobsType, NoneIsNoValue DEF IInv
<1>1. TypeOK'
  BY DEF End, callers, TypeOK
<1>2. BindsLocked'
  BY DEF End, callers, BindsLocked, TypeOK
<1>3. UntoldYet'
  BY DEF End, callers, UntoldYet, TypeOK
<1>4. ToldByServer'
  BY DEF End, callers, ToldByServer, TypeOK, UntoldYet
<1>5. ListensOnTold'
  BY DEF End, callers, ListensOnTold, TypeOK, UntoldYet
<1>6. PublishedServes'
  BY DEF End, callers, PublishedServes, TypeOK, ToldByServer
<1>7. ServesPublished'
  BY DEF End, callers, ServesPublished, TypeOK, UntoldYet
<1>8. ToldIsCurrent'
  BY DEF End, callers, ToldIsCurrent, TakenDown, TypeOK, UntoldYet
<1>9. ShutDownWaits'
  BY DEF End, callers, ShutDownWaits, TypeOK, UntoldYet
<1>10. BusyIsAlive'
  BY DEF End, callers, BusyIsAlive, TypeOK
<1>. QED
  BY <1>1, <1>2, <1>3, <1>4, <1>5, <1>6, <1>7, <1>8, <1>9, <1>10

\* The holder of the mutex publishes a server on a free port: no other server of its engine
\* serves.
LEMMA PublishInv ==
  ASSUME IInv, NEW c \in Callers, NEW p \in Ports, pc[c] \in {"binding", "fallback"}, Publish(c, p)
  PROVE  IInv'
<1>. USE JobsType, NoneIsNoValue DEF IInv
<1>. DEFINE state == [port |-> p, by |-> c]
<1>0. /\ Of[c] \in Engines /\ state \in [port : Ports, by : Callers]
      /\ state # None /\ told[c] = None /\ url[c] = None /\ task[c] = "none"
      /\ server[Of[c]] = None /\ lock[Of[c]] = c /\ job[c] # "shutdown"
  BY DEF BindsLocked, UntoldYet, ShutDownWaits, Ports
<1>a. /\ \A e \in Engines : lock'[e] = (IF e = Of[c] THEN None ELSE lock[e])
                            /\ server'[e] = (IF e = Of[c] THEN state ELSE server[e])
      /\ \A d \in Callers : told'[d] = (IF d = c THEN state ELSE told[d])
                            /\ task'[d] = (IF d = c THEN "serving" ELSE task[d])
                            /\ pc'[d] = (IF d = c THEN Started(c) ELSE pc[d])
      /\ \A q \in Ports : socket'[q] = (IF q = p THEN c ELSE socket[q])
      /\ Started(c) \in {"started", "done"} /\ UNCHANGED <<busy, job, url>>
  BY DEF Publish, Goto, Started, TypeOK
<1>1. TypeOK'
  <2>1. \A e \in Engines : lock'[e] # None =>
          Of[lock'[e]] = e /\ pc'[lock'[e]] \in {"binding", "fallback"}
    BY <1>0, <1>a DEF TypeOK
  <2>2. /\ server' \in [Engines -> [port : Ports, by : Callers] \cup {None}]
        /\ told' \in [Callers -> [port : Ports, by : Callers] \cup {None}]
    BY <1>0 DEF Publish, TypeOK
  <2>. QED
    BY <1>a, <2>1, <2>2 DEF Publish, Goto, TypeOK
<1>2. BindsLocked'
  BY <1>0, <1>a DEF BindsLocked, TypeOK
<1>3. UntoldYet'
  BY <1>0, <1>a DEF UntoldYet, TypeOK
<1>4. ToldByServer'
  BY <1>0, <1>a DEF ToldByServer, TypeOK
<1>5. ListensOnTold'
  BY <1>0, <1>a DEF ListensOnTold, TypeOK
<1>6. PublishedServes'
  BY <1>0, <1>a DEF PublishedServes, Publish, TypeOK
<1>7. ServesPublished'
  BY <1>0, <1>a DEF ServesPublished, TypeOK
<1>8. ToldIsCurrent'
  <2>1. \A e \in Engines : TakenDown(e) => TakenDown(e)'
    BY <1>0, <1>a DEF TakenDown
  <2>. QED
    BY <1>0, <1>a, <2>1 DEF ToldIsCurrent, TypeOK
<1>9. ShutDownWaits'
  BY <1>0, <1>a DEF ShutDownWaits, ToldByServer, TypeOK
<1>10. BusyIsAlive'
  BY <1>0, <1>a DEF BusyIsAlive, TypeOK
<1>. QED
  BY <1>1, <1>2, <1>3, <1>4, <1>5, <1>6, <1>7, <1>8, <1>9, <1>10

\* A shutdown takes the published state and signals its server.
LEMMA TakeInv ==
  ASSUME IInv, NEW c \in Callers, Take(c)
  PROVE  IInv'
<1>. USE JobsType, NoneIsNoValue DEF IInv
<1>. DEFINE e == Of[c]
            b == server[e].by
<1>0. e \in Engines /\ told[c] = None /\ url[c] = None /\ task[c] = "none" /\ job[c] = "shutdown"
  BY DEF Take, UntoldYet
<1>a. CASE server[e] = None
  <2>1. /\ UNCHANGED <<told, server, task, socket, busy, lock, job, url>>
        /\ pc' = [pc EXCEPT ![c] = "done"]
    BY <1>a DEF Take, Goto
  <2>. QED
    BY <1>0, <2>1 DEF TypeOK, BindsLocked, UntoldYet, ToldByServer, ListensOnTold,
                      PublishedServes,
                      ServesPublished, ToldIsCurrent, TakenDown, ShutDownWaits, BusyIsAlive
<1>b. CASE server[e] # None
  <2>1. /\ server[e] \in [port : Ports, by : Callers] /\ b \in Callers /\ b # c
        /\ task[b] = "serving" /\ Of[b] = e /\ told[b] = server[e]
    <3>1. /\ server[e] \in [port : Ports, by : Callers]
          /\ task[b] = "serving" /\ Of[b] = e
      BY <1>0, <1>b DEF TypeOK, PublishedServes
    <3>. QED
      BY <1>0, <3>1 DEF ServesPublished
  <2>2. /\ \A d \in Callers : told'[d] = (IF d = c THEN server[e] ELSE told[d])
                              /\ task'[d] = (IF d = b THEN "signalled" ELSE task[d])
                              /\ pc'[d] = (IF d = c THEN "draining" ELSE pc[d])
        /\ \A f \in Engines : server'[f] = (IF f = e THEN None ELSE server[f])
        /\ UNCHANGED <<socket, busy, lock, job, url>>
    BY <1>b, <2>1 DEF Take, Goto, TypeOK
  <2>3. TypeOK'
    BY <1>0, <1>b, <2>1, <2>2 DEF Take, Goto, TypeOK
  <2>4. BindsLocked'
    BY <1>0, <1>b, <2>1, <2>2 DEF BindsLocked, TypeOK
  <2>5. UntoldYet'
    BY <1>0, <1>b, <2>1, <2>2 DEF UntoldYet, TypeOK
  <2>6. ToldByServer'
    BY <1>0, <1>b, <2>1, <2>2 DEF ToldByServer, TypeOK
  <2>7. ListensOnTold'
    BY <1>0, <1>b, <2>1, <2>2 DEF ListensOnTold, TypeOK
  <2>8. PublishedServes'
    BY <1>0, <1>b, <2>1, <2>2 DEF PublishedServes, TypeOK
  <2>9. ServesPublished'
    BY <1>0, <1>b, <2>1, <2>2 DEF ServesPublished, ToldByServer, TypeOK
  <2>10. ToldIsCurrent'
    BY <1>0, <1>b, <2>1, <2>2 DEF ToldIsCurrent, TakenDown, TypeOK
  <2>11. ShutDownWaits'
    BY <1>0, <1>b, <2>1, <2>2 DEF ShutDownWaits, UntoldYet, TypeOK
  <2>12. BusyIsAlive'
    BY <1>0, <1>b, <2>1, <2>2 DEF BusyIsAlive, TypeOK
  <2>. QED
    BY <2>3, <2>4, <2>5, <2>6, <2>7, <2>8, <2>9, <2>10, <2>11, <2>12
<1>. QED
  BY <1>a, <1>b

(***************************************************************************)
(* The steps together.                                                     *)
(***************************************************************************)

\* A bind ends with a server, an error, or a second try at an assigned port.
LEMMA BindInv ==
  ASSUME IInv, NEW c \in Callers, Bind(c)
  PROVE  IInv'
<1>. USE JobsType, NoneIsNoValue DEF IInv
<1>1. CASE Publish(c, Preferred(Of[c]))
  BY <1>1, PreferredType, PublishInv DEF Bind
<1>2. CASE Fail(c)
  BY <1>2, FailInv DEF Bind
<1>3. CASE Goto(c, "fallback") /\ UNCHANGED <<servers, lock, job, told, url>>
  <2>1. /\ \A d \in Callers : pc'[d] = IF d = c THEN "fallback" ELSE pc[d]
        /\ pc[c] = "binding" /\ UNCHANGED <<server, socket, task, busy, lock, job, told, url>>
    BY <1>3 DEF Bind, Goto, servers, TypeOK
  <2>2. TypeOK'
    BY <1>3, <2>1 DEF Goto, TypeOK
  <2>3. BindsLocked' /\ UntoldYet' /\ ToldByServer' /\ ListensOnTold'
    BY <2>1 DEF BindsLocked, UntoldYet, ToldByServer, ListensOnTold
  <2>4. PublishedServes' /\ ServesPublished' /\ ToldIsCurrent' /\ ShutDownWaits' /\ BusyIsAlive'
    BY <2>1 DEF PublishedServes, ServesPublished, ToldIsCurrent, TakenDown, ShutDownWaits,
                BusyIsAlive
  <2>. QED
    BY <2>2, <2>3, <2>4
<1>. QED
  BY <1>1, <1>2, <1>3 DEF Bind

\* So does a bind of a port the OS assigns.
LEMMA BindAssignedInv ==
  ASSUME IInv, NEW c \in Callers, BindAssigned(c)
  PROVE  IInv'
BY PortsType, PublishInv, FailInv DEF BindAssigned, Ports

\* Every step preserves the invariant.
LEMMA NextInv ==
  ASSUME IInv, [Next]_vars
  PROVE  IInv'
<1>1. CASE UNCHANGED vars
  BY <1>1 DEF vars, IInv, TypeOK, BindsLocked, UntoldYet, ToldByServer, ListensOnTold,
              PublishedServes,
              ServesPublished, ToldIsCurrent, TakenDown, ShutDownWaits, BusyIsAlive
<1>2. ASSUME NEW c \in Callers, NEW j \in Jobs[c], Call(c, j)
      PROVE  IInv'
  BY <1>2, CallInv
<1>3. ASSUME NEW c \in Callers, Step(c)
      PROVE  IInv'
  BY <1>3, FindInv, LockInv, BindInv, BindAssignedInv, PrepareInv, TakeInv, DrainedInv DEF Step
<1>4. ASSUME NEW c \in Callers, Drop(c) \/ RequestIn(c) \/ Task(c)
      PROVE  IInv'
  BY <1>4, DropInv, RequestInInv, RequestOutInv, StopAcceptingInv, EndInv DEF Task
<1>. QED
  BY <1>1, <1>2, <1>3, <1>4 DEF Next

\* The invariant that the mutex, the published state, the listeners and what each call
\* was told keep between them, for any engines, calls, ports and interleaving.
THEOREM EngineInvariant == Spec => []IInv
<1>1. IInv /\ [Next]_vars => IInv'
  BY NextInv
<1>. QED
  BY <1>1, InitInv, PTL DEF Spec

(***************************************************************************)
(* The safety properties of the run, for every instance.                   *)
(***************************************************************************)
\* A listener has not been closed, so its server serves or was signalled.
LEMMA ImpliesNoOrphan ==
  ASSUME IInv
  PROVE  NoOrphan
<1>. SUFFICES ASSUME NEW p \in Ports, socket[p] # None, task[socket[p]] # "signalled"
              PROVE  server[Of[socket[p]]] = [port |-> p, by |-> socket[p]]
  BY DEF NoOrphan
<1>1. socket[p] \in Callers
  BY DEF IInv, TypeOK
<1>. QED
  BY <1>1 DEF IInv, ListensOnTold, ServesPublished

\* What two callers were told is both times what is published: nothing was shut down, or the
\* servers they were told serve.
LEMMA ImpliesOneAddress ==
  ASSUME IInv
  PROVE  OneAddress
<1>1. ASSUME NEW c \in Callers, told[c] # None, task[told[c].by] = "serving"
      PROVE  server[Of[c]] = told[c]
  <2>1. told[c].by \in Callers
    BY <1>1, NoneIsNoValue DEF IInv, TypeOK
  <2>. QED
    BY <1>1, <2>1 DEF IInv, ToldByServer, ServesPublished
<1>. QED
  BY <1>1 DEF IInv, ToldIsCurrent, OneAddress

\* The URL's port is the one its caller was told, and that server is the published one.
LEMMA ImpliesUrlReachable ==
  ASSUME IInv
  PROVE  UrlReachable
<1>. SUFFICES ASSUME NEW c \in Callers, url[c] # None, task[told[c].by] = "serving"
              PROVE  socket[url[c].port] = told[c].by /\ server[Of[c]] = told[c]
  BY DEF UrlReachable
<1>. USE JobsType, NoneIsNoValue
<1>1. told[c] # None /\ url[c].port = told[c].port /\ told[c] \in [port : Ports, by : Callers]
  BY DEF IInv, UntoldYet, TypeOK
<1>2. server[Of[c]] = told[c]
  BY <1>1 DEF IInv, ToldByServer, ServesPublished
<1>. QED
  BY <1>1, <1>2 DEF IInv, PublishedServes

\* A server that has ended listens nowhere and has answered everything.
LEMMA ImpliesShutDownIsDown ==
  ASSUME IInv
  PROVE  ShutDownIsDown
<1>. SUFFICES ASSUME NEW c \in Callers, pc[c] = "done", job[c] = "shutdown", told[c] # None
              PROVE  told[c].by \notin busy /\ \A p \in Ports : socket[p] # told[c].by
  BY DEF ShutDownIsDown
<1>1. told[c].by \in Callers /\ task[told[c].by] = "ended"
  BY DEF IInv, ShutDownWaits, TypeOK
<1>. QED
  BY <1>1, NoneIsNoValue DEF IInv, BusyIsAlive, ListensOnTold

\* Every variable keeps its type, and the mutex is held by a caller that is binding.
THEOREM EngineTypeOK == Spec => []TypeOK
<1>. QED
  BY EngineInvariant, PTL DEF IInv

\* Whatever listens is the published server of its engine, or one that was told to stop.
THEOREM EngineNoOrphan == Spec => []NoOrphan
<1>1. IInv => NoOrphan
  BY ImpliesNoOrphan
<1>. QED
  BY <1>1, EngineInvariant, PTL

\* The published state is that of a server that listens and serves.
THEOREM EnginePublishedServes == Spec => []PublishedServes
<1>. QED
  BY EngineInvariant, PTL DEF IInv

\* Until a shutdown, all the callers of an engine are told one port, and after it those whose
\* servers serve.
THEOREM EngineOneAddress == Spec => []OneAddress
<1>1. IInv => OneAddress
  BY ImpliesOneAddress
<1>. QED
  BY <1>1, EngineInvariant, PTL

\* An approval URL leads to its engine's listener while that server serves.
THEOREM EngineUrlReachable == Spec => []UrlReachable
<1>1. IInv => UrlReachable
  BY ImpliesUrlReachable
<1>. QED
  BY <1>1, EngineInvariant, PTL

\* A shutdown that has returned leaves no listener and no request in flight.
THEOREM EngineShutDownIsDown == Spec => []ShutDownIsDown
<1>1. IInv => ShutDownIsDown
  BY ImpliesShutDownIsDown
<1>. QED
  BY <1>1, EngineInvariant, PTL

Stopping(b) == task[b] \in {"signalled", "closed", "ended"}

\* A server that was told to stop is never started again.
LEMMA StoppingStays ==
  ASSUME IInv, [Next]_vars, NEW b \in Callers, Stopping(b)
  PROVE  Stopping(b)'
<1>. USE DEF Stopping
<1>1. CASE UNCHANGED vars
  BY <1>1 DEF vars
<1>2. ASSUME NEW c \in Callers, NEW p, Publish(c, p), pc[c] \in {"binding", "fallback"}
      PROVE  Stopping(b)'
  BY <1>2 DEF Publish, IInv, TypeOK, UntoldYet
<1>3. ASSUME NEW c \in Callers, Take(c)
      PROVE  Stopping(b)'
  BY <1>3 DEF Take, IInv, TypeOK
<1>4. ASSUME NEW c \in Callers, Bind(c) \/ BindAssigned(c)
      PROVE  Stopping(b)'
  BY <1>2, <1>4 DEF Bind, BindAssigned, Fail, servers
<1>5. ASSUME NEW c \in Callers,
             \/ \E j \in Jobs[c] : Call(c, j)
             \/ Find(c) \/ Lock(c) \/ Prepare(c) \/ Drained(c) \/ Drop(c)
      PROVE  Stopping(b)'
  BY <1>5 DEF Call, Find, Lock, Prepare, Drained, Drop, servers
<1>6. ASSUME NEW c \in Callers, RequestIn(c) \/ Task(c)
      PROVE  Stopping(b)'
  BY <1>6 DEF RequestIn, Task, RequestOut, StopAccepting, End, IInv, TypeOK
<1>. QED
  BY <1>1, <1>3, <1>4, <1>5, <1>6 DEF Next, Step

\* A shutdown starts to wait by signalling the server it took, and forgets neither.
LEMMA DrainingStep ==
  ASSUME IInv, NobodyWaitsInVain, [Next]_vars, NEW c \in Callers, pc'[c] = "draining"
  PROVE  task'[told'[c].by] \in {"signalled", "closed", "ended"}
<1>1. CASE pc[c] = "draining" /\ told'[c] = told[c]
  <2>1. told[c].by \in Callers
    BY <1>1 DEF IInv, TypeOK, UntoldYet
  <2>. QED
    BY <1>1, <2>1, StoppingStays DEF NobodyWaitsInVain, Stopping
<1>2. CASE Take(c)
  <2>. DEFINE e == Of[c]
  <2>1. /\ server[e] # None
        /\ told' = [told EXCEPT ![c] = server[e]]
        /\ task' = [task EXCEPT ![server[e].by] = "signalled"]
    BY <1>2 DEF Take, Goto, IInv, TypeOK
  <2>2. e \in Engines /\ server[e].by \in Callers
    BY <2>1, PublishedState DEF IInv
  <2>. QED
    BY <2>1, <2>2 DEF IInv, TypeOK
<1>3. \/ pc[c] = "draining" /\ told'[c] = told[c]
      \/ Take(c)
  <2>1. CASE UNCHANGED vars
    BY <2>1 DEF vars
  <2>2. ASSUME NEW d \in Callers, NEW p, Publish(d, p), pc[d] \in {"binding", "fallback"}
        PROVE  pc[c] = "draining" /\ told'[c] = told[c]
    BY <2>2 DEF Publish, Started, Goto, IInv, TypeOK
  <2>3. ASSUME NEW d \in Callers, Bind(d) \/ BindAssigned(d)
        PROVE  pc[c] = "draining" /\ told'[c] = told[c]
    BY <2>2, <2>3 DEF Bind, BindAssigned, Fail, Goto, IInv, TypeOK
  <2>4. ASSUME NEW d \in Callers, Find(d) \/ Lock(d) \/ Prepare(d) \/ Drained(d)
        PROVE  pc[c] = "draining" /\ told'[c] = told[c]
    BY <2>4 DEF Find, Lock, FirstBind, Started, Prepare, Drained, Goto, IInv, TypeOK
  <2>5. ASSUME NEW d \in Callers, Drop(d) \/ \E j \in Jobs[d] : Call(d, j)
        PROVE  pc[c] = "draining" /\ told'[c] = told[c]
    BY <2>5 DEF Drop, Call, Goto, IInv, TypeOK
  <2>6. ASSUME NEW d \in Callers, Take(d), d # c
        PROVE  pc[c] = "draining" /\ told'[c] = told[c]
    BY <2>6 DEF Take, Goto, IInv, TypeOK
  <2>7. ASSUME NEW d \in Callers, RequestIn(d) \/ Task(d)
        PROVE  pc[c] = "draining" /\ told'[c] = told[c]
    BY <2>7 DEF RequestIn, Task, RequestOut, StopAccepting, End, callers
  <2>. QED
    BY <2>1, <2>3, <2>4, <2>5, <2>6, <2>7 DEF Next, Step
<1>. QED
  BY <1>1, <1>2, <1>3

\* Whoever waits for the mutex or for a server waits for one that goes on by itself: the
\* safety half of CallsReturn.
THEOREM EngineNobodyWaitsInVain == Spec => []NobodyWaitsInVain
<1>1. Init => NobodyWaitsInVain
  BY DEF Init, NobodyWaitsInVain
<1>2. IInv /\ IInv' /\ NobodyWaitsInVain /\ [Next]_vars => NobodyWaitsInVain'
  BY DrainingStep DEF NobodyWaitsInVain, IInv, TypeOK
<1>. QED
  BY <1>1, <1>2, EngineInvariant, PTL DEF Spec
=============================================================================
