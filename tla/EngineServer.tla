---------------------------- MODULE EngineServer ----------------------------
(***************************************************************************)
(* The lifecycle of an engine's HTTP server (engine.rs): it is started by  *)
(* the first caller that needs it, on the preferred port or, if another    *)
(* process has that, on one the OS assigns; it is shut down by taking the  *)
(* published state and waiting until the server has drained.  Engines of   *)
(* several processes share the ports of the machine.  A caller is one call *)
(* of start_with, prepare or shutdown, on any thread.                      *)
(***************************************************************************)
EXTENDS Naturals

CONSTANTS
  Engines,      \* one per process
  Callers,      \* the calls made
  Of,           \* of each caller: the engine
  Jobs,         \* of each caller: what it may be: "start", "start_with", "prepare", "shutdown"
  Assigned,     \* the ports the OS may assign
  PortText,     \* of each engine: its port variable, None if unset
  DefaultPort,  \* of each engine: the port of its chain
  Ephemeral,    \* the engines created with BindPort::Ephemeral
  U16Max,
  None

ASSUME JobsType ==
  /\ Of \in [Callers -> Engines]
  /\ Jobs \in [Callers -> SUBSET {"start", "start_with", "prepare", "shutdown"}]

ASSUME PortsType ==
  /\ U16Max \in Nat
  /\ Assigned \subseteq 1..U16Max
  /\ DefaultPort \in [Engines -> 1..U16Max]
  /\ Ephemeral \subseteq Engines

ASSUME NoneIsNoValue ==
  /\ None \notin 0..U16Max /\ None \notin Callers
  /\ None \notin [port : 1..U16Max, by : Callers] \cup [port : 1..U16Max, id : Callers]

\* port_from_env: an unset, unparseable, zero or too large port is the default.
Preferred(e) == IF PortText[e] \in 1..U16Max THEN PortText[e] ELSE DefaultPort[e]

Ports == 1..U16Max

VARIABLES
  server,   \* of each engine: the published state [port, by], or None
  lock,     \* of each engine: the caller that holds the server mutex, or None
  socket,   \* of each port: the server that listens on it, or None
  task,     \* of each server: none, serving, signalled, closed or ended
  busy,     \* the servers with a request in flight
  job,      \* of each caller: what it calls, or None before it calls
  pc,       \* of each caller: where it is
  told,     \* of each caller: the state it found, published or took down, or None
  url       \* of each caller: the approval URL prepare returned, or None

\* A server is known by the caller that started it.

callers == <<job, pc, told, url>>
servers == <<server, socket, task, busy>>
vars    == <<server, lock, socket, task, busy, job, pc, told, url>>

Init ==
  /\ server = [e \in Engines |-> None]
  /\ lock   = [e \in Engines |-> None]
  /\ socket = [p \in Ports |-> None]
  /\ task   = [b \in Callers |-> "none"]
  /\ busy   = {}
  /\ job    = [c \in Callers |-> None]
  /\ pc     = [c \in Callers |-> "idle"]
  /\ told   = [c \in Callers |-> None]
  /\ url    = [c \in Callers |-> None]

Goto(c, where) == pc' = [pc EXCEPT ![c] = where]

Call(c, j) ==
  /\ pc[c] = "idle"
  /\ job' = [job EXCEPT ![c] = j]
  /\ Goto(c, "locking")
  /\ UNCHANGED <<servers, lock, told, url>>

\* Where a start leads: prepare goes on to register its request.
Started(c) == IF job[c] = "prepare" THEN "started" ELSE "done"

\* start_with finds the server running and returns its port.
Find(c) ==
  LET e == Of[c] IN
  /\ pc[c] = "locking" /\ job[c] # "shutdown"
  /\ lock[e] = None /\ server[e] # None
  /\ told' = [told EXCEPT ![c] = server[e]]
  /\ Goto(c, Started(c))
  /\ UNCHANGED <<servers, lock, job, url>>

FirstBind(e) == IF e \in Ephemeral THEN "fallback" ELSE "binding"

\* Mutant: the mutex is not held while the listener binds.
LockUnheld(c) ==
  LET e == Of[c] IN
  /\ pc[c] = "locking" /\ job[c] # "shutdown"
  /\ lock[e] = None /\ server[e] = None
  /\ Goto(c, FirstBind(e))
  /\ UNCHANGED <<servers, lock, job, told, url>>

\* start_with finds none and keeps the mutex while it binds.
Lock(c) ==
  LET e == Of[c] IN
  /\ pc[c] = "locking" /\ job[c] # "shutdown"
  /\ lock[e] = None /\ server[e] = None
  /\ lock' = [lock EXCEPT ![e] = c]
  /\ Goto(c, FirstBind(e))
  /\ UNCHANGED <<servers, job, told, url>>

\* The listener is bound, its server spawned and its state published, without an await.
Publish(c, p) ==
  LET e == Of[c]
      state == [port |-> p, by |-> c]
  IN /\ socket[p] = None
     /\ socket' = [socket EXCEPT ![p] = c]
     /\ task'   = [task EXCEPT ![c] = "serving"]
     /\ server' = [server EXCEPT ![e] = state]
     /\ lock'   = [lock EXCEPT ![e] = None]
     /\ told'   = [told EXCEPT ![c] = state]
     /\ Goto(c, Started(c))
     /\ UNCHANGED <<busy, job, url>>

\* Mutant: a failed bind leaves the mutex locked.
FailLocked(c) ==
  /\ Goto(c, "failed")
  /\ UNCHANGED <<servers, lock, job, told, url>>

\* The call returns an Http error.
Fail(c) ==
  /\ lock' = [lock EXCEPT ![Of[c]] = None]
  /\ Goto(c, "failed")
  /\ UNCHANGED <<servers, job, told, url>>

\* Binding the preferred port: bound, denied, or in use (go on to an assigned one).
Bind(c) ==
  LET p == Preferred(Of[c]) IN
  /\ pc[c] = "binding"
  /\ \/ Publish(c, p)
     \/ socket[p] = None /\ Fail(c)
     \/ /\ socket[p] # None
        /\ Goto(c, "fallback")
        /\ UNCHANGED <<servers, lock, job, told, url>>

\* Binding a port the OS assigns, if it has one.
BindAssigned(c) ==
  /\ pc[c] = "fallback"
  /\ Fail(c) \/ \E p \in Assigned : Publish(c, p)

\* prepare registers the request and builds its URL from the port start returned.
Prepare(c) ==
  /\ pc[c] = "started"
  /\ url' = [url EXCEPT ![c] = [port |-> told[c].port, id |-> c]]
  /\ Goto(c, "done")
  /\ UNCHANGED <<servers, lock, job, told>>

\* A caller whose future is dropped while it waits gives the mutex back.
Drop(c) ==
  /\ pc[c] \in {"locking", "binding", "fallback", "draining"}
  /\ lock' = [e \in Engines |-> IF lock[e] = c THEN None ELSE lock[e]]
  /\ Goto(c, "dropped")
  /\ UNCHANGED <<servers, job, told, url>>

\* Mutant: the state is signalled but stays published.
TakeCopy(c) ==
  LET e == Of[c] IN
  /\ pc[c] = "locking" /\ job[c] = "shutdown" /\ lock[e] = None
  /\ IF server[e] = None
     THEN Goto(c, "done") /\ UNCHANGED <<told, task>>
     ELSE /\ told' = [told EXCEPT ![c] = server[e]]
          /\ task' = [task EXCEPT ![server[e].by] = "signalled"]
          /\ Goto(c, "draining")
  /\ UNCHANGED <<server, socket, busy, lock, job, url>>

\* shutdown takes the state, gives the mutex back and signals; then it waits.
Take(c) ==
  LET e == Of[c] IN
  /\ pc[c] = "locking" /\ job[c] = "shutdown" /\ lock[e] = None
  /\ IF server[e] = None
     THEN Goto(c, "done") /\ UNCHANGED <<told, server, task>>
     ELSE /\ told'   = [told EXCEPT ![c] = server[e]]
          /\ server' = [server EXCEPT ![e] = None]
          /\ task'   = [task EXCEPT ![server[e].by] = "signalled"]
          /\ Goto(c, "draining")
  /\ UNCHANGED <<socket, busy, lock, job, url>>

\* Mutant: shutdown returns as soon as the listener is closed.
DrainedEarly(c) ==
  /\ pc[c] = "draining"
  /\ task[told[c].by] \in {"closed", "ended"}
  /\ Goto(c, "done")
  /\ UNCHANGED <<servers, lock, job, told, url>>

\* shutdown returns once the server task has ended.
Drained(c) ==
  /\ pc[c] = "draining"
  /\ task[told[c].by] = "ended"
  /\ Goto(c, "done")
  /\ UNCHANGED <<servers, lock, job, told, url>>

(***************************************************************************)
(* The server task: axum's graceful shutdown.                              *)
(***************************************************************************)
RequestIn(b) ==
  /\ task[b] = "serving" /\ b \notin busy
  /\ busy' = busy \cup {b}
  /\ UNCHANGED <<server, socket, task, lock, callers>>

RequestOut(b) ==
  /\ b \in busy
  /\ busy' = busy \ {b}
  /\ UNCHANGED <<server, socket, task, lock, callers>>

\* The task hears the signal and closes its listener: the port is free.
StopAccepting(b) ==
  /\ task[b] = "signalled"
  /\ socket' = [p \in Ports |-> IF socket[p] = b THEN None ELSE socket[p]]
  /\ task'   = [task EXCEPT ![b] = "closed"]
  /\ UNCHANGED <<server, busy, lock, callers>>

\* It ends when no request is in flight.
End(b) ==
  /\ task[b] = "closed" /\ b \notin busy
  /\ task' = [task EXCEPT ![b] = "ended"]
  /\ UNCHANGED <<server, socket, busy, lock, callers>>

Step(c) == Find(c) \/ Lock(c) \/ Bind(c) \/ BindAssigned(c) \/ Prepare(c) \/ Take(c) \/ Drained(c)

Task(b) == RequestOut(b) \/ StopAccepting(b) \/ End(b)

Next ==
  \E c \in Callers :
    \/ \E j \in Jobs[c] : Call(c, j)
    \/ Step(c) \/ Drop(c)
    \/ RequestIn(c) \/ Task(c)

\* tokio polls a call that can go on and the server task; a request in flight is answered,
\* the longest one by the request timeout.
Spec ==
  /\ Init /\ [][Next]_vars
  /\ \A c \in Callers : WF_vars(Step(c)) /\ WF_vars(Task(c))

-----------------------------------------------------------------------------

Returned(c) == pc[c] \in {"done", "failed", "dropped"}

TypeOK ==
  /\ server \in [Engines -> [port : Ports, by : Callers] \cup {None}]
  /\ lock \in [Engines -> Callers \cup {None}]
  /\ \A e \in Engines : lock[e] # None =>
       Of[lock[e]] = e /\ pc[lock[e]] \in {"binding", "fallback"}
  /\ socket \in [Ports -> Callers \cup {None}]
  /\ task \in [Callers -> {"none", "serving", "signalled", "closed", "ended"}]
  /\ busy \subseteq Callers
  /\ job \in [Callers -> {"start", "start_with", "prepare", "shutdown", None}]
  /\ pc \in [Callers -> {"idle", "locking", "binding", "fallback", "started", "draining",
                         "done", "failed", "dropped"}]
  /\ told \in [Callers -> [port : Ports, by : Callers] \cup {None}]
  /\ url \in [Callers -> [port : Ports, id : Callers] \cup {None}]

\* No port is left behind: whatever listens is the server its engine publishes, or one
\* a shutdown has signalled (engine.rs start_with, shutdown).
NoOrphan ==
  \A p \in Ports : socket[p] # None =>
    \/ server[Of[socket[p]]] = [port |-> p, by |-> socket[p]]
    \/ task[socket[p]] = "signalled"

\* What an engine publishes is there: its listener is open and its task serves, so the
\* port a later start returns without binding is a live one.
PublishedServes ==
  \A e \in Engines : server[e] # None =>
    /\ socket[server[e].port] = server[e].by
    /\ task[server[e].by] = "serving"
    /\ Of[server[e].by] = e

TakenDown(e) == \E c \in Callers : job[c] = "shutdown" /\ Of[c] = e /\ told[c] # None

\* Until somebody shuts an engine down, every caller is told the same port, however
\* their calls interleave, fail or are dropped: the origin the wallet knows is stable.  After
\* a shutdown the port may change, but no two servers of an engine serve at once.
OneAddress ==
  \A c, d \in Callers :
    /\ Of[c] = Of[d]
    /\ told[c] # None /\ told[d] # None
    /\ \/ ~TakenDown(Of[c])
       \/ task[told[c].by] = "serving" /\ task[told[d].by] = "serving"
    => told[c] = told[d]

\* The approval URL of a prepared request leads to a listener of its engine, unless the
\* server whose port it has was shut down since.
UrlReachable ==
  \A c \in Callers : url[c] # None /\ task[told[c].by] = "serving" =>
    socket[url[c].port] = told[c].by /\ server[Of[c]] = told[c]

\* When shutdown returns, the server it took has released its port and answered every
\* request in flight.
ShutDownIsDown ==
  \A c \in Callers : pc[c] = "done" /\ job[c] = "shutdown" /\ told[c] # None =>
    /\ told[c].by \notin busy
    /\ \A p \in Ports : socket[p] # told[c].by

\* Every call returns: no failed or dropped call keeps the mutex.
CallsReturn == \A c \in Callers : pc[c] = "locking" ~> Returned(c)

(***************************************************************************)
(* The inductive invariant.                                                *)
(***************************************************************************)

\* A caller that binds holds the mutex, and the state it will publish is still None.
BindsLocked ==
  \A c \in Callers : pc[c] \in {"binding", "fallback"} =>
    lock[Of[c]] = c /\ server[Of[c]] = None

\* Only a call that has been told something has a URL, waits for a server or has started one.
UntoldYet ==
  \A c \in Callers :
    /\ pc[c] \in {"idle", "locking", "binding", "fallback"} =>
         told[c] = None /\ url[c] = None /\ task[c] = "none"
    /\ pc[c] \in {"started", "draining"} => told[c] # None
    /\ url[c] # None => told[c] # None /\ url[c].port = told[c].port

\* What a caller was told is what the server it names was told: its own port.
ToldByServer ==
  \A c \in Callers : told[c] # None =>
    LET b == told[c].by IN told[b] = told[c] /\ Of[b] = Of[c] /\ task[b] # "none"

\* What listens does so on the port its server was told, and has not closed it.
ListensOnTold ==
  \A p \in Ports : socket[p] # None =>
    /\ told[socket[p]] = [port |-> p, by |-> socket[p]]
    /\ task[socket[p]] \in {"serving", "signalled"}

\* A server that serves is the one its engine publishes.
ServesPublished ==
  \A b \in Callers : task[b] = "serving" =>
    told[b] # None /\ told[b].by = b /\ server[Of[b]] = told[b]

\* Until a shutdown took the state, whoever was told something was told what is published.
ToldIsCurrent ==
  \A c \in Callers : told[c] # None => server[Of[c]] = told[c] \/ TakenDown(Of[c])

\* A shutdown never starts a server, and returns after the one it took has ended.
ShutDownWaits ==
  \A c \in Callers : job[c] = "shutdown" =>
    /\ pc[c] \notin {"binding", "fallback", "started"}
    /\ pc[c] = "done" /\ told[c] # None => task[told[c].by] = "ended"

\* No request is in flight at a server that has not started or has ended.
BusyIsAlive == \A b \in Callers : task[b] \in {"none", "ended"} => b \notin busy

IInv ==
  /\ TypeOK /\ BindsLocked /\ UntoldYet /\ ToldByServer /\ ListensOnTold
  /\ PublishedServes /\ ServesPublished /\ ToldIsCurrent /\ ShutDownWaits /\ BusyIsAlive

(***************************************************************************)
(* What CallsReturn needs of safety.                                       *)
(***************************************************************************)

\* Nobody waits on a call or a server that itself waits: the mutex is held only by a caller
\* that is binding, and a shutdown waits only for a server that has been told to stop.
NobodyWaitsInVain ==
  /\ \A e \in Engines : lock[e] # None =>
       Of[lock[e]] = e /\ pc[lock[e]] \in {"binding", "fallback"}
  /\ \A c \in Callers : pc[c] = "draining" =>
       task[told[c].by] \in {"signalled", "closed", "ended"}
=============================================================================
