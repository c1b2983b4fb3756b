----------------------------- MODULE Supervisor -----------------------------
(***************************************************************************)
(* ServeProcess of the TypeScript binding: it spawns the serve subprocess, *)
(* waits for the port on its stdout, shares one spawn between the callers  *)
(* of start and kills the subprocess in stop.  JavaScript runs one event   *)
(* at a time, so an action is an event and everything up to its next       *)
(* await; what interleaves is the events: the version check's answer, the  *)
(* child's output and exit, the user's calls.                              *)
(***************************************************************************)
EXTENDS Naturals

CONSTANTS
  MaxStarts,   \* bound: attempts at a start (a caller that shares one is none)
  Lines,       \* what the resolved binary may print first; the serve of this package: a port
  None

ASSUME BoundType == MaxStarts \in Nat /\ None \notin Nat
ASSUME LinesType == Lines \subseteq {"port", "text", "blank"}

Attempts == 1..MaxStarts

VARIABLES
  runtime,    \* node or deno: how a child is spawned and watched
  handshake,  \* whether the resolved binary's version is asked for first
  resolved,   \* #binPath is set: no later attempt asks again
  starts,     \* attempts made
  starting,   \* #starting: the attempt whose promise callers share, or None
  proc,       \* #proc: the attempt whose child stop would kill, or None
  baseUrl,    \* #baseUrl: the attempt whose port it has, or None
  attempt,    \* of each attempt: none, version, waiting, started or failed
  child,      \* its child: none, absent (spawn failed), running, killed, or how it ended
  output,     \* the first line its child printed: nothing yet, port, text or blank
  stopped,    \* history: stop was called
  cleared     \* history: the attempts whose slot the failure of another cleared

slots  == <<starting, proc, baseUrl>>
vars   == <<runtime, handshake, resolved, starts, starting, proc, baseUrl, attempt, child,
            output, stopped, cleared>>

Init ==
  /\ runtime \in {"node", "deno"} /\ handshake \in BOOLEAN
  /\ resolved = FALSE
  /\ starts   = 0
  /\ starting = None /\ proc = None /\ baseUrl = None
  /\ attempt  = [a \in Attempts |-> "none"]
  /\ child    = [a \in Attempts |-> "none"]
  /\ output   = [a \in Attempts |-> "nothing"]
  /\ stopped  = FALSE /\ cleared = {}

\* The attempt's promise rejects, and start's catch clears the slot, whoever has it now.
Fail(a) ==
  /\ attempt'  = [attempt EXCEPT ![a] = "failed"]
  /\ starting' = None
  /\ cleared'  = cleared \cup ({starting} \ {None, a})

(***************************************************************************)
(* start and #doStart.                                                     *)
(***************************************************************************)

\* The child of an attempt is spawned.  Node reports a spawn that failed with a later
\* event; #proc is set all the same.
Spawned(a, where) ==
  /\ child'   = [child EXCEPT ![a] = where]
  /\ attempt' = [attempt EXCEPT ![a] = "waiting"]
  /\ proc'    = a

\* Mutant: every call of start spawns.
StartUnshared ==
  LET a == starts + 1 IN
  /\ starts < MaxStarts
  /\ starts' = a
  /\ starting' = a
  /\ IF handshake /\ ~resolved
     THEN /\ attempt' = [attempt EXCEPT ![a] = "version"]
          /\ UNCHANGED <<resolved, child, proc>>
     ELSE /\ resolved' = TRUE
          /\ Spawned(a, "running")
  /\ UNCHANGED <<runtime, handshake, baseUrl, output, stopped, cleared>>

\* A call of start that finds no promise to share makes one.  #doStart runs at once up to
\* the version check or the spawn.
Start ==
  LET a == starts + 1 IN
  /\ starting = None /\ starts < MaxStarts
  /\ starts' = a
  /\ starting' = a
  /\ \/ /\ handshake /\ ~resolved
        /\ attempt' = [attempt EXCEPT ![a] = "version"]
        /\ UNCHANGED <<resolved, child, proc>>
     \/ /\ ~handshake \/ resolved
        /\ resolved' = TRUE
        /\ Spawned(a, "running") \/ (runtime = "node" /\ Spawned(a, "absent"))
  /\ UNCHANGED <<runtime, handshake, baseUrl, output, stopped, cleared>>

\* An attempt that fails before a child is spawned: no binary is found, or Deno's spawn
\* throws.
StartFails ==
  LET a == starts + 1 IN
  /\ starting = None /\ starts < MaxStarts
  /\ starts' = a
  /\ Fail(a)
  /\ resolved' \in {resolved, resolved \/ (~handshake /\ runtime = "deno")}
  /\ UNCHANGED <<runtime, handshake, proc, baseUrl, child, output, stopped>>

\* The version check answers; it never fails.
VersionDone(a) ==
  /\ attempt[a] = "version"
  /\ resolved' = TRUE
  /\ \/ /\ Spawned(a, "running") \/ (runtime = "node" /\ Spawned(a, "absent"))
        /\ UNCHANGED <<starting, cleared>>
     \/ /\ runtime = "deno" /\ Fail(a)
        /\ UNCHANGED <<child, proc>>
  /\ UNCHANGED <<runtime, handshake, starts, baseUrl, output, stopped>>

(***************************************************************************)
(* The child.  This package's serve prints its port or exits with an       *)
(* error; the binary that was resolved may be another one (its version is  *)
(* a warning), so it may print something else.  It may be killed by others *)
(* and exits with 0 only if asked to.                                      *)
(***************************************************************************)

\* The first full line of the child.  Deno drops a blank one and reads on: only a line that
\* is not blank counts.  Node keeps it in its buffer for good.
PrintLine(a, line) ==
  /\ child[a] = "running" /\ output[a] = "nothing"
  /\ line = "blank" => runtime = "node"
  /\ output' = [output EXCEPT ![a] = line]
  /\ UNCHANGED <<runtime, handshake, resolved, starts, slots, attempt, child, stopped, cleared>>

End(a, how) ==
  /\ child[a] = "running" \/ (child[a] = "killed" /\ how = "signal")
  /\ child' = [child EXCEPT ![a] = how]
  /\ UNCHANGED <<runtime, handshake, resolved, starts, slots, attempt, output, stopped, cleared>>

Dead(a) == child[a] \in {"zero", "nonzero", "signal"}

(***************************************************************************)
(* What the binding hears of it.                                           *)
(***************************************************************************)

\* Mutant: the line is heard whatever became of the attempt.
DataAfterFailure(a) ==
  /\ attempt[a] \in {"waiting", "failed"} /\ output[a] = "port"
  /\ attempt' = [attempt EXCEPT ![a] = "started"]
  /\ baseUrl' = a
  /\ UNCHANGED <<runtime, handshake, resolved, starts, starting, proc, child, output, stopped,
                 cleared>>

\* The port's line arrives, perhaps after the child has ended or stop was called.
Data(a) ==
  /\ attempt[a] = "waiting" /\ output[a] = "port"
  /\ attempt' = [attempt EXCEPT ![a] = "started"]
  /\ baseUrl' = a
  /\ UNCHANGED <<runtime, handshake, resolved, starts, starting, proc, child, output, stopped,
                 cleared>>

\* A line that is no number: the start rejects, the child lives on and #proc still holds it.
NotAPort(a) ==
  /\ attempt[a] = "waiting" /\ output[a] = "text"
  /\ Fail(a)
  /\ UNCHANGED <<runtime, handshake, resolved, starts, proc, baseUrl, child, output, stopped>>


\* The attempt hears that its child is gone.  Node rejects on a spawn error and on an exit
\* code other than 0, but not on 0 nor on a signal; Deno on the end of the output.
Gone(a) ==
  /\ attempt[a] = "waiting"
  /\ \/ runtime = "node" /\ child[a] \in {"absent", "nonzero"}
     \/ runtime = "deno" /\ Dead(a) /\ output[a] = "nothing"
  /\ Fail(a)
  /\ UNCHANGED <<runtime, handshake, resolved, starts, proc, baseUrl, child, output, stopped>>

\* Mutant: stop forgets the child without killing it.
StopForgetting ==
  /\ proc # None
  /\ proc' = None /\ starting' = None /\ baseUrl' = None /\ stopped' = TRUE
  /\ UNCHANGED <<runtime, handshake, resolved, starts, attempt, child, output, cleared>>

\* Mutant: stop kills the child and still holds it.
StopHolding ==
  /\ proc # None
  /\ child' = [child EXCEPT ![proc] = IF @ = "running" THEN "killed" ELSE @]
  /\ starting' = None /\ baseUrl' = None /\ stopped' = TRUE
  /\ UNCHANGED <<runtime, handshake, resolved, starts, proc, attempt, output, cleared>>

\* stop does nothing before the spawn; then it kills the child and clears the slots.  (Deno's
\* kill of a child that has ended throws, and stop clears nothing: that is no step.)
Stop ==
  /\ proc # None
  /\ child' = [child EXCEPT ![proc] = IF @ = "running" THEN "killed" ELSE @]
  /\ proc' = None /\ starting' = None /\ baseUrl' = None /\ stopped' = TRUE
  /\ UNCHANGED <<runtime, handshake, resolved, starts, attempt, output, cleared>>

Next ==
  \/ Start \/ StartFails \/ Stop
  \/ \E a \in Attempts :
       \/ VersionDone(a) \/ Data(a) \/ NotAPort(a) \/ Gone(a)
       \/ \E line \in Lines : PrintLine(a, line)
       \/ \E how \in {"zero", "nonzero", "signal"} : End(a, how)

Events(a) == VersionDone(a) \/ Data(a) \/ NotAPort(a) \/ Gone(a)

\* The child says something or ends: the first of either.
FirstSign(a) ==
  /\ output[a] = "nothing"
  /\ \/ \E line \in Lines : PrintLine(a, line)
     \/ \E how \in {"zero", "nonzero", "signal"} : End(a, how)

\* Every event is delivered; a child prints a line or ends, and dies when killed.  One that
\* has printed may run for ever.
Spec ==
  /\ Init /\ [][Next]_vars
  /\ \A a \in Attempts :
       /\ WF_vars(Events(a))
       /\ WF_vars(FirstSign(a))
       /\ WF_vars(child[a] = "killed" /\ End(a, "signal"))

-----------------------------------------------------------------------------

Alive(a) == child[a] = "running"

TypeOK ==
  /\ runtime \in {"node", "deno"} /\ handshake \in BOOLEAN /\ resolved \in BOOLEAN
  /\ stopped \in BOOLEAN /\ cleared \subseteq Attempts
  /\ starts \in 0..MaxStarts
  /\ starting \in Attempts \cup {None} /\ proc \in Attempts \cup {None}
  /\ baseUrl \in Attempts \cup {None}
  /\ attempt \in [Attempts -> {"none", "version", "waiting", "started", "failed"}]
  /\ child \in [Attempts -> {"none", "absent", "running", "killed", "zero", "nonzero", "signal"}]
  /\ output \in [Attempts -> {"nothing", "port", "text", "blank"}]
  /\ \A a \in Attempts : (attempt[a] = "none") <=> (a > starts)
  /\ proc # None => child[proc] \notin {"none", "killed"}

\* The start was refused for what its child printed: the failure that leaves a child alive.
Refused(a) == attempt[a] = "failed" /\ output[a] = "text"

\* Until stop is called, the callers of start share one child, however many starts fail: a
\* child that lives is the one stop would kill and its attempt is the one the slot's promise
\* is about - or its start was refused for a line that is no port, which leaves it alive
\* (serve-process.ts:182 "Concurrent and repeat calls share one spawn").
SharedSpawn ==
  ~stopped => \A a \in Attempts : Alive(a) => (starting = a /\ proc = a) \/ Refused(a)

\* Whatever was stopped and started, a child nobody asked to end is the one stop would kill,
\* unless its own start was refused for a line that is no port, or the late failure of
\* another attempt had cleared the slot its callers shared.
NoStray == \A a \in Attempts : Alive(a) => proc = a \/ Refused(a) \/ a \in cleared

\* No two children are alive: serve-process.ts:182 says that concurrent and repeat calls of
\* start share one spawn and a retry follows a spawn that failed.  It is not so: a start that
\* stop gave up clears, when it fails late (:186), the slot of the start that followed.
OneChild == \A a, b \in Attempts : Alive(a) /\ Alive(b) => a = b

\* Until stop is called, the base URL is the port of the child the callers share: the late
\* line of an attempt that has failed never replaces the port of the one that followed.
UrlOfShared == ~stopped /\ baseUrl # None => baseUrl = proc /\ baseUrl = starting

\* Node hears nothing of a child that ends without a line with code 0 or by a signal, as
\* stop's own kill does, and never reads past a blank first line.
Unheard(a) ==
  /\ runtime = "node"
  /\ \/ output[a] = "blank"
     \/ output[a] = "nothing" /\ child[a] \in {"zero", "signal"}


(***************************************************************************)
(* The inductive invariant.                                                *)
(***************************************************************************)

InFlight(a) == attempt[a] \in {"version", "waiting"}

\* Before the binary is resolved nothing has been spawned.
NothingBeforeResolved ==
  ~resolved =>
    /\ proc = None
    /\ \A a \in Attempts : child[a] = "none" /\ attempt[a] \in {"none", "version", "failed"}

\* The version is asked for once, by the attempt whose promise is shared.
VersionIsShared == \A a \in Attempts : attempt[a] = "version" => ~resolved /\ starting = a

\* An attempt not made has no child.
ChildOfAttempt == \A a \in Attempts : a > starts => child[a] = "none"

\* Until stop is called, the attempt in flight is the shared one and owns the child.
InFlightIsShared ==
  ~stopped =>
    /\ cleared = {}
    /\ \A a \in Attempts : InFlight(a) => starting = a
    /\ \A a \in Attempts : attempt[a] = "waiting" => proc = a

\* Whoever lives is the child stop would kill and its attempt's promise is shared, unless its
\* start was refused or another's failure took its slot.
AliveIsShared ==
  \A a \in Attempts : Alive(a) => (proc = a /\ starting = a) \/ Refused(a) \/ a \in cleared

\* The base URL is of an attempt that has started.
UrlOfStarted == baseUrl # None => attempt[baseUrl] = "started"

IInv ==
  /\ TypeOK /\ NothingBeforeResolved /\ VersionIsShared /\ ChildOfAttempt
  /\ InFlightIsShared /\ AliveIsShared /\ UrlOfStarted /\ UrlOfShared

(***************************************************************************)
(* What StartSettles needs of safety.                                      *)
(***************************************************************************)

\* An attempt that waits has a line to hear, or an end its runtime reports, or a child that
\* has yet to print or end - but for what Node does not hear.
WaitersHear ==
  \A a \in Attempts : attempt[a] = "waiting" =>
    \/ output[a] \in {"port", "text"}
    \/ output[a] = "nothing" /\ child[a] \in {"running", "killed"}
    \/ runtime = "node" /\ child[a] \in {"absent", "nonzero"}
    \/ runtime = "deno" /\ Dead(a) /\ output[a] = "nothing"
    \/ Unheard(a)
=============================================================================
