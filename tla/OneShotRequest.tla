-------------------------- MODULE OneShotRequest --------------------------
(***************************************************************************)
(* What the bridge promises about one signing request, with the store, the *)
(* channel, the HTTP handlers and the timer left out.  A request is opened *)
(* once, a decision posted for it is accepted at most once, and the        *)
(* program that submitted it learns one outcome: the accepted decision, a  *)
(* timeout, or a cancellation of a request nothing was accepted for.  Once *)
(* that outcome is known nothing more is accepted.  A submitter may also   *)
(* walk away (its future is dropped) and never learn an outcome.           *)
(***************************************************************************)

CONSTANTS
  Submissions,  \* the requests submitted to the engine
  Decisions,    \* what a browser may decide: a result or a rejection
  TimedOut,     \* the outcome of a request whose deadline passed
  Cancelled,    \* the outcome of a request whose sender was dropped
  None          \* nothing yet

VARIABLES
  phase,        \* of each submission: absent, open, resolved or abandoned
  accepted,     \* the decision accepted for it, or None
  outcome       \* what its submitter was told, or None

vars == <<phase, accepted, outcome>>

Init ==
  /\ phase    = [s \in Submissions |-> "absent"]
  /\ accepted = [s \in Submissions |-> None]
  /\ outcome  = [s \in Submissions |-> None]

Open(s) ==
  /\ phase[s] = "absent"
  /\ phase' = [phase EXCEPT ![s] = "open"]
  /\ UNCHANGED <<accepted, outcome>>

Accept(s, d) ==
  /\ phase[s] \in {"open", "abandoned"}
  /\ accepted[s] = None
  /\ accepted' = [accepted EXCEPT ![s] = d]
  /\ UNCHANGED <<phase, outcome>>

Allowed(s, o) ==
  \/ accepted[s] # None /\ o = accepted[s]
  \/ accepted[s] = None /\ o = Cancelled
  \/ o = TimedOut

Resolve(s, o) ==
  /\ phase[s] = "open"
  /\ Allowed(s, o)
  /\ phase' = [phase EXCEPT ![s] = "resolved"]
  /\ outcome' = [outcome EXCEPT ![s] = o]
  /\ UNCHANGED accepted

Abandon(s) ==
  /\ phase[s] = "open"
  /\ phase' = [phase EXCEPT ![s] = "abandoned"]
  /\ UNCHANGED <<accepted, outcome>>

Next ==
  \E s \in Submissions :
    \/ Open(s)
    \/ \E d \in Decisions : Accept(s, d)
    \/ \E o \in Decisions \cup {TimedOut, Cancelled} : Resolve(s, o)
    \/ Abandon(s)

Spec == Init /\ [][Next]_vars
=============================================================================
