------------------------------ MODULE Bridge ------------------------------
(***************************************************************************)
(* The bridge's core: the PendingStore, the result future Engine::prepare  *)
(* returns, and the HTTP handlers that serve and complete a request, on a  *)
(* multi-threaded runtime.  A step is what one task does between two       *)
(* points where another thread can interleave: the store's mutex is held   *)
(* for one statement at a time, so post_complete is three steps (has,      *)
(* remove, send) and one poll of the future is two or three (the receiver, *)
(* the timer, then the removal of its entry).                              *)
(***************************************************************************)
EXTENDS Naturals

CONSTANTS
  Submissions,  \* calls of Engine::prepare
  Ids,          \* request ids
  IdOf,         \* the id each submitted request carries
  Handlers,     \* POST /api/complete/{id} requests the bridge receives
  Payloads,     \* result strings and error messages
  Codes,        \* error codes
  Bodies,       \* the bodies those POSTs may have
  None          \* an absent value

EmptyString == "<empty>"
UnknownError == "Unknown error"

Texts == Payloads \cup {EmptyString, UnknownError}

ASSUME IdOfType == IdOf \in [Submissions -> Ids]

\* CompleteApiRequest: "text" is result when success holds, error otherwise.
ASSUME BodiesType ==
  Bodies \subseteq [success : BOOLEAN, text : Payloads \cup {None},
                    code : Codes \cup {None}]

VARIABLES
  pending,      \* PendingStore.pending: id -> the submission whose entry it holds
  tx,           \* the sender half of a submission's oneshot channel
  carried,      \* the decision sent through that channel
  future,       \* how far the submission's result future is
  late,         \* has REQUEST_TIMEOUT passed since the future's first poll?
  outcome,      \* what the future resolves to
  stage,        \* how far each POST handler is, or the status it replied
  body,         \* the body the handler was called with
  target,       \* the id in its path
  took          \* the submission whose entry it removed from the store

store   == <<pending, tx, carried>>
caller  == <<future, late, outcome>>
handler == <<stage, body, target, took>>
vars    == <<store, caller, handler>>

(***************************************************************************)
(* Data: the body of a POST becomes a RequestResult, which the future maps *)
(* to a Result.                                                            *)
(***************************************************************************)
Outcome ==
  [kind : {"ok", "rejected", "timeout", "cancelled"},
   text : Texts \cup {None}, code : Codes \cup {None}]

ASSUME NoneIsNoValue ==
  /\ None \notin Submissions
  /\ None \notin Texts
  /\ None \notin Codes
  /\ None \notin Outcome

Decision(b) ==
  IF b.success
  THEN [kind |-> "ok", code |-> None,
        text |-> IF b.text = None THEN EmptyString ELSE b.text]
  ELSE [kind |-> "rejected", code |-> b.code,
        text |-> IF b.text = None THEN UnknownError ELSE b.text]

Decisions == {Decision(b) : b \in Bodies}

TimedOut  == [kind |-> "timeout", text |-> None, code |-> None]
Cancelled == [kind |-> "cancelled", text |-> None, code |-> None]

(***************************************************************************)
(* The store.                                                              *)
(***************************************************************************)
Has(id) == pending[id] # None

\* Dropping an entry drops the sender in it.
DropEntry(s) == [tx EXCEPT ![s] = "closed"]

Create(s) ==
  LET id == IdOf[s] IN
  /\ future[s] = "unborn"
  /\ pending' = [pending EXCEPT ![id] = s]
  /\ tx' = [IF Has(id) THEN DropEntry(pending[id]) ELSE tx EXCEPT ![s] = "open"]
  /\ future' = [future EXCEPT ![s] = "unpolled"]
  /\ UNCHANGED <<carried, late, outcome, handler>>

(***************************************************************************)
(* POST /api/complete/{id}.                                                *)
(***************************************************************************)
PostHas(h, id, b) ==
  /\ stage[h] = "idle"
  /\ stage' = [stage EXCEPT ![h] = IF Has(id) THEN "checked" ELSE "404"]
  /\ body' = [body EXCEPT ![h] = b]
  /\ target' = [target EXCEPT ![h] = id]
  /\ UNCHANGED <<store, caller, took>>

\* Mutant: the entry is read where it should be taken.
PostRemoveLeavingEntry(h) ==
  /\ stage[h] = "checked"
  /\ stage' = [stage EXCEPT ![h] = IF Has(target[h]) THEN "removed" ELSE "500"]
  /\ took' = [took EXCEPT ![h] = pending[target[h]]]
  /\ UNCHANGED <<store, caller, body, target>>

\* Mutant: the handler keeps the id of the entry and not its sender.
PostRemoveKeepingId(h) ==
  /\ stage[h] = "checked"
  /\ stage' = [stage EXCEPT ![h] = IF Has(target[h]) THEN "removed" ELSE "500"]
  /\ took' = [took EXCEPT ![h] = target[h]]
  /\ pending' = [pending EXCEPT ![target[h]] = None]
  /\ UNCHANGED <<tx, carried, caller, body, target>>

PostRemove(h) ==
  /\ stage[h] = "checked"
  /\ stage' = [stage EXCEPT ![h] = IF Has(target[h]) THEN "removed" ELSE "500"]
  /\ took' = [took EXCEPT ![h] = pending[target[h]]]
  /\ pending' = [pending EXCEPT ![target[h]] = None]
  /\ UNCHANGED <<tx, carried, caller, body, target>>

ReceiverAlive(s) == future[s] \in {"unpolled", "waiting", "checking"}

\* Mutant: the reply goes out and the sender is dropped unused.
PostSendNothing(h) ==
  /\ stage[h] = "removed"
  /\ stage' = [stage EXCEPT ![h] = "200"]
  /\ tx' = DropEntry(took[h])
  /\ UNCHANGED <<pending, carried, caller, body, target, took>>

\* A send to a dropped receiver fails, and the handler ignores that.
PostSend(h) ==
  LET s == took[h] IN
  /\ stage[h] = "removed"
  /\ stage' = [stage EXCEPT ![h] = "200"]
  /\ IF ReceiverAlive(s)
     THEN /\ tx' = [tx EXCEPT ![s] = "sent"]
          /\ carried' = [carried EXCEPT ![s] = Decision(body[h])]
     ELSE /\ tx' = DropEntry(s)
          /\ UNCHANGED carried
  /\ UNCHANGED <<pending, caller, body, target, took>>

(***************************************************************************)
(* The result future.  tokio's timeout polls the receiver first and the    *)
(* timer, which starts at the first poll, only if the receiver is empty.   *)
(***************************************************************************)
ReceiverReady(s) == tx[s] \in {"sent", "closed"}

\* Mutant: a dropped sender is taken for a rejection.
PollReceiverClosedRejects(s) ==
  /\ IF ReceiverReady(s)
     THEN LET o == IF tx[s] = "sent" THEN carried[s]
                   ELSE [kind |-> "rejected", text |-> UnknownError, code |-> None] IN
          /\ outcome' = [outcome EXCEPT ![s] = o]
          /\ future' = [future EXCEPT ![s] = IF o.kind = "ok" THEN "done" ELSE "failing"]
     ELSE /\ future' = [future EXCEPT ![s] = "checking"]
          /\ UNCHANGED outcome
  /\ UNCHANGED <<store, late, handler>>

PollReceiver(s) ==
  /\ IF ReceiverReady(s)
     THEN LET o == IF tx[s] = "sent" THEN carried[s] ELSE Cancelled IN
          /\ outcome' = [outcome EXCEPT ![s] = o]
          /\ future' = [future EXCEPT ![s] = IF o.kind = "ok" THEN "done" ELSE "failing"]
     ELSE /\ future' = [future EXCEPT ![s] = "checking"]
          /\ UNCHANGED outcome
  /\ UNCHANGED <<store, late, handler>>

FirstPoll(s) == future[s] = "unpolled" /\ PollReceiver(s)

\* Mutant: the timer does not wake the future.
WakeOnlyForAnswer(s) ==
  /\ future[s] = "waiting"
  /\ ReceiverReady(s)
  /\ PollReceiver(s)

Wake(s) ==
  /\ future[s] = "waiting"
  /\ ReceiverReady(s) \/ late[s]
  /\ PollReceiver(s)

\* Mutant: a timeout returns without cancelling the entry.
PollTimerWithoutCancel(s) ==
  /\ future[s] = "checking"
  /\ IF late[s]
     THEN /\ future' = [future EXCEPT ![s] = "done"]
          /\ outcome' = [outcome EXCEPT ![s] = TimedOut]
     ELSE /\ future' = [future EXCEPT ![s] = "waiting"]
          /\ UNCHANGED outcome
  /\ UNCHANGED <<store, late, handler>>

PollTimer(s) ==
  /\ future[s] = "checking"
  /\ IF late[s]
     THEN /\ future' = [future EXCEPT ![s] = "failing"]
          /\ outcome' = [outcome EXCEPT ![s] = TimedOut]
     ELSE /\ future' = [future EXCEPT ![s] = "waiting"]
          /\ UNCHANGED outcome
  /\ UNCHANGED <<store, late, handler>>

\* On any error the future cancels its id, whichever submission holds it now.
CancelEntry(s) ==
  LET id == IdOf[s] IN
  /\ future[s] = "failing"
  /\ future' = [future EXCEPT ![s] = "done"]
  /\ tx' = IF Has(id) THEN DropEntry(pending[id]) ELSE tx
  /\ pending' = [pending EXCEPT ![id] = None]
  /\ UNCHANGED <<carried, late, outcome, handler>>

Deadline(s) ==
  /\ future[s] \in {"waiting", "checking"}
  /\ ~late[s]
  /\ late' = [late EXCEPT ![s] = TRUE]
  /\ UNCHANGED <<store, future, outcome, handler>>

\* The task that owns the future goes away, between two polls: an HTTP client
\* that disconnects, a select! that took another branch.
Drop(s) ==
  /\ future[s] \in {"unpolled", "waiting"}
  /\ future' = [future EXCEPT ![s] = "dropped"]
  /\ UNCHANGED <<store, late, outcome, handler>>

(***************************************************************************)
(* The specification.                                                      *)
(***************************************************************************)
Init ==
  /\ pending = [i \in Ids |-> None]
  /\ tx      = [s \in Submissions |-> "unborn"]
  /\ carried = [s \in Submissions |-> None]
  /\ future  = [s \in Submissions |-> "unborn"]
  /\ late    = [s \in Submissions |-> FALSE]
  /\ outcome = [s \in Submissions |-> None]
  /\ stage   = [h \in Handlers |-> "idle"]
  /\ body    = [h \in Handlers |-> None]
  /\ target  = [h \in Handlers |-> None]
  /\ took    = [h \in Handlers |-> None]

Next ==
  \/ \E s \in Submissions : Create(s)
  \/ \E s \in Submissions : FirstPoll(s)
  \/ \E s \in Submissions : Wake(s)
  \/ \E s \in Submissions : PollTimer(s)
  \/ \E s \in Submissions : CancelEntry(s)
  \/ \E s \in Submissions : Deadline(s)
  \/ \E s \in Submissions : Drop(s)
  \/ \E h \in Handlers, id \in Ids, b \in Bodies : PostHas(h, id, b)
  \/ \E h \in Handlers : PostRemove(h)
  \/ \E h \in Handlers : PostSend(h)

Spec == Init /\ [][Next]_vars

\* The runtime keeps polling tasks that were woken and time passes.  Nobody has
\* to submit, poll a first time, drop or post.
Fairness ==
  /\ \A s \in Submissions :
       WF_vars(Wake(s)) /\ WF_vars(PollTimer(s)) /\ WF_vars(CancelEntry(s))
         /\ WF_vars(Deadline(s))
  /\ \A h \in Handlers : WF_vars(PostRemove(h)) /\ WF_vars(PostSend(h))

FairSpec == Spec /\ Fairness

(***************************************************************************)
(* Properties.                                                             *)
(***************************************************************************)

\* Type invariant: every variable stays in the range the code's types give it.
TypeOK ==
  /\ pending \in [Ids -> Submissions \cup {None}]
  /\ tx      \in [Submissions -> {"unborn", "open", "sent", "closed"}]
  /\ carried \in [Submissions -> Outcome \cup {None}]
  /\ future  \in [Submissions -> {"unborn", "unpolled", "waiting", "checking",
                                  "failing", "done", "dropped"}]
  /\ late    \in [Submissions -> BOOLEAN]
  /\ outcome \in [Submissions -> Outcome \cup {None}]
  /\ stage   \in [Handlers -> {"idle", "checked", "removed", "200", "404", "500"}]
  /\ body    \in [Handlers -> Bodies \cup {None}]
  /\ target  \in [Handlers -> Ids \cup {None}]
  /\ took    \in [Handlers -> Submissions \cup {None}]

\* At most one POST is ever accepted for a submission: two tabs, a retry or a
\* handler that saw the entry in `has` cannot both complete it.
AtMostOneAccepted ==
  \A g, h \in Handlers : took[g] # None /\ took[g] = took[h] => g = h

\* A submitter is only ever told a result or a rejection that some POST was
\* accepted with, on its own entry, and exactly that one.
OutcomeIsAccepted ==
  \A s \in Submissions :
    outcome[s] # None /\ outcome[s].kind \in {"ok", "rejected"} =>
      \E h \in Handlers :
        /\ took[h] = s
        /\ stage[h] = "200"
        /\ outcome[s] = Decision(body[h])

\* A page told 200 is contradicted by the caller's outcome only when the
\* caller's deadline passed: never by another POST and never by a cancel.
AcceptedLostOnlyToTimeout ==
  \A h \in Handlers :
    stage[h] = "200" /\ outcome[took[h]] # None =>
      outcome[took[h]] \in {Decision(body[h]), TimedOut}

\* Once its caller has its outcome a request is no longer served or completable.
EndedIsUnserved ==
  \A s \in Submissions : future[s] = "done" => pending[IdOf[s]] # s

\* Another submission has been made under the same id.
Reused(s) == \E t \in Submissions \ {s} : IdOf[t] = IdOf[s] /\ future[t] # "unborn"

\* A request is reported as cancelled only if another submission has been made under its id.
CancelledOnlyByReuse == \A s \in Submissions : outcome[s] = Cancelled => Reused(s)

\* Every request that is being awaited ends: an answer, the deadline, or its
\* caller walking away.
AwaitedEnds ==
  \A s \in Submissions : future[s] = "waiting" ~> future[s] \in {"done", "dropped"}

\* Documented at pending_store.rs:50 and not what the code does: dropping the
\* receiver removes the request from the store.
DroppedIsUnserved ==
  \A s \in Submissions : future[s] = "dropped" ~> pending[IdOf[s]] # s

(***************************************************************************)
(* The inductive invariant behind these properties.  The sender of a       *)
(* submission is a token: the store holds it, or the one handler that      *)
(* removed the entry, or it has been used or dropped.                      *)
(***************************************************************************)
Decided == Decisions \cup {TimedOut, Cancelled}

Untaken(s) == \A h \in Handlers : took[h] # s

\* What the store holds is open, filed under its own id, and in no handler's hands.
StoredIsOpen ==
  \A i \in Ids :
    pending[i] # None =>
      LET s == pending[i] IN
      IdOf[s] = i /\ tx[s] = "open" /\ Untaken(s) /\ future[s] # "done"

\* A handler that took an entry holds an open sender until it has sent.
HandlerHoldsSender ==
  \A h \in Handlers :
    /\ stage[h] # "idle" => body[h] \in Bodies /\ target[h] \in Ids
    /\ stage[h] \in {"removed", "200"} <=> took[h] # None
    /\ stage[h] = "removed" => tx[took[h]] = "open"
    /\ stage[h] = "200" =>
         \/ tx[took[h]] = "sent"
         \/ tx[took[h]] = "closed" /\ ~ReceiverAlive(took[h])

\* How a submission's channel, its future and its outcome go together.
ChannelAgrees ==
  \A s \in Submissions :
    /\ tx[s] = "unborn" <=> future[s] = "unborn"
    /\ tx[s] = "sent" =>
         \E h \in Handlers :
           took[h] = s /\ stage[h] = "200" /\ carried[s] = Decision(body[h])
    /\ tx[s] = "closed" /\ ReceiverAlive(s) => Untaken(s) /\ Reused(s)
    /\ outcome[s] # None <=> future[s] \in {"failing", "done"}
    /\ outcome[s] \in Decided \cup {None}
    /\ outcome[s] = Cancelled => Untaken(s) /\ tx[s] = "closed" /\ Reused(s)

IInv ==
  /\ TypeOK
  /\ StoredIsOpen
  /\ HandlerHoldsSender
  /\ AtMostOneAccepted
  /\ ChannelAgrees
  /\ OutcomeIsAccepted

(***************************************************************************)
(* The bridge implements OneShotRequest.  A decision is accepted when its  *)
(* handler removes the entry; the outcome is known when the future is done.*)
(***************************************************************************)
PhaseOf(s) ==
  CASE future[s] = "unborn"  -> "absent"
    [] future[s] = "done"    -> "resolved"
    [] future[s] = "dropped" -> "abandoned"
    [] OTHER                 -> "open"

AcceptedFor(s) ==
  IF \E h \in Handlers : took[h] = s
  THEN Decision(body[CHOOSE h \in Handlers : took[h] = s])
  ELSE None

OneShot == INSTANCE OneShotRequest WITH
  phase    <- [s \in Submissions |-> PhaseOf(s)],
  accepted <- [s \in Submissions |-> AcceptedFor(s)],
  outcome  <- [s \in Submissions |-> IF future[s] = "done" THEN outcome[s] ELSE None]

\* Every step of the bridge is a step of the one-shot request it promises.
ImplementsOneShot == OneShot!Spec
=============================================================================
