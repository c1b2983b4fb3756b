--------------------------- MODULE BridgeProofs ---------------------------
(***************************************************************************)
(* Machine-checked proofs about Bridge, for every set of submissions, ids, *)
(* handlers and bodies: the inductive invariant IInv, the safety           *)
(* properties it implies, and that the bridge implements OneShotRequest.   *)
(***************************************************************************)
EXTENDS Bridge, TLAPS

\* What a POST decides is an outcome of its own kind, never a missing one.
LEMMA DecisionType ==
  ASSUME NEW b \in Bodies
  PROVE  /\ Decision(b) \in Outcome
         /\ Decision(b) # None
         /\ Decision(b).kind \in {"ok", "rejected"}
BY BodiesType, NoneIsNoValue DEF Decision, Outcome, Texts

\* Decisions, the timeout and the cancellation are outcomes, and distinct.
LEMMA OutcomesDiffer ==
  /\ TimedOut \in Outcome /\ Cancelled \in Outcome
  /\ TimedOut # None /\ Cancelled # None
  /\ TimedOut.kind = "timeout" /\ Cancelled.kind = "cancelled"
  /\ Decisions \subseteq Outcome
  /\ \A d \in Decisions : d.kind \in {"ok", "rejected"} /\ d # None
BY DecisionType, NoneIsNoValue DEF TimedOut, Cancelled, Outcome, Decisions

\* No submission exists yet: nothing is stored, taken or decided.
LEMMA InitInv ==
  ASSUME Init
  PROVE  IInv
<1>1. TypeOK
  BY DEF Init, TypeOK
<1>2. StoredIsOpen /\ AtMostOneAccepted /\ OutcomeIsAccepted
  BY DEF Init, StoredIsOpen, AtMostOneAccepted, OutcomeIsAccepted
<1>3. HandlerHoldsSender
  BY DEF Init, HandlerHoldsSender
<1>4. ChannelAgrees
  BY OutcomesDiffer DEF Init, ChannelAgrees
<1>. QED
  BY <1>1, <1>2, <1>3, <1>4 DEF IInv

\* A submission once made stays made, so an id once reused stays so.
LEMMA ReusedStays ==
  ASSUME NEW s \in Submissions, Reused(s),
         \A t \in Submissions : future[t] # "unborn" => future'[t] # "unborn"
  PROVE  Reused(s)'
BY DEF Reused

(***************************************************************************)
(* One lemma per action: it preserves the invariant.                       *)
(***************************************************************************)
\* A new submission's entry may displace another one's, whose sender drops.
LEMMA CreateInv ==
  ASSUME IInv, NEW s \in Submissions, Create(s)
  PROVE  IInv'
<1>. USE IdOfType, NoneIsNoValue
<1>1. TypeOK'
  BY DEF Create, Has, DropEntry, handler, TypeOK, IInv
<1>2. /\ tx[s] = "unborn"
      /\ Untaken(s)
      /\ \A i \in Ids : pending[i] # s
  BY DEF Create, Untaken, TypeOK, StoredIsOpen, HandlerHoldsSender, ChannelAgrees, IInv
<1>3. /\ tx'[s] = "open"
      /\ \A t \in Submissions \ {s} :
           tx'[t] = IF t = pending[IdOf[s]] THEN "closed" ELSE tx[t]
  BY DEF Create, Has, DropEntry, TypeOK, IInv
<1>4. /\ \A i \in Ids : pending'[i] = IF i = IdOf[s] THEN s ELSE pending[i]
      /\ \A t \in Submissions : future'[t] = IF t = s THEN "unpolled" ELSE future[t]
      /\ UNCHANGED <<carried, outcome, stage, body, target, took>>
  BY DEF Create, handler, TypeOK, IInv
<1>5. StoredIsOpen'
  BY <1>2, <1>3, <1>4 DEF StoredIsOpen, Untaken, TypeOK, IInv
<1>6. HandlerHoldsSender'
  BY <1>2, <1>3, <1>4
    DEF HandlerHoldsSender, StoredIsOpen, Untaken, ReceiverAlive, TypeOK, IInv
<1>7. AtMostOneAccepted' /\ OutcomeIsAccepted'
  BY <1>4 DEF AtMostOneAccepted, OutcomeIsAccepted, IInv
<1>8. ChannelAgrees'
  <2>. SUFFICES ASSUME NEW t \in Submissions
                PROVE  /\ tx'[t] = "unborn" <=> future'[t] = "unborn"
                       /\ tx'[t] = "sent" =>
                            \E h \in Handlers : took[h] = t /\ stage[h] = "200"
                                                  /\ carried[t] = Decision(body[h])
                       /\ tx'[t] = "closed" /\ ReceiverAlive(t)' =>
                            Untaken(t) /\ Reused(t)'
                       /\ outcome[t] # None <=> future'[t] \in {"failing", "done"}
                       /\ outcome[t] \in Decided \cup {None}
                       /\ outcome[t] = Cancelled =>
                            Untaken(t) /\ tx'[t] = "closed" /\ Reused(t)'
    BY <1>4 DEF ChannelAgrees, Untaken
  <2>0. Reused(t) => Reused(t)'
    BY <1>4, ReusedStays
  <2>1. CASE t = s
    BY <1>2, <1>3, <1>4, <2>1, OutcomesDiffer
      DEF Create, ChannelAgrees, TypeOK, IInv
  <2>2. CASE t # s /\ t = pending[IdOf[s]]
    <3>1. Untaken(t) /\ tx[t] = "open" /\ IdOf[t] = IdOf[s]
      BY <2>2 DEF StoredIsOpen, TypeOK, IInv
    <3>2. Reused(t)'
      BY <1>4, <2>2, <3>1 DEF Reused
    <3>. QED
      BY <1>3, <1>4, <2>2, <3>1, <3>2 DEF ChannelAgrees, IInv
  <2>3. CASE t # s /\ t # pending[IdOf[s]]
    BY <1>3, <1>4, <2>0, <2>3 DEF ChannelAgrees, ReceiverAlive, IInv
  <2>. QED
    BY <2>1, <2>2, <2>3
<1>. QED
  BY <1>1, <1>5, <1>6, <1>7, <1>8 DEF IInv

\* A poll takes what the channel carries; a sender that was dropped under a
\* live receiver is a reused id.
LEMMA PollReceiverInv ==
  ASSUME IInv, NEW s \in Submissions, future[s] \in {"unpolled", "waiting"},
         PollReceiver(s)
  PROVE  IInv'
<1>. USE NoneIsNoValue
<1>1. UNCHANGED <<pending, tx, carried, late, stage, body, target, took>>
  BY DEF PollReceiver, store, handler
<1>2. tx[s] = "sent" =>
        \E h \in Handlers :
          /\ took[h] = s /\ stage[h] = "200" /\ body[h] \in Bodies
          /\ carried[s] = Decision(body[h])
          /\ pending[IdOf[s]] # s
  BY IdOfType DEF ChannelAgrees, HandlerHoldsSender, StoredIsOpen, TypeOK, IInv
<1>3. tx[s] = "sent" => carried[s] \in Decisions /\ carried[s] \in Outcome
  BY <1>2, OutcomesDiffer DEF Decisions
<1>4. tx[s] = "closed" => Untaken(s) /\ Reused(s)
  BY DEF ChannelAgrees, ReceiverAlive, IInv
<1>5. \A t \in Submissions \ {s} : future'[t] = future[t] /\ outcome'[t] = outcome[t]
  BY DEF PollReceiver, TypeOK, IInv
<1>6. \/ /\ tx[s] = "sent" /\ outcome'[s] = carried[s]
         /\ future'[s] = IF carried[s].kind = "ok" THEN "done" ELSE "failing"
      \/ tx[s] = "closed" /\ outcome'[s] = Cancelled /\ future'[s] = "failing"
      \/ tx[s] = "open" /\ outcome'[s] = outcome[s] /\ future'[s] = "checking"
  BY OutcomesDiffer DEF PollReceiver, ReceiverReady, ChannelAgrees, TypeOK, IInv
<1>7. TypeOK'
  BY <1>1, <1>3, OutcomesDiffer DEF PollReceiver, ReceiverReady, TypeOK, IInv
<1>8. StoredIsOpen'
  BY <1>1, <1>5, <1>6 DEF StoredIsOpen, Untaken, TypeOK, IInv
<1>9. HandlerHoldsSender'
  <2>1. \A t \in Submissions : ReceiverAlive(t)' => ReceiverAlive(t)
    BY <1>5 DEF ReceiverAlive
  <2>. QED
    BY <1>1, <2>1 DEF HandlerHoldsSender, TypeOK, IInv
<1>10. AtMostOneAccepted' /\ OutcomeIsAccepted'
  BY <1>1, <1>2, <1>5, <1>6, OutcomesDiffer
    DEF AtMostOneAccepted, OutcomeIsAccepted, ChannelAgrees, TypeOK, IInv
<1>11. ChannelAgrees'
  <2>. SUFFICES ASSUME NEW t \in Submissions
                PROVE  /\ tx[t] = "unborn" <=> future'[t] = "unborn"
                       /\ tx[t] = "sent" =>
                            \E h \in Handlers : took[h] = t /\ stage[h] = "200"
                                                  /\ carried[t] = Decision(body[h])
                       /\ tx[t] = "closed" /\ ReceiverAlive(t)' =>
                            Untaken(t) /\ Reused(t)
                       /\ outcome'[t] # None <=> future'[t] \in {"failing", "done"}
                       /\ outcome'[t] \in Decided \cup {None}
                       /\ outcome'[t] = Cancelled =>
                            Untaken(t) /\ tx[t] = "closed" /\ Reused(t)
    <3>1. \A r \in Submissions : future[r] # "unborn" => future'[r] # "unborn"
      BY <1>5, <1>6
    <3>2. \A r \in Submissions : Reused(r) => Reused(r)'
      BY <3>1, ReusedStays
    <3>. QED
      BY <1>1, <3>2 DEF ChannelAgrees, Untaken
  <2>1. CASE t # s
    BY <1>5, <2>1 DEF ChannelAgrees, ReceiverAlive, IInv
  <2>2. CASE t = s /\ tx[s] = "sent"
    BY <1>2, <1>3, <1>6, <2>2, OutcomesDiffer DEF Decided
  <2>3. CASE t = s /\ tx[s] = "closed"
    BY <1>4, <1>6, <2>3, OutcomesDiffer DEF Decided
  <2>4. CASE t = s /\ tx[s] = "open"
    BY <1>6, <2>4, OutcomesDiffer DEF ChannelAgrees, IInv
  <2>. QED
    BY <1>6, <2>1, <2>2, <2>3, <2>4
<1>. QED
  BY <1>7, <1>8, <1>9, <1>10, <1>11 DEF IInv

\* The timer decides only when the receiver was empty a moment before.
LEMMA PollTimerInv ==
  ASSUME IInv, NEW s \in Submissions, PollTimer(s)
  PROVE  IInv'
<1>. USE OutcomesDiffer DEF PollTimer, store, handler
<1>1. TypeOK' /\ AtMostOneAccepted' /\ OutcomeIsAccepted'
  BY DEF TypeOK, AtMostOneAccepted, OutcomeIsAccepted, IInv
<1>2. StoredIsOpen' /\ HandlerHoldsSender'
  BY DEF StoredIsOpen, HandlerHoldsSender, Untaken, ReceiverAlive, TypeOK, IInv
<1>3. ChannelAgrees'
  <2>1. \A t \in Submissions : Reused(t) => Reused(t)'
    BY ReusedStays DEF TypeOK, IInv
  <2>. QED
    BY <2>1 DEF ChannelAgrees, Untaken, ReceiverAlive, Decided, TypeOK, IInv
<1>. QED
  BY <1>1, <1>2, <1>3 DEF IInv

\* Cancelling by id drops the sender of whichever submission holds the entry.
LEMMA CancelEntryInv ==
  ASSUME IInv, NEW s \in Submissions, CancelEntry(s)
  PROVE  IInv'
<1>. USE IdOfType, NoneIsNoValue
<1>1. TypeOK'
  BY DEF CancelEntry, Has, DropEntry, handler, TypeOK, IInv
<1>2. \A t \in Submissions : tx'[t] = IF t = pending[IdOf[s]] THEN "closed" ELSE tx[t]
  BY DEF CancelEntry, Has, DropEntry, TypeOK, IInv
<1>3. /\ \A i \in Ids : pending'[i] = IF i = IdOf[s] THEN None ELSE pending[i]
      /\ \A t \in Submissions : future'[t] = IF t = s THEN "done" ELSE future[t]
      /\ UNCHANGED <<carried, outcome, stage, body, target, took>>
  BY DEF CancelEntry, handler, TypeOK, IInv
<1>4. StoredIsOpen'
  BY <1>2, <1>3 DEF StoredIsOpen, Untaken, TypeOK, IInv
<1>5. HandlerHoldsSender'
  BY <1>2, <1>3
    DEF HandlerHoldsSender, StoredIsOpen, Untaken, ReceiverAlive, TypeOK, IInv
<1>6. AtMostOneAccepted' /\ OutcomeIsAccepted'
  BY <1>3 DEF AtMostOneAccepted, OutcomeIsAccepted, IInv
<1>7. ChannelAgrees'
  <2>. SUFFICES ASSUME NEW t \in Submissions
                PROVE  /\ tx'[t] = "unborn" <=> future'[t] = "unborn"
                       /\ tx'[t] = "sent" =>
                            \E h \in Handlers : took[h] = t /\ stage[h] = "200"
                                                  /\ carried[t] = Decision(body[h])
                       /\ tx'[t] = "closed" /\ ReceiverAlive(t)' =>
                            Untaken(t) /\ Reused(t)
                       /\ outcome[t] # None <=> future'[t] \in {"failing", "done"}
                       /\ outcome[t] \in Decided \cup {None}
                       /\ outcome[t] = Cancelled =>
                            Untaken(t) /\ tx'[t] = "closed" /\ Reused(t)
    <3>1. \A r \in Submissions : Reused(r) => Reused(r)'
      BY <1>3, ReusedStays DEF CancelEntry
    <3>. QED
      BY <1>3, <3>1 DEF ChannelAgrees, Untaken
  <2>1. CASE t = pending[IdOf[s]]
    <3>1. IdOf[t] = IdOf[s] /\ tx[t] = "open" /\ Untaken(t)
      BY <2>1 DEF StoredIsOpen, IInv
    <3>2. t # s => Reused(t)
      BY <3>1 DEF Reused, CancelEntry
    <3>3. future'[t] # "unborn"
      BY <1>3, <3>1 DEF ChannelAgrees, IInv
    <3>. QED
      BY <1>2, <1>3, <2>1, <3>1, <3>2, <3>3 DEF CancelEntry, ChannelAgrees, ReceiverAlive, IInv
  <2>2. CASE t # pending[IdOf[s]]
    BY <1>2, <1>3, <2>2 DEF CancelEntry, ChannelAgrees, ReceiverAlive, IInv
  <2>. QED
    BY <2>1, <2>2
<1>. QED
  BY <1>1, <1>4, <1>5, <1>6, <1>7 DEF IInv

\* Time passing touches nothing the invariant speaks of.
LEMMA DeadlineInv ==
  ASSUME IInv, NEW s \in Submissions, Deadline(s)
  PROVE  IInv'
<1>. USE DEF Deadline, store, handler
<1>1. TypeOK' /\ AtMostOneAccepted' /\ OutcomeIsAccepted'
  BY DEF TypeOK, AtMostOneAccepted, OutcomeIsAccepted, IInv
<1>2. StoredIsOpen' /\ HandlerHoldsSender' /\ ChannelAgrees'
  BY DEF StoredIsOpen, HandlerHoldsSender, ChannelAgrees, Untaken, Reused, ReceiverAlive, IInv
<1>. QED
  BY <1>1, <1>2 DEF IInv

\* Dropping the future leaves the entry where it is.
LEMMA DropInv ==
  ASSUME IInv, NEW s \in Submissions, Drop(s)
  PROVE  IInv'
<1>. USE DEF Drop, store, handler
<1>1. TypeOK' /\ AtMostOneAccepted' /\ OutcomeIsAccepted'
  BY DEF TypeOK, AtMostOneAccepted, OutcomeIsAccepted, IInv
<1>2. StoredIsOpen' /\ HandlerHoldsSender'
  BY DEF StoredIsOpen, HandlerHoldsSender, Untaken, ReceiverAlive, TypeOK, IInv
<1>3. ChannelAgrees'
  <2>1. \A t \in Submissions : Reused(t) => Reused(t)'
    BY ReusedStays DEF TypeOK, IInv
  <2>. QED
    BY <2>1 DEF ChannelAgrees, Untaken, ReceiverAlive, TypeOK, IInv
<1>. QED
  BY <1>1, <1>2, <1>3 DEF IInv

\* The check only reads the store.
LEMMA PostHasInv ==
  ASSUME IInv, NEW h \in Handlers, NEW id \in Ids, NEW b \in Bodies, PostHas(h, id, b)
  PROVE  IInv'
<1>. USE DEF PostHas, store, caller
<1>1. TypeOK' /\ AtMostOneAccepted' /\ StoredIsOpen'
  BY DEF TypeOK, AtMostOneAccepted, StoredIsOpen, Untaken, IInv
<1>2. HandlerHoldsSender'
  BY DEF HandlerHoldsSender, ReceiverAlive, TypeOK, IInv
<1>3. ChannelAgrees'
  BY DEF ChannelAgrees, Untaken, Reused, ReceiverAlive, TypeOK, IInv
<1>4. OutcomeIsAccepted'
  BY DEF OutcomeIsAccepted, TypeOK, IInv
<1>. QED
  BY <1>1, <1>2, <1>3, <1>4 DEF IInv

\* The sender moves from the store to the one handler that removed the entry.
LEMMA PostRemoveInv ==
  ASSUME IInv, NEW h \in Handlers, PostRemove(h)
  PROVE  IInv'
<1>. USE NoneIsNoValue DEF PostRemove, Has, caller
<1>1. target[h] \in Ids
  BY DEF HandlerHoldsSender, TypeOK, IInv
<1>2. TypeOK' /\ AtMostOneAccepted'
  BY <1>1 DEF TypeOK, AtMostOneAccepted, StoredIsOpen, Untaken, HandlerHoldsSender, IInv
<1>3. StoredIsOpen'
  BY <1>1 DEF StoredIsOpen, Untaken, TypeOK, IInv
<1>4. HandlerHoldsSender'
  BY <1>1 DEF HandlerHoldsSender, StoredIsOpen, ReceiverAlive, TypeOK, IInv
<1>5. ChannelAgrees'
  BY <1>1 DEF ChannelAgrees, HandlerHoldsSender, StoredIsOpen, Untaken, Reused,
              ReceiverAlive, TypeOK, IInv
<1>6. OutcomeIsAccepted'
  BY <1>1 DEF OutcomeIsAccepted, HandlerHoldsSender, TypeOK, IInv
<1>. QED
  BY <1>2, <1>3, <1>4, <1>5, <1>6 DEF IInv

\* The handler spends the sender it holds; a dropped receiver wastes it.
LEMMA PostSendInv ==
  ASSUME IInv, NEW h \in Handlers, PostSend(h)
  PROVE  IInv'
<1>. USE NoneIsNoValue DEF PostSend, DropEntry, ReceiverAlive, caller
<1>1. took[h] \in Submissions /\ body[h] \in Bodies /\ tx[took[h]] = "open"
  BY DEF HandlerHoldsSender, TypeOK, IInv
<1>2. TypeOK' /\ AtMostOneAccepted'
  BY <1>1, DecisionType DEF TypeOK, AtMostOneAccepted, IInv
<1>3. StoredIsOpen'
  BY <1>1 DEF StoredIsOpen, Untaken, TypeOK, IInv
<1>4. HandlerHoldsSender'
  BY <1>1 DEF HandlerHoldsSender, AtMostOneAccepted, TypeOK, IInv
<1>5. ChannelAgrees'
  BY <1>1 DEF ChannelAgrees, Untaken, Reused, TypeOK, IInv
<1>6. OutcomeIsAccepted'
  BY <1>1 DEF OutcomeIsAccepted, TypeOK, IInv
<1>. QED
  BY <1>2, <1>3, <1>4, <1>5, <1>6 DEF IInv

\* Every step of the bridge, and every stuttering step, preserves the invariant.
LEMMA NextInv ==
  ASSUME IInv, [Next]_vars
  PROVE  IInv'
<1>1. CASE Next
  <2>1. ASSUME NEW s \in Submissions, FirstPoll(s) \/ Wake(s) PROVE IInv'
    BY <2>1, PollReceiverInv DEF FirstPoll, Wake
  <2>. QED
    BY <1>1, <2>1, CreateInv, PollTimerInv, CancelEntryInv, DeadlineInv, DropInv,
       PostHasInv, PostRemoveInv, PostSendInv DEF Next
<1>2. CASE UNCHANGED vars
  BY <1>2 DEF vars, store, caller, handler, IInv, TypeOK, StoredIsOpen, HandlerHoldsSender,
              AtMostOneAccepted, ChannelAgrees, OutcomeIsAccepted, Untaken, Reused,
              ReceiverAlive
<1>. QED
  BY <1>1, <1>2

\* The invariant holds in every reachable state.
THEOREM BridgeInvariant == Spec => []IInv
<1>. QED
  BY InitInv, NextInv, PTL DEF Spec

(***************************************************************************)
(* The safety properties of the runs, for every instance.                  *)
(***************************************************************************)

\* A POST that was told 200 and an outcome that differs: only the timeout.
LEMMA LostOnlyToTimeout ==
  ASSUME IInv
  PROVE  AcceptedLostOnlyToTimeout
<1>. SUFFICES ASSUME NEW h \in Handlers, stage[h] = "200", outcome[took[h]] # None
              PROVE  outcome[took[h]] \in {Decision(body[h]), TimedOut}
  BY DEF AcceptedLostOnlyToTimeout
<1>1. took[h] \in Submissions
  BY NoneIsNoValue DEF HandlerHoldsSender, TypeOK, IInv
<1>2. outcome[took[h]] \in Decisions \cup {TimedOut, Cancelled}
  BY <1>1 DEF ChannelAgrees, Decided, IInv
<1>3. outcome[took[h]] # Cancelled
  BY <1>1 DEF ChannelAgrees, Untaken, IInv
<1>4. CASE outcome[took[h]] \in Decisions
  <2>1. PICK g \in Handlers : took[g] = took[h] /\ outcome[took[h]] = Decision(body[g])
    BY <1>1, <1>4, OutcomesDiffer DEF OutcomeIsAccepted, IInv
  <2>2. g = h
    BY <1>1, <2>1, NoneIsNoValue DEF AtMostOneAccepted, IInv
  <2>. QED
    BY <2>1, <2>2
<1>. QED
  BY <1>2, <1>3, <1>4

\* The store never holds the entry of a submission whose outcome is known.
LEMMA EndedUnserved ==
  ASSUME IInv
  PROVE  EndedIsUnserved
BY IdOfType, NoneIsNoValue DEF EndedIsUnserved, StoredIsOpen, IInv

\* Until another submission is made under its id nothing drops a live sender.
LEMMA CancelledReused ==
  ASSUME IInv
  PROVE  CancelledOnlyByReuse
BY DEF CancelledOnlyByReuse, ChannelAgrees, IInv

\* Every variable stays in the range the code's types give it.
THEOREM BridgeTypeOK == Spec => []TypeOK
<1>. QED
  BY BridgeInvariant, PTL DEF IInv

\* At most one POST completes a submission, however its handlers interleave.
THEOREM BridgeAtMostOneAccepted == Spec => []AtMostOneAccepted
<1>. QED
  BY BridgeInvariant, PTL DEF IInv

\* A submitter only ever learns the decision a POST was accepted with.
THEOREM BridgeOutcomeIsAccepted == Spec => []OutcomeIsAccepted
<1>. QED
  BY BridgeInvariant, PTL DEF IInv

\* A page told 200 is contradicted by nothing but the caller's deadline.
THEOREM BridgeLostOnlyToTimeout == Spec => []AcceptedLostOnlyToTimeout
<1>. QED
  BY BridgeInvariant, LostOnlyToTimeout, PTL

\* A request whose caller knows its outcome is never served or completed again.
THEOREM BridgeEndedIsUnserved == Spec => []EndedIsUnserved
<1>. QED
  BY BridgeInvariant, EndedUnserved, PTL

\* A request is never reported as cancelled before its id has been submitted again.
THEOREM BridgeCancelledOnlyByReuse == Spec => []CancelledOnlyByReuse
<1>. QED
  BY BridgeInvariant, CancelledReused, PTL

(***************************************************************************)
(* The bridge implements OneShotRequest.                                   *)
(***************************************************************************)

\* What is accepted for a submission is what its one taker was called with.
LEMMA AcceptedValue ==
  IInv => \A s \in Submissions :
            /\ \A h \in Handlers : took[h] = s => AcceptedFor(s) = Decision(body[h])
            /\ Untaken(s) => AcceptedFor(s) = None
<1>. SUFFICES ASSUME IInv, NEW s \in Submissions
              PROVE  /\ \A h \in Handlers : took[h] = s => AcceptedFor(s) = Decision(body[h])
                     /\ Untaken(s) => AcceptedFor(s) = None
  OBVIOUS
<1>1. ASSUME NEW h \in Handlers, took[h] = s
      PROVE  AcceptedFor(s) = Decision(body[h])
  <2>. DEFINE c == CHOOSE g \in Handlers : took[g] = s
  <2>1. c \in Handlers /\ took[c] = s
    BY <1>1
  <2>2. c = h
    BY <1>1, <2>1, NoneIsNoValue DEF AtMostOneAccepted, IInv
  <2>. QED
    BY <1>1, <2>2 DEF AcceptedFor
<1>2. Untaken(s) => AcceptedFor(s) = None
  BY DEF AcceptedFor, Untaken
<1>. QED
  BY <1>1, <1>2

\* The same in the next state.
LEMMA AcceptedValueNext ==
  IInv' => \A s \in Submissions :
             /\ \A h \in Handlers : took'[h] = s => AcceptedFor(s)' = Decision(body'[h])
             /\ Untaken(s)' => AcceptedFor(s)' = None
<1>1. (IInv => \A s \in Submissions :
                 /\ \A h \in Handlers : took[h] = s => AcceptedFor(s) = Decision(body[h])
                 /\ Untaken(s) => AcceptedFor(s) = None)'
  BY AcceptedValue, PTL
<1>. QED
  BY <1>1

\* A step that takes no entry changes what is accepted for nobody.
LEMMA AcceptedUnchanged ==
  ASSUME IInv, IInv', UNCHANGED took,
         \A h \in Handlers : took[h] # None => body'[h] = body[h]
  PROVE  \A s \in Submissions : AcceptedFor(s)' = AcceptedFor(s)
<1>. SUFFICES ASSUME NEW s \in Submissions
              PROVE  AcceptedFor(s)' = AcceptedFor(s)
  OBVIOUS
<1>1. CASE \E h \in Handlers : took[h] = s
  BY <1>1, AcceptedValue, AcceptedValueNext, NoneIsNoValue
<1>2. CASE Untaken(s)
  BY <1>2, AcceptedValue, AcceptedValueNext DEF Untaken
<1>. QED
  BY <1>1, <1>2 DEF Untaken

\* What a completed future may say, given what was accepted for it.
AllowedOutcome(s) ==
  \/ AcceptedFor(s) # None /\ outcome[s] = AcceptedFor(s)
  \/ AcceptedFor(s) = None /\ outcome[s] = Cancelled
  \/ outcome[s] = TimedOut

\* What a completed future says is what the abstract request may say.
LEMMA OutcomeAllowed ==
  IInv => \A s \in Submissions : outcome[s] # None => AllowedOutcome(s)
<1>. SUFFICES ASSUME IInv, NEW s \in Submissions, outcome[s] # None
              PROVE  AllowedOutcome(s)
  OBVIOUS
<1>. USE DEF AllowedOutcome
<1>1. outcome[s] \in Decisions \cup {TimedOut, Cancelled}
  BY DEF ChannelAgrees, Decided, IInv
<1>2. CASE outcome[s] \in Decisions
  <2>1. PICK h \in Handlers : took[h] = s /\ outcome[s] = Decision(body[h])
    BY <1>2, OutcomesDiffer DEF OutcomeIsAccepted, IInv
  <2>. QED
    BY <2>1, AcceptedValue, NoneIsNoValue
<1>3. CASE outcome[s] = Cancelled
  BY <1>3, AcceptedValue DEF ChannelAgrees, IInv
<1>. QED
  BY <1>1, <1>2, <1>3

\* The same in the next state.
LEMMA OutcomeAllowedNext ==
  (IInv => \A s \in Submissions : outcome[s] # None => AllowedOutcome(s))'
BY OutcomeAllowed, PTL

\* The bridge starts where the abstract request starts.
LEMMA RefinesInit ==
  ASSUME Init
  PROVE  OneShot!Init
<1>1. \A s \in Submissions : PhaseOf(s) = "absent"
  BY DEF Init, PhaseOf
<1>2. \A s \in Submissions : AcceptedFor(s) = None
  BY NoneIsNoValue DEF Init, AcceptedFor
<1>3. \A s \in Submissions : future[s] # "done"
  BY DEF Init
<1>. QED
  BY <1>1, <1>2, <1>3 DEF OneShot!Init

\* Submitting opens the abstract request.
LEMMA CreateRefines ==
  ASSUME IInv, IInv', NEW s \in Submissions, Create(s)
  PROVE  OneShot!Open(s)
<1>1. \A t \in Submissions : AcceptedFor(t)' = AcceptedFor(t)
  BY AcceptedUnchanged DEF Create, handler
<1>2. \A t \in Submissions : PhaseOf(t)' = IF t = s THEN "open" ELSE PhaseOf(t)
  BY DEF Create, PhaseOf, TypeOK, IInv
<1>3. PhaseOf(s) = "absent"
  BY DEF Create, PhaseOf
<1>4. \A t \in Submissions : (future'[t] = "done" <=> future[t] = "done")
                               /\ outcome'[t] = outcome[t]
  BY DEF Create, TypeOK, IInv
<1>. QED
  BY <1>1, <1>2, <1>3, <1>4 DEF OneShot!Open

\* A step that ends no future and takes no entry is not seen.
LEMMA Unseen ==
  ASSUME IInv, IInv', UNCHANGED took,
         \A h \in Handlers : took[h] # None => body'[h] = body[h],
         \A s \in Submissions :
           /\ PhaseOf(s)' = PhaseOf(s)
           /\ future[s] = "done" => outcome'[s] = outcome[s]
  PROVE  UNCHANGED OneShot!vars
<1>1. \A s \in Submissions : AcceptedFor(s)' = AcceptedFor(s)
  BY AcceptedUnchanged
<1>2. \A s \in Submissions : future'[s] = "done" <=> future[s] = "done"
  BY DEF PhaseOf
<1>. QED
  BY <1>1, <1>2 DEF OneShot!vars

\* A future that ends resolves the abstract request.
LEMMA EndRefines ==
  ASSUME IInv, IInv', NEW s \in Submissions, UNCHANGED handler,
         future[s] \in {"unpolled", "waiting", "checking", "failing"},
         future' = [future EXCEPT ![s] = "done"],
         \A t \in Submissions \ {s} : outcome'[t] = outcome[t]
  PROVE  \E o \in Decisions \cup {TimedOut, Cancelled} : OneShot!Resolve(s, o)
<1>1. \A t \in Submissions : AcceptedFor(t)' = AcceptedFor(t)
  BY AcceptedUnchanged DEF handler
<1>2. /\ PhaseOf(s) = "open"
      /\ \A t \in Submissions : PhaseOf(t)' = IF t = s THEN "resolved" ELSE PhaseOf(t)
  BY DEF PhaseOf, TypeOK, IInv
<1>3. outcome'[s] # None /\ outcome'[s] \in Decisions \cup {TimedOut, Cancelled}
  BY DEF ChannelAgrees, Decided, TypeOK, IInv
<1>4. \/ AcceptedFor(s)' # None /\ outcome'[s] = AcceptedFor(s)'
      \/ AcceptedFor(s)' = None /\ outcome'[s] = Cancelled
      \/ outcome'[s] = TimedOut
  BY <1>3, OutcomeAllowedNext DEF AllowedOutcome
<1>5. PICK o \in Decisions \cup {TimedOut, Cancelled} : o = outcome'[s]
  BY <1>3
<1>6. \A t \in Submissions :
        (IF future'[t] = "done" THEN outcome'[t] ELSE None) =
          IF t = s THEN o
                   ELSE IF future[t] = "done" THEN outcome[t] ELSE None
  BY <1>5 DEF TypeOK, IInv
<1>7. OneShot!Allowed(s, o)
  BY <1>1, <1>4, <1>5 DEF OneShot!Allowed
<1>8. OneShot!Resolve(s, o)
  BY <1>1, <1>2, <1>6, <1>7 DEF OneShot!Resolve
<1>. QED
  BY <1>8

\* A poll that finds a result resolves; one that does not is not seen.
LEMMA PollReceiverRefines ==
  ASSUME IInv, IInv', NEW s \in Submissions, PollReceiver(s),
         future[s] \in {"unpolled", "waiting"}
  PROVE  [OneShot!Next]_(OneShot!vars)
<1>1. UNCHANGED handler /\ \A t \in Submissions \ {s} : outcome'[t] = outcome[t]
  BY DEF PollReceiver, TypeOK, IInv
<1>2. CASE future' = [future EXCEPT ![s] = "done"]
  BY <1>1, <1>2, EndRefines DEF OneShot!Next
<1>3. CASE future' = [future EXCEPT ![s] = "failing"]
           \/ future' = [future EXCEPT ![s] = "checking"]
  <2>1. \A t \in Submissions :
          PhaseOf(t)' = PhaseOf(t) /\ (future[t] = "done" => outcome'[t] = outcome[t])
    BY <1>1, <1>3 DEF PhaseOf, TypeOK, IInv
  <2>. QED
    BY <1>1, <2>1, Unseen DEF handler
<1>. QED
  BY <1>2, <1>3 DEF PollReceiver

\* Removing an entry accepts the handler's decision, or finds nothing.
LEMMA PostRemoveRefines ==
  ASSUME IInv, IInv', NEW h \in Handlers, PostRemove(h)
  PROVE  [OneShot!Next]_(OneShot!vars)
<1>. USE NoneIsNoValue
<1>1. target[h] \in Ids /\ body[h] \in Bodies /\ took[h] = None
  BY DEF PostRemove, HandlerHoldsSender, TypeOK, IInv
<1>2. UNCHANGED <<future, outcome, body>>
  BY DEF PostRemove, caller
<1>3. CASE pending[target[h]] = None
  <2>1. UNCHANGED took
    BY <1>1, <1>3 DEF PostRemove, TypeOK, IInv
  <2>2. \A s \in Submissions :
          PhaseOf(s)' = PhaseOf(s) /\ (future[s] = "done" => outcome'[s] = outcome[s])
    BY <1>2 DEF PhaseOf
  <2>. QED
    BY <1>2, <2>1, <2>2, Unseen
<1>4. CASE pending[target[h]] # None
  <2>0. PICK s \in Submissions : s = pending[target[h]]
    BY <1>1, <1>4 DEF TypeOK, IInv
  <2>1. Untaken(s) /\ future[s] \notin {"unborn", "done"}
    BY <1>1, <1>4, <2>0 DEF StoredIsOpen, ChannelAgrees, IInv
  <2>2. took' = [took EXCEPT ![h] = s]
    BY <2>0 DEF PostRemove
  <2>3. AcceptedFor(s) = None /\ AcceptedFor(s)' = Decision(body[h])
    BY <1>2, <2>1, <2>2, AcceptedValue, AcceptedValueNext DEF TypeOK, IInv
  <2>4. \A t \in Submissions \ {s} : AcceptedFor(t)' = AcceptedFor(t)
    <3>. SUFFICES ASSUME NEW t \in Submissions \ {s}
                  PROVE  AcceptedFor(t)' = AcceptedFor(t)
      OBVIOUS
    <3>1. CASE \E g \in Handlers : took[g] = t
      <4>1. PICK g \in Handlers : took[g] = t
        BY <3>1
      <4>2. took'[g] = t
        BY <1>1, <2>2, <4>1 DEF TypeOK, IInv
      <4>. QED
        BY <1>2, <4>1, <4>2, AcceptedValue, AcceptedValueNext
    <3>2. CASE Untaken(t)
      <4>1. Untaken(t)'
        BY <2>2, <3>2 DEF Untaken, TypeOK, IInv
      <4>. QED
        BY <3>2, <4>1, AcceptedValue, AcceptedValueNext
    <3>. QED
      BY <3>1, <3>2 DEF Untaken
  <2>5. PhaseOf(s) \in {"open", "abandoned"}
    BY <2>1 DEF PhaseOf
  <2>6. \A t \in Submissions : PhaseOf(t)' = PhaseOf(t)
    BY <1>2 DEF PhaseOf
  <2>7. PICK d \in Decisions : d = Decision(body[h])
    BY <1>1 DEF Decisions
  <2>8. OneShot!Accept(s, d)
    BY <1>2, <2>3, <2>4, <2>5, <2>6, <2>7 DEF OneShot!Accept
  <2>. QED
    BY <2>7, <2>8 DEF OneShot!Next
<1>. QED
  BY <1>3, <1>4

\* Every step of the bridge is a step of the abstract request or a stutter.
LEMMA NextRefines ==
  ASSUME IInv, IInv', [Next]_vars
  PROVE  [OneShot!Next]_(OneShot!vars)
<1>1. ASSUME NEW s \in Submissions, Create(s)
      PROVE  [OneShot!Next]_(OneShot!vars)
  BY <1>1, CreateRefines DEF OneShot!Next
<1>2. ASSUME NEW s \in Submissions, FirstPoll(s) \/ Wake(s)
      PROVE  [OneShot!Next]_(OneShot!vars)
  BY <1>2, PollReceiverRefines DEF FirstPoll, Wake
<1>3. ASSUME NEW s \in Submissions, PollTimer(s)
      PROVE  [OneShot!Next]_(OneShot!vars)
  <2>1. \A t \in Submissions :
          PhaseOf(t)' = PhaseOf(t) /\ (future[t] = "done" => outcome'[t] = outcome[t])
    BY <1>3 DEF PollTimer, PhaseOf, TypeOK, IInv
  <2>. QED
    BY <1>3, <2>1, Unseen DEF PollTimer, handler
<1>4. ASSUME NEW s \in Submissions, CancelEntry(s)
      PROVE  [OneShot!Next]_(OneShot!vars)
  BY <1>4, EndRefines DEF CancelEntry, OneShot!Next
<1>5. ASSUME NEW s \in Submissions, Drop(s)
      PROVE  [OneShot!Next]_(OneShot!vars)
  <2>1. \A t \in Submissions : AcceptedFor(t)' = AcceptedFor(t)
    BY <1>5, AcceptedUnchanged DEF Drop, handler
  <2>2. /\ PhaseOf(s) = "open"
        /\ \A t \in Submissions : PhaseOf(t)' = IF t = s THEN "abandoned" ELSE PhaseOf(t)
        /\ \A t \in Submissions : (future'[t] = "done" <=> future[t] = "done")
                                    /\ outcome'[t] = outcome[t]
    BY <1>5 DEF Drop, PhaseOf, TypeOK, IInv
  <2>3. OneShot!Abandon(s)
    BY <2>1, <2>2 DEF OneShot!Abandon
  <2>. QED
    BY <2>3 DEF OneShot!Next
<1>6. ASSUME NEW h \in Handlers, PostRemove(h)
      PROVE  [OneShot!Next]_(OneShot!vars)
  BY <1>6, PostRemoveRefines
<1>7. ASSUME \/ \E s \in Submissions : Deadline(s)
             \/ \E h \in Handlers, id \in Ids, b \in Bodies : PostHas(h, id, b)
             \/ \E h \in Handlers : PostSend(h)
             \/ UNCHANGED vars
      PROVE  [OneShot!Next]_(OneShot!vars)
  <2>1. UNCHANGED <<future, outcome, took>>
    BY <1>7 DEF Deadline, PostHas, PostSend, caller, handler, vars
  <2>2. \A h \in Handlers : took[h] # None => body'[h] = body[h]
    BY <1>7 DEF Deadline, PostHas, PostSend, handler, vars, HandlerHoldsSender, TypeOK, IInv
  <2>3. \A s \in Submissions :
          PhaseOf(s)' = PhaseOf(s) /\ (future[s] = "done" => outcome'[s] = outcome[s])
    BY <2>1 DEF PhaseOf
  <2>. QED
    BY <2>1, <2>2, <2>3, Unseen
<1>. QED
  BY <1>1, <1>2, <1>3, <1>4, <1>5, <1>6, <1>7 DEF Next

\* The bridge implements the one-shot request: each submission is opened once,
\* accepts at most one decision and reports that decision, a timeout or, if
\* nothing was accepted, a cancellation.
THEOREM BridgeImplementsOneShot == Spec => ImplementsOneShot
<1>1. IInv /\ IInv' /\ [Next]_vars => [OneShot!Next]_(OneShot!vars)
  BY NextRefines
<1>2. Init => OneShot!Init
  BY RefinesInit
<1>. QED
  BY <1>1, <1>2, BridgeInvariant, PTL DEF Spec, ImplementsOneShot, OneShot!Spec
=============================================================================
