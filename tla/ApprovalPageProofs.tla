------------------------ MODULE ApprovalPageProofs ------------------------
(***************************************************************************)
(* Machine-checked proofs about ApprovalPage, for every set of accounts,   *)
(* requests, adapters and runs: the inductive invariant IInv, the safety   *)
(* properties it implies, and what a step may never do.                    *)
(*                                                                         *)
(* A continuation is a page and an await (Then), built by operators that   *)
(* call one another as the code's functions do.  Fits says what such a     *)
(* pair must satisfy to preserve the invariant when run r does it; each    *)
(* operator has a lemma saying when it fits, and the actions follow.       *)
(***************************************************************************)
EXTENDS ApprovalPage, TLAPS

SigningAwaits == {"current", "approval", "signature", "reread", "reread after denial"}

RunType == [await : Awaits, account : Accounts \cup {None}]

\* No other run of a sign request is on its way to a signature.
Alone(r) == request.type = "sign" => \A q \in Runs \ {r} : ~Signing(q)

\* Page p keeps what page has settled and picked.
Keeps(p) ==
  /\ p \in Page
  /\ page.settled # None =>
       /\ p.settled # None
       /\ request.type = "sign" => p.settled = page.settled
  /\ page.picked # None => p.picked # None
  /\ request.type = "connect" => p.picked = None

\* The view of page p is one its request can be in.
ViewFits(p) ==
  /\ request.type = "connect" /\ p.view = "wrong_address" => request.pinned # None
  /\ request.type = "sign" =>
       p.shown = p.view /\ (p.settled # None => p.view # "wrong_address")
  /\ p.view = "success" =>
       \/ page.view = "success"
       \/ bridge.accepted # None /\ bridge.accepted.kind = "result"

\* Run r may carry on with await run beside page p.
RunFits(p, run) ==
  /\ run \in RunType
  /\ run.await \notin {"delivered", "undelivered"}
  /\ request.type = "connect" => run.await \notin SigningAwaits
  /\ request.type = "sign" => run.await \notin {"accounts", "chain", "key"}
  /\ run.await \in SigningAwaits =>
       p.view \in {"connecting", "signing"} /\ p.settled = None
  /\ run.await = "delivery" => run.account # None /\ p.settled = run.account
  /\ run.await \in {"chain", "key", "signature"} => run.account # None
  /\ run.await \in {"chain", "key"} => request.pinned \in {None, run.account}
  /\ run.await = "signature" /\ p.picked = None => request.pinned \in {None, run.account}

PinFits(p) ==
  (request.type = "connect" \/ adapter.native) /\ request.pinned # None
    /\ p.settled # None /\ p.picked = None
      => p.settled = request.pinned

\* Nobody signs beside page p, or p leaves the spinner of the run that does.
SpinnerFits(r, p, run) ==
  \/ Alone(r)
  \/ p.view = page.view /\ p.settled = page.settled /\ run.await \notin SigningAwaits

Sound(p) == Keeps(p) /\ ViewFits(p) /\ PinFits(p)

Fits(r, then) ==
  /\ Sound(then.page)
  /\ RunFits(then.page, then.run)
  /\ SpinnerFits(r, then.page, then.run)

\* The account prompt that is in flight, or that a step opens.
PromptFits(pr) ==
  /\ pr \in {"none", "change", "pick"}
  /\ pr = "pick" => request.type = "sign" \/ request.pinned = None

\* What a step of run r that does not reach the bridge must satisfy.
LEMMA FitsInv ==
  ASSUME IInv, NEW r \in Runs, NEW then, Fits(r, then), Do(r, then),
         UNCHANGED <<request, adapter, bridge>>,
         PromptFits(prompt'), selected' \in Accounts \cup {None}
  PROVE  IInv' /\ (page.settled # None => page'.settled # None)
<1>. USE NoneIsNoValue
<1>1. /\ page' = then.page
      /\ runs'[r] = then.run
      /\ \A q \in Runs \ {r} : runs'[q] = runs[q]
      /\ runs' \in [Runs -> RunType]
  BY DEF Do, Fits, RunFits, RunType, TypeOK, IInv
<1>2. TypeOK'
  BY <1>1 DEF TypeOK, IInv, Fits, Sound, Keeps, RunType, PromptFits
<1>3. RunsFitRequest'
  BY <1>1 DEF RunsFitRequest, Signing, SigningAwaits, Fits, Sound, Keeps, ViewFits, RunFits, IInv
<1>4. SignOwnsSpinner'
  BY <1>1 DEF SignOwnsSpinner, Signing, SigningAwaits, Fits, Sound, ViewFits, RunFits, SpinnerFits,
              Alone, IInv
<1>5. OneSigningRun'
  <2>1. CASE request.type = "connect"
    BY <1>1, <1>3, <2>1 DEF OneSigningRun, RunsFitRequest
  <2>2. CASE request.type = "sign"
    BY <1>1, <2>2 DEF OneSigningRun, Signing, SigningAwaits, Fits, SpinnerFits, Alone, IInv
  <2>. QED
    BY <2>1, <2>2, RequestsType DEF TypeOK, IInv
<1>6. DeliversSettled'
  BY <1>1 DEF DeliversSettled, Fits, Sound, Keeps, RunFits, IInv
<1>7. AcceptedIsSettled'
  BY <1>1 DEF AcceptedIsSettled, Awaiting, Fits, Sound, Keeps, RunFits, IInv
<1>8. CarriesPinned'
  BY <1>1 DEF CarriesPinned, Awaiting, Fits, Sound, Keeps, RunFits, PromptFits, IInv
<1>9. PinnedUnlessPicked'
  BY <1>1 DEF PinnedUnlessPicked, Fits, Sound, PinFits
<1>10. SuccessIsAccepted'
  BY <1>1 DEF SuccessIsAccepted, AcceptedIsSettled, Fits, Sound, Keeps, ViewFits, IInv
<1>11. page.settled # None => page'.settled # None
  BY <1>1 DEF Fits, Sound, Keeps
<1>. QED
  BY <1>2, <1>3, <1>4, <1>5, <1>6, <1>7, <1>8, <1>9, <1>10, <1>11 DEF IInv

(***************************************************************************)
(* When the operators of the page fit.                                     *)
(***************************************************************************)

\* The page as it is, and rendered, is sound and leaves every spinner on.
LEMMA PageSound ==
  ASSUME IInv
  PROVE  /\ Sound(page) /\ Sound(Render(page))
         /\ \A r \in Runs : SpinnerFits(r, page, NoRun) /\ SpinnerFits(r, Render(page), NoRun)
<1>1. Sound(page)
  BY DEF Sound, Keeps, ViewFits, PinFits, TypeOK, RunsFitRequest, SignOwnsSpinner,
         PinnedUnlessPicked, IInv
<1>2. Sound(Render(page))
  BY <1>1 DEF Render, Sound, Keeps, ViewFits, PinFits, Page
<1>. QED
  BY <1>1, <1>2 DEF SpinnerFits, NoRun, At, SigningAwaits, Render, Sound, Keeps, Page

\* A connect request goes on to its key or its result with the pinned account.
LEMMA AfterChainFits ==
  ASSUME IInv, NEW r \in Runs, NEW p, NEW a \in Accounts, request.type = "connect",
         Sound(p), request.pinned \in {None, a}
  PROVE  Fits(r, AfterChain(p, a))
BY NoneIsNoValue
  DEF AfterChain, Settle, Then, At, Awaits, Fits, Sound, Keeps, ViewFits, PinFits, RunFits,
      RunType, SigningAwaits, SpinnerFits, Alone, Page

LEMMA FinishConnectFits ==
  ASSUME IInv, NEW r \in Runs, NEW p, NEW a \in Accounts, request.type = "connect",
         Sound(p), request.pinned \in {None, a}
  PROVE  Fits(r, FinishConnect(p, a)) /\ Fits(r, ConnectAs(p, a))
<1>. USE NoneIsNoValue
<1>1. ASSUME NEW q, Sound(q) PROVE Fits(r, FinishConnect(q, a))
  <2>1. CASE adapter.chain
    BY <1>1, <2>1
      DEF FinishConnect, Show, Then, At, Awaits, Statuses, Fits, Sound, Keeps, ViewFits,
          PinFits, RunFits, RunType, SigningAwaits, SpinnerFits, Alone, Page
  <2>2. CASE ~adapter.chain
    <3>1. Sound([q EXCEPT !.connected = a])
      BY <1>1 DEF Sound, Keeps, ViewFits, PinFits, Page
    <3>. QED
      BY <2>2, <3>1, AfterChainFits DEF FinishConnect
  <2>. QED
    BY <2>1, <2>2
<1>2. Sound([p EXCEPT !.view = "connecting"])
  BY DEF Sound, Keeps, ViewFits, PinFits, Page, Statuses
<1>. QED
  BY <1>1, <1>2 DEF ConnectAs

\* A sign request signs only if nothing has settled, and delivers otherwise.
LEMMA HandleSignFits ==
  ASSUME IInv, NEW r \in Runs, NEW p, request.type = "sign", Keeps(p), PinFits(p), Alone(r),
         p.settled # None => ViewFits(p)
  PROVE  Fits(r, HandleSign(p))
<1>. USE NoneIsNoValue
<1>1. CASE p.settled # None
  <2>1. RunFits(p, At("delivery", p.settled))
    BY <1>1 DEF Keeps, At, Awaits, RunFits, RunType, SigningAwaits, Page
  <2>. QED
    BY <1>1, <2>1 DEF HandleSign, Then, Fits, Sound, SpinnerFits
<1>2. CASE p.settled = None
  <2>. DEFINE q == Show(p, "connecting")
  <2>1. Keeps(q) /\ ViewFits(q) /\ PinFits(q) /\ q.view = "connecting" /\ q.settled = None
    BY <1>2 DEF Show, Statuses, Keeps, ViewFits, PinFits, Page
  <2>2. RunFits(q, At("current", None))
    BY <2>1 DEF At, Awaits, RunFits, RunType, SigningAwaits
  <2>3. Fits(r, Then(q, At("current", None)))
    BY <2>1, <2>2 DEF Then, Fits, Sound, SpinnerFits
  <2>. QED
    BY <1>2, <2>3 DEF HandleSign
<1>. QED
  BY <1>1, <1>2

\* The run ends with an error, or at the wrong-address view.
LEMMA EndFits ==
  ASSUME IInv, NEW r \in Runs, NEW p, Sound(p), Alone(r)
  PROVE  /\ Fits(r, Failed(p))
         /\ \/ request.type = "connect" /\ request.pinned # None
            \/ request.type = "sign" /\ p.settled = None
            => Fits(r, Then(EnterWrongAddress(p), NoRun))
<1>1. Fits(r, Failed(p))
  BY NoneIsNoValue
    DEF Failed, Show, Then, NoRun, At, Awaits, Statuses, Fits, Sound, Keeps, ViewFits,
        PinFits, RunFits, RunType, SigningAwaits, SpinnerFits, Page
<1>2. ASSUME \/ request.type = "connect" /\ request.pinned # None
             \/ request.type = "sign" /\ p.settled = None
      PROVE  Fits(r, Then(EnterWrongAddress(p), NoRun))
  BY <1>2, NoneIsNoValue
    DEF EnterWrongAddress, Show, Then, NoRun, At, Awaits, Statuses, Fits, Sound, Keeps,
        ViewFits, PinFits, RunFits, RunType, SigningAwaits, SpinnerFits, Page
<1>. QED
  BY <1>1, <1>2

\* The request is resumed from the wrong-address view by the expected account only.
LEMMA MaybeResumeFits ==
  ASSUME IInv, NEW r \in Runs, NEW p, NEW a \in Accounts, Sound(p),
         SpinnerFits(r, p, NoRun), p.view = "wrong_address" => Alone(r)
  PROVE  Fits(r, MaybeResume(p, a, NoRun))
<1>. USE NoneIsNoValue
<1>. DEFINE q == [p EXCEPT !.connected = a, !.view = "connecting", !.listening = FALSE]
<1>1. RunFits(p, NoRun) /\ RunFits(Render([p EXCEPT !.connected = a]), NoRun)
  BY DEF RunFits, RunType, NoRun, At, Awaits, SigningAwaits
<1>2. CASE p.finished \/ p.view # "wrong_address"
  BY <1>1, <1>2 DEF MaybeResume, Then, Fits
<1>3. CASE p.view = "wrong_address" /\ ~Matches(a, p) /\ ~p.finished
  BY <1>1, <1>3 DEF MaybeResume, Render, Then, Fits, Sound, Keeps, ViewFits, PinFits, Page,
                    SpinnerFits
<1>4. CASE p.view = "wrong_address" /\ Matches(a, p) /\ ~p.finished
  <2>1. CASE request.type = "connect"
    <3>1. request.pinned \in {None, a}
      BY <1>4, <2>1 DEF Matches, Expected, Sound, Keeps
    <3>2. Sound(q)
      BY <2>1 DEF Sound, Keeps, ViewFits, PinFits, Page, Statuses
    <3>3. Fits(r, ConnectAs(q, a))
      BY <2>1, <3>1, <3>2, FinishConnectFits
    <3>. QED
      BY <1>4, <2>1, <3>3 DEF MaybeResume
  <2>2. CASE request.type = "sign"
    <3>1. p.settled = None
      BY <1>4, <2>2 DEF Sound, ViewFits
    <3>2. Keeps(q) /\ PinFits(q) /\ q.settled = None
      BY <3>1 DEF Sound, Keeps, PinFits, Page, Statuses
    <3>3. Fits(r, HandleSign(q))
      BY <1>4, <2>2, <3>2, HandleSignFits
    <3>. QED
      BY <1>4, <2>2, <3>3 DEF MaybeResume
  <2>. QED
    BY <2>1, <2>2, RequestsType DEF TypeOK, IInv
<1>. QED
  BY <1>2, <1>3, <1>4

\* Without a prompt a connect request goes on as the account it pins.
LEMMA ConnectDespiteFits ==
  ASSUME IInv, NEW r \in Runs, NEW p, Sound(p), SpinnerFits(r, p, NoRun)
  PROVE  Fits(r, ConnectDespiteNoPrompt(p, NoRun))
<1>. USE NoneIsNoValue
<1>. DEFINE resumes == adapter.native /\ request.type = "connect"
                         /\ p.view = "wrong_address" /\ ~p.finished
            q == [p EXCEPT !.listening = FALSE]
<1>1. CASE ~resumes
  BY <1>1 DEF ConnectDespiteNoPrompt, RunFits, RunType, NoRun, At, Awaits, SigningAwaits, Then, Fits
<1>2. CASE resumes
  <2>1. Expected(p) = request.pinned /\ Expected(p) \in Accounts
    BY <1>2, RequestsType DEF Expected, Sound, Keeps, ViewFits, TypeOK, IInv
  <2>2. Sound(q)
    BY DEF Sound, Keeps, ViewFits, PinFits, Page
  <2>3. Fits(r, ConnectAs(q, Expected(p)))
    BY <1>2, <2>1, <2>2, FinishConnectFits
  <2>. QED
    BY <1>2, <2>3 DEF ConnectDespiteNoPrompt
<1>. QED
  BY <1>1, <1>2

\* A picked account connects a request that pins none, or becomes the expected one.
LEMMA PickedFits ==
  ASSUME IInv, NEW r \in Runs, NEW p, NEW a \in Accounts, Sound(p),
         SpinnerFits(r, p, NoRun), request.type = "connect" => request.pinned = None
  PROVE  Fits(r, Picked(p, a))
<1>. USE NoneIsNoValue
<1>1. RunFits(p, NoRun) /\ RunFits([p EXCEPT !.connected = a, !.picked = a], NoRun)
  BY DEF RunFits, RunType, NoRun, At, Awaits, SigningAwaits
<1>2. CASE p.finished
  BY <1>1, <1>2 DEF Picked, Then, Fits
<1>3. CASE ~p.finished /\ request.type = "connect"
  <2>1. Sound([p EXCEPT !.connected = a])
    BY DEF Sound, Keeps, ViewFits, PinFits, Page
  <2>. QED
    BY <1>3, <2>1, FinishConnectFits DEF Picked
<1>4. CASE ~p.finished /\ request.type = "sign"
  BY <1>1, <1>4
    DEF Picked, Then, Fits, Sound, Keeps, ViewFits, PinFits, SpinnerFits, Page
<1>. QED
  BY <1>2, <1>3, <1>4, RequestsType DEF TypeOK, IInv

\* The account of a sign request is known: it is signed with the expected one,
\* or the run ends at the gate, maybe with a prompt.
LEMMA AccountInv ==
  ASSUME IInv, NEW r \in Runs, NEW a \in Accounts, request.type = "sign",
         page.settled = None, Alone(r), Account(r, a),
         UNCHANGED <<request, adapter, bridge>>, selected' \in Accounts \cup {None}
  PROVE  IInv' /\ (page.settled # None => page'.settled # None)
<1>. USE NoneIsNoValue
<1>. DEFINE p == [page EXCEPT !.connected = a]
<1>1. Sound(p) /\ p.settled = None
  BY PageSound DEF Sound, Keeps, ViewFits, PinFits, Page
<1>2. PromptFits(prompt) /\ PromptFits(PromptFrom(p))
  BY DEF PromptFits, PromptFrom, CarriesPinned, TypeOK, IInv
<1>3. CASE AtGate(p, a)
  <2>1. Fits(r, Then(EnterWrongAddress(p), NoRun))
    BY <1>1, EndFits
  <2>2. Do(r, Then(EnterWrongAddress(p), NoRun)) /\ prompt' = PromptFrom(p)
    BY <1>3 DEF Account
  <2>. QED
    BY <1>2, <2>1, <2>2, FitsInv
<1>4. CASE ~AtGate(p, a)
  <2>. DEFINE q == Show([p EXCEPT !.connected = a], "signing")
              e == IF Expected(p) # None THEN Expected(p) ELSE a
  <2>1. Keeps(q) /\ ViewFits(q) /\ PinFits(q) /\ q.view = "signing" /\ q.settled = None
          /\ q.picked = p.picked
    BY <1>1 DEF Show, Statuses, Sound, Keeps, ViewFits, PinFits, Page
  <2>2. e \in Accounts /\ (p.picked = None => request.pinned \in {None, e})
    BY <1>1, RequestsType DEF Expected, Sound, Keeps, Page, TypeOK, IInv
  <2>3. RunFits(q, At("signature", e))
    BY <2>1, <2>2 DEF At, Awaits, RunFits, RunType, SigningAwaits
  <2>4. Fits(r, Sign(p, a))
    BY <2>1, <2>3 DEF Sign, Then, Fits, Sound, SpinnerFits
  <2>5. Do(r, Sign(p, a)) /\ prompt' = prompt
    BY <1>4 DEF Account
  <2>. QED
    BY <1>2, <2>4, <2>5, FitsInv
<1>. QED
  BY <1>3, <1>4

(***************************************************************************)
(* One lemma per action.                                                   *)
(***************************************************************************)

\* What the invariant says of an awaiting run's neighbours, and of the prompt.
LEMMA Neighbours ==
  ASSUME IInv, NEW r \in Runs
  PROVE  /\ Signing(r) => Alone(r)
         /\ request.type = "connect" => Alone(r)
         /\ page.view \notin {"connecting", "signing"} => Alone(r)
         /\ page.settled # None => Alone(r)
         /\ runs[r].await \in {"accounts", "chain", "key"} => request.type = "connect"
         /\ Signing(r) => request.type = "sign" /\ page.settled = None
         /\ PromptFits(prompt)
         /\ \A p : PromptFits(PromptFrom(p))
BY RequestsType
  DEF Alone, OneSigningRun, SignOwnsSpinner, RunsFitRequest, CarriesPinned, PromptFits,
      PromptFrom, TypeOK, IInv

\* Clicks: a sign request is signed from a view no run signs in.
LEMMA ClicksInv ==
  ASSUME IInv, NEW r \in Runs, Clicks(r)
  PROVE  IInv' /\ (page.settled # None => page'.settled # None)
<1>. USE NoneIsNoValue
<1>. UNCHANGED <<request, adapter, prompt, selected, bridge>> /\ selected \in Accounts \cup {None}
  BY DEF Clicks, ClickConnect, ClickSign, ClickReject, TypeOK, IInv
<1>1. CASE ClickConnect(r)
  <2>. DEFINE q == Show(page, "connecting")
  <2>1. Sound(q) /\ Alone(r)
    BY <1>1, PageSound
      DEF ClickConnect, Show, Statuses, Sound, Keeps, ViewFits, PinFits, Page, Alone
  <2>2. RunFits(q, At("accounts", None))
    BY <1>1 DEF ClickConnect, At, Awaits, RunFits, RunType, SigningAwaits
  <2>3. Fits(r, Then(q, At("accounts", None)))
    BY <2>1, <2>2 DEF Then, Fits, SpinnerFits
  <2>. QED
    BY <1>1, <2>3, Neighbours, FitsInv DEF ClickConnect
<1>2. CASE ClickSign(r)
  <2>1. page.view \notin {"connecting", "signing"} /\ request.type = "sign"
    BY <1>2 DEF ClickSign, SignOwnsSpinner, IInv
  <2>2. Fits(r, HandleSign(page))
    BY <2>1, PageSound, Neighbours, HandleSignFits DEF Sound
  <2>. QED
    BY <1>2, <2>2, Neighbours, FitsInv DEF ClickSign
<1>3. CASE ClickReject(r)
  <2>. DEFINE q == [page EXCEPT !.finished = TRUE, !.listening = FALSE, !.following = FALSE]
  <2>1. Sound(q) /\ q.view = page.view /\ q.settled = page.settled
    BY PageSound DEF Sound, Keeps, ViewFits, PinFits, Page
  <2>2. RunFits(q, At("rejection", None)) /\ SpinnerFits(r, q, At("rejection", None))
    BY <2>1 DEF At, Awaits, RunFits, RunType, SigningAwaits, SpinnerFits
  <2>3. Fits(r, Then(q, At("rejection", None)))
    BY <2>1, <2>2 DEF Then, Fits
  <2>. QED
    BY <1>3, <2>3, Neighbours, FitsInv DEF ClickReject
<1>. QED
  BY <1>1, <1>2, <1>3 DEF Clicks

\* The answers to a connect request's calls: the account is checked before the
\* wallet is asked for anything else.
LEMMA ConnectAnswersInv ==
  ASSUME IInv, NEW r \in Runs,
         \/ \E a \in Accounts : ConnectApproved(r, a)
         \/ ChainSwitched(r) \/ KeyRead(r) \/ ConnectFails(r)
  PROVE  IInv' /\ (page.settled # None => page'.settled # None)
<1>. USE NoneIsNoValue
<1>1. /\ request.type = "connect" /\ Alone(r)
      /\ Sound(page)
      /\ PromptFits(prompt)
      /\ selected \in Accounts \cup {None}
      /\ runs[r].account \in Accounts \cup {None}
  BY Neighbours, PageSound
    DEF ConnectApproved, ChainSwitched, KeyRead, ConnectFails, Awaiting, TypeOK, IInv
<1>2. ASSUME NEW a \in Accounts, ConnectApproved(r, a)
      PROVE  IInv' /\ (page.settled # None => page'.settled # None)
  <2>. DEFINE p == [page EXCEPT !.connected = a]
  <2>1. Sound(p)
    BY <1>1 DEF Sound, Keeps, ViewFits, PinFits, Page
  <2>2. CASE request.pinned \in {None, a}
    BY <1>1, <1>2, <2>1, <2>2, FinishConnectFits, FitsInv DEF ConnectApproved
  <2>3. CASE request.pinned \notin {None, a}
    <3>1. Fits(r, Then(EnterWrongAddress(p), NoRun))
      BY <1>1, <2>1, <2>3, EndFits
    <3>2. PromptFits(PromptFrom(p))
      BY Neighbours
    <3>. QED
      BY <1>2, <2>3, <3>1, <3>2, FitsInv DEF ConnectApproved
  <2>. QED
    BY <2>2, <2>3
<1>3. CASE ChainSwitched(r) \/ KeyRead(r)
  <2>1. runs[r].account \in Accounts /\ request.pinned \in {None, runs[r].account}
    BY <1>1, <1>3 DEF ChainSwitched, KeyRead, Awaiting, CarriesPinned, IInv
  <2>2. Fits(r, AfterChain(page, runs[r].account))
    BY <1>1, <2>1, AfterChainFits
  <2>3. Fits(r, Settle(page, runs[r].account))
    BY <1>1, <2>1
      DEF Settle, Then, At, Awaits, Fits, Sound, Keeps, ViewFits, PinFits, RunFits, RunType,
          SigningAwaits, SpinnerFits, Page
  <2>. QED
    BY <1>1, <1>3, <2>2, <2>3, FitsInv DEF ChainSwitched, KeyRead
<1>4. CASE ConnectFails(r)
  <2>1. Fits(r, Failed(page))
    BY <1>1, EndFits
  <2>. QED
    BY <1>1, <1>4, <2>1, FitsInv DEF ConnectFails
<1>. QED
  BY <1>2, <1>3, <1>4

\* The answers to a sign request's calls, and the account read after a failure.
LEMMA SignAnswersInv ==
  ASSUME IInv, NEW r \in Runs,
         \/ CurrentRead(r) \/ Signed(r)
         \/ \E a \in Accounts : Approved(r, a)
         \/ \E denied \in BOOLEAN : SignFails(r, denied)
         \/ \E a \in Accounts \cup {None} : Reread(r, a)
  PROVE  IInv' /\ (page.settled # None => page'.settled # None)
<1>. USE NoneIsNoValue
<1>1. /\ request.type = "sign" /\ Alone(r) /\ page.settled = None
      /\ Sound(page)
      /\ PromptFits(prompt)
      /\ \A p : PromptFits(PromptFrom(p))
      /\ selected \in Accounts \cup {None}
      /\ page.view \in {"connecting", "signing"}
  BY Neighbours, PageSound
    DEF CurrentRead, Signed, Approved, SignFails, Reread, Awaiting, Signing, SignOwnsSpinner,
        TypeOK, IInv
<1>2. CASE CurrentRead(r)
  <2>1. CASE selected = None
    <3>1. RunFits(page, At("approval", None))
      BY <1>1 DEF At, Awaits, RunFits, RunType, SigningAwaits
    <3>2. Fits(r, Then(page, At("approval", None)))
      BY <1>1, <3>1 DEF Then, Fits, SpinnerFits
    <3>. QED
      BY <1>1, <1>2, <2>1, <3>2, FitsInv DEF CurrentRead
  <2>2. CASE selected # None
    BY <1>1, <1>2, <2>2, AccountInv DEF CurrentRead
  <2>. QED
    BY <2>1, <2>2
<1>3. ASSUME NEW a \in Accounts, Approved(r, a)
      PROVE  IInv' /\ (page.settled # None => page'.settled # None)
  BY <1>1, <1>3, AccountInv DEF Approved
<1>4. CASE Signed(r)
  <2>. DEFINE asked == runs[r].account
              signer == IF adapter.native \/ selected = None THEN asked ELSE selected
              q == [page EXCEPT !.settled = signer]
  <2>1. /\ asked \in Accounts
        /\ page.picked = None => request.pinned \in {None, asked}
    BY <1>4 DEF Signed, Awaiting, CarriesPinned, TypeOK, IInv
  <2>2. signer \in Accounts /\ (adapter.native => signer = asked)
    BY <1>1, <2>1
  <2>3. Sound(q) /\ q.settled = signer
    BY <1>1, <2>1, <2>2 DEF Sound, Keeps, ViewFits, PinFits, Page
  <2>4. RunFits(q, At("delivery", signer))
    BY <2>2, <2>3 DEF At, Awaits, RunFits, RunType, SigningAwaits
  <2>5. Fits(r, Settle(page, signer))
    BY <1>1, <2>3, <2>4 DEF Settle, Then, Fits, SpinnerFits
  <2>. QED
    BY <1>1, <1>4, <2>2, <2>5, FitsInv DEF Signed
<1>5. ASSUME NEW denied \in BOOLEAN, SignFails(r, denied)
      PROVE  IInv' /\ (page.settled # None => page'.settled # None)
  <2>1. CASE Expected(page) = None
    BY <1>1, <1>5, <2>1, EndFits, FitsInv DEF SignFails
  <2>2. CASE Expected(page) # None
    <3>. DEFINE run == At(IF denied THEN "reread after denial" ELSE "reread", Expected(page))
    <3>1. Expected(page) \in Accounts
      BY <2>2, RequestsType DEF Expected, Page, TypeOK, IInv
    <3>2. RunFits(page, run)
      BY <1>1, <3>1 DEF At, Awaits, RunFits, RunType, SigningAwaits
    <3>3. Fits(r, Then(page, run))
      BY <1>1, <3>2 DEF Then, Fits, SpinnerFits
    <3>. QED
      BY <1>1, <1>5, <2>2, <3>3, FitsInv DEF SignFails
  <2>. QED
    BY <2>1, <2>2
<1>6. ASSUME NEW a \in Accounts \cup {None}, Reread(r, a)
      PROVE  IInv' /\ (page.settled # None => page'.settled # None)
  <2>. DEFINE p == [page EXCEPT !.connected = a]
  <2>1. Sound(p) /\ p.settled = None
    BY <1>1 DEF Sound, Keeps, ViewFits, PinFits, Page
  <2>2. Fits(r, Failed(p)) /\ Fits(r, Then(EnterWrongAddress(p), NoRun))
    BY <1>1, <2>1, EndFits
  <2>3. PromptFits(prompt')
    BY <1>1, <1>6 DEF Reread
  <2>4. Do(r, Failed(p)) \/ Do(r, Then(EnterWrongAddress(p), NoRun))
    BY <1>6 DEF Reread
  <2>5. UNCHANGED <<request, adapter, selected, bridge>>
    BY <1>6 DEF Reread
  <2>. QED
    BY <1>1, <2>2, <2>3, <2>4, <2>5, FitsInv
<1>. QED
  BY <1>2, <1>3, <1>4, <1>5, <1>6

\* A prompt's answer resumes the request it was opened for, or picks an account.
LEMMA PromptAnsweredInv ==
  ASSUME IInv, NEW r \in Runs, NEW a \in Accounts, PromptAnswered(r, a)
  PROVE  IInv' /\ (page.settled # None => page'.settled # None)
<1>. DEFINE p == Render(page)
<1>1. Sound(p) /\ SpinnerFits(r, p, NoRun) /\ p.view = page.view
  BY PageSound DEF Render, Page, TypeOK, IInv
<1>2. Fits(r, MaybeResume(p, a, NoRun))
  BY <1>1, Neighbours, MaybeResumeFits
<1>3. prompt # "change" => Fits(r, Picked(p, a))
  <2>1. ASSUME prompt # "change", request.type = "connect" PROVE request.pinned = None
    BY <2>1 DEF PromptAnswered, CarriesPinned, TypeOK, IInv
  <2>. QED
    BY <1>1, <2>1, PickedFits
<1>4. \/ Do(r, MaybeResume(p, a, NoRun))
      \/ prompt # "change" /\ Do(r, Picked(p, a))
  BY DEF PromptAnswered
<1>5. /\ UNCHANGED <<request, adapter, bridge>>
      /\ PromptFits(prompt')
      /\ selected' \in Accounts \cup {None}
  BY DEF PromptAnswered, PromptFits, TypeOK, IInv
<1>. QED
  BY <1>2, <1>3, <1>4, <1>5, FitsInv

\* Without such a prompt the request may go on as the account it pins.
LEMMA PromptUnsupportedInv ==
  ASSUME IInv, NEW r \in Runs, NEW answered \in BOOLEAN, PromptUnsupported(r, answered)
  PROVE  IInv' /\ (page.settled # None => page'.settled # None)
<1>. USE NoneIsNoValue
<1>. DEFINE p == [Render(page) EXCEPT !.unsupported = TRUE]
<1>1. Sound(p) /\ SpinnerFits(r, p, NoRun)
  BY PageSound DEF Sound, Keeps, ViewFits, PinFits, SpinnerFits, Page
<1>2. Fits(r, ConnectDespiteNoPrompt(p, NoRun))
  BY <1>1, ConnectDespiteFits
<1>3. RunFits(p, NoRun)
  BY DEF RunFits, RunType, NoRun, At, Awaits, SigningAwaits
<1>4. Fits(r, Then(p, NoRun))
  BY <1>1, <1>3 DEF Then, Fits
<1>5. Do(r, ConnectDespiteNoPrompt(p, NoRun)) \/ Do(r, Then(p, NoRun))
  BY DEF PromptUnsupported
<1>6. /\ UNCHANGED <<request, adapter, bridge>>
      /\ PromptFits(prompt')
      /\ selected' \in Accounts \cup {None}
  BY DEF PromptUnsupported, PromptFits, TypeOK, IInv
<1>. QED
  BY <1>2, <1>4, <1>5, <1>6, FitsInv

\* An account event resumes the request or follows the selection.
LEMMA AccountsChangedInv ==
  ASSUME IInv, NEW r \in Runs, AccountsChanged(r)
  PROVE  IInv' /\ (page.settled # None => page'.settled # None)
<1>. USE NoneIsNoValue
<1>1. /\ UNCHANGED <<request, adapter, prompt, selected, bridge>>
      /\ PromptFits(prompt)
      /\ selected \in Accounts
  BY Neighbours DEF AccountsChanged, TypeOK, IInv
<1>2. CASE page.view = "wrong_address"
  <2>1. Fits(r, MaybeResume(page, selected, NoRun))
    BY <1>1, <1>2, PageSound, Neighbours, MaybeResumeFits
  <2>. QED
    BY <1>1, <1>2, <2>1, FitsInv DEF AccountsChanged
<1>3. CASE page.view # "wrong_address"
  <2>. DEFINE p == [page EXCEPT !.connected = selected,
                                !.picked = IF @ # None THEN selected ELSE None]
  <2>1. p \in Page /\ p.settled = page.settled /\ p.view = page.view /\ p.shown = page.shown
          /\ (p.picked = None <=> page.picked = None)
    BY <1>1 DEF Page, TypeOK, IInv
  <2>2. Sound(Render(p)) /\ Render(p).view = page.view /\ Render(p).settled = page.settled
    BY <2>1, PageSound DEF Render, Sound, Keeps, ViewFits, PinFits, Page
  <2>3. RunFits(Render(p), NoRun) /\ SpinnerFits(r, Render(p), NoRun)
    BY <2>2 DEF RunFits, RunType, NoRun, At, Awaits, SigningAwaits, SpinnerFits
  <2>4. Fits(r, Then(Render(p), NoRun))
    BY <2>2, <2>3 DEF Then, Fits
  <2>. QED
    BY <1>1, <1>3, <2>4, FitsInv DEF AccountsChanged
<1>. QED
  BY <1>2, <1>3

\* A step that starts or ends no run, and moves only to a view no run signs in
\* or renders the view there is.
LEMMA RunlessInv ==
  ASSUME IInv, page' \in Page, runs' = runs, UNCHANGED <<request, adapter>>,
         page'.settled = page.settled, page'.picked = page.picked,
         \/ page'.view = page.view
         \/ page.view = "error" /\ page'.view = "idle",
         page'.shown \in {page.shown, page'.view},
         request.type = "sign" => page'.shown = page'.view,
         PromptFits(prompt'), selected' \in Accounts \cup {None},
         bridge'.accepted = bridge.accepted, bridge' \in {bridge, [bridge EXCEPT !.open = FALSE]}
  PROVE  IInv' /\ (page.settled # None => page'.settled # None)
<1>1. TypeOK'
  BY DEF PromptFits, TypeOK, IInv
<1>2. RunsFitRequest' /\ SignOwnsSpinner' /\ OneSigningRun' /\ DeliversSettled'
  BY DEF RunsFitRequest, SignOwnsSpinner, OneSigningRun, DeliversSettled, Signing, IInv
<1>3. AcceptedIsSettled' /\ SuccessIsAccepted'
  BY DEF AcceptedIsSettled, SuccessIsAccepted, Awaiting, TypeOK, IInv
<1>4. CarriesPinned' /\ PinnedUnlessPicked'
  BY DEF CarriesPinned, PinnedUnlessPicked, Awaiting, PromptFits, IInv
<1>. QED
  BY <1>1, <1>2, <1>3, <1>4 DEF IInv

LEMMA RunlessStepsInv ==
  ASSUME IInv,
         \/ ClickSwitch \/ PromptDismissed \/ ChainReady \/ EntryGone
         \/ \E a \in Accounts : WalletSwitches(a)
  PROVE  IInv' /\ (page.settled # None => page'.settled # None)
<1>. USE NoneIsNoValue
<1>1. PromptFits(prompt) /\ page \in Page /\ selected \in Accounts \cup {None}
        /\ bridge \in [open : BOOLEAN, accepted : Decisions \cup {None}]
  BY DEF PromptFits, CarriesPinned, TypeOK, IInv
<1>2. request.type = "sign" => page.shown = page.view
  BY DEF SignOwnsSpinner, IInv
<1>3. CASE ClickSwitch
  <2>1. PromptFits("pick")
    BY <1>3, RequestsType DEF ClickSwitch, PromptFits, TypeOK, IInv
  <2>2. page' = Render(page) /\ page' \in Page /\ page'.view = page.view
          /\ page'.shown = page.view /\ page'.settled = page.settled /\ page'.picked = page.picked
    BY <1>1, <1>3 DEF ClickSwitch, Render, Page
  <2>. QED
    BY <1>1, <1>3, <2>1, <2>2, RunlessInv DEF ClickSwitch
<1>4. CASE PromptDismissed
  <2>1. PromptFits("none")
    BY DEF PromptFits
  <2>2. page' = Render(page) /\ page' \in Page /\ page'.view = page.view
          /\ page'.shown = page.view /\ page'.settled = page.settled /\ page'.picked = page.picked
    BY <1>1, <1>4 DEF PromptDismissed, Render, Page
  <2>. QED
    BY <1>1, <1>4, <2>1, <2>2, RunlessInv DEF PromptDismissed
<1>5. CASE ChainReady
  <2>1. page' \in Page /\ page'.view = "idle" /\ page'.shown = "idle"
          /\ page'.settled = page.settled /\ page'.picked = page.picked
    BY <1>1, <1>5 DEF ChainReady, Show, Page, Statuses
  <2>. QED
    BY <1>1, <1>5, <2>1, RunlessInv DEF ChainReady
<1>6. CASE EntryGone
  BY <1>1, <1>2, <1>6, RunlessInv DEF EntryGone
<1>7. ASSUME NEW a \in Accounts, WalletSwitches(a)
      PROVE  IInv' /\ (page.settled # None => page'.settled # None)
  BY <1>1, <1>2, <1>7, RunlessInv DEF WalletSwitches
<1>. QED
  BY <1>3, <1>4, <1>5, <1>6, <1>7

\* A POST is answered: the page stays, and the run awaits what it does next.
\* The entry's one decision is that of a run that delivers or rejects.
LEMMA PostInv ==
  ASSUME IInv, NEW r \in Runs, PostAccepted(r) \/ PostRefused(r)
  PROVE  IInv' /\ (page.settled # None => page'.settled # None)
<1>. USE NoneIsNoValue
<1>1. /\ UNCHANGED <<request, adapter, page, prompt, selected>>
      /\ runs[r].await \in {"delivery", "rejection"}
  BY DEF PostAccepted, PostRefused
<1>2. PICK await \in {"delivered", "undelivered", "rejection answered"} :
        /\ runs' = [runs EXCEPT ![r].await = await]
        /\ await \in {"delivered", "undelivered"} => runs[r].await = "delivery"
        /\ await = "delivered" => PostAccepted(r)
  BY <1>1 DEF PostAccepted, PostRefused, Answer, Answers, Awaiting
<1>3. /\ runs' \in [Runs -> RunType]
      /\ runs'[r].await = await /\ runs'[r].account = runs[r].account
      /\ \A q \in Runs \ {r} : runs'[q] = runs[q]
  BY <1>2 DEF Awaits, RunType, TypeOK, IInv
<1>4. /\ Decided(r) \in Decisions
      /\ Decided(r).account = runs[r].account
      /\ Decided(r).kind = IF runs[r].await = "delivery" THEN "result" ELSE "rejected"
  <2>1. runs[r].account \in Accounts \cup {None}
    BY DEF TypeOK, IInv
  <2>. QED
    BY <2>1 DEF Decided, Decisions, Awaiting
<1>5. \/ /\ PostAccepted(r)
         /\ bridge.open
         /\ bridge' = [open |-> FALSE, accepted |-> Decided(r)]
      \/ ~PostAccepted(r) /\ bridge' = bridge
  BY DEF PostAccepted, PostRefused
<1>6. bridge' \in [open : BOOLEAN, accepted : Decisions \cup {None}]
  <2>1. CASE bridge' = [open |-> FALSE, accepted |-> Decided(r)]
    BY <1>4, <2>1
  <2>2. CASE bridge' = bridge
    BY <2>2 DEF TypeOK, IInv
  <2>. QED
    BY <1>5, <2>1, <2>2
<1>7. TypeOK'
  BY <1>1, <1>3, <1>6 DEF RunType, TypeOK, IInv
<1>8. \A q \in Runs : Signing(q)' => Signing(q)
  BY <1>2, <1>3 DEF Signing
<1>9. OneSigningRun' /\ RunsFitRequest' /\ SignOwnsSpinner' /\ PinnedUnlessPicked'
  BY <1>1, <1>2, <1>3, <1>8
    DEF OneSigningRun, RunsFitRequest, SignOwnsSpinner, PinnedUnlessPicked, IInv
<1>10. DeliversSettled'
  BY <1>1, <1>2, <1>3 DEF DeliversSettled, IInv
<1>11. CarriesPinned'
  BY <1>1, <1>2, <1>3 DEF CarriesPinned, Awaiting, IInv
<1>12. AcceptedIsSettled'
  <2>1. CASE PostAccepted(r)
    <3>1. bridge'.open = FALSE /\ bridge'.accepted = Decided(r) /\ bridge'.accepted # None
      <4>1. bridge' = [open |-> FALSE, accepted |-> Decided(r)]
        BY <1>5, <2>1
      <4>. QED
        BY <1>4, <4>1
    <3>2. bridge'.accepted.kind = "result" => runs[r].await = "delivery"
      BY <1>4, <3>1
    <3>3. runs'[r].await = "delivered" => bridge'.accepted.kind = "result"
      BY <1>2, <1>3, <1>4, <3>1
    <3>4. \A q \in Runs \ {r} : runs'[q].await # "delivered"
      BY <1>3, <1>5, <2>1 DEF AcceptedIsSettled, Awaiting, IInv
    <3>. QED
      BY <1>1, <1>4, <3>1, <3>2, <3>3, <3>4 DEF AcceptedIsSettled, DeliversSettled, Awaiting, IInv
  <2>2. CASE ~PostAccepted(r)
    BY <1>1, <1>2, <1>3, <1>5, <2>2 DEF AcceptedIsSettled, Awaiting, IInv
  <2>. QED
    BY <2>1, <2>2
<1>13. SuccessIsAccepted'
  BY <1>1, <1>4, <1>5 DEF SuccessIsAccepted, AcceptedIsSettled, IInv
<1>. QED
  BY <1>1, <1>7, <1>9, <1>10, <1>11, <1>12, <1>13 DEF IInv

\* The page shows success for an answered delivery, an error for a failed one.
LEMMA DeliveryInv ==
  ASSUME IInv, NEW r \in Runs, Delivered(r) \/ Undelivered(r)
  PROVE  IInv' /\ (page.settled # None => page'.settled # None)
<1>. USE NoneIsNoValue
<1>1. /\ page.settled # None /\ Alone(r)
      /\ Sound(page)
      /\ PromptFits(prompt)
      /\ selected \in Accounts \cup {None}
  BY Neighbours, PageSound
    DEF Delivered, Undelivered, Awaiting, DeliversSettled, TypeOK, IInv
<1>2. CASE Delivered(r)
  <2>. DEFINE q == [Show(page, "success") EXCEPT !.closing = TRUE]
  <2>1. bridge.accepted # None /\ bridge.accepted.kind = "result"
    BY <1>2 DEF Delivered, AcceptedIsSettled, IInv
  <2>2. Sound(q)
    BY <1>1, <2>1 DEF Show, Statuses, Sound, Keeps, ViewFits, PinFits, Page
  <2>3. RunFits(q, NoRun)
    BY DEF RunFits, RunType, NoRun, At, Awaits, SigningAwaits
  <2>4. Fits(r, Then(q, NoRun))
    BY <1>1, <2>2, <2>3 DEF Then, Fits, SpinnerFits
  <2>. QED
    BY <1>1, <1>2, <2>4, FitsInv DEF Delivered
<1>3. CASE Undelivered(r)
  BY <1>1, <1>3, EndFits, FitsInv DEF Undelivered
<1>. QED
  BY <1>2, <1>3

\* The window closes, or the browser refuses to close it after a rejection.
LEMMA CloseInv ==
  ASSUME IInv, CloseAfterSuccess \/ \E r \in Runs : RejectionAnswered(r)
  PROVE  IInv' /\ (page.settled # None => page'.settled # None)
<1>. USE NoneIsNoValue
<1>1. ASSUME Close
      PROVE  IInv' /\ (page.settled # None => page'.settled # None)
  <2>1. /\ UNCHANGED <<request, adapter, selected, bridge>>
        /\ prompt' = "none"
        /\ \A r \in Runs : runs'[r] = NoRun
        /\ runs' \in [Runs -> RunType]
    BY <1>1 DEF Close, RunType, NoRun, At, Awaits
  <2>2. /\ page' \in Page /\ page'.view = "closed" /\ page'.shown = "closed"
        /\ page'.settled = page.settled /\ page'.picked = page.picked
    BY <1>1 DEF Close, Show, Statuses, Page, TypeOK, IInv
  <2>3. TypeOK'
    BY <2>1, <2>2 DEF RunType, TypeOK, IInv
  <2>4. \A r \in Runs : runs'[r].await = "nothing"
    BY <2>1 DEF NoRun, At
  <2>5. RunsFitRequest' /\ SignOwnsSpinner' /\ OneSigningRun'
    BY <2>1, <2>2, <2>4 DEF RunsFitRequest, SignOwnsSpinner, OneSigningRun, Signing, IInv
  <2>6. DeliversSettled' /\ AcceptedIsSettled' /\ CarriesPinned'
    BY <2>1, <2>2
      DEF DeliversSettled, AcceptedIsSettled, CarriesPinned, Awaiting, NoRun, At, IInv
  <2>7. PinnedUnlessPicked' /\ SuccessIsAccepted'
    BY <2>1, <2>2 DEF PinnedUnlessPicked, SuccessIsAccepted, IInv
  <2>. QED
    BY <2>2, <2>3, <2>4, <2>5, <2>6, <2>7 DEF IInv
<1>2. ASSUME NEW r \in Runs, RejectionAnswered(r), ~Close
      PROVE  IInv' /\ (page.settled # None => page'.settled # None)
  <2>1. RunFits(page, NoRun)
    BY DEF RunFits, RunType, NoRun, At, Awaits, SigningAwaits
  <2>2. Fits(r, Then(page, NoRun))
    BY <2>1, PageSound DEF Then, Fits
  <2>. QED
    BY <1>2, <2>2, Neighbours, FitsInv DEF RejectionAnswered, TypeOK, IInv
<1>. QED
  BY <1>1, <1>2 DEF CloseAfterSuccess

(***************************************************************************)
(* The theorems.                                                           *)
(***************************************************************************)
LEMMA InitInv ==
  ASSUME Init
  PROVE  IInv
<1>. USE NoneIsNoValue
<1>1. page \in Page /\ page.view = "idle" /\ page.shown = "idle" /\ page.settled = None
        /\ page.picked = None
  BY DEF Init, Page, Statuses
<1>2. \A r \in Runs : runs[r] = NoRun /\ runs[r].await = "nothing"
  BY DEF Init, NoRun, At
<1>3. TypeOK
  BY <1>1 DEF Init, TypeOK, NoRun, At, Awaits
<1>4. RunsFitRequest /\ SignOwnsSpinner /\ OneSigningRun /\ DeliversSettled
  BY <1>1, <1>2
    DEF RunsFitRequest, SignOwnsSpinner, OneSigningRun, DeliversSettled, Signing
<1>5. AcceptedIsSettled /\ CarriesPinned /\ PinnedUnlessPicked /\ SuccessIsAccepted
  BY <1>1, <1>2
    DEF Init, AcceptedIsSettled, CarriesPinned, PinnedUnlessPicked, SuccessIsAccepted,
        Awaiting, NoRun, At
<1>. QED
  BY <1>3, <1>4, <1>5 DEF IInv

\* Every step preserves the invariant, and what has settled.
LEMMA StepInv ==
  ASSUME IInv, [Next]_vars
  PROVE  IInv' /\ (page.settled # None => page'.settled # None)
<1>1. CASE UNCHANGED vars
  BY <1>1
    DEF vars, TypeOK, RunsFitRequest, SignOwnsSpinner, OneSigningRun, DeliversSettled,
        AcceptedIsSettled, CarriesPinned, PinnedUnlessPicked, SuccessIsAccepted, Signing,
        Awaiting, IInv
<1>2. ASSUME NEW r \in Runs, Continues(r)
      PROVE  IInv' /\ (page.settled # None => page'.settled # None)
  BY <1>2, ConnectAnswersInv, SignAnswersInv, PostInv, DeliveryInv, CloseInv DEF Continues
<1>3. ASSUME NEW r \in Runs, WalletActs(r)
      PROVE  IInv' /\ (page.settled # None => page'.settled # None)
  BY <1>3, PromptAnsweredInv, PromptUnsupportedInv, AccountsChangedInv DEF WalletActs
<1>. QED
  BY <1>1, <1>2, <1>3, ClicksInv, RunlessStepsInv, CloseInv DEF Next

\* The page never leaves its inductive invariant, whatever the user, the wallet
\* and the network do.
THEOREM PageInvariant == Spec => []IInv
<1>1. Init => IInv
  BY InitInv
<1>2. IInv /\ [Next]_vars => IInv'
  BY StepInv
<1>. QED
  BY <1>1, <1>2, PTL DEF Spec

\* Type correctness: in particular the script's variables never hold a value of
\* another kind than the views, accounts and flags the handlers test for.
THEOREM PageTypeOK == Spec => []TypeOK
<1>1. IInv => TypeOK
  BY DEF IInv
<1>. QED
  BY <1>1, PageInvariant, PTL

\* At most one run is on its way to a signature.
THEOREM PageSignsOnce == Spec => []OneSigningRun
<1>1. IInv => OneSigningRun
  BY DEF IInv
<1>. QED
  BY <1>1, PageInvariant, PTL

\* The result is of the pinned account unless another was picked by hand.
THEOREM PagePinHolds == Spec => []PinnedUnlessPicked
<1>1. IInv => PinnedUnlessPicked
  BY DEF IInv
<1>. QED
  BY <1>1, PageInvariant, PTL

\* Success is shown only for an accepted result.
THEOREM PageSuccessIsReal == Spec => []SuccessIsAccepted
<1>1. IInv => SuccessIsAccepted
  BY DEF IInv
<1>. QED
  BY <1>1, PageInvariant, PTL

\* A sign request whose result has settled starts no run towards a signature.
LEMMA SettledStep ==
  ASSUME IInv, [Next]_vars, request.type = "sign", page.settled # None,
         NEW r \in Runs, Signing(r)'
  PROVE  Signing(r)
<1>1. IInv' /\ page'.settled # None
  BY StepInv
<1>2. request' = request
  BY <1>1 DEF Next, vars, Continues, WalletActs, Clicks, ConnectApproved, Approved, ChainSwitched,
     KeyRead, ConnectFails, CurrentRead, Signed, SignFails, Reread, PostAccepted, PostRefused,
     Delivered, Undelivered, RejectionAnswered, PromptAnswered, PromptUnsupported,
     AccountsChanged, ClickConnect, ClickSign, ClickReject, ClickSwitch, PromptDismissed,
     WalletSwitches, ChainReady, CloseAfterSuccess, Close, EntryGone
<1>. QED
  BY <1>1, <1>2 DEF SignOwnsSpinner, IInv

\* Once the wallet has signed, no step makes the page ask it to sign again.
THEOREM PageNeverSignsAgain == Spec => NeverSignsAgain
<1>1. IInv /\ [Next]_vars =>
        [request.type = "sign" /\ page.settled # None =>
           \A r \in Runs : Signing(r)' => Signing(r)]_vars
  BY SettledStep
<1>. QED
  BY <1>1, PageInvariant, PTL DEF NeverSignsAgain, Spec

\* After Reject or Cancel an answered prompt or an account event starts no run.
LEMMA RejectStep ==
  ASSUME IInv, page.finished, NEW r \in Runs, WalletActs(r)
  PROVE  runs' = runs
<1>1. \A run : run = NoRun /\ Idle(r) => [runs EXCEPT ![r] = run] = runs
  BY DEF Idle, TypeOK, IInv
<1>2. Render(page).finished
  BY DEF Render, Page, TypeOK, IInv
<1>3. [Render(page) EXCEPT !.unsupported = TRUE].finished
  BY <1>2 DEF Render, Page, TypeOK, IInv
<1>4. CASE \E a \in Accounts : PromptAnswered(r, a)
  BY <1>1, <1>2, <1>4 DEF PromptAnswered, MaybeResume, Picked, Then, Do
<1>5. CASE \E answered \in BOOLEAN : PromptUnsupported(r, answered)
  BY <1>1, <1>3, <1>5 DEF PromptUnsupported, ConnectDespiteNoPrompt, Then, Do
<1>6. CASE AccountsChanged(r)
  BY <1>1, <1>6 DEF AccountsChanged, MaybeResume, Then, Do
<1>. QED
  BY <1>4, <1>5, <1>6 DEF WalletActs

\* A reject is final for every wallet event.
THEOREM PageRejectIsFinal == Spec => WalletRespectsReject
<1>1. IInv =>
        [page.finished /\ (\E r \in Runs : WalletActs(r)) => runs' = runs]_vars
  BY RejectStep
<1>. QED
  BY <1>1, PageInvariant, PTL DEF WalletRespectsReject

(***************************************************************************)
(* No spinner without a run.                                               *)
(***************************************************************************)

\* A run that goes on with then either works on or leaves the spinner.
Covers(then) ==
  then.page.view \in Spinners => then.run.await \notin {"nothing", "rejection", "rejection answered"}

\* A step of one run: it covers the view, or it does not touch it and did not work.
LEMMA CoversSpinner ==
  ASSUME TypeOK, SpinnerHasRun, NEW r \in Runs, NEW then, Do(r, then),
         \/ Covers(then)
         \/ ~Working(r) /\ then.page.view = page.view
  PROVE  SpinnerHasRun'
<1>1. /\ page' = then.page
      /\ runs'[r] = then.run
      /\ \A q \in Runs \ {r} : runs'[q] = runs[q]
  BY DEF Do, TypeOK
<1>. QED
  BY <1>1 DEF SpinnerHasRun, Working, Covers

\* What the operators of the page go on with.
LEMMA OperatorsCover ==
  ASSUME NEW p \in Page, NEW a
  PROVE  /\ Covers(Failed(p)) /\ Covers(Then(EnterWrongAddress(p), NoRun))
         /\ Covers(Settle(p, a)) /\ Covers(AfterChain(p, a)) /\ Covers(FinishConnect(p, a))
         /\ Covers(HandleSign(p)) /\ Covers(Sign(p, a))
<1>1. Covers(Failed(p)) /\ Covers(Then(EnterWrongAddress(p), NoRun))
  BY DEF Covers, Failed, EnterWrongAddress, Show, Then, Spinners, Page
<1>2. \A q, b : Covers(Settle(q, b)) /\ Covers(AfterChain(q, b))
  BY DEF Covers, Settle, AfterChain, Then, At
<1>3. \A q, b : Covers(FinishConnect(q, b))
  BY <1>2 DEF Covers, FinishConnect, Then, At
<1>4. \A q, b : Covers(HandleSign(q)) /\ Covers(Sign(q, b))
  BY DEF Covers, HandleSign, Sign, Then, At
<1>. QED
  BY <1>1, <1>2, <1>3, <1>4

LEMMA RunStepSpinner ==
  ASSUME TypeOK, SpinnerHasRun, NEW r \in Runs, Continues(r)
  PROVE  SpinnerHasRun'
<1>1. \A a \in Accounts \cup {None} : [page EXCEPT !.connected = a] \in Page
  BY DEF TypeOK, Page
<1>2. page \in Page
  BY DEF TypeOK
<1>3. ASSUME NEW a \in Accounts, Account(r, a) PROVE SpinnerHasRun'
  BY <1>1, <1>3, OperatorsCover, CoversSpinner DEF Account
<1>4. CASE \E a \in Accounts : ConnectApproved(r, a) \/ Approved(r, a)
  BY <1>1, <1>3, <1>4, OperatorsCover, CoversSpinner DEF ConnectApproved, Approved
<1>5. CASE ChainSwitched(r) \/ KeyRead(r) \/ ConnectFails(r) \/ Signed(r) \/ Undelivered(r)
  BY <1>2, <1>5, OperatorsCover, CoversSpinner
    DEF ChainSwitched, KeyRead, ConnectFails, Signed, Undelivered
<1>6. CASE CurrentRead(r)
  <2>1. Covers(Then(page, At("approval", None)))
    BY DEF Covers, Then, At
  <2>2. selected # None => selected \in Accounts
    BY DEF TypeOK
  <2>. QED
    BY <1>3, <1>6, <2>1, <2>2, CoversSpinner DEF CurrentRead
<1>7. CASE \E denied \in BOOLEAN : SignFails(r, denied)
  <2>1. \A denied \in BOOLEAN :
          Covers(Then(page, At(IF denied THEN "reread after denial" ELSE "reread",
                               Expected(page))))
    BY DEF Covers, Then, At
  <2>. QED
    BY <1>2, <1>7, <2>1, OperatorsCover, CoversSpinner DEF SignFails
<1>8. CASE \E a \in Accounts \cup {None} : Reread(r, a)
  BY <1>1, <1>8, OperatorsCover, CoversSpinner DEF Reread
<1>9. CASE PostAccepted(r) \/ PostRefused(r)
  <2>1. PICK await \in {"delivered", "undelivered", "rejection answered"} :
          /\ runs' = [runs EXCEPT ![r].await = await]
          /\ await = "rejection answered" => runs[r].await = "rejection"
    BY <1>9 DEF PostAccepted, PostRefused, Answer, Answers, Awaiting
  <2>2. page' = page
    BY <1>9 DEF PostAccepted, PostRefused
  <2>3. /\ runs'[r].await = await
        /\ \A q \in Runs \ {r} : runs'[q] = runs[q]
    BY <2>1 DEF TypeOK
  <2>. QED
    BY <2>1, <2>2, <2>3 DEF SpinnerHasRun, Working
<1>10. CASE Delivered(r)
  <2>1. Covers(Then([Show(page, "success") EXCEPT !.closing = TRUE], NoRun))
    BY <1>2 DEF Covers, Then, Show, Spinners, Page
  <2>. QED
    BY <1>10, <2>1, CoversSpinner DEF Delivered
<1>11. CASE RejectionAnswered(r)
  <2>1. CASE Close
    BY <1>2, <2>1 DEF Close, Show, Page, SpinnerHasRun, Spinners
  <2>2. CASE Do(r, Then(page, NoRun))
    <3>1. ~Working(r)
      BY <1>11 DEF RejectionAnswered, Awaiting, Working
    <3>. QED
      BY <2>2, <3>1, CoversSpinner DEF Then
  <2>. QED
    BY <1>11, <2>1, <2>2 DEF RejectionAnswered
<1>. QED
  BY <1>4, <1>5, <1>6, <1>7, <1>8, <1>9, <1>10, <1>11 DEF Continues

\* Clicks and wallet events start a run only in a slot where none works.
LEMMA StartStepSpinner ==
  ASSUME TypeOK, SpinnerHasRun, NEW r \in Runs, WalletActs(r) \/ Clicks(r)
  PROVE  SpinnerHasRun'
<1>1. Idle(r) => ~Working(r)
  BY DEF Idle, NoRun, At, Working
<1>2. /\ page \in Page /\ Render(page) \in Page /\ Render(page).view = page.view
      /\ [Render(page) EXCEPT !.unsupported = TRUE].view = page.view
  BY DEF TypeOK, Page, Render
<1>3. ASSUME NEW p \in Page, NEW a, p.view = page.view, Idle(r),
             \/ Do(r, MaybeResume(p, a, NoRun)) \/ Do(r, Picked(p, a))
             \/ Do(r, ConnectDespiteNoPrompt(p, NoRun))
      PROVE  SpinnerHasRun'
  <2>2. \A q, run : Then(q, run).page = q
    BY DEF Then
  <2>3. \A q, b : Covers(ConnectAs(q, b)) /\ Covers(HandleSign(q))
    BY DEF Covers, ConnectAs, FinishConnect, AfterChain, Settle, HandleSign, Then, At
  <2>4. \A q : q = [p EXCEPT !.connected = a] \/ q = [p EXCEPT !.connected = a, !.picked = a] =>
          q.view = page.view /\ Render(q).view = page.view
    BY <1>3 DEF Render, Page
  <2>5. CASE Do(r, MaybeResume(p, a, NoRun))
    <3>1. \/ Covers(MaybeResume(p, a, NoRun))
          \/ MaybeResume(p, a, NoRun).page.view = page.view
      BY <1>3, <2>2, <2>3, <2>4 DEF MaybeResume
    <3>. QED
      BY <1>1, <1>3, <2>5, <3>1, CoversSpinner
  <2>6. CASE Do(r, Picked(p, a))
    <3>1. Covers(Picked(p, a)) \/ Picked(p, a).page.view = page.view
      BY <1>3, <2>2, <2>3, <2>4 DEF Picked
    <3>. QED
      BY <1>1, <1>3, <2>6, <3>1, CoversSpinner
  <2>7. CASE Do(r, ConnectDespiteNoPrompt(p, NoRun))
    <3>1. \/ Covers(ConnectDespiteNoPrompt(p, NoRun))
          \/ ConnectDespiteNoPrompt(p, NoRun).page.view = page.view
      BY <1>3, <2>2, <2>3 DEF ConnectDespiteNoPrompt
    <3>. QED
      BY <1>1, <1>3, <2>7, <3>1, CoversSpinner
  <2>. QED
    BY <1>3, <2>5, <2>6, <2>7
<1>4. CASE \E a \in Accounts : PromptAnswered(r, a)
  BY <1>2, <1>3, <1>4 DEF PromptAnswered
<1>5. CASE \E answered \in BOOLEAN : PromptUnsupported(r, answered)
  <2>. DEFINE p == [Render(page) EXCEPT !.unsupported = TRUE]
  <2>1. p \in Page /\ p.view = page.view
    BY <1>2 DEF Page
  <2>2. Idle(r) /\ (Do(r, ConnectDespiteNoPrompt(p, NoRun)) \/ Do(r, Then(p, NoRun)))
    BY <1>5 DEF PromptUnsupported
  <2>3. Do(r, Then(p, NoRun)) => SpinnerHasRun'
    BY <1>1, <2>1, <2>2, CoversSpinner DEF Then
  <2>. QED
    BY <1>3, <2>1, <2>2, <2>3
<1>6. CASE AccountsChanged(r)
  <2>. DEFINE p == [page EXCEPT !.connected = selected,
                                !.picked = IF @ # None THEN selected ELSE None]
  <2>1. Idle(r) /\ (Do(r, MaybeResume(page, selected, NoRun)) \/ Do(r, Then(Render(p), NoRun)))
    BY <1>6 DEF AccountsChanged
  <2>2. Then(Render(p), NoRun).page.view = page.view
    BY <1>2 DEF Then, Render, Page
  <2>. QED
    BY <1>1, <1>2, <1>3, <2>1, <2>2, CoversSpinner
<1>7. CASE ClickConnect(r)
  <2>1. Covers(Then(Show(page, "connecting"), At("accounts", None)))
    BY DEF Covers, Then, At
  <2>. QED
    BY <1>7, <2>1, CoversSpinner DEF ClickConnect
<1>8. CASE ClickSign(r)
  BY <1>2, <1>8, OperatorsCover, CoversSpinner DEF ClickSign
<1>9. CASE ClickReject(r)
  <2>. DEFINE q == [page EXCEPT !.finished = TRUE, !.listening = FALSE, !.following = FALSE]
  <2>1. Then(q, At("rejection", None)).page.view = page.view
    BY <1>2 DEF Then, Page
  <2>. QED
    BY <1>1, <1>9, <2>1, CoversSpinner DEF ClickReject
<1>. QED
  BY <1>4, <1>5, <1>6, <1>7, <1>8, <1>9 DEF WalletActs, Clicks

\* The other steps leave the runs and the view, or leave every spinner.
LEMMA RunlessStepSpinner ==
  ASSUME TypeOK, SpinnerHasRun,
         \/ ClickSwitch \/ PromptDismissed \/ ChainReady \/ CloseAfterSuccess \/ EntryGone
         \/ \E a \in Accounts : WalletSwitches(a)
  PROVE  SpinnerHasRun'
<1>1. /\ page \in Page /\ Render(page).view = page.view
      /\ Show(page, "idle").view = "idle"
      /\ [Show(page, "closed") EXCEPT !.listening = FALSE, !.following = FALSE,
                                      !.closing = FALSE].view = "closed"
  BY DEF TypeOK, Page, Render, Show
<1>2. \/ runs' = runs /\ page'.view = page.view
      \/ page'.view \in {"idle", "closed"}
  BY <1>1 DEF ClickSwitch, PromptDismissed, ChainReady, CloseAfterSuccess, Close, EntryGone,
              WalletSwitches
<1>. QED
  BY <1>2 DEF SpinnerHasRun, Spinners, Working

\* Whatever interleaves, a page that shows a spinner has a run that will end it:
\* the safety half of SpinnerEnds, which adds that the run's await ends.
THEOREM PageSpinnerHasRun == Spec => []SpinnerHasRun
<1>1. Init => SpinnerHasRun
  BY DEF Init, SpinnerHasRun, Spinners
<1>2. TypeOK /\ SpinnerHasRun /\ [Next]_vars => SpinnerHasRun'
  <2>1. SpinnerHasRun /\ UNCHANGED vars => SpinnerHasRun'
    BY DEF vars, SpinnerHasRun, Working
  <2>. QED
    BY <2>1, RunStepSpinner, StartStepSpinner, RunlessStepSpinner DEF Next
<1>. QED
  BY <1>1, <1>2, PageTypeOK, PTL DEF Spec
=============================================================================
