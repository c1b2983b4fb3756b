--------------------------- MODULE ApprovalPage ---------------------------
(***************************************************************************)
(* The approval page's state machine (app-core.js), with the wallet and    *)
(* the bridge it talks to.  JavaScript runs one continuation at a time: a  *)
(* step is what the page does from a click, a wallet event or the end of   *)
(* one await up to the next await.  A run is one asynchronous call in      *)
(* flight; clicks and wallet events can start another while it waits.      *)
(* Runs is the bound on how many may be in flight together.                *)
(***************************************************************************)
CONSTANTS
  Runs,      \* slots for asynchronous calls in flight
  Accounts,  \* accounts of the wallet
  Requests,  \* requests the page may be opened for: type and pinned account
  Adapters,  \* chain adapters the page may carry: what each one provides
  None       \* no account ("" in the page)

\* What the page can post: a result of an account, or a rejection.
Decisions == [kind : {"result", "rejected"}, account : Accounts \cup {None}]

ASSUME NoneIsNoValue == None \notin Accounts /\ None \notin Decisions

ASSUME RequestsType ==
  Requests \subseteq [type : {"connect", "sign"}, pinned : Accounts \cup {None}]

\* native: walletHandlesMismatch; prompt: requestAccountChange; chain: onConnected;
\* key: connectResult; events: onAccountsChanged and onChainReady do something.
ASSUME AdaptersType ==
  Adapters \subseteq [native : BOOLEAN, prompt : BOOLEAN, chain : BOOLEAN,
                      key : BOOLEAN, events : BOOLEAN]

VARIABLES
  request,   \* the request fetched when the page loaded
  adapter,   \* the adapter of the page
  page,      \* the script's state variables
  runs,      \* what each asynchronous call awaits
  prompt,    \* the account prompt in flight (changingAccount), and what opened it
  selected,  \* the account the wallet has selected for this page
  bridge     \* the request's entry on the bridge, and the decision accepted for it

vars == <<request, adapter, page, runs, prompt, selected, bridge>>

Statuses == {"idle", "connecting", "switching", "signing", "wrong_address", "success",
             "error", "closed"}

Page ==
  [view : Statuses, shown : Statuses, connected : Accounts \cup {None},
   picked : Accounts \cup {None}, settled : Accounts \cup {None},
   finished : BOOLEAN, listening : BOOLEAN, following : BOOLEAN,
   unsupported : BOOLEAN, closing : BOOLEAN]

\* What a run awaits, and the account it carries across the await.
Awaits == {"nothing", "accounts", "chain", "key", "current", "approval", "signature",
           "reread", "reread after denial", "delivery", "delivered", "undelivered",
           "rejection", "rejection answered"}
At(await, account) == [await |-> await, account |-> account]
NoRun == At("nothing", None)

\* A continuation's effect: the page's variables and what the run awaits next.
Then(p, run) == [page |-> p, run |-> run]

Idle(r) == runs[r] = NoRun

Awaiting(r, await) == runs[r].await = await

Do(r, then) ==
  /\ page' = then.page
  /\ runs' = [runs EXCEPT ![r] = then.run]

(***************************************************************************)
(* Parts of the page's functions that run without an await.                *)
(***************************************************************************)
Expected(p) == IF p.picked # None THEN p.picked ELSE request.pinned

Matches(a, p) == Expected(p) \in {None, a}

\* render(): the buttons follow the view last rendered, not the view.
Show(p, view) == [p EXCEPT !.view = view, !.shown = view]

Render(p) == [p EXCEPT !.shown = p.view]

\* Mutant: the run ends without showing its error.
FailedSilently(p) == Then(p, NoRun)

Failed(p) == Then(Show(p, "error"), NoRun)

\* Mutant: what the adapter returned has no field "settled".
SettleUndefined(p, result) ==
  Then([p EXCEPT !.settled = "undefined"], At("delivery", result))

\* Settle, then deliver.
Settle(p, result) == Then([p EXCEPT !.settled = result], At("delivery", result))

AfterChain(p, a) ==
  LET q == [p EXCEPT !.listening = FALSE] IN
  IF adapter.key THEN Then(q, At("key", a)) ELSE Settle(q, a)

FinishConnect(p, a) ==
  IF adapter.chain
  THEN Then(Show([p EXCEPT !.connected = a], "switching"), At("chain", a))
  ELSE AfterChain([p EXCEPT !.connected = a], a)

ConnectAs(p, a) == FinishConnect([p EXCEPT !.view = "connecting"], a)

\* Mutant: a click after a failed delivery signs again.
HandleSignAgain(p) == Then(Show(p, "connecting"), At("current", None))

\* handleSignTx and handleSignMsg: a settled result is only delivered again.
HandleSign(p) ==
  IF p.settled # None
  THEN Then(p, At("delivery", p.settled))
  ELSE Then(Show(p, "connecting"), At("current", None))

EnterWrongAddress(p) ==
  [Show(p, "wrong_address") EXCEPT !.listening = Expected(p) # None]

CanPrompt(p) == adapter.prompt /\ ~p.unsupported /\ prompt = "none" /\ ~p.finished

\* promptAccountChange opens the wallet's prompt, unless one is open already.
PromptFrom(p) == IF CanPrompt(p) THEN "change" ELSE prompt

\* The account is known: sign with the expected one, or stop at the gate.
AtGate(p, a) == ~adapter.native /\ ~Matches(a, p)

Sign(p, a) ==
  Then(Show([p EXCEPT !.connected = a], "signing"),
       At("signature", IF Expected(p) # None THEN Expected(p) ELSE a))

Account(r, a) ==
  LET p == [page EXCEPT !.connected = a] IN
  IF AtGate(p, a)
  THEN Do(r, Then(EnterWrongAddress(p), NoRun)) /\ prompt' = PromptFrom(p)
  ELSE Do(r, Sign(p, a)) /\ UNCHANGED prompt

\* Mutant: without the guard on the view.
MaybeResumeInAnyView(p, a, run) ==
  IF p.finished THEN Then(p, run)
  ELSE IF ~Matches(a, p) THEN Then(Render([p EXCEPT !.connected = a]), run)
  ELSE LET q == [p EXCEPT !.connected = a, !.view = "connecting", !.listening = FALSE] IN
       IF request.type = "connect" THEN ConnectAs(q, a) ELSE HandleSign(q)

\* Mutant: without the guard on finished.
MaybeResumeAfterReject(p, a, run) ==
  IF p.view # "wrong_address" THEN Then(p, run)
  ELSE IF ~Matches(a, p) THEN Then(Render([p EXCEPT !.connected = a]), run)
  ELSE LET q == [p EXCEPT !.connected = a, !.view = "connecting", !.listening = FALSE] IN
       IF request.type = "connect" THEN ConnectAs(q, a) ELSE HandleSign(q)

MaybeResume(p, a, run) ==
  IF p.finished \/ p.view # "wrong_address" THEN Then(p, run)
  ELSE IF ~Matches(a, p) THEN Then(Render([p EXCEPT !.connected = a]), run)
  ELSE LET q == [p EXCEPT !.connected = a, !.view = "connecting", !.listening = FALSE] IN
       IF request.type = "connect" THEN ConnectAs(q, a) ELSE HandleSign(q)

ConnectDespiteNoPrompt(p, run) ==
  IF adapter.native /\ request.type = "connect" /\ p.view = "wrong_address" /\ ~p.finished
  THEN ConnectAs([p EXCEPT !.listening = FALSE], Expected(p))
  ELSE Then(p, run)

(***************************************************************************)
(* Clicks.  A button is there, and enabled, in the views named.            *)
(***************************************************************************)
ClickConnect(r) ==
  /\ Idle(r)
  /\ request.type = "connect"
  /\ page.shown \in {"idle", "error", "wrong_address"}
  /\ Do(r, Then(Show(page, "connecting"), At("accounts", None)))
  /\ UNCHANGED <<request, adapter, prompt, selected, bridge>>

\* Sign, or Change Account in the wrong-address view.
ClickSign(r) ==
  /\ Idle(r)
  /\ request.type = "sign"
  /\ \/ page.shown \in {"idle", "error"}
     \/ page.shown = "wrong_address" /\ adapter.prompt /\ ~page.unsupported /\ prompt = "none"
  /\ Do(r, HandleSign(page))
  /\ UNCHANGED <<request, adapter, prompt, selected, bridge>>

ClickSwitch ==
  /\ CanPrompt(page)
  /\ page.connected # None
  /\ IF request.type = "connect"
     THEN request.pinned = None /\ page.shown = "idle"
     ELSE page.shown \in {"idle", "error"}
  /\ prompt' = "pick"
  /\ page' = Render(page)
  /\ UNCHANGED <<request, adapter, runs, selected, bridge>>

\* Reject or Cancel.
ClickReject(r) ==
  /\ Idle(r)
  /\ page.shown \notin {"success", "closed"}
  /\ Do(r, Then([page EXCEPT !.finished = TRUE, !.listening = FALSE, !.following = FALSE],
                At("rejection", None)))
  /\ UNCHANGED <<request, adapter, prompt, selected, bridge>>

(***************************************************************************)
(* The wallet answers, and the page goes on.                               *)
(***************************************************************************)

\* Mutant: the account is not compared with the pinned one.
ConnectApprovedUnchecked(r, a) ==
  /\ Awaiting(r, "accounts")
  /\ selected' = a
  /\ Do(r, FinishConnect([page EXCEPT !.connected = a], a))
  /\ UNCHANGED <<request, adapter, prompt, bridge>>

\* eth_requestAccounts of a connect request: the user approved account a.
ConnectApproved(r, a) ==
  LET p == [page EXCEPT !.connected = a] IN
  /\ Awaiting(r, "accounts")
  /\ selected' = a
  /\ IF request.pinned \in {None, a}
     THEN Do(r, FinishConnect(p, a)) /\ UNCHANGED prompt
     ELSE Do(r, Then(EnterWrongAddress(p), NoRun)) /\ prompt' = PromptFrom(p)
  /\ UNCHANGED <<request, adapter, bridge>>

\* The wallet moved to the request's chain, or there was nothing to move.
ChainSwitched(r) ==
  /\ Awaiting(r, "chain")
  /\ Do(r, AfterChain(page, runs[r].account))
  /\ UNCHANGED <<request, adapter, prompt, selected, bridge>>

KeyRead(r) ==
  /\ Awaiting(r, "key")
  /\ Do(r, Settle(page, runs[r].account))
  /\ UNCHANGED <<request, adapter, prompt, selected, bridge>>

\* The wallet refused, or failed, one of a connect request's calls.
ConnectFails(r) ==
  /\ runs[r].await \in {"accounts", "chain", "key"}
  /\ Do(r, Failed(page))
  /\ UNCHANGED <<request, adapter, prompt, selected, bridge>>

\* currentAddress: without a selected account the wallet is asked for one.
CurrentRead(r) ==
  /\ Awaiting(r, "current")
  /\ IF selected = None
     THEN Do(r, Then(page, At("approval", None))) /\ UNCHANGED prompt
     ELSE Account(r, selected)
  /\ UNCHANGED <<request, adapter, selected, bridge>>

Approved(r, a) ==
  /\ Awaiting(r, "approval")
  /\ selected' = a
  /\ Account(r, a)
  /\ UNCHANGED <<request, adapter, bridge>>

\* A wallet that handles mismatches signs as the account it is asked for,
\* selecting it if it likes; any other signs as the account it has selected.
Signed(r) ==
  LET asked == runs[r].account
      signer == IF adapter.native \/ selected = None THEN asked ELSE selected
  IN
  /\ Awaiting(r, "signature")
  /\ selected' \in {selected, signer}
  /\ Do(r, Settle(page, signer))
  /\ UNCHANGED <<request, adapter, prompt, bridge>>

\* A call of a sign request failed: denied (code 4001) or otherwise.  The error
\* is shown at once, or after the selected account has been read again.
SignFails(r, denied) ==
  /\ runs[r].await \in {"current", "approval", "signature"}
  /\ IF Expected(page) = None
     THEN Do(r, Failed(page))
     ELSE Do(r, Then(page, At(IF denied THEN "reread after denial" ELSE "reread",
                              Expected(page))))
  /\ UNCHANGED <<request, adapter, prompt, selected, bridge>>

\* The failure was the account mismatch if the account still differs from the
\* one expected before the read.  The read itself may fail: a keeps its value.
Reread(r, a) ==
  LET p == [page EXCEPT !.connected = a] IN
  /\ runs[r].await \in {"reread", "reread after denial"}
  /\ a \in {page.connected, IF selected = None THEN page.connected ELSE selected}
  /\ IF a = runs[r].account
     THEN Do(r, Failed(p)) /\ UNCHANGED prompt
     ELSE /\ Do(r, Then(EnterWrongAddress(p), NoRun))
          /\ prompt' = IF Awaiting(r, "reread") THEN PromptFrom(p) ELSE prompt
  /\ UNCHANGED <<request, adapter, selected, bridge>>

(***************************************************************************)
(* Account prompts and wallet events.                                      *)
(***************************************************************************)

\* switchAccount goes on with the account the user picked.
Picked(p, a) ==
  IF p.finished THEN Then(p, NoRun)
  ELSE IF request.type = "connect" THEN ConnectAs([p EXCEPT !.connected = a], a)
  ELSE Then([p EXCEPT !.connected = a, !.picked = a], NoRun)

PromptAnswered(r, a) ==
  /\ Idle(r)
  /\ prompt # "none"
  /\ prompt' = "none"
  /\ selected' \in {selected, a}
  /\ Do(r, IF prompt = "change" THEN MaybeResume(Render(page), a, NoRun)
                               ELSE Picked(Render(page), a))
  /\ UNCHANGED <<request, adapter, bridge>>

\* Nothing was picked, or the prompt failed, maybe after revoking the permission.
PromptDismissed ==
  /\ prompt # "none"
  /\ prompt' = "none"
  /\ selected' \in {selected, None}
  /\ page' = Render(page)
  /\ UNCHANGED <<request, adapter, runs, bridge>>

\* The wallet has no such prompt: it says so (null), or does not know the method.
PromptUnsupported(r, answered) ==
  LET p == [Render(page) EXCEPT !.unsupported = TRUE] IN
  /\ Idle(r)
  /\ prompt # "none"
  /\ prompt' = "none"
  /\ Do(r, IF answered /\ prompt = "change" THEN ConnectDespiteNoPrompt(p, NoRun)
                                          ELSE Then(p, NoRun))
  /\ UNCHANGED <<request, adapter, selected, bridge>>

WalletSwitches(a) ==
  /\ selected # a
  /\ selected' = a
  /\ UNCHANGED <<request, adapter, page, runs, prompt, bridge>>

\* The account the wallet reports; it may report one again.
AccountsChanged(r) ==
  LET p == [page EXCEPT !.connected = selected,
                        !.picked = IF @ # None THEN selected ELSE None]
  IN
  /\ Idle(r)
  /\ adapter.events
  /\ selected # None
  /\ IF page.view = "wrong_address"
     THEN page.listening /\ Do(r, MaybeResume(page, selected, NoRun))
     ELSE /\ page.following /\ ~page.finished /\ page.settled = None
          /\ Do(r, Then(Render(p), NoRun))
  /\ UNCHANGED <<request, adapter, prompt, selected, bridge>>

\* clearStaleError: the wallet reached the request's chain.
ChainReady ==
  /\ adapter.events
  /\ page.view = "error"
  /\ ~page.finished
  /\ page' = Show(page, "idle")
  /\ UNCHANGED <<request, adapter, runs, prompt, selected, bridge>>

(***************************************************************************)
(* POST /api/complete, and the end of the page.                            *)
(***************************************************************************)
Decided(r) ==
  [kind |-> IF Awaiting(r, "delivery") THEN "result" ELSE "rejected",
   account |-> runs[r].account]

Answers(r, accepted) ==
  IF Awaiting(r, "rejection") THEN {"rejection answered"}
  ELSE IF accepted THEN {"delivered", "undelivered"} ELSE {"undelivered"}

Answer(r, accepted) ==
  \E await \in Answers(r, accepted) : runs' = [runs EXCEPT ![r].await = await]

\* The bridge accepts the decision; its response may be lost.
PostAccepted(r) ==
  /\ runs[r].await \in {"delivery", "rejection"}
  /\ bridge.open
  /\ bridge' = [open |-> FALSE, accepted |-> Decided(r)]
  /\ Answer(r, TRUE)
  /\ UNCHANGED <<request, adapter, page, prompt, selected>>

\* The bridge no longer has the request, or the POST does not reach it.
PostRefused(r) ==
  /\ runs[r].await \in {"delivery", "rejection"}
  /\ Answer(r, FALSE)
  /\ UNCHANGED <<request, adapter, page, prompt, selected, bridge>>

Delivered(r) ==
  /\ Awaiting(r, "delivered")
  /\ Do(r, Then([Show(page, "success") EXCEPT !.closing = TRUE], NoRun))
  /\ UNCHANGED <<request, adapter, prompt, selected, bridge>>

\* Mutant: a failed delivery is swallowed.
UndeliveredIsFine(r) ==
  /\ Awaiting(r, "undelivered")
  /\ Do(r, Then([Show(page, "success") EXCEPT !.closing = TRUE], NoRun))
  /\ UNCHANGED <<request, adapter, prompt, selected, bridge>>

Undelivered(r) ==
  /\ Awaiting(r, "undelivered")
  /\ Do(r, Failed(page))
  /\ UNCHANGED <<request, adapter, prompt, selected, bridge>>

\* The window closes and the script ends with everything it awaited.
Close ==
  /\ page' = [Show(page, "closed") EXCEPT !.listening = FALSE, !.following = FALSE,
                                          !.closing = FALSE]
  /\ runs' = [r \in Runs |-> NoRun]
  /\ prompt' = "none"
  /\ UNCHANGED <<request, adapter, selected, bridge>>

\* window.close() after a rejection; a browser may refuse it.
RejectionAnswered(r) ==
  /\ Awaiting(r, "rejection answered")
  /\ \/ Close
     \/ Do(r, Then(page, NoRun)) /\ UNCHANGED <<request, adapter, prompt, selected, bridge>>

CloseAfterSuccess == page.closing /\ Close

\* The request timed out, another page completed it, or the process exited.
EntryGone ==
  /\ bridge.open
  /\ bridge' = [bridge EXCEPT !.open = FALSE]
  /\ UNCHANGED <<request, adapter, page, runs, prompt, selected>>

(***************************************************************************)
(* The specification.                                                      *)
(***************************************************************************)
Init ==
  /\ request \in Requests
  /\ adapter \in Adapters
  /\ selected \in Accounts \cup {None}
  /\ page = [view |-> "idle", shown |-> "idle", connected |-> selected, picked |-> None,
             settled |-> None, finished |-> FALSE, listening |-> FALSE,
             following |-> TRUE, unsupported |-> FALSE, closing |-> FALSE]
  /\ runs = [r \in Runs |-> NoRun]
  /\ prompt = "none"
  /\ bridge = [open |-> TRUE, accepted |-> None]

\* What ends a run's await.
Continues(r) ==
  \/ \E a \in Accounts : ConnectApproved(r, a) \/ Approved(r, a)
  \/ ChainSwitched(r) \/ KeyRead(r) \/ ConnectFails(r)
  \/ CurrentRead(r) \/ Signed(r)
  \/ \E denied \in BOOLEAN : SignFails(r, denied)
  \/ \E a \in Accounts \cup {None} : Reread(r, a)
  \/ PostAccepted(r) \/ PostRefused(r)
  \/ Delivered(r) \/ Undelivered(r) \/ RejectionAnswered(r)

\* What the wallet does that no run awaits; it may make the page start run r.
WalletActs(r) ==
  \/ \E a \in Accounts : PromptAnswered(r, a)
  \/ \E answered \in BOOLEAN : PromptUnsupported(r, answered)
  \/ AccountsChanged(r)

Clicks(r) == ClickConnect(r) \/ ClickSign(r) \/ ClickReject(r)

Next ==
  \/ \E r \in Runs : Continues(r) \/ WalletActs(r) \/ Clicks(r)
  \/ ClickSwitch
  \/ PromptDismissed
  \/ \E a \in Accounts : WalletSwitches(a)
  \/ ChainReady
  \/ CloseAfterSuccess
  \/ EntryGone

Spec == Init /\ [][Next]_vars

\* The wallet answers what a run asks it, and a POST is answered or fails.
\* Nobody has to click, answer an account prompt or switch accounts.
FairSpec == Spec /\ \A r \in Runs : WF_vars(Continues(r))

(***************************************************************************)
(* Properties.                                                             *)
(***************************************************************************)

\* Type invariant.
TypeOK ==
  /\ request \in Requests
  /\ adapter \in Adapters
  /\ page \in Page
  /\ runs \in [Runs -> [await : Awaits, account : Accounts \cup {None}]]
  /\ prompt \in {"none", "change", "pick"}
  /\ selected \in Accounts \cup {None}
  /\ bridge \in [open : BOOLEAN, accepted : Decisions \cup {None}]

Signing(r) ==
  runs[r].await \in {"current", "approval", "signature", "reread", "reread after denial"}

\* However clicks, an account event and the end of an account prompt interleave,
\* at most one run is on its way to the wallet's signature (ADR 0005: one
\* approval that fires both resumes the request once).
OneSigningRun ==
  \A r, q \in Runs : Signing(r) /\ Signing(q) => r = q

\* Once the wallet has signed, no failed delivery, click or wallet event makes
\* the page ask it to sign again (app-core.js, on settledResult).
NeverSignsAgain ==
  [][request.type = "sign" /\ page.settled # None =>
       \A r \in Runs : Signing(r)' => Signing(r)]_vars

\* The result of a request that pins an account is of that account, unless the
\* user picked another by hand.  A gated adapter's wallet signs with whatever
\* is selected by then, so this is claimed of its connect requests only.
PinnedUnlessPicked ==
  (request.type = "connect" \/ adapter.native) /\ request.pinned # None
    /\ page.settled # None /\ page.picked = None
      => page.settled = request.pinned

\* A page that shows success for a signature has had that very result accepted,
\* and no rejection: not after a reject, a lost response or a second delivery.
SuccessIsAccepted ==
  page.view = "success" =>
    /\ bridge.accepted # None
    /\ bridge.accepted.kind = "result"
    /\ request.type = "sign" => bridge.accepted.account = page.settled

\* After Reject or Cancel nothing the wallet does starts the request again.
WalletRespectsReject ==
  [][page.finished /\ (\E r \in Runs : WalletActs(r)) => runs' = runs]_vars

\* A page that shows a spinner gets out of it, if the wallet and the network
\* answer: no interleaving leaves it without a run that ends the spinner.
SpinnerEnds ==
  page.view \in {"connecting", "switching", "signing"} ~>
    page.view \in {"idle", "wrong_address", "success", "error", "closed"}

\* app-core.js:185 says a late approval of the wallet's prompt does not resume a
\* request whose rejection was delivered.  It does: the run asks for the signature.
LateApprovalNeverSigns ==
  [][bridge.accepted # None /\ bridge.accepted.kind = "rejected" =>
       \A r \in Runs :
         Awaiting(r, "approval") => runs'[r].await # "signature"]_vars

\* app-core.js:426 says that once a connect has settled a delivery failure
\* retries the POST and not the connect.  The button asks the wallet again.
ConnectRetriesDelivery ==
  [][page.settled # None =>
       \A r \in Runs : Awaiting(r, "accounts")' => Awaiting(r, "accounts")]_vars

\* app-core.js:305 says the wrong-address view is for a wallet whose account
\* still differs from the expected one.  The expected account may have been
\* picked meanwhile, and is then the one shown as wrong.
WrongViewIsGenuine ==
  page.view = "wrong_address" => page.connected # Expected(page)

(***************************************************************************)
(* The inductive invariant behind the properties: what the runs in flight  *)
(* say about the page.                                                     *)
(***************************************************************************)

\* A request has runs of its own type only, and waits in the wrong-address view
\* of a connect request only for the account it pins.
RunsFitRequest ==
  /\ request.type = "connect" =>
       /\ \A r \in Runs : ~Signing(r)
       /\ page.picked = None
       /\ page.view = "wrong_address" => request.pinned # None
  /\ request.type = "sign" =>
       \A r \in Runs : runs[r].await \notin {"accounts", "chain", "key"}

\* The run of a sign request owns the spinner, before anything has settled.
SignOwnsSpinner ==
  request.type = "sign" =>
    /\ page.shown = page.view
    /\ page.settled # None => page.view # "wrong_address"
    /\ \A r \in Runs :
         Signing(r) => page.view \in {"connecting", "signing"} /\ page.settled = None

\* What is delivered has settled.
DeliversSettled ==
  \A r \in Runs :
    runs[r].await \in {"delivery", "delivered", "undelivered"} =>
      /\ runs[r].account # None
      /\ page.settled # None
      /\ request.type = "sign" => runs[r].account = page.settled

\* A closed entry is what accepts nothing more, and a result it accepted is the
\* settled one of a sign request.
AcceptedIsSettled ==
  /\ bridge.accepted # None => ~bridge.open
  /\ bridge.accepted # None /\ bridge.accepted.kind = "result" =>
       /\ page.settled # None
       /\ request.type = "sign" => bridge.accepted.account = page.settled
  /\ \A r \in Runs :
       Awaiting(r, "delivered") =>
         bridge.accepted # None /\ bridge.accepted.kind = "result"

\* The account a run carries to the wallet or to the result is the pinned one.
CarriesPinned ==
  /\ \A r \in Runs :
       /\ runs[r].await \in {"chain", "key", "signature"} => runs[r].account # None
       /\ runs[r].await \in {"chain", "key"} => request.pinned \in {None, runs[r].account}
       /\ Awaiting(r, "signature") /\ page.picked = None =>
            request.pinned \in {None, runs[r].account}
  /\ prompt = "pick" => request.type = "sign" \/ request.pinned = None

IInv ==
  /\ TypeOK
  /\ RunsFitRequest
  /\ SignOwnsSpinner
  /\ OneSigningRun
  /\ DeliversSettled
  /\ AcceptedIsSettled
  /\ CarriesPinned
  /\ PinnedUnlessPicked
  /\ SuccessIsAccepted

(***************************************************************************)
(* What SpinnerEnds needs of safety.                                       *)
(***************************************************************************)
Spinners == {"connecting", "switching", "signing"}

\* Run r has still to settle, show or ask something of the request itself.
Working(r) == runs[r].await \notin {"nothing", "rejection", "rejection answered"}

\* A page that shows a spinner, whose buttons are disabled, has a run whose await will end
\* it: whatever prompts, events and failures cross it, no spinner is left that only a
\* wallet event could change (app-core.js, setView).
SpinnerHasRun == page.view \in Spinners => \E r \in Runs : Working(r)
=============================================================================
