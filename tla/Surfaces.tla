------------------------------ MODULE Surfaces ------------------------------
(***************************************************************************)
(* One process of the program and the three ways into it: the control API  *)
(* ("serve"), a command line invocation ("cli") and the typed signer of    *)
(* the library ("signer").  Each builds a request of its chain, has the    *)
(* bridge put it to a wallet, and makes a reply of what comes back.  The   *)
(* bridge is OneShotRequest, the promise module Bridge implements; the     *)
(* operations of the chains are modules EvmRequests, TronRequests and      *)
(* BtcRequests.                                                            *)
(***************************************************************************)
EXTENDS EvmRequests, TronRequests, BtcRequests

CONSTANTS
  Calls,      \* calls made to the process
  Chains,     \* the chains a process may be for
  Ways,       \* the ways in: a subset of "serve", "cli" and "signer"
  Envs,       \* of a chain: the texts of its two environment variables
  Inputs,     \* of a chain, a way in and an operation: what a caller may give
  Answers,    \* of a chain and an operation: the texts a wallet may answer
  Codes,      \* the codes a rejection may carry; None is no code
  TimedOut,   \* the outcome of a request nobody decided in time
  Cancelled   \* the outcome of a request whose sender was dropped

ASSUME ChainsAndWays ==
  Chains \subseteq {"evm", "tron", "btc"} /\ Ways \subseteq {"serve", "cli", "signer"}

Approval(t)  == [approved |-> TRUE, text |-> t]
Rejection(c) == [approved |-> FALSE, code |-> c]

AnswersTo(chain, op) ==
  {Approval(t) : t \in Answers[chain][op]} \cup {Rejection(c) : c \in Codes}

VARIABLES
  way,        \* how this process is called
  chain,      \* the chain it is for
  env,        \* its environment: texts named account and default
  process,    \* starting, up or exited
  account,    \* serve: the configured account, or None
  called,     \* of each call: the operation and what the caller gave
  request,    \* of each call: the request built from it
  reply,      \* of each call: what its caller was told
  phase, accepted, outcome   \* the bridge's promise about each request

Decided == UNION {UNION {AnswersTo(c, op) : op \in DOMAIN Answers[c]} : c \in Chains}

\* What these hold for a call that was not made, not put to a wallet, not answered.
NoCall    == [op |-> "none"]
NoRequest == [op |-> "none"]
NoReply   == [told |-> "nothing"]

Called(c)   == called[c].op # "none"
Answered(c) == reply[c].told # "nothing"
Told(c, why) == reply[c].told = why

ASSUME OutcomesDiffer == Decided \cap {TimedOut, Cancelled, None} = {}

Engine == INSTANCE OneShotRequest WITH Submissions <- Calls, Decisions <- Decided

bridge == <<phase, accepted, outcome>>
vars   == <<way, chain, env, process, account, called, request, reply, phase, accepted, outcome>>

(***************************************************************************)
(* The chains behind one interface.                                        *)
(***************************************************************************)
RequestTypes(c) ==
  IF c = "evm" THEN EvmRequest ELSE IF c = "tron" THEN TronRequest ELSE BtcRequest

Operations(c) == DOMAIN RequestTypes(c)

Commands(c) ==
  IF c = "evm" THEN EvmCommand ELSE IF c = "tron" THEN TronCommand ELSE BtcCommand

ParamTypes(c, op) == IF c = "btc" THEN BtcParams(op) ELSE RequestTypes(c)[op]

ASSUME AnswersType == \A c \in Chains : Operations(c) \subseteq DOMAIN Answers[c]

\* The typed signer's parameters are structs of typed values.
ASSUME ParamsType ==
  "signer" \in Ways => \A c \in Chains : \A op \in Operations(c) :
    \A p \in Inputs[c]["signer"][op] : WellTyped(ParamTypes(c, op), p)

\* A JSON boolean is true or false.
ASSUME BodiesType ==
  "serve" \in Ways => \A c \in Chains : \A op \in Operations(c) :
    \A body \in Inputs[c]["serve"][op] : \A f \in DOMAIN body :
      body[f].json = "bool" => body[f].b \in BOOLEAN

\* A flag that is given has a value; indexes are given as u32s.
ASSUME ArgsType ==
  "cli" \in Ways => \A c \in Chains : \A op \in Operations(c) :
    \A args \in Inputs[c]["cli"][op] : \A f \in DOMAIN args \cap DOMAIN Commands(c)[op] :
      LET T == Commands(c)[op][f].type IN
      /\ ParseFlag(T, args[f]) # None
      /\ T = "Indexes" => OfType(T, args[f])

AccountType(c) ==
  IF c = "evm" THEN "Address" ELSE IF c = "tron" THEN "TronAddress" ELSE "UncheckedAddress"

AccountField(c, op) ==
  IF c = "evm" THEN EvmAccountField(op)
  ELSE IF c = "tron" THEN TronAccountField(op) ELSE BtcAccountField(op)

FromJson(c, op, body, default) ==
  IF c = "evm" THEN EvmFromJson(op, body)
  ELSE IF c = "tron" THEN TronFromJson(op, body) ELSE BtcFromJson(op, body, default)

ExpectingOn(c, r, a) ==
  IF c = "btc" THEN BtcExpecting(r, a) ELSE Expecting(r, AccountField(c, r.op), a)

Signer(c, op, params, default) ==
  IF c = "evm" THEN EvmSigner(op, params, default)
  ELSE IF c = "tron" THEN TronSigner(op, params, default) ELSE BtcSigner(op, params, default)

Cli(c, op, args, default) ==
  IF c = "evm" THEN EvmCli(op, args, default)
  ELSE IF c = "tron" THEN TronCli(op, args, default) ELSE BtcCli(op, args, default)

\* The wallet's text as the value the typed signer returns, or Bad.
Result(c, r, t) ==
  IF c = "evm" THEN EvmResult(r, t)
  ELSE IF c = "tron" THEN TronResult(r, t) ELSE BtcResult(r, t)

\* Request::check_result: only Bitcoin has one, the others accept anything.
CheckResult(c, r, t) == c = "btc" => BtcResult(r, t) # Bad

Printed(c, op, v) ==
  IF c = "evm" THEN EvmPrint(op, v)
  ELSE IF c = "tron" THEN TronPrint(op, v) ELSE BtcPrint(op, v)

Explorer(c, r, v, default) ==
  IF c = "evm" THEN EvmExplorer(r, default)
  ELSE IF c = "tron" THEN TronExplorer(r, default) ELSE BtcExplorer(r, v)

(***************************************************************************)
(* The environment.  A default that is absent or does not parse falls back *)
(* to the built-in one; an account that does not parse is an error.        *)
(***************************************************************************)
ParsedOr(T, t, builtin) ==
  IF t = None THEN builtin ELSE IF Parse(T, t) = Bad THEN builtin ELSE Parse(T, t)

DefaultChainId(t) ==
  IF ParsedOr("ChainId", t, 1) = 0 THEN 1 ELSE ParsedOr("ChainId", t, 1)

Default(c, t) ==
  IF c = "evm" THEN DefaultChainId(t)
  ELSE ParsedOr(IF c = "tron" THEN "TronNetwork" ELSE "BtcNetwork", t, "mainnet")

\* The field a default is for.
PlaceField(c) == IF c = "evm" THEN "chainId" ELSE "network"

ConfiguredAccount(c, t) == IF t \in {None, EmptyText} THEN None ELSE Parse(AccountType(c), t)

ASSUME NoneIsNoAccount ==
  \A c \in Chains : \A e \in Envs[c] :
    e.account \notin {None, EmptyText} => Parse(AccountType(c), e.account) # None

(***************************************************************************)
(* Building a request: Refused is a call the bridge never hears of.        *)
(***************************************************************************)

\* Mutant: a request that names an account, the configured one too, is refused.
ServeRequestUnnamed(c, op, body, default, a) ==
  LET r == FromJson(c, op, body, default) IN
  IF r = Refused \/ a = None THEN r
  ELSE IF r.fields[AccountField(c, op)] # None THEN Refused ELSE ExpectingOn(c, r, a)

ServeRequest(c, op, body, default, a) ==
  LET r == FromJson(c, op, body, default) IN
  IF r = Refused \/ a = None THEN r ELSE ExpectingOn(c, r, a)

Built(op, given) ==
  LET default == Default(chain, env.default) IN
  CASE way = "serve"  -> ServeRequest(chain, op, given, default, account)
    [] way = "signer" -> Signer(chain, op, given, default)
    [] way = "cli"    -> Cli(chain, op, given, default)

(***************************************************************************)
(* Replies.  The signer returns the parsed value, the command line prints  *)
(* it (with a link, if the chain has an explorer for it), serve hands the  *)
(* wallet's text on.  A value the way in refuses is an "invalid" result.   *)
(***************************************************************************)
Success(value, link) == [told |-> "success", value |-> value, link |-> link]
Failure(why, code)   == [told |-> why, code |-> code]

Approved(c, t) ==
  LET r == request[c]
      v == Result(chain, r, t)
  IN CASE way = "serve" ->
            IF CheckResult(chain, r, t) THEN Success(t, None) ELSE Failure("invalid", None)
       [] way = "signer" -> IF v = Bad THEN Failure("invalid", None) ELSE Success(v, None)
       [] way = "cli" ->
            IF v = Bad THEN Failure("invalid", None)
            ELSE Success(Printed(chain, r.op, v),
                         Explorer(chain, r, v, Default(chain, env.default)))

ReplyTo(c, o) ==
  IF o = TimedOut THEN Failure("timeout", None)
  ELSE IF o = Cancelled THEN Failure("cancelled", None)
  ELSE IF o.approved THEN Approved(c, o.text) ELSE Failure("rejected", o.code)

\* Mutant: an invalid result counts as a rejection.
HttpStatusConflict(r) ==
  IF r.told = "success" THEN 200
  ELSE IF r.told = "refused" THEN 400
  ELSE IF r.told \in {"rejected", "timeout", "cancelled", "invalid"} THEN 409 ELSE 500

\* What serve's reply is as an HTTP status.
HttpStatus(r) ==
  IF r.told = "success" THEN 200
  ELSE IF r.told = "refused" THEN 400
  ELSE IF r.told \in {"rejected", "timeout", "cancelled"} THEN 409 ELSE 500

(***************************************************************************)
(* The process.                                                            *)
(***************************************************************************)
Init ==
  /\ way \in Ways /\ chain \in Chains /\ env \in Envs[chain]
  /\ process  = "starting"
  /\ account  = None
  /\ called   = [c \in Calls |-> NoCall]
  /\ request  = [c \in Calls |-> NoRequest]
  /\ reply    = [c \in Calls |-> NoReply]
  /\ Engine!Init

\* serve reads the account and binds before it takes calls; either may fail.
\* The other two start the bridge with their first request.
Start ==
  /\ process = "starting"
  /\ LET a == IF way = "serve" THEN ConfiguredAccount(chain, env.account) ELSE None IN
     \/ /\ a # Bad
        /\ account' = a
        /\ process' = "up"
     \/ /\ a = Bad \/ way = "serve"
        /\ process' = "exited"
        /\ UNCHANGED account
  /\ UNCHANGED <<way, chain, env, called, request, reply, bridge>>

\* A call: refused, failed for want of a bridge (serve has one), or put to a wallet.
Call(c, op, given) ==
  /\ process = "up"
  /\ ~Called(c)
  /\ called' = [called EXCEPT ![c] = [op |-> op, given |-> given]]
  /\ LET r == Built(op, given) IN
     \/ /\ r = Refused
        /\ reply' = [reply EXCEPT ![c] = Failure("refused", None)]
        /\ UNCHANGED <<request, bridge>>
     \/ /\ r # Refused /\ way # "serve"
        /\ reply' = [reply EXCEPT ![c] = Failure("unbound", None)]
        /\ UNCHANGED <<request, bridge>>
     \/ /\ r # Refused
        /\ request' = [request EXCEPT ![c] = r]
        /\ Engine!Open(c)
        /\ UNCHANGED reply
  /\ UNCHANGED <<way, chain, env, process, account>>

Shown(c) == phase[c] # "absent"

\* The approval page posts a decision; the page can post any text.
Decide(c) ==
  /\ Shown(c)
  /\ \E d \in AnswersTo(chain, request[c].op) : Engine!Accept(c, d)
  /\ UNCHANGED <<way, chain, env, process, account, called, request, reply>>

\* Mutant: the submitter hears of decisions only, never of the deadline.
ReplyNoTimeout(c) ==
  /\ Shown(c)
  /\ accepted[c] # None
  /\ \E o \in AnswersTo(chain, request[c].op) \cup {Cancelled} :
       Engine!Resolve(c, o) /\ reply' = [reply EXCEPT ![c] = ReplyTo(c, o)]
  /\ UNCHANGED <<way, chain, env, process, account, called, request>>

\* The result future resolves and the way in makes a reply of it.
Reply(c) ==
  /\ Shown(c)
  /\ \E o \in AnswersTo(chain, request[c].op) \cup {TimedOut, Cancelled} :
       Engine!Resolve(c, o) /\ reply' = [reply EXCEPT ![c] = ReplyTo(c, o)]
  /\ UNCHANGED <<way, chain, env, process, account, called, request>>

\* Mutant: the request of a caller that is gone is open again for another.
DisconnectReopens(c) ==
  /\ way # "cli"
  /\ phase[c] = "open"
  /\ phase' = [phase EXCEPT ![c] = "absent"]
  /\ UNCHANGED <<way, chain, env, process, account, called, request, reply, accepted, outcome>>

\* The caller of serve hangs up, or the caller of the signer drops its future.
Disconnect(c) ==
  /\ way # "cli"
  /\ Engine!Abandon(c)
  /\ UNCHANGED <<way, chain, env, process, account, called, request, reply>>

Next ==
  \/ Start
  \/ \E c \in Calls :
       \/ \E op \in Operations(chain) :
            \E given \in Inputs[chain][way][op] : Call(c, op, given)
       \/ Decide(c)
       \/ Reply(c)
       \/ Disconnect(c)

\* The timer of every request runs, and a resolved future is polled.
Spec == Init /\ [][Next]_vars /\ \A c \in Calls : WF_vars(Reply(c))

-----------------------------------------------------------------------------

\* A call is put to a wallet once it has a well-typed request, and ends with an answer.
TypeOK ==
  /\ way \in Ways /\ chain \in Chains /\ env \in Envs[chain]
  /\ process \in {"starting", "up", "exited"}
  /\ phase \in [Calls -> {"absent", "open", "resolved", "abandoned"}]
  /\ \A c \in Calls :
       /\ Shown(c) <=> request[c].op # "none"
       /\ Shown(c) => /\ request[c].op = called[c].op
                      /\ WellTyped(RequestTypes(chain)[request[c].op], request[c].fields)
       /\ Answered(c) <=> (phase[c] = "resolved" \/ (Called(c) /\ ~Shown(c)))

\* The account the page compares the wallet's with.
Expected(p) == IF "from" \in DOMAIN p THEN p.from ELSE p.address

\* Every request a serve process with a configured account puts to a wallet expects
\* that account, whatever the operation, the body and the account's spelling; and a
\* process whose account does not parse puts none (serve.rs configured, request).
BoundAccount ==
  way = "serve" /\ env.account \notin {None, EmptyText} =>
    \A c \in Calls : Shown(c) =>
      LET configured == Parse(AccountType(chain), env.account) IN
      configured # Bad /\ Expected(request[c].fields) = configured

\* A configured account only refuses a body that names another one (or, for Bitcoin,
\* is on another network): a second spelling of the same account is the same account.
SameAccountServed ==
  way = "serve" /\ account # None =>
    \A c \in Calls : Told(c, "refused") =>
      LET r == FromJson(chain, called[c].op, called[c].given, Default(chain, env.default)) IN
      \/ r = Refused
      \/ Expected(r.fields) \notin {None, account}
      \/ chain = "btc" /\ RequireNetwork(account, r.fields.network) = Bad

\* Every address in a Bitcoin request put to a wallet is one of the request's network,
\* wherever it came from: the body, a flag, a parameter or the environment.
OnNetwork ==
  chain = "btc" => \A c \in Calls : Shown(c) =>
    LET p == request[c].fields IN
    \A f \in DOMAIN p \cap {"to", "from", "address"} :
      p[f] # None => p.network \in ValidOn(p[f])

\* A request that names no chain or network is for the default one.  (serve leaves an EVM
\* or TRON request without one to the page, as the TRON command line leaves the three
\* that send a transaction.)
Unnamed(given) ==
  LET f == PlaceField(chain) IN f \notin DOMAIN given \/ (way = "signer" /\ given[f] = None)

UnnamedPlace(c) ==
  Shown(c) /\ Unnamed(called[c].given) =>
    request[c].fields[PlaceField(chain)] = Default(chain, env.default)

TronSends == {"send_transaction", "trigger_contract", "deploy_contract"}

UnnamedPlaceIsDefault ==
  \A c \in Calls :
    \/ UnnamedPlace(c)
    \/ way = "serve" /\ chain # "btc"
    \/ way = "cli" /\ chain = "tron" /\ request[c].op \in TronSends

\* README.md:313 and tron.rs:157: the network of a TRON command is its flag, else the
\* default from the environment.
TronPlaceIsDefault == \A c \in Calls : UnnamedPlace(c)

\* A PSBT put to a wallet lists only inputs it has; the inputs singled out for a leaf
\* script are exactly the listed ones that have one; a broadcast is of a finalized PSBT.
PsbtAsked ==
  chain = "btc" => \A c \in Calls : Shown(c) /\ request[c].op = "sign_psbt" =>
    LET p == request[c].fields
        indexes(s) == IF s = None THEN {} ELSE {s[i] : i \in DOMAIN s}
    IN /\ \A i \in indexes(p.signInputs) : i < Len(p.psbt.leaf)
       /\ indexes(p.scriptPathInputs) = {i \in indexes(p.signInputs) : p.psbt.leaf[i + 1]}
       /\ p.broadcast => p.finalize

\* What any caller is given as a signed PSBT is for the transaction it asked to have
\* signed, and so is the txid the wallet says it broadcast (signer.rs parse_signed_psbt).
SamePsbt ==
  chain = "btc" => \A c \in Calls : Told(c, "success") /\ request[c].op = "sign_psbt" =>
    LET asked == UnsignedTxid(request[c].fields.psbt)
        got == outcome[c].text
    IN /\ UnsignedTxid(ParsePsbt(FieldText(got, "psbt"))) = asked
       /\ IsText(AnswerField(got, "txid")) => ParseTxid(FieldText(got, "txid")) = asked

\* What from_json makes of the body the page is served for a request.
ReadBack(c) ==
  FromJson(chain, request[c].op, Wire(RequestTypes(chain)[request[c].op], request[c].fields),
           Default(chain, env.default))

LostOnWire == {"originEnergyLimit", "userFeePercentage"}

\* types.rs:30: from_json is the inverse of the wire serialization, for every request any
\* way in builds; but for TRON's two numbers, and an EVM command's empty creation.
WireInverse ==
  \A c \in Calls : Shown(c) =>
    \/ chain = "evm" /\ way = "cli" /\ request[c].op = "send_transaction"
       /\ ~EvmCheck(request[c].fields)
    \/ LET back == ReadBack(c) IN
       /\ back # Refused
       /\ \A f \in DOMAIN request[c].fields \ LostOnWire :
            back.fields[f] = request[c].fields[f]

\* The same, with nothing exempt.
WholeWireInverse == \A c \in Calls : Shown(c) => ReadBack(c) = request[c]

\* An EVM transaction without a recipient carries code to deploy; only a command line
\* that says --data 0x sends an empty one (EvmCli does not call check).
NothingToSend ==
  chain = "evm" => \A c \in Calls :
    Shown(c) /\ request[c].op = "send_transaction" /\ request[c].fields.to = None =>
      /\ request[c].fields.data # None
      /\ request[c].fields.data = <<>> => way = "cli" /\ "data" \in DOMAIN called[c].given

\* The value a command prints reads back as the value the wallet returned, so that one
\* command's output can be another's argument.
PrintedReadsBack ==
  way = "cli" => \A c \in Calls : Told(c, "success") =>
    Result(chain, request[c], reply[c].value) = Result(chain, request[c], outcome[c].text)

\* What the HTTP status of serve says: 400 - no wallet was asked; 200 - the wallet's
\* approved text, which its chain's checks pass; 409 - nothing approved was delivered, so
\* the user either refused or was cut off by the deadline; 500 - the wallet did approve.
HonestReply ==
  way = "serve" => \A c \in Calls : Answered(c) =>
    LET status == HttpStatus(reply[c])
        approved == accepted[c] # None /\ accepted[c].approved
    IN /\ (status = 400) <=> ~Shown(c)
       /\ status = 200 => approved /\ reply[c].value = accepted[c].text
                          /\ CheckResult(chain, request[c], reply[c].value)
       /\ status = 409 => ~approved \/ outcome[c] = TimedOut
       /\ status = 500 => approved /\ ~CheckResult(chain, request[c], accepted[c].text)

\* A caller that waits for a request put to a wallet is told something.
EventuallyTold == \A c \in Calls : phase[c] = "open" ~> (Answered(c) \/ phase[c] = "abandoned")

(***************************************************************************)
(* The inductive invariant.                                                *)
(***************************************************************************)

\* What a process is, and the account a serve process that is up has read.
ProcessAccount ==
  /\ way \in Ways /\ chain \in Chains /\ env \in Envs[chain]
  /\ process = "up" =>
       /\ account # Bad
       /\ account = IF way = "serve" THEN ConfiguredAccount(chain, env.account) ELSE None

\* A request put to a wallet is the one its call builds.
ShownIsBuilt ==
  \A c \in Calls : Shown(c) =>
    /\ process = "up" /\ called[c].op \in Operations(chain)
    /\ called[c].given \in Inputs[chain][way][called[c].op]
    /\ request[c] = Built(called[c].op, called[c].given) /\ request[c] # Refused

\* What is accepted is an answer to the request, and what its caller is told is made of an
\* outcome the bridge may give.
AnswersRequest ==
  \A c \in Calls :
    /\ phase[c] = "absent" => accepted[c] = None
    /\ accepted[c] # None => accepted[c] \in AnswersTo(chain, request[c].op)
    /\ phase[c] = "resolved" =>
         /\ reply[c] = ReplyTo(c, outcome[c])
         /\ \/ accepted[c] # None /\ outcome[c] = accepted[c]
            \/ accepted[c] = None /\ outcome[c] = Cancelled
            \/ outcome[c] = TimedOut

\* A caller told something has its outcome, or was refused before the bridge saw it.
ToldAtEnd ==
  \A c \in Calls : Answered(c) =>
    /\ Called(c)
    /\ \/ phase[c] = "resolved"
       \/ phase[c] = "absent" /\ (Told(c, "refused") \/ (Told(c, "unbound") /\ way # "serve"))

Functions ==
  /\ called = [c \in Calls |-> called[c]] /\ request = [c \in Calls |-> request[c]]
  /\ reply = [c \in Calls |-> reply[c]] /\ accepted = [c \in Calls |-> accepted[c]]
  /\ outcome = [c \in Calls |-> outcome[c]] /\ phase = [c \in Calls |-> phase[c]]

\* Only a call that builds no request is refused.
RefusedBuildsNone ==
  \A c \in Calls : Told(c, "refused") =>
    /\ process = "up" /\ called[c].op \in Operations(chain)
    /\ called[c].given \in Inputs[chain][way][called[c].op]
    /\ Built(called[c].op, called[c].given) = Refused

\* A call that was made is put to a wallet or answered, and nothing else happens to it.
Progress ==
  /\ process \in {"starting", "up", "exited"}
  /\ \A c \in Calls :
       /\ phase[c] \in {"absent", "open", "resolved", "abandoned"}
       /\ phase[c] = "absent" => request[c] = NoRequest
       /\ phase[c] = "absent" /\ Called(c) => Answered(c)
       /\ phase[c] = "resolved" => Answered(c)

IInv ==
  /\ ProcessAccount /\ ShownIsBuilt /\ AnswersRequest /\ ToldAtEnd /\ RefusedBuildsNone
  /\ Progress /\ Functions
=============================================================================
