--------------------------- MODULE SurfacesProofs ---------------------------
(***************************************************************************)
(* Machine-checked proofs about Surfaces, for every set of calls, inputs,  *)
(* environments and answers: that its replies are honest, which account,   *)
(* network and PSBT a request is about, and that what is written for the   *)
(* page or printed for the user reads back as what it was.                 *)
(***************************************************************************)
EXTENDS RequestsProofs

(***************************************************************************)
(* The process: the inductive invariant.                                   *)
(***************************************************************************)

\* What a call builds depends on the process only.
LEMMA BuiltSame ==
  ASSUME UNCHANGED <<way, chain, env, account>>, NEW op, NEW given
  PROVE  Built(op, given)' = Built(op, given)
BY DEF Built

\* What a caller is told depends on the process and its request only.
LEMMA ReplyToSame ==
  ASSUME UNCHANGED <<way, chain, env>>, NEW c, request'[c] = request[c], NEW o
  PROVE  ReplyTo(c, o)' = ReplyTo(c, o)
BY DEF ReplyTo, Approved

\* The account a process has read is a well-typed value of its chain.
LEMMA AccountTyped ==
  ASSUME IInv, process = "up"
  PROVE  /\ account # Bad
         /\ account = None \/ OfType(AccountType(chain), account)
<1>1. /\ chain \in {"evm", "tron", "btc"} /\ account # Bad
      /\ account = IF way = "serve" THEN ConfiguredAccount(chain, env.account) ELSE None
  BY ChainsAndWays DEF IInv, ProcessAccount
<1>2. AccountType(chain) \in ParsedTypes
  BY <1>1 DEF AccountType, ParsedTypes, SpelledTypes
<1>3. CASE account # None
  <2>1. account = Parse(AccountType(chain), env.account)
    BY <1>1, <1>3 DEF ConfiguredAccount
  <2>. QED
    BY <1>1, <1>2, <2>1, ParseOfType
<1>. QED
  BY <1>1, <1>3

\* What is put to a wallet is a sound request of the operation that was called.
LEMMA ShownSound ==
  ASSUME IInv, NEW c \in Calls, Shown(c)
  PROVE  /\ Sound(chain, called[c].op, request[c])
         /\ request[c].op = called[c].op /\ called[c].op \in Operations(chain)
<1>1. /\ process = "up" /\ called[c].op \in Operations(chain)
      /\ called[c].given \in Inputs[chain][way][called[c].op]
      /\ request[c] = Built(called[c].op, called[c].given) /\ request[c] # Refused
      /\ chain \in Chains /\ way \in Ways
  BY DEF IInv, ShownIsBuilt, ProcessAccount
<1>2. Sound(chain, called[c].op, request[c])
  BY <1>1, AccountTyped, BuiltSound
<1>. QED
  BY <1>1, <1>2 DEF Sound

\* No operation has the name that stands for none.
LEMMA OperationsNamed ==
  ASSUME NEW c \in {"evm", "tron", "btc"}
  PROVE  "none" \notin Operations(c)
BY DEF Operations, RequestTypes, EvmRequest, TronRequest, BtcRequest

\* Whatever an outcome, its caller is told something, and not that it was refused.
LEMMA ReplyTold ==
  ASSUME way \in Ways, NEW c, NEW o
  PROVE  ReplyTo(c, o).told \notin {"nothing", "refused"}
<1>1. way \in {"serve", "cli", "signer"}
  BY ChainsAndWays
<1>2. ASSUME NEW t PROVE Approved(c, t).told \in {"success", "invalid"}
  BY <1>1 DEF Approved, Success, Failure
<1>. QED
  BY <1>2 DEF ReplyTo, Failure

\* What a wallet may answer to a request that was built is a decision of the bridge.
LEMMA AnswersAreDecisions ==
  ASSUME IInv, NEW c \in Calls, Shown(c)
  PROVE  AnswersTo(chain, request[c].op) \subseteq Decided
<1>1. request[c].op \in Operations(chain) /\ chain \in Chains
  BY ShownSound DEF IInv, ShownIsBuilt, ProcessAccount
<1>2. request[c].op \in DOMAIN Answers[chain]
  BY <1>1, AnswersType
<1>. QED
  BY <1>1, <1>2 DEF Decided

\* No process has been called when it starts.
LEMMA InitInv == Init => IInv
BY DEF Init, Engine!Init, IInv, ProcessAccount, ShownIsBuilt, AnswersRequest, ToldAtEnd,
       RefusedBuildsNone, Progress, Functions, Shown, Told, Called, Answered, NoCall,
       NoReply

\* Reading the configuration precedes every request.
LEMMA StartInv ==
  ASSUME IInv, Start
  PROVE  IInv'
<1>1. \A c \in Calls : phase[c] = "absent"
  BY DEF Start, IInv, ShownIsBuilt, Shown
<1>2. UNCHANGED <<way, chain, env, called, request, reply, phase, accepted, outcome>>
  BY DEF Start, bridge
<1>3. ProcessAccount'
  BY <1>2 DEF Start, IInv, ProcessAccount
<1>4. ShownIsBuilt' /\ AnswersRequest'
  BY <1>1, <1>2 DEF IInv, ShownIsBuilt, AnswersRequest, Shown
<1>5. ToldAtEnd' /\ Functions'
  BY <1>2 DEF IInv, ToldAtEnd, Functions, Told, Answered, Called
<1>6. RefusedBuildsNone' /\ Progress'
  BY <1>2 DEF Start, IInv, RefusedBuildsNone, Progress, Told, Answered, Called
<1>. QED
  BY <1>3, <1>4, <1>5, <1>6 DEF IInv

\* A call concerns itself only; it is refused, or what it builds is shown.
LEMMA CallInv ==
  ASSUME IInv, NEW c \in Calls, NEW op \in Operations(chain),
         NEW given \in Inputs[chain][way][op], Call(c, op, given)
  PROVE  IInv'
<1>. DEFINE r == Built(op, given)
<1>. USE DEF IInv
<1>1. /\ process = "up" /\ ~Called(c)
      /\ UNCHANGED <<way, chain, env, process, account>>
      /\ called' = [called EXCEPT ![c] = [op |-> op, given |-> given]]
  BY DEF Call
<1>2. phase[c] = "absent" /\ accepted[c] = None
  BY <1>1, OperationsNamed, ChainsAndWays
     DEF ProcessAccount, ShownIsBuilt, AnswersRequest, Shown, Called
<1>3. /\ \A d \in Calls : d # c => called'[d] = called[d]
      /\ called'[c].op = op /\ called'[c].given = given
      /\ called' = [d \in Calls |-> called'[d]]
  BY <1>1 DEF Functions
<1>4. /\ op # "none" /\ Called(c)' /\ reply[c].told = "nothing" /\ request[c] = NoRequest
      /\ \A d \in Calls : d # c => Called(d)' = Called(d)
  BY <1>1, <1>2, <1>3, OperationsNamed, ChainsAndWays
     DEF ProcessAccount, ToldAtEnd, Progress, Called, Answered
<1>5. ProcessAccount'
  BY <1>1 DEF ProcessAccount
<1>6. \A x, y : Built(x, y)' = Built(x, y)
  BY <1>1, BuiltSame
<1>7. CASE /\ r = Refused \/ way # "serve"
           /\ \E why \in {"refused", "unbound"} :
                /\ why = "unbound" => way # "serve"
                /\ why = "refused" => r = Refused
                /\ reply' = [reply EXCEPT ![c] = Failure(why, None)]
           /\ UNCHANGED <<request, bridge>>
  <2>1. UNCHANGED <<request, phase, accepted, outcome>>
    BY <1>7 DEF bridge
  <2>2. /\ \A d \in Calls : d # c => reply'[d] = reply[d]
        /\ reply'[c].told = "refused" \/ (reply'[c].told = "unbound" /\ way # "serve")
        /\ reply'[c].told = "refused" => r = Refused
        /\ reply' = [d \in Calls |-> reply'[d]]
    BY <1>7 DEF Functions, Failure
  <2>3. ShownIsBuilt'
    BY <1>1, <1>2, <1>3, <1>6, <2>1 DEF ShownIsBuilt, Shown
  <2>4. \A d \in Calls : \A o : d # c => ReplyTo(d, o)' = ReplyTo(d, o)
    BY <1>1, <2>1, ReplyToSame
  <2>5. AnswersRequest'
    BY <1>1, <1>2, <2>1, <2>2, <2>4 DEF AnswersRequest
  <2>6. ToldAtEnd'
    BY <1>1, <1>2, <1>4, <2>1, <2>2 DEF ToldAtEnd, Told, Answered
  <2>7. Functions'
    BY <1>3, <2>1, <2>2 DEF Functions
  <2>8. RefusedBuildsNone'
    BY <1>1, <1>3, <1>6, <2>2 DEF RefusedBuildsNone, Told
  <2>9. Progress'
    BY <1>1, <1>4, <2>1, <2>2 DEF Progress, Answered
  <2>. QED
    BY <1>5, <2>3, <2>5, <2>6, <2>7, <2>8, <2>9
<1>8. CASE /\ r # Refused /\ request' = [request EXCEPT ![c] = r]
           /\ Engine!Open(c) /\ UNCHANGED reply
  <2>1. /\ UNCHANGED <<reply, accepted, outcome>> /\ phase' = [phase EXCEPT ![c] = "open"]
    BY <1>8 DEF Engine!Open
  <2>2. /\ \A d \in Calls : d # c => request'[d] = request[d] /\ phase'[d] = phase[d]
        /\ request'[c] = r /\ phase'[c] = "open"
        /\ request' = [d \in Calls |-> request'[d]] /\ phase' = [d \in Calls |-> phase'[d]]
    BY <1>8, <2>1 DEF Functions
  <2>3. ShownIsBuilt'
    BY <1>1, <1>3, <1>6, <1>8, <2>2 DEF ShownIsBuilt, Shown
  <2>4. \A d \in Calls : \A o : d # c => ReplyTo(d, o)' = ReplyTo(d, o)
    BY <1>1, <2>2, ReplyToSame
  <2>5. AnswersRequest'
    BY <1>1, <1>2, <2>1, <2>2, <2>4 DEF AnswersRequest
  <2>6. RefusedBuildsNone'
    BY <1>1, <1>3, <1>6, <1>4, <2>1 DEF RefusedBuildsNone, Told
  <2>7. ToldAtEnd'
    BY <1>1, <1>4, <2>1, <2>2 DEF ToldAtEnd, Told, Answered
  <2>8. Functions'
    BY <1>3, <2>1, <2>2 DEF Functions
  <2>9. Progress'
    BY <1>1, <1>4, <2>1, <2>2 DEF Progress, Answered
  <2>. QED
    BY <1>5, <2>3, <2>5, <2>6, <2>7, <2>8, <2>9
<1>. QED
  BY <1>7, <1>8 DEF Call

\* The bridge takes only answers to the request.
LEMMA DecideInv ==
  ASSUME IInv, NEW c \in Calls, Decide(c)
  PROVE  IInv'
<1>. USE DEF IInv
<1>1. PICK a \in AnswersTo(chain, request[c].op) : Engine!Accept(c, a)
  BY DEF Decide
<1>2. /\ UNCHANGED <<way, chain, env, process, account, called, request, reply, phase, outcome>>
      /\ phase[c] \in {"open", "abandoned"} /\ accepted[c] = None
      /\ accepted' = [accepted EXCEPT ![c] = a]
  BY <1>1 DEF Decide, Engine!Accept
<1>3. /\ \A d \in Calls : accepted'[d] = IF d = c THEN a ELSE accepted[d]
      /\ accepted' = [d \in Calls |-> accepted'[d]]
  BY <1>2 DEF Functions
<1>4. ProcessAccount' /\ ToldAtEnd' /\ Progress' /\ Functions'
  BY <1>2, <1>3 DEF ProcessAccount, ToldAtEnd, Progress, Told, Answered, Called, Functions
<1>5. \A x, y : Built(x, y)' = Built(x, y)
  BY <1>2, BuiltSame
<1>6. ShownIsBuilt' /\ RefusedBuildsNone'
  BY <1>2, <1>5 DEF ShownIsBuilt, RefusedBuildsNone, Shown, Told
<1>7. \A d \in Calls : \A o : ReplyTo(d, o)' = ReplyTo(d, o)
  BY <1>2, ReplyToSame
<1>8. AnswersRequest'
  BY <1>2, <1>3, <1>7 DEF AnswersRequest
<1>. QED
  BY <1>4, <1>6, <1>8

\* A reply is made of the outcome.
LEMMA ReplyInv ==
  ASSUME IInv, NEW c \in Calls, Reply(c)
  PROVE  IInv'
<1>. USE DEF IInv
<1>1. PICK o : Engine!Resolve(c, o) /\ reply' = [reply EXCEPT ![c] = ReplyTo(c, o)]
  BY DEF Reply
<1>2. /\ UNCHANGED <<way, chain, env, process, account, called, request, accepted>>
      /\ phase[c] = "open" /\ Engine!Allowed(c, o)
      /\ phase' = [phase EXCEPT ![c] = "resolved"]
      /\ outcome' = [outcome EXCEPT ![c] = o]
  BY <1>1 DEF Reply, Engine!Resolve
<1>3. \A d \in Calls : /\ phase'[d] = IF d = c THEN "resolved" ELSE phase[d]
                       /\ outcome'[d] = IF d = c THEN o ELSE outcome[d]
                       /\ reply'[d] = IF d = c THEN ReplyTo(c, o) ELSE reply[d]
  BY <1>1, <1>2 DEF Functions
<1>4. ProcessAccount' /\ Functions'
  <2>1. /\ phase' = [d \in Calls |-> phase'[d]] /\ outcome' = [d \in Calls |-> outcome'[d]]
        /\ reply' = [d \in Calls |-> reply'[d]]
    BY <1>1, <1>2 DEF Functions
  <2>. QED
    BY <1>2, <2>1 DEF ProcessAccount, Functions
<1>5. \A x, y : Built(x, y)' = Built(x, y)
  BY <1>2, BuiltSame
<1>6. ShownIsBuilt'
  BY <1>2, <1>3, <1>5 DEF ShownIsBuilt, Shown
<1>7. ReplyTo(c, o).told \notin {"nothing", "refused"} /\ Called(c)
  BY <1>2, ReplyTold, OperationsNamed, ChainsAndWays
     DEF ProcessAccount, ShownIsBuilt, Shown, Called
<1>8. \A d \in Calls : \A x : ReplyTo(d, x)' = ReplyTo(d, x)
  BY <1>2, ReplyToSame
<1>9. AnswersRequest'
  BY <1>2, <1>3, <1>8 DEF AnswersRequest, Engine!Allowed
<1>10. ToldAtEnd' /\ Progress'
  BY <1>7, <1>2, <1>3 DEF ToldAtEnd, Progress, Told, Answered, Called
<1>11. RefusedBuildsNone'
  BY <1>7, <1>2, <1>3, <1>5 DEF RefusedBuildsNone, Told
<1>. QED
  BY <1>4, <1>6, <1>9, <1>10, <1>11

\* A caller that hangs up takes nothing back.
LEMMA DisconnectInv ==
  ASSUME IInv, NEW c \in Calls, Disconnect(c)
  PROVE  IInv'
<1>. USE DEF IInv
<1>1. /\ UNCHANGED <<way, chain, env, process, account, called, request, reply, accepted, outcome>>
      /\ phase[c] = "open" /\ phase' = [phase EXCEPT ![c] = "abandoned"]
  BY DEF Disconnect, Engine!Abandon
<1>2. /\ \A d \in Calls : phase'[d] = IF d = c THEN "abandoned" ELSE phase[d]
      /\ phase' = [d \in Calls |-> phase'[d]]
  BY <1>1 DEF Functions
<1>3. ProcessAccount' /\ Functions'
  BY <1>1, <1>2 DEF ProcessAccount, Functions
<1>4. \A x, y : Built(x, y)' = Built(x, y)
  BY <1>1, BuiltSame
<1>5. ShownIsBuilt' /\ RefusedBuildsNone'
  BY <1>1, <1>2, <1>4 DEF ShownIsBuilt, RefusedBuildsNone, Shown, Told
<1>6. \A d \in Calls : \A x : ReplyTo(d, x)' = ReplyTo(d, x)
  BY <1>1, ReplyToSame
<1>7. AnswersRequest'
  BY <1>1, <1>2, <1>6 DEF AnswersRequest
<1>8. ToldAtEnd' /\ Progress'
  BY <1>1, <1>2 DEF ToldAtEnd, Progress, Told, Answered, Called
<1>. QED
  BY <1>3, <1>5, <1>7, <1>8

\* Every step preserves the invariant.
LEMMA NextInv ==
  ASSUME IInv, [Next]_vars
  PROVE  IInv'
<1>1. CASE UNCHANGED vars
  <2>1. UNCHANGED <<way, chain, env, process, account, called, request, reply, phase, accepted,
                    outcome>>
    BY <1>1 DEF vars
  <2>2. \A x, y : Built(x, y)' = Built(x, y)
    BY <2>1, BuiltSame
  <2>3. \A d \in Calls : \A x : ReplyTo(d, x)' = ReplyTo(d, x)
    BY <2>1, ReplyToSame
  <2>. QED
    BY <2>1, <2>2, <2>3 DEF IInv, ProcessAccount, ShownIsBuilt, AnswersRequest, ToldAtEnd,
                            RefusedBuildsNone, Progress, Functions, Shown, Told, Answered,
                            Called
<1>2. CASE Next
  BY <1>2, StartInv, CallInv, DecideInv, ReplyInv, DisconnectInv DEF Next
<1>. QED
  BY <1>1, <1>2

\* What a process is for, what it was asked, what it put to a wallet and what it told its
\* callers agree, for any calls, inputs, environments and answers.
THEOREM SurfacesInvariant == Spec => []IInv
<1>1. IInv /\ [Next]_vars => IInv'
  BY NextInv
<1>. QED
  BY <1>1, InitInv, PTL DEF Spec

(***************************************************************************)
(* The safety properties of the run, for every instance.                   *)
(***************************************************************************)

\* What serve has put to a wallet is what ServeRequest makes of a body.
LEMMA ServedRequest ==
  ASSUME IInv, way = "serve", NEW c \in Calls, Shown(c)
  PROVE  LET body == called[c].given IN
         /\ chain \in {"evm", "tron", "btc"} /\ called[c].op \in Operations(chain)
         /\ \A f \in DOMAIN body : body[f].json = "bool" => body[f].b \in BOOLEAN
         /\ request[c] = ServeRequest(chain, called[c].op, body, Default(chain, env.default),
                                      account)
         /\ request[c] # Refused
<1>1. /\ chain \in Chains /\ way \in Ways /\ called[c].op \in Operations(chain)
      /\ called[c].given \in Inputs[chain][way][called[c].op]
      /\ request[c] = Built(called[c].op, called[c].given) /\ request[c] # Refused
  BY DEF IInv, ProcessAccount, ShownIsBuilt
<1>. QED
  BY <1>1, ChainsAndWays, BodiesType DEF Built

\* What the typed signer has put to a wallet is what Signer makes of typed parameters.
LEMMA SignedRequest ==
  ASSUME IInv, way = "signer", NEW c \in Calls, Shown(c)
  PROVE  LET params == called[c].given IN
         /\ chain \in {"evm", "tron", "btc"} /\ called[c].op \in Operations(chain)
         /\ WellTyped(ParamTypes(chain, called[c].op), params)
         /\ request[c] = Signer(chain, called[c].op, params, Default(chain, env.default))
         /\ request[c] # Refused
<1>1. /\ chain \in Chains /\ way \in Ways /\ called[c].op \in Operations(chain)
      /\ called[c].given \in Inputs[chain][way][called[c].op]
      /\ request[c] = Built(called[c].op, called[c].given) /\ request[c] # Refused
  BY DEF IInv, ProcessAccount, ShownIsBuilt
<1>. QED
  BY <1>1, ChainsAndWays, ParamsType DEF Built

\* What a command has put to a wallet is what Cli makes of flags that have values.
LEMMA CommandRequest ==
  ASSUME IInv, way = "cli", NEW c \in Calls, Shown(c)
  PROVE  LET args == called[c].given IN
         /\ chain \in {"evm", "tron", "btc"} /\ called[c].op \in Operations(chain)
         /\ Filled(Commands(chain)[called[c].op], args)
         /\ request[c] = Cli(chain, called[c].op, args, Default(chain, env.default))
         /\ request[c] # Refused
<1>1. /\ chain \in Chains /\ way \in Ways /\ called[c].op \in Operations(chain)
      /\ called[c].given \in Inputs[chain][way][called[c].op]
      /\ request[c] = Built(called[c].op, called[c].given) /\ request[c] # Refused
  BY DEF IInv, ProcessAccount, ShownIsBuilt
<1>. QED
  BY <1>1, ChainsAndWays, ArgsType DEF Built, Filled

\* A transaction that was not checked is a command's, which has no recipient and says
\* what data it has.
LEMMA UncheckedSend ==
  ASSUME IInv, chain = "evm", NEW c \in Calls, Shown(c), request[c].op = "send_transaction",
         ~EvmCheck(request[c].fields)
  PROVE  way = "cli" /\ request[c].fields.data # None /\ "data" \in DOMAIN called[c].given
<1>1. called[c].op = "send_transaction" /\ way \in {"serve", "cli", "signer"}
  BY ShownSound, ChainsAndWays DEF IInv, ProcessAccount
<1>2. way # "serve"
  BY <1>1, ServedRequest, EvmServeChecked
<1>3. way # "signer"
  BY <1>1, SignedRequest, EvmSignerChecked
<1>4. way = "cli"
  BY <1>1, <1>2, <1>3
<1>5. request[c].fields.to = None
  BY DEF EvmCheck
<1>6. Commands(chain) = EvmCommand
  BY DEF Commands
<1>. QED
  BY <1>1, <1>4, <1>5, <1>6, CommandRequest, EvmCliData

\* Every request that a serve process with a configured account puts to a wallet expects
\* that account.
THEOREM SurfacesBoundAccount == Spec => []BoundAccount
<1>1. IInv => BoundAccount
  <2>. SUFFICES ASSUME IInv, way = "serve", env.account \notin {None, EmptyText},
                       NEW c \in Calls, Shown(c)
                PROVE  LET configured == Parse(AccountType(chain), env.account) IN
                       configured # Bad /\ Expected(request[c].fields) = configured
    BY DEF BoundAccount
  <2>1. /\ chain \in Chains /\ env \in Envs[chain] /\ process = "up" /\ account # Bad
        /\ account = Parse(AccountType(chain), env.account)
    BY DEF IInv, ProcessAccount, ShownIsBuilt, ConfiguredAccount
  <2>2. account # None /\ OfType(AccountType(chain), account)
    BY <2>1, NoneIsNoAccount, AccountTyped
  <2>3. Expected(request[c].fields) = account
    BY <2>2, ServedRequest, ServeBinds
  <2>. QED
    BY <2>1, <2>3
<1>. QED
  BY <1>1, SurfacesInvariant, PTL

\* Every address in a Bitcoin request put to a wallet is one of the request's network.
THEOREM SurfacesOnNetwork == Spec => []OnNetwork
<1>1. IInv => OnNetwork
  <2>. SUFFICES ASSUME IInv, chain = "btc", NEW c \in Calls, Shown(c)
                PROVE  LET p == request[c].fields IN
                       \A f \in DOMAIN p \cap {"to", "from", "address"} :
                         p[f] # None => p.network \in ValidOn(p[f])
    BY DEF OnNetwork
  <2>. QED
    BY ShownSound, SoundOnNetwork
<1>. QED
  BY <1>1, SurfacesInvariant, PTL

\* What any caller is given as a signed PSBT is for the transaction it asked to have signed.
THEOREM SurfacesSamePsbt == Spec => []SamePsbt
<1>1. IInv => SamePsbt
  <2>. SUFFICES ASSUME IInv, chain = "btc", NEW c \in Calls, Told(c, "success"),
                       request[c].op = "sign_psbt"
                PROVE  LET asked == UnsignedTxid(request[c].fields.psbt)
                           got == outcome[c].text
                       IN /\ UnsignedTxid(ParsePsbt(FieldText(got, "psbt"))) = asked
                          /\ IsText(AnswerField(got, "txid")) =>
                               ParseTxid(FieldText(got, "txid")) = asked
    BY DEF SamePsbt
  <2>. DEFINE got == outcome[c].text
  <2>1. phase[c] = "resolved" /\ reply[c] = ReplyTo(c, outcome[c])
    BY DEF IInv, ToldAtEnd, AnswersRequest, Told, Answered
  <2>2. Told(c, "success") /\ way \in {"serve", "cli", "signer"}
    BY ChainsAndWays DEF IInv, ProcessAccount
  <2>3. Approved(c, got).told = "success"
    BY <2>1, <2>2 DEF Told, ReplyTo, Failure
  <2>4. BtcResult(request[c], got) # Bad
    BY <2>2, <2>3 DEF Approved, CheckResult, Result, Failure
  <2>5. ParseSignedPsbt(request[c].fields.psbt, got) # Bad
    BY <2>4 DEF BtcResult
  <2>. QED
    BY <2>5 DEF ParseSignedPsbt
<1>. QED
  BY <1>1, SurfacesInvariant, PTL

\* The HTTP status of serve says truly whether a wallet was asked and what it answered.
THEOREM SurfacesHonestReply == Spec => []HonestReply
<1>1. IInv => HonestReply
  <2>. SUFFICES ASSUME IInv, way = "serve", NEW c \in Calls, Answered(c)
                PROVE  LET status == HttpStatus(reply[c])
                           approved == accepted[c] # None /\ accepted[c].approved
                       IN /\ (status = 400) <=> ~Shown(c)
                          /\ status = 200 => approved /\ reply[c].value = accepted[c].text
                                    /\ CheckResult(chain, request[c], reply[c].value)
                          /\ status = 409 => ~approved \/ outcome[c] = TimedOut
                          /\ status = 500 => approved
                                    /\ ~CheckResult(chain, request[c], accepted[c].text)
    BY DEF HonestReply
  <2>1. CASE phase[c] = "absent"
    BY <2>1 DEF IInv, ToldAtEnd, Told, HttpStatus, Shown
  <2>2. CASE phase[c] = "resolved"
    <3>. DEFINE o == outcome[c]
    <3>1. /\ Shown(c) /\ reply[c] = ReplyTo(c, o)
          /\ \/ accepted[c] # None /\ o = accepted[c]
             \/ accepted[c] = None /\ o = Cancelled
             \/ o = TimedOut
      BY <2>2 DEF IInv, AnswersRequest, Shown
    <3>2. accepted[c] # None => accepted[c] \notin {TimedOut, Cancelled}
      BY <3>1, AnswersAreDecisions, OutcomesDiffer DEF IInv, AnswersRequest
    <3>3. CASE o = TimedOut
      BY <3>1, <3>3 DEF ReplyTo, Failure, HttpStatus
    <3>4. CASE o = Cancelled /\ o # TimedOut
      BY <3>1, <3>2, <3>4 DEF ReplyTo, Failure, HttpStatus
    <3>5. CASE o = accepted[c] /\ accepted[c] # None
      <4>1. reply[c] = IF o.approved THEN Approved(c, o.text) ELSE Failure("rejected", o.code)
        BY <3>1, <3>2, <3>5 DEF ReplyTo
      <4>2. Approved(c, o.text) = IF CheckResult(chain, request[c], o.text)
                                  THEN Success(o.text, None) ELSE Failure("invalid", None)
        BY DEF Approved
      <4>. QED
        BY <3>1, <3>5, <4>1, <4>2 DEF Success, Failure, HttpStatus
    <3>. QED
      BY <3>1, <3>3, <3>4, <3>5
  <2>. QED
    BY <2>1, <2>2 DEF IInv, ToldAtEnd
<1>. QED
  BY <1>1, SurfacesInvariant, PTL

\* A call is put to a wallet once it has a well-typed request, and ends with an answer.
THEOREM SurfacesTypeOK == Spec => []TypeOK
<1>1. IInv => TypeOK
  <2>. SUFFICES ASSUME IInv PROVE TypeOK
    OBVIOUS
  <2>1. phase \in [Calls -> {"absent", "open", "resolved", "abandoned"}]
    BY DEF IInv, Functions, Progress
  <2>2. ASSUME NEW c \in Calls
        PROVE  /\ Shown(c) <=> request[c].op # "none"
               /\ Shown(c) => /\ request[c].op = called[c].op
                              /\ WellTyped(RequestTypes(chain)[request[c].op], request[c].fields)
    <3>1. CASE Shown(c)
      <4>1. /\ request[c].op = called[c].op /\ called[c].op \in Operations(chain)
            /\ WellTyped(RequestTypes(chain)[request[c].op], request[c].fields)
        BY <3>1, ShownSound DEF Sound
      <4>2. "none" \notin Operations(chain)
        BY OperationsNamed, ChainsAndWays DEF IInv, ProcessAccount
      <4>. QED
        BY <3>1, <4>1, <4>2
    <3>2. CASE ~Shown(c)
      BY <3>2 DEF IInv, Progress, Shown, NoRequest
    <3>. QED
      BY <3>1, <3>2
  <2>3. ASSUME NEW c \in Calls
        PROVE  Answered(c) <=> (phase[c] = "resolved" \/ (Called(c) /\ ~Shown(c)))
    BY DEF IInv, ToldAtEnd, Progress, Shown
  <2>. QED
    BY <2>1, <2>2, <2>3 DEF TypeOK, IInv, ProcessAccount, Progress
<1>. QED
  BY <1>1, SurfacesInvariant, PTL

\* A configured account only refuses a body that names another one, or that is for a
\* network it is not of.
THEOREM SurfacesSameAccountServed == Spec => []SameAccountServed
<1>1. IInv => SameAccountServed
  <2>. SUFFICES ASSUME IInv, way = "serve", account # None, NEW c \in Calls, Told(c, "refused")
                PROVE  LET r == FromJson(chain, called[c].op, called[c].given,
                                         Default(chain, env.default)) IN
                       \/ r = Refused
                       \/ Expected(r.fields) \notin {None, account}
                       \/ chain = "btc" /\ RequireNetwork(account, r.fields.network) = Bad
    BY DEF SameAccountServed
  <2>1. /\ chain \in Chains /\ process = "up" /\ account # Bad
        /\ called[c].op \in Operations(chain)
        /\ called[c].given \in Inputs[chain]["serve"][called[c].op]
        /\ Built(called[c].op, called[c].given) = Refused
    BY DEF IInv, ProcessAccount, RefusedBuildsNone
  <2>2. ServeRequest(chain, called[c].op, called[c].given, Default(chain, env.default),
                     account) = Refused
    BY <2>1 DEF Built
  <2>3. /\ chain \in {"evm", "tron", "btc"}
        /\ \A f \in DOMAIN called[c].given :
             called[c].given[f].json = "bool" => called[c].given[f].b \in BOOLEAN
    BY <2>1, ChainsAndWays, BodiesType DEF IInv, ProcessAccount
  <2>. QED
    BY <2>1, <2>2, <2>3, ServeRefuses
<1>. QED
  BY <1>1, SurfacesInvariant, PTL

\* A request that names no chain or network is for the default one, but for those that
\* serve and the TRON commands leave to the page.
THEOREM SurfacesUnnamedPlaceIsDefault == Spec => []UnnamedPlaceIsDefault
<1>1. IInv => UnnamedPlaceIsDefault
  <2>. SUFFICES ASSUME IInv, NEW c \in Calls, Shown(c), Unnamed(called[c].given),
                       way = "serve" => chain = "btc",
                       way = "cli" /\ chain = "tron" => request[c].op \notin TronSends
                PROVE  request[c].fields[PlaceField(chain)] = Default(chain, env.default)
    BY DEF UnnamedPlaceIsDefault, UnnamedPlace
  <2>1. way \in {"serve", "cli", "signer"} /\ request[c].op = called[c].op
    BY ChainsAndWays, ShownSound DEF IInv, ProcessAccount
  <2>2. CASE way = "serve"
    <3>1. chain = "btc" /\ PlaceField(chain) = "network" /\ "network" \notin DOMAIN called[c].given
      BY <2>2 DEF PlaceField, Unnamed
    <3>. QED
      BY <2>2, <3>1, ServedRequest, BtcServeUnnamed
  <2>3. CASE way = "signer"
    BY <2>3, SignedRequest, SignerUnnamed DEF Unnamed
  <2>4. CASE way = "cli"
    BY <2>1, <2>4, CommandRequest, CliUnnamed DEF Unnamed
  <2>. QED
    BY <2>1, <2>2, <2>3, <2>4
<1>. QED
  BY <1>1, SurfacesInvariant, PTL

\* A PSBT put to a wallet lists inputs it has, singles out those with a leaf script, and is
\* finalized if it is broadcast.
THEOREM SurfacesPsbtAsked == Spec => []PsbtAsked
<1>1. IInv => PsbtAsked
  <2>. SUFFICES ASSUME IInv, chain = "btc", NEW c \in Calls, Shown(c),
                       request[c].op = "sign_psbt"
                PROVE  LET p == request[c].fields IN
                       /\ \A i \in IndexSet(p.signInputs) : i < Len(p.psbt.leaf)
                       /\ IndexSet(p.scriptPathInputs) =
                            {i \in IndexSet(p.signInputs) : p.psbt.leaf[i + 1]}
                       /\ p.broadcast => p.finalize
    BY DEF PsbtAsked, IndexSet
  <2>1. Sound("btc", "sign_psbt", request[c])
    BY ShownSound
  <2>. QED
    BY <2>1, SoundPsbt
<1>. QED
  BY <1>1, SurfacesInvariant, PTL

\* The body the page is served for a request reads back as that request.
THEOREM SurfacesWireInverse == Spec => []WireInverse
<1>1. IInv => WireInverse
  <2>. SUFFICES ASSUME IInv, NEW c \in Calls, Shown(c),
                       chain = "evm" /\ way = "cli" /\ request[c].op = "send_transaction" =>
                         EvmCheck(request[c].fields)
                PROVE  LET back == ReadBack(c) IN
                       /\ back # Refused
                       /\ \A f \in DOMAIN request[c].fields \ LostOnWire :
                            back.fields[f] = request[c].fields[f]
    BY DEF WireInverse
  <2>1. /\ chain \in {"evm", "tron", "btc"} /\ request[c].op \in Operations(chain)
        /\ Sound(chain, request[c].op, request[c])
    BY ShownSound, ChainsAndWays DEF IInv, ProcessAccount
  <2>2. chain = "evm" /\ request[c].op = "send_transaction" => EvmCheck(request[c].fields)
    BY UncheckedSend
  <2>. QED
    BY <2>1, <2>2, SoundReadBack DEF ReadBack
<1>. QED
  BY <1>1, SurfacesInvariant, PTL

\* An EVM transaction without a recipient carries code to deploy, unless a command says
\* that it is empty.
THEOREM SurfacesNothingToSend == Spec => []NothingToSend
<1>1. IInv => NothingToSend
  <2>. SUFFICES ASSUME IInv, chain = "evm", NEW c \in Calls, Shown(c),
                       request[c].op = "send_transaction", request[c].fields.to = None
                PROVE  /\ request[c].fields.data # None
                       /\ request[c].fields.data = <<>> =>
                            way = "cli" /\ "data" \in DOMAIN called[c].given
    BY DEF NothingToSend
  <2>. QED
    BY UncheckedSend DEF EvmCheck
<1>. QED
  BY <1>1, SurfacesInvariant, PTL

\* The value a command prints reads back as the value the wallet returned.
THEOREM SurfacesPrintedReadsBack == Spec => []PrintedReadsBack
<1>1. IInv => PrintedReadsBack
  <2>. SUFFICES ASSUME IInv, way = "cli", NEW c \in Calls, Told(c, "success")
                PROVE  Result(chain, request[c], reply[c].value) =
                         Result(chain, request[c], outcome[c].text)
    BY DEF PrintedReadsBack
  <2>. DEFINE v == Result(chain, request[c], outcome[c].text)
  <2>1. phase[c] = "resolved" /\ reply[c] = ReplyTo(c, outcome[c]) /\ Shown(c)
    BY DEF IInv, ToldAtEnd, AnswersRequest, Told, Answered, Shown
  <2>2. reply[c] = Approved(c, outcome[c].text)
    BY <2>1 DEF Told, ReplyTo, Failure
  <2>3. v # Bad /\ reply[c].value = Printed(chain, request[c].op, v)
    BY <2>2 DEF Told, Approved, Success, Failure
  <2>4. chain \in {"evm", "tron", "btc"} /\ request[c].op \in Operations(chain)
    BY <2>1, ShownSound, ChainsAndWays DEF IInv, ProcessAccount
  <2>. QED
    BY <2>3, <2>4, PrintedResult
<1>. QED
  BY <1>1, SurfacesInvariant, PTL
=============================================================================
