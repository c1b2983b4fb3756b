---------------------------- MODULE BtcRequests ----------------------------
(***************************************************************************)
(* The Bitcoin requests: what each holds, how the control API reads one    *)
(* from JSON, how the typed signer and the command line build one, and the *)
(* checks every surface applies to the wallet's answer.  Every request has *)
(* a network, and every address in it belongs to that network.             *)
(***************************************************************************)
EXTENDS Fields

\* The fields of each variant and their types.
BtcRequest == [
  connect       |-> [network |-> ReqField("BtcNetwork"),
                     address |-> OptField("UncheckedAddress")],
  send_transfer |-> [network |-> ReqField("BtcNetwork"), to |-> ReqField("UncheckedAddress"),
                     from |-> OptField("UncheckedAddress"), amount |-> ReqField("Sats"),
                     feeRate |-> OptField("SatPerVb")],
  sign_psbt     |-> [network |-> ReqField("BtcNetwork"), psbt |-> ReqField("Psbt"),
                     from |-> OptField("UncheckedAddress"), signInputs |-> OptField("Indexes"),
                     scriptPathInputs |-> OptField("Indexes"),
                     finalize |-> ReqField("Flag"), broadcast |-> ReqField("Flag")],
  sign_message  |-> [network |-> ReqField("BtcNetwork"), message |-> ReqField("Text"),
                     address |-> OptField("UncheckedAddress"),
                     protocol |-> ReqField("MessageProtocol")]]

\* Mutant: an address of any network will do.
CheckedAnywhere(a, network) == a

Checked(a, network) == IF a = None THEN None ELSE RequireNetwork(a, network)

\* BtcRequest::sign_psbt.  The listed inputs must exist; those that list a leaf
\* script are singled out (None if there are none: the wire omits the field);
\* a broadcast finalizes.
Listed(p) == Or(p.signInputs, <<>>)

LeafScriptInputs(psbt, listed) ==
  LET among[n \in 0..Len(listed)] ==  \* of the first n
        IF n = 0 THEN <<>>
        ELSE IF SpendsScriptPath(psbt, listed[n]) THEN Append(among[n - 1], listed[n])
        ELSE among[n - 1]
  IN among[Len(listed)]

\* Mutant: the largest index is one too large.
SignPsbtOffByOne(p) ==
  LET script == LeafScriptInputs(p.psbt, Listed(p)) IN
  Join([p EXCEPT !.psbt = IF \A i \in DOMAIN Listed(p) : Listed(p)[i] <= Len(@.leaf)
                          THEN @ ELSE Bad,
                 !.from = Checked(@, p.network), !.finalize = @ \/ p.broadcast],
       [scriptPathInputs |-> IF script = <<>> THEN None ELSE script])

SignPsbt(p) ==
  LET script == LeafScriptInputs(p.psbt, Listed(p)) IN
  Join([p EXCEPT !.psbt = IF \A i \in DOMAIN Listed(p) : Listed(p)[i] < Len(@.leaf)
                          THEN @ ELSE Bad,
                 !.from = Checked(@, p.network), !.finalize = @ \/ p.broadcast],
       [scriptPathInputs |-> IF script = <<>> THEN None ELSE script])

\* BtcRequest::send_transfer.
SendTransfer(p) ==
  [p EXCEPT !.to = RequireNetwork(@, p.network), !.from = Checked(@, p.network)]

\* The constructors, applied to parameters none of which was refused.
BtcBuild(op, p) ==
  IF RequestOf(op, p) = Refused THEN Refused
  ELSE RequestOf(op, CASE op = "send_transfer" -> SendTransfer(p)
                       [] op = "sign_psbt"     -> SignPsbt(p)
                       [] OTHER                -> [p EXCEPT !.address = Checked(@, p.network)])

BtcDefault(p, default) == [p EXCEPT !.network = Or(@, default)]

BtcReaders == [
  connect       |-> [network |-> OptField("BtcNetwork"),
                     address |-> OptField("UncheckedAddress")],
  send_transfer |-> [network |-> OptField("BtcNetwork"), to |-> ReqField("UncheckedAddress"),
                     from |-> OptField("UncheckedAddress"), amount |-> ReqField("Sats"),
                     feeRate |-> OptField("SatPerVb")],
  sign_psbt     |-> [network |-> OptField("BtcNetwork"), psbt |-> ReqField("Psbt"),
                     from |-> OptField("UncheckedAddress"), signInputs |-> Field("indexes"),
                     finalize |-> Field("bool"), broadcast |-> Field("bool")],
  sign_message  |-> [network |-> OptField("BtcNetwork"), message |-> ReqField("Text"),
                     address |-> OptField("UncheckedAddress"),
                     protocol |-> OptField("MessageProtocol")]]

\* The parameters of the typed signer: a request's fields, but for what the constructor
\* computes, and connect's network may be left out.
BtcParams(op) ==
  IF op = "connect" THEN BtcReaders[op]
  ELSE [f \in DOMAIN BtcReaders[op] |-> BtcRequest[op][f]]

DefaultedProtocol(op, p) ==
  IF op = "sign_message" THEN [p EXCEPT !.protocol = Or(@, DefaultProtocol)] ELSE p

BtcFromJson(op, body, default) ==
  BtcBuild(op, DefaultedProtocol(op, BtcDefault(ReadAll(BtcReaders[op], body), default)))

\* The field that names the account a request expects.
BtcAccountField(op) == IF op \in {"connect", "sign_message"} THEN "address" ELSE "from"

\* Mutant: the configured account need not be on the request's network.
BtcExpectingAnywhere(request, account) ==
  Expecting(request, BtcAccountField(request.op), account)

BtcExpecting(request, account) ==
  Expecting(request, BtcAccountField(request.op),
            RequireNetwork(account, request.fields.network))

BtcSigner(op, params, default) ==
  BtcBuild(op, IF op = "connect" THEN BtcDefault(params, default) ELSE params)

(***************************************************************************)
(* The command line.  sign-psbt takes exactly one of --psbt and            *)
(* --psbt-file; no --sign-input at all means every input.                  *)
(***************************************************************************)
BtcCommand == [
  connect       |-> [network |-> OptField("BtcNetwork"),
                     address |-> OptField("UncheckedAddress")],
  send_transfer |-> [to |-> ReqField("UncheckedAddress"), amount |-> ReqField("Sats"),
                     from |-> OptField("UncheckedAddress"), feeRate |-> OptField("SatPerVb"),
                     network |-> OptField("BtcNetwork")],
  sign_psbt     |-> [psbt |-> OptField("Psbt"), psbtFile |-> OptField("Psbt"),
                     signInputs |-> OptField("Indexes"), finalize |-> OptField("Switch"),
                     broadcast |-> OptField("Switch"), from |-> OptField("UncheckedAddress"),
                     network |-> OptField("BtcNetwork")],
  sign_message  |-> [message |-> ReqField("Text"), address |-> OptField("UncheckedAddress"),
                     protocol |-> OptField("MessageProtocol"),
                     network |-> OptField("BtcNetwork")]]

BtcUsage(op, args) ==
  op = "sign_psbt" => ("psbt" \in DOMAIN args) # ("psbtFile" \in DOMAIN args)

ReadPsbt(flags) ==
  [f \in DOMAIN flags \ {"psbtFile"} |->
     IF f = "psbt" THEN Or(flags.psbt, flags.psbtFile) ELSE flags[f]]

BtcCli(op, args, default) ==
  LET flags == Flags(BtcCommand[op], args)
      p == IF op = "sign_psbt" THEN ReadPsbt(flags) ELSE DefaultedProtocol(op, flags)
  IN IF ~BtcUsage(op, args) THEN Refused ELSE BtcBuild(op, BtcDefault(p, default))

(***************************************************************************)
(* The wallet's answer.                                                    *)
(***************************************************************************)
\* A field of an answer that is a JSON object; Absent from any other answer.
AnswerField(t, key) == IF t.form = "json" THEN Get(t.fields, key) ELSE Absent

FieldText(t, key) ==
  IF IsText(AnswerField(t, key)) THEN AnswerField(t, key).text ELSE Garbage

ParseAccount(t, network) ==
  LET address == ParseUncheckedAddress(FieldText(t, "address"))
      key == ParseBtcPublicKey(FieldText(t, "publicKey"))
  IN IF Bad \in {address, key} THEN Bad
     ELSE IF RequireNetwork(address, network) = Bad THEN Bad
     ELSE [address |-> address, publicKey |-> key]

\* Mutant: the transaction the wallet signed is not compared.
ParseSignedPsbtUnchecked(unsigned, t) ==
  LET psbt == ParsePsbt(FieldText(t, "psbt")) IN
  IF psbt = Bad THEN Bad ELSE [psbt |-> psbt, txid |-> None]

ParseSignedPsbt(unsigned, t) ==
  LET psbt == ParsePsbt(FieldText(t, "psbt"))
      said == IsText(AnswerField(t, "txid"))
      txid == IF said THEN ParseTxid(FieldText(t, "txid")) ELSE None
  IN IF psbt = Bad \/ txid = Bad THEN Bad
     ELSE IF UnsignedTxid(psbt) # UnsignedTxid(unsigned) THEN Bad
     ELSE IF said /\ txid # UnsignedTxid(unsigned) THEN Bad
     ELSE [psbt |-> psbt, txid |-> txid]

BtcResult(request, t) ==
  CASE request.op = "connect"       -> ParseAccount(t, request.fields.network)
    [] request.op = "send_transfer" -> ParseTxid(t)
    [] request.op = "sign_psbt"     -> ParseSignedPsbt(request.fields.psbt, t)
    [] request.op = "sign_message"  -> ParseMessageSignature(t)

\* What the command line prints with --json; an absent txid is null.
BtcPrint(op, v) ==
  CASE op = "connect" ->
         JsonText([address |-> Str(SpellBtcAddress(v.address)),
                   publicKey |-> Str(SpellBtcPublicKey(v.publicKey))])
    [] op = "sign_psbt" ->
         JsonText([psbt |-> Str(SpellPsbt(v.psbt)),
                   txid |-> IF v.txid = None THEN Opaque("null") ELSE Str(SpellTxid(v.txid))])
    [] op = "send_transfer" -> SpellTxid(v)
    [] op = "sign_message"  -> SpellMessageSignature(v)

\* The network a transaction link is for; regtest has no explorer, and a PSBT
\* that was not broadcast has no transaction.
BtcExplorer(request, v) ==
  IF \/ request.op = "send_transfer"
     \/ request.op = "sign_psbt" /\ v.txid # None
  THEN IF request.fields.network = "regtest" THEN None ELSE request.fields.network
  ELSE None
=============================================================================
