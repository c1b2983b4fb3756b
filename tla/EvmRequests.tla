---------------------------- MODULE EvmRequests ----------------------------
(***************************************************************************)
(* The EVM requests: what each holds, how the control API reads one from   *)
(* JSON, how the typed signer and the command line build one, and what     *)
(* each surface makes of the wallet's answer.  Fields carry the names they *)
(* have on the wire.                                                       *)
(***************************************************************************)
EXTENDS Fields

EvmTypedData ==
  [domain |-> ReqField("Json"), types |-> ReqField("Json"), primaryType |-> ReqField("Text"),
   message |-> ReqField("Json")]

\* The fields of each variant and their types.
EvmRequest == [
  connect          |-> [chainId |-> OptField("ChainId"), address |-> OptField("Address"),
                        rpcUrl |-> OptField("Url"), chainName |-> OptField("Text")],
  send_transaction |-> [chainId |-> OptField("ChainId"), to |-> OptField("Address"),
                        from |-> OptField("Address"), value |-> OptField("Wei"),
                        data |-> OptField("CallData"), gasLimit |-> OptField("Wei"),
                        maxFeePerGas |-> OptField("Wei"),
                        maxPriorityFeePerGas |-> OptField("Wei")],
  sign_message     |-> [chainId |-> OptField("ChainId"), message |-> ReqField("Message"),
                        address |-> OptField("Address")],
  sign_typed_data  |-> Join([chainId |-> OptField("ChainId"), address |-> OptField("Address")],
                            EvmTypedData)]

\* SendTransactionParams::check: a transaction without a recipient deploys its data.
EvmCheck(p) == p.to = None => p.data \notin {None, <<>>}

EvmReaders == [
  connect          |-> [chainId |-> Field("u64"), address |-> OptField("Address"),
                        rpcUrl |-> OptField("Url"), chainName |-> OptField("Text")],
  send_transaction |-> [chainId |-> Field("u64"), to |-> OptField("Address"),
                        from |-> OptField("Address"), value |-> OptField("Wei"),
                        data |-> OptField("CallData"), gasLimit |-> OptField("Wei"),
                        maxFeePerGas |-> OptField("Wei"),
                        maxPriorityFeePerGas |-> OptField("Wei")],
  sign_message     |-> [chainId |-> Field("u64"), message |-> Field("message"),
                        address |-> OptField("Address")],
  sign_typed_data  |-> Join([chainId |-> Field("u64"), address |-> OptField("Address")],
                            TypedDataReaders)]

\* Mutant: the transaction is not checked.
EvmFromJsonUnchecked(op, body) == RequestOf(op, ReadAll(EvmReaders[op], body))

EvmFromJson(op, body) ==
  LET fields == ReadAll(EvmReaders[op], body) IN
  IF op = "send_transaction" /\ ~EvmCheck(fields) THEN Refused ELSE RequestOf(op, fields)

\* Mutant: the account field of a transaction is taken to be its recipient.
EvmAccountFieldOfRecipient(op) == IF op = "send_transaction" THEN "to" ELSE "address"

\* The field that names the account a request expects.
EvmAccountField(op) == IF op = "send_transaction" THEN "from" ELSE "address"

EvmDefault(fields, default) == [fields EXCEPT !.chainId = Or(@, default)]

(***************************************************************************)
(* The typed signer takes values, not texts; its connect has no parameter  *)
(* for a custom chain.                                                     *)
(***************************************************************************)
EvmConnect(params) == [params EXCEPT !.rpcUrl = None, !.chainName = None]

EvmSigner(op, params, default) ==
  LET p == IF op = "connect" THEN EvmConnect(params) ELSE params
  IN IF op = "send_transaction" /\ ~EvmCheck(p) THEN Refused
     ELSE RequestOf(op, EvmDefault(p, default))

(***************************************************************************)
(* The command line.  send-transaction needs --to or --data; sign-message  *)
(* needs exactly one of --message and --raw; sign-typed-data reads a file. *)
(***************************************************************************)
EvmCommand == [
  connect          |-> [chainId |-> OptField("ChainId"), address |-> OptField("Address"),
                        rpcUrl |-> OptField("Url"), chainName |-> OptField("Text")],
  send_transaction |-> [to |-> OptField("Address"), from |-> OptField("Address"),
                        value |-> OptField("Wei"), data |-> OptField("CallData"),
                        chainId |-> OptField("ChainId"), gasLimit |-> OptField("Wei"),
                        maxFeePerGas |-> OptField("Wei"),
                        maxPriorityFeePerGas |-> OptField("Wei")],
  sign_message     |-> [message |-> OptField("Text"), raw |-> OptField("CallData"),
                        address |-> OptField("Address"), chainId |-> OptField("ChainId")],
  sign_typed_data  |-> [file |-> ReqField("JsonString"), address |-> OptField("Address"),
                        chainId |-> OptField("ChainId")]]

EvmUsage(op, args) ==
  CASE op = "send_transaction" -> {"to", "data"} \cap DOMAIN args # {}
    [] op = "sign_message" -> ("message" \in DOMAIN args) # ("raw" \in DOMAIN args)
    [] OTHER -> TRUE

\* The payload flags of sign-message, as the field they become.
EvmPayload(flags) ==
  IF Bad \in {flags.message, flags.raw} THEN Bad
  ELSE IF flags.message # None THEN [as |-> "text", text |-> flags.message]
       ELSE [as |-> "raw", bytes |-> flags.raw]

EvmFlagFields(op, flags) ==
  LET common == [chainId |-> flags.chainId, address |-> flags.address] IN
  CASE op = "sign_message"    -> Join(common, [message |-> EvmPayload(flags)])
    [] op = "sign_typed_data" -> Join(common, FileFields(flags.file))
    [] OTHER -> flags

\* Mutant: the flags' own chain is used as it is, the default never.
EvmCliWithoutDefault(op, args, default) ==
  IF ~EvmUsage(op, args) THEN Refused
  ELSE RequestOf(op, EvmFlagFields(op, Flags(EvmCommand[op], args)))

EvmCli(op, args, default) ==
  IF ~EvmUsage(op, args) THEN Refused
  ELSE RequestOf(op, EvmDefault(EvmFlagFields(op, Flags(EvmCommand[op], args)), default))

(***************************************************************************)
(* The wallet's answer.                                                    *)
(***************************************************************************)
EvmReturns(op) ==
  CASE op = "connect" -> "Address"
    [] op = "send_transaction" -> "TxHash"
    [] OTHER -> "Signature"

EvmResult(request, t) == Parse(EvmReturns(request.op), t)

EvmPrint(op, v) == Spell(EvmReturns(op), v)

\* The chains with a built-in explorer, and the network a transaction link is for.
EvmChains == {1, 11155111, 137, 42161, 10, 8453, 43114, 56}

EvmExplorer(request, default) ==
  IF request.op = "send_transaction" /\ request.fields.chainId \in EvmChains
  THEN request.fields.chainId ELSE None
=============================================================================
