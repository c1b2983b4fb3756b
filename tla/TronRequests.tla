--------------------------- MODULE TronRequests ---------------------------
(***************************************************************************)
(* The TRON requests: what each holds, how the control API reads one from  *)
(* JSON, how the typed signer and the command line build one, and what     *)
(* each surface makes of the wallet's answer.                              *)
(***************************************************************************)
EXTENDS Fields

TronTypedData ==
  [domain |-> ReqField("Json"), types |-> ReqField("Json"), primaryType |-> ReqField("Text"),
   message |-> ReqField("Json")]

\* The fields of each variant and their types.
TronRequest == [
  connect          |-> [network |-> OptField("TronNetwork"),
                        address |-> OptField("TronAddress")],
  send_transaction |-> [network |-> OptField("TronNetwork"), to |-> ReqField("TronAddress"),
                        from |-> OptField("TronAddress"), amount |-> ReqField("Sun"),
                        data |-> OptField("HexData")],
  trigger_contract |-> [network |-> OptField("TronNetwork"),
                        contractAddress |-> ReqField("TronAddress"),
                        from |-> OptField("TronAddress"),
                        functionSelector |-> ReqField("Text"), parameters |-> OptField("Json"),
                        feeLimit |-> OptField("Sun"), callValue |-> OptField("Sun")],
  deploy_contract  |-> [network |-> OptField("TronNetwork"), from |-> OptField("TronAddress"),
                        contractName |-> OptField("Text"), abi |-> ReqField("Json"),
                        bytecode |-> ReqField("HexData"), parameters |-> OptField("Json"),
                        feeLimit |-> OptField("Sun"), callValue |-> OptField("Sun"),
                        originEnergyLimit |-> OptField("EnergyLimit"),
                        userFeePercentage |-> OptField("Percentage")],
  sign_message     |-> [network |-> OptField("TronNetwork"), message |-> ReqField("Text"),
                        address |-> OptField("TronAddress")],
  sign_typed_data  |-> Join([network |-> OptField("TronNetwork"),
                            address |-> OptField("TronAddress")], TronTypedData)]

TronReaders == [
  connect          |-> [network |-> OptField("TronNetwork"),
                        address |-> OptField("TronAddress")],
  send_transaction |-> [network |-> OptField("TronNetwork"), to |-> ReqField("TronAddress"),
                        from |-> OptField("TronAddress"), amount |-> ReqField("Sun"),
                        data |-> OptField("HexData")],
  trigger_contract |-> [network |-> OptField("TronNetwork"),
                        contractAddress |-> ReqField("TronAddress"),
                        from |-> OptField("TronAddress"),
                        functionSelector |-> ReqField("Text"), parameters |-> Field("value"),
                        feeLimit |-> OptField("Sun"), callValue |-> OptField("Sun")],
  deploy_contract  |-> [network |-> OptField("TronNetwork"), abi |-> Field("present"),
                        bytecode |-> ReqField("HexData"), contractName |-> OptField("Text"),
                        parameters |-> Field("value"), from |-> OptField("TronAddress"),
                        feeLimit |-> OptField("Sun"), callValue |-> OptField("Sun"),
                        originEnergyLimit |-> OptField("EnergyLimit"),
                        userFeePercentage |-> OptField("Percentage")],
  sign_message     |-> [network |-> OptField("TronNetwork"), message |-> ReqField("Text"),
                        address |-> OptField("TronAddress")],
  sign_typed_data  |-> Join([network |-> OptField("TronNetwork"),
                            address |-> OptField("TronAddress")], TypedDataReaders)]

TronFromJson(op, body) == RequestOf(op, ReadAll(TronReaders[op], body))

\* The field that names the account a request expects.
TronAccountField(op) ==
  IF op \in {"send_transaction", "trigger_contract", "deploy_contract"} THEN "from" ELSE "address"

TronDefault(fields, default) == [fields EXCEPT !.network = Or(@, default)]

TronSigner(op, params, default) == RequestOf(op, TronDefault(params, default))

(***************************************************************************)
(* The command line.  Only connect and the two signing commands fill in    *)
(* the default network; the three that send a transaction pass --network   *)
(* on as it is.  deploy-contract and sign-typed-data read a JSON file.     *)
(***************************************************************************)
TronCommand == [
  connect          |-> [network |-> OptField("TronNetwork"),
                        address |-> OptField("TronAddress")],
  send_transaction |-> [to |-> ReqField("TronAddress"), from |-> OptField("TronAddress"),
                        amount |-> ReqField("Sun"), data |-> OptField("HexData"),
                        network |-> OptField("TronNetwork")],
  trigger_contract |-> [contractAddress |-> ReqField("TronAddress"),
                        from |-> OptField("TronAddress"),
                        functionSelector |-> ReqField("Text"),
                        parameters |-> OptField("JsonString"), feeLimit |-> OptField("Sun"),
                        callValue |-> OptField("Sun"), network |-> OptField("TronNetwork")],
  deploy_contract  |-> [abi |-> ReqField("JsonString"), bytecode |-> ReqField("HexData"),
                        contractName |-> OptField("Text"),
                        parameters |-> OptField("JsonString"),
                        from |-> OptField("TronAddress"), feeLimit |-> OptField("Sun"),
                        callValue |-> OptField("Sun"),
                        originEnergyLimit |-> OptField("EnergyLimit"),
                        userFeePercentage |-> OptField("Percentage"),
                        network |-> OptField("TronNetwork")],
  sign_message     |-> [message |-> ReqField("Text"), address |-> OptField("TronAddress"),
                        network |-> OptField("TronNetwork")],
  sign_typed_data  |-> [file |-> ReqField("JsonString"), address |-> OptField("TronAddress"),
                        network |-> OptField("TronNetwork")]]

TronFileFields(flags) ==
  Join([network |-> flags.network, address |-> flags.address], FileFields(flags.file))

TronCli(op, args, default) ==
  LET flags == Flags(TronCommand[op], args) IN
  CASE op \in {"connect", "sign_message"} -> RequestOf(op, TronDefault(flags, default))
    [] op = "sign_typed_data" -> RequestOf(op, TronDefault(TronFileFields(flags), default))
    [] OTHER -> RequestOf(op, flags)

(***************************************************************************)
(* The wallet's answer.  A deployment returns its hash and the contract's  *)
(* address as one JSON text.                                               *)
(***************************************************************************)
ParseDeployResult(t) ==
  IF t.form # "json" THEN Bad
  ELSE LET hash == ParseTxHash(TextAt(t.fields, "txHash"))
           contract == ParseTronAddress(TextAt(t.fields, "contractAddress"))
       IN IF Bad \in {hash, contract} THEN Bad
          ELSE [txHash |-> hash, contractAddress |-> contract]

TronReturns(op) ==
  CASE op = "connect" -> "TronAddress"
    [] op \in {"send_transaction", "trigger_contract"} -> "TxHash"
    [] OTHER -> "Signature"

TronResult(request, t) ==
  IF request.op = "deploy_contract" THEN ParseDeployResult(t)
  ELSE Parse(TronReturns(request.op), t)

\* The command line prints a TRON hash without 0x.
TronPrint(op, v) ==
  CASE op = "deploy_contract" ->
         JsonText([txHash |-> Str(Hex(FALSE, v.txHash)),
                   contractAddress |-> Str(SpellTronAddress(v.contractAddress))])
    [] TronReturns(op) = "TxHash" -> Hex(FALSE, v)
    [] OTHER -> Spell(TronReturns(op), v)

\* The network a transaction link is for: the flag's, else the default.
TronExplorer(request, default) ==
  IF request.op \in {"send_transaction", "trigger_contract", "deploy_contract"}
  THEN Or(request.fields.network, default) ELSE None
=============================================================================
