----------------------------- MODULE MCSurfaces -----------------------------
(***************************************************************************)
(* Small inputs for Surfaces.  What a caller gives differs from a plain    *)
(* valid call in one field, or in one of the pairs of fields that interact *)
(* (Related): these are the bounds.  A field is left out, or takes each    *)
(* text of its type that the parsers tell apart.                           *)
(***************************************************************************)
EXTENDS Surfaces, FiniteSets

a1 == [kind |-> "bc", id |-> 1]
a2 == [kind |-> "bc", id |-> 2]
t1 == [kind |-> "tb", id |-> 1]
l1 == [kind |-> "legacy-test", id |-> 1]

psbt1  == [txid |-> <<1, 1>>, leaf |-> <<FALSE, TRUE>>, signed |-> FALSE]
signed == [psbt1 EXCEPT !.signed = TRUE]
other  == [signed EXCEPT !.txid = <<2, 2>>]

\* The texts of a type; the first is the one a plain call gives.
Texts(T) ==
  CASE T = "Text"        -> <<Word("hello", FALSE)>>
    [] T = "Url"         -> <<UrlText("http://localhost"), Garbage>>
    [] T = "ChainId"     -> <<Decimal(3), Decimal(1), Decimal(U64Max + 1), Garbage>>
    [] T = "Address"     -> <<Hex(TRUE, <<1>>), Hex(FALSE, <<1>>), Hex(TRUE, <<2>>),
                              Hex(TRUE, <<1, 1>>)>>
    [] T = "Wei"         -> <<Decimal(5), Hex(TRUE, <<5>>), Hex(FALSE, <<5>>),
                              Decimal(U256Max + 1)>>
    [] T = "CallData"    -> <<Hex(TRUE, <<7>>), Hex(TRUE, <<>>), EmptyText, Garbage>>
    [] T = "HexData"     -> <<Hex(FALSE, <<7>>), Garbage>>
    [] T = "TronNetwork" -> <<Word("mainnet", FALSE), Word("nile", TRUE), Garbage>>
    [] T = "TronAddress" -> <<Base58(<<65, 1>>, TRUE), Base58(<<65, 2>>, TRUE),
                              Base58(<<65, 1>>, FALSE), Base58(<<64, 1>>, TRUE)>>
    [] T \in {"Sun", "EnergyLimit"} -> <<Decimal(5), Decimal(U64Max + 1), Hex(TRUE, <<5>>)>>
    [] T = "Percentage"  -> <<Decimal(100), Decimal(101)>>
    [] T = "BtcNetwork"  -> <<Word("mainnet", FALSE), Word("testnet3", TRUE),
                              Word("regtest", FALSE), Garbage>>
    [] T = "UncheckedAddress" -> <<BtcText(a1, FALSE), BtcText(a1, TRUE), BtcText(a2, FALSE),
                                   BtcText(t1, FALSE), BtcText(l1, FALSE), Garbage>>
    [] T = "Sats"        -> <<Decimal(0), Decimal(U64Max + 1)>>
    [] T = "SatPerVb"    -> <<Decimal(2), Decimal(0)>>
    [] T = "Psbt"        -> <<PsbtText(psbt1, "hex"), PsbtText(psbt1, "base64"), Garbage>>
    [] T = "MessageProtocol" -> <<Word("ecdsa", TRUE), Garbage>>

SomeTexts(T) == {Texts(T)[i] : i \in DOMAIN Texts(T)}
SomeValues(T) == {Parse(T, t) : t \in SomeTexts(T)} \ {Bad}

Lists == {<<0>>, <<0, 1>>, <<2>>}
AnyJson == Opaque("any")
RawObject(t) == Object([raw |-> Str(t)])

\* Fields that a check reads together.
Related == {<<"to", "data">>, <<"network", "address">>, <<"network", "from">>,
            <<"network", "to">>, <<"psbt", "signInputs">>, <<"finalize", "broadcast">>,
            <<"message", "raw">>, <<"psbt", "psbtFile">>}

\* The calls that differ from base in one field or in two related ones.
Varied(base, offers) ==
  LET fields == DOMAIN base
      pairs == {<<f, f>> : f \in fields} \cup {r \in Related : {r[1], r[2]} \subseteq fields}
  IN UNION {{[base EXCEPT ![r[1]] = a, ![r[2]] = b] :
               a \in offers[r[1]], b \in offers[r[2]]} : r \in pairs}

Given(v, missing) == [f \in {g \in DOMAIN v : v[g] # missing} |-> v[f]]

(* Bodies for the control API. *)
JsonOffers(r) ==
  {Absent} \cup
  CASE r.how \in {"required", "optional"} -> {Str(t) : t \in SomeTexts(r.type)} \cup {Num(5)}
    [] r.how = "u64"     -> {Num(3), Num(1), Num(U64Max + 1), Str(Decimal(3))}
    [] r.how = "bool"    -> {Bool(TRUE), Bool(FALSE), Num(1)}
    [] r.how = "message" -> {Str(Word("hello", FALSE)), RawObject(Hex(FALSE, <<7>>)),
                             RawObject(Garbage), Num(5)}
    [] r.how = "indexes" -> {Array(s) : s \in Lists \cup {<<>>, <<U32Max + 1>>}} \cup {Num(5)}
    [] OTHER             -> {AnyJson}

JsonBase(r) ==
  IF r.how = "required" THEN Str(Head(Texts(r.type)))
  ELSE IF r.how = "message" THEN Str(Word("hello", FALSE))
  ELSE IF r.how = "present" THEN AnyJson ELSE Absent

Bodies(readers) ==
  {Given(v, Absent) : v \in Varied([f \in DOMAIN readers |-> JsonBase(readers[f])],
                                   [f \in DOMAIN readers |-> JsonOffers(readers[f])])}

(* Arguments for the command line. *)
TypedFile == [domain |-> AnyJson, types |-> AnyJson, message |-> AnyJson,
              primaryType |-> Str(Word("hello", FALSE))]

Files(field) ==
  IF field = "file"
  THEN {JsonText(TypedFile), JsonText([primaryType |-> TypedFile.primaryType]), Garbage}
  ELSE {JsonText([x |-> AnyJson]), Garbage}

ArgOffers(flag, field) ==
  CASE flag.type = "Switch"     -> {None, EmptyText}
    [] flag.type = "Indexes"    -> {None} \cup Lists
    [] flag.type = "JsonString" -> {None} \cup Files(field)
    [] OTHER                    -> {None} \cup SomeTexts(flag.type)

\* A plain command gives its required flags and, where one of two is needed, this one.
ArgBase(flag, field) ==
  IF flag.how = "optional" /\ field \notin {"to", "message", "psbt"} THEN None
  ELSE IF field = "file" THEN JsonText(TypedFile)
  ELSE IF flag.type = "JsonString" THEN JsonText([x |-> AnyJson])
  ELSE Head(Texts(flag.type))

Args(command) ==
  {Given(v, None) : v \in Varied([f \in DOMAIN command |-> ArgBase(command[f], f)],
                                 [f \in DOMAIN command |-> ArgOffers(command[f], f)])}

(* Parameters for the typed signer: values already. *)
ValueOffers(T) ==
  CASE T = "Json"    -> {AnyJson}
    [] T = "Flag"    -> BOOLEAN
    [] T = "Indexes" -> Lists
    [] T = "Message" -> {[as |-> "text", text |-> Word("hello", FALSE)],
                         [as |-> "raw", bytes |-> <<7>>]}
    [] OTHER         -> SomeValues(T)

ValueBase(T) ==
  CASE T = "Json"    -> AnyJson
    [] T = "Flag"    -> FALSE
    [] T = "Message" -> [as |-> "text", text |-> Word("hello", FALSE)]
    [] OTHER         -> Parse(T, Head(Texts(T)))

Params(types) ==
  LET required(f) == types[f].how = "required" IN
  Varied([f \in DOMAIN types |-> IF required(f) THEN ValueBase(types[f].type) ELSE None],
         [f \in DOMAIN types |->
            ValueOffers(types[f].type) \cup (IF required(f) THEN {} ELSE {None})])

MCInputs ==
  [evm  |-> [serve  |-> [op \in DOMAIN EvmRequest |-> Bodies(EvmReaders[op])],
             cli    |-> [op \in DOMAIN EvmRequest |-> Args(EvmCommand[op])],
             signer |-> [op \in DOMAIN EvmRequest |-> Params(ParamTypes("evm", op))]],
   tron |-> [serve  |-> [op \in DOMAIN TronRequest |-> Bodies(TronReaders[op])],
             cli    |-> [op \in DOMAIN TronRequest |-> Args(TronCommand[op])],
             signer |-> [op \in DOMAIN TronRequest |-> Params(ParamTypes("tron", op))]],
   btc  |-> [serve  |-> [op \in DOMAIN BtcRequest |-> Bodies(BtcReaders[op])],
             cli    |-> [op \in DOMAIN BtcRequest |-> Args(BtcCommand[op])],
             signer |-> [op \in DOMAIN BtcRequest |-> Params(ParamTypes("btc", op))]]]

(* The environment: nothing; an account; an account that does not parse; junk and empty. *)
MCEnvs ==
  [evm  |-> {[account |-> None, default |-> None],
             [account |-> Hex(FALSE, <<1>>), default |-> Decimal(3)],
             [account |-> Garbage, default |-> Decimal(0)],
             [account |-> EmptyText, default |-> Garbage]},
   tron |-> {[account |-> None, default |-> None],
             [account |-> Base58(<<65, 1>>, TRUE), default |-> Word("shasta", FALSE)],
             [account |-> Base58(<<65, 1>>, FALSE), default |-> None],
             [account |-> EmptyText, default |-> Garbage]},
   btc  |-> {[account |-> None, default |-> None],
             [account |-> BtcText(a1, TRUE), default |-> None],
             [account |-> BtcText(t1, TRUE), default |-> Word("signet", TRUE)],
             [account |-> Garbage, default |-> Garbage]}]

(* What a wallet's page may answer: right, wrong in one part, or malformed. *)
Hashes == {Hex(TRUE, <<1, 1>>), Hex(FALSE, <<1, 1>>), Hex(TRUE, <<1>>)}
Signatures == {Hex(TRUE, <<9>>), EmptyText}

Deployed(contract) ==
  JsonText([txHash |-> Str(Hex(FALSE, <<1, 1>>)), contractAddress |-> Str(contract)])
AccountOf(a) == JsonText([address |-> Str(BtcText(a, TRUE)), publicKey |-> Str(KeyText("k", FALSE))])
SignedAs(p) == JsonText([psbt |-> Str(PsbtText(p, "base64"))])
Sent(p, txid) == JsonText([psbt |-> Str(PsbtText(p, "hex")), txid |-> txid])

MCAnswers ==
  [evm  |-> [connect |-> {Hex(TRUE, <<1>>), Garbage}, send_transaction |-> Hashes,
             sign_message |-> Signatures, sign_typed_data |-> Signatures],
   tron |-> [connect |-> {Base58(<<65, 1>>, TRUE), Garbage}, send_transaction |-> Hashes,
             trigger_contract |-> Hashes,
             deploy_contract |-> {Deployed(Base58(<<65, 2>>, TRUE)), Deployed(Garbage),
                                  JsonText([txHash |-> Str(Hex(TRUE, <<1, 1>>))]), Garbage},
             sign_message |-> Signatures, sign_typed_data |-> Signatures],
   btc  |-> [connect |-> {AccountOf(a1), AccountOf(t1), JsonText([address |-> Num(1)]), Garbage},
             send_transfer |-> {Hex(FALSE, <<1, 1>>), Hex(TRUE, <<1, 1>>)},
             sign_psbt |-> {SignedAs(signed), SignedAs(other),
                            Sent(signed, Str(Hex(FALSE, <<1, 1>>))), Sent(signed, Opaque("null")),
                            Sent(signed, Str(Hex(FALSE, <<2, 2>>))), Garbage},
             sign_message |-> {Base64(<<1>>), Base64(<<>>)}]]
=============================================================================
