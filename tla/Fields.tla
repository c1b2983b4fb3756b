------------------------------ MODULE Fields ------------------------------
(***************************************************************************)
(* How a request is put together from named fields, for every chain: the   *)
(* readers that Request::from_json takes them with from a JSON body, the   *)
(* shape serde writes them in, the flags of the command line, and the one  *)
(* rule about an expected account.  A JSON value is a record tagged with   *)
(* its JSON type; a field the body lacks is Absent.                        *)
(***************************************************************************)
EXTENDS Values

Str(t)    == [json |-> "string", text |-> t]
Num(n)    == [json |-> "number", n |-> n]
Bool(b)   == [json |-> "bool", b |-> b]
Array(s)  == [json |-> "array", items |-> s]
Object(f) == [json |-> "object", fields |-> f]
Opaque(i) == [json |-> "opaque", id |-> i]  \* an object or array nothing looks into
EmptyObject == Opaque("{}")

Absent == [json |-> "absent"]

Get(body, key) == IF key \in DOMAIN body THEN body[key] ELSE Absent

IsText(j) == j.json = "string"
IsAbsent(j) == j.json = "absent"

\* The text of a field; a field that has none is read as one no type accepts.
TextAt(body, key) == IF IsText(Get(body, key)) THEN Get(body, key).text ELSE Garbage

\* The fields of f and those of g (TLC's @@, by a definition the provers can use).
Join(f, g) == [k \in DOMAIN f \cup DOMAIN g |-> IF k \in DOMAIN f THEN f[k] ELSE g[k]]

Or(v, default) == IF v = None THEN default ELSE v

(***************************************************************************)
(* Types by name, and fields: of a struct, each with its type and whether  *)
(* it is an Option; of a reader, with how from_json takes it.              *)
(***************************************************************************)
ReqField(T) == [how |-> "required", type |-> T]
OptField(T) == [how |-> "optional", type |-> T]
Field(how)  == [how |-> how, type |-> "Json"]

Parse(T, t) ==
  CASE T = "Text"             -> t
    [] T = "Url"              -> ParseUrl(t)
    [] T = "ChainId"          -> ParseChainId(t)
    [] T = "Address"          -> ParseAddress(t)
    [] T = "Wei"              -> ParseWei(t)
    [] T = "CallData"         -> ParseCallData(t)
    [] T = "HexData"          -> ParseHexData(t)
    [] T = "TxHash"           -> ParseTxHash(t)
    [] T = "Signature"        -> ParseSignature(t)
    [] T = "TronNetwork"      -> ParseTronNetwork(t)
    [] T = "TronAddress"      -> ParseTronAddress(t)
    [] T = "Sun"              -> ParseSun(t)
    [] T = "EnergyLimit"      -> ParseEnergyLimit(t)
    [] T = "Percentage"       -> ParsePercentage(t)
    [] T = "BtcNetwork"       -> ParseBtcNetwork(t)
    [] T = "UncheckedAddress" -> ParseUncheckedAddress(t)
    [] T = "Sats"             -> ParseSats(t)
    [] T = "SatPerVb"         -> ParseSatPerVb(t)
    [] T = "Psbt"             -> ParsePsbt(t)
    [] T = "MessageProtocol"  -> ParseMessageProtocol(t)

Spell(T, v) ==
  CASE T = "Text"             -> v
    [] T = "Url"              -> SpellUrl(v)
    [] T = "Address"          -> SpellAddress(v)
    [] T = "Wei"              -> SpellWei(v)
    [] T = "CallData"         -> SpellCallData(v)
    [] T = "HexData"          -> SpellHexData(v)
    [] T = "TxHash"           -> SpellTxHash(v)
    [] T = "Signature"        -> SpellSignature(v)
    [] T = "TronNetwork"      -> SpellTronNetwork(v)
    [] T = "TronAddress"      -> SpellTronAddress(v)
    [] T = "Sun"              -> SpellSun(v)
    [] T = "BtcNetwork"       -> SpellBtcNetwork(v)
    [] T = "UncheckedAddress" -> SpellBtcAddress(v)
    [] T = "Sats"             -> SpellSats(v)
    [] T = "SatPerVb"         -> SpellSatPerVb(v)
    [] T = "Psbt"             -> SpellPsbt(v)
    [] T = "MessageProtocol"  -> SpellMessageProtocol(v)

\* Mutant: the bytes of a raw message are written as its text.
WireOfRawAsText(T, v) ==
  CASE T \in {"ChainId", "EnergyLimit", "Percentage"} -> Num(v)
    [] T = "Json"    -> v
    [] T = "Flag"    -> Bool(v)
    [] T = "Indexes" -> Array(v)
    [] T = "Message" -> Str(IF v.as = "text" THEN v.text ELSE SpellCallData(v.bytes))
    [] OTHER         -> Str(Spell(T, v))

\* What serde writes for a field of type T that holds v.
WireOf(T, v) ==
  CASE T \in {"ChainId", "EnergyLimit", "Percentage"} -> Num(v)
    [] T = "Json"    -> v
    [] T = "Flag"    -> Bool(v)
    [] T = "Indexes" -> Array(v)
    [] T = "Message" -> IF v.as = "text" THEN Str(v.text)
                        ELSE Object([raw |-> Str(SpellCallData(v.bytes))])
    [] OTHER         -> Str(Spell(T, v))

\* The body GET /api/pending serves: an Option that is None is skipped.
Wire(types, fields) ==
  [f \in {g \in DOMAIN fields : types[g].how = "required" \/ fields[g] # None} |->
     WireOf(types[f].type, fields[f])]

\* What a field of type T may hold.
OfType(T, v) ==
  CASE T \in {"ChainId", "Sun", "EnergyLimit", "Sats"} -> v <= U64Max
    [] T = "Wei"             -> v <= U256Max
    [] T = "Percentage"      -> v <= 100
    [] T = "SatPerVb"        -> v <= U64Max /\ v # 0
    [] T = "Address"         -> Len(v) = AddressLen
    [] T = "TxHash"          -> Len(v) = HashLen
    [] T = "Signature"       -> v # <<>>
    [] T = "TronNetwork"     -> v \in TronNetworks
    [] T = "TronAddress"     -> Len(v) = AddressLen + 1 /\ v[1] = TronPrefix
    [] T = "BtcNetwork"      -> v \in BtcNetworks
    [] T = "MessageProtocol" -> v \in MessageProtocols
    [] T = "Json"            -> ~IsAbsent(v)
    [] T = "Flag"            -> v \in BOOLEAN
    [] T = "Indexes"         -> v \in Seq(0..U32Max)
    [] T = "Message"         -> IF v.as = "text" THEN v = [as |-> "text", text |-> v.text]
                                ELSE v = [as |-> "raw", bytes |-> v.bytes] /\ v.bytes # Bad
    [] OTHER                 -> TRUE

\* The fields of a struct: no field more or less, and only an Option is ever None.
WellTyped(types, fields) ==
  /\ DOMAIN fields = DOMAIN types
  /\ \A f \in DOMAIN types :
       \/ types[f].how = "optional" /\ fields[f] = None
       \/ OfType(types[f].type, fields[f])

(***************************************************************************)
(* The readers of from_json.                                               *)
(***************************************************************************)
ReqParsed(T, j) == IF IsText(j) THEN Parse(T, j.text) ELSE Bad

OptParsed(T, j) == IF IsText(j) THEN Parse(T, j.text) ELSE None

AsU64(j) == IF j.json = "number" /\ j.n <= U64Max THEN j.n ELSE None

JsonField(j) == IF IsAbsent(j) THEN EmptyObject ELSE j

BoolField(j) ==
  IF IsAbsent(j) THEN FALSE ELSE IF j.json = "bool" THEN j.b ELSE Bad

SignableMessage(j) ==
  CASE j.json = "string" -> [as |-> "text", text |-> j.text]
    [] j.json = "object" ->
         LET raw == ReqParsed("CallData", Get(j.fields, "raw")) IN
         IF raw = Bad THEN Bad ELSE [as |-> "raw", bytes |-> raw]
    [] OTHER -> Bad

SignInputsField(j) ==
  IF IsAbsent(j) THEN None
  ELSE IF j.json = "array" /\ j.items \in Seq(0..U32Max) THEN j.items ELSE Bad

Read(reader, j) ==
  CASE reader.how = "required"   -> ReqParsed(reader.type, j)
    [] reader.how = "optional"   -> OptParsed(reader.type, j)
    [] reader.how = "u64"        -> AsU64(j)
    [] reader.how = "json"       -> JsonField(j)
    [] reader.how = "value"      -> IF IsAbsent(j) THEN None ELSE j
    [] reader.how = "present"    -> IF IsAbsent(j) THEN Bad ELSE j
    [] reader.how = "bool"       -> BoolField(j)
    [] reader.how = "message"    -> SignableMessage(j)
    [] reader.how = "indexes"    -> SignInputsField(j)

ReadAll(readers, body) == [f \in DOMAIN readers |-> Read(readers[f], Get(body, f))]

(***************************************************************************)
(* A request is its operation and its fields, unless one was refused.      *)
(***************************************************************************)
Refused == [op |-> "refused"]

RequestOf(op, fields) ==
  IF \E f \in DOMAIN fields : fields[f] = Bad THEN Refused ELSE [op |-> op, fields |-> fields]

ExpectAccount(named, account) == IF named \in {None, account} THEN account ELSE Bad

Expecting(request, field, account) ==
  RequestOf(request.op,
            [request.fields EXCEPT ![field] = ExpectAccount(@, account)])

(***************************************************************************)
(* The command line: clap parses each flag that is given as the flag's     *)
(* type, and refuses to run without a required one.  A flag that is not    *)
(* given is not in args.                                                   *)
(***************************************************************************)
ParseJsonString(t) == IF t.form = "json" THEN Object(t.fields) ELSE Bad

TypedDataReaders ==
  [domain |-> Field("json"), types |-> Field("json"), primaryType |-> ReqField("Text"),
   message |-> Field("json")]

TypedDataFile ==
  [domain |-> Field("present"), types |-> Field("present"),
   primaryType |-> ReqField("Text"), message |-> Field("present")]

\* The fields of a typed-data file, all of which it must have.
FileFields(file) ==
  IF file = Bad THEN [f \in DOMAIN TypedDataFile |-> Bad] ELSE ReadAll(TypedDataFile, file.fields)

ParseFlag(T, arg) ==
  CASE T = "Switch"     -> TRUE
    [] T = "Indexes"    -> arg
    [] T = "JsonString" -> ParseJsonString(arg)
    [] OTHER            -> Parse(T, arg)

NotGiven(flag) ==
  IF flag.how = "required" THEN Bad ELSE IF flag.type = "Switch" THEN FALSE ELSE None

Flags(command, args) ==
  [f \in DOMAIN command |->
     IF f \in DOMAIN args THEN ParseFlag(command[f].type, args[f]) ELSE NotGiven(command[f])]
=============================================================================
