--------------------------- MODULE RequestsProofs ---------------------------
(***************************************************************************)
(* Lemmas about the requests that the three ways in build, for every body, *)
(* flag, parameter, default and account.  A request that is built is sound *)
(* (Sound): its fields have their types, none was refused, and a Bitcoin   *)
(* request keeps its constructor's promises.  From that follow the account *)
(* it expects, the network its addresses are on, the inputs it signs, and  *)
(* that its wire form is read back as the request.                         *)
(***************************************************************************)
EXTENDS Surfaces, FieldsProofs

(***************************************************************************)
(* Bodies.                                                                 *)
(***************************************************************************)

\* Each reader is for its field.
ReadersFor(readers, types) ==
  /\ DOMAIN readers = DOMAIN types
  /\ \A f \in DOMAIN types : ReaderFor(readers[f], types[f])

\* The readers of an EVM body are for the fields of the request.
LEMMA EvmReadersFor ==
  ASSUME NEW op \in DOMAIN EvmRequest
  PROVE  ReadersFor(EvmReaders[op], EvmRequest[op])
<1>. USE DEF ReadersFor, ReaderFor, ReqField, OptField, Field, ParsedTypes, SpelledTypes
<1>1. CASE op = "connect"
  BY <1>1 DEF EvmReaders, EvmRequest
<1>2. CASE op = "send_transaction"
  BY <1>2 DEF EvmReaders, EvmRequest
<1>3. CASE op = "sign_message"
  BY <1>3 DEF EvmReaders, EvmRequest
<1>4. CASE op = "sign_typed_data"
  BY <1>4 DEF EvmReaders, EvmRequest, Join, TypedDataReaders, EvmTypedData
<1>. QED
  BY <1>1, <1>2, <1>3, <1>4 DEF EvmRequest

\* The readers of a TRON body are for the fields of the request.
LEMMA TronReadersFor ==
  ASSUME NEW op \in DOMAIN TronRequest
  PROVE  ReadersFor(TronReaders[op], TronRequest[op])
<1>. USE DEF ReadersFor, ReaderFor, ReqField, OptField, Field, ParsedTypes, SpelledTypes
<1>1. CASE op = "connect"
  BY <1>1 DEF TronReaders, TronRequest
<1>2. CASE op = "send_transaction"
  BY <1>2 DEF TronReaders, TronRequest
<1>3. CASE op = "trigger_contract"
  BY <1>3 DEF TronReaders, TronRequest
<1>4. CASE op = "deploy_contract"
  BY <1>4 DEF TronReaders, TronRequest
<1>5. CASE op = "sign_message"
  BY <1>5 DEF TronReaders, TronRequest
<1>6. CASE op = "sign_typed_data"
  BY <1>6 DEF TronReaders, TronRequest, Join, TypedDataReaders, TronTypedData
<1>. QED
  BY <1>1, <1>2, <1>3, <1>4, <1>5, <1>6 DEF TronRequest

\* What a body is read as is well typed.
LEMMA ReadAllTyped ==
  ASSUME NEW readers, NEW types, ReadersFor(readers, types), NEW body,
         \A f \in DOMAIN body : body[f].json = "bool" => body[f].b \in BOOLEAN,
         \A f \in DOMAIN readers : ReadAll(readers, body)[f] # Bad
  PROVE  WellTyped(types, ReadAll(readers, body))
<1>1. DOMAIN ReadAll(readers, body) = DOMAIN types
  BY DEF ReadAll, ReadersFor
<1>2. ASSUME NEW f \in DOMAIN types
      PROVE  FieldOK(types[f], ReadAll(readers, body)[f])
  <2>. DEFINE j == Get(body, f)
  <2>1. j.json = "bool" => j.b \in BOOLEAN
    BY DEF Get, Absent
  <2>2. ReadAll(readers, body)[f] = Read(readers[f], j) /\ Read(readers[f], j) # Bad
    BY <1>1 DEF ReadAll
  <2>. HIDE DEF j
  <2>. QED
    BY <2>1, <2>2, ReadOfType DEF ReadersFor
<1>. QED
  BY <1>1, <1>2 DEF WellTyped, FieldOK

\* What a Bitcoin body is read for: the fields of the request, but the network and the
\* protocol may be left out, and what the constructor computes is not read.
BtcRead(op) ==
  [f \in DOMAIN BtcReaders[op] |->
     IF f \in {"network", "protocol"} THEN BtcReaders[op][f] ELSE BtcRequest[op][f]]

\* The readers of a Bitcoin body are for the fields of the parameters.
LEMMA BtcReadersFor ==
  ASSUME NEW op \in DOMAIN BtcRequest
  PROVE  ReadersFor(BtcReaders[op], BtcRead(op))
<1>. USE DEF ReadersFor, ReaderFor, ReqField, OptField, Field, ParsedTypes, SpelledTypes,
             BtcRead
<1>1. CASE op = "connect"
  BY <1>1 DEF BtcReaders, BtcRequest
<1>2. CASE op = "send_transfer"
  BY <1>2 DEF BtcReaders, BtcRequest
<1>3. CASE op = "sign_psbt"
  BY <1>3 DEF BtcReaders, BtcRequest
<1>4. CASE op = "sign_message"
  BY <1>4 DEF BtcReaders, BtcRequest
<1>. QED
  BY <1>1, <1>2, <1>3, <1>4 DEF BtcRequest

\* The default chain or network is one, whatever the environment says.
LEMMA DefaultTyped ==
  ASSUME NEW c \in {"evm", "tron", "btc"}, NEW t
  PROVE  /\ OfType(IF c = "evm" THEN "ChainId" ELSE IF c = "tron" THEN "TronNetwork"
                   ELSE "BtcNetwork", Default(c, t))
         /\ c # "evm" => Default(c, t) # None
<1>1. \A T \in ParsedTypes : \A builtin : 
        OfType(T, builtin) => OfType(T, ParsedOr(T, t, builtin))
  BY ParseOfType DEF ParsedOr
<1>2. OfType("ChainId", 1)
  BY WidthsType DEF OfType
<1>3. OfType("TronNetwork", "mainnet") /\ OfType("BtcNetwork", "mainnet")
  BY DEF OfType, TronNetworks, BtcNetworks
<1>4. {"ChainId", "TronNetwork", "BtcNetwork"} \subseteq ParsedTypes
  BY DEF ParsedTypes, SpelledTypes
<1>5. CASE c = "evm"
  BY <1>1, <1>2, <1>4, <1>5 DEF Default, DefaultChainId
<1>6. CASE c = "tron"
  <2>1. OfType("TronNetwork", Default(c, t))
    BY <1>1, <1>3, <1>4, <1>6 DEF Default
  <2>. QED
    BY <1>6, <2>1, NoneIsNoValue DEF OfType
<1>7. CASE c = "btc"
  <2>1. OfType("BtcNetwork", Default(c, t))
    BY <1>1, <1>3, <1>4, <1>7 DEF Default
  <2>. QED
    BY <1>7, <2>1, NoneIsNoValue DEF OfType
<1>. QED
  BY <1>5, <1>6, <1>7

\* Replacing a field by a value of its type keeps the others.
LEMMA ExceptTyped ==
  ASSUME NEW types, NEW fields, WellTyped(types, fields), NEW f \in DOMAIN types, NEW v,
         FieldOK(types[f], v)
  PROVE  WellTyped(types, [fields EXCEPT ![f] = v])
BY DEF WellTyped, FieldOK

\* What from_json makes of an EVM body is well typed.
LEMMA EvmBodyTyped ==
  ASSUME NEW op \in DOMAIN EvmRequest, NEW body, EvmFromJson(op, body) # Refused,
         \A f \in DOMAIN body : body[f].json = "bool" => body[f].b \in BOOLEAN
  PROVE  /\ EvmFromJson(op, body).fields = ReadAll(EvmReaders[op], body)
         /\ WellTyped(EvmRequest[op], EvmFromJson(op, body).fields)
<1>. DEFINE fields == ReadAll(EvmReaders[op], body)
<1>1. EvmFromJson(op, body) = RequestOf(op, fields)
  BY DEF EvmFromJson
<1>2. EvmFromJson(op, body).fields = fields /\ \A f \in DOMAIN fields : fields[f] # Bad
  BY <1>1 DEF RequestOf
<1>. QED
  BY <1>2, EvmReadersFor, ReadAllTyped DEF ReadAll

\* What from_json makes of a TRON body is well typed.
LEMMA TronBodyTyped ==
  ASSUME NEW op \in DOMAIN TronRequest, NEW body, TronFromJson(op, body) # Refused,
         \A f \in DOMAIN body : body[f].json = "bool" => body[f].b \in BOOLEAN
  PROVE  /\ TronFromJson(op, body).fields = ReadAll(TronReaders[op], body)
         /\ WellTyped(TronRequest[op], TronFromJson(op, body).fields)
<1>. DEFINE fields == ReadAll(TronReaders[op], body)
<1>1. TronFromJson(op, body).fields = fields /\ \A f \in DOMAIN fields : fields[f] # Bad
  BY DEF TronFromJson, RequestOf
<1>. QED
  BY <1>1, TronReadersFor, ReadAllTyped DEF ReadAll

(***************************************************************************)
(* The Bitcoin constructors.                                               *)
(***************************************************************************)
BtcOps == {"connect", "send_transfer", "sign_psbt", "sign_message"}

\* The values a constructor is given are those of a request, but for what it computes.
BtcGiven(op, p) ==
  /\ DOMAIN p = DOMAIN BtcReaders[op]
  /\ \A f \in DOMAIN p : FieldOK(BtcRequest[op][f], p[f])

\* What is read of a body, flags or connect's parameters, with defaults filled in, may be
\* given to a constructor.
LEMMA BtcDefaultsGiven ==
  ASSUME NEW op \in DOMAIN BtcRequest, NEW d, OfType("BtcNetwork", d), NEW q,
         DOMAIN q = DOMAIN BtcReaders[op],
         \A f \in DOMAIN q : q[f] # Bad => FieldOK(BtcRead(op)[f], q[f]),

         NEW p,
         p \in {DefaultedProtocol(op, BtcDefault(q, d)), BtcDefault(DefaultedProtocol(op, q), d)},
         \A f \in DOMAIN p : p[f] # Bad
  PROVE  BtcGiven(op, p)
<1>1. op \in BtcOps
  BY DEF BtcRequest, BtcOps
<1>2. "network" \in DOMAIN q /\ (op = "sign_message" <=> "protocol" \in DOMAIN q)
  <2>1. CASE op = "connect"
    BY <2>1 DEF BtcReaders
  <2>2. CASE op = "send_transfer"
    BY <2>2 DEF BtcReaders
  <2>3. CASE op = "sign_psbt"
    BY <2>3 DEF BtcReaders
  <2>4. CASE op = "sign_message"
    BY <2>4 DEF BtcReaders
  <2>. QED
    BY <1>1, <2>1, <2>2, <2>3, <2>4 DEF BtcOps
<1>3. /\ DOMAIN p = DOMAIN q
      /\ \A f \in DOMAIN q : p[f] = IF f = "network" THEN Or(q[f], d)
                                    ELSE IF f = "protocol" THEN Or(q[f], DefaultProtocol)
                                    ELSE q[f]
  BY <1>2 DEF DefaultedProtocol, BtcDefault
<1>4. ASSUME NEW f \in DOMAIN p
      PROVE  FieldOK(BtcRequest[op][f], p[f])
  <2>1. f \in DOMAIN q /\ p[f] # Bad
    BY <1>3
  <2>2. q[f] # Bad
    BY <1>3, <2>1, NoneIsNotBad DEF Or
  <2>3. FieldOK(BtcRead(op)[f], q[f])
    BY <2>1, <2>2
  <2>4. CASE f = "network"
    <3>1. BtcRead(op)[f] = OptField("BtcNetwork") /\ BtcRequest[op][f] = ReqField("BtcNetwork")
      BY <1>1, <1>3, <2>4 DEF BtcRead, BtcReaders, BtcRequest, BtcOps
    <3>2. OfType("BtcNetwork", p[f])
      BY <1>3, <2>1, <2>3, <2>4, <3>1 DEF FieldOK, Or, OptField
    <3>. QED
      BY <3>1, <3>2 DEF FieldOK, ReqField
  <2>5. CASE f = "protocol"
    <3>1. /\ BtcRead(op)[f] = OptField("MessageProtocol")
          /\ BtcRequest[op][f] = ReqField("MessageProtocol")
      BY <1>2, <1>3, <2>5 DEF BtcRead, BtcReaders, BtcRequest
    <3>2. OfType("MessageProtocol", p[f])
      BY <1>3, <2>1, <2>3, <2>5, <3>1 DEF FieldOK, Or, OptField, DefaultProtocol, OfType,
                                          MessageProtocols
    <3>. QED
      BY <3>1, <3>2 DEF FieldOK, ReqField
  <2>6. CASE f \notin {"network", "protocol"}
    <3>1. p[f] = q[f]
      BY <1>3, <2>1, <2>6
    <3>2. BtcRead(op)[f] = BtcRequest[op][f]
      BY <2>1, <2>6 DEF BtcRead
    <3>. QED
      BY <2>3, <3>1, <3>2
  <2>. QED
    BY <2>4, <2>5, <2>6
<1>. QED
  BY <1>3, <1>4 DEF BtcGiven

Indexes == 0..U32Max

\* The rule that LeafScriptInputs follows up to n.
AmongRule(psbt, listed, g, n) ==
  g = [i \in 0..n |-> IF i = 0 THEN <<>>
                      ELSE IF SpendsScriptPath(psbt, listed[i]) THEN Append(g[i - 1], listed[i])
                      ELSE g[i - 1]]

\* There is a function that follows it, so the one that is chosen does.
LEMMA AmongExists ==
  ASSUME NEW psbt, NEW listed, NEW n \in Nat
  PROVE  \E g : AmongRule(psbt, listed, g, n)
<1>. DEFINE S == {k \in Nat : \E g : AmongRule(psbt, listed, g, k)}
<1>1. 0 \in S
  <2>1. AmongRule(psbt, listed, [i \in 0..0 |-> <<>>], 0)
    BY DEF AmongRule
  <2>. QED
    BY <2>1
<1>2. ASSUME NEW k \in Nat, k \in S
      PROVE  k + 1 \in S
  <2>1. PICK g : AmongRule(psbt, listed, g, k)
    BY <1>2
  <2>. DEFINE next == IF SpendsScriptPath(psbt, listed[k + 1]) THEN Append(g[k], listed[k + 1])
                      ELSE g[k]
              h == [i \in 0..(k + 1) |-> IF i = k + 1 THEN next ELSE g[i]]
  <2>2. \A i \in 0..k : g[i] = IF i = 0 THEN <<>>
                      ELSE IF SpendsScriptPath(psbt, listed[i]) THEN Append(g[i - 1], listed[i])
                      ELSE g[i - 1]
    BY <2>1 DEF AmongRule
  <2>. HIDE DEF next
  <2>3. \A i \in 0..k : h[i] = g[i] /\ (i # 0 => h[i - 1] = g[i - 1])
    OBVIOUS
  <2>4. h[k + 1] = next /\ h[(k + 1) - 1] = g[k]
    OBVIOUS
  <2>. HIDE DEF h
  <2>5. \A i \in 0..(k + 1) : h[i] = IF i = 0 THEN <<>>
                      ELSE IF SpendsScriptPath(psbt, listed[i]) THEN Append(h[i - 1], listed[i])
                      ELSE h[i - 1]
    <3>. SUFFICES ASSUME NEW i \in 0..(k + 1)
                  PROVE  h[i] = IF i = 0 THEN <<>>
                      ELSE IF SpendsScriptPath(psbt, listed[i]) THEN Append(h[i - 1], listed[i])
                      ELSE h[i - 1]
      OBVIOUS
    <3>1. CASE i = k + 1
      BY <2>4, <3>1 DEF next
    <3>2. CASE i # k + 1
      <4>1. i \in 0..k
        BY <3>2
      <4>. QED
        BY <2>2, <2>3, <4>1
    <3>. QED
      BY <3>1, <3>2
  <2>6. AmongRule(psbt, listed, h, k + 1)
    BY <2>5 DEF AmongRule, h
  <2>. QED
    BY <2>6
<1>. HIDE DEF S
<1>3. Nat \subseteq S
  BY <1>1, <1>2, Induction
<1>. QED
  BY <1>3 DEF S

\* The inputs singled out for a leaf script are exactly the listed ones that have one.
THEOREM LeafScriptInputsRange ==
  ASSUME NEW psbt, NEW listed \in Seq(Indexes)
  PROVE  LET script == LeafScriptInputs(psbt, listed) IN
         /\ script \in Seq(Indexes)
         /\ {script[i] : i \in DOMAIN script} =
              {x \in {listed[i] : i \in DOMAIN listed} : SpendsScriptPath(psbt, x)}
<1>. DEFINE g == CHOOSE f : AmongRule(psbt, listed, f, Len(listed))
            elems(s) == {s[i] : i \in DOMAIN s}
<1>0. Len(listed) \in Nat
  OBVIOUS
<1>1. AmongRule(psbt, listed, g, Len(listed))
  BY <1>0, AmongExists
<1>2. LeafScriptInputs(psbt, listed) = g[Len(listed)]
  BY Zenon DEF LeafScriptInputs, AmongRule
<1>. HIDE DEF g
<1>3. \A i \in 0..Len(listed) :
         g[i] = IF i = 0 THEN <<>>
                ELSE IF SpendsScriptPath(psbt, listed[i]) THEN Append(g[i - 1], listed[i])
                ELSE g[i - 1]
  BY <1>1 DEF AmongRule
<1>. DEFINE first(n) == {listed[i] : i \in 1..n}
            OK(n) == /\ g[n] \in Seq(Indexes)
                     /\ elems(g[n]) = {x \in first(n) : SpendsScriptPath(psbt, x)}
            S == {n \in Nat : n <= Len(listed) => OK(n)}
<1>4. 0 \in S
  <2>1. g[0] = <<>>
    BY <1>0, <1>3
  <2>2. <<>> \in Seq(Indexes) /\ elems(<<>>) = {}
    OBVIOUS
  <2>3. first(0) = {}
    OBVIOUS
  <2>. HIDE DEF elems, first
  <2>4. OK(0)
    BY <2>1, <2>2, <2>3
  <2>. QED
    BY <2>4
<1>5. ASSUME NEW n \in Nat, n \in S
      PROVE  n + 1 \in S
  <2>0. SUFFICES ASSUME n + 1 <= Len(listed) PROVE OK(n + 1)
    <3>. HIDE DEF OK
    <3>. QED
      OBVIOUS
  <2>. DEFINE x == listed[n + 1]
  <2>1. OK(n)
    <3>. HIDE DEF OK
    <3>. QED
      BY <1>0, <1>5, <2>0
  <2>2. g[n + 1] = IF SpendsScriptPath(psbt, x) THEN Append(g[n], x) ELSE g[n]
    BY <1>0, <1>3, <2>0
  <2>3. x \in Indexes
    BY <1>0, <2>0
  <2>4. first(n + 1) = first(n) \cup {x}
    BY <1>0
  <2>. HIDE DEF x
  <2>5. elems(Append(g[n], x)) = elems(g[n]) \cup {x} /\ Append(g[n], x) \in Seq(Indexes)
    <3>. DEFINE s == g[n]
    <3>1. s \in Seq(Indexes) 
      BY <2>1
    <3>. HIDE DEF s
    <3>2. /\ Append(s, x) \in Seq(Indexes) /\ DOMAIN Append(s, x) = 1..(Len(s) + 1)
          /\ DOMAIN s = 1..Len(s) /\ Len(s) \in Nat
          /\ \A i \in 1..Len(s) : Append(s, x)[i] = s[i] 
          /\ Append(s, x)[Len(s) + 1] = x
      BY <2>3, <3>1
    <3>3. 1..(Len(s) + 1) = 1..Len(s) \cup {Len(s) + 1}
      BY <3>2
    <3>4. elems(Append(s, x)) =
            {Append(s, x)[i] : i \in 1..Len(s)} \cup {Append(s, x)[Len(s) + 1]}
      BY <3>2, <3>3
    <3>5. {Append(s, x)[i] : i \in 1..Len(s)} = elems(s)
      BY <3>2
    <3>. QED
      BY <3>2, <3>4, <3>5 DEF s
  <2>. HIDE DEF first, elems
  <2>. QED
    BY <2>1, <2>2, <2>4, <2>5
<1>. HIDE DEF S
<1>6. Len(listed) \in S
  BY <1>0, <1>4, <1>5, Induction
<1>7. OK(Len(listed))
  BY <1>0, <1>6 DEF S
<1>8. first(Len(listed)) = elems(listed)
  OBVIOUS
<1>. HIDE DEF first
<1>. QED
  BY <1>2, <1>7, <1>8

\* A request that was not refused has its operation and its fields, none of them refused.
LEMMA RequestOfFields ==
  ASSUME NEW op, NEW fields, RequestOf(op, fields) # Refused
  PROVE  /\ RequestOf(op, fields) = [op |-> op, fields |-> fields]
         /\ \A f \in DOMAIN fields : fields[f] # Bad
BY DEF RequestOf

\* A request none of whose fields was refused is made.
LEMMA RequestMade ==
  ASSUME NEW op, NEW fields, \A f \in DOMAIN fields : fields[f] # Bad
  PROVE  /\ RequestOf(op, fields) = [op |-> op, fields |-> fields]
         /\ RequestOf(op, fields) # Refused
<1>1. RequestOf(op, fields) = [op |-> op, fields |-> fields]
  BY DEF RequestOf
<1>2. "fields" \in DOMAIN [op |-> op, fields |-> fields] /\ "fields" \notin DOMAIN Refused
  BY DEF Refused
<1>. QED
  BY <1>1, <1>2

\* The inputs a request singles out.
ScriptInputs(p) ==
  LET script == LeafScriptInputs(p.psbt, Listed(p)) IN IF script = <<>> THEN None ELSE script

\* What every Bitcoin request satisfies: its account and its recipient are on its network,
\* its PSBT has the inputs listed, a broadcast finalizes.
BtcSound(op, p) ==
  /\ LET f == BtcAccountField(op) IN p[f] # None => p.network \in ValidOn(p[f])
  /\ op = "send_transfer" => p.network \in ValidOn(p.to)
  /\ op = "sign_psbt" =>
       /\ \A i \in DOMAIN Listed(p) : Listed(p)[i] < Len(p.psbt.leaf)
       /\ p.finalize = (p.finalize \/ p.broadcast)
       /\ p.scriptPathInputs = ScriptInputs(p)

\* An address that passed its check is on the network.
LEMMA CheckedOnNetwork ==
  ASSUME NEW a, NEW network, Checked(a, network) # Bad
  PROVE  /\ Checked(a, network) = a
         /\ a # None => network \in ValidOn(a)
BY DEF Checked, RequireNetwork

\* The inputs listed are indexes.
LEMMA ListedType ==
  ASSUME NEW p, FieldOK(OptField("Indexes"), p.signInputs)
  PROVE  Listed(p) \in Seq(Indexes)
<1>1. p.signInputs = None \/ p.signInputs \in Seq(Indexes)
  BY DEF FieldOK, OptField, OfType, Indexes
<1>2. <<>> \in Seq(Indexes)
  OBVIOUS
<1>. QED
  BY <1>1, <1>2 DEF Listed, Or

\* A transfer that is built is its parameters, on one network.
LEMMA TransferBuilt ==
  ASSUME NEW p, BtcGiven("send_transfer", p),
         \A f \in DOMAIN SendTransfer(p) : SendTransfer(p)[f] # Bad
  PROVE  LET fields == SendTransfer(p) IN
         /\ \A f \in DOMAIN p : fields[f] = p[f]
         /\ BtcSound("send_transfer", fields)
         /\ WellTyped(BtcRequest["send_transfer"], fields)
<1>. DEFINE fields == SendTransfer(p)
<1>1. DOMAIN p = {"network", "to", "from", "amount", "feeRate"} /\ DOMAIN fields = DOMAIN p
  BY DEF BtcGiven, BtcReaders, SendTransfer
<1>2. /\ fields.to = RequireNetwork(p.to, p.network) /\ fields.from = Checked(p.from, p.network)
      /\ \A f \in DOMAIN p : f \notin {"to", "from"} => fields[f] = p[f]
  BY <1>1 DEF SendTransfer
<1>. HIDE DEF fields
<1>3. \A f \in DOMAIN fields : fields[f] # Bad
  BY DEF fields
<1>4. fields.to = p.to /\ p.network \in ValidOn(p.to)
  BY <1>1, <1>2, <1>3 DEF RequireNetwork
<1>5. fields.from = p.from /\ (p.from # None => p.network \in ValidOn(p.from))
  BY <1>1, <1>2, <1>3, CheckedOnNetwork
<1>6. \A f \in DOMAIN p : fields[f] = p[f]
  BY <1>2, <1>4, <1>5
<1>7. BtcSound("send_transfer", fields)
  BY <1>1, <1>4, <1>5, <1>6 DEF BtcSound, BtcAccountField
<1>8. DOMAIN BtcRequest["send_transfer"] = DOMAIN p
  BY <1>1 DEF BtcRequest
<1>9. WellTyped(BtcRequest["send_transfer"], fields)
  BY <1>1, <1>6, <1>8 DEF BtcGiven, WellTyped, FieldOK
<1>. QED
  BY <1>6, <1>7, <1>9 DEF fields

\* A request about an address that is built is its parameters, on one network.
LEMMA AddressBuilt ==
  ASSUME NEW op \in {"connect", "sign_message"}, NEW p, BtcGiven(op, p), NEW fields,
         fields = [p EXCEPT !.address = Checked(@, p.network)],
         \A f \in DOMAIN fields : fields[f] # Bad
  PROVE  /\ \A f \in DOMAIN p : fields[f] = p[f]
         /\ BtcSound(op, fields)
         /\ WellTyped(BtcRequest[op], fields)
<1>1. /\ {"network", "address"} \subseteq DOMAIN p /\ DOMAIN fields = DOMAIN p
      /\ DOMAIN BtcRequest[op] = DOMAIN p
  <2>1. CASE op = "connect"
    BY <2>1 DEF BtcGiven, BtcReaders, BtcRequest
  <2>2. CASE op = "sign_message"
    BY <2>2 DEF BtcGiven, BtcReaders, BtcRequest
  <2>. QED
    BY <2>1, <2>2
<1>2. /\ fields.address = Checked(p.address, p.network)
      /\ \A f \in DOMAIN p : f # "address" => fields[f] = p[f]
  BY <1>1
<1>3. fields.address = p.address /\ (p.address # None => p.network \in ValidOn(p.address))
  BY <1>1, <1>2, CheckedOnNetwork
<1>4. \A f \in DOMAIN p : fields[f] = p[f]
  BY <1>2, <1>3
<1>5. BtcSound(op, fields)
  BY <1>1, <1>3, <1>4 DEF BtcSound, BtcAccountField
<1>6. WellTyped(BtcRequest[op], fields)
  BY <1>1, <1>4 DEF BtcGiven, WellTyped, FieldOK
<1>. QED
  BY <1>4, <1>5, <1>6

\* A PSBT request that is built is its parameters, finalized if it is to be broadcast, with
\* the inputs to be singled out.
LEMMA PsbtBuilt ==
  ASSUME NEW p, BtcGiven("sign_psbt", p), \A f \in DOMAIN SignPsbt(p) : SignPsbt(p)[f] # Bad
  PROVE  LET fields == SignPsbt(p) IN
         /\ \A f \in DOMAIN p : f # "finalize" => fields[f] = p[f]
         /\ fields.finalize = (p.finalize \/ p.broadcast)
         /\ BtcSound("sign_psbt", fields)
         /\ WellTyped(BtcRequest["sign_psbt"], fields)
<1>. DEFINE fields == SignPsbt(p)
            base == DOMAIN p
<1>1. base = {"network", "psbt", "from", "signInputs", "finalize", "broadcast"}
  BY DEF BtcGiven, BtcReaders
<1>2. /\ DOMAIN fields = base \cup {"scriptPathInputs"}
      /\ \A f \in base : f \notin {"psbt", "from", "finalize"} => fields[f] = p[f]
      /\ fields.psbt = IF \A i \in DOMAIN Listed(p) : Listed(p)[i] < Len(p.psbt.leaf)
                       THEN p.psbt ELSE Bad
      /\ fields.from = Checked(p.from, p.network)
      /\ fields.finalize = (p.finalize \/ p.broadcast)
      /\ fields.scriptPathInputs = ScriptInputs(p)
  BY <1>1 DEF SignPsbt, Join, ScriptInputs
<1>3. \A f \in DOMAIN fields : fields[f] # Bad
  OBVIOUS
<1>. HIDE DEF fields, base
<1>4. fields.psbt = p.psbt /\ \A i \in DOMAIN Listed(p) : Listed(p)[i] < Len(p.psbt.leaf)
  BY <1>1, <1>2, <1>3
<1>5. fields.from = p.from /\ (p.from # None => p.network \in ValidOn(p.from))
  BY <1>1, <1>2, <1>3, CheckedOnNetwork
<1>6. \A f \in base : f # "finalize" => fields[f] = p[f]
  BY <1>2, <1>4, <1>5
<1>7. Listed(fields) = Listed(p) /\ ScriptInputs(fields) = ScriptInputs(p)
  BY <1>1, <1>4, <1>6 DEF Listed, ScriptInputs
<1>8. fields.broadcast = p.broadcast
  BY <1>1, <1>6
<1>9. fields.finalize = (fields.finalize \/ fields.broadcast)
  BY <1>2, <1>8
<1>10. BtcSound("sign_psbt", fields)
  <2>1. fields.network = p.network
    BY <1>1, <1>6
  <2>. QED
    BY <1>2, <1>4, <1>5, <1>7, <1>9, <2>1 DEF BtcSound, BtcAccountField
<1>11. WellTyped(BtcRequest["sign_psbt"], fields)
  <2>1. DOMAIN BtcRequest["sign_psbt"] = DOMAIN fields
    BY <1>1, <1>2 DEF BtcRequest
  <2>2. \A f \in base : f # "finalize" => FieldOK(BtcRequest["sign_psbt"][f], fields[f])
    BY <1>6 DEF BtcGiven, base
  <2>3. FieldOK(BtcRequest["sign_psbt"]["finalize"], fields["finalize"])
    BY <1>2 DEF FieldOK, BtcRequest, ReqField, OfType
  <2>4. FieldOK(BtcRequest["sign_psbt"]["scriptPathInputs"], fields["scriptPathInputs"])
    <3>1. BtcRequest["sign_psbt"]["signInputs"] = OptField("Indexes")
      BY DEF BtcRequest
    <3>2. Listed(p) \in Seq(Indexes)
      BY <1>1, <3>1, ListedType DEF BtcGiven, base
    <3>3. LeafScriptInputs(p.psbt, Listed(p)) \in Seq(Indexes)
      BY <3>2, LeafScriptInputsRange
    <3>. QED
      BY <1>2, <3>3 DEF FieldOK, BtcRequest, OptField, OfType, ScriptInputs, Indexes
  <2>. QED
    BY <1>2, <2>1, <2>2, <2>3, <2>4 DEF WellTyped, FieldOK
<1>. QED
  BY <1>2, <1>6, <1>10, <1>11 DEF fields, base

\* A Bitcoin request that is built is well typed and sound, and made of its parameters.
LEMMA BtcBuilt ==
  ASSUME NEW op \in DOMAIN BtcRequest, NEW p, BtcGiven(op, p), BtcBuild(op, p) # Refused
  PROVE  LET r == BtcBuild(op, p) IN
         /\ r.op = op /\ r = RequestOf(op, r.fields)
         /\ \A f \in DOMAIN r.fields : r.fields[f] # Bad
         /\ \A f \in DOMAIN p : f # "finalize" => r.fields[f] = p[f]
         /\ BtcSound(op, r.fields)
         /\ WellTyped(BtcRequest[op], r.fields)
<1>. DEFINE fields == CASE op = "send_transfer" -> SendTransfer(p)
                        [] op = "sign_psbt"     -> SignPsbt(p)
                        [] OTHER                -> [p EXCEPT !.address = Checked(@, p.network)]
<1>1. BtcBuild(op, p) = RequestOf(op, fields)
  BY DEF BtcBuild
<1>. HIDE DEF fields
<1>2. /\ BtcBuild(op, p).op = op /\ BtcBuild(op, p).fields = fields
      /\ \A f \in DOMAIN fields : fields[f] # Bad
  BY <1>1, RequestOfFields
<1>3. /\ \A f \in DOMAIN p : f # "finalize" => fields[f] = p[f]
      /\ BtcSound(op, fields) /\ WellTyped(BtcRequest[op], fields)
  <2>1. CASE op = "send_transfer"
    <3>1. fields = SendTransfer(p)
      BY <2>1 DEF fields
    <3>. QED
      BY <1>2, <2>1, <3>1, TransferBuilt
  <2>2. CASE op = "sign_psbt"
    <3>1. fields = SignPsbt(p)
      BY <2>2 DEF fields
    <3>. QED
      BY <1>2, <2>2, <3>1, PsbtBuilt
  <2>3. CASE op \in {"connect", "sign_message"}
    <3>1. fields = [p EXCEPT !.address = Checked(@, p.network)]
      BY <2>3 DEF fields
    <3>. QED
      BY <1>2, <2>3, <3>1, AddressBuilt
  <2>. QED
    BY <2>1, <2>2, <2>3 DEF BtcRequest
<1>. QED
  BY <1>1, <1>2, <1>3

\* What a body that serde wrote is read as.
LEMMA ReadAllWritten ==
  ASSUME NEW readers, NEW types, NEW fields, DOMAIN readers \subseteq DOMAIN fields,
         NEW f \in DOMAIN readers, ReaderFor(readers[f], types[f]),
         types[f].type \notin LostTypes,
         readers[f].type # "ChainId", FieldOK(types[f], fields[f])
  PROVE  ReadAll(readers, Wire(types, fields))[f] = fields[f]
BY GetWire, ReadWritten DEF ReadAll

\* The parameters read of a Bitcoin body.
BtcReadParams(op, body, d) ==
  DefaultedProtocol(op, BtcDefault(ReadAll(BtcReaders[op], body), d))

\* The parameters read of a Bitcoin request's wire are the request's fields.
LEMMA BtcReadWire ==
  ASSUME NEW op \in DOMAIN BtcRequest, NEW p, WellTyped(BtcRequest[op], p), NEW d
  PROVE  LET q == BtcReadParams(op, Wire(BtcRequest[op], p), d) IN
         /\ DOMAIN q = DOMAIN BtcReaders[op]
         /\ \A f \in DOMAIN q : q[f] = p[f]
<1>. DEFINE types == BtcRequest[op]
            read == ReadAll(BtcReaders[op], Wire(types, p))
            q == DefaultedProtocol(op, BtcDefault(read, d))
<1>0. op \in BtcOps
  BY DEF BtcRequest, BtcOps
<1>1. /\ DOMAIN BtcReaders[op] \subseteq DOMAIN types
      /\ \A f \in DOMAIN BtcReaders[op] :
           types[f].type \notin LostTypes /\ BtcReaders[op][f].type # "ChainId"
  <2>. USE DEF BtcReaders, BtcRequest, LostTypes, ReqField, OptField, Field
  <2>1. CASE op = "connect"
    BY <2>1
  <2>2. CASE op = "send_transfer"
    BY <2>2
  <2>3. CASE op = "sign_psbt"
    BY <2>3
  <2>4. CASE op = "sign_message"
    BY <2>4
  <2>. QED
    BY <1>0, <2>1, <2>2, <2>3, <2>4 DEF BtcOps
<1>2. DOMAIN p = DOMAIN types /\ \A f \in DOMAIN types : FieldOK(types[f], p[f])
  BY DEF WellTyped, FieldOK
<1>3. /\ "network" \in DOMAIN BtcReaders[op]
      /\ op = "sign_message" <=> "protocol" \in DOMAIN BtcReaders[op]
  <2>1. CASE op = "connect"
    BY <2>1 DEF BtcReaders
  <2>2. CASE op = "send_transfer"
    BY <2>2 DEF BtcReaders
  <2>3. CASE op = "sign_psbt"
    BY <2>3 DEF BtcReaders
  <2>4. CASE op = "sign_message"
    BY <2>4 DEF BtcReaders
  <2>. QED
    BY <1>0, <2>1, <2>2, <2>3, <2>4 DEF BtcOps
<1>4. /\ DOMAIN read = DOMAIN BtcReaders[op] /\ DOMAIN q = DOMAIN read
      /\ \A f \in DOMAIN read : q[f] = IF f = "network" THEN Or(read[f], d)
                                       ELSE IF f = "protocol" THEN Or(read[f], DefaultProtocol)
                                       ELSE read[f]
  BY <1>3 DEF ReadAll, DefaultedProtocol, BtcDefault
<1>. HIDE DEF read, q
<1>5. ASSUME NEW f \in DOMAIN read
      PROVE  q[f] = p[f]
  <2>1. /\ f \in DOMAIN BtcReaders[op]
        /\ f \in DOMAIN types
        /\ f \in DOMAIN p
        /\ FieldOK(types[f], p[f])
    BY <1>1, <1>2, <1>4
  <2>2. CASE f \notin {"network", "protocol"}
    <3>1. ReaderFor(BtcReaders[op][f], types[f])
      BY <2>1, <2>2, BtcReadersFor DEF ReadersFor, BtcRead
    <3>2. read[f] = p[f]
      BY <1>1, <1>2, <2>1, <3>1, ReadAllWritten DEF read
    <3>. QED
      BY <1>4, <2>2, <3>2
  <2>3. read[f] = Read(BtcReaders[op][f], Written(types[f], p[f]))
    BY <1>1, <1>2, <2>1, GetWire DEF read, ReadAll
  <2>4. CASE f = "network"
    <3>1. BtcReaders[op][f] = OptField("BtcNetwork") /\ types[f] = ReqField("BtcNetwork")
      BY <1>0, <2>4 DEF BtcReaders, BtcRequest, BtcOps
    <3>2. OfType("BtcNetwork", p[f]) /\ Written(types[f], p[f]) = WireOf("BtcNetwork", p[f])
      BY <2>1, <3>1 DEF FieldOK, ReqField, Written
    <3>3. read[f] = p[f]
      BY <2>3, <3>1, <3>2, ReadSpelled DEF SpelledTypes
    <3>4. p[f] # None
      BY <3>2, NoneIsNoValue DEF OfType
    <3>. QED
      BY <1>4, <2>4, <3>3, <3>4 DEF Or
  <2>5. CASE f = "protocol"
    <3>1. /\ BtcReaders[op][f] = OptField("MessageProtocol")
          /\ types[f] = ReqField("MessageProtocol")
      BY <1>3, <2>1, <2>5 DEF BtcReaders, BtcRequest
    <3>2. /\ OfType("MessageProtocol", p[f])
          /\ Written(types[f], p[f]) = WireOf("MessageProtocol", p[f])
      BY <2>1, <3>1 DEF FieldOK, ReqField, Written
    <3>3. read[f] = p[f]
      BY <2>3, <3>1, <3>2, ReadSpelled DEF SpelledTypes
    <3>4. p[f] # None
      BY <3>2, NoneIsNoValue DEF OfType
    <3>. QED
      BY <1>4, <2>5, <3>3, <3>4 DEF Or
  <2>. QED
    BY <2>2, <2>4, <2>5
<1>. QED
  BY <1>4, <1>5 DEF q, read, BtcReadParams

\* A sound Bitcoin request is read back from its wire as it was.
LEMMA BtcReadBack ==
  ASSUME NEW op \in DOMAIN BtcRequest, NEW p, WellTyped(BtcRequest[op], p), BtcSound(op, p),
         \A f \in DOMAIN p : p[f] # Bad, NEW d
  PROVE  LET back == BtcFromJson(op, Wire(BtcRequest[op], p), d) IN
         back # Refused /\ \A f \in DOMAIN p : back.fields[f] = p[f]
<1>. DEFINE q == BtcReadParams(op, Wire(BtcRequest[op], p), d)
            back == BtcFromJson(op, Wire(BtcRequest[op], p), d)
            fields == CASE op = "send_transfer" -> SendTransfer(q)
                        [] op = "sign_psbt"     -> SignPsbt(q)
                        [] OTHER                -> [q EXCEPT !.address = Checked(@, q.network)]
<1>1. back = BtcBuild(op, q)
  BY DEF BtcFromJson, BtcReadParams
<1>2. DOMAIN q = DOMAIN BtcReaders[op] /\ \A f \in DOMAIN q : q[f] = p[f]
  BY BtcReadWire
<1>. HIDE DEF q
<1>3. DOMAIN p = DOMAIN BtcRequest[op]
  BY DEF WellTyped
<1>4. DOMAIN fields = DOMAIN p /\ \A f \in DOMAIN p : fields[f] = p[f]
  <2>1. CASE op = "send_transfer"
    <3>1. DOMAIN q = {"network", "to", "from", "amount", "feeRate"} /\ DOMAIN p = DOMAIN q
      BY <1>2, <1>3, <2>1 DEF BtcReaders, BtcRequest
    <3>2. p.network \in ValidOn(p.to) /\ (p.from # None => p.network \in ValidOn(p.from))
      BY <2>1 DEF BtcSound, BtcAccountField
    <3>3. RequireNetwork(q.to, q.network) = p.to /\ Checked(q.from, q.network) = p.from
      BY <1>2, <3>1, <3>2 DEF RequireNetwork, Checked
    <3>. QED
      BY <1>2, <2>1, <3>1, <3>3 DEF SendTransfer
  <2>2. CASE op = "sign_psbt"
    <3>1. /\ DOMAIN q = {"network", "psbt", "from", "signInputs", "finalize", "broadcast"}
          /\ DOMAIN p = DOMAIN q \cup {"scriptPathInputs"}
      BY <1>2, <1>3, <2>2 DEF BtcReaders, BtcRequest
    <3>2. /\ p.from # None => p.network \in ValidOn(p.from)
          /\ \A i \in DOMAIN Listed(p) : Listed(p)[i] < Len(p.psbt.leaf)
          /\ p.finalize = (p.finalize \/ p.broadcast)
          /\ p.scriptPathInputs = ScriptInputs(p)
      BY <2>2 DEF BtcSound, BtcAccountField
    <3>3. Checked(q.from, q.network) = p.from
      BY <1>2, <3>1, <3>2 DEF RequireNetwork, Checked
    <3>4. q.psbt = p.psbt /\ Listed(q) = Listed(p) /\ ScriptInputs(q) = ScriptInputs(p)
      BY <1>2, <3>1 DEF Listed, ScriptInputs
    <3>5. (q.finalize \/ q.broadcast) = p.finalize
      BY <1>2, <3>1, <3>2
    <3>6. /\ DOMAIN fields = DOMAIN p
          /\ \A f \in DOMAIN q : f \notin {"psbt", "from", "finalize"} => fields[f] = q[f]
          /\ fields.psbt = IF \A i \in DOMAIN Listed(q) : Listed(q)[i] < Len(q.psbt.leaf)
                           THEN q.psbt ELSE Bad
          /\ fields.from = Checked(q.from, q.network)
          /\ fields.finalize = (q.finalize \/ q.broadcast)
          /\ fields.scriptPathInputs = ScriptInputs(q)
      BY <2>2, <3>1 DEF SignPsbt, Join, ScriptInputs
    <3>. HIDE DEF fields
    <3>7. fields.psbt = p.psbt /\ fields.from = p.from /\ fields.finalize = p.finalize
          /\ fields.scriptPathInputs = p.scriptPathInputs
      BY <3>2, <3>3, <3>4, <3>5, <3>6
    <3>. QED
      BY <1>2, <3>1, <3>6, <3>7
  <2>3. CASE op \in {"connect", "sign_message"}
    <3>1. /\ {"network", "address"} \subseteq DOMAIN q /\ DOMAIN p = DOMAIN q
      <4>1. CASE op = "connect"
        BY <1>2, <1>3, <4>1 DEF BtcReaders, BtcRequest
      <4>2. CASE op = "sign_message"
        BY <1>2, <1>3, <4>2 DEF BtcReaders, BtcRequest
      <4>. QED
        BY <2>3, <4>1, <4>2
    <3>2. p.address # None => p.network \in ValidOn(p.address)
      BY <2>3 DEF BtcSound, BtcAccountField
    <3>3. Checked(q.address, q.network) = p.address
      BY <1>2, <3>1, <3>2 DEF RequireNetwork, Checked
    <3>. QED
      BY <1>2, <2>3, <3>1, <3>3
  <2>. QED
    BY <2>1, <2>2, <2>3 DEF BtcRequest
<1>5. \A f \in DOMAIN q : q[f] # Bad
  <2>1. DOMAIN q \subseteq DOMAIN p
    <3>1. CASE op = "connect"
      BY <1>2, <1>3, <3>1 DEF BtcReaders, BtcRequest
    <3>2. CASE op = "send_transfer"
      BY <1>2, <1>3, <3>2 DEF BtcReaders, BtcRequest
    <3>3. CASE op = "sign_psbt"
      BY <1>2, <1>3, <3>3 DEF BtcReaders, BtcRequest
    <3>4. CASE op = "sign_message"
      BY <1>2, <1>3, <3>4 DEF BtcReaders, BtcRequest
    <3>. QED
      BY <3>1, <3>2, <3>3, <3>4 DEF BtcRequest
  <2>. QED
    BY <1>2, <2>1
<1>6. \A f \in DOMAIN fields : fields[f] # Bad
  BY <1>4
<1>7. RequestOf(op, q) # Refused
  BY <1>5, RequestMade
<1>8. BtcBuild(op, q) = RequestOf(op, fields)
  BY <1>7 DEF BtcBuild
<1>. HIDE DEF fields
<1>9. BtcBuild(op, q) # Refused /\ BtcBuild(op, q).fields = fields
  BY <1>6, <1>8, RequestMade
<1>. QED
  BY <1>1, <1>4, <1>9

(***************************************************************************)
(* Serve.                                                                  *)
(***************************************************************************)

\* What is known of a request that was built, whatever built it.
Sound(c, op, r) ==
  /\ r = [op |-> op, fields |-> r.fields]
  /\ \A f \in DOMAIN r.fields : r.fields[f] # Bad
  /\ WellTyped(RequestTypes(c)[op], r.fields)
  /\ c = "btc" => BtcSound(op, r.fields)

\* The field that names the account is an Option of the account's type.
LEMMA AccountFieldType ==
  ASSUME NEW c \in {"evm", "tron", "btc"}, NEW op \in Operations(c)
  PROVE  LET types == RequestTypes(c)[op] IN
         /\ AccountField(c, op) \in DOMAIN types
         /\ types[AccountField(c, op)] = OptField(AccountType(c))
         /\ AccountField(c, op) = IF "from" \in DOMAIN types THEN "from" ELSE "address"
<1>. USE DEF AccountField, AccountType, RequestTypes, Operations
<1>1. CASE c = "evm"
  <2>. USE DEF EvmAccountField, EvmRequest
  <2>1. CASE op = "connect"
    BY <1>1, <2>1
  <2>2. CASE op = "send_transaction"
    BY <1>1, <2>2
  <2>3. CASE op = "sign_message"
    BY <1>1, <2>3
  <2>4. CASE op = "sign_typed_data"
    BY <1>1, <2>4 DEF Join, EvmTypedData
  <2>. QED
    BY <1>1, <2>1, <2>2, <2>3, <2>4
<1>2. CASE c = "tron"
  <2>. USE DEF TronAccountField, TronRequest
  <2>1. CASE op = "connect"
    BY <1>2, <2>1
  <2>2. CASE op = "send_transaction"
    BY <1>2, <2>2
  <2>3. CASE op = "trigger_contract"
    BY <1>2, <2>3
  <2>4. CASE op = "deploy_contract"
    BY <1>2, <2>4
  <2>5. CASE op = "sign_message"
    BY <1>2, <2>5
  <2>6. CASE op = "sign_typed_data"
    BY <1>2, <2>6 DEF Join, TronTypedData
  <2>. QED
    BY <1>2, <2>1, <2>2, <2>3, <2>4, <2>5, <2>6
<1>3. CASE c = "btc"
  <2>. USE DEF BtcAccountField, BtcRequest
  <2>1. CASE op = "connect"
    BY <1>3, <2>1
  <2>2. CASE op = "send_transfer"
    BY <1>3, <2>2
  <2>3. CASE op = "sign_psbt"
    BY <1>3, <2>3
  <2>4. CASE op = "sign_message"
    BY <1>3, <2>4
  <2>. QED
    BY <1>3, <2>1, <2>2, <2>3, <2>4
<1>. QED
  BY <1>1, <1>2, <1>3

\* A body that is not refused makes a sound request.
LEMMA BodySound ==
  ASSUME NEW c \in {"evm", "tron", "btc"}, NEW op \in Operations(c), NEW body,
         \A f \in DOMAIN body : body[f].json = "bool" => body[f].b \in BOOLEAN, NEW t,
         FromJson(c, op, body, Default(c, t)) # Refused
  PROVE  Sound(c, op, FromJson(c, op, body, Default(c, t)))
<1>1. CASE c = "evm"
  <2>. DEFINE fields == ReadAll(EvmReaders[op], body)
  <2>1. /\ FromJson(c, op, body, Default(c, t)) = EvmFromJson(op, body)
        /\ EvmFromJson(op, body) = RequestOf(op, fields)
    BY <1>1 DEF FromJson, EvmFromJson
  <2>2. op \in DOMAIN EvmRequest /\ RequestTypes(c) = EvmRequest
    BY <1>1 DEF Operations, RequestTypes
  <2>. HIDE DEF fields
  <2>3. /\ RequestOf(op, fields) = [op |-> op, fields |-> fields]
        /\ \A f \in DOMAIN fields : fields[f] # Bad
    BY <2>1, RequestOfFields
  <2>. QED
    BY <1>1, <2>1, <2>2, <2>3, EvmBodyTyped DEF Sound
<1>2. CASE c = "tron"
  <2>. DEFINE fields == ReadAll(TronReaders[op], body)
  <2>1. /\ FromJson(c, op, body, Default(c, t)) = TronFromJson(op, body)
        /\ TronFromJson(op, body) = RequestOf(op, fields)
    BY <1>2 DEF FromJson, TronFromJson
  <2>2. op \in DOMAIN TronRequest /\ RequestTypes(c) = TronRequest
    BY <1>2 DEF Operations, RequestTypes
  <2>. HIDE DEF fields
  <2>3. /\ RequestOf(op, fields) = [op |-> op, fields |-> fields]
        /\ \A f \in DOMAIN fields : fields[f] # Bad
    BY <2>1, RequestOfFields
  <2>. QED
    BY <1>2, <2>1, <2>2, <2>3, TronBodyTyped DEF Sound
<1>3. CASE c = "btc"
  <2>. DEFINE d == Default(c, t)
              q == ReadAll(BtcReaders[op], body)
              p == BtcReadParams(op, body, d)
  <2>1. FromJson(c, op, body, d) = BtcBuild(op, p)
    BY <1>3 DEF FromJson, BtcFromJson, BtcReadParams
  <2>2. op \in DOMAIN BtcRequest /\ RequestTypes(c) = BtcRequest
    BY <1>3 DEF Operations, RequestTypes
  <2>3. OfType("BtcNetwork", d)
    BY <1>3, DefaultTyped
  <2>4. RequestOf(op, p) # Refused
    BY <2>1 DEF BtcBuild
  <2>5. \A f \in DOMAIN p : p[f] # Bad
    BY <2>4, RequestOfFields
  <2>6. DOMAIN q = DOMAIN BtcReaders[op]
    BY DEF ReadAll
  <2>7. ASSUME NEW f \in DOMAIN q, q[f] # Bad
        PROVE  FieldOK(BtcRead(op)[f], q[f])
    <3>. DEFINE j == Get(body, f)
    <3>1. j.json = "bool" => j.b \in BOOLEAN
      BY DEF Get, Absent
    <3>2. q[f] = Read(BtcReaders[op][f], j) /\ f \in DOMAIN BtcReaders[op]
      BY <2>6 DEF ReadAll
    <3>3. ReaderFor(BtcReaders[op][f], BtcRead(op)[f])
      BY <2>2, <3>2, BtcReadersFor DEF ReadersFor
    <3>. HIDE DEF j, q
    <3>. QED
      BY <2>7, <3>1, <3>2, <3>3, ReadOfType
  <2>8. p = DefaultedProtocol(op, BtcDefault(q, d))
    BY DEF BtcReadParams
  <2>. HIDE DEF p, q, d
  <2>9. BtcGiven(op, p)
    BY <2>2, <2>3, <2>5, <2>6, <2>7, <2>8, BtcDefaultsGiven
  <2>10. BtcBuild(op, p) # Refused
    BY <2>1 DEF d
  <2>11. /\ BtcBuild(op, p) = RequestOf(op, BtcBuild(op, p).fields)
         /\ \A f \in DOMAIN BtcBuild(op, p).fields : BtcBuild(op, p).fields[f] # Bad
         /\ BtcSound(op, BtcBuild(op, p).fields)
         /\ WellTyped(BtcRequest[op], BtcBuild(op, p).fields)
    BY <2>2, <2>9, <2>10, BtcBuilt
  <2>12. RequestOf(op, BtcBuild(op, p).fields) = [op |-> op, fields |-> BtcBuild(op, p).fields]
    BY <2>11, RequestMade
  <2>. QED
    BY <2>1, <2>2, <2>11, <2>12 DEF Sound, d
<1>. QED
  BY <1>1, <1>2, <1>3

\* The account as a request of the chain may expect it.
Named(c, r, a) == IF c = "btc" THEN RequireNetwork(a, r.fields.network) ELSE a

\* The account is put in the request's own field for it.
LEMMA ExpectingMade ==
  ASSUME NEW c \in {"evm", "tron", "btc"}, NEW op \in Operations(c), NEW r, Sound(c, op, r),
         NEW a,
         NEW f, f = AccountField(c, op)
  PROVE  /\ f \in DOMAIN r.fields
         /\ ExpectingOn(c, r, a) =
              RequestOf(op, [r.fields EXCEPT ![f] = ExpectAccount(r.fields[f], Named(c, r, a))])
<1>1. r.op = op /\ f \in DOMAIN r.fields
  BY AccountFieldType DEF Sound, WellTyped
<1>. QED
  BY <1>1 DEF ExpectingOn, BtcExpecting, Expecting, AccountField, Named

\* What a request becomes when an account is expected.
LEMMA ExpectingFields ==
  ASSUME NEW c \in {"evm", "tron", "btc"}, NEW op \in Operations(c), NEW r, Sound(c, op, r),
         NEW a,
         NEW f, f = AccountField(c, op), NEW x, x = ExpectingOn(c, r, a), x # Refused
  PROVE  /\ f \in DOMAIN r.fields
         /\ x = [op |-> op, fields |-> x.fields]
         /\ \A g \in DOMAIN x.fields : x.fields[g] # Bad
         /\ DOMAIN x.fields = DOMAIN r.fields
         /\ x.fields[f] = a /\ Named(c, r, a) = a
         /\ \A g \in DOMAIN r.fields : g # f => x.fields[g] = r.fields[g]
<1>. DEFINE fields == [r.fields EXCEPT ![f] = ExpectAccount(r.fields[f], Named(c, r, a))]
<1>1. f \in DOMAIN r.fields /\ x = RequestOf(op, fields)
  BY ExpectingMade
<1>2. /\ DOMAIN fields = DOMAIN r.fields
      /\ fields[f] = ExpectAccount(r.fields[f], Named(c, r, a))
      /\ \A g \in DOMAIN r.fields : g # f => fields[g] = r.fields[g]
  BY <1>1
<1>3. Named(c, r, a) \in {a, Bad}
  BY DEF RequireNetwork, Named
<1>. HIDE DEF fields
<1>4. x = [op |-> op, fields |-> fields] /\ \A g \in DOMAIN fields : fields[g] # Bad
  BY <1>1, RequestOfFields
<1>5. fields[f] # Bad
  BY <1>1, <1>2, <1>4
<1>6. fields[f] = a /\ Named(c, r, a) = a
  BY <1>2, <1>3, <1>5 DEF ExpectAccount
<1>. QED
  BY <1>1, <1>2, <1>4, <1>6

\* Expecting an account of the chain's type keeps a request sound.
LEMMA ExpectingSound ==
  ASSUME NEW c \in {"evm", "tron", "btc"}, NEW op \in Operations(c), NEW r, Sound(c, op, r),
         NEW a,
         OfType(AccountType(c), a), NEW x, x = ExpectingOn(c, r, a), x # Refused
  PROVE  Sound(c, op, x)
<1>1. PICK f : f = AccountField(c, op)
  OBVIOUS
<1>. DEFINE types == RequestTypes(c)[op]
<1>2. /\ f \in DOMAIN r.fields
      /\ x = [op |-> op, fields |-> x.fields]
      /\ \A g \in DOMAIN x.fields : x.fields[g] # Bad
      /\ DOMAIN x.fields = DOMAIN r.fields
      /\ x.fields[f] = a /\ Named(c, r, a) = a
      /\ \A g \in DOMAIN r.fields : g # f => x.fields[g] = r.fields[g]
  BY <1>1, ExpectingFields
<1>3. types[f] = OptField(AccountType(c))
  BY <1>1, AccountFieldType
<1>. HIDE DEF types
<1>4. WellTyped(types, x.fields)
  <2>1. DOMAIN x.fields = DOMAIN types
    BY <1>2 DEF Sound, WellTyped, types
  <2>2. OfType(types[f].type, x.fields[f])
    BY <1>2, <1>3 DEF OptField
  <2>. QED
    BY <1>2, <2>1, <2>2 DEF Sound, WellTyped, types
<1>5. ASSUME c = "btc"
      PROVE  BtcSound(op, x.fields)
  <2>1. f = BtcAccountField(op)
    BY <1>1, <1>5 DEF AccountField
  <2>2. BtcSound(op, r.fields)
    BY <1>5 DEF Sound
  <2>3. f \in {"from", "address"}
    BY <2>1 DEF BtcAccountField
  <2>4. "network" \in DOMAIN r.fields
    <3>1. DOMAIN r.fields = DOMAIN BtcRequest[op] /\ op \in DOMAIN BtcRequest
      BY <1>5 DEF Sound, WellTyped, RequestTypes, Operations
    <3>. QED
      BY <3>1 DEF BtcRequest
  <2>5. x.fields.network = r.fields.network
    BY <1>2, <2>3, <2>4
  <2>6. x.fields.network \in ValidOn(x.fields[f]) \/ a = Bad
    BY <1>2, <1>5, <2>5 DEF RequireNetwork, Named
  <2>7. a # Bad
    BY <1>2
  <2>8. CASE op = "send_transfer"
    <3>1. {"to"} \subseteq DOMAIN r.fields
      BY <1>5, <2>8 DEF Sound, WellTyped, RequestTypes, BtcRequest
    <3>. QED
      BY <1>2, <2>1, <2>2, <2>3, <2>5, <2>6, <2>7, <2>8, <3>1 DEF BtcSound
  <2>9. CASE op = "sign_psbt"
    <3>1. {"psbt", "signInputs", "scriptPathInputs", "finalize", "broadcast"}
            \subseteq DOMAIN r.fields
      BY <1>5, <2>9 DEF Sound, WellTyped, RequestTypes, BtcRequest
    <3>2. \A g \in {"psbt", "signInputs", "scriptPathInputs", "finalize", "broadcast"} :
            x.fields[g] = r.fields[g]
      BY <1>2, <2>3, <3>1
    <3>3. Listed(x.fields) = Listed(r.fields) /\ ScriptInputs(x.fields) = ScriptInputs(r.fields)
      BY <3>2 DEF Listed, ScriptInputs
    <3>. QED
      BY <1>2, <2>1, <2>2, <2>5, <2>6, <2>7, <2>9, <3>2, <3>3 DEF BtcSound
  <2>10. CASE op \notin {"send_transfer", "sign_psbt"}
    BY <1>2, <2>1, <2>2, <2>5, <2>6, <2>7, <2>10 DEF BtcSound
  <2>. QED
    BY <2>8, <2>9, <2>10
<1>. QED
  BY <1>2, <1>4, <1>5 DEF Sound, types

\* What serve asks a wallet is sound.
LEMMA ServeSound ==
  ASSUME NEW c \in {"evm", "tron", "btc"}, NEW op \in Operations(c), NEW body,
         \A f \in DOMAIN body : body[f].json = "bool" => body[f].b \in BOOLEAN, NEW t,
         NEW a, a = None \/ OfType(AccountType(c), a),
         NEW r, r = ServeRequest(c, op, body, Default(c, t), a), r # Refused
  PROVE  Sound(c, op, r)
<1>. DEFINE b == FromJson(c, op, body, Default(c, t))
<1>1. b # Refused /\ r = IF a = None THEN b ELSE ExpectingOn(c, b, a)
  BY DEF ServeRequest
<1>2. Sound(c, op, b)
  BY <1>1, BodySound
<1>. HIDE DEF b
<1>. QED
  BY <1>1, <1>2, ExpectingSound

(***************************************************************************)
(* The typed signer.                                                       *)
(***************************************************************************)

\* A request with a default filled in is still well typed.
LEMMA DefaultedTyped ==
  ASSUME NEW types, NEW fields, WellTyped(types, fields), NEW f \in DOMAIN types, NEW d, NEW T,
         types[f] = OptField(T), OfType(T, d)
  PROVE  WellTyped(types, [fields EXCEPT ![f] = Or(fields[f], d)])
<1>1. FieldOK(types[f], Or(fields[f], d))
  BY DEF WellTyped, FieldOK, OptField, Or
<1>. QED
  BY <1>1, ExceptTyped

\* The chain or the network of a request on EVM and TRON.
LEMMA PlaceType ==
  ASSUME NEW c \in {"evm", "tron"}, NEW op \in Operations(c)
  PROVE  /\ PlaceField(c) \in DOMAIN RequestTypes(c)[op]
         /\ RequestTypes(c)[op][PlaceField(c)] =
              OptField(IF c = "evm" THEN "ChainId" ELSE "TronNetwork")
<1>. USE DEF PlaceField, RequestTypes, Operations
<1>1. CASE c = "evm"
  <2>. USE DEF EvmRequest
  <2>1. CASE op = "connect"
    BY <1>1, <2>1
  <2>2. CASE op = "send_transaction"
    BY <1>1, <2>2
  <2>3. CASE op = "sign_message"
    BY <1>1, <2>3
  <2>4. CASE op = "sign_typed_data"
    BY <1>1, <2>4 DEF Join, EvmTypedData
  <2>. QED
    BY <1>1, <2>1, <2>2, <2>3, <2>4
<1>2. CASE c = "tron"
  <2>. USE DEF TronRequest
  <2>1. CASE op = "connect"
    BY <1>2, <2>1
  <2>2. CASE op = "send_transaction"
    BY <1>2, <2>2
  <2>3. CASE op = "trigger_contract"
    BY <1>2, <2>3
  <2>4. CASE op = "deploy_contract"
    BY <1>2, <2>4
  <2>5. CASE op = "sign_message"
    BY <1>2, <2>5
  <2>6. CASE op = "sign_typed_data"
    BY <1>2, <2>6 DEF Join, TronTypedData
  <2>. QED
    BY <1>2, <2>1, <2>2, <2>3, <2>4, <2>5, <2>6
<1>. QED
  BY <1>1, <1>2

\* An EVM or TRON request made of well-typed fields, with the default filled in, is sound.
LEMMA DefaultedSound ==
  ASSUME NEW c \in {"evm", "tron"}, NEW op \in Operations(c), NEW fields,
         WellTyped(RequestTypes(c)[op], fields), NEW t,

         NEW f, f = PlaceField(c),
         NEW r, r = RequestOf(op, [fields EXCEPT ![f] = Or(fields[f], Default(c, t))]),
         r # Refused
  PROVE  Sound(c, op, r)
<1>. DEFINE types == RequestTypes(c)[op]
            d == Default(c, t)
            x == [fields EXCEPT ![f] = Or(fields[f], d)]
            T == IF c = "evm" THEN "ChainId" ELSE "TronNetwork"
<1>1. f \in DOMAIN types /\ types[f] = OptField(T)
  BY PlaceType
<1>2. OfType(T, d)
  BY DefaultTyped
<1>. HIDE DEF types, d, T
<1>3. WellTyped(types, x)
  BY <1>1, <1>2, DefaultedTyped DEF types
<1>. HIDE DEF x
<1>4. r = RequestOf(op, x)
  BY DEF x, d
<1>5. r = [op |-> op, fields |-> x] /\ \A g \in DOMAIN x : x[g] # Bad
  BY <1>4, RequestOfFields
<1>6. r.fields = x /\ c # "btc"
  BY <1>5
<1>. QED
  BY <1>3, <1>5, <1>6 DEF Sound, types

\* Parameters fit to be given to the Bitcoin constructors make a sound request.
LEMMA BtcSoundBuild ==
  ASSUME NEW op \in Operations("btc"), NEW p, BtcGiven(op, p),
         NEW r, r = BtcBuild(op, p), r # Refused
  PROVE  Sound("btc", op, r) /\ \A f \in DOMAIN p : f # "finalize" => r.fields[f] = p[f]
<1>1. op \in DOMAIN BtcRequest /\ RequestTypes("btc") = BtcRequest
  BY DEF Operations, RequestTypes
<1>2. /\ r = RequestOf(op, r.fields)
      /\ \A f \in DOMAIN r.fields : r.fields[f] # Bad
      /\ \A f \in DOMAIN p : f # "finalize" => r.fields[f] = p[f]
      /\ BtcSound(op, r.fields)
      /\ WellTyped(BtcRequest[op], r.fields)
  BY <1>1, BtcBuilt
<1>3. RequestOf(op, r.fields) = [op |-> op, fields |-> r.fields]
  BY <1>2, RequestMade
<1>. QED
  BY <1>1, <1>2, <1>3 DEF Sound

\* The parameters that a constructor of Bitcoin does not refuse.
LEMMA BtcBuildParams ==
  ASSUME NEW op, NEW p, BtcBuild(op, p) # Refused
  PROVE  \A f \in DOMAIN p : p[f] # Bad
<1>1. RequestOf(op, p) # Refused
  BY DEF BtcBuild
<1>. QED
  BY <1>1, RequestOfFields

\* What the typed signer asks a wallet is sound.
LEMMA SignerSound ==
  ASSUME NEW c \in {"evm", "tron", "btc"}, NEW op \in Operations(c), NEW p,
         WellTyped(ParamTypes(c, op), p), NEW t,
         NEW r, r = Signer(c, op, p, Default(c, t)), r # Refused
  PROVE  Sound(c, op, r)
<1>1. CASE c = "evm"
  <2>. DEFINE q == IF op = "connect" THEN EvmConnect(p) ELSE p
  <2>1. r = RequestOf(op, EvmDefault(q, Default(c, t)))
    BY <1>1 DEF Signer, EvmSigner
  <2>2. WellTyped(RequestTypes(c)[op], p)
    BY <1>1 DEF ParamTypes
  <2>3. ASSUME op = "connect"
        PROVE  WellTyped(RequestTypes(c)[op], EvmConnect(p))
    <3>. DEFINE types == RequestTypes(c)[op]
    <3>1. /\ {"rpcUrl", "chainName"} \subseteq DOMAIN types
          /\ types["rpcUrl"].how = "optional" /\ types["chainName"].how = "optional"
      BY <1>1, <2>3 DEF RequestTypes, EvmRequest, OptField
    <3>. HIDE DEF types
    <3>2. WellTyped(types, [p EXCEPT !["rpcUrl"] = None])
      BY <2>2, <3>1, ExceptTyped DEF FieldOK, types
    <3>3. WellTyped(types, [[p EXCEPT !["rpcUrl"] = None] EXCEPT !["chainName"] = None])
      BY <3>1, <3>2, ExceptTyped DEF FieldOK
    <3>. QED
      BY <3>3 DEF EvmConnect, types
  <2>. HIDE DEF q
  <2>4. WellTyped(RequestTypes(c)[op], q)
    BY <2>2, <2>3 DEF q
  <2>5. EvmDefault(q, Default(c, t)) =
          [q EXCEPT ![PlaceField(c)] = Or(q[PlaceField(c)], Default(c, t))]
    BY <1>1 DEF EvmDefault, PlaceField
  <2>. QED
    BY <1>1, <2>1, <2>4, <2>5, DefaultedSound
<1>2. CASE c = "tron"
  <2>1. r = RequestOf(op, TronDefault(p, Default(c, t)))
    BY <1>2 DEF Signer, TronSigner
  <2>2. WellTyped(RequestTypes(c)[op], p)
    BY <1>2 DEF ParamTypes
  <2>3. TronDefault(p, Default(c, t)) =
          [p EXCEPT ![PlaceField(c)] = Or(p[PlaceField(c)], Default(c, t))]
    BY <1>2 DEF TronDefault, PlaceField
  <2>. QED
    BY <1>2, <2>1, <2>2, <2>3, DefaultedSound
<1>3. CASE c = "btc"
  <2>. DEFINE d == Default(c, t)
              q == IF op = "connect" THEN BtcDefault(p, d) ELSE p
  <2>0. op \in Operations("btc") /\ op \in DOMAIN BtcRequest
    BY <1>3 DEF Operations, RequestTypes
  <2>1. r = BtcBuild(op, q)
    BY <1>3 DEF Signer, BtcSigner
  <2>2. WellTyped(BtcParams(op), p)
    BY <1>3 DEF ParamTypes
  <2>3. OfType("BtcNetwork", d)
    BY <1>3, DefaultTyped
  <2>. HIDE DEF d
  <2>4. CASE op = "connect"
    <3>1. BtcRead(op) = BtcParams(op) /\ DOMAIN BtcParams(op) = DOMAIN BtcReaders[op]
      BY <2>4 DEF BtcRead, BtcParams, BtcReaders, BtcRequest
    <3>2. /\ DOMAIN p = DOMAIN BtcReaders[op]
          /\ \A f \in DOMAIN p : FieldOK(BtcRead(op)[f], p[f])
      BY <2>2, <3>1 DEF WellTyped, FieldOK
    <3>3. q = BtcDefault(DefaultedProtocol(op, p), d)
      BY <2>4 DEF DefaultedProtocol
    <3>. HIDE DEF q
    <3>4. \A f \in DOMAIN q : q[f] # Bad
      BY <2>1, BtcBuildParams
    <3>5. BtcGiven(op, q)
      BY <2>0, <2>3, <3>2, <3>3, <3>4, BtcDefaultsGiven
    <3>. QED
      BY <1>3, <2>0, <2>1, <3>5, BtcSoundBuild
  <2>5. CASE op # "connect"
    <3>1. BtcGiven(op, p)
      BY <2>2, <2>5 DEF BtcParams, WellTyped, FieldOK, BtcGiven
    <3>. QED
      BY <1>3, <2>0, <2>1, <2>5, <3>1, BtcSoundBuild
  <2>. QED
    BY <2>4, <2>5
<1>. QED
  BY <1>1, <1>2, <1>3

(***************************************************************************)
(* The command line.                                                       *)
(***************************************************************************)

\* A flag is for a field when the values it makes may stand in the field.
FlagFor(flag, field) ==
  \/ /\ flag = field /\ field \in {ReqField(field.type), OptField(field.type)}
     /\ field.type \in ParsedTypes \cup {"Indexes"}
  \/ flag = OptField("Switch") /\ field = ReqField("Flag")
  \/ flag = OptField("JsonString") /\ field = OptField("Json")
  \/ flag = ReqField("JsonString") /\ field = ReqField("Json")

\* What a caller may give for the flags of a command.
ArgsOK(command, args) ==
  \A f \in DOMAIN args \cap DOMAIN command :
    command[f].type = "Indexes" => OfType("Indexes", args[f])

\* What clap makes of a flag that it does not refuse may stand in the field.
LEMMA FlagTyped ==
  ASSUME NEW command, NEW args, ArgsOK(command, args), NEW f \in DOMAIN command, NEW field,
         FlagFor(command[f], field), NEW v, v = Flags(command, args)[f], v # Bad
  PROVE  FieldOK(field, v)
<1>. DEFINE flag == command[f]
            T == flag.type
<1>1. v = IF f \in DOMAIN args THEN ParseFlag(T, args[f]) ELSE NotGiven(flag)
  BY DEF Flags
<1>2. f \in DOMAIN args /\ T = "Indexes" => OfType("Indexes", args[f])
  BY DEF ArgsOK
<1>3. FlagFor(flag, field)
  OBVIOUS
<1>. HIDE DEF flag
<1>4. CASE /\ flag = field /\ field \in {ReqField(T), OptField(T)}
           /\ T \in ParsedTypes \cup {"Indexes"}
  <2>1. field.type = T /\ (field.how = "required" <=> field = ReqField(T))
    BY <1>4 DEF ReqField, OptField
  <2>2. CASE f \notin DOMAIN args
    <3>1. v = NotGiven(flag)
      BY <1>1, <2>2
    <3>2. T # "Switch"
      BY <1>4 DEF ParsedTypes, SpelledTypes
    <3>3. flag.how = "optional" /\ v = None
      BY <1>4, <3>1, <3>2 DEF NotGiven, ReqField, OptField
    <3>. QED
      BY <1>4, <3>3 DEF FieldOK
  <2>3. CASE f \in DOMAIN args /\ T \in ParsedTypes
    <3>1. v = Parse(T, args[f])
      BY <1>1, <2>3 DEF ParseFlag, ParsedTypes, SpelledTypes
    <3>. QED
      BY <1>4, <2>3, <3>1, ParseOfType DEF FieldOK
  <2>4. CASE f \in DOMAIN args /\ T = "Indexes"
    <3>1. v = args[f]
      BY <1>1, <2>4 DEF ParseFlag
    <3>. QED
      BY <1>2, <1>4, <2>4, <3>1 DEF FieldOK
  <2>. QED
    BY <1>4, <2>2, <2>3, <2>4
<1>5. CASE flag = OptField("Switch") /\ field = ReqField("Flag")
  <2>1. v \in BOOLEAN
    BY <1>1, <1>5 DEF ParseFlag, NotGiven, OptField
  <2>. QED
    BY <1>5, <2>1 DEF FieldOK, ReqField, OfType
<1>6. CASE T = "JsonString" /\ (\/ flag = OptField("JsonString") /\ field = OptField("Json")
                                \/ flag = ReqField("JsonString") /\ field = ReqField("Json"))
  <2>1. CASE f \in DOMAIN args
    <3>1. v = ParseJsonString(args[f])
      BY <1>1, <1>6, <2>1 DEF ParseFlag
    <3>2. ~IsAbsent(v)
      BY <3>1 DEF ParseJsonString, Object, IsAbsent
    <3>. QED
      BY <1>6, <3>2 DEF FieldOK, OptField, ReqField, OfType
  <2>2. CASE f \notin DOMAIN args
    <3>1. v = NotGiven(flag)
      BY <1>1, <2>2
    <3>. QED
      BY <1>6, <3>1 DEF NotGiven, FieldOK, OptField, ReqField
  <2>. QED
    BY <2>1, <2>2
<1>7. T = "JsonString" \/ flag \notin {OptField("JsonString"), ReqField("JsonString")}
  BY DEF OptField, ReqField
<1>8. \/ /\ flag = field /\ field \in {ReqField(T), OptField(T)}
         /\ T \in ParsedTypes \cup {"Indexes"}
      \/ flag = OptField("Switch") /\ field = ReqField("Flag")
      \/ flag = OptField("JsonString") /\ field = OptField("Json")
      \/ flag = ReqField("JsonString") /\ field = ReqField("Json")
  BY <1>3 DEF FlagFor
<1>. QED
  BY <1>4, <1>5, <1>6, <1>7, <1>8

\* The flags of a command, one for each field.
LEMMA FlagsTyped ==
  ASSUME NEW command, NEW types, DOMAIN command = DOMAIN types,
         \A f \in DOMAIN types : FlagFor(command[f], types[f]),
         NEW args, ArgsOK(command, args),
         \A f \in DOMAIN command : Flags(command, args)[f] # Bad
  PROVE  WellTyped(types, Flags(command, args))
<1>1. DOMAIN Flags(command, args) = DOMAIN types
  BY DEF Flags
<1>2. ASSUME NEW f \in DOMAIN types
      PROVE  FieldOK(types[f], Flags(command, args)[f])
  BY <1>1, FlagTyped
<1>. QED
  BY <1>1, <1>2 DEF WellTyped, FieldOK

\* The fields of a typed-data file.
LEMMA FileTyped ==
  ASSUME NEW file, NEW f \in DOMAIN TypedDataFile, FileFields(file)[f] # Bad
  PROVE  /\ DOMAIN FileFields(file) = DOMAIN TypedDataFile
         /\ FieldOK(EvmTypedData[f], FileFields(file)[f])
<1>1. file # Bad
  BY DEF FileFields
<1>. DEFINE j == Get(file.fields, f)
            v == FileFields(file)[f]
<1>2. DOMAIN FileFields(file) = DOMAIN TypedDataFile /\ v = Read(TypedDataFile[f], j)
  BY <1>1 DEF FileFields, ReadAll
<1>3. ReaderFor(TypedDataFile[f], EvmTypedData[f]) /\ TypedDataFile[f].how # "bool"
  BY DEF TypedDataFile, EvmTypedData, ReaderFor, ReqField, Field, ParsedTypes, SpelledTypes
<1>. HIDE DEF j
<1>4. FieldOK(EvmTypedData[f], v)
  BY <1>2, <1>3, ReadOfType
<1>. QED
  BY <1>2, <1>4

\* The flags of an EVM command make well-typed fields.
LEMMA EvmFlagsTyped ==
  ASSUME NEW op \in DOMAIN EvmRequest, NEW args, ArgsOK(EvmCommand[op], args),
         NEW flags, flags = Flags(EvmCommand[op], args),
         NEW p, p = EvmFlagFields(op, flags), \A f \in DOMAIN p : p[f] # Bad
  PROVE  WellTyped(EvmRequest[op], p)
<1>0. DOMAIN flags = DOMAIN EvmCommand[op]
  BY DEF Flags
<1>1. CASE op = "connect" \/ op = "send_transaction"
  <2>1. p = flags
    BY <1>1 DEF EvmFlagFields
  <2>2. /\ DOMAIN EvmCommand[op] = DOMAIN EvmRequest[op]
        /\ \A f \in DOMAIN EvmRequest[op] : FlagFor(EvmCommand[op][f], EvmRequest[op][f])
    <3>1. CASE op = "connect"
      BY <3>1 DEF EvmCommand, EvmRequest, FlagFor, OptField, ParsedTypes, SpelledTypes
    <3>2. CASE op = "send_transaction"
      BY <3>2 DEF EvmCommand, EvmRequest, FlagFor, OptField, ParsedTypes, SpelledTypes
    <3>. QED
      BY <1>1, <3>1, <3>2
  <2>. QED
    BY <1>0, <2>1, <2>2, FlagsTyped
<1>2. CASE op \in {"sign_message", "sign_typed_data"}
  <2>. DEFINE common == [chainId |-> flags.chainId, address |-> flags.address]
              more == IF op = "sign_message" THEN [message |-> EvmPayload(flags)]
                      ELSE FileFields(flags.file)
  <2>1. p = Join(common, more)
    BY <1>2 DEF EvmFlagFields
  <2>2. DOMAIN common = {"chainId", "address"}
    OBVIOUS
  <2>3. DOMAIN more = IF op = "sign_message" THEN {"message"} ELSE DOMAIN TypedDataFile
    BY <1>2 DEF FileFields, ReadAll
  <2>4. /\ {"chainId", "address"} \subseteq DOMAIN EvmCommand[op]
        /\ EvmCommand[op]["chainId"] = OptField("ChainId")
        /\ EvmCommand[op]["address"] = OptField("Address")
    <3>1. CASE op = "sign_message"
      BY <3>1 DEF EvmCommand
    <3>2. CASE op = "sign_typed_data"
      BY <3>2 DEF EvmCommand
    <3>. QED
      BY <1>2, <3>1, <3>2
  <2>5. common.chainId = flags["chainId"] /\ common.address = flags["address"]
    OBVIOUS
  <2>. HIDE DEF common, more
  <2>6. /\ DOMAIN p = {"chainId", "address"} \cup DOMAIN more
        /\ p["chainId"] = flags["chainId"] /\ p["address"] = flags["address"]
        /\ \A f \in DOMAIN more : f \notin {"chainId", "address"} => p[f] = more[f]
    BY <2>1, <2>2, <2>5 DEF Join
  <2>7. FieldOK(OptField("ChainId"), p["chainId"])
    <3>1. FlagFor(EvmCommand[op]["chainId"], OptField("ChainId"))
      BY <2>4 DEF FlagFor, OptField, ParsedTypes
    <3>. QED
      BY <2>4, <2>6, <3>1, FlagTyped
  <2>8. FieldOK(OptField("Address"), p["address"])
    <3>1. FlagFor(EvmCommand[op]["address"], OptField("Address"))
      BY <2>4 DEF FlagFor, OptField, ParsedTypes, SpelledTypes
    <3>. QED
      BY <2>4, <2>6, <3>1, FlagTyped
  <2>9. CASE op = "sign_message"
    <3>1. DOMAIN more = {"message"} /\ p["message"] = EvmPayload(flags)
      BY <2>3, <2>6, <2>9 DEF more
    <3>2. EvmPayload(flags) # Bad
      BY <2>6, <3>1
    <3>3. OfType("Message", EvmPayload(flags))
      BY <3>2 DEF EvmPayload, OfType
    <3>4. DOMAIN EvmRequest[op] = {"chainId", "address", "message"}
      BY <2>9 DEF EvmRequest
    <3>5. /\ EvmRequest[op]["chainId"] = OptField("ChainId")
          /\ EvmRequest[op]["address"] = OptField("Address")
          /\ EvmRequest[op]["message"].type = "Message"
      BY <2>9 DEF EvmRequest, ReqField
    <3>6. DOMAIN p = DOMAIN EvmRequest[op]
      BY <2>6, <3>1, <3>4
    <3>. QED
      BY <2>7, <2>8, <3>1, <3>3, <3>4, <3>5, <3>6 DEF WellTyped, FieldOK
  <2>10. CASE op = "sign_typed_data"
    <3>1. more = FileFields(flags.file) /\ DOMAIN more = DOMAIN TypedDataFile
      BY <2>3, <2>10 DEF more
    <3>2. /\ DOMAIN TypedDataFile = {"domain", "types", "primaryType", "message"}
          /\ DOMAIN EvmTypedData = DOMAIN TypedDataFile
      BY DEF TypedDataFile, EvmTypedData
    <3>3. \A f \in DOMAIN TypedDataFile : p[f] = more[f] /\ FieldOK(EvmTypedData[f], p[f])
      BY <2>6, <3>1, <3>2, FileTyped
    <3>4. /\ DOMAIN EvmRequest[op] = {"chainId", "address"} \cup DOMAIN TypedDataFile
          /\ EvmRequest[op]["chainId"] = OptField("ChainId")
          /\ EvmRequest[op]["address"] = OptField("Address")
          /\ \A f \in DOMAIN TypedDataFile : EvmRequest[op][f] = EvmTypedData[f]
      BY <2>10, <3>2 DEF EvmRequest, Join
    <3>. QED
      BY <2>6, <2>7, <2>8, <3>1, <3>3, <3>4 DEF WellTyped, FieldOK
  <2>. QED
    BY <1>2, <2>9, <2>10
<1>. QED
  BY <1>1, <1>2 DEF EvmRequest

\* The flags of a TRON command make well-typed fields.
LEMMA TronFlagsTyped ==
  ASSUME NEW op \in DOMAIN TronRequest, NEW args, ArgsOK(TronCommand[op], args),
         NEW flags, flags = Flags(TronCommand[op], args),
         NEW p, p = IF op = "sign_typed_data" THEN TronFileFields(flags) ELSE flags,
         \A f \in DOMAIN p : p[f] # Bad
  PROVE  WellTyped(TronRequest[op], p)
<1>0. DOMAIN flags = DOMAIN TronCommand[op]
  BY DEF Flags
<1>1. CASE op # "sign_typed_data"
  <2>1. /\ DOMAIN TronCommand[op] = DOMAIN TronRequest[op]
        /\ \A f \in DOMAIN TronRequest[op] : FlagFor(TronCommand[op][f], TronRequest[op][f])
    <3>. USE DEF TronCommand, TronRequest, FlagFor, ReqField, OptField, ParsedTypes, SpelledTypes
    <3>1. CASE op = "connect"
      BY <3>1
    <3>2. CASE op = "send_transaction"
      BY <3>2
    <3>3. CASE op = "trigger_contract"
      BY <3>3
    <3>4. CASE op = "deploy_contract"
      BY <3>4
    <3>5. CASE op = "sign_message"
      BY <3>5
    <3>. QED
      BY <1>1, <3>1, <3>2, <3>3, <3>4, <3>5
  <2>. QED
    BY <1>0, <1>1, <2>1, FlagsTyped
<1>2. CASE op = "sign_typed_data"
  <2>. DEFINE common == [network |-> flags.network, address |-> flags.address]
              file == FileFields(flags.file)
  <2>1. p = Join(common, file)
    BY <1>2 DEF TronFileFields
  <2>2. DOMAIN common = {"network", "address"}
    OBVIOUS
  <2>3. common.network = flags["network"] /\ common.address = flags["address"]
    OBVIOUS
  <2>4. /\ DOMAIN TypedDataFile = {"domain", "types", "primaryType", "message"}
        /\ DOMAIN EvmTypedData = DOMAIN TypedDataFile /\ TronTypedData = EvmTypedData
    BY DEF TypedDataFile, EvmTypedData, TronTypedData
  <2>5. DOMAIN file = DOMAIN TypedDataFile
    BY DEF FileFields, ReadAll
  <2>. HIDE DEF common, file
  <2>6. /\ DOMAIN p = {"network", "address"} \cup DOMAIN file
        /\ p["network"] = flags["network"] /\ p["address"] = flags["address"]
        /\ \A f \in DOMAIN file : f \notin {"network", "address"} => p[f] = file[f]
    BY <2>1, <2>2, <2>3 DEF Join
  <2>7. /\ {"network", "address"} \subseteq DOMAIN TronCommand[op]
        /\ TronCommand[op]["network"] = OptField("TronNetwork")
        /\ TronCommand[op]["address"] = OptField("TronAddress")
    BY <1>2 DEF TronCommand
  <2>8. FieldOK(OptField("TronNetwork"), p["network"])
    <3>1. FlagFor(TronCommand[op]["network"], OptField("TronNetwork"))
      BY <2>7 DEF FlagFor, OptField, ParsedTypes, SpelledTypes
    <3>. QED
      BY <2>6, <2>7, <3>1, FlagTyped
  <2>9. FieldOK(OptField("TronAddress"), p["address"])
    <3>1. FlagFor(TronCommand[op]["address"], OptField("TronAddress"))
      BY <2>7 DEF FlagFor, OptField, ParsedTypes, SpelledTypes
    <3>. QED
      BY <2>6, <2>7, <3>1, FlagTyped
  <2>10. \A f \in DOMAIN TypedDataFile : p[f] = file[f] /\ FieldOK(TronTypedData[f], p[f])
    BY <2>4, <2>5, <2>6, FileTyped DEF file
  <2>11. /\ DOMAIN TronRequest[op] = {"network", "address"} \cup DOMAIN TypedDataFile
         /\ TronRequest[op]["network"] = OptField("TronNetwork")
         /\ TronRequest[op]["address"] = OptField("TronAddress")
         /\ \A f \in DOMAIN TypedDataFile : TronRequest[op][f] = TronTypedData[f]
    BY <1>2, <2>4 DEF TronRequest, Join
  <2>. QED
    BY <2>5, <2>6, <2>8, <2>9, <2>10, <2>11 DEF WellTyped, FieldOK
<1>. QED
  BY <1>1, <1>2

\* The parameters a Bitcoin command makes of its flags, before the defaults.
BtcFlagParams(op, flags) == IF op = "sign_psbt" THEN ReadPsbt(flags)
                            ELSE DefaultedProtocol(op, flags)

\* The flags of a Bitcoin command make parameters fit to be given to the constructors.
LEMMA BtcFlagsGiven ==
  ASSUME NEW op \in DOMAIN BtcRequest, NEW args, ArgsOK(BtcCommand[op], args),
         NEW flags, flags = Flags(BtcCommand[op], args), NEW d, OfType("BtcNetwork", d),
         NEW p, p = BtcDefault(BtcFlagParams(op, flags), d), \A f \in DOMAIN p : p[f] # Bad
  PROVE  BtcGiven(op, p)
<1>0. DOMAIN flags = DOMAIN BtcCommand[op]
  BY DEF Flags
<1>. DEFINE q == IF op = "sign_psbt" THEN ReadPsbt(flags) ELSE flags
<1>1. p = BtcDefault(DefaultedProtocol(op, q), d)
  BY DEF BtcFlagParams, DefaultedProtocol
<1>2. CASE op # "sign_psbt"
  <2>1. /\ DOMAIN BtcCommand[op] = DOMAIN BtcReaders[op]
        /\ \A f \in DOMAIN BtcReaders[op] : FlagFor(BtcCommand[op][f], BtcRead(op)[f])
    <3>. USE DEF BtcCommand, BtcReaders, BtcRead, BtcRequest, FlagFor, ReqField, OptField,
                 ParsedTypes, SpelledTypes
    <3>1. CASE op = "connect"
      BY <3>1
    <3>2. CASE op = "send_transfer"
      BY <3>2
    <3>3. CASE op = "sign_message"
      BY <3>3
    <3>. QED
      BY <1>2, <3>1, <3>2, <3>3
  <2>2. q = flags
    BY <1>2
  <2>. HIDE DEF q
  <2>3. \A f \in DOMAIN q : q[f] # Bad => FieldOK(BtcRead(op)[f], q[f])
    BY <1>0, <2>1, <2>2, FlagTyped
  <2>. QED
    BY <1>0, <1>1, <2>1, <2>2, <2>3, BtcDefaultsGiven
<1>3. CASE op = "sign_psbt"
  <2>1. /\ DOMAIN BtcCommand[op] =
             {"psbt", "psbtFile", "signInputs", "finalize", "broadcast", "from", "network"}
        /\ DOMAIN BtcReaders[op] = DOMAIN BtcCommand[op] \ {"psbtFile"}
    BY <1>3 DEF BtcCommand, BtcReaders
  <2>2. \A f \in DOMAIN BtcReaders[op] :
          f # "psbt" => FlagFor(BtcCommand[op][f], BtcRead(op)[f])
    BY <1>3 DEF BtcCommand, BtcReaders, BtcRead, BtcRequest, FlagFor, ReqField, OptField,
                ParsedTypes, SpelledTypes
  <2>3. q = ReadPsbt(flags)
    BY <1>3
  <2>. HIDE DEF q
  <2>4. DOMAIN q = DOMAIN BtcReaders[op] /\ \A f \in DOMAIN q : f # "psbt" => q[f] = flags[f]
    BY <1>0, <2>1, <2>3 DEF ReadPsbt
  <2>5. \A v : FieldOK(BtcRead(op)["psbt"], v)
    BY <1>3 DEF BtcRead, BtcReaders, BtcRequest, FieldOK, ReqField, OfType
  <2>6. \A f \in DOMAIN q : f # "psbt" /\ q[f] # Bad => FieldOK(BtcRead(op)[f], q[f])
    BY <2>1, <2>2, <2>4, FlagTyped
  <2>7. \A f \in DOMAIN q : q[f] # Bad => FieldOK(BtcRead(op)[f], q[f])
    BY <2>5, <2>6
  <2>. QED
    BY <1>1, <2>4, <2>7, BtcDefaultsGiven
<1>. QED
  BY <1>2, <1>3

\* What the command line asks a wallet is sound.
LEMMA CliSound ==
  ASSUME NEW c \in {"evm", "tron", "btc"}, NEW op \in Operations(c), NEW args,
         ArgsOK(Commands(c)[op], args), NEW t,
         NEW r, r = Cli(c, op, args, Default(c, t)), r # Refused
  PROVE  Sound(c, op, r)
<1>. DEFINE d == Default(c, t)
<1>1. CASE c = "evm"
  <2>. DEFINE flags == Flags(EvmCommand[op], args)
              p == EvmFlagFields(op, flags)
              f == PlaceField(c)
              x == [p EXCEPT ![f] = Or(p[f], d)]
  <2>1. op \in DOMAIN EvmRequest /\ RequestTypes(c) = EvmRequest /\ Commands(c) = EvmCommand
    BY <1>1 DEF Operations, RequestTypes, Commands
  <2>2. r = RequestOf(op, x)
    BY <1>1 DEF Cli, EvmCli, EvmDefault, PlaceField
  <2>. HIDE DEF p, d
  <2>3. \A g \in DOMAIN x : x[g] # Bad
    BY <2>2, RequestOfFields
  <2>4. \A g \in DOMAIN p : p[g] # Bad
    BY <2>3, NoneIsNotBad DEF Or
  <2>5. WellTyped(RequestTypes(c)[op], p)
    BY <2>1, <2>4, EvmFlagsTyped DEF p
  <2>. QED
    BY <1>1, <2>2, <2>5, DefaultedSound DEF d
<1>2. CASE c = "tron"
  <2>. DEFINE flags == Flags(TronCommand[op], args)
              p == IF op = "sign_typed_data" THEN TronFileFields(flags) ELSE flags
              f == PlaceField(c)
              x == [p EXCEPT ![f] = Or(p[f], d)]
  <2>1. op \in DOMAIN TronRequest /\ RequestTypes(c) = TronRequest /\ Commands(c) = TronCommand
    BY <1>2 DEF Operations, RequestTypes, Commands
  <2>2. r = RequestOf(op, x) \/ r = RequestOf(op, p)
    BY <1>2 DEF Cli, TronCli, TronDefault, PlaceField
  <2>. HIDE DEF p, d
  <2>3. (\A g \in DOMAIN x : x[g] # Bad) \/ (\A g \in DOMAIN p : p[g] # Bad)
    BY <2>2, RequestOfFields
  <2>4. \A g \in DOMAIN p : p[g] # Bad
    BY <2>3, NoneIsNotBad DEF Or
  <2>5. WellTyped(RequestTypes(c)[op], p)
    BY <2>1, <2>4, TronFlagsTyped DEF p
  <2>6. CASE r = RequestOf(op, x)
    BY <1>2, <2>5, <2>6, DefaultedSound DEF d
  <2>7. CASE r = RequestOf(op, p)
    <3>1. r = [op |-> op, fields |-> p]
      BY <2>7, RequestOfFields
    <3>2. r.fields = p /\ c # "btc"
      BY <1>2, <3>1
    <3>. QED
      BY <2>4, <2>5, <3>1, <3>2 DEF Sound
  <2>. QED
    BY <2>2, <2>6, <2>7
<1>3. CASE c = "btc"
  <2>. DEFINE flags == Flags(BtcCommand[op], args)
              p == BtcDefault(BtcFlagParams(op, flags), d)
  <2>1. /\ op \in Operations("btc") /\ op \in DOMAIN BtcRequest /\ Commands(c) = BtcCommand
    BY <1>3 DEF Operations, RequestTypes, Commands
  <2>2. r = BtcBuild(op, p)
    BY <1>3 DEF Cli, BtcCli, BtcFlagParams
  <2>3. OfType("BtcNetwork", d)
    BY <1>3, DefaultTyped
  <2>. HIDE DEF d
  <2>4. BtcGiven(op, p)
    <3>1. \A f \in DOMAIN p : p[f] # Bad
      BY <2>2, BtcBuildParams
    <3>. QED
      BY <2>1, <2>3, <3>1, BtcFlagsGiven
  <2>. QED
    BY <1>3, <2>1, <2>2, <2>4, BtcSoundBuild
<1>. QED
  BY <1>1, <1>2, <1>3

\* What any way in asks a wallet is sound.
THEOREM BuiltSound ==
  ASSUME chain \in Chains, way \in Ways, account = None \/ OfType(AccountType(chain), account),
         NEW op \in Operations(chain), NEW given \in Inputs[chain][way][op],
         NEW r, r = Built(op, given), r # Refused
  PROVE  Sound(chain, op, r)
<1>0. chain \in {"evm", "tron", "btc"} /\ way \in {"serve", "signer", "cli"}
  BY ChainsAndWays
<1>1. CASE way = "serve"
  <2>1. r = ServeRequest(chain, op, given, Default(chain, env.default), account)
    BY <1>1 DEF Built
  <2>2. \A f \in DOMAIN given : given[f].json = "bool" => given[f].b \in BOOLEAN
    BY <1>1, BodiesType
  <2>. QED
    BY <1>0, <2>1, <2>2, ServeSound
<1>2. CASE way = "signer"
  <2>1. r = Signer(chain, op, given, Default(chain, env.default))
    BY <1>2 DEF Built
  <2>2. WellTyped(ParamTypes(chain, op), given)
    BY <1>2, ParamsType
  <2>. QED
    BY <1>0, <2>1, <2>2, SignerSound
<1>3. CASE way = "cli"
  <2>1. r = Cli(chain, op, given, Default(chain, env.default))
    BY <1>3 DEF Built
  <2>2. ArgsOK(Commands(chain)[op], given)
    BY <1>3, ArgsType DEF ArgsOK
  <2>. QED
    BY <1>0, <2>1, <2>2, CliSound
<1>. QED
  BY <1>0, <1>1, <1>2, <1>3

(***************************************************************************)
(* What sound requests say.                                                *)
(***************************************************************************)

\* Every address of a sound Bitcoin request is on its network.
LEMMA SoundOnNetwork ==
  ASSUME NEW op \in Operations("btc"), NEW r, Sound("btc", op, r),
         NEW f \in DOMAIN r.fields \cap {"to", "from", "address"}, r.fields[f] # None
  PROVE  r.fields.network \in ValidOn(r.fields[f])
<1>1. /\ op \in DOMAIN BtcRequest /\ DOMAIN r.fields = DOMAIN BtcRequest[op]
      /\ BtcSound(op, r.fields)
  BY DEF Sound, WellTyped, Operations, RequestTypes
<1>2. CASE op = "connect"
  BY <1>1, <1>2 DEF BtcRequest, BtcSound, BtcAccountField
<1>3. CASE op = "send_transfer"
  BY <1>1, <1>3 DEF BtcRequest, BtcSound, BtcAccountField
<1>4. CASE op = "sign_psbt"
  BY <1>1, <1>4 DEF BtcRequest, BtcSound, BtcAccountField
<1>5. CASE op = "sign_message"
  BY <1>1, <1>5 DEF BtcRequest, BtcSound, BtcAccountField
<1>. QED
  BY <1>1, <1>2, <1>3, <1>4, <1>5 DEF BtcRequest

\* The indexes of an Option of them.
IndexSet(s) == IF s = None THEN {} ELSE {s[i] : i \in DOMAIN s}

\* A sound PSBT request lists inputs that exist, singles out those with a leaf script, and
\* finalizes what is to be broadcast.
LEMMA SoundPsbt ==
  ASSUME NEW r, Sound("btc", "sign_psbt", r)
  PROVE  LET p == r.fields IN
         /\ \A i \in IndexSet(p.signInputs) : i < Len(p.psbt.leaf)
         /\ IndexSet(p.scriptPathInputs) = {i \in IndexSet(p.signInputs) : p.psbt.leaf[i + 1]}
         /\ p.broadcast => p.finalize
<1>. DEFINE p == r.fields
            listed == Listed(p)
            script == LeafScriptInputs(p.psbt, listed)
            elems(s) == {s[i] : i \in DOMAIN s}
<1>1. DOMAIN p = DOMAIN BtcRequest["sign_psbt"] /\ WellTyped(BtcRequest["sign_psbt"], p)
  BY DEF Sound, WellTyped, RequestTypes
<1>2. FieldOK(OptField("Indexes"), p.signInputs)
  BY <1>1 DEF WellTyped, BtcRequest, FieldOK
<1>3. /\ \A i \in DOMAIN listed : listed[i] < Len(p.psbt.leaf)
      /\ p.finalize = (p.finalize \/ p.broadcast)
      /\ p.scriptPathInputs = IF script = <<>> THEN None ELSE script
  BY DEF Sound, BtcSound, ScriptInputs
<1>4. listed \in Seq(Indexes)
  BY <1>2, ListedType
<1>5. elems(<<>>) = {}
  OBVIOUS
<1>6. IndexSet(p.signInputs) = elems(listed)
  <2>1. listed = IF p.signInputs = None THEN <<>> ELSE p.signInputs
    BY DEF Listed, Or
  <2>. HIDE DEF p, listed
  <2>2. CASE p.signInputs = None
    BY <1>5, <2>1, <2>2 DEF IndexSet
  <2>3. CASE p.signInputs # None
    BY <2>1, <2>3 DEF IndexSet
  <2>. QED
    BY <2>2, <2>3
<1>. HIDE DEF listed
<1>7. /\ script \in Seq(Indexes)
      /\ elems(script) = {x \in elems(listed) : SpendsScriptPath(p.psbt, x)}
  BY <1>4, LeafScriptInputsRange
<1>. HIDE DEF script
<1>8. IndexSet(p.scriptPathInputs) = elems(script)
  <2>1. CASE script = <<>>
    <3>1. p.scriptPathInputs = None
      BY <1>3, <2>1
    <3>. HIDE DEF elems
    <3>. QED
      BY <1>5, <2>1, <3>1 DEF IndexSet
  <2>2. CASE script # <<>>
    <3>1. p.scriptPathInputs = script /\ script # None
      BY <1>3, <1>7, <2>2, NoneIsNoValue DEF Indexes
    <3>. QED
      BY <3>1 DEF IndexSet
  <2>. QED
    BY <2>1, <2>2
<1>9. \A x \in elems(listed) : x < Len(p.psbt.leaf)
  BY <1>3
<1>. HIDE DEF elems
<1>10. {x \in elems(listed) : SpendsScriptPath(p.psbt, x)} =
       {x \in elems(listed) : p.psbt.leaf[x + 1]}
  BY <1>9 DEF SpendsScriptPath
<1>11. p.broadcast => p.finalize
  BY <1>3
<1>. HIDE DEF p
<1>12. /\ \A i \in IndexSet(p.signInputs) : i < Len(p.psbt.leaf)
       /\ IndexSet(p.scriptPathInputs) = {i \in IndexSet(p.signInputs) : p.psbt.leaf[i + 1]}
  BY <1>6, <1>7, <1>8, <1>9, <1>10
<1>. QED
  BY <1>11, <1>12 DEF p

\* The account a sound request expects is its field for it.
LEMMA ExpectedField ==
  ASSUME NEW c \in {"evm", "tron", "btc"}, NEW op \in Operations(c), NEW r, Sound(c, op, r)
  PROVE  Expected(r.fields) = r.fields[AccountField(c, op)]
<1>1. DOMAIN r.fields = DOMAIN RequestTypes(c)[op]
  BY DEF Sound, WellTyped
<1>2. AccountField(c, op) = IF "from" \in DOMAIN r.fields THEN "from" ELSE "address"
  BY <1>1, AccountFieldType
<1>. QED
  BY <1>2 DEF Expected

\* A request that serve builds for a configured account expects that account.
LEMMA ServeBinds ==
  ASSUME NEW c \in {"evm", "tron", "btc"}, NEW op \in Operations(c), NEW body,
         \A f \in DOMAIN body : body[f].json = "bool" => body[f].b \in BOOLEAN, NEW t,
         NEW a, a # None, OfType(AccountType(c), a),
         NEW r, r = ServeRequest(c, op, body, Default(c, t), a), r # Refused
  PROVE  Expected(r.fields) = a
<1>. DEFINE b == FromJson(c, op, body, Default(c, t))
<1>1. b # Refused /\ r = ExpectingOn(c, b, a)
  BY DEF ServeRequest
<1>2. Sound(c, op, b)
  BY <1>1, BodySound
<1>. HIDE DEF b
<1>3. r.fields[AccountField(c, op)] = a /\ Sound(c, op, r)
  BY <1>1, <1>2, ExpectingFields, ExpectingSound
<1>. QED
  BY <1>3, ExpectedField

\* A request that serve refuses for a configured account names another one, or is for a
\* network that the account is not on.
LEMMA ServeRefuses ==
  ASSUME NEW c \in {"evm", "tron", "btc"}, NEW op \in Operations(c), NEW body,
         \A f \in DOMAIN body : body[f].json = "bool" => body[f].b \in BOOLEAN, NEW t,
         NEW a, a # None, a # Bad, ServeRequest(c, op, body, Default(c, t), a) = Refused,
         NEW b, b = FromJson(c, op, body, Default(c, t)), b # Refused
  PROVE  \/ Expected(b.fields) \notin {None, a}
         \/ c = "btc" /\ RequireNetwork(a, b.fields.network) = Bad
<1>1. PICK f : f = AccountField(c, op)
  OBVIOUS
<1>2. Sound(c, op, b) /\ ExpectingOn(c, b, a) = Refused
  BY BodySound DEF ServeRequest
<1>. DEFINE fields == [b.fields EXCEPT ![f] = ExpectAccount(b.fields[f], Named(c, b, a))]
<1>3. f \in DOMAIN b.fields /\ RequestOf(op, fields) = Refused
  BY <1>1, <1>2, ExpectingMade
<1>4. /\ DOMAIN fields = DOMAIN b.fields
      /\ fields[f] = ExpectAccount(b.fields[f], Named(c, b, a))
      /\ \A g \in DOMAIN b.fields : g # f => fields[g] = b.fields[g]
  BY <1>3
<1>. HIDE DEF fields
<1>5. \E g \in DOMAIN fields : fields[g] = Bad
  BY <1>3, RequestMade
<1>6. fields[f] = Bad
  BY <1>2, <1>4, <1>5 DEF Sound
<1>7. Expected(b.fields) = b.fields[f]
  BY <1>1, <1>2, ExpectedField
<1>8. CASE Named(c, b, a) = Bad
  <2>1. c = "btc" /\ RequireNetwork(a, b.fields.network) = Bad
    BY <1>8 DEF Named
  <2>. QED
    BY <2>1
<1>9. CASE Named(c, b, a) # Bad
  <2>1. Named(c, b, a) = a
    BY <1>9 DEF Named, RequireNetwork
  <2>. QED
    BY <1>4, <1>6, <1>7, <2>1 DEF ExpectAccount
<1>. QED
  BY <1>8, <1>9

(***************************************************************************)
(* A transaction without a recipient.                                      *)
(***************************************************************************)

\* The fields of an EVM transaction.
EvmSendFields == DOMAIN EvmRequest["send_transaction"]

\* A body or a parameter that passes the check deploys something, or has a recipient.
LEMMA EvmServeChecked ==
  ASSUME NEW body, \A f \in DOMAIN body : body[f].json = "bool" => body[f].b \in BOOLEAN, NEW t,
         NEW a,
         NEW r, r = ServeRequest("evm", "send_transaction", body, Default("evm", t), a),
         r # Refused
  PROVE  EvmCheck(r.fields)
<1>. DEFINE op == "send_transaction"
            b == FromJson("evm", op, body, Default("evm", t))
            fields == ReadAll(EvmReaders[op], body)
<1>0. op \in Operations("evm") /\ {"to", "data"} \subseteq EvmSendFields
  BY DEF Operations, RequestTypes, EvmRequest, EvmSendFields
<1>1. b # Refused /\ r = IF a = None THEN b ELSE ExpectingOn("evm", b, a)
  BY DEF ServeRequest
<1>2. Sound("evm", op, b)
  BY <1>0, <1>1, BodySound
<1>3. EvmCheck(fields) /\ b = RequestOf(op, fields)
  BY <1>1 DEF FromJson, EvmFromJson
<1>. HIDE DEF fields
<1>4. EvmCheck(b.fields)
  BY <1>1, <1>3, RequestOfFields
<1>. HIDE DEF b
<1>5. DOMAIN b.fields = EvmSendFields
  BY <1>2 DEF Sound, WellTyped, RequestTypes, EvmSendFields
<1>6. CASE a # None
  <2>1. AccountField("evm", op) = "from"
    BY DEF AccountField, EvmAccountField
  <2>2. \A g \in DOMAIN b.fields : g # "from" => r.fields[g] = b.fields[g]
    BY <1>0, <1>1, <1>2, <1>6, <2>1, ExpectingFields
  <2>3. r.fields["to"] = b.fields["to"] /\ r.fields["data"] = b.fields["data"]
    BY <1>0, <1>5, <2>2
  <2>. QED
    BY <1>4, <2>3 DEF EvmCheck
<1>. QED
  BY <1>1, <1>4, <1>6

\* So is what the typed signer sends.
LEMMA EvmSignerChecked ==
  ASSUME NEW p, WellTyped(ParamTypes("evm", "send_transaction"), p), NEW t,
         NEW r, r = Signer("evm", "send_transaction", p, Default("evm", t)), r # Refused
  PROVE  EvmCheck(r.fields)
<1>. DEFINE x == EvmDefault(p, Default("evm", t))
<1>1. EvmCheck(p) /\ r = RequestOf("send_transaction", x)
  BY DEF Signer, EvmSigner
<1>2. {"to", "data"} \subseteq DOMAIN p
  BY DEF WellTyped, ParamTypes, RequestTypes, EvmRequest
<1>3. x.to = p.to /\ x.data = p.data
  BY <1>2 DEF EvmDefault
<1>. HIDE DEF x
<1>4. r.fields = x
  BY <1>1, RequestOfFields
<1>. QED
  BY <1>1, <1>3, <1>4 DEF EvmCheck

\* A command's flags that are given are not None.
Filled(command, args) ==
  \A f \in DOMAIN args \cap DOMAIN command : ParseFlag(command[f].type, args[f]) # None

\* A command that has no recipient has data, empty only if the caller says so.
LEMMA EvmCliData ==
  ASSUME NEW args, Filled(EvmCommand["send_transaction"], args), NEW t,
         NEW r, r = Cli("evm", "send_transaction", args, Default("evm", t)), r # Refused,
         r.fields.to = None
  PROVE  r.fields.data # None /\ "data" \in DOMAIN args
<1>. DEFINE command == EvmCommand["send_transaction"]
            flags == Flags(command, args)
            x == EvmDefault(flags, Default("evm", t))
<1>1. EvmUsage("send_transaction", args) /\ r = RequestOf("send_transaction", x)
  BY DEF Cli, EvmCli, EvmFlagFields
<1>2. {"to", "data"} \subseteq DOMAIN command
  BY DEF EvmCommand
<1>3. /\ "to" \in DOMAIN args => flags["to"] = ParseFlag(command["to"].type, args["to"])
      /\ "data" \in DOMAIN args => flags["data"] = ParseFlag(command["data"].type, args["data"])
  BY <1>2 DEF Flags
<1>4. x.to = flags["to"] /\ x.data = flags["data"]
  BY <1>2 DEF EvmDefault, Flags
<1>. HIDE DEF x, flags, command
<1>5. r.fields = x
  BY <1>1, RequestOfFields
<1>6. "to" \notin DOMAIN args
  BY <1>2, <1>3, <1>4, <1>5 DEF Filled, command
<1>7. "data" \in DOMAIN args
  BY <1>1, <1>6 DEF EvmUsage
<1>. QED
  BY <1>2, <1>3, <1>4, <1>5, <1>7 DEF Filled, command

(***************************************************************************)
(* A request that names no chain or network.                               *)
(***************************************************************************)

\* The Bitcoin constructors keep the network they are given.
LEMMA BtcBuildNetwork ==
  ASSUME NEW op, NEW p, "network" \in DOMAIN p, NEW r, r = BtcBuild(op, p), r # Refused
  PROVE  r.fields.network = p.network
<1>. DEFINE x == CASE op = "send_transfer" -> SendTransfer(p)
                   [] op = "sign_psbt"     -> SignPsbt(p)
                   [] OTHER                -> [p EXCEPT !.address = Checked(@, p.network)]
<1>1. r = RequestOf(op, x)
  BY DEF BtcBuild
<1>2. x.network = p.network
  BY DEF SendTransfer, SignPsbt, Join
<1>. HIDE DEF x
<1>. QED
  BY <1>1, <1>2, RequestOfFields

\* A Bitcoin body without a network is for the default one.
LEMMA BtcServeUnnamed ==
  ASSUME NEW op \in Operations("btc"), NEW body,
         \A f \in DOMAIN body : body[f].json = "bool" => body[f].b \in BOOLEAN, NEW t,
         "network" \notin DOMAIN body, NEW a,
         NEW r, r = ServeRequest("btc", op, body, Default("btc", t), a), r # Refused
  PROVE  r.fields.network = Default("btc", t)
<1>. DEFINE d == Default("btc", t)
            b == FromJson("btc", op, body, d)
            q == ReadAll(BtcReaders[op], body)
            p == DefaultedProtocol(op, BtcDefault(q, d))
<1>0. op \in {"connect", "send_transfer", "sign_psbt", "sign_message"}
  BY DEF Operations, RequestTypes, BtcRequest
<1>1. /\ b # Refused /\ b = BtcBuild(op, p)
      /\ r = IF a = None THEN b ELSE ExpectingOn("btc", b, a)
  BY DEF ServeRequest, FromJson, BtcFromJson
<1>2. "network" \in DOMAIN BtcReaders[op] /\ BtcReaders[op]["network"] = OptField("BtcNetwork")
  BY <1>0 DEF BtcReaders
<1>3. "network" \in DOMAIN q /\ q["network"] = None
  BY <1>2 DEF ReadAll, Read, OptField, OptParsed, Get, Absent, IsText
<1>. HIDE DEF q
<1>4. "network" \in DOMAIN p /\ p.network = d
  BY <1>3 DEF DefaultedProtocol, BtcDefault, Or
<1>5. Sound("btc", op, b)
  BY <1>1, BodySound
<1>. HIDE DEF p, b, d
<1>6. b.fields.network = d
  BY <1>1, <1>4, BtcBuildNetwork
<1>7. CASE a # None
  <2>1. AccountField("btc", op) # "network"
    BY DEF AccountField, BtcAccountField
  <2>2. "network" \in DOMAIN b.fields
    BY <1>0, <1>5 DEF Sound, WellTyped, RequestTypes, BtcRequest
  <2>3. r.fields["network"] = b.fields["network"]
    BY <1>1, <1>5, <1>7, <2>1, <2>2, ExpectingFields
  <2>. QED
    BY <1>6, <2>3 DEF d
<1>. QED
  BY <1>1, <1>6, <1>7 DEF d

\* A request whose default was filled in is for it.
LEMMA DefaultedPlace ==
  ASSUME NEW op, NEW fields, NEW f \in DOMAIN fields, fields[f] = None, NEW d,
         NEW r, r = RequestOf(op, [fields EXCEPT ![f] = Or(fields[f], d)]), r # Refused
  PROVE  r.fields[f] = d
<1>. DEFINE x == [fields EXCEPT ![f] = Or(fields[f], d)]
<1>1. x[f] = d
  BY DEF Or
<1>. HIDE DEF x
<1>. QED
  BY <1>1, RequestOfFields DEF x

\* The place of the typed signer's parameters.
LEMMA SignerUnnamed ==
  ASSUME NEW c \in {"evm", "tron", "btc"}, NEW op \in Operations(c), NEW p,
         WellTyped(ParamTypes(c, op), p), NEW t,
         PlaceField(c) \notin DOMAIN p \/ p[PlaceField(c)] = None,
         NEW r, r = Signer(c, op, p, Default(c, t)), r # Refused
  PROVE  r.fields[PlaceField(c)] = Default(c, t)
<1>. DEFINE d == Default(c, t)
            f == PlaceField(c)
<1>1. CASE c = "evm"
  <2>. DEFINE q == IF op = "connect" THEN EvmConnect(p) ELSE p
  <2>1. r = RequestOf(op, [q EXCEPT !["chainId"] = Or(q["chainId"], d)])
    BY <1>1 DEF Signer, EvmSigner, EvmDefault
  <2>2. f = "chainId"
    BY <1>1 DEF PlaceField
  <2>3. "chainId" \in DOMAIN p
    BY <1>1, <2>2, PlaceType DEF WellTyped, ParamTypes
  <2>4. "chainId" \in DOMAIN q /\ q["chainId"] = None
    BY <2>2, <2>3 DEF EvmConnect
  <2>. HIDE DEF q, d
  <2>5. r.fields["chainId"] = d
    BY <2>1, <2>4, DefaultedPlace
  <2>. QED
    BY <2>2, <2>5 DEF d
<1>2. CASE c = "tron"
  <2>1. r = RequestOf(op, [p EXCEPT !["network"] = Or(p["network"], d)])
    BY <1>2 DEF Signer, TronSigner, TronDefault
  <2>2. f = "network"
    BY <1>2 DEF PlaceField
  <2>3. "network" \in DOMAIN p /\ p["network"] = None
    BY <1>2, <2>2, PlaceType DEF WellTyped, ParamTypes
  <2>. HIDE DEF d
  <2>4. r.fields["network"] = d
    BY <2>1, <2>3, DefaultedPlace
  <2>. QED
    BY <2>2, <2>4 DEF d
<1>3. CASE c = "btc"
  <2>0. op \in {"connect", "send_transfer", "sign_psbt", "sign_message"}
    BY <1>3 DEF Operations, RequestTypes, BtcRequest
  <2>1. f = "network" /\ WellTyped(BtcParams(op), p)
    BY <1>3 DEF PlaceField, ParamTypes
  <2>2. /\ "network" \in DOMAIN BtcParams(op)
        /\ op # "connect" => BtcParams(op)["network"] = ReqField("BtcNetwork")
    BY <2>0 DEF BtcParams, BtcReaders, BtcRequest
  <2>3. "network" \in DOMAIN p /\ p["network"] = None
    BY <2>1, <2>2 DEF WellTyped
  <2>4. op = "connect"
    <3>1. ~OfType("BtcNetwork", None)
      BY NoneIsNoValue DEF OfType
    <3>. QED
      BY <2>1, <2>2, <2>3, <3>1 DEF WellTyped, ReqField
  <2>5. r = BtcBuild(op, BtcDefault(p, d))
    BY <1>3, <2>4 DEF Signer, BtcSigner
  <2>. HIDE DEF d
  <2>6. "network" \in DOMAIN BtcDefault(p, d) /\ BtcDefault(p, d).network = d
    BY <2>3 DEF BtcDefault, Or
  <2>7. r.fields.network = d
    BY <2>5, <2>6, BtcBuildNetwork
  <2>. QED
    BY <2>1, <2>7 DEF d
<1>. QED
  BY <1>1, <1>2, <1>3

\* The operations that send a TRON transaction.
LEMMA TronSendsPassOn ==
  ASSUME NEW op \in Operations("tron"), op \notin TronSends
  PROVE  op \in {"connect", "sign_message", "sign_typed_data"}
BY DEF TronSends, Operations, RequestTypes, TronRequest

\* A command without a chain or a network is for the default one, but for TRON's sends.
LEMMA CliUnnamed ==
  ASSUME NEW c \in {"evm", "tron", "btc"}, NEW op \in Operations(c), NEW args, NEW t,
         PlaceField(c) \notin DOMAIN args, c = "tron" => op \notin TronSends,
         NEW r, r = Cli(c, op, args, Default(c, t)), r # Refused
  PROVE  r.fields[PlaceField(c)] = Default(c, t)
<1>. DEFINE d == Default(c, t)
            f == PlaceField(c)
<1>0. \A command :
        f \in DOMAIN command /\ command[f].how = "optional" /\ command[f].type # "Switch" =>
          f \in DOMAIN Flags(command, args) /\ Flags(command, args)[f] = None
  BY DEF Flags, NotGiven
<1>1. CASE c = "evm"
  <2>. DEFINE flags == Flags(EvmCommand[op], args)
              q == EvmFlagFields(op, flags)
  <2>1. r = RequestOf(op, [q EXCEPT !["chainId"] = Or(q["chainId"], d)])
    BY <1>1 DEF Cli, EvmCli, EvmDefault
  <2>2. f = "chainId"
    BY <1>1 DEF PlaceField
  <2>3. op \in {"connect", "send_transaction", "sign_message", "sign_typed_data"}
    BY <1>1 DEF Operations, RequestTypes, EvmRequest
  <2>4. "chainId" \in DOMAIN EvmCommand[op] /\ EvmCommand[op]["chainId"] = OptField("ChainId")
    BY <2>3 DEF EvmCommand
  <2>5. "chainId" \in DOMAIN flags /\ flags["chainId"] = None
    BY <1>0, <2>2, <2>4 DEF OptField
  <2>. HIDE DEF flags
  <2>6. "chainId" \in DOMAIN q /\ q["chainId"] = None
    BY <2>3, <2>5 DEF EvmFlagFields, Join
  <2>. HIDE DEF q, d
  <2>7. r.fields["chainId"] = d
    BY <2>1, <2>6, DefaultedPlace
  <2>. QED
    BY <2>2, <2>7 DEF d
<1>2. CASE c = "tron"
  <2>. DEFINE flags == Flags(TronCommand[op], args)
              q == IF op = "sign_typed_data" THEN TronFileFields(flags) ELSE flags
  <2>1. op \in {"connect", "sign_message", "sign_typed_data"}
    BY <1>2, TronSendsPassOn
  <2>2. r = RequestOf(op, [q EXCEPT !["network"] = Or(q["network"], d)])
    BY <1>2, <2>1 DEF Cli, TronCli, TronDefault
  <2>3. f = "network"
    BY <1>2 DEF PlaceField
  <2>4. /\ "network" \in DOMAIN TronCommand[op]
        /\ TronCommand[op]["network"] = OptField("TronNetwork")
    BY <2>1 DEF TronCommand
  <2>5. "network" \in DOMAIN flags /\ flags["network"] = None
    BY <1>0, <2>3, <2>4 DEF OptField
  <2>. HIDE DEF flags
  <2>6. "network" \in DOMAIN q /\ q["network"] = None
    BY <2>5 DEF TronFileFields, Join
  <2>. HIDE DEF q, d
  <2>7. r.fields["network"] = d
    BY <2>2, <2>6, DefaultedPlace
  <2>. QED
    BY <2>3, <2>7 DEF d
<1>3. CASE c = "btc"
  <2>. DEFINE flags == Flags(BtcCommand[op], args)
              q == BtcFlagParams(op, flags)
  <2>1. op \in {"connect", "send_transfer", "sign_psbt", "sign_message"} /\ f = "network"
    BY <1>3 DEF Operations, RequestTypes, BtcRequest, PlaceField
  <2>2. /\ "network" \in DOMAIN BtcCommand[op]
        /\ BtcCommand[op]["network"] = OptField("BtcNetwork")
    BY <2>1 DEF BtcCommand
  <2>3. "network" \in DOMAIN flags /\ flags["network"] = None
    BY <1>0, <2>1, <2>2 DEF OptField
  <2>. HIDE DEF flags
  <2>4. "network" \in DOMAIN q /\ q["network"] = None
    BY <2>3 DEF BtcFlagParams, ReadPsbt, DefaultedProtocol
  <2>5. r = BtcBuild(op, BtcDefault(q, d))
    BY <1>3 DEF Cli, BtcCli, BtcFlagParams, flags
  <2>. HIDE DEF q, d
  <2>6. "network" \in DOMAIN BtcDefault(q, d) /\ BtcDefault(q, d).network = d
    BY <2>4 DEF BtcDefault, Or
  <2>7. r.fields.network = d
    BY <2>5, <2>6, BtcBuildNetwork
  <2>. QED
    BY <2>1, <2>7 DEF d
<1>. QED
  BY <1>1, <1>2, <1>3

\* The TRON commands that send leave a network that is not named to the page, whatever the
\* default is (tron.rs:187 uses it for the link only).
THEOREM TronSendUnnamed ==
  ASSUME NEW op \in TronSends, NEW args, "network" \notin DOMAIN args, NEW t,
         NEW r, r = Cli("tron", op, args, Default("tron", t)), r # Refused
  PROVE  r.fields.network = None
<1>. DEFINE flags == Flags(TronCommand[op], args)
<1>1. r = RequestOf(op, flags)
  BY DEF Cli, TronCli, TronSends
<1>2. /\ "network" \in DOMAIN TronCommand[op]
      /\ TronCommand[op]["network"] = OptField("TronNetwork")
  BY DEF TronSends, TronCommand
<1>3. \A command :
        "network" \in DOMAIN command /\ command["network"].how = "optional"
        /\ command["network"].type # "Switch" =>
          "network" \in DOMAIN Flags(command, args) /\ Flags(command, args)["network"] = None
  BY DEF Flags, NotGiven
<1>4. "network" \in DOMAIN flags /\ flags["network"] = None
  BY <1>2, <1>3 DEF OptField
<1>. HIDE DEF flags
<1>. QED
  BY <1>1, <1>4, RequestOfFields

(***************************************************************************)
(* The wire.                                                               *)
(***************************************************************************)

\* A sound EVM request that passes the check is read back from its wire as it was.
LEMMA EvmReadBack ==
  ASSUME NEW op \in Operations("evm"), NEW r, Sound("evm", op, r),
         op = "send_transaction" => EvmCheck(r.fields),
         NEW back, back = EvmFromJson(op, Wire(EvmRequest[op], r.fields))
  PROVE  back # Refused /\ \A f \in DOMAIN r.fields : back.fields[f] = r.fields[f]
<1>. DEFINE types == EvmRequest[op]
            fields == ReadAll(EvmReaders[op], Wire(types, r.fields))
<1>1. op \in DOMAIN EvmRequest /\ RequestTypes("evm") = EvmRequest
  BY DEF Operations, RequestTypes
<1>2. /\ DOMAIN r.fields = DOMAIN types /\ DOMAIN EvmReaders[op] = DOMAIN types
      /\ \A f \in DOMAIN types :
           FieldOK(types[f], r.fields[f]) /\ ReaderFor(EvmReaders[op][f], types[f])
  BY <1>1, EvmReadersFor DEF Sound, WellTyped, FieldOK, ReadersFor
<1>3. \A f \in DOMAIN types :
        types[f].type \notin LostTypes /\ EvmReaders[op][f].type # "ChainId"
  <2>. USE DEF EvmReaders, EvmRequest, LostTypes, ReqField, OptField, Field
  <2>1. CASE op = "connect"
    BY <2>1
  <2>2. CASE op = "send_transaction"
    BY <2>2
  <2>3. CASE op = "sign_message"
    BY <2>3
  <2>4. CASE op = "sign_typed_data"
    BY <2>4 DEF Join, TypedDataReaders, EvmTypedData
  <2>. QED
    BY <1>1, <2>1, <2>2, <2>3, <2>4 DEF EvmRequest
<1>4. DOMAIN fields = DOMAIN r.fields
  BY <1>2 DEF ReadAll
<1>5. \A f \in DOMAIN r.fields : fields[f] = r.fields[f]
  BY <1>2, <1>3, ReadAllWritten
<1>6. op = "send_transaction" => EvmCheck(fields)
  <2>1. op = "send_transaction" => {"to", "data"} \subseteq DOMAIN r.fields
    BY <1>2 DEF EvmRequest
  <2>. QED
    BY <1>5, <2>1 DEF EvmCheck
<1>7. back = RequestOf(op, fields)
  BY <1>6 DEF EvmFromJson
<1>. HIDE DEF fields
<1>8. back # Refused /\ back = [op |-> op, fields |-> fields]
  BY <1>4, <1>5, <1>7, RequestMade DEF Sound
<1>. QED
  BY <1>5, <1>8

\* A sound TRON request is read back from its wire as it was, but for the two numbers:
\* whatever they were, they are read as absent (types.rs:200 reads them as texts).
THEOREM TronReadBack ==
  ASSUME NEW op \in Operations("tron"), NEW r, Sound("tron", op, r),
         NEW back, back = TronFromJson(op, Wire(TronRequest[op], r.fields))
  PROVE  /\ back # Refused
         /\ \A f \in DOMAIN r.fields \ LostOnWire : back.fields[f] = r.fields[f]
         /\ \A f \in DOMAIN r.fields \cap LostOnWire : back.fields[f] = None
<1>. DEFINE types == TronRequest[op]
            fields == ReadAll(TronReaders[op], Wire(types, r.fields))
<1>1. op \in DOMAIN TronRequest /\ RequestTypes("tron") = TronRequest
  BY DEF Operations, RequestTypes
<1>2. /\ DOMAIN r.fields = DOMAIN types /\ DOMAIN TronReaders[op] = DOMAIN types
      /\ \A f \in DOMAIN types :
           FieldOK(types[f], r.fields[f]) /\ ReaderFor(TronReaders[op][f], types[f])
  BY <1>1, TronReadersFor DEF Sound, WellTyped, FieldOK, ReadersFor
<1>3. \A f \in DOMAIN types :
        /\ TronReaders[op][f].type # "ChainId"
        /\ f \notin LostOnWire => types[f].type \notin LostTypes
        /\ f \in LostOnWire => /\ types[f].type \in LostTypes
                               /\ types[f] = OptField(types[f].type)
                               /\ TronReaders[op][f] = types[f]
  <2>. USE DEF TronReaders, TronRequest, LostTypes, LostOnWire, ReqField, OptField, Field
  <2>1. CASE op = "connect"
    BY <2>1
  <2>2. CASE op = "send_transaction"
    BY <2>2
  <2>3. CASE op = "trigger_contract"
    BY <2>3
  <2>4. CASE op = "deploy_contract"
    BY <2>4
  <2>5. CASE op = "sign_message"
    BY <2>5
  <2>6. CASE op = "sign_typed_data"
    BY <2>6 DEF Join, TypedDataReaders, TronTypedData
  <2>. QED
    BY <1>1, <2>1, <2>2, <2>3, <2>4, <2>5, <2>6 DEF TronRequest
<1>4. DOMAIN fields = DOMAIN r.fields
  BY <1>2 DEF ReadAll
<1>5. \A f \in DOMAIN r.fields \ LostOnWire : fields[f] = r.fields[f]
  BY <1>2, <1>3, ReadAllWritten
<1>6. ASSUME NEW f \in DOMAIN r.fields \cap LostOnWire
      PROVE  fields[f] = None
  <2>1. fields[f] = Read(TronReaders[op][f], Written(types[f], r.fields[f]))
    BY <1>4, GetWire DEF ReadAll
  <2>. QED
    BY <1>2, <1>3, <2>1, ReadLost
<1>7. back = RequestOf(op, fields)
  BY DEF TronFromJson
<1>. HIDE DEF fields
<1>8. back # Refused /\ back = [op |-> op, fields |-> fields]
  BY <1>4, <1>5, <1>6, <1>7, NoneIsNotBad, RequestMade DEF Sound
<1>. QED
  BY <1>5, <1>6, <1>8

\* A sound request is read back from its wire.
THEOREM SoundReadBack ==
  ASSUME NEW c \in {"evm", "tron", "btc"}, NEW op \in Operations(c), NEW r, Sound(c, op, r),
         c = "evm" /\ op = "send_transaction" => EvmCheck(r.fields), NEW t,
         NEW back, back = FromJson(c, op, Wire(RequestTypes(c)[op], r.fields), Default(c, t))
  PROVE  back # Refused /\ \A f \in DOMAIN r.fields \ LostOnWire : back.fields[f] = r.fields[f]
<1>1. CASE c = "evm"
  <2>1. back = EvmFromJson(op, Wire(EvmRequest[op], r.fields))
    BY <1>1 DEF FromJson, RequestTypes
  <2>. QED
    BY <1>1, <2>1, EvmReadBack
<1>2. CASE c = "tron"
  <2>1. back = TronFromJson(op, Wire(TronRequest[op], r.fields))
    BY <1>2 DEF FromJson, RequestTypes
  <2>. QED
    BY <1>2, <2>1, TronReadBack
<1>3. CASE c = "btc"
  <2>1. back = BtcFromJson(op, Wire(BtcRequest[op], r.fields), Default(c, t))
    BY <1>3 DEF FromJson, RequestTypes
  <2>2. op \in DOMAIN BtcRequest
    BY <1>3 DEF Operations, RequestTypes
  <2>3. /\ WellTyped(BtcRequest[op], r.fields) /\ BtcSound(op, r.fields)
        /\ \A f \in DOMAIN r.fields : r.fields[f] # Bad
    BY <1>3 DEF Sound, RequestTypes
  <2>. QED
    BY <2>1, <2>2, <2>3, BtcReadBack
<1>. QED
  BY <1>1, <1>2, <1>3

(***************************************************************************)
(* What the command line prints.                                           *)
(***************************************************************************)

\* A value that a wallet's text is read as is printed as a text that is read as it.
LEMMA EvmPrintedReadsBack ==
  ASSUME NEW op, NEW r, r.op = op, NEW t, EvmResult(r, t) # Bad
  PROVE  EvmResult(r, EvmPrint(op, EvmResult(r, t))) = EvmResult(r, t)
<1>1. EvmReturns(op) \in SpelledTypes /\ EvmReturns(op) \in ParsedTypes
  BY DEF EvmReturns, SpelledTypes, ParsedTypes
<1>. DEFINE v == EvmResult(r, t)
<1>2. v = Parse(EvmReturns(op), t)
  BY DEF EvmResult
<1>3. OfType(EvmReturns(op), v)
  BY <1>1, <1>2, ParseOfType
<1>. HIDE DEF v
<1>. QED
  BY <1>1, <1>2, <1>3, ParseSpell DEF EvmPrint, EvmResult, v

\* A transaction hash is read with and without its 0x.
LEMMA TxHashBare ==
  ASSUME NEW v, OfType("TxHash", v)
  PROVE  ParseTxHash(Hex(FALSE, v)) = v
BY DEF ParseTxHash, BytesOf, Hex, OfType

\* The same for TRON, whose deployments return two values.
LEMMA TronPrintedReadsBack ==
  ASSUME NEW op, NEW r, r.op = op, NEW t, TronResult(r, t) # Bad
  PROVE  TronResult(r, TronPrint(op, TronResult(r, t))) = TronResult(r, t)
<1>. DEFINE v == TronResult(r, t)
<1>1. CASE op = "deploy_contract"
  <2>. DEFINE hash == ParseTxHash(TextAt(t.fields, "txHash"))
              contract == ParseTronAddress(TextAt(t.fields, "contractAddress"))
              j == [txHash |-> Str(Hex(FALSE, hash)),
                    contractAddress |-> Str(SpellTronAddress(contract))]
  <2>1. v = ParseDeployResult(t)
    BY <1>1 DEF TronResult
  <2>2. hash # Bad /\ contract # Bad /\ v = [txHash |-> hash, contractAddress |-> contract]
    BY <2>1 DEF ParseDeployResult
  <2>3. Parse("TxHash", TextAt(t.fields, "txHash")) = hash /\
        Parse("TronAddress", TextAt(t.fields, "contractAddress")) = contract
    BY DEF Parse
  <2>4. OfType("TxHash", hash) /\ OfType("TronAddress", contract)
    BY <2>2, <2>3, ParseOfType DEF ParsedTypes, SpelledTypes
  <2>. HIDE DEF hash, contract, v
  <2>5. TronPrint(op, v) = JsonText(j)
    <3>1. v.txHash = hash /\ v.contractAddress = contract
      BY <2>2
    <3>2. TronPrint(op, v) =
            JsonText([txHash |-> Str(Hex(FALSE, v.txHash)),
                      contractAddress |-> Str(SpellTronAddress(v.contractAddress))])
      BY <1>1 DEF TronPrint, TronReturns
    <3>. QED
      BY <3>1, <3>2
  <2>6. /\ TextAt(j, "txHash") = Hex(FALSE, hash)
        /\ TextAt(j, "contractAddress") = SpellTronAddress(contract)
    BY DEF TextAt, Get, Str, IsText
  <2>. HIDE DEF j
  <2>7. JsonText(j).form = "json" /\ JsonText(j).fields = j
    BY DEF JsonText
  <2>8. ParseTxHash(Hex(FALSE, hash)) = hash
    BY <2>4, TxHashBare
  <2>9. ParseTronAddress(SpellTronAddress(contract)) = contract
    <3>1. Parse("TronAddress", Spell("TronAddress", contract)) = contract
      BY <2>4, ParseSpell DEF SpelledTypes
    <3>. QED
      BY <3>1 DEF Parse, Spell
  <2>10. ParseDeployResult(JsonText(j)) = v
    BY <2>2, <2>6, <2>7, <2>8, <2>9 DEF ParseDeployResult
  <2>11. TronResult(r, TronPrint(op, v)) = ParseDeployResult(JsonText(j))
    BY <1>1, <2>5 DEF TronResult
  <2>. QED
    BY <2>10, <2>11 DEF v
<1>2. CASE op # "deploy_contract"
  <2>. DEFINE T == TronReturns(op)
  <2>1. T \in SpelledTypes /\ T \in ParsedTypes
    BY DEF TronReturns, SpelledTypes, ParsedTypes
  <2>2. v = Parse(T, t) /\ \A x : TronResult(r, x) = Parse(T, x)
    BY <1>2 DEF TronResult
  <2>. HIDE DEF v, T
  <2>3. OfType(T, v) /\ v # Bad
    BY <2>1, <2>2, ParseOfType DEF v
  <2>4. CASE T = "TxHash"
    <3>1. TronPrint(op, v) = Hex(FALSE, v)
      BY <1>2, <2>4 DEF TronPrint, T
    <3>2. Parse(T, Hex(FALSE, v)) = v
      BY <2>3, <2>4, TxHashBare DEF Parse
    <3>. QED
      BY <2>2, <3>1, <3>2 DEF v
  <2>5. CASE T # "TxHash"
    <3>1. TronPrint(op, v) = Spell(T, v)
      BY <1>2, <2>5 DEF TronPrint, T
    <3>2. Parse(T, Spell(T, v)) = v
      BY <2>1, <2>3, ParseSpell
    <3>. QED
      BY <2>2, <3>1, <3>2 DEF v
  <2>. QED
    BY <2>4, <2>5
<1>. QED
  BY <1>1, <1>2

\* The same for Bitcoin, whose accounts and PSBTs are printed as JSON.
LEMMA BtcPrintedReadsBack ==
  ASSUME NEW op \in Operations("btc"), NEW r, r.op = op, NEW t, BtcResult(r, t) # Bad
  PROVE  BtcResult(r, BtcPrint(op, BtcResult(r, t))) = BtcResult(r, t)
<1>. DEFINE v == BtcResult(r, t)
<1>0. op \in {"connect", "send_transfer", "sign_psbt", "sign_message"}
  BY DEF Operations, RequestTypes, BtcRequest
<1>1. CASE op = "connect"
  <2>. DEFINE network == r.fields.network
              address == ParseUncheckedAddress(FieldText(t, "address"))
              key == ParseBtcPublicKey(FieldText(t, "publicKey"))
              j == [address |-> Str(SpellBtcAddress(address)),
                    publicKey |-> Str(SpellBtcPublicKey(key))]
  <2>1. \A x : BtcResult(r, x) = ParseAccount(x, network)
    BY <1>1 DEF BtcResult
  <2>2. /\ address # Bad /\ key # Bad /\ RequireNetwork(address, network) # Bad
        /\ v = [address |-> address, publicKey |-> key]
    BY <2>1 DEF ParseAccount
  <2>. HIDE DEF address, key, v, network
  <2>3. BtcPrint(op, v) = JsonText(j)
    BY <1>1, <2>2 DEF BtcPrint
  <2>4. /\ FieldText(JsonText(j), "address") = SpellBtcAddress(address)
        /\ FieldText(JsonText(j), "publicKey") = SpellBtcPublicKey(key)
    BY DEF FieldText, AnswerField, JsonText, Get, Str, IsText
  <2>5. /\ ParseUncheckedAddress(SpellBtcAddress(address)) = address
        /\ ParseBtcPublicKey(SpellBtcPublicKey(key)) = key
    BY DEF ParseUncheckedAddress, SpellBtcAddress, BtcText, ParseBtcPublicKey,
           SpellBtcPublicKey, KeyText
  <2>. HIDE DEF j
  <2>6. ParseAccount(JsonText(j), network) = v
    BY <2>2, <2>4, <2>5 DEF ParseAccount
  <2>. QED
    BY <2>1, <2>3, <2>6 DEF v
<1>2. CASE op = "send_transfer"
  <2>1. \A x : BtcResult(r, x) = ParseTxid(x)
    BY <1>2 DEF BtcResult
  <2>2. v # Bad /\ Len(v) = HashLen
    BY <2>1 DEF ParseTxid, ParseTxHash, BytesOf
  <2>. HIDE DEF v
  <2>3. ParseTxid(SpellTxid(v)) = v
    BY <2>2 DEF ParseTxid, SpellTxid, ParseTxHash, BytesOf, Hex
  <2>. QED
    BY <1>2, <2>1, <2>3 DEF BtcPrint, v
<1>3. CASE op = "sign_psbt"
  <2>. DEFINE unsigned == r.fields.psbt
              psbt == ParsePsbt(FieldText(t, "psbt"))
              said == IsText(AnswerField(t, "txid"))
              txid == IF said THEN ParseTxid(FieldText(t, "txid")) ELSE None
              j == [psbt |-> Str(SpellPsbt(psbt)),
                    txid |-> IF txid = None THEN Opaque("null") ELSE Str(SpellTxid(txid))]
  <2>1. \A x : BtcResult(r, x) = ParseSignedPsbt(unsigned, x)
    BY <1>3 DEF BtcResult
  <2>2. /\ psbt # Bad /\ txid # Bad /\ UnsignedTxid(psbt) = UnsignedTxid(unsigned)
        /\ said => txid = UnsignedTxid(unsigned)
        /\ v = [psbt |-> psbt, txid |-> txid]
    BY <2>1 DEF ParseSignedPsbt
  <2>3. txid # None => said /\ Len(txid) = HashLen
    BY <2>2 DEF ParseTxid, ParseTxHash, BytesOf
  <2>. HIDE DEF psbt, said, txid, v, unsigned
  <2>4. BtcPrint(op, v) = JsonText(j)
    BY <1>3, <2>2 DEF BtcPrint
  <2>5. FieldText(JsonText(j), "psbt") = SpellPsbt(psbt)
    BY DEF FieldText, AnswerField, JsonText, Get, Str, IsText
  <2>6. ParsePsbt(SpellPsbt(psbt)) = psbt
    BY DEF ParsePsbt, SpellPsbt, PsbtText
  <2>7. CASE txid = None
    <3>1. ~IsText(AnswerField(JsonText(j), "txid"))
      BY <2>7 DEF AnswerField, JsonText, Get, IsText, Opaque
    <3>. HIDE DEF j
    <3>2. ParseSignedPsbt(unsigned, JsonText(j)) = v
      BY <2>2, <2>5, <2>6, <2>7, <3>1, NoneIsNotBad DEF ParseSignedPsbt
    <3>. QED
      BY <2>1, <2>4, <3>2 DEF v
  <2>8. CASE txid # None
    <3>1. /\ IsText(AnswerField(JsonText(j), "txid"))
          /\ FieldText(JsonText(j), "txid") = SpellTxid(txid)
      BY <2>8 DEF FieldText, AnswerField, JsonText, Get, Str, IsText
    <3>2. ParseTxid(SpellTxid(txid)) = txid
      BY <2>3, <2>8 DEF ParseTxid, SpellTxid, ParseTxHash, BytesOf, Hex
    <3>. HIDE DEF j
    <3>3. ParseSignedPsbt(unsigned, JsonText(j)) = v
      BY <2>2, <2>3, <2>5, <2>6, <2>8, <3>1, <3>2 DEF ParseSignedPsbt
    <3>. QED
      BY <2>1, <2>4, <3>3 DEF v
  <2>. QED
    BY <2>7, <2>8
<1>4. CASE op = "sign_message"
  <2>1. \A x : BtcResult(r, x) = ParseMessageSignature(x)
    BY <1>4 DEF BtcResult
  <2>2. v # <<>>
    BY <2>1 DEF ParseMessageSignature
  <2>. HIDE DEF v
  <2>3. ParseMessageSignature(SpellMessageSignature(v)) = v
    BY <2>2 DEF ParseMessageSignature, SpellMessageSignature, Base64
  <2>. QED
    BY <1>4, <2>1, <2>3 DEF BtcPrint, v
<1>. QED
  BY <1>0, <1>1, <1>2, <1>3, <1>4

\* The same for every chain.
LEMMA PrintedResult ==
  ASSUME NEW c \in {"evm", "tron", "btc"}, NEW op \in Operations(c), NEW r, r.op = op, NEW t,
         Result(c, r, t) # Bad
  PROVE  Result(c, r, Printed(c, op, Result(c, r, t))) = Result(c, r, t)
<1>1. CASE c = "evm"
  BY <1>1, EvmPrintedReadsBack DEF Result, Printed
<1>2. CASE c = "tron"
  BY <1>2, TronPrintedReadsBack DEF Result, Printed
<1>3. CASE c = "btc"
  BY <1>3, BtcPrintedReadsBack DEF Result, Printed
<1>. QED
  BY <1>1, <1>2, <1>3
=============================================================================
