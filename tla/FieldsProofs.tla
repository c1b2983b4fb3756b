---------------------------- MODULE FieldsProofs ----------------------------
(***************************************************************************)
(* Lemmas about the value types and the fields of a request, for every     *)
(* text and every JSON value: what a parser makes of a text is a value of  *)
(* the type, a value's own spelling is read as that value, and so is what  *)
(* serde writes for it.                                                    *)
(***************************************************************************)
EXTENDS Fields, WellFoundedInduction, TLAPS

\* The types that are written as a text.
SpelledTypes ==
  {"Text", "Url", "Address", "Wei", "CallData", "HexData", "TxHash", "Signature",
   "TronNetwork", "TronAddress", "Sun", "BtcNetwork", "UncheckedAddress", "Sats", "SatPerVb",
   "Psbt", "MessageProtocol"}

\* The types whose values are made of a text.
ParsedTypes == SpelledTypes \cup {"ChainId", "EnergyLimit", "Percentage"}

\* A set of numbers that holds zero, and with a number the next, holds them all.  (The
\* library's induction theorems take an operator; its theorem about minima takes a set.)
LEMMA Induction ==
  ASSUME NEW S, 0 \in S, \A n \in Nat : n \in S => n + 1 \in S
  PROVE  Nat \subseteq S
<1>. DEFINE R == OpToRel(<, Nat)
<1>. SUFFICES ASSUME Nat \ S # {} PROVE FALSE
  OBVIOUS
<1>1. PICK x \in Nat \ S : \A y \in Nat \ S : ~ (<<y, x>> \in R)
  <2>1. IsWellFoundedOn(R, Nat)
    BY NatLessThanWellFounded
  <2>. HIDE DEF R
  <2>. QED
    BY <2>1, WFMin
<1>2. x \in Nat /\ x # 0 /\ x - 1 \in Nat /\ (x - 1) + 1 = x /\ x - 1 < x
  <2>1. x \in Nat /\ x # 0
    OBVIOUS
  <2>. QED
    BY <2>1
<1>3. <<x - 1, x>> \in R
  BY <1>1, <1>2 DEF OpToRel
<1>. QED
  BY <1>1, <1>2, <1>3

(***************************************************************************)
(* Texts.                                                                  *)
(***************************************************************************)

\* A number that is accepted is within its width.
LEMMA UpToBound ==
  ASSUME NEW max, NEW t, UpTo(max, t) # Bad
  PROVE  UpTo(max, t) <= max
BY DEF UpTo

\* A number within its width is read from its own decimal text.
LEMMA UpToDecimal ==
  ASSUME NEW max, NEW n, n <= max
  PROVE  UpTo(max, Decimal(n)) = n
BY DEF UpTo, Decimal

\* What a text is accepted as is a value of the type.
THEOREM ParseOfType ==
  ASSUME NEW T \in ParsedTypes, NEW t, Parse(T, t) # Bad
  PROVE  OfType(T, Parse(T, t))
<1>1. CASE T \in {"Text", "Url", "CallData", "HexData", "UncheckedAddress", "Psbt"}
  BY <1>1 DEF OfType
<1>2. CASE T = "ChainId"
  BY <1>2, UpToBound DEF Parse, ParseChainId, OfType
<1>3. CASE T = "Address"
  BY <1>3 DEF Parse, ParseAddress, BytesOf, OfType
<1>4. CASE T = "Wei"
  <2>1. Parse(T, t) = ParseWei(t)
    BY <1>4 DEF Parse
  <2>2. ParseWei(t) <= U256Max
    BY <2>1, UpToBound DEF ParseWei
  <2>. QED
    BY <1>4, <2>1, <2>2 DEF OfType
<1>5. CASE T = "TxHash"
  BY <1>5 DEF Parse, ParseTxHash, BytesOf, OfType
<1>6. CASE T = "Signature"
  BY <1>6 DEF Parse, ParseSignature, BytesOf, OfType
<1>7. CASE T = "TronNetwork"
  BY <1>7 DEF Parse, ParseTronNetwork, Keyword, OfType
<1>8. CASE T = "TronAddress"
  BY <1>8 DEF Parse, ParseTronAddress, OfType
<1>9. CASE T \in {"Sun", "EnergyLimit", "Sats"}
  BY <1>9, UpToBound DEF Parse, ParseSun, ParseEnergyLimit, ParseSats, OfType
<1>10. CASE T = "Percentage"
  BY <1>10, UpToBound DEF Parse, ParsePercentage, OfType
<1>11. CASE T = "BtcNetwork"
  BY <1>11 DEF Parse, ParseBtcNetwork, Keyword, BtcNetworks, OfType
<1>12. CASE T = "SatPerVb"
  BY <1>12, UpToBound DEF Parse, ParseSatPerVb, OfType
<1>13. CASE T = "MessageProtocol"
  BY <1>13 DEF Parse, ParseMessageProtocol, Keyword, OfType
<1>. QED
  BY <1>1, <1>2, <1>3, <1>4, <1>5, <1>6, <1>7, <1>8, <1>9, <1>10, <1>11, <1>12, <1>13
  DEF ParsedTypes, SpelledTypes

\* A value is read from its own text.
THEOREM ParseSpell ==
  ASSUME NEW T \in SpelledTypes, NEW v, OfType(T, v)
  PROVE  Parse(T, Spell(T, v)) = v
<1>1. CASE T = "Text"
  BY <1>1 DEF Parse, Spell
<1>2. CASE T = "Url"
  BY <1>2 DEF Parse, Spell, ParseUrl, SpellUrl, UrlText
<1>3. CASE T = "Address"
  BY <1>3 DEF Parse, Spell, ParseAddress, SpellAddress, BytesOf, Hex, OfType
<1>4. CASE T = "Wei"
  BY <1>4, UpToDecimal DEF Parse, Spell, ParseWei, SpellWei, Decimal, OfType
<1>5. CASE T = "CallData"
  BY <1>5 DEF Parse, Spell, ParseCallData, SpellCallData, BytesOf, Hex
<1>6. CASE T = "HexData"
  BY <1>6 DEF Parse, Spell, ParseHexData, SpellHexData, BytesOf, Hex
<1>7. CASE T = "TxHash"
  BY <1>7 DEF Parse, Spell, ParseTxHash, SpellTxHash, BytesOf, Hex, OfType
<1>8. CASE T = "Signature"
  BY <1>8 DEF Parse, Spell, ParseSignature, SpellSignature, BytesOf, Hex, OfType
<1>9. CASE T = "TronNetwork"
  BY <1>9 DEF Parse, Spell, ParseTronNetwork, SpellTronNetwork, Keyword, Word, OfType
<1>10. CASE T = "TronAddress"
  BY <1>10 DEF Parse, Spell, ParseTronAddress, SpellTronAddress, Base58, OfType
<1>11. CASE T = "Sun"
  BY <1>11, UpToDecimal DEF Parse, Spell, ParseSun, SpellSun, OfType
<1>12. CASE T = "BtcNetwork"
  <2>1. v \in BtcNetworks /\ v # "testnet3"
    BY <1>12 DEF OfType, BtcNetworks
  <2>2. Keyword({"testnet3"}, Word(v, FALSE)) = Bad /\ Keyword(BtcNetworks, Word(v, FALSE)) = v
    BY <2>1 DEF Keyword, Word
  <2>. QED
    BY <1>12, <2>2 DEF Parse, Spell, ParseBtcNetwork, SpellBtcNetwork
<1>13. CASE T = "UncheckedAddress"
  BY <1>13 DEF Parse, Spell, ParseUncheckedAddress, SpellBtcAddress, BtcText
<1>14. CASE T = "Sats"
  BY <1>14, UpToDecimal DEF Parse, Spell, ParseSats, SpellSats, OfType
<1>15. CASE T = "SatPerVb"
  BY <1>15, UpToDecimal DEF Parse, Spell, ParseSatPerVb, SpellSatPerVb, OfType
<1>16. CASE T = "Psbt"
  BY <1>16 DEF Parse, Spell, ParsePsbt, SpellPsbt, PsbtText
<1>17. CASE T = "MessageProtocol"
  BY <1>17 DEF Parse, Spell, ParseMessageProtocol, SpellMessageProtocol, Keyword, Word, OfType
<1>. QED
  BY <1>1, <1>2, <1>3, <1>4, <1>5, <1>6, <1>7, <1>8, <1>9, <1>10, <1>11, <1>12, <1>13, <1>14,
     <1>15, <1>16, <1>17 DEF SpelledTypes

(***************************************************************************)
(* Fields.                                                                 *)
(***************************************************************************)

\* A reader is for a field when the values it makes may stand in the field.
ReaderFor(reader, field) ==
  \/ /\ reader = field /\ field \in {ReqField(field.type), OptField(field.type)}
     /\ field.type \in ParsedTypes
  \/ reader.how = "u64" /\ field = OptField("ChainId")
  \/ reader.how \in {"json", "present"} /\ field = ReqField("Json")
  \/ reader.how = "value" /\ field = OptField("Json")
  \/ reader.how = "bool" /\ field = ReqField("Flag")
  \/ reader.how = "message" /\ field = ReqField("Message")
  \/ reader.how = "indexes" /\ field = OptField("Indexes")

\* A field of a struct holds a value of its type, or None if it is an Option.
FieldOK(field, v) == (field.how = "optional" /\ v = None) \/ OfType(field.type, v)

\* What serde writes for a field.
Written(field, v) ==
  IF field.how = "required" \/ v # None THEN WireOf(field.type, v) ELSE Absent

\* What a reader makes of a JSON value that it does not refuse may stand in the field.
LEMMA ReadOfType ==
  ASSUME NEW reader, NEW field, ReaderFor(reader, field), NEW j,
         reader.how = "bool" /\ j.json = "bool" => j.b \in BOOLEAN, Read(reader, j) # Bad
  PROVE  FieldOK(field, Read(reader, j))
<1>1. CASE /\ reader = field /\ field \in {ReqField(field.type), OptField(field.type)}
           /\ field.type \in ParsedTypes
  <2>1. CASE reader = ReqField(field.type)
    <3>1. Read(reader, j) = ReqParsed(field.type, j)
      BY <2>1 DEF Read, ReqField
    <3>. QED
      BY <1>1, <3>1, ParseOfType DEF ReqParsed, FieldOK
  <2>2. CASE reader = OptField(field.type)
    <3>1. Read(reader, j) = OptParsed(field.type, j) /\ field.how = "optional"
      BY <1>1, <2>2 DEF Read, OptField
    <3>. QED
      BY <1>1, <3>1, ParseOfType DEF OptParsed, FieldOK
  <2>. QED
    BY <1>1, <2>1, <2>2
<1>2. CASE reader.how = "u64" /\ field = OptField("ChainId")
  BY <1>2 DEF Read, AsU64, FieldOK, OptField, OfType
<1>3. CASE reader.how \in {"json", "present"} /\ field = ReqField("Json")
  BY <1>3 DEF Read, JsonField, IsAbsent, FieldOK, ReqField, OfType, EmptyObject, Opaque
<1>4. CASE reader.how = "value" /\ field = OptField("Json")
  BY <1>4 DEF Read, FieldOK, OptField, OfType
<1>5. CASE reader.how = "bool" /\ field = ReqField("Flag")
  BY <1>5 DEF Read, BoolField, FieldOK, ReqField, OfType
<1>6. CASE reader.how = "message" /\ field = ReqField("Message")
  BY <1>6 DEF Read, SignableMessage, FieldOK, ReqField, OfType
<1>7. CASE reader.how = "indexes" /\ field = OptField("Indexes")
  BY <1>7 DEF Read, SignInputsField, FieldOK, OptField, OfType
<1>. QED
  BY <1>1, <1>2, <1>3, <1>4, <1>5, <1>6, <1>7 DEF ReaderFor

\* The types whose values the wire carries as a number that no reader takes.
LostTypes == {"EnergyLimit", "Percentage"}

\* What serde writes for a value of a type that is written as a text is read as the value.
LEMMA ReadSpelled ==
  ASSUME NEW T \in SpelledTypes, NEW v, OfType(T, v), NEW reader \in {ReqField(T), OptField(T)}
  PROVE  Read(reader, WireOf(T, v)) = v
<1>1. WireOf(T, v) = Str(Spell(T, v))
  BY DEF WireOf, SpelledTypes
<1>2. Read(reader, Str(Spell(T, v))) = Parse(T, Spell(T, v))
  BY DEF Read, ReqParsed, OptParsed, IsText, Str, ReqField, OptField
<1>. QED
  BY <1>1, <1>2, ParseSpell

\* What serde writes for a field is read as the field's value.
THEOREM ReadWritten ==
  ASSUME NEW reader, NEW field, ReaderFor(reader, field), field.type \notin LostTypes,
         NEW v, FieldOK(field, v), reader.type = "ChainId" => reader.how = "u64"
  PROVE  Read(reader, Written(field, v)) = v
<1>. DEFINE T == field.type
<1>1. CASE /\ reader = field /\ field \in {ReqField(T), OptField(T)} /\ T \in ParsedTypes
  <2>1. T \in SpelledTypes
    BY <1>1 DEF ParsedTypes, LostTypes, ReqField, OptField
  <2>2. CASE field.how = "required" \/ v # None
    BY <1>1, <2>1, <2>2, ReadSpelled DEF Written, FieldOK, ReqField
  <2>3. CASE ~(field.how = "required" \/ v # None)
    <3>1. reader.how = "optional" /\ Written(field, v) = Absent
      BY <1>1, <2>3 DEF Written, ReqField, OptField
    <3>. QED
      BY <2>3, <3>1 DEF Read, OptParsed, IsText, Absent
  <2>. QED
    BY <2>2, <2>3
<1>2. CASE reader.how = "u64" /\ field = OptField("ChainId")
  BY <1>2 DEF Read, AsU64, Written, WireOf, Num, Absent, FieldOK, OptField, OfType
<1>3. CASE reader.how \in {"json", "present"} /\ field = ReqField("Json")
  BY <1>3 DEF Read, JsonField, IsAbsent, Written, WireOf, FieldOK, ReqField, OfType
<1>4. CASE reader.how = "value" /\ field = OptField("Json")
  BY <1>4 DEF Read, IsAbsent, Absent, Written, WireOf, FieldOK, OptField, OfType
<1>5. CASE reader.how = "bool" /\ field = ReqField("Flag")
  BY <1>5 DEF Read, BoolField, IsAbsent, Written, WireOf, Bool, ReqField
<1>6. CASE reader.how = "message" /\ field = ReqField("Message")
  <2>1. Written(field, v) = WireOf("Message", v) /\ OfType("Message", v)
    BY <1>6 DEF Written, FieldOK, ReqField
  <2>2. Read(reader, WireOf("Message", v)) = SignableMessage(WireOf("Message", v))
    BY <1>6 DEF Read
  <2>3. CASE v.as = "text"
    BY <2>1, <2>2, <2>3 DEF WireOf, Str, SignableMessage, OfType
  <2>4. CASE v.as # "text"
    <3>. DEFINE raw == Str(SpellCallData(v.bytes))
    <3>1. WireOf("Message", v) = Object([raw |-> raw])
      BY <2>4 DEF WireOf
    <3>2. Get([raw |-> raw], "raw") = raw
      BY DEF Get
    <3>3. ReqParsed("CallData", raw) = v.bytes
      BY DEF ReqParsed, IsText, Str, Parse, ParseCallData, SpellCallData, BytesOf, Hex
    <3>4. v = [as |-> "raw", bytes |-> v.bytes] /\ v.bytes # Bad
      BY <2>1, <2>4 DEF OfType
    <3>. HIDE DEF raw
    <3>. QED
      BY <2>1, <2>2, <3>1, <3>2, <3>3, <3>4 DEF SignableMessage, Object
  <2>. QED
    BY <2>3, <2>4
<1>7. CASE reader.how = "indexes" /\ field = OptField("Indexes")
  BY <1>7 DEF Read, SignInputsField, IsAbsent, Absent, Written, WireOf, Array, FieldOK, OptField,
              OfType
<1>. QED
  BY <1>1, <1>2, <1>3, <1>4, <1>5, <1>6, <1>7 DEF ReaderFor

\* A number that is lost is read as none.
LEMMA ReadLost ==
  ASSUME NEW T \in LostTypes, NEW v
  PROVE  Read(OptField(T), Written(OptField(T), v)) = None
BY DEF LostTypes, Read, OptParsed, IsText, Written, WireOf, Num, Absent, OptField

\* What is read of a body that serde wrote.
LEMMA GetWire ==
  ASSUME NEW types, NEW fields, NEW f \in DOMAIN fields
  PROVE  Get(Wire(types, fields), f) = Written(types[f], fields[f])
BY DEF Get, Wire, Written
=============================================================================
