------------------------------ MODULE Values ------------------------------
(***************************************************************************)
(* The value types of the three chains: which texts each FromStr accepts,  *)
(* which value it makes of them, and how Display and Serialize spell a     *)
(* value.  A text is a record: its form and what the form carries.  Widths *)
(* and lengths are constants, so that a model can use small ones.          *)
(***************************************************************************)
EXTENDS Naturals, Sequences

CONSTANTS
  None,        \* an absent value
  Bad,         \* what a parser returns for a text it refuses
  U32Max,      \* the largest u32
  U64Max,      \* the largest u64
  U256Max,     \* the largest U256
  AddressLen,  \* bytes of an EVM address, and of a TRON address's body
  HashLen      \* bytes of a transaction hash

ASSUME NoneIsNotBad == None # Bad

ASSUME WidthsType ==
  /\ U32Max \in Nat /\ U64Max \in Nat \ {0} /\ U256Max \in Nat
  /\ U32Max <= U64Max /\ U64Max <= U256Max
  /\ AddressLen \in Nat \ {0} /\ HashLen \in Nat \ {0}

(***************************************************************************)
(* Texts.                                                                  *)
(***************************************************************************)
Garbage       == [form |-> "garbage"]
Decimal(n)    == [form |-> "decimal", n |-> n]
Hex(p, b)     == [form |-> "hex", prefixed |-> p, bytes |-> b]
EmptyText     == Hex(FALSE, <<>>)
Word(w, u)    == [form |-> "word", word |-> w, upper |-> u]
Base58(b, c)  == [form |-> "base58", bytes |-> b, checksum |-> c]
Base64(b)     == [form |-> "base64", bytes |-> b]
BtcText(a, u) == [form |-> "btc", address |-> a, upper |-> u]
KeyText(k, c) == [form |-> "key", key |-> k, compressed |-> c]
PsbtText(p,e) == [form |-> "psbt", psbt |-> p, encoding |-> e]
UrlText(u)    == [form |-> "url", url |-> u]
JsonText(f)   == [form |-> "json", fields |-> f]

BytesOf(t, ok(_)) == IF t.form = "hex" /\ ok(t.bytes) THEN t.bytes ELSE Bad

UpTo(max, t) == IF t.form = "decimal" /\ t.n <= max THEN t.n ELSE Bad

Keyword(words, t) == IF t.form = "word" /\ t.word \in words THEN t.word ELSE Bad

(***************************************************************************)
(* Byte strings shared by the chains.  The 0x prefix is optional.          *)
(***************************************************************************)
ParseHexData(t) == BytesOf(t, LAMBDA b : TRUE)
SpellHexData(b) == Hex(TRUE, b)

ParseTxHash(t) == BytesOf(t, LAMBDA b : Len(b) = HashLen)
SpellTxHash(b) == Hex(TRUE, b)

ParseSignature(t) == BytesOf(t, LAMBDA b : b # <<>>)
SpellSignature(b) == Hex(TRUE, b)

(***************************************************************************)
(* EVM.  A U256 is read in decimal, or in hexadecimal after 0x.            *)
(***************************************************************************)
Magnitude(b) ==
  LET m[i \in 0..Len(b)] == IF i = 0 THEN 0 ELSE m[i - 1] * 256 + b[i] IN m[Len(b)]

ParseChainId(t) == UpTo(U64Max, t)

ParseAddress(t) == BytesOf(t, LAMBDA b : Len(b) = AddressLen)
SpellAddress(b) == Hex(TRUE, b)

ParseWei(t) ==
  IF t.form = "hex" /\ t.prefixed
  THEN IF Magnitude(t.bytes) <= U256Max THEN Magnitude(t.bytes) ELSE Bad
  ELSE UpTo(U256Max, t)
SpellWei(n) == Decimal(n)

ParseCallData(t) == BytesOf(t, LAMBDA b : TRUE)
SpellCallData(b) == Hex(TRUE, b)

ParseUrl(t) == IF t.form = "url" THEN t.url ELSE Bad
SpellUrl(u) == UrlText(u)

(***************************************************************************)
(* TRON.  An address is Base58Check of the byte 0x41 and a 20-byte body.   *)
(***************************************************************************)
TronNetworks == {"mainnet", "shasta", "nile"}

ParseTronNetwork(t) == Keyword(TronNetworks, t)
SpellTronNetwork(n) == Word(n, FALSE)

TronPrefix == 65

ParseTronAddress(t) ==
  IF /\ t.form = "base58" /\ t.checksum
     /\ Len(t.bytes) = AddressLen + 1
     /\ t.bytes[1] = TronPrefix
  THEN t.bytes ELSE Bad
SpellTronAddress(b) == Base58(b, TRUE)

ParseSun(t) == UpTo(U64Max, t)
SpellSun(n) == Decimal(n)

ParseEnergyLimit(t) == UpTo(U64Max, t)

ParsePercentage(t) == UpTo(100, t)

(***************************************************************************)
(* Bitcoin.  An address is a kind and a payload; the kind decides on which *)
(* networks it is valid.  A PSBT is the transaction it is for, the inputs  *)
(* that list a Taproot leaf script, and whether it carries signatures.     *)
(***************************************************************************)
BtcNetworks == {"mainnet", "testnet", "testnet4", "signet", "regtest"}

ParseBtcNetwork(t) ==
  IF Keyword({"testnet3"}, t) # Bad THEN "testnet" ELSE Keyword(BtcNetworks, t)
SpellBtcNetwork(n) == Word(n, FALSE)

AddressKinds == {"bc", "tb", "bcrt", "legacy-test"}

ValidOn(a) ==
  CASE a.kind = "bc"   -> {"mainnet"}
    [] a.kind = "tb"   -> {"testnet", "testnet4", "signet"}
    [] a.kind = "bcrt" -> {"regtest"}
    [] a.kind = "legacy-test" -> BtcNetworks \ {"mainnet"}

RequireNetwork(a, network) == IF network \in ValidOn(a) THEN a ELSE Bad

ParseUncheckedAddress(t) == IF t.form = "btc" THEN t.address ELSE Bad
SpellBtcAddress(a) == BtcText(a, FALSE)

ParseBtcPublicKey(t) == IF t.form = "key" THEN t.key ELSE Bad
SpellBtcPublicKey(k) == KeyText(k, TRUE)

ParseSats(t) == UpTo(U64Max, t)
SpellSats(n) == Decimal(n)

ParseSatPerVb(t) == IF UpTo(U64Max, t) = 0 THEN Bad ELSE UpTo(U64Max, t)
SpellSatPerVb(n) == Decimal(n)

ParsePsbt(t) == IF t.form = "psbt" THEN t.psbt ELSE Bad
SpellPsbt(p) == PsbtText(p, "hex")
UnsignedTxid(p) == p.txid
SpendsScriptPath(p, i) == i < Len(p.leaf) /\ p.leaf[i + 1]

MessageProtocols == {"bip322", "ecdsa"}

ParseMessageProtocol(t) == Keyword(MessageProtocols, t)
SpellMessageProtocol(m) == Word(m, FALSE)
DefaultProtocol == "bip322"

ASSUME NoneIsNoValue ==
  None \notin TronNetworks \cup BtcNetworks \cup MessageProtocols /\ None \notin Seq(0..U32Max)

ParseMessageSignature(t) == IF t.form = "base64" /\ t.bytes # <<>> THEN t.bytes ELSE Bad
SpellMessageSignature(b) == Base64(b)

ParseTxid(t) == IF t.form = "hex" /\ ~t.prefixed THEN ParseTxHash(t) ELSE Bad
\* Mutant: a txid is written like a hash of the other chains.
SpellTxidPrefixed(b) == Hex(TRUE, b)

SpellTxid(b) == Hex(FALSE, b)
=============================================================================
