----------------------------- MODULE MCBridge -----------------------------
(***************************************************************************)
(* Instances of Bridge for TLC.  Reuse: two submissions of one request,    *)
(* which share its id.  Apart: two submissions under ids of their own.     *)
(* The browser posts a result, a success without a result, or an error     *)
(* with a code and no message.                                             *)
(***************************************************************************)
EXTENDS Bridge, TLC

CONSTANTS s1, s2, i1, i2

MCSubmissions == {s1, s2}
OneId == {i1}
TwoIds == {i1, i2}

ReusedId == s1 :> i1 @@ s2 :> i1
OwnIds == s1 :> i1 @@ s2 :> i2

MCPayloads == {"signature"}
MCCodes == {"WRONG_WALLET_ADDRESS"}

Signed == [success |-> TRUE, text |-> "signature", code |-> None]
NoResult == [success |-> TRUE, text |-> None, code |-> None]
Refused == [success |-> FALSE, text |-> None, code |-> "WRONG_WALLET_ADDRESS"]

ThreeBodies == {Signed, NoResult, Refused}
TwoBodies == {Signed, Refused}
=============================================================================
