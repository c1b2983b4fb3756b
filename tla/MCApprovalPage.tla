-------------------------- MODULE MCApprovalPage --------------------------
(***************************************************************************)
(* Instances of ApprovalPage for TLC: the adapters of the repository's     *)
(* pages (Bitcoin has two drivers) and requests of both types, with and    *)
(* without a pinned account.                                               *)
(***************************************************************************)
EXTENDS ApprovalPage

CONSTANTS a1, a2

MCAccounts == {a1, a2}

AllRequests == [type : {"connect", "sign"}, pinned : {a1, None}]

Evm == [native |-> TRUE, prompt |-> TRUE, chain |-> TRUE, key |-> FALSE, events |-> TRUE]
Tron == [native |-> FALSE, prompt |-> FALSE, chain |-> FALSE, key |-> FALSE, events |-> FALSE]
Unisat == [native |-> FALSE, prompt |-> FALSE, chain |-> FALSE, key |-> TRUE, events |-> TRUE]

Leather == [Unisat EXCEPT !.events = FALSE]

AllAdapters == {Evm, Tron, Unisat, Leather}
OnlyEvm == {Evm}
=============================================================================
