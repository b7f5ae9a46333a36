-------------------------- MODULE MCPaymentInstruments --------------------------
(* Two cards that may share an identity, two accounts they are bound to in turn. *)
EXTENDS PaymentInstruments, TLC

CONSTANT start

MCKind == [a \in Accounts |-> "asset"]
MCNames == [a \in Accounts |-> start]

CardSymmetry ==
    Permutations(Accounts) \cup Permutations(Instruments) \cup Permutations(Mutations) \cup Permutations(Renames)
================================================================================
