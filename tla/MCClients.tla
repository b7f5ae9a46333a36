------------------------------- MODULE MCClients -------------------------------
(* What clients repeat and race for: the tokens of the command line's profile, and the   *)
(* commands on accounts and payment instruments.                                         *)
(*                                                                                       *)
(* The two share no state and are checked in one run: each moves from its own initial    *)
(* state while the other rests in its own, so that the states explored are the sum,      *)
(* never the product, of the two.  Their model values are the same ones, so that one set *)
(* of permutations, under which each of them is symmetric, serves both.                  *)
EXTENDS MCCliProfile, MCPaymentInstruments

ClientsInit == Init /\ CatalogInit

ClientsNext ==
    \/ CatalogInit /\ UNCHANGED catalog /\ Next
    \/ Init /\ UNCHANGED vars /\ CatalogNext

ClientsSpec == ClientsInit /\ [][ClientsNext]_<<vars, catalog>>

ClientsSymmetry == ProfileSymmetry \cup CardSymmetry
================================================================================
