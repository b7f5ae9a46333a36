------------------------------- MODULE MCLedger -------------------------------
(* What becomes of the ledger's transactions: the Journal with its cards, and the lots   *)
(* of InvestmentLots.                                                                    *)
(*                                                                                       *)
(* The two share no state and are checked in one run: each moves from its own initial    *)
(* state while the other rests in its own, so that the states explored are the sum,      *)
(* never the product, of the two.                                                        *)
EXTENDS MCJournal, MCInvestmentLots

LedgerInit == Init /\ LotsInit

LedgerNext ==
    \/ LotsInit /\ UNCHANGED lotVars /\ JournalStep
    \/ Init /\ UNCHANGED vars /\ LotsStep

LedgerSpec == LedgerInit /\ [][LedgerNext]_<<vars, lotVars>>
================================================================================
