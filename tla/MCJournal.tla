------------------------------- MODULE MCJournal -------------------------------
(* One card, one bank account, one expense and the asset's adjustment account; in another *)
(* asset a bank account and the account its fees go to, and the two trading accounts.     *)
EXTENDS Journal, TLC

CONSTANTS card, bank, food, reconciling, abroad, fees, trading, tradingAbroad,
          MaxAbroad   \* bounds the histories that leave the first asset or move nothing

MCKind ==
    (card :> "credit_card") @@ (bank :> "asset") @@ (food :> "expense")
      @@ (reconciling :> "adjustment") @@ (abroad :> "asset") @@ (fees :> "expense_clearing")
      @@ (trading :> "fx_trading") @@ (tradingAbroad :> "fx_trading")

Home == {card, bank, food, reconciling}
MCAsset == [a \in Accounts |-> IF a \in {abroad, fees, tradingAbroad} THEN "USD" ELSE "EUR"]

\* Ids are interchangeable: whichever is free is taken, and which it was is forgotten.
FreeId == CHOOSE t \in Free : TRUE
OtherFreeId == CHOOSE t \in Free \ {FreeId} : TRUE
IdSymmetry == Permutations(TxIds)

\* Where the other accounts are used, or a transaction moves nothing, a history has fewer
\* transactions, apart from one reversal or one closed account.
GoneAbroad ==
    \/ \E a \in Accounts \ Home : ~Active(a) \/ \E t \in Recorded : a \in Touched(t)
    \/ \E t \in Recorded : Touched(t) = {}

Own == Cardinality({t \in Recorded : ~Is(t, "reversed")})

JournalStep ==
    /\ \/ Free # {} /\ Domestic(FreeId)
       \/ Free # {} /\ Own < MaxAbroad /\ Foreign(FreeId)
       \/ Cardinality(Free) > 1 /\ Correction(FreeId, OtherFreeId)
       \/ Lifecycle
    /\ GoneAbroad' => /\ Own' <= MaxAbroad
                      /\ Cardinality(Recorded') + Cardinality({a \in Accounts : ~Active(a)'})
                           <= MaxAbroad + 1
===============================================================================
