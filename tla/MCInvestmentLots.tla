---------------------------- MODULE MCInvestmentLots ----------------------------
(* Lots and sales are numbered in the order of the log: which ids the clients chose *)
(* makes no difference.  The first purchase is of the first pool.                   *)
EXTENDS InvestmentLots, TLC

CONSTANT FirstPool

Numbered ==
    /\ \A n \in DOMAIN log : IsPurchase(log[n]) =>
         log[n].lot = Cardinality({m \in 1..n : IsPurchase(log[m])})
    /\ \A n \in DOMAIN log : ~IsPurchase(log[n]) =>
         log[n].sale = Cardinality({m \in 1..n : ~IsPurchase(log[m])})
    /\ log # <<>> => log[1].pool = FirstPool

LotsStep == LotsNext /\ Numbered'
================================================================================
