---------------------------- MODULE MCEverydayEntry ----------------------------
(* Two bank accounts and a credit card account, one payment card, two users' entries. *)
EXTENDS EverydayEntry, TLC

CONSTANTS bank, savings, credit, visa, plastic, start, other

MCKind == [a \in Accounts |-> IF a = credit THEN "credit_card" ELSE "asset"]
MCNames == [a \in Accounts |-> IF a = bank THEN start ELSE other]

Blank ==
    [kind |-> None, from |-> None, to |-> None, via |-> None, of |-> None,
     units |-> 1, at |-> 0, reference |-> None]
Purchase == [Blank EXCEPT !.kind = "expense"]

MCEntries ==
    {[Purchase EXCEPT !.via = plastic], [Purchase EXCEPT !.via = visa, !.at = 1],
     [Blank EXCEPT !.kind = "income", !.to = start, !.units = 2, !.reference = "order"],
     [Blank EXCEPT !.kind = "payment", !.from = bank, !.via = plastic],
     [Blank EXCEPT !.kind = "adjustment", !.to = bank]}
      \cup {[Blank EXCEPT !.kind = "refund", !.of = i] : i \in Intents}

\* An income dated after everything that happens.
SalaryAhead == {[Blank EXCEPT !.kind = "income", !.to = bank, !.at = MaxTime + Window + 1]}

Symmetry == Permutations(Intents) \cup Permutations(CommitRequests)
================================================================================
