---------------------------- MODULE MCFrozenImport ----------------------------
(* Three V1 transactions: a purchase on one of the two cards, a payment or the
   reversal of the purchase, and a second purchase or a reversal of either. *)
EXTENDS FrozenImport

MCSources == 1..3
MCMonth == <<1, 1, 2>>
MCAccounts == {"old", "card", "cash", "food"}
MCCards == {"old", "card"}

Row(postings, reverses, by, category, units) ==
    [postings |-> postings, reverses |-> reverses, reversedBy |-> by,
     category |-> category, lineUnits |-> units]

Pair(a, b, n) == <<[account |-> a, amount |-> n], [account |-> b, amount |-> -n]>>
Undo(ps) == [i \in DOMAIN ps |-> [ps[i] EXCEPT !.amount = -@]]
Swap(ps) == <<ps[2], ps[1]>>

First == {Row(Pair("food", c, 3), 0, 0, k, 3) : c \in MCCards, k \in {"none", "meals"}}

\* A row that undoes source t of the rows so far, by either column or both.
Undone(rows, t, s) ==
    {Append([rows EXCEPT ![t].reversedBy = IF col = "new" THEN 0 ELSE s],
            Row(ps, IF col = "old" THEN 0 ELSE t, 0, "none", 0)) :
        col \in {"new", "old", "both"}, ps \in {Undo(rows[t].postings)}}

Seconds(rows) ==
    {Append(rows, Row(Pair(c, "cash", 2), 0, 0, "none", 0)) : c \in MCCards} \cup Undone(rows, 1, 2)

Thirds(rows) ==
    {Append(rows, Row(Pair("food", "old", 5), 0, 0, "meals", 4)),
     Append(rows, Row(Swap(Undo(rows[1].postings)), 1, 0, "none", 0))}
      \cup Undone(rows, 1, 3) \cup Undone(rows, 2, 3)

\* The source rows are checked before anyone reviews them.
Histories ==
    {h \in UNION {Thirds(two) : two \in UNION {Seconds(<<f>>) : f \in First}} : LinksResolve(h)}

ReviewedPosting(p, moved, flipped) ==
    LET n == Normalized(p) IN
    [account |-> IF moved /\ n.account = "old" THEN "card" ELSE n.account,
     side |-> IF flipped THEN Opposite(n.side) ELSE n.side]

\* The review says of each transaction: moved off the retired card, its sides
\* swapped, neutralised.  The expected balances are those it computes.
Decided(h, moved, flipped, undone) ==
    LET r == [postings |-> [s \in Scope(h) |-> [i \in 1..2 |->
                              ReviewedPosting(h[s].postings[i], s \in moved, s \in flipped)]],
              action |-> [s \in Scope(h) |-> IF s \in undone THEN "exact_reversal" ELSE "none"]]
    IN  [postings |-> r.postings, action |-> r.action,
         expected |-> [a \in MCCards |-> ExpectedNatural(h, r, a)]]

\* The first purchase is swapped together with what reverses it.
Reviews(h) ==
    LET old == {s \in Scope(h) : \E i \in 1..2 : h[s].postings[i].account = "old"}
        one == {s \in Scope(h) : s = 1 \/ (s \in Reversing(h) /\
                    (Target(h, s) = 1 \/ \E t \in Reversing(h) : Target(h, t) = 1 /\ Target(h, s) = t))}
    IN  {Decided(h, moved, flipped, undone) :
           moved \in SUBSET old, undone \in SUBSET Scope(h), flipped \in {{}, one}}

MCCases == UNION {{[rows |-> h, review |-> r] : r \in Reviews(h)} : h \in Histories}

\* A payment reversed a month later and a purchase neutralised, all on the card.
MCCarried ==
    LET bought == Row(Pair("food", "card", 3), 0, 0, "meals", 3)
        paid == Row(Pair("card", "cash", 2), 0, 3, "none", 0)
        h == <<bought, paid, Row(Undo(paid.postings), 2, 0, "none", 0)>>
    IN  {[rows |-> h, review |-> Decided(h, {}, {}, {1})]}

MCBaseline == {"old", "card", "cash"}
=============================================================================
