---------------------------- MODULE FrozenHistory ----------------------------
(***************************************************************************)
(* The frozen V1 history and the plan that carries it into a V2 Book: the  *)
(* rows of the old ledger, the approved review of its credit card          *)
(* transactions, the planner that compiles both into events, and the two   *)
(* reducers that were written apart from the planner to check it.          *)
(*                                                                         *)
(* A row's amount is signed, as in the old ledger; an event has sides.     *)
(* One asset, so a transaction balances when its amounts sum to zero.      *)
(* FX pairs, category versions, the archive, scales, text and the counts   *)
(* of the one real dump are left out.  An event hash is the event's        *)
(* position: both stand for the events up to it.                           *)
(*                                                                         *)
(* The operators marked "Mutant" are in no behaviour, see CommandBus.      *)
(***************************************************************************)
EXTENDS Integers, FiniteSets, Sequences, FiniteSetsExt

CONSTANTS
    Sources,   \* ids of the V1 transactions
    Month,     \* the month of each, the time it occurred
    Accounts,  \* account ids, the same in V1 and V2
    Cards,     \* the credit card accounts among them
    Alias,     \* the one a legacy card has under a second name, to be retired
    Refused    \* what the planner answers when it stops

ASSUME HistoryAssumption ==
    /\ Sources \subseteq Nat \ {0} /\ IsFiniteSet(Sources)
    /\ Month \in [Sources -> Nat]
    /\ Cards \subseteq Accounts /\ Alias \in Cards

\* A row: postings of [account, amount], the two columns either of which may
\* name a reversal (0 is null), and the category of its one line.
Nobody == 0
None == "none"

Opposite(side) == IF side = "debit" THEN "credit" ELSE "debit"

Normalized(p) ==
    [account |-> p.account, units |-> IF p.amount > 0 THEN p.amount ELSE -p.amount,
     side |-> IF p.amount > 0 THEN "debit" ELSE "credit"]

Raw(row) == [i \in DOMAIN row.postings |-> Normalized(row.postings[i])]

InversePostings(ps) == [i \in DOMAIN ps |-> [ps[i] EXCEPT !.side = Opposite(@)]]

Signed(p) == IF p.side = "debit" THEN p.units ELSE -p.units
Net(ps, a) == MapThenSumSet(LAMBDA i : IF ps[i].account = a THEN Signed(ps[i]) ELSE 0, DOMAIN ps)
Debits(ps) == MapThenSumSet(LAMBDA i : IF ps[i].side = "debit" THEN ps[i].units ELSE 0, DOMAIN ps)
Balanced(ps) == MapThenSumSet(LAMBDA i : Signed(ps[i]), DOMAIN ps) = 0

\* The same postings, whatever their order.
SamePostings(a, b) ==
    /\ Len(a) = Len(b)
    /\ \A p \in Range(a) \cup Range(b) :
         Cardinality({i \in DOMAIN a : a[i] = p}) = Cardinality({i \in DOMAIN b : b[i] = p})

\* What validate_fixed_inventory lets through to the planner.
IsHistory(h) ==
    /\ DOMAIN h = Sources
    /\ \A s \in Sources :
         /\ h[s].postings \in Seq([account : Accounts, amount : Int \ {0}])
         /\ Len(h[s].postings) >= 2 /\ Balanced(Raw(h[s]))
         /\ h[s].lineUnits \in Nat

\* Time first, then the id.
Before(s, t) == Month[s] < Month[t] \/ (Month[s] = Month[t] /\ s < t)
ByTime == {l \in Sources \X Sources : Before(l[1], l[2])}

\* The n-th of S is the one that n - 1 of S come before.
Sorted(S, order) ==
    [n \in 1..Cardinality(S) |-> CHOOSE s \in S : Cardinality({t \in S : <<t, s>> \in order}) = n - 1]
InOrder(S) == Sorted(S, ByTime)

-----------------------------------------------------------------------------
(* resolve_reversal_links *)

Explicit(h) == {<<s, h[s].reverses>> : s \in {x \in Sources : h[x].reverses # Nobody}}
Inferred(h) == {<<h[s].reversedBy, s>> : s \in {x \in Sources : h[x].reversedBy # Nobody}}
Links(h) == Explicit(h) \cup Inferred(h)

Reversing(h) == {l[1] : l \in Links(h)}
Reversed(h) == {l[2] : l \in Links(h)}
Target(h, s) == CHOOSE t \in Sources : <<s, t>> \in Links(h)

\* No loop: every nonempty set of reversals has one whose target is outside it.
Acyclic(h) ==
    \A S \in SUBSET Reversing(h) \ {{}} : \E s \in S : Target(h, s) \notin S

LinksResolve(h) ==
    /\ Reversing(h) \cup Reversed(h) \subseteq Sources
    /\ \A l, m \in Links(h) : l[1] = m[1] <=> l[2] = m[2]
    /\ \A l \in Links(h) : SamePostings(InversePostings(Raw(h[l[2]])), Raw(h[l[1]]))
    /\ Acyclic(h)

-----------------------------------------------------------------------------
(* The review: a target account and side for every posting of a transaction
   that touches a card, which of them are neutralised after the import, and
   the balance every card is to end with. *)

Scope(h) == {s \in Sources : \E i \in DOMAIN h[s].postings : h[s].postings[i].account \in Cards}

\* _journal_posting_facts: the postings of a source as they are imported.
Mapped(h, r, s) ==
    [i \in DOMAIN h[s].postings |->
       IF s \in DOMAIN r.postings
         THEN [Normalized(h[s].postings[i]) EXCEPT !.account = r.postings[s][i].account,
                                                   !.side = r.postings[s][i].side]
         ELSE Normalized(h[s].postings[i])]

\* The shape of a review.
IsReview(h, r) ==
    /\ \A s \in DOMAIN r.postings \cap Sources :
         r.postings[s] \in [DOMAIN h[s].postings -> [account : Accounts, side : {"debit", "credit"}]]
    /\ r.expected \in [Cards -> Int]

Corrected(r) == {s \in DOMAIN r.action : r.action[s] = "exact_reversal"}

ExpectedNatural(h, r, a) ==
    -MapThenSumSet(LAMBDA s : Net(Mapped(h, r, s), a), Scope(h) \ Corrected(r))

ReviewAccepted(h, r) ==
    /\ LinksResolve(h)
    /\ DOMAIN r.postings = Scope(h) /\ DOMAIN r.action = Scope(h)
    /\ \A s \in Scope(h) : Balanced(Mapped(h, r, s))
    /\ \A l \in Links(h) : l[1] \in Scope(h) /\ l[2] \in Scope(h) =>
         SamePostings(InversePostings(Mapped(h, r, l[2])), Mapped(h, r, l[1]))
    /\ ExpectedNatural(h, r, Alias) = 0
    /\ \A a \in Cards : r.expected[a] = ExpectedNatural(h, r, a)

-----------------------------------------------------------------------------
(* compile_frozen_financial_history_plan: the events. *)

Txn(s) == [source |-> s, correction |-> FALSE]
Correction(s) == [source |-> s, correction |-> TRUE]
NoTxn == [source |-> Nobody, correction |-> FALSE]
NoLine == [category |-> None, units |-> 0]

\* How many reversals lead from s to an original: the round of the loop over the
\* remaining reversals that emits s.
Round(h) ==
    LET round[s \in Sources] == IF s \in Reversing(h) THEN 1 + round[Target(h, s)] ELSE 0
    IN  round

ByRound(h) ==
    {l \in Sources \X Sources :
       \/ Round(h)[l[1]] < Round(h)[l[2]]
       \/ (Round(h)[l[1]] = Round(h)[l[2]] /\ Before(l[1], l[2]))}

Posted(h, r, s) ==
    [type |-> "posted", txn |-> Txn(s), of |-> NoTxn, month |-> Month[s],
     postings |-> Mapped(h, r, s), line |-> NoLine]

ReversedBy(h, r, s) ==
    [type |-> "reversed", txn |-> Txn(s), of |-> Txn(Target(h, s)), month |-> Month[s],
     postings |-> Mapped(h, r, s), line |-> NoLine]

Neutralised(h, r, s) ==
    [type |-> "reversed", txn |-> Correction(s), of |-> Txn(s), month |-> Month[s],
     postings |-> InversePostings(Mapped(h, r, s)), line |-> NoLine]

Categorised(h) == {s \in Sources : h[s].category # None}

Assigned(h, s) ==
    [type |-> "assigned", txn |-> Txn(s), of |-> Txn(s), month |-> Month[s],
     postings |-> <<>>, line |-> [category |-> h[s].category, units |-> h[s].lineUnits]]

Events(h, r) ==
    LET posted == InOrder(Sources \ Reversing(h))
        reversals == Sorted(Reversing(h), ByRound(h))
        corrected == InOrder(Corrected(r))
        assigned == InOrder(Categorised(h))
    IN  [i \in DOMAIN posted |-> Posted(h, r, posted[i])]
        \o [i \in DOMAIN reversals |-> ReversedBy(h, r, reversals[i])]
        \o [i \in DOMAIN corrected |-> Neutralised(h, r, corrected[i])]
        \o [i \in DOMAIN assigned |-> Assigned(h, assigned[i])]

EventBalance(events, a) ==
    MapThenSumSet(LAMBDA n : Net(events[n].postings, a), DOMAIN events)

-----------------------------------------------------------------------------
(* FrozenFinancialHistoryPlan: what a plan is checked for, when it is built and
   wherever it is read.  *)

Rank(type) == CASE type = "posted" -> 1 [] type = "reversed" -> 2 [] type = "assigned" -> 3

Topology(events) ==
    /\ \A n \in 1..Len(events) - 1 : Rank(events[n].type) <= Rank(events[n + 1].type)
    /\ \A m, n \in DOMAIN events :
         events[m].txn = events[n].txn /\ (events[m].type = "assigned" <=> events[n].type = "assigned")
           => m = n

ReversalSound(events, n) ==
    \E m \in 1..n - 1 : /\ events[m].type # "assigned" /\ events[m].txn = events[n].of
                        /\ events[n].postings = InversePostings(events[m].postings)

AssignmentSound(events, n) ==
    \E m \in 1..n - 1 : /\ events[m].type = "posted" /\ events[m].txn = events[n].of
                        /\ events[n].line.units <= Debits(events[m].postings)

ValidPlan(plan) ==
    /\ Topology(plan.events)
    /\ \A n \in DOMAIN plan.events :
         /\ Balanced(plan.events[n].postings)
         /\ plan.events[n].type = "reversed" => ReversalSound(plan.events, n)
         /\ plan.events[n].type = "assigned" => AssignmentSound(plan.events, n)
    /\ \A a \in Cards : plan.natural[a] = -EventBalance(plan.events, a)
    /\ plan.natural[Alias] = 0

-----------------------------------------------------------------------------
(* The planner's answer: it builds the plan, which checks itself. *)

Drafted(h, r) ==
    LET events == Events(h, r)
    IN  [events |-> events, natural |-> [a \in Cards |-> -EventBalance(events, a)]]

\* Mutant: a correction may hit what the old ledger had reversed already.
CompiledTwice(h, r) ==
    IF /\ LinksResolve(h)
       /\ \A s \in Reversing(h) : Mapped(h, r, s) = InversePostings(Mapped(h, r, Target(h, s)))
       /\ Categorised(h) \cap Reversing(h) = {}
       /\ ValidPlan(Drafted(h, r))
      THEN Drafted(h, r) ELSE Refused

Compiled(h, r) ==
    IF /\ LinksResolve(h)
       /\ \A s \in Reversing(h) : Mapped(h, r, s) = InversePostings(Mapped(h, r, Target(h, s)))
       /\ Corrected(r) \cap Reversed(h) = {}
       /\ Categorised(h) \cap Reversing(h) = {}
       /\ Drafted(h, r).natural = r.expected
       /\ ValidPlan(Drafted(h, r))
      THEN Drafted(h, r) ELSE Refused

-----------------------------------------------------------------------------
(* The reducers, two programs beside the planner.  Facts: the events, of which the
   hash of the last one stands for all, a balance per account and the position
   it was last touched at, the cards' natural balances, the pairs of reversals,
   and a total per month and category, zero totals left out. *)

Totals(f) == {c \in {<<k, f[k]>> : k \in DOMAIN f} : c[2] # 0}

LastTouched(events, a) ==
    Max({0} \cup {n \in DOMAIN events : \E i \in DOMAIN events[n].postings :
                                          events[n].postings[i].account = a})

\* _event_hash: of an event and, by the hash before it, of all up to it.
Hash(events, n) == SubSeq(events, 1, n)

(* reduce_canonical_plan: the events of a plan, accepted one after another. *)

Stream(e) == <<IF e.type = "assigned" THEN "reporting_lines" ELSE "journal_transaction", e.txn>>

\* Every event opens a stream of its own.
StreamsAreNew(events) ==
    \A m, n \in DOMAIN events : Stream(events[m]) = Stream(events[n]) => m = n

Earlier(events, n) == {m \in 1..n - 1 : events[m].type # "assigned"}

PostingAccepted(events, n) ==
    /\ events[n].of = NoTxn
    /\ \A m \in Earlier(events, n) : events[m].txn # events[n].txn
    /\ Len(events[n].postings) >= 2 /\ Balanced(events[n].postings)

\* _validate_inverse: posting by posting, in the order of the original.
Inverts(ps, qs) ==
    /\ Len(ps) = Len(qs)
    /\ \A i \in DOMAIN ps : /\ qs[i].account = ps[i].account /\ qs[i].units = ps[i].units
                            /\ qs[i].side = Opposite(ps[i].side)

ReversalAccepted(events, n) ==
    /\ \A m \in Earlier(events, n) : events[m].txn # events[n].txn
    /\ \E m \in Earlier(events, n) : /\ events[m].txn = events[n].of
                                     /\ Inverts(events[m].postings, events[n].postings)

AssignmentAccepted(events, n) ==
    \E m \in Earlier(events, n) : /\ events[m].txn = events[n].of
                                  /\ events[m].type # "reversed"
                                  /\ events[n].line.units <= Debits(events[m].postings)

EventAccepted(events, n) ==
    CASE events[n].type = "posted" -> PostingAccepted(events, n)
      [] events[n].type = "reversed" -> ReversalAccepted(events, n)
      [] events[n].type = "assigned" -> AssignmentAccepted(events, n)

NaturalsAccepted(plan) ==
    /\ \A a \in Cards : plan.natural[a] = -EventBalance(plan.events, a)
    /\ plan.natural[Alias] = 0

PlanAccepts(plan) ==
    /\ StreamsAreNew(plan.events)
    /\ \A n \in DOMAIN plan.events : EventAccepted(plan.events, n)
    /\ NaturalsAccepted(plan)

\* What the n-th event, a line, puts into a month and category and takes out of it.
PlanShare(events, n, c) ==
    LET units == events[n].line.units
        out == \E m \in DOMAIN events : /\ events[m].type = "reversed" /\ events[m].of = events[n].of
                                        /\ events[m].month = c[1]
    IN  IF events[n].line.category # c[2] THEN 0
        ELSE (IF events[n].month = c[1] THEN units ELSE 0) - (IF out THEN units ELSE 0)

PlanLines(events) == {n \in DOMAIN events : events[n].type = "assigned"}
PlanTotal(events, c) == MapThenSumSet(LAMBDA n : PlanShare(events, n, c), PlanLines(events))

PlanMonths(events) ==
    LET cells == {<<month, events[n].line.category>> : month \in Range(Month), n \in PlanLines(events)}
    IN  Totals([c \in cells |-> PlanTotal(events, c)])

PlanFacts(events) ==
    [terminal |-> Hash(events, Len(events)),
     balances |-> [a \in Accounts |-> <<EventBalance(events, a), LastTouched(events, a)>>],
     cards |-> [a \in Cards |-> -EventBalance(events, a)],
     pairs |-> {<<e.txn, e.of>> : e \in {x \in Range(events) : x.type = "reversed"}},
     months |-> PlanMonths(events)]

(* reduce_frozen_source_rows: the rows and the review, without the planner. *)

SourceAmount(amount) ==
    [units |-> IF amount < 0 THEN -amount ELSE amount,
     side |-> IF amount > 0 THEN "debit" ELSE "credit"]

\* The decision on a posting has the account and the side, the row the units.
SourcePostings(h, r, s) ==
    [i \in DOMAIN h[s].postings |->
       LET row == h[s].postings[i]
           decided == IF s \in DOMAIN r.postings THEN r.postings[s][i]
                      ELSE [account |-> row.account, side |-> SourceAmount(row.amount).side]
       IN  [account |-> decided.account, units |-> SourceAmount(row.amount).units,
            side |-> decided.side]]

SourceCorrection(h, r, s) ==
    [i \in DOMAIN h[s].postings |->
       [SourcePostings(h, r, s)[i] EXCEPT !.side = Opposite(@)]]

SourceBalance(h, r, a) ==
    MapThenSumSet(LAMBDA s : Net(SourcePostings(h, r, s), a), Sources)
      + MapThenSumSet(LAMBDA s : Net(SourceCorrection(h, r, s), a), Corrected(r))

SourceLinks(h) ==
    {l \in Sources \X Sources : h[l[1]].reverses = l[2] \/ h[l[2]].reversedBy = l[1]}

SourceLinksSound(h) ==
    /\ \A s \in Sources : {h[s].reverses, h[s].reversedBy} \subseteq (Sources \ {s}) \cup {Nobody}
    /\ \A l, m \in SourceLinks(h) : l[1] = m[1] <=> l[2] = m[2]

SourceCards(h, r) == [a \in Cards |-> -SourceBalance(h, r, a)]

SourceLines(h) ==
    [s \in {x \in Sources : h[x].category # None} |->
       [category |-> h[s].category, units |-> h[s].lineUnits]]

SourcePairs(h, r) ==
    {<<Txn(l[1]), Txn(l[2])>> : l \in SourceLinks(h)} \cup {<<Correction(s), Txn(s)>> : s \in Corrected(r)}

SourceReversals(h) == {l[1] : l \in SourceLinks(h)}
SourceOriginal(h, s) == CHOOSE t \in Sources : <<s, t>> \in SourceLinks(h)

\* _append_source_event
SourceEvent(type, txn, of, s, postings, line) ==
    [type |-> type, txn |-> txn, of |-> of, month |-> Month[s], postings |-> postings, line |-> line]

\* What the reducer has emitted after k rounds, until nothing is left.
Emitted(h) ==
    LET emitted[k \in 0..Cardinality(Sources)] ==
          IF k = 0 THEN Sources \ SourceReversals(h)
          ELSE emitted[k - 1] \cup {s \in SourceReversals(h) : SourceOriginal(h, s) \in emitted[k - 1]}
    IN  emitted

\* The sources in the order of their events, a round of reversals at a time.
SourceJournal(h) ==
    LET emitted == Emitted(h)
        journal[k \in 0..Cardinality(Sources)] ==
          IF k = 0 THEN InOrder(emitted[0])
          ELSE journal[k - 1] \o InOrder(emitted[k] \ emitted[k - 1])
    IN  journal[Cardinality(Sources)]

SourceCorrections(h, r) ==
    LET fixed == InOrder(Corrected(r))
    IN  [i \in DOMAIN fixed |-> SourceEvent("reversed", Correction(fixed[i]), Txn(fixed[i]),
                                            fixed[i], SourceCorrection(h, r, fixed[i]), NoLine)]

SourceAssignments(h) ==
    LET lines == SourceLines(h)
        sources == InOrder(DOMAIN lines)
    IN  [i \in DOMAIN sources |-> SourceEvent("assigned", Txn(sources[i]), Txn(sources[i]),
                                              sources[i], <<>>, lines[sources[i]])]

SourceEvents(h, r) ==
    LET journal == SourceJournal(h)
        reversal(s) == s \in SourceReversals(h)
        event(s) == SourceEvent(IF reversal(s) THEN "reversed" ELSE "posted", Txn(s),
                                IF reversal(s) THEN Txn(SourceOriginal(h, s)) ELSE NoTxn,
                                s, SourcePostings(h, r, s), NoLine)
    IN  [i \in DOMAIN journal |-> event(journal[i])]
        \o SourceCorrections(h, r) \o SourceAssignments(h)

\* The events add up to what the rows added up to, and none is missing.
SourceEventsSound(h, r) ==
    LET events == SourceEvents(h, r)
    IN  /\ \A a \in Accounts : EventBalance(events, a) = SourceBalance(h, r, a)
        /\ Len(events) = Cardinality(Sources) + Cardinality(Corrected(r))
                           + Cardinality(DOMAIN SourceLines(h))

SourceAccepts(h, r) ==
    /\ \A s \in Sources : Len(h[s].postings) >= 2 /\ Balanced(SourcePostings(h, r, s))
    /\ SourceLinksSound(h)
    /\ \A l \in SourceLinks(h) : Inverts(SourcePostings(h, r, l[2]), SourcePostings(h, r, l[1]))
    /\ \A l \in SourceLinks(h) : l[2] \notin Corrected(r)
    /\ DOMAIN SourceLines(h) \cap SourceReversals(h) = {}
    /\ r.expected = SourceCards(h, r) /\ SourceBalance(h, r, Alias) = 0
    /\ SourceEventsSound(h, r)

\* The month of a source's reversal, the correction's being that of the source.
SourceShare(h, r, s, c) ==
    LET line == SourceLines(h)[s]
        out == \/ \E l \in SourceLinks(h) : l[2] = s /\ Month[l[1]] = c[1]
               \/ s \in Corrected(r) /\ Month[s] = c[1]
    IN  IF line.category # c[2] THEN 0
        ELSE (IF Month[s] = c[1] THEN line.units ELSE 0) - (IF out THEN line.units ELSE 0)

SourceTotal(h, r, c) == MapThenSumSet(LAMBDA s : SourceShare(h, r, s, c), DOMAIN SourceLines(h))

SourceMonths(h, r) ==
    LET cells == {<<month, SourceLines(h)[s].category>> : month \in Range(Month), s \in DOMAIN SourceLines(h)}
    IN  Totals([c \in cells |-> SourceTotal(h, r, c)])

SourceFacts(h, r) ==
    LET events == SourceEvents(h, r)
    IN  [terminal |-> Hash(events, Len(events)),
         balances |-> [a \in Accounts |-> <<SourceBalance(h, r, a), LastTouched(events, a)>>],
         cards |-> SourceCards(h, r),
         pairs |-> SourcePairs(h, r), months |-> SourceMonths(h, r)]

\* bind_source_reference: the reference a stored ledger is verified against exists.
Bound(plan, h, r) ==
    /\ PlanAccepts(plan) /\ SourceAccepts(h, r)
    /\ PlanFacts(plan.events) = SourceFacts(h, r)
=============================================================================
