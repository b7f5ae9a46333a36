-------------------------------- MODULE Journal --------------------------------
(***************************************************************************)
(* The double-entry journal of one Book and the life of its accounts: what *)
(* the handlers of the financial commands decide once they hold the Book   *)
(* head lock.  CommandBus models the lock and the append; here a command   *)
(* is one step, because every command below runs under that lock from its  *)
(* first read to its commit.                                               *)
(*                                                                         *)
(* A transaction is kept by its net effect on each account, debits         *)
(* positive.  A refusal changes nothing, so a command that is refused is a *)
(* step that is not taken.  The triggers of the tables repeat the guards   *)
(* in SQL; what they ask of a row is a property here.  The dates of        *)
(* credit-card transactions refuse more commands than this module does,    *)
(* and the category of a fee is in MonthlyProjection.                      *)
(*                                                                         *)
(* The operators marked "Mutant" are in no behaviour, see CommandBus.      *)
(***************************************************************************)
EXTENDS Integers, FiniteSetsExt

CONSTANTS
    Accounts,
    Kind,     \* type, subtype and system role of an account, see Kinds
    Asset,    \* what an account is kept in
    TxIds,    \* transaction ids, chosen by the clients
    Units     \* amounts of the commands

Kinds == {"asset", "expense", "credit_card", "adjustment", "expense_clearing", "fx_trading"}
None == "none"

ASSUME JournalAssumption ==
    /\ Kind \in [Accounts -> Kinds]
    /\ IsFiniteSet(Accounts)
    /\ Units \subseteq Nat \ {0}
    /\ None \notin TxIds

VARIABLES
    journal,  \* the transaction of an id: [event, legs, of], event None: free id
    balance,  \* account_balances, the synchronous projection
    status    \* accounts.status

vars == <<journal, balance, status>>

Cards == {a \in Accounts : Kind[a] = "credit_card"}
Amounts == {0} \cup Units

-----------------------------------------------------------------------------
(* What is recorded *)

Recorded == {t \in TxIds : journal[t].event # None}
Is(t, event) == journal[t].event = event

\* of is the reversed transaction of a reversal, the charge of a refund.
Transaction(event, legs, of) == [event |-> event, legs |-> legs, of |-> of]
NoTransaction == Transaction(None, [a \in Accounts |-> 0], None)

Transfer(debit, credit, units) ==
    [a \in Accounts |-> (IF a = debit THEN units ELSE 0)
                          - (IF a = credit THEN units ELSE 0)]
Negated(legs) == [a \in Accounts |-> -legs[a]]

Touched(t) == {a \in Accounts : journal[t].legs[a] # 0}
TouchesCard(t) == Touched(t) \cap Cards # {}
Reversed(t) == \E r \in Recorded : Is(r, "reversed") /\ journal[r].of = t

\* Refunds of charge t that no reversal has undone.
ActiveRefunds(t) ==
    {r \in Recorded : Is(r, "refund") /\ journal[r].of = t /\ ~Reversed(r)}

CardOf(t) == CHOOSE a \in Touched(t) : a \in Cards
CounterOf(t) == CHOOSE a \in Touched(t) : a \notin Cards
UnitsOf(t) == LET u == journal[t].legs[CardOf(t)] IN IF u < 0 THEN -u ELSE u

\* The sum of the postings of account a over the transactions of a set.
Posted(a, ids) == LET Leg(t) == journal[t].legs[a] IN MapThenSumSet(Leg, ids)

\* close_account and record_adjustment compare the projection with the postings.
ProjectionMatches(a) == balance[a] = Posted(a, Recorded)

-----------------------------------------------------------------------------
Init ==
    /\ journal = [t \in TxIds |-> NoTransaction]
    /\ balance = [a \in Accounts |-> 0]
    /\ status = [a \in Accounts |-> "active"]

Active(a) == status[a] = "active"

\* Neither a transaction nor an event stream has the id.
Available(t) == journal[t].event = None

\* Every posting of an event adds its signed units to the account's balance row.
Applied(b, legs) == [a \in Accounts |-> b[a] + legs[a]]

\* One event is appended and applied.
Record(t, event, legs, of) ==
    /\ journal' = [journal EXCEPT ![t] = Transaction(event, legs, of)]
    /\ balance' = Applied(balance, legs)
    /\ UNCHANGED status

-----------------------------------------------------------------------------
(* Posting *)

\* Mutant: amounts balance whatever they are amounts of.
PostableAcross(debit, credit) == Active(debit) /\ Active(credit)

\* JournalValidator on two legs; only the typed commands write to a card.  Both legs may be
\* of one account: such a transaction moves nothing.
Postable(debit, credit) == Active(debit) /\ Active(credit) /\ Asset[debit] = Asset[credit]
Ordinary(debit, credit) == Postable(debit, credit) /\ {debit, credit} \cap Cards = {}

Post(t, debit, credit, units) ==
    /\ Available(t)
    /\ Ordinary(debit, credit)
    /\ Record(t, "posted", Transfer(debit, credit, units), None)

\* The typed commands of everyday use, each a posting between accounts of its own types.
\* What the Book keeps for itself they refuse.
Standard(a) == Kind[a] \notin {"adjustment", "expense_clearing", "fx_trading"}

RecordExpense(t, expense, source, units) ==
    /\ Standard(source) /\ Standard(expense)
    /\ Kind[source] = "asset" /\ Kind[expense] = "expense"
    /\ Post(t, expense, source, units)

RecordTransfer(t, target, source, units) ==
    /\ Standard(source) /\ Standard(target)
    /\ Kind[source] = "asset" /\ Kind[target] = "asset"
    /\ target # source
    /\ Post(t, target, source, units)

\* A card's natural balance is what is owed on it.
Natural(a) == IF a \in Cards THEN -balance[a] ELSE balance[a]

\* What an adjustment of account a is posted against: there must be one, and only one.
AdjustmentAccounts(a) ==
    {s \in Accounts : Kind[s] = "adjustment" /\ Active(s) /\ Asset[s] = Asset[a]}

\* The client states the balance it saw and the one it wants, both natural.
RecordAdjustment(t, a, expected, actual) ==
    /\ Available(t)
    /\ Active(a) /\ Kind[a] \in {"asset", "credit_card"}
    /\ Natural(a) >= 0 /\ Natural(a) = expected
    /\ actual # expected
    /\ ProjectionMatches(a)
    /\ LET gain == (actual > expected) = (a \notin Cards)
           units == IF actual > expected THEN actual - expected ELSE expected - actual
       IN \E s \in Accounts :
            /\ {s} = AdjustmentAccounts(a)
            /\ Record(t, "posted",
                      IF gain THEN Transfer(a, s, units) ELSE Transfer(s, a, units), None)

-----------------------------------------------------------------------------
(* Credit cards *)

\* A charge or a fee: the expense is debited, the card credited.
Charge(t, event, card, expense, units) ==
    /\ Available(t)
    /\ Postable(expense, card)
    /\ card \in Cards /\ Kind[expense] = "expense"
    /\ Record(t, event, Transfer(expense, card, units), None)

Pay(t, card, source, units) ==
    /\ Available(t)
    /\ Postable(card, source)
    /\ card \in Cards /\ Kind[source] = "asset"
    /\ Record(t, "payment", Transfer(card, source, units), None)

-----------------------------------------------------------------------------
(* record_fx: an amount of one asset for an amount of another, each against the
   Book's trading account of its asset. *)

Sum(legs, S) == MapThenSumSet(LAMBDA a : legs[a], S)
Kept(asset) == {a \in Accounts : Asset[a] = asset}

\* JournalValidator: both trading accounts move, in opposite directions.  Which of the
\* two accounts of an asset is the trading one it does not ask.
Exchanges(legs, assets) ==
    LET traded == [x \in assets |->
                     Sum(legs, {a \in Kept(x) : Kind[a] = "fx_trading"})]
    IN  /\ \E x \in assets : traded[x] > 0
        /\ \E x \in assets : traded[x] < 0
        /\ \A x \in assets : traded[x] # 0

Together(legs, more) == [a \in Accounts |-> legs[a] + more[a]]

ExchangeLegs(source, sold, bought, target, out, in) ==
    Together(Transfer(target, bought, in), Transfer(sold, source, out))

\* RecordFxCommand and the validator on its four postings.
Exchangeable(source, sold, bought, target) ==
    /\ Cardinality({source, sold, bought, target}) = 4
    /\ Asset[source] # Asset[target]
    /\ Postable(target, bought) /\ Postable(sold, source)

RecordExchange(t, legs) ==
    /\ Available(t)
    /\ Record(t, "posted", legs, None)

RecordFx(t, source, sold, bought, target, out, in) ==
    LET legs == ExchangeLegs(source, sold, bought, target, out, in) IN
    /\ Exchangeable(source, sold, bought, target)
    /\ {source, sold, bought, target} \cap Cards = {}
    /\ Exchanges(legs, {Asset[source], Asset[target]})
    /\ RecordExchange(t, legs)

\* The accounts of a card payment in another asset; the fee goes to the one clearing
\* account of what the payment is made in.
PaysAbroad(source, sold, bought, card, clearing) ==
    /\ card \in Cards /\ Kind[source] = "asset"
    /\ Kind[sold] = "fx_trading" /\ Kind[bought] = "fx_trading"
    /\ Exchangeable(source, sold, bought, card)
    /\ {clearing} = {a \in Kept(Asset[source]) : Kind[a] = "expense_clearing" /\ Active(a)}

WithFee(source, sold, bought, card, clearing, out, in, fee) ==
    Together(ExchangeLegs(source, sold, bought, card, out, in), Transfer(clearing, source, fee))

\* It is recorded as an ordinary event, and no row of credit_card_transactions tells of it.
PayFromAbroad(t, source, sold, bought, card, clearing, out, in, fee) ==
    /\ PaysAbroad(source, sold, bought, card, clearing)
    /\ RecordExchange(t, WithFee(source, sold, bought, card, clearing, out, in, fee))

\* Mutant: each refund is compared with the charge alone.
OneRefundFits(charge, units) == units <= UnitsOf(charge)

\* _validate_refund_capacity: active refunds never exceed the charge.
RefundFits(charge, units) ==
    MapThenSumSet(UnitsOf, ActiveRefunds(charge)) + units <= UnitsOf(charge)

RefundSource(charge) == Is(charge, "charge") /\ ~Reversed(charge)

Refund(t, charge, units) ==
    /\ Available(t)
    /\ RefundSource(charge)
    /\ Postable(CardOf(charge), CounterOf(charge))
    /\ RefundFits(charge, units)
    /\ Record(t, "refund", Transfer(CardOf(charge), CounterOf(charge), units), charge)

-----------------------------------------------------------------------------
(* Reversal and correction *)

\* _load_reversal_source: a transaction is reversed once, a charge only after its
\* refunds, and the reversal of a card transaction never.
ReversalSource(t) ==
    /\ t \in Recorded
    /\ ~Reversed(t)
    /\ Is(t, "charge") => ActiveRefunds(t) = {}
    /\ ~(Is(t, "reversed") /\ TouchesCard(t))

\* The event is applied only as the exact inverse of what it names.
RecordReversal(t, source) == Record(t, "reversed", Negated(journal[source].legs), source)

\* Mutant: a closed card is treated like any closed account.
ReverseOnClosedCard(t, source) ==
    /\ Available(t)
    /\ ReversalSource(source)
    /\ RecordReversal(t, source)

\* Other closed accounts do not stand in the way of an exact reversal.
CardsAreOpen(source) == \A a \in Touched(source) \cap Cards : Active(a)

Reverse(t, source) ==
    /\ Available(t)
    /\ ReversalSource(source)
    /\ CardsAreOpen(source)
    /\ RecordReversal(t, source)

\* The reversal and the replacement are appended in one batch.
Correct(t, new, source, debit, credit, units) ==
    /\ new # t
    /\ Ordinary(debit, credit)
    /\ ~TouchesCard(source)
    /\ Available(t) /\ Available(new)
    /\ ReversalSource(source)
    /\ LET undone == Negated(journal[source].legs)
           legs == Transfer(debit, credit, units)
       IN /\ journal' = [journal EXCEPT
               ![t] = Transaction("reversed", undone, source),
               ![new] = Transaction("posted", legs, None)]
          /\ balance' = Applied(Applied(balance, undone), legs)
    /\ UNCHANGED status

-----------------------------------------------------------------------------
(* Accounts *)

CloseAccount(a) ==
    /\ Active(a)
    /\ ProjectionMatches(a)
    /\ balance[a] = 0
    /\ status' = [status EXCEPT ![a] = "closed"]
    /\ UNCHANGED <<journal, balance>>

ReopenAccount(a) ==
    /\ ~Active(a)
    /\ status' = [status EXCEPT ![a] = "active"]
    /\ UNCHANGED <<journal, balance>>

-----------------------------------------------------------------------------
Free == {t \in TxIds : Available(t)}

Domestic(t) ==
    \/ \E u \in Units :
         \/ \E d, c \in Accounts : \/ RecordExpense(t, d, c, u)
                                 \/ RecordTransfer(t, d, c, u)
                                 \/ Post(t, d, c, u)
         \/ \E k \in Cards, a \in Accounts : \/ Charge(t, "charge", k, a, u)
                                             \/ Charge(t, "fee", k, a, u)
                                             \/ Pay(t, k, a, u)
         \/ \E s \in Recorded : Refund(t, s, u)
    \/ \E a \in Accounts, x, y \in Amounts : RecordAdjustment(t, a, x, y)
    \/ \E s \in Recorded : Reverse(t, s)

Foreign(t) ==
    \E a, d \in Accounts : \E b \in Kept(Asset[a]), c \in Kept(Asset[d]) :
       /\ Exchangeable(a, b, c, d)
       /\ \E u, in \in Units :
            \/ RecordFx(t, a, b, c, d, u, in)
            \/ \E e \in Kept(Asset[a]), fee \in Units : PayFromAbroad(t, a, b, c, d, e, u, in, fee)

Correction(t, new) ==
    \E s \in Recorded, d, c \in Accounts, u \in Units : Correct(t, new, s, d, c, u)

Lifecycle == \E a \in Accounts : CloseAccount(a) \/ ReopenAccount(a)

Next ==
    \/ \E t \in Free : Domestic(t) \/ Foreign(t)
    \/ \E t, new \in Free : Correction(t, new)
    \/ Lifecycle

Spec == Init /\ [][Next]_vars

-----------------------------------------------------------------------------
(* Properties *)

\* Type invariant: every id's transaction, every balance and status has its shape, and
\* only refunds and reversals name another transaction (ck original_shape_valid).
TypeOK ==
    /\ journal \in [TxIds -> [event : {None, "posted", "charge", "fee", "payment",
                                       "refund", "reversed"},
                              legs : [Accounts -> Int], of : TxIds \cup {None}]]
    /\ \A t \in TxIds : (journal[t].of # None) = (Is(t, "refund") \/ Is(t, "reversed"))
    /\ balance \in [Accounts -> Int]
    /\ status \in [Accounts -> {"active", "closed"}]

\* Nothing is owed on a closed card and it holds no credit, whatever is reversed,
\* refunded or corrected after it was closed (close_account, _build_reverse_plan).
ClosedCardsAreSettled == \A a \in Cards : ~Active(a) => balance[a] = 0

\* The charge, its refunds and every reversal in between.
Root[t \in TxIds] == IF journal[t].of = None THEN t ELSE Root[journal[t].of]
Family(t) == {x \in Recorded : Root[x] = t}

\* A charge, with its refunds and the reversals of them all, never leaves the card
\* better off than before it, and never charges it twice (_load_refund_source,
\* _validate_refund_capacity, _has_active_credit_card_refunds).
ChargesStayCovered ==
    \A t \in Recorded : Is(t, "charge") =>
        Posted(CardOf(t), Family(t)) \in -UnitsOf(t)..0

\* What is owed on a card is the sum of its transactions that are in force, those
\* without a reversal: the reading of "active" that refund capacity relies on.
CardsAreOpenItems ==
    \A a \in Cards :
        balance[a] = Posted(a, {t \in Recorded : ~Is(t, "reversed") /\ ~Reversed(t)})

\* A transaction, with the reversal, the reversal of the reversal and so on, counts
\* once or not at all, on every account it touches (_load_reversal_source).
CountsOnceOrNot ==
    \A t \in Recorded : journal[t].of = None /\ ~Is(t, "charge") =>
        LET family == Family(t) IN
        \/ \A a \in Accounts : Posted(a, family) = 0
        \/ \A a \in Accounts : Posted(a, family) = journal[t].legs[a]

-----------------------------------------------------------------------------
(* What the database asks of a row when it is written, before row the journal. *)

\* v2_validate_journal_balance, at the commit: the postings of each asset add up to zero.
\* That they are two at least is so by their shape here.
BalancedRow(row) == \A a \in Accounts : Sum(row.legs, Kept(Asset[a])) = 0

\* v2_validate_credit_card_projection: a refund is of a charge in force, in the same
\* accounts, with enough left.
RefundRow(row, card, counter, units) ==
    /\ Is(row.of, "charge") /\ ~Reversed(row.of)
    /\ CardOf(row.of) = card /\ CounterOf(row.of) = counter
    /\ MapThenSumSet(UnitsOf, ActiveRefunds(row.of)) + units <= UnitsOf(row.of)

\* Any typed row is what its two postings say.
TypedRow(row) ==
    \E card \in Cards, counter \in Accounts \ Cards :
       LET units == IF row.legs[card] < 0 THEN -row.legs[card] ELSE row.legs[card]
           spent == row.event \in {"charge", "fee"}
       IN
       /\ row.legs = IF spent THEN Transfer(counter, card, units)
                              ELSE Transfer(card, counter, units)
       /\ Kind[counter] \in IF row.event = "payment" THEN {"asset", "fx_trading"}
                             ELSE {"expense", "expense_clearing"}
       /\ row.event = "refund" => RefundRow(row, card, counter, units)

\* v2_validate_credit_card_reversal, and one reversal for each transaction.
ReversalRow(row) ==
    /\ ~Reversed(row.of)
    /\ TouchesCard(row.of) =>
         ~Is(row.of, "reversed") /\ (Is(row.of, "charge") => ActiveRefunds(row.of) = {})

\* What the commands let through, the tables accept: no request that passed every check of
\* the code, a reversal, a refund after a refund, an exchange with a fee, fails on a trigger.
TriggersAccept ==
    [][\A t \in Recorded' \ Recorded : LET row == journal'[t] IN
         /\ BalancedRow(row)
         /\ row.event \in {"charge", "fee", "payment", "refund"} => TypedRow(row)
         /\ row.event = "reversed" => ReversalRow(row)]_vars

\* Whatever refers back to a transaction, refunds, reversals, reversals of those, adds up
\* with it: for a charge, for a card, and for every account the transaction touches.
FamiliesAddUp == ChargesStayCovered /\ CardsAreOpenItems /\ CountsOnceOrNot

================================================================================
