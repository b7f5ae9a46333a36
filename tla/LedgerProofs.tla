----------------------------- MODULE LedgerProofs ------------------------------
(***************************************************************************)
(* Proofs about Journal and InvestmentLots, for any accounts, transaction  *)
(* ids and amounts, lots, sales, quantities and costs.                     *)
(*                                                                         *)
(* A closed card keeps its zero balance because no command that moves a    *)
(* card's balance gets past a closed card: posting, the typed commands and *)
(* adjustments need active accounts, a correction refuses card             *)
(* transactions, and a reversal looks at the cards its source touches.     *)
(* Everything else about refunds and reversals rests on three facts that   *)
(* hold together: what a transaction names is recorded, nothing is         *)
(* reversed twice, and the charge of a refund in force is in force.        *)
(*                                                                         *)
(* The second part is about sums.  Every command appends one event that    *)
(* its checks allow (Event), and AInv says what the transactions that      *)
(* refer back to one another add up to: a charge with its refunds, a chain *)
(* of reversals, the items in force of a card.  That the triggers accept   *)
(* what the commands allow follows from the same invariant.                *)
(*                                                                         *)
(* The third part is about lots.  Positions is a fold over the log, which  *)
(* an event extends by one; LInv says that the table is the last of the    *)
(* positions, and LotOK what a lot and the parts sold of it add up to.     *)
(***************************************************************************)
EXTENDS Journal, InvestmentLots, SetSums

\* A refund or a reversal names a transaction of the Book.
SourcesAreRecorded ==
    \A t \in Recorded : journal[t].of # None => journal[t].of \in Recorded

\* No transaction has two reversals (_load_reversal_source).
ReversedAtMostOnce ==
    \A r, s \in Recorded :
        Is(r, "reversed") /\ Is(s, "reversed") /\ journal[r].of = journal[s].of => r = s

\* A refund in force refunds a charge in force (_load_refund_source,
\* _has_active_credit_card_refunds).
RefundsStand ==
    \A r \in Recorded : Is(r, "refund") /\ ~Reversed(r) =>
        Is(journal[r].of, "charge") /\ ~Reversed(journal[r].of)

IInv ==
    /\ TypeOK
    /\ ClosedCardsAreSettled
    /\ SourcesAreRecorded
    /\ ReversedAtMostOnce
    /\ RefundsStand

Legs == [Accounts -> Int]
Events == {"posted", "charge", "fee", "payment", "refund", "reversed"}

-----------------------------------------------------------------------------
(* One recorded event *)

\* A transfer has a number for every account.
LEMMA TransferType ==
    ASSUME JournalAssumption, NEW d, NEW c, NEW u \in Int
    PROVE  Transfer(d, c, u) \in Legs
BY DEF Transfer, Legs

\* What the guards of every command say about the transaction it names,
Linked(event, of) ==
    /\ (of # None) = (event \in {"refund", "reversed"})
    /\ of # None => of \in Recorded
    /\ event = "refund" => Is(of, "charge") /\ ~Reversed(of)
    /\ event = "reversed" => ~Reversed(of)
    /\ event = "reversed" /\ Is(of, "charge") => ActiveRefunds(of) = {}

\* and about the event as a whole.
Sound(t, event, legs, of) ==
    /\ t \in TxIds /\ Available(t)
    /\ event \in Events
    /\ legs \in Legs
    /\ of \in TxIds \cup {None}
    /\ \A a \in Cards : ~Active(a) => legs[a] = 0
    /\ Linked(event, of)

\* The journal after one event.
LEMMA RecordedAfter ==
    ASSUME JournalAssumption, TypeOK,
           NEW t, NEW event, NEW legs, NEW of, Sound(t, event, legs, of),
           Record(t, event, legs, of)
    PROVE  /\ Recorded' = Recorded \cup {t}
           /\ t \notin Recorded
           /\ journal'[t] = [event |-> event, legs |-> legs, of |-> of]
           /\ \A x \in TxIds \ {t} : journal'[x] = journal[x]
BY DEF Record, Sound, TypeOK, Recorded, Transaction, Available, None, Events, Is,
       JournalAssumption

\* A sound event keeps the shapes of the rows,
LEMMA RecordKeepsType ==
    ASSUME JournalAssumption, TypeOK,
           NEW t, NEW event, NEW legs, NEW of, Sound(t, event, legs, of),
           Record(t, event, legs, of)
    PROVE  TypeOK'
<1>1. /\ journal'[t] = [event |-> event, legs |-> legs, of |-> of]
      /\ \A x \in TxIds \ {t} : journal'[x] = journal[x]
  BY RecordedAfter
<1>2. journal' \in [TxIds -> [event : {None, "posted", "charge", "fee", "payment",
                                       "refund", "reversed"},
                              legs : [Accounts -> Int], of : TxIds \cup {None}]]
  BY DEF Record, Sound, TypeOK, Transaction, Events, Legs
<1>3. \A x \in TxIds : (journal'[x].of # None)
                         = (journal'[x].event = "refund" \/ journal'[x].event = "reversed")
  BY <1>1 DEF Sound, Linked, TypeOK, Is, Events
<1>4. balance' \in [Accounts -> Int]
  BY DEF Record, Sound, TypeOK, Applied, Legs
<1> QED
  BY <1>2, <1>3, <1>4 DEF TypeOK, Is, Record

\* leaves a closed card at zero,
LEMMA RecordKeepsCardsSettled ==
    ASSUME JournalAssumption, TypeOK, ClosedCardsAreSettled,
           NEW t, NEW event, NEW legs, NEW of, Sound(t, event, legs, of),
           Record(t, event, legs, of)
    PROVE  ClosedCardsAreSettled'
BY DEF Record, Sound, TypeOK, ClosedCardsAreSettled, Applied, Active, Cards, Legs

\* A step that records t and, in extra, transactions that name nothing.
Appends(t, event, of, extra) ==
    /\ Recorded' = Recorded \cup {t} \cup extra
    /\ t \notin Recorded /\ extra \cap (Recorded \cup {t}) = {}
    /\ journal'[t].event = event /\ journal'[t].of = of
    /\ \A x \in extra : journal'[x].event = "posted" /\ journal'[x].of = None
    /\ \A x \in Recorded : journal'[x] = journal[x]

\* and leaves every reference sound, alone or with what is appended beside it.
LEMMA AppendKeepsReferences ==
    ASSUME JournalAssumption, TypeOK, SourcesAreRecorded, ReversedAtMostOnce, RefundsStand,
           NEW t \in TxIds, NEW event, NEW of, NEW extra \in SUBSET TxIds,
           Linked(event, of), Appends(t, event, of, extra)
    PROVE  SourcesAreRecorded' /\ ReversedAtMostOnce' /\ RefundsStand'
<1> USE DEF Appends
<1>1. Recorded \subseteq TxIds
  BY DEF Recorded
<1>2. \A x \in Recorded' :
        \/ x \in Recorded /\ x # t /\ x \notin extra /\ journal'[x] = journal[x]
        \/ x = t
        \/ x \in extra /\ journal'[x].event = "posted" /\ journal'[x].of = None
  OBVIOUS
<1>3. SourcesAreRecorded'
  BY <1>2 DEF SourcesAreRecorded, Linked
<1>4. ReversedAtMostOnce'
  <2> SUFFICES ASSUME NEW r \in Recorded', NEW s \in Recorded',
                      journal'[r].event = "reversed", journal'[s].event = "reversed",
                      journal'[r].of = journal'[s].of
               PROVE  r = s
    BY DEF ReversedAtMostOnce, Is
  <2>1. CASE r # t /\ s # t
    BY <2>1, <1>2 DEF ReversedAtMostOnce, Is
  <2>2. CASE r = t /\ s # t
    BY <2>2, <1>2 DEF Linked, Reversed, Is
  <2>3. CASE s = t /\ r # t
    BY <2>3, <1>2 DEF Linked, Reversed, Is
  <2> QED
    BY <2>1, <2>2, <2>3
<1> DEFINE ReversedNow(x) ==
      \E q \in Recorded' : journal'[q].event = "reversed" /\ journal'[q].of = x
<1>5. \A x : ReversedNow(x) <=> Reversed(x) \/ (event = "reversed" /\ x = of)
  BY <1>2 DEF Reversed, Is
<1>6. RefundsStand'
  <2> SUFFICES ASSUME NEW r \in Recorded', journal'[r].event = "refund",
                      ~ReversedNow(r)
               PROVE  /\ journal'[journal'[r].of].event = "charge"
                      /\ ~ReversedNow(journal'[r].of)
    BY DEF RefundsStand, Is, Reversed
  <2> HIDE DEF ReversedNow
  <2>1. CASE r = t
    <3>1. /\ event = "refund" /\ journal'[r].of = of /\ of \in Recorded
          /\ journal[of].event = "charge" /\ ~Reversed(of)
      BY <2>1 DEF Linked, Is
    <3>2. ~ReversedNow(of)
      BY <3>1, <1>5
    <3> QED
      BY <3>1, <3>2, <1>2
  <2>2. CASE r # t
    <3>1. r \in Recorded /\ journal'[r] = journal[r] /\ Is(r, "refund") /\ ~Reversed(r)
      BY <2>2, <1>2, <1>5 DEF Is
    <3>2. Is(journal[r].of, "charge") /\ ~Reversed(journal[r].of)
      BY <3>1 DEF RefundsStand
    <3>3. journal[r].of \in Recorded
      BY <3>1, <1>1 DEF SourcesAreRecorded, TypeOK, Is
    <3>4. ~(event = "reversed" /\ of = journal[r].of)
      BY <3>1, <3>2 DEF Linked, ActiveRefunds
    <3>5. ~ReversedNow(journal[r].of)
      BY <3>2, <3>4, <1>5
    <3> QED
      BY <3>1, <3>2, <3>3, <3>5 DEF Is
  <2> QED
    BY <2>1, <2>2
<1> QED
  BY <1>3, <1>4, <1>6

\* Together: one sound event keeps the invariant.
LEMMA RecordKeeps ==
    ASSUME JournalAssumption, IInv,
           NEW t, NEW event, NEW legs, NEW of, Sound(t, event, legs, of),
           Record(t, event, legs, of)
    PROVE  IInv'
<1>1. t \in TxIds /\ Linked(event, of) /\ {} \in SUBSET TxIds
  BY DEF Sound
<1>2. /\ Recorded' = Recorded \cup {t} /\ t \notin Recorded
      /\ journal'[t] = [event |-> event, legs |-> legs, of |-> of]
      /\ \A x \in TxIds \ {t} : journal'[x] = journal[x]
  BY RecordedAfter DEF IInv
<1>3. Recorded \subseteq TxIds
  BY DEF Recorded
<1>4. Appends(t, event, of, {})
  BY <1>2, <1>3 DEF Appends
<1>5. SourcesAreRecorded' /\ ReversedAtMostOnce' /\ RefundsStand'
  BY <1>1, <1>4, AppendKeepsReferences DEF IInv
<1> QED
  BY <1>5, RecordKeepsType, RecordKeepsCardsSettled DEF IInv

-----------------------------------------------------------------------------
(* The commands *)

\* An event with no source that moves no closed card,
LEMMA PlainEvent ==
    ASSUME JournalAssumption, IInv,
           NEW t \in TxIds, NEW event \in {"posted", "charge", "fee", "payment"},
           NEW legs \in Legs, Available(t), \A a \in Cards : ~Active(a) => legs[a] = 0,
           Record(t, event, legs, None)
    PROVE  IInv'
<1>1. Linked(event, None)
  BY DEF Linked
<1>2. Sound(t, event, legs, None)
  BY <1>1 DEF Sound, Events
<1> QED
  BY <1>2, RecordKeeps

\* in particular between two active accounts.
LEMMA PlainTransfer ==
    ASSUME JournalAssumption, IInv,
           NEW t \in TxIds, NEW event \in {"posted", "charge", "fee", "payment"},
           NEW d, NEW c, NEW u \in Int, Available(t), Active(d), Active(c),
           Record(t, event, Transfer(d, c, u), None)
    PROVE  IInv'
<1>1. Transfer(d, c, u) \in Legs
  BY TransferType
<1>2. \A a \in Cards : ~Active(a) => Transfer(d, c, u)[a] = 0
  BY DEF Transfer, Cards
<1> QED
  BY <1>1, <1>2, PlainEvent

\* The postings of an exchange, with or without a fee, are those of transfers between
\* active accounts.
LEMMA TogetherPlain ==
    ASSUME NEW legs \in Legs, NEW more \in Legs,
           \A a \in Cards : ~Active(a) => legs[a] = 0,
           \A a \in Cards : ~Active(a) => more[a] = 0
    PROVE  /\ Together(legs, more) \in Legs
           /\ \A a \in Cards : ~Active(a) => Together(legs, more)[a] = 0
BY DEF Together, Legs, Cards

\* A transfer between active accounts moves no closed card.
LEMMA TransferPlain ==
    ASSUME JournalAssumption, NEW d, NEW c, NEW u \in Int, Active(d), Active(c)
    PROVE  /\ Transfer(d, c, u) \in Legs
           /\ \A a \in Cards : ~Active(a) => Transfer(d, c, u)[a] = 0
<1>1. Transfer(d, c, u) \in Legs
  BY TransferType
<1>2. \A a \in Cards : ~Active(a) => Transfer(d, c, u)[a] = 0
  BY DEF Transfer, Cards
<1> QED
  BY <1>1, <1>2

\* Nor does an exchange between active accounts.
LEMMA ExchangePlain ==
    ASSUME JournalAssumption, NEW a, NEW b, NEW c, NEW d, NEW out \in Int, NEW in \in Int,
           Exchangeable(a, b, c, d)
    PROVE  /\ ExchangeLegs(a, b, c, d, out, in) \in Legs
           /\ \A x \in Cards : ~Active(x) => ExchangeLegs(a, b, c, d, out, in)[x] = 0
<1>1. Active(a) /\ Active(b) /\ Active(c) /\ Active(d)
  BY DEF Exchangeable, Postable
<1> QED
  BY <1>1, TransferPlain, TogetherPlain DEF ExchangeLegs

\* The commands that exchange (record_fx and the card payment in another asset).
LEMMA ForeignStep ==
    ASSUME JournalAssumption, IInv, NEW t \in TxIds, Foreign(t)
    PROVE  IInv'
<1>1. Units \subseteq Int
  BY JournalAssumption DEF JournalAssumption
<1>2. ASSUME NEW a, NEW b, NEW c, NEW d, NEW u \in Units, NEW in \in Units,
             RecordFx(t, a, b, c, d, u, in)
      PROVE  IInv'
  BY <1>1, <1>2, ExchangePlain, PlainEvent DEF RecordFx, RecordExchange
<1>3. ASSUME NEW a, NEW b, NEW c, NEW d, NEW e, NEW u \in Units, NEW in \in Units,
             NEW fee \in Units, PayFromAbroad(t, a, b, c, d, e, u, in, fee)
      PROVE  IInv'
  <2> DEFINE legs == WithFee(a, b, c, d, e, u, in, fee)
  <2>1. /\ Exchangeable(a, b, c, d) /\ Active(e) /\ Available(t)
        /\ Record(t, "posted", legs, None)
    BY <1>3 DEF PayFromAbroad, PaysAbroad, RecordExchange
  <2>2. Active(a)
    BY <2>1 DEF Exchangeable, Postable
  <2>3. /\ legs \in Legs
        /\ \A x \in Cards : ~Active(x) => legs[x] = 0
    BY <1>1, <2>1, <2>2, ExchangePlain, TransferPlain, TogetherPlain DEF WithFee
  <2> QED
    BY <2>1, <2>3, PlainEvent
<1> QED
  BY <1>2, <1>3 DEF Foreign

\* record_adjustment, in either direction.
LEMMA AdjustmentStep ==
    ASSUME JournalAssumption, IInv, NEW t \in TxIds, NEW a \in Accounts,
           NEW x \in Amounts, NEW y \in Amounts, RecordAdjustment(t, a, x, y)
    PROVE  IInv'
<1>1. x \in Int /\ y \in Int
  BY JournalAssumption DEF Amounts, JournalAssumption
<1> DEFINE gain == (y > x) = (a \notin Cards)
           units == IF y > x THEN y - x ELSE x - y
<1>2. units \in Int
  BY <1>1
<1>3. PICK s \in Accounts :
        /\ {s} = AdjustmentAccounts(a)
        /\ Record(t, "posted",
                  IF gain THEN Transfer(a, s, units) ELSE Transfer(s, a, units), None)
  BY DEF RecordAdjustment
<1>4. Available(t) /\ Active(a) /\ Active(s)
  BY <1>3 DEF RecordAdjustment, AdjustmentAccounts
<1> HIDE DEF gain, units
<1>5. CASE gain
  BY <1>2, <1>3, <1>4, <1>5, PlainTransfer
<1>6. CASE ~gain
  BY <1>2, <1>3, <1>4, <1>6, PlainTransfer
<1> QED
  BY <1>5, <1>6

\* The refund of a charge in force.
LEMMA RefundStep ==
    ASSUME JournalAssumption, IInv, NEW t \in TxIds, NEW s \in TxIds, NEW u \in Units,
           Refund(t, s, u)
    PROVE  IInv'
<1> DEFINE legs == Transfer(CardOf(s), CounterOf(s), u)
<1>1. /\ Available(t) /\ Active(CardOf(s)) /\ Active(CounterOf(s))
      /\ Is(s, "charge") /\ ~Reversed(s)
      /\ Record(t, "refund", legs, s)
  BY DEF Refund, RefundSource, Postable
<1>2. legs \in Legs
  BY TransferType, JournalAssumption DEF JournalAssumption
<1>3. \A a \in Cards : ~Active(a) => legs[a] = 0
  BY <1>1 DEF Transfer, Cards
<1>4. Linked("refund", s)
  BY <1>1, JournalAssumption DEF Linked, Recorded, Is, None, JournalAssumption
<1>5. Sound(t, "refund", legs, s)
  BY <1>1, <1>2, <1>3, <1>4 DEF Sound, Events
<1> QED
  BY <1>1, <1>5, RecordKeeps

\* The inverse of a transaction that may be reversed.
LEMMA InverseIsSound ==
    ASSUME JournalAssumption, IInv, NEW t \in TxIds, NEW s \in TxIds, Available(t),
           ReversalSource(s), CardsAreOpen(s)
    PROVE  Sound(t, "reversed", Negated(journal[s].legs), s)
<1>1. Negated(journal[s].legs) \in Legs
  BY DEF Negated, Legs, IInv, TypeOK
<1>2. \A a \in Cards : ~Active(a) => Negated(journal[s].legs)[a] = 0
  BY DEF Negated, Touched, Cards, CardsAreOpen, IInv, TypeOK
<1>3. Linked("reversed", s)
  BY JournalAssumption DEF Linked, ReversalSource, JournalAssumption
<1> QED
  BY <1>1, <1>2, <1>3 DEF Sound, Events

\* The exact reversal.
LEMMA ReverseStep ==
    ASSUME JournalAssumption, IInv, NEW t \in TxIds, NEW s \in TxIds, Reverse(t, s)
    PROVE  IInv'
BY InverseIsSound, RecordKeeps DEF Reverse, RecordReversal

\* The batch of a correction: the reversal t of s and the replacement n.
LEMMA CorrectStep ==
    ASSUME JournalAssumption, IInv,
           NEW t \in TxIds, NEW n \in TxIds, NEW s \in TxIds,
           NEW d \in Accounts, NEW c \in Accounts, NEW u \in Units,
           Correct(t, n, s, d, c, u)
    PROVE  IInv'
<1> DEFINE undone == Negated(journal[s].legs)
           legs == Transfer(d, c, u)
<1>1. /\ n # t /\ Available(t) /\ Available(n) /\ ReversalSource(s)
      /\ ~TouchesCard(s) /\ d \notin Cards /\ c \notin Cards
      /\ journal' = [journal EXCEPT
            ![t] = [event |-> "reversed", legs |-> undone, of |-> s],
            ![n] = [event |-> "posted", legs |-> legs, of |-> None]]
      /\ balance' = Applied(Applied(balance, undone), legs)
      /\ status' = status
  BY DEF Correct, Ordinary, Transaction
<1>2. Sound(t, "reversed", undone, s)
  BY <1>1, InverseIsSound DEF TouchesCard, CardsAreOpen
<1>3. legs \in Legs
  BY TransferType, JournalAssumption DEF JournalAssumption
<1>4. undone \in Legs
  BY <1>2 DEF Sound
<1>5. \A a \in Cards : undone[a] = 0 /\ legs[a] = 0
  BY <1>1 DEF Negated, Transfer, TouchesCard, Touched, Cards, IInv, TypeOK
<1> HIDE DEF undone, legs
<1>6. /\ journal'[t] = [event |-> "reversed", legs |-> undone, of |-> s]
      /\ journal'[n] = [event |-> "posted", legs |-> legs, of |-> None]
      /\ \A x \in TxIds \ {t, n} : journal'[x] = journal[x]
  BY <1>1 DEF IInv, TypeOK
<1>7. TypeOK'
  <2>1. journal' \in [TxIds -> [event : {None, "posted", "charge", "fee", "payment",
                                         "refund", "reversed"},
                                legs : [Accounts -> Int], of : TxIds \cup {None}]]
    BY <1>1, <1>3, <1>4 DEF IInv, TypeOK, Legs
  <2>2. \A x \in TxIds : (journal'[x].of # None)
                           = (journal'[x].event = "refund" \/ journal'[x].event = "reversed")
    BY <1>6, JournalAssumption DEF JournalAssumption, IInv, TypeOK, Is
  <2>3. balance' \in [Accounts -> Int]
    BY <1>1, <1>3, <1>4 DEF IInv, TypeOK, Applied, Legs
  <2> QED
    BY <1>1, <2>1, <2>2, <2>3 DEF IInv, TypeOK, Is
<1>8. ClosedCardsAreSettled'
  BY <1>1, <1>3, <1>4, <1>5
     DEF IInv, TypeOK, ClosedCardsAreSettled, Applied, Active, Cards, Legs
<1>9. Appends(t, "reversed", s, {n})
  <2>1. t \notin Recorded /\ n \notin Recorded /\ Recorded \subseteq TxIds
    BY <1>1 DEF Available, Recorded
  <2>2. Recorded' = Recorded \cup {t} \cup {n}
    BY <1>6 DEF Recorded, None
  <2>3. \A x \in Recorded : journal'[x] = journal[x]
    BY <1>6, <2>1
  <2>4. {n} \cap (Recorded \cup {t}) = {}
    BY <1>1, <2>1
  <2>5. /\ journal'[t].event = "reversed" /\ journal'[t].of = s
        /\ journal'[n].event = "posted" /\ journal'[n].of = None
    BY <1>6
  <2> QED
    BY <2>1, <2>2, <2>3, <2>4, <2>5 DEF Appends
<1>10. SourcesAreRecorded' /\ ReversedAtMostOnce' /\ RefundsStand'
  BY <1>2, <1>9, AppendKeepsReferences DEF Sound, IInv
<1> QED
  BY <1>7, <1>8, <1>10 DEF IInv

\* Closing and reopening: an account is closed at zero.
LEMMA AccountStep ==
    ASSUME IInv, NEW a \in Accounts, CloseAccount(a) \/ ReopenAccount(a)
    PROVE  IInv'
<1>1. /\ journal' = journal /\ balance' = balance
      /\ status' \in [Accounts -> {"active", "closed"}]
  BY DEF CloseAccount, ReopenAccount, IInv, TypeOK
<1>2. TypeOK'
  BY <1>1 DEF IInv, TypeOK, Is
<1>3. ClosedCardsAreSettled'
  BY <1>1 DEF IInv, TypeOK, ClosedCardsAreSettled, CloseAccount, ReopenAccount,
              Active, Cards
<1>4. SourcesAreRecorded' /\ ReversedAtMostOnce' /\ RefundsStand'
  BY <1>1 DEF IInv, SourcesAreRecorded, ReversedAtMostOnce, RefundsStand, Recorded, Is,
              Reversed
<1> QED
  BY <1>2, <1>3, <1>4 DEF IInv

-----------------------------------------------------------------------------
(* The theorems *)

\* The empty journal meets the invariant.
LEMMA InitOK ==
    ASSUME JournalAssumption, Init
    PROVE  IInv
<1>1. Recorded = {}
  BY DEF Init, Recorded, NoTransaction, Transaction
<1>2. TypeOK
  BY JournalAssumption DEF Init, TypeOK, NoTransaction, Transaction, Is, None
<1> QED
  BY <1>1, <1>2 DEF IInv, Init, ClosedCardsAreSettled, Active, Cards,
                    SourcesAreRecorded, ReversedAtMostOnce, RefundsStand

\* Every command keeps the invariant.
LEMMA NextOK ==
    ASSUME JournalAssumption, IInv, Next
    PROVE  IInv'
<1>1. Units \subseteq Int
  BY JournalAssumption DEF JournalAssumption
<1>2. Free \subseteq TxIds /\ Recorded \subseteq TxIds /\ Cards \subseteq Accounts
  BY DEF Free, Recorded, Cards
<1>3. ASSUME NEW t \in TxIds, NEW u \in Units, NEW d \in Accounts, NEW c \in Accounts,
             \/ RecordExpense(t, d, c, u)
             \/ RecordTransfer(t, d, c, u)
             \/ Post(t, d, c, u)
      PROVE  IInv'
  <2>1. Post(t, d, c, u)
    BY <1>3 DEF RecordExpense, RecordTransfer
  <2> QED
    BY <1>1, <2>1, PlainTransfer DEF Post, Ordinary, Postable
<1>4. ASSUME NEW t \in TxIds, NEW u \in Units, NEW k \in Accounts, NEW a \in Accounts,
             NEW event \in {"charge", "fee"}, Charge(t, event, k, a, u)
      PROVE  IInv'
  BY <1>1, <1>4, PlainTransfer DEF Charge, Postable
<1>5. ASSUME NEW t \in TxIds, NEW u \in Units, NEW k \in Accounts, NEW a \in Accounts,
             Pay(t, k, a, u)
      PROVE  IInv'
  BY <1>1, <1>5, PlainTransfer DEF Pay, Postable
<1>6. ASSUME NEW t \in TxIds, Domestic(t)
      PROVE  IInv'
  BY <1>2, <1>3, <1>4, <1>5, <1>6, RefundStep, AdjustmentStep, ReverseStep DEF Domestic
<1>7. ASSUME NEW t \in TxIds, NEW new \in TxIds, Correction(t, new)
      PROVE  IInv'
  BY <1>2, <1>7, CorrectStep DEF Correction
<1>8. ASSUME Lifecycle
      PROVE  IInv'
  BY <1>8, AccountStep DEF Lifecycle
<1> QED
  BY <1>2, <1>6, <1>7, <1>8, ForeignStep DEF Next

\* The inductive invariant holds in every behaviour of the journal.
THEOREM JournalInvariance == Spec => []IInv
<1>1. Init => IInv
  BY InitOK, JournalAssumption
<1>2. IInv /\ [Next]_vars => IInv'
  <2> SUFFICES ASSUME IInv, [Next]_vars PROVE IInv'
    OBVIOUS
  <2>1. CASE Next
    BY <2>1, NextOK, JournalAssumption
  <2>2. CASE UNCHANGED vars
    BY <2>2 DEF vars, IInv, TypeOK, ClosedCardsAreSettled, SourcesAreRecorded,
                ReversedAtMostOnce, RefundsStand, Recorded, Is, Reversed, Active, Cards
  <2> QED
    BY <2>1, <2>2
<1> QED
  BY <1>1, <1>2, PTL DEF Spec

\* Every transaction, balance and status keeps its shape (the projection tables).
THEOREM JournalTypeCorrect == Spec => []TypeOK
BY JournalInvariance, PTL DEF IInv

\* A closed card stays at zero whatever is reversed, refunded, corrected or adjusted
\* after it was closed (close_account, _closed_credit_card_account_id).
THEOREM ClosedCardsStaySettled == Spec => []ClosedCardsAreSettled
BY JournalInvariance, PTL DEF IInv

\* Nothing is reversed twice, and the charge of a refund in force is in force
\* (_load_reversal_source, _load_refund_source).
THEOREM ReversalsAreSound == Spec => [](ReversedAtMostOnce /\ RefundsStand)
BY JournalInvariance, PTL DEF IInv

-----------------------------------------------------------------------------
(* The sums of the model *)

\* What each transaction does to account a, and the units of each.
Column(a) == [t \in TxIds |-> journal[t].legs[a]]
UnitsColumn == [t \in TxIds |-> UnitsOf(t)]

\* The postings of an account over some transactions add up.
LEMMA PostedIsTotal ==
  ASSUME TypeOK, NEW a \in Accounts, NEW S \in SUBSET TxIds, IsFiniteSet(S)
  PROVE  Summable(Column(a), S) /\ Posted(a, S) = Total(Column(a), S)
<1> DEFINE Folds(h) ==
             h = [s \in SUBSET S |-> IF s = {} THEN 0
                                     ELSE journal[CHOOSE x \in s : TRUE].legs[a]
                                            + h[s \ {CHOOSE x \in s : TRUE}]]
           F == Column(a)
<1>1. \A x \in S : F[x] = journal[x].legs[a] /\ F[x] \in Int
  BY DEF Column, TypeOK
<1>2. Summable(F, S)
  BY <1>1 DEF Summable
<1>3. PICK g : g \in [SUBSET S -> Int] /\ Tallies(g, F, S)
  <2> HIDE DEF F
  <2> QED BY <1>2, TallyExists DEF Summable
<1>4. ASSUME NEW s \in SUBSET S, s # {} PROVE F[First(s)] = journal[First(s)].legs[a]
  BY <1>1, <1>4, OthersAreFewer
<1>5. Folds(g)
  <2>1. g = [s \in SUBSET S |-> IF s = {} THEN 0 ELSE F[First(s)] + g[Others(s)]]
    BY <1>3 DEF Tallies
  <2>2. g = [s \in SUBSET S |-> IF s = {} THEN 0 ELSE journal[First(s)].legs[a] + g[Others(s)]]
    <3> HIDE DEF F
    <3> QED BY <1>4, <2>1
  <2> QED BY <2>2 DEF First, Others
<1>6. PICK h : Folds(h) /\ h = CHOOSE k : Folds(k)
  <2> HIDE DEF Folds
  <2> QED BY <1>5
<1>7. Posted(a, S) = h[S]
  <2>1. Posted(a, S) = (CHOOSE k : Folds(k))[S]
    BY DEF Posted, MapThenSumSet, MapThenFoldSet
  <2> HIDE DEF Folds
  <2> QED BY <1>6, <2>1
<1>8. Tallies(h, F, S)
  <2>1. h = [s \in SUBSET S |-> IF s = {} THEN 0 ELSE journal[First(s)].legs[a] + h[Others(s)]]
    BY <1>6 DEF First, Others
  <2>2. h = [s \in SUBSET S |-> IF s = {} THEN 0 ELSE F[First(s)] + h[Others(s)]]
    <3> HIDE DEF F
    <3> QED BY <1>4, <2>1
  <2> HIDE DEF F
  <2> QED BY <2>2 DEF Tallies
<1>9. h[S] = Total(F, S)
  <2> HIDE DEF F
  <2> QED BY <1>2, <1>8, TotalIs
<1> QED BY <1>2, <1>7, <1>9

\* The units of some card transactions add up.
LEMMA UnitsAreTotal ==
  ASSUME NEW S \in SUBSET TxIds, IsFiniteSet(S), \A x \in S : UnitsOf(x) \in Int
  PROVE  Summable(UnitsColumn, S) /\ MapThenSumSet(UnitsOf, S) = Total(UnitsColumn, S)
<1> DEFINE Folds(h) ==
             h = [s \in SUBSET S |-> IF s = {} THEN 0
                                     ELSE UnitsOf(CHOOSE x \in s : TRUE)
                                            + h[s \ {CHOOSE x \in s : TRUE}]]
           F == UnitsColumn
<1>1. \A x \in S : F[x] = UnitsOf(x) /\ F[x] \in Int
  BY DEF UnitsColumn
<1>2. Summable(F, S)
  BY <1>1 DEF Summable
<1>3. PICK g : g \in [SUBSET S -> Int] /\ Tallies(g, F, S)
  <2> HIDE DEF F
  <2> QED BY <1>2, TallyExists DEF Summable
<1>4. ASSUME NEW s \in SUBSET S, s # {} PROVE F[First(s)] = UnitsOf(First(s))
  BY <1>1, <1>4, OthersAreFewer
<1>5. Folds(g)
  <2>1. g = [s \in SUBSET S |-> IF s = {} THEN 0 ELSE F[First(s)] + g[Others(s)]]
    BY <1>3 DEF Tallies
  <2>2. g = [s \in SUBSET S |-> IF s = {} THEN 0 ELSE UnitsOf(First(s)) + g[Others(s)]]
    <3> HIDE DEF F
    <3> QED BY <1>4, <2>1
  <2> QED BY <2>2 DEF First, Others
<1>6. PICK h : Folds(h) /\ h = CHOOSE k : Folds(k)
  <2> HIDE DEF Folds
  <2> QED BY <1>5
<1>7. MapThenSumSet(UnitsOf, S) = h[S]
  <2>1. MapThenSumSet(UnitsOf, S) = (CHOOSE k : Folds(k))[S]
    BY DEF MapThenSumSet, MapThenFoldSet
  <2> HIDE DEF Folds
  <2> QED BY <1>6, <2>1
<1>8. Tallies(h, F, S)
  <2>1. h = [s \in SUBSET S |-> IF s = {} THEN 0 ELSE UnitsOf(First(s)) + h[Others(s)]]
    BY <1>6 DEF First, Others
  <2>2. h = [s \in SUBSET S |-> IF s = {} THEN 0 ELSE F[First(s)] + h[Others(s)]]
    <3> HIDE DEF F
    <3> QED BY <1>4, <2>1
  <2> HIDE DEF F
  <2> QED BY <2>2 DEF Tallies
<1>9. h[S] = Total(F, S)
  <2> HIDE DEF F
  <2> QED BY <1>2, <1>8, TotalIs
<1> QED BY <1>2, <1>7, <1>9

\* The postings of one transaction add up over a set of accounts.
LEMMA SumIsTotal ==
  ASSUME NEW legs, NEW S, Summable(legs, S)
  PROVE  Sum(legs, S) = Total(legs, S)
<1> DEFINE Folds(h) ==
             h = [s \in SUBSET S |-> IF s = {} THEN 0
                                     ELSE legs[CHOOSE x \in s : TRUE]
                                            + h[s \ {CHOOSE x \in s : TRUE}]]
<1>1. PICK g : g \in [SUBSET S -> Int] /\ Tallies(g, legs, S)
  BY TallyExists DEF Summable
<1>2. Folds(g)
  BY <1>1 DEF Tallies, First, Others
<1>3. PICK h : Folds(h) /\ h = CHOOSE k : Folds(k)
  <2> HIDE DEF Folds
  <2> QED BY <1>2
<1>4. Sum(legs, S) = h[S]
  <2>1. Sum(legs, S) = (CHOOSE k : Folds(k))[S]
    BY DEF Sum, MapThenSumSet, MapThenFoldSet
  <2> HIDE DEF Folds
  <2> QED BY <1>3, <2>1
<1>5. Tallies(h, legs, S)
  BY <1>3 DEF Tallies, First, Others
<1> QED BY <1>4, <1>5, TotalIs

-----------------------------------------------------------------------------
(* What the postings of a row say *)

\* The card, the other account and the units of a card transaction, by its postings alone.
CardIn(legs) == CHOOSE a \in {b \in Accounts : legs[b] # 0} : a \in Cards
CounterIn(legs) == CHOOSE a \in {b \in Accounts : legs[b] # 0} : a \notin Cards
UnitsIn(legs) == LET u == legs[CardIn(legs)] IN IF u < 0 THEN -u ELSE u

\* They are what the journal's operators read, before a step and after it.
LEMMA RowReadings ==
  ASSUME NEW t
  PROVE  /\ CardOf(t) = CardIn(journal[t].legs)
         /\ CounterOf(t) = CounterIn(journal[t].legs)
         /\ UnitsOf(t) = UnitsIn(journal[t].legs)
         /\ UnitsOf(t)' = UnitsIn(journal'[t].legs)
         /\ CardOf(t)' = CardIn(journal'[t].legs)
BY DEF CardOf, CounterOf, UnitsOf, Touched, CardIn, CounterIn, UnitsIn

\* A transfer between a card and another account, in either direction.
LEMMA CardTransfer ==
  ASSUME NEW k \in Cards, NEW c \in Accounts \ Cards, NEW u \in Nat \ {0},
         NEW legs, legs = Transfer(k, c, u) \/ legs = Transfer(c, k, u)
  PROVE  /\ CardIn(legs) = k /\ CounterIn(legs) = c /\ UnitsIn(legs) = u
         /\ legs = Transfer(k, c, u) => legs[k] = u
         /\ legs = Transfer(c, k, u) => legs[k] = -u
         /\ k # c /\ k \in Accounts
<1>1. k # c /\ k \in Accounts
  BY DEF Cards
<1>2. /\ legs = Transfer(k, c, u) => legs[k] = u
      /\ legs = Transfer(c, k, u) => legs[k] = -u
      /\ {b \in Accounts : legs[b] # 0} = {k, c}
  BY <1>1 DEF Transfer
<1>3. CardIn(legs) = k /\ CounterIn(legs) = c
  BY <1>2 DEF CardIn, CounterIn
<1>4. UnitsIn(legs) = u
  BY <1>2, <1>3 DEF UnitsIn
<1> QED BY <1>1, <1>2, <1>3, <1>4

-----------------------------------------------------------------------------
(* Rows that balance *)

\* The postings of a transaction add up to nothing in every asset.
Even(legs) ==
    /\ legs \in Legs
    /\ \A x : Total(legs, Kept(x)) = 0

\* The accounts of an asset are finitely many, and their postings can be summed.
LEMMA KeptSummable ==
  ASSUME JournalAssumption, NEW legs \in Legs, NEW x
  PROVE  /\ Kept(x) \in SUBSET Accounts /\ IsFiniteSet(Kept(x))
         /\ Summable(legs, Kept(x))
<1>1. Kept(x) \in SUBSET Accounts
  BY DEF Kept
<1>2. IsFiniteSet(Kept(x))
  BY <1>1, FS_Subset, JournalAssumption DEF JournalAssumption
<1> QED BY <1>1, <1>2 DEF Summable, Legs

\* v2_validate_journal_balance accepts such a row.
LEMMA EvenIsBalanced ==
  ASSUME JournalAssumption, NEW row, Even(row.legs)
  PROVE  BalancedRow(row)
<1>1. ASSUME NEW x PROVE Sum(row.legs, Kept(x)) = 0
  <2>1. Summable(row.legs, Kept(x))
    BY KeptSummable DEF Even
  <2> QED BY <2>1, SumIsTotal DEF Even
<1> QED BY <1>1 DEF BalancedRow

\* A transfer within an asset adds up to nothing,
LEMMA TransferSums ==
  ASSUME JournalAssumption, NEW d \in Accounts, NEW c \in Accounts, Asset[d] = Asset[c],
         NEW u \in Int, NEW x
  PROVE  Total(Transfer(d, c, u), Kept(x)) = 0
<1> DEFINE F == [a \in Accounts |-> IF a = d THEN u ELSE 0]
           G == [a \in Accounts |-> IF a = c THEN -u ELSE 0]
           H == Transfer(d, c, u)
<1>1. F \in Legs /\ G \in Legs
  BY DEF Legs
<1>2. Summable(F, Kept(x)) /\ Summable(G, Kept(x)) /\ Kept(x) \in SUBSET Accounts
      /\ IsFiniteSet(Kept(x))
  <2> HIDE DEF F, G
  <2> QED BY <1>1, KeptSummable
<1>3. \A y \in Kept(x) : H[y] = F[y] + G[y]
  BY <1>2 DEF Transfer
<1>4. Total(H, Kept(x)) = Total(F, Kept(x)) + Total(G, Kept(x))
  <2> HIDE DEF F, G, H
  <2> QED BY <1>2, <1>3, TotalTogether
<1>5. CASE d \in Kept(x)
  <2>1. c \in Kept(x)
    BY <1>5 DEF Kept
  <2>2. F[d] = u /\ \A y \in Kept(x) \ {d} : F[y] = 0
    BY <1>2
  <2>3. G[c] = -u /\ \A y \in Kept(x) \ {c} : G[y] = 0
    BY <1>2
  <2>4. Total(F, Kept(x)) = u
    <3> HIDE DEF F, G, H
    <3> QED BY <1>2, <1>5, <2>2, TotalOfOne
  <2>5. Total(G, Kept(x)) = -u
    <3>1. -u \in Int
      OBVIOUS
    <3> HIDE DEF F, G, H
    <3> QED BY <1>2, <2>1, <2>3, <3>1, TotalOfOne
  <2> HIDE DEF F, G, H
  <2>6. Total(H, Kept(x)) = 0
    BY <1>4, <2>4, <2>5
  <2> QED BY <2>6 DEF H
<1>6. CASE d \notin Kept(x)
  <2>1. c \notin Kept(x)
    BY <1>6 DEF Kept
  <2>2. (\A y \in Kept(x) : F[y] = 0) /\ (\A y \in Kept(x) : G[y] = 0)
    BY <1>2, <1>6, <2>1
  <2> HIDE DEF F, G, H
  <2>3. Total(F, Kept(x)) = 0 /\ Total(G, Kept(x)) = 0
    BY <1>2, <2>2, TotalOfZeros
  <2>4. Total(H, Kept(x)) = 0
    BY <1>4, <2>3
  <2> QED BY <2>4 DEF H
<1> QED BY <1>5, <1>6

\* as do the postings of two such together.
LEMMA TogetherSums ==
  ASSUME JournalAssumption, NEW legs \in Legs, NEW more \in Legs, NEW x,
         Total(legs, Kept(x)) = 0, Total(more, Kept(x)) = 0
  PROVE  Total(Together(legs, more), Kept(x)) = 0
<1>1. Summable(legs, Kept(x)) /\ Summable(more, Kept(x)) /\ Kept(x) \in SUBSET Accounts
  BY KeptSummable
<1>2. \A y \in Kept(x) : Together(legs, more)[y] = legs[y] + more[y]
  BY <1>1 DEF Together
<1>3. Total(Together(legs, more), Kept(x)) = Total(legs, Kept(x)) + Total(more, Kept(x))
  BY <1>1, <1>2, TotalTogether
<1> QED BY <1>3

\* A transfer balances,
LEMMA TransferEven ==
  ASSUME JournalAssumption, NEW d \in Accounts, NEW c \in Accounts, Asset[d] = Asset[c],
         NEW u \in Int
  PROVE  Even(Transfer(d, c, u))
<1>1. Transfer(d, c, u) \in Legs
  BY TransferType
<1> QED BY <1>1, TransferSums DEF Even

\* an exact inverse balances,
LEMMA NegatedEven ==
  ASSUME JournalAssumption, NEW legs, Even(legs)
  PROVE  Even(Negated(legs))
<1>1. legs \in Legs /\ Negated(legs) \in Legs
  BY DEF Even, Negated, Legs
<1>2. ASSUME NEW x PROVE Total(Negated(legs), Kept(x)) = 0
  <2>1. Summable(legs, Kept(x)) /\ Kept(x) \in SUBSET Accounts
    BY <1>1, KeptSummable
  <2>2. \A y \in Kept(x) : Negated(legs)[y] = -legs[y]
    BY <2>1 DEF Negated
  <2>3. Total(Negated(legs), Kept(x)) = -Total(legs, Kept(x))
    BY <2>1, <2>2, TotalNegated
  <2> QED BY <2>3 DEF Even
<1> QED BY <1>1, <1>2 DEF Even

\* and so does an exchange, with its fee or without.
LEMMA ExchangeEven ==
  ASSUME JournalAssumption, NEW a \in Accounts, NEW b \in Accounts, NEW c \in Accounts,
         NEW d \in Accounts, Exchangeable(a, b, c, d),
         NEW out \in Int, NEW in \in Int
  PROVE  Even(ExchangeLegs(a, b, c, d, out, in))
<1>1. /\ Asset[d] = Asset[c] /\ Asset[b] = Asset[a]
  BY DEF Exchangeable, Postable
<1> DEFINE F == Transfer(d, c, in)
           G == Transfer(b, a, out)
<1>2. F \in Legs /\ G \in Legs
  BY TransferType
<1>3. Together(F, G) \in Legs
  BY <1>2 DEF Together, Legs
<1>4. ASSUME NEW x PROVE Total(Together(F, G), Kept(x)) = 0
  <2>1. Total(F, Kept(x)) = 0 /\ Total(G, Kept(x)) = 0
    BY <1>1, TransferSums
  <2> HIDE DEF F, G
  <2> QED BY <1>2, <2>1, TogetherSums
<1>5. Even(Together(F, G))
  <2> HIDE DEF F, G
  <2> QED BY <1>3, <1>4 DEF Even
<1> QED BY <1>5 DEF ExchangeLegs

\* The payment of a card from abroad, with what the exchange costs.
LEMMA FeeEven ==
  ASSUME JournalAssumption, NEW a \in Accounts, NEW b \in Accounts, NEW c \in Accounts,
         NEW d \in Accounts, NEW e \in Accounts, PaysAbroad(a, b, c, d, e),
         NEW out \in Int, NEW in \in Int, NEW fee \in Int
  PROVE  Even(WithFee(a, b, c, d, e, out, in, fee))
<1>1. Exchangeable(a, b, c, d) /\ Asset[e] = Asset[a]
  BY DEF PaysAbroad, Kept
<1> DEFINE F == ExchangeLegs(a, b, c, d, out, in)
           G == Transfer(e, a, fee)
<1>2. Even(F)
  BY <1>1, ExchangeEven
<1>3. F \in Legs /\ G \in Legs
  BY <1>2, TransferType DEF Even
<1>4. \A x : Total(G, Kept(x)) = 0
  BY <1>1, TransferSums
<1> HIDE DEF F, G
<1>5. Together(F, G) \in Legs
  BY <1>3 DEF Together, Legs
<1>6. \A x : Total(Together(F, G), Kept(x)) = 0
  BY <1>2, <1>3, <1>4, TogetherSums DEF Even
<1>7. Even(Together(F, G))
  BY <1>5, <1>6 DEF Even
<1> QED BY <1>7 DEF WithFee, F, G

-----------------------------------------------------------------------------
(* What the commands append *)

\* The expense is debited and the card credited; the card is debited and an asset credited.
SpendingLegs(legs) ==
    \E k \in Cards, c \in Accounts \ Cards, u \in Nat \ {0} :
        Kind[c] = "expense" /\ legs = Transfer(c, k, u)
PaymentLegs(legs) ==
    \E k \in Cards, c \in Accounts \ Cards, u \in Nat \ {0} :
        Kind[c] = "asset" /\ legs = Transfer(k, c, u)

\* What a recorded transaction is for good.
RowOK(x) ==
    /\ Even(journal[x].legs)
    /\ Is(x, "charge") => SpendingLegs(journal[x].legs)
    /\ Is(x, "refund") =>
         /\ Is(journal[x].of, "charge")
         /\ \E u \in Nat \ {0} :
              journal[x].legs = Transfer(CardOf(journal[x].of), CounterOf(journal[x].of), u)
    /\ Is(x, "reversed") =>
         /\ journal[x].legs = Negated(journal[journal[x].of].legs)
         /\ ~(Is(journal[x].of, "reversed") /\ TouchesCard(journal[x].of))

\* What the checks of the commands say of an event, of the journal before it.
Meant(event, legs, of) ==
    /\ Even(legs)
    /\ event \in {"charge", "fee"} => SpendingLegs(legs)
    /\ event = "payment" => PaymentLegs(legs)
    /\ event = "refund" =>
         \E u \in Nat \ {0} : legs = Transfer(CardOf(of), CounterOf(of), u) /\ RefundFits(of, u)
    /\ event = "reversed" =>
         legs = Negated(journal[of].legs) /\ ~(Is(of, "reversed") /\ TouchesCard(of))

\* The event t and, in extra, what a correction puts in the place of its source.
Writes(t, event, legs, of, extra) ==
    /\ t \in TxIds /\ extra \in SUBSET TxIds /\ (extra = {} \/ \E n : extra = {n})
    /\ event \in Events /\ legs \in Legs /\ of \in TxIds \cup {None}
    /\ Appends(t, event, of, extra) /\ journal'[t].legs = legs
    /\ \A x \in TxIds \ Recorded' : journal'[x] = journal[x]
    /\ \A a \in Cards : /\ balance'[a] = balance[a] + legs[a]
                        /\ \A x \in extra : journal'[x].legs[a] = 0
    /\ \A x \in extra : Even(journal'[x].legs)

Event(t, event, legs, of, extra) ==
    Linked(event, of) /\ Meant(event, legs, of) /\ Writes(t, event, legs, of, extra)
SomeEvent == \E t, event, legs, of, extra : Event(t, event, legs, of, extra)

\* A command that records one event appends it and nothing else.
LEMMA RecordWrites ==
  ASSUME JournalAssumption, TypeOK, NEW t \in TxIds, Available(t), NEW event \in Events,
         NEW legs \in Legs, NEW of \in TxIds \cup {None}, Record(t, event, legs, of)
  PROVE  Writes(t, event, legs, of, {})
<1>1. /\ journal'[t] = [event |-> event, legs |-> legs, of |-> of]
      /\ \A x \in TxIds \ {t} : journal'[x] = journal[x]
  BY DEF Record, TypeOK, Transaction
<1>2. t \notin Recorded /\ Recorded \subseteq TxIds /\ Recorded' = Recorded \cup {t}
  BY <1>1 DEF Recorded, Available, Events, None
<1>3. Appends(t, event, of, {})
  BY <1>1, <1>2 DEF Appends
<1>4. \A a \in Cards : balance'[a] = balance[a] + legs[a]
  BY DEF Record, Applied, Cards
<1>5. \A x \in TxIds \ Recorded' : journal'[x] = journal[x]
  BY <1>1, <1>2
<1> QED BY <1>1, <1>3, <1>4, <1>5 DEF Writes

\* A posting between two accounts of an asset.
LEMMA PostingIsEvent ==
  ASSUME JournalAssumption, TypeOK, NEW t \in TxIds, Available(t),
         NEW d \in Accounts, NEW c \in Accounts, Asset[d] = Asset[c],
         NEW u \in Nat \ {0}, Record(t, "posted", Transfer(d, c, u), None)
  PROVE  SomeEvent
<1>1. Even(Transfer(d, c, u)) /\ Transfer(d, c, u) \in Legs
  BY TransferEven, TransferType
<1>2. Writes(t, "posted", Transfer(d, c, u), None, {})
  BY <1>1, RecordWrites DEF Events
<1>3. Linked("posted", None)
  BY DEF Linked
<1>4. Meant("posted", Transfer(d, c, u), None)
  BY <1>1 DEF Meant
<1> QED BY <1>2, <1>3, <1>4 DEF SomeEvent, Event

\* What an exchange posts.
LEMMA ExchangeIsEvent ==
  ASSUME JournalAssumption, TypeOK, NEW t \in TxIds, NEW legs, Even(legs),
         RecordExchange(t, legs)
  PROVE  SomeEvent
<1>1. Writes(t, "posted", legs, None, {})
  BY RecordWrites DEF Events, RecordExchange, Even
<1>2. Linked("posted", None)
  BY DEF Linked
<1>3. Meant("posted", legs, None)
  BY DEF Meant
<1> QED BY <1>1, <1>2, <1>3 DEF SomeEvent, Event

\* The exchanges,
LEMMA ForeignIsEvent ==
  ASSUME JournalAssumption, TypeOK, NEW t \in TxIds, Foreign(t)
  PROVE  SomeEvent
<1>1. Units \subseteq Nat \ {0}
  BY JournalAssumption DEF JournalAssumption
<1>2. PICK a \in Accounts, d \in Accounts : \E b \in Kept(Asset[a]), c \in Kept(Asset[d]) :
        /\ Exchangeable(a, b, c, d)
        /\ \E u, in \in Units :
            \/ RecordFx(t, a, b, c, d, u, in)
            \/ \E e \in Kept(Asset[a]), fee \in Units :
                 PayFromAbroad(t, a, b, c, d, e, u, in, fee)
  BY DEF Foreign
<1>3. PICK b \in Accounts, c \in Accounts :
        /\ Exchangeable(a, b, c, d)
        /\ \E u, in \in Units :
            \/ RecordFx(t, a, b, c, d, u, in)
            \/ \E e \in Kept(Asset[a]), fee \in Units :
                 PayFromAbroad(t, a, b, c, d, e, u, in, fee)
  BY <1>2 DEF Kept
<1>4. PICK u \in Units, in \in Units :
            \/ RecordFx(t, a, b, c, d, u, in)
            \/ \E e \in Kept(Asset[a]), fee \in Units :
                 PayFromAbroad(t, a, b, c, d, e, u, in, fee)
  BY <1>3
<1>5. u \in Int /\ in \in Int
  BY <1>1
<1>6. CASE RecordFx(t, a, b, c, d, u, in)
  <2>1. RecordExchange(t, ExchangeLegs(a, b, c, d, u, in))
    BY <1>6 DEF RecordFx
  <2>2. Even(ExchangeLegs(a, b, c, d, u, in))
    BY <1>3, <1>5, ExchangeEven
  <2> QED BY <2>1, <2>2, ExchangeIsEvent
<1>7. ASSUME NEW e \in Kept(Asset[a]), NEW fee \in Units,
             PayFromAbroad(t, a, b, c, d, e, u, in, fee)
      PROVE  SomeEvent
  <2>1. /\ RecordExchange(t, WithFee(a, b, c, d, e, u, in, fee))
        /\ PaysAbroad(a, b, c, d, e)
    BY <1>7 DEF PayFromAbroad
  <2>2. e \in Accounts /\ fee \in Int
    BY <1>1 DEF Kept
  <2>3. Even(WithFee(a, b, c, d, e, u, in, fee))
    BY <1>5, <2>1, <2>2, FeeEven
  <2> QED BY <2>1, <2>3, ExchangeIsEvent
<1> QED BY <1>4, <1>6, <1>7

\* the adjustments,
LEMMA AdjustmentIsEvent ==
  ASSUME JournalAssumption, TypeOK, NEW t \in TxIds, NEW a \in Accounts,
         NEW x \in Amounts, NEW y \in Amounts, RecordAdjustment(t, a, x, y)
  PROVE  SomeEvent
<1>1. x \in Nat /\ y \in Nat /\ x # y
  BY JournalAssumption DEF Amounts, JournalAssumption, RecordAdjustment
<1> DEFINE gain == (y > x) = (a \notin Cards)
           units == IF y > x THEN y - x ELSE x - y
<1>2. units \in Nat \ {0}
  BY <1>1
<1>3. PICK s \in Accounts :
        /\ {s} = AdjustmentAccounts(a)
        /\ Record(t, "posted",
                  IF gain THEN Transfer(a, s, units) ELSE Transfer(s, a, units), None)
  BY DEF RecordAdjustment
<1>4. Available(t) /\ Asset[s] = Asset[a]
  BY <1>3 DEF RecordAdjustment, AdjustmentAccounts
<1> HIDE DEF gain, units
<1>5. CASE gain
  BY <1>2, <1>3, <1>4, <1>5, PostingIsEvent
<1>6. CASE ~gain
  BY <1>2, <1>3, <1>4, <1>6, PostingIsEvent
<1> QED BY <1>5, <1>6

\* the charges and fees,
LEMMA ChargeIsEvent ==
  ASSUME JournalAssumption, TypeOK, NEW t \in TxIds, NEW event \in {"charge", "fee"},
         NEW k \in Accounts, NEW a \in Accounts, NEW u \in Units, Charge(t, event, k, a, u)
  PROVE  SomeEvent
<1>1. /\ Available(t) /\ k \in Cards /\ Kind[a] = "expense" /\ Asset[a] = Asset[k]
      /\ Record(t, event, Transfer(a, k, u), None) /\ u \in Nat \ {0}
  BY JournalAssumption DEF Charge, Postable, JournalAssumption
<1>2. Even(Transfer(a, k, u)) /\ Transfer(a, k, u) \in Legs
  BY <1>1, TransferEven, TransferType
<1>3. SpendingLegs(Transfer(a, k, u))
  BY <1>1 DEF SpendingLegs, Cards
<1>4. Writes(t, event, Transfer(a, k, u), None, {})
  BY <1>1, <1>2, RecordWrites DEF Events
<1>5. Linked(event, None)
  BY DEF Linked
<1>6. Meant(event, Transfer(a, k, u), None)
  BY <1>2, <1>3 DEF Meant
<1> QED BY <1>4, <1>5, <1>6 DEF SomeEvent, Event

\* The payment of a card.
LEMMA PaymentIsEvent ==
  ASSUME JournalAssumption, TypeOK, NEW t \in TxIds,
         NEW k \in Accounts, NEW a \in Accounts, NEW u \in Units, Pay(t, k, a, u)
  PROVE  SomeEvent
<1>1. /\ Available(t) /\ k \in Cards /\ Kind[a] = "asset" /\ Asset[a] = Asset[k]
      /\ Record(t, "payment", Transfer(k, a, u), None) /\ u \in Nat \ {0}
  BY JournalAssumption DEF Pay, Postable, JournalAssumption
<1>2. Even(Transfer(k, a, u)) /\ Transfer(k, a, u) \in Legs
  BY <1>1, TransferEven, TransferType
<1>3. PaymentLegs(Transfer(k, a, u))
  BY <1>1 DEF PaymentLegs, Cards
<1>4. Writes(t, "payment", Transfer(k, a, u), None, {})
  BY <1>1, <1>2, RecordWrites DEF Events
<1>5. Linked("payment", None)
  BY DEF Linked
<1>6. Meant("payment", Transfer(k, a, u), None)
  BY <1>2, <1>3 DEF Meant
<1> QED BY <1>4, <1>5, <1>6 DEF SomeEvent, Event

\* The card and the other account of a charge.
LEMMA ChargeAccounts ==
  ASSUME NEW c, Is(c, "charge"), RowOK(c)
  PROVE  /\ CardOf(c) \in Cards /\ CounterOf(c) \in Accounts \ Cards
         /\ Kind[CounterOf(c)] = "expense" /\ UnitsOf(c) \in Nat \ {0}
         /\ journal[c].legs = Transfer(CounterOf(c), CardOf(c), UnitsOf(c))
<1>1. PICK k \in Cards, e \in Accounts \ Cards, u \in Nat \ {0} :
        Kind[e] = "expense" /\ journal[c].legs = Transfer(e, k, u)
  BY DEF RowOK, SpendingLegs
<1>2. CardIn(journal[c].legs) = k /\ CounterIn(journal[c].legs) = e
      /\ UnitsIn(journal[c].legs) = u
  BY <1>1, CardTransfer
<1>3. CardOf(c) = k /\ CounterOf(c) = e /\ UnitsOf(c) = u
  BY <1>2, RowReadings
<1> QED BY <1>1, <1>3

\* A refund of a charge in force, within what is left of it.
LEMMA RefundIsEvent ==
  ASSUME JournalAssumption, TypeOK, \A x \in Recorded : RowOK(x),
         NEW t \in TxIds, NEW s \in Recorded, NEW u \in Units, Refund(t, s, u)
  PROVE  SomeEvent
<1> DEFINE legs == Transfer(CardOf(s), CounterOf(s), u)
<1>1. /\ Available(t) /\ Is(s, "charge") /\ ~Reversed(s) /\ RefundFits(s, u)
      /\ Record(t, "refund", legs, s) /\ u \in Nat \ {0}
      /\ Asset[CardOf(s)] = Asset[CounterOf(s)]
  BY JournalAssumption DEF Refund, RefundSource, Postable, JournalAssumption
<1>2. CardOf(s) \in Accounts /\ CounterOf(s) \in Accounts
  BY <1>1, ChargeAccounts DEF Cards
<1>3. Even(legs) /\ legs \in Legs
  BY <1>1, <1>2, TransferEven, TransferType
<1>4. s \in TxIds /\ s # None
  BY JournalAssumption DEF Recorded, JournalAssumption
<1>5. Writes(t, "refund", legs, s, {})
  <2> HIDE DEF legs
  <2> QED BY <1>1, <1>3, <1>4, RecordWrites DEF Events
<1>6. Linked("refund", s)
  BY <1>1, <1>4 DEF Linked
<1>7. Meant("refund", legs, s)
  BY <1>1, <1>3 DEF Meant
<1> HIDE DEF legs
<1> QED BY <1>5, <1>6, <1>7 DEF SomeEvent, Event

\* A reversal that may be recorded.
LEMMA ReversalMeant ==
  ASSUME JournalAssumption, \A x \in Recorded : RowOK(x), NEW s, ReversalSource(s)
  PROVE  /\ s \in TxIds /\ s # None
         /\ Linked("reversed", s) /\ Meant("reversed", Negated(journal[s].legs), s)
         /\ Negated(journal[s].legs) \in Legs
<1>1. s \in Recorded /\ s \in TxIds /\ s # None
  BY JournalAssumption DEF ReversalSource, Recorded, JournalAssumption
<1>2. Even(Negated(journal[s].legs))
  BY <1>1, NegatedEven DEF RowOK
<1>3. Linked("reversed", s)
  BY <1>1 DEF Linked, ReversalSource
<1>4. Meant("reversed", Negated(journal[s].legs), s)
  BY <1>2 DEF Meant, ReversalSource
<1> QED BY <1>1, <1>2, <1>3, <1>4 DEF Even

\* The exact reversal of what may be reversed,
LEMMA ReversalIsEvent ==
  ASSUME JournalAssumption, TypeOK, \A x \in Recorded : RowOK(x),
         NEW t \in TxIds, NEW s \in Recorded, Reverse(t, s)
  PROVE  SomeEvent
<1>1. /\ Available(t) /\ ReversalSource(s)
      /\ Record(t, "reversed", Negated(journal[s].legs), s)
  BY DEF Reverse, RecordReversal
<1>2. Writes(t, "reversed", Negated(journal[s].legs), s, {})
  BY <1>1, ReversalMeant, RecordWrites DEF Events
<1> QED BY <1>1, <1>2, ReversalMeant DEF SomeEvent, Event

\* and the batch of a correction: two events, of which only one refers back.
LEMMA CorrectionIsEvent ==
  ASSUME JournalAssumption, TypeOK, \A x \in Recorded : RowOK(x),
         NEW t \in TxIds, NEW n \in TxIds, NEW s \in Recorded,
         NEW d \in Accounts, NEW c \in Accounts, NEW u \in Units,
         Correct(t, n, s, d, c, u)
  PROVE  SomeEvent
<1> DEFINE undone == Negated(journal[s].legs)
           legs == Transfer(d, c, u)
<1>1. /\ n # t /\ Available(t) /\ Available(n) /\ ReversalSource(s)
      /\ ~TouchesCard(s) /\ d \notin Cards /\ c \notin Cards
      /\ Asset[d] = Asset[c] /\ u \in Nat \ {0}
      /\ journal' = [journal EXCEPT
            ![t] = [event |-> "reversed", legs |-> undone, of |-> s],
            ![n] = [event |-> "posted", legs |-> legs, of |-> None]]
      /\ balance' = Applied(Applied(balance, undone), legs)
  BY JournalAssumption DEF Correct, Ordinary, Postable, Transaction, JournalAssumption
<1>2. /\ s \in TxIds /\ Linked("reversed", s) /\ Meant("reversed", undone, s)
      /\ undone \in Legs
  BY <1>1, ReversalMeant
<1>3. Even(legs) /\ legs \in Legs
  BY <1>1, TransferEven, TransferType
<1>4. \A a \in Cards : legs[a] = 0 /\ a \in Accounts
  BY <1>1 DEF Transfer, Cards
<1> HIDE DEF undone, legs
<1>5. /\ journal'[t] = [event |-> "reversed", legs |-> undone, of |-> s]
      /\ journal'[n] = [event |-> "posted", legs |-> legs, of |-> None]
      /\ \A x \in TxIds \ {t, n} : journal'[x] = journal[x]
  BY <1>1 DEF TypeOK
<1>6. t \notin Recorded /\ n \notin Recorded /\ Recorded \subseteq TxIds
  BY <1>1 DEF Available, Recorded
<1>7. Recorded' = Recorded \cup {t} \cup {n}
  BY <1>5 DEF Recorded, None
<1>8. Appends(t, "reversed", s, {n})
  <2>1. \A x \in Recorded : journal'[x] = journal[x]
    BY <1>5, <1>6
  <2>2. {n} \cap (Recorded \cup {t}) = {}
    BY <1>1, <1>6
  <2>3. /\ journal'[t].event = "reversed" /\ journal'[t].of = s
        /\ journal'[n].event = "posted" /\ journal'[n].of = None
    BY <1>5
  <2> QED BY <1>6, <1>7, <2>1, <2>2, <2>3 DEF Appends
<1>9. \A x \in TxIds \ Recorded' : journal'[x] = journal[x]
  BY <1>5, <1>7
<1>10. \A a \in Cards : balance'[a] = balance[a] + undone[a] /\ journal'[n].legs[a] = 0
  BY <1>1, <1>2, <1>3, <1>4, <1>5 DEF Applied, Legs, TypeOK
<1>11. Writes(t, "reversed", undone, s, {n})
  <2>1. /\ t \in TxIds /\ {n} \in SUBSET TxIds /\ "reversed" \in Events
        /\ s \in TxIds \cup {None} /\ journal'[t].legs = undone /\ journal'[n].legs = legs
    BY <1>2, <1>5 DEF Events
  <2>2. \A a \in Cards : /\ balance'[a] = balance[a] + undone[a]
                         /\ \A x \in {n} : journal'[x].legs[a] = 0
    BY <1>10
  <2>3. \A x \in {n} : Even(journal'[x].legs)
    BY <1>3, <2>1
  <2>4. \E m : {n} = {m}
    OBVIOUS
  <2> QED BY <1>2, <1>8, <1>9, <2>1, <2>2, <2>3, <2>4 DEF Writes
<1> QED BY <1>2, <1>11 DEF SomeEvent, Event

\* Every command appends one event, or one with a replacement, or moves nothing.
LEMMA NextIsEvent ==
  ASSUME JournalAssumption, TypeOK, \A x \in Recorded : RowOK(x), Next
  PROVE  SomeEvent \/ UNCHANGED <<journal, balance>>
<1>1. Units \subseteq Nat \ {0} /\ Free \subseteq TxIds /\ Cards \subseteq Accounts
  BY JournalAssumption DEF JournalAssumption, Free, Cards
<1>2. ASSUME NEW t \in TxIds, NEW u \in Units, NEW d \in Accounts, NEW c \in Accounts,
             \/ RecordExpense(t, d, c, u)
             \/ RecordTransfer(t, d, c, u)
             \/ Post(t, d, c, u)
      PROVE  SomeEvent
  <2>1. Post(t, d, c, u)
    BY <1>2 DEF RecordExpense, RecordTransfer
  <2>2. /\ Available(t) /\ Asset[d] = Asset[c] /\ u \in Nat \ {0}
        /\ Record(t, "posted", Transfer(d, c, u), None)
    BY <1>1, <2>1 DEF Post, Ordinary, Postable
  <2> QED BY <2>2, PostingIsEvent
<1>3. ASSUME NEW t \in TxIds, Domestic(t)
      PROVE  SomeEvent
  BY <1>1, <1>2, <1>3, ChargeIsEvent, PaymentIsEvent, RefundIsEvent, AdjustmentIsEvent,
     ReversalIsEvent DEF Domestic
<1>4. ASSUME NEW t \in TxIds, NEW new \in TxIds, Correction(t, new)
      PROVE  SomeEvent
  BY <1>4, CorrectionIsEvent DEF Correction
<1>5. ASSUME Lifecycle
      PROVE  UNCHANGED <<journal, balance>>
  BY <1>5 DEF Lifecycle, CloseAccount, ReopenAccount
<1> QED BY <1>1, <1>3, <1>4, <1>5, ForeignIsEvent DEF Next

-----------------------------------------------------------------------------
(* Families *)

\* What Root is: the one function that leads back from a transaction to the first of those
\* it refers to.  There is one because a transaction names what was recorded before it.
Rooted(f) == f = [t \in TxIds |-> IF journal[t].of = None THEN t ELSE f[journal[t].of]]
RootsOK == Rooted(Root) /\ \A g : Rooted(g) => g = Root

\* A family goes back to a recorded transaction that names none; whoever is of the family
\* of a charge moves a card, so that its reversals cannot be reversed.
RootOK(x) ==
    /\ Root[x] \in Recorded /\ journal[Root[x]].of = None
    /\ Is(Root[x], "charge") => TouchesCard(x)

\* Root by its own equation.
LEMMA RootValue ==
  ASSUME RootsOK
  PROVE  \A x \in TxIds : Root[x] = IF journal[x].of = None THEN x ELSE Root[journal[x].of]
<1>1. PICK f : f = Root
  OBVIOUS
<1>2. f = [t \in TxIds |-> IF journal[t].of = None THEN t ELSE f[journal[t].of]]
  BY <1>1 DEF RootsOK, Rooted
<1>3. \A x \in TxIds : f[x] = IF journal[x].of = None THEN x ELSE f[journal[x].of]
  BY <1>2
<1> QED BY <1>1, <1>3

\* The rows after an event.
LEMMA RowsAfter ==
  ASSUME TypeOK, NEW t, NEW event, NEW legs, NEW of, NEW extra,
         Writes(t, event, legs, of, extra)
  PROVE  /\ Recorded' = Recorded \cup {t} \cup extra
         /\ Recorded \subseteq TxIds /\ t \in TxIds /\ extra \subseteq TxIds
         /\ t \notin Recorded /\ t \notin extra /\ extra \cap Recorded = {}
         /\ journal'[t].event = event /\ journal'[t].of = of /\ journal'[t].legs = legs
         /\ \A x \in extra : journal'[x].event = "posted" /\ journal'[x].of = None
         /\ \A x \in Recorded : journal'[x] = journal[x]
         /\ journal[t].of = None
         /\ \A x \in TxIds \ {t} : journal'[x].of = journal[x].of
<1>1. /\ Recorded' = Recorded \cup {t} \cup extra
      /\ Recorded \subseteq TxIds /\ t \in TxIds /\ extra \subseteq TxIds
      /\ t \notin Recorded /\ t \notin extra /\ extra \cap Recorded = {}
      /\ journal'[t].event = event /\ journal'[t].of = of /\ journal'[t].legs = legs
      /\ \A x \in extra : journal'[x].event = "posted" /\ journal'[x].of = None
      /\ \A x \in Recorded : journal'[x] = journal[x]
      /\ \A x \in TxIds \ Recorded' : journal'[x] = journal[x]
  BY DEF Writes, Appends, Recorded
<1>2. \A x \in TxIds \ Recorded : journal[x].of = None
  BY DEF TypeOK, Is, Recorded, None
<1> QED BY <1>1, <1>2

\* An event adds its transaction to the family of what it names, or founds one.
LEMMA RootStep ==
  ASSUME JournalAssumption, IInv, RootsOK,
         NEW t, NEW event, NEW legs, NEW of, NEW extra,
         Linked(event, of), Writes(t, event, legs, of, extra)
  PROVE  /\ RootsOK'
         /\ Root' = [Root EXCEPT ![t] = IF of = None THEN t ELSE Root[of]]
<1>1. PICK f : f = Root
  OBVIOUS
<1>2. Rooted(f) /\ \A g : Rooted(g) => g = f
  BY <1>1 DEF RootsOK
<1>3. /\ t \in TxIds /\ t \notin Recorded /\ journal[t].of = None /\ journal'[t].of = of
      /\ \A x \in TxIds \ {t} : journal'[x].of = journal[x].of
      /\ \A x \in TxIds : journal[x].of \in TxIds \cup {None}
      /\ \A x \in TxIds : journal[x].of # None => journal[x].of \in Recorded
  <2>1. \A x \in TxIds : journal[x].of # None => journal[x].of \in Recorded
    BY DEF IInv, TypeOK, SourcesAreRecorded, Is, Recorded, None
  <2> QED BY <2>1, RowsAfter DEF IInv, TypeOK
<1>4. of = None \/ (of \in Recorded /\ of \in TxIds /\ of # t)
  BY <1>3 DEF Linked, Recorded
<1>5. None \notin TxIds
  BY JournalAssumption DEF JournalAssumption
<1> DEFINE h == [f EXCEPT ![t] = IF of = None THEN t ELSE f[of]]
<1>6. DOMAIN f = TxIds /\ \A x \in TxIds : f[x] = IF journal[x].of = None THEN x
                                                 ELSE f[journal[x].of]
  BY <1>2 DEF Rooted
<1>7. /\ h = [x \in TxIds |-> IF x = t THEN IF of = None THEN t ELSE f[of] ELSE f[x]]
  BY <1>2 DEF Rooted
<1>8. Rooted(h)'
  <2>1. ASSUME NEW x \in TxIds
        PROVE  h[x] = IF journal'[x].of = None THEN x ELSE h[journal'[x].of]
    <3>1. CASE x = t
      <4>1. of # None => h[of] = f[of]
        BY <1>4, <1>7
      <4> QED BY <1>3, <1>7, <3>1, <4>1
    <3>2. CASE x # t
      <4>1. h[x] = f[x] /\ journal'[x].of = journal[x].of
        BY <1>3, <1>7, <3>2
      <4>2. journal[x].of # None => journal[x].of \in TxIds /\ journal[x].of # t
        BY <1>3
      <4>3. journal[x].of # None => h[journal[x].of] = f[journal[x].of]
        BY <1>7, <4>2
      <4> QED BY <1>6, <4>1, <4>3
    <3> QED BY <3>1, <3>2
  <2>2. h = [x \in TxIds |-> h[x]]
    BY <1>7
  <2>3. h = [x \in TxIds |-> IF journal'[x].of = None THEN x ELSE h[journal'[x].of]]
    <3> HIDE DEF h
    <3> QED BY <2>1, <2>2
  <2> HIDE DEF h
  <2> QED BY <2>3 DEF Rooted
<1>9. ASSUME NEW g, Rooted(g)' PROVE g = h
  <2> DEFINE k == [g EXCEPT ![t] = t]
  <2>1. /\ g = [x \in TxIds |-> IF journal'[x].of = None THEN x ELSE g[journal'[x].of]]
    BY <1>9 DEF Rooted
  <2>2. DOMAIN g = TxIds /\ \A x \in TxIds : g[x] = IF journal'[x].of = None THEN x
                                                   ELSE g[journal'[x].of]
    BY <2>1
  <2>3. k = [x \in TxIds |-> IF x = t THEN t ELSE g[x]]
    BY <2>2, <2>1
  <2>4. ASSUME NEW x \in TxIds
        PROVE  k[x] = IF journal[x].of = None THEN x ELSE k[journal[x].of]
    <3>1. CASE x = t
      BY <1>3, <2>3, <3>1
    <3>2. CASE x # t
      <4>1. k[x] = g[x] /\ journal'[x].of = journal[x].of
        BY <1>3, <2>3, <3>2
      <4>2. journal[x].of # None => journal[x].of \in TxIds /\ journal[x].of # t
        BY <1>3
      <4>3. journal[x].of # None => k[journal[x].of] = g[journal[x].of]
        BY <2>3, <4>2
      <4> QED BY <2>2, <4>1, <4>3
    <3> QED BY <3>1, <3>2
  <2>5. k = [x \in TxIds |-> k[x]]
    BY <2>3
  <2>6. Rooted(k)
    <3> HIDE DEF k
    <3> QED BY <2>4, <2>5 DEF Rooted
  <2>7. k = f
    <3> HIDE DEF k
    <3> QED BY <1>2, <2>6
  <2>8. \A x \in TxIds \ {t} : g[x] = f[x]
    BY <2>3, <2>7
  <2>9. g[t] = IF of = None THEN t ELSE f[of]
    BY <1>3, <1>4, <2>2, <2>8
  <2>10. g = [x \in TxIds |-> g[x]]
    BY <2>1
  <2> QED BY <1>7, <2>8, <2>9, <2>10
<1> HIDE DEF h
<1>10. Root' = h
  <2>1. PICK k : Rooted(k)' /\ k = CHOOSE j : Rooted(j)'
    BY <1>8
  <2>2. Root' = CHOOSE j : Rooted(j)'
    BY DEF Root, Rooted
  <2> QED BY <1>9, <2>1, <2>2
<1>11. RootsOK'
  BY <1>8, <1>9, <1>10 DEF RootsOK
<1> QED BY <1>1, <1>10, <1>11 DEF h

\* The families after an event.
LEMMA FamilyStep ==
  ASSUME JournalAssumption, IInv, RootsOK, \A x \in Recorded : RootOK(x),
         NEW t, NEW event, NEW legs, NEW of, NEW extra,
         Linked(event, of), Writes(t, event, legs, of, extra)
  PROVE  /\ \A c \in Recorded : Family(c)' = IF of # None /\ Root[of] = c
                                               THEN Family(c) \cup {t} ELSE Family(c)
         /\ \A c \in Recorded' \ Recorded : journal'[c].of = None => Family(c)' = {c}
         /\ \A x \in Recorded : Root'[x] = Root[x] /\ Root[x] \in Recorded
         /\ Root'[t] = IF of = None THEN t ELSE Root[of]
         /\ \A x \in extra : Root'[x] = x
<1>1. PICK f : f = Root
  OBVIOUS
<1>2. PICK g : g = Root'
  OBVIOUS
<1>3. /\ Recorded' = Recorded \cup {t} \cup extra
      /\ Recorded \subseteq TxIds /\ t \in TxIds /\ extra \subseteq TxIds
      /\ t \notin Recorded /\ t \notin extra /\ extra \cap Recorded = {}
      /\ \A x \in extra : journal'[x].of = None
      /\ \A x \in TxIds \ {t} : journal'[x].of = journal[x].of
      /\ journal'[t].of = of
  BY RowsAfter DEF IInv
<1>4. of # None => of \in Recorded
  BY DEF Linked
<1>5. /\ \A x \in TxIds : f[x] = IF journal[x].of = None THEN x ELSE f[journal[x].of]
      /\ DOMAIN f = TxIds
  <2>1. f = [x \in TxIds |-> IF journal[x].of = None THEN x ELSE f[journal[x].of]]
    BY <1>1 DEF RootsOK, Rooted
  <2> QED BY <2>1
<1>6. /\ g = [f EXCEPT ![t] = IF of = None THEN t ELSE f[of]]
  BY <1>1, <1>2, RootStep
<1>7. /\ g[t] = IF of = None THEN t ELSE f[of]
      /\ \A x \in TxIds \ {t} : g[x] = f[x]
  BY <1>3, <1>5, <1>6
<1>8. \A x \in Recorded : f[x] \in Recorded /\ x # t
  BY <1>1, <1>3 DEF RootOK
<1>9. \A x \in Recorded : g[x] = f[x]
  BY <1>3, <1>7, <1>8
<1>10. \A x \in extra : g[x] = x
  BY <1>3, <1>5, <1>7
<1>11. /\ \A c : Family(c) = {x \in Recorded : f[x] = c}
       /\ \A c : Family(c)' = {x \in Recorded' : g[x] = c}
  BY <1>1, <1>2 DEF Family
<1>12. ASSUME NEW c \in Recorded
       PROVE  Family(c)' = IF of # None /\ f[of] = c THEN Family(c) \cup {t} ELSE Family(c)
  <2>1. \A x \in extra : g[x] # c
    BY <1>3, <1>10
  <2>2. g[t] = c <=> of # None /\ f[of] = c
    BY <1>3, <1>7
  <2>3. /\ Family(c) = {x \in Recorded : f[x] = c}
        /\ Family(c)' = {x \in Recorded' : g[x] = c}
    BY <1>11
  <2>4. Family(c)' = Family(c) \cup {x \in {t} : g[x] = c}
    BY <1>3, <1>9, <2>1, <2>3
  <2>5. CASE of # None /\ f[of] = c
    <3>1. {x \in {t} : g[x] = c} = {t}
      BY <2>2, <2>5
    <3> QED BY <2>4, <2>5, <3>1
  <2>6. CASE ~(of # None /\ f[of] = c)
    <3>1. {x \in {t} : g[x] = c} = {}
      BY <2>2, <2>6
    <3> QED BY <2>4, <2>6, <3>1
  <2> QED BY <2>5, <2>6
<1>13. ASSUME NEW c \in Recorded' \ Recorded, journal'[c].of = None
       PROVE  Family(c)' = {c}
  <2>1. \A x \in Recorded : g[x] # c
    BY <1>8, <1>9
  <2>2. CASE c = t
    <3>1. g[t] = t
      BY <1>3, <1>7, <1>13, <2>2
    <3>2. \A x \in extra : g[x] # t
      BY <1>3, <1>10
    <3> QED BY <1>3, <1>11, <2>1, <2>2, <3>1, <3>2
  <2>3. CASE c \in extra
    <3>1. g[t] # c
      BY <1>3, <1>4, <1>7, <1>8, <2>3
    <3> QED BY <1>3, <1>10, <1>11, <2>1, <2>3, <3>1
  <2> QED BY <1>3, <2>2, <2>3
<1> QED BY <1>1, <1>2, <1>7, <1>8, <1>9, <1>10, <1>12, <1>13

\* What is reversed after an event.
LEMMA ReversedStep ==
  ASSUME JournalAssumption, IInv,
         NEW t, NEW event, NEW legs, NEW of, NEW extra,
         Linked(event, of), Writes(t, event, legs, of, extra)
  PROVE  /\ \A x : Reversed(x)' <=> Reversed(x) \/ (event = "reversed" /\ x = of)
         /\ \A x \in Recorded' \ Recorded : ~Reversed(x)'
         /\ event = "reversed" => of \in Recorded /\ ~Reversed(of)
<1>1. /\ Recorded' = Recorded \cup {t} \cup extra
      /\ Recorded \subseteq TxIds /\ t \in TxIds /\ extra \subseteq TxIds
      /\ t \notin Recorded /\ t \notin extra /\ extra \cap Recorded = {}
      /\ journal'[t].event = event /\ journal'[t].of = of
      /\ \A x \in extra : journal'[x].event = "posted"
      /\ \A x \in Recorded : journal'[x] = journal[x]
  BY RowsAfter DEF IInv
<1>2. \A x : Reversed(x)' <=> Reversed(x) \/ (event = "reversed" /\ x = of)
  BY <1>1 DEF Reversed, Is
<1>3. event = "reversed" => of \in Recorded /\ ~Reversed(of)
  BY DEF Linked
<1>4. \A x \in TxIds \ Recorded : ~Reversed(x)
  BY JournalAssumption DEF IInv, SourcesAreRecorded, Reversed, JournalAssumption
<1> QED BY <1>1, <1>2, <1>3, <1>4

-----------------------------------------------------------------------------
(* Rows and roots after an event *)

\* Rows are never changed, and a new row is what its command meant.
LEMMA RowStep ==
  ASSUME JournalAssumption, IInv, \A x \in Recorded : RowOK(x),
         NEW t, NEW event, NEW legs, NEW of, NEW extra,
         Event(t, event, legs, of, extra)
  PROVE  \A x \in Recorded' : RowOK(x)'
<1>0. Linked(event, of) /\ Meant(event, legs, of) /\ Writes(t, event, legs, of, extra)
  BY DEF Event
<1>1. /\ Recorded' = Recorded \cup {t} \cup extra
      /\ Recorded \subseteq TxIds /\ t \in TxIds /\ extra \subseteq TxIds
      /\ journal'[t].event = event /\ journal'[t].of = of /\ journal'[t].legs = legs
      /\ \A x \in extra : journal'[x].event = "posted" /\ journal'[x].of = None
      /\ \A x \in Recorded : journal'[x] = journal[x]
  BY <1>0, RowsAfter DEF IInv
<1>2. \A x \in Recorded : journal[x].of # None => journal[x].of \in Recorded
  BY DEF IInv, SourcesAreRecorded
<1>3. \A x \in Recorded : Is(x, "refund") \/ Is(x, "reversed") => journal[x].of # None
  BY <1>1 DEF IInv, TypeOK
<1>4. ASSUME NEW x \in Recorded
      PROVE  /\ CardOf(x)' = CardOf(x) /\ CounterOf(x)' = CounterOf(x)
             /\ TouchesCard(x)' = TouchesCard(x)
  BY <1>1 DEF CardOf, CounterOf, Touched, TouchesCard
<1>5. ASSUME NEW x \in Recorded PROVE RowOK(x)'
  <2>1. journal'[x] = journal[x] /\ RowOK(x)
    BY <1>1
  <2>2. Even(journal'[x].legs) /\ (Is(x, "charge")' => SpendingLegs(journal'[x].legs))
    BY <2>1 DEF RowOK, Is
  <2>3. CASE ~Is(x, "refund") /\ ~Is(x, "reversed")
    BY <2>1, <2>2, <2>3 DEF RowOK, Is
  <2>4. CASE Is(x, "refund") \/ Is(x, "reversed")
    <3>1. PICK y \in Recorded : y = journal[x].of
      BY <1>2, <1>3, <2>4
    <3>2. /\ CardOf(y)' = CardOf(y) /\ CounterOf(y)' = CounterOf(y)
          /\ TouchesCard(y)' = TouchesCard(y) /\ journal'[y] = journal[y]
      BY <1>1, <1>4
    <3>3. /\ Is(x, "refund") =>
               /\ Is(y, "charge")
               /\ \E u \in Nat \ {0} : journal[x].legs = Transfer(CardOf(y), CounterOf(y), u)
          /\ Is(x, "reversed") =>
               /\ journal[x].legs = Negated(journal[y].legs)
               /\ ~(Is(y, "reversed") /\ TouchesCard(y))
      BY <2>1, <3>1 DEF RowOK
    <3>4. y = journal'[x].of
      BY <2>1, <3>1
    <3>5. /\ Is(x, "refund")' =>
               /\ Is(y, "charge")'
               /\ \E u \in Nat \ {0} : journal'[x].legs = Transfer(CardOf(y)', CounterOf(y)', u)
          /\ Is(x, "reversed")' =>
               /\ journal'[x].legs = Negated(journal'[y].legs)
               /\ ~(Is(y, "reversed")' /\ TouchesCard(y)')
      BY <2>1, <3>2, <3>3 DEF Is
    <3> QED BY <2>2, <3>4, <3>5 DEF RowOK
  <2> QED BY <2>3, <2>4
<1>6. RowOK(t)'
  <2>1. Even(journal'[t].legs) /\ (Is(t, "charge")' => SpendingLegs(journal'[t].legs))
    BY <1>0, <1>1 DEF Meant, Is
  <2>2. CASE event \notin {"refund", "reversed"}
    BY <1>1, <2>1, <2>2 DEF RowOK, Is
  <2>3. CASE event \in {"refund", "reversed"}
    <3>1. of \in Recorded
      BY <1>0, <2>3 DEF Linked
    <3>2. /\ CardOf(of)' = CardOf(of) /\ CounterOf(of)' = CounterOf(of)
          /\ TouchesCard(of)' = TouchesCard(of) /\ journal'[of] = journal[of]
      BY <1>1, <1>4, <3>1
    <3>3. /\ Is(t, "refund")' =>
               /\ Is(of, "charge")'
               /\ \E u \in Nat \ {0} : journal'[t].legs = Transfer(CardOf(of)', CounterOf(of)', u)
          /\ Is(t, "reversed")' =>
               /\ journal'[t].legs = Negated(journal'[of].legs)
               /\ ~(Is(of, "reversed")' /\ TouchesCard(of)')
      BY <1>0, <1>1, <3>2 DEF Meant, Linked, Is
    <3> QED BY <1>1, <2>1, <3>3 DEF RowOK
  <2> QED BY <2>2, <2>3
<1>7. ASSUME NEW x \in extra PROVE RowOK(x)'
  BY <1>0, <1>1 DEF RowOK, Is, Writes
<1> QED BY <1>1, <1>5, <1>6, <1>7

\* A card transaction, and the inverse of a transaction that moves a card, move a card.
LEMMA MovesCard ==
  ASSUME NEW t, NEW k \in Cards, NEW c \in Accounts \ Cards, NEW u \in Nat \ {0},
         NEW legs, legs = Transfer(k, c, u) \/ legs = Transfer(c, k, u)
  PROVE  \E a \in Cards : legs[a] # 0
<1>1. k # c
  OBVIOUS
<1>2. legs[k] # 0
  BY <1>1, CardTransfer
<1> QED BY <1>2

\* A new transaction is of the family of what it names.
LEMMA RootsStep ==
  ASSUME JournalAssumption, IInv, RootsOK, \A x \in Recorded : RootOK(x) /\ RowOK(x),
         NEW t, NEW event, NEW legs, NEW of, NEW extra,
         Event(t, event, legs, of, extra)
  PROVE  \A x \in Recorded' : RootOK(x)'
<1>0. Linked(event, of) /\ Meant(event, legs, of) /\ Writes(t, event, legs, of, extra)
  BY DEF Event
<1>1. /\ Recorded' = Recorded \cup {t} \cup extra
      /\ Recorded \subseteq TxIds /\ t \in TxIds /\ extra \subseteq TxIds
      /\ journal'[t].event = event /\ journal'[t].of = of /\ journal'[t].legs = legs
      /\ \A x \in extra : journal'[x].event = "posted" /\ journal'[x].of = None
      /\ \A x \in Recorded : journal'[x] = journal[x]
  BY <1>0, RowsAfter DEF IInv
<1>2. /\ \A x \in Recorded : Root'[x] = Root[x] /\ Root[x] \in Recorded
      /\ Root'[t] = IF of = None THEN t ELSE Root[of]
      /\ \A x \in extra : Root'[x] = x
  BY <1>0, FamilyStep
<1>3. /\ \A x : TouchesCard(x) <=> \E a \in Cards : journal[x].legs[a] # 0
      /\ \A x : TouchesCard(x)' <=> \E a \in Cards : journal'[x].legs[a] # 0
  BY DEF TouchesCard, Touched, Cards
<1>4. ASSUME NEW x \in Recorded PROVE RootOK(x)'
  <2>1. RootOK(x) /\ Root[x] \in Recorded
    BY <1>2
  <2>2. TouchesCard(x)' <=> TouchesCard(x)
    BY <1>1, <1>3
  <2>3. PICK r \in Recorded : r = Root[x] /\ r = Root'[x]
    BY <1>2
  <2>4. journal'[r] = journal[r]
    BY <1>1
  <2>5. r \in Recorded' /\ journal'[r].of = None /\ (Is(r, "charge")' => TouchesCard(x)')
    BY <1>1, <2>1, <2>2, <2>3, <2>4 DEF RootOK, Is
  <2> QED BY <2>3, <2>5 DEF RootOK
<1>5. ASSUME NEW x \in extra PROVE RootOK(x)'
  <2>1. /\ x = Root'[x] /\ x \in Recorded' /\ journal'[x].of = None /\ ~Is(x, "charge")'
    BY <1>1, <1>2 DEF Is
  <2> QED BY <2>1 DEF RootOK
<1>6. CASE of = None
  <2>1. t = Root'[t] /\ t \in Recorded' /\ journal'[t].of = None
    BY <1>1, <1>2, <1>6
  <2>2. Is(t, "charge")' => TouchesCard(t)'
    <3>1. SUFFICES ASSUME event = "charge" PROVE \E a \in Cards : legs[a] # 0
      BY <1>1, <1>3 DEF Is
    <3>2. PICK k \in Cards, c \in Accounts \ Cards, u \in Nat \ {0} : legs = Transfer(c, k, u)
      BY <1>0, <3>1 DEF Meant, SpendingLegs
    <3> QED BY <3>2, MovesCard
  <2> QED BY <1>1, <1>4, <1>5, <2>1, <2>2 DEF RootOK
<1>7. CASE of # None
  <2>1. of \in Recorded /\ event \in {"refund", "reversed"}
    BY <1>0, <1>7 DEF Linked
  <2>2. PICK r \in Recorded : r = Root[of] /\ r = Root'[t]
    BY <1>2, <1>7, <2>1
  <2>3. r \in Recorded' /\ journal'[r].of = None /\ (Is(r, "charge")' <=> Is(r, "charge"))
    <3>1. r \in Recorded /\ journal[r].of = None
      BY <2>1, <2>2 DEF RootOK
    <3>2. journal'[r] = journal[r]
      BY <1>1
    <3> QED BY <1>1, <3>1, <3>2 DEF Is
  <2>4. Is(r, "charge") => \E a \in Cards : legs[a] # 0
    <3> SUFFICES ASSUME Is(r, "charge") PROVE \E a \in Cards : legs[a] # 0
      OBVIOUS
    <3>1. CASE event = "refund"
      <4>1. CardOf(of) \in Cards /\ CounterOf(of) \in Accounts \ Cards
        BY <1>0, <2>1, <3>1, ChargeAccounts DEF Linked
      <4>2. PICK u \in Nat \ {0} : legs = Transfer(CardOf(of), CounterOf(of), u)
        BY <1>0, <3>1 DEF Meant
      <4> QED BY <4>1, <4>2, MovesCard
    <3>2. CASE event = "reversed"
      <4>1. PICK a \in Cards : journal[of].legs[a] # 0
        BY <1>3, <2>1, <2>2 DEF RootOK
      <4>2. legs[a] = -journal[of].legs[a] /\ journal[of].legs[a] \in Int
        BY <1>0, <1>1, <2>1, <3>2 DEF Meant, Negated, IInv, TypeOK, Cards
      <4> QED BY <4>1, <4>2
    <3> QED BY <2>1, <3>1, <3>2
  <2>5. RootOK(t)'
    BY <1>1, <1>3, <2>2, <2>3, <2>4 DEF RootOK
  <2> QED BY <1>1, <1>4, <1>5, <2>5
<1> QED BY <1>6, <1>7

-----------------------------------------------------------------------------
(* Sums after an event *)

\* What was recorded adds up as before, and the event adds its postings.
LEMMA ColumnStep ==
  ASSUME TypeOK, NEW t, NEW event, NEW legs, NEW of, NEW extra,
         Writes(t, event, legs, of, extra),
         NEW a \in Accounts, NEW S \in SUBSET Recorded, IsFiniteSet(S)
  PROVE  /\ Summable(Column(a), S)
         /\ Summable(Column(a)', S) /\ Total(Column(a)', S) = Total(Column(a), S)
         /\ Summable(Column(a)', S \cup {t})
         /\ Total(Column(a)', S \cup {t}) = Total(Column(a), S) + legs[a]
<1>1. PICK F, G : F = Column(a) /\ G = Column(a)'
  OBVIOUS
<1>2. /\ Recorded \subseteq TxIds /\ t \in TxIds /\ t \notin S
      /\ journal'[t].legs = legs /\ \A x \in Recorded : journal'[x] = journal[x]
  BY RowsAfter
<1>3. legs[a] \in Int
  BY DEF Writes, Legs
<1>4. /\ \A x \in S : F[x] \in Int /\ F[x] = G[x]
      /\ G[t] = legs[a]
  BY <1>1, <1>2 DEF Column, TypeOK
<1>5. Summable(F, S)
  BY <1>4 DEF Summable
<1>6. Summable(G, S) /\ Total(F, S) = Total(G, S)
  BY <1>4, <1>5, TotalAgrees
<1>7. Summable(G, S \cup {t}) /\ Total(G, S \cup {t}) = Total(G, S) + G[t]
  BY <1>2, <1>3, <1>4, <1>6, TotalAdds
<1> QED BY <1>1, <1>4, <1>5, <1>6, <1>7

\* A replacement that adds nothing.
LEMMA NothingAdded ==
  ASSUME NEW F, NEW S, Summable(F, S), NEW extra, extra = {} \/ \E n : extra = {n},
         extra \cap S = {}, \A x \in extra : F[x] = 0
  PROVE  Summable(F, S \cup extra) /\ Total(F, S \cup extra) = Total(F, S)
<1>1. CASE extra = {}
  <2>1. S \cup extra = S
    BY <1>1
  <2> QED BY <2>1
<1>2. ASSUME NEW n, extra = {n}
      PROVE  Summable(F, S \cup extra) /\ Total(F, S \cup extra) = Total(F, S)
  <2>1. n \notin S /\ F[n] = 0 /\ F[n] \in Int /\ S \cup extra = S \cup {n}
    BY <1>2
  <2>2. Summable(F, S \cup extra) /\ Total(F, S \cup extra) = Total(F, S) + F[n]
    BY <2>1, TotalAdds
  <2>3. Total(F, S) \in Int
    BY TotalIsInt
  <2> QED BY <2>1, <2>2, <2>3
<1> QED BY <1>1, <1>2

\* The units of a refund, and what it pays back onto the card.
LEMMA RefundRead ==
  ASSUME NEW r, Is(r, "refund"), RowOK(r), RowOK(journal[r].of)
  PROVE  /\ UnitsOf(r) \in Nat \ {0}
         /\ journal[r].legs[CardOf(journal[r].of)] = UnitsOf(r)
<1>1. PICK u \in Nat \ {0} :
        journal[r].legs = Transfer(CardOf(journal[r].of), CounterOf(journal[r].of), u)
  BY DEF RowOK
<1>2. CardOf(journal[r].of) \in Cards /\ CounterOf(journal[r].of) \in Accounts \ Cards
  BY ChargeAccounts DEF RowOK
<1>3. UnitsIn(journal[r].legs) = u /\ journal[r].legs[CardOf(journal[r].of)] = u
  BY <1>1, <1>2, CardTransfer
<1> QED BY <1>3, RowReadings

-----------------------------------------------------------------------------
(* What adds up *)

\* What is in force: no reversal, and not reversed.
OpenItems == {t \in Recorded : ~Is(t, "reversed") /\ ~Reversed(t)}
OpenOK == \A a \in Cards : balance[a] = Total(Column(a), OpenItems)

\* The family of a transaction that is no charge is a chain of reversals; its last counts,
\* and is the transaction again or its inverse.
EndOK(c) ==
    \E e \in Family(c) :
        /\ ~Reversed(e) /\ \A x \in Family(c) : ~Reversed(x) => x = e
        /\ \/ /\ journal[e].legs = journal[c].legs
              /\ \A a \in Accounts : Total(Column(a), Family(c)) = journal[c].legs[a]
           \/ /\ journal[e].legs = Negated(journal[c].legs)
              /\ \A a \in Accounts : Total(Column(a), Family(c)) = 0

\* The family of a charge leaves on the card what its refunds in force have not paid back,
\* or nothing.
Refunded(c) == Total(UnitsColumn, ActiveRefunds(c))
ChargeOK(c) ==
    /\ Refunded(c) <= UnitsOf(c)
    /\ Total(Column(CardOf(c)), Family(c))
         = Refunded(c) - (IF Reversed(c) THEN 0 ELSE UnitsOf(c))

FamiliesOK ==
    \A c \in Recorded : journal[c].of = None =>
        IF Is(c, "charge") THEN ChargeOK(c) ELSE EndOK(c)

AInv ==
    /\ IInv
    /\ IsFiniteSet(Recorded)
    /\ RootsOK
    /\ \A x \in Recorded : RootOK(x) /\ RowOK(x)
    /\ OpenOK
    /\ FamiliesOK

\* An event opens an item, or closes the one it reverses.
LEMMA OpenStep ==
  ASSUME JournalAssumption, AInv, NEW t, NEW event, NEW legs, NEW of, NEW extra,
         Event(t, event, legs, of, extra)
  PROVE  OpenOK'
<1>0. Linked(event, of) /\ Meant(event, legs, of) /\ Writes(t, event, legs, of, extra)
  BY DEF Event
<1>1. TypeOK /\ IInv
  BY DEF AInv, IInv
<1>2. /\ Recorded' = Recorded \cup {t} \cup extra
      /\ Recorded \subseteq TxIds /\ t \in TxIds /\ extra \subseteq TxIds
      /\ t \notin Recorded /\ t \notin extra /\ extra \cap Recorded = {}
      /\ journal'[t].event = event
      /\ \A x \in extra : journal'[x].event = "posted"
      /\ \A x \in Recorded : journal'[x] = journal[x]
  BY <1>0, <1>1, RowsAfter
<1>3. /\ \A x : Reversed(x)' <=> Reversed(x) \/ (event = "reversed" /\ x = of)
      /\ \A x \in Recorded' \ Recorded : ~Reversed(x)'
      /\ event = "reversed" => of \in Recorded /\ ~Reversed(of)
  BY <1>0, <1>1, ReversedStep
<1>4. IsFiniteSet(OpenItems) /\ OpenItems \in SUBSET Recorded
  <2>1. OpenItems \in SUBSET Recorded
    BY DEF OpenItems
  <2> QED BY <2>1, FS_Subset DEF AInv
<1>5. OpenItems' = {x \in Recorded' : journal'[x].event # "reversed" /\ ~Reversed(x)'}
  BY DEF OpenItems, Is
<1> SUFFICES ASSUME NEW a \in Cards
             PROVE  balance'[a] = Total(Column(a)', OpenItems')
  BY DEF OpenOK
<1>6. /\ a \in Accounts /\ balance[a] = Total(Column(a), OpenItems)
      /\ balance'[a] = balance[a] + legs[a]
      /\ extra = {} \/ \E n : extra = {n}
      /\ \A x \in extra : Column(a)'[x] = 0
      /\ legs[a] \in Int /\ balance[a] \in Int
  BY <1>0, <1>1, <1>2 DEF AInv, OpenOK, Writes, Column, Cards, Legs, TypeOK
<1>7. PICK F, G : F = Column(a) /\ G = Column(a)'
  OBVIOUS
<1>8. CASE event # "reversed"
  <2>1. OpenItems' = (OpenItems \cup {t}) \cup extra
    BY <1>2, <1>3, <1>5, <1>8 DEF OpenItems, Is
  <2>2. /\ Summable(G, OpenItems \cup {t})
        /\ Total(G, OpenItems \cup {t}) = Total(F, OpenItems) + legs[a]
    BY <1>0, <1>1, <1>4, <1>6, <1>7, ColumnStep
  <2>3. Total(G, (OpenItems \cup {t}) \cup extra) = Total(G, OpenItems \cup {t})
    <3>1. extra \cap (OpenItems \cup {t}) = {}
      BY <1>2, <1>4
    <3> QED BY <1>6, <1>7, <2>2, <3>1, NothingAdded
  <2> QED BY <1>6, <1>7, <2>1, <2>2, <2>3
<1>9. CASE event = "reversed" /\ ~Is(of, "reversed")
  <2> DEFINE Rest == OpenItems \ {of}
  <2>1. of \in OpenItems
    BY <1>3, <1>9 DEF OpenItems
  <2>2. OpenItems' = Rest \cup extra
    BY <1>2, <1>3, <1>5, <1>9 DEF OpenItems, Is
  <2>3. Rest \in SUBSET Recorded /\ IsFiniteSet(Rest)
    BY <1>4, FS_Subset
  <2>4. Summable(G, Rest) /\ Total(G, Rest) = Total(F, Rest) /\ Summable(F, Rest)
    <3> HIDE DEF Rest
    <3> QED BY <1>0, <1>1, <1>6, <1>7, <2>3, ColumnStep
  <2>5. Summable(F, OpenItems)
    BY <1>0, <1>1, <1>4, <1>6, <1>7, ColumnStep
  <2>6. Total(F, OpenItems) = Total(F, Rest) + F[of]
    BY <2>1, <2>5, TotalRemoves
  <2>7. legs[a] = -F[of] /\ F[of] \in Int
    BY <1>0, <1>1, <1>3, <1>6, <1>7, <1>9 DEF Meant, Negated, Column, TypeOK, Recorded
  <2>8. Total(G, Rest \cup extra) = Total(G, Rest)
    <3>1. extra \cap Rest = {}
      BY <1>2, <1>4
    <3> HIDE DEF Rest
    <3> QED BY <1>6, <1>7, <2>4, <3>1, NothingAdded
  <2>9. Total(F, Rest) \in Int
    BY <2>4, TotalIsInt
  <2> QED BY <1>6, <1>7, <2>2, <2>4, <2>6, <2>7, <2>8, <2>9
<1>10. CASE event = "reversed" /\ Is(of, "reversed")
  <2>1. OpenItems' = OpenItems \cup extra
    BY <1>2, <1>3, <1>5, <1>10 DEF OpenItems, Is
  <2>2. legs[a] = 0
    BY <1>0, <1>1, <1>3, <1>6, <1>10
       DEF Meant, Negated, TouchesCard, Touched, TypeOK, Recorded
  <2>3. Summable(G, OpenItems) /\ Total(G, OpenItems) = Total(F, OpenItems)
    BY <1>0, <1>1, <1>4, <1>6, <1>7, ColumnStep
  <2>4. Total(G, OpenItems \cup extra) = Total(G, OpenItems)
    <3>1. extra \cap OpenItems = {}
      BY <1>2, <1>4
    <3> QED BY <1>6, <1>7, <2>3, <3>1, NothingAdded
  <2> QED BY <1>6, <1>7, <2>1, <2>2, <2>3, <2>4
<1> QED BY <1>8, <1>9, <1>10

\* Whoever is reversed by an event is of the family the reversal joins.
LEMMA FamilyUntouched ==
  ASSUME JournalAssumption, AInv, NEW t, NEW event, NEW legs, NEW of, NEW extra,
         Event(t, event, legs, of, extra), NEW c \in Recorded,
         ~(of # None /\ Root[of] = c)
  PROVE  /\ Family(c)' = Family(c)
         /\ \A x \in Family(c) : Reversed(x)' = Reversed(x)
<1>0. Linked(event, of) /\ Writes(t, event, legs, of, extra) /\ IInv
  BY DEF Event, AInv
<1>1. Family(c)' = Family(c)
  <2>1. Family(c)' = IF of # None /\ Root[of] = c THEN Family(c) \cup {t} ELSE Family(c)
    BY <1>0, FamilyStep DEF AInv
  <2> QED BY <2>1
<1>2. ASSUME NEW x \in Family(c) PROVE Reversed(x)' = Reversed(x)
  <2>1. Reversed(x)' <=> Reversed(x) \/ (event = "reversed" /\ x = of)
    BY <1>0, ReversedStep
  <2>2. ~(event = "reversed" /\ x = of)
    BY <1>0 DEF Linked, Family
  <2>3. Reversed(x)' \in BOOLEAN /\ Reversed(x) \in BOOLEAN
    BY DEF Reversed
  <2> QED BY <2>1, <2>2, <2>3
<1> QED BY <1>1, <1>2

\* The transaction that founds a family counts once.
LEMMA Founded ==
  ASSUME JournalAssumption, AInv, NEW t, NEW event, NEW legs, NEW of, NEW extra,
         Event(t, event, legs, of, extra), TypeOK',
         NEW c \in Recorded' \ Recorded, journal'[c].of = None
  PROVE  /\ Family(c)' = {c} /\ ~Reversed(c)'
         /\ \A a \in Accounts : Total(Column(a)', {c}) = journal'[c].legs[a]
<1>0. Linked(event, of) /\ Writes(t, event, legs, of, extra) /\ IInv
  BY DEF Event, AInv
<1>1. Family(c)' = {c}
  BY <1>0, FamilyStep DEF AInv
<1>2. ~Reversed(c)'
  BY <1>0, ReversedStep
<1>3. ASSUME NEW a \in Accounts PROVE Total(Column(a)', {c}) = journal'[c].legs[a]
  <2>1. PICK G : G = Column(a)'
    OBVIOUS
  <2>2. c \in TxIds
    BY DEF Recorded
  <2>3. G[c] = journal'[c].legs[a] /\ G[c] \in Int
    BY <2>1, <2>2 DEF Column, TypeOK
  <2>4. IsFiniteSet({c}) /\ \A y \in {c} \ {c} : G[y] = 0
    BY FS_Singleton
  <2>5. Total(G, {c}) = G[c]
    BY <2>3, <2>4, TotalOfOne
  <2> QED BY <2>1, <2>3, <2>5
<1> QED BY <1>1, <1>2, <1>3

\* What a family adds up to when nothing joins it.
LEMMA FamilyTotal ==
  ASSUME JournalAssumption, AInv, NEW t, NEW event, NEW legs, NEW of, NEW extra,
         Event(t, event, legs, of, extra), NEW c \in Recorded, NEW a \in Accounts
  PROVE  /\ Summable(Column(a), Family(c)) /\ Total(Column(a), Family(c)) \in Int
         /\ Total(Column(a)', Family(c)) = Total(Column(a), Family(c))
         /\ Total(Column(a)', Family(c) \cup {t}) = Total(Column(a), Family(c)) + legs[a]
<1>1. Family(c) \in SUBSET Recorded
  BY DEF Family
<1>2. IsFiniteSet(Family(c))
  BY <1>1, FS_Subset DEF AInv
<1>3. TypeOK /\ Writes(t, event, legs, of, extra)
  BY DEF AInv, IInv, Event
<1>4. /\ Summable(Column(a), Family(c))
      /\ Total(Column(a)', Family(c)) = Total(Column(a), Family(c))
      /\ Total(Column(a)', Family(c) \cup {t}) = Total(Column(a), Family(c)) + legs[a]
  BY <1>1, <1>2, <1>3, ColumnStep
<1>5. Total(Column(a), Family(c)) \in Int
  BY <1>4, TotalIsInt
<1> QED BY <1>4, <1>5

\* A reversal takes the place of the last of its chain.
LEMMA EndStep ==
  ASSUME JournalAssumption, AInv, NEW t, NEW event, NEW legs, NEW of, NEW extra,
         Event(t, event, legs, of, extra), NEW c \in Recorded,
         journal[c].of = None, ~Is(c, "charge")
  PROVE  EndOK(c)'
<1>0. /\ Linked(event, of) /\ Meant(event, legs, of) /\ Writes(t, event, legs, of, extra)
      /\ IInv /\ TypeOK
  BY DEF Event, AInv, IInv
<1>1. EndOK(c)
  BY DEF AInv, FamiliesOK
<1>2. PICK e \in Family(c) :
        /\ ~Reversed(e) /\ \A x \in Family(c) : ~Reversed(x) => x = e
        /\ \/ /\ journal[e].legs = journal[c].legs
              /\ \A a \in Accounts : Total(Column(a), Family(c)) = journal[c].legs[a]
           \/ /\ journal[e].legs = Negated(journal[c].legs)
              /\ \A a \in Accounts : Total(Column(a), Family(c)) = 0
  BY <1>1 DEF EndOK
<1>3. /\ \A x \in Recorded : journal'[x] = journal[x]
      /\ journal'[t].legs = legs /\ t \in Recorded' /\ t \notin Recorded
      /\ Recorded \subseteq TxIds /\ Recorded' = Recorded \cup {t} \cup extra
  BY <1>0, RowsAfter
<1>4. Family(c) \subseteq Recorded /\ e \in Recorded
  BY <1>2 DEF Family
<1>5. CASE ~(of # None /\ Root[of] = c)
  <2>1. /\ Family(c)' = Family(c)
        /\ \A x \in Family(c) : Reversed(x)' = Reversed(x)
    BY <1>5, FamilyUntouched
  <2>2. \A a \in Accounts : Total(Column(a)', Family(c)) = Total(Column(a), Family(c))
    BY FamilyTotal
  <2>3. journal'[e] = journal[e] /\ journal'[c] = journal[c]
    BY <1>3, <1>4
  <2>4. \/ /\ journal'[e].legs = journal'[c].legs
           /\ \A a \in Accounts : Total(Column(a)', Family(c)) = journal'[c].legs[a]
        \/ /\ journal'[e].legs = Negated(journal'[c].legs)
           /\ \A a \in Accounts : Total(Column(a)', Family(c)) = 0
    BY <1>2, <2>2, <2>3
  <2>5. e \in Family(c)' /\ ~Reversed(e)' /\ \A x \in Family(c)' : ~Reversed(x)' => x = e
    BY <1>2, <2>1
  <2> QED BY <2>1, <2>4, <2>5 DEF EndOK
<1>6. CASE of # None /\ Root[of] = c
  <2>1. Family(c)' = Family(c) \cup {t}
    <3>1. Family(c)' = IF of # None /\ Root[of] = c THEN Family(c) \cup {t} ELSE Family(c)
      BY <1>0, FamilyStep DEF AInv
    <3> QED BY <1>6, <3>1
  <2>2. of \in Recorded /\ of \in Family(c)
    BY <1>0, <1>6 DEF Linked, Family
  <2>3. event = "reversed"
    <3> SUFFICES ASSUME event = "refund" PROVE FALSE
      BY <1>0, <1>6 DEF Linked
    <3>1. Is(of, "charge") /\ of \in TxIds
      BY <1>0, <1>3, <2>2 DEF Linked
    <3>2. journal[of].of = None
      BY <1>0, <3>1 DEF TypeOK, Is
    <3>3. Root[of] = of
      BY <3>1, <3>2, RootValue DEF AInv
    <3> QED BY <1>6, <3>1, <3>3
  <2>4. /\ \A x : Reversed(x)' <=> Reversed(x) \/ x = of
        /\ ~Reversed(t)' /\ ~Reversed(of)
    BY <1>0, <1>3, <2>3, ReversedStep
  <2>5. of = e
    BY <1>2, <2>2, <2>4
  <2>6. t \in Family(c)' /\ ~Reversed(t)' /\ \A x \in Family(c)' : ~Reversed(x)' => x = t
    BY <1>2, <2>1, <2>4, <2>5
  <2>7. journal[c].legs \in Legs /\ journal[e].legs \in Legs /\ legs = Negated(journal[e].legs)
    BY <1>0, <1>3, <1>4, <2>3, <2>5 DEF Meant, TypeOK, Legs
  <2>8. \A a \in Accounts :
          Total(Column(a)', Family(c)') = Total(Column(a), Family(c)) + legs[a]
    BY <2>1, FamilyTotal
  <2>9. journal'[c] = journal[c]
    BY <1>3
  <2>10. CASE /\ journal[e].legs = journal[c].legs
              /\ \A a \in Accounts : Total(Column(a), Family(c)) = journal[c].legs[a]
    <3>1. journal'[t].legs = Negated(journal'[c].legs)
      BY <1>3, <2>7, <2>9, <2>10
    <3>2. \A a \in Accounts : Total(Column(a)', Family(c)') = 0
      BY <2>7, <2>8, <2>10 DEF Negated, Legs
    <3> QED BY <2>6, <3>1, <3>2 DEF EndOK
  <2>11. CASE /\ journal[e].legs = Negated(journal[c].legs)
              /\ \A a \in Accounts : Total(Column(a), Family(c)) = 0
    <3>1. legs = journal[c].legs
      <4>1. legs = [a \in Accounts |-> -(-journal[c].legs[a])]
        BY <2>7, <2>11 DEF Negated
      <4>2. journal[c].legs = [a \in Accounts |-> journal[c].legs[a]]
            /\ \A a \in Accounts : -(-journal[c].legs[a]) = journal[c].legs[a]
        BY <2>7 DEF Legs
      <4> QED BY <4>1, <4>2
    <3>2. journal'[t].legs = journal'[c].legs
      BY <1>3, <2>9, <3>1
    <3>3. \A a \in Accounts : Total(Column(a)', Family(c)') = journal'[c].legs[a]
      BY <2>7, <2>8, <2>9, <2>11, <3>1 DEF Legs
    <3> QED BY <2>6, <3>2, <3>3 DEF EndOK
  <2> QED BY <1>2, <2>10, <2>11
<1> QED BY <1>5, <1>6

\* The refunds of a charge in force, and their units, before and after an event.
LEMMA RefundsTotal ==
  ASSUME JournalAssumption, AInv, NEW t, NEW event, NEW legs, NEW of, NEW extra,
         Event(t, event, legs, of, extra), NEW c \in Recorded,
         NEW S \in SUBSET ActiveRefunds(c)
  PROVE  /\ Summable(UnitsColumn, S) /\ Total(UnitsColumn, S) \in Nat
         /\ Summable(UnitsColumn', S) /\ Total(UnitsColumn', S) = Total(UnitsColumn, S)
         /\ S \subseteq Recorded
         /\ \A r \in S : UnitsColumn[r] = UnitsOf(r) /\ UnitsOf(r) \in Nat \ {0}
<1>0. Writes(t, event, legs, of, extra) /\ TypeOK
  BY DEF Event, AInv, IInv
<1>1. S \subseteq Recorded
  BY DEF ActiveRefunds
<1>2. IsFiniteSet(S)
  BY <1>1, FS_Subset DEF AInv
<1>3. /\ \A x \in Recorded : journal'[x] = journal[x]
      /\ Recorded \subseteq TxIds
  BY <1>0, RowsAfter
<1>4. ASSUME NEW r \in S PROVE UnitsOf(r) \in Nat \ {0}
  <2>1. Is(r, "refund") /\ journal[r].of = c /\ r \in Recorded
    BY DEF ActiveRefunds
  <2> QED BY <2>1, RefundRead DEF AInv
<1>5. PICK F, G : F = UnitsColumn /\ G = UnitsColumn'
  OBVIOUS
<1>6. ASSUME NEW r \in S PROVE F[r] = UnitsOf(r) /\ G[r] = F[r]
  <2>1. F[r] = UnitsOf(r) /\ G[r] = UnitsOf(r)'
    BY <1>1, <1>3, <1>5 DEF UnitsColumn
  <2>2. UnitsOf(r)' = UnitsOf(r)
    BY <1>1, <1>3, RowReadings
  <2> QED BY <2>1, <2>2
<1>7. Summable(F, S) /\ Total(F, S) \in Nat
  BY <1>2, <1>4, <1>6, TotalOfNaturals
<1>8. Summable(G, S) /\ Total(F, S) = Total(G, S)
  BY <1>6, <1>7, TotalAgrees
<1> QED BY <1>1, <1>4, <1>5, <1>6, <1>7, <1>8

\* A new charge has no refunds, and its whole amount is on the card.
LEMMA NewCharge ==
  ASSUME JournalAssumption, AInv, NEW t, NEW event, NEW legs, NEW of, NEW extra,
         Event(t, event, legs, of, extra), TypeOK', \A x \in Recorded' : RowOK(x)',
         NEW c \in Recorded' \ Recorded, Is(c, "charge")'
  PROVE  ChargeOK(c)'
<1>0. Linked(event, of) /\ Meant(event, legs, of) /\ Writes(t, event, legs, of, extra) /\ TypeOK
  BY DEF Event, AInv, IInv
<1>1. /\ Recorded' = Recorded \cup {t} \cup extra
      /\ Recorded \subseteq TxIds /\ t \in TxIds
      /\ t \notin Recorded /\ t \notin extra /\ extra \cap Recorded = {}
      /\ journal'[t].event = event /\ journal'[t].of = of /\ journal'[t].legs = legs
      /\ \A x \in extra : journal'[x].event = "posted" /\ journal'[x].of = None
      /\ \A x \in Recorded : journal'[x] = journal[x]
  BY <1>0, RowsAfter
<1>2. c = t /\ event = "charge" /\ of = None
  BY <1>0, <1>1 DEF Is, Linked
<1>3. /\ Family(t)' = {t} /\ ~Reversed(t)'
      /\ \A a \in Accounts : Total(Column(a)', {t}) = legs[a]
  BY <1>1, <1>2, Founded
<1>4. ActiveRefunds(t)' = {}
  <2>1. \A x \in Recorded : journal'[x].of # t
    BY <1>1, JournalAssumption DEF AInv, IInv, SourcesAreRecorded, JournalAssumption
  <2>2. \A x \in Recorded' : ~(journal'[x].event = "refund" /\ journal'[x].of = t)
    BY <1>1, <1>2, <2>1
  <2> QED BY <2>2 DEF ActiveRefunds, Is
<1>5. PICK k \in Cards, e \in Accounts \ Cards, u \in Nat \ {0} : legs = Transfer(e, k, u)
  BY <1>0, <1>2 DEF Meant, SpendingLegs
<1>6. CardIn(legs) = k /\ UnitsIn(legs) = u /\ legs[k] = -u /\ k \in Accounts
  <2>1. k # e
    OBVIOUS
  <2> QED BY <1>5, CardTransfer
<1>7. CardOf(t)' = k /\ UnitsOf(t)' = u
  BY <1>1, <1>6, RowReadings
<1>8. Refunded(t)' = 0
  <2>1. PICK G : G = UnitsColumn'
    OBVIOUS
  <2>2. Total(G, {}) = 0
    BY TotalOfNone
  <2> QED BY <1>4, <2>1, <2>2 DEF Refunded
<1>9. Total(Column(k)', Family(t)') = -u
  BY <1>3, <1>6
<1> QED BY <1>2, <1>3, <1>7, <1>8, <1>9 DEF ChargeOK

\* A charge stays covered when it is refunded, a refund of it is reversed, or it is.
LEMMA ChargeStep ==
  ASSUME JournalAssumption, AInv, NEW t, NEW event, NEW legs, NEW of, NEW extra,
         Event(t, event, legs, of, extra), NEW c \in Recorded,
         journal[c].of = None, Is(c, "charge")
  PROVE  ChargeOK(c)'
<1>0. /\ Linked(event, of) /\ Meant(event, legs, of) /\ Writes(t, event, legs, of, extra)
      /\ IInv /\ TypeOK
  BY DEF Event, AInv, IInv
<1>1. /\ Recorded' = Recorded \cup {t} \cup extra
      /\ Recorded \subseteq TxIds /\ t \in TxIds
      /\ t \notin Recorded /\ t \notin extra /\ extra \cap Recorded = {}
      /\ journal'[t].event = event /\ journal'[t].of = of /\ journal'[t].legs = legs
      /\ \A x \in extra : journal'[x].event = "posted" /\ journal'[x].of = None
      /\ \A x \in Recorded : journal'[x] = journal[x]
  BY <1>0, RowsAfter
<1>2. /\ \A x : Reversed(x)' <=> Reversed(x) \/ (event = "reversed" /\ x = of)
      /\ \A x \in Recorded' \ Recorded : ~Reversed(x)'
      /\ event = "reversed" => of \in Recorded /\ ~Reversed(of)
  BY <1>0, ReversedStep
<1>3. \A a \in Accounts : Total(Column(a)', Family(c)) = Total(Column(a), Family(c))
  BY FamilyTotal
<1>4. \A a \in Accounts :
         Total(Column(a)', Family(c) \cup {t}) = Total(Column(a), Family(c)) + legs[a]
  BY FamilyTotal
<1>5. PICK k \in Cards, e \in Accounts \ Cards, u \in Nat \ {0} :
        /\ CardOf(c) = k /\ CounterOf(c) = e /\ UnitsOf(c) = u
        /\ journal[c].legs = Transfer(e, k, u)
  BY ChargeAccounts DEF AInv
<1>6. CardOf(c)' = k /\ UnitsOf(c)' = u
  <2>1. journal'[c] = journal[c]
    BY <1>1
  <2> QED BY <1>5, <2>1, RowReadings
<1>7. k \in Accounts /\ k # e /\ journal[c].legs[k] = -u
  BY <1>5, CardTransfer
<1> DEFINE R == Refunded(c)
           T == Total(Column(k), Family(c))
<1>8. /\ R <= u /\ T = R - (IF Reversed(c) THEN 0 ELSE u)
      /\ R \in Nat /\ R = Total(UnitsColumn, ActiveRefunds(c))
  <2>1. ChargeOK(c)
    BY DEF AInv, FamiliesOK
  <2>2. Total(UnitsColumn, ActiveRefunds(c)) \in Nat
    BY RefundsTotal
  <2> QED BY <1>5, <2>1, <2>2 DEF ChargeOK, Refunded
<1>9. /\ Total(Column(k)', Family(c)) = T
      /\ Total(Column(k)', Family(c) \cup {t}) = T + legs[k]
  BY <1>7, <1>3, <1>4
<1>10. ActiveRefunds(c)' = {x \in Recorded' : /\ journal'[x].event = "refund"
                                             /\ journal'[x].of = c /\ ~Reversed(x)'}
  BY DEF ActiveRefunds, Is
<1>11. Reversed(c)' <=> Reversed(c) \/ (event = "reversed" /\ c = of)
  BY <1>2
<1>12. /\ Refunded(c)' = Total(UnitsColumn', ActiveRefunds(c)')
       /\ ChargeOK(c)' <=> /\ Refunded(c)' <= u
                           /\ Total(Column(k)', Family(c)')
                                = Refunded(c)' - (IF Reversed(c)' THEN 0 ELSE u)
  BY <1>6 DEF Refunded, ChargeOK
<1>13. Family(c)' = IF of # None /\ Root[of] = c THEN Family(c) \cup {t} ELSE Family(c)
  BY <1>0, FamilyStep DEF AInv
<1>14. \A x \in TxIds : Root[x] = IF journal[x].of = None THEN x ELSE Root[journal[x].of]
  BY RootValue DEF AInv
<1>15. \A x \in Recorded : Is(x, "charge") => journal[x].of = None
  BY <1>0, <1>1 DEF TypeOK, Is
<1>16. None \notin Recorded /\ c # None
  BY <1>1, JournalAssumption DEF JournalAssumption
<1> HIDE DEF R, T
<1>17. CASE ~(of # None /\ Root[of] = c)
  <2>1. of # c
    BY <1>1, <1>14, <1>16, <1>17
  <2>2. ActiveRefunds(c)' = ActiveRefunds(c)
    <3>1. ASSUME NEW x \in Recorded, journal[x].event = "refund", journal[x].of = c
          PROVE  ~(event = "reversed" /\ x = of)
      BY <1>1, <1>14, <1>15, <1>16, <1>17, <3>1
    <3> QED BY <1>1, <1>2, <1>10, <1>16, <2>1, <3>1 DEF ActiveRefunds, Is
  <2>3. Refunded(c)' = R
    <3>1. Total(UnitsColumn', ActiveRefunds(c)) = Total(UnitsColumn, ActiveRefunds(c))
      BY RefundsTotal
    <3> QED BY <1>8, <1>12, <2>2, <3>1
  <2>4. Reversed(c)' <=> Reversed(c)
    BY <1>11, <2>1
  <2>5. Family(c)' = Family(c)
    BY <1>13, <1>17
  <2> QED BY <1>8, <1>9, <1>12, <2>3, <2>4, <2>5
<1>18. CASE of # None /\ Root[of] = c /\ event = "refund"
  <2>1. of \in Recorded /\ Is(of, "charge") /\ ~Reversed(of)
    BY <1>0, <1>18 DEF Linked
  <2>2. of = c
    BY <1>1, <1>14, <1>15, <1>18, <2>1
  <2>3. PICK v \in Nat \ {0} : legs = Transfer(k, e, v) /\ RefundFits(c, v)
    BY <1>0, <1>5, <1>18, <2>2 DEF Meant
  <2>4. UnitsIn(legs) = v /\ legs[k] = v
    BY <1>5, <2>3, CardTransfer
  <2>5. ActiveRefunds(c)' = ActiveRefunds(c) \cup {t}
    BY <1>1, <1>2, <1>10, <1>18, <2>2 DEF ActiveRefunds, Is
  <2>6. Refunded(c)' = R + v
    <3>1. PICK G : G = UnitsColumn'
      OBVIOUS
    <3>2. /\ Summable(G, ActiveRefunds(c)) /\ Total(G, ActiveRefunds(c)) = R
          /\ ActiveRefunds(c) \subseteq Recorded
      BY <1>8, <3>1, RefundsTotal
    <3>3. G[t] = v
      <4>1. G[t] = UnitsOf(t)'
        BY <1>1, <3>1 DEF UnitsColumn
      <4> QED BY <1>1, <2>4, <4>1, RowReadings
    <3>4. t \notin ActiveRefunds(c) /\ G[t] \in Int
      BY <1>1, <3>2, <3>3
    <3>5. Total(G, ActiveRefunds(c) \cup {t}) = Total(G, ActiveRefunds(c)) + G[t]
      BY <3>2, <3>4, TotalAdds
    <3> QED BY <1>12, <2>5, <3>1, <3>2, <3>3, <3>5
  <2>7. R + v <= u
    <3>1. MapThenSumSet(UnitsOf, ActiveRefunds(c)) + v <= u
      BY <1>5, <2>3 DEF RefundFits
    <3>2. MapThenSumSet(UnitsOf, ActiveRefunds(c)) = R
      <4>1. ActiveRefunds(c) \in SUBSET TxIds
        BY <1>1 DEF ActiveRefunds
      <4>2. /\ \A r \in ActiveRefunds(c) : UnitsOf(r) \in Int
        BY RefundsTotal
      <4>3. IsFiniteSet(ActiveRefunds(c))
        BY RefundsTotal DEF Summable
      <4> QED BY <1>8, <4>1, <4>2, <4>3, UnitsAreTotal
    <3> QED BY <3>1, <3>2
  <2>8. ~Reversed(c) /\ ~Reversed(c)'
    BY <1>11, <1>18, <2>1, <2>2
  <2>9. Family(c)' = Family(c) \cup {t}
    BY <1>13, <1>18
  <2>10. T = R - u /\ Total(Column(k)', Family(c)') = T + v
    BY <1>8, <1>9, <2>4, <2>8, <2>9
  <2>11. Total(Column(k)', Family(c)') = (R + v) - u
    BY <1>8, <2>10
  <2> QED BY <1>12, <2>6, <2>7, <2>8, <2>11
<1>19. CASE of # None /\ Root[of] = c /\ event = "reversed"
  <2>1. of \in Recorded /\ ~Reversed(of) /\ legs = Negated(journal[of].legs)
    BY <1>0, <1>2, <1>19 DEF Meant
  <2>2. legs[k] = -journal[of].legs[k] /\ journal[of].legs[k] \in Int
    BY <1>0, <1>1, <1>7, <2>1 DEF Negated, TypeOK
  <2>3. Family(c)' = Family(c) \cup {t}
    BY <1>13, <1>19
  <2>4. Total(Column(k)', Family(c)') = T - journal[of].legs[k] /\ T \in Int
    <3>1. T \in Int
      BY <1>8
    <3> QED BY <1>9, <2>2, <2>3, <3>1
  <2>5. CASE of = c
    <3>1. ActiveRefunds(c) = {} /\ ~Reversed(c)
      BY <1>0, <1>19, <2>1, <2>5 DEF Linked
    <3>2. ActiveRefunds(c)' = {}
      BY <1>1, <1>2, <1>10, <1>19, <3>1 DEF ActiveRefunds, Is
    <3>3. R = 0 /\ Refunded(c)' = 0
      <4>1. PICK F, G : F = UnitsColumn /\ G = UnitsColumn'
        OBVIOUS
      <4>2. Total(F, {}) = 0 /\ Total(G, {}) = 0
        BY TotalOfNone
      <4> QED BY <1>8, <1>12, <3>1, <3>2, <4>1, <4>2
    <3>4. Total(Column(k)', Family(c)') = 0
      BY <1>7, <1>8, <2>4, <2>5, <3>1, <3>3
    <3>5. Reversed(c)'
      BY <1>11, <1>19, <2>5
    <3>6. 0 <= u
      OBVIOUS
    <3>7. Refunded(c)' <= UnitsOf(c)'
      BY <1>6, <3>3, <3>6
    <3>8. Total(Column(CardOf(c)), Family(c))' = Refunded(c)'
      BY <1>6, <3>3, <3>4
    <3>9. Refunded(c)' = Refunded(c)' - 0
      BY <3>3
    <3> QED BY <3>5, <3>7, <3>8, <3>9 DEF ChargeOK
  <2>6. CASE of # c
    <3>1. journal[of].of # None
      BY <1>1, <1>14, <1>19, <2>1, <2>6
    <3>2. ~Is(of, "reversed")
      <4>1. TouchesCard(of)
        BY <1>19, <2>1 DEF AInv, RootOK
      <4> QED BY <1>0, <1>19, <4>1 DEF Meant
    <3>3. Is(of, "refund")
      BY <1>0, <1>1, <2>1, <3>1, <3>2 DEF TypeOK
    <3>4. journal[of].of = c
      <4>1. Is(journal[of].of, "charge") /\ journal[of].of \in Recorded
        BY <1>0, <2>1, <3>1, <3>3 DEF AInv, RowOK, IInv, SourcesAreRecorded
      <4>2. Root[journal[of].of] = journal[of].of
        BY <1>1, <1>14, <1>15, <4>1
      <4>3. Root[of] = Root[journal[of].of]
        BY <1>1, <1>14, <2>1, <3>1
      <4> QED BY <1>19, <4>2, <4>3
    <3>5. of \in ActiveRefunds(c)
      BY <2>1, <3>3, <3>4 DEF ActiveRefunds
    <3>6. ActiveRefunds(c)' = ActiveRefunds(c) \ {of}
      BY <1>1, <1>2, <1>10, <1>16, <1>19 DEF ActiveRefunds, Is
    <3>7. journal[of].legs[k] = UnitsOf(of) /\ UnitsOf(of) \in Nat
      BY <1>5, <2>1, <3>3, <3>4, RefundRead DEF AInv
    <3>8. Refunded(c)' = R - UnitsOf(of)
      <4>1. PICK F, G : F = UnitsColumn /\ G = UnitsColumn'
        OBVIOUS
      <4> DEFINE S == ActiveRefunds(c) \ {of}
      <4>2. /\ Summable(F, ActiveRefunds(c)) /\ Total(F, ActiveRefunds(c)) = R
            /\ F[of] = UnitsOf(of)
        BY <1>8, <3>5, <4>1, RefundsTotal
      <4>3. Total(G, S) = Total(F, S) /\ Total(F, S) \in Nat
        <5>1. S \in SUBSET ActiveRefunds(c)
          OBVIOUS
        <5> HIDE DEF S
        <5> QED BY <4>1, <5>1, RefundsTotal
      <4>4. Total(F, ActiveRefunds(c)) = Total(F, S) + F[of]
        BY <3>5, <4>2, TotalRemoves
      <4>5. Refunded(c)' = Total(G, S)
        BY <1>12, <3>6, <4>1
      <4> HIDE DEF S
      <4> QED BY <3>7, <4>2, <4>3, <4>4, <4>5
    <3>9. Reversed(c)' <=> Reversed(c)
      BY <1>11, <2>6
    <3>10. /\ Refunded(c)' <= u
           /\ Total(Column(k)', Family(c)') = Refunded(c)' - (IF Reversed(c) THEN 0 ELSE u)
      BY <1>8, <2>4, <3>7, <3>8
    <3> QED BY <1>12, <3>9, <3>10
  <2> QED BY <2>5, <2>6
<1> QED BY <1>0, <1>17, <1>18, <1>19 DEF Linked

-----------------------------------------------------------------------------
(* The invariant *)

\* Opening and closing accounts changes none of the sums.
LEMMA SumsStay ==
  ASSUME AInv, IInv', UNCHANGED <<journal, balance>>
  PROVE  AInv'
<1>1. journal' = journal /\ balance' = balance
  OBVIOUS
<1>2. Recorded' = Recorded
  BY <1>1 DEF Recorded
<1>3. PICK f : f = Root
  OBVIOUS
<1>4. Rooted(f) /\ \A g : Rooted(g) => g = f
  BY <1>3 DEF AInv, RootsOK
<1>5. \A g : Rooted(g)' <=> Rooted(g)
  BY <1>1 DEF Rooted
<1>6. Root' = f
  <2>1. PICK k : Rooted(k)' /\ k = CHOOSE j : Rooted(j)'
    BY <1>4, <1>5
  <2>2. Root' = CHOOSE j : Rooted(j)'
    BY DEF Root, Rooted
  <2> QED BY <1>4, <1>5, <2>1, <2>2
<1>7. RootsOK' /\ Root' = Root
  BY <1>3, <1>4, <1>5, <1>6 DEF RootsOK
<1>8. \A x : Family(x)' = Family(x)
  BY <1>2, <1>7 DEF Family
<1>9. \A x : Reversed(x)' <=> Reversed(x)
  BY <1>1, <1>2 DEF Reversed, Is
<1>10. \A x : ActiveRefunds(x)' = ActiveRefunds(x)
  BY <1>1, <1>2, <1>9 DEF ActiveRefunds, Is
<1>11. \A a : Column(a)' = Column(a)
  BY <1>1 DEF Column
<1>12. \A x : UnitsOf(x)' = UnitsOf(x) /\ CardOf(x)' = CardOf(x) /\ CounterOf(x)' = CounterOf(x)
  BY <1>1 DEF UnitsOf, CardOf, CounterOf, Touched
<1>13. UnitsColumn' = UnitsColumn
  BY <1>12 DEF UnitsColumn
<1>14. \A x : TouchesCard(x)' <=> TouchesCard(x)
  BY <1>1 DEF TouchesCard, Touched
<1>15. \A x : (RootOK(x) => RootOK(x)') /\ (RowOK(x) => RowOK(x)')
  <2>1. ASSUME NEW x, RootOK(x) PROVE RootOK(x)'
    BY <1>1, <1>2, <1>7, <1>14, <2>1 DEF RootOK, Is
  <2>2. ASSUME NEW x, RowOK(x) PROVE RowOK(x)'
    BY <1>1, <1>12, <1>14, <2>2 DEF RowOK, Is
  <2> QED BY <2>1, <2>2
<1>16. OpenItems' = OpenItems
  BY <1>1, <1>2, <1>9 DEF OpenItems, Is
<1>17. OpenOK'
  BY <1>1, <1>11, <1>16 DEF AInv, OpenOK
<1>18. ASSUME NEW c, ChargeOK(c) PROVE ChargeOK(c)'
  BY <1>8, <1>9, <1>10, <1>11, <1>12, <1>13, <1>18 DEF ChargeOK, Refunded
<1>19. ASSUME NEW c, EndOK(c) PROVE EndOK(c)'
  BY <1>1, <1>8, <1>9, <1>11, <1>19 DEF EndOK
<1>20. FamiliesOK'
  BY <1>1, <1>2, <1>18, <1>19 DEF AInv, FamiliesOK, Is
<1> QED BY <1>2, <1>7, <1>15, <1>17, <1>20 DEF AInv

\* An event keeps the sums.
LEMMA EventStep ==
  ASSUME JournalAssumption, AInv, IInv', NEW t, NEW event, NEW legs, NEW of, NEW extra,
         Event(t, event, legs, of, extra)
  PROVE  AInv'
<1>0. /\ Linked(event, of) /\ Writes(t, event, legs, of, extra) /\ IInv /\ TypeOK /\ TypeOK'
  BY DEF Event, AInv, IInv
<1>1. /\ Recorded' = Recorded \cup {t} \cup extra
      /\ \A x \in Recorded : journal'[x] = journal[x]
  BY <1>0, RowsAfter
<1>2. IsFiniteSet(Recorded')
  <2>1. IsFiniteSet(Recorded \cup {t})
    BY FS_AddElement DEF AInv
  <2>2. CASE extra = {}
    BY <1>1, <2>1, <2>2
  <2>3. ASSUME NEW n, extra = {n} PROVE IsFiniteSet(Recorded')
    BY <1>1, <2>1, <2>3, FS_AddElement
  <2> QED BY <1>0, <2>2, <2>3 DEF Writes
<1>3. RootsOK'
  BY <1>0, RootStep DEF AInv
<1>4. \A x \in Recorded' : RootOK(x)' /\ RowOK(x)'
  BY RootsStep, RowStep DEF AInv
<1>5. OpenOK'
  BY OpenStep
<1>6. FamiliesOK'
  <2>1. ASSUME NEW c \in Recorded, journal'[c].of = None
        PROVE  IF Is(c, "charge")' THEN ChargeOK(c)' ELSE EndOK(c)'
    <3>1. journal'[c] = journal[c]
      BY <1>1
    <3>2. CASE Is(c, "charge")
      BY <2>1, <3>1, <3>2, ChargeStep DEF Is
    <3>3. CASE ~Is(c, "charge")
      BY <2>1, <3>1, <3>3, EndStep DEF Is
    <3> QED BY <3>2, <3>3
  <2>2. ASSUME NEW c \in Recorded' \ Recorded, journal'[c].of = None
        PROVE  IF Is(c, "charge")' THEN ChargeOK(c)' ELSE EndOK(c)'
    <3>1. CASE Is(c, "charge")'
      <4>1. ChargeOK(c)'
        BY <1>0, <1>4, <3>1, NewCharge
      <4> QED BY <3>1, <4>1
    <3>2. CASE ~Is(c, "charge")'
      <4>1. /\ Family(c)' = {c} /\ ~Reversed(c)'
            /\ \A a \in Accounts : Total(Column(a)', {c}) = journal'[c].legs[a]
        BY <1>0, <2>2, Founded
      <4>2. EndOK(c)'
        BY <4>1 DEF EndOK
      <4> QED BY <3>2, <4>2
    <3> QED BY <3>1, <3>2
  <2> QED BY <2>1, <2>2 DEF FamiliesOK
<1> QED BY <1>2, <1>3, <1>4, <1>5, <1>6 DEF AInv

\* The empty journal.
LEMMA InitSums ==
  ASSUME JournalAssumption, Init
  PROVE  AInv
<1>1. Recorded = {}
  BY DEF Init, Recorded, NoTransaction, Transaction
<1>2. \A t \in TxIds : journal[t].of = None
  BY DEF Init, NoTransaction, Transaction
<1> DEFINE f == [t \in TxIds |-> t]
<1>3. Rooted(f) /\ \A g : Rooted(g) => g = f
  BY <1>2 DEF Rooted
<1>4. RootsOK
  <2>1. PICK k : Rooted(k) /\ k = CHOOSE j : Rooted(j)
    BY <1>3
  <2>2. Root = CHOOSE j : Rooted(j)
    BY DEF Root, Rooted
  <2> QED BY <1>3, <2>1, <2>2 DEF RootsOK
<1>5. OpenOK
  <2>1. OpenItems = {}
    BY <1>1 DEF OpenItems
  <2>2. ASSUME NEW a \in Cards PROVE balance[a] = Total(Column(a), OpenItems)
    <3>1. balance[a] = 0
      BY DEF Init, Cards
    <3>2. Total(Column(a), {}) = 0
      BY TotalOfNone
    <3> QED BY <2>1, <3>1, <3>2
  <2> QED BY <2>2 DEF OpenOK
<1>6. IInv
  BY InitOK
<1>7. IsFiniteSet({})
  BY FS_EmptySet
<1> QED BY <1>1, <1>4, <1>5, <1>6, <1>7 DEF AInv, FamiliesOK

\* Every step keeps the invariant.
LEMMA NextSums ==
  ASSUME JournalAssumption, AInv, [Next]_vars
  PROVE  AInv'
<1>1. CASE Next
  <2>1. IInv'
    BY <1>1, NextOK DEF AInv
  <2>2. SomeEvent \/ UNCHANGED <<journal, balance>>
    BY <1>1, NextIsEvent DEF AInv, IInv
  <2>3. CASE SomeEvent
    BY <2>1, <2>3, EventStep DEF SomeEvent
  <2>4. CASE UNCHANGED <<journal, balance>>
    BY <2>1, <2>4, SumsStay
  <2> QED BY <2>2, <2>3, <2>4
<1>2. CASE UNCHANGED vars
  <2>1. IInv'
    BY <1>2 DEF vars, AInv, IInv, TypeOK, ClosedCardsAreSettled, SourcesAreRecorded,
                ReversedAtMostOnce, RefundsStand, Recorded, Is, Reversed, Active, Cards
  <2> QED BY <1>2, <2>1, SumsStay DEF vars
<1> QED BY <1>1, <1>2

-----------------------------------------------------------------------------
(* What the sums say *)

\* The refunds in force of a reversed charge are none, and those of any add up.
LEMMA RefundsAre ==
  ASSUME JournalAssumption, AInv, NEW c \in Recorded
  PROVE  /\ Refunded(c) \in Nat
         /\ Reversed(c) => Refunded(c) = 0
<1>1. ActiveRefunds(c) \in SUBSET Recorded /\ Recorded \in SUBSET TxIds
  BY DEF ActiveRefunds, Recorded
<1>2. IsFiniteSet(ActiveRefunds(c))
  BY <1>1, FS_Subset DEF AInv
<1>3. \A r \in ActiveRefunds(c) : UnitsColumn[r] \in Nat
  <2>1. ASSUME NEW r \in ActiveRefunds(c) PROVE UnitsColumn[r] \in Nat
    <3>1. Is(r, "refund") /\ journal[r].of = c /\ r \in Recorded
      BY DEF ActiveRefunds
    <3>2. UnitsOf(r) \in Nat
      BY <3>1, RefundRead DEF AInv
    <3> QED BY <1>1, <3>2 DEF UnitsColumn
  <2> QED BY <2>1
<1>4. Refunded(c) \in Nat
  <2>1. PICK F : F = UnitsColumn
    OBVIOUS
  <2>2. Total(F, ActiveRefunds(c)) \in Nat
    BY <1>2, <1>3, <2>1, TotalOfNaturals
  <2> QED BY <2>1, <2>2 DEF Refunded
<1>5. Reversed(c) => Refunded(c) = 0
  <2> SUFFICES ASSUME Reversed(c) PROVE Refunded(c) = 0
    OBVIOUS
  <2>1. ActiveRefunds(c) = {}
    BY DEF ActiveRefunds, AInv, IInv, RefundsStand
  <2>2. Total(UnitsColumn, {}) = 0
    BY TotalOfNone
  <2> QED BY <2>1, <2>2 DEF Refunded
<1> QED BY <1>4, <1>5

\* The sums of the invariant are those of the properties.
LEMMA FamiliesAreSums ==
  ASSUME JournalAssumption, AInv
  PROVE  FamiliesAddUp
<1>1. TypeOK /\ Recorded \in SUBSET TxIds /\ IsFiniteSet(Recorded)
  BY DEF AInv, IInv, Recorded
<1>2. ASSUME NEW a \in Accounts, NEW S \in SUBSET Recorded
      PROVE  Posted(a, S) = Total(Column(a), S)
  <2>1. IsFiniteSet(S) /\ S \in SUBSET TxIds
    BY <1>1, FS_Subset
  <2> QED BY <1>1, <2>1, PostedIsTotal
<1>3. \A t : Family(t) \in SUBSET Recorded
  BY DEF Family
<1>4. ChargesStayCovered
  <2> SUFFICES ASSUME NEW t \in Recorded, Is(t, "charge")
               PROVE  Posted(CardOf(t), Family(t)) \in -UnitsOf(t)..0
    BY DEF ChargesStayCovered
  <2>1. CardOf(t) \in Accounts /\ UnitsOf(t) \in Nat
    BY ChargeAccounts DEF AInv, Cards
  <2>2. journal[t].of = None
    BY <1>1 DEF TypeOK, Is
  <2>3. ChargeOK(t)
    BY <2>2 DEF AInv, FamiliesOK
  <2>4. Posted(CardOf(t), Family(t)) = Total(Column(CardOf(t)), Family(t))
    BY <1>2, <1>3, <2>1
  <2>5. Refunded(t) \in Nat /\ (Reversed(t) => Refunded(t) = 0)
    BY RefundsAre
  <2>6. CASE Reversed(t)
    <3>1. Total(Column(CardOf(t)), Family(t)) = 0
      BY <2>3, <2>5, <2>6 DEF ChargeOK
    <3> QED BY <2>1, <2>4, <3>1
  <2>7. CASE ~Reversed(t)
    <3>1. /\ Total(Column(CardOf(t)), Family(t)) = Refunded(t) - UnitsOf(t)
          /\ Refunded(t) <= UnitsOf(t)
      BY <2>3, <2>7 DEF ChargeOK
    <3> QED BY <2>1, <2>4, <2>5, <3>1
  <2> QED BY <2>6, <2>7
<1>5. CardsAreOpenItems
  <2> SUFFICES ASSUME NEW a \in Cards
               PROVE  balance[a] = Posted(a, OpenItems)
    BY DEF CardsAreOpenItems, OpenItems
  <2>1. OpenItems \in SUBSET Recorded /\ a \in Accounts
    BY DEF OpenItems, Cards
  <2>2. Posted(a, OpenItems) = Total(Column(a), OpenItems)
    BY <1>2, <2>1
  <2> QED BY <2>2 DEF AInv, OpenOK
<1>6. CountsOnceOrNot
  <2> SUFFICES ASSUME NEW t \in Recorded, journal[t].of = None, ~Is(t, "charge")
               PROVE  \/ \A a \in Accounts : Posted(a, Family(t)) = 0
                      \/ \A a \in Accounts : Posted(a, Family(t)) = journal[t].legs[a]
    BY DEF CountsOnceOrNot
  <2>1. EndOK(t)
    BY DEF AInv, FamiliesOK
  <2>2. \A a \in Accounts : Posted(a, Family(t)) = Total(Column(a), Family(t))
    BY <1>2, <1>3
  <2> QED BY <2>1, <2>2 DEF EndOK
<1> QED BY <1>4, <1>5, <1>6 DEF FamiliesAddUp

-----------------------------------------------------------------------------
(* What the triggers ask *)

\* What the database asks of a row, as TriggersAccept puts it.
Accepted(row) ==
    /\ BalancedRow(row)
    /\ row.event \in {"charge", "fee", "payment", "refund"} => TypedRow(row)
    /\ row.event = "reversed" => ReversalRow(row)

\* An event that the checks let through is a row the triggers accept.
LEMMA MeantIsAccepted ==
  ASSUME JournalAssumption, AInv, NEW event \in Events, NEW legs, NEW of,
         Linked(event, of), Meant(event, legs, of),
         NEW row, row.event = event, row.legs = legs, row.of = of
  PROVE  Accepted(row)
<1>1. BalancedRow(row)
  BY EvenIsBalanced DEF Meant
<1>2. ASSUME NEW k \in Cards, NEW c \in Accounts \ Cards, NEW u \in Nat \ {0},
             legs = Transfer(k, c, u) \/ legs = Transfer(c, k, u)
      PROVE  (IF legs[k] < 0 THEN -legs[k] ELSE legs[k]) = u
  <2>1. legs[k] = u \/ legs[k] = -u
    BY <1>2, CardTransfer
  <2> QED BY <2>1
<1>3. CASE event \in {"charge", "fee"}
  <2>1. PICK k \in Cards, c \in Accounts \ Cards, u \in Nat \ {0} :
          Kind[c] = "expense" /\ legs = Transfer(c, k, u)
    BY <1>3 DEF Meant, SpendingLegs
  <2>2. (IF row.legs[k] < 0 THEN -row.legs[k] ELSE row.legs[k]) = u
    BY <1>2, <2>1
  <2>3. row.event \in {"charge", "fee"} /\ row.event # "payment" /\ row.event # "refund"
    BY <1>3
  <2>4. TypedRow(row)
    BY <2>1, <2>2, <2>3 DEF TypedRow
  <2> QED BY <1>1, <2>3, <2>4 DEF Accepted
<1>4. CASE event = "payment"
  <2>1. PICK k \in Cards, c \in Accounts \ Cards, u \in Nat \ {0} :
          Kind[c] = "asset" /\ legs = Transfer(k, c, u)
    BY <1>4 DEF Meant, PaymentLegs
  <2>2. (IF row.legs[k] < 0 THEN -row.legs[k] ELSE row.legs[k]) = u
    BY <1>2, <2>1
  <2>3. TypedRow(row)
    BY <1>4, <2>1, <2>2 DEF TypedRow
  <2> QED BY <1>1, <1>4, <2>3 DEF Accepted
<1>5. CASE event = "refund"
  <2>1. of \in Recorded /\ Is(of, "charge") /\ ~Reversed(of)
    BY <1>5 DEF Linked
  <2>2. /\ CardOf(of) \in Cards /\ CounterOf(of) \in Accounts \ Cards
        /\ Kind[CounterOf(of)] = "expense"
    BY <2>1, ChargeAccounts DEF AInv
  <2>3. PICK u \in Nat \ {0} :
          legs = Transfer(CardOf(of), CounterOf(of), u) /\ RefundFits(of, u)
    BY <1>5 DEF Meant
  <2>4. (IF row.legs[CardOf(of)] < 0 THEN -row.legs[CardOf(of)] ELSE row.legs[CardOf(of)]) = u
    BY <1>2, <2>2, <2>3
  <2>5. RefundRow(row, CardOf(of), CounterOf(of), u)
    BY <2>1, <2>3 DEF RefundRow, RefundFits
  <2>6. TypedRow(row)
    BY <1>5, <2>2, <2>3, <2>4, <2>5 DEF TypedRow
  <2> QED BY <1>1, <1>5, <2>6 DEF Accepted
<1>6. CASE event = "reversed"
  <2>1. ReversalRow(row)
    BY <1>6 DEF ReversalRow, Linked, Meant
  <2> QED BY <1>1, <1>6, <2>1 DEF Accepted
<1>7. CASE event = "posted"
  BY <1>1, <1>7 DEF Accepted
<1> QED BY <1>3, <1>4, <1>5, <1>6, <1>7 DEF Events

\* Whatever a step records, the triggers accept.
LEMMA RowsAreAccepted ==
  ASSUME JournalAssumption, AInv, [Next]_vars
  PROVE  \A t \in Recorded' \ Recorded : Accepted(journal'[t])
<1>1. CASE UNCHANGED journal
  BY <1>1 DEF Recorded
<1>2. ASSUME NEW t, NEW event, NEW legs, NEW of, NEW extra, Event(t, event, legs, of, extra)
      PROVE  \A x \in Recorded' \ Recorded : Accepted(journal'[x])
  <2>1. /\ Linked(event, of) /\ Meant(event, legs, of) /\ Writes(t, event, legs, of, extra)
        /\ TypeOK
    BY <1>2 DEF Event, AInv, IInv
  <2>2. /\ Recorded' = Recorded \cup {t} \cup extra
        /\ journal'[t].event = event /\ journal'[t].of = of /\ journal'[t].legs = legs
        /\ \A x \in extra : journal'[x].event = "posted" /\ journal'[x].of = None
    BY <2>1, RowsAfter
  <2>3. Accepted(journal'[t])
    <3>1. PICK row : row = journal'[t]
      OBVIOUS
    <3>2. event \in Events
      BY <2>1 DEF Writes
    <3>3. Accepted(row)
      BY <2>1, <2>2, <3>1, <3>2, MeantIsAccepted
    <3> QED BY <3>1, <3>3
  <2>4. ASSUME NEW x \in extra PROVE Accepted(journal'[x])
    <3>1. PICK row : row = journal'[x]
      OBVIOUS
    <3>2. Even(row.legs) /\ row.event = "posted"
      BY <2>1, <2>2, <3>1 DEF Writes
    <3>3. Accepted(row)
      BY <3>2, EvenIsBalanced DEF Accepted
    <3> QED BY <3>1, <3>3
  <2> QED BY <2>2, <2>3, <2>4
<1>3. CASE Next
  <2>1. SomeEvent \/ UNCHANGED journal
    BY <1>3, NextIsEvent DEF AInv, IInv
  <2> QED BY <1>1, <1>2, <2>1 DEF SomeEvent
<1> QED BY <1>1, <1>3 DEF vars

-----------------------------------------------------------------------------
(* The theorems about sums *)

\* The invariant about sums holds in every behaviour of the journal.
THEOREM SumsInvariance == Spec => []AInv
<1>1. Init => AInv
  BY InitSums, JournalAssumption
<1>2. AInv /\ [Next]_vars => AInv'
  BY NextSums, JournalAssumption
<1> QED BY <1>1, <1>2, PTL DEF Spec

\* Whatever refers back to a transaction adds up with it: a charge stays covered, what is
\* owed on a card is what is in force on it, and a chain of reversals counts once or not
\* at all (_validate_refund_capacity, _load_reversal_source).
THEOREM FamiliesAlwaysAddUp == Spec => []FamiliesAddUp
<1>1. AInv => FamiliesAddUp
  BY FamiliesAreSums, JournalAssumption
<1> QED BY <1>1, SumsInvariance, PTL

\* No command that passed every check of the code fails on a trigger of the tables.
THEOREM TriggersAcceptAll == Spec => TriggersAccept
<1> DEFINE Rows == \A t \in Recorded' \ Recorded : LET row == journal'[t] IN
              /\ BalancedRow(row)
              /\ row.event \in {"charge", "fee", "payment", "refund"} => TypedRow(row)
              /\ row.event = "reversed" => ReversalRow(row)
<1>1. AInv /\ [Next]_vars => [Rows]_vars
  <2> SUFFICES ASSUME AInv, [Next]_vars PROVE Rows
    OBVIOUS
  <2>1. \A t \in Recorded' \ Recorded : Accepted(journal'[t])
    BY RowsAreAccepted, JournalAssumption
  <2> QED BY <2>1 DEF Accepted
<1>2. Spec => [][Rows]_vars
  BY <1>1, SumsInvariance, PTL DEF Spec
<1> QED BY <1>2 DEF TriggersAccept
-----------------------------------------------------------------------------
(* Sums over lots and parts *)

QuantitySum(S) == MapThenSumSet(LAMBDA a : a.quantity, S)
CostSum(S) == MapThenSumSet(LAMBDA a : a.cost, S)
TakenSum(take) == MapThenSumSet(LAMBDA l : take[l], DOMAIN take)

\* The numbers that are added up.
QuantityColumn(S) == [a \in S |-> a.quantity]
CostColumn(S) == [a \in S |-> a.cost]
LeftColumn(p, S) == [l \in S |-> p[l].quantity]

\* A sum is the total of its column.
LEMMA QuantityIsTotal ==
  ASSUME NEW S
  PROVE  QuantitySum(S) = Total(QuantityColumn(S), S)
<1> DEFINE F == QuantityColumn(S)
           Folds(k) == k = [s \in SUBSET S |-> IF s = {} THEN 0
                                               ELSE (CHOOSE x \in s : TRUE).quantity
                                                      + k[s \ {CHOOSE x \in s : TRUE}]]
<1>1. ASSUME NEW s \in SUBSET S, s # {} PROVE F[First(s)] = (CHOOSE x \in s : TRUE).quantity
  BY <1>1, OthersAreFewer DEF QuantityColumn, First
<1> HIDE DEF F
<1>2. ASSUME NEW k PROVE Folds(k) <=> Tallies(k, F, S)
  BY <1>1 DEF Tallies, First, Others
<1>3. QuantitySum(S) = (CHOOSE k : Folds(k))[S]
  BY DEF QuantitySum, MapThenSumSet, MapThenFoldSet
<1> HIDE DEF Folds
<1>4. (CHOOSE k : Folds(k)) = CHOOSE g : Tallies(g, F, S)
  BY <1>2, Zenon
<1> QED BY <1>3, <1>4 DEF Total, F

LEMMA CostIsTotal ==
  ASSUME NEW S
  PROVE  CostSum(S) = Total(CostColumn(S), S)
<1> DEFINE F == CostColumn(S)
           Folds(k) == k = [s \in SUBSET S |-> IF s = {} THEN 0
                                               ELSE (CHOOSE x \in s : TRUE).cost
                                                      + k[s \ {CHOOSE x \in s : TRUE}]]
<1>1. ASSUME NEW s \in SUBSET S, s # {} PROVE F[First(s)] = (CHOOSE x \in s : TRUE).cost
  BY <1>1, OthersAreFewer DEF CostColumn, First
<1> HIDE DEF F
<1>2. ASSUME NEW k PROVE Folds(k) <=> Tallies(k, F, S)
  BY <1>1 DEF Tallies, First, Others
<1>3. CostSum(S) = (CHOOSE k : Folds(k))[S]
  BY DEF CostSum, MapThenSumSet, MapThenFoldSet
<1> HIDE DEF Folds
<1>4. (CHOOSE k : Folds(k)) = CHOOSE g : Tallies(g, F, S)
  BY <1>2, Zenon
<1> QED BY <1>3, <1>4 DEF Total, F

LEMMA LeftIsTotal ==
  ASSUME NEW p, NEW S
  PROVE  QuantityIn(p, S) = Total(LeftColumn(p, S), S)
<1> DEFINE F == LeftColumn(p, S)
           Folds(k) == k = [s \in SUBSET S |-> IF s = {} THEN 0
                                               ELSE p[CHOOSE x \in s : TRUE].quantity
                                                      + k[s \ {CHOOSE x \in s : TRUE}]]
<1>1. ASSUME NEW s \in SUBSET S, s # {} PROVE F[First(s)] = p[CHOOSE x \in s : TRUE].quantity
  BY <1>1, OthersAreFewer DEF LeftColumn, First
<1> HIDE DEF F
<1>2. ASSUME NEW k PROVE Folds(k) <=> Tallies(k, F, S)
  BY <1>1 DEF Tallies, First, Others
<1>3. QuantityIn(p, S) = (CHOOSE k : Folds(k))[S]
  BY DEF QuantityIn, MapThenSumSet, MapThenFoldSet
<1> HIDE DEF Folds
<1>4. (CHOOSE k : Folds(k)) = CHOOSE g : Tallies(g, F, S)
  BY <1>2, Zenon
<1> QED BY <1>3, <1>4 DEF Total, F

LEMMA TakenIsTotal ==
  ASSUME NEW take, NEW S, S = DOMAIN take
  PROVE  TakenSum(take) = Total(take, S)
<1> DEFINE F == take
           Folds(k) == k = [s \in SUBSET S |-> IF s = {} THEN 0
                                               ELSE take[CHOOSE x \in s : TRUE]
                                                      + k[s \ {CHOOSE x \in s : TRUE}]]
<1>1. ASSUME NEW s \in SUBSET S, s # {} PROVE F[First(s)] = take[CHOOSE x \in s : TRUE]
  BY <1>1, OthersAreFewer DEF First
<1> HIDE DEF F
<1>2. ASSUME NEW k PROVE Folds(k) <=> Tallies(k, F, S)
  BY <1>1 DEF Tallies, First, Others
<1>3. TakenSum(take) = (CHOOSE k : Folds(k))[S]
  BY DEF TakenSum, MapThenSumSet, MapThenFoldSet
<1> HIDE DEF Folds
<1>4. (CHOOSE k : Folds(k)) = CHOOSE g : Tallies(g, F, S)
  BY <1>2, Zenon
<1> QED BY <1>3, <1>4 DEF Total, F

\* The whole is no less than a part.
LEMMA TotalGrows ==
  ASSUME NEW F, NEW S, IsFiniteSet(S), \A x \in S : F[x] \in Nat, NEW T \in SUBSET S
  PROVE  /\ Summable(F, S) /\ Total(F, S) \in Nat /\ Summable(F, T) /\ Total(F, T) \in Nat
         /\ Total(F, T) <= Total(F, S)
<1>0. \A U \in SUBSET S : Summable(F, U) /\ Total(F, U) \in Nat
  <2> SUFFICES ASSUME NEW U \in SUBSET S PROVE Summable(F, U) /\ Total(F, U) \in Nat
    OBVIOUS
  <2>1. IsFiniteSet(U) /\ \A x \in U : F[x] \in Nat
    BY FS_Subset
  <2> QED BY <2>1, TotalOfNaturals
<1> DEFINE Bad == {U \in SUBSET S : T \subseteq U /\ ~(Total(F, T) <= Total(F, U))}
<1>1. SUFFICES ASSUME Bad # {} PROVE FALSE
  BY <1>0
<1>2. PICK U \in Bad : \A V \in Bad : V \subseteq U => V = U
  <2>1. Bad \subseteq SUBSET S
    OBVIOUS
  <2> HIDE DEF Bad
  <2> QED BY <1>1, <2>1, SmallestSubset
<1>3. PICK x : x \in U /\ x \notin T
  <2>1. CASE U = T
    BY <1>0, <1>2, <2>1
  <2> QED BY <1>2, <2>1
<1>4. PICK V : V = U \ {x}
  OBVIOUS
<1>5. Total(F, U) = Total(F, V) + F[x]
  BY <1>0, <1>2, <1>3, <1>4, TotalRemoves
<1>6. V \in SUBSET S /\ T \subseteq V /\ V \notin Bad
  BY <1>2, <1>3, <1>4
<1>7. F[x] \in Nat /\ Total(F, V) \in Nat /\ Total(F, T) \in Nat /\ Total(F, T) <= Total(F, V)
  BY <1>0, <1>2, <1>3, <1>6
<1>8. Total(F, T) <= Total(F, U)
  BY <1>5, <1>7
<1> QED BY <1>0, <1>2, <1>8

-----------------------------------------------------------------------------
(* The fold of the log *)

\* The positions after an event, and f the positions after each of the first k events of L.
After(p, e, n) == IF IsPurchase(e) THEN Purchased(p, e, n) ELSE Less(p, e.parts)
Folding(f, L, k) ==
    f = [n \in 0..k |-> IF n = 0 THEN <<>>
                        ELSE IF IsPurchase(L[n]) THEN Purchased(f[n - 1], L[n], n)
                        ELSE Less(f[n - 1], L[n].parts)]

\* The fold event by event.
LEMMA FoldValue ==
  ASSUME NEW f, NEW L, NEW k \in Nat, Folding(f, L, k)
  PROVE  f[0] = <<>> /\ \A n \in 1..k : f[n] = After(f[n - 1], L[n], n)
BY DEF Folding, After

\* Where two logs agree, so do their folds.
SameEvents(L, M, j) == \A n \in 1..j : L[n] = M[n]
LEMMA FoldsAgree ==
  ASSUME NEW f, NEW g, NEW L, NEW M, NEW j \in Nat, NEW k \in Nat, j <= k,
         Folding(f, L, j), Folding(g, M, k), SameEvents(L, M, j)
  PROVE  \A n \in 0..j : f[n] = g[n]
<1>0. \A n \in 1..j : L[n] = M[n]
  BY DEF SameEvents
<1> DEFINE Bad == {n \in 0..j : f[n] # g[n]}
<1>1. SUFFICES ASSUME Bad # {} PROVE FALSE
  OBVIOUS
<1>2. PICK d \in Bad : \A m \in Bad : d <= m
  <2>1. Bad \subseteq Nat
    OBVIOUS
  <2> HIDE DEF Bad
  <2> QED BY <1>1, <2>1, NatLeast
<1>3. f[0] = g[0] /\ \A n \in 1..j : /\ f[n] = After(f[n - 1], L[n], n)
                                     /\ g[n] = After(g[n - 1], L[n], n)
  <2>1. f[0] = <<>> /\ \A n \in 1..j : f[n] = After(f[n - 1], L[n], n)
    BY FoldValue
  <2>2. g[0] = <<>> /\ \A n \in 1..k : g[n] = After(g[n - 1], M[n], n)
    BY FoldValue
  <2>3. \A n \in 1..j : n \in 1..k
    OBVIOUS
  <2> QED BY <1>0, <2>1, <2>2, <2>3
<1>4. d \in 1..j /\ d - 1 \in 0..j /\ d - 1 \notin Bad
  BY <1>2, <1>3
<1>5. f[d - 1] = g[d - 1]
  BY <1>4
<1>6. f[d] = g[d]
  BY <1>3, <1>4, <1>5
<1> QED BY <1>2, <1>6

\* One event more.
LEMMA FoldExtends ==
  ASSUME NEW f, NEW L, NEW M, NEW k \in Nat, Folding(f, L, k), \A n \in 1..k : L[n] = M[n]
  PROVE  \E g : Folding(g, M, k + 1)
<1> DEFINE g == [n \in 0..k + 1 |-> IF n = k + 1 THEN After(f[k], M[k + 1], k + 1) ELSE f[n]]
           h == [n \in 0..k + 1 |-> IF n = 0 THEN <<>>
                        ELSE IF IsPurchase(M[n]) THEN Purchased(g[n - 1], M[n], n)
                        ELSE Less(g[n - 1], M[n].parts)]
<1>1. f[0] = <<>> /\ \A n \in 1..k : f[n] = After(f[n - 1], M[n], n)
  BY FoldValue
<1>2. ASSUME NEW n \in 0..k + 1 PROVE g[n] = h[n]
  <2>1. CASE n = 0
    BY <1>1, <2>1
  <2>2. CASE n \in 1..k
    <3>1. g[n] = f[n] /\ g[n - 1] = f[n - 1] /\ n # 0
      BY <2>2
    <3> HIDE DEF g
    <3>2. h[n] = After(g[n - 1], M[n], n)
      BY <3>1 DEF After
    <3> QED BY <1>1, <2>2, <3>1, <3>2
  <2>3. CASE n = k + 1
    <3>1. g[n] = After(f[k], M[n], n) /\ g[n - 1] = f[k] /\ n # 0
      BY <2>3
    <3> HIDE DEF g
    <3>2. h[n] = After(g[n - 1], M[n], n)
      BY <3>1 DEF After
    <3> QED BY <3>1, <3>2
  <2> QED BY <2>1, <2>2, <2>3
<1>3. g = h
  <2>1. DOMAIN g = DOMAIN h /\ g = [n \in DOMAIN g |-> g[n]] /\ h = [n \in DOMAIN h |-> h[n]]
    OBVIOUS
  <2>2. \A n \in DOMAIN g : g[n] = h[n]
    BY <1>2
  <2> HIDE DEF g, h
  <2> QED BY <2>1, <2>2
<1>4. Folding(g, M, k + 1)
  BY <1>3 DEF Folding
<1> QED BY <1>4

\* What is kept and what is added when the log grows by an event.
LEMMA PositionsAfter ==
  ASSUME NEW S, log \in Seq(S), Folding(Positions, log, Len(log)), NEW e \in S,
         log' = Append(log, e)
  PROVE  /\ log' \in Seq(S) /\ Len(log') = Len(log) + 1 /\ log'[Len(log) + 1] = e
         /\ \A n \in DOMAIN log : log'[n] = log[n] /\ n \in DOMAIN log'
         /\ DOMAIN log' = DOMAIN log \cup {Len(log) + 1} /\ DOMAIN log = 1..Len(log)
         /\ Folding(Positions, log, Len(log))'
         /\ \A n \in 0..Len(log) : Positions'[n] = Positions[n]
         /\ Position' = After(Position, e, Len(log) + 1)
<1>1. /\ log' \in Seq(S) /\ Len(log') = Len(log) + 1 /\ log'[Len(log) + 1] = e
      /\ \A n \in DOMAIN log : log'[n] = log[n] /\ n \in DOMAIN log'
      /\ DOMAIN log' = DOMAIN log \cup {Len(log) + 1} /\ DOMAIN log = 1..Len(log)
      /\ Len(log) \in Nat
  OBVIOUS
<1>2. Positions = CHOOSE f : Folding(f, log, Len(log))
  BY DEF Positions, Folding
<1>3. Positions' = CHOOSE f : Folding(f, log', Len(log'))
  BY DEF Positions, Folding
<1>4. PICK w : Folding(w, log', Len(log'))
  BY <1>1, FoldExtends
<1>5. Folding(Positions', log', Len(log'))
  BY <1>3, <1>4
<1>6. PICK f, g, L, M, j, k : /\ f = Positions /\ g = Positions' /\ L = log /\ M = log'
                              /\ j = Len(log) /\ k = Len(log')
  OBVIOUS
<1>7. /\ Folding(f, L, j) /\ Folding(g, M, k) /\ j \in Nat /\ k \in Nat /\ k = j + 1 /\ j <= k
      /\ \A n \in 1..j : L[n] = M[n]
  BY <1>1, <1>5, <1>6
<1>8. \A n \in 0..j : f[n] = g[n]
  <2>1. SameEvents(L, M, j)
    BY <1>7 DEF SameEvents
  <2> QED BY <1>7, <2>1, FoldsAgree
<1>9. g[k] = After(g[k - 1], M[k], k)
  BY <1>7, FoldValue
<1>10. Position' = After(Position, e, Len(log) + 1)
  BY <1>1, <1>6, <1>7, <1>8, <1>9 DEF Position
<1>11. Folding(Positions, log, Len(log))'
  BY <1>5 DEF Folding
<1> QED BY <1>1, <1>6, <1>8, <1>10, <1>11

\* Before the first event.
LEMMA PositionsAtFirst ==
  ASSUME log = <<>>
  PROVE  Folding(Positions, log, Len(log)) /\ Position = <<>>
<1> DEFINE g == [n \in 0..0 |-> <<>>]
<1>1. Len(log) = 0
  OBVIOUS
<1>2. Folding(g, log, 0)
  BY DEF Folding
<1>3. Positions = CHOOSE f : Folding(f, log, Len(log))
  BY DEF Positions, Folding
<1>4. Folding(Positions, log, Len(log))
  BY <1>1, <1>2, <1>3
<1> QED BY <1>1, <1>4, FoldValue DEF Position

-----------------------------------------------------------------------------
(* One lot *)

PositionRecords == [pool : Pools, at : Dates, position : Nat, quantity : Nat, cost : Nat]
RowRecords == [pool : Pools, quantity : Nat, cost : Nat, position : Nat]
Drift(x, b) == x.cost * b.quantity - b.cost * x.quantity

\* x is the position and y the row of a lot bought as b of which the parts S were sold.
\* What is left to divide is kept exact by the drift: each part adds less than one unit of
\* cost times the quantity bought.
LotOK(x, y, b, S) ==
    /\ x \in PositionRecords /\ y \in RowRecords
    /\ b.quantity \in Nat \ {0} /\ b.cost \in Nat \ {0}
    /\ IsFiniteSet(S) /\ \A a \in S : a.quantity \in Nat /\ a.cost \in Nat
    /\ x.at = b.at /\ x.pool = y.pool /\ x.quantity = y.quantity /\ x.cost = y.cost
    /\ x.quantity = 0 <=> x.cost = 0
    /\ x.quantity <= b.quantity
    /\ x.quantity + QuantitySum(S) = b.quantity
    /\ x.cost + CostSum(S) = b.cost
    /\ Drift(x, b) \in 0..(Cardinality(S) * (b.quantity - 1))

\* Products in order.
LEMMA TimesLe ==
  ASSUME NEW a \in Int, NEW b \in Int, a <= b, NEW c \in Nat
  PROVE  a * c <= b * c
OBVIOUS

LEMMA OneMore ==
  ASSUME NEW a \in Nat, NEW c \in Nat
  PROVE  a * c \in Nat /\ (a + 1) * c = a * c + c
OBVIOUS

\* A part of k whose cost f is rounded down leaves the drift where it may be: q and c remain
\* of the lot bought as Q and C.
LEMMA DriftOfPart ==
  ASSUME NEW Q \in Nat, NEW C \in Nat, NEW q \in Nat, NEW c \in Nat, NEW k \in Nat, NEW f \in Int,
         k < q, q <= Q, f * q <= c * k, c * k <= f * q + (q - 1),
         NEW m \in Nat, c * Q - C * q \in 0..m
  PROVE  (c - f) * Q - C * (q - k) \in 0..(m + (Q - 1))
<1> DEFINE d == c * Q - C * q
           e == (c - f) * Q - C * (q - k)
<1>1. d \in Int /\ e \in Int /\ e = d - f * Q + C * k /\ d >= 0 /\ d <= m
  OBVIOUS
<1>2. q * e = q * d - (f * q) * Q + (C * q) * k
  BY <1>1
<1>3. (C * q) * k = (c * k) * Q - d * k
  OBVIOUS
<1>4. (f * q) * Q <= (c * k) * Q /\ (c * k) * Q <= (f * q + (q - 1)) * Q
  BY TimesLe
<1>5. (f * q + (q - 1)) * Q = (f * q) * Q + (q - 1) * Q
  OBVIOUS
<1>6. d * k <= d * q /\ d * k >= 0
  BY <1>1, TimesLe
<1>7. q * e >= 0
  BY <1>1, <1>2, <1>3, <1>4, <1>6
<1>8. e >= 0
  BY <1>1, <1>7
<1>9. q * e <= q * d + (q - 1) * Q
  BY <1>1, <1>2, <1>3, <1>4, <1>5, <1>6
<1>10. (q - 1) * Q <= q * (Q - 1)
  OBVIOUS
<1>11. q * e <= q * (d + (Q - 1))
  BY <1>1, <1>9, <1>10
<1>12. e <= d + (Q - 1)
  BY <1>1, <1>11
<1> QED BY <1>1, <1>8, <1>12

\* What a part of a cost rounded down is.
LEMMA FloorIs ==
  ASSUME NEW n \in Nat, NEW q \in Nat, q > 0, NEW f, f = n \div q
  PROVE  f \in Int /\ f * q <= n /\ n <= f * q + (q - 1)
OBVIOUS

\* A part more: its quantity and its cost are added to what was sold.
LEMMA PartAdds ==
  ASSUME NEW S, IsFiniteSet(S), \A a \in S : a.quantity \in Nat /\ a.cost \in Nat,
         NEW a, a \notin S, a.quantity \in Nat, a.cost \in Nat, NEW T, T = S \cup {a}
  PROVE  /\ IsFiniteSet(T) /\ \A z \in T : z.quantity \in Nat /\ z.cost \in Nat
         /\ QuantitySum(S) \in Nat /\ QuantitySum(T) = QuantitySum(S) + a.quantity
         /\ CostSum(S) \in Nat /\ CostSum(T) = CostSum(S) + a.cost
         /\ Cardinality(S) \in Nat /\ Cardinality(T) = Cardinality(S) + 1
<1>1. /\ IsFiniteSet(T) /\ Cardinality(T) = Cardinality(S) + 1 /\ Cardinality(S) \in Nat
      /\ \A z \in T : z.quantity \in Nat /\ z.cost \in Nat
  BY FS_AddElement, FS_CardinalityType
<1>2. PICK F, G, H, K : /\ F = QuantityColumn(S) /\ G = QuantityColumn(T)
                        /\ H = CostColumn(S) /\ K = CostColumn(T)
  OBVIOUS
<1>3. /\ QuantitySum(S) = Total(F, S) /\ QuantitySum(T) = Total(G, T)
      /\ CostSum(S) = Total(H, S) /\ CostSum(T) = Total(K, T)
  BY <1>2, QuantityIsTotal, CostIsTotal
<1>4. /\ \A z \in S : F[z] \in Nat /\ F[z] = G[z]
      /\ G[a] = a.quantity
  BY <1>2 DEF QuantityColumn
<1>5. /\ \A z \in S : H[z] \in Nat /\ H[z] = K[z]
      /\ K[a] = a.cost
  BY <1>2 DEF CostColumn
<1>6. Summable(F, S) /\ Total(F, S) \in Nat /\ Summable(H, S) /\ Total(H, S) \in Nat
  BY <1>4, <1>5, TotalOfNaturals
<1>7. Summable(G, S) /\ Total(F, S) = Total(G, S)
  BY <1>4, <1>6, TotalAgrees
<1>8. Summable(K, S) /\ Total(H, S) = Total(K, S)
  BY <1>5, <1>6, TotalAgrees
<1>9. Total(G, T) = Total(G, S) + a.quantity
  BY <1>4, <1>7, TotalAdds
<1>10. Total(K, T) = Total(K, S) + a.cost
  BY <1>5, <1>8, TotalAdds
<1> QED BY <1>1, <1>3, <1>6, <1>7, <1>8, <1>9, <1>10

\* A sale takes the part a from a lot.
LEMMA PartTaken ==
  ASSUME NEW x, NEW y, NEW b, NEW S, LotOK(x, y, b, S),
         NEW k \in Nat, k > 0, k <= x.quantity, NEW f, f = AllocatedCost(x, k), f > 0, f <= x.cost,
         k = x.quantity <=> f = x.cost,
         NEW a, a \notin S, a.quantity = k, a.cost = f, NEW T, T = S \cup {a},
         NEW x2 \in PositionRecords, NEW y2 \in RowRecords,
         x2.at = x.at, x2.pool = x.pool, y2.pool = y.pool,
         x2.quantity = x.quantity - k, x2.cost = x.cost - f,
         y2.quantity = y.quantity - k, y2.cost = y.cost - f
  PROVE  LotOK(x2, y2, b, T)
<1>1. /\ x.quantity \in Nat /\ x.cost \in Nat /\ x.quantity > 0
      /\ x2.quantity \in Nat /\ x2.cost \in Nat
      /\ b.quantity \in Nat /\ b.cost \in Nat /\ x.quantity <= b.quantity
  BY DEF LotOK, PositionRecords
<1>2. PICK Q, C, q, c : Q = b.quantity /\ C = b.cost /\ q = x.quantity /\ c = x.cost
  OBVIOUS
<1>3. Q \in Nat /\ C \in Nat /\ q \in Nat /\ c \in Nat /\ q > 0 /\ q <= Q /\ k <= q
  BY <1>1, <1>2
<1>4. f \in Nat
  <2>1. CASE k = q
    BY <1>2, <1>3, <2>1 DEF AllocatedCost
  <2>2. CASE k # q
    <3>1. c * k \in Nat
      BY <1>3
    <3>2. f = (c * k) \div q
      BY <1>2, <2>2 DEF AllocatedCost
    <3> QED BY <1>3, <3>1, <3>2, FloorIs
  <2> QED BY <2>1, <2>2
<1>5. /\ IsFiniteSet(T) /\ \A z \in T : z.quantity \in Nat /\ z.cost \in Nat
      /\ QuantitySum(T) = QuantitySum(S) + k /\ CostSum(T) = CostSum(S) + f
      /\ QuantitySum(S) \in Nat /\ CostSum(S) \in Nat
      /\ Cardinality(S) \in Nat /\ Cardinality(T) = Cardinality(S) + 1
  <2>1. IsFiniteSet(S) /\ \A z \in S : z.quantity \in Nat /\ z.cost \in Nat
    BY DEF LotOK
  <2>2. a.quantity \in Nat /\ a.cost \in Nat
    BY <1>4
  <2> QED BY <2>1, <2>2, PartAdds
<1>6. PICK N : N = Cardinality(S)
  OBVIOUS
<1>7. N \in Nat /\ Cardinality(T) = N + 1 /\ N * (Q - 1) \in Nat
      /\ (N + 1) * (Q - 1) = N * (Q - 1) + (Q - 1)
  <2>1. PICK m \in Nat : m = Q - 1
    BY <1>3
  <2>2. N \in Nat /\ Cardinality(T) = N + 1
    BY <1>5, <1>6
  <2>3. N * m \in Nat /\ (N + 1) * m = N * m + m
    BY <2>2, OneMore
  <2> QED BY <2>1, <2>2, <2>3
<1>8. c * Q - C * q \in 0..(N * (Q - 1))
  BY <1>2, <1>6 DEF LotOK, Drift
<1>9. (c - f) * Q - C * (q - k) \in 0..((N + 1) * (Q - 1))
  <2>1. CASE k = q
    <3>1. c - f = 0 /\ q - k = 0
      BY <1>2, <1>3, <1>4, <2>1
    <3>2. (N + 1) * (Q - 1) \in Nat
      BY <1>3, <1>7
    <3> QED BY <1>3, <3>1, <3>2
  <2>2. CASE k # q
    <3>1. c * k \in Nat /\ k < q
      BY <1>3, <2>2
    <3>2. f = (c * k) \div q
      BY <1>2, <2>2 DEF AllocatedCost
    <3>3. f * q <= c * k /\ c * k <= f * q + (q - 1)
      BY <1>3, <3>1, <3>2, FloorIs
    <3>4. (c - f) * Q - C * (q - k) \in 0..(N * (Q - 1) + (Q - 1))
      BY <1>3, <1>4, <1>7, <1>8, <3>1, <3>3, DriftOfPart
    <3> QED BY <1>7, <3>4
  <2> QED BY <2>1, <2>2
<1>10. Drift(x2, b) \in 0..(Cardinality(T) * (b.quantity - 1))
  BY <1>2, <1>7, <1>9 DEF Drift
<1>11. /\ x2.quantity = 0 <=> x2.cost = 0
       /\ x2.quantity <= b.quantity
       /\ x2.quantity + QuantitySum(T) = b.quantity
       /\ x2.cost + CostSum(T) = b.cost
  <2>1. x.quantity + QuantitySum(S) = b.quantity /\ x.cost + CostSum(S) = b.cost
    BY DEF LotOK
  <2> QED BY <1>1, <1>2, <1>3, <1>4, <1>5, <2>1
<1>12. /\ x2.at = b.at /\ x2.pool = y2.pool /\ x2.quantity = y2.quantity /\ x2.cost = y2.cost
       /\ b.quantity \in Nat \ {0} /\ b.cost \in Nat \ {0}
  BY DEF LotOK
<1> QED BY <1>5, <1>10, <1>11, <1>12 DEF LotOK

-----------------------------------------------------------------------------
(* The oldest lots *)

\* A finite set has an element before which R puts none, when R is a strict order.
LEMMA FirstOfOrder ==
  ASSUME NEW X, IsFiniteSet(X), X # {}, NEW R, \A a \in X : <<a, a>> \notin R,
         \A a, b, c \in X : <<a, b>> \in R /\ <<b, c>> \in R => <<a, c>> \in R
  PROVE  \E y \in X : \A m \in X : <<m, y>> \notin R
<1> DEFINE Down(y) == {m \in X : m = y \/ <<m, y>> \in R}
           Downs == {Down(y) : y \in X}
<1>1. Downs \subseteq SUBSET X /\ Downs # {}
  <2>1. PICK x \in X : TRUE
    OBVIOUS
  <2>2. Down(x) \in Downs
    BY <2>1
  <2> HIDE DEF Down
  <2>3. \A y \in X : Down(y) \in SUBSET X
    BY DEF Down
  <2> QED BY <2>2, <2>3
<1>2. PICK T \in Downs : \A U \in Downs : U \subseteq T => U = T
  <2> HIDE DEF Downs
  <2> QED BY <1>1, SmallestSubset
<1>3. PICK y \in X : T = Down(y)
  BY <1>2
<1>4. ASSUME NEW m \in X, <<m, y>> \in R PROVE FALSE
  <2>1. Down(m) \subseteq Down(y)
    BY <1>4
  <2>2. Down(m) = Down(y)
    <3>1. Down(m) \in Downs
      BY <1>4
    <3> HIDE DEF Down, Downs
    <3> QED BY <1>2, <1>3, <2>1, <3>1
  <2>3. y \in Down(m)
    BY <2>2
  <2> QED BY <1>4, <2>3
<1> QED BY <1>4

\* Lots that can be put in order.
HeldOK(p, H) ==
    /\ IsFiniteSet(H)
    /\ \A l \in H : p[l].quantity \in Nat \ {0} /\ p[l].at \in Nat /\ p[l].position \in Nat
    /\ \A l, m \in H : p[l].position = p[m].position => l = m
Older(p, H, l) == {m \in H : Before(p[m], p[l])}

\* The order of the lots is total.
LEMMA OrderIsStrict ==
  ASSUME NEW p, NEW H, HeldOK(p, H)
  PROVE  /\ \A l \in H : ~Before(p[l], p[l])
         /\ \A k, l, m \in H : Before(p[k], p[l]) /\ Before(p[l], p[m]) => Before(p[k], p[m])
         /\ \A l, m \in H : l = m \/ Before(p[l], p[m]) \/ Before(p[m], p[l])
BY DEF HeldOK, Before

\* What is left in a lot and in those before it is no more than in those before a later one.
LEMMA OlderSums ==
  ASSUME NEW p, NEW H, HeldOK(p, H), NEW D, D = LeftColumn(p, H)
  PROVE  /\ \A x \in H : D[x] \in Nat \ {0} /\ D[x] = p[x].quantity
         /\ \A U \in SUBSET H : /\ Summable(D, U) /\ Total(D, U) \in Nat /\ IsFiniteSet(U)
                                /\ QuantityIn(p, U) = Total(D, U)
         /\ \A U \in SUBSET H : \A T \in SUBSET U : Total(D, T) <= Total(D, U)
         /\ \A l, m \in H : Before(p[l], p[m]) =>
              Total(D, Older(p, H, l)) + D[l] <= Total(D, Older(p, H, m))
<1>1. \A x \in H : D[x] \in Nat \ {0} /\ D[x] = p[x].quantity
  BY DEF HeldOK, LeftColumn
<1>2. ASSUME NEW U \in SUBSET H
      PROVE  /\ Summable(D, U) /\ Total(D, U) \in Nat /\ IsFiniteSet(U)
             /\ QuantityIn(p, U) = Total(D, U)
  <2>1. IsFiniteSet(U) /\ \A x \in U : D[x] \in Nat
    BY <1>1, FS_Subset DEF HeldOK
  <2>2. Summable(D, U) /\ Total(D, U) \in Nat
    BY <2>1, TotalOfNaturals
  <2>3. \A x \in U : D[x] = LeftColumn(p, U)[x]
    BY DEF LeftColumn
  <2>4. Total(D, U) = Total(LeftColumn(p, U), U)
    BY <2>2, <2>3, TotalAgrees
  <2> QED BY <2>1, <2>2, <2>4, LeftIsTotal
<1>3. ASSUME NEW U \in SUBSET H, NEW T \in SUBSET U PROVE Total(D, T) <= Total(D, U)
  <2>1. IsFiniteSet(U) /\ \A x \in U : D[x] \in Nat
    BY <1>1, <1>2
  <2> QED BY <2>1, TotalGrows
<1>4. ASSUME NEW l \in H, NEW m \in H, Before(p[l], p[m])
      PROVE  Total(D, Older(p, H, l)) + D[l] <= Total(D, Older(p, H, m))
  <2>1. PICK T, U : T = Older(p, H, l) /\ U = Older(p, H, l) \cup {l}
    OBVIOUS
  <2>2. T \in SUBSET H /\ U \in SUBSET H /\ l \notin T /\ U = T \cup {l}
    BY <2>1, OrderIsStrict DEF Older
  <2>3. U \in SUBSET Older(p, H, m) /\ Older(p, H, m) \in SUBSET H
    BY <1>4, <2>1, OrderIsStrict DEF Older
  <2>4. Total(D, U) = Total(D, T) + D[l]
    BY <1>1, <1>2, <2>2, TotalAdds
  <2>5. Total(D, U) <= Total(D, Older(p, H, m))
    BY <1>3, <2>3
  <2> QED BY <2>1, <2>4, <2>5
<1> QED BY <1>1, <1>2, <1>3, <1>4

\* What _select_fifo takes: never more of a lot than it has, all of a lot before another it
\* takes from, and together what was asked.
LEMMA FifoTakes ==
  ASSUME NEW p, NEW pool, NEW H, H = Held(p, pool), HeldOK(p, H),
         NEW quantity \in 1..QuantityIn(p, H), NEW take, take = Fifo(p, pool, quantity)
  PROVE  /\ DOMAIN take \subseteq H
         /\ \A l \in DOMAIN take : take[l] \in Nat \ {0} /\ take[l] <= p[l].quantity
         /\ TakenSum(take) = quantity
         /\ \A m \in DOMAIN take, l \in H : Before(p[l], p[m]) =>
              l \in DOMAIN take /\ take[l] = p[l].quantity
<1>0. PICK D : D = LeftColumn(p, H)
  OBVIOUS
<1>1. PICK W : W = [l \in H |-> Total(D, Older(p, H, l))]
  OBVIOUS
<1>2. /\ \A x \in H : D[x] \in Nat \ {0} /\ D[x] = p[x].quantity
      /\ \A U \in SUBSET H : /\ Summable(D, U) /\ Total(D, U) \in Nat /\ IsFiniteSet(U)
                             /\ QuantityIn(p, U) = Total(D, U)
      /\ \A U \in SUBSET H : \A T \in SUBSET U : Total(D, T) <= Total(D, U)
  BY <1>0, OlderSums
<1>3. \A l, m \in H : Before(p[l], p[m]) => W[l] + D[l] <= W[m]
  BY <1>0, <1>1, OlderSums
<1>4. \A l \in H : Older(p, H, l) \in SUBSET H /\ W[l] \in Nat
                   /\ W[l] = QuantityIn(p, {m \in H : Before(p[m], p[l])})
  BY <1>1, <1>2 DEF Older
<1>5. quantity \in Nat /\ 0 < quantity /\ quantity <= Total(D, H)
  BY <1>2
<1>6. PICK T : T = {l \in H : W[l] < quantity}
  OBVIOUS
<1>7. DOMAIN take = T /\ \A l \in T :
        take[l] = IF quantity - W[l] < D[l] THEN quantity - W[l] ELSE D[l]
  <2>1. take = [l \in {m \in H : W[m] < quantity} |->
                  IF quantity - W[l] < p[l].quantity THEN quantity - W[l] ELSE p[l].quantity]
    <3> DEFINE older == [l \in H |-> QuantityIn(p, {m \in H : Before(p[m], p[l])})]
    <3>1. take = [l \in {m \in H : older[m] < quantity} |->
                  IF quantity - older[l] < p[l].quantity THEN quantity - older[l] ELSE p[l].quantity]
      BY DEF Fifo
    <3>2. older = W
      BY <1>1, <1>4
    <3> HIDE DEF older
    <3> QED BY <3>1, <3>2
  <2> QED BY <1>2, <1>6, <2>1
<1>8. \A l \in T : take[l] \in Nat \ {0} /\ take[l] <= D[l]
  <2> SUFFICES ASSUME NEW l \in T PROVE take[l] \in Nat \ {0} /\ take[l] <= D[l]
    OBVIOUS
  <2>1. PICK w, d : w = W[l] /\ d = D[l]
    OBVIOUS
  <2>2. w \in Nat /\ w < quantity /\ d \in Nat \ {0}
    BY <1>2, <1>4, <1>6, <2>1
  <2>3. take[l] = IF quantity - w < d THEN quantity - w ELSE d
    BY <1>7, <2>1
  <2> QED BY <1>5, <2>1, <2>2, <2>3
<1>9. \A m \in T, l \in H : Before(p[l], p[m]) => l \in T /\ take[l] = D[l]
  <2> SUFFICES ASSUME NEW m \in T, NEW l \in H, Before(p[l], p[m]) PROVE l \in T /\ take[l] = D[l]
    OBVIOUS
  <2>1. W[l] + D[l] <= W[m] /\ W[m] < quantity
    BY <1>3, <1>6
  <2>2. W[l] \in Nat /\ W[m] \in Nat /\ D[l] \in Nat \ {0}
    BY <1>2, <1>4, <1>6
  <2> QED BY <1>5, <1>6, <1>7, <2>1, <2>2
<1>10. PICK R : R = {v \in H \X H : Before(p[v[1]], p[v[2]])}
  OBVIOUS
<1>11. /\ \A a, b \in H : <<a, b>> \in R <=> Before(p[a], p[b])
       /\ \A a \in H : <<a, a>> \notin R
       /\ \A a, b, c \in H : <<a, b>> \in R /\ <<b, c>> \in R => <<a, c>> \in R
       /\ \A a, b \in H : a = b \/ <<a, b>> \in R \/ <<b, a>> \in R
  <2>1. \A a, b \in H : <<a, b>> \in R <=> Before(p[a], p[b])
    BY <1>10
  <2> QED BY <2>1, OrderIsStrict
<1>12. ASSUME NEW U \in SUBSET H, Total(D, U) < quantity PROVE \E y \in T : y \notin U
  <2>1. PICK X : X = H \ U
    OBVIOUS
  <2>2. X # {}
    <3>1. CASE X = {}
      <4>1. U = H
        BY <2>1, <3>1
      <4> QED BY <1>2, <1>5, <1>12, <4>1
    <3> QED BY <3>1
  <2>3. X \in SUBSET H /\ IsFiniteSet(X)
    BY <1>2, <2>1
  <2>4. PICK y \in X : \A m \in X : <<m, y>> \notin R
    BY <1>11, <2>2, <2>3, FirstOfOrder
  <2>5. Older(p, H, y) \in SUBSET U /\ y \in H
    BY <1>11, <2>1, <2>4 DEF Older
  <2>6. W[y] <= Total(D, U)
    BY <1>1, <1>2, <2>5
  <2>7. W[y] \in Nat /\ Total(D, U) \in Nat
    BY <1>2, <1>4, <2>5
  <2>8. W[y] < quantity
    BY <1>5, <1>12, <2>6, <2>7
  <2> QED BY <1>6, <2>1, <2>4, <2>5, <2>8
<1>13. T # {}
  <2>1. Total(D, {}) = 0 /\ {} \in SUBSET H
    BY TotalOfNone
  <2> QED BY <1>5, <1>12, <2>1
<1>14. PICK z \in T : \A m \in T : <<z, m>> \notin R
  <2>1. PICK R2 : R2 = {v \in H \X H : <<v[2], v[1]>> \in R}
    OBVIOUS
  <2>2. \A a, b \in H : <<a, b>> \in R2 <=> <<b, a>> \in R
    BY <2>1
  <2>3. T \in SUBSET H /\ IsFiniteSet(T)
    BY <1>2, <1>6
  <2>4. /\ \A a \in T : <<a, a>> \notin R2
        /\ \A a, b, c \in T : <<a, b>> \in R2 /\ <<b, c>> \in R2 => <<a, c>> \in R2
    BY <1>11, <2>2, <2>3
  <2>5. PICK z \in T : \A m \in T : <<m, z>> \notin R2
    BY <1>13, <2>3, <2>4, FirstOfOrder
  <2> QED BY <2>2, <2>3, <2>5
<1>15. PICK O : O = Older(p, H, z)
  OBVIOUS
<1>16. z \in H /\ T \in SUBSET H /\ z \notin O /\ T = O \cup {z} /\ O \in SUBSET H
  <2>1. z \in H /\ T \in SUBSET H
    BY <1>6
  <2>2. \A m \in H : m \in O <=> <<m, z>> \in R
    BY <1>11, <1>15, <2>1 DEF Older
  <2>3. O \in SUBSET H
    BY <1>15 DEF Older
  <2>4. \A m \in O : m \in T
    BY <1>9, <1>11, <2>1, <2>2, <2>3
  <2>5. \A m \in T : m = z \/ m \in O
    BY <1>11, <1>14, <2>1, <2>2
  <2>6. z \notin O
    BY <1>11, <2>1, <2>2
  <2>7. T = O \cup {z}
    <3>1. \A m : m \in T <=> m \in O \/ m = z
      BY <2>4, <2>5
    <3> QED BY <3>1
  <2> QED BY <2>1, <2>3, <2>6, <2>7
<1>17. Total(D, O) = W[z]
  BY <1>1, <1>15, <1>16
<1>18. take[z] = quantity - W[z]
  <2>1. Total(D, T) = W[z] + D[z]
    BY <1>2, <1>16, <1>17, TotalAdds
  <2>2. ~(Total(D, T) < quantity)
    BY <1>12, <1>16
  <2>3. W[z] \in Nat /\ D[z] \in Nat /\ W[z] < quantity
    BY <1>2, <1>4, <1>6, <1>16
  <2> QED BY <1>5, <1>7, <2>1, <2>2, <2>3
<1>19. TakenSum(take) = quantity
  <2>1. \A m \in O : D[m] = take[m]
    BY <1>9, <1>11, <1>15, <1>16 DEF Older
  <2>2. Summable(take, O) /\ Total(take, O) = W[z]
    BY <1>2, <1>16, <1>17, <2>1, TotalAgrees
  <2>3. take[z] \in Int
    BY <1>8
  <2>4. Total(take, T) = Total(take, O) + take[z]
    BY <1>16, <2>2, <2>3, TotalAdds
  <2>5. TakenSum(take) = Total(take, T)
    BY <1>7, TakenIsTotal
  <2>6. W[z] \in Nat
    BY <1>4, <1>16
  <2> QED BY <1>5, <1>18, <2>2, <2>4, <2>5, <2>6
<1>20. T \subseteq H
  BY <1>6
<1> QED BY <1>2, <1>7, <1>8, <1>9, <1>19, <1>20

-----------------------------------------------------------------------------
(* The log, the table and the allocations *)

Purchases == [lot : Lots, pool : Pools, at : Dates, quantity : Quantities, cost : Costs]
SomeParts == UNION {[T -> [quantity : Nat, cost : Nat]] : T \in SUBSET Lots}
LotEvents == Purchases \cup [sale : Sales, pool : Pools, parts : SomeParts]

\* The lots are those bought, each once, and a position says where.
PurchasesOK ==
    /\ DOMAIN lots = DOMAIN Position /\ DOMAIN lots \subseteq Lots
    /\ \A l \in DOMAIN lots :
         /\ Position[l].position \in DOMAIN log
         /\ IsPurchase(log[Position[l].position]) /\ log[Position[l].position].lot = l
    /\ \A n \in DOMAIN log : IsPurchase(log[n]) =>
         log[n].lot \in DOMAIN lots /\ Position[log[n].lot].position = n

\* Every sale could be applied, and the allocations are those of the sales.
SalesOK ==
    /\ \A n \in DOMAIN log :
         ~IsPurchase(log[n]) => Applicable(Positions[n - 1], log[n].pool, log[n].parts)
    /\ \A a \in allocations : a.lot \in DOMAIN lots /\ a.sale \in Sold

LotsOK ==
    \A l \in DOMAIN lots : LotOK(Position[l], lots[l], log[Position[l].position], PartsOf(l))

\* The inductive invariant.
LInv ==
    /\ log \in Seq(LotEvents)
    /\ Folding(Positions, log, Len(log))
    /\ PurchasesOK /\ SalesOK /\ LotsOK

\* The two kinds of events.
LEMMA LotKinds ==
  /\ \A e \in Purchases : IsPurchase(e)
  /\ \A e \in LotEvents : ~IsPurchase(e) => e.sale \in Sales
  /\ \A s, pool, parts : ~IsPurchase([sale |-> s, pool |-> pool, parts |-> parts])
BY DEF Purchases, LotEvents, IsPurchase

\* A lot that was not known has nothing sold.
LEMMA NewLotOK ==
  ASSUME LotsAssumption, NEW pool \in Pools, NEW at \in Dates, NEW q \in Quantities,
         NEW c \in Costs, NEW n \in Nat, NEW b, b.quantity = q, b.cost = c, b.at = at
  PROVE  LotOK([pool |-> pool, at |-> at, position |-> n, quantity |-> q, cost |-> c],
               [pool |-> pool, quantity |-> q, cost |-> c, position |-> n], b, {})
<1>1. q \in Nat \ {0} /\ c \in Nat \ {0}
  BY DEF LotsAssumption
<1>2. QuantitySum({}) = 0 /\ CostSum({}) = 0
  BY QuantityIsTotal, CostIsTotal, TotalOfNone
<1>3. IsFiniteSet({}) /\ Cardinality({}) = 0
  BY FS_EmptySet
<1>4. c * q - c * q \in 0..(0 * (q - 1))
  BY <1>1
<1> QED BY <1>1, <1>2, <1>3, <1>4 DEF LotOK, Drift, PositionRecords, RowRecords

\* A purchase.
LEMMA AcquireKeeps ==
  ASSUME LotsAssumption, LInv, NEW l \in Lots, NEW pool \in Pools, NEW at \in Dates,
         NEW q \in Quantities, NEW c \in Costs, Acquire(l, pool, at, q, c)
  PROVE  LInv'
<1>1. PICK e : e = [lot |-> l, pool |-> pool, at |-> at, quantity |-> q, cost |-> c]
  OBVIOUS
<1>2. e \in Purchases /\ e \in LotEvents /\ IsPurchase(e) /\ e.lot = l
  BY <1>1, LotKinds DEF Purchases, LotEvents
<1>3. log' = Append(log, e) /\ LotAcquired(l, pool, q, c, Len(log'))
  BY <1>1 DEF Acquire
<1>4. PICK N : N = Len(log) + 1
  OBVIOUS
<1>5. /\ log' \in Seq(LotEvents) /\ Len(log') = N /\ log'[N] = e
      /\ \A n \in DOMAIN log : log'[n] = log[n] /\ n \in DOMAIN log'
      /\ DOMAIN log' = DOMAIN log \cup {N} /\ DOMAIN log = 1..(N - 1)
      /\ Folding(Positions, log, Len(log))'
      /\ \A n \in 0..(N - 1) : Positions'[n] = Positions[n]
      /\ Position' = After(Position, e, N)
  <2>1. Len(log) = N - 1
    BY <1>4 DEF LInv
  <2> QED BY <1>2, <1>3, <1>4, <2>1, PositionsAfter DEF LInv
<1>6. N \in Nat /\ N > 0
  BY <1>4 DEF LInv
<1>7. /\ l \notin DOMAIN lots /\ DOMAIN lots' = DOMAIN lots \cup {l}
      /\ lots'[l] = [pool |-> pool, quantity |-> q, cost |-> c, position |-> N]
      /\ \A m \in DOMAIN lots : lots'[m] = lots[m]
      /\ allocations' = allocations
  BY <1>3, <1>5 DEF LotAcquired
<1>8. /\ DOMAIN Position' = DOMAIN Position \cup {l}
      /\ Position'[l] = [pool |-> pool, at |-> at, position |-> N, quantity |-> q, cost |-> c]
      /\ \A m \in DOMAIN Position : m # l => Position'[m] = Position[m]
  BY <1>1, <1>2, <1>5 DEF After, Purchased
<1>9. DOMAIN Position = DOMAIN lots
  BY DEF LInv, PurchasesOK
<1>10. PurchasesOK'
  <2>1. DOMAIN lots' = DOMAIN Position' /\ DOMAIN lots' \subseteq Lots
    BY <1>7, <1>8, <1>9 DEF LInv, PurchasesOK
  <2>2. ASSUME NEW m \in DOMAIN lots'
        PROVE  /\ Position'[m].position \in DOMAIN log'
               /\ IsPurchase(log'[Position'[m].position]) /\ log'[Position'[m].position].lot = m
    <3>1. CASE m = l
      BY <1>2, <1>5, <1>8, <3>1
    <3>2. CASE m # l
      BY <1>5, <1>7, <1>8, <1>9, <3>2 DEF LInv, PurchasesOK
    <3> QED BY <3>1, <3>2
  <2>3. ASSUME NEW n \in DOMAIN log', IsPurchase(log'[n])
        PROVE  log'[n].lot \in DOMAIN lots' /\ Position'[log'[n].lot].position = n
    <3>1. CASE n = N
      BY <1>2, <1>5, <1>7, <1>8, <3>1
    <3>2. CASE n \in DOMAIN log
      <4>1. log[n].lot \in DOMAIN lots /\ Position[log[n].lot].position = n
        BY <1>5, <2>3, <3>2 DEF LInv, PurchasesOK
      <4> QED BY <1>5, <1>7, <1>8, <1>9, <3>2, <4>1
    <3> QED BY <1>5, <3>1, <3>2
  <2> QED BY <2>1, <2>2, <2>3 DEF PurchasesOK, IsPurchase
<1>11. SalesOK'
  <2>1. ASSUME NEW n \in DOMAIN log', ~IsPurchase(log'[n])
        PROVE  Applicable(Positions'[n - 1], log'[n].pool, log'[n].parts)
    <3>1. n \in DOMAIN log /\ n - 1 \in 0..(N - 1)
      BY <1>2, <1>5, <1>6, <2>1
    <3>2. Positions'[n - 1] = Positions[n - 1] /\ log'[n] = log[n]
      BY <1>5, <3>1
    <3> QED BY <2>1, <3>1, <3>2 DEF LInv, SalesOK
  <2>2. \A a \in allocations' : a.lot \in DOMAIN lots' /\ a.sale \in Sold'
    <3>1. Sold \subseteq Sold'
      BY <1>5 DEF Sold, IsPurchase
    <3> QED BY <1>7, <3>1 DEF LInv, SalesOK
  <2> QED BY <2>1, <2>2 DEF SalesOK, IsPurchase, Applicable
<1>12. LotsOK'
  <2>1. ASSUME NEW m \in DOMAIN lots'
        PROVE  LotOK(Position'[m], lots'[m], log'[Position'[m].position], PartsOf(m)')
    <3>1. CASE m = l
      <4>1. PartsOf(l)' = {}
        BY <1>7 DEF LInv, SalesOK, PartsOf
      <4>2. LotOK(Position'[l], lots'[l], log'[N], {})
        BY <1>1, <1>5, <1>6, <1>7, <1>8, NewLotOK
      <4> QED BY <1>8, <3>1, <4>1, <4>2
    <3>2. CASE m # l
      <4>1. m \in DOMAIN lots /\ lots'[m] = lots[m] /\ Position'[m] = Position[m]
        BY <1>7, <1>8, <1>9, <3>2
      <4>2. log'[Position[m].position] = log[Position[m].position]
        BY <1>5, <4>1 DEF LInv, PurchasesOK
      <4>3. PartsOf(m)' = PartsOf(m)
        BY <1>7 DEF PartsOf
      <4> QED BY <4>1, <4>2, <4>3 DEF LInv, LotsOK
    <3> QED BY <3>1, <3>2
  <2> QED BY <2>1 DEF LotsOK
<1> QED BY <1>5, <1>10, <1>11, <1>12 DEF LInv, LotEvents, Purchases, SomeParts

\* What a sale may take of the lots.
TakeOK(p, pool, take) ==
    /\ DOMAIN take \subseteq DOMAIN p
    /\ \A l \in DOMAIN take : /\ p[l].pool = pool
                              /\ take[l] \in Nat \ {0} /\ take[l] <= p[l].quantity

\* A part of a cost is a natural number.
LEMMA AllocatedIsNat ==
  ASSUME NEW x, x.quantity \in Nat, x.cost \in Nat, NEW k \in Nat \ {0}, k <= x.quantity
  PROVE  AllocatedCost(x, k) \in Nat
<1>1. PICK q, c, f : q = x.quantity /\ c = x.cost /\ f = AllocatedCost(x, k)
  OBVIOUS
<1>2. CASE k = q
  BY <1>1, <1>2 DEF AllocatedCost
<1>3. CASE k # q
  <2>1. c * k \in Nat /\ q \in Nat /\ q > 0
    BY <1>1
  <2>2. f = (c * k) \div q
    BY <1>1, <1>3 DEF AllocatedCost
  <2>3. f \in Nat
    BY <2>1, <2>2
  <2> QED BY <1>1, <2>3
<1> QED BY <1>2, <1>3

\* x2 and y2 are what a sale makes of a position x and a row y.
Lessened(x, y, k, f, n, x2, y2) ==
    /\ x2 = [x EXCEPT !.quantity = @ - k, !.cost = @ - f]
    /\ y2 = [y EXCEPT !.quantity = @ - k, !.cost = @ - f, !.position = n]

\* What a sale does to a lot it takes from.
LEMMA LessOf ==
  ASSUME NEW x \in PositionRecords, NEW y \in RowRecords, NEW k \in Nat, NEW f \in Nat,
         k <= x.quantity, f <= x.cost, k <= y.quantity, f <= y.cost, NEW n \in Nat,
         NEW x2, NEW y2, Lessened(x, y, k, f, n, x2, y2)
  PROVE  /\ x2 \in PositionRecords /\ y2 \in RowRecords
         /\ x2.at = x.at /\ x2.pool = x.pool /\ x2.position = x.position /\ y2.pool = y.pool
         /\ x2.quantity = x.quantity - k /\ x2.cost = x.cost - f
         /\ y2.quantity = y.quantity - k /\ y2.cost = y.cost - f
<1>1. PICK q, c, q2, c2 : /\ q = x.quantity - k /\ c = x.cost - f
                          /\ q2 = y.quantity - k /\ c2 = y.cost - f
  OBVIOUS
<1>2. q \in Nat /\ c \in Nat /\ q2 \in Nat /\ c2 \in Nat
  BY <1>1 DEF PositionRecords, RowRecords
<1>3. PICK u : u = [x EXCEPT !.quantity = q]
  OBVIOUS
<1>4. u \in PositionRecords /\ u.cost = x.cost /\ u.quantity = q /\ u.at = x.at
      /\ u.pool = x.pool /\ u.position = x.position
  BY <1>2, <1>3 DEF PositionRecords
<1>5. x2 = [u EXCEPT !.cost = c]
  BY <1>1, <1>3 DEF PositionRecords, Lessened
<1>6. /\ x2 \in PositionRecords /\ x2.at = x.at /\ x2.pool = x.pool
      /\ x2.position = x.position /\ x2.quantity = q /\ x2.cost = c
  BY <1>2, <1>4, <1>5 DEF PositionRecords
<1>7. PICK v : v = [y EXCEPT !.quantity = q2]
  OBVIOUS
<1>8. v \in RowRecords /\ v.cost = y.cost /\ v.quantity = q2 /\ v.pool = y.pool
  BY <1>2, <1>7 DEF RowRecords
<1>9. PICK w : w = [v EXCEPT !.cost = c2]
  OBVIOUS
<1>10. w \in RowRecords /\ w.cost = c2 /\ w.quantity = q2 /\ w.pool = y.pool
  BY <1>2, <1>8, <1>9 DEF RowRecords
<1>11. y2 = [w EXCEPT !.position = n]
  BY <1>1, <1>7, <1>9 DEF RowRecords, Lessened
<1>12. y2 \in RowRecords /\ y2.cost = c2 /\ y2.quantity = q2 /\ y2.pool = y.pool
  BY <1>10, <1>11 DEF RowRecords
<1> QED BY <1>1, <1>6, <1>12

\* A sale.
LEMMA DisposeKeeps ==
  ASSUME LotsAssumption, LInv, NEW s \in Sales, NEW pool \in Pools, NEW take,
         TakeOK(Position, pool, take), Dispose(Position, s, pool, take)
  PROVE  LInv'
<1>1. PICK parts : parts = [l \in DOMAIN take |->
        [quantity |-> take[l], cost |-> AllocatedCost(Position[l], take[l])]]
  OBVIOUS
<1>2. PICK e : e = [sale |-> s, pool |-> pool, parts |-> parts]
  OBVIOUS
<1>3. /\ s \notin Sold /\ \A l \in DOMAIN parts : parts[l].cost > 0
      /\ log' = Append(log, e) /\ LotDisposed(s, pool, parts, Len(log'))
  BY <1>1, <1>2 DEF Dispose
<1>4. /\ DOMAIN Position = DOMAIN lots /\ DOMAIN lots \subseteq Lots
      /\ \A l \in DOMAIN lots : LotOK(Position[l], lots[l], log[Position[l].position], PartsOf(l))
  BY DEF LInv, PurchasesOK, LotsOK
<1>5. \A l \in DOMAIN lots : /\ Position[l] \in PositionRecords /\ lots[l] \in RowRecords
                             /\ lots[l].quantity = Position[l].quantity
                             /\ lots[l].cost = Position[l].cost
                             /\ lots[l].pool = Position[l].pool
  BY <1>4 DEF LotOK
<1>6. DOMAIN parts = DOMAIN take /\ DOMAIN parts \subseteq DOMAIN lots
  BY <1>1, <1>4 DEF TakeOK
<1>7. ASSUME NEW l \in DOMAIN parts
      PROVE  /\ parts[l] = [quantity |-> take[l], cost |-> AllocatedCost(Position[l], take[l])]
             /\ take[l] \in Nat \ {0} /\ take[l] <= Position[l].quantity
             /\ parts[l].quantity = take[l] /\ parts[l].cost \in Nat /\ parts[l].cost > 0
             /\ parts[l].cost = AllocatedCost(Position[l], take[l])
  <2>1. take[l] \in Nat \ {0} /\ take[l] <= Position[l].quantity
    BY <1>6 DEF TakeOK
  <2>2. Position[l].quantity \in Nat /\ Position[l].cost \in Nat
    BY <1>5, <1>6 DEF PositionRecords
  <2>3. AllocatedCost(Position[l], take[l]) \in Nat
    BY <2>1, <2>2, AllocatedIsNat
  <2>4. parts[l] = [quantity |-> take[l], cost |-> AllocatedCost(Position[l], take[l])]
    BY <1>1, <1>6
  <2> QED BY <1>3, <2>1, <2>3, <2>4
<1>8. e \in LotEvents /\ ~IsPurchase(e) /\ e.sale = s /\ e.pool = pool /\ e.parts = parts
  <2>1. parts \in [DOMAIN parts -> [quantity : Nat, cost : Nat]]
    BY <1>1, <1>6, <1>7
  <2>2. DOMAIN parts \in SUBSET Lots
    BY <1>4, <1>6
  <2>3. parts \in SomeParts
    BY <2>1, <2>2 DEF SomeParts
  <2> QED BY <1>2, <2>3, LotKinds DEF LotEvents
<1>9. PICK N : N = Len(log) + 1
  OBVIOUS
<1>10. /\ log' \in Seq(LotEvents) /\ Len(log') = N /\ log'[N] = e
       /\ \A n \in DOMAIN log : log'[n] = log[n] /\ n \in DOMAIN log'
       /\ DOMAIN log' = DOMAIN log \cup {N} /\ DOMAIN log = 1..(N - 1)
       /\ Folding(Positions, log, Len(log))'
       /\ \A n \in 0..(N - 1) : Positions'[n] = Positions[n]
       /\ Position' = After(Position, e, N) /\ Position = Positions[N - 1]
       /\ N \in Nat /\ N > 0
  <2>1. Len(log) = N - 1 /\ N \in Nat /\ N > 0
    BY <1>9 DEF LInv
  <2> QED BY <1>3, <1>8, <1>9, <2>1, PositionsAfter DEF LInv, Position
<1>11. Applicable(lots, pool, parts) /\ Applicable(Position, pool, parts)
  <2>1. Applicable(lots, pool, parts)
    BY <1>3 DEF LotDisposed
  <2> QED BY <1>4, <1>5, <1>6, <2>1 DEF Applicable
<1>12. /\ DOMAIN lots' = DOMAIN lots
       /\ \A l \in DOMAIN parts : lots'[l] =
            [lots[l] EXCEPT !.quantity = @ - parts[l].quantity, !.cost = @ - parts[l].cost,
                            !.position = N]
       /\ \A l \in DOMAIN lots \ DOMAIN parts : lots'[l] = lots[l]
  BY <1>3, <1>6, <1>10 DEF LotDisposed
<1>13. allocations' = allocations \cup
         {[sale |-> s, lot |-> l, quantity |-> parts[l].quantity, cost |-> parts[l].cost] :
            l \in DOMAIN parts}
  BY <1>3 DEF LotDisposed
<1>14. /\ DOMAIN Position' = DOMAIN Position
       /\ \A l \in DOMAIN parts : Position'[l] =
            [Position[l] EXCEPT !.quantity = @ - parts[l].quantity, !.cost = @ - parts[l].cost]
       /\ \A l \in DOMAIN Position \ DOMAIN parts : Position'[l] = Position[l]
  BY <1>4, <1>6, <1>8, <1>10 DEF After, Less
<1>15. ASSUME NEW l \in DOMAIN parts
       PROVE  /\ LotOK(Position'[l], lots'[l], log[Position[l].position], PartsOf(l)')
              /\ Position'[l].position = Position[l].position
  <2>1. PICK x, y, k, f, x2, y2 :
          /\ x = Position[l] /\ y = lots[l] /\ k = parts[l].quantity /\ f = parts[l].cost
          /\ x2 = Position'[l] /\ y2 = lots'[l]
    OBVIOUS
  <2>2. Lessened(x, y, k, f, N, x2, y2)
    BY <1>12, <1>14, <2>1 DEF Lessened
  <2>3. /\ x \in PositionRecords /\ y \in RowRecords /\ y.quantity = x.quantity /\ y.cost = x.cost
        /\ k \in Nat /\ k > 0 /\ k <= x.quantity /\ f = AllocatedCost(x, k) /\ f \in Nat /\ f > 0
    BY <1>5, <1>6, <1>7, <2>1
  <2>4. f <= x.cost /\ (k = x.quantity <=> f = x.cost)
    BY <1>11, <2>1 DEF Applicable
  <2>5. /\ x2 \in PositionRecords /\ y2 \in RowRecords
        /\ x2.at = x.at /\ x2.pool = x.pool /\ x2.position = x.position /\ y2.pool = y.pool
        /\ x2.quantity = x.quantity - k /\ x2.cost = x.cost - f
        /\ y2.quantity = y.quantity - k /\ y2.cost = y.cost - f
    <3>1. k <= y.quantity /\ f <= y.cost /\ N \in Nat
      BY <1>10, <2>3, <2>4
    <3> QED BY <2>2, <2>3, <2>4, <3>1, LessOf
  <2>6. PICK a : a = [sale |-> s, lot |-> l, quantity |-> k, cost |-> f]
    OBVIOUS
  <2>7. a \notin PartsOf(l) /\ PartsOf(l)' = PartsOf(l) \cup {a} /\ a.quantity = k /\ a.cost = f
    <3>1. a \notin allocations
      BY <1>3, <2>6 DEF LInv, SalesOK
    <3>2. ASSUME NEW z PROVE z \in PartsOf(l)' <=> z \in PartsOf(l) \/ z = a
      BY <1>13, <2>1, <2>6 DEF PartsOf
    <3> QED BY <2>6, <3>1, <3>2 DEF PartsOf
  <2>8. PICK b, S, T : b = log[Position[l].position] /\ S = PartsOf(l) /\ T = PartsOf(l)'
    OBVIOUS
  <2>9. LotOK(x, y, b, S)
    BY <1>4, <1>6, <2>1, <2>8
  <2>10. a \notin S /\ T = S \cup {a}
    BY <2>7, <2>8
  <2>11. LotOK(x2, y2, b, T)
    BY <2>3, <2>4, <2>5, <2>7, <2>9, <2>10, PartTaken
  <2> QED BY <2>1, <2>5, <2>8, <2>11
<1>16. ASSUME NEW l \in DOMAIN lots \ DOMAIN parts
       PROVE  /\ LotOK(Position'[l], lots'[l], log[Position[l].position], PartsOf(l)')
              /\ Position'[l].position = Position[l].position
  <2>1. PartsOf(l)' = PartsOf(l)
    <3>1. ASSUME NEW z PROVE z \in PartsOf(l)' <=> z \in PartsOf(l)
      BY <1>13 DEF PartsOf
    <3> QED BY <3>1 DEF PartsOf
  <2> QED BY <1>4, <1>12, <1>14, <2>1
<1>17. PurchasesOK'
  <2>1. DOMAIN lots' = DOMAIN Position' /\ DOMAIN lots' \subseteq Lots
    BY <1>4, <1>12, <1>14
  <2>2. \A l \in DOMAIN lots' : Position'[l].position = Position[l].position
    BY <1>12, <1>15, <1>16
  <2>3. ASSUME NEW l \in DOMAIN lots'
        PROVE  /\ Position'[l].position \in DOMAIN log'
               /\ IsPurchase(log'[Position'[l].position]) /\ log'[Position'[l].position].lot = l
    <3>1. PICK n : n = Position[l].position /\ n = Position'[l].position
      BY <2>2
    <3>2. n \in DOMAIN log /\ IsPurchase(log[n]) /\ log[n].lot = l
      BY <1>12, <3>1 DEF LInv, PurchasesOK
    <3> QED BY <1>10, <3>1, <3>2
  <2>4. ASSUME NEW n \in DOMAIN log', IsPurchase(log'[n])
        PROVE  log'[n].lot \in DOMAIN lots' /\ Position'[log'[n].lot].position = n
    <3>1. n \in DOMAIN log /\ log'[n] = log[n]
      BY <1>8, <1>10, <2>4
    <3>2. log[n].lot \in DOMAIN lots /\ Position[log[n].lot].position = n
      BY <2>4, <3>1 DEF LInv, PurchasesOK
    <3> QED BY <1>12, <2>2, <3>1, <3>2
  <2> QED BY <2>1, <2>3, <2>4 DEF PurchasesOK, IsPurchase
<1>18. SalesOK'
  <2>1. ASSUME NEW n \in DOMAIN log', ~IsPurchase(log'[n])
        PROVE  Applicable(Positions'[n - 1], log'[n].pool, log'[n].parts)
    <3>1. CASE n = N
      <4>1. Positions'[n - 1] = Position /\ log'[n] = e
        BY <1>10, <3>1
      <4> QED BY <1>8, <1>11, <4>1
    <3>2. CASE n \in DOMAIN log
      <4>1. Positions'[n - 1] = Positions[n - 1] /\ log'[n] = log[n]
        BY <1>10, <3>2
      <4> QED BY <2>1, <3>2, <4>1 DEF LInv, SalesOK
    <3> QED BY <1>10, <3>1, <3>2
  <2>2. \A a \in allocations' : a.lot \in DOMAIN lots' /\ a.sale \in Sold'
    <3>1. Sold \subseteq Sold'
      BY <1>10 DEF Sold, IsPurchase
    <3>2. s \in Sold'
      <4>1. N \in DOMAIN log' /\ ~IsPurchase(log'[N]) /\ log'[N].sale = s
        BY <1>8, <1>10
      <4> QED BY <4>1 DEF Sold, IsPurchase
    <3>3. ASSUME NEW a \in allocations', a \notin allocations
          PROVE  a.lot \in DOMAIN lots /\ a.sale = s
      <4>1. PICK l \in DOMAIN parts :
              a = [sale |-> s, lot |-> l, quantity |-> parts[l].quantity, cost |-> parts[l].cost]
        BY <1>13, <3>3
      <4> QED BY <1>6, <4>1
    <3> QED BY <1>12, <3>1, <3>2, <3>3 DEF LInv, SalesOK
  <2> QED BY <2>1, <2>2 DEF SalesOK, IsPurchase, Applicable
<1>19. LotsOK'
  <2>1. ASSUME NEW l \in DOMAIN lots'
        PROVE  LotOK(Position'[l], lots'[l], log'[Position'[l].position], PartsOf(l)')
    <3>1. /\ LotOK(Position'[l], lots'[l], log[Position[l].position], PartsOf(l)')
          /\ Position'[l].position = Position[l].position /\ l \in DOMAIN lots
      BY <1>12, <1>15, <1>16
    <3>2. log'[Position[l].position] = log[Position[l].position]
      BY <1>10, <3>1 DEF LInv, PurchasesOK
    <3> QED BY <3>1, <3>2
  <2> QED BY <2>1 DEF LotsOK
<1> QED BY <1>10, <1>17, <1>18, <1>19 DEF LInv, LotEvents, Purchases, SomeParts

\* What the fold holds, and that its lots can be put in order.
LEMMA PositionIs ==
  ASSUME LotsAssumption, LInv
  PROVE  /\ \A l \in DOMAIN Position : Position[l] \in PositionRecords
         /\ \A pool : /\ Held(Position, pool) \subseteq DOMAIN Position
                      /\ HeldOK(Position, Held(Position, pool))
                      /\ \A l \in Held(Position, pool) : Position[l].pool = pool
<1>1. \A l \in DOMAIN Position : Position[l] \in PositionRecords
  BY DEF LInv, PurchasesOK, LotsOK, LotOK
<1>2. ASSUME NEW pool
      PROVE  /\ Held(Position, pool) \subseteq DOMAIN Position
             /\ HeldOK(Position, Held(Position, pool))
             /\ \A l \in Held(Position, pool) : Position[l].pool = pool
  <2>1. PICK H, p : H = Held(Position, pool) /\ p = Position
    OBVIOUS
  <2>2. H \subseteq DOMAIN p /\ \A l \in H : p[l].pool = pool /\ p[l].quantity > 0
    BY <2>1 DEF Held
  <2>3. IsFiniteSet(H)
    <3>1. H \subseteq Lots
      BY <2>1, <2>2 DEF LInv, PurchasesOK
    <3> QED BY <3>1, FS_Subset DEF LotsAssumption
  <2>4. \A l \in H : p[l].quantity \in Nat \ {0} /\ p[l].at \in Nat /\ p[l].position \in Nat
    <3> SUFFICES ASSUME NEW l \in H
                 PROVE  p[l].quantity \in Nat \ {0} /\ p[l].at \in Nat /\ p[l].position \in Nat
      OBVIOUS
    <3>1. PICK x : x = p[l]
      OBVIOUS
    <3>2. x \in PositionRecords /\ x.quantity > 0
      BY <1>1, <2>1, <2>2, <3>1
    <3>3. x.quantity \in Nat /\ x.at \in Dates /\ x.position \in Nat
      BY <3>2 DEF PositionRecords
    <3>4. x.at \in Nat
      BY <3>3 DEF LotsAssumption
    <3> QED BY <3>1, <3>2, <3>3, <3>4
  <2>5. \A l, m \in H : p[l].position = p[m].position => l = m
    <3>1. \A l \in H : log[p[l].position].lot = l
      BY <2>1, <2>2 DEF LInv, PurchasesOK
    <3> QED BY <3>1
  <2> QED BY <2>1, <2>2, <2>3, <2>4, <2>5 DEF HeldOK
<1> QED BY <1>1, <1>2

\* A sale of the oldest lots.
LEMMA FifoKeeps ==
  ASSUME LotsAssumption, LInv, NEW s \in Sales, NEW pool \in Pools, DisposeFifo(s, pool)
  PROVE  LInv'
<1>1. PICK p, H : p = Position /\ H = Held(p, pool)
  OBVIOUS
<1>2. PICK quantity \in 1..QuantityIn(p, H) : Dispose(p, s, pool, Fifo(p, pool, quantity))
  BY <1>1 DEF DisposeFifo
<1>3. HeldOK(p, H) /\ H \subseteq DOMAIN p /\ \A l \in H : p[l].pool = pool
  BY <1>1, PositionIs
<1>4. PICK take : take = Fifo(p, pool, quantity)
  OBVIOUS
<1>5. /\ DOMAIN take \subseteq H
      /\ \A l \in DOMAIN take : take[l] \in Nat \ {0} /\ take[l] <= p[l].quantity
  BY <1>1, <1>3, <1>4, FifoTakes
<1>6. TakeOK(Position, pool, take) /\ Dispose(Position, s, pool, take)
  BY <1>1, <1>2, <1>3, <1>4, <1>5 DEF TakeOK
<1> QED BY <1>6, DisposeKeeps

\* A sale of named lots.
LEMMA SpecificKeeps ==
  ASSUME LotsAssumption, LInv, NEW s \in Sales, NEW pool \in Pools, NEW named \in SUBSET Lots,
         DisposeSpecific(s, pool, named)
  PROVE  LInv'
<1>1. PICK p : p = Position
  OBVIOUS
<1>2. PICK k : k = Max({p[l].quantity : l \in named})
  OBVIOUS
<1>3. /\ named \subseteq DOMAIN p /\ \A l \in named : p[l].pool = pool
      /\ \E take \in [named -> 1..k] : /\ \A l \in named : take[l] <= p[l].quantity
                                       /\ Dispose(p, s, pool, take)
  BY <1>1, <1>2 DEF DisposeSpecific
<1>4. PICK take \in [named -> 1..k] : /\ \A l \in named : take[l] <= p[l].quantity
                                      /\ Dispose(p, s, pool, take)
  BY <1>3
<1>5. \A l \in named : take[l] \in Nat \ {0}
  <2>1. \A l \in named : take[l] \in 1..k
    OBVIOUS
  <2>2. \A n : n \in 1..k => n \in Nat \ {0}
    OBVIOUS
  <2> QED BY <2>1, <2>2
<1>6. TakeOK(Position, pool, take)
  BY <1>1, <1>3, <1>4, <1>5 DEF TakeOK
<1> QED BY <1>1, <1>4, <1>6, DisposeKeeps

\* Nothing bought, nothing sold.
LEMMA LotsInitOK ==
  ASSUME LotsInit
  PROVE  LInv
<1>1. log = <<>> /\ lots = <<>> /\ allocations = {}
  BY DEF LotsInit
<1>2. Folding(Positions, log, Len(log)) /\ Position = <<>>
  BY <1>1, PositionsAtFirst
<1>3. DOMAIN log = {} /\ DOMAIN lots = {} /\ DOMAIN Position = {} /\ log \in Seq(LotEvents)
  BY <1>1, <1>2
<1>4. PurchasesOK
  BY <1>3 DEF PurchasesOK
<1>5. SalesOK
  BY <1>1, <1>3 DEF SalesOK
<1>6. LotsOK
  BY <1>3 DEF LotsOK
<1> QED BY <1>2, <1>3, <1>4, <1>5, <1>6 DEF LInv

\* Every step keeps the invariant.
LEMMA LotsNextOK ==
  ASSUME LotsAssumption, LInv, [LotsNext]_lotVars
  PROVE  LInv'
<1>1. ASSUME NEW l \in Lots, NEW pool \in Pools, NEW at \in Dates, NEW q \in Quantities,
             NEW c \in Costs, Acquire(l, pool, at, q, c)
      PROVE  LInv'
  BY <1>1, AcquireKeeps
<1>2. ASSUME NEW s \in Sales, NEW pool \in Pools, DisposeFifo(s, pool) PROVE LInv'
  BY <1>2, FifoKeeps
<1>3. ASSUME NEW s \in Sales, NEW pool \in Pools, NEW named \in SUBSET Lots,
             DisposeSpecific(s, pool, named)
      PROVE  LInv'
  BY <1>3, SpecificKeeps
<1>4. CASE UNCHANGED lotVars
  <2>1. log' = log /\ lots' = lots /\ allocations' = allocations
    BY <1>4 DEF lotVars
  <2>2. Positions' = Positions /\ Position' = Position /\ Sold' = Sold
    BY <2>1 DEF Positions, Position, Sold, IsPurchase, Purchased, Less
  <2>3. \A l : PartsOf(l)' = PartsOf(l)
    BY <2>1 DEF PartsOf
  <2>4. PurchasesOK'
    BY <2>1, <2>2 DEF LInv, PurchasesOK, IsPurchase
  <2>5. SalesOK'
    BY <2>1, <2>2 DEF LInv, SalesOK, IsPurchase, Applicable
  <2>6. LotsOK'
    BY <2>1, <2>2, <2>3 DEF LInv, LotsOK
  <2>7. log' \in Seq(LotEvents) /\ Folding(Positions, log, Len(log))'
    BY <2>1, <2>2 DEF LInv
  <2> QED BY <2>4, <2>5, <2>6, <2>7 DEF LInv, LotEvents, Purchases, SomeParts
<1> QED BY <1>1, <1>2, <1>3, <1>4 DEF LotsNext

\* A lot's purchase is where its position says.
LEMMA PurchaseIs ==
  ASSUME LInv, NEW l \in DOMAIN lots
  PROVE  Purchase(l) = log[Position[l].position]
<1>1. PICK n : n = Position[l].position
  OBVIOUS
<1>2. n \in DOMAIN log /\ IsPurchase(log[n]) /\ log[n].lot = l
  BY <1>1 DEF LInv, PurchasesOK
<1>3. \A m \in DOMAIN log : IsPurchase(log[m]) /\ log[m].lot = l => m = n
  BY <1>1 DEF LInv, PurchasesOK
<1>4. PICK E : E = {log[m] : m \in DOMAIN log}
  OBVIOUS
<1>5. \A e \in E : IsPurchase(e) /\ e.lot = l <=> e = log[n]
  BY <1>2, <1>3, <1>4
<1>6. log[n] \in E
  BY <1>2, <1>4
<1>7. (CHOOSE e \in E : IsPurchase(e) /\ e.lot = l) = log[n]
  BY <1>5, <1>6
<1> QED BY <1>1, <1>4, <1>7 DEF Purchase

\* The table is the fold and its numbers add up.
LEMMA AddingUp ==
  ASSUME LInv
  PROVE  LotsAddUp
<1>1. PICK p : p = Position /\ p = Positions[Len(log)]
  BY DEF Position
<1>2. DOMAIN lots = DOMAIN p
  BY <1>1 DEF LInv, PurchasesOK
<1>3. \A n \in DOMAIN log :
         ~IsPurchase(log[n]) => Applicable(Positions[n - 1], log[n].pool, log[n].parts)
  BY DEF LInv, SalesOK
<1>4. ASSUME NEW l \in DOMAIN lots
      PROVE  /\ lots[l].quantity = p[l].quantity /\ lots[l].cost = p[l].cost
             /\ (lots[l].quantity = 0) = (lots[l].cost = 0)
             /\ lots[l].quantity + MapThenSumSet(LAMBDA a : a.quantity, PartsOf(l))
                  = Purchase(l).quantity
             /\ lots[l].cost + MapThenSumSet(LAMBDA a : a.cost, PartsOf(l)) = Purchase(l).cost
             /\ lots[l].cost * Purchase(l).quantity - Purchase(l).cost * lots[l].quantity
                  \in 0..(Cardinality(PartsOf(l)) * (Purchase(l).quantity - 1))
  <2>1. PICK x, y, b, S : x = p[l] /\ y = lots[l] /\ b = Purchase(l) /\ S = PartsOf(l)
    OBVIOUS
  <2>2. LotOK(x, y, b, S)
    BY <1>1, <2>1, PurchaseIs DEF LInv, LotsOK
  <2>3. /\ y.quantity = x.quantity /\ y.cost = x.cost /\ (x.quantity = 0 <=> x.cost = 0)
        /\ x.quantity + QuantitySum(S) = b.quantity /\ x.cost + CostSum(S) = b.cost
        /\ x.cost * b.quantity - b.cost * x.quantity \in 0..(Cardinality(S) * (b.quantity - 1))
    BY <2>2 DEF LotOK, Drift
  <2>4. /\ MapThenSumSet(LAMBDA a : a.quantity, PartsOf(l)) = QuantitySum(S)
        /\ MapThenSumSet(LAMBDA a : a.cost, PartsOf(l)) = CostSum(S)
    BY <2>1 DEF QuantitySum, CostSum
  <2> QED BY <2>1, <2>3, <2>4
<1> QED BY <1>1, <1>2, <1>3, <1>4 DEF LotsAddUp

\* take is of the amount asked and leaves nothing of an older lot of the pool.
Oldest(p, pool, quantity, take) ==
    /\ MapThenSumSet(LAMBDA l : take[l], DOMAIN take) = quantity
    /\ \A m \in DOMAIN take, l \in Held(p, pool) :
         Purchase(l).at < Purchase(m).at => l \in DOMAIN take /\ take[l] = p[l].quantity

\* The oldest goes first, and a sale is of what was asked.
LEMMA OldestGoes ==
  ASSUME LotsAssumption, LInv
  PROVE  OldestFirst
<1>1. PICK p : p = Position
  OBVIOUS
<1>2. ASSUME NEW pool \in Pools, NEW quantity \in 1..QuantityIn(p, Held(p, pool)),
             NEW take, take = Fifo(p, pool, quantity)
      PROVE  Oldest(p, pool, quantity, take)
  <2>1. PICK H : H = Held(p, pool)
    OBVIOUS
  <2>2. HeldOK(p, H) /\ H \subseteq DOMAIN p
    BY <1>1, <2>1, PositionIs
  <2>3. /\ DOMAIN take \subseteq H /\ TakenSum(take) = quantity
        /\ \A m \in DOMAIN take, l \in H : Before(p[l], p[m]) =>
             l \in DOMAIN take /\ take[l] = p[l].quantity
    BY <1>2, <2>1, <2>2, FifoTakes
  <2>4. \A l \in H : Purchase(l).at = p[l].at
    <3> SUFFICES ASSUME NEW l \in H PROVE Purchase(l).at = p[l].at
      OBVIOUS
    <3>1. l \in DOMAIN lots
      BY <1>1, <2>2 DEF LInv, PurchasesOK
    <3>2. LotOK(p[l], lots[l], Purchase(l), PartsOf(l))
      BY <1>1, <3>1, PurchaseIs DEF LInv, LotsOK
    <3> QED BY <3>2 DEF LotOK
  <2>5. ASSUME NEW m \in DOMAIN take, NEW l \in H, Purchase(l).at < Purchase(m).at
        PROVE  l \in DOMAIN take /\ take[l] = p[l].quantity
    <3>1. p[l].at < p[m].at
      BY <2>3, <2>4, <2>5
    <3> QED BY <2>3, <3>1 DEF Before
  <2>6. MapThenSumSet(LAMBDA l : take[l], DOMAIN take) = quantity
    BY <2>3 DEF TakenSum
  <2> QED BY <2>1, <2>5, <2>6 DEF Oldest
<1>3. \A pool \in Pools : \A quantity \in 1..QuantityIn(p, Held(p, pool)) :
        Oldest(p, pool, quantity, Fifo(p, pool, quantity))
  BY <1>2
<1>4. \A pool \in Pools : \A quantity \in 1..QuantityIn(Position, Held(Position, pool)) :
        Oldest(Position, pool, quantity, Fifo(Position, pool, quantity))
  BY <1>1, <1>3
<1> QED BY <1>4 DEF OldestFirst, Oldest

\* The log, the table and the allocations go together, whatever is bought and sold
\* (reduce_investment_events, the synchronous projection of lots).
THEOREM LotsInvariance == LotsSpec => []LInv
<1>1. LotsInit => LInv
  BY LotsInitOK
<1>2. LInv /\ [LotsNext]_lotVars => LInv'
  BY LotsAssumption, LotsNextOK
<1> QED BY <1>1, <1>2, PTL DEF LotsSpec

\* Cost is neither lost nor made, rounding is bounded, and the oldest lots go first
\* (apply_investment_lot_disposed, _allocated_cost, _select_fifo).
THEOREM SalesAreAlwaysRight == LotsSpec => []SalesAreRight
<1>1. LInv => SalesAreRight
  BY LotsAssumption, AddingUp, OldestGoes DEF SalesAreRight
<1> QED BY <1>1, LotsInvariance, PTL
================================================================================
