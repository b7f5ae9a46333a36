------------------------------ MODULE BookQueries ------------------------------
(***************************************************************************)
(* Reading a Book while others write to it: the journal page by page, the  *)
(* everyday view of its transactions, the balances, and the MCP tool that  *)
(* reads a classification before it changes it.                            *)
(*                                                                         *)
(* A query is several statements of one READ COMMITTED session, and each   *)
(* sees what is committed when it starts: one action per statement whose   *)
(* moment matters.  The writers are one step each, see CommandBus; what    *)
(* they refuse besides is in Journal and EverydayEntry.  The synchronous   *)
(* projection is read as the fold of the events there are, one bank        *)
(* account and one asset.                                                  *)
(*                                                                         *)
(* The operators marked "Mutant" are in no behaviour, see CommandBus.      *)
(***************************************************************************)
EXTENDS Integers, Sequences, FiniteSets, FiniteSetsExt

CONSTANTS
    Entries,          \* transaction ids
    Moments,          \* effective times, in no relation to book positions
    Sizes,            \* amounts
    Categories,
    Wishes,           \* requests of ledger_set_transaction_category
    PageSize,         \* limit of the journal pages
    CarriesPosition,  \* whether the agent sends as_of_book_position with a cursor
    MaxEntered         \* bounds the Book

ASSUME QueriesAssumption ==
    /\ Moments \subseteq Nat /\ Sizes \subseteq Nat \ {0}
    /\ PageSize \in Nat \ {0}
    /\ CarriesPosition \in BOOLEAN
    /\ MaxEntered \in Nat

VARIABLES
    events,    \* the Book: what it was told, in order; a position is an index
    receipts,  \* command_receipts of the tool: the revision a wish expected and wrote
    agent,    \* the statements of the request in progress
    answer     \* what a request is answered, in the state after its last step

bookVars == <<events, receipts, agent, answer>>

Nothing == "nothing"

ASSUME CategoriesAssumption == IsFiniteSet(Categories) /\ Nothing \notin Categories

NoLines == [c \in Categories |-> 0]
NoReceipt == [expected |-> -1, revision |-> 0, entry |-> Nothing, category |-> Nothing]
Idle == [doing |-> "idle"]
NoAnswer == [to |-> "nobody"]
Newest == Len(events)
Silent == answer' = NoAnswer

-----------------------------------------------------------------------------
(* What the tables say of the Book as of position n *)

\* The positions of an entry's events of some types.
At(t, types, n) == {p \in 1..n : events[p].entry = t /\ events[p].type \in types}

Booked == {"expense", "refund", "reversal"}
Classified == {"assigned", "cleared"}

RowsAt(n) == {p \in 1..n : events[p].type \in Booked}
Stands(t) == At(t, Booked, Newest) # {}
PositionOf(t) == CHOOSE p \in At(t, Booked, Newest) : TRUE
BookedAs(t) == events[PositionOf(t)]

\* list_current_reporting_lines: the last assignment, unless cleared since.
LinesAt(t, n) ==
    IF At(t, Classified, n) = {} THEN NoLines ELSE events[Max(At(t, Classified, n))].lines

\* Version of the stream of an entry's reporting lines.
Revision(t) == Cardinality(At(t, Classified, Newest))

\* Mutant: the reversal is looked up among all that is committed.
LatestReversal(t, n) ==
    {events[p].entry : p \in {q \in RowsAt(Newest) : events[q].type = "reversal" /\ events[q].of = t}}

ReversalOf(t, n) ==
    {events[p].entry : p \in {q \in RowsAt(n) : events[q].type = "reversal" /\ events[q].of = t}}

Allotted(lines) == MapThenSumSet(LAMBDA c : lines[c], Categories)

-----------------------------------------------------------------------------
(* The everyday view *)

\* An ordinary expense is recognised by its lines only.
EntryKind(t, lines) ==
    CASE BookedAs(t).type = "expense" -> IF lines = NoLines THEN "unavailable" ELSE "expense"
      [] OTHER -> BookedAs(t).type

\* A refund names its expense in its own event, a reversal its original.
OriginalOf(t) == BookedAs(t).of

InheritsFrom(t) == IF BookedAs(t).type = "expense" THEN t ELSE OriginalOf(t)

\* Mutant: a refund shows the lines of its expense as they are.
RefundAsExpense(lines, units) == lines

\* One line is scaled to the refund, several are shown when they add up to it.
SafeRefund(lines, units) ==
    LET used == {c \in Categories : lines[c] # 0} IN
    CASE Cardinality(used) = 1 -> [c \in Categories |-> IF c \in used THEN units ELSE 0]
      [] Allotted(lines) = units -> lines
      [] OTHER -> NoLines

\* Own lines before inherited ones.
AllocationsAt(t, n) ==
    LET own == LinesAt(t, n)
        inherited == LinesAt(InheritsFrom(t), n)
    IN IF own # NoLines THEN own
       ELSE CASE BookedAs(t).type = "refund" -> SafeRefund(inherited, BookedAs(t).units)
              [] BookedAs(t).type = "reversal" -> inherited
              [] OTHER -> NoLines

\* _build_view of an item as of position n.
View(t, n) ==
    [entry |-> t,
     kind |-> EntryKind(t, LinesAt(t, n)),
     reversed |-> ReversalOf(t, n),
     allocations |-> AllocationsAt(t, n)]

\* The cursor of the page: the place of its last row.
CursorAfter(page) == page[Len(page)]

\* Order of the journal: effective time, then position.
Later(p, q) == events[p].at > events[q].at \/ (events[p].at = events[q].at /\ p > q)

\* The first rows after a cursor, which is the last row's place, or all when it is 0.
RowsAfter(cursor, n) == {p \in RowsAt(n) : cursor = 0 \/ Later(p, cursor)}

\* The k-th row of an ordered set is the one that k - 1 come before.
InOrder(rows) ==
    [k \in 1..Cardinality(rows) |->
       CHOOSE p \in rows : Cardinality({q \in rows : Later(p, q)}) = k - 1]
ItemsAt(rows, n) == [k \in DOMAIN rows |-> View(events[rows[k]].entry, n)]

-----------------------------------------------------------------------------
(* Writers *)

Happens(e) ==
    /\ Newest < MaxEntered
    /\ events' = Append(events, e)

\* An event by what its postings move on the bank account.
Entered(type, t, at, of, moved, lines) ==
    [type |-> type, entry |-> t, at |-> at, of |-> of, lines |-> lines, moved |-> moved,
     units |-> IF moved < 0 THEN -moved ELSE moved]

BookExpense(t, at, units) ==
    /\ ~Stands(t)
    /\ Happens(Entered("expense", t, at, Nothing, -units, NoLines))
    /\ Silent
    /\ UNCHANGED <<receipts, agent>>

BookRefund(t, of, at, units) ==
    /\ ~Stands(t) /\ Stands(of)
    /\ BookedAs(of).type = "expense" /\ units <= BookedAs(of).units
    /\ Happens(Entered("refund", t, at, of, units, NoLines))
    /\ Silent
    /\ UNCHANGED <<receipts, agent>>

\* The exact inverse of what is not reversed yet, which may be a reversal.
BookReversal(t, of, at) ==
    /\ ~Stands(t) /\ Stands(of)
    /\ ReversalOf(of, Newest) = {}
    /\ Happens(Entered("reversal", t, at, of, -BookedAs(of).moved, NoLines))
    /\ Silent
    /\ UNCHANGED <<receipts, agent>>

\* validate_reporting_allocations: some lines, and not above the amount.
LinesFit(t, lines) == lines # NoLines /\ Allotted(lines) <= BookedAs(t).units

\* Reporting lines go to a transaction that is no reversal.
Assignable(t, lines) ==
    /\ Stands(t) /\ BookedAs(t).type # "reversal"
    /\ LinesFit(t, lines)

Assign(t, lines) ==
    /\ Assignable(t, lines)
    /\ Happens(Entered("assigned", t, 0, Nothing, 0, lines))
    /\ Silent
    /\ UNCHANGED <<receipts, agent>>

ClearLines(t) ==
    /\ Stands(t)
    /\ Happens(Entered("cleared", t, 0, Nothing, 0, NoLines))
    /\ Silent
    /\ UNCHANGED <<receipts, agent>>

-----------------------------------------------------------------------------
(* The journal, page by page *)

Reading == agent.doing = "pages"

\* The head is the position of a page that names none. What a single statement would have
\* answered at this moment is kept for the property.
AskFirstPage ==
    /\ agent = Idle
    /\ agent' = [doing |-> "pages", asOf |-> Newest, cursor |-> 0, asked |-> TRUE,
                  items |-> <<>>, whole |-> ItemsAt(InOrder(RowsAt(Newest)), Newest)]
    /\ Silent
    /\ UNCHANGED <<events, receipts>>

AskNextPage ==
    /\ Reading /\ ~agent.asked
    /\ agent' = [agent EXCEPT !.asked = TRUE,
                                !.asOf = IF CarriesPosition THEN @ ELSE Newest]
    /\ Silent
    /\ UNCHANGED <<events, receipts>>

\* The rows and their facts; the last row is the next cursor while there are more.
ReadPage ==
    /\ Reading /\ agent.asked
    /\ LET rows == InOrder(RowsAfter(agent.cursor, agent.asOf))
           page == SubSeq(rows, 1, IF Len(rows) < PageSize THEN Len(rows) ELSE PageSize)
           items == agent.items \o ItemsAt(page, agent.asOf)
       IN IF Len(rows) > PageSize
          THEN /\ agent' = [agent EXCEPT !.asked = FALSE, !.items = items,
                                           !.cursor = CursorAfter(page)]
               /\ Silent
          ELSE /\ agent' = Idle
               /\ answer' = [to |-> "pages", whole |-> agent.whole, items |-> items]
    /\ UNCHANGED <<events, receipts>>

-----------------------------------------------------------------------------
(* Balances *)

\* What the transactions up to position n leave on the bank account.
BalanceAt(n) == MapThenSumSet(LAMBDA p : events[p].moved, RowsAt(n))

\* Without a position the head is named and the projection read, with one the postings.
AskBalances(verify) ==
    /\ agent = Idle
    /\ agent' = [doing |-> "balances", verify |-> verify, asOf |-> Newest]
    /\ Silent
    /\ UNCHANGED <<events, receipts>>

AskBalancesAsOf(n) ==
    /\ agent = Idle
    /\ agent' = [doing |-> "reference", verify |-> FALSE, asOf |-> n]
    /\ Silent
    /\ UNCHANGED <<events, receipts>>

ReadProjection ==
    /\ agent.doing = "balances"
    /\ IF agent.verify
       THEN /\ agent' = [doing |-> "reference", verify |-> TRUE, asOf |-> agent.asOf,
                          projection |-> BalanceAt(Newest)]
            /\ Silent
       ELSE /\ agent' = Idle
            /\ answer' = [to |-> "balances", exact |-> FALSE, asOf |-> agent.asOf,
                          units |-> BalanceAt(Newest)]
    /\ UNCHANGED <<events, receipts>>

Verified(projection, reference) == IF projection = reference THEN projection ELSE reference

ReadReference ==
    /\ agent.doing = "reference"
    /\ LET reference == BalanceAt(agent.asOf) IN
       answer' = [to |-> "balances", exact |-> TRUE, asOf |-> agent.asOf,
                  units |-> IF agent.verify THEN Verified(agent.projection, reference)
                            ELSE reference]
    /\ agent' = Idle
    /\ UNCHANGED <<events, receipts>>

-----------------------------------------------------------------------------
(* ledger_set_transaction_category, ledger_clear_transaction_category *)

\* The lines a wish is for: the whole amount to one category, or nothing.
Wanted(t, c) ==
    [x \in Categories |-> IF x = c THEN BookedAs(t).units ELSE 0]

\* The tool's first statement: the head of the Book.
Ask(w, t, c) ==
    /\ agent = Idle
    /\ agent' = [doing |-> "entry", wish |-> w, entry |-> t, category |-> c, head |-> Newest]
    /\ Silent
    /\ UNCHANGED <<events, receipts>>

AskCategory(w, t, c) == Ask(w, t, c)
AskNoCategory(w, t) == Ask(w, t, Nothing)

Refuse(why) ==
    /\ agent' = Idle
    /\ answer' = [to |-> "refused", why |-> why, entry |-> agent.entry]

ReadEntry ==
    /\ agent.doing = "entry"
    /\ LET t == agent.entry IN
       IF Stands(t)
       THEN /\ agent' = [doing |-> "revision", wish |-> agent.wish, entry |-> t,
                          category |-> agent.category, head |-> agent.head,
                          kind |-> EntryKind(t, LinesAt(t, Newest))]
            /\ Silent
       ELSE Refuse("not found")
    /\ UNCHANGED <<events, receipts>>

\* The lines are those of the head that was read first, the revision is the latest.
ReadRevision ==
    /\ agent.doing = "revision"
    /\ LET t == agent.entry
           c == agent.category
       IN IF c # Nothing /\ agent.kind \notin {"expense", "refund"}
          THEN Refuse("kind")
          ELSE IF LinesAt(t, agent.head) = Wanted(t, c)
          THEN /\ agent' = Idle
               /\ answer' = [to |-> "category", entry |-> t, category |-> c,
                             revision |-> Revision(t), verified |-> TRUE, asOf |-> agent.head]
          ELSE /\ agent' = [doing |-> "write", wish |-> agent.wish, entry |-> t,
                             category |-> c, expected |-> Revision(t)]
               /\ Silent
    /\ UNCHANGED <<events, receipts>>

\* The command with the key of the wish: replayed, refused, or one event and a receipt.
\* An answer that is lost leaves the agent free to ask again.
SendCategory(lost) ==
    /\ agent.doing = "write"
    /\ LET t == agent.entry
           c == agent.category
           r == receipts[agent.wish]
           same == r.expected = agent.expected /\ r.entry = t /\ r.category = c
           revision == agent.expected + 1
           Told(v) == IF lost
                      THEN agent' = Idle /\ Silent
                      ELSE /\ agent' = [doing |-> "head", entry |-> t, category |-> c,
                                         revision |-> v]
                           /\ Silent
       IN CASE r # NoReceipt /\ same -> Told(r.revision) /\ UNCHANGED <<events, receipts>>
            [] r # NoReceipt /\ ~same -> Refuse("key") /\ UNCHANGED <<events, receipts>>
            [] r = NoReceipt /\ Revision(t) # agent.expected ->
                 Refuse("version") /\ UNCHANGED <<events, receipts>>
            [] OTHER ->
                 /\ c # Nothing => Assignable(t, Wanted(t, c))
                 /\ Happens(Entered(IF c = Nothing THEN "cleared" ELSE "assigned", t, 0,
                                  Nothing, 0, Wanted(t, c)))
                 /\ receipts' = [receipts EXCEPT ![agent.wish] =
                      [expected |-> agent.expected, revision |-> revision, entry |-> t,
                       category |-> c]]
                 /\ Told(revision)

ReadBackHead ==
    /\ agent.doing = "head"
    /\ agent' = [doing |-> "lines", entry |-> agent.entry, category |-> agent.category,
                  revision |-> agent.revision, head |-> Newest]
    /\ Silent
    /\ UNCHANGED <<events, receipts>>

\* Mutant: lines that hold the category are enough.
LinesHold(t, c, revision, head) ==
    IF c = Nothing THEN LinesAt(t, head) = NoLines ELSE LinesAt(t, head)[c] # 0

\* The revision is still the written one and the lines hold the category.
Holds(t, c, revision, head) ==
    /\ Revision(t) = revision
    /\ IF c = Nothing THEN LinesAt(t, head) = NoLines ELSE LinesAt(t, head)[c] # 0

ReadBackLines ==
    /\ agent.doing = "lines"
    /\ answer' = [to |-> "category", entry |-> agent.entry, category |-> agent.category,
                  revision |-> agent.revision, asOf |-> Newest,
                  verified |-> Holds(agent.entry, agent.category, agent.revision, agent.head)]
    /\ agent' = Idle
    /\ UNCHANGED <<events, receipts>>

-----------------------------------------------------------------------------

BookInit ==
    /\ events = <<>>
    /\ receipts = [w \in Wishes |-> NoReceipt]
    /\ agent = Idle
    /\ answer = NoAnswer

WriteBook ==
    \/ \E t \in Entries, at \in Moments, units \in Sizes :
         \/ BookExpense(t, at, units)
         \/ \E of \in Entries : BookRefund(t, of, at, units)
    \/ \E t, of \in Entries, at \in Moments : BookReversal(t, of, at)
    \/ \E t \in Entries :
         \/ \E lines \in [Categories -> {0} \cup Sizes] : Assign(t, lines)
         \/ ClearLines(t)

QueryBook ==
    \/ AskFirstPage
    \/ AskNextPage
    \/ ReadPage
    \/ \E verify \in BOOLEAN : AskBalances(verify)
    \/ \E n \in 0..Newest : AskBalancesAsOf(n)
    \/ ReadProjection
    \/ ReadReference

ClassifyByTool ==
    \/ \E w \in Wishes, t \in Entries :
         \/ \E c \in Categories : AskCategory(w, t, c)
         \/ AskNoCategory(w, t)
    \/ ReadEntry
    \/ ReadRevision
    \/ \E lost \in BOOLEAN : SendCategory(lost)
    \/ ReadBackHead
    \/ ReadBackLines

BookNext == WriteBook \/ QueryBook \/ ClassifyByTool

BookSpec == BookInit /\ [][BookNext]_bookVars

-----------------------------------------------------------------------------
(* Properties *)

\* What the pages of one reading show is what one statement would have read when the first
\* was asked for, each transaction once and in order, however the Book grew meanwhile: one
\* dated before the cursor, a reversal or a category that came later shows on no page
\* (list_journal, list_everyday_entries).
PagesAreTheBook == answer.to = "pages" => answer.items = answer.whole

\* The weaker thing ledger_list_transactions tells of its pages, "Follow next_cursor to
\* continue without losing the snapshot position": what they show together is the Book as
\* of some position.
PagesShowOnePosition ==
    answer.to = "pages" =>
        \E n \in 0..Newest : answer.items = ItemsAt(InOrder(RowsAt(n)), n)

\* A balance that is stated exactly, verified or for a named position, is the sum of the
\* transactions of the stated position, also when the projection was read later and looks
\* wrong for that reason alone (get_verified_book_balances, get_book_balances).
BalancesAreOfTheirPosition ==
    answer.to = "balances" /\ answer.exact => answer.units = BalanceAt(answer.asOf)

\* A reader never sees two positions in one, in pages or in balances.
ReadsAreOfOnePosition == PagesAreTheBook /\ BalancesAreOfTheirPosition

\* However an expense is refunded, reversed and classified again, no view of an entry, at
\* any position, allocates more than the entry's own amount (_category_allocations,
\* _safe_refund_allocations).
AllocationsFit ==
    \A p \in RowsAt(Newest) : \A n \in p..Newest :
        Allotted(AllocationsAt(events[p].entry, n)) <= events[p].units

\* "verified" is true: at the position of the answer the entry has the category, or none
\* when it was to be cleared, whatever others did between the write, or the first read, and
\* the answer (_transaction_category_write_response, ledger_set_transaction_category).
VerifiedIsTrue ==
    answer.to = "category" /\ answer.verified =>
        LinesAt(answer.entry, answer.asOf) = Wanted(answer.entry, answer.category)
================================================================================
