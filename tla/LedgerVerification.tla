-------------------------- MODULE LedgerVerification --------------------------
(***************************************************************************)
(* The verifier an operator runs on a whole database, after a restore and  *)
(* before the service is switched to it: every Book's events against its   *)
(* head, the stream heads against the events, the postings against zero,   *)
(* the balances against the postings, and the failures of the projector.   *)
(*                                                                         *)
(* It takes no lock, and each of its statements reads what is committed    *)
(* when it begins: one action each, with the service's commits in between. *)
(* A restore may have hurt one row of one table; a database that was hurt  *)
(* is not written to before it is verified.                                *)
(*                                                                         *)
(* A hash stands for the bodies up to it; one asset, one unit a            *)
(* transaction.  The digests of the report, and the journal, card and      *)
(* catalog tables it only counts or digests, are left out.                 *)
(*                                                                         *)
(* The operators marked "Mutant" are in no behaviour, see CommandBus.      *)
(***************************************************************************)
EXTENDS Integers, FiniteSets, Sequences, FiniteSetsExt

CONSTANTS
    LedgerBooks,   \* ids of Books
    Purses,        \* the accounts of each
    MaxRecorded,   \* bounds the events of all Books
    MaxReports     \* bounds the runs of the verifier

ASSUME VerificationAssumption ==
    IsFiniteSet(LedgerBooks) /\ IsFiniteSet(Purses) /\ {MaxRecorded, MaxReports} \subseteq Nat

VARIABLES
    bookHeads,    \* by Book that exists: [position, hash] of its last event
    ledgerEvents, \* the rows of ledger_events
    streamHeads,  \* the rows of event_stream_heads
    postingRows,  \* the rows of journal_postings
    purseSums,    \* account_balances, by Book and account; no row is 0
    failing,      \* the projector has an unresolved failure
    hurt,         \* the table the restore has hurt, "none" if it has not
    at,           \* the last statement the verifier has run
    headsSeen,    \* the heads it has read
    issues,       \* what it has noted, by kind
    crossed,      \* a commit fell between its reading of the heads and of the events
    reports       \* the runs begun

tables == <<bookHeads, ledgerEvents, streamHeads, postingRows, purseSums>>
reportVars == <<at, headsSeen, issues, crossed, reports>>
ledgerVars == <<tables, failing, hurt, reportVars>>

ZeroHash == <<>>
NewHead == [position |-> 0, hash |-> ZeroHash]

LedgerInit ==
    /\ bookHeads = <<>>
    /\ ledgerEvents = {} /\ streamHeads = {} /\ postingRows = {}
    /\ purseSums = [key \in LedgerBooks \X Purses |-> 0]
    /\ failing = FALSE /\ hurt = "none"
    /\ at = "idle" /\ headsSeen = <<>> /\ issues = {} /\ crossed = FALSE /\ reports = 0

-----------------------------------------------------------------------------
(* The service. *)

Crosses == crossed' = (crossed \/ at = "heads")

OpenBook(b) ==
    /\ hurt = "none" /\ b \notin DOMAIN bookHeads
    /\ bookHeads' = [x \in DOMAIN bookHeads \cup {b} |-> IF x = b THEN NewHead ELSE bookHeads[x]]
    /\ UNCHANGED <<ledgerEvents, streamHeads, postingRows, purseSums, failing, hurt, reportVars>>

\* An event's body is what its hash covers besides the hash before it.
Body(e) == [stream |-> e.stream, version |-> e.version, content |-> e.content]

OfStream(b, s) == {e \in ledgerEvents : e.book = b /\ e.stream = s}

\* _append_batch of one event.
AppendEvent(b, s) ==
    LET head == bookHeads[b]
        body == [stream |-> s, version |-> Cardinality(OfStream(b, s)) + 1, content |-> "stored"]
        stored == [book |-> b, position |-> head.position + 1, stream |-> s,
                   version |-> body.version, content |-> body.content,
                   previous |-> head.hash, hash |-> Append(head.hash, body)]
    IN  /\ hurt = "none" /\ Cardinality(ledgerEvents) < MaxRecorded
        /\ ledgerEvents' = ledgerEvents \cup {stored}
        /\ streamHeads' = {h \in streamHeads : h.book # b \/ h.stream # s}
                            \cup {[book |-> b, stream |-> s, version |-> stored.version,
                                   position |-> stored.position]}
        /\ bookHeads' = [bookHeads EXCEPT ![b] = [position |-> stored.position, hash |-> stored.hash]]
        /\ Crosses

\* A transaction: its event, its postings and the balances they change.
PostUnit(b, debit, credit) ==
    LET txn == bookHeads[b].position + 1 IN
    /\ debit # credit
    /\ AppendEvent(b, <<"journal_transaction", txn>>)
    /\ postingRows' = postingRows \cup {[book |-> b, txn |-> txn, purse |-> debit, units |-> 1],
                                        [book |-> b, txn |-> txn, purse |-> credit, units |-> -1]}
    /\ purseSums' = [purseSums EXCEPT ![<<b, debit>>] = @ + 1, ![<<b, credit>>] = @ - 1]
    /\ UNCHANGED <<failing, hurt, at, headsSeen, issues, reports>>

\* Reporting lines, whose stream grows with every change of them.
ClassifyPosted(b, txn) ==
    /\ \E p \in postingRows : p.book = b /\ p.txn = txn
    /\ AppendEvent(b, <<"reporting_lines", txn>>)
    /\ UNCHANGED <<postingRows, purseSums, failing, hurt, at, headsSeen, issues, reports>>

\* The projector stops on an event, or the failure is resolved.
ProjectorFails ==
    /\ failing' = ~failing
    /\ UNCHANGED <<tables, hurt, reportVars>>

-----------------------------------------------------------------------------
(* The restore: one row of one table is missing or not what it was. *)

Hurts(table) == hurt = "none" /\ at = "idle" /\ hurt' = table

HurtEvents ==
    /\ Hurts("events")
    /\ \E e \in ledgerEvents :
         \/ ledgerEvents' = ledgerEvents \ {e}
         \/ ledgerEvents' = (ledgerEvents \ {e}) \cup {[e EXCEPT !.content = "garbled"]}
    /\ UNCHANGED <<bookHeads, streamHeads, postingRows, purseSums, failing, reportVars>>

HurtHeads ==
    /\ \E b \in DOMAIN bookHeads :
         /\ Hurts(IF bookHeads[b] = NewHead THEN "unused" ELSE "heads")
         /\ bookHeads' = [x \in DOMAIN bookHeads \ {b} |-> bookHeads[x]]
    /\ UNCHANGED <<ledgerEvents, streamHeads, postingRows, purseSums, failing, reportVars>>

HurtStreams ==
    /\ \E h \in streamHeads :
         \/ Hurts("streams") /\ streamHeads' = (streamHeads \ {h}) \cup {[h EXCEPT !.version = @ - 1]}
         \/ Hurts("missing stream") /\ streamHeads' = streamHeads \ {h}
    /\ UNCHANGED <<bookHeads, ledgerEvents, postingRows, purseSums, failing, reportVars>>

\* A posting, or all of a transaction.
HurtPostings ==
    /\ Hurts("postings")
    /\ \E p \in postingRows : postingRows' \in {postingRows \ {p},
                                {q \in postingRows : q.book # p.book \/ q.txn # p.txn}}
    /\ UNCHANGED <<bookHeads, ledgerEvents, streamHeads, purseSums, failing, reportVars>>

HurtBalances ==
    /\ Hurts("balances")
    /\ \E key \in DOMAIN purseSums : purseSums[key] # 0 /\ purseSums' = [purseSums EXCEPT ![key] = 0]
    /\ UNCHANGED <<bookHeads, ledgerEvents, streamHeads, postingRows, failing, reportVars>>

-----------------------------------------------------------------------------
(* verify_v2_ledger, a statement at a time. *)

After(last, next) == at = last /\ at' = next

Note(found) == issues' = issues \cup found
When(cond, issue) == IF cond THEN {issue} ELSE {}

\* _load_book_heads
LoadHeads ==
    /\ After("idle", "heads") /\ reports < MaxReports
    /\ reports' = reports + 1
    /\ headsSeen' = bookHeads /\ issues' = {} /\ crossed' = FALSE
    /\ UNCHANGED <<tables, failing, hurt>>

\* _verify_stored_event, and the order and the chain around it.
EventIssues(rows, n) ==
    LET e == rows[n] IN
    When(e.position # n, "book_position_gap")
      \cup When(e.previous # (IF n = 1 THEN ZeroHash ELSE rows[n - 1].hash), "previous_hash_mismatch")
      \cup When(e.hash # Append(e.previous, Body(e)), "event_hash_mismatch")

\* _finish_book_event_state
FinishBook(head, rows) ==
    When(head.position # Len(rows), "book_head_position_mismatch")
      \cup When(head.hash # (IF rows = <<>> THEN ZeroHash ELSE rows[Len(rows)].hash),
                "book_head_hash_mismatch")

\* The n-th event is the one that n - 1 come before.
ByPosition(events) ==
    [n \in 1..Cardinality(events) |->
       CHOOSE e \in events : Cardinality({d \in events : d.position < e.position}) = n - 1]

BookIssues(b) ==
    LET rows == ByPosition({e \in ledgerEvents : e.book = b})
    IN  IF b \in DOMAIN headsSeen
          THEN FinishBook(headsSeen[b], rows) \cup UNION {EventIssues(rows, n) : n \in DOMAIN rows}
          ELSE When(rows # <<>>, "events_without_book_head")

VerifyEvents ==
    /\ After("heads", "events")
    /\ Note(UNION {BookIssues(b) : b \in LedgerBooks})
    /\ UNCHANGED <<tables, failing, hurt, headsSeen, crossed, reports>>

\* The last event of a stream head's stream; a stream without a head is not looked for.
StreamHeadHolds(h) ==
    \E e \in OfStream(h.book, h.stream) :
      /\ e.position = Max({d.position : d \in OfStream(h.book, h.stream)})
      /\ e.version = h.version /\ e.position = h.position

VerifyStreamHeads ==
    /\ After("events", "streams")
    /\ Note(When(\E h \in streamHeads : ~StreamHeadHolds(h), "stream_head_mismatch"))
    /\ UNCHANGED <<tables, failing, hurt, headsSeen, crossed, reports>>

UnitsOf(rows) == MapThenSumSet(LAMBDA p : p.units, rows)

VerifyPostings ==
    /\ After("streams", "postings")
    /\ Note(When(\E p \in postingRows :
                   UnitsOf({q \in postingRows : q.book = p.book /\ q.txn = p.txn}) # 0,
                 "unbalanced_journal"))
    /\ UNCHANGED <<tables, failing, hurt, headsSeen, crossed, reports>>

Computed(key) == UnitsOf({p \in postingRows : <<p.book, p.purse>> = key})

\* Mutant: the balances are joined to the postings of their account, and one whose
\* postings are all lost drops out.
InnerJoin(key) ==
    (\E p \in postingRows : <<p.book, p.purse>> = key) /\ purseSums[key] # Computed(key)

\* A balance without postings and postings without a balance count as 0.
OuterJoin(key) == purseSums[key] # Computed(key)

VerifyBalances ==
    /\ After("postings", "balances")
    /\ Note(When(\E key \in DOMAIN purseSums : OuterJoin(key), "balance_projection_mismatch"))
    /\ UNCHANGED <<tables, failing, hurt, headsSeen, crossed, reports>>

CountFailures ==
    /\ After("balances", "reported")
    /\ Note(When(failing, "unresolved_projection_failures"))
    /\ UNCHANGED <<tables, failing, hurt, headsSeen, crossed, reports>>

RunAgain ==
    /\ After("reported", "idle")
    /\ UNCHANGED <<tables, failing, hurt, headsSeen, issues, crossed, reports>>

LedgerNext ==
    \/ \E b \in LedgerBooks : \/ OpenBook(b)
                              \/ b \in DOMAIN bookHeads /\
                                   \/ \E x, y \in Purses : PostUnit(b, x, y)
                                   \/ \E txn \in 1..MaxRecorded : ClassifyPosted(b, txn)
    \/ ProjectorFails
    \/ HurtEvents \/ HurtHeads \/ HurtStreams \/ HurtPostings \/ HurtBalances
    \/ LoadHeads \/ VerifyEvents \/ VerifyStreamHeads
    \/ VerifyPostings \/ VerifyBalances \/ CountFailures \/ RunAgain

LedgerSpec == LedgerInit /\ [][LedgerNext]_ledgerVars

-----------------------------------------------------------------------------
(* Properties. *)

\* A hurt table is reported, unless what it lost is compared with nothing: the head
\* of a stream, or of a Book without events.
HurtIsReported ==
    at = "reported" /\ hurt \notin {"none", "missing stream", "unused"} => issues # {}

\* No false alarm, beside the projector's failures, if the service committed nothing
\* between the first two statements, whatever it committed during the others.
NothingElseIsReported ==
    at = "reported" /\ hurt = "none" /\ ~crossed => issues \subseteq {"unresolved_projection_failures"}

\* The operator may trust a report of a Book at rest (verify_v2_ledger).
ReportsAreTrue == HurtIsReported /\ NothingElseIsReported

===============================================================================
