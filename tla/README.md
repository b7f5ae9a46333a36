# Track Anywhere: a verification project for the ledger backend

Track Anywhere keeps double-entry books for people and their agents. A Book is an
append-only, hash-chained ledger of events in PostgreSQL with read models beside it;
clients reach it over HTTP, an MCP server and a command line. These modules model how the
ledger is written, projected, read, repaired and imported under concurrency, retries and
faults, what its commands decide, and how its clients keep their tokens. Paths below are
relative to `backend/app/track_anywhere/` unless they start with another top-level
directory.

## 1. The system

| Component | State it keeps | Operations | How it meets the others | What is hard | What makes it correct |
|---|---|---|---|---|---|
| Command bus, receipts, event store (`application/command_bus.py`, `ledger_committer.py`, `infrastructure/db/event_store.py`, `command_receipts.py`) | receipts, Book head, stream heads, events, applied markers | reserve, lock, handle, append, project, complete, commit, retry | every financial command runs inside it; the Book head lock orders them | commits with an unknown outcome, resent keys, waits in INSERT and SELECT FOR UPDATE | executed once per key and command id; one line of history; stored answers |
| Integrity auditor (`observability/audit.py`) | `books.write_state` | audit, pause | takes the Book row lock, reads what the bus writes | reads in separate statements | no false alarm; a pause that holds |
| Journal, credit cards, account lifecycle (`application/journal`, `credit_cards`, `catalogs`) | transactions, postings, reversals, balances, account status | post, expense, transfer, adjust, exchange, charge, fee, pay, refund, reverse, correct, close, reopen | handlers of the bus; appliers update the balances; triggers repeat the guards | long legal histories: chains of reversals, refunds of refunds, closed accounts | each transaction counts once or not at all; closed cards are settled; no trigger refuses what a handler allowed |
| Monthly summary projection (`infrastructure/projections`) | checkpoint, generations, rows, failures | poll, batch, activate, pause, rebuild, swap | reads the committed events and the synchronous tables | two advisory locks that do not exclude each other, lost leadership, late classifications | rows are a replay; the cursor never goes back; it catches up |
| Outbox (`outbox/worker.py`) | messages, claims, leases | claim, publish, acknowledge | a trigger repeats the lease rule with the database's clock | crashes between publication and acknowledgement, clocks that differ | at least once; claims exclude one another |
| Everyday entries (`application/entries`) | intents, commit tokens, fingerprints | prepare, commit | commit runs in the bus; re-validates catalogs and instruments | everything read at prepare is old at commit | one purchase is one transaction, as previewed |
| Payment instruments and account mutations (`application/payment_instruments`, `catalogs/rename_account.py`) | instruments, bindings, mutations, names | create, mutate, bind, resolve, rename | entries resolve cards and names through it | replayed request ids | a card means one account; a request runs once |
| Investment lots (`application/investments`, `domain/investments`) | lots, derived from events | acquire, dispose | linked to journal transactions | rounding over partial disposals | cost and quantity are conserved |
| Protected content (`application/privacy`, `infrastructure/crypto`) | encrypted sidecars, archives, manifests | create or verify, seal, redact | entries and imports refer to it | rotated keys, erasure beside sealing | what was answered as kept stays readable and unchanged |
| Authorization server (`auth`) and command line client (`cli/track_anywhere_cli`) | codes, device grants, families, credentials; a stored profile, a lock, a marker | approve, exchange, refresh, revoke; login, renew, logout | the client renews for several processes | lost answers, reuse, polling, processes that die | a grant is spent once; no honest client replays a token |
| Queries (`queries`) | none | journal pages, balances, entry views | statements of one READ COMMITTED session beside the writers | a Book that grows between pages and statements | an answer is of one position |
| MCP server (`mcp/tools.py`) | none of its own | catalog tools, ledger tools, classification | calls the application layer in several transactions | calls repeated after a lost answer | a call takes effect once and its answer is true |
| Expense repair (`offline`) | a plan, receipts | inspect, provide, repair, close, catch up, verify | commands of the bus beside live use | reruns at every stage | an expense moves wholly and once |
| Frozen import (`tools/frozen_v1_history`, `application/imports`) | plan, review, baseline | plan, reduce twice, compare, import, verify | one receipt, the head lock, a fence on the catalog | planner and reducers must agree; reruns beside live use | what is stored tells what the source told |
| Verification (`verification.py`) | none | verify a whole database | reads without locks | statements at different moments, a damaged restore | damage is reported and nothing else |
| Authentication throttle, HTTP API, event registry, metrics, web frontend, deployment | small or none | | | | listed in `PROJECT.json` with the reason each is out |

In one sentence: clients send commands with an idempotency key; the bus runs the handler
under a receipt and the Book head lock; the appliers project synchronously in the same
commit; the polling projection and the outbox follow later, each in transactions of its
own; queries read whatever is committed when each statement starts; the auditor stops the
Book when head, events and balances disagree.

## 2. Modules

| Module | What it is |
|---|---|
| `CommandBus` | the bus, the event store, asset creation, the auditor, faults |
| `ExactlyOnceLedger` | the abstract promise of the bus, which `CommandBus` implements |
| `CommandBusProofs` | theorems about `CommandBus`, its history and its refinement of `ExactlyOnceLedger` |
| `Journal` | the decisions of the financial commands on transactions, cards and accounts |
| `MonthlyProjection` | the asynchronous projection of a Book |
| `Outbox` | claims, leases and delivery |
| `PaymentInstruments` | cards, their bindings, account names and their receipts |
| `EverydayEntry` (extends `PaymentInstruments`), `EverydayEntryProofs` | prepare and commit of intents over changing accounts and cards, and theorems about both |
| `SetSums` | lemmas about sums over finite sets, for the modules that balance |
| `InvestmentLots` | lots and the cost of their sales |
| `LedgerProofs` | theorems about `Journal` and `InvestmentLots` |
| `BookQueries` | pages, balances and views of a Book that grows; the classification tool |
| `ReadSideProofs` | theorems about `MonthlyProjection` and `BookQueries` |
| `McpTools` | catalog calls with request ids |
| `ProtectedContent` | sidecars, archives and manifests under rotating keys |
| `OAuthTokens` | grants, families, rotation and revocation |
| `CliProfile` (extends `OAuthTokens`) | processes of the client that share a stored profile |
| `ClientProofs` | theorems about `CliProfile` with `OAuthTokens`, and about `McpTools` |
| `ExpenseRepair` | the repair of misclassified expenses |
| `FrozenHistory` | the old ledger's rows, the review, the planner and the two reducers |
| `FrozenImport` (extends `FrozenHistory`) | the plan's way into a Book |
| `LedgerVerification` | the verifier of a whole database |
| `ServiceProofs` | theorems about `ProtectedContent`, `ExpenseRepair`, `LedgerVerification` and `Outbox` |
| `FrozenProofs` | theorems about `FrozenImport` with `FrozenHistory` |
| `MC*` | small instances; `MCService`, `MCLedger`, `MCOffline`, `MCClients` put several machines into one run |

`CommandBus` and the modules of commands meet at the Book head lock. `CommandBus` leaves
open what a handler decides (`Reject`) and shows that commands under the lock take effect
one after the other; the others take a command as one step because of that and say what
each decides. Where the code reads without the lock (prepare, queries, tools, the
projection, the verifier), each statement whose moment matters is an action. Operators
marked *Mutant* are in no behaviour: each is a plausible bug of the operator after it that
one property is able to detect.

### CommandBus

A handler's program counter is its place in `execute` or `execute_financial`: authorize
(`authorize_journal_write`: the membership row is read FOR SHARE), reserve
(`reserve_or_lock`: INSERT ON CONFLICT DO NOTHING, then SELECT FOR UPDATE), lock (the
Book head, then the write state), handle, complete, commit. Uncommitted rows live in
`tx[w]` and `Publish` makes them visible, so READ COMMITTED is the visibility rule of the
model. Locks are derived from program counters: a handler past `reserve` holds its key,
one with a new receipt also holds its command id and share-locks the Book row through the
foreign key, one past `lock` holds the head. `RetryableError`, `OtherError`,
`CommitUnknown`, `Crash` and `CrashAfterCommit` may hit at every statement they can hit in
the code. Event hashes are the identity of the event they bind; the hash function is
taken to be free of collisions. Unique constraints are left out, so that the invariants
rest on the locking protocol alone. Asset creation stands for the non-financial commands,
which run without the head lock.

### Journal

`journal[t]` is the transaction of a client-chosen id with its event type, its net effect
on each account and the transaction it reverses or refunds; `balance` is the
`account_balances` projection, written by `Applied` for every event. The guards are those
of `_build_posted_payload` and `JournalValidator`, `_build_payload` of the card commands,
`_load_reversal_source` and `_build_reverse_plan`, `_build_correction_plan`,
`_journal_command` of the adjustments, and `close_account`. Besides the general posting
there are the typed commands, which choose their accounts more narrowly (`RecordExpense`,
`RecordTransfer`), and the two that cross assets through the trading accounts: `RecordFx`
and `PayFromAbroad`, a card payment in another asset with its fee. The
triggers of `v2_0004` and `v2_0010` guard nothing in the model: what they ask of a row is the
property `TriggersAccept`. Left out: dates (the code refuses a card
reversal before its source and a refund before its charge), the categories of expenses and
external references.

### MonthlyProjection

`run` is `AsyncProjectionWorker.run_once` cut at its waits: `Begin` (advisory lock,
checkpoint read without a row lock), `ReadEvents`, `LockState` (row locks of checkpoint
and generation), then `Advance`, `RecordFailure` or the trigger's refusal
(`RefuseBackward`). `TakeLead`, `LoseLead`, `Poll` are the runtime's election over a
session lock, `CatchUp` is the repair that calls the worker without election, and
`FindShadow`, `BuildShadow`, `LockSwap`, `Swap`, `StopRebuild` the shadow rebuild under
its other advisory key. `AffectedPeriods` and `Replay` translate `_affected_periods` and
`cold_replay_monthly_summary` for one category and asset. One waiting corner is
simplified: a `SELECT .. LIMIT 1 FOR UPDATE` whose awaited row no longer qualifies
returns no row, and the model selects again.

### Outbox

`ReadClock`, `SelectRow`, `Claim`, `Publish` or `PublishFails`, `Ack` or `AckLost` are the
steps of `OutboxDeliveryWorker.run_once`; `RefuseClaim` is the trigger
`v2_validate_outbox_update`, which compares leases with the database's clock while a
worker compares with its own. Time is kept as distances from now, so nothing grows; a
worker may stall for as long as it likes (`Stall`). No code in the repository inserts
messages; `Enqueue` stands for a command that would.

### PaymentInstruments and EverydayEntry

A handler of `PaymentInstruments` holds the head lock from its first read to its commit
and is one step; renaming has a second transaction that verifies the first and is two.
The triggers are left out so that the properties rest on the handlers. `EverydayEntry`
runs beside those steps: a prepare takes no lock, so finding accounts, finding the card,
the balance and the duplicates are steps of their own and each may see another state; a
commit validates again under the lock and is one step. Every kind of entry is there,
refunds and adjustments included. Expiry needs no clock: an intent may expire at any time.

### InvestmentLots

The Book's lot events are a log; `Positions` is the fold a handler computes before it
freezes the allocations of a sale, and the table of lots is what the synchronous
projection makes of the same events. Sales take the oldest lots first or the lots they
name; the cost of a part is rounded as in `domain/investments`, the last part takes the
rest.

### BookQueries

A reader pages through the journal, asks for balances of now or of a position, or reads
the view of one entry, each statement in a state of its own, while the Book grows by
expenses, refunds, reversals (of reversals too) and classifications. The tool that sets a
category reads the revision, sends the assignment with it and reads back. `CarriesPosition`
says whether the agent sends `as_of_book_position` with a cursor.

### McpTools

Three ways make a repeated call safe: an id derived from the request (Books, accounts,
categories), a receipt (assets, renames, cards, commands), the status alone (closing and
reopening). Each tool is a look before, a write and a look after, in transactions of its own.
The catalog routes of the HTTP API write beside the tools, under ids REST clients choose.

### ProtectedContent

A commitment is the tuple it is a MAC of, a ciphertext its key and its text. Processes
restart with other keyrings; a request compares under whichever key the row names. A
seal over an archive and an erasure of it meet at the sidecar's row lock.

### OAuthTokens and CliProfile

A handler is the transaction of one request and commits with its answer, errors included,
because the session commits when a handler returns. Whether something has run out is a
choice of each request. `CliProfile` adds the client: the lock file, the marker that
blocks a profile while it changes, the keyring and its file fallback, answers that are
lost or late, failed writes and processes that die at any of these points.

### ExpenseRepair, FrozenHistory, FrozenImport, LedgerVerification

`ExpenseRepair` follows the tool: provision of the category and the accounts, one financial
command per expense, the closing of the mistaken account, the wait for the
projection, the verification; a run may end at any step and begin again, two operators
may run at once, and users post, reverse, classify, close and open accounts meanwhile.
Provision looks for a row (`Lookup`) and inserts it later (`Create`) without a lock the runs
share: of two runs that both found nothing, the second one's insert violates the key, and
that run fails although nobody interfered. A row that is not as planned (the clearing account
closed, or another account in its role) ends a run too. `RerunsVerify` says how far the
runbook's "idempotent verification pass" holds: for every run that begins after a success.

`FrozenHistory` translates the planner and the two reducers separately, as they were
written: `PlanFacts` reads a plan, `SourceFacts` the rows and the review, and neither
uses the planner's operators. `FrozenImport` carries a plan into a Book: receipt, head
lock, fence and preflight, commit, answer; reruns, crashes, posts, closings and an
account creation whose insert is not yet committed meet it. `StoredFacts` is what the
read-back finds in the Book's tables, and `Reference` what the row reducer says.

`LedgerVerification` takes each statement of the verifier as an action. Either the
service writes between the statements, or a restore has hurt one row (an event, a head, a
stream head, a posting, a balance) and nobody writes.

## 3. What the runs check

| Run | Properties | Shows |
|---|---|---|
| `CommandBusRequests` | `ReceiptsOwnTheLog`, `SuccessIsTheReceipt`, `HistoryIsLinear`, `NoFalseAlarm`, `PausedBookIsFrozen`, `AuthorizedAtCommit`, `RefinesExactlyOnce` | one execution per key, answered alike to everyone, on one line of history without lost updates, under a role that still holds; the audit is never wrong; the bus implements `ExactlyOnceLedger` |
| `CommandBusWaiting` | `AssetCreatedOnce`, `RequestsEnd` | handlers that wait for a receipt, the head (two ledger commands at once) or an asset row end |
| `Service` | `ReadsAreOfOnePosition`, `AllocationsFit`, `VerifiedIsTrue`, `CallsTakeEffectOnce`, `RepliesAreTrue`, `WhatIsKeptStays`, `OneCursorForward` | queries, tools, protected content and the projection with all its writers |
| `ProjectionCatchUp` | `GenerationsAreReplays`, `CatchesUp` | rows are the cold replay through the cursor, and every committed event is projected in the end |
| `Outbox` | `DeliveredWasReceived`, `ClaimsExclude`, `EventuallyDelivered` | nothing is marked that was not received, claims exclude each other while their leases run, everything is delivered |
| `EverydayEntry` | `IntentsBookOnce`, `PostedAsPreviewed`, `AdjustmentsHitTheirTarget` | one purchase, one transaction, the one previewed, onto the balance the user counted |
| `Ledger` | `ClosedCardsAreSettled`, `FamiliesAddUp`, `SalesAreRight`, `TriggersAccept` | long histories of transactions, cards and lots |
| `Clients` | `SpentOnce`, `NeverReplays`, `CardsAreUnambiguous`, `RequestsRunOnce` | tokens and the client's profile; cards and their receipts |
| `Offline` | `RepairsMoveTheExpense`, `RerunsVerify`, `PlansAgree`, `ImportIsFaithful`, `ReportsAreTrue` | the three programs an operator runs |
| `EntryDatedAhead` (violation) | `NeverWrittenTwice` | an entry dated more than seven days ahead is written twice: the duplicate search begins seven days before the entry's own date, in the future |
| `CursorAlone` (violation) | `PagesShowOnePosition` | `next_cursor` without `as_of_book_position` follows the present head: a transaction shows as reversed by one that is on no page, and the pages put together are the Book of no position |
| `CategoryCycle` (violation) | `PathsEnd` | a category may be created as its own parent, and every walk up to a root fails from then on |

What the three disagreements contradict is quoted in `PROJECT.json` under "findings".

*Sum runs.* `Service`, `Ledger`, `Clients` and `Offline` hold several machines that share
no state. Each moves while the others rest in their initial states, so the states of the
run are the sum of theirs, never the product. Where a run has a symmetry, the machines
share model values, so that one set of permutations serves them all.

*Bounds, and why they suffice.*

- `CommandBus`: two handlers are enough for every conflict over a key, a command id, the
  head or an asset row, each being between a holder and a waiter. Five requests share
  keys, ids and payloads in every way that matters, two of them compete for one version of a
  stream, and one expects the version another leaves, so that two financial commands commit
  one after the other; one role writes and one only reads. When liveness is checked, two
  ledger commands and three creations of one asset under two keys wait for a receipt,
  for the head and for the asset row. Two attempts separate the first, a
  retry and giving up; the code's own bound is three.
- `MonthlyProjection`: in `Service` two events, two runtimes, a repair, two rebuilders
  and three generations, which allow a swap over a swap; in `ProjectionCatchUp` three events
  and batches of two, which make a full, a partial and an empty batch, a refund and two months, one runtime
  and one repair, which take the advisory lock from one another.
- `Outbox`: a lease of three lies above a run of one and the clocks' difference of two;
  `Stall` makes a run outlast it. `MaxFailures` is two: a fault and one in its recovery.
- `EverydayEntry`: two intents, because its hazards are between two of them or between an
  intent and a change; two bank accounts and a card account that share two names, one card.
- `Journal`: four transactions hold a charge, two refunds and a reversal, or a chain of
  reversals of reversals; amounts of one and two make partial refunds. Histories that use
  the second asset, or hold a transaction between one account and itself, have two
  transactions, one reversal and one closed account
  (`MaxAbroad`, `GoneAbroad`). Ids are interchangeable and whichever is free is taken.
- `InvestmentLots`: three lots, numbered in the order of the log, in two pools, quantity three
  at costs two and five, so that parts do not divide evenly; two sales.
- `CliProfile`, `OAuthTokens`: two processes, two requests at the server, two families of
  two pairs, a device grant and a code of another client.
- `PaymentInstruments`: two accounts, two cards that may share an identity, times 0 and 1; the
  theorems hold for every last time.
- `BookQueries`: two entries, four events, pages of one; a reversal that is itself reversed
  takes three entries, about which the theorems speak, and which `CursorAlone` has, where
  nobody classifies. `McpTools`: two processes, three
  calls. `ProtectedContent`: three requests, three keyrings (before, during and after a
  rotation), one sidecar (two pass as well, in 1.5 million states).
- `FrozenHistory`: every reviewed history of three rows on two cards and two months that
  the review accepts, about 3070 of them, is planned and compared; one of them (`MCCarried`)
  is imported, by two runners with two attempts each, beside one post and two
  changes of status.
- `ExpenseRepair`: two expenses, two operators, three runs, two acts of users.
  `LedgerVerification`: two Books, three events, two reports, one hurt row.

Deadlock is not checked where clients run out of ids, requests or bounds and may stop.

*Fairness.* `CommandBus`: strong fairness of a handler's steps, because threads are
scheduled and PostgreSQL queues the waiters of a row; an audit that began goes on. Clients,
faults, operators and audits need not happen. `MonthlyProjection`: `run_forever` polls
without end (strong fairness of a runtime's cycle, since its lock is taken and released
again and again); transactions of rebuilds end; failing runs are finitely many
(`MaxAborts`). A repair that was called runs to its end, which is the same function; nothing
is assumed of whether it is called. `Outbox`:
time passes, a run's statements are executed, and an acknowledgement that is possible again
and again is not always lost; crashes, stalls and failed publications are finitely many.
The lease is longer than a run and the difference of the clocks: with a lease of 0, which
the constructor accepts, the trigger would refuse every acknowledgement.

## 4. What is proved

The theorems hold for every value of the constants that meets the assumptions named in the
modules: `RequestsAssumption` and `PayloadAssumption` (equal keys and equal payload digests
mean equal commands), `JournalAssumption` (finitely many accounts), `ProjectionAssumption`,
`OutboxAssumption`, `OAuthAssumption` and `CliAssumption`, `InstrumentsAssumption`,
`LotsAssumption`, `EntriesAssumption`, `QueriesAssumption`, `CategoriesAssumption` (finitely many categories), `CallsAreMade` (calls have the arguments their tool takes),
`KeyringsAreValid` (the active key is in its ring), `PlanIsNotEmpty` (finitely many
expenses, as a plan lists them), `HistoryAssumption` (finitely many old transactions, each
in a month), `ImportAssumption` and `CasesAreHistories` (rows and reviews have the shape
that the inventory and the parsing of a review let through: at least two postings, none of
them 0, which balance; and `Refused` is the name of no plan). The assumptions say what kind of value a constant is, never that an
instance is small. Each proof has an inductive invariant, one lemma per action or group of
actions, and a theorem for each property. The type invariants are theorems; only the ones a
bound of a run could hide are checked again in a run.

| Module | Invariant | Theorems |
|---|---|---|
| `CommandBusProofs` | `IInv`, `HInv` | `ReceiptsOwnTheLog`, `SuccessIsTheReceipt`, `PausedBookIsFrozen`, `AuthorizedAtCommit`, `HistoryIsLinear`, `NoFalseAlarm`, `AssetCreatedOnce`, `RefinesExactlyOnce` |
| `LedgerProofs` | `IInv`, `AInv`, `LInv` | `ClosedCardsAreSettled`, `ReversedAtMostOnce` with `RefundsStand`, `FamiliesAddUp`, `TriggersAccept`, `SalesAreRight` |
| `ReadSideProofs` | `PInv`, `RInv`, `ToolInv`, `PagesInv` | `OneCursorForward`, `GenerationsAreReplays`, `VerifiedIsTrue`, `AllocationsFit`, `ReadsAreOfOnePosition` |
| `EverydayEntryProofs` | `IInv`, `EInv` | `CardsAreUnambiguous`, `RequestsRunOnce`, `IntentsBookOnce`, `AdjustmentsHitTheirTarget`, `PostedAsPreviewed` |
| `ClientProofs` | `SInv`, `CInv`, `ToolsInv` | `SpentOnce`, `NeverReplays`, `CallsTakeEffectOnce`, `RepliesAreTrue` |
| `ServiceProofs` | `PrivacyInv`, `RepairInv`, `VInv`, `OInv` | `WhatIsKeptStays`, `RepairsMoveTheExpense`, `RerunsVerify`, `ReportsAreTrue`, `DeliveredWasReceived`, `ClaimsExclude` |
| `FrozenProofs` | `FInv` | `PlansAgree`, `ImportIsFaithful` |

*Command bus.* Neither `ReceiptsOwnTheLog` nor `SuccessIsTheReceipt` is inductive alone: that
a commit adds the one receipt of its key needs that no other handler holds the key
(`Exclusion`) and that the transaction still stands on what it saw (`TxOK`): no receipt of
the key or the command id, and the Book head unmoved since the lock. That a receipt's range
is exactly its events needs the positions of the log (`LogPositions`). The pause needs
`AuditExclusion`: the auditor's Book row lock and a receipt in flight exclude one another,
so no handler that read the old write state is left when the pause commits. `HInv` adds what
the commits make of the rows: the log is one chain (`Chain`), every stream a chain in it
(`StreamChain`), the balances are what it says (`Projected`); and what an open transaction
is about to add (`BatchOK`, `BodyOK`). `NoFalseAlarm` is in `HInv` because what the auditor
has read stays true only while the row lock holds writers off (`AuditedHead`).
`ExactlyOnce` shows each step of the bus to be a step of `ExactlyOnceLedger` or a stutter:
only a commit changes the receipts and the log, and it appends one command's events under a
key that had none.

*Journal.* `Sound` collects what the guards of every command give for the event it records;
two lemmas show that one sound event, or the batch of a correction, keeps the invariant, and
each command is then shown to record sound events. `RefundsStand` needs that a source is
always recorded, or a new id could turn out to be reversed already.
`AInv` is about sums. Every command appends one event its checks allow (`Event`), a
correction with a replacement that touches no card. `Root` is the fixed point of its
equation because a transaction names what was recorded before it (`RootsOK`), so an event
joins one family or founds one. A charge's family leaves on the card what its refunds in
force have not paid back (`ChargeOK`); any other family is a chain of reversals whose last
element is the transaction or its inverse (`EndOK`), and it is a chain because only what is
not yet reversed is reversed; whoever is of a charge's family moves a card, so its reversals
end there (`RootOK`). What is owed on a card is the sum of its open items (`OpenOK`). That
the triggers accept every row uses the same invariant: a refund is written in the accounts
of its charge, whose row still has the shape it was recorded in (`RowOK`), and exchanges
with their fees add up to nothing in each asset (`ExchangeEven`, `FeeEven`).

*Monthly projection.* The locks make three kinds of writers exclude each other
(`BookExclusion`, `CheckpointExclusion`, `ShadowExclusion`), and `RunOK` and `RebuildOK` say
what each has read and may still rely on: a worker's first read of the checkpoint may be
old, but it is never ahead of the row. That the rows are replays (`RInv`) is an argument over
the ledger's length: where two ledgers agree up to a position the replays through it agree,
and a batch changes no month but the ones it marks as affected. Where an induction would be
used, a least counterexample is taken.

*Queries.* The log only grows, an entry is booked once, and what an event is about was booked
before it (`LogOK`); so what was read of a position stays what is read there. A receipt, and
what the tool was told, name a revision at which the log has the wanted lines (`Written`): if
the revision read back is the same, that event is the entry's last and its lines are the
current ones. The lines of an entry fit its amount because they were checked against it when
they were assigned, and a refund or reversal inherits from what it is of. The pages shown so
far are the first rows of what one statement would have read (`Progress`): the journal's
order is total, each row has a place of its own, and the rows after the k-th are the rest in
the same order. `ReadsAreOfOnePosition` assumes that the position goes with the cursor
(`CarriesPosition`); without it the claim is false, which is what `CursorAlone` shows.

*Outbox.* While a worker's copy of its lease runs, the row still names the worker, because
claim and acknowledgement are refused by the database's clock (`LeaseOK`); how far the two
clocks differ is a parameter.

*Cards and entries.* That a reference means one card rests on each pair of cards
(`Distinct`) and of bindings (`Follow`) in every history that sets their times; that a
request runs once rests on receipts, which are written once and answer what was written
(`AnswerOK`). `EInv` follows an intent from its preview to its booking: what it was bound to
still is of that card and account, its names are of the accounts it found, and each account
has what the consumed intents booked on it. The balance is a sum over the consumed intents,
and `AdjustmentsHit` follows from it that an adjustment leaves the account at the amount the
user counted.

*Sums.* `SetSums` shows of the folds of the community modules, as recursive functions, that
they depend neither on the order nor on the representation, and that sums add, negate and
split; a least set that fails takes the place of an induction.

*Authorization and client.* The server's half of the invariant is that what a handler read
under its lock (a grant's row, a family's advisory lock) stays true until it commits. The
client's half follows the newest pair of a family: in the unblocked profile, with one
process, in the answer one process waits for, or with nobody; a request to renew is in
flight only when nobody has it. `NeverReplays` is part of `CInv`.

*MCP tools.* What took effect is found by the next run: a created thing by its row, a rename,
an asset, a card or a ledger command by its receipt (`EffectsMarked`), and a receipt is of a
call that took effect (`ReceiptsTrue`). A row bears what the call that created it said, or
the name of a later rename (`RowsCreated`), so a look that finds the same arguments may say
"committed". A process has written when it has had its effect (`RunTrue`), and of the
processes at one key at most one has written and not answered; once an answer was the first,
none has (`FirstsTrue`). `RepliesAreTrue` is part of the invariant for that last answer.

*Protected content.* `WhatIsKeptStays` says nothing of rows that are being verified. The
invariant does: a row's commitment is to its kind, and to its text and key until they are
erased (`RowsBind`); what is kept has a row committed to it (`KeptOK`); and what a session
read under an id is committed to the same content as the row that is there, also when the
row was erased since (`LoadedOK`). That a sealed archive is never erased is a matter of two
sessions: the one that seals holds the row from the guard to the commit, the one that erases
holds it from its lock to the commit and has seen no manifest (`EraserOK`), and they exclude
each other (`Apart`).

*Expense repair.* The repairs enter what they reverse, in one transaction
(`RepairedTogether`), so the payment account never moves by a repair. A run that users left
alone since it began found every expense a candidate and the payment account as it is
(`RunOK`), and what its step needs provided (`Provided`); what a successful run leaves, stays
while users do nothing (`Settled`). A run that began after a success finds the category and the
accounts, hence inserts nothing, and an insert is the only step at which one that began before
can fail. The counts of what users did only grow, which is why the comparison with the count at the beginning
is enough.

*Lots.* The positions a handler folds out of the log are the rows the projection has made of
it (`FoldsAgree`, `PositionsAfter`): two folds of one log agree, by a least place where they
would not. A lot is its purchase less its parts in the sales so far, in quantity and in cost
(`LotOK`), and its cost stays within a half for each part of what its quantity is worth at
the price of purchase; `DriftOfPart` gives that bound for one rounded part, whose product is
taken from `FloorIs` rather than from the prover's arithmetic. A lot used up has no cost
left because its last part takes the rest. `FifoTakes` is about the greedy choice: a lot is
touched only when the older ones of its pool are used up. A position cannot go below zero
because a sale was checked against the fold of the same log.

*Verification.* What the statements compare is an invariant of a database nothing has hurt:
the events of a Book are numbered without a gap and each hash is over the one before it, up
to the head (`Chained`); every stream head is the last event of its stream (`StreamsOK`);
every transaction balances, no purse is in it twice, and the balances are the sums of the
postings (`PostingsOK`). The rows in order are the events by position (`RowsAreNumbered`), so
such a Book raises no issue. Each thing a restore does contradicts one of these (`Damaged`):
an event less is a shorter count, a garbled one another hash, a posting less another sum,
also if the whole transaction is lost, because its purses are in it once. The tables then
stay as they are, and `Reported` says from which statement on the issue is noted. While
nothing is hurt and no commit has crossed, the heads that were read still agree with the
events (`NothingFalse`): a Book opened in between has no events and no head among them.

*Frozen import.* The planner sorts the reversals by round and time; the reducer of the rows
goes by what is already emitted, a round at a time. Both are the one sequence in which
everything has its place (`Sorted`): before a reversal come the originals and the reversals
of an earlier round, or of its own round and an earlier time. So the events are the same.
What the reducers find in them are sums of the same amounts, taken once over the places of
the events and once over the sources (`TotalListed`). A correction takes back what its source
moved and a reporting line moves nothing, so the cards end with the balances the review was
accepted with. Rounds and journals are recursive functions over the sources; what holds of
each of their values is shown by a least counterexample. Nothing but what a review does not
look at is left for the planner to refuse: a correction of what was reversed, a category on
a reversal, a reversal with its rows in another order, a line of more than its transaction.
The import itself needs that one runner at a time is between its reservation and its commit,
and that what it found behind the head lock and the fence still stands there (`RunnerOK`);
receipt, archive and events then appear in one step, and later events come after them
(`Begins`).

*Only model-checked.* Every safety property the passing runs check is a theorem. Liveness
(`RequestsEnd`, `CatchesUp`, `EventuallyDelivered`) and ENABLED are out of reach of the
proof system: that something happens under fairness is checked by TLC on the instances of
section 3 alone. So are the three disagreements, which are counterexamples.

## 5. Not modelled, and the plan

`PROJECT.json` lists every component with its reason. Left out of the modelled ones:

- *Journal*: dates of transactions, categories of expenses, external references, events of
  more than two postings other than exchanges.
- *Everyday entries*: category changes between prepare and commit, card payments across
  assets and entries in two assets, the answers that ask for clarification, and the clock's
  tick against the seven-day window other than through its start.
- *Cards and lots*: the remaining triggers; fees, proceeds and linked amounts of sales.
  Two things of the code are not refused and not claimed: a sale dated before its
  purchase, and the reversal of a linked transaction, which leaves its lot.
- *Frozen import*: exchanges, scales, category versions, content of archives and
  descriptions, the counts of the one real dump, drift of names, projector rows that
  occupy the Book, the cold replay.
- *Verification*: digests, and the journal, card and catalog tables, which are counted.
- *Queries*: names, paths and account displays, always of the present; pages of accounts by
  offset; narratives.
- *Authorization*: client registration, browser sessions, passwords, API keys; the throttle
  in one process's memory.
- HTTP translation, the event registry and its serialization, metrics, the web interface and
  deployment, which have no protocol of their own.

Behaviours seen while modelling that no document forbids: the tools that close and reopen
an account keep no receipt, so a late repetition may undo what happened in between; the
`replayed` flag of the card tool is read before the write; an expense whose classification
was cleared cannot be set by the tool again; an exact reversal passes ordinary accounts
that are closed, which a test expects.

Planned modules: the authentication throttle with a bounded clock, and dates in `Journal`.
