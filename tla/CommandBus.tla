------------------------------ MODULE CommandBus ------------------------------
(***************************************************************************)
(* The command bus of the V2 backend: how one Book's event ledger is       *)
(* written by concurrent request handlers over PostgreSQL (READ COMMITTED, *)
(* row locks).  A handler runs execute() or execute_financial(): it        *)
(* authorizes under a share lock of the membership row, reserves the       *)
(* receipt of its idempotency key, takes the Book head lock (financial     *)
(* commands only), appends its events, projects them synchronously,        *)
(* completes the receipt and commits; a retryable database error starts    *)
(* the whole attempt again.  The integrity auditor, which may pause the    *)
(* Book, runs beside the handlers.                                         *)
(*                                                                         *)
(* A worker's uncommitted rows live in its transaction record tx[w] and    *)
(* become visible in Publish, the commit.  Locks are not stored: they      *)
(* follow from the worker's position in the transaction.                   *)
(*                                                                         *)
(* The unique constraints on positions, stream versions and receipts are a *)
(* second line of defence and are left out, so that the invariants rest on *)
(* the locking protocol alone.                                             *)
(*                                                                         *)
(* The operators marked "Mutant" are in no behaviour: each is a plausible  *)
(* bug of the operator after it, which one of the properties must catch.   *)
(***************************************************************************)
EXTENDS Naturals, FiniteSets, Sequences

CONSTANTS
    Workers,       \* request handler threads
    Requests,      \* the commands clients may send, see RequestsAssumption
    Streams,       \* event streams of the Book
    Assets,        \* asset codes
    MemberStates,  \* states of the actor's membership row (role and scopes)
    WriteStates,   \* [ledger |-> .., asset |-> ..]: the states with each write scope
    MaxAttempts    \* max_attempts of the bus

Keys == {r.key : r \in Requests}
Commands == {r.cmd : r \in Requests}
Payloads == {r.payload : r \in Requests}
Touched(r) == {r.events[i] : i \in 1..Len(r.events)}

(***************************************************************************)
(* A request is what a client sends: the idempotency scope (actor, Book,   *)
(* operation and key, one value here), the command id, the payload, and    *)
(* either the streams its events go to with the version the client expects *)
(* of each (kind "ledger") or the asset it creates (kind "asset").         *)
(***************************************************************************)
ASSUME RequestsAssumption ==
    /\ \A r \in Requests :
         /\ r.kind \in {"ledger", "asset"}
         /\ r.events \in Seq(Streams)
         /\ r.kind = "ledger" <=> r.events # <<>>
         /\ r.expects \in [Streams -> Nat]
         /\ r.asset \in Assets
    /\ MaxAttempts \in Nat \ {0}
    /\ WriteStates.ledger \subseteq MemberStates
    /\ WriteStates.asset \subseteq MemberStates
    /\ Requests # {} /\ WriteStates.ledger # {}

\* The request hash covers the operation and everything the client sends, the expected
\* versions included; only the command id may differ between two sendings.
ASSUME PayloadAssumption ==
    \A q, r \in Requests :
        q.key = r.key /\ q.payload = r.payload =>
          q.kind = r.kind /\ q.events = r.events /\ q.expects = r.expects

VARIABLES
    (* committed rows *)
    receipts,    \* command_receipts: [key, cmd, hash, result]
    log,         \* ledger_events: [pos, id, stream, version, prev]
    head,        \* book_event_heads: [pos, hash]
    streamHead,  \* event_stream_heads.last_version, 0 when there is no row
    readModel,   \* synchronous projection: events folded into each stream's rows
    applied,     \* the markers of the events the projection has applied
    assets,      \* asset rows: [asset, meta]
    member,      \* the membership row
    writeState,  \* books.write_state
    tampered,    \* the balances were changed outside the application
    (* request handlers *)
    pc, req, attempt,
    tx,          \* the open transaction: [scope, created, base, batch, result]
    (* the integrity auditor and what clients were told *)
    audit,       \* [pc, head]: the head is the one its session has read
    answers      \* successes that reached a client: [req, result]

rows == <<receipts, log, head, streamHead, readModel, applied, assets>>
books == <<member, writeState, tampered>>
thread == <<pc, req, attempt, tx>>
vars == <<rows, books, thread, audit, answers>>

Genesis == <<"genesis", 0>>    \* the all-zero hash of an empty Book
NoResult == [first |-> 0, last |-> 0, body |-> "none"]
NoTx == [scope   |-> CHOOSE m \in MemberStates : TRUE,
         created |-> FALSE,
         base    |-> [pos |-> 0, hash |-> Genesis],
         batch   |-> {},
         result  |-> NoResult]
AnyRequest == CHOOSE r \in Requests : TRUE

InTransaction == {"reserve", "lock", "handle", "complete", "commit"}
HasReceipt == {"lock", "handle", "complete", "commit"}

ReceiptOf(k) == {x \in receipts : x.key = k}
RequestHash(w) == <<tx[w].scope, req[w].payload>>

-----------------------------------------------------------------------------
(* Locks *)

\* Mutant: the membership row is read without its share lock.
MembershipUnlocked(w) == FALSE

HoldsMembership(w) == pc[w] \in InTransaction
HoldsKey(w, k) == pc[w] \in HasReceipt /\ req[w].key = k

\* A new receipt row is in flight: its foreign key share-locks the Book row.
Created(w) == tx[w].created

HoldsHead(w) == pc[w] \in {"handle", "complete", "commit"} /\ Created(w)
                  /\ req[w].kind = "ledger"

\* Mutant: the key is looked up and inserted with no lock in between.
ReceiptNeverWaits(w) == TRUE

\* INSERT ... ON CONFLICT DO NOTHING waits for an uncommitted row with the same
\* key or the same command id; SELECT ... FOR UPDATE waits for the row's holder.
ReceiptFree(w) ==
    \A o \in Workers \ {w} :
        /\ ~HoldsKey(o, req[w].key)
        /\ ~(Created(o) /\ req[o].cmd = req[w].cmd)

\* Mutant: the head row is read without FOR UPDATE.
HeadNeverWaits(w) == TRUE

HeadFree(w) == \A o \in Workers \ {w} : ~HoldsHead(o)

\* Mutant: a lookup and a plain insert in place of ON CONFLICT DO NOTHING.
AssetNeverWaits(w) == TRUE

AssetFree(w) ==
    \A o \in Workers \ {w} :
        ~(Created(o) /\ pc[o] \in {"complete", "commit"} /\ req[o].kind = "asset"
          /\ req[o].asset = req[w].asset)

-----------------------------------------------------------------------------
(* Outcomes *)

Goto(w, label) == pc' = [pc EXCEPT ![w] = label]

\* The unit of work ends and the thread is free again.
Finish(w) ==
    /\ Goto(w, "idle")
    /\ tx' = [tx EXCEPT ![w] = NoTx]
    /\ req' = [req EXCEPT ![w] = AnyRequest]
    /\ attempt' = [attempt EXCEPT ![w] = 1]

\* An exception leaves the unit of work: the transaction rolls back and the client
\* is told the reason.
Fail(w) ==
    /\ Finish(w)
    /\ UNCHANGED <<rows, books, audit, answers>>

\* Mutant: the attempts are not counted.
RetryForever(w) ==
    /\ tx' = [tx EXCEPT ![w] = NoTx]
    /\ Goto(w, "authorize")
    /\ UNCHANGED <<req, attempt>>

\* The retry loop: another attempt while the bound allows, else the error is raised.
RetryOrRaise(w) ==
    IF attempt[w] < MaxAttempts
      THEN /\ attempt' = [attempt EXCEPT ![w] = @ + 1]
           /\ tx' = [tx EXCEPT ![w] = NoTx]
           /\ Goto(w, "authorize")
           /\ UNCHANGED req
      ELSE Finish(w)

\* A statement of the transaction: only the thread's own state changes.
Local == UNCHANGED <<rows, books, req, attempt, audit, answers>>

-----------------------------------------------------------------------------
Init ==
    /\ receipts = {} /\ log = {} /\ applied = {} /\ assets = {} /\ answers = {}
    /\ head = [pos |-> 0, hash |-> Genesis]
    /\ streamHead = [s \in Streams |-> 0]
    /\ readModel = [s \in Streams |-> 0]
    /\ member \in WriteStates.ledger
    /\ writeState = "active"
    /\ tampered = FALSE
    /\ pc = [w \in Workers |-> "idle"]
    /\ req = [w \in Workers |-> AnyRequest]
    /\ attempt = [w \in Workers |-> 1]
    /\ tx = [w \in Workers |-> NoTx]
    /\ audit = [pc |-> "idle", head |-> head]

\* A client sends r, for the first time or again.
Submit(w, r) ==
    /\ pc[w] = "idle"
    /\ req' = [req EXCEPT ![w] = r]
    /\ Goto(w, "authorize")
    /\ UNCHANGED <<rows, books, attempt, tx, audit, answers>>

\* The membership row is read FOR SHARE; role and scopes enter the request hash.
Authorize(w) ==
    /\ pc[w] = "authorize"
    /\ member \in WriteStates[req[w].kind]
    /\ tx' = [tx EXCEPT ![w].scope = member]
    /\ Goto(w, "reserve")
    /\ Local

Forbid(w) ==
    /\ pc[w] = "authorize"
    /\ member \notin WriteStates[req[w].kind]
    /\ Fail(w)

\* Mutant: the receipt does not reference the Book row, nothing waits for the auditor.
ReserveBesideAudit(w) ==
    /\ pc[w] = "reserve"
    /\ ReceiptFree(w)
    /\ ReceiptOf(req[w].key) = {}
    /\ \A x \in receipts : x.cmd # req[w].cmd
    /\ tx' = [tx EXCEPT ![w].created = TRUE]
    /\ Goto(w, IF req[w].kind = "ledger" THEN "lock" ELSE "handle")
    /\ Local

\* The receipt row is inserted; its foreign key waits for the auditor's row lock.
ReserveNew(w) ==
    /\ pc[w] = "reserve"
    /\ ReceiptFree(w)
    /\ ReceiptOf(req[w].key) = {}
    /\ \A x \in receipts : x.cmd # req[w].cmd
    /\ audit.pc = "idle"
    /\ tx' = [tx EXCEPT ![w].created = TRUE]
    /\ Goto(w, IF req[w].kind = "ledger" THEN "lock" ELSE "handle")
    /\ Local

\* Mutant: a receipt of the key is replayed whatever request it was made for.
ReplayAnyRequest(w) ==
    /\ pc[w] = "reserve"
    /\ ReceiptFree(w)
    /\ \E x \in ReceiptOf(req[w].key) : tx' = [tx EXCEPT ![w].result = x.result]
    /\ Goto(w, "commit")
    /\ Local

\* A committed receipt of the same request: its stored result is the answer.
ReserveReplay(w) ==
    /\ pc[w] = "reserve"
    /\ ReceiptFree(w)
    /\ \E x \in ReceiptOf(req[w].key) :
         /\ x.hash = RequestHash(w)
         /\ tx' = [tx EXCEPT ![w].result = x.result]
    /\ Goto(w, "commit")
    /\ Local

ReserveConflict(w) ==
    /\ pc[w] = "reserve"
    /\ ReceiptFree(w)
    /\ \E x \in ReceiptOf(req[w].key) : x.hash # RequestHash(w)
    /\ Fail(w)

\* The command id belongs to another key: no row matches the scope.
ReserveClash(w) ==
    /\ pc[w] = "reserve"
    /\ ReceiptFree(w)
    /\ ReceiptOf(req[w].key) = {}
    /\ \E x \in receipts : x.cmd = req[w].cmd
    /\ Fail(w)

\* Mutant: the write state is not read again under the head lock.
LockHeadOfAnyBook(w) ==
    /\ pc[w] = "lock"
    /\ HeadFree(w)
    /\ tx' = [tx EXCEPT ![w].base = head]
    /\ Goto(w, "handle")
    /\ Local

\* The head row is locked, then the Book's write state is read.
LockHead(w) ==
    /\ pc[w] = "lock"
    /\ HeadFree(w)
    /\ writeState = "active"
    /\ tx' = [tx EXCEPT ![w].base = head]
    /\ Goto(w, "handle")
    /\ Local

LockPaused(w) ==
    /\ pc[w] = "lock"
    /\ HeadFree(w)
    /\ writeState # "active"
    /\ Fail(w)

\* The domain rules of the handler refuse the command.
Reject(w) ==
    /\ pc[w] = "handle"
    /\ Fail(w)

-----------------------------------------------------------------------------
(* Appending *)

\* How many of the first i events of r belong to the stream of event i.
Occurrences(r, i) == Cardinality({j \in 1..i : r.events[j] = r.events[i]})

\* Event i of r after head h: positions, stream versions and the hash chain go on
\* from the locked heads; the event id is derived from the command id.
EventOf(r, h, i) ==
    [pos     |-> h.pos + i,
     id      |-> <<r.cmd, i>>,
     stream  |-> r.events[i],
     version |-> streamHead[r.events[i]] + Occurrences(r, i),
     prev    |-> IF i = 1 THEN h.hash ELSE <<r.cmd, i - 1>>]

Batch(r, h) == {EventOf(r, h, i) : i \in 1..Len(r.events)}

\* Mutant: the expected versions are not compared.
VersionsIgnored(r) == TRUE

VersionsMatch(r) == \A s \in Touched(r) : r.expects[s] = streamHead[s]

AppendEvents(w) ==
    /\ pc[w] = "handle"
    /\ req[w].kind = "ledger"
    /\ VersionsMatch(req[w])
    /\ tx' = [tx EXCEPT ![w].batch = Batch(req[w], tx[w].base)]
    /\ Goto(w, "complete")
    /\ Local

StaleVersion(w) ==
    /\ pc[w] = "handle"
    /\ req[w].kind = "ledger"
    /\ ~VersionsMatch(req[w])
    /\ Fail(w)

\* INSERT of the asset, ON CONFLICT DO NOTHING, then a metadata comparison.
CreateOrReuseAsset(w) ==
    /\ pc[w] = "handle"
    /\ req[w].kind = "asset"
    /\ AssetFree(w)
    /\ LET same == {a \in assets : a.asset = req[w].asset} IN
         /\ \A a \in same : a.meta = req[w].payload
         /\ tx' = [tx EXCEPT ![w].result.body = IF same = {} THEN "created" ELSE "reused"]
    /\ Goto(w, "complete")
    /\ Local

AssetConflict(w) ==
    /\ pc[w] = "handle"
    /\ req[w].kind = "asset"
    /\ AssetFree(w)
    /\ \E a \in assets : a.asset = req[w].asset /\ a.meta # req[w].payload
    /\ Fail(w)

\* The receipt is completed with the handler's result and the appended range.
CompleteReceipt(w) ==
    /\ pc[w] = "complete"
    /\ tx' = IF req[w].kind = "asset" THEN tx
             ELSE [tx EXCEPT ![w].result =
                     [first |-> tx[w].base.pos + 1,
                      last  |-> tx[w].base.pos + Len(req[w].events),
                      body  |-> "posted"]]
    /\ Goto(w, "commit")
    /\ Local

-----------------------------------------------------------------------------
(* Commit *)

\* The events of a set that belong to stream s.
In(s, events) == {e \in events : e.stream = s}

\* The events of the batch whose marker the projection does not have yet.
Unapplied(w) == {e \in tx[w].batch : e.id \notin applied}

NewReceipt(w) == [key |-> req[w].key, cmd |-> req[w].cmd,
                  hash |-> RequestHash(w), result |-> tx[w].result]

NewHead(w) ==
    IF tx[w].batch = {} THEN head
    ELSE [pos  |-> tx[w].base.pos + Len(req[w].events),
          hash |-> <<req[w].cmd, Len(req[w].events)>>]

\* What the commit makes visible: nothing when the receipt was only replayed.
Publish(w) ==
    IF ~Created(w) THEN UNCHANGED rows
    ELSE /\ receipts' = receipts \cup {NewReceipt(w)}
         /\ log' = log \cup tx[w].batch
         /\ head' = NewHead(w)
         /\ streamHead' = [s \in Streams |->
              streamHead[s] + Cardinality(In(s, tx[w].batch))]
         /\ readModel' = [s \in Streams |->
              readModel[s] + Cardinality(In(s, Unapplied(w)))]
         /\ applied' = applied \cup {e.id : e \in tx[w].batch}
         /\ assets' = IF tx[w].result.body = "created"
                      THEN assets \cup {[asset |-> req[w].asset, meta |-> req[w].payload]}
                      ELSE assets

\* The commit succeeds and the response is delivered.
Commit(w) ==
    /\ pc[w] = "commit"
    /\ Publish(w)
    /\ answers' = answers \cup {[req |-> req[w], result |-> tx[w].result]}
    /\ Finish(w)
    /\ UNCHANGED <<books, audit>>

\* The server commits but the connection breaks before the bus learns of it.
CommitUnknown(w) ==
    /\ pc[w] = "commit"
    /\ Publish(w)
    /\ RetryOrRaise(w)
    /\ UNCHANGED <<books, audit, answers>>

\* Deadlock victim, serialization failure or broken connection before the commit.
RetryableError(w) ==
    /\ pc[w] \in InTransaction \cup {"authorize"}
    /\ RetryOrRaise(w)
    /\ UNCHANGED <<rows, books, audit, answers>>

\* Any other database error is raised at once.
OtherError(w) ==
    /\ pc[w] \in InTransaction \cup {"authorize"}
    /\ Fail(w)

\* The process dies, before or after its commit reached the server: no answer.
Crash(w) ==
    /\ pc[w] # "idle"
    /\ Finish(w)
    /\ UNCHANGED <<rows, books, audit, answers>>

CrashAfterCommit(w) ==
    /\ pc[w] = "commit"
    /\ Publish(w)
    /\ Finish(w)
    /\ UNCHANGED <<books, audit, answers>>

-----------------------------------------------------------------------------
(* The integrity auditor *)

\* SELECT ... FOR UPDATE of the Book row: waits for every in-flight new receipt.
AuditLock ==
    /\ audit.pc = "idle"
    /\ \A w \in Workers : ~Created(w)
    /\ audit' = [audit EXCEPT !.pc = "locked"]
    /\ UNCHANGED <<rows, books, thread, answers>>

AuditReadHead ==
    /\ audit.pc = "locked"
    /\ audit' = [pc |-> "verify", head |-> head]
    /\ UNCHANGED <<rows, books, thread, answers>>

\* The events read in position order chain from the zero hash to the head h.
TerminalHashOk(l, h) ==
    /\ {e.pos : e \in l} = 1..Cardinality(l)
    /\ \A e \in l : e.pos = 1 => e.prev = Genesis
    /\ \A e, f \in l : f.pos = e.pos + 1 => f.prev = e.id
    /\ h.pos = Cardinality(l)
    /\ IF l = {} THEN h.hash = Genesis ELSE \E e \in l : e.pos = h.pos /\ e.id = h.hash

BalanceParityOk == \A s \in Streams : readModel[s] = Cardinality(In(s, log))

\* Events and balances are read in later statements; a mismatch pauses the Book.
AuditVerify ==
    /\ audit.pc = "verify"
    /\ writeState' = IF TerminalHashOk(log, audit.head) /\ BalanceParityOk
                     THEN writeState ELSE "paused_integrity"
    /\ audit' = [pc |-> "idle", head |-> [pos |-> 0, hash |-> Genesis]]
    /\ UNCHANGED <<rows, member, tampered, thread, answers>>

-----------------------------------------------------------------------------
(* The environment *)

\* An operator changes the membership row; the share locks hold the change back.
ChangeMembership(m) ==
    /\ \A w \in Workers : ~HoldsMembership(w)
    /\ member' = m
    /\ UNCHANGED <<rows, writeState, tampered, thread, audit, answers>>

\* Somebody writes a balance row past the application.
Tamper(s) ==
    /\ ~tampered
    /\ tampered' = TRUE
    /\ readModel' = [readModel EXCEPT ![s] = @ + 1]
    /\ UNCHANGED <<receipts, log, head, streamHead, applied, assets, member,
                   writeState, thread, audit, answers>>

-----------------------------------------------------------------------------
Reserve(w) ==
    ReserveNew(w) \/ ReserveReplay(w) \/ ReserveConflict(w) \/ ReserveClash(w)

Lock(w) == LockHead(w) \/ LockPaused(w)

Handle(w) ==
    AppendEvents(w) \/ StaleVersion(w) \/ CreateOrReuseAsset(w) \/ AssetConflict(w)

\* What a handler does when nothing fails.
Step(w) ==
    Authorize(w) \/ Forbid(w) \/ Reserve(w) \/ Lock(w) \/ Handle(w)
      \/ CompleteReceipt(w) \/ Commit(w)

Fault(w) ==
    CommitUnknown(w) \/ RetryableError(w) \/ OtherError(w) \/ Crash(w)
      \/ CrashAfterCommit(w)

Audit == AuditLock \/ AuditReadHead \/ AuditVerify

Next ==
    \/ \E w \in Workers : Step(w) \/ Reject(w) \/ Fault(w)
    \/ \E w \in Workers, r \in Requests : Submit(w, r)
    \/ Audit
    \/ \E m \in MemberStates : ChangeMembership(m)
    \/ \E s \in Streams : Tamper(s)

Spec == Init /\ [][Next]_vars

(***************************************************************************)
(* Fairness: a handler whose next statement is possible again and again    *)
(* takes it: threads are scheduled and PostgreSQL serves the waiters of a  *)
(* row in turn.  Clients, faults, operators and the start of an audit are  *)
(* not fair; an audit that has begun ends.                                 *)
(***************************************************************************)
Fairness ==
    /\ \A w \in Workers : SF_vars(Step(w))
    /\ WF_vars(AuditReadHead \/ AuditVerify)

FairSpec == Spec /\ Fairness
-----------------------------------------------------------------------------
(* Properties *)

Results == [first : Nat, last : Nat, body : {"none", "posted", "created", "reused"}]
Hashes == MemberStates \X Payloads
EventIds == (Commands \X Nat) \cup {Genesis}
Events == [pos : Nat, id : Commands \X Nat, stream : Streams, version : Nat,
           prev : EventIds]
Heads == [pos : Nat, hash : EventIds]
Transactions == [scope : MemberStates, created : BOOLEAN, base : Heads,
                 batch : SUBSET Events, result : Results]
\* Type invariant: the rows, the transactions and the answers have their shapes.
TypeOK ==
    /\ receipts \subseteq [key : Keys, cmd : Commands, hash : Hashes, result : Results]
    /\ log \subseteq Events
    /\ head \in Heads
    /\ streamHead \in [Streams -> Nat]
    /\ readModel \in [Streams -> Nat]
    /\ applied \subseteq Commands \X Nat
    /\ assets \subseteq [asset : Assets, meta : Payloads]
    /\ member \in MemberStates
    /\ writeState \in {"active", "paused_integrity"}
    /\ tampered \in BOOLEAN
    /\ pc \in [Workers -> {"idle", "authorize"} \cup InTransaction]
    /\ req \in [Workers -> Requests]
    /\ attempt \in [Workers -> 1..MaxAttempts]
    /\ tx \in [Workers -> Transactions]
    /\ audit \in [pc : {"idle", "locked", "verify"}, head : Heads]
    /\ answers \subseteq [req : Requests, result : Results]

EventsOf(c) == {e \in log : e.id[1] = c}

\* At most once: an idempotency key and a command id each have one receipt, the
\* receipt's range is exactly the events of its command, and no event is without one,
\* whatever was retried, lost or answered (reserve_or_lock and complete).
ReceiptsOwnTheLog ==
    /\ \A x, y \in receipts : (x.key = y.key \/ x.cmd = y.cmd) => x = y
    /\ \A x \in receipts :
         {e.pos : e \in EventsOf(x.cmd)} =
           IF x.result.first = 0 THEN {} ELSE x.result.first .. x.result.last
    /\ \A e \in log : \E x \in receipts : x.cmd = e.id[1]

\* The committed positions are dense, each event names the one before it, and the
\* Book head binds the last of them; the versions of every stream are dense, follow the
\* positions and end at its head (_append_batch under the head lock); the synchronous
\* projection has folded each of them once.
LogIsAChain ==
    /\ TerminalHashOk(log, head)
    /\ \A e, f \in log : e.pos = f.pos => e = f
    /\ \A s \in Streams :
         /\ {e.version : e \in In(s, log)} = 1..streamHead[s]
         /\ \A e, f \in In(s, log) : e.pos < f.pos => e.version < f.version
    /\ applied = {e.id : e \in log}
    /\ ~tampered => BalanceParityOk

\* Optimistic concurrency: two commands accepted under different keys never both
\* saw the same version of a stream they write (the expected stream versions).
NoLostUpdate ==
    \A a, b \in answers :
        a.req.key # b.req.key =>
          \A s \in Touched(a.req) \cap Touched(b.req) :
            a.req.expects[s] # b.req.expects[s]

\* The history of a Book is one line, and no writer's view of it is lost
\* (_append_batch, the synchronous projection, the expected versions).
HistoryIsLinear == LogIsAChain /\ NoLostUpdate

\* A success the client has seen is the committed receipt of its key and payload, so
\* all successes of one key agree, first answers and replays alike.
SuccessIsTheReceipt ==
    \A a \in answers :
        \E x \in receipts : /\ x.key = a.req.key
                            /\ x.hash[2] = a.req.payload
                            /\ x.result = a.result

\* Concurrent creations leave one row per asset code, made by one command.
AssetCreatedOnce ==
    /\ \A a, b \in assets : a.asset = b.asset => a = b
    /\ Cardinality({x \in receipts : x.result.body = "created"}) = Cardinality(assets)

\* The auditor reads head, events and balances in separate statements, yet it pauses a
\* Book only after an outside write: in-flight commands never look like corruption.
NoFalseAlarm == writeState # "active" => tampered

\* Once the pause is committed no command adds an event, not even one that read the
\* write state before.
PausedBookIsFrozen == [][writeState # "active" => log' = log]_vars

\* The actor still has the write scope when the events commit, however long ago the
\* command was authorized.
AuthorizedAtCommit == [][log' # log => member \in WriteStates.ledger]_vars

\* Every request a handler takes up ends: nobody waits for a lock for ever and the
\* retry loop gives up.
RequestsEnd == \A w \in Workers : pc[w] # "idle" ~> pc[w] = "idle"

-----------------------------------------------------------------------------
(* Refinement: the ledger's owners, the receipts and the answers behave as *)
(* ExactlyOnceLedger.                                                      *)

OwnerAt(p) == (CHOOSE e \in log : e.pos = p).id[1]

Ledger == INSTANCE ExactlyOnceLedger WITH
    BatchSizes <- {Len(r.events) : r \in Requests},
    Bodies     <- {"posted", "created", "reused"},
    ledger     <- [p \in 1..head.pos |-> OwnerAt(p)],
    outcomes   <- {[key |-> x.key, cmd |-> x.cmd, result |-> x.result] : x \in receipts},
    told       <- {[key |-> a.req.key, result |-> a.result] : a \in answers}

\* The bus implements the abstract ledger: with its locks, retries and faults it does
\* nothing a client could tell from commands executed once, one after the other.
RefinesExactlyOnce == Ledger!Spec
=============================================================================
