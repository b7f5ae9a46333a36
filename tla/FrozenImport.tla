----------------------------- MODULE FrozenImport -----------------------------
(***************************************************************************)
(* One frozen history on its way into a V2 Book: the plan is compiled, then *)
(* operators run the importer, one after another or at once, while other    *)
(* clients create and close accounts of the Book and post to it.            *)
(*                                                                         *)
(* A runner's database transaction is four steps: the receipt, the lock on  *)
(* the Book head, the fence on the catalog tables with everything that is   *)
(* checked behind it, and the commit.  A post and a change of an account's  *)
(* status hold the head lock from beginning to end and are one step; the    *)
(* creation of an account takes no lock but its row's, so it has two.       *)
(*                                                                         *)
(* The operators marked "Mutant" are in no behaviour, see CommandBus.       *)
(***************************************************************************)
EXTENDS FrozenHistory

CONSTANTS
    Unplanned,    \* no plan yet
    Cases,        \* [rows, review]: the histories and reviews considered
    Carried,      \* the ones among them whose import is followed to the end
    Runners,      \* invocations of the import command
    Stray,        \* an account of nobody's plan
    Baseline,     \* the accounts the Book was seeded with, all planned
    MaxAttempts,  \* bound: runs of the command by one runner
    MaxPosts,     \* bound: ordinary posts
    MaxChanges    \* bound: changes of an account's status

ASSUME ImportAssumption ==
    /\ Carried \subseteq Cases
    /\ Stray \notin Accounts /\ Baseline \subseteq Accounts
    /\ {MaxAttempts, MaxPosts, MaxChanges} \subseteq Nat

ASSUME CasesAreHistories ==
    \A c \in Cases :
      /\ IsHistory(c.rows) /\ IsReview(c.rows, c.review)
      /\ ReviewAccepted(c.rows, c.review) => Drafted(c.rows, c.review) # Refused

VARIABLES
    case,      \* the history and its accepted review
    plan,      \* Unplanned, Refused or the compiled plan
    status,    \* account -> "absent", "active" or "closed"
    log,       \* the Book's events
    archive,   \* the protected archive is stored
    receipt,   \* the receipt under the command's fixed key: "none" or "completed"
    step,      \* runner -> where its transaction is
    attempts,  \* runner -> runs begun
    answers,   \* the answers given: "inserted" or "replayed", as a sequence
    creating,  \* a client's account row is inserted and not committed
    changes    \* status changes made

vars == <<case, plan, status, log, archive, receipt, step, attempts, answers,
          creating, changes>>
bookVars == <<status, log, archive, receipt>>

Holding == {"locked", "fenced"}
HeadFree == \A r \in Runners : step[r] \notin Holding
Balance(a) == EventBalance(log, a)

Catalog == [a \in Accounts \cup {Stray} |-> IF a \in Baseline THEN "active" ELSE "absent"]
Planned == [a \in Accounts \cup {Stray} |->
              IF a = Stray THEN "absent" ELSE IF a = Alias THEN "closed" ELSE "active"]

Init ==
    /\ case \in {c \in Cases : ReviewAccepted(c.rows, c.review)}
    /\ plan = Unplanned
    /\ status = Catalog
    /\ log = <<>> /\ archive = FALSE /\ receipt = "none"
    /\ step = [r \in Runners |-> "idle"] /\ attempts = [r \in Runners |-> 0]
    /\ answers = <<>> /\ creating = FALSE /\ changes = 0

Plan ==
    /\ plan = Unplanned
    /\ plan' = Compiled(case.rows, case.review)
    /\ UNCHANGED <<case, bookVars, step, attempts, answers, creating, changes>>

-----------------------------------------------------------------------------
(* The runner. *)

Move(r, to) == step' = [step EXCEPT ![r] = to]

\* The key's row: a second runner waits while the first holds it uncommitted.
Reserve(r) ==
    /\ plan \notin {Unplanned, Refused} /\ case \in Carried
    /\ step[r] = "idle" /\ attempts[r] < MaxAttempts
    /\ \A o \in Runners : step[o] \notin Holding \cup {"reserved"}
    /\ attempts' = [attempts EXCEPT ![r] = @ + 1]
    /\ IF receipt = "completed"
         THEN Move(r, "answered") /\ answers' = Append(answers, "replayed")
         ELSE Move(r, "reserved") /\ UNCHANGED answers
    /\ UNCHANGED <<case, plan, bookVars, creating, changes>>

LockHead(r) ==
    /\ step[r] = "reserved" /\ HeadFree
    /\ Move(r, IF log = <<>> THEN "locked" ELSE "refused")
    /\ UNCHANGED <<case, plan, bookVars, attempts, answers, creating, changes>>

\* _preflight_catalog and _validate_financial_occupancy, behind the fence.
Admitted ==
    /\ {a \in DOMAIN status : status[a] # "absent"} = Baseline
    /\ \A a \in Baseline : status[a] = "active"
    /\ log = <<>> /\ ~archive /\ Balance(Alias) = 0

\* The fence waits for whoever has written to a catalog table.
Fence(r) ==
    /\ step[r] = "locked" /\ ~creating
    /\ Move(r, IF Admitted THEN "fenced" ELSE "refused")
    /\ UNCHANGED <<case, plan, bookVars, attempts, answers, creating, changes>>

\* The finalizer: the batch is the plan and every card ends where it should.
Finalized ==
    /\ log' = plan.events
    /\ \A a \in Cards : EventBalance(log', a) = -plan.natural[a]
    /\ EventBalance(log', Alias) = 0

Commit(r) ==
    /\ step[r] = "fenced"
    /\ log' = log \o plan.events
    /\ Finalized
    /\ status' = [a \in DOMAIN status |->
                    IF a = Alias THEN "closed"
                    ELSE IF a \in Accounts \ Baseline THEN "active" ELSE status[a]]
    /\ archive' = TRUE /\ receipt' = "completed"
    /\ Move(r, "committed")
    /\ UNCHANGED <<case, plan, attempts, answers, creating, changes>>

Answer(r) ==
    /\ step[r] = "committed"
    /\ Move(r, "answered") /\ answers' = Append(answers, "inserted")
    /\ UNCHANGED <<case, plan, bookVars, attempts, creating, changes>>

\* The process or its connection dies; what it had not committed is undone.
Die(r) ==
    /\ step[r] \in {"reserved", "committed"} \cup Holding
    /\ Move(r, "died")
    /\ UNCHANGED <<case, plan, bookVars, attempts, answers, creating, changes>>

\* The operator runs the command again.
Again(r) ==
    /\ step[r] \in {"answered", "refused", "died"} /\ attempts[r] < MaxAttempts
    /\ Move(r, "idle")
    /\ UNCHANGED <<case, plan, bookVars, attempts, answers, creating, changes>>

-----------------------------------------------------------------------------
(* The other clients of the Book. *)

Open == plan \notin {Unplanned, Refused} /\ case \in Carried

\* Mutant: nothing keeps a catalog write out.
NoFence == TRUE

\* An insert needs the lock mode that the fence shuts out.
FenceDown == \A r \in Runners : step[r] # "fenced"

CreateBegins ==
    /\ Open /\ FenceDown
    /\ ~creating /\ status[Stray] = "absent"
    /\ creating' = TRUE
    /\ UNCHANGED <<case, plan, bookVars, step, attempts, answers, changes>>

CreateEnds ==
    /\ creating
    /\ creating' = FALSE
    /\ \/ status' = [status EXCEPT ![Stray] = "active"]
       \/ UNCHANGED status
    /\ UNCHANGED <<case, plan, log, archive, receipt, step, attempts, answers, changes>>

\* close_account, which wants a zero balance, and reopen_account.
ChangeStatus(a) ==
    /\ Open /\ HeadFree /\ changes < MaxChanges
    /\ \/ status[a] = "active" /\ Balance(a) = 0 /\ status' = [status EXCEPT ![a] = "closed"]
       \/ status[a] = "closed" /\ status' = [status EXCEPT ![a] = "active"]
    /\ changes' = changes + 1
    /\ UNCHANGED <<case, plan, log, archive, receipt, step, attempts, answers, creating>>

\* Posts made so far: the events that are not the plan's.
Posts == Len(log) - (IF receipt = "completed" THEN Len(plan.events) ELSE 0)

UserEvent(a, b) ==
    [type |-> "posted", txn |-> NoTxn, of |-> NoTxn, month |-> 0, line |-> NoLine,
     postings |-> <<[account |-> a, units |-> 1, side |-> "debit"],
                    [account |-> b, units |-> 1, side |-> "credit"]>>]

Post(a, b) ==
    /\ Open /\ HeadFree /\ Posts < MaxPosts
    /\ status[a] = "active" /\ status[b] = "active" /\ a # b
    /\ log' = Append(log, UserEvent(a, b))
    /\ UNCHANGED <<case, plan, status, archive, receipt, step, attempts, answers, creating, changes>>

Next ==
    \/ Plan \/ CreateBegins \/ CreateEnds
    \/ \E r \in Runners : \/ Reserve(r) \/ LockHead(r) \/ Fence(r) \/ Commit(r)
                          \/ Answer(r) \/ Die(r) \/ Again(r)
    \/ \E a \in Baseline : ChangeStatus(a)
    \/ \E a, b \in Baseline : Post(a, b)

Spec == Init /\ [][Next]_vars

-----------------------------------------------------------------------------
(* Properties. *)

\* A plan that the planner hands out is accepted by the reducer of plans, comes from
\* rows that the reducer of rows accepts, and both, each written apart from the
\* planner, say the same of its events, balances, cards, reversals and months.
PlanTellsTheSource ==
    [][plan' \notin {plan, Refused} => Bound(plan', case.rows, case.review)]_vars

\* A review accepted against the source is never refused by the planner for its
\* card balances: only for what the review does not look at, a correction of
\* what was reversed, a reversal with a category or with its rows in another order,
\* a line of more than its transaction.
AcceptedReviewCompiles ==
    [][LET h == case.rows
           r == case.review
       IN  plan' # plan /\ plan' = Refused =>
             \/ Corrected(r) \cap Reversed(h) # {}
             \/ Categorised(h) \cap Reversing(h) # {}
             \/ \E s \in Categorised(h) : h[s].lineUnits > Debits(Mapped(h, r, s))
             \/ \E s \in Reversing(h) :
                  Mapped(h, r, s) # InversePostings(Mapped(h, r, Target(h, s)))]_vars

\* The planner and the source reducer, written apart from each other, agree on every
\* accepted review: on what the plan says, and on that there is one.
PlansAgree == PlanTellsTheSource /\ AcceptedReviewCompiles

\* read_ledger_readback_facts: what the tables say of the Book, each table read by
\* itself; the projections that keep them apply an event in its transaction.
StoredFacts == PlanFacts(log)

\* The reference an operator writes down for each case before the import.
Reference == [c \in Carried |-> SourceFacts(c.rows, c.review)]

\* verify_frozen_history: the stored ledger against the reference.
Verified == archive /\ StoredFacts = Reference[case]

\* Whole or not at all, through crashes, reruns and other clients: the receipt,
\* the archive and the events of the plan are there together, and only one answer
\* ever reports inserted rows.
ImportIsWhole ==
    /\ receipt = "completed" <=> archive
    /\ receipt = "completed" => SubSeq(log, 1, Len(plan.events)) = plan.events
    /\ receipt = "none" => Len(log) <= MaxPosts /\ answers = <<>>
    /\ Cardinality({i \in DOMAIN answers : answers[i] = "inserted"}) <= 1

\* The import leaves the planned catalog, no client's account having got in
\* between the preflight and the commit, and a ledger that verifies.
ImportIsExact ==
    [][receipt' # receipt => status' = Planned /\ Verified']_vars

\* The import is atomic and lands in the catalog it was planned for, whatever else
\* happens to the Book (import_frozen_financial_history, the fence around it).
ImportIsFaithful == []ImportIsWhole /\ ImportIsExact

=============================================================================
