----------------------------- MODULE ExpenseRepair -----------------------------
(***************************************************************************)
(* The operator's repair of expenses that were once posted to an account   *)
(* named like a category: each is reversed at its own date and entered     *)
(* again through the clearing account with a category, and the mistaken    *)
(* account is closed.  The plan is fixed; the tool may be run again, twice *)
(* at once, or die anywhere, and the service stays live beside it.         *)
(*                                                                         *)
(* A repair is one financial command (see CommandBus), which appends the   *)
(* reversal and the new entry together.  One payment account, one mistaken *)
(* account, one asset; each expense is of one unit.                        *)
(*                                                                         *)
(* The operators marked "Mutant" are in no behaviour, see CommandBus.      *)
(***************************************************************************)
EXTENDS Integers, FiniteSets

CONSTANTS
    Operators,     \* runs of the tool
    Expenses,      \* the transactions of the plan
    MaxRuns,       \* bounds the runs
    MaxLive        \* bounds what users do meanwhile

ASSUME PlanIsNotEmpty == IsFiniteSet(Expenses) /\ Expenses # {}

VARIABLES
    balances,      \* of the payment, the mistaken and the clearing account, in units
    mistaken,      \* the status of the mistaken account
    original,      \* by expense: [reversedBy, classified]
    replacement,   \* by expense: [posted, category, reversed]
    catalog,       \* the rows the tool provides: the category, the internal accounts
    tool,          \* of a run: where it is, the payment balance it found, what users had
                   \* done when it began, and the `verified' of that moment
    runs,          \* how many runs were begun
    live,          \* what users did: spent, posted to the mistaken account, and other changes
    verified,      \* what users had done when the first run that succeeded began
    told           \* the last answer, the step it came from, and what its run began after

repairVars ==
    <<balances, mistaken, original, replacement, catalog, tool, runs, live, verified, told>>

book == <<balances, original, replacement>>

Pending == [posted |-> FALSE, category |-> "none", reversed |-> FALSE]
Off == [step |-> "off"]
NotYet == [spent |-> -1, posted |-> -1, other |-> -1]
Quiet == [said |-> "nothing", at |-> "off", since |-> NotYet, after |-> NotYet]

Moved(from, to, units) == [balances EXCEPT ![from] = @ - units, ![to] = @ + units]

-----------------------------------------------------------------------------
(* The tool *)

AtStep(p, step) == tool[p].step = step

Proceed(p, t) ==
    /\ tool' = [tool EXCEPT ![p] = t]
    /\ told' = Quiet
    /\ UNCHANGED <<runs, live, verified>>

Stop(p, said) ==
    /\ tool' = [tool EXCEPT ![p] = Off]
    /\ told' = [said |-> said, at |-> tool[p].step, since |-> tool[p].since,
                after |-> tool[p].after]
    /\ verified' = IF said = "success" /\ verified = NotYet THEN tool[p].since ELSE verified
    /\ UNCHANGED <<runs, live>>

Candidate(e) ==
    /\ original[e].reversedBy # "user"
    /\ ~original[e].classified

\* A dry run ends here, in a transaction that cannot write.
Inspect(p, apply) ==
    LET Answer(said) ==
          /\ told' = [said |-> said, at |-> "inspect", since |-> live, after |-> verified]
          /\ tool' = tool
    IN /\ tool[p] = Off /\ runs < MaxRuns
       /\ runs' = runs + 1
       /\ IF \E e \in Expenses : ~Candidate(e) THEN Answer("mismatch")
          ELSE IF ~apply THEN Answer("dry_run")
          ELSE /\ tool' = [tool EXCEPT ![p] =
                             [step |-> "category", payment |-> balances.payment,
                              left |-> Expenses, since |-> live, after |-> verified]]
               /\ told' = Quiet
       /\ UNCHANGED <<book, mistaken, catalog, live, verified>>

\* A statement finds the row as planned, finds another one, or finds none.
Lookup(p, what, missing, next) ==
    /\ AtStep(p, what)
    /\ IF catalog[what] \in {"absent", "planned"}
       THEN Proceed(p, [tool[p] EXCEPT !.step =
                          IF catalog[what] = "absent" THEN missing ELSE next])
       ELSE Stop(p, "failed")
    /\ UNCHANGED <<book, mistaken, catalog>>

\* A later statement inserts what was not found and commits; when somebody else has done
\* so in between, the insert waits for him and violates the row's key.
Create(p, what, missing, next) ==
    /\ AtStep(p, missing)
    /\ IF catalog[what] = "absent"
       THEN /\ catalog' = [catalog EXCEPT ![what] = "planned"]
            /\ Proceed(p, [tool[p] EXCEPT !.step = next])
       ELSE Stop(p, "failed") /\ UNCHANGED catalog
    /\ UNCHANGED <<book, mistaken>>

EnsureCategories(p) ==
    \/ Lookup(p, "category", "new_category", "accounts")
    \/ Create(p, "category", "new_category", "accounts")

EnsureAccounts(p) ==
    \/ Lookup(p, "accounts", "new_accounts", "repair")
    \/ Create(p, "accounts", "new_accounts", "repair")

\* Mutant: the receipt of a repair is not looked for.
NeverRepaired(e) == FALSE

RepairReceipt(e) == replacement[e].posted

\* Mutant: a transaction that is reversed is reversed again.
AlwaysReversible(e) == TRUE

Reversible(e) == original[e].reversedBy = "nobody"

\* The category and the clearing account must be there and active, too.
Repairable(e) ==
    /\ Reversible(e) /\ ~original[e].classified
    /\ catalog.category = "planned" /\ catalog.accounts = "planned"

\* The expenses of the plan in turn: the replayed, the repaired, the one that fails.
Repair(p, e) ==
    /\ AtStep(p, "repair") /\ e \in tool[p].left
    /\ IF RepairReceipt(e) \/ Repairable(e)
       THEN Proceed(p, [tool[p] EXCEPT !.left = @ \ {e}])
       ELSE Stop(p, "failed")
    /\ IF ~RepairReceipt(e) /\ Repairable(e)
       THEN /\ original' = [original EXCEPT ![e].reversedBy = "repair"]
            /\ replacement' = [replacement EXCEPT ![e] =
                                 [posted |-> TRUE, category |-> "wanted", reversed |-> FALSE]]
            /\ balances' = [balances EXCEPT !.mistaken = @ - 1, !.clearing = @ + 1]
       ELSE UNCHANGED book
    /\ UNCHANGED <<mistaken, catalog>>

CloseMistaken(p) ==
    /\ AtStep(p, "repair") /\ tool[p].left = {}
    /\ IF mistaken = "active" /\ balances.mistaken # 0
       THEN Stop(p, "failed") /\ UNCHANGED mistaken
       ELSE Proceed(p, [tool[p] EXCEPT !.step = "catch_up"]) /\ mistaken' = "closed"
    /\ UNCHANGED <<book, catalog>>

\* The projection's own worker, which may be paused (see MonthlyProjection).
CatchUp(p) ==
    /\ AtStep(p, "catch_up")
    /\ \/ Proceed(p, [tool[p] EXCEPT !.step = "verify"])
       \/ Stop(p, "not_caught_up")
    /\ UNCHANGED <<book, mistaken, catalog>>

\* One transaction compares the plan, what was inspected, and the Book.
AsPlanned(p) ==
    /\ \A e \in Expenses : /\ original[e].reversedBy = "repair"
                           /\ replacement[e].posted /\ replacement[e].category = "wanted"
    /\ mistaken = "closed" /\ balances.mistaken = 0
    /\ balances.payment = tool[p].payment

Verify(p) ==
    /\ AtStep(p, "verify")
    /\ Stop(p, IF AsPlanned(p) THEN "success" ELSE "failed")
    /\ UNCHANGED <<book, mistaken, catalog>>

\* The tool is killed, or the database is away.
ToolDies(p) ==
    /\ tool[p] # Off
    /\ Stop(p, "nothing")
    /\ UNCHANGED <<book, mistaken, catalog>>

-----------------------------------------------------------------------------
(* The live service: what the other modules describe, as far as it matters here *)

Lives(what) ==
    /\ live.spent + live.posted + live.other < MaxLive
    /\ live' = [live EXCEPT ![what] = @ + 1]
    /\ told' = Quiet
    /\ UNCHANGED <<tool, runs, verified>>

\* A purchase paid from the payment account.
Spend ==
    /\ Lives("spent")
    /\ balances' = [balances EXCEPT !.payment = @ - 1]
    /\ UNCHANGED <<mistaken, original, replacement, catalog>>

PostAgain ==
    /\ mistaken = "active"
    /\ Lives("posted")
    /\ balances' = Moved("payment", "mistaken", 1)
    /\ UNCHANGED <<mistaken, original, replacement, catalog>>

\* A reversal passes an ordinary account that is closed.
ReverseOriginal(e) ==
    /\ original[e].reversedBy = "nobody"
    /\ Lives("other")
    /\ original' = [original EXCEPT ![e].reversedBy = "user"]
    /\ balances' = Moved("mistaken", "payment", 1)
    /\ UNCHANGED <<mistaken, replacement, catalog>>

ReverseReplacement(e) ==
    /\ replacement[e].posted /\ ~replacement[e].reversed
    /\ Lives("other")
    /\ replacement' = [replacement EXCEPT ![e].reversed = TRUE]
    /\ balances' = Moved("clearing", "payment", 1)
    /\ UNCHANGED <<mistaken, original, catalog>>

\* Reporting lines may go to the original too, even when it is reversed.
Classify(e) ==
    /\ ~original[e].classified
    /\ Lives("other")
    /\ original' = [original EXCEPT ![e].classified = TRUE]
    /\ UNCHANGED <<balances, mistaken, replacement, catalog>>

Reclassify(e) ==
    /\ replacement[e].posted /\ replacement[e].category = "wanted"
    /\ Lives("other")
    /\ replacement' = [replacement EXCEPT ![e].category = "other"]
    /\ UNCHANGED <<balances, mistaken, original, catalog>>

SwitchMistaken ==
    /\ mistaken = "closed" \/ balances.mistaken = 0
    /\ Lives("other")
    /\ mistaken' = IF mistaken = "closed" THEN "active" ELSE "closed"
    /\ UNCHANGED <<book, catalog>>

\* The clearing account may be closed and opened like any other, and an account of its role
\* may have been created before the tool looks for one.
SwitchClearing ==
    /\ catalog.accounts = "closed" \/ (catalog.accounts = "planned" /\ balances.clearing = 0)
    /\ Lives("other")
    /\ catalog' = [catalog EXCEPT !.accounts = IF @ = "closed" THEN "planned" ELSE "closed"]
    /\ UNCHANGED <<book, mistaken>>

TakeRole ==
    /\ catalog.accounts = "absent"
    /\ Lives("other")
    /\ catalog' = [catalog EXCEPT !.accounts = "foreign"]
    /\ UNCHANGED <<book, mistaken>>

-----------------------------------------------------------------------------
RepairInit ==
    /\ balances = [payment |-> -Cardinality(Expenses), mistaken |-> Cardinality(Expenses),
                   clearing |-> 0]
    /\ mistaken = "active"
    /\ original = [e \in Expenses |-> [reversedBy |-> "nobody", classified |-> FALSE]]
    /\ replacement = [e \in Expenses |-> Pending]
    /\ catalog = [category |-> "absent", accounts |-> "absent"]
    /\ tool = [p \in Operators |-> Off]
    /\ runs = 0
    /\ live = [spent |-> 0, posted |-> 0, other |-> 0]
    /\ verified = NotYet
    /\ told = Quiet

RepairNext ==
    \/ \E p \in Operators :
         \/ \E apply \in BOOLEAN : Inspect(p, apply)
         \/ EnsureCategories(p) \/ EnsureAccounts(p)
         \/ \E e \in Expenses : Repair(p, e)
         \/ CloseMistaken(p) \/ CatchUp(p) \/ Verify(p) \/ ToolDies(p)
    \/ Spend \/ PostAgain \/ SwitchMistaken \/ SwitchClearing \/ TakeRole
    \/ \E e \in Expenses :
         ReverseOriginal(e) \/ ReverseReplacement(e) \/ Classify(e) \/ Reclassify(e)

RepairSpec == RepairInit /\ [][RepairNext]_repairVars

-----------------------------------------------------------------------------
(* Properties *)

\* Whatever order runs, deaths and users take, the repairs move nothing but the expense: the
\* mistaken account carries the expenses nobody reversed, the clearing account those that
\* were entered again, and the payment account each expense once
\* (_build_repair_plan, _load_reversal_source).
RepairsMoveTheExpense ==
    LET standing == {e \in Expenses : original[e].reversedBy = "nobody"}
        entered == {e \in Expenses : replacement[e].posted /\ ~replacement[e].reversed}
    IN /\ balances.mistaken = Cardinality(standing) + live.posted
       /\ balances.clearing = Cardinality(entered)
       /\ balances.payment = -(Cardinality(standing) + Cardinality(entered) + live.spent + live.posted)

\* Running the plan again verifies it (docs/operations/everyday-entry-history-repair.md): a
\* run that begins after one that succeeded does not fail, unless a user changed something
\* since either of them began.  One that began before may still fail, but only where it
\* inserts what the other has inserted after it looked (ensure_repair_categories,
\* ensure_internal_accounts).  A projection that does not catch up and a database that is
\* away have answers of their own.
RerunsVerify ==
    verified = live /\ told.since = live /\ told.said \in {"failed", "mismatch"}
      => told.after = NotYet /\ told.at \in {"new_category", "new_accounts"}
================================================================================
