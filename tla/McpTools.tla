------------------------------- MODULE McpTools -------------------------------
(***************************************************************************)
(* The tools an agent writes with over MCP.  Every call carries a request  *)
(* id, and a call whose answer is lost or unknown is made again with the   *)
(* same id and arguments, possibly while the first one still runs.         *)
(*                                                                         *)
(* Three ways make that safe.  Books, accounts and categories get an id    *)
(* derived from the request, and are looked for before they are created.   *)
(* Assets, renames, cards and ledger commands leave a receipt.  Closing    *)
(* and reopening an account rest on its status alone.                      *)
(*                                                                         *)
(* A call is a few transactions of its own, one action each; what a ledger *)
(* command does is in Journal and CommandBus, and here an effect.  REST    *)
(* clients choose the ids of what they create.  One Book, one user.        *)
(*                                                                         *)
(* The operators marked "Mutant" are in no behaviour, see CommandBus.      *)
(***************************************************************************)
EXTENDS Integers, Sequences, FiniteSets

CONSTANTS
    ToolRuns,      \* tool processes
    ToolCalls,     \* what agents call, made by the operators below
    RestNames,     \* the category ids REST clients choose
    MaxCalls       \* bounds the calls

VARIABLES
    rows,          \* the catalog, by id: [name, parent, status, version]
    toolReceipts,  \* command_receipts, account_mutations, payment_instrument_mutations
    doing,         \* of a process: its call, the step it is at, whether it wrote
    calls,         \* how many calls were begun
    effects,       \* what was committed, in order: the calls
    reply,         \* the answer of the last step, if it ended a call
    firsts         \* how often a key was answered "committed", not "replayed"

toolVars == <<rows, toolReceipts, doing, calls, effects, reply, firsts>>

\* Ids are tuples, names are strings.
Unset == <<"unset">>
RestIds == {<<"rest", n>> : n \in RestNames}

-----------------------------------------------------------------------------
(* The tools *)

ToolCall(tool, request, target, name, parent) ==
    [tool |-> tool, request |-> request, target |-> target, name |-> name, parent |-> parent]

CreateBook(r, name) == ToolCall("book", r, Unset, name, Unset)
CreateAccount(r, name) == ToolCall("account", r, Unset, name, Unset)
CreateCategory(r, name, parent) == ToolCall("category", r, Unset, name, parent)
CreateAsset(r, code, name) == ToolCall("asset", r, <<"asset", code>>, name, Unset)
RenameAccountTo(r, account, name) == ToolCall("rename", r, account, name, Unset)
CreatePaymentCard(r, account, name) == ToolCall("card", r, account, name, Unset)
CloseAccountBy(r, account) == ToolCall("close", r, account, "", Unset)
ReopenAccountBy(r, account) == ToolCall("reopen", r, account, "", Unset)
RecordTransfer(r, amount) == ToolCall("transfer", r, Unset, amount, Unset)
ReverseTransaction(r, of) == ToolCall("reverse", r, of, "", Unset)

Named == {"book", "account", "category"}
Flips == {"close", "reopen"}

ASSUME CallsAreMade ==
    \A c \in ToolCalls :
        /\ c = ToolCall(c.tool, c.request, c.target, c.name, c.parent)
        /\ c.tool \in Named => c.target = Unset
        /\ c.tool # "category" => c.parent = Unset
        /\ c.tool = "asset" => c.target[1] = "asset"

\* uuid5 of the user, the Book, the tool and the request; also the idempotency key.
Key(c) == <<c.tool, c.request>>

\* Mutant: a new id for every run.
FreshId(c, p) == <<c.tool, c.request, p>>

EntityId(c, p) == Key(c)

Row(c) == [name |-> c.name, parent |-> c.parent, status |-> "active", version |-> 1]
Exists(id) == id \in DOMAIN rows
With(f, id, x) == [i \in DOMAIN f \cup {id} |-> IF i = id THEN x ELSE f[i]]

\* Categories whose parents lead back to them, so that their path has no end.
IsCategory(id) == id[1] \in {"category", "rest"}
Endless ==
    UNION {S \in SUBSET {id \in DOMAIN rows : IsCategory(id)} : \A id \in S : rows[id].parent \in S}

-----------------------------------------------------------------------------
AtRest == [step |-> "rest"]
NoReply == [said |-> "nothing"]

\* Calls on an account name one that a call created.
BeginCall(p, c) ==
    /\ doing[p] = AtRest /\ calls < MaxCalls
    /\ calls' = calls + 1
    /\ doing' = [doing EXCEPT ![p] =
         [step |-> IF c.tool \in Named \cup Flips \cup {"card"} THEN "look" ELSE "write",
          call |-> c, replayed |-> FALSE, wrote |-> FALSE]]
    /\ reply' = NoReply
    /\ UNCHANGED <<rows, toolReceipts, effects, firsts>>

Goes(p, step, replayed, wrote) ==
    /\ doing' = [doing EXCEPT ![p] = [@ EXCEPT !.step = step, !.replayed = replayed, !.wrote = wrote]]
    /\ reply' = NoReply
    /\ UNCHANGED <<calls, firsts>>

Says(p, said, replayed, wrote) ==
    LET key == Key(doing[p].call) IN
    /\ doing' = [doing EXCEPT ![p] = AtRest]
    /\ reply' = [said |-> said, call |-> doing[p].call, replayed |-> replayed, wrote |-> wrote]
    /\ firsts' = IF said = "committed" /\ ~replayed
                 THEN [firsts EXCEPT ![key] = @ + 1] ELSE firsts
    /\ UNCHANGED calls

\* The process dies or the connection breaks: nobody hears an answer.
Abandon(p) ==
    /\ doing[p] # AtRest
    /\ doing' = [doing EXCEPT ![p] = AtRest]
    /\ reply' = NoReply
    /\ UNCHANGED <<rows, toolReceipts, calls, effects, firsts>>

-----------------------------------------------------------------------------
(* Before the write *)

Looks(p, tools) ==
    /\ doing[p] # AtRest
    /\ doing[p].step = "look" /\ doing[p].call.tool \in tools
    /\ UNCHANGED <<rows, toolReceipts, effects>>

\* The read before the write fails: "No catalog write was attempted."
LookFails(p) == Looks(p, Named \cup Flips) /\ Says(p, "not attempted", FALSE, FALSE)

\* Whether a row is what the call would have created.
SameArguments(c, row) == row.name = c.name /\ row.parent = c.parent

\* A category is looked up among all, with their paths, and so is its parent.
LookForCreated(p) ==
    /\ Looks(p, Named)
    /\ LET c == doing[p].call
           id == EntityId(c, p)
       IN IF c.tool = "category" /\ Endless # {}
          THEN Says(p, "not attempted", FALSE, FALSE)
          ELSE IF Exists(id)
          THEN Says(p, IF SameArguments(c, rows[id]) THEN "committed" ELSE "refused", TRUE, FALSE)
          ELSE IF c.parent # Unset /\ ~(Exists(c.parent) /\ rows[c.parent].status = "active")
          THEN Says(p, "refused", FALSE, FALSE)
          ELSE Goes(p, "write", FALSE, FALSE)

StatusAfter(tool) == IF tool = "close" THEN "closed" ELSE "active"

LookAtStatus(p) ==
    /\ Looks(p, Flips)
    /\ LET c == doing[p].call IN
       IF ~Exists(c.target) THEN Says(p, "refused", FALSE, FALSE)
       ELSE IF rows[c.target].status = StatusAfter(c.tool) THEN Says(p, "committed", TRUE, FALSE)
       ELSE Goes(p, "write", FALSE, FALSE)

\* The card tool calls replayed what exists already; the write does not correct that.
LookForCard(p) ==
    /\ Looks(p, {"card"})
    /\ Goes(p, "write", Exists(Key(doing[p].call)), FALSE)

-----------------------------------------------------------------------------
(* The write, one transaction *)

Writes(p, tools) ==
    /\ doing[p] # AtRest
    /\ doing[p].step = "write" /\ doing[p].call.tool \in tools

\* The transaction commits; its answer may be lost.
Commits(p, next) ==
    /\ effects' = Append(effects, doing[p].call)
    /\ \/ Goes(p, next, doing[p].replayed, TRUE)
       \/ Says(p, "unknown", FALSE, TRUE)

NothingWritten == UNCHANGED <<rows, toolReceipts, effects>>

Denied(p) == Says(p, "refused", FALSE, FALSE) /\ NothingWritten

\* Any other error, before the commit.
WriteFails(p) ==
    /\ doing[p] # AtRest /\ doing[p].step = "write"
    /\ Says(p, "unknown", FALSE, FALSE)
    /\ NothingWritten

\* A second row of an id violates the primary key, which reads as an unknown outcome.
WriteNamed(p) ==
    /\ Writes(p, Named)
    /\ LET c == doing[p].call
           id == EntityId(c, p)
       IN IF Exists(id)
          THEN Says(p, "unknown", FALSE, FALSE) /\ NothingWritten
          ELSE /\ rows' = With(rows, id, Row(c))
               /\ UNCHANGED toolReceipts
               /\ Commits(p, "read back")

\* close_account refuses a balance too, see Journal.
WriteStatus(p) ==
    /\ Writes(p, Flips)
    /\ LET c == doing[p].call IN
       \/ Denied(p)
       \/ /\ rows[c.target].status # StatusAfter(c.tool)
          /\ rows' = [rows EXCEPT ![c.target].status = StatusAfter(c.tool)]
          /\ UNCHANGED toolReceipts
          /\ Commits(p, "read back")

\* Mutant: the receipt of a call is not looked for.
NoReceiptFor(c) == FALSE

HasReceipt(c) == Key(c) \in DOMAIN toolReceipts

\* The stored result, for the same arguments only.
FromReceipt(p) ==
    LET c == doing[p].call IN
    /\ NothingWritten
    /\ IF toolReceipts[Key(c)].call = c
       THEN Goes(p, "read back", c.tool # "card" \/ doing[p].replayed, FALSE)
       ELSE Says(p, "refused", FALSE, FALSE)

Receipted(c, after) == toolReceipts' = With(toolReceipts, Key(c), [call |-> c, after |-> after])

\* An asset that exists with the same name is reused.
WriteAsset(p) ==
    /\ Writes(p, {"asset"})
    /\ LET c == doing[p].call IN
       IF HasReceipt(c) THEN FromReceipt(p)
       ELSE IF Exists(c.target) /\ ~SameArguments(c, rows[c.target]) THEN Denied(p)
       ELSE /\ rows' = With(rows, c.target, Row(c))
            /\ Receipted(c, Row(c))
            /\ Commits(p, "read back")

\* The new card of an account that is open.
WriteCard(p) ==
    /\ Writes(p, {"card"})
    /\ LET c == doing[p].call IN
       IF HasReceipt(c) THEN FromReceipt(p)
       ELSE IF ~(Exists(c.target) /\ rows[c.target].status = "active") THEN Denied(p)
       ELSE /\ rows' = With(rows, Key(c), Row(c))
            /\ Receipted(c, Row(c))
            /\ Commits(p, "read back")

WriteName(p) ==
    /\ Writes(p, {"rename"})
    /\ LET c == doing[p].call
           after == [rows[c.target] EXCEPT !.name = c.name, !.version = @ + 1]
       IN IF HasReceipt(c) THEN FromReceipt(p)
          ELSE IF ~Exists(c.target) THEN Denied(p)
          ELSE /\ rows' = [rows EXCEPT ![c.target] = after]
               /\ Receipted(c, after)
               /\ Commits(p, "verify")

\* A financial command of the bus: its receipt is written with its events.
WriteLedger(p) ==
    /\ Writes(p, {"transfer", "reverse"})
    /\ LET c == doing[p].call IN
       IF HasReceipt(c) THEN FromReceipt(p)
       ELSE /\ Receipted(c, Row(c))
            /\ UNCHANGED rows
            /\ Commits(p, "read back")

-----------------------------------------------------------------------------
(* After the write *)

\* A rename is verified in a second transaction: another change in between is an error.
VerifyName(p) ==
    /\ doing[p] # AtRest /\ doing[p].step = "verify"
    /\ LET c == doing[p].call IN
       IF rows[c.target] = toolReceipts[Key(c)].after
       THEN Goes(p, "read back", doing[p].replayed, doing[p].wrote)
       ELSE Says(p, "unknown", FALSE, doing[p].wrote)
    /\ NothingWritten

\* What is read back is shown, or pending when the read fails.
ReadBack(p) ==
    /\ doing[p] # AtRest /\ doing[p].step = "read back"
    /\ Says(p, "committed", doing[p].replayed, doing[p].wrote)
    /\ NothingWritten

\* A row may reference itself: the foreign key holds once it is inserted.
ParentAllowed(id, parent) == parent = Unset \/ Exists(parent) \/ parent = id

\* A REST client creates a category under an id of its own.
RestCategory(id, parent) ==
    /\ ~Exists(id)
    /\ ParentAllowed(id, parent)
    /\ rows' = With(rows, id, [name |-> "rest", parent |-> parent, status |-> "active",
                               version |-> 1])
    /\ reply' = NoReply
    /\ UNCHANGED <<toolReceipts, doing, calls, effects, firsts>>

-----------------------------------------------------------------------------
ToolsInit ==
    /\ rows = <<>>
    /\ toolReceipts = <<>>
    /\ doing = [p \in ToolRuns |-> AtRest]
    /\ calls = 0
    /\ effects = <<>>
    /\ reply = NoReply
    /\ firsts = [k \in {Key(c) : c \in ToolCalls} |-> 0]

ToolsNext ==
    \/ \E p \in ToolRuns :
         \/ \E c \in ToolCalls : BeginCall(p, c)
         \/ Abandon(p)
         \/ LookFails(p) \/ LookForCreated(p) \/ LookAtStatus(p) \/ LookForCard(p)
         \/ WriteFails(p) \/ WriteNamed(p) \/ WriteStatus(p) \/ WriteAsset(p)
         \/ WriteCard(p) \/ WriteName(p) \/ WriteLedger(p)
         \/ VerifyName(p) \/ ReadBack(p)
    \/ \E id \in RestIds, parent \in RestIds \cup {Unset} : RestCategory(id, parent)

ToolsSpec == ToolsInit /\ [][ToolsNext]_toolVars

-----------------------------------------------------------------------------
(* Properties *)

EffectsOf(key) == {n \in DOMAIN effects : Key(effects[n]) = key}

\* What a call would create was created at n, and bears the name of the call since.
RenamedTo(c, n) ==
    \E m \in DOMAIN effects :
        /\ m > n
        /\ effects[m].tool = "rename" /\ effects[m].target = Key(c) /\ effects[m].name = c.name

\* However often a call is made again, in parallel or after an unknown outcome, it takes
\* effect once, and with other arguments under its request id not at all; closing and
\* reopening keep no receipt and are not meant here (_catalog_entity_id, _write_ids,
\* CreateOrReuseAssetCommand, account_mutations).
CallsTakeEffectOnce ==
    \A c \in ToolCalls : c.tool \notin Flips => Cardinality(EffectsOf(Key(c))) <= 1

\* An agent can act on what it is told. "Committed" is true of just these arguments,
\* "replayed" is said by every run but the one that wrote, so that one answer at most is
\* the first, and a call that was refused or not attempted has written nothing; only the
\* card tool may call a replay the first (_call_catalog_write, _write_response).
RepliesAreTrue ==
    reply # NoReply =>
        LET c == reply.call IN
        /\ reply.said = "committed" /\ c.tool \notin Flips =>
               \E n \in EffectsOf(Key(c)) : effects[n] = c \/ RenamedTo(c, n)
        /\ reply.said = "committed" /\ c.tool # "card" =>
               reply.replayed = ~reply.wrote
        /\ c.tool \notin Flips \cup {"card"} => firsts[Key(c)] <= 1
        /\ reply.said \in {"refused", "not attempted"} => ~reply.wrote

\* Every category has a path: following its parents comes to an end. Otherwise no category
\* of the Book can be listed (_read_category_details_from_session).
PathsEnd == Endless = {}
================================================================================
