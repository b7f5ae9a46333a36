--------------------------- MODULE MonthlyProjection ---------------------------
(***************************************************************************)
(* The asynchronous monthly category summary of one Book.  Runtimes elect  *)
(* a leader that projects the events after the Book's checkpoint in        *)
(* batches; a repair run calls the same worker without election; a         *)
(* rebuilder fills a shadow generation and swaps it in.  The workers and   *)
(* the rebuilders take different advisory locks, so they meet only at the  *)
(* row locks of the checkpoint, where a worker may find that the           *)
(* checkpoint it read is old.                                              *)
(*                                                                         *)
(* A step is one statement that waits, reads or commits; what a            *)
(* transaction writes becomes visible with its commit.  The rows of a      *)
(* generation are its net amount per month, for one category.              *)
(*                                                                         *)
(* The operators marked "Mutant" are in no behaviour, see CommandBus.      *)
(***************************************************************************)
EXTENDS Integers, Sequences, FiniteSets, FiniteSetsExt

CONSTANTS
    Runtimes,      \* API processes that run the projection loop
    Repairers,     \* offline repairs that wait for the projection
    Rebuilders,    \* shadow rebuilds
    Transactions,  \* ids of journal transactions
    Refunds,       \* the ones that count negative
    Months,
    Amounts,       \* units a reporting line can have
    BatchSize,
    MaxEvents,       \* bound on the length of the ledger
    MaxGenerations,  \* bound on the rebuilds
    MaxAborts        \* bound on the runs that fail

ASSUME ProjectionAssumption ==
    /\ BatchSize \in Nat \ {0} /\ MaxEvents \in Nat /\ MaxGenerations \in Nat
    /\ MaxAborts \in Nat
    /\ Amounts \subseteq Nat \ {0}
    /\ Runtimes \cap Repairers = {}

Workers == Runtimes \cup Repairers
Nobody == "nobody"

VARIABLES
    log,         \* the Book's committed events
    gens,        \* projection_generations and their summary rows
    checkpoint,  \* projection_checkpoints: [last, active], active 0: no row
    failures,    \* paused projection_failures: [gen, pos]
    leader,      \* the runtime whose session holds the election lock
    run,         \* workers: [pc, after, final, gen], gen 0: a new one
    aborts,      \* runs that failed so far
    rebuild      \* rebuilders: [pc, shadow, through]

tables == <<gens, checkpoint, failures>>
vars == <<log, tables, leader, run, aborts, rebuild>>

-----------------------------------------------------------------------------
(* Replay *)

Positions == 1..Len(log)
Is(p, kind, t) == log[p].kind = kind /\ log[p].tx = t

\* The month in which t was posted, and the months in which it was reversed.
PostedIn(t) == {log[p].month : p \in {q \in Positions : Is(q, "posted", t)}}
ReversedIn(t) == {log[p].month : p \in {q \in Positions : Is(q, "reversed", t)}}

\* The reporting units of t after position n: its last assignment, 0 once cleared.
Lines(t, n) ==
    LET changes == {p \in 1..n : Is(p, "assigned", t) \/ Is(p, "cleared", t)} IN
    IF changes = {} THEN 0 ELSE log[Max(changes)].units

Sign(t) == IF t \in Refunds THEN -1 ELSE 1

\* What event p adds to month m, classified as of position n.
Contribution(m, p, n) ==
    LET units == Sign(log[p].tx) * Lines(log[p].tx, n) IN
    CASE log[p].kind = "posted" /\ log[p].month = m   -> units
      [] log[p].kind = "reversed" /\ log[p].month = m -> -units
      [] OTHER -> 0

\* What the events 1..n add to month m.
MonthTotal(m, n) ==
    LET total[i \in 0..n] == IF i = 0 THEN 0 ELSE total[i - 1] + Contribution(m, i, n)
    IN  total[n]

Replay(n) == [m \in Months |-> MonthTotal(m, n)]

\* The replay of a range with an event of a contract this version does not know fails.
Unregistered(lo, hi) == {p \in lo..hi : log[p].kind = "unknown"}

\* Mutant: a changed classification touches the month of the posting only.
PostingPeriod(p) ==
    IF log[p].kind \in {"assigned", "cleared"} THEN PostedIn(log[p].tx)
    ELSE {log[p].month}

\* The months whose rows event p can change: its own, or those of the transaction it
\* classifies and of that transaction's reversal, as the synchronous tables show them.
AffectedPeriods(p) ==
    IF log[p].kind \in {"assigned", "cleared"}
      THEN PostedIn(log[p].tx) \cup ReversedIn(log[p].tx)
      ELSE {log[p].month}

DirtyPeriods(lo, hi) == UNION {AffectedPeriods(p) : p \in lo..hi}

-----------------------------------------------------------------------------
(* Locks *)

\* The advisory lock of run_once, held to the end of the transaction.
HoldsBook(w) == run[w].pc \in {"read", "lock", "write"}

BookFree(w) == \A o \in Workers \ {w} : ~HoldsBook(o)

\* The checkpoint row is locked by lock_projection_state and by the swap.
CheckpointFree ==
    /\ \A w \in Workers : run[w].pc # "write"
    /\ \A r \in Rebuilders : rebuild[r].pc # "swap"

ShadowFree(r, g) ==
    \A o \in Rebuilders \ {r} :
        ~(rebuild[o].pc \in {"build", "swap"} /\ rebuild[o].shadow = g)

-----------------------------------------------------------------------------
NoRun == [pc |-> "idle", after |-> 0, final |-> 0, gen |-> 0]
NoRebuild == [pc |-> "idle", shadow |-> 0, through |-> 0]

Init ==
    /\ log = <<>> /\ gens = <<>> /\ failures = {}
    /\ checkpoint = [last |-> 0, active |-> 0]
    /\ leader = Nobody /\ aborts = 0
    /\ run = [w \in Workers |-> NoRun]
    /\ rebuild = [r \in Rebuilders |-> NoRebuild]

-----------------------------------------------------------------------------
(* The ledger grows beside the projection *)

Event(kind, t, m, units) == [kind |-> kind, tx |-> t, month |-> m, units |-> units]

Legal(e) ==
    CASE e.kind = "posted"   -> PostedIn(e.tx) = {}
      [] e.kind = "reversed" -> PostedIn(e.tx) # {} /\ ReversedIn(e.tx) = {}
      [] e.kind \in {"assigned", "cleared"} -> PostedIn(e.tx) # {}
      [] e.kind = "unknown"  -> TRUE

\* A command commits an event; a classification may follow the reversal.
CommandCommits(e) ==
    /\ Len(log) < MaxEvents
    /\ Legal(e)
    /\ log' = Append(log, e)
    /\ UNCHANGED <<tables, leader, run, aborts, rebuild>>

-----------------------------------------------------------------------------
(* The worker, run_once *)

\* Mutant: the Book is pending only when a whole batch is.
PendingBatch == Len(log) > checkpoint.last + BatchSize /\ failures = {}

\* _load_pending_book_ids: there are events to project and no paused failure.
Pending == Len(log) > checkpoint.last /\ failures = {}

\* run_cycle takes the election lock.
TakeLead(w) ==
    /\ w \in Runtimes
    /\ run[w].pc = "idle"
    /\ leader = Nobody
    /\ leader' = w
    /\ run' = [run EXCEPT ![w].pc = "poll"]
    /\ UNCHANGED <<log, tables, aborts, rebuild>>

\* The coordinator's connection breaks; the run it started goes on.
LoseLead ==
    /\ leader # Nobody
    /\ leader' = Nobody
    /\ UNCHANGED <<log, tables, run, aborts, rebuild>>

\* The run ends, its transaction too, and the cycle gives the lead back.
End(w) ==
    /\ run' = [run EXCEPT ![w] = NoRun]
    /\ leader' = IF leader = w THEN Nobody ELSE leader

\* The leader runs the worker for a pending Book, else its cycle is over.
Poll(w) ==
    /\ run[w].pc = "poll"
    /\ IF Pending THEN run' = [run EXCEPT ![w].pc = "start"] /\ UNCHANGED leader
       ELSE End(w)
    /\ UNCHANGED <<log, tables, aborts, rebuild>>

\* An offline repair waits for the projection by running the worker itself.
CatchUp(w) ==
    /\ w \in Repairers
    /\ run[w].pc = "idle"
    /\ checkpoint.last < Len(log)
    /\ run' = [run EXCEPT ![w].pc = "start"]
    /\ UNCHANGED <<log, tables, leader, aborts, rebuild>>

\* Under the advisory lock: a paused failure ends the run, else the checkpoint is
\* read, without a lock on its row.
Begin(w) ==
    /\ run[w].pc = "start"
    /\ BookFree(w)
    /\ IF failures # {} THEN End(w)
       ELSE /\ run' = [run EXCEPT ![w].pc = "read", ![w].after = checkpoint.last]
            /\ UNCHANGED leader
    /\ UNCHANGED <<log, tables, aborts, rebuild>>

\* The position of the last event of at most BatchSize.
BatchEnd(w) == Min({run[w].after + BatchSize, Len(log)})

\* The batch is read; it may be empty when another run was faster.
ReadEvents(w) ==
    /\ run[w].pc = "read"
    /\ IF run[w].after = Len(log) THEN End(w)
       ELSE /\ run' = [run EXCEPT ![w].pc = "lock", ![w].final = BatchEnd(w)]
            /\ UNCHANGED leader
    /\ UNCHANGED <<log, tables, aborts, rebuild>>

\* lock_projection_state: the checkpoint is read again under its row lock, for the
\* generation that is active now; without one a new generation is inserted.
LockState(w) ==
    /\ run[w].pc = "lock"
    /\ CheckpointFree
    /\ run' = [run EXCEPT ![w].pc = "write", ![w].gen = checkpoint.active]
    /\ UNCHANGED <<log, tables, leader, aborts, rebuild>>

BatchUnregistered(w) == Unregistered(run[w].after + 1, run[w].final)

\* An unknown event pauses the Book; the generation just inserted stays building.
RecordFailure(w) ==
    LET g == IF run[w].gen = 0 THEN Len(gens) + 1 ELSE run[w].gen IN
    /\ run[w].pc = "write"
    /\ BatchUnregistered(w) # {}
    /\ failures' = failures \cup {[gen |-> g, pos |-> Min(BatchUnregistered(w)), by |-> w]}
    /\ gens' = IF run[w].gen # 0 THEN gens
               ELSE Append(gens, [state |-> "building", last |-> 0,
                                  target |-> run[w].final,
                                  rows |-> [m \in Months |-> 0]])
    /\ End(w)
    /\ UNCHANGED <<log, checkpoint, aborts, rebuild>>

\* The rows of the dirty months are replaced by a replay through the batch's end.
ReplacePeriods(w, old) ==
    [m \in Months |-> IF m \in DirtyPeriods(run[w].after + 1, run[w].final)
                      THEN MonthTotal(m, run[w].final) ELSE old[m]]

\* replace_periods, activate_or_advance and the commit; a first generation becomes
\* active with the checkpoint.  On its own, a mutant: no trigger looks at the cursor.
ProjectBatch(w) ==
    LET g == run[w].gen IN
    /\ run[w].pc = "write"
    /\ BatchUnregistered(w) = {}
    /\ gens' = IF g = 0
         THEN Append(gens, [state |-> "active", last |-> run[w].final,
                            target |-> run[w].final,
                            rows |-> ReplacePeriods(w, [m \in Months |-> 0])])
         ELSE [gens EXCEPT ![g].last = run[w].final,
                           ![g].target = Max({@, run[w].final}),
                           ![g].rows = ReplacePeriods(w, @)]
    /\ checkpoint' = [last |-> run[w].final, active |-> IF g = 0 THEN Len(gens) + 1 ELSE g]
    /\ End(w)
    /\ UNCHANGED <<log, failures, aborts, rebuild>>

\* The triggers let the cursor of the locked generation move forward only.
Advance(w) ==
    /\ run[w].gen # 0 => run[w].final >= gens[run[w].gen].last
    /\ ProjectBatch(w)

RefuseBackward(w) ==
    /\ run[w].pc = "write"
    /\ run[w].gen # 0 /\ run[w].final < gens[run[w].gen].last
    /\ BatchUnregistered(w) = {}
    /\ End(w)
    /\ UNCHANGED <<log, tables, aborts, rebuild>>

\* The process dies or a statement fails: the transaction rolls back.
Abort(w) ==
    /\ run[w].pc # "idle"
    /\ aborts < MaxAborts
    /\ aborts' = aborts + 1
    /\ End(w)
    /\ UNCHANGED <<log, tables, rebuild>>

-----------------------------------------------------------------------------
(* The rebuild *)

Unfinished == {g \in 1..Len(gens) : gens[g].state \in {"building", "catching_up"}}

\* The first transaction of _build_or_resume_shadow: the newest unfinished generation
\* is locked; one that is catching up is resumed as it is, else the head is read.
FindShadow(r) ==
    /\ rebuild[r].pc = "idle"
    /\ checkpoint.active # 0
    /\ LET g == IF Unfinished = {} THEN Len(gens) + 1 ELSE Max(Unfinished) IN
         /\ g <= MaxGenerations
         /\ ShadowFree(r, g)
         /\ rebuild' = [rebuild EXCEPT ![r] =
              IF g <= Len(gens) /\ gens[g].state = "catching_up"
                THEN [pc |-> "built", shadow |-> g, through |-> 0]
                ELSE [pc |-> "build", shadow |-> g, through |-> Len(log)]]
    /\ UNCHANGED <<log, tables, leader, run, aborts>>

Filled(r, state) ==
    [state |-> state, last |-> rebuild[r].through, target |-> rebuild[r].through,
     rows |-> Replay(rebuild[r].through)]

Replayable(r) == Unregistered(1, rebuild[r].through) = {}

\* The shadow's rows are replaced by the replay through the head and committed.
BuildShadow(r) ==
    LET g == rebuild[r].shadow IN
    /\ rebuild[r].pc = "build"
    /\ Replayable(r)
    /\ gens' = IF g > Len(gens) THEN Append(gens, Filled(r, "catching_up"))
               ELSE [gens EXCEPT ![g] = Filled(r, "catching_up")]
    /\ rebuild' = [rebuild EXCEPT ![r].pc = "built"]
    /\ UNCHANGED <<log, checkpoint, failures, leader, run, aborts>>

\* Another rebuild may have swapped this shadow in meanwhile.
Resumable(r) == gens[rebuild[r].shadow].state = "catching_up"

\* The second transaction: checkpoint, active and shadow rows are locked and the head
\* is read.
LockSwap(r) ==
    /\ rebuild[r].pc = "built"
    /\ CheckpointFree
    /\ ShadowFree(r, rebuild[r].shadow)
    /\ Resumable(r)
    /\ rebuild' = [rebuild EXCEPT ![r].pc = "swap", ![r].through = Len(log)]
    /\ UNCHANGED <<log, tables, leader, run, aborts>>

\* Mutant: the generation that was active is not retired.
SwapBesideActive(r) ==
    /\ rebuild[r].pc = "swap"
    /\ Replayable(r)
    /\ gens' = [gens EXCEPT ![rebuild[r].shadow] = Filled(r, "active")]
    /\ checkpoint' = [last |-> rebuild[r].through, active |-> rebuild[r].shadow]
    /\ rebuild' = [rebuild EXCEPT ![r] = NoRebuild]
    /\ UNCHANGED <<log, failures, leader, run, aborts>>

\* The shadow is filled once more, takes the place of the active generation, and the
\* checkpoint follows.
Swap(r) ==
    /\ rebuild[r].pc = "swap"
    /\ Replayable(r)
    /\ gens' = [gens EXCEPT ![checkpoint.active].state = "retired",
                            ![rebuild[r].shadow] = Filled(r, "active")]
    /\ checkpoint' = [last |-> rebuild[r].through, active |-> rebuild[r].shadow]
    /\ rebuild' = [rebuild EXCEPT ![r] = NoRebuild]
    /\ UNCHANGED <<log, failures, leader, run, aborts>>

\* An exception or the death of the process: the generation was inserted by another
\* rebuild first, an event is unknown, the shadow is not resumable, or any other.
StopRebuild(r) ==
    /\ rebuild[r].pc # "idle"
    /\ rebuild' = [rebuild EXCEPT ![r] = NoRebuild]
    /\ UNCHANGED <<log, tables, leader, run, aborts>>

-----------------------------------------------------------------------------
Ledger ==
    \/ \E t \in Transactions, m \in Months, k \in {"posted", "reversed"} :
         CommandCommits(Event(k, t, m, 0))
    \/ \E t \in Transactions, m \in Months, a \in Amounts :
         CommandCommits(Event("assigned", t, m, a))
    \/ \E t \in Transactions, m \in Months : CommandCommits(Event("cleared", t, m, 0))
    \/ \E t \in Transactions, m \in Months : CommandCommits(Event("unknown", t, m, 0))

\* run_once, from its first statement to its commit.
RunOnce(w) ==
    \/ Begin(w) \/ ReadEvents(w) \/ LockState(w)
    \/ RecordFailure(w) \/ Advance(w) \/ RefuseBackward(w)

Cycle(w) == TakeLead(w) \/ Poll(w) \/ RunOnce(w)

Rebuild(r) == BuildShadow(r) \/ LockSwap(r) \/ Swap(r)

Next ==
    \/ Ledger
    \/ \E w \in Workers : Cycle(w) \/ CatchUp(w) \/ Abort(w)
    \/ LoseLead
    \/ \E r \in Rebuilders : FindShadow(r) \/ Rebuild(r) \/ StopRebuild(r)

Spec == Init /\ [][Next]_vars

(***************************************************************************)
(* Fairness: run_forever polls without end and threads are scheduled; a    *)
(* row lock is granted in turn; a rebuild's transaction ends, one way or   *)
(* the other.  Commands, faults, repairs and rebuilds need not happen; the *)
(* runs that fail are finitely many (MaxAborts).                           *)
(***************************************************************************)
Fairness ==
    /\ \A w \in Runtimes : SF_vars(Cycle(w))
    /\ \A w \in Repairers : SF_vars(RunOnce(w))
    /\ \A r \in Rebuilders : WF_vars(Rebuild(r) \/ StopRebuild(r))

FairSpec == Spec /\ Fairness
-----------------------------------------------------------------------------
(* Properties *)

\* The rows of every filled generation are the cold replay through its cursor: the
\* dirty periods miss no month a batch changes, whichever generation becomes active
\* under a worker and however old the checkpoint was that it read.
GenerationsAreReplays ==
    \A g \in 1..Len(gens) :
        gens[g].state # "building" => gens[g].rows = Replay(gens[g].last)

\* Readers find one active generation through the checkpoint, at the same cursor,
\* however first activations, batches and swaps interleave.
ActiveFollowsCheckpoint ==
    LET active == {g \in 1..Len(gens) : gens[g].state = "active"} IN
    IF checkpoint.active = 0 THEN active = {} /\ checkpoint.last = 0
    ELSE active = {checkpoint.active} /\ gens[checkpoint.active].last = checkpoint.last

\* A month that was reported never loses events again: neither a worker that read an
\* old checkpoint nor a swap of an old shadow moves the cursor back.
CursorNeverRegresses == [][checkpoint'.last >= checkpoint.last]_vars

\* The cursor never passes an event this version cannot interpret, by either path, and the
\* event is recorded once although several workers may meet it.
NeverPastUnknown ==
    /\ Unregistered(1, checkpoint.last) = {}
    /\ Cardinality(failures) <= 1

\* Readers meet one cursor, that of the generation they are shown, and it only moves
\* forward over events this version knows (activate_or_advance, _catch_up_and_swap).
OneCursorForward == [](ActiveFollowsCheckpoint /\ NeverPastUnknown) /\ CursorNeverRegresses

\* Each committed event is projected in the end, unless the Book pauses visibly.
CatchesUp ==
    \A p \in 1..MaxEvents :
        Len(log) >= p ~> checkpoint.last >= p \/ failures # {}
=============================================================================
