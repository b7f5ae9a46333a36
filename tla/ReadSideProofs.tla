---------------------------- MODULE ReadSideProofs ----------------------------
(***************************************************************************)
(* Theorems about what is read of a Book while it is written: the monthly  *)
(* summary projection and the queries.                                     *)
(*                                                                         *)
(* The projection: for any number of runtimes, repairs and rebuilders, any *)
(* batch size and any ledger, the readers find one active generation at    *)
(* one cursor, and the cursor only moves forward, over events this version *)
(* knows.  The argument rests on the locks: the advisory lock of the Book  *)
(* keeps the workers apart, so that none begins beside a paused failure    *)
(* and the checkpoint a worker read is never ahead of the one it will      *)
(* find; the row lock of the checkpoint keeps a worker that writes and a   *)
(* rebuilder that swaps apart, so that the generation either of them has   *)
(* found active is still active when it commits; and the locks of the      *)
(* shadow rows keep a rebuilder from filling a generation that became      *)
(* active.                                                                 *)
(*                                                                         *)
(* The queries: for any writers, what was read of a position stays what    *)
(* is read there, because the log only grows and an entry is booked once.  *)
(* So the pages of a reading are the beginning of one statement's answer,  *)
(* a revision that is still the written one names the written lines, and   *)
(* the lines of an entry, or of the one it inherits from, fit its amount.  *)
(***************************************************************************)
EXTENDS MonthlyProjection, BookQueries, SetSums, TLAPS, FiniteSetTheorems, SequenceTheorems,
        WellFoundedInduction

Kinds == {"posted", "reversed", "assigned", "cleared", "unknown"}
LedgerEvents == [kind : Kinds, tx : Transactions, month : Months, units : Amounts \cup {0}]
States == {"building", "catching_up", "active", "retired"}
Generations(shown) == [state : States, last : Nat, target : Nat, rows : shown]

\* The rows of the generations; what they are is the matter of GenerationsAreReplays.
RowsOf(s) == {s[g].rows : g \in 1..Len(s)}

\* Type invariant: the ledger, the tables and the processes have their shapes.
ProjectionTypeOK ==
    /\ log \in Seq(LedgerEvents)
    /\ gens \in Seq(Generations(RowsOf(gens)))
    /\ checkpoint \in [last : Nat, active : Nat]
    /\ failures \subseteq [gen : Nat, pos : Nat, by : Workers]
    /\ leader \in Runtimes \cup {Nobody}
    /\ run \in [Workers -> [pc : {"idle", "poll", "start", "read", "lock", "write"},
                            after : Nat, final : Nat, gen : Nat]]
    /\ aborts \in 0..MaxAborts
    /\ rebuild \in [Rebuilders -> [pc : {"idle", "build", "built", "swap"},
                                   shadow : Nat, through : Nat]]

\* What the locks guarantee of two processes.
BookExclusion ==
    \A v, w \in Workers : HoldsBook(v) /\ HoldsBook(w) => v = w

CheckpointExclusion ==
    /\ \A w \in Workers, r \in Rebuilders :
         ~(run[w].pc = "write" /\ rebuild[r].pc = "swap")
    /\ \A r, o \in Rebuilders : rebuild[r].pc = "swap" /\ rebuild[o].pc = "swap" => r = o

ShadowExclusion ==
    \A r, o \in Rebuilders :
        /\ rebuild[r].pc \in {"build", "swap"} /\ rebuild[o].pc \in {"build", "swap"}
        /\ rebuild[r].shadow = rebuild[o].shadow
        => r = o

\* What is known of worker w's run at each of its statements.
RunOK(w) ==
    /\ HoldsBook(w) => failures = {} /\ run[w].after <= checkpoint.last
    /\ run[w].pc \in {"lock", "write"} => run[w].final \in run[w].after + 1 .. Len(log)
    /\ run[w].pc = "write" => run[w].gen = checkpoint.active

\* What is known of rebuilder r's shadow at each of its statements.
RebuildOK(r) ==
    /\ rebuild[r].pc # "idle" => checkpoint.active # 0
    /\ rebuild[r].pc = "build" =>
         \/ rebuild[r].shadow = Len(gens) + 1
         \/ rebuild[r].shadow \in Unfinished
    /\ rebuild[r].pc \in {"built", "swap"} => rebuild[r].shadow \in 1..Len(gens)
    /\ rebuild[r].pc = "swap" =>
         /\ gens[rebuild[r].shadow].state = "catching_up"
         /\ checkpoint.last <= rebuild[r].through /\ rebuild[r].through <= Len(log)

CheckpointOK == checkpoint.last <= Len(log) /\ checkpoint.active <= Len(gens)

PInv ==
    /\ ProjectionTypeOK
    /\ BookExclusion
    /\ CheckpointExclusion
    /\ ShadowExclusion
    /\ \A w \in Workers : RunOK(w)
    /\ \A r \in Rebuilders : RebuildOK(r)
    /\ CheckpointOK
    /\ ActiveFollowsCheckpoint
    /\ NeverPastUnknown
-----------------------------------------------------------------------------
(* Facts about numbers and sequences *)

\* What Min returns.
LEMMA MinOfNat ==
  ASSUME NEW T, T \subseteq Nat, T # {}
  PROVE  Min(T) \in T /\ \A y \in T : Min(T) <= y
BY NatLeast DEF Min

\* What Max returns.
LEMMA MaxOfNat ==
  ASSUME NEW n \in Nat, NEW T, T \subseteq 1..n, T # {}
  PROVE  Max(T) \in T /\ \A y \in T : y <= Max(T)
<1> DEFINE Gaps == {n - t : t \in T}
<1>1. Gaps \subseteq Nat /\ Gaps # {}
  OBVIOUS
<1>2. PICK x \in Gaps : \A y \in Gaps : x <= y
  BY <1>1, NatLeast
<1>3. PICK t \in T : x = n - t
  BY <1>2
<1>4. \A u \in T : u \in Nat /\ n - u \in Gaps
  OBVIOUS
<1>5. ASSUME NEW u \in T PROVE t >= u
  <2>1. n - t <= n - u
    BY <1>2, <1>3, <1>4
  <2>2. t \in Nat /\ u \in Nat
    BY <1>4
  <2> QED BY <2>1, <2>2
<1>6. \E u \in T : \A v \in T : u >= v
  BY <1>5
<1>7. Max(T) \in T /\ \A v \in T : Max(T) >= v
  BY <1>6 DEF Max
<1> QED BY <1>4, <1>7

\* The lesser of two numbers.
LEMMA MinOfTwo ==
  ASSUME NEW a \in Nat, NEW b \in Nat
  PROVE  Min({a, b}) = IF a <= b THEN a ELSE b
BY DEF Min

\* The greater of two numbers.
LEMMA MaxOfTwo ==
  ASSUME NEW a \in Nat, NEW b \in Nat
  PROVE  Max({a, b}) = IF a <= b THEN b ELSE a
BY DEF Max

\* A sequence over a set is one over a larger set.
LEMMA SeqWiden ==
  ASSUME NEW A, NEW B, A \subseteq B, NEW s \in Seq(A)
  PROVE  s \in Seq(B)
<1>1. \A i \in 1..Len(s) : s[i] \in B
  OBVIOUS
<1>2. s \in [1..Len(s) -> B]
  BY <1>1
<1> QED BY <1>2

\* The rows of a sequence of generations type its elements.
LEMMA RowsSuffice ==
  ASSUME NEW shown, NEW s \in Seq(Generations(shown))
  PROVE  s \in Seq(Generations(RowsOf(s)))
<1>1. ASSUME NEW g \in 1..Len(s) PROVE s[g] \in Generations(RowsOf(s))
  <2>1. s[g] \in Generations(shown) /\ s[g].rows \in RowsOf(s)
    BY DEF RowsOf
  <2> QED BY <2>1 DEF Generations
<1>2. s \in [1..Len(s) -> Generations(RowsOf(s))]
  BY <1>1
<1> QED BY <1>2

\* A new generation comes last and leaves the others alone.
LEMMA AppendGeneration ==
  ASSUME NEW s, s \in Seq(Generations(RowsOf(s))), NEW x, x \in Generations({x.rows})
  PROVE  LET t == Append(s, x) IN
         /\ t \in Seq(Generations(RowsOf(t)))
         /\ Len(t) = Len(s) + 1
         /\ \A g \in 1..Len(s) : t[g] = s[g]
         /\ t[Len(s) + 1] = x
<1> DEFINE all == RowsOf(s) \cup {x.rows}
           t == Append(s, x)
<1>1. x \in Generations(all) /\ Generations(RowsOf(s)) \subseteq Generations(all)
  BY DEF Generations
<1>2. s \in Seq(Generations(all))
  BY <1>1, SeqWiden
<1>3. t \in Seq(Generations(all))
  BY <1>1, <1>2
<1>4. /\ Len(t) = Len(s) + 1
      /\ \A g \in 1..Len(s) : t[g] = s[g]
      /\ t[Len(s) + 1] = x
  BY <1>1, <1>2
<1> QED BY <1>3, <1>4, RowsSuffice

\* A generation changes in its place.
LEMMA ChangeGeneration ==
  ASSUME NEW s, s \in Seq(Generations(RowsOf(s))), NEW x, x \in Generations({x.rows}),
         NEW g \in 1..Len(s)
  PROVE  LET t == [s EXCEPT ![g] = x] IN
         /\ t \in Seq(Generations(RowsOf(t)))
         /\ Len(t) = Len(s)
         /\ \A h \in 1..Len(s) : t[h] = IF h = g THEN x ELSE s[h]
<1> DEFINE all == RowsOf(s) \cup {x.rows}
           t == [s EXCEPT ![g] = x]
<1>1. x \in Generations(all) /\ Generations(RowsOf(s)) \subseteq Generations(all)
  BY DEF Generations
<1>2. s \in Seq(Generations(all))
  BY <1>1, SeqWiden
<1>3. t \in Seq(Generations(all))
  BY <1>1, <1>2
<1>4. /\ Len(t) = Len(s)
      /\ \A h \in 1..Len(s) : t[h] = IF h = g THEN x ELSE s[h]
  BY <1>1, <1>2
<1> QED BY <1>3, <1>4, RowsSuffice

-----------------------------------------------------------------------------
(* Steps that change one process only *)

RunRecords == [pc : {"idle", "poll", "start", "read", "lock", "write"},
               after : Nat, final : Nat, gen : Nat]
RebuildRecords == [pc : {"idle", "build", "built", "swap"}, shadow : Nat, through : Nat]

\* A worker's next statement, when no other worker holds the Book and no rebuilder the
\* checkpoint row it goes on to hold.
LEMMA StatementKeepsPInv ==
  ASSUME PInv, NEW w \in Workers, NEW x \in RunRecords,
         run' = [run EXCEPT ![w] = x],
         UNCHANGED <<log, tables, rebuild>>,
         leader' \in Runtimes \cup {Nobody}, aborts' \in 0..MaxAborts,
         x.pc \in {"read", "lock", "write"} => BookFree(w),
         x.pc = "write" => \A r \in Rebuilders : rebuild[r].pc # "swap",
         x.pc \in {"read", "lock", "write"} => failures = {} /\ x.after <= checkpoint.last,
         x.pc \in {"lock", "write"} => x.final \in x.after + 1 .. Len(log),
         x.pc = "write" => x.gen = checkpoint.active
  PROVE  PInv'
<1>1. run'[w] = x /\ \A v \in Workers \ {w} : run'[v] = run[v]
  BY DEF PInv, ProjectionTypeOK
<1>2. ProjectionTypeOK'
  BY DEF PInv, ProjectionTypeOK, RunRecords, tables
<1>3. BookExclusion'
  BY <1>1 DEF PInv, BookExclusion, HoldsBook, BookFree
<1>4. CheckpointExclusion'
  BY <1>1 DEF PInv, CheckpointExclusion
<1>5. ShadowExclusion'
  BY DEF PInv, ShadowExclusion
<1>6. ASSUME NEW v \in Workers PROVE RunOK(v)'
  BY <1>1 DEF PInv, RunOK, HoldsBook, tables
<1>7. ASSUME NEW r \in Rebuilders PROVE RebuildOK(r)'
  BY DEF PInv, RebuildOK, Unfinished, tables
<1>8. CheckpointOK' /\ ActiveFollowsCheckpoint' /\ NeverPastUnknown'
  BY DEF PInv, CheckpointOK, ActiveFollowsCheckpoint, NeverPastUnknown, Unregistered,
         tables
<1> QED BY <1>2, <1>3, <1>4, <1>5, <1>6, <1>7, <1>8 DEF PInv

\* A worker's record with its fields changed is a record of a worker.
LEMMA RunFields ==
  ASSUME PInv, NEW w \in Workers
  PROVE  /\ run[w] \in RunRecords
         /\ \A p \in {"poll", "start", "read", "lock", "write"} :
              [run[w] EXCEPT !.pc = p] \in RunRecords
         /\ NoRun \in RunRecords
BY DEF PInv, ProjectionTypeOK, RunRecords, NoRun

\* A run that ends gives its locks back.
LEMMA EndKeepsPInv ==
  ASSUME PInv, NEW w \in Workers, End(w), UNCHANGED <<log, tables, rebuild>>,
         aborts' \in 0..MaxAborts
  PROVE  PInv'
<1>1. run' = [run EXCEPT ![w] = NoRun] /\ NoRun \in RunRecords /\ NoRun.pc = "idle"
  BY RunFields DEF End, NoRun
<1>2. leader' \in Runtimes \cup {Nobody}
  BY DEF End, PInv, ProjectionTypeOK
<1> QED BY <1>1, <1>2, StatementKeepsPInv

\* The statements of a worker that change nothing but its run.
LEMMA StatementsKeepPInv ==
  ASSUME PInv, NEW w \in Workers,
         TakeLead(w) \/ Poll(w) \/ CatchUp(w) \/ Begin(w) \/ ReadEvents(w)
           \/ LockState(w) \/ RefuseBackward(w) \/ Abort(w)
  PROVE  PInv'
<1>1. /\ aborts \in 0..MaxAborts /\ leader \in Runtimes \cup {Nobody}
      /\ run[w] \in RunRecords /\ checkpoint.last \in Nat /\ checkpoint.active \in Nat
      /\ run \in [Workers -> RunRecords]
  BY RunFields DEF PInv, ProjectionTypeOK, RunRecords
<1>2. CASE End(w) /\ UNCHANGED <<log, tables, aborts, rebuild>>
  BY <1>1, <1>2, EndKeepsPInv
<1>3. CASE Abort(w)
  <2>1. aborts' \in 0..MaxAborts
    BY <1>1, <1>3, ProjectionAssumption DEF Abort
  <2> QED BY <1>3, <2>1, EndKeepsPInv DEF Abort
<1>4. CASE TakeLead(w) \/ (Poll(w) /\ Pending) \/ CatchUp(w)
  <2>1. PICK p \in {"poll", "start"} : run' = [run EXCEPT ![w].pc = p]
    BY <1>4 DEF TakeLead, Poll, CatchUp
  <2>2. /\ leader' \in Runtimes \cup {Nobody}
        /\ UNCHANGED <<log, tables, rebuild>> /\ aborts' \in 0..MaxAborts
    BY <1>1, <1>4 DEF TakeLead, Poll, CatchUp
  <2>3. PICK x \in RunRecords : x = [run[w] EXCEPT !.pc = p]
    BY RunFields
  <2>4. x.pc = p /\ run' = [run EXCEPT ![w] = x]
    BY <1>1, <2>1, <2>3 DEF RunRecords
  <2> QED BY <2>2, <2>4, StatementKeepsPInv
<1>5. CASE Begin(w) /\ failures = {}
  <2>1. PICK x : x = [run[w] EXCEPT !.pc = "read", !.after = checkpoint.last]
    OBVIOUS
  <2>2. x \in RunRecords /\ x.pc = "read" /\ x.after = checkpoint.last
    BY <1>1, <2>1 DEF RunRecords
  <2>3. run' = [run EXCEPT ![w] = x]
    BY <1>1, <1>5, <2>1 DEF Begin
  <2>4. BookFree(w) /\ failures = {} /\ UNCHANGED <<log, tables, leader, aborts, rebuild>>
    BY <1>5 DEF Begin
  <2>5. x.after <= checkpoint.last
    BY <1>1, <2>2
  <2> QED BY <1>1, <2>2, <2>3, <2>4, <2>5, StatementKeepsPInv
<1>6. CASE ReadEvents(w) /\ run[w].after # Len(log)
  <2>1. /\ HoldsBook(w) /\ BookFree(w) /\ failures = {}
        /\ run[w].after <= checkpoint.last /\ checkpoint.last <= Len(log)
        /\ Len(log) \in Nat /\ run[w].after \in Nat
    BY <1>1, <1>6
       DEF PInv, BookExclusion, RunOK, CheckpointOK, ProjectionTypeOK, ReadEvents, HoldsBook,
           BookFree, RunRecords
  <2>2. BatchEnd(w) \in run[w].after + 1 .. Len(log)
    <3>1. BatchSize \in Nat \ {0} /\ run[w].after < Len(log)
      BY <1>1, <1>6, <2>1, ProjectionAssumption
    <3>2. run[w].after + BatchSize \in Nat
      BY <2>1, <3>1
    <3> DEFINE end == run[w].after + BatchSize
    <3>3. BatchEnd(w) = IF end <= Len(log) THEN end ELSE Len(log)
      BY <2>1, <3>2, MinOfTwo DEF BatchEnd
    <3> QED BY <2>1, <3>1, <3>3
  <2>3. PICK x : x = [run[w] EXCEPT !.pc = "lock", !.final = BatchEnd(w)]
    OBVIOUS
  <2>4. /\ x \in RunRecords /\ x.pc = "lock" /\ x.after = run[w].after
        /\ x.final = BatchEnd(w)
    <3>1. BatchEnd(w) \in Nat
      BY <2>1, <2>2
    <3> QED BY <1>1, <2>3, <3>1 DEF RunRecords
  <2>5. run' = [run EXCEPT ![w] = x] /\ UNCHANGED <<log, tables, leader, aborts, rebuild>>
    BY <1>1, <1>6, <2>3 DEF ReadEvents
  <2> QED BY <1>1, <2>1, <2>2, <2>4, <2>5, StatementKeepsPInv
<1>7. CASE LockState(w)
  <2>1. /\ BookFree(w) /\ failures = {} /\ run[w].after <= checkpoint.last
        /\ run[w].final \in run[w].after + 1 .. Len(log)
        /\ \A r \in Rebuilders : rebuild[r].pc # "swap"
    BY <1>7 DEF PInv, BookExclusion, RunOK, LockState, HoldsBook, BookFree, CheckpointFree
  <2>2. PICK x : x = [run[w] EXCEPT !.pc = "write", !.gen = checkpoint.active]
    OBVIOUS
  <2>3. /\ x \in RunRecords /\ x.pc = "write" /\ x.after = run[w].after
        /\ x.final = run[w].final /\ x.gen = checkpoint.active
    BY <1>1, <2>2 DEF RunRecords
  <2>4. run' = [run EXCEPT ![w] = x] /\ UNCHANGED <<log, tables, leader, aborts, rebuild>>
    BY <1>1, <1>7, <2>2 DEF LockState
  <2> QED BY <1>1, <2>1, <2>3, <2>4, StatementKeepsPInv
<1> QED
  BY <1>2, <1>3, <1>4, <1>5, <1>6, <1>7 DEF Poll, Begin, ReadEvents, RefuseBackward

-----------------------------------------------------------------------------
(* The ledger grows *)

\* The events before the end of the ledger stay what they are.
LEMMA LogGrows ==
  ASSUME PInv, NEW e \in LedgerEvents, log' = Append(log, e)
  PROVE  /\ log' \in Seq(LedgerEvents) /\ Len(log') = Len(log) + 1
         /\ \A p \in 1..Len(log) : log'[p] = log[p]
BY DEF PInv, ProjectionTypeOK

\* A committed command leaves the projection behind and nothing else.
LEMMA CommandKeepsPInv ==
  ASSUME PInv, NEW e \in LedgerEvents, CommandCommits(e)
  PROVE  PInv'
<1>1. /\ log' = Append(log, e)
      /\ UNCHANGED <<gens, checkpoint, failures, leader, run, aborts, rebuild>>
  BY DEF CommandCommits, tables
<1>2. /\ log' \in Seq(LedgerEvents) /\ Len(log') = Len(log) + 1
      /\ \A p \in 1..Len(log) : log'[p] = log[p]
      /\ Len(log) \in Nat /\ checkpoint.last \in Nat /\ checkpoint.last <= Len(log)
  BY <1>1, LogGrows DEF PInv, ProjectionTypeOK, CheckpointOK
<1>3. ProjectionTypeOK'
  BY <1>1, <1>2 DEF PInv, ProjectionTypeOK
<1>4. BookExclusion' /\ CheckpointExclusion' /\ ShadowExclusion' /\ CheckpointOK'
      /\ ActiveFollowsCheckpoint'
  BY <1>1, <1>2
     DEF PInv, BookExclusion, HoldsBook, CheckpointExclusion, ShadowExclusion,
         CheckpointOK, ActiveFollowsCheckpoint
<1>5. ASSUME NEW w \in Workers PROVE RunOK(w)'
  <2>1. run[w].after \in Nat /\ run[w].final \in Nat
    BY DEF PInv, ProjectionTypeOK
  <2> QED BY <1>1, <1>2, <2>1 DEF PInv, RunOK, HoldsBook
<1>6. ASSUME NEW r \in Rebuilders PROVE RebuildOK(r)'
  <2>1. rebuild[r].through \in Nat
    BY DEF PInv, ProjectionTypeOK
  <2> QED BY <1>1, <1>2, <2>1 DEF PInv, RebuildOK, Unfinished
<1>7. NeverPastUnknown'
  <2>1. ASSUME NEW p \in 1..checkpoint.last PROVE log'[p] = log[p]
    BY <1>2
  <2> QED BY <1>1, <2>1 DEF PInv, NeverPastUnknown, Unregistered
<1> QED BY <1>3, <1>4, <1>5, <1>6, <1>7 DEF PInv

-----------------------------------------------------------------------------
(* The worker's writes *)

\* What a worker knows when it writes.
LEMMA WriterFacts ==
  ASSUME PInv, NEW w \in Workers, run[w].pc = "write"
  PROVE  /\ \A v \in Workers \ {w} : ~HoldsBook(v)
         /\ \A r \in Rebuilders : rebuild[r].pc # "swap"
         /\ failures = {} /\ run[w].gen = checkpoint.active
         /\ run[w].after <= checkpoint.last /\ run[w].after \in Nat
         /\ run[w].final \in run[w].after + 1 .. Len(log) /\ run[w].final \in Nat
         /\ Len(log) \in Nat /\ Len(gens) \in Nat
         /\ checkpoint.last \in Nat /\ checkpoint.active \in 0..Len(gens)
<1>1. /\ run[w].after \in Nat /\ run[w].final \in Nat /\ Len(log) \in Nat
      /\ Len(gens) \in Nat /\ checkpoint.last \in Nat /\ checkpoint.active \in Nat
  BY DEF PInv, ProjectionTypeOK
<1>2. HoldsBook(w)
  BY DEF HoldsBook
<1>3. RunOK(w) /\ CheckpointOK
  BY DEF PInv
<1>4. \A v \in Workers \ {w} : ~HoldsBook(v)
  BY <1>2 DEF PInv, BookExclusion
<1>5. \A r \in Rebuilders : rebuild[r].pc # "swap"
  BY DEF PInv, CheckpointExclusion
<1> QED BY <1>1, <1>2, <1>3, <1>4, <1>5 DEF RunOK, CheckpointOK

\* A worker's commit that keeps the states of the generations, moves the checkpoint forward
\* and adds a generation to an empty table only.
LEMMA WriteKeepsPInv ==
  ASSUME PInv, NEW w \in Workers, run[w].pc = "write", End(w),
         UNCHANGED <<log, aborts, rebuild>>,
         gens' \in Seq(Generations(RowsOf(gens'))), Len(gens') >= Len(gens),
         checkpoint.active # 0 => Len(gens') = Len(gens) /\ checkpoint'.active # 0,
         \A g \in 1..Len(gens) : gens'[g].state = gens[g].state,
         checkpoint' \in [last : Nat, active : Nat],
         failures' \subseteq [gen : Nat, pos : Nat, by : Workers],
         CheckpointOK', ActiveFollowsCheckpoint', NeverPastUnknown'
  PROVE  PInv'
<1>1. /\ \A v \in Workers \ {w} : ~HoldsBook(v)
      /\ \A r \in Rebuilders : rebuild[r].pc # "swap"
  BY WriterFacts
<1>2. /\ run' = [run EXCEPT ![w] = NoRun] /\ leader' \in Runtimes \cup {Nobody}
      /\ run'[w].pc = "idle" /\ \A v \in Workers \ {w} : run'[v] = run[v]
  BY DEF PInv, ProjectionTypeOK, End, NoRun
<1>3. ProjectionTypeOK'
  BY <1>2, RunFields DEF PInv, ProjectionTypeOK, RunRecords
<1>4. \A v \in Workers : ~HoldsBook(v)'
  BY <1>1, <1>2 DEF HoldsBook
<1>5. BookExclusion' /\ CheckpointExclusion' /\ ShadowExclusion'
  BY <1>1, <1>4 DEF PInv, BookExclusion, CheckpointExclusion, ShadowExclusion, HoldsBook
<1>6. \A v \in Workers : RunOK(v)'
  BY <1>4 DEF RunOK, HoldsBook
<1>7. ASSUME NEW r \in Rebuilders PROVE RebuildOK(r)'
  <2>1. RebuildOK(r) /\ rebuild'[r] = rebuild[r] /\ rebuild[r].pc # "swap"
        /\ rebuild[r].shadow \in Nat /\ Len(gens) \in Nat /\ Len(gens') \in Nat
    BY <1>1 DEF PInv, ProjectionTypeOK
  <2>2. CASE checkpoint.active = 0
    BY <2>1, <2>2 DEF RebuildOK
  <2>3. CASE checkpoint.active # 0
    <3>1. Unfinished' = Unfinished
      BY <2>3 DEF Unfinished
    <3> QED BY <2>1, <2>3, <3>1 DEF RebuildOK
  <2> QED BY <2>2, <2>3
<1> QED BY <1>3, <1>5, <1>6, <1>7 DEF PInv

\* A recorded failure pauses the Book; no other worker was past its look at the failures.
LEMMA RecordFailureKeepsPInv ==
  ASSUME PInv, NEW w \in Workers, RecordFailure(w)
  PROVE  PInv'
<1> DEFINE n == Len(gens)
           unknown == BatchUnregistered(w)
           g == IF run[w].gen = 0 THEN n + 1 ELSE run[w].gen
           f == [gen |-> g, pos |-> Min(unknown), by |-> w]
<1>1. /\ run[w].pc = "write" /\ End(w) /\ UNCHANGED <<log, checkpoint, aborts, rebuild>>
      /\ failures' = failures \cup {f} /\ unknown # {}
  BY DEF RecordFailure
<1>2. /\ failures = {} /\ run[w].gen = checkpoint.active /\ run[w].after \in Nat
      /\ run[w].final \in Nat /\ n \in Nat /\ checkpoint.active \in 0..n
      /\ checkpoint.last \in Nat
  BY <1>1, WriterFacts
<1>3. Min(unknown) \in Nat
  <2>1. unknown \subseteq Nat
    BY <1>2 DEF BatchUnregistered, Unregistered
  <2>2. Min(unknown) \in unknown
    BY <1>1, <2>1, MinOfNat
  <2> QED BY <2>1, <2>2
<1>4. f \in [gen : Nat, pos : Nat, by : Workers]
  <2>1. g \in Nat
    BY <1>2
  <2> QED BY <1>3, <2>1
<1>5. failures' = {f} /\ Cardinality(failures') = 1
  <2> HIDE DEF f
  <2>1. failures' = {f}
    BY <1>1, <1>2
  <2> QED BY <2>1, FS_Singleton
<1>6. NeverPastUnknown'
  BY <1>1, <1>5 DEF PInv, NeverPastUnknown, Unregistered
<1>7. CASE run[w].gen # 0
  <2>1. gens' = gens
    BY <1>7 DEF RecordFailure
  <2>2. CheckpointOK' /\ ActiveFollowsCheckpoint'
    BY <1>1, <2>1 DEF PInv, CheckpointOK, ActiveFollowsCheckpoint
  <2>3. /\ gens' \in Seq(Generations(RowsOf(gens'))) /\ Len(gens') >= Len(gens)
        /\ checkpoint' \in [last : Nat, active : Nat]
    BY <1>1, <1>2, <2>1 DEF PInv, ProjectionTypeOK
  <2>4. failures' \subseteq [gen : Nat, pos : Nat, by : Workers]
    BY <1>4, <1>5
  <2> QED BY <1>1, <1>6, <2>1, <2>2, <2>3, <2>4, WriteKeepsPInv
<1>8. CASE run[w].gen = 0
  <2>1. PICK x : x = [state |-> "building", last |-> 0, target |-> run[w].final,
                      rows |-> [m \in Months |-> 0]]
    OBVIOUS
  <2>2. gens' = Append(gens, x) /\ checkpoint.active = 0
    BY <1>2, <1>8, <2>1 DEF RecordFailure
  <2>3. x \in Generations({x.rows}) /\ x.state = "building"
    BY <1>2, <2>1 DEF Generations, States
  <2>4. /\ gens' \in Seq(Generations(RowsOf(gens'))) /\ Len(gens') = n + 1
        /\ \A h \in 1..n : gens'[h] = gens[h]
        /\ gens'[n + 1] = x
    BY <2>2, <2>3, AppendGeneration DEF PInv, ProjectionTypeOK
  <2>5. CheckpointOK'
    BY <1>1, <1>2, <2>2, <2>4 DEF PInv, CheckpointOK
  <2>6. ActiveFollowsCheckpoint'
    <3>1. checkpoint.last = 0 /\ \A h \in 1..n : gens[h].state # "active"
      BY <2>2 DEF PInv, ActiveFollowsCheckpoint
    <3>2. \A h \in 1..Len(gens') : gens'[h].state # "active"
      BY <1>2, <2>3, <2>4, <3>1
    <3> QED BY <1>1, <2>2, <3>1, <3>2 DEF ActiveFollowsCheckpoint
  <2>7. failures' \subseteq [gen : Nat, pos : Nat, by : Workers]
    BY <1>4, <1>5
  <2>8. Len(gens') >= Len(gens) /\ checkpoint' \in [last : Nat, active : Nat]
    BY <1>1, <1>2, <2>4 DEF PInv, ProjectionTypeOK
  <2> QED BY <1>1, <1>6, <2>2, <2>4, <2>5, <2>6, <2>7, <2>8, WriteKeepsPInv
<1> QED BY <1>7, <1>8

\* A batch is projected from the checkpoint on, so the cursor moves forward and passes no
\* unknown event; the generation that was active still is.
LEMMA AdvanceMoves ==
  ASSUME PInv, NEW w \in Workers, Advance(w)
  PROVE  /\ checkpoint'.last = run[w].final
         /\ checkpoint.last <= run[w].final /\ run[w].final <= Len(log)
         /\ Unregistered(1, run[w].final) = {}
<1>1. run[w].pc = "write" /\ BatchUnregistered(w) = {}
  BY DEF Advance, ProjectBatch
<1>2. checkpoint'.last = run[w].final
  BY DEF Advance, ProjectBatch
<1>3. /\ run[w].gen = checkpoint.active /\ run[w].after <= checkpoint.last
      /\ run[w].final \in run[w].after + 1 .. Len(log) /\ run[w].after \in Nat
      /\ run[w].final \in Nat /\ checkpoint.last \in Nat /\ Len(log) \in Nat
  BY <1>1, WriterFacts
<1>4. checkpoint.last <= run[w].final
  <2>1. CASE run[w].gen = 0
    <3>1. checkpoint.last = 0
      BY <1>3, <2>1 DEF PInv, ActiveFollowsCheckpoint
    <3> QED BY <1>3, <3>1
  <2>2. CASE run[w].gen # 0
    <3>1. gens[run[w].gen].last = checkpoint.last
      BY <1>3, <2>2 DEF PInv, ActiveFollowsCheckpoint
    <3>2. run[w].final >= gens[run[w].gen].last
      BY <2>2 DEF Advance
    <3> QED BY <1>3, <3>1, <3>2
  <2> QED BY <2>1, <2>2
<1>5. ASSUME NEW p \in 1..run[w].final PROVE log[p].kind # "unknown"
  <2>1. p \in 1..checkpoint.last \/ p \in run[w].after + 1 .. run[w].final
    BY <1>3
  <2>2. Unregistered(1, checkpoint.last) = {}
    BY DEF PInv, NeverPastUnknown
  <2> QED BY <1>1, <2>1, <2>2 DEF BatchUnregistered, Unregistered
<1>6. Unregistered(1, run[w].final) = {}
  BY <1>5 DEF Unregistered
<1>7. run[w].final <= Len(log)
  BY <1>3
<1> QED BY <1>2, <1>4, <1>6, <1>7

\* The rows of the active generation go on to the end of the batch.
LEMMA AdvanceKeepsPInv ==
  ASSUME PInv, NEW w \in Workers, Advance(w)
  PROVE  PInv'
<1> DEFINE n == Len(gens)
           g == run[w].gen
           to == run[w].final
<1>1. /\ run[w].pc = "write" /\ End(w) /\ UNCHANGED <<log, failures, aborts, rebuild>>
      /\ checkpoint' = [last |-> to, active |-> IF g = 0 THEN n + 1 ELSE g]
  BY DEF Advance, ProjectBatch
<1>2. /\ g = checkpoint.active /\ to \in Nat /\ n \in Nat /\ g \in 0..n
      /\ gens \in Seq(Generations(RowsOf(gens)))
  BY <1>1, WriterFacts DEF PInv, ProjectionTypeOK
<1>3. to <= Len(log) /\ Unregistered(1, to) = {}
  BY AdvanceMoves
<1>4. checkpoint' \in [last : Nat, active : Nat] /\ failures' = failures
  <2>1. (IF g = 0 THEN n + 1 ELSE g) \in Nat
    BY <1>2
  <2> HIDE DEF g, n, to
  <2> QED BY <1>1, <1>2, <2>1
<1>5. NeverPastUnknown'
  <2>1. checkpoint'.last = to
    BY <1>1
  <2> HIDE DEF to
  <2> QED BY <1>1, <1>3, <2>1 DEF PInv, NeverPastUnknown, Unregistered
<1>6. failures' \subseteq [gen : Nat, pos : Nat, by : Workers]
  BY <1>4 DEF PInv, ProjectionTypeOK
<1>7. CASE g = 0
  <2>1. PICK x : x = [state |-> "active", last |-> to, target |-> to,
                      rows |-> ReplacePeriods(w, [m \in Months |-> 0])]
    OBVIOUS
  <2>2. gens' = Append(gens, x)
    BY <1>7, <2>1 DEF Advance, ProjectBatch
  <2>3. x \in Generations({x.rows}) /\ x.state = "active" /\ x.last = to
    BY <1>2, <2>1 DEF Generations, States
  <2>4. /\ gens' \in Seq(Generations(RowsOf(gens'))) /\ Len(gens') = n + 1
        /\ \A h \in 1..n : gens'[h] = gens[h]
        /\ gens'[n + 1] = x
    BY <1>2, <2>2, <2>3, AppendGeneration
  <2>5. checkpoint'.active = n + 1 /\ checkpoint'.last = to
    BY <1>1, <1>7
  <2>6. CheckpointOK'
    <3> HIDE DEF n, to
    <3> QED BY <1>1, <1>2, <1>3, <2>4, <2>5 DEF CheckpointOK
  <2>7. ActiveFollowsCheckpoint'
    <3>1. \A h \in 1..n : gens[h].state # "active"
      BY <1>2, <1>7 DEF PInv, ActiveFollowsCheckpoint
    <3>2. \A h \in 1..n + 1 : gens'[h].state = "active" <=> h = n + 1
      BY <1>2, <2>3, <2>4, <3>1
    <3>3. {h \in 1..Len(gens') : gens'[h].state = "active"} = {n + 1} /\ n + 1 # 0
      BY <1>2, <2>4, <3>2
    <3> HIDE DEF n, to
    <3> QED BY <2>3, <2>4, <2>5, <3>3 DEF ActiveFollowsCheckpoint
  <2>8. /\ Len(gens') >= Len(gens) /\ checkpoint.active = 0
        /\ \A h \in 1..Len(gens) : gens'[h].state = gens[h].state
    BY <1>2, <1>7, <2>4
  <2> HIDE DEF g, n, to
  <2> QED BY <1>1, <1>4, <1>5, <1>6, <2>4, <2>6, <2>7, <2>8, WriteKeepsPInv
<1>8. CASE g # 0
  <2>1. PICK x : x = [gens[g] EXCEPT !.last = to, !.target = Max({@, to}),
                                     !.rows = ReplacePeriods(w, @)]
    OBVIOUS
  <2>2. g \in 1..n /\ gens[g] \in Generations(RowsOf(gens))
    BY <1>2, <1>8
  <2>3. gens' = [gens EXCEPT ![g] = x]
    BY <1>2, <1>8, <2>1, <2>2 DEF Advance, ProjectBatch, Generations
  <2>4. x \in Generations({x.rows}) /\ x.state = gens[g].state /\ x.last = to
    <3>1. Max({gens[g].target, to}) \in Nat
      BY <1>2, <2>2, MaxOfTwo DEF Generations
    <3> HIDE DEF g, n, to
    <3> QED BY <1>2, <2>1, <2>2, <3>1 DEF Generations
  <2>5. /\ gens' \in Seq(Generations(RowsOf(gens'))) /\ Len(gens') = n
        /\ \A h \in 1..n : gens'[h] = IF h = g THEN x ELSE gens[h]
    <3>1. g \in 1..Len(gens) /\ x \in Generations({x.rows})
      BY <2>2, <2>4
    <3>2. gens \in Seq(Generations(RowsOf(gens)))
      BY <1>2
    <3> HIDE DEF g, n, to
    <3>3. LET t == [gens EXCEPT ![g] = x] IN
          /\ t \in Seq(Generations(RowsOf(t))) /\ Len(t) = Len(gens)
          /\ \A h \in 1..Len(gens) : t[h] = IF h = g THEN x ELSE gens[h]
      BY <3>1, <3>2, ChangeGeneration
    <3> QED BY <2>3, <3>3 DEF n
  <2>6. checkpoint'.active = g /\ checkpoint'.last = to
    BY <1>1, <1>8
  <2>7. CheckpointOK'
    <3> HIDE DEF n, to, g
    <3> QED BY <1>1, <1>2, <1>3, <2>2, <2>5, <2>6 DEF CheckpointOK
  <2>8. \A h \in 1..n : gens'[h].state = gens[h].state
    <3> HIDE DEF n, to, g
    <3> QED BY <2>4, <2>5
  <2>9. ActiveFollowsCheckpoint'
    <3>1. {h \in 1..n : gens[h].state = "active"} = {g}
      BY <1>2, <1>8 DEF PInv, ActiveFollowsCheckpoint
    <3>2. {h \in 1..Len(gens') : gens'[h].state = "active"} = {g} /\ gens'[g].last = to
      <4> HIDE DEF n, to, g
      <4> QED BY <2>2, <2>4, <2>5, <2>8, <3>1
    <3> HIDE DEF n, to, g
    <3> QED BY <1>8, <2>6, <3>2 DEF ActiveFollowsCheckpoint
  <2>10. Len(gens') = Len(gens) /\ checkpoint'.active # 0 /\ Len(gens') >= Len(gens)
    BY <1>2, <1>8, <2>5, <2>6
  <2> HIDE DEF g, to
  <2> QED BY <1>1, <1>4, <1>5, <1>6, <2>5, <2>7, <2>8, <2>9, <2>10, WriteKeepsPInv
<1> QED BY <1>7, <1>8

-----------------------------------------------------------------------------
(* The rebuilder *)

\* A rebuilder's next statement, when what it goes on to lock is free.
LEMMA RebuildStatementKeepsPInv ==
  ASSUME PInv, NEW r \in Rebuilders, NEW x \in RebuildRecords,
         rebuild' = [rebuild EXCEPT ![r] = x],
         UNCHANGED <<log, tables, leader, run, aborts>>,
         x.pc = "swap" => CheckpointFree,
         x.pc \in {"build", "swap"} => ShadowFree(r, x.shadow),
         x.pc # "idle" => checkpoint.active # 0,
         x.pc = "build" => x.shadow = Len(gens) + 1 \/ x.shadow \in Unfinished,
         x.pc \in {"built", "swap"} => x.shadow \in 1..Len(gens),
         x.pc = "swap" => /\ gens[x.shadow].state = "catching_up"
                          /\ checkpoint.last <= x.through /\ x.through <= Len(log)
  PROVE  PInv'
<1>1. rebuild'[r] = x /\ \A o \in Rebuilders \ {r} : rebuild'[o] = rebuild[o]
  BY DEF PInv, ProjectionTypeOK
<1>2. ProjectionTypeOK'
  BY DEF PInv, ProjectionTypeOK, RebuildRecords, tables
<1>3. BookExclusion'
  BY DEF PInv, BookExclusion, HoldsBook
<1>4. CheckpointExclusion'
  BY <1>1 DEF PInv, CheckpointExclusion, CheckpointFree
<1>5. ShadowExclusion'
  BY <1>1 DEF PInv, ShadowExclusion, ShadowFree
<1>6. ASSUME NEW w \in Workers PROVE RunOK(w)'
  BY DEF PInv, RunOK, HoldsBook, tables
<1>7. ASSUME NEW o \in Rebuilders PROVE RebuildOK(o)'
  BY <1>1 DEF PInv, RebuildOK, Unfinished, tables
<1>8. CheckpointOK' /\ ActiveFollowsCheckpoint' /\ NeverPastUnknown'
  BY DEF PInv, CheckpointOK, ActiveFollowsCheckpoint, NeverPastUnknown, Unregistered,
         tables
<1> QED BY <1>2, <1>3, <1>4, <1>5, <1>6, <1>7, <1>8 DEF PInv

\* Finding a shadow, locking the rows of the swap, and giving up.
LEMMA RebuildStatementsKeepPInv ==
  ASSUME PInv, NEW r \in Rebuilders, FindShadow(r) \/ LockSwap(r) \/ StopRebuild(r)
  PROVE  PInv'
<1>1. /\ rebuild[r] \in RebuildRecords /\ rebuild \in [Rebuilders -> RebuildRecords]
      /\ Len(gens) \in Nat /\ Len(log) \in Nat
  BY DEF PInv, ProjectionTypeOK, RebuildRecords
<1>2. CASE StopRebuild(r)
  <2>1. /\ NoRebuild \in RebuildRecords /\ NoRebuild.pc = "idle"
        /\ rebuild' = [rebuild EXCEPT ![r] = NoRebuild]
        /\ UNCHANGED <<log, tables, leader, run, aborts>>
    BY <1>2 DEF StopRebuild, NoRebuild, RebuildRecords
  <2> QED BY <2>1, RebuildStatementKeepsPInv
<1>3. CASE LockSwap(r)
  <2>1. /\ rebuild[r].pc = "built" /\ CheckpointFree /\ ShadowFree(r, rebuild[r].shadow)
        /\ gens[rebuild[r].shadow].state = "catching_up"
        /\ rebuild' = [rebuild EXCEPT ![r].pc = "swap", ![r].through = Len(log)]
        /\ UNCHANGED <<log, tables, leader, run, aborts>>
    BY <1>3 DEF LockSwap, Resumable
  <2>2. PICK x : x = [rebuild[r] EXCEPT !.pc = "swap", !.through = Len(log)]
    OBVIOUS
  <2>3. /\ x \in RebuildRecords /\ x.pc = "swap" /\ x.shadow = rebuild[r].shadow
        /\ x.through = Len(log) /\ rebuild' = [rebuild EXCEPT ![r] = x]
    BY <1>1, <2>1, <2>2 DEF RebuildRecords
  <2>4. /\ checkpoint.active # 0 /\ rebuild[r].shadow \in 1..Len(gens)
        /\ checkpoint.last <= Len(log)
    BY <2>1 DEF PInv, RebuildOK, CheckpointOK
  <2>5. x.through <= Len(log)
    BY <1>1, <2>3
  <2> QED BY <2>1, <2>3, <2>4, <2>5, RebuildStatementKeepsPInv
<1>4. CASE FindShadow(r)
  <2> DEFINE g == IF Unfinished = {} THEN Len(gens) + 1 ELSE Max(Unfinished)
  <2>1. /\ checkpoint.active # 0 /\ ShadowFree(r, g)
        /\ rebuild' = [rebuild EXCEPT ![r] =
             IF g <= Len(gens) /\ gens[g].state = "catching_up"
               THEN [pc |-> "built", shadow |-> g, through |-> 0]
               ELSE [pc |-> "build", shadow |-> g, through |-> Len(log)]]
        /\ UNCHANGED <<log, tables, leader, run, aborts>>
    BY <1>4 DEF FindShadow
  <2>2. /\ g \in Nat /\ (g = Len(gens) + 1 \/ g \in Unfinished)
        /\ (g <= Len(gens) => g \in 1..Len(gens))
    <3>1. CASE Unfinished = {}
      BY <1>1, <3>1
    <3>2. CASE Unfinished # {}
      <4>1. Unfinished \subseteq 1..Len(gens)
        BY DEF Unfinished
      <4>2. Max(Unfinished) \in Unfinished
        BY <1>1, <3>2, <4>1, MaxOfNat
      <4>3. g = Max(Unfinished)
        BY <3>2
      <4>4. g \in Unfinished /\ g \in 1..Len(gens)
        BY <4>1, <4>2, <4>3
      <4> HIDE DEF g
      <4> QED BY <1>1, <4>4
    <3> QED BY <3>1, <3>2
  <2>3. CASE g <= Len(gens) /\ gens[g].state = "catching_up"
    <3>1. PICK x : x = [pc |-> "built", shadow |-> g, through |-> 0]
      OBVIOUS
    <3> HIDE DEF g
    <3>2. /\ x \in RebuildRecords /\ x.pc = "built" /\ x.shadow \in 1..Len(gens)
          /\ rebuild' = [rebuild EXCEPT ![r] = x]
      BY <2>1, <2>2, <2>3, <3>1 DEF RebuildRecords
    <3> QED BY <2>1, <3>2, RebuildStatementKeepsPInv
  <2>4. CASE ~(g <= Len(gens) /\ gens[g].state = "catching_up")
    <3>1. PICK x : x = [pc |-> "build", shadow |-> g, through |-> Len(log)]
      OBVIOUS
    <3> HIDE DEF g
    <3>2. /\ x \in RebuildRecords /\ x.pc = "build" /\ x.shadow = g
          /\ rebuild' = [rebuild EXCEPT ![r] = x]
      BY <1>1, <2>1, <2>2, <2>4, <3>1 DEF RebuildRecords
    <3> QED BY <2>1, <2>2, <3>2, RebuildStatementKeepsPInv
  <2> QED BY <2>3, <2>4
<1> QED BY <1>2, <1>3, <1>4

\* The shadow is filled in its place or at the end, and is not the active generation.
LEMMA BuildKeepsPInv ==
  ASSUME PInv, NEW r \in Rebuilders, BuildShadow(r)
  PROVE  PInv'
<1> DEFINE n == Len(gens)
           g == rebuild[r].shadow
<1>1. /\ rebuild[r].pc = "build" /\ rebuild' = [rebuild EXCEPT ![r].pc = "built"]
      /\ UNCHANGED <<log, checkpoint, failures, leader, run, aborts>>
  BY DEF BuildShadow
<1>2. /\ rebuild[r] \in RebuildRecords /\ rebuild \in [Rebuilders -> RebuildRecords]
      /\ n \in Nat /\ g \in Nat /\ gens \in Seq(Generations(RowsOf(gens)))
  BY DEF PInv, ProjectionTypeOK, RebuildRecords
<1>3. checkpoint.active # 0 /\ (g = n + 1 \/ g \in Unfinished)
  BY <1>1 DEF PInv, RebuildOK
<1>4. PICK x : x = Filled(r, "catching_up")
  OBVIOUS
<1>5. x \in Generations({x.rows}) /\ x.state = "catching_up"
  <2>1. rebuild[r].through \in Nat
    BY <1>2 DEF RebuildRecords
  <2> QED BY <1>4, <2>1 DEF Filled, Generations, States
<1>6. /\ gens' \in Seq(Generations(RowsOf(gens')))
      /\ Len(gens') \in {n, n + 1} /\ Len(gens') = (IF g = n + 1 THEN n + 1 ELSE n)
      /\ g \in 1..Len(gens') /\ gens'[g] = x
      /\ \A h \in 1..n : h # g => gens'[h] = gens[h]
  <2>1. CASE g = n + 1
    <3>1. gens' = Append(gens, x)
      BY <1>2, <1>4, <2>1 DEF BuildShadow
    <3>2. /\ gens' \in Seq(Generations(RowsOf(gens'))) /\ Len(gens') = Len(gens) + 1
          /\ \A h \in 1..Len(gens) : gens'[h] = gens[h]
          /\ gens'[Len(gens) + 1] = x
      BY <1>2, <1>5, <3>1, AppendGeneration
    <3> QED BY <1>2, <2>1, <3>2
  <2>2. CASE g \in Unfinished
    <3>1. g \in 1..Len(gens)
      BY <2>2 DEF Unfinished
    <3>2. gens' = [gens EXCEPT ![g] = x]
      BY <1>2, <1>4, <3>1 DEF BuildShadow
    <3>3. LET t == [gens EXCEPT ![g] = x] IN
          /\ t \in Seq(Generations(RowsOf(t))) /\ Len(t) = Len(gens)
          /\ \A h \in 1..Len(gens) : t[h] = IF h = g THEN x ELSE gens[h]
      <4> HIDE DEF g, n
      <4> QED BY <1>2, <1>5, <3>1, ChangeGeneration
    <3>4. /\ gens' \in Seq(Generations(RowsOf(gens'))) /\ Len(gens') = n
          /\ \A h \in 1..n : gens'[h] = IF h = g THEN x ELSE gens[h]
      BY <3>2, <3>3
    <3>5. g \in 1..n /\ g # n + 1
      BY <1>2, <3>1
    <3> HIDE DEF g, n
    <3> QED BY <3>4, <3>5
  <2> QED BY <1>3, <2>1, <2>2
<1>7. /\ rebuild'[r].pc = "built" /\ rebuild'[r].shadow = g
      /\ \A o \in Rebuilders \ {r} : rebuild'[o] = rebuild[o]
      /\ rebuild' \in [Rebuilders -> RebuildRecords]
  <2> HIDE DEF n
  <2> QED BY <1>1, <1>2 DEF RebuildRecords
<1>8. ProjectionTypeOK'
  BY <1>1, <1>6, <1>7 DEF PInv, ProjectionTypeOK, RebuildRecords
<1>9. BookExclusion' /\ CheckpointExclusion'
  BY <1>1, <1>7 DEF PInv, BookExclusion, CheckpointExclusion, HoldsBook
<1>10. ShadowExclusion'
  BY <1>7 DEF PInv, ShadowExclusion
<1>11. ASSUME NEW w \in Workers PROVE RunOK(w)'
  BY <1>1 DEF PInv, RunOK, HoldsBook
<1>12. ASSUME NEW o \in Rebuilders PROVE RebuildOK(o)'
  <2>1. CASE o = r
    BY <1>1, <1>3, <1>6, <1>7, <2>1 DEF RebuildOK
  <2>2. CASE o # r
    <3>1. rebuild'[o] = rebuild[o] /\ RebuildOK(o) /\ checkpoint.active # 0
      BY <1>3, <1>7, <2>2 DEF PInv
    <3>2. rebuild[o].pc \in {"build", "swap"} => rebuild[o].shadow # g
      BY <1>1, <2>2 DEF PInv, ShadowExclusion
    <3>3. \A h \in Unfinished : h \in Unfinished'
      <4>1. ASSUME NEW h \in Unfinished PROVE h \in Unfinished'
        <5>1. h \in 1..n /\ h \in 1..Len(gens') /\ gens[h].state \in {"building", "catching_up"}
          BY <1>2, <1>6 DEF Unfinished
        <5>2. gens'[h].state \in {"building", "catching_up"}
          BY <1>5, <1>6, <5>1
        <5> QED BY <5>1, <5>2 DEF Unfinished
      <4> QED BY <4>1
    <3>4. rebuild[o].pc = "build" =>
            rebuild[o].shadow = Len(gens') + 1 \/ rebuild[o].shadow \in Unfinished'
      <4>1. CASE g = n + 1
        BY <1>2, <1>6, <3>1, <3>2, <3>3, <4>1 DEF RebuildOK
      <4>2. CASE g # n + 1
        BY <1>2, <1>6, <3>1, <3>3, <4>2 DEF RebuildOK
      <4> QED BY <4>1, <4>2
    <3>5. rebuild[o].pc \in {"built", "swap"} => rebuild[o].shadow \in 1..Len(gens')
      BY <1>2, <1>6, <3>1 DEF RebuildOK
    <3>6. rebuild[o].pc = "swap" => gens'[rebuild[o].shadow].state = "catching_up"
      <4> HIDE DEF g
      <4> QED BY <1>6, <3>1, <3>2 DEF RebuildOK
    <3> QED BY <1>1, <3>1, <3>4, <3>5, <3>6 DEF RebuildOK
  <2> QED BY <2>1, <2>2
<1>13. CheckpointOK' /\ NeverPastUnknown'
  <2>1. checkpoint.active \in Nat
    BY DEF PInv, ProjectionTypeOK
  <2>2. CheckpointOK'
    BY <1>1, <1>2, <1>6, <2>1 DEF PInv, CheckpointOK
  <2> QED BY <1>1, <2>2 DEF PInv, NeverPastUnknown, Unregistered
<1>14. ActiveFollowsCheckpoint'
  <2>1. /\ {h \in 1..n : gens[h].state = "active"} = {checkpoint.active}
        /\ gens[checkpoint.active].last = checkpoint.last
    BY <1>3 DEF PInv, ActiveFollowsCheckpoint
  <2>2. checkpoint.active \in 1..n /\ checkpoint.active # g
    <3>1. checkpoint.active \in 1..n /\ gens[checkpoint.active].state = "active"
      BY <2>1
    <3>2. g \in Unfinished => gens[g].state # "active"
      BY DEF Unfinished
    <3> QED BY <1>2, <1>3, <3>1, <3>2
  <2>3. ASSUME NEW h \in 1..Len(gens') PROVE gens'[h].state = "active" <=> h = checkpoint.active
    <3>1. CASE h = g
      BY <1>5, <1>6, <2>2, <3>1
    <3>2. CASE h # g
      <4>1. h \in 1..n
        BY <1>2, <1>6, <3>2
      <4> QED BY <1>6, <2>1, <3>2, <4>1
    <3> QED BY <3>1, <3>2
  <2>4. gens'[checkpoint.active] = gens[checkpoint.active] /\ checkpoint.active \in 1..Len(gens')
    BY <1>2, <1>6, <2>2
  <2> QED BY <1>1, <1>3, <2>1, <2>3, <2>4 DEF ActiveFollowsCheckpoint
<1> QED BY <1>8, <1>9, <1>10, <1>11, <1>12, <1>13, <1>14 DEF PInv

\* The generation that was active retires, the shadow and the checkpoint take its place.
LEMMA SwapKeepsPInv ==
  ASSUME PInv, NEW r \in Rebuilders, Swap(r)
  PROVE  PInv' /\ checkpoint'.last >= checkpoint.last
<1> DEFINE n == Len(gens)
           g == rebuild[r].shadow
           a == checkpoint.active
           to == rebuild[r].through
<1>1. /\ rebuild[r].pc = "swap" /\ Unregistered(1, to) = {}
      /\ gens' = [gens EXCEPT ![a].state = "retired", ![g] = Filled(r, "active")]
      /\ checkpoint' = [last |-> to, active |-> g]
      /\ rebuild' = [rebuild EXCEPT ![r] = NoRebuild]
      /\ UNCHANGED <<log, failures, leader, run, aborts>>
  BY DEF Swap, Replayable
<1>2. /\ rebuild \in [Rebuilders -> RebuildRecords] /\ n \in Nat /\ Len(log) \in Nat
      /\ g \in Nat /\ to \in Nat /\ gens \in Seq(Generations(RowsOf(gens)))
      /\ checkpoint.last \in Nat
  BY DEF PInv, ProjectionTypeOK, RebuildRecords
<1>3. /\ a # 0 /\ g \in 1..n /\ gens[g].state = "catching_up"
      /\ checkpoint.last <= to /\ to <= Len(log)
  BY <1>1 DEF PInv, RebuildOK
<1>4. /\ {h \in 1..n : gens[h].state = "active"} = {a}
      /\ gens[a].last = checkpoint.last
  BY <1>3 DEF PInv, ActiveFollowsCheckpoint
<1>5. a \in 1..n /\ a # g /\ gens[a] \in Generations(RowsOf(gens))
  BY <1>2, <1>3, <1>4
<1>6. PICK x : x = [gens[a] EXCEPT !.state = "retired"]
  OBVIOUS
<1>7. PICK y : y = Filled(r, "active")
  OBVIOUS
<1>8. x \in Generations({x.rows}) /\ x.state = "retired"
  <2> HIDE DEF a
  <2> QED BY <1>5, <1>6 DEF Generations, States
<1>9. y \in Generations({y.rows}) /\ y.state = "active" /\ y.last = to
  BY <1>2, <1>7 DEF Filled, Generations, States
<1>10. PICK s : s = [gens EXCEPT ![a] = x]
  OBVIOUS
<1>11. gens' = [s EXCEPT ![g] = y]
  <2>1. gens' = [[gens EXCEPT ![a].state = "retired"] EXCEPT ![g] = Filled(r, "active")]
    BY <1>1
  <2>2. [gens EXCEPT ![a].state = "retired"] = s
    BY <1>6, <1>10
  <2> QED BY <1>7, <2>1, <2>2
<1>12. /\ s \in Seq(Generations(RowsOf(s))) /\ Len(s) = n
       /\ \A h \in 1..n : s[h] = IF h = a THEN x ELSE gens[h]
  <2>1. LET t == [gens EXCEPT ![a] = x] IN
        /\ t \in Seq(Generations(RowsOf(t))) /\ Len(t) = Len(gens)
        /\ \A h \in 1..Len(gens) : t[h] = IF h = a THEN x ELSE gens[h]
    <3> HIDE DEF a
    <3> QED BY <1>2, <1>5, <1>8, ChangeGeneration
  <2> QED BY <1>10, <2>1
<1>13. /\ gens' \in Seq(Generations(RowsOf(gens'))) /\ Len(gens') = n
       /\ \A h \in 1..n : gens'[h] = IF h = g THEN y ELSE s[h]
  <2>1. LET t == [s EXCEPT ![g] = y] IN
        /\ t \in Seq(Generations(RowsOf(t))) /\ Len(t) = Len(s)
        /\ \A h \in 1..Len(s) : t[h] = IF h = g THEN y ELSE s[h]
    <3> HIDE DEF g
    <3> QED BY <1>3, <1>9, <1>12, ChangeGeneration
  <2> QED BY <1>11, <1>12, <2>1
<1>14. /\ rebuild'[r].pc = "idle"
       /\ \A o \in Rebuilders \ {r} : rebuild'[o] = rebuild[o]
       /\ rebuild' \in [Rebuilders -> RebuildRecords]
  BY <1>1, <1>2 DEF NoRebuild, RebuildRecords
<1> HIDE DEF n, g, a, to
<1>15. ProjectionTypeOK'
  <2>1. checkpoint' \in [last : Nat, active : Nat]
    BY <1>1, <1>2
  <2> QED BY <1>1, <1>13, <1>14, <2>1 DEF PInv, ProjectionTypeOK, RebuildRecords
<1>16. BookExclusion' /\ CheckpointExclusion' /\ ShadowExclusion'
  BY <1>1, <1>14
     DEF PInv, BookExclusion, CheckpointExclusion, ShadowExclusion, HoldsBook
<1>17. \A w \in Workers : run[w].pc # "write" /\ run[w].after \in Nat
  BY <1>1 DEF PInv, CheckpointExclusion, ProjectionTypeOK
<1>18. ASSUME NEW w \in Workers PROVE RunOK(w)'
  <2>1. checkpoint'.last = to
    BY <1>1
  <2>2. run[w].after <= checkpoint.last => run[w].after <= to
    BY <1>2, <1>3, <1>17
  <2> QED BY <1>1, <1>17, <2>1, <2>2 DEF PInv, RunOK, HoldsBook
<1>19. checkpoint'.active = g /\ checkpoint'.last = to
  BY <1>1
<1>20. g # 0 /\ g <= n
  BY <1>2, <1>3
<1>21. ASSUME NEW o \in Rebuilders PROVE RebuildOK(o)'
  <2>1. CASE o = r
    BY <1>14, <2>1 DEF RebuildOK
  <2>2. CASE o # r
    <3>1. rebuild'[o] = rebuild[o] /\ RebuildOK(o)
      BY <1>14, <2>2 DEF PInv
    <3>2. rebuild[o].pc # "swap"
      BY <1>1, <2>2 DEF PInv, CheckpointExclusion
    <3>3. rebuild[o].pc = "build" => rebuild[o].shadow # g
      BY <1>1, <2>2 DEF PInv, ShadowExclusion, g
    <3>4. ASSUME NEW h \in Unfinished, h # g PROVE h \in Unfinished'
      <4>1. h \in 1..n /\ gens[h].state \in {"building", "catching_up"}
        BY DEF Unfinished, n
      <4>2. h # a
        BY <1>4, <1>5, <4>1
      <4>3. gens'[h] = gens[h]
        BY <1>12, <1>13, <3>4, <4>1, <4>2
      <4> QED BY <1>13, <4>1, <4>3 DEF Unfinished
    <3>5. rebuild[o].pc = "build" =>
            rebuild[o].shadow = Len(gens') + 1 \/ rebuild[o].shadow \in Unfinished'
      BY <1>13, <3>1, <3>3, <3>4 DEF RebuildOK, n
    <3>6. rebuild[o].pc = "built" => rebuild[o].shadow \in 1..Len(gens')
      BY <1>13, <3>1 DEF RebuildOK, n
    <3> QED BY <1>19, <1>20, <3>1, <3>2, <3>5, <3>6 DEF RebuildOK
  <2> QED BY <2>1, <2>2
<1>22. CheckpointOK'
  BY <1>1, <1>3, <1>13, <1>19, <1>20 DEF CheckpointOK
<1>23. NeverPastUnknown'
  BY <1>1, <1>19 DEF PInv, NeverPastUnknown, Unregistered
<1>24. ActiveFollowsCheckpoint'
  <2>1. ASSUME NEW h \in 1..n PROVE gens'[h].state = "active" <=> h = g
    <3>1. CASE h = g
      BY <1>9, <1>13, <3>1
    <3>2. CASE h = a
      BY <1>5, <1>8, <1>12, <1>13, <3>2
    <3>3. CASE h # a /\ h # g
      <4>1. gens'[h] = gens[h]
        BY <1>12, <1>13, <3>3
      <4> QED BY <1>4, <3>3, <4>1
    <3> QED BY <3>1, <3>2, <3>3
  <2>2. {h \in 1..Len(gens') : gens'[h].state = "active"} = {g}
    BY <1>3, <1>13, <2>1
  <2>3. gens'[g].last = to
    BY <1>3, <1>9, <1>13
  <2> QED BY <1>19, <1>20, <2>2, <2>3 DEF ActiveFollowsCheckpoint
<1>25. checkpoint'.last >= checkpoint.last
  BY <1>2, <1>3, <1>19
<1> QED
  BY <1>15, <1>16, <1>18, <1>21, <1>22, <1>23, <1>24, <1>25 DEF PInv

-----------------------------------------------------------------------------
(* The invariant *)

\* Initially nothing is projected.
LEMMA InitPInv == Init => PInv
<1> SUFFICES ASSUME Init PROVE PInv
  OBVIOUS
<1>1. /\ log = <<>> /\ gens = <<>> /\ failures = {}
      /\ checkpoint = [last |-> 0, active |-> 0] /\ leader = Nobody /\ aborts = 0
      /\ run = [w \in Workers |-> NoRun] /\ rebuild = [r \in Rebuilders |-> NoRebuild]
  BY DEF Init
<1>2. ProjectionTypeOK
  BY <1>1, ProjectionAssumption DEF ProjectionTypeOK, NoRun, NoRebuild
<1>3. BookExclusion /\ CheckpointExclusion /\ ShadowExclusion
  BY <1>1 DEF BookExclusion, CheckpointExclusion, ShadowExclusion, HoldsBook, NoRun, NoRebuild
<1>4. ASSUME NEW w \in Workers PROVE RunOK(w)
  BY <1>1 DEF RunOK, HoldsBook, NoRun
<1>5. ASSUME NEW r \in Rebuilders PROVE RebuildOK(r)
  BY <1>1 DEF RebuildOK, NoRebuild
<1>6. CheckpointOK /\ ActiveFollowsCheckpoint
  BY <1>1 DEF CheckpointOK, ActiveFollowsCheckpoint
<1>7. NeverPastUnknown
  BY <1>1, FS_EmptySet DEF NeverPastUnknown, Unregistered
<1> QED BY <1>2, <1>3, <1>4, <1>5, <1>6, <1>7 DEF PInv

\* A coordinator that loses its connection changes no table.
LEMMA LoseLeadKeepsPInv ==
  ASSUME PInv, UNCHANGED <<log, tables, run, aborts, rebuild>>,
         leader' \in Runtimes \cup {Nobody}
  PROVE  PInv'
<1>1. UNCHANGED <<log, gens, checkpoint, failures, run, aborts, rebuild>>
  BY DEF tables
<1>2. ProjectionTypeOK'
  BY <1>1 DEF PInv, ProjectionTypeOK
<1> QED
  BY <1>1, <1>2
     DEF PInv, BookExclusion, HoldsBook, CheckpointExclusion, ShadowExclusion, RunOK,
         RebuildOK, Unfinished, CheckpointOK, ActiveFollowsCheckpoint, NeverPastUnknown,
         Unregistered

\* The events that commands commit are events of the ledger.
LEMMA LedgerEventsOnly ==
  ASSUME Ledger
  PROVE  \E e \in LedgerEvents : CommandCommits(e)
<1>1. \A k \in Kinds, t \in Transactions, m \in Months, u \in Amounts \cup {0} :
        Event(k, t, m, u) \in LedgerEvents
  BY DEF Event, LedgerEvents
<1> QED BY <1>1 DEF Ledger, Kinds

\* The invariant is inductive.
LEMMA NextKeepsPInv == PInv /\ [Next]_vars => PInv'
<1> SUFFICES ASSUME PInv, [Next]_vars PROVE PInv'
  OBVIOUS
<1>1. CASE Ledger
  BY <1>1, LedgerEventsOnly, CommandKeepsPInv
<1>2. ASSUME NEW w \in Workers, Cycle(w) \/ CatchUp(w) \/ Abort(w) PROVE PInv'
  BY <1>2, StatementsKeepPInv, RecordFailureKeepsPInv, AdvanceKeepsPInv DEF Cycle, RunOnce
<1>3. CASE LoseLead
  BY <1>3, LoseLeadKeepsPInv DEF LoseLead
<1>4. ASSUME NEW r \in Rebuilders, FindShadow(r) \/ Rebuild(r) \/ StopRebuild(r) PROVE PInv'
  BY <1>4, RebuildStatementsKeepPInv, BuildKeepsPInv, SwapKeepsPInv DEF Rebuild
<1>5. CASE UNCHANGED vars
  BY <1>5, LoseLeadKeepsPInv DEF vars, PInv, ProjectionTypeOK
<1> QED BY <1>1, <1>2, <1>3, <1>4, <1>5 DEF Next

\* PInv holds in every reachable state of the projection.
THEOREM ProjectionInvariance == Spec => []PInv
BY InitPInv, NextKeepsPInv, PTL DEF Spec

\* The ledger, the tables and the processes have their shapes.
THEOREM ProjectionTypeCorrect == Spec => []ProjectionTypeOK
<1>1. PInv => ProjectionTypeOK
  BY DEF PInv
<1> QED BY <1>1, ProjectionInvariance, PTL

\* Only a projected batch and a swap move the checkpoint.
LEMMA CheckpointMoves ==
  ASSUME PInv, [Next]_vars
  PROVE  checkpoint'.last >= checkpoint.last
<1>1. \/ \E w \in Workers : Advance(w)
      \/ \E r \in Rebuilders : Swap(r)
      \/ checkpoint' = checkpoint
  BY DEF Next, Ledger, CommandCommits, Cycle, RunOnce, TakeLead, Poll, CatchUp, Begin,
         ReadEvents, LockState, RecordFailure, RefuseBackward, Abort, LoseLead, FindShadow,
         Rebuild, BuildShadow, LockSwap, StopRebuild, vars, tables
<1>2. checkpoint.last \in Nat
  BY DEF PInv, ProjectionTypeOK
<1>3. ASSUME NEW w \in Workers, Advance(w) PROVE checkpoint'.last >= checkpoint.last
  <2>1. run[w].final \in Nat
    BY DEF PInv, ProjectionTypeOK
  <2> QED BY <1>2, <1>3, <2>1, AdvanceMoves
<1> QED BY <1>1, <1>2, <1>3, SwapKeepsPInv

\* Readers meet one cursor, that of the generation they are shown, and it only moves
\* forward over events this version knows, whatever workers, repairs and rebuilds do.
THEOREM CursorIsOneAndForward == Spec => OneCursorForward
<1>1. PInv => ActiveFollowsCheckpoint /\ NeverPastUnknown
  BY DEF PInv
<1>2. PInv /\ [Next]_vars => [checkpoint'.last >= checkpoint.last]_vars
  BY CheckpointMoves
<1> QED
  BY <1>1, <1>2, ProjectionInvariance, PTL DEF Spec, OneCursorForward, CursorNeverRegresses

-----------------------------------------------------------------------------
(* MonthSums: what a month's total is, for every length of the ledger           *)

\* s holds the partial sums of f[1] .. f[n].
MonthSums(s, f, n) ==
    /\ s \in [0..n -> Int]
    /\ s[0] = 0
    /\ \A i \in 1..n : s[i] = s[i - 1] + f[i]

\* A property of the numbers up to n that holds of 0 and goes on to the next holds of all.
LEMMA UpTo ==
  ASSUME NEW n \in Nat, NEW T, T \subseteq 0..n, 0 \in T,
         \A i \in 1..n : i - 1 \in T => i \in T
  PROVE  T = 0..n
<1> SUFFICES ASSUME (0..n) \ T # {} PROVE FALSE
  OBVIOUS
<1> DEFINE rest == (0..n) \ T
<1>1. rest \subseteq Nat /\ rest # {}
  OBVIOUS
<1>2. PICK k \in rest : \A j \in rest : k <= j
  BY <1>1, NatLeast
<1>3. k \in 1..n /\ k - 1 \in 0..n
  OBVIOUS
<1>4. k - 1 \notin rest
  BY <1>2, <1>3
<1> QED BY <1>3, <1>4

\* There are partial sums of every function to the integers.
LEMMA SumsExist ==
  ASSUME NEW n \in Nat, NEW f \in [1..n -> Int]
  PROVE  \E s : MonthSums(s, f, n)
<1> DEFINE T == {k \in 0..n : \E s : MonthSums(s, f, k)}
<1>1. 0 \in T
  <2>1. MonthSums([i \in 0..0 |-> 0], f, 0)
    BY DEF MonthSums
  <2> QED BY <2>1
<1>2. ASSUME NEW k \in 1..n, k - 1 \in T PROVE k \in T
  <2>1. PICK s : MonthSums(s, f, k - 1)
    BY <1>2
  <2>2. /\ s \in [0 .. k - 1 -> Int] /\ s[0] = 0 /\ f[k] \in Int
        /\ \A i \in 1 .. k - 1 : s[i] = s[i - 1] + f[i]
    BY <2>1 DEF MonthSums
  <2>3. PICK t : t = [i \in 0..k |-> IF i = k THEN s[k - 1] + f[k] ELSE s[i]]
    OBVIOUS
  <2>4. \A i \in 0 .. k - 1 : t[i] = s[i] /\ s[i] \in Int
    BY <2>2, <2>3
  <2>5. t[k] = s[k - 1] + f[k] /\ s[k - 1] \in Int
    BY <2>2, <2>3
  <2>6. t \in [0..k -> Int]
    <3>1. \A i \in 0..k : t[i] \in Int
      BY <2>2, <2>4, <2>5
    <3> QED BY <2>3, <3>1
  <2>7. ASSUME NEW i \in 1..k PROVE t[i] = t[i - 1] + f[i]
    <3>1. i - 1 \in 0 .. k - 1
      OBVIOUS
    <3>2. t[i - 1] = s[i - 1]
      BY <2>4, <3>1
    <3>3. CASE i = k
      BY <2>5, <3>2, <3>3
    <3>4. CASE i # k
      <4>1. i \in 1 .. k - 1 /\ i \in 0 .. k - 1
        BY <3>4
      <4> QED BY <2>2, <2>4, <3>2, <4>1
    <3> QED BY <3>3, <3>4
  <2>8. t[0] = 0
    BY <2>2, <2>4
  <2>9. MonthSums(t, f, k)
    BY <2>6, <2>7, <2>8 DEF MonthSums
  <2> QED BY <2>9
<1>3. T = 0..n
  <2> HIDE DEF T
  <2>1. T \subseteq 0..n
    BY DEF T
  <2> QED BY <1>1, <1>2, <2>1, UpTo
<1>4. n \in T
  <2> HIDE DEF T
  <2> QED BY <1>3
<1> QED BY <1>4

\* Functions that agree up to n have the same sums there, and zeros add nothing.
LEMMA SumsAgree ==
  ASSUME NEW n \in Nat, NEW k \in 0..n, NEW f, NEW g, NEW s, NEW t,
         MonthSums(s, f, n), MonthSums(t, g, k),
         \A i \in 1..k : f[i] = g[i],
         \A i \in k + 1 .. n : f[i] = 0
  PROVE  s[n] = t[k]
<1>1. /\ s \in [0..n -> Int] /\ s[0] = 0
      /\ \A i \in 1..n : s[i] = s[i - 1] + f[i]
      /\ t[0] = 0
      /\ \A i \in 1..k : t[i] = t[i - 1] + g[i]
  BY DEF MonthSums
<1> DEFINE T == {i \in 0..n : s[i] = IF i <= k THEN t[i] ELSE t[k]}
<1>2. 0 \in T
  BY <1>1
<1>3. ASSUME NEW i \in 1..n, i - 1 \in T PROVE i \in T
  <2>1. s[i] = s[i - 1] + f[i] /\ s[i - 1] \in Int
    BY <1>1
  <2>2. CASE i <= k
    BY <1>1, <1>3, <2>1, <2>2
  <2>3. CASE ~(i <= k)
    <3>1. i \in k + 1 .. n /\ f[i] = 0
      BY <2>3
    <3>2. s[i - 1] = t[k]
      BY <1>3, <2>3
    <3> QED BY <2>1, <2>3, <3>1, <3>2
  <2> QED BY <2>2, <2>3
<1>4. T = 0..n
  <2> HIDE DEF T
  <2>1. T \subseteq 0..n
    BY DEF T
  <2> QED BY <1>2, <1>3, <2>1, UpTo
<1>5. n \in T /\ k <= n
  BY <1>4
<1> QED BY <1>5

-----------------------------------------------------------------------------
(* Replays *)

Contributions(m, n) == [p \in 1..n |-> Contribution(m, p, n)]

\* The classification in force is an amount of the ledger or nothing.
LEMMA LinesAreNatural ==
  ASSUME PInv, NEW t, NEW n \in 0..Len(log)
  PROVE  Lines(t, n) \in Nat
<1> DEFINE changes == {p \in 1..n : Is(p, "assigned", t) \/ Is(p, "cleared", t)}
<1>1. log \in Seq(LedgerEvents) /\ Amounts \subseteq Nat
  BY ProjectionAssumption DEF PInv, ProjectionTypeOK
<1>2. CASE changes = {}
  BY <1>2 DEF Lines
<1>3. CASE changes # {}
  <2>1. Max(changes) \in changes
    <3> HIDE DEF changes
    <3>1. changes \subseteq 1..n /\ n \in Nat
      BY DEF changes
    <3> QED BY <1>3, <3>1, MaxOfNat
  <2>2. Max(changes) \in 1..Len(log)
    <3> HIDE DEF changes
    <3>1. Max(changes) \in 1..n
      BY <2>1 DEF changes
    <3> QED BY <1>1, <3>1
  <2>3. log[Max(changes)] \in LedgerEvents
    <3> HIDE DEF changes
    <3> QED BY <1>1, <2>2
  <2>4. log[Max(changes)].units \in Nat
    <3> HIDE DEF changes
    <3>1. PICK e \in LedgerEvents : e = log[Max(changes)]
      BY <2>3
    <3>2. e.units \in Amounts \cup {0}
      BY DEF LedgerEvents
    <3>3. e.units \in Nat
      <4>1. \A u \in Amounts \cup {0} : u \in Nat
      BY ProjectionAssumption
    <4> QED BY <3>2, <4>1
    <3> QED BY <3>1, <3>3
  <2>5. Lines(t, n) = log[Max(changes)].units
    BY <1>3 DEF Lines
  <2> QED BY <2>4, <2>5
<1> QED BY <1>2, <1>3

\* Each event adds an integer.
LEMMA ContributionsAreIntegers ==
  ASSUME PInv, NEW m, NEW n \in 0..Len(log)
  PROVE  Contributions(m, n) \in [1..n -> Int]
<1>1. ASSUME NEW p \in 1..n PROVE Contribution(m, p, n) \in Int
  <2>1. PICK units : units = Sign(log[p].tx) * Lines(log[p].tx, n)
    OBVIOUS
  <2>2. Lines(log[p].tx, n) \in Int
    BY LinesAreNatural
  <2>3. Sign(log[p].tx) \in {1, -1}
    BY DEF Sign
  <2>4. units \in Int
    BY <2>1, <2>2, <2>3
  <2>5. Contribution(m, p, n) \in {units, -units, 0}
    BY <2>1 DEF Contribution
  <2> QED BY <2>4, <2>5
<1> QED BY <1>1 DEF Contributions

\* A month's total is the sum of what the events add.
LEMMA MonthTotalIsTheSum ==
  ASSUME PInv, NEW m, NEW n \in 0..Len(log)
  PROVE  \E s : MonthSums(s, Contributions(m, n), n) /\ MonthTotal(m, n) = s[n]
<1> DEFINE f == Contributions(m, n)
           Partial(t) == t = [i \in 0..n |-> IF i = 0 THEN 0
                                             ELSE t[i - 1] + Contribution(m, i, n)]
           s == CHOOSE t : Partial(t)
<1>1. n \in Nat /\ f \in [1..n -> Int]
  BY ContributionsAreIntegers DEF PInv, ProjectionTypeOK
<1>2. \A i \in 1..n : f[i] = Contribution(m, i, n)
  BY DEF Contributions
<1>3. PICK t : MonthSums(t, f, n)
  <2> HIDE DEF f
  <2> QED BY <1>1, SumsExist
<1>4. Partial(t)
  <2> HIDE DEF f
  <2>1. /\ t \in [0..n -> Int] /\ t[0] = 0
        /\ \A i \in 1..n : t[i] = t[i - 1] + Contribution(m, i, n)
    BY <1>2, <1>3 DEF MonthSums
  <2>2. \A i \in 0..n : t[i] = IF i = 0 THEN 0 ELSE t[i - 1] + Contribution(m, i, n)
    BY <1>1, <2>1
  <2> QED BY <2>1, <2>2
<1>5. Partial(s)
  <2> HIDE DEF Partial
  <2> QED BY <1>4
<1>6. MonthTotal(m, n) = s[n]
  BY DEF MonthTotal
<1> HIDE DEF s
<1>7. /\ s[0] = 0
      /\ \A i \in 1..n : s[i] = s[i - 1] + f[i]
      /\ DOMAIN s = 0..n
  <2> HIDE DEF f
  <2> QED BY <1>1, <1>2, <1>5
<1>8. \A i \in 0..n : s[i] \in Int
  <2> DEFINE T == {i \in 0..n : s[i] \in Int}
  <2>1. 0 \in T
    BY <1>1, <1>7
  <2>2. ASSUME NEW i \in 1..n, i - 1 \in T PROVE i \in T
    <3> HIDE DEF f
    <3>1. f[i] \in Int
      BY <1>1
    <3> QED BY <1>7, <2>2, <3>1
  <2>3. T = 0..n
    <3> HIDE DEF T
    <3>1. T \subseteq 0..n
      BY DEF T
    <3> QED BY <1>1, <2>1, <2>2, <3>1, UpTo
  <2> QED BY <2>3
<1>9. MonthSums(s, f, n)
  <2> HIDE DEF f
  <2>1. s = [i \in 0..n |-> s[i]]
    BY <1>5
  <2>2. s \in [0..n -> Int]
    BY <1>8, <2>1
  <2> QED BY <1>7, <2>2 DEF MonthSums
<1> QED BY <1>6, <1>9

\* The same, for all months and positions at once.
TotalsAreSums ==
    \A m : \A n \in 0..Len(log) :
        \E s : MonthSums(s, Contributions(m, n), n) /\ MonthTotal(m, n) = s[n]

\* The invariant holds the totals of the months to the sums of their contributions.
LEMMA MonthTotalsAreSums == PInv => TotalsAreSums
BY MonthTotalIsTheSum DEF TotalsAreSums

\* Two totals agree when the events up to the first add the same and the others nothing.
LEMMA TotalsAgree ==
  ASSUME PInv, NEW m, NEW n \in 0..Len(log), NEW k \in 0..n,
         \A p \in 1..k : Contribution(m, p, n) = Contribution(m, p, k),
         \A p \in k + 1 .. n : Contribution(m, p, n) = 0
  PROVE  MonthTotal(m, n) = MonthTotal(m, k)
<1>1. n \in Nat /\ k \in 0..Len(log)
  BY DEF PInv, ProjectionTypeOK
<1>2. PICK s : MonthSums(s, Contributions(m, n), n) /\ MonthTotal(m, n) = s[n]
  BY MonthTotalIsTheSum
<1>3. PICK t : MonthSums(t, Contributions(m, k), k) /\ MonthTotal(m, k) = t[k]
  BY <1>1, MonthTotalIsTheSum
<1>4. /\ \A p \in 1..k : Contributions(m, n)[p] = Contributions(m, k)[p]
      /\ \A p \in k + 1 .. n : Contributions(m, n)[p] = 0
  BY <1>1 DEF Contributions
<1>5. s[n] = t[k]
  BY <1>1, <1>2, <1>3, <1>4, SumsAgree
<1> QED BY <1>2, <1>3, <1>5

\* An event changes no month but its affected periods: the others total the same before and
\* after a batch.
LEMMA CleanPeriodsTotalTheSame ==
  ASSUME PInv, NEW m, NEW n \in 0..Len(log), NEW k \in 0..n,
         m \notin DirtyPeriods(k + 1, n)
  PROVE  MonthTotal(m, n) = MonthTotal(m, k)
<1>1. n \in Nat /\ k \in Nat /\ k <= n /\ n <= Len(log) /\ Len(log) \in Nat
  BY DEF PInv, ProjectionTypeOK
<1>2. \A p \in k + 1 .. n : m \notin AffectedPeriods(p)
  BY DEF DirtyPeriods
<1>3. ASSUME NEW p \in k + 1 .. n PROVE Contribution(m, p, n) = 0
  <2>1. \/ log[p].kind \notin {"posted", "reversed"}
        \/ log[p].month # m
    BY <1>2 DEF AffectedPeriods
  <2> QED BY <2>1 DEF Contribution
<1>4. ASSUME NEW p \in 1..k PROVE Contribution(m, p, n) = Contribution(m, p, k)
  <2>1. CASE log[p].month # m \/ log[p].kind \notin {"posted", "reversed"}
    BY <2>1 DEF Contribution
  <2>2. CASE log[p].month = m /\ log[p].kind \in {"posted", "reversed"}
    <3>1. PICK t : t = log[p].tx
      OBVIOUS
    <3>2. p \in Positions
      BY <1>1 DEF Positions
    <3>3. m \in PostedIn(t) \cup ReversedIn(t)
      BY <2>2, <3>1, <3>2 DEF PostedIn, ReversedIn, Is
    <3>4. ASSUME NEW q \in k + 1 .. n PROVE ~(Is(q, "assigned", t) \/ Is(q, "cleared", t))
      BY <1>2, <3>3 DEF AffectedPeriods, Is
    <3>5. {q \in 1..n : Is(q, "assigned", t) \/ Is(q, "cleared", t)}
            = {q \in 1..k : Is(q, "assigned", t) \/ Is(q, "cleared", t)}
      <4>1. \A q \in 1..n : q \in 1..k \/ q \in k + 1 .. n
        BY <1>1
      <4>2. \A q \in 1..k : q \in 1..n
        BY <1>1
      <4> QED BY <3>4, <4>1, <4>2
    <3>6. Lines(t, n) = Lines(t, k)
      BY <3>5 DEF Lines
    <3> QED BY <3>1, <3>6 DEF Contribution
  <2> QED BY <2>1, <2>2
<1> QED BY <1>3, <1>4, TotalsAgree

\* No event, no total.
LEMMA NothingTotalsNothing ==
  ASSUME PInv, NEW m
  PROVE  MonthTotal(m, 0) = 0
<1>1. 0 \in 0..Len(log)
  BY DEF PInv, ProjectionTypeOK
<1>2. PICK s : MonthSums(s, Contributions(m, 0), 0) /\ MonthTotal(m, 0) = s[0]
  BY <1>1, MonthTotalIsTheSum
<1> QED BY <1>2 DEF MonthSums

\* The replay through a position depends on the events up to it only.
LEMMA ReplayIsStable ==
  ASSUME PInv, PInv', NEW n \in 0..Len(log), Len(log) <= Len(log)',
         \A p \in 1..Len(log) : log'[p] = log[p]
  PROVE  Replay(n)' = Replay(n)
<1>1. n \in Nat /\ Len(log) \in Nat /\ n \in 0..Len(log)'
  BY DEF PInv, ProjectionTypeOK
<1>2. \A p \in 1..n : log'[p] = log[p]
  BY <1>1
<1>3. ASSUME NEW t PROVE Lines(t, n)' = Lines(t, n)
  <2> DEFINE changes == {p \in 1..n : Is(p, "assigned", t) \/ Is(p, "cleared", t)}
  <2>1. changes' = changes
    BY <1>2 DEF Is
  <2>2. CASE changes = {}
    BY <2>1, <2>2 DEF Lines
  <2>3. CASE changes # {}
    <3>1. changes \subseteq 1..n
      OBVIOUS
    <3> HIDE DEF changes
    <3>2. Max(changes) \in 1..n
      BY <1>1, <2>3, <3>1, MaxOfNat
    <3>3. log'[Max(changes)] = log[Max(changes)]
      BY <1>2, <3>2
    <3> USE DEF changes
    <3>4. Lines(t, n) = log[Max(changes)].units
      BY <2>3 DEF Lines
    <3>5. Lines(t, n)' = log'[Max(changes')].units
      BY <2>1, <2>3 DEF Lines
    <3> QED BY <2>1, <3>3, <3>4, <3>5
  <2> QED BY <2>2, <2>3
<1>4. ASSUME NEW m, NEW p \in 1..n PROVE Contribution(m, p, n)' = Contribution(m, p, n)
  <2>1. log'[p] = log[p]
    BY <1>2
  <2>2. Lines(log[p].tx, n)' = Lines(log[p].tx, n)
    <3>1. PICK t : t = log[p].tx
      OBVIOUS
    <3>2. log'[p].tx = t
      BY <2>1, <3>1
    <3>3. Lines(t, n)' = Lines(t, n)
      BY <1>3
    <3> QED BY <3>1, <3>2, <3>3 DEF Lines, Is
  <2> QED BY <2>1, <2>2 DEF Contribution
<1>5. ASSUME NEW m PROVE MonthTotal(m, n)' = MonthTotal(m, n)
  <2>1. PICK s : MonthSums(s, Contributions(m, n), n) /\ MonthTotal(m, n) = s[n]
    BY MonthTotalIsTheSum
  <2>2. TotalsAreSums'
    BY MonthTotalsAreSums, PTL
  <2>3. PICK t : MonthSums(t, Contributions(m, n)', n) /\ MonthTotal(m, n)' = t[n]
    BY <1>1, <2>2 DEF TotalsAreSums, MonthSums
  <2>4. \A p \in 1..n : Contributions(m, n)'[p] = Contributions(m, n)[p]
    BY <1>4 DEF Contributions
  <2>5. t[n] = s[n]
    BY <1>1, <2>1, <2>3, <2>4, SumsAgree
  <2> QED BY <2>1, <2>3, <2>5
<1> QED BY <1>5 DEF Replay

-----------------------------------------------------------------------------
(* The generations *)

\* A generation stays within the ledger, and once filled it is the replay to its cursor.
Replayed(x) ==
    /\ x.last <= Len(log)
    /\ x.state # "building" => \E n \in 0..Len(log) : n = x.last /\ x.rows = Replay(n)

ThroughOK == \A r \in Rebuilders : rebuild[r].through <= Len(log)

RInv ==
    /\ PInv
    /\ ThroughOK
    /\ \A g \in 1..Len(gens) : Replayed(gens[g])

\* The ledger growing does not unmake a replay.
LEMMA ReplayedStays ==
  ASSUME PInv, PInv', NEW x, x.last \in Nat, Replayed(x), Len(log) <= Len(log)',
         \A p \in 1..Len(log) : log'[p] = log[p]
  PROVE  Replayed(x)'
<1>1. x.last \in 0..Len(log) /\ Len(log) \in Nat /\ Len(log)' \in Nat
  BY DEF PInv, ProjectionTypeOK, Replayed
<1>2. PICK n \in 0..Len(log) : n = x.last
  BY <1>1
<1>3. Replay(n)' = Replay(n)
  BY ReplayIsStable
<1> QED BY <1>1, <1>2, <1>3 DEF Replayed

\* A generation that a step leaves with the row x is what x is.
LEMMA RowIsReplayed ==
  ASSUME NEW g, NEW x, gens'[g] = x, Replayed(x)'
  PROVE  Replayed(gens[g])'
BY DEF Replayed

\* Replacing the dirty periods of a batch makes a replay through the end of the batch, of a
\* replay through the checkpoint as of an empty table, however old the batch's start is.
LEMMA ReplacingIsReplaying ==
  ASSUME PInv, NEW w \in Workers, Advance(w), NEW old,
         \A m \in Months : old[m] = MonthTotal(m, checkpoint.last)
  PROVE  ReplacePeriods(w, old) = Replay(run[w].final)
<1> DEFINE to == run[w].final
           from == checkpoint.last
<1>1. run[w].pc = "write"
  BY DEF Advance, ProjectBatch
<1>2. /\ run[w].after \in Nat /\ run[w].after <= from /\ from \in Nat /\ to \in Nat
      /\ Len(log) \in Nat
  BY <1>1, WriterFacts
<1>3. from <= to /\ to <= Len(log)
  BY AdvanceMoves
<1>4. ASSUME NEW m \in Months, m \notin DirtyPeriods(run[w].after + 1, to)
      PROVE  old[m] = MonthTotal(m, to)
  <2>1. \A p \in from + 1 .. to : p \in run[w].after + 1 .. to
    BY <1>2
  <2>2. m \notin DirtyPeriods(from + 1, to)
    <3> HIDE DEF to, from
    <3> QED BY <1>4, <2>1 DEF DirtyPeriods
  <2>3. to \in 0..Len(log) /\ from \in 0..to
    BY <1>2, <1>3
  <2>4. MonthTotal(m, to) = MonthTotal(m, from)
    <3> HIDE DEF to, from
    <3> QED BY <2>2, <2>3, CleanPeriodsTotalTheSame
  <2> QED BY <2>4
<1> QED BY <1>4 DEF ReplacePeriods, Replay

\* Every step keeps the generations replays.
LEMMA NextKeepsReplays ==
  ASSUME RInv, PInv', [Next]_vars, NEW g \in 1..Len(gens')
  PROVE  Replayed(gens[g])'
<1> DEFINE n == Len(gens)
<1>1. /\ PInv /\ n \in Nat /\ gens \in Seq(Generations(RowsOf(gens))) /\ Len(log) \in Nat
      /\ \A h \in 1..n : gens[h].last \in Nat
      /\ run \in [Workers -> RunRecords] /\ rebuild \in [Rebuilders -> RebuildRecords]
      /\ checkpoint.last \in Nat
  <2>1. /\ PInv /\ n \in Nat /\ gens \in Seq(Generations(RowsOf(gens))) /\ Len(log) \in Nat
        /\ checkpoint.last \in Nat
    BY DEF RInv, PInv, ProjectionTypeOK
  <2>2. run \in [Workers -> RunRecords] /\ rebuild \in [Rebuilders -> RebuildRecords]
    BY DEF RInv, PInv, ProjectionTypeOK, RunRecords, RebuildRecords
  <2>3. ASSUME NEW h \in 1..n PROVE gens[h].last \in Nat
    <3>1. gens[h] \in Generations(RowsOf(gens))
      BY <2>1
    <3> QED BY <3>1 DEF Generations
  <2> QED BY <2>1, <2>2, <2>3
<1>2. CASE \E e \in LedgerEvents : CommandCommits(e)
  <2>1. PICK e \in LedgerEvents : log' = Append(log, e) /\ gens' = gens
    BY <1>2 DEF CommandCommits, tables
  <2>2. /\ Len(log') = Len(log) + 1 /\ \A p \in 1..Len(log) : log'[p] = log[p]
    BY <1>1, <2>1, LogGrows
  <2>3. PICK x : x = gens[g]
    OBVIOUS
  <2>4. Replayed(x) /\ x.last \in Nat /\ gens'[g] = x
    BY <1>1, <2>1, <2>3 DEF RInv
  <2>5. Replayed(x)'
    BY <1>1, <2>2, <2>4, ReplayedStays
  <2> QED BY <2>4, <2>5, RowIsReplayed
<1>3. ASSUME UNCHANGED log, NEW x, x.last \in Nat, Replayed(x) PROVE Replayed(x)'
  BY <1>1, <1>3, ReplayedStays
<1>4. ASSUME UNCHANGED log, g \in 1..n, gens'[g] = gens[g] PROVE Replayed(gens[g])'
  <2>1. PICK x : x = gens[g]
    OBVIOUS
  <2>2. Replayed(x) /\ x.last \in Nat
    BY <1>1, <1>4, <2>1 DEF RInv
  <2>3. Replayed(x)'
    BY <1>3, <1>4, <2>2
  <2> QED BY <1>4, <2>1, <2>3, RowIsReplayed
<1>5. ASSUME NEW w \in Workers, RecordFailure(w) PROVE Replayed(gens[g])'
  <2>1. UNCHANGED log
    BY <1>5 DEF RecordFailure
  <2>2. CASE gens' = gens
    BY <1>4, <2>1, <2>2
  <2>3. CASE gens' # gens
    <3>1. PICK x : x = [state |-> "building", last |-> 0, target |-> run[w].final,
                        rows |-> [m \in Months |-> 0]]
      OBVIOUS
    <3>2. gens' = Append(gens, x)
      BY <1>5, <2>3, <3>1 DEF RecordFailure
    <3>3. run[w].final \in Nat
      BY <1>1 DEF RunRecords
    <3>4. x \in Generations({x.rows}) /\ x.state = "building" /\ x.last = 0
      BY <3>1, <3>3 DEF Generations, States
    <3>5. /\ Len(gens') = n + 1 /\ \A h \in 1..n : gens'[h] = gens[h]
          /\ gens'[n + 1] = x
      BY <1>1, <3>2, <3>4, AppendGeneration
    <3>6. CASE g \in 1..n
      BY <1>4, <2>1, <3>5, <3>6
    <3>7. CASE g = n + 1
      <4>1. Replayed(x)
        BY <1>1, <3>4 DEF Replayed
      <4>2. Replayed(x)'
        BY <1>3, <2>1, <3>4, <4>1
      <4> QED BY <3>5, <3>7, <4>2, RowIsReplayed
    <3> QED BY <1>1, <3>5, <3>6, <3>7
  <2> QED BY <2>2, <2>3
<1>6. ASSUME NEW w \in Workers, Advance(w) PROVE Replayed(gens[g])'
  <2> DEFINE to == run[w].final
             a == run[w].gen
  <2>1. UNCHANGED log /\ run[w].pc = "write"
    BY <1>6 DEF Advance, ProjectBatch
  <2>2. /\ a = checkpoint.active /\ a \in 0..n /\ to \in Nat
    BY <1>1, <2>1, WriterFacts
  <2>3. to <= Len(log)
    BY <1>1, <1>6, AdvanceMoves
  <2>4. CASE a = 0
    <3>1. PICK x : x = [state |-> "active", last |-> to, target |-> to,
                        rows |-> ReplacePeriods(w, [m \in Months |-> 0])]
      OBVIOUS
    <3>2. gens' = Append(gens, x)
      BY <1>6, <2>4, <3>1 DEF Advance, ProjectBatch
    <3>3. x \in Generations({x.rows}) /\ x.last = to
      BY <2>2, <3>1 DEF Generations, States
    <3>4. /\ Len(gens') = n + 1 /\ \A h \in 1..n : gens'[h] = gens[h]
          /\ gens'[n + 1] = x
      BY <1>1, <3>2, <3>3, AppendGeneration
    <3>5. x.rows = Replay(to)
      <4>1. checkpoint.last = 0
        BY <1>1, <2>2, <2>4 DEF PInv, ActiveFollowsCheckpoint
      <4>2. PICK old : old = [m \in Months |-> 0]
        OBVIOUS
      <4>3. \A m \in Months : old[m] = MonthTotal(m, checkpoint.last)
        BY <1>1, <4>1, <4>2, NothingTotalsNothing
      <4>4. ReplacePeriods(w, old) = Replay(to)
        BY <1>1, <1>6, <4>3, ReplacingIsReplaying
      <4> QED BY <3>1, <4>2, <4>4
    <3>6. CASE g \in 1..n
      BY <1>4, <2>1, <3>4, <3>6
    <3>7. CASE g = n + 1
      <4> HIDE DEF to
      <4>1. Replayed(x)
        BY <1>1, <2>2, <2>3, <3>3, <3>5 DEF Replayed
      <4>2. Replayed(x)'
        BY <1>3, <2>1, <2>2, <3>3, <4>1
      <4> QED BY <3>4, <3>7, <4>2, RowIsReplayed
    <3> QED BY <1>1, <3>4, <3>6, <3>7
  <2>5. CASE a # 0
    <3>1. a \in 1..n /\ gens[a] \in Generations(RowsOf(gens))
      BY <1>1, <2>2, <2>5
    <3>2. gens[a].state = "active" /\ gens[a].last = checkpoint.last
      BY <1>1, <2>2, <2>5 DEF PInv, ActiveFollowsCheckpoint
    <3>3. gens[a].rows = Replay(checkpoint.last)
      BY <1>1, <3>1, <3>2 DEF RInv, Replayed
    <3>4. ReplacePeriods(w, gens[a].rows) = Replay(to)
      <4>1. PICK old : old = gens[a].rows
        OBVIOUS
      <4>2. \A m \in Months : old[m] = MonthTotal(m, checkpoint.last)
        BY <3>3, <4>1 DEF Replay
      <4>3. ReplacePeriods(w, old) = Replay(to)
        BY <1>1, <1>6, <4>2, ReplacingIsReplaying
      <4> QED BY <4>1, <4>3
    <3>5. gens' = [gens EXCEPT ![a].last = to, ![a].target = Max({@, to}),
                               ![a].rows = ReplacePeriods(w, @)]
      BY <1>6, <2>5 DEF Advance, ProjectBatch
    <3>6. CASE g # a
      <4>1. Len(gens') = n /\ gens'[g] = gens[g]
        BY <1>1, <3>1, <3>5, <3>6
      <4> QED BY <1>4, <2>1, <4>1
    <3>7. CASE g = a
      <4>1. gens'[a].last = to /\ gens'[a].rows = Replay(to)
        BY <1>1, <3>1, <3>4, <3>5 DEF Generations
      <4>2. PICK x : x = gens'[a]
        OBVIOUS
      <4> HIDE DEF to
      <4>3. Replayed(x) /\ x.last \in Nat
        BY <2>2, <2>3, <4>1, <4>2 DEF Replayed
      <4>4. Replayed(x)'
        BY <1>3, <2>1, <4>3
      <4> QED BY <3>7, <4>2, <4>4, RowIsReplayed
    <3> QED BY <3>6, <3>7
  <2> QED BY <2>4, <2>5
<1>7. ASSUME NEW r \in Rebuilders, BuildShadow(r) \/ Swap(r) PROVE Replayed(gens[g])'
  <2> DEFINE s == rebuild[r].shadow
             to == rebuild[r].through
  <2>1. UNCHANGED log
    BY <1>7 DEF BuildShadow, Swap
  <2>2. /\ s \in Nat /\ to \in Nat /\ to <= Len(log)
        /\ s = n + 1 \/ s \in 1..n
    <3>1. RebuildOK(r) /\ to <= Len(log) /\ rebuild[r] \in RebuildRecords
      BY <1>1 DEF RInv, ThroughOK, PInv
    <3>2. rebuild[r].pc \in {"build", "swap"}
      BY <1>7 DEF BuildShadow, Swap
    <3> QED BY <3>1, <3>2 DEF RebuildOK, Unfinished, RebuildRecords
  <2>3. PICK x : x \in {Filled(r, "catching_up"), Filled(r, "active")} /\
                 (BuildShadow(r) => x = Filled(r, "catching_up")) /\
                 (~BuildShadow(r) => x = Filled(r, "active"))
    OBVIOUS
  <2>4. x.last = to /\ x.rows = Replay(to) /\ x \in Generations({x.rows})
    BY <2>2, <2>3 DEF Filled, Generations, States
  <2>5. Replayed(x)'
    <3> HIDE DEF to
    <3>1. Replayed(x) /\ x.last \in Nat
      BY <2>2, <2>4 DEF Replayed
    <3> QED BY <1>3, <2>1, <3>1
  <2>6. CASE BuildShadow(r)
    <3>1. CASE s = n + 1
      <4>1. gens' = Append(gens, x)
        BY <1>1, <2>3, <2>6, <3>1 DEF BuildShadow
      <4>2. /\ Len(gens') = n + 1 /\ \A h \in 1..n : gens'[h] = gens[h]
            /\ gens'[n + 1] = x
        BY <1>1, <2>4, <4>1, AppendGeneration
      <4>3. CASE g \in 1..n
        BY <1>4, <2>1, <4>2, <4>3
      <4>4. CASE g = n + 1
        BY <2>5, <4>2, <4>4, RowIsReplayed
      <4> QED BY <1>1, <4>2, <4>3, <4>4
    <3>2. CASE s \in 1..n
      <4>1. gens' = [gens EXCEPT ![s] = x]
        BY <1>1, <2>3, <2>6, <3>2 DEF BuildShadow
      <4>2. Len(gens') = n /\ gens'[s] = x /\ (g # s => gens'[g] = gens[g])
        BY <1>1, <3>2, <4>1
      <4>3. CASE g = s
        BY <2>5, <4>2, <4>3, RowIsReplayed
      <4>4. CASE g # s
        BY <1>4, <2>1, <4>2, <4>4
      <4> QED BY <4>3, <4>4
    <3> QED BY <2>2, <3>1, <3>2
  <2>7. CASE Swap(r) /\ ~BuildShadow(r)
    <3> DEFINE a == checkpoint.active
    <3>1. gens' = [gens EXCEPT ![a].state = "retired", ![s] = x]
      BY <2>3, <2>7 DEF Swap
    <3>2. /\ rebuild[r].pc = "swap" /\ a # 0 /\ s \in 1..n
          /\ gens[s].state = "catching_up"
      BY <1>1, <2>7 DEF Swap, PInv, RebuildOK
    <3>3. a \in 1..n /\ a # s /\ gens[a].state = "active"
      BY <1>1, <3>2 DEF PInv, ActiveFollowsCheckpoint
    <3>4. /\ Len(gens') = n /\ gens'[s] = x
          /\ gens'[a] = [gens[a] EXCEPT !.state = "retired"]
          /\ g \notin {a, s} => gens'[g] = gens[g]
      <4> HIDE DEF a, s
      <4>1. gens' = [[gens EXCEPT ![a].state = "retired"] EXCEPT ![s] = x]
        BY <3>1
      <4>2. PICK t : t = [gens EXCEPT ![a] = [gens[a] EXCEPT !.state = "retired"]]
        OBVIOUS
      <4>3. gens' = [t EXCEPT ![s] = x]
        BY <4>1, <4>2
      <4>4. /\ DOMAIN t = 1..n /\ t[a] = [gens[a] EXCEPT !.state = "retired"]
            /\ \A h \in (1..n) \ {a} : t[h] = gens[h]
        BY <1>1, <3>3, <4>2
      <4>5. /\ DOMAIN gens' = 1..n /\ gens'[s] = x /\ gens'[a] = t[a]
            /\ \A h \in (1..n) \ {s} : gens'[h] = t[h]
        BY <3>2, <3>3, <4>3, <4>4
      <4>6. Len(gens') = n
        BY <1>1, <4>5 DEF PInv, ProjectionTypeOK
      <4> QED BY <4>4, <4>5, <4>6
    <3>5. CASE g = s
      BY <2>5, <3>4, <3>5, RowIsReplayed
    <3>6. CASE g = a
      <4>1. PICK y : y = gens'[a]
        OBVIOUS
      <4>2. y.last = gens[a].last /\ y.rows = gens[a].rows
        <5>1. gens[a] \in Generations(RowsOf(gens))
          BY <1>1, <3>3
        <5> HIDE DEF a
        <5> QED BY <3>4, <4>1, <5>1 DEF Generations
      <4>3. Replayed(gens[a]) /\ gens[a].last \in Nat
        BY <1>1, <3>3 DEF RInv
      <4>4. Replayed(y) /\ y.last \in Nat
        BY <3>3, <4>2, <4>3 DEF Replayed
      <4>5. Replayed(y)'
        BY <1>3, <2>1, <4>4
      <4> QED BY <3>6, <4>1, <4>5, RowIsReplayed
    <3>7. CASE g \notin {a, s}
      BY <1>4, <2>1, <3>4, <3>7
    <3> QED BY <3>5, <3>6, <3>7
  <2> QED BY <1>7, <2>6, <2>7
<1>8. CASE UNCHANGED <<log, gens>>
  BY <1>4, <1>8
<1>9. \/ \E e \in LedgerEvents : CommandCommits(e)
      \/ \E w \in Workers : RecordFailure(w) \/ Advance(w)
      \/ \E r \in Rebuilders : BuildShadow(r) \/ Swap(r)
      \/ UNCHANGED <<log, gens>>
  <2>1. CASE Ledger
    BY <2>1, LedgerEventsOnly
  <2>2. CASE ~Ledger
    BY <2>2
       DEF Next, Cycle, RunOnce, TakeLead, Poll, CatchUp, Begin, ReadEvents, LockState,
           RefuseBackward, Abort, LoseLead, FindShadow, Rebuild, LockSwap, StopRebuild, vars,
           tables
  <2> QED BY <2>1, <2>2
<1> QED BY <1>2, <1>5, <1>6, <1>7, <1>8, <1>9

\* A rebuilder never replays past the ledger.
LEMMA NextKeepsThrough ==
  ASSUME PInv, PInv', ThroughOK, [Next]_vars
  PROVE  ThroughOK'
<1> SUFFICES ASSUME NEW r \in Rebuilders PROVE rebuild'[r].through <= Len(log')
  BY DEF ThroughOK
<1>1. /\ rebuild \in [Rebuilders -> RebuildRecords] /\ Len(log) \in Nat
      /\ Len(log') \in Nat /\ rebuild[r].through \in Nat
  BY DEF PInv, ProjectionTypeOK, RebuildRecords
<1>2. rebuild[r].through <= Len(log)
  BY DEF ThroughOK
<1>3. CASE \E e \in LedgerEvents : CommandCommits(e)
  <2>1. rebuild' = rebuild /\ Len(log') = Len(log) + 1
    BY <1>3, LogGrows DEF CommandCommits
  <2> QED BY <1>1, <1>2, <2>1
<1>4. ASSUME NEW o \in Rebuilders, FindShadow(o) \/ Rebuild(o) \/ StopRebuild(o)
      PROVE  rebuild'[r].through <= Len(log')
  <2>1. log' = log
    BY <1>4 DEF FindShadow, Rebuild, BuildShadow, LockSwap, Swap, StopRebuild
  <2>2. rebuild'[r].through \in {rebuild[r].through, 0, Len(log)}
    <3>1. CASE o # r
      BY <1>1, <1>4, <3>1 DEF FindShadow, Rebuild, BuildShadow, LockSwap, Swap, StopRebuild
    <3>2. CASE o = r /\ FindShadow(r)
      BY <1>1, <3>2 DEF FindShadow
    <3>3. CASE o = r /\ (BuildShadow(r) \/ LockSwap(r))
      BY <1>1, <3>3 DEF BuildShadow, LockSwap, RebuildRecords
    <3>4. CASE o = r /\ (Swap(r) \/ StopRebuild(r))
      BY <1>1, <3>4 DEF Swap, StopRebuild, NoRebuild
    <3> QED BY <1>4, <3>1, <3>2, <3>3, <3>4 DEF Rebuild
  <2> QED BY <1>1, <1>2, <2>1, <2>2
<1>5. CASE UNCHANGED <<log, rebuild>>
  BY <1>2, <1>5
<1>6. \/ \E e \in LedgerEvents : CommandCommits(e)
      \/ \E o \in Rebuilders : FindShadow(o) \/ Rebuild(o) \/ StopRebuild(o)
      \/ UNCHANGED <<log, rebuild>>
  <2>1. CASE Ledger
    BY <2>1, LedgerEventsOnly
  <2>2. CASE ~Ledger
    BY <2>2
       DEF Next, Cycle, RunOnce, TakeLead, Poll, CatchUp, Begin, ReadEvents, LockState,
           RecordFailure, Advance, ProjectBatch, RefuseBackward, Abort, LoseLead, vars
  <2> QED BY <2>1, <2>2
<1> QED BY <1>3, <1>4, <1>5, <1>6

\* The rows of every filled generation are the cold replay through its cursor: the dirty
\* periods of a batch miss no month it changes, whichever generation is active.
THEOREM RowsAreReplays == Spec => []GenerationsAreReplays
<1>1. Init => RInv
  BY InitPInv DEF RInv, Init, ThroughOK, NoRebuild
<1>2. RInv /\ [Next]_vars => RInv'
  BY NextKeepsPInv, NextKeepsReplays, NextKeepsThrough DEF RInv
<1>3. RInv => GenerationsAreReplays
  BY DEF RInv, Replayed, GenerationsAreReplays
<1> QED BY <1>1, <1>2, <1>3, PTL DEF Spec

-----------------------------------------------------------------------------
(* Reading the Book while it is written, see BookQueries: the invariants *)

Size(k) == IF k < 0 THEN -k ELSE k
BookEvents ==
    {e \in [type : Booked \cup Classified, entry : Entries, at : Nat,
             of : Entries \cup {Nothing}, lines : [Categories -> Nat], moved : Int,
             units : Nat] : e.units = Size(e.moved)}
WishReceipts == [expected : Nat, revision : Nat, entry : Entries, category : Categories \cup {Nothing}]

\* An entry is booked once.
BookedOnce ==
    \A p, q \in RowsAt(Newest) : events[p].entry = events[q].entry => p = q

\* What an event is about is among the first n.
Follows(e, n) ==
    /\ e.type = "refund" =>
         \E q \in 1..n : /\ events[q].type = "expense" /\ events[q].entry = e.of
                         /\ e.units <= events[q].units
    /\ e.type = "reversal" =>
         \E q \in 1..n : /\ events[q].type \in Booked
                         /\ events[q].entry = e.of /\ e.units = events[q].units
    /\ e.type = "assigned" =>
         \E q \in 1..n : /\ events[q].type \in {"expense", "refund"}
                         /\ events[q].entry = e.entry
                         /\ Allotted(e.lines) <= events[q].units
    /\ e.type = "cleared" => e.lines = NoLines

\* The log: typed, an entry booked once, and what an event is about booked before it.
LogOK ==
    /\ events \in Seq(BookEvents)
    /\ BookedOnce
    /\ \A p \in 1..Newest : Follows(events[p], p - 1)

\* The write of a wish is in the log, as the revision it was answered with.
Written(t, c, v) ==
    /\ Stands(t)
    /\ \E n \in At(t, Classified, Newest) :
         Cardinality(At(t, Classified, n)) = v /\ events[n].lines = Wanted(t, c)

ReceiptOK(r) == r # NoReceipt => r \in WishReceipts /\ Written(r.entry, r.category, r.revision)

PagesRecord(a) ==
    [doing |-> "pages", asOf |-> a.asOf, cursor |-> a.cursor, asked |-> a.asked,
     items |-> a.items, whole |-> a.whole]

\* The part of the journal that the pages have shown: the first k rows.
ShownTo(k, cursor, items, W, whole) ==
    \/ k = 0 /\ cursor = 0 /\ items = <<>>
    \/ k \in 1..Len(W) /\ cursor = W[k] /\ items = SubSeq(whole, 1, k)

\* The pages shown so far are the beginning of what the first statement would have read.
Progress(a) ==
    /\ a.asOf \in 0..Newest
    /\ a.whole = ItemsAt(InOrder(RowsAt(a.asOf)), a.asOf)
    /\ \E k : ShownTo(k, a.cursor, a.items, InOrder(RowsAt(a.asOf)), a.whole)

\* What the tool has read so far.
ToolOK ==
    /\ agent.doing = "pages" => agent = PagesRecord(agent)
    /\ agent.doing \in {"entry", "revision", "write", "head", "lines"} =>
         agent.entry \in Entries /\ agent.category \in Categories \cup {Nothing}
    /\ agent.doing \in {"entry", "revision", "write"} => agent.wish \in Wishes
    /\ agent.doing \in {"entry", "revision"} => agent.head \in 0..Newest
    /\ agent.doing \in {"revision", "write"} => Stands(agent.entry)
    /\ agent.doing = "write" => agent.expected \in Nat
    /\ agent.doing \in {"head", "lines"} => Written(agent.entry, agent.category, agent.revision)

ReceiptsOK == DOMAIN receipts = Wishes /\ \A w \in Wishes : ReceiptOK(receipts[w])

-----------------------------------------------------------------------------
(* The log grows *)

Grows == events' = events \/ \E e \in BookEvents : events' = Append(events, e)

\* What is in the log stays where it is.
LEMMA GrownFacts ==
  ASSUME events \in Seq(BookEvents), Grows
  PROVE  /\ Newest \in Nat /\ Newest' \in Nat /\ Newest <= Newest'
         /\ events' \in Seq(BookEvents)
         /\ \A p \in 1..Newest : events'[p] = events[p]
<1>1. CASE events' = events
  BY <1>1, LenProperties DEF Newest
<1>2. CASE \E e \in BookEvents : events' = Append(events, e)
  BY <1>2, AppendProperties, LenProperties DEF Newest
<1> QED BY <1>1, <1>2 DEF Grows

\* What the tables say of an earlier position stays.
LEMMA PastStays ==
  ASSUME events \in Seq(BookEvents), Grows, NEW n \in 0..Newest
  PROVE  /\ \A t, types : At(t, types, n)' = At(t, types, n)
         /\ RowsAt(n)' = RowsAt(n)
         /\ \A p \in 1..n : events'[p] = events[p]
<1>1. n \in Nat /\ \A p \in 1..n : p \in 1..Newest
  BY GrownFacts
<1>2. \A p \in 1..n : events'[p] = events[p]
  BY <1>1, GrownFacts
<1> QED BY <1>2 DEF At, RowsAt

\* An entry that stands is where it was booked.
LEMMA Home ==
  ASSUME BookedOnce, NEW q \in 1..Newest, events[q].type \in Booked
  PROVE  /\ Stands(events[q].entry)
         /\ PositionOf(events[q].entry) = q /\ BookedAs(events[q].entry) = events[q]
<1>1. q \in RowsAt(Newest)
  BY DEF RowsAt
<1>2. At(events[q].entry, Booked, Newest) = {q}
  BY <1>1 DEF BookedOnce, RowsAt, At
<1> QED BY <1>2 DEF Stands, PositionOf, BookedAs

\* The same after a step.
LEMMA HomeNext ==
  ASSUME BookedOnce', NEW q \in 1..Newest', events'[q].type \in Booked, NEW t,
         t = events'[q].entry
  PROVE  Stands(t)' /\ PositionOf(t)' = q /\ BookedAs(t)' = events'[q]
<1>1. q \in RowsAt(Newest)'
  BY DEF RowsAt
<1>2. At(t, Booked, Newest)' = {q}
  BY <1>1 DEF BookedOnce, RowsAt, At
<1> QED BY <1>2 DEF Stands, PositionOf, BookedAs

\* Where an entry that stands was booked.
LEMMA StandsFacts ==
  ASSUME events \in Seq(BookEvents), BookedOnce, NEW t, Stands(t)
  PROVE  \E q \in 1..Newest : /\ events[q].type \in Booked /\ events[q].entry = t
                              /\ PositionOf(t) = q /\ BookedAs(t) = events[q]
                              /\ BookedAs(t) \in BookEvents
<1>1. PICK q \in 1..Newest : events[q].type \in Booked /\ events[q].entry = t
  BY DEF Stands, At
<1>2. events[q] \in BookEvents
  BY ElementOfSeq DEF Newest
<1> QED BY <1>1, <1>2, Home

\* What stands goes on standing, as it was booked.
LEMMA StandingStays ==
  ASSUME events \in Seq(BookEvents), BookedOnce, Grows, BookedOnce', NEW t, Stands(t)
  PROVE  Stands(t)' /\ BookedAs(t)' = BookedAs(t) /\ PositionOf(t)' = PositionOf(t)
         /\ \A c : Wanted(t, c)' = Wanted(t, c)
<1>1. PICK q \in 1..Newest : /\ events[q].type \in Booked /\ events[q].entry = t
                             /\ PositionOf(t) = q /\ BookedAs(t) = events[q]
  BY StandsFacts
<1>2. q \in 1..Newest' /\ events'[q] = events[q]
  BY GrownFacts
<1>3. Stands(t)' /\ PositionOf(t)' = q /\ BookedAs(t)' = events'[q]
  BY <1>1, <1>2, HomeNext
<1>4. BookedAs(t)' = BookedAs(t)
  BY <1>1, <1>2, <1>3
<1> QED BY <1>1, <1>3, <1>4 DEF Wanted

\* A write stays in the log.
LEMMA WrittenStays ==
  ASSUME events \in Seq(BookEvents), BookedOnce, Grows, BookedOnce', NEW t, NEW c, NEW v,
         Written(t, c, v)
  PROVE  Written(t, c, v)'
<1>1. Stands(t)
  BY DEF Written
<1>2. Stands(t)' /\ Wanted(t, c)' = Wanted(t, c)
  BY <1>1, StandingStays
<1>3. PICK n \in At(t, Classified, Newest) :
         Cardinality(At(t, Classified, n)) = v /\ events[n].lines = Wanted(t, c)
  BY DEF Written
<1>4. n \in 0..Newest /\ n \in 1..Newest
  BY <1>3, GrownFacts DEF At
<1>5. At(t, Classified, n)' = At(t, Classified, n) /\ events'[n] = events[n]
  BY <1>4, PastStays, GrownFacts
<1>6. n \in At(t, Classified, Newest)'
  BY <1>3, <1>4, <1>5, GrownFacts DEF At
<1>7. Cardinality(At(t, Classified, n))' = v /\ events'[n].lines = Wanted(t, c)'
  BY <1>2, <1>3, <1>5
<1> QED BY <1>2, <1>6, <1>7 DEF Written
-----------------------------------------------------------------------------
(* Every step keeps the log *)

\* What follows from the log goes on following from it.
LEMMA FollowsStays ==
  ASSUME events \in Seq(BookEvents), Grows, NEW e, NEW n \in 0..Newest, Follows(e, n),
         NEW m \in Nat, n <= m
  PROVE  Follows(e, m)'
<1>1. \A q \in 1..n : q \in 1..m /\ events'[q] = events[q]
  BY GrownFacts
<1>2. e.type = "refund" =>
        \E q \in 1..m : /\ events'[q].type = "expense" /\ events'[q].entry = e.of
                        /\ e.units <= events'[q].units
  BY <1>1 DEF Follows
<1>3. e.type = "reversal" =>
        \E q \in 1..m : /\ events'[q].type \in Booked
                        /\ events'[q].entry = e.of /\ e.units = events'[q].units
  BY <1>1 DEF Follows
<1>4. e.type = "assigned" =>
        \E q \in 1..m : /\ events'[q].type \in {"expense", "refund"}
                        /\ events'[q].entry = e.entry
                        /\ Allotted(e.lines) <= events'[q].units
  BY <1>1 DEF Follows
<1>5. e.type = "cleared" => e.lines = NoLines
  BY DEF Follows
<1> QED BY <1>2, <1>3, <1>4, <1>5 DEF Follows

\* An event that follows from the log is added to it.
LEMMA Added ==
  ASSUME LogOK, NEW e \in BookEvents, events' = Append(events, e),
         e.type \in Booked => ~Stands(e.entry), Follows(e, Newest)
  PROVE  LogOK' /\ Grows
<1>1. Grows
  BY DEF Grows
<1>2. events \in Seq(BookEvents) /\ BookedOnce
  BY DEF LogOK
<1>3. /\ Newest' = Newest + 1 /\ Newest \in Nat /\ events'[Newest + 1] = e
      /\ events' \in Seq(BookEvents)
      /\ \A p \in 1..Newest : events'[p] = events[p]
  BY <1>1, <1>2, GrownFacts, AppendProperties, LenProperties DEF Newest
<1>4. BookedOnce'
  <2> SUFFICES ASSUME NEW p \in RowsAt(Newest)', NEW q \in RowsAt(Newest)',
                      events'[p].entry = events'[q].entry
               PROVE  p = q
    BY DEF BookedOnce
  <2>1. /\ p \in 1..(Newest + 1) /\ q \in 1..(Newest + 1)
        /\ events'[p].type \in Booked /\ events'[q].type \in Booked
    BY <1>3 DEF RowsAt
  <2>2. CASE p \in 1..Newest /\ q \in 1..Newest
    BY <2>1, <2>2, <1>2, <1>3 DEF BookedOnce, RowsAt
  <2>3. CASE p = Newest + 1 /\ q \in 1..Newest
    <3>1. Stands(e.entry)
      BY <2>1, <2>3, <1>3 DEF Stands, At
    <3> QED BY <3>1, <2>1, <2>3, <1>3
  <2>4. CASE q = Newest + 1 /\ p \in 1..Newest
    <3>1. Stands(e.entry)
      BY <2>1, <2>4, <1>3 DEF Stands, At
    <3> QED BY <3>1, <2>1, <2>4, <1>3
  <2> QED BY <2>1, <2>2, <2>3, <2>4, <1>3
<1>5. ASSUME NEW p \in 1..Newest' PROVE Follows(events[p], p - 1)'
  <2>1. CASE p \in 1..Newest
    <3>1. Follows(events[p], p - 1) /\ p - 1 \in 0..Newest /\ p - 1 \in Nat /\ p - 1 <= p - 1
      BY <2>1, <1>3 DEF LogOK
    <3>2. PICK x : x = events[p]
      OBVIOUS
    <3>3. Follows(x, p - 1)
      BY <3>1, <3>2
    <3>4. Follows(x, p - 1)'
      BY <3>1, <3>3, <1>1, <1>2, FollowsStays
    <3> QED BY <3>2, <3>4, <2>1, <1>3
  <2>2. CASE p = Newest + 1
    <3>1. Newest \in 0..Newest /\ Newest <= Newest
      BY <1>3
    <3>2. PICK n : n = Newest
      OBVIOUS
    <3>3. Follows(e, n) /\ n \in 0..Newest /\ n \in Nat /\ n <= n
      BY <3>1, <3>2, <1>3
    <3>4. Follows(e, n)'
      BY <3>3, <1>1, <1>2, FollowsStays
    <3> QED BY <3>2, <3>4, <2>2, <1>3
  <2>3. p \in 1..(Newest + 1) /\ Newest \in Nat
    BY <1>3
  <2>4. p \in 1..Newest \/ p = Newest + 1
    BY <2>3
  <2> QED BY <2>1, <2>2, <2>4
<1> QED BY <1>1, <1>3, <1>4, <1>5 DEF LogOK

\* The steps that leave the log as it is.
LEMMA Untouched ==
  ASSUME LogOK, UNCHANGED events
  PROVE  LogOK' /\ Grows
<1>1. events' = events /\ events \in Seq(BookEvents) /\ BookedOnce
  BY DEF LogOK
<1>2. BookedOnce'
  BY <1>1 DEF BookedOnce, RowsAt, Newest
<1>3. \A p \in 1..Newest : Follows(events[p], p - 1)'
  BY <1>1 DEF LogOK, Follows, Newest
<1> QED BY <1>1, <1>2, <1>3 DEF LogOK, Grows, Newest

\* What is written is an event.
LEMMA EnteredType ==
  ASSUME NEW type \in Booked \cup Classified, NEW t \in Entries, NEW at \in Nat,
         NEW of \in Entries \cup {Nothing}, NEW moved \in Int, NEW lines \in [Categories -> Nat]
  PROVE  /\ Entered(type, t, at, of, moved, lines) \in BookEvents
         /\ Entered(type, t, at, of, moved, lines).units = Size(moved)
<1> DEFINE e == Entered(type, t, at, of, moved, lines)
<1>1. e = [type |-> type, entry |-> t, at |-> at, of |-> of, lines |-> lines,
           moved |-> moved, units |-> Size(moved)]
  BY DEF Entered, Size
<1>2. Size(moved) \in Nat
  BY DEF Size
<1> HIDE DEF e
<1>3. e \in BookEvents /\ e.units = Size(moved)
  BY <1>1, <1>2 DEF BookEvents
<1> QED BY <1>3 DEF e

LEMMA NoLinesType == NoLines \in [Categories -> Nat]
BY DEF NoLines

\* What is wanted of an entry that stands.
LEMMA WantedType ==
  ASSUME LogOK, NEW t, Stands(t), NEW c
  PROVE  Wanted(t, c) \in [Categories -> Nat]
<1>1. BookedAs(t) \in BookEvents
  BY StandsFacts DEF LogOK
<1>2. BookedAs(t).units \in Nat
  BY <1>1 DEF BookEvents
<1> QED BY <1>2 DEF Wanted

\* To want nothing of an entry is to want no lines.
LEMMA WantedNothing == ASSUME NEW t PROVE Wanted(t, Nothing) = NoLines
BY CategoriesAssumption DEF Wanted, NoLines

LEMMA ExpenseKeepsLog ==
  ASSUME LogOK, NEW t \in Entries, NEW at \in Moments, NEW units \in Sizes,
         BookExpense(t, at, units)
  PROVE  LogOK' /\ Grows
<1> DEFINE e == Entered("expense", t, at, Nothing, -units, NoLines)
<1>1. e \in BookEvents
  <2>1. at \in Nat /\ -units \in Int /\ "expense" \in Booked \cup Classified
    BY QueriesAssumption DEF Booked
  <2> QED BY <2>1, EnteredType, NoLinesType
<1>2. e.type = "expense" /\ e.entry = t
  BY DEF Entered
<1>3. events' = Append(events, e) /\ ~Stands(t)
  BY DEF BookExpense, Happens
<1>4. Follows(e, Newest)
  BY <1>2 DEF Follows
<1> HIDE DEF e
<1> QED BY <1>1, <1>2, <1>3, <1>4, Added

LEMMA RefundKeepsLog ==
  ASSUME LogOK, NEW t \in Entries, NEW of \in Entries, NEW at \in Moments,
         NEW units \in Sizes, BookRefund(t, of, at, units)
  PROVE  LogOK' /\ Grows
<1> DEFINE e == Entered("refund", t, at, of, units, NoLines)
<1>1. e \in BookEvents /\ e.units = units
  <2>1. at \in Nat /\ units \in Nat /\ "refund" \in Booked \cup Classified
    BY QueriesAssumption DEF Booked
  <2>2. units \in Int /\ Size(units) = units
    BY <2>1 DEF Size
  <2> QED BY <2>1, <2>2, EnteredType, NoLinesType
<1>2. e.type = "refund" /\ e.entry = t /\ e.of = of /\ e.units = units
  BY <1>1 DEF Entered
<1>3. /\ events' = Append(events, e) /\ ~Stands(t) /\ Stands(of)
      /\ BookedAs(of).type = "expense" /\ units <= BookedAs(of).units
  BY DEF BookRefund, Happens
<1>4. PICK q \in 1..Newest : events[q].entry = of /\ BookedAs(of) = events[q]
  BY <1>3, StandsFacts DEF LogOK
<1>5. Follows(e, Newest)
  BY <1>2, <1>3, <1>4 DEF Follows
<1> HIDE DEF e
<1> QED BY <1>1, <1>2, <1>3, <1>5, Added

LEMMA ReversalKeepsLog ==
  ASSUME LogOK, NEW t \in Entries, NEW of \in Entries, NEW at \in Moments,
         BookReversal(t, of, at)
  PROVE  LogOK' /\ Grows
<1> DEFINE e == Entered("reversal", t, at, of, -BookedAs(of).moved, NoLines)
<1>3. events' = Append(events, e) /\ ~Stands(t) /\ Stands(of)
  BY DEF BookReversal, Happens
<1>4. PICK q \in 1..Newest : /\ events[q].type \in Booked /\ events[q].entry = of
                             /\ BookedAs(of) = events[q] /\ BookedAs(of) \in BookEvents
  BY <1>3, StandsFacts DEF LogOK
<1>1. e \in BookEvents /\ e.units = BookedAs(of).units
  <2>1. PICK m \in Int : m = BookedAs(of).moved /\ BookedAs(of).units = Size(m)
    BY <1>4 DEF BookEvents
  <2>2. at \in Nat /\ -m \in Int /\ "reversal" \in Booked \cup Classified
    BY QueriesAssumption DEF Booked
  <2>3. Size(-m) = Size(m)
    BY DEF Size
  <2> QED BY <2>1, <2>2, <2>3, EnteredType, NoLinesType
<1>2. e.type = "reversal" /\ e.entry = t /\ e.of = of /\ e.units = BookedAs(of).units
  BY <1>1 DEF Entered
<1>5. Follows(e, Newest)
  BY <1>2, <1>3, <1>4 DEF Follows, Booked
<1> HIDE DEF e
<1> QED BY <1>1, <1>2, <1>3, <1>5, Added

\* Lines that may be assigned follow from the log.
LEMMA AssignableFollows ==
  ASSUME LogOK, NEW t \in Entries, NEW lines \in [Categories -> Nat], Assignable(t, lines),
         NEW e, e = Entered("assigned", t, 0, Nothing, 0, lines)
  PROVE  e \in BookEvents /\ e.type = "assigned" /\ e.entry = t /\ Follows(e, Newest)
<1>1. e \in BookEvents
  <2>1. 0 \in Nat /\ 0 \in Int /\ "assigned" \in Booked \cup Classified
    BY DEF Classified
  <2> QED BY <2>1, EnteredType
<1>2. e.type = "assigned" /\ e.entry = t /\ e.lines = lines
  BY DEF Entered
<1>3. /\ Stands(t) /\ BookedAs(t).type # "reversal"
      /\ Allotted(lines) <= BookedAs(t).units
  BY DEF Assignable, LinesFit
<1>4. PICK q \in 1..Newest : /\ events[q].type \in Booked /\ events[q].entry = t
                             /\ BookedAs(t) = events[q]
  BY <1>3, StandsFacts DEF LogOK
<1>5. Follows(e, Newest)
  BY <1>2, <1>3, <1>4 DEF Follows, Booked
<1> QED BY <1>1, <1>2, <1>5

\* So do lines that are cleared.
LEMMA ClearedFollows ==
  ASSUME NEW t \in Entries, NEW e, e = Entered("cleared", t, 0, Nothing, 0, NoLines)
  PROVE  e \in BookEvents /\ e.type = "cleared" /\ e.entry = t /\ Follows(e, Newest)
<1>1. e \in BookEvents
  <2>1. 0 \in Nat /\ 0 \in Int /\ "cleared" \in Booked \cup Classified
    BY DEF Classified
  <2> QED BY <2>1, EnteredType, NoLinesType
<1>2. e.type = "cleared" /\ e.entry = t /\ e.lines = NoLines
  BY DEF Entered
<1> QED BY <1>1, <1>2 DEF Follows

LEMMA LinesKeepLog ==
  ASSUME LogOK, NEW t \in Entries,
         \/ \E lines \in [Categories -> {0} \cup Sizes] : Assign(t, lines)
         \/ ClearLines(t)
  PROVE  LogOK' /\ Grows
<1>1. CASE \E lines \in [Categories -> {0} \cup Sizes] : Assign(t, lines)
  <2>1. PICK lines \in [Categories -> {0} \cup Sizes] : Assign(t, lines)
    BY <1>1
  <2>2. lines \in [Categories -> Nat]
    <3>1. \A x \in {0} \cup Sizes : x \in Nat
      BY QueriesAssumption
    <3> QED BY <3>1
  <2>3. PICK e : e = Entered("assigned", t, 0, Nothing, 0, lines)
    OBVIOUS
  <2>4. Assignable(t, lines) /\ events' = Append(events, e)
    BY <2>1, <2>3 DEF Assign, Happens
  <2>5. e \in BookEvents /\ e.type = "assigned" /\ Follows(e, Newest)
    BY <2>2, <2>3, <2>4, AssignableFollows
  <2> QED BY <2>4, <2>5, Added DEF Booked
<1>2. CASE ClearLines(t)
  <2>1. PICK e : e = Entered("cleared", t, 0, Nothing, 0, NoLines)
    OBVIOUS
  <2>2. events' = Append(events, e)
    BY <1>2, <2>1 DEF ClearLines, Happens
  <2>3. e \in BookEvents /\ e.type = "cleared" /\ Follows(e, Newest)
    BY <2>1, ClearedFollows
  <2> QED BY <2>2, <2>3, Added DEF Booked
<1> QED BY <1>1, <1>2

LEMMA WritersKeepLog == ASSUME LogOK, WriteBook PROVE LogOK' /\ Grows
BY ExpenseKeepsLog, RefundKeepsLog, ReversalKeepsLog, LinesKeepLog DEF WriteBook
-----------------------------------------------------------------------------
(* The tool, see VerifiedIsTrue *)

\* The positions of an entry's events, and how an event adds to them.
LEMMA AtFacts ==
  ASSUME events \in Seq(BookEvents), NEW t, NEW types, NEW n \in 0..Newest
  PROVE  /\ At(t, types, n) \subseteq 1..n /\ IsFiniteSet(At(t, types, n))
         /\ Cardinality(At(t, types, n)) \in Nat
<1>1. n \in Nat
  BY LenProperties DEF Newest
<1>2. At(t, types, n) \subseteq 1..n
  BY DEF At
<1>3. IsFiniteSet(1..n)
  BY <1>1, FS_Interval
<1>4. IsFiniteSet(At(t, types, n))
  BY <1>2, <1>3, FS_Subset
<1> QED BY <1>2, <1>4, FS_CardinalityType

\* A write is in the log as the revision after the one it expected.
LEMMA WriteWritten ==
  ASSUME LogOK, LogOK', NEW t \in Entries, NEW c, Stands(t),
         NEW e \in BookEvents, events' = Append(events, e),
         e.entry = t, e.type \in Classified, e.lines = Wanted(t, c),
         NEW v, v = Revision(t) + 1
  PROVE  Written(t, c, v)'
<1>1. Grows /\ events \in Seq(BookEvents) /\ BookedOnce /\ BookedOnce'
  BY DEF Grows, LogOK
<1>2. /\ Newest' = Newest + 1 /\ Newest \in Nat /\ events'[Newest + 1] = e
      /\ \A p \in 1..Newest : events'[p] = events[p]
  BY <1>1, GrownFacts, AppendProperties, LenProperties DEF Newest
<1>3. Stands(t)' /\ Wanted(t, c)' = Wanted(t, c)
  BY <1>1, StandingStays
<1>4. PICK n : n = Newest + 1
  OBVIOUS
<1>5. PICK A : A = At(t, Classified, Newest)
  OBVIOUS
<1>6. A \subseteq 1..Newest /\ IsFiniteSet(A) /\ Cardinality(A) \in Nat
  BY <1>1, <1>2, <1>5, AtFacts
<1>7. At(t, Classified, n)' = A \cup {n}
  <2>1. At(t, Classified, n)' = {p \in 1..n : events'[p].entry = t /\ events'[p].type \in Classified}
    BY DEF At
  <2>2. A = {p \in 1..Newest : events[p].entry = t /\ events[p].type \in Classified}
    BY <1>5 DEF At
  <2>3. \A p : p \in 1..n <=> p \in 1..Newest \/ p = n
    BY <1>2, <1>4
  <2>4. events'[n] = e
    BY <1>2, <1>4
  <2> QED BY <1>2, <2>1, <2>2, <2>3, <2>4
<1>8. n \notin A
  BY <1>2, <1>4, <1>6
<1>9. Cardinality(A \cup {n}) = Cardinality(A) + 1
  BY <1>6, <1>8, FS_AddElement
<1>10. n \in At(t, Classified, Newest)'
  BY <1>2, <1>4, <1>7
<1>12. Cardinality(At(t, Classified, n))' = v
  BY <1>5, <1>7, <1>9 DEF Revision
<1>13. events'[n].lines = Wanted(t, c)'
  BY <1>2, <1>3, <1>4
<1> QED BY <1>3, <1>10, <1>12, <1>13 DEF Written

\* When the revision is still the written one, the lines are the wanted ones.
LEMMA LatestWrite ==
  ASSUME LogOK, NEW t, NEW c, Written(t, c, Revision(t))
  PROVE  LinesAt(t, Newest) = Wanted(t, c)
<1>1. Newest \in Nat /\ events \in Seq(BookEvents)
  BY LenProperties DEF LogOK, Newest
<1>2. PICK n \in At(t, Classified, Newest) :
         /\ Cardinality(At(t, Classified, n)) = Revision(t)
         /\ events[n].lines = Wanted(t, c)
  BY DEF Written
<1> DEFINE A == At(t, Classified, Newest)
           B == At(t, Classified, n)
<1>3. n \in 1..Newest /\ Newest \in 0..Newest /\ n \in 0..Newest
  BY <1>1, <1>2 DEF At
<1>4. IsFiniteSet(A) /\ A \subseteq 1..Newest /\ B \subseteq 1..n
  BY <1>1, <1>3, AtFacts
<1>5. B \subseteq A
  BY <1>1, <1>3 DEF At
<1>6. Cardinality(B) = Cardinality(A)
  BY <1>2 DEF Revision
<1>7. A = B
  BY <1>4, <1>5, <1>6, FS_Subset
<1> HIDE DEF A, B
<1>8. n \in A /\ \A m \in A : m \in Int /\ n >= m
  BY <1>1, <1>2, <1>4, <1>7, <1>3 DEF A
<1>9. Max(A) = n
  BY <1>8 DEF Max
<1>10. LinesAt(t, Newest) = events[Max(A)].lines
  BY <1>8 DEF A, LinesAt
<1> QED BY <1>2, <1>9, <1>10

\* A tool that is not asked keeps what it has read, and the receipts stay.
LEMMA ToolStays ==
  ASSUME LogOK, Grows, LogOK', ToolOK, agent' = agent
  PROVE  ToolOK'
<1>1. PICK a : a = agent
  OBVIOUS
<1>2. events \in Seq(BookEvents) /\ BookedOnce /\ BookedOnce'
  BY DEF LogOK
<1>3. Newest \in Nat /\ Newest' \in Nat /\ Newest <= Newest'
  BY <1>2, GrownFacts
<1>4. Stands(a.entry) => Stands(a.entry)'
  BY <1>2, StandingStays
<1>5. Written(a.entry, a.category, a.revision) => Written(a.entry, a.category, a.revision)'
  BY <1>2, WrittenStays
<1> QED BY <1>1, <1>3, <1>4, <1>5 DEF ToolOK

LEMMA ReceiptStays ==
  ASSUME LogOK, Grows, LogOK', NEW r, ReceiptOK(r)
  PROVE  ReceiptOK(r)'
<1>1. Written(r.entry, r.category, r.revision) => Written(r.entry, r.category, r.revision)'
  BY WrittenStays DEF LogOK
<1> QED BY <1>1 DEF ReceiptOK

LEMMA ReceiptsStay ==
  ASSUME LogOK, Grows, LogOK', ReceiptsOK, receipts' = receipts
  PROVE  ReceiptsOK'
BY ReceiptStays DEF ReceiptsOK


\* An agent that does something else has read nothing of the tool.
ToolFree(a) == a.doing \in {"idle", "balances", "reference"} \/ a = PagesRecord(a)

LEMMA FreeIsOK == ASSUME ToolFree(agent) PROVE ToolOK
BY DEF ToolFree, ToolOK, PagesRecord

\* An answer to others says nothing of a category.
LEMMA NotVerified == ASSUME answer.to # "category" PROVE VerifiedIsTrue
BY DEF VerifiedIsTrue

\* The statements of the other requests.
QueryStep ==
    /\ events' = events /\ receipts' = receipts
    /\ ToolFree(agent')
    /\ answer'.to # "category"

LEMMA SilentFacts == ASSUME Silent PROVE answer'.to = "nobody"
BY DEF Silent, NoAnswer

LEMMA IdleIsFree == ToolFree(Idle)
BY DEF ToolFree, Idle

LEMMA PagesAreFree == ASSUME NEW a, NEW b, b = PagesRecord(a) PROVE ToolFree(b)
BY DEF ToolFree, PagesRecord

\* The page in progress, with other contents.
LEMMA PagesExcept ==
  ASSUME NEW a, a = PagesRecord(a), NEW x, NEW y, NEW z
  PROVE  /\ [a EXCEPT !.asked = x, !.asOf = y] =
              [doing |-> "pages", asOf |-> y, cursor |-> a.cursor, asked |-> x,
               items |-> a.items, whole |-> a.whole]
         /\ [a EXCEPT !.asked = x, !.items = y, !.cursor = z] =
              [doing |-> "pages", asOf |-> a.asOf, cursor |-> z, asked |-> x,
               items |-> y, whole |-> a.whole]
<1>1. PICK b, c, d, e, f : a = [doing |-> "pages", asOf |-> b, cursor |-> c, asked |-> d,
                                items |-> e, whole |-> f]
  BY DEF PagesRecord
<1> DEFINE asked == [doing |-> "pages", asOf |-> b, cursor |-> c, asked |-> x,
                     items |-> e, whole |-> f]
           shown == [doing |-> "pages", asOf |-> b, cursor |-> c, asked |-> x,
                     items |-> y, whole |-> f]
<1>2. PICK r : r = [a EXCEPT !.asked = x]
  OBVIOUS
<1>3. r = asked
  BY <1>1, <1>2
<1>5. [r EXCEPT !.asOf = y] =
        [doing |-> "pages", asOf |-> y, cursor |-> c, asked |-> x, items |-> e, whole |-> f]
  BY <1>3
<1>6. PICK s : s = [r EXCEPT !.items = y]
  OBVIOUS
<1>7. s = shown
  BY <1>3, <1>6
<1>8. [s EXCEPT !.cursor = z] =
        [doing |-> "pages", asOf |-> b, cursor |-> z, asked |-> x, items |-> y, whole |-> f]
  BY <1>7
<1> HIDE DEF asked, shown
<1>9. [a EXCEPT !.asked = x, !.asOf = y] = [r EXCEPT !.asOf = y]
  BY <1>2
<1>10. [a EXCEPT !.asked = x, !.items = y, !.cursor = z] = [s EXCEPT !.cursor = z]
  BY <1>2, <1>6
<1>4. a.asOf = b /\ a.cursor = c /\ a.items = e /\ a.whole = f
  BY <1>1
<1> QED BY <1>5, <1>8, <1>9, <1>10, <1>4

LEMMA QueriesKeep == ASSUME ToolOK, QueryBook PROVE QueryStep
<1>1. CASE AskFirstPage
  BY <1>1, SilentFacts DEF AskFirstPage, QueryStep, ToolFree, PagesRecord
<1>2. CASE AskNextPage
  <2>1. agent = PagesRecord(agent)
    BY <1>2 DEF AskNextPage, Reading, ToolOK
  <2>2. PICK n : agent' = [agent EXCEPT !.asked = TRUE, !.asOf = n]
    BY <1>2 DEF AskNextPage
  <2>3. agent' = [doing |-> "pages", asOf |-> n, cursor |-> agent.cursor, asked |-> TRUE,
                  items |-> agent.items, whole |-> agent.whole]
    BY <2>1, <2>2, PagesExcept
  <2>4. ToolFree(agent')
    BY <2>3 DEF ToolFree, PagesRecord
  <2> QED BY <1>2, <2>4, SilentFacts DEF AskNextPage, QueryStep
<1>3. CASE ReadPage
  <2>1. agent = PagesRecord(agent)
    BY <1>3 DEF ReadPage, Reading, ToolOK
  <2>2. \/ /\ \E y, z : agent' = [agent EXCEPT !.asked = FALSE, !.items = y, !.cursor = z]
           /\ Silent
        \/ agent' = Idle /\ answer'.to = "pages"
    <3> DEFINE rows == InOrder(RowsAfter(agent.cursor, agent.asOf))
               page == SubSeq(rows, 1, IF Len(rows) < PageSize THEN Len(rows) ELSE PageSize)
               items == agent.items \o ItemsAt(page, agent.asOf)
    <3>1. IF Len(rows) > PageSize
          THEN /\ agent' = [agent EXCEPT !.asked = FALSE, !.items = items,
                                         !.cursor = CursorAfter(page)]
               /\ Silent
          ELSE /\ agent' = Idle
               /\ answer' = [to |-> "pages", whole |-> agent.whole, items |-> items]
      BY <1>3 DEF ReadPage
    <3>2. PICK y, z : y = items /\ z = CursorAfter(page)
      OBVIOUS
    <3> HIDE DEF rows, page, items
    <3>3. CASE Len(rows) > PageSize
      <4>1. Silent /\ agent' = [agent EXCEPT !.asked = FALSE, !.items = y, !.cursor = z]
        BY <3>1, <3>2, <3>3
      <4> QED BY <4>1
    <3>4. CASE ~(Len(rows) > PageSize)
      <4>1. agent' = Idle /\ answer' = [to |-> "pages", whole |-> agent.whole, items |-> items]
        BY <3>1, <3>4
      <4> QED BY <4>1
    <3> QED BY <3>3, <3>4
  <2>3. CASE agent' = Idle /\ answer'.to = "pages"
    BY <1>3, <2>3, IdleIsFree DEF ReadPage, QueryStep
  <2>4. CASE /\ \E y, z : agent' = [agent EXCEPT !.asked = FALSE, !.items = y, !.cursor = z]
             /\ Silent
    <3>1. PICK y, z : agent' = [agent EXCEPT !.asked = FALSE, !.items = y, !.cursor = z]
      BY <2>4
    <3>2. agent' = [doing |-> "pages", asOf |-> agent.asOf, cursor |-> z, asked |-> FALSE,
                    items |-> y, whole |-> agent.whole]
      BY <2>1, <3>1, PagesExcept
    <3>3. ToolFree(agent')
      BY <3>2 DEF ToolFree, PagesRecord
    <3> QED BY <1>3, <2>4, <3>3, SilentFacts DEF ReadPage, QueryStep
  <2> QED BY <2>2, <2>3, <2>4
<1>4. CASE \E verify \in BOOLEAN : AskBalances(verify)
  BY <1>4, SilentFacts DEF AskBalances, QueryStep, ToolFree
<1>5. CASE \E n \in 0..Newest : AskBalancesAsOf(n)
  BY <1>5, SilentFacts DEF AskBalancesAsOf, QueryStep, ToolFree
<1>6. CASE ReadProjection
  <2>1. CASE agent.verify
    BY <1>6, <2>1, SilentFacts DEF ReadProjection, QueryStep, ToolFree
  <2>2. CASE ~agent.verify
    BY <1>6, <2>2, IdleIsFree DEF ReadProjection, QueryStep
  <2> QED BY <2>1, <2>2
<1>7. CASE ReadReference
  BY <1>7, IdleIsFree DEF ReadReference, QueryStep
<1> QED BY <1>1, <1>2, <1>3, <1>4, <1>5, <1>6, <1>7 DEF QueryBook

ToolInv == LogOK /\ ToolOK /\ ReceiptsOK /\ VerifiedIsTrue

\* What an unchanged log says stays.
LEMMA SaysTheSame ==
  ASSUME events' = events
  PROVE  /\ Newest' = Newest
         /\ \A t : Stands(t)' = Stands(t)
         /\ \A t, c : Wanted(t, c)' = Wanted(t, c)
         /\ \A t, n : LinesAt(t, n)' = LinesAt(t, n)
         /\ \A t, c, v : Written(t, c, v)' = Written(t, c, v)
BY DEF Newest, At, Stands, PositionOf, BookedAs, Wanted, LinesAt, Written

LEMMA AnsweredTruly ==
  ASSUME NEW t, NEW c, NEW n, NEW v,
         answer' = [to |-> "category", entry |-> t, category |-> c, revision |-> v,
                    verified |-> TRUE, asOf |-> n],
         LinesAt(t, n)' = Wanted(t, c)'
  PROVE  VerifiedIsTrue'
BY DEF VerifiedIsTrue

LEMMA WritersKeepTool == ASSUME ToolInv, WriteBook PROVE ToolInv'
<1>1. LogOK' /\ Grows /\ LogOK
  BY WritersKeepLog DEF ToolInv
<1>2. receipts' = receipts /\ agent' = agent /\ Silent
  BY DEF WriteBook, BookExpense, BookRefund, BookReversal, Assign, ClearLines
<1>3. ToolOK' /\ ReceiptsOK'
  BY <1>1, <1>2, ToolStays, ReceiptsStay DEF ToolInv
<1>4. answer'.to # "category"
  BY <1>2, SilentFacts
<1> QED BY <1>1, <1>3, <1>4 DEF ToolInv, VerifiedIsTrue

LEMMA QueriesKeepTool == ASSUME ToolInv, QueryBook PROVE ToolInv'
<1>1. QueryStep
  BY QueriesKeep DEF ToolInv
<1>2. LogOK' /\ Grows /\ LogOK
  BY <1>1, Untouched DEF ToolInv, QueryStep
<1>3. ReceiptsOK'
  BY <1>1, <1>2, ReceiptsStay DEF ToolInv, QueryStep
<1>4. ToolOK'
  BY <1>1 DEF QueryStep, ToolFree, ToolOK, PagesRecord
<1> QED BY <1>1, <1>2, <1>3, <1>4 DEF ToolInv, VerifiedIsTrue, QueryStep

\* Statements of the tool that write nothing.
LEMMA ReadsKeepLog ==
  ASSUME ToolInv, events' = events, receipts' = receipts
  PROVE  LogOK' /\ ReceiptsOK' /\ LogOK /\ Grows
<1>1. LogOK' /\ Grows /\ LogOK
  BY Untouched DEF ToolInv
<1> QED BY <1>1, ReceiptsStay DEF ToolInv

LEMMA AskKeepsTool ==
  ASSUME ToolInv, NEW w \in Wishes, NEW t \in Entries, NEW c \in Categories \cup {Nothing},
         Ask(w, t, c)
  PROVE  ToolInv'
<1>1. /\ agent' = [doing |-> "entry", wish |-> w, entry |-> t, category |-> c, head |-> Newest]
      /\ Silent /\ events' = events /\ receipts' = receipts
  BY DEF Ask
<1>2. LogOK' /\ ReceiptsOK'
  BY <1>1, ReadsKeepLog
<1>3. Newest' = Newest /\ Newest \in 0..Newest
  BY <1>1, SaysTheSame, LenProperties DEF ToolInv, LogOK, Newest
<1>4. ToolOK'
  BY <1>1, <1>3 DEF ToolOK
<1>5. VerifiedIsTrue'
  BY <1>1, SilentFacts DEF VerifiedIsTrue
<1> QED BY <1>2, <1>4, <1>5 DEF ToolInv

LEMMA RefusalsKeepTool ==
  ASSUME ToolInv, NEW why, Refuse(why), events' = events, receipts' = receipts
  PROVE  ToolInv'
<1>1. LogOK' /\ ReceiptsOK'
  BY ReadsKeepLog
<1>2. ToolOK'
  BY DEF ToolOK, Refuse, Idle
<1>3. VerifiedIsTrue'
  BY DEF Refuse, VerifiedIsTrue
<1> QED BY <1>1, <1>2, <1>3 DEF ToolInv

LEMMA ReadEntryKeepsTool == ASSUME ToolInv, ReadEntry PROVE ToolInv'
<1>1. events' = events /\ receipts' = receipts /\ agent.doing = "entry"
  BY DEF ReadEntry
<1>2. CASE Stands(agent.entry)
  <2>1. PICK t, w, c, h : t = agent.entry /\ w = agent.wish /\ c = agent.category /\ h = agent.head
    OBVIOUS
  <2>2. PICK k : agent' = [doing |-> "revision", wish |-> w, entry |-> t, category |-> c,
                           head |-> h, kind |-> k]
    BY <1>2, <2>1 DEF ReadEntry
  <2>3. Silent
    BY <1>2 DEF ReadEntry
  <2>4. t \in Entries /\ w \in Wishes /\ c \in Categories \cup {Nothing} /\ h \in 0..Newest
    BY <1>1, <2>1 DEF ToolInv, ToolOK
  <2>5. Stands(t)' /\ Newest' = Newest
    BY <1>1, <1>2, <2>1, SaysTheSame
  <2>6. ToolOK'
    BY <2>2, <2>4, <2>5 DEF ToolOK
  <2>7. VerifiedIsTrue'
    BY <2>3, SilentFacts DEF VerifiedIsTrue
  <2>8. LogOK' /\ ReceiptsOK'
    BY <1>1, ReadsKeepLog
  <2> QED BY <2>6, <2>7, <2>8 DEF ToolInv
<1>3. CASE ~Stands(agent.entry)
  <2>1. Refuse("not found")
    BY <1>3 DEF ReadEntry
  <2> QED BY <1>1, <2>1, RefusalsKeepTool
<1> QED BY <1>2, <1>3

LEMMA ReadRevisionKeepsTool == ASSUME ToolInv, ReadRevision PROVE ToolInv'
<1>1. events' = events /\ receipts' = receipts /\ agent.doing = "revision"
  BY DEF ReadRevision
<1>2. PICK t, w, c, h, v : /\ t = agent.entry /\ w = agent.wish /\ c = agent.category
                           /\ h = agent.head /\ v = Revision(t)
  OBVIOUS
<1>3. /\ t \in Entries /\ w \in Wishes /\ c \in Categories \cup {Nothing}
      /\ Stands(t)
  BY <1>1, <1>2 DEF ToolInv, ToolOK
<1>4. LogOK' /\ ReceiptsOK'
  BY <1>1, ReadsKeepLog
<1>5. CASE c # Nothing /\ agent.kind \notin {"expense", "refund"}
  <2>1. Refuse("kind")
    BY <1>2, <1>5 DEF ReadRevision
  <2> QED BY <1>1, <2>1, RefusalsKeepTool
<1>6. CASE /\ ~(c # Nothing /\ agent.kind \notin {"expense", "refund"})
           /\ LinesAt(t, h) = Wanted(t, c)
  <2>1. /\ agent' = Idle
        /\ answer' = [to |-> "category", entry |-> t, category |-> c, revision |-> v,
                      verified |-> TRUE, asOf |-> h]
    BY <1>2, <1>6 DEF ReadRevision
  <2>2. LinesAt(t, h)' = Wanted(t, c)'
    BY <1>1, <1>6, SaysTheSame
  <2>3. VerifiedIsTrue'
    BY <2>1, <2>2, AnsweredTruly
  <2>4. ToolOK'
    BY <2>1 DEF ToolOK, Idle
  <2> QED BY <1>4, <2>3, <2>4 DEF ToolInv
<1>7. CASE /\ ~(c # Nothing /\ agent.kind \notin {"expense", "refund"})
           /\ LinesAt(t, h) # Wanted(t, c)
  <2>1. /\ agent' = [doing |-> "write", wish |-> w, entry |-> t, category |-> c,
                     expected |-> v]
        /\ Silent
    BY <1>2, <1>7 DEF ReadRevision
  <2>2. Newest \in 0..Newest /\ events \in Seq(BookEvents)
    BY LenProperties DEF ToolInv, LogOK, Newest
  <2>3. v \in Nat
    BY <1>2, <2>2, AtFacts DEF Revision
  <2>4. Stands(t)'
    BY <1>1, <1>3, SaysTheSame
  <2>5. ToolOK'
    BY <1>3, <2>1, <2>3, <2>4 DEF ToolOK
  <2>6. VerifiedIsTrue'
    BY <2>1, SilentFacts DEF VerifiedIsTrue
  <2> QED BY <1>4, <2>5, <2>6 DEF ToolInv
<1> QED BY <1>5, <1>6, <1>7

LEMMA HeadKeepsTool == ASSUME ToolInv, ReadBackHead PROVE ToolInv'
<1>1. events' = events /\ receipts' = receipts /\ agent.doing = "head" /\ Silent
  BY DEF ReadBackHead
<1>2. PICK t, c, v, h : t = agent.entry /\ c = agent.category /\ v = agent.revision /\ h = Newest
  OBVIOUS
<1>3. t \in Entries /\ c \in Categories \cup {Nothing} /\ Written(t, c, v)
  BY <1>1, <1>2 DEF ToolInv, ToolOK
<1>4. agent' = [doing |-> "lines", entry |-> t, category |-> c, revision |-> v, head |-> h]
  BY <1>2 DEF ReadBackHead
<1>5. Written(t, c, v)'
  BY <1>1, <1>3, SaysTheSame
<1>6. ToolOK'
  BY <1>3, <1>4, <1>5 DEF ToolOK
<1>7. VerifiedIsTrue'
  BY <1>1, SilentFacts DEF VerifiedIsTrue
<1> QED BY <1>1, <1>6, <1>7, ReadsKeepLog DEF ToolInv

LEMMA LinesKeepTool == ASSUME ToolInv, ReadBackLines PROVE ToolInv'
<1>1. events' = events /\ receipts' = receipts /\ agent.doing = "lines" /\ agent' = Idle
  BY DEF ReadBackLines
<1>2. PICK t, c, v, n : t = agent.entry /\ c = agent.category /\ v = agent.revision /\ n = Newest
  OBVIOUS
<1>3. Written(t, c, v)
  BY <1>1, <1>2 DEF ToolInv, ToolOK
<1>4. PICK y \in BOOLEAN : y = Holds(t, c, v, agent.head)
  BY DEF Holds
<1>5. answer' = [to |-> "category", entry |-> t, category |-> c, revision |-> v, asOf |-> n,
                 verified |-> y]
  BY <1>2, <1>4 DEF ReadBackLines
<1>6. ASSUME y PROVE VerifiedIsTrue'
  <2>1. v = Revision(t)
    BY <1>4, <1>6 DEF Holds
  <2>2. LinesAt(t, Newest) = Wanted(t, c)
    BY <1>3, <2>1, LatestWrite DEF ToolInv
  <2>3. LinesAt(t, n)' = Wanted(t, c)'
    BY <1>1, <1>2, <2>2, SaysTheSame
  <2> QED BY <1>5, <2>3 DEF VerifiedIsTrue
<1>7. ASSUME ~y PROVE VerifiedIsTrue'
  BY <1>5, <1>7 DEF VerifiedIsTrue
<1>8. ToolOK'
  BY <1>1 DEF ToolOK, Idle
<1> QED BY <1>1, <1>6, <1>7, <1>8, ReadsKeepLog DEF ToolInv

\* Told of a write that is in the log, or not at all.
LEMMA ToldKeepsTool ==
  ASSUME LogOK', NEW t \in Entries, NEW c \in Categories \cup {Nothing}, NEW v, Written(t, c, v)',
         \/ agent' = Idle
         \/ agent' = [doing |-> "head", entry |-> t, category |-> c, revision |-> v]
  PROVE  ToolOK'
BY DEF ToolOK, Idle

\* The write of a wish that has no receipt.
LEMMA FirstWrite ==
  ASSUME ToolInv, NEW w \in Wishes, NEW t \in Entries, NEW c \in Categories \cup {Nothing},
         NEW v \in Nat, Stands(t), Revision(t) = v,
         c # Nothing => Assignable(t, Wanted(t, c)),
         events' = Append(events, Entered(IF c = Nothing THEN "cleared" ELSE "assigned", t, 0,
                                          Nothing, 0, Wanted(t, c))),
         receipts' = [receipts EXCEPT ![w] =
                        [expected |-> v, revision |-> v + 1, entry |-> t, category |-> c]]
  PROVE  LogOK' /\ ReceiptsOK' /\ Written(t, c, v + 1)'
<1>1. PICK e : e = Entered(IF c = Nothing THEN "cleared" ELSE "assigned", t, 0, Nothing, 0,
                           Wanted(t, c))
  OBVIOUS
<1>2. LogOK
  BY DEF ToolInv
<1>3. /\ e \in BookEvents /\ e.type \in Classified /\ e.entry = t /\ e.lines = Wanted(t, c)
      /\ Follows(e, Newest)
  <2>1. e.lines = Wanted(t, c)
    BY <1>1 DEF Entered
  <2>2. CASE c = Nothing
    <3>1. e = Entered("cleared", t, 0, Nothing, 0, NoLines)
      BY <1>1, <2>2, WantedNothing
    <3>2. e \in BookEvents /\ e.type = "cleared" /\ e.entry = t /\ Follows(e, Newest)
      BY <3>1, ClearedFollows
    <3> QED BY <2>1, <3>2 DEF Classified
  <2>3. CASE c # Nothing
    <3>1. e = Entered("assigned", t, 0, Nothing, 0, Wanted(t, c))
      BY <1>1, <2>3
    <3>2. PICK lines \in [Categories -> Nat] : lines = Wanted(t, c)
      BY <1>2, WantedType
    <3>3. Assignable(t, lines) /\ e = Entered("assigned", t, 0, Nothing, 0, lines)
      BY <2>3, <3>1, <3>2
    <3>4. e \in BookEvents /\ e.type = "assigned" /\ e.entry = t /\ Follows(e, Newest)
      BY <1>2, <3>3, AssignableFollows
    <3> QED BY <2>1, <3>4 DEF Classified
  <2> QED BY <2>2, <2>3
<1>4. events' = Append(events, e) /\ e.type \notin Booked
  BY <1>1, <1>3 DEF Booked, Classified
<1>5. LogOK' /\ Grows
  BY <1>2, <1>3, <1>4, Added
<1>6. PICK u : u = v + 1
  OBVIOUS
<1>7. Written(t, c, u)'
  BY <1>2, <1>3, <1>4, <1>5, <1>6, WriteWritten
<1>8. PICK r : r = [expected |-> v, revision |-> v + 1, entry |-> t, category |-> c]
  OBVIOUS
<1>9. ReceiptOK(r)'
  <2>1. r \in WishReceipts
    BY <1>8 DEF WishReceipts
  <2>2. Written(r.entry, r.category, r.revision)'
    BY <1>6, <1>7, <1>8
  <2> QED BY <2>1, <2>2 DEF ReceiptOK
<1>10. DOMAIN receipts = Wishes /\ \A x \in Wishes : ReceiptOK(receipts[x])
  BY DEF ToolInv, ReceiptsOK
<1>11. /\ DOMAIN receipts' = Wishes
       /\ \A x \in Wishes : receipts'[x] = IF x = w THEN r ELSE receipts[x]
  BY <1>8, <1>10
<1>12. \A x \in Wishes : ReceiptOK(receipts[x])'
  <2> SUFFICES ASSUME NEW x \in Wishes PROVE ReceiptOK(receipts[x])'
    OBVIOUS
  <2>1. PICK old : old = receipts[x]
    OBVIOUS
  <2>2. ReceiptOK(old)
    BY <1>10, <2>1
  <2>3. ReceiptOK(old)'
    BY <1>2, <1>5, <2>2, ReceiptStays
  <2>4. CASE x = w
    <3>1. receipts'[x] = r
      BY <1>11, <2>4
    <3> QED BY <1>9, <3>1 DEF ReceiptOK
  <2>5. CASE x # w
    <3>1. receipts'[x] = old
      BY <1>11, <2>1, <2>5
    <3> QED BY <2>3, <3>1 DEF ReceiptOK
  <2> QED BY <2>4, <2>5
<1>13. ReceiptsOK'
  BY <1>11, <1>12 DEF ReceiptsOK
<1> QED BY <1>5, <1>6, <1>7, <1>13

LEMMA SendKeepsTool == ASSUME ToolInv, NEW lost \in BOOLEAN, SendCategory(lost) PROVE ToolInv'
<1>1. PICK t, c, w, v, r : /\ t = agent.entry /\ c = agent.category /\ w = agent.wish
                           /\ v = agent.expected /\ r = receipts[agent.wish]
  OBVIOUS
<1>2. agent.doing = "write"
  BY DEF SendCategory
<1>3. /\ t \in Entries /\ c \in Categories \cup {Nothing} /\ w \in Wishes /\ v \in Nat
      /\ Stands(t) /\ ReceiptOK(r)
  BY <1>1, <1>2 DEF ToolInv, ToolOK, ReceiptsOK
<1> DEFINE Same == r.expected = v /\ r.entry = t /\ r.category = c
           Told(u) == /\ Silent
                      /\ \/ agent' = Idle
                         \/ agent' = [doing |-> "head", entry |-> t, category |-> c,
                                      revision |-> u]
<1>4. \/ r # NoReceipt /\ Same /\ Told(r.revision) /\ events' = events /\ receipts' = receipts
      \/ \E why : Refuse(why) /\ events' = events /\ receipts' = receipts
      \/ /\ Revision(t) = v
         /\ c # Nothing => Assignable(t, Wanted(t, c))
         /\ events' = Append(events, Entered(IF c = Nothing THEN "cleared" ELSE "assigned", t, 0,
                                             Nothing, 0, Wanted(t, c)))
         /\ receipts' = [receipts EXCEPT ![w] =
                           [expected |-> v, revision |-> v + 1, entry |-> t, category |-> c]]
         /\ Told(v + 1)
  <2>1. CASE r # NoReceipt /\ Same
    BY <1>1, <2>1 DEF SendCategory
  <2>2. CASE r # NoReceipt /\ ~Same
    BY <1>1, <2>2 DEF SendCategory
  <2>3. CASE r = NoReceipt /\ Revision(t) # v
    BY <1>1, <2>3 DEF SendCategory
  <2>4. CASE r = NoReceipt /\ Revision(t) = v
    BY <1>1, <2>4 DEF SendCategory, Happens
  <2> QED BY <2>1, <2>2, <2>3, <2>4
<1>5. CASE r # NoReceipt /\ Same /\ Told(r.revision) /\ events' = events /\ receipts' = receipts
  <2>1. Written(t, c, r.revision)
    BY <1>3, <1>5 DEF ReceiptOK
  <2>2. PICK u : u = r.revision
    OBVIOUS
  <2>3. Written(t, c, u)'
    BY <1>5, <2>1, <2>2, SaysTheSame
  <2>4. LogOK' /\ ReceiptsOK'
    BY <1>5, ReadsKeepLog
  <2>5. ToolOK'
    BY <1>3, <1>5, <2>2, <2>3, <2>4, ToldKeepsTool
  <2>6. VerifiedIsTrue'
    BY <1>5, SilentFacts DEF VerifiedIsTrue
  <2> QED BY <2>4, <2>5, <2>6 DEF ToolInv
<1>6. CASE \E why : Refuse(why) /\ events' = events /\ receipts' = receipts
  BY <1>6, RefusalsKeepTool
<1>7. CASE /\ Revision(t) = v
           /\ c # Nothing => Assignable(t, Wanted(t, c))
           /\ events' = Append(events, Entered(IF c = Nothing THEN "cleared" ELSE "assigned", t,
                                               0, Nothing, 0, Wanted(t, c)))
           /\ receipts' = [receipts EXCEPT ![w] =
                             [expected |-> v, revision |-> v + 1, entry |-> t, category |-> c]]
           /\ Told(v + 1)
  <2>1. LogOK' /\ ReceiptsOK' /\ Written(t, c, v + 1)'
    BY <1>3, <1>7, FirstWrite
  <2>2. PICK u : u = v + 1
    OBVIOUS
  <2>3. Written(t, c, u)'
    BY <2>1, <2>2
  <2>4. ToolOK'
    BY <1>3, <1>7, <2>1, <2>2, <2>3, ToldKeepsTool
  <2>5. VerifiedIsTrue'
    BY <1>7, SilentFacts DEF VerifiedIsTrue
  <2> QED BY <2>1, <2>4, <2>5 DEF ToolInv
<1> QED BY <1>4, <1>5, <1>6, <1>7

LEMMA ToolInvStep == ASSUME ToolInv, [BookNext]_bookVars PROVE ToolInv'
<1>1. CASE WriteBook
  BY <1>1, WritersKeepTool
<1>2. CASE QueryBook
  BY <1>2, QueriesKeepTool
<1>3. CASE ClassifyByTool
  <2>1. CASE \E w \in Wishes, t \in Entries :
               \/ \E c \in Categories : AskCategory(w, t, c)
               \/ AskNoCategory(w, t)
    BY <2>1, AskKeepsTool DEF AskCategory, AskNoCategory
  <2> QED BY <1>3, <2>1, ReadEntryKeepsTool, ReadRevisionKeepsTool, SendKeepsTool,
             HeadKeepsTool, LinesKeepTool DEF ClassifyByTool
<1>4. CASE UNCHANGED bookVars
  <2>1. events' = events /\ receipts' = receipts /\ agent' = agent /\ answer' = answer
    BY <1>4 DEF bookVars
  <2>2. LogOK' /\ ReceiptsOK' /\ LogOK /\ Grows
    BY <2>1, ReadsKeepLog
  <2>3. ToolOK'
    BY <2>1, <2>2, ToolStays DEF ToolInv
  <2>4. VerifiedIsTrue'
    <3>1. PICK a : a = answer
      OBVIOUS
    <3> QED BY <2>1, <3>1, SaysTheSame DEF ToolInv, VerifiedIsTrue
  <2> QED BY <2>2, <2>3, <2>4 DEF ToolInv
<1> QED BY <1>1, <1>2, <1>3, <1>4 DEF BookNext

LEMMA ToolInvInit == ASSUME BookInit PROVE ToolInv
<1>1. events = <<>> /\ Newest = 0 /\ agent = Idle /\ answer = NoAnswer
  BY DEF BookInit, Newest
<1>2. LogOK
  BY <1>1, EmptySeq DEF LogOK, BookedOnce, RowsAt
<1>3. ReceiptsOK
  BY DEF BookInit, ReceiptsOK, ReceiptOK
<1>4. ToolOK /\ VerifiedIsTrue
  BY <1>1 DEF ToolOK, Idle, VerifiedIsTrue, NoAnswer
<1> QED BY <1>2, <1>3, <1>4 DEF ToolInv

\* What the tool reads and writes is consistent with the log.
THEOREM ToolFollowsTheBook == BookSpec => []ToolInv
<1>1. BookInit => ToolInv
  BY ToolInvInit
<1>2. ToolInv /\ [BookNext]_bookVars => ToolInv'
  BY ToolInvStep
<1> QED BY <1>1, <1>2, PTL DEF BookSpec

\* "verified" is true, see VerifiedIsTrue.
THEOREM VerifiedAnswersAreTrue == BookSpec => []VerifiedIsTrue
<1>1. ToolInv => VerifiedIsTrue
  BY DEF ToolInv
<1> QED BY <1>1, ToolFollowsTheBook, PTL
-----------------------------------------------------------------------------
(* Allocations, see AllocationsFit *)

\* The lines of an entry, as a function and as what Allotted adds up.
LEMMA AllottedIsTotal ==
  ASSUME NEW lines \in [Categories -> Nat]
  PROVE  Summable(lines, Categories) /\ Allotted(lines) = Total(lines, Categories)
<1> DEFINE S == Categories
           Folds(k) == k = [s \in SUBSET S |->
                              IF s = {} THEN 0
                              ELSE lines[CHOOSE x \in s : TRUE]
                                   + k[s \ {CHOOSE x \in s : TRUE}]]
<1>1. Summable(lines, S)
  BY CategoriesAssumption DEF Summable
<1>2. PICK g : g \in [SUBSET S -> Int] /\ Tallies(g, lines, S)
  BY <1>1, TallyExists DEF Summable
<1>3. Folds(g)
  BY <1>2 DEF Tallies, First, Others
<1>4. PICK h : Folds(h) /\ h = CHOOSE k : Folds(k)
  <2> HIDE DEF Folds
  <2> QED BY <1>3
<1>5. Allotted(lines) = h[S]
  <2>1. Allotted(lines) = (CHOOSE k : Folds(k))[S]
    BY DEF Allotted, MapThenSumSet, MapThenFoldSet
  <2> HIDE DEF Folds
  <2> QED BY <1>4, <2>1
<1>6. Tallies(h, lines, S)
  BY <1>4 DEF Tallies, First, Others
<1>7. h[S] = Total(lines, S)
  <2> HIDE DEF S, Folds
  <2> QED BY <1>1, <1>6, TotalIs
<1> QED BY <1>1, <1>5, <1>7

LEMMA NothingAllotted == Allotted(NoLines) = 0
<1>1. PICK f \in [Categories -> Nat] : f = NoLines
  BY NoLinesType
<1>2. Allotted(f) = Total(f, Categories)
  BY AllottedIsTotal
<1>3. IsFiniteSet(Categories) /\ \A c \in Categories : f[c] = 0
  BY <1>1, CategoriesAssumption DEF NoLines
<1>4. Total(f, Categories) = 0
  BY <1>3, TotalOfZeros
<1> QED BY <1>1, <1>2, <1>4

\* What a refund shows of its expense is nothing, its own amount on one line, or lines that
\* add up to it.
LEMMA SafeRefundFits ==
  ASSUME NEW lines \in [Categories -> Nat], NEW units \in Nat
  PROVE  Allotted(SafeRefund(lines, units)) <= units
<1> DEFINE used == {c \in Categories : lines[c] # 0}
<1>1. CASE Cardinality(used) = 1
  <2>1. IsFiniteSet(used)
    BY CategoriesAssumption, FS_Subset
  <2>2. PICK c : used = {c}
    BY <1>1, <2>1, FS_Singleton
  <2>3. c \in Categories
    BY <2>2
  <2>4. PICK f : f = [x \in Categories |-> IF x \in used THEN units ELSE 0]
    OBVIOUS
  <2>5. f \in [Categories -> Nat]
    BY <2>4
  <2>6. f[c] = units /\ \A x \in Categories \ {c} : f[x] = 0
    BY <2>2, <2>3, <2>4
  <2>7. Total(f, Categories) = units
    BY <2>3, <2>6, CategoriesAssumption, TotalOfOne
  <2>8. Allotted(f) = units
    BY <2>5, <2>7, AllottedIsTotal
  <2>9. CASE Allotted(lines) = units
    <3>1. SafeRefund(lines, units) = f \/ SafeRefund(lines, units) = lines
      BY <1>1, <2>4, <2>9 DEF SafeRefund
    <3> QED BY <2>8, <2>9, <3>1
  <2>10. CASE Allotted(lines) # units
    <3>1. SafeRefund(lines, units) = f
      BY <1>1, <2>4, <2>10 DEF SafeRefund
    <3> QED BY <2>8, <3>1
  <2> QED BY <2>9, <2>10
<1>2. CASE Cardinality(used) # 1 /\ Allotted(lines) = units
  <2>1. SafeRefund(lines, units) = lines
    BY <1>2 DEF SafeRefund
  <2> QED BY <1>2, <2>1
<1>3. CASE Cardinality(used) # 1 /\ Allotted(lines) # units
  <2>1. SafeRefund(lines, units) = NoLines
    BY <1>3 DEF SafeRefund
  <2> QED BY <2>1, NothingAllotted
<1> QED BY <1>1, <1>2, <1>3

\* The lines an entry has are no more than its amount.
LEMMA LinesFitTheEntry ==
  ASSUME LogOK, NEW q \in 1..Newest, events[q].type \in Booked, NEW n \in 0..Newest
  PROVE  /\ LinesAt(events[q].entry, n) \in [Categories -> Nat]
         /\ Allotted(LinesAt(events[q].entry, n)) <= events[q].units
<1>1. PICK t : t = events[q].entry
  OBVIOUS
<1>2. events \in Seq(BookEvents) /\ Newest \in Nat /\ n \in Nat
  BY LenProperties DEF LogOK, Newest
<1>3. \A p \in 1..Newest : events[p] \in BookEvents
  BY <1>2, ElementOfSeq DEF Newest
<1>4. events[q].units \in Nat
  BY <1>3 DEF BookEvents
<1>5. PICK A : A = At(t, Classified, n)
  OBVIOUS
<1>6. CASE A = {}
  <2>1. LinesAt(t, n) = NoLines
    BY <1>5, <1>6 DEF LinesAt
  <2> QED BY <1>1, <1>4, <2>1, NoLinesType, NothingAllotted
<1>7. CASE A # {}
  <2>1. A \subseteq 1..n
    BY <1>2, <1>5, AtFacts
  <2>2. PICK m : m = Max(A)
    OBVIOUS
  <2>3. m \in A
    BY <1>2, <1>7, <2>1, <2>2, MaxOfNat
  <2>4. /\ m \in 1..Newest /\ events[m].entry = t /\ events[m].type \in Classified
    BY <1>2, <1>5, <2>3 DEF At
  <2>5. LinesAt(t, n) = events[m].lines
    BY <1>5, <1>7, <2>2 DEF LinesAt
  <2>6. events[m].lines \in [Categories -> Nat]
    BY <1>3, <2>4 DEF BookEvents
  <2>7. Follows(events[m], m - 1)
    BY <2>4 DEF LogOK
  <2>8. CASE events[m].type = "cleared"
    <3>1. events[m].lines = NoLines
      BY <2>7, <2>8 DEF Follows
    <3> QED BY <1>1, <1>4, <2>5, <2>6, <3>1, NothingAllotted
  <2>9. CASE events[m].type = "assigned"
    <3>1. PICK r \in 1..(m - 1) : /\ events[r].type \in {"expense", "refund"}
                                  /\ events[r].entry = t
                                  /\ Allotted(events[m].lines) <= events[r].units
      BY <2>4, <2>7, <2>9 DEF Follows
    <3>2. r \in RowsAt(Newest) /\ q \in RowsAt(Newest)
      BY <1>2, <2>4, <3>1 DEF RowsAt, Booked
    <3>3. r = q
      BY <1>1, <3>1, <3>2 DEF LogOK, BookedOnce
    <3> QED BY <1>1, <2>5, <2>6, <3>1, <3>3
  <2> QED BY <2>4, <2>8, <2>9 DEF Classified
<1> QED BY <1>6, <1>7

LEMMA LogAllocationsFit == ASSUME LogOK PROVE AllocationsFit
<1>1. events \in Seq(BookEvents) /\ Newest \in Nat /\ BookedOnce
  BY LenProperties DEF LogOK, Newest
<1> SUFFICES ASSUME NEW p \in RowsAt(Newest), NEW n \in p..Newest
             PROVE  Allotted(AllocationsAt(events[p].entry, n)) <= events[p].units
  BY DEF AllocationsFit
<1>2. p \in 1..Newest /\ events[p].type \in Booked /\ n \in 0..Newest
  BY <1>1 DEF RowsAt
<1>3. PICK t : t = events[p].entry
  OBVIOUS
<1>4. BookedAs(t) = events[p]
  BY <1>1, <1>2, <1>3, Home
<1>5. events[p] \in BookEvents
  BY <1>1, <1>2, ElementOfSeq DEF Newest
<1>6. events[p].units \in Nat
  BY <1>5 DEF BookEvents
<1>7. Allotted(LinesAt(t, n)) <= events[p].units
  BY <1>2, <1>3, LinesFitTheEntry
<1>8. Follows(events[p], p - 1)
  BY <1>2 DEF LogOK
\* A refund and a reversal are of an entry whose lines fit it.
<1>9. ASSUME events[p].type \in {"refund", "reversal"}
      PROVE  \E q \in 1..Newest : /\ events[q].type \in Booked
                                  /\ events[q].entry = InheritsFrom(t)
                                  /\ events[p].type = "reversal" =>
                                       events[p].units = events[q].units
  <2>1. InheritsFrom(t) = events[p].of
    BY <1>4, <1>9 DEF InheritsFrom, OriginalOf
  <2> QED BY <1>1, <1>2, <1>8, <1>9, <2>1 DEF Follows, Booked
<1>10. CASE LinesAt(t, n) # NoLines
  <2>1. AllocationsAt(t, n) = LinesAt(t, n)
    BY <1>10 DEF AllocationsAt
  <2> QED BY <1>3, <1>7, <2>1
<1>11. CASE LinesAt(t, n) = NoLines /\ events[p].type = "refund"
  <2>1. AllocationsAt(t, n) = SafeRefund(LinesAt(InheritsFrom(t), n), events[p].units)
    BY <1>4, <1>11 DEF AllocationsAt
  <2>2. PICK lines \in [Categories -> Nat] : lines = LinesAt(InheritsFrom(t), n)
    BY <1>2, <1>9, <1>11, LinesFitTheEntry
  <2>3. Allotted(SafeRefund(lines, events[p].units)) <= events[p].units
    BY <1>6, SafeRefundFits
  <2> QED BY <1>3, <2>1, <2>2, <2>3
<1>12. CASE LinesAt(t, n) = NoLines /\ events[p].type = "reversal"
  <2>1. AllocationsAt(t, n) = LinesAt(InheritsFrom(t), n)
    BY <1>4, <1>12 DEF AllocationsAt
  <2>2. PICK q \in 1..Newest : /\ events[q].type \in Booked
                               /\ events[q].entry = InheritsFrom(t)
                               /\ events[p].units = events[q].units
    BY <1>9, <1>12
  <2>3. Allotted(LinesAt(InheritsFrom(t), n)) <= events[p].units
    BY <1>2, <2>2, LinesFitTheEntry
  <2> QED BY <1>3, <2>1, <2>3
<1>13. CASE LinesAt(t, n) = NoLines /\ events[p].type = "expense"
  <2>1. AllocationsAt(t, n) = NoLines
    BY <1>4, <1>13 DEF AllocationsAt
  <2> QED BY <1>3, <1>6, <2>1, NothingAllotted
<1> QED BY <1>2, <1>10, <1>11, <1>12, <1>13 DEF Booked

\* No view allocates more than the entry's amount, see AllocationsFit.
THEOREM ViewsAllocateWhatThereIs == BookSpec => []AllocationsFit
<1>1. ToolInv => AllocationsFit
  BY LogAllocationsFit DEF ToolInv
<1> QED BY <1>1, ToolFollowsTheBook, PTL
-----------------------------------------------------------------------------
(* The order of the journal, see ReadsAreOfOnePosition *)

\* The rows of a set that come before p, and how many they are.
Before(R, p) == {q \in R : Later(p, q)}
Place(R, p) == Cardinality(Before(R, p)) + 1

Rows(R) == R \subseteq 1..Newest

\* Rows are ordered.
LEMMA OrderFacts ==
  ASSUME events \in Seq(BookEvents), NEW R, Rows(R)
  PROVE  /\ IsFiniteSet(R)
         /\ \A p \in R : ~Later(p, p)
         /\ \A p, q \in R : p = q \/ Later(p, q) \/ Later(q, p)
         /\ \A p, q \in R : ~(Later(p, q) /\ Later(q, p))
         /\ \A p, q, r \in R : Later(p, q) /\ Later(q, r) => Later(p, r)
<1>1. Newest \in Nat
  BY LenProperties DEF Newest
<1>2. IsFiniteSet(R)
  <2>1. IsFiniteSet(1..Newest)
    BY <1>1, FS_Interval
  <2> QED BY <2>1, FS_Subset DEF Rows
<1>3. \A p \in R : p \in Nat /\ events[p].at \in Nat
  <2> SUFFICES ASSUME NEW p \in R PROVE p \in Nat /\ events[p].at \in Nat
    OBVIOUS
  <2>1. p \in 1..Newest
    BY DEF Rows
  <2>2. events[p] \in BookEvents
    BY <2>1, ElementOfSeq DEF Newest
  <2> QED BY <1>1, <2>1, <2>2 DEF BookEvents
<1> QED BY <1>2, <1>3 DEF Later

\* Each row has a place of its own, from the first to the last.
LEMMA PlaceFacts ==
  ASSUME events \in Seq(BookEvents), NEW R, Rows(R), NEW p \in R
  PROVE  /\ IsFiniteSet(R) /\ Cardinality(R) \in Nat
         /\ IsFiniteSet(Before(R, p)) /\ Cardinality(Before(R, p)) \in Nat
         /\ Place(R, p) \in 1..Cardinality(R)
         /\ \A q \in R : Later(p, q) => Place(R, q) < Place(R, p)
<1>1. IsFiniteSet(R) /\ Cardinality(R) \in Nat
  BY OrderFacts, FS_CardinalityType
<1>2. ASSUME NEW q \in R
      PROVE  /\ IsFiniteSet(Before(R, q)) /\ Cardinality(Before(R, q)) \in Nat
             /\ IsFiniteSet(Before(R, q) \cup {q})
             /\ Cardinality(Before(R, q) \cup {q}) = Place(R, q)
  <2>1. Before(R, q) \in SUBSET R
    BY DEF Before
  <2>2. IsFiniteSet(Before(R, q))
    BY <1>1, <2>1, FS_Subset
  <2>3. q \notin Before(R, q)
    BY OrderFacts DEF Before
  <2> QED BY <2>2, <2>3, FS_AddElement, FS_CardinalityType DEF Place
<1>3. Place(R, p) <= Cardinality(R)
  <2>1. Before(R, p) \cup {p} \in SUBSET R
    BY DEF Before
  <2> QED BY <1>1, <1>2, <2>1, FS_Subset
<1>4. ASSUME NEW q \in R, Later(p, q) PROVE Place(R, q) < Place(R, p)
  <2>1. Before(R, q) \cup {q} \in SUBSET Before(R, p)
    BY <1>4, OrderFacts DEF Before
  <2>2. Cardinality(Before(R, q) \cup {q}) <= Cardinality(Before(R, p))
    BY <1>2, <2>1, FS_Subset
  <2>3. Cardinality(Before(R, q) \cup {q}) = Place(R, q)
    BY <1>2
  <2>4. Place(R, p) = Cardinality(Before(R, p)) + 1 /\ Cardinality(Before(R, p)) \in Nat
    BY <1>2 DEF Place
  <2>5. Place(R, q) \in Nat
    <3>1. Cardinality(Before(R, q)) \in Nat
      BY <1>2
    <3> QED BY <3>1 DEF Place
  <2> QED BY <2>2, <2>3, <2>4, <2>5
<1>5. Place(R, p) \in 1..Cardinality(R)
  <2>1. Cardinality(Before(R, p)) \in Nat
    BY <1>2
  <2> QED BY <1>1, <1>3, <2>1 DEF Place
<1> QED BY <1>1, <1>2, <1>4, <1>5

\* Every place is taken.
LEMMA PlacesTaken ==
  ASSUME events \in Seq(BookEvents), NEW R, Rows(R), NEW k \in 1..Cardinality(R)
  PROVE  \E p \in R : Place(R, p) = k
<1> DEFINE N == Cardinality(R)
<1>1. IsFiniteSet(R) /\ N \in Nat
  BY OrderFacts, FS_CardinalityType
<1>2. PICK f : f = [p \in R |-> Place(R, p)]
  OBVIOUS
<1>3. f \in [R -> 1..N]
  BY <1>2, PlaceFacts
<1>4. \A p, q \in R : f[p] = f[q] => p = q
  <2> SUFFICES ASSUME NEW p \in R, NEW q \in R, Place(R, p) = Place(R, q) PROVE p = q
    BY <1>2
  <2>1. Place(R, p) \in 1..N /\ Place(R, q) \in 1..N
    BY PlaceFacts
  <2>2. Later(p, q) => Place(R, q) < Place(R, p)
    BY PlaceFacts
  <2>3. Later(q, p) => Place(R, p) < Place(R, q)
    BY PlaceFacts
  <2>4. p = q \/ Later(p, q) \/ Later(q, p)
    BY OrderFacts
  <2> QED BY <1>1, <2>1, <2>2, <2>3, <2>4
<1>5. f \in Injection(R, 1..N)
  BY <1>3, <1>4 DEF Injection, IsInjective
<1>6. IsFiniteSet(1..N) /\ Cardinality(1..N) = N
  BY <1>1, FS_Interval
<1>7. f \in Surjection(R, 1..N)
  BY <1>5, <1>6, FS_Injection
<1> QED BY <1>2, <1>7 DEF Surjection

\* What InOrder returns.
LEMMA InOrderFacts ==
  ASSUME events \in Seq(BookEvents), NEW R, Rows(R)
  PROVE  /\ Cardinality(R) \in Nat
         /\ InOrder(R) \in Seq(R) /\ Len(InOrder(R)) = Cardinality(R)
         /\ \A k \in 1..Cardinality(R) : InOrder(R)[k] \in R /\ Place(R, InOrder(R)[k]) = k
         /\ \A p \in R : Place(R, p) \in 1..Cardinality(R) /\ InOrder(R)[Place(R, p)] = p
<1>1. Cardinality(R) \in Nat
  BY OrderFacts, FS_CardinalityType
<1>2. ASSUME NEW k \in 1..Cardinality(R)
      PROVE  InOrder(R)[k] \in R /\ Place(R, InOrder(R)[k]) = k
  <2>1. \E p \in R : Cardinality(Before(R, p)) = k - 1
    <3>1. PICK p \in R : Place(R, p) = k
      BY PlacesTaken
    <3>2. Cardinality(Before(R, p)) \in Nat
      BY PlaceFacts
    <3> QED BY <1>1, <3>1, <3>2 DEF Place
  <2>2. InOrder(R)[k] = CHOOSE p \in R : Cardinality(Before(R, p)) = k - 1
    BY DEF InOrder, Before
  <2>3. InOrder(R)[k] \in R /\ Cardinality(Before(R, InOrder(R)[k])) = k - 1
    BY <2>1, <2>2
  <2> QED BY <1>1, <2>3 DEF Place
<1>3. InOrder(R) \in [1..Cardinality(R) -> R]
  BY <1>2 DEF InOrder
<1>4. InOrder(R) \in Seq(R) /\ Len(InOrder(R)) = Cardinality(R)
  BY <1>1, <1>3
<1>5. ASSUME NEW p \in R
      PROVE  Place(R, p) \in 1..Cardinality(R) /\ InOrder(R)[Place(R, p)] = p
  <2>1. Place(R, p) \in 1..Cardinality(R)
    BY PlaceFacts
  <2>2. PICK q : q = InOrder(R)[Place(R, p)]
    OBVIOUS
  <2>3. q \in R /\ Place(R, q) = Place(R, p)
    BY <1>2, <2>1, <2>2
  <2>4. Later(p, q) => Place(R, q) < Place(R, p)
    BY <2>3, PlaceFacts
  <2>5. Later(q, p) => Place(R, p) < Place(R, q)
    BY <2>3, PlaceFacts
  <2>6. p = q \/ Later(p, q) \/ Later(q, p)
    BY <2>3, OrderFacts
  <2> QED BY <1>1, <2>1, <2>2, <2>3, <2>4, <2>5, <2>6
<1> QED BY <1>1, <1>2, <1>4, <1>5

\* The rows after a row, in order, are the rest of the rows.
LEMMA RestInOrder ==
  ASSUME events \in Seq(BookEvents), NEW R, Rows(R), NEW k \in 1..Cardinality(R),
         NEW S, S = {p \in R : Later(p, InOrder(R)[k])}
  PROVE  /\ Rows(S) /\ Cardinality(S) = Cardinality(R) - k
         /\ \A j \in 1..Cardinality(S) : InOrder(S)[j] = InOrder(R)[k + j]
<1>1. PICK c : c = InOrder(R)[k]
  OBVIOUS
<1>2. c \in R /\ Place(R, c) = k /\ Cardinality(R) \in Nat /\ IsFiniteSet(R)
  BY <1>1, InOrderFacts, OrderFacts
<1>3. Rows(S) /\ S \subseteq R
  BY DEF Rows
<1>4. PICK T : T = Before(R, c) \cup {c}
  OBVIOUS
<1>5. IsFiniteSet(T) /\ Cardinality(T) = k
  <2>1. IsFiniteSet(Before(R, c)) /\ Cardinality(Before(R, c)) \in Nat
    BY <1>2, PlaceFacts
  <2>2. c \notin Before(R, c)
    BY <1>2, OrderFacts DEF Before
  <2> QED BY <1>2, <1>4, <2>1, <2>2, FS_AddElement DEF Place
<1>6. T \subseteq R /\ \A p \in R : p \in S <=> p \notin T
  BY <1>1, <1>2, <1>4, OrderFacts DEF Before
<1>7. Cardinality(S) = Cardinality(R) - k
  <2>1. S = R \ T /\ R \cap T = T
    BY <1>3, <1>6
  <2>2. Cardinality(R \ T) = Cardinality(R) - Cardinality(R \cap T)
    BY <1>2, FS_Difference
  <2> QED BY <1>5, <2>1, <2>2
<1>8. ASSUME NEW p \in S PROVE Place(S, p) = Place(R, p) - k
  <2>1. T \subseteq Before(R, p)
    BY <1>1, <1>2, <1>4, OrderFacts DEF Before
  <2>2. Before(S, p) = Before(R, p) \ T /\ Before(R, p) \cap T = T
    BY <1>3, <1>6, <2>1 DEF Before
  <2>3. IsFiniteSet(Before(R, p)) /\ Cardinality(Before(R, p)) \in Nat
    BY <1>3, PlaceFacts
  <2>4. Cardinality(Before(S, p)) = Cardinality(Before(R, p)) - k
    BY <1>5, <2>2, <2>3, FS_Difference
  <2> QED BY <2>3, <2>4 DEF Place
<1>9. ASSUME NEW j \in 1..Cardinality(S) PROVE InOrder(S)[j] = InOrder(R)[k + j]
  <2>1. PICK p : p = InOrder(S)[j]
    OBVIOUS
  <2>2. p \in S /\ Place(S, p) = j
    BY <1>3, <2>1, InOrderFacts
  <2>3. Place(R, p) = k + j
    <3>1. Place(R, p) \in 1..Cardinality(R)
      BY <1>3, <2>2, PlaceFacts
    <3> QED BY <1>2, <1>7, <1>8, <2>2, <3>1
  <2>4. InOrder(R)[Place(R, p)] = p
    BY <1>3, <2>2, InOrderFacts
  <2> QED BY <2>1, <2>3, <2>4
<1> QED BY <1>3, <1>7, <1>9
-----------------------------------------------------------------------------
(* What was read of a position stays what it reads *)

\* The k-th of the rows, see InOrder.
RowAt(R, k) == CHOOSE p \in R : Cardinality({q \in R : Later(p, q)}) = k - 1

LEMMA OrderStays ==
  ASSUME events \in Seq(BookEvents), Grows, NEW R, Rows(R)
  PROVE  InOrder(R)' = InOrder(R)
<1>1. \A p \in R : events'[p] = events[p]
  BY GrownFacts DEF Rows
<1>2. \A p, q \in R : Later(p, q)' <=> Later(p, q)
  BY <1>1 DEF Later
<1>3. \A p \in R : {q \in R : Later(p, q)}' = {q \in R : Later(p, q)}
  BY <1>2
<1>4. ASSUME NEW k PROVE RowAt(R, k)' = RowAt(R, k)
  BY <1>3, Zenon DEF RowAt
<1>5. InOrder(R) = [k \in 1..Cardinality(R) |-> RowAt(R, k)]
  BY DEF InOrder, RowAt
<1>6. InOrder(R)' = [k \in 1..Cardinality(R) |-> RowAt(R, k)']
  BY DEF InOrder, RowAt
<1> QED BY <1>4, <1>5, <1>6

\* The lines of an entry at an earlier position.
LEMMA LinesStay ==
  ASSUME events \in Seq(BookEvents), Grows, NEW n \in 0..Newest, NEW t
  PROVE  LinesAt(t, n)' = LinesAt(t, n)
<1>1. PICK A : A = At(t, Classified, n)
  OBVIOUS
<1>2. At(t, Classified, n)' = A
  BY <1>1, PastStays
<1>3. CASE A = {}
  BY <1>1, <1>2, <1>3 DEF LinesAt
<1>4. CASE A # {}
  <2>1. PICK m : m = Max(A)
    OBVIOUS
  <2>2. n \in Nat /\ A \subseteq 1..n
    BY <1>1, GrownFacts, AtFacts
  <2>3. m \in 1..n
    BY <1>4, <2>1, <2>2, MaxOfNat
  <2>4. events'[m] = events[m]
    BY <2>3, PastStays
  <2> QED BY <1>1, <1>2, <1>4, <2>1, <2>4 DEF LinesAt
<1> QED BY <1>3, <1>4

\* The view of an entry at a position it was booked by.
LEMMA ViewStays ==
  ASSUME LogOK, Grows, LogOK', NEW n \in 0..Newest, NEW t, Stands(t)
  PROVE  View(t, n)' = View(t, n)
<1>1. events \in Seq(BookEvents) /\ BookedOnce /\ BookedOnce'
  BY DEF LogOK
<1>2. BookedAs(t)' = BookedAs(t)
  BY <1>1, StandingStays
<1>3. \A x : LinesAt(x, n)' = LinesAt(x, n)
  BY <1>1, LinesStay
<1>4. ReversalOf(t, n)' = ReversalOf(t, n)
  <2>1. RowsAt(n)' = RowsAt(n) /\ \A p \in RowsAt(n) : events'[p] = events[p]
    BY <1>1, PastStays DEF RowsAt
  <2> QED BY <2>1 DEF ReversalOf
<1>5. InheritsFrom(t)' = InheritsFrom(t)
  BY <1>2 DEF InheritsFrom, OriginalOf
<1>6. \A lines : EntryKind(t, lines)' = EntryKind(t, lines)
  BY <1>2 DEF EntryKind
<1>7. AllocationsAt(t, n)' = AllocationsAt(t, n)
  BY <1>2, <1>3, <1>5 DEF AllocationsAt, SafeRefund
<1> QED BY <1>3, <1>4, <1>6, <1>7 DEF View

LEMMA ItemsStay ==
  ASSUME LogOK, Grows, LogOK', NEW n \in 0..Newest, NEW rows, \A k \in DOMAIN rows : rows[k] \in RowsAt(n)
  PROVE  ItemsAt(rows, n)' = ItemsAt(rows, n)
<1>1. ASSUME NEW k \in DOMAIN rows
      PROVE  /\ events'[rows[k]] = events[rows[k]]
             /\ View(events[rows[k]].entry, n)' = View(events'[rows[k]].entry, n)
  <2>1. PICK p, t : p = rows[k] /\ t = events[p].entry
    OBVIOUS
  <2>2. p \in RowsAt(n) /\ Newest \in Nat /\ events \in Seq(BookEvents) /\ BookedOnce
    BY <2>1, LenProperties DEF LogOK, Newest
  <2>3. p \in 1..Newest /\ events[p].type \in Booked /\ p \in 1..n
    BY <2>2 DEF RowsAt
  <2>4. events'[p] = events[p]
    BY <2>2, <2>3, GrownFacts
  <2>5. Stands(t)
    BY <2>1, <2>2, <2>3, Home
  <2>6. View(t, n)' = View(t, n)
    BY <2>5, ViewStays
  <2> QED BY <2>1, <2>4, <2>6
<1> QED BY <1>1 DEF ItemsAt

\* What one statement would have read at a position.
LEMMA WholeStays ==
  ASSUME LogOK, Grows, LogOK', NEW n \in 0..Newest, NEW W, W = InOrder(RowsAt(n))
  PROVE  /\ W = InOrder(RowsAt(n))' /\ RowsAt(n)' = RowsAt(n)
         /\ ItemsAt(W, n)' = ItemsAt(W, n)
<1>1. events \in Seq(BookEvents) /\ Newest \in Nat
  BY LenProperties DEF LogOK, Newest
<1>2. PICK R : R = RowsAt(n)
  OBVIOUS
<1>3. RowsAt(n)' = R
  BY <1>1, <1>2, PastStays
<1>4. Rows(R)
  BY <1>1, <1>2 DEF Rows, RowsAt
<1>5. InOrder(R)' = InOrder(R)
  BY <1>1, <1>4, OrderStays
<1>6. W = InOrder(RowsAt(n))'
  BY <1>2, <1>3, <1>5
<1>7. \A k \in DOMAIN W : W[k] \in RowsAt(n)
  BY <1>1, <1>2, <1>4, InOrderFacts, LenProperties
<1>8. ItemsAt(W, n)' = ItemsAt(W, n)
  BY <1>7, ItemsStay
<1> QED BY <1>2, <1>3, <1>6, <1>8
-----------------------------------------------------------------------------
(* The pages, see PagesAreTheBook *)

\* The views of some rows.
Views(R, n) == {View(events[p].entry, n) : p \in R}

LEMMA ItemsFacts ==
  ASSUME NEW R, NEW rows \in Seq(R), NEW n
  PROVE  /\ ItemsAt(rows, n) \in Seq(Views(R, n))
         /\ Len(ItemsAt(rows, n)) = Len(rows)
         /\ \A k \in 1..Len(rows) : ItemsAt(rows, n)[k] = View(events[rows[k]].entry, n)
<1>1. Len(rows) \in Nat /\ DOMAIN rows = 1..Len(rows) /\ \A k \in 1..Len(rows) : rows[k] \in R
  BY LenProperties, ElementOfSeq
<1>2. /\ \A k \in 1..Len(rows) : ItemsAt(rows, n)[k] = View(events[rows[k]].entry, n)
      /\ ItemsAt(rows, n) \in [1..Len(rows) -> Views(R, n)]
  BY <1>1 DEF ItemsAt, Views
<1> QED BY <1>1, <1>2

\* The rows after the cursor are the rest.
LEMMA RestOfRows ==
  ASSUME LogOK, NEW n \in 0..Newest, NEW R, R = RowsAt(n), NEW W, W = InOrder(R),
         NEW k, NEW cursor, NEW items, NEW whole, ShownTo(k, cursor, items, W, whole),
         NEW rows, rows = InOrder(RowsAfter(cursor, n))
  PROVE  /\ Rows(R) /\ W \in Seq(R) /\ Len(W) \in Nat /\ k \in 0..Len(W)
         /\ rows \in Seq(R) /\ Len(rows) = Len(W) - k
         /\ \A j \in 1..Len(rows) : rows[j] = W[k + j]
<1>1. events \in Seq(BookEvents) /\ Newest \in Nat
  BY LenProperties DEF LogOK, Newest
<1>2. Rows(R)
  BY <1>1 DEF Rows, RowsAt
<1>3. /\ W \in Seq(R) /\ Len(W) = Cardinality(R) /\ Len(W) \in Nat
      /\ \A i \in 1..Len(W) : W[i] \in R
  BY <1>1, <1>2, InOrderFacts
<1>4. CASE k = 0 /\ cursor = 0 /\ items = <<>>
  <2>1. RowsAfter(cursor, n) = R
    BY <1>4 DEF RowsAfter
  <2> QED BY <1>2, <1>3, <1>4, <2>1
<1>5. CASE k \in 1..Len(W) /\ cursor = W[k] /\ items = SubSeq(whole, 1, k)
  <2>1. cursor # 0
    BY <1>2, <1>3, <1>5 DEF Rows
  <2>2. PICK S : S = {p \in R : Later(p, W[k])}
    OBVIOUS
  <2>3. RowsAfter(cursor, n) = S
    BY <1>5, <2>1, <2>2 DEF RowsAfter
  <2>4. /\ Rows(S) /\ Cardinality(S) = Len(W) - k
        /\ \A j \in 1..Cardinality(S) : InOrder(S)[j] = W[k + j]
    <3>1. k \in 1..Cardinality(R) /\ S = {p \in R : Later(p, InOrder(R)[k])}
      BY <1>3, <1>5, <2>2
    <3>2. /\ Rows(S) /\ Cardinality(S) = Cardinality(R) - k
          /\ \A j \in 1..Cardinality(S) : InOrder(S)[j] = InOrder(R)[k + j]
      BY <1>1, <1>2, <3>1, RestInOrder
    <3> QED BY <1>3, <3>2
  <2>5. InOrder(S) \in Seq(S) /\ Len(InOrder(S)) = Cardinality(S) /\ S \subseteq R
    BY <1>1, <2>2, <2>4, InOrderFacts
  <2>6. InOrder(S) \in Seq(R)
    BY <2>5
  <2> QED BY <1>2, <1>3, <1>5, <2>3, <2>4, <2>5, <2>6
<1> QED BY <1>4, <1>5 DEF ShownTo

\* A sequence continued with what follows in the whole.
Continues(V, whole, k, items, m, more, s, r) ==
    /\ s = items \o more /\ r = SubSeq(whole, 1, k + m)
    /\ whole \in Seq(V) /\ k \in 0..Len(whole) /\ m \in Nat /\ k + m <= Len(whole)
    /\ items \in Seq(V) /\ Len(items) = k /\ \A i \in 1..k : items[i] = whole[i]
    /\ more \in Seq(V) /\ Len(more) = m /\ \A j \in 1..m : more[j] = whole[k + j]

LEMMA Continued ==
  ASSUME NEW V, NEW whole, NEW k, NEW items, NEW m, NEW more, NEW s, NEW r,
         Continues(V, whole, k, items, m, more, s, r)
  PROVE  s = r /\ (k + m = Len(whole) => s = whole)
<1>0. /\ whole \in Seq(V) /\ k \in 0..Len(whole) /\ m \in Nat /\ k + m <= Len(whole)
      /\ items \in Seq(V) /\ Len(items) = k /\ \A i \in 1..k : items[i] = whole[i]
      /\ more \in Seq(V) /\ Len(more) = m /\ \A j \in 1..m : more[j] = whole[k + j]
  BY DEF Continues
<1>1. k \in Nat /\ k + m \in Nat /\ Len(whole) \in Nat
  BY <1>0, LenProperties
<1>2. /\ items \o more \in Seq(V) /\ Len(items \o more) = k + m
      /\ \A i \in 1..(k + m) : (items \o more)[i] = IF i <= k THEN items[i] ELSE more[i - k]
  BY <1>0, ConcatProperties
<1>3. ASSUME NEW i \in 1..(k + m) PROVE (items \o more)[i] = whole[i]
  <2>1. CASE i <= k
    BY <1>0, <1>1, <1>2, <2>1
  <2>2. CASE i > k
    <3>1. i - k \in 1..m /\ k + (i - k) = i
      BY <1>0, <1>1, <2>2
    <3>2. more[i - k] = whole[i]
      BY <1>0, <3>1
    <3> QED BY <1>1, <1>2, <2>2, <3>2
  <2> QED BY <1>0, <1>1, <2>1, <2>2
<1>4. \A i \in 1..(k + m) : i \in 1..Len(whole) /\ whole[i] \in V
  BY <1>0, <1>1, ElementOfSeq
<1>5. /\ SubSeq(whole, 1, k + m) \in Seq(V) /\ Len(SubSeq(whole, 1, k + m)) = k + m
      /\ \A i \in 1..(k + m) : SubSeq(whole, 1, k + m)[i] = whole[i]
  BY <1>1, <1>4, SubSeqProperties
<1>6. items \o more = SubSeq(whole, 1, k + m)
  BY <1>0, <1>2, <1>3, <1>5, SeqEqual
<1>7. ASSUME k + m = Len(whole) PROVE items \o more = whole
  BY <1>0, <1>2, <1>3, <1>7, SeqEqual
<1> QED BY <1>6, <1>7 DEF Continues

\* What was shown is the beginning of the whole.
LEMMA ShownFacts ==
  ASSUME NEW V, NEW whole \in Seq(V), NEW W, Len(W) = Len(whole),
         NEW k, NEW cursor, NEW items, ShownTo(k, cursor, items, W, whole)
  PROVE  items \in Seq(V) /\ Len(items) = k /\ \A i \in 1..k : items[i] = whole[i]
<1>1. CASE k = 0 /\ items = <<>>
  BY <1>1, EmptySeq
<1>2. CASE k \in 1..Len(W) /\ items = SubSeq(whole, 1, k)
  <2>1. Len(whole) \in Nat /\ \A i \in 1..k : i \in 1..Len(whole) /\ whole[i] \in V
    BY <1>2, LenProperties, ElementOfSeq
  <2> QED BY <1>2, <2>1, SubSeqProperties
<1> QED BY <1>1, <1>2 DEF ShownTo

\* The lengths of a page.
LEMMA PageLength ==
  ASSUME NEW l \in Nat, NEW m, m = IF l < PageSize THEN l ELSE PageSize
  PROVE  m \in Nat /\ m <= l /\ (l > PageSize => m >= 1) /\ (~(l > PageSize) => m = l)
BY QueriesAssumption

\* A page is the next rows.
LEMMA PageIsNext ==
  ASSUME NEW R, NEW W \in Seq(R), NEW rows \in Seq(R), NEW k \in 0..Len(W),
         Len(rows) = Len(W) - k, \A j \in 1..Len(rows) : rows[j] = W[k + j],
         NEW m \in Nat, m <= Len(rows), NEW page, page = SubSeq(rows, 1, m)
  PROVE  page \in Seq(R) /\ Len(page) = m /\ \A j \in 1..m : page[j] = W[k + j]
<1>1. Len(rows) \in Nat
  BY LenProperties
<1>2. \A j \in 1..m : j \in 1..Len(rows) /\ rows[j] \in R
  BY <1>1, ElementOfSeq
<1> QED BY <1>2, SubSeqProperties

\* A page continues what was shown.
PageRead(n, R, W, whole, k, cursor, items, rows, m, page, last, shown) ==
    /\ n \in 0..Newest /\ R = RowsAt(n) /\ W = InOrder(R) /\ whole = ItemsAt(W, n)
    /\ ShownTo(k, cursor, items, W, whole)
    /\ rows = InOrder(RowsAfter(cursor, n))
    /\ m = IF Len(rows) < PageSize THEN Len(rows) ELSE PageSize
    /\ page = SubSeq(rows, 1, m)
    /\ last = CursorAfter(page) /\ shown = items \o ItemsAt(page, n)

LEMMA PageContinues ==
  ASSUME LogOK, NEW n, NEW R, NEW W, NEW whole, NEW k, NEW cursor, NEW items, NEW rows, NEW m,
         NEW page, NEW last, NEW shown,
         PageRead(n, R, W, whole, k, cursor, items, rows, m, page, last, shown)
  PROVE  IF Len(rows) > PageSize THEN ShownTo(k + m, last, shown, W, whole) ELSE shown = whole
<1>1. /\ Rows(R) /\ W \in Seq(R) /\ Len(W) \in Nat /\ k \in 0..Len(W)
      /\ rows \in Seq(R) /\ Len(rows) = Len(W) - k
      /\ \A j \in 1..Len(rows) : rows[j] = W[k + j]
  BY RestOfRows DEF PageRead
<1>2. /\ Len(rows) \in Nat /\ m \in Nat /\ m <= Len(rows)
      /\ Len(rows) > PageSize => m >= 1
      /\ ~(Len(rows) > PageSize) => m = Len(rows)
  <2>1. PICK l : l = Len(rows)
    OBVIOUS
  <2>2. l \in Nat
    BY <1>1, <2>1, LenProperties
  <2>3. m = IF l < PageSize THEN l ELSE PageSize
    BY <2>1 DEF PageRead
  <2>4. m \in Nat /\ m <= l /\ (l > PageSize => m >= 1) /\ (~(l > PageSize) => m = l)
    BY <2>2, <2>3, PageLength
  <2> QED BY <2>1, <2>2, <2>4
<1>3. page \in Seq(R) /\ Len(page) = m /\ \A j \in 1..m : page[j] = W[k + j]
  <2>1. page = SubSeq(rows, 1, m)
    BY DEF PageRead
  <2> QED BY <1>1, <1>2, <2>1, PageIsNext
<1>4. PICK V : V = Views(R, n)
  OBVIOUS
<1>5. /\ whole \in Seq(V) /\ Len(whole) = Len(W)
      /\ \A i \in 1..Len(W) : whole[i] = View(events[W[i]].entry, n)
  <2>1. whole = ItemsAt(W, n)
    BY DEF PageRead
  <2>2. /\ ItemsAt(W, n) \in Seq(Views(R, n)) /\ Len(ItemsAt(W, n)) = Len(W)
        /\ \A i \in 1..Len(W) : ItemsAt(W, n)[i] = View(events[W[i]].entry, n)
    BY <1>1, ItemsFacts
  <2> QED BY <1>4, <2>1, <2>2
<1>6. PICK more : more = ItemsAt(page, n)
  OBVIOUS
<1>7. /\ more \in Seq(V) /\ Len(more) = m
      /\ \A j \in 1..m : more[j] = View(events[page[j]].entry, n)
  <2>1. /\ ItemsAt(page, n) \in Seq(Views(R, n)) /\ Len(ItemsAt(page, n)) = Len(page)
        /\ \A j \in 1..Len(page) : ItemsAt(page, n)[j] = View(events[page[j]].entry, n)
    BY <1>3, ItemsFacts
  <2> QED BY <1>3, <1>4, <1>6, <2>1
<1>8. ASSUME NEW j \in 1..m PROVE more[j] = whole[k + j]
  <2>1. k + j \in 1..Len(W)
    BY <1>1, <1>2
  <2> QED BY <1>3, <1>5, <1>7, <2>1
<1>9. items \in Seq(V) /\ Len(items) = k /\ \A i \in 1..k : items[i] = whole[i]
  BY <1>5, ShownFacts DEF PageRead
<1>10. k + m <= Len(whole) /\ k \in 0..Len(whole)
  BY <1>1, <1>2, <1>5
<1>11. /\ k + m = Len(whole) => items \o more = whole
       /\ items \o more = SubSeq(whole, 1, k + m)
  <2>1. \A j \in 1..m : more[j] = whole[k + j]
    BY <1>8
  <2>2. whole \in Seq(V) /\ items \in Seq(V) /\ more \in Seq(V)
    BY <1>5, <1>7, <1>9
  <2>3. PICK s, r : s = items \o more /\ r = SubSeq(whole, 1, k + m)
    OBVIOUS
  <2>4. Continues(V, whole, k, items, m, more, s, r)
    BY <1>2, <1>7, <1>9, <1>10, <2>1, <2>2, <2>3 DEF Continues
  <2>5. s = r /\ (k + m = Len(whole) => s = whole)
    BY <2>4, Continued
  <2> QED BY <2>3, <2>5
<1>12. CASE Len(rows) > PageSize
  <2>1. m \in 1..m /\ k + m \in 1..Len(W)
    BY <1>1, <1>2, <1>12
  <2>2. CursorAfter(page) = W[k + m]
    BY <1>3, <2>1 DEF CursorAfter
  <2>3. shown = items \o more /\ last = CursorAfter(page)
    BY <1>6 DEF PageRead
  <2>4. ShownTo(k + m, last, shown, W, whole)
    BY <1>11, <2>1, <2>2, <2>3 DEF ShownTo
  <2> QED BY <1>12, <2>4
<1>13. CASE ~(Len(rows) > PageSize)
  <2>1. k + m = Len(whole)
    BY <1>1, <1>2, <1>5, <1>13
  <2>2. shown = items \o more
    BY <1>6 DEF PageRead
  <2> QED BY <1>11, <1>13, <2>1, <2>2
<1> QED BY <1>12, <1>13

PagesInv == (agent.doing = "pages" => Progress(agent)) /\ PagesAreTheBook

LEMMA ProgressStays ==
  ASSUME LogOK, Grows, LogOK', NEW a, Progress(a)
  PROVE  Progress(a)'
<1>1. PICK n, W : n = a.asOf /\ W = InOrder(RowsAt(n))
  OBVIOUS
<1>2. n \in 0..Newest /\ a.whole = ItemsAt(W, n) /\ \E k : ShownTo(k, a.cursor, a.items, W, a.whole)
  BY <1>1 DEF Progress
<1>3. W = InOrder(RowsAt(n))' /\ ItemsAt(W, n)' = ItemsAt(W, n)
  BY <1>1, <1>2, WholeStays
<1>4. n \in 0..Newest'
  BY <1>2, GrownFacts DEF LogOK
<1> QED BY <1>1, <1>2, <1>3, <1>4 DEF Progress

LEMMA WritersKeepPages == ASSUME ToolInv, PagesInv, WriteBook PROVE PagesInv'
<1>1. LogOK /\ LogOK' /\ Grows
  BY WritersKeepLog DEF ToolInv
<1>2. agent' = agent /\ Silent
  BY DEF WriteBook, BookExpense, BookRefund, BookReversal, Assign, ClearLines
<1>3. PICK a : a = agent
  OBVIOUS
<1>4. a.doing = "pages" => Progress(a)'
  BY <1>1, <1>3, ProgressStays DEF PagesInv
<1>5. PagesAreTheBook'
  BY <1>2, SilentFacts DEF PagesAreTheBook
<1> QED BY <1>2, <1>3, <1>4, <1>5 DEF PagesInv

\* A step that is not about pages.
LEMMA OthersKeepPages ==
  ASSUME agent'.doing # "pages", answer'.to # "pages"
  PROVE  PagesInv'
BY DEF PagesInv, PagesAreTheBook

LEMMA FirstPageKeepsPages == ASSUME ToolInv, AskFirstPage PROVE PagesInv'
<1>1. events' = events /\ Silent
  BY DEF AskFirstPage
<1>2. LogOK /\ LogOK' /\ Grows
  BY <1>1, Untouched DEF ToolInv
<1>3. PICK n : n = Newest
  OBVIOUS
<1>4. PICK a : a = [doing |-> "pages", asOf |-> n, cursor |-> 0, asked |-> TRUE,
                    items |-> <<>>, whole |-> ItemsAt(InOrder(RowsAt(n)), n)]
  OBVIOUS
<1>5. agent' = a
  BY <1>3, <1>4 DEF AskFirstPage
<1>6. Progress(a)
  <2>1. n \in 0..Newest
    BY <1>2, <1>3, LenProperties DEF LogOK, Newest
  <2>2. \E k : ShownTo(k, a.cursor, a.items, InOrder(RowsAt(a.asOf)), a.whole)
    <3>1. ShownTo(0, a.cursor, a.items, InOrder(RowsAt(a.asOf)), a.whole)
      BY <1>4 DEF ShownTo
    <3> QED BY <3>1
  <2> QED BY <1>4, <2>1, <2>2 DEF Progress
<1>7. Progress(a)'
  BY <1>2, <1>6, ProgressStays
<1> QED BY <1>1, <1>5, <1>7, SilentFacts DEF PagesInv, PagesAreTheBook

LEMMA NextPageKeepsPages ==
  ASSUME CarriesPosition, ToolInv, PagesInv, AskNextPage
  PROVE  PagesInv'
<1>1. events' = events /\ Silent /\ agent.doing = "pages"
  BY DEF AskNextPage, Reading
<1>2. LogOK /\ LogOK' /\ Grows
  BY <1>1, Untouched DEF ToolInv
<1>3. PICK a : a = agent
  OBVIOUS
<1>4. Progress(a) /\ a = PagesRecord(a)
  BY <1>1, <1>3 DEF PagesInv, ToolInv, ToolOK
<1>5. PICK b : b = [doing |-> "pages", asOf |-> a.asOf, cursor |-> a.cursor, asked |-> TRUE,
                    items |-> a.items, whole |-> a.whole]
  OBVIOUS
<1>6. agent' = b
  <2>1. PICK n : n = a.asOf
    OBVIOUS
  <2>2. agent' = [a EXCEPT !.asked = TRUE, !.asOf = n]
    BY <1>3, <2>1 DEF AskNextPage
  <2> QED BY <1>4, <1>5, <2>1, <2>2, PagesExcept
<1>7. Progress(b)
  BY <1>4, <1>5 DEF Progress
<1>8. Progress(b)'
  BY <1>2, <1>7, ProgressStays
<1> QED BY <1>1, <1>6, <1>8, SilentFacts DEF PagesInv, PagesAreTheBook

LEMMA ReadPageKeepsPages == ASSUME ToolInv, PagesInv, ReadPage PROVE PagesInv'
<1>1. events' = events /\ agent.doing = "pages"
  BY DEF ReadPage, Reading
<1>2. LogOK /\ LogOK' /\ Grows
  BY <1>1, Untouched DEF ToolInv
<1>3. PICK a : a = agent
  OBVIOUS
<1>4. Progress(a) /\ a = PagesRecord(a)
  BY <1>1, <1>3 DEF PagesInv, ToolInv, ToolOK
<1>5. PICK n, R, W, whole : /\ n = a.asOf /\ R = RowsAt(n) /\ W = InOrder(R)
                            /\ whole = ItemsAt(W, n)
  OBVIOUS
<1>6. PICK k : ShownTo(k, a.cursor, a.items, W, whole)
  BY <1>4, <1>5 DEF Progress
<1>7. n \in 0..Newest /\ a.whole = whole
  BY <1>4, <1>5 DEF Progress
<1>8. PICK rows : rows = InOrder(RowsAfter(a.cursor, n))
  OBVIOUS
<1>9. PICK m : m = IF Len(rows) < PageSize THEN Len(rows) ELSE PageSize
  OBVIOUS
<1>10. PICK page : page = SubSeq(rows, 1, m)
  OBVIOUS
<1>11. PICK shown, cursor : shown = a.items \o ItemsAt(page, n) /\ cursor = CursorAfter(page)
  OBVIOUS
<1>12. IF Len(rows) > PageSize
       THEN agent' = [a EXCEPT !.asked = FALSE, !.items = shown, !.cursor = cursor] /\ Silent
       ELSE agent' = Idle /\ answer' = [to |-> "pages", whole |-> whole, items |-> shown]
  BY <1>3, <1>5, <1>7, <1>8, <1>9, <1>10, <1>11 DEF ReadPage
<1>13. PageRead(n, R, W, whole, k, a.cursor, a.items, rows, m, page, cursor, shown)
  BY <1>5, <1>6, <1>7, <1>8, <1>9, <1>10, <1>11 DEF PageRead
<1>14. IF Len(rows) > PageSize
       THEN ShownTo(k + m, cursor, shown, W, whole)
       ELSE shown = whole
  BY <1>2, <1>13, PageContinues
<1>15. CASE Len(rows) > PageSize
  <2>1. ShownTo(k + m, cursor, shown, W, whole)
    BY <1>14, <1>15
  <2>2. PICK b : b = [doing |-> "pages", asOf |-> n, cursor |-> cursor, asked |-> FALSE,
                      items |-> shown, whole |-> whole]
    OBVIOUS
  <2>3. agent' = b
    <3>1. agent' = [a EXCEPT !.asked = FALSE, !.items = shown, !.cursor = cursor]
      BY <1>12, <1>15
    <3>2. a = PagesRecord(a)
      BY <1>4
    <3>3. agent' = [doing |-> "pages", asOf |-> a.asOf, cursor |-> cursor, asked |-> FALSE,
                    items |-> shown, whole |-> a.whole]
      BY ONLY <3>1, <3>2, PagesExcept
    <3> QED BY <1>5, <1>7, <2>2, <3>3
  <2>4. b.asOf = n /\ b.whole = whole /\ b.cursor = cursor /\ b.items = shown
    BY <2>2
  <2>5. Progress(b)
    BY <1>5, <1>7, <2>1, <2>4 DEF Progress
  <2>6. Progress(b)'
    BY <1>2, <2>5, ProgressStays
  <2> QED BY <1>12, <1>15, <2>3, <2>6, SilentFacts DEF PagesInv, PagesAreTheBook
<1>16. CASE ~(Len(rows) > PageSize)
  <2>1. agent' = Idle /\ answer' = [to |-> "pages", whole |-> whole, items |-> shown]
    BY <1>12, <1>16
  <2>2. shown = whole
    BY <1>14, <1>16
  <2> QED BY <2>1, <2>2 DEF PagesInv, PagesAreTheBook, Idle
<1> QED BY <1>15, <1>16

LEMMA QueriesKeepPages == ASSUME CarriesPosition, ToolInv, PagesInv, QueryBook PROVE PagesInv'
<1>1. CASE \E verify \in BOOLEAN : AskBalances(verify)
  BY <1>1, SilentFacts, OthersKeepPages DEF AskBalances
<1>2. CASE \E n \in 0..Newest : AskBalancesAsOf(n)
  BY <1>2, SilentFacts, OthersKeepPages DEF AskBalancesAsOf
<1>3. CASE ReadProjection
  BY <1>3, SilentFacts, OthersKeepPages DEF ReadProjection, Idle
<1>4. CASE ReadReference
  BY <1>4, OthersKeepPages DEF ReadReference, Idle
<1> QED BY <1>1, <1>2, <1>3, <1>4, FirstPageKeepsPages, NextPageKeepsPages, ReadPageKeepsPages
    DEF QueryBook

\* What the tool is doing and answered is about categories.
ToolStep == agent'.doing # "pages" /\ answer'.to \notin {"pages", "balances"}

LEMMA ToolAnswers == ASSUME ClassifyByTool PROVE ToolStep
<1>1. CASE \E w \in Wishes, t \in Entries :
             \/ \E c \in Categories : AskCategory(w, t, c)
             \/ AskNoCategory(w, t)
  BY <1>1, SilentFacts DEF ToolStep, AskCategory, AskNoCategory, Ask
<1>2. \A why : Refuse(why) => ToolStep
  BY DEF ToolStep, Refuse, Idle
<1>3. CASE ReadEntry
  <2>1. CASE Stands(agent.entry)
    BY <1>3, <2>1, SilentFacts DEF ToolStep, ReadEntry
  <2>2. CASE ~Stands(agent.entry)
    BY <1>2, <1>3, <2>2 DEF ReadEntry
  <2> QED BY <2>1, <2>2
<1>4. CASE ReadRevision
  <2>1. \/ Refuse("kind")
        \/ agent' = Idle /\ answer'.to = "category"
        \/ agent'.doing = "write" /\ Silent
    BY <1>4 DEF ReadRevision
  <2> QED BY <1>2, <2>1, SilentFacts DEF ToolStep, Idle
<1>5. CASE \E lost \in BOOLEAN : SendCategory(lost)
  <2>1. PICK lost \in BOOLEAN : SendCategory(lost)
    BY <1>5
  <2>2. \/ \E why : Refuse(why)
        \/ (agent' = Idle \/ agent'.doing = "head") /\ Silent
    <3> DEFINE r == receipts[agent.wish]
               Same == r.expected = agent.expected /\ r.entry = agent.entry
                       /\ r.category = agent.category
    <3>1. CASE r # NoReceipt /\ Same
      BY <2>1, <3>1 DEF SendCategory
    <3>2. CASE r # NoReceipt /\ ~Same
      BY <2>1, <3>2 DEF SendCategory
    <3>3. CASE r = NoReceipt /\ Revision(agent.entry) # agent.expected
      BY <2>1, <3>3 DEF SendCategory
    <3>4. CASE r = NoReceipt /\ Revision(agent.entry) = agent.expected
      BY <2>1, <3>4 DEF SendCategory
    <3> QED BY <3>1, <3>2, <3>3, <3>4
  <2> QED BY <1>2, <2>2, SilentFacts DEF ToolStep, Idle
<1>6. CASE ReadBackHead
  BY <1>6, SilentFacts DEF ToolStep, ReadBackHead
<1>7. CASE ReadBackLines
  BY <1>7 DEF ToolStep, ReadBackLines, Idle
<1> QED BY <1>1, <1>3, <1>4, <1>5, <1>6, <1>7 DEF ClassifyByTool

LEMMA PagesInvStep ==
  ASSUME CarriesPosition, ToolInv, PagesInv, [BookNext]_bookVars
  PROVE  PagesInv'
<1>1. CASE UNCHANGED bookVars
  <2>1. events' = events /\ agent' = agent /\ answer' = answer
    BY <1>1 DEF bookVars
  <2>2. LogOK /\ LogOK' /\ Grows
    BY <2>1, Untouched DEF ToolInv
  <2>3. PICK a : a = agent
    OBVIOUS
  <2>4. a.doing = "pages" => Progress(a)'
    BY <2>2, <2>3, ProgressStays DEF PagesInv
  <2> QED BY <2>1, <2>3, <2>4 DEF PagesInv, PagesAreTheBook
<1> QED BY <1>1, WritersKeepPages, QueriesKeepPages, ToolAnswers, OthersKeepPages DEF BookNext, ToolStep

-----------------------------------------------------------------------------
(* Balances, see BalancesAreOfTheirPosition *)

\* What a row leaves on the account, and the fold that adds it up, see BalanceAt.
Moved(p) == events[p].moved
AddsUp(k, S) ==
    k = [s \in SUBSET S |-> IF s = {} THEN 0
                            ELSE Moved(CHOOSE x \in s : TRUE) + k[s \ {CHOOSE x \in s : TRUE}]]

LEMMA BalanceStays ==
  ASSUME events' = events, NEW n
  PROVE  BalanceAt(n)' = BalanceAt(n)
<1>1. BalanceAt(n) = (CHOOSE k : AddsUp(k, RowsAt(n)))[RowsAt(n)]
  BY DEF BalanceAt, MapThenSumSet, MapThenFoldSet, AddsUp, Moved
<1>2. BalanceAt(n)' = (CHOOSE k : AddsUp(k, RowsAt(n))')[RowsAt(n)']
  BY DEF BalanceAt, MapThenSumSet, MapThenFoldSet, AddsUp, Moved
<1>3. RowsAt(n)' = RowsAt(n)
  BY DEF RowsAt
<1>4. \A p : Moved(p)' = Moved(p)
  BY DEF Moved
<1>5. ASSUME NEW k PROVE AddsUp(k, RowsAt(n))' <=> AddsUp(k, RowsAt(n))
  BY <1>3, <1>4 DEF AddsUp
<1>6. (CHOOSE k : AddsUp(k, RowsAt(n))') = CHOOSE k : AddsUp(k, RowsAt(n))
  BY <1>5, Zenon
<1> QED BY <1>1, <1>2, <1>3, <1>6

LEMMA BalancesStep ==
  ASSUME BalancesAreOfTheirPosition, [BookNext]_bookVars
  PROVE  BalancesAreOfTheirPosition'
<1>1. CASE ReadReference
  <2>1. PICK n, v : n = agent.asOf /\ v = BalanceAt(n)
    OBVIOUS
  <2>2. events' = events
    BY <1>1 DEF ReadReference
  <2>3. answer'.asOf = n /\ answer'.units = v
    <3>1. CASE agent.verify
      BY <1>1, <2>1, <3>1 DEF ReadReference, Verified
    <3>2. CASE ~agent.verify
      BY <1>1, <2>1, <3>2 DEF ReadReference
    <3> QED BY <3>1, <3>2
  <2>4. BalanceAt(n)' = v
    BY <2>1, <2>2, BalanceStays
  <2> QED BY <2>3, <2>4 DEF BalancesAreOfTheirPosition
<1>2. CASE UNCHANGED bookVars
  <2>1. PICK a : a = answer
    OBVIOUS
  <2>2. events' = events /\ answer' = a
    BY <1>2, <2>1 DEF bookVars
  <2>3. PICK n : n = a.asOf
    OBVIOUS
  <2>4. BalanceAt(n)' = BalanceAt(n)
    BY <2>2, BalanceStays
  <2> QED BY <2>1, <2>2, <2>3, <2>4 DEF BalancesAreOfTheirPosition
<1>3. CASE WriteBook
  <2>1. Silent
    BY <1>3 DEF WriteBook, BookExpense, BookRefund, BookReversal, Assign, ClearLines
  <2> QED BY <2>1, SilentFacts DEF BalancesAreOfTheirPosition
<1>4. CASE ClassifyByTool
  <2>1. answer'.to # "balances"
    BY <1>4, ToolAnswers DEF ToolStep
  <2> QED BY <2>1 DEF BalancesAreOfTheirPosition
<1>5. CASE AskFirstPage
  BY <1>5, SilentFacts DEF AskFirstPage, BalancesAreOfTheirPosition
<1>6. CASE AskNextPage
  BY <1>6, SilentFacts DEF AskNextPage, BalancesAreOfTheirPosition
<1>7. CASE ReadPage
  <2>1. Silent \/ answer'.to = "pages"
    <3> DEFINE rows == InOrder(RowsAfter(agent.cursor, agent.asOf))
               page == SubSeq(rows, 1, IF Len(rows) < PageSize THEN Len(rows) ELSE PageSize)
               items == agent.items \o ItemsAt(page, agent.asOf)
    <3>1. IF Len(rows) > PageSize
          THEN Silent ELSE answer' = [to |-> "pages", whole |-> agent.whole, items |-> items]
      BY <1>7 DEF ReadPage
    <3> HIDE DEF rows, page, items
    <3> QED BY <3>1
  <2> QED BY <2>1, SilentFacts DEF BalancesAreOfTheirPosition
<1>8. CASE \E verify \in BOOLEAN : AskBalances(verify)
  BY <1>8, SilentFacts DEF AskBalances, BalancesAreOfTheirPosition
<1>9. CASE \E n \in 0..Newest : AskBalancesAsOf(n)
  BY <1>9, SilentFacts DEF AskBalancesAsOf, BalancesAreOfTheirPosition
<1>10. CASE ReadProjection
  <2>1. Silent \/ answer'.exact = FALSE
    BY <1>10 DEF ReadProjection
  <2> QED BY <2>1, SilentFacts DEF BalancesAreOfTheirPosition
<1> QED BY <1>1, <1>2, <1>3, <1>4, <1>5, <1>6, <1>7, <1>8, <1>9, <1>10 DEF BookNext, QueryBook

LEMMA PagesInit == ASSUME BookInit PROVE PagesInv /\ BalancesAreOfTheirPosition
BY DEF BookInit, Idle, NoAnswer, PagesInv, PagesAreTheBook, BalancesAreOfTheirPosition

\* A reader never sees two positions in one when the position goes with the cursor, see
\* ReadsAreOfOnePosition.
THEOREM ReadsOfOnePosition ==
  ASSUME CarriesPosition = TRUE
  PROVE  BookSpec => []ReadsAreOfOnePosition
<1>1. BookInit => ToolInv /\ PagesInv /\ BalancesAreOfTheirPosition
  BY ToolInvInit, PagesInit
<1>2. ToolInv /\ PagesInv /\ BalancesAreOfTheirPosition /\ [BookNext]_bookVars
        => ToolInv' /\ PagesInv' /\ BalancesAreOfTheirPosition'
  BY ToolInvStep, PagesInvStep, BalancesStep
<1>3. PagesInv /\ BalancesAreOfTheirPosition => ReadsAreOfOnePosition
  BY DEF PagesInv, ReadsAreOfOnePosition
<1> QED BY <1>1, <1>2, <1>3, PTL DEF BookSpec
================================================================================
