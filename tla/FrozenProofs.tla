------------------------------ MODULE FrozenProofs ------------------------------
(***************************************************************************)
(* Theorems about the frozen import, for any histories and reviews, any    *)
(* runners and any number of runs, posts and status changes between them.  *)
(*                                                                         *)
(* The plan: the planner and the two reducers say the same of every        *)
(* accepted review.  The planner sorts the reversals by round and time,    *)
(* the reducer of rows emits a round at a time: both are the one sequence  *)
(* in which everything has its place.  So the events are the same, and     *)
(* what the reducers find in them are sums of the same things, once over   *)
(* the places of the events and once over the sources.  A correction takes *)
(* back what its source moved and a line moves nothing, so the balances    *)
(* are those the review was accepted with, and nothing but what a review   *)
(* does not look at can make the planner refuse it.                        *)
(*                                                                         *)
(* The import: at most one runner is between its reservation and its       *)
(* commit, what it found behind the head's lock and the catalog's fence    *)
(* stays as it found it, and the receipt, the archive and the events       *)
(* appear in one step.                                                     *)
(***************************************************************************)
EXTENDS FrozenImport, SequenceTheorems, SetSums

-----------------------------------------------------------------------------
(* The import of a plan *)

IsSeq(s) == s \in Seq({s[i] : i \in DOMAIN s})

\* Sequences of anything.
LEMMA SeqFacts ==
  ASSUME NEW s, IsSeq(s)
  PROVE  /\ Len(s) \in Nat /\ DOMAIN s = 1..Len(s)
         /\ s = [i \in 1..Len(s) |-> s[i]]
         /\ Len(s) = 0 <=> s = <<>>
<1>1. PICK S : S = {s[i] : i \in DOMAIN s}
  OBVIOUS
<1>2. s \in Seq(S)
  BY <1>1 DEF IsSeq
<1> QED BY <1>2, EmptySeq

\* A function on 1..n is a sequence of n.
LEMMA SeqMade ==
  ASSUME NEW s, NEW n \in Nat, DOMAIN s = 1..n, s = [i \in 1..n |-> s[i]]
  PROVE  IsSeq(s) /\ Len(s) = n
<1>1. PICK S : S = {s[i] : i \in DOMAIN s}
  OBVIOUS
<1>2. s \in [1..n -> S]
  BY <1>1
<1>3. s \in Seq(S)
  BY <1>2
<1> QED BY <1>1, <1>3 DEF IsSeq

\* A sequence of things of S is one of its own elements.
LEMMA SeqWide ==
  ASSUME NEW s, NEW S, s \in Seq(S)
  PROVE  IsSeq(s)
<1>1. Len(s) \in Nat /\ DOMAIN s = 1..Len(s) /\ s = [i \in 1..Len(s) |-> s[i]]
  OBVIOUS
<1> QED BY <1>1, SeqMade

\* The concatenation: the first places are those of s, the others those of t.
LEMMA SeqJoined ==
  ASSUME NEW s, NEW t, IsSeq(s), IsSeq(t)
  PROVE  /\ IsSeq(s \o t) /\ Len(s \o t) = Len(s) + Len(t)
         /\ \A i \in 1..Len(s) : (s \o t)[i] = s[i]
         /\ \A i \in 1..Len(t) : (s \o t)[Len(s) + i] = t[i]
<1>1. PICK S : S = {s[i] : i \in DOMAIN s} \cup {t[i] : i \in DOMAIN t}
  OBVIOUS
<1>2. s \in Seq(S) /\ t \in Seq(S)
  <2>1. s = [i \in 1..Len(s) |-> s[i]] /\ Len(s) \in Nat /\ DOMAIN s = 1..Len(s)
    BY SeqFacts
  <2>2. t = [i \in 1..Len(t) |-> t[i]] /\ Len(t) \in Nat /\ DOMAIN t = 1..Len(t)
    BY SeqFacts
  <2>3. s \in [1..Len(s) -> S] /\ t \in [1..Len(t) -> S]
    BY <1>1, <2>1, <2>2
  <2> QED BY <2>1, <2>2, <2>3
<1>3. s \o t \in Seq(S) /\ Len(s \o t) = Len(s) + Len(t)
  BY <1>2
<1>4. \A i \in 1..(Len(s) + Len(t)) : (s \o t)[i] = IF i <= Len(s) THEN s[i] ELSE t[i - Len(s)]
  BY <1>2
<1>5. Len(s) \in Nat /\ Len(t) \in Nat
  BY <1>2
<1>6. \A i \in 1..Len(s) : (s \o t)[i] = s[i]
  BY <1>4, <1>5
<1>7. \A i \in 1..Len(t) : (s \o t)[Len(s) + i] = t[i]
  <2> SUFFICES ASSUME NEW i \in 1..Len(t) PROVE (s \o t)[Len(s) + i] = t[i]
    OBVIOUS
  <2>1. Len(s) + i \in 1..(Len(s) + Len(t)) /\ ~(Len(s) + i <= Len(s)) /\ (Len(s) + i) - Len(s) = i
    BY <1>5
  <2> QED BY <1>4, <2>1
<1> QED BY <1>3, <1>6, <1>7, SeqWide

\* One more element.
LEMMA SeqLonger ==
  ASSUME NEW s, IsSeq(s), NEW x
  PROVE  /\ IsSeq(Append(s, x)) /\ Len(Append(s, x)) = Len(s) + 1
         /\ \A i \in 1..Len(s) : Append(s, x)[i] = s[i]
         /\ Append(s, x)[Len(s) + 1] = x
<1>1. PICK S : S = {s[i] : i \in DOMAIN s} \cup {x}
  OBVIOUS
<1>2. s \in Seq(S)
  <2>1. s = [i \in 1..Len(s) |-> s[i]] /\ Len(s) \in Nat /\ DOMAIN s = 1..Len(s)
    BY SeqFacts
  <2>2. s \in [1..Len(s) -> S]
    BY <1>1, <2>1
  <2> QED BY <2>1, <2>2
<1>3. x \in S
  BY <1>1
<1>4. Append(s, x) \in Seq(S) /\ Len(Append(s, x)) = Len(s) + 1
  BY <1>2, <1>3
<1>5. \A i \in 1..Len(s) : Append(s, x)[i] = s[i]
  BY <1>2, <1>3
<1>6. Append(s, x)[Len(s) + 1] = x
  BY <1>2, <1>3
<1> QED BY <1>4, <1>5, <1>6, SeqWide

\* p is how s begins.
Begins(p, s) == Len(p) <= Len(s) /\ \A i \in 1..Len(p) : s[i] = p[i]

\* What begins s is its first part.
LEMMA BeginsIs ==
  ASSUME NEW p, NEW s, IsSeq(p), IsSeq(s), Begins(p, s)
  PROVE  SubSeq(s, 1, Len(p)) = p
<1>1. Len(p) \in Nat /\ p = [i \in 1..Len(p) |-> p[i]]
  BY SeqFacts
<1>2. SubSeq(s, 1, Len(p)) = [i \in 1..Len(p) |-> s[i]]
  <2>1. PICK S : S = {s[i] : i \in DOMAIN s} /\ s \in Seq(S)
    BY DEF IsSeq
  <2>2. Len(p) \in 0..Len(s)
    BY <1>1, <2>1 DEF Begins
  <2> QED BY <1>1, <2>1, <2>2
<1> QED BY <1>1, <1>2 DEF Begins

Steps == {"idle", "reserved", "committed", "answered", "refused", "died"} \cup Holding
Underway == {"reserved"} \cup Holding
Started == receipt = "completed" \/ log # <<>> \/ answers # <<>> \/ creating
             \/ \E r \in Runners : step[r] # "idle"
HasPlan == plan \notin {Unplanned, Refused}
Inserted == {i \in DOMAIN answers : answers[i] = "inserted"}

ImportTypeOK ==
    /\ case \in Cases /\ ReviewAccepted(case.rows, case.review)
    /\ plan = Unplanned \/ plan = Compiled(case.rows, case.review)
    /\ status \in [Accounts \cup {Stray} -> {"absent", "active", "closed"}]
    /\ IsSeq(log)
    /\ archive \in BOOLEAN /\ receipt \in {"none", "completed"}
    /\ step \in [Runners -> Steps]
    /\ answers \in Seq({"inserted", "replayed"})
    /\ creating \in BOOLEAN

\* Of the runners between the reservation and the commit there is one, and what it has
\* found stays: no receipt, no event behind the head's lock, the catalog behind the fence.
RunnerOK(r) ==
    /\ step[r] \in Underway => receipt = "none" /\ \A o \in Runners : step[o] \in Underway => o = r
    /\ step[r] \in Holding => log = <<>>
    /\ step[r] = "fenced" => Admitted /\ ~creating
    /\ step[r] = "committed" =>
         receipt = "completed" /\ Inserted = {} /\ \A o \in Runners : step[o] = "committed" => o = r

FInv ==
    /\ ImportTypeOK
    /\ Started => HasPlan /\ case \in Carried
    /\ \A r \in Runners : RunnerOK(r)
    /\ receipt = "completed" <=> archive
    /\ receipt = "completed" => Begins(plan.events, log)
    /\ receipt = "none" => answers = <<>> /\ Len(log) <= MaxPosts
    /\ \A i, j \in Inserted : i = j

\* A plan is a sequence of events.
LEMMA SortedIsSeq ==
  ASSUME NEW S, IsFiniteSet(S), NEW order, NEW q, q = Sorted(S, order)
  PROVE  IsSeq(q) /\ Len(q) = Cardinality(S) /\ DOMAIN q = 1..Cardinality(S) /\ Cardinality(S) \in Nat
<1>1. PICK n \in Nat : n = Cardinality(S)
  BY FS_CardinalityType
<1> DEFINE item(m) == CHOOSE s \in S : Cardinality({t \in S : <<t, s>> \in order}) = m - 1
<1>2. q = [m \in 1..n |-> item(m)]
  BY <1>1 DEF Sorted
<1> HIDE DEF item
<1>3. DOMAIN q = 1..n /\ q = [m \in 1..n |-> q[m]]
  BY <1>2
<1> QED BY <1>1, <1>3, SeqMade

\* Each of a sequence made into another.
LEMMA SeqMapped ==
  ASSUME NEW q, IsSeq(q), NEW e, DOMAIN e = DOMAIN q, e = [i \in DOMAIN q |-> e[i]]
  PROVE  IsSeq(e) /\ Len(e) = Len(q)
<1>1. Len(q) \in Nat /\ DOMAIN q = 1..Len(q)
  BY SeqFacts
<1> QED BY <1>1, SeqMade

\* The sources of what is posted, reversed, corrected and assigned.
LEMMA SourceSets ==
  ASSUME NEW h, NEW r, ReviewAccepted(h, r)
  PROVE  /\ Reversing(h) \subseteq Sources /\ Reversed(h) \subseteq Sources
         /\ Corrected(r) \subseteq Sources /\ Categorised(h) \subseteq Sources
         /\ \A S \in SUBSET Sources : IsFiniteSet(S)
<1>1. Reversing(h) \cup Reversed(h) \subseteq Sources
  BY DEF ReviewAccepted, LinksResolve
<1>2. Corrected(r) \subseteq Sources
  BY DEF ReviewAccepted, Corrected, Scope
<1>3. IsFiniteSet(Sources)
  BY HistoryAssumption
<1> QED BY <1>1, <1>2, <1>3, FS_Subset DEF Categorised

\* The four parts of the plan's events.
PostedPart(h, r) == LET q == InOrder(Sources \ Reversing(h)) IN [i \in DOMAIN q |-> Posted(h, r, q[i])]
ReversedPart(h, r) ==
    LET q == Sorted(Reversing(h), ByRound(h)) IN [i \in DOMAIN q |-> ReversedBy(h, r, q[i])]
CorrectedPart(h, r) == LET q == InOrder(Corrected(r)) IN [i \in DOMAIN q |-> Neutralised(h, r, q[i])]
AssignedPart(h) == LET q == InOrder(Categorised(h)) IN [i \in DOMAIN q |-> Assigned(h, q[i])]

\* The four parts of the events of a plan.
LEMMA EventsAre ==
  ASSUME NEW h, NEW r
  PROVE  Events(h, r) = PostedPart(h, r) \o ReversedPart(h, r) \o CorrectedPart(h, r) \o AssignedPart(h)
BY DEF Events, PostedPart, ReversedPart, CorrectedPart, AssignedPart

\* Each part is a sequence.
LEMMA PartsAreSeqs ==
  ASSUME NEW h, NEW r, ReviewAccepted(h, r)
  PROVE  /\ IsSeq(PostedPart(h, r)) /\ IsSeq(ReversedPart(h, r))
         /\ IsSeq(CorrectedPart(h, r)) /\ IsSeq(AssignedPart(h))
<1>1. IsSeq(PostedPart(h, r))
  <2>1. PICK q : q = InOrder(Sources \ Reversing(h))
    OBVIOUS
  <2>2. IsSeq(q)
    BY <2>1, SourceSets, SortedIsSeq DEF InOrder
  <2>3. PostedPart(h, r) = [i \in DOMAIN q |-> Posted(h, r, q[i])]
    BY <2>1 DEF PostedPart
  <2> QED BY <2>2, <2>3, SeqMapped
<1>2. IsSeq(ReversedPart(h, r))
  <2>1. PICK q : q = Sorted(Reversing(h), ByRound(h))
    OBVIOUS
  <2>2. IsSeq(q)
    BY <2>1, SourceSets, SortedIsSeq
  <2>3. ReversedPart(h, r) = [i \in DOMAIN q |-> ReversedBy(h, r, q[i])]
    BY <2>1 DEF ReversedPart
  <2> QED BY <2>2, <2>3, SeqMapped
<1>3. IsSeq(CorrectedPart(h, r))
  <2>1. PICK q : q = InOrder(Corrected(r))
    OBVIOUS
  <2>2. IsSeq(q)
    BY <2>1, SourceSets, SortedIsSeq DEF InOrder
  <2>3. CorrectedPart(h, r) = [i \in DOMAIN q |-> Neutralised(h, r, q[i])]
    BY <2>1 DEF CorrectedPart
  <2> QED BY <2>2, <2>3, SeqMapped
<1>4. IsSeq(AssignedPart(h))
  <2>1. PICK q : q = InOrder(Categorised(h))
    OBVIOUS
  <2>2. IsSeq(q)
    BY <2>1, SourceSets, SortedIsSeq DEF InOrder
  <2>3. AssignedPart(h) = [i \in DOMAIN q |-> Assigned(h, q[i])]
    BY <2>1 DEF AssignedPart
  <2> QED BY <2>2, <2>3, SeqMapped
<1> QED BY <1>1, <1>2, <1>3, <1>4

\* The events of a plan that was handed out are those of its history and review.
LEMMA PlanIsSeq ==
  ASSUME NEW h, NEW r, ReviewAccepted(h, r), Compiled(h, r) # Refused
  PROVE  /\ Compiled(h, r).events = Events(h, r) /\ IsSeq(Events(h, r))
         /\ Compiled(h, r) = Drafted(h, r)
<1>1. Compiled(h, r) = Drafted(h, r)
  BY DEF Compiled
<1>2. Drafted(h, r).events = Events(h, r)
  BY DEF Drafted
<1>3. IsSeq(Events(h, r))
  <2>1. PICK a, b, c, d : /\ a = PostedPart(h, r) /\ b = ReversedPart(h, r)
                          /\ c = CorrectedPart(h, r) /\ d = AssignedPart(h)
    OBVIOUS
  <2>2. IsSeq(a) /\ IsSeq(b) /\ IsSeq(c) /\ IsSeq(d)
    BY <2>1, PartsAreSeqs
  <2>3. IsSeq(a \o b)
    BY <2>2, SeqJoined
  <2>4. IsSeq((a \o b) \o c)
    BY <2>2, <2>3, SeqJoined
  <2>5. IsSeq(((a \o b) \o c) \o d)
    BY <2>2, <2>4, SeqJoined
  <2> QED BY <2>1, <2>5, EventsAre
<1> QED BY <1>1, <1>2, <1>3

\* Initially nothing has begun.
LEMMA ImportInit ==
  Init => FInv
<1> SUFFICES ASSUME Init PROVE FInv
  OBVIOUS
<1>1. /\ case \in Cases /\ ReviewAccepted(case.rows, case.review) /\ plan = Unplanned
      /\ log = <<>> /\ archive = FALSE /\ receipt = "none" /\ creating = FALSE
      /\ step = [r \in Runners |-> "idle"] /\ answers = <<>>
  BY DEF Init
<1>2. status \in [Accounts \cup {Stray} -> {"absent", "active", "closed"}]
  BY DEF Init, Catalog
<1>3. IsSeq(log) /\ Len(log) = 0
  <2>1. <<>> \in Seq({}) /\ Len(<<>>) = 0
    BY EmptySeq
  <2> QED BY <1>1, <2>1, SeqWide
<1>4. ImportTypeOK
  <2>1. answers \in Seq({"inserted", "replayed"})
    BY <1>1
  <2>2. step \in [Runners -> Steps]
    BY <1>1 DEF Steps
  <2> QED BY <1>1, <1>2, <1>3, <2>1, <2>2 DEF ImportTypeOK
<1>5. ~Started
  BY <1>1 DEF Started
<1>6. ASSUME NEW r \in Runners PROVE RunnerOK(r)
  <2>1. step[r] = "idle"
    BY <1>1
  <2> QED BY <2>1 DEF RunnerOK, Underway, Holding
<1>7. Inserted = {}
  BY <1>1 DEF Inserted
<1>8. Len(log) <= MaxPosts
  BY <1>3, ImportAssumption
<1> QED BY <1>1, <1>4, <1>5, <1>6, <1>7, <1>8 DEF FInv

\* Compiling the plan.
LEMMA PlanKeeps ==
  ASSUME FInv, Plan
  PROVE  FInv'
<1>1. plan = Unplanned /\ plan' = Compiled(case.rows, case.review)
  BY DEF Plan
<1>2. UNCHANGED <<case, status, log, archive, receipt, step, attempts, answers, creating, changes>>
  BY DEF Plan, bookVars
<1>3. ~Started
  BY <1>1 DEF FInv, HasPlan
<1>4. ~Started'
  BY <1>2, <1>3 DEF Started
<1>5. ImportTypeOK'
  BY <1>1, <1>2 DEF FInv, ImportTypeOK
<1>6. receipt # "completed"
  BY <1>3 DEF Started
<1>7. \A r \in Runners : RunnerOK(r)'
  BY <1>2 DEF FInv, RunnerOK, Admitted, Balance, Inserted
<1> QED BY <1>2, <1>4, <1>5, <1>6, <1>7 DEF FInv, Inserted

\* A runner's step that writes nothing to the Book and gives no answer: to a place before
\* the commit that its guard allows, or out.
LEMMA MoveKeeps ==
  ASSUME FInv, NEW r \in Runners, NEW to \in Steps, Move(r, to),
         UNCHANGED <<case, plan, status, log, archive, receipt, creating, answers>>,
         HasPlan /\ case \in Carried,
         to # "committed",
         to \in Underway => receipt = "none" /\ \A o \in Runners : step[o] \in Underway => o = r,
         to \in Holding => log = <<>>,
         to = "fenced" => Admitted /\ ~creating
  PROVE  FInv'
<1>1. step' \in [Runners -> Steps] /\ step'[r] = to /\ \A o \in Runners : o # r => step'[o] = step[o]
  BY DEF Move, FInv, ImportTypeOK
<1>2. ImportTypeOK'
  BY <1>1 DEF FInv, ImportTypeOK
<1>3. HasPlan' /\ case' \in Carried
  BY DEF HasPlan
<1>4. ASSUME NEW o \in Runners PROVE RunnerOK(o)'
  <2>1. Admitted' = Admitted /\ Inserted' = Inserted
    BY DEF Admitted, Balance, Inserted
  <2>2. RunnerOK(o)
    BY DEF FInv
  <2>3. CASE o = r
    BY <1>1, <2>1, <2>3 DEF RunnerOK
  <2>4. CASE o # r
    <3>1. step'[o] = step[o]
      BY <1>1, <2>4
    <3>2. \A z \in Runners : step'[z] \in Underway => z = r \/ step[z] \in Underway
      BY <1>1
    <3>3. \A z \in Runners : step'[z] = "committed" => step[z] = "committed"
      BY <1>1
    <3> QED BY <1>1, <2>1, <2>2, <2>4, <3>1, <3>2, <3>3 DEF RunnerOK
  <2> QED BY <2>3, <2>4
<1>5. Inserted' = Inserted
  BY DEF Inserted
<1> QED BY <1>2, <1>3, <1>4, <1>5 DEF FInv

\* Reading the receipt, and answering from it.
LEMMA ReserveKeeps ==
  ASSUME FInv, NEW r \in Runners, Reserve(r)
  PROVE  FInv'
<1>1. /\ HasPlan /\ case \in Carried /\ step[r] = "idle"
      /\ \A o \in Runners : step[o] \notin Underway
      /\ UNCHANGED <<case, plan, status, log, archive, receipt, creating>>
  BY DEF Reserve, HasPlan, Underway, bookVars
<1>2. CASE receipt = "completed"
  <2>1. Move(r, "answered") /\ answers' = Append(answers, "replayed")
    BY <1>2 DEF Reserve
  <2>2. step' \in [Runners -> Steps] /\ step'[r] = "answered" /\ \A o \in Runners : o # r => step'[o] = step[o]
    BY <2>1 DEF Move, FInv, ImportTypeOK, Steps
  <2>3. answers \in Seq({"inserted", "replayed"})
    BY DEF FInv, ImportTypeOK
  <2>4. answers' \in Seq({"inserted", "replayed"}) /\ Inserted' = Inserted
    BY <2>1, <2>3 DEF Inserted
  <2>5. ImportTypeOK'
    BY <1>1, <2>2, <2>4 DEF FInv, ImportTypeOK
  <2>6. HasPlan' /\ case' \in Carried
    BY <1>1 DEF HasPlan
  <2>7. ASSUME NEW o \in Runners PROVE RunnerOK(o)'
    <3>1. RunnerOK(o) /\ Admitted' = Admitted
      BY <1>1 DEF FInv, Admitted, Balance
    <3>2. step'[o] = "answered" \/ (o # r /\ step'[o] = step[o])
      BY <2>2
    <3>3. \A z \in Runners : step'[z] = "answered" \/ step'[z] = step[z]
      BY <2>2
    <3> QED BY <1>1, <2>4, <3>1, <3>2, <3>3 DEF RunnerOK, Underway, Holding
  <2> QED BY <1>1, <1>2, <2>4, <2>5, <2>6, <2>7 DEF FInv
<1>3. CASE receipt # "completed"
  <2>1. Move(r, "reserved") /\ UNCHANGED answers /\ receipt = "none"
    BY <1>3 DEF Reserve, FInv, ImportTypeOK
  <2> QED BY <1>1, <2>1, MoveKeeps DEF Steps, Underway, Holding
<1> QED BY <1>2, <1>3

\* The lock, the fence, a death and a new run.
LEMMA MovesKeep ==
  ASSUME FInv, NEW r \in Runners, LockHead(r) \/ Fence(r) \/ Die(r) \/ Again(r)
  PROVE  FInv'
<1>1. /\ UNCHANGED <<case, plan, status, log, archive, receipt, creating, answers>>
      /\ step[r] # "idle"
  BY DEF LockHead, Fence, Die, Again, bookVars, Holding
<1>2. HasPlan /\ case \in Carried /\ RunnerOK(r)
  BY <1>1 DEF FInv, Started
<1>3. CASE LockHead(r)
  <2>1. PICK to : to = IF log = <<>> THEN "locked" ELSE "refused"
    OBVIOUS
  <2>2. Move(r, to) /\ step[r] = "reserved"
    BY <1>3, <2>1 DEF LockHead
  <2> QED BY <1>1, <1>2, <2>1, <2>2, MoveKeeps DEF Steps, RunnerOK, Underway, Holding
<1>4. CASE Fence(r)
  <2>1. PICK to : to = IF Admitted THEN "fenced" ELSE "refused"
    OBVIOUS
  <2>2. Move(r, to) /\ step[r] = "locked" /\ ~creating
    BY <1>4, <2>1 DEF Fence
  <2> QED BY <1>1, <1>2, <2>1, <2>2, MoveKeeps DEF Steps, RunnerOK, Underway, Holding
<1>5. CASE Die(r)
  BY <1>1, <1>2, <1>5, MoveKeeps DEF Die, Steps, Underway, Holding
<1>6. CASE Again(r)
  BY <1>1, <1>2, <1>6, MoveKeeps DEF Again, Steps, Underway, Holding
<1> QED BY <1>3, <1>4, <1>5, <1>6

\* What a commit finds and leaves.
LEMMA CommitIs ==
  ASSUME FInv, NEW r \in Runners, Commit(r)
  PROVE  /\ HasPlan /\ case \in Carried /\ receipt = "none" /\ answers = <<>> /\ log = <<>>
         /\ Admitted /\ ~creating /\ log' = plan.events /\ IsSeq(plan.events)
         /\ status' = Planned
<1>1. /\ HasPlan /\ case \in Carried /\ receipt = "none" /\ answers = <<>> /\ log = <<>>
      /\ Admitted /\ ~creating
  BY DEF Commit, FInv, Started, RunnerOK, Underway, Holding
<1>2. IsSeq(plan.events)
  BY <1>1, PlanIsSeq DEF HasPlan, FInv, ImportTypeOK
<1>3. log' = plan.events
  BY DEF Commit, Finalized
<1>4. status' = Planned
  <2>1. DOMAIN status = Accounts \cup {Stray}
    BY DEF FInv, ImportTypeOK
  <2>2. status' = [a \in DOMAIN status |->
                     IF a = Alias THEN "closed"
                     ELSE IF a \in Accounts \ Baseline THEN "active" ELSE status[a]]
    BY DEF Commit
  <2>3. Alias \in Accounts /\ Stray \notin Accounts /\ Baseline \subseteq Accounts
    BY HistoryAssumption, ImportAssumption
  <2>4. \A a \in Baseline : status[a] = "active"
    BY <1>1 DEF Admitted
  <2>5. status[Stray] = "absent"
    BY <1>1, <2>1, <2>3 DEF Admitted
  <2>6. ASSUME NEW a \in Accounts \cup {Stray} PROVE status'[a] = Planned[a]
    <3>1. CASE a = Stray
      BY <2>1, <2>2, <2>3, <2>5, <3>1 DEF Planned
    <3>2. CASE a = Alias
      <4>1. Alias # Stray /\ Alias \in DOMAIN status
        BY <2>1, <2>3
      <4>2. status'[Alias] = "closed"
        BY <2>2, <4>1
      <4>3. Planned[Alias] = "closed"
        BY <2>3, <4>1 DEF Planned
      <4> QED BY <3>2, <4>2, <4>3
    <3>3. CASE a \in Accounts \ Baseline /\ a # Alias
      BY <2>1, <2>2, <2>3, <3>3 DEF Planned
    <3>4. CASE a \in Baseline /\ a # Alias
      BY <2>1, <2>2, <2>3, <2>4, <3>4 DEF Planned
    <3> QED BY <3>1, <3>2, <3>3, <3>4
  <2> QED BY <2>1, <2>2, <2>6 DEF Planned
<1> QED BY <1>1, <1>2, <1>3, <1>4

\* After the commit the receipt, the archive and the events are there together.
LEMMA CommitKeeps ==
  ASSUME FInv, NEW r \in Runners, Commit(r)
  PROVE  FInv'
<1>1. /\ HasPlan /\ case \in Carried /\ receipt = "none" /\ answers = <<>>
      /\ log' = plan.events /\ IsSeq(plan.events) /\ status' = Planned
  BY CommitIs
<1>2. /\ archive' = TRUE /\ receipt' = "completed" /\ Move(r, "committed")
      /\ UNCHANGED <<case, plan, answers, creating>>
  BY DEF Commit
<1>3. step' \in [Runners -> Steps] /\ step'[r] = "committed" /\ \A o \in Runners : o # r => step'[o] = step[o]
  BY <1>2 DEF Move, FInv, ImportTypeOK, Steps
<1>4. status' \in [Accounts \cup {Stray} -> {"absent", "active", "closed"}]
  BY <1>1 DEF Planned
<1>5. ImportTypeOK'
  BY <1>1, <1>2, <1>3, <1>4 DEF FInv, ImportTypeOK
<1>6. Inserted' = {}
  BY <1>1, <1>2 DEF Inserted
<1>7. ASSUME NEW o \in Runners PROVE RunnerOK(o)'
  <2>1. step[r] = "fenced"
    BY DEF Commit
  <2>2. \A z \in Runners : z # r => step[z] \notin Underway /\ step[z] # "committed"
    BY <1>1, <2>1 DEF FInv, RunnerOK, Underway, Holding
  <2>3. \A z \in Runners : z # r => step'[z] \notin Underway /\ step'[z] # "committed"
    BY <1>3, <2>2
  <2> QED BY <1>2, <1>3, <1>6, <2>3 DEF RunnerOK, Underway, Holding
<1>8. Begins(plan.events, log)'
  <2>1. Len(plan.events) \in Nat
    BY <1>1, SeqFacts
  <2> QED BY <1>1, <1>2, <2>1 DEF Begins
<1>9. HasPlan'
  BY <1>1, <1>2 DEF HasPlan
<1> QED BY <1>1, <1>2, <1>5, <1>6, <1>7, <1>8, <1>9 DEF FInv

\* The one who committed answers, once.
LEMMA AnswerKeeps ==
  ASSUME FInv, NEW r \in Runners, Answer(r)
  PROVE  FInv'
<1>1. /\ step[r] = "committed" /\ Move(r, "answered") /\ answers' = Append(answers, "inserted")
      /\ UNCHANGED <<case, plan, status, log, archive, receipt, creating>>
  BY DEF Answer, bookVars
<1>2. HasPlan /\ case \in Carried /\ receipt = "completed" /\ Inserted = {}
  BY <1>1 DEF FInv, Started, RunnerOK
<1>3. step' \in [Runners -> Steps] /\ step'[r] = "answered" /\ \A o \in Runners : o # r => step'[o] = step[o]
  BY <1>1 DEF Move, FInv, ImportTypeOK, Steps
<1>4. answers \in Seq({"inserted", "replayed"})
  BY DEF FInv, ImportTypeOK
<1>5. /\ answers' \in Seq({"inserted", "replayed"})
      /\ \A i \in Inserted' : i = Len(answers) + 1
  BY <1>1, <1>2, <1>4 DEF Inserted
<1>6. ImportTypeOK'
  BY <1>1, <1>3, <1>5 DEF FInv, ImportTypeOK
<1>7. ASSUME NEW o \in Runners PROVE RunnerOK(o)'
  <2>1. RunnerOK(o) /\ RunnerOK(r) /\ Admitted' = Admitted
    BY <1>1 DEF FInv, Admitted, Balance
  <2>2. step'[o] # "committed"
    BY <1>1, <1>3, <2>1 DEF RunnerOK
  <2>3. \A z \in Runners : step'[z] = "answered" \/ step'[z] = step[z]
    BY <1>3
  <2> QED BY <1>1, <1>2, <2>1, <2>2, <2>3 DEF RunnerOK, Underway, Holding
<1>8. HasPlan'
  BY <1>1, <1>2 DEF HasPlan
<1> QED BY <1>1, <1>2, <1>5, <1>6, <1>7, <1>8 DEF FInv

\* The other clients write to the catalog while the fence is up and to the log while the
\* head is free.
LEMMA ClientsKeep ==
  ASSUME FInv, \/ CreateBegins \/ CreateEnds
               \/ \E a \in Baseline : ChangeStatus(a)
               \/ \E a, b \in Baseline : Post(a, b)
  PROVE  FInv'
<1>1. UNCHANGED <<case, plan, archive, receipt, step, answers>>
  BY DEF CreateBegins, CreateEnds, ChangeStatus, Post, bookVars
<1>2. Inserted' = Inserted /\ HasPlan' = HasPlan
  BY <1>1 DEF Inserted, HasPlan
<1>3. Stray \in Accounts \cup {Stray} /\ Baseline \subseteq Accounts
  BY ImportAssumption
<1>4. CASE CreateBegins
  <2>1. HasPlan /\ case \in Carried /\ UNCHANGED <<status, log>> /\ creating' = TRUE
    BY <1>4 DEF CreateBegins, Open, HasPlan, bookVars
  <2>2. \A r \in Runners : step[r] # "fenced"
    BY <1>4 DEF CreateBegins, FenceDown
  <2>3. ImportTypeOK'
    BY <1>1, <2>1 DEF FInv, ImportTypeOK
  <2>4. \A r \in Runners : RunnerOK(r)'
    BY <1>1, <1>2, <2>1, <2>2 DEF FInv, RunnerOK
  <2> QED BY <1>1, <1>2, <2>1, <2>3, <2>4 DEF FInv
<1>5. CASE CreateEnds
  <2>1. creating /\ creating' = FALSE /\ UNCHANGED log
    BY <1>5 DEF CreateEnds
  <2>2. status' \in [Accounts \cup {Stray} -> {"absent", "active", "closed"}]
    BY <1>3, <1>5 DEF CreateEnds, FInv, ImportTypeOK
  <2>3. HasPlan /\ case \in Carried
    BY <2>1 DEF FInv, Started
  <2>4. ImportTypeOK'
    BY <1>1, <2>1, <2>2 DEF FInv, ImportTypeOK
  <2>5. \A r \in Runners : RunnerOK(r)'
    BY <1>1, <1>2, <2>1 DEF FInv, RunnerOK
  <2> QED BY <1>1, <1>2, <2>1, <2>3, <2>4, <2>5 DEF FInv
<1>6. ASSUME NEW a \in Baseline, ChangeStatus(a) PROVE FInv'
  <2>1. HasPlan /\ case \in Carried /\ HeadFree /\ UNCHANGED <<log, creating>>
    BY <1>6 DEF ChangeStatus, Open, HasPlan
  <2>2. status' \in [Accounts \cup {Stray} -> {"absent", "active", "closed"}]
    BY <1>3, <1>6 DEF ChangeStatus, FInv, ImportTypeOK
  <2>3. ImportTypeOK'
    BY <1>1, <2>1, <2>2 DEF FInv, ImportTypeOK
  <2>4. \A r \in Runners : RunnerOK(r)'
    BY <1>1, <1>2, <2>1 DEF FInv, RunnerOK, HeadFree, Holding
  <2> QED BY <1>1, <1>2, <2>1, <2>3, <2>4 DEF FInv
<1>7. ASSUME NEW a \in Baseline, NEW b \in Baseline, Post(a, b) PROVE FInv'
  <2>1. /\ HasPlan /\ case \in Carried /\ HeadFree /\ UNCHANGED <<status, creating>>
        /\ Posts < MaxPosts
    BY <1>7 DEF Post, Open, HasPlan
  <2>2. PICK e : log' = Append(log, e)
    BY <1>7 DEF Post
  <2>3. IsSeq(log) /\ Len(log) \in Nat
    BY SeqFacts DEF FInv, ImportTypeOK
  <2>4. IsSeq(log') /\ Len(log') = Len(log) + 1 /\ \A i \in 1..Len(log) : log'[i] = log[i]
    BY <2>2, <2>3, SeqLonger
  <2>5. ImportTypeOK'
    BY <1>1, <2>1, <2>4 DEF FInv, ImportTypeOK
  <2>6. \A r \in Runners : RunnerOK(r)'
    BY <1>1, <1>2, <2>1 DEF FInv, RunnerOK, HeadFree, Holding
  <2>7. receipt = "none" => Len(log') <= MaxPosts
    BY <2>1, <2>3, <2>4, ImportAssumption DEF Posts
  <2>8. receipt = "completed" => Begins(plan.events, log)'
    <3> SUFFICES ASSUME receipt = "completed" PROVE Begins(plan.events, log)'
      OBVIOUS
    <3>1. Begins(plan.events, log)
      BY DEF FInv
    <3>2. IsSeq(plan.events)
      BY <2>1, PlanIsSeq DEF HasPlan, FInv, ImportTypeOK
    <3>3. Len(plan.events) \in Nat
      BY <3>2, SeqFacts
    <3>4. \A i \in 1..Len(plan.events) : i \in 1..Len(log)
      BY <2>3, <3>1, <3>3 DEF Begins
    <3> QED BY <1>1, <2>3, <2>4, <3>1, <3>3, <3>4 DEF Begins
  <2> QED BY <1>1, <1>2, <2>1, <2>5, <2>6, <2>7, <2>8 DEF FInv
<1> QED BY <1>4, <1>5, <1>6, <1>7

\* Every step of the import and of the clients keeps the invariant.
LEMMA ImportStep ==
  FInv /\ [Next]_vars => FInv'
<1> SUFFICES ASSUME FInv, [Next]_vars PROVE FInv'
  OBVIOUS
<1>1. CASE UNCHANGED vars
  BY <1>1 DEF vars, bookVars, FInv, ImportTypeOK, Started, HasPlan, RunnerOK, Admitted, Balance, Inserted
<1>2. CASE Next
  BY <1>2, PlanKeeps, ReserveKeeps, MovesKeep, CommitKeeps, AnswerKeeps, ClientsKeep DEF Next
<1> QED BY <1>1, <1>2

\* The import is whole: what is there with the receipt and what is not there without it, in
\* every state of every run, for any number of runners (import_frozen_financial_history).
THEOREM ImportInvariance == Spec => []FInv
BY ImportInit, ImportStep, PTL DEF Spec

\* The invariant is what the runs check, and more.
LEMMA WholeIs == FInv => ImportIsWhole
<1> SUFFICES ASSUME FInv PROVE ImportIsWhole
  OBVIOUS
<1>1. receipt = "completed" => SubSeq(log, 1, Len(plan.events)) = plan.events
  <2> SUFFICES ASSUME receipt = "completed" PROVE SubSeq(log, 1, Len(plan.events)) = plan.events
    OBVIOUS
  <2>1. HasPlan /\ Begins(plan.events, log) /\ IsSeq(log)
    BY DEF FInv, Started, ImportTypeOK
  <2>2. IsSeq(plan.events)
    BY <2>1, PlanIsSeq DEF HasPlan, FInv, ImportTypeOK
  <2> QED BY <2>1, <2>2, BeginsIs
<1>2. Cardinality({i \in DOMAIN answers : answers[i] = "inserted"}) <= 1
  <2>1. PICK S : S = Inserted
    OBVIOUS
  <2>2. \A i, j \in S : i = j
    BY <2>1 DEF FInv
  <2>3. Cardinality(S) <= 1
    <3>1. CASE S = {}
      BY <3>1, FS_EmptySet
    <3>2. CASE S # {}
      <4>1. PICK i \in S : TRUE
        BY <3>2
      <4>2. S = {i}
        BY <2>2, <4>1
      <4>3. Cardinality({i}) = 1
        BY FS_Singleton
      <4> QED BY <4>2, <4>3
    <3> QED BY <3>1, <3>2
  <2> QED BY <2>1, <2>3 DEF Inserted
<1> QED BY <1>1, <1>2 DEF FInv, ImportIsWhole

-----------------------------------------------------------------------------
(* Sets in order *)

\* An order in which any two of S come one before the other.
Orders(S, order) ==
    /\ \A s \in S : <<s, s>> \notin order
    /\ \A s, t \in S : s # t => <<s, t>> \in order \/ <<t, s>> \in order
    /\ \A s, t, u \in S : <<s, t>> \in order /\ <<t, u>> \in order => <<s, u>> \in order

Ahead(S, order, s) == {t \in S : <<t, s>> \in order}
Place(S, order, s) == Cardinality(Ahead(S, order, s)) + 1

\* Each of S once.
Enumerates(q, S) ==
    /\ IsSeq(q) /\ Len(q) = Cardinality(S)
    /\ \A i \in 1..Len(q) : q[i] \in S
    /\ \A s \in S : \E i \in 1..Len(q) : q[i] = s
    /\ \A i, j \in 1..Len(q) : q[i] = q[j] => i = j

\* What comes later has more before it.
LEMMA PlacesGrow ==
  ASSUME NEW S, IsFiniteSet(S), NEW order, Orders(S, order), NEW s \in S, NEW t \in S, <<s, t>> \in order
  PROVE  Place(S, order, s) < Place(S, order, t)
<1>1. PICK A : A = Ahead(S, order, s)
  OBVIOUS
<1>2. PICK B : B = Ahead(S, order, t)
  OBVIOUS
<1>3. A \subseteq B /\ s \in B /\ s \notin A /\ B \subseteq S
  BY <1>1, <1>2 DEF Orders, Ahead
<1>4. IsFiniteSet(B)
  BY <1>3, FS_Subset
<1>5. Cardinality(A) < Cardinality(B) /\ Cardinality(A) \in Nat /\ Cardinality(B) \in Nat
  <2>1. A \in SUBSET B /\ A # B
    BY <1>3
  <2>2. IsFiniteSet(A) /\ Cardinality(A) <= Cardinality(B) /\ (Cardinality(A) = Cardinality(B) => A = B)
    BY <1>4, <2>1, FS_Subset
  <2>3. Cardinality(A) \in Nat /\ Cardinality(B) \in Nat
    BY <1>4, <2>2, FS_CardinalityType
  <2> QED BY <2>1, <2>2, <2>3
<1> QED BY <1>1, <1>2, <1>5 DEF Place

\* Each has a place of its own, and every place is taken.
LEMMA PlacesAre ==
  ASSUME NEW S, IsFiniteSet(S), NEW order, Orders(S, order)
  PROVE  /\ \A s \in S : Place(S, order, s) \in 1..Cardinality(S)
         /\ \A s, t \in S : Place(S, order, s) = Place(S, order, t) => s = t
         /\ \A n \in 1..Cardinality(S) : \E s \in S : Place(S, order, s) = n
<1>1. PICK n \in Nat : n = Cardinality(S)
  BY FS_CardinalityType
<1>2. ASSUME NEW s \in S PROVE Place(S, order, s) \in 1..n
  <2>1. PICK A : A = Ahead(S, order, s)
    OBVIOUS
  <2>2. A \in SUBSET S /\ A # S
    BY <2>1 DEF Ahead, Orders
  <2>3. IsFiniteSet(A) /\ Cardinality(A) <= n /\ (Cardinality(A) = n => A = S)
    BY <1>1, <2>2, FS_Subset
  <2>4. Cardinality(A) \in Nat
    BY <2>3, FS_CardinalityType
  <2>5. Cardinality(A) + 1 \in 1..n
    BY <2>2, <2>3, <2>4
  <2> QED BY <2>1, <2>5 DEF Place
<1>3. ASSUME NEW s \in S, NEW t \in S, Place(S, order, s) = Place(S, order, t) PROVE s = t
  <2>1. Place(S, order, s) \in Int /\ Place(S, order, t) \in Int
    BY <1>2
  <2>2. ~(<<s, t>> \in order) /\ ~(<<t, s>> \in order)
    BY <1>3, <2>1, PlacesGrow
  <2> QED BY <2>2 DEF Orders
<1> DEFINE f == [s \in S |-> Place(S, order, s)]
<1>4. \A s \in S : f[s] = Place(S, order, s)
  OBVIOUS
<1>5. f \in [S -> 1..n]
  BY <1>2
<1> HIDE DEF f
<1>6. f \in Injection(S, 1..n)
  BY <1>3, <1>4, <1>5 DEF Injection, IsInjective
<1>7. IsFiniteSet(1..n) /\ Cardinality(1..n) = n
  BY FS_Interval
<1>8. f \in Surjection(S, 1..n)
  BY <1>1, <1>6, <1>7, FS_Injection
<1>9. ASSUME NEW m \in 1..n PROVE \E s \in S : Place(S, order, s) = m
  BY <1>4, <1>8 DEF Surjection
<1> QED BY <1>1, <1>2, <1>3, <1>9

\* Sorting lists each, in its place.
LEMMA SortedLists ==
  ASSUME NEW S, IsFiniteSet(S), NEW order, Orders(S, order), NEW q, q = Sorted(S, order)
  PROVE  /\ Enumerates(q, S)
         /\ \A i \in 1..Len(q) : Place(S, order, q[i]) = i
         /\ \A s \in S : q[Place(S, order, s)] = s
<1>1. IsSeq(q) /\ Len(q) = Cardinality(S) /\ DOMAIN q = 1..Cardinality(S) /\ Cardinality(S) \in Nat
  BY SortedIsSeq
<1>2. ASSUME NEW i \in 1..Cardinality(S) PROVE q[i] \in S /\ Place(S, order, q[i]) = i
  <2> DEFINE item == CHOOSE s \in S : Cardinality({t \in S : <<t, s>> \in order}) = i - 1
  <2>1. q[i] = item
    BY DEF Sorted
  <2>2. PICK s \in S : Place(S, order, s) = i
    BY PlacesAre
  <2>3. Cardinality(Ahead(S, order, s)) = i - 1
    <3>1. IsFiniteSet(Ahead(S, order, s))
      BY FS_Subset DEF Ahead
    <3>2. Cardinality(Ahead(S, order, s)) \in Nat
      BY <3>1, FS_CardinalityType
    <3> QED BY <2>2, <3>2 DEF Place
  <2>4. item \in S /\ Cardinality({t \in S : <<t, item>> \in order}) = i - 1
    BY <2>3 DEF Ahead
  <2> HIDE DEF item
  <2>5. Place(S, order, item) = (i - 1) + 1
    BY <2>4 DEF Place, Ahead
  <2> QED BY <2>1, <2>4, <2>5
<1>3. ASSUME NEW s \in S PROVE q[Place(S, order, s)] = s
  <2>1. PICK n : n = Place(S, order, s)
    OBVIOUS
  <2>2. n \in 1..Cardinality(S)
    BY <2>1, PlacesAre
  <2>3. q[n] \in S /\ Place(S, order, q[n]) = n
    BY <1>2, <2>2
  <2> QED BY <2>1, <2>3, PlacesAre
<1>4. \A s \in S : Place(S, order, s) \in 1..Len(q)
  BY <1>1, PlacesAre
<1>5. ASSUME NEW i \in 1..Len(q), NEW j \in 1..Len(q), q[i] = q[j] PROVE i = j
  BY <1>1, <1>2, <1>5
<1> QED BY <1>1, <1>2, <1>3, <1>4, <1>5 DEF Enumerates

\* A sequence that lists each in its place is the sorted one.
InPlace(p, S, order) ==
    /\ IsSeq(p) /\ Len(p) = Cardinality(S)
    /\ \A i \in 1..Len(p) : p[i] \in S /\ Place(S, order, p[i]) = i

\* There is one sequence with everything in its place.
LEMMA SortedIs ==
  ASSUME NEW S, IsFiniteSet(S), NEW order, Orders(S, order), NEW p, InPlace(p, S, order)
  PROVE  p = Sorted(S, order)
<1>0. /\ IsSeq(p) /\ Len(p) = Cardinality(S)
      /\ \A i \in 1..Len(p) : p[i] \in S /\ Place(S, order, p[i]) = i
  BY DEF InPlace
<1> PICK q : q = Sorted(S, order)
  OBVIOUS
<1>1. Enumerates(q, S) /\ \A s \in S : q[Place(S, order, s)] = s
  BY SortedLists
<1>2. \A i \in 1..Len(p) : q[i] = p[i]
  BY <1>0, <1>1
<1>3. p = [i \in 1..Len(p) |-> p[i]] /\ q = [i \in 1..Len(p) |-> q[i]]
  BY <1>0, <1>1, SeqFacts DEF Enumerates
<1> QED BY <1>2, <1>3

\* Orders that agree sort alike.
LEMMA SortedAlike ==
  ASSUME NEW S, IsFiniteSet(S), NEW order, NEW other, Orders(S, order),
         \A s, t \in S : <<s, t>> \in order <=> <<s, t>> \in other
  PROVE  Orders(S, other) /\ Sorted(S, order) = Sorted(S, other)
<1>1. Orders(S, other)
  BY DEF Orders
<1>2. \A s \in S : Place(S, order, s) = Place(S, other, s)
  <2> SUFFICES ASSUME NEW s \in S PROVE Place(S, order, s) = Place(S, other, s)
    OBVIOUS
  <2>1. Ahead(S, order, s) = Ahead(S, other, s)
    BY DEF Ahead
  <2> QED BY <2>1 DEF Place
<1>3. PICK p : p = Sorted(S, order)
  OBVIOUS
<1>4. Enumerates(p, S) /\ \A i \in 1..Len(p) : Place(S, order, p[i]) = i
  BY <1>3, SortedLists
<1>5. \A i \in 1..Len(p) : p[i] \in S /\ Place(S, other, p[i]) = i
  BY <1>2, <1>4 DEF Enumerates
<1>6. InPlace(p, S, other)
  BY <1>4, <1>5 DEF Enumerates, InPlace
<1> QED BY <1>1, <1>3, <1>6, SortedIs

\* A set of two parts, one before the other.
Splits(S, order, A, B) ==
    /\ IsFiniteSet(S) /\ Orders(S, order)
    /\ S = A \cup B /\ A \cap B = {} /\ \A a \in A, b \in B : <<a, b>> \in order

\* Two sets, the one all before the other, are sorted one after another.
LEMMA SortedJoined ==
  ASSUME NEW S, NEW order, NEW A, NEW B, Splits(S, order, A, B)
  PROVE  Sorted(S, order) = Sorted(A, order) \o Sorted(B, order)
<1>0. /\ IsFiniteSet(S) /\ Orders(S, order)
      /\ S = A \cup B /\ A \cap B = {} /\ \A a \in A, b \in B : <<a, b>> \in order
  BY DEF Splits
<1>1. IsFiniteSet(A) /\ IsFiniteSet(B) /\ Orders(A, order) /\ Orders(B, order)
  BY <1>0, FS_Subset DEF Orders
<1>2. Cardinality(S) = Cardinality(A) + Cardinality(B)
  <2>1. Cardinality(A \cup B) = Cardinality(A) + Cardinality(B) - Cardinality(A \cap B)
    BY <1>1, FS_Union
  <2>2. Cardinality(A) \in Nat /\ Cardinality(B) \in Nat
    BY <1>1, FS_CardinalityType
  <2>3. Cardinality(A \cap B) = 0
    BY <1>0, FS_EmptySet
  <2> QED BY <1>0, <2>1, <2>2, <2>3
<1>3. PICK p, q : p = Sorted(A, order) /\ q = Sorted(B, order)
  OBVIOUS
<1>4. /\ Enumerates(p, A) /\ \A i \in 1..Len(p) : Place(A, order, p[i]) = i
      /\ Enumerates(q, B) /\ \A i \in 1..Len(q) : Place(B, order, q[i]) = i
  BY <1>1, <1>3, SortedLists
<1>5. PICK m \in Nat, n \in Nat : m = Cardinality(A) /\ n = Cardinality(B)
  BY <1>1, FS_CardinalityType
<1>6. ASSUME NEW a \in A PROVE Place(S, order, a) = Place(A, order, a)
  <2>1. \A b \in B : <<b, a>> \notin order
    BY <1>0 DEF Orders
  <2>2. Ahead(S, order, a) = Ahead(A, order, a)
    BY <1>0, <2>1 DEF Ahead
  <2> QED BY <2>2 DEF Place
<1>7. ASSUME NEW b \in B PROVE Place(S, order, b) = m + Place(B, order, b)
  <2>1. PICK C : C = Ahead(B, order, b)
    OBVIOUS
  <2>2. Ahead(S, order, b) = A \cup C /\ A \cap C = {} /\ C \subseteq B
    BY <1>0, <2>1 DEF Ahead
  <2>3. IsFiniteSet(C)
    BY <1>1, <2>2, FS_Subset
  <2>4. Cardinality(C) \in Nat /\ Cardinality(A \cap C) = 0
    BY <2>2, <2>3, FS_CardinalityType, FS_EmptySet
  <2>5. Cardinality(A \cup C) = Cardinality(A) + Cardinality(C) - Cardinality(A \cap C)
    BY <1>1, <2>3, FS_Union
  <2>6. Cardinality(A \cup C) = m + Cardinality(C)
    BY <1>5, <2>4, <2>5
  <2>7. Place(S, order, b) = Cardinality(A \cup C) + 1 /\ Place(B, order, b) = Cardinality(C) + 1
    BY <2>1, <2>2 DEF Place
  <2> QED BY <2>4, <2>6, <2>7
<1>8. PICK w : w = p \o q
  OBVIOUS
<1>9. /\ IsSeq(w) /\ Len(w) = m + n /\ Len(p) = m /\ Len(q) = n
      /\ \A i \in 1..m : w[i] = p[i]
      /\ \A i \in 1..n : w[m + i] = q[i]
  <2>1. IsSeq(p) /\ IsSeq(q) /\ Len(p) = m /\ Len(q) = n
    BY <1>4, <1>5 DEF Enumerates
  <2>2. /\ IsSeq(w) /\ Len(w) = Len(p) + Len(q)
        /\ \A i \in 1..Len(p) : w[i] = p[i]
        /\ \A i \in 1..Len(q) : w[Len(p) + i] = q[i]
    BY <1>8, <2>1, SeqJoined
  <2> QED BY <2>1, <2>2
<1>10. ASSUME NEW i \in 1..(m + n) PROVE w[i] \in S /\ Place(S, order, w[i]) = i
  <2>1. CASE i \in 1..m
    <3>1. w[i] = p[i] /\ p[i] \in A /\ Place(A, order, p[i]) = i
      BY <1>4, <1>9, <2>1 DEF Enumerates
    <3> QED BY <1>0, <1>6, <3>1
  <2>2. CASE i \notin 1..m
    <3>1. PICK j \in 1..n : i = m + j
      <4>1. i - m \in 1..n /\ i = m + (i - m)
        BY <2>2
      <4> QED BY <4>1
    <3>2. w[i] = q[j] /\ q[j] \in B /\ Place(B, order, q[j]) = j
      BY <1>4, <1>9, <3>1 DEF Enumerates
    <3> QED BY <1>0, <1>7, <3>1, <3>2
  <2> QED BY <2>1, <2>2
<1>11. Len(w) = Cardinality(S) /\ \A i \in 1..Len(w) : w[i] \in S /\ Place(S, order, w[i]) = i
  BY <1>2, <1>5, <1>9, <1>10
<1>12. InPlace(w, S, order)
  BY <1>9, <1>11 DEF InPlace
<1>13. w = Sorted(S, order)
  BY <1>12, SortedIs DEF Splits
<1> QED BY <1>3, <1>8, <1>13

\* The orders of the model.
LEMMA TimeOrders ==
  \A S \in SUBSET Sources : Orders(S, ByTime)
<1> SUFFICES ASSUME NEW S \in SUBSET Sources PROVE Orders(S, ByTime)
  OBVIOUS
<1>1. \A s \in Sources : s \in Nat /\ Month[s] \in Nat
  BY HistoryAssumption
<1>2. \A s, t \in Sources : <<s, t>> \in ByTime <=> Before(s, t)
  BY DEF ByTime
<1>3. \A s, t \in S : Before(s, t) <=> Month[s] < Month[t] \/ (Month[s] = Month[t] /\ s < t)
  BY DEF Before
<1>4. \A s \in S : s \in Nat /\ Month[s] \in Nat
  BY <1>1
<1>5. \A s \in S : ~Before(s, s)
  BY <1>3, <1>4
<1>6. \A s, t \in S : s # t => Before(s, t) \/ Before(t, s)
  BY <1>3, <1>4
<1>7. \A s, t, u \in S : Before(s, t) /\ Before(t, u) => Before(s, u)
  BY <1>3, <1>4
<1> QED BY <1>2, <1>5, <1>6, <1>7 DEF Orders

-----------------------------------------------------------------------------
(* Reversals and their rounds *)

\* A link of accepted rows is a reversal and its one target.
LEMMA LinksAre ==
  ASSUME NEW h, LinksResolve(h)
  PROVE  /\ Links(h) \subseteq Sources \X Sources
         /\ \A s \in Reversing(h) : /\ s \in Sources /\ Target(h, s) \in Sources
                                    /\ Target(h, s) \in Reversed(h)
                                    /\ <<s, Target(h, s)>> \in Links(h)
         /\ \A l \in Links(h) : l[1] \in Reversing(h) /\ l[2] = Target(h, l[1])
         /\ \A s, t \in Reversing(h) : Target(h, s) = Target(h, t) => s = t
<1>1. \A l \in Links(h) : l = <<l[1], l[2]>>
  BY DEF Links, Explicit, Inferred
<1>2. Reversing(h) \cup Reversed(h) \subseteq Sources
  BY DEF LinksResolve
<1>3. \A l \in Links(h) : l[1] \in Reversing(h) /\ l[2] \in Reversed(h)
  BY DEF Reversing, Reversed
<1>4. Links(h) \subseteq Sources \X Sources
  BY <1>1, <1>2, <1>3
<1>5. \A l, m \in Links(h) : l[1] = m[1] <=> l[2] = m[2]
  BY DEF LinksResolve
<1>6. ASSUME NEW s \in Reversing(h)
      PROVE  Target(h, s) \in Sources /\ <<s, Target(h, s)>> \in Links(h)
  <2>1. PICK l \in Links(h) : l[1] = s
    BY DEF Reversing
  <2>2. l[2] \in Sources /\ <<s, l[2]>> \in Links(h)
    BY <1>1, <1>2, <1>3, <2>1
  <2> QED BY <2>2 DEF Target
<1>7. ASSUME NEW l \in Links(h) PROVE l[2] = Target(h, l[1])
  <2>1. PICK t : t = Target(h, l[1])
    OBVIOUS
  <2>2. <<l[1], t>> \in Links(h)
    BY <1>3, <1>6, <2>1
  <2>3. PICK m \in Links(h) : m = <<l[1], t>>
    BY <2>2
  <2>4. m[1] = l[1] /\ m[2] = t
    BY <2>3
  <2>5. l[2] = m[2]
    BY <1>5, <2>4
  <2> QED BY <2>1, <2>4, <2>5
<1>8. ASSUME NEW s \in Reversing(h), NEW t \in Reversing(h), Target(h, s) = Target(h, t) PROVE s = t
  <2>1. PICK l \in Links(h), m \in Links(h) : l = <<s, Target(h, s)>> /\ m = <<t, Target(h, t)>>
    BY <1>6
  <2>2. l[1] = s /\ m[1] = t /\ l[2] = Target(h, s) /\ m[2] = Target(h, t)
    BY <2>1
  <2> QED BY <1>5, <1>8, <2>2
<1>9. \A s \in Reversing(h) : Target(h, s) \in Reversed(h)
  <2> SUFFICES ASSUME NEW s \in Reversing(h) PROVE Target(h, s) \in Reversed(h)
    OBVIOUS
  <2>1. PICK l \in Links(h) : l = <<s, Target(h, s)>>
    BY <1>6
  <2>2. l[2] = Target(h, s)
    BY <2>1
  <2> QED BY <1>3, <2>1, <2>2
<1> QED BY <1>2, <1>3, <1>4, <1>6, <1>7, <1>8, <1>9

\* g is the round of each of D, which holds the target of each of its reversals.
Rounds(g, D, h) ==
    /\ g \in [D -> Nat]
    /\ \A s \in D \cap Reversing(h) : Target(h, s) \in D /\ g[s] = 1 + g[Target(h, s)]
    /\ \A s \in D \ Reversing(h) : g[s] = 0

\* One more source has a round.
LEMMA RoundsGrow ==
  ASSUME NEW h, NEW D, NEW g, Rounds(g, D, h), NEW s, s \notin D,
         s \in Reversing(h) => Target(h, s) \in D
  PROVE  \E f : Rounds(f, D \cup {s}, h)
<1>1. PICK v \in Nat : v = IF s \in Reversing(h) THEN 1 + g[Target(h, s)] ELSE 0
  <2>1. s \in Reversing(h) => g[Target(h, s)] \in Nat
    BY DEF Rounds
  <2> QED BY <2>1
<1>2. PICK f : f = [x \in D \cup {s} |-> IF x = s THEN v ELSE g[x]]
  OBVIOUS
<1>3. f[s] = v /\ \A x \in D : f[x] = g[x]
  BY <1>2
<1>4. f \in [D \cup {s} -> Nat]
  BY <1>1, <1>2 DEF Rounds
<1>5. ASSUME NEW x \in (D \cup {s}) \cap Reversing(h)
      PROVE  Target(h, x) \in D \cup {s} /\ f[x] = 1 + f[Target(h, x)]
  <2>1. CASE x = s
    BY <1>1, <1>3, <1>5, <2>1
  <2>2. CASE x # s
    BY <1>3, <1>5, <2>2 DEF Rounds
  <2> QED BY <2>1, <2>2
<1>6. \A x \in (D \cup {s}) \ Reversing(h) : f[x] = 0
  BY <1>1, <1>3 DEF Rounds
<1> QED BY <1>4, <1>5, <1>6 DEF Rounds

\* Every source has a round: what is left without one would be a loop.
LEMMA RoundsExist ==
  ASSUME NEW h, LinksResolve(h)
  PROVE  \E g : Rounds(g, Sources, h)
<1> DEFINE Left == {L \in SUBSET Sources : \E g : Rounds(g, Sources \ L, h)}
<1>1. Sources \in Left
  <2>1. Sources \ Sources = {} /\ [x \in {} |-> 0] \in [{} -> Nat]
    OBVIOUS
  <2>2. Rounds([x \in {} |-> 0], {}, h)
    BY DEF Rounds
  <2> QED BY <2>1, <2>2
<1>2. PICK L \in Left : \A U \in Left : U \subseteq L => U = L
  <2> HIDE DEF Left
  <2>1. Left \subseteq SUBSET Sources /\ Left # {}
    BY <1>1 DEF Left
  <2>2. IsFiniteSet(Sources)
    BY HistoryAssumption
  <2> QED BY <2>1, <2>2, SmallestSubset
<1>3. PICK g : Rounds(g, Sources \ L, h)
  OBVIOUS
<1>4. ASSUME NEW s \in L, s \in Reversing(h) => Target(h, s) \in Sources \ L
      PROVE  FALSE
  <2>1. \E f : Rounds(f, (Sources \ L) \cup {s}, h)
    BY <1>3, <1>4, RoundsGrow
  <2>2. (Sources \ L) \cup {s} = Sources \ (L \ {s})
    OBVIOUS
  <2>3. L \ {s} \in Left
    BY <2>1, <2>2
  <2> QED BY <1>2, <2>3
<1>5. L \subseteq Reversing(h)
  BY <1>4
<1>6. L = {}
  <2> SUFFICES ASSUME L # {} PROVE FALSE
    OBVIOUS
  <2>1. PICK s \in L : Target(h, s) \notin L
    BY <1>5 DEF LinksResolve, Acyclic
  <2>2. Target(h, s) \in Sources
    BY <1>5, LinksAre
  <2> QED BY <1>4, <2>1, <2>2
<1>7. Sources \ L = Sources
  BY <1>6
<1> QED BY <1>3, <1>7

\* The rounds are numbered: a reversal comes one round after its target.
LEMMA RoundIs ==
  ASSUME NEW h, LinksResolve(h)
  PROVE  Rounds(Round(h), Sources, h)
<1>1. PICK g : Rounds(g, Sources, h)
  BY RoundsExist
<1> DEFINE Fits(f) == f = [s \in Sources |-> IF s \in Reversing(h) THEN 1 + f[Target(h, s)] ELSE 0]
<1>2. Fits(g)
  <2>1. g = [s \in Sources |-> g[s]]
    BY <1>1 DEF Rounds
  <2>2. \A s \in Sources : g[s] = IF s \in Reversing(h) THEN 1 + g[Target(h, s)] ELSE 0
    BY <1>1 DEF Rounds
  <2> QED BY <2>1, <2>2
<1>3. Round(h) = CHOOSE f : Fits(f)
  BY DEF Round
<1>4. Fits(Round(h))
  <2> HIDE DEF Fits
  <2> QED BY <1>2, <1>3
<1>5. PICK f : f = Round(h)
  OBVIOUS
<1>6. f = [s \in Sources |-> IF s \in Reversing(h) THEN 1 + f[Target(h, s)] ELSE 0]
  BY <1>4, <1>5
<1>7. PICK S : S = {s \in Sources : f[s] # g[s]}
  OBVIOUS
<1>8. S \subseteq Reversing(h)
  BY <1>1, <1>6, <1>7 DEF Rounds
<1>9. S = {}
  <2> SUFFICES ASSUME S # {} PROVE FALSE
    OBVIOUS
  <2>1. PICK s \in S : Target(h, s) \notin S
    BY <1>8 DEF LinksResolve, Acyclic
  <2>2. s \in Sources /\ s \in Reversing(h) /\ Target(h, s) \in Sources
    BY <1>8, LinksAre
  <2>3. f[Target(h, s)] = g[Target(h, s)]
    BY <1>7, <2>1, <2>2
  <2>4. f[s] = 1 + f[Target(h, s)] /\ g[s] = 1 + g[Target(h, s)]
    BY <1>1, <1>6, <2>2 DEF Rounds
  <2> QED BY <1>7, <2>3, <2>4
<1>10. f = g
  <2>1. f = [s \in Sources |-> f[s]] /\ g = [s \in Sources |-> g[s]]
    BY <1>1, <1>6 DEF Rounds
  <2>2. \A s \in Sources : f[s] = g[s]
    BY <1>7, <1>9
  <2> QED BY <2>1, <2>2
<1> QED BY <1>1, <1>5, <1>10

\* Below a round there is every smaller one, so there are no more rounds than sources.
LEMMA RoundsAreFew ==
  ASSUME NEW h, LinksResolve(h), NEW s \in Sources
  PROVE  Round(h)[s] \in 0..Cardinality(Sources)
<1>1. PICK g : g = Round(h) /\ Rounds(g, Sources, h)
  BY RoundIs
<1>2. PICK k \in Nat : k = g[s]
  BY <1>1 DEF Rounds
<1>3. \A t \in Sources : g[t] \in Nat
  BY <1>1 DEF Rounds
<1>4. \A j \in 0..k : \E t \in Sources : g[t] = j
  <2> DEFINE Missing == {d \in 0..k : \A t \in Sources : g[t] # k - d}
  <2>1. Missing = {}
    <3> SUFFICES ASSUME Missing # {} PROVE FALSE
      OBVIOUS
    <3>1. PICK d \in Missing : \A e \in Missing : d <= e
      <4> HIDE DEF Missing
      <4>1. Missing \subseteq Nat
        BY DEF Missing
      <4> QED BY <4>1, NatLeast
    <3>2. d \in 0..k /\ \A t \in Sources : g[t] # k - d
      OBVIOUS
    <3>3. d # 0
      BY <1>2, <3>2
    <3>4. d - 1 \in 0..k /\ ~(d <= d - 1)
      BY <3>2, <3>3
    <3>5. PICK t \in Sources : g[t] = k - (d - 1)
      BY <3>1, <3>4
    <3>6. g[t] # 0
      BY <3>2, <3>5
    <3>7. t \in Reversing(h)
      BY <1>1, <3>6 DEF Rounds
    <3>8. Target(h, t) \in Sources /\ g[t] = 1 + g[Target(h, t)]
      BY <1>1, <3>7 DEF Rounds
    <3>9. g[Target(h, t)] = k - d
      BY <1>3, <3>2, <3>5, <3>8
    <3> QED BY <3>2, <3>8, <3>9
  <2> SUFFICES ASSUME NEW j \in 0..k PROVE \E t \in Sources : g[t] = j
    OBVIOUS
  <2>2. k - j \in 0..k /\ k - (k - j) = j
    OBVIOUS
  <2> QED BY <2>1, <2>2
<1> DEFINE one(j) == CHOOSE t \in Sources : g[t] = j
           f == [j \in 0..k |-> one(j)]
<1>5. \A j \in 0..k : one(j) \in Sources /\ g[one(j)] = j
  BY <1>4
<1> HIDE DEF one
<1>6. f \in [0..k -> Sources] /\ \A j \in 0..k : g[f[j]] = j
  BY <1>5
<1> HIDE DEF f
<1>7. f \in Injection(0..k, Sources)
  BY <1>6 DEF Injection, IsInjective
<1>8. Cardinality(0..k) <= Cardinality(Sources) /\ Cardinality(Sources) \in Nat
  BY <1>7, FS_Injection, FS_CardinalityType, HistoryAssumption
<1>9. Cardinality(0..k) = k + 1
  BY FS_Interval
<1>10. k \in 0..Cardinality(Sources)
  BY <1>8, <1>9
<1> QED BY <1>1, <1>2, <1>10

\* Round first, then time, is an order.
LEMMA RoundOrders ==
  ASSUME NEW h, LinksResolve(h), NEW S \in SUBSET Sources
  PROVE  Orders(S, ByRound(h))
<1>1. PICK g : g = Round(h) /\ Rounds(g, Sources, h)
  BY RoundIs
<1>2. \A s \in S : s \in Nat /\ Month[s] \in Nat /\ g[s] \in Nat
  BY <1>1, HistoryAssumption DEF Rounds
<1>3. \A s, t \in S : <<s, t>> \in ByRound(h) <=>
         g[s] < g[t] \/ (g[s] = g[t] /\ Before(s, t))
  BY <1>1 DEF ByRound
<1>4. /\ \A s \in S : ~Before(s, s)
      /\ \A s, t \in S : s # t => Before(s, t) \/ Before(t, s)
      /\ \A s, t, u \in S : Before(s, t) /\ Before(t, u) => Before(s, u)
  BY <1>2 DEF Before
<1>5. \A s \in S : <<s, s>> \notin ByRound(h)
  BY <1>2, <1>3, <1>4
<1>6. \A s, t \in S : s # t => <<s, t>> \in ByRound(h) \/ <<t, s>> \in ByRound(h)
  BY <1>2, <1>3, <1>4
<1>7. \A s, t, u \in S : <<s, t>> \in ByRound(h) /\ <<t, u>> \in ByRound(h) => <<s, u>> \in ByRound(h)
  BY <1>2, <1>3, <1>4
<1> QED BY <1>5, <1>6, <1>7 DEF Orders

\* Within a round, the time decides.
LEMMA RoundInOrder ==
  ASSUME NEW h, LinksResolve(h), NEW S \in SUBSET Sources,
         \A s, t \in S : Round(h)[s] = Round(h)[t]
  PROVE  InOrder(S) = Sorted(S, ByRound(h))
<1>1. PICK g : g = Round(h) /\ Rounds(g, Sources, h)
  BY RoundIs
<1>2. \A s \in S : g[s] \in Nat
  BY <1>1 DEF Rounds
<1>3. \A s, t \in S : <<s, t>> \in ByTime <=> <<s, t>> \in ByRound(h)
  BY <1>1, <1>2 DEF ByTime, ByRound
<1>4. IsFiniteSet(S) /\ Orders(S, ByTime)
  BY HistoryAssumption, FS_Subset, TimeOrders
<1> QED BY <1>3, <1>4, SortedAlike DEF InOrder

-----------------------------------------------------------------------------
(* The two programs say the same of the postings, the reversals and the events *)

RowPostings == [account : Accounts, amount : Int \ {0}]
PostingRecords == [account : Accounts, units : Nat, side : {"debit", "credit"}]

\* The planner and the source reducer read an amount alike.
LEMMA NormalIs ==
  ASSUME NEW p \in RowPostings
  PROVE  /\ Normalized(p) \in PostingRecords
         /\ Normalized(p).account = p.account
         /\ Normalized(p).units = SourceAmount(p.amount).units
         /\ Normalized(p).side = SourceAmount(p.amount).side
BY DEF Normalized, SourceAmount, PostingRecords, RowPostings

\* A review's decision has the account and the side.
LEMMA MappedAre ==
  ASSUME NEW h, NEW r, IsHistory(h), IsReview(h, r), NEW s \in Sources
  PROVE  /\ Mapped(h, r, s) \in Seq(PostingRecords) /\ DOMAIN Mapped(h, r, s) = DOMAIN h[s].postings
         /\ Len(Mapped(h, r, s)) = Len(h[s].postings) /\ Len(h[s].postings) \in Nat
         /\ DOMAIN h[s].postings = 1..Len(h[s].postings)
         /\ SourcePostings(h, r, s) = Mapped(h, r, s)
<1>1. PICK ps \in Seq(RowPostings) : ps = h[s].postings
  BY DEF IsHistory, RowPostings
<1>2. PICK m : m = Mapped(h, r, s)
  OBVIOUS
<1>3. PICK n : n = SourcePostings(h, r, s)
  OBVIOUS
<1>4. DOMAIN m = DOMAIN ps /\ DOMAIN n = DOMAIN ps /\ m = [i \in DOMAIN ps |-> m[i]] /\ n = [i \in DOMAIN ps |-> n[i]]
  BY <1>1, <1>2, <1>3 DEF Mapped, SourcePostings
<1>5. ASSUME NEW i \in DOMAIN ps PROVE m[i] \in PostingRecords /\ n[i] = m[i]
  <2>1. PICK p \in RowPostings : p = ps[i]
    BY <1>1, <1>5
  <2>2. PICK z : z = Normalized(p)
    OBVIOUS
  <2>3. /\ z \in PostingRecords /\ z.account = p.account
        /\ z.units = SourceAmount(p.amount).units /\ z.side = SourceAmount(p.amount).side
    BY <2>2, NormalIs
  <2>4. CASE s \in DOMAIN r.postings
    <3>1. PICK d : d = r.postings[s][i]
      OBVIOUS
    <3>2. d \in [account : Accounts, side : {"debit", "credit"}]
      <4>1. r.postings[s] \in [DOMAIN ps -> [account : Accounts, side : {"debit", "credit"}]]
        BY <1>1, <2>4 DEF IsReview
      <4> QED BY <1>5, <3>1, <4>1
    <3>3. m[i] = [z EXCEPT !.account = d.account, !.side = d.side]
      BY <1>1, <1>2, <2>1, <2>2, <2>4, <3>1 DEF Mapped
    <3>4. n[i] = [account |-> d.account, units |-> SourceAmount(p.amount).units, side |-> d.side]
      BY <1>1, <1>3, <2>1, <2>4, <3>1 DEF SourcePostings
    <3> QED BY <2>3, <3>2, <3>3, <3>4 DEF PostingRecords
  <2>5. CASE s \notin DOMAIN r.postings
    <3>1. m[i] = z
      BY <1>1, <1>2, <2>1, <2>2, <2>5 DEF Mapped
    <3>2. n[i] = [account |-> p.account, units |-> SourceAmount(p.amount).units,
                  side |-> SourceAmount(p.amount).side]
      BY <1>1, <1>3, <2>1, <2>5 DEF SourcePostings
    <3> QED BY <2>3, <3>1, <3>2 DEF PostingRecords
  <2> QED BY <2>4, <2>5
<1>6. Len(ps) \in Nat /\ DOMAIN ps = 1..Len(ps)
  BY <1>1
<1>7. m \in [1..Len(ps) -> PostingRecords]
  BY <1>4, <1>5, <1>6
<1>8. m \in Seq(PostingRecords) /\ Len(m) = Len(ps)
  BY <1>6, <1>7
<1>9. n = m
  BY <1>4, <1>5
<1> QED BY <1>1, <1>2, <1>3, <1>4, <1>6, <1>8, <1>9

\* The two ways to collect the links, and what follows from them.
LEMMA SourceLinksAre ==
  ASSUME NEW h, LinksResolve(h), DOMAIN h = Sources
  PROVE  /\ SourceLinks(h) = Links(h)
         /\ SourceReversals(h) = Reversing(h)
         /\ \A s : SourceOriginal(h, s) = Target(h, s)
<1>1. Nobody \notin Sources
  BY HistoryAssumption DEF Nobody
<1>2. Links(h) \subseteq Sources \X Sources
  BY LinksAre
<1>4. ASSUME NEW s \in Sources, NEW t \in Sources
      PROVE  <<s, t>> \in SourceLinks(h) <=> <<s, t>> \in Links(h)
  <2>1. <<s, t>> \in Links(h) <=> h[s].reverses = t \/ h[t].reversedBy = s
    BY <1>1 DEF Links, Explicit, Inferred
  <2>2. <<s, t>> \in SourceLinks(h) <=> h[s].reverses = t \/ h[t].reversedBy = s
    BY DEF SourceLinks
  <2> QED BY <2>1, <2>2
<1>5. SourceLinks(h) \subseteq Sources \X Sources
  BY DEF SourceLinks
<1>6. \A s, t \in Sources : <<s, t>> \in SourceLinks(h) <=> <<s, t>> \in Links(h)
  BY <1>4
<1>7. SourceLinks(h) = Links(h)
  BY <1>2, <1>5, <1>6
<1>8. SourceReversals(h) = Reversing(h)
  BY <1>7 DEF SourceReversals, Reversing
<1>9. \A s : SourceOriginal(h, s) = Target(h, s)
  BY <1>7 DEF SourceOriginal, Target
<1> QED BY <1>7, <1>8, <1>9

\* What is emitted after k rounds.
Upto(h, k) == {s \in Sources : Round(h)[s] <= k}

\* One more round takes what reverses what has been emitted.
LEMMA UptoGrows ==
  ASSUME NEW h, LinksResolve(h), NEW k \in Nat
  PROVE  /\ Upto(h, 0) = Sources \ Reversing(h)
         /\ Upto(h, k + 1) = Upto(h, k) \cup {s \in Reversing(h) : Target(h, s) \in Upto(h, k)}
         /\ \A s \in Upto(h, k + 1) \ Upto(h, k) : Round(h)[s] = k + 1
         /\ \A s \in Upto(h, 0) : Round(h)[s] = 0
<1>1. PICK g : g = Round(h) /\ Rounds(g, Sources, h)
  BY RoundIs
<1>2. \A s \in Sources : g[s] \in Nat
  BY <1>1 DEF Rounds
<1>3. Reversing(h) \subseteq Sources
  BY LinksAre
<1>4. \A s \in Reversing(h) : Target(h, s) \in Sources /\ g[s] = 1 + g[Target(h, s)]
  BY <1>1, <1>3 DEF Rounds
<1>5. \A s \in Sources \ Reversing(h) : g[s] = 0
  BY <1>1 DEF Rounds
<1>6. Upto(h, 0) = Sources \ Reversing(h)
  BY <1>1, <1>2, <1>4, <1>5 DEF Upto
<1>7. \A s \in Reversing(h) : g[s] <= k + 1 <=> g[Target(h, s)] <= k
  BY <1>2, <1>4
<1>8. Upto(h, k + 1) = Upto(h, k) \cup {s \in Reversing(h) : Target(h, s) \in Upto(h, k)}
  <2>1. ASSUME NEW s \in Sources
        PROVE  s \in Upto(h, k + 1) <=>
                 s \in Upto(h, k) \/ (s \in Reversing(h) /\ Target(h, s) \in Upto(h, k))
    <3>1. s \in Upto(h, k + 1) <=> g[s] <= k + 1
      BY <1>1 DEF Upto
    <3>2. s \in Upto(h, k) <=> g[s] <= k
      BY <1>1 DEF Upto
    <3>3. CASE s \in Reversing(h)
      <4>1. Target(h, s) \in Upto(h, k) <=> g[Target(h, s)] <= k
        BY <1>1, <1>4, <3>3 DEF Upto
      <4> QED BY <1>2, <1>7, <3>1, <3>2, <3>3, <4>1
    <3>4. CASE s \notin Reversing(h)
      BY <1>5, <3>1, <3>2, <3>4
    <3> QED BY <3>3, <3>4
  <2>2. Upto(h, k + 1) \subseteq Sources /\ Upto(h, k) \subseteq Sources
    BY DEF Upto
  <2> QED BY <1>3, <2>1, <2>2
<1>9. \A s \in Upto(h, k + 1) \ Upto(h, k) : g[s] = k + 1
  BY <1>1, <1>2 DEF Upto
<1>10. \A s \in Upto(h, 0) : g[s] = 0
  BY <1>1, <1>2 DEF Upto
<1> QED BY <1>1, <1>6, <1>8, <1>9, <1>10

\* What the reducer has emitted after k rounds is what has a round of at most k.
LEMMA EmittedIs ==
  ASSUME NEW h, LinksResolve(h), DOMAIN h = Sources
  PROVE  Emitted(h) = [k \in 0..Cardinality(Sources) |-> Upto(h, k)]
<1>1. PICK N \in Nat : N = Cardinality(Sources)
  BY FS_CardinalityType, HistoryAssumption
<1> DEFINE Fits(f) == f = [k \in 0..N |->
                             IF k = 0 THEN Sources \ Reversing(h)
                             ELSE f[k - 1] \cup {s \in Reversing(h) : Target(h, s) \in f[k - 1]}]
<1>2. PICK u : u = [k \in 0..N |-> Upto(h, k)]
  OBVIOUS
<1>3. u[0] = Sources \ Reversing(h)
  <2>1. 0 \in 0..N /\ 0 \in Nat
    OBVIOUS
  <2> QED BY <1>2, <2>1, UptoGrows
<1>4. ASSUME NEW k \in 1..N
      PROVE  k - 1 \in 0..N /\ u[k] = u[k - 1] \cup {s \in Reversing(h) : Target(h, s) \in u[k - 1]}
  <2>1. k - 1 \in Nat /\ k - 1 \in 0..N /\ (k - 1) + 1 = k /\ k \in 0..N
    OBVIOUS
  <2>2. Upto(h, k) = Upto(h, k - 1) \cup {s \in Reversing(h) : Target(h, s) \in Upto(h, k - 1)}
    BY <2>1, UptoGrows
  <2> QED BY <1>2, <2>1, <2>2
<1>5. Fits(u)
  <2>1. \A k \in 0..N : u[k] = IF k = 0 THEN Sources \ Reversing(h)
                               ELSE u[k - 1] \cup {s \in Reversing(h) : Target(h, s) \in u[k - 1]}
    <3>1. \A k \in 0..N : k # 0 => k \in 1..N
      OBVIOUS
    <3> QED BY <1>3, <1>4, <3>1
  <2> QED BY <1>2, <2>1
<1>6. Emitted(h) = CHOOSE f : Fits(f)
  BY <1>1, SourceLinksAre DEF Emitted
<1>7. PICK f : f = Emitted(h) /\ Fits(f)
  <2> HIDE DEF Fits
  <2> QED BY <1>5, <1>6
<1>8. /\ f[0] = Sources \ Reversing(h)
      /\ \A k \in 1..N : f[k] = f[k - 1] \cup {s \in Reversing(h) : Target(h, s) \in f[k - 1]}
      /\ f = [k \in 0..N |-> f[k]]
  BY <1>7
<1> HIDE DEF Fits
<1>9. \A k \in 0..N : f[k] = u[k]
  <2> DEFINE Differ == {k \in 0..N : f[k] # u[k]}
  <2> SUFFICES ASSUME Differ # {} PROVE FALSE
    OBVIOUS
  <2>1. PICK k \in Differ : \A j \in Differ : k <= j
    <3> HIDE DEF Differ
    <3>1. Differ \subseteq Nat
      BY DEF Differ
    <3> QED BY <3>1, NatLeast
  <2>2. k \in 1..N
    <3>1. k \in 0..N /\ f[k] # u[k]
      OBVIOUS
    <3>2. k # 0
      BY <1>3, <1>8, <3>1
    <3> QED BY <3>1, <3>2
  <2>3. k - 1 \in 0..N /\ ~(k <= k - 1)
    BY <2>2
  <2>4. f[k - 1] = u[k - 1]
    BY <2>1, <2>3
  <2>5. /\ f[k] = f[k - 1] \cup {s \in Reversing(h) : Target(h, s) \in f[k - 1]}
        /\ u[k] = u[k - 1] \cup {s \in Reversing(h) : Target(h, s) \in u[k - 1]}
    BY <1>4, <1>8, <2>2
  <2>6. f[k] = u[k]
    BY <2>4, <2>5
  <2> QED BY <2>6
<1>10. f = u
  BY <1>2, <1>8, <1>9
<1> QED BY <1>1, <1>2, <1>7, <1>10

\* The reducer's sources in the order of their events.
LEMMA JournalIs ==
  ASSUME NEW h, LinksResolve(h), DOMAIN h = Sources
  PROVE  SourceJournal(h) = Sorted(Sources, ByRound(h))
<1>1. PICK N \in Nat : N = Cardinality(Sources)
  BY FS_CardinalityType, HistoryAssumption
<1>2. PICK e : e = Emitted(h)
  OBVIOUS
<1>3. \A k \in 0..N : e[k] = Upto(h, k)
  BY <1>1, <1>2, EmittedIs
<1> DEFINE Fits(f) == f = [k \in 0..N |-> IF k = 0 THEN InOrder(e[0]) ELSE f[k - 1] \o InOrder(e[k] \ e[k - 1])]
<1>4. PICK u : u = [k \in 0..N |-> Sorted(Upto(h, k), ByRound(h))]
  OBVIOUS
<1>5. u[0] = InOrder(e[0])
  <2>1. 0 \in 0..N /\ 0 \in Nat /\ Upto(h, 0) \subseteq Sources
    BY DEF Upto
  <2>2. \A s \in Upto(h, 0) : Round(h)[s] = 0
    BY <2>1, UptoGrows
  <2>3. InOrder(Upto(h, 0)) = Sorted(Upto(h, 0), ByRound(h))
    BY <2>1, <2>2, RoundInOrder
  <2> QED BY <1>3, <1>4, <2>1, <2>3
<1>6. ASSUME NEW k \in 1..N
      PROVE  k - 1 \in 0..N /\ u[k] = u[k - 1] \o InOrder(e[k] \ e[k - 1])
  <2>1. k - 1 \in Nat /\ k - 1 \in 0..N /\ (k - 1) + 1 = k /\ k \in 0..N
    OBVIOUS
  <2>2. PICK A : A = Upto(h, k - 1)
    OBVIOUS
  <2>3. PICK B : B = Upto(h, k) \ Upto(h, k - 1)
    OBVIOUS
  <2>4. \A b \in B : Round(h)[b] = k
    BY <2>1, <2>3, UptoGrows
  <2>5. A \subseteq Sources /\ B \subseteq Sources /\ A \cap B = {} /\ Upto(h, k) = A \cup B
    <3>1. Upto(h, k - 1) \subseteq Upto(h, k)
      BY <2>1, UptoGrows
    <3> QED BY <2>2, <2>3, <3>1 DEF Upto
  <2>6. \A a \in A, b \in B : <<a, b>> \in ByRound(h)
    <3> SUFFICES ASSUME NEW a \in A, NEW b \in B PROVE <<a, b>> \in ByRound(h)
      OBVIOUS
    <3>1. Round(h)[a] <= k - 1 /\ Round(h)[b] = k /\ a \in Sources /\ b \in Sources
      BY <2>2, <2>4, <2>5 DEF Upto
    <3>2. Round(h)[a] \in Nat
      BY <3>1, RoundIs DEF Rounds
    <3>3. Round(h)[a] < Round(h)[b]
      BY <3>1, <3>2
    <3> QED BY <3>1, <3>3 DEF ByRound
  <2>7. PICK S : S = A \cup B /\ IsFiniteSet(S) /\ Orders(S, ByRound(h))
    BY <2>5, FS_Subset, HistoryAssumption, RoundOrders
  <2>8. Sorted(S, ByRound(h)) = Sorted(A, ByRound(h)) \o Sorted(B, ByRound(h))
    <3>1. Splits(S, ByRound(h), A, B)
      BY <2>5, <2>6, <2>7 DEF Splits
    <3> QED BY <3>1, SortedJoined
  <2>9. InOrder(B) = Sorted(B, ByRound(h))
    BY <2>4, <2>5, RoundInOrder
  <2>10. e[k] \ e[k - 1] = B
    BY <1>3, <2>1, <2>3
  <2>11. u[k] = Sorted(S, ByRound(h)) /\ u[k - 1] = Sorted(A, ByRound(h))
    BY <1>4, <2>1, <2>2, <2>5, <2>7
  <2> QED BY <2>1, <2>8, <2>9, <2>10, <2>11
<1>7. Fits(u)
  <2>1. \A k \in 0..N : u[k] = IF k = 0 THEN InOrder(e[0]) ELSE u[k - 1] \o InOrder(e[k] \ e[k - 1])
    <3>1. \A k \in 0..N : k # 0 => k \in 1..N
      OBVIOUS
    <3> QED BY <1>5, <1>6, <3>1
  <2> QED BY <1>4, <2>1
<1>8. SourceJournal(h) = (CHOOSE f : Fits(f))[N]
  BY <1>1, <1>2 DEF SourceJournal
<1>9. PICK f : f = (CHOOSE g : Fits(g)) /\ Fits(f)
  <2> HIDE DEF Fits
  <2> QED BY <1>7
<1>10. /\ f[0] = InOrder(e[0])
       /\ \A k \in 1..N : f[k] = f[k - 1] \o InOrder(e[k] \ e[k - 1])
  <2>1. f = [k \in 0..N |-> IF k = 0 THEN InOrder(e[0]) ELSE f[k - 1] \o InOrder(e[k] \ e[k - 1])]
    BY <1>9
  <2>2. 0 \in 0..N /\ \A k \in 1..N : k \in 0..N /\ k # 0
    OBVIOUS
  <2> QED BY <2>1, <2>2
<1> HIDE DEF Fits
<1>11. \A k \in 0..N : f[k] = u[k]
  <2> DEFINE Differ == {k \in 0..N : f[k] # u[k]}
  <2> SUFFICES ASSUME Differ # {} PROVE FALSE
    OBVIOUS
  <2>1. PICK k \in Differ : \A j \in Differ : k <= j
    <3> HIDE DEF Differ
    <3>1. Differ \subseteq Nat
      BY DEF Differ
    <3> QED BY <3>1, NatLeast
  <2>2. k \in 1..N
    BY <1>5, <1>10
  <2>3. k - 1 \in 0..N /\ ~(k <= k - 1)
    BY <2>2
  <2>4. f[k - 1] = u[k - 1]
    BY <2>1, <2>3
  <2>5. f[k] = u[k]
    BY <1>6, <1>10, <2>2, <2>4
  <2> QED BY <2>5
<1>12. Upto(h, N) = Sources
  <2>1. \A s \in Sources : Round(h)[s] <= N
    BY <1>1, RoundsAreFew
  <2> QED BY <2>1 DEF Upto
<1>13. N \in 0..N
  OBVIOUS
<1> QED BY <1>4, <1>8, <1>9, <1>11, <1>12, <1>13

\* The planner posts what reverses nothing and then goes round by round.
LEMMA PlannersOrder ==
  ASSUME NEW h, LinksResolve(h)
  PROVE  Sorted(Sources, ByRound(h)) =
           InOrder(Sources \ Reversing(h)) \o Sorted(Reversing(h), ByRound(h))
<1>1. PICK A : A = Sources \ Reversing(h)
  OBVIOUS
<1>2. Reversing(h) \subseteq Sources
  BY LinksAre
<1>3. PICK g : g = Round(h) /\ Rounds(g, Sources, h)
  BY RoundIs
<1>4. /\ \A a \in A : g[a] = 0
      /\ \A b \in Reversing(h) : g[b] \in Nat /\ g[b] # 0
  <2>1. \A a \in A : g[a] = 0
    BY <1>1, <1>3 DEF Rounds
  <2>2. \A b \in Reversing(h) : Target(h, b) \in Sources /\ g[b] = 1 + g[Target(h, b)]
    BY <1>2, <1>3 DEF Rounds
  <2>3. \A b \in Sources : g[b] \in Nat
    BY <1>3 DEF Rounds
  <2> QED BY <1>2, <2>1, <2>2, <2>3
<1>5. \A a \in A, b \in Reversing(h) : <<a, b>> \in ByRound(h)
  <2> SUFFICES ASSUME NEW a \in A, NEW b \in Reversing(h) PROVE <<a, b>> \in ByRound(h)
    OBVIOUS
  <2>1. g[a] < g[b]
    BY <1>4
  <2> QED BY <1>1, <1>2, <1>3, <2>1 DEF ByRound
<1>6. PICK S, B : S = Sources /\ B = Reversing(h) /\ S = A \cup B /\ A \cap B = {}
  BY <1>1, <1>2
<1>7. IsFiniteSet(S) /\ Orders(S, ByRound(h)) /\ \A a \in A, b \in B : <<a, b>> \in ByRound(h)
  BY <1>5, <1>6, HistoryAssumption, RoundOrders
<1>8. Sorted(S, ByRound(h)) = Sorted(A, ByRound(h)) \o Sorted(B, ByRound(h))
  <2>1. Splits(S, ByRound(h), A, B)
    BY <1>6, <1>7 DEF Splits
  <2> QED BY <2>1, SortedJoined
<1>9. InOrder(A) = Sorted(A, ByRound(h))
  <2>1. \A s, t \in A : Round(h)[s] = Round(h)[t]
    BY <1>3, <1>4
  <2> QED BY <1>1, <2>1, RoundInOrder
<1> QED BY <1>1, <1>6, <1>8, <1>9

\* A source's own event.
EventOf(h, r, s) == IF s \in Reversing(h) THEN ReversedBy(h, r, s) ELSE Posted(h, r, s)

JournalPart(h, r) == LET q == SourceJournal(h) IN [i \in DOMAIN q |-> EventOf(h, r, q[i])]

\* Sequences of the same length with the same members.
LEMMA SameSeqs ==
  ASSUME NEW s, NEW t, IsSeq(s), IsSeq(t), Len(s) = Len(t), \A i \in 1..Len(s) : s[i] = t[i]
  PROVE  s = t
BY SeqFacts

\* What the planner posts and reverses is what the reducer journals.
LEMMA JournalPartIs ==
  ASSUME NEW h, NEW r, LinksResolve(h), DOMAIN h = Sources
  PROVE  PostedPart(h, r) \o ReversedPart(h, r) = JournalPart(h, r) /\ IsSeq(JournalPart(h, r))
<1>1. PICK a, b, q : /\ a = InOrder(Sources \ Reversing(h))
                     /\ b = Sorted(Reversing(h), ByRound(h))
                     /\ q = SourceJournal(h)
  OBVIOUS
<1>2. q = a \o b
  BY <1>1, JournalIs, PlannersOrder
<1>3. Reversing(h) \subseteq Sources /\ IsFiniteSet(Sources \ Reversing(h)) /\ IsFiniteSet(Reversing(h))
  BY LinksAre, HistoryAssumption, FS_Subset
<1>4. /\ Enumerates(a, Sources \ Reversing(h)) /\ Enumerates(b, Reversing(h))
  BY <1>1, <1>3, SortedLists, TimeOrders, RoundOrders DEF InOrder
<1>5. /\ IsSeq(a) /\ IsSeq(b) /\ Len(a) \in Nat /\ Len(b) \in Nat
      /\ DOMAIN a = 1..Len(a) /\ DOMAIN b = 1..Len(b)
      /\ \A i \in 1..Len(a) : a[i] \notin Reversing(h)
      /\ \A i \in 1..Len(b) : b[i] \in Reversing(h)
  BY <1>4, SeqFacts DEF Enumerates
<1>6. /\ IsSeq(q) /\ Len(q) = Len(a) + Len(b) /\ DOMAIN q = 1..Len(q)
      /\ \A i \in 1..Len(a) : q[i] = a[i]
      /\ \A i \in 1..Len(b) : q[Len(a) + i] = b[i]
  BY <1>2, <1>5, SeqJoined, SeqFacts
<1>7. PICK A, B, Q : A = PostedPart(h, r) /\ B = ReversedPart(h, r) /\ Q = JournalPart(h, r)
  OBVIOUS
<1>8. /\ A = [i \in DOMAIN a |-> Posted(h, r, a[i])]
      /\ B = [i \in DOMAIN b |-> ReversedBy(h, r, b[i])]
      /\ Q = [i \in DOMAIN q |-> EventOf(h, r, q[i])]
  BY <1>1, <1>7 DEF PostedPart, ReversedPart, JournalPart
<1>9. /\ IsSeq(A) /\ Len(A) = Len(a) /\ IsSeq(B) /\ Len(B) = Len(b) /\ IsSeq(Q) /\ Len(Q) = Len(q)
  BY <1>5, <1>6, <1>8, SeqMapped
<1>10. PICK W : W = A \o B
  OBVIOUS
<1>11. /\ IsSeq(W) /\ Len(W) = Len(a) + Len(b)
       /\ \A i \in 1..Len(a) : W[i] = A[i]
       /\ \A i \in 1..Len(b) : W[Len(a) + i] = B[i]
  <2>1. /\ IsSeq(W) /\ Len(W) = Len(A) + Len(B)
        /\ \A i \in 1..Len(A) : W[i] = A[i]
        /\ \A i \in 1..Len(B) : W[Len(A) + i] = B[i]
    <3>1. IsSeq(A) /\ IsSeq(B)
      BY <1>9
    <3> QED BY <1>10, <3>1, SeqJoined
  <2>2. Len(A) = Len(a) /\ Len(B) = Len(b)
    BY <1>9
  <2> QED BY <2>1, <2>2
<1>12. ASSUME NEW i \in 1..Len(W) PROVE W[i] = Q[i]
  <2>1. i \in DOMAIN q /\ Q[i] = EventOf(h, r, q[i])
    BY <1>6, <1>8, <1>11
  <2>2. CASE i \in 1..Len(a)
    <3>1. W[i] = Posted(h, r, a[i]) /\ q[i] = a[i] /\ a[i] \notin Reversing(h)
      BY <1>5, <1>6, <1>8, <1>11, <2>2
    <3> QED BY <2>1, <3>1 DEF EventOf
  <2>3. CASE i \notin 1..Len(a)
    <3>1. PICK j \in 1..Len(b) : i = Len(a) + j
      <4>1. i - Len(a) \in 1..Len(b) /\ i = Len(a) + (i - Len(a))
        BY <1>5, <1>11, <2>3
      <4> QED BY <4>1
    <3>2. W[i] = ReversedBy(h, r, b[j]) /\ q[i] = b[j] /\ b[j] \in Reversing(h)
      BY <1>5, <1>6, <1>8, <1>11, <3>1
    <3> QED BY <2>1, <3>2 DEF EventOf
  <2> QED BY <2>2, <2>3
<1>13. IsSeq(W) /\ IsSeq(Q) /\ Len(W) = Len(Q)
  BY <1>6, <1>9, <1>11
<1>14. W = Q
  BY <1>12, <1>13, SameSeqs
<1> QED BY <1>7, <1>10, <1>13, <1>14

\* The planner's events are the reducer's.
LEMMA EventsAgree ==
  ASSUME NEW h, NEW r, ReviewAccepted(h, r), IsHistory(h), IsReview(h, r)
  PROVE  /\ Events(h, r) = (JournalPart(h, r) \o CorrectedPart(h, r)) \o AssignedPart(h)
         /\ SourceEvents(h, r) = Events(h, r)
<1>1. LinksResolve(h) /\ DOMAIN h = Sources
  BY DEF ReviewAccepted, IsHistory
<1>2. Events(h, r) = (JournalPart(h, r) \o CorrectedPart(h, r)) \o AssignedPart(h)
  BY <1>1, EventsAre, JournalPartIs
<1>3. PICK q : q = SourceJournal(h)
  OBVIOUS
<1>4. \A i \in DOMAIN q : q[i] \in Sources
  <2>1. Enumerates(q, Sources)
    BY <1>1, <1>3, JournalIs, SortedLists, RoundOrders, HistoryAssumption
  <2> QED BY <2>1, SeqFacts DEF Enumerates
<1>5. ASSUME NEW s \in Sources
      PROVE  SourceEvent(IF s \in SourceReversals(h) THEN "reversed" ELSE "posted", Txn(s),
                         IF s \in SourceReversals(h) THEN Txn(SourceOriginal(h, s)) ELSE NoTxn,
                         s, SourcePostings(h, r, s), NoLine) = EventOf(h, r, s)
  <2>1. SourcePostings(h, r, s) = Mapped(h, r, s)
    BY MappedAre
  <2>2. SourceReversals(h) = Reversing(h) /\ SourceOriginal(h, s) = Target(h, s)
    BY <1>1, SourceLinksAre
  <2> QED BY <2>1, <2>2 DEF SourceEvent, EventOf, ReversedBy, Posted
<1>6. PICK J : J = [i \in DOMAIN q |->
                      SourceEvent(IF q[i] \in SourceReversals(h) THEN "reversed" ELSE "posted", Txn(q[i]),
                         IF q[i] \in SourceReversals(h) THEN Txn(SourceOriginal(h, q[i])) ELSE NoTxn,
                         q[i], SourcePostings(h, r, q[i]), NoLine)]
  OBVIOUS
<1>7. J = JournalPart(h, r)
  <2>1. \A i \in DOMAIN q : J[i] = EventOf(h, r, q[i])
    BY <1>4, <1>5, <1>6
  <2> QED BY <1>3, <1>6, <2>1 DEF JournalPart
<1>8. SourceCorrections(h, r) = CorrectedPart(h, r)
  <2>1. PICK c : c = InOrder(Corrected(r))
    OBVIOUS
  <2>2. \A i \in DOMAIN c : c[i] \in Sources
    <3>1. Corrected(r) \subseteq Sources /\ IsFiniteSet(Corrected(r))
      BY SourceSets
    <3>2. Enumerates(c, Corrected(r))
      BY <2>1, <3>1, SortedLists, TimeOrders DEF InOrder
    <3> QED BY <3>1, <3>2, SeqFacts DEF Enumerates
  <2>3. ASSUME NEW s \in Sources
        PROVE  SourceEvent("reversed", Correction(s), Txn(s), s, SourceCorrection(h, r, s), NoLine)
                 = Neutralised(h, r, s)
    <3>1. SourcePostings(h, r, s) = Mapped(h, r, s) /\ DOMAIN Mapped(h, r, s) = DOMAIN h[s].postings
      BY MappedAre
    <3>2. SourceCorrection(h, r, s) = InversePostings(Mapped(h, r, s))
      BY <3>1 DEF SourceCorrection, InversePostings
    <3> QED BY <3>2 DEF SourceEvent, Neutralised
  <2>4. SourceCorrections(h, r) = [i \in DOMAIN c |->
           SourceEvent("reversed", Correction(c[i]), Txn(c[i]), c[i], SourceCorrection(h, r, c[i]), NoLine)]
    BY <2>1 DEF SourceCorrections
  <2>5. CorrectedPart(h, r) = [i \in DOMAIN c |-> Neutralised(h, r, c[i])]
    BY <2>1 DEF CorrectedPart
  <2> QED BY <2>2, <2>3, <2>4, <2>5
<1>9. SourceAssignments(h) = AssignedPart(h)
  <2>1. PICK l : l = SourceLines(h)
    OBVIOUS
  <2>2. DOMAIN l = Categorised(h)
    BY <2>1 DEF SourceLines, Categorised
  <2>3. \A s \in Categorised(h) : l[s] = [category |-> h[s].category, units |-> h[s].lineUnits]
    BY <2>1 DEF SourceLines, Categorised
  <2>4. PICK c : c = InOrder(Categorised(h))
    OBVIOUS
  <2>5. \A i \in DOMAIN c : c[i] \in Categorised(h)
    <3>1. Categorised(h) \subseteq Sources /\ IsFiniteSet(Categorised(h))
      BY SourceSets
    <3>2. Enumerates(c, Categorised(h))
      BY <2>4, <3>1, SortedLists, TimeOrders DEF InOrder
    <3> QED BY <3>2, SeqFacts DEF Enumerates
  <2>6. SourceAssignments(h) = [i \in DOMAIN c |->
            SourceEvent("assigned", Txn(c[i]), Txn(c[i]), c[i], <<>>, l[c[i]])]
    BY <2>1, <2>2, <2>4 DEF SourceAssignments
  <2>7. AssignedPart(h) = [i \in DOMAIN c |-> Assigned(h, c[i])]
    BY <2>4 DEF AssignedPart
  <2>8. \A i \in DOMAIN c : SourceEvent("assigned", Txn(c[i]), Txn(c[i]), c[i], <<>>, l[c[i]]) = Assigned(h, c[i])
    BY <2>3, <2>5 DEF SourceEvent, Assigned
  <2> QED BY <2>6, <2>7, <2>8
<1>10. SourceEvents(h, r) = (J \o SourceCorrections(h, r)) \o SourceAssignments(h)
  BY <1>3, <1>6 DEF SourceEvents
<1> QED BY <1>2, <1>7, <1>8, <1>9, <1>10

\* The events, one after another: J, C and L list the sources of the journal, of the
\* corrections and of the lines.
Layout(h, r, E, J, C, L) ==
    /\ Enumerates(J, Sources) /\ Enumerates(C, Corrected(r)) /\ Enumerates(L, Categorised(h))
    /\ Len(J) \in Nat /\ Len(C) \in Nat /\ Len(L) \in Nat
    /\ IsSeq(E) /\ Len(E) = Len(J) + Len(C) + Len(L) /\ DOMAIN E = 1..Len(E)
    /\ \A i \in 1..Len(J) : E[i] = EventOf(h, r, J[i])
    /\ \A i \in 1..Len(C) : E[Len(J) + i] = Neutralised(h, r, C[i])
    /\ \A i \in 1..Len(L) : E[Len(J) + Len(C) + i] = Assigned(h, L[i])
    /\ \A i, j \in 1..Len(J) : J[i] \in Reversing(h) /\ J[j] \notin Reversing(h) => j < i
    /\ \A s \in Reversing(h) : \E i, j \in 1..Len(J) : i < j /\ J[i] = Target(h, s) /\ J[j] = s

\* The events of an accepted review are laid out so.
LEMMA LayoutIs ==
  ASSUME NEW h, NEW r, ReviewAccepted(h, r), IsHistory(h), IsReview(h, r)
  PROVE  \E J, C, L : Layout(h, r, Events(h, r), J, C, L)
<1>1. PICK J, C, L, E : /\ J = SourceJournal(h) /\ C = InOrder(Corrected(r))
                        /\ L = InOrder(Categorised(h)) /\ E = Events(h, r)
  OBVIOUS
<1>2. LinksResolve(h) /\ DOMAIN h = Sources /\ IsFiniteSet(Sources)
  BY HistoryAssumption DEF ReviewAccepted, IsHistory
<1>3. /\ Corrected(r) \subseteq Sources /\ Categorised(h) \subseteq Sources /\ Reversing(h) \subseteq Sources
      /\ IsFiniteSet(Corrected(r)) /\ IsFiniteSet(Categorised(h))
  BY SourceSets
<1>4. J = Sorted(Sources, ByRound(h)) /\ Orders(Sources, ByRound(h))
  BY <1>1, <1>2, JournalIs, RoundOrders
<1>5. Enumerates(J, Sources) /\ \A i \in 1..Len(J) : Place(Sources, ByRound(h), J[i]) = i
  BY <1>2, <1>4, SortedLists
<1>6. Enumerates(C, Corrected(r)) /\ Enumerates(L, Categorised(h))
  BY <1>1, <1>3, SortedLists, TimeOrders DEF InOrder
<1>7. /\ IsSeq(J) /\ IsSeq(C) /\ IsSeq(L) /\ Len(J) \in Nat /\ Len(C) \in Nat /\ Len(L) \in Nat
      /\ DOMAIN J = 1..Len(J) /\ DOMAIN C = 1..Len(C) /\ DOMAIN L = 1..Len(L)
  BY <1>5, <1>6, SeqFacts DEF Enumerates
<1>8. PICK jp, cp, ap : jp = JournalPart(h, r) /\ cp = CorrectedPart(h, r) /\ ap = AssignedPart(h)
  OBVIOUS
<1>9. /\ jp = [i \in DOMAIN J |-> EventOf(h, r, J[i])]
      /\ cp = [i \in DOMAIN C |-> Neutralised(h, r, C[i])]
      /\ ap = [i \in DOMAIN L |-> Assigned(h, L[i])]
  BY <1>1, <1>8 DEF JournalPart, CorrectedPart, AssignedPart
<1>10. /\ IsSeq(jp) /\ Len(jp) = Len(J) /\ IsSeq(cp) /\ Len(cp) = Len(C) /\ IsSeq(ap) /\ Len(ap) = Len(L)
  BY <1>7, <1>9, SeqMapped
<1>11. PICK jc : jc = jp \o cp
  OBVIOUS
<1>12. E = jc \o ap
  BY <1>1, <1>8, <1>11, EventsAgree
<1>13. /\ IsSeq(jc) /\ Len(jc) = Len(J) + Len(C)
       /\ \A i \in 1..Len(J) : jc[i] = jp[i]
       /\ \A i \in 1..Len(C) : jc[Len(J) + i] = cp[i]
  <2>1. /\ IsSeq(jc) /\ Len(jc) = Len(jp) + Len(cp)
        /\ \A i \in 1..Len(jp) : jc[i] = jp[i]
        /\ \A i \in 1..Len(cp) : jc[Len(jp) + i] = cp[i]
    <3>1. IsSeq(jp) /\ IsSeq(cp)
      BY <1>10
    <3> QED BY <1>11, <3>1, SeqJoined
  <2>2. Len(jp) = Len(J) /\ Len(cp) = Len(C)
    BY <1>10
  <2> QED BY <2>1, <2>2
<1>14. /\ IsSeq(E) /\ Len(E) = Len(jc) + Len(L)
       /\ \A i \in 1..Len(jc) : E[i] = jc[i]
       /\ \A i \in 1..Len(L) : E[Len(jc) + i] = ap[i]
  <2>1. /\ IsSeq(E) /\ Len(E) = Len(jc) + Len(ap)
        /\ \A i \in 1..Len(jc) : E[i] = jc[i]
        /\ \A i \in 1..Len(ap) : E[Len(jc) + i] = ap[i]
    <3>1. IsSeq(jc) /\ IsSeq(ap)
      BY <1>10, <1>13
    <3> QED BY <1>12, <3>1, SeqJoined
  <2>2. Len(ap) = Len(L)
    BY <1>10
  <2> QED BY <2>1, <2>2
<1>15. DOMAIN E = 1..Len(E) /\ Len(E) = Len(J) + Len(C) + Len(L)
  BY <1>13, <1>14, SeqFacts
<1>16. ASSUME NEW i \in 1..Len(J) PROVE E[i] = EventOf(h, r, J[i])
  <2>1. i \in 1..Len(jc)
    BY <1>7, <1>13
  <2> QED BY <1>7, <1>9, <1>13, <1>14, <2>1
<1>17. ASSUME NEW i \in 1..Len(C) PROVE E[Len(J) + i] = Neutralised(h, r, C[i])
  <2>1. Len(J) + i \in 1..Len(jc)
    BY <1>7, <1>13
  <2> QED BY <1>7, <1>9, <1>13, <1>14, <2>1
<1>18. ASSUME NEW i \in 1..Len(L) PROVE E[Len(J) + Len(C) + i] = Assigned(h, L[i])
  BY <1>7, <1>9, <1>13, <1>14
<1>19. PICK g : g = Round(h) /\ Rounds(g, Sources, h)
  BY <1>2, RoundIs
<1>20. \A s \in Sources : g[s] \in Nat
  BY <1>19 DEF Rounds
<1>21. ASSUME NEW s \in Sources, NEW t \in Sources, g[s] < g[t]
       PROVE  Place(Sources, ByRound(h), s) < Place(Sources, ByRound(h), t)
  <2>1. <<s, t>> \in ByRound(h)
    BY <1>19, <1>21 DEF ByRound
  <2> QED BY <1>2, <1>4, <2>1, PlacesGrow
<1>22. ASSUME NEW i \in 1..Len(J), NEW j \in 1..Len(J), J[i] \in Reversing(h), J[j] \notin Reversing(h)
       PROVE  j < i
  <2>1. J[i] \in Sources /\ J[j] \in Sources
    BY <1>5 DEF Enumerates
  <2>2. g[J[j]] = 0 /\ g[J[i]] = 1 + g[Target(h, J[i])] /\ Target(h, J[i]) \in Sources
    BY <1>19, <1>22, <2>1 DEF Rounds
  <2>3. g[J[j]] < g[J[i]]
    BY <1>20, <2>1, <2>2
  <2> QED BY <1>5, <1>21, <2>1, <2>3
<1>23. ASSUME NEW s \in Reversing(h)
       PROVE  \E i, j \in 1..Len(J) : i < j /\ J[i] = Target(h, s) /\ J[j] = s
  <2>1. s \in Sources /\ Target(h, s) \in Sources /\ g[s] = 1 + g[Target(h, s)]
    BY <1>3, <1>19 DEF Rounds
  <2>2. g[Target(h, s)] < g[s]
    BY <1>20, <2>1
  <2>3. PICK i \in 1..Len(J), j \in 1..Len(J) : J[i] = Target(h, s) /\ J[j] = s
    BY <1>5, <2>1 DEF Enumerates
  <2> QED BY <1>5, <1>21, <2>1, <2>2, <2>3
<1>24. Layout(h, r, E, J, C, L)
  BY <1>5, <1>6, <1>7, <1>14, <1>15, <1>16, <1>17, <1>18, <1>22, <1>23 DEF Layout
<1> QED BY <1>1, <1>24


-----------------------------------------------------------------------------
(* The sums of the model are those of SetSums *)

NetColumn(ps, a) == [i \in DOMAIN ps |-> IF ps[i].account = a THEN Signed(ps[i]) ELSE 0]
SignedColumn(ps) == [i \in DOMAIN ps |-> Signed(ps[i])]
DebitColumn(ps) == [i \in DOMAIN ps |-> IF ps[i].side = "debit" THEN ps[i].units ELSE 0]
EventColumn(events, a) == [n \in DOMAIN events |-> Net(events[n].postings, a)]
SourceColumn(h, r, a) == [s \in Sources |-> Net(SourcePostings(h, r, s), a)]
CorrectionColumn(h, r, a) == [s \in Corrected(r) |-> Net(SourceCorrection(h, r, s), a)]
MappedColumn(h, r, a) == [s \in Sources |-> Net(Mapped(h, r, s), a)]

\* What a transaction moves on an account.
LEMMA NetIsTotal ==
  ASSUME NEW ps, NEW a
  PROVE  Net(ps, a) = Total(NetColumn(ps, a), DOMAIN ps)
<1>1. PICK F : F = NetColumn(ps, a)
  OBVIOUS
<1> DEFINE Folds(k) == k = [s \in SUBSET DOMAIN ps |->
                              IF s = {} THEN 0
                              ELSE (IF ps[(CHOOSE x \in s : TRUE)].account = a THEN Signed(ps[(CHOOSE x \in s : TRUE)]) ELSE 0) + k[s \ {CHOOSE x \in s : TRUE}]]
<1>2. ASSUME NEW s \in SUBSET DOMAIN ps, s # {}
      PROVE  F[First(s)] = (IF ps[First(s)].account = a THEN Signed(ps[First(s)]) ELSE 0)
  BY <1>1, <1>2, OthersAreFewer DEF NetColumn
<1>3. ASSUME NEW k PROVE Folds(k) <=> Tallies(k, F, DOMAIN ps)
  BY <1>2 DEF Tallies, First, Others
<1>4. Net(ps, a) = (CHOOSE k : Folds(k))[DOMAIN ps]
  BY DEF Net, MapThenSumSet, MapThenFoldSet
<1> HIDE DEF Folds
<1>5. (CHOOSE k : Folds(k)) = CHOOSE g : Tallies(g, F, DOMAIN ps)
  BY <1>3, Zenon
<1> QED BY <1>1, <1>4, <1>5 DEF Total

\* A transaction balances when its signed units sum to zero.
LEMMA BalancedIsTotal ==
  ASSUME NEW ps
  PROVE  Balanced(ps) <=> Total(SignedColumn(ps), DOMAIN ps) = 0
<1>1. PICK F : F = SignedColumn(ps)
  OBVIOUS
<1> DEFINE Folds(k) == k = [s \in SUBSET DOMAIN ps |->
                              IF s = {} THEN 0
                              ELSE Signed(ps[CHOOSE x \in s : TRUE]) + k[s \ {CHOOSE x \in s : TRUE}]]
<1>2. ASSUME NEW s \in SUBSET DOMAIN ps, s # {}
      PROVE  F[First(s)] = Signed(ps[First(s)])
  BY <1>1, <1>2, OthersAreFewer DEF SignedColumn
<1>3. ASSUME NEW k PROVE Folds(k) <=> Tallies(k, F, DOMAIN ps)
  BY <1>2 DEF Tallies, First, Others
<1>4. Balanced(ps) <=> (CHOOSE k : Folds(k))[DOMAIN ps] = 0
  BY DEF Balanced, MapThenSumSet, MapThenFoldSet
<1> HIDE DEF Folds
<1>5. (CHOOSE k : Folds(k)) = CHOOSE g : Tallies(g, F, DOMAIN ps)
  BY <1>3, Zenon
<1> QED BY <1>1, <1>4, <1>5 DEF Total

\* The debits of a transaction.
LEMMA DebitsIsTotal ==
  ASSUME NEW ps
  PROVE  Debits(ps) = Total(DebitColumn(ps), DOMAIN ps)
<1>1. PICK F : F = DebitColumn(ps)
  OBVIOUS
<1> DEFINE Folds(k) == k = [s \in SUBSET DOMAIN ps |->
                              IF s = {} THEN 0
                              ELSE (IF ps[(CHOOSE x \in s : TRUE)].side = "debit" THEN ps[(CHOOSE x \in s : TRUE)].units ELSE 0) + k[s \ {CHOOSE x \in s : TRUE}]]
<1>2. ASSUME NEW s \in SUBSET DOMAIN ps, s # {}
      PROVE  F[First(s)] = (IF ps[First(s)].side = "debit" THEN ps[First(s)].units ELSE 0)
  BY <1>1, <1>2, OthersAreFewer DEF DebitColumn
<1>3. ASSUME NEW k PROVE Folds(k) <=> Tallies(k, F, DOMAIN ps)
  BY <1>2 DEF Tallies, First, Others
<1>4. Debits(ps) = (CHOOSE k : Folds(k))[DOMAIN ps]
  BY DEF Debits, MapThenSumSet, MapThenFoldSet
<1> HIDE DEF Folds
<1>5. (CHOOSE k : Folds(k)) = CHOOSE g : Tallies(g, F, DOMAIN ps)
  BY <1>3, Zenon
<1> QED BY <1>1, <1>4, <1>5 DEF Total

\* The balance that a plan leaves.
LEMMA EventBalanceIsTotal ==
  ASSUME NEW events, NEW a
  PROVE  EventBalance(events, a) = Total(EventColumn(events, a), DOMAIN events)
<1>1. PICK F : F = EventColumn(events, a)
  OBVIOUS
<1> DEFINE Folds(k) == k = [s \in SUBSET DOMAIN events |->
                              IF s = {} THEN 0
                              ELSE Net(events[(CHOOSE x \in s : TRUE)].postings, a) + k[s \ {CHOOSE x \in s : TRUE}]]
<1>2. ASSUME NEW s \in SUBSET DOMAIN events, s # {}
      PROVE  F[First(s)] = Net(events[First(s)].postings, a)
  BY <1>1, <1>2, OthersAreFewer DEF EventColumn
<1>3. ASSUME NEW k PROVE Folds(k) <=> Tallies(k, F, DOMAIN events)
  BY <1>2 DEF Tallies, First, Others
<1>4. EventBalance(events, a) = (CHOOSE k : Folds(k))[DOMAIN events]
  BY DEF EventBalance, MapThenSumSet, MapThenFoldSet
<1> HIDE DEF Folds
<1>5. (CHOOSE k : Folds(k)) = CHOOSE g : Tallies(g, F, DOMAIN events)
  BY <1>3, Zenon
<1> QED BY <1>1, <1>4, <1>5 DEF Total

\* The sum of a source's or of a correction's postings on an account.
LEMMA SourceBalanceIsTotal ==
  ASSUME NEW h, NEW r, NEW a
  PROVE  SourceBalance(h, r, a) = Total(SourceColumn(h, r, a), Sources)
                                    + Total(CorrectionColumn(h, r, a), Corrected(r))
<1>1. PICK F, G : F = SourceColumn(h, r, a) /\ G = CorrectionColumn(h, r, a)
  OBVIOUS
<1> DEFINE Folds(k) == k = [s \in SUBSET Sources |->
                              IF s = {} THEN 0
                              ELSE Net(SourcePostings(h, r, CHOOSE x \in s : TRUE), a)
                                     + k[s \ {CHOOSE x \in s : TRUE}]]
           Undoes(k) == k = [s \in SUBSET Corrected(r) |->
                              IF s = {} THEN 0
                              ELSE Net(SourceCorrection(h, r, CHOOSE x \in s : TRUE), a)
                                     + k[s \ {CHOOSE x \in s : TRUE}]]
<1>2. ASSUME NEW s \in SUBSET Sources, s # {}
      PROVE  F[First(s)] = Net(SourcePostings(h, r, First(s)), a)
  BY <1>1, <1>2, OthersAreFewer DEF SourceColumn
<1>3. ASSUME NEW s \in SUBSET Corrected(r), s # {}
      PROVE  G[First(s)] = Net(SourceCorrection(h, r, First(s)), a)
  BY <1>1, <1>3, OthersAreFewer DEF CorrectionColumn
<1>4. ASSUME NEW k PROVE Folds(k) <=> Tallies(k, F, Sources)
  BY <1>2 DEF Tallies, First, Others
<1>5. ASSUME NEW k PROVE Undoes(k) <=> Tallies(k, G, Corrected(r))
  BY <1>3 DEF Tallies, First, Others
<1>6. SourceBalance(h, r, a) = (CHOOSE k : Folds(k))[Sources] + (CHOOSE k : Undoes(k))[Corrected(r)]
  BY DEF SourceBalance, MapThenSumSet, MapThenFoldSet
<1> HIDE DEF Folds, Undoes
<1>7. (CHOOSE k : Folds(k)) = CHOOSE g : Tallies(g, F, Sources)
  BY <1>4, Zenon
<1>8. (CHOOSE k : Undoes(k)) = CHOOSE g : Tallies(g, G, Corrected(r))
  BY <1>5, Zenon
<1> QED BY <1>1, <1>6, <1>7, <1>8 DEF Total

\* The balance that a review expects.
LEMMA ExpectedIsTotal ==
  ASSUME NEW h, NEW r, NEW a
  PROVE  ExpectedNatural(h, r, a) = -Total(MappedColumn(h, r, a), Scope(h) \ Corrected(r))
<1>1. PICK F, S : F = MappedColumn(h, r, a) /\ S = Scope(h) \ Corrected(r) /\ S \subseteq Sources
  BY DEF Scope
<1> DEFINE Folds(k) == k = [s \in SUBSET S |->
                              IF s = {} THEN 0
                              ELSE Net(Mapped(h, r, CHOOSE x \in s : TRUE), a)
                                     + k[s \ {CHOOSE x \in s : TRUE}]]
<1>2. ASSUME NEW s \in SUBSET S, s # {}
      PROVE  F[First(s)] = Net(Mapped(h, r, First(s)), a)
  BY <1>1, <1>2, OthersAreFewer DEF MappedColumn
<1>3. ASSUME NEW k PROVE Folds(k) <=> Tallies(k, F, S)
  BY <1>2 DEF Tallies, First, Others
<1>4. ExpectedNatural(h, r, a) = -((CHOOSE k : Folds(k))[S])
  BY <1>1 DEF ExpectedNatural, MapThenSumSet, MapThenFoldSet
<1> HIDE DEF Folds
<1>5. (CHOOSE k : Folds(k)) = CHOOSE g : Tallies(g, F, S)
  BY <1>3, Zenon
<1> QED BY <1>1, <1>4, <1>5 DEF Total

\* What adds nothing can be left out.
LEMMA TotalPadded ==
  ASSUME NEW F, NEW G, NEW U, NEW S \in SUBSET U, Summable(G, U), Summable(F, S),
         \A x \in S : G[x] = F[x], \A x \in U \ S : G[x] = 0
  PROVE  Total(G, U) = Total(F, S)
<1> DEFINE Wrong == {W \in SUBSET U : S \subseteq W /\ Total(G, W) # Total(F, S)}
<1>1. Total(G, S) = Total(F, S)
  BY TotalAgrees
<1> SUFFICES ASSUME Wrong # {} PROVE FALSE
  OBVIOUS
<1>2. PICK W \in Wrong : \A V \in Wrong : V \subseteq W => V = W
  <2> HIDE DEF Wrong
  <2>1. Wrong \subseteq SUBSET U /\ IsFiniteSet(U)
    BY DEF Wrong, Summable
  <2> QED BY <2>1, SmallestSubset
<1>3. W \in SUBSET U /\ S \subseteq W /\ Total(G, W) # Total(F, S)
  OBVIOUS
<1>4. PICK x \in W : x \notin S
  <2>1. W # S
    BY <1>1, <1>3
  <2> QED BY <1>3, <2>1
<1>5. W \ {x} \notin Wrong
  BY <1>2, <1>4
<1>6. Total(G, W \ {x}) = Total(F, S)
  BY <1>3, <1>4, <1>5
<1>7. Summable(G, W) /\ G[x] = 0
  BY <1>3, <1>4, SummablePart
<1>8. Summable(G, W \ {x}) /\ Total(G, W) = Total(G, W \ {x}) + G[x]
  BY <1>4, <1>7, TotalRemoves
<1>9. Total(G, W \ {x}) \in Int
  BY <1>8, TotalIsInt
<1> QED BY <1>3, <1>6, <1>7, <1>8, <1>9

\* A sum over two sets that have nothing in common.
LEMMA TotalOfUnion ==
  ASSUME NEW F, NEW S, NEW T, Summable(F, S), Summable(F, T), S \cap T = {}
  PROVE  Summable(F, S \cup T) /\ Total(F, S \cup T) = Total(F, S) + Total(F, T)
<1>1. Summable(F, S \cup T)
  BY FS_Union DEF Summable
<1>2. PICK U : U = S \cup T
  OBVIOUS
<1> DEFINE left == [x \in U |-> IF x \in S THEN F[x] ELSE 0]
           right == [x \in U |-> IF x \in T THEN F[x] ELSE 0]
<1>3. /\ \A x \in S : left[x] = F[x] /\ right[x] = 0
      /\ \A x \in T : right[x] = F[x] /\ left[x] = 0
  BY <1>2
<1> HIDE DEF left, right
<1>4. Summable(left, U) /\ Summable(right, U) /\ \A x \in U : F[x] = left[x] + right[x]
  BY <1>1, <1>2, <1>3 DEF Summable
<1>5. Total(F, U) = Total(left, U) + Total(right, U)
  BY <1>4, TotalTogether
<1>6. Total(left, U) = Total(F, S)
  BY <1>1, <1>2, <1>3, <1>4, TotalPadded
<1>7. Total(right, U) = Total(F, T)
  BY <1>1, <1>2, <1>3, <1>4, TotalPadded
<1> QED BY <1>1, <1>2, <1>5, <1>6, <1>7

\* A sum over other names for the same things: f is the one that p names.
Names(f, P, S) ==
    /\ IsFiniteSet(P) /\ \A p \in P : f[p] \in S
    /\ \A s \in S : \E p \in P : f[p] = s
    /\ \A o, p \in P : f[o] = f[p] => o = p

\* The sum under the other names is the same.
LEMMA TotalMoved ==
  ASSUME NEW P, NEW S, NEW f, Names(f, P, S), NEW F, NEW G, Summable(G, S),
         \A p \in P : F[p] = G[f[p]]
  PROVE  Summable(F, P) /\ Total(F, P) = Total(G, S)
<1>0. /\ IsFiniteSet(P) /\ \A p \in P : f[p] \in S
      /\ \A s \in S : \E p \in P : f[p] = s
      /\ \A o, p \in P : f[o] = f[p] => o = p
  BY DEF Names
<1>1. Summable(F, P)
  BY <1>0 DEF Summable
<1> DEFINE Named(T) == {s \in S : \E p \in T : f[p] = s}
           Wrong == {T \in SUBSET P : Total(F, T) # Total(G, Named(T))}
<1>2. Wrong = {}
  <2> SUFFICES ASSUME Wrong # {} PROVE FALSE
    OBVIOUS
  <2>1. PICK T \in Wrong : \A V \in Wrong : V \subseteq T => V = T
    <3> HIDE DEF Wrong
    <3>1. Wrong \subseteq SUBSET P /\ Wrong # {} /\ IsFiniteSet(P)
      BY <1>0 DEF Wrong
    <3> QED BY <3>1, SmallestSubset
  <2>2. T \in SUBSET P /\ Total(F, T) # Total(G, Named(T))
    OBVIOUS
  <2>3. T # {}
    <3> SUFFICES ASSUME T = {} PROVE FALSE
      OBVIOUS
    <3>1. Named(T) = {}
      OBVIOUS
    <3>2. Total(F, T) = 0 /\ Total(G, Named(T)) = 0
      BY <3>1, TotalOfNone
    <3> QED BY <2>2, <3>2
  <2>4. PICK p \in T : TRUE
    BY <2>3
  <2>5. PICK x : x = f[p]
    OBVIOUS
  <2>6. x \in Named(T) /\ Named(T \ {p}) = Named(T) \ {x}
    BY <1>0, <2>2, <2>5
  <2>7. T \ {p} \notin Wrong
    BY <2>1, <2>4
  <2>8. Total(F, T \ {p}) = Total(G, Named(T \ {p}))
    BY <2>2, <2>7
  <2>9. Summable(F, T) /\ Summable(G, Named(T))
    <3>1. Named(T) \in SUBSET S
      OBVIOUS
    <3> HIDE DEF Named
    <3> QED BY <1>1, <2>2, <3>1, SummablePart
  <2> HIDE DEF Named, Wrong
  <2>10. Total(F, T) = Total(F, T \ {p}) + F[p]
    BY <2>9, TotalRemoves
  <2>11. Total(G, Named(T)) = Total(G, Named(T \ {p})) + G[x]
    <3>1. PICK N, R : N = Named(T) /\ R = Named(T \ {p})
      OBVIOUS
    <3>2. Summable(G, N) /\ x \in N /\ R = N \ {x}
      BY <2>6, <2>9, <3>1
    <3>3. Total(G, N) = Total(G, R) + G[x]
      BY <3>2, TotalRemoves
    <3> QED BY <3>1, <3>3
  <2>12. F[p] = G[x]
    BY <2>2, <2>5
  <2> QED BY <2>2, <2>8, <2>10, <2>11, <2>12
<1>3. Named(P) = S
  BY <1>0
<1>4. P \notin Wrong /\ P \in SUBSET P
  BY <1>2
<1>5. Total(F, P) = Total(G, Named(P))
  BY <1>4
<1> QED BY <1>1, <1>3, <1>5

\* A sum over the places of a sequence that lists S is one over S.
PlacesAfter(d, q) == (d + 1)..(d + Len(q))
Tracks(F, d, q, G) == \A i \in 1..Len(q) : F[d + i] = G[q[i]]

\* The sum over the places is the sum over what is in them.
LEMMA TotalListed ==
  ASSUME NEW q, NEW S, Enumerates(q, S), NEW d \in Nat, NEW F, NEW G, Summable(G, S), Tracks(F, d, q, G)
  PROVE  Summable(F, PlacesAfter(d, q)) /\ Total(F, PlacesAfter(d, q)) = Total(G, S)
<1>0. PICK P : P = PlacesAfter(d, q) /\ P = (d + 1)..(d + Len(q))
  BY DEF PlacesAfter
<1>1. PICK n \in Nat : n = Len(q)
  BY SeqFacts DEF Enumerates
<1>2. /\ \A i \in 1..n : q[i] \in S
      /\ \A s \in S : \E i \in 1..n : q[i] = s
      /\ \A i, j \in 1..n : q[i] = q[j] => i = j
  BY <1>1 DEF Enumerates
<1>3. PICK f : f = [p \in P |-> q[p - d]]
  OBVIOUS
<1>4. ASSUME NEW p \in P PROVE p - d \in 1..n /\ d + (p - d) = p /\ f[p] = q[p - d] /\ p \in Int
  BY <1>0, <1>1, <1>3
<1>5. ASSUME NEW p \in P PROVE f[p] \in S /\ F[p] = G[f[p]]
  BY <1>1, <1>2, <1>4 DEF Tracks
<1>6. ASSUME NEW s \in S PROVE \E p \in P : f[p] = s
  <2>1. PICK i \in 1..n : q[i] = s
    BY <1>2
  <2>2. d + i \in P /\ (d + i) - d = i
    BY <1>0, <1>1
  <2> QED BY <1>4, <2>1, <2>2
<1>7. ASSUME NEW o \in P, NEW p \in P, f[o] = f[p] PROVE o = p
  <2>1. o - d = p - d
    BY <1>2, <1>4, <1>7
  <2> QED BY <1>4, <2>1
<1>8. IsFiniteSet(P)
  BY <1>0, <1>1, FS_Interval
<1>9. Names(f, P, S)
  BY <1>5, <1>6, <1>7, <1>8 DEF Names
<1> QED BY <1>0, <1>5, <1>9, TotalMoved

\* Postings of a transaction, and the opposite ones.
LEMMA NetIs ==
  ASSUME NEW ps, ps \in Seq(PostingRecords), NEW a
  PROVE  /\ Summable(NetColumn(ps, a), DOMAIN ps) /\ Net(ps, a) \in Int
         /\ Summable(SignedColumn(ps), DOMAIN ps)
<1>1. PICK n \in Nat : n = Len(ps) /\ DOMAIN ps = 1..n
  OBVIOUS
<1>2. ASSUME NEW i \in 1..n PROVE ps[i] \in PostingRecords /\ Signed(ps[i]) \in Int
  <2>1. PICK p \in PostingRecords : p = ps[i]
    BY <1>1
  <2>2. p.units \in Nat /\ -p.units \in Int
    BY DEF PostingRecords
  <2> QED BY <2>1, <2>2 DEF Signed
<1>3. IsFiniteSet(1..n)
  BY FS_Interval
<1>4. Summable(NetColumn(ps, a), DOMAIN ps)
  <2>1. \A i \in 1..n : NetColumn(ps, a)[i] \in Int
    BY <1>1, <1>2 DEF NetColumn
  <2> QED BY <1>1, <1>3, <2>1 DEF Summable
<1>5. Summable(SignedColumn(ps), DOMAIN ps)
  <2>1. \A i \in 1..n : SignedColumn(ps)[i] \in Int
    BY <1>1, <1>2 DEF SignedColumn
  <2> QED BY <1>1, <1>3, <2>1 DEF Summable
<1>6. Net(ps, a) \in Int
  BY <1>4, NetIsTotal, TotalIsInt
<1> QED BY <1>4, <1>5, <1>6

\* Inverse postings move the opposite, and balance when the postings do.
LEMMA InverseIs ==
  ASSUME NEW ps, ps \in Seq(PostingRecords), NEW qs, qs = InversePostings(ps)
  PROVE  /\ qs \in Seq(PostingRecords) /\ DOMAIN qs = DOMAIN ps /\ Len(qs) = Len(ps)
         /\ \A i \in DOMAIN ps : /\ qs[i].account = ps[i].account /\ qs[i].units = ps[i].units
                                 /\ qs[i].side = Opposite(ps[i].side)
         /\ \A a : Net(qs, a) = -Net(ps, a)
         /\ Balanced(ps) => Balanced(qs)
<1>1. PICK n \in Nat : n = Len(ps) /\ DOMAIN ps = 1..n
  OBVIOUS
<1>2. DOMAIN qs = 1..n /\ \A i \in 1..n : qs[i] = [ps[i] EXCEPT !.side = Opposite(@)]
  BY <1>1 DEF InversePostings
<1>3. ASSUME NEW i \in 1..n
      PROVE  /\ qs[i] \in PostingRecords
             /\ qs[i].account = ps[i].account /\ qs[i].units = ps[i].units
             /\ qs[i].side = Opposite(ps[i].side) /\ Signed(qs[i]) = -Signed(ps[i])
  <2>1. PICK p \in PostingRecords : p = ps[i]
    BY <1>1
  <2>2. p.units \in Nat /\ p.side \in {"debit", "credit"} /\ p.account \in Accounts
    BY DEF PostingRecords
  <2>3. PICK z : z = [p EXCEPT !.side = Opposite(p.side)]
    OBVIOUS
  <2>4. z \in PostingRecords /\ z.account = p.account /\ z.units = p.units /\ z.side = Opposite(p.side)
    BY <2>2, <2>3 DEF PostingRecords, Opposite
  <2>5. Signed(z) = -Signed(p)
    BY <2>2, <2>4 DEF Signed, Opposite
  <2>6. qs[i] = z
    BY <1>2, <2>1, <2>3
  <2> QED BY <2>1, <2>4, <2>5, <2>6
<1>4. qs \in Seq(PostingRecords) /\ Len(qs) = n
  <2>1. qs = [i \in 1..n |-> qs[i]]
    BY <1>1 DEF InversePostings
  <2>2. qs \in [1..n -> PostingRecords]
    BY <1>3, <2>1
  <2> QED BY <2>2
<1>5. ASSUME NEW a PROVE Net(qs, a) = -Net(ps, a)
  <2>1. Summable(NetColumn(ps, a), 1..n)
    BY <1>1, NetIs
  <2>2. \A i \in 1..n : NetColumn(qs, a)[i] = -NetColumn(ps, a)[i]
    BY <1>1, <1>2, <1>3 DEF NetColumn
  <2>3. Total(NetColumn(qs, a), 1..n) = -Total(NetColumn(ps, a), 1..n)
    BY <2>1, <2>2, TotalNegated
  <2> QED BY <1>1, <1>2, <2>3, NetIsTotal
<1>6. ASSUME Balanced(ps) PROVE Balanced(qs)
  <2>1. Summable(SignedColumn(ps), 1..n)
    BY <1>1, NetIs
  <2>2. \A i \in 1..n : SignedColumn(qs)[i] = -SignedColumn(ps)[i]
    BY <1>1, <1>2, <1>3 DEF SignedColumn
  <2>3. Total(SignedColumn(qs), 1..n) = -Total(SignedColumn(ps), 1..n)
    BY <2>1, <2>2, TotalNegated
  <2>4. Total(SignedColumn(ps), 1..n) = 0
    BY <1>1, <1>6, BalancedIsTotal
  <2> QED BY <1>2, <2>3, <2>4, BalancedIsTotal
<1> QED BY <1>1, <1>2, <1>3, <1>4, <1>5, <1>6

\* A transaction moves nothing on an account that it does not touch.
LEMMA NetOutside ==
  ASSUME NEW ps, ps \in Seq(PostingRecords), NEW a, \A i \in DOMAIN ps : ps[i].account # a
  PROVE  Net(ps, a) = 0
<1>1. IsFiniteSet(DOMAIN ps)
  BY NetIs DEF Summable
<1>2. \A i \in DOMAIN ps : NetColumn(ps, a)[i] = 0
  BY DEF NetColumn
<1> QED BY <1>1, <1>2, TotalOfZeros, NetIsTotal

\* Nothing moves in a line.
LEMMA NothingMoves ==
  Balanced(<<>>) /\ \A a : Net(<<>>, a) = 0
<1>1. DOMAIN <<>> = {}
  OBVIOUS
<1>2. Balanced(<<>>)
  BY <1>1, TotalOfNone, BalancedIsTotal
<1>3. ASSUME NEW a PROVE Net(<<>>, a) = 0
  BY <1>1, TotalOfNone, NetIsTotal
<1> QED BY <1>2, <1>3

\* What an accepted review maps the postings to.
LEMMA MappedBalance ==
  ASSUME NEW h, NEW r, ReviewAccepted(h, r), IsHistory(h), IsReview(h, r), NEW s \in Sources
  PROVE  Balanced(Mapped(h, r, s)) /\ Len(Mapped(h, r, s)) >= 2
<1>1. Len(Mapped(h, r, s)) >= 2
  BY MappedAre DEF IsHistory
<1>2. CASE s \in Scope(h)
  BY <1>1, <1>2 DEF ReviewAccepted
<1>3. CASE s \notin Scope(h)
  <2>1. Mapped(h, r, s) = Raw(h[s])
    BY <1>3 DEF Mapped, Raw, ReviewAccepted
  <2> QED BY <1>1, <2>1 DEF IsHistory
<1> QED BY <1>2, <1>3

\* The events' own facts.
LEMMA EventOfIs ==
  ASSUME NEW h, NEW r, NEW s \in Sources
  PROVE  /\ EventOf(h, r, s).txn = Txn(s) /\ EventOf(h, r, s).month = Month[s]
         /\ EventOf(h, r, s).postings = Mapped(h, r, s) /\ EventOf(h, r, s).line = NoLine
         /\ s \in Reversing(h) => EventOf(h, r, s).type = "reversed" /\ EventOf(h, r, s).of = Txn(Target(h, s))
         /\ s \notin Reversing(h) => EventOf(h, r, s).type = "posted" /\ EventOf(h, r, s).of = NoTxn
BY DEF EventOf, ReversedBy, Posted

\* The event of a correction.
LEMMA NeutralisedIs ==
  ASSUME NEW h, NEW r, NEW s
  PROVE  /\ Neutralised(h, r, s).type = "reversed" /\ Neutralised(h, r, s).txn = Correction(s)
         /\ Neutralised(h, r, s).of = Txn(s) /\ Neutralised(h, r, s).month = Month[s]
         /\ Neutralised(h, r, s).postings = InversePostings(Mapped(h, r, s))
         /\ Neutralised(h, r, s).line = NoLine
BY DEF Neutralised

\* The ids of transactions and corrections name one source each.
LEMMA TxnsDiffer ==
  ASSUME NEW s, NEW t
  PROVE  /\ Txn(s) = Txn(t) => s = t
         /\ Correction(s) = Correction(t) => s = t
         /\ Txn(s) # Correction(t)
         /\ s \in Sources => Txn(s) # NoTxn /\ Correction(s) # NoTxn
<1>1. Txn(s).source = s /\ Txn(t).source = t /\ Txn(s).correction = FALSE /\ NoTxn.source = Nobody
  BY DEF Txn, NoTxn
<1>2. Correction(s).source = s /\ Correction(t).source = t /\ Correction(t).correction = TRUE
  BY DEF Correction
<1>3. Nobody \notin Sources
  BY HistoryAssumption DEF Nobody
<1> QED BY <1>1, <1>2, <1>3

\* Each event is of one of three kinds.
LEMMA WhichEvent ==
  ASSUME NEW h, NEW r, NEW E, NEW J, NEW C, NEW L, Layout(h, r, E, J, C, L), NEW n \in DOMAIN E
  PROVE  \/ n \in 1..Len(J) /\ J[n] \in Sources /\ E[n] = EventOf(h, r, J[n])
         \/ \E i \in 1..Len(C) : /\ n = Len(J) + i /\ C[i] \in Corrected(r)
                                 /\ E[n] = Neutralised(h, r, C[i])
         \/ \E i \in 1..Len(L) : /\ n = Len(J) + Len(C) + i /\ L[i] \in Categorised(h)
                                 /\ E[n] = Assigned(h, L[i])
<1>1. n \in 1..(Len(J) + Len(C) + Len(L)) /\ Len(J) \in Nat /\ Len(C) \in Nat /\ Len(L) \in Nat
  BY DEF Layout
<1>2. CASE n <= Len(J)
  <2>1. n \in 1..Len(J)
    BY <1>1, <1>2
  <2> QED BY <2>1 DEF Layout, Enumerates
<1>3. CASE n > Len(J) /\ n <= Len(J) + Len(C)
  <2>1. PICK i : i = n - Len(J)
    OBVIOUS
  <2>2. i \in 1..Len(C) /\ n = Len(J) + i
    BY <1>1, <1>3, <2>1
  <2> QED BY <2>2 DEF Layout, Enumerates
<1>4. CASE n > Len(J) + Len(C)
  <2>1. PICK i : i = n - (Len(J) + Len(C))
    OBVIOUS
  <2>2. i \in 1..Len(L) /\ n = Len(J) + Len(C) + i
    BY <1>1, <1>4, <2>1
  <2> QED BY <2>2 DEF Layout, Enumerates
<1> QED BY <1>1, <1>2, <1>3, <1>4

\* The events that a source, a correction and a line have.
LEMMA EventsHave ==
  ASSUME NEW h, NEW r, NEW E, NEW J, NEW C, NEW L, Layout(h, r, E, J, C, L)
  PROVE  /\ \A i \in 1..Len(J) : i \in DOMAIN E /\ E[i] = EventOf(h, r, J[i]) /\ J[i] \in Sources
         /\ \A i \in 1..Len(C) : /\ Len(J) + i \in DOMAIN E /\ E[Len(J) + i] = Neutralised(h, r, C[i])
                                 /\ C[i] \in Corrected(r)
         /\ \A i \in 1..Len(L) : /\ Len(J) + Len(C) + i \in DOMAIN E
                                 /\ E[Len(J) + Len(C) + i] = Assigned(h, L[i])
                                 /\ L[i] \in Categorised(h)
         /\ \A s \in Sources : \E i \in 1..Len(J) : J[i] = s
         /\ \A s \in Corrected(r) : \E i \in 1..Len(C) : C[i] = s
         /\ \A s \in Categorised(h) : \E i \in 1..Len(L) : L[i] = s
<1>1. Len(J) \in Nat /\ Len(C) \in Nat /\ Len(L) \in Nat /\ DOMAIN E = 1..(Len(J) + Len(C) + Len(L))
  BY DEF Layout
<1>2. \A i \in 1..Len(J) : i \in DOMAIN E
  BY <1>1
<1>3. \A i \in 1..Len(C) : Len(J) + i \in DOMAIN E
  BY <1>1
<1>4. \A i \in 1..Len(L) : Len(J) + Len(C) + i \in DOMAIN E
  BY <1>1
<1> QED BY <1>2, <1>3, <1>4 DEF Layout, Enumerates

-----------------------------------------------------------------------------
(* The balances *)

\* What the sources move on an account can be summed.
LEMMA MappedSums ==
  ASSUME NEW h, NEW r, IsHistory(h), IsReview(h, r), NEW a, NEW S \in SUBSET Sources
  PROVE  Summable(MappedColumn(h, r, a), S)
<1>1. IsFiniteSet(S)
  BY FS_Subset, HistoryAssumption
<1>2. ASSUME NEW s \in S PROVE MappedColumn(h, r, a)[s] \in Int
  <2>1. Mapped(h, r, s) \in Seq(PostingRecords)
    BY MappedAre
  <2>2. Net(Mapped(h, r, s), a) \in Int
    BY <2>1, NetIs
  <2> QED BY <2>2 DEF MappedColumn
<1> QED BY <1>1, <1>2 DEF Summable

\* The balance of the rows: what the sources move, without the corrected ones.
LEMMA SourceBalanceIs ==
  ASSUME NEW h, NEW r, ReviewAccepted(h, r), IsHistory(h), IsReview(h, r), NEW a
  PROVE  SourceBalance(h, r, a) =
           Total(MappedColumn(h, r, a), Sources) - Total(MappedColumn(h, r, a), Corrected(r))
<1>1. PICK F : F = MappedColumn(h, r, a)
  OBVIOUS
<1>2. PICK D : D = Corrected(r) /\ D \subseteq Sources
  BY SourceSets
<1>3. Summable(F, Sources) /\ Summable(F, D)
  BY <1>1, <1>2, MappedSums
<1>4. PICK A : A = SourceColumn(h, r, a)
  OBVIOUS
<1>5. \A s \in Sources : F[s] = A[s]
  BY <1>1, <1>4, MappedAre DEF MappedColumn, SourceColumn
<1>6. PICK B : B = CorrectionColumn(h, r, a)
  OBVIOUS
<1>7. ASSUME NEW s \in D PROVE B[s] = -F[s]
  <2>1. s \in Sources
    BY <1>2
  <2>2. PICK ps : ps = Mapped(h, r, s)
    OBVIOUS
  <2>3. ps \in Seq(PostingRecords) /\ SourcePostings(h, r, s) = ps /\ DOMAIN ps = DOMAIN h[s].postings
    BY <2>1, <2>2, MappedAre
  <2>4. SourceCorrection(h, r, s) = InversePostings(ps)
    BY <2>3 DEF SourceCorrection, InversePostings
  <2>5. Net(SourceCorrection(h, r, s), a) = -Net(ps, a)
    BY <2>3, <2>4, InverseIs
  <2> QED BY <1>1, <1>2, <1>6, <2>1, <2>2, <2>5 DEF MappedColumn, CorrectionColumn
<1>8. Total(A, Sources) = Total(F, Sources)
  BY <1>3, <1>5, TotalAgrees
<1>9. Total(B, D) = -Total(F, D)
  BY <1>3, <1>7, TotalNegated
<1>10. Total(F, Sources) \in Int /\ Total(F, D) \in Int
  BY <1>3, TotalIsInt
<1>11. SourceBalance(h, r, a) = Total(A, Sources) + Total(B, D)
  BY <1>2, <1>4, <1>6, SourceBalanceIsTotal
<1> QED BY <1>1, <1>2, <1>8, <1>9, <1>10, <1>11

\* The balance of the events: the same, because corrections move it back and lines nothing.
LEMMA EventBalanceIs ==
  ASSUME NEW h, NEW r, ReviewAccepted(h, r), IsHistory(h), IsReview(h, r), NEW a
  PROVE  /\ EventBalance(Events(h, r), a) =
              Total(MappedColumn(h, r, a), Sources) - Total(MappedColumn(h, r, a), Corrected(r))
         /\ Total(MappedColumn(h, r, a), Sources) \in Int
         /\ Total(MappedColumn(h, r, a), Corrected(r)) \in Int
<1>1. PICK E, J, C, L : E = Events(h, r) /\ Layout(h, r, E, J, C, L)
  BY LayoutIs
<1>2. PICK F, D : F = MappedColumn(h, r, a) /\ D = Corrected(r) /\ D \subseteq Sources
  BY SourceSets
<1>3. Summable(F, Sources) /\ Summable(F, D)
  BY <1>2, MappedSums
<1>4. /\ Enumerates(J, Sources) /\ Enumerates(C, D) /\ Enumerates(L, Categorised(h))
      /\ \A i \in 1..Len(J) : E[i] = EventOf(h, r, J[i])
      /\ \A i \in 1..Len(C) : E[Len(J) + i] = Neutralised(h, r, C[i])
      /\ \A i \in 1..Len(L) : E[Len(J) + Len(C) + i] = Assigned(h, L[i])
  BY <1>1, <1>2 DEF Layout
<1>5. PICK j \in Nat, c \in Nat, l \in Nat :
        j = Len(J) /\ c = Len(C) /\ l = Len(L) /\ DOMAIN E = 1..(j + c + l)
  BY <1>1 DEF Layout
<1>6. PICK X : X = EventColumn(E, a)
  OBVIOUS
<1>7. \A n \in 1..(j + c + l) : X[n] = Net(E[n].postings, a)
  BY <1>5, <1>6 DEF EventColumn
<1>8. PICK N : N = [s \in D |-> -F[s]]
  OBVIOUS
<1>9. Summable(N, D) /\ Total(N, D) = -Total(F, D)
  BY <1>3, <1>8, TotalNegated
<1>10. PICK P, Q, R : P = (0 + 1)..(0 + j) /\ Q = (j + 1)..(j + c) /\ R = (j + c + 1)..(j + c + l)
  OBVIOUS
<1>11. Summable(X, P) /\ Total(X, P) = Total(F, Sources)
  <2>1. ASSUME NEW i \in 1..Len(J) PROVE X[0 + i] = F[J[i]]
    <3>1. i \in 1..(j + c + l) /\ 0 + i = i
      BY <1>5
    <3>2. E[i].postings = Mapped(h, r, J[i]) /\ J[i] \in Sources
      BY <1>4, EventOfIs DEF Enumerates
    <3> QED BY <1>2, <1>7, <3>1, <3>2 DEF MappedColumn
  <2>2. Tracks(X, 0, J, F)
    BY <2>1 DEF Tracks
  <2>3. P = PlacesAfter(0, J)
    BY <1>5, <1>10 DEF PlacesAfter
  <2> QED BY <1>3, <1>4, <2>2, <2>3, TotalListed
<1>12. Summable(X, Q) /\ Total(X, Q) = Total(N, D)
  <2>1. ASSUME NEW i \in 1..Len(C) PROVE X[j + i] = N[C[i]]
    <3>1. j + i \in 1..(j + c + l)
      BY <1>5
    <3>2. C[i] \in D /\ C[i] \in Sources
      BY <1>2, <1>4 DEF Enumerates
    <3>3. E[j + i].postings = InversePostings(Mapped(h, r, C[i]))
      BY <1>4, <1>5, NeutralisedIs
    <3>4. Net(E[j + i].postings, a) = -Net(Mapped(h, r, C[i]), a)
      BY <3>2, <3>3, MappedAre, InverseIs
    <3> QED BY <1>2, <1>7, <1>8, <3>1, <3>2, <3>4 DEF MappedColumn
  <2>2. Tracks(X, j, C, N)
    BY <2>1 DEF Tracks
  <2>3. Q = PlacesAfter(j, C)
    BY <1>5, <1>10 DEF PlacesAfter
  <2> QED BY <1>4, <1>9, <2>2, <2>3, TotalListed
<1>13. Summable(X, R) /\ Total(X, R) = 0
  <2>1. ASSUME NEW n \in R PROVE X[n] = 0
    <3>1. n \in 1..(j + c + l) /\ n - (j + c) \in 1..l /\ j + c + (n - (j + c)) = n
      BY <1>10
    <3>2. PICK i \in 1..Len(L) : n = j + c + i
      BY <1>5, <3>1
    <3>3. E[n].postings = <<>>
      <4>1. E[n] = Assigned(h, L[i])
        BY <1>4, <1>5, <3>2
      <4>2. Assigned(h, L[i]).postings = <<>>
        BY DEF Assigned
      <4> QED BY <4>1, <4>2
    <3> QED BY <1>7, <3>1, <3>3, NothingMoves
  <2>2. IsFiniteSet(R)
    BY <1>10, FS_Interval
  <2> QED BY <2>1, <2>2, TotalOfZeros
<1>14. Summable(X, P \cup Q) /\ Total(X, P \cup Q) = Total(F, Sources) + Total(N, D)
  <2>1. P \cap Q = {}
    BY <1>10
  <2>2. Summable(X, P \cup Q) /\ Total(X, P \cup Q) = Total(X, P) + Total(X, Q)
    BY <1>11, <1>12, <2>1, TotalOfUnion
  <2> QED BY <1>11, <1>12, <2>2
<1>15. Total(X, DOMAIN E) = Total(F, Sources) + Total(N, D) + 0
  <2>1. PICK PQ : PQ = P \cup Q
    OBVIOUS
  <2>2. PQ \cap R = {} /\ PQ \cup R = DOMAIN E
    BY <1>5, <1>10, <2>1
  <2>3. Total(X, PQ \cup R) = Total(X, PQ) + Total(X, R)
    BY <1>13, <1>14, <2>1, <2>2, TotalOfUnion
  <2> QED BY <1>13, <1>14, <2>1, <2>2, <2>3
<1>16. Total(F, Sources) \in Int /\ Total(F, D) \in Int
  BY <1>3, TotalIsInt
<1>17. EventBalance(E, a) = Total(X, DOMAIN E)
  BY <1>6, EventBalanceIsTotal
<1> QED BY <1>1, <1>2, <1>9, <1>15, <1>16, <1>17

\* The two programs have the same balances.
LEMMA BalancesAgree ==
  ASSUME NEW h, NEW r, ReviewAccepted(h, r), IsHistory(h), IsReview(h, r)
  PROVE  \A a : EventBalance(Events(h, r), a) = SourceBalance(h, r, a)
BY SourceBalanceIs, EventBalanceIs

\* The review expects what the planner computes: only the sources in its scope touch a card.
LEMMA ExpectedIs ==
  ASSUME NEW h, NEW r, ReviewAccepted(h, r), IsHistory(h), IsReview(h, r), NEW a \in Cards,
         \A s \in Sources \ Scope(h) : \A i \in DOMAIN Mapped(h, r, s) : Mapped(h, r, s)[i].account # a
  PROVE  ExpectedNatural(h, r, a) = -EventBalance(Events(h, r), a)
<1>1. PICK F, D, S : /\ F = MappedColumn(h, r, a) /\ D = Corrected(r) /\ S = Scope(h) \ D
                     /\ D \subseteq Sources /\ S \subseteq Sources
  BY SourceSets DEF Scope
<1>2. /\ Summable(F, Sources) /\ Summable(F, D) /\ Summable(F, S) /\ Summable(F, Sources \ D)
      /\ Summable(F, (Sources \ D) \ S)
  BY <1>1, MappedSums
<1>3. D \subseteq Scope(h) /\ Scope(h) \subseteq Sources
  BY <1>1 DEF ReviewAccepted, Corrected, Scope
<1>4. Total(F, Sources) = Total(F, D) + Total(F, Sources \ D)
  <2>1. PICK T : T = Sources \ D
    OBVIOUS
  <2>2. D \cup T = Sources /\ D \cap T = {}
    BY <1>1, <2>1
  <2>3. Total(F, D \cup T) = Total(F, D) + Total(F, T)
    BY <1>2, <2>1, <2>2, TotalOfUnion
  <2> QED BY <2>1, <2>2, <2>3
<1>5. Total(F, Sources \ D) = Total(F, S)
  <2>1. ASSUME NEW s \in (Sources \ D) \ S PROVE F[s] = 0
    <3>1. s \in Sources \ Scope(h)
      BY <1>1, <1>3
    <3>2. PICK ps : ps = Mapped(h, r, s) /\ ps \in Seq(PostingRecords)
      BY <3>1, MappedAre
    <3>3. Net(ps, a) = 0
      BY <3>1, <3>2, NetOutside
    <3> QED BY <1>1, <3>1, <3>2, <3>3 DEF MappedColumn
  <2>2. PICK T : T = Sources \ D /\ S \in SUBSET T
    BY <1>1, <1>3
  <2> QED BY <1>2, <2>1, <2>2, TotalPadded
<1>6. Total(F, D) \in Int /\ Total(F, S) \in Int
  BY <1>2, TotalIsInt
<1>7. ExpectedNatural(h, r, a) = -Total(F, S)
  BY <1>1, ExpectedIsTotal
<1>8. EventBalance(Events(h, r), a) = Total(F, Sources) - Total(F, D)
  BY <1>1, EventBalanceIs
<1> QED BY <1>4, <1>5, <1>6, <1>7, <1>8

-----------------------------------------------------------------------------
(* What a plan of an accepted review says *)

\* A plan is compiled when nothing speaks against it.
Compilable(h, r) ==
    /\ ReviewAccepted(h, r) /\ IsHistory(h) /\ IsReview(h, r)
    /\ \A s \in Reversing(h) : Mapped(h, r, s) = InversePostings(Mapped(h, r, Target(h, s)))
    /\ Corrected(r) \cap Reversed(h) = {}
    /\ Categorised(h) \cap Reversing(h) = {}
    /\ ValidPlan(Drafted(h, r)) /\ Drafted(h, r).natural = r.expected

\* A plan is handed out only when nothing speaks against it, and then as drafted.
LEMMA CompiledIs ==
  ASSUME NEW h, NEW r, ReviewAccepted(h, r), IsHistory(h), IsReview(h, r), Compiled(h, r) # Refused
  PROVE  Compilable(h, r) /\ Compiled(h, r) = Drafted(h, r)
BY DEF Compiled, Compilable

\* The sources may contain no transaction that reverses itself.
LEMMA SourceLinksAreSound ==
  ASSUME NEW h, NEW r, Compilable(h, r)
  PROVE  SourceLinksSound(h)
<1>1. LinksResolve(h) /\ DOMAIN h = Sources
  BY DEF Compilable, ReviewAccepted, IsHistory
<1>2. SourceLinks(h) = Links(h)
  BY <1>1, SourceLinksAre
<1>3. \A l, m \in SourceLinks(h) : l[1] = m[1] <=> l[2] = m[2]
  BY <1>1, <1>2 DEF LinksResolve
<1>4. ASSUME NEW s \in Sources, NEW t \in Sources, <<s, t>> \in Links(h) PROVE s # t
  <2>1. PICK l \in Links(h) : l = <<s, t>>
    BY <1>4
  <2>2. s \in Reversing(h) /\ t = Target(h, s)
    BY <1>1, <2>1, LinksAre
  <2>3. PICK S : S = {s}
    OBVIOUS
  <2>4. S \in SUBSET Reversing(h) /\ S # {}
    BY <2>2, <2>3
  <2>5. \E x \in S : Target(h, x) \notin S
    BY <1>1, <2>4 DEF LinksResolve, Acyclic
  <2>6. Target(h, s) # s
    BY <2>3, <2>5
  <2> QED BY <2>2, <2>6
<1>5. ASSUME NEW s \in Sources, h[s].reverses # Nobody PROVE h[s].reverses \in Sources \ {s}
  <2>1. <<s, h[s].reverses>> \in Links(h)
    BY <1>1, <1>5 DEF Links, Explicit
  <2>2. h[s].reverses \in Sources
    BY <1>1, <2>1, LinksAre
  <2> QED BY <1>4, <2>1, <2>2
<1>6. ASSUME NEW s \in Sources, h[s].reversedBy # Nobody PROVE h[s].reversedBy \in Sources \ {s}
  <2>1. <<h[s].reversedBy, s>> \in Links(h)
    BY <1>1, <1>6 DEF Links, Inferred
  <2>2. h[s].reversedBy \in Sources
    BY <1>1, <2>1, LinksAre
  <2> QED BY <1>4, <2>1, <2>2
<1>7. \A s \in Sources : {h[s].reverses, h[s].reversedBy} \subseteq (Sources \ {s}) \cup {Nobody}
  BY <1>5, <1>6
<1> QED BY <1>3, <1>7 DEF SourceLinksSound

\* The source reducer accepts the rows and the review.
LEMMA SourceIsAccepted ==
  ASSUME NEW h, NEW r, Compilable(h, r)
  PROVE  SourceAccepts(h, r)
<1>1. /\ ReviewAccepted(h, r) /\ IsHistory(h) /\ IsReview(h, r) /\ LinksResolve(h) /\ DOMAIN h = Sources
  BY DEF Compilable, ReviewAccepted, IsHistory
<1>2. SourceLinks(h) = Links(h) /\ SourceReversals(h) = Reversing(h)
  BY <1>1, SourceLinksAre
<1>3. \A s \in Sources : Len(h[s].postings) >= 2 /\ Balanced(SourcePostings(h, r, s))
  BY <1>1, MappedAre, MappedBalance
<1>4. ASSUME NEW l \in SourceLinks(h)
      PROVE  /\ Inverts(SourcePostings(h, r, l[2]), SourcePostings(h, r, l[1]))
             /\ l[2] \notin Corrected(r)
  <2>1. l[1] \in Reversing(h) /\ l[2] = Target(h, l[1]) /\ l[2] \in Reversed(h)
    BY <1>1, <1>2, LinksAre DEF Reversed
  <2>2. l[1] \in Sources /\ l[2] \in Sources
    BY <1>1, <2>1, LinksAre
  <2>3. PICK ps, qs : ps = Mapped(h, r, l[2]) /\ qs = Mapped(h, r, l[1])
    OBVIOUS
  <2>4. ps = SourcePostings(h, r, l[2]) /\ qs = SourcePostings(h, r, l[1]) /\ ps \in Seq(PostingRecords)
    BY <1>1, <2>2, <2>3, MappedAre
  <2>5. qs = InversePostings(ps)
    BY <2>1, <2>3 DEF Compilable
  <2>6. Inverts(ps, qs)
    BY <2>4, <2>5, InverseIs DEF Inverts
  <2> QED BY <2>1, <2>4, <2>6 DEF Compilable
<1>5. DOMAIN SourceLines(h) = Categorised(h)
  BY DEF SourceLines, Categorised
<1>6. \A a : EventBalance(Events(h, r), a) = SourceBalance(h, r, a)
  BY <1>1, BalancesAgree
<1>7. r.expected = SourceCards(h, r) /\ SourceBalance(h, r, Alias) = 0
  <2>1. Drafted(h, r).natural = [a \in Cards |-> -EventBalance(Events(h, r), a)]
    BY DEF Drafted
  <2>2. r.expected = SourceCards(h, r)
    BY <1>6, <2>1 DEF Compilable, SourceCards
  <2>3. -EventBalance(Events(h, r), Alias) = 0
    BY <2>1, HistoryAssumption DEF Compilable, ValidPlan
  <2>4. EventBalance(Events(h, r), Alias) \in Int
    <3>1. PICK x, y : x \in Int /\ y \in Int /\ EventBalance(Events(h, r), Alias) = x - y
      BY <1>1, EventBalanceIs
    <3> QED BY <3>1
  <2> QED BY <1>6, <2>2, <2>3, <2>4
<1>8. SourceEventsSound(h, r)
  <2>1. PICK E, J, C, L : E = Events(h, r) /\ Layout(h, r, E, J, C, L)
    BY <1>1, LayoutIs
  <2>2. SourceEvents(h, r) = E
    BY <1>1, <2>1, EventsAgree
  <2>3. Len(E) = Cardinality(Sources) + Cardinality(Corrected(r)) + Cardinality(Categorised(h))
    BY <2>1 DEF Layout, Enumerates
  <2> QED BY <1>5, <1>6, <2>1, <2>2, <2>3 DEF SourceEventsSound
<1>9. SourceLinksSound(h)
  BY SourceLinksAreSound
<1>10. DOMAIN SourceLines(h) \cap SourceReversals(h) = {}
  BY <1>2, <1>5 DEF Compilable
<1> QED BY <1>3, <1>4, <1>7, <1>8, <1>9, <1>10 DEF SourceAccepts

\* Every event opens a stream of its own and has what it refers to before it.
LEMMA PlanIsAccepted ==
  ASSUME NEW h, NEW r, Compilable(h, r)
  PROVE  PlanAccepts(Drafted(h, r))
<1>1. ReviewAccepted(h, r) /\ IsHistory(h) /\ IsReview(h, r)
  BY DEF Compilable
<1>2. PICK E, J, C, L : E = Events(h, r) /\ Layout(h, r, E, J, C, L)
  BY <1>1, LayoutIs
<1>3. Drafted(h, r).events = E
  BY <1>2 DEF Drafted
<1>4. /\ Topology(E)
      /\ \A n \in DOMAIN E : /\ Balanced(E[n].postings)
                             /\ E[n].type = "reversed" => ReversalSound(E, n)
                             /\ E[n].type = "assigned" => AssignmentSound(E, n)
  BY <1>3 DEF Compilable, ValidPlan
<1>5. DOMAIN E = 1..Len(E) /\ Len(E) \in Nat
  BY <1>2 DEF Layout
<1>6. ASSUME NEW n \in DOMAIN E
      PROVE  \/ /\ E[n].type \in {"posted", "reversed"}
                /\ E[n].type = "posted" => E[n].of = NoTxn
                /\ E[n].postings \in Seq(PostingRecords) /\ Len(E[n].postings) >= 2
             \/ E[n].type = "assigned"
  <2>1. CASE \E i \in 1..Len(L) : E[n] = Assigned(h, L[i])
    BY <2>1 DEF Assigned
  <2>2. CASE n \in 1..Len(J) /\ J[n] \in Sources /\ E[n] = EventOf(h, r, J[n])
    <3>1. PICK s \in Sources : E[n] = EventOf(h, r, s)
      BY <2>2
    <3>2. E[n].postings = Mapped(h, r, s)
      BY <3>1, EventOfIs
    <3>3. Mapped(h, r, s) \in Seq(PostingRecords) /\ Len(Mapped(h, r, s)) >= 2
      BY <1>1, MappedAre, MappedBalance
    <3>4. E[n].type \in {"posted", "reversed"} /\ (E[n].type = "posted" => E[n].of = NoTxn)
      BY <3>1, EventOfIs
    <3> QED BY <3>2, <3>3, <3>4
  <2>3. CASE \E i \in 1..Len(C) : C[i] \in Corrected(r) /\ E[n] = Neutralised(h, r, C[i])
    <3>1. PICK s \in Sources : E[n] = Neutralised(h, r, s)
      BY <1>1, <2>3, SourceSets
    <3>2. PICK ps : ps = Mapped(h, r, s) /\ ps \in Seq(PostingRecords) /\ Len(ps) >= 2
      BY <1>1, MappedAre, MappedBalance
    <3>3. E[n].postings = InversePostings(ps) /\ E[n].type = "reversed"
      BY <3>1, <3>2, NeutralisedIs
    <3>4. E[n].postings \in Seq(PostingRecords) /\ Len(E[n].postings) >= 2
      BY <3>2, <3>3, InverseIs
    <3> QED BY <3>3, <3>4
  <2> QED BY <1>2, <2>1, <2>2, <2>3, WhichEvent
<1>7. ASSUME NEW m \in DOMAIN E, NEW n \in DOMAIN E, E[m].txn = E[n].txn,
             E[m].type = "assigned" <=> E[n].type = "assigned"
      PROVE  m = n
  BY <1>4, <1>7 DEF Topology
<1>8. StreamsAreNew(E)
  <2> SUFFICES ASSUME NEW m \in DOMAIN E, NEW n \in DOMAIN E, Stream(E[m]) = Stream(E[n])
               PROVE  m = n
    BY DEF StreamsAreNew
  <2>1. E[m].txn = E[n].txn /\ (E[m].type = "assigned" <=> E[n].type = "assigned")
    BY DEF Stream
  <2> QED BY <1>7, <2>1
<1>9. \A n \in DOMAIN E : \A m \in 1..n - 1 : m \in DOMAIN E /\ m # n
  BY <1>5
<1>10. ASSUME NEW n \in DOMAIN E, E[n].type # "assigned"
       PROVE  \A m \in Earlier(E, n) : E[m].txn # E[n].txn
  BY <1>7, <1>9, <1>10 DEF Earlier
<1>11. ASSUME NEW n \in DOMAIN E PROVE EventAccepted(E, n)
  <2>1. CASE E[n].type = "posted"
    <3>1. PostingAccepted(E, n)
      BY <1>4, <1>6, <1>10, <2>1 DEF PostingAccepted
    <3> QED BY <2>1, <3>1 DEF EventAccepted
  <2>2. CASE E[n].type = "reversed"
    <3>1. PICK m \in 1..n - 1 : /\ E[m].type # "assigned" /\ E[m].txn = E[n].of
                                /\ E[n].postings = InversePostings(E[m].postings)
      BY <1>4, <2>2 DEF ReversalSound
    <3>2. m \in DOMAIN E /\ m \in Earlier(E, n)
      BY <1>9, <3>1 DEF Earlier
    <3>3. E[m].postings \in Seq(PostingRecords)
      BY <1>6, <3>1, <3>2
    <3>4. Inverts(E[m].postings, E[n].postings)
      BY <3>1, <3>3, InverseIs DEF Inverts
    <3>5. ReversalAccepted(E, n)
      BY <1>10, <2>2, <3>1, <3>2, <3>4 DEF ReversalAccepted
    <3> QED BY <2>2, <3>5 DEF EventAccepted
  <2>3. CASE E[n].type = "assigned"
    <3>1. PICK m \in 1..n - 1 : /\ E[m].type = "posted" /\ E[m].txn = E[n].of
                                /\ E[n].line.units <= Debits(E[m].postings)
      BY <1>4, <2>3 DEF AssignmentSound
    <3>2. AssignmentAccepted(E, n)
      BY <3>1 DEF AssignmentAccepted, Earlier
    <3> QED BY <2>3, <3>2 DEF EventAccepted
  <2> QED BY <1>6, <2>1, <2>2, <2>3
<1>12. NaturalsAccepted(Drafted(h, r))
  BY DEF Compilable, ValidPlan, NaturalsAccepted
<1> QED BY <1>3, <1>8, <1>11, <1>12 DEF PlanAccepts

\* The pairs of the plan's reversals are those of the source.
LEMMA PairsAgree ==
  ASSUME NEW h, NEW r, ReviewAccepted(h, r), IsHistory(h), IsReview(h, r), NEW E, E = Events(h, r)
  PROVE  {<<e.txn, e.of>> : e \in {x \in Range(E) : x.type = "reversed"}} = SourcePairs(h, r)
<1>1. LinksResolve(h) /\ DOMAIN h = Sources
  BY DEF ReviewAccepted, IsHistory
<1>2. PICK J, C, L : Layout(h, r, E, J, C, L)
  BY LayoutIs
<1>3. SourceLinks(h) = Links(h)
  BY <1>1, SourceLinksAre
<1>4. PICK P : P = {<<e.txn, e.of>> : e \in {x \in Range(E) : x.type = "reversed"}}
  OBVIOUS
<1>5. ASSUME NEW p \in P PROVE p \in SourcePairs(h, r)
  <2>1. PICK e \in Range(E) : e.type = "reversed" /\ p = <<e.txn, e.of>>
    BY <1>4
  <2>2. PICK n \in DOMAIN E : E[n] = e
    BY <2>1 DEF Range
  <2>3. CASE n \in 1..Len(J) /\ J[n] \in Sources /\ E[n] = EventOf(h, r, J[n])
    <3>1. PICK s \in Sources : e = EventOf(h, r, s)
      BY <2>2, <2>3
    <3>2. s \in Reversing(h) /\ e.txn = Txn(s) /\ e.of = Txn(Target(h, s))
      BY <2>1, <3>1, EventOfIs
    <3>3. PICK l \in Links(h) : l = <<s, Target(h, s)>>
      BY <1>1, <3>2, LinksAre
    <3>4. l[1] = s /\ l[2] = Target(h, s)
      BY <3>3
    <3> QED BY <1>3, <2>1, <3>2, <3>4 DEF SourcePairs
  <2>4. CASE \E i \in 1..Len(C) : C[i] \in Corrected(r) /\ E[n] = Neutralised(h, r, C[i])
    <3>1. PICK s \in Corrected(r) : e = Neutralised(h, r, s)
      BY <2>2, <2>4
    <3>2. e.txn = Correction(s) /\ e.of = Txn(s)
      BY <3>1, NeutralisedIs
    <3> QED BY <2>1, <3>2 DEF SourcePairs
  <2>5. CASE \E i \in 1..Len(L) : E[n] = Assigned(h, L[i])
    <3>1. e.type = "assigned"
      BY <2>2, <2>5 DEF Assigned
    <3> QED BY <2>1, <3>1
  <2> QED BY <1>2, <2>3, <2>4, <2>5, WhichEvent
<1>6. ASSUME NEW l \in Links(h) PROVE <<Txn(l[1]), Txn(l[2])>> \in P
  <2>1. PICK s : s = l[1] /\ s \in Reversing(h) /\ l[2] = Target(h, s) /\ s \in Sources
    BY <1>1, LinksAre
  <2>2. PICK i \in 1..Len(J) : J[i] = s
    BY <1>2, <2>1, EventsHave
  <2>3. i \in DOMAIN E /\ E[i] = EventOf(h, r, s)
    BY <1>2, <2>2, EventsHave
  <2>4. E[i].type = "reversed" /\ E[i].txn = Txn(s) /\ E[i].of = Txn(Target(h, s))
    BY <2>1, <2>3, EventOfIs
  <2>5. E[i] \in Range(E)
    BY <2>3 DEF Range
  <2> QED BY <1>4, <2>1, <2>4, <2>5
<1>7. ASSUME NEW s \in Corrected(r) PROVE <<Correction(s), Txn(s)>> \in P
  <2>1. PICK i \in 1..Len(C) : C[i] = s
    BY <1>2, EventsHave
  <2>2. PICK n : n = Len(J) + i
    OBVIOUS
  <2>3. n \in DOMAIN E /\ E[n] = Neutralised(h, r, s)
    BY <1>2, <2>1, <2>2, EventsHave
  <2>4. E[n].type = "reversed" /\ E[n].txn = Correction(s) /\ E[n].of = Txn(s)
    BY <2>3, NeutralisedIs
  <2>5. E[n] \in Range(E)
    BY <2>3 DEF Range
  <2> QED BY <1>4, <2>4, <2>5
<1>8. SourcePairs(h, r) \subseteq P
  BY <1>3, <1>6, <1>7 DEF SourcePairs
<1>9. P = SourcePairs(h, r)
  BY <1>5, <1>8
<1> QED BY <1>4, <1>9

-----------------------------------------------------------------------------
(* The months *)

PlanColumn(events, c) == [n \in PlanLines(events) |-> PlanShare(events, n, c)]
LineColumn(h, r, c) == [s \in DOMAIN SourceLines(h) |-> SourceShare(h, r, s, c)]

\* The total of a month and category in a plan.
LEMMA PlanTotalIs ==
  ASSUME NEW events, NEW c
  PROVE  PlanTotal(events, c) = Total(PlanColumn(events, c), PlanLines(events))
<1>1. PICK F : F = PlanColumn(events, c)
  OBVIOUS
<1> DEFINE Folds(k) == k = [s \in SUBSET PlanLines(events) |->
                              IF s = {} THEN 0
                              ELSE PlanShare(events, CHOOSE x \in s : TRUE, c)
                                     + k[s \ {CHOOSE x \in s : TRUE}]]
<1>2. ASSUME NEW s \in SUBSET PlanLines(events), s # {}
      PROVE  F[First(s)] = PlanShare(events, First(s), c)
  BY <1>1, <1>2, OthersAreFewer DEF PlanColumn
<1>3. ASSUME NEW k PROVE Folds(k) <=> Tallies(k, F, PlanLines(events))
  BY <1>2 DEF Tallies, First, Others
<1>4. PlanTotal(events, c) = (CHOOSE k : Folds(k))[PlanLines(events)]
  BY DEF PlanTotal, MapThenSumSet, MapThenFoldSet
<1> HIDE DEF Folds
<1>5. (CHOOSE k : Folds(k)) = CHOOSE g : Tallies(g, F, PlanLines(events))
  BY <1>3, Zenon
<1> QED BY <1>1, <1>4, <1>5 DEF Total

\* The total of a month and category in the rows.
LEMMA SourceTotalIs ==
  ASSUME NEW h, NEW r, NEW c
  PROVE  SourceTotal(h, r, c) = Total(LineColumn(h, r, c), DOMAIN SourceLines(h))
<1>1. PICK F, S : F = LineColumn(h, r, c) /\ S = DOMAIN SourceLines(h)
  OBVIOUS
<1> DEFINE Folds(k) == k = [s \in SUBSET S |->
                              IF s = {} THEN 0
                              ELSE SourceShare(h, r, CHOOSE x \in s : TRUE, c)
                                     + k[s \ {CHOOSE x \in s : TRUE}]]
<1>2. ASSUME NEW s \in SUBSET S, s # {}
      PROVE  F[First(s)] = SourceShare(h, r, First(s), c)
  BY <1>1, <1>2, OthersAreFewer DEF LineColumn
<1>3. ASSUME NEW k PROVE Folds(k) <=> Tallies(k, F, S)
  BY <1>2 DEF Tallies, First, Others
<1>4. SourceTotal(h, r, c) = (CHOOSE k : Folds(k))[S]
  BY <1>1 DEF SourceTotal, MapThenSumSet, MapThenFoldSet
<1> HIDE DEF Folds
<1>5. (CHOOSE k : Folds(k)) = CHOOSE g : Tallies(g, F, S)
  BY <1>3, Zenon
<1> QED BY <1>1, <1>4, <1>5 DEF Total

\* A line and its transaction's reversal, in the events and in the rows.
LEMMA LinesAre ==
  ASSUME NEW h
  PROVE  DOMAIN SourceLines(h) = Categorised(h)
BY DEF SourceLines, Categorised

\* The line of a source with a category.
LEMMA LineIs ==
  ASSUME NEW h, NEW s \in Categorised(h)
  PROVE  /\ SourceLines(h)[s] = [category |-> h[s].category, units |-> h[s].lineUnits]
         /\ SourceLines(h)[s].units = h[s].lineUnits /\ s \in Sources
BY DEF SourceLines, Categorised

\* A transaction is reversed in the same months.
LEMMA ReversalsAgree ==
  ASSUME NEW h, NEW r, ReviewAccepted(h, r), IsHistory(h), IsReview(h, r),
         NEW E, NEW J, NEW C, NEW L, Layout(h, r, E, J, C, L), NEW s \in Sources, NEW t
  PROVE  (\E m \in DOMAIN E : E[m].type = "reversed" /\ E[m].of = Txn(s) /\ E[m].month = t)
            <=> \/ \E l \in SourceLinks(h) : l[2] = s /\ Month[l[1]] = t
                \/ s \in Corrected(r) /\ Month[s] = t
<1>1. LinksResolve(h) /\ DOMAIN h = Sources
  BY DEF ReviewAccepted, IsHistory
<1>2. SourceLinks(h) = Links(h)
  BY <1>1, SourceLinksAre
<1>3. ASSUME NEW m \in DOMAIN E, E[m].type = "reversed", E[m].of = Txn(s), E[m].month = t
      PROVE  \/ \E l \in Links(h) : l[2] = s /\ Month[l[1]] = t
             \/ s \in Corrected(r) /\ Month[s] = t
  <2>1. CASE m \in 1..Len(J) /\ J[m] \in Sources /\ E[m] = EventOf(h, r, J[m])
    <3>1. PICK x \in Sources : E[m] = EventOf(h, r, x)
      BY <2>1
    <3>2. x \in Reversing(h) /\ E[m].of = Txn(Target(h, x)) /\ E[m].month = Month[x]
      BY <1>3, <3>1, EventOfIs
    <3>3. Target(h, x) = s
      BY <1>3, <3>2, TxnsDiffer
    <3>4. PICK l \in Links(h) : l = <<x, s>>
      BY <1>1, <3>2, <3>3, LinksAre
    <3>5. l[1] = x /\ l[2] = s
      BY <3>4
    <3> QED BY <1>3, <3>2, <3>5
  <2>2. CASE \E i \in 1..Len(C) : C[i] \in Corrected(r) /\ E[m] = Neutralised(h, r, C[i])
    <3>1. PICK x \in Corrected(r) : E[m] = Neutralised(h, r, x)
      BY <2>2
    <3>2. E[m].of = Txn(x) /\ E[m].month = Month[x]
      BY <3>1, NeutralisedIs
    <3>3. x = s
      BY <1>3, <3>2, TxnsDiffer
    <3> QED BY <1>3, <3>2, <3>3
  <2>3. CASE \E i \in 1..Len(L) : E[m] = Assigned(h, L[i])
    <3>1. E[m].type = "assigned"
      BY <2>3 DEF Assigned
    <3> QED BY <1>3, <3>1
  <2> QED BY <2>1, <2>2, <2>3, WhichEvent
<1>4. ASSUME NEW l \in Links(h), l[2] = s, Month[l[1]] = t
      PROVE  \E m \in DOMAIN E : E[m].type = "reversed" /\ E[m].of = Txn(s) /\ E[m].month = t
  <2>1. PICK x : x = l[1] /\ x \in Reversing(h) /\ s = Target(h, x) /\ x \in Sources
    BY <1>1, <1>4, LinksAre
  <2>2. PICK i \in 1..Len(J) : J[i] = x
    BY <2>1, EventsHave
  <2>3. i \in DOMAIN E /\ E[i] = EventOf(h, r, x)
    BY <2>2, EventsHave
  <2>4. E[i].type = "reversed" /\ E[i].of = Txn(s) /\ E[i].month = Month[x]
    BY <2>1, <2>3, EventOfIs
  <2> QED BY <1>4, <2>1, <2>3, <2>4
<1>5. ASSUME s \in Corrected(r), Month[s] = t
      PROVE  \E m \in DOMAIN E : E[m].type = "reversed" /\ E[m].of = Txn(s) /\ E[m].month = t
  <2>1. PICK i \in 1..Len(C) : C[i] = s
    BY <1>5, EventsHave
  <2>2. PICK n : n = Len(J) + i
    OBVIOUS
  <2>3. n \in DOMAIN E /\ E[n] = Neutralised(h, r, s)
    BY <2>1, <2>2, EventsHave
  <2>4. E[n].type = "reversed" /\ E[n].of = Txn(s) /\ E[n].month = Month[s]
    BY <2>3, NeutralisedIs
  <2> QED BY <1>5, <2>3, <2>4
<1> QED BY <1>2, <1>3, <1>4, <1>5

\* The lines of the plan are in the places after the journal and the corrections.
LEMMA LinePlaces ==
  ASSUME NEW h, NEW r, NEW E, NEW J, NEW C, NEW L, Layout(h, r, E, J, C, L)
  PROVE  PlanLines(E) = PlacesAfter(Len(J) + Len(C), L)
<1>1. /\ Len(J) \in Nat /\ Len(C) \in Nat /\ Len(L) \in Nat
      /\ DOMAIN E = 1..(Len(J) + Len(C) + Len(L))
  BY DEF Layout
<1>2. ASSUME NEW n \in PlanLines(E) PROVE n \in PlacesAfter(Len(J) + Len(C), L)
  <2>1. n \in DOMAIN E /\ E[n].type = "assigned"
    BY DEF PlanLines
  <2>2. CASE n \in 1..Len(J) /\ J[n] \in Sources /\ E[n] = EventOf(h, r, J[n])
    <3>1. E[n].type # "assigned"
      BY <2>2, EventOfIs
    <3> QED BY <2>1, <3>1
  <2>3. CASE \E i \in 1..Len(C) : E[n] = Neutralised(h, r, C[i])
    <3>1. E[n].type = "reversed"
      BY <2>3 DEF Neutralised
    <3> QED BY <2>1, <3>1
  <2>4. CASE \E i \in 1..Len(L) : n = Len(J) + Len(C) + i
    BY <1>1, <2>4 DEF PlacesAfter
  <2> QED BY <2>1, <2>2, <2>3, <2>4, WhichEvent
<1>3. ASSUME NEW n \in PlacesAfter(Len(J) + Len(C), L) PROVE n \in PlanLines(E)
  <2>1. PICK i : i = n - (Len(J) + Len(C))
    OBVIOUS
  <2>2. i \in 1..Len(L) /\ n = Len(J) + Len(C) + i
    BY <1>1, <2>1 DEF PlacesAfter
  <2>3. n \in DOMAIN E /\ E[n] = Assigned(h, L[i])
    BY <2>2, EventsHave
  <2>4. E[n].type = "assigned"
    BY <2>3 DEF Assigned
  <2> QED BY <2>3, <2>4 DEF PlanLines
<1> QED BY <1>2, <1>3

\* The event of a line.
LEMMA LineEvent ==
  ASSUME NEW h, NEW r, NEW E, NEW J, NEW C, NEW L, Layout(h, r, E, J, C, L),
         NEW i \in 1..Len(L), NEW n, n = Len(J) + Len(C) + i
  PROVE  /\ E[n].of = Txn(L[i]) /\ E[n].month = Month[L[i]]
         /\ E[n].line = SourceLines(h)[L[i]] /\ L[i] \in Sources
         /\ n \in PlanLines(E) /\ L[i] \in DOMAIN SourceLines(h)
<1>1. PICK s : s = L[i] /\ s \in Categorised(h) /\ n \in DOMAIN E /\ E[n] = Assigned(h, s)
  BY EventsHave
<1>2. /\ s \in Sources /\ SourceLines(h)[s] = [category |-> h[s].category, units |-> h[s].lineUnits]
  BY <1>1, LineIs
<1>3. /\ E[n].type = "assigned" /\ E[n].of = Txn(s) /\ E[n].month = Month[s]
      /\ E[n].line = SourceLines(h)[s]
  BY <1>1, <1>2 DEF Assigned
<1> QED BY <1>1, <1>2, <1>3, LinesAre DEF PlanLines

\* A line's share is the same.
Shares(h, r, E, d, L, c) == \A i \in 1..Len(L) : PlanShare(E, d + i, c) = SourceShare(h, r, L[i], c)

\* The shares of every line agree.
LEMMA SharesAgree ==
  ASSUME NEW h, NEW r, ReviewAccepted(h, r), IsHistory(h), IsReview(h, r),
         NEW E, NEW J, NEW C, NEW L, Layout(h, r, E, J, C, L), NEW c
  PROVE  Shares(h, r, E, Len(J) + Len(C), L, c)
<1> SUFFICES ASSUME NEW i \in 1..Len(L)
             PROVE  PlanShare(E, Len(J) + Len(C) + i, c) = SourceShare(h, r, L[i], c)
  BY DEF Shares
<1>0. PICK n : n = Len(J) + Len(C) + i
  OBVIOUS
<1>1. PICK s, t : s = L[i] /\ t = c[1]
  OBVIOUS
<1>2. s \in Sources /\ E[n].of = Txn(s) /\ E[n].month = Month[s] /\ E[n].line = SourceLines(h)[s]
  BY <1>0, <1>1, LineEvent
<1>4. PICK out : out = (\/ \E l \in SourceLinks(h) : l[2] = s /\ Month[l[1]] = c[1]
                        \/ s \in Corrected(r) /\ Month[s] = c[1])
  OBVIOUS
<1>5. (\E m \in DOMAIN E : E[m].type = "reversed" /\ E[m].of = E[n].of /\ E[m].month = c[1]) <=> out
  <2>1. (\E m \in DOMAIN E : E[m].type = "reversed" /\ E[m].of = Txn(s) /\ E[m].month = t)
            <=> \/ \E l \in SourceLinks(h) : l[2] = s /\ Month[l[1]] = t
                \/ s \in Corrected(r) /\ Month[s] = t
    BY <1>2, ReversalsAgree
  <2> QED BY <1>1, <1>2, <1>4, <2>1
<1>6. PICK line : line = SourceLines(h)[s]
  OBVIOUS
<1>7. PlanShare(E, n, c) = IF line.category # c[2] THEN 0
                           ELSE (IF Month[s] = c[1] THEN line.units ELSE 0) - (IF out THEN line.units ELSE 0)
  BY <1>2, <1>5, <1>6 DEF PlanShare
<1>8. SourceShare(h, r, s, c) = IF line.category # c[2] THEN 0
                           ELSE (IF Month[s] = c[1] THEN line.units ELSE 0) - (IF out THEN line.units ELSE 0)
  BY <1>4, <1>6 DEF SourceShare
<1> QED BY <1>0, <1>1, <1>7, <1>8

\* A month and category has the same total.
LEMMA TotalsAgree ==
  ASSUME NEW h, NEW r, ReviewAccepted(h, r), IsHistory(h), IsReview(h, r),
         NEW E, NEW J, NEW C, NEW L, Layout(h, r, E, J, C, L), NEW c
  PROVE  PlanTotal(E, c) = SourceTotal(h, r, c)
<1>1. PICK F, G, S, d : /\ F = PlanColumn(E, c) /\ G = LineColumn(h, r, c) /\ S = Categorised(h)
                        /\ d = Len(J) + Len(C)
  OBVIOUS
<1>2. d \in Nat /\ Enumerates(L, S)
  BY <1>1 DEF Layout
<1>3. \A s \in S : G[s] = SourceShare(h, r, s, c)
  BY <1>1, LinesAre DEF LineColumn
<1>4. ASSUME NEW s \in S PROVE G[s] \in Int
  <2>1. PICK line : line = SourceLines(h)[s] /\ line.units \in Nat
    <3>1. s \in Sources /\ SourceLines(h)[s].units = h[s].lineUnits
      BY <1>1, LineIs
    <3>2. h[s].lineUnits \in Nat
      BY <3>1 DEF IsHistory
    <3> QED BY <3>1, <3>2
  <2>2. PICK out \in BOOLEAN : out = (\/ \E l \in SourceLinks(h) : l[2] = s /\ Month[l[1]] = c[1]
                                      \/ s \in Corrected(r) /\ Month[s] = c[1])
    OBVIOUS
  <2>3. SourceShare(h, r, s, c) = IF line.category # c[2] THEN 0
                           ELSE (IF Month[s] = c[1] THEN line.units ELSE 0) - (IF out THEN line.units ELSE 0)
    BY <2>1, <2>2 DEF SourceShare
  <2>4. SourceShare(h, r, s, c) \in Int
    BY <2>1, <2>3
  <2> QED BY <1>3, <2>4
<1>5. Summable(G, S)
  <2>1. IsFiniteSet(S)
    BY <1>1, SourceSets
  <2> QED BY <1>4, <2>1 DEF Summable
<1>6. ASSUME NEW i \in 1..Len(L) PROVE F[d + i] = G[L[i]]
  <2>1. PICK n : n = d + i
    OBVIOUS
  <2>2. n = Len(J) + Len(C) + i
    BY <1>1, <2>1
  <2>3. PlanShare(E, n, c) = SourceShare(h, r, L[i], c)
    <3>1. Shares(h, r, E, Len(J) + Len(C), L, c)
      BY SharesAgree
    <3>2. Shares(h, r, E, d, L, c)
      BY <1>1, <3>1
    <3> QED BY <2>1, <3>2 DEF Shares
  <2>4. n \in PlanLines(E) /\ L[i] \in DOMAIN SourceLines(h)
    BY <2>2, LineEvent
  <2> QED BY <1>1, <2>1, <2>3, <2>4 DEF PlanColumn, LineColumn
<1>7. Tracks(F, d, L, G)
  BY <1>6 DEF Tracks
<1>8. Total(F, PlacesAfter(d, L)) = Total(G, S)
  BY <1>2, <1>5, <1>7, TotalListed
<1>9. PlanLines(E) = PlacesAfter(d, L)
  BY <1>1, LinePlaces
<1>10. PlanTotal(E, c) = Total(F, PlacesAfter(d, L))
  BY <1>1, <1>9, PlanTotalIs
<1>11. SourceTotal(h, r, c) = Total(G, S)
  BY <1>1, LinesAre, SourceTotalIs
<1> QED BY <1>8, <1>10, <1>11

\* So both reducers find the same months.
LEMMA MonthsAgree ==
  ASSUME NEW h, NEW r, ReviewAccepted(h, r), IsHistory(h), IsReview(h, r)
  PROVE  PlanMonths(Events(h, r)) = SourceMonths(h, r)
<1>1. PICK E, J, C, L : E = Events(h, r) /\ Layout(h, r, E, J, C, L)
  BY LayoutIs
<1> DEFINE P == {<<month, E[n].line.category>> : month \in Range(Month), n \in PlanLines(E)}
           S == {<<month, SourceLines(h)[s].category>> : month \in Range(Month), s \in DOMAIN SourceLines(h)}
<1>3. ASSUME NEW n \in PlanLines(E)
      PROVE  \E s \in DOMAIN SourceLines(h) : E[n].line.category = SourceLines(h)[s].category
  <2>1. PICK i \in 1..Len(L) : n = Len(J) + Len(C) + i
    <3>1. n \in PlacesAfter(Len(J) + Len(C), L)
      BY <1>1, LinePlaces
    <3>0. Len(J) \in Nat /\ Len(C) \in Nat /\ Len(L) \in Nat
      BY <1>1 DEF Layout
    <3>2. PICK i : i = n - (Len(J) + Len(C))
      OBVIOUS
    <3>3. i \in 1..Len(L) /\ n = Len(J) + Len(C) + i
      BY <3>0, <3>1, <3>2 DEF PlacesAfter
    <3> QED BY <3>3
  <2>2. L[i] \in DOMAIN SourceLines(h) /\ E[n].line.category = SourceLines(h)[L[i]].category
    BY <1>1, <2>1, LineEvent
  <2> QED BY <2>2
<1>4. ASSUME NEW s \in DOMAIN SourceLines(h)
      PROVE  \E n \in PlanLines(E) : E[n].line.category = SourceLines(h)[s].category
  <2>1. s \in Categorised(h)
    BY LinesAre
  <2>2. PICK i \in 1..Len(L) : L[i] = s
    BY <1>1, <2>1, EventsHave
  <2>3. PICK n : n = Len(J) + Len(C) + i
    OBVIOUS
  <2>4. n \in PlanLines(E) /\ E[n].line.category = SourceLines(h)[s].category
    BY <1>1, <2>2, <2>3, LineEvent
  <2> QED BY <2>4
<1>5. P = S
  <2>1. P \subseteq S
    BY <1>3
  <2>2. S \subseteq P
    BY <1>4
  <2> QED BY <2>1, <2>2
<1>6. \A c : PlanTotal(E, c) = SourceTotal(h, r, c)
  BY <1>1, TotalsAgree
<1> HIDE DEF P, S
<1>7. [c \in P |-> PlanTotal(E, c)] = [c \in S |-> SourceTotal(h, r, c)]
  BY <1>5, <1>6
<1>8. PlanMonths(E) = Totals([c \in P |-> PlanTotal(E, c)])
  BY DEF PlanMonths, P
<1>9. SourceMonths(h, r) = Totals([c \in S |-> SourceTotal(h, r, c)])
  BY DEF SourceMonths, S
<1> QED BY <1>1, <1>7, <1>8, <1>9

\* The two reducers say the same.
LEMMA FactsAgree ==
  ASSUME NEW h, NEW r, ReviewAccepted(h, r), IsHistory(h), IsReview(h, r)
  PROVE  PlanFacts(Events(h, r)) = SourceFacts(h, r)
<1>1. PICK E : E = Events(h, r)
  OBVIOUS
<1>2. SourceEvents(h, r) = E
  BY <1>1, EventsAgree
<1>3. \A a : EventBalance(E, a) = SourceBalance(h, r, a)
  BY <1>1, BalancesAgree
<1>4. {<<e.txn, e.of>> : e \in {x \in Range(E) : x.type = "reversed"}} = SourcePairs(h, r)
  BY <1>1, PairsAgree
<1>5. PlanMonths(E) = SourceMonths(h, r)
  BY <1>1, MonthsAgree
<1>6. [a \in Accounts |-> <<EventBalance(E, a), LastTouched(E, a)>>]
         = [a \in Accounts |-> <<SourceBalance(h, r, a), LastTouched(E, a)>>]
  BY <1>3
<1>7. [a \in Cards |-> -EventBalance(E, a)] = SourceCards(h, r)
  BY <1>3 DEF SourceCards
<1>8. PlanFacts(E) =
        [terminal |-> Hash(E, Len(E)),
         balances |-> [a \in Accounts |-> <<SourceBalance(h, r, a), LastTouched(E, a)>>],
         cards |-> SourceCards(h, r), pairs |-> SourcePairs(h, r), months |-> SourceMonths(h, r)]
  BY <1>4, <1>5, <1>6, <1>7 DEF PlanFacts
<1>9. SourceFacts(h, r) =
        [terminal |-> Hash(E, Len(E)),
         balances |-> [a \in Accounts |-> <<SourceBalance(h, r, a), LastTouched(E, a)>>],
         cards |-> SourceCards(h, r), pairs |-> SourcePairs(h, r), months |-> SourceMonths(h, r)]
  BY <1>2 DEF SourceFacts
<1> QED BY <1>1, <1>8, <1>9

\* A compiled plan is bound to its source.
LEMMA CompiledIsBound ==
  ASSUME NEW h, NEW r, ReviewAccepted(h, r), IsHistory(h), IsReview(h, r), Compiled(h, r) # Refused
  PROVE  Bound(Compiled(h, r), h, r) /\ Compiled(h, r).events = Events(h, r)
<1>1. Compilable(h, r) /\ Compiled(h, r) = Drafted(h, r)
  BY CompiledIs
<1>2. Drafted(h, r).events = Events(h, r)
  BY DEF Drafted
<1>3. PlanAccepts(Drafted(h, r))
  BY <1>1, PlanIsAccepted
<1>4. SourceAccepts(h, r)
  BY <1>1, SourceIsAccepted
<1>5. PlanFacts(Events(h, r)) = SourceFacts(h, r)
  BY FactsAgree
<1> QED BY <1>1, <1>2, <1>3, <1>4, <1>5 DEF Bound

-----------------------------------------------------------------------------
(* Which accepted reviews compile *)

\* Nothing that the review does not look at speaks against the plan.
Unopposed(h, r) ==
    /\ Corrected(r) \cap Reversed(h) = {}
    /\ Categorised(h) \cap Reversing(h) = {}
    /\ \A s \in Categorised(h) : h[s].lineUnits <= Debits(Mapped(h, r, s))
    /\ \A s \in Reversing(h) : Mapped(h, r, s) = InversePostings(Mapped(h, r, Target(h, s)))

\* Where an event of the plan comes from.
InJournal(h, r, E, J, n) == n \in 1..Len(J) /\ J[n] \in Sources /\ E[n] = EventOf(h, r, J[n])
InCorrections(h, r, E, J, C, n) ==
    \E i \in 1..Len(C) : n = Len(J) + i /\ C[i] \in Corrected(r) /\ E[n] = Neutralised(h, r, C[i])
InLines(h, E, J, C, L, n) ==
    \E i \in 1..Len(L) : n = Len(J) + Len(C) + i /\ L[i] \in Categorised(h) /\ E[n] = Assigned(h, L[i])

\* Every event comes from one of the three.
LEMMA OneOfThree ==
  ASSUME NEW h, NEW r, NEW E, NEW J, NEW C, NEW L, Layout(h, r, E, J, C, L), NEW n \in DOMAIN E
  PROVE  InJournal(h, r, E, J, n) \/ InCorrections(h, r, E, J, C, n) \/ InLines(h, E, J, C, L, n)
BY WhichEvent DEF InJournal, InCorrections, InLines

\* The event of a source.
LEMMA JournalEvent ==
  ASSUME NEW h, NEW r, NEW E, NEW J, NEW n, InJournal(h, r, E, J, n)
  PROVE  /\ E[n].txn = Txn(J[n]) /\ E[n].postings = Mapped(h, r, J[n]) /\ n \in 1..Len(J)
         /\ J[n] \in Reversing(h) => E[n].type = "reversed" /\ E[n].of = Txn(Target(h, J[n]))
         /\ J[n] \notin Reversing(h) => E[n].type = "posted"
BY EventOfIs DEF InJournal

\* The event of a correction, by its place.
LEMMA CorrectionEvent ==
  ASSUME NEW h, NEW r, NEW E, NEW J, NEW C, NEW n, InCorrections(h, r, E, J, C, n)
  PROVE  \E i \in 1..Len(C) :
            /\ n = Len(J) + i /\ C[i] \in Corrected(r) /\ E[n].type = "reversed"
            /\ E[n].txn = Correction(C[i]) /\ E[n].of = Txn(C[i])
            /\ E[n].postings = InversePostings(Mapped(h, r, C[i]))
BY DEF InCorrections, Neutralised

\* The event of a line, by its place.
LEMMA LinesEvent ==
  ASSUME NEW h, NEW E, NEW J, NEW C, NEW L, NEW n, InLines(h, E, J, C, L, n)
  PROVE  \E i \in 1..Len(L) :
            /\ n = Len(J) + Len(C) + i /\ L[i] \in Categorised(h) /\ E[n].type = "assigned"
            /\ E[n].txn = Txn(L[i]) /\ E[n].of = Txn(L[i])
            /\ E[n].line.units = h[L[i]].lineUnits /\ E[n].postings = <<>>
BY DEF InLines, Assigned

\* Transactions come before their reversals, both before the lines.
LEMMA RanksAscend ==
  ASSUME NEW h, NEW r, NEW E, NEW J, NEW C, NEW L, Layout(h, r, E, J, C, L)
  PROVE  \A n \in 1..Len(E) - 1 : Rank(E[n].type) <= Rank(E[n + 1].type)
<1> SUFFICES ASSUME NEW n \in 1..Len(E) - 1 PROVE Rank(E[n].type) <= Rank(E[n + 1].type)
  OBVIOUS
<1>1. PICK m : m = n + 1
  OBVIOUS
<1>2. /\ Len(J) \in Nat /\ Len(C) \in Nat /\ Len(L) \in Nat
      /\ Len(E) = Len(J) + Len(C) + Len(L) /\ DOMAIN E = 1..Len(E)
  BY DEF Layout
<1>3. n \in DOMAIN E /\ m \in DOMAIN E /\ n < m
  BY <1>1, <1>2
<1>4. /\ Rank("posted") = 1 /\ Rank("reversed") = 2 /\ Rank("assigned") = 3
  BY DEF Rank
<1>5. ASSUME NEW k \in DOMAIN E
      PROVE  /\ E[k].type \in {"posted", "reversed", "assigned"}
             /\ E[k].type = "posted" => k \in 1..Len(J) /\ J[k] \notin Reversing(h)
             /\ E[k].type = "reversed" => \/ k \in 1..Len(J) /\ J[k] \in Reversing(h)
                                          \/ k > Len(J) /\ k <= Len(J) + Len(C)
             /\ E[k].type = "assigned" => k > Len(J) + Len(C)
  <2>1. CASE InJournal(h, r, E, J, k)
    BY <2>1, JournalEvent
  <2>2. CASE InCorrections(h, r, E, J, C, k)
    <3>1. PICK i \in 1..Len(C) : k = Len(J) + i /\ E[k].type = "reversed"
      BY <2>2, CorrectionEvent
    <3>2. k > Len(J) /\ k <= Len(J) + Len(C)
      BY <1>2, <3>1
    <3> QED BY <3>1, <3>2
  <2>3. CASE InLines(h, E, J, C, L, k)
    <3>1. PICK i \in 1..Len(L) : k = Len(J) + Len(C) + i /\ E[k].type = "assigned"
      BY <2>3, LinesEvent
    <3>2. k > Len(J) + Len(C)
      BY <1>2, <3>1
    <3> QED BY <3>1, <3>2
  <2> QED BY <2>1, <2>2, <2>3, OneOfThree
<1>6. \A i, j \in 1..Len(J) : J[i] \in Reversing(h) /\ J[j] \notin Reversing(h) => j < i
  BY DEF Layout
<1>7. CASE E[m].type = "posted"
  <2>1. m \in 1..Len(J) /\ J[m] \notin Reversing(h)
    BY <1>3, <1>5, <1>7
  <2>2. n \in 1..Len(J)
    BY <1>1, <1>2, <2>1
  <2>3. J[n] \notin Reversing(h)
    BY <1>2, <1>3, <1>6, <2>1, <2>2
  <2>4. E[n].type # "reversed" /\ E[n].type # "assigned"
    BY <1>2, <1>3, <1>5, <2>2, <2>3
  <2>5. E[n].type = "posted"
    BY <1>3, <1>5, <2>4
  <2> QED BY <1>1, <1>4, <1>7, <2>5
<1>8. CASE E[m].type = "reversed"
  <2>1. m <= Len(J) + Len(C)
    BY <1>2, <1>3, <1>5, <1>8
  <2>2. E[n].type # "assigned"
    BY <1>1, <1>2, <1>3, <1>5, <2>1
  <2>3. E[n].type \in {"posted", "reversed"}
    BY <1>3, <1>5, <2>2
  <2> QED BY <1>1, <1>4, <1>8, <2>3
<1>9. CASE E[m].type = "assigned"
  BY <1>1, <1>3, <1>4, <1>5, <1>9
<1> QED BY <1>3, <1>5, <1>7, <1>8, <1>9

\* No transaction has two events, and no line.
LEMMA EventsDiffer ==
  ASSUME NEW h, NEW r, NEW E, NEW J, NEW C, NEW L, Layout(h, r, E, J, C, L),
         NEW m \in DOMAIN E, NEW n \in DOMAIN E, E[m].txn = E[n].txn,
         E[m].type = "assigned" <=> E[n].type = "assigned"
  PROVE  m = n
<1>1. /\ \A i, j \in 1..Len(J) : J[i] = J[j] => i = j
      /\ \A i, j \in 1..Len(C) : C[i] = C[j] => i = j
      /\ \A i, j \in 1..Len(L) : L[i] = L[j] => i = j
  BY DEF Layout, Enumerates
<1>2. CASE E[m].type = "assigned"
  <2>1. InLines(h, E, J, C, L, m) /\ InLines(h, E, J, C, L, n)
    <3>1. ASSUME NEW k \in DOMAIN E, E[k].type = "assigned" PROVE InLines(h, E, J, C, L, k)
      BY <3>1, OneOfThree, JournalEvent, CorrectionEvent
    <3> QED BY <1>2, <3>1
  <2>2. PICK i \in 1..Len(L) : m = Len(J) + Len(C) + i /\ E[m].txn = Txn(L[i])
    BY <2>1, LinesEvent
  <2>3. PICK j \in 1..Len(L) : n = Len(J) + Len(C) + j /\ E[n].txn = Txn(L[j])
    BY <2>1, LinesEvent
  <2>4. L[i] = L[j]
    BY <2>2, <2>3, TxnsDiffer
  <2> QED BY <1>1, <2>2, <2>3, <2>4
<1>3. ASSUME NEW k \in DOMAIN E, E[k].type # "assigned"
      PROVE  \/ k \in 1..Len(J) /\ E[k].txn = Txn(J[k])
             \/ \E i \in 1..Len(C) : k = Len(J) + i /\ E[k].txn = Correction(C[i])
  <2>1. CASE InJournal(h, r, E, J, k)
    BY <2>1, JournalEvent
  <2>2. CASE InCorrections(h, r, E, J, C, k)
    BY <2>2, CorrectionEvent
  <2>3. CASE InLines(h, E, J, C, L, k)
    BY <1>3, <2>3, LinesEvent
  <2> QED BY <2>1, <2>2, <2>3, OneOfThree
<1>4. CASE E[m].type # "assigned" /\ m \in 1..Len(J) /\ E[m].txn = Txn(J[m])
  <2>1. n \in 1..Len(J) /\ E[n].txn = Txn(J[n])
    <3>1. \A i \in 1..Len(C) : E[n].txn # Correction(C[i])
      BY <1>4, TxnsDiffer
    <3> QED BY <1>3, <1>4, <3>1
  <2>2. J[m] = J[n]
    BY <1>4, <2>1, TxnsDiffer
  <2> QED BY <1>1, <1>4, <2>1, <2>2
<1>5. ASSUME E[m].type # "assigned", NEW i \in 1..Len(C), m = Len(J) + i, E[m].txn = Correction(C[i])
      PROVE  m = n
  <2>1. PICK j \in 1..Len(C) : n = Len(J) + j /\ E[n].txn = Correction(C[j])
    <3>1. E[n].txn # Txn(J[n])
      BY <1>5, TxnsDiffer
    <3> QED BY <1>3, <1>5, <3>1
  <2>2. C[i] = C[j]
    BY <1>5, <2>1, TxnsDiffer
  <2> QED BY <1>1, <1>5, <2>1, <2>2
<1> QED BY <1>2, <1>3, <1>4, <1>5

\* Every source has an event.
LEMMA JournalHas ==
  ASSUME NEW h, NEW r, NEW E, NEW J, NEW C, NEW L, Layout(h, r, E, J, C, L), NEW s \in Sources
  PROVE  \E i \in 1..Len(J) : J[i] = s
BY DEF Layout, Enumerates

\* A reversal's original is before it.
LEMMA ReversalsAreSound ==
  ASSUME NEW h, NEW r, Unopposed(h, r), NEW E, NEW J, NEW C, NEW L, Layout(h, r, E, J, C, L),
         Corrected(r) \subseteq Sources, NEW n \in DOMAIN E, E[n].type = "reversed"
  PROVE  ReversalSound(E, n)
<1>1. Len(J) \in Nat /\ Len(C) \in Nat
  BY DEF Layout
<1>2. ASSUME NEW i \in 1..Len(J)
      PROVE  E[i].type # "assigned" /\ E[i].txn = Txn(J[i]) /\ E[i].postings = Mapped(h, r, J[i])
  <2>1. PICK s : s = J[i] /\ s \in Sources /\ E[i] = EventOf(h, r, s)
    BY EventsHave
  <2> QED BY <2>1, EventOfIs
<1>3. CASE InJournal(h, r, E, J, n)
  <2>1. PICK s : /\ s = J[n] /\ s \in Reversing(h) /\ n \in 1..Len(J)
                 /\ E[n].of = Txn(Target(h, s)) /\ E[n].postings = Mapped(h, r, s)
    BY <1>3, JournalEvent
  <2>2. PICK i \in 1..Len(J), j \in 1..Len(J) : i < j /\ J[i] = Target(h, s) /\ J[j] = s
    BY <2>1 DEF Layout
  <2>3. j = n
    BY <2>1, <2>2 DEF Layout, Enumerates
  <2>4. i \in 1..n - 1
    BY <1>1, <2>1, <2>2, <2>3
  <2>5. Mapped(h, r, s) = InversePostings(Mapped(h, r, Target(h, s)))
    BY <2>1 DEF Unopposed
  <2>6. E[i].postings = Mapped(h, r, Target(h, s)) /\ E[i].txn = Txn(Target(h, s)) /\ E[i].type # "assigned"
    BY <1>2, <2>2
  <2>7. E[n].postings = InversePostings(E[i].postings)
    BY <2>1, <2>5, <2>6
  <2> QED BY <2>1, <2>4, <2>6, <2>7 DEF ReversalSound
<1>4. CASE InCorrections(h, r, E, J, C, n)
  <2>1. PICK k \in 1..Len(C) : /\ n = Len(J) + k /\ C[k] \in Corrected(r) /\ E[n].of = Txn(C[k])
                               /\ E[n].postings = InversePostings(Mapped(h, r, C[k]))
    BY <1>4, CorrectionEvent
  <2>2. PICK i \in 1..Len(J) : J[i] = C[k]
    <3>1. PICK s : s = C[k] /\ s \in Sources
      BY <2>1
    <3> QED BY <3>1, JournalHas
  <2>3. i \in 1..n - 1
    BY <1>1, <2>1, <2>2
  <2>4. E[i].postings = Mapped(h, r, C[k]) /\ E[i].txn = Txn(C[k]) /\ E[i].type # "assigned"
    BY <1>2, <2>2
  <2>5. E[n].postings = InversePostings(E[i].postings)
    BY <2>1, <2>4
  <2> QED BY <2>1, <2>3, <2>4, <2>5 DEF ReversalSound
<1>5. CASE InLines(h, E, J, C, L, n)
  <2>1. E[n].type = "assigned"
    BY <1>5, LinesEvent
  <2> QED BY <2>1
<1> QED BY <1>3, <1>4, <1>5, OneOfThree

\* A line's transaction is before it, and is as large.
LEMMA AssignmentsAreSound ==
  ASSUME NEW h, NEW r, Unopposed(h, r), NEW E, NEW J, NEW C, NEW L, Layout(h, r, E, J, C, L),
         NEW n \in DOMAIN E, E[n].type = "assigned"
  PROVE  AssignmentSound(E, n)
<1>1. Len(J) \in Nat /\ Len(C) \in Nat
  BY DEF Layout
<1>2. InLines(h, E, J, C, L, n)
  BY OneOfThree, JournalEvent, CorrectionEvent
<1>3. PICK k \in 1..Len(L) : /\ n = Len(J) + Len(C) + k /\ L[k] \in Categorised(h) /\ E[n].of = Txn(L[k])
                             /\ E[n].line.units = h[L[k]].lineUnits
  BY <1>2, LinesEvent
<1>4. PICK s : s = L[k] /\ s \in Sources /\ s \notin Reversing(h) /\ h[s].lineUnits <= Debits(Mapped(h, r, s))
  BY <1>3, LineIs DEF Unopposed
<1>5. PICK i \in 1..Len(J) : J[i] = s
  BY <1>4, JournalHas
<1>6. i \in 1..n - 1
  BY <1>1, <1>3, <1>5
<1>7. E[i] = EventOf(h, r, s)
  BY <1>5, EventsHave
<1>8. E[i].type = "posted" /\ E[i].txn = Txn(s) /\ E[i].postings = Mapped(h, r, s)
  BY <1>4, <1>7, EventOfIs
<1> QED BY <1>3, <1>4, <1>6, <1>8 DEF AssignmentSound

\* A source outside the scope of the review touches no card.
LEMMA OutsideScope ==
  ASSUME NEW h, NEW r, ReviewAccepted(h, r), IsHistory(h), IsReview(h, r), NEW a \in Cards,
         NEW s \in Sources \ Scope(h), NEW i \in DOMAIN Mapped(h, r, s)
  PROVE  Mapped(h, r, s)[i].account # a
<1>1. s \notin DOMAIN r.postings
  BY DEF ReviewAccepted
<1>2. i \in DOMAIN h[s].postings
  BY MappedAre
<1>3. Mapped(h, r, s)[i] = Normalized(h[s].postings[i])
  BY <1>1, <1>2 DEF Mapped
<1>4. Mapped(h, r, s)[i].account = h[s].postings[i].account
  BY <1>3 DEF Normalized
<1> QED BY <1>2, <1>4 DEF Scope

\* Every transaction of the plan balances.
LEMMA EventsBalance ==
  ASSUME NEW h, NEW r, ReviewAccepted(h, r), IsHistory(h), IsReview(h, r),
         NEW E, NEW J, NEW C, NEW L, Layout(h, r, E, J, C, L), NEW n \in DOMAIN E
  PROVE  Balanced(E[n].postings)
<1>1. CASE InJournal(h, r, E, J, n)
  <2>1. PICK s : s = J[n] /\ s \in Sources
    BY <1>1 DEF InJournal
  <2>2. E[n].postings = Mapped(h, r, s)
    BY <1>1, <2>1, JournalEvent
  <2> QED BY <2>1, <2>2, MappedBalance
<1>2. CASE InCorrections(h, r, E, J, C, n)
  <2>1. PICK s : s \in Sources /\ E[n].postings = InversePostings(Mapped(h, r, s))
    BY <1>2, CorrectionEvent, SourceSets
  <2>2. PICK ps, qs : ps = Mapped(h, r, s) /\ qs = InversePostings(ps)
    OBVIOUS
  <2>3. ps \in Seq(PostingRecords) /\ Balanced(ps)
    BY <2>1, <2>2, MappedAre, MappedBalance
  <2>4. Balanced(qs)
    BY <2>2, <2>3, InverseIs
  <2> QED BY <2>1, <2>2, <2>4
<1>3. CASE InLines(h, E, J, C, L, n)
  <2>1. E[n].postings = <<>>
    BY <1>3, LinesEvent
  <2> QED BY <2>1, NothingMoves
<1> QED BY <1>1, <1>2, <1>3, OneOfThree

\* An accepted review compiles when nothing outside it is in the way.
LEMMA ReviewCompiles ==
  ASSUME NEW h, NEW r, ReviewAccepted(h, r), IsHistory(h), IsReview(h, r), Unopposed(h, r)
  PROVE  Compiled(h, r) = Drafted(h, r)
<1>1. PICK E, J, C, L : E = Events(h, r) /\ Layout(h, r, E, J, C, L)
  BY LayoutIs
<1>2. PICK P : P = Drafted(h, r)
  OBVIOUS
<1>3. P.events = E /\ P.natural = [a \in Cards |-> -EventBalance(E, a)]
  BY <1>1, <1>2 DEF Drafted
<1>4. \A a \in Cards : ExpectedNatural(h, r, a) = -EventBalance(E, a)
  BY <1>1, ExpectedIs, OutsideScope
<1>5. P.natural = r.expected
  <2>1. r.expected \in [Cards -> Int] /\ \A a \in Cards : r.expected[a] = ExpectedNatural(h, r, a)
    BY DEF ReviewAccepted, IsReview
  <2> QED BY <1>3, <1>4, <2>1
<1>6. P.natural[Alias] = 0
  <2>1. Alias \in Cards /\ ExpectedNatural(h, r, Alias) = 0
    BY HistoryAssumption DEF ReviewAccepted
  <2> QED BY <1>3, <1>4, <2>1
<1>7. Topology(E)
  BY <1>1, RanksAscend, EventsDiffer DEF Topology
<1>8. Corrected(r) \subseteq Sources
  BY SourceSets
<1>9. \A n \in DOMAIN E : /\ Balanced(E[n].postings)
                          /\ E[n].type = "reversed" => ReversalSound(E, n)
                          /\ E[n].type = "assigned" => AssignmentSound(E, n)
  BY <1>1, <1>8, EventsBalance, ReversalsAreSound, AssignmentsAreSound
<1>10. ValidPlan(P)
  BY <1>3, <1>6, <1>7, <1>9 DEF ValidPlan
<1> QED BY <1>2, <1>5, <1>10 DEF Compiled, Unopposed, ReviewAccepted

\* The debits of a transaction are a number.
LEMMA DebitsAreInt ==
  ASSUME NEW ps, ps \in Seq(PostingRecords)
  PROVE  Debits(ps) \in Int
<1>1. PICK F, S : F = DebitColumn(ps) /\ S = DOMAIN ps
  OBVIOUS
<1>2. \A i \in S : ps[i] \in PostingRecords
  BY <1>1
<1>3. \A i \in S : F[i] \in Int
  BY <1>1, <1>2 DEF DebitColumn, PostingRecords
<1>4. IsFiniteSet(S)
  BY <1>1, NetIs DEF Summable
<1>5. Summable(F, S)
  BY <1>3, <1>4 DEF Summable
<1> QED BY <1>1, <1>5, TotalIsInt, DebitsIsTotal

-----------------------------------------------------------------------------
(* What the runs check *)

\* A plan appears when it is compiled, and stays.
LEMMA PlanAppears ==
  ASSUME FInv, [Next]_vars, plan' # plan
  PROVE  /\ case' = case /\ plan' = Compiled(case.rows, case.review)
         /\ ReviewAccepted(case.rows, case.review) /\ case \in Cases
<1>1. Plan
  <2>1. ASSUME NEW r \in Runners PROVE ~(\/ Reserve(r) \/ LockHead(r) \/ Fence(r) \/ Commit(r)
                                         \/ Answer(r) \/ Die(r) \/ Again(r))
    BY DEF Reserve, LockHead, Fence, Commit, Answer, Die, Again
  <2>2. ~CreateBegins /\ ~CreateEnds
    BY DEF CreateBegins, CreateEnds
  <2>3. ASSUME NEW a \in Baseline PROVE ~ChangeStatus(a)
    BY DEF ChangeStatus
  <2>4. ASSUME NEW a \in Baseline, NEW b \in Baseline PROVE ~Post(a, b)
    BY DEF Post
  <2>5. ~UNCHANGED vars
    BY DEF vars
  <2> QED BY <2>1, <2>2, <2>3, <2>4, <2>5 DEF Next
<1> QED BY <1>1 DEF Plan, FInv, ImportTypeOK

\* The receipt appears with the commit.
LEMMA ReceiptAppears ==
  ASSUME FInv, [Next]_vars, receipt' # receipt
  PROVE  \E r \in Runners : Commit(r)
<1>1. ASSUME NEW r \in Runners PROVE ~(Reserve(r) \/ LockHead(r) \/ Fence(r) \/ Answer(r) \/ Die(r) \/ Again(r))
  BY DEF Reserve, LockHead, Fence, Answer, Die, Again, bookVars
<1>2. ~Plan /\ ~CreateBegins /\ ~CreateEnds
  BY DEF Plan, CreateBegins, CreateEnds, bookVars
<1>3. ASSUME NEW a \in Baseline PROVE ~ChangeStatus(a)
  BY DEF ChangeStatus
<1>4. ASSUME NEW a \in Baseline, NEW b \in Baseline PROVE ~Post(a, b)
  BY DEF Post
<1>5. ~UNCHANGED vars
  BY DEF vars, bookVars
<1> QED BY <1>1, <1>2, <1>3, <1>4, <1>5 DEF Next

\* A compiled plan says what its source says: the planner and the two reducers agree on
\* every history and every review (compile_frozen_financial_history_plan,
\* reduce_canonical_plan, reduce_frozen_source_rows).
LEMMA PlanTells ==
  FInv /\ [Next]_vars => (plan' \notin {plan, Refused} => Bound(plan', case.rows, case.review))
<1> SUFFICES ASSUME FInv, [Next]_vars, plan' # plan, plan' # Refused
             PROVE  Bound(plan', case.rows, case.review)
  OBVIOUS
<1>1. PICK h, r : h = case.rows /\ r = case.review
  OBVIOUS
<1>2. plan' = Compiled(h, r) /\ ReviewAccepted(h, r) /\ IsHistory(h) /\ IsReview(h, r)
  BY <1>1, PlanAppears, CasesAreHistories
<1>3. Bound(Compiled(h, r), h, r)
  BY <1>2, CompiledIsBound
<1> QED BY <1>1, <1>2, <1>3

\* The planner refuses an accepted review only for what the review does not look at.
LEMMA ReviewIsEnough ==
  FInv /\ [Next]_vars =>
    LET h == case.rows
        r == case.review
    IN  plan' # plan /\ plan' = Refused =>
          \/ Corrected(r) \cap Reversed(h) # {}
          \/ Categorised(h) \cap Reversing(h) # {}
          \/ \E s \in Categorised(h) : h[s].lineUnits > Debits(Mapped(h, r, s))
          \/ \E s \in Reversing(h) :
               Mapped(h, r, s) # InversePostings(Mapped(h, r, Target(h, s)))
<1>1. PICK h, r : h = case.rows /\ r = case.review
  OBVIOUS
<1> SUFFICES ASSUME FInv, [Next]_vars, plan' # plan, plan' = Refused
             PROVE  \/ Corrected(r) \cap Reversed(h) # {}
                    \/ Categorised(h) \cap Reversing(h) # {}
                    \/ \E s \in Categorised(h) : h[s].lineUnits > Debits(Mapped(h, r, s))
                    \/ \E s \in Reversing(h) :
                         Mapped(h, r, s) # InversePostings(Mapped(h, r, Target(h, s)))
  BY <1>1
<1>2. /\ plan' = Compiled(h, r) /\ ReviewAccepted(h, r) /\ IsHistory(h) /\ IsReview(h, r)
      /\ Drafted(h, r) # Refused
  BY <1>1, PlanAppears, CasesAreHistories
<1>3. ~Unopposed(h, r)
  BY <1>2, ReviewCompiles
<1>4. ASSUME NEW s \in Categorised(h), ~(h[s].lineUnits <= Debits(Mapped(h, r, s)))
      PROVE  h[s].lineUnits > Debits(Mapped(h, r, s))
  <2>1. s \in Sources
    BY LineIs
  <2>2. h[s].lineUnits \in Int
    BY <1>2, <2>1 DEF IsHistory
  <2>3. Debits(Mapped(h, r, s)) \in Int
    BY <1>2, <2>1, MappedAre, DebitsAreInt
  <2> QED BY <1>4, <2>2, <2>3
<1> QED BY <1>3, <1>4 DEF Unopposed

\* The import lands in the catalog it was planned for, and verifies.
LEMMA CommitIsExact ==
  FInv /\ [Next]_vars => (receipt' # receipt => status' = Planned /\ Verified')
<1> SUFFICES ASSUME FInv, [Next]_vars, receipt' # receipt PROVE status' = Planned /\ Verified'
  OBVIOUS
<1>1. PICK z \in Runners : Commit(z)
  BY ReceiptAppears
<1>2. /\ HasPlan /\ case \in Carried /\ log' = plan.events /\ status' = Planned
      /\ archive' = TRUE /\ case' = case
  BY <1>1, CommitIs DEF Commit
<1>3. PICK h, r : h = case.rows /\ r = case.review
  OBVIOUS
<1>4. /\ plan = Compiled(h, r) /\ Compiled(h, r) # Refused /\ ReviewAccepted(h, r)
      /\ IsHistory(h) /\ IsReview(h, r)
  BY <1>2, <1>3, CasesAreHistories DEF FInv, ImportTypeOK, HasPlan
<1>5. PlanFacts(plan.events) = SourceFacts(h, r)
  BY <1>4, CompiledIsBound DEF Bound
<1>6. PlanFacts(log') = SourceFacts(h, r)
  BY <1>2, <1>5
<1>7. Reference[case] = SourceFacts(h, r)
  BY <1>2, <1>3 DEF Reference
<1>8. StoredFacts' = PlanFacts(log')
  BY DEF StoredFacts
<1>9. Verified' = (archive' /\ StoredFacts' = Reference[case'])
  BY DEF Verified, Reference
<1> QED BY <1>2, <1>6, <1>7, <1>8, <1>9

\* The planner and the source reducer agree on every accepted review, for any histories and
\* reviews: on what the plan says, and on when there is one
\* (compile_frozen_financial_history_plan, bind_source_reference).
THEOREM PlansAlwaysAgree == Spec => PlansAgree
<1>1. Spec => []FInv
  BY ImportInvariance
<1>2. Spec => PlanTellsTheSource
  BY <1>1, PlanTells, PTL DEF Spec, PlanTellsTheSource
<1>3. Spec => AcceptedReviewCompiles
  BY <1>1, ReviewIsEnough, PTL DEF Spec, AcceptedReviewCompiles
<1> QED BY <1>2, <1>3, PTL DEF PlansAgree

\* The import is whole and exact, for any number of runners, of runs by each and of posts
\* and status changes between them (import_frozen_financial_history, verify_frozen_history).
THEOREM ImportIsAlwaysFaithful == Spec => ImportIsFaithful
<1>1. Spec => []FInv
  BY ImportInvariance
<1>2. Spec => []ImportIsWhole
  BY <1>1, WholeIs, PTL
<1>3. Spec => ImportIsExact
  BY <1>1, CommitIsExact, PTL DEF Spec, ImportIsExact
<1> QED BY <1>2, <1>3, PTL DEF ImportIsFaithful

=============================================================================
