--------------------------- MODULE CommandBusProofs ---------------------------
(***************************************************************************)
(* Proofs about CommandBus: type correctness, that a receipt owns exactly  *)
(* its command's events, that a success told to a client is the committed  *)
(* receipt, that a paused Book is frozen and that commits are authorized,  *)
(* for every set of workers, requests, streams and membership states.      *)
(*                                                                         *)
(* The inductive invariant IInv adds to these what the locks guarantee     *)
(* between statements: who holds what (Exclusion), what an open            *)
(* transaction has seen and prepared (TxOK), and that the auditor and new  *)
(* receipts exclude one another (AuditExclusion).                          *)
(*                                                                         *)
(* The second part is what the commits add up to: the history of a Book is *)
(* one chain without lost updates, the auditor never raises a false alarm, *)
(* an asset code is created once, and the bus implements                   *)
(* ExactlyOnceLedger.  HInv adds to IInv the shape of the committed rows   *)
(* (Chain, StreamChain, Projected, AssetRows), what a commit is about to   *)
(* add to them (BatchOK, BodyOK, AssetExclusion), and what a receipt says  *)
(* of the versions its client expected (ReceiptsAccepted).                 *)
(***************************************************************************)
EXTENDS CommandBus, FiniteSetTheorems, SequenceTheorems, TLAPS

Exclusion ==
    \A v, w \in Workers : v # w =>
        /\ pc[v] \in HasReceipt /\ pc[w] \in HasReceipt => req[v].key # req[w].key
        /\ Created(v) /\ Created(w) => req[v].cmd # req[w].cmd
        /\ ~(HoldsHead(v) /\ HoldsHead(w))

BatchPositions(w) ==
    tx[w].base.pos + 1 .. tx[w].base.pos + Len(req[w].events)

\* What is known of worker w's transaction at each of its statements.
TxOK(w) ==
    /\ pc[w] \in {"idle", "authorize"} => tx[w] = NoTx
    /\ pc[w] \in InTransaction =>
         /\ tx[w].scope = member
         /\ member \in WriteStates[req[w].kind]
    /\ pc[w] = "reserve" => ~Created(w) /\ tx[w].result = NoResult
    /\ pc[w] \in {"lock", "handle", "complete"} => Created(w)
    /\ pc[w] = "lock" => req[w].kind = "ledger"
    /\ Created(w) =>
         \A x \in receipts : x.key # req[w].key /\ x.cmd # req[w].cmd
    /\ HoldsHead(w) => tx[w].base = head /\ writeState = "active"
    /\ HoldsHead(w) /\ pc[w] \in {"complete", "commit"} =>
         /\ {e.pos : e \in tx[w].batch} = BatchPositions(w)
         /\ \A e \in tx[w].batch : e.id[1] = req[w].cmd
    /\ ~(HoldsHead(w) /\ pc[w] \in {"complete", "commit"}) => tx[w].batch = {}
    /\ IsFiniteSet(tx[w].batch)
    /\ HoldsHead(w) /\ pc[w] = "commit" =>
         /\ tx[w].result.first = tx[w].base.pos + 1
         /\ tx[w].result.last = tx[w].base.pos + Len(req[w].events)
    /\ Created(w) /\ req[w].kind = "asset" => tx[w].result.first = 0
    /\ pc[w] = "commit" /\ ~Created(w) =>
         \E x \in receipts : /\ x.key = req[w].key
                             /\ x.hash[2] = req[w].payload
                             /\ x.result = tx[w].result

AuditExclusion == audit.pc # "idle" => \A w \in Workers : ~Created(w)

LogPositions == \A e \in log : e.pos \in 1..head.pos

IInv ==
    /\ TypeOK
    /\ Exclusion
    /\ \A w \in Workers : TxOK(w)
    /\ AuditExclusion
    /\ LogPositions
    /\ ReceiptsOwnTheLog
    /\ SuccessIsTheReceipt
-----------------------------------------------------------------------------
(* Facts about the constants *)

\* The fields of a request have the types the operators of CommandBus rely on.
LEMMA RequestFacts ==
  ASSUME NEW r \in Requests
  PROVE  /\ r.key \in Keys /\ r.cmd \in Commands /\ r.payload \in Payloads
         /\ r.kind \in {"ledger", "asset"} /\ r.asset \in Assets
         /\ r.events \in Seq(Streams)
         /\ Len(r.events) \in Nat
         /\ \A i \in 1..Len(r.events) : r.events[i] \in Streams
         /\ r.kind = "ledger" => Len(r.events) > 0
<1>1. r.events \in Seq(Streams) /\ (r.kind = "ledger" => r.events # <<>>)
  BY RequestsAssumption
<1>2. Len(r.events) \in Nat /\ \A i \in 1..Len(r.events) : r.events[i] \in Streams
  BY <1>1
<1>3. r.kind = "ledger" => Len(r.events) > 0
  BY <1>1
<1>4. r.kind \in {"ledger", "asset"} /\ r.asset \in Assets
  BY RequestsAssumption
<1> QED BY <1>1, <1>2, <1>3, <1>4 DEF Keys, Commands, Payloads

\* The record of a closed transaction and the request of an idle thread are typed.
LEMMA IdleFacts ==
  /\ NoTx \in Transactions /\ AnyRequest \in Requests
  /\ NoTx.created = FALSE /\ NoTx.batch = {}
<1>1. MemberStates # {} /\ Requests # {}
  BY RequestsAssumption
<1>2. (CHOOSE m \in MemberStates : TRUE) \in MemberStates
  BY <1>1
<1>3. AnyRequest \in Requests
  BY <1>1 DEF AnyRequest
<1>4. [pos |-> 0, hash |-> Genesis] \in Heads
  BY DEF Heads, EventIds
<1>5. NoResult \in Results
  BY DEF NoResult, Results
<1> QED BY <1>2, <1>3, <1>4, <1>5 DEF NoTx, Transactions

-----------------------------------------------------------------------------
(* Frames *)

\* A transaction is undisturbed by steps that leave it and the rows it saw alone.
LEMMA FrameTx ==
  ASSUME NEW v \in Workers, TxOK(v),
         pc'[v] = pc[v], req'[v] = req[v], tx'[v] = tx[v],
         UNCHANGED <<member, writeState, receipts, head>>
  PROVE  TxOK(v)'
BY DEF TxOK, Created, HoldsHead, BatchPositions

\* The end of worker w's transaction without a commit: rollback, crash or retry.
Ends(w, label) ==
    /\ pc' = [pc EXCEPT ![w] = label]
    /\ tx' = [tx EXCEPT ![w] = NoTx]
    /\ req' \in [Workers -> Requests]
    /\ \A v \in Workers \ {w} : req'[v] = req[v]
    /\ attempt' \in [Workers -> 1..MaxAttempts]
    /\ UNCHANGED <<books, audit>>

\* Finish and RetryOrRaise end a transaction.
LEMMA FinishEnds ==
  ASSUME TypeOK, NEW w \in Workers, UNCHANGED <<books, audit>>
  PROVE  /\ Finish(w) => Ends(w, "idle")
         /\ RetryOrRaise(w) => Ends(w, "idle") \/ Ends(w, "authorize")
<1>1. Finish(w) => Ends(w, "idle")
  BY IdleFacts, RequestsAssumption DEF Finish, Goto, Ends, TypeOK
<1>2. ASSUME RetryOrRaise(w), attempt[w] < MaxAttempts
      PROVE  Ends(w, "authorize")
  <2>1. attempt' \in [Workers -> 1..MaxAttempts]
    BY <1>2, RequestsAssumption DEF RetryOrRaise, TypeOK
  <2> QED BY <1>2, <2>1 DEF RetryOrRaise, Goto, Ends, TypeOK
<1> QED BY <1>1, <1>2 DEF RetryOrRaise

\* The locks of the other workers are what they were when w's transaction ends.
LEMMA EndsExclusion ==
  ASSUME IInv, NEW w \in Workers, NEW label \in {"idle", "authorize"}, Ends(w, label)
  PROVE  /\ Exclusion' /\ AuditExclusion'
         /\ ~Created(w)'
         /\ \A v \in Workers \ {w} :
              pc'[v] = pc[v] /\ req'[v] = req[v] /\ tx'[v] = tx[v]
<1>1. /\ pc'[w] = label /\ ~Created(w)'
      /\ \A v \in Workers \ {w} : pc'[v] = pc[v] /\ req'[v] = req[v] /\ tx'[v] = tx[v]
  BY IdleFacts DEF Ends, IInv, TypeOK, Created
<1>2. Exclusion'
  BY <1>1 DEF Exclusion, IInv, Created, HoldsHead, HasReceipt
<1>3. AuditExclusion'
  BY <1>1 DEF AuditExclusion, IInv, Created, Ends
<1> QED BY <1>1, <1>2, <1>3

\* A closed transaction satisfies what is known of it.
LEMMA EndsTx ==
  ASSUME IInv, NEW w \in Workers, NEW label \in {"idle", "authorize"}, Ends(w, label)
  PROVE  TxOK(w)'
<1>1. pc'[w] = label /\ tx'[w] = NoTx
  BY DEF Ends, IInv, TypeOK
<1> QED BY <1>1, IdleFacts, FS_EmptySet
        DEF TxOK, Created, HoldsHead, InTransaction

\* Ending a transaction without a commit preserves the invariant.
LEMMA EndKeepsIInv ==
  ASSUME IInv, NEW w \in Workers, NEW label \in {"idle", "authorize"},
         Ends(w, label), UNCHANGED <<rows, answers>>
  PROVE  IInv'
<1>1. TypeOK'
  BY IdleFacts DEF IInv, TypeOK, Ends, rows, books
<1>2. \A v \in Workers : TxOK(v)'
  BY EndsTx, EndsExclusion, FrameTx DEF IInv, Ends, rows, books
<1>3. LogPositions' /\ ReceiptsOwnTheLog' /\ SuccessIsTheReceipt'
  BY DEF IInv, LogPositions, ReceiptsOwnTheLog, SuccessIsTheReceipt, EventsOf, rows
<1> QED BY <1>1, <1>2, <1>3, EndsExclusion DEF IInv
-----------------------------------------------------------------------------
(* The commit *)

\* A worker with a new receipt is past its reservation.
LEMMA CreatedHasReceipt ==
  ASSUME IInv, NEW w \in Workers, Created(w)
  PROVE  pc[w] \in HasReceipt
BY IdleFacts DEF IInv, TypeOK, TxOK, Created, HasReceipt, InTransaction

\* A range of at least one position starts with the position after its base.
LEMMA FirstOfRange ==
  ASSUME NEW b \in Nat, NEW n \in Nat, n > 0
  PROVE  b + 1 \in b + 1 .. b + n
OBVIOUS

\* The shape of a batch at its commit: the whole range for a ledger command that holds
\* the head, nothing for an asset.
LEMMA BatchAtCommit ==
  ASSUME IInv, NEW w \in Workers, pc[w] = "commit", Created(w)
  PROVE  /\ req[w].kind = "ledger" =>
              /\ HoldsHead(w) /\ tx[w].base = head
              /\ {e.pos : e \in tx[w].batch} = BatchPositions(w)
              /\ \A e \in tx[w].batch : e.id[1] = req[w].cmd
              /\ tx[w].batch # {}
              /\ tx[w].result.first = head.pos + 1
              /\ tx[w].result.last = head.pos + Len(req[w].events)
         /\ req[w].kind = "asset" =>
              tx[w].batch = {} /\ tx[w].result.first = 0
<1>1. CASE req[w].kind = "ledger"
  <2>1. HoldsHead(w)
    BY <1>1 DEF HoldsHead
  <2>2. Len(req[w].events) \in Nat /\ Len(req[w].events) > 0 /\ tx[w].base.pos \in Nat
    BY <1>1, RequestFacts DEF IInv, TypeOK, Transactions, Heads
  <2>3. tx[w].base.pos + 1 \in BatchPositions(w)
    BY <2>2, FirstOfRange DEF BatchPositions
  <2>4. {e.pos : e \in tx[w].batch} = BatchPositions(w) /\ tx[w].base = head
    BY <2>1 DEF IInv, TxOK
  <2>5. tx[w].batch # {}
    BY <2>3, <2>4
  <2> QED BY <1>1, <2>1, <2>4, <2>5 DEF IInv, TxOK
<1>2. CASE req[w].kind = "asset"
  BY <1>2 DEF IInv, TxOK, HoldsHead
<1> QED BY <1>1, <1>2, RequestFacts DEF IInv, TypeOK

\* The other transactions survive a commit: they wait for other keys and commands, and
\* no other holds the head when it moves.
LEMMA PublishTx ==
  ASSUME IInv, NEW w \in Workers, NEW label \in {"idle", "authorize"},
         pc[w] = "commit", Publish(w), Ends(w, label), NEW v \in Workers \ {w}
  PROVE  TxOK(v)'
<1>1. pc'[v] = pc[v] /\ req'[v] = req[v] /\ tx'[v] = tx[v] /\ v \in Workers
  BY EndsExclusion
<1>2. UNCHANGED <<member, writeState>>
  BY DEF Ends, books
<1>3. CASE ~Created(w)
  BY <1>1, <1>2, <1>3, FrameTx DEF IInv, Publish, rows
<1>4. CASE Created(w)
  <2>1. receipts' = receipts \cup {NewReceipt(w)}
    BY <1>4 DEF Publish
  <2>2. Created(v) => NewReceipt(w).key # req[v].key /\ NewReceipt(w).cmd # req[v].cmd
    BY <1>4, CreatedHasReceipt DEF IInv, Exclusion, NewReceipt, HasReceipt
  <2>3. HoldsHead(v) => head' = head
    <3>1. HoldsHead(v) => ~HoldsHead(w)
      BY DEF IInv, Exclusion
    <3>2. HoldsHead(v) => tx[w].batch = {}
      BY <3>1 DEF IInv, TxOK
    <3> QED BY <3>2, <1>4 DEF Publish, NewHead
  <2> QED BY <1>1, <1>2, <2>1, <2>2, <2>3
          DEF IInv, TxOK, Created, HoldsHead, BatchPositions
<1> QED BY <1>3, <1>4

\* The commit of a new receipt keeps the ranges: its events are the only ones of its
\* command, and the events of the others are untouched.
LEMMA PublishRanges ==
  ASSUME IInv, NEW w \in Workers, pc[w] = "commit", Publish(w), Created(w)
  PROVE  ReceiptsOwnTheLog' /\ LogPositions'
<1> DEFINE r == req[w]
           n == NewReceipt(w)
<1>1. /\ receipts' = receipts \cup {n} /\ log' = log \cup tx[w].batch
      /\ n.key = r.key /\ n.cmd = r.cmd /\ n.result = tx[w].result
  BY DEF Publish, NewReceipt
<1>2. \A x \in receipts : x.key # r.key /\ x.cmd # r.cmd
  BY DEF IInv, TxOK
<1>3. \A e \in log : e.id[1] # r.cmd
  BY <1>2 DEF IInv, ReceiptsOwnTheLog
<1>4. \A e \in tx[w].batch : e.id[1] = r.cmd
  BY BatchAtCommit, RequestFacts DEF IInv, TypeOK
<1>5. head.pos \in Nat /\ Len(r.events) \in Nat
  BY RequestFacts DEF IInv, TypeOK, Heads
<1>6. {e.pos : e \in tx[w].batch} =
        IF n.result.first = 0 THEN {} ELSE n.result.first .. n.result.last
  <2>1. CASE r.kind = "ledger"
    BY <1>1, <1>5, <2>1, BatchAtCommit DEF BatchPositions
  <2>2. CASE r.kind = "asset"
    BY <1>1, <2>2, BatchAtCommit
  <2> QED BY <2>1, <2>2, RequestFacts DEF IInv, TypeOK
<1>7. {e \in log' : e.id[1] = n.cmd} = tx[w].batch
  BY <1>1, <1>3, <1>4
<1>8. \A x \in receipts : {e \in log' : e.id[1] = x.cmd} = EventsOf(x.cmd)
  BY <1>1, <1>2, <1>4 DEF EventsOf
<1>9. ReceiptsOwnTheLog'
  <2>1. \A x, y \in receipts' : (x.key = y.key \/ x.cmd = y.cmd) => x = y
    BY <1>1, <1>2 DEF IInv, ReceiptsOwnTheLog
  <2>2. ASSUME NEW x \in receipts'
        PROVE  {e.pos : e \in {f \in log' : f.id[1] = x.cmd}} =
                 IF x.result.first = 0 THEN {} ELSE x.result.first .. x.result.last
    <3>1. \A y \in receipts :
             {e.pos : e \in EventsOf(y.cmd)} =
               IF y.result.first = 0 THEN {} ELSE y.result.first .. y.result.last
      BY DEF IInv, ReceiptsOwnTheLog
    <3>2. CASE x = n
      BY <1>6, <1>7, <3>2
    <3>3. CASE x \in receipts
      BY <1>8, <3>1, <3>3
    <3> QED BY <1>1, <3>2, <3>3
  <2>3. \A e \in log' : \E x \in receipts' : x.cmd = e.id[1]
    BY <1>1, <1>4 DEF IInv, ReceiptsOwnTheLog
  <2> QED BY <2>1, <2>2, <2>3 DEF ReceiptsOwnTheLog, EventsOf
<1>10. LogPositions'
  <2>1. CASE r.kind = "ledger"
    <3>1. head'.pos = head.pos + Len(r.events)
      BY <2>1, BatchAtCommit DEF Publish, NewHead
    <3>2. \A e \in tx[w].batch : e.pos \in head.pos + 1 .. head.pos + Len(r.events)
      BY <2>1, BatchAtCommit DEF BatchPositions
    <3> QED BY <1>1, <1>5, <3>1, <3>2 DEF IInv, LogPositions
  <2>2. CASE r.kind = "asset"
    BY <1>1, <2>2, BatchAtCommit DEF IInv, LogPositions, Publish, NewHead
  <2> QED BY <2>1, <2>2, RequestFacts DEF IInv, TypeOK
<1> QED BY <1>9, <1>10

\* The rows a commit leaves, and the answer that goes with it, have their types.
LEMMA PublishTypeOK ==
  ASSUME IInv, NEW w \in Workers, NEW label \in {"idle", "authorize"},
         pc[w] = "commit", Publish(w), Ends(w, label),
         answers' \in {answers, answers \cup {[req |-> req[w], result |-> tx[w].result]}}
  PROVE  TypeOK'
<1>1. tx[w] \in Transactions /\ req[w] \in Requests /\ IsFiniteSet(tx[w].batch)
  BY DEF IInv, TypeOK, TxOK
<1>2. \A s \in Streams : Cardinality(In(s, tx[w].batch)) \in Nat
                      /\ Cardinality(In(s, Unapplied(w))) \in Nat
  <2> SUFFICES ASSUME NEW s \in Streams
               PROVE  Cardinality(In(s, tx[w].batch)) \in Nat
                   /\ Cardinality(In(s, Unapplied(w))) \in Nat
    OBVIOUS
  <2>1. In(s, tx[w].batch) \subseteq tx[w].batch /\ In(s, Unapplied(w)) \subseteq tx[w].batch
    BY DEF In, Unapplied
  <2> QED BY <1>1, <2>1, FS_Subset, FS_CardinalityType
<1>3. /\ pc' \in [Workers -> {"idle", "authorize"} \cup InTransaction]
      /\ req' \in [Workers -> Requests] /\ attempt' \in [Workers -> 1..MaxAttempts]
      /\ tx' \in [Workers -> Transactions]
      /\ audit' \in [pc : {"idle", "locked", "verify"}, head : Heads]
      /\ member' \in MemberStates /\ writeState' \in {"active", "paused_integrity"}
      /\ tampered' \in BOOLEAN
  BY IdleFacts DEF IInv, TypeOK, Ends, books
<1>4. answers' \subseteq [req : Requests, result : Results]
  BY <1>1 DEF IInv, TypeOK, Transactions
<1>5. CASE ~Created(w)
  BY <1>3, <1>4, <1>5 DEF IInv, TypeOK, Publish, rows
<1>6. CASE Created(w)
  <2>1. NewReceipt(w) \in [key : Keys, cmd : Commands, hash : Hashes, result : Results]
    BY <1>1, RequestFacts DEF NewReceipt, RequestHash, Hashes, Transactions
  <2>2. NewHead(w) \in Heads
    BY <1>1, RequestFacts DEF NewHead, IInv, TypeOK, Heads, Transactions, EventIds
  <2>3. /\ streamHead' \in [Streams -> Nat] /\ readModel' \in [Streams -> Nat]
    BY <1>2, <1>6 DEF Publish, IInv, TypeOK
  <2>4. log' \subseteq Events /\ applied' \subseteq Commands \X Nat
    <3>1. tx[w].batch \subseteq Events
      BY <1>1 DEF Transactions
    <3>2. \A e \in tx[w].batch : e.id \in Commands \X Nat
      BY <3>1 DEF Events
    <3>3. log' = log \cup tx[w].batch /\ applied' = applied \cup {e.id : e \in tx[w].batch}
      BY <1>6 DEF Publish
    <3>4. applied \subseteq Commands \X Nat /\ log \subseteq Events
      BY DEF IInv, TypeOK
    <3>5. \A x \in {e.id : e \in tx[w].batch} : x \in Commands \X Nat
      BY <3>2
    <3> QED BY <3>1, <3>3, <3>4, <3>5
  <2>5. assets' \subseteq [asset : Assets, meta : Payloads]
    <3>1. [asset |-> req[w].asset, meta |-> req[w].payload]
            \in [asset : Assets, meta : Payloads]
      BY <1>1, RequestFacts
    <3>2. assets \subseteq [asset : Assets, meta : Payloads]
      BY DEF IInv, TypeOK
    <3> QED BY <1>6, <3>1, <3>2 DEF Publish
  <2>6. receipts' \subseteq [key : Keys, cmd : Commands, hash : Hashes, result : Results]
        /\ head' \in Heads
    BY <1>6, <2>1, <2>2 DEF Publish, IInv, TypeOK
  <2> QED BY <1>3, <1>4, <2>3, <2>4, <2>5, <2>6 DEF TypeOK
<1> QED BY <1>5, <1>6

\* A commit, told to the client or not, preserves the invariant.
LEMMA PublishKeepsIInv ==
  ASSUME IInv, NEW w \in Workers, NEW label \in {"idle", "authorize"},
         pc[w] = "commit", Publish(w), Ends(w, label),
         answers' \in {answers, answers \cup {[req |-> req[w], result |-> tx[w].result]}}
  PROVE  IInv'
<1>1. \A v \in Workers : TxOK(v)'
  BY PublishTx, EndsTx
<1>2. ReceiptsOwnTheLog' /\ LogPositions'
  <2>1. CASE ~Created(w)
    BY <2>1 DEF IInv, ReceiptsOwnTheLog, LogPositions, EventsOf, Publish, rows
  <2> QED BY <2>1, PublishRanges
<1>3. receipts \subseteq receipts' /\ (Created(w) => NewReceipt(w) \in receipts')
  BY DEF Publish, rows
<1>4. \E x \in receipts' : /\ x.key = req[w].key
                           /\ x.hash[2] = req[w].payload
                           /\ x.result = tx[w].result
  <2>1. CASE Created(w)
    BY <2>1, <1>3 DEF NewReceipt, RequestHash
  <2>2. CASE ~Created(w)
    BY <2>2, <1>3 DEF IInv, TxOK
  <2> QED BY <2>1, <2>2
<1>5. SuccessIsTheReceipt'
  BY <1>3, <1>4 DEF IInv, SuccessIsTheReceipt
<1> QED BY <1>1, <1>2, <1>5, EndsExclusion, PublishTypeOK DEF IInv
-----------------------------------------------------------------------------
(* The statements of a transaction *)

\* What is left to show for a statement that only changes w's own program counter and
\* transaction record: the types, w's own facts and the locks it may have taken.
LEMMA StatementKeepsIInv ==
  ASSUME IInv, NEW w \in Workers, Local,
         NEW label \in {"authorize"} \cup InTransaction, Goto(w, label),
         NEW t \in Transactions, tx' = [tx EXCEPT ![w] = t],
         TxOK(w)', Exclusion', AuditExclusion'
  PROVE  IInv'
<1>1. TypeOK'
  BY DEF IInv, TypeOK, Local, Goto, rows, books
<1>2. ASSUME NEW v \in Workers \ {w} PROVE TxOK(v)'
  <2>1. pc'[v] = pc[v] /\ req'[v] = req[v] /\ tx'[v] = tx[v]
    BY DEF IInv, TypeOK, Local, Goto
  <2> QED BY <2>1, FrameTx DEF IInv, Local, rows, books
<1>3. ReceiptsOwnTheLog' /\ SuccessIsTheReceipt' /\ LogPositions'
  BY DEF IInv, ReceiptsOwnTheLog, SuccessIsTheReceipt, LogPositions, EventsOf,
         Local, rows
<1> QED BY <1>1, <1>2, <1>3 DEF IInv

\* A statement that takes no lock and keeps the ones it has leaves the locks exclusive.
LEMMA StatementKeepsLocks ==
  ASSUME IInv, NEW w \in Workers, Local,
         NEW label \in {"authorize"} \cup InTransaction, Goto(w, label),
         NEW t, tx' = [tx EXCEPT ![w] = t], t.created = tx[w].created,
         label \in HasReceipt => pc[w] \in HasReceipt,
         HoldsHead(w)' => HoldsHead(w)
  PROVE  Exclusion' /\ AuditExclusion'
<1>1. /\ pc'[w] = label /\ tx'[w] = t /\ req' = req /\ audit' = audit
      /\ \A v \in Workers \ {w} : pc'[v] = pc[v] /\ tx'[v] = tx[v]
  BY DEF IInv, TypeOK, Local, Goto
<1>2. \A v \in Workers : /\ Created(v)' = Created(v)
                         /\ HoldsHead(v)' => HoldsHead(v)
                         /\ pc'[v] \in HasReceipt => pc[v] \in HasReceipt
  BY <1>1 DEF Created, HoldsHead
<1> QED BY <1>1, <1>2 DEF IInv, Exclusion, AuditExclusion

\* A client's request starts a transaction with nothing in it.
LEMMA SubmitKeepsIInv ==
  ASSUME IInv, NEW w \in Workers, NEW r \in Requests, Submit(w, r)
  PROVE  IInv'
<1>1. Ends(w, "authorize")
  <2>1. tx[w] = NoTx
    BY DEF IInv, TxOK, Submit
  <2>2. tx' = [tx EXCEPT ![w] = NoTx]
    BY <2>1 DEF IInv, TypeOK, Submit
  <2> QED BY <2>2 DEF IInv, TypeOK, Submit, Goto, Ends
<1> QED BY <1>1, EndKeepsIInv DEF Submit

\* Authorization records the membership state it has locked.
LEMMA AuthorizeKeepsIInv ==
  ASSUME IInv, NEW w \in Workers, Authorize(w)
  PROVE  IInv'
<1> DEFINE t == [tx[w] EXCEPT !.scope = member]
<1>1. /\ tx' = [tx EXCEPT ![w] = t] /\ t \in Transactions /\ Local /\ Goto(w, "reserve")
      /\ tx[w] = NoTx /\ t.created = FALSE /\ t.batch = {} /\ t.scope = member
      /\ t.result = NoResult
      /\ pc'[w] = "reserve" /\ tx'[w] = t
  <2>1. tx[w] = NoTx /\ NoTx.result = NoResult
    BY DEF IInv, TxOK, Authorize, NoTx
  <2>2. t \in Transactions /\ t.created = NoTx.created /\ t.batch = NoTx.batch
        /\ t.scope = member /\ t.result = NoTx.result
    BY <2>1, IdleFacts DEF IInv, TypeOK, Transactions
  <2>3. tx' = [tx EXCEPT ![w] = t] /\ Local /\ Goto(w, "reserve")
    BY DEF Authorize
  <2>4. pc'[w] = "reserve" /\ tx'[w] = t
    BY <2>3 DEF IInv, TypeOK, Goto
  <2> QED BY <2>1, <2>2, <2>3, <2>4, IdleFacts
<1>2. TxOK(w)'
  BY <1>1, FS_EmptySet DEF TxOK, Authorize, Local, Created, HoldsHead, books,
     InTransaction
<1>3. Exclusion' /\ AuditExclusion'
  BY <1>1, IdleFacts, StatementKeepsLocks DEF InTransaction, HasReceipt, HoldsHead, Created
<1> QED BY <1>1, <1>2, <1>3, StatementKeepsIInv DEF InTransaction

\* A new receipt: no other worker holds its key or command id, and no audit is running.
LEMMA ReserveNewKeepsIInv ==
  ASSUME IInv, NEW w \in Workers, ReserveNew(w)
  PROVE  IInv'
<1> DEFINE t == [tx[w] EXCEPT !.created = TRUE]
           label == IF req[w].kind = "ledger" THEN "lock" ELSE "handle"
<1>1. /\ tx' = [tx EXCEPT ![w] = t] /\ t \in Transactions /\ Local /\ Goto(w, label)
      /\ t.created = TRUE /\ t.batch = tx[w].batch /\ t.scope = tx[w].scope
      /\ t.result = tx[w].result
      /\ pc'[w] = label /\ tx'[w] = t /\ req' = req /\ audit' = audit
      /\ \A v \in Workers \ {w} : pc'[v] = pc[v] /\ tx'[v] = tx[v]
  BY DEF IInv, TypeOK, ReserveNew, Goto, Local, Transactions
<1>2. req[w].kind \in {"ledger", "asset"} /\ ~HoldsHead(w) /\ ~HoldsHead(w)'
  BY <1>1, RequestFacts DEF IInv, TypeOK, HoldsHead, ReserveNew
<1>3. \A x \in receipts : x.key # req[w].key /\ x.cmd # req[w].cmd
  BY DEF ReserveNew, ReceiptOf
<1>4. tx[w].result.first = 0 /\ tx[w].batch = {}
  BY DEF IInv, TxOK, ReserveNew, NoResult, HoldsHead
<1>5. /\ member \in WriteStates[req[w].kind] /\ tx[w].scope = member
      /\ UNCHANGED <<member, receipts>>
  BY <1>1 DEF IInv, TxOK, ReserveNew, InTransaction, Local, rows, books
<1>6. TxOK(w)'
  <2>1. /\ pc'[w] \in {"lock", "handle"} /\ tx'[w].created = TRUE
        /\ pc'[w] = "lock" => req'[w].kind = "ledger"
        /\ tx'[w].batch = {} /\ tx'[w].scope = member' /\ tx'[w].result.first = 0
        /\ member' \in WriteStates[req'[w].kind]
        /\ \A x \in receipts' : x.key # req'[w].key /\ x.cmd # req'[w].cmd
    BY <1>1, <1>3, <1>4, <1>5
  <2> QED BY <1>2, <2>1, FS_EmptySet DEF TxOK, Created, InTransaction
<1>7. ASSUME NEW v \in Workers \ {w}, pc[v] \in HasReceipt
      PROVE  req[v].key # req[w].key /\ (Created(v) => req[v].cmd # req[w].cmd)
  BY <1>7 DEF ReserveNew, ReceiptFree, HoldsKey
<1>8. \A v \in Workers \ {w} : Created(v)' = Created(v) /\ HoldsHead(v)' = HoldsHead(v)
  BY <1>1 DEF Created, HoldsHead
<1>9. Exclusion'
  BY <1>1, <1>2, <1>7, <1>8, CreatedHasReceipt DEF IInv, Exclusion
<1>10. AuditExclusion'
  BY <1>1 DEF AuditExclusion, ReserveNew
<1> QED BY <1>1, <1>6, <1>9, <1>10, StatementKeepsIInv DEF InTransaction

\* A replay takes the key's row lock and carries the receipt's result.
LEMMA ReserveReplayKeepsIInv ==
  ASSUME IInv, NEW w \in Workers, ReserveReplay(w)
  PROVE  IInv'
<1> PICK x \in ReceiptOf(req[w].key) :
           x.hash = RequestHash(w) /\ tx' = [tx EXCEPT ![w].result = x.result]
  BY DEF ReserveReplay
<1> DEFINE t == [tx[w] EXCEPT !.result = x.result]
<1>1. /\ x \in receipts /\ x.key = req[w].key /\ x.hash[2] = req[w].payload
      /\ x.result \in Results
  BY DEF ReceiptOf, RequestHash, IInv, TypeOK
<1>2. /\ tx' = [tx EXCEPT ![w] = t] /\ t \in Transactions /\ Local /\ Goto(w, "commit")
      /\ t.created = FALSE /\ tx[w].created = FALSE /\ t.batch = {}
      /\ t.scope = tx[w].scope /\ t.result = x.result
      /\ pc'[w] = "commit" /\ tx'[w] = t /\ req' = req /\ audit' = audit
      /\ UNCHANGED <<member, receipts>>
      /\ \A v \in Workers \ {w} : pc'[v] = pc[v] /\ tx'[v] = tx[v]
  <2>1. tx[w].created = FALSE /\ tx[w].batch = {} /\ tx[w] \in Transactions
    BY DEF IInv, TypeOK, TxOK, Created, HoldsHead, ReserveReplay, Transactions
  <2>2. /\ t \in Transactions /\ t.created = tx[w].created /\ t.batch = tx[w].batch
        /\ t.scope = tx[w].scope /\ t.result = x.result
    BY <1>1, <2>1 DEF Transactions
  <2>3. tx' = [tx EXCEPT ![w] = t] /\ Local /\ Goto(w, "commit")
    BY DEF ReserveReplay
  <2>4. /\ pc'[w] = "commit" /\ tx'[w] = t /\ req' = req /\ audit' = audit
        /\ UNCHANGED <<member, receipts>>
        /\ \A v \in Workers \ {w} : pc'[v] = pc[v] /\ tx'[v] = tx[v]
    BY <2>3 DEF IInv, TypeOK, Goto, Local, rows, books
  <2> QED BY <2>1, <2>2, <2>3, <2>4
<1>3. member \in WriteStates[req[w].kind] /\ tx[w].scope = member
  BY DEF IInv, TxOK, ReserveReplay, InTransaction
<1>4. TxOK(w)'
  BY <1>1, <1>2, <1>3, FS_EmptySet DEF TxOK, Created, HoldsHead, InTransaction
<1>5. \A v \in Workers \ {w} : pc[v] \in HasReceipt => req[v].key # req[w].key
  BY DEF ReserveReplay, ReceiptFree, HoldsKey
<1>6. Exclusion'
  BY <1>2, <1>5 DEF IInv, Exclusion, Created, HoldsHead
<1>7. AuditExclusion'
  BY <1>2 DEF IInv, AuditExclusion, Created
<1> QED BY <1>2, <1>4, <1>6, <1>7, StatementKeepsIInv DEF InTransaction

\* The head lock is taken while nobody else holds it, of a Book that is not paused.
LEMMA LockHeadKeepsIInv ==
  ASSUME IInv, NEW w \in Workers, LockHead(w)
  PROVE  IInv'
<1> DEFINE t == [tx[w] EXCEPT !.base = head]
<1>1. /\ tx' = [tx EXCEPT ![w] = t] /\ t \in Transactions /\ Local /\ Goto(w, "handle")
      /\ t.created = tx[w].created /\ t.batch = tx[w].batch /\ t.scope = tx[w].scope
      /\ t.result = tx[w].result /\ t.base = head
      /\ pc'[w] = "handle" /\ tx'[w] = t /\ req' = req /\ audit' = audit
      /\ UNCHANGED <<member, receipts, head, writeState>>
      /\ \A v \in Workers \ {w} : pc'[v] = pc[v] /\ tx'[v] = tx[v]
  BY DEF IInv, TypeOK, LockHead, Goto, Local, Transactions, rows, books
<1>2. /\ pc[w] = "lock" /\ Created(w) /\ req[w].kind = "ledger" /\ writeState = "active"
      /\ tx[w].batch = {} /\ tx[w].scope = member /\ member \in WriteStates[req[w].kind]
      /\ \A x \in receipts : x.key # req[w].key /\ x.cmd # req[w].cmd
  BY DEF IInv, TxOK, LockHead, HoldsHead, InTransaction
<1>3. TxOK(w)'
  BY <1>1, <1>2, FS_EmptySet DEF TxOK, Created, InTransaction
<1>4. \A v \in Workers \ {w} : ~HoldsHead(v)
  BY DEF LockHead, HeadFree
<1>5. Exclusion'
  BY <1>1, <1>2, <1>4 DEF IInv, Exclusion, Created, HoldsHead, HasReceipt
<1>6. AuditExclusion'
  BY <1>1 DEF IInv, AuditExclusion, Created
<1> QED BY <1>1, <1>3, <1>5, <1>6, StatementKeepsIInv DEF InTransaction
\* The batch a ledger request appends after head h: typed, finite, at the positions
\* after h, and all of it the request's command's.
LEMMA BatchFacts ==
  ASSUME TypeOK, NEW r \in Requests, NEW h \in Heads
  PROVE  /\ Batch(r, h) \subseteq Events /\ IsFiniteSet(Batch(r, h))
         /\ {e.pos : e \in Batch(r, h)} = h.pos + 1 .. h.pos + Len(r.events)
         /\ \A e \in Batch(r, h) : e.id[1] = r.cmd
<1> DEFINE B == Batch(r, h)
           I == 1..Len(r.events)
           f == [i \in I |-> EventOf(r, h, i)]
<1>1. h.pos \in Nat /\ h.hash \in EventIds /\ Len(r.events) \in Nat
  BY RequestFacts DEF Heads
<1>2. ASSUME NEW i \in 1..Len(r.events)
      PROVE  /\ EventOf(r, h, i) \in Events
             /\ EventOf(r, h, i).pos = h.pos + i /\ EventOf(r, h, i).id[1] = r.cmd
  <2>1. IsFiniteSet(1..i) /\ {j \in 1..i : r.events[j] = r.events[i]} \subseteq 1..i
    BY <1>1, FS_Interval
  <2>2. Occurrences(r, i) \in Nat
    BY <2>1, FS_Subset, FS_CardinalityType DEF Occurrences
  <2>3. r.events[i] \in Streams /\ r.cmd \in Commands
    BY RequestFacts
  <2>4. streamHead[r.events[i]] + Occurrences(r, i) \in Nat
    BY <2>2, <2>3 DEF TypeOK
  <2>5. (IF i = 1 THEN h.hash ELSE <<r.cmd, i - 1>>) \in EventIds
    BY <1>1, <2>3 DEF EventIds
  <2>6. h.pos + i \in Nat /\ <<r.cmd, i>> \in Commands \X Nat
    BY <1>1, <2>3
  <2> QED BY <2>3, <2>4, <2>5, <2>6 DEF EventOf, Events
<1>3. IsFiniteSet(B)
  <2>1. IsFiniteSet(I)
    BY <1>1, FS_Interval
  <2>2. f \in Surjection(I, B)
    BY DEF Surjection, Batch
  <2> QED BY <2>1, <2>2, FS_Surjection
<1>4. {e.pos : e \in B} = h.pos + 1 .. h.pos + Len(r.events)
  <2>1. \A e \in B : e.pos \in h.pos + 1 .. h.pos + Len(r.events)
    BY <1>1, <1>2 DEF Batch
  <2>2. ASSUME NEW p \in h.pos + 1 .. h.pos + Len(r.events)
        PROVE  \E e \in B : e.pos = p
    <3>1. p - h.pos \in 1..Len(r.events) /\ h.pos + (p - h.pos) = p
      BY <1>1
    <3>2. EventOf(r, h, p - h.pos) \in B /\ EventOf(r, h, p - h.pos).pos = p
      BY <1>2, <3>1 DEF Batch
    <3> QED BY <3>2
  <2> QED BY <2>1, <2>2
<1> QED BY <1>2, <1>3, <1>4 DEF Batch

\* The handler's events continue the locked head.
LEMMA AppendKeepsIInv ==
  ASSUME IInv, NEW w \in Workers, AppendEvents(w)
  PROVE  IInv'
<1> DEFINE B == Batch(req[w], tx[w].base)
           t == [tx[w] EXCEPT !.batch = B]
<1>1. tx[w] \in Transactions /\ req[w] \in Requests /\ tx[w].base \in Heads
  BY DEF IInv, TypeOK, Transactions
<1>2. /\ B \subseteq Events /\ IsFiniteSet(B)
      /\ {e.pos : e \in B} = BatchPositions(w) /\ \A e \in B : e.id[1] = req[w].cmd
  BY <1>1, BatchFacts DEF IInv, BatchPositions
<1>3. /\ t \in Transactions /\ t.created = tx[w].created /\ t.scope = tx[w].scope
      /\ t.result = tx[w].result /\ t.base = tx[w].base /\ t.batch = B
  BY <1>1, <1>2 DEF Transactions
<1>4. tx' = [tx EXCEPT ![w] = t] /\ Local /\ Goto(w, "complete")
  BY DEF AppendEvents
<1>5. /\ pc'[w] = "complete" /\ tx'[w] = t /\ req' = req
      /\ UNCHANGED <<member, receipts, head, writeState>>
  BY <1>4 DEF IInv, TypeOK, Goto, Local, rows, books
<1>6. /\ pc[w] = "handle" /\ Created(w) /\ req[w].kind = "ledger" /\ HoldsHead(w)
      /\ tx[w].base = head /\ writeState = "active"
      /\ tx[w].scope = member /\ member \in WriteStates[req[w].kind]
      /\ \A x \in receipts : x.key # req[w].key /\ x.cmd # req[w].cmd
  BY DEF IInv, TxOK, AppendEvents, HoldsHead, InTransaction
<1>7. TxOK(w)'
  BY <1>2, <1>3, <1>5, <1>6 DEF TxOK, Created, HoldsHead, InTransaction, BatchPositions
<1>8. Exclusion' /\ AuditExclusion'
  BY <1>3, <1>4, <1>6, StatementKeepsLocks DEF InTransaction, HasReceipt
<1> QED BY <1>3, <1>4, <1>7, <1>8, StatementKeepsIInv DEF InTransaction

\* An asset command prepares its answer and no event.
LEMMA AssetKeepsIInv ==
  ASSUME IInv, NEW w \in Workers, CreateOrReuseAsset(w)
  PROVE  IInv'
<1> PICK body \in {"created", "reused"} : tx' = [tx EXCEPT ![w].result.body = body]
  BY DEF CreateOrReuseAsset
<1> DEFINE t == [tx[w] EXCEPT !.result.body = body]
<1>1. tx[w] \in Transactions /\ req[w] \in Requests
  BY DEF IInv, TypeOK
<1>2. [tx[w].result EXCEPT !.body = body] \in Results
      /\ [tx[w].result EXCEPT !.body = body].first = tx[w].result.first
  BY <1>1 DEF Transactions, Results
<1>3. /\ t \in Transactions /\ t.created = tx[w].created /\ t.scope = tx[w].scope
      /\ t.result.first = tx[w].result.first /\ t.base = tx[w].base
      /\ t.batch = tx[w].batch
  BY <1>1, <1>2 DEF Transactions
<1>4. tx' = [tx EXCEPT ![w] = t] /\ Local /\ Goto(w, "complete")
  BY DEF CreateOrReuseAsset, IInv, TypeOK
<1>5. /\ pc'[w] = "complete" /\ tx'[w] = t /\ req' = req
      /\ UNCHANGED <<member, receipts, head, writeState>>
  BY <1>4 DEF IInv, TypeOK, Goto, Local, rows, books
<1>6. /\ pc[w] = "handle" /\ Created(w) /\ req[w].kind = "asset" /\ ~HoldsHead(w)
      /\ tx[w].batch = {} /\ tx[w].result.first = 0
      /\ tx[w].scope = member /\ member \in WriteStates[req[w].kind]
      /\ \A x \in receipts : x.key # req[w].key /\ x.cmd # req[w].cmd
  BY DEF IInv, TxOK, CreateOrReuseAsset, HoldsHead, InTransaction
<1>7. ~HoldsHead(w)' /\ Created(w)'
  BY <1>3, <1>5, <1>6 DEF HoldsHead, Created
<1>8. TxOK(w)'
  BY <1>3, <1>5, <1>6, <1>7, FS_EmptySet DEF TxOK, Created, InTransaction
<1>9. Exclusion' /\ AuditExclusion'
  BY <1>3, <1>4, <1>6, <1>7, StatementKeepsLocks DEF InTransaction, HasReceipt
<1> QED BY <1>3, <1>4, <1>8, <1>9, StatementKeepsIInv DEF InTransaction

\* The completed receipt carries the range of the batch.
LEMMA CompleteKeepsIInv ==
  ASSUME IInv, NEW w \in Workers, CompleteReceipt(w)
  PROVE  IInv'
<1> DEFINE range == [first |-> tx[w].base.pos + 1,
                     last  |-> tx[w].base.pos + Len(req[w].events), body  |-> "posted"]
           t == IF req[w].kind = "asset" THEN tx[w] ELSE [tx[w] EXCEPT !.result = range]
<1>1. tx[w] \in Transactions /\ req[w] \in Requests /\ range \in Results
  <2>1. tx[w] \in Transactions /\ req[w] \in Requests
    BY DEF IInv, TypeOK
  <2>2. tx[w].base.pos \in Nat /\ Len(req[w].events) \in Nat
    BY <2>1, RequestFacts DEF Transactions, Heads
  <2> QED BY <2>1, <2>2 DEF Results
<1>2. /\ t \in Transactions /\ t.created = tx[w].created /\ t.scope = tx[w].scope
      /\ t.base = tx[w].base /\ t.batch = tx[w].batch
      /\ t.result = IF req[w].kind = "asset" THEN tx[w].result ELSE range
  BY <1>1 DEF Transactions
<1>3. tx' = [tx EXCEPT ![w] = t] /\ Local /\ Goto(w, "commit")
  BY DEF CompleteReceipt, IInv, TypeOK
<1>4. /\ pc'[w] = "commit" /\ tx'[w] = t /\ req' = req
      /\ UNCHANGED <<member, receipts, head, writeState>>
  BY <1>3 DEF IInv, TypeOK, Goto, Local, rows, books
<1>5. /\ pc[w] = "complete" /\ Created(w) /\ tx[w].scope = member
      /\ member \in WriteStates[req[w].kind]
  BY DEF IInv, TxOK, CompleteReceipt, InTransaction
<1>6. HoldsHead(w)' = HoldsHead(w) /\ Created(w)' = Created(w)
      /\ BatchPositions(w)' = BatchPositions(w)
  BY <1>2, <1>4, <1>5 DEF HoldsHead, Created, BatchPositions
<1>7. HoldsHead(w) => req[w].kind = "ledger"
  BY DEF HoldsHead
<1>8. TxOK(w)
  BY DEF IInv
<1>9. TxOK(w)'
  BY <1>2, <1>4, <1>5, <1>6, <1>7, <1>8 DEF TxOK, InTransaction
<1>10. Exclusion' /\ AuditExclusion'
  BY <1>2, <1>3, <1>5, <1>6, StatementKeepsLocks DEF InTransaction, HasReceipt
<1> QED BY <1>2, <1>3, <1>9, <1>10, StatementKeepsIInv DEF InTransaction
-----------------------------------------------------------------------------
(* The auditor and the environment *)

\* The auditor locks the Book row while no new receipt is in flight; a pause is
\* committed under that lock, so nobody holds the head then.
LEMMA AuditKeepsIInv ==
  ASSUME IInv, Audit
  PROVE  IInv'
<1>1. UNCHANGED <<rows, thread, answers, member, tampered>>
  BY DEF Audit, AuditLock, AuditReadHead, AuditVerify, books
<1>2. TypeOK'
  <2>1. head \in Heads /\ [pos |-> 0, hash |-> Genesis] \in Heads
    BY DEF IInv, TypeOK, Heads, EventIds
  <2>2. audit' \in [pc : {"idle", "locked", "verify"}, head : Heads]
    BY <2>1 DEF IInv, TypeOK, Audit, AuditLock, AuditReadHead, AuditVerify
  <2>3. writeState' \in {"active", "paused_integrity"}
    BY DEF IInv, TypeOK, Audit, AuditLock, AuditReadHead, AuditVerify, books
  <2> QED BY <1>1, <2>2, <2>3 DEF IInv, TypeOK, rows, thread
<1>3. AuditExclusion'
  BY <1>1 DEF IInv, AuditExclusion, Audit, AuditLock, AuditReadHead, AuditVerify,
              Created, thread
<1>4. writeState' = writeState \/ \A w \in Workers : ~Created(w)
  BY DEF IInv, AuditExclusion, Audit, AuditLock, AuditReadHead, AuditVerify, books
<1>5. ASSUME NEW w \in Workers PROVE TxOK(w)'
  <2>1. CASE writeState' = writeState
    BY <1>1, <2>1, FrameTx DEF IInv, rows, thread
  <2>2. CASE ~Created(w)
    BY <1>1, <2>2 DEF IInv, TxOK, Created, HoldsHead, BatchPositions, rows, thread
  <2> QED BY <1>4, <2>1, <2>2
<1>6. Exclusion'
  BY <1>1 DEF IInv, Exclusion, Created, HoldsHead, thread
<1>7. LogPositions' /\ ReceiptsOwnTheLog' /\ SuccessIsTheReceipt'
  BY <1>1 DEF IInv, LogPositions, ReceiptsOwnTheLog, SuccessIsTheReceipt, EventsOf, rows
<1> QED BY <1>2, <1>3, <1>5, <1>6, <1>7 DEF IInv

\* The membership row changes only while no transaction has it locked.
LEMMA ChangeMembershipKeepsIInv ==
  ASSUME IInv, NEW m \in MemberStates, ChangeMembership(m)
  PROVE  IInv'
<1>1. UNCHANGED <<rows, writeState, tampered, thread, audit, answers>> /\ member' = m
  BY DEF ChangeMembership
<1>2. TypeOK'
  BY <1>1 DEF IInv, TypeOK, rows, thread
<1>3. ASSUME NEW w \in Workers PROVE TxOK(w)'
  BY <1>1 DEF IInv, TxOK, ChangeMembership, HoldsMembership, Created, HoldsHead,
              BatchPositions, rows, thread
<1>4. Exclusion' /\ AuditExclusion'
  BY <1>1 DEF IInv, Exclusion, AuditExclusion, Created, HoldsHead, thread
<1>5. LogPositions' /\ ReceiptsOwnTheLog' /\ SuccessIsTheReceipt'
  BY <1>1 DEF IInv, LogPositions, ReceiptsOwnTheLog, SuccessIsTheReceipt, EventsOf, rows
<1> QED BY <1>2, <1>3, <1>4, <1>5 DEF IInv

\* An outside write to the balances touches nothing the invariant speaks of.
LEMMA TamperKeepsIInv ==
  ASSUME IInv, NEW s \in Streams, Tamper(s)
  PROVE  IInv'
<1>1. UNCHANGED <<receipts, log, head, streamHead, applied, assets, member, writeState,
                  thread, audit, answers>>
  BY DEF Tamper
<1>2. TypeOK'
  BY <1>1 DEF IInv, TypeOK, Tamper, thread
<1>3. ASSUME NEW w \in Workers PROVE TxOK(w)'
  BY <1>1, FrameTx DEF IInv, thread
<1>4. Exclusion' /\ AuditExclusion'
  BY <1>1 DEF IInv, Exclusion, AuditExclusion, Created, HoldsHead, thread
<1>5. LogPositions' /\ ReceiptsOwnTheLog' /\ SuccessIsTheReceipt'
  BY <1>1 DEF IInv, LogPositions, ReceiptsOwnTheLog, SuccessIsTheReceipt, EventsOf
<1> QED BY <1>2, <1>3, <1>4, <1>5 DEF IInv

-----------------------------------------------------------------------------
(* The invariant *)

\* Initially nothing is stored and nothing runs.
LEMMA InitIInv == Init => IInv
<1> SUFFICES ASSUME Init PROVE IInv
  OBVIOUS
<1>1. TypeOK
  <2>1. member \in MemberStates /\ head \in Heads /\ MaxAttempts \in Nat \ {0}
    BY RequestsAssumption DEF Init, Heads, EventIds
  <2>2. tx \in [Workers -> Transactions] /\ req \in [Workers -> Requests]
    BY IdleFacts DEF Init
  <2>3. /\ receipts = {} /\ log = {} /\ applied = {} /\ assets = {} /\ answers = {}
        /\ streamHead \in [Streams -> Nat] /\ readModel \in [Streams -> Nat]
        /\ writeState = "active" /\ tampered \in BOOLEAN
        /\ pc \in [Workers -> {"idle"}]
    BY DEF Init
  <2>4. attempt \in [Workers -> 1..MaxAttempts]
    BY <2>1 DEF Init
  <2>5. audit \in [pc : {"idle", "locked", "verify"}, head : Heads]
    BY <2>1 DEF Init
  <2> QED BY <2>1, <2>2, <2>3, <2>4, <2>5 DEF TypeOK
<1>2. \A w \in Workers : TxOK(w)
  BY IdleFacts, FS_EmptySet DEF Init, TxOK, Created, HoldsHead, InTransaction
<1>3. Exclusion /\ AuditExclusion
  BY IdleFacts DEF Init, Exclusion, AuditExclusion, Created, HoldsHead, HasReceipt
<1>4. LogPositions /\ ReceiptsOwnTheLog /\ SuccessIsTheReceipt
  BY DEF Init, LogPositions, ReceiptsOwnTheLog, SuccessIsTheReceipt
<1> QED BY <1>1, <1>2, <1>3, <1>4 DEF IInv

\* A rolled-back transaction, whatever the reason, preserves the invariant.
LEMMA FailKeepsIInv ==
  ASSUME IInv, NEW w \in Workers, UNCHANGED <<rows, books, audit, answers>>,
         Finish(w) \/ RetryOrRaise(w)
  PROVE  IInv'
BY FinishEnds, EndKeepsIInv DEF IInv

\* Every step of every worker preserves the invariant.
LEMMA WorkerKeepsIInv ==
  ASSUME IInv, NEW w \in Workers, Step(w) \/ Reject(w) \/ Fault(w)
  PROVE  IInv'
<1>1. CASE Authorize(w)
  BY <1>1, AuthorizeKeepsIInv
<1>2. CASE Forbid(w) \/ ReserveConflict(w) \/ ReserveClash(w) \/ LockPaused(w)
             \/ StaleVersion(w) \/ AssetConflict(w) \/ Reject(w) \/ OtherError(w)
  BY <1>2, FailKeepsIInv
     DEF Forbid, ReserveConflict, ReserveClash, LockPaused, StaleVersion, AssetConflict,
         Reject, OtherError, Fail
<1>3. CASE ReserveNew(w) \/ ReserveReplay(w)
  BY <1>3, ReserveNewKeepsIInv, ReserveReplayKeepsIInv
<1>4. CASE LockHead(w)
  BY <1>4, LockHeadKeepsIInv
<1>5. CASE AppendEvents(w) \/ CreateOrReuseAsset(w)
  BY <1>5, AppendKeepsIInv, AssetKeepsIInv
<1>6. CASE CompleteReceipt(w)
  BY <1>6, CompleteKeepsIInv
<1>7. CASE Commit(w) \/ CommitUnknown(w) \/ CrashAfterCommit(w)
  <2>1. pc[w] = "commit" /\ Publish(w) /\ UNCHANGED <<books, audit>>
        /\ (Finish(w) \/ RetryOrRaise(w))
    BY <1>7 DEF Commit, CommitUnknown, CrashAfterCommit
  <2>2. answers' \in {answers,
                      answers \cup {[req |-> req[w], result |-> tx[w].result]}}
    BY <1>7 DEF Commit, CommitUnknown, CrashAfterCommit
  <2>3. Ends(w, "idle") \/ Ends(w, "authorize")
    BY <2>1, FinishEnds DEF IInv
  <2> QED BY <2>1, <2>2, <2>3, PublishKeepsIInv
<1>8. CASE RetryableError(w) \/ Crash(w)
  BY <1>8, FailKeepsIInv DEF RetryableError, Crash
<1> QED BY <1>1, <1>2, <1>3, <1>4, <1>5, <1>6, <1>7, <1>8
        DEF Step, Fault, Reserve, Lock, Handle

\* The invariant is inductive.
LEMMA NextKeepsIInv == IInv /\ [Next]_vars => IInv'
<1> SUFFICES ASSUME IInv, [Next]_vars PROVE IInv'
  OBVIOUS
<1>1. CASE Next
  BY <1>1, WorkerKeepsIInv, SubmitKeepsIInv, AuditKeepsIInv, ChangeMembershipKeepsIInv,
     TamperKeepsIInv DEF Next
<1>2. CASE UNCHANGED vars
  <2>1. UNCHANGED <<rows, books, thread, audit, answers>>
    BY <1>2 DEF vars
  <2>2. TypeOK'
    BY <2>1 DEF IInv, TypeOK, rows, books, thread
  <2>3. \A w \in Workers : TxOK(w)'
    BY <2>1, FrameTx DEF IInv, rows, books, thread
  <2>4. Exclusion' /\ AuditExclusion'
    BY <2>1 DEF IInv, Exclusion, AuditExclusion, Created, HoldsHead, thread
  <2>5. LogPositions' /\ ReceiptsOwnTheLog' /\ SuccessIsTheReceipt'
    BY <2>1 DEF IInv, LogPositions, ReceiptsOwnTheLog, SuccessIsTheReceipt, EventsOf, rows
  <2> QED BY <2>2, <2>3, <2>4, <2>5 DEF IInv
<1> QED BY <1>1, <1>2

\* IInv holds in every reachable state of the command bus.
THEOREM Invariance == Spec => []IInv
BY InitIInv, NextKeepsIInv, PTL DEF Spec

\* Rows, transactions and answers always have their types.
THEOREM TypeCorrect == Spec => []TypeOK
<1>1. IInv => TypeOK
  BY DEF IInv
<1> QED BY <1>1, Invariance, PTL

\* At most once: whatever handlers do, retry or lose, an idempotency key has one receipt
\* and the receipt owns exactly the events of its command.
THEOREM AtMostOnce == Spec => []ReceiptsOwnTheLog
<1>1. IInv => ReceiptsOwnTheLog
  BY DEF IInv
<1> QED BY <1>1, Invariance, PTL

\* A success told to a client, at first or by a replay, is the committed receipt.
THEOREM SuccessIsDurable == Spec => []SuccessIsTheReceipt
<1>1. IInv => SuccessIsTheReceipt
  BY DEF IInv
<1> QED BY <1>1, Invariance, PTL

-----------------------------------------------------------------------------
(* Action properties *)

\* Events reach the log only in the commit of a ledger command that holds the head.
LEMMA LogChangesAtCommit ==
  ASSUME IInv, [Next]_vars, log' # log
  PROVE  \E w \in Workers : HoldsHead(w) /\ pc[w] = "commit"
<1>1. PICK w \in Workers : pc[w] = "commit" /\ Publish(w)
  BY DEF Next, Step, Fault, Reserve, Lock, Handle, Audit, Submit, Authorize, Forbid,
         ReserveNew, ReserveReplay, ReserveConflict, ReserveClash, LockHead, LockPaused,
         Reject, AppendEvents, StaleVersion, CreateOrReuseAsset, AssetConflict,
         CompleteReceipt, Commit, CommitUnknown, RetryableError, OtherError, Crash,
         CrashAfterCommit, AuditLock, AuditReadHead, AuditVerify, ChangeMembership,
         Tamper, Fail, Local, rows, vars
<1>2. Created(w) /\ tx[w].batch # {}
  BY <1>1 DEF Publish, rows
<1>3. HoldsHead(w)
  BY <1>2 DEF IInv, TxOK
<1> QED BY <1>1, <1>3

\* A paused Book gets no more events: the pause waits for in-flight commands and later
\* ones see it under the head lock.
THEOREM PauseFreezesTheBook == Spec => PausedBookIsFrozen
<1>1. IInv /\ [Next]_vars => (writeState # "active" => log' = log)
  BY LogChangesAtCommit DEF IInv, TxOK
<1>2. IInv /\ [Next]_vars => [writeState # "active" => log' = log]_vars
  BY <1>1
<1> QED BY <1>2, Invariance, PTL DEF Spec, PausedBookIsFrozen

\* The membership that authorized a command is still in force when its events commit.
THEOREM CommitsAreAuthorized == Spec => AuthorizedAtCommit
<1>1. IInv /\ [Next]_vars => (log' # log => member \in WriteStates.ledger)
  <2> SUFFICES ASSUME IInv, [Next]_vars, log' # log
               PROVE  member \in WriteStates.ledger
    OBVIOUS
  <2>1. PICK w \in Workers : HoldsHead(w) /\ pc[w] = "commit"
    BY LogChangesAtCommit
  <2>2. member \in WriteStates[req[w].kind] /\ req[w].kind = "ledger"
    BY <2>1 DEF IInv, TxOK, HoldsHead, InTransaction
  <2> QED BY <2>2
<1>2. IInv /\ [Next]_vars => [log' # log => member \in WriteStates.ledger]_vars
  BY <1>1
<1> QED BY <1>2, Invariance, PTL DEF Spec, AuthorizedAtCommit

-----------------------------------------------------------------------------
(* What the commits add up to *)

\* The log is a chain of events at the positions up to the Book head.
Chain ==
    /\ {e.pos : e \in log} = 1..head.pos
    /\ \A e, f \in log : e.pos = f.pos => e = f
    /\ \A e \in log : e.pos = 1 => e.prev = Genesis
    /\ \A e, f \in log : f.pos = e.pos + 1 => f.prev = e.id
    /\ head.pos = 0 => head.hash = Genesis
    /\ \A e \in log : e.pos = head.pos => e.id = head.hash

\* The versions of stream s count its events in the order of the log.
StreamChain(s) ==
    /\ {e.version : e \in In(s, log)} = 1..streamHead[s]
    /\ \A e, f \in In(s, log) : e.pos < f.pos => e.version < f.version

Projected ==
    /\ applied = {e.id : e \in log}
    /\ ~tampered => readModel = streamHead

\* A batch that waits for its commit continues the heads as they are.
BatchOK(w) ==
    HoldsHead(w) /\ pc[w] \in {"complete", "commit"} =>
        tx[w].batch = Batch(req[w], head) /\ VersionsMatch(req[w])

AuditedHead == audit.pc = "verify" => audit.head = head

\* The log holds, under r's key, the version that r expected to write of each stream.
Accepted(r) ==
    \A s \in Touched(r) : \E e \in In(s, log), x \in receipts :
        e.version = r.expects[s] + 1 /\ x.key = r.key /\ x.cmd = e.id[1]

ReceiptsAccepted ==
    \A x \in receipts, r \in Requests :
        x.key = r.key /\ x.hash[2] = r.payload => Accepted(r)

CreatedReceipts == {x \in receipts : x.result.body = "created"}

AssetRows ==
    /\ \A a, b \in assets : a.asset = b.asset => a = b
    /\ IsFiniteSet(assets) /\ IsFiniteSet(receipts)
    /\ Cardinality(CreatedReceipts) = Cardinality(assets)

\* Worker w has written an asset row, or found one, and has not committed.
AtAsset(w) == Created(w) /\ pc[w] \in {"complete", "commit"} /\ req[w].kind = "asset"

\* What the answer of a new receipt says before its commit.
BodyOK(w) ==
    /\ Created(w) /\ req[w].kind = "ledger" /\ pc[w] # "commit" =>
         tx[w].result.body = "none"
    /\ Created(w) /\ req[w].kind = "ledger" /\ pc[w] = "commit" =>
         tx[w].result.body = "posted"
    /\ Created(w) /\ req[w].kind = "asset" => tx[w].result.last = 0
    /\ AtAsset(w) =>
         /\ tx[w].result.body \in {"created", "reused"}
         /\ tx[w].result.body = "created" => \A a \in assets : a.asset # req[w].asset

AssetExclusion ==
    \A v, w \in Workers :
        v # w /\ AtAsset(v) /\ AtAsset(w) => req[v].asset # req[w].asset

Rows ==
    /\ Chain
    /\ \A s \in Streams : StreamChain(s)
    /\ Projected
    /\ ReceiptsAccepted
    /\ AssetRows

HInv ==
    /\ IInv
    /\ Rows
    /\ \A w \in Workers : BatchOK(w) /\ BodyOK(w)
    /\ AssetExclusion
    /\ AuditedHead
    /\ NoFalseAlarm
-----------------------------------------------------------------------------
(* Counting *)

\* A set numbered one to one by a range of numbers has as many elements as the range.
LEMMA CountByNumber ==
  ASSUME NEW S, NEW a \in Nat, NEW n \in Nat, NEW f \in [S -> Int],
         {f[x] : x \in S} = a + 1 .. a + n,
         \A x, y \in S : f[x] = f[y] => x = y
  PROVE  IsFiniteSet(S) /\ Cardinality(S) = n
<1> DEFINE T == a + 1 .. a + n
<1>1. f \in [S -> T]
  <2>1. \A x \in S : f[x] \in T
    OBVIOUS
  <2> QED BY <2>1
<1>2. f \in Injection(S, T) /\ f \in Surjection(S, T)
  BY <1>1 DEF Injection, IsInjective, Surjection
<1>3. IsFiniteSet(T) /\ Cardinality(T) = n
  <2>1. a + 1 \in Int /\ a + n \in Int
    OBVIOUS
  <2>2. IsFiniteSet(T) /\ Cardinality(T) = IF a + 1 > a + n THEN 0 ELSE a + n - (a + 1) + 1
    BY <2>1, FS_Interval
  <2> QED BY <2>2
<1> QED BY <1>2, <1>3, FS_Injection

\* The events of a batch that go to stream s are numbered from the stream's head on, in
\* the order of their positions.
LEMMA BatchVersions ==
  ASSUME TypeOK, NEW r \in Requests, NEW h \in Heads, NEW s \in Streams
  PROVE  LET N == Cardinality(In(s, Batch(r, h))) IN
         /\ N \in Nat /\ (s \in Touched(r) => N > 0)
         /\ {e.version : e \in In(s, Batch(r, h))} =
              streamHead[s] + 1 .. streamHead[s] + N
         /\ \A e, f \in In(s, Batch(r, h)) : e.pos < f.pos => e.version < f.version
<1> DEFINE L == Len(r.events)
           I == {i \in 1..L : r.events[i] = s}
           Upto(i) == {j \in 1..i : r.events[j] = s}
           E(i) == EventOf(r, h, i)
           B == In(s, Batch(r, h))
           occ(i) == Cardinality(Upto(i))
           M == Cardinality(I)
<1>0. L \in Nat
  BY RequestFacts
<1>1. L \in Nat /\ h.pos \in Nat /\ streamHead[s] \in Nat
  BY RequestFacts DEF Heads, TypeOK
<1>2. IsFiniteSet(I) /\ M \in Nat
  <2>1. IsFiniteSet(1..L)
    BY <1>0, FS_Interval
  <2> QED BY <2>1, FS_Subset, FS_CardinalityType
<1>3. ASSUME NEW i \in I
      PROVE  /\ Upto(i) \subseteq I /\ i \in Upto(i) /\ IsFiniteSet(Upto(i))
             /\ occ(i) \in 1..M /\ occ(i) \in Nat /\ i \in Nat
             /\ E(i).pos = h.pos + i /\ E(i).stream = s
             /\ E(i).version = streamHead[s] + occ(i)
  <2>1. Upto(i) \subseteq I /\ i \in Upto(i) /\ i \in 1..L
    BY <1>1
  <2>2. IsFiniteSet(Upto(i)) /\ Cardinality(Upto(i)) <= M /\ Cardinality(Upto(i)) \in Nat
    BY <2>1, <1>2, FS_Subset, FS_CardinalityType
  <2>3. Cardinality(Upto(i)) # 0
    BY <2>1, <2>2, FS_EmptySet
  <2>4. occ(i) \in 1..M /\ occ(i) \in Nat /\ i \in Nat
    BY <1>0, <1>2, <2>1, <2>2, <2>3
  <2>5. Occurrences(r, i) = occ(i)
    BY DEF Occurrences
  <2> QED BY <2>1, <2>2, <2>4, <2>5 DEF EventOf
<1>4. ASSUME NEW i \in I, NEW k \in I, i < k PROVE occ(i) < occ(k)
  <2>1. Upto(i) \subseteq Upto(k) /\ k \in Upto(k) /\ k \notin Upto(i)
    BY <1>0, <1>4
  <2>2. Cardinality(Upto(i)) <= Cardinality(Upto(k))
        /\ Cardinality(Upto(k)) # Cardinality(Upto(i))
    BY <2>1, <1>3, FS_Subset
  <2>3. occ(i) \in Nat /\ occ(k) \in Nat
    BY <1>3
  <2> QED BY <2>2, <2>3
<1>5. {occ(i) : i \in I} = 1..M
  <2> DEFINE T == {occ(i) : i \in I}
  <2>1. \A i, k \in I : occ(i) = occ(k) => i = k
    <3>1. \A i \in I : occ(i) \in Nat /\ i \in Nat
      BY <1>3
    <3>2. \A i, k \in I : i < k => occ(i) < occ(k)
      BY <1>4
    <3> HIDE DEF occ, I
    <3> QED BY <3>1, <3>2
  <2>2. [i \in I |-> occ(i)] \in Injection(I, T)
        /\ [i \in I |-> occ(i)] \in Surjection(I, T)
    BY <2>1 DEF Injection, IsInjective, Surjection
  <2>3. IsFiniteSet(T) /\ Cardinality(T) = M
    BY <2>2, <1>2, FS_Surjection
  <2>4. T \subseteq 1..M
    BY <1>3
  <2>5. IsFiniteSet(1..M) /\ Cardinality(1..M) = M
    BY <1>2, FS_Interval
  <2> QED BY <2>3, <2>4, <2>5, FS_Subset
<1>6. B = {E(i) : i \in I}
  <2>1. \A i \in 1..L : E(i).stream = r.events[i]
    BY DEF EventOf
  <2> QED BY <2>1 DEF In, Batch
<1>7. {e.version : e \in B} = streamHead[s] + 1 .. streamHead[s] + M
  <2>1. ASSUME NEW e \in B PROVE e.version \in streamHead[s] + 1 .. streamHead[s] + M
    <3>1. PICK i \in I : e = E(i)
      BY <1>6
    <3>2. e.version = streamHead[s] + occ(i) /\ occ(i) \in 1..M
      BY <1>3, <3>1
    <3> HIDE DEF E, I, B, occ, M
    <3> QED BY <1>1, <1>2, <3>2
  <2>2. ASSUME NEW v \in streamHead[s] + 1 .. streamHead[s] + M
        PROVE  \E e \in B : e.version = v
    <3>1. v - streamHead[s] \in 1..M
      BY <1>1, <1>2
    <3>2. PICK i \in I : occ(i) = v - streamHead[s]
      BY <3>1, <1>5
    <3>3. E(i).version = v
      <4>1. E(i).version = streamHead[s] + occ(i)
        BY <1>3
      <4> HIDE DEF E, I, B, occ, M
      <4> QED BY <1>1, <1>2, <3>2, <4>1
    <3> QED BY <3>3, <1>6
  <2> QED BY <2>1, <2>2
<1>8. \A e, f \in B : e.pos < f.pos => e.version < f.version
  <2> SUFFICES ASSUME NEW i \in I, NEW k \in I, E(i).pos < E(k).pos
               PROVE  E(i).version < E(k).version
    BY <1>6
  <2>1. i < k /\ occ(i) \in Nat /\ occ(k) \in Nat
    <3>1. /\ i \in Nat /\ k \in Nat /\ E(i).pos = h.pos + i /\ E(k).pos = h.pos + k
          /\ occ(i) \in Nat /\ occ(k) \in Nat
      BY <1>3
    <3> HIDE DEF E, I, occ
    <3> QED BY <3>1, <1>1
  <2>2. occ(i) < occ(k)
    BY <2>1, <1>4
  <2>3. E(i).version = streamHead[s] + occ(i) /\ E(k).version = streamHead[s] + occ(k)
    BY <1>3
  <2> HIDE DEF E, I, occ
  <2> QED BY <2>1, <2>2, <2>3, <1>1
<1>9. Cardinality(B) = M
  <2> DEFINE f == [i \in I |-> E(i)]
  <2>1. \A i, k \in I : E(i) = E(k) => i = k
    <3>1. \A i \in I : E(i).pos = h.pos + i /\ i \in Nat
      BY <1>3
    <3> HIDE DEF E, I
    <3> QED BY <3>1, <1>1
  <2>2. f \in Injection(I, B) /\ f \in Surjection(I, B)
    BY <1>6, <2>1 DEF Injection, IsInjective, Surjection
  <2> QED BY <2>2, <1>2, FS_Surjection
<1>10. s \in Touched(r) => M > 0
  <2> SUFFICES ASSUME s \in Touched(r) PROVE M # 0
    BY <1>2
  <2>1. I # {}
    BY DEF Touched
  <2> QED BY <2>1, <1>2, FS_EmptySet
<1> QED BY <1>2, <1>7, <1>8, <1>9, <1>10

-----------------------------------------------------------------------------
(* The committed rows *)

\* The positions count the log and the versions count each stream; a stream has one
\* event of a version.
LEMMA RowCounts ==
  ASSUME TypeOK, Chain, \A s \in Streams : StreamChain(s)
  PROVE  /\ IsFiniteSet(log) /\ Cardinality(log) = head.pos
         /\ \A s \in Streams :
              /\ Cardinality(In(s, log)) = streamHead[s]
              /\ \A e, f \in In(s, log) : e.version = f.version => e = f
<1>1. \A e \in log : e.pos \in Nat /\ e.version \in Nat
  BY DEF TypeOK, Events
<1>2. IsFiniteSet(log) /\ Cardinality(log) = head.pos
  <2> DEFINE f == [e \in log |-> e.pos]
  <2>1. f \in [log -> Int] /\ head.pos \in Nat /\ \A e \in log : f[e] = e.pos
    BY <1>1 DEF TypeOK, Heads
  <2>2. {f[e] : e \in log} = 0 + 1 .. 0 + head.pos
        /\ \A x, y \in log : f[x] = f[y] => x = y
    BY <2>1 DEF Chain
  <2> HIDE DEF f
  <2> QED BY <2>1, <2>2, CountByNumber
<1>3. ASSUME NEW s \in Streams
      PROVE  /\ Cardinality(In(s, log)) = streamHead[s]
             /\ \A e, f \in In(s, log) : e.version = f.version => e = f
  <2>1. In(s, log) \subseteq log
    BY DEF In
  <2>2. ASSUME NEW e \in In(s, log), NEW f \in In(s, log), e.version = f.version
        PROVE  e = f
    <3>1. e \in log /\ f \in log /\ e.pos \in Nat /\ f.pos \in Nat
          /\ e.version \in Nat /\ f.version \in Nat
      BY <1>1, <2>1
    <3>2. (e.pos < f.pos => e.version < f.version) /\ (f.pos < e.pos => f.version < e.version)
      BY DEF StreamChain
    <3>3. e.pos = f.pos
      BY <2>2, <3>1, <3>2
    <3> QED BY <3>1, <3>3 DEF Chain
  <2>3. Cardinality(In(s, log)) = streamHead[s]
    <3> DEFINE S == In(s, log)
               f == [e \in S |-> e.version]
    <3>1. f \in [S -> Int] /\ \A e \in S : f[e] = e.version
      BY <1>1, <2>1
    <3>2. streamHead[s] \in Nat
      BY DEF TypeOK
    <3>3. {f[e] : e \in S} = 0 + 1 .. 0 + streamHead[s]
      BY <3>1, <3>2 DEF StreamChain
    <3>4. \A x, y \in S : f[x] = f[y] => x = y
      BY <3>1, <2>2
    <3> HIDE DEF f, S
    <3>5. Cardinality(S) = streamHead[s]
      BY <3>1, <3>2, <3>3, <3>4, CountByNumber
    <3> QED BY <3>5 DEF S
  <2> QED BY <2>2, <2>3
<1> QED BY <1>2, <1>3

\* A batch after head h is itself a chain that begins with h's hash.
LEMMA BatchChain ==
  ASSUME TypeOK, NEW r \in Requests, NEW h \in Heads
  PROVE  /\ \A e \in Batch(r, h) :
              /\ e.pos > h.pos /\ e.pos <= h.pos + Len(r.events) /\ e.pos \in Nat
              /\ e.id[1] = r.cmd
              /\ e.pos = h.pos + 1 => e.prev = h.hash
              /\ e.pos = h.pos + Len(r.events) => e.id = <<r.cmd, Len(r.events)>>
         /\ \A e, f \in Batch(r, h) :
              /\ e.pos = f.pos => e = f
              /\ f.pos = e.pos + 1 => f.prev = e.id
<1> DEFINE L == Len(r.events)
<1>1. L \in Nat /\ h.pos \in Nat
  BY RequestFacts DEF Heads
<1>2. ASSUME NEW e \in Batch(r, h)
      PROVE  \E i \in 1..L : /\ e = EventOf(r, h, i) /\ e.pos = h.pos + i
                             /\ e.id = <<r.cmd, i>>
                             /\ e.prev = IF i = 1 THEN h.hash ELSE <<r.cmd, i - 1>>
  <2> PICK i \in 1..L : e = EventOf(r, h, i)
    BY DEF Batch
  <2> QED BY DEF EventOf
<1>3. ASSUME NEW e \in Batch(r, h)
      PROVE  /\ e.pos > h.pos /\ e.pos <= h.pos + L /\ e.pos \in Nat
             /\ e.id[1] = r.cmd
             /\ e.pos = h.pos + 1 => e.prev = h.hash
             /\ e.pos = h.pos + L => e.id = <<r.cmd, L>>
  <2> PICK i \in 1..L : /\ e.pos = h.pos + i /\ e.id = <<r.cmd, i>>
                        /\ e.prev = IF i = 1 THEN h.hash ELSE <<r.cmd, i - 1>>
    BY <1>2
  <2>1. i \in Nat /\ i >= 1 /\ i <= L
    BY <1>1
  <2> QED BY <1>1, <2>1
<1>4. ASSUME NEW e \in Batch(r, h), NEW f \in Batch(r, h)
      PROVE  /\ e.pos = f.pos => e = f
             /\ f.pos = e.pos + 1 => f.prev = e.id
  <2> PICK i \in 1..L : e = EventOf(r, h, i) /\ e.pos = h.pos + i /\ e.id = <<r.cmd, i>>
    BY <1>2
  <2> PICK k \in 1..L : /\ f = EventOf(r, h, k) /\ f.pos = h.pos + k
                        /\ f.prev = IF k = 1 THEN h.hash ELSE <<r.cmd, k - 1>>
    BY <1>2
  <2>1. i \in Nat /\ i >= 1 /\ k \in Nat
    BY <1>1
  <2>2. e.pos = f.pos => i = k
    BY <1>1, <2>1
  <2>3. f.pos = e.pos + 1 => k = i + 1
    BY <1>1, <2>1
  <2>4. k = i + 1 => k # 1 /\ k - 1 = i
    BY <2>1
  <2> QED BY <2>2, <2>3, <2>4
<1> QED BY <1>3, <1>4

\* A batch after the present head lengthens the chain.
LEMMA ChainGrows ==
  ASSUME TypeOK, Chain, NEW r \in Requests, r.kind = "ledger",
         log' = log \cup Batch(r, head),
         head' = [pos |-> head.pos + Len(r.events), hash |-> <<r.cmd, Len(r.events)>>]
  PROVE  Chain'
<1> DEFINE B == Batch(r, head)
           L == Len(r.events)
<1>1. head \in Heads /\ head.pos \in Nat /\ L \in Nat /\ L > 0
      /\ head'.pos = head.pos + L /\ head'.hash = <<r.cmd, L>>
  BY RequestFacts DEF TypeOK, Heads
<1>2. /\ \A e \in B : /\ e.pos > head.pos /\ e.pos <= head.pos + L /\ e.pos \in Nat
                      /\ e.pos = head.pos + 1 => e.prev = head.hash
                      /\ e.pos = head.pos + L => e.id = <<r.cmd, L>>
      /\ \A e, f \in B : (e.pos = f.pos => e = f) /\ (f.pos = e.pos + 1 => f.prev = e.id)
  BY <1>1, BatchChain
<1>3. {e.pos : e \in B} = head.pos + 1 .. head.pos + L
  BY <1>1, BatchFacts
<1>4. \A e \in log : e.pos \in Nat /\ e.pos <= head.pos /\ e.pos >= 1
  BY <1>1 DEF TypeOK, Events, Chain
<1> HIDE DEF B, L
<1>5. log' = log \cup B
  BY DEF B
<1>6. {e.pos : e \in log'} = 1..head'.pos
  <2>1. {e.pos : e \in log'} = {e.pos : e \in log} \cup {e.pos : e \in B}
    BY <1>5
  <2>2. 1..head.pos + L = 1..head.pos \cup head.pos + 1 .. head.pos + L
    BY <1>1
  <2> QED BY <1>1, <1>3, <2>1, <2>2 DEF Chain
<1>7. \A e, f \in log' : e.pos = f.pos => e = f
  BY <1>1, <1>2, <1>4, <1>5 DEF Chain
<1>8. \A e \in log' : e.pos = 1 => e.prev = Genesis
  BY <1>1, <1>2, <1>4, <1>5 DEF Chain
<1>9. ASSUME NEW e \in log', NEW f \in log', f.pos = e.pos + 1 PROVE f.prev = e.id
  <2>1. CASE e \in log /\ f \in log
    BY <1>9, <2>1 DEF Chain
  <2>2. CASE e \in B /\ f \in B
    BY <1>2, <1>9, <2>2
  <2>3. CASE e \in log /\ f \in B
    <3>1. e.pos = head.pos /\ f.pos = head.pos + 1
      BY <1>1, <1>2, <1>4, <1>9, <2>3
    <3> QED BY <1>2, <2>3, <3>1 DEF Chain
  <2>4. CASE e \in B /\ f \in log
    BY <1>1, <1>2, <1>4, <1>9, <2>4
  <2> QED BY <1>5, <2>1, <2>2, <2>3, <2>4
<1>10. \A e \in log' : e.pos = head'.pos => e.id = head'.hash
  BY <1>1, <1>2, <1>4, <1>5
<1> QED BY <1>1, <1>6, <1>7, <1>8, <1>9, <1>10 DEF Chain

\* It lengthens each of its streams by the events it has there.
LEMMA StreamGrows ==
  ASSUME TypeOK, Chain, NEW s \in Streams, StreamChain(s), NEW r \in Requests,
         log' = log \cup Batch(r, head),
         streamHead'[s] = streamHead[s] + Cardinality(In(s, Batch(r, head)))
  PROVE  StreamChain(s)'
<1> DEFINE B == In(s, Batch(r, head))
           N == Cardinality(B)
           h == streamHead[s]
<1>1. h \in Nat /\ head \in Heads /\ head.pos \in Nat
  BY DEF TypeOK, Heads
<1>2. /\ N \in Nat
      /\ {e.version : e \in B} = h + 1 .. h + N
      /\ \A e, f \in B : e.pos < f.pos => e.version < f.version
  BY <1>1, BatchVersions
<1>3. \A e \in B : e.pos \in Nat /\ e.pos > head.pos /\ e.version \in Nat /\ e.version > h
  <2>1. \A e \in B : e \in Batch(r, head)
    BY DEF In
  <2>2. \A e \in B : e.pos \in Nat /\ e.pos > head.pos
    BY <1>1, <2>1, BatchChain
  <2>3. \A e \in B : e.version \in h + 1 .. h + N
    BY <1>2
  <2>4. \A v \in h + 1 .. h + N : v \in Nat /\ v > h
    BY <1>1, <1>2
  <2> QED BY <2>2, <2>3, <2>4
<1>4. \A e \in In(s, log) : e.pos \in Nat /\ e.pos <= head.pos /\ e.version \in Nat
                            /\ e.version <= h
  <2>1. \A e \in In(s, log) : e \in log /\ e.version \in 1..h
    BY DEF In, StreamChain
  <2>2. \A e \in log : e.pos \in 1..head.pos
    BY DEF Chain
  <2>3. \A v \in 1..h : v \in Nat /\ v <= h
    BY <1>1
  <2>4. \A p \in 1..head.pos : p \in Nat /\ p <= head.pos
    BY <1>1
  <2> QED BY <2>1, <2>2, <2>3, <2>4
<1>5. In(s, log') = In(s, log) \cup B
  BY DEF In
<1>6. {e.version : e \in In(s, log')} = 1..streamHead'[s]
  <2>1. {e.version : e \in In(s, log')} =
          {e.version : e \in In(s, log)} \cup {e.version : e \in B}
    BY <1>5
  <2>2. {e.version : e \in In(s, log)} = 1..h
    BY DEF StreamChain
  <2>3. 1..h + N = 1..h \cup h + 1 .. h + N
    <3> HIDE DEF h, N
    <3> QED BY <1>1, <1>2
  <2> QED BY <1>2, <2>1, <2>2, <2>3
<1>7. ASSUME NEW e \in In(s, log'), NEW f \in In(s, log'), e.pos < f.pos
      PROVE  e.version < f.version
  <2>1. CASE e \in In(s, log) /\ f \in In(s, log)
    BY <1>7, <2>1 DEF StreamChain
  <2>2. CASE e \in B /\ f \in B
    BY <1>2, <1>7, <2>2
  <2>3. CASE e \in In(s, log) /\ f \in B
    <3> HIDE DEF h, B
    <3> QED BY <1>1, <1>3, <1>4, <2>3
  <2>4. CASE e \in B /\ f \in In(s, log)
    <3> HIDE DEF h, B
    <3> QED BY <1>1, <1>3, <1>4, <1>7, <2>4
  <2> QED BY <1>5, <2>1, <2>2, <2>3, <2>4
<1> QED BY <1>6, <1>7 DEF StreamChain

-----------------------------------------------------------------------------
(* The commit *)

\* The commit of a ledger command: everything it makes visible, in terms of the heads.
LEMMA LedgerCommit ==
  ASSUME HInv, NEW w \in Workers, pc[w] = "commit", Publish(w), Created(w),
         req[w].kind = "ledger"
  PROVE  /\ VersionsMatch(req[w]) /\ tx[w].batch = Batch(req[w], head)
         /\ tx[w].base = head
         /\ log' = log \cup Batch(req[w], head)
         /\ head' = [pos  |-> head.pos + Len(req[w].events),
                     hash |-> <<req[w].cmd, Len(req[w].events)>>]
         /\ streamHead' = [s \in Streams |->
              streamHead[s] + Cardinality(In(s, Batch(req[w], head)))]
         /\ readModel' = [s \in Streams |->
              readModel[s] + Cardinality(In(s, Batch(req[w], head)))]
         /\ applied' = applied \cup {e.id : e \in Batch(req[w], head)}
         /\ receipts' = receipts \cup {NewReceipt(w)}
         /\ assets' = assets
<1>1. HoldsHead(w) /\ tx[w].base = head /\ tx[w].batch # {}
  BY BatchAtCommit DEF HInv
<1>2. tx[w].batch = Batch(req[w], head) /\ VersionsMatch(req[w])
  BY <1>1 DEF HInv, BatchOK
<1>3. \A e \in tx[w].batch : e.id \notin applied
  <2>1. \A x \in receipts : x.cmd # req[w].cmd
    BY DEF HInv, IInv, TxOK
  <2>2. \A e \in log : e.id[1] # req[w].cmd
    BY <2>1 DEF HInv, IInv, ReceiptsOwnTheLog
  <2>3. \A e \in tx[w].batch : e.id[1] = req[w].cmd
    BY <1>1, BatchAtCommit DEF HInv
  <2> QED BY <2>2, <2>3 DEF HInv, Rows, Projected
<1>4. Unapplied(w) = Batch(req[w], head)
  BY <1>2, <1>3 DEF Unapplied
<1>5. tx[w].result.body = "posted"
  BY DEF HInv, BodyOK
<1> QED BY <1>1, <1>2, <1>4, <1>5 DEF Publish, NewHead

\* The commit of an asset command: a receipt and perhaps a row.
LEMMA AssetCommit ==
  ASSUME HInv, NEW w \in Workers, pc[w] = "commit", Publish(w), Created(w),
         req[w].kind = "asset"
  PROVE  /\ UNCHANGED <<log, head, streamHead, readModel, applied>>
         /\ receipts' = receipts \cup {NewReceipt(w)}
<1>1. tx[w].batch = {}
  BY BatchAtCommit DEF HInv
<1>2. \A s \in Streams : In(s, {}) = {}
  BY DEF In
<1>3. Unapplied(w) = {}
  BY <1>1 DEF Unapplied
<1>4. /\ streamHead' = [s \in Streams |-> streamHead[s] + 0]
      /\ readModel' = [s \in Streams |-> readModel[s] + 0]
  BY <1>1, <1>2, <1>3, FS_EmptySet DEF Publish
<1>5. streamHead' = streamHead /\ readModel' = readModel
  BY <1>4 DEF HInv, IInv, TypeOK
<1> QED BY <1>1, <1>5 DEF Publish, NewHead

\* What was accepted stays accepted, and the new receipt says what its client expected.
LEMMA CommitAccepts ==
  ASSUME HInv, NEW w \in Workers, pc[w] = "commit", Publish(w), Created(w)
  PROVE  ReceiptsAccepted'
<1> DEFINE r == req[w]
           n == NewReceipt(w)
<1>1. r \in Requests /\ head \in Heads /\ TypeOK /\ r.kind \in {"ledger", "asset"}
  BY RequestFacts DEF HInv, IInv, TypeOK
<1>2. receipts' = receipts \cup {n} /\ log \subseteq log'
  BY DEF Publish
<1>3. ASSUME NEW q \in Requests, Accepted(q) PROVE Accepted(q)'
  <2>1. \A s \in Streams : In(s, log) \subseteq In(s, log')
    BY <1>2 DEF In
  <2>2. ASSUME NEW s \in Touched(q)
        PROVE  \E e \in In(s, log'), x \in receipts' :
                 e.version = q.expects[s] + 1 /\ x.key = q.key /\ x.cmd = e.id[1]
    <3>1. PICK e \in In(s, log), x \in receipts :
                 e.version = q.expects[s] + 1 /\ x.key = q.key /\ x.cmd = e.id[1]
      BY <1>3 DEF Accepted
    <3>2. e \in In(s, log') /\ x \in receipts'
      BY <1>2 DEF In
    <3> QED BY <3>1, <3>2
  <2> QED BY <2>2 DEF Accepted
<1>4. ASSUME NEW q \in Requests, n.key = q.key, n.hash[2] = q.payload
      PROVE  Accepted(q)'
  <2>1. q.key = r.key /\ q.payload = r.payload
    BY <1>4 DEF NewReceipt, RequestHash
  <2>2. q.kind = r.kind /\ q.events = r.events /\ q.expects = r.expects
    BY <1>1, <2>1, PayloadAssumption
  <2> SUFFICES ASSUME NEW s \in Touched(r)
               PROVE  \E e \in In(s, log'), x \in receipts' :
                        e.version = r.expects[s] + 1 /\ x.key = r.key /\ x.cmd = e.id[1]
    BY <2>1, <2>2 DEF Accepted, Touched
  <2>3. r.kind = "ledger" /\ s \in Streams
    BY <1>1, RequestsAssumption, RequestFacts DEF Touched
  <2>4. /\ VersionsMatch(r) /\ log' = log \cup Batch(r, head)
    BY <2>3, LedgerCommit
  <2> DEFINE B == In(s, Batch(r, head))
             N == Cardinality(B)
  <2>5. /\ N \in Nat /\ N > 0
        /\ {e.version : e \in B} = streamHead[s] + 1 .. streamHead[s] + N
    BY <1>1, <2>3, BatchVersions
  <2>6. streamHead[s] \in Nat
    BY <1>1, <2>3 DEF TypeOK
  <2>7. streamHead[s] + 1 \in streamHead[s] + 1 .. streamHead[s] + N
    <3> HIDE DEF N
    <3> QED BY <2>5, <2>6
  <2>8. PICK e \in B : e.version = streamHead[s] + 1
    BY <2>5, <2>7
  <2>9. e \in In(s, log') /\ e \in Batch(r, head)
    BY <2>4 DEF In
  <2>10. e.id[1] = r.cmd
    BY <1>1, <2>9, BatchChain
  <2>11. r.expects[s] = streamHead[s]
    BY <2>4 DEF VersionsMatch
  <2>12. n \in receipts' /\ n.key = r.key /\ n.cmd = r.cmd
    BY <1>2 DEF NewReceipt
  <2> QED BY <2>8, <2>9, <2>10, <2>11, <2>12
<1>5. ASSUME NEW x \in receipts', NEW q \in Requests, x.key = q.key, x.hash[2] = q.payload
      PROVE  Accepted(q)'
  <2>1. CASE x \in receipts
    BY <1>3, <1>5, <2>1 DEF HInv, Rows, ReceiptsAccepted
  <2>2. CASE x = n
    BY <1>4, <1>5, <2>2
  <2> QED BY <1>2, <2>1, <2>2
<1> QED BY <1>5 DEF ReceiptsAccepted

\* One more receipt says "created" exactly when there is one more row.
LEMMA CommitCountsAssets ==
  ASSUME HInv, NEW w \in Workers, pc[w] = "commit", Publish(w), Created(w)
  PROVE  AssetRows'
<1> DEFINE r == req[w]
           n == NewReceipt(w)
           row == [asset |-> r.asset, meta |-> r.payload]
<1>1. /\ receipts' = receipts \cup {n} /\ n.result = tx[w].result /\ n.key = r.key
      /\ \A x \in receipts : x.key # r.key
  BY DEF Publish, NewReceipt, HInv, IInv, TxOK
<1>2. n \notin receipts
  BY <1>1
<1>3. IsFiniteSet(receipts') /\ IsFiniteSet(CreatedReceipts)
  <2>1. IsFiniteSet(receipts) /\ CreatedReceipts \subseteq receipts
    BY DEF HInv, Rows, AssetRows, CreatedReceipts
  <2> QED BY <1>1, <2>1, FS_AddElement, FS_Subset
<1>4. CASE tx[w].result.body = "created"
  <2>1. AtAsset(w)
    BY <1>4, RequestFacts DEF HInv, IInv, TypeOK, BodyOK, AtAsset
  <2>2. assets' = assets \cup {row} /\ \A a \in assets : a.asset # r.asset
    BY <1>4, <2>1 DEF Publish, HInv, BodyOK
  <2>3. CreatedReceipts' = CreatedReceipts \cup {n} /\ n \notin CreatedReceipts
    BY <1>1, <1>2, <1>4 DEF CreatedReceipts
  <2>4. row.asset = r.asset /\ row \notin assets
    BY <2>2
  <2>5. \A a, b \in assets' : a.asset = b.asset => a = b
    BY <2>2, <2>4 DEF HInv, Rows, AssetRows
  <2>6. IsFiniteSet(assets) /\ Cardinality(CreatedReceipts) = Cardinality(assets)
    BY DEF HInv, Rows, AssetRows
  <2>7. /\ IsFiniteSet(assets') /\ Cardinality(assets') = Cardinality(assets) + 1
    BY <2>2, <2>4, <2>6, FS_AddElement
  <2>8. Cardinality(CreatedReceipts') = Cardinality(CreatedReceipts) + 1
    BY <1>3, <2>3, FS_AddElement
  <2> QED BY <1>3, <2>5, <2>6, <2>7, <2>8 DEF AssetRows
<1>5. CASE tx[w].result.body # "created"
  <2>1. assets' = assets /\ CreatedReceipts' = CreatedReceipts
    BY <1>1, <1>5 DEF Publish, CreatedReceipts
  <2> QED BY <1>3, <2>1 DEF AssetRows, HInv, Rows
<1> QED BY <1>4, <1>5

\* A commit keeps the committed rows in shape.
LEMMA CommitKeepsRows ==
  ASSUME HInv, NEW w \in Workers, pc[w] = "commit", Publish(w), tampered' = tampered
  PROVE  Rows'
<1>1. CASE ~Created(w)
  BY <1>1 DEF Publish, rows, HInv, Rows, Chain, StreamChain, Projected, ReceiptsAccepted,
              Accepted, AssetRows, CreatedReceipts, In
<1>2. CASE Created(w)
  <2>1. req[w] \in Requests /\ req[w].kind \in {"ledger", "asset"} /\ TypeOK
    BY RequestFacts DEF HInv, IInv, TypeOK
  <2>2. CASE req[w].kind = "ledger"
    <3>1. Chain'
      BY <1>2, <2>1, <2>2, LedgerCommit, ChainGrows DEF HInv, Rows
    <3>2. \A s \in Streams : StreamChain(s)'
      BY <1>2, <2>1, <2>2, LedgerCommit, StreamGrows DEF HInv, Rows
    <3>3. Projected'
      <4>1. applied' = {e.id : e \in log'}
        BY <1>2, <2>2, LedgerCommit DEF HInv, Rows, Projected
      <4>2. ~tampered' => readModel' = streamHead'
        BY <1>2, <2>2, LedgerCommit DEF HInv, Rows, Projected
      <4> QED BY <4>1, <4>2 DEF Projected
    <3> QED BY <1>2, <3>1, <3>2, <3>3, CommitAccepts, CommitCountsAssets DEF Rows
  <2>3. CASE req[w].kind = "asset"
    <3>1. Chain' /\ (\A s \in Streams : StreamChain(s)') /\ Projected'
      BY <1>2, <2>3, AssetCommit
         DEF HInv, Rows, Chain, StreamChain, Projected, In
    <3> QED BY <1>2, <3>1, CommitAccepts, CommitCountsAssets DEF Rows
  <2> QED BY <2>1, <2>2, <2>3
<1> QED BY <1>1, <1>2

-----------------------------------------------------------------------------
(* What the rows say of the history *)

\* The log and the head are what the auditor expects.
LEMMA RowsAreLinear ==
  ASSUME HInv
  PROVE  LogIsAChain
<1>1. /\ IsFiniteSet(log) /\ Cardinality(log) = head.pos
      /\ \A s \in Streams : Cardinality(In(s, log)) = streamHead[s]
  BY RowCounts DEF HInv, IInv, Rows
<1>2. head.pos \in Nat
  BY DEF HInv, IInv, TypeOK, Heads
<1>3. IF log = {} THEN head.hash = Genesis
      ELSE \E e \in log : e.pos = head.pos /\ e.id = head.hash
  <2>1. CASE head.pos = 0
    BY <1>1, <2>1, FS_EmptySet DEF HInv, Rows, Chain
  <2>2. CASE head.pos # 0
    <3>1. head.pos \in 1..head.pos
      BY <1>2, <2>2
    <3>2. PICK e \in log : e.pos = head.pos
      BY <3>1 DEF HInv, Rows, Chain
    <3> QED BY <3>2 DEF HInv, Rows, Chain
  <2> QED BY <2>1, <2>2
<1>4. TerminalHashOk(log, head)
  BY <1>1, <1>3 DEF TerminalHashOk, HInv, Rows, Chain
<1>5. ~tampered => BalanceParityOk
  BY <1>1 DEF BalanceParityOk, HInv, Rows, Projected
<1> QED BY <1>4, <1>5 DEF LogIsAChain, HInv, Rows, Chain, StreamChain, Projected

\* Two accepted writers of a stream expected different versions of it.
LEMMA WritersDiffer ==
  ASSUME HInv
  PROVE  NoLostUpdate
<1> SUFFICES ASSUME NEW a \in answers, NEW b \in answers,
                    NEW s \in Touched(a.req) \cap Touched(b.req),
                    a.req.expects[s] = b.req.expects[s]
             PROVE  a.req.key = b.req.key
  BY DEF NoLostUpdate
<1>1. a.req \in Requests /\ b.req \in Requests
  BY DEF HInv, IInv, TypeOK
<1>2. s \in Streams
  BY <1>1, RequestFacts DEF Touched
<1>3. ASSUME NEW c \in answers PROVE Accepted(c.req)
  <2>1. c.req \in Requests
    BY DEF HInv, IInv, TypeOK
  <2>2. PICK x \in receipts : x.key = c.req.key /\ x.hash[2] = c.req.payload
    BY DEF HInv, IInv, SuccessIsTheReceipt
  <2> QED BY <2>1, <2>2 DEF HInv, Rows, ReceiptsAccepted
<1>4. PICK e \in In(s, log), x \in receipts :
        e.version = a.req.expects[s] + 1 /\ x.key = a.req.key /\ x.cmd = e.id[1]
  BY <1>3 DEF Accepted
<1>5. PICK f \in In(s, log), y \in receipts :
        f.version = b.req.expects[s] + 1 /\ y.key = b.req.key /\ y.cmd = f.id[1]
  BY <1>3 DEF Accepted
<1>6. e = f
  BY <1>2, <1>4, <1>5, RowCounts DEF HInv, IInv, Rows
<1>7. x = y
  BY <1>4, <1>5, <1>6 DEF HInv, IInv, ReceiptsOwnTheLog
<1> QED BY <1>4, <1>5, <1>7

-----------------------------------------------------------------------------
(* The steps *)

\* Steps that commit nothing keep the rows in shape; an outside write shows as tampered.
LEMMA RowsFrame ==
  ASSUME Rows, UNCHANGED <<receipts, log, head, streamHead, applied, assets>>,
         UNCHANGED <<readModel, tampered>> \/ tampered'
  PROVE  Rows'
BY DEF Rows, Chain, StreamChain, Projected, ReceiptsAccepted, Accepted, AssetRows,
       CreatedReceipts, In

\* A worker's prepared commit stays good while the worker, the heads and the assets rest.
LEMMA WorkerFrame ==
  ASSUME NEW v \in Workers, BatchOK(v), BodyOK(v),
         pc'[v] = pc[v], req'[v] = req[v], tx'[v] = tx[v],
         UNCHANGED <<head, streamHead, assets>>
  PROVE  BatchOK(v)' /\ BodyOK(v)'
BY DEF BatchOK, BodyOK, HoldsHead, Created, AtAsset, Batch, EventOf, VersionsMatch

\* What is left to show for a statement of w's transaction.
LEMMA StatementKeepsHInv ==
  ASSUME HInv, IInv', NEW w \in Workers, Local,
         \A v \in Workers \ {w} : pc'[v] = pc[v] /\ tx'[v] = tx[v],
         BatchOK(w)', BodyOK(w)',
         AtAsset(w)' => \/ AtAsset(w)
                        \/ \A v \in Workers \ {w} : AtAsset(v) => req[v].asset # req[w].asset
  PROVE  HInv'
<1>1. UNCHANGED <<rows, books, req, audit>>
  BY DEF Local
<1>2. Rows'
  BY <1>1, RowsFrame DEF HInv, rows, books
<1>3. \A v \in Workers : BatchOK(v)' /\ BodyOK(v)'
  BY <1>1, WorkerFrame DEF HInv, rows
<1>4. \A v \in Workers \ {w} : AtAsset(v)' = AtAsset(v)
  BY <1>1 DEF AtAsset, Created
<1>5. AssetExclusion'
  BY <1>1, <1>4 DEF HInv, AssetExclusion
<1>6. AuditedHead' /\ NoFalseAlarm'
  BY <1>1 DEF HInv, AuditedHead, NoFalseAlarm, rows, books
<1> QED BY <1>2, <1>3, <1>5, <1>6 DEF HInv

\* The end of a transaction, with or without a commit.
LEMMA EndKeepsHInv ==
  ASSUME HInv, IInv', NEW w \in Workers, NEW label \in {"idle", "authorize"},
         Ends(w, label), UNCHANGED rows \/ (pc[w] = "commit" /\ Publish(w))
  PROVE  HInv'
<1>1. /\ UNCHANGED <<books, audit>> /\ ~Created(w)' /\ pc'[w] = label
      /\ \A v \in Workers \ {w} : pc'[v] = pc[v] /\ req'[v] = req[v] /\ tx'[v] = tx[v]
  BY EndsExclusion DEF HInv, Ends, IInv, TypeOK
<1>2. Rows'
  BY <1>1, RowsFrame, CommitKeepsRows DEF HInv, rows, books
<1>3. BatchOK(w)' /\ BodyOK(w)' /\ ~AtAsset(w)'
  BY <1>1 DEF BatchOK, BodyOK, AtAsset, HoldsHead, Created
<1>4. \A v \in Workers \ {w} : AtAsset(v)' = AtAsset(v)
  BY <1>1 DEF AtAsset, Created
<1>5. AssetExclusion'
  BY <1>1, <1>3, <1>4 DEF HInv, AssetExclusion
<1>6. ASSUME NEW v \in Workers \ {w} PROVE BatchOK(v)' /\ BodyOK(v)'
  <2>1. pc'[v] = pc[v] /\ req'[v] = req[v] /\ tx'[v] = tx[v] /\ BatchOK(v) /\ BodyOK(v)
    BY <1>1 DEF HInv
  <2>2. CASE UNCHANGED rows
    BY <2>1, <2>2, WorkerFrame DEF rows
  <2>3. CASE pc[w] = "commit" /\ Publish(w) /\ ~Created(w)
    BY <2>1, <2>3, WorkerFrame DEF Publish, rows
  <2>4. CASE pc[w] = "commit" /\ Publish(w) /\ Created(w) /\ req[w].kind = "ledger"
    <3>1. HoldsHead(w) /\ ~HoldsHead(v)
      BY <2>4 DEF HoldsHead, HInv, IInv, Exclusion
    <3>2. ~HoldsHead(v)' /\ assets' = assets
      BY <2>1, <2>4, <3>1, LedgerCommit DEF HoldsHead, Created
    <3> QED BY <2>1, <3>2 DEF BatchOK, BodyOK, Created, AtAsset
  <2>5. CASE pc[w] = "commit" /\ Publish(w) /\ Created(w) /\ req[w].kind = "asset"
    <3>1. UNCHANGED <<head, streamHead>> /\ AtAsset(w)
      BY <2>5, AssetCommit DEF AtAsset
    <3>2. BatchOK(v)'
      BY <2>1, <3>1 DEF BatchOK, HoldsHead, Created, Batch, EventOf, VersionsMatch
    <3>3. AtAsset(v) => req[v].asset # req[w].asset
      BY <3>1 DEF HInv, AssetExclusion
    <3>4. \A a \in assets' : a \in assets \/ a.asset = req[w].asset
      BY <2>5 DEF Publish
    <3>5. BodyOK(v)'
      BY <2>1, <3>3, <3>4 DEF BodyOK, AtAsset, Created
    <3> QED BY <3>2, <3>5
  <2>6. req[w].kind \in {"ledger", "asset"}
    BY RequestFacts DEF HInv, IInv, TypeOK
  <2> QED BY <2>2, <2>3, <2>4, <2>5, <2>6
<1>7. AuditedHead'
  <2>1. CASE UNCHANGED rows
    BY <1>1, <2>1 DEF HInv, AuditedHead, rows
  <2>2. CASE ~Created(w) /\ Publish(w)
    BY <1>1, <2>2 DEF HInv, AuditedHead, rows, Publish
  <2>3. CASE Created(w)
    BY <1>1, <2>3 DEF HInv, IInv, AuditExclusion, AuditedHead
  <2> QED BY <2>1, <2>2, <2>3
<1>8. NoFalseAlarm'
  BY <1>1 DEF HInv, NoFalseAlarm, books
<1> QED BY <1>2, <1>3, <1>5, <1>6, <1>7, <1>8 DEF HInv

\* The statements that prepare no commit.
LEMMA EarlyStatementsKeepHInv ==
  ASSUME HInv, IInv', NEW w \in Workers,
         Authorize(w) \/ ReserveNew(w) \/ ReserveReplay(w) \/ LockHead(w)
  PROVE  HInv'
<1>1. Local /\ pc[w] \in {"authorize", "reserve", "lock"}
  BY DEF Authorize, ReserveNew, ReserveReplay, LockHead
<1>2. \A v \in Workers \ {w} : pc'[v] = pc[v] /\ tx'[v] = tx[v]
  BY DEF Authorize, ReserveNew, ReserveReplay, LockHead, Goto, HInv, IInv, TypeOK
<1>3. ~(pc'[w] \in {"complete", "commit"} /\ Created(w)')
  <2>1. CASE ReserveReplay(w)
    <3>1. ~Created(w)
      BY <2>1 DEF HInv, IInv, TxOK, ReserveReplay
    <3>2. tx'[w].created = tx[w].created
      BY <2>1 DEF ReserveReplay, HInv, IInv, TypeOK, Transactions
    <3> QED BY <3>1, <3>2 DEF Created
  <2>2. CASE Authorize(w) \/ ReserveNew(w) \/ LockHead(w)
    BY <2>2 DEF Authorize, ReserveNew, LockHead, Goto, HInv, IInv, TypeOK
  <2> QED BY <2>1, <2>2 DEF Authorize, ReserveNew, LockHead, ReserveReplay
<1>4. BatchOK(w)' /\ ~AtAsset(w)'
  BY <1>3 DEF BatchOK, AtAsset, HoldsHead
<1>5. BodyOK(w)'
  <2>1. Created(w)' => /\ tx'[w].result.body = "none"
                       /\ req[w].kind = "asset" => tx'[w].result.last = 0
    <3>1. CASE Authorize(w)
      <4>1. tx[w] = NoTx
        BY <3>1 DEF HInv, IInv, TxOK, Authorize
      <4>2. tx'[w].result = NoResult
        BY <3>1, <4>1 DEF Authorize, NoTx, HInv, IInv, TypeOK
      <4> QED BY <4>2 DEF NoResult
    <3>2. CASE ReserveNew(w)
      <4>1. tx[w].result = NoResult
        BY <3>2 DEF HInv, IInv, TxOK, ReserveNew
      <4>2. tx'[w].result = NoResult
        BY <3>2, <4>1 DEF ReserveNew, HInv, IInv, TypeOK, Transactions
      <4> QED BY <4>2 DEF NoResult
    <3>3. CASE ReserveReplay(w)
      <4>1. pc'[w] = "commit"
        BY <3>3 DEF ReserveReplay, Goto, HInv, IInv, TypeOK
      <4> QED BY <1>3, <4>1
    <3>4. CASE LockHead(w)
      <4>1. Created(w) /\ req[w].kind = "ledger" /\ tx[w].result.body = "none"
        BY <3>4 DEF HInv, IInv, TxOK, BodyOK, LockHead
      <4>2. tx'[w].result = tx[w].result
        BY <3>4 DEF LockHead, HInv, IInv, TypeOK, Transactions
      <4> QED BY <4>1, <4>2
    <3> QED BY <3>1, <3>2, <3>3, <3>4
  <2>2. req' = req
    BY <1>1 DEF Local
  <2> QED BY <1>3, <1>4, <2>1, <2>2 DEF BodyOK, Created
<1> QED BY <1>1, <1>2, <1>4, <1>5, StatementKeepsHInv

\* A ledger command appends its batch to the head it holds.
LEMMA AppendKeepsHInv ==
  ASSUME HInv, IInv', NEW w \in Workers, AppendEvents(w)
  PROVE  HInv'
<1>1. /\ Local /\ pc'[w] = "complete" /\ req' = req /\ UNCHANGED <<head, streamHead>>
      /\ tx'[w] = [tx[w] EXCEPT !.batch = Batch(req[w], tx[w].base)]
      /\ \A v \in Workers \ {w} : pc'[v] = pc[v] /\ tx'[v] = tx[v]
  BY DEF AppendEvents, Goto, Local, rows, HInv, IInv, TypeOK
<1>2. /\ Created(w) /\ req[w].kind = "ledger" /\ VersionsMatch(req[w]) /\ tx[w].base = head
      /\ tx[w].result.body = "none"
  BY DEF AppendEvents, HInv, IInv, TxOK, HoldsHead, BodyOK, Created
<1>3. tx[w] \in Transactions
  BY DEF HInv, IInv, TypeOK
<1>4. /\ tx'[w].batch = Batch(req[w], head) /\ tx'[w].created = tx[w].created
      /\ tx'[w].result = tx[w].result
  BY <1>1, <1>2, <1>3 DEF Transactions
<1>5. BatchOK(w)'
  BY <1>1, <1>2, <1>4 DEF BatchOK, Batch, EventOf, VersionsMatch
<1>6. BodyOK(w)' /\ ~AtAsset(w)'
  BY <1>1, <1>2, <1>4 DEF BodyOK, AtAsset, Created
<1> QED BY <1>1, <1>5, <1>6, StatementKeepsHInv

\* An asset command writes its row while nobody else has one of the code in flight.
LEMMA AssetKeepsHInv ==
  ASSUME HInv, IInv', NEW w \in Workers, CreateOrReuseAsset(w)
  PROVE  HInv'
<1> DEFINE same == {a \in assets : a.asset = req[w].asset}
           body == IF same = {} THEN "created" ELSE "reused"
<1>1. /\ Local /\ pc'[w] = "complete" /\ req' = req /\ assets' = assets
      /\ tx'[w] = [tx[w] EXCEPT !.result.body = body]
      /\ \A v \in Workers \ {w} : pc'[v] = pc[v] /\ tx'[v] = tx[v]
  BY DEF CreateOrReuseAsset, Goto, Local, rows, HInv, IInv, TypeOK
<1>2. /\ Created(w) /\ req[w].kind = "asset" /\ tx[w].result.last = 0
  BY DEF CreateOrReuseAsset, HInv, IInv, TxOK, BodyOK, Created
<1>3. tx[w] \in Transactions /\ tx[w].result \in Results
  BY DEF HInv, IInv, TypeOK, Transactions
<1>4. tx'[w].created = tx[w].created
  BY <1>1, <1>3 DEF Transactions
<1>5. tx'[w].result = [tx[w].result EXCEPT !.body = body]
  BY <1>1, <1>3 DEF Transactions
<1>6. tx'[w].result.body = body /\ tx'[w].result.last = 0
  BY <1>2, <1>3, <1>5 DEF Results
<1>7. BatchOK(w)'
  BY <1>1, <1>2 DEF BatchOK, HoldsHead
<1>8. body = "created" => \A a \in assets : a.asset # req[w].asset
  OBVIOUS
<1>9. BodyOK(w)'
  BY <1>1, <1>2, <1>6, <1>8 DEF BodyOK, AtAsset, Created
<1>10. \A v \in Workers \ {w} : AtAsset(v) => req[v].asset # req[w].asset
  BY DEF CreateOrReuseAsset, AssetFree, AtAsset
<1> QED BY <1>1, <1>7, <1>9, <1>10, StatementKeepsHInv

\* Completing the receipt leaves the batch and an asset's answer alone.
LEMMA CompleteKeepsHInv ==
  ASSUME HInv, IInv', NEW w \in Workers, CompleteReceipt(w)
  PROVE  HInv'
<1> DEFINE range == [first |-> tx[w].base.pos + 1,
                     last  |-> tx[w].base.pos + Len(req[w].events), body  |-> "posted"]
<1>1. /\ Local /\ pc[w] = "complete" /\ pc'[w] = "commit" /\ req' = req
      /\ UNCHANGED <<head, streamHead, assets>>
      /\ tx'[w] = IF req[w].kind = "asset" THEN tx[w] ELSE [tx[w] EXCEPT !.result = range]
      /\ \A v \in Workers \ {w} : pc'[v] = pc[v] /\ tx'[v] = tx[v]
  BY DEF CompleteReceipt, Goto, Local, rows, HInv, IInv, TypeOK
<1>2. tx[w] \in Transactions /\ Created(w)
  BY <1>1 DEF HInv, IInv, TypeOK, TxOK
<1>3. /\ tx'[w].created = tx[w].created /\ tx'[w].batch = tx[w].batch
      /\ tx'[w].result = IF req[w].kind = "asset" THEN tx[w].result ELSE range
  BY <1>1, <1>2 DEF Transactions
<1>4. BatchOK(w)'
  BY <1>1, <1>2, <1>3 DEF HInv, BatchOK, HoldsHead, Created, Batch, EventOf, VersionsMatch
<1>5. AtAsset(w)' = AtAsset(w)
  BY <1>1, <1>2, <1>3 DEF AtAsset, Created
<1>6. req[w].kind \in {"ledger", "asset"}
  BY RequestFacts DEF HInv, IInv, TypeOK
<1>7. BodyOK(w)'
  BY <1>1, <1>2, <1>3, <1>5, <1>6 DEF HInv, BodyOK, AtAsset, Created
<1> QED BY <1>1, <1>4, <1>5, <1>7, StatementKeepsHInv

\* A client's request starts with an empty transaction.
LEMMA SubmitKeepsHInv ==
  ASSUME HInv, IInv', NEW w \in Workers, NEW r \in Requests, Submit(w, r)
  PROVE  HInv'
<1>1. Ends(w, "authorize")
  <2>1. tx[w] = NoTx
    BY DEF HInv, IInv, TxOK, Submit
  <2>2. tx' = [tx EXCEPT ![w] = NoTx]
    BY <2>1 DEF HInv, IInv, TypeOK, Submit
  <2> QED BY <2>2 DEF HInv, IInv, TypeOK, Submit, Goto, Ends
<1>2. UNCHANGED rows
  BY DEF Submit
<1> QED BY <1>1, <1>2, EndKeepsHInv

\* Steps that leave the handlers alone.
LEMMA OthersKeepHInv ==
  ASSUME HInv, IInv', UNCHANGED thread,
         UNCHANGED <<receipts, log, head, streamHead, applied, assets>>,
         UNCHANGED <<readModel, tampered>> \/ tampered',
         AuditedHead', NoFalseAlarm'
  PROVE  HInv'
<1>1. Rows'
  BY RowsFrame DEF HInv
<1>2. \A v \in Workers : BatchOK(v)' /\ BodyOK(v)'
  BY WorkerFrame DEF HInv, thread
<1>3. AssetExclusion'
  BY DEF HInv, AssetExclusion, AtAsset, Created, thread
<1> QED BY <1>1, <1>2, <1>3 DEF HInv

\* The auditor finds the chain and the balances it reads in order unless somebody
\* wrote past the application.
LEMMA AuditKeepsHInv ==
  ASSUME HInv, IInv', Audit
  PROVE  HInv'
<1>1. UNCHANGED <<rows, thread, tampered>>
  BY DEF Audit, AuditLock, AuditReadHead, AuditVerify, books
<1>2. AuditedHead'
  BY <1>1 DEF HInv, IInv, TypeOK, AuditedHead, Audit, AuditLock, AuditReadHead, AuditVerify,
              rows
<1>3. NoFalseAlarm'
  <2>1. CASE AuditVerify
    <3>1. audit.head = head /\ TerminalHashOk(log, head) /\ (~tampered => BalanceParityOk)
      BY <2>1, RowsAreLinear DEF HInv, AuditedHead, AuditVerify, LogIsAChain
    <3> QED BY <1>1, <2>1, <3>1 DEF HInv, NoFalseAlarm, AuditVerify
  <2>2. CASE AuditLock \/ AuditReadHead
    BY <1>1, <2>2 DEF HInv, NoFalseAlarm, AuditLock, AuditReadHead, books
  <2> QED BY <2>1, <2>2 DEF Audit
<1> QED BY <1>1, <1>2, <1>3, OthersKeepHInv DEF rows

\* Operators and outside writes.
LEMMA EnvironmentKeepsHInv ==
  ASSUME HInv, IInv',
         (\E m \in MemberStates : ChangeMembership(m)) \/ (\E s \in Streams : Tamper(s))
  PROVE  HInv'
<1>1. CASE \E m \in MemberStates : ChangeMembership(m)
  <2>1. UNCHANGED <<rows, writeState, tampered, thread, audit>>
    BY <1>1 DEF ChangeMembership
  <2>2. AuditedHead' /\ NoFalseAlarm'
    BY <2>1 DEF HInv, AuditedHead, NoFalseAlarm, rows
  <2> QED BY <2>1, <2>2, OthersKeepHInv DEF rows
<1>2. CASE \E s \in Streams : Tamper(s)
  <2>1. /\ UNCHANGED <<receipts, log, head, streamHead, applied, assets, thread, audit>>
        /\ tampered' = TRUE
    BY <1>2 DEF Tamper
  <2>2. AuditedHead' /\ NoFalseAlarm'
    BY <2>1 DEF HInv, AuditedHead, NoFalseAlarm
  <2> QED BY <2>1, <2>2, OthersKeepHInv
<1> QED BY <1>1, <1>2

\* Every step of every worker keeps the history in shape.
LEMMA WorkerKeepsHInv ==
  ASSUME HInv, IInv', NEW w \in Workers, Step(w) \/ Reject(w) \/ Fault(w)
  PROVE  HInv'
<1>1. CASE Authorize(w) \/ ReserveNew(w) \/ ReserveReplay(w) \/ LockHead(w)
  BY <1>1, EarlyStatementsKeepHInv
<1>2. CASE AppendEvents(w) \/ CreateOrReuseAsset(w) \/ CompleteReceipt(w)
  BY <1>2, AppendKeepsHInv, AssetKeepsHInv, CompleteKeepsHInv
<1>3. CASE Forbid(w) \/ ReserveConflict(w) \/ ReserveClash(w) \/ LockPaused(w)
             \/ StaleVersion(w) \/ AssetConflict(w) \/ Reject(w) \/ OtherError(w)
             \/ RetryableError(w) \/ Crash(w)
  <2>1. UNCHANGED <<books, audit>> /\ UNCHANGED rows /\ (Finish(w) \/ RetryOrRaise(w))
    BY <1>3 DEF Forbid, ReserveConflict, ReserveClash, LockPaused, StaleVersion,
                AssetConflict, Reject, OtherError, RetryableError, Crash, Fail
  <2>2. Ends(w, "idle") \/ Ends(w, "authorize")
    BY <2>1, FinishEnds DEF HInv, IInv
  <2> QED BY <2>1, <2>2, EndKeepsHInv
<1>4. CASE Commit(w) \/ CommitUnknown(w) \/ CrashAfterCommit(w)
  <2>1. /\ pc[w] = "commit" /\ Publish(w) /\ UNCHANGED <<books, audit>>
        /\ (Finish(w) \/ RetryOrRaise(w))
    BY <1>4 DEF Commit, CommitUnknown, CrashAfterCommit
  <2>2. Ends(w, "idle") \/ Ends(w, "authorize")
    BY <2>1, FinishEnds DEF HInv, IInv
  <2> QED BY <2>1, <2>2, EndKeepsHInv
<1> QED BY <1>1, <1>2, <1>3, <1>4 DEF Step, Fault, Reserve, Lock, Handle

\* Initially the Book is empty.
LEMMA InitHInv == Init => HInv
<1> SUFFICES ASSUME Init PROVE HInv
  OBVIOUS
<1>1. IInv
  BY InitIInv
<1>2. /\ log = {} /\ receipts = {} /\ applied = {} /\ assets = {}
      /\ head = [pos |-> 0, hash |-> Genesis]
      /\ streamHead = [s \in Streams |-> 0] /\ readModel = [s \in Streams |-> 0]
      /\ writeState = "active" /\ audit = [pc |-> "idle", head |-> head]
      /\ pc = [w \in Workers |-> "idle"] /\ tx = [w \in Workers |-> NoTx]
  BY DEF Init
<1>3. Chain
  BY <1>2 DEF Chain
<1>4. ASSUME NEW s \in Streams PROVE StreamChain(s)
  BY <1>2 DEF StreamChain, In
<1>5. Projected /\ ReceiptsAccepted
  BY <1>2 DEF Projected, ReceiptsAccepted
<1>6. AssetRows
  BY <1>2, FS_EmptySet DEF AssetRows, CreatedReceipts
<1>7. ASSUME NEW w \in Workers PROVE BatchOK(w) /\ BodyOK(w) /\ ~AtAsset(w)
  BY <1>2, IdleFacts DEF BatchOK, BodyOK, AtAsset, HoldsHead, Created
<1>8. AssetExclusion /\ AuditedHead /\ NoFalseAlarm
  BY <1>2, <1>7 DEF AssetExclusion, AuditedHead, NoFalseAlarm
<1> QED BY <1>1, <1>3, <1>4, <1>5, <1>6, <1>7, <1>8 DEF HInv, Rows

\* The invariant is inductive.
LEMMA NextKeepsHInv == HInv /\ [Next]_vars => HInv'
<1> SUFFICES ASSUME HInv, [Next]_vars PROVE HInv'
  OBVIOUS
<1>1. IInv'
  BY NextKeepsIInv DEF HInv
<1>2. CASE Next
  BY <1>1, <1>2, WorkerKeepsHInv, SubmitKeepsHInv, AuditKeepsHInv, EnvironmentKeepsHInv
     DEF Next
<1>3. CASE UNCHANGED vars
  <2>1. UNCHANGED <<rows, books, thread, audit>>
    BY <1>3 DEF vars
  <2>2. AuditedHead' /\ NoFalseAlarm'
    BY <2>1 DEF HInv, AuditedHead, NoFalseAlarm, rows, books
  <2> QED BY <1>1, <2>1, <2>2, OthersKeepHInv DEF rows, books
<1> QED BY <1>2, <1>3

\* HInv holds in every reachable state of the command bus.
THEOREM HistoryInvariance == Spec => []HInv
BY InitHInv, NextKeepsHInv, PTL DEF Spec

\* The history of a Book is one line: positions, versions and hashes go on without a gap,
\* the projection folds each event once, and no writer's view of a stream is lost.
THEOREM OneLineOfHistory == Spec => []HistoryIsLinear
<1>1. HInv => HistoryIsLinear
  BY RowsAreLinear, WritersDiffer DEF HistoryIsLinear
<1> QED BY <1>1, HistoryInvariance, PTL

\* The auditor pauses a Book only after an outside write.
THEOREM AuditIsNeverWrong == Spec => []NoFalseAlarm
<1>1. HInv => NoFalseAlarm
  BY DEF HInv
<1> QED BY <1>1, HistoryInvariance, PTL

\* Concurrent creations leave one row per asset code, and one receipt that made it.
THEOREM AssetsAreCreatedOnce == Spec => []AssetCreatedOnce
<1>1. HInv => AssetCreatedOnce
  BY DEF HInv, Rows, AssetRows, AssetCreatedOnce, CreatedReceipts
<1> QED BY <1>1, HistoryInvariance, PTL

-----------------------------------------------------------------------------
(* The refinement of ExactlyOnceLedger: what the abstract variables stand for *)

Owners == [p \in 1..head.pos |-> OwnerAt(p)]
Outcome(x) == [key |-> x.key, cmd |-> x.cmd, result |-> x.result]
Outcomes == {Outcome(x) : x \in receipts}
Told == {[key |-> a.req.key, result |-> a.result] : a \in answers}

\* Each position has one owner, the command of its event.
LEMMA OwnerFacts ==
  ASSUME HInv
  PROVE  /\ \A e \in log : OwnerAt(e.pos) = e.id[1]
         /\ Owners \in Seq(Commands) /\ Len(Owners) = head.pos
<1>1. \A e \in log : OwnerAt(e.pos) = e.id[1]
  <2> SUFFICES ASSUME NEW e \in log PROVE OwnerAt(e.pos) = e.id[1]
    OBVIOUS
  <2>1. \A f \in log : f.pos = e.pos => f = e
    BY DEF HInv, Rows, Chain
  <2>2. (CHOOSE f \in log : f.pos = e.pos) = e
    BY <2>1
  <2> QED BY <2>2 DEF OwnerAt
<1>2. head.pos \in Nat
  BY DEF HInv, IInv, TypeOK, Heads
<1>3. \A p \in 1..head.pos : OwnerAt(p) \in Commands
  <2> SUFFICES ASSUME NEW p \in 1..head.pos PROVE OwnerAt(p) \in Commands
    OBVIOUS
  <2>1. PICK e \in log : e.pos = p
    BY DEF HInv, Rows, Chain
  <2>2. e.id[1] \in Commands
    BY DEF HInv, IInv, TypeOK, Events
  <2> QED BY <1>1, <2>1, <2>2
<1>4. Owners \in [1..head.pos -> Commands]
  BY <1>3 DEF Owners
<1>5. Owners \in Seq(Commands) /\ Len(Owners) = head.pos
  BY <1>2, <1>4
<1> QED BY <1>1, <1>5

\* A ledger command's commit appends its command once for each of its events.
LEMMA OwnersGrow ==
  ASSUME HInv, HInv', NEW w \in Workers, pc[w] = "commit", Publish(w), Created(w),
         req[w].kind = "ledger"
  PROVE  Owners' = Owners \o [i \in 1..Len(req[w].events) |-> req[w].cmd]
<1> DEFINE r == req[w]
           n == Len(r.events)
           h == head.pos
           added == [i \in 1..n |-> r.cmd]
<1>1. r \in Requests /\ r.cmd \in Commands /\ n \in Nat /\ h \in Nat /\ head \in Heads
  BY RequestFacts DEF HInv, IInv, TypeOK, Heads
<1>2. head'.pos = h + n /\ log' = log \cup Batch(r, head)
  BY LedgerCommit
<1>3. /\ Owners \in Seq(Commands) /\ Len(Owners) = h
      /\ \A e \in log : OwnerAt(e.pos) = e.id[1]
  BY OwnerFacts
<1>4. /\ Owners' \in Seq(Commands) /\ Len(Owners') = h + n
      /\ \A e \in log' : OwnerAt(e.pos)' = e.id[1]
  <2>1. (/\ \A e \in log : OwnerAt(e.pos) = e.id[1]
         /\ Owners \in Seq(Commands) /\ Len(Owners) = head.pos)'
    BY OwnerFacts, PTL
  <2> QED BY <1>2, <2>1
<1>5. added \in Seq(Commands) /\ Len(added) = n
  BY <1>1
<1>6. \A i \in 1..n : added[i] = r.cmd
  OBVIOUS
<1>7. ASSUME NEW p \in 1..h PROVE Owners'[p] = Owners[p]
  <2>1. PICK e \in log : e.pos = p
    BY DEF HInv, Rows, Chain
  <2>2. OwnerAt(p) = e.id[1] /\ OwnerAt(p)' = e.id[1]
    BY <1>2, <1>3, <1>4, <2>1
  <2>3. Owners[p] = OwnerAt(p)
    BY DEF Owners
  <2>4. p \in 1..head'.pos
    BY <1>1, <1>2
  <2>5. Owners'[p] = OwnerAt(p)'
    BY <2>4 DEF Owners
  <2> QED BY <2>2, <2>3, <2>5
<1>8. ASSUME NEW p \in h + 1 .. h + n PROVE Owners'[p] = r.cmd
  <2>1. {e.pos : e \in Batch(r, head)} = h + 1 .. h + n
    BY <1>1, BatchFacts DEF HInv, IInv
  <2>2. PICK e \in Batch(r, head) : e.pos = p
    BY <2>1
  <2>3. e.id[1] = r.cmd /\ e \in log'
    BY <1>1, <1>2, <2>2, BatchChain DEF HInv, IInv
  <2>4. p \in 1..head'.pos
    BY <1>1, <1>2
  <2>5. Owners'[p] = OwnerAt(p)'
    BY <2>4 DEF Owners
  <2> QED BY <1>4, <2>2, <2>3, <2>5
<1> DEFINE S == Owners \o added
<1>9. /\ S \in Seq(Commands) /\ Len(S) = h + n
      /\ \A p \in 1 .. h + n : S[p] = IF p <= h THEN Owners[p] ELSE added[p - h]
  <2> HIDE DEF added, n, h
  <2>1. /\ S \in Seq(Commands) /\ Len(S) = Len(Owners) + Len(added)
        /\ \A i \in 1 .. Len(Owners) + Len(added) :
             S[i] = IF i <= Len(Owners) THEN Owners[i] ELSE added[i - Len(Owners)]
    BY <1>3, <1>5, ConcatProperties
  <2> QED BY <1>3, <1>5, <2>1
<1>10. ASSUME NEW p \in 1 .. h + n PROVE Owners'[p] = S[p]
  <2>1. CASE p <= h
    <3>1. p \in 1..h
      BY <1>1, <2>1
    <3> QED BY <1>7, <1>9, <2>1, <3>1
  <2>2. CASE ~(p <= h)
    <3>1. p \in h + 1 .. h + n /\ p - h \in 1..n
      BY <1>1, <2>2
    <3>2. S[p] = added[p - h]
      BY <1>9, <2>2
    <3> QED BY <1>6, <1>8, <3>1, <3>2
  <2> QED BY <2>1, <2>2
<1>11. Owners' = S
  <2> HIDE DEF S, n, h
  <2> QED BY <1>4, <1>9, <1>10, SeqEqual
<1> QED BY <1>11

\* A new answer adds what it told.
LEMMA AnswerTells ==
  ASSUME NEW r, NEW result, answers' = answers \cup {[req |-> r, result |-> result]}
  PROVE  Told' = Told \cup {[key |-> r.key, result |-> result]}
<1> DEFINE Tells(a) == [key |-> a.req.key, result |-> a.result]
           new == [req |-> r, result |-> result]
<1>1. Tells(new) = [key |-> r.key, result |-> result]
  OBVIOUS
<1>2. Told = {Tells(a) : a \in answers} /\ Told' = {Tells(a) : a \in answers'}
  BY DEF Told
<1>3. {Tells(a) : a \in answers \cup {new}} = {Tells(a) : a \in answers} \cup {Tells(new)}
  <2> HIDE DEF Tells, new
  <2> QED OBVIOUS
<1> QED BY <1>1, <1>2, <1>3

\* An acceptance with values of the right kind is a step of the abstract ledger.
LEMMA AcceptIsNext ==
  ASSUME NEW k \in Keys, NEW c \in Commands, NEW n \in {Len(r.events) : r \in Requests},
         NEW body \in {"posted", "created", "reused"}, Ledger!Accept(k, c, n, body)
  PROVE  Ledger!Next
BY DEF Ledger!Next

\* The commit of a new receipt is the abstract acceptance of its command.
LEMMA CommitAcceptsAbstractly ==
  ASSUME HInv, HInv', NEW w \in Workers, pc[w] = "commit", Publish(w), Created(w),
         answers' \in {answers, answers \cup {[req |-> req[w], result |-> tx[w].result]}}
  PROVE  Ledger!Next
<1> DEFINE r == req[w]
           n == Len(r.events)
           result == tx[w].result
           body == result.body
<1>1. /\ r \in Requests /\ r.key \in Keys /\ r.cmd \in Commands /\ n \in Nat
      /\ n \in {Len(q.events) : q \in Requests} /\ result \in Results
      /\ r.kind \in {"ledger", "asset"}
  BY RequestFacts DEF HInv, IInv, TypeOK, Transactions
<1>2. body \in {"posted", "created", "reused"}
  BY <1>1 DEF HInv, BodyOK, AtAsset
<1>3. Len(Owners) = head.pos /\ head.pos \in Nat
  BY OwnerFacts DEF HInv, IInv, TypeOK, Heads
<1>4. result = [first |-> IF n = 0 THEN 0 ELSE Len(Owners) + 1,
                last  |-> IF n = 0 THEN 0 ELSE Len(Owners) + n,
                body  |-> body]
  <2>1. CASE r.kind = "ledger"
    <3>1. result.first = head.pos + 1 /\ result.last = head.pos + n
      BY <2>1, BatchAtCommit DEF HInv
    <3>2. n # 0
      BY <1>1, <2>1, RequestFacts
    <3> QED BY <1>1, <1>3, <3>1, <3>2 DEF Results
  <2>2. CASE r.kind = "asset"
    <3>1. result.first = 0 /\ result.last = 0
      BY <2>2 DEF HInv, IInv, TxOK, BodyOK
    <3>2. n = 0
      <4>1. r.events = <<>>
        BY <1>1, <2>2, RequestsAssumption
      <4> QED BY <4>1
    <3> QED BY <1>1, <3>1, <3>2 DEF Results
  <2> QED BY <1>1, <2>1, <2>2
<1>5. \A o \in Outcomes : o.key # r.key /\ o.cmd # r.cmd
  BY DEF Outcomes, Outcome, HInv, IInv, TxOK
<1>6. Owners' = Owners \o [i \in 1..n |-> r.cmd]
  <2>1. CASE r.kind = "ledger"
    BY <2>1, OwnersGrow
  <2>2. CASE r.kind = "asset"
    <3>1. UNCHANGED <<log, head>>
      BY <2>2, AssetCommit
    <3>2. Owners' = Owners
      BY <3>1 DEF Owners, OwnerAt
    <3>3. r.events = <<>>
      BY <1>1, <2>2, RequestsAssumption
    <3>4. [i \in 1..n |-> r.cmd] = <<>>
      BY <3>3
    <3>5. Owners \o <<>> = Owners
      BY OwnerFacts, ConcatEmptySeq
    <3> QED BY <3>2, <3>4, <3>5
  <2> QED BY <1>1, <2>1, <2>2
<1>7. Outcomes' = Outcomes \cup {[key |-> r.key, cmd |-> r.cmd, result |-> result]}
  <2>1. receipts' = receipts \cup {NewReceipt(w)}
    BY DEF Publish
  <2>2. Outcome(NewReceipt(w)) = [key |-> r.key, cmd |-> r.cmd, result |-> result]
    BY DEF Outcome, NewReceipt
  <2>3. Outcomes' = {Outcome(x) : x \in receipts'}
    BY DEF Outcomes, Outcome
  <2> QED BY <2>1, <2>2, <2>3 DEF Outcomes
<1>8. Told' \in {Told, Told \cup {[key |-> r.key, result |-> result]}}
  <2>1. CASE answers' = answers
    BY <2>1 DEF Told
  <2>2. CASE answers' = answers \cup {[req |-> r, result |-> result]}
    BY <2>2, AnswerTells
  <2> QED BY <2>1, <2>2
<1>9. PICK k, c, m, b : k = r.key /\ c = r.cmd /\ m = n /\ b = body
  OBVIOUS
<1>10. Ledger!Accept(k, c, m, b)
  BY <1>4, <1>5, <1>6, <1>7, <1>8, <1>9
     DEF Ledger!Accept, Ledger!ResultAfter, Owners, Outcomes, Outcome, Told
<1>11. /\ k \in Keys /\ c \in Commands /\ m \in {Len(q.events) : q \in Requests}
       /\ b \in {"posted", "created", "reused"}
  BY <1>1, <1>2, <1>9
<1> QED BY <1>10, <1>11, AcceptIsNext

\* Learning a recorded outcome is a step of the abstract ledger.
LEMMA TellIsNext ==
  ASSUME NEW o \in Outcomes, Ledger!Tell(o)
  PROVE  Ledger!Next
BY DEF Ledger!Next, Outcomes, Outcome

\* What the abstract ledger is made of: steps that leave it alone change none of it.
LEMMA RowsFixTheLedger ==
  ASSUME UNCHANGED <<receipts, log, head>>
  PROVE  UNCHANGED <<Owners, Outcomes>>
BY DEF Owners, OwnerAt, Outcomes, Outcome

\* A replayed success is the recorded outcome of its key.
LEMMA ReplayTells ==
  ASSUME HInv, NEW w \in Workers, pc[w] = "commit", ~Created(w), UNCHANGED rows,
         answers' = answers \cup {[req |-> req[w], result |-> tx[w].result]}
  PROVE  Ledger!Next
<1>1. PICK x \in receipts : x.key = req[w].key /\ x.result = tx[w].result
  BY DEF HInv, IInv, TxOK
<1>2. PICK o \in Outcomes : o = Outcome(x)
  BY DEF Outcomes
<1>3. o.key = req[w].key /\ o.result = tx[w].result
  BY <1>1, <1>2 DEF Outcome
<1>4. UNCHANGED <<Owners, Outcomes>>
  BY RowsFixTheLedger DEF rows
<1>5. Told' = Told \cup {[key |-> o.key, result |-> o.result]}
  <2>1. Told' = Told \cup {[key |-> req[w].key, result |-> tx[w].result]}
    BY AnswerTells
  <2> QED BY <1>3, <2>1
<1>6. Ledger!Tell(o)
  BY <1>4, <1>5 DEF Ledger!Tell, Owners, Outcomes, Outcome, Told
<1> QED BY <1>6, TellIsNext

\* The abstract ledger's own state, seen from the command bus.
LEMMA LedgerStutters ==
  ASSUME UNCHANGED <<receipts, log, head, answers>>
  PROVE  UNCHANGED Ledger!vars
<1>1. UNCHANGED <<Owners, Outcomes>>
  BY RowsFixTheLedger
<1>2. UNCHANGED Told
  BY DEF Told
<1> QED BY <1>1, <1>2 DEF Ledger!vars, Owners, Outcomes, Outcome, Told

\* Initially nothing is recorded and nobody was told anything.
LEMMA LedgerInit == Init => Ledger!Init
<1> SUFFICES ASSUME Init PROVE Ledger!Init
  OBVIOUS
<1>1. log = {} /\ receipts = {} /\ answers = {} /\ head.pos = 0
  BY DEF Init
<1>2. Owners = <<>>
  <2>1. 1..head.pos = {}
    BY <1>1
  <2> QED BY <2>1 DEF Owners
<1>3. Outcomes = {} /\ Told = {}
  BY <1>1 DEF Outcomes, Told
<1> QED BY <1>2, <1>3 DEF Ledger!Init, Owners, Outcomes, Outcome, Told

\* Every step of the command bus is a step of the abstract ledger or leaves it alone: the
\* commit of a new receipt accepts its command, the answer to a replay tells its outcome.
LEMMA StepIsAbstract == HInv /\ HInv' /\ [Next]_vars => [Ledger!Next]_(Ledger!vars)
<1> SUFFICES ASSUME HInv, HInv', [Next]_vars
             PROVE  Ledger!Next \/ UNCHANGED Ledger!vars
  OBVIOUS
<1>1. ASSUME NEW w \in Workers, Commit(w) \/ CommitUnknown(w) \/ CrashAfterCommit(w)
      PROVE  Ledger!Next \/ UNCHANGED Ledger!vars
  <2>1. /\ pc[w] = "commit" /\ Publish(w)
        /\ \/ answers' = answers
           \/ answers' = answers \cup {[req |-> req[w], result |-> tx[w].result]}
    BY <1>1 DEF Commit, CommitUnknown, CrashAfterCommit
  <2>2. CASE Created(w)
    BY <2>1, <2>2, CommitAcceptsAbstractly
  <2>3. CASE ~Created(w)
    <3>1. UNCHANGED rows
      BY <2>1, <2>3 DEF Publish
    <3>2. CASE answers' = answers
      BY <3>1, <3>2, LedgerStutters DEF rows
    <3>3. CASE answers' = answers \cup {[req |-> req[w], result |-> tx[w].result]}
      BY <2>1, <2>3, <3>1, <3>3, ReplayTells
    <3> QED BY <2>1, <3>2, <3>3
  <2> QED BY <2>2, <2>3
<1>2. \/ \E w \in Workers : Commit(w) \/ CommitUnknown(w) \/ CrashAfterCommit(w)
      \/ UNCHANGED <<receipts, log, head, answers>>
  BY DEF Next, Step, Fault, Reserve, Lock, Handle, Audit, Submit, Authorize, Forbid,
         ReserveNew, ReserveReplay, ReserveConflict, ReserveClash, LockHead, LockPaused,
         Reject, AppendEvents, StaleVersion, CreateOrReuseAsset, AssetConflict,
         CompleteReceipt, RetryableError, OtherError, Crash, AuditLock, AuditReadHead,
         AuditVerify, ChangeMembership, Tamper, Fail, Local, rows, vars
<1> QED BY <1>1, <1>2, LedgerStutters

\* The command bus implements the abstract ledger: whatever its locks, retries and faults
\* do, a client sees commands executed once, one after the other.
THEOREM ExactlyOnce == Spec => RefinesExactlyOnce
BY LedgerInit, StepIsAbstract, HistoryInvariance, PTL
   DEF Spec, RefinesExactlyOnce, Ledger!Spec
=============================================================================
