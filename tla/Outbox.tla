--------------------------------- MODULE Outbox ---------------------------------
(***************************************************************************)
(* The transactional outbox: delivery workers claim a message for a lease, *)
(* publish it outside any transaction and acknowledge it in a second one.  *)
(* A worker compares leases with its own clock, the table's trigger with   *)
(* the database's.                                                         *)
(*                                                                         *)
(* Time is relative: every instant is kept as its distance from now on the *)
(* database's clock and comes closer with each Tick, so no clock grows.    *)
(* Nothing in the repository inserts messages; Enqueue stands for a        *)
(* command that does.                                                      *)
(*                                                                         *)
(* The operators marked "Mutant" are in no behaviour, see CommandBus.      *)
(***************************************************************************)
EXTENDS Integers, FiniteSets

CONSTANTS
    Workers,     \* delivery workers, one worker_id each
    Messages,    \* numbered in the order of available_at and message_id
    Lease,       \* lease_seconds
    Skew,        \* [Workers -> Int]: a worker's clock minus the database's
    MaxRun,      \* how long a run takes, between claimed_at and its end, unless it stalls
    MaxFailures  \* bound on crashes, stalls and failed publications

Nobody == "nobody"

ASSUME OutboxAssumption ==
    /\ Messages \subseteq Nat
    /\ Lease \in Nat
    /\ Skew \in [Workers -> Int]
    /\ MaxRun \in Nat
    /\ MaxFailures \in Nat
    /\ Nobody \notin Workers

VARIABLES
    row,       \* outbox_messages: [state, owner, until]; until counts from now
    task,      \* workers: [pc, msg, now, until, stalled]; now is the claimed_at it has read
    received,  \* messages the outside has got at least once
    failed     \* crashes, stalls and failed publications so far

vars == <<row, task, received, failed>>

\* No instant needs to be told apart from those that are further in the past.
Oldest == -Lease - 3
Clamp(t) == IF t < Oldest THEN Oldest ELSE t

NoTask == [pc |-> "idle", msg |-> 0, now |-> 0, until |-> 0, stalled |-> FALSE]

Init ==
    /\ row = [m \in Messages |-> [state |-> "absent", owner |-> Nobody, until |-> 0]]
    /\ task = [w \in Workers |-> NoTask]
    /\ received = {}
    /\ failed = 0

Enqueue(m) ==
    /\ row[m].state = "absent"
    /\ row' = [row EXCEPT ![m].state = "waiting"]
    /\ UNCHANGED <<task, received, failed>>

\* The time since w read its clock.
Elapsed(w) ==
    CASE task[w].pc = "idle" -> 0
      [] task[w].pc \in {"select", "update"} -> Skew[w] - task[w].now
      [] OTHER -> Skew[w] + Lease - task[w].until

Tick ==
    /\ \A w \in Workers : task[w].stalled \/ Elapsed(w) < MaxRun
    /\ row' = [m \in Messages |->
         IF row[m].owner = Nobody THEN row[m]
         ELSE [row[m] EXCEPT !.until = Clamp(@ - 1)]]
    /\ task' = [w \in Workers |->
         CASE task[w].pc \in {"select", "update"} -> [task[w] EXCEPT !.now = Clamp(@ - 1)]
           [] task[w].pc \in {"publish", "ack"} -> [task[w] EXCEPT !.until = Clamp(@ - 1)]
           [] OTHER -> task[w]]
    /\ UNCHANGED <<received, failed>>

-----------------------------------------------------------------------------
(* Claim *)

ReadClock(w) ==
    /\ task[w].pc = "idle"
    /\ task' = [task EXCEPT ![w] = [NoTask EXCEPT !.pc = "select", !.now = Skew[w]]]
    /\ UNCHANGED <<row, received, failed>>

RowLocked(m) == \E o \in Workers : task[o].pc = "update" /\ task[o].msg = m

\* Mutant: a message stays with the worker that claimed it first.
NeverClaimed(w, m) == row[m].owner = Nobody

\* Unclaimed, or its lease has passed on the worker's clock.
LeasePassed(w, m) == row[m].owner = Nobody \/ row[m].until <= task[w].now

Claimable(w) ==
    {m \in Messages : row[m].state = "waiting" /\ LeasePassed(w, m) /\ ~RowLocked(m)}

\* The first claimable row that nobody has locked: SELECT ... SKIP LOCKED.
SelectRow(w) ==
    /\ task[w].pc = "select"
    /\ IF Claimable(w) = {} THEN task' = [task EXCEPT ![w] = NoTask]
       ELSE \E m \in Claimable(w) :
              /\ \A n \in Claimable(w) : m <= n
              /\ task' = [task EXCEPT ![w].pc = "update", ![w].msg = m]
    /\ UNCHANGED <<row, received, failed>>

\* v2_validate_outbox_update: an unexpired claim is not taken over by another owner,
\* and its owner does not shorten it.
TriggerAllowsClaim(w, m) ==
    row[m].owner # Nobody /\ row[m].until > 0 =>
      row[m].owner = w /\ task[w].now + Lease >= row[m].until

Claim(w) ==
    LET m == task[w].msg IN
    /\ task[w].pc = "update"
    /\ TriggerAllowsClaim(w, m)
    /\ row' = [row EXCEPT ![m].owner = w, ![m].until = Clamp(task[w].now + Lease)]
    /\ task' = [task EXCEPT ![w].pc = "publish", ![w].now = 0,
                            ![w].until = Clamp(task[w].now + Lease)]
    /\ UNCHANGED <<received, failed>>

RefuseClaim(w) ==
    /\ task[w].pc = "update"
    /\ ~TriggerAllowsClaim(w, task[w].msg)
    /\ task' = [task EXCEPT ![w] = NoTask]
    /\ UNCHANGED <<row, received, failed>>

-----------------------------------------------------------------------------
(* Publish and acknowledge *)

Publish(w) ==
    /\ task[w].pc = "publish"
    /\ received' = received \cup {task[w].msg}
    /\ task' = [task EXCEPT ![w].pc = "ack"]
    /\ UNCHANGED <<row, failed>>

\* Mutant: the exception of the publisher is swallowed and the message acknowledged.
FailureSwallowed(w) ==
    /\ task[w].pc = "publish"
    /\ failed < MaxFailures
    /\ failed' = failed + 1
    /\ received' \in {received, received \cup {task[w].msg}}
    /\ task' = [task EXCEPT ![w].pc = "ack"]
    /\ UNCHANGED row

\* The outcome is unknown: the outside may have got the message.
PublishFails(w) ==
    /\ task[w].pc = "publish"
    /\ failed < MaxFailures
    /\ failed' = failed + 1
    /\ received' \in {received, received \cup {task[w].msg}}
    /\ task' = [task EXCEPT ![w] = NoTask]
    /\ UNCHANGED row

\* Mutant: the acknowledgement does not name the claim's owner.
AnyClaim(w, m) == row[m].state = "waiting" /\ row[m].owner # Nobody

\* The WHERE clause of the acknowledgement.
ClaimedBy(w, m) == row[m].state = "waiting" /\ row[m].owner = w

\* The update waits for a claim in progress; the trigger wants the lease unexpired.
Ack(w) ==
    LET m == task[w].msg IN
    /\ task[w].pc = "ack"
    /\ ~RowLocked(m)
    /\ ClaimedBy(w, m) /\ row[m].until > 0
    /\ row' = [row EXCEPT ![m] = [state |-> "delivered", owner |-> Nobody, until |-> 0]]
    /\ task' = [task EXCEPT ![w] = NoTask]
    /\ UNCHANGED <<received, failed>>

\* The claim was lost, or its lease is over: the worker raises, the row stays.
AckLost(w) ==
    LET m == task[w].msg IN
    /\ task[w].pc = "ack"
    /\ ~RowLocked(m)
    /\ ~(ClaimedBy(w, m) /\ row[m].until > 0)
    /\ task' = [task EXCEPT ![w] = NoTask]
    /\ UNCHANGED <<row, received, failed>>

\* The worker dies; what it holds is in its claim only.
Crash(w) ==
    /\ task[w].pc # "idle"
    /\ failed < MaxFailures
    /\ failed' = failed + 1
    /\ task' = [task EXCEPT ![w] = NoTask]
    /\ UNCHANGED <<row, received>>

\* The publisher or the database keeps the worker waiting beyond MaxRun.
Stall(w) ==
    /\ task[w].pc # "idle" /\ ~task[w].stalled
    /\ failed < MaxFailures
    /\ failed' = failed + 1
    /\ task' = [task EXCEPT ![w].stalled = TRUE]
    /\ UNCHANGED <<row, received>>

-----------------------------------------------------------------------------
RunOnce(w) ==
    ReadClock(w) \/ SelectRow(w) \/ Claim(w) \/ RefuseClaim(w) \/ Publish(w)
      \/ AckLost(w)

Next ==
    \/ \E m \in Messages : Enqueue(m)
    \/ Tick
    \/ \E w \in Workers : RunOnce(w) \/ Ack(w) \/ PublishFails(w) \/ Crash(w) \/ Stall(w)

Spec == Init /\ [][Next]_vars

(***************************************************************************)
(* Fairness: workers are run again and again, time passes, and an update   *)
(* that waits for a row lock is served (a claim skips locked rows, it does *)
(* not wait before it).  Delivery also rests on a lease that is longer     *)
(* than a run (MaxRun) and the difference of the clocks; crashes, stalled  *)
(* runs and failed publications are finitely many.                         *)
(***************************************************************************)
Fairness ==
    /\ WF_vars(Tick)
    /\ \A w \in Workers : WF_vars(RunOnce(w) \/ Ack(w)) /\ SF_vars(Ack(w) \/ AckLost(w))

FairSpec == Spec /\ Fairness
-----------------------------------------------------------------------------
(* Properties *)

\* A message is only marked delivered after the outside has got it, whatever claims
\* expired, were taken over or acknowledged late in between.
DeliveredWasReceived ==
    \A m \in Messages : row[m].state = "delivered" => m \in received

\* While a claim's lease runs on the database's clock nobody else publishes the
\* message under a running lease, although the workers' clocks differ.
OneLiveClaim ==
    \A v, w \in Workers :
        (/\ v # w /\ task[v].msg = task[w].msg
         /\ task[v].pc \in {"publish", "ack"} /\ task[w].pc \in {"publish", "ack"})
        => ~(task[v].until > 0 /\ task[w].until > 0)

\* Only the holder of the current claim ends it: an acknowledgement that comes after a
\* takeover changes nothing for the new owner.
TakeoverHolds ==
    [][\A w \in Workers :
         (task[w].pc = "ack" /\ task'[w].pc = "idle") =>
            \A m \in Messages : row'[m] # row[m] => row[m].owner = w]_vars

\* A claim excludes all others from the publication until its lease ends, and from its
\* acknowledgement for good (claim_next, guard_outbox_claim).
ClaimsExclude == []OneLiveClaim /\ TakeoverHolds

\* Every message in the outbox is delivered in the end: crashes and unknown outcomes
\* only delay it.
EventuallyDelivered ==
    \A m \in Messages : row[m].state = "waiting" ~> row[m].state = "delivered"
=============================================================================
