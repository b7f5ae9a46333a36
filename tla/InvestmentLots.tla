---------------------------- MODULE InvestmentLots ----------------------------
(***************************************************************************)
(* Investment lots: what an instrument was bought for, lot by lot, and how *)
(* that cost is divided over its sales.  A handler folds the Book's lot    *)
(* events into positions, freezes a sale's allocations in its event, and   *)
(* the synchronous projection applies them to the tables.  Commands run    *)
(* under the Book head lock (see CommandBus) and are one step each.        *)
(*                                                                         *)
(* Every command is linked to a transaction of the journal, whose amounts  *)
(* are not compared with the lot's; fees and proceeds are left out, and so *)
(* are the table's triggers, which repeat the projection's guards.         *)
(*                                                                         *)
(* The operators marked "Mutant" are in no behaviour, see CommandBus.      *)
(***************************************************************************)
EXTENDS Integers, FiniteSets, Sequences, FiniteSetsExt

CONSTANTS
    Lots,         \* lot ids, chosen by the clients
    Sales,        \* journal transactions of sales, one sale each
    Pools,        \* pairs of instrument and settlement asset
    Quantities,   \* what is bought at once
    Costs,        \* for how much
    Dates         \* effective dates, in no relation to the order of the commands

ASSUME LotsAssumption ==
    /\ Quantities \subseteq Nat \ {0}
    /\ Costs \subseteq Nat \ {0}
    /\ Dates \subseteq Nat
    /\ IsFiniteSet(Lots)

VARIABLES
    log,         \* lot events by book position: [lot, pool, at, quantity, cost] or
                 \* [sale, pool, parts], parts a function from lots to [quantity, cost]
    lots,        \* investment_lots: [pool, quantity, cost, position], what remains
    allocations  \* investment_lot_allocations: [sale, lot, quantity, cost]

lotVars == <<log, lots, allocations>>

LotsInit ==
    /\ log = <<>>
    /\ lots = <<>>
    /\ allocations = {}

IsPurchase(e) == "lot" \in DOMAIN e
Sold == {log[n].sale : n \in {m \in DOMAIN log : ~IsPurchase(log[m])}}

-----------------------------------------------------------------------------
(* reduce_investment_events *)

Purchased(p, e, n) ==
    [l \in DOMAIN p \cup {e.lot} |->
       IF l = e.lot THEN [pool |-> e.pool, at |-> e.at, position |-> n,
                          quantity |-> e.quantity, cost |-> e.cost] ELSE p[l]]

Less(p, parts) ==
    [l \in DOMAIN p |->
       IF l \in DOMAIN parts
       THEN [p[l] EXCEPT !.quantity = @ - parts[l].quantity, !.cost = @ - parts[l].cost]
       ELSE p[l]]

\* The positions after each event of the log.
Positions ==
    LET after[n \in 0..Len(log)] ==
          IF n = 0 THEN <<>>
          ELSE IF IsPurchase(log[n]) THEN Purchased(after[n - 1], log[n], n)
               ELSE Less(after[n - 1], log[n].parts)
    IN after

Position == Positions[Len(log)]

\* What the reducer and the projection ask of a sale: lots they know, of its pool, with
\* enough left, and quantity and cost run out together.
Applicable(p, pool, parts) ==
    \A l \in DOMAIN parts :
       /\ l \in DOMAIN p /\ p[l].pool = pool
       /\ parts[l].quantity <= p[l].quantity
       /\ parts[l].cost <= p[l].cost
       /\ (parts[l].quantity = p[l].quantity) = (parts[l].cost = p[l].cost)

-----------------------------------------------------------------------------
(* select_lot_allocations *)

\* The operators take p, the positions of the fold.
Held(p, pool) == {l \in DOMAIN p : p[l].pool = pool /\ p[l].quantity > 0}

\* _fifo_key: by effective date, then by position.
Before(x, y) ==
    \/ x.at < y.at
    \/ x.at = y.at /\ x.position < y.position

QuantityIn(p, ls) == MapThenSumSet(LAMBDA l : p[l].quantity, ls)

\* _select_fifo: the quantities taken from the oldest lots.
Fifo(p, pool, quantity) ==
    LET held == Held(p, pool)
        older == [l \in held |-> QuantityIn(p, {m \in held : Before(p[m], p[l])})]
    IN [l \in {m \in held : older[m] < quantity} |->
          IF quantity - older[l] < p[l].quantity THEN quantity - older[l] ELSE p[l].quantity]

\* Mutant: a part's cost is rounded to the nearest unit.
RoundedCost(x, k) == (2 * x.cost * k + x.quantity) \div (2 * x.quantity)

\* _allocated_cost: the last part has the whole remainder, another is rounded down.
AllocatedCost(x, k) == IF k = x.quantity THEN x.cost ELSE (x.cost * k) \div x.quantity

-----------------------------------------------------------------------------
(* The synchronous projection; n is the position of the event *)

LotAcquired(l, pool, quantity, cost, n) ==
    /\ l \notin DOMAIN lots
    /\ lots' = [m \in DOMAIN lots \cup {l} |->
         IF m = l THEN [pool |-> pool, quantity |-> quantity, cost |-> cost, position |-> n]
                  ELSE lots[m]]
    /\ UNCHANGED allocations

LotDisposed(s, pool, parts, n) ==
    /\ Applicable(lots, pool, parts)
    /\ lots' = [l \in DOMAIN lots |->
         IF l \in DOMAIN parts
         THEN [lots[l] EXCEPT !.quantity = @ - parts[l].quantity, !.cost = @ - parts[l].cost,
                              !.position = n]
         ELSE lots[l]]
    /\ allocations' = allocations \cup
         {[sale |-> s, lot |-> l, quantity |-> parts[l].quantity, cost |-> parts[l].cost] :
            l \in DOMAIN parts}

-----------------------------------------------------------------------------
(* Commands *)

\* The stream of a lot begins with its purchase.
Acquire(l, pool, at, quantity, cost) ==
    /\ \A n \in DOMAIN log : IsPurchase(log[n]) => log[n].lot # l
    /\ log' = Append(log,
         [lot |-> l, pool |-> pool, at |-> at, quantity |-> quantity, cost |-> cost])
    /\ LotAcquired(l, pool, quantity, cost, Len(log'))

\* A sale of the quantities in take.  A part that would cost nothing refuses it.
Dispose(p, s, pool, take) ==
    LET parts == [l \in DOMAIN take |->
                    [quantity |-> take[l], cost |-> AllocatedCost(p[l], take[l])]]
    IN
    /\ s \notin Sold
    /\ \A l \in DOMAIN parts : parts[l].cost > 0
    /\ log' = Append(log, [sale |-> s, pool |-> pool, parts |-> parts])
    /\ LotDisposed(s, pool, parts, Len(log'))

DisposeFifo(s, pool) ==
    LET p == Position IN
    \E quantity \in 1..QuantityIn(p, Held(p, pool)) :
       Dispose(p, s, pool, Fifo(p, pool, quantity))

\* _select_specific: the client names the lots and how much of each.
DisposeSpecific(s, pool, named) ==
    LET p == Position IN
    /\ named # {} /\ named \subseteq DOMAIN p /\ s \notin Sold
    /\ \A l \in named : p[l].pool = pool
    /\ \E take \in [named -> 1..Max({p[l].quantity : l \in named})] :
         /\ \A l \in named : take[l] <= p[l].quantity
         /\ Dispose(p, s, pool, take)

LotsNext ==
    \/ \E l \in Lots, pool \in Pools, at \in Dates, q \in Quantities, c \in Costs :
         Acquire(l, pool, at, q, c)
    \/ \E s \in Sales, pool \in Pools : DisposeFifo(s, pool)
    \/ \E s \in Sales, pool \in Pools, named \in SUBSET Lots : DisposeSpecific(s, pool, named)

LotsSpec == LotsInit /\ [][LotsNext]_lotVars

-----------------------------------------------------------------------------
(* Properties *)

Purchase(l) == CHOOSE e \in {log[n] : n \in DOMAIN log} : IsPurchase(e) /\ e.lot = l
PartsOf(l) == {a \in allocations : a.lot = l}

\* The table is the fold of the log, no sale of which the fold refuses, and what remains of
\* a lot with the parts that were sold is what was bought, to the last unit of cost; a lot
\* with something left keeps a cost and can be sold, and rounding leaves too much cost on it,
\* never too little, and less than one unit for each part (reduce_investment_events,
\* apply_investment_lot_disposed, _allocated_cost).
LotsAddUp ==
    LET after == Positions
        p == after[Len(log)]
    IN
    /\ DOMAIN lots = DOMAIN p
    /\ \A n \in DOMAIN log :
         ~IsPurchase(log[n]) => Applicable(after[n - 1], log[n].pool, log[n].parts)
    /\ \A l \in DOMAIN lots :
         /\ lots[l].quantity = p[l].quantity /\ lots[l].cost = p[l].cost
         /\ (lots[l].quantity = 0) = (lots[l].cost = 0)
         /\ lots[l].quantity + MapThenSumSet(LAMBDA a : a.quantity, PartsOf(l))
              = Purchase(l).quantity
         /\ lots[l].cost + MapThenSumSet(LAMBDA a : a.cost, PartsOf(l)) = Purchase(l).cost
         /\ LET drift == lots[l].cost * Purchase(l).quantity - Purchase(l).cost * lots[l].quantity
            IN drift \in 0..(Cardinality(PartsOf(l)) * (Purchase(l).quantity - 1))

\* A sale without named lots, of any amount there is, is of exactly that amount and takes
\* nothing from a lot while one of its pool bought on an earlier date has something left,
\* also when that one was recorded later or lots were sold by name before (_select_fifo,
\* _fifo_key).
OldestFirst ==
    LET p == Position IN
    \A pool \in Pools : \A quantity \in 1..QuantityIn(p, Held(p, pool)) :
       LET take == Fifo(p, pool, quantity) IN
       /\ MapThenSumSet(LAMBDA l : take[l], DOMAIN take) = quantity
       /\ \A m \in DOMAIN take, l \in Held(p, pool) :
            Purchase(l).at < Purchase(m).at
              => l \in DOMAIN take /\ take[l] = p[l].quantity

\* Whatever was bought and sold, cost is neither lost nor made and the oldest goes first.
SalesAreRight == LotsAddUp /\ OldestFirst
================================================================================
