--------------------------- MODULE ExactlyOnceLedger ---------------------------
(***************************************************************************)
(* What the command bus promises its clients: commands take effect one     *)
(* after the other, at most once for each idempotency key and each command *)
(* id; the events of a command are contiguous in the Book's ledger; a key  *)
(* that has an outcome keeps it, and it is all a client is ever told.      *)
(* There are no locks, attempts, transactions or failures at this level.   *)
(***************************************************************************)
EXTENDS Naturals, Sequences

CONSTANTS Keys, Commands, BatchSizes, Bodies

VARIABLES
    ledger,    \* the sequence of commands that own the Book's positions
    outcomes,  \* the accepted commands: [key, cmd, result]
    told       \* what clients know: [key, result]

vars == <<ledger, outcomes, told>>

Init == ledger = <<>> /\ outcomes = {} /\ told = {}

ResultAfter(n, body) ==
    [first |-> IF n = 0 THEN 0 ELSE Len(ledger) + 1,
     last  |-> IF n = 0 THEN 0 ELSE Len(ledger) + n,
     body  |-> body]

\* Command c takes effect under key k with n events; the client may learn it or not.
Accept(k, c, n, body) ==
    LET res == ResultAfter(n, body) IN
    /\ \A o \in outcomes : o.key # k /\ o.cmd # c
    /\ ledger' = ledger \o [i \in 1..n |-> c]
    /\ outcomes' = outcomes \cup {[key |-> k, cmd |-> c, result |-> res]}
    /\ told' \in {told, told \cup {[key |-> k, result |-> res]}}

\* A client learns an outcome, again or for the first time.
Tell(o) ==
    /\ told' = told \cup {[key |-> o.key, result |-> o.result]}
    /\ UNCHANGED <<ledger, outcomes>>

Next ==
    \/ \E k \in Keys, c \in Commands, n \in BatchSizes, body \in Bodies :
         Accept(k, c, n, body)
    \/ \E o \in outcomes : Tell(o)

Spec == Init /\ [][Next]_vars
=============================================================================
