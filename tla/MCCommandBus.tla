----------------------------- MODULE MCCommandBus -----------------------------
(* Small instances of CommandBus. *)
EXTENDS CommandBus, TLC

CONSTANTS w1, w2, s1, s2, owner, viewer

\* A request of kind "ledger" that appends evs and expects version v of stream s1.
Post(k, c, p, evs, v) ==
    [kind |-> "ledger", key |-> k, cmd |-> c, payload |-> p, events |-> evs,
     expects |-> [s \in Streams |-> IF s = s1 THEN v ELSE 0], asset |-> "USD"]

Asset(k, c, p) ==
    [kind |-> "asset", key |-> k, cmd |-> c, payload |-> p, events |-> <<>>,
     expects |-> [s \in Streams |-> 0], asset |-> "USD"]

WorkerSymmetry == Permutations(Workers)

BothStreams == {s1, s2}
OneStream == {s1}
MCWriteStates == [ledger |-> {owner}, asset |-> {owner}]

\* A command, its resubmission with a new command id, and another payload under its key;
\* another key that carries its command id and competes with the resubmission for the
\* version of s1 both expect, with two events in one stream and one in another; and a
\* command that expects the version the first one leaves: the two commit one after the
\* other, in this order and no other.
MCRequests == {Post("k1", "c1", "p1", <<s1>>, 0),
               Post("k1", "c2", "p1", <<s1>>, 0),
               Post("k1", "c3", "p2", <<s2>>, 0),
               Post("k2", "c1", "p3", <<s1, s2, s1>>, 0),
               Post("k3", "c4", "p4", <<s1>>, 1)}

\* Commands that wait for one another under two keys: for the receipt of a key, two of
\* different keys for the head, and two of different keys for the asset row, which may hold
\* what one of them asks for, or something else.
WaitingRequests == {Post("k1", "c1", "p1", <<s1>>, 0),
                    Post("k2", "c2", "p2", <<s1>>, 0),
                    Asset("k1", "c3", "usd"),
                    Asset("k2", "c4", "usd"),
                    Asset("k2", "c5", "other")}
=============================================================================
