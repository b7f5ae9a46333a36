----------------------------- MODULE EverydayEntry -----------------------------
(***************************************************************************)
(* Everyday entries: prepare compiles what a user said into an intent with *)
(* a preview, commit posts it.  Between the two, and between the           *)
(* statements of one prepare, which takes no lock, accounts, cards and     *)
(* balances change and other intents are committed.  A commit runs under   *)
(* the Book head lock and is one step (see CommandBus), as are the         *)
(* commands of PaymentInstruments.                                         *)
(*                                                                         *)
(* One asset and no categories, which are only ever added.  The clearing   *)
(* accounts of the other side are left out.  An intent that expired needs  *)
(* no clock: it may expire at any time.                                    *)
(***************************************************************************)
EXTENDS PaymentInstruments, FiniteSetsExt

CONSTANTS
    Intents,         \* intents and the transactions they become
    CommitRequests,  \* request ids of commits
    Entries,         \* what users enter, see EntryShape
    Window           \* how far before its date an entry's duplicates are searched

(***************************************************************************)
(* from and to are an account, an account's name or None for the clearing  *)
(* account; via is a card's id or identity, or None; of is the refunded    *)
(* intent.  units of an adjustment is the balance the user counted.        *)
(***************************************************************************)
EntryShape ==
    [kind : {"expense", "income", "transfer", "payment", "adjustment", "refund"},
     from : Accounts \cup Names \cup {None}, to : Accounts \cup Names \cup {None},
     via : Instruments \cup Identities \cup {None}, of : Intents \cup {None},
     units : Nat, at : Nat, reference : STRING]

ASSUME EntriesAssumption ==
    /\ Entries \subseteq EntryShape
    /\ \A e \in Entries :
         /\ e.via # None => e.kind \in {"expense", "payment"}
         /\ e.from # None <=> \/ e.kind \in {"transfer", "payment"}
                              \/ e.kind = "expense" /\ e.via = None
         /\ e.to # None <=> \/ e.kind \in {"income", "transfer", "adjustment"}
                            \/ e.kind = "payment" /\ e.via = None
         /\ (e.kind = "refund") = (e.of # None)
         /\ e.units = 0 => e.kind = "adjustment"
    /\ Window \in Nat
    /\ None \notin Intents \cup CommitRequests
    /\ Accounts \cap Names = {}

VARIABLES
    intent,     \* prepared_entry_intents: [pc, entry, binding, names, units]
    balance,    \* account_balances
    posted,     \* the entry of a consumed intent: [at, effect]
    committed   \* receipts of commits: the intent, or None

vars == <<catalog, intent, balance, posted, committed>>

NoEntry == [kind |-> None]
NoIntent == [pc |-> "absent", entry |-> NoEntry, binding |-> None, names |-> <<>>, units |-> 0]
NoPosting == [at |-> 0, effect |-> [a \in Accounts |-> 0]]

Init ==
    /\ CatalogInit
    /\ intent = [i \in Intents |-> NoIntent]
    /\ balance = [a \in Accounts |-> 0]
    /\ posted = [i \in Intents |-> NoPosting]
    /\ committed = [r \in CommitRequests |-> None]

Magnitude(n) == IF n < 0 THEN -n ELSE n
Consumed == {i \in Intents : intent[i].pc = "consumed"}

-----------------------------------------------------------------------------
(* Compiling an entry whose accounts are resolved *)

Parties(e) == {e.from, e.to} \ {None}

\* AccountUse: an expense may be paid from a credit card, and a payment goes to one.
SourceKinds(e) == IF e.kind = "expense" THEN Kinds ELSE {"asset"}
TargetKinds(e) == IF e.kind = "payment" THEN {"credit_card"} ELSE {"asset"}

Eligible(a, kinds) == Active(a) /\ Kind[a] \in kinds

\* resolve_account: by id, or by a name exactly one eligible account has.
Means(ref, a, kinds) ==
    IF ref \in Names THEN {a} = {x \in Accounts : Eligible(x, kinds) /\ account[x].name = ref}
                     ELSE ref = a /\ (a # None => Eligible(a, kinds))

\* The display names in a preview. That of a refund has none.
PreviewNames(e) == [a \in IF e.kind = "refund" THEN {} ELSE Parties(e) |-> account[a].name]

\* Mutant: the direction of an adjustment is that of the first deposit.
AlwaysUp(e) ==
    [a \in Accounts |->
       (IF a = e.to THEN Magnitude(e.units - (IF e.kind = "adjustment" THEN balance[a] ELSE 0)) ELSE 0)
         - (IF a = e.from THEN e.units ELSE 0)]

\* The postings, debits positive; an adjustment's difference is that of this moment.
Effect(e) ==
    [a \in Accounts |->
       (IF a = e.to THEN e.units - (IF e.kind = "adjustment" THEN balance[a] ELSE 0) ELSE 0)
         - (IF a = e.from THEN e.units ELSE 0)]

\* The amount of the first posting, which has no sign.
AmountOf(e) == IF e.kind = "adjustment" THEN Magnitude(e.units - balance[e.to]) ELSE e.units

\* The sum of the effects on account a of some posted intents.
Booked(rows, some, a) == MapThenSumSet(LAMBDA i : rows[i].effect[a], some)

RefundsOf(o) == {i \in Consumed : intent[i].entry.of = o}

\* _compile_refund compares with the original alone; for a card the projection also
\* bounds all refunds of a charge together.
Refundable(e) ==
    e.kind = "refund" =>
      LET o == e.of IN
      /\ o \in Consumed /\ intent[o].entry.kind = "expense"
      /\ e.units <= intent[o].units
Covered(e) ==
    e.kind = "refund" /\ Kind[e.to] = "credit_card" =>
      e.units + MapThenSumSet(LAMBDA i : intent[i].units, RefundsOf(e.of)) <= intent[e.of].units

-----------------------------------------------------------------------------
(* Prepare *)

\* The card a purchase or a payment names is replaced by the account it is bound to.
Settled(e, b) ==
    IF e.kind = "payment" THEN [e EXCEPT !.to = binding[b].account]
                          ELSE [e EXCEPT !.from = binding[b].account]

\* _resolve_payment_instrument_source
PrepareBegin(i, e) ==
    /\ intent[i].pc = "absent"
    /\ IF e.via = None THEN intent' = [intent EXCEPT ![i].pc = "begun", ![i].entry = e]
       ELSE \E b \in DOMAIN binding :
              /\ Resolves(e.via, e.at, b)
              /\ intent' = [intent EXCEPT ![i] =
                   [@ EXCEPT !.pc = "begun", !.entry = Settled(e, b), !.binding = b]]
    /\ UNCHANGED <<catalog, balance, posted, committed>>

\* load_compilation_context: the accounts, and the original of a refund.
PrepareCatalog(i) ==
    LET e == intent[i].entry IN
    /\ intent[i].pc = "begun"
    /\ \E from, to \in Accounts \cup {None} :
         LET f == [e EXCEPT !.from = from, !.to = to] IN
         /\ Means(e.from, from, SourceKinds(e))
         /\ IF e.kind = "refund"
            THEN /\ e.of \in Consumed /\ to = intent[e.of].entry.from
                 /\ Refundable(f) /\ Active(to)
            ELSE Means(e.to, to, TargetKinds(e))
         /\ from # to
         /\ intent' = [intent EXCEPT ![i] =
              [@ EXCEPT !.pc = IF e.kind = "adjustment" THEN "measuring" ELSE "compiled",
                        !.entry = f, !.names = PreviewNames(f), !.units = e.units]]
    /\ UNCHANGED <<catalog, balance, posted, committed>>

\* The account's balance, read in a statement of its own. No difference, no entry.
PrepareBalance(i) ==
    /\ intent[i].pc = "measuring"
    /\ AmountOf(intent[i].entry) # 0
    /\ intent' = [intent EXCEPT ![i].pc = "compiled", ![i].units = AmountOf(intent[i].entry)]
    /\ UNCHANGED <<catalog, balance, posted, committed>>

Reference(i) == intent[i].entry.reference

\* The protected fingerprint of an intent: the first account it names stands for all.
Fingerprint(i) ==
    LET e == intent[i].entry IN
    [kind |-> e.kind, units |-> intent[i].units, at |-> e.at,
     account |-> CASE e.kind = "refund" -> e.of [] e.from # None -> e.from [] OTHER -> e.to,
     card |-> IF intent[i].binding = None THEN None ELSE binding[intent[i].binding].of]

\* Committed entries of the same source, and those with the same fingerprint that were
\* recorded since Window before this one's date.
Duplicates(i) ==
    {j \in Consumed \ {i} :
       \/ Reference(i) # None /\ Reference(j) = Reference(i)
       \/ /\ Fingerprint(j) = Fingerprint(i)
          /\ posted[j].at >= intent[i].entry.at - Window}

\* The intent and its narrative are stored; there is a commit token only when it is ready.
PrepareStore(i) ==
    /\ intent[i].pc = "compiled"
    /\ intent' = [intent EXCEPT ![i].pc = IF Duplicates(i) = {} THEN "ready" ELSE "suspected"]
    /\ UNCHANGED <<catalog, balance, posted, committed>>

-----------------------------------------------------------------------------
(* Commit *)

\* Mutant: what was free of duplicates at prepare is taken to be so still.
CheckedAtPrepare(i) == {}

\* _recheck_duplicates
StillDuplicates(i) == Duplicates(i)

\* The token, the expiry, the status and the lifecycle of the intent, and its narrative.
Claimable(i) == intent[i].pc = "ready"

\* Mutant: the account compiled at prepare is charged whatever became of the card.
TrustsBinding(i) == TRUE

\* _revalidate_payment_instrument
BindingHolds(i) ==
    LET b == intent[i].binding IN
    b # None => Resolves(binding[b].of, intent[i].entry.at, b)

\* The entry compiles again and its preview and references are those of prepare.
StillCompiles(i) ==
    LET e == intent[i].entry IN
    /\ \A a \in Parties(e) : Active(a)
    /\ Refundable(e)
    /\ AmountOf(e) # 0 /\ AmountOf(e) = intent[i].units
    /\ PreviewNames(e) = intent[i].names

\* _build_commit_plan, the append, the projection and _entry_finalizer.
Commit(r, i) ==
    LET e == intent[i].entry IN
    /\ committed[r] = None
    /\ Claimable(i)
    /\ BindingHolds(i)
    /\ StillCompiles(i)
    /\ StillDuplicates(i) = {}
    /\ Covered(e)
    /\ intent' = [intent EXCEPT ![i].pc = "consumed"]
    /\ balance' = [a \in Accounts |-> balance[a] + Effect(e)[a]]
    /\ posted' = [posted EXCEPT ![i] = [at |-> now, effect |-> Effect(e)]]
    /\ committed' = [committed EXCEPT ![r] = i]
    /\ UNCHANGED catalog

\* It expires, or its narrative is erased: ProtectedContentService.erase takes no Book
\* lock, and of what is modelled only a commit reads a narrative.
Lapse(i) ==
    /\ intent[i].pc = "ready"
    /\ intent' = [intent EXCEPT ![i].pc = "lapsed"]
    /\ UNCHANGED <<catalog, balance, posted, committed>>

-----------------------------------------------------------------------------

Catalog ==
    /\ \/ Tick \/ MutateInstrument \/ RenameAnAccount
       \/ \E a \in Accounts : CloseAccount(a, balance[a] = 0) \/ ReopenAccount(a)
    /\ UNCHANGED <<intent, balance, posted, committed>>

Next ==
    \/ Catalog
    \/ \E i \in Intents :
         \/ \E e \in Entries : PrepareBegin(i, e)
         \/ PrepareCatalog(i) \/ PrepareBalance(i) \/ PrepareStore(i)
         \/ \E r \in CommitRequests : Commit(r, i)
         \/ Lapse(i)

Spec == Init /\ [][Next]_vars

-----------------------------------------------------------------------------
(* Properties *)

\* Two intents of one purchase never both become transactions, however their prepares and
\* commits interleave: not with one external reference, and with one fingerprint only
\* when the first is older than the search goes back (_recheck_duplicates, _entry_finalizer).
OnePurchaseOnce ==
    \A i, j \in Consumed : i # j =>
       /\ Reference(i) # None => Reference(j) # Reference(i)
       /\ Fingerprint(i) = Fingerprint(j) =>
            \E k \in {i, j} : posted[k].at < intent[k].entry.at - Window

\* A commit moves the amount of the preview between the accounts of the preview, which
\* still have the names it showed and are open, and a card's purchase goes to the account
\* the card is bound to at the time of the purchase (_build_commit_plan).
PostedAsPreviewed ==
    [][\A i \in Consumed' \ Consumed :
         LET e == intent[i].entry IN
         /\ \A a \in Accounts :
              /\ balance'[a] # balance[a] => a \in Parties(e) /\ Active(a)
              /\ a \in Parties(e) => Magnitude(balance'[a] - balance[a]) = intent[i].units
         /\ \A a \in DOMAIN intent[i].names : account[a].name = intent[i].names[a]
         /\ intent[i].binding # None =>
              \E a \in Parties(e), i2 \in Instruments :
                /\ i2 = binding[intent[i].binding].of
                /\ {binding[b].account : b \in Rows(i2, e.at)} = {a}]_vars

\* An adjustment leaves the account at the balance the user counted, although the balance
\* it is compiled from may have moved, even past it, since prepare (_compile_adjustment).
AdjustmentsHitTheirTarget ==
    [][\A i \in Consumed' \ Consumed :
         LET e == intent[i].entry IN e.kind = "adjustment" => balance'[e.to] = e.units]_vars

\* Balances are the entries of the consumed intents, each once, and each consumed intent
\* has the receipt of exactly one request (claim_ready, insert_or_exact_get).
LedgerIsTheIntents ==
    /\ \A a \in Accounts : balance[a] = Booked(posted, Consumed, a)
    /\ \A i \in Intents :
         Cardinality({r \in CommitRequests : committed[r] = i}) = IF i \in Consumed THEN 1 ELSE 0

\* Each purchase is booked once, through one intent, by one request: neither duplicates nor
\* repeated commits get past the checks that run at different times of an intent's life.
IntentsBookOnce == OnePurchaseOnce /\ LedgerIsTheIntents

\* What docs/reference/everyday-entry-gateway/design-2026-07-24.md:370 promises of entries
\* without an external reference: the same one is never written twice.
NeverWrittenTwice ==
    \A i, j \in Consumed : i # j => Fingerprint(i) # Fingerprint(j)
================================================================================
