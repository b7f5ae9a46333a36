--------------------------- MODULE PaymentInstruments ---------------------------
(***************************************************************************)
(* Accounts as the catalog shows them and the payment cards bound to them. *)
(* Every handler of this module runs under the Book head lock from its     *)
(* first read to its commit (see CommandBus), so it is one step; renaming  *)
(* an account is two, because its second transaction, which verifies the   *)
(* first, takes no lock.                                                   *)
(*                                                                         *)
(* A card's identity is its provider and last four digits.  One asset.  A  *)
(* refused command changes nothing and is a step that is not taken.  The   *)
(* triggers of the tables, which repeat the handlers' guards, are left     *)
(* out, so that the properties rest on the handlers.                       *)
(*                                                                         *)
(* The operators marked "Mutant" are in no behaviour, see CommandBus.      *)
(***************************************************************************)
EXTENDS Integers, FiniteSets

CONSTANTS
    Accounts,     \* standard accounts
    Kind,         \* [Accounts -> {"asset", "credit_card"}]
    Names,        \* names accounts are given
    FirstName,    \* [Accounts -> Names]
    Instruments,  \* instrument ids, which are the request ids of their creation
    Identities,   \* provider and last four digits
    Mutations,    \* request ids of instrument mutations
    Renames,      \* request ids of account renames
    MaxTime       \* the clock stops here

None == "none"
Times == 0..MaxTime
Kinds == {"asset", "credit_card"}

ASSUME InstrumentsAssumption ==
    /\ Kind \in [Accounts -> Kinds]
    /\ FirstName \in [Accounts -> Names]
    /\ Instruments \cap Mutations = {}
    /\ None \notin Accounts \cup Names \cup Instruments \cup Identities \cup Mutations
    /\ Accounts \cap Instruments = {}
    /\ Instruments \cap Identities = {}
    /\ Renames \cap (Instruments \cup Mutations) = {}
    /\ MaxTime \in Nat

VARIABLES
    now,
    account,     \* accounts: [status, name, version]
    instrument,  \* payment_instruments: [status, identity, policy, version, from]
    binding,     \* by the request that made it: [of, account, status, from, to]
    mutation,    \* payment_instrument_mutations: the view after it
    renaming,    \* account_mutations: the account and its snapshot after it
    verifying,   \* renames that are committed and not yet verified
    answers      \* what clients were told: <<request, view>>

catalog == <<now, account, instrument, binding, mutation, renaming, verifying, answers>>

\* A binding still in force ends never.
Never == MaxTime + 1
NoInstrument ==
    [status |-> "absent", identity |-> None, policy |-> None, version |-> 0, from |-> 0]
NoBinding == [of |-> None, account |-> None, status |-> "absent", from |-> 0, to |-> 0]
NoRename == [account |-> None, after |-> [status |-> "absent", name |-> None, version |-> 0]]

CatalogInit ==
    /\ now = 0
    /\ account = [a \in Accounts |-> [status |-> "active", name |-> FirstName[a], version |-> 1]]
    /\ instrument = [i \in Instruments |-> NoInstrument]
    /\ binding = [r \in Instruments \cup Mutations |-> NoBinding]
    /\ mutation = [r \in Instruments \cup Mutations |-> NoInstrument]
    /\ renaming = [r \in Renames |-> NoRename]
    /\ verifying = {}
    /\ answers = {}

Tick ==
    /\ now < MaxTime
    /\ now' = now + 1
    /\ UNCHANGED <<account, instrument, binding, mutation, renaming, verifying, answers>>

-----------------------------------------------------------------------------
(* Cards *)

Active(a) == account[a].status = "active"
Open(i) == instrument[i].status = "active"

\* Another active card has this identity.
Taken(identity, i) ==
    identity # None /\ \E j \in Instruments \ {i} : Open(j) /\ instrument[j].identity = identity

Bound(from, to, t) == from <= t /\ t < to

\* Record the receipt of r and answer with the instrument as it is after it.
Replies(r, i) ==
    /\ mutation' = [mutation EXCEPT ![r] = instrument'[i]]
    /\ answers' = answers \cup {<<r, instrument'[i]>>}

\* create_payment_instrument
CreateInstrument(i, identity, a, from) ==
    /\ mutation[i] = NoInstrument
    /\ Active(a)
    /\ ~Taken(identity, i)
    /\ instrument' = [instrument EXCEPT ![i] =
         [status |-> "active", identity |-> identity, policy |-> Kind[a], version |-> 1,
          from |-> from]]
    /\ binding' = [binding EXCEPT ![i] =
         [of |-> i, account |-> a, status |-> "active", from |-> from, to |-> Never]]
    /\ Replies(i, i)
    /\ UNCHANGED <<now, account, renaming, verifying>>

\* What every mutation does: one version more, and a receipt.
Mutated(r, i, row) ==
    /\ mutation[r] = NoInstrument
    /\ instrument[i] # NoInstrument
    /\ instrument' = [instrument EXCEPT ![i] = [row EXCEPT !.version = @ + 1]]
    /\ Replies(r, i)
    /\ UNCHANGED <<now, account, renaming, verifying>>

\* A card that already shares its identity may still correct its other fields.
UpdateInstrument(r, i, identity) ==
    /\ Open(i) /\ identity # instrument[i].identity => ~Taken(identity, i)
    /\ Mutated(r, i, [instrument[i] EXCEPT !.identity = identity])
    /\ UNCHANGED binding

CloseInstrument(r, i) ==
    /\ Open(i)
    /\ Mutated(r, i, [instrument[i] EXCEPT !.status = "closed"])
    /\ UNCHANGED binding

\* Mutant: the identity of a card that comes back is not looked at.
ReopenUnseen(r, i) ==
    /\ instrument[i].status = "closed"
    /\ Mutated(r, i, [instrument[i] EXCEPT !.status = "active", !.from = now])
    /\ UNCHANGED binding

ReopenInstrument(r, i) ==
    /\ instrument[i].status = "closed"
    /\ ~Taken(instrument[i].identity, i)
    /\ Mutated(r, i, [instrument[i] EXCEPT !.status = "active", !.from = now])
    /\ UNCHANGED binding

AddBinding(r, i, a, from) ==
    /\ Open(i)
    /\ Active(a)
    /\ Kind[a] = instrument[i].policy
    /\ ~\E b \in DOMAIN binding : binding[b].of = i /\ binding[b].to > from
    /\ binding' = [binding EXCEPT ![r] =
         [of |-> i, account |-> a, status |-> "active", from |-> from, to |-> Never]]
    /\ Mutated(r, i, instrument[i])

\* The end may lie in the past, not in the future.
CloseBinding(r, i, b, to) ==
    /\ binding[b].of = i
    /\ binding[b].status = "active"
    /\ binding[b].from < to /\ to <= now
    /\ binding' = [binding EXCEPT ![b].status = "closed", ![b].to = to]
    /\ Mutated(r, i, instrument[i])

\* Mutant: a request sent again is answered with the instrument as it is now.
AnswerAsItIs(r) ==
    /\ mutation[r] # NoInstrument
    /\ \E i \in Instruments :
         /\ r \in Instruments => i = r
         /\ answers' = answers \cup {<<r, instrument[i]>>}
    /\ UNCHANGED <<now, account, instrument, binding, mutation, renaming, verifying>>

\* A request sent again is answered from its receipt.
ResendMutation(r) ==
    /\ mutation[r] # NoInstrument
    /\ answers' = answers \cup {<<r, mutation[r]>>}
    /\ UNCHANGED <<now, account, instrument, binding, mutation, renaming, verifying>>

\* The rows of resolve_payment_instrument for a purchase at time t. A reference is an
\* instrument id, or the last four digits with the provider.
Rows(ref, t) ==
    {b \in DOMAIN binding :
       LET i == binding[b].of IN
       /\ binding[b].status = "active"
       /\ Bound(binding[b].from, binding[b].to, t)
       /\ Open(i) /\ instrument[i].from <= t
       /\ ref \in {i, instrument[i].identity}}

\* The one row, on an account that can still settle it.
Resolves(ref, t, b) ==
    /\ Rows(ref, t) = {b}
    /\ Active(binding[b].account)
    /\ Kind[binding[b].account] = instrument[binding[b].of].policy

-----------------------------------------------------------------------------
(* Accounts *)

\* rename_account, the transaction under the lock.
RenameAccount(r, a, name) ==
    /\ renaming[r] = NoRename
    /\ account' = [account EXCEPT ![a].name = name, ![a].version = @ + 1]
    /\ renaming' = [renaming EXCEPT ![r] = [account |-> a, after |-> account'[a]]]
    /\ verifying' = verifying \cup {r}
    /\ UNCHANGED <<now, instrument, binding, mutation, answers>>

\* The second transaction: an answer only when the account still is what the receipt says.
VerifyRename(r) ==
    /\ r \in verifying
    /\ verifying' = verifying \ {r}
    /\ answers' = IF account[renaming[r].account] = renaming[r].after
                  THEN answers \cup {<<r, renaming[r].after>>} ELSE answers
    /\ UNCHANGED <<now, account, instrument, binding, mutation, renaming>>

ResendRename(r) ==
    /\ renaming[r] # NoRename
    /\ answers' = answers \cup {<<r, renaming[r].after>>}
    /\ UNCHANGED <<now, account, instrument, binding, mutation, renaming, verifying>>

\* close_account, when the account's balance is settled.
CloseAccount(a, settled) ==
    /\ Active(a)
    /\ settled
    /\ account' = [account EXCEPT ![a].status = "closed"]
    /\ UNCHANGED <<now, instrument, binding, mutation, renaming, verifying, answers>>

ReopenAccount(a) ==
    /\ ~Active(a)
    /\ account' = [account EXCEPT ![a].status = "active"]
    /\ UNCHANGED <<now, instrument, binding, mutation, renaming, verifying, answers>>

-----------------------------------------------------------------------------

MutateInstrument ==
    \/ \E i \in Instruments, identity \in Identities \cup {None}, a \in Accounts, from \in Times :
         CreateInstrument(i, identity, a, from)
    \/ \E r \in Mutations, i \in Instruments :
         \/ \E identity \in Identities \cup {None} : UpdateInstrument(r, i, identity)
         \/ CloseInstrument(r, i)
         \/ ReopenInstrument(r, i)
         \/ \E a \in Accounts, from \in Times : AddBinding(r, i, a, from)
         \/ \E b \in Instruments \cup Mutations, to \in Times : CloseBinding(r, i, b, to)

RenameAnAccount ==
    \E r \in Renames, a \in Accounts, name \in Names : RenameAccount(r, a, name)

\* Steps that only answer clients.
AnswerClients ==
    \/ \E r \in Instruments \cup Mutations : ResendMutation(r)
    \/ \E r \in Renames : VerifyRename(r) \/ ResendRename(r)

\* Without the journal, an account may be settled whenever it is closed.
CatalogNext ==
    \/ Tick
    \/ MutateInstrument
    \/ RenameAnAccount
    \/ AnswerClients
    \/ \E a \in Accounts : CloseAccount(a, TRUE) \/ ReopenAccount(a)

CatalogSpec == CatalogInit /\ [][CatalogNext]_catalog

-----------------------------------------------------------------------------
(* Properties *)

\* A purchase resolves to at most one account, whether it names the card by its id or by
\* provider and digits, at any time and after any history of closed, reopened, renumbered
\* and rebound cards (create_payment_instrument, mutate_payment_instrument).
CardsAreUnambiguous ==
    \A ref \in Instruments \cup Identities, t \in Times : Cardinality(Rows(ref, t)) <= 1

\* However often a request is sent again and whatever happened meanwhile, all its answers
\* are the same, and it was carried out once: versions count receipts. A rename whose
\* verification failed is among them (receipts of mutate_payment_instrument, rename_account).
RequestsRunOnce ==
    /\ \A x, y \in answers : x[1] = y[1] => x = y
    /\ \A a \in Accounts :
         account[a].version = 1 + Cardinality({r \in Renames : renaming[r].account = a})
================================================================================
