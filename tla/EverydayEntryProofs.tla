-------------------------- MODULE EverydayEntryProofs --------------------------
(***************************************************************************)
(* A card resolves to one account, and a request sent again is answered as *)
(* it was the first time, for any number of cards, accounts, requests and  *)
(* moments.                                                                *)
(*                                                                         *)
(* A reference names one card because two cards in force never share an    *)
(* identity; a card names one account at a time because its bindings       *)
(* follow one another.  Both are kept by looks at other rows, and hold     *)
(* over the histories in which cards come back and bindings end in the     *)
(* past.  The answers rest on receipts that are written once.              *)
(*                                                                         *)
(* One purchase becomes one transaction, the one that was previewed, for   *)
(* any number of intents, requests, accounts and cards.                    *)
(*                                                                         *)
(* EInv adds to IInv of the catalog what a binding is for good (its card   *)
(* and its account), what an intent keeps of what was asked for while      *)
(* names become accounts, and that receipts, balances and the marks of     *)
(* duplicates follow the consumed intents.                                 *)
(***************************************************************************)
EXTENDS EverydayEntry, SetSums, FiniteSetTheorems, TLAPS

Requests == Instruments \cup Mutations
InstrumentRows == [status : {"absent", "active", "closed"}, identity : Identities \cup {None},
                   policy : Kinds \cup {None}, version : Nat, from : Nat]
BindingRows == [of : Instruments \cup {None}, account : Accounts \cup {None},
                status : {"absent", "active", "closed"}, from : Nat, to : Nat]
AccountRows == [status : {"absent", "active", "closed"}, name : Names \cup {None}, version : Nat]
RenameRows == [account : Accounts \cup {None}, after : AccountRows]

\* Type invariant: the rows of the tables and the receipts have their shapes.
CatalogTypeOK ==
    /\ now \in Times
    /\ account \in [Accounts -> AccountRows]
    /\ instrument \in [Instruments -> InstrumentRows]
    /\ binding \in [Requests -> BindingRows]
    /\ mutation \in [Requests -> InstrumentRows]
    /\ renaming \in [Renames -> RenameRows]
    /\ verifying \subseteq Renames
    /\ answers \subseteq (Requests \cup Renames) \X (InstrumentRows \cup AccountRows)

\* A card that exists, or that has a binding, has the receipt of its creation.
Created(i) ==
    \/ instrument[i].status # "absent"
    \/ \E b \in Requests : binding[b].of = i
    => mutation[i] # NoInstrument

\* A binding in force is of a card, and has no end.
ForceOK(b) ==
    binding[b].status = "active" => binding[b].of \in Instruments /\ binding[b].to = Never

\* Two bindings of one card follow one another.
Follow(b, c) ==
    binding[b].of = binding[c].of /\ binding[b].of # None /\ b # c =>
       binding[b].to <= binding[c].from \/ binding[c].to <= binding[b].from

\* Two cards in force have different identities.
Distinct(i, j) ==
    Open(i) /\ Open(j) /\ instrument[i].identity = instrument[j].identity
       /\ instrument[i].identity # None => i = j

\* An answer is what the receipt of the request says.
AnswerOK(x) ==
    /\ x[1] \in Requests => mutation[x[1]] # NoInstrument /\ x[2] = mutation[x[1]]
    /\ x[1] \in Renames => renaming[x[1]] # NoRename /\ x[2] = renaming[x[1]].after

\* Renames of an account, and its version that counts them.
RenamesOf(a) == {r \in Renames : renaming[r].account = a}
VersionOK(a) ==
    IsFiniteSet(RenamesOf(a)) /\ account[a].version = 1 + Cardinality(RenamesOf(a))

\* The inductive invariant.
IInv ==
    /\ CatalogTypeOK
    /\ \A i \in Instruments : Created(i)
    /\ \A b \in Requests : ForceOK(b)
    /\ \A b, c \in Requests : Follow(b, c)
    /\ \A i, j \in Instruments : Distinct(i, j)
    /\ \A x \in answers : AnswerOK(x)
    /\ \A r \in verifying : renaming[r] # NoRename
    /\ \A a \in Accounts : VersionOK(a)

-----------------------------------------------------------------------------
(* What the invariant says *)

\* A set of which any two members are the same has at most one.
LEMMA AtMostOne ==
  ASSUME NEW S, \A x, y \in S : x = y
  PROVE  Cardinality(S) <= 1
<1>1. CASE S = {}
  <2>1. Cardinality(S) = 0
    BY <1>1, FS_EmptySet
  <2> QED BY <2>1
<1>2. CASE S # {}
  <2>1. PICK x : S = {x}
    BY <1>2
  <2>2. Cardinality(S) = 1
    BY <2>1, FS_Singleton
  <2> QED BY <2>2
<1> QED BY <1>1, <1>2

\* A reference names one card, and a card one account at a time.
LEMMA UnambiguousHolds ==
  ASSUME IInv
  PROVE  CardsAreUnambiguous
<1> SUFFICES ASSUME NEW ref \in Instruments \cup Identities, NEW t \in Times
             PROVE  Cardinality(Rows(ref, t)) <= 1
  BY DEF CardsAreUnambiguous
<1>1. ASSUME NEW b \in Rows(ref, t), NEW c \in Rows(ref, t) PROVE b = c
  <2>1. DOMAIN binding = Requests /\ t \in Nat
    BY InstrumentsAssumption DEF IInv, CatalogTypeOK, Times
  <2>2. PICK i : /\ i = binding[b].of /\ b \in Requests
                 /\ binding[b].from <= t /\ t < binding[b].to
                 /\ Open(i) /\ ref \in {i, instrument[i].identity}
    BY <2>1 DEF Rows, Bound
  <2>3. PICK j : /\ j = binding[c].of /\ c \in Requests
                 /\ binding[c].from <= t /\ t < binding[c].to
                 /\ Open(j) /\ ref \in {j, instrument[j].identity}
    BY <2>1 DEF Rows, Bound
  <2>4. i \in Instruments \cup {None} /\ j \in Instruments \cup {None}
    BY <2>2, <2>3 DEF IInv, CatalogTypeOK, BindingRows
  <2>5. ref # None
    BY InstrumentsAssumption
  <2>6. i # None /\ j # None
    <3>1. binding[b].status = "active" /\ binding[c].status = "active"
      BY DEF Rows
    <3> QED BY <2>2, <2>3, <3>1, InstrumentsAssumption DEF IInv, ForceOK
  <2>7. i = j
    <3>1. /\ instrument[i].identity \in Identities \cup {None}
          /\ instrument[j].identity \in Identities \cup {None}
      BY <2>4, <2>6 DEF IInv, CatalogTypeOK, InstrumentRows
    <3>2. CASE ref = i
      BY <2>3, <2>4, <2>6, <3>1, <3>2, InstrumentsAssumption
    <3>3. CASE ref # i
      <4>1. ref = instrument[i].identity
        BY <2>2, <3>3
      <4>2. ref # j
        BY <2>4, <2>5, <2>6, <3>1, <4>1, InstrumentsAssumption
      <4>3. ref = instrument[j].identity
        BY <2>3, <4>2
      <4> QED BY <2>2, <2>3, <2>4, <2>5, <2>6, <4>1, <4>3 DEF IInv, Distinct
    <3> QED BY <3>2, <3>3
  <2>8. /\ binding[b].from \in Nat /\ binding[b].to \in Nat
        /\ binding[c].from \in Nat /\ binding[c].to \in Nat
    BY <2>2, <2>3 DEF IInv, CatalogTypeOK, BindingRows
  <2>9. Follow(b, c)
    BY <2>2, <2>3 DEF IInv
  <2> QED BY <2>1, <2>2, <2>3, <2>6, <2>7, <2>8, <2>9 DEF Follow
<1> QED BY <1>1, AtMostOne

\* Answers to one request are the same, and versions count receipts.
LEMMA RunOnceHolds ==
  ASSUME IInv
  PROVE  RequestsRunOnce
<1>1. ASSUME NEW x \in answers, NEW y \in answers, x[1] = y[1] PROVE x = y
  <2>1. PICK r \in Requests \cup Renames, u \in InstrumentRows \cup AccountRows : x = <<r, u>>
    BY DEF IInv, CatalogTypeOK
  <2>2. PICK s \in Requests \cup Renames, v \in InstrumentRows \cup AccountRows : y = <<s, v>>
    BY DEF IInv, CatalogTypeOK
  <2>3. r = s /\ AnswerOK(x) /\ AnswerOK(y)
    BY <1>1, <2>1, <2>2 DEF IInv
  <2> QED BY <2>1, <2>2, <2>3 DEF AnswerOK
<1>2. \A a \in Accounts :
         account[a].version = 1 + Cardinality({r \in Renames : renaming[r].account = a})
  BY DEF IInv, VersionOK, RenamesOf
<1> QED BY <1>1, <1>2 DEF RequestsRunOnce

-----------------------------------------------------------------------------
(* Instruments and bindings *)

\* The rows that stand for nothing are rows, and the receipts of what happened are not those.
LEMMA NoRows ==
  /\ NoInstrument \in InstrumentRows /\ NoInstrument.version = 0
  /\ NoInstrument.status = "absent" /\ NoInstrument.identity = None
  /\ NoBinding \in BindingRows /\ NoBinding.status = "absent" /\ NoBinding.of = None
  /\ NoRename \in RenameRows /\ NoRename.account = None
<1>1. [status |-> "absent", name |-> None, version |-> 0] \in AccountRows
  BY DEF AccountRows
<1> QED BY <1>1 DEF NoInstrument, NoBinding, NoRename, InstrumentRows, BindingRows, RenameRows

\* A version more is another row, and no row that stands for nothing.
LEMMA OneMore ==
  ASSUME NEW row \in InstrumentRows
  PROVE  /\ [row EXCEPT !.version = @ + 1] \in InstrumentRows \ {NoInstrument}
         /\ [row EXCEPT !.version = @ + 1].status = row.status
         /\ [row EXCEPT !.version = @ + 1].identity = row.identity
<1>1. PICK next : next = [row EXCEPT !.version = @ + 1]
  OBVIOUS
<1>2. /\ next \in InstrumentRows /\ next.version = row.version + 1 /\ row.version \in Nat
      /\ next.status = row.status /\ next.identity = row.identity
  BY <1>1 DEF InstrumentRows
<1>3. next # NoInstrument
  <2>1. row.version + 1 # 0
    BY <1>2
  <2> QED BY <1>2, <2>1, NoRows
<1> QED BY <1>1, <1>2, <1>3

\* A step on card i under request r, with the receipt and the answer that it ends in.
LEMMA InstrumentStep ==
  ASSUME IInv, NEW r \in Requests, NEW i \in Instruments,
         NEW row \in InstrumentRows \ {NoInstrument},
         mutation[r] = NoInstrument,
         instrument' = [instrument EXCEPT ![i] = row],
         Replies(r, i),
         UNCHANGED <<now, account, renaming, verifying>>,
         binding' \in [Requests -> BindingRows],
         \A b \in Requests : ForceOK(b)',
         \A b, c \in Requests : Follow(b, c)',
         \A j \in Instruments, b \in Requests : binding'[b].of = j =>
            mutation[j] # NoInstrument \/ j = r,
         row.status = "absent" \/ instrument[i].status # "absent" \/ i = r,
         row.status = "active" /\ row.identity # None =>
            \A j \in Instruments \ {i} : Open(j) => instrument[j].identity # row.identity
  PROVE  IInv'
<1>1. /\ instrument' \in [Instruments -> InstrumentRows] /\ instrument'[i] = row
      /\ \A j \in Instruments \ {i} : instrument'[j] = instrument[j]
  BY DEF IInv, CatalogTypeOK
<1>2. /\ mutation' = [mutation EXCEPT ![r] = row]
      /\ answers' = answers \cup {<<r, row>>}
  BY <1>1 DEF Replies
<1>3. /\ mutation' \in [Requests -> InstrumentRows] /\ mutation'[r] = row
      /\ \A s \in Requests \ {r} : mutation'[s] = mutation[s]
  BY <1>2 DEF IInv, CatalogTypeOK
<1>4. CatalogTypeOK'
  BY <1>1, <1>2, <1>3 DEF IInv, CatalogTypeOK
<1>5. ASSUME NEW j \in Instruments PROVE Created(j)'
  <2> SUFFICES ASSUME instrument'[j].status # "absent" \/ \E b \in Requests : binding'[b].of = j
               PROVE  mutation'[j] # NoInstrument
    BY DEF Created
  <2>1. Created(j) /\ j \in Requests
    BY DEF IInv, Requests
  <2>2. mutation[j] # NoInstrument \/ j = r
    BY <1>1, <2>1 DEF Created
  <2> QED BY <1>3, <2>1, <2>2
<1>6. ASSUME NEW j \in Instruments, NEW k \in Instruments PROVE Distinct(j, k)'
  <2>1. Distinct(j, k) /\ Distinct(k, j)
    BY DEF IInv
  <2> QED BY <1>1, <2>1 DEF Distinct, Open
<1>7. ASSUME NEW x \in answers' PROVE AnswerOK(x)'
  <2>1. CASE x = <<r, row>>
    <3>1. r \notin Renames
      BY InstrumentsAssumption DEF Requests
    <3> QED BY <1>3, <2>1, <3>1 DEF AnswerOK
  <2>2. CASE x \in answers
    <3>1. AnswerOK(x)
      BY <2>2 DEF IInv
    <3>2. x[1] \in Requests => x[1] # r
      BY <3>1 DEF AnswerOK
    <3> QED BY <1>3, <3>1, <3>2 DEF AnswerOK
  <2> QED BY <1>2, <2>1, <2>2
<1>8. ASSUME NEW a \in Accounts PROVE VersionOK(a)'
  BY DEF IInv, VersionOK, RenamesOf
<1>9. \A s \in verifying' : renaming'[s] # NoRename
  BY DEF IInv
<1> QED BY <1>4, <1>5, <1>6, <1>7, <1>8, <1>9 DEF IInv

\* While no binding changes, what is said of bindings stays.
LEMMA BindingsKept ==
  ASSUME IInv, UNCHANGED binding
  PROVE  /\ binding' \in [Requests -> BindingRows]
         /\ \A b \in Requests : ForceOK(b)'
         /\ \A b, c \in Requests : Follow(b, c)'
         /\ \A j \in Instruments, b \in Requests : binding'[b].of = j => mutation[j] # NoInstrument
<1>1. binding' \in [Requests -> BindingRows]
  BY DEF IInv, CatalogTypeOK
<1>2. \A b \in Requests : ForceOK(b)'
  BY DEF IInv, ForceOK
<1>3. \A b, c \in Requests : Follow(b, c)'
  BY DEF IInv, Follow
<1>4. \A j \in Instruments, b \in Requests : binding'[b].of = j => mutation[j] # NoInstrument
  BY DEF IInv, Created
<1> QED BY <1>1, <1>2, <1>3, <1>4

\* A new binding, of a card whose other bindings have ended when it begins.
LEMMA BindingAdded ==
  ASSUME IInv, NEW r \in Requests, NEW i \in Instruments, NEW a \in Accounts, NEW from \in Times,
         mutation[i] # NoInstrument \/ i = r,
         \A b \in Requests : binding[b].of = i => binding[b].to <= from,
         binding' = [binding EXCEPT ![r] =
           [of |-> i, account |-> a, status |-> "active", from |-> from, to |-> Never]]
  PROVE  /\ binding' \in [Requests -> BindingRows]
         /\ \A b \in Requests : ForceOK(b)'
         /\ \A b, c \in Requests : Follow(b, c)'
         /\ \A j \in Instruments, b \in Requests : binding'[b].of = j =>
               mutation[j] # NoInstrument \/ j = r
<1>1. PICK row : row = [of |-> i, account |-> a, status |-> "active", from |-> from, to |-> Never]
  OBVIOUS
<1>2. /\ row \in BindingRows /\ row.of = i /\ row.from = from /\ row.to = Never
      /\ row.status = "active"
  <2>1. from \in Nat /\ Never \in Nat
    BY InstrumentsAssumption DEF Times, Never
  <2> QED BY <1>1, <2>1 DEF BindingRows
<1>3. /\ binding' \in [Requests -> BindingRows] /\ binding'[r] = row
      /\ \A b \in Requests \ {r} : binding'[b] = binding[b]
  BY <1>1, <1>2 DEF IInv, CatalogTypeOK
<1>4. ASSUME NEW b \in Requests PROVE ForceOK(b)'
  <2>1. ForceOK(b)
    BY DEF IInv
  <2> QED BY <1>2, <1>3, <2>1 DEF ForceOK, Never
<1>5. ASSUME NEW b \in Requests, NEW c \in Requests PROVE Follow(b, c)'
  <2>1. Follow(b, c)
    BY DEF IInv
  <2> QED BY <1>2, <1>3, <2>1 DEF Follow
<1>6. ASSUME NEW j \in Instruments, NEW b \in Requests, binding'[b].of = j
      PROVE  mutation[j] # NoInstrument \/ j = r
  <2>1. Created(j)
    BY DEF IInv
  <2> QED BY <1>2, <1>3, <1>6, <2>1 DEF Created
<1> QED BY <1>3, <1>4, <1>5, <1>6

\* The end of a binding comes before the end it had, which was never.
LEMMA BindingEnded ==
  ASSUME IInv, NEW d \in Requests, NEW to \in Times,
         binding[d].status = "active",
         binding' = [binding EXCEPT ![d].status = "closed", ![d].to = to]
  PROVE  /\ binding' \in [Requests -> BindingRows]
         /\ \A b \in Requests : ForceOK(b)'
         /\ \A b, c \in Requests : Follow(b, c)'
         /\ \A j \in Instruments, b \in Requests : binding'[b].of = j => mutation[j] # NoInstrument
<1>1. PICK old \in BindingRows : old = binding[d]
  BY DEF IInv, CatalogTypeOK
<1>2. PICK row : row = [old EXCEPT !.status = "closed", !.to = to]
  OBVIOUS
<1>3. to \in Nat /\ Never \in Nat /\ to <= Never
  BY InstrumentsAssumption DEF Times, Never
<1>4. /\ row \in BindingRows /\ row.of = old.of /\ row.from = old.from /\ row.to = to
      /\ row.status = "closed"
  BY <1>2, <1>3 DEF BindingRows
<1>5. binding' = [binding EXCEPT ![d] = row]
  BY <1>1, <1>2 DEF IInv, CatalogTypeOK
<1>6. /\ binding' \in [Requests -> BindingRows] /\ binding'[d] = row
      /\ \A b \in Requests \ {d} : binding'[b] = binding[b]
  BY <1>4, <1>5 DEF IInv, CatalogTypeOK
<1>7. binding[d].to = Never
  BY DEF IInv, ForceOK
<1>8. ASSUME NEW b \in Requests PROVE ForceOK(b)'
  <2>1. ForceOK(b)
    BY DEF IInv
  <2> QED BY <1>4, <1>6, <2>1 DEF ForceOK, Never
<1>9. ASSUME NEW b \in Requests, NEW c \in Requests PROVE Follow(b, c)'
  <2>1. Follow(b, c)
    BY DEF IInv
  <2>2. /\ binding'[b].of = binding[b].of /\ binding'[b].from = binding[b].from
        /\ binding'[c].of = binding[c].of /\ binding'[c].from = binding[c].from
    BY <1>1, <1>4, <1>6
  <2>3. ASSUME NEW e \in Requests
        PROVE  /\ binding'[e].to \in Nat /\ binding[e].to \in Nat /\ binding'[e].from \in Nat
               /\ binding'[e].to <= binding[e].to
    <3>1. binding'[e] \in BindingRows /\ binding[e] \in BindingRows
      BY <1>6 DEF IInv, CatalogTypeOK
    <3>2. binding'[e].to \in Nat /\ binding[e].to \in Nat /\ binding'[e].from \in Nat
      BY <3>1 DEF BindingRows
    <3>3. CASE e = d
      BY <1>3, <1>4, <1>6, <1>7, <3>2, <3>3
    <3>4. CASE e # d
      BY <1>6, <3>2, <3>4
    <3> QED BY <3>2, <3>3, <3>4
  <2>4. ASSUME NEW x \in Nat, NEW y \in Nat, NEW z \in Nat, x <= y, y <= z PROVE x <= z
    BY <2>4
  <2>5. binding[b].from \in Nat /\ binding[c].from \in Nat
    BY <2>2, <2>3
  <2>6. binding[b].to <= binding[c].from => binding'[b].to <= binding'[c].from
    BY <2>2, <2>3, <2>4, <2>5
  <2>7. binding[c].to <= binding[b].from => binding'[c].to <= binding'[b].from
    BY <2>2, <2>3, <2>4, <2>5
  <2> QED BY <2>1, <2>2, <2>6, <2>7 DEF Follow
<1>10. ASSUME NEW j \in Instruments, NEW b \in Requests, binding'[b].of = j
       PROVE  mutation[j] # NoInstrument
  <2>1. Created(j) /\ binding[b].of = j
    BY <1>1, <1>4, <1>6, <1>10 DEF IInv
  <2> QED BY <2>1 DEF Created
<1> QED BY <1>6, <1>8, <1>9, <1>10

-----------------------------------------------------------------------------
(* The operations on cards *)

\* create_payment_instrument
LEMMA CreateKeepsIInv ==
  ASSUME IInv, NEW i \in Instruments, NEW identity \in Identities \cup {None},
         NEW a \in Accounts, NEW from \in Times, CreateInstrument(i, identity, a, from)
  PROVE  IInv'
<1>1. PICK row : row = [status |-> "active", identity |-> identity, policy |-> Kind[a],
                        version |-> 1, from |-> from]
  OBVIOUS
<1>2. row \in InstrumentRows \ {NoInstrument} /\ row.identity = identity /\ row.status = "active"
  <2>1. from \in Nat /\ Kind[a] \in Kinds
    BY InstrumentsAssumption DEF Times
  <2>2. row \in InstrumentRows /\ row.version = 1 /\ row.identity = identity
        /\ row.status = "active"
    BY <1>1, <2>1 DEF InstrumentRows
  <2> QED BY <2>2, NoRows
<1>3. /\ mutation[i] = NoInstrument /\ ~Taken(identity, i) /\ Replies(i, i)
      /\ instrument' = [instrument EXCEPT ![i] = row]
      /\ UNCHANGED <<now, account, renaming, verifying>> /\ i \in Requests
  BY <1>1 DEF CreateInstrument, Requests
<1>4. \A b \in Requests : binding[b].of # i
  BY <1>3 DEF IInv, Created
<1>5. /\ binding' \in [Requests -> BindingRows]
      /\ \A b \in Requests : ForceOK(b)'
      /\ \A b, c \in Requests : Follow(b, c)'
      /\ \A j \in Instruments, b \in Requests : binding'[b].of = j =>
            mutation[j] # NoInstrument \/ j = i
  BY <1>3, <1>4, BindingAdded DEF CreateInstrument
<1>6. row.status = "active" /\ row.identity # None =>
         \A j \in Instruments \ {i} : Open(j) => instrument[j].identity # row.identity
  BY <1>2, <1>3 DEF Taken
<1> QED BY <1>2, <1>3, <1>5, <1>6, InstrumentStep

\* What every mutation of a card does.
LEMMA MutationStep ==
  ASSUME IInv, NEW r \in Mutations, NEW i \in Instruments, NEW row \in InstrumentRows,
         Mutated(r, i, row),
         binding' \in [Requests -> BindingRows],
         \A b \in Requests : ForceOK(b)',
         \A b, c \in Requests : Follow(b, c)',
         \A j \in Instruments, b \in Requests : binding'[b].of = j =>
            mutation[j] # NoInstrument \/ j = r,
         row.status = "absent" \/ instrument[i].status # "absent",
         row.status = "active" /\ row.identity # None =>
            \A j \in Instruments \ {i} : Open(j) => instrument[j].identity # row.identity
  PROVE  IInv'
<1>1. PICK next \in InstrumentRows \ {NoInstrument} :
         /\ next = [row EXCEPT !.version = @ + 1]
         /\ next.status = row.status /\ next.identity = row.identity
  BY OneMore
<1>2. /\ mutation[r] = NoInstrument /\ Replies(r, i) /\ r \in Requests
      /\ instrument' = [instrument EXCEPT ![i] = next]
      /\ UNCHANGED <<now, account, renaming, verifying>>
  BY <1>1 DEF Mutated, Requests
<1> QED BY <1>1, <1>2, InstrumentStep

\* A card's row is a row.
LEMMA RowType ==
  ASSUME IInv, NEW i \in Instruments
  PROVE  instrument[i] \in InstrumentRows
BY DEF IInv, CatalogTypeOK

\* mutate_payment_instrument: update, close, reopen.
LEMMA CardsKeepIInv ==
  ASSUME IInv, NEW r \in Mutations, NEW i \in Instruments,
         \/ \E identity \in Identities \cup {None} : UpdateInstrument(r, i, identity)
         \/ CloseInstrument(r, i)
         \/ ReopenInstrument(r, i)
  PROVE  IInv'
<1>1. PICK old \in InstrumentRows : old = instrument[i]
  BY RowType
<1>2. /\ binding' = binding => /\ binding' \in [Requests -> BindingRows]
                               /\ \A b \in Requests : ForceOK(b)'
                               /\ \A b, c \in Requests : Follow(b, c)'
                               /\ \A j \in Instruments, b \in Requests :
                                     binding'[b].of = j => mutation[j] # NoInstrument
  BY BindingsKept
<1>3. ASSUME NEW identity \in Identities \cup {None}, UpdateInstrument(r, i, identity)
      PROVE  IInv'
  <2>1. PICK row : row = [old EXCEPT !.identity = identity]
    OBVIOUS
  <2>2. row \in InstrumentRows /\ row.identity = identity /\ row.status = old.status
    BY <2>1 DEF InstrumentRows
  <2>3. /\ Mutated(r, i, row) /\ binding' = binding
        /\ Open(i) /\ identity # old.identity => ~Taken(identity, i)
    BY <1>1, <1>3, <2>1 DEF UpdateInstrument
  <2>4. row.status = "active" /\ row.identity # None =>
           \A j \in Instruments \ {i} : Open(j) => instrument[j].identity # row.identity
    <3>1. CASE identity = old.identity
      BY <1>1, <2>2, <3>1 DEF IInv, Distinct, Open
    <3>2. CASE identity # old.identity
      BY <1>1, <2>2, <2>3, <3>2 DEF Taken, Open
    <3> QED BY <3>1, <3>2
  <2> QED BY <1>1, <1>2, <2>2, <2>3, <2>4, MutationStep
<1>4. CASE CloseInstrument(r, i)
  <2>1. PICK row : row = [old EXCEPT !.status = "closed"]
    OBVIOUS
  <2>2. row \in InstrumentRows /\ row.identity = old.identity /\ row.status = "closed"
    BY <2>1 DEF InstrumentRows
  <2>3. Mutated(r, i, row) /\ binding' = binding /\ Open(i)
    BY <1>1, <1>4, <2>1 DEF CloseInstrument
  <2>4. instrument[i].status # "absent"
    BY <2>3 DEF Open
  <2> QED BY <1>2, <2>2, <2>3, <2>4, MutationStep
<1>5. CASE ReopenInstrument(r, i)
  <2>0. now \in Nat
    BY InstrumentsAssumption DEF IInv, CatalogTypeOK, Times
  <2>1. PICK row : row = [old EXCEPT !.status = "active", !.from = now]
    OBVIOUS
  <2>2. row \in InstrumentRows /\ row.identity = old.identity /\ row.status = "active"
    BY <2>0, <2>1 DEF InstrumentRows
  <2>3. /\ Mutated(r, i, row) /\ binding' = binding /\ instrument[i].status = "closed"
        /\ ~Taken(old.identity, i)
    BY <1>1, <1>5, <2>1 DEF ReopenInstrument
  <2>4. row.status = "active" /\ row.identity # None =>
           \A j \in Instruments \ {i} : Open(j) => instrument[j].identity # row.identity
    BY <2>2, <2>3 DEF Taken
  <2>5. instrument[i].status # "absent"
    BY <2>3
  <2> QED BY <1>2, <2>2, <2>3, <2>4, <2>5, MutationStep
<1> QED BY <1>3, <1>4, <1>5

\* mutate_payment_instrument: a binding is added, or ends.
LEMMA BindingsKeepIInv ==
  ASSUME IInv, NEW r \in Mutations, NEW i \in Instruments,
         \/ \E a \in Accounts, from \in Times : AddBinding(r, i, a, from)
         \/ \E b \in Requests, to \in Times : CloseBinding(r, i, b, to)
  PROVE  IInv'
<1>1. PICK row \in InstrumentRows : row = instrument[i]
  BY RowType
<1>2. /\ row.status = "absent" \/ instrument[i].status # "absent"
      /\ row.status = "active" /\ row.identity # None =>
           \A j \in Instruments \ {i} : Open(j) => instrument[j].identity # row.identity
  BY <1>1 DEF IInv, Distinct, Open
<1>3. ASSUME NEW a \in Accounts, NEW from \in Times, AddBinding(r, i, a, from)
      PROVE  IInv'
  <2>1. /\ Open(i) /\ Mutated(r, i, row) /\ r \in Requests
        /\ ~\E b \in DOMAIN binding : binding[b].of = i /\ binding[b].to > from
        /\ binding' = [binding EXCEPT ![r] =
             [of |-> i, account |-> a, status |-> "active", from |-> from, to |-> Never]]
    BY <1>1, <1>3 DEF AddBinding, Requests
  <2>2. mutation[i] # NoInstrument
    BY <2>1 DEF IInv, Created, Open
  <2>3. ASSUME NEW b \in Requests, binding[b].of = i PROVE binding[b].to <= from
    <3>1. DOMAIN binding = Requests /\ binding[b] \in BindingRows
      BY DEF IInv, CatalogTypeOK
    <3>2. binding[b].to \in Nat /\ from \in Nat
      BY <3>1, InstrumentsAssumption DEF BindingRows, Times
    <3> QED BY <2>1, <2>3, <3>1, <3>2
  <2>4. /\ binding' \in [Requests -> BindingRows]
        /\ \A b \in Requests : ForceOK(b)'
        /\ \A b, c \in Requests : Follow(b, c)'
        /\ \A j \in Instruments, b \in Requests : binding'[b].of = j =>
              mutation[j] # NoInstrument \/ j = r
    BY <2>1, <2>2, <2>3, BindingAdded
  <2> QED BY <1>2, <2>1, <2>4, MutationStep
<1>4. ASSUME NEW b \in Requests, NEW to \in Times, CloseBinding(r, i, b, to)
      PROVE  IInv'
  <2>1. /\ Mutated(r, i, row) /\ binding[b].status = "active"
        /\ binding' = [binding EXCEPT ![b].status = "closed", ![b].to = to]
    BY <1>1, <1>4 DEF CloseBinding
  <2>2. /\ binding' \in [Requests -> BindingRows]
        /\ \A c \in Requests : ForceOK(c)'
        /\ \A c, d \in Requests : Follow(c, d)'
        /\ \A j \in Instruments, c \in Requests : binding'[c].of = j => mutation[j] # NoInstrument
    BY <2>1, BindingEnded
  <2> QED BY <1>2, <2>1, <2>2, MutationStep
<1> QED BY <1>3, <1>4

-----------------------------------------------------------------------------
(* Accounts and answers *)

\* A step that leaves the cards and their receipts alone.
LEMMA CardsRest ==
  ASSUME IInv, UNCHANGED <<instrument, binding, mutation>>
  PROVE  /\ \A i \in Instruments : Created(i)'
         /\ \A b \in Requests : ForceOK(b)'
         /\ \A b, c \in Requests : Follow(b, c)'
         /\ \A i, j \in Instruments : Distinct(i, j)'
<1>1. \A i \in Instruments : Created(i)'
  BY DEF IInv, Created
<1>2. \A i, j \in Instruments : Distinct(i, j)'
  BY DEF IInv, Distinct, Open
<1> QED BY <1>1, <1>2, BindingsKept

\* Answers from receipts, and the second transaction of a rename.
LEMMA AnswersKeepIInv ==
  ASSUME IInv, AnswerClients
  PROVE  IInv'
<1>1. UNCHANGED <<now, account, instrument, binding, mutation, renaming>>
  BY DEF AnswerClients, ResendMutation, VerifyRename, ResendRename
<1>2. /\ verifying' \subseteq verifying
      /\ \/ answers' = answers
         \/ \E r \in Requests : mutation[r] # NoInstrument
                                /\ answers' = answers \cup {<<r, mutation[r]>>}
         \/ \E r \in Renames : renaming[r] # NoRename
                               /\ answers' = answers \cup {<<r, renaming[r].after>>}
  <2>1. ASSUME NEW r \in Requests, ResendMutation(r)
        PROVE  /\ mutation[r] # NoInstrument /\ answers' = answers \cup {<<r, mutation[r]>>}
               /\ verifying' = verifying
    BY <2>1 DEF ResendMutation
  <2>2. ASSUME NEW r \in Renames, ResendRename(r)
        PROVE  /\ renaming[r] # NoRename /\ answers' = answers \cup {<<r, renaming[r].after>>}
               /\ verifying' = verifying
    BY <2>2 DEF ResendRename
  <2>3. ASSUME NEW r \in Renames, VerifyRename(r)
        PROVE  /\ renaming[r] # NoRename /\ verifying' \subseteq verifying
               /\ answers' = answers \/ answers' = answers \cup {<<r, renaming[r].after>>}
    BY <2>3 DEF VerifyRename, IInv
  <2> QED BY <2>1, <2>2, <2>3 DEF AnswerClients, Requests
<1>3. ASSUME NEW r \in Requests \cup Renames, NEW view \in InstrumentRows \cup AccountRows,
             answers' = answers \cup {<<r, view>>},
             r \in Requests => mutation[r] # NoInstrument /\ view = mutation[r],
             r \in Renames => renaming[r] # NoRename /\ view = renaming[r].after
      PROVE  /\ answers' \subseteq (Requests \cup Renames) \X (InstrumentRows \cup AccountRows)
             /\ \A x \in answers' : AnswerOK(x)'
  <2>1. answers' \subseteq (Requests \cup Renames) \X (InstrumentRows \cup AccountRows)
    BY <1>3 DEF IInv, CatalogTypeOK
  <2>2. ASSUME NEW x \in answers' PROVE AnswerOK(x)'
    <3>1. CASE x \in answers
      <4>1. AnswerOK(x)
        BY <3>1 DEF IInv
      <4> QED BY <1>1, <4>1 DEF AnswerOK
    <3>2. CASE x = <<r, view>>
      BY <1>1, <1>3, <3>2 DEF AnswerOK
    <3> QED BY <1>3, <3>1, <3>2
  <2> QED BY <2>1, <2>2
<1>4. /\ answers' \subseteq (Requests \cup Renames) \X (InstrumentRows \cup AccountRows)
      /\ \A x \in answers' : AnswerOK(x)'
  <2>1. CASE answers' = answers
    BY <1>1, <2>1 DEF IInv, CatalogTypeOK, AnswerOK
  <2>2. ASSUME NEW r \in Requests, mutation[r] # NoInstrument,
               answers' = answers \cup {<<r, mutation[r]>>}
        PROVE  /\ answers' \subseteq (Requests \cup Renames) \X (InstrumentRows \cup AccountRows)
               /\ \A x \in answers' : AnswerOK(x)'
    <3>1. mutation[r] \in InstrumentRows /\ r \notin Renames
      BY InstrumentsAssumption DEF IInv, CatalogTypeOK, Requests
    <3> QED BY <1>3, <2>2, <3>1
  <2>3. ASSUME NEW r \in Renames, renaming[r] # NoRename,
               answers' = answers \cup {<<r, renaming[r].after>>}
        PROVE  /\ answers' \subseteq (Requests \cup Renames) \X (InstrumentRows \cup AccountRows)
               /\ \A x \in answers' : AnswerOK(x)'
    <3>1. renaming[r].after \in AccountRows /\ r \notin Requests
      BY InstrumentsAssumption DEF IInv, CatalogTypeOK, Requests, RenameRows
    <3> QED BY <1>3, <2>3, <3>1
  <2> QED BY <1>2, <2>1, <2>2, <2>3
<1>5. CatalogTypeOK'
  BY <1>1, <1>2, <1>4 DEF IInv, CatalogTypeOK
<1>6. \A r \in verifying' : renaming'[r] # NoRename
  BY <1>1, <1>2 DEF IInv
<1>7. \A a \in Accounts : VersionOK(a)'
  BY <1>1 DEF IInv, VersionOK, RenamesOf
<1> QED BY <1>1, <1>4, <1>5, <1>6, <1>7, CardsRest DEF IInv

\* rename_account: one version more, and one receipt more.
LEMMA RenameKeepsIInv ==
  ASSUME IInv, NEW r \in Renames, NEW a \in Accounts, NEW name \in Names,
         RenameAccount(r, a, name)
  PROVE  IInv'
<1>1. PICK old \in AccountRows : old = account[a]
  BY DEF IInv, CatalogTypeOK
<1>2. PICK row : row = [old EXCEPT !.name = name, !.version = @ + 1]
  OBVIOUS
<1>3. row \in AccountRows /\ row.version = old.version + 1 /\ old.version \in Nat
  <2>1. old.version \in Nat /\ old.status \in {"absent", "active", "closed"}
    BY <1>1 DEF AccountRows
  <2>2. /\ old = [status |-> old.status, name |-> old.name, version |-> old.version]
    BY <1>1 DEF AccountRows
  <2>3. row = [status |-> old.status, name |-> name, version |-> old.version + 1]
    BY <1>2, <2>2
  <2>4. name \in Names \cup {None} /\ old.version + 1 \in Nat
    BY <2>1
  <2> QED BY <2>1, <2>3, <2>4 DEF AccountRows
<1>4. account' = [account EXCEPT ![a] = row]
  BY <1>1, <1>2 DEF RenameAccount, IInv, CatalogTypeOK
<1>5. /\ account' \in [Accounts -> AccountRows] /\ account'[a] = row
      /\ \A e \in Accounts \ {a} : account'[e] = account[e]
  BY <1>3, <1>4 DEF IInv, CatalogTypeOK
<1>6. PICK receipt : receipt = [account |-> a, after |-> row]
  OBVIOUS
<1>7. receipt \in RenameRows /\ receipt.account = a /\ receipt # NoRename
  <2>1. a # None
    BY InstrumentsAssumption
  <2> QED BY <1>3, <1>6, <2>1, NoRows DEF RenameRows
<1>8. /\ renaming' = [renaming EXCEPT ![r] = receipt] /\ renaming[r] = NoRename
      /\ verifying' = verifying \cup {r}
      /\ UNCHANGED <<now, instrument, binding, mutation, answers>>
  BY <1>5, <1>6 DEF RenameAccount
<1>9. /\ renaming' \in [Renames -> RenameRows] /\ renaming'[r] = receipt
      /\ \A s \in Renames \ {r} : renaming'[s] = renaming[s]
  BY <1>7, <1>8 DEF IInv, CatalogTypeOK
<1>10. CatalogTypeOK'
  BY <1>5, <1>8, <1>9 DEF IInv, CatalogTypeOK
<1>11. ASSUME NEW x \in answers' PROVE AnswerOK(x)'
  <2>1. AnswerOK(x)
    BY <1>8, <1>11 DEF IInv
  <2>2. x[1] \in Renames => x[1] # r
    BY <1>8, <2>1 DEF AnswerOK
  <2> QED BY <1>8, <1>9, <2>1, <2>2 DEF AnswerOK
<1>12. \A s \in verifying' : renaming'[s] # NoRename
  BY <1>7, <1>8, <1>9 DEF IInv, CatalogTypeOK
<1>13. ASSUME NEW e \in Accounts PROVE VersionOK(e)'
  <2>1. VersionOK(e)
    BY DEF IInv
  <2>2. renaming[r].account # e
    BY <1>8, NoRows, InstrumentsAssumption
  <2>3. CASE e = a
    <3>1. RenamesOf(e)' = RenamesOf(e) \cup {r}
      BY <1>7, <1>9, <2>3 DEF RenamesOf
    <3>2. r \notin RenamesOf(e)
      BY <2>2 DEF RenamesOf
    <3>3. IsFiniteSet(RenamesOf(e))
      BY <2>1 DEF VersionOK
    <3>4. /\ IsFiniteSet(RenamesOf(e)')
          /\ Cardinality(RenamesOf(e)') = Cardinality(RenamesOf(e)) + 1
      BY <3>1, <3>2, <3>3, FS_AddElement
    <3>5. /\ account'[e].version = old.version + 1
          /\ old.version = 1 + Cardinality(RenamesOf(e))
      BY <1>1, <1>3, <1>5, <2>1, <2>3 DEF VersionOK
    <3>6. Cardinality(RenamesOf(e)) \in Nat
      BY <3>3, FS_CardinalityType
    <3> QED BY <3>4, <3>5, <3>6 DEF VersionOK
  <2>4. CASE e # a
    <3>1. RenamesOf(e)' = RenamesOf(e)
      BY <1>7, <1>9, <2>2, <2>4 DEF RenamesOf
    <3> QED BY <1>5, <2>1, <2>4, <3>1 DEF VersionOK
  <2> QED BY <2>3, <2>4
<1> QED BY <1>8, <1>10, <1>11, <1>12, <1>13, CardsRest DEF IInv

\* An account is closed, or opened again; or time passes.
LEMMA StatusKeepsIInv ==
  ASSUME IInv, Tick \/ \E a \in Accounts : CloseAccount(a, TRUE) \/ ReopenAccount(a)
  PROVE  IInv'
<1>1. UNCHANGED <<instrument, binding, mutation, renaming, verifying, answers>>
  BY DEF Tick, CloseAccount, ReopenAccount
<1>2. /\ now' \in Times /\ account' \in [Accounts -> AccountRows]
      /\ \A e \in Accounts : account'[e].version = account[e].version
  <2>1. CASE Tick
    <3>1. account' = account /\ now < MaxTime /\ now' = now + 1 /\ now \in Times
      BY <2>1 DEF Tick, IInv, CatalogTypeOK
    <3>2. now' \in Times
      BY <3>1, InstrumentsAssumption DEF Times
    <3> QED BY <3>1, <3>2 DEF IInv, CatalogTypeOK
  <2>2. ASSUME NEW a \in Accounts, CloseAccount(a, TRUE) \/ ReopenAccount(a)
        PROVE  /\ now' \in Times /\ account' \in [Accounts -> AccountRows]
               /\ \A e \in Accounts : account'[e].version = account[e].version
    <3>1. PICK s \in {"active", "closed"} :
             now' = now /\ account' = [account EXCEPT ![a].status = s]
      BY <2>2 DEF CloseAccount, ReopenAccount
    <3>2. PICK old \in AccountRows : old = account[a]
      BY DEF IInv, CatalogTypeOK
    <3>3. PICK row : row = [old EXCEPT !.status = s]
      OBVIOUS
    <3>4. row \in AccountRows /\ row.version = old.version
      BY <3>3 DEF AccountRows
    <3>5. account' = [account EXCEPT ![a] = row]
      BY <3>1, <3>2, <3>3 DEF IInv, CatalogTypeOK
    <3> QED BY <3>1, <3>2, <3>4, <3>5 DEF IInv, CatalogTypeOK
  <2> QED BY <2>1, <2>2
<1>3. CatalogTypeOK'
  BY <1>1, <1>2 DEF IInv, CatalogTypeOK
<1>4. \A x \in answers' : AnswerOK(x)'
  BY <1>1 DEF IInv, AnswerOK
<1>5. \A r \in verifying' : renaming'[r] # NoRename
  BY <1>1 DEF IInv
<1>6. \A a \in Accounts : VersionOK(a)'
  BY <1>1, <1>2 DEF IInv, VersionOK, RenamesOf
<1> QED BY <1>1, <1>3, <1>4, <1>5, <1>6, CardsRest DEF IInv

-----------------------------------------------------------------------------
(* The theorems *)

\* No card, no rename, no answer yet.
LEMMA InitIInv == CatalogInit => IInv
<1> SUFFICES ASSUME CatalogInit PROVE IInv
  OBVIOUS
<1>1. /\ now = 0
      /\ account = [a \in Accounts |-> [status |-> "active", name |-> FirstName[a], version |-> 1]]
      /\ instrument = [i \in Instruments |-> NoInstrument]
      /\ binding = [r \in Requests |-> NoBinding]
      /\ mutation = [r \in Requests |-> NoInstrument]
      /\ renaming = [r \in Renames |-> NoRename] /\ verifying = {} /\ answers = {}
  BY DEF CatalogInit, Requests
<1>2. CatalogTypeOK
  <2>1. now \in Times
    BY <1>1, InstrumentsAssumption DEF Times
  <2>2. account \in [Accounts -> AccountRows]
    BY <1>1, InstrumentsAssumption DEF AccountRows
  <2> QED BY <1>1, <2>1, <2>2, NoRows DEF CatalogTypeOK
<1>3. ASSUME NEW i \in Instruments PROVE Created(i)
  BY <1>1, NoRows, InstrumentsAssumption DEF Created
<1>4. ASSUME NEW b \in Requests PROVE ForceOK(b) /\ \A c \in Requests : Follow(b, c)
  BY <1>1, NoRows DEF ForceOK, Follow
<1>5. \A i, j \in Instruments : Distinct(i, j)
  BY <1>1, NoRows DEF Distinct, Open
<1>6. ASSUME NEW a \in Accounts PROVE VersionOK(a)
  <2>1. RenamesOf(a) = {}
    BY <1>1, NoRows, InstrumentsAssumption DEF RenamesOf
  <2>2. IsFiniteSet(RenamesOf(a)) /\ Cardinality(RenamesOf(a)) = 0
    BY <2>1, FS_EmptySet
  <2>3. account[a].version = 1
    BY <1>1
  <2> QED BY <2>2, <2>3 DEF VersionOK
<1> QED BY <1>1, <1>2, <1>3, <1>4, <1>5, <1>6 DEF IInv

\* Every step keeps the invariant.
LEMMA NextIInv ==
  ASSUME IInv, [CatalogNext]_catalog
  PROVE  IInv'
<1>1. CASE MutateInstrument
  BY <1>1, CreateKeepsIInv, CardsKeepIInv, BindingsKeepIInv DEF MutateInstrument, Requests
<1>2. CASE RenameAnAccount
  BY <1>2, RenameKeepsIInv DEF RenameAnAccount
<1>3. CASE UNCHANGED catalog
  <2>1. UNCHANGED <<now, account, instrument, binding, mutation, renaming, verifying, answers>>
    BY <1>3 DEF catalog
  <2>2. CatalogTypeOK'
    BY <2>1 DEF IInv, CatalogTypeOK
  <2>3. \A x \in answers' : AnswerOK(x)'
    BY <2>1 DEF IInv, AnswerOK
  <2>4. \A r \in verifying' : renaming'[r] # NoRename
    BY <2>1 DEF IInv
  <2>5. \A a \in Accounts : VersionOK(a)'
    BY <2>1 DEF IInv, VersionOK, RenamesOf
  <2> QED BY <2>1, <2>2, <2>3, <2>4, <2>5, CardsRest DEF IInv
<1> QED BY <1>1, <1>2, <1>3, AnswersKeepIInv, StatusKeepsIInv DEF CatalogNext

\* The invariant of the catalog (IInv): bindings that follow one another, identities that
\* differ, receipts that are written once.
THEOREM CatalogInvariance == CatalogSpec => []IInv
<1>1. IInv /\ [CatalogNext]_catalog => IInv'
  BY NextIInv
<1> QED BY InitIInv, <1>1, PTL DEF CatalogSpec

\* The tables of cards, bindings, accounts and receipts have their types.
THEOREM CatalogTypeCorrect == CatalogSpec => []CatalogTypeOK
<1>1. IInv => CatalogTypeOK
  BY DEF IInv
<1> QED BY <1>1, CatalogInvariance, PTL

\* A purchase resolves to at most one account, by id or by provider and digits, at any time
\* (create_payment_instrument, mutate_payment_instrument, resolve_payment_instrument).
THEOREM CardsStayUnambiguous == CatalogSpec => []CardsAreUnambiguous
<1>1. IInv => CardsAreUnambiguous
  BY UnambiguousHolds
<1> QED BY <1>1, CatalogInvariance, PTL

\* All answers to a request are the same, and an account's version counts its renames
\* (the receipts of mutate_payment_instrument and rename_account).
THEOREM RequestsAreRunOnce == CatalogSpec => []RequestsRunOnce
<1>1. IInv => RequestsRunOnce
  BY RunOnceHolds
<1> QED BY <1>1, CatalogInvariance, PTL

-----------------------------------------------------------------------------
(* What is booked on an account *)

Effects(rows, some, a) == [x \in some |-> rows[x].effect[a]]

Integral(rows, S, a) == IsFiniteSet(S) /\ \A x \in S : rows[x].effect[a] \in Int

\* The fold of the community modules is a sum.
LEMMA BookedIsTotal ==
  ASSUME NEW rows, NEW S, NEW a, Integral(rows, S, a)
  PROVE  Summable(Effects(rows, S, a), S) /\ Booked(rows, S, a) = Total(Effects(rows, S, a), S)
<1> DEFINE Folds(h) ==
             h = [s \in SUBSET S |-> IF s = {} THEN 0
                                     ELSE rows[CHOOSE x \in s : TRUE].effect[a]
                                            + h[s \ {CHOOSE x \in s : TRUE}]]
           F == Effects(rows, S, a)
<1>1. \A x \in S : F[x] = rows[x].effect[a]
  BY DEF Effects
<1>2. Summable(F, S)
  BY <1>1 DEF Integral, Summable
<1>3. PICK g : g \in [SUBSET S -> Int] /\ Tallies(g, F, S)
  <2> HIDE DEF F
  <2> QED BY <1>2, TallyExists DEF Summable
<1>4. ASSUME NEW s \in SUBSET S, s # {}
      PROVE  F[First(s)] = rows[First(s)].effect[a]
  BY <1>1, <1>4, OthersAreFewer
<1>5. Folds(g)
  <2>1. g = [s \in SUBSET S |-> IF s = {} THEN 0 ELSE F[First(s)] + g[Others(s)]]
    BY <1>3 DEF Tallies
  <2>2. g = [s \in SUBSET S |-> IF s = {} THEN 0 ELSE rows[First(s)].effect[a] + g[Others(s)]]
    <3> HIDE DEF F
    <3> QED BY <1>4, <2>1
  <2> QED BY <2>2 DEF First, Others
<1>6. PICK h : Folds(h) /\ h = CHOOSE k : Folds(k)
  <2> HIDE DEF Folds
  <2> QED BY <1>5
<1>7. Booked(rows, S, a) = h[S]
  <2>1. Booked(rows, S, a) = (CHOOSE k : Folds(k))[S]
    BY DEF Booked, MapThenSumSet, MapThenFoldSet
  <2> HIDE DEF Folds
  <2> QED BY <1>6, <2>1
<1>8. Tallies(h, F, S)
  <2>1. h = [s \in SUBSET S |-> IF s = {} THEN 0 ELSE rows[First(s)].effect[a] + h[Others(s)]]
    BY <1>6 DEF First, Others
  <2>2. h = [s \in SUBSET S |-> IF s = {} THEN 0 ELSE F[First(s)] + h[Others(s)]]
    <3> HIDE DEF F
    <3> QED BY <1>4, <2>1
  <2> HIDE DEF F
  <2> QED BY <2>2 DEF Tallies
<1>9. h[S] = Total(F, S)
  <2> HIDE DEF F
  <2> QED BY <1>2, <1>8, TotalIs
<1> QED BY <1>2, <1>7, <1>9

\* Nothing is booked by no intents.
LEMMA NothingBooked ==
  ASSUME NEW rows, NEW a
  PROVE  Booked(rows, {}, a) = 0
<1>1. PICK S : S = {}
  OBVIOUS
<1>2. Integral(rows, S, a)
  BY <1>1, FS_EmptySet DEF Integral
<1> QED BY <1>1, <1>2, BookedIsTotal, TotalOfNone

\* One more posted intent adds its effect; the others' rows are as they were.
LEMMA BookedAdds ==
  ASSUME NEW rows, NEW more, NEW S, NEW i, i \notin S, NEW a, Integral(rows, S, a),
         \A x \in S : more[x] = rows[x],
         more[i].effect[a] \in Int
  PROVE  Booked(more, S \cup {i}, a) = Booked(rows, S, a) + more[i].effect[a]
<1>1. PICK T : T = S \cup {i}
  OBVIOUS
<1>2. IsFiniteSet(S) /\ IsFiniteSet(T)
  BY <1>1, FS_AddElement DEF Integral
<1>3. Integral(more, T, a)
  BY <1>1, <1>2 DEF Integral
<1>4. PICK F, G : F = Effects(rows, S, a) /\ G = Effects(more, T, a)
  OBVIOUS
<1>5. G[i] = more[i].effect[a] /\ \A x \in S : F[x] = G[x]
  BY <1>1, <1>4 DEF Effects
<1>6. Summable(F, S) /\ Booked(rows, S, a) = Total(F, S) /\ Booked(more, T, a) = Total(G, T)
  BY <1>3, <1>4, BookedIsTotal
<1>7. Summable(G, S) /\ Total(F, S) = Total(G, S)
  BY <1>5, <1>6, TotalAgrees
<1>8. Total(G, T) = Total(G, S) + G[i]
  BY <1>1, <1>5, <1>7, TotalAdds
<1> QED BY <1>1, <1>5, <1>6, <1>7, <1>8

-----------------------------------------------------------------------------
(* The invariant *)

Phases == {"absent", "begun", "measuring", "compiled", "ready", "suspected", "lapsed", "consumed"}

\* A binding that was made is of a card, on an account, and its request has a receipt.
BoundRow(b) ==
    binding[b].of # None =>
       /\ binding[b].of \in Instruments /\ binding[b].account \in Accounts
       /\ mutation[b] # NoInstrument

\* Type invariant: the rows of the intents, the balances and the receipts have their shapes.
EntryTypeOK ==
    /\ intent = [i \in Intents |-> intent[i]]
    /\ \A i \in Intents :
         /\ intent[i] = [pc |-> intent[i].pc, entry |-> intent[i].entry,
                         binding |-> intent[i].binding, names |-> intent[i].names,
                         units |-> intent[i].units]
         /\ intent[i].pc \in Phases
         /\ intent[i].binding \in Requests \cup {None}
         /\ intent[i].units \in Int
         /\ intent[i].pc # "absent" => intent[i].entry \in EntryShape
    /\ balance \in [Accounts -> Int]
    /\ posted \in [Intents -> [at : Nat, effect : [Accounts -> Int]]]
    /\ committed \in [CommitRequests -> Intents \cup {None}]

\* What was asked for: an adjustment is of one account, and the card's account stands where
\* the card was named.
AskedFor(e, b) ==
    /\ e.kind = "adjustment" => e.from = None /\ e.to # None
    /\ b # None =>
         /\ binding[b].of # None
         /\ \/ e.kind = "payment" /\ e.to = binding[b].account
            \/ e.kind = "expense" /\ e.from = binding[b].account

\* Names were replaced by accounts.
Resolved(e) == {e.from, e.to} \subseteq Accounts \cup {None} /\ e.from # e.to

IntentOK(i) ==
    /\ intent[i].pc = "absent" => intent[i].binding = None
    /\ intent[i].pc # "absent" => AskedFor(intent[i].entry, intent[i].binding)
    /\ intent[i].pc \notin {"absent", "begun"} => Resolved(intent[i].entry)

ReceiptsOf(i) == {r \in CommitRequests : committed[r] = i}
ReceiptOK(i) == IF i \in Consumed THEN \E r \in CommitRequests : ReceiptsOf(i) = {r} ELSE ReceiptsOf(i) = {}

\* What two consumed intents never share.
Differ(i, j) ==
    /\ Reference(i) # None => Reference(j) # Reference(i)
    /\ Fingerprint(i) = Fingerprint(j) => \E k \in {i, j} : posted[k].at < intent[k].entry.at - Window

\* The inductive invariant.
EInv ==
    /\ IInv
    /\ \A b \in Requests : BoundRow(b)
    /\ EntryTypeOK
    /\ \A i \in Intents : IntentOK(i) /\ ReceiptOK(i)
    /\ \A i, j \in Consumed : i # j => Differ(i, j)
    /\ IsFiniteSet(Consumed)
    /\ \A a \in Accounts : balance[a] = Booked(posted, Consumed, a)

\* Every step of the catalog leaves what a binding is of, and on which account.
BindingsStand ==
    \A b \in Requests : binding[b].of # None =>
       binding'[b].of = binding[b].of /\ binding'[b].account = binding[b].account

-----------------------------------------------------------------------------
(* What stays *)

\* A step of the entries that leaves the catalog alone leaves its invariant.
LEMMA CatalogStays ==
  ASSUME EInv, UNCHANGED catalog
  PROVE  IInv' /\ (\A b \in Requests : BoundRow(b)') /\ BindingsStand
<1>1. IInv'
  BY NextIInv DEF EInv
<1>2. UNCHANGED <<binding, mutation>>
  BY DEF catalog
<1>3. \A b \in Requests : BoundRow(b)'
  BY <1>2 DEF EInv, BoundRow
<1> QED BY <1>1, <1>2, <1>3 DEF BindingsStand

\* What an intent asked for stays while bindings stand.
LEMMA AskedForStays ==
  ASSUME NEW e, NEW b \in Requests \cup {None}, AskedFor(e, b), BindingsStand
  PROVE  AskedFor(e, b)'
<1>1. b # None => b \in Requests
  OBVIOUS
<1> QED BY <1>1 DEF AskedFor, BindingsStand

\* Everything but the phase of an intent stays.
SameIntent(k) ==
    /\ intent'[k].entry = intent[k].entry /\ intent'[k].binding = intent[k].binding
    /\ intent'[k].units = intent[k].units

\* The marks by which duplicates are found stay.
LEMMA MarksStay ==
  ASSUME EInv, NEW k \in Intents, intent[k].pc # "absent", SameIntent(k), BindingsStand
  PROVE  Fingerprint(k)' = Fingerprint(k) /\ Reference(k)' = Reference(k)
<1>1. PICK row : row = intent[k]
  OBVIOUS
<1>2. row.binding \in Requests \cup {None} /\ AskedFor(row.entry, row.binding)
  BY <1>1 DEF EInv, EntryTypeOK, IntentOK
<1>3. row.binding # None => binding'[row.binding].of = binding[row.binding].of
  BY <1>2 DEF AskedFor, BindingsStand
<1>4. PICK c, d :
         /\ c = (IF row.binding = None THEN None ELSE binding[row.binding].of)
         /\ d = (IF row.binding = None THEN None ELSE binding'[row.binding].of)
  OBVIOUS
<1>5. c = d
  BY <1>3, <1>4
<1>6. intent'[k].entry = row.entry /\ intent'[k].binding = row.binding /\ intent'[k].units = row.units
  BY <1>1 DEF SameIntent
<1>7. Fingerprint(k) =
        [kind |-> row.entry.kind, units |-> row.units, at |-> row.entry.at,
         account |-> CASE row.entry.kind = "refund" -> row.entry.of
                       [] row.entry.from # None -> row.entry.from [] OTHER -> row.entry.to,
         card |-> c]
  BY <1>1, <1>4 DEF Fingerprint
<1>8. Fingerprint(k)' =
        [kind |-> row.entry.kind, units |-> row.units, at |-> row.entry.at,
         account |-> CASE row.entry.kind = "refund" -> row.entry.of
                       [] row.entry.from # None -> row.entry.from [] OTHER -> row.entry.to,
         card |-> d]
  BY <1>4, <1>6 DEF Fingerprint
<1>9. Reference(k)' = Reference(k)
  BY <1>1, <1>6 DEF Reference
<1> QED BY <1>5, <1>7, <1>8, <1>9

\* Consumed intents that stay as they are differ as they did.
LEMMA DifferencesStay ==
  ASSUME EInv, BindingsStand, NEW i \in Consumed, NEW j \in Consumed, i # j,
         \A k \in {i, j} : intent'[k] = intent[k] /\ posted'[k] = posted[k]
  PROVE  Differ(i, j)'
<1>1. Differ(i, j)
  BY DEF EInv
<1>2. \A k \in {i, j} : k \in Intents /\ intent[k].pc # "absent"
  BY DEF Consumed
<1>3. /\ Fingerprint(i)' = Fingerprint(i) /\ Reference(i)' = Reference(i)
      /\ Fingerprint(j)' = Fingerprint(j) /\ Reference(j)' = Reference(j)
  BY <1>2, MarksStay DEF SameIntent
<1>4. \A k \in {i, j} : posted'[k].at = posted[k].at /\ intent'[k].entry.at = intent[k].entry.at
  OBVIOUS
<1>5. (Reference(i) # None => Reference(j) # Reference(i))'
  BY <1>1, <1>3 DEF Differ
<1>6. (Fingerprint(i) = Fingerprint(j) => \E k \in {i, j} : posted[k].at < intent[k].entry.at - Window)'
  <2> SUFFICES ASSUME Fingerprint(i)' = Fingerprint(j)'
               PROVE  \E k \in {i, j} : posted'[k].at < intent'[k].entry.at - Window
    OBVIOUS
  <2>1. PICK k \in {i, j} : posted[k].at < intent[k].entry.at - Window
    BY <1>1, <1>3 DEF Differ
  <2> QED BY <1>4, <2>1
<1> QED BY <1>5, <1>6 DEF Differ

-----------------------------------------------------------------------------
(* Steps of the catalog *)

\* Accounts and cards change under the intents, which keep what they are.
LEMMA CatalogStepKeepsEInv ==
  ASSUME EInv, IInv', \A b \in Requests : BoundRow(b)', BindingsStand,
         UNCHANGED <<intent, balance, posted, committed>>
  PROVE  EInv'
<1>1. Consumed' = Consumed
  BY DEF Consumed
<1>2. EntryTypeOK'
  BY DEF EInv, EntryTypeOK
<1>3. ASSUME NEW i \in Intents PROVE IntentOK(i)' /\ ReceiptOK(i)'
  <2>1. IntentOK(i)'
    <3>1. intent[i].binding \in Requests \cup {None} /\ IntentOK(i)
      BY DEF EInv, EntryTypeOK
    <3>2. PICK e, b : e = intent[i].entry /\ b = intent[i].binding
      OBVIOUS
    <3>3. AskedFor(e, b) => AskedFor(e, b)'
      BY <3>1, <3>2, AskedForStays
    <3> QED BY <3>1, <3>2, <3>3 DEF IntentOK, Resolved
  <2>2. ReceiptOK(i)'
    BY <1>1 DEF EInv, ReceiptOK, ReceiptsOf
  <2> QED BY <2>1, <2>2
<1>4. \A i, j \in Consumed' : i # j => Differ(i, j)'
  BY <1>1, DifferencesStay
<1>5. IsFiniteSet(Consumed)' /\ \A a \in Accounts : balance'[a] = Booked(posted', Consumed', a)
  BY <1>1 DEF EInv
<1> QED BY <1>2, <1>3, <1>4, <1>5 DEF EInv

\* A receipt is a row that stands for a mutation.
LEMMA ReceiptIsReal ==
  ASSUME IInv, NEW r \in Requests, NEW i \in Instruments, Replies(r, i),
         instrument'[i] # NoInstrument
  PROVE  /\ mutation'[r] # NoInstrument
         /\ \A b \in Requests \ {r} : mutation'[b] = mutation[b]
<1>1. mutation' = [mutation EXCEPT ![r] = instrument'[i]]
  BY DEF Replies
<1>2. mutation \in [Requests -> InstrumentRows]
  BY DEF IInv, CatalogTypeOK
<1> QED BY <1>1, <1>2

\* A request that changes a card had no row before, and names the card it wrote.
LEMMA MutatedIsReal ==
  ASSUME IInv, NEW r \in Mutations, NEW i \in Instruments, NEW row \in InstrumentRows,
         Mutated(r, i, row)
  PROVE  mutation[r] = NoInstrument /\ Replies(r, i) /\ instrument'[i] # NoInstrument
<1>1. /\ mutation[r] = NoInstrument /\ Replies(r, i)
      /\ instrument' = [instrument EXCEPT ![i] = [row EXCEPT !.version = @ + 1]]
  BY DEF Mutated
<1>2. instrument \in [Instruments -> InstrumentRows]
  BY DEF IInv, CatalogTypeOK
<1>3. instrument'[i] = [row EXCEPT !.version = @ + 1]
  BY <1>1, <1>2
<1> QED BY <1>1, <1>3, OneMore

\* A request without a receipt has no binding.
LEMMA NoReceiptNoBinding ==
  ASSUME NEW r \in Requests, BoundRow(r), mutation[r] = NoInstrument
  PROVE  binding[r].of = None
BY DEF BoundRow

\* A request makes a binding of its own; all others stand.
LEMMA NewBindingStands ==
  ASSUME EInv, NEW r \in Requests, NEW i \in Instruments, NEW a \in Accounts, NEW from \in Times,
         mutation[r] = NoInstrument, mutation'[r] # NoInstrument,
         \A b \in Requests \ {r} : mutation'[b] = mutation[b],
         binding' = [binding EXCEPT ![r] =
           [of |-> i, account |-> a, status |-> "active", from |-> from, to |-> Never]]
  PROVE  (\A b \in Requests : BoundRow(b)') /\ BindingsStand
<1>1. binding \in [Requests -> BindingRows]
  BY DEF EInv, IInv, CatalogTypeOK
<1>2. binding'[r].of = i /\ binding'[r].account = a
  BY <1>1
<1>3. \A b \in Requests \ {r} : binding'[b] = binding[b]
  BY <1>1
<1>4. binding[r].of = None
  BY NoReceiptNoBinding DEF EInv
<1>5. ASSUME NEW b \in Requests PROVE BoundRow(b)'
  <2>1. CASE b = r
    BY <1>2, <2>1 DEF BoundRow
  <2>2. CASE b # r
    <3>1. BoundRow(b)
      BY DEF EInv
    <3> QED BY <1>3, <2>2, <3>1 DEF BoundRow
  <2> QED BY <2>1, <2>2
<1>6. BindingsStand
  BY <1>3, <1>4 DEF BindingsStand
<1> QED BY <1>5, <1>6

\* A change of cards leaves the invariant of the bindings.
LEMMA CardsKeepBindings ==
  ASSUME EInv, MutateInstrument
  PROVE  (\A b \in Requests : BoundRow(b)') /\ BindingsStand
<1>0. IInv
  BY DEF EInv
<1>1. ASSUME NEW i \in Instruments, NEW identity \in Identities \cup {None}, NEW a \in Accounts,
             NEW from \in Times, CreateInstrument(i, identity, a, from)
      PROVE  (\A b \in Requests : BoundRow(b)') /\ BindingsStand
  <2>1. instrument'[i] # NoInstrument
    <3>1. PICK row : row = [status |-> "active", identity |-> identity, policy |-> Kind[a],
                            version |-> 1, from |-> from]
      OBVIOUS
    <3>2. row # NoInstrument
      BY <3>1 DEF NoInstrument
    <3>3. instrument \in [Instruments -> InstrumentRows] /\ instrument' = [instrument EXCEPT ![i] = row]
      BY <1>0, <1>1, <3>1 DEF IInv, CatalogTypeOK, CreateInstrument
    <3> QED BY <3>2, <3>3
  <2>2. i \in Requests /\ Replies(i, i) /\ mutation[i] = NoInstrument
    BY <1>1 DEF Requests, CreateInstrument
  <2>3. mutation'[i] # NoInstrument /\ \A b \in Requests \ {i} : mutation'[b] = mutation[b]
    BY <1>0, <2>1, <2>2, ReceiptIsReal
  <2>4. binding' = [binding EXCEPT ![i] =
           [of |-> i, account |-> a, status |-> "active", from |-> from, to |-> Never]]
    BY <1>1 DEF CreateInstrument
  <2> QED BY <2>2, <2>3, <2>4, NewBindingStands
<1>2. ASSUME NEW r \in Mutations, NEW i \in Instruments, NEW row \in InstrumentRows,
             Mutated(r, i, row)
      PROVE  /\ r \in Requests /\ mutation[r] = NoInstrument /\ mutation'[r] # NoInstrument
             /\ \A b \in Requests \ {r} : mutation'[b] = mutation[b]
  <2>1. r \in Requests
    BY DEF Requests
  <2> QED BY <1>0, <1>2, <2>1, MutatedIsReal, ReceiptIsReal
<1>3. ASSUME NEW r \in Mutations, NEW i \in Instruments, NEW row \in InstrumentRows,
             Mutated(r, i, row), UNCHANGED binding
      PROVE  (\A b \in Requests : BoundRow(b)') /\ BindingsStand
  <2>1. ASSUME NEW b \in Requests PROVE BoundRow(b)'
    <3>1. BoundRow(b) /\ (b = r \/ mutation'[b] = mutation[b])
      BY <1>2, <1>3 DEF EInv
    <3>2. mutation[b] # NoInstrument => mutation'[b] # NoInstrument
      BY <1>2, <1>3, <3>1
    <3> QED BY <1>3, <3>1, <3>2 DEF BoundRow
  <2>2. BindingsStand
    BY <1>3 DEF BindingsStand
  <2> QED BY <2>1, <2>2
<1>4. ASSUME NEW r \in Mutations, NEW i \in Instruments,
             \/ \E identity \in Identities \cup {None} : UpdateInstrument(r, i, identity)
             \/ CloseInstrument(r, i)
             \/ ReopenInstrument(r, i)
      PROVE  (\A b \in Requests : BoundRow(b)') /\ BindingsStand
  <2>1. now \in Nat
    BY <1>0, InstrumentsAssumption DEF IInv, CatalogTypeOK, Times
  <2>2. PICK old \in InstrumentRows : old = instrument[i]
    BY <1>0 DEF IInv, CatalogTypeOK
  <2>3. ASSUME NEW identity \in Identities \cup {None}
        PROVE  [old EXCEPT !.identity = identity] \in InstrumentRows
    BY DEF InstrumentRows
  <2>4. [old EXCEPT !.status = "closed"] \in InstrumentRows
    BY DEF InstrumentRows
  <2>5. [old EXCEPT !.status = "active", !.from = now] \in InstrumentRows
    <3>1. PICK mid \in InstrumentRows : mid = [old EXCEPT !.status = "active"]
      BY DEF InstrumentRows
    <3>2. [mid EXCEPT !.from = now] \in InstrumentRows
      BY <2>1 DEF InstrumentRows
    <3>3. [old EXCEPT !.status = "active", !.from = now] = [mid EXCEPT !.from = now]
      BY <3>1 DEF InstrumentRows
    <3> QED BY <3>2, <3>3
  <2>6. CASE \E identity \in Identities \cup {None} : UpdateInstrument(r, i, identity)
    BY <1>3, <2>2, <2>3, <2>6 DEF UpdateInstrument
  <2>7. CASE CloseInstrument(r, i)
    BY <1>3, <2>2, <2>4, <2>7 DEF CloseInstrument
  <2>8. CASE ReopenInstrument(r, i)
    BY <1>3, <2>2, <2>5, <2>8 DEF ReopenInstrument
  <2> QED BY <1>4, <2>6, <2>7, <2>8
<1>5. ASSUME NEW r \in Mutations, NEW i \in Instruments, NEW a \in Accounts, NEW from \in Times,
             AddBinding(r, i, a, from)
      PROVE  (\A b \in Requests : BoundRow(b)') /\ BindingsStand
  <2>1. Mutated(r, i, instrument[i]) /\ instrument[i] \in InstrumentRows
    BY <1>0, <1>5, RowType DEF AddBinding
  <2>2. /\ r \in Requests /\ mutation[r] = NoInstrument /\ mutation'[r] # NoInstrument
        /\ \A b \in Requests \ {r} : mutation'[b] = mutation[b]
    BY <1>2, <2>1
  <2>3. binding' = [binding EXCEPT ![r] =
           [of |-> i, account |-> a, status |-> "active", from |-> from, to |-> Never]]
    BY <1>5 DEF AddBinding
  <2> QED BY <2>2, <2>3, NewBindingStands
<1>6. ASSUME NEW r \in Mutations, NEW i \in Instruments, NEW d \in Requests, NEW to \in Times,
             CloseBinding(r, i, d, to)
      PROVE  (\A b \in Requests : BoundRow(b)') /\ BindingsStand
  <2>1. Mutated(r, i, instrument[i]) /\ instrument[i] \in InstrumentRows
    BY <1>0, <1>6, RowType DEF CloseBinding
  <2>2. binding' = [binding EXCEPT ![d].status = "closed", ![d].to = to]
    BY <1>6 DEF CloseBinding
  <2>3. binding \in [Requests -> BindingRows]
    BY <1>0 DEF IInv, CatalogTypeOK
  <2>4. PICK old \in BindingRows : old = binding[d]
    BY <2>3
  <2>5. binding'[d].of = old.of /\ binding'[d].account = old.account
    BY <2>2, <2>3, <2>4 DEF BindingRows
  <2>6. \A b \in Requests \ {d} : binding'[b] = binding[b]
    BY <2>2, <2>3
  <2>7. \A b \in Requests : binding'[b].of = binding[b].of /\ binding'[b].account = binding[b].account
    BY <2>4, <2>5, <2>6
  <2>8. \A b \in Requests : mutation[b] # NoInstrument => mutation'[b] # NoInstrument
    BY <1>2, <2>1
  <2>9. ASSUME NEW b \in Requests PROVE BoundRow(b)'
    <3>1. BoundRow(b)
      BY DEF EInv
    <3> QED BY <2>7, <2>8, <3>1 DEF BoundRow
  <2> QED BY <2>7, <2>9 DEF BindingsStand
<1> QED BY <1>1, <1>4, <1>5, <1>6 DEF MutateInstrument, Requests

\* Whatever happens in the catalog between two steps of an intent.
LEMMA CatalogKeepsEInv ==
  ASSUME EInv, Catalog
  PROVE  EInv'
<1>1. CatalogNext
  BY DEF Catalog, CatalogNext, CloseAccount
<1>2. IInv'
  BY <1>1, NextIInv DEF EInv
<1>3. MutateInstrument \/ UNCHANGED <<binding, mutation>>
  BY DEF Catalog, Tick, RenameAnAccount, RenameAccount, CloseAccount, ReopenAccount
<1>4. (\A b \in Requests : BoundRow(b)') /\ BindingsStand
  <2>1. CASE UNCHANGED <<binding, mutation>>
    BY <2>1 DEF EInv, BoundRow, BindingsStand
  <2> QED BY <1>3, <2>1, CardsKeepBindings
<1>5. UNCHANGED <<intent, balance, posted, committed>>
  BY DEF Catalog
<1> QED BY <1>2, <1>4, <1>5, CatalogStepKeepsEInv

-----------------------------------------------------------------------------
(* Prepare *)

Row(pc, e, b, names, units) ==
    [pc |-> pc, entry |-> e, binding |-> b, names |-> names, units |-> units]

\* A step of one intent that consumes none.
LEMMA IntentStepKeepsEInv ==
  ASSUME EInv, NEW i \in Intents, intent[i].pc # "consumed",
         NEW pc \in Phases \ {"absent", "consumed"}, NEW e \in EntryShape,
         NEW b \in Requests \cup {None}, NEW names, NEW units \in Int,
         intent' = [k \in Intents |-> IF k = i THEN Row(pc, e, b, names, units) ELSE intent[k]],
         UNCHANGED <<catalog, balance, posted, committed>>,
         AskedFor(e, b), pc # "begun" => Resolved(e)
  PROVE  EInv'
<1>1. IInv' /\ (\A c \in Requests : BoundRow(c)') /\ BindingsStand
  BY CatalogStays
<1>2. /\ intent'[i] = Row(pc, e, b, names, units)
      /\ \A k \in Intents \ {i} : intent'[k] = intent[k]
  OBVIOUS
<1>3. /\ intent'[i].pc = pc /\ intent'[i].entry = e /\ intent'[i].binding = b
      /\ intent'[i].units = units /\ intent'[i].names = names
  BY <1>2 DEF Row
<1>4. Consumed' = Consumed
  BY <1>2, <1>3 DEF Consumed
<1>5. EntryTypeOK'
  <2>1. ASSUME NEW k \in Intents
        PROVE  /\ intent'[k] = Row(intent'[k].pc, intent'[k].entry, intent'[k].binding,
                                   intent'[k].names, intent'[k].units)
               /\ intent'[k].pc \in Phases
               /\ intent'[k].binding \in Requests \cup {None}
               /\ intent'[k].units \in Int
               /\ intent'[k].pc # "absent" => intent'[k].entry \in EntryShape
    <3>1. CASE k = i
      BY <1>2, <1>3, <3>1
    <3>2. CASE k # i
      BY <1>2, <3>2 DEF EInv, EntryTypeOK, Row
    <3> QED BY <3>1, <3>2
  <2>2. intent' = [k \in Intents |-> intent'[k]]
    OBVIOUS
  <2> QED BY <2>1, <2>2 DEF EInv, EntryTypeOK, Row
<1>6. ASSUME NEW k \in Intents PROVE IntentOK(k)' /\ ReceiptOK(k)'
  <2>1. ReceiptOK(k)'
    BY <1>4 DEF EInv, ReceiptOK, ReceiptsOf
  <2>2. CASE k = i
    <3>1. AskedFor(e, b)'
      BY <1>1, AskedForStays
    <3> QED BY <1>3, <2>1, <2>2, <3>1 DEF IntentOK, Resolved
  <2>3. CASE k # i
    <3>1. intent[k].binding \in Requests \cup {None} /\ IntentOK(k)
      BY DEF EInv, EntryTypeOK
    <3>2. PICK f, c : f = intent[k].entry /\ c = intent[k].binding
      OBVIOUS
    <3>3. AskedFor(f, c) => AskedFor(f, c)'
      BY <1>1, <3>1, <3>2, AskedForStays
    <3>4. intent'[k] = intent[k]
      BY <1>2, <2>3
    <3> QED BY <2>1, <3>1, <3>2, <3>3, <3>4 DEF IntentOK, Resolved
  <2> QED BY <2>2, <2>3
<1>7. ASSUME NEW j \in Consumed', NEW k \in Consumed', j # k PROVE Differ(j, k)'
  <2>1. j \in Consumed /\ k \in Consumed /\ j # i /\ k # i
    BY <1>4, <1>7 DEF Consumed
  <2>2. \A l \in {j, k} : intent'[l] = intent[l] /\ posted'[l] = posted[l]
    BY <1>2, <2>1 DEF Consumed
  <2> QED BY <1>1, <1>7, <2>1, <2>2, DifferencesStay
<1>8. IsFiniteSet(Consumed)' /\ \A a \in Accounts : balance'[a] = Booked(posted', Consumed', a)
  BY <1>4 DEF EInv
<1> QED BY <1>1, <1>5, <1>6, <1>7, <1>8 DEF EInv

\* The row of an intent, field by field.
LEMMA RowOf ==
  ASSUME EInv, NEW i \in Intents
  PROVE  \E pc \in Phases, b \in Requests \cup {None}, units \in Int : \E e, names :
           /\ intent[i] = Row(pc, e, b, names, units)
           /\ pc # "absent" => e \in EntryShape /\ AskedFor(e, b)
           /\ pc = "absent" => b = None
           /\ pc \notin {"absent", "begun"} => Resolved(e)
<1>1. PICK row : row = intent[i]
  OBVIOUS
<1>2. /\ row = Row(row.pc, row.entry, row.binding, row.names, row.units)
      /\ row.pc \in Phases /\ row.binding \in Requests \cup {None} /\ row.units \in Int
      /\ row.pc # "absent" => row.entry \in EntryShape
  BY <1>1 DEF EInv, EntryTypeOK, Row
<1>3. /\ row.pc # "absent" => AskedFor(row.entry, row.binding)
      /\ row.pc = "absent" => row.binding = None
      /\ row.pc \notin {"absent", "begun"} => Resolved(row.entry)
  BY <1>1 DEF EInv, IntentOK
<1>4. PICK pc, b, units, e, names :
         pc = row.pc /\ b = row.binding /\ units = row.units /\ e = row.entry /\ names = row.names
  OBVIOUS
<1>5. pc \in Phases /\ b \in Requests \cup {None} /\ units \in Int /\ intent[i] = Row(pc, e, b, names, units)
  BY <1>1, <1>2, <1>4
<1>6. /\ pc # "absent" => e \in EntryShape /\ AskedFor(e, b)
      /\ pc = "absent" => b = None
      /\ pc \notin {"absent", "begun"} => Resolved(e)
  BY <1>2, <1>3, <1>4
<1> QED BY <1>5, <1>6

\* One field of an entry replaced.
LEMMA EntryReplaced ==
  ASSUME NEW e \in EntryShape, NEW from \in Accounts \cup {None}, NEW to \in Accounts \cup {None}
  PROVE  /\ [e EXCEPT !.from = from] \in EntryShape
         /\ [e EXCEPT !.to = to] \in EntryShape
         /\ [e EXCEPT !.from = from, !.to = to] = [[e EXCEPT !.from = from] EXCEPT !.to = to]
<1>1. [e EXCEPT !.from = from] \in EntryShape
  BY DEF EntryShape
<1>2. [e EXCEPT !.to = to] \in EntryShape
  BY DEF EntryShape
<1>3. [e EXCEPT !.from = from, !.to = to] = [[e EXCEPT !.from = from] EXCEPT !.to = to]
  BY DEF EntryShape
<1> QED BY <1>1, <1>2, <1>3

Redirected(e, from, to) == [e EXCEPT !.from = from, !.to = to]

\* Both accounts of an entry replaced.
LEMMA PartiesReplaced ==
  ASSUME NEW e \in EntryShape, NEW from \in Accounts \cup {None}, NEW to \in Accounts \cup {None},
         NEW f, f = Redirected(e, from, to)
  PROVE  /\ f \in EntryShape /\ f.from = from /\ f.to = to /\ f.kind = e.kind /\ f.at = e.at
         /\ f.of = e.of /\ f.units = e.units /\ f.reference = e.reference
<1>1. PICK m \in EntryShape : m = [e EXCEPT !.from = from]
  BY EntryReplaced
<1>2. f = [m EXCEPT !.to = to]
  BY <1>1, EntryReplaced DEF Redirected
<1>3. /\ m.from = from /\ m.kind = e.kind /\ m.at = e.at /\ m.of = e.of /\ m.units = e.units
      /\ m.reference = e.reference
  BY <1>1 DEF EntryShape
<1>4. f \in EntryShape
  BY <1>2, EntryReplaced
<1>5. /\ f.to = to /\ f.from = m.from /\ f.kind = m.kind /\ f.at = m.at /\ f.of = m.of
      /\ f.units = m.units /\ f.reference = m.reference
  BY <1>2 DEF EntryShape
<1> QED BY <1>3, <1>4, <1>5

Begun(row, pc, e) == [row EXCEPT !.pc = pc, !.entry = e]
BoundTo(row, pc, e, b) == [row EXCEPT !.pc = pc, !.entry = e, !.binding = b]
Compiled(row, pc, e, names, units) ==
    [row EXCEPT !.pc = pc, !.entry = e, !.names = names, !.units = units]
Measured(row, pc, units) == [row EXCEPT !.pc = pc, !.units = units]

\* The row of an intent that is begun, of one that also has a binding, of one that is compiled,
\* and of one whose balance was read.
LEMMA RowBegun ==
  ASSUME NEW pc, NEW e, NEW b, NEW names, NEW units, NEW pc2, NEW e2,
         NEW row, row = Row(pc, e, b, names, units)
  PROVE  Begun(row, pc2, e2) = Row(pc2, e2, b, names, units)
<1> DEFINE Shape == [pc : {pc, pc2}, entry : {e, e2}, binding : {b}, names : {names}, units : {units}]
<1>1. row \in Shape
  BY DEF Row
<1>2. PICK one \in Shape : one = [row EXCEPT !.pc = pc2]
  BY <1>1
<1>3. one = Row(pc2, e, b, names, units)
  BY <1>2 DEF Row
<1>4. [one EXCEPT !.entry = e2] = Row(pc2, e2, b, names, units)
  BY <1>3 DEF Row
<1> QED BY <1>1, <1>2, <1>4 DEF Begun

\* An intent keeps its shape when its names are bound to accounts,
LEMMA RowBound ==
  ASSUME NEW pc, NEW e, NEW b, NEW names, NEW units, NEW pc2, NEW e2, NEW b2,
         NEW row, row = Row(pc, e, b, names, units)
  PROVE  BoundTo(row, pc2, e2, b2) = Row(pc2, e2, b2, names, units)
<1> DEFINE Shape == [pc : {pc, pc2}, entry : {e, e2}, binding : {b, b2}, names : {names},
                     units : {units}]
<1>1. row \in Shape
  BY DEF Row
<1>2. PICK one \in Shape : one = [row EXCEPT !.pc = pc2, !.entry = e2]
  BY <1>1
<1>3. one = Row(pc2, e2, b, names, units)
  <2>1. Begun(row, pc2, e2) = Row(pc2, e2, b, names, units)
    BY RowBegun
  <2> QED BY <1>2, <2>1 DEF Begun
<1>4. [one EXCEPT !.binding = b2] = Row(pc2, e2, b2, names, units)
  BY <1>3 DEF Row
<1> QED BY <1>1, <1>2, <1>4 DEF BoundTo

\* when its postings are compiled,
LEMMA RowCompiled ==
  ASSUME NEW pc, NEW e, NEW b, NEW names, NEW units, NEW pc2, NEW e2, NEW names2, NEW units2,
         NEW row, row = Row(pc, e, b, names, units)
  PROVE  Compiled(row, pc2, e2, names2, units2)
           = Row(pc2, e2, b, names2, units2)
<1> DEFINE Shape == [pc : {pc, pc2}, entry : {e, e2}, binding : {b}, names : {names, names2},
                     units : {units, units2}]
<1>1. row \in Shape
  BY DEF Row
<1>2. PICK one \in Shape : one = [row EXCEPT !.pc = pc2, !.entry = e2]
  BY <1>1
<1>3. one = Row(pc2, e2, b, names, units)
  <2>1. Begun(row, pc2, e2) = Row(pc2, e2, b, names, units)
    BY RowBegun
  <2> QED BY <1>2, <2>1 DEF Begun
<1>4. PICK two \in Shape : two = [one EXCEPT !.names = names2]
  OBVIOUS
<1>5. two = Row(pc2, e2, b, names2, units)
  BY <1>3, <1>4 DEF Row
<1>6. [two EXCEPT !.units = units2] = Row(pc2, e2, b, names2, units2)
  BY <1>5 DEF Row
<1> QED BY <1>1, <1>2, <1>4, <1>6 DEF Compiled

\* and when the balance of an adjustment is read.
LEMMA RowMeasured ==
  ASSUME NEW pc, NEW e, NEW b, NEW names, NEW units, NEW pc2, NEW units2,
         NEW row, row = Row(pc, e, b, names, units)
  PROVE  Measured(row, pc2, units2) = Row(pc2, e, b, names, units2)
<1> DEFINE Shape == [pc : {pc, pc2}, entry : {e}, binding : {b}, names : {names},
                     units : {units, units2}]
<1>1. row \in Shape
  BY DEF Row
<1>2. PICK one \in Shape : one = [row EXCEPT !.pc = pc2]
  BY <1>1
<1>3. one = Row(pc2, e, b, names, units)
  BY <1>2 DEF Row
<1>4. [one EXCEPT !.units = units2] = Row(pc2, e, b, names, units2)
  BY <1>3 DEF Row
<1> QED BY <1>1, <1>2, <1>4 DEF Measured

\* _resolve_payment_instrument_source
LEMMA BeginKeepsEInv ==
  ASSUME EInv, NEW i \in Intents, NEW e \in Entries, PrepareBegin(i, e)
  PROVE  EInv'
<1>0. e \in EntryShape /\ UNCHANGED <<catalog, balance, posted, committed>>
  BY EntriesAssumption DEF PrepareBegin
<1>1. PICK pc, c, units, f, names :
        /\ pc \in Phases /\ c \in Requests \cup {None} /\ units \in Int
        /\ intent[i] = Row(pc, f, c, names, units)
        /\ pc = "absent" => c = None
  BY RowOf
<1>2. pc = "absent" /\ c = None /\ intent[i].pc # "consumed"
  <2>1. intent[i].pc = "absent"
    BY DEF PrepareBegin
  <2>2. intent[i].pc = pc
    BY <1>1 DEF Row
  <2> QED BY <1>1, <2>1, <2>2
<1>3. "begun" \in Phases \ {"absent", "consumed"}
  BY DEF Phases
<1>4. intent = [k \in Intents |-> intent[k]]
  BY DEF EInv, EntryTypeOK
<1>5. CASE e.via = None
  <2>1. intent' = [intent EXCEPT ![i].pc = "begun", ![i].entry = e]
    BY <1>5 DEF PrepareBegin
  <2>2. intent' = [k \in Intents |-> IF k = i THEN Row("begun", e, None, names, units) ELSE intent[k]]
    <3>1. PICK row : row = intent[i] /\ row = Row("absent", f, None, names, units)
      BY <1>1, <1>2
    <3>2. intent' = [intent EXCEPT ![i] = [row EXCEPT !.pc = "begun", !.entry = e]]
      BY <2>1, <3>1, <1>4
    <3>3. [row EXCEPT !.pc = "begun", !.entry = e] = Row("begun", e, None, names, units)
      <4>1. Begun(row, "begun", e) = Row("begun", e, None, names, units)
        BY <3>1, RowBegun
      <4> QED BY <4>1 DEF Begun
    <3> QED BY <1>4, <3>2, <3>3
  <2>3. AskedFor(e, None)
    BY EntriesAssumption DEF AskedFor
  <2> QED BY <1>0, <1>1, <1>2, <1>3, <2>2, <2>3, IntentStepKeepsEInv
<1>6. CASE e.via # None
  <2>1. PICK b \in DOMAIN binding :
          /\ Resolves(e.via, e.at, b)
          /\ intent' = [intent EXCEPT ![i] =
               [@ EXCEPT !.pc = "begun", !.entry = Settled(e, b), !.binding = b]]
    BY <1>6 DEF PrepareBegin
  <2>2. b \in Requests /\ binding[b].status = "active"
    <3>1. b \in Rows(e.via, e.at)
      BY <2>1 DEF Resolves
    <3> QED BY <3>1 DEF Rows, EInv, IInv, CatalogTypeOK
  <2>3. binding[b].of \in Instruments /\ binding[b].of # None
    BY <2>2, InstrumentsAssumption DEF EInv, IInv, ForceOK
  <2>4. binding[b].account \in Accounts
    BY <2>2, <2>3 DEF EInv, BoundRow
  <2>5. PICK a \in Accounts : a = binding[b].account
    BY <2>4
  <2>6. e.kind \in {"expense", "payment"}
    BY <1>6, EntriesAssumption
  <2>7. PICK g : g = Settled(e, b)
    OBVIOUS
  <2>8. g \in EntryShape
    BY <1>0, <2>5, <2>7, EntryReplaced DEF Settled
  <2>9. AskedFor(g, b)
    <3>1. CASE e.kind = "payment"
      <4>1. g = [e EXCEPT !.to = a]
        BY <2>5, <2>7, <3>1 DEF Settled
      <4>2. g.kind = "payment" /\ g.to = a
        BY <1>0, <3>1, <4>1 DEF EntryShape
      <4> QED BY <2>3, <2>5, <4>2 DEF AskedFor
    <3>2. CASE e.kind = "expense"
      <4>1. g = [e EXCEPT !.from = a]
        BY <2>5, <2>7, <3>2 DEF Settled
      <4>2. g.kind = "expense" /\ g.from = a
        BY <1>0, <3>2, <4>1 DEF EntryShape
      <4> QED BY <2>3, <2>5, <4>2 DEF AskedFor
    <3> QED BY <2>6, <3>1, <3>2
  <2>10. intent' = [k \in Intents |-> IF k = i THEN Row("begun", g, b, names, units) ELSE intent[k]]
    <3>1. PICK row : row = intent[i] /\ row = Row("absent", f, None, names, units)
      BY <1>1, <1>2
    <3>2. intent' = [intent EXCEPT ![i] = [row EXCEPT !.pc = "begun", !.entry = g, !.binding = b]]
      BY <2>1, <2>7, <3>1, <1>4
    <3>3. [row EXCEPT !.pc = "begun", !.entry = g, !.binding = b] = Row("begun", g, b, names, units)
      <4>1. BoundTo(row, "begun", g, b) = Row("begun", g, b, names, units)
        BY <3>1, RowBound
      <4> QED BY <4>1 DEF BoundTo
    <3> QED BY <1>4, <3>2, <3>3
  <2> QED BY <1>0, <1>1, <1>2, <1>3, <2>2, <2>8, <2>9, <2>10, IntentStepKeepsEInv
<1> QED BY <1>5, <1>6

\* A reference that is not a name means itself, and a name means an account.
LEMMA MeansAccount ==
  ASSUME NEW ref, NEW a, NEW kinds, Means(ref, a, kinds)
  PROVE  (ref \notin Names => a = ref) /\ (ref \in Names => a \in Accounts)
BY DEF Means

\* The accounts that are found are those that were asked for.
LEMMA FoundAsAsked ==
  ASSUME EInv, NEW e \in EntryShape, NEW b \in Requests \cup {None}, AskedFor(e, b),
         NEW from \in Accounts \cup {None}, NEW to \in Accounts \cup {None},
         Means(e.from, from, SourceKinds(e)),
         e.kind # "refund" => Means(e.to, to, TargetKinds(e)),
         NEW f, f.kind = e.kind, f.from = from, f.to = to
  PROVE  AskedFor(f, b)
<1>1. (e.from \notin Names => from = e.from) /\ (e.from \in Names => from \in Accounts)
  BY MeansAccount
<1>2. e.kind # "refund" => (e.to \notin Names => to = e.to) /\ (e.to \in Names => to \in Accounts)
  BY MeansAccount
<1>3. None \notin Names /\ None \notin Accounts
  BY InstrumentsAssumption
<1>4. e.kind = "adjustment" => from = None /\ to # None
  BY <1>1, <1>2, <1>3 DEF AskedFor
<1>5. ASSUME b # None
      PROVE  /\ binding[b].of # None
             /\ \/ e.kind = "payment" /\ to = binding[b].account
                \/ e.kind = "expense" /\ from = binding[b].account
  <2>1. binding[b].of # None /\ b \in Requests
    BY <1>5 DEF AskedFor
  <2>2. binding[b].account \in Accounts
    BY <2>1 DEF EInv, BoundRow
  <2>3. binding[b].account \notin Names
    BY <2>2, EntriesAssumption
  <2> QED BY <1>1, <1>2, <1>5, <2>1, <2>3 DEF AskedFor
<1> QED BY <1>4, <1>5 DEF AskedFor

\* load_compilation_context
LEMMA FindKeepsEInv ==
  ASSUME EInv, NEW i \in Intents, PrepareCatalog(i)
  PROVE  EInv'
<1>0. UNCHANGED <<catalog, balance, posted, committed>>
  BY DEF PrepareCatalog
<1>1. PICK pc, b, n, e, names :
        /\ pc \in Phases /\ b \in Requests \cup {None} /\ n \in Int
        /\ intent[i] = Row(pc, e, b, names, n)
        /\ pc # "absent" => e \in EntryShape /\ AskedFor(e, b)
  BY RowOf
<1>2. intent[i].entry = e /\ intent[i].pc = pc
  BY <1>1 DEF Row
<1>3. intent[i].pc = "begun"
  BY DEF PrepareCatalog
<1>4. e \in EntryShape /\ AskedFor(e, b)
  BY <1>1, <1>2, <1>3
<1>5. PICK from \in Accounts \cup {None}, to \in Accounts \cup {None} :
        /\ Means(e.from, from, SourceKinds(e))
        /\ e.kind # "refund" => Means(e.to, to, TargetKinds(e))
        /\ from # to
        /\ LET f == [e EXCEPT !.from = from, !.to = to] IN
           intent' = [intent EXCEPT ![i] =
             [@ EXCEPT !.pc = IF e.kind = "adjustment" THEN "measuring" ELSE "compiled",
                       !.entry = f, !.names = PreviewNames(f), !.units = e.units]]
  BY <1>2 DEF PrepareCatalog
<1>6. PICK f :
        /\ f = [e EXCEPT !.from = from, !.to = to]
        /\ intent' = [intent EXCEPT ![i] =
             [@ EXCEPT !.pc = IF e.kind = "adjustment" THEN "measuring" ELSE "compiled",
                       !.entry = f, !.names = PreviewNames(f), !.units = e.units]]
  BY <1>5
<1>7. /\ f \in EntryShape /\ f.from = from /\ f.to = to /\ f.kind = e.kind
  <2>1. f = Redirected(e, from, to)
    BY <1>6 DEF Redirected
  <2> QED BY <1>4, <2>1, PartiesReplaced
<1>8. AskedFor(f, b)
  BY <1>1, <1>4, <1>5, <1>7, FoundAsAsked
<1>9. Resolved(f)
  BY <1>5, <1>7 DEF Resolved
<1>10. PICK p : p = IF e.kind = "adjustment" THEN "measuring" ELSE "compiled"
  OBVIOUS
<1>11. p \in Phases \ {"absent", "consumed"}
  BY <1>10 DEF Phases
<1>12. PICK shown : shown = PreviewNames(f)
  OBVIOUS
<1>13. PICK m \in Int : m = e.units
  BY <1>4 DEF EntryShape
<1>14. intent' = [k \in Intents |-> IF k = i THEN Row(p, f, b, shown, m) ELSE intent[k]]
  <2>1. intent = [k \in Intents |-> intent[k]]
    BY DEF EInv, EntryTypeOK
  <2>2. PICK row : row = intent[i] /\ row = Row(pc, e, b, names, n)
    BY <1>1
  <2>3. intent' = [intent EXCEPT ![i] = [row EXCEPT !.pc = p, !.entry = f, !.names = shown, !.units = m]]
    BY <1>6, <1>10, <1>12, <1>13, <2>1, <2>2
  <2>4. Compiled(row, p, f, shown, m) = Row(p, f, b, shown, m)
    BY <2>2, RowCompiled
  <2>5. intent' = [intent EXCEPT ![i] = Row(p, f, b, shown, m)]
    BY <2>3, <2>4 DEF Compiled
  <2> QED BY <2>1, <2>5
<1> QED BY <1>0, <1>1, <1>3, <1>7, <1>8, <1>9, <1>11, <1>13, <1>14, IntentStepKeepsEInv

\* The amount of an entry whose accounts are resolved is a number.
LEMMA AmountIsInt ==
  ASSUME EInv, NEW e \in EntryShape, NEW b, AskedFor(e, b), Resolved(e)
  PROVE  AmountOf(e) \in Int
<1>1. e.units \in Int
  BY DEF EntryShape
<1>2. CASE e.kind = "adjustment"
  <2>1. e.to \in Accounts
    BY <1>2 DEF AskedFor, Resolved
  <2>2. balance[e.to] \in Int
    BY <2>1 DEF EInv, EntryTypeOK
  <2>3. PICK m \in Int, n \in Int : m = e.units /\ n = balance[e.to]
    BY <1>1, <2>2
  <2>4. Magnitude(m - n) \in Int
    BY DEF Magnitude
  <2> QED BY <1>2, <2>3, <2>4 DEF AmountOf
<1>3. CASE e.kind # "adjustment"
  BY <1>1, <1>3 DEF AmountOf
<1> QED BY <1>2, <1>3

\* account_balances, in a statement of its own
LEMMA MeasureKeepsEInv ==
  ASSUME EInv, NEW i \in Intents, PrepareBalance(i)
  PROVE  EInv'
<1>0. UNCHANGED <<catalog, balance, posted, committed>>
  BY DEF PrepareBalance
<1>1. PICK pc, b, n, e, names :
        /\ pc \in Phases /\ b \in Requests \cup {None} /\ n \in Int
        /\ intent[i] = Row(pc, e, b, names, n)
        /\ pc # "absent" => e \in EntryShape /\ AskedFor(e, b)
        /\ pc \notin {"absent", "begun"} => Resolved(e)
  BY RowOf
<1>2. intent[i].entry = e /\ intent[i].pc = pc
  BY <1>1 DEF Row
<1>3. intent[i].pc = "measuring"
  BY DEF PrepareBalance
<1>4. e \in EntryShape /\ AskedFor(e, b) /\ Resolved(e)
  BY <1>1, <1>2, <1>3
<1>5. PICK m \in Int : m = AmountOf(e)
  BY <1>4, AmountIsInt
<1>6. "compiled" \in Phases \ {"absent", "consumed"}
  BY DEF Phases
<1>7. intent' = [k \in Intents |-> IF k = i THEN Row("compiled", e, b, names, m) ELSE intent[k]]
  <2>1. intent = [k \in Intents |-> intent[k]]
    BY DEF EInv, EntryTypeOK
  <2>2. PICK row : row = intent[i] /\ row = Row(pc, e, b, names, n)
    BY <1>1
  <2>3. intent' = [intent EXCEPT ![i] = [row EXCEPT !.pc = "compiled", !.units = m]]
    BY <1>2, <1>5, <2>1, <2>2 DEF PrepareBalance
  <2>4. Measured(row, "compiled", m) = Row("compiled", e, b, names, m)
    BY <2>2, RowMeasured
  <2>5. intent' = [intent EXCEPT ![i] = Row("compiled", e, b, names, m)]
    BY <2>3, <2>4 DEF Measured
  <2> QED BY <2>1, <2>5
<1> QED BY <1>0, <1>1, <1>3, <1>4, <1>6, <1>7, IntentStepKeepsEInv

Moves(i, p) == intent' = [intent EXCEPT ![i].pc = p]

\* An intent that is stored or lapses.
LEMMA MoveKeepsEInv ==
  ASSUME EInv, NEW i \in Intents, NEW p \in Phases \ {"absent", "begun", "consumed"},
         intent[i].pc \notin {"absent", "begun", "consumed"},
         Moves(i, p),
         UNCHANGED <<catalog, balance, posted, committed>>
  PROVE  EInv'
<1>1. PICK pc, b, n, e, names :
        /\ pc \in Phases /\ b \in Requests \cup {None} /\ n \in Int
        /\ intent[i] = Row(pc, e, b, names, n)
        /\ pc # "absent" => e \in EntryShape /\ AskedFor(e, b)
        /\ pc \notin {"absent", "begun"} => Resolved(e)
  BY RowOf
<1>2. intent[i].pc = pc
  BY <1>1 DEF Row
<1>3. e \in EntryShape /\ AskedFor(e, b) /\ Resolved(e)
  BY <1>1, <1>2
<1>4. intent' = [k \in Intents |-> IF k = i THEN Row(p, e, b, names, n) ELSE intent[k]]
  <2>1. intent = [k \in Intents |-> intent[k]]
    BY DEF EInv, EntryTypeOK
  <2>2. PICK row : row = intent[i] /\ row = Row(pc, e, b, names, n)
    BY <1>1
  <2>3. intent' = [intent EXCEPT ![i] = [row EXCEPT !.pc = p]]
    BY <2>1, <2>2 DEF Moves
  <2>4. [row EXCEPT !.pc = p] = Row(p, e, b, names, n)
    BY <2>2 DEF Row
  <2> QED BY <2>1, <2>3, <2>4
<1>5. p \in Phases \ {"absent", "consumed"} /\ intent[i].pc # "consumed"
  OBVIOUS
<1>6. UNCHANGED <<catalog, balance, posted, committed>>
  OBVIOUS
<1> HIDE DEF Row
<1> QED BY <1>1, <1>3, <1>4, <1>5, <1>6, IntentStepKeepsEInv

\* Storing an intent, and losing it.
LEMMA StoreKeepsEInv ==
  ASSUME EInv, NEW i \in Intents, PrepareStore(i) \/ Lapse(i)
  PROVE  EInv'
<1>1. CASE PrepareStore(i)
  <2>1. PICK p : p = IF Duplicates(i) = {} THEN "ready" ELSE "suspected"
    OBVIOUS
  <2>2. p \in Phases \ {"absent", "begun", "consumed"}
    BY <2>1 DEF Phases
  <2>3. /\ intent[i].pc = "compiled" /\ Moves(i, p)
        /\ UNCHANGED <<catalog, balance, posted, committed>>
    BY <1>1, <2>1 DEF PrepareStore, Moves
  <2> QED BY <2>2, <2>3, MoveKeepsEInv
<1>2. CASE Lapse(i)
  <2>1. "lapsed" \in Phases \ {"absent", "begun", "consumed"}
    BY DEF Phases
  <2> QED BY <1>2, <2>1, MoveKeepsEInv DEF Lapse, Moves
<1> QED BY <1>1, <1>2

-----------------------------------------------------------------------------
(* Commit *)

\* The postings of an entry are numbers.
LEMMA EffectIsInt ==
  ASSUME EInv, NEW e \in EntryShape
  PROVE  Effect(e) \in [Accounts -> Int]
<1>1. PICK u \in Int : u = e.units
  BY DEF EntryShape
<1>2. ASSUME NEW a \in Accounts PROVE Effect(e)[a] \in Int
  <2>1. PICK v \in Int : v = balance[a]
    BY DEF EInv, EntryTypeOK
  <2>2. PICK w \in Int : w = IF e.kind = "adjustment" THEN v ELSE 0
    <3>1. (IF e.kind = "adjustment" THEN v ELSE 0) \in Int
      OBVIOUS
    <3> QED BY <3>1
  <2>3. PICK debit \in Int : debit = IF a = e.to THEN u - w ELSE 0
    <3>1. (IF a = e.to THEN u - w ELSE 0) \in Int
      OBVIOUS
    <3> QED BY <3>1
  <2>4. PICK credit \in Int : credit = IF a = e.from THEN u ELSE 0
    <3>1. (IF a = e.from THEN u ELSE 0) \in Int
      OBVIOUS
    <3> QED BY <3>1
  <2>5. Effect(e)[a] = debit - credit
    BY <1>1, <2>1, <2>2, <2>3, <2>4 DEF Effect
  <2> QED BY <2>5
<1> QED BY <1>2 DEF Effect

\* The row of a committed intent, and what it was.
LEMMA CommitRow ==
  ASSUME EInv, NEW r \in CommitRequests, NEW i \in Intents, Commit(r, i)
  PROVE  \E b \in Requests \cup {None}, n \in Int, e \in EntryShape : \E names :
           /\ intent[i] = Row("ready", e, b, names, n)
           /\ intent' = [k \in Intents |-> IF k = i THEN Row("consumed", e, b, names, n) ELSE intent[k]]
           /\ AskedFor(e, b) /\ Resolved(e)
<1>1. PICK pc, b, n, e, names :
        /\ pc \in Phases /\ b \in Requests \cup {None} /\ n \in Int
        /\ intent[i] = Row(pc, e, b, names, n)
        /\ pc # "absent" => e \in EntryShape /\ AskedFor(e, b)
        /\ pc \notin {"absent", "begun"} => Resolved(e)
  BY RowOf
<1>2. pc = "ready"
  <2>1. intent[i].pc = "ready"
    BY DEF Commit, Claimable
  <2>2. intent[i].pc = pc
    BY <1>1 DEF Row
  <2> QED BY <2>1, <2>2
<1>3. intent' = [k \in Intents |-> IF k = i THEN Row("consumed", e, b, names, n) ELSE intent[k]]
  <2>1. intent = [k \in Intents |-> intent[k]]
    BY DEF EInv, EntryTypeOK
  <2>2. PICK row : row = intent[i] /\ row = Row(pc, e, b, names, n)
    BY <1>1
  <2>3. intent' = [intent EXCEPT ![i].pc = "consumed"]
    BY DEF Commit
  <2>4. intent' = [intent EXCEPT ![i] = [row EXCEPT !.pc = "consumed"]]
    BY <2>1, <2>2, <2>3
  <2>5. [row EXCEPT !.pc = "consumed"] = Row("consumed", e, b, names, n)
    BY <2>2 DEF Row
  <2> QED BY <2>1, <2>4, <2>5
<1> QED BY <1>1, <1>2, <1>3

\* What a commit writes.
LEMMA CommitWrites ==
  ASSUME EInv, NEW r \in CommitRequests, NEW i \in Intents, Commit(r, i)
  PROVE  /\ intent[i].pc = "ready" /\ intent'[i].pc = "consumed" /\ SameIntent(i)
         /\ \A k \in Intents \ {i} : intent'[k] = intent[k] /\ posted'[k] = posted[k]
         /\ Consumed' = Consumed \cup {i} /\ i \notin Consumed
         /\ posted'[i] = [at |-> now, effect |-> Effect(intent[i].entry)]
<1>1. PICK b, n, e, names :
        /\ b \in Requests \cup {None} /\ n \in Int /\ e \in EntryShape
        /\ intent[i] = Row("ready", e, b, names, n)
        /\ intent' = [k \in Intents |-> IF k = i THEN Row("consumed", e, b, names, n) ELSE intent[k]]
  BY CommitRow
<1>2. /\ intent'[i] = Row("consumed", e, b, names, n)
      /\ \A k \in Intents \ {i} : intent'[k] = intent[k]
  BY <1>1
<1>3. intent[i].pc = "ready" /\ intent'[i].pc = "consumed" /\ SameIntent(i)
  BY <1>1, <1>2 DEF Row, SameIntent
<1>4. Consumed' = Consumed \cup {i} /\ i \notin Consumed
  BY <1>2, <1>3 DEF Consumed
<1>5. posted' = [posted EXCEPT ![i] = [at |-> now, effect |-> Effect(intent[i].entry)]]
  BY DEF Commit
<1>6. posted \in [Intents -> [at : Nat, effect : [Accounts -> Int]]]
  BY DEF EInv, EntryTypeOK
<1>7. /\ posted'[i] = [at |-> now, effect |-> Effect(intent[i].entry)]
      /\ \A k \in Intents \ {i} : posted'[k] = posted[k]
  BY <1>5, <1>6
<1> QED BY <1>2, <1>3, <1>4, <1>7

\* The rows keep their shapes.
LEMMA CommitKeepsTypes ==
  ASSUME EInv, NEW r \in CommitRequests, NEW i \in Intents, Commit(r, i)
  PROVE  EntryTypeOK'
<1>1. PICK b, n, e, names :
        /\ b \in Requests \cup {None} /\ n \in Int /\ e \in EntryShape
        /\ intent[i] = Row("ready", e, b, names, n)
        /\ intent' = [k \in Intents |-> IF k = i THEN Row("consumed", e, b, names, n) ELSE intent[k]]
  BY CommitRow
<1>2. /\ intent'[i] = Row("consumed", e, b, names, n)
      /\ \A k \in Intents \ {i} : intent'[k] = intent[k]
  BY <1>1
<1>3. ASSUME NEW k \in Intents
      PROVE  /\ intent'[k] = Row(intent'[k].pc, intent'[k].entry, intent'[k].binding,
                                 intent'[k].names, intent'[k].units)
             /\ intent'[k].pc \in Phases
             /\ intent'[k].binding \in Requests \cup {None}
             /\ intent'[k].units \in Int
             /\ intent'[k].pc # "absent" => intent'[k].entry \in EntryShape
  <2>1. CASE k = i
    BY <1>1, <1>2, <2>1 DEF Row, Phases
  <2>2. CASE k # i
    BY <1>2, <2>2 DEF EInv, EntryTypeOK, Row
  <2> QED BY <2>1, <2>2
<1>4. PICK effect \in [Accounts -> Int] : effect = Effect(e)
  BY <1>1, EffectIsInt
<1>5. intent[i].entry = e
  BY <1>1 DEF Row
<1>6. posted' \in [Intents -> [at : Nat, effect : [Accounts -> Int]]]
  <2>1. now \in Nat
    BY InstrumentsAssumption DEF EInv, IInv, CatalogTypeOK, Times
  <2>2. PICK row : row = [at |-> now, effect |-> effect]
    OBVIOUS
  <2>3. row \in [at : Nat, effect : [Accounts -> Int]]
    BY <2>1, <2>2
  <2>4. posted' = [posted EXCEPT ![i] = row]
    BY <1>4, <1>5, <2>2 DEF Commit
  <2> QED BY <2>3, <2>4 DEF EInv, EntryTypeOK
<1>7. balance' \in [Accounts -> Int]
  <2>1. balance' = [a \in Accounts |-> balance[a] + effect[a]]
    BY <1>4, <1>5 DEF Commit
  <2>2. \A a \in Accounts : balance[a] \in Int /\ effect[a] \in Int
    BY DEF EInv, EntryTypeOK
  <2> QED BY <2>1, <2>2
<1>8. committed' \in [CommitRequests -> Intents \cup {None}]
  BY DEF Commit, EInv, EntryTypeOK
<1>9. intent' = [k \in Intents |-> intent'[k]]
  BY <1>1
<1> QED BY <1>3, <1>6, <1>7, <1>8, <1>9 DEF EntryTypeOK, Row

\* A committed intent has the receipt of the request that committed it, and no other.
LEMMA CommitReceipts ==
  ASSUME EInv, NEW r \in CommitRequests, NEW i \in Intents, Commit(r, i), NEW k \in Intents
  PROVE  ReceiptOK(k)'
<1>1. committed \in [CommitRequests -> Intents \cup {None}] /\ ReceiptOK(k)
  BY DEF EInv, EntryTypeOK
<1>2. committed[r] = None /\ committed' = [committed EXCEPT ![r] = i]
  BY DEF Commit
<1>3. Consumed' = Consumed \cup {i} /\ i \notin Consumed
  BY CommitWrites
<1>4. CASE k = i
  <2>1. ReceiptsOf(i) = {}
    BY <1>1, <1>3, <1>4 DEF ReceiptOK
  <2>2. ReceiptsOf(i)' = {r}
    BY <1>1, <1>2, <2>1 DEF ReceiptsOf
  <2> QED BY <1>3, <1>4, <2>2 DEF ReceiptOK
<1>5. CASE k # i
  <2>1. ReceiptsOf(k)' = ReceiptsOf(k)
    BY <1>1, <1>2, <1>5, EntriesAssumption DEF ReceiptsOf
  <2> QED BY <1>1, <1>3, <1>5, <2>1 DEF ReceiptOK
<1> QED BY <1>4, <1>5

\* A committed intent differs from those that were committed before it.
LEMMA CommitDiffers ==
  ASSUME EInv, NEW r \in CommitRequests, NEW i \in Intents, Commit(r, i), BindingsStand,
         NEW j \in Consumed
  PROVE  Differ(i, j)' /\ Differ(j, i)'
<1>1. j \in Intents /\ j # i /\ intent[j].pc # "absent" /\ intent'[j] = intent[j] /\ posted'[j] = posted[j]
  BY CommitWrites DEF Consumed
<1>2. intent[i].pc # "absent" /\ SameIntent(i)
  BY CommitWrites
<1>3. PICK fi, fj, ri, rj :
        /\ fi = Fingerprint(i) /\ fj = Fingerprint(j)
        /\ ri = Reference(i) /\ rj = Reference(j)
  OBVIOUS
<1>4. Fingerprint(i)' = fi /\ Reference(i)' = ri
  BY <1>2, <1>3, MarksStay
<1>5. Fingerprint(j)' = fj /\ Reference(j)' = rj
  BY <1>1, <1>3, MarksStay DEF SameIntent
<1>6. j \notin Duplicates(i)
  BY DEF Commit, StillDuplicates
<1>7. /\ ~(ri # None /\ rj = ri)
      /\ ~(fj = fi /\ posted[j].at >= intent[i].entry.at - Window)
  BY <1>1, <1>3, <1>6 DEF Duplicates
<1>8. ASSUME fi = fj PROVE posted'[j].at < intent'[j].entry.at - Window
  <2>1. fi.at = intent[i].entry.at /\ fj.at = intent[j].entry.at
    BY <1>3 DEF Fingerprint
  <2>2. intent[j].entry.at = intent[i].entry.at
    BY <1>8, <2>1
  <2>3. posted[j].at \in Nat
    BY <1>1 DEF EInv, EntryTypeOK
  <2>4. intent[i].entry \in EntryShape
    BY <1>2 DEF EInv, EntryTypeOK
  <2>5. PICK p \in Nat, t \in Nat, w \in Nat : p = posted[j].at /\ t = intent[i].entry.at /\ w = Window
    BY <2>3, <2>4, EntriesAssumption DEF EntryShape
  <2>6. ~(p >= t - w)
    BY <1>7, <1>8, <2>5
  <2>7. p < t - w
    BY <2>6
  <2> QED BY <1>1, <2>2, <2>5, <2>7
<1>9. (Fingerprint(i) = Fingerprint(j) => \E k \in {i, j} : posted[k].at < intent[k].entry.at - Window)'
  BY <1>4, <1>5, <1>8
<1>10. (Fingerprint(j) = Fingerprint(i) => \E k \in {j, i} : posted[k].at < intent[k].entry.at - Window)'
  BY <1>4, <1>5, <1>8
<1>11. /\ (Reference(i) # None => Reference(j) # Reference(i))'
       /\ (Reference(j) # None => Reference(i) # Reference(j))'
  BY <1>4, <1>5, <1>7
<1> QED BY <1>9, <1>10, <1>11 DEF Differ

\* Balances gain the entry of the committed intent.
LEMMA CommitBooks ==
  ASSUME EInv, NEW r \in CommitRequests, NEW i \in Intents, Commit(r, i), NEW a \in Accounts
  PROVE  balance'[a] = Booked(posted', Consumed', a)
<1>1. PICK rows, more, S : rows = posted /\ more = posted' /\ S = Consumed
  OBVIOUS
<1>2. i \notin S /\ Consumed' = S \cup {i} /\ \A x \in S : more[x] = rows[x]
  BY <1>1, CommitWrites DEF Consumed
<1>3. Integral(rows, S, a)
  <2>1. IsFiniteSet(S)
    BY <1>1 DEF EInv
  <2>2. \A x \in S : rows[x].effect[a] \in Int
    BY <1>1 DEF EInv, EntryTypeOK, Consumed
  <2> QED BY <2>1, <2>2 DEF Integral
<1>4. PICK n : n = Effect(intent[i].entry)[a]
  OBVIOUS
<1>5. more[i].effect[a] = n
  <2>1. PICK row : row = posted'[i] /\ row = [at |-> now, effect |-> Effect(intent[i].entry)]
    BY CommitWrites
  <2>2. row.effect[a] = n
    BY <1>4, <2>1
  <2> QED BY <1>1, <2>1, <2>2
<1>6. n \in Int
  <2>1. intent[i].entry \in EntryShape
    BY CommitWrites DEF EInv, EntryTypeOK
  <2> QED BY <1>4, <2>1, EffectIsInt
<1>7. Booked(more, S \cup {i}, a) = Booked(rows, S, a) + n
  <2>1. i \notin S /\ \A x \in S : more[x] = rows[x]
    BY <1>2
  <2>2. more[i].effect[a] \in Int
    BY <1>5, <1>6
  <2>3. Booked(more, S \cup {i}, a) = Booked(rows, S, a) + more[i].effect[a]
    BY <1>3, <2>1, <2>2, BookedAdds
  <2> QED BY <1>5, <2>3
<1>8. balance'[a] = balance[a] + n
  BY <1>4 DEF Commit
<1>9. balance[a] = Booked(rows, S, a)
  BY <1>1 DEF EInv
<1> QED BY <1>1, <1>2, <1>7, <1>8, <1>9

\* _build_commit_plan, the append, the projection and _entry_finalizer.
LEMMA CommitKeepsEInv ==
  ASSUME EInv, NEW r \in CommitRequests, NEW i \in Intents, Commit(r, i)
  PROVE  EInv'
<1>1. IInv' /\ (\A c \in Requests : BoundRow(c)') /\ BindingsStand
  BY CatalogStays DEF Commit
<1>2. EntryTypeOK'
  BY CommitKeepsTypes
<1>3. ASSUME NEW k \in Intents PROVE IntentOK(k)' /\ ReceiptOK(k)'
  <2>1. ReceiptOK(k)'
    BY CommitReceipts
  <2>2. PICK f, c : f = intent[k].entry /\ c = intent[k].binding
    OBVIOUS
  <2>3. /\ intent'[k].entry = f /\ intent'[k].binding = c
        /\ k # i => intent'[k] = intent[k]
        /\ intent[i].pc = "ready" /\ intent'[i].pc = "consumed"
    BY <2>2, CommitWrites DEF SameIntent
  <2>4. c \in Requests \cup {None} /\ IntentOK(k)
    BY <2>2 DEF EInv, EntryTypeOK
  <2>5. AskedFor(f, c) => AskedFor(f, c)'
    BY <1>1, <2>4, AskedForStays
  <2> QED BY <2>1, <2>2, <2>3, <2>4, <2>5 DEF IntentOK, Resolved
<1>4. ASSUME NEW j \in Consumed', NEW k \in Consumed', j # k PROVE Differ(j, k)'
  <2>1. Consumed' = Consumed \cup {i} /\ i \notin Consumed
    BY CommitWrites
  <2>2. CASE j = i
    BY <1>1, <1>4, <2>1, <2>2, CommitDiffers
  <2>3. CASE k = i
    BY <1>1, <1>4, <2>1, <2>3, CommitDiffers
  <2>4. CASE j # i /\ k # i
    <3>1. j \in Consumed /\ k \in Consumed
      BY <2>1, <2>4
    <3>2. \A l \in {j, k} : intent'[l] = intent[l] /\ posted'[l] = posted[l]
      BY <2>4, <3>1, CommitWrites DEF Consumed
    <3> QED BY <1>1, <1>4, <3>1, <3>2, DifferencesStay
  <2> QED BY <2>2, <2>3, <2>4
<1>5. IsFiniteSet(Consumed)'
  <2>1. Consumed' = Consumed \cup {i} /\ IsFiniteSet(Consumed)
    BY CommitWrites DEF EInv
  <2> QED BY <2>1, FS_AddElement
<1>6. \A a \in Accounts : balance'[a] = Booked(posted', Consumed', a)
  BY CommitBooks
<1> QED BY <1>1, <1>2, <1>3, <1>4, <1>5, <1>6 DEF EInv

-----------------------------------------------------------------------------
(* The steps together *)

\* Nothing is prepared, booked or answered at first.
LEMMA InitEInv == Init => EInv
<1> SUFFICES ASSUME Init PROVE EInv
  OBVIOUS
<1>1. IInv
  BY InitIInv DEF Init
<1>2. ASSUME NEW b \in Requests PROVE BoundRow(b)
  BY <1>1 DEF Init, CatalogInit, BoundRow, Requests, NoBinding
<1>3. \A i \in Intents : intent[i] = Row("absent", NoEntry, None, <<>>, 0)
  BY DEF Init, NoIntent, Row
<1>4. EntryTypeOK
  <2>1. \A i \in Intents :
          /\ intent[i] = [pc |-> intent[i].pc, entry |-> intent[i].entry,
                          binding |-> intent[i].binding, names |-> intent[i].names,
                          units |-> intent[i].units]
          /\ intent[i].pc \in Phases
          /\ intent[i].binding \in Requests \cup {None}
          /\ intent[i].units \in Int
          /\ intent[i].pc # "absent" => intent[i].entry \in EntryShape
    BY <1>3 DEF Row, Phases
  <2>2. intent = [i \in Intents |-> intent[i]]
    BY DEF Init
  <2>3. /\ balance \in [Accounts -> Int] /\ committed \in [CommitRequests -> Intents \cup {None}]
        /\ posted \in [Intents -> [at : Nat, effect : [Accounts -> Int]]]
    BY DEF Init, NoPosting
  <2> QED BY <2>1, <2>2, <2>3 DEF EntryTypeOK
<1>5. Consumed = {}
  BY <1>3 DEF Consumed, Row
<1>6. ASSUME NEW i \in Intents PROVE IntentOK(i) /\ ReceiptOK(i)
  <2>1. ReceiptsOf(i) = {}
    BY EntriesAssumption DEF Init, ReceiptsOf
  <2> QED BY <1>3, <1>5, <2>1 DEF IntentOK, ReceiptOK, Row
<1>7. IsFiniteSet(Consumed)
  BY <1>5, FS_EmptySet
<1>8. \A a \in Accounts : balance[a] = Booked(posted, Consumed, a)
  BY <1>5, NothingBooked DEF Init
<1> QED BY <1>1, <1>2, <1>4, <1>5, <1>6, <1>7, <1>8 DEF EInv

\* Every step keeps the invariant.
LEMMA NextEInv == EInv /\ [Next]_vars => EInv'
<1> SUFFICES ASSUME EInv, [Next]_vars PROVE EInv'
  OBVIOUS
<1>1. CASE Catalog
  BY <1>1, CatalogKeepsEInv
<1>2. ASSUME NEW i \in Intents, NEW e \in Entries, PrepareBegin(i, e) PROVE EInv'
  BY <1>2, BeginKeepsEInv
<1>3. ASSUME NEW i \in Intents, PrepareCatalog(i) PROVE EInv'
  BY <1>3, FindKeepsEInv
<1>4. ASSUME NEW i \in Intents, PrepareBalance(i) PROVE EInv'
  BY <1>4, MeasureKeepsEInv
<1>5. ASSUME NEW i \in Intents, PrepareStore(i) \/ Lapse(i) PROVE EInv'
  BY <1>5, StoreKeepsEInv
<1>6. ASSUME NEW i \in Intents, NEW r \in CommitRequests, Commit(r, i) PROVE EInv'
  BY <1>6, CommitKeepsEInv
<1>7. CASE UNCHANGED vars
  <2>1. UNCHANGED catalog /\ UNCHANGED <<intent, balance, posted, committed>>
    BY <1>7 DEF vars
  <2>2. IInv' /\ (\A b \in Requests : BoundRow(b)') /\ BindingsStand
    BY <2>1, CatalogStays
  <2> QED BY <2>1, <2>2, CatalogStepKeepsEInv
<1> QED BY <1>1, <1>2, <1>3, <1>4, <1>5, <1>6, <1>7 DEF Next

\* The inductive invariant of prepare and commit (the handlers of the entries application).
THEOREM EntryInvariance == Spec => []EInv
<1>1. Init => EInv
  BY InitEInv
<1>2. EInv /\ [Next]_vars => EInv'
  BY NextEInv
<1> QED BY <1>1, <1>2, PTL DEF Spec

\* Intents, balances, postings and receipts have their shapes in every state.
THEOREM EntryTypeCorrect == Spec => []EntryTypeOK
<1>1. EInv => EntryTypeOK
  BY DEF EInv
<1> QED BY <1>1, EntryInvariance, PTL

\* Each purchase is booked once, through one intent, by one request, whatever the accounts and
\* the cards do meanwhile (_recheck_duplicates, claim_ready, insert_or_exact_get).
THEOREM EntriesAreBookedOnce == Spec => []IntentsBookOnce
<1>1. EInv => IntentsBookOnce
  <2> SUFFICES ASSUME EInv PROVE IntentsBookOnce
    OBVIOUS
  <2>1. OnePurchaseOnce
    BY DEF EInv, OnePurchaseOnce, Differ
  <2>2. ASSUME NEW i \in Intents
        PROVE  Cardinality({r \in CommitRequests : committed[r] = i}) = IF i \in Consumed THEN 1 ELSE 0
    <3>1. ReceiptOK(i)
      BY DEF EInv
    <3>2. CASE i \in Consumed
      <4>1. PICK r \in CommitRequests : ReceiptsOf(i) = {r}
        BY <3>1, <3>2 DEF ReceiptOK
      <4> QED BY <3>2, <4>1, FS_Singleton DEF ReceiptsOf
    <3>3. CASE i \notin Consumed
      <4>1. ReceiptsOf(i) = {}
        BY <3>1, <3>3 DEF ReceiptOK
      <4> QED BY <3>3, <4>1, FS_EmptySet DEF ReceiptsOf
    <3> QED BY <3>2, <3>3
  <2>3. \A a \in Accounts : balance[a] = Booked(posted, Consumed, a)
    BY DEF EInv
  <2> QED BY <2>1, <2>2, <2>3 DEF IntentsBookOnce, LedgerIsTheIntents
<1> QED BY <1>1, EntryInvariance, PTL

\* An intent becomes consumed by its commit only.
LEMMA ConsumedByCommit ==
  ASSUME EInv, [Next]_vars, NEW i \in Consumed' \ Consumed
  PROVE  i \in Intents /\ \E r \in CommitRequests : Commit(r, i)
<1>1. i \in Intents /\ intent'[i].pc = "consumed" /\ intent[i].pc # "consumed"
  BY DEF Consumed
<1>2. intent' # intent
  BY <1>1
<1>3. PICK k \in Intents :
        \/ \E e \in Entries : PrepareBegin(k, e)
        \/ PrepareCatalog(k) \/ PrepareBalance(k) \/ PrepareStore(k)
        \/ \E r \in CommitRequests : Commit(r, k)
        \/ Lapse(k)
  BY <1>2 DEF Next, Catalog, vars
<1>4. intent = [x \in Intents |-> intent[x]]
  BY DEF EInv, EntryTypeOK
<1>5. PICK pc, b, n, f, names :
         /\ pc \in Phases /\ b \in Requests \cup {None} /\ n \in Int
         /\ intent[k] = Row(pc, f, b, names, n)
  BY RowOf
<1>6. PICK row : row = intent[k] /\ row = Row(pc, f, b, names, n)
  BY <1>5
<1>7. ASSUME NEW e \in Entries, PrepareBegin(k, e) PROVE FALSE
  <2>1. CASE e.via = None
    <3>1. intent' = [intent EXCEPT ![k] = [row EXCEPT !.pc = "begun", !.entry = e]]
      BY <1>4, <1>6, <1>7, <2>1 DEF PrepareBegin
    <3>2. Begun(row, "begun", e) = Row("begun", e, b, names, n)
      BY <1>6, RowBegun
    <3>3. intent' = [intent EXCEPT ![k] = Row("begun", e, b, names, n)]
      BY <3>1, <3>2 DEF Begun
    <3> QED BY <1>1, <1>4, <3>3 DEF Row
  <2>2. CASE e.via # None
    <3>1. PICK c \in DOMAIN binding :
            intent' = [intent EXCEPT ![k] =
              [@ EXCEPT !.pc = "begun", !.entry = Settled(e, c), !.binding = c]]
      BY <1>7, <2>2 DEF PrepareBegin
    <3>2. PICK g : g = Settled(e, c)
      OBVIOUS
    <3>3. intent' = [intent EXCEPT ![k] = [row EXCEPT !.pc = "begun", !.entry = g, !.binding = c]]
      BY <1>4, <1>6, <3>1, <3>2
    <3>4. BoundTo(row, "begun", g, c) = Row("begun", g, c, names, n)
      BY <1>6, RowBound
    <3>5. intent' = [intent EXCEPT ![k] = Row("begun", g, c, names, n)]
      BY <3>3, <3>4 DEF BoundTo
    <3> QED BY <1>1, <1>4, <3>5 DEF Row
  <2> QED BY <2>1, <2>2
<1>8. CASE PrepareCatalog(k)
  <2>1. PICK p : p = (IF f.kind = "adjustment" THEN "measuring" ELSE "compiled") /\ p # "consumed"
    OBVIOUS
  <2>2. PICK g, shown, m :
          intent' = [intent EXCEPT ![k] =
            [row EXCEPT !.pc = p, !.entry = g, !.names = shown, !.units = m]]
    <3>1. intent[k].entry = f
      BY <1>5 DEF Row
    <3>2. PICK from, to, g :
            intent' = [intent EXCEPT ![k] =
              [@ EXCEPT !.pc = IF f.kind = "adjustment" THEN "measuring" ELSE "compiled",
                        !.entry = g, !.names = PreviewNames(g), !.units = f.units]]
      BY <1>8, <3>1 DEF PrepareCatalog
    <3>3. PICK shown, m : shown = PreviewNames(g) /\ m = f.units
      OBVIOUS
    <3>4. intent' = [intent EXCEPT ![k] =
            [row EXCEPT !.pc = p, !.entry = g, !.names = shown, !.units = m]]
      BY <1>4, <1>6, <2>1, <3>2, <3>3
    <3> QED BY <3>4
  <2>3. Compiled(row, p, g, shown, m) = Row(p, g, b, shown, m)
    BY <1>6, RowCompiled
  <2>4. intent' = [intent EXCEPT ![k] = Row(p, g, b, shown, m)]
    BY <2>2, <2>3 DEF Compiled
  <2> QED BY <1>1, <1>4, <2>1, <2>4 DEF Row
<1>9. CASE PrepareBalance(k)
  <2>1. PICK m : intent' = [intent EXCEPT ![k].pc = "compiled", ![k].units = m]
    BY <1>9 DEF PrepareBalance
  <2>2. intent' = [intent EXCEPT ![k] = [row EXCEPT !.pc = "compiled", !.units = m]]
    BY <1>4, <1>6, <2>1
  <2>3. Measured(row, "compiled", m) = Row("compiled", f, b, names, m)
    BY <1>6, RowMeasured
  <2>4. intent' = [intent EXCEPT ![k] = Row("compiled", f, b, names, m)]
    BY <2>2, <2>3 DEF Measured
  <2> QED BY <1>1, <1>4, <2>4 DEF Row
<1>10. CASE PrepareStore(k) \/ Lapse(k)
  <2>1. PICK p : intent' = [intent EXCEPT ![k].pc = p] /\ p # "consumed"
    BY <1>10 DEF PrepareStore, Lapse
  <2>2. intent' = [intent EXCEPT ![k] = [row EXCEPT !.pc = p]]
    BY <1>4, <1>6, <2>1
  <2>3. [row EXCEPT !.pc = p] = Row(p, f, b, names, n)
    BY <1>6 DEF Row
  <2>4. intent' = [intent EXCEPT ![k] = Row(p, f, b, names, n)]
    BY <2>2, <2>3
  <2> QED BY <1>1, <1>4, <2>1, <2>4 DEF Row
<1>11. ASSUME NEW r \in CommitRequests, Commit(r, k) PROVE k = i
  BY <1>1, <1>11, CommitWrites
<1> QED BY <1>1, <1>3, <1>7, <1>8, <1>9, <1>10, <1>11

\* What a committed entry does to one account.
LEMMA EffectMeasured ==
  ASSUME EInv, NEW r \in CommitRequests, NEW i \in Intents, Commit(r, i), NEW a \in Accounts,
         NEW e, e = intent[i].entry
  PROVE  /\ balance'[a] # balance[a] => a \in Parties(e) /\ Active(a)
         /\ a \in Parties(e) => Magnitude(balance'[a] - balance[a]) = intent[i].units
         /\ e.kind = "adjustment" /\ a = e.to => balance'[a] = e.units
<1>1. PICK b, n, f, names :
        /\ b \in Requests \cup {None} /\ n \in Int /\ f \in EntryShape
        /\ intent[i] = Row("ready", f, b, names, n)
        /\ AskedFor(f, b) /\ Resolved(f)
  BY CommitRow
<1>2. f = e /\ intent[i].units = n
  BY <1>1 DEF Row
<1>3. e.from # e.to /\ (e.kind = "adjustment" => e.from = None)
  BY <1>1, <1>2 DEF AskedFor, Resolved
<1>4. a # None
  BY InstrumentsAssumption
<1>5. PICK u \in Nat, v \in Int : u = e.units /\ v = balance[a]
  BY <1>1, <1>2 DEF EntryShape, EInv, EntryTypeOK
<1>6. PICK w \in Int : w = IF e.kind = "adjustment" THEN v ELSE 0
  <2>1. (IF e.kind = "adjustment" THEN v ELSE 0) \in Int
    OBVIOUS
  <2> QED BY <2>1
<1>7. PICK x \in Int : x = (IF a = e.to THEN u - w ELSE 0) - (IF a = e.from THEN u ELSE 0)
  <2>1. ((IF a = e.to THEN u - w ELSE 0) - (IF a = e.from THEN u ELSE 0)) \in Int
    OBVIOUS
  <2> QED BY <2>1
<1>8. Effect(e)[a] = x
  BY <1>5, <1>6, <1>7 DEF Effect
<1>9. balance'[a] = v + x
  BY <1>5, <1>8 DEF Commit
<1>10. AmountOf(e) = n /\ \A c \in Parties(e) : Active(c)
  BY <1>2 DEF Commit, StillCompiles
<1>11. n = Magnitude(IF e.kind = "adjustment" THEN u - balance[e.to] ELSE u)
  BY <1>5, <1>10 DEF AmountOf, Magnitude
<1>12. CASE a = e.to
  <2>1. x = u - w
    BY <1>3, <1>7, <1>12
  <2>2. n = Magnitude(u - w)
    BY <1>5, <1>6, <1>11, <1>12
  <2>3. v + x - v = u - w /\ (e.kind = "adjustment" => v + x = u)
    BY <1>6, <2>1
  <2>4. a \in Parties(e)
    BY <1>4, <1>12 DEF Parties
  <2> QED BY <1>2, <1>5, <1>9, <1>10, <2>2, <2>3, <2>4
<1>13. CASE a = e.from
  <2>1. e.kind # "adjustment" /\ a # e.to
    BY <1>3, <1>4, <1>13
  <2>2. x = -u
    BY <1>7, <1>13, <2>1
  <2>3. n = Magnitude(u)
    BY <1>11, <2>1
  <2>4. Magnitude(v + x - v) = n
    BY <2>2, <2>3 DEF Magnitude
  <2>5. a \in Parties(e)
    BY <1>4, <1>13 DEF Parties
  <2> QED BY <1>2, <1>5, <1>9, <1>10, <2>1, <2>4, <2>5
<1>14. CASE a # e.to /\ a # e.from
  <2>1. x = 0
    BY <1>7, <1>14
  <2>2. a \notin Parties(e)
    BY <1>14 DEF Parties
  <2> QED BY <1>5, <1>9, <1>14, <2>1, <2>2
<1> QED BY <1>12, <1>13, <1>14

\* An adjustment leaves the account at what was counted, whatever its balance became between
\* prepare and commit (_compile_adjustment, which is run again by _build_commit_plan).
THEOREM AdjustmentsHit == Spec => AdjustmentsHitTheirTarget
<1>1. ASSUME EInv, [Next]_vars, NEW i \in Consumed' \ Consumed, NEW e, e = intent[i].entry,
             e.kind = "adjustment"
      PROVE  balance'[e.to] = e.units
  <2>1. PICK r \in CommitRequests : Commit(r, i) /\ i \in Intents
    BY <1>1, ConsumedByCommit
  <2>2. PICK b, n, f, names :
          /\ b \in Requests \cup {None} /\ n \in Int /\ f \in EntryShape
          /\ intent[i] = Row("ready", f, b, names, n)
          /\ AskedFor(f, b) /\ Resolved(f)
    BY <1>1, <2>1, CommitRow
  <2>3. f = e
    BY <1>1, <2>2 DEF Row
  <2>4. e.to \in Accounts
    BY <1>1, <2>2, <2>3 DEF AskedFor, Resolved
  <2> QED BY <1>1, <2>1, <2>4, EffectMeasured
<1>2. EInv /\ [Next]_vars =>
        [\A i \in Consumed' \ Consumed :
           LET e == intent[i].entry IN e.kind = "adjustment" => balance'[e.to] = e.units]_vars
  BY <1>1
<1> QED BY <1>2, EntryInvariance, PTL DEF Spec, AdjustmentsHitTheirTarget

\* A commit posts what the preview showed, between the accounts it showed, and a card's entry
\* to the account the card is bound to (_build_commit_plan, _revalidate_payment_instrument).
THEOREM PostsAsPreviewed == Spec => PostedAsPreviewed
<1>1. ASSUME EInv, [Next]_vars, NEW i \in Consumed' \ Consumed, NEW e, e = intent[i].entry
      PROVE  /\ \A a \in Accounts :
                  /\ balance'[a] # balance[a] => a \in Parties(e) /\ Active(a)
                  /\ a \in Parties(e) => Magnitude(balance'[a] - balance[a]) = intent[i].units
             /\ \A a \in DOMAIN intent[i].names : account[a].name = intent[i].names[a]
             /\ intent[i].binding # None =>
                  \E a \in Parties(e), i2 \in Instruments :
                    /\ i2 = binding[intent[i].binding].of
                    /\ {binding[b].account : b \in Rows(i2, e.at)} = {a}
  <2>1. PICK r \in CommitRequests : Commit(r, i) /\ i \in Intents
    BY <1>1, ConsumedByCommit
  <2>2. \A a \in Accounts :
          /\ balance'[a] # balance[a] => a \in Parties(e) /\ Active(a)
          /\ a \in Parties(e) => Magnitude(balance'[a] - balance[a]) = intent[i].units
    BY <1>1, <2>1, EffectMeasured
  <2>3. \A a \in DOMAIN intent[i].names : account[a].name = intent[i].names[a]
    <3>1. PreviewNames(e) = intent[i].names
      BY <1>1, <2>1 DEF Commit, StillCompiles
    <3>2. \A a \in DOMAIN PreviewNames(e) : PreviewNames(e)[a] = account[a].name
      BY DEF PreviewNames
    <3> QED BY <3>1, <3>2
  <2>4. ASSUME intent[i].binding # None
        PROVE  \E a \in Parties(e), i2 \in Instruments :
                 /\ i2 = binding[intent[i].binding].of
                 /\ {binding[b].account : b \in Rows(i2, e.at)} = {a}
    <3>1. PICK b, n, f, names :
            /\ b \in Requests \cup {None} /\ n \in Int /\ f \in EntryShape
            /\ intent[i] = Row("ready", f, b, names, n)
            /\ AskedFor(f, b) /\ Resolved(f)
      BY <1>1, <2>1, CommitRow
    <3>2. f = e /\ intent[i].binding = b /\ b \in Requests
      BY <1>1, <2>4, <3>1 DEF Row
    <3>3. binding[b].of # None /\ binding[b].account \in {e.from, e.to}
      BY <2>4, <3>1, <3>2 DEF AskedFor
    <3>4. binding[b].of \in Instruments /\ binding[b].account \in Accounts
      BY <1>1, <3>2, <3>3 DEF EInv, BoundRow
    <3>5. binding[b].account \in Parties(e)
      BY <3>3, <3>4, InstrumentsAssumption DEF Parties
    <3>6. Rows(binding[b].of, e.at) = {b}
      BY <1>1, <2>1, <2>4, <3>2 DEF Commit, BindingHolds, Resolves
    <3>7. {binding[c].account : c \in Rows(binding[b].of, e.at)} = {binding[b].account}
      BY <3>6
    <3> QED BY <3>2, <3>4, <3>5, <3>7
  <2> QED BY <2>2, <2>3, <2>4
<1>2. EInv /\ [Next]_vars =>
        [\A i \in Consumed' \ Consumed :
           LET e == intent[i].entry IN
           /\ \A a \in Accounts :
                /\ balance'[a] # balance[a] => a \in Parties(e) /\ Active(a)
                /\ a \in Parties(e) => Magnitude(balance'[a] - balance[a]) = intent[i].units
           /\ \A a \in DOMAIN intent[i].names : account[a].name = intent[i].names[a]
           /\ intent[i].binding # None =>
                \E a \in Parties(e), i2 \in Instruments :
                  /\ i2 = binding[intent[i].binding].of
                  /\ {binding[b].account : b \in Rows(i2, e.at)} = {a}]_vars
  BY <1>1
<1> QED BY <1>2, EntryInvariance, PTL DEF Spec, PostedAsPreviewed
================================================================================
