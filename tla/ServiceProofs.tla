----------------------------- MODULE ServiceProofs -----------------------------
(***************************************************************************)
(* Theorems about the protected content, the repair of expenses, the       *)
(* verifier of a whole ledger and the outbox.                              *)
(*                                                                         *)
(* Protected content, for any number of processes, ids, texts and          *)
(* keyrings: what was acknowledged stays what it was.  A row's commitment  *)
(* outlives its text: it is written with the row, erasure leaves it, and   *)
(* every row a session has read under an id has the commitment of the row  *)
(* that is there.  The row locks keep apart the two transactions that      *)
(* could end an archive.                                                   *)
(*                                                                         *)
(* Repairs, for any number of expenses and runs: the repairs move the      *)
(* expense and never the payment, and a run after a successful one fails   *)
(* only when users did something in between.  An expense is reversed and   *)
(* entered again in one transaction.  A run that users left alone since it *)
(* began found every expense a candidate, and what a successful run leaves *)
(* stays until users do something.                                         *)
(*                                                                         *)
(* The verifier, for any number of Books, events and runs: as long as      *)
(* nothing has hurt the tables, a Book's events are numbered and chained   *)
(* up to its head, every stream head is the last event of its stream, each *)
(* transaction balances and the balances are the sums of the postings.     *)
(* Whatever a restore hurts contradicts one of these, and stays as it is   *)
(* until the statement that compares it has run.                           *)
(*                                                                         *)
(* The outbox (Spec): for any number of workers and messages, any lease    *)
(* and any difference of the clocks, a delivered message was received, and *)
(* a running lease excludes the other workers.  A worker's copy of its     *)
(* lease and the row's run down together: while the copy is above zero the *)
(* row still names the worker, because the trigger, which compares with    *)
(* the database's clock and not with the claimant's, refuses whoever       *)
(* thinks it has passed.                                                   *)
(***************************************************************************)
EXTENDS ProtectedContent, ExpenseRepair, LedgerVerification, Outbox, SequenceTheorems, SetSums

Keys == {Absent} \cup UNION {k.keys : k \in Keyrings}
Commitments == {"content"} \X Keys \X Sidecars \X ContentKinds \X Texts
Rows == [kind : ContentKinds, key : Keys, hash : Commitments, text : Texts \cup {Absent},
         status : {"active", "erased"}]
Sessions == [op : {"keep", "archive", "erase"},
             step : {"get", "insert", "verify", "guard", "seal", "lock", "commit"},
             id : Sidecars, kind : ContentKinds \cup {Absent}, text : Texts \cup {Absent},
             plan : Plans \cup {Absent}, row : Rows \cup {NoRow}, inserted : BOOLEAN,
             sealed : BOOLEAN, erasing : BOOLEAN, holds : BOOLEAN]
Readers == [op : {"read"}, step : {"read", "missing"}, ids : SUBSET Sidecars,
            id : {Absent}, inserted : {FALSE}, holds : {FALSE}]

\* Type invariant: rows, keyrings and sessions have their shapes, and what is kept is of
\* an id; the shapes of a manifest are in Sealed.
PrivacyTypeOK ==
    /\ sidecars \in [Sidecars -> Rows \cup {NoRow}]
    /\ DOMAIN manifests = Sidecars
    /\ rings \in [Writers -> Keyrings]
    /\ work \in [Writers -> Sessions \cup Readers \cup {NoWork}]
    /\ kept \subseteq [id : Sidecars, kind : ContentKinds, text : Texts,
                       plan : Plans \cup {Absent}]

\* A row's commitment is to its kind, and to its text and key until they are erased.
Binds(sidecar) ==
    /\ sidecar.hash[4] = sidecar.kind
    /\ sidecar.status = "active" => sidecar.hash[5] = sidecar.text /\ sidecar.hash[2] = sidecar.key

RowsBind == \A id \in Sidecars : sidecars[id] # NoRow => Binds(sidecars[id])

\* What is kept has a row committed to it, and a manifest if it is of an import.
KeptOK(k) ==
    /\ sidecars[k.id] # NoRow
    /\ sidecars[k.id].hash[4] = k.kind /\ sidecars[k.id].hash[5] = k.text
    /\ k.plan # Absent => manifests[k.id].plan = k.plan

\* A manifest seals an archive that is there.
Sealed(id) ==
    manifests[id] # NoManifest =>
      /\ sidecars[id].status = "active" /\ sidecars[id].kind = "import_archive"
      /\ manifests[id] = [plan |-> manifests[id].plan, commitment |-> sidecars[id].hash,
                          seal |-> Seal(sidecars[id].key, id, manifests[id].plan,
                                        sidecars[id].hash)]

\* A writer that has a row: its own, and then there is none, or one that is still committed
\* to the same content.
LoadedOK(w) ==
    /\ w.row # NoRow /\ Binds(w.row)
    /\ w.inserted = TRUE => sidecars[w.id] = NoRow /\ w.row.status = "active"
    /\ w.inserted = FALSE => sidecars[w.id] # NoRow /\ sidecars[w.id].hash = w.row.hash

\* A writer of content; an archive that is past its guard holds the row and finds it active.
WriterOK(w) ==
    /\ w.kind \in ContentKinds /\ w.text \in Texts
    /\ w.step # "lock" /\ w.erasing = FALSE
    /\ w.op = "keep" => /\ w.plan = Absent /\ w.sealed = FALSE /\ w.holds = FALSE
                        /\ w.step \notin {"guard", "seal"}
    /\ w.op = "archive" => w.kind = "import_archive"
    /\ w.step \in {"get", "insert"} => w.inserted = FALSE
    /\ w.step \in {"verify", "guard", "seal", "commit"} => LoadedOK(w)
    /\ w.step \in {"guard", "seal", "commit"} =>
         w.row.status = "active" /\ w.row.kind = w.kind /\ w.row.text = w.text
    /\ w.op = "archive" /\ w.step \in {"seal", "commit"} =>
         w.holds = TRUE /\ (w.inserted = FALSE => sidecars[w.id].status = "active")
    /\ w.op = "archive" /\ w.step \notin {"seal", "commit"} => w.holds = FALSE
    /\ w.op = "archive" /\ w.step = "commit" =>
         w.sealed = TRUE /\ manifests[w.id] \in {NoManifest, Manifest(w)}

\* An erasure holds a row that no manifest seals.
EraserOK(w) ==
    /\ w.step \in {"lock", "commit"} /\ w.inserted = FALSE /\ w.sealed = FALSE
    /\ w.step = "lock" => w.holds = FALSE /\ w.erasing = FALSE
    /\ w.step = "commit" => w.holds = TRUE /\ sidecars[w.id] # NoRow
    /\ w.erasing = TRUE =>
         w.step = "commit" /\ sidecars[w.id].status = "active" /\ manifests[w.id] = NoManifest

WorkOK(w) ==
    /\ w.op \in {"keep", "archive"} => WriterOK(w)
    /\ w.op = "erase" => EraserOK(w)

\* Row locks and inserts of an id exclude each other.
Apart(v, w) ==
    v # NoWork /\ w # NoWork /\ v.id = w.id =>
      /\ ~(v.holds = TRUE /\ w.holds = TRUE)
      /\ ~(v.inserted = TRUE /\ w.inserted = TRUE)

\* The last answer told the truth.
ShownOK ==
    /\ shown.said = "text" =>
         \A k \in kept : k.id \in DOMAIN shown.texts => shown.texts[k.id] = k.text
    /\ shown.said = "erased" => \E id \in Sidecars : sidecars[id].status = "erased"

PrivacyInv ==
    /\ PrivacyTypeOK
    /\ RowsBind
    /\ \A k \in kept : KeptOK(k)
    /\ \A id \in Sidecars : Sealed(id)
    /\ \A p \in Writers : WorkOK(work[p])
    /\ \A p, q \in Writers : p # q => Apart(work[p], work[q])
    /\ ShownOK
-----------------------------------------------------------------------------
(* Rows, sessions, steps *)

\* Initially nothing is kept.
LEMMA InitPrivacyInv == PrivacyInit => PrivacyInv
BY KeyringsAreValid
   DEF PrivacyInit, PrivacyInv, PrivacyTypeOK, RowsBind, Sealed, WorkOK, Apart, ShownOK,
       NoWork, Silence

\* A row has a status that no row at all has not.
LEMMA RowFacts ==
  ASSUME NEW r \in Rows PROVE r # NoRow /\ r.status \in {"active", "erased"}
BY DEF Rows, NoRow

\* A new row is one, and binds what it encrypts.
LEMMA EncryptedFacts ==
  ASSUME PrivacyTypeOK, NEW p \in Writers, NEW id \in Sidecars, NEW kind \in ContentKinds,
         NEW text \in Texts
  PROVE  LET r == Encrypted(p, id, kind, text) IN
         /\ r \in Rows /\ Binds(r)
         /\ r.status = "active" /\ r.kind = kind /\ r.text = text
<1>1. rings[p] \in Keyrings
  BY DEF PrivacyTypeOK
<1>2. rings[p].active \in Keys
  BY <1>1, KeyringsAreValid DEF Keys
<1>3. PICK key \in Keys : key = rings[p].active
  BY <1>2
<1>4. PICK h : h = Commitment(key, id, kind, text)
  OBVIOUS
<1>5. h \in Commitments /\ h[2] = key /\ h[4] = kind /\ h[5] = text
  BY <1>4 DEF Commitment, Commitments
<1>6. Encrypted(p, id, kind, text) =
        [kind |-> kind, key |-> key, hash |-> h, text |-> text, status |-> "active"]
  BY <1>3, <1>4 DEF Encrypted
<1> QED BY <1>5, <1>6 DEF Rows, Binds

\* Erasure leaves the commitment and the kind.
LEMMA ErasedFacts ==
  ASSUME NEW r \in Rows, Binds(r)
  PROVE  /\ Erased(r) \in Rows /\ Binds(Erased(r))
         /\ Erased(r).hash = r.hash /\ Erased(r).kind = r.kind
<1>1. Erased(r) \in Rows /\ Erased(r).hash = r.hash /\ Erased(r).kind = r.kind
      /\ Erased(r).status = "erased"
  BY DEF Erased, Rows, Keys
<1> QED BY <1>1 DEF Binds

\* Two rows in force with one commitment have the same content and key.
LEMMA SameContent ==
  ASSUME NEW r \in Rows, NEW s \in Rows, Binds(r), Binds(s), r.hash = s.hash
  PROVE  /\ r.kind = s.kind
         /\ r.status = "active" /\ s.status = "active" => r.text = s.text /\ r.key = s.key
BY DEF Binds

\* Who is in the middle of something has a session or reads.
LEMMA WorkFacts ==
  ASSUME PrivacyTypeOK, NEW p \in Writers
  PROVE  /\ work[p] = NoWork <=> work[p].op = "idle"
         /\ work[p].op = "read" => work[p] \in Readers
         /\ work[p] # NoWork /\ work[p].op # "read" => work[p] \in Sessions
         /\ work[p] # NoWork /\ work[p].step \notin {"read", "missing"} =>
              work[p] \in Sessions
<1>1. CASE work[p] = NoWork
  BY <1>1 DEF NoWork
<1>2. CASE work[p] \in Sessions
  BY <1>2 DEF Sessions, NoWork
<1>3. CASE work[p] \in Readers
  <2>1. work[p].op = "read" /\ work[p].step \in {"read", "missing"}
    BY <1>3 DEF Readers
  <2>2. work[p] # NoWork
    BY <2>1 DEF NoWork
  <2> QED BY <1>3, <2>1, <2>2
<1> QED BY <1>1, <1>2, <1>3 DEF PrivacyTypeOK

\* A step of a process that changes no content: its new session has to be right, and
\* exclude the others.
LEMMA QuietStep ==
  ASSUME PrivacyInv, NEW p \in Writers, NEW v \in Sessions \cup Readers \cup {NoWork},
         work' = [work EXCEPT ![p] = v], UNCHANGED <<sidecars, manifests, kept>>,
         rings' \in [Writers -> Keyrings], WorkOK(v), ShownOK',
         \A q \in Writers \ {p} : Apart(v, work[q])
  PROVE  PrivacyInv'
<1>1. PrivacyTypeOK'
  BY DEF PrivacyInv, PrivacyTypeOK
<1>2. \A q \in Writers : work'[q] = IF q = p THEN v ELSE work[q]
  BY DEF PrivacyInv, PrivacyTypeOK
<1>3. RowsBind' /\ (\A k \in kept' : KeptOK(k)') /\ (\A id \in Sidecars : Sealed(id)')
  BY DEF PrivacyInv, RowsBind, KeptOK, Sealed
<1>4. \A w : WorkOK(w)' = WorkOK(w)
  BY DEF WorkOK, WriterOK, EraserOK, LoadedOK
<1>5. \A q \in Writers : WorkOK(work[q])'
  BY <1>2, <1>4 DEF PrivacyInv
<1>6. \A q, s \in Writers : q # s => Apart(work[q], work[s])'
  <2>1. \A x, y : Apart(x, y) = Apart(y, x)
    BY DEF Apart
  <2> QED BY <1>2, <2>1 DEF PrivacyInv, Apart
<1> QED BY <1>1, <1>3, <1>5, <1>6 DEF PrivacyInv

\* No process has the row of the others' locks, or an uncommitted row of their inserts.
LEMMA ApartFacts ==
  ASSUME PrivacyInv, NEW p \in Writers, NEW v,
         v.holds = TRUE => work[p].holds = TRUE \/ ~LockedByOther(p, v.id),
         v.inserted = TRUE => work[p].inserted = TRUE \/ ~InsertedByOther(p, v.id),
         v # NoWork => work[p] # NoWork /\ work[p].id = v.id
  PROVE  \A q \in Writers \ {p} : Apart(v, work[q])
BY DEF PrivacyInv, Apart, LockedByOther, InsertedByOther

\* A rollback, at any step.
LEMMA RollBackKeeps ==
  ASSUME PrivacyInv, NEW p \in Writers, NEW said \in {"failed", "conflict"},
         RollBack(p, said)
  PROVE  PrivacyInv'
<1>1. WorkOK(NoWork) /\ \A q \in Writers \ {p} : Apart(NoWork, work[q])
  BY DEF WorkOK, NoWork, Apart
<1>2. ShownOK'
  BY DEF RollBack, ShownOK
<1> QED BY <1>1, <1>2, QuietStep DEF RollBack, PrivacyInv, PrivacyTypeOK

\* A step within a session: the new one has to be right, and takes a lock or inserts a row
\* only when no other has.
LEMMA OnwardsKeeps ==
  ASSUME PrivacyInv, NEW p \in Writers, NEW v \in Sessions \cup Readers, Onwards(p, v),
         work[p] # NoWork, work[p].id = v.id, WorkOK(v),
         v.holds = TRUE => work[p].holds = TRUE \/ ~LockedByOther(p, v.id),
         v.inserted = TRUE => work[p].inserted = TRUE \/ ~InsertedByOther(p, v.id)
  PROVE  PrivacyInv'
<1>1. \A q \in Writers \ {p} : Apart(v, work[q])
  BY ApartFacts
<1>2. ShownOK'
  BY DEF Onwards, ShownOK, Silence
<1> QED BY <1>1, <1>2, QuietStep DEF Onwards, PrivacyInv, PrivacyTypeOK

\* A request begins with a session that has nothing yet.
LEMMA BegunKeeps ==
  ASSUME PrivacyInv, NEW p \in Writers, NEW v \in Sessions \cup Readers, Begun(p, v),
         WorkOK(v), v.holds = FALSE, v.inserted = FALSE
  PROVE  PrivacyInv'
<1>1. \A q \in Writers \ {p} : Apart(v, work[q])
  BY DEF Apart
<1>2. ShownOK'
  BY DEF Begun, ShownOK, Silence
<1> QED BY <1>1, <1>2, QuietStep DEF Begun, PrivacyInv, PrivacyTypeOK

\* An answer to a reader.
LEMMA TellsKeeps ==
  ASSUME PrivacyInv, NEW p \in Writers, NEW said, NEW texts, Tells(p, said, texts),
         said = "text" =>
           \A k \in kept : k.id \in DOMAIN texts => texts[k.id] = k.text,
         said = "erased" => \E id \in Sidecars : sidecars[id].status = "erased"
  PROVE  PrivacyInv'
<1>1. WorkOK(NoWork) /\ \A q \in Writers \ {p} : Apart(NoWork, work[q])
  BY DEF WorkOK, NoWork, Apart
<1>2. ShownOK'
  BY DEF Tells, ShownOK
<1> QED BY <1>1, <1>2, QuietStep DEF Tells, PrivacyInv, PrivacyTypeOK

-----------------------------------------------------------------------------
(* Requests *)

\* Another keyring changes no content.
LEMMA KeyringKeeps ==
  ASSUME PrivacyInv, NEW p \in Writers, LoadKeyring(p)
  PROVE  PrivacyInv'
<1>1. work' = [work EXCEPT ![p] = work[p]] /\ work[p] = NoWork
  BY DEF LoadKeyring, PrivacyInv, PrivacyTypeOK
<1>2. WorkOK(NoWork) /\ \A q \in Writers \ {p} : Apart(NoWork, work[q])
  BY DEF WorkOK, NoWork, Apart
<1>3. ShownOK'
  BY DEF LoadKeyring, ShownOK, Silence
<1>4. rings' \in [Writers -> Keyrings]
  BY DEF LoadKeyring, PrivacyInv, PrivacyTypeOK
<1> QED BY <1>1, <1>2, <1>3, <1>4, QuietStep DEF LoadKeyring

\* A request to keep a narrative or other content.
LEMMA AskToKeepKeeps ==
  ASSUME PrivacyInv, NEW p \in Writers, NEW id \in Sidecars, NEW kind \in ContentKinds,
         NEW text \in Texts, AskToKeep(p, id, kind, text)
  PROVE  PrivacyInv'
<1>1. PICK v : v = Session("keep", "get", id, kind, text, Absent)
  OBVIOUS
<1>2. v \in Sessions /\ v.op = "keep" /\ v.step = "get" /\ v.kind = kind /\ v.text = text
      /\ v.plan = Absent /\ v.holds = FALSE /\ v.inserted = FALSE /\ v.sealed = FALSE
      /\ v.erasing = FALSE
  BY <1>1 DEF Session, Sessions
<1>3. WorkOK(v)
  BY <1>2 DEF WorkOK, WriterOK
<1> QED BY <1>1, <1>2, <1>3, BegunKeeps DEF AskToKeep

\* A request to keep an archive and seal it.
LEMMA AskToArchiveKeeps ==
  ASSUME PrivacyInv, NEW p \in Writers, NEW id \in Sidecars, NEW text \in Texts,
         NEW plan \in Plans, AskToArchive(p, id, text, plan)
  PROVE  PrivacyInv'
<1>1. PICK v : v = Session("archive", "get", id, "import_archive", text, plan)
  OBVIOUS
<1>2. v \in Sessions /\ v.op = "archive" /\ v.step = "get" /\ v.kind = "import_archive"
      /\ v.text = text /\ v.holds = FALSE /\ v.inserted = FALSE /\ v.erasing = FALSE
  BY <1>1 DEF Session, Sessions, ContentKinds
<1>3. WorkOK(v)
  BY <1>2 DEF WorkOK, WriterOK, ContentKinds
<1> QED BY <1>1, <1>2, <1>3, BegunKeeps DEF AskToArchive

\* A request to erase.
LEMMA AskToEraseKeeps ==
  ASSUME PrivacyInv, NEW p \in Writers, NEW id \in Sidecars, AskToErase(p, id)
  PROVE  PrivacyInv'
<1>1. PICK v : v = Session("erase", "lock", id, Absent, Absent, Absent)
  OBVIOUS
<1>2. v \in Sessions /\ v.op = "erase" /\ v.step = "lock" /\ v.holds = FALSE
      /\ v.inserted = FALSE /\ v.sealed = FALSE /\ v.erasing = FALSE
  BY <1>1 DEF Session, Sessions
<1>3. WorkOK(v)
  BY <1>2 DEF WorkOK, EraserOK
<1> QED BY <1>1, <1>2, <1>3, BegunKeeps DEF AskToErase

\* A request for narratives.
LEMMA AskNarrativesKeeps ==
  ASSUME PrivacyInv, NEW p \in Writers, NEW ids \in SUBSET Sidecars, AskNarratives(p, ids)
  PROVE  PrivacyInv'
<1>1. PICK v : v = Reader(ids)
  OBVIOUS
<1>2. v \in Readers /\ v.op = "read" /\ v.holds = FALSE /\ v.inserted = FALSE
  BY <1>1 DEF Reader, Readers
<1>3. WorkOK(v)
  BY <1>2 DEF WorkOK
<1> QED BY <1>1, <1>2, <1>3, BegunKeeps DEF AskNarratives

-----------------------------------------------------------------------------
(* Readers *)

\* An active row of an id shows the text that was kept.
LEMMA ShownIsKept ==
  ASSUME PrivacyInv, NEW k \in kept, sidecars[k.id].status = "active"
  PROVE  sidecars[k.id].text = k.text /\ k.id \in Sidecars
<1>1. k.id \in Sidecars
  BY DEF PrivacyInv, PrivacyTypeOK
<1>2. sidecars[k.id] # NoRow /\ sidecars[k.id].hash[5] = k.text
  BY DEF PrivacyInv, KeptOK
<1> QED BY <1>1, <1>2 DEF PrivacyInv, RowsBind, Binds

\* The two reads of a batch of narratives.
LEMMA ReadsKeep ==
  ASSUME PrivacyInv, NEW p \in Writers, ReadNarratives(p) \/ ReadMissing(p)
  PROVE  PrivacyInv'
<1>1. PICK w \in Readers : w = work[p]
  <2>1. work[p] # NoWork /\ work[p].step \in {"read", "missing"}
    BY DEF ReadNarratives, ReadMissing, Reached
  <2>2. work[p] \notin Sessions
    BY <2>1 DEF Sessions
  <2> QED BY <2>1, <2>2 DEF PrivacyInv, PrivacyTypeOK
<1>2. w.ids \in SUBSET Sidecars /\ w.id = Absent /\ w.op = "read"
  BY <1>1 DEF Readers
<1>3. ASSUME ReadMissing(p) PROVE PrivacyInv'
  <2>1. PICK said : /\ Tells(p, said, <<>>)
                    /\ \/ said = "unavailable"
                       \/ /\ said = "erased"
                          /\ \E id \in w.ids : sidecars[id].status = "erased"
    BY <1>1, <1>3 DEF ReadMissing
  <2>2. said = "erased" => \E id \in Sidecars : sidecars[id].status = "erased"
    BY <1>2, <2>1
  <2>3. said # "text"
    BY <2>1
  <2> QED BY <2>1, <2>2, <2>3, TellsKeeps
<1>4. ASSUME ReadNarratives(p), ActiveOf(w.ids) # w.ids PROVE PrivacyInv'
  <2>1. PICK v : v = [w EXCEPT !.step = "missing", !.ids = w.ids \ ActiveOf(w.ids)]
    OBVIOUS
  <2>2. v \in Readers /\ v.op = "read" /\ v.id = w.id /\ v.holds = FALSE /\ v.inserted = FALSE
    BY <2>1 DEF Readers
  <2>3. WorkOK(v)
    BY <2>2 DEF WorkOK
  <2>4. Onwards(p, v) /\ work[p] # NoWork
    BY <1>1, <1>4, <2>1 DEF ReadNarratives, Reached
  <2> QED BY <1>1, <2>2, <2>3, <2>4, OnwardsKeeps
<1>5. ASSUME ReadNarratives(p), ActiveOf(w.ids) = w.ids PROVE PrivacyInv'
  <2>1. CASE Tells(p, "unavailable", <<>>)
    BY <2>1, TellsKeeps
  <2>2. CASE Tells(p, "text", [id \in w.ids |-> sidecars[id].text])
    <3>1. \A id \in w.ids : sidecars[id].status = "active"
      BY <1>5 DEF ActiveOf
    <3>2. \A k \in kept : k.id \in w.ids => sidecars[k.id].text = k.text
      BY <3>1, ShownIsKept
    <3> QED BY <2>2, <3>2, TellsKeeps
  <2> QED BY <1>1, <1>5, <2>1, <2>2 DEF ReadNarratives
<1> QED BY <1>3, <1>4, <1>5

\* The list of all archives.
LEMMA ListKeeps ==
  ASSUME PrivacyInv, NEW p \in Writers, ListArchives(p)
  PROVE  PrivacyInv'
<1>1. PICK said \in {"listed", "unavailable"} : Tells(p, said, <<>>)
  BY DEF ListArchives
<1> QED BY <1>1, TellsKeeps

\* The export of one archive.
LEMMA ExportKeeps ==
  ASSUME PrivacyInv, NEW p \in Writers, NEW id \in Sidecars, ExportArchive(p, id)
  PROVE  PrivacyInv'
<1>1. ASSUME NEW said \in {"not found", "unavailable"}, Tells(p, said, <<>>)
      PROVE  PrivacyInv'
  BY <1>1, TellsKeeps
<1>2. ASSUME ManifestVerified(p, id), Tells(p, "text", [i \in {id} |-> sidecars[i].text])
      PROVE  PrivacyInv'
  <2>1. sidecars[id].status = "active"
    BY <1>2 DEF ManifestVerified, Decryptable
  <2>2. \A k \in kept : k.id \in {id} => sidecars[k.id].text = k.text
    BY <2>1, ShownIsKept
  <2> QED BY <1>2, <2>2, TellsKeeps
<1> QED BY <1>1, <1>2 DEF ExportArchive

-----------------------------------------------------------------------------
(* Writers before their commit *)

\* The steps of a session are a writer's but for the lock of an erasure.
LEMMA WriterAtStep ==
  ASSUME PrivacyInv, NEW p \in Writers,
         NEW step \in {"get", "insert", "verify", "guard", "seal"},
         Reached(p, step)
  PROVE  /\ work[p] # NoWork /\ work[p] \in Sessions /\ work[p].step = step
         /\ work[p].op \in {"keep", "archive"} /\ WriterOK(work[p])
         /\ step \in {"guard", "seal"} => work[p].op = "archive"
<1>1. work[p] # NoWork /\ work[p].step = step /\ work[p] \in Sessions
  BY WorkFacts DEF Reached, PrivacyInv
<1>2. work[p].op \in {"keep", "archive", "erase"} /\ WorkOK(work[p])
  BY <1>1 DEF Sessions, PrivacyInv
<1>3. work[p].op # "erase"
  BY <1>1, <1>2 DEF WorkOK, EraserOK
<1>4. WriterOK(work[p])
  BY <1>2, <1>3 DEF WorkOK
<1> QED BY <1>1, <1>2, <1>3, <1>4 DEF WriterOK

\* A row as it is has loaded content.
LEMMA LoadedNow ==
  ASSUME PrivacyInv, NEW w, w.id \in Sidecars, w.row = sidecars[w.id], w.row # NoRow,
         w.inserted = FALSE
  PROVE  LoadedOK(w)
BY DEF PrivacyInv, RowsBind, LoadedOK

\* The first read of the sidecar.
LEMMA GetKeeps ==
  ASSUME PrivacyInv, NEW p \in Writers, GetExisting(p)
  PROVE  PrivacyInv'
<1>1. PICK w \in Sessions : w = work[p]
  BY WriterAtStep DEF GetExisting
<1>2. /\ work[p] # NoWork /\ w.step = "get" /\ w.op \in {"keep", "archive"}
      /\ WriterOK(w) /\ w.inserted = FALSE /\ w.holds = FALSE
  BY <1>1, WriterAtStep DEF GetExisting, WriterOK
<1>3. w.id \in Sidecars
  BY DEF Sessions
<1>4. CASE sidecars[w.id] = NoRow
  <2>1. PICK v : v = [w EXCEPT !.step = "insert"]
    OBVIOUS
  <2>2. /\ v \in Sessions /\ v.step = "insert" /\ v.op = w.op /\ v.id = w.id
        /\ v.kind = w.kind /\ v.text = w.text /\ v.plan = w.plan /\ v.sealed = w.sealed
        /\ v.inserted = FALSE /\ v.holds = FALSE /\ v.erasing = w.erasing
    BY <1>2, <2>1 DEF Sessions
  <2>3. WorkOK(v)
    BY <1>2, <2>2 DEF WorkOK, WriterOK
  <2> QED BY <1>1, <1>2, <1>4, <2>1, <2>2, <2>3, OnwardsKeeps DEF GetExisting
<1>5. CASE sidecars[w.id] # NoRow
  <2>1. PICK v : v = [w EXCEPT !.step = "verify", !.row = sidecars[w.id]]
    OBVIOUS
  <2>2. sidecars[w.id] \in Rows
    BY <1>3, <1>5 DEF PrivacyInv, PrivacyTypeOK
  <2>3. /\ v \in Sessions /\ v.step = "verify" /\ v.op = w.op /\ v.id = w.id
        /\ v.kind = w.kind /\ v.text = w.text /\ v.plan = w.plan /\ v.sealed = w.sealed
        /\ v.inserted = FALSE /\ v.holds = FALSE /\ v.erasing = w.erasing
        /\ v.row = sidecars[w.id]
    BY <1>2, <2>1, <2>2 DEF Sessions
  <2>4. LoadedOK(v)
    BY <1>3, <1>5, <2>3, LoadedNow
  <2>5. WorkOK(v)
    BY <1>2, <2>3, <2>4 DEF WorkOK, WriterOK
  <2> QED BY <1>1, <1>2, <1>5, <2>1, <2>3, <2>5, OnwardsKeeps DEF GetExisting
<1> QED BY <1>4, <1>5

\* The insert: it is the only one of its id, or finds the row of another.
LEMMA InsertKeeps ==
  ASSUME PrivacyInv, NEW p \in Writers, InsertOrGet(p)
  PROVE  PrivacyInv'
<1>1. PICK w \in Sessions : w = work[p]
  BY WriterAtStep DEF InsertOrGet
<1>2. /\ work[p] # NoWork /\ w.step = "insert" /\ w.op \in {"keep", "archive"}
      /\ WriterOK(w) /\ w.inserted = FALSE /\ w.holds = FALSE
  BY <1>1, WriterAtStep DEF InsertOrGet, WriterOK
<1>3. w.id \in Sidecars /\ w.kind \in ContentKinds /\ w.text \in Texts
  BY <1>2 DEF Sessions, WriterOK
<1>4. CASE sidecars[w.id] = NoRow
  <2>1. PICK r : r = Encrypted(p, w.id, w.kind, w.text)
    OBVIOUS
  <2>2. r \in Rows /\ Binds(r) /\ r.status = "active" /\ r # NoRow
    BY <1>3, <2>1, EncryptedFacts, RowFacts DEF PrivacyInv
  <2>3. PICK v : v = [w EXCEPT !.step = "verify", !.inserted = TRUE, !.row = r]
    OBVIOUS
  <2>4. /\ v \in Sessions /\ v.step = "verify" /\ v.op = w.op /\ v.id = w.id
        /\ v.kind = w.kind /\ v.text = w.text /\ v.plan = w.plan /\ v.sealed = w.sealed
        /\ v.inserted = TRUE /\ v.holds = FALSE /\ v.erasing = w.erasing /\ v.row = r
    BY <1>2, <2>2, <2>3 DEF Sessions
  <2>5. LoadedOK(v)
    BY <1>4, <2>2, <2>4 DEF LoadedOK
  <2>6. WorkOK(v)
    BY <1>2, <2>4, <2>5 DEF WorkOK, WriterOK
  <2>7. Onwards(p, v) /\ ~InsertedByOther(p, v.id)
    BY <1>1, <1>4, <2>1, <2>3, <2>4 DEF InsertOrGet
  <2> QED BY <1>1, <1>2, <2>4, <2>6, <2>7, OnwardsKeeps
<1>5. CASE sidecars[w.id] # NoRow
  <2>1. PICK v : v = [w EXCEPT !.step = "verify", !.row = sidecars[w.id]]
    OBVIOUS
  <2>2. sidecars[w.id] \in Rows
    BY <1>3, <1>5 DEF PrivacyInv, PrivacyTypeOK
  <2>3. /\ v \in Sessions /\ v.step = "verify" /\ v.op = w.op /\ v.id = w.id
        /\ v.kind = w.kind /\ v.text = w.text /\ v.plan = w.plan /\ v.sealed = w.sealed
        /\ v.inserted = FALSE /\ v.holds = FALSE /\ v.erasing = w.erasing
        /\ v.row = sidecars[w.id]
    BY <1>2, <2>1, <2>2 DEF Sessions
  <2>4. LoadedOK(v)
    BY <1>3, <1>5, <2>3, LoadedNow
  <2>5. WorkOK(v)
    BY <1>2, <2>3, <2>4 DEF WorkOK, WriterOK
  <2>6. Onwards(p, v)
    BY <1>1, <1>5, <2>1 DEF InsertOrGet
  <2> QED BY <1>1, <1>2, <2>3, <2>5, <2>6, OnwardsKeeps
<1> QED BY <1>4, <1>5

\* Verification passes a row that is in force, of the kind and of the text.
LEMMA VerifyKeeps ==
  ASSUME PrivacyInv, NEW p \in Writers, VerifyExact(p)
  PROVE  PrivacyInv'
<1>1. PICK w \in Sessions : w = work[p]
  BY WriterAtStep DEF VerifyExact
<1>2. /\ work[p] # NoWork /\ w.step = "verify" /\ w.op \in {"keep", "archive"}
      /\ WriterOK(w) /\ LoadedOK(w) /\ w.holds = FALSE
  BY <1>1, WriterAtStep DEF VerifyExact, WriterOK
<1>3. CASE Decryptable(p, w.row, w.kind) /\ SameText(w.row, w.text)
  <2>1. PICK step : step = IF w.op = "archive" THEN "guard" ELSE "commit"
    OBVIOUS
  <2>2. PICK v : v = [w EXCEPT !.step = step]
    OBVIOUS
  <2>3. /\ v \in Sessions /\ v.step = step /\ v.op = w.op /\ v.id = w.id
        /\ v.kind = w.kind /\ v.text = w.text /\ v.plan = w.plan /\ v.sealed = w.sealed
        /\ v.inserted = w.inserted /\ v.holds = FALSE /\ v.erasing = w.erasing
        /\ v.row = w.row
    BY <1>2, <2>1, <2>2 DEF Sessions
  <2>4. LoadedOK(v)
    BY <1>2, <2>3 DEF LoadedOK
  <2>5. w.row.status = "active" /\ w.row.kind = w.kind /\ w.row.text = w.text
    BY <1>3 DEF Decryptable, SameText
  <2>6. WriterOK(v)
    BY <1>2, <2>1, <2>3, <2>4, <2>5 DEF WriterOK
  <2>7. WorkOK(v)
    BY <1>2, <2>3, <2>6 DEF WorkOK
  <2>8. Onwards(p, v)
    BY <1>1, <1>3, <2>1, <2>2 DEF VerifyExact
  <2> QED BY <1>1, <1>2, <2>3, <2>7, <2>8, OnwardsKeeps
<1>4. CASE ~(Decryptable(p, w.row, w.kind) /\ SameText(w.row, w.text))
  BY <1>1, <1>4, RollBackKeeps DEF VerifyExact
<1> QED BY <1>3, <1>4

\* The guard of a manifest takes the row and finds its content in force.
LEMMA GuardKeeps ==
  ASSUME PrivacyInv, NEW p \in Writers, GuardManifest(p)
  PROVE  PrivacyInv'
<1>1. PICK w \in Sessions : w = work[p]
  BY WriterAtStep DEF GuardManifest
<1>2. /\ work[p] # NoWork /\ w.step = "guard" /\ w.op = "archive"
      /\ WriterOK(w) /\ LoadedOK(w)
  BY <1>1, WriterAtStep DEF GuardManifest, WriterOK
<1>3. ~LockedByOther(p, w.id)
  BY <1>1 DEF GuardManifest, WaitsForRow
<1>4. CASE /\ RowNow(w).kind = "import_archive" /\ RowNow(w).status = "active"
           /\ RowNow(w).hash = w.row.hash
  <2>1. PICK v : v = [w EXCEPT !.step = "seal", !.holds = TRUE]
    OBVIOUS
  <2>2. /\ v \in Sessions /\ v.step = "seal" /\ v.op = w.op /\ v.id = w.id
        /\ v.kind = w.kind /\ v.text = w.text /\ v.plan = w.plan /\ v.sealed = w.sealed
        /\ v.inserted = w.inserted /\ v.holds = TRUE /\ v.erasing = w.erasing
        /\ v.row = w.row
    BY <1>2, <2>1 DEF Sessions
  <2>3. LoadedOK(v)
    BY <1>2, <2>2 DEF LoadedOK
  <2>4. w.inserted = FALSE => sidecars[w.id].status = "active"
    BY <1>4 DEF RowNow
  <2>5. WriterOK(v)
    BY <1>2, <2>2, <2>3, <2>4 DEF WriterOK
  <2>6. WorkOK(v)
    BY <1>2, <2>2, <2>5 DEF WorkOK
  <2>7. Onwards(p, v)
    BY <1>1, <1>3, <1>4, <2>1 DEF GuardManifest
  <2>8. v.inserted = TRUE => work[p].inserted = TRUE
    BY <1>1, <2>2
  <2> QED BY <1>1, <1>2, <1>3, <2>2, <2>6, <2>7, <2>8, OnwardsKeeps
<1>5. CASE ~(/\ RowNow(w).kind = "import_archive" /\ RowNow(w).status = "active"
             /\ RowNow(w).hash = w.row.hash)
  BY <1>1, <1>5, RollBackKeeps DEF GuardManifest
<1> QED BY <1>4, <1>5

\* The insert of a manifest, or the same one that is there.
LEMMA SealKeeps ==
  ASSUME PrivacyInv, NEW p \in Writers, InsertManifest(p)
  PROVE  PrivacyInv'
<1>1. PICK w \in Sessions : w = work[p]
  BY WriterAtStep DEF InsertManifest
<1>2. /\ work[p] # NoWork /\ w.step = "seal" /\ w.op = "archive"
      /\ WriterOK(w) /\ LoadedOK(w) /\ w.holds = TRUE
  BY <1>1, WriterAtStep DEF InsertManifest, WriterOK
<1>3. CASE manifests[w.id] \in {NoManifest, Manifest(w)}
  <2>1. PICK v : v = [w EXCEPT !.step = "commit", !.sealed = TRUE, !.holds = TRUE]
    OBVIOUS
  <2>2. /\ v \in Sessions /\ v.step = "commit" /\ v.op = w.op /\ v.id = w.id
        /\ v.kind = w.kind /\ v.text = w.text /\ v.plan = w.plan /\ v.sealed = TRUE
        /\ v.inserted = w.inserted /\ v.holds = TRUE /\ v.erasing = w.erasing
        /\ v.row = w.row
    BY <1>2, <2>1 DEF Sessions
  <2>3. LoadedOK(v)
    BY <1>2, <2>2 DEF LoadedOK
  <2>4. Manifest(v) = Manifest(w)
    BY <2>2 DEF Manifest
  <2>5. WriterOK(v)
    BY <1>2, <1>3, <2>2, <2>3, <2>4 DEF WriterOK
  <2>6. WorkOK(v)
    BY <1>2, <2>2, <2>5 DEF WorkOK
  <2>7. Onwards(p, v)
    BY <1>1, <1>3, <2>1 DEF InsertManifest
  <2>8. v.inserted = TRUE => work[p].inserted = TRUE
    BY <1>1, <2>2
  <2> QED BY <1>1, <1>2, <2>2, <2>6, <2>7, <2>8, OnwardsKeeps
<1>4. CASE manifests[w.id] \notin {NoManifest, Manifest(w)}
  BY <1>1, <1>4, RollBackKeeps DEF InsertManifest
<1> QED BY <1>3, <1>4

\* The lock of an erasure, and what it finds.
LEMMA EraseKeeps ==
  ASSUME PrivacyInv, NEW p \in Writers, EraseLocked(p)
  PROVE  PrivacyInv'
<1>1. work[p] # NoWork /\ work[p].step = "lock" /\ work[p] \in Sessions
  BY WorkFacts DEF EraseLocked, Reached, PrivacyInv
<1>2. PICK w \in Sessions : w = work[p]
  BY <1>1
<1>3. WorkOK(w) /\ w.op \in {"keep", "archive", "erase"}
  BY <1>2 DEF PrivacyInv, Sessions
<1>4. w.op = "erase" /\ EraserOK(w)
  BY <1>1, <1>2, <1>3 DEF WorkOK, WriterOK
<1>5. CASE RollBack(p, "conflict") \/ RollBack(p, "failed")
  BY <1>5, RollBackKeeps
<1>6. CASE /\ sidecars[w.id] # NoRow
           /\ ~(sidecars[w.id].status = "active" /\ manifests[w.id] # NoManifest)
           /\ Onwards(p, [w EXCEPT !.step = "commit", !.holds = TRUE,
                                   !.erasing = sidecars[w.id].status = "active"])
  <2>1. PICK e \in BOOLEAN : e = (sidecars[w.id].status = "active")
    OBVIOUS
  <2>2. PICK v : v = [w EXCEPT !.step = "commit", !.holds = TRUE, !.erasing = e]
    OBVIOUS
  <2>3. /\ v \in Sessions /\ v.step = "commit" /\ v.op = "erase" /\ v.id = w.id
        /\ v.sealed = w.sealed /\ v.inserted = w.inserted /\ v.holds = TRUE /\ v.erasing = e
    BY <1>4, <2>2 DEF Sessions
  <2>4. e = TRUE => sidecars[w.id].status = "active" /\ manifests[w.id] = NoManifest
    BY <1>6, <2>1
  <2>5. EraserOK(v)
    BY <1>4, <1>6, <2>3, <2>4 DEF EraserOK
  <2>6. WorkOK(v)
    BY <2>3, <2>5 DEF WorkOK
  <2>7. Onwards(p, v) /\ ~LockedByOther(p, v.id)
    BY <1>2, <1>6, <2>1, <2>2, <2>3 DEF EraseLocked
  <2>8. v.inserted = TRUE => work[p].inserted = TRUE
    BY <1>2, <2>3
  <2> QED BY <1>1, <1>2, <2>3, <2>6, <2>7, <2>8, OnwardsKeeps
<1> QED BY <1>2, <1>5, <1>6 DEF EraseLocked

-----------------------------------------------------------------------------
(* The commit *)

\* What a session that commits has established.
LEMMA AtCommit ==
  ASSUME PrivacyInv, NEW p \in Writers, CommitContent(p)
  PROVE  LET w == work[p] IN
         /\ w \in Sessions /\ w # NoWork /\ w.step = "commit" /\ w.id \in Sidecars
         /\ w.op = "erase" => EraserOK(w)
         /\ w.op # "erase" => w.op \in {"keep", "archive"} /\ WriterOK(w) /\ LoadedOK(w)
<1>1. work[p] # NoWork /\ work[p].step = "commit" /\ work[p] \in Sessions
  BY WorkFacts DEF CommitContent, Reached, PrivacyInv
<1>2. WorkOK(work[p]) /\ work[p].op \in {"keep", "archive", "erase"} /\ work[p].id \in Sidecars
  BY <1>1 DEF PrivacyInv, Sessions
<1> QED BY <1>1, <1>2 DEF WorkOK, WriterOK

\* What a commit leaves of the rows: a new one where there was none, an erased one where
\* there was one in force, all others as they were.
LEMMA RowsAfterCommit ==
  ASSUME PrivacyInv, NEW p \in Writers, CommitContent(p)
  PROVE  LET w == work[p] IN
         /\ sidecars' \in [Sidecars -> Rows \cup {NoRow}]
         /\ RowsBind'
         /\ \A i \in Sidecars : sidecars[i] # NoRow =>
              sidecars'[i] # NoRow /\ sidecars'[i].hash = sidecars[i].hash
         /\ \A i \in Sidecars \ {w.id} : sidecars'[i] = sidecars[i]
         /\ w.inserted = TRUE => sidecars'[w.id] = w.row
         /\ w.inserted = FALSE /\ w.erasing = FALSE => sidecars'[w.id] = sidecars[w.id]
<1>1. PICK w \in Sessions : w = work[p]
  BY AtCommit
<1>2. w.id \in Sidecars /\ w.inserted \in BOOLEAN /\ w.erasing \in BOOLEAN
  BY DEF Sessions
<1>3. sidecars \in [Sidecars -> Rows \cup {NoRow}] /\ RowsBind
  BY DEF PrivacyInv, PrivacyTypeOK
<1>4. CASE w.inserted = TRUE
  <2>1. sidecars' = [sidecars EXCEPT ![w.id] = w.row]
    BY <1>1, <1>4 DEF CommitContent
  <2>2. w.op # "erase"
    BY <1>1, <1>4, AtCommit DEF EraserOK
  <2>3. w.row # NoRow /\ Binds(w.row) /\ sidecars[w.id] = NoRow /\ w.row \in Rows
    BY <1>1, <1>4, <2>2, AtCommit DEF LoadedOK, Sessions
  <2>4. \A i \in Sidecars : sidecars'[i] = IF i = w.id THEN w.row ELSE sidecars[i]
    BY <1>3, <2>1
  <2>5. RowsBind'
    BY <1>3, <2>3, <2>4 DEF RowsBind, Binds
  <2>6. sidecars' \in [Sidecars -> Rows \cup {NoRow}]
    BY <1>3, <2>1, <2>3
  <2> QED BY <1>1, <1>2, <1>4, <2>3, <2>4, <2>5, <2>6
<1>5. CASE w.inserted = FALSE /\ w.erasing = TRUE
  <2>1. PICK r : r = Erased(sidecars[w.id])
    OBVIOUS
  <2>2. sidecars' = [sidecars EXCEPT ![w.id] = r]
    BY <1>1, <1>2, <1>3, <1>5, <2>1 DEF CommitContent
  <2>3. w.op = "erase"
    BY <1>1, <1>5, AtCommit DEF WriterOK
  <2>4. sidecars[w.id] # NoRow
    BY <1>1, <1>5, <2>3, AtCommit DEF EraserOK
  <2>5. sidecars[w.id] \in Rows /\ Binds(sidecars[w.id])
    BY <1>2, <1>3, <2>4 DEF RowsBind
  <2>6. r \in Rows /\ Binds(r) /\ r.hash = sidecars[w.id].hash /\ r # NoRow
    BY <2>1, <2>5, ErasedFacts, RowFacts
  <2>7. \A i \in Sidecars : sidecars'[i] = IF i = w.id THEN r ELSE sidecars[i]
    BY <1>3, <2>2
  <2>8. RowsBind'
    BY <1>3, <2>6, <2>7 DEF RowsBind, Binds
  <2>9. sidecars' \in [Sidecars -> Rows \cup {NoRow}]
    BY <1>3, <2>2, <2>6
  <2> QED BY <1>1, <1>2, <1>5, <2>6, <2>7, <2>8, <2>9
<1>6. CASE w.inserted = FALSE /\ w.erasing = FALSE
  <2>1. sidecars' = sidecars
    BY <1>1, <1>3, <1>6 DEF CommitContent
  <2> QED BY <1>1, <1>3, <1>6, <2>1 DEF RowsBind
<1> QED BY <1>2, <1>4, <1>5, <1>6

\* What a commit leaves of the manifests: a sealed one is new or was the same.
LEMMA ManifestsAfterCommit ==
  ASSUME PrivacyInv, NEW p \in Writers, CommitContent(p)
  PROVE  LET w == work[p] IN
         /\ DOMAIN manifests' = Sidecars
         /\ \A i \in Sidecars \ {w.id} : manifests'[i] = manifests[i]
         /\ w.op = "archive" => /\ manifests'[w.id] = Manifest(w)
                                /\ manifests[w.id] \in {NoManifest, Manifest(w)}
         /\ w.op # "archive" => manifests'[w.id] = manifests[w.id]
<1>1. PICK w \in Sessions : w = work[p]
  BY AtCommit
<1>2. w.id \in Sidecars /\ w.sealed \in BOOLEAN /\ w.op \in {"keep", "archive", "erase"}
  BY DEF Sessions
<1>3. DOMAIN manifests = Sidecars
  BY DEF PrivacyInv, PrivacyTypeOK
<1>4. w.op = "archive" => w.sealed = TRUE /\ manifests[w.id] \in {NoManifest, Manifest(w)}
  BY <1>1, AtCommit DEF WriterOK
<1>5. w.op # "archive" => w.sealed = FALSE
  BY <1>1, <1>2, AtCommit DEF WriterOK, EraserOK
<1>6. manifests' = [manifests EXCEPT ![w.id] = IF w.sealed THEN Manifest(w) ELSE @]
  BY <1>1 DEF CommitContent
<1> QED BY <1>1, <1>2, <1>3, <1>4, <1>5, <1>6

\* A commit keeps what was kept before, and what it adds has its row.
LEMMA CommitKept ==
  ASSUME PrivacyInv, NEW p \in Writers, CommitContent(p)
  PROVE  /\ kept' \subseteq [id : Sidecars, kind : ContentKinds, text : Texts,
                             plan : Plans \cup {Absent}]
         /\ \A k \in kept' : KeptOK(k)'
<1>1. PICK w \in Sessions : w = work[p]
  BY AtCommit
<1>2. w.id \in Sidecars
  BY DEF Sessions
<1>3. ASSUME NEW k \in kept PROVE KeptOK(k)'
  <2>1. k.id \in Sidecars /\ KeptOK(k)
    BY DEF PrivacyInv, PrivacyTypeOK
  <2>2. sidecars'[k.id] # NoRow /\ sidecars'[k.id].hash = sidecars[k.id].hash
    BY <2>1, RowsAfterCommit DEF KeptOK
  <2>3. k.plan # Absent => manifests'[k.id].plan = k.plan
    <3>1. CASE k.id = w.id /\ w.op = "archive"
      <4>1. NoManifest.plan = Absent
        BY DEF NoManifest
      <4> QED BY <1>1, <2>1, <3>1, <4>1, ManifestsAfterCommit DEF KeptOK
    <3>2. CASE ~(k.id = w.id /\ w.op = "archive")
      <4>1. manifests'[k.id] = manifests[k.id]
        BY <1>1, <2>1, <3>2, ManifestsAfterCommit
      <4> QED BY <2>1, <4>1 DEF KeptOK
    <3> QED BY <3>1, <3>2
  <2> QED BY <2>1, <2>2, <2>3 DEF KeptOK
<1>4. CASE w.op = "erase"
  <2>1. kept' = kept
    BY <1>1, <1>4 DEF CommitContent
  <2> QED BY <1>3, <2>1 DEF PrivacyInv, PrivacyTypeOK
<1>5. CASE w.op # "erase"
  <2>1. PICK n : n = [id |-> w.id, kind |-> w.kind, text |-> w.text, plan |-> w.plan]
    OBVIOUS
  <2>2. kept' = kept \cup {n}
    BY <1>1, <1>5, <2>1 DEF CommitContent
  <2>3. /\ w.op \in {"keep", "archive"} /\ WriterOK(w) /\ LoadedOK(w) /\ w.step = "commit"
        /\ w.inserted \in BOOLEAN /\ w.plan \in Plans \cup {Absent}
    BY <1>1, <1>5, AtCommit DEF Sessions
  <2>4. n.id = w.id /\ n.kind = w.kind /\ n.text = w.text /\ n.plan = w.plan
        /\ n \in [id : Sidecars, kind : ContentKinds, text : Texts, plan : Plans \cup {Absent}]
    BY <1>2, <2>1, <2>3 DEF WriterOK
  <2>5. w.row.hash[4] = w.kind /\ w.row.hash[5] = w.text /\ w.row # NoRow
    BY <2>3 DEF WriterOK, LoadedOK, Binds
  <2>6. sidecars'[w.id] # NoRow /\ sidecars'[w.id].hash = w.row.hash
    <3>1. CASE w.inserted = TRUE
      BY <1>1, <2>5, <3>1, RowsAfterCommit
    <3>2. CASE w.inserted = FALSE
      BY <1>1, <1>2, <2>3, <3>2, RowsAfterCommit DEF LoadedOK
    <3> QED BY <2>3, <3>1, <3>2
  <2>7. w.plan # Absent => manifests'[w.id].plan = w.plan
    <3>1. w.plan # Absent => w.op = "archive"
      BY <2>3 DEF WriterOK
    <3>2. Manifest(w).plan = w.plan
      BY DEF Manifest
    <3> QED BY <1>1, <3>1, <3>2, ManifestsAfterCommit
  <2>8. KeptOK(n)'
    BY <2>4, <2>5, <2>6, <2>7 DEF KeptOK
  <2> QED BY <1>3, <2>2, <2>4, <2>8 DEF PrivacyInv, PrivacyTypeOK
<1> QED BY <1>4, <1>5

\* A commit keeps the seals: it seals content that is in force, and erases none that is
\* sealed.
LEMMA CommitSeals ==
  ASSUME PrivacyInv, NEW p \in Writers, CommitContent(p), NEW i \in Sidecars
  PROVE  Sealed(i)'
<1>1. PICK w \in Sessions : w = work[p]
  BY AtCommit
<1>2. w.inserted \in BOOLEAN /\ w.erasing \in BOOLEAN /\ w.op \in {"keep", "archive", "erase"}
  BY DEF Sessions
<1>3. CASE i # w.id
  <2>1. sidecars'[i] = sidecars[i]
    BY <1>1, <1>3, RowsAfterCommit
  <2>2. manifests'[i] = manifests[i] /\ Sealed(i)
    BY <1>1, <1>3, ManifestsAfterCommit DEF PrivacyInv
  <2> QED BY <2>1, <2>2 DEF Sealed
<1>4. CASE i = w.id /\ w.op = "archive"
  <2>1. /\ WriterOK(w) /\ LoadedOK(w) /\ w.step = "commit" /\ w.row.status = "active"
        /\ w.row.kind = "import_archive" /\ w.row # NoRow /\ Binds(w.row)
        /\ w.erasing = FALSE
    BY <1>1, <1>4, AtCommit DEF WriterOK, LoadedOK
  <2>2. /\ sidecars'[i].status = "active" /\ sidecars'[i].kind = "import_archive"
        /\ sidecars'[i].hash = w.row.hash /\ sidecars'[i].key = w.row.key
    <3>1. CASE w.inserted = TRUE
      BY <1>1, <1>4, <2>1, <3>1, RowsAfterCommit
    <3>2. CASE w.inserted = FALSE
      <4>1. sidecars'[i] = sidecars[i]
        BY <1>1, <1>4, <2>1, <3>2, RowsAfterCommit
      <4>2. sidecars[i].status = "active" /\ sidecars[i].hash = w.row.hash
            /\ sidecars[i] # NoRow
        BY <1>4, <2>1, <3>2 DEF WriterOK, LoadedOK
      <4>3. Binds(sidecars[i]) /\ sidecars[i] \in Rows /\ w.row \in Rows
        BY <2>1, <4>2 DEF PrivacyInv, PrivacyTypeOK, RowsBind, Sessions
      <4> QED BY <2>1, <4>1, <4>2, <4>3, SameContent
    <3> QED BY <1>2, <3>1, <3>2
  <2>3. manifests'[i] = Manifest(w)
    BY <1>1, <1>4, ManifestsAfterCommit
  <2>4. Manifest(w) = [plan |-> w.plan, commitment |-> w.row.hash,
                       seal |-> Seal(w.row.key, i, w.plan, w.row.hash)]
        /\ Manifest(w).plan = w.plan
    BY <1>4 DEF Manifest
  <2> QED BY <2>2, <2>3, <2>4 DEF Sealed
<1>5. CASE i = w.id /\ w.op # "archive"
  <2>1. manifests'[i] = manifests[i] /\ Sealed(i)
    BY <1>1, <1>5, ManifestsAfterCommit DEF PrivacyInv
  <2>2. CASE w.inserted = TRUE
    <3>1. sidecars[i] = NoRow
      BY <1>1, <1>5, <2>2, AtCommit DEF LoadedOK, EraserOK
    <3>2. manifests[i] = NoManifest
      BY <2>1, <3>1 DEF Sealed, NoRow
    <3> QED BY <2>1, <3>2 DEF Sealed
  <2>3. CASE w.erasing = TRUE
    <3>1. manifests[i] = NoManifest
      BY <1>1, <1>5, <2>3, AtCommit DEF EraserOK, WriterOK
    <3> QED BY <2>1, <3>1 DEF Sealed
  <2>4. CASE w.inserted = FALSE /\ w.erasing = FALSE
    <3>1. sidecars'[i] = sidecars[i]
      BY <1>1, <1>5, <2>4, RowsAfterCommit
    <3> QED BY <2>1, <3>1 DEF Sealed
  <2> QED BY <1>2, <2>2, <2>3, <2>4
<1> QED BY <1>2, <1>3, <1>4, <1>5

\* The other sessions survive a commit: they hold no row it holds, and rely of a row they
\* do not hold only on what it is committed to.
LEMMA CommitOthers ==
  ASSUME PrivacyInv, NEW p \in Writers, CommitContent(p), NEW q \in Writers \ {p}
  PROVE  WorkOK(work[q])'
<1>1. PICK w \in Sessions : w = work[p]
  BY AtCommit
<1>2. PICK x : x = work[q]
  OBVIOUS
<1>3. work'[q] = x
  BY <1>2 DEF CommitContent, PrivacyInv, PrivacyTypeOK
<1>4. WorkOK(x)
  BY <1>2 DEF PrivacyInv
<1>5. CASE x \notin Sessions
  <2>1. x.op \notin {"keep", "archive", "erase"}
    <3>1. x \in Readers \/ x = NoWork
      BY <1>2, <1>5 DEF PrivacyInv, PrivacyTypeOK
    <3>2. CASE x \in Readers
      BY <3>2 DEF Readers
    <3>3. CASE x = NoWork
      BY <3>3 DEF NoWork
    <3> QED BY <3>1, <3>2, <3>3
  <2> QED BY <1>3, <2>1 DEF WorkOK
<1>6. CASE x \in Sessions
  <2>1. x.id \in Sidecars /\ x.inserted \in BOOLEAN /\ x.op \in {"keep", "archive", "erase"}
        /\ x # NoWork
    BY <1>6, WorkFacts DEF Sessions, NoWork
  <2>2. x.id = w.id => ~(x.holds = TRUE /\ w.holds = TRUE)
                       /\ ~(x.inserted = TRUE /\ w.inserted = TRUE)
    BY <1>1, <1>2, <2>1, AtCommit DEF PrivacyInv, Apart
  <2>3. x.id = w.id /\ x.holds = TRUE =>
          /\ manifests'[x.id] = manifests[x.id]
          /\ w.erasing = FALSE
    <3>1. w.op = "archive" => w.holds = TRUE
      BY <1>1, AtCommit DEF WriterOK
    <3>2. w.erasing = TRUE => w.holds = TRUE
      BY <1>1, AtCommit DEF EraserOK, WriterOK
    <3>3. w.erasing \in BOOLEAN
      BY DEF Sessions
    <3> QED BY <1>1, <2>1, <2>2, <3>1, <3>2, <3>3, ManifestsAfterCommit
  <2>4. x.id # w.id => manifests'[x.id] = manifests[x.id] /\ sidecars'[x.id] = sidecars[x.id]
    <3>1. x.id # w.id => manifests'[x.id] = manifests[x.id]
      BY <1>1, <2>1, ManifestsAfterCommit
    <3>2. x.id # w.id => sidecars'[x.id] = sidecars[x.id]
      BY <1>1, <2>1, RowsAfterCommit
    <3> QED BY <3>1, <3>2
  <2>5. x.id = w.id /\ x.holds = TRUE /\ sidecars[x.id] # NoRow =>
          sidecars'[x.id] = sidecars[x.id]
    <3>1. w.inserted = TRUE => sidecars[w.id] = NoRow
      BY <1>1, AtCommit DEF EraserOK, LoadedOK
    <3>2. w.inserted \in BOOLEAN
      BY DEF Sessions
    <3> QED BY <1>1, <2>3, <3>1, <3>2, RowsAfterCommit
  <2>6. x.holds = TRUE =>
          /\ manifests'[x.id] = manifests[x.id]
          /\ sidecars[x.id] # NoRow => sidecars'[x.id] = sidecars[x.id]
    BY <2>3, <2>4, <2>5
  <2>7. sidecars[x.id] # NoRow =>
          sidecars'[x.id] # NoRow /\ sidecars'[x.id].hash = sidecars[x.id].hash
    BY <2>1, RowsAfterCommit
  <2>8. x.inserted = TRUE /\ sidecars[x.id] = NoRow => sidecars'[x.id] = NoRow
    <3>1. CASE x.id = w.id /\ x.inserted = TRUE /\ sidecars[x.id] = NoRow
      <4>1. w.inserted = FALSE
        BY <2>2, <3>1 DEF Sessions
      <4>2. w.erasing = FALSE
        <5>1. w.erasing = TRUE => sidecars[w.id].status = "active"
          BY <1>1, AtCommit DEF EraserOK, WriterOK
        <5>2. w.erasing \in BOOLEAN
          BY DEF Sessions
        <5> QED BY <3>1, <5>1, <5>2 DEF NoRow
      <4>3. sidecars'[w.id] = sidecars[w.id]
        BY <1>1, <4>1, <4>2, RowsAfterCommit
      <4> QED BY <3>1, <4>3
    <3>2. CASE x.id # w.id
      BY <2>4, <3>2
    <3> QED BY <3>1, <3>2
  <2>9. LoadedOK(x) => LoadedOK(x)'
    BY <2>7, <2>8 DEF LoadedOK
  <2>10. Manifest(x)' = Manifest(x)
    BY DEF Manifest, Seal
  <2>11. WriterOK(x) => WriterOK(x)'
    <3> SUFFICES ASSUME WriterOK(x) PROVE WriterOK(x)'
      OBVIOUS
    <3>2. x.step \in {"verify", "guard", "seal", "commit"} => LoadedOK(x)'
      BY <2>9 DEF WriterOK
    <3>3. x.op = "archive" /\ x.step \in {"seal", "commit"} =>
            x.holds = TRUE /\ (x.inserted = FALSE => sidecars'[x.id].status = "active")
      BY <2>6 DEF WriterOK, LoadedOK
    <3>4. x.op = "archive" /\ x.step = "commit" =>
            x.sealed = TRUE /\ manifests'[x.id] \in {NoManifest, Manifest(x)}
      BY <2>6 DEF WriterOK
    <3> QED BY <2>10, <3>2, <3>3, <3>4 DEF WriterOK
  <2>12. EraserOK(x) => EraserOK(x)'
    <3> SUFFICES ASSUME EraserOK(x) PROVE EraserOK(x)'
      OBVIOUS
    <3>2. x.step = "commit" => sidecars'[x.id] # NoRow
      BY <2>7 DEF EraserOK
    <3>3. x.erasing = TRUE =>
            sidecars'[x.id].status = "active" /\ manifests'[x.id] = NoManifest
      BY <2>6 DEF EraserOK
    <3> QED BY <3>2, <3>3 DEF EraserOK
  <2> QED BY <1>3, <1>4, <2>11, <2>12 DEF WorkOK
<1> QED BY <1>5, <1>6

\* A commit keeps the invariant.
LEMMA CommitKeeps ==
  ASSUME PrivacyInv, NEW p \in Writers, CommitContent(p)
  PROVE  PrivacyInv'
<1>1. \A q \in Writers : work'[q] = IF q = p THEN NoWork ELSE work[q]
  BY DEF CommitContent, PrivacyInv, PrivacyTypeOK
<1>2. PrivacyTypeOK'
  <2>1. work' \in [Writers -> Sessions \cup Readers \cup {NoWork}] /\ UNCHANGED rings
    BY DEF CommitContent, PrivacyInv, PrivacyTypeOK
  <2>2. sidecars' \in [Sidecars -> Rows \cup {NoRow}] /\ DOMAIN manifests' = Sidecars
    BY RowsAfterCommit, ManifestsAfterCommit
  <2> QED BY <2>1, <2>2, CommitKept DEF PrivacyInv, PrivacyTypeOK
<1>3. \A q \in Writers : WorkOK(work[q])'
  <2>1. WorkOK(work[p])'
    BY <1>1 DEF WorkOK, NoWork
  <2> QED BY <2>1, CommitOthers
<1>4. \A q, s \in Writers : q # s => Apart(work[q], work[s])'
  BY <1>1 DEF PrivacyInv, Apart
<1>5. ShownOK'
  BY DEF CommitContent, ShownOK
<1>6. RowsBind'
  BY RowsAfterCommit
<1> QED BY <1>2, <1>3, <1>4, <1>5, <1>6, CommitKept, CommitSeals DEF PrivacyInv

-----------------------------------------------------------------------------
(* Theorems *)

\* Every step keeps the invariant.
LEMMA NextPrivacyInv == PrivacyInv /\ [PrivacyNext]_privacyVars => PrivacyInv'
<1> SUFFICES ASSUME PrivacyInv, [PrivacyNext]_privacyVars PROVE PrivacyInv'
  OBVIOUS
<1>1. CASE UNCHANGED privacyVars
  BY <1>1
     DEF privacyVars, PrivacyInv, PrivacyTypeOK, RowsBind, KeptOK, Sealed, WorkOK, WriterOK,
         EraserOK, LoadedOK, Apart, ShownOK
<1>2. ASSUME NEW p \in Writers, LoadKeyring(p) \/ Fails(p) PROVE PrivacyInv'
  BY <1>2, KeyringKeeps, RollBackKeeps DEF Fails
<1>3. ASSUME NEW p \in Writers, NEW id \in Sidecars, NEW kind \in ContentKinds,
             NEW text \in Texts, AskToKeep(p, id, kind, text)
      PROVE  PrivacyInv'
  BY <1>3, AskToKeepKeeps
<1>4. ASSUME NEW p \in Writers, NEW id \in Sidecars, NEW text \in Texts, NEW plan \in Plans,
             AskToArchive(p, id, text, plan)
      PROVE  PrivacyInv'
  BY <1>4, AskToArchiveKeeps
<1>5. ASSUME NEW p \in Writers, NEW id \in Sidecars, AskToErase(p, id) PROVE PrivacyInv'
  BY <1>5, AskToEraseKeeps
<1>6. ASSUME NEW p \in Writers, NEW ids \in SUBSET Sidecars, AskNarratives(p, ids)
      PROVE  PrivacyInv'
  BY <1>6, AskNarrativesKeeps
<1>7. ASSUME NEW p \in Writers, NEW id \in Sidecars, ExportArchive(p, id) PROVE PrivacyInv'
  BY <1>7, ExportKeeps
<1>8. ASSUME NEW p \in Writers, ListArchives(p) PROVE PrivacyInv'
  BY <1>8, ListKeeps
<1>9. ASSUME NEW p \in Writers, ReadNarratives(p) \/ ReadMissing(p) PROVE PrivacyInv'
  BY <1>9, ReadsKeep
<1>10. ASSUME NEW p \in Writers,
              GetExisting(p) \/ InsertOrGet(p) \/ VerifyExact(p) \/ GuardManifest(p)
                \/ InsertManifest(p) \/ EraseLocked(p) \/ CommitContent(p)
       PROVE  PrivacyInv'
  BY <1>10, GetKeeps, InsertKeeps, VerifyKeeps, GuardKeeps, SealKeeps, EraseKeeps,
     CommitKeeps
<1> QED BY <1>1, <1>2, <1>3, <1>4, <1>5, <1>6, <1>7, <1>8, <1>9, <1>10 DEF PrivacyNext

\* In every behaviour rows, keyrings and sessions have their shapes.
THEOREM PrivacyTypes == PrivacySpec => []PrivacyTypeOK
<1>1. PrivacyInv => PrivacyTypeOK
  BY DEF PrivacyInv
<1> QED BY <1>1, InitPrivacyInv, NextPrivacyInv, PTL DEF PrivacySpec

\* The invariant contains what is promised of protected content.
LEMMA PrivacyInvPromises == PrivacyInv => WhatIsKeptStays
<1> SUFFICES ASSUME PrivacyInv PROVE WhatIsKeptStays
  OBVIOUS
<1>1. \A j, k \in kept : j.id = k.id => j.text = k.text /\ j.kind = k.kind
  BY DEF PrivacyInv, KeptOK
<1>2. ASSUME NEW k \in kept, k.plan # Absent
      PROVE  manifests[k.id].plan = k.plan /\ sidecars[k.id].text = k.text
  <2>1. k.id \in Sidecars /\ manifests[k.id].plan = k.plan
    BY <1>2 DEF PrivacyInv, PrivacyTypeOK, KeptOK
  <2>2. manifests[k.id] # NoManifest
    BY <1>2, <2>1 DEF NoManifest
  <2>3. sidecars[k.id].status = "active"
    BY <2>1, <2>2 DEF PrivacyInv, Sealed
  <2> QED BY <2>1, <2>3, ShownIsKept
<1>3. ASSUME NEW id \in Sidecars, manifests[id] # NoManifest
      PROVE  /\ sidecars[id].status = "active" /\ sidecars[id].kind = "import_archive"
             /\ manifests[id].seal =
                    Seal(sidecars[id].key, id, manifests[id].plan, sidecars[id].hash)
  <2>1. PICK s : s = Seal(sidecars[id].key, id, manifests[id].plan, sidecars[id].hash)
    OBVIOUS
  <2>2. Sealed(id)
    BY DEF PrivacyInv
  <2> QED BY <1>3, <2>1, <2>2 DEF Sealed
<1> QED BY <1>1, <1>2, <1>3 DEF WhatIsKeptStays, PrivacyInv, ShownOK

\* For any number of processes, ids, texts and keyrings: what was acknowledged stays what
\* it was, a reader is shown nothing else, and a sealed archive cannot be erased
\* (create_or_exact_verify, create_or_exact_verify_archive, the triggers that guard
\* manifests and erasures).
THEOREM KeptContentStays == PrivacySpec => []WhatIsKeptStays
BY InitPrivacyInv, NextPrivacyInv, PrivacyInvPromises, PTL DEF PrivacySpec

-----------------------------------------------------------------------------
(* The repair of expenses *)

Balances == [payment : Int, mistaken : Int, clearing : Int]
Originals == [reversedBy : {"nobody", "user", "repair"}, classified : BOOLEAN]
Replacements == [posted : BOOLEAN, category : {"none", "wanted", "other"}, reversed : BOOLEAN]
LiveCounts == [spent : Nat, posted : Nat, other : Nat]
Catalogs == [category : {"absent", "planned"},
             accounts : {"absent", "planned", "closed", "foreign"}]
Inserts == {"new_category", "new_accounts"}
ToolStates == [step : {"category", "accounts", "repair", "catch_up", "verify"} \cup Inserts,
               payment : Int, left : SUBSET Expenses, since : LiveCounts,
               after : LiveCounts \cup {NotYet}]

\* Type invariant: the Book, the runs of the tool and what users did have their shapes.
RepairTypeOK ==
    /\ balances \in Balances
    /\ mistaken \in {"active", "closed"}
    /\ original \in [Expenses -> Originals]
    /\ replacement \in [Expenses -> Replacements]
    /\ catalog \in Catalogs
    /\ tool \in [Operators -> ToolStates \cup {Off}]
    /\ live \in LiveCounts
    /\ verified \in LiveCounts \cup {NotYet}

Standing == {e \in Expenses : original[e].reversedBy = "nobody"}
Entered == {e \in Expenses : replacement[e].posted /\ ~replacement[e].reversed}

\* The repairs enter what they reverse.
RepairedTogether ==
    \A e \in Expenses : original[e].reversedBy = "repair" <=> replacement[e].posted = TRUE

\* What users have done grows.
NotAfter(a, b) == a.spent <= b.spent /\ a.posted <= b.posted /\ a.other <= b.other

\* What a run has passed is provided, and one that began after a success, and inserts, does
\* so because users did something.
Provided(t) ==
    /\ t.step \in {"accounts", "new_accounts", "repair", "catch_up", "verify"} =>
         catalog.category = "planned"
    /\ t.step \in {"repair", "catch_up", "verify"} => catalog.accounts = "planned"
    /\ t.after # NotYet /\ verified = live => t.step \notin Inserts

\* A run that users left alone since it began has found every expense a candidate, and the
\* payment account as it is.
RunOK(t) ==
    t # Off =>
      /\ NotAfter(t.since, live)
      /\ t.after # NotYet => verified # NotYet
      /\ t.since = live => /\ t.payment = balances.payment
                           /\ \A e \in Expenses : Candidate(e)
                           /\ Provided(t)

\* What a successful run leaves, and stays while users do nothing.
Settled ==
    /\ \A e \in Expenses : /\ original[e].reversedBy = "repair" /\ ~original[e].classified
                           /\ replacement[e].posted /\ replacement[e].category = "wanted"
    /\ mistaken = "closed" /\ balances.mistaken = 0
    /\ catalog.category = "planned" /\ catalog.accounts = "planned"

RepairInv ==
    /\ RepairTypeOK
    /\ RepairedTogether
    /\ RepairsMoveTheExpense
    /\ \A p \in Operators : RunOK(tool[p])
    /\ NotAfter(verified, live)
    /\ verified = live => Settled
    /\ RerunsVerify

\* The balances in terms of what is counted.
LEMMA InUnits ==
  RepairsMoveTheExpense <=>
    /\ balances.mistaken = Cardinality(Standing) + live.posted
    /\ balances.clearing = Cardinality(Entered)
    /\ balances.payment =
         -(Cardinality(Standing) + Cardinality(Entered) + live.spent + live.posted)
BY DEF RepairsMoveTheExpense, Standing, Entered

\* The same of the balances after a step.
LEMMA InUnitsNext ==
  RepairsMoveTheExpense' <=>
    /\ balances'.mistaken = Cardinality(Standing') + live'.posted
    /\ balances'.clearing = Cardinality(Entered')
    /\ balances'.payment =
         -(Cardinality(Standing') + Cardinality(Entered') + live'.spent + live'.posted)
BY DEF RepairsMoveTheExpense, Standing, Entered

\* Initially nothing is repaired, and nobody did anything.
LEMMA InitRepairInv == RepairInit => RepairInv
<1> SUFFICES ASSUME RepairInit PROVE RepairInv
  OBVIOUS
<1>1. Cardinality(Expenses) \in Nat
  BY PlanIsNotEmpty, FS_CardinalityType
<1>2. RepairTypeOK
  BY <1>1
     DEF RepairInit, RepairTypeOK, Balances, Originals, Replacements, LiveCounts, Pending,
         Catalogs
<1>3. Standing = Expenses /\ Entered = {}
  BY DEF RepairInit, Standing, Entered, Pending
<1>4. RepairsMoveTheExpense
  <2>1. Cardinality(Entered) = 0 /\ Cardinality(Standing) = Cardinality(Expenses)
    BY <1>3, FS_EmptySet
  <2>2. /\ balances.mistaken = Cardinality(Expenses) /\ balances.clearing = 0
        /\ balances.payment = -Cardinality(Expenses) /\ live.posted = 0 /\ live.spent = 0
    BY DEF RepairInit
  <2> QED BY <1>1, <2>1, <2>2, InUnits
<1>5. NotAfter(verified, live) /\ verified # live
  BY DEF RepairInit, NotAfter, NotYet
<1>6. RepairedTogether /\ \A p \in Operators : RunOK(tool[p])
  BY DEF RepairInit, RepairedTogether, RunOK, Pending
<1>7. RerunsVerify
  BY <1>5 DEF RerunsVerify
<1> QED BY <1>2, <1>4, <1>5, <1>6, <1>7 DEF RepairInv

\* One unit, or more, from an account to another.
LEMMA MovedFacts ==
  ASSUME balances \in Balances, NEW from \in {"payment", "mistaken", "clearing"},
         NEW to \in {"payment", "mistaken", "clearing"}, from # to, NEW units \in Int
  PROVE  /\ Moved(from, to, units) \in Balances
         /\ Moved(from, to, units)[from] = balances[from] - units
         /\ Moved(from, to, units)[to] = balances[to] + units
         /\ \A x \in {"payment", "mistaken", "clearing"} :
              x # from /\ x # to => Moved(from, to, units)[x] = balances[x]
<1>1. PICK c : c = [balances EXCEPT ![from] = @ - units]
  OBVIOUS
<1>2. /\ c \in Balances /\ c[from] = balances[from] - units
      /\ \A x \in {"payment", "mistaken", "clearing"} \ {from} : c[x] = balances[x]
  BY <1>1 DEF Balances
<1>3. Moved(from, to, units) = [c EXCEPT ![to] = @ + units]
  BY <1>1, <1>2 DEF Moved, Balances
<1> QED BY <1>2, <1>3 DEF Balances

\* What is counted is finite.
LEMMA CountsAreFinite ==
  /\ IsFiniteSet(Standing) /\ Cardinality(Standing) \in Nat
  /\ IsFiniteSet(Entered) /\ Cardinality(Entered) \in Nat
<1>1. Standing \subseteq Expenses /\ Entered \subseteq Expenses
  BY DEF Standing, Entered
<1> QED BY <1>1, PlanIsNotEmpty, FS_Subset, FS_CardinalityType

\* After a step of a user, nothing of the past was done as of now.
LEMMA LiveGrows ==
  ASSUME RepairTypeOK, NEW what \in {"spent", "posted", "other"}, Lives(what)
  PROVE  /\ live' \in LiveCounts
         /\ \A x \in LiveCounts \cup {NotYet} :
              NotAfter(x, live) => NotAfter(x, live') /\ x # live'
<1>1. live' = [live EXCEPT ![what] = @ + 1] /\ live \in LiveCounts
  BY DEF Lives, RepairTypeOK
<1>2. live'.spent \in Nat /\ live'.posted \in Nat /\ live'.other \in Nat /\ live' \in LiveCounts
  BY <1>1 DEF LiveCounts
<1>3. /\ live'.spent >= live.spent /\ live'.posted >= live.posted /\ live'.other >= live.other
      /\ live'.spent > live.spent \/ live'.posted > live.posted \/ live'.other > live.other
  BY <1>1 DEF LiveCounts
<1>4. ASSUME NEW x \in LiveCounts \cup {NotYet}, NotAfter(x, live)
      PROVE  NotAfter(x, live') /\ x # live'
  <2>1. x.spent \in Int /\ x.posted \in Int /\ x.other \in Int
    BY DEF LiveCounts, NotYet
  <2>2. live.spent \in Nat /\ live.posted \in Nat /\ live.other \in Nat
    BY <1>1 DEF LiveCounts
  <2> QED BY <1>2, <1>3, <1>4, <2>1, <2>2 DEF NotAfter
<1> QED BY <1>2, <1>4

\* A step of a user leaves every run of the tool, and the success of the first, in the past.
LEMMA UserKeeps ==
  ASSUME RepairInv, NEW what \in {"spent", "posted", "other"}, Lives(what),
         balances' \in Balances, mistaken' \in {"active", "closed"},
         original' \in [Expenses -> Originals], replacement' \in [Expenses -> Replacements],
         catalog' \in Catalogs, RepairedTogether', RepairsMoveTheExpense'
  PROVE  RepairInv'
<1>1. /\ tool \in [Operators -> ToolStates \cup {Off}] /\ UNCHANGED <<tool, verified>>
      /\ verified \in LiveCounts \cup {NotYet} /\ NotAfter(verified, live)
  BY DEF Lives, RepairInv, RepairTypeOK
<1>2. RepairTypeOK'
  BY <1>1, LiveGrows DEF RepairTypeOK, RepairInv
<1>3. NotAfter(verified, live)' /\ verified' # live'
  BY <1>1, LiveGrows DEF RepairInv, NotAfter
<1>4. ASSUME NEW p \in Operators, tool[p] # Off
      PROVE  NotAfter(tool[p].since, live') /\ tool[p].since # live'
  <2>1. tool[p] \in ToolStates
    BY <1>1, <1>4
  <2>2. tool[p].since \in LiveCounts
    BY <2>1 DEF ToolStates
  <2> QED BY <1>4, <2>2, LiveGrows DEF RepairInv, RunOK
<1>5. \A p \in Operators : RunOK(tool[p])'
  BY <1>1, <1>4 DEF RunOK, NotAfter, RepairInv
<1>6. RerunsVerify'
  BY <1>3 DEF RerunsVerify
<1> QED BY <1>2, <1>3, <1>5, <1>6 DEF RepairInv

\* A run of the tool that goes on keeps what every run has found.
LEMMA ProceedKeeps ==
  ASSUME RepairInv, NEW p \in Operators, NEW t \in ToolStates, Proceed(p, t),
         tool[p] # Off, t.since = tool[p].since, t.payment = tool[p].payment,
         t.after = tool[p].after, t.since = live => Provided(t)',
         balances' \in Balances, mistaken' \in {"active", "closed"},
         original' \in [Expenses -> Originals], replacement' \in [Expenses -> Replacements],
         catalog' \in Catalogs, catalog.category = "planned" => catalog'.category = "planned",
         catalog.accounts = "planned" => catalog'.accounts = "planned",
         RepairedTogether', RepairsMoveTheExpense', balances'.payment = balances.payment,
         \A e \in Expenses : Candidate(e) => Candidate(e)',
         verified = live => Settled'
  PROVE  RepairInv'
<1>1. UNCHANGED <<live, verified>> /\ told' = Quiet
  BY DEF Proceed
<1>2. RepairTypeOK'
  BY <1>1 DEF Proceed, RepairInv, RepairTypeOK
<1>3. \A q \in Operators : tool'[q] = IF q = p THEN t ELSE tool[q]
  BY DEF Proceed, RepairInv, RepairTypeOK
<1>4. \A x : RunOK(x) => RunOK(x)'
  BY <1>1 DEF RunOK, NotAfter, Provided
<1>5. RunOK(t)'
  BY <1>1 DEF RepairInv, RunOK, NotAfter
<1>6. \A q \in Operators : RunOK(tool[q])'
  BY <1>3, <1>4, <1>5 DEF RepairInv
<1>7. RerunsVerify'
  BY <1>1 DEF RerunsVerify, Quiet
<1> QED BY <1>1, <1>2, <1>6, <1>7 DEF RepairInv, NotAfter

\* A run that ends: its success is that of what it has verified, and it fails only when
\* users did something, or when another run was first to insert.
LEMMA StopKeeps ==
  ASSUME RepairInv, NEW p \in Operators, NEW said, Stop(p, said), tool[p] # Off,
         UNCHANGED <<balances, mistaken, original, replacement, catalog>>,
         said = "success" /\ tool[p].since = live => Settled,
         said \in {"failed", "mismatch"} =>
           \/ ~(verified = live /\ tool[p].since = live)
           \/ tool[p].step \in Inserts
  PROVE  RepairInv'
<1>1. tool[p] \in ToolStates /\ UNCHANGED live
  BY DEF Stop, RepairInv, RepairTypeOK
<1>2. tool[p].since \in LiveCounts /\ NotAfter(tool[p].since, live)
  BY <1>1 DEF ToolStates, RepairInv, RunOK
<1>3. \/ verified' = verified
      \/ verified' = tool[p].since /\ said = "success" /\ verified = NotYet
  BY DEF Stop
<1>4. RepairTypeOK'
  BY <1>1, <1>2, <1>3 DEF Stop, RepairInv, RepairTypeOK
<1>5. \A q \in Operators : tool'[q] = IF q = p THEN Off ELSE tool[q]
  BY DEF Stop, RepairInv, RepairTypeOK
<1>6. \A q \in Operators : RunOK(tool[q])'
  <2>1. \A x : RunOK(x) => RunOK(x)'
    BY <1>1, <1>3 DEF RunOK, NotAfter, Candidate, Provided
  <2>2. RunOK(Off)'
    BY DEF RunOK
  <2> QED BY <1>5, <2>1, <2>2 DEF RepairInv
<1>7. RepairedTogether' /\ RepairsMoveTheExpense' /\ (Settled => Settled')
  BY <1>1 DEF RepairInv, RepairedTogether, RepairsMoveTheExpense, Settled
<1>8. NotAfter(verified, live)'
  BY <1>1, <1>2, <1>3 DEF RepairInv, NotAfter
<1>9. verified' = live' => Settled'
  BY <1>1, <1>3, <1>7 DEF RepairInv
<1>10. RerunsVerify'
  <2>1. /\ told'.said = said /\ told'.since = tool[p].since
        /\ told'.at = tool[p].step /\ told'.after = tool[p].after
    BY DEF Stop
  <2>2. said \in {"failed", "mismatch"} => verified' = verified
    BY <1>3
  <2>3. tool[p].since = live /\ verified = live /\ tool[p].step \in Inserts => tool[p].after = NotYet
    BY DEF RepairInv, RunOK, Provided
  <2> QED BY <1>1, <2>1, <2>2, <2>3 DEF RerunsVerify, Inserts
<1> QED BY <1>4, <1>6, <1>7, <1>8, <1>9, <1>10 DEF RepairInv

\* A run begins, or finds that a user has reversed or classified an expense.
LEMMA InspectKeeps ==
  ASSUME RepairInv, NEW p \in Operators, NEW apply \in BOOLEAN, Inspect(p, apply)
  PROVE  RepairInv'
<1>1. UNCHANGED <<balances, mistaken, original, replacement, catalog, live, verified>>
  BY DEF Inspect, book
<1>2. /\ RepairedTogether' /\ RepairsMoveTheExpense' /\ NotAfter(verified, live)'
      /\ (verified' = live' => Settled')
  BY <1>1 DEF RepairInv, RepairedTogether, RepairsMoveTheExpense, Settled, NotAfter
<1>3. \A x : RunOK(x) => RunOK(x)'
  BY <1>1 DEF RunOK, NotAfter, Candidate, Provided
<1>4. CASE tool' = tool
  <2>1. RepairTypeOK' /\ \A q \in Operators : RunOK(tool[q])'
    BY <1>1, <1>3, <1>4 DEF RepairInv, RepairTypeOK
  <2>2. RerunsVerify'
    <3>1. verified = live => \A e \in Expenses : Candidate(e)
      BY DEF RepairInv, Settled, Candidate
    <3>2. \/ told'.said = "mismatch" /\ \E e \in Expenses : ~Candidate(e)
          \/ told'.said = "dry_run"
          \/ told'.said = "nothing"
      BY DEF Inspect, Quiet
    <3> QED BY <1>1, <3>1, <3>2 DEF RerunsVerify
  <2> QED BY <1>2, <2>1, <2>2 DEF RepairInv
<1>5. CASE tool' # tool
  <2>1. PICK t : t = [step |-> "category", payment |-> balances.payment,
                      left |-> Expenses, since |-> live, after |-> verified]
    OBVIOUS
  <2>2. /\ \A e \in Expenses : Candidate(e)
        /\ tool' = [tool EXCEPT ![p] = t] /\ told' = Quiet
    BY <1>5, <2>1 DEF Inspect
  <2>3. /\ t \in ToolStates /\ t.since = live /\ t.payment = balances.payment
        /\ t.step = "category" /\ (t.after # NotYet => verified # NotYet)
    BY <2>1 DEF ToolStates, RepairInv, RepairTypeOK, Balances
  <2>4. RepairTypeOK'
    BY <1>1, <2>2, <2>3 DEF RepairInv, RepairTypeOK
  <2>5. NotAfter(live, live)
    BY DEF NotAfter, RepairInv, RepairTypeOK, LiveCounts
  <2>6. RunOK(t)
    BY <2>2, <2>3, <2>5 DEF RunOK, Provided, Inserts
  <2>7. \A q \in Operators : RunOK(tool[q])'
    BY <1>3, <2>2, <2>6 DEF RepairInv, RepairTypeOK
  <2>8. RerunsVerify'
    BY <2>2 DEF RerunsVerify, Quiet
  <2> QED BY <1>2, <2>4, <2>7, <2>8 DEF RepairInv
<1> QED BY <1>4, <1>5

\* A run looks for the category, or for the internal accounts.
LEMMA LookupKeeps ==
  ASSUME RepairInv, NEW p \in Operators, NEW what, NEW missing, NEW next,
         \/ what = "category" /\ missing = "new_category" /\ next = "accounts"
         \/ what = "accounts" /\ missing = "new_accounts" /\ next = "repair",
         Lookup(p, what, missing, next)
  PROVE  RepairInv'
<1>1. /\ tool[p].step = what /\ tool[p] # Off /\ tool[p] \in ToolStates
      /\ UNCHANGED <<balances, mistaken, original, replacement, catalog>>
  <2>1. tool[p].step = what /\ UNCHANGED <<balances, mistaken, original, replacement, catalog>>
    BY DEF Lookup, AtStep, book
  <2>2. tool[p] # Off
    BY <2>1 DEF Off
  <2> QED BY <2>1, <2>2 DEF RepairInv, RepairTypeOK
<1>2. verified = live => catalog[what] = "planned"
  BY DEF RepairInv, Settled
<1>3. CASE catalog[what] \in {"absent", "planned"}
  <2>1. PICK t : t = [tool[p] EXCEPT !.step = IF catalog[what] = "absent" THEN missing ELSE next]
    OBVIOUS
  <2>2. /\ t \in ToolStates /\ t.since = tool[p].since /\ t.payment = tool[p].payment
        /\ t.after = tool[p].after
        /\ t.step = IF catalog[what] = "absent" THEN missing ELSE next
    BY <1>1, <2>1 DEF ToolStates, Inserts
  <2>3. Proceed(p, t)
    BY <1>3, <2>1 DEF Lookup
  <2>4. UNCHANGED <<live, verified>>
    BY <2>3 DEF Proceed
  <2>5. t.since = live => Provided(t)'
    <3>1. tool[p].since = live => Provided(tool[p])
      BY <1>1 DEF RepairInv, RunOK
    <3> QED BY <1>1, <1>2, <1>3, <2>2, <2>4, <3>1 DEF Provided, Inserts
  <2>6. RepairedTogether' /\ RepairsMoveTheExpense' /\ (Settled => Settled')
        /\ \A e \in Expenses : Candidate(e) => Candidate(e)'
    BY <1>1, <2>4
       DEF RepairInv, RepairedTogether, RepairsMoveTheExpense, Settled, Candidate
  <2> QED BY <1>1, <2>2, <2>3, <2>5, <2>6, ProceedKeeps DEF RepairInv, RepairTypeOK
<1>4. CASE catalog[what] \notin {"absent", "planned"}
  <2>1. Stop(p, "failed")
    BY <1>4 DEF Lookup
  <2> QED BY <1>1, <1>2, <1>4, <2>1, StopKeeps
<1> QED BY <1>3, <1>4

\* A run inserts what it did not find, unless another was first.
LEMMA CreateKeeps ==
  ASSUME RepairInv, NEW p \in Operators, NEW what, NEW missing, NEW next,
         \/ what = "category" /\ missing = "new_category" /\ next = "accounts"
         \/ what = "accounts" /\ missing = "new_accounts" /\ next = "repair",
         Create(p, what, missing, next)
  PROVE  RepairInv'
<1>1. /\ tool[p].step = missing /\ tool[p] # Off /\ tool[p] \in ToolStates
      /\ UNCHANGED <<balances, mistaken, original, replacement>>
  <2>1. tool[p].step = missing /\ UNCHANGED <<balances, mistaken, original, replacement>>
    BY DEF Create, AtStep, book
  <2>2. tool[p] # Off
    BY <2>1 DEF Off
  <2> QED BY <2>1, <2>2 DEF RepairInv, RepairTypeOK
<1>2. CASE catalog[what] = "absent"
  <2>1. PICK t : t = [tool[p] EXCEPT !.step = next]
    OBVIOUS
  <2>2. /\ t \in ToolStates /\ t.since = tool[p].since /\ t.payment = tool[p].payment
        /\ t.after = tool[p].after /\ t.step = next
    BY <1>1, <2>1 DEF ToolStates
  <2>3. Proceed(p, t) /\ catalog' = [catalog EXCEPT ![what] = "planned"]
    BY <1>2, <2>1 DEF Create
  <2>4. UNCHANGED <<live, verified>>
    BY <2>3 DEF Proceed
  <2>5. /\ catalog' \in Catalogs /\ catalog'[what] = "planned"
        /\ catalog.category = "planned" => catalog'.category = "planned"
        /\ catalog.accounts = "planned" => catalog'.accounts = "planned"
    BY <2>3 DEF RepairInv, RepairTypeOK, Catalogs
  <2>6. t.since = live => Provided(t)'
    <3>1. tool[p].since = live => Provided(tool[p])
      BY <1>1 DEF RepairInv, RunOK
    <3> QED BY <1>1, <2>2, <2>4, <2>5, <3>1 DEF Provided, Inserts
  <2>7. RepairedTogether' /\ RepairsMoveTheExpense' /\ (Settled => Settled')
        /\ \A e \in Expenses : Candidate(e) => Candidate(e)'
    BY <1>1, <2>4, <2>5
       DEF RepairInv, RepairedTogether, RepairsMoveTheExpense, Settled, Candidate
  <2> QED BY <1>1, <2>2, <2>3, <2>5, <2>6, <2>7, ProceedKeeps DEF RepairInv, RepairTypeOK
<1>3. CASE catalog[what] # "absent"
  <2>1. Stop(p, "failed") /\ UNCHANGED catalog
    BY <1>3 DEF Create
  <2>2. tool[p].step \in Inserts
    BY <1>1 DEF Inserts
  <2> QED BY <1>1, <2>1, <2>2, StopKeeps
<1> QED BY <1>2, <1>3

\* The category and the internal accounts are provided, or were there.
LEMMA ProvideKeeps ==
  ASSUME RepairInv, NEW p \in Operators, EnsureCategories(p) \/ EnsureAccounts(p)
  PROVE  RepairInv'
<1>1. CASE EnsureCategories(p)
  <2>1. CASE Lookup(p, "category", "new_category", "accounts")
    BY <2>1, LookupKeeps
  <2>2. CASE Create(p, "category", "new_category", "accounts")
    BY <2>2, CreateKeeps
  <2> QED BY <1>1, <2>1, <2>2 DEF EnsureCategories
<1>2. CASE EnsureAccounts(p)
  <2>1. CASE Lookup(p, "accounts", "new_accounts", "repair")
    BY <2>1, LookupKeeps
  <2>2. CASE Create(p, "accounts", "new_accounts", "repair")
    BY <2>2, CreateKeeps
  <2> QED BY <1>2, <2>1, <2>2 DEF EnsureAccounts
<1> QED BY <1>1, <1>2

\* A repair moves one unit from the mistaken account to the clearing account.
LEMMA RepairMoves ==
  ASSUME RepairInv, NEW e \in Expenses, ~RepairReceipt(e), Reversible(e), UNCHANGED live,
         original' = [original EXCEPT ![e].reversedBy = "repair"],
         replacement' = [replacement EXCEPT ![e] =
                           [posted |-> TRUE, category |-> "wanted", reversed |-> FALSE]],
         balances' = [balances EXCEPT !.mistaken = @ - 1, !.clearing = @ + 1]
  PROVE  /\ balances' \in Balances /\ balances'.payment = balances.payment
         /\ original' \in [Expenses -> Originals] /\ replacement' \in [Expenses -> Replacements]
         /\ RepairedTogether' /\ RepairsMoveTheExpense'
         /\ \A x \in Expenses : Candidate(x) => Candidate(x)'
<1>1. /\ balances \in Balances /\ original \in [Expenses -> Originals]
      /\ replacement \in [Expenses -> Replacements] /\ live \in LiveCounts
  BY DEF RepairInv, RepairTypeOK
<1>2. /\ balances' \in Balances /\ balances'.payment = balances.payment
      /\ balances'.mistaken = balances.mistaken - 1
      /\ balances'.clearing = balances.clearing + 1
  <2>1. /\ balances.payment \in Int /\ balances.mistaken \in Int /\ balances.clearing \in Int
        /\ balances' = Moved("mistaken", "clearing", 1)
    BY <1>1 DEF Balances, Moved
  <2> QED BY <1>1, <2>1, MovedFacts
<1>3. PICK o : o = [original[e] EXCEPT !.reversedBy = "repair"]
  OBVIOUS
<1>4. original[e] \in Originals /\ original[e].reversedBy = "nobody"
  BY <1>1 DEF Reversible
<1>5. o \in Originals /\ o.reversedBy = "repair" /\ o.classified = original[e].classified
  BY <1>3, <1>4 DEF Originals
<1>6. original' \in [Expenses -> Originals]
      /\ \A x \in Expenses : original'[x] = IF x = e THEN o ELSE original[x]
  BY <1>1, <1>3, <1>5
<1>7. PICK r : r = [posted |-> TRUE, category |-> "wanted", reversed |-> FALSE]
  OBVIOUS
<1>8. r \in Replacements /\ r.posted = TRUE /\ r.reversed = FALSE
  BY <1>7 DEF Replacements
<1>9. replacement' \in [Expenses -> Replacements]
      /\ \A x \in Expenses : replacement'[x] = IF x = e THEN r ELSE replacement[x]
  BY <1>1, <1>7, <1>8
<1>10. RepairedTogether'
  BY <1>5, <1>6, <1>8, <1>9 DEF RepairInv, RepairedTogether
<1>11. Standing' = Standing \ {e} /\ e \in Standing
  BY <1>4, <1>5, <1>6 DEF Standing
<1>12. Entered' = Entered \cup {e} /\ e \notin Entered
  BY <1>8, <1>9 DEF Entered, RepairReceipt
<1>13. Cardinality(Standing') = Cardinality(Standing) - 1
       /\ Cardinality(Entered') = Cardinality(Entered) + 1
  BY <1>11, <1>12, CountsAreFinite, FS_AddElement, FS_RemoveElement
<1>14. RepairsMoveTheExpense'
  <2>1. live.posted \in Int /\ live.spent \in Int
    BY <1>1 DEF LiveCounts
  <2>2. RepairsMoveTheExpense
    BY DEF RepairInv
  <2> QED BY <1>2, <1>13, <2>1, <2>2, InUnits, InUnitsNext, CountsAreFinite
<1>15. \A x \in Expenses : Candidate(x) => Candidate(x)'
  BY <1>5, <1>6 DEF Candidate
<1> QED BY <1>2, <1>6, <1>9, <1>10, <1>14, <1>15

\* The expenses in turn: a receipt is replayed, an expense that stands is repaired, and
\* the run fails at one that a user has touched.
LEMMA RepairKeeps ==
  ASSUME RepairInv, NEW p \in Operators, NEW e \in Expenses, Repair(p, e)
  PROVE  RepairInv'
<1>1. tool[p] \in ToolStates /\ tool[p] # Off /\ UNCHANGED catalog
  BY DEF Repair, AtStep, Off, RepairInv, RepairTypeOK
<1>2. PICK t : t = [tool[p] EXCEPT !.left = @ \ {e}]
  OBVIOUS
<1>3. /\ t \in ToolStates /\ t.since = tool[p].since /\ t.payment = tool[p].payment
      /\ t.after = tool[p].after /\ (t.since = live => Provided(t))
  <2>1. /\ t \in ToolStates /\ t.since = tool[p].since /\ t.payment = tool[p].payment
        /\ t.after = tool[p].after /\ t.step = tool[p].step
    BY <1>1, <1>2 DEF ToolStates
  <2> QED BY <1>1, <2>1 DEF RepairInv, RunOK, Provided
<1>4. verified = live => RepairReceipt(e)
  BY DEF RepairInv, Settled, RepairReceipt
<1>5. CASE RepairReceipt(e)
  <2>1. Proceed(p, t) /\ UNCHANGED <<balances, mistaken, original, replacement>>
    BY <1>2, <1>5 DEF Repair, book
  <2>2. UNCHANGED <<live, verified>>
    BY <2>1 DEF Proceed
  <2>3. RepairedTogether' /\ RepairsMoveTheExpense' /\ (Settled => Settled')
        /\ (t.since = live => Provided(t)')
        /\ \A x \in Expenses : Candidate(x) => Candidate(x)'
    BY <1>1, <1>3, <2>1, <2>2
       DEF RepairInv, RepairedTogether, RepairsMoveTheExpense, Settled, Candidate, Provided
  <2> QED BY <1>1, <1>3, <2>1, <2>3, ProceedKeeps DEF RepairInv, RepairTypeOK
<1>6. CASE ~RepairReceipt(e) /\ Repairable(e)
  <2>1. /\ Proceed(p, t) /\ UNCHANGED mistaken /\ Reversible(e)
        /\ original' = [original EXCEPT ![e].reversedBy = "repair"]
        /\ replacement' = [replacement EXCEPT ![e] =
                             [posted |-> TRUE, category |-> "wanted", reversed |-> FALSE]]
        /\ balances' = [balances EXCEPT !.mistaken = @ - 1, !.clearing = @ + 1]
    BY <1>2, <1>6 DEF Repair, Repairable
  <2>2. UNCHANGED <<live, verified>>
    BY <2>1 DEF Proceed
  <2>3. t.since = live => Provided(t)'
    BY <1>1, <1>3, <2>2 DEF Provided
  <2> QED BY <1>1, <1>3, <1>4, <1>6, <2>1, <2>2, <2>3, RepairMoves, ProceedKeeps
          DEF RepairInv, RepairTypeOK
<1>7. CASE ~RepairReceipt(e) /\ ~Repairable(e)
  <2>1. Stop(p, "failed") /\ UNCHANGED <<balances, mistaken, original, replacement>>
    BY <1>7 DEF Repair, book
  <2> QED BY <1>1, <1>4, <1>7, <2>1, StopKeeps
<1> QED BY <1>5, <1>6, <1>7

\* The mistaken account is closed, or was.
LEMMA CloseKeeps ==
  ASSUME RepairInv, NEW p \in Operators, CloseMistaken(p)
  PROVE  RepairInv'
<1>1. tool[p] \in ToolStates /\ tool[p] # Off /\ tool[p].step = "repair"
      /\ UNCHANGED <<balances, original, replacement, catalog>>
  <2>1. tool[p] # Off /\ tool[p].step = "repair"
    <3>1. tool[p].step = "repair"
      BY DEF CloseMistaken, AtStep
    <3> QED BY <3>1 DEF Off
  <2>2. UNCHANGED <<balances, original, replacement, catalog>>
    BY DEF CloseMistaken, book
  <2> QED BY <2>1, <2>2 DEF RepairInv, RepairTypeOK
<1>2. PICK t : t = [tool[p] EXCEPT !.step = "catch_up"]
  OBVIOUS
<1>3. /\ t \in ToolStates /\ t.since = tool[p].since /\ t.payment = tool[p].payment
      /\ t.after = tool[p].after /\ (t.since = live => Provided(t))
  <2>1. /\ t \in ToolStates /\ t.since = tool[p].since /\ t.payment = tool[p].payment
        /\ t.after = tool[p].after /\ t.step \in {"catch_up", "verify"}
    BY <1>1, <1>2 DEF ToolStates
  <2> QED BY <1>1, <2>1 DEF RepairInv, RunOK, Provided, Inserts
<1>4. CASE Stop(p, "failed") /\ UNCHANGED mistaken /\ mistaken = "active"
  <2>1. verified # live
    BY <1>4 DEF RepairInv, Settled
  <2> QED BY <1>1, <1>4, <2>1, StopKeeps
<1>5. CASE Proceed(p, t) /\ mistaken' = "closed"
  <2>1. UNCHANGED <<live, verified>>
    BY <1>5 DEF Proceed
  <2>2. RepairedTogether' /\ RepairsMoveTheExpense' /\ (Settled => Settled')
        /\ (t.since = live => Provided(t)')
        /\ \A x \in Expenses : Candidate(x) => Candidate(x)'
    BY <1>1, <1>3, <1>5, <2>1
       DEF RepairInv, RepairedTogether, RepairsMoveTheExpense, Settled, Candidate, Provided
  <2> QED BY <1>1, <1>3, <1>5, <2>2, ProceedKeeps DEF RepairInv, RepairTypeOK
<1> QED BY <1>2, <1>4, <1>5 DEF CloseMistaken

\* A run that is at a step is not off.
LEMMA OffFacts == ASSUME NEW t, t.step # "off" PROVE t # Off
BY DEF Off

\* The projection catches up, or the run ends.
LEMMA CatchUpKeeps ==
  ASSUME RepairInv, NEW p \in Operators, CatchUp(p)
  PROVE  RepairInv'
<1>1. tool[p] \in ToolStates /\ tool[p] # Off /\ tool[p].step = "catch_up"
      /\ UNCHANGED <<balances, mistaken, original, replacement, catalog>>
  <2>1. tool[p] # Off /\ tool[p].step = "catch_up"
    <3>1. tool[p].step = "catch_up"
      BY DEF CatchUp, AtStep
    <3> QED BY <3>1, OffFacts
  <2>2. UNCHANGED <<balances, mistaken, original, replacement, catalog>>
    BY DEF CatchUp, book
  <2> QED BY <2>1, <2>2 DEF RepairInv, RepairTypeOK
<1>2. PICK t : t = [tool[p] EXCEPT !.step = "verify"]
  OBVIOUS
<1>3. /\ t \in ToolStates /\ t.since = tool[p].since /\ t.payment = tool[p].payment
      /\ t.after = tool[p].after /\ (t.since = live => Provided(t))
  <2>1. /\ t \in ToolStates /\ t.since = tool[p].since /\ t.payment = tool[p].payment
        /\ t.after = tool[p].after /\ t.step \in {"catch_up", "verify"}
    BY <1>1, <1>2 DEF ToolStates
  <2> QED BY <1>1, <2>1 DEF RepairInv, RunOK, Provided, Inserts
<1>4. CASE Stop(p, "not_caught_up")
  BY <1>1, <1>4, StopKeeps
<1>5. CASE Proceed(p, t)
  <2>1. UNCHANGED <<live, verified>>
    BY <1>5 DEF Proceed
  <2>2. RepairedTogether' /\ RepairsMoveTheExpense' /\ (Settled => Settled')
        /\ (t.since = live => Provided(t)')
        /\ \A x \in Expenses : Candidate(x) => Candidate(x)'
    BY <1>1, <1>3, <2>1
       DEF RepairInv, RepairedTogether, RepairsMoveTheExpense, Settled, Candidate, Provided
  <2> QED BY <1>1, <1>3, <1>5, <2>2, ProceedKeeps DEF RepairInv, RepairTypeOK
<1> QED BY <1>2, <1>4, <1>5 DEF CatchUp

\* The verification succeeds exactly when the Book is as planned, which it is while users
\* leave it alone.
LEMMA VerifyRepairKeeps ==
  ASSUME RepairInv, NEW p \in Operators, Verify(p)
  PROVE  RepairInv'
<1>1. tool[p] # Off /\ UNCHANGED <<balances, mistaken, original, replacement, catalog>>
  BY DEF Verify, AtStep, Off, book
<1>2. CASE AsPlanned(p) /\ Stop(p, "success")
  <2>1. tool[p].since = live => Settled
    BY <1>1, <1>2 DEF AsPlanned, Settled, RepairInv, RunOK, Candidate, Provided, Verify, AtStep
  <2> QED BY <1>1, <1>2, <2>1, StopKeeps
<1>3. CASE ~AsPlanned(p) /\ Stop(p, "failed")
  <2>1. ~(verified = live /\ tool[p].since = live)
    BY <1>1, <1>3 DEF AsPlanned, Settled, RepairInv, RunOK
  <2> QED BY <1>1, <1>3, <2>1, StopKeeps
<1> QED BY <1>2, <1>3 DEF Verify

\* A run that dies.
LEMMA ToolDiesKeeps ==
  ASSUME RepairInv, NEW p \in Operators, ToolDies(p)
  PROVE  RepairInv'
BY StopKeeps DEF ToolDies, book
-----------------------------------------------------------------------------
\* Users spend, post to the mistaken account again, open or close it and the clearing
\* account, and create an account of its role.
LEMMA SpendKeeps ==
  ASSUME RepairInv, Spend \/ PostAgain \/ SwitchMistaken \/ SwitchClearing \/ TakeRole
  PROVE  RepairInv'
<1>1. /\ balances \in Balances /\ balances.payment \in Int /\ balances.mistaken \in Int
      /\ balances.clearing \in Int /\ live \in LiveCounts /\ live.spent \in Nat
      /\ live.posted \in Nat /\ mistaken \in {"active", "closed"}
  BY DEF RepairInv, RepairTypeOK, Balances, LiveCounts
<1>2. UNCHANGED <<original, replacement>> /\ catalog' \in Catalogs
  <2>1. UNCHANGED <<original, replacement>>
    BY DEF Spend, PostAgain, SwitchMistaken, SwitchClearing, TakeRole, book
  <2>2. CASE UNCHANGED catalog
    BY <2>1, <2>2 DEF RepairInv, RepairTypeOK
  <2>3. CASE SwitchClearing \/ TakeRole
    BY <2>1, <2>3 DEF SwitchClearing, TakeRole, Catalogs, RepairInv, RepairTypeOK
  <2> QED BY <2>2, <2>3 DEF Spend, PostAgain, SwitchMistaken, book
<1>3. Standing' = Standing /\ Entered' = Entered /\ RepairedTogether'
  BY <1>2 DEF Standing, Entered, RepairInv, RepairedTogether
<1>4. RepairsMoveTheExpense
  BY DEF RepairInv
<1>5. CASE Spend
  <2>1. balances' \in Balances /\ balances'.payment = balances.payment - 1
        /\ balances'.mistaken = balances.mistaken /\ balances'.clearing = balances.clearing
    BY <1>1, <1>5 DEF Spend, Balances
  <2>2. live'.spent = live.spent + 1 /\ live'.posted = live.posted
    BY <1>1, <1>5 DEF Spend, Lives, LiveCounts
  <2>3. RepairsMoveTheExpense'
    BY <1>1, <1>3, <1>4, <2>1, <2>2, InUnits, InUnitsNext, CountsAreFinite
  <2> QED BY <1>2, <1>3, <1>5, <2>1, <2>3, UserKeeps DEF Spend, RepairInv, RepairTypeOK
<1>6. CASE PostAgain
  <2>1. balances' \in Balances /\ balances'.payment = balances.payment - 1
        /\ balances'.mistaken = balances.mistaken + 1 /\ balances'.clearing = balances.clearing
    <3>1. balances' = [payment |-> balances.payment - 1, mistaken |-> balances.mistaken + 1,
                       clearing |-> balances.clearing]
      BY <1>1, <1>6 DEF PostAgain, Moved, Balances
    <3> QED BY <1>1, <3>1 DEF Balances
  <2>2. live'.spent = live.spent /\ live'.posted = live.posted + 1
    BY <1>1, <1>6 DEF PostAgain, Lives, LiveCounts
  <2>3. RepairsMoveTheExpense'
    BY <1>1, <1>3, <1>4, <2>1, <2>2, InUnits, InUnitsNext, CountsAreFinite
  <2> QED BY <1>2, <1>3, <1>6, <2>1, <2>3, UserKeeps DEF PostAgain, RepairInv, RepairTypeOK
<1>7. CASE SwitchMistaken \/ SwitchClearing \/ TakeRole
  <2>1. UNCHANGED balances /\ mistaken' \in {"active", "closed"} /\ Lives("other")
    BY <1>1, <1>7 DEF SwitchMistaken, SwitchClearing, TakeRole, book
  <2>2. live'.spent = live.spent /\ live'.posted = live.posted
    BY <1>1, <2>1 DEF Lives, LiveCounts
  <2>3. RepairsMoveTheExpense'
    BY <1>1, <1>3, <1>4, <2>1, <2>2, InUnits, InUnitsNext
  <2> QED BY <1>1, <1>2, <1>3, <2>1, <2>3, UserKeeps DEF RepairInv, RepairTypeOK
<1> QED BY <1>5, <1>6, <1>7

\* A user reverses an expense of the plan.
LEMMA ReverseOriginalKeeps ==
  ASSUME RepairInv, NEW e \in Expenses, ReverseOriginal(e)
  PROVE  RepairInv'
<1>1. /\ balances \in Balances /\ original \in [Expenses -> Originals]
      /\ balances.payment \in Int /\ balances.mistaken \in Int
      /\ live \in LiveCounts /\ live.spent \in Nat /\ live.posted \in Nat
      /\ UNCHANGED <<mistaken, replacement, catalog>>
  BY DEF RepairInv, RepairTypeOK, Balances, LiveCounts, ReverseOriginal
<1>2. PICK o : o = [original[e] EXCEPT !.reversedBy = "user"]
  OBVIOUS
<1>3. o \in Originals /\ o.reversedBy = "user" /\ original[e].reversedBy = "nobody"
  BY <1>1, <1>2 DEF Originals, ReverseOriginal
<1>4. original' \in [Expenses -> Originals]
      /\ \A x \in Expenses : original'[x] = IF x = e THEN o ELSE original[x]
  BY <1>1, <1>2, <1>3 DEF ReverseOriginal
<1>5. Standing' = Standing \ {e} /\ e \in Standing /\ Entered' = Entered
  BY <1>1, <1>3, <1>4 DEF Standing, Entered
<1>6. Cardinality(Standing') = Cardinality(Standing) - 1
  BY <1>5, CountsAreFinite, FS_RemoveElement
<1>7. RepairedTogether'
  BY <1>1, <1>3, <1>4 DEF RepairInv, RepairedTogether
<1>8. balances' \in Balances /\ balances'.payment = balances.payment + 1
      /\ balances'.mistaken = balances.mistaken - 1 /\ balances'.clearing = balances.clearing
  BY <1>1, MovedFacts DEF ReverseOriginal
<1>9. live'.spent = live.spent /\ live'.posted = live.posted
  BY <1>1 DEF ReverseOriginal, Lives, LiveCounts
<1>10. RepairsMoveTheExpense /\ RepairsMoveTheExpense'
  <2>1. RepairsMoveTheExpense
    BY DEF RepairInv
  <2> QED BY <1>1, <1>5, <1>6, <1>8, <1>9, <2>1, InUnits, InUnitsNext, CountsAreFinite
<1> QED BY <1>1, <1>4, <1>7, <1>8, <1>10, UserKeeps
        DEF ReverseOriginal, RepairInv, RepairTypeOK

\* A user reverses what a repair has entered.
LEMMA ReverseReplacementKeeps ==
  ASSUME RepairInv, NEW e \in Expenses, ReverseReplacement(e)
  PROVE  RepairInv'
<1>1. /\ balances \in Balances /\ replacement \in [Expenses -> Replacements]
      /\ balances.payment \in Int /\ balances.clearing \in Int
      /\ live \in LiveCounts /\ live.spent \in Nat /\ live.posted \in Nat
      /\ UNCHANGED <<mistaken, original, catalog>>
  BY DEF RepairInv, RepairTypeOK, Balances, LiveCounts, ReverseReplacement
<1>2. PICK r : r = [replacement[e] EXCEPT !.reversed = TRUE]
  OBVIOUS
<1>3. r \in Replacements /\ r.reversed = TRUE /\ r.posted = replacement[e].posted
  BY <1>1, <1>2 DEF Replacements
<1>4. replacement' \in [Expenses -> Replacements]
      /\ \A x \in Expenses : replacement'[x] = IF x = e THEN r ELSE replacement[x]
  BY <1>1, <1>2, <1>3 DEF ReverseReplacement
<1>5. Entered' = Entered \ {e} /\ e \in Entered /\ Standing' = Standing
  BY <1>1, <1>3, <1>4 DEF Standing, Entered, ReverseReplacement
<1>6. Cardinality(Entered') = Cardinality(Entered) - 1
  BY <1>5, CountsAreFinite, FS_RemoveElement
<1>7. RepairedTogether'
  BY <1>1, <1>3, <1>4 DEF RepairInv, RepairedTogether
<1>8. balances' \in Balances /\ balances'.payment = balances.payment + 1
      /\ balances'.mistaken = balances.mistaken /\ balances'.clearing = balances.clearing - 1
  BY <1>1, MovedFacts DEF ReverseReplacement
<1>9. live'.spent = live.spent /\ live'.posted = live.posted
  BY <1>1 DEF ReverseReplacement, Lives, LiveCounts
<1>10. RepairsMoveTheExpense'
  <2>1. RepairsMoveTheExpense
    BY DEF RepairInv
  <2> QED BY <1>1, <1>5, <1>6, <1>8, <1>9, <2>1, InUnits, InUnitsNext, CountsAreFinite
<1> QED BY <1>1, <1>4, <1>7, <1>8, <1>10, UserKeeps
        DEF ReverseReplacement, RepairInv, RepairTypeOK

\* Users classify an expense of the plan, or what a repair has entered.
LEMMA ClassifyKeeps ==
  ASSUME RepairInv, NEW e \in Expenses, Classify(e) \/ Reclassify(e)
  PROVE  RepairInv'
<1>1. /\ balances \in Balances /\ original \in [Expenses -> Originals]
      /\ replacement \in [Expenses -> Replacements] /\ live \in LiveCounts
      /\ UNCHANGED <<balances, mistaken, catalog>>
  BY DEF RepairInv, RepairTypeOK, Classify, Reclassify
<1>2. /\ original' \in [Expenses -> Originals]
      /\ \A x \in Expenses : original'[x].reversedBy = original[x].reversedBy
  <2>1. PICK o : o = [original[e] EXCEPT !.classified = TRUE]
    OBVIOUS
  <2>2. o \in Originals /\ o.reversedBy = original[e].reversedBy
    BY <1>1, <2>1 DEF Originals
  <2>3. original' = original \/ original' = [original EXCEPT ![e] = o]
    BY <2>1 DEF Classify, Reclassify
  <2> QED BY <1>1, <2>2, <2>3
<1>3. /\ replacement' \in [Expenses -> Replacements]
      /\ \A x \in Expenses : /\ replacement'[x].posted = replacement[x].posted
                             /\ replacement'[x].reversed = replacement[x].reversed
  <2>1. PICK r : r = [replacement[e] EXCEPT !.category = "other"]
    OBVIOUS
  <2>2. r \in Replacements /\ r.posted = replacement[e].posted
        /\ r.reversed = replacement[e].reversed
    BY <1>1, <2>1 DEF Replacements
  <2>3. replacement' = replacement \/ replacement' = [replacement EXCEPT ![e] = r]
    BY <2>1 DEF Classify, Reclassify
  <2> QED BY <1>1, <2>2, <2>3
<1>4. Standing' = Standing /\ Entered' = Entered /\ RepairedTogether'
  BY <1>2, <1>3 DEF Standing, Entered, RepairInv, RepairedTogether
<1>5. Lives("other") /\ live'.spent = live.spent /\ live'.posted = live.posted
  BY <1>1 DEF Classify, Reclassify, Lives, LiveCounts
<1>6. RepairsMoveTheExpense'
  BY <1>1, <1>4, <1>5, InUnits, InUnitsNext DEF RepairInv
<1> QED BY <1>1, <1>2, <1>3, <1>4, <1>5, <1>6, UserKeeps DEF RepairInv, RepairTypeOK

\* Every step keeps the invariant.
LEMMA NextRepairInv == RepairInv /\ [RepairNext]_repairVars => RepairInv'
<1> SUFFICES ASSUME RepairInv, [RepairNext]_repairVars PROVE RepairInv'
  OBVIOUS
<1>1. CASE UNCHANGED repairVars
  BY <1>1
     DEF repairVars, RepairInv, RepairTypeOK, RepairedTogether, RepairsMoveTheExpense, RunOK,
         NotAfter, Settled, RerunsVerify, Candidate, Provided
<1>2. ASSUME NEW p \in Operators, NEW apply \in BOOLEAN, Inspect(p, apply) PROVE RepairInv'
  BY <1>2, InspectKeeps
<1>3. ASSUME NEW p \in Operators, NEW e \in Expenses, Repair(p, e) PROVE RepairInv'
  BY <1>3, RepairKeeps
<1>4. ASSUME NEW p \in Operators,
             \/ EnsureCategories(p) \/ EnsureAccounts(p) \/ CloseMistaken(p) \/ CatchUp(p)
             \/ Verify(p) \/ ToolDies(p)
      PROVE  RepairInv'
  BY <1>4, ProvideKeeps, CloseKeeps, CatchUpKeeps, VerifyRepairKeeps, ToolDiesKeeps
<1>5. ASSUME NEW e \in Expenses,
             \/ ReverseOriginal(e) \/ ReverseReplacement(e) \/ Classify(e) \/ Reclassify(e)
      PROVE  RepairInv'
  BY <1>5, ReverseOriginalKeeps, ReverseReplacementKeeps, ClassifyKeeps
<1> QED BY <1>1, <1>2, <1>3, <1>4, <1>5, SpendKeeps DEF RepairNext

\* For any number of runs and expenses, and whatever users do meanwhile: the repairs move
\* nothing but the expense (execute_misclassified_expense_repair).
THEOREM RepairsMoveOnlyTheExpense == RepairSpec => []RepairsMoveTheExpense
<1>1. RepairInv => RepairsMoveTheExpense
  BY DEF RepairInv
<1> QED BY <1>1, InitRepairInv, NextRepairInv, PTL DEF RepairSpec

\* A run that begins after one that succeeded fails only when users did something in
\* between; one that began before, only then or where it inserts what the other has inserted
\* (docs/operations/everyday-entry-history-repair.md, ensure_repair_categories,
\* ensure_internal_accounts).
THEOREM RerunsAlwaysVerify == RepairSpec => []RerunsVerify
<1>1. RepairInv => RerunsVerify
  BY DEF RepairInv
<1> QED BY <1>1, InitRepairInv, NextRepairInv, PTL DEF RepairSpec

-----------------------------------------------------------------------------
(* The events of a Book in order *)

\* Positions 1 to n, each once.
NumberedTo(es, n) ==
    /\ IsFiniteSet(es)
    /\ \A e \in es : e.position \in 1..n
    /\ \A m \in 1..n : \E e \in es : e.position = m
    /\ \A d, e \in es : d.position = e.position => d = e

\* As many events lie below a position as there are positions below it.
LEMMA Below ==
  ASSUME NEW es, NEW n \in Nat, NumberedTo(es, n), NEW m \in 1..(n + 1)
  PROVE  /\ Cardinality({d \in es : d.position < m}) = m - 1
         /\ m = n + 1 => {d \in es : d.position < m} = es
<1> DEFINE D == {d \in es : d.position < m}
           f == [d \in D |-> d.position]
<1>1. \A e \in es : e.position \in Nat /\ e.position >= 1 /\ e.position <= n
  BY DEF NumberedTo
<1>2. f \in [D -> 1..(m - 1)] /\ \A d \in D : f[d] = d.position
  BY <1>1
<1>3. \A d, e \in D : f[d] = f[e] => d = e
  BY <1>2 DEF NumberedTo
<1>4. \A k \in 1..(m - 1) : \E d \in D : f[d] = k
  <2> SUFFICES ASSUME NEW k \in 1..(m - 1) PROVE \E d \in D : f[d] = k
    OBVIOUS
  <2>1. PICK e \in es : e.position = k
    BY DEF NumberedTo
  <2> QED BY <2>1
<1>5. m = n + 1 => D = es
  BY <1>1
<1> HIDE DEF D, f
<1>6. f \in Injection(D, 1..(m - 1)) /\ f \in Surjection(D, 1..(m - 1))
  BY <1>2, <1>3, <1>4 DEF Injection, IsInjective, Surjection
<1>7. IsFiniteSet(1..(m - 1)) /\ Cardinality(1..(m - 1)) = m - 1
  BY FS_Interval
<1>8. Cardinality(D) = m - 1
  BY <1>6, <1>7, FS_Injection
<1> QED BY <1>5, <1>8 DEF D

\* The rows are as many as the events.
LEMMA AllTheRows ==
  ASSUME NEW es, IsFiniteSet(es), NEW rows, rows = ByPosition(es)
  PROVE  /\ Cardinality(es) \in Nat /\ DOMAIN rows = 1..Cardinality(es)
         /\ Len(rows) = Cardinality(es)
         /\ rows = <<>> <=> es = {}
<1>1. PICK n \in Nat : n = Cardinality(es)
  BY FS_CardinalityType
<1>2. DOMAIN rows = 1..n /\ rows = [m \in 1..n |-> rows[m]]
  <2> DEFINE nth(m) == CHOOSE e \in es : Cardinality({d \in es : d.position < e.position}) = m - 1
  <2>1. rows = [m \in 1..n |-> nth(m)]
    BY <1>1 DEF ByPosition
  <2> HIDE DEF nth
  <2> QED BY <2>1
<1>3. PICK S : S = {rows[m] : m \in 1..n}
  OBVIOUS
<1>4. rows \in [1..n -> S]
  BY <1>2, <1>3
<1>5. rows \in Seq(S)
  BY <1>4
<1>6. Len(rows) = n
  BY <1>2, <1>5
<1>7. rows = <<>> <=> n = 0
  BY <1>5, <1>6, EmptySeq
<1>8. n = 0 <=> es = {}
  BY <1>1, FS_EmptySet
<1> QED BY <1>1, <1>2, <1>6, <1>7, <1>8

\* so that the n-th row is the event of position n.
LEMMA RowsAreNumbered ==
  ASSUME NEW es, NEW n \in Nat, NumberedTo(es, n)
  PROVE  /\ Cardinality(es) = n /\ DOMAIN ByPosition(es) = 1..n
         /\ \A e \in es : ByPosition(es)[e.position] = e
         /\ \A m \in 1..n : ByPosition(es)[m] \in es /\ ByPosition(es)[m].position = m
<1>1. Cardinality(es) = n
  <2>1. n + 1 \in 1..(n + 1) /\ (n + 1) - 1 = n
    OBVIOUS
  <2> QED BY <2>1, Below
<1>2. DOMAIN ByPosition(es) = 1..n
  BY <1>1 DEF ByPosition
<1>3. ASSUME NEW e \in es PROVE ByPosition(es)[e.position] = e
  <2>1. e.position \in 1..n
    BY DEF NumberedTo
  <2>2. ByPosition(es)[e.position] =
          CHOOSE x \in es : Cardinality({d \in es : d.position < x.position}) = e.position - 1
    BY <1>1, <2>1 DEF ByPosition
  <2>3. \A x \in es : Cardinality({d \in es : d.position < x.position}) = x.position - 1
    <3> SUFFICES ASSUME NEW x \in es
                 PROVE  Cardinality({d \in es : d.position < x.position}) = x.position - 1
      OBVIOUS
    <3>1. x.position \in 1..(n + 1)
      BY DEF NumberedTo
    <3> QED BY <3>1, Below
  <2>4. \A x \in es : Cardinality({d \in es : d.position < x.position}) = e.position - 1 <=> x = e
    <3> SUFFICES ASSUME NEW x \in es, Cardinality({d \in es : d.position < x.position}) = e.position - 1
                 PROVE  x = e
      BY <2>3
    <3>1. x.position - 1 = e.position - 1
      BY <2>3
    <3>2. x.position \in 1..n
      BY DEF NumberedTo
    <3>3. x.position = e.position
      BY <2>1, <3>1, <3>2
    <3> QED BY <3>3 DEF NumberedTo
  <2> QED BY <2>2, <2>4
<1>4. ASSUME NEW m \in 1..n PROVE ByPosition(es)[m] \in es /\ ByPosition(es)[m].position = m
  <2>1. PICK e \in es : e.position = m
    BY DEF NumberedTo
  <2> QED BY <1>3, <2>1
<1> QED BY <1>1, <1>2, <1>3, <1>4

-----------------------------------------------------------------------------
(* A Book and its events *)

Streams == {"journal_transaction", "reporting_lines"} \X Nat
Bodies == [stream : Streams, version : Nat, content : {"stored", "garbled"}]
Hashes == Seq(Bodies)
HeadRecords == [position : Nat, hash : Hashes]
EventRecords == [book : LedgerBooks, position : Nat, stream : Streams, version : Nat,
                 content : {"stored", "garbled"}, previous : Hashes, hash : Hashes]

\* The events of a Book whose head is head: numbered, and each hash over the one before.
Chained(head, es) ==
    /\ head \in HeadRecords /\ es \subseteq EventRecords
    /\ NumberedTo(es, head.position)
    /\ \A e \in es : e.content = "stored" /\ e.hash = Append(e.previous, Body(e))
    /\ \A e \in es : e.position = 1 => e.previous = ZeroHash
    /\ \A d, e \in es : e.position = d.position + 1 => e.previous = d.hash
    /\ head.position = 0 => head.hash = ZeroHash
    /\ \A e \in es : e.position = head.position => head.hash = e.hash

\* A new Book has no events.
LEMMA NewBookIsChained ==
  Chained(NewHead, {}) /\ NewHead \in HeadRecords
<1>1. NewHead \in HeadRecords
  BY DEF NewHead, HeadRecords, Hashes, ZeroHash
<1>2. NewHead.position = 0 /\ NewHead.hash = ZeroHash
  BY DEF NewHead
<1>3. NumberedTo({}, 0)
  BY FS_EmptySet DEF NumberedTo
<1> QED BY <1>1, <1>2, <1>3 DEF Chained

\* Body and hash of an event.
LEMMA BodyType ==
  ASSUME NEW e \in EventRecords
  PROVE  Body(e) \in Bodies /\ Body(e).content = e.content
BY DEF Body, EventRecords, Bodies

\* One event more.
LEMMA ChainGrows ==
  ASSUME NEW head, NEW es, Chained(head, es), NEW e \in EventRecords, NEW h \in HeadRecords,
         e.position = head.position + 1, e.content = "stored", e.previous = head.hash,
         e.hash = Append(e.previous, Body(e)), h.position = e.position, h.hash = e.hash,
         NEW T, T = es \cup {e}
  PROVE  Chained(h, T)
<1>1. PICK n \in Nat : n = head.position
  BY DEF Chained, HeadRecords
<1>2. \A d \in es : d.position \in 1..n
  BY <1>1 DEF Chained, NumberedTo
<1>3. NumberedTo(T, n + 1)
  <2>1. IsFiniteSet(T)
    BY FS_AddElement DEF Chained, NumberedTo
  <2>2. \A d \in T : d.position \in 1..(n + 1)
    BY <1>1, <1>2
  <2>3. \A m \in 1..(n + 1) : \E d \in T : d.position = m
    <3> SUFFICES ASSUME NEW m \in 1..(n + 1) PROVE \E d \in T : d.position = m
      OBVIOUS
    <3>1. CASE m = n + 1
      BY <1>1, <3>1
    <3>2. CASE m # n + 1
      <4>1. m \in 1..n
        BY <3>2
      <4> QED BY <1>1, <4>1 DEF Chained, NumberedTo
    <3> QED BY <3>1, <3>2
  <2>4. \A c, d \in T : c.position = d.position => c = d
    <3>1. \A c, d \in es : c.position = d.position => c = d
      BY DEF Chained, NumberedTo
    <3>2. \A c \in es : c.position # e.position
      BY <1>1, <1>2
    <3> QED BY <3>1, <3>2
  <2> QED BY <2>1, <2>2, <2>3, <2>4 DEF NumberedTo
<1>4. /\ T \subseteq EventRecords
      /\ \A d \in T : d.content = "stored" /\ d.hash = Append(d.previous, Body(d))
  BY DEF Chained
<1>5. \A d \in T : d.position = 1 => d.previous = ZeroHash
  <2>1. e.position = 1 => head.hash = ZeroHash
    BY <1>1 DEF Chained
  <2> QED BY <2>1 DEF Chained
<1>6. \A c, d \in T : d.position = c.position + 1 => d.previous = c.hash
  <2> SUFFICES ASSUME NEW c \in T, NEW d \in T, d.position = c.position + 1
               PROVE  d.previous = c.hash
    OBVIOUS
  <2>1. CASE c \in es /\ d \in es
    BY <2>1 DEF Chained
  <2>2. CASE c \in es /\ d = e
    <3>1. c.position = head.position
      BY <1>1, <1>2, <2>2
    <3> QED BY <2>2, <3>1 DEF Chained
  <2>3. CASE c = e
    BY <1>1, <1>2, <2>3
  <2> QED BY <2>1, <2>2, <2>3
<1>7. \A d \in T : d.position = h.position => h.hash = d.hash
  <2>1. \A d \in es : d.position # h.position
    BY <1>1, <1>2
  <2> QED BY <2>1
<1>8. h.position = n + 1
  BY <1>1
<1> QED BY <1>3, <1>4, <1>5, <1>6, <1>7, <1>8 DEF Chained

\* The verifier finds nothing in it.
LEMMA ChainHasNoIssues ==
  ASSUME NEW head, NEW es, Chained(head, es), NEW rows, rows = ByPosition(es)
  PROVE  /\ FinishBook(head, rows) = {} /\ \A n \in DOMAIN rows : EventIssues(rows, n) = {}
<1>1. PICK N \in Nat : N = head.position
  BY DEF Chained, HeadRecords
<1>2. NumberedTo(es, N)
  BY <1>1 DEF Chained
<1>3. /\ Cardinality(es) = N /\ DOMAIN rows = 1..N
      /\ \A m \in 1..N : rows[m] \in es /\ rows[m].position = m
  BY <1>2, RowsAreNumbered
<1>4. Len(rows) = N /\ (rows = <<>> <=> N = 0)
  BY <1>2, <1>3, AllTheRows, FS_EmptySet DEF NumberedTo
<1>5. ASSUME NEW n \in DOMAIN rows PROVE EventIssues(rows, n) = {}
  <2>1. n \in 1..N /\ n \in Nat
    BY <1>3
  <2>2. PICK e \in es : e = rows[n] /\ e.position = n
    BY <1>3, <2>1
  <2>3. e.hash = Append(e.previous, Body(e))
    BY DEF Chained
  <2>4. e.previous = IF n = 1 THEN ZeroHash ELSE rows[n - 1].hash
    <3>1. CASE n = 1
      BY <2>2, <3>1 DEF Chained
    <3>2. CASE n # 1
      <4>1. n - 1 \in 1..N
        BY <2>1, <3>2
      <4>2. PICK d \in es : d = rows[n - 1] /\ d.position = n - 1
        BY <1>3, <4>1
      <4>3. e.position = d.position + 1
        BY <2>1, <2>2, <4>2
      <4> QED BY <3>2, <4>2, <4>3 DEF Chained
    <3> QED BY <3>1, <3>2
  <2> QED BY <2>2, <2>3, <2>4 DEF EventIssues, When
<1>6. FinishBook(head, rows) = {}
  <2>1. CASE N = 0
    BY <1>1, <1>4, <2>1 DEF FinishBook, When, Chained
  <2>2. CASE N # 0
    <3>1. rows # <<>>
      BY <1>3, <2>2
    <3>2. rows[N] \in es /\ rows[N].position = N
      BY <1>3, <2>2
    <3>3. head.hash = rows[N].hash
      BY <1>1, <3>2 DEF Chained
    <3> QED BY <1>1, <1>4, <3>1, <3>3 DEF FinishBook, When
  <2> QED BY <2>1, <2>2
<1> QED BY <1>5, <1>6

-----------------------------------------------------------------------------
(* What the verifier notes of a Book *)

EventsOf(b) == {e \in ledgerEvents : e.book = b}

\* The head of a Book is that of its events, and a Book without one has none.
Agrees(heads, b) ==
    IF b \in DOMAIN heads THEN Chained(heads[b], EventsOf(b)) ELSE EventsOf(b) = {}

\* It lost an event, or one of its events is not what its hash covers.
Broken(head, es) ==
    /\ IsFiniteSet(es) /\ head.position \in Nat
    /\ \/ Cardinality(es) # head.position
       \/ NumberedTo(es, head.position) /\ \E e \in es : e.hash # Append(e.previous, Body(e))

\* What BookIssues says, by rows.
LEMMA BookIssuesAre ==
  ASSUME NEW b
  PROVE  LET rows == ByPosition(EventsOf(b)) IN
         BookIssues(b) = IF b \in DOMAIN headsSeen
                           THEN FinishBook(headsSeen[b], rows)
                                  \cup UNION {EventIssues(rows, n) : n \in DOMAIN rows}
                           ELSE When(rows # <<>>, "events_without_book_head")
BY DEF BookIssues, EventsOf

\* Nothing, of a Book that agrees with its head.
LEMMA NothingIsNoted ==
  ASSUME NEW b, Agrees(headsSeen, b)
  PROVE  BookIssues(b) = {}
<1>1. PICK rows : rows = ByPosition(EventsOf(b))
  OBVIOUS
<1>2. CASE b \in DOMAIN headsSeen
  <2>1. FinishBook(headsSeen[b], rows) = {} /\ \A n \in DOMAIN rows : EventIssues(rows, n) = {}
    BY <1>1, <1>2, ChainHasNoIssues DEF Agrees
  <2> QED BY <1>1, <1>2, <2>1, BookIssuesAre
<1>3. CASE b \notin DOMAIN headsSeen
  <2>1. rows = <<>>
    BY <1>1, <1>3, AllTheRows, FS_EmptySet DEF Agrees
  <2> QED BY <1>1, <1>3, <2>1, BookIssuesAre DEF When
<1> QED BY <1>2, <1>3

\* Something, of a broken one,
LEMMA BrokenIsNoted ==
  ASSUME NEW b, b \in DOMAIN headsSeen, Broken(headsSeen[b], EventsOf(b))
  PROVE  BookIssues(b) # {}
<1>1. PICK rows : rows = ByPosition(EventsOf(b))
  OBVIOUS
<1>2. PICK es : es = EventsOf(b)
  OBVIOUS
<1>3. PICK head : head = headsSeen[b]
  OBVIOUS
<1>4. IsFiniteSet(es) /\ head.position \in Nat
  BY <1>2, <1>3 DEF Broken
<1>5. Len(rows) = Cardinality(es)
  BY <1>1, <1>2, <1>4, AllTheRows
<1>6. /\ FinishBook(head, rows) \subseteq BookIssues(b)
      /\ \A n \in DOMAIN rows : EventIssues(rows, n) \subseteq BookIssues(b)
  BY <1>1, <1>3, BookIssuesAre
<1>7. CASE Cardinality(es) # head.position
  <2>1. "book_head_position_mismatch" \in FinishBook(head, rows)
    BY <1>5, <1>7 DEF FinishBook, When
  <2> QED BY <1>6, <2>1
<1>8. CASE NumberedTo(es, head.position) /\ \E e \in es : e.hash # Append(e.previous, Body(e))
  <2>1. PICK e \in es : e.hash # Append(e.previous, Body(e))
    BY <1>8
  <2>2. e.position \in DOMAIN rows /\ rows[e.position] = e
    <3>1. rows = ByPosition(es) /\ NumberedTo(es, head.position) /\ head.position \in Nat
      BY <1>1, <1>2, <1>4, <1>8
    <3>2. DOMAIN rows = 1..head.position /\ \A d \in es : rows[d.position] = d
      BY <3>1, RowsAreNumbered
    <3>3. e.position \in 1..head.position
      BY <2>1, <3>1 DEF NumberedTo
    <3> QED BY <2>1, <3>2, <3>3
  <2>3. "event_hash_mismatch" \in EventIssues(rows, e.position)
    BY <2>1, <2>2 DEF EventIssues, When
  <2> QED BY <1>6, <2>2, <2>3
<1> QED BY <1>2, <1>3, <1>7, <1>8 DEF Broken

\* and of events without a head.
LEMMA HeadlessIsNoted ==
  ASSUME NEW b, b \notin DOMAIN headsSeen, IsFiniteSet(EventsOf(b)), EventsOf(b) # {}
  PROVE  BookIssues(b) # {}
<1>1. ByPosition(EventsOf(b)) # <<>>
  BY AllTheRows
<1> QED BY <1>1, BookIssuesAre DEF When

-----------------------------------------------------------------------------
(* The events, their heads and the stream heads, while nothing has hurt them *)

StoreOK ==
    /\ bookHeads \in [DOMAIN bookHeads -> HeadRecords] /\ DOMAIN bookHeads \subseteq LedgerBooks
    /\ ledgerEvents \subseteq EventRecords
    /\ \A b \in LedgerBooks : Agrees(bookHeads, b)

StreamRecords == [book : LedgerBooks, stream : Streams, version : Nat, position : Nat]

StreamsOK == streamHeads \subseteq StreamRecords /\ \A h \in streamHeads : StreamHeadHolds(h)

\* A greatest element is the greatest.
LEMMA MaxIs ==
  ASSUME NEW S, S \subseteq Int, NEW m \in S, \A y \in S : m >= y
  PROVE  Max(S) = m
<1>1. \A x \in S : (\A y \in S : x >= y) <=> x = m
  <2> SUFFICES ASSUME NEW x \in S, \A y \in S : x >= y PROVE x = m
    OBVIOUS
  <2>1. x >= m /\ m >= x /\ x \in Int /\ m \in Int
    OBVIOUS
  <2> QED BY <2>1
<1> QED BY <1>1 DEF Max

\* Nothing is there at first.
LEMMA StoreInit ==
  ASSUME LedgerInit
  PROVE  StoreOK /\ StreamsOK
<1>1. ledgerEvents = {} /\ streamHeads = {} /\ bookHeads = <<>>
  BY DEF LedgerInit
<1>2. DOMAIN bookHeads = {} /\ bookHeads \in [DOMAIN bookHeads -> HeadRecords]
  BY <1>1
<1>3. \A b \in LedgerBooks : Agrees(bookHeads, b)
  BY <1>1, <1>2 DEF Agrees, EventsOf
<1> QED BY <1>1, <1>2, <1>3 DEF StoreOK, StreamsOK

\* A new Book has a head of no events.
LEMMA OpenKeeps ==
  ASSUME StoreOK, NEW b \in LedgerBooks, OpenBook(b)
  PROVE  StoreOK' /\ (StreamsOK => StreamsOK')
<1>1. /\ DOMAIN bookHeads' = DOMAIN bookHeads \cup {b} /\ bookHeads'[b] = NewHead
      /\ \A x \in DOMAIN bookHeads : x # b /\ bookHeads'[x] = bookHeads[x]
      /\ bookHeads' = [x \in DOMAIN bookHeads' |-> bookHeads'[x]]
  BY DEF OpenBook
<1>2. b \notin DOMAIN bookHeads /\ ledgerEvents' = ledgerEvents /\ streamHeads' = streamHeads
  BY DEF OpenBook
<1>3. bookHeads' \in [DOMAIN bookHeads' -> HeadRecords] /\ DOMAIN bookHeads' \subseteq LedgerBooks
  BY <1>1, NewBookIsChained DEF StoreOK
<1>4. \A x \in LedgerBooks : Agrees(bookHeads, x)' 
  <2> SUFFICES ASSUME NEW x \in LedgerBooks PROVE Agrees(bookHeads, x)'
    OBVIOUS
  <2>1. Agrees(bookHeads, x) /\ EventsOf(x)' = EventsOf(x)
    BY <1>2 DEF StoreOK, EventsOf
  <2>2. CASE x = b
    BY <1>1, <1>2, <2>1, <2>2, NewBookIsChained DEF Agrees
  <2>3. CASE x # b
    BY <1>1, <2>1, <2>3 DEF Agrees
  <2> QED BY <2>2, <2>3
<1>5. StreamsOK => StreamsOK'
  BY <1>2 DEF StreamsOK, StreamHeadHolds, OfStream
<1> QED BY <1>2, <1>3, <1>4, <1>5 DEF StoreOK

\* What an appended event is.
Appended(b, s, e) ==
    /\ e \in EventRecords /\ e.book = b /\ e.stream = s /\ e.content = "stored"
    /\ e.position = bookHeads[b].position + 1 /\ e.previous = bookHeads[b].hash
    /\ e.hash = Append(e.previous, Body(e))
    /\ ledgerEvents' = ledgerEvents \cup {e}
    /\ streamHeads' = {h \in streamHeads : h.book # b \/ h.stream # s}
                        \cup {[book |-> b, stream |-> s, version |-> e.version, position |-> e.position]}
    /\ bookHeads' = [bookHeads EXCEPT ![b] = [position |-> e.position, hash |-> e.hash]]

LEMMA AppendIs ==
  ASSUME StoreOK, NEW b \in LedgerBooks, b \in DOMAIN bookHeads, NEW s \in Streams, AppendEvent(b, s)
  PROVE  \E e : Appended(b, s, e)
<1>1. PICK head : head = bookHeads[b]
  OBVIOUS
<1>2. head \in HeadRecords /\ NumberedTo(EventsOf(b), head.position)
  BY <1>1 DEF StoreOK, Agrees, Chained
<1>3. head.position \in Nat /\ head.hash \in Hashes
  BY <1>2 DEF HeadRecords
<1>4. PICK n \in Nat : n = Cardinality(OfStream(b, s))
  <2>1. IsFiniteSet(OfStream(b, s))
    BY <1>2, FS_Subset DEF NumberedTo, EventsOf, OfStream
  <2> QED BY <2>1, FS_CardinalityType
<1>5. PICK body : body = [stream |-> s, version |-> n + 1, content |-> "stored"]
  OBVIOUS
<1>6. body \in Bodies
  BY <1>5 DEF Bodies
<1>7. PICK e : e = [book |-> b, position |-> head.position + 1, stream |-> s,
                    version |-> body.version, content |-> body.content,
                    previous |-> head.hash, hash |-> Append(head.hash, body)]
  OBVIOUS
<1>8. Append(head.hash, body) \in Hashes
  BY <1>3, <1>6 DEF Hashes
<1>9. e \in EventRecords
  BY <1>3, <1>5, <1>7, <1>8 DEF EventRecords
<1>10. Body(e) = body
  BY <1>5, <1>7 DEF Body
<1>11. /\ ledgerEvents' = ledgerEvents \cup {e}
       /\ streamHeads' = {h \in streamHeads : h.book # b \/ h.stream # s}
                        \cup {[book |-> b, stream |-> s, version |-> e.version, position |-> e.position]}
       /\ bookHeads' = [bookHeads EXCEPT ![b] = [position |-> e.position, hash |-> e.hash]]
  BY <1>1, <1>4, <1>5, <1>7 DEF AppendEvent
<1> QED BY <1>1, <1>5, <1>7, <1>9, <1>10, <1>11 DEF Appended

\* It leaves the events to their heads,
LEMMA AppendKeepsStore ==
  ASSUME StoreOK, NEW b \in LedgerBooks, b \in DOMAIN bookHeads, NEW s, NEW e, Appended(b, s, e)
  PROVE  StoreOK'
<1>1. PICK h : h = [position |-> e.position, hash |-> e.hash]
  OBVIOUS
<1>2. h \in HeadRecords /\ h.position = e.position /\ h.hash = e.hash
  BY <1>1 DEF Appended, EventRecords, HeadRecords
<1>3. /\ DOMAIN bookHeads' = DOMAIN bookHeads /\ bookHeads'[b] = h
      /\ \A x \in DOMAIN bookHeads : x # b => bookHeads'[x] = bookHeads[x]
      /\ bookHeads' \in [DOMAIN bookHeads' -> HeadRecords]
  BY <1>1, <1>2 DEF Appended, StoreOK
<1>4. ledgerEvents' \subseteq EventRecords
  BY DEF Appended, StoreOK
<1>5. ASSUME NEW x \in LedgerBooks PROVE Agrees(bookHeads, x)'
  <2>1. Agrees(bookHeads, x)
    BY DEF StoreOK
  <2>2. CASE x = b
    <3>1. EventsOf(b)' = EventsOf(b) \cup {e}
      BY DEF Appended, EventsOf
    <3>2. Chained(bookHeads[b], EventsOf(b))
      BY <2>1, <2>2 DEF Agrees
    <3>3. PICK T : T = EventsOf(b)'
      OBVIOUS
    <3>4. Chained(h, T)
      BY <1>2, <3>1, <3>2, <3>3, ChainGrows DEF Appended
    <3> QED BY <1>3, <2>2, <3>3, <3>4 DEF Agrees
  <2>3. CASE x # b
    <3>1. EventsOf(x)' = EventsOf(x)
      BY <2>3 DEF Appended, EventsOf
    <3> QED BY <1>3, <2>1, <2>3, <3>1 DEF Agrees
  <2> QED BY <2>2, <2>3
<1> QED BY <1>3, <1>4, <1>5 DEF StoreOK

\* and the stream heads to the last events of their streams.
LEMMA AppendKeepsStreams ==
  ASSUME StoreOK, StreamsOK, NEW b \in LedgerBooks, b \in DOMAIN bookHeads, NEW s \in Streams,
         NEW e, Appended(b, s, e)
  PROVE  StreamsOK'
<1>1. PICK new : new = [book |-> b, stream |-> s, version |-> e.version, position |-> e.position]
  OBVIOUS
<1>2. new \in StreamRecords
  BY <1>1 DEF Appended, EventRecords, StreamRecords
<1>3. streamHeads' = {h \in streamHeads : h.book # b \/ h.stream # s} \cup {new}
  BY <1>1 DEF Appended
<1>4. ASSUME NEW h \in streamHeads, h.book # b \/ h.stream # s PROVE StreamHeadHolds(h)'
  <2>1. OfStream(h.book, h.stream)' = OfStream(h.book, h.stream)
    BY <1>4 DEF Appended, OfStream
  <2>2. StreamHeadHolds(h)
    BY DEF StreamsOK
  <2> QED BY <2>1, <2>2 DEF StreamHeadHolds
<1>5. StreamHeadHolds(new)'
  <2>1. PICK O : O = OfStream(b, s)'
    OBVIOUS
  <2>2. O = OfStream(b, s) \cup {e}
    BY <2>1 DEF Appended, OfStream
  <2>3. PICK P : P = {d.position : d \in O}
    OBVIOUS
  <2>4. NumberedTo(EventsOf(b), bookHeads[b].position) /\ bookHeads[b].position \in Nat
    BY DEF StoreOK, Agrees, Chained, HeadRecords
  <2>5. \A d \in OfStream(b, s) : d.position \in Int /\ d.position <= e.position
    BY <2>4 DEF NumberedTo, OfStream, EventsOf, Appended
  <2>6. e.position \in Int
    BY <2>4 DEF Appended
  <2>7. P \subseteq Int /\ e.position \in P /\ \A y \in P : e.position >= y
    BY <2>2, <2>3, <2>5, <2>6
  <2>8. Max(P) = e.position
    BY <2>7, MaxIs
  <2>9. e \in O /\ new.book = b /\ new.stream = s /\ new.version = e.version /\ new.position = e.position
    BY <1>1, <2>2
  <2> QED BY <2>1, <2>3, <2>8, <2>9 DEF StreamHeadHolds
<1>6. streamHeads' \subseteq StreamRecords
  BY <1>2, <1>3 DEF StreamsOK
<1> QED BY <1>3, <1>4, <1>5, <1>6 DEF StreamsOK

-----------------------------------------------------------------------------
(* The postings and the balances, while nothing has hurt them *)

UnitsColumn(S) == [x \in S |-> x.units]

\* The sums of the model are those of SetSums.
LEMMA UnitsIsTotal ==
  ASSUME NEW S
  PROVE  UnitsOf(S) = Total(UnitsColumn(S), S)
<1> DEFINE F == UnitsColumn(S)
           Folds(k) == k = [s \in SUBSET S |-> IF s = {} THEN 0
                                               ELSE (CHOOSE x \in s : TRUE).units
                                                      + k[s \ {CHOOSE x \in s : TRUE}]]
<1>1. ASSUME NEW s \in SUBSET S, s # {} PROVE F[First(s)] = (CHOOSE x \in s : TRUE).units
  BY <1>1, OthersAreFewer DEF UnitsColumn, First
<1> HIDE DEF F
<1>2. ASSUME NEW k PROVE Folds(k) <=> Tallies(k, F, S)
  BY <1>1 DEF Tallies, First, Others
<1>3. UnitsOf(S) = (CHOOSE k : Folds(k))[S]
  BY DEF UnitsOf, MapThenSumSet, MapThenFoldSet
<1> HIDE DEF Folds
<1>4. (CHOOSE k : Folds(k)) = CHOOSE g : Tallies(g, F, S)
  BY <1>2, Zenon
<1> QED BY <1>3, <1>4 DEF Total, F

PostingRecords == [book : LedgerBooks, txn : Nat, purse : Purses, units : {1, -1}]

\* A sum over postings, with one posting more or less.
LEMMA UnitsAdd ==
  ASSUME NEW S, IsFiniteSet(S), S \subseteq PostingRecords, NEW p \in PostingRecords, p \notin S,
         NEW T, T = S \cup {p}
  PROVE  UnitsOf(S) \in Int /\ UnitsOf(T) = UnitsOf(S) + p.units
<1>1. PICK F : F = UnitsColumn(T)
  OBVIOUS
<1>2. F[p] = p.units /\ F[p] \in Int /\ \A x \in S : F[x] = UnitsColumn(S)[x] /\ F[x] \in Int
  BY <1>1 DEF UnitsColumn, PostingRecords
<1>3. Summable(F, S)
  BY <1>2 DEF Summable
<1>4. Total(F, T) = Total(F, S) + F[p] /\ Total(F, S) \in Int
  BY <1>2, <1>3, TotalAdds, TotalIsInt
<1>5. Total(F, S) = Total(UnitsColumn(S), S)
  BY <1>2, <1>3, TotalAgrees
<1> QED BY <1>1, <1>2, <1>4, <1>5, UnitsIsTotal

LEMMA UnitsOfNone ==
  UnitsOf({}) = 0
BY UnitsIsTotal, TotalOfNone

\* The two postings of a transaction balance.
LEMMA TwoBalance ==
  ASSUME NEW p \in PostingRecords, NEW q \in PostingRecords, p.units = 1, q.units = -1
  PROVE  UnitsOf({p, q}) = 0
<1>1. p # q
  OBVIOUS
<1>2. UnitsOf({p}) = 1
  <2>1. IsFiniteSet({}) /\ {p} = {} \cup {p}
    BY FS_EmptySet
  <2>2. UnitsOf({p}) = UnitsOf({}) + p.units
    BY <2>1, UnitsAdd
  <2> QED BY <2>2, UnitsOfNone
<1>3. IsFiniteSet({p}) /\ {p, q} = {p} \cup {q} /\ q \notin {p} /\ {p} \subseteq PostingRecords
  BY <1>1, FS_Singleton
<1>4. UnitsOf({p, q}) = UnitsOf({p}) + q.units
  BY <1>3, UnitsAdd
<1> QED BY <1>2, <1>4

InTransaction(b, t) == {q \in postingRows : q.book = b /\ q.txn = t}
OnPurse(b, a) == {p \in postingRows : p.book = b /\ p.purse = a}

\* A transaction balances and no purse is in it twice; balances are the sums of the postings.
PostingsOK ==
    /\ IsFiniteSet(postingRows) /\ postingRows \subseteq PostingRecords
    /\ \A p \in postingRows : p.book \in DOMAIN bookHeads /\ p.txn <= bookHeads[p.book].position
    /\ \A p, q \in postingRows : p.book = q.book /\ p.txn = q.txn /\ p.purse = q.purse => p = q
    /\ \A p \in postingRows : UnitsOf(InTransaction(p.book, p.txn)) = 0
    /\ purseSums \in [LedgerBooks \X Purses -> Int]
    /\ \A b \in LedgerBooks, a \in Purses : purseSums[<<b, a>>] = UnitsOf(OnPurse(b, a))

LEMMA ComputedIs ==
  ASSUME NEW b, NEW a
  PROVE  Computed(<<b, a>>) = UnitsOf(OnPurse(b, a))
<1>1. {p \in postingRows : <<p.book, p.purse>> = <<b, a>>} = OnPurse(b, a)
  BY DEF OnPurse
<1> QED BY <1>1 DEF Computed

\* A new Book, or the event of a classification, leaves the postings alone.
LEMMA PostingsKept ==
  ASSUME PostingsOK, UNCHANGED <<postingRows, purseSums>>, DOMAIN bookHeads \subseteq DOMAIN bookHeads',
         \A b \in DOMAIN bookHeads : /\ bookHeads[b].position \in Nat /\ bookHeads'[b].position \in Nat
                                     /\ bookHeads[b].position <= bookHeads'[b].position
  PROVE  PostingsOK'
<1>1. \A b, t : InTransaction(b, t)' = InTransaction(b, t)
  BY DEF InTransaction
<1>2. \A b, a : OnPurse(b, a)' = OnPurse(b, a)
  BY DEF OnPurse
<1>3. \A p \in postingRows : p.book \in DOMAIN bookHeads' /\ p.txn <= bookHeads'[p.book].position
  BY DEF PostingsOK, PostingRecords
<1> QED BY <1>1, <1>2, <1>3 DEF PostingsOK

\* A transaction's postings are its own, and the balances follow them.
LEMMA PostKeeps ==
  ASSUME StoreOK, PostingsOK, NEW b \in LedgerBooks, b \in DOMAIN bookHeads, NEW debit \in Purses,
         NEW credit \in Purses, PostUnit(b, debit, credit)
  PROVE  PostingsOK'
<1>1. PICK t : t = bookHeads[b].position + 1
  OBVIOUS
<1>2. bookHeads[b].position \in Nat /\ t \in Nat
  BY <1>1 DEF StoreOK, HeadRecords
<1>3. \E s \in Streams : AppendEvent(b, s)
  <2>1. <<"journal_transaction", t>> \in Streams
    BY <1>2 DEF Streams
  <2> QED BY <1>1, <2>1 DEF PostUnit
<1>4. PICK s \in Streams : AppendEvent(b, s)
  BY <1>3
<1>5. PICK e : Appended(b, s, e)
  BY <1>4, AppendIs
<1>6. /\ DOMAIN bookHeads' = DOMAIN bookHeads
      /\ bookHeads'[b].position = t
      /\ \A x \in DOMAIN bookHeads : x # b => bookHeads'[x] = bookHeads[x]
  BY <1>1, <1>5 DEF Appended, StoreOK
<1>7. PICK p : p = [book |-> b, txn |-> t, purse |-> debit, units |-> 1]
  OBVIOUS
<1>8. PICK q : q = [book |-> b, txn |-> t, purse |-> credit, units |-> -1]
  OBVIOUS
<1>9. /\ p \in PostingRecords /\ q \in PostingRecords /\ p.units = 1 /\ q.units = -1
      /\ p.book = b /\ q.book = b /\ p.txn = t /\ q.txn = t /\ p.purse = debit /\ q.purse = credit
      /\ debit # credit /\ p # q
  BY <1>2, <1>7, <1>8 DEF PostingRecords, PostUnit
<1>10. postingRows' = postingRows \cup {p, q}
  BY <1>1, <1>7, <1>8 DEF PostUnit
<1>11. \A r \in postingRows : r.book = b => r.txn < t
  BY <1>1, <1>2 DEF PostingsOK, PostingRecords
<1>12. p \notin postingRows /\ q \notin postingRows
  BY <1>2, <1>9, <1>11
<1>13. IsFiniteSet(postingRows') /\ postingRows' \subseteq PostingRecords
  <2>1. IsFiniteSet(postingRows \cup {p}) /\ postingRows \cup {p, q} = (postingRows \cup {p}) \cup {q}
    BY FS_AddElement DEF PostingsOK
  <2>2. IsFiniteSet((postingRows \cup {p}) \cup {q})
    BY <2>1, FS_AddElement
  <2> QED BY <1>9, <1>10, <2>1, <2>2 DEF PostingsOK
<1>14. \A r \in postingRows' : r.book \in DOMAIN bookHeads' /\ r.txn <= bookHeads'[r.book].position
  <2> SUFFICES ASSUME NEW r \in postingRows'
               PROVE  r.book \in DOMAIN bookHeads' /\ r.txn <= bookHeads'[r.book].position
    OBVIOUS
  <2>1. CASE r \in postingRows
    <3>1. r.book \in DOMAIN bookHeads /\ r.txn <= bookHeads[r.book].position
      BY <2>1 DEF PostingsOK
    <3>2. r.txn \in Nat
      BY <2>1 DEF PostingsOK, PostingRecords
    <3>3. CASE r.book = b
      BY <1>1, <1>2, <1>6, <3>1, <3>2, <3>3
    <3>4. CASE r.book # b
      BY <1>6, <3>1, <3>4
    <3> QED BY <3>3, <3>4
  <2>2. CASE r \in {p, q}
    BY <1>2, <1>6, <1>9, <2>2
  <2> QED BY <1>10, <2>1, <2>2
<1>15. \A r, z \in postingRows' : r.book = z.book /\ r.txn = z.txn /\ r.purse = z.purse => r = z
  <2>1. \A r, z \in postingRows : r.book = z.book /\ r.txn = z.txn /\ r.purse = z.purse => r = z
    BY DEF PostingsOK
  <2>2. \A r \in postingRows : ~(r.book = b /\ r.txn = t)
    BY <1>2, <1>11
  <2> QED BY <1>9, <1>10, <2>1, <2>2
<1>16. \A r \in postingRows' : UnitsOf(InTransaction(r.book, r.txn)') = 0
  <2> SUFFICES ASSUME NEW r \in postingRows' PROVE UnitsOf(InTransaction(r.book, r.txn)') = 0
    OBVIOUS
  <2>1. CASE r \in postingRows
    <3>1. ~(r.book = b /\ r.txn = t)
      BY <1>2, <1>11, <2>1
    <3>2. InTransaction(r.book, r.txn)' = InTransaction(r.book, r.txn)
      BY <1>9, <1>10, <3>1 DEF InTransaction
    <3> QED BY <2>1, <3>2 DEF PostingsOK
  <2>2. CASE r \in {p, q}
    <3>1. r.book = b /\ r.txn = t
      BY <1>9, <2>2
    <3>2. InTransaction(b, t)' = {p, q}
      BY <1>2, <1>9, <1>10, <1>11 DEF InTransaction
    <3> QED BY <1>9, <3>1, <3>2, TwoBalance
  <2> QED BY <1>10, <2>1, <2>2
<1>17. /\ purseSums' \in [LedgerBooks \X Purses -> Int]
       /\ purseSums'[<<b, debit>>] = purseSums[<<b, debit>>] + 1
       /\ purseSums'[<<b, credit>>] = purseSums[<<b, credit>>] - 1
       /\ \A x \in LedgerBooks, a \in Purses :
            (x # b \/ a \notin {debit, credit}) => purseSums'[<<x, a>>] = purseSums[<<x, a>>]
  <2>1. purseSums' = [purseSums EXCEPT ![<<b, debit>>] = @ + 1, ![<<b, credit>>] = @ - 1]
    BY DEF PostUnit
  <2>2. purseSums \in [LedgerBooks \X Purses -> Int]
    BY DEF PostingsOK
  <2>3. <<b, debit>> # <<b, credit>> /\ {<<b, debit>>, <<b, credit>>} \subseteq LedgerBooks \X Purses
    BY <1>9
  <2>4. purseSums' \in [LedgerBooks \X Purses -> Int]
    BY <2>1, <2>2, <2>3
  <2>5. /\ purseSums'[<<b, debit>>] = purseSums[<<b, debit>>] + 1
        /\ purseSums'[<<b, credit>>] = purseSums[<<b, credit>>] - 1
    BY <2>1, <2>2, <2>3
  <2>6. ASSUME NEW x \in LedgerBooks, NEW a \in Purses, x # b \/ a \notin {debit, credit}
        PROVE  purseSums'[<<x, a>>] = purseSums[<<x, a>>]
    <3>1. <<x, a>> # <<b, debit>> /\ <<x, a>> # <<b, credit>> /\ <<x, a>> \in LedgerBooks \X Purses
      BY <2>6
    <3> QED BY <2>1, <2>2, <2>3, <3>1
  <2> QED BY <2>4, <2>5, <2>6
<1>18. ASSUME NEW x \in LedgerBooks, NEW a \in Purses
       PROVE  purseSums'[<<x, a>>] = UnitsOf(OnPurse(x, a)')
  <2>1. purseSums[<<x, a>>] = UnitsOf(OnPurse(x, a)) /\ purseSums[<<x, a>>] \in Int
    BY DEF PostingsOK
  <2>2. IsFiniteSet(OnPurse(x, a)) /\ OnPurse(x, a) \subseteq PostingRecords
    BY FS_Subset DEF OnPurse, PostingsOK
  <2>3. p \notin OnPurse(x, a) /\ q \notin OnPurse(x, a)
    BY <1>12 DEF OnPurse
  <2>4. CASE x = b /\ a = debit
    <3>1. OnPurse(x, a)' = OnPurse(x, a) \cup {p}
      BY <1>9, <1>10, <2>4 DEF OnPurse
    <3>2. UnitsOf(OnPurse(x, a)') = UnitsOf(OnPurse(x, a)) + 1
      BY <1>9, <2>2, <2>3, <3>1, UnitsAdd
    <3> QED BY <1>17, <2>1, <2>4, <3>2
  <2>5. CASE x = b /\ a = credit
    <3>1. OnPurse(x, a)' = OnPurse(x, a) \cup {q}
      BY <1>9, <1>10, <2>5 DEF OnPurse
    <3>2. UnitsOf(OnPurse(x, a)') = UnitsOf(OnPurse(x, a)) + (-1)
      BY <1>9, <2>2, <2>3, <3>1, UnitsAdd
    <3> QED BY <1>17, <2>1, <2>5, <3>2
  <2>6. CASE x # b \/ a \notin {debit, credit}
    <3>1. OnPurse(x, a)' = OnPurse(x, a)
      BY <1>9, <1>10, <2>6 DEF OnPurse
    <3> QED BY <1>17, <2>1, <2>6, <3>1
  <2> QED BY <2>4, <2>5, <2>6
<1> QED BY <1>13, <1>14, <1>15, <1>16, <1>17, <1>18 DEF PostingsOK

-----------------------------------------------------------------------------
(* What a restore does *)

Whole == StoreOK /\ StreamsOK /\ PostingsOK

AnEventIsHurt ==
    \E b \in LedgerBooks : b \in DOMAIN bookHeads /\ Broken(bookHeads[b], EventsOf(b))
AHeadIsLost ==
    \E b \in LedgerBooks : b \notin DOMAIN bookHeads /\ IsFiniteSet(EventsOf(b)) /\ EventsOf(b) # {}
AStreamHeadIsHurt == \E h \in streamHeads : ~StreamHeadHolds(h)
ABalanceIsOff == \E key \in DOMAIN purseSums : OuterJoin(key)

Damaged ==
    /\ hurt = "events" => AnEventIsHurt
    /\ hurt = "heads" => AHeadIsLost
    /\ hurt = "streams" => AStreamHeadIsHurt
    /\ hurt \in {"postings", "balances"} => ABalanceIsOff

\* A hash over a body is not the hash over another.
LEMMA HashesDiffer ==
  ASSUME NEW s \in Hashes, NEW x \in Bodies, NEW y \in Bodies, x # y
  PROVE  Append(s, x) # Append(s, y)
<1>1. s \in Seq(Bodies) /\ Len(s) \in Nat
  BY DEF Hashes
<1>2. Append(s, x)[Len(s) + 1] = x /\ Append(s, y)[Len(s) + 1] = y
  BY <1>1
<1> QED BY <1>2

\* A garbled event keeps its place.
LEMMA GarbledIsBroken ==
  ASSUME NEW head, NEW es, Chained(head, es), NEW e \in es, NEW g,
         g = [e EXCEPT !.content = "garbled"], NEW T, T = (es \ {e}) \cup {g}
  PROVE  Broken(head, T)
<1>1. e \in EventRecords /\ e.content = "stored" /\ e.hash = Append(e.previous, Body(e))
  BY DEF Chained
<1>2. /\ g \in EventRecords /\ g.position = e.position /\ g.content = "garbled"
      /\ g.previous = e.previous /\ g.hash = e.hash
  BY <1>1 DEF EventRecords
<1>3. Append(g.previous, Body(g)) # g.hash
  <2>1. Body(e) \in Bodies /\ Body(g) \in Bodies /\ Body(e) # Body(g)
    BY <1>1, <1>2, BodyType
  <2>2. e.previous \in Hashes
    BY <1>1 DEF EventRecords
  <2> QED BY <1>1, <1>2, <2>1, <2>2, HashesDiffer
<1>4. PICK n \in Nat : n = head.position
  BY DEF Chained, HeadRecords
<1>5. NumberedTo(es, n)
  BY <1>4 DEF Chained
<1>6. NumberedTo(T, n)
  <2>1. IsFiniteSet(T)
    <3>1. IsFiniteSet(es \ {e})
      BY <1>5, FS_RemoveElement DEF NumberedTo
    <3> QED BY <3>1, FS_AddElement
  <2>2. \A d \in T : d.position \in 1..n
    BY <1>2, <1>5 DEF NumberedTo
  <2>3. ASSUME NEW m \in 1..n PROVE \E d \in T : d.position = m
    <3>1. PICK d \in es : d.position = m
      BY <1>5 DEF NumberedTo
    <3> QED BY <1>2, <3>1
  <2>4. \A c, d \in T : c.position = d.position => c = d
    <3>1. \A c \in es : c.position = e.position => c = e
      BY <1>5 DEF NumberedTo
    <3>2. \A c \in es \ {e} : c.position # g.position
      BY <1>2, <3>1
    <3> QED BY <1>5, <3>2 DEF NumberedTo
  <2> QED BY <2>1, <2>2, <2>3, <2>4 DEF NumberedTo
<1> QED BY <1>3, <1>4, <1>6 DEF Broken, NumberedTo

\* One that is lost leaves one too few.
LEMMA LostIsBroken ==
  ASSUME NEW head, NEW es, Chained(head, es), NEW e \in es, NEW T, T = es \ {e}
  PROVE  Broken(head, T)
<1>1. PICK n \in Nat : n = head.position
  BY DEF Chained, HeadRecords
<1>2. NumberedTo(es, n)
  BY <1>1 DEF Chained
<1>3. Cardinality(es) = n /\ IsFiniteSet(es)
  BY <1>2, RowsAreNumbered DEF NumberedTo
<1>4. IsFiniteSet(T) /\ Cardinality(T) = n - 1
  BY <1>3, FS_RemoveElement
<1> QED BY <1>1, <1>4 DEF Broken

LEMMA HurtEventsDamages ==
  ASSUME Whole, HurtEvents
  PROVE  AnEventIsHurt'
<1>1. PICK e \in ledgerEvents :
         \/ ledgerEvents' = ledgerEvents \ {e}
         \/ ledgerEvents' = (ledgerEvents \ {e}) \cup {[e EXCEPT !.content = "garbled"]}
  BY DEF HurtEvents
<1>2. PICK b : b = e.book
  OBVIOUS
<1>3. e \in EventRecords /\ b \in LedgerBooks /\ e \in EventsOf(b)
  BY <1>2 DEF Whole, StoreOK, EventRecords, EventsOf
<1>4. b \in DOMAIN bookHeads /\ Chained(bookHeads[b], EventsOf(b))
  BY <1>3 DEF Whole, StoreOK, Agrees
<1>5. PICK g : g = [e EXCEPT !.content = "garbled"]
  OBVIOUS
<1>6. g.book = b
  BY <1>2, <1>3, <1>5 DEF EventRecords
<1>7. EventsOf(b)' = EventsOf(b) \ {e} \/ EventsOf(b)' = (EventsOf(b) \ {e}) \cup {g}
  BY <1>1, <1>2, <1>5, <1>6 DEF EventsOf
<1>8. PICK T : T = EventsOf(b)'
  OBVIOUS
<1>9. Broken(bookHeads[b], T)
  BY <1>3, <1>4, <1>5, <1>7, <1>8, GarbledIsBroken, LostIsBroken
<1>10. bookHeads' = bookHeads
  BY DEF HurtEvents
<1>11. PICK head : head = bookHeads[b] /\ Broken(head, T)
  BY <1>9
<1> QED BY <1>3, <1>4, <1>8, <1>10, <1>11 DEF AnEventIsHurt

\* The head of a Book with events is missed.
LEMMA HurtHeadsDamages ==
  ASSUME Whole, HurtHeads, hurt' = "heads"
  PROVE  AHeadIsLost'
<1>1. PICK b \in DOMAIN bookHeads :
         /\ hurt' = (IF bookHeads[b] = NewHead THEN "unused" ELSE "heads")
         /\ bookHeads' = [x \in DOMAIN bookHeads \ {b} |-> bookHeads[x]]
  BY DEF HurtHeads, Hurts
<1>2. bookHeads[b] # NewHead
  BY <1>1
<1>3. b \in LedgerBooks /\ Chained(bookHeads[b], EventsOf(b)) /\ bookHeads[b] \in HeadRecords
  BY <1>1 DEF Whole, StoreOK, Agrees
<1>4. PICK head : head = bookHeads[b]
  OBVIOUS
<1>5. head \in HeadRecords /\ head.position # 0
  <2>1. head \in HeadRecords /\ (head.position = 0 => head.hash = ZeroHash)
    BY <1>3, <1>4 DEF Chained
  <2>2. head = [position |-> head.position, hash |-> head.hash]
    BY <2>1 DEF HeadRecords
  <2> QED BY <1>2, <1>4, <2>1, <2>2 DEF NewHead
<1>6. PICK n \in Nat : n = head.position /\ n \in 1..n
  BY <1>5 DEF HeadRecords
<1>7. NumberedTo(EventsOf(b), n)
  BY <1>3, <1>4, <1>6 DEF Chained
<1>8. IsFiniteSet(EventsOf(b)) /\ EventsOf(b) # {}
  BY <1>6, <1>7 DEF NumberedTo
<1>9. EventsOf(b)' = EventsOf(b)
  BY DEF HurtHeads, EventsOf
<1>10. b \notin DOMAIN bookHeads'
  BY <1>1
<1> QED BY <1>3, <1>8, <1>9, <1>10 DEF AHeadIsLost

\* A stream head an event behind its stream.
LEMMA HurtStreamsDamages ==
  ASSUME Whole, HurtStreams, hurt' = "streams"
  PROVE  AStreamHeadIsHurt'
<1>1. PICK h \in streamHeads : streamHeads' = (streamHeads \ {h}) \cup {[h EXCEPT !.version = @ - 1]}
  BY DEF HurtStreams, Hurts
<1>2. PICK g : g = [h EXCEPT !.version = @ - 1]
  OBVIOUS
<1>3. h \in StreamRecords /\ StreamHeadHolds(h)
  BY DEF Whole, StreamsOK
<1>4. h.version \in Nat /\ g.version = h.version - 1 /\ g.book = h.book /\ g.stream = h.stream
  BY <1>2, <1>3 DEF StreamRecords
<1>5. PICK O : O = OfStream(h.book, h.stream)
  OBVIOUS
<1>6. PICK top : top = Max({d.position : d \in O})
  OBVIOUS
<1>7. PICK e \in O : e.position = top /\ e.version = h.version
  BY <1>3, <1>5, <1>6 DEF StreamHeadHolds
<1>8. \A d \in O : d.position = top => d = e
  <2>1. h.book \in LedgerBooks /\ O \subseteq EventsOf(h.book) /\ EventsOf(h.book) # {}
    BY <1>3, <1>5, <1>7 DEF StreamRecords, OfStream, EventsOf
  <2>2. \A c, d \in EventsOf(h.book) : c.position = d.position => c = d
    BY <2>1 DEF Whole, StoreOK, Agrees, Chained, NumberedTo
  <2> QED BY <1>7, <2>1, <2>2
<1>9. OfStream(g.book, g.stream)' = O
  BY <1>4, <1>5 DEF HurtStreams, OfStream
<1>10. ~StreamHeadHolds(g)'
  <2>1. SUFFICES ASSUME StreamHeadHolds(g)' PROVE FALSE
    OBVIOUS
  <2>2. \E d \in O : d.position = top /\ d.version = g.version
    BY <1>6, <1>9, <2>1 DEF StreamHeadHolds
  <2>3. e.version = g.version
    BY <1>8, <2>2
  <2> QED BY <1>4, <1>7, <2>3
<1> QED BY <1>1, <1>2, <1>10 DEF AStreamHeadIsHurt

\* A lost posting is missed in its balance.
LEMMA HurtPostingsDamages ==
  ASSUME Whole, HurtPostings
  PROVE  ABalanceIsOff'
<1>1. PICK p \in postingRows : \/ postingRows' = postingRows \ {p}
                               \/ postingRows' = {q \in postingRows : q.book # p.book \/ q.txn # p.txn}
  BY DEF HurtPostings
<1>2. p \in PostingRecords /\ p.book \in LedgerBooks /\ p.purse \in Purses /\ p.units \in {1, -1}
  BY DEF Whole, PostingsOK, PostingRecords
<1>3. PICK S : S = OnPurse(p.book, p.purse)
  OBVIOUS
<1>4. PICK T : T = S \ {p}
  OBVIOUS
<1>5. p \in S /\ S = T \cup {p} /\ p \notin T
  BY <1>3, <1>4 DEF OnPurse
<1>6. IsFiniteSet(S) /\ S \subseteq PostingRecords /\ IsFiniteSet(T)
  BY <1>3, <1>4, FS_Subset DEF Whole, PostingsOK, OnPurse
<1>7. UnitsOf(T) \in Int /\ UnitsOf(S) = UnitsOf(T) + p.units
  BY <1>2, <1>5, <1>6, UnitsAdd
<1>8. OnPurse(p.book, p.purse)' = T
  <2>1. \A q \in S : q # p => q.txn # p.txn
    BY <1>3 DEF Whole, PostingsOK, OnPurse
  <2>2. T \subseteq postingRows'
    BY <1>1, <1>3, <1>4, <2>1 DEF OnPurse
  <2>3. p \notin postingRows' /\ postingRows' \subseteq postingRows
    BY <1>1
  <2> QED BY <1>3, <1>4, <2>2, <2>3 DEF OnPurse
<1>9. purseSums' = purseSums /\ <<p.book, p.purse>> \in DOMAIN purseSums
  BY <1>2 DEF HurtPostings, Whole, PostingsOK
<1>10. purseSums[<<p.book, p.purse>>] = UnitsOf(S)
  BY <1>2, <1>3 DEF Whole, PostingsOK
<1>11. Computed(<<p.book, p.purse>>)' = UnitsOf(T)
  <2>1. Computed(<<p.book, p.purse>>)' = UnitsOf(OnPurse(p.book, p.purse)')
    BY DEF Computed, OnPurse
  <2> QED BY <1>8, <2>1
<1>12. OuterJoin(<<p.book, p.purse>>)'
  BY <1>2, <1>7, <1>9, <1>10, <1>11 DEF OuterJoin
<1> QED BY <1>9, <1>12 DEF ABalanceIsOff

\* A balance that is not 0 has postings.
LEMMA HurtBalancesDamages ==
  ASSUME Whole, HurtBalances
  PROVE  ABalanceIsOff'
<1>1. PICK key \in DOMAIN purseSums : purseSums[key] # 0 /\ purseSums' = [purseSums EXCEPT ![key] = 0]
  BY DEF HurtBalances
<1>2. PICK b \in LedgerBooks, a \in Purses : key = <<b, a>>
  BY DEF Whole, PostingsOK
<1>3. purseSums[key] = Computed(key)
  BY <1>2, ComputedIs DEF Whole, PostingsOK
<1>4. Computed(key)' = Computed(key)
  BY DEF HurtBalances, Computed
<1>5. purseSums'[key] = 0 /\ key \in DOMAIN purseSums'
  BY <1>1
<1> QED BY <1>1, <1>3, <1>4, <1>5 DEF ABalanceIsOff, OuterJoin

-----------------------------------------------------------------------------
(* What a run of the verifier has noted *)

Balanced == {"balances", "reported"}
StreamsRead == {"streams", "postings"} \cup Balanced
EventsRead == {"events"} \cup StreamsRead

Reported ==
    /\ hurt # "none" /\ at = "heads" => headsSeen = bookHeads
    /\ hurt \in {"events", "heads"} /\ at \in EventsRead => issues # {}
    /\ hurt = "streams" /\ at \in StreamsRead => issues # {}
    /\ hurt \in {"postings", "balances"} /\ at \in Balanced => issues # {}

\* Nothing false, and nothing that the statement over the events will find false.
NothingFalse ==
    hurt = "none" /\ ~crossed /\ at # "idle" =>
      /\ issues \subseteq {"unresolved_projection_failures"}
      /\ at = "heads" => \A b \in LedgerBooks : Agrees(headsSeen, b)

HurtTables == {"events", "heads", "streams", "postings", "balances"}
HurtKinds == {"none", "missing stream", "unused"} \cup HurtTables

VInv ==
    /\ hurt \in HurtKinds
    /\ hurt = "none" => Whole
    /\ Damaged /\ Reported /\ NothingFalse

\* The statements of the verifier, and the projector, write to no table.
LEMMA TablesKept ==
  ASSUME UNCHANGED <<tables, hurt>>
  PROVE  /\ Whole' = Whole /\ Damaged' = Damaged
         /\ \A heads, b : Agrees(heads, b)' = Agrees(heads, b)
<1>1. UNCHANGED <<bookHeads, ledgerEvents, streamHeads, postingRows, purseSums, hurt>>
  BY DEF tables
<1>2. \A b : EventsOf(b)' = EventsOf(b)
  BY <1>1 DEF EventsOf
<1>3. \A heads, b : Agrees(heads, b)' = Agrees(heads, b)
  BY <1>2 DEF Agrees
<1>4. StoreOK' = StoreOK
  BY <1>1, <1>3 DEF StoreOK
<1>5. \A h : StreamHeadHolds(h)' = StreamHeadHolds(h)
  BY <1>1 DEF StreamHeadHolds, OfStream
<1>6. StreamsOK' = StreamsOK
  BY <1>1, <1>5 DEF StreamsOK
<1>7. PostingsOK' = PostingsOK
  BY <1>1 DEF PostingsOK, InTransaction, OnPurse
<1>8. \A key : OuterJoin(key)' = OuterJoin(key)
  BY <1>1 DEF OuterJoin, Computed
<1>9. /\ AnEventIsHurt' = AnEventIsHurt /\ AHeadIsLost' = AHeadIsLost
      /\ AStreamHeadIsHurt' = AStreamHeadIsHurt /\ ABalanceIsOff' = ABalanceIsOff
  BY <1>1, <1>2, <1>5, <1>8 DEF AnEventIsHurt, AHeadIsLost, AStreamHeadIsHurt, ABalanceIsOff
<1> QED BY <1>1, <1>3, <1>4, <1>6, <1>7, <1>9 DEF Whole, Damaged

LEMMA VerificationInit ==
  LedgerInit => VInv
<1> SUFFICES ASSUME LedgerInit PROVE VInv
  OBVIOUS
<1>1. /\ postingRows = {} /\ purseSums = [key \in LedgerBooks \X Purses |-> 0]
      /\ hurt = "none" /\ at = "idle"
  BY DEF LedgerInit
<1>2. PostingsOK
  <2>1. \A b, a : OnPurse(b, a) = {}
    BY <1>1 DEF OnPurse
  <2> QED BY <1>1, <2>1, UnitsOfNone, FS_EmptySet DEF PostingsOK
<1> QED BY <1>1, <1>2, StoreInit DEF VInv, HurtKinds, Whole, Damaged, Reported, NothingFalse

\* The service writes to a database that nothing has hurt.
LEMMA ServiceKeeps ==
  ASSUME VInv, NEW b \in LedgerBooks,
         \/ OpenBook(b)
         \/ b \in DOMAIN bookHeads /\
              \/ \E x, y \in Purses : PostUnit(b, x, y)
              \/ \E txn \in 1..MaxRecorded : ClassifyPosted(b, txn)
  PROVE  VInv'
<1>1. hurt = "none" /\ hurt' = "none"
  BY DEF OpenBook, PostUnit, ClassifyPosted, AppendEvent
<1>2. Whole
  BY <1>1 DEF VInv
<1>3. hurt' \in HurtKinds /\ Damaged' /\ Reported'
  BY <1>1 DEF HurtKinds, Damaged, Reported
<1>4. CASE OpenBook(b)
  <2>1. StoreOK' /\ StreamsOK'
    BY <1>2, <1>4, OpenKeeps DEF Whole
  <2>2. PostingsOK'
    <3>1. UNCHANGED <<postingRows, purseSums>>
      BY <1>4 DEF OpenBook
    <3>2. \A x \in DOMAIN bookHeads : bookHeads'[x] = bookHeads[x]
      BY <1>4 DEF OpenBook
    <3>3. DOMAIN bookHeads \subseteq DOMAIN bookHeads'
      BY <1>4 DEF OpenBook
    <3>4. \A x \in DOMAIN bookHeads : bookHeads[x].position \in Nat
      BY <1>2 DEF Whole, StoreOK, HeadRecords
    <3>5. \A x \in DOMAIN bookHeads : /\ bookHeads[x].position \in Nat /\ bookHeads'[x].position \in Nat
                                      /\ bookHeads[x].position <= bookHeads'[x].position
      BY <3>2, <3>4
    <3> QED BY <1>2, <3>1, <3>3, <3>5, PostingsKept DEF Whole
  <2>3. NothingFalse'
    <3>1. UNCHANGED <<ledgerEvents, hurt, at, headsSeen, issues, crossed>>
      BY <1>4 DEF OpenBook, reportVars
    <3> QED BY <3>1 DEF VInv, NothingFalse, Agrees, EventsOf
  <2> QED BY <1>3, <2>1, <2>2, <2>3 DEF VInv, Whole
<1>5. ASSUME b \in DOMAIN bookHeads, NEW s \in Streams, AppendEvent(b, s),
             UNCHANGED <<hurt, at, headsSeen, issues>>, PostingsOK'
      PROVE  VInv'
  <2>1. PICK e : Appended(b, s, e)
    BY <1>2, <1>5, AppendIs DEF Whole
  <2>2. StoreOK' /\ StreamsOK'
    BY <1>2, <1>5, <2>1, AppendKeepsStore, AppendKeepsStreams DEF Whole
  <2>3. NothingFalse'
    <3>1. CASE at = "heads"
      BY <1>5, <3>1 DEF AppendEvent, Crosses, NothingFalse
    <3>2. CASE at # "heads"
      BY <1>5, <3>2 DEF AppendEvent, Crosses, NothingFalse, VInv
    <3> QED BY <3>1, <3>2
  <2> QED BY <1>3, <1>5, <2>2, <2>3 DEF VInv, Whole
<1>6. ASSUME b \in DOMAIN bookHeads, NEW x \in Purses, NEW y \in Purses, PostUnit(b, x, y) PROVE VInv'
  <2>1. PICK s : s = <<"journal_transaction", bookHeads[b].position + 1>>
    OBVIOUS
  <2>2. s \in Streams
    BY <1>2, <1>6, <2>1 DEF Whole, StoreOK, HeadRecords, Streams
  <2>3. AppendEvent(b, s) /\ UNCHANGED <<hurt, at, headsSeen, issues>>
    BY <1>6, <2>1 DEF PostUnit
  <2>4. PostingsOK'
    BY <1>2, <1>6, PostKeeps DEF Whole
  <2> QED BY <1>5, <1>6, <2>2, <2>3, <2>4
<1>7. ASSUME b \in DOMAIN bookHeads, NEW txn \in 1..MaxRecorded, ClassifyPosted(b, txn) PROVE VInv'
  <2>1. PICK s : s = <<"reporting_lines", txn>>
    OBVIOUS
  <2>2. s \in Streams
    BY <1>7, <2>1 DEF Streams
  <2>3. AppendEvent(b, s) /\ UNCHANGED <<hurt, at, headsSeen, issues, postingRows, purseSums>>
    BY <1>7, <2>1 DEF ClassifyPosted
  <2>4. PICK e : Appended(b, s, e)
    BY <1>2, <1>7, <2>2, <2>3, AppendIs DEF Whole
  <2>5. DOMAIN bookHeads \subseteq DOMAIN bookHeads' /\ bookHeads \in [DOMAIN bookHeads -> HeadRecords]
    BY <1>2, <2>4 DEF Appended, Whole, StoreOK
  <2>6. ASSUME NEW x \in DOMAIN bookHeads
        PROVE  /\ bookHeads[x].position \in Nat /\ bookHeads'[x].position \in Nat
               /\ bookHeads[x].position <= bookHeads'[x].position
    <3>1. bookHeads[x].position \in Nat
      BY <2>5 DEF HeadRecords
    <3>2. bookHeads'[x].position = bookHeads[x].position + 1 \/ bookHeads'[x] = bookHeads[x]
      BY <1>7, <2>4, <2>5 DEF Appended
    <3> QED BY <3>1, <3>2
  <2>7. PostingsOK'
    BY <1>2, <2>3, <2>5, <2>6, PostingsKept DEF Whole
  <2> QED BY <1>5, <1>7, <2>2, <2>3, <2>7
<1> QED BY <1>4, <1>6, <1>7

\* A restore hurts what no run is reading.
LEMMA RestoreKeeps ==
  ASSUME VInv, HurtEvents \/ HurtHeads \/ HurtStreams \/ HurtPostings \/ HurtBalances
  PROVE  VInv'
<1>1. hurt = "none" /\ at = "idle" /\ at' = "idle" /\ hurt' # "none"
  BY DEF HurtEvents, HurtHeads, HurtStreams, HurtPostings, HurtBalances, Hurts, reportVars
<1>2. Whole
  BY <1>1 DEF VInv
<1>3. Reported' /\ NothingFalse'
  BY <1>1 DEF Reported, NothingFalse, EventsRead, StreamsRead, Balanced
<1>4. CASE HurtEvents
  <2>1. hurt' = "events"
    BY <1>4 DEF HurtEvents, Hurts
  <2>2. hurt' \in HurtKinds /\ Damaged'
    BY <1>2, <1>4, <2>1, HurtEventsDamages DEF HurtKinds, HurtTables, Damaged
  <2> QED BY <1>1, <1>3, <2>2 DEF VInv
<1>5. CASE HurtHeads
  <2>1. hurt' \in {"unused", "heads"}
    BY <1>5 DEF HurtHeads, Hurts
  <2>2. hurt' \in HurtKinds /\ Damaged'
    BY <1>2, <1>5, <2>1, HurtHeadsDamages DEF HurtKinds, HurtTables, Damaged
  <2> QED BY <1>1, <1>3, <2>2 DEF VInv
<1>6. CASE HurtStreams
  <2>1. hurt' \in {"missing stream", "streams"}
    BY <1>6 DEF HurtStreams, Hurts
  <2>2. hurt' \in HurtKinds /\ Damaged'
    BY <1>2, <1>6, <2>1, HurtStreamsDamages DEF HurtKinds, HurtTables, Damaged
  <2> QED BY <1>1, <1>3, <2>2 DEF VInv
<1>7. CASE HurtPostings
  <2>1. hurt' = "postings"
    BY <1>7 DEF HurtPostings, Hurts
  <2>2. hurt' \in HurtKinds /\ Damaged'
    BY <1>2, <1>7, <2>1, HurtPostingsDamages DEF HurtKinds, HurtTables, Damaged
  <2> QED BY <1>1, <1>3, <2>2 DEF VInv
<1>8. CASE HurtBalances
  <2>1. hurt' = "balances"
    BY <1>8 DEF HurtBalances, Hurts
  <2>2. hurt' \in HurtKinds /\ Damaged'
    BY <1>2, <1>8, <2>1, HurtBalancesDamages DEF HurtKinds, HurtTables, Damaged
  <2> QED BY <1>1, <1>3, <2>2 DEF VInv
<1> QED BY <1>4, <1>5, <1>6, <1>7, <1>8

\* Each statement notes what is there to note, and nothing else.
LEMMA StatementsKeep ==
  ASSUME VInv, \/ LoadHeads \/ VerifyEvents \/ VerifyStreamHeads
               \/ VerifyPostings \/ VerifyBalances \/ CountFailures \/ RunAgain
  PROVE  VInv'
<1>1. UNCHANGED <<tables, hurt>>
  BY DEF LoadHeads, VerifyEvents, VerifyStreamHeads, VerifyPostings, VerifyBalances, CountFailures,
         RunAgain
<1>2. hurt' \in HurtKinds /\ (hurt' = "none" => Whole') /\ Damaged'
  BY <1>1, TablesKept DEF VInv
<1>3. UNCHANGED <<bookHeads, hurt>> /\ \A heads, b : Agrees(heads, b)' = Agrees(heads, b)
  BY <1>1, TablesKept DEF tables
<1>4. CASE LoadHeads
  <2>1. at' = "heads" /\ headsSeen' = bookHeads /\ issues' = {}
    BY <1>4 DEF LoadHeads, After
  <2>2. Reported'
    BY <1>3, <2>1 DEF Reported, EventsRead, StreamsRead, Balanced
  <2>3. hurt = "none" => \A b \in LedgerBooks : Agrees(bookHeads, b)
    BY DEF VInv, Whole, StoreOK
  <2>4. NothingFalse'
    BY <1>3, <2>1, <2>3 DEF NothingFalse, Agrees
  <2> QED BY <1>2, <2>2, <2>4 DEF VInv
<1>5. CASE VerifyEvents
  <2>1. at = "heads" /\ at' = "events" /\ UNCHANGED <<headsSeen, crossed>>
    BY <1>5 DEF VerifyEvents, After
  <2>2. issues' = issues \cup UNION {BookIssues(b) : b \in LedgerBooks}
    BY <1>5 DEF VerifyEvents, Note
  <2>3. ASSUME hurt \in {"events", "heads"} PROVE issues' # {}
    <3>1. headsSeen = bookHeads
      BY <2>1, <2>3 DEF VInv, Reported
    <3>2. \E b \in LedgerBooks : BookIssues(b) # {}
      <4>1. CASE hurt = "events"
        BY <3>1, <4>1, BrokenIsNoted DEF VInv, Damaged, AnEventIsHurt
      <4>2. CASE hurt = "heads"
        BY <3>1, <4>2, HeadlessIsNoted DEF VInv, Damaged, AHeadIsLost
      <4> QED BY <2>3, <4>1, <4>2
    <3> QED BY <2>2, <3>2
  <2>4. ASSUME hurt = "none", ~crossed PROVE issues' \subseteq {"unresolved_projection_failures"}
    <3>1. \A b \in LedgerBooks : Agrees(headsSeen, b)
      BY <2>1, <2>4 DEF VInv, NothingFalse
    <3>2. \A b \in LedgerBooks : BookIssues(b) = {}
      BY <3>1, NothingIsNoted
    <3> QED BY <2>1, <2>2, <2>4, <3>2 DEF VInv, NothingFalse
  <2>5. Reported'
    BY <1>3, <2>1, <2>3 DEF Reported, StreamsRead, Balanced
  <2>6. NothingFalse'
    BY <1>3, <2>1, <2>4 DEF NothingFalse
  <2> QED BY <1>2, <2>5, <2>6 DEF VInv
<1>6. CASE VerifyStreamHeads
  <2>1. at = "events" /\ at' = "streams" /\ UNCHANGED <<headsSeen, crossed>>
    BY <1>6 DEF VerifyStreamHeads, After
  <2>2. issues' = issues \cup When(AStreamHeadIsHurt, "stream_head_mismatch")
    BY <1>6 DEF VerifyStreamHeads, Note, AStreamHeadIsHurt
  <2>3. hurt = "streams" => issues' # {}
    BY <2>2 DEF VInv, Damaged, When
  <2>4. hurt = "none" => issues' = issues
    BY <2>2 DEF VInv, Whole, StreamsOK, AStreamHeadIsHurt, When
  <2>5. Reported'
    BY <1>3, <2>1, <2>2, <2>3 DEF VInv, Reported, EventsRead, StreamsRead, Balanced
  <2>6. NothingFalse'
    BY <1>3, <2>1, <2>4 DEF VInv, NothingFalse
  <2> QED BY <1>2, <2>5, <2>6 DEF VInv
<1>7. CASE VerifyPostings
  <2>1. at = "streams" /\ at' = "postings" /\ UNCHANGED <<headsSeen, crossed>>
    BY <1>7 DEF VerifyPostings, After
  <2>2. issues' = issues \cup When(\E p \in postingRows : UnitsOf(InTransaction(p.book, p.txn)) # 0,
                                   "unbalanced_journal")
    BY <1>7 DEF VerifyPostings, Note, InTransaction
  <2>3. hurt = "none" => issues' = issues
    BY <2>2 DEF VInv, Whole, PostingsOK, When
  <2>4. Reported'
    BY <1>3, <2>1, <2>2 DEF VInv, Reported, EventsRead, StreamsRead, Balanced
  <2>5. NothingFalse'
    BY <1>3, <2>1, <2>3 DEF VInv, NothingFalse
  <2> QED BY <1>2, <2>4, <2>5 DEF VInv
<1>8. CASE VerifyBalances
  <2>1. at = "postings" /\ at' = "balances" /\ UNCHANGED <<headsSeen, crossed>>
    BY <1>8 DEF VerifyBalances, After
  <2>2. issues' = issues \cup When(ABalanceIsOff, "balance_projection_mismatch")
    BY <1>8 DEF VerifyBalances, Note, ABalanceIsOff
  <2>3. hurt \in {"postings", "balances"} => issues' # {}
    BY <2>2 DEF VInv, Damaged, When
  <2>4. hurt = "none" => issues' = issues
    <3>1. ASSUME hurt = "none" PROVE ~ABalanceIsOff
      <4>1. PostingsOK
        BY <3>1 DEF VInv, Whole
      <4>2. ASSUME NEW b \in LedgerBooks, NEW a \in Purses PROVE ~OuterJoin(<<b, a>>)
        BY <4>1, ComputedIs DEF PostingsOK, OuterJoin
      <4>3. \A key \in DOMAIN purseSums : \E b \in LedgerBooks, a \in Purses : key = <<b, a>>
        BY <4>1 DEF PostingsOK
      <4> QED BY <4>2, <4>3 DEF ABalanceIsOff
    <3> QED BY <2>2, <3>1 DEF When
  <2>5. Reported'
    BY <1>3, <2>1, <2>2, <2>3 DEF VInv, Reported, EventsRead, StreamsRead, Balanced
  <2>6. NothingFalse'
    BY <1>3, <2>1, <2>4 DEF VInv, NothingFalse
  <2> QED BY <1>2, <2>5, <2>6 DEF VInv
<1>9. CASE CountFailures
  <2>1. at = "balances" /\ at' = "reported" /\ UNCHANGED <<headsSeen, crossed>>
    BY <1>9 DEF CountFailures, After
  <2>2. issues' = issues \cup When(failing, "unresolved_projection_failures")
    BY <1>9 DEF CountFailures, Note
  <2>3. issues \subseteq issues' /\ issues' \subseteq issues \cup {"unresolved_projection_failures"}
    BY <2>2 DEF When
  <2>4. Reported'
    BY <1>3, <2>1, <2>3 DEF VInv, Reported, EventsRead, StreamsRead, Balanced
  <2>5. NothingFalse'
    BY <1>3, <2>1, <2>3 DEF VInv, NothingFalse
  <2> QED BY <1>2, <2>4, <2>5 DEF VInv
<1>10. CASE RunAgain
  <2>1. at' = "idle"
    BY <1>10 DEF RunAgain, After
  <2>2. Reported' /\ NothingFalse'
    BY <2>1 DEF Reported, NothingFalse, EventsRead, StreamsRead, Balanced
  <2> QED BY <1>2, <2>2 DEF VInv
<1> QED BY <1>4, <1>5, <1>6, <1>7, <1>8, <1>9, <1>10

\* Every step keeps the invariant.
LEMMA VerificationStep ==
  VInv /\ [LedgerNext]_ledgerVars => VInv'
<1> SUFFICES ASSUME VInv, [LedgerNext]_ledgerVars PROVE VInv'
  OBVIOUS
<1>1. ASSUME UNCHANGED <<tables, hurt, reportVars>> PROVE VInv'
  <2>1. UNCHANGED <<tables, hurt>> /\ UNCHANGED <<bookHeads, at, headsSeen, issues, crossed>>
    BY <1>1 DEF tables, reportVars
  <2>2. /\ Whole' = Whole /\ Damaged' = Damaged /\ hurt' = hurt
        /\ \A heads, b : Agrees(heads, b)' = Agrees(heads, b)
    BY <2>1, TablesKept
  <2> QED BY <2>1, <2>2 DEF VInv, Reported, NothingFalse
<1>2. CASE ProjectorFails \/ UNCHANGED ledgerVars
  BY <1>1, <1>2 DEF ProjectorFails, ledgerVars
<1>3. CASE LedgerNext /\ ~ProjectorFails
  BY <1>3, ServiceKeeps, RestoreKeeps, StatementsKeep DEF LedgerNext
<1> QED BY <1>2, <1>3

\* The tables agree with each other as long as nothing has hurt them, what a restore has
\* hurt stays to be found, and the verifier has noted it when it is past the statement that
\* finds it, and nothing else (verify_v2_ledger, the service's commits between its statements).
THEOREM VerificationInvariance == LedgerSpec => []VInv
BY VerificationInit, VerificationStep, PTL DEF LedgerSpec

\* A report says of a hurt table that the database is not what it was, and of a database at
\* rest that nothing has hurt only what the projector has left (verify_v2_ledger).
THEOREM ReportsAreAlwaysTrue == LedgerSpec => []ReportsAreTrue
<1>1. VInv => ReportsAreTrue
  <2> SUFFICES ASSUME VInv PROVE ReportsAreTrue
    OBVIOUS
  <2>1. HurtIsReported
    BY DEF VInv, HurtKinds, HurtTables, Reported, EventsRead, StreamsRead, Balanced, HurtIsReported
  <2>2. NothingElseIsReported
    BY DEF VInv, NothingFalse, NothingElseIsReported
  <2> QED BY <2>1, <2>2 DEF ReportsAreTrue
<1> QED BY <1>1, VerificationInvariance, PTL

-----------------------------------------------------------------------------
(* The outbox *)

OutboxRows == [state : {"absent", "waiting", "delivered"},
               owner : Workers \cup {Nobody}, until : Int]
Tasks == [pc : {"idle", "select", "update", "publish", "ack"}, msg : Messages \cup {0},
          now : Int, until : Int, stalled : BOOLEAN]

\* Type invariant: the rows and the workers have their shapes.
OutboxTypeOK ==
    /\ row \in [Messages -> OutboxRows]
    /\ task \in [Workers -> Tasks]
    /\ received \subseteq Messages
    /\ failed \in Nat

\* A worker past its selection has a message; past the publication the outside has it.
TaskOK(w) ==
    /\ task[w].pc \in {"update", "publish", "ack"} => task[w].msg \in Messages
    /\ task[w].pc = "ack" => task[w].msg \in received

\* A lease that runs is the row's.
LeaseOK(w) ==
    task[w].pc \in {"publish", "ack"} /\ task[w].until > 0 =>
      /\ row[task[w].msg].owner = w
      /\ row[task[w].msg].until = task[w].until

OInv ==
    /\ OutboxTypeOK
    /\ \A w \in Workers : TaskOK(w) /\ LeaseOK(w)
    /\ DeliveredWasReceived
-----------------------------------------------------------------------------
\* Initially there is no message.
LEMMA InitOInv == Init => OInv
BY OutboxAssumption
   DEF Init, OInv, OutboxTypeOK, OutboxRows, Tasks, NoTask, TaskOK, LeaseOK,
       DeliveredWasReceived

\* An instant that has not been clamped is what it was.
LEMMA ClampFacts ==
  ASSUME NEW t \in Int
  PROVE  Clamp(t) \in Int /\ (Clamp(t) > 0 => Clamp(t) = t)
BY OutboxAssumption DEF Clamp, Oldest

\* A worker that stops, or goes on without a lease, leaves the others' leases alone.
LEMMA WorkerKeepsOInv ==
  ASSUME OInv, NEW w \in Workers, NEW x \in Tasks, task' = [task EXCEPT ![w] = x],
         UNCHANGED row, failed' \in Nat,
         received \subseteq received', received' \subseteq Messages,
         x.pc \in {"update", "publish", "ack"} => x.msg \in Messages,
         x.pc = "ack" => x.msg \in received',
         x.pc \in {"publish", "ack"} =>
           /\ task[w].pc \in {"publish", "ack"}
           /\ x.msg = task[w].msg /\ x.until = task[w].until
  PROVE  OInv'
<1>1. task'[w] = x /\ \A v \in Workers \ {w} : task'[v] = task[v]
  BY DEF OInv, OutboxTypeOK
<1>2. OutboxTypeOK'
  BY DEF OInv, OutboxTypeOK
<1>3. ASSUME NEW v \in Workers PROVE TaskOK(v)' /\ LeaseOK(v)'
  BY <1>1 DEF OInv, TaskOK, LeaseOK
<1>4. DeliveredWasReceived'
  BY DEF OInv, DeliveredWasReceived
<1> QED BY <1>2, <1>3, <1>4 DEF OInv

\* Every lease comes closer to its end on the row and in the worker's copy alike.
LEMMA TickKeepsOInv ==
  ASSUME OInv, Tick
  PROVE  OInv'
<1>1. /\ row \in [Messages -> OutboxRows] /\ task \in [Workers -> Tasks]
      /\ UNCHANGED <<received, failed>>
  BY DEF OInv, OutboxTypeOK, Tick
<1>2. ASSUME NEW m \in Messages
      PROVE  /\ row'[m] \in OutboxRows
             /\ row'[m].state = row[m].state /\ row'[m].owner = row[m].owner
             /\ row[m].owner # Nobody => row'[m].until = Clamp(row[m].until - 1)
  <2>1. row'[m] = IF row[m].owner = Nobody THEN row[m]
                  ELSE [row[m] EXCEPT !.until = Clamp(@ - 1)]
    BY DEF Tick
  <2>2. row[m].until - 1 \in Int
    BY <1>1 DEF OutboxRows
  <2>3. Clamp(row[m].until - 1) \in Int
    BY <2>2, ClampFacts
  <2> QED BY <1>1, <2>1, <2>3 DEF OutboxRows
<1>3. ASSUME NEW w \in Workers
      PROVE  /\ task'[w] \in Tasks
             /\ task'[w].pc = task[w].pc /\ task'[w].msg = task[w].msg
             /\ task[w].pc \in {"publish", "ack"} =>
                  task'[w].until = Clamp(task[w].until - 1)
  <2>1. task'[w] =
          CASE task[w].pc \in {"select", "update"} -> [task[w] EXCEPT !.now = Clamp(@ - 1)]
            [] task[w].pc \in {"publish", "ack"} -> [task[w] EXCEPT !.until = Clamp(@ - 1)]
            [] OTHER -> task[w]
    BY DEF Tick
  <2>2. task[w].until - 1 \in Int /\ task[w].now - 1 \in Int
    BY <1>1 DEF Tasks
  <2>3. Clamp(task[w].until - 1) \in Int /\ Clamp(task[w].now - 1) \in Int
    BY <2>2, ClampFacts
  <2>4. CASE task[w].pc \in {"select", "update"}
    BY <1>1, <2>1, <2>3, <2>4 DEF Tasks
  <2>5. CASE task[w].pc \in {"publish", "ack"}
    BY <1>1, <2>1, <2>3, <2>5 DEF Tasks
  <2>6. CASE task[w].pc = "idle"
    BY <1>1, <2>1, <2>6 DEF Tasks
  <2> QED BY <1>1, <2>4, <2>5, <2>6 DEF Tasks
<1>4. OutboxTypeOK'
  <2>1. row' \in [Messages -> OutboxRows]
    BY <1>2 DEF Tick
  <2>2. task' \in [Workers -> Tasks]
    BY <1>3 DEF Tick
  <2> QED BY <1>1, <2>1, <2>2 DEF OInv, OutboxTypeOK
<1>5. ASSUME NEW w \in Workers PROVE TaskOK(w)'
  BY <1>1, <1>3 DEF OInv, TaskOK
<1>6. ASSUME NEW w \in Workers PROVE LeaseOK(w)'
  <2> SUFFICES ASSUME task'[w].pc \in {"publish", "ack"}, task'[w].until > 0
               PROVE  /\ row'[task'[w].msg].owner = w
                      /\ row'[task'[w].msg].until = task'[w].until
    BY DEF LeaseOK
  <2>1. /\ task[w].pc \in {"publish", "ack"} /\ task'[w].msg = task[w].msg
        /\ task'[w].until = Clamp(task[w].until - 1)
    BY <1>3
  <2>2. task[w].until \in Int /\ task[w].until - 1 \in Int /\ task[w].msg \in Messages
    BY <1>1, <2>1 DEF OInv, TaskOK, Tasks
  <2>3. task[w].until > 0
    <3>1. task[w].until - 1 > 0
      BY <2>1, <2>2, ClampFacts
    <3> QED BY <2>2, <3>1
  <2>4. row[task[w].msg].owner = w /\ row[task[w].msg].until = task[w].until
    BY <2>1, <2>3 DEF OInv, LeaseOK
  <2>5. w # Nobody
    BY OutboxAssumption
  <2> QED BY <1>2, <2>1, <2>2, <2>4, <2>5
<1>7. DeliveredWasReceived'
  BY <1>1, <1>2 DEF OInv, DeliveredWasReceived
<1> QED BY <1>4, <1>5, <1>6, <1>7 DEF OInv

\* The trigger lets a claim replace only a lease that has run out, or the claimant's own.
LEMMA ClaimKeepsOInv ==
  ASSUME OInv, NEW w \in Workers, Claim(w)
  PROVE  OInv'
<1> DEFINE m == task[w].msg
<1>2. /\ row \in [Messages -> OutboxRows] /\ task \in [Workers -> Tasks]
      /\ task[w].now + Lease \in Int
  BY OutboxAssumption DEF OInv, OutboxTypeOK, Tasks
<1>3. PICK until \in Int : until = Clamp(task[w].now + Lease)
  BY <1>2, ClampFacts
<1>1. /\ task[w].pc = "update" /\ m \in Messages /\ TriggerAllowsClaim(w, m)
      /\ row' = [row EXCEPT ![m].owner = w, ![m].until = until]
      /\ task' = [task EXCEPT ![w].pc = "publish", ![w].now = 0, ![w].until = until]
      /\ UNCHANGED <<received, failed>>
  BY <1>3 DEF Claim, OInv, TaskOK
<1> HIDE DEF m
<1>4. /\ row'[m] \in OutboxRows /\ row'[m].owner = w /\ row'[m].until = until
      /\ row'[m].state = row[m].state
      /\ \A n \in Messages \ {m} : row'[n] = row[n]
      /\ row' \in [Messages -> OutboxRows]
  BY <1>1, <1>2, <1>3 DEF OutboxRows
<1>5. /\ task'[w] \in Tasks /\ task'[w].pc = "publish" /\ task'[w].until = until
      /\ task'[w].msg = m
      /\ \A v \in Workers \ {w} : task'[v] = task[v]
      /\ task' \in [Workers -> Tasks]
  <2>1. PICK x : x = [task[w] EXCEPT !.pc = "publish", !.now = 0, !.until = until]
    OBVIOUS
  <2>2. /\ x \in Tasks /\ x.pc = "publish" /\ x.until = until /\ x.msg = task[w].msg
        /\ task' = [task EXCEPT ![w] = x]
    <3>1. task[w] \in Tasks
      BY <1>2
    <3>2. x \in Tasks /\ x.pc = "publish" /\ x.until = until /\ x.msg = task[w].msg
      <4>1. PICK r \in Tasks : r = task[w]
        BY <3>1
      <4>2. x = [r EXCEPT !.pc = "publish", !.now = 0, !.until = until]
        BY <2>1, <4>1
      <4>3. [r EXCEPT !.now = 0] \in Tasks
        BY DEF Tasks
      <4>4. PICK y \in Tasks : y = [r EXCEPT !.now = 0]
        BY <4>3
      <4>5. x = [y EXCEPT !.pc = "publish", !.until = until]
        BY <4>2, <4>4 DEF Tasks
      <4>6. [y EXCEPT !.pc = "publish", !.until = until] \in Tasks
        BY <1>3 DEF Tasks
      <4>7. x.pc = "publish" /\ x.until = until /\ x.msg = r.msg
        BY <4>2 DEF Tasks
      <4> QED BY <4>1, <4>5, <4>6, <4>7
    <3>3. task' = [task EXCEPT ![w] = x]
      BY <1>1, <1>2, <2>1
    <3> QED BY <3>2, <3>3
  <2>3. task[w].msg = m
    BY DEF m
  <2> QED BY <1>2, <2>2, <2>3
<1>6. OutboxTypeOK'
  BY <1>1, <1>4, <1>5 DEF OInv, OutboxTypeOK
<1>7. ASSUME NEW v \in Workers PROVE TaskOK(v)' /\ LeaseOK(v)'
  <2>1. CASE v = w
    BY <1>1, <1>4, <1>5, <2>1 DEF TaskOK, LeaseOK
  <2>2. CASE v # w
    <3>1. task'[v] = task[v] /\ TaskOK(v) /\ LeaseOK(v)
      BY <1>5, <2>2 DEF OInv
    <3>2. TaskOK(v)'
      BY <1>1, <3>1 DEF TaskOK
    <3>3. ASSUME task[v].pc \in {"publish", "ack"}, task[v].until > 0
          PROVE  task[v].msg # m /\ task[v].msg \in Messages
      <4>1. row[task[v].msg].owner = v /\ row[task[v].msg].until = task[v].until
        BY <3>1, <3>3 DEF LeaseOK
      <4>2. v # Nobody
        BY OutboxAssumption
      <4>3. task[v].msg # m
        BY <1>1, <2>2, <3>3, <4>1, <4>2 DEF TriggerAllowsClaim
      <4> QED BY <3>1, <3>3, <4>3 DEF TaskOK
    <3>4. LeaseOK(v)'
      BY <1>4, <3>1, <3>3 DEF LeaseOK
    <3> QED BY <3>2, <3>4
  <2> QED BY <2>1, <2>2
<1>8. DeliveredWasReceived'
  BY <1>1, <1>4 DEF OInv, DeliveredWasReceived
<1> QED BY <1>6, <1>7, <1>8 DEF OInv

\* An acknowledgement ends its own claim; no running lease of another is on that row.
LEMMA AckKeepsOInv ==
  ASSUME OInv, NEW w \in Workers, Ack(w)
  PROVE  OInv'
<1> DEFINE m == task[w].msg
           x == [state |-> "delivered", owner |-> Nobody, until |-> 0]
<1>1. /\ task[w].pc = "ack" /\ m \in Messages /\ m \in received /\ row[m].owner = w
      /\ row' = [row EXCEPT ![m] = x] /\ task' = [task EXCEPT ![w] = NoTask]
      /\ UNCHANGED <<received, failed>>
  BY DEF Ack, ClaimedBy, OInv, TaskOK
<1>2. row \in [Messages -> OutboxRows] /\ task \in [Workers -> Tasks]
  BY DEF OInv, OutboxTypeOK
<1>3. x \in OutboxRows /\ NoTask \in Tasks
  BY DEF OutboxRows, Tasks, NoTask
<1> HIDE DEF m
<1>4. /\ row'[m] = x /\ \A n \in Messages \ {m} : row'[n] = row[n]
      /\ row' \in [Messages -> OutboxRows]
  BY <1>1, <1>2, <1>3
<1>5. /\ task'[w].pc = "idle" /\ \A v \in Workers \ {w} : task'[v] = task[v]
      /\ task' \in [Workers -> Tasks]
  BY <1>1, <1>2, <1>3 DEF NoTask
<1>6. OutboxTypeOK'
  BY <1>1, <1>4, <1>5 DEF OInv, OutboxTypeOK
<1>7. ASSUME NEW v \in Workers PROVE TaskOK(v)' /\ LeaseOK(v)'
  <2>1. CASE v = w
    BY <1>5, <2>1 DEF TaskOK, LeaseOK
  <2>2. CASE v # w
    <3>1. task'[v] = task[v] /\ TaskOK(v) /\ LeaseOK(v)
      BY <1>5, <2>2 DEF OInv
    <3>2. TaskOK(v)'
      BY <1>1, <3>1 DEF TaskOK
    <3>3. LeaseOK(v)'
      BY <1>1, <1>4, <2>2, <3>1 DEF LeaseOK, TaskOK
    <3> QED BY <3>2, <3>3
  <2> QED BY <2>1, <2>2
<1>8. DeliveredWasReceived'
  BY <1>1, <1>4 DEF OInv, DeliveredWasReceived
<1> QED BY <1>6, <1>7, <1>8 DEF OInv

\* The steps of a worker that leave the rows alone.
LEMMA WorkerStepsKeepOInv ==
  ASSUME OInv, NEW w \in Workers,
         ReadClock(w) \/ SelectRow(w) \/ RefuseClaim(w) \/ Publish(w) \/ AckLost(w)
           \/ PublishFails(w) \/ Crash(w) \/ Stall(w)
  PROVE  OInv'
<1>1. /\ task \in [Workers -> Tasks] /\ task[w] \in Tasks /\ received \subseteq Messages
      /\ failed \in Nat /\ NoTask \in Tasks /\ TaskOK(w) /\ Skew[w] \in Int
  BY OutboxAssumption DEF OInv, OutboxTypeOK, Tasks, NoTask
<1>2. ASSUME task' = [task EXCEPT ![w] = NoTask], UNCHANGED row, failed' \in Nat,
             received \subseteq received', received' \subseteq Messages
      PROVE  OInv'
  BY <1>1, <1>2, WorkerKeepsOInv DEF NoTask
<1>3. CASE RefuseClaim(w) \/ AckLost(w) \/ PublishFails(w) \/ Crash(w)
  <2>1. task' = [task EXCEPT ![w] = NoTask] /\ UNCHANGED row /\ failed' \in Nat
    BY <1>1, <1>3 DEF RefuseClaim, AckLost, PublishFails, Crash
  <2>2. received \subseteq received' /\ received' \subseteq Messages
    BY <1>1, <1>3 DEF RefuseClaim, AckLost, PublishFails, Crash, TaskOK
  <2> QED BY <1>2, <2>1, <2>2
<1>4. CASE ReadClock(w)
  <2>1. PICK x : x = [NoTask EXCEPT !.pc = "select", !.now = Skew[w]]
    OBVIOUS
  <2>2. x \in Tasks /\ x.pc = "select"
    BY <1>1, <2>1 DEF NoTask, Tasks
  <2>3. task' = [task EXCEPT ![w] = x] /\ UNCHANGED <<row, received, failed>>
    BY <1>4, <2>1 DEF ReadClock
  <2> QED BY <1>1, <2>2, <2>3, WorkerKeepsOInv
<1>5. CASE SelectRow(w)
  <2>1. CASE task' = [task EXCEPT ![w] = NoTask]
    BY <1>1, <1>2, <1>5, <2>1 DEF SelectRow
  <2>2. CASE task' # [task EXCEPT ![w] = NoTask]
    <3>1. PICK m \in Messages : task' = [task EXCEPT ![w].pc = "update", ![w].msg = m]
      BY <1>5, <2>2 DEF SelectRow, Claimable
    <3>2. PICK x : x = [task[w] EXCEPT !.pc = "update", !.msg = m]
      OBVIOUS
    <3>3. x \in Tasks /\ x.pc = "update" /\ x.msg = m /\ task' = [task EXCEPT ![w] = x]
      BY <1>1, <3>1, <3>2 DEF Tasks
    <3>4. UNCHANGED <<row, received, failed>>
      BY <1>5 DEF SelectRow
    <3> QED BY <1>1, <3>3, <3>4, WorkerKeepsOInv
  <2> QED BY <2>1, <2>2
<1>6. CASE Publish(w)
  <2>1. PICK x : x = [task[w] EXCEPT !.pc = "ack"]
    OBVIOUS
  <2>2. /\ x \in Tasks /\ x.pc = "ack" /\ x.msg = task[w].msg /\ x.until = task[w].until
        /\ task' = [task EXCEPT ![w] = x]
    BY <1>1, <1>6, <2>1 DEF Tasks, Publish
  <2>3. /\ task[w].pc = "publish" /\ task[w].msg \in Messages
        /\ received' = received \cup {task[w].msg} /\ UNCHANGED <<row, failed>>
    BY <1>1, <1>6 DEF Publish, TaskOK
  <2>4. /\ received \subseteq received' /\ received' \subseteq Messages
        /\ x.msg \in received' /\ failed' \in Nat
    BY <1>1, <2>2, <2>3
  <2> QED BY <2>2, <2>3, <2>4, WorkerKeepsOInv
<1>7. CASE Stall(w)
  <2>1. PICK x : x = [task[w] EXCEPT !.stalled = TRUE]
    OBVIOUS
  <2>2. /\ x \in Tasks /\ x.pc = task[w].pc /\ x.msg = task[w].msg
        /\ x.until = task[w].until /\ task' = [task EXCEPT ![w] = x]
    BY <1>1, <1>7, <2>1 DEF Tasks, Stall
  <2>3. UNCHANGED <<row, received>> /\ failed' \in Nat
    BY <1>1, <1>7 DEF Stall
  <2> QED BY <1>1, <2>2, <2>3, WorkerKeepsOInv DEF TaskOK
<1> QED BY <1>3, <1>4, <1>5, <1>6, <1>7

\* A message comes in without an owner.
LEMMA EnqueueKeepsOInv ==
  ASSUME OInv, NEW m \in Messages, Enqueue(m)
  PROVE  OInv'
<1>1. /\ row \in [Messages -> OutboxRows]
      /\ row' = [row EXCEPT ![m].state = "waiting"] /\ UNCHANGED <<task, received, failed>>
  BY DEF OInv, OutboxTypeOK, Enqueue
<1>2. /\ row' \in [Messages -> OutboxRows] /\ row'[m].state = "waiting"
      /\ \A n \in Messages \ {m} : row'[n] = row[n]
      /\ \A n \in Messages : row'[n].owner = row[n].owner /\ row'[n].until = row[n].until
  BY <1>1 DEF OutboxRows
<1>3. OutboxTypeOK' /\ DeliveredWasReceived'
  BY <1>1, <1>2 DEF OInv, OutboxTypeOK, DeliveredWasReceived
<1>4. ASSUME NEW w \in Workers PROVE TaskOK(w)' /\ LeaseOK(w)'
  BY <1>1, <1>2 DEF OInv, TaskOK, LeaseOK
<1> QED BY <1>3, <1>4 DEF OInv

\* The invariant is inductive.
LEMMA NextKeepsOInv == OInv /\ [Next]_vars => OInv'
<1> SUFFICES ASSUME OInv, [Next]_vars PROVE OInv'
  OBVIOUS
<1>1. CASE Next
  BY <1>1, EnqueueKeepsOInv, TickKeepsOInv, ClaimKeepsOInv, AckKeepsOInv,
     WorkerStepsKeepOInv DEF Next, RunOnce
<1>2. CASE UNCHANGED vars
  BY <1>2 DEF vars, OInv, OutboxTypeOK, TaskOK, LeaseOK, DeliveredWasReceived
<1> QED BY <1>1, <1>2

\* OInv holds in every reachable state of the outbox.
THEOREM OutboxInvariance == Spec => []OInv
BY InitOInv, NextKeepsOInv, PTL DEF Spec

\* The rows and the workers have their shapes.
THEOREM OutboxTypeCorrect == Spec => []OutboxTypeOK
<1>1. OInv => OutboxTypeOK
  BY DEF OInv
<1> QED BY <1>1, OutboxInvariance, PTL

\* A message is only marked delivered after the outside has got it.
THEOREM DeliveriesAreReal == Spec => []DeliveredWasReceived
<1>1. OInv => DeliveredWasReceived
  BY DEF OInv
<1> QED BY <1>1, OutboxInvariance, PTL

\* A claim excludes all others from the publication while its lease runs, and from its
\* acknowledgement for good, however far apart the workers' clocks are.
THEOREM ClaimsAreExclusive == Spec => ClaimsExclude
<1>1. OInv => OneLiveClaim
  BY DEF OInv, LeaseOK, OneLiveClaim
<1>2. ASSUME OInv, [Next]_vars, NEW w \in Workers, task[w].pc = "ack", task'[w].pc = "idle",
             NEW m \in Messages, row'[m] # row[m]
      PROVE  row[m].owner = w
  <2>1. PICK v \in Workers : Claim(v) \/ Ack(v)
    <3>1. CASE Tick
      BY <1>2, <3>1, TickKeepsOInv DEF Tick
    <3>2. CASE \E n \in Messages : Enqueue(n)
      BY <1>2, <3>2 DEF Enqueue
    <3>3. CASE UNCHANGED row
      BY <1>2, <3>3
    <3> QED
      BY <1>2, <3>1, <3>2, <3>3
         DEF Next, RunOnce, ReadClock, SelectRow, RefuseClaim, Publish, AckLost,
             PublishFails, Crash, Stall, vars
  <2>2. task \in [Workers -> Tasks]
    BY <1>2 DEF OInv, OutboxTypeOK
  <2>3. v = w
    BY <1>2, <2>1, <2>2 DEF Claim, Ack
  <2>4. Ack(w)
    BY <1>2, <2>1, <2>3 DEF Claim
  <2>5. row \in [Messages -> OutboxRows]
    BY <1>2 DEF OInv, OutboxTypeOK
  <2> QED BY <1>2, <2>4, <2>5 DEF Ack, ClaimedBy
<1>3. OInv /\ [Next]_vars =>
        [\A w \in Workers :
           (task[w].pc = "ack" /\ task'[w].pc = "idle") =>
              \A m \in Messages : row'[m] # row[m] => row[m].owner = w]_vars
  BY <1>2
<1> QED BY <1>1, <1>3, OutboxInvariance, PTL DEF Spec, ClaimsExclude, TakeoverHolds

================================================================================
