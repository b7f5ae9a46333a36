---------------------------- MODULE ProtectedContent ----------------------------
(***************************************************************************)
(* What a Book keeps encrypted beside its ledger: the narratives of        *)
(* transactions, and the archive of an import with its sealed manifest.    *)
(*                                                                         *)
(* Content is written once under an id its writer derives, verified on     *)
(* every retry, and leaves only by erasure, which destroys the ciphertext. *)
(* An archive that a manifest seals can never be erased: two transactions  *)
(* that want the opposite meet at the sidecar row's lock.                  *)
(*                                                                         *)
(* Each process has its own keyring, which rotates when it restarts.  A    *)
(* commitment is the tuple it is a MAC of, a ciphertext its key and text.  *)
(* Transactions are READ COMMITTED.  One Book.                             *)
(*                                                                         *)
(* The operators marked "Mutant" are in no behaviour, see CommandBus.      *)
(***************************************************************************)
EXTENDS Naturals, FiniteSets

CONSTANTS
    Writers,       \* processes of the service
    Sidecars,      \* ids of content
    Texts, Plans,  \* canonical plaintexts; what a manifest tells of its import
    Keyrings,      \* keyrings: [active, keys], the active key one of the keys
    FirstKeyring,  \* the one before any rotation
    MaxRequests    \* bounds the requests

ASSUME KeyringsAreValid == FirstKeyring \in Keyrings /\ \A k \in Keyrings : k.active \in k.keys

VARIABLES
    sidecars,      \* protected_description_sidecars, by id
    manifests,     \* import_archive_manifests, by id
    rings,         \* the keyring of a process
    work,          \* of a process: the transaction it is in
    requests,      \* how many requests were begun
    kept,          \* the writes that were acknowledged
    shown          \* the last answer

privacyVars == <<sidecars, manifests, rings, work, requests, kept, shown>>

Absent == "nothing"
NoRow == [status |-> "none"]
NoManifest == [plan |-> Absent]
Narratives == {"transaction_description", "transaction_narrative_v2"}
ContentKinds == Narratives \cup {"import_archive"}

-----------------------------------------------------------------------------
(* Cryptography *)

Commitment(key, id, kind, text) == <<"content", key, id, kind, text>>

Encrypted(p, id, kind, text) ==
    LET key == rings[p].active IN
    [kind |-> kind, key |-> key, hash |-> Commitment(key, id, kind, text), text |-> text,
     status |-> "active"]

Decryptable(p, row, kind) ==
    row.status = "active" /\ row.kind = kind /\ row.key \in rings[p].keys

Seal(key, id, plan, commitment) == <<"seal", key, id, plan, commitment>>

-----------------------------------------------------------------------------
NoWork == [op |-> "idle"]
Silence == [said |-> "nothing"]

\* A process restarts with a keyring of another rotation.
LoadKeyring(p) ==
    /\ work[p] = NoWork
    /\ \E k \in Keyrings \ {rings[p]} : rings' = [rings EXCEPT ![p] = k]
    /\ shown' = Silence
    /\ UNCHANGED <<sidecars, manifests, work, requests, kept>>

Begun(p, w) ==
    /\ work[p] = NoWork /\ requests < MaxRequests
    /\ requests' = requests + 1
    /\ work' = [work EXCEPT ![p] = w]
    /\ shown' = Silence
    /\ UNCHANGED <<sidecars, manifests, rings, kept>>

\* row: the sidecar as the session loaded it; inserted, sealed, erasing: what the
\* transaction changes; holds: the sidecar whose row it has locked.
Session(op, step, id, kind, text, plan) ==
    [op |-> op, step |-> step, id |-> id, kind |-> kind, text |-> text, plan |-> plan,
     row |-> NoRow, inserted |-> FALSE, sealed |-> FALSE, erasing |-> FALSE, holds |-> FALSE]

AskToKeep(p, id, kind, text) == Begun(p, Session("keep", "get", id, kind, text, Absent))
AskToArchive(p, id, text, plan) ==
    Begun(p, Session("archive", "get", id, "import_archive", text, plan))
AskToErase(p, id) == Begun(p, Session("erase", "lock", id, Absent, Absent, Absent))

Reached(p, step) == work[p] # NoWork /\ work[p].step = step

\* Another transaction has the row locked, or inserted it and has not committed.
LockedByOther(p, id) == \E q \in Writers \ {p} : work[q] # NoWork /\ work[q].id = id /\ work[q].holds
InsertedByOther(p, id) ==
    \E q \in Writers \ {p} : work[q] # NoWork /\ work[q].id = id /\ work[q].inserted

Onwards(p, w) ==
    /\ work' = [work EXCEPT ![p] = w]
    /\ shown' = Silence
    /\ UNCHANGED <<sidecars, manifests, rings, requests, kept>>

RollBack(p, said) ==
    /\ work' = [work EXCEPT ![p] = NoWork]
    /\ shown' = [said |-> said]
    /\ UNCHANGED <<sidecars, manifests, rings, requests, kept>>

\* The process dies or its transaction fails.
Fails(p) == work[p] # NoWork /\ RollBack(p, "failed")

-----------------------------------------------------------------------------
(* Writing *)

GetExisting(p) ==
    /\ Reached(p, "get")
    /\ LET w == work[p] IN
       Onwards(p, IF sidecars[w.id] = NoRow
                  THEN [w EXCEPT !.step = "insert"]
                  ELSE [w EXCEPT !.step = "verify", !.row = sidecars[w.id]])

\* The insert waits for another of the same id, and leaves a row that is there alone.
InsertOrGet(p) ==
    /\ Reached(p, "insert") /\ ~InsertedByOther(p, work[p].id)
    /\ LET w == work[p] IN
       Onwards(p, IF sidecars[w.id] = NoRow
                  THEN [w EXCEPT !.step = "verify", !.inserted = TRUE,
                                 !.row = Encrypted(p, w.id, w.kind, w.text)]
                  ELSE [w EXCEPT !.step = "verify", !.row = sidecars[w.id]])

SameText(row, text) == row.text = text

VerifyExact(p) ==
    /\ Reached(p, "verify")
    /\ LET w == work[p] IN
       IF Decryptable(p, w.row, w.kind) /\ SameText(w.row, w.text)
       THEN Onwards(p, [w EXCEPT !.step = IF w.op = "archive" THEN "guard" ELSE "commit"])
       ELSE RollBack(p, "conflict")

\* Mutant: the trigger reads the sidecar without its lock.
ReadsFreely(p, id) == TRUE

WaitsForRow(p, id) == ~LockedByOther(p, id)

\* The row as the transaction finds it now.
RowNow(w) == IF w.inserted THEN w.row ELSE sidecars[w.id]

\* The trigger before a manifest's insert locks the sidecar and looks at it.
GuardManifest(p) ==
    /\ Reached(p, "guard") /\ WaitsForRow(p, work[p].id)
    /\ LET w == work[p]
           row == RowNow(w)
       IN IF row.kind = "import_archive" /\ row.status = "active" /\ row.hash = w.row.hash
          THEN Onwards(p, [w EXCEPT !.step = "seal", !.holds = ~LockedByOther(p, w.id)])
          ELSE RollBack(p, "failed")

Manifest(w) ==
    [plan |-> w.plan, commitment |-> w.row.hash, seal |-> Seal(w.row.key, w.id, w.plan, w.row.hash)]

\* Its foreign key needs the row's lock too. A manifest that is there must be the same one;
\* the sidecar beside it is the one the session has loaded.
InsertManifest(p) ==
    /\ Reached(p, "seal") /\ ~LockedByOther(p, work[p].id)
    /\ LET w == work[p] IN
       IF manifests[w.id] \in {NoManifest, Manifest(w)}
       THEN Onwards(p, [w EXCEPT !.step = "commit", !.sealed = TRUE, !.holds = TRUE])
       ELSE RollBack(p, "conflict")

\* v2_erase_protected_content: lock, then look, then update.
EraseLocked(p) ==
    /\ Reached(p, "lock") /\ ~LockedByOther(p, work[p].id)
    /\ LET w == work[p]
           row == sidecars[w.id]
       IN IF row = NoRow THEN RollBack(p, "conflict")
          ELSE IF row.status = "active" /\ manifests[w.id] # NoManifest THEN RollBack(p, "failed")
          ELSE Onwards(p, [w EXCEPT !.step = "commit", !.holds = TRUE,
                                    !.erasing = row.status = "active"])

Erased(row) == [row EXCEPT !.status = "erased", !.text = Absent, !.key = Absent]

CommitContent(p) ==
    /\ Reached(p, "commit")
    /\ LET w == work[p] IN
       /\ sidecars' = [sidecars EXCEPT ![w.id] =
                         IF w.inserted THEN w.row ELSE IF w.erasing THEN Erased(@) ELSE @]
       /\ manifests' = [manifests EXCEPT ![w.id] = IF w.sealed THEN Manifest(w) ELSE @]
       /\ kept' = IF w.op = "erase" THEN kept
                  ELSE kept \cup {[id |-> w.id, kind |-> w.kind, text |-> w.text, plan |-> w.plan]}
       /\ shown' = [said |-> "done"]
    /\ work' = [work EXCEPT ![p] = NoWork]
    /\ UNCHANGED <<rings, requests>>

-----------------------------------------------------------------------------
(* Reader *)

Tells(p, said, texts) ==
    /\ work' = [work EXCEPT ![p] = NoWork]
    /\ shown' = [said |-> said, texts |-> texts]
    /\ UNCHANGED <<sidecars, manifests, rings, requests, kept>>

Reader(ids) == [op |-> "read", step |-> "read", ids |-> ids, id |-> Absent,
                 inserted |-> FALSE, holds |-> FALSE]

AskNarratives(p, ids) == Begun(p, Reader(ids))

ActiveOf(ids) == {id \in ids : sidecars[id].status = "active"}

\* A batch of narratives: all of them, or one answer for all.
ReadNarratives(p) ==
    /\ Reached(p, "read")
    /\ LET ids == work[p].ids IN
       IF ActiveOf(ids) # ids
       THEN Onwards(p, [work[p] EXCEPT !.step = "missing", !.ids = ids \ ActiveOf(ids)])
       ELSE IF \A id \in ids : /\ sidecars[id].kind \in Narratives
                               /\ Decryptable(p, sidecars[id], sidecars[id].kind)
       THEN Tells(p, "text", [id \in ids |-> sidecars[id].text])
       ELSE Tells(p, "unavailable", <<>>)

\* A second query finds out why the first missed them.
ReadMissing(p) ==
    /\ Reached(p, "missing")
    /\ Tells(p, IF \E id \in work[p].ids : sidecars[id].status = "erased"
                THEN "erased" ELSE "unavailable", <<>>)

\* What verify_archive_manifest recomputes.
ManifestVerified(p, id) ==
    LET m == manifests[id]
        row == sidecars[id]
    IN /\ Decryptable(p, row, "import_archive")
       /\ m.commitment = row.hash
       /\ m.seal = Seal(row.key, id, m.plan, m.commitment)

ExportArchive(p, id) ==
    /\ work[p] = NoWork
    /\ IF manifests[id] = NoManifest THEN Tells(p, "not found", <<>>)
       ELSE IF ManifestVerified(p, id) THEN Tells(p, "text", [i \in {id} |-> sidecars[i].text])
       ELSE Tells(p, "unavailable", <<>>)

\* One archive that does not verify hides them all.
ListArchives(p) ==
    LET ids == {id \in Sidecars : manifests[id] # NoManifest} IN
    /\ work[p] = NoWork
    /\ Tells(p, IF \A id \in ids : ManifestVerified(p, id) THEN "listed" ELSE "unavailable", <<>>)

-----------------------------------------------------------------------------
PrivacyInit ==
    /\ sidecars = [id \in Sidecars |-> NoRow]
    /\ manifests = [id \in Sidecars |-> NoManifest]
    /\ rings = [p \in Writers |-> FirstKeyring]
    /\ work = [p \in Writers |-> NoWork]
    /\ requests = 0
    /\ kept = {}
    /\ shown = Silence

PrivacyNext ==
    \E p \in Writers :
        \/ LoadKeyring(p) \/ Fails(p)
        \/ \E id \in Sidecars :
             \/ \E kind \in ContentKinds, text \in Texts : AskToKeep(p, id, kind, text)
             \/ \E text \in Texts, plan \in Plans : AskToArchive(p, id, text, plan)
             \/ AskToErase(p, id)
             \/ ExportArchive(p, id)
        \/ GetExisting(p) \/ InsertOrGet(p) \/ VerifyExact(p)
        \/ GuardManifest(p) \/ InsertManifest(p) \/ EraseLocked(p) \/ CommitContent(p)
        \/ \E ids \in SUBSET Sidecars \ {{}} : AskNarratives(p, ids)
        \/ ReadNarratives(p) \/ ReadMissing(p) \/ ListArchives(p)

PrivacySpec == PrivacyInit /\ [][PrivacyNext]_privacyVars

-----------------------------------------------------------------------------
(* Properties *)

\* What was acknowledged stays, whatever was erased, archived or written at the same time
\* and under whichever keys.  The content of an id is one: all who were told theirs was kept
\* brought the same text, and a reader is shown that text; erased is said only of what was
\* erased.  An archive stays: its manifest tells of the same import, its content is there
\* and the seal over both still verifies (create_or_exact_verify, create_or_exact_verify_
\* archive, v2_guard_import_archive_manifest, v2_erase_protected_content).
WhatIsKeptStays ==
    /\ \A j, k \in kept : j.id = k.id => j.text = k.text /\ j.kind = k.kind
    /\ shown.said = "text" =>
           \A k \in kept : k.id \in DOMAIN shown.texts => shown.texts[k.id] = k.text
    /\ shown.said = "erased" => \E id \in Sidecars : sidecars[id].status = "erased"
    /\ \A k \in kept : k.plan # Absent =>
           manifests[k.id].plan = k.plan /\ sidecars[k.id].text = k.text
    /\ \A id \in Sidecars : manifests[id] # NoManifest =>
           /\ sidecars[id].status = "active" /\ sidecars[id].kind = "import_archive"
           /\ manifests[id].seal =
                  Seal(sidecars[id].key, id, manifests[id].plan, sidecars[id].hash)
================================================================================
