------------------------------- MODULE CliProfile -------------------------------
(***************************************************************************)
(* The command line client of one user against the authorization server:   *)
(* several processes share one stored OAuth profile, a keyring entry with  *)
(* a file as its fallback, a lock and a marker that blocks the profile     *)
(* while it changes.  Any answer may be lost or come too late, any write   *)
(* may fail and any process may die.                                       *)
(*                                                                         *)
(* A profile is the pair it stores.  Clients of other programs send what   *)
(* they like about grants of their own.                                    *)
(***************************************************************************)
EXTENDS OAuthTokens

CONSTANTS
    Processes,      \* processes of the command line client
    ForeignGrants   \* codes of other clients

NoProcess == "no process"
NoCall == "no call"
ASSUME CliAssumption ==
    /\ NoProcess \notin Processes
    /\ NoCall \notin Handlers
    /\ ForeignGrants \subseteq Codes

VARIABLES
    pc,       \* Processes: where a command is
    call,     \* Processes: the handler whose answer it waits for
    held,     \* Processes: the grant or pair it works with
    keyring,  \* the profile in the keyring
    file,     \* the profile in the profile file
    blocked,  \* the marker file is there
    locker,   \* who holds the profile lock
    lapsed    \* pairs whose access token has expired

client == <<pc, call, held, keyring, file, blocked, locker, lapsed>>
vars == <<server, client>>

Init ==
    /\ ServerInit
    /\ pc = [p \in Processes |-> "idle"]
    /\ call = [p \in Processes |-> NoCall]
    /\ held = [p \in Processes |-> NoPair]
    /\ keyring = NoPair
    /\ file = NoPair
    /\ blocked = FALSE
    /\ locker = NoProcess
    /\ lapsed = {}

stored == <<keyring, file, blocked>>
\* The server's variables but for the requests, and but for the grants.
ledger == <<origin, issued, access, refresh, user, dead, alarms>>

\* load_profile_with_source: the keyring first.
Loaded == IF keyring # NoPair THEN keyring ELSE file

FreeHandlers == {h \in Handlers : rpc[h].pc = "free"}

Send(p, op, arg) ==
    \E h \in FreeHandlers :
       /\ rpc' = [rpc EXCEPT ![h] = Request(op, arg)]
       /\ call' = [call EXCEPT ![p] = h]

Answered(p) == call[p] # NoCall /\ rpc[call[p]].pc = "answered"
AnswerOf(p) == rpc[call[p]].answer
Hear(p) ==
    /\ rpc' = [rpc EXCEPT ![call[p]] = NoRequest]
    /\ call' = [call EXCEPT ![p] = NoCall]

Go(p, where, what) ==
    /\ pc' = [pc EXCEPT ![p] = where]
    /\ held' = [held EXCEPT ![p] = what]

\* The command ends and its lock, if it has it, is released.
Finish(p) ==
    /\ Go(p, "idle", NoPair)
    /\ locker' = IF locker = p THEN NoProcess ELSE locker

-----------------------------------------------------------------------------
(* Logging in *)

\* run_login: a device grant is requested, or a browser is opened for a code.
StartLogin(p, g) ==
    /\ pc[p] = "idle"
    /\ g \notin ForeignGrants
    /\ grant[g] = "absent"
    /\ \A q \in Processes : held[q] # g
    /\ g \in DeviceGrants => CreateDeviceGrant(g)
    /\ g \in Codes => UNCHANGED server
    /\ Go(p, "login", g)
    /\ UNCHANGED <<call, stored, locker, lapsed>>

\* A poll, or the exchange of the code the callback brought.
SendExchange(p) ==
    /\ pc[p] = "login"
    /\ call[p] = NoCall
    /\ held[p] \in Codes => grant[held[p]] = "approved"
    /\ Send(p, "exchange", held[p])
    /\ UNCHANGED <<grant, ledger, pc, held, stored, locker, lapsed>>

\* exchange_device_code_for_token goes on only after authorization_pending or slow_down.
HearExchange(p) ==
    /\ pc[p] = "login"
    /\ Answered(p)
    /\ Hear(p)
    /\ CASE AnswerOf(p) \in Pairs   -> Go(p, "logged in", AnswerOf(p)) /\ UNCHANGED locker
         [] AnswerOf(p) = Pending   -> UNCHANGED <<pc, held, locker>>
         [] OTHER                   -> Finish(p)
    /\ UNCHANGED <<grant, ledger, stored, lapsed>>

\* The deadline of the device code, or of the wait for the callback.
GiveUpLogin(p) ==
    /\ pc[p] = "login"
    /\ call[p] = NoCall
    /\ Finish(p)
    /\ UNCHANGED <<server, call, stored, lapsed>>

\* save_profile: the lock, then the marker.
BeginSave(p) ==
    /\ pc[p] = "logged in"
    /\ locker = NoProcess
    /\ locker' = p
    /\ blocked' = TRUE
    /\ Go(p, "saving", held[p])
    /\ UNCHANGED <<server, call, keyring, file, lapsed>>

-----------------------------------------------------------------------------
(* Renewing an expired token *)

\* resolve_token_with_diagnostics reads the profile without the lock.
Resolve(p) ==
    /\ pc[p] = "idle"
    /\ ~blocked
    /\ Loaded \in lapsed
    /\ Go(p, "expired", Loaded)
    /\ UNCHANGED <<server, call, stored, locker, lapsed>>

\* Mutant: the profile that was read before the wait for the lock is the one renewed.
RefreshResolved(p) ==
    /\ pc[p] = "expired"
    /\ locker = NoProcess
    /\ ~blocked
    /\ locker' = p
    /\ blocked' = TRUE
    /\ Send(p, "refresh", held[p])
    /\ Go(p, "refreshing", held[p])
    /\ UNCHANGED <<grant, ledger, keyring, file, lapsed>>

\* refresh_token_resolution: lock, read again, mark, send.
BeginRefresh(p) ==
    /\ pc[p] = "expired"
    /\ locker = NoProcess
    /\ ~blocked
    /\ Loaded \in lapsed
    /\ locker' = p
    /\ blocked' = TRUE
    /\ Send(p, "refresh", Loaded)
    /\ Go(p, "refreshing", Loaded)
    /\ UNCHANGED <<grant, ledger, keyring, file, lapsed>>

\* The profile is gone, blocked, or another process has renewed it.
NothingToRefresh(p) ==
    /\ pc[p] = "expired"
    /\ locker = NoProcess
    /\ blocked \/ Loaded \notin lapsed
    /\ Finish(p)
    /\ UNCHANGED <<server, call, stored, lapsed>>

HearRefresh(p) ==
    /\ pc[p] = "refreshing"
    /\ Answered(p)
    /\ Hear(p)
    /\ IF AnswerOf(p) \in Pairs THEN Go(p, "saving", AnswerOf(p)) /\ UNCHANGED locker
                                ELSE Finish(p)
    /\ UNCHANGED <<grant, ledger, stored, lapsed>>

-----------------------------------------------------------------------------
(* _save_profile_locked *)

KeyringSaved(p) ==
    /\ pc[p] = "saving"
    /\ keyring' = held[p]
    /\ Go(p, "settling", held[p])
    /\ UNCHANGED <<server, call, file, blocked, locker, lapsed>>

\* The write failed and the entry is verified to be gone: the file is the authority.
KeyringFailed(p) ==
    /\ pc[p] = "saving"
    /\ keyring' = NoPair
    /\ Go(p, "filing", held[p])
    /\ UNCHANGED <<server, call, file, blocked, locker, lapsed>>

\* Neither written for certain nor removed.
KeyringStuck(p) ==
    /\ pc[p] = "saving"
    /\ keyring' \in {keyring, held[p], NoPair}
    /\ Finish(p)
    /\ UNCHANGED <<server, call, file, blocked, lapsed>>

\* The file's copy is removed, then the marker.
Settle(p) ==
    /\ pc[p] = "settling"
    /\ file' = NoPair
    /\ blocked' = FALSE
    /\ Finish(p)
    /\ UNCHANGED <<server, call, keyring, lapsed>>

\* _save_file_authority
FileSaved(p) ==
    /\ pc[p] = "filing"
    /\ file' = held[p]
    /\ blocked' = FALSE
    /\ Finish(p)
    /\ UNCHANGED <<server, call, keyring, lapsed>>

\* An OSError: the marker could not be written, or stays where it is.
SaveFails(p) ==
    /\ pc[p] \in {"logged in", "settling", "filing"}
    /\ pc[p] = "logged in" => locker = NoProcess
    /\ Finish(p)
    /\ UNCHANGED <<server, call, stored, lapsed>>

-----------------------------------------------------------------------------
(* Logging out, and what goes wrong *)

Logout(p) ==
    /\ pc[p] = "idle"
    /\ locker = NoProcess
    /\ ~blocked
    /\ Loaded # NoPair
    /\ locker' = p
    /\ Send(p, "revoke", Loaded)
    /\ Go(p, "revoking", Loaded)
    /\ UNCHANGED <<grant, ledger, stored, lapsed>>

HearRevoke(p) ==
    /\ pc[p] = "revoking"
    /\ Answered(p)
    /\ Hear(p)
    /\ Go(p, "deleting", NoPair)
    /\ UNCHANGED <<grant, ledger, stored, locker, lapsed>>

\* _delete_profile_locked: the marker goes only when both copies are gone.
DeleteProfile(p) ==
    /\ pc[p] = "deleting"
    /\ \E fromKeyring, fromFile \in BOOLEAN :
         /\ keyring' = IF fromKeyring THEN NoPair ELSE keyring
         /\ file' = IF fromFile THEN NoPair ELSE file
         /\ blocked' = ~(fromKeyring /\ fromFile)
    /\ Finish(p)
    /\ UNCHANGED <<server, call, lapsed>>

DeleteAborted(p) ==
    /\ pc[p] = "deleting"
    /\ Finish(p)
    /\ UNCHANGED <<server, call, stored, lapsed>>

\* The answer is lost or late. The request may still be carried out.
LoseAnswer(p) ==
    /\ call[p] # NoCall
    /\ call' = [call EXCEPT ![p] = NoCall]
    /\ IF pc[p] = "revoking" THEN Go(p, "deleting", NoPair) /\ UNCHANGED locker ELSE Finish(p)
    /\ UNCHANGED <<server, stored, lapsed>>

Die(p) ==
    /\ pc[p] # "idle"
    /\ call' = [call EXCEPT ![p] = NoCall]
    /\ Finish(p)
    /\ UNCHANGED <<server, stored, lapsed>>

\* An answer nobody waits for.
Drop(h) ==
    /\ rpc[h].pc = "answered"
    /\ \A p \in Processes : call[p] # h
    /\ rpc' = [rpc EXCEPT ![h] = NoRequest]
    /\ UNCHANGED <<grant, ledger, client>>

AccessExpires(pair) ==
    /\ pair \in issued \ lapsed
    /\ pair[2] < MaxPairs
    /\ lapsed' = lapsed \cup {pair}
    /\ UNCHANGED <<server, pc, call, held, stored, locker>>

ForeignFamilies == {f \in Families : origin[f] \in ForeignGrants}

ForeignRequest ==
    \E h \in FreeHandlers :
       /\ \/ \E g \in ForeignGrants :
               grant[g] # "absent" /\ rpc' = [rpc EXCEPT ![h] = Request("exchange", g)]
          \/ \E pair \in issued, op \in {"refresh", "revoke"} :
               /\ pair[1] \in ForeignFamilies
               /\ rpc' = [rpc EXCEPT ![h] = Request(op, pair)]
       /\ UNCHANGED <<grant, ledger, client>>

-----------------------------------------------------------------------------

Step(p) ==
    \/ SendExchange(p) \/ HearExchange(p) \/ GiveUpLogin(p) \/ BeginSave(p)
    \/ BeginRefresh(p) \/ NothingToRefresh(p) \/ HearRefresh(p)
    \/ KeyringSaved(p) \/ KeyringFailed(p) \/ KeyringStuck(p)
    \/ Settle(p) \/ FileSaved(p)
    \/ HearRevoke(p) \/ DeleteProfile(p)

Begin(p) ==
    \/ \E g \in Grants : StartLogin(p, g)
    \/ Resolve(p)
    \/ Logout(p)

Fault(p) ==
    \/ SaveFails(p) \/ DeleteAborted(p) \/ LoseAnswer(p) \/ Die(p)

Next ==
    \/ \E p \in Processes : Begin(p) \/ Step(p) \/ Fault(p)
    \/ Server /\ UNCHANGED client
    \/ \E h \in Handlers : Drop(h)
    \/ \E pair \in Pairs : AccessExpires(pair)
    \/ ForeignRequest

Spec == Init /\ [][Next]_vars

-----------------------------------------------------------------------------
(* Properties *)

\* However often a grant is exchanged, at most one family begins with it, and a consumed
\* grant did yield one unless its user was disabled (exchange, exchange_code: the row lock).
GrantYieldsOneFamily ==
    \A g \in Grants :
       LET begun == {f \in Families : origin[f] = g} IN
       /\ Cardinality(begun) <= 1
       /\ grant[g] = "consumed" /\ user = "active" => begun # {}
       /\ begun # {} => grant[g] = "consumed"

\* Concurrent rotations leave one refresh token of a family in force, and none is left or
\* comes into being later once somebody revoked the family or reused a token of it
\* (exchange_refresh, revoke: the advisory lock and the row read again under it).
FamiliesAreSingleUse ==
    \A f \in Families :
       /\ Cardinality(refresh \cap PairsOf(f)) <= 1
       /\ refresh \cap PairsOf(f) \subseteq {Latest(f)}
       /\ f \in dead => (refresh \cup access) \cap PairsOf(f) = {}

\* Everything the authorization server hands out to be used once is used once.
SpentOnce == GrantYieldsOneFamily /\ FamiliesAreSingleUse

\* The client never brings a rotated token back, whatever is lost, dies or fails between
\* the request and the stored answer: the server never has to revoke one of its families
\* for reuse (the profile lock, the second read under it, the marker before the request).
NeverReplays == alarms \subseteq ForeignFamilies
================================================================================
