------------------------------ MODULE OAuthTokens ------------------------------
(***************************************************************************)
(* The authorization server: device grants and authorization codes, the    *)
(* token families they start, the rotation of refresh tokens and their     *)
(* revocation.                                                             *)
(*                                                                         *)
(* A pair is what one answer of the token endpoint carries, an access and  *)
(* a refresh token; <<f, n>> is the n-th pair of family f.  A handler is   *)
(* the transaction of one request: it takes the lock the code takes, reads *)
(* under it, and commits its writes together with its answer, errors       *)
(* included (the session commits when a handler returns).                  *)
(*                                                                         *)
(* Time is a choice: any grant or token may be found to have run out by    *)
(* any request (the requests read their clocks before they wait).  Scopes, *)
(* PKCE, redirect URIs and resources are equalities between what a grant   *)
(* stores and what a request carries; here every request carries what was  *)
(* stored.                                                                 *)
(*                                                                         *)
(* The operators marked "Mutant" are in no behaviour, see CommandBus.      *)
(***************************************************************************)
EXTENDS Naturals, FiniteSets

CONSTANTS
    DeviceGrants,  \* device codes
    Codes,         \* authorization codes
    Families,      \* refresh_family_id values
    MaxPairs,      \* bound on the pairs of a family
    Handlers       \* requests in flight at the server

Grants == DeviceGrants \cup Codes
Pairs == Families \X (1..MaxPairs)
NoGrant == "no grant"
NoPair == <<"no pair", 0>>

ASSUME OAuthAssumption ==
    /\ MaxPairs \in Nat \ {0}
    /\ NoGrant \notin Grants
    /\ NoPair \notin Pairs
    /\ DeviceGrants \cap Codes = {}

VARIABLES
    grant,    \* Grants: the status of the row
    origin,   \* Families: the grant a family began with
    issued,   \* pairs in the credentials table
    access,   \* issued pairs whose access token has revoked_at null
    refresh,  \* issued pairs whose refresh token has revoked_at null
    user,     \* the status of the approving user
    rpc,      \* Handlers: [op, arg, pc, saw, answer]
    dead,     \* history: families somebody has revoked
    alarms    \* history: families revoked because a rotated token came back

server == <<grant, origin, issued, access, refresh, user, rpc, dead, alarms>>

Statuses == {"absent", "pending", "approved", "denied", "expired", "consumed"}

NoRequest ==
    [op |-> "none", arg |-> NoPair, pc |-> "free", saw |-> "", answer |-> NoPair]
Request(op, arg) ==
    [NoRequest EXCEPT !.op = op, !.arg = arg, !.pc = "received"]
Refused == <<"refused", 0>>
Pending == <<"pending", 0>>

ServerInit ==
    /\ grant = [g \in Grants |-> "absent"]
    /\ origin = [f \in Families |-> NoGrant]
    /\ issued = {}
    /\ access = {}
    /\ refresh = {}
    /\ user = "active"
    /\ rpc = [h \in Handlers |-> NoRequest]
    /\ dead = {}
    /\ alarms = {}

PairsOf(f) == {p \in issued : p[1] = f}
Latest(f) == <<f, Cardinality(PairsOf(f))>>

\* A handler answers and its session commits.
Answer(h, answer) == rpc' = [rpc EXCEPT ![h].pc = "answered", ![h].answer = answer]

-----------------------------------------------------------------------------
(* Locks: the row of a grant, the advisory lock of a family *)

HoldsGrant(h, g) == rpc[h].op = "exchange" /\ rpc[h].arg = g /\ rpc[h].pc = "locked"

\* Mutant: the grant is read without FOR UPDATE.
GrantNeverWaits(g) == TRUE

GrantFree(g) == \A h \in Handlers : ~HoldsGrant(h, g)

\* _lock_refresh_family: held from the lock to the end of the transaction.
FamilyFree(f) ==
    \A h \in Handlers :
       ~(rpc[h].op \in {"refresh", "revoke"} /\ rpc[h].arg[1] = f /\ rpc[h].pc = "locked")

-----------------------------------------------------------------------------
(* Grants *)

\* PersistentDeviceService.create_authorization
CreateDeviceGrant(g) ==
    /\ g \in DeviceGrants
    /\ grant[g] = "absent"
    /\ grant' = [grant EXCEPT ![g] = "pending"]
    /\ UNCHANGED <<origin, issued, access, refresh, user, rpc, dead, alarms>>

\* The user answers the request in a browser. A device grant waits for that; a code
\* comes into being with it. The session row is locked, and the user's with it.
Approve(g) ==
    /\ user = "active"
    /\ GrantFree(g)
    /\ \/ g \in DeviceGrants /\ grant[g] = "pending"
       \/ g \in Codes /\ grant[g] = "absent"
    /\ grant' = [grant EXCEPT ![g] = "approved"]
    /\ UNCHANGED <<origin, issued, access, refresh, user, rpc, dead, alarms>>

Deny(g) ==
    /\ user = "active"
    /\ grant[g] = "pending"
    /\ GrantFree(g)
    /\ grant' = [grant EXCEPT ![g] = "denied"]
    /\ UNCHANGED <<origin, issued, access, refresh, user, rpc, dead, alarms>>

DisableUser ==
    /\ user' = "disabled"
    /\ UNCHANGED <<grant, origin, issued, access, refresh, rpc, dead, alarms>>

-----------------------------------------------------------------------------
(* The token endpoint *)

\* issue_token_pair for family f: refused when the user is not active any more. The
\* caller has written already and the answer is an error like any other.
IssuePair(h, f) ==
    LET pair == <<f, Cardinality(PairsOf(f)) + 1>> IN
    IF user = "active"
      THEN /\ issued' = issued \cup {pair}
           /\ access' = access \cup {pair}
           /\ Answer(h, pair)
      ELSE /\ UNCHANGED <<issued, access>>
           /\ Answer(h, Refused)

\* exchange and exchange_code: SELECT .. FOR UPDATE of the grant.
LockGrant(h) ==
    LET g == rpc[h].arg IN
    /\ rpc[h].op = "exchange"
    /\ rpc[h].pc = "received"
    /\ GrantFree(g)
    /\ rpc' = [rpc EXCEPT ![h].pc = "locked", ![h].saw = grant[g]]
    /\ UNCHANGED <<grant, origin, issued, access, refresh, user, dead, alarms>>

\* The grant is approved: it is consumed, and the first pair of a new family is issued.
Exchange(h) ==
    LET g == rpc[h].arg IN
    /\ rpc[h].op = "exchange"
    /\ rpc[h].pc = "locked"
    /\ rpc[h].saw = "approved"
    /\ grant' = [grant EXCEPT ![g] = "consumed"]
    /\ \E f \in Families :
         /\ origin[f] = NoGrant
         /\ origin' = IF user = "active" THEN [origin EXCEPT ![f] = g] ELSE origin
         /\ refresh' = IF user = "active" THEN refresh \cup {<<f, 1>>} ELSE refresh
         /\ IssuePair(h, f)
    /\ UNCHANGED <<user, dead, alarms>>

\* authorization_pending, or slow_down whatever the user has answered; the poll is recorded.
StillPending(h) ==
    /\ rpc[h].op = "exchange"
    /\ rpc[h].arg \in DeviceGrants
    /\ rpc[h].pc = "locked"
    /\ rpc[h].saw \in {"pending", "approved"}
    /\ Answer(h, Pending)
    /\ UNCHANGED <<grant, origin, issued, access, refresh, user, dead, alarms>>

\* Neither pending nor approved, or past expires_at: such a device grant is marked.
RefuseExchange(h) ==
    LET g == rpc[h].arg IN
    /\ rpc[h].op = "exchange"
    /\ rpc[h].pc = "locked"
    /\ grant' = IF g \in DeviceGrants /\ rpc[h].saw \in {"pending", "approved"}
                  THEN [grant EXCEPT ![g] = "expired"] ELSE grant
    /\ Answer(h, Refused)
    /\ UNCHANGED <<origin, issued, access, refresh, user, dead, alarms>>

\* The advisory lock, then the token's row is read again.
LockFamily(h) ==
    /\ rpc[h].op \in {"refresh", "revoke"}
    /\ rpc[h].pc = "received"
    /\ FamilyFree(rpc[h].arg[1])
    /\ rpc' = [rpc EXCEPT ![h].pc = "locked",
                          ![h].saw = IF rpc[h].arg \in refresh THEN "live" ELSE "revoked"]
    /\ UNCHANGED <<grant, origin, issued, access, refresh, user, dead, alarms>>

\* exchange_refresh of a token in force: it is revoked, then the next pair is issued.
Rotate(h) ==
    LET pair == rpc[h].arg
        next == <<pair[1], Cardinality(PairsOf(pair[1])) + 1>> IN
    /\ rpc[h].op = "refresh"
    /\ rpc[h].pc = "locked"
    /\ rpc[h].saw = "live"
    /\ next \in Pairs
    /\ IssuePair(h, pair[1])
    /\ refresh' = (refresh \ {pair}) \cup (IF user = "active" THEN {next} ELSE {})
    /\ UNCHANGED <<grant, origin, user, dead, alarms>>

\* Past expires_at: the token is revoked, the answer is an error.
RefreshRanOut(h) ==
    /\ rpc[h].op = "refresh"
    /\ rpc[h].pc = "locked"
    /\ rpc[h].saw = "live"
    /\ refresh' = refresh \ {rpc[h].arg}
    /\ Answer(h, Refused)
    /\ UNCHANGED <<grant, origin, issued, access, user, dead, alarms>>

\* _revoke_family: every row of the family that is there.
RevokeFamily(f) ==
    /\ access' = access \ PairsOf(f)
    /\ refresh' = refresh \ PairsOf(f)
    /\ dead' = dead \cup {f}

\* A revoked refresh token is presented: its family is revoked.
DetectReuse(h) ==
    LET pair == rpc[h].arg IN
    /\ rpc[h].op = "refresh"
    /\ rpc[h].pc = "locked"
    /\ rpc[h].saw = "revoked"
    /\ RevokeFamily(pair[1])
    /\ alarms' = IF pair # Latest(pair[1]) THEN alarms \cup {pair[1]} ELSE alarms
    /\ Answer(h, Refused)
    /\ UNCHANGED <<grant, origin, issued, user>>

\* PersistentOAuthService.revoke, by either token of a pair.
Revoke(h) ==
    /\ rpc[h].op = "revoke"
    /\ rpc[h].pc = "locked"
    /\ RevokeFamily(rpc[h].arg[1])
    /\ Answer(h, NoPair)
    /\ UNCHANGED <<grant, origin, issued, user, alarms>>

\* The server dies or rolls back before it commits, or the request never arrived.
ServerFails(h) ==
    /\ rpc[h].pc \in {"received", "locked"}
    /\ Answer(h, Refused)
    /\ UNCHANGED <<grant, origin, issued, access, refresh, user, dead, alarms>>

Handle(h) ==
    \/ LockGrant(h)
    \/ Exchange(h)
    \/ StillPending(h)
    \/ RefuseExchange(h)
    \/ LockFamily(h)
    \/ Rotate(h)
    \/ RefreshRanOut(h)
    \/ DetectReuse(h)
    \/ Revoke(h)

Server ==
    \/ \E g \in Grants : Approve(g) \/ Deny(g)
    \/ DisableUser
    \/ \E h \in Handlers : Handle(h) \/ ServerFails(h)
================================================================================
