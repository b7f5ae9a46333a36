----------------------------- MODULE ClientProofs ------------------------------
(***************************************************************************)
(* What the authorization server hands out to be used once is used once,   *)
(* and the command line client never makes it revoke a family for reuse,   *)
(* for any number of grants, families, pairs, handlers and processes.      *)
(*                                                                         *)
(* The server's half of the invariant is that a handler may rely on what   *)
(* it read under its lock: the row of a grant, or the advisory lock of a   *)
(* family, keeps everybody else from what it is about to write.  The       *)
(* client's half follows the newest pair of a family: it lies in the       *)
(* unblocked profile, or with one process, or in the answer one process    *)
(* waits for, or else nobody has it any more; and a request to renew it    *)
(* is in flight only when none of them has it.                             *)
(*                                                                         *)
(* What an agent asks for over MCP takes effect once and is answered       *)
(* truly, for any number of calls and processes.  What took effect left a  *)
(* row or a receipt by which the next run finds it, a row bears what the   *)
(* call that created it said or the name of a later rename, and of the     *)
(* processes at one call at most one has written and not yet answered.     *)
(***************************************************************************)
EXTENDS CliProfile, McpTools, FiniteSetTheorems, SequenceTheorems, TLAPS

(* The server *)

Calls == [op : {"none", "exchange", "refresh", "revoke"},
          arg : Grants \cup Pairs \cup {NoPair},
          pc : {"free", "received", "locked", "answered"},
          saw : {"", "live", "revoked"} \cup Statuses,
          answer : Pairs \cup {NoPair, Refused, Pending}]

\* Type invariant of the authorization server.
OAuthTypeOK ==
    /\ grant \in [Grants -> Statuses]
    /\ origin \in [Families -> Grants \cup {NoGrant}]
    /\ issued \subseteq Pairs
    /\ access \subseteq issued
    /\ refresh \subseteq issued
    /\ user \in {"active", "disabled"}
    /\ rpc \in [Handlers -> Calls]
    /\ dead \subseteq Families
    /\ alarms \subseteq Families

InFlight(h) == rpc[h].pc \in {"received", "locked"}

\* A request the server has not answered is about a grant, or about a pair it issued.
RequestOK(h) ==
    InFlight(h) => \/ rpc[h].op = "exchange" /\ rpc[h].arg \in Grants
                   \/ rpc[h].op \in {"refresh", "revoke"} /\ rpc[h].arg \in issued

\* The pairs of a family are numbered from 1, and a family has an origin once it has any.
FamilyOK(f) ==
    /\ \E n \in 0..MaxPairs : PairsOf(f) = {f} \X (1..n)
    /\ origin[f] = NoGrant <=> PairsOf(f) = {}

\* What GrantYieldsOneFamily says of one grant.
GrantOK(g) ==
    /\ \A f1, f2 \in Families : origin[f1] = g /\ origin[f2] = g => f1 = f2
    /\ \A f \in Families : origin[f] = g => grant[g] = "consumed"
    /\ grant[g] = "consumed" /\ user = "active" => \E f \in Families : origin[f] = g

\* The handler of an exchange that has locked its grant has read what the row still says.
GrantLockOK(h) ==
    rpc[h].op = "exchange" /\ rpc[h].pc = "locked" =>
       /\ rpc[h].saw \in {"pending", "approved"} => grant[rpc[h].arg] = rpc[h].saw
       /\ \A i \in Handlers : HoldsGrant(i, rpc[h].arg) => i = h

HoldsFamily(h, f) ==
    rpc[h].op \in {"refresh", "revoke"} /\ rpc[h].arg[1] = f /\ rpc[h].pc = "locked"

\* The handler that has locked a family and found its token in force finds it so to the end.
FamilyLockOK(h) ==
    rpc[h].op \in {"refresh", "revoke"} /\ rpc[h].pc = "locked" =>
       /\ rpc[h].saw = "live" => rpc[h].arg \in refresh
       /\ \A i \in Handlers : HoldsFamily(i, rpc[h].arg[1]) => i = h

\* What FamiliesAreSingleUse says of one family.
TokensOK(f) ==
    /\ refresh \cap PairsOf(f) \subseteq {Latest(f)}
    /\ f \in dead => /\ (refresh \cup access) \cap PairsOf(f) = {}
                     /\ PairsOf(f) # {}

\* The inductive invariant of the server.
SInv ==
    /\ OAuthTypeOK
    /\ \A h \in Handlers : RequestOK(h) /\ GrantLockOK(h) /\ FamilyLockOK(h)
    /\ \A f \in Families : FamilyOK(f) /\ TokensOK(f)
    /\ \A g \in Grants : GrantOK(g)

-----------------------------------------------------------------------------
(* The client *)

Locked == {"saving", "settling", "filing", "refreshing", "revoking", "deleting"}
Bearing == {"logged in", "saving", "settling", "filing"}
Places == {"idle", "login", "expired"} \cup Bearing \cup Locked
Things == Grants \cup Pairs \cup {NoPair}

\* Type invariant of the command line client.
ClientTypeOK ==
    /\ pc \in [Processes -> Places]
    /\ call \in [Processes -> Handlers \cup {NoCall}]
    /\ held \in [Processes -> Things]
    /\ keyring \in issued \cup {NoPair}
    /\ file \in issued \cup {NoPair}
    /\ blocked \in BOOLEAN
    /\ locker \in Processes \cup {NoProcess}
    /\ lapsed \subseteq issued

Renews(h, f) == InFlight(h) /\ rpc[h].op = "refresh" /\ rpc[h].arg[1] = f

\* The newest pair of a family of this client, which no request in flight is to renew.
Unspent(pair) ==
    /\ pair \in issued
    /\ origin[pair[1]] \notin ForeignGrants
    /\ pair = Latest(pair[1])
    /\ \A h \in Handlers : ~Renews(h, pair[1])

\* The pair is with process p, or in the answer p waits for.
Bears(p, pair) ==
    \/ pc[p] \in Bearing /\ held[p] = pair
    \/ Answered(p) /\ AnswerOf(p) \in Pairs /\ AnswerOf(p) = pair

\* The pair is what a command that finds the profile usable works with.
Stores(pair) == ~blocked /\ Loaded # NoPair /\ Loaded = pair

\* The profile lock and the marker: what a command that changes the profile relies on.
ProcessOK(p) ==
    /\ pc[p] \in Locked => locker = p
    /\ pc[p] \in {"saving", "settling", "filing", "refreshing"} => blocked
    /\ pc[p] = "settling" => keyring = held[p]
    /\ pc[p] = "filing" => keyring = NoPair
    /\ pc[p] = "login" => held[p] \in Grants \ ForeignGrants
    /\ pc[p] \in Bearing => held[p] \in Pairs

\* A process waits for a request of its own, about a grant or a pair that is not foreign.
CallOK(p) ==
    call[p] # NoCall =>
       /\ pc[p] \in {"login", "refreshing", "revoking"}
       /\ rpc[call[p]].pc # "free"
       /\ InFlight(call[p]) /\ rpc[call[p]].op = "exchange" =>
             rpc[call[p]].arg \notin ForeignGrants
       /\ InFlight(call[p]) /\ rpc[call[p]].op = "refresh" =>
             origin[rpc[call[p]].arg[1]] \notin ForeignGrants
       /\ \A q \in Processes : call[q] = call[p] => q = p

\* A request to renew a pair of this client names the newest pair, and is the only one.
RenewalOK(h) ==
    \A f \in Families : Renews(h, f) /\ origin[f] \notin ForeignGrants =>
       /\ rpc[h].arg = Latest(f)
       /\ \A i \in Handlers : Renews(i, f) => i = h

\* Whoever has a pair has the newest of its family, and nobody else has one of that family.
BearerOK(p) ==
    \A pair \in Pairs : Bears(p, pair) =>
       /\ Unspent(pair)
       /\ \A q \in Processes, other \in Pairs :
             Bears(q, other) /\ other[1] = pair[1] => q = p
       /\ \A other \in Pairs : Stores(other) => other[1] # pair[1]

StoreOK == \A pair \in Pairs : Stores(pair) => Unspent(pair)

\* The inductive invariant of the server and its client.
CInv ==
    /\ SInv
    /\ ClientTypeOK
    /\ \A p \in Processes : ProcessOK(p) /\ CallOK(p) /\ BearerOK(p)
    /\ \A h \in Handlers : RenewalOK(h)
    /\ StoreOK
    /\ NeverReplays

-----------------------------------------------------------------------------
(* Pairs and families *)

\* A family that has n pairs counts n.
LEMMA FamilyCount ==
  ASSUME NEW f, NEW n \in Nat
  PROVE  Cardinality({f} \X (1..n)) = n
<1>1. IsFiniteSet({f}) /\ Cardinality({f}) = 1
  BY FS_Singleton
<1>2. IsFiniteSet(1..n) /\ Cardinality(1..n) = n
  BY FS_Interval
<1>3. Cardinality({f} \X (1..n)) = Cardinality({f}) * Cardinality(1..n)
  BY <1>1, <1>2, FS_Product
<1> QED BY <1>1, <1>2, <1>3

\* The newest pair of a family is the one with the highest number.
LEMMA Newest ==
  ASSUME NEW f \in Families, FamilyOK(f)
  PROVE  \E n \in 0..MaxPairs : /\ PairsOf(f) = {f} \X (1..n)
                                /\ Cardinality(PairsOf(f)) = n
                                /\ Latest(f) = <<f, n>>
<1>1. PICK n \in 0..MaxPairs : PairsOf(f) = {f} \X (1..n)
  BY DEF FamilyOK
<1>2. n \in Nat
  BY <1>1, OAuthAssumption
<1>3. Cardinality(PairsOf(f)) = n
  BY <1>1, <1>2, FamilyCount
<1> QED BY <1>1, <1>3 DEF Latest

\* A pair carries its family and its number.
LEMMA PairParts ==
  ASSUME NEW pair \in Pairs
  PROVE  pair[1] \in Families /\ pair[2] \in 1..MaxPairs /\ pair = <<pair[1], pair[2]>>
BY DEF Pairs

\* What an answer without a token says is no pair.
LEMMA NoPairs == NoPair \notin Pairs /\ Refused \notin Pairs /\ Pending \notin Pairs
<1>1. 0 \notin 1..MaxPairs
  BY OAuthAssumption
<1> QED BY <1>1, PairParts DEF NoPair, Refused, Pending

\* The pairs of a family stay what they are while the credentials do, or gain one of another.
LEMMA PairsKept ==
  ASSUME NEW f, NEW pair, pair[1] # f, issued' = issued \cup {pair}
  PROVE  PairsOf(f)' = PairsOf(f) /\ Latest(f)' = Latest(f)
<1>1. PairsOf(f)' = PairsOf(f)
  BY DEF PairsOf
<1>2. Latest(f)' = <<f, Cardinality(PairsOf(f)')>>
  BY DEF Latest
<1> QED BY <1>1, <1>2 DEF Latest

\* What is said of families stays true while none of their tables changes.
LEMMA FamiliesKept ==
  ASSUME NEW f, FamilyOK(f), TokensOK(f), UNCHANGED <<issued, origin, refresh, access, dead>>
  PROVE  FamilyOK(f)' /\ TokensOK(f)'
<1>1. PairsOf(f)' = PairsOf(f)
  BY DEF PairsOf
<1>2. Latest(f)' = Latest(f)
  BY <1>1 DEF Latest
<1>3. FamilyOK(f)'
  BY <1>1 DEF FamilyOK
<1>4. TokensOK(f)'
  BY <1>1, <1>2 DEF TokensOK
<1> QED BY <1>3, <1>4

-----------------------------------------------------------------------------
(* Handlers *)

\* An answer leaves the request as it was.
LEMMA AnswerShape ==
  ASSUME OAuthTypeOK, NEW h \in Handlers, NEW a \in Pairs \cup {NoPair, Refused, Pending},
         Answer(h, a)
  PROVE  \E r \in Calls : /\ r.pc = "answered" /\ r.answer = a
                          /\ r.op = rpc[h].op /\ r.arg = rpc[h].arg
                          /\ rpc' = [rpc EXCEPT ![h] = r]
<1>1. PICK c \in Calls : c = rpc[h]
  BY DEF OAuthTypeOK
<1>2. PICK r : r = [c EXCEPT !.pc = "answered", !.answer = a]
  OBVIOUS
<1>3. r \in Calls /\ r.pc = "answered" /\ r.answer = a /\ r.op = c.op /\ r.arg = c.arg
  BY <1>2 DEF Calls
<1>4. rpc' = [rpc EXCEPT ![h] = r]
  BY <1>1, <1>2 DEF Answer, OAuthTypeOK
<1> QED BY <1>1, <1>3, <1>4

\* A handler that takes its lock keeps its call, and so does every other handler.
LEMMA LockShape ==
  ASSUME OAuthTypeOK, NEW h \in Handlers, NEW s,
         rpc' = [rpc EXCEPT ![h].pc = "locked", ![h].saw = s]
  PROVE  /\ rpc'[h].op = rpc[h].op /\ rpc'[h].arg = rpc[h].arg /\ rpc'[h].pc = "locked"
         /\ \A i \in Handlers \ {h} : rpc'[i] = rpc[i]
<1>1. PICK c \in Calls : c = rpc[h]
  BY DEF OAuthTypeOK
<1>2. PICK r : r = [c EXCEPT !.pc = "locked", !.saw = s]
  OBVIOUS
<1>3. r.op = c.op /\ r.arg = c.arg /\ r.pc = "locked"
  BY <1>2 DEF Calls
<1>4. rpc' = [rpc EXCEPT ![h] = r]
  BY <1>1, <1>2 DEF OAuthTypeOK
<1>5. DOMAIN rpc = Handlers
  BY DEF OAuthTypeOK
<1> QED BY <1>1, <1>3, <1>4, <1>5

\* A request is a call, and so is a handler with nothing to do.
LEMMA RequestShape ==
  ASSUME NEW op \in {"exchange", "refresh", "revoke"}, NEW arg \in Grants \cup Pairs
  PROVE  /\ Request(op, arg) \in Calls /\ Request(op, arg).pc = "received"
         /\ Request(op, arg).op = op /\ Request(op, arg).arg = arg
<1>1. PICK c \in Calls : c = NoRequest
  <2>1. NoPair \in Grants \cup Pairs \cup {NoPair}
    OBVIOUS
  <2>2. NoPair \in Pairs \cup {NoPair, Refused, Pending}
    OBVIOUS
  <2> QED BY <2>1, <2>2 DEF NoRequest, Calls
<1>2. PICK r : r = [c EXCEPT !.op = op, !.arg = arg, !.pc = "received"]
  OBVIOUS
<1>3. arg \in Grants \cup Pairs \cup {NoPair}
  OBVIOUS
<1>4. r \in Calls /\ r.pc = "received" /\ r.op = op /\ r.arg = arg
  BY <1>2, <1>3 DEF Calls
<1>5. r = Request(op, arg)
  BY <1>1, <1>2 DEF Request
<1> QED BY <1>4, <1>5

\* The same of the handler that waits for a request.
LEMMA NoRequestShape == NoRequest \in Calls /\ NoRequest.pc = "free"
BY DEF NoRequest, Calls

\* A handler that lets its locks go: what the others have read stays true if nobody but the
\* holder of a lock changes what the lock protects.
LEMMA LocksReleased ==
  ASSUME SInv, NEW h \in Handlers, NEW r \in Calls, r.pc \in {"free", "answered"},
         rpc' = [rpc EXCEPT ![h] = r],
         issued \subseteq issued',
         \A g \in Grants : \/ grant'[g] = grant[g]
                           \/ \A i \in Handlers \ {h} : ~HoldsGrant(i, g),
         \A pair \in refresh \ refresh' : \A i \in Handlers \ {h} : ~HoldsFamily(i, pair[1])
  PROVE  \A i \in Handlers : RequestOK(i)' /\ GrantLockOK(i)' /\ FamilyLockOK(i)'
<1>1. rpc'[h] = r /\ \A i \in Handlers \ {h} : rpc'[i] = rpc[i]
  BY DEF SInv, OAuthTypeOK
<1> SUFFICES ASSUME NEW i \in Handlers
             PROVE  RequestOK(i)' /\ GrantLockOK(i)' /\ FamilyLockOK(i)'
  OBVIOUS
<1>2. CASE i = h
  BY <1>1, <1>2 DEF RequestOK, InFlight, GrantLockOK, FamilyLockOK
<1>3. CASE i # h
  <2>1. rpc'[i] = rpc[i] /\ RequestOK(i) /\ GrantLockOK(i) /\ FamilyLockOK(i)
    BY <1>1, <1>3 DEF SInv
  <2>2. RequestOK(i)'
    BY <2>1 DEF RequestOK, InFlight
  <2>3. GrantLockOK(i)'
    <3> SUFFICES ASSUME rpc[i].op = "exchange", rpc[i].pc = "locked"
                 PROVE  /\ rpc[i].saw \in {"pending", "approved"} =>
                               grant'[rpc[i].arg] = rpc[i].saw
                        /\ \A j \in Handlers : HoldsGrant(j, rpc[i].arg)' => j = i
      BY <2>1 DEF GrantLockOK, HoldsGrant
    <3>1. rpc[i].arg \in Grants /\ HoldsGrant(i, rpc[i].arg)
      BY <2>1 DEF RequestOK, InFlight, HoldsGrant
    <3>2. grant'[rpc[i].arg] = grant[rpc[i].arg]
      BY <1>3, <3>1
    <3>3. ASSUME NEW j \in Handlers, rpc'[j].op = "exchange", rpc'[j].arg = rpc[i].arg,
                 rpc'[j].pc = "locked"
          PROVE  j = i
      <4>1. j # h /\ rpc'[j] = rpc[j]
        BY <1>1, <3>3
      <4> QED BY <2>1, <3>3, <4>1 DEF GrantLockOK, HoldsGrant
    <3> QED BY <2>1, <3>2, <3>3 DEF GrantLockOK, HoldsGrant
  <2>4. FamilyLockOK(i)'
    <3> SUFFICES ASSUME rpc[i].op \in {"refresh", "revoke"}, rpc[i].pc = "locked"
                 PROVE  /\ rpc[i].saw = "live" => rpc[i].arg \in refresh'
                        /\ \A j \in Handlers : HoldsFamily(j, rpc[i].arg[1])' => j = i
      BY <2>1 DEF FamilyLockOK, HoldsFamily
    <3>1. HoldsFamily(i, rpc[i].arg[1])
      BY DEF HoldsFamily
    <3>2. rpc[i].saw = "live" => rpc[i].arg \in refresh'
      BY <1>3, <2>1, <3>1 DEF FamilyLockOK
    <3>3. ASSUME NEW j \in Handlers, rpc'[j].op \in {"refresh", "revoke"},
                 rpc'[j].arg[1] = rpc[i].arg[1], rpc'[j].pc = "locked"
          PROVE  j = i
      <4>1. j # h /\ rpc'[j] = rpc[j]
        BY <1>1, <3>3
      <4> QED BY <2>1, <3>3, <4>1 DEF FamilyLockOK, HoldsFamily
    <3> QED BY <2>1, <3>2, <3>3 DEF HoldsFamily
  <2> QED BY <2>2, <2>3, <2>4
<1> QED BY <1>2, <1>3

-----------------------------------------------------------------------------
(* The server's steps *)

\* A step that is only a handler's own.
LEMMA OnlyHandlers ==
  ASSUME SInv, UNCHANGED <<grant, origin, issued, access, refresh, user, dead, alarms>>,
         rpc' \in [Handlers -> Calls],
         \A i \in Handlers : RequestOK(i)' /\ GrantLockOK(i)' /\ FamilyLockOK(i)'
  PROVE  SInv'
<1>1. OAuthTypeOK'
  BY DEF SInv, OAuthTypeOK
<1>2. \A f \in Families : FamilyOK(f)' /\ TokensOK(f)'
  BY FamiliesKept DEF SInv
<1>3. \A g \in Grants : GrantOK(g)'
  BY DEF SInv, GrantOK
<1> QED BY <1>1, <1>2, <1>3 DEF SInv

\* A request comes in, and holds no lock yet.
LEMMA RequestArrives ==
  ASSUME SInv, NEW h \in Handlers, NEW op, NEW arg,
         rpc[h].pc = "free",
         \/ op = "exchange" /\ arg \in Grants
         \/ op \in {"refresh", "revoke"} /\ arg \in issued,
         rpc' = [rpc EXCEPT ![h] = Request(op, arg)],
         UNCHANGED <<grant, origin, issued, access, refresh, user, dead, alarms>>
  PROVE  SInv'
<1>1. op \in {"exchange", "refresh", "revoke"} /\ arg \in Grants \cup Pairs
  BY DEF SInv, OAuthTypeOK
<1>2. PICK r \in Calls : /\ r = Request(op, arg) /\ r.pc = "received"
                         /\ r.op = op /\ r.arg = arg
  BY <1>1, RequestShape
<1>3. /\ rpc' \in [Handlers -> Calls] /\ rpc'[h] = r
      /\ \A i \in Handlers \ {h} : rpc'[i] = rpc[i]
  BY <1>2 DEF SInv, OAuthTypeOK
<1>4. ASSUME NEW i \in Handlers
      PROVE  RequestOK(i)' /\ GrantLockOK(i)' /\ FamilyLockOK(i)'
  <2>1. CASE i = h
    BY <1>2, <1>3, <2>1 DEF RequestOK, InFlight, GrantLockOK, FamilyLockOK
  <2>2. CASE i # h
    <3>1. rpc'[i] = rpc[i] /\ RequestOK(i) /\ GrantLockOK(i) /\ FamilyLockOK(i)
      BY <1>3, <2>2 DEF SInv
    <3>2. \A j \in Handlers : rpc'[j].pc = "locked" => rpc'[j] = rpc[j]
      BY <1>2, <1>3
    <3>3. RequestOK(i)'
      BY <3>1 DEF RequestOK, InFlight
    <3>4. GrantLockOK(i)'
      BY <3>1, <3>2 DEF GrantLockOK, HoldsGrant
    <3>5. FamilyLockOK(i)'
      BY <3>1, <3>2 DEF FamilyLockOK, HoldsFamily
    <3> QED BY <3>3, <3>4, <3>5
  <2> QED BY <2>1, <2>2
<1> QED BY <1>3, <1>4, OnlyHandlers

\* A handler that has answered is free again.
LEMMA HandlerFreed ==
  ASSUME SInv, NEW h \in Handlers, rpc' = [rpc EXCEPT ![h] = NoRequest],
         UNCHANGED <<grant, origin, issued, access, refresh, user, dead, alarms>>
  PROVE  SInv'
<1>1. \A i \in Handlers : RequestOK(i)' /\ GrantLockOK(i)' /\ FamilyLockOK(i)'
  <2>1. refresh \ refresh' = {} /\ issued \subseteq issued'
    OBVIOUS
  <2> QED BY <2>1, NoRequestShape, LocksReleased
<1>2. rpc' \in [Handlers -> Calls]
  BY NoRequestShape DEF SInv, OAuthTypeOK
<1> QED BY <1>1, <1>2, OnlyHandlers

\* The user's answer, or the request for a device grant: nobody is about to exchange the grant.
LEMMA GrantWritten ==
  ASSUME SInv, NEW g \in Grants, NEW status \in Statuses \ {"consumed"},
         grant[g] # "consumed", GrantFree(g) \/ grant[g] = "absent",
         grant' = [grant EXCEPT ![g] = status],
         UNCHANGED <<origin, issued, access, refresh, user, rpc, dead, alarms>>
  PROVE  SInv'
<1>1. /\ grant' \in [Grants -> Statuses] /\ grant'[g] = status
      /\ \A e \in Grants \ {g} : grant'[e] = grant[e]
  BY DEF SInv, OAuthTypeOK
<1>2. OAuthTypeOK'
  BY <1>1 DEF SInv, OAuthTypeOK
<1>3. \A f \in Families : FamilyOK(f)' /\ TokensOK(f)'
  BY FamiliesKept DEF SInv
<1>4. ASSUME NEW e \in Grants PROVE GrantOK(e)'
  BY <1>1 DEF SInv, GrantOK
<1>5. ASSUME NEW i \in Handlers
      PROVE  RequestOK(i)' /\ GrantLockOK(i)' /\ FamilyLockOK(i)'
  <2>1. RequestOK(i) /\ GrantLockOK(i) /\ FamilyLockOK(i)
    BY DEF SInv
  <2>2. RequestOK(i)' /\ FamilyLockOK(i)'
    BY <2>1 DEF RequestOK, InFlight, FamilyLockOK, HoldsFamily
  <2>3. GrantLockOK(i)'
    <3> SUFFICES ASSUME rpc[i].op = "exchange", rpc[i].pc = "locked",
                        rpc[i].saw \in {"pending", "approved"}
                 PROVE  grant'[rpc[i].arg] = rpc[i].saw
      BY <2>1 DEF GrantLockOK, HoldsGrant
    <3>1. rpc[i].arg \in Grants /\ grant[rpc[i].arg] = rpc[i].saw
      BY <2>1 DEF RequestOK, InFlight, GrantLockOK
    <3>2. rpc[i].arg # g
      BY <3>1 DEF GrantFree, HoldsGrant
    <3> QED BY <1>1, <3>1, <3>2
  <2> QED BY <2>2, <2>3
<1> QED BY <1>2, <1>3, <1>4, <1>5 DEF SInv

\* A disabled user stays disabled.
LEMMA DisableKeepsSInv ==
  ASSUME SInv, DisableUser
  PROVE  SInv'
<1>1. /\ user' = "disabled"
      /\ UNCHANGED <<grant, origin, issued, access, refresh, rpc, dead, alarms>>
  BY DEF DisableUser
<1>2. OAuthTypeOK'
  BY <1>1 DEF SInv, OAuthTypeOK
<1>3. \A f \in Families : FamilyOK(f)' /\ TokensOK(f)'
  BY <1>1, FamiliesKept DEF SInv
<1>4. \A g \in Grants : GrantOK(g)'
  BY <1>1 DEF SInv, GrantOK
<1>5. ASSUME NEW i \in Handlers
      PROVE  RequestOK(i)' /\ GrantLockOK(i)' /\ FamilyLockOK(i)'
  <2>1. RequestOK(i) /\ GrantLockOK(i) /\ FamilyLockOK(i)
    BY DEF SInv
  <2> QED BY <1>1, <2>1
       DEF RequestOK, InFlight, GrantLockOK, HoldsGrant, FamilyLockOK, HoldsFamily
<1> QED BY <1>2, <1>3, <1>4, <1>5 DEF SInv

\* The row of the grant: what is read under FOR UPDATE is what it says.
LEMMA LockGrantKeepsSInv ==
  ASSUME SInv, NEW h \in Handlers, LockGrant(h)
  PROVE  SInv'
<1> DEFINE g == rpc[h].arg
<1>1. /\ rpc[h].op = "exchange" /\ rpc[h].pc = "received" /\ GrantFree(g)
      /\ rpc' = [rpc EXCEPT ![h].pc = "locked", ![h].saw = grant[g]]
      /\ UNCHANGED <<grant, origin, issued, access, refresh, user, dead, alarms>>
  BY DEF LockGrant
<1>2. PICK c \in Calls : c = rpc[h]
  BY DEF SInv, OAuthTypeOK
<1>3. g \in Grants /\ grant[g] \in Statuses
  BY <1>1 DEF SInv, OAuthTypeOK, RequestOK, InFlight
<1>4. PICK r : r = [c EXCEPT !.pc = "locked", !.saw = grant[g]]
  OBVIOUS
<1>5. /\ r \in Calls /\ r.pc = "locked" /\ r.saw = grant[g] /\ r.op = "exchange"
      /\ r.arg = g
  <2>1. \A s \in Statuses : [c EXCEPT !.pc = "locked", !.saw = s] \in Calls
    BY DEF Calls
  <2>2. r.pc = "locked" /\ r.saw = grant[g] /\ r.op = c.op /\ r.arg = c.arg
    BY <1>4 DEF Calls
  <2> QED BY <1>1, <1>2, <1>3, <1>4, <2>1, <2>2
<1>6. rpc' = [rpc EXCEPT ![h] = r]
  BY <1>1, <1>2, <1>4 DEF SInv, OAuthTypeOK
<1> HIDE DEF g
<1>7. /\ rpc' \in [Handlers -> Calls] /\ rpc'[h] = r
      /\ \A i \in Handlers \ {h} : rpc'[i] = rpc[i]
  BY <1>5, <1>6 DEF SInv, OAuthTypeOK
<1>8. ASSUME NEW i \in Handlers
      PROVE  RequestOK(i)' /\ GrantLockOK(i)' /\ FamilyLockOK(i)'
  <2>1. CASE i = h
    <3>1. \A j \in Handlers : ~HoldsGrant(j, g)
      BY <1>1 DEF GrantFree
    <3>2. GrantLockOK(i)'
      <4>1. \A j \in Handlers :
               rpc'[j].op = "exchange" /\ rpc'[j].arg = g /\ rpc'[j].pc = "locked" => j = h
        BY <1>7, <3>1 DEF HoldsGrant
      <4>2. rpc'[i].arg = g /\ (rpc'[i].saw \in {"pending", "approved"} => grant'[g] = rpc'[i].saw)
        BY <1>1, <1>5, <1>7, <2>1
      <4> QED BY <2>1, <4>1, <4>2 DEF GrantLockOK, HoldsGrant
    <3> QED BY <1>3, <1>5, <1>7, <2>1, <3>2 DEF RequestOK, InFlight, FamilyLockOK
  <2>2. CASE i # h
    <3>1. rpc'[i] = rpc[i] /\ RequestOK(i) /\ GrantLockOK(i) /\ FamilyLockOK(i)
      BY <1>7, <2>2 DEF SInv
    <3>2. RequestOK(i)'
      BY <1>1, <3>1 DEF RequestOK, InFlight
    <3>3. GrantLockOK(i)'
      <4>1. HoldsGrant(i, rpc[i].arg) => rpc[i].arg # g
        BY <1>1 DEF GrantFree
      <4>2. PICK x : x = rpc[i].arg
        OBVIOUS
      <4>3. HoldsGrant(i, x) => ~HoldsGrant(h, x)'
        BY <1>5, <1>7, <4>1, <4>2 DEF HoldsGrant
      <4>4. \A j \in Handlers \ {h} : HoldsGrant(j, x)' => HoldsGrant(j, x)
        BY <1>7 DEF HoldsGrant
      <4>5. HoldsGrant(i, x) => \A j \in Handlers : HoldsGrant(j, x)' => j = i
        BY <3>1, <4>2, <4>3, <4>4 DEF GrantLockOK, HoldsGrant
      <4>6. rpc[i].saw \in {"pending", "approved"} /\ HoldsGrant(i, x) => grant[x] = rpc[i].saw
        BY <3>1, <4>2 DEF GrantLockOK, HoldsGrant
      <4> QED BY <1>1, <3>1, <4>2, <4>5, <4>6 DEF GrantLockOK, HoldsGrant
    <3>4. FamilyLockOK(i)'
      BY <1>1, <1>5, <1>7, <3>1 DEF FamilyLockOK, HoldsFamily
    <3> QED BY <3>2, <3>3, <3>4
  <2> QED BY <2>1, <2>2
<1> QED BY <1>1, <1>7, <1>8, OnlyHandlers

\* The advisory lock of the family: what is read under it is what the token's row says.
LEMMA LockFamilyKeepsSInv ==
  ASSUME SInv, NEW h \in Handlers, LockFamily(h)
  PROVE  SInv'
<1>1. /\ rpc[h].op \in {"refresh", "revoke"} /\ rpc[h].pc = "received"
      /\ FamilyFree(rpc[h].arg[1])
      /\ UNCHANGED <<grant, origin, issued, access, refresh, user, dead, alarms>>
  BY DEF LockFamily
<1>2. PICK c \in Calls : c = rpc[h]
  BY DEF SInv, OAuthTypeOK
<1>3. PICK seen \in {"live", "revoked"} :
         /\ seen = "live" => rpc[h].arg \in refresh
         /\ rpc' = [rpc EXCEPT ![h].pc = "locked", ![h].saw = seen]
  BY DEF LockFamily
<1>4. rpc[h].arg \in issued
  BY <1>1 DEF SInv, RequestOK, InFlight
<1>5. PICK r : r = [c EXCEPT !.pc = "locked", !.saw = seen]
  OBVIOUS
<1>6. r \in Calls /\ r.pc = "locked" /\ r.saw = seen /\ r.op = c.op /\ r.arg = c.arg
  BY <1>5 DEF Calls
<1>7. rpc' = [rpc EXCEPT ![h] = r]
  BY <1>2, <1>3, <1>5 DEF SInv, OAuthTypeOK
<1>8. /\ rpc' \in [Handlers -> Calls] /\ rpc'[h] = r
      /\ \A i \in Handlers \ {h} : rpc'[i] = rpc[i]
  BY <1>6, <1>7 DEF SInv, OAuthTypeOK
<1>9. ASSUME NEW i \in Handlers
      PROVE  RequestOK(i)' /\ GrantLockOK(i)' /\ FamilyLockOK(i)'
  <2>1. CASE i = h
    <3>1. \A j \in Handlers : ~HoldsFamily(j, rpc[h].arg[1])
      BY <1>1 DEF FamilyFree, HoldsFamily
    <3>2. FamilyLockOK(i)'
      BY <1>1, <1>2, <1>3, <1>6, <1>8, <2>1, <3>1 DEF FamilyLockOK, HoldsFamily
    <3> QED BY <1>1, <1>2, <1>4, <1>6, <1>8, <2>1, <3>2 DEF RequestOK, InFlight, GrantLockOK
  <2>2. CASE i # h
    <3>1. rpc'[i] = rpc[i] /\ RequestOK(i) /\ GrantLockOK(i) /\ FamilyLockOK(i)
      BY <1>8, <2>2 DEF SInv
    <3>2. RequestOK(i)'
      BY <1>1, <3>1 DEF RequestOK, InFlight
    <3>3. FamilyLockOK(i)'
      <4>1. HoldsFamily(i, rpc[i].arg[1]) => rpc[i].arg[1] # rpc[h].arg[1]
        BY <1>1 DEF FamilyFree, HoldsFamily
      <4> QED BY <1>1, <1>2, <1>6, <1>8, <3>1, <4>1 DEF FamilyLockOK, HoldsFamily
    <3>4. GrantLockOK(i)'
      BY <1>1, <1>2, <1>6, <1>8, <3>1 DEF GrantLockOK, HoldsGrant
    <3> QED BY <3>2, <3>3, <3>4
  <2> QED BY <2>1, <2>2
<1> QED BY <1>1, <1>8, <1>9, OnlyHandlers

\* A handler that answers and changes nothing else.
LEMMA OnlyAnswers ==
  ASSUME SInv, NEW h \in Handlers, NEW a \in Pairs \cup {NoPair, Refused, Pending},
         Answer(h, a),
         UNCHANGED <<grant, origin, issued, access, refresh, user, dead, alarms>>
  PROVE  SInv'
<1>1. PICK r \in Calls : r.pc = "answered" /\ rpc' = [rpc EXCEPT ![h] = r]
  BY AnswerShape DEF SInv
<1>2. \A i \in Handlers : RequestOK(i)' /\ GrantLockOK(i)' /\ FamilyLockOK(i)'
  <2>1. refresh \ refresh' = {} /\ issued \subseteq issued'
    OBVIOUS
  <2> QED BY <1>1, <2>1, LocksReleased
<1>3. rpc' \in [Handlers -> Calls]
  BY <1>1 DEF SInv, OAuthTypeOK
<1> QED BY <1>2, <1>3, OnlyHandlers

\* A grant that is neither consumed nor locked by another handler runs out.
LEMMA RefuseExchangeKeepsSInv ==
  ASSUME SInv, NEW h \in Handlers, RefuseExchange(h)
  PROVE  SInv'
<1> DEFINE g == rpc[h].arg
<1>1. /\ rpc[h].op = "exchange" /\ rpc[h].pc = "locked" /\ Answer(h, Refused)
      /\ grant' = IF g \in DeviceGrants /\ rpc[h].saw \in {"pending", "approved"}
                    THEN [grant EXCEPT ![g] = "expired"] ELSE grant
      /\ UNCHANGED <<origin, issued, access, refresh, user, dead, alarms>>
  BY DEF RefuseExchange
<1>2. g \in Grants /\ HoldsGrant(h, g) /\ GrantLockOK(h)
  BY <1>1 DEF SInv, RequestOK, InFlight, HoldsGrant
<1>3. \A i \in Handlers \ {h} : ~HoldsGrant(i, g)
  BY <1>1, <1>2 DEF GrantLockOK
<1>4. PICK r \in Calls : r.pc = "answered" /\ rpc' = [rpc EXCEPT ![h] = r]
  BY <1>1, AnswerShape DEF SInv
<1>5. \/ grant' = grant
      \/ grant' = [grant EXCEPT ![g] = "expired"] /\ grant[g] # "consumed"
  BY <1>1, <1>2 DEF GrantLockOK
<1> HIDE DEF g
<1>6. /\ grant' \in [Grants -> Statuses]
      /\ \A e \in Grants \ {g} : grant'[e] = grant[e]
      /\ grant'[g] = "consumed" <=> grant[g] = "consumed"
  BY <1>2, <1>5 DEF SInv, OAuthTypeOK, Statuses
<1>7. \A i \in Handlers : RequestOK(i)' /\ GrantLockOK(i)' /\ FamilyLockOK(i)'
  <2>1. refresh \ refresh' = {} /\ issued \subseteq issued'
    BY <1>1
  <2>2. \A e \in Grants : grant'[e] = grant[e] \/ \A i \in Handlers \ {h} : ~HoldsGrant(i, e)
    BY <1>3, <1>6
  <2> QED BY <1>4, <2>1, <2>2, LocksReleased
<1>8. OAuthTypeOK'
  BY <1>1, <1>4, <1>6 DEF SInv, OAuthTypeOK
<1>9. \A f \in Families : FamilyOK(f)' /\ TokensOK(f)'
  BY <1>1, FamiliesKept DEF SInv
<1>10. \A e \in Grants : GrantOK(e)'
  BY <1>1, <1>6 DEF SInv, GrantOK
<1> QED BY <1>7, <1>8, <1>9, <1>10 DEF SInv

\* The next pair of a family is its newest.
LEMMA IssuedNext ==
  ASSUME OAuthTypeOK, NEW f \in Families, NEW n \in Nat, PairsOf(f) = {f} \X (1..n),
         issued' = issued \cup {<<f, n + 1>>}
  PROVE  PairsOf(f)' = {f} \X (1..(n + 1)) /\ Latest(f)' = <<f, n + 1>>
<1>1. PairsOf(f)' = PairsOf(f) \cup {<<f, n + 1>>}
  BY DEF PairsOf
<1>2. PairsOf(f)' = {f} \X (1..(n + 1))
  BY <1>1
<1>3. Cardinality({f} \X (1..(n + 1))) = n + 1
  <2>1. n + 1 \in Nat
    OBVIOUS
  <2> QED BY <2>1, FamilyCount
<1> QED BY <1>2, <1>3 DEF Latest

\* An approved grant is exchanged once: the row is locked, and consumed with the answer.
LEMMA ExchangeKeepsSInv ==
  ASSUME SInv, NEW h \in Handlers, Exchange(h)
  PROVE  SInv'
<1> DEFINE g == rpc[h].arg
<1>1. /\ rpc[h].op = "exchange" /\ rpc[h].pc = "locked" /\ rpc[h].saw = "approved"
      /\ grant' = [grant EXCEPT ![g] = "consumed"]
      /\ UNCHANGED <<user, dead, alarms>>
  BY DEF Exchange
<1>2. PICK f \in Families :
         /\ origin[f] = NoGrant
         /\ origin' = IF user = "active" THEN [origin EXCEPT ![f] = g] ELSE origin
         /\ refresh' = IF user = "active" THEN refresh \cup {<<f, 1>>} ELSE refresh
         /\ IssuePair(h, f)
  BY DEF Exchange
<1>3. g \in Grants /\ HoldsGrant(h, g) /\ GrantLockOK(h) /\ FamilyOK(f) /\ TokensOK(f)
      /\ OAuthTypeOK
  BY <1>1 DEF SInv, RequestOK, InFlight, HoldsGrant
<1>4. grant[g] = "approved" /\ \A i \in Handlers \ {h} : ~HoldsGrant(i, g)
  BY <1>1, <1>3 DEF GrantLockOK
<1>5. PairsOf(f) = {} /\ Cardinality(PairsOf(f)) = 0
  BY <1>2, <1>3, FS_EmptySet DEF FamilyOK
<1> HIDE DEF g
<1>6. <<f, 1>> \in Pairs
  BY OAuthAssumption DEF Pairs
<1>7. /\ grant' \in [Grants -> Statuses] /\ grant'[g] = "consumed"
      /\ \A e \in Grants \ {g} : grant'[e] = grant[e]
  BY <1>1, <1>3 DEF SInv, OAuthTypeOK, Statuses
<1>8. CASE user = "active"
  <2>1. /\ issued' = issued \cup {<<f, 1>>} /\ access' = access \cup {<<f, 1>>}
        /\ Answer(h, <<f, 1>>)
    BY <1>5, <1>8, <1>2 DEF IssuePair
  <2>2. refresh' = refresh \cup {<<f, 1>>} /\ origin' = [origin EXCEPT ![f] = g]
    BY <1>2, <1>8
  <2>3. PICK r \in Calls : r.pc = "answered" /\ rpc' = [rpc EXCEPT ![h] = r]
    BY <1>3, <1>6, <2>1, AnswerShape
  <2>4. \A i \in Handlers : RequestOK(i)' /\ GrantLockOK(i)' /\ FamilyLockOK(i)'
    <3>1. refresh \ refresh' = {} /\ issued \subseteq issued'
      BY <2>1, <2>2
    <3>2. \A e \in Grants : grant'[e] = grant[e] \/ \A i \in Handlers \ {h} : ~HoldsGrant(i, e)
      BY <1>4, <1>7
    <3> QED BY <2>3, <3>1, <3>2, LocksReleased
  <2>5. /\ origin' \in [Families -> Grants \cup {NoGrant}] /\ origin'[f] = g
        /\ \A e \in Families \ {f} : origin'[e] = origin[e]
    BY <1>3, <2>2 DEF OAuthTypeOK
  <2>6. OAuthTypeOK'
    BY <1>1, <1>3, <1>6, <1>7, <2>1, <2>2, <2>3, <2>5 DEF OAuthTypeOK
  <2>7. PairsOf(f)' = {f} \X (1..1) /\ Latest(f)' = <<f, 1>>
    <3>1. PairsOf(f) = {f} \X (1..0)
      BY <1>5
    <3> HIDE <1>5
    <3>2. PairsOf(f)' = {f} \X (1..(0 + 1)) /\ Latest(f)' = <<f, 0 + 1>>
      BY <1>3, <2>1, <3>1, IssuedNext
    <3> QED BY <3>2
  <2>8. FamilyOK(f)' /\ TokensOK(f)'
    <3>1. 1 \in 0..MaxPairs
      BY OAuthAssumption
    <3>2. g # NoGrant
      BY <1>3, OAuthAssumption
    <3>3. <<f, 1>> \in {f} \X (1..1)
      OBVIOUS
    <3>4. FamilyOK(f)'
      BY <2>5, <2>7, <3>1, <3>2, <3>3 DEF FamilyOK
    <3>5. f \notin dead /\ refresh \cap PairsOf(f)' \subseteq {<<f, 1>>}
      BY <1>3, <1>5, <2>7 DEF TokensOK
    <3>6. TokensOK(f)'
      BY <1>1, <2>2, <2>7, <3>5 DEF TokensOK
    <3> QED BY <3>4, <3>6
  <2>9. ASSUME NEW e \in Families, e # f PROVE FamilyOK(e)' /\ TokensOK(e)'
    <3>1. PairsOf(e)' = PairsOf(e) /\ Latest(e)' = Latest(e)
      BY <2>1, <2>9, PairsKept
    <3>2. FamilyOK(e) /\ TokensOK(e)
      BY DEF SInv
    <3>3. <<f, 1>> \notin PairsOf(e)
      BY <2>9 DEF PairsOf
    <3>4. FamilyOK(e)'
      BY <2>5, <2>9, <3>1, <3>2 DEF FamilyOK
    <3>5. TokensOK(e)'
      BY <1>1, <2>1, <2>2, <3>1, <3>2, <3>3 DEF TokensOK
    <3> QED BY <3>4, <3>5
  <2>10. ASSUME NEW e \in Grants PROVE GrantOK(e)'
    <3>1. GrantOK(e) /\ GrantOK(g)
      BY <1>3 DEF SInv
    <3>2. \A k \in Families : origin[k] # g
      BY <1>4, <3>1 DEF GrantOK
    <3> QED BY <1>1, <1>2, <1>3, <1>7, <2>5, <3>1, <3>2, OAuthAssumption DEF GrantOK
  <2> QED BY <2>4, <2>6, <2>8, <2>9, <2>10 DEF SInv
<1>9. CASE user # "active"
  <2>1. Answer(h, Refused) /\ UNCHANGED <<issued, access, origin, refresh>>
    BY <1>2, <1>9 DEF IssuePair
  <2>2. PICK r \in Calls : r.pc = "answered" /\ rpc' = [rpc EXCEPT ![h] = r]
    BY <1>3, <2>1, AnswerShape
  <2>3. \A i \in Handlers : RequestOK(i)' /\ GrantLockOK(i)' /\ FamilyLockOK(i)'
    <3>1. refresh \ refresh' = {} /\ issued \subseteq issued'
      BY <2>1
    <3>2. \A e \in Grants : grant'[e] = grant[e] \/ \A i \in Handlers \ {h} : ~HoldsGrant(i, e)
      BY <1>4, <1>7
    <3> QED BY <2>2, <3>1, <3>2, LocksReleased
  <2>4. OAuthTypeOK'
    BY <1>1, <1>3, <1>7, <2>1, <2>2 DEF OAuthTypeOK
  <2>5. \A e \in Families : FamilyOK(e)' /\ TokensOK(e)'
    BY <1>1, <2>1, FamiliesKept DEF SInv
  <2>6. \A e \in Grants : GrantOK(e)'
    BY <1>1, <1>7, <1>9, <2>1 DEF SInv, GrantOK
  <2> QED BY <2>3, <2>4, <2>5, <2>6 DEF SInv
<1> QED BY <1>8, <1>9

\* A handler that holds a family holds it alone, and has read its token right.
LEMMA FamilyHeld ==
  ASSUME SInv, NEW h \in Handlers, rpc[h].op \in {"refresh", "revoke"}, rpc[h].pc = "locked"
  PROVE  /\ rpc[h].arg \in issued /\ rpc[h].arg[1] \in Families
         /\ rpc[h].arg \in PairsOf(rpc[h].arg[1])
         /\ FamilyOK(rpc[h].arg[1]) /\ TokensOK(rpc[h].arg[1])
         /\ rpc[h].saw = "live" => rpc[h].arg \in refresh
         /\ \A i \in Handlers \ {h} : ~HoldsFamily(i, rpc[h].arg[1])
<1>1. rpc[h].arg \in issued /\ rpc[h].arg \in Pairs
  BY DEF SInv, RequestOK, InFlight, OAuthTypeOK
<1>2. rpc[h].arg[1] \in Families /\ rpc[h].arg \in PairsOf(rpc[h].arg[1])
  BY <1>1, PairParts DEF PairsOf
<1>3. FamilyOK(rpc[h].arg[1]) /\ TokensOK(rpc[h].arg[1]) /\ FamilyLockOK(h)
  BY <1>2 DEF SInv
<1> QED BY <1>1, <1>2, <1>3 DEF FamilyLockOK

\* A family's tokens change under its advisory lock.
LEMMA FamilyReleased ==
  ASSUME SInv, NEW h \in Handlers, rpc[h].op \in {"refresh", "revoke"}, rpc[h].pc = "locked",
         NEW r \in Calls, r.pc = "answered", rpc' = [rpc EXCEPT ![h] = r],
         issued \subseteq issued', grant' = grant,
         refresh \ PairsOf(rpc[h].arg[1]) \subseteq refresh'
  PROVE  \A i \in Handlers : RequestOK(i)' /\ GrantLockOK(i)' /\ FamilyLockOK(i)'
<1>1. \A i \in Handlers \ {h} : ~HoldsFamily(i, rpc[h].arg[1])
  BY FamilyHeld
<1>2. ASSUME NEW pair \in refresh \ refresh' PROVE pair[1] = rpc[h].arg[1]
  BY DEF PairsOf
<1>3. \A pair \in refresh \ refresh' : \A i \in Handlers \ {h} : ~HoldsFamily(i, pair[1])
  BY <1>1, <1>2
<1> QED BY <1>3, LocksReleased

\* Rotation: the token that is in force is replaced by the next of its family.
LEMMA RotateKeepsSInv ==
  ASSUME SInv, NEW h \in Handlers, Rotate(h)
  PROVE  SInv'
<1>0. PICK pair \in issued, f \in Families : pair = rpc[h].arg /\ f = pair[1]
  BY FamilyHeld DEF Rotate
<1>1. /\ rpc[h].op = "refresh" /\ rpc[h].pc = "locked" /\ rpc[h].saw = "live"
      /\ <<f, Cardinality(PairsOf(f)) + 1>> \in Pairs /\ IssuePair(h, f)
      /\ refresh' = (refresh \ {pair}) \cup
                      (IF user = "active" THEN {<<f, Cardinality(PairsOf(f)) + 1>>} ELSE {})
      /\ UNCHANGED <<grant, origin, user, dead, alarms>>
  BY <1>0 DEF Rotate
<1>2. /\ pair \in PairsOf(f) /\ FamilyOK(f) /\ TokensOK(f)
      /\ pair \in refresh /\ OAuthTypeOK
  BY <1>0, <1>1, FamilyHeld DEF SInv
<1>3. PICK n \in 0..MaxPairs : /\ PairsOf(f) = {f} \X (1..n) /\ Cardinality(PairsOf(f)) = n
                               /\ Latest(f) = <<f, n>>
  BY <1>2, Newest
<1>4. n \in Nat /\ n + 1 \in 1..MaxPairs
  BY <1>1, <1>3, OAuthAssumption DEF Pairs
<1>5. /\ f \notin dead /\ pair = <<f, n>> /\ refresh \cap PairsOf(f) \subseteq {pair}
  BY <1>2, <1>3 DEF TokensOK
<1>6. refresh \ PairsOf(f) \subseteq refresh'
  BY <1>1, <1>2
<1>7. CASE user = "active"
  <2> DEFINE next == <<f, n + 1>>
  <2>1. /\ next \in Pairs /\ issued' = issued \cup {next} /\ access' = access \cup {next}
        /\ refresh' = (refresh \ {pair}) \cup {next} /\ Answer(h, next)
    BY <1>1, <1>3, <1>7 DEF IssuePair
  <2>2. PICK r \in Calls : r.pc = "answered" /\ rpc' = [rpc EXCEPT ![h] = r]
    BY <1>2, <2>1, AnswerShape
  <2>3. PairsOf(f)' = {f} \X (1..(n + 1)) /\ Latest(f)' = next
    BY <1>2, <1>3, <1>4, <2>1, IssuedNext
  <2>4. \A e \in Families \ {f} : PairsOf(e)' = PairsOf(e) /\ Latest(e)' = Latest(e)
    BY <2>1, PairsKept
  <2>5. next[1] = f /\ next \in {f} \X (1..(n + 1))
    BY <1>4
  <2> HIDE DEF next
  <2>6. \A i \in Handlers : RequestOK(i)' /\ GrantLockOK(i)' /\ FamilyLockOK(i)'
    <3>1. issued \subseteq issued'
      BY <2>1
    <3>2. refresh \ PairsOf(rpc[h].arg[1]) \subseteq refresh'
      BY <1>0, <1>6
    <3> QED BY <1>1, <2>2, <3>1, <3>2, FamilyReleased
  <2>7. OAuthTypeOK'
    BY <1>1, <1>2, <2>1, <2>2 DEF OAuthTypeOK
  <2>8. FamilyOK(f)' /\ TokensOK(f)'
    <3>1. n + 1 \in 0..MaxPairs
      BY <1>4
    <3>2. origin[f] # NoGrant
      BY <1>2 DEF FamilyOK
    <3>3. FamilyOK(f)'
      BY <1>1, <2>3, <2>5, <3>1, <3>2 DEF FamilyOK
    <3>4. refresh' \cap PairsOf(f)' \subseteq {next}
      <4>1. PairsOf(f)' = PairsOf(f) \cup {next}
        BY <2>1, <2>5 DEF PairsOf
      <4> QED BY <1>5, <2>1, <4>1
    <3> QED BY <1>1, <1>5, <2>3, <3>3, <3>4 DEF TokensOK
  <2>9. ASSUME NEW e \in Families, e # f PROVE FamilyOK(e)' /\ TokensOK(e)'
    <3>1. PairsOf(e)' = PairsOf(e) /\ Latest(e)' = Latest(e) /\ FamilyOK(e) /\ TokensOK(e)
      BY <2>4, <2>9 DEF SInv
    <3>2. next \notin PairsOf(e)
      BY <2>5, <2>9 DEF PairsOf
    <3>3. FamilyOK(e)'
      BY <1>1, <3>1 DEF FamilyOK
    <3>4. TokensOK(e)'
      BY <1>1, <2>1, <3>1, <3>2 DEF TokensOK
    <3> QED BY <3>3, <3>4
  <2>10. \A g \in Grants : GrantOK(g)'
    BY <1>1 DEF SInv, GrantOK
  <2> QED BY <2>6, <2>7, <2>8, <2>9, <2>10 DEF SInv
<1>8. CASE user # "active"
  <2>1. /\ Answer(h, Refused) /\ refresh' = refresh \ {pair} /\ UNCHANGED <<issued, access>>
    BY <1>1, <1>8 DEF IssuePair
  <2>2. PICK r \in Calls : r.pc = "answered" /\ rpc' = [rpc EXCEPT ![h] = r]
    BY <1>2, <2>1, AnswerShape
  <2>3. \A i \in Handlers : RequestOK(i)' /\ GrantLockOK(i)' /\ FamilyLockOK(i)'
    <3>1. issued \subseteq issued'
      BY <2>1
    <3>2. refresh \ PairsOf(rpc[h].arg[1]) \subseteq refresh'
      BY <1>0, <1>6
    <3> QED BY <1>1, <2>2, <3>1, <3>2, FamilyReleased
  <2>4. OAuthTypeOK'
    BY <1>1, <1>2, <2>1, <2>2 DEF OAuthTypeOK
  <2>5. ASSUME NEW e \in Families PROVE FamilyOK(e)' /\ TokensOK(e)'
    <3>1. FamilyOK(e) /\ TokensOK(e) /\ PairsOf(e)' = PairsOf(e)
      BY <2>1 DEF SInv, PairsOf
    <3>2. Latest(e)' = Latest(e)
      BY <3>1 DEF Latest
    <3>3. refresh' \subseteq refresh /\ access' = access
      BY <2>1
    <3> QED BY <1>1, <3>1, <3>2, <3>3 DEF FamilyOK, TokensOK
  <2>6. \A g \in Grants : GrantOK(g)'
    BY <1>1 DEF SInv, GrantOK
  <2> QED BY <2>3, <2>4, <2>5, <2>6 DEF SInv
<1> QED BY <1>7, <1>8

\* Tokens of a family are revoked under its lock, and the family with them or not.
LEMMA RevokedTokens ==
  ASSUME SInv, NEW h \in Handlers, rpc[h].op \in {"refresh", "revoke"}, rpc[h].pc = "locked",
         NEW a \in {NoPair, Refused}, Answer(h, a),
         \/ /\ rpc[h].op = "refresh" /\ refresh' = refresh \ {rpc[h].arg}
            /\ UNCHANGED <<access, dead>>
         \/ RevokeFamily(rpc[h].arg[1]),
         alarms' \in {alarms, alarms \cup {rpc[h].arg[1]}},
         UNCHANGED <<grant, origin, issued, user>>
  PROVE  SInv'
<1> DEFINE f == rpc[h].arg[1]
<1>1. /\ rpc[h].arg \in issued /\ f \in Families /\ rpc[h].arg \in PairsOf(f) /\ FamilyOK(f)
      /\ OAuthTypeOK
  BY FamilyHeld DEF SInv
<1>2. PICK r \in Calls : r.pc = "answered" /\ rpc' = [rpc EXCEPT ![h] = r]
  BY <1>1, AnswerShape
<1>3. /\ refresh' \subseteq refresh /\ access' \subseteq access
      /\ refresh \ PairsOf(f) \subseteq refresh'
  BY <1>1 DEF RevokeFamily
<1>4. \/ dead' = dead
      \/ /\ dead' = dead \cup {f}
         /\ (refresh' \cup access') \cap PairsOf(f) = {}
  BY DEF RevokeFamily
<1>5. \A i \in Handlers : RequestOK(i)' /\ GrantLockOK(i)' /\ FamilyLockOK(i)'
  BY <1>2, <1>3, FamilyReleased
<1> HIDE DEF f
<1>6. OAuthTypeOK'
  <2>1. alarms' \subseteq Families
    BY <1>1 DEF OAuthTypeOK, f
  <2>2. dead' \subseteq Families
    BY <1>1, <1>4 DEF OAuthTypeOK
  <2> QED BY <1>1, <1>2, <1>3, <2>1, <2>2 DEF OAuthTypeOK
<1>7. ASSUME NEW e \in Families PROVE FamilyOK(e)' /\ TokensOK(e)'
  <2>1. FamilyOK(e) /\ TokensOK(e) /\ PairsOf(e)' = PairsOf(e)
    BY DEF SInv, PairsOf
  <2>2. Latest(e)' = Latest(e)
    BY <2>1 DEF Latest
  <2>3. FamilyOK(e)'
    BY <2>1 DEF FamilyOK
  <2>4. refresh' \cap PairsOf(e)' \subseteq {Latest(e)'}
    BY <1>3, <2>1, <2>2 DEF TokensOK
  <2>5. CASE e \in dead
    BY <1>3, <2>1, <2>4, <2>5, <2>3 DEF TokensOK
  <2>6. CASE e \notin dead
    <3>1. e \in dead' => e = f /\ (refresh' \cup access') \cap PairsOf(e) = {} /\ PairsOf(e) # {}
      BY <1>1, <1>4, <2>6
    <3> QED BY <2>1, <2>3, <2>4, <3>1 DEF TokensOK
  <2> QED BY <2>5, <2>6
<1>8. \A g \in Grants : GrantOK(g)'
  BY DEF SInv, GrantOK
<1> QED BY <1>5, <1>6, <1>7, <1>8 DEF SInv

\* Every step of the server keeps the server's half of the invariant.
LEMMA ServerKeepsSInv ==
  ASSUME SInv, Server
  PROVE  SInv'
<1>1. OAuthTypeOK
  BY DEF SInv
<1>2. ASSUME NEW g \in Grants, Approve(g) PROVE SInv'
  <2>1. /\ GrantFree(g) /\ grant[g] # "consumed"
        /\ grant' = [grant EXCEPT ![g] = "approved"]
        /\ UNCHANGED <<origin, issued, access, refresh, user, rpc, dead, alarms>>
    BY <1>2 DEF Approve
  <2>2. "approved" \in Statuses \ {"consumed"}
    BY DEF Statuses
  <2> QED BY <2>1, <2>2, GrantWritten
<1>3. ASSUME NEW g \in Grants, Deny(g) PROVE SInv'
  <2>1. /\ GrantFree(g) /\ grant[g] # "consumed"
        /\ grant' = [grant EXCEPT ![g] = "denied"]
        /\ UNCHANGED <<origin, issued, access, refresh, user, rpc, dead, alarms>>
    BY <1>3 DEF Deny
  <2>2. "denied" \in Statuses \ {"consumed"}
    BY DEF Statuses
  <2> QED BY <2>1, <2>2, GrantWritten
<1>4. ASSUME NEW h \in Handlers, StillPending(h) \/ ServerFails(h) PROVE SInv'
  <2>1. PICK a \in {Pending, Refused} : Answer(h, a)
    BY <1>4 DEF StillPending, ServerFails
  <2>2. UNCHANGED <<grant, origin, issued, access, refresh, user, dead, alarms>>
    BY <1>4 DEF StillPending, ServerFails
  <2> QED BY <2>1, <2>2, OnlyAnswers
<1>5. ASSUME NEW h \in Handlers, RefreshRanOut(h) PROVE SInv'
  BY <1>5, RevokedTokens DEF RefreshRanOut
<1>6. ASSUME NEW h \in Handlers, DetectReuse(h) PROVE SInv'
  <2>1. /\ rpc[h].op = "refresh" /\ rpc[h].pc = "locked" /\ RevokeFamily(rpc[h].arg[1])
        /\ alarms' \in {alarms, alarms \cup {rpc[h].arg[1]}} /\ Answer(h, Refused)
        /\ UNCHANGED <<grant, origin, issued, user>>
    BY <1>6 DEF DetectReuse
  <2> QED BY <2>1, RevokedTokens
<1>7. ASSUME NEW h \in Handlers, Revoke(h) PROVE SInv'
  <2>1. /\ rpc[h].op = "revoke" /\ rpc[h].pc = "locked" /\ RevokeFamily(rpc[h].arg[1])
        /\ alarms' \in {alarms, alarms \cup {rpc[h].arg[1]}} /\ Answer(h, NoPair)
        /\ UNCHANGED <<grant, origin, issued, user>>
    BY <1>7 DEF Revoke
  <2> QED BY <2>1, RevokedTokens
<1> QED BY <1>2, <1>3, <1>4, <1>5, <1>6, <1>7, DisableKeepsSInv, LockGrantKeepsSInv,
           ExchangeKeepsSInv, RefuseExchangeKeepsSInv, LockFamilyKeepsSInv, RotateKeepsSInv
        DEF Server, Handle

\* The server's half of the invariant is what SpentOnce says, and more.
LEMMA SpentOnceHolds ==
  ASSUME SInv
  PROVE  SpentOnce
<1>0. ASSUME NEW S, S = {} \/ \E x : S = {x} PROVE Cardinality(S) <= 1
  <2>1. CASE S = {}
    <3>1. Cardinality(S) = 0
      BY <2>1, FS_EmptySet
    <3> QED BY <3>1
  <2>2. CASE \E x : S = {x}
    <3>1. PICK x : S = {x}
      BY <2>2
    <3>2. Cardinality(S) = 1
      BY <3>1, FS_Singleton
    <3> QED BY <3>2
  <2> QED BY <1>0, <2>1, <2>2
<1>1. ASSUME NEW g \in Grants
      PROVE  LET begun == {f \in Families : origin[f] = g} IN
             /\ Cardinality(begun) <= 1
             /\ grant[g] = "consumed" /\ user = "active" => begun # {}
             /\ begun # {} => grant[g] = "consumed"
  <2> DEFINE begun == {f \in Families : origin[f] = g}
  <2>1. GrantOK(g)
    BY DEF SInv
  <2>2. begun = {} \/ \E f \in Families : begun = {f}
    BY <2>1 DEF GrantOK
  <2>3. Cardinality(begun) <= 1
    <3>1. begun = {} \/ \E x : begun = {x}
      BY <2>2
    <3> HIDE DEF begun
    <3> QED BY <1>0, <3>1
  <2> QED BY <2>1, <2>3 DEF GrantOK
<1>2. ASSUME NEW f \in Families
      PROVE  /\ Cardinality(refresh \cap PairsOf(f)) <= 1
             /\ refresh \cap PairsOf(f) \subseteq {Latest(f)}
             /\ f \in dead => (refresh \cup access) \cap PairsOf(f) = {}
  <2>1. TokensOK(f)
    BY DEF SInv
  <2>2. refresh \cap PairsOf(f) = {} \/ refresh \cap PairsOf(f) = {Latest(f)}
    BY <2>1 DEF TokensOK
  <2>3. Cardinality(refresh \cap PairsOf(f)) <= 1
    BY <1>0, <2>2
  <2> QED BY <2>1, <2>3 DEF TokensOK
<1>3. GrantYieldsOneFamily
  BY <1>1 DEF GrantYieldsOneFamily
<1>4. FamiliesAreSingleUse
  BY <1>2 DEF FamiliesAreSingleUse
<1> QED BY <1>3, <1>4 DEF SpentOnce

-----------------------------------------------------------------------------
(* What the client relies on *)

\* A step that starts no renewal of a pair of this client leaves the renewals in flight, and
\* the pairs that are still to be renewed, what they were.
LEMMA RenewalsKept ==
  ASSUME CInv, SInv', UNCHANGED <<issued, origin>>,
         \A h \in Handlers, f \in Families :
            origin[f] \notin ForeignGrants /\ Renews(h, f)' =>
               Renews(h, f) /\ rpc'[h].arg = rpc[h].arg
  PROVE  /\ \A h \in Handlers : RenewalOK(h)'
         /\ \A pair \in Pairs : Unspent(pair) => Unspent(pair)'
<1>1. ASSUME NEW f PROVE PairsOf(f)' = PairsOf(f) /\ Latest(f)' = Latest(f)
  <2>1. PairsOf(f)' = PairsOf(f)
    BY DEF PairsOf
  <2> QED BY <2>1 DEF Latest
<1>2. ASSUME NEW h \in Handlers PROVE RenewalOK(h)'
  <2> SUFFICES ASSUME NEW f \in Families, Renews(h, f)', origin[f] \notin ForeignGrants
               PROVE  /\ rpc'[h].arg = Latest(f)'
                      /\ \A i \in Handlers : Renews(i, f)' => i = h
    BY DEF RenewalOK
  <2>1. Renews(h, f) /\ rpc'[h].arg = rpc[h].arg /\ RenewalOK(h)
    BY DEF CInv
  <2>2. \A i \in Handlers : Renews(i, f)' => Renews(i, f)
    OBVIOUS
  <2>3. rpc[h].arg = Latest(f) /\ \A i \in Handlers : Renews(i, f) => i = h
    BY <2>1 DEF RenewalOK
  <2> QED BY <1>1, <2>1, <2>2, <2>3
<1>3. ASSUME NEW pair \in Pairs, Unspent(pair) PROVE Unspent(pair)'
  <2>1. /\ pair \in issued /\ origin[pair[1]] \notin ForeignGrants /\ pair = Latest(pair[1])
        /\ \A h \in Handlers : ~Renews(h, pair[1])
    BY <1>3 DEF Unspent
  <2>2. pair[1] \in Families
    BY PairParts
  <2>3. \A h \in Handlers : ~Renews(h, pair[1])'
    BY <2>1, <2>2
  <2>4. Latest(pair[1])' = Latest(pair[1])
    BY <1>1
  <2> QED BY <2>1, <2>3, <2>4 DEF Unspent
<1> QED BY <1>2, <1>3

\* A step of the server or of others, in which the processes and the profile rest, and no
\* process gets a pair.
LEMMA QuietForClient ==
  ASSUME CInv, SInv', NeverReplays', UNCHANGED <<issued, origin>>,
         UNCHANGED <<pc, call, held, keyring, file, blocked, locker>>, lapsed' \subseteq issued,
         \A h \in Handlers, f \in Families :
            origin[f] \notin ForeignGrants /\ Renews(h, f)' =>
               Renews(h, f) /\ rpc'[h].arg = rpc[h].arg,
         \A p \in Processes : call[p] # NoCall =>
            /\ rpc'[call[p]].pc # "free"
            /\ rpc'[call[p]].pc \in {"received", "locked"} =>
                  /\ InFlight(call[p])
                  /\ rpc'[call[p]].op = rpc[call[p]].op
                  /\ rpc'[call[p]].arg = rpc[call[p]].arg
            /\ rpc'[call[p]].pc = "answered" /\ rpc'[call[p]].answer \in Pairs =>
                  /\ rpc[call[p]].pc = "answered"
                  /\ rpc[call[p]].answer = rpc'[call[p]].answer
  PROVE  CInv'
<1>1. /\ \A h \in Handlers : RenewalOK(h)'
      /\ \A pair \in Pairs : Unspent(pair) => Unspent(pair)'
  BY RenewalsKept
<1>2. ClientTypeOK'
  BY DEF CInv, ClientTypeOK
<1>3. ASSUME NEW p \in Processes PROVE ProcessOK(p)'
  <2>1. ProcessOK(p)
    BY DEF CInv
  <2> QED BY <2>1 DEF ProcessOK
<1>4. ASSUME NEW p \in Processes PROVE CallOK(p)'
  <2>1. CallOK(p)
    BY DEF CInv
  <2> QED BY <2>1 DEF CallOK, InFlight
<1>5. \A p \in Processes, pair \in Pairs : Bears(p, pair)' => Bears(p, pair)
  BY DEF Bears, Answered, AnswerOf
<1>6. \A pair \in Pairs : Stores(pair)' <=> Stores(pair)
  BY DEF Stores, Loaded
<1>7. ASSUME NEW p \in Processes PROVE BearerOK(p)'
  <2>1. BearerOK(p)
    BY DEF CInv
  <2> SUFFICES ASSUME NEW pair \in Pairs, Bears(p, pair)'
               PROVE  /\ Unspent(pair)'
                      /\ \A q \in Processes, other \in Pairs :
                            Bears(q, other)' /\ other[1] = pair[1] => q = p
                      /\ \A other \in Pairs : Stores(other)' => other[1] # pair[1]
    BY DEF BearerOK
  <2>2. Bears(p, pair)
    BY <1>5
  <2>3. /\ Unspent(pair)
        /\ \A q \in Processes, other \in Pairs :
              Bears(q, other) /\ other[1] = pair[1] => q = p
        /\ \A other \in Pairs : Stores(other) => other[1] # pair[1]
    BY <2>1, <2>2 DEF BearerOK
  <2> QED BY <1>1, <1>5, <1>6, <2>3
<1>8. StoreOK'
  BY <1>1, <1>6 DEF CInv, StoreOK
<1> QED BY <1>1, <1>2, <1>3, <1>4, <1>7, <1>8 DEF CInv

\* A step of one process: it may keep what it bears, put it in the store, or drop it.
LEMMA ProcessStep ==
  ASSUME CInv, SInv', NEW p \in Processes, UNCHANGED <<issued, origin, alarms, lapsed>>,
         NEW where \in Places, NEW what \in Things, Go(p, where, what),
         NEW c \in Handlers \cup {NoCall}, call' = [call EXCEPT ![p] = c],
         keyring' \in issued \cup {NoPair}, file' \in issued \cup {NoPair},
         blocked' \in BOOLEAN, locker' \in Processes \cup {NoProcess},
         \/ locker \in {p, NoProcess}
         \/ UNCHANGED <<keyring, blocked, locker>>,
         ProcessOK(p)', CallOK(p)',
         \A h \in Handlers, f \in Families :
            origin[f] \notin ForeignGrants /\ Renews(h, f)' =>
               Renews(h, f) /\ rpc'[h].arg = rpc[h].arg,
         \A q \in Processes \ {p} : call[q] # NoCall => rpc'[call[q]] = rpc[call[q]],
         \A pair \in Pairs : Bears(p, pair)' => Bears(p, pair),
         \A pair \in Pairs : Stores(pair)' => Stores(pair) \/ Bears(p, pair),
         (\E pair \in Pairs : Bears(p, pair)') =>
            (\A pair \in Pairs : Stores(pair)' => Stores(pair))
  PROVE  CInv'
<1>1. /\ \A h \in Handlers : RenewalOK(h)'
      /\ \A pair \in Pairs : Unspent(pair) => Unspent(pair)'
  BY RenewalsKept
<1>2. /\ pc' \in [Processes -> Places] /\ held' \in [Processes -> Things]
      /\ call' \in [Processes -> Handlers \cup {NoCall}]
      /\ \A q \in Processes \ {p} : /\ pc'[q] = pc[q] /\ held'[q] = held[q]
                                    /\ call'[q] = call[q]
  BY DEF Go, CInv, ClientTypeOK
<1>3. ClientTypeOK'
  BY <1>2 DEF CInv, ClientTypeOK
<1>4. ASSUME NEW q \in Processes PROVE ProcessOK(q)'
  <2>1. CASE q = p
    BY <2>1
  <2>2. CASE q # p
    <3>1. ProcessOK(q) /\ pc'[q] = pc[q] /\ held'[q] = held[q]
      BY <1>2, <2>2 DEF CInv
    <3>2. CASE pc[q] \in Locked
      <4>1. locker = q /\ q # NoProcess
        BY <3>1, <3>2, CliAssumption DEF ProcessOK
      <4>2. UNCHANGED <<keyring, blocked, locker>>
        BY <2>2, <4>1
      <4> QED BY <3>1, <4>2 DEF ProcessOK
    <3>3. CASE pc[q] \notin Locked
      BY <3>1, <3>3 DEF ProcessOK, Locked
    <3> QED BY <3>2, <3>3
  <2> QED BY <2>1, <2>2
<1>5. ASSUME NEW q \in Processes PROVE CallOK(q)'
  <2>1. CASE q = p
    BY <2>1
  <2>2. CASE q # p
    <3>1. CallOK(q) /\ pc'[q] = pc[q] /\ call'[q] = call[q]
      BY <1>2, <2>2 DEF CInv
    <3>2. call[q] # NoCall => rpc'[call[q]] = rpc[call[q]]
      BY <2>2
    <3>3. ASSUME NEW r \in Processes, call'[q] # NoCall, call'[r] = call'[q] PROVE r = q
      <4>1. CASE r = p
        BY <2>2, <3>3, <4>1 DEF CallOK
      <4>2. CASE r # p
        BY <1>2, <3>1, <3>3, <4>2 DEF CallOK
      <4> QED BY <4>1, <4>2
    <3> QED BY <3>1, <3>2, <3>3 DEF CallOK, InFlight
  <2> QED BY <2>1, <2>2
<1>6. ASSUME NEW q \in Processes, NEW pair \in Pairs, Bears(q, pair)'
      PROVE  Bears(q, pair)
  <2>1. CASE q = p
    BY <1>6, <2>1
  <2>2. CASE q # p
    BY <1>2, <1>6, <2>2 DEF Bears, Answered, AnswerOf
  <2> QED BY <2>1, <2>2
<1>7. ASSUME NEW q \in Processes PROVE BearerOK(q)'
  <2>1. BearerOK(q)
    BY DEF CInv
  <2> SUFFICES ASSUME NEW pair \in Pairs, Bears(q, pair)'
               PROVE  /\ Unspent(pair)'
                      /\ \A r \in Processes, other \in Pairs :
                            Bears(r, other)' /\ other[1] = pair[1] => r = q
                      /\ \A other \in Pairs : Stores(other)' => other[1] # pair[1]
    BY DEF BearerOK
  <2>2. Bears(q, pair)
    BY <1>6
  <2>3. /\ Unspent(pair)
        /\ \A r \in Processes, other \in Pairs :
              Bears(r, other) /\ other[1] = pair[1] => r = q
        /\ \A other \in Pairs : Stores(other) => other[1] # pair[1]
    BY <2>1, <2>2 DEF BearerOK
  <2>4. ASSUME NEW other \in Pairs, Stores(other)' PROVE other[1] # pair[1]
    <3>1. CASE Stores(other)
      BY <2>3, <3>1
    <3>2. CASE ~Stores(other)
      <4>1. Bears(p, other)
        BY <2>4, <3>2
      <4>2. q # p
        BY <2>4, <3>2
      <4> QED BY <2>3, <4>1, <4>2
    <3> QED BY <3>1, <3>2
  <2> QED BY <1>1, <1>6, <2>3, <2>4
<1>8. StoreOK'
  <2>1. ASSUME NEW pair \in Pairs, Stores(pair)' PROVE Unspent(pair)'
    <3>1. CASE Stores(pair)
      BY <1>1, <3>1 DEF CInv, StoreOK
    <3>2. CASE Bears(p, pair)
      BY <1>1, <3>2 DEF CInv, BearerOK
    <3> QED BY <2>1, <3>1, <3>2
  <2> QED BY <2>1 DEF StoreOK
<1>9. NeverReplays'
  BY DEF CInv, NeverReplays, ForeignFamilies
<1> QED BY <1>1, <1>3, <1>4, <1>5, <1>7, <1>8, <1>9 DEF CInv

-----------------------------------------------------------------------------
(* The client's steps *)

\* A step of one process that leaves the server's requests alone and waits for none.
LEMMA LocalStep ==
  ASSUME CInv, SInv', NEW p \in Processes, UNCHANGED <<issued, origin, alarms, lapsed, rpc>>,
         NEW where \in Places, NEW what \in Things, Go(p, where, what),
         call' = [call EXCEPT ![p] = NoCall],
         keyring' \in issued \cup {NoPair}, file' \in issued \cup {NoPair},
         blocked' \in BOOLEAN, locker' \in Processes \cup {NoProcess},
         \/ locker \in {p, NoProcess}
         \/ UNCHANGED <<keyring, blocked, locker>>,
         ProcessOK(p)',
         where \in Bearing => /\ pc[p] \in Bearing /\ held[p] = what
                              /\ \A pair \in Pairs : Stores(pair)' => Stores(pair),
         \A pair \in Pairs : Stores(pair)' =>
            Stores(pair) \/ (pc[p] \in Bearing /\ held[p] = pair)
  PROVE  CInv'
<1>1. pc'[p] = where /\ held'[p] = what /\ call'[p] = NoCall
  BY DEF Go, CInv, ClientTypeOK
<1>2. CallOK(p)'
  BY <1>1 DEF CallOK
<1>3. \A h \in Handlers, f \in Families :
         origin[f] \notin ForeignGrants /\ Renews(h, f)' =>
            Renews(h, f) /\ rpc'[h].arg = rpc[h].arg
  BY DEF Renews, InFlight
<1>4. \A pair \in Pairs : Bears(p, pair)' => where \in Bearing /\ what = pair
  BY <1>1 DEF Bears, Answered
<1>5. \A pair \in Pairs : Bears(p, pair)' => Bears(p, pair)
  BY <1>4 DEF Bears
<1>6. \A pair \in Pairs : Stores(pair)' => Stores(pair) \/ Bears(p, pair)
  BY DEF Bears
<1>7. (\E pair \in Pairs : Bears(p, pair)') =>
         (\A pair \in Pairs : Stores(pair)' => Stores(pair))
  BY <1>4
<1>8. \A q \in Processes \ {p} : call[q] # NoCall => rpc'[call[q]] = rpc[call[q]]
  OBVIOUS
<1> QED BY <1>2, <1>3, <1>5, <1>6, <1>7, <1>8, ProcessStep

\* Only a process that logs in, renews or revokes waits for an answer.
LEMMA NotWaiting ==
  ASSUME CInv, NEW p \in Processes,
         call[p] = NoCall \/ pc[p] \notin {"login", "refreshing", "revoking"},
         UNCHANGED call
  PROVE  call' = [call EXCEPT ![p] = NoCall]
<1>1. CallOK(p) /\ call \in [Processes -> Handlers \cup {NoCall}]
  BY DEF CInv, ClientTypeOK
<1>2. call[p] = NoCall
  BY <1>1 DEF CallOK
<1> QED BY <1>1, <1>2

\* The server rests.
LEMMA ServerRests ==
  ASSUME SInv, UNCHANGED server
  PROVE  SInv' /\ UNCHANGED <<issued, origin, alarms, rpc>>
<1>1. UNCHANGED <<grant, origin, issued, access, refresh, user, dead, alarms, rpc>>
  BY DEF server
<1>2. rpc' \in [Handlers -> Calls]
  BY <1>1 DEF SInv, OAuthTypeOK
<1>3. ASSUME NEW i \in Handlers
      PROVE  RequestOK(i)' /\ GrantLockOK(i)' /\ FamilyLockOK(i)'
  <2>1. RequestOK(i) /\ GrantLockOK(i) /\ FamilyLockOK(i)
    BY DEF SInv
  <2> QED BY <1>1, <2>1
       DEF RequestOK, InFlight, GrantLockOK, HoldsGrant, FamilyLockOK, HoldsFamily
<1> QED BY <1>1, <1>2, <1>3, OnlyHandlers

\* A process whose command ends, whatever it was at, and whose lock goes with it.
LEMMA FinishStep ==
  ASSUME CInv, SInv', NEW p \in Processes, UNCHANGED <<issued, origin, alarms, lapsed, rpc>>,
         Finish(p), call' = [call EXCEPT ![p] = NoCall],
         keyring' \in issued \cup {NoPair}, file' \in issued \cup {NoPair},
         blocked' \in BOOLEAN,
         locker = p \/ UNCHANGED <<keyring, file, blocked>>,
         \A pair \in Pairs : Stores(pair)' =>
            Stores(pair) \/ (pc[p] \in Bearing /\ held[p] = pair)
  PROVE  CInv'
<1>1. /\ Go(p, "idle", NoPair)
      /\ locker' = IF locker = p THEN NoProcess ELSE locker
      /\ locker \in Processes \cup {NoProcess}
  BY DEF Finish, CInv, ClientTypeOK
<1>2. /\ "idle" \in Places /\ "idle" \notin Bearing /\ NoPair \in Things
      /\ locker' \in Processes \cup {NoProcess}
  BY <1>1 DEF Places, Bearing, Things
<1>3. pc'[p] = "idle"
  BY <1>1 DEF Go, CInv, ClientTypeOK
<1>4. ProcessOK(p)'
  BY <1>3 DEF ProcessOK, Locked, Bearing
<1>5. \/ locker \in {p, NoProcess}
      \/ UNCHANGED <<keyring, blocked, locker>>
  BY <1>1
<1> QED BY <1>1, <1>2, <1>4, <1>5, LocalStep

\* What the process has and what the profile holds are of the types they are meant to be.
LEMMA ProcessFacts ==
  ASSUME CInv, NEW p \in Processes
  PROVE  /\ SInv /\ ProcessOK(p) /\ CallOK(p) /\ BearerOK(p)
         /\ pc[p] \in Places /\ held[p] \in Things /\ call[p] \in Handlers \cup {NoCall}
         /\ keyring \in issued \cup {NoPair} /\ file \in issued \cup {NoPair}
         /\ blocked \in BOOLEAN /\ locker \in Processes \cup {NoProcess}
         /\ issued \subseteq Pairs
         /\ pc[p] \in Bearing => held[p] \in issued
<1>1. SInv /\ ProcessOK(p) /\ CallOK(p) /\ BearerOK(p) /\ ClientTypeOK
  BY DEF CInv
<1>2. issued \subseteq Pairs
  BY <1>1 DEF SInv, OAuthTypeOK
<1>3. ASSUME pc[p] \in Bearing PROVE held[p] \in issued
  <2>1. held[p] \in Pairs
    BY <1>1, <1>3 DEF ProcessOK
  <2>2. Bears(p, held[p])
    BY <1>3 DEF Bears
  <2> QED BY <1>1, <2>1, <2>2 DEF BearerOK, Unspent
<1> QED BY <1>1, <1>2, <1>3 DEF ClientTypeOK

\* Commands that end without a change of the profile.
LEMMA EndsQuietly ==
  ASSUME CInv, NEW p \in Processes,
         GiveUpLogin(p) \/ NothingToRefresh(p) \/ SaveFails(p) \/ DeleteAborted(p) \/ Die(p)
  PROVE  CInv'
<1>1. UNCHANGED <<server, stored, lapsed>> /\ Finish(p)
  BY DEF GiveUpLogin, NothingToRefresh, SaveFails, DeleteAborted, Die
<1>2. UNCHANGED <<keyring, file, blocked, lapsed>>
  BY <1>1 DEF stored
<1>3. SInv' /\ UNCHANGED <<issued, origin, alarms, rpc>>
  BY <1>1, ServerRests DEF CInv
<1>4. call' = [call EXCEPT ![p] = NoCall]
  BY NotWaiting DEF GiveUpLogin, NothingToRefresh, SaveFails, DeleteAborted, Die
<1>5. \A pair \in Pairs : Stores(pair)' => Stores(pair)
  BY <1>2 DEF Stores, Loaded
<1>6. keyring' \in issued \cup {NoPair} /\ file' \in issued \cup {NoPair} /\ blocked' \in BOOLEAN
  BY <1>2, ProcessFacts
<1> QED BY <1>1, <1>2, <1>3, <1>4, <1>5, <1>6, FinishStep

\* The answer is lost: the marker and the lock are what a death would leave, or the profile is
\* to be deleted all the same.
LEMMA LoseAnswerKeepsCInv ==
  ASSUME CInv, NEW p \in Processes, LoseAnswer(p)
  PROVE  CInv'
<1>1. /\ UNCHANGED <<server, stored, lapsed>> /\ call' = [call EXCEPT ![p] = NoCall]
      /\ IF pc[p] = "revoking" THEN Go(p, "deleting", NoPair) /\ UNCHANGED locker ELSE Finish(p)
  BY DEF LoseAnswer
<1>2. UNCHANGED <<keyring, file, blocked, lapsed>>
  BY <1>1 DEF stored
<1>3. SInv' /\ UNCHANGED <<issued, origin, alarms, rpc>>
  BY <1>1, ServerRests DEF CInv
<1>4. \A pair \in Pairs : Stores(pair)' => Stores(pair)
  BY <1>2 DEF Stores, Loaded
<1>5. keyring' \in issued \cup {NoPair} /\ file' \in issued \cup {NoPair} /\ blocked' \in BOOLEAN
  BY <1>2, ProcessFacts
<1>6. CASE pc[p] = "revoking"
  <2>1. /\ Go(p, "deleting", NoPair) /\ UNCHANGED locker
        /\ "deleting" \in Places /\ "deleting" \notin Bearing /\ NoPair \in Things
    BY <1>1, <1>6 DEF Places, Locked, Bearing, Things
  <2>2. pc'[p] = "deleting" /\ locker = p /\ locker' \in Processes \cup {NoProcess}
    BY <1>6, <2>1, ProcessFacts DEF Go, CInv, ClientTypeOK, ProcessOK, Locked
  <2>3. ProcessOK(p)'
    BY <2>1, <2>2 DEF ProcessOK, Bearing
  <2> QED BY <1>1, <1>2, <1>3, <1>4, <1>5, <2>1, <2>2, <2>3, LocalStep
<1>7. CASE pc[p] # "revoking"
  BY <1>1, <1>2, <1>3, <1>4, <1>5, <1>7, FinishStep
<1> QED BY <1>6, <1>7

\* A login or a renewal begins with nothing but the process's own place.
LEMMA BeginsLocally ==
  ASSUME CInv, NEW p \in Processes,
         Resolve(p) \/ (\E g \in Grants : StartLogin(p, g))
  PROVE  CInv'
<1>1. UNCHANGED <<call, keyring, file, blocked, locker, lapsed>> /\ pc[p] = "idle"
  BY DEF Resolve, StartLogin, stored
<1>2. call' = [call EXCEPT ![p] = NoCall]
  BY <1>1, NotWaiting
<1>3. \A pair \in Pairs : Stores(pair)' => Stores(pair)
  BY <1>1 DEF Stores, Loaded
<1>4. /\ keyring' \in issued \cup {NoPair} /\ file' \in issued \cup {NoPair}
      /\ blocked' \in BOOLEAN /\ locker' \in Processes \cup {NoProcess} /\ SInv
  BY <1>1, ProcessFacts
<1>5. CASE Resolve(p)
  <2>1. SInv' /\ UNCHANGED <<issued, origin, alarms, rpc>>
    BY <1>4, <1>5, ServerRests DEF Resolve
  <2>2. Go(p, "expired", Loaded) /\ Loaded \in Things
    <3>1. keyring \in Things /\ file \in Things
      BY ProcessFacts DEF Things
    <3> QED BY <1>5, <3>1 DEF Resolve, Loaded
  <2>3. "expired" \in Places /\ "expired" \notin Bearing
    BY DEF Places, Bearing
  <2>4. pc'[p] = "expired"
    BY <2>2 DEF Go, CInv, ClientTypeOK
  <2>5. ProcessOK(p)'
    BY <2>4 DEF ProcessOK, Locked, Bearing
  <2> QED BY <1>1, <1>2, <1>3, <1>4, <2>1, <2>2, <2>3, <2>5, LocalStep
<1>6. ASSUME NEW g \in Grants, StartLogin(p, g) PROVE CInv'
  <2>1. SInv' /\ UNCHANGED <<issued, origin, alarms, rpc>>
    <3>1. CASE g \in DeviceGrants
      <4>1. CreateDeviceGrant(g)
        BY <1>6, <3>1 DEF StartLogin
      <4>2. /\ grant[g] = "absent" /\ grant' = [grant EXCEPT ![g] = "pending"]
            /\ UNCHANGED <<origin, issued, access, refresh, user, rpc, dead, alarms>>
        BY <4>1 DEF CreateDeviceGrant
      <4>3. "pending" \in Statuses \ {"consumed"}
        BY DEF Statuses
      <4> QED BY <1>4, <4>2, <4>3, GrantWritten
    <3>2. CASE g \in Codes
      BY <1>4, <1>6, <3>2, ServerRests DEF StartLogin
    <3> QED BY <3>1, <3>2 DEF Grants
  <2>2. Go(p, "login", g) /\ g \in Things /\ g \notin ForeignGrants
    BY <1>6 DEF StartLogin, Things
  <2>3. "login" \in Places /\ "login" \notin Bearing
    BY DEF Places, Bearing
  <2>4. pc'[p] = "login" /\ held'[p] = g
    BY <2>2 DEF Go, CInv, ClientTypeOK
  <2>5. ProcessOK(p)'
    BY <2>2, <2>4 DEF ProcessOK, Locked, Bearing
  <2> QED BY <1>1, <1>2, <1>3, <1>4, <2>1, <2>2, <2>3, <2>5, LocalStep
<1> QED BY <1>5, <1>6

\* The marker stands while the profile is being written: nothing in it counts before it goes.
LEMMA SaveGoesOn ==
  ASSUME CInv, NEW p \in Processes,
         BeginSave(p) \/ KeyringSaved(p) \/ KeyringFailed(p)
  PROVE  CInv'
<1>1. UNCHANGED <<server, call, file, lapsed>>
  BY DEF BeginSave, KeyringSaved, KeyringFailed
<1>2. pc[p] \in {"logged in", "saving"} /\ pc[p] \in Bearing
  BY DEF BeginSave, KeyringSaved, KeyringFailed, Bearing
<1>3. /\ SInv /\ ProcessOK(p) /\ held[p] \in issued /\ held[p] \in Pairs /\ held[p] \in Things
      /\ keyring \in issued \cup {NoPair} /\ file \in issued \cup {NoPair}
      /\ locker \in Processes \cup {NoProcess}
  BY <1>2, ProcessFacts
<1>4. PICK where \in {"saving", "settling", "filing"} :
         /\ Go(p, where, held[p])
         /\ where = "settling" => keyring' = held[p]
         /\ where = "filing" => keyring' = NoPair
         /\ where = "saving" => keyring' = keyring
         /\ locker' = p /\ blocked' = TRUE /\ locker \in {p, NoProcess}
  BY <1>2, <1>3 DEF BeginSave, KeyringSaved, KeyringFailed, ProcessOK, Locked
<1>5. where \in Places /\ where \in Bearing
  BY DEF Places, Bearing
<1>6. SInv' /\ UNCHANGED <<issued, origin, alarms, rpc>>
  BY <1>1, <1>3, ServerRests
<1>7. call' = [call EXCEPT ![p] = NoCall]
  BY <1>1, <1>2, NotWaiting
<1>8. pc'[p] = where /\ held'[p] = held[p]
  BY <1>4, <1>5 DEF Go, CInv, ClientTypeOK
<1>9. ProcessOK(p)'
  BY <1>3, <1>4, <1>8 DEF ProcessOK
<1>10. \A pair \in Pairs : ~Stores(pair)'
  BY <1>4 DEF Stores
<1>11. /\ keyring' \in issued \cup {NoPair} /\ file' \in issued \cup {NoPair}
       /\ blocked' \in BOOLEAN /\ locker' \in Processes \cup {NoProcess}
  BY <1>1, <1>3, <1>4
<1> QED BY <1>1, <1>2, <1>3, <1>4, <1>5, <1>6, <1>7, <1>9, <1>10, <1>11, LocalStep

\* The last write: what the profile holds from here on is the pair the process had.
LEMMA SaveEnds ==
  ASSUME CInv, NEW p \in Processes,
         KeyringStuck(p) \/ Settle(p) \/ FileSaved(p) \/ DeleteProfile(p)
  PROVE  CInv'
<1>1. UNCHANGED <<server, call, lapsed>> /\ Finish(p)
  BY DEF KeyringStuck, Settle, FileSaved, DeleteProfile
<1>2. pc[p] \in {"saving", "settling", "filing", "deleting"}
  BY DEF KeyringStuck, Settle, FileSaved, DeleteProfile
<1>3. /\ SInv /\ ProcessOK(p) /\ locker = p
      /\ keyring \in issued \cup {NoPair} /\ file \in issued \cup {NoPair}
      /\ blocked \in BOOLEAN
  BY <1>2, ProcessFacts DEF ProcessOK, Locked
<1>4. pc[p] # "deleting" => /\ pc[p] \in Bearing
                            /\ held[p] \in issued /\ held[p] \in Pairs
  BY <1>2, ProcessFacts DEF Bearing
<1>5. SInv' /\ UNCHANGED <<issued, origin, alarms, rpc>>
  BY <1>1, <1>3, ServerRests
<1>6. call' = [call EXCEPT ![p] = NoCall]
  BY <1>1, <1>2, NotWaiting
<1>7. CASE KeyringStuck(p)
  <2>1. /\ pc[p] = "saving" /\ blocked' = blocked /\ blocked /\ file' = file
        /\ keyring' \in {keyring, held[p], NoPair}
    BY <1>3, <1>7 DEF KeyringStuck, ProcessOK
  <2>2. \A pair \in Pairs : ~Stores(pair)'
    BY <2>1 DEF Stores
  <2> QED BY <1>1, <1>3, <1>4, <1>5, <1>6, <2>1, <2>2, FinishStep
<1>8. CASE Settle(p)
  <2>1. /\ pc[p] = "settling" /\ blocked' = FALSE /\ file' = NoPair
        /\ keyring' = held[p]
    BY <1>3, <1>8 DEF Settle, ProcessOK
  <2>2. \A pair \in Pairs : Stores(pair)' => held[p] = pair
    BY <2>1 DEF Stores, Loaded
  <2> QED BY <1>1, <1>3, <1>4, <1>5, <1>6, <2>1, <2>2, FinishStep
<1>9. CASE FileSaved(p)
  <2>1. /\ pc[p] = "filing" /\ blocked' = FALSE /\ file' = held[p]
        /\ keyring' = NoPair
    BY <1>3, <1>9 DEF FileSaved, ProcessOK
  <2>2. \A pair \in Pairs : Stores(pair)' => held[p] = pair
    BY <2>1 DEF Stores, Loaded
  <2> QED BY <1>1, <1>3, <1>4, <1>5, <1>6, <2>1, <2>2, FinishStep
<1>10. CASE DeleteProfile(p)
  <2>1. PICK fromKeyring, fromFile \in BOOLEAN :
          /\ keyring' = IF fromKeyring THEN NoPair ELSE keyring
          /\ file' = IF fromFile THEN NoPair ELSE file
          /\ blocked' = ~(fromKeyring /\ fromFile)
    BY <1>10 DEF DeleteProfile
  <2>2. \A pair \in Pairs : ~Stores(pair)'
    BY <2>1 DEF Stores, Loaded
  <2>3. /\ keyring' \in issued \cup {NoPair} /\ file' \in issued \cup {NoPair}
        /\ blocked' \in BOOLEAN
    BY <1>3, <2>1
  <2> QED BY <1>1, <1>3, <1>5, <1>6, <2>2, <2>3, FinishStep
<1> QED BY <1>7, <1>8, <1>9, <1>10

\* The answer to a request of this process: the pair in it passes into the process's hands.
LEMMA HearStep ==
  ASSUME CInv, NEW p \in Processes, Answered(p), Hear(p),
         UNCHANGED <<grant, ledger, stored, lapsed>>,
         NEW where \in Places, NEW what \in Things, Go(p, where, what),
         \/ locker' = locker
         \/ locker = p /\ locker' = NoProcess,
         ProcessOK(p)',
         where \in Bearing => AnswerOf(p) \in Pairs /\ what = AnswerOf(p)
  PROVE  CInv'
<1>1. UNCHANGED <<grant, origin, issued, access, refresh, user, dead, alarms,
                  keyring, file, blocked>>
  BY DEF ledger, stored
<1>2. PICK h \in Handlers : /\ h = call[p] /\ rpc[h].pc = "answered"
                            /\ rpc' = [rpc EXCEPT ![h] = NoRequest]
                            /\ call' = [call EXCEPT ![p] = NoCall]
  BY DEF Answered, Hear, CInv, ClientTypeOK
<1>3. SInv' /\ SInv
  BY <1>1, <1>2, HandlerFreed DEF CInv
<1>4. rpc'[h].pc = "free" /\ \A i \in Handlers \ {h} : rpc'[i] = rpc[i]
  BY <1>2, <1>3, NoRequestShape DEF SInv, OAuthTypeOK
<1>5. pc'[p] = where /\ held'[p] = what /\ call'[p] = NoCall
  BY <1>2 DEF Go, CInv, ClientTypeOK
<1>6. CallOK(p)'
  BY <1>5 DEF CallOK
<1>7. \A i \in Handlers, f \in Families :
         origin[f] \notin ForeignGrants /\ Renews(i, f)' =>
            Renews(i, f) /\ rpc'[i].arg = rpc[i].arg
  BY <1>4 DEF Renews, InFlight
<1>8. ASSUME NEW q \in Processes \ {p}, call[q] # NoCall PROVE rpc'[call[q]] = rpc[call[q]]
  <2>1. CallOK(q) /\ call[q] \in Handlers
    BY <1>8 DEF CInv, ClientTypeOK
  <2>2. call[q] # h
    BY <1>2, <1>8, <2>1 DEF CallOK
  <2> QED BY <1>4, <2>1, <2>2
<1>9. \A pair \in Pairs : Bears(p, pair)' => Bears(p, pair)
  BY <1>5 DEF Bears, Answered
<1>10. \A pair \in Pairs : Stores(pair)' => Stores(pair)
  BY <1>1 DEF Stores, Loaded
<1>11. /\ keyring' \in issued \cup {NoPair} /\ file' \in issued \cup {NoPair}
       /\ blocked' \in BOOLEAN /\ locker' \in Processes \cup {NoProcess}
  BY <1>1, ProcessFacts
<1>12. locker \in {p, NoProcess} \/ UNCHANGED <<keyring, blocked, locker>>
  BY <1>1
<1>13. UNCHANGED <<issued, origin, alarms, lapsed>> /\ NoCall \in Handlers \cup {NoCall}
  BY <1>1
<1> QED BY <1>2, <1>3, <1>6, <1>7, <1>8, <1>9, <1>10, <1>11, <1>12, <1>13, ProcessStep

\* The three answers a process waits for.
LEMMA HearsKeepCInv ==
  ASSUME CInv, NEW p \in Processes,
         HearExchange(p) \/ HearRefresh(p) \/ HearRevoke(p)
  PROVE  CInv'
<1>1. Answered(p) /\ Hear(p) /\ UNCHANGED <<grant, ledger, stored, lapsed>>
  BY DEF HearExchange, HearRefresh, HearRevoke
<1>2. UNCHANGED <<keyring, file, blocked>>
  BY <1>1 DEF stored
<1>3. /\ ProcessOK(p) /\ pc[p] \in Places /\ held[p] \in Things /\ Pairs \subseteq Things
      /\ NoPair \in Things /\ locker \in Processes \cup {NoProcess}
  BY ProcessFacts DEF Things
<1>4. /\ {"idle", "logged in", "saving", "deleting"} \subseteq Places
      /\ "idle" \notin Bearing /\ "deleting" \notin Bearing
  BY DEF Places, Bearing, Locked
<1>5. ASSUME NEW where \in Places, NEW what \in Things, Go(p, where, what)
      PROVE  pc'[p] = where /\ held'[p] = what
  BY <1>5 DEF Go, CInv, ClientTypeOK
<1>6. CASE Finish(p)
  <2>1. Go(p, "idle", NoPair) /\ (locker' = locker \/ (locker = p /\ locker' = NoProcess))
    BY <1>6 DEF Finish
  <2>2. ProcessOK(p)'
    BY <1>3, <1>4, <1>5, <2>1 DEF ProcessOK, Locked, Bearing
  <2> QED BY <1>1, <1>3, <1>4, <2>1, <2>2, HearStep
<1>7. CASE pc[p] = "login" /\ AnswerOf(p) \in Pairs /\ Go(p, "logged in", AnswerOf(p))
             /\ UNCHANGED locker
  <2>1. ProcessOK(p)'
    BY <1>3, <1>4, <1>5, <1>7 DEF ProcessOK, Locked, Bearing
  <2> QED BY <1>1, <1>3, <1>4, <1>7, <2>1, HearStep
<1>8. CASE pc[p] = "login" /\ UNCHANGED <<pc, held, locker>>
  <2>1. Go(p, "login", held[p]) /\ "login" \in Places /\ "login" \notin Bearing
    BY <1>8 DEF Go, CInv, ClientTypeOK, Places, Bearing
  <2>2. ProcessOK(p)'
    BY <1>2, <1>3, <1>8 DEF ProcessOK
  <2> QED BY <1>1, <1>3, <1>8, <2>1, <2>2, HearStep
<1>9. CASE pc[p] = "refreshing" /\ AnswerOf(p) \in Pairs /\ Go(p, "saving", AnswerOf(p))
             /\ UNCHANGED locker
  <2>1. ProcessOK(p)'
    BY <1>2, <1>3, <1>4, <1>5, <1>9 DEF ProcessOK, Locked, Bearing
  <2> QED BY <1>1, <1>3, <1>4, <1>9, <2>1, HearStep
<1>10. CASE pc[p] = "revoking" /\ Go(p, "deleting", NoPair) /\ UNCHANGED locker
  <2>1. ProcessOK(p)'
    BY <1>2, <1>3, <1>4, <1>5, <1>10 DEF ProcessOK, Locked, Bearing
  <2> QED BY <1>1, <1>3, <1>4, <1>10, <2>1, HearStep
<1>11. CASE HearExchange(p)
  <2>1. \/ AnswerOf(p) \in Pairs /\ Go(p, "logged in", AnswerOf(p)) /\ UNCHANGED locker
        \/ UNCHANGED <<pc, held, locker>>
        \/ Finish(p)
    BY <1>11 DEF HearExchange
  <2>2. pc[p] = "login"
    BY <1>11 DEF HearExchange
  <2> QED BY <1>6, <1>7, <1>8, <2>1, <2>2
<1>12. CASE HearRefresh(p)
  BY <1>6, <1>9, <1>12 DEF HearRefresh
<1>13. CASE HearRevoke(p)
  BY <1>10, <1>13 DEF HearRevoke
<1> QED BY <1>11, <1>12, <1>13

\* What a new request does to the handlers.
LEMMA RequestSent ==
  ASSUME SInv, NEW h \in FreeHandlers, NEW op, NEW arg,
         \/ op = "exchange" /\ arg \in Grants
         \/ op \in {"refresh", "revoke"} /\ arg \in issued,
         rpc' = [rpc EXCEPT ![h] = Request(op, arg)],
         UNCHANGED <<grant, origin, issued, access, refresh, user, dead, alarms>>
  PROVE  /\ SInv' /\ h \in Handlers /\ rpc[h].pc = "free"
         /\ rpc'[h].pc = "received" /\ rpc'[h].op = op /\ rpc'[h].arg = arg
         /\ \A i \in Handlers \ {h} : rpc'[i] = rpc[i]
<1>1. h \in Handlers /\ rpc[h].pc = "free"
  BY DEF FreeHandlers
<1>2. op \in {"exchange", "refresh", "revoke"} /\ arg \in Grants \cup Pairs
  BY DEF SInv, OAuthTypeOK
<1>3. /\ Request(op, arg).pc = "received"
      /\ Request(op, arg).op = op /\ Request(op, arg).arg = arg
  BY <1>2, RequestShape
<1>4. SInv'
  BY <1>1, RequestArrives
<1>5. rpc'[h] = Request(op, arg) /\ \A i \in Handlers \ {h} : rpc'[i] = rpc[i]
  BY <1>1 DEF SInv, OAuthTypeOK
<1> QED BY <1>1, <1>3, <1>4, <1>5

\* A process sends a request that renews nothing.
LEMMA SendStep ==
  ASSUME CInv, NEW p \in Processes, call[p] = NoCall,
         NEW op, NEW arg, Send(p, op, arg),
         \/ op = "exchange" /\ arg \in Grants \ ForeignGrants
         \/ op = "revoke" /\ arg \in issued,
         UNCHANGED <<grant, ledger, stored, lapsed>>,
         NEW where \in {"login", "revoking"}, NEW what \in Things, Go(p, where, what),
         \/ locker' = locker
         \/ locker = NoProcess /\ locker' = p,
         ProcessOK(p)'
  PROVE  CInv'
<1>1. UNCHANGED <<grant, origin, issued, access, refresh, user, dead, alarms,
                  keyring, file, blocked>>
  BY DEF ledger, stored
<1>2. PICK h \in FreeHandlers : /\ rpc' = [rpc EXCEPT ![h] = Request(op, arg)]
                                /\ call' = [call EXCEPT ![p] = h]
  BY DEF Send
<1>3. /\ SInv' /\ h \in Handlers /\ rpc[h].pc = "free"
      /\ rpc'[h].pc = "received" /\ rpc'[h].op = op /\ rpc'[h].arg = arg
      /\ \A i \in Handlers \ {h} : rpc'[i] = rpc[i]
  BY <1>1, <1>2, RequestSent DEF CInv
<1>4. /\ pc'[p] = where /\ held'[p] = what /\ call'[p] = h
      /\ \A q \in Processes \ {p} : call'[q] = call[q]
  BY <1>2 DEF Go, CInv, ClientTypeOK
<1>5. h # NoCall
  BY <1>3, CliAssumption
<1>6. ASSUME NEW q \in Processes \ {p}, call[q] # NoCall
      PROVE  call[q] \in Handlers /\ call[q] # h
  <2>1. CallOK(q) /\ call[q] \in Handlers
    BY <1>6 DEF CInv, ClientTypeOK
  <2> QED BY <1>3, <1>6, <2>1 DEF CallOK
<1>7. CallOK(p)'
  <2>1. \A q \in Processes : call'[q] = call'[p] => q = p
    BY <1>4, <1>5, <1>6
  <2> QED BY <1>3, <1>4, <2>1 DEF CallOK
<1>8. \A i \in Handlers, f \in Families :
         origin[f] \notin ForeignGrants /\ Renews(i, f)' =>
            Renews(i, f) /\ rpc'[i].arg = rpc[i].arg
  BY <1>3 DEF Renews, InFlight
<1>9. \A q \in Processes \ {p} : call[q] # NoCall => rpc'[call[q]] = rpc[call[q]]
  BY <1>3, <1>6
<1>10. \A pair \in Pairs : ~Bears(p, pair)'
  BY <1>3, <1>4 DEF Bears, Answered, Bearing
<1>11. \A pair \in Pairs : Stores(pair)' => Stores(pair)
  BY <1>1 DEF Stores, Loaded
<1>12. /\ keyring' \in issued \cup {NoPair} /\ file' \in issued \cup {NoPair}
       /\ blocked' \in BOOLEAN /\ locker' \in Processes \cup {NoProcess}
  BY <1>1, ProcessFacts
<1>13. /\ locker \in {p, NoProcess} \/ UNCHANGED <<keyring, blocked, locker>>
       /\ where \in Places /\ h \in Handlers \cup {NoCall}
  BY <1>1, <1>3 DEF Places, Locked
<1>14. UNCHANGED <<issued, origin, alarms, lapsed>>
  BY <1>1
<1> QED BY <1>2, <1>3, <1>7, <1>8, <1>9, <1>10, <1>11, <1>12, <1>13, <1>14, ProcessStep

\* An exchange, and a revocation.
LEMMA SendsKeepCInv ==
  ASSUME CInv, NEW p \in Processes, SendExchange(p) \/ Logout(p)
  PROVE  CInv'
<1>1. /\ ProcessOK(p) /\ CallOK(p) /\ held[p] \in Things
      /\ keyring \in issued \cup {NoPair} /\ file \in issued \cup {NoPair}
      /\ issued \subseteq Pairs
  BY ProcessFacts
<1>2. CASE SendExchange(p)
  <2>1. /\ pc[p] = "login" /\ call[p] = NoCall /\ Send(p, "exchange", held[p])
        /\ UNCHANGED <<grant, ledger, pc, held, stored, locker, lapsed>>
    BY <1>2 DEF SendExchange
  <2>2. Go(p, "login", held[p])
    BY <2>1 DEF Go, CInv, ClientTypeOK
  <2>3. held[p] \in Grants \ ForeignGrants
    BY <1>1, <2>1 DEF ProcessOK
  <2>4. ProcessOK(p)'
    BY <1>1, <2>1 DEF ProcessOK, stored
  <2> QED BY <1>1, <2>1, <2>2, <2>3, <2>4, SendStep
<1>3. CASE Logout(p)
  <2>1. /\ pc[p] = "idle" /\ locker = NoProcess /\ locker' = p /\ Loaded # NoPair
        /\ Send(p, "revoke", Loaded) /\ Go(p, "revoking", Loaded)
        /\ UNCHANGED <<grant, ledger, stored, lapsed>>
    BY <1>3 DEF Logout
  <2>2. Loaded \in issued /\ Loaded \in Things
    BY <1>1, <2>1 DEF Loaded, Things
  <2>3. call[p] = NoCall
    BY <1>1, <2>1 DEF CallOK
  <2>4. pc'[p] = "revoking"
    BY <2>1 DEF Go, CInv, ClientTypeOK
  <2>5. ProcessOK(p)'
    BY <2>1, <2>4 DEF ProcessOK, Bearing
  <2> QED BY <2>1, <2>2, <2>3, <2>5, SendStep
<1> QED BY <1>2, <1>3

\* A renewal: the marker takes the pair out of the profile before the request is sent.
LEMMA BeginRefreshKeepsCInv ==
  ASSUME CInv, NEW p \in Processes, BeginRefresh(p)
  PROVE  CInv'
<1>1. /\ pc[p] = "expired" /\ locker = NoProcess /\ ~blocked /\ Loaded \in lapsed
      /\ locker' = p /\ blocked' = TRUE
      /\ UNCHANGED <<grant, ledger, keyring, file, lapsed>>
  BY DEF BeginRefresh
<1>2. PICK pair \in Pairs, f \in Families :
         /\ pair = Loaded /\ f = pair[1] /\ pair \in issued /\ Stores(pair)
  <2>1. Loaded \in issued /\ Loaded \in Pairs
    BY <1>1 DEF CInv, ClientTypeOK, SInv, OAuthTypeOK
  <2>2. Loaded[1] \in Families /\ Loaded # NoPair
    BY <2>1, PairParts, NoPairs
  <2> QED BY <1>1, <2>1, <2>2 DEF Stores
<1>3. /\ Unspent(pair)
      /\ \A q \in Processes, other \in Pairs : Bears(q, other) => other[1] # f
  BY <1>2 DEF CInv, StoreOK, BearerOK
<1>4. Send(p, "refresh", pair) /\ Go(p, "refreshing", pair)
  BY <1>2 DEF BeginRefresh
<1>5. UNCHANGED <<grant, origin, issued, access, refresh, user, dead, alarms>>
  BY <1>1 DEF ledger
<1>6. PICK h \in FreeHandlers : /\ rpc' = [rpc EXCEPT ![h] = Request("refresh", pair)]
                                /\ call' = [call EXCEPT ![p] = h]
  BY <1>4 DEF Send
<1>7. /\ SInv' /\ h \in Handlers /\ rpc[h].pc = "free"
      /\ rpc'[h].pc = "received" /\ rpc'[h].op = "refresh" /\ rpc'[h].arg = pair
      /\ \A i \in Handlers \ {h} : rpc'[i] = rpc[i]
  BY <1>2, <1>5, <1>6, RequestSent DEF CInv
<1>8. /\ pc' \in [Processes -> Places] /\ held' \in [Processes -> Things]
      /\ call' \in [Processes -> Handlers \cup {NoCall}]
      /\ pc'[p] = "refreshing" /\ held'[p] = pair /\ call'[p] = h
      /\ \A q \in Processes \ {p} : /\ pc'[q] = pc[q] /\ held'[q] = held[q]
                                    /\ call'[q] = call[q]
  <2>1. "refreshing" \in Places /\ pair \in Things
    BY DEF Places, Locked, Things
  <2> QED BY <1>4, <1>6, <1>7, <2>1 DEF Go, CInv, ClientTypeOK
<1>9. h # NoCall
  BY <1>7, CliAssumption
<1>10. ASSUME NEW q \in Processes \ {p}, call[q] # NoCall
       PROVE  call[q] \in Handlers /\ call[q] # h /\ rpc'[call[q]] = rpc[call[q]]
  <2>1. CallOK(q) /\ call[q] \in Handlers
    BY <1>10 DEF CInv, ClientTypeOK
  <2> QED BY <1>7, <1>10, <2>1 DEF CallOK
<1>11. ASSUME NEW e PROVE PairsOf(e)' = PairsOf(e) /\ Latest(e)' = Latest(e)
  <2>1. PairsOf(e)' = PairsOf(e)
    BY <1>5 DEF PairsOf
  <2> QED BY <2>1 DEF Latest
<1>12. ASSUME NEW i \in Handlers, NEW e \in Families, Renews(i, e)'
       PROVE  \/ i = h /\ e = f
              \/ i # h /\ Renews(i, e) /\ rpc'[i].arg = rpc[i].arg
  BY <1>2, <1>7, <1>12 DEF Renews, InFlight
<1>13. ClientTypeOK'
  BY <1>1, <1>5, <1>8 DEF CInv, ClientTypeOK
<1>14. ASSUME NEW q \in Processes PROVE ProcessOK(q)'
  <2>1. CASE q = p
    BY <1>1, <1>8, <2>1 DEF ProcessOK, Bearing
  <2>2. CASE q # p
    <3>1. ProcessOK(q) /\ pc'[q] = pc[q] /\ held'[q] = held[q]
      BY <1>8, <2>2 DEF CInv
    <3>2. pc[q] \notin Locked
      BY <1>1, <3>1, CliAssumption DEF ProcessOK
    <3> QED BY <3>1, <3>2 DEF ProcessOK, Locked
  <2> QED BY <2>1, <2>2
<1>15. ASSUME NEW q \in Processes PROVE CallOK(q)'
  <2>1. CASE q = p
    <3>1. \A r \in Processes : call'[r] = call'[p] => r = p
      BY <1>8, <1>9, <1>10
    <3>2. origin'[rpc'[h].arg[1]] \notin ForeignGrants
      BY <1>2, <1>3, <1>5, <1>7 DEF Unspent
    <3> QED BY <1>7, <1>8, <2>1, <3>1, <3>2 DEF CallOK
  <2>2. CASE q # p
    <3>1. CallOK(q) /\ pc'[q] = pc[q] /\ call'[q] = call[q]
      BY <1>8, <2>2 DEF CInv
    <3>2. call[q] # NoCall => rpc'[call[q]] = rpc[call[q]] /\ call[q] # h
      BY <1>10, <2>2
    <3>3. ASSUME NEW r \in Processes, call'[q] # NoCall, call'[r] = call'[q] PROVE r = q
      <4>1. r # p
        BY <1>8, <3>1, <3>2, <3>3
      <4> QED BY <1>8, <3>1, <3>3, <4>1 DEF CallOK
    <3> QED BY <1>5, <3>1, <3>2, <3>3 DEF CallOK, InFlight
  <2> QED BY <2>1, <2>2
<1>16. ASSUME NEW i \in Handlers PROVE RenewalOK(i)'
  <2> SUFFICES ASSUME NEW e \in Families, Renews(i, e)', origin[e] \notin ForeignGrants
               PROVE  /\ rpc'[i].arg = Latest(e)'
                      /\ \A j \in Handlers : Renews(j, e)' => j = i
    BY <1>5 DEF RenewalOK
  <2>1. CASE e = f
    <3>1. \A j \in Handlers : ~Renews(j, f)
      BY <1>2, <1>3 DEF Unspent
    <3>2. \A j \in Handlers : Renews(j, f)' => j = h
      BY <1>12, <3>1
    <3>3. Latest(f)' = pair
      BY <1>2, <1>3, <1>11 DEF Unspent
    <3> QED BY <1>7, <2>1, <3>2, <3>3
  <2>2. CASE e # f
    <3>1. Renews(i, e) /\ rpc'[i].arg = rpc[i].arg
      BY <1>12, <2>2
    <3>2. RenewalOK(i)
      BY DEF CInv
    <3>3. rpc[i].arg = Latest(e) /\ \A j \in Handlers : Renews(j, e) => j = i
      BY <3>1, <3>2 DEF RenewalOK
    <3>4. \A j \in Handlers : Renews(j, e)' => Renews(j, e)
      BY <1>12, <2>2
    <3> QED BY <1>11, <3>1, <3>3, <3>4
  <2> QED BY <2>1, <2>2
<1>17. ASSUME NEW q \in Processes, NEW other \in Pairs, Bears(q, other)'
       PROVE  Bears(q, other)
  <2>1. q # p
    BY <1>7, <1>8, <1>17 DEF Bears, Answered, Bearing
  <2> QED BY <1>8, <1>10, <1>17, <2>1 DEF Bears, Answered, AnswerOf
<1>18. \A other \in Pairs : ~Stores(other)'
  BY <1>1 DEF Stores
<1>19. ASSUME NEW q \in Processes PROVE BearerOK(q)'
  <2> SUFFICES ASSUME NEW other \in Pairs, Bears(q, other)'
               PROVE  /\ Unspent(other)'
                      /\ \A r \in Processes, third \in Pairs :
                            Bears(r, third)' /\ third[1] = other[1] => r = q
    BY <1>18 DEF BearerOK
  <2>1. Bears(q, other) /\ BearerOK(q)
    BY <1>17 DEF CInv
  <2>2. /\ Unspent(other) /\ other[1] # f
        /\ \A r \in Processes, third \in Pairs :
              Bears(r, third) /\ third[1] = other[1] => r = q
    BY <1>3, <2>1 DEF BearerOK
  <2>3. /\ other \in issued /\ origin[other[1]] \notin ForeignGrants
        /\ other = Latest(other[1]) /\ \A i \in Handlers : ~Renews(i, other[1])
    BY <2>2 DEF Unspent
  <2>4. other[1] \in Families
    BY PairParts
  <2>5. \A i \in Handlers : ~Renews(i, other[1])'
    BY <1>12, <2>2, <2>3, <2>4
  <2>6. Latest(other[1])' = Latest(other[1])
    BY <1>11
  <2>7. Unspent(other)'
    BY <1>5, <2>3, <2>5, <2>6 DEF Unspent
  <2> QED BY <1>17, <2>2, <2>7
<1>20. StoreOK'
  BY <1>18 DEF StoreOK
<1>21. NeverReplays'
  BY <1>5 DEF CInv, NeverReplays, ForeignFamilies
<1> QED BY <1>7, <1>13, <1>14, <1>15, <1>16, <1>19, <1>20, <1>21 DEF CInv

-----------------------------------------------------------------------------
(* The server's steps, seen by the client *)

\* A handler that goes on, or answers without a pair.
LEMMA HandlerStep ==
  ASSUME CInv, SInv', NeverReplays', UNCHANGED <<issued, origin, client>>,
         NEW h \in Handlers, InFlight(h),
         rpc'[h].op = rpc[h].op, rpc'[h].arg = rpc[h].arg,
         \/ rpc'[h].pc = "locked"
         \/ rpc'[h].pc = "answered" /\ rpc'[h].answer \notin Pairs,
         \A i \in Handlers \ {h} : rpc'[i] = rpc[i]
  PROVE  CInv'
<1>1. UNCHANGED <<pc, call, held, keyring, file, blocked, locker>> /\ lapsed' \subseteq issued
  BY DEF client, CInv, ClientTypeOK
<1>2. \A i \in Handlers, f \in Families :
         origin[f] \notin ForeignGrants /\ Renews(i, f)' =>
            Renews(i, f) /\ rpc'[i].arg = rpc[i].arg
  BY DEF Renews, InFlight
<1>3. ASSUME NEW p \in Processes, call[p] # NoCall
      PROVE  /\ rpc'[call[p]].pc # "free"
             /\ rpc'[call[p]].pc \in {"received", "locked"} =>
                   /\ InFlight(call[p])
                   /\ rpc'[call[p]].op = rpc[call[p]].op
                   /\ rpc'[call[p]].arg = rpc[call[p]].arg
             /\ rpc'[call[p]].pc = "answered" /\ rpc'[call[p]].answer \in Pairs =>
                   /\ rpc[call[p]].pc = "answered"
                   /\ rpc[call[p]].answer = rpc'[call[p]].answer
  <2>1. CallOK(p) /\ call[p] \in Handlers
    BY <1>3 DEF CInv, ClientTypeOK
  <2>2. CASE call[p] = h
    BY <2>2
  <2>3. CASE call[p] # h
    <3>1. rpc'[call[p]] = rpc[call[p]]
      BY <2>1, <2>3
    <3> QED BY <1>3, <2>1, <3>1 DEF CallOK, InFlight
  <2> QED BY <2>2, <2>3
<1> QED BY <1>1, <1>2, <1>3, QuietForClient

\* A handler that issues a pair gives it to the process that waits for it, or to nobody: no
\* process and no profile has a pair of that family, and no other renewal of it is in flight.
LEMMA IssueStep ==
  ASSUME CInv, SInv', UNCHANGED <<client, alarms>>,
         NEW h \in Handlers, InFlight(h), NEW f \in Families, NEW pair \in Pairs, pair[1] = f,
         issued' = issued \cup {pair}, Latest(f)' = pair,
         rpc'[h].pc = "answered", rpc'[h].answer = pair,
         \A i \in Handlers \ {h} : rpc'[i] = rpc[i],
         \A e \in Families \ {f} : origin'[e] = origin[e],
         origin'[f] = origin[f] \/ origin[f] = NoGrant,
         \A q \in Processes, other \in Pairs : Bears(q, other) => other[1] # f,
         \A other \in Pairs : Stores(other) => other[1] # f,
         origin'[f] \notin ForeignGrants => \A i \in Handlers \ {h} : ~Renews(i, f),
         \A p \in Processes : call[p] = h => origin'[f] \notin ForeignGrants
  PROVE  CInv'
<1>1. UNCHANGED <<pc, call, held, keyring, file, blocked, locker, lapsed>>
  BY DEF client
<1>2. \A e \in Families \ {f} : PairsOf(e)' = PairsOf(e) /\ Latest(e)' = Latest(e)
  BY PairsKept
<1>3. \A i \in Handlers, e \in Families :
         Renews(i, e)' => i # h /\ Renews(i, e) /\ rpc'[i].arg = rpc[i].arg
  BY DEF Renews, InFlight
<1>4. ASSUME NEW other \in Pairs, Unspent(other), other[1] # f PROVE Unspent(other)'
  <2>1. /\ other \in issued /\ origin[other[1]] \notin ForeignGrants
        /\ other = Latest(other[1]) /\ \A i \in Handlers : ~Renews(i, other[1])
        /\ other[1] \in Families
    BY <1>4, PairParts DEF Unspent
  <2>2. Latest(other[1])' = Latest(other[1]) /\ origin'[other[1]] = origin[other[1]]
    BY <1>2, <1>4, <2>1
  <2>3. \A i \in Handlers : ~Renews(i, other[1])'
    BY <1>3, <2>1
  <2> QED BY <2>1, <2>2, <2>3 DEF Unspent
<1>5. ASSUME NEW q \in Processes, NEW other \in Pairs, Bears(q, other)'
      PROVE  Bears(q, other) \/ (call[q] = h /\ other = pair)
  <2>1. CASE call[q] \in Handlers \ {h} \/ call[q] = NoCall
    BY <1>1, <1>5, <2>1 DEF Bears, Answered, AnswerOf
  <2>2. CASE call[q] = h
    BY <1>1, <1>5, <2>2 DEF Bears, Answered, AnswerOf
  <2>3. call[q] \in Handlers \cup {NoCall}
    BY DEF CInv, ClientTypeOK
  <2> QED BY <2>1, <2>2, <2>3
<1>6. \A other \in Pairs : Stores(other)' <=> Stores(other)
  BY <1>1 DEF Stores, Loaded
<1>7. ClientTypeOK'
  BY <1>1 DEF CInv, ClientTypeOK
<1>8. ASSUME NEW p \in Processes PROVE ProcessOK(p)'
  <2>1. ProcessOK(p)
    BY DEF CInv
  <2> QED BY <1>1, <2>1 DEF ProcessOK
<1>9. ASSUME NEW p \in Processes PROVE CallOK(p)'
  <2> SUFFICES ASSUME call[p] # NoCall PROVE CallOK(p)'
    BY <1>1 DEF CallOK
  <2>1. CallOK(p) /\ call[p] \in Handlers
    BY DEF CInv, ClientTypeOK
  <2>2. CASE call[p] = h
    BY <1>1, <2>1, <2>2 DEF CallOK, InFlight
  <2>3. CASE call[p] # h
    <3>1. rpc'[call[p]] = rpc[call[p]]
      BY <2>1, <2>3
    <3>2. ASSUME InFlight(call[p]), rpc[call[p]].op = "refresh"
          PROVE  origin'[rpc[call[p]].arg[1]] \notin ForeignGrants
      <4> DEFINE e == rpc[call[p]].arg[1]
      <4>1. rpc[call[p]].arg \in issued /\ RequestOK(call[p])
        BY <2>1, <3>2 DEF CInv, SInv, RequestOK
      <4>2. e \in Families /\ PairsOf(e) # {} /\ FamilyOK(e)
        <5>1. rpc[call[p]].arg \in Pairs
          BY <4>1 DEF CInv, SInv, OAuthTypeOK
        <5>2. e \in Families
          BY <5>1, PairParts
        <5> QED BY <4>1, <5>2 DEF PairsOf, CInv, SInv
      <4>3. origin[e] # NoGrant
        BY <4>2 DEF FamilyOK
      <4>4. origin'[e] = origin[e]
        BY <4>2, <4>3
      <4> QED BY <2>1, <3>2, <4>4 DEF CallOK
    <3> QED BY <1>1, <2>1, <3>1, <3>2 DEF CallOK, InFlight
  <2> QED BY <2>2, <2>3
<1>10. ASSUME NEW i \in Handlers PROVE RenewalOK(i)'
  <2> SUFFICES ASSUME NEW e \in Families, Renews(i, e)', origin'[e] \notin ForeignGrants
               PROVE  /\ rpc'[i].arg = Latest(e)'
                      /\ \A j \in Handlers : Renews(j, e)' => j = i
    BY DEF RenewalOK
  <2>1. i # h /\ Renews(i, e) /\ rpc'[i].arg = rpc[i].arg
    BY <1>3
  <2>2. e # f
    BY <2>1
  <2>3. RenewalOK(i) /\ origin[e] \notin ForeignGrants
    BY <2>2 DEF CInv
  <2>4. rpc[i].arg = Latest(e) /\ \A j \in Handlers : Renews(j, e) => j = i
    BY <2>1, <2>3 DEF RenewalOK
  <2> QED BY <1>2, <1>3, <2>1, <2>2, <2>4
<1>11. ASSUME NEW q \in Processes PROVE BearerOK(q)'
  <2> SUFFICES ASSUME NEW other \in Pairs, Bears(q, other)'
               PROVE  /\ Unspent(other)'
                      /\ \A r \in Processes, third \in Pairs :
                            Bears(r, third)' /\ third[1] = other[1] => r = q
                      /\ \A third \in Pairs : Stores(third)' => third[1] # other[1]
    BY DEF BearerOK
  <2>1. CASE Bears(q, other)
    <3>1. /\ Unspent(other) /\ other[1] # f
          /\ \A r \in Processes, third \in Pairs :
                Bears(r, third) /\ third[1] = other[1] => r = q
          /\ \A third \in Pairs : Stores(third) => third[1] # other[1]
      BY <2>1 DEF CInv, BearerOK
    <3> QED BY <1>4, <1>5, <1>6, <3>1
  <2>2. CASE call[q] = h /\ other = pair
    <3>1. \A i \in Handlers : ~Renews(i, f)'
      BY <1>3, <2>2
    <3>2. Unspent(other)'
      BY <2>2, <3>1 DEF Unspent
    <3>3. ASSUME NEW r \in Processes, NEW third \in Pairs, Bears(r, third)', third[1] = f
          PROVE  r = q
      <4>1. call[r] = h
        BY <1>5, <3>3
      <4>2. h # NoCall
        BY CliAssumption
      <4> QED BY <2>2, <4>1, <4>2 DEF CInv, CallOK
    <3> QED BY <1>6, <2>2, <3>2, <3>3
  <2> QED BY <1>5, <2>1, <2>2
<1>12. StoreOK'
  <2>1. ASSUME NEW other \in Pairs, Stores(other) PROVE Unspent(other)'
    BY <1>4, <2>1 DEF CInv, StoreOK
  <2> QED BY <1>6, <2>1 DEF StoreOK
<1>13. NeverReplays'
  <2>1. ASSUME NEW e \in alarms PROVE e \in Families /\ origin'[e] \in ForeignGrants
    <3>1. e \in Families /\ origin[e] \in ForeignGrants
      BY DEF CInv, NeverReplays, ForeignFamilies
    <3>2. origin[e] # NoGrant
      BY <3>1, OAuthAssumption, CliAssumption DEF Grants
    <3> QED BY <3>1, <3>2
  <2> QED BY <2>1 DEF NeverReplays, ForeignFamilies
<1> QED BY <1>7, <1>8, <1>9, <1>10, <1>11, <1>12, <1>13 DEF CInv

\* What NeverReplays says depends on the alarms and the origins alone.
LEMMA AlarmsKept ==
  ASSUME NeverReplays, UNCHANGED <<alarms, origin>>
  PROVE  NeverReplays'
BY DEF NeverReplays, ForeignFamilies

\* An approved grant is exchanged.
LEMMA ExchangeKeepsCInv ==
  ASSUME CInv, NEW h \in Handlers, Exchange(h), UNCHANGED client
  PROVE  CInv'
<1>1. SInv /\ SInv' /\ OAuthTypeOK
  BY ExchangeKeepsSInv DEF CInv, SInv
<1>2. PICK f \in Families :
         /\ origin[f] = NoGrant
         /\ origin' = IF user = "active" THEN [origin EXCEPT ![f] = rpc[h].arg] ELSE origin
         /\ IssuePair(h, f)
  BY DEF Exchange
<1>3. rpc[h].op = "exchange" /\ rpc[h].pc = "locked" /\ UNCHANGED alarms /\ InFlight(h)
  BY DEF Exchange, InFlight
<1>4. PairsOf(f) = {} /\ Cardinality(PairsOf(f)) = 0
  BY <1>1, <1>2, FS_EmptySet DEF SInv, FamilyOK
<1>5. CASE user = "active"
  <2>1. issued' = issued \cup {<<f, 1>>} /\ Answer(h, <<f, 1>>)
    BY <1>2, <1>4, <1>5 DEF IssuePair
  <2>2. <<f, 1>> \in Pairs /\ <<f, 1>>[1] = f
    BY OAuthAssumption DEF Pairs
  <2>3. PICK r \in Calls : /\ r.pc = "answered" /\ r.answer = <<f, 1>>
                           /\ rpc' = [rpc EXCEPT ![h] = r]
    BY <1>1, <2>1, <2>2, AnswerShape
  <2>4. rpc'[h] = r /\ \A i \in Handlers \ {h} : rpc'[i] = rpc[i]
    BY <1>1, <2>3 DEF OAuthTypeOK
  <2>5. Latest(f)' = <<f, 1>>
    <3>1. PairsOf(f) = {f} \X (1..0)
      BY <1>4
    <3>2. issued' = issued \cup {<<f, 0 + 1>>}
      BY <2>1
    <3>3. Latest(f)' = <<f, 0 + 1>>
      BY <1>1, <3>1, <3>2, IssuedNext
    <3> QED BY <3>3
  <2>6. /\ origin'[f] = rpc[h].arg
        /\ \A e \in Families \ {f} : origin'[e] = origin[e]
    BY <1>1, <1>2, <1>5 DEF OAuthTypeOK
  <2>7. ASSUME NEW pair \in issued PROVE pair[1] # f
    BY <1>4 DEF PairsOf
  <2>8. /\ \A q \in Processes, other \in Pairs : Bears(q, other) => other[1] # f
        /\ \A other \in Pairs : Stores(other) => other[1] # f
    BY <2>7 DEF CInv, BearerOK, StoreOK, Unspent
  <2>9. \A i \in Handlers : ~Renews(i, f)
    BY <1>1, <2>7 DEF SInv, RequestOK, Renews
  <2>10. ASSUME NEW p \in Processes, call[p] = h PROVE origin'[f] \notin ForeignGrants
    <3>1. CallOK(p) /\ call[p] # NoCall
      BY <2>10, CliAssumption DEF CInv
    <3> QED BY <1>3, <2>6, <2>10, <3>1 DEF CallOK
  <2> QED BY <1>1, <1>2, <1>3, <2>1, <2>2, <2>3, <2>4, <2>5, <2>6, <2>8, <2>9, <2>10, IssueStep
<1>6. CASE user # "active"
  <2>1. Answer(h, Refused) /\ UNCHANGED <<issued, origin>>
    BY <1>2, <1>6 DEF IssuePair
  <2>2. PICK r \in Calls : /\ r.pc = "answered" /\ r.answer = Refused
                           /\ r.op = rpc[h].op /\ r.arg = rpc[h].arg
                           /\ rpc' = [rpc EXCEPT ![h] = r]
    BY <1>1, <2>1, AnswerShape
  <2>3. rpc'[h] = r /\ \A i \in Handlers \ {h} : rpc'[i] = rpc[i]
    BY <1>1, <2>2 DEF OAuthTypeOK
  <2>4. NeverReplays'
    BY <1>3, <2>1, AlarmsKept DEF CInv
  <2> QED BY <1>1, <1>3, <2>1, <2>2, <2>3, <2>4, NoPairs, HandlerStep
<1> QED BY <1>5, <1>6

\* A token in force is rotated.
LEMMA RotateKeepsCInv ==
  ASSUME CInv, NEW h \in Handlers, Rotate(h), UNCHANGED client
  PROVE  CInv'
<1>1. SInv /\ SInv' /\ OAuthTypeOK
  BY RotateKeepsSInv DEF CInv, SInv
<1>2. PICK f \in Families : f = rpc[h].arg[1] /\ FamilyOK(f)
  BY <1>1, FamilyHeld DEF Rotate
<1>3. /\ rpc[h].op = "refresh" /\ InFlight(h) /\ Renews(h, f) /\ UNCHANGED <<alarms, origin>>
      /\ <<f, Cardinality(PairsOf(f)) + 1>> \in Pairs /\ IssuePair(h, f)
  BY <1>2 DEF Rotate, InFlight, Renews
<1>4. CASE user = "active"
  <2>1. PICK n \in 0..MaxPairs : PairsOf(f) = {f} \X (1..n) /\ Cardinality(PairsOf(f)) = n
    BY <1>2, Newest
  <2>2. n \in Nat
    BY <2>1, OAuthAssumption
  <2>3. PICK pair \in Pairs : pair = <<f, n + 1>> /\ pair[1] = f
    BY <1>3, <2>1
  <2>4. issued' = issued \cup {pair} /\ Answer(h, pair)
    BY <1>3, <1>4, <2>1, <2>3 DEF IssuePair
  <2>5. PICK r \in Calls : /\ r.pc = "answered" /\ r.answer = pair
                           /\ rpc' = [rpc EXCEPT ![h] = r]
    BY <1>1, <2>4, AnswerShape
  <2>6. rpc'[h] = r /\ \A i \in Handlers \ {h} : rpc'[i] = rpc[i]
    BY <1>1, <2>5 DEF OAuthTypeOK
  <2>7. Latest(f)' = pair
    BY <1>1, <2>1, <2>2, <2>3, <2>4, IssuedNext
  <2>8. ASSUME NEW other \in Pairs, Unspent(other) PROVE other[1] # f
    BY <1>3, <2>8 DEF Unspent
  <2>9. /\ \A q \in Processes, other \in Pairs : Bears(q, other) => other[1] # f
        /\ \A other \in Pairs : Stores(other) => other[1] # f
    BY <2>8 DEF CInv, BearerOK, StoreOK
  <2>10. origin[f] \notin ForeignGrants => \A i \in Handlers \ {h} : ~Renews(i, f)
    BY <1>3 DEF CInv, RenewalOK
  <2>11. ASSUME NEW p \in Processes, call[p] = h PROVE origin[f] \notin ForeignGrants
    <3>1. CallOK(p) /\ call[p] # NoCall
      BY <2>11, CliAssumption DEF CInv
    <3> QED BY <1>2, <1>3, <2>11, <3>1 DEF CallOK
  <2> QED BY <1>1, <1>3, <2>3, <2>4, <2>5, <2>6, <2>7, <2>9, <2>10, <2>11, IssueStep
<1>5. CASE user # "active"
  <2>1. Answer(h, Refused) /\ UNCHANGED issued
    BY <1>3, <1>5 DEF IssuePair
  <2>2. PICK r \in Calls : /\ r.pc = "answered" /\ r.answer = Refused
                           /\ r.op = rpc[h].op /\ r.arg = rpc[h].arg
                           /\ rpc' = [rpc EXCEPT ![h] = r]
    BY <1>1, <2>1, AnswerShape
  <2>3. rpc'[h] = r /\ \A i \in Handlers \ {h} : rpc'[i] = rpc[i]
    BY <1>1, <2>2 DEF OAuthTypeOK
  <2>4. NeverReplays'
    BY <1>3, AlarmsKept DEF CInv
  <2> QED BY <1>1, <1>3, <2>1, <2>2, <2>3, <2>4, NoPairs, HandlerStep
<1> QED BY <1>4, <1>5

\* A revoked token comes back: it is not one of this client's, or it is the newest one still.
LEMMA DetectReuseIsForeign ==
  ASSUME CInv, NEW h \in Handlers, DetectReuse(h)
  PROVE  NeverReplays' /\ UNCHANGED <<issued, origin>>
<1>1. /\ rpc[h].op = "refresh" /\ rpc[h].pc = "locked" /\ UNCHANGED <<grant, origin, issued, user>>
      /\ alarms' = IF rpc[h].arg # Latest(rpc[h].arg[1])
                     THEN alarms \cup {rpc[h].arg[1]} ELSE alarms
  BY DEF DetectReuse
<1>2. PICK f \in Families : f = rpc[h].arg[1]
  BY <1>1, FamilyHeld DEF CInv
<1>3. Renews(h, f) /\ RenewalOK(h)
  BY <1>1, <1>2 DEF Renews, InFlight, CInv
<1>4. origin[f] \notin ForeignGrants => alarms' = alarms
  BY <1>1, <1>2, <1>3 DEF RenewalOK
<1>5. alarms' \subseteq alarms \cup {f}
  BY <1>1, <1>2
<1> QED BY <1>1, <1>4, <1>5 DEF CInv, NeverReplays, ForeignFamilies

\* Every step of the server, while the processes of the client rest.
LEMMA ServerKeepsCInv ==
  ASSUME CInv, Server, UNCHANGED client
  PROVE  CInv'
<1>1. SInv /\ SInv' /\ OAuthTypeOK
  BY ServerKeepsSInv DEF CInv, SInv
<1>2. ASSUME rpc' = rpc, UNCHANGED <<issued, origin, alarms>> PROVE CInv'
  <2>1. NeverReplays'
    BY <1>2, AlarmsKept DEF CInv
  <2>2. UNCHANGED <<pc, call, held, keyring, file, blocked, locker>> /\ lapsed' \subseteq issued
    BY DEF client, CInv, ClientTypeOK
  <2>3. \A i \in Handlers, f \in Families :
           origin[f] \notin ForeignGrants /\ Renews(i, f)' =>
              Renews(i, f) /\ rpc'[i].arg = rpc[i].arg
    BY <1>2 DEF Renews, InFlight
  <2>4. \A p \in Processes : call[p] # NoCall => rpc[call[p]].pc # "free"
    BY DEF CInv, CallOK
  <2> QED BY <1>1, <1>2, <2>1, <2>2, <2>3, <2>4, QuietForClient DEF InFlight
<1>3. ASSUME NEW h \in Handlers, InFlight(h), UNCHANGED <<issued, origin>>, NeverReplays',
             NEW a \in {NoPair, Refused, Pending}, Answer(h, a)
      PROVE  CInv'
  <2>1. PICK r \in Calls : /\ r.pc = "answered" /\ r.answer = a
                           /\ r.op = rpc[h].op /\ r.arg = rpc[h].arg
                           /\ rpc' = [rpc EXCEPT ![h] = r]
    BY <1>1, <1>3, AnswerShape
  <2>2. rpc'[h] = r /\ \A i \in Handlers \ {h} : rpc'[i] = rpc[i]
    BY <1>1, <2>1 DEF OAuthTypeOK
  <2> QED BY <1>1, <1>3, <2>1, <2>2, NoPairs, HandlerStep
<1>4. ASSUME NEW h \in Handlers, LockGrant(h) \/ LockFamily(h) PROVE CInv'
  <2>1. InFlight(h) /\ UNCHANGED <<issued, origin, alarms>>
    BY <1>4 DEF LockGrant, LockFamily, InFlight
  <2>2. /\ rpc'[h].op = rpc[h].op /\ rpc'[h].arg = rpc[h].arg /\ rpc'[h].pc = "locked"
        /\ \A i \in Handlers \ {h} : rpc'[i] = rpc[i]
    <3>1. PICK s : rpc' = [rpc EXCEPT ![h].pc = "locked", ![h].saw = s]
      BY <1>4 DEF LockGrant, LockFamily
    <3> QED BY <1>1, <3>1, LockShape
  <2>3. NeverReplays'
    BY <2>1, AlarmsKept DEF CInv
  <2> QED BY <1>1, <2>1, <2>2, <2>3, HandlerStep
<1>5. ASSUME NEW h \in Handlers,
             StillPending(h) \/ RefuseExchange(h) \/ RefreshRanOut(h) \/ ServerFails(h)
                \/ Revoke(h)
      PROVE  CInv'
  <2>1. InFlight(h) /\ UNCHANGED <<issued, origin, alarms>>
    BY <1>5 DEF StillPending, RefuseExchange, RefreshRanOut, ServerFails, Revoke, InFlight
  <2>2. PICK a \in {NoPair, Refused, Pending} : Answer(h, a)
    BY <1>5 DEF StillPending, RefuseExchange, RefreshRanOut, ServerFails, Revoke
  <2>3. NeverReplays'
    BY <2>1, AlarmsKept DEF CInv
  <2> QED BY <1>3, <2>1, <2>2, <2>3
<1>6. ASSUME NEW h \in Handlers, DetectReuse(h) PROVE CInv'
  <2>1. InFlight(h) /\ Answer(h, Refused)
    BY <1>6 DEF DetectReuse, InFlight
  <2> QED BY <1>3, <1>6, <2>1, DetectReuseIsForeign
<1>7. ASSUME NEW g \in Grants, Approve(g) \/ Deny(g) PROVE CInv'
  BY <1>2, <1>7 DEF Approve, Deny
<1>8. CASE DisableUser
  BY <1>2, <1>8 DEF DisableUser
<1> QED BY <1>4, <1>5, <1>6, <1>7, <1>8, ExchangeKeepsCInv, RotateKeepsCInv DEF Server, Handle

-----------------------------------------------------------------------------
(* The other steps *)

\* An answer nobody waits for is dropped.
LEMMA DropKeepsCInv ==
  ASSUME CInv, NEW h \in Handlers, Drop(h)
  PROVE  CInv'
<1>1. /\ \A p \in Processes : call[p] # h
      /\ rpc' = [rpc EXCEPT ![h] = NoRequest]
      /\ UNCHANGED <<grant, origin, issued, access, refresh, user, dead, alarms>>
      /\ UNCHANGED <<pc, call, held, keyring, file, blocked, locker, lapsed>>
  BY DEF Drop, ledger, client
<1>2. SInv /\ SInv'
  BY <1>1, HandlerFreed DEF CInv
<1>3. rpc'[h].pc = "free" /\ \A i \in Handlers \ {h} : rpc'[i] = rpc[i]
  BY <1>1, <1>2, NoRequestShape DEF SInv, OAuthTypeOK
<1>4. \A i \in Handlers, f \in Families :
         origin[f] \notin ForeignGrants /\ Renews(i, f)' =>
            Renews(i, f) /\ rpc'[i].arg = rpc[i].arg
  BY <1>3 DEF Renews, InFlight
<1>5. ASSUME NEW p \in Processes, call[p] # NoCall
      PROVE  rpc'[call[p]] = rpc[call[p]] /\ rpc[call[p]].pc # "free"
  <2>1. CallOK(p) /\ call[p] \in Handlers
    BY <1>5 DEF CInv, ClientTypeOK
  <2> QED BY <1>1, <1>3, <1>5, <2>1 DEF CallOK
<1>6. NeverReplays'
  BY <1>1, AlarmsKept DEF CInv
<1>7. lapsed' \subseteq issued
  BY <1>1 DEF CInv, ClientTypeOK
<1> QED BY <1>1, <1>2, <1>4, <1>5, <1>6, <1>7, QuietForClient DEF InFlight

\* Clients of other programs send what they like about grants of their own.
LEMMA ForeignKeepsCInv ==
  ASSUME CInv, ForeignRequest
  PROVE  CInv'
<1>1. /\ UNCHANGED <<grant, origin, issued, access, refresh, user, dead, alarms>>
      /\ UNCHANGED <<pc, call, held, keyring, file, blocked, locker, lapsed>>
  BY DEF ForeignRequest, ledger, client
<1>2. PICK h \in FreeHandlers, op \in {"exchange", "refresh", "revoke"} :
        \E arg : /\ \/ op = "exchange" /\ arg \in ForeignGrants
                    \/ op \in {"refresh", "revoke"} /\ arg \in issued
                       /\ arg[1] \in ForeignFamilies
                 /\ rpc' = [rpc EXCEPT ![h] = Request(op, arg)]
  BY DEF ForeignRequest
<1>3. PICK arg : /\ \/ op = "exchange" /\ arg \in ForeignGrants
                    \/ op \in {"refresh", "revoke"} /\ arg \in issued
                       /\ arg[1] \in ForeignFamilies
                 /\ rpc' = [rpc EXCEPT ![h] = Request(op, arg)]
  BY <1>2
<1>4. op = "exchange" => arg \in Grants
  BY <1>3, CliAssumption DEF Grants
<1>5. /\ SInv' /\ h \in Handlers /\ rpc[h].pc = "free"
      /\ rpc'[h].pc = "received" /\ rpc'[h].op = op /\ rpc'[h].arg = arg
      /\ \A i \in Handlers \ {h} : rpc'[i] = rpc[i]
  BY <1>1, <1>3, <1>4, RequestSent DEF CInv
<1>6. ASSUME NEW i \in Handlers, NEW f \in Families, origin[f] \notin ForeignGrants,
             Renews(i, f)'
      PROVE  Renews(i, f) /\ rpc'[i].arg = rpc[i].arg
  <2>1. i # h
    BY <1>3, <1>5, <1>6 DEF Renews, ForeignFamilies
  <2> QED BY <1>5, <1>6, <2>1 DEF Renews, InFlight
<1>7. ASSUME NEW p \in Processes, call[p] # NoCall
      PROVE  rpc'[call[p]] = rpc[call[p]] /\ rpc[call[p]].pc # "free"
  <2>1. CallOK(p) /\ call[p] \in Handlers
    BY <1>7 DEF CInv, ClientTypeOK
  <2> QED BY <1>5, <1>7, <2>1 DEF CallOK
<1>8. NeverReplays'
  BY <1>1, AlarmsKept DEF CInv
<1>9. lapsed' \subseteq issued
  BY <1>1 DEF CInv, ClientTypeOK
<1> QED BY <1>1, <1>5, <1>6, <1>7, <1>8, <1>9, QuietForClient DEF InFlight

\* An access token expires.
LEMMA ExpiryKeepsCInv ==
  ASSUME CInv, NEW pair \in Pairs, AccessExpires(pair)
  PROVE  CInv'
<1>1. /\ UNCHANGED server /\ UNCHANGED <<pc, call, held, keyring, file, blocked, locker>>
      /\ pair \in issued /\ lapsed' = lapsed \cup {pair}
  BY DEF AccessExpires, stored
<1>2. SInv' /\ UNCHANGED <<issued, origin, alarms, rpc>>
  BY <1>1, ServerRests DEF CInv
<1>3. lapsed' \subseteq issued
  BY <1>1 DEF CInv, ClientTypeOK
<1>4. \A i \in Handlers, f \in Families :
         origin[f] \notin ForeignGrants /\ Renews(i, f)' =>
            Renews(i, f) /\ rpc'[i].arg = rpc[i].arg
  BY <1>2 DEF Renews, InFlight
<1>5. \A p \in Processes : call[p] # NoCall => rpc[call[p]].pc # "free"
  BY DEF CInv, CallOK
<1>6. NeverReplays'
  BY <1>2, AlarmsKept DEF CInv
<1> QED BY <1>1, <1>2, <1>3, <1>4, <1>5, <1>6, QuietForClient DEF InFlight

-----------------------------------------------------------------------------
(* The theorems *)

\* Nothing has been granted, and no process has begun.
LEMMA InitCInv == Init => CInv
<1> SUFFICES ASSUME Init PROVE CInv
  OBVIOUS
<1>1. /\ grant = [g \in Grants |-> "absent"] /\ origin = [f \in Families |-> NoGrant]
      /\ issued = {} /\ access = {} /\ refresh = {} /\ user = "active"
      /\ rpc = [h \in Handlers |-> NoRequest] /\ dead = {} /\ alarms = {}
  BY DEF Init, ServerInit
<1>2. /\ pc = [p \in Processes |-> "idle"] /\ call = [p \in Processes |-> NoCall]
      /\ held = [p \in Processes |-> NoPair] /\ keyring = NoPair /\ file = NoPair
      /\ blocked = FALSE /\ locker = NoProcess /\ lapsed = {}
  BY DEF Init
<1>3. \A h \in Handlers : rpc[h].pc = "free"
  BY <1>1, NoRequestShape
<1>4. OAuthTypeOK
  BY <1>1, NoRequestShape DEF OAuthTypeOK, Statuses
<1>5. ASSUME NEW f \in Families PROVE FamilyOK(f) /\ TokensOK(f)
  <2>1. PairsOf(f) = {} /\ PairsOf(f) = {f} \X (1..0)
    BY <1>1 DEF PairsOf
  <2>2. 0 \in 0..MaxPairs
    BY OAuthAssumption
  <2>3. FamilyOK(f)
    BY <1>1, <2>1, <2>2 DEF FamilyOK
  <2> QED BY <1>1, <2>3 DEF TokensOK
<1>6. ASSUME NEW g \in Grants PROVE GrantOK(g)
  BY <1>1, OAuthAssumption DEF GrantOK
<1>7. \A h \in Handlers : RequestOK(h) /\ GrantLockOK(h) /\ FamilyLockOK(h)
  BY <1>3 DEF RequestOK, InFlight, GrantLockOK, FamilyLockOK
<1>8. SInv
  BY <1>4, <1>5, <1>6, <1>7 DEF SInv
<1>9. ClientTypeOK
  BY <1>1, <1>2 DEF ClientTypeOK, Places, Things
<1>10. ASSUME NEW p \in Processes PROVE ProcessOK(p) /\ CallOK(p)
  BY <1>2 DEF ProcessOK, CallOK, Locked, Bearing
<1>11. ASSUME NEW p \in Processes PROVE BearerOK(p)
  BY <1>2 DEF BearerOK, Bears, Answered, Bearing
<1>12. StoreOK
  BY <1>2 DEF StoreOK, Stores, Loaded
<1>13. \A h \in Handlers : RenewalOK(h)
  BY <1>3 DEF RenewalOK, Renews, InFlight
<1>14. NeverReplays
  BY <1>1 DEF NeverReplays
<1> QED BY <1>8, <1>9, <1>10, <1>11, <1>12, <1>13, <1>14 DEF CInv

\* Every step keeps the invariant.
LEMMA NextCInv ==
  ASSUME CInv, [Next]_vars
  PROVE  CInv'
<1>1. ASSUME NEW p \in Processes, Begin(p) PROVE CInv'
  BY <1>1, BeginsLocally, SendsKeepCInv DEF Begin
<1>2. ASSUME NEW p \in Processes, Step(p) PROVE CInv'
  BY <1>2, SendsKeepCInv, HearsKeepCInv, EndsQuietly, SaveGoesOn, SaveEnds,
     BeginRefreshKeepsCInv DEF Step
<1>3. ASSUME NEW p \in Processes, Fault(p) PROVE CInv'
  BY <1>3, EndsQuietly, LoseAnswerKeepsCInv DEF Fault
<1>4. CASE UNCHANGED vars
  <2>1. UNCHANGED server /\ UNCHANGED client
    BY <1>4 DEF vars
  <2>2. SInv' /\ UNCHANGED <<issued, origin, alarms, rpc>>
    BY <2>1, ServerRests DEF CInv
  <2>3. \A i \in Handlers, f \in Families :
           origin[f] \notin ForeignGrants /\ Renews(i, f)' =>
              Renews(i, f) /\ rpc'[i].arg = rpc[i].arg
    BY <2>2 DEF Renews, InFlight
  <2>4. \A p \in Processes : call[p] # NoCall => rpc[call[p]].pc # "free"
    BY DEF CInv, CallOK
  <2>5. NeverReplays'
    BY <2>2, AlarmsKept DEF CInv
  <2>6. UNCHANGED <<pc, call, held, keyring, file, blocked, locker>> /\ lapsed' \subseteq issued
    BY <2>1 DEF client, CInv, ClientTypeOK
  <2> QED BY <2>2, <2>3, <2>4, <2>5, <2>6, QuietForClient DEF InFlight
<1> QED BY <1>1, <1>2, <1>3, <1>4, ServerKeepsCInv, DropKeepsCInv, ForeignKeepsCInv,
           ExpiryKeepsCInv DEF Next

\* The invariant of the server, the profile and the processes that share it (CInv): a handler's
\* reading stands while it holds its lock, and the newest pair of a family is in one place.
THEOREM ClientInvariance == Spec => []CInv
<1>1. CInv /\ [Next]_vars => CInv'
  BY NextCInv
<1> QED BY InitCInv, <1>1, PTL DEF Spec

\* The tables of the authorization server and the state of the client have their types.
THEOREM TokensTypeCorrect == Spec => [](OAuthTypeOK /\ ClientTypeOK)
<1>1. CInv => OAuthTypeOK /\ ClientTypeOK
  BY DEF CInv, SInv
<1> QED BY <1>1, ClientInvariance, PTL

\* A grant yields at most one family, one refresh token of a family is in force, and none is
\* once the family is revoked (exchange, exchange_code, exchange_refresh, revoke).
THEOREM TokensAreSpentOnce == Spec => []SpentOnce
<1>1. CInv => SpentOnce
  BY SpentOnceHolds DEF CInv
<1> QED BY <1>1, ClientInvariance, PTL

\* Whatever is lost, dies or fails, the client never sends a token back that was rotated
\* already (refresh_token_resolution: lock, read again, mark, send, save).
THEOREM ClientNeverReplays == Spec => []NeverReplays
<1>1. CInv => NeverReplays
  BY DEF CInv
<1> QED BY <1>1, ClientInvariance, PTL

-----------------------------------------------------------------------------
(* The tools *)

Kept == {"asset", "rename", "card", "transfer", "reverse"}
Doings == [step : {"look", "write", "verify", "read back"}, call : ToolCalls,
           replayed : BOOLEAN, wrote : BOOLEAN]

\* Type invariant: rows, effects and the processes have their shapes.
IsRow(r) == r = [name |-> r.name, parent |-> r.parent, status |-> r.status,
                 version |-> r.version]

ToolsTypeOK ==
    /\ \A id \in DOMAIN rows : IsRow(rows[id])
    /\ doing \in [ToolRuns -> Doings \cup {AtRest}]
    /\ effects \in Seq(ToolCalls)
    /\ firsts \in [{Key(c) : c \in ToolCalls} -> Nat]

Done(c) == \E n \in DOMAIN effects : effects[n] = c
NoEffect(key) == \A n \in DOMAIN effects : Key(effects[n]) # key

\* What took effect took it once, and left a row or a receipt by which it is found.
EffectsOnce ==
    \A m, n \in DOMAIN effects :
        Key(effects[m]) = Key(effects[n]) /\ effects[m].tool \notin Flips => m = n

EffectsMarked ==
    \A n \in DOMAIN effects :
        /\ effects[n].tool \in Named => Key(effects[n]) \in DOMAIN rows
        /\ effects[n].tool \in Kept => Key(effects[n]) \in DOMAIN toolReceipts
        /\ effects[n].tool \in Named \cup Flips \cup Kept

\* A row a call created bears what that call said, or the name of a later rename.
Created(id, n) ==
    /\ Key(effects[n]) = id /\ rows[id].parent = effects[n].parent
    /\ \/ rows[id].name = effects[n].name
       \/ \E m \in DOMAIN effects :
            /\ m > n /\ effects[m].tool = "rename" /\ effects[m].target = id
            /\ effects[m].name = rows[id].name

RowsCreated ==
    \A id \in DOMAIN rows : id[1] \in Named => \E n \in DOMAIN effects : Created(id, n)

\* A receipt is of a call that took effect.
ReceiptsTrue ==
    \A key \in DOMAIN toolReceipts :
        Key(toolReceipts[key].call) = key /\ Done(toolReceipts[key].call)

\* Before its write a run has written nothing; after it, the call has taken effect.
RunTrue(d) ==
    d # AtRest =>
      /\ d.step \in {"look", "write"} =>
           d.wrote = FALSE /\ (d.call.tool # "card" => d.replayed = FALSE)
      /\ d.step \in {"verify", "read back"} =>
           Done(d.call) /\ (d.call.tool # "card" => d.replayed # d.wrote)

\* One run at most has written and not answered, and then no answer was the first.
Wrote(d, key) == d # AtRest /\ d.wrote = TRUE /\ Key(d.call) = key

FirstsTrue ==
    \A c \in ToolCalls : c.tool \notin Flips \cup {"card"} =>
        /\ firsts[Key(c)] <= 1
        /\ firsts[Key(c)] = 1 =>
             ~NoEffect(Key(c)) /\ \A p \in ToolRuns : ~Wrote(doing[p], Key(c))
        /\ \A p, q \in ToolRuns :
             Wrote(doing[p], Key(c)) /\ Wrote(doing[q], Key(c)) => p = q

ToolsInv ==
    /\ ToolsTypeOK
    /\ EffectsOnce /\ EffectsMarked /\ RowsCreated /\ ReceiptsTrue
    /\ \A p \in ToolRuns : RunTrue(doing[p])
    /\ FirstsTrue
    /\ RepliesAreTrue

\* The key of a call is of its tool, and a call of a catalog tool is what it says.
LEMMA CallFacts ==
  ASSUME NEW c \in ToolCalls
  PROVE  /\ Key(c)[1] = c.tool
         /\ \A d \in ToolCalls : Key(c) = Key(d) => c.tool = d.tool
         /\ \A d \in ToolCalls :
              /\ Key(c) = Key(d) /\ c.tool \in Named
              /\ c.name = d.name /\ c.parent = d.parent
              => c = d
<1>1. Key(c)[1] = c.tool
  BY DEF Key
<1>2. \A d \in ToolCalls : Key(c) = Key(d) => c.tool = d.tool /\ c.request = d.request
  BY DEF Key
<1>3. ASSUME NEW d \in ToolCalls, Key(c) = Key(d), c.tool \in Named, c.name = d.name,
             c.parent = d.parent
      PROVE  c = d
  <2>1. c.target = Unset /\ d.target = Unset /\ c.tool = d.tool /\ c.request = d.request
    BY <1>2, <1>3, CallsAreMade
  <2>2. c = ToolCall(c.tool, c.request, c.target, c.name, c.parent)
        /\ d = ToolCall(d.tool, d.request, d.target, d.name, d.parent)
    BY CallsAreMade
  <2> QED BY <1>3, <2>1, <2>2
<1> QED BY <1>1, <1>2, <1>3

\* Initially nothing was called.
LEMMA InitToolsInv == ToolsInit => ToolsInv
<1> SUFFICES ASSUME ToolsInit PROVE ToolsInv
  OBVIOUS
<1>1. DOMAIN rows = {} /\ DOMAIN toolReceipts = {} /\ DOMAIN effects = {}
      /\ effects \in Seq(ToolCalls)
  BY DEF ToolsInit
<1>2. ToolsTypeOK
  BY <1>1 DEF ToolsInit, ToolsTypeOK
<1>3. EffectsOnce /\ EffectsMarked /\ RowsCreated /\ ReceiptsTrue
  BY <1>1 DEF EffectsOnce, EffectsMarked, RowsCreated, ReceiptsTrue
<1>4. \A p \in ToolRuns : doing[p] = AtRest
  BY DEF ToolsInit
<1>5. \A p \in ToolRuns : RunTrue(doing[p])
  BY <1>4 DEF RunTrue
<1>6. \A c \in ToolCalls : firsts[Key(c)] = 0
  BY DEF ToolsInit
<1>7. FirstsTrue
  BY <1>4, <1>6 DEF FirstsTrue, Wrote
<1>8. RepliesAreTrue
  BY DEF ToolsInit, RepliesAreTrue
<1> QED BY <1>2, <1>3, <1>5, <1>7, <1>8 DEF ToolsInv

\* What a commit appends comes last.
LEMMA AppendFacts ==
  ASSUME effects \in Seq(ToolCalls), NEW c \in ToolCalls, effects' = Append(effects, c)
  PROVE  /\ effects' \in Seq(ToolCalls) /\ Len(effects) \in Nat
         /\ DOMAIN effects = 1 .. Len(effects) /\ DOMAIN effects' = 1 .. Len(effects) + 1
         /\ \A n \in DOMAIN effects : effects'[n] = effects[n]
         /\ Len(effects) + 1 \in DOMAIN effects' /\ effects'[Len(effects) + 1] = c
BY AppendProperties

\* What has taken effect has taken it.
LEMMA EffectsStay ==
  ASSUME effects \in Seq(ToolCalls),
         effects' = effects \/ \E c \in ToolCalls : effects' = Append(effects, c)
  PROVE  /\ DOMAIN effects \subseteq DOMAIN effects'
         /\ \A n \in DOMAIN effects : effects'[n] = effects[n]
         /\ \A c : Done(c) => Done(c)'
         /\ \A key : ~NoEffect(key) => ~NoEffect(key)'
<1>1. DOMAIN effects \subseteq DOMAIN effects'
      /\ \A n \in DOMAIN effects : effects'[n] = effects[n]
  BY AppendFacts
<1> QED BY <1>1 DEF Done, NoEffect

-----------------------------------------------------------------------------
(* Rows, receipts and effects *)

DataTrue ==
    /\ \A id \in DOMAIN rows : IsRow(rows[id])
    /\ effects \in Seq(ToolCalls)
    /\ EffectsOnce /\ EffectsMarked /\ RowsCreated /\ ReceiptsTrue

\* A row that keeps its name and parent is still as created.
LEMMA CreatedStays ==
  ASSUME ToolsInv, NEW id, id[1] \in Named, id \in DOMAIN rows,
         rows'[id].name = rows[id].name, rows'[id].parent = rows[id].parent,
         effects' = effects \/ \E c \in ToolCalls : effects' = Append(effects, c)
  PROVE  \E n \in DOMAIN effects' : Created(id, n)'
<1>1. PICK n \in DOMAIN effects : Created(id, n)
  BY DEF ToolsInv, RowsCreated
<1>2. /\ DOMAIN effects \subseteq DOMAIN effects'
      /\ \A m \in DOMAIN effects : effects'[m] = effects[m]
  BY EffectsStay DEF ToolsInv, ToolsTypeOK
<1>3. Key(effects'[n]) = id /\ rows'[id].parent = effects'[n].parent
  BY <1>1, <1>2 DEF Created
<1>4. \/ rows'[id].name = effects'[n].name
      \/ \E m \in DOMAIN effects' :
           /\ m > n /\ effects'[m].tool = "rename" /\ effects'[m].target = id
           /\ effects'[m].name = rows'[id].name
  BY <1>1, <1>2 DEF Created
<1> QED BY <1>1, <1>2, <1>3, <1>4 DEF Created

\* A commit of a call that had no effect yet: it leaves its mark, and changes no row that a
\* call created but its own or, as a rename, its target.
LEMMA CommitData ==
  ASSUME ToolsInv, NEW c \in ToolCalls, effects' = Append(effects, c),
         c.tool \notin Flips => NoEffect(Key(c)), c.tool \in Named \cup Flips \cup Kept,
         DOMAIN rows \subseteq DOMAIN rows', DOMAIN toolReceipts \subseteq DOMAIN toolReceipts',
         c.tool \in Named => Key(c) \in DOMAIN rows',
         c.tool \in Kept => Key(c) \in DOMAIN toolReceipts',
         \A id \in DOMAIN rows' : IsRow(rows'[id]),
         \A id \in DOMAIN rows' : id[1] \in Named =>
             \/ /\ id \in DOMAIN rows
                /\ rows'[id].name = rows[id].name /\ rows'[id].parent = rows[id].parent
             \/ id = Key(c) /\ rows'[id].name = c.name /\ rows'[id].parent = c.parent
             \/ /\ id \in DOMAIN rows /\ c.tool = "rename" /\ c.target = id
                /\ rows'[id].name = c.name /\ rows'[id].parent = rows[id].parent,
         \A key \in DOMAIN toolReceipts' :
             \/ key \in DOMAIN toolReceipts /\ toolReceipts'[key] = toolReceipts[key]
             \/ key = Key(c) /\ toolReceipts'[key].call = c
  PROVE  DataTrue'
<1>0. PICK last : last = Len(effects) + 1
  OBVIOUS
<1>1. /\ effects' \in Seq(ToolCalls) /\ Len(effects) \in Nat
      /\ DOMAIN effects = 1 .. Len(effects) /\ DOMAIN effects' = 1 .. last
      /\ \A n \in DOMAIN effects : effects'[n] = effects[n]
      /\ effects'[last] = c
  BY <1>0, AppendFacts DEF ToolsInv, ToolsTypeOK
<1>2. last \in DOMAIN effects' /\ \A n \in DOMAIN effects : n \in DOMAIN effects' /\ last > n
      /\ n \in Nat
  BY <1>0, <1>1
<1>3. \A n \in DOMAIN effects' : n = last \/ n \in DOMAIN effects
  BY <1>0, <1>1
<1>4. \A n \in DOMAIN effects : effects[n] \in ToolCalls
  BY <1>1 DEF ToolsInv, ToolsTypeOK
<1>5. EffectsOnce'
  <2> SUFFICES ASSUME NEW m \in DOMAIN effects', NEW n \in DOMAIN effects',
                      Key(effects'[m]) = Key(effects'[n]), effects'[m].tool \notin Flips
               PROVE  m = n
    BY DEF EffectsOnce
  <2>1. \A x \in DOMAIN effects : Key(effects[x]) = Key(c) => c.tool \in Flips
    BY DEF NoEffect
  <2>2. \A x \in DOMAIN effects : Key(effects[x]) = Key(c) => effects[x].tool = c.tool
    BY <1>4, CallFacts
  <2>3. CASE m \in DOMAIN effects /\ n \in DOMAIN effects
    BY <1>1, <2>3 DEF ToolsInv, EffectsOnce
  <2>4. CASE m = last
    BY <1>1, <1>3, <2>1, <2>2, <2>4
  <2>5. CASE n = last
    BY <1>1, <1>3, <2>1, <2>2, <2>5
  <2> QED BY <1>3, <2>3, <2>4, <2>5
<1>6. EffectsMarked'
  <2> SUFFICES ASSUME NEW n \in DOMAIN effects'
               PROVE  /\ effects'[n].tool \in Named => Key(effects'[n]) \in DOMAIN rows'
                      /\ effects'[n].tool \in Kept => Key(effects'[n]) \in DOMAIN toolReceipts'
                      /\ effects'[n].tool \in Named \cup Flips \cup Kept
    BY DEF EffectsMarked
  <2>1. CASE n = last
    BY <1>1, <2>1
  <2>2. CASE n \in DOMAIN effects
    BY <1>1, <2>2 DEF ToolsInv, EffectsMarked
  <2> QED BY <1>3, <2>1, <2>2
<1>7. RowsCreated'
  <2> SUFFICES ASSUME NEW id \in DOMAIN rows', id[1] \in Named
               PROVE  \E n \in DOMAIN effects' : Created(id, n)'
    BY DEF RowsCreated
  <2>1. CASE /\ id \in DOMAIN rows
             /\ rows'[id].name = rows[id].name /\ rows'[id].parent = rows[id].parent
    BY <2>1, CreatedStays
  <2>2. CASE id = Key(c) /\ rows'[id].name = c.name /\ rows'[id].parent = c.parent
    <3>1. Created(id, last)'
      BY <1>1, <2>2 DEF Created
    <3> QED BY <1>2, <3>1
  <2>3. CASE /\ id \in DOMAIN rows /\ c.tool = "rename" /\ c.target = id
             /\ rows'[id].name = c.name /\ rows'[id].parent = rows[id].parent
    <3>1. PICK n \in DOMAIN effects : Created(id, n)
      BY <2>3 DEF ToolsInv, RowsCreated
    <3>2. Key(effects'[n]) = id /\ rows'[id].parent = effects'[n].parent
      BY <1>1, <2>3, <3>1 DEF Created
    <3>3. /\ last \in DOMAIN effects' /\ last > n /\ effects'[last].tool = "rename"
          /\ effects'[last].target = id /\ effects'[last].name = rows'[id].name
      BY <1>1, <1>2, <2>3
    <3>4. Created(id, n)'
      BY <3>2, <3>3 DEF Created
    <3> QED BY <1>2, <3>4
  <2> QED BY <2>1, <2>2, <2>3
<1>8. ReceiptsTrue'
  <2> SUFFICES ASSUME NEW key \in DOMAIN toolReceipts'
               PROVE  Key(toolReceipts'[key].call) = key /\ Done(toolReceipts[key].call)'
    BY DEF ReceiptsTrue
  <2>1. CASE key = Key(c) /\ toolReceipts'[key].call = c
    <3>1. Done(toolReceipts[key].call)'
      BY <1>1, <1>2, <2>1 DEF Done
    <3> QED BY <2>1, <3>1
  <2>2. CASE key \in DOMAIN toolReceipts /\ toolReceipts'[key] = toolReceipts[key]
    <3>1. Key(toolReceipts[key].call) = key /\ Done(toolReceipts[key].call)
      BY <2>2 DEF ToolsInv, ReceiptsTrue
    <3>2. Done(toolReceipts[key].call)'
      BY <1>1, <1>2, <2>2, <3>1 DEF Done
    <3> QED BY <2>2, <3>1, <3>2
  <2> QED BY <2>1, <2>2
<1> QED BY <1>1, <1>5, <1>6, <1>7, <1>8 DEF DataTrue

-----------------------------------------------------------------------------
(* Processes and answers *)

\* What holds of the processes and of what was answered.
RunsTrue ==
    /\ doing \in [ToolRuns -> Doings \cup {AtRest}]
    /\ firsts \in [{Key(c) : c \in ToolCalls} -> Nat]
    /\ \A p \in ToolRuns : RunTrue(doing[p])
    /\ FirstsTrue

\* A step that touches no row, receipt or effect.
LEMMA DataStays ==
  ASSUME ToolsInv, UNCHANGED <<rows, toolReceipts, effects>>
  PROVE  DataTrue'
BY DEF ToolsInv, ToolsTypeOK, DataTrue, EffectsOnce, EffectsMarked, RowsCreated, Created,
       ReceiptsTrue, Done, IsRow

\* What a process says of itself stays true.
LEMMA RunTrueStays ==
  ASSUME NEW d, RunTrue(d), \A c : Done(c) => Done(c)'
  PROVE  RunTrue(d)'
BY DEF RunTrue

\* A process that wrote has had its effect.
LEMMA WroteIsDone ==
  ASSUME ToolsInv, NEW q \in ToolRuns, NEW key, Wrote(doing[q], key)
  PROVE  ~NoEffect(key)
<1>1. doing[q] \in Doings /\ doing[q] # AtRest
  BY DEF ToolsInv, ToolsTypeOK, Wrote
<1>2. doing[q].step \in {"look", "write", "verify", "read back"} /\ doing[q].wrote = TRUE
      /\ RunTrue(doing[q])
  BY <1>1 DEF ToolsInv, Wrote, Doings
<1>3. Done(doing[q].call)
  BY <1>1, <1>2 DEF RunTrue
<1> QED BY <1>3 DEF Wrote, Done, NoEffect

\* A process goes on, and answers nothing for the first time: if it says that it wrote, it
\* had written, or its call had no effect before.
LEMMA RunMoves ==
  ASSUME ToolsInv, NEW p \in ToolRuns, NEW d \in Doings \cup {AtRest},
         doing' = [doing EXCEPT ![p] = d], firsts' = firsts,
         effects' = effects \/ \E c \in ToolCalls : effects' = Append(effects, c),
         RunTrue(d)',
         \A key : Wrote(d, key) =>
             Wrote(doing[p], key) \/ (d.call.tool \notin Flips => NoEffect(key))
  PROVE  RunsTrue'
<1>1. /\ \A c : Done(c) => Done(c)'
      /\ \A key : ~NoEffect(key) => ~NoEffect(key)'
  BY EffectsStay DEF ToolsInv, ToolsTypeOK
<1>2. /\ doing' \in [ToolRuns -> Doings \cup {AtRest}]
      /\ firsts' \in [{Key(c) : c \in ToolCalls} -> Nat]
      /\ doing'[p] = d /\ \A q \in ToolRuns \ {p} : doing'[q] = doing[q]
  BY DEF ToolsInv, ToolsTypeOK
<1>3. ASSUME NEW q \in ToolRuns PROVE RunTrue(doing[q])'
  <2>1. CASE q = p
    BY <1>2, <2>1 DEF RunTrue
  <2>2. CASE q # p
    <3>1. PICK e : e = doing[q]
      OBVIOUS
    <3>2. RunTrue(e)
      BY <3>1 DEF ToolsInv
    <3>3. RunTrue(e)'
      BY <1>1, <3>2, RunTrueStays
    <3> QED BY <1>2, <2>2, <3>1, <3>3 DEF RunTrue
  <2> QED BY <2>1, <2>2
<1>4. FirstsTrue'
  <2> SUFFICES ASSUME NEW c \in ToolCalls, c.tool \notin Flips \cup {"card"}
               PROVE  /\ firsts[Key(c)] <= 1
                      /\ firsts[Key(c)] = 1 =>
                           ~NoEffect(Key(c))' /\ \A q \in ToolRuns : ~Wrote(doing'[q], Key(c))
                      /\ \A q, r \in ToolRuns :
                           Wrote(doing'[q], Key(c)) /\ Wrote(doing'[r], Key(c)) => q = r
    BY DEF FirstsTrue, Wrote
  <2>1. /\ firsts[Key(c)] <= 1
        /\ firsts[Key(c)] = 1 =>
             ~NoEffect(Key(c)) /\ \A q \in ToolRuns : ~Wrote(doing[q], Key(c))
        /\ \A q, r \in ToolRuns :
             Wrote(doing[q], Key(c)) /\ Wrote(doing[r], Key(c)) => q = r
    BY DEF ToolsInv, FirstsTrue
  <2>2. Wrote(d, Key(c)) => Wrote(doing[p], Key(c)) \/ NoEffect(Key(c))
    <3> SUFFICES ASSUME Wrote(d, Key(c)) PROVE Wrote(doing[p], Key(c)) \/ NoEffect(Key(c))
      OBVIOUS
    <3>1. d \in Doings /\ Key(d.call) = Key(c)
      BY DEF Wrote
    <3>2. d.call \in ToolCalls
      BY <3>1 DEF Doings
    <3>3. d.call.tool = c.tool
      BY <3>1, <3>2, CallFacts
    <3> QED BY <3>3
  <2>3. \A q \in ToolRuns : Wrote(doing[q], Key(c)) => ~NoEffect(Key(c))
    BY WroteIsDone
  <2> QED BY <1>1, <1>2, <2>1, <2>2, <2>3
<1> QED BY <1>2, <1>3, <1>4 DEF RunsTrue

\* The process that wrote a call answers first, and rests.
LEMMA FirstAnswer ==
  ASSUME ToolsInv, NEW p \in ToolRuns, doing[p] # AtRest,
         doing' = [doing EXCEPT ![p] = AtRest], effects' = effects,
         firsts' = [firsts EXCEPT ![Key(doing[p].call)] = @ + 1],
         doing[p].call.tool \notin Flips \cup {"card"} => doing[p].wrote = TRUE
  PROVE  RunsTrue'
<1>1. doing[p].call \in ToolCalls
  BY DEF ToolsInv, ToolsTypeOK, Doings
<1>2. PICK k : k = doing[p].call
  OBVIOUS
<1>3. /\ doing' \in [ToolRuns -> Doings \cup {AtRest}]
      /\ doing'[p] = AtRest /\ \A q \in ToolRuns \ {p} : doing'[q] = doing[q]
  BY DEF ToolsInv, ToolsTypeOK
<1>4. /\ Key(k) \in {Key(c) : c \in ToolCalls}
      /\ firsts' \in [{Key(c) : c \in ToolCalls} -> Nat]
      /\ firsts'[Key(k)] = firsts[Key(k)] + 1
      /\ \A c \in ToolCalls : Key(c) # Key(k) => firsts'[Key(c)] = firsts[Key(c)]
      /\ \A c \in ToolCalls : firsts[Key(c)] \in Nat
  BY <1>1, <1>2 DEF ToolsInv, ToolsTypeOK
<1>5. ASSUME NEW q \in ToolRuns PROVE RunTrue(doing[q])'
  BY <1>3 DEF ToolsInv, RunTrue, Done
<1>6. FirstsTrue'
  <2> SUFFICES ASSUME NEW c \in ToolCalls, c.tool \notin Flips \cup {"card"}
               PROVE  /\ firsts'[Key(c)] <= 1
                      /\ firsts'[Key(c)] = 1 =>
                           ~NoEffect(Key(c)) /\ \A q \in ToolRuns : ~Wrote(doing'[q], Key(c))
                      /\ \A q, r \in ToolRuns :
                           Wrote(doing'[q], Key(c)) /\ Wrote(doing'[r], Key(c)) => q = r
    BY DEF FirstsTrue, Wrote, NoEffect
  <2>1. /\ firsts[Key(c)] <= 1
        /\ firsts[Key(c)] = 1 =>
             ~NoEffect(Key(c)) /\ \A q \in ToolRuns : ~Wrote(doing[q], Key(c))
        /\ \A q, r \in ToolRuns :
             Wrote(doing[q], Key(c)) /\ Wrote(doing[r], Key(c)) => q = r
    BY DEF ToolsInv, FirstsTrue
  <2>2. \A q \in ToolRuns : Wrote(doing'[q], Key(c)) => q # p /\ Wrote(doing[q], Key(c))
    BY <1>3 DEF Wrote
  <2>3. CASE Key(c) = Key(k)
    <3>1. c.tool = k.tool
      BY <1>1, <1>2, <2>3, CallFacts
    <3>2. Wrote(doing[p], Key(c))
      BY <1>2, <2>3, <3>1 DEF Wrote
    <3>3. firsts[Key(c)] = 0 /\ ~NoEffect(Key(c))
      BY <1>4, <2>1, <3>2, WroteIsDone
    <3> QED BY <1>4, <2>1, <2>2, <2>3, <3>2, <3>3
  <2>4. CASE Key(c) # Key(k)
    BY <1>4, <2>1, <2>2, <2>4
  <2> QED BY <2>3, <2>4
<1> QED BY <1>3, <1>4, <1>5, <1>6 DEF RunsTrue

\* What a process knows of its call after a step.
After(d, s, r, w) == [d EXCEPT !.step = s, !.replayed = r, !.wrote = w]

\* The call stays the same.
LEMMA RunAfter ==
  ASSUME NEW d \in Doings, NEW s, NEW r \in BOOLEAN, NEW w \in BOOLEAN
  PROVE  After(d, s, r, w) = [step |-> s, call |-> d.call, replayed |-> r, wrote |-> w]
<1>0. PICK a, b, c, e : d = [step |-> a, call |-> b, replayed |-> c, wrote |-> e]
  BY DEF Doings
<1>1. PICK x : x = [d EXCEPT !.step = s]
  OBVIOUS
<1>2. x = [step |-> s, call |-> b, replayed |-> c, wrote |-> e]
  BY <1>0, <1>1
<1>3. PICK y : y = [x EXCEPT !.replayed = r]
  OBVIOUS
<1>4. y = [step |-> s, call |-> b, replayed |-> r, wrote |-> e]
  BY <1>2, <1>3
<1>5. [y EXCEPT !.wrote = w] = [step |-> s, call |-> b, replayed |-> r, wrote |-> w]
  BY <1>4
<1>6. [d EXCEPT !.step = s, !.replayed = r, !.wrote = w] = [y EXCEPT !.wrote = w]
  BY <1>1, <1>3
<1>7. b = d.call
  BY <1>0
<1> QED BY <1>5, <1>6, <1>7 DEF After

\* The invariant, in the three parts the steps preserve.
LEMMA ToolsParts ==
  ASSUME DataTrue', RunsTrue', RepliesAreTrue'
  PROVE  ToolsInv'
BY DEF DataTrue, RunsTrue, ToolsInv, ToolsTypeOK

\* A process goes on with its call.
LEMMA Going ==
  ASSUME ToolsInv, NEW p \in ToolRuns, doing[p] # AtRest,
         NEW step \in {"look", "write", "verify", "read back"}, NEW replayed \in BOOLEAN,
         NEW wrote \in BOOLEAN, Goes(p, step, replayed, wrote),
         effects' = effects \/ \E c \in ToolCalls : effects' = Append(effects, c),
         NEW k, k = doing[p].call,
         step \in {"look", "write"} =>
             wrote = FALSE /\ (k.tool # "card" => replayed = FALSE),
         step \in {"verify", "read back"} =>
             Done(k)' /\ (k.tool # "card" => replayed # wrote),
         wrote = TRUE => doing[p].wrote = TRUE \/ (k.tool \notin Flips => NoEffect(Key(k)))
  PROVE  RunsTrue' /\ RepliesAreTrue'
<1>1. doing[p] \in Doings /\ k \in ToolCalls
  BY DEF ToolsInv, ToolsTypeOK, Doings
<1>2. PICK d : d = [step |-> step, call |-> k, replayed |-> replayed, wrote |-> wrote]
  OBVIOUS
<1>3. /\ d \in Doings /\ d # AtRest /\ d.call = k /\ d.step = step /\ d.replayed = replayed
      /\ d.wrote = wrote
  BY <1>1, <1>2 DEF Doings, AtRest
<1>4. After(doing[p], step, replayed, wrote) = d
  BY <1>1, <1>2, RunAfter
<1>5. doing' = [doing EXCEPT ![p] = d] /\ firsts' = firsts /\ reply' = NoReply
  BY <1>4 DEF Goes, After
<1>6. RunTrue(d)'
  BY <1>3 DEF RunTrue
<1>7. \A key : Wrote(d, key) =>
          Wrote(doing[p], key) \/ (d.call.tool \notin Flips => NoEffect(key))
  BY <1>1, <1>3 DEF Wrote
<1>8. RunsTrue'
  BY <1>3, <1>5, <1>6, <1>7, RunMoves
<1> QED BY <1>5, <1>8 DEF RepliesAreTrue

\* What makes "committed" true of a call.
MayBeSaid(p, c, replayed, wrote) ==
    /\ effects' = effects
    /\ c.tool \notin Flips => \E n \in EffectsOf(Key(c)) : effects[n] = c \/ RenamedTo(c, n)
    /\ c.tool # "card" => replayed # wrote
    /\ replayed = FALSE /\ c.tool \notin Flips \cup {"card"} => doing[p].wrote = TRUE

\* A process answers.
LEMMA Saying ==
  ASSUME ToolsInv, NEW p \in ToolRuns, doing[p] # AtRest, NEW said,
         NEW replayed \in BOOLEAN, NEW wrote \in BOOLEAN, Says(p, said, replayed, wrote),
         effects' = effects \/ \E c \in ToolCalls : effects' = Append(effects, c),
         NEW k, k = doing[p].call,
         said = "committed" => MayBeSaid(p, k, replayed, wrote),
         said \in {"refused", "not attempted"} => wrote = FALSE
  PROVE  RunsTrue' /\ RepliesAreTrue'
<1>1. k \in ToolCalls
  BY DEF ToolsInv, ToolsTypeOK, Doings
<1>2. /\ doing' = [doing EXCEPT ![p] = AtRest]
      /\ reply' = [said |-> said, call |-> k, replayed |-> replayed, wrote |-> wrote]
      /\ firsts' = IF said = "committed" /\ ~replayed
                   THEN [firsts EXCEPT ![Key(k)] = @ + 1] ELSE firsts
  BY DEF Says
<1>3. RunsTrue'
  <2>1. CASE said = "committed" /\ replayed = FALSE
    BY <1>2, <2>1, FirstAnswer DEF MayBeSaid
  <2>2. CASE ~(said = "committed" /\ replayed = FALSE)
    <3>1. firsts' = firsts
      BY <1>2, <2>2
    <3>2. RunTrue(AtRest)' /\ \A key : ~Wrote(AtRest, key)
      BY DEF RunTrue, Wrote
    <3> QED BY <1>2, <3>1, <3>2, RunMoves
  <2> QED BY <2>1, <2>2
<1>4. /\ reply'.said = said /\ reply'.call = k /\ reply'.replayed = replayed
      /\ reply'.wrote = wrote
  BY <1>2
<1>5. k.tool \notin Flips \cup {"card"} => firsts'[Key(k)] <= 1
  BY <1>1, <1>3 DEF RunsTrue, FirstsTrue
<1>6. said = "committed" /\ k.tool \notin Flips =>
          \E n \in EffectsOf(Key(k))' : effects'[n] = k \/ RenamedTo(k, n)'
  BY DEF EffectsOf, RenamedTo, MayBeSaid
<1>7. said = "committed" /\ k.tool # "card" => replayed = ~wrote
  BY DEF MayBeSaid
<1>8. RepliesAreTrue'
  BY <1>4, <1>5, <1>6, <1>7 DEF RepliesAreTrue, EffectsOf, RenamedTo
<1> QED BY <1>3, <1>8

\* A process that is busy with a call.
LEMMA BusyFacts ==
  ASSUME ToolsInv, NEW p \in ToolRuns, doing[p] # AtRest
  PROVE  /\ doing[p] \in Doings /\ doing[p].call \in ToolCalls /\ RunTrue(doing[p])
         /\ doing[p].replayed \in BOOLEAN /\ doing[p].wrote \in BOOLEAN
         /\ doing[p].step = "write" =>
                /\ doing[p].wrote = FALSE
                /\ doing[p].call.tool # "card" => doing[p].replayed = FALSE
         /\ doing[p].step \in {"verify", "read back"} =>
                /\ Done(doing[p].call)
                /\ doing[p].call.tool # "card" => doing[p].replayed # doing[p].wrote
<1>1. doing[p] \in Doings /\ RunTrue(doing[p])
  BY DEF ToolsInv, ToolsTypeOK
<1> QED BY <1>1 DEF RunTrue, Doings

-----------------------------------------------------------------------------
(* Each step preserves the invariant *)

\* A call is begun.
LEMMA BeginCallKeeps ==
  ASSUME ToolsInv, NEW p \in ToolRuns, NEW c \in ToolCalls, BeginCall(p, c)
  PROVE  ToolsInv'
<1>1. DataTrue' /\ effects' = effects /\ firsts' = firsts /\ reply' = NoReply
  BY DataStays DEF BeginCall
<1>2. PICK s : s = IF c.tool \in Named \cup Flips \cup {"card"} THEN "look" ELSE "write"
  OBVIOUS
<1>3. PICK d : d = [step |-> s, call |-> c, replayed |-> FALSE, wrote |-> FALSE]
  OBVIOUS
<1>4. s \in {"look", "write"}
  BY <1>2
<1>5. d \in Doings /\ d.step = s /\ d.wrote = FALSE /\ d.replayed = FALSE
  BY <1>3, <1>4 DEF Doings
<1>6. doing' = [doing EXCEPT ![p] = d]
  BY <1>2, <1>3 DEF BeginCall
<1>7. RunTrue(d)' /\ \A key : ~Wrote(d, key)
  BY <1>4, <1>5 DEF RunTrue, Wrote
<1>8. RunsTrue'
  BY <1>1, <1>5, <1>6, <1>7, RunMoves
<1> QED BY <1>1, <1>8, ToolsParts DEF RepliesAreTrue

\* A call is abandoned.
LEMMA AbandonKeeps ==
  ASSUME ToolsInv, NEW p \in ToolRuns, Abandon(p)
  PROVE  ToolsInv'
<1>1. DataTrue' /\ effects' = effects /\ firsts' = firsts /\ reply' = NoReply
      /\ doing' = [doing EXCEPT ![p] = AtRest]
  BY DataStays DEF Abandon
<1>2. RunTrue(AtRest)' /\ \A key : ~Wrote(AtRest, key)
  BY DEF RunTrue, Wrote
<1>3. RunsTrue'
  BY <1>1, <1>2, RunMoves
<1> QED BY <1>1, <1>3, ToolsParts DEF RepliesAreTrue

\* A call that was not written is answered so, or its outcome is unknown.
LEMMA NotWritten ==
  ASSUME ToolsInv, NEW p \in ToolRuns, doing[p] # AtRest, NothingWritten, NEW said,
         said \in {"refused", "not attempted", "unknown"}, NEW wrote \in BOOLEAN,
         said # "unknown" => wrote = FALSE, Says(p, said, FALSE, wrote)
  PROVE  ToolsInv'
<1>1. DataTrue' /\ effects' = effects
  BY DataStays DEF NothingWritten
<1>2. RunsTrue' /\ RepliesAreTrue'
  BY <1>1, Saying
<1> QED BY <1>1, <1>2, ToolsParts

\* A look decides to write.
LEMMA LookWrites ==
  ASSUME ToolsInv, NEW p \in ToolRuns, doing[p] # AtRest, NothingWritten,
         NEW replayed \in BOOLEAN, Goes(p, "write", replayed, FALSE),
         doing[p].call.tool # "card" => replayed = FALSE
  PROVE  ToolsInv'
<1>1. DataTrue' /\ effects' = effects
  BY DataStays DEF NothingWritten
<1>2. RunsTrue' /\ RepliesAreTrue'
  BY <1>1, Going
<1> QED BY <1>1, <1>2, ToolsParts

\* A replay found by looking: what the call says took effect.
LEMMA LookReplays ==
  ASSUME ToolsInv, NEW p \in ToolRuns, doing[p] # AtRest, NothingWritten,
         Says(p, "committed", TRUE, FALSE),
         NEW k, k = doing[p].call,
         k.tool \notin Flips =>
             \E n \in EffectsOf(Key(k)) : effects[n] = k \/ RenamedTo(k, n)
  PROVE  ToolsInv'
<1>1. DataTrue' /\ effects' = effects
  BY DataStays DEF NothingWritten
<1>2. MayBeSaid(p, k, TRUE, FALSE)
  BY <1>1 DEF MayBeSaid
<1>3. RunsTrue' /\ RepliesAreTrue'
  BY <1>1, <1>2, Saying
<1> QED BY <1>1, <1>3, ToolsParts

\* The row of a call that bears its arguments is what the call created, or was renamed so.
LEMMA CreatedAsSaid ==
  ASSUME ToolsInv, NEW c \in ToolCalls, c.tool \in Named, Key(c) \in DOMAIN rows,
         SameArguments(c, rows[Key(c)])
  PROVE  \E n \in EffectsOf(Key(c)) : effects[n] = c \/ RenamedTo(c, n)
<1>1. Key(c)[1] \in Named
  BY CallFacts
<1>2. PICK n \in DOMAIN effects : Created(Key(c), n)
  BY <1>1 DEF ToolsInv, RowsCreated
<1>3. effects[n] \in ToolCalls
  BY DEF ToolsInv, ToolsTypeOK
<1>4. Key(effects[n]) = Key(c) /\ effects[n].parent = c.parent
  BY <1>2 DEF Created, SameArguments
<1>5. n \in EffectsOf(Key(c))
  BY <1>4 DEF EffectsOf
<1>6. CASE rows[Key(c)].name = effects[n].name
  <2>1. effects[n] = c
    BY <1>3, <1>4, <1>6, CallFacts DEF SameArguments
  <2> QED BY <1>5, <2>1
<1>7. CASE \E m \in DOMAIN effects :
             /\ m > n /\ effects[m].tool = "rename" /\ effects[m].target = Key(c)
             /\ effects[m].name = rows[Key(c)].name
  <2>1. RenamedTo(c, n)
    BY <1>7 DEF RenamedTo, SameArguments
  <2> QED BY <1>5, <2>1
<1> QED BY <1>2, <1>6, <1>7 DEF Created

\* The read before the write fails.
LEMMA LookFailsKeeps ==
  ASSUME ToolsInv, NEW p \in ToolRuns, LookFails(p)
  PROVE  ToolsInv'
BY NotWritten DEF LookFails, Looks, NothingWritten

\* A call to create looks for its row.
LEMMA LookForCreatedKeeps ==
  ASSUME ToolsInv, NEW p \in ToolRuns, LookForCreated(p)
  PROVE  ToolsInv'
<1>1. PICK c : c = doing[p].call
  OBVIOUS
<1>2. doing[p] # AtRest /\ NothingWritten /\ c.tool \in Named
  BY <1>1 DEF LookForCreated, Looks, NothingWritten
<1>3. c \in ToolCalls
  BY <1>1, <1>2, BusyFacts
<1>4. CASE Says(p, "not attempted", FALSE, FALSE) \/ Says(p, "refused", FALSE, FALSE)
  BY <1>2, <1>4, NotWritten
<1>5. CASE Goes(p, "write", FALSE, FALSE)
  BY <1>2, <1>5, LookWrites
<1>6. CASE Exists(Key(c)) /\ SameArguments(c, rows[Key(c)]) /\ Says(p, "committed", TRUE, FALSE)
  BY <1>1, <1>2, <1>3, <1>6, CreatedAsSaid, LookReplays DEF Exists
<1>7. CASE Says(p, "refused", TRUE, FALSE)
  <2>1. DataTrue' /\ effects' = effects
    BY <1>2, DataStays DEF NothingWritten
  <2>2. RunsTrue' /\ RepliesAreTrue'
    <3>1. PICK said : said = "refused"
      OBVIOUS
    <3>2. said # "committed" /\ Says(p, said, TRUE, FALSE)
      BY <1>7, <3>1
    <3> QED BY <1>1, <1>2, <2>1, <3>2, Saying
  <2> QED BY <2>1, <2>2, ToolsParts
<1> QED BY <1>1, <1>4, <1>5, <1>6, <1>7 DEF LookForCreated, EntityId

\* A call to close or reopen looks at the status.
LEMMA LookAtStatusKeeps ==
  ASSUME ToolsInv, NEW p \in ToolRuns, LookAtStatus(p)
  PROVE  ToolsInv'
<1>1. doing[p] # AtRest /\ NothingWritten /\ doing[p].call.tool \in Flips
  BY DEF LookAtStatus, Looks, NothingWritten
<1>2. CASE Says(p, "refused", FALSE, FALSE)
  BY <1>1, <1>2, NotWritten
<1>3. CASE Says(p, "committed", TRUE, FALSE)
  BY <1>1, <1>3, LookReplays
<1>4. CASE Goes(p, "write", FALSE, FALSE)
  BY <1>1, <1>4, LookWrites
<1> QED BY <1>2, <1>3, <1>4 DEF LookAtStatus

\* A call for a card looks for it.
LEMMA LookForCardKeeps ==
  ASSUME ToolsInv, NEW p \in ToolRuns, LookForCard(p)
  PROVE  ToolsInv'
<1>1. doing[p] # AtRest /\ NothingWritten /\ doing[p].call.tool = "card"
      /\ Goes(p, "write", Exists(Key(doing[p].call)), FALSE)
  BY DEF LookForCard, Looks, NothingWritten
<1>2. Exists(Key(doing[p].call)) \in BOOLEAN
  BY DEF Exists
<1> QED BY <1>1, <1>2, LookWrites

\* A step answers from the receipt, or refuses other arguments.
LEMMA FromReceiptKeeps ==
  ASSUME ToolsInv, NEW p \in ToolRuns, doing[p] # AtRest, HasReceipt(doing[p].call),
         FromReceipt(p)
  PROVE  ToolsInv'
<1>1. PICK c : c = doing[p].call
  OBVIOUS
<1>2. NothingWritten
  BY DEF FromReceipt
<1>3. DataTrue' /\ effects' = effects
  BY <1>2, DataStays DEF NothingWritten
<1>4. CASE Says(p, "refused", FALSE, FALSE)
  BY <1>2, <1>4, NotWritten
<1>5. CASE toolReceipts[Key(c)].call = c
           /\ Goes(p, "read back", c.tool # "card" \/ doing[p].replayed, FALSE)
  <2>1. Done(c)
    BY <1>1, <1>5 DEF HasReceipt, ToolsInv, ReceiptsTrue
  <2>2. Done(c)'
    BY <1>3, <2>1 DEF Done
  <2>3. PICK r \in BOOLEAN : r = (c.tool # "card" \/ doing[p].replayed)
    OBVIOUS
  <2>4. c.tool # "card" => r = TRUE
    BY <2>3
  <2>5. Goes(p, "read back", r, FALSE)
    BY <1>5, <2>3
  <2>6. RunsTrue' /\ RepliesAreTrue'
    BY <1>1, <1>3, <2>2, <2>4, <2>5, Going
  <2> QED BY <1>3, <2>6, ToolsParts
<1> QED BY <1>1, <1>4, <1>5 DEF FromReceipt

\* A commit, seen by its process.
LEMMA Committing ==
  ASSUME ToolsInv, NEW p \in ToolRuns, doing[p] # AtRest, doing[p].step = "write",
         NEW next \in {"verify", "read back"}, Commits(p, next),
         NEW k, k = doing[p].call, k.tool \notin Flips => NoEffect(Key(k))
  PROVE  RunsTrue' /\ RepliesAreTrue'
<1>1. /\ k \in ToolCalls /\ doing[p].replayed \in BOOLEAN
      /\ k.tool # "card" => doing[p].replayed = FALSE
  BY BusyFacts
<1>2. effects' = Append(effects, k)
  BY DEF Commits
<1>3. Done(k)'
  <2>1. Len(effects) + 1 \in DOMAIN effects' /\ effects'[Len(effects) + 1] = k
    BY <1>1, <1>2, AppendFacts DEF ToolsInv, ToolsTypeOK
  <2> QED BY <2>1 DEF Done
<1>4. CASE Goes(p, next, doing[p].replayed, TRUE)
  <2>1. PICK r \in BOOLEAN : r = doing[p].replayed
    BY <1>1
  <2>2. Goes(p, next, r, TRUE) /\ (k.tool # "card" => r = FALSE)
    BY <1>1, <1>4, <2>1
  <2>3. /\ next \in {"look", "write", "verify", "read back"} /\ next \notin {"look", "write"}
        /\ Done(k)' /\ (k.tool # "card" => r # TRUE)
        /\ k.tool \notin Flips => NoEffect(Key(k))
        /\ effects' = effects \/ \E c \in ToolCalls : effects' = Append(effects, c)
    BY <1>1, <1>2, <1>3, <2>2
  <2> QED BY <2>2, <2>3, Going
<1>5. CASE Says(p, "unknown", FALSE, TRUE)
  <2>1. PICK said : said = "unknown"
    OBVIOUS
  <2>2. said # "committed" /\ said \notin {"refused", "not attempted"}
        /\ Says(p, said, FALSE, TRUE)
    BY <1>5, <2>1
  <2> QED BY <1>1, <1>2, <2>2, Saying
<1> QED BY <1>4, <1>5 DEF Commits

\* What has neither a row nor a receipt has had no effect.
LEMMA NoMarkNoEffect ==
  ASSUME ToolsInv, NEW c \in ToolCalls,
         \/ c.tool \in Named /\ Key(c) \notin DOMAIN rows
         \/ c.tool \in Kept /\ Key(c) \notin DOMAIN toolReceipts
  PROVE  NoEffect(Key(c))
<1> SUFFICES ASSUME NEW n \in DOMAIN effects, Key(effects[n]) = Key(c)
             PROVE  FALSE
  BY DEF NoEffect
<1>1. effects[n] \in ToolCalls
  BY DEF ToolsInv, ToolsTypeOK
<1>2. effects[n].tool = c.tool
  BY <1>1, CallFacts
<1> QED BY <1>2 DEF ToolsInv, EffectsMarked

\* Another error before the commit.
LEMMA WriteFailsKeeps ==
  ASSUME ToolsInv, NEW p \in ToolRuns, WriteFails(p)
  PROVE  ToolsInv'
BY NotWritten DEF WriteFails

\* Adding a value to a function.
LEMMA WithFacts ==
  ASSUME NEW f, NEW id, NEW x
  PROVE  /\ DOMAIN With(f, id, x) = DOMAIN f \cup {id}
         /\ With(f, id, x)[id] = x
         /\ \A i \in DOMAIN f : i # id => With(f, id, x)[i] = f[i]
BY DEF With

\* A row as created.
LEMMA RowFacts ==
  ASSUME NEW c
  PROVE  IsRow(Row(c)) /\ Row(c).name = c.name /\ Row(c).parent = c.parent
BY DEF IsRow, Row

\* A named thing is created.
LEMMA WriteNamedKeeps ==
  ASSUME ToolsInv, NEW p \in ToolRuns, WriteNamed(p)
  PROVE  ToolsInv'
<1>1. PICK c : c = doing[p].call
  OBVIOUS
<1>2. doing[p] # AtRest /\ doing[p].step = "write" /\ c.tool \in Named
  BY <1>1 DEF WriteNamed, Writes
<1>3. c \in ToolCalls
  BY <1>1, <1>2, BusyFacts
<1>4. CASE Says(p, "unknown", FALSE, FALSE) /\ NothingWritten
  BY <1>2, <1>4, NotWritten
<1>5. CASE /\ Key(c) \notin DOMAIN rows /\ rows' = With(rows, Key(c), Row(c))
           /\ UNCHANGED toolReceipts /\ Commits(p, "read back")
  <2>1. NoEffect(Key(c))
    BY <1>2, <1>3, <1>5, NoMarkNoEffect
  <2>2. effects' = Append(effects, c)
    BY <1>1, <1>5 DEF Commits
  <2>3. /\ DOMAIN rows' = DOMAIN rows \cup {Key(c)} /\ rows'[Key(c)] = Row(c)
        /\ \A id \in DOMAIN rows : rows'[id] = rows[id]
    BY <1>5 DEF With
  <2>4. \A id \in DOMAIN rows' : IsRow(rows'[id])
    BY <2>3, RowFacts DEF ToolsInv, ToolsTypeOK, IsRow
  <2>5. /\ \A id \in DOMAIN rows' :
             \/ /\ id \in DOMAIN rows
                /\ rows'[id].name = rows[id].name /\ rows'[id].parent = rows[id].parent
             \/ id = Key(c) /\ rows'[id].name = c.name /\ rows'[id].parent = c.parent
        /\ c.tool \notin Kept
        /\ \A key \in DOMAIN toolReceipts' :
             key \in DOMAIN toolReceipts /\ toolReceipts'[key] = toolReceipts[key]
    <3>1. c.tool \notin Kept
      BY <1>2 DEF Named, Kept
    <3>2. Row(c).name = c.name /\ Row(c).parent = c.parent
      BY RowFacts
    <3> QED BY <1>5, <2>3, <3>1, <3>2
  <2>6. DataTrue'
    BY <1>2, <1>3, <1>5, <2>1, <2>2, <2>3, <2>4, <2>5, CommitData
  <2>7. RunsTrue' /\ RepliesAreTrue'
    BY <1>1, <1>2, <1>5, <2>1, Committing
  <2> QED BY <2>6, <2>7, ToolsParts
<1> QED BY <1>1, <1>4, <1>5 DEF WriteNamed, EntityId, Exists

\* An account is closed or reopened.
LEMMA WriteStatusKeeps ==
  ASSUME ToolsInv, NEW p \in ToolRuns, WriteStatus(p)
  PROVE  ToolsInv'
<1>1. PICK c : c = doing[p].call
  OBVIOUS
<1>2. doing[p] # AtRest /\ doing[p].step = "write" /\ c.tool \in Flips
  BY <1>1 DEF WriteStatus, Writes
<1>3. c \in ToolCalls
  BY <1>1, <1>2, BusyFacts
<1>4. CASE Denied(p)
  BY <1>2, <1>4, NotWritten DEF Denied
<1>5. CASE /\ rows' = [rows EXCEPT ![c.target].status = StatusAfter(c.tool)]
           /\ UNCHANGED toolReceipts /\ Commits(p, "read back")
  <2>1. effects' = Append(effects, c)
    BY <1>1, <1>5 DEF Commits
  <2>2. DOMAIN rows' = DOMAIN rows
        /\ \A id \in DOMAIN rows : id # c.target => rows'[id] = rows[id]
    BY <1>5
  <2>3. ASSUME c.target \in DOMAIN rows
        PROVE  /\ IsRow(rows'[c.target])
               /\ rows'[c.target].name = rows[c.target].name
               /\ rows'[c.target].parent = rows[c.target].parent
    <3>1. PICK r : r = rows[c.target]
      OBVIOUS
    <3>2. r = [name |-> r.name, parent |-> r.parent, status |-> r.status,
               version |-> r.version]
      BY <2>3, <3>1 DEF ToolsInv, ToolsTypeOK, IsRow
    <3>3. PICK s : s = [r EXCEPT !.status = StatusAfter(c.tool)]
      OBVIOUS
    <3>4. s = [name |-> r.name, parent |-> r.parent, status |-> StatusAfter(c.tool),
               version |-> r.version]
      BY <3>2, <3>3
    <3>5. rows'[c.target] = s
      BY <1>5, <2>3, <3>1, <3>3
    <3> QED BY <3>1, <3>4, <3>5 DEF IsRow
  <2>4. \A id \in DOMAIN rows' :
            /\ IsRow(rows'[id]) /\ id \in DOMAIN rows
            /\ rows'[id].name = rows[id].name /\ rows'[id].parent = rows[id].parent
    BY <2>2, <2>3 DEF ToolsInv, ToolsTypeOK, IsRow
  <2>5. c.tool \notin Named /\ c.tool \notin Kept
    BY <1>2 DEF Flips, Named, Kept
  <2>6. \A key \in DOMAIN toolReceipts' :
            key \in DOMAIN toolReceipts /\ toolReceipts'[key] = toolReceipts[key]
    BY <1>5
  <2>7. DataTrue'
    BY <1>2, <1>3, <1>5, <2>1, <2>2, <2>4, <2>5, <2>6, CommitData
  <2>8. RunsTrue' /\ RepliesAreTrue'
    BY <1>1, <1>2, <1>5, Committing
  <2> QED BY <2>7, <2>8, ToolsParts
<1> QED BY <1>1, <1>4, <1>5 DEF WriteStatus

\* A commit that leaves a receipt.
LEMMA ReceiptedCommit ==
  ASSUME ToolsInv, NEW p \in ToolRuns, doing[p] # AtRest, doing[p].step = "write",
         NEW c, c = doing[p].call, c.tool \in Kept, ~HasReceipt(c),
         NEW after, Receipted(c, after), NEW next \in {"verify", "read back"}, Commits(p, next),
         DOMAIN rows \subseteq DOMAIN rows',
         \A id \in DOMAIN rows' : IsRow(rows'[id]),
         \A id \in DOMAIN rows' : id[1] \in Named =>
             \/ /\ id \in DOMAIN rows
                /\ rows'[id].name = rows[id].name /\ rows'[id].parent = rows[id].parent
             \/ /\ id \in DOMAIN rows /\ c.tool = "rename" /\ c.target = id
                /\ rows'[id].name = c.name /\ rows'[id].parent = rows[id].parent
  PROVE  ToolsInv'
<1>1. c \in ToolCalls
  BY BusyFacts
<1>2. NoEffect(Key(c))
  BY <1>1, NoMarkNoEffect DEF HasReceipt
<1>3. effects' = Append(effects, c)
  BY DEF Commits
<1>4. c.tool \notin Named
  BY DEF Named, Kept
<1>5. PICK x : x = [call |-> c, after |-> after]
  OBVIOUS
<1>6. x.call = c
  BY <1>5
<1>7. toolReceipts' = With(toolReceipts, Key(c), x)
  BY <1>5 DEF Receipted
<1>8. DOMAIN toolReceipts' = DOMAIN toolReceipts \cup {Key(c)}
      /\ \A key \in DOMAIN toolReceipts' :
             \/ key \in DOMAIN toolReceipts /\ toolReceipts'[key] = toolReceipts[key]
             \/ key = Key(c) /\ toolReceipts'[key].call = c
  BY <1>6, <1>7 DEF With
<1>9. DataTrue'
  BY <1>1, <1>2, <1>3, <1>4, <1>8, CommitData
<1>10. RunsTrue' /\ RepliesAreTrue'
  BY <1>2, Committing
<1> QED BY <1>9, <1>10, ToolsParts

\* A row that no call of the named tools created, or none, is written.
LEMMA OtherRow ==
  ASSUME ToolsInv, NEW id, NEW c, rows' = With(rows, id, Row(c)), id[1] \notin Named
  PROVE  /\ DOMAIN rows \subseteq DOMAIN rows'
         /\ \A i \in DOMAIN rows' : IsRow(rows'[i])
         /\ \A i \in DOMAIN rows' : i[1] \in Named =>
                /\ i \in DOMAIN rows
                /\ rows'[i].name = rows[i].name /\ rows'[i].parent = rows[i].parent
<1>1. /\ DOMAIN rows' = DOMAIN rows \cup {id} /\ rows'[id] = Row(c)
      /\ \A i \in DOMAIN rows : i # id => rows'[i] = rows[i]
  BY DEF With
<1>2. \A i \in DOMAIN rows' : IsRow(rows'[i])
  BY <1>1, RowFacts DEF ToolsInv, ToolsTypeOK, IsRow
<1> QED BY <1>1, <1>2

\* An asset is created, or reused.
LEMMA WriteAssetKeeps ==
  ASSUME ToolsInv, NEW p \in ToolRuns, WriteAsset(p)
  PROVE  ToolsInv'
<1>1. PICK c : c = doing[p].call
  OBVIOUS
<1>2. doing[p] # AtRest /\ doing[p].step = "write" /\ c.tool = "asset"
  BY <1>1 DEF WriteAsset, Writes
<1>3. c \in ToolCalls /\ c.tool \in Kept
  BY <1>1, <1>2, BusyFacts DEF Kept
<1>4. CASE HasReceipt(c) /\ FromReceipt(p)
  BY <1>1, <1>2, <1>4, FromReceiptKeeps
<1>5. CASE Denied(p)
  BY <1>2, <1>5, NotWritten DEF Denied
<1>6. CASE /\ ~HasReceipt(c) /\ rows' = With(rows, c.target, Row(c))
           /\ Receipted(c, Row(c)) /\ Commits(p, "read back")
  <2>1. c.target[1] \notin Named
    BY <1>2, <1>3, CallsAreMade DEF Named
  <2>2. /\ DOMAIN rows \subseteq DOMAIN rows'
        /\ \A i \in DOMAIN rows' : IsRow(rows'[i])
        /\ \A i \in DOMAIN rows' : i[1] \in Named =>
               /\ i \in DOMAIN rows
               /\ rows'[i].name = rows[i].name /\ rows'[i].parent = rows[i].parent
    BY <1>6, <2>1, OtherRow
  <2> QED BY <1>1, <1>2, <1>3, <1>6, <2>2, ReceiptedCommit
<1> QED BY <1>1, <1>4, <1>5, <1>6 DEF WriteAsset

\* A card is created.
LEMMA WriteCardKeeps ==
  ASSUME ToolsInv, NEW p \in ToolRuns, WriteCard(p)
  PROVE  ToolsInv'
<1>1. PICK c : c = doing[p].call
  OBVIOUS
<1>2. doing[p] # AtRest /\ doing[p].step = "write" /\ c.tool = "card"
  BY <1>1 DEF WriteCard, Writes
<1>3. c \in ToolCalls /\ c.tool \in Kept
  BY <1>1, <1>2, BusyFacts DEF Kept
<1>4. CASE HasReceipt(c) /\ FromReceipt(p)
  BY <1>1, <1>2, <1>4, FromReceiptKeeps
<1>5. CASE Denied(p)
  BY <1>2, <1>5, NotWritten DEF Denied
<1>6. CASE /\ ~HasReceipt(c) /\ rows' = With(rows, Key(c), Row(c))
           /\ Receipted(c, Row(c)) /\ Commits(p, "read back")
  <2>1. Key(c)[1] \notin Named
    BY <1>2, <1>3, CallFacts DEF Named
  <2>2. /\ DOMAIN rows \subseteq DOMAIN rows'
        /\ \A i \in DOMAIN rows' : IsRow(rows'[i])
        /\ \A i \in DOMAIN rows' : i[1] \in Named =>
               /\ i \in DOMAIN rows
               /\ rows'[i].name = rows[i].name /\ rows'[i].parent = rows[i].parent
    BY <1>6, <2>1, OtherRow
  <2> QED BY <1>1, <1>2, <1>3, <1>6, <2>2, ReceiptedCommit
<1> QED BY <1>1, <1>4, <1>5, <1>6 DEF WriteCard

\* Something is renamed.
LEMMA WriteNameKeeps ==
  ASSUME ToolsInv, NEW p \in ToolRuns, WriteName(p)
  PROVE  ToolsInv'
<1>1. PICK c : c = doing[p].call
  OBVIOUS
<1>2. doing[p] # AtRest /\ doing[p].step = "write" /\ c.tool = "rename"
  BY <1>1 DEF WriteName, Writes
<1>3. c \in ToolCalls /\ c.tool \in Kept
  BY <1>1, <1>2, BusyFacts DEF Kept
<1>4. PICK after : after = [rows[c.target] EXCEPT !.name = c.name, !.version = @ + 1]
  OBVIOUS
<1>5. CASE HasReceipt(c) /\ FromReceipt(p)
  BY <1>1, <1>2, <1>5, FromReceiptKeeps
<1>6. CASE Denied(p)
  BY <1>2, <1>6, NotWritten DEF Denied
<1>7. CASE /\ ~HasReceipt(c) /\ c.target \in DOMAIN rows
           /\ rows' = [rows EXCEPT ![c.target] = after]
           /\ Receipted(c, after) /\ Commits(p, "verify")
  <2>1. PICK r : r = rows[c.target]
    OBVIOUS
  <2>2. r = [name |-> r.name, parent |-> r.parent, status |-> r.status,
             version |-> r.version]
    BY <1>7, <2>1 DEF ToolsInv, ToolsTypeOK, IsRow
  <2>3. PICK s : s = [r EXCEPT !.name = c.name]
    OBVIOUS
  <2>4. s = [name |-> c.name, parent |-> r.parent, status |-> r.status,
             version |-> r.version]
    BY <2>2, <2>3
  <2>5. after = [s EXCEPT !.version = r.version + 1]
    BY <1>4, <2>1, <2>3, <2>4
  <2>6. after = [name |-> c.name, parent |-> r.parent, status |-> r.status,
                 version |-> r.version + 1]
    BY <2>4, <2>5
  <2>7. /\ DOMAIN rows' = DOMAIN rows /\ rows'[c.target] = after
        /\ \A id \in DOMAIN rows : id # c.target => rows'[id] = rows[id]
    BY <1>7
  <2>8. IsRow(after) /\ after.name = c.name /\ after.parent = rows[c.target].parent
    BY <2>1, <2>6 DEF IsRow
  <2>9. \A id \in DOMAIN rows' : IsRow(rows'[id])
    BY <2>7, <2>8 DEF ToolsInv, ToolsTypeOK, IsRow
  <2>10. \A id \in DOMAIN rows' : id[1] \in Named =>
             \/ /\ id \in DOMAIN rows
                /\ rows'[id].name = rows[id].name /\ rows'[id].parent = rows[id].parent
             \/ /\ id \in DOMAIN rows /\ c.tool = "rename" /\ c.target = id
                /\ rows'[id].name = c.name /\ rows'[id].parent = rows[id].parent
    BY <1>2, <2>7, <2>8
  <2>11. DOMAIN rows \subseteq DOMAIN rows'
    BY <2>7
  <2>12. ~HasReceipt(c) /\ Receipted(c, after) /\ Commits(p, "verify")
    BY <1>7
  <2> QED BY <1>1, <1>2, <1>3, <2>9, <2>10, <2>11, <2>12, ReceiptedCommit
<1> QED BY <1>1, <1>4, <1>5, <1>6, <1>7 DEF WriteName, Exists

\* A ledger command is executed.
LEMMA WriteLedgerKeeps ==
  ASSUME ToolsInv, NEW p \in ToolRuns, WriteLedger(p)
  PROVE  ToolsInv'
<1>1. PICK c : c = doing[p].call
  OBVIOUS
<1>2. doing[p] # AtRest /\ doing[p].step = "write" /\ c.tool \in {"transfer", "reverse"}
  BY <1>1 DEF WriteLedger, Writes
<1>3. c \in ToolCalls /\ c.tool \in Kept
  BY <1>1, <1>2, BusyFacts DEF Kept
<1>4. CASE HasReceipt(c) /\ FromReceipt(p)
  BY <1>1, <1>2, <1>4, FromReceiptKeeps
<1>5. CASE /\ ~HasReceipt(c) /\ UNCHANGED rows
           /\ Receipted(c, Row(c)) /\ Commits(p, "read back")
  <2>1. /\ DOMAIN rows \subseteq DOMAIN rows'
        /\ \A i \in DOMAIN rows' : IsRow(rows'[i])
        /\ \A i \in DOMAIN rows' :
               /\ i \in DOMAIN rows
               /\ rows'[i].name = rows[i].name /\ rows'[i].parent = rows[i].parent
    BY <1>5 DEF ToolsInv, ToolsTypeOK, IsRow
  <2> QED BY <1>1, <1>2, <1>3, <1>5, <2>1, ReceiptedCommit
<1> QED BY <1>1, <1>4, <1>5 DEF WriteLedger

\* A rename is verified.
LEMMA VerifyNameKeeps ==
  ASSUME ToolsInv, NEW p \in ToolRuns, VerifyName(p)
  PROVE  ToolsInv'
<1>1. PICK c : c = doing[p].call
  OBVIOUS
<1>2. doing[p] # AtRest /\ doing[p].step \in {"verify", "read back"} /\ NothingWritten
  BY DEF VerifyName
<1>3. DataTrue' /\ effects' = effects
  BY <1>2, DataStays DEF NothingWritten
<1>4. PICK r \in BOOLEAN, w \in BOOLEAN : r = doing[p].replayed /\ w = doing[p].wrote
  BY <1>2, BusyFacts
<1>5. Done(c) /\ (c.tool # "card" => r # w)
  BY <1>1, <1>2, <1>4, BusyFacts
<1>6. Done(c)'
  BY <1>3, <1>5 DEF Done
<1>7. CASE Goes(p, "read back", doing[p].replayed, doing[p].wrote)
  <2>1. Goes(p, "read back", r, w)
    BY <1>4, <1>7
  <2>2. w = TRUE => doing[p].wrote = TRUE
    BY <1>4
  <2>3. RunsTrue' /\ RepliesAreTrue'
    BY <1>1, <1>2, <1>3, <1>5, <1>6, <2>1, <2>2, Going
  <2> QED BY <1>3, <2>3, ToolsParts
<1>8. CASE Says(p, "unknown", FALSE, doing[p].wrote)
  BY <1>2, <1>4, <1>8, NotWritten
<1> QED BY <1>7, <1>8 DEF VerifyName

\* A call is answered.
LEMMA ReadBackKeeps ==
  ASSUME ToolsInv, NEW p \in ToolRuns, ReadBack(p)
  PROVE  ToolsInv'
<1>1. PICK c : c = doing[p].call
  OBVIOUS
<1>2. doing[p] # AtRest /\ doing[p].step \in {"verify", "read back"} /\ NothingWritten
  BY DEF ReadBack
<1>3. DataTrue' /\ effects' = effects
  BY <1>2, DataStays DEF NothingWritten
<1>4. PICK r \in BOOLEAN, w \in BOOLEAN : r = doing[p].replayed /\ w = doing[p].wrote
  BY <1>2, BusyFacts
<1>5. Done(c) /\ (c.tool # "card" => r # w)
  BY <1>1, <1>2, <1>4, BusyFacts
<1>6. \E n \in EffectsOf(Key(c)) : effects[n] = c \/ RenamedTo(c, n)
  BY <1>5 DEF Done, EffectsOf
<1>7. c.tool # "card" => r # w
  BY <1>5
<1>8. r = FALSE /\ c.tool \notin Flips \cup {"card"} => doing[p].wrote = TRUE
  BY <1>4, <1>7
<1>9. Says(p, "committed", r, w)
  BY <1>4 DEF ReadBack
<1>10. MayBeSaid(p, c, r, w)
  BY <1>3, <1>6, <1>7, <1>8 DEF MayBeSaid
<1>11. RunsTrue' /\ RepliesAreTrue'
  BY <1>1, <1>2, <1>3, <1>9, <1>10, Saying
<1> QED BY <1>3, <1>11, ToolsParts

\* A step that touches no process, effect or count.
LEMMA RunsStay ==
  ASSUME ToolsInv, UNCHANGED <<doing, effects, firsts>>
  PROVE  RunsTrue'
<1>1. \A p \in ToolRuns : RunTrue(doing[p])'
  BY DEF ToolsInv, RunTrue, Done
<1>2. FirstsTrue'
  BY DEF ToolsInv, FirstsTrue, Wrote, NoEffect
<1> QED BY <1>1, <1>2 DEF RunsTrue, ToolsInv, ToolsTypeOK

\* A REST client creates a category.
LEMMA RestCategoryKeeps ==
  ASSUME ToolsInv, NEW id \in RestIds, NEW parent, RestCategory(id, parent)
  PROVE  ToolsInv'
<1>1. id[1] \notin Named
  BY DEF RestIds, Named
<1>2. PICK r : r = [name |-> "rest", parent |-> parent, status |-> "active", version |-> 1]
  OBVIOUS
<1>3. IsRow(r)
  BY <1>2 DEF IsRow
<1>4. /\ id \notin DOMAIN rows /\ rows' = With(rows, id, r) /\ reply' = NoReply
      /\ UNCHANGED <<toolReceipts, doing, effects, firsts>>
  BY <1>2 DEF RestCategory, Exists
<1>5. /\ DOMAIN rows' = DOMAIN rows \cup {id} /\ rows'[id] = r
      /\ \A i \in DOMAIN rows : rows'[i] = rows[i]
  BY <1>4 DEF With
<1>6. \A i \in DOMAIN rows' : IsRow(rows'[i])
  BY <1>3, <1>5 DEF ToolsInv, ToolsTypeOK, IsRow
<1>7. RowsCreated'
  <2> SUFFICES ASSUME NEW i \in DOMAIN rows', i[1] \in Named
               PROVE  \E n \in DOMAIN effects' : Created(i, n)'
    BY DEF RowsCreated
  <2>1. i \in DOMAIN rows /\ rows'[i] = rows[i]
    BY <1>1, <1>5
  <2> QED BY <1>4, <2>1, CreatedStays
<1>8. EffectsMarked'
  BY <1>4, <1>5 DEF ToolsInv, EffectsMarked
<1>9. DataTrue'
  BY <1>4, <1>6, <1>7, <1>8
     DEF DataTrue, ToolsInv, ToolsTypeOK, EffectsOnce, ReceiptsTrue, Done
<1>10. RunsTrue'
  BY <1>4, RunsStay
<1>11. RepliesAreTrue'
  BY <1>4 DEF RepliesAreTrue
<1> QED BY <1>9, <1>10, <1>11, ToolsParts

-----------------------------------------------------------------------------
\* Every step preserves the invariant.
LEMMA NextToolsInv == ToolsInv /\ [ToolsNext]_toolVars => ToolsInv'
<1> SUFFICES ASSUME ToolsInv, [ToolsNext]_toolVars PROVE ToolsInv'
  OBVIOUS
<1>1. ASSUME NEW p \in ToolRuns, NEW c \in ToolCalls, BeginCall(p, c) PROVE ToolsInv'
  BY <1>1, BeginCallKeeps
<1>2. ASSUME NEW p \in ToolRuns,
             \/ Abandon(p) \/ LookFails(p)
             \/ LookForCreated(p) \/ LookAtStatus(p) \/ LookForCard(p)
      PROVE  ToolsInv'
  BY <1>2, AbandonKeeps, LookFailsKeeps, LookForCreatedKeeps, LookAtStatusKeeps,
     LookForCardKeeps
<1>3. ASSUME NEW p \in ToolRuns,
             WriteFails(p) \/ WriteNamed(p) \/ WriteStatus(p) \/ WriteAsset(p) \/ WriteCard(p)
      PROVE  ToolsInv'
  BY <1>3, WriteFailsKeeps, WriteNamedKeeps, WriteStatusKeeps, WriteAssetKeeps, WriteCardKeeps
<1>4. ASSUME NEW p \in ToolRuns,
             WriteName(p) \/ WriteLedger(p) \/ VerifyName(p) \/ ReadBack(p)
      PROVE  ToolsInv'
  BY <1>4, WriteNameKeeps, WriteLedgerKeeps, VerifyNameKeeps, ReadBackKeeps
<1>5. ASSUME NEW id \in RestIds, NEW parent \in RestIds \cup {Unset}, RestCategory(id, parent)
      PROVE  ToolsInv'
  BY <1>5, RestCategoryKeeps
<1>6. CASE UNCHANGED toolVars
  <2>1. UNCHANGED <<rows, toolReceipts, doing, effects, reply, firsts>>
    BY <1>6 DEF toolVars
  <2>2. DataTrue'
    BY <2>1, DataStays
  <2>3. RunsTrue'
    BY <2>1, RunsStay
  <2>4. RepliesAreTrue'
    BY <2>1 DEF ToolsInv, RepliesAreTrue, EffectsOf, RenamedTo
  <2> QED BY <2>2, <2>3, <2>4, ToolsParts
<1> QED BY <1>1, <1>2, <1>3, <1>4, <1>5, <1>6 DEF ToolsNext

\* Type correctness of the tools' rows, effects and processes (run_mcp_tool and the
\* handlers it calls).
THEOREM ToolsTypes == ToolsSpec => []ToolsTypeOK
<1>1. ToolsInv => ToolsTypeOK
  BY DEF ToolsInv
<1> QED BY <1>1, InitToolsInv, NextToolsInv, PTL DEF ToolsSpec

\* However often an agent makes a call again it takes effect once: whatever was committed
\* left a row or a receipt by which the next run finds it (_catalog_entity_id, _write_ids,
\* CreateOrReuseAssetCommand, account_mutations).
THEOREM RetriesTakeEffectOnce == ToolsSpec => []CallsTakeEffectOnce
<1>1. ToolsInv => CallsTakeEffectOnce
  <2> SUFFICES ASSUME ToolsInv, NEW c \in ToolCalls, c.tool \notin Flips
               PROVE  Cardinality(EffectsOf(Key(c))) <= 1
    BY DEF CallsTakeEffectOnce
  <2>1. \A m, n \in EffectsOf(Key(c)) : m = n
    <3> SUFFICES ASSUME NEW m \in EffectsOf(Key(c)), NEW n \in EffectsOf(Key(c))
                 PROVE  m = n
      OBVIOUS
    <3>1. m \in DOMAIN effects /\ n \in DOMAIN effects /\ Key(effects[m]) = Key(c)
          /\ Key(effects[n]) = Key(c)
      BY DEF EffectsOf
    <3>2. effects[m] \in ToolCalls
      BY <3>1 DEF ToolsInv, ToolsTypeOK
    <3>3. effects[m].tool = c.tool
      BY <3>1, <3>2, CallFacts
    <3> QED BY <3>1, <3>3 DEF ToolsInv, EffectsOnce
  <2>2. CASE EffectsOf(Key(c)) = {}
    BY <2>2, FS_EmptySet
  <2>3. CASE EffectsOf(Key(c)) # {}
    <3>1. PICK n : EffectsOf(Key(c)) = {n}
      BY <2>1, <2>3
    <3>2. Cardinality({n}) = 1
      BY FS_Singleton
    <3> QED BY <3>1, <3>2
  <2> QED BY <2>2, <2>3
<1> QED BY <1>1, InitToolsInv, NextToolsInv, PTL DEF ToolsSpec

\* What an agent is told is so: "committed" of just these arguments, "replayed" of every run
\* but the one that wrote, one first answer at most, and nothing written where the answer
\* says so (_call_catalog_write, _write_response).
THEOREM AgentsAreToldTheTruth == ToolsSpec => []RepliesAreTrue
<1>1. ToolsInv => RepliesAreTrue
  BY DEF ToolsInv
<1> QED BY <1>1, InitToolsInv, NextToolsInv, PTL DEF ToolsSpec
================================================================================
