------------------------ MODULE PermissionCacheProofs ------------------------
(***************************************************************************)
(* Proofs about PermissionCache for any users, callers, lifetime and       *)
(* timeout.                                                                *)
(***************************************************************************)
EXTENDS PermissionCache, TLAPS

\* A response differs from the API only in what changed since its request.
RepliesAreRecent ==
    \A c \in Callers, u \in Users :
        pc[c] = "answered" /\ SettledFor(u, fetchAge[c])
        => reply[c][u] = listing[u]

\* A handler rereads the cache in the tick in which it was filled.
RereadsAtOnce == \A c \in Callers : pc[c] = "reread" /\ fresh[c] => cacheAge = 0

IInv ==
    /\ TypeOK
    /\ RepliesAreRecent
    /\ CacheIsRecent
    /\ RereadsAtOnce

-----------------------------------------------------------------------------

LEMMA LevelOfType == \A e \in Entry : LevelOf(e) \in Levels \cup {0}
BY DEF Entry, LevelOf

LEMMA OlderType ==
    ASSUME NEW cap \in Nat, NEW age \in 0 .. cap
    PROVE  /\ Older(age, cap) \in 0 .. cap
           /\ Older(age, cap) >= age
           /\ Older(age, cap) <= age + 1
           /\ age < cap => Older(age, cap) = age + 1
BY DEF Older

LEMMA InitIInv == Init => IInv
<1> SUFFICES ASSUME Init PROVE IInv
  OBVIOUS
<1> USE PermissionAssumption DEF Init, LongAgo, Expired
<1>1. TypeOK
  BY DEF TypeOK, Entry, CallPC, Fetching
<1>2. RepliesAreRecent /\ RereadsAtOnce
  BY DEF RepliesAreRecent, RereadsAtOnce
<1>3. CacheIsRecent
  BY DEF CacheIsRecent, SettledFor
<1> QED BY <1>1, <1>2, <1>3 DEF IInv

LEMMA NextTypeOK ==
    ASSUME TypeOK, [Next]_vars
    PROVE  TypeOK'
<1> USE PermissionAssumption
    DEF TypeOK, apiVars, cacheVars, callVars, CallPC, Fetching
<1>1. CASE Tick
  <2>1. \A u \in Users : Older(changed[u], LongAgo) \in 0 .. LongAgo
    BY OlderType DEF LongAgo
  <2>2. Older(cacheAge, Expired) \in 0 .. Expired
    BY OlderType DEF Expired
  <2>3. fetchAge' \in [Callers -> 0 .. FetchTimeout]
    BY <1>1 DEF Tick
  <2> QED BY <1>1, <2>1, <2>2, <2>3 DEF Tick
<1>2. ASSUME NEW u \in Users, ApiChanges(u) PROVE TypeOK'
  BY <1>2 DEF ApiChanges, LongAgo
<1>3. ASSUME NEW u \in Users, NEW c \in Callers, CacheHit(c, u) PROVE TypeOK'
  BY <1>3, LevelOfType DEF CacheHit, Decide
<1>4. ASSUME NEW u \in Users, NEW c \in Callers, CacheMiss(c, u) PROVE TypeOK'
  BY <1>4 DEF CacheMiss
<1>5. ASSUME NEW c \in Callers, CallStep(c) PROVE TypeOK'
  <2>1. CASE ApiAnswers(c) \/ ApiRefuses(c)
    BY <2>1 DEF ApiAnswers, ApiRefuses
  <2>2. CASE FetchFails(c) \/ Reread(c)
    <3>1. /\ LevelOf(seen[c]) \in Levels \cup {0}
          /\ LevelOf(cache[user[c]]) \in Levels \cup {0}
      BY LevelOfType
    <3> HIDE DEF LevelOf
    <3>2. CASE FetchFails(c)
      BY <3>1, <3>2 DEF FetchFails, Decide
    <3>3. CASE Reread(c)
      BY <3>1, <3>3 DEF Reread, Decide
    <3> QED BY <2>2, <3>2, <3>3
  <2>3. CASE Store(c)
    BY <2>3 DEF Store, Expired
  <2>4. CASE Return(c)
    BY <2>4 DEF Return, Entry
  <2> QED BY <1>5, <2>1, <2>2, <2>3, <2>4 DEF CallStep
<1>6. CASE UNCHANGED vars
  BY <1>6 DEF vars
<1> QED BY <1>1, <1>2, <1>3, <1>4, <1>5, <1>6 DEF Next

LEMMA NextRecent ==
    ASSUME IInv, [Next]_vars
    PROVE  RepliesAreRecent' /\ CacheIsRecent' /\ RereadsAtOnce'
<1> USE PermissionAssumption
    DEF IInv, TypeOK, RepliesAreRecent, CacheIsRecent, RereadsAtOnce,
        SettledFor, apiVars, cacheVars, callVars
<1>1. CASE Tick
  <2> DEFINE older(u) == Older(changed[u], LongAgo)
  <2>1. \A u \in Users : /\ changed'[u] = older(u)
                         /\ older(u) \in Nat
                         /\ older(u) <= changed[u] + 1
                         /\ older(u) <= LongAgo
    BY <1>1, OlderType DEF Tick, LongAgo
  <2>2. \/ cacheAge' = cacheAge + 1
        \/ cacheAge' = Expired
    BY <1>1 DEF Tick, Older, Expired
  <2> HIDE DEF older
  <2>3. RepliesAreRecent'
    BY <1>1, <2>1 DEF Tick, Fetching
  <2>4. CacheIsRecent'
    BY <1>1, <2>1, <2>2 DEF Tick, Expired, LongAgo
  <2>5. RereadsAtOnce'
    BY <1>1 DEF Tick
  <2> QED BY <2>3, <2>4, <2>5
<1>2. ASSUME NEW u \in Users, ApiChanges(u)
      PROVE  RepliesAreRecent' /\ CacheIsRecent' /\ RereadsAtOnce'
  BY <1>2 DEF ApiChanges
<1>3. ASSUME NEW u \in Users, NEW c \in Callers, CacheHit(c, u) \/ CacheMiss(c, u)
      PROVE  RepliesAreRecent' /\ CacheIsRecent' /\ RereadsAtOnce'
  <2>1. CASE CacheHit(c, u)
    <3>1. /\ UNCHANGED <<listing, changed, cache, cacheAge, reply, fetchAge>>
          /\ \A d \in Callers : pc'[d] \in {"answered", "reread"} =>
                 pc[d] = pc'[d] /\ fresh'[d] = fresh[d]
      BY <2>1 DEF CacheHit, Decide
    <3> QED BY <3>1
  <2>2. CASE CacheMiss(c, u)
    <3>1. /\ UNCHANGED <<listing, changed, cache, cacheAge, reply, fresh>>
          /\ \A d \in Callers : pc'[d] \in {"answered", "reread"} =>
                 pc[d] = pc'[d] /\ fetchAge'[d] = fetchAge[d]
      BY <2>2 DEF CacheMiss
    <3> QED BY <3>1
  <2> QED BY <1>3, <2>1, <2>2
<1>4. ASSUME NEW c \in Callers, CallStep(c)
      PROVE  RepliesAreRecent' /\ CacheIsRecent' /\ RereadsAtOnce'
  <2>1. CASE ApiAnswers(c)
    BY <2>1 DEF ApiAnswers
  <2>2. CASE ApiRefuses(c) \/ FetchFails(c) \/ Reread(c) \/ Return(c)
    <3>1. /\ UNCHANGED <<listing, changed, cache, cacheAge>>
          /\ \A d \in Callers \ {c} : /\ pc'[d] = pc[d] /\ fresh'[d] = fresh[d]
                                       /\ reply'[d] = reply[d]
                                       /\ fetchAge'[d] = fetchAge[d]
          /\ pc'[c] # "answered"
          /\ pc'[c] = "reread" => ~fresh'[c]
      BY <2>2 DEF ApiRefuses, FetchFails, Reread, Return, Decide
    <3> QED BY <3>1
  <2>3. CASE Store(c)
    BY <2>3 DEF Store
  <2> QED BY <1>4, <2>1, <2>2, <2>3 DEF CallStep
<1>5. CASE UNCHANGED vars
  BY <1>5 DEF vars
<1> QED BY <1>1, <1>2, <1>3, <1>4, <1>5 DEF Next

(***************************************************************************)
(* What every reachable state satisfies: the recency of a response turns   *)
(* into that of the cache when it is stored.                               *)
(***************************************************************************)
THEOREM InductiveInvariant == Spec => []IInv
<1>1. ASSUME IInv, [Next]_vars PROVE IInv'
  BY <1>1, NextTypeOK, NextRecent DEF IInv
<1> QED BY <1>1, InitIInv, PTL DEF Spec

(***************************************************************************)
(* Every variable keeps its type; no fetch outlives its timeout.           *)
(***************************************************************************)
THEOREM TypeCorrect == Spec => []TypeOK
<1>1. IInv => TypeOK
  BY DEF IInv
<1> QED BY <1>1, InductiveInvariant, PTL

(***************************************************************************)
(* The cache lags behind the API by its age and a fetch at most, whatever  *)
(* fetches overlap and overwrite each other.                               *)
(***************************************************************************)
THEOREM CacheStaysRecent == Spec => []CacheIsRecent
<1>1. IInv => CacheIsRecent
  BY DEF IInv
<1> QED BY <1>1, InductiveInvariant, PTL

(***************************************************************************)
(* A lookup that hits decides by a level that was current at most a cache  *)
(* lifetime and a fetch ago, one that fetched by a level current at most   *)
(* a fetch ago.                                                            *)
(***************************************************************************)
THEOREM DecisionsAreRecent == Spec => AnswersAreRecent
<1> USE PermissionAssumption DEF IInv, TypeOK, CacheIsRecent, SettledFor
<1>1. ASSUME IInv, NEW c \in Callers, NEW u \in Users, CacheHit(c, u),
             SettledFor(u, CacheTTL + FetchTimeout)
      PROVE  IsAdmin(level'[c]) = IsAdmin(LevelOf(listing[u]))
  <2>1. cache[u] = listing[u]
    BY <1>1 DEF CacheHit
  <2> QED BY <1>1, <2>1 DEF CacheHit, Decide
<1>2. ASSUME IInv, NEW c \in Callers, Reread(c), fresh[c],
             SettledFor(user[c], FetchTimeout)
      PROVE  IsAdmin(level'[c]) = IsAdmin(LevelOf(listing[user[c]]))
  <2>1. cacheAge = 0 /\ user[c] \in Users
    BY <1>2 DEF Reread, RereadsAtOnce
  <2>2. cache[user[c]] = listing[user[c]]
    BY <1>2, <2>1
  <2> QED BY <1>2, <2>2 DEF Reread, Decide
<1>3. IInv /\ [Next]_vars =>
          [\A c \in Callers :
               /\ \A u \in Users :
                      CacheHit(c, u) /\ SettledFor(u, CacheTTL + FetchTimeout)
                      => IsAdmin(level'[c]) = IsAdmin(LevelOf(listing[u]))
               /\ Reread(c) /\ fresh[c] /\ SettledFor(user[c], FetchTimeout)
                  => IsAdmin(level'[c]) = IsAdmin(LevelOf(listing[user[c]]))
          ]_vars
  BY <1>1, <1>2
<1> QED BY <1>3, InductiveInvariant, PTL DEF Spec, AnswersAreRecent
=============================================================================
