--------------------------- MODULE PermissionCache ---------------------------
(***************************************************************************)
(* The permission manager (internal/permission/manager.go): command        *)
(* handlers look a player's level up in one shared cache with one expiry,  *)
(* and fetch the whole listing from the permission API when the cache has  *)
(* expired or does not know the player.  Nothing keeps fetches from        *)
(* overlapping, so answers may be stored out of order.                     *)
(*                                                                         *)
(* Time is counted in ticks: ages say how long ago something happened and  *)
(* saturate where no comparison tells them apart.  A fetch may take up to  *)
(* FetchTimeout ticks, everything else takes no time.                      *)
(***************************************************************************)
EXTENDS Integers

CONSTANTS
    Users,
    Callers,       \* onCommandExecute handlers of admin commands
    Levels,        \* permission levels the API hands out
    CacheTTL,
    FetchTimeout,  \* the HTTP client's timeout
    Absent         \* stands for a user that is not listed

LevelAdmin == 3

ASSUME PermissionAssumption ==
    /\ Levels \subseteq Nat
    /\ CacheTTL \in Nat
    /\ FetchTimeout \in Nat
    /\ Absent \notin Levels

VARIABLES
    listing,   \* what the API knows
    changed,   \* per user: ticks since that changed
    cache,     \* p.cache
    cacheAge,  \* ticks since the cache was filled, saturating once expired
    pc,        \* where each handler is in GetPermissionLevel
    user,      \* whose level it looks up
    seen,      \* what its first look found in the cache
    reply,     \* the listing in the response to its fetch
    fetchAge,  \* ticks since it sent its request
    fresh,     \* its answer comes from a valid cache or from its own fetch
    level      \* the level it decides by

apiVars == <<listing, changed>>
cacheVars == <<cache, cacheAge>>
callVars == <<pc, user, seen, reply, fetchAge, fresh, level>>
vars == <<apiVars, cacheVars, callVars>>

Entry == Levels \cup {Absent}
Fetching == {"sent", "answered"}
CallPC == Fetching \cup {"idle", "reread", "decided"}

Expired == CacheTTL + 1
LongAgo == CacheTTL + FetchTimeout + 1

\* A missing map entry reads as level 0.
LevelOf(e) == IF e = Absent THEN 0 ELSE e
IsAdmin(l) == l > LevelAdmin

TypeOK ==
    /\ listing \in [Users -> Entry]
    /\ changed \in [Users -> 0 .. LongAgo]
    /\ cache \in [Users -> Entry]
    /\ cacheAge \in 0 .. Expired
    /\ pc \in [Callers -> CallPC]
    /\ user \in [Callers -> Users]
    /\ seen \in [Callers -> Entry]
    /\ reply \in [Callers -> [Users -> Entry]]
    /\ fetchAge \in [Callers -> 0 .. FetchTimeout]
    /\ fresh \in [Callers -> BOOLEAN]
    /\ level \in [Callers -> Levels \cup {0}]

\* NewManager: an empty cache, expired from the start.
Init ==
    /\ listing \in [Users -> Entry]
    /\ changed = [u \in Users |-> LongAgo]
    /\ cache = [u \in Users |-> Absent]
    /\ cacheAge = Expired
    /\ pc = [c \in Callers |-> "idle"]
    /\ user \in [Callers -> Users]
    /\ seen = [c \in Callers |-> Absent]
    /\ reply = [c \in Callers |-> [u \in Users |-> Absent]]
    /\ fetchAge = [c \in Callers |-> 0]
    /\ fresh = [c \in Callers |-> FALSE]
    /\ level = [c \in Callers |-> 0]

Older(age, cap) == IF age < cap THEN age + 1 ELSE age

-----------------------------------------------------------------------------
(* The API and time *)

ApiChanges(u) ==
    /\ \E e \in Entry \ {listing[u]} : listing' = [listing EXCEPT ![u] = e]
    /\ changed' = [changed EXCEPT ![u] = 0]
    /\ UNCHANGED <<cacheVars, callVars>>

\* Faulty: a client without a timeout.
TickWithoutTimeout ==
    /\ \A c \in Callers : pc[c] # "reread"
    /\ changed' = [u \in Users |-> Older(changed[u], LongAgo)]
    /\ cacheAge' = Older(cacheAge, Expired)
    /\ fetchAge' = [c \in Callers |->
           IF pc[c] \in Fetching THEN Older(fetchAge[c], FetchTimeout + 1)
                                 ELSE 0]
    /\ UNCHANGED <<listing, cache, pc, user, seen, reply, fresh, level>>

\* No fetch outlives its timeout, and a handler rereads without delay.
Tick ==
    /\ \A c \in Callers :
           /\ pc[c] \in Fetching => fetchAge[c] < FetchTimeout
           /\ pc[c] # "reread"
    /\ changed' = [u \in Users |-> Older(changed[u], LongAgo)]
    /\ cacheAge' = Older(cacheAge, Expired)
    /\ fetchAge' = [c \in Callers |->
           IF pc[c] \in Fetching THEN fetchAge[c] + 1 ELSE 0]
    /\ UNCHANGED <<listing, cache, pc, user, seen, reply, fresh, level>>

-----------------------------------------------------------------------------
(* GetPermissionLevel and fetchPermissions *)

Decide(c, l, isFresh) ==
    /\ pc' = [pc EXCEPT ![c] = "decided"]
    /\ level' = [level EXCEPT ![c] = l]
    /\ fresh' = [fresh EXCEPT ![c] = isFresh]

\* Faulty: every lookup prolongs the cache's life.
CacheHitProlongs(c, u) ==
    /\ pc[c] = "idle"
    /\ cacheAge <= CacheTTL
    /\ cache[u] # Absent
    /\ cacheAge' = 0
    /\ user' = [user EXCEPT ![c] = u]
    /\ Decide(c, LevelOf(cache[u]), TRUE)
    /\ UNCHANGED <<apiVars, cache, seen, reply, fetchAge>>

\* A player enters an admin command, and the cache has the level.
CacheHit(c, u) ==
    /\ pc[c] = "idle"
    /\ cacheAge <= CacheTTL
    /\ cache[u] # Absent
    /\ user' = [user EXCEPT ![c] = u]
    /\ Decide(c, LevelOf(cache[u]), TRUE)
    /\ UNCHANGED <<apiVars, cacheVars, seen, reply, fetchAge>>

CacheMiss(c, u) ==
    /\ pc[c] = "idle"
    /\ cacheAge > CacheTTL \/ cache[u] = Absent
    /\ pc' = [pc EXCEPT ![c] = "sent"]
    /\ user' = [user EXCEPT ![c] = u]
    /\ seen' = [seen EXCEPT ![c] = cache[u]]
    /\ fetchAge' = [fetchAge EXCEPT ![c] = 0]
    /\ UNCHANGED <<apiVars, cacheVars, reply, fresh, level>>

ApiAnswers(c) ==
    /\ pc[c] = "sent"
    /\ pc' = [pc EXCEPT ![c] = "answered"]
    /\ reply' = [reply EXCEPT ![c] = listing]
    /\ UNCHANGED <<apiVars, cacheVars, user, seen, fetchAge, fresh, level>>

\* success=false is no error: nothing is stored, the old entry is read again.
ApiRefuses(c) ==
    /\ pc[c] = "sent"
    /\ pc' = [pc EXCEPT ![c] = "reread"]
    /\ fresh' = [fresh EXCEPT ![c] = FALSE]
    /\ UNCHANGED <<apiVars, cacheVars, user, seen, reply, fetchAge, level>>

\* No response in time, or one that cannot be read: the level seen before.
FetchFails(c) ==
    /\ pc[c] \in Fetching
    /\ Decide(c, LevelOf(seen[c]), FALSE)
    /\ UNCHANGED <<apiVars, cacheVars, user, seen, reply, fetchAge>>

\* Faulty: the listing is merged into the cache.
StoreMerges(c) ==
    /\ pc[c] = "answered"
    /\ cache' = [u \in Users |-> IF reply[c][u] = Absent THEN cache[u]
                                                         ELSE reply[c][u]]
    /\ cacheAge' = 0
    /\ pc' = [pc EXCEPT ![c] = "reread"]
    /\ fresh' = [fresh EXCEPT ![c] = TRUE]
    /\ UNCHANGED <<apiVars, user, seen, reply, fetchAge, level>>

\* The whole map is replaced, whatever others have stored meanwhile.
Store(c) ==
    /\ pc[c] = "answered"
    /\ cache' = reply[c]
    /\ cacheAge' = 0
    /\ pc' = [pc EXCEPT ![c] = "reread"]
    /\ fresh' = [fresh EXCEPT ![c] = TRUE]
    /\ UNCHANGED <<apiVars, user, seen, reply, fetchAge, level>>

\* Faulty: the level seen before the fetch is returned after it.
RereadForgotten(c) ==
    /\ pc[c] = "reread"
    /\ Decide(c, LevelOf(seen[c]), fresh[c])
    /\ UNCHANGED <<apiVars, cacheVars, user, seen, reply, fetchAge>>

Reread(c) ==
    /\ pc[c] = "reread"
    /\ Decide(c, LevelOf(cache[user[c]]), fresh[c])
    /\ UNCHANGED <<apiVars, cacheVars, user, seen, reply, fetchAge>>

\* CanExecute returns; what was local to the handler is gone.
Return(c) ==
    /\ pc[c] = "decided"
    /\ pc' = [pc EXCEPT ![c] = "idle"]
    /\ seen' = [seen EXCEPT ![c] = Absent]
    /\ reply' = [reply EXCEPT ![c] = [u \in Users |-> Absent]]
    /\ fetchAge' = [fetchAge EXCEPT ![c] = 0]
    /\ fresh' = [fresh EXCEPT ![c] = FALSE]
    /\ level' = [level EXCEPT ![c] = 0]
    /\ UNCHANGED <<apiVars, cacheVars, user>>

-----------------------------------------------------------------------------

CallStep(c) ==
    \/ ApiAnswers(c) \/ ApiRefuses(c) \/ FetchFails(c)
    \/ Store(c) \/ Reread(c) \/ Return(c)

Next ==
    \/ Tick
    \/ \E u \in Users :
           \/ ApiChanges(u)
           \/ \E c \in Callers : CacheHit(c, u) \/ CacheMiss(c, u)
    \/ \E c \in Callers : CallStep(c)

Spec == Init /\ [][Next]_vars

(***************************************************************************)
(* Time passes, and a handler whose fetch has a timeout runs on.  Nobody   *)
(* has to enter commands, and the API changes and fails as it likes.       *)
(***************************************************************************)
FairSpec == Spec /\ SF_vars(Tick) /\ \A c \in Callers : WF_vars(CallStep(c))

-----------------------------------------------------------------------------
(* Properties *)

\* The API has had its present entry for u for more than n ticks.
SettledFor(u, n) == changed[u] > n

(***************************************************************************)
(* However fetches overlap and in whatever order their answers are stored, *)
(* the cache differs from the API only in what changed since it was        *)
(* filled, or during the fetch that filled it.                             *)
(***************************************************************************)
CacheIsRecent ==
    \A u \in Users : SettledFor(u, cacheAge + FetchTimeout)
                     => cache[u] = listing[u]

(***************************************************************************)
(* A handler whose lookup hits, or whose own fetch succeeds, decides by    *)
(* the user's present level unless that level changed less than a cache    *)
(* lifetime and a fetch ago ("Cached permission lookups", README.md:57).   *)
(* After a fetch of its own the lifetime does not count.                   *)
(***************************************************************************)
AnswersAreRecent ==
    [][\A c \in Callers :
           /\ \A u \in Users :
                  CacheHit(c, u) /\ SettledFor(u, CacheTTL + FetchTimeout)
                  => IsAdmin(level'[c]) = IsAdmin(LevelOf(listing[u]))
           /\ Reread(c) /\ fresh[c] /\ SettledFor(user[c], FetchTimeout)
              => IsAdmin(level'[c]) = IsAdmin(LevelOf(listing[user[c]]))
      ]_vars

(***************************************************************************)
(* Stale levels do not last: if a user's entry changes no more and fetches *)
(* succeed from some time on, then from some time on every decision about  *)
(* this user is the right one, whatever old answers were still under way.  *)
(***************************************************************************)
AnswersConverge ==
    \A u \in Users :
        /\ <>[][~ApiChanges(u)]_vars
        /\ <>[][\A c \in Callers : ~FetchFails(c) /\ ~ApiRefuses(c)]_vars
        => <>[](\A c \in Callers :
                    pc[c] = "decided" /\ user[c] = u
                    => level[c] = LevelOf(listing[u]))
=============================================================================
