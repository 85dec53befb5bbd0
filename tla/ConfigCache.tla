---------------------------- MODULE ConfigCache ----------------------------
(***************************************************************************)
(* Configuration values (src/utils/configs.go) read through an expiring    *)
(* LRU cache (src/utils/caches.go).  Goroutines read, write and load; each *)
(* call on the cache and each statement on the database is a step, and     *)
(* nothing holds a lock across two of them.                                *)
(***************************************************************************)
EXTENDS Naturals, FiniteSets

CONSTANTS Keys, Users, MaxWrites, MaxAge, NoValue

ASSUME ConfigAssumption == MaxWrites \in Nat /\ MaxAge \in Nat

VARIABLES
  stored,     \* the database: the number of the write that set each key
  autoload,   \* keys whose row has the autoload flag
  public,     \* keys whose row has the public flag
  cached,     \* configValueCache: value and age of an entry
  user,       \* what each goroutine is doing
  writes      \* writes so far

configVars == <<stored, autoload, public, cached, user, writes>>

CacheEntry == [value : 0 .. MaxWrites, age : 0 .. MaxAge + 1]
Waiting == [doing |-> "nothing"]

ConfigInit ==
  /\ stored = [k \in Keys |-> 0]
  /\ autoload = {} /\ public = {}
  /\ cached = [k \in Keys |-> NoValue]
  /\ user = [u \in Users |-> Waiting]
  /\ writes = 0

Becomes(u, activity) == user' = [user EXCEPT ![u] = activity]
Rests(u) == Becomes(u, Waiting)

-----------------------------------------------------------------------------
(***************************************************************************)
(* The cache.  An entry keeps the time it was added; its age passes, and a *)
(* full cache may evict any entry.                                         *)
(***************************************************************************)
RemoveEntry(k) == cached' = [cached EXCEPT ![k] = NoValue]
AddEntry(k, v) == cached' = [cached EXCEPT ![k] = [value |-> v, age |-> 0]]
IsOld(k) == cached[k].age > MaxAge

Grow(k) ==
  /\ cached[k] # NoValue /\ ~IsOld(k)
  /\ cached' = [cached EXCEPT ![k].age = @ + 1]
  /\ UNCHANGED <<stored, autoload, public, user, writes>>

Evict(k) ==
  /\ cached[k] # NoValue
  /\ RemoveEntry(k)
  /\ UNCHANGED <<stored, autoload, public, user, writes>>

-----------------------------------------------------------------------------
(***************************************************************************)
(* GetValue: a hit, or an old entry that is removed by its key after the   *)
(* look, or a miss; after a miss the row is read and then cached.          *)
(***************************************************************************)
\* Fault for ServicesLive: a hit makes the entry young again.
HitRenews(u, k) == cached' = [cached EXCEPT ![k].age = 0]

Hit(u, k) == UNCHANGED cached

GetValue(u, k) ==
  /\ user[u] = Waiting
  /\ \/ cached[k] # NoValue /\ ~IsOld(k) /\ Hit(u, k) /\ UNCHANGED user
     \/ cached[k] # NoValue /\ IsOld(k)
          /\ Becomes(u, [doing |-> "drop", key |-> k]) /\ UNCHANGED cached
     \/ cached[k] = NoValue
          /\ Becomes(u, [doing |-> "read", key |-> k]) /\ UNCHANGED cached
  /\ UNCHANGED <<stored, autoload, public, writes>>

DropOld(u) ==
  /\ user[u].doing = "drop"
  /\ RemoveEntry(user[u].key)
  /\ Becomes(u, [doing |-> "read", key |-> user[u].key])
  /\ UNCHANGED <<stored, autoload, public, writes>>

\* A row that is missing, or a failing database, ends the call.
ReadRow(u) ==
  /\ user[u].doing = "read"
  /\ \/ Rests(u)
     \/ LET k == user[u].key IN
        stored[k] # 0 /\ Becomes(u, [doing |-> "add", values |-> {<<k, stored[k]>>}])
  /\ UNCHANGED <<stored, autoload, public, cached, writes>>

\* LoadAutoloads and LoadPublicConfigs read all rows with the flag and add
\* them one by one, with no regard to what the cache holds by then.
LoadFlagged(u, flagged) ==
  /\ user[u] = Waiting
  /\ Becomes(u, [doing |-> "add", values |-> {<<k, stored[k]>> : k \in flagged}])
  /\ UNCHANGED <<stored, autoload, public, cached, writes>>

LoadAutoloads(u)     == LoadFlagged(u, autoload)
LoadPublicConfigs(u) == LoadFlagged(u, public)

AddNext(u) ==
  /\ user[u].doing = "add"
  /\ \/ /\ user[u].values = {} /\ Rests(u) /\ UNCHANGED cached
     \/ \E pair \in user[u].values :
          /\ AddEntry(pair[1], pair[2])
          /\ Becomes(u, [user[u] EXCEPT !.values = @ \ {pair}])
  /\ UNCHANGED <<stored, autoload, public, writes>>

-----------------------------------------------------------------------------
(***************************************************************************)
(* SetValue removes the cached value and then writes the row; a failing    *)
(* write is logged and leaves the old row.  CheckValue only inserts.       *)
(***************************************************************************)
SetValue(u, k, isAutoload, isPublic) ==
  /\ user[u] = Waiting /\ writes < MaxWrites
  /\ RemoveEntry(k)
  /\ Becomes(u, [doing |-> "write", key |-> k, value |-> writes + 1,
                  autoload |-> isAutoload, public |-> isPublic])
  /\ writes' = writes + 1
  /\ UNCHANGED <<stored, autoload, public>>

Flag(set, k, on) == IF on THEN set \union {k} ELSE set \ {k}

WriteRow(u) ==
  /\ user[u].doing = "write"
  /\ \/ LET k == user[u].key IN
        /\ stored' = [stored EXCEPT ![k] = user[u].value]
        /\ autoload' = Flag(autoload, k, user[u].autoload)
        /\ public' = Flag(public, k, user[u].public)
     \/ UNCHANGED <<stored, autoload, public>>
  /\ Rests(u)
  /\ UNCHANGED <<cached, writes>>

CheckValue(k, isAutoload, isPublic) ==
  /\ stored[k] = 0 /\ writes < MaxWrites
  /\ writes' = writes + 1
  /\ stored' = [stored EXCEPT ![k] = writes + 1]
  /\ autoload' = Flag(autoload, k, isAutoload)
  /\ public' = Flag(public, k, isPublic)
  /\ UNCHANGED <<cached, user>>

UserProceeds(u) == DropOld(u) \/ ReadRow(u) \/ AddNext(u) \/ WriteRow(u)

ConfigNext ==
  \/ \E k \in Keys : \/ Grow(k) \/ Evict(k)
                     \/ \E a, p \in BOOLEAN : CheckValue(k, a, p)
  \/ \E u \in Users :
       \/ \E k \in Keys : \/ GetValue(u, k)
                          \/ \E a, p \in BOOLEAN : SetValue(u, k, a, p)
       \/ LoadAutoloads(u) \/ LoadPublicConfigs(u) \/ UserProceeds(u)

ConfigSpec == ConfigInit /\ [][ConfigNext]_configVars

\* Time passes, and a call that has begun goes on.
ConfigFairness ==
  /\ \A k \in Keys : WF_configVars(Grow(k))
  /\ \A u \in Users : WF_configVars(UserProceeds(u))

ConfigFairSpec == ConfigSpec /\ ConfigFairness

-----------------------------------------------------------------------------
ConfigTypeOK ==
  /\ stored \in [Keys -> 0 .. MaxWrites]
  /\ autoload \subseteq Keys /\ public \subseteq Keys
  /\ cached \in [Keys -> CacheEntry \union {NoValue}]
  /\ writes \in 0 .. MaxWrites

(***************************************************************************)
(* StaleValuesLeave (SetValue against GetValue and the loaders): a reader  *)
(* may put an old value back after SetValue has removed it, but when the   *)
(* rows no longer change, the cache holds no other value than the row's    *)
(* from some moment on, except in an entry that is too old to be returned. *)
(***************************************************************************)
Fresh(k) == cached[k] # NoValue /\ ~IsOld(k) => cached[k].value = stored[k]

StaleValuesLeave == \A k \in Keys : <>[]Fresh(k)
=============================================================================
