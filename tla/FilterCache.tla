---------------------------- MODULE FilterCache ----------------------------
(***************************************************************************)
(* GetDimensionValues (src/api/filters.go): the values a page may offer as *)
(* filters on a dimension, read through filterMemoryCache, a sync.Map from *)
(* datasource|druid-field to values and an expiry.                         *)
(*                                                                         *)
(* The handler stamps `now`, loads the entry, and on a miss reads the      *)
(* caller's access filters, asks Druid and stores the answer until         *)
(* now + 1h.  Any number of calls run these steps interleaved, while the   *)
(* clock, the data and the users file move on.                             *)
(*                                                                         *)
(* Access filters are abstracted to the set of values whose rows pass      *)
(* them; somebody without filters (an admin) passes every value.           *)
(***************************************************************************)
EXTENDS Naturals, FiniteSets

CONSTANTS
    Calls,          \* concurrent calls of POST /api/filters/values
    Users, Admins,  \* who calls; Admins have no access filters
    Keys,           \* "datasource|druid field"
    Values,         \* the values of a dimension
    TTL,            \* the hour, in ticks of the clock
    MaxClock,       \* bound on the clock
    MaxEdits,       \* bound on changes of the users file and of Druid's data
    UsersMayFail,   \* TRUE: the users file may be unreadable for a moment
    Nobody          \* no user

ASSUME UserAssumption == Admins \subseteq Users /\ Nobody \notin Users
ASSUME SwitchAssumption == UsersMayFail \in BOOLEAN
ASSUME TimeAssumption == TTL \in Nat \ {0} /\ MaxClock \in Nat \ {0} /\ MaxEdits \in Nat
ASSUME KeyAssumption == Keys # {}

VARIABLES
    clock,
    druid,      \* key -> values present in Druid's data
    access,     \* user -> values that pass the user's filters in users.yaml
    edits,      \* changes of druid and access so far
    cache,      \* filterMemoryCache
    pc,         \* call -> next step of the handler
    who, key,   \* call -> its caller, its cacheKey
    now,        \* call -> time.Now() of the handler
    scope,      \* call -> accessFilters
    values,     \* call -> the values read from Druid or from the cache
    asOf        \* call -> when the oldest input of values was read (history)

world == <<druid, access, edits>>
locals == <<who, key, now, scope, values, asOf>>
fcVars == <<clock, world, cache, pc, locals>>

Empty == [values |-> {}, expiresAt |-> 0, asOf |-> 0]

Init ==
    /\ clock = 1
    /\ druid \in [Keys -> {Values}]
    /\ access \in [Users -> SUBSET Values \ {{}}]
    /\ \A u \in Admins : access[u] = Values
    /\ edits = 0
    /\ cache = [k \in Keys |-> Empty]
    /\ pc = [c \in Calls |-> "idle"]
    /\ who = [c \in Calls |-> Nobody]
    /\ key \in [Calls -> {CHOOSE k \in Keys : TRUE}]
    /\ now = [c \in Calls |-> 0]
    /\ scope = [c \in Calls |-> {}]
    /\ values = [c \in Calls |-> {}]
    /\ asOf = [c \in Calls |-> 0]

Goto(c, step) == pc' = [pc EXCEPT ![c] = step]

-----------------------------------------------------------------------------
(* The handler.                                                             *)

\* The checks passed; cacheKey and now are set.
Stamp(c) ==
    /\ pc[c] = "idle"
    /\ \E u \in Users, k \in Keys :
        /\ who' = [who EXCEPT ![c] = u]
        /\ key' = [key EXCEPT ![c] = k]
    /\ now' = [now EXCEPT ![c] = clock]
    /\ Goto(c, "load")
    /\ UNCHANGED <<clock, world, cache, scope, values, asOf>>

\* cache.ExpiresAt.After(now)
Valid(c) == cache[key[c]].expiresAt > now[c]

Hit(c) ==
    /\ pc[c] = "load"
    /\ Valid(c)
    /\ values' = [values EXCEPT ![c] = cache[key[c]].values]
    /\ asOf' = [asOf EXCEPT ![c] = cache[key[c]].asOf]
    /\ Goto(c, "served")
    /\ UNCHANGED <<clock, world, cache, who, key, now, scope>>

\* No entry, or an expired one, which stays until somebody overwrites it.
Miss(c) ==
    /\ pc[c] = "load"
    /\ ~Valid(c)
    /\ Goto(c, "rights")
    /\ UNCHANGED <<clock, world, cache, locals>>

\* auth.LoadUsers and auth.GetAccessFilters.  The handler drops the error of
\* LoadUsers; with the file backend a missing users file means no filter.
ReadAccess(c) ==
    /\ pc[c] = "rights"
    /\ \/ scope' = [scope EXCEPT ![c] = access[who[c]]]
       \/ UsersMayFail /\ scope' = [scope EXCEPT ![c] = Values]
    /\ asOf' = [asOf EXCEPT ![c] = clock]
    /\ Goto(c, "ask")
    /\ UNCHANGED <<clock, world, cache, who, key, now, values>>

\* Druid evaluates the groupBy and the body is parsed.
Answer(c) ==
    /\ pc[c] = "ask"
    /\ values' = [values EXCEPT ![c] = druid[key[c]] \cap scope[c]]
    /\ Goto(c, "store")
    /\ UNCHANGED <<clock, world, cache, who, key, now, scope, asOf>>

\* Every way the round trip may fail: 500, nothing stored.
Fail(c) ==
    /\ pc[c] = "ask"
    /\ Goto(c, "failed")
    /\ UNCHANGED <<clock, world, cache, locals>>

\* Seeded fault: the hour is counted from the end of the round trip.
StoreFromEnd(c) ==
    /\ pc[c] = "store"
    /\ cache' = [cache EXCEPT ![key[c]] =
                  [values |-> values[c], expiresAt |-> clock + TTL, asOf |-> asOf[c]]]
    /\ Goto(c, "served")
    /\ UNCHANGED <<clock, world, locals>>

\* Seeded fault: two hours.
StoreTwoHours(c) ==
    /\ pc[c] = "store"
    /\ cache' = [cache EXCEPT ![key[c]] =
                  [values |-> values[c], expiresAt |-> now[c] + 2 * TTL, asOf |-> asOf[c]]]
    /\ Goto(c, "served")
    /\ UNCHANGED <<clock, world, locals>>

\* ExpiresAt: now.Add(time.Hour), with the now of the beginning of the call
Store(c) ==
    /\ pc[c] = "store"
    /\ cache' = [cache EXCEPT ![key[c]] =
                  [values |-> values[c], expiresAt |-> now[c] + TTL, asOf |-> asOf[c]]]
    /\ Goto(c, "served")
    /\ UNCHANGED <<clock, world, locals>>

\* The response is out; the goroutine ends.
Done(c) ==
    /\ pc[c] \in {"served", "failed"}
    /\ Goto(c, "idle")
    /\ who' = [who EXCEPT ![c] = Nobody]
    /\ now' = [now EXCEPT ![c] = 0]
    /\ scope' = [scope EXCEPT ![c] = {}]
    /\ values' = [values EXCEPT ![c] = {}]
    /\ asOf' = [asOf EXCEPT ![c] = 0]
    /\ UNCHANGED <<clock, world, cache, key>>

-----------------------------------------------------------------------------
(* The world around the handler.                                            *)

Tick ==
    /\ clock < MaxClock
    /\ clock' = clock + 1
    /\ UNCHANGED <<world, cache, pc, locals>>

Ingest(k) ==
    /\ edits < MaxEdits
    /\ \E vs \in SUBSET Values : druid' = [druid EXCEPT ![k] = vs]
    /\ edits' = edits + 1
    /\ UNCHANGED <<clock, access, cache, pc, locals>>

EditAccess(u) ==
    /\ edits < MaxEdits
    /\ u \notin Admins
    /\ \E vs \in SUBSET Values \ {{}} : access' = [access EXCEPT ![u] = vs]
    /\ edits' = edits + 1
    /\ UNCHANGED <<clock, druid, cache, pc, locals>>

Handler(c) ==
    \/ Stamp(c) \/ Hit(c) \/ Miss(c) \/ ReadAccess(c) \/ Answer(c) \/ Fail(c)
    \/ Store(c) \/ Done(c)

Next ==
    \/ \E c \in Calls : Handler(c)
    \/ \E k \in Keys : Ingest(k)
    \/ \E u \in Users : EditAccess(u)
    \/ Tick

Spec == Init /\ [][Next]_fcVars

-----------------------------------------------------------------------------
(* Properties.                                                              *)

CallSteps == {"idle", "load", "rights", "ask", "store", "served", "failed"}

\* The types of the cache and of the handlers' local variables.
TypeOK ==
    /\ clock \in 1 .. MaxClock
    /\ druid \in [Keys -> SUBSET Values]
    /\ access \in [Users -> SUBSET Values]
    /\ edits \in 0 .. MaxEdits
    /\ cache \in [Keys -> [values : SUBSET Values,
                           expiresAt : 0 .. MaxClock + TTL, asOf : 0 .. MaxClock]]
    /\ pc \in [Calls -> CallSteps]
    /\ who \in [Calls -> Users \cup {Nobody}]
    /\ \A c \in Calls : pc[c] # "idle" => who[c] \in Users
    /\ key \in [Calls -> Keys]
    /\ now \in [Calls -> 0 .. MaxClock]
    /\ scope \in [Calls -> SUBSET Values]
    /\ values \in [Calls -> SUBSET Values]
    /\ asOf \in [Calls -> 0 .. MaxClock]

\* Whatever a page is offered was computed from access filters and data read
\* less than an hour before its call began, however long the call that filled
\* the cache waited for Druid and whichever call stored last.
ServedIsFresh ==
    \A c \in Calls : pc[c] = "served" => asOf[c] + TTL > now[c]
=============================================================================
