------------------------- MODULE FilterCacheProofs -------------------------
(***************************************************************************)
(* What a page is offered is never older than the cache's hour, for any    *)
(* number of calls, users, keys and edits.                                 *)
(***************************************************************************)
EXTENDS FilterCache, TLAPS

\* A call in the course of its steps stamped itself before it read anything;
\* an entry expires no later than a TTL after the oldest of its inputs.
FreshInv ==
    /\ \A k \in Keys : cache[k].expiresAt <= cache[k].asOf + TTL
    /\ \A c \in Calls :
         /\ now[c] <= clock
         /\ pc[c] \in {"ask", "store"} => now[c] <= asOf[c]
         /\ pc[c] = "served" => asOf[c] + TTL > now[c]

Entries == [values : SUBSET Values, expiresAt : 0 .. MaxClock + TTL, asOf : 0 .. MaxClock]

\* The cache and the local variables keep their types.
LEMMA TypeStep == TypeOK /\ [Next]_fcVars => TypeOK'
<1> SUFFICES ASSUME TypeOK, [Next]_fcVars PROVE TypeOK'
  OBVIOUS
<1> USE UserAssumption, TimeAssumption
    DEF TypeOK, world, locals, Goto, CallSteps
<1>1. ASSUME NEW c \in Calls, Stamp(c) PROVE TypeOK'
  BY <1>1 DEF Stamp
<1>2. ASSUME NEW c \in Calls, Hit(c) PROVE TypeOK'
  BY <1>2 DEF Hit
<1>3. ASSUME NEW c \in Calls, Miss(c) \/ Fail(c) PROVE TypeOK'
  BY <1>3 DEF Miss, Fail
<1>4. ASSUME NEW c \in Calls, ReadAccess(c) PROVE TypeOK'
  BY <1>4 DEF ReadAccess
<1>5. ASSUME NEW c \in Calls, Answer(c) PROVE TypeOK'
  BY <1>5 DEF Answer
<1>6. ASSUME NEW c \in Calls, Store(c) PROVE TypeOK'
  <2>1. [values |-> values[c], expiresAt |-> now[c] + TTL, asOf |-> asOf[c]]
            \in Entries
    BY DEF Entries
  <2>2. cache' \in [Keys -> Entries]
    BY <1>6, <2>1 DEF Store, Entries
  <2> QED BY <1>6, <2>2 DEF Store, Entries
<1>7. ASSUME NEW c \in Calls, Done(c) PROVE TypeOK'
  BY <1>7 DEF Done
<1>8. CASE Tick
  BY <1>8 DEF Tick
<1>9. ASSUME NEW k \in Keys, Ingest(k) PROVE TypeOK'
  BY <1>9 DEF Ingest
<1>10. ASSUME NEW u \in Users, EditAccess(u) PROVE TypeOK'
  BY <1>10 DEF EditAccess
<1>11. CASE UNCHANGED fcVars
  BY <1>11 DEF fcVars
<1> QED
  BY <1>1, <1>2, <1>3, <1>4, <1>5, <1>6, <1>7, <1>8, <1>9, <1>10, <1>11
     DEF Next, Handler

\* No step stores an entry that outlives its inputs by more than the TTL, and
\* no call takes one over that has.
LEMMA FreshStep == TypeOK /\ FreshInv /\ [Next]_fcVars => FreshInv'
<1> SUFFICES ASSUME TypeOK, FreshInv, [Next]_fcVars PROVE FreshInv'
  OBVIOUS
<1> USE TimeAssumption DEF TypeOK, FreshInv, world, locals, Goto
<1>1. ASSUME NEW c \in Calls, Stamp(c) PROVE FreshInv'
  BY <1>1 DEF Stamp
<1>2. ASSUME NEW c \in Calls, Hit(c) PROVE FreshInv'
  <2>1. cache[key[c]].expiresAt <= cache[key[c]].asOf + TTL
    OBVIOUS
  <2>2. cache[key[c]].asOf + TTL > now[c]
    BY <1>2, <2>1 DEF Hit, Valid
  <2> QED BY <1>2, <2>2 DEF Hit
<1>3. ASSUME NEW c \in Calls, Miss(c) \/ Fail(c) PROVE FreshInv'
  BY <1>3 DEF Miss, Fail
<1>4. ASSUME NEW c \in Calls, ReadAccess(c) PROVE FreshInv'
  BY <1>4 DEF ReadAccess
<1>5. ASSUME NEW c \in Calls, Answer(c) PROVE FreshInv'
  BY <1>5 DEF Answer
<1>6. ASSUME NEW c \in Calls, Store(c) PROVE FreshInv'
  <2>1. now[c] + TTL <= asOf[c] + TTL /\ asOf[c] + TTL > now[c]
    BY <1>6 DEF Store
  <2> QED BY <1>6, <2>1 DEF Store
<1>7. ASSUME NEW c \in Calls, Done(c) PROVE FreshInv'
  BY <1>7 DEF Done
<1>8. CASE Tick
  BY <1>8 DEF Tick
<1>9. ASSUME NEW k \in Keys, Ingest(k) PROVE FreshInv'
  BY <1>9 DEF Ingest
<1>10. ASSUME NEW u \in Users, EditAccess(u) PROVE FreshInv'
  BY <1>10 DEF EditAccess
<1>11. CASE UNCHANGED fcVars
  BY <1>11 DEF fcVars
<1> QED
  BY <1>1, <1>2, <1>3, <1>4, <1>5, <1>6, <1>7, <1>8, <1>9, <1>10, <1>11
     DEF Next, Handler

LEMMA InitFresh == Init => TypeOK /\ FreshInv
<1> SUFFICES ASSUME Init PROVE TypeOK /\ FreshInv
  OBVIOUS
<1>1. Empty \in Entries
  BY TimeAssumption DEF Empty, Entries
<1>2. cache \in [Keys -> Entries]
  BY <1>1 DEF Init
<1>3. TypeOK
  BY <1>2, UserAssumption, TimeAssumption, KeyAssumption DEF Init, TypeOK, CallSteps, Entries
<1>4. FreshInv
  BY TimeAssumption DEF Init, FreshInv, Empty
<1> QED BY <1>3, <1>4

\* An entry of the cache holds values of the dimension and ends within a TTL of
\* a moment that was; a call on its way has a caller.
THEOREM CacheTypes == Spec => []TypeOK
BY InitFresh, TypeStep, PTL DEF Spec

\* Whatever a page is offered was computed from inputs read less than a TTL
\* before its call began, whichever calls fill and overwrite the entry meanwhile.
THEOREM ServedFresh == Spec => []ServedIsFresh
<1>1. FreshInv => ServedIsFresh
  BY DEF FreshInv, ServedIsFresh
<1> QED BY <1>1, InitFresh, TypeStep, FreshStep, PTL DEF Spec
=============================================================================
