--------------------------- MODULE SessionProofs ---------------------------
(***************************************************************************)
(* For any number of tabs and users: the state keeps its types; nobody is  *)
(* served longer than the life of a token after the server last knew the   *)
(* account; and a session ends early only by a log-out or by something     *)
(* left over from another session.                                         *)
(***************************************************************************)
EXTENDS Session, TLAPS

TypeInv == TypeOK /\ secret <= edits

LEMMA InitTypeInv == Init => TypeInv
BY TimeAssumption, BackendAssumption
   DEF Init, TypeInv, TypeOK, Accounts, Holds

\* What a tab does to its view, its countdown and its token keeps their types.
LEMMA ShowTypes ==
    ASSUME TypeInv, NEW t \in Tabs, NEW token \in Tokens, ShowDashboard(t, token)
    PROVE  /\ jwt' \in Tokens \cup {NoToken}
           /\ view' \in [Tabs -> {"closed", "login", "dashboard"}]
           /\ timer' \in [Tabs -> Nat]
           /\ schema' \in [Tabs -> Tokens \cup {NoToken}]
           /\ bare' \subseteq Tabs
BY DEF TypeInv, TypeOK, ShowDashboard, Show

LEMMA CountdownTypes ==
    ASSUME TypeInv, NEW t \in Tabs, NEW token \in Tokens \cup {NoToken},
           NEW shown \in {"closed", "login", "dashboard"},
           StartSessionCountdown(t, token, shown)
    PROVE  /\ jwt' \in {token, NoToken}
           /\ view' \in [Tabs -> {"closed", "login", "dashboard"}]
           /\ timer' \in [Tabs -> Nat]
           /\ bare' \subseteq Tabs
<1>1. CASE token = NoToken
  BY <1>1 DEF TypeInv, TypeOK, StartSessionCountdown, Show
<1>2. CASE token # NoToken
  <2>1. token.exp \in Nat
    BY <1>2 DEF Tokens
  <2> QED BY <1>2, <2>1 DEF TypeInv, TypeOK, StartSessionCountdown, Show
<1> QED BY <1>1, <1>2

LEMMA GeneratedType ==
    ASSUME TypeInv, NEW u \in Users, Known[u] # "none"
    PROVE  GenerateJWT(u) \in Tokens
BY TimeAssumption DEF TypeInv, TypeOK, GenerateJWT, Tokens

LEMMA NextTypeInv == TypeInv /\ [Next]_sessionVars => TypeInv'
<1> SUFFICES ASSUME TypeInv, [Next]_sessionVars PROVE TypeInv'
  OBVIOUS
<1> USE DEF server, browser, history
<1>1. CASE UNCHANGED sessionVars
  BY <1>1 DEF sessionVars, TypeInv, TypeOK
<1>2. ASSUME NEW t \in Tabs, Open(t) PROVE TypeInv'
  <2>1. CASE Usable(jwt)
    <3>1. jwt \in Tokens
      BY <2>1 DEF Usable, TypeInv, TypeOK
    <3> QED BY <1>2, <2>1, <3>1, ShowTypes DEF Open, TypeInv, TypeOK
  <2>2. CASE ~Usable(jwt)
    BY <1>2, <2>2 DEF Open, Show, TypeInv, TypeOK
  <2> QED BY <2>1, <2>2
<1>3. ASSUME NEW t \in Tabs, Login(t) PROVE TypeInv'
  <2> PICK u \in Users : Known[u] # "none" /\ ShowDashboard(t, GenerateJWT(u))
    BY <1>3 DEF Login
  <2>1. GenerateJWT(u) \in Tokens
    BY GeneratedType
  <2> HIDE DEF ShowDashboard
  <2> QED BY <1>3, <2>1, ShowTypes DEF Login, TypeInv, TypeOK
<1>4. ASSUME NEW t \in Tabs, SchemaAnswered(t) PROVE TypeInv'
  <2>1. view[t] \in {"closed", "login", "dashboard"} /\ jwt \in Tokens \cup {NoToken}
    BY DEF TypeInv, TypeOK
  <2> QED BY <1>4, <2>1, CountdownTypes DEF SchemaAnswered, TypeInv, TypeOK
<1>5. ASSUME NEW t \in Tabs, SchemaRefused(t) PROVE TypeInv'
  BY <1>5, CountdownTypes DEF SchemaRefused, TypeInv, TypeOK
<1>6. ASSUME NEW t \in Tabs, Call(t) PROVE TypeInv'
  <2>1. CASE Usable(jwt)
    <3>1. jwt \in Tokens
      BY <2>1 DEF Usable, TypeInv, TypeOK
    <3> QED BY <1>6, <2>1, <3>1 DEF Call, TypeInv, TypeOK
  <2>2. CASE ~Usable(jwt)
    BY <1>6, <2>2 DEF Call, ForceLogout, Show, TypeInv, TypeOK
  <2> QED BY <2>1, <2>2
<1>7. ASSUME NEW t \in Tabs, CallAnswered(t) PROVE TypeInv'
  BY <1>7 DEF CallAnswered, TypeInv, TypeOK
<1>8. ASSUME NEW t \in Tabs, CallRefused(t) PROVE TypeInv'
  BY <1>8 DEF CallRefused, Show, TypeInv, TypeOK
<1>9. ASSUME NEW t \in Tabs, TimerFires(t) PROVE TypeInv'
  BY <1>9 DEF TimerFires, ForceLogout, Show, TypeInv, TypeOK
<1>10. ASSUME NEW t \in Tabs, Logout(t) PROVE TypeInv'
  BY <1>10 DEF Logout, Show, TypeInv, TypeOK
<1>11. ASSUME NEW u \in Users, EditAccount(u) PROVE TypeInv'
  BY <1>11, TimeAssumption DEF EditAccount, HeldAt, TypeInv, TypeOK
<1>12. CASE Restart
  BY <1>12, TimeAssumption DEF Restart, HeldAt, TypeInv, TypeOK
<1>13. CASE Tick
  BY <1>13, TimeAssumption DEF Tick, HeldAt, TypeInv, TypeOK
<1> QED
  BY <1>1, <1>2, <1>3, <1>4, <1>5, <1>6, <1>7, <1>8, <1>9, <1>10, <1>11, <1>12, <1>13
  DEF Next

\* The state of tabs, tokens and accounts keeps its types: at any time a tab is
\* closed, logged out or on the dashboard, and every token names a user.
THEOREM SessionTypes == Spec => []TypeOK
<1>1. TypeInv => TypeOK
  BY DEF TypeInv
<1> QED BY InitTypeInv, NextTypeInv, <1>1, PTL DEF Spec

-----------------------------------------------------------------------------
(* Tokens and accounts.                                                     *)

\* held is never in the future, and is now for an account the server knows.
HeldInv ==
    \A u \in Users, admin \in BOOLEAN :
        /\ held[u][admin] <= clock
        /\ Holds(Known, u, admin) => held[u][admin] = clock

\* A token ends one life after its account was last known.
Bounded(token) == token.exp <= held[token.sub][token.admin] + TTL

TokenInv == \A token \in InPlay : Bounded(token)

RecentInv == HeldInv /\ TokenInv

LEMMA InitRecent == Init => RecentInv
<1> SUFFICES ASSUME Init PROVE HeldInv /\ TokenInv
  BY DEF RecentInv
<1>1. InPlay = {}
  BY DEF Init, InPlay
<1>2. HeldInv
  BY DEF Init, HeldInv
<1> QED BY <1>1, <1>2 DEF TokenInv

LEMMA InPlayTypes == ASSUME TypeInv PROVE InPlay \subseteq Tokens
BY DEF TypeInv, TypeOK, InPlay

\* When the server learns its accounts anew, and time goes by, tokens end no
\* later after their account was known.
LEMMA HeldGrows ==
    ASSUME TypeInv, RecentInv, NEW time \in Nat, NEW accounts, time >= clock,
           HeldAt(time, accounts), clock' = time, Known' = accounts, InPlay' = InPlay
    PROVE  RecentInv'
<1>1. \A u \in Users, admin \in BOOLEAN :
         /\ held[u][admin] \in Nat
         /\ held'[u][admin] = IF Holds(accounts, u, admin) THEN time ELSE held[u][admin]
  BY DEF TypeInv, TypeOK, HeldAt
<1>2. \A u \in Users, admin \in BOOLEAN :
         held'[u][admin] <= time /\ held[u][admin] <= held'[u][admin]
  <2>1. clock \in Nat
    BY DEF TypeInv, TypeOK
  <2> QED BY <1>1, <2>1 DEF RecentInv, HeldInv
<1>3. HeldInv'
  BY <1>1, <1>2 DEF HeldInv, Holds
<1>4. ASSUME NEW token \in InPlay PROVE Bounded(token)'
  <2>1. token \in Tokens
    BY <1>4, InPlayTypes
  <2>2. token.exp \in Nat /\ token.sub \in Users /\ token.admin \in BOOLEAN
    BY <2>1 DEF Tokens
  <2>3. token.exp <= held[token.sub][token.admin] + TTL
    BY <1>4 DEF RecentInv, TokenInv, Bounded
  <2>4. /\ held[token.sub][token.admin] \in Nat
        /\ held'[token.sub][token.admin] \in Nat
        /\ held[token.sub][token.admin] <= held'[token.sub][token.admin]
    BY <1>1, <1>2, <2>2
  <2> QED BY <2>2, <2>3, <2>4, TimeAssumption DEF Bounded
<1> QED BY <1>3, <1>4 DEF RecentInv, TokenInv

\* A step of the browser keeps clock and accounts; its tokens are old ones or
\* one made for an account the server knows.
LEMMA BrowserKeeps ==
    ASSUME RecentInv, UNCHANGED <<clock, server, held>>,
           \A token \in InPlay' : token \in InPlay \/ Bounded(token)
    PROVE  RecentInv'
<1>1. HeldInv'
  BY DEF RecentInv, HeldInv, Known, Holds, server
<1>2. ASSUME NEW token \in InPlay' PROVE Bounded(token)'
  BY <1>2 DEF RecentInv, TokenInv, Bounded
<1> QED BY <1>1, <1>2 DEF RecentInv, TokenInv

LEMMA GeneratedBounded ==
    ASSUME TypeInv, RecentInv, NEW u \in Users, Known[u] # "none"
    PROVE  Bounded(GenerateJWT(u))
<1>1. Known[u] \in {"plain", "admin"}
  BY DEF TypeInv, TypeOK, Accounts, Known
<1>2. Holds(Known, u, Known[u] = "admin") /\ (Known[u] = "admin") \in BOOLEAN
  BY <1>1 DEF Holds
<1>3. held[u][Known[u] = "admin"] = clock
  BY <1>2 DEF RecentInv, HeldInv
<1>4. /\ GenerateJWT(u).sub = u
      /\ GenerateJWT(u).admin = (Known[u] = "admin")
      /\ GenerateJWT(u).exp = clock + TTL
  BY DEF GenerateJWT
<1>5. held[GenerateJWT(u).sub][GenerateJWT(u).admin] = clock
  BY <1>3, <1>4
<1>6. clock + TTL <= clock + TTL
  BY TimeAssumption DEF TypeInv, TypeOK
<1> QED BY <1>4, <1>5, <1>6 DEF Bounded

LEMMA NextRecent == TypeInv /\ RecentInv /\ [Next]_sessionVars => RecentInv'
<1> SUFFICES ASSUME TypeInv, RecentInv, [Next]_sessionVars PROVE RecentInv'
  OBVIOUS
<1> USE DEF server, browser, history
<1> DEFINE Old == \A token \in InPlay' : token \in InPlay \/ Bounded(token)
<1>1. CASE UNCHANGED sessionVars
  <2>1. Old
    BY <1>1 DEF sessionVars, InPlay
  <2> HIDE DEF Old
  <2> QED BY <1>1, <2>1, BrowserKeeps DEF sessionVars, Old
<1>2. ASSUME NEW t \in Tabs, Open(t) PROVE RecentInv'
  <2>1. Old
    BY <1>2 DEF Open, ShowDashboard, InPlay, TypeInv, TypeOK
  <2>2. UNCHANGED <<clock, server, held>>
    BY <1>2 DEF Open
  <2> HIDE DEF Old
  <2> QED BY <2>1, <2>2, BrowserKeeps DEF Old
<1>3. ASSUME NEW t \in Tabs, Login(t) PROVE RecentInv'
  <2> PICK u \in Users : Known[u] # "none" /\ ShowDashboard(t, GenerateJWT(u))
    BY <1>3 DEF Login
  <2>1. Bounded(GenerateJWT(u))
    BY GeneratedBounded
  <2>2. \A token \in InPlay' : token \in InPlay \/ token = GenerateJWT(u)
    BY <1>3 DEF Login, ShowDashboard, InPlay, TypeInv, TypeOK
  <2>3. UNCHANGED <<clock, server, held>>
    BY <1>3 DEF Login
  <2> QED BY <2>1, <2>2, <2>3, BrowserKeeps
<1>4. ASSUME NEW t \in Tabs, SchemaAnswered(t) PROVE RecentInv'
  <2>1. Old
    BY <1>4 DEF SchemaAnswered, StartSessionCountdown, InPlay, TypeInv, TypeOK
  <2>2. UNCHANGED <<clock, server, held>>
    BY <1>4 DEF SchemaAnswered
  <2> HIDE DEF Old
  <2> QED BY <2>1, <2>2, BrowserKeeps DEF Old
<1>5. ASSUME NEW t \in Tabs, SchemaRefused(t) PROVE RecentInv'
  <2>1. Old
    BY <1>5 DEF SchemaRefused, StartSessionCountdown, InPlay, TypeInv, TypeOK
  <2>2. UNCHANGED <<clock, server, held>>
    BY <1>5 DEF SchemaRefused
  <2> HIDE DEF Old
  <2> QED BY <2>1, <2>2, BrowserKeeps DEF Old
<1>6. ASSUME NEW t \in Tabs, Call(t) PROVE RecentInv'
  <2>1. Old
    BY <1>6 DEF Call, ForceLogout, InPlay, TypeInv, TypeOK
  <2>2. UNCHANGED <<clock, server, held>>
    BY <1>6 DEF Call
  <2> HIDE DEF Old
  <2> QED BY <2>1, <2>2, BrowserKeeps DEF Old
<1>7. ASSUME NEW t \in Tabs,
             CallAnswered(t) \/ CallRefused(t) \/ TimerFires(t) \/ Logout(t)
      PROVE  RecentInv'
  <2>1. Old
    BY <1>7 DEF CallAnswered, CallRefused, TimerFires, Logout, ForceLogout, InPlay, TypeInv, TypeOK
  <2>2. UNCHANGED <<clock, server, held>>
    BY <1>7 DEF CallAnswered, CallRefused, TimerFires, Logout
  <2> HIDE DEF Old
  <2> QED BY <2>1, <2>2, BrowserKeeps DEF Old
<1>8. ASSUME NEW u \in Users, EditAccount(u) PROVE RecentInv'
  <2>1. HeldAt(clock, Known') /\ clock' = clock /\ clock \in Nat
    BY <1>8, BackendAssumption DEF EditAccount, Known, TypeInv, TypeOK
  <2>2. InPlay' = InPlay
    BY <1>8 DEF EditAccount, InPlay
  <2> QED BY <2>1, <2>2, HeldGrows
<1>9. CASE Restart
  <2>1. HeldAt(clock, Known') /\ clock' = clock /\ clock \in Nat
    BY <1>9 DEF Restart, Known, TypeInv, TypeOK
  <2>2. InPlay' = InPlay
    BY <1>9 DEF Restart, InPlay
  <2> QED BY <2>1, <2>2, HeldGrows
<1>10. CASE Tick
  <2>1. HeldAt(clock + 1, Known') /\ clock' = clock + 1 /\ clock \in Nat
    BY <1>10 DEF Tick, Known, TypeInv, TypeOK
  <2>2. InPlay' = InPlay
    BY <1>10 DEF Tick, InPlay
  <2> QED BY <2>1, <2>2, HeldGrows
<1> QED
  BY <1>1, <1>2, <1>3, <1>4, <1>5, <1>6, <1>7, <1>8, <1>9, <1>10 DEF Next

\* Whoever the server accepts was known to it, as a user or as an admin, less
\* than the life of a token ago: an account that is removed or demoted is served
\* no longer, for any interleaving of tabs, edits and restarts.
THEOREM AcceptedRecently == Spec => []AcceptedIsRecent
<1>1. TypeInv /\ RecentInv => AcceptedIsRecent
  <2> SUFFICES ASSUME TypeInv, RecentInv, NEW token \in InPlay, Accepted(token)
               PROVE  clock < held[token.sub][token.admin] + TTL
    BY DEF AcceptedIsRecent
  <2>1. token \in Tokens
    BY InPlayTypes
  <2>2. token.exp \in Nat /\ held[token.sub][token.admin] \in Nat /\ clock \in Nat
    BY <2>1 DEF Tokens, TypeInv, TypeOK
  <2>3. clock < token.exp /\ token.exp <= held[token.sub][token.admin] + TTL
    BY DEF Accepted, RecentInv, TokenInv, Bounded
  <2> QED BY <2>2, <2>3, TimeAssumption
<1> QED BY InitTypeInv, NextTypeInv, InitRecent, NextRecent, <1>1, PTL DEF Spec

-----------------------------------------------------------------------------
(* The end of a session.                                                    *)

\* What a step that takes an accepted token away is.
LEMMA EarlyEndStep ==
    ASSUME TypeInv, [Next]_sessionVars, jwt # NoToken, Accepted(jwt), jwt' = NoToken
    PROVE  \E t \in Tabs : Logout(t) \/ Leftover(t)
<1>1. jwt \in Tokens /\ jwt.exp \in Nat /\ clock \in Nat /\ timer \in [Tabs -> Nat]
  BY DEF TypeInv, TypeOK, Tokens
<1>2. clock < jwt.exp
  BY DEF Accepted
<1>3. Usable(jwt)
  BY <1>1, <1>2 DEF Usable, Expired
<1>4. ASSUME NEW t \in Tabs, Open(t) \/ Login(t) PROVE FALSE
  <2>1. Open(t) => jwt' = jwt
    BY <1>3 DEF Open, ShowDashboard
  <2>2. Login(t) => jwt' \in Tokens
    BY GeneratedType DEF Login, ShowDashboard
  <2> QED BY <1>4, <2>1, <2>2, NoAssumption
<1>5. ASSUME NEW t \in Tabs, SchemaAnswered(t) PROVE FALSE
  BY <1>1, <1>2, <1>5 DEF SchemaAnswered, StartSessionCountdown
<1>6. ASSUME NEW t \in Tabs, SchemaRefused(t) \/ CallRefused(t) PROVE Leftover(t)
  BY <1>6 DEF SchemaRefused, CallRefused, Leftover
<1>7. ASSUME NEW t \in Tabs, Call(t) \/ CallAnswered(t) PROVE FALSE
  BY <1>3, <1>7 DEF Call, CallAnswered
<1>8. ASSUME NEW t \in Tabs, TimerFires(t) PROVE Leftover(t)
  BY <1>1, <1>2, <1>8 DEF TimerFires, Leftover
<1>9. ASSUME Tick \/ Restart \/ (\E u \in Users : EditAccount(u)) \/ UNCHANGED sessionVars
      PROVE  FALSE
  BY <1>9 DEF Tick, Restart, EditAccount, sessionVars, browser
<1> QED BY <1>4, <1>5, <1>6, <1>7, <1>8, <1>9 DEF Next

\* A token that the server would accept leaves localStorage by a log-out, or
\* because of a countdown or a call left over from another token, whatever tabs
\* and accounts do.
THEOREM EarlyEnd == Spec => EarlyEndHasCause
<1>1. TypeInv /\ [Next]_sessionVars =>
        [jwt # NoToken /\ Accepted(jwt) /\ jwt' = NoToken =>
           \E t \in Tabs : Logout(t) \/ Leftover(t)]_sessionVars
  BY EarlyEndStep
<1> QED BY InitTypeInv, NextTypeInv, <1>1, PTL DEF Spec, EarlyEndHasCause
=============================================================================
