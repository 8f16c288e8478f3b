------------------------------ MODULE Session ------------------------------
(***************************************************************************)
(* Sessions: the browser tabs of one user agent (src/static/js/login.js),  *)
(* LoginHandler (src/api/login.go) and the tokens of src/auth/jwt.go.      *)
(*                                                                         *)
(* The tabs share one token in localStorage.  Each has a countdown, the    *)
(* interval that startSessionCountdown leaves behind, and waits for at     *)
(* most one answer of each kind: to the schema that showDashboard awaits   *)
(* before it starts the countdown, and to a call made from the dashboard.  *)
(* Between question and answer everything else may happen, in this tab and *)
(* in the others.  Browser and server read the same clock.                 *)
(*                                                                         *)
(* Logging in is one step, the moment LoginHandler makes the token: the    *)
(* form shows nothing else meanwhile.  Wrong credentials change nothing    *)
(* and are left out.                                                       *)
(***************************************************************************)
EXTENDS Integers

CONSTANTS
    Tabs, Users,
    Backends,       \* the values of auth.user_backend: "file", "db"
    TTL,            \* jwt.expiration_minutes
    MaxClock,       \* bound on the clock
    MaxEdits,       \* bound on changes of the accounts and of jwt.secret
    NoToken

ASSUME TimeAssumption == TTL \in Nat \ {0} /\ MaxClock \in Nat \ {0} /\ MaxEdits \in Nat
ASSUME BackendAssumption == Backends \subseteq {"file", "db"}

\* What LoginHandler knows of a user.
Accounts == {"none", "plain", "admin"}
Tokens == [sub : Users, admin : BOOLEAN, exp : Nat, secret : Nat]

ASSUME NoAssumption == NoToken \notin Tokens

VARIABLES
    clock,
    \* the server
    backend,
    stored,     \* user -> account, in users.yaml or in the database
    loaded,     \* user -> account, as read when the server booted
    secret,     \* the jwt.secret the server booted with
    edits,      \* changes of stored and secret so far
    \* the browser
    jwt,        \* localStorage "jwt"
    view,       \* tab -> what it shows
    timer,      \* tab -> exp of sessionCountdownTimer, 0 when there is none
    schema,     \* tab -> the token fetchSchema is out with
    call,       \* tab -> the token another apiFetch is out with
    \* history
    held,       \* user -> admin flag -> when the server last knew such an account
    bare        \* tabs whose countdown found no token to count for

server == <<backend, stored, loaded, secret, edits>>
browser == <<jwt, view, timer, schema, call>>
history == <<held, bare>>
sessionVars == <<clock, server, browser, history>>

\* The accounts a login is checked against.
Known == IF backend = "file" THEN loaded ELSE stored

Holds(accounts, u, admin) == accounts[u] = IF admin THEN "admin" ELSE "plain"

Init ==
    /\ clock = 1
    /\ backend \in Backends
    /\ stored \in [Users -> Accounts]
    /\ loaded \in [Users -> Accounts]
    /\ backend = "db" => loaded = stored
    /\ secret = 0
    /\ edits = 0
    /\ jwt = NoToken
    /\ view = [t \in Tabs |-> "closed"]
    /\ timer = [t \in Tabs |-> 0]
    /\ schema = [t \in Tabs |-> NoToken]
    /\ call = [t \in Tabs |-> NoToken]
    /\ held = [u \in Users |-> [admin \in BOOLEAN |-> IF Holds(Known, u, admin) THEN 1 ELSE 0]]
    /\ bare = {}

-----------------------------------------------------------------------------
(* The server.                                                              *)

\* Seeded fault: the life of the token is counted backwards.
GenerateJWTBackwards(u) ==
    [sub |-> u, admin |-> Known[u] = "admin", exp |-> clock - TTL, secret |-> secret]

GenerateJWT(u) ==
    [sub |-> u, admin |-> Known[u] = "admin", exp |-> clock + TTL, secret |-> secret]

\* Seeded fault: a token without exp would be parsed like this.
SignedOnly(token) == token.secret = secret

\* ExtractUserAndAdminFromJWT: signed with our secret, and now before exp.
Accepted(token) == token.secret = secret /\ clock < token.exp

-----------------------------------------------------------------------------
(* The page.                                                                *)

Show(t, what) == view' = [view EXCEPT ![t] = what]

\* isJWTExpired: the second exp itself still counts.
Expired(token) == token.exp < clock

Usable(token) == token # NoToken /\ ~Expired(token)

\* forceLogoutSessionExpired: clears the interval as well.
ForceLogout(t) ==
    /\ jwt' = NoToken
    /\ timer' = [timer EXCEPT ![t] = 0]
    /\ Show(t, "login")

\* startSessionCountdown for the given content of localStorage.  updateTimer
\* runs once at once, and when it logs out the interval is set all the same.
StartSessionCountdown(t, token, shown) ==
    IF token = NoToken
    THEN /\ timer' = [timer EXCEPT ![t] = 0]
         /\ jwt' = token
         /\ Show(t, shown)
         /\ bare' = IF shown = "dashboard" THEN bare \cup {t} ELSE bare
    ELSE /\ timer' = [timer EXCEPT ![t] = token.exp]
         /\ jwt' = IF token.exp <= clock THEN NoToken ELSE token
         /\ Show(t, IF token.exp <= clock THEN "login" ELSE shown)
         /\ bare' = bare \ {t}

\* showDashboard for a token just read or just stored: fetchSchema goes out
\* with it, and the countdown of an earlier session goes on meanwhile.
ShowDashboard(t, token) ==
    /\ jwt' = token
    /\ Show(t, "dashboard")
    /\ schema' = [schema EXCEPT ![t] = token]
    /\ bare' = bare \ {t}
    /\ UNCHANGED timer

\* DOMContentLoaded.
Open(t) ==
    /\ view[t] = "closed"
    /\ IF Usable(jwt)
       THEN ShowDashboard(t, jwt)
       ELSE jwt' = NoToken /\ Show(t, "login") /\ UNCHANGED <<timer, schema, bare>>
    /\ UNCHANGED <<clock, server, call, held>>

\* The login form, LoginHandler, and what the form does with the token.
Login(t) ==
    /\ view[t] = "login"
    /\ schema[t] = NoToken
    /\ \E u \in Users : Known[u] # "none" /\ ShowDashboard(t, GenerateJWT(u))
    /\ UNCHANGED <<clock, server, call, held>>

\* The schema, or an error other than 401, which initDashboardSchema reports.
SchemaAnswered(t) ==
    /\ schema[t] # NoToken
    /\ schema' = [schema EXCEPT ![t] = NoToken]
    /\ StartSessionCountdown(t, jwt, view[t])
    /\ UNCHANGED <<clock, server, call, held>>

\* apiFetch on 401 removes the token that is stored by then; showDashboard
\* goes on to the countdown, which finds none.
SchemaRefused(t) ==
    /\ schema[t] # NoToken
    /\ ~Accepted(schema[t])
    /\ schema' = [schema EXCEPT ![t] = NoToken]
    /\ StartSessionCountdown(t, NoToken, "login")
    /\ UNCHANGED <<clock, server, call, held>>

\* apiFetch from the dashboard.
Call(t) ==
    /\ view[t] = "dashboard"
    /\ call[t] = NoToken
    /\ IF Usable(jwt)
       THEN call' = [call EXCEPT ![t] = jwt] /\ UNCHANGED <<jwt, timer, view>>
       ELSE ForceLogout(t) /\ UNCHANGED call
    /\ UNCHANGED <<clock, server, schema, history>>

\* Seeded fault: every error is taken for the end of the session.
CallFailed(t) ==
    /\ call[t] # NoToken
    /\ call' = [call EXCEPT ![t] = NoToken]
    /\ jwt' = NoToken
    /\ Show(t, "login")
    /\ UNCHANGED <<clock, server, timer, schema, history>>

\* An answer, or an error other than 401.
CallAnswered(t) ==
    /\ call[t] # NoToken
    /\ call' = [call EXCEPT ![t] = NoToken]
    /\ UNCHANGED <<clock, server, jwt, view, timer, schema, history>>

\* 401: the stored token goes, whichever the call was made with; the countdown
\* goes on.
CallRefused(t) ==
    /\ call[t] # NoToken
    /\ ~Accepted(call[t])
    /\ call' = [call EXCEPT ![t] = NoToken]
    /\ jwt' = NoToken
    /\ Show(t, "login")
    /\ UNCHANGED <<clock, server, timer, schema, history>>

\* Seeded fault: the countdown stops without logging out.
TimerStops(t) ==
    /\ timer[t] # 0
    /\ timer[t] <= clock
    /\ timer' = [timer EXCEPT ![t] = 0]
    /\ UNCHANGED <<clock, server, jwt, view, schema, call, history>>

\* updateTimer with no time left.
TimerFires(t) ==
    /\ timer[t] # 0
    /\ timer[t] <= clock
    /\ ForceLogout(t)
    /\ UNCHANGED <<clock, server, schema, call, history>>

\* The log-out button: location.reload() drops everything the tab waits for.
Logout(t) ==
    /\ view[t] = "dashboard"
    /\ jwt' = NoToken
    /\ Show(t, "closed")
    /\ timer' = [timer EXCEPT ![t] = 0]
    /\ schema' = [schema EXCEPT ![t] = NoToken]
    /\ call' = [call EXCEPT ![t] = NoToken]
    /\ bare' = bare \ {t}
    /\ UNCHANGED <<clock, server, held>>

-----------------------------------------------------------------------------
(* The world.                                                               *)

HeldAt(time, accounts) ==
    held' = [u \in Users |-> [admin \in BOOLEAN |->
                IF Holds(accounts, u, admin) THEN time ELSE held[u][admin]]]

Tick ==
    /\ clock < MaxClock
    /\ clock' = clock + 1
    /\ HeldAt(clock + 1, Known)
    /\ UNCHANGED <<server, browser, bare>>

\* An administrator changes, disables or restores an account.
EditAccount(u) ==
    /\ edits < MaxEdits
    /\ edits' = edits + 1
    /\ \E a \in Accounts : stored' = [stored EXCEPT ![u] = a]
    /\ HeldAt(clock, IF backend = "db" THEN stored' ELSE loaded)
    /\ UNCHANGED <<clock, backend, loaded, secret, browser, bare>>

\* The server restarts, with the accounts of the file and perhaps a new secret.
\* (Calls that were under way are answered by errors.)
Restart ==
    /\ edits < MaxEdits
    /\ edits' = edits + 1
    /\ loaded' = stored
    /\ \E n \in {0, 1} : secret' = secret + n
    /\ HeldAt(clock, stored)
    /\ UNCHANGED <<clock, backend, stored, browser, bare>>

Next ==
    \/ \E t \in Tabs :
        \/ Open(t) \/ Login(t)
        \/ SchemaAnswered(t) \/ SchemaRefused(t)
        \/ Call(t) \/ CallAnswered(t) \/ CallRefused(t)
        \/ TimerFires(t) \/ Logout(t)
    \/ \E u \in Users : EditAccount(u)
    \/ Restart
    \/ Tick

Spec == Init /\ [][Next]_sessionVars

\* The browser runs intervals and delivers an answer, an error or a broken
\* connection to every question; time goes on.  Nobody has to click.
Fairness ==
    /\ WF_sessionVars(Tick)
    /\ \A t \in Tabs :
        /\ WF_sessionVars(TimerFires(t))
        /\ WF_sessionVars(SchemaAnswered(t) \/ SchemaRefused(t))

FairSpec == Spec /\ Fairness

-----------------------------------------------------------------------------
(* Properties.                                                              *)

\* Type invariant: tokens, tabs and accounts are what localStorage, the page and
\* LoginHandler keep of them.
TypeOK ==
    /\ clock \in 1 .. MaxClock
    /\ backend \in Backends
    /\ stored \in [Users -> Accounts]
    /\ loaded \in [Users -> Accounts]
    /\ secret \in 0 .. MaxEdits
    /\ edits \in 0 .. MaxEdits
    /\ jwt \in Tokens \cup {NoToken}
    /\ view \in [Tabs -> {"closed", "login", "dashboard"}]
    /\ timer \in [Tabs -> Nat]
    /\ schema \in [Tabs -> Tokens \cup {NoToken}]
    /\ call \in [Tabs -> Tokens \cup {NoToken}]
    /\ held \in [Users -> [BOOLEAN -> Nat]]
    /\ bare \subseteq Tabs

InPlay == ({jwt} \cup {call[t] : t \in Tabs} \cup {schema[t] : t \in Tabs}) \ {NoToken}

\* A token carries its user and admin flag wherever the account goes meanwhile;
\* still nobody is served as somebody, or as an admin, longer than the life of
\* a token after the server last knew such an account: removing one takes
\* effect that long after the restart that follows.
AcceptedIsRecent ==
    \A token \in InPlay :
        Accepted(token) => clock < held[token.sub][token.admin] + TTL

\* A token the server would still accept leaves localStorage when somebody logs
\* out.  Otherwise it is the victim of something left over from another session
\* of this browser: a countdown for another token, or a call made with one.
Leftover(t) ==
    \/ timer[t] # 0 /\ timer[t] # jwt.exp
    \/ call[t] \notin {NoToken, jwt}
    \/ schema[t] \notin {NoToken, jwt}

EarlyEndHasCause ==
    [][jwt # NoToken /\ Accepted(jwt) /\ jwt' = NoToken =>
          \E t \in Tabs : Logout(t) \/ Leftover(t)]_sessionVars

Over == jwt = NoToken \/ ~Accepted(jwt)

\* A dashboard whose session has run out ends at the login form without a
\* click, unless another tab took the token away before the countdown began.
SessionEnds ==
    \A t \in Tabs :
        view[t] = "dashboard" /\ jwt # NoToken /\ clock >= jwt.exp
          ~> view[t] # "dashboard" \/ ~Over \/ t \in bare
=============================================================================
