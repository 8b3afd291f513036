------------------------------ MODULE Sessions ------------------------------
(***************************************************************************)
(* Who a request is served as: the session cookies browsers hold, the      *)
(* sessions and users of the database, and the identity a trusted proxy    *)
(* vouches for (backend/app/auth/service.py, backend/app/api/auth.py).     *)
(*                                                                         *)
(* A handler that asks for the user never awaits before it has the answer, *)
(* so each request is one step.  Requests may arrive late: a browser may   *)
(* send any cookie it was ever given.                                      *)
(***************************************************************************)
EXTENDS FiniteSets

CONSTANTS
  Users,    \* users, by their e-mail
  Browsers,
  Tokens,   \* values of session cookies, each given out once
  None      \* no user, no token

ASSUME NoneIsNobody == None \notin Users \cup Tokens

VARIABLES
  vouched,   \* the identity the proxy adds to a browser's requests, None without a proxy
  held,      \* the cookies each browser was given
  sessions,  \* the sessions table
  role,      \* the users table: the role of each user that ever signed in
  admins,    \* AUTH_ADMIN_EMAILS
  devLogin,  \* AUTH_ALLOW_DEV_LOGIN, TRUE by default, with a proxy and without
  signedOut, \* history: the cookies a logout was sent with
  shown,     \* history: the user of each browser's last answer since the start
  typedIn    \* history: the browsers whose last answer was that of the login form

sessionVars == <<vouched, held, sessions, role, admins, devLogin, signedOut, shown, typedIn>>
settings == <<admins, devLogin>>

Session == [user : Users, expired : BOOLEAN]

SessionsTypeOK ==
  /\ vouched \in [Browsers -> Users \cup {None}]
  /\ held \in [Browsers -> SUBSET Tokens]
  /\ sessions \in [Tokens -> Session \cup {None}]
  /\ \A t \in Tokens : sessions[t] # None => role[sessions[t].user] # "none"
  /\ role \in [Users -> {"admin", "user", "none"}]
  /\ admins \in SUBSET Users /\ devLogin \in BOOLEAN
  /\ signedOut \in SUBSET Tokens
  /\ shown \in [Browsers -> Users \cup {None}]
  /\ typedIn \in SUBSET Browsers

SessionsInit ==
  /\ vouched \in [Browsers -> Users \cup {None}]
  /\ held = [b \in Browsers |-> {}]
  /\ sessions = [t \in Tokens |-> None]
  /\ role = [u \in Users |-> "none"]
  /\ admins \in SUBSET Users /\ devLogin \in BOOLEAN
  /\ signedOut = {}
  /\ shown = [b \in Browsers |-> None] /\ typedIn = {}

-----------------------------------------------------------------------------
(* The tables                                                              *)

\* JobStore.get_session: an expired session is deleted when it is found.
Found(t) == t # None /\ sessions[t] # None /\ ~sessions[t].expired
Forget(t) == IF t = None THEN sessions ELSE [sessions EXCEPT ![t] = None]

\* Variant: the session's user is not compared with the identity.
AnySessionUser(b, t) == IF Found(t) THEN sessions[t].user ELSE None

\* _resolve_session_user: not the user of a session the proxy's identity contradicts.
SessionUser(b, t) ==
  IF Found(t) /\ vouched[b] \in {None, sessions[t].user} THEN sessions[t].user ELSE None

\* The sessions after _resolve_session_user: expired or contradicted ones are deleted.
SessionsAfter(b, t) ==
  IF t # None /\ SessionUser(b, t) = None THEN Forget(t) ELSE sessions

\* _role_for_email, at every upsert_user
RoleOf(u) == IF u \in admins THEN "admin" ELSE "user"

\* resolve_current_user: the session's user, or else the identity's.
CurrentUser(b, t) == IF SessionUser(b, t) # None THEN SessionUser(b, t) ELSE vouched[b]

\* What resolve_current_user writes: the identity's user is upserted when no session serves.
ResolveCurrentUser(b, t) ==
  /\ sessions' = SessionsAfter(b, t)
  /\ role' = IF SessionUser(b, t) = None /\ vouched[b] # None
             THEN [role EXCEPT ![vouched[b]] = RoleOf(vouched[b])] ELSE role

\* JobStore.create_session: a new token, in the answer's cookie.
Issue(b, t) ==
  /\ t \notin UNION {held[c] : c \in Browsers}
  /\ held' = [held EXCEPT ![b] = @ \cup {t}]

\* The answer to browser b is that of user u, or of nobody.
Answer(b, u) ==
  /\ shown' = [shown EXCEPT ![b] = u]
  /\ typedIn' = typedIn \ {b}

-----------------------------------------------------------------------------
(* The handlers                                                            *)

\* require_current_user: a request of browser b with cookie t that is served, or refused.
Served(b, t) ==
  /\ t \in held[b] \cup {None}
  /\ ResolveCurrentUser(b, t)
  /\ Answer(b, CurrentUser(b, t))
  /\ UNCHANGED <<vouched, held, settings, signedOut>>

\* build_session_info when the identity gets a new session.
Bootstrap(b, t) ==
  /\ t \in held[b] \cup {None}
  /\ SessionUser(b, t) = None /\ vouched[b] # None
  /\ \E new \in Tokens :
       /\ Issue(b, new)
       /\ sessions' = [SessionsAfter(b, t) EXCEPT
                         ![new] = [user |-> vouched[b], expired |-> FALSE]]
  /\ role' = [role EXCEPT ![vouched[b]] = RoleOf(vouched[b])]
  /\ Answer(b, vouched[b])
  /\ UNCHANGED <<vouched, settings, signedOut>>

\* session_info when nothing is created: a session serves, or nobody is vouched for.
SessionInfo(b, t) ==
  /\ t \in held[b] \cup {None}
  /\ SessionUser(b, t) # None \/ vouched[b] = None
  /\ sessions' = SessionsAfter(b, t)
  /\ Answer(b, SessionUser(b, t))
  /\ UNCHANGED <<vouched, held, role, settings, signedOut>>

\* What dev_login answers with: a new session of the user of the e-mail typed in.
LogIn(b, u) ==
  /\ \E new \in Tokens :
       /\ Issue(b, new)
       /\ sessions' = [sessions EXCEPT ![new] = [user |-> u, expired |-> FALSE]]
  /\ shown' = [shown EXCEPT ![b] = u] /\ typedIn' = typedIn \cup {b}

\* Variant: the user is created at the first request that needs one.
DevLoginWithoutUser(b, u) ==
  /\ devLogin
  /\ LogIn(b, u)
  /\ UNCHANGED <<vouched, role, settings, signedOut>>

\* dev_login: it looks at the setting only, not at the identity or the cookie.
DevLogin(b, u) ==
  /\ devLogin
  /\ LogIn(b, u)
  /\ role' = [role EXCEPT ![u] = RoleOf(u)]
  /\ UNCHANGED <<vouched, settings, signedOut>>

\* Variant: the cookie is cleared in the browser only.
CookieCleared(b, t) ==
  /\ t \in held[b]
  /\ signedOut' = signedOut \cup {t}
  /\ Answer(b, None)
  /\ UNCHANGED <<vouched, held, sessions, role, settings>>

Logout(b, t) ==
  /\ t \in held[b]
  /\ sessions' = Forget(t)
  /\ signedOut' = signedOut \cup {t}
  /\ Answer(b, None)
  /\ UNCHANGED <<vouched, held, role, settings>>

-----------------------------------------------------------------------------
(* What happens around them                                                *)

\* auth_session_ttl_hours pass.
SessionExpires(t) ==
  /\ sessions[t] # None /\ ~sessions[t].expired
  /\ sessions' = [sessions EXCEPT ![t] = [user |-> @.user, expired |-> TRUE]]
  /\ UNCHANGED <<vouched, held, role, settings, signedOut, shown, typedIn>>

\* Somebody else signs in to the proxy in the same browser, or its requests begin or cease to
\* come with the header of a trusted proxy (_trusted_identity).
IdentityChanges(b, u) ==
  /\ u # vouched[b]
  /\ vouched' = [vouched EXCEPT ![b] = u]
  /\ Answer(b, None)
  /\ UNCHANGED <<held, sessions, role, settings, signedOut>>

\* The process starts again, with the settings of that time; the database stays.
Restart ==
  /\ admins' \in SUBSET Users /\ devLogin' \in BOOLEAN
  /\ shown' = [b \in Browsers |-> None] /\ typedIn' = {}
  /\ UNCHANGED <<vouched, held, sessions, role, signedOut>>

SessionsNext ==
  \/ \E b \in Browsers, t \in Tokens \cup {None} :
       Served(b, t) \/ Bootstrap(b, t) \/ SessionInfo(b, t)
  \/ \E b \in Browsers, u \in Users : DevLogin(b, u)
  \/ \E b \in Browsers, u \in Users \cup {None} : IdentityChanges(b, u)
  \/ \E b \in Browsers, t \in Tokens : Logout(b, t)
  \/ \E t \in Tokens : SessionExpires(t)
  \/ Restart

SessionsSpec == SessionsInit /\ [][SessionsNext]_sessionVars

-----------------------------------------------------------------------------
(* Properties                                                              *)

\* A browser whose requests come with an identity is answered as that identity, whatever cookies
\* it holds: of an earlier user, of a time without the header, or of the login form
\* (service.py, _resolve_session_user).  The one exception is the login form's own answer, in a
\* process that allows it: dev_login does not ask who the proxy vouches for, so it answers as
\* the e-mail typed in; the request after it is the identity's again.
ServedIsVouched ==
  \A b \in Browsers : vouched[b] # None =>
    shown[b] \in {None, vouched[b]} \/ (devLogin /\ b \in typedIn)

\* A cookie that signed out has no session, also when it arrives again in a late request or
\* after a restart.
SignedOutStaysOut == \A t \in signedOut : sessions[t] = None

=============================================================================
