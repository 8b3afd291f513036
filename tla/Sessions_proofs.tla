--------------------------- MODULE Sessions_proofs ---------------------------
(***************************************************************************)
(* Proofs about Sessions, for any numbers of users, browsers and cookies.  *)
(***************************************************************************)
EXTENDS Sessions, TLAPS

-----------------------------------------------------------------------------
(* What the operators on sessions return                                   *)

\* _resolve_session_user returns nobody, or the user of a live session whom
\* the browser's identity does not contradict.
LEMMA SessionUserIsVouched ==
  ASSUME SessionsTypeOK, NEW b \in Browsers, NEW t \in Tokens \cup {None}
  PROVE  /\ SessionUser(b, t) \in Users \cup {None}
         /\ SessionUser(b, t) # None =>
              /\ t \in Tokens /\ sessions[t] # None
              /\ SessionUser(b, t) = sessions[t].user
         /\ vouched[b] # None => SessionUser(b, t) \in {None, vouched[b]}
  <1>1. CASE SessionUser(b, t) = None
    BY <1>1
  <1>2. CASE SessionUser(b, t) # None
    <2>1. Found(t) /\ vouched[b] \in {None, sessions[t].user} /\ SessionUser(b, t) = sessions[t].user
      BY <1>2 DEF SessionUser
    <2>2. t \in Tokens /\ sessions[t] \in Session
      BY <2>1 DEF Found, SessionsTypeOK
    <2> QED
      BY <2>1, <2>2 DEF Found, Session
  <1> QED
    BY <1>1, <1>2

\* resolve_current_user returns nobody or a user, behind a proxy the vouched one.
LEMMA CurrentUserIsVouched ==
  ASSUME SessionsTypeOK, NEW b \in Browsers, NEW t \in Tokens \cup {None}
  PROVE  /\ CurrentUser(b, t) \in Users \cup {None}
         /\ vouched[b] # None => CurrentUser(b, t) = vouched[b]
  BY SessionUserIsVouched DEF CurrentUser, SessionsTypeOK

\* Requests that present a cookie change no session but delete it.
LEMMA SessionsOnlyForgotten ==
  ASSUME SessionsTypeOK, NEW b \in Browsers, NEW t \in Tokens \cup {None}
  PROVE  /\ SessionsAfter(b, t) \in [Tokens -> Session \cup {None}]
         /\ \A s \in Tokens : SessionsAfter(b, t)[s] \in {sessions[s], None}
         /\ Forget(t) \in [Tokens -> Session \cup {None}]
         /\ \A s \in Tokens : Forget(t)[s] \in {sessions[s], None}
  BY DEF SessionsAfter, Forget, SessionsTypeOK

LEMMA RoleIsRole == \A u \in Users : RoleOf(u) \in {"admin", "user"}
  BY DEF RoleOf

-----------------------------------------------------------------------------
(* Types                                                                   *)

\* Types, and that every session belongs to a user the table knows: each of
\* the three ways to sign in upserts the user in the step that creates the session.
THEOREM SessionTypes == SessionsSpec => []SessionsTypeOK
  <1>1. SessionsInit => SessionsTypeOK
    BY NoneIsNobody DEF SessionsInit, SessionsTypeOK
  <1>2. SessionsTypeOK /\ [SessionsNext]_sessionVars => SessionsTypeOK'
    <2> SUFFICES ASSUME SessionsTypeOK, [SessionsNext]_sessionVars PROVE SessionsTypeOK'
      OBVIOUS
    <2> USE NoneIsNobody
    <2>1. ASSUME NEW b \in Browsers, NEW t \in Tokens \cup {None}, Served(b, t)
          PROVE  SessionsTypeOK'
      <3>1. /\ sessions' = SessionsAfter(b, t)
            /\ \/ role' = role
               \/ vouched[b] \in Users /\ role' = [role EXCEPT ![vouched[b]] = RoleOf(vouched[b])]
            /\ Answer(b, CurrentUser(b, t))
            /\ UNCHANGED <<vouched, held, settings, signedOut>>
        BY <2>1 DEF Served, ResolveCurrentUser, SessionsTypeOK
      <3>2. /\ role' \in [Users -> {"admin", "user", "none"}]
            /\ \A u \in Users : role[u] # "none" => role'[u] # "none"
        BY <3>1, RoleIsRole DEF SessionsTypeOK
      <3>3. \A s \in Tokens : sessions'[s] # None =>
              sessions'[s] = sessions[s] /\ sessions[s].user \in Users
        BY <3>1, SessionsOnlyForgotten DEF SessionsTypeOK, Session
      <3> QED
        BY <3>1, <3>2, <3>3, SessionsOnlyForgotten, CurrentUserIsVouched DEF SessionsTypeOK, Answer, settings
    <2>2. ASSUME NEW b \in Browsers, NEW t \in Tokens \cup {None}, Bootstrap(b, t)
          PROVE  SessionsTypeOK'
      <3>1. PICK new \in Tokens :
              /\ Issue(b, new)
              /\ sessions' = [SessionsAfter(b, t) EXCEPT
                                ![new] = [user |-> vouched[b], expired |-> FALSE]]
        BY <2>2 DEF Bootstrap
      <3>2. /\ vouched[b] \in Users
            /\ role' = [role EXCEPT ![vouched[b]] = RoleOf(vouched[b])]
            /\ Answer(b, vouched[b])
            /\ UNCHANGED <<vouched, settings, signedOut>>
        BY <2>2 DEF Bootstrap, SessionsTypeOK
      <3>3. held' \in [Browsers -> SUBSET Tokens]
        BY <3>1 DEF Issue, SessionsTypeOK
      <3>4. /\ role' \in [Users -> {"admin", "user", "none"}]
            /\ \A u \in Users : role[u] # "none" => role'[u] # "none"
            /\ role'[vouched[b]] # "none"
        BY <3>2, RoleIsRole DEF SessionsTypeOK
      <3>5. /\ sessions' \in [Tokens -> Session \cup {None}]
            /\ \A s \in Tokens : sessions'[s] # None =>
                 \/ sessions'[s] = sessions[s] /\ sessions[s].user \in Users
                 \/ sessions'[s].user = vouched[b]
        BY <3>1, <3>2, SessionsOnlyForgotten DEF SessionsTypeOK, Session
      <3> QED
        BY <3>2, <3>3, <3>4, <3>5 DEF SessionsTypeOK, Answer, settings
    <2>3. ASSUME NEW b \in Browsers, NEW t \in Tokens \cup {None}, SessionInfo(b, t)
          PROVE  SessionsTypeOK'
      <3>1. /\ sessions' = SessionsAfter(b, t)
            /\ Answer(b, SessionUser(b, t))
            /\ UNCHANGED <<vouched, held, role, settings, signedOut>>
        BY <2>3 DEF SessionInfo
      <3> QED
        BY <3>1, SessionsOnlyForgotten, SessionUserIsVouched DEF SessionsTypeOK, Answer, settings
    <2>4. ASSUME NEW b \in Browsers, NEW u \in Users, DevLogin(b, u)
          PROVE  SessionsTypeOK'
      <3>1. PICK new \in Tokens :
              /\ Issue(b, new)
              /\ sessions' = [sessions EXCEPT ![new] = [user |-> u, expired |-> FALSE]]
        BY <2>4 DEF DevLogin, LogIn
      <3>2. /\ role' = [role EXCEPT ![u] = RoleOf(u)]
            /\ shown' = [shown EXCEPT ![b] = u] /\ typedIn' = typedIn \cup {b}
            /\ UNCHANGED <<vouched, settings, signedOut>>
        BY <2>4 DEF DevLogin, LogIn
      <3>3. held' \in [Browsers -> SUBSET Tokens]
        BY <3>1 DEF Issue, SessionsTypeOK
      <3>4. /\ role' \in [Users -> {"admin", "user", "none"}]
            /\ \A v \in Users : role[v] # "none" => role'[v] # "none"
            /\ role'[u] # "none"
        BY <3>2, RoleIsRole DEF SessionsTypeOK
      <3>5. /\ sessions' \in [Tokens -> Session \cup {None}]
            /\ \A s \in Tokens : sessions'[s] # None =>
                 \/ sessions'[s] = sessions[s] /\ sessions[s].user \in Users
                 \/ sessions'[s].user = u
        BY <3>1 DEF SessionsTypeOK, Session
      <3> QED
        BY <3>2, <3>3, <3>4, <3>5 DEF SessionsTypeOK, Answer, settings
    <2>5. ASSUME NEW b \in Browsers, NEW u \in Users \cup {None}, IdentityChanges(b, u)
          PROVE  SessionsTypeOK'
      BY <2>5 DEF IdentityChanges, SessionsTypeOK, Answer, settings
    <2>6. ASSUME NEW b \in Browsers, NEW t \in Tokens, Logout(b, t)
          PROVE  SessionsTypeOK'
      <3>1. /\ sessions' = Forget(t)
            /\ signedOut' = signedOut \cup {t}
            /\ Answer(b, None)
            /\ UNCHANGED <<vouched, held, role, settings>>
        BY <2>6 DEF Logout
      <3> QED
        BY <3>1, SessionsOnlyForgotten DEF SessionsTypeOK, Answer, settings
    <2>7. ASSUME NEW t \in Tokens, SessionExpires(t)
          PROVE  SessionsTypeOK'
      <3>1. /\ sessions[t] \in Session
            /\ sessions' = [sessions EXCEPT ![t] = [user |-> sessions[t].user, expired |-> TRUE]]
            /\ UNCHANGED <<vouched, held, role, settings, signedOut, shown, typedIn>>
        BY <2>7 DEF SessionExpires, SessionsTypeOK
      <3>2. /\ sessions' \in [Tokens -> Session \cup {None}]
            /\ \A s \in Tokens : sessions'[s] # None =>
                 sessions[s] # None /\ sessions'[s].user = sessions[s].user
        <4>1. [user |-> sessions[t].user, expired |-> TRUE] \in Session
          BY <3>1 DEF Session
        <4>2. sessions[t] # None
          BY <2>7 DEF SessionExpires
        <4> QED
          BY <3>1, <4>1, <4>2 DEF SessionsTypeOK
      <3> QED
        BY <3>1, <3>2 DEF SessionsTypeOK, settings
    <2>8. ASSUME Restart
          PROVE  SessionsTypeOK'
      BY <2>8 DEF Restart, SessionsTypeOK
    <2>9. ASSUME UNCHANGED sessionVars
          PROVE  SessionsTypeOK'
      BY <2>9 DEF sessionVars, SessionsTypeOK
    <2> QED
      BY <2>1, <2>2, <2>3, <2>4, <2>5, <2>6, <2>7, <2>8, <2>9 DEF SessionsNext
  <1> QED
    BY <1>1, <1>2, PTL DEF SessionsSpec

-----------------------------------------------------------------------------
(* Who is served                                                           *)

\* A browser with an identity is answered as that person, whatever cookies it
\* still holds, sessions the login form gave it included; only the form's own
\* answer, where the setting allows it, is that of the e-mail typed in. The types
\* say what a session's user is; every request that asks for the user compares
\* him with the identity, and a change of the identity answers nobody.
THEOREM ServesVouched == SessionsSpec => []ServedIsVouched
  <1>1. SessionsInit => ServedIsVouched
    BY DEF SessionsInit, ServedIsVouched
  <1>2. SessionsTypeOK /\ ServedIsVouched /\ [SessionsNext]_sessionVars => ServedIsVouched'
    <2> SUFFICES ASSUME SessionsTypeOK, ServedIsVouched, [SessionsNext]_sessionVars
                 PROVE  ServedIsVouched'
      OBVIOUS
    <2>0. ASSUME NEW b \in Browsers, NEW u \in Users \cup {None}, Answer(b, u),
                 vouched[b] # None => u \in {None, vouched[b]},
                 UNCHANGED <<vouched, settings>>
          PROVE  ServedIsVouched'
      BY <2>0 DEF Answer, ServedIsVouched, SessionsTypeOK, settings
    <2>1. ASSUME NEW b \in Browsers, NEW t \in Tokens \cup {None}, Served(b, t)
          PROVE  ServedIsVouched'
      <3>1. UNCHANGED <<vouched, settings>> /\ Answer(b, CurrentUser(b, t))
        BY <2>1 DEF Served
      <3> QED
        BY <3>1, CurrentUserIsVouched, <2>0
    <2>2. ASSUME NEW b \in Browsers, NEW t \in Tokens \cup {None}, Bootstrap(b, t)
          PROVE  ServedIsVouched'
      <3>1. UNCHANGED <<vouched, settings>> /\ Answer(b, vouched[b])
        BY <2>2 DEF Bootstrap
      <3> QED
        BY <3>1, <2>0 DEF SessionsTypeOK
    <2>3. ASSUME NEW b \in Browsers, NEW t \in Tokens \cup {None}, SessionInfo(b, t)
          PROVE  ServedIsVouched'
      <3>1. UNCHANGED <<vouched, settings>> /\ Answer(b, SessionUser(b, t))
        BY <2>3 DEF SessionInfo
      <3> QED
        BY <3>1, SessionUserIsVouched, <2>0
    <2>4. ASSUME NEW b \in Browsers, NEW u \in Users, DevLogin(b, u)
          PROVE  ServedIsVouched'
      <3>1. /\ devLogin /\ UNCHANGED <<vouched, settings>>
            /\ shown' = [shown EXCEPT ![b] = u] /\ typedIn' = typedIn \cup {b}
        BY <2>4 DEF DevLogin, LogIn
      <3> QED
        BY <3>1 DEF ServedIsVouched, SessionsTypeOK, settings
    <2>5. ASSUME NEW b \in Browsers, NEW u \in Users \cup {None}, IdentityChanges(b, u)
          PROVE  ServedIsVouched'
      BY <2>5 DEF IdentityChanges, Answer, ServedIsVouched, SessionsTypeOK, settings
    <2>6. ASSUME NEW b \in Browsers, NEW t \in Tokens, Logout(b, t)
          PROVE  ServedIsVouched'
      BY <2>6, <2>0 DEF Logout
    <2>7. ASSUME NEW t \in Tokens, SessionExpires(t)
          PROVE  ServedIsVouched'
      BY <2>7 DEF SessionExpires, ServedIsVouched, settings
    <2>8. ASSUME Restart
          PROVE  ServedIsVouched'
      BY <2>8 DEF Restart, ServedIsVouched
    <2>9. ASSUME UNCHANGED sessionVars
          PROVE  ServedIsVouched'
      BY <2>9 DEF sessionVars, ServedIsVouched
    <2> QED
      BY <2>1, <2>2, <2>3, <2>4, <2>5, <2>6, <2>7, <2>8, <2>9 DEF SessionsNext
  <1> QED
    BY <1>1, <1>2, SessionTypes, PTL DEF SessionsSpec

-----------------------------------------------------------------------------
(* Sign-out                                                                *)

\* A cookie that signed out was given to some browser.
SignedOutWasHeld == \A t \in signedOut : \E b \in Browsers : t \in held[b]

SignOutInv == SignedOutStaysOut /\ SignedOutWasHeld

\* What every step but a sign-in keeps: no session begins, no cookie is taken back.
LEMMA NothingBegins ==
  ASSUME SessionsTypeOK, SignOutInv, UNCHANGED <<held, signedOut>>,
         \A s \in Tokens : sessions[s] = None => sessions'[s] = None
  PROVE  SignOutInv'
  BY DEF SignOutInv, SignedOutStaysOut, SignedOutWasHeld, SessionsTypeOK

\* A sign-in begins a session under a token that no browser holds, so under
\* none that signed out.
LEMMA SignInIsFresh ==
  ASSUME SessionsTypeOK, SignOutInv, UNCHANGED signedOut,
         NEW b \in Browsers, NEW new \in Tokens, Issue(b, new),
         \A s \in Tokens \ {new} : sessions[s] = None => sessions'[s] = None
  PROVE  SignOutInv'
  <1>1. new \notin signedOut
    BY DEF Issue, SignOutInv, SignedOutWasHeld
  <1>2. SignedOutStaysOut'
    BY <1>1 DEF SignOutInv, SignedOutStaysOut, SessionsTypeOK
  <1>3. \A c \in Browsers : held[c] \subseteq held'[c]
    BY DEF Issue, SessionsTypeOK
  <1>4. SignedOutWasHeld'
    BY <1>3 DEF SignOutInv, SignedOutWasHeld
  <1> QED
    BY <1>2, <1>4 DEF SignOutInv

\* A cookie that was sent with a sign-out never has a session again: later
\* requests with it find none, and new sessions get tokens of their own.
THEOREM SignOutIsFinal == SessionsSpec => []SignedOutStaysOut
  <1>1. SessionsInit => SignOutInv
    BY DEF SessionsInit, SignOutInv, SignedOutStaysOut, SignedOutWasHeld
  <1>2. SessionsTypeOK /\ SignOutInv /\ [SessionsNext]_sessionVars => SignOutInv'
    <2> SUFFICES ASSUME SessionsTypeOK, SignOutInv, [SessionsNext]_sessionVars
                 PROVE  SignOutInv'
      OBVIOUS
    <2>1. ASSUME NEW b \in Browsers, NEW t \in Tokens \cup {None},
                 Served(b, t) \/ SessionInfo(b, t)
          PROVE  SignOutInv'
      <3>1. sessions' = SessionsAfter(b, t) /\ UNCHANGED <<held, signedOut>>
        BY <2>1 DEF Served, ResolveCurrentUser, SessionInfo
      <3> QED
        BY <3>1, SessionsOnlyForgotten, NothingBegins
    <2>2. ASSUME NEW b \in Browsers, NEW t \in Tokens \cup {None}, Bootstrap(b, t)
          PROVE  SignOutInv'
      <3>1. PICK new \in Tokens :
              /\ Issue(b, new)
              /\ sessions' = [SessionsAfter(b, t) EXCEPT
                                ![new] = [user |-> vouched[b], expired |-> FALSE]]
        BY <2>2 DEF Bootstrap
      <3>2. UNCHANGED signedOut
        BY <2>2 DEF Bootstrap
      <3>3. \A s \in Tokens \ {new} : sessions[s] = None => sessions'[s] = None
        BY <3>1, SessionsOnlyForgotten
      <3> QED
        BY <3>1, <3>2, <3>3, SignInIsFresh
    <2>3. ASSUME NEW b \in Browsers, NEW u \in Users, DevLogin(b, u)
          PROVE  SignOutInv'
      <3>1. PICK new \in Tokens :
              /\ Issue(b, new)
              /\ sessions' = [sessions EXCEPT ![new] = [user |-> u, expired |-> FALSE]]
        BY <2>3 DEF DevLogin, LogIn
      <3>2. UNCHANGED signedOut
        BY <2>3 DEF DevLogin
      <3>3. \A s \in Tokens \ {new} : sessions[s] = None => sessions'[s] = None
        BY <3>1 DEF SessionsTypeOK
      <3> QED
        BY <3>1, <3>2, <3>3, SignInIsFresh
    <2>4. ASSUME NEW b \in Browsers, NEW t \in Tokens, Logout(b, t)
          PROVE  SignOutInv'
      <3>1. /\ t \in held[b] /\ UNCHANGED held
            /\ sessions' = Forget(t) /\ signedOut' = signedOut \cup {t}
        BY <2>4 DEF Logout
      <3>2. sessions'[t] = None
        BY <3>1, NoneIsNobody DEF Forget, SessionsTypeOK
      <3>3. \A s \in Tokens : sessions[s] = None => sessions'[s] = None
        BY <3>1, NoneIsNobody DEF Forget, SessionsTypeOK
      <3> QED
        BY <3>1, <3>2, <3>3
        DEF SignOutInv, SignedOutStaysOut, SignedOutWasHeld, SessionsTypeOK
    <2>5. ASSUME NEW t \in Tokens, SessionExpires(t)
          PROVE  SignOutInv'
      <3>1. UNCHANGED <<held, signedOut>> /\ sessions[t] # None
        BY <2>5 DEF SessionExpires
      <3>2. \A s \in Tokens : sessions[s] = None => sessions'[s] = None
        BY <2>5, <3>1 DEF SessionExpires, SessionsTypeOK
      <3> QED
        BY <3>1, <3>2, NothingBegins
    <2>6. ASSUME NEW b \in Browsers, NEW u \in Users \cup {None}, IdentityChanges(b, u)
          PROVE  SignOutInv'
      BY <2>6, NothingBegins DEF IdentityChanges
    <2>7. ASSUME Restart \/ UNCHANGED sessionVars
          PROVE  SignOutInv'
      BY <2>7, NothingBegins DEF Restart, sessionVars
    <2> QED
      BY <2>1, <2>2, <2>3, <2>4, <2>5, <2>6, <2>7 DEF SessionsNext
  <1>3. SignOutInv => SignedOutStaysOut
    BY DEF SignOutInv
  <1> QED
    BY <1>1, <1>2, <1>3, SessionTypes, PTL DEF SessionsSpec

=============================================================================
