-------------------------- MODULE Connections_proofs --------------------------
(***************************************************************************)
(* Proofs about Connections, for every set of users, requests and OAuth    *)
(* states, whatever the token endpoints answer.                            *)
(***************************************************************************)
EXTENDS Connections, TLAPS

(***************************************************************************)
(* The steps, with what differs between the providers taken out.           *)
(***************************************************************************)
\* A callback refused, or time: the state can no longer be used.
Closes(s, status) ==
  /\ issued[s] # None /\ issued[s].status # "consumed"
  /\ issued' = [issued EXCEPT ![s] = [issued[s] EXCEPT !.status = status]]
  /\ UNCHANGED <<conn, exchanges, req, others>>

\* A callback accepted: the code is exchanged.
NewCopy(s) == [grant |-> s, number |-> None, expiry |-> "unknown", scope |-> ""]
Accepts(r, u, p, s) ==
  /\ req[r].pc = "new" /\ issued[s] # None /\ issued[s].status = "open"
  /\ issued[s].by = u /\ issued[s].provider = p
  /\ issued' = [issued EXCEPT ![s] = [issued[s] EXCEPT !.status = "consumed"]]
  /\ Begin(r, "connect", u, p, "exchanging", NewCopy(s))
  /\ exchanges' = [exchanges EXCEPT ![s] = @ + 1]
  /\ UNCHANGED <<conn, others>>

\* The tokens are there.
Tokens(c, number, expiry, scope) ==
  [grant |-> c.grant, number |-> number, expiry |-> expiry, scope |-> scope]
Receives(r, number, expiry, scope) ==
  /\ req[r].pc = "exchanging"
  /\ number \in {0, None} /\ expiry \in {"fresh", "unknown"} /\ scope \in Scopes
  /\ req[r].provider = "jira" => expiry = "fresh"
  /\ GoOn(r, "profile", Tokens(req[r].copy, number, expiry, scope))
  /\ UNCHANGED <<conn, issued, exchanges, others>>

\* A request without a copy: none at all, or one with the server's own credentials.
Bare == [ op : {"none", "clone", "fetch"}, pc : {"new", "using"},
          user : {None}, provider : {None}, copy : {None} ]

\* A request ends, or goes on with the server's own credentials.
Drops(r, q) ==
  /\ q \in Bare /\ req' = [req EXCEPT ![r] = q]
  /\ lost' = IF req[r].pc = "refreshed" THEN lost \cup {req[r].copy.grant} ELSE lost
  /\ UNCHANGED <<conn, issued, exchanges, latest, configured, restarts>>

\* A request takes a copy of a row.
Takes(r, op, u, p, pc) ==
  /\ req[r].pc = "new" /\ conn[<<u, p>>] # None
  /\ pc \in {"using", "refreshing"}
  /\ pc = "refreshing" => conn[<<u, p>>].number # None
  /\ Begin(r, op, u, p, pc, conn[<<u, p>>])
  /\ UNCHANGED <<conn, issued, exchanges, others>>

\* The provider has sent new tokens, n the number of the refresh token.
Refreshed(c, n) == [grant |-> c.grant, number |-> n, expiry |-> "fresh", scope |-> c.scope]
Refreshes(r, n) ==
  /\ req[r].pc = "refreshing" /\ n \in Numbers
  /\ req[r].copy.number = latest[req[r].copy.grant]
  /\ n = (IF req[r].provider \in Rotating THEN req[r].copy.number + 1 ELSE req[r].copy.number)
  /\ latest' = [latest EXCEPT ![req[r].copy.grant] = n]
  /\ GoOn(r, "refreshed", Refreshed(req[r].copy, n))
  /\ UNCHANGED <<conn, issued, exchanges, lost, configured, restarts>>

\* A request writes the row of its user.
Writes(r, pc) ==
  /\ conn' = [conn EXCEPT ![At(r)] = req[r].copy]
  /\ \/ pc = "profile" /\ End(r)
     \/ pc = "refreshed" /\ GoOn(r, "using", req[r].copy)
  /\ req[r].pc = pc
  /\ UNCHANGED <<issued, exchanges, others>>

\* A row is left with other contents or none, for the same authorization.
Aged(c) == [grant |-> c.grant, number |-> c.number, expiry |-> "stale", scope |-> c.scope]
Rests(u, p, row) ==
  /\ conn[<<u, p>>] # None /\ row \in {None, Aged(conn[<<u, p>>])}
  /\ conn' = [conn EXCEPT ![<<u, p>>] = row]
  /\ UNCHANGED <<issued, exchanges, req, others>>

Moves ==
  \/ \E u \in Users, p \in Providers, s \in States : StartAuthorization(u, p, s)
  \/ \E s \in States, status \in {"expired", "consumed"} : Closes(s, status)
  \/ \E r \in Requests, u \in Users, p \in Providers, s \in States : Accepts(r, u, p, s)
  \/ \E r \in Requests : \E number, expiry, scope : Receives(r, number, expiry, scope)
  \/ \E r \in Requests, q \in Bare : Drops(r, q)
  \/ \E r \in Requests, op \in {"list", "clone", "push", "fetch"}, u \in Users, p \in Providers :
       \E pc \in {"using", "refreshing"} : Takes(r, op, u, p, pc)
  \/ \E r \in Requests, n \in Numbers : Refreshes(r, n)
  \/ \E r \in Requests, pc \in {"profile", "refreshed"} : Writes(r, pc)
  \/ \E u \in Users, p \in Providers : \E row : Rests(u, p, row)
  \/ ProcessRestarts
  \/ UNCHANGED connectionVars

(***************************************************************************)
(* What the stages of a request say about its copy.                        *)
(***************************************************************************)
\* A request that waits for a provider has a copy, of a user's account; one that refreshes
\* has a refresh token, and what is about to be saved for Jira has an expiry.
CopyFits(q) ==
  /\ q.pc \in {"exchanging", "profile", "refreshing", "refreshed"} =>
       q.user \in Users /\ q.provider \in Providers /\ q.copy \in Connection
  /\ q.pc \in {"refreshing", "refreshed"} => q.copy.number # None
  /\ q.pc = "profile" /\ q.provider = "jira" => q.copy.expiry # "unknown"
  /\ q.pc = "refreshed" => q.copy.expiry = "fresh"
  /\ q.copy # None => q.user \in Users /\ q.provider \in Providers

TypeInv == ConnectionsTypeOK /\ \A r \in Requests : CopyFits(req[r])

(***************************************************************************)
(* Every step is one of these moves.                                       *)
(***************************************************************************)
\* What a token endpoint's answer is made into is in the type.
LEMMA TokensFit ==
  ASSUME NEW p \in Providers, NEW a \in Answers
  PROVE  /\ TokensOf(p, a, 0).number \in {0, None}
         /\ TokensOf(p, a, 0).expiry \in {"fresh", "unknown"}
         /\ TokensOf(p, a, 0).scope \in Scopes
         /\ p = "jira" => TokensOf(p, a, 0).expiry = "fresh"
<1>1. a \in Answer /\ ConfiguredScope \in Scopes /\ p \in {"github", "gitlab", "bitbucket", "jira"}
  BY AnswersAssumption, ScopeAssumption, ProvidersAssumption DEF GitHosts
<1>2. /\ Expiry(a) \in {"fresh", "unknown"} /\ Number(a, 0) \in {0, None}
      /\ a.scope \in Scopes /\ OrConfigured(a.scope) \in Scopes
  BY <1>1 DEF Expiry, Number, OrConfigured, Answer
<1>3. CASE p = "github"  BY <1>2, <1>3 DEF TokensOf, GitHubTokens
<1>4. CASE p = "gitlab"  BY <1>2, <1>4 DEF TokensOf, GitLabTokens
<1>5. CASE p = "bitbucket"  BY <1>2, <1>5 DEF TokensOf, BitbucketTokens
<1>6. CASE p = "jira"  BY <1>2, <1>6 DEF TokensOf, JiraTokens
<1> QED BY <1>1, <1>3, <1>4, <1>5, <1>6

\* A callback closes the state, or is accepted.
LEMMA CallbackMoves ==
  ASSUME TypeInv, NEW r \in Requests, NEW u \in Users, NEW s \in States,
         NEW p \in Providers, NEW valid, NEW table, Complete(r, u, p, s, valid, table),
         valid => Stored(s, table) /\ issued[s].status = "open"
                  /\ issued[s].by = u /\ issued[s].provider = p
  PROVE  Moves
<1>1. CASE ~Stored(s, table)
  BY <1>1 DEF Complete, Deleted, Moves, connectionVars, others
<1>2. CASE Stored(s, table) /\ ~valid
  <2>1. Closes(s, "consumed")
    BY <1>2 DEF Complete, Deleted, Closes, Stored, others
  <2> QED BY <2>1 DEF Moves
<1>3. CASE Stored(s, table) /\ valid
  <2>1. Accepts(r, u, p, s)
    BY <1>3 DEF Complete, Deleted, Accepts, NewCopy, Stored, others
  <2> QED BY <2>1 DEF Moves
<1> QED BY <1>1, <1>2, <1>3

LEMMA ConnectMoves == TypeInv /\ ConnectNext => Moves
<1> SUFFICES ASSUME TypeInv, ConnectNext PROVE Moves
  OBVIOUS
<1>1. ASSUME NEW u \in Users, NEW s \in States,
             \/ CreateGitHubAuthorization(u, s) \/ CreateGitLabAuthorization(u, s)
             \/ CreateBitbucketAuthorization(u, s) \/ CreateJiraAuthorization(u, s)
      PROVE  Moves
  <2>1. \E p : StartAuthorization(u, p, s)
    BY <1>1 DEF CreateGitHubAuthorization, CreateGitLabAuthorization,
                CreateBitbucketAuthorization, CreateJiraAuthorization
  <2>2. \E p \in Providers : StartAuthorization(u, p, s)
    BY <2>1 DEF StartAuthorization, TypeInv, ConnectionsTypeOK
  <2> QED BY <2>2 DEF Moves
<1>2. ASSUME NEW r \in Requests, NEW u \in Users, NEW s \in States,
             \/ "github" \in Providers /\ CompleteGitHub(r, u, s)
             \/ "gitlab" \in Providers /\ CompleteGitLab(r, u, s)
             \/ "bitbucket" \in Providers /\ CompleteBitbucket(r, u, s)
             \/ "jira" \in Providers /\ CompleteJira(r, u, s)
      PROVE  Moves
  <2>1. ASSUME "github" \in Providers, CompleteGitHub(r, u, s) PROVE Moves
    BY <2>1, CallbackMoves DEF CompleteGitHub, ProviderStateValid
  <2>2. ASSUME "gitlab" \in Providers, CompleteGitLab(r, u, s) PROVE Moves
    BY <2>2, CallbackMoves DEF CompleteGitLab, ProviderStateValid
  <2>3. ASSUME "bitbucket" \in Providers, CompleteBitbucket(r, u, s) PROVE Moves
    BY <2>3, CallbackMoves DEF CompleteBitbucket, ProviderStateValid
  <2>4. ASSUME "jira" \in Providers, CompleteJira(r, u, s) PROVE Moves
    <3>1. JiraStateValid(s, u) => issued[s].provider = "jira"
      BY DEF JiraStateValid, Stored
    <3> QED BY <2>4, <3>1, CallbackMoves DEF CompleteJira, JiraStateValid
  <2> QED BY <1>2, <2>1, <2>2, <2>3, <2>4
<1>3. ASSUME NEW r \in Requests, Exchanged(r) PROVE Moves
  <2>1. /\ req[r].pc = "exchanging" /\ req[r] \in Request /\ CopyFits(req[r])
        /\ req[r].provider \in Providers
    BY <1>3 DEF Exchanged, TypeInv, ConnectionsTypeOK, CopyFits
  <2>2. PICK a \in Answers :
          LET tokens == TokensOf(req[r].provider, a, 0)
          IN  GoOn(r, "profile", [grant |-> req[r].copy.grant, number |-> tokens.number,
                                  expiry |-> tokens.expiry, scope |-> tokens.scope])
    BY <1>3 DEF Exchanged
  <2> DEFINE t == TokensOf(req[r].provider, a, 0)
  <2>3. Receives(r, t.number, t.expiry, t.scope)
    <3>1. GoOn(r, "profile", Tokens(req[r].copy, t.number, t.expiry, t.scope))
      BY <2>2 DEF Tokens
    <3> HIDE DEF t
    <3>2. /\ t.number \in {0, None} /\ t.expiry \in {"fresh", "unknown"} /\ t.scope \in Scopes
          /\ req[r].provider = "jira" => t.expiry = "fresh"
      BY <2>1, TokensFit DEF t
    <3> QED BY <1>3, <2>1, <3>1, <3>2 DEF Receives, Exchanged
  <2> QED BY <2>3 DEF Moves
<1>4. ASSUME NEW r \in Requests, ConnectFails(r) PROVE Moves
  <2>1. Drops(r, NotMade)  BY <1>4 DEF ConnectFails, Drops, End, NotMade, Bare, others
  <2> QED BY <2>1 DEF Moves, Drops
<1>5. ASSUME NEW r \in Requests,
             \/ GitHubUserRead(r) \/ GitLabUserRead(r) \/ BitbucketUserRead(r) \/ JiraSiteResolved(r)
      PROVE  Moves
  <2>1. Writes(r, "profile")
    BY <1>5 DEF GitHubUserRead, GitLabUserRead, BitbucketUserRead, JiraSiteResolved, ProfileRead,
                Writes
  <2> QED BY <2>1 DEF Moves
<1> QED BY <1>1, <1>2, <1>3, <1>4, <1>5 DEF ConnectNext

LEMMA UseMoves == TypeInv /\ UseNext => Moves
<1> SUFFICES ASSUME TypeInv, UseNext PROVE Moves
  OBVIOUS
<1> USE ProvidersAssumption
<1>1. ASSUME NEW r \in Requests, NEW op \in {"list", "clone", "push", "fetch"}, NEW u \in Users,
             NEW p \in Providers, UseConnection(r, op, u, p)
      PROVE  Moves
  <2>1. Takes(r, op, u, p, "using") \/ Takes(r, op, u, p, "refreshing")
    BY <1>1 DEF UseConnection, Takes, Refreshable
  <2> QED BY <2>1 DEF Moves
<1>2. ASSUME NEW r \in Requests, NEW op \in {"clone", "fetch"}, req[r].pc = "new",
             Begin(r, op, None, None, "using", None), UNCHANGED <<conn, issued, exchanges, others>>
      PROVE  Moves
  <2>1. Drops(r, [op |-> op, pc |-> "using", user |-> None, provider |-> None, copy |-> None])
    BY <1>2 DEF Drops, Begin, Bare, others
  <2> QED BY <2>1 DEF Moves, Drops
<1>3. ASSUME NEW r \in Requests, Unrefreshed(r),
             lost' = IF req[r].pc = "refreshed" THEN lost \cup {req[r].copy.grant} ELSE lost,
             UNCHANGED <<conn, issued, exchanges, latest, configured, restarts>>
      PROVE  Moves
  <2> DEFINE q == [op |-> "clone", pc |-> "using", user |-> None, provider |-> None, copy |-> None]
  <2>1. Drops(r, q) \/ Drops(r, NotMade)
    BY <1>3 DEF Unrefreshed, Drops, Begin, End, NotMade, Bare
  <2> QED BY <2>1 DEF Moves, Drops
<1>4. ASSUME NEW r \in Requests, NEW ops, Used(r, ops) PROVE Moves
  <2>1. Drops(r, NotMade)
    BY <1>4 DEF Used, Drops, End, NotMade, Bare, others
  <2> QED BY <2>1 DEF Moves, Drops
<1>5. ASSUME NEW r \in Requests, NEW u \in Users,
             \/ "github" \in Providers /\ ListGitHubRepositories(r, u)
             \/ "gitlab" \in Providers /\ ListGitLabRepositories(r, u)
             \/ "bitbucket" \in Providers /\ ListBitbucketRepositories(r, u)
             \/ "jira" \in Providers /\ (FetchAsOwner(r, u) \/ FetchAsServer(r, u))
             \/ \E p \in Providers :
                  CloneAsOwner(r, u, p) \/ CloneAsMachine(r, u, p) \/ PushAsUser(r, u, p)
      PROVE  Moves
  <2>1. ASSUME FetchAsServer(r, u) PROVE Moves
    BY <2>1, <1>2 DEF FetchAsServer
  <2>2. ASSUME NEW p \in Providers, CloneAsMachine(r, u, p) PROVE Moves
    BY <2>2, <1>2 DEF CloneAsMachine
  <2>3. \/ FetchAsServer(r, u) \/ \E p \in Providers : CloneAsMachine(r, u, p)
        \/ \E op \in {"list", "clone", "push", "fetch"}, p \in Providers : UseConnection(r, op, u, p)
    BY <1>5 DEF ListGitHubRepositories, ListGitLabRepositories, ListBitbucketRepositories,
                FetchAsOwner, CloneAsOwner, PushAsUser
  <2> QED BY <1>1, <2>1, <2>2, <2>3
<1>6. ASSUME NEW r \in Requests, ProviderRefreshes(r) PROVE Moves
  <2> DEFINE c == req[r].copy
             n == IF req[r].provider \in Rotating THEN c.number + 1 ELSE c.number
  <2>1. c \in Connection /\ c.number # None /\ c.number \in Numbers
    BY <1>6 DEF ProviderRefreshes, TypeInv, CopyFits, Connection
  <2>2. GoOn(r, "refreshed", Refreshed(c, n)) /\ n <= MaxRefreshes
    BY <1>6 DEF ProviderRefreshes, Refreshed
  <2>3. n \in Numbers  BY <2>1, <2>2, ConnectionBounds DEF Numbers
  <2>4. Refreshes(r, n)
    BY <1>6, <2>2, <2>3 DEF ProviderRefreshes, Refreshes
  <2> HIDE DEF n
  <2> QED BY <2>3, <2>4 DEF Moves
<1>7. ASSUME NEW r \in Requests,
             RefreshGitHub(r) \/ RefreshGitLab(r) \/ RefreshBitbucket(r) \/ RefreshJira(r)
      PROVE  Moves
  <2>1. Writes(r, "refreshed")
    BY <1>7 DEF RefreshGitHub, RefreshGitLab, RefreshBitbucket, RefreshJira, RefreshSaved, Writes
  <2> QED BY <2>1 DEF Moves
<1>8. ASSUME NEW r \in Requests, RefreshRefused(r) \/ RefreshLost(r) PROVE Moves
  BY <1>3, <1>8 DEF RefreshRefused, RefreshLost, others
<1>9. ASSUME NEW r \in Requests,
             \/ GitHubRepositoriesFetched(r) \/ GitLabRepositoriesFetched(r)
             \/ BitbucketRepositoriesFetched(r) \/ TokenUsed(r)
      PROVE  Moves
  BY <1>4, <1>9 DEF GitHubRepositoriesFetched, GitLabRepositoriesFetched,
                    BitbucketRepositoriesFetched, TokenUsed
<1> QED BY <1>5, <1>6, <1>7, <1>8, <1>9 DEF UseNext

LEMMA NextMoves == TypeInv /\ [ConnectionsNext]_connectionVars => Moves
<1> SUFFICES ASSUME TypeInv, [ConnectionsNext]_connectionVars PROVE Moves
  OBVIOUS
<1>1. ASSUME NEW u \in Users, NEW p \in Providers, Disconnect(u, p) PROVE Moves
  <2>1. Rests(u, p, None)  BY <1>1 DEF Disconnect, Rests
  <2> QED BY <2>1 DEF Moves
<1>2. ASSUME NEW u \in Users, NEW p \in Providers, TokenExpires(u, p) PROVE Moves
  <2> DEFINE c == conn[<<u, p>>]
  <2>1. c \in Connection  BY <1>2 DEF TokenExpires, TypeInv, ConnectionsTypeOK
  <2>2. [c EXCEPT !.expiry = "stale"] = Aged(c)
    <3> HIDE DEF c
    <3> QED BY <2>1 DEF Connection, Aged
  <2>3. Rests(u, p, Aged(c))
    BY <1>2, <2>2 DEF TokenExpires, Rests
  <2> QED BY <2>3 DEF Moves
<1>3. ASSUME NEW s \in States, StateExpires(s) PROVE Moves
  <2>1. Closes(s, "expired")  BY <1>3 DEF StateExpires, Closes
  <2> QED BY <2>1 DEF Moves
<1>4. CASE ProcessRestarts  BY <1>4 DEF Moves
<1>5. CASE UNCHANGED connectionVars  BY <1>5 DEF Moves
<1> QED BY <1>1, <1>2, <1>3, <1>4, <1>5, ConnectMoves, UseMoves DEF ConnectionsNext

(***************************************************************************)
(* The types.                                                              *)
(***************************************************************************)
\* What a request may hold in the type.
Fits(q) == q \in Request /\ CopyFits(q)

\* A step that gives one request a value of the type keeps the requests in the type.
LEMMA RequestsFit ==
  ASSUME TypeInv, NEW r \in Requests, NEW q, Fits(q), req' = [req EXCEPT ![r] = q]
  PROVE  req' \in [Requests -> Request] /\ \A o \in Requests : CopyFits(req'[o])
<1>1. \A o \in Requests : req[o] \in Request /\ CopyFits(req[o])
  BY DEF TypeInv, ConnectionsTypeOK
<1>2. \A o \in Requests : req'[o] = IF o = r THEN q ELSE req[o]
  BY DEF TypeInv, ConnectionsTypeOK
<1>3. req' \in [Requests -> Request]
  BY DEF TypeInv, ConnectionsTypeOK, Fits
<1> QED BY <1>1, <1>2, <1>3 DEF Fits

LEMMA TypeInit == ConnectionsInit => TypeInv
<1> SUFFICES ASSUME ConnectionsInit PROVE TypeInv
  OBVIOUS
<1>1. NotMade \in Request /\ CopyFits(NotMade)
  BY DEF NotMade, Request, CopyFits
<1>2. req \in [Requests -> Request] /\ \A r \in Requests : CopyFits(req[r])
  BY <1>1 DEF ConnectionsInit
<1>3. /\ issued \in [States -> State \cup {None}] /\ exchanges \in [States -> Nat]
      /\ conn \in [Users \X Providers -> Connection \cup {None}]
      /\ \A c \in Users \X Providers : conn[c] # None => conn[c].expiry = "fresh"
  <2>1. PICK s \in States, u \in Users, p \in Providers, n \in {0, None}, scope \in Scopes :
          /\ issued = [t \in States |->
                         IF t = s THEN [by |-> u, provider |-> p, status |-> "consumed"] ELSE None]
          /\ exchanges = [t \in States |-> IF t = s THEN 1 ELSE 0]
          /\ conn = [c \in Users \X Providers |->
                       IF c = <<u, p>>
                       THEN [grant |-> s, number |-> n, expiry |-> "fresh", scope |-> scope]
                       ELSE None]
    BY DEF ConnectionsInit
  <2>2. [by |-> u, provider |-> p, status |-> "consumed"] \in State  BY DEF State
  <2>3. [grant |-> s, number |-> n, expiry |-> "fresh", scope |-> scope] \in Connection
    BY ConnectionBounds DEF Connection, Numbers
  <2> QED BY <2>1, <2>2, <2>3
<1>4. latest \in [States -> Numbers] /\ lost \subseteq States
  BY ConnectionBounds DEF ConnectionsInit, Numbers
<1>5. configured \subseteq Providers /\ restarts \in 0..MaxRestarts
  BY DeploymentsAssumption, ConnectionBounds DEF ConnectionsInit
<1> QED BY <1>2, <1>3, <1>4, <1>5 DEF TypeInv, ConnectionsTypeOK

LEMMA TypeStep == TypeInv /\ Moves => TypeInv'
<1> SUFFICES ASSUME TypeInv, Moves PROVE TypeInv'
  OBVIOUS
<1>1. ASSUME NEW u \in Users, NEW p \in Providers, NEW s \in States, StartAuthorization(u, p, s)
      PROVE  TypeInv'
  <2>1. [by |-> u, provider |-> p, status |-> "open"] \in State  BY DEF State
  <2>2. issued' \in [States -> State \cup {None}]
    BY <1>1, <2>1 DEF StartAuthorization, TypeInv, ConnectionsTypeOK
  <2> QED BY <1>1, <2>2 DEF StartAuthorization, TypeInv, ConnectionsTypeOK, others
<1>2. ASSUME NEW s \in States, NEW status \in {"expired", "consumed"}, Closes(s, status)
      PROVE  TypeInv'
  <2>1. issued[s] \in State  BY <1>2 DEF Closes, TypeInv, ConnectionsTypeOK
  <2>2. [issued[s] EXCEPT !.status = status] \in State  BY <2>1 DEF State
  <2>3. issued' \in [States -> State \cup {None}]
    BY <1>2, <2>2 DEF Closes, TypeInv, ConnectionsTypeOK
  <2> QED BY <1>2, <2>3 DEF Closes, TypeInv, ConnectionsTypeOK, others
<1>3. ASSUME NEW r \in Requests, NEW u \in Users, NEW p \in Providers, NEW s \in States,
             Accepts(r, u, p, s)
      PROVE  TypeInv'
  <2>1. issued[s] \in State  BY <1>3 DEF Accepts, TypeInv, ConnectionsTypeOK
  <2>2. [issued[s] EXCEPT !.status = "consumed"] \in State  BY <2>1 DEF State
  <2>3. issued' \in [States -> State \cup {None}]
    BY <1>3, <2>2 DEF Accepts, TypeInv, ConnectionsTypeOK
  <2>4. exchanges' \in [States -> Nat]
    BY <1>3 DEF Accepts, TypeInv, ConnectionsTypeOK
  <2> DEFINE q == [op |-> "connect", pc |-> "exchanging", user |-> u, provider |-> p,
                   copy |-> NewCopy(s)]
  <2>5. Fits(q)
    <3>1. NewCopy(s) \in Connection  BY DEF NewCopy, Connection, Scopes
    <3> QED BY <3>1 DEF Fits, Request, CopyFits
  <2>6. req' = [req EXCEPT ![r] = q]  BY <1>3 DEF Accepts, Begin
  <2> HIDE DEF q
  <2>7. req' \in [Requests -> Request] /\ \A o \in Requests : CopyFits(req'[o])
    BY <2>5, <2>6, RequestsFit
  <2> QED BY <1>3, <2>3, <2>4, <2>7 DEF Accepts, TypeInv, ConnectionsTypeOK, others
<1>4. ASSUME NEW r \in Requests, NEW number, NEW expiry, NEW scope,
             Receives(r, number, expiry, scope)
      PROVE  TypeInv'
  <2> DEFINE c == Tokens(req[r].copy, number, expiry, scope)
             q == [op |-> req[r].op, pc |-> "profile", user |-> req[r].user,
                   provider |-> req[r].provider, copy |-> c]
  <2>1. Fits(q)
    <3>1. req[r].copy \in Connection /\ req[r].user \in Users /\ req[r].provider \in Providers
          /\ req[r] \in Request
      BY <1>4 DEF Receives, TypeInv, CopyFits, ConnectionsTypeOK
    <3>2. c \in Connection /\ (req[r].provider = "jira" => c.expiry # "unknown")
      BY <1>4, <3>1, ConnectionBounds DEF Receives, Tokens, Connection, Numbers
    <3> HIDE DEF c
    <3> QED BY <3>1, <3>2 DEF Fits, Request, CopyFits
  <2>2. req' = [req EXCEPT ![r] = q]  BY <1>4 DEF Receives, GoOn, Begin
  <2> HIDE DEF q
  <2>3. req' \in [Requests -> Request] /\ \A o \in Requests : CopyFits(req'[o])
    BY <2>1, <2>2, RequestsFit
  <2> QED BY <1>4, <2>3 DEF Receives, TypeInv, ConnectionsTypeOK, others
<1>5. ASSUME NEW r \in Requests, NEW q \in Bare, Drops(r, q) PROVE TypeInv'
  <2>1. Fits(q)  BY DEF Fits, Bare, Request, CopyFits
  <2>2. req' \in [Requests -> Request] /\ \A o \in Requests : CopyFits(req'[o])
    BY <1>5, <2>1, RequestsFit DEF Drops
  <2>3. lost' \subseteq States
    <3>1. req[r].pc = "refreshed" => req[r].copy.grant \in States
      BY DEF TypeInv, CopyFits, Connection
    <3> QED BY <1>5, <3>1 DEF Drops, TypeInv, ConnectionsTypeOK
  <2> QED BY <1>5, <2>2, <2>3 DEF Drops, TypeInv, ConnectionsTypeOK
<1>6. ASSUME NEW r \in Requests, NEW op \in {"list", "clone", "push", "fetch"}, NEW u \in Users,
             NEW p \in Providers, NEW pc \in {"using", "refreshing"}, Takes(r, op, u, p, pc)
      PROVE  TypeInv'
  <2> DEFINE q == [op |-> op, pc |-> pc, user |-> u, provider |-> p, copy |-> conn[<<u, p>>]]
  <2>1. conn[<<u, p>>] \in Connection  BY <1>6 DEF Takes, TypeInv, ConnectionsTypeOK
  <2>2. Fits(q)  BY <1>6, <2>1 DEF Takes, Fits, Request, CopyFits
  <2>3. req' = [req EXCEPT ![r] = q]  BY <1>6 DEF Takes, Begin
  <2> HIDE DEF q
  <2>4. req' \in [Requests -> Request] /\ \A o \in Requests : CopyFits(req'[o])
    BY <2>2, <2>3, RequestsFit
  <2> QED BY <1>6, <2>4 DEF Takes, TypeInv, ConnectionsTypeOK, others
<1>7. ASSUME NEW r \in Requests, NEW n \in Numbers, Refreshes(r, n) PROVE TypeInv'
  <2> DEFINE c == Refreshed(req[r].copy, n)
             q == [op |-> req[r].op, pc |-> "refreshed", user |-> req[r].user,
                   provider |-> req[r].provider, copy |-> c]
  <2>1. Fits(q)
    <3>1. req[r].copy \in Connection /\ req[r].user \in Users /\ req[r].provider \in Providers
          /\ req[r] \in Request
      BY <1>7 DEF Refreshes, TypeInv, CopyFits, ConnectionsTypeOK
    <3>2. n # None  BY NoneIsNoOther, ConnectionBounds DEF Numbers
    <3>3. c \in Connection /\ c.expiry = "fresh" /\ c.number # None
      BY <3>1, <3>2 DEF Refreshed, Connection
    <3> HIDE DEF c
    <3> QED BY <3>1, <3>3 DEF Fits, Request, CopyFits
  <2>2. req' = [req EXCEPT ![r] = q]  BY <1>7 DEF Refreshes, GoOn, Begin
  <2> HIDE DEF q
  <2>3. req' \in [Requests -> Request] /\ \A o \in Requests : CopyFits(req'[o])
    BY <2>1, <2>2, RequestsFit
  <2> QED BY <1>7, <2>3 DEF Refreshes, TypeInv, ConnectionsTypeOK
<1>8. ASSUME NEW r \in Requests, NEW pc \in {"profile", "refreshed"}, Writes(r, pc) PROVE TypeInv'
  <2>1. /\ req[r].copy \in Connection /\ req[r].user \in Users /\ req[r].provider \in Providers
        /\ req[r] \in Request
        /\ req[r].provider = "jira" => req[r].copy.expiry # "unknown"
    BY <1>8 DEF Writes, TypeInv, CopyFits, ConnectionsTypeOK
  <2>2. At(r) \in Users \X Providers  BY <2>1 DEF At
  <2>3. conn' \in [Users \X Providers -> Connection \cup {None}]
    BY <1>8, <2>1, <2>2 DEF Writes, TypeInv, ConnectionsTypeOK
  <2>4. \A u \in Users : "jira" \in Providers /\ conn'[<<u, "jira">>] # None
                           => conn'[<<u, "jira">>].expiry # "unknown"
    <3> SUFFICES ASSUME NEW u \in Users, "jira" \in Providers, conn'[<<u, "jira">>] # None
                 PROVE  conn'[<<u, "jira">>].expiry # "unknown"
      OBVIOUS
    <3> DEFINE a == <<u, "jira">>
    <3>1. a \in Users \X Providers  OBVIOUS
    <3>2. conn'[a] = IF a = At(r) THEN req[r].copy ELSE conn[a]
      BY <1>8, <3>1 DEF Writes, TypeInv, ConnectionsTypeOK
    <3>3. a = At(r) => req[r].provider = "jira"  BY DEF At
    <3> QED BY <2>1, <3>2, <3>3 DEF TypeInv, ConnectionsTypeOK
  <2>5. Fits(NotMade)  BY DEF NotMade, Request, CopyFits, Fits
  <2> DEFINE q == [op |-> req[r].op, pc |-> "using", user |-> req[r].user,
                   provider |-> req[r].provider, copy |-> req[r].copy]
  <2>6. Fits(q)  BY <2>1 DEF Fits, Request, CopyFits
  <2>7. req' = [req EXCEPT ![r] = q] \/ req' = [req EXCEPT ![r] = NotMade]
    BY <1>8 DEF Writes, End, GoOn, Begin
  <2> HIDE DEF q
  <2>8. req' \in [Requests -> Request] /\ \A o \in Requests : CopyFits(req'[o])
    BY <2>5, <2>6, <2>7, RequestsFit
  <2> QED BY <1>8, <2>3, <2>4, <2>8 DEF Writes, TypeInv, ConnectionsTypeOK, others
<1>9. ASSUME NEW u \in Users, NEW p \in Providers, NEW row, Rests(u, p, row) PROVE TypeInv'
  <2>1. conn[<<u, p>>] \in Connection  BY <1>9 DEF Rests, TypeInv, ConnectionsTypeOK
  <2>2. Aged(conn[<<u, p>>]) \in Connection /\ Aged(conn[<<u, p>>]).expiry = "stale"
    BY <2>1 DEF Aged, Connection
  <2>3. /\ row \in Connection \cup {None}
        /\ row # None => row.expiry = "stale"
    BY <1>9, <2>2 DEF Rests
  <2>4. /\ conn' \in [Users \X Providers -> Connection \cup {None}]
        /\ \A v \in Users : "jira" \in Providers /\ conn'[<<v, "jira">>] # None
                              => conn'[<<v, "jira">>].expiry # "unknown"
    BY <1>9, <2>3 DEF Rests, TypeInv, ConnectionsTypeOK
  <2> QED BY <1>9, <2>4 DEF Rests, TypeInv, ConnectionsTypeOK, others
<1>10. CASE ProcessRestarts
  <2>1. NotMade \in Request /\ CopyFits(NotMade)  BY DEF NotMade, Request, CopyFits
  <2>2. req' \in [Requests -> Request] /\ \A r \in Requests : CopyFits(req'[r])
    BY <1>10, <2>1 DEF ProcessRestarts
  <2>3. \A r \in Requests : req[r].pc = "refreshed" => req[r].copy.grant \in States
    BY DEF TypeInv, CopyFits, Connection
  <2>4. lost' \subseteq States
    BY <1>10, <2>3 DEF ProcessRestarts, TypeInv, ConnectionsTypeOK
  <2>5. restarts' \in 0..MaxRestarts /\ configured' \subseteq Providers
    BY <1>10, ConnectionBounds DEF ProcessRestarts, TypeInv, ConnectionsTypeOK
  <2> QED BY <1>10, <2>2, <2>4, <2>5 DEF ProcessRestarts, TypeInv, ConnectionsTypeOK
<1>11. CASE UNCHANGED connectionVars
  BY <1>11 DEF connectionVars, TypeInv, ConnectionsTypeOK
<1> QED BY <1>1, <1>2, <1>3, <1>4, <1>5, <1>6, <1>7, <1>8, <1>9, <1>10, <1>11 DEF Moves

\* Typing: every row, request and OAuth state is in its type in every reachable state, and no
\* row for Jira is of unknown expiry (backend/app/auth/*_oauth.py, git_auth.py).
THEOREM TypeCorrect == ConnectionsSpec => []ConnectionsTypeOK
<1>1. TypeInv => ConnectionsTypeOK  BY DEF TypeInv
<1>2. TypeInv /\ [ConnectionsNext]_connectionVars => TypeInv'  BY NextMoves, TypeStep
<1> QED BY <1>1, <1>2, TypeInit, PTL DEF ConnectionsSpec

(***************************************************************************)
(* Whose account a row or a copy is for.                                   *)
(***************************************************************************)
\* The authorization behind c was given to this user for this provider, and paid for.
Granted(u, p, c) ==
  c # None => /\ issued[c.grant] # None /\ exchanges[c.grant] # 0
              /\ issued[c.grant].by = u /\ issued[c.grant].provider = p

\* A code is exchanged at most once, and only when its state is used up.
ExchangesInv ==
  \A s \in States : /\ exchanges[s] <= 1
                    /\ issued[s] = None \/ issued[s].status # "consumed" => exchanges[s] = 0

RowsGranted == \A u \in Users, p \in Providers : Granted(u, p, conn[<<u, p>>])
CopiesGranted == \A r \in Requests : Granted(req[r].user, req[r].provider, req[r].copy)
OwnInv == ExchangesInv /\ RowsGranted /\ CopiesGranted

LEMMA OwnInit == ConnectionsInit => OwnInv
<1> SUFFICES ASSUME ConnectionsInit PROVE OwnInv
  OBVIOUS
<1>1. PICK s \in States, u \in Users, p \in Providers, n \in {0, None}, scope \in Scopes :
        /\ issued = [t \in States |->
                       IF t = s THEN [by |-> u, provider |-> p, status |-> "consumed"] ELSE None]
        /\ exchanges = [t \in States |-> IF t = s THEN 1 ELSE 0]
        /\ conn = [c \in Users \X Providers |->
                     IF c = <<u, p>>
                     THEN [grant |-> s, number |-> n, expiry |-> "fresh", scope |-> scope]
                     ELSE None]
  BY DEF ConnectionsInit
<1>2. [by |-> u, provider |-> p, status |-> "consumed"] # None
  BY NoneIsNoOther DEF State
<1>3. ExchangesInv  BY <1>1, <1>2 DEF ExchangesInv
<1>4. RowsGranted
  <2> SUFFICES ASSUME NEW v \in Users, NEW o \in Providers PROVE Granted(v, o, conn[<<v, o>>])
    BY DEF RowsGranted
  <2>1. CASE v = u /\ o = p  BY <1>1, <1>2, <2>1 DEF Granted
  <2>2. CASE ~(v = u /\ o = p)  BY <1>1, <2>2 DEF Granted
  <2> QED BY <2>1, <2>2
<1>5. CopiesGranted
  BY DEF ConnectionsInit, CopiesGranted, NotMade, Granted
<1> QED BY <1>3, <1>4, <1>5 DEF OwnInv

\* Whom a state was made for never changes.
LEMMA StatesKept ==
  ASSUME TypeInv, Moves, NEW s \in States
  PROVE  /\ issued[s] # None => /\ issued'[s] # None
                                /\ issued'[s].by = issued[s].by
                                /\ issued'[s].provider = issued[s].provider
         /\ exchanges[s] # 0 => exchanges'[s] # 0
<1>1. CASE UNCHANGED <<issued, exchanges>>  BY <1>1
<1>2. ASSUME NEW t \in States, NEW status \in {"expired", "consumed"}, issued[t] # None,
             issued' = [issued EXCEPT ![t] = [issued[t] EXCEPT !.status = status]]
      PROVE  issued[s] # None => /\ issued'[s] # None
                                 /\ issued'[s].by = issued[s].by
                                 /\ issued'[s].provider = issued[s].provider
  <2> DEFINE new == [issued[t] EXCEPT !.status = status]
  <2>1. issued[t] \in State  BY <1>2 DEF TypeInv, ConnectionsTypeOK
  <2>2. new \in State /\ new.by = issued[t].by /\ new.provider = issued[t].provider
    BY <2>1 DEF State
  <2>3. new # None  BY <2>2, NoneIsNoOther
  <2> HIDE DEF new
  <2>4. issued'[s] = IF s = t THEN new ELSE issued[s]
    BY <1>2 DEF TypeInv, ConnectionsTypeOK, new
  <2> QED BY <2>2, <2>3, <2>4
<1>3. ASSUME NEW u \in Users, NEW p \in Providers, NEW t \in States, StartAuthorization(u, p, t)
      PROVE  /\ issued[s] # None => issued'[s] = issued[s]
             /\ exchanges' = exchanges
  BY <1>3 DEF StartAuthorization, TypeInv, ConnectionsTypeOK
<1>4. ASSUME NEW r \in Requests, NEW u \in Users, NEW p \in Providers, NEW t \in States,
             Accepts(r, u, p, t)
      PROVE  exchanges[s] # 0 => exchanges'[s] # 0
  BY <1>4 DEF Accepts, TypeInv, ConnectionsTypeOK
<1>5. ASSUME NEW r \in Requests, NEW u \in Users, NEW p \in Providers, NEW t \in States,
             Accepts(r, u, p, t)
      PROVE  issued[s] # None => /\ issued'[s] # None
                                 /\ issued'[s].by = issued[s].by
                                 /\ issued'[s].provider = issued[s].provider
  BY <1>2, <1>5 DEF Accepts
<1>6. ASSUME NEW t \in States, NEW status \in {"expired", "consumed"}, Closes(t, status)
      PROVE  /\ issued[s] # None => /\ issued'[s] # None
                                    /\ issued'[s].by = issued[s].by
                                    /\ issued'[s].provider = issued[s].provider
             /\ exchanges' = exchanges
  BY <1>2, <1>6 DEF Closes
<1>7. \/ UNCHANGED <<issued, exchanges>>
      \/ \E u \in Users, p \in Providers, t \in States : StartAuthorization(u, p, t)
      \/ \E t \in States, status \in {"expired", "consumed"} : Closes(t, status)
      \/ \E r \in Requests, u \in Users, p \in Providers, t \in States : Accepts(r, u, p, t)
  BY DEF Moves, Receives, Drops, Takes, Refreshes, Writes, Rests, ProcessRestarts, connectionVars
<1> QED BY <1>1, <1>3, <1>4, <1>5, <1>6, <1>7

\* What was granted stays granted.
LEMMA GrantedKept ==
  ASSUME TypeInv, Moves
  PROVE  \A u, p : \A c \in Connection \cup {None} : Granted(u, p, c) => Granted(u, p, c)'
<1>1. ASSUME NEW u, NEW p, NEW c \in Connection \cup {None}, Granted(u, p, c) PROVE Granted(u, p, c)'
  <2>1. c # None => c.grant \in States  BY DEF Connection
  <2> QED BY <1>1, <2>1, StatesKept DEF Granted
<1> QED BY <1>1

\* Where the rows and copies after a step come from.
RowFrom(a, c) ==
  \/ c = None
  \/ conn[a] # None /\ c.grant = conn[a].grant
  \/ \E r \in Requests : At(r) = a /\ req[r].copy # None /\ c.grant = req[r].copy.grant
CopyFrom(r, q) ==
  \/ q.copy = None
  \/ /\ req[r].copy # None /\ q.copy.grant = req[r].copy.grant
     /\ q.user = req[r].user /\ q.provider = req[r].provider
  \/ /\ q.user \in Users /\ q.provider \in Providers
     /\ conn[<<q.user, q.provider>>] # None /\ q.copy.grant = conn[<<q.user, q.provider>>].grant

LEMMA RowsFrom ==
  ASSUME TypeInv, Moves, NEW a \in Users \X Providers
  PROVE  RowFrom(a, conn'[a])
<1>1. CASE conn' = conn  BY <1>1 DEF RowFrom
<1>2. ASSUME NEW r \in Requests, NEW pc \in {"profile", "refreshed"}, Writes(r, pc)
      PROVE  RowFrom(a, conn'[a])
  <2>1. req[r].copy # None
    BY <1>2, NoneIsNoOther DEF Writes, TypeInv, CopyFits
  <2>2. conn'[a] = IF a = At(r) THEN req[r].copy ELSE conn[a]
    BY <1>2 DEF Writes, TypeInv, ConnectionsTypeOK
  <2> QED BY <2>1, <2>2 DEF RowFrom
<1>3. ASSUME NEW u \in Users, NEW p \in Providers, NEW row, Rests(u, p, row)
      PROVE  RowFrom(a, conn'[a])
  <2>1. conn'[a] = IF a = <<u, p>> THEN row ELSE conn[a]
    BY <1>3 DEF Rests, TypeInv, ConnectionsTypeOK
  <2>2. row = None \/ row.grant = conn[<<u, p>>].grant
    BY <1>3 DEF Rests, Aged
  <2> QED BY <1>3, <2>1, <2>2 DEF RowFrom, Rests
<1>4. \/ conn' = conn
      \/ \E r \in Requests, pc \in {"profile", "refreshed"} : Writes(r, pc)
      \/ \E u \in Users, p \in Providers : \E row : Rests(u, p, row)
  BY DEF Moves, StartAuthorization, Closes, Accepts, Receives, Drops, Takes, Refreshes,
         ProcessRestarts, connectionVars
<1> QED BY <1>1, <1>2, <1>3, <1>4

LEMMA CopiesFrom ==
  ASSUME TypeInv, Moves, NEW o \in Requests
  PROVE  \/ CopyFrom(o, req'[o])
         \/ \E u \in Users, p \in Providers, s \in States :
              /\ Accepts(o, u, p, s)
              /\ req'[o].user = u /\ req'[o].provider = p
              /\ req'[o].copy = NewCopy(s)
<1>1. ASSUME NEW q, \A r \in Requests : r # o => req'[r] = req[r], req'[o] = q, CopyFrom(o, q)
      PROVE  CopyFrom(o, req'[o])
  BY <1>1
<1>2. CopyFrom(o, req[o])  BY DEF CopyFrom
<1>3. ASSUME NEW r \in Requests, NEW u \in Users, NEW p \in Providers, NEW s \in States,
             Accepts(r, u, p, s)
      PROVE  \/ CopyFrom(o, req'[o])
             \/ /\ Accepts(o, u, p, s)
                /\ req'[o].user = u /\ req'[o].provider = p
                /\ req'[o].copy = NewCopy(s)
  <2>1. CASE r = o
    BY <1>3, <2>1 DEF Accepts, Begin, TypeInv, ConnectionsTypeOK
  <2>2. CASE r # o
    <3>1. req'[o] = req[o]  BY <1>3, <2>2 DEF Accepts, Begin, TypeInv, ConnectionsTypeOK
    <3> QED BY <1>2, <3>1
  <2> QED BY <2>1, <2>2
<1>4. ASSUME NEW r \in Requests, NEW number, NEW expiry, NEW scope,
             Receives(r, number, expiry, scope)
      PROVE  CopyFrom(o, req'[o])
  <2>1. CASE r = o
    <3>1. req[r].copy # None
      BY <1>4, NoneIsNoOther DEF Receives, TypeInv, CopyFits
    <3> QED BY <1>4, <2>1, <3>1
            DEF Receives, GoOn, Begin, Tokens, CopyFrom, TypeInv, ConnectionsTypeOK
  <2>2. CASE r # o
    <3>1. req'[o] = req[o]
      BY <1>4, <2>2 DEF Receives, GoOn, Begin, TypeInv, ConnectionsTypeOK
    <3> QED BY <1>2, <3>1
  <2> QED BY <2>1, <2>2
<1>5. ASSUME NEW r \in Requests, NEW q \in Bare, Drops(r, q) PROVE CopyFrom(o, req'[o])
  <2>1. q.copy = None  BY DEF Bare
  <2>2. req'[o] = IF o = r THEN q ELSE req[o]
    BY <1>5 DEF Drops, TypeInv, ConnectionsTypeOK
  <2> QED BY <1>2, <2>1, <2>2 DEF CopyFrom
<1>6. ASSUME NEW r \in Requests, NEW op \in {"list", "clone", "push", "fetch"}, NEW u \in Users,
             NEW p \in Providers, NEW pc \in {"using", "refreshing"}, Takes(r, op, u, p, pc)
      PROVE  CopyFrom(o, req'[o])
  <2> DEFINE q == [op |-> op, pc |-> pc, user |-> u, provider |-> p, copy |-> conn[<<u, p>>]]
  <2>1. CopyFrom(o, q)  BY <1>6 DEF Takes, CopyFrom
  <2>2. req'[o] = IF o = r THEN q ELSE req[o]
    BY <1>6 DEF Takes, Begin, TypeInv, ConnectionsTypeOK
  <2> HIDE DEF q
  <2> QED BY <1>2, <2>1, <2>2
<1>7. ASSUME NEW r \in Requests, NEW n \in Numbers, Refreshes(r, n) PROVE CopyFrom(o, req'[o])
  <2>1. CASE r = o
    <3>1. req[r].copy # None
      BY <1>7, NoneIsNoOther DEF Refreshes, TypeInv, CopyFits
    <3> QED BY <1>7, <2>1, <3>1
            DEF Refreshes, GoOn, Begin, Refreshed, CopyFrom, TypeInv, ConnectionsTypeOK
  <2>2. CASE r # o
    <3>1. req'[o] = req[o]
      BY <1>7, <2>2 DEF Refreshes, GoOn, Begin, TypeInv, ConnectionsTypeOK
    <3> QED BY <1>2, <3>1
  <2> QED BY <2>1, <2>2
<1>8. ASSUME NEW r \in Requests, NEW pc \in {"profile", "refreshed"}, Writes(r, pc)
      PROVE  CopyFrom(o, req'[o])
  <2>1. CASE r = o
    BY <1>8, <2>1 DEF Writes, GoOn, Begin, End, NotMade, CopyFrom, TypeInv, ConnectionsTypeOK
  <2>2. CASE r # o
    <3>1. req'[o] = req[o]
      BY <1>8, <2>2 DEF Writes, GoOn, Begin, End, TypeInv, ConnectionsTypeOK
    <3> QED BY <1>2, <3>1
  <2> QED BY <2>1, <2>2
<1>9. CASE ProcessRestarts
  BY <1>9 DEF ProcessRestarts, NotMade, CopyFrom
<1>10. CASE req' = req  BY <1>2, <1>10
<1>11. \/ req' = req \/ ProcessRestarts
       \/ \E r \in Requests, u \in Users, p \in Providers, s \in States : Accepts(r, u, p, s)
       \/ \E r \in Requests : \E number, expiry, scope : Receives(r, number, expiry, scope)
       \/ \E r \in Requests, q \in Bare : Drops(r, q)
       \/ \E r \in Requests, op \in {"list", "clone", "push", "fetch"}, u \in Users, p \in Providers :
            \E pc \in {"using", "refreshing"} : Takes(r, op, u, p, pc)
       \/ \E r \in Requests, n \in Numbers : Refreshes(r, n)
       \/ \E r \in Requests, pc \in {"profile", "refreshed"} : Writes(r, pc)
  BY DEF Moves, StartAuthorization, Closes, Rests, connectionVars
<1> QED BY <1>3, <1>4, <1>5, <1>6, <1>7, <1>8, <1>9, <1>10, <1>11

LEMMA ExchangesStep == TypeInv /\ OwnInv /\ Moves => ExchangesInv'
<1> SUFFICES ASSUME TypeInv, OwnInv, Moves, NEW s \in States
             PROVE  /\ exchanges'[s] <= 1
                    /\ issued'[s] = None \/ issued'[s].status # "consumed" => exchanges'[s] = 0
  BY DEF ExchangesInv
<1>1. /\ exchanges[s] <= 1
      /\ issued[s] = None \/ issued[s].status # "consumed" => exchanges[s] = 0
  BY DEF OwnInv, ExchangesInv
<1>2. CASE UNCHANGED <<issued, exchanges>>  BY <1>1, <1>2
<1>3. ASSUME NEW u \in Users, NEW p \in Providers, NEW t \in States, StartAuthorization(u, p, t)
      PROVE  /\ exchanges'[s] <= 1
             /\ issued'[s] = None \/ issued'[s].status # "consumed" => exchanges'[s] = 0
  BY <1>1, <1>3 DEF StartAuthorization, TypeInv, ConnectionsTypeOK
<1>4. ASSUME NEW t \in States, NEW status \in {"expired", "consumed"}, Closes(t, status)
      PROVE  /\ exchanges'[s] <= 1
             /\ issued'[s] = None \/ issued'[s].status # "consumed" => exchanges'[s] = 0
  BY <1>1, <1>4 DEF Closes, TypeInv, ConnectionsTypeOK
<1>5. ASSUME NEW r \in Requests, NEW u \in Users, NEW p \in Providers, NEW t \in States,
             Accepts(r, u, p, t)
      PROVE  /\ exchanges'[s] <= 1
             /\ issued'[s] = None \/ issued'[s].status # "consumed" => exchanges'[s] = 0
  <2>1. CASE s # t
    BY <1>1, <1>5, <2>1 DEF Accepts, TypeInv, ConnectionsTypeOK
  <2>2. CASE s = t
    <3>1. exchanges'[s] = 1
      BY <1>1, <1>5, <2>2 DEF Accepts, TypeInv, ConnectionsTypeOK
    <3>2. issued[s] \in State  BY <1>5, <2>2 DEF Accepts, TypeInv, ConnectionsTypeOK
    <3> DEFINE new == [issued[s] EXCEPT !.status = "consumed"]
    <3>3. new \in State /\ new.status = "consumed"  BY <3>2 DEF State
    <3> HIDE DEF new
    <3>4. issued'[s] = new  BY <1>5, <2>2 DEF Accepts, TypeInv, ConnectionsTypeOK, new
    <3> QED BY <3>1, <3>3, <3>4, NoneIsNoOther
  <2> QED BY <2>1, <2>2
<1>6. \/ UNCHANGED <<issued, exchanges>>
      \/ \E u \in Users, p \in Providers, t \in States : StartAuthorization(u, p, t)
      \/ \E t \in States, status \in {"expired", "consumed"} : Closes(t, status)
      \/ \E r \in Requests, u \in Users, p \in Providers, t \in States : Accepts(r, u, p, t)
  BY DEF Moves, Receives, Drops, Takes, Refreshes, Writes, Rests, ProcessRestarts, connectionVars
<1> QED BY <1>2, <1>3, <1>4, <1>5, <1>6

LEMMA OwnStep == TypeInv /\ TypeInv' /\ OwnInv /\ Moves => OwnInv'
<1> SUFFICES ASSUME TypeInv, TypeInv', OwnInv, Moves PROVE OwnInv'
  OBVIOUS
<1>1. ExchangesInv'  BY ExchangesStep
<1>2. \A r \in Requests : req[r].copy \in Connection \cup {None}
  BY DEF TypeInv, ConnectionsTypeOK, Request
<1>3. \A a \in Users \X Providers : conn[a] \in Connection \cup {None}
  BY DEF TypeInv, ConnectionsTypeOK
<1>4. ASSUME NEW u \in Users, NEW p \in Providers, NEW c, NEW old \in Connection \cup {None},
             Granted(u, p, old), old # None, c.grant = old.grant
      PROVE  /\ issued'[c.grant] # None /\ exchanges'[c.grant] # 0
             /\ issued'[c.grant].by = u /\ issued'[c.grant].provider = p
  <2>1. old.grant \in States  BY <1>4 DEF Connection
  <2> QED BY <1>4, <2>1, StatesKept DEF Granted
<1>5. RowsGranted'
  <2> SUFFICES ASSUME NEW u \in Users, NEW p \in Providers, conn'[<<u, p>>] # None
               PROVE  /\ issued'[conn'[<<u, p>>].grant] # None /\ exchanges'[conn'[<<u, p>>].grant] # 0
                      /\ issued'[conn'[<<u, p>>].grant].by = u
                      /\ issued'[conn'[<<u, p>>].grant].provider = p
    BY DEF RowsGranted, Granted
  <2> DEFINE a == <<u, p>>
             c == conn'[a]
  <2>1. RowFrom(a, c)  BY RowsFrom
  <2>2. ASSUME conn[a] # None, c.grant = conn[a].grant
        PROVE  /\ issued'[c.grant] # None /\ exchanges'[c.grant] # 0
               /\ issued'[c.grant].by = u /\ issued'[c.grant].provider = p
    <3>1. Granted(u, p, conn[a])  BY DEF OwnInv, RowsGranted
    <3> QED BY <1>3, <1>4, <2>2, <3>1
  <2>3. ASSUME NEW r \in Requests, At(r) = a, req[r].copy # None, c.grant = req[r].copy.grant
        PROVE  /\ issued'[c.grant] # None /\ exchanges'[c.grant] # 0
               /\ issued'[c.grant].by = u /\ issued'[c.grant].provider = p
    <3>1. Granted(u, p, req[r].copy)  BY <2>3 DEF OwnInv, CopiesGranted, At
    <3> QED BY <1>2, <1>4, <2>3, <3>1
  <2> QED BY <2>1, <2>2, <2>3 DEF RowFrom
<1>6. CopiesGranted'
  <2> SUFFICES ASSUME NEW r \in Requests, req'[r].copy # None
               PROVE  /\ issued'[req'[r].copy.grant] # None /\ exchanges'[req'[r].copy.grant] # 0
                      /\ issued'[req'[r].copy.grant].by = req'[r].user
                      /\ issued'[req'[r].copy.grant].provider = req'[r].provider
    BY DEF CopiesGranted, Granted
  <2> DEFINE q == req'[r]
             c == q.copy
  <2>1. q.user \in Users /\ q.provider \in Providers /\ q.copy # None
    BY DEF TypeInv, CopyFits
  <2>2. \/ CopyFrom(r, q)
        \/ \E u \in Users, p \in Providers, s \in States :
             Accepts(r, u, p, s) /\ q.user = u /\ q.provider = p /\ q.copy = NewCopy(s)
    BY CopiesFrom
  <2> HIDE DEF q
  <2>3. ASSUME req[r].copy # None, c.grant = req[r].copy.grant,
               q.user = req[r].user, q.provider = req[r].provider
        PROVE  /\ issued'[c.grant] # None /\ exchanges'[c.grant] # 0
               /\ issued'[c.grant].by = q.user /\ issued'[c.grant].provider = q.provider
    <3>1. Granted(q.user, q.provider, req[r].copy)  BY <2>3 DEF OwnInv, CopiesGranted
    <3> QED BY <1>2, <1>4, <2>1, <2>3, <3>1
  <2>4. ASSUME conn[<<q.user, q.provider>>] # None,
               c.grant = conn[<<q.user, q.provider>>].grant
        PROVE  /\ issued'[c.grant] # None /\ exchanges'[c.grant] # 0
               /\ issued'[c.grant].by = q.user /\ issued'[c.grant].provider = q.provider
    <3>1. Granted(q.user, q.provider, conn[<<q.user, q.provider>>])
      BY <2>1 DEF OwnInv, RowsGranted
    <3> QED BY <1>3, <1>4, <2>1, <2>4, <3>1
  <2>5. ASSUME NEW u \in Users, NEW p \in Providers, NEW s \in States, Accepts(r, u, p, s),
               q.user = u, q.provider = p, c = NewCopy(s)
        PROVE  /\ issued'[c.grant] # None /\ exchanges'[c.grant] # 0
               /\ issued'[c.grant].by = q.user /\ issued'[c.grant].provider = q.provider
    <3>1. c.grant = s
      <4>1. NewCopy(s).grant = s  BY DEF NewCopy
      <4> QED BY <2>5, <4>1
    <3>2. exchanges'[s] # 0  BY <2>5 DEF Accepts, TypeInv, ConnectionsTypeOK
    <3>3. issued[s] # None /\ issued[s].by = u /\ issued[s].provider = p  BY <2>5 DEF Accepts
    <3> QED BY <2>5, <3>1, <3>2, <3>3, StatesKept
  <2>6. /\ issued'[c.grant] # None /\ exchanges'[c.grant] # 0
        /\ issued'[c.grant].by = q.user /\ issued'[c.grant].provider = q.provider
    BY <2>1, <2>2, <2>3, <2>4, <2>5 DEF CopyFrom
  <2> QED BY <2>6 DEF q
<1> QED BY <1>1, <1>5, <1>6 DEF OwnInv

\* An OAuth state buys one exchange, however often its callback is requested
\* (store.py, consume_provider_oauth_state and consume_jira_oauth_state).
THEOREM OneExchange == ConnectionsSpec => []OneExchangePerState
<1>1. OwnInv => OneExchangePerState  BY DEF OwnInv, ExchangesInv, OneExchangePerState
<1>2. ConnectionsInit => TypeInv /\ OwnInv  BY TypeInit, OwnInit
<1>3. TypeInv /\ OwnInv /\ [ConnectionsNext]_connectionVars => TypeInv' /\ OwnInv'
  BY NextMoves, TypeStep, OwnStep
<1> QED BY <1>1, <1>2, <1>3, PTL DEF ConnectionsSpec

\* The row of a user, and what a request of that user works with, was granted to that user for
\* that provider, whatever interleaves (github_oauth.py and the others, git_auth.py).
THEOREM ConnectionsAreOwn == ConnectionsSpec => []ConnectionIsOwn
<1>1. OwnInv => ConnectionIsOwn
  BY DEF OwnInv, RowsGranted, CopiesGranted, Granted, ConnectionIsOwn
<1>2. ConnectionsInit => TypeInv /\ OwnInv  BY TypeInit, OwnInit
<1>3. TypeInv /\ OwnInv /\ [ConnectionsNext]_connectionVars => TypeInv' /\ OwnInv'
  BY NextMoves, TypeStep, OwnStep
<1> QED BY <1>1, <1>2, <1>3, PTL DEF ConnectionsSpec

(***************************************************************************)
(* Which refresh token is the one the provider accepts.                    *)
(***************************************************************************)
Rows == Users \X Providers
Waiting == {"exchanging", "profile", "refreshing", "refreshed"}

\* No row has a refresh token the provider has not given out yet.
RowsBehind ==
  \A a \in Rows : conn[a] # None /\ conn[a].number # None => conn[a].number <= latest[conn[a].grant]

\* Nor has a request; one that was just answered has the latest, and one that connects has
\* the first.
CopyBehind(q, reached) ==
  /\ q.pc = "refreshing" => q.copy.number <= reached
  /\ q.pc = "refreshed" => q.copy.number = reached
  /\ q.pc \in {"exchanging", "profile"} => q.copy.number \in {0, None} /\ reached = 0
CopiesBehind == \A r \in Requests : CopyBehind(req[r], latest[req[r].copy.grant])

\* A refresh token that has just replaced another is held by the request it was sent to only.
RotatedOnce ==
  \A r \in Requests : req[r].pc = "refreshed" /\ req[r].provider \in Rotating =>
    /\ \A a \in Rows : conn[a] # None /\ conn[a].grant = req[r].copy.grant
                         => conn[a].number # req[r].copy.number
    /\ \A o \in Requests \ {r} :
         req[o].pc \in {"refreshing", "refreshed"} /\ req[o].copy.grant = req[r].copy.grant
           => req[o].copy.number # req[r].copy.number

\* Nobody else has anything of an authorization that is being completed.
NewAlone ==
  \A r \in Requests : req[r].pc \in {"exchanging", "profile"} =>
    /\ \A a \in Rows : conn[a] # None => conn[a].grant # req[r].copy.grant
    /\ \A o \in Requests \ {r} :
         req[o].pc \in Waiting => req[o].copy.grant # req[r].copy.grant

\* An authorization no code was exchanged for was never refreshed.
UnboughtUnused == \A s \in States : exchanges[s] = 0 => latest[s] = 0

TokenInv ==
  RowsBehind /\ CopiesBehind /\ RotatedOnce /\ NewAlone /\ UnboughtUnused /\ StoredTokenLives

LEMMA TokenInit == ConnectionsInit => TokenInv
<1> SUFFICES ASSUME ConnectionsInit PROVE TokenInv
  OBVIOUS
<1>1. PICK s \in States, u \in Users, p \in Providers, n \in {0, None}, scope \in Scopes :
        /\ issued = [t \in States |->
                       IF t = s THEN [by |-> u, provider |-> p, status |-> "consumed"] ELSE None]
        /\ exchanges = [t \in States |-> IF t = s THEN 1 ELSE 0]
        /\ conn = [c \in Users \X Providers |->
                     IF c = <<u, p>>
                     THEN [grant |-> s, number |-> n, expiry |-> "fresh", scope |-> scope]
                     ELSE None]
  BY DEF ConnectionsInit
<1>2. \A r \in Requests : req[r].pc = "new"  BY DEF ConnectionsInit, NotMade
<1>3. \A t \in States : latest[t] = 0  BY DEF ConnectionsInit
<1>4. \A a \in Rows : conn[a] # None => conn[a].grant = s /\ conn[a].number \in {0, None}
  BY <1>1 DEF Rows
<1>5. RowsBehind /\ StoredTokenLives  BY <1>3, <1>4 DEF RowsBehind, StoredTokenLives, Rows
<1>6. CopiesBehind /\ RotatedOnce /\ NewAlone
  BY <1>2 DEF CopiesBehind, CopyBehind, RotatedOnce, NewAlone
<1> QED BY <1>3, <1>5, <1>6 DEF TokenInv, UnboughtUnused

(***************************************************************************)
(* What the moves leave of it.  Rows and requests of one authorization     *)
(* belong to one user and provider.                                        *)
(***************************************************************************)
LEMMA GrantsFit ==
  ASSUME TypeInv, OwnInv
  PROVE  /\ \A a \in Rows : conn[a] # None =>
              /\ conn[a] \in Connection /\ conn[a].grant \in States
              /\ exchanges[conn[a].grant] # 0
              /\ a = <<issued[conn[a].grant].by, issued[conn[a].grant].provider>>
         /\ \A r \in Requests : req[r].pc \in Waiting =>
              /\ req[r].copy \in Connection /\ req[r].copy.grant \in States /\ req[r].copy # None
              /\ exchanges[req[r].copy.grant] # 0 /\ At(r) \in Rows
              /\ At(r) = <<issued[req[r].copy.grant].by, issued[req[r].copy.grant].provider>>
              /\ req[r].provider = issued[req[r].copy.grant].provider
<1>1. ASSUME NEW a \in Rows, conn[a] # None
      PROVE  /\ conn[a] \in Connection /\ conn[a].grant \in States
             /\ exchanges[conn[a].grant] # 0
             /\ a = <<issued[conn[a].grant].by, issued[conn[a].grant].provider>>
  <2>1. PICK u \in Users, p \in Providers : a = <<u, p>>  BY DEF Rows
  <2>2. Granted(u, p, conn[a])  BY <2>1 DEF OwnInv, RowsGranted
  <2>3. conn[a] \in Connection  BY <1>1 DEF TypeInv, ConnectionsTypeOK, Rows
  <2> QED BY <1>1, <2>1, <2>2, <2>3 DEF Granted, Connection
<1>2. ASSUME NEW r \in Requests, req[r].pc \in Waiting
      PROVE  /\ req[r].copy \in Connection /\ req[r].copy.grant \in States /\ req[r].copy # None
             /\ exchanges[req[r].copy.grant] # 0 /\ At(r) \in Rows
             /\ At(r) = <<issued[req[r].copy.grant].by, issued[req[r].copy.grant].provider>>
             /\ req[r].provider = issued[req[r].copy.grant].provider
  <2>1. /\ req[r].copy \in Connection /\ req[r].copy # None
        /\ req[r].user \in Users /\ req[r].provider \in Providers
    BY <1>2, NoneIsNoOther DEF TypeInv, CopyFits, Waiting
  <2>2. Granted(req[r].user, req[r].provider, req[r].copy)  BY DEF OwnInv, CopiesGranted
  <2> QED BY <2>1, <2>2 DEF Granted, Connection, At, Rows
<1> QED BY <1>1, <1>2

\* A step after which a request waits as before, or for nothing, and each row is as before or
\* gone, or has aged.
LEMMA LessHeld ==
  ASSUME TypeInv, TokenInv, UNCHANGED latest,
         \A s \in States : exchanges'[s] = 0 => exchanges[s] = 0,
         \A a \in Rows : \/ conn'[a] = None
                         \/ /\ conn[a] # None /\ conn'[a].grant = conn[a].grant
                            /\ conn'[a].number = conn[a].number,
         \A r \in Requests : req'[r] = req[r] \/ req'[r].pc \in {"new", "using"}
  PROVE  RowsBehind' /\ CopiesBehind' /\ RotatedOnce' /\ NewAlone' /\ UnboughtUnused'
<1>1. RowsBehind'  BY DEF TokenInv, RowsBehind
<1>2. CopiesBehind'  BY DEF TokenInv, CopiesBehind, CopyBehind
<1>3. RotatedOnce'  BY DEF TokenInv, RotatedOnce
<1>4. NewAlone'  BY DEF TokenInv, NewAlone, Waiting
<1>5. UnboughtUnused'  BY DEF TokenInv, UnboughtUnused
<1> QED BY <1>1, <1>2, <1>3, <1>4, <1>5

LEMMA DropsTokens ==
  ASSUME TypeInv, TokenInv, NEW r \in Requests, NEW q \in Bare, Drops(r, q)
  PROVE  TokenInv'
<1>1. \A o \in Requests : req'[o] = IF o = r THEN q ELSE req[o]
  BY DEF Drops, TypeInv, ConnectionsTypeOK
<1>2. q.pc \in {"new", "using"}  BY DEF Bare
<1>3. RowsBehind' /\ CopiesBehind' /\ RotatedOnce' /\ NewAlone' /\ UnboughtUnused'
  BY <1>1, <1>2, LessHeld DEF Drops
<1>4. StoredTokenLives'
  BY <1>1 DEF Drops, TokenInv, StoredTokenLives
<1> QED BY <1>3, <1>4 DEF TokenInv

LEMMA RestartTokens == TypeInv /\ TokenInv /\ ProcessRestarts => TokenInv'
<1> SUFFICES ASSUME TypeInv, TokenInv, ProcessRestarts PROVE TokenInv'
  OBVIOUS
<1>1. \A o \in Requests : req'[o] = NotMade  BY DEF ProcessRestarts
<1>2. NotMade.pc = "new"  BY DEF NotMade
<1>3. RowsBehind' /\ CopiesBehind' /\ RotatedOnce' /\ NewAlone' /\ UnboughtUnused'
  BY <1>1, <1>2, LessHeld DEF ProcessRestarts
<1>4. StoredTokenLives'
  BY DEF ProcessRestarts, TokenInv, StoredTokenLives
<1> QED BY <1>3, <1>4 DEF TokenInv

LEMMA RestsTokens ==
  ASSUME TypeInv, TokenInv, NEW u \in Users, NEW p \in Providers, NEW row, Rests(u, p, row)
  PROVE  TokenInv'
<1>1. \A a \in Rows : conn'[a] = IF a = <<u, p>> THEN row ELSE conn[a]
  BY DEF Rests, TypeInv, ConnectionsTypeOK, Rows
<1>2. row # None => row.grant = conn[<<u, p>>].grant /\ row.number = conn[<<u, p>>].number
  BY DEF Rests, Aged
<1>3. \A a \in Rows : \/ conn'[a] = None
                      \/ /\ conn[a] # None /\ conn'[a].grant = conn[a].grant
                         /\ conn'[a].number = conn[a].number
  BY <1>1, <1>2 DEF Rests
<1>4. UNCHANGED <<exchanges, req, latest, lost>>  BY DEF Rests, others
<1>5. RowsBehind' /\ CopiesBehind' /\ RotatedOnce' /\ NewAlone' /\ UnboughtUnused'
  BY <1>3, <1>4, LessHeld
<1>6. StoredTokenLives'
  BY <1>3, <1>4 DEF TokenInv, StoredTokenLives, Rows
<1> QED BY <1>5, <1>6 DEF TokenInv

LEMMA StateTokens ==
  ASSUME TypeInv, TokenInv, UNCHANGED <<conn, exchanges, req, others>>
  PROVE  TokenInv'
<1>1. RowsBehind' /\ CopiesBehind' /\ RotatedOnce' /\ NewAlone' /\ UnboughtUnused'
  BY LessHeld DEF others
<1>2. StoredTokenLives'  BY DEF TokenInv, StoredTokenLives, others
<1> QED BY <1>1, <1>2 DEF TokenInv

LEMMA AcceptsTokens ==
  ASSUME TypeInv, OwnInv, TokenInv, NEW r \in Requests, NEW u \in Users, NEW p \in Providers,
         NEW s \in States, Accepts(r, u, p, s)
  PROVE  TokenInv'
<1> DEFINE q == [op |-> "connect", pc |-> "exchanging", user |-> u, provider |-> p,
                 copy |-> NewCopy(s)]
<1>1. \A o \in Requests : req'[o] = IF o = r THEN q ELSE req[o]
  BY DEF Accepts, Begin, TypeInv, ConnectionsTypeOK
<1>2. q.pc = "exchanging" /\ q.copy.grant = s /\ q.copy.number = None  BY DEF NewCopy
<1> HIDE DEF q
<1>3. exchanges[s] = 0 /\ latest[s] = 0
  BY DEF Accepts, OwnInv, ExchangesInv, TokenInv, UnboughtUnused
<1>4. \A t \in States : exchanges'[t] = 0 => exchanges[t] = 0
  BY DEF Accepts, TypeInv, ConnectionsTypeOK
<1>5. /\ \A a \in Rows : conn[a] # None => conn[a].grant # s
      /\ \A o \in Requests : req[o].pc \in Waiting => req[o].copy.grant # s
  BY <1>3, GrantsFit
<1>6. UNCHANGED <<conn, latest, lost>>  BY DEF Accepts, others
<1>7. RowsBehind' /\ UnboughtUnused'
  BY <1>4, <1>6 DEF TokenInv, RowsBehind, UnboughtUnused
<1>8. CopiesBehind'
  BY <1>1, <1>2, <1>3, <1>6 DEF TokenInv, CopiesBehind, CopyBehind
<1>9. RotatedOnce'
  BY <1>1, <1>2, <1>6 DEF TokenInv, RotatedOnce
<1>10. NewAlone'
  BY <1>1, <1>2, <1>5, <1>6 DEF TokenInv, NewAlone, Waiting
<1>11. StoredTokenLives'
  <2>1. req[r].pc # "refreshed"  BY DEF Accepts
  <2> QED BY <1>1, <1>6, <2>1 DEF TokenInv, StoredTokenLives
<1> QED BY <1>7, <1>8, <1>9, <1>10, <1>11 DEF TokenInv

LEMMA ReceivesTokens ==
  ASSUME TypeInv, OwnInv, TokenInv, NEW r \in Requests, NEW number, NEW expiry, NEW scope,
         Receives(r, number, expiry, scope)
  PROVE  TokenInv'
<1> DEFINE q == [op |-> req[r].op, pc |-> "profile", user |-> req[r].user,
                 provider |-> req[r].provider,
                 copy |-> Tokens(req[r].copy, number, expiry, scope)]
<1>1. \A o \in Requests : req'[o] = IF o = r THEN q ELSE req[o]
  BY DEF Receives, GoOn, Begin, TypeInv, ConnectionsTypeOK
<1>2. /\ q.pc = "profile" /\ q.copy.grant = req[r].copy.grant /\ q.copy.number \in {0, None}
      /\ req[r].pc = "exchanging"
  BY DEF Receives, Tokens
<1> HIDE DEF q
<1>3. UNCHANGED <<conn, latest, lost, exchanges>>  BY DEF Receives, others
<1>4. RowsBehind' /\ UnboughtUnused'
  BY <1>3 DEF TokenInv, RowsBehind, UnboughtUnused
<1>5. CopiesBehind'
  BY <1>1, <1>2, <1>3 DEF TokenInv, CopiesBehind, CopyBehind
<1>6. RotatedOnce'
  BY <1>1, <1>2, <1>3 DEF TokenInv, RotatedOnce
<1>7. NewAlone'
  BY <1>1, <1>2, <1>3 DEF TokenInv, NewAlone, Waiting
<1>8. StoredTokenLives'
  BY <1>1, <1>2, <1>3 DEF TokenInv, StoredTokenLives
<1> QED BY <1>4, <1>5, <1>6, <1>7, <1>8 DEF TokenInv

LEMMA TakesTokens ==
  ASSUME TypeInv, OwnInv, TokenInv, NEW r \in Requests,
         NEW op \in {"list", "clone", "push", "fetch"}, NEW u \in Users, NEW p \in Providers,
         NEW pc \in {"using", "refreshing"}, Takes(r, op, u, p, pc)
  PROVE  TokenInv'
<1> DEFINE row == conn[<<u, p>>]
           q == [op |-> op, pc |-> pc, user |-> u, provider |-> p, copy |-> row]
<1>1. \A o \in Requests : req'[o] = IF o = r THEN q ELSE req[o]
  BY DEF Takes, Begin, TypeInv, ConnectionsTypeOK
<1>2. q.pc = pc /\ q.copy = row  OBVIOUS
<1> HIDE DEF q
<1>3. row # None /\ req[r].pc = "new" /\ (pc = "refreshing" => row.number # None)
  BY DEF Takes
<1>4. <<u, p>> \in Rows  BY DEF Rows
<1>5. UNCHANGED <<conn, latest, lost, exchanges>>  BY DEF Takes, others
<1>6. RowsBehind' /\ UnboughtUnused'
  BY <1>5 DEF TokenInv, RowsBehind, UnboughtUnused
<1>7. CopiesBehind'
  <2>1. pc = "refreshing" => row.number <= latest[row.grant]
    BY <1>3, <1>4 DEF TokenInv, RowsBehind
  <2> HIDE DEF row
  <2> QED BY <1>1, <1>2, <1>5, <2>1 DEF TokenInv, CopiesBehind, CopyBehind
<1>8. RotatedOnce'
  <2>1. \A o \in Requests : req[o].pc = "refreshed" /\ req[o].provider \in Rotating
                              /\ row.grant = req[o].copy.grant => row.number # req[o].copy.number
    BY <1>3, <1>4 DEF TokenInv, RotatedOnce
  <2> HIDE DEF row
  <2> QED BY <1>1, <1>2, <1>3, <1>5, <2>1 DEF TokenInv, RotatedOnce
<1>9. NewAlone'
  <2>1. \A o \in Requests : req[o].pc \in {"exchanging", "profile"} => row.grant # req[o].copy.grant
    BY <1>3, <1>4 DEF TokenInv, NewAlone
  <2> HIDE DEF row
  <2> QED BY <1>1, <1>2, <1>3, <1>5, <2>1 DEF TokenInv, NewAlone, Waiting
<1>10. StoredTokenLives'
  BY <1>1, <1>2, <1>3, <1>5 DEF TokenInv, StoredTokenLives
<1> QED BY <1>6, <1>7, <1>8, <1>9, <1>10 DEF TokenInv

LEMMA RefreshesTokens ==
  ASSUME TypeInv, OwnInv, TokenInv, NEW r \in Requests, NEW n \in Numbers, Refreshes(r, n)
  PROVE  TokenInv'
<1> DEFINE g == req[r].copy.grant
           q == [op |-> req[r].op, pc |-> "refreshed", user |-> req[r].user,
                 provider |-> req[r].provider, copy |-> Refreshed(req[r].copy, n)]
<1>1. \A o \in Requests : req'[o] = IF o = r THEN q ELSE req[o]
  BY DEF Refreshes, GoOn, Begin, TypeInv, ConnectionsTypeOK
<1>2. /\ q.pc = "refreshed" /\ q.copy.grant = g /\ q.copy.number = n
      /\ q.provider = req[r].provider /\ req[r].pc = "refreshing"
  BY DEF Refreshes, Refreshed
<1> HIDE DEF q
<1>3. g \in States /\ exchanges[g] # 0
  BY <1>2, GrantsFit DEF Waiting
<1>4. \A s \in States : latest'[s] = IF s = g THEN n ELSE latest[s]
  BY <1>3 DEF Refreshes, TypeInv, ConnectionsTypeOK
<1>5. /\ latest[g] \in Nat /\ n \in Nat
      /\ req[r].copy.number = latest[g]
      /\ n = IF req[r].provider \in Rotating THEN latest[g] + 1 ELSE latest[g]
  BY <1>3, ConnectionBounds DEF Refreshes, TypeInv, ConnectionsTypeOK, Numbers
<1>6. UNCHANGED <<conn, lost, exchanges>>  BY DEF Refreshes
<1>7. /\ \A a \in Rows : conn[a] # None => conn[a].grant \in States
                           /\ (conn[a].number # None => conn[a].number \in Nat)
      /\ \A o \in Requests : req[o].pc \in Waiting => req[o].copy.grant \in States
      /\ \A o \in Requests : req[o].pc \in {"refreshing", "refreshed"} => req[o].copy.number \in Nat
  BY GrantsFit, ConnectionBounds DEF Connection, Numbers, TypeInv, CopyFits, Waiting
<1>8. \A o \in Requests : req[o].pc \in Waiting /\ req[o].copy.grant = g
                            => req[o].provider = req[r].provider
  BY <1>2, GrantsFit DEF Waiting
<1>9. ASSUME NEW o \in Requests, req[o].pc \in {"exchanging", "profile"} PROVE req[o].copy.grant # g
  BY <1>2, <1>9 DEF TokenInv, NewAlone, Waiting
<1>10. ASSUME NEW o \in Requests, req[o].pc = "refreshed", req[r].provider \in Rotating
       PROVE  req[o].copy.grant # g
  <2>1. SUFFICES ASSUME req[o].copy.grant = g PROVE FALSE
    OBVIOUS
  <2>2. req[o].provider \in Rotating  BY <1>8, <1>10, <2>1 DEF Waiting
  <2>3. req[r].copy.number # req[o].copy.number
    BY <1>2, <1>10, <2>1, <2>2 DEF TokenInv, RotatedOnce
  <2>4. req[o].copy.number = latest[g]
    BY <1>10, <2>1 DEF TokenInv, CopiesBehind, CopyBehind
  <2> QED BY <1>5, <2>3, <2>4
<1> HIDE DEF g
<1>11. RowsBehind'
  BY <1>4, <1>5, <1>6, <1>7 DEF TokenInv, RowsBehind
<1>12. CopiesBehind'
  <2> SUFFICES ASSUME NEW o \in Requests PROVE CopyBehind(req'[o], latest'[req'[o].copy.grant])
    BY DEF CopiesBehind
  <2>1. CASE o = r  BY <1>1, <1>2, <1>3, <1>4, <2>1 DEF CopyBehind
  <2>2. CASE o # r
    <3>1. CopyBehind(req[o], latest[req[o].copy.grant])  BY DEF TokenInv, CopiesBehind
    <3>2. req'[o] = req[o]  BY <1>1, <2>2
    <3>3. CASE req[o].pc = "refreshed"
      <4>1. latest'[req[o].copy.grant] = latest[req[o].copy.grant]
        BY <1>4, <1>5, <1>7, <1>10, <3>3 DEF Waiting
      <4> QED BY <3>1, <3>2, <4>1
    <3>4. CASE req[o].pc \in {"exchanging", "profile"}
      <4>1. latest'[req[o].copy.grant] = latest[req[o].copy.grant]
        BY <1>4, <1>7, <1>9, <3>4 DEF Waiting
      <4> QED BY <3>1, <3>2, <4>1
    <3>5. CASE req[o].pc = "refreshing"
      BY <1>4, <1>5, <1>7, <3>1, <3>2, <3>5 DEF CopyBehind, Waiting
    <3>6. CASE req[o].pc \notin Waiting  BY <3>2, <3>6 DEF CopyBehind, Waiting
    <3> QED BY <3>3, <3>4, <3>5, <3>6 DEF Waiting
  <2> QED BY <2>1, <2>2
<1>13. RotatedOnce'
  <2>1. ASSUME NEW o \in Requests, req'[o].pc = "refreshed", req'[o].provider \in Rotating,
               NEW a \in Rows, conn[a] # None, conn[a].grant = req'[o].copy.grant
        PROVE  conn[a].number # req'[o].copy.number
    <3>1. CASE o = r
      <4>1. conn[a].number # None => conn[a].number <= latest[g]
        BY <1>1, <1>2, <2>1, <3>1 DEF TokenInv, RowsBehind
      <4>2. n = latest[g] + 1 /\ n # None
        BY <1>1, <1>2, <1>5, <2>1, <3>1, NoneIsNoOther
      <4> QED BY <1>1, <1>2, <1>5, <1>7, <2>1, <3>1, <4>1, <4>2
    <3>2. CASE o # r  BY <1>1, <2>1, <3>2 DEF TokenInv, RotatedOnce
    <3> QED BY <3>1, <3>2
  <2>2. ASSUME NEW o \in Requests, req'[o].pc = "refreshed", req'[o].provider \in Rotating,
               NEW i \in Requests, i # o, req'[i].pc \in {"refreshing", "refreshed"},
               req'[i].copy.grant = req'[o].copy.grant
        PROVE  req'[i].copy.number # req'[o].copy.number
    <3>1. CASE o = r
      <4>1. req'[i] = req[i] /\ req[i].copy.grant = g  BY <1>1, <1>2, <2>2, <3>1
      <4>2. req[i].copy.number <= latest[g]
        BY <1>5, <1>7, <2>2, <4>1 DEF TokenInv, CopiesBehind, CopyBehind
      <4>3. n = latest[g] + 1  BY <1>1, <1>2, <1>5, <2>2, <3>1
      <4> QED BY <1>1, <1>2, <1>5, <1>7, <2>2, <3>1, <4>1, <4>2, <4>3
    <3>2. CASE o # r /\ i # r  BY <1>1, <2>2, <3>2 DEF TokenInv, RotatedOnce
    <3>3. CASE o # r /\ i = r
      <4>1. req'[o] = req[o] /\ req[o].copy.grant = g /\ req[o].pc = "refreshed"
        BY <1>1, <1>2, <2>2, <3>3
      <4>2. req[r].provider \in Rotating  BY <1>1, <1>8, <2>2, <4>1 DEF Waiting
      <4> QED BY <1>10, <4>1, <4>2
    <3> QED BY <3>1, <3>2, <3>3
  <2> QED BY <1>6, <2>1, <2>2 DEF RotatedOnce
<1>14. NewAlone'
  <2>1. ASSUME NEW o \in Requests, req'[o].pc \in {"exchanging", "profile"}
        PROVE  req'[o] = req[o] /\ o # r /\ req[o].copy.grant # g
    BY <1>1, <1>2, <1>9, <2>1
  <2> QED BY <1>1, <1>2, <1>6, <2>1 DEF TokenInv, NewAlone, Waiting
<1>15. UnboughtUnused'
  BY <1>3, <1>4, <1>6 DEF TokenInv, UnboughtUnused
<1>16. StoredTokenLives'
  <2> SUFFICES ASSUME NEW u \in Users, NEW p \in Providers,
                      conn[<<u, p>>] # None, conn[<<u, p>>].number # None
               PROVE  \/ conn[<<u, p>>].number = latest'[conn[<<u, p>>].grant]
                      \/ conn[<<u, p>>].grant \in lost
                      \/ \E o \in Requests : /\ req'[o].pc = "refreshed"
                                             /\ req'[o].copy.grant = conn[<<u, p>>].grant
    BY <1>6 DEF StoredTokenLives
  <2> DEFINE c == conn[<<u, p>>]
  <2>1. CASE c.grant = g
    <3>1. req'[r].pc = "refreshed" /\ req'[r].copy.grant = g  BY <1>1, <1>2
    <3> QED BY <2>1, <3>1
  <2>2. CASE c.grant # g
    <3>1. c.grant \in States  BY <1>7 DEF Rows
    <3>2. latest'[c.grant] = latest[c.grant]  BY <1>4, <2>2, <3>1
    <3>3. \A o \in Requests : req[o].pc = "refreshed" => req'[o] = req[o]
      BY <1>1, <1>2
    <3>4. \/ c.number = latest[c.grant]
          \/ c.grant \in lost
          \/ \E o \in Requests : req[o].pc = "refreshed" /\ req[o].copy.grant = c.grant
      BY DEF TokenInv, StoredTokenLives
    <3> QED BY <3>2, <3>3, <3>4
  <2> QED BY <2>1, <2>2
<1> QED BY <1>11, <1>12, <1>13, <1>14, <1>15, <1>16 DEF TokenInv

LEMMA WritesTokens ==
  ASSUME TypeInv, OwnInv, TokenInv, NEW r \in Requests, NEW pc \in {"profile", "refreshed"},
         Writes(r, pc)
  PROVE  TokenInv'
<1> DEFINE c == req[r].copy
           g == c.grant
<1>1. /\ req[r].pc = pc /\ At(r) \in Rows /\ c # None /\ g \in States
      /\ At(r) = <<issued[g].by, issued[g].provider>>
  BY GrantsFit DEF Writes, Waiting
<1>2. \A a \in Rows : conn'[a] = IF a = At(r) THEN c ELSE conn[a]
  BY <1>1 DEF Writes, TypeInv, ConnectionsTypeOK, Rows
<1>3. /\ \A o \in Requests \ {r} : req'[o] = req[o]
      /\ req'[r].pc \in {"new", "using"}
  BY DEF Writes, End, GoOn, Begin, NotMade, TypeInv, ConnectionsTypeOK
<1>4. UNCHANGED <<latest, lost, exchanges>>  BY DEF Writes, others
<1>5. \A a \in Rows : conn[a] # None /\ conn[a].grant = g => a = At(r)
  BY <1>1, GrantsFit
<1>6. c.number # None => c.number = latest[g]
  BY <1>1 DEF TokenInv, CopiesBehind, CopyBehind
<1>7. latest[g] \in Nat
  BY <1>1, ConnectionBounds DEF TypeInv, ConnectionsTypeOK, Numbers
<1>8. \A o \in Requests \ {r} : req[o].pc \in {"exchanging", "profile"} => req[o].copy.grant # g
  BY <1>1 DEF TokenInv, NewAlone, Waiting
<1>9. ASSUME NEW o \in Requests \ {r}, req[o].pc = "refreshed", req[o].provider \in Rotating,
             req[o].copy.grant = g
      PROVE  c.number # req[o].copy.number
  <2>1. CASE pc = "profile"
    BY <1>1, <1>9, <2>1 DEF TokenInv, NewAlone, Waiting
  <2>2. CASE pc = "refreshed"
    BY <1>1, <1>9, <2>2 DEF TokenInv, RotatedOnce
  <2> QED BY <2>1, <2>2
<1> HIDE DEF c, g
<1>10. RowsBehind'
  <2> SUFFICES ASSUME NEW a \in Rows, conn'[a] # None, conn'[a].number # None
               PROVE  conn'[a].number <= latest[conn'[a].grant]
    BY <1>4 DEF RowsBehind
  <2>1. CASE a = At(r)  BY <1>2, <1>6, <1>7, <2>1 DEF g
  <2>2. CASE a # At(r)  BY <1>2, <2>2 DEF TokenInv, RowsBehind
  <2> QED BY <2>1, <2>2
<1>11. CopiesBehind'
  BY <1>3, <1>4 DEF TokenInv, CopiesBehind, CopyBehind
<1>12. RotatedOnce'
  <2>1. ASSUME NEW o \in Requests, req'[o].pc = "refreshed", req'[o].provider \in Rotating,
               NEW a \in Rows, conn'[a] # None, conn'[a].grant = req'[o].copy.grant
        PROVE  conn'[a].number # req'[o].copy.number
    <3>1. o # r /\ req'[o] = req[o]  BY <1>3, <2>1
    <3>2. CASE a = At(r)  BY <1>2, <1>9, <2>1, <3>1, <3>2 DEF g
    <3>3. CASE a # At(r)  BY <1>2, <2>1, <3>1, <3>3 DEF TokenInv, RotatedOnce
    <3> QED BY <3>2, <3>3
  <2>2. ASSUME NEW o \in Requests, req'[o].pc = "refreshed", req'[o].provider \in Rotating,
               NEW i \in Requests \ {o}, req'[i].pc \in {"refreshing", "refreshed"},
               req'[i].copy.grant = req'[o].copy.grant
        PROVE  req'[i].copy.number # req'[o].copy.number
    BY <1>3, <2>2 DEF TokenInv, RotatedOnce
  <2> QED BY <2>1, <2>2 DEF RotatedOnce
<1>13. NewAlone'
  BY <1>2, <1>3, <1>8 DEF TokenInv, NewAlone, Waiting, g
<1>14. UnboughtUnused'  BY <1>4 DEF TokenInv, UnboughtUnused
<1>15. StoredTokenLives'
  <2> SUFFICES ASSUME NEW u \in Users, NEW p \in Providers,
                      conn'[<<u, p>>] # None, conn'[<<u, p>>].number # None
               PROVE  \/ conn'[<<u, p>>].number = latest[conn'[<<u, p>>].grant]
                      \/ conn'[<<u, p>>].grant \in lost
                      \/ \E o \in Requests : /\ req'[o].pc = "refreshed"
                                             /\ req'[o].copy.grant = conn'[<<u, p>>].grant
    BY <1>4 DEF StoredTokenLives
  <2> DEFINE a == <<u, p>>
  <2>1. a \in Rows  BY DEF Rows
  <2>2. CASE a = At(r)  BY <1>2, <1>6, <2>1, <2>2 DEF g
  <2>3. CASE a # At(r)
    <3>1. conn'[a] = conn[a]  BY <1>2, <2>1, <2>3
    <3>2. conn[a].grant # g  BY <1>5, <2>1, <2>3, <3>1
    <3>3. \/ conn[a].number = latest[conn[a].grant]
          \/ conn[a].grant \in lost
          \/ \E o \in Requests : req[o].pc = "refreshed" /\ req[o].copy.grant = conn[a].grant
      BY <3>1 DEF TokenInv, StoredTokenLives
    <3>4. req[r].copy.grant = g  BY DEF g, c
    <3> QED BY <1>3, <3>1, <3>2, <3>3, <3>4
  <2> QED BY <2>2, <2>3
<1> QED BY <1>10, <1>11, <1>12, <1>13, <1>14, <1>15 DEF TokenInv


LEMMA TokenStep == TypeInv /\ OwnInv /\ TokenInv /\ Moves => TokenInv'
<1> SUFFICES ASSUME TypeInv, OwnInv, TokenInv, Moves PROVE TokenInv'
  OBVIOUS
<1>1. ASSUME UNCHANGED <<conn, exchanges, req, others>> PROVE TokenInv'
  BY <1>1, StateTokens
<1>2. \/ UNCHANGED <<conn, exchanges, req, others>>
      \/ ProcessRestarts
      \/ \E r \in Requests, u \in Users, p \in Providers, s \in States : Accepts(r, u, p, s)
      \/ \E r \in Requests : \E number, expiry, scope : Receives(r, number, expiry, scope)
      \/ \E r \in Requests, q \in Bare : Drops(r, q)
      \/ \E r \in Requests, op \in {"list", "clone", "push", "fetch"}, u \in Users, p \in Providers :
           \E pc \in {"using", "refreshing"} : Takes(r, op, u, p, pc)
      \/ \E r \in Requests, n \in Numbers : Refreshes(r, n)
      \/ \E r \in Requests, pc \in {"profile", "refreshed"} : Writes(r, pc)
      \/ \E u \in Users, p \in Providers : \E row : Rests(u, p, row)
  BY DEF Moves, StartAuthorization, Closes, connectionVars, others
<1> QED BY <1>1, <1>2, RestartTokens, AcceptsTokens, ReceivesTokens, DropsTokens, TakesTokens,
           RefreshesTokens, WritesTokens, RestsTokens

\* Overlapping refreshes never put an older refresh token back over the one the provider
\* accepts: a stored one is the latest, or a newer one is on its way or was lost
\* (the ends of _refresh_connection in github_oauth.py and the others).
THEOREM StoredTokenIsLatest == ConnectionsSpec => []StoredTokenLives
<1>1. ConnectionsInit => TypeInv /\ OwnInv /\ TokenInv  BY TypeInit, OwnInit, TokenInit
<1>2. TypeInv /\ OwnInv /\ TokenInv /\ [ConnectionsNext]_connectionVars
        => TypeInv' /\ OwnInv' /\ TokenInv'
  BY NextMoves, TypeStep, OwnStep, TokenStep
<1>3. TokenInv => StoredTokenLives  BY DEF TokenInv
<1> QED BY <1>1, <1>2, <1>3, PTL DEF ConnectionsSpec
=============================================================================
