----------------------------- MODULE Connections -----------------------------
(***************************************************************************)
(* The accounts users connect over OAuth, and the requests that use them:  *)
(* GitHub, GitLab and Bitbucket for git, Jira for tickets                  *)
(* (backend/app/auth/*_oauth.py, git_auth.py, steps/jira_auth.py).         *)
(*                                                                         *)
(* Each request is a coroutine: whenever it awaits a provider, others run. *)
(* A connection is one row, written whole from the copy a request read,    *)
(* except that a disconnect deletes it.  A refresh token is named by the   *)
(* authorization it belongs to and its number: a provider that rotates     *)
(* accepts the latest only.                                                *)
(***************************************************************************)
EXTENDS Naturals

CONSTANTS
  Users, Requests,
  States,          \* values of the OAuth state parameter, each given out once
  Providers,       \* the providers of the instance
  Deployments,     \* the sets of providers a server may be configured for
  Rotating,        \* those whose refresh token is replaced at each use
  Answers,         \* what a token endpoint may answer
  ConfiguredScope, \* what the configured scopes allow
  SharedJira,      \* the server has shared Jira credentials
  MaxRefreshes,    \* bound on the refreshes of one authorization
  MaxRestarts,     \* bound on restarts of the process
  None             \* no connection, no refresh token

GitHosts == {"github", "gitlab", "bitbucket"}
Scopes == {"", "read", "write"}   \* "" is no scope at all
Answer == [refresh : BOOLEAN, expires : BOOLEAN, scope : Scopes]

ASSUME ProvidersAssumption == Providers \subseteq GitHosts \cup {"jira"} /\ Rotating \subseteq Providers
ASSUME DeploymentsAssumption == Deployments \subseteq SUBSET Providers
ASSUME AnswersAssumption == Answers \subseteq Answer
ASSUME ScopeAssumption == ConfiguredScope \in Scopes
ASSUME SharedJiraAssumption == SharedJira \in BOOLEAN
ASSUME ConnectionBounds == MaxRefreshes \in Nat /\ MaxRestarts \in Nat

VARIABLES
  conn,       \* the connection of each user to each provider
  issued,     \* the OAuth states handed out
  exchanges,  \* history: how often a code was exchanged for a state
  latest,     \* the provider's view: the refresh token each authorization has reached
  lost,       \* history: authorizations whose new refresh token did not arrive
  configured, \* the providers this process has its client settings for
  req,        \* the requests
  restarts

connectionVars == <<conn, issued, exchanges, latest, lost, configured, req, restarts>>
others == <<latest, lost, configured, restarts>>

\* An authorization is named by its state.
Numbers == 0..MaxRefreshes

Connection ==
  [ grant   : States,
    number  : Numbers \cup {None},              \* of the refresh token, None without one
    expiry  : {"fresh", "stale", "unknown"},
    scope   : Scopes ]

\* A request in progress; one that uses no copy runs with the server's own credentials.
Request ==
  [ op       : {"none", "connect", "list", "clone", "push", "fetch"},
    pc       : {"new", "exchanging", "profile", "refreshing", "refreshed", "using"},
    user     : Users \cup {None},
    provider : Providers \cup {None},
    copy     : Connection \cup {None} ]

State == [by : Users, provider : Providers, status : {"open", "expired", "consumed"}]

ASSUME NoneIsNoOther ==
  /\ None \notin States \cup Users \cup Providers \cup Nat
  /\ None \notin Connection /\ None \notin State

ConnectionsTypeOK ==
  /\ conn \in [Users \X Providers -> Connection \cup {None}]
  /\ \A u \in Users : "jira" \in Providers /\ conn[<<u, "jira">>] # None
                       => conn[<<u, "jira">>].expiry # "unknown"
  /\ issued \in [States -> State \cup {None}]
  /\ exchanges \in [States -> Nat]
  /\ latest \in [States -> Numbers]
  /\ lost \subseteq States
  /\ configured \subseteq Providers
  /\ req \in [Requests -> Request]
  /\ restarts \in 0..MaxRestarts

NotMade == [op |-> "none", pc |-> "new", user |-> None, provider |-> None, copy |-> None]

\* One user has connected one account before.
ConnectionsInit ==
  /\ \E s \in States, u \in Users, p \in Providers, n \in {0, None}, scope \in Scopes :
       /\ issued = [t \in States |->
                      IF t = s THEN [by |-> u, provider |-> p, status |-> "consumed"] ELSE None]
       /\ exchanges = [t \in States |-> IF t = s THEN 1 ELSE 0]
       /\ conn = [c \in Users \X Providers |->
                    IF c = <<u, p>>
                    THEN [grant |-> s, number |-> n, expiry |-> "fresh", scope |-> scope] ELSE None]
  /\ latest = [s \in States |-> 0] /\ lost = {}
  /\ configured \in Deployments
  /\ req = [r \in Requests |-> NotMade] /\ restarts = 0

At(r) == <<req[r].user, req[r].provider>>
Begin(r, op, u, p, pc, copy) ==
  req' = [req EXCEPT ![r] = [op |-> op, pc |-> pc, user |-> u, provider |-> p, copy |-> copy]]

\* A request goes on with this copy.
GoOn(r, pc, copy) == Begin(r, req[r].op, req[r].user, req[r].provider, pc, copy)

\* The answer is sent; the next request may come.
End(r) == req' = [req EXCEPT ![r] = NotMade]

-----------------------------------------------------------------------------
(* Connecting: the redirect to the provider, and its callback              *)

\* JobStore.create_provider_oauth_state, create_jira_oauth_state
StartAuthorization(u, p, s) ==
  /\ p \in configured /\ issued[s] = None
  /\ issued' = [issued EXCEPT ![s] = [by |-> u, provider |-> p, status |-> "open"]]
  /\ UNCHANGED <<conn, exchanges, req, others>>

CreateGitHubAuthorization(u, s) == StartAuthorization(u, "github", s)
CreateGitLabAuthorization(u, s) == StartAuthorization(u, "gitlab", s)
CreateBitbucketAuthorization(u, s) == StartAuthorization(u, "bitbucket", s)
CreateJiraAuthorization(u, s) == StartAuthorization(u, "jira", s)

\* The state is in the table: Jira's states have one of their own.
Stored(s, table) ==
  issued[s] # None /\ issued[s].status # "consumed" /\ issued[s].provider \in table

\* Variant: the user the state was made for is not compared.
ProviderStateOfAnybody(s, u, p) ==
  Stored(s, GitHosts) /\ issued[s].status = "open" /\ issued[s].provider = p

\* consume_provider_oauth_state, consume_jira_oauth_state: whether the row, deleted in any
\* case, was good for this user and provider.
ProviderStateValid(s, u, p) ==
  /\ Stored(s, GitHosts)
  /\ issued[s].status = "open" /\ issued[s].by = u /\ issued[s].provider = p
JiraStateValid(s, u) == Stored(s, {"jira"}) /\ issued[s].status = "open" /\ issued[s].by = u

\* Variant: only an expired row is deleted.
DeletedWhenExpired(s, table) ==
  IF Stored(s, table) /\ issued[s].status = "expired"
  THEN [issued EXCEPT ![s].status = "consumed"] ELSE issued

\* The row read is deleted.
Deleted(s, table) ==
  IF Stored(s, table) THEN [issued EXCEPT ![s].status = "consumed"] ELSE issued

\* A callback of user u, for a configured provider: the code is exchanged, or it is refused.
Complete(r, u, p, s, valid, table) ==
  /\ req[r].pc = "new"
  /\ p \in configured
  /\ issued' = Deleted(s, table)
  /\ IF valid
     THEN /\ Begin(r, "connect", u, p, "exchanging",
                   [grant |-> s, number |-> None, expiry |-> "unknown", scope |-> ""])
          /\ exchanges' = [exchanges EXCEPT ![s] = @ + 1]
     ELSE UNCHANGED <<req, exchanges>>
  /\ UNCHANGED <<conn, others>>

CompleteGitHub(r, u, s) ==
  Complete(r, u, "github", s, ProviderStateValid(s, u, "github"), GitHosts)
CompleteGitLab(r, u, s) ==
  Complete(r, u, "gitlab", s, ProviderStateValid(s, u, "gitlab"), GitHosts)
CompleteBitbucket(r, u, s) ==
  Complete(r, u, "bitbucket", s, ProviderStateValid(s, u, "bitbucket"), GitHosts)
CompleteJira(r, u, s) == Complete(r, u, "jira", s, JiraStateValid(s, u), {"jira"})

-----------------------------------------------------------------------------
(* What the token endpoints answer                                         *)

Expiry(a) == IF a.expires THEN "fresh" ELSE "unknown"
Number(a, n) == IF a.refresh THEN n ELSE None

\* The tokens of an answer; n is the number of its refresh token.  GitHub's scopes are kept
\* as granted, none for a GitHub App; the others fall back on the configured ones.
GitHubTokens(a, n) == [number |-> Number(a, n), expiry |-> Expiry(a), scope |-> a.scope]
OrConfigured(scope) == IF scope = "" THEN ConfiguredScope ELSE scope
GitLabTokens(a, n) ==
  [number |-> Number(a, n), expiry |-> Expiry(a), scope |-> OrConfigured(a.scope)]
BitbucketTokens(a, n) ==
  [number |-> Number(a, n), expiry |-> Expiry(a), scope |-> OrConfigured(a.scope)]
\* Variant: an answer without expires_in is kept as it is.
JiraTokensAsTheOthers(a, n) ==
  [number |-> Number(a, n), expiry |-> Expiry(a), scope |-> OrConfigured(a.scope)]

\* Without expires_in, Jira's token is taken to last an hour.
JiraTokens(a, n) == [number |-> Number(a, n), expiry |-> "fresh", scope |-> OrConfigured(a.scope)]

TokensOf(p, a, n) ==
  CASE p = "github" -> GitHubTokens(a, n)
    [] p = "gitlab" -> GitLabTokens(a, n)
    [] p = "bitbucket" -> BitbucketTokens(a, n)
    [] p = "jira" -> JiraTokens(a, n)

Exchanged(r) ==
  /\ req[r].pc = "exchanging"
  /\ \E a \in Answers :
       LET tokens == TokensOf(req[r].provider, a, 0)
       IN  GoOn(r, "profile", [grant |-> req[r].copy.grant, number |-> tokens.number,
                               expiry |-> tokens.expiry, scope |-> tokens.scope])
  /\ UNCHANGED <<conn, issued, exchanges, others>>

\* The account behind the new token is known: the connection is saved, over any other.
ProfileRead(r, p) ==
  /\ req[r].pc = "profile" /\ req[r].provider = p
  /\ conn' = [conn EXCEPT ![At(r)] = req[r].copy]
  /\ End(r)
  /\ UNCHANGED <<issued, exchanges, others>>

GitHubUserRead(r) == ProfileRead(r, "github")
GitLabUserRead(r) == ProfileRead(r, "gitlab")
BitbucketUserRead(r) == ProfileRead(r, "bitbucket")
JiraSiteResolved(r) == ProfileRead(r, "jira")

\* The provider does not answer, refuses, or answers without what is needed.
ConnectFails(r) ==
  /\ req[r].pc \in {"exchanging", "profile"}
  /\ End(r)
  /\ UNCHANGED <<conn, issued, exchanges, others>>

-----------------------------------------------------------------------------
(* Using a connection                                                      *)

\* A token that never expires is known for GitHub only; Jira always has an expiry.
GitHubStale(c) == c.expiry = "stale"
GitLabStale(c) == c.expiry # "fresh"
BitbucketStale(c) == c.expiry # "fresh"
JiraStale(c) == c.expiry = "stale"

Stale(p, c) ==
  CASE p = "github" -> GitHubStale(c)
    [] p = "gitlab" -> GitLabStale(c)
    [] p = "bitbucket" -> BitbucketStale(c)
    [] p = "jira" -> JiraStale(c)

\* A GitHub App's token has no scopes; a GitHub scope other than repo or public_repo ("read")
\* allows nothing.
HasScopeFor(p, c, access) ==
  IF p = "github" THEN c.scope # "read"
  ELSE c.scope = "write" \/ (access = "read" /\ c.scope = "read")

Refreshable(p, c) == p \in configured /\ c.number # None

\* fresh_..._access_token up to its first await: the row's token is used, or refreshed.
UseConnection(r, op, u, p) ==
  LET c == conn[<<u, p>>]
  IN  /\ req[r].pc = "new" /\ c # None
      /\ \/ ~Stale(p, c) /\ Begin(r, op, u, p, "using", c)
         \/ Stale(p, c) /\ Refreshable(p, c) /\ Begin(r, op, u, p, "refreshing", c)
      /\ UNCHANGED <<conn, issued, exchanges, others>>

ListGitHubRepositories(r, u) == UseConnection(r, "list", u, "github")
ListGitLabRepositories(r, u) == UseConnection(r, "list", u, "gitlab")
ListBitbucketRepositories(r, u) == UseConnection(r, "list", u, "bitbucket")

\* describe_push_identity and resolve_push_auth, for whoever clicked Push: refused without a
\* connection that may write.
PushAsUser(r, u, p) ==
  /\ p \in GitHosts \cap configured
  /\ conn[<<u, p>>] # None /\ HasScopeFor(p, conn[<<u, p>>], "write")
  /\ UseConnection(r, "push", u, p)

\* delegated_clone_auth_header, for the owner of the job ...
MayClone(u, p) ==
  p \in GitHosts \cap configured /\ conn[<<u, p>>] # None /\ HasScopeFor(p, conn[<<u, p>>], "read")
CloneAsOwner(r, u, p) == MayClone(u, p) /\ UseConnection(r, "clone", u, p)

\* ... or with the machine's own git credentials.
CloneAsMachine(r, u, p) ==
  /\ req[r].pc = "new" /\ p \in GitHosts
  /\ ~(MayClone(u, p) /\ (Stale(p, conn[<<u, p>>]) => Refreshable(p, conn[<<u, p>>])))
  /\ Begin(r, "clone", None, None, "using", None)
  /\ UNCHANGED <<conn, issued, exchanges, others>>

\* get_jira_auth, for the owner of the job, or with the server's shared credentials.
FetchAsOwner(r, u) == "jira" \in configured /\ UseConnection(r, "fetch", u, "jira")
FetchAsServer(r, u) ==
  /\ req[r].pc = "new" /\ SharedJira
  /\ "jira" \notin configured \/ conn[<<u, "jira">>] = None
  /\ Begin(r, "fetch", None, None, "using", None)
  /\ UNCHANGED <<conn, issued, exchanges, others>>

\* A refresh failed: a clone goes on with the machine's credentials, the others are refused.
Unrefreshed(r) ==
  IF req[r].op = "clone" THEN Begin(r, "clone", None, None, "using", None) ELSE End(r)

\* The provider accepts the refresh token and sends new ones.
ProviderRefreshes(r) ==
  LET c == req[r].copy
      g == c.grant
      n == IF req[r].provider \in Rotating THEN c.number + 1 ELSE c.number
  IN  /\ req[r].pc = "refreshing"
      /\ c.number = latest[g] /\ n <= MaxRefreshes
      /\ latest' = [latest EXCEPT ![g] = n]
      /\ GoOn(r, "refreshed", [grant |-> g, number |-> n, expiry |-> "fresh", scope |-> c.scope])
      /\ UNCHANGED <<conn, issued, exchanges, lost, configured, restarts>>

\* It does not: it is down, or the token is not the latest one.
RefreshRefused(r) ==
  /\ req[r].pc = "refreshing"
  /\ Unrefreshed(r)
  /\ UNCHANGED <<conn, issued, exchanges, others>>

\* Its answer does not arrive: a timeout, or a body without a token.
RefreshLost(r) ==
  /\ req[r].pc = "refreshed"
  /\ lost' = lost \cup {req[r].copy.grant}
  /\ Unrefreshed(r)
  /\ UNCHANGED <<conn, issued, exchanges, latest, configured, restarts>>

\* Variant: only the new access token is written.
AccessTokenSaved(r, p) ==
  /\ req[r].pc = "refreshed" /\ req[r].provider = p
  /\ conn' = IF conn[At(r)] = None THEN conn ELSE [conn EXCEPT ![At(r)].expiry = "fresh"]
  /\ GoOn(r, "using", req[r].copy)
  /\ UNCHANGED <<issued, exchanges, others>>

\* The end of _refresh_connection: the copy is saved whole.
RefreshSaved(r, p) ==
  /\ req[r].pc = "refreshed" /\ req[r].provider = p
  /\ conn' = [conn EXCEPT ![At(r)] = req[r].copy]
  /\ GoOn(r, "using", req[r].copy)
  /\ UNCHANGED <<issued, exchanges, others>>

RefreshGitHub(r) == RefreshSaved(r, "github")
RefreshGitLab(r) == RefreshSaved(r, "gitlab")
RefreshBitbucket(r) == RefreshSaved(r, "bitbucket")
RefreshJira(r) == RefreshSaved(r, "jira")

\* The provider, or git, is done with the access token.
Used(r, ops) ==
  /\ req[r].pc = "using" /\ req[r].op \in ops
  /\ End(r)
  /\ UNCHANGED <<conn, issued, exchanges, others>>

\* The provider answers the listing with the token, or refuses it: the token was used.
GitHubRepositoriesFetched(r) == req[r].provider = "github" /\ Used(r, {"list"})
GitLabRepositoriesFetched(r) == req[r].provider = "gitlab" /\ Used(r, {"list"})
BitbucketRepositoriesFetched(r) == req[r].provider = "bitbucket" /\ Used(r, {"list"})
TokenUsed(r) == Used(r, {"clone", "push", "fetch"})

-----------------------------------------------------------------------------
(* Disconnecting, time, and the process                                    *)

\* disconnect_github_connection and the others, disconnect_connection for Jira: without a
\* connection the hosts' answer an error and Jira's does nothing.
Disconnect(u, p) ==
  /\ conn[<<u, p>>] # None
  /\ conn' = [conn EXCEPT ![<<u, p>>] = None]
  /\ UNCHANGED <<issued, exchanges, req, others>>

TokenExpires(u, p) ==
  /\ conn[<<u, p>>] # None /\ conn[<<u, p>>].expiry = "fresh"
  /\ conn' = [conn EXCEPT ![<<u, p>>].expiry = "stale"]
  /\ UNCHANGED <<issued, exchanges, req, others>>

StateExpires(s) ==
  /\ issued[s] # None /\ issued[s].status = "open"
  /\ issued' = [issued EXCEPT ![s].status = "expired"]
  /\ UNCHANGED <<conn, exchanges, req, others>>

\* The process stops and starts, perhaps without some of its client settings.
ProcessRestarts ==
  /\ restarts < MaxRestarts
  /\ restarts' = restarts + 1
  /\ configured' \in SUBSET configured
  /\ lost' = lost \cup {req[r].copy.grant : r \in {q \in Requests : req[q].pc = "refreshed"}}
  /\ req' = [r \in Requests |-> NotMade]
  /\ UNCHANGED <<conn, issued, exchanges, latest>>

ConnectNext ==
  \/ \E u \in Users, s \in States :
       \/ CreateGitHubAuthorization(u, s) \/ CreateGitLabAuthorization(u, s)
       \/ CreateBitbucketAuthorization(u, s) \/ CreateJiraAuthorization(u, s)
  \/ \E r \in Requests, u \in Users, s \in States :
       \/ "github" \in Providers /\ CompleteGitHub(r, u, s)
       \/ "gitlab" \in Providers /\ CompleteGitLab(r, u, s)
       \/ "bitbucket" \in Providers /\ CompleteBitbucket(r, u, s)
       \/ "jira" \in Providers /\ CompleteJira(r, u, s)
  \/ \E r \in Requests :
       \/ Exchanged(r) \/ ConnectFails(r)
       \/ GitHubUserRead(r) \/ GitLabUserRead(r) \/ BitbucketUserRead(r) \/ JiraSiteResolved(r)

UseNext ==
  \/ \E r \in Requests, u \in Users :
       \/ "github" \in Providers /\ ListGitHubRepositories(r, u)
       \/ "gitlab" \in Providers /\ ListGitLabRepositories(r, u)
       \/ "bitbucket" \in Providers /\ ListBitbucketRepositories(r, u)
       \/ "jira" \in Providers /\ (FetchAsOwner(r, u) \/ FetchAsServer(r, u))
       \/ \E p \in Providers : CloneAsOwner(r, u, p) \/ CloneAsMachine(r, u, p) \/ PushAsUser(r, u, p)
  \/ \E r \in Requests :
       \/ ProviderRefreshes(r) \/ RefreshRefused(r) \/ RefreshLost(r)
       \/ RefreshGitHub(r) \/ RefreshGitLab(r) \/ RefreshBitbucket(r) \/ RefreshJira(r)
       \/ GitHubRepositoriesFetched(r) \/ GitLabRepositoriesFetched(r)
       \/ BitbucketRepositoriesFetched(r) \/ TokenUsed(r)

ConnectionsNext ==
  \/ ConnectNext \/ UseNext
  \/ \E u \in Users, p \in Providers : Disconnect(u, p) \/ TokenExpires(u, p)
  \/ \E s \in States : StateExpires(s)
  \/ ProcessRestarts

ConnectionsSpec == ConnectionsInit /\ [][ConnectionsNext]_connectionVars

-----------------------------------------------------------------------------
(* Properties                                                              *)

\* An OAuth state buys one exchange, however often and for whichever provider its callback is
\* requested (store.py, consume_provider_oauth_state and consume_jira_oauth_state).
OneExchangePerState == \A s \in States : exchanges[s] <= 1

\* What a user's row holds, and what a request in progress uses, was granted to that user for
\* that provider, whoever requests the callbacks and whichever saves come late.
ConnectionIsOwn ==
  LET Own(u, p, c) == c # None => issued[c.grant].by = u /\ issued[c.grant].provider = p
  IN  /\ \A u \in Users, p \in Providers : Own(u, p, conn[<<u, p>>])
      /\ \A r \in Requests : Own(req[r].user, req[r].provider, req[r].copy)

\* A stored refresh token is the one the provider accepts, except while a newer one is on its
\* way or after it got lost: overlapping refreshes never put an older one back.
StoredTokenLives ==
  \A u \in Users, p \in Providers :
    LET c == conn[<<u, p>>]
    IN  c # None /\ c.number # None =>
          \/ c.number = latest[c.grant]
          \/ c.grant \in lost
          \/ \E r \in Requests : req[r].pc = "refreshed" /\ req[r].copy.grant = c.grant

\* A connection a user has deleted comes back only through a new authorization (api/auth.py,
\* repo_hosting_disconnect; test_auth_api.py asserts the row is gone).
DisconnectedStays ==
  [][\A u \in Users, p \in Providers :
       conn[<<u, p>>] = None /\ conn'[<<u, p>>] # None
         => \E r \in Requests : req[r].pc = "profile" /\ At(r) = <<u, p>>]_connectionVars

=============================================================================
