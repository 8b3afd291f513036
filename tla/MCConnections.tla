---- MODULE MCConnections ----
(* Small instances of Connections. *)
EXTENDS Connections, TLC

SmallProviders == {"github", "gitlab", "bitbucket", "jira"}
SmallDeployments == {{"github", "gitlab"}, {"bitbucket", "jira"}}
SmallRotating == {"github", "gitlab", "jira"}

\* Answers with and without a refresh token, an expiry and a scope
SmallAnswers == { [refresh |-> TRUE, expires |-> TRUE, scope |-> "write"],
                  [refresh |-> FALSE, expires |-> FALSE, scope |-> ""] }

Symmetric == Permutations(Users) \cup Permutations(States) \cup Permutations(Requests)
====
