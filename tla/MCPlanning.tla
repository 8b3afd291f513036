---- MODULE MCPlanning ----
(* Small instances of Planning. *)
EXTENDS Planning, TLC

Symmetry == Permutations(Jobs) \cup Permutations(Contents)

Pdf(chars) == [declared |-> "pdf", size |-> "fits", content |-> "pdf", chars |-> chars]
MCAttachments ==
  { <<Pdf(2), [Pdf(9) EXCEPT !.size = "understated"], Pdf(9)>>,
    <<[Pdf(9) EXCEPT !.declared = "named"], [Pdf(9) EXCEPT !.content = "malformed"]>> }

\* Two commits with one map: only the README differs.
Commit(readme) == [map |-> "m", readme |-> readme, guide |-> None]
MCTrees == { Commit("r1"), Commit("r2") }

Ask(from, text, key, repo, base) ==
  [source |-> from, text |-> text, key |-> key, repo |-> repo, base_branch |-> base]
MCRequests ==
  { Ask("JIRA", None, "ticket", "LOCAL", None), Ask("JIRA", None, "ticket", "LOCAL", "feature"),
    Ask("MANTIS", None, "ticket", "REMOTE", None), Ask("MANTIS", None, "ticket", "REMOTE", "gone"),
    Ask("JIRA", None, "ticket", "LOCAL_FOLDER", None) }
    \cup { Ask("TEXT", text, "synthetic", "LOCAL", None) : text \in Contents }

Default ==
  [ model |-> "opus", effort |-> "high", version |-> 1, shape |-> 1, accepts |-> {1},
    stub |-> FALSE, plan_cache |-> TRUE, digest |-> "cached", dirty |-> FALSE,
    folders |-> TRUE, match |-> TRUE ]
MCSettings ==
  { Default, [Default EXCEPT !.effort = "low"], [Default EXCEPT !.shape = 2, !.accepts = {1, 2}],
    [Default EXCEPT !.stub = TRUE, !.folders = FALSE],
    [Default EXCEPT !.plan_cache = FALSE, !.digest = "built", !.dirty = TRUE] }

\* The first start: the default settings, and a source repository on its main branch.
MCInit ==
  /\ PlanningInit
  /\ settings = Default
  /\ source.head = "main"
  /\ source.heads = [b \in Branches |-> IF b = "main" THEN Commit("r1") ELSE Commit("r2")]
MCSpec == MCInit /\ [][PlanningNext]_vars
====
