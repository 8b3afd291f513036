------------------------------ MODULE Planning ------------------------------
(***************************************************************************)
(* The plan pipeline of run_job (backend/app/jobs/runner.py) with what its *)
(* steps do to the world around it: the requirement is fetched, the source *)
(* repository is inspected and cloned while its developers go on working,  *)
(* the map and the digest of the clone go into the prompt, and the planner *)
(* is asked, once more when its plan is invalid, unless the plan cache has *)
(* an answer (steps/repo_clone.py, repo_digest.py, plan_agent.py,          *)
(* plan_cache.py).                                                         *)
(*                                                                         *)
(* A commit is known by its tree; a plan, by what the cache can tell it by: *)
(* the prompt, the model, the effort and the shape of the answer.  The     *)
(* system prompt, and the files the planner opens in the clone besides     *)
(* those the prompt quotes, go into the answer too, but into no key.       *)
(***************************************************************************)
EXTENDS Requirement, FiniteSets

CONSTANTS
  Jobs,
  Contents,     \* what an issue, a PDF or a pasted text may say
  Attachments,  \* the lists of attachments the issue may have
  Branches,     \* the branches of the source repository
  OfTicket,     \* those whose name contains the ticket key
  Trees,        \* records [map, readme, guide]: what a commit holds
  Requests,     \* what users ask for
  Settings,     \* the configurations, and releases, the server is started with
  Costs,        \* what one run of the planner may cost
  MaxChanges,   \* bound on what happens around the jobs
  Stub,         \* the plan of the offline stub
  None          \* no base branch, no guide, nothing recorded

Repos == {"REMOTE", "LOCAL", "LOCAL_FOLDER"}

Request ==
  [ source : Sources, text : Contents \cup {None}, key : {"ticket", "synthetic"},
    repo : Repos, base_branch : Branches \cup {None, "gone"} ]

Setting ==
  [ model : STRING, effort : STRING,
    version : Nat,                           \* SCHEMA_VERSION
    shape : Nat,                             \* what a new plan looks like
    accepts : SUBSET Nat,                    \* the shapes the Plan model validates
    stub : BOOLEAN,                          \* agent_plan_stub
    plan_cache : BOOLEAN,                    \* agent_plan_cache_enabled
    digest : {"off", "built", "cached"},     \* agent_repo_digest_*
    dirty : BOOLEAN,                         \* allow_dirty_local_repos
    folders : BOOLEAN,                       \* allow_local_non_git_folders
    match : BOOLEAN ]                        \* require_local_branch_ticket_match

ASSUME PlanningAssumption ==
  /\ OfTicket \subseteq Branches /\ Requests \subseteq Request /\ MaxChanges \in Nat
  /\ Costs \subseteq Nat /\ Settings # {} /\ Settings \subseteq Setting
  /\ \A s \in Settings : s.shape \in s.accepts
  /\ Attachments \subseteq Seq(Attachment) /\ None \notin Contents \cup Branches
  /\ \A r \in Requests : r.source \notin Trackers => r.text # None

VARIABLES
  issue,     \* what the tracker's issue says now
  source,    \* the source repository: its branches, the one checked out, local edits
  settings,
  job,       \* the rows
  run,       \* the coroutines of run_job: their local variables
  plans,     \* plan_cache.db
  digests,   \* repo_digest.db
  asked,     \* history: what each job wanted a plan for, and the shapes it could take
  attempts,  \* history: the runs of the planner for a job, what each cost, if it answered
  changes

vars == <<issue, source, settings, job, run, plans, digests, asked, attempts, changes>>
world == <<issue, source, settings, changes>>

-----------------------------------------------------------------------------
(* The prompt and its parts. *)

\* read_repo_doc: the first guidance file there is, the README last.
RepoDoc(tree) == IF tree.guide # None THEN tree.guide ELSE tree.readme

\* build_repo_digest: facts of the map, and the README's beginning.
RepoDigest(tree) == [map |-> tree.map, readme |-> tree.readme]

DigestKey(map) == map

\* get_repo_digest: the digest it returns, and the cache it leaves.
StoredDigest(tree) == { d \in digests : d.key = DigestKey(tree.map) }

GetRepoDigest(tree) ==
  CASE settings.digest = "off" -> None
    [] settings.digest = "cached" /\ StoredDigest(tree) # {} ->
         (CHOOSE d \in StoredDigest(tree) : TRUE).digest
    [] OTHER -> RepoDigest(tree)

DigestsAfter(tree) ==
  IF settings.digest = "cached" /\ StoredDigest(tree) = {}
    THEN digests \cup {[key |-> DigestKey(tree.map), digest |-> RepoDigest(tree)]}
    ELSE digests

\* build_prompt: the ticket stands for the key and the planning notes too.
Prompt(ticket, tree, digest) ==
  [ticket |-> ticket, map |-> tree.map, doc |-> RepoDoc(tree), digest |-> digest]

\* What the planner makes of a prompt, as far as a key of the cache can tell.
PlanOf(prompt) ==
  [prompt |-> prompt, model |-> settings.model, effort |-> settings.effort,
   shape |-> settings.shape]

\* What a job asks for: any plan for the prompt that its release understands.
Wanted(prompt) ==
  [prompt |-> prompt, model |-> settings.model, effort |-> settings.effort,
   shapes |-> settings.accepts]

\* Variant: the effort is left out of the key.
PlanCacheKeyWithoutEffort(prompt) == <<settings.version, settings.model, prompt>>

PlanCacheKey(prompt) == <<settings.version, settings.model, settings.effort, prompt>>

Usage(cost, cached) == [cost |-> cost, cached |-> cached]

\* What these values may be, and that the marks None and Stub are none of them.
Texts == [says : Contents, attached : Nat]
Digests == { RepoDigest(tree) : tree \in Trees }
Prompts ==
  [ ticket : Texts, map : { tree.map : tree \in Trees }, doc : { RepoDoc(tree) : tree \in Trees },
    digest : Digests \cup {None} ]
Plans == [prompt : Prompts, model : STRING, effort : STRING, shape : Nat]
Wants == [prompt : Prompts, model : STRING, effort : STRING, shapes : SUBSET Nat]
Usages == [cost : Nat, cached : BOOLEAN]
RepoInfos ==
  [source_kind : Repos, branch : Branches \cup {None}, commit_sha : Trees, is_dirty : BOOLEAN]

ASSUME MarksAreNoValues ==
  /\ None \notin Plans \cup Usages \cup RepoInfos
  /\ Stub \notin Plans /\ Stub # None

\* PlanCache.get: a row the present Plan model does not validate is a miss; one of
\* an older release it does validate is a hit.
CachedPlans(prompt) ==
  { row.plan : row \in { r \in plans : r.key = PlanCacheKey(prompt)
                                       /\ r.plan.shape \in settings.accepts } }

\* PlanCache.put: INSERT OR REPLACE.
PlansWith(prompt, plan) ==
  IF ~settings.plan_cache THEN plans
  ELSE { r \in plans : r.key # PlanCacheKey(prompt) }
         \cup {[key |-> PlanCacheKey(prompt), plan |-> plan]}

-----------------------------------------------------------------------------
(* State. *)

NoRun == [at |-> "none", ticket |-> None, inspected |-> None, prompt |-> None]
NoJob ==
  [ request |-> None, state |-> "none", repo_info |-> None, workspace |-> None,
    plan |-> None, usage |-> None ]

Unfinished == {"QUEUED", "FETCHING_TICKET", "CLONING_REPO", "MAPPING_REPO", "PLANNING"}

PlanningInit ==
  /\ issue \in Contents
  /\ source \in [heads : [Branches -> Trees], head : Branches, dirty : {FALSE}]
  /\ settings \in Settings
  /\ job = [j \in Jobs |-> NoJob]
  /\ run = [j \in Jobs |-> NoRun]
  /\ plans = {} /\ digests = {}
  /\ asked = [j \in Jobs |-> None]
  /\ attempts = [j \in Jobs |-> <<>>]
  /\ changes = 0

At(j, place) == run[j].at = place

\* _advance, and where the coroutine then waits.
Advance(j, state, place) ==
  /\ job' = [job EXCEPT ![j].state = state]
  /\ run' = [run EXCEPT ![j].at = place]

\* The except clauses of run_job: the usage is kept if the error has one.
Fail(j, usage) ==
  /\ job' = [job EXCEPT ![j].state = "FAILED", ![j].usage = usage]
  /\ run' = [run EXCEPT ![j] = NoRun]

PlanReady(j, plan, usage) ==
  /\ job' = [job EXCEPT ![j].state = "PLAN_READY", ![j].plan = plan, ![j].usage = usage]
  /\ run' = [run EXCEPT ![j] = NoRun]

CreateJob(j) ==
  \E r \in Requests :
    /\ job[j].state = "none"
    /\ job' = [job EXCEPT ![j].request = r, ![j].state = "QUEUED"]
    /\ run' = [run EXCEPT ![j].at = "slot"]
    /\ UNCHANGED <<world, plans, digests, asked, attempts>>

StartJob(j) ==
  /\ At(j, "slot")
  /\ Advance(j, "FETCHING_TICKET", "ticket")
  /\ UNCHANGED <<world, plans, digests, asked, attempts>>

-----------------------------------------------------------------------------
(* The requirement. *)

FetchFails(j) ==
  /\ At(j, "ticket")
  /\ \E refusal \in Refusals(job[j].request.source) : Fail(j, None)
  /\ UNCHANGED <<world, plans, digests, asked, attempts>>

\* Attachments are an extra of the trackers: without them the ticket is used all the same.
Tickets(request) ==
  LET of == IF request.source \in Trackers THEN issue ELSE request.text
      chars == IF request.source \in Trackers
                 THEN {0} \cup { AttachedChars(request.source, list) : list \in Attachments }
                 ELSE {0}
  IN [says : {of}, attached : chars]

FetchTicket(j) ==
  /\ At(j, "ticket")
  /\ \E ticket \in Tickets(job[j].request) :
       run' = [run EXCEPT ![j].ticket = ticket,
                 ![j].at = IF job[j].request.repo = "REMOTE" THEN "clone" ELSE "inspect"]
  /\ job' = [job EXCEPT ![j].state = "CLONING_REPO"]
  /\ UNCHANGED <<world, plans, digests, asked, attempts>>

-----------------------------------------------------------------------------
(* The clone.  `source` stands for whichever repository a job names. *)

BaseOr(request, branch) == IF request.base_branch # None THEN request.base_branch ELSE branch

\* A key made from a hash is in no branch's name, so there is nothing to match.
MatchesTicket(request, branch) == request.key = "synthetic" \/ branch \in OfTicket

\* A plain folder has no branches; a work tree must be clean and on a branch
\* of the ticket, as far as the settings ask for it.
MayCopyFolder(request) == settings.folders /\ request.base_branch = None

MayCloneWorkTree(request) ==
  /\ source.dirty => settings.dirty
  /\ settings.match => MatchesTicket(request, BaseOr(request, source.head))

MayWorkOn(request) ==
  IF request.repo = "LOCAL" THEN MayCloneWorkTree(request) ELSE MayCopyFolder(request)

\* _inspect_repo on the source.
Inspected ==
  [source_kind |-> "LOCAL", branch |-> source.head,
   commit_sha |-> source.heads[source.head], is_dirty |-> source.dirty]

\* Refused, or the path is gone, no directory, or git fails on it.
InspectFails(j) ==
  /\ At(j, "inspect")
  /\ Fail(j, None)
  /\ UNCHANGED <<world, plans, digests, asked, attempts>>

InspectSource(j) ==
  /\ At(j, "inspect")
  /\ MayWorkOn(job[j].request)
  /\ run' = [run EXCEPT ![j].at = "clone",
               ![j].inspected = IF job[j].request.repo = "LOCAL" THEN Inspected ELSE None]
  /\ UNCHANGED <<world, job, plans, digests, asked, attempts>>

\* git clone --depth 1 --single-branch [--branch base], of what is committed;
\* or the copy of a plain folder, committed as its baseline.
Cloned(request) ==
  LET branch == BaseOr(request, source.head)
  IN [branch |-> IF request.repo = "LOCAL_FOLDER" THEN None ELSE branch,
      tree |-> source.heads[branch]]

\* Variant: the source's own branch is reported.
RepoInfoAsInspected(request, inspected, workspace) ==
  IF request.repo = "LOCAL" THEN inspected
    ELSE [source_kind |-> request.repo, branch |-> workspace.branch,
          commit_sha |-> workspace.tree, is_dirty |-> FALSE]

\* What the job reports: of a local repository, what was inspected before the clone.
RepoInfo(request, inspected, workspace) ==
  IF request.repo = "LOCAL"
    THEN [inspected EXCEPT !.branch = BaseOr(request, inspected.branch)]
    ELSE [source_kind |-> request.repo, branch |-> workspace.branch,
          commit_sha |-> workspace.tree, is_dirty |-> FALSE]

HasBase(request) == BaseOr(request, source.head) \in Branches

CloneFails(j) ==
  /\ At(j, "clone")
  /\ Fail(j, None)
  /\ UNCHANGED <<world, plans, digests, asked, attempts>>

CloneRepo(j) ==
  LET request == job[j].request
      workspace == Cloned(request)
  IN /\ At(j, "clone")
     /\ HasBase(request)
     /\ job' = [job EXCEPT ![j].state = "MAPPING_REPO", ![j].workspace = workspace,
                  ![j].repo_info = RepoInfo(request, run[j].inspected, workspace)]
     /\ run' = [run EXCEPT ![j].at = "map", ![j].inspected = None]
     /\ UNCHANGED <<world, plans, digests, asked, attempts>>

MapFails(j) ==
  /\ At(j, "map")
  /\ Fail(j, None)
  /\ UNCHANGED <<world, plans, digests, asked, attempts>>

-----------------------------------------------------------------------------
(* The planner: from the end of the map to the call of the agent nothing   *)
(* is awaited.                                                             *)

PlanFromStub(j) ==
  /\ At(j, "map")
  /\ settings.stub
  /\ PlanReady(j, Stub, Usage(0, FALSE))
  /\ UNCHANGED <<world, plans, digests, asked, attempts>>

PlanWithoutKey(j) ==
  /\ At(j, "map")
  /\ ~settings.stub
  /\ Fail(j, None)
  /\ UNCHANGED <<world, plans, digests, asked, attempts>>

GeneratePlan(j) ==
  LET tree == job[j].workspace.tree
      prompt == Prompt(run[j].ticket, tree, GetRepoDigest(tree))
      hit == IF settings.plan_cache THEN CachedPlans(prompt) ELSE {}
  IN /\ At(j, "map")
     /\ ~settings.stub
     /\ digests' = DigestsAfter(tree)
     /\ asked' = [asked EXCEPT ![j] = Wanted(prompt)]
     /\ IF hit # {}
          THEN \E plan \in hit : PlanReady(j, plan, Usage(0, TRUE))
          ELSE /\ job' = [job EXCEPT ![j].state = "PLANNING"]
               /\ run' = [run EXCEPT ![j].at = "agent", ![j].prompt = prompt, ![j].ticket = None]
     /\ UNCHANGED <<world, plans, attempts>>

\* How one run of the planner can end.  After "timeout" or "raised" nothing
\* is known of what it cost; on a timeout its thread even goes on.
Silent == {"timeout", "raised", "no result"}
Invalid == {"rejected plan", "no valid output"}

Refused == {"no output", "stopped", "harness error"}

\* Variant: only an agent that was stopped reports its usage.
FailureUsageOfStopped(end, cost) == IF end # "stopped" THEN None ELSE Usage(cost, FALSE)

\* What a failing call leaves for the record: the usage of the run that failed it.
FailureUsage(end, cost) == IF end \in Silent THEN None ELSE Usage(cost, FALSE)

Attempted(j, end, cost) ==
  attempts' = [attempts EXCEPT ![j] = Append(@, [cost |-> cost, answered |-> end \notin Silent])]

FirstAttempt(j) == Len(attempts[j]) = 0

\* An invalid plan is asked for once more, with the same prompt.
PlanRetried(j) ==
  /\ At(j, "agent")
  /\ FirstAttempt(j)
  /\ \E end \in Invalid, cost \in Costs : Attempted(j, end, cost)
  /\ UNCHANGED <<world, job, run, plans, digests, asked>>

AttemptFails(j) ==
  /\ At(j, "agent")
  /\ \E end \in Silent \cup Invalid \cup Refused, cost \in Costs :
       /\ end \in Invalid => ~FirstAttempt(j)
       /\ Fail(j, FailureUsage(end, cost))
       /\ Attempted(j, end, cost)
  /\ UNCHANGED <<world, plans, digests, asked>>

PlanMade(j) ==
  LET plan == PlanOf(run[j].prompt)
  IN /\ At(j, "agent")
     /\ \E cost \in Costs :
          /\ PlanReady(j, plan, Usage(cost, FALSE))
          /\ Attempted(j, "plan", cost)
     /\ plans' = PlansWith(run[j].prompt, plan)
     /\ UNCHANGED <<world, digests, asked>>

-----------------------------------------------------------------------------
(* What goes on around the jobs. *)

Changed == changes < MaxChanges /\ changes' = changes + 1

IssueEdited ==
  /\ Changed
  /\ \E text \in Contents \ {issue} : issue' = text
  /\ UNCHANGED <<source, settings, job, run, plans, digests, asked, attempts>>

SourceCommitted ==
  /\ Changed
  /\ \E tree \in Trees \ {source.heads[source.head]} :
       source' = [source EXCEPT !.heads[source.head] = tree, !.dirty = FALSE]
  /\ UNCHANGED <<issue, settings, job, run, plans, digests, asked, attempts>>

SourceEdited ==
  /\ Changed
  /\ ~source.dirty
  /\ source' = [source EXCEPT !.dirty = TRUE]
  /\ UNCHANGED <<issue, settings, job, run, plans, digests, asked, attempts>>

SourceSwitched ==
  /\ Changed
  /\ \E branch \in Branches \ {source.head} : source' = [source EXCEPT !.head = branch]
  /\ UNCHANGED <<issue, settings, job, run, plans, digests, asked, attempts>>

\* Variant: recovery only looks at the rows whose planner was running.
RestartOfPlanners ==
  /\ Changed
  /\ settings' \in Settings
  /\ job' = [j \in Jobs |-> IF job[j].state = "PLANNING"
                              THEN [job[j] EXCEPT !.state = "FAILED"] ELSE job[j]]
  /\ run' = [j \in Jobs |-> NoRun]
  /\ UNCHANGED <<issue, source, plans, digests, asked, attempts>>

\* A restart, with the settings and the release of the next start.  Recovery
\* fails the jobs; a planner that was running cost what nobody records.
Restart ==
  /\ Changed
  /\ settings' \in Settings
  /\ job' = [j \in Jobs |->
               IF job[j].state \in Unfinished
                 THEN [job[j] EXCEPT !.state = "FAILED"] ELSE job[j]]
  /\ run' = [j \in Jobs |-> NoRun]
  /\ \E cost \in Costs :
       attempts' = [j \in Jobs |-> IF At(j, "agent")
                      THEN Append(attempts[j], [cost |-> cost, answered |-> FALSE])
                      ELSE attempts[j]]
  /\ UNCHANGED <<issue, source, plans, digests, asked>>

PlanningNext ==
  \/ \E j \in Jobs :
       \/ CreateJob(j) \/ StartJob(j) \/ FetchFails(j) \/ FetchTicket(j)
       \/ InspectFails(j) \/ InspectSource(j) \/ CloneFails(j) \/ CloneRepo(j) \/ MapFails(j)
       \/ PlanFromStub(j) \/ PlanWithoutKey(j) \/ GeneratePlan(j)
       \/ PlanRetried(j) \/ AttemptFails(j) \/ PlanMade(j)
  \/ IssueEdited \/ SourceCommitted \/ SourceEdited \/ SourceSwitched \/ Restart

PlanningSpec == PlanningInit /\ [][PlanningNext]_vars

-----------------------------------------------------------------------------
(* Properties. *)

\* A row is finished exactly when no coroutine works on it, has a plan
\* exactly when it is PLAN_READY, and each coroutine waits where its row says.
PlanningTypeOK ==
  /\ issue \in Contents /\ settings \in Settings /\ changes \in 0..MaxChanges
  /\ source \in [heads : [Branches -> Trees], head : Branches, dirty : BOOLEAN]
  /\ \A j \in Jobs :
       /\ job[j].state \in Unfinished \cup {"none", "PLAN_READY", "FAILED"}
       /\ run[j].at = CASE job[j].state = "QUEUED" -> "slot"
                       [] job[j].state = "FETCHING_TICKET" -> "ticket"
                       [] job[j].state = "CLONING_REPO" ->
                            IF run[j].at = "inspect" THEN "inspect" ELSE "clone"
                       [] job[j].state = "MAPPING_REPO" -> "map"
                       [] job[j].state = "PLANNING" -> "agent"
                       [] OTHER -> "none"
       /\ job[j].state = "PLAN_READY" <=> job[j].plan # None
       /\ run[j].at \in {"inspect", "clone", "map"} => run[j].ticket \in Texts
       /\ run[j].at = "clone" /\ job[j].request.repo = "LOCAL" => run[j].inspected # None
       /\ job[j].state \in {"MAPPING_REPO", "PLANNING", "PLAN_READY"} => job[j].repo_info # None
       /\ Len(attempts[j]) <= 2

Meets(plan, wanted) ==
  /\ plan.prompt = wanted.prompt /\ plan.model = wanted.model /\ plan.effort = wanted.effort
  /\ plan.shape \in wanted.shapes

\* A plan that is shown was made, now or in an earlier job, from the very
\* prompt, model and effort this job asked with, and its release understands
\* it: the cache never serves another one, whatever restarts, releases and
\* jobs lie between (plan_cache_key and PlanCache.get, plan_agent.py).
PlanIsForItsInputs ==
  \A j \in Jobs : job[j].plan \notin {None, Stub} => Meets(job[j].plan, asked[j])

Cost(usage) == IF usage = None THEN 0 ELSE usage.cost

\* On every way out of the pipeline, a planner whose last run answered is
\* charged what that run cost, and a job none of whose runs answered, or that
\* had none, is charged nothing (plan_agent.py, run_job's except clauses).
LastAnswerIsCharged ==
  \A j \in Jobs :
    LET made == attempts[j]
    IN job[j].state \in {"PLAN_READY", "FAILED"} =>
         /\ (made # <<>> /\ made[Len(made)].answered)
              => Cost(job[j].usage) = made[Len(made)].cost
         /\ (\A i \in DOMAIN made : ~made[i].answered) => Cost(job[j].usage) = 0

\* "Recorded whenever the harness returns a result, including a failed one ... Only truly
\* outcome-less failures ... leave these unset" (models.py:175): a job for which the
\* planner answered, the first time or the second, ends with its usage recorded.
AnsweredCostIsRecorded ==
  \A j \in Jobs :
    (/\ job[j].state \in {"PLAN_READY", "FAILED"}
     /\ \E i \in DOMAIN attempts[j] : attempts[j][i].answered)
      => job[j].usage # None

\* The text of the attachments in a prompt exceeds its limit by one file name
\* and one truncation mark at the most, however many attachments there are
\* (fetch_attachment_texts, jira_fetch.py and mantis_fetch.py).
AttachmentsBounded ==
  \A j \in Jobs :
    run[j].ticket # None => run[j].ticket.attached <= MaxTotal + Heading + Mark

\* The branch a job reports is the one its workspace was cloned from, for
\* every source but a local repository cloned without a base branch, whose
\* developer may switch branches between the inspection and the clone; and a
\* local repository is only worked on from a branch that was matched with the
\* ticket when it must be (clone_repo, repo_clone.py).
ReportedBranchIsCloned ==
  \A j \in Jobs :
    LET request == job[j].request
    IN job[j].repo_info # None =>
         /\ request.repo # "LOCAL" \/ request.base_branch # None
              => job[j].repo_info.branch = job[j].workspace.branch
         /\ (request.repo = "LOCAL" /\ \A s \in Settings : s.match)
              => MatchesTicket(request, job[j].repo_info.branch)

\* "cached per repo-state hash so it is computed once per commit" (repo_digest.py:5):
\* the digest in a prompt is the digest of the clone the prompt is about.
DigestIsOfClone ==
  \A j \in Jobs :
    asked[j] # None /\ asked[j].prompt.digest # None
      => asked[j].prompt.digest = RepoDigest(job[j].workspace.tree)

\* "report the branch actually in play, not the source's unrelated one"
\* (repo_clone.py:467): the commit a job reports is its workspace's.
ReportedCommitIsCloned ==
  \A j \in Jobs :
    job[j].repo_info # None /\ job[j].request.base_branch # None
      => job[j].repo_info.commit_sha = job[j].workspace.tree

=============================================================================
