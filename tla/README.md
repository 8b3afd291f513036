# Verification of jira2pullrequest

TLA+ models of the job server in `backend/app`: it turns a requirement into a plan with one agent
run, an approved plan into edits in an isolated clone with a second one, optionally corrects failed
validations with a third, commits the result on a branch and pushes it. The models say what
happens when requests overlap, agents outlive their timeouts, git fails, copies go stale and the
process dies, and what the files, the plan, the recorded costs, the sessions and the connected
accounts are worth afterwards; TLC checks them on small instances, and TLAPS proves every invariant
and action property that the runs check for every instance.

## The system

| Part | State it keeps | Operations | Model |
|---|---|---|---|
| Job record (`jobs/models.py`) | one JSON document per job | the state machine, written whole | `JobRecord`, `JobStages` |
| Job store (`jobs/store.py`) | SQLite tables behind one lock | create, save (last writer wins), get, lists, conditional mark; users, sessions, OAuth rows | inside the others |
| Requests (`api/routes.py`) | none | create, implement, correct-validation, create-branch, push-branch; reads | `JobLifecycle`, `Workspace` |
| Runners (`jobs/runner.py`) | a task each, with its own copy of the job | planning, implementation, correction; recovery at start | `JobLifecycle`, `Planning`, `Implementation` |
| Agent threads (`steps/*_agent.py`, `steps/agent_progress.py`) | a thread per agent call | report progress (saves the runner's copy), edit, return, time out | `JobLifecycle`, `Implementation` |
| Slots (`jobs/limits.py`) | semaphore and its waiters | acquire, release | `JobLifecycle` |
| Spend limit (`jobs/limits.py`) | none (reads the jobs) | query, sum over a window, refuse a run | `SpendLimit` |
| Requirement sources (`steps/*_fetch.py`, `requirement_text.py`) | none | fetch, reject, take attachments | `Requirement`, `Planning` |
| Source repository and clone (`steps/repo_clone.py`, `repo_map.py`, `repo_digest.py`) | clone, digest table | inspect, copy or clone, map, digest | `Planning` |
| Plan agent (`steps/plan_agent.py`, `plan_cache.py`) | plan table | look up, two attempts, usage | `Planning` |
| Line endings (`steps/line_endings.py`) | the set of converted files | convert, restore, file by file | `Implementation` |
| Validation (`steps/validation_runner.py`) | the validation copy and its `node_modules` | copy, install, run, verdicts | `Implementation` |
| Branches and pushes (`steps/branch_prep.py`) | the clone's HEAD, index, refs; the remote | checkout, add, commit, rev-parse; ls-remote, push | `Workspace` |
| Retention (`jobs/retention.py`) | a listed candidate | list, mark, delete | `Workspace` |
| Start and stop (`main.py`) | whether requests are served | recovery, shutdown, crash | `JobLifecycle` |
| Sign-in (`auth/service.py`, `api/auth.py`) | users, sessions | bootstrap, dev login, serve, sign out, expire | `Sessions` |
| Connected accounts (`auth/*_oauth.py`, `git_auth.py`, `steps/jira_auth.py`) | OAuth states, connection rows | authorize, callback, refresh, use, disconnect | `Connections` |
| Input checks, configuration, secrets, logging, stub text (`schemas/`, `core/`) | none | pure functions | not modelled |
| Frontend, deployment, backup (`frontend/`, `deploy/`) | | polls and posts; restarts | not modelled |

### How the parts interact

One asyncio loop runs every handler and runner, so code between two awaits is atomic with respect
to the other coroutines. Two things are not on the loop: agent threads, which save their runner's
copy of the job on every reported tool call, and the retention sweep. Git commands of branch
requests run in threads of their own, on the same clone; so do the conversions of line endings and
the copy that validation works in. An agent that outlived its timeout edits the clone beside all of
them.

A coroutine reads its job once and keeps the copy (`mem`, `req[r].copy`); `JobStore.save` writes the
whole copy back. A handler that awaits git, or a thread that outlived its runner, therefore undoes
what others saved meanwhile. Most hazards in `PROJECT.json` come from this. Others come from the
world around the server, which moves between two awaits of one job: the ticket is edited, the source
repository gets commits and changes branch, another job fills the plan cache, a provider replaces a
refresh token, a user disconnects. And from stops: a crash leaves rows in flight for the recovery
pass of the next start; a shutdown cancels runners, whose `finally` clause runs but whose `except`
clauses do not.

### What makes each part correct

- Runners and requests: a job moves only along the diagram of its states; a plan is implemented
  once; a reviewed implementation is not lost; the row and its recorded costs agree with what ran;
  every job comes to rest.
- Slots: as many holders as runners inside the slot, waiters served in order, nothing leaked.
- Recovery: no row claims work that no one does; an unused correction attempt is kept.
- Branches: the recorded commit is the reviewed diff; a recorded push happened; edits are not lost.
- Retention: only finished, untouched jobs lose their workspace, and those do lose it.
- Planning: a plan is one for the inputs of its job; what the row says of branch and cost is so.
- Files: the diff under review is the working tree without noise, and its verdicts are about it.
- Spend: an owner's cost in any window stays within the limit and the runs in progress.
- Sessions: a request counts as the person the proxy vouches for, whatever else was signed in; a
  sign-out is final.
- Connections: an authorization is exchanged once, for who asked, and the tokens kept are live.

## Modules

`JobRecord` has the fields of a job that decide a branch of the code or can be lost by a stale
save, reduced to "present or not", and the operations that turn a record into a record. The names
are those of `runner.py` (`Advance`, `Fail`, `RecordCorrectionFailure`, `Recovered`) or say what a
handler's condition or edit is (`CanImplement`, `Approved`).

`JobLifecycle` has one process per coroutine. `pc` is the await it is suspended at:

| `pc` | suspended in |
|---|---|
| `created`, `waiting` | the task's first turn; `AgentSlots.hold` |
| `fetch`, `clone`, `map`, `agent` | the steps of `run_job`; an agent call of any runner |
| `baseline`, `diff`, `validate` | the rest of `run_implementation` and `run_validation_correction` |
| `failing`, `refused` | the diff refresh inside an `except` clause; `refused` keeps the attempt |
| `git` | `create_branch` or `push_branch` |
| `orphaned` | the coroutine is gone, its agent thread is not |

Each action is the block from one await to the next, with every save in it. `Report` is the progress
sink. `Crash`, `Shutdown`, `Exit`, `Restart`, `RecoverJob`, `RecoverySkips` and `Serve` are the
process. `implRuns`, `fixRuns` and `billed` are history variables that no action reads, except that
a stop removes from `billed` the usage only the dead process knew. Three simplifications: the
conversion of line endings belongs to the agent step and planning's two attempts are one
(`Implementation` and `Planning` have them in detail); a request is refused by not being taken (a
refusal changes nothing).

`JobStages` is what a user is told: none, planning, planned, implementing, review, correcting,
failed, and the moves between them. `JobLifecycle` implements it (`FollowsStages`) under
`stageOfJob`, which reads the row, and, while a shutdown waits for agents, the copies those agents
can still write.

`Workspace` is the git side of one job, and the sweep. The working tree and index hold one of four
contents; a commit is named after the request that made it and knows its ancestors, which is what
a push without `--force` depends on. `create_branch` is five steps (checkout -B, add, commit,
rev-parse, save) and `push_branch` three (ls-remote, push, save); any git command may fail, an
`ls-remote` error counts as a free name and a push may land although its answer is lost, as in the
code. A run may be refused (spend limit, another state, no directory), fail, or be ended by the
recovery of the next start; each of them stages the tree and keeps its diff before the row is saved
(`SaveFailed`), with `started` and `attempted` deciding what is left of a correction's attempt.
`implement_job` and `correct_validation` are split between their read and their save because
the sweep's thread can run there; no other handler can (`LoopFree`). `Save` resets `updated_at`,
which is what the sweep's conditional update compares (`sweep.current`). Its lifecycle is coarser
than `JobLifecycle`'s: runners have three steps, validation belongs to implementing, and slots,
reports and shutdowns are left to the other module. Git itself, and other users of the remote, are
external.

`Planning` is `run_job` for several jobs that share the plan cache and the digest table. Each await
is a step; between two of them `IssueEdited`, `SourceCommitted`, `SourceEdited`, `SourceSwitched`
and `Restart` (with other settings, or a release with other prompts or another plan schema) change
what the next one reads. A commit is known by its tree, which is a map, a readme and a guide; a
prompt is the record of what goes into it; a plan is the record of the prompt, model and effort it
was made with and of the shape it has, so that "the wrong plan" can be said; a release accepts plans
of its own shape and perhaps of older ones (`accepts`), which `PlanCache.get` then serves. The
system prompt, and the files the planner opens by itself in the clone, are in no key of the cache
and not in the model: a release or a commit that changes only those is served the plan made before
it. `FirstAttempt`, `PlanRetried`, `AttemptFails` and `PlanMade` are the two attempts with every way
they may end. `Requirement` has the operators of the first step: which answer of a tracker is which
error, and how the attachments share the budget of characters. Simplifications: error codes are one
FAILED; the git commands of `_inspect_repo` are one step and copying a folder is atomic; the
ticket's notes and key are in its content. The first settings of the instance are the defaults, with
one tree per branch.

`Implementation` is what happens to the files of one job. A file is the set of agent runs whose
edits it has, and its line endings; `NormalizeToLf` and `RestoreLineEndings` take one file each, so
that a stop can fall between two, and each may pass over its file, as the code does after an
`OSError` of a read or a write (a write that fails half-way is left out). `AgentEdits` may come from
a thread nobody waits for; an edit, and the taking back of edits, may leave the file's line endings
as they are, mix them, write LF, or bring back the commit's. The
validation copy is `copy`: its tree, whether it has `node_modules`, and from which manifest.
`PrepareCopy` is atomic, new files are edits, and shutdowns and cancellation belong to
`JobLifecycle`. `excused` and `unsettled` are history variables: git failed or a thread edited after
the diff; the files of consistent endings that a stop, a conversion which passed over them, or an
agent left with others. The module has no branch or push request: a `create_branch` or `push_branch`
that saves a stale copy can bring an older diff and older results back, which is `JobLifecycle`'s
subject (`StuckOnlyAfterPush`, and the claims below).

`SpendLimit` is the jobs of one owner and a clock. A row has its costs and the times `spend_events`
counts them by; records from before those times existed are in the initial states and count at their
last save. A run's cost is known when it ends, and the states between its start and its end are one.
The routes ask when a run is requested, `RunStarts` and `RunRefused` when it has its slot.

`Sessions` has the cookies every browser was ever given, any of which may arrive late, the session
and user tables, the identity of the proxy, and the settings, which `Restart` may change. Each
handler is one step, because none awaits before it has its answer. `DevLogin` looks at its setting
only, as `dev_login` does. `signedOut`, `shown` and `typedIn` are history variables: the cookies
signed out, whom each browser's last answer was for, and whether that was the answer of the login
form.

`Connections` has up to two requests in flight, each a coroutine that awaits the provider, for each
of four providers with its own rules (which rotate refresh tokens, which answer without expiry or
scope, which keep the configured scope). A refresh token is the authorization it belongs to and a
number; the provider accepts the latest of those that rotate. Answers may be lost after the
provider acted. Simplifications: `jira_oauth_enabled` and the client settings are one flag; a
refresh answer always has an expiry; sign-in is left to `Sessions`. The providers are external.

The `MC` modules add symmetry sets and small values of the constants. Definitions whose comment
starts with "Variant:" are plausible bugs; they are used by no specification and serve to show that
a property depends on the definition below them.

## Runs

| Run | Instance | Shows |
|---|---|---|
| `lifecycle` | 1 job, 3 coroutines, 1 slot, 8 requests, 2 stops | the safety properties and `FollowsStages` |
| `faults` | 2 jobs, 3 coroutines, 1 slot, 6 requests, 1 stop, git raises | `SlotsConserved` between jobs; the inductive invariant; `RecoveryKeepsUnusedAttempt` when recovery skips |
| `liveness` | 2 jobs, 3 coroutines, 1 slot, 5 requests, 1 stop, no symmetry | `EndsUnlessBranched` |
| `workspace_git` | 4 requests, 2 names, 1 crash, retention off | `PushedIsRecorded`, `WorkIsKept` |
| `workspace_retention` | 3 requests, 1 name, 1 crash, retention on, no symmetry | `RemovedStaysAtRest`, `MarksOnlyExpired`, `RemovedIsDeleted` |
| `sessions` | 2 users, 2 browsers, 3 cookies, the login form allowed or not, any restarts | `ServedIsVouched`, `SignedOutStaysOut` |
| `connections` | 2 users, 2 requests, 2 states, 4 providers in two deployments, 1 refresh per authorization, 1 restart | `OneExchangePerState`, `ConnectionIsOwn`, `StoredTokenLives` |
| `planning` | 2 jobs, 7 kinds of request, 5 settings, 2 trees, 2 changes of the world | `PlanIsForItsInputs`, `LastAnswerIsCharged`, `AttachmentsBounded`, `ReportedBranchIsCloned` |
| `implementation` | 2 files in 2 combinations of line endings, nothing, python or npm to run, an implementation and a correction, 1 crash, git may fail | `NoiseIsExplained`, `NoHollowSuccess`, `ReviewShowsTree`, `ResultsMatchDiff`, `VerdictNeedsInstall` |
| `spend_limit` | 2 jobs, 1 slot, limit 2, costs 1 and 2, a window of 2 in 5 instants, 1 restart | `SpendIsBounded`, `QueryIsComplete`, `ResetsAtIsFirst` |
| `working_jobs_untouched` | 1 request | violated: the sweep deletes under an approved job |
| `recorded_commit` | 3 requests | violated: two create-branches record the baseline as the commit |

Deadlock is not checked: users may stop making requests, and in `Workspace` each request is made
once.

### Properties that hold

- `SlotsConserved`: holders are the runners inside the slot and waiters are the queue, on each of
  the many ways out (refusal, failure, timeout, cancellation, crash). An agent executes without a
  slot only after its runner gave it up.
- `ImplementedAtMostOnce`: needs that no stale copy can bring PLAN_READY back, which is what
  `ApprovalInv` says.
- `CostRecorded`: planning and implementation costs, once known to a runner, stay on the row. (The
  correction's does not, see below; and a crash before the save loses what only the
  dead process knew.)
- `ReviewableHasImplementation`: whatever copy was written last, a reviewable row is complete.
- `StuckOnlyAfterPush`: separates the one way to be stuck from everything else: without a
  push, a row in flight has its runner. `EndsUnlessBranched` is the liveness side.
- `ReviewIsKept`, `ServesOnlyRecovered`, `RecoveryKeepsUnusedAttempt`: what stops may not do.
- `FollowsStages`: runners, stale saves, late reports and recovery together refine `JobStages`.
- `PushedIsRecorded`: the recorded name and commit are what the remote took, although other
  requests move local branches; this depends on pushing the commit and not the branch.
- `WorkIsKept`: edits survive every order of branch requests, failures and crashes, in the tree or
  in a commit. It does not say the commit can still be turned into a branch by the server: after a
  crash between commit and save, a second create-branch finds nothing to commit.
- `MarksOnlyExpired`, `RemovedStaysAtRest`, `RemovedIsDeleted`: the sweep against the requests.

- `PlanIsForItsInputs`: the cached or fresh plan on a row is one for the very prompt, model and
  effort of this job, in a shape its release accepts, though issue, repository and settings changed
  between its awaits.
- `LastAnswerIsCharged`: on every way out of planning, the row has the cost of the last attempt if
  that attempt answered, and none if no attempt did. An answer followed by a silent attempt is
  neither: see `AnsweredCostIsRecorded` below.
- `AttachmentsBounded`: the budget is exceeded by one heading and one truncation mark at most.
- `ReportedBranchIsCloned`: with a base branch, or from a remote, the row's branch is the clone's.
- `NoiseIsExplained`: a file shown as changed only by its line endings had mixed ones, or a stop cut
  its conversion off, or a conversion back passed over it, or an agent changed its endings where no
  conversion would restore them. Nothing else does it: no order of failures, timeouts and late
  edits.
- `NoHollowSuccess`: an implementation that says it changed something has an edit in its diff, or a
  file shown for its line endings from one of those causes; without such a file an agent that claims
  edits and made none is not believed.
- `ReviewShowsTree`: what is shown is what a branch would commit, unless git failed, a late agent
  edited on, or a correction took every change back. (This module's list: a stale save of a branch
  or push request is the other way to an old diff.)
- `ResultsMatchDiff`: validation results are about the diff beside them unless a correction failed.
- `VerdictNeedsInstall`: an npm verdict on an implementation had its dependencies.
- `SpendIsBounded`: although runs in progress have no cost yet, a window never holds more than the
  limit and one run per slot. Rows of older releases count at their last save and are left out.
- `QueryIsComplete`: selecting rows by `updated_at` loses no cost of the window.
- `ResetsAtIsFirst`: the time a refused user is told is the first at which a run is accepted.
- `ServedIsVouched`: behind the proxy a browser is answered as the person vouched for, whatever
  cookies it holds: of an earlier user, of a time without the proxy, or of the login form. The one
  exception is the form's own answer. `dev_login` does not look at the identity, and
  `auth_allow_dev_login` is TRUE by default (`core/config.py:169`), so a server behind a proxy that
  keeps the default answers the form as any e-mail typed into it and issues a session for it; the
  next request with that session is the identity's again and deletes it. The repository's
  `README.md` (line 275) and `deploy/vm/docker-compose.yml` (line 61) set
  `AUTH_ALLOW_DEV_LOGIN=false` for such a server, and nothing at start-up refuses the combination.
- `SignedOutStaysOut`: against late requests with a cookie that signed out.
- `OneExchangePerState`, `ConnectionIsOwn`: against repeated callbacks, other users' states and late
  saves.
- `StoredTokenLives`: overlapping refreshes of one connection never put back a refresh token the
  provider has replaced; only a lost answer leaves a dead one.

### Claims the code does not keep

Two are runs (`working_jobs_untouched`, `recorded_commit`) and are listed as findings. The others
are definitions of the modules without a run. Adding the name to the configuration, in place of its
properties, shows a counterexample:

| Definition | Add to | What happens |
|---|---|---|
| `EveryJobEnds` | `MCJobLiveness.cfg` (property) | `jobs/models.py:1`, "Every job ends in a terminal state": `push_branch` has no condition on the state and saves the copy it read; when it overlaps a correction, the row says CORRECTING again with no runner, until a restart |
| `CorrectedAtMostOnce` | `MCJobLifecycle.cfg` | `jobs/models.py:196`, "capped at one attempt per job": a `create_branch` that read the row before a correction erases the spent attempt |
| `CorrectionCostRecorded` | `MCJobLifecycle.cfg` | `jobs/models.py:203`, "recorded whether it succeeds or fails": the same save erases the cost |
| `AnsweredCostIsRecorded` | `MCPlanning.cfg` | `jobs/models.py:175`, usage is "recorded whenever the harness returns a result" and only "truly outcome-less failures" leave it unset: when the first attempt returns an invalid plan and the second times out or cannot connect, `generate_plan` raises without the first one's usage (`steps/plan_agent.py:456`, `:461`), and the failed job has no cost |
| `AgentsWithinSlots` | `MCJobFaults.cfg` | `jobs/limits.py:5`: an agent that timed out runs on in its thread while its slot is given to the next job |
| `CorrectionLandsReady` | `MCJobLifecycle.cfg` (property) | `jobs/runner.py:560`, "always lands back on IMPLEMENTATION_READY": a shutdown cancels the task and the `finally` clause fails the job |
| `NoLineEndingNoise` | `MCImplementation.cfg` | after a crash between the two conversions, or when the conversion back cannot read or write a file (`steps/line_endings.py:117`, `:128`), the diff shows whole files as changed |
| `DisconnectedStays` | `MCConnections.cfg` (property) | a refresh that was awaiting the provider saves the row after the user disconnected (`auth/github_oauth.py:212`) |
| `DigestIsOfClone` | `MCPlanning.cfg` | `steps/repo_digest.py:5`, "computed once per commit": the key is the map, so a commit that changes only the readme gets the old digest |
| `ReportedCommitIsCloned` | `MCPlanning.cfg` | `steps/repo_clone.py:466`: with a base branch the reported branch is corrected, but the commit is still that of the source's own checkout |

`NoHollowSuccess` has a disjunct for files of mixed line endings and for `unsettled` ones:
converting a mixed file and back makes it consistent, and a file that the conversion back passed
over stays LF; both count as a change, so an agent that claims edits and made none is believed there
(`runner.py:461`). `steps/jira_fetch.py:153` calls the attachments' text "capped at" the total: the
loop exceeds it by a heading and a mark, which is what `AttachmentsBounded` allows. Also seen while
modelling, and left as the code has it: a correction that was refused for its budget and then
succeeds keeps the old `implementation_correction_error`; a correction's validation takes the
`node_modules` of a failed or older installation for a complete one; a late agent's edits are in the
branch but not in the diff; the diff refreshed after a failed correction replaces the one its
comment calls "left untouched"; a downloaded Jira attachment is not measured again, and the limit on
their number applies before other types are skipped; the local source may switch branch between
inspection and clone; planning cost counts at the job's creation; the cost of an old record moves
with each save of it.

### Bounds

`MaxRequests` and `MaxStops` bound accepted requests and stops. A job's life takes create,
implement and one or two corrections; a stale save needs one more request that overlaps, so eight
requests cover a full life with two overlapping branch or push requests and a second correction.
Three coroutines are a runner and two requests, or two runners and a request; their copies cover
every pair of stale writers and a third that observes. Two stops cover a crash during recovery.
One slot makes two runners compete; more slots only remove waits. In `Workspace` four requests are
an implementation, a pair of racing branch or push requests and one more (a correction, or the
retry after a crash).

In `planning` two jobs are one that fills the cache and one that finds it filled; two changes (an
edit, a commit, a switch, a restart with other settings) are enough for the inputs to change and
change back. The first settings are fixed in the instance to keep it small, the later ones are not.
In `implementation` two files let a conversion be cut off between them, one of them being the npm
manifest; in one repository the manifest is CRLF and the other file mixed, in the other only the
second file is CRLF, and there is nothing, python or npm to validate. In `connections` two requests
are every pair of overlapping callbacks, refreshes and uses, with a disconnect between any two of
their steps; two deployments keep the providers' pairs apart, since a row belongs to one provider.
In `spend_limit` the clock covers two windows, so that costs leave one; one slot makes the bound
tight. In `spend_limit` several runs that start below the limit at once need a second slot: that is
left to the theorem `SpendBounded`, which is for any number of slots. In `sessions` three cookies
allow one to expire, one to be signed out and one in use.

### Fairness

`JobLifecycle`: weak fairness of `Step(p)` for each coroutine (the loop runs every ready callback;
every awaited step has a timeout or is local work) and of `Recovery` (`docker-compose.yml` restarts
the container, and startup runs recovery before serving). Users' requests, reports, the end of an
abandoned thread, crashes and shutdowns have none. `Workspace`: weak fairness of the sweep's
decisions (it repeats on its interval, and a failed pass does not end the loop) and of the restart,
strong fairness of deletion: a file that cannot be deleted now can be some day.

## Proofs

Every invariant and action property of the passing runs, and the refinement `FollowsStages`, is a
theorem about every value of the constants; liveness is not (see below). Each proof module states
its inductive invariant, a lemma per action or group of actions, and the theorems at the end. TLC
checked each inductive invariant on the instances of the runs before it was proved.

### Assumptions

The theorems use the named `ASSUME`s, which TLC evaluates in the passing runs, and nothing else:
bounds are naturals and switches booleans; the limit on slots, the window, the budget of characters
and the sizes of a heading and a mark are positive; marks such as `NoJob`, `None` and `Stub` are not
among the values they stand beside (`NoneIsNoOther`, `NoneIsNoTree`, `MarksAreNoValues`,
`NoneAssumption`, `NoneIsNobody`); what an instance chooses is of the kind the code can meet
(`PlanningAssumption`, `AnswersAssumption`, `BasesAssumption`, `ProfilesAssumption`: a request that
names no tracker has text, because `routes.py:299` refuses any other). `SpendAssumption` adds
finitely many jobs and a most expensive run. No theorem needs finitely many coroutines, requests,
files, users or cookies.

Five theorems of `JobReview_proofs` have the hypothesis `~GitRaises`: the diff helpers catch what
git does wrong. It is needed. When the refresh of the diff raises inside an `except` clause, the
`finally` clause settles the row but leaves the runner's copy as it was, and a thread that outlived
the runner can save that copy later; and recovery passes over a job whose refresh raises. With
`GitRaises = TRUE` in `MCJobLifecycle.cfg` TLC finds each of the five violated. The other theorems
hold either way.

### `JobLifecycle_proofs`

`TypeCorrect`, `SlotsAreConserved`, `ApprovalInvariant`, `ImplementedOnce`.

`SlotsConserved` needs two additions to be inductive (`SlotInv`): the set of holders is finite, so
that a removal lowers its size, and nobody is in the queue twice, so that the head that takes a slot
is gone from it. Every step of a coroutine is one of the four ways to move between pool and queue
(`SlotMove`).

`ImplementedAtMostOnce` alone is not inductive: nothing in it says that a row in PLAN_READY has not
been implemented, or that no copy in flight could make it PLAN_READY again. `ApprovalInv` divides
rows into those before the approval and those after it, and says that each coroutine's row and copy
are on its side (`CopiesFit`), that a job has at most one planning and one implementing coroutine
(`SoleRunner`), that nothing before the approval has run (`NotYetImplemented`) and that recovery
touches only what a dead process left (`RestartIsClean`). The induction also uses type correctness
and two facts about `pc`: a live thread belongs to a runner at or after its agent call
(`ThreadsOwned`), and each kind of coroutine waits only at its own awaits (`AtItsAwait`). `IInv` is
their conjunction.

### `JobReview_proofs`

All its invariants are about one row and one copy at a time, while an action changes several
functions. The module therefore starts with a list of outcomes: what every step of a coroutine
(`GitOutcome`, `SlotOutcome`, `PlanOutcome`, `EditsOutcome`, `EndOutcome`, `ThreadOutcome`), every
accepted request (`RequestOutcome`) and every stop (`Dies`, `Recovers`, `Halts`) does to the row,
the copy and the await of its coroutine. The lemmas that say so are proved once from the actions;
each invariant goes through the list.

- `ReviewHasImplementation` (`ReviewInv`): a reviewable row is complete (`RowsReviewable`); beside a
  correction, a branch or a push request, the row and the copy are complete, and an implementing
  runner's copy has what its steps so far have brought (`CopiesShow`); planning and implementing
  share their job with nobody (`WorksAlone`), so that no other copy can undo theirs.
- `RecoveryKeepsAttempt`: a spent attempt on a row or in a copy means that a correction got its slot
  (`StartedHasRun`).
- `CostIsRecorded` (`CostInv`): a planning cost that came back is on the row at once (`RowsPriced`)
  and in every later copy; an implementing runner carries its own in its copy, with no thread of it
  left (`CopiesPriced`), and as long as the row lacks it that runner is there
  (`ImplementationPriced`).
- `ServesRecovered` (`RecoveryComplete`): while recovery runs, the rows in flight are among those it
  still has to visit.
- `StuckAfterPush` (`RestInv`): while the process serves, a row in flight was pushed or has a runner
  that is still there, and no late thread and no branch request holds a copy in flight.
- `ReviewKept` (`StaysInReview`): the copy of a correction is one of a job in review, and a branch
  or push request holds a copy on the same side of review as the row, so that saving it cannot take
  a job out of review.
- `ImplementsStages`: the refinement. The invariant `JobInv` adds `StageFits`, which ties row and
  copy of each coroutine to the kind of work it does, and `BranchesReviewed`. Each step of a
  coroutine then moves each row along the diagram or leaves its stage (`RowsGo`), unless the process
  is stopping. While it is, `stageOfJob` reads the copies of the agents the shutdown waits for; the
  lemma `Shown` says what it then is, from the kind of the agents that are left (`LingerStage`), and
  `StoppingMoves` and `StagesGo` follow it through cancellation, late reports, exit and restart.

### `Workspace_proofs`

`WorkspaceTypes`, `PushesRecorded`, `WorkKept`, `RemovedRests`, `MarksExpired`, for any number of
requests, branch names and crashes, with retention on or off. A recorded push is written from a copy
read before `ls-remote`, so the invariant `Inv` says what each request knows at each step
(`RequestsFit`: its copy was not removed, a create-branch copy was not pushed, a request in `pushed`
has its commit in `landed`), that every copy that says "pushed" is right (`RowFits`, which later
saves of that copy rely on), and that HEAD names a branch with a commit (`HeadExists`, without which
a commit could be recorded that does not exist). The three ways a run ends without a result and the
recovery share what they save (`SavedFrom`). For the sweep, `SweepFits` ties what was listed to
the row: an expired candidate whose timestamp is unchanged is still aged. That runners save copies
of unremoved rows rests on `RemovedStaysAtRest` itself: they start only from a row at work. The
lemmas follow the action groups twice, once for types and once for the rest.

`WorkIsKept` is about the row, but a stale copy with a diff can become the row after the tree was
committed and its files replaced. `WorkInv` says of every copy what `WorkIsKept` says of the row
(`DiffKept`), and that a request's commit is made once, at its commit step (`CommitsOnce`), so that
no later step takes a content out of the repository.

### `Planning_proofs`

`PlanningTypes`, `PlansAreOwn`, `LastAnswersAreCharged`, `AttachmentsFit`, `ReportedBranch`, for any
jobs, settings, trees, costs and changes of the world. `PlanInv` says of each job (`Sound`): it is
at the await its row says (`InPlace`); at the agent it asks for what `asked` records, and a plan on
the row is one that meets it (`Asks`); its cost is that of its last attempt, if that answered, and
none if no attempt did (`Spent`); its ticket's attachments fit (`Bounded`); what the inspection
accepted is what the clone reports (`Matched`); the branch it reports is that of its clone
(`Reported`). The cache holds under each key only plans made for that key (`PlanRow`), so that a hit
in an accepted shape is one the job can use (`HitIsWanted`). Changes of the world touch no variable
of a job or a run, so their lemmas are only about `WorldOK`.

The budget loop is a recursive function over a list of any length. What it returns is proved by the
least element of a set of naturals: if the bound failed at some index it would fail at a first one,
and the step before that one gives the contradiction.

### `Implementation_proofs`

`ImplementationTypes`, `DiffsHaveNoNoise`, `ClaimsHaveChanges`, `ReviewedTree`, `ResultsAreOfDiff`,
`VerdictsHaveDependencies`, for any files, endings, bases and stops. `FilesInv` has a part for each
question: `Fits` (what the runner carries at each step), `Endings` (each file has the endings of the
base, or is converted and still to be restored, or was mixed, or is `unsettled`), `FirstRun` (an
implementation that was accepted with a claim has a changed diff), `Current` (the diff is that of
the tree, or the step or history variable that says why not) and `Dependencies` (the validation copy
has the dependencies of the manifest that was installed). They are proved together because the
diff is collected from the endings and the verdicts from the copy.

### `SpendLimit_proofs`

`SpendTypes`, `QueryFindsAll`, `SpendBounded`, `ResetIsFirst`. The sum of a set of costs is the
cardinality of the set of its units (`Units`: each event with the numbers 1 to its cost), so that
what is needed of sums follows from the library's facts on finite sets. `RoomInv` carries the bound:
the recent total, and the highest cost for each run under way, stay below the limit and one such
cost per slot; a start adds a run only below the limit, an end turns a run into at most that cost,
and time only takes costs away. The loop of `check` that finds the reset time is a recursive
function on the events in order; `Follows` and `AgedOut` say what it has seen after n of them, again
by a least counterexample.

### `Connections_proofs`

`TypeCorrect`, `OneExchange`, `ConnectionsAreOwn`, `StoredTokenIsLatest`. `Moves` restates the
actions as the few effects they have (take a request, receive tokens, write a row, refresh, drop,
age), and the invariants are proved for those. `OwnInv`: a state buys at most one exchange, and none
before it is used up (`ExchangesInv`), and rows and copies were granted to their user and provider.
`TokenInv` is what no lock in the code provides: no row and no copy has a token the provider has not
given out (`RowsBehind`, `CopiesBehind`); a token that just replaced another is held only by the
request it was sent to (`RotatedOnce`), so that its save is the one that counts; and nobody else has
anything of an authorization that is being completed (`NewAlone`).

### `Sessions_proofs`

`SessionTypes`, `ServesVouched` and `SignOutIsFinal`, for any users, browsers and cookies, with or
without a proxy. `ServedIsVouched` follows step by step from what `_resolve_session_user` returns
(`SessionUserIsVouched`) and the types; the answer of the login form is marked as such until the
next answer, and no process without the form has such a mark, because a restart clears it.
`SignedOutStaysOut` alone is not inductive: it needs that a signed-out cookie was once given to a
browser (`SignedOutWasHeld`), so that no sign-in is issued the same token again.

### Only model-checked

Liveness: `EndsUnlessBranched` and `RemovedIsDeleted` rest on fairness and on which actions are
enabled, which the prover cannot reason about. The two refuted claims, and the definitions under
"Claims the code does not keep", are counterexamples and have nothing to prove.

## Plan

1. Models: `JobRecord`, `JobStages`, `JobLifecycle`, `Workspace`, `Sessions`, `Connections`,
   `Requirement`, `Planning`, `Implementation`, `SpendLimit`: done.
2. Proofs of the safety properties, the action properties and the refinement: done.
3. Proofs still worth having: what survives of the five theorems when git raises; that a job's
   commit, once pushed, contains the files of its last diff when no agent is late.
4. Models still open: the path rules of `workspace_guard` as operators, the migrations of the store
   at start, and properties for the hazards that have none.

## Not modelled

Ownership checks, input normalisation (`schemas/`) and prompts change no state the properties speak
of. The map's traversal and symbol extraction, the parsing of HTML, ADF and PDF, and the canned text
of the plan stub are functions of what is read. `workspace_guard` decides on paths and keeps no
state; `structured_output_rejections` only logs. Configuration, secrets, encryption of tokens,
logging and process hardening are set-up or wrappers of libraries. The read-only endpoints (status,
lists, costs, export) and the store's two migrations are left out. SQLite is assumed to be durable
and atomic per statement, as its lock and commit give it; the backup uses its online copy. The
upload directory is deleted with the workspace and is not distinguished from it. The frontend polls.
