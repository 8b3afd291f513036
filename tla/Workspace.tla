------------------------------ MODULE Workspace ------------------------------
(***************************************************************************)
(* One job's workspace: the clone an implementation edits, the branch      *)
(* create_branch commits in it, the push to the repository's remote, and   *)
(* the retention sweep that deletes it (backend/app/steps/branch_prep.py,  *)
(* backend/app/jobs/retention.py, backend/app/api/routes.py).              *)
(*                                                                         *)
(* Git runs in threads, one command after another, so the commands of two  *)
(* requests interleave; the sweep runs in a thread of its own, so it also  *)
(* interleaves with a handler between its read and its save, where no      *)
(* other handler can.  The job's row is written whole, from the copy each  *)
(* handler read.                                                           *)
(***************************************************************************)
EXTENDS Naturals

CONSTANTS
  Requests,   \* requests made for the job; each is made once
  Names,      \* branch names
  None,       \* no name, no commit
  Retention,  \* workspace_retention_enabled
  MaxCrashes  \* bound on crashes of the process

ASSUME NoneAssumption == None \notin Names \cup Requests \cup {"base", "foreign"}
ASSUME CommitsAssumption == Requests \cap {"base", "foreign"} = {}
ASSUME RetentionAssumption == Retention \in BOOLEAN
ASSUME CrashBoundAssumption == MaxCrashes \in Nat

VARIABLES
  row,      \* the job's row
  dir,      \* its directory: "whole", "partial" or "gone"
  tree,     \* what the working tree holds
  index,    \* what is staged
  on,       \* the branch HEAD names, None for the one the clone came with
  refs,     \* local branches
  commits,  \* the commit each request made
  remote,   \* branches of the remote
  landed,   \* history: <<name, commit>> pushes the remote accepted
  req,      \* the requests
  sweep,    \* the retention sweep and the candidate it listed
  server,   \* "up" or "down"
  crashes   \* crashes so far

gitVars == <<tree, index, on, refs, commits>>
remoteVars == <<remote, landed>>
serverVars == <<server, crashes>>
vars == <<row, dir, gitVars, remoteVars, req, sweep, serverVars>>

\* What a tree holds: the clone, the implementation, its correction, or what a deletion
\* under way has left.
Contents == {"base", "changes", "corrected", "damaged"}
CommitIds == Requests \cup {"base"}
Commit == [content : Contents, past : SUBSET CommitIds]

\* Validating counts as implementing, revalidating as correcting.
AtRest == {"PLAN_READY", "IMPLEMENTATION_READY", "IMPLEMENTATION_FAILED"}
AtWork == {"IMPLEMENTATION_QUEUED", "IMPLEMENTING", "CORRECTING"}

Row ==
  [ state     : AtRest \cup AtWork,
    diff      : Contents,               \* what implementation_diff shows
    started   : BOOLEAN,                \* implementation_correction_started_at is set
    attempted : BOOLEAN,                \* implementation_correction_attempted
    branch    : Names \cup {None},
    sha       : CommitIds \cup {None},  \* branch_commit_sha
    pushed    : BOOLEAN,
    removed   : BOOLEAN,                \* workspace_removed_at is not None
    aged      : BOOLEAN ]               \* updated_at is older than the retention period

GitSteps == {"checkout", "add", "commit", "rev-parse", "ls-remote", "push"}
RequestPCs == {"new", "checked", "queued", "editing", "collecting", "created", "pushed", "done"}
                \cup GitSteps

Request ==
  [ op   : {"none", "implement", "correct", "create", "push"},
    pc   : RequestPCs,
    copy : Row,
    name : Names \cup {None},
    sha  : CommitIds \cup {None} ]

Sweep ==
  [ pc       : {"idle", "listed", "deleting"},
    removed  : BOOLEAN,   \* the candidate was marked by an earlier sweep
    expired  : BOOLEAN,   \* its updated_at was before the cutoff
    current  : BOOLEAN ]  \* its updated_at is still that of the row

TypeOK ==
  /\ row \in Row
  /\ dir \in {"whole", "partial", "gone"}
  /\ tree \in Contents /\ index \in Contents
  /\ on \in Names \cup {None}
  /\ refs \in [Names -> CommitIds \cup {None}]
  /\ commits \in [Requests -> Commit]
  /\ remote \in [Names -> CommitIds \cup {None, "foreign"}]
  /\ landed \in SUBSET (Names \X CommitIds)
  /\ req \in [Requests -> Request]
  /\ sweep \in Sweep
  /\ server \in {"up", "down"} /\ crashes \in 0..MaxCrashes

Planned ==
  [ state |-> "PLAN_READY", diff |-> "base", started |-> FALSE, attempted |-> FALSE,
    branch |-> None, sha |-> None, pushed |-> FALSE, removed |-> FALSE, aged |-> FALSE ]

NotMade == [op |-> "none", pc |-> "new", copy |-> Planned, name |-> None, sha |-> None]
Ended == [NotMade EXCEPT !.pc = "done"]

Resting == [pc |-> "idle", removed |-> FALSE, expired |-> FALSE, current |-> FALSE]

\* A planned job in its fresh clone.
Init ==
  /\ row = Planned
  /\ dir = "whole"
  /\ tree = "base" /\ index = "base"
  /\ on = None
  /\ refs = [n \in Names |-> None]
  /\ commits = [r \in Requests |-> [content |-> "base", past |-> {}]]
  /\ remote = [n \in Names |-> None] /\ landed = {}
  /\ req = [r \in Requests |-> NotMade]
  /\ sweep = Resting
  /\ server = "up" /\ crashes = 0

-----------------------------------------------------------------------------
(* Rows and requests                                                       *)

\* JobStore.save: the row becomes the copy, with a new updated_at, whatever a sweep has
\* listed or marked meanwhile.
Save(rec) ==
  /\ row' = [rec EXCEPT !.aged = FALSE]
  /\ sweep' = [sweep EXCEPT !.current = FALSE]

\* The event loop is free: no handler is between its read and its save.
LoopFree == server = "up" /\ \A r \in Requests : req[r].pc # "checked"

\* Variant: the mark of the sweep is not looked at.
DirectoryOnly(rec) == dir # "gone"

\* _require_workspace
HasWorkspace(rec) == ~rec.removed /\ dir # "gone"

Begin(r, op, pc, name) ==
  /\ LoopFree /\ req[r].pc = "new"
  /\ HasWorkspace(row)
  /\ req' = [req EXCEPT ![r] = [op |-> op, pc |-> pc, copy |-> row, name |-> name, sha |-> None]]
  /\ UNCHANGED <<row, dir, gitVars, remoteVars, sweep, serverVars>>

Goto(r, pc) == req' = [req EXCEPT ![r].pc = pc]
End(r) == req' = [req EXCEPT ![r] = Ended]

-----------------------------------------------------------------------------
(* Implementation and correction                                           *)

ImplementJob(r) == row.state = "PLAN_READY" /\ Begin(r, "implement", "checked", None)

CorrectValidation(r) ==
  /\ row.state = "IMPLEMENTATION_READY" /\ ~row.attempted
  /\ Begin(r, "correct", "checked", None)

\* The state a row waits in for its runner.
Awaited(op) == IF op = "implement" THEN "IMPLEMENTATION_QUEUED" ELSE "CORRECTING"

\* The handler's save, in the block of its read: only the sweep can come between.
Enqueue(r) ==
  /\ req[r].pc = "checked"
  /\ Save([req[r].copy EXCEPT !.state = Awaited(req[r].op), !.started = FALSE])
  /\ Goto(r, "queued")
  /\ UNCHANGED <<dir, gitVars, remoteVars, serverVars>>

\* Variant: the failure state of a planning run.
FailedStateByDefault(op) == IF op = "implement" THEN "FAILED" ELSE "IMPLEMENTATION_READY"

\* The state a runner ends in when it fails.
FailedState(op) == IF op = "implement" THEN "IMPLEMENTATION_FAILED" ELSE "IMPLEMENTATION_READY"

\* The runner reads the row it was started for and finds its directory.
RunnerStarts(r) ==
  /\ LoopFree /\ req[r].pc = "queued"
  /\ row.state = Awaited(req[r].op)
  /\ dir # "gone"
  /\ LET rec == IF req[r].op = "implement" THEN [row EXCEPT !.state = "IMPLEMENTING"]
                ELSE [row EXCEPT !.started = TRUE]
     IN  Save(rec) /\ req' = [req EXCEPT ![r].copy = rec, ![r].pc = "editing"]
  /\ UNCHANGED <<dir, gitVars, remoteVars, serverVars>>

\* implementation_baseline_commit_sha is recorded by the first runner that starts.
HasBaseline(rec) == rec.state \notin {"PLAN_READY", "IMPLEMENTATION_QUEUED"}

Failed(rec, op, used) ==
  [rec EXCEPT !.state = FailedState(op), !.attempted = @ \/ (op = "correct" /\ used)]

\* What every failure does before it saves the row (_refresh_diff_best_effort): the tree
\* is staged and its diff kept, unless it is empty, there is no baseline or git fails.
SaveFailed(rec, baseline) ==
  \E collects \in BOOLEAN :
    /\ collects => baseline /\ dir # "gone"
    /\ index' = IF collects THEN tree ELSE index
    /\ Save([rec EXCEPT !.diff = IF collects /\ tree # "base" THEN tree ELSE @])

\* A run is refused for its owner's spend limit, in another state, or without its
\* directory; only the limit leaves a correction its attempt.
RunnerRefused(r) ==
  /\ LoopFree /\ req[r].pc = "queued"
  /\ LET op == req[r].op
     IN  \/ SaveFailed(Failed(row, op, FALSE), HasBaseline(row))
         \/ row.state # Awaited(op) /\ SaveFailed(Failed(row, op, TRUE), HasBaseline(row))
         \/ /\ row.state = Awaited(op) /\ dir = "gone"
            /\ SaveFailed([Failed(row, op, TRUE) EXCEPT !.started = @ \/ op = "correct"], FALSE)
  /\ End(r)
  /\ UNCHANGED <<dir, tree, on, refs, commits, remoteVars, serverVars>>

\* The agent edits files; it never runs git.
AgentEdits(r) ==
  /\ server = "up" /\ req[r].pc = "editing" /\ dir # "gone"
  /\ tree' = IF dir = "partial" THEN "damaged"
             ELSE IF req[r].op = "implement" THEN "changes" ELSE "corrected"
  /\ Goto(r, "collecting")
  /\ UNCHANGED <<row, dir, index, on, refs, commits, remoteVars, sweep, serverVars>>

\* git add -A, the diff against the baseline, and validation.
Collected(r) ==
  /\ LoopFree /\ req[r].pc = "collecting" /\ dir # "gone"
  /\ index' = tree
  /\ Save([req[r].copy EXCEPT !.diff = tree, !.state = "IMPLEMENTATION_READY",
                              !.attempted = @ \/ req[r].op = "correct"])
  /\ End(r)
  /\ UNCHANGED <<dir, tree, on, refs, commits, remoteVars, serverVars>>

\* The agent fails, with or without edits.
RunnerFails(r) ==
  /\ LoopFree /\ req[r].pc \in {"editing", "collecting"}
  /\ SaveFailed(Failed(req[r].copy, req[r].op, TRUE), TRUE)
  /\ End(r)
  /\ UNCHANGED <<dir, tree, on, refs, commits, remoteVars, serverVars>>

-----------------------------------------------------------------------------
(* create_branch                                                           *)

Head == IF on = None THEN "base" ELSE refs[on]
Content(c) == IF c = "base" THEN "base" ELSE commits[c].content
Past(c) == IF c = "base" THEN {"base"} ELSE commits[c].past

CreateBranch(r, n) ==
  /\ row.state = "IMPLEMENTATION_READY" /\ row.branch = None
  /\ Begin(r, "create", "checkout", n)

\* Variant: git checkout --force.
CheckedOutByForce(r) ==
  /\ server = "up" /\ req[r].pc = "checkout" /\ dir # "gone"
  /\ tree' = "base" /\ index' = "base"
  /\ refs' = [refs EXCEPT ![req[r].name] = "base"]
  /\ on' = req[r].name
  /\ Goto(r, "add")
  /\ UNCHANGED <<row, dir, commits, remoteVars, sweep, serverVars>>

\* git checkout -B <name> <baseline>: edits on top of the baseline stay where they are, a
\* clean tree goes back to the baseline, and edits on top of another commit would be lost,
\* which git refuses.
CheckedOut(r) ==
  /\ server = "up" /\ req[r].pc = "checkout" /\ dir # "gone"
  /\ \/ Content(Head) = "base" /\ UNCHANGED <<tree, index>>
     \/ /\ Content(Head) # "base" /\ tree = Content(Head) /\ index = Content(Head)
        /\ tree' = "base" /\ index' = "base"
  /\ refs' = [refs EXCEPT ![req[r].name] = "base"]
  /\ on' = req[r].name
  /\ Goto(r, "add")
  /\ UNCHANGED <<row, dir, commits, remoteVars, sweep, serverVars>>

\* git add -A
Staged(r) ==
  /\ server = "up" /\ req[r].pc = "add" /\ dir # "gone"
  /\ index' = tree
  /\ Goto(r, "commit")
  /\ UNCHANGED <<row, dir, tree, on, refs, commits, remoteVars, sweep, serverVars>>

\* git commit, on whichever branch HEAD names by now.
Committed(r) ==
  /\ server = "up" /\ req[r].pc = "commit" /\ dir # "gone"
  /\ index # Content(Head)
  /\ commits' = [commits EXCEPT ![r] = [content |-> index, past |-> Past(Head) \cup {r}]]
  /\ refs' = [refs EXCEPT ![on] = r]
  /\ Goto(r, "rev-parse")
  /\ UNCHANGED <<row, dir, tree, index, on, remoteVars, sweep, serverVars>>

\* Nothing is staged: the request is refused, or git commit fails.
NothingToCommit(r) ==
  /\ server = "up" /\ req[r].pc = "commit" /\ index = Content(Head)
  /\ End(r)
  /\ UNCHANGED <<row, dir, gitVars, remoteVars, sweep, serverVars>>

\* git rev-parse HEAD
CommitRead(r) ==
  /\ server = "up" /\ req[r].pc = "rev-parse" /\ dir # "gone"
  /\ req' = [req EXCEPT ![r].sha = Head, ![r].pc = "created"]
  /\ UNCHANGED <<row, dir, gitVars, remoteVars, sweep, serverVars>>

BranchRecorded(r) ==
  /\ LoopFree /\ req[r].pc = "created"
  /\ Save([req[r].copy EXCEPT !.branch = req[r].name, !.sha = req[r].sha])
  /\ End(r)
  /\ UNCHANGED <<dir, gitVars, remoteVars, serverVars>>

-----------------------------------------------------------------------------
(* push_branch                                                             *)

\* A repeated push under the recorded name is answered from the row.
PushBranch(r, n) ==
  /\ row.branch # None
  /\ ~(row.pushed /\ n = row.branch)
  /\ Begin(r, "push", "ls-remote", n)

\* git ls-remote: an answer that the name is taken refuses the push; an error counts as
\* a free name.
NameTaken(r) ==
  /\ server = "up" /\ req[r].pc = "ls-remote" /\ dir # "gone"
  /\ remote[req[r].name] # None
  /\ End(r)
  /\ UNCHANGED <<row, dir, gitVars, remoteVars, sweep, serverVars>>

NameFreeOrUnknown(r) ==
  /\ server = "up" /\ req[r].pc = "ls-remote"
  /\ Goto(r, "push")
  /\ UNCHANGED <<row, dir, gitVars, remoteVars, sweep, serverVars>>

\* Variant: the local branch is pushed by its name.
BranchTip(rec) == IF refs[rec.branch] = None THEN rec.sha ELSE refs[rec.branch]

\* The source of push_branch's refspec: the recorded commit.
PushSource(rec) == rec.sha

\* git push without --force: the remote takes a new branch or a fast-forward.  The answer
\* may be lost on the way back (the command times out).
Pushed(r) ==
  LET name == req[r].name
      source == PushSource(req[r].copy)
  IN  /\ server = "up" /\ req[r].pc = "push" /\ dir # "gone"
      /\ remote[name] = None \/ remote[name] \in Past(source)
      /\ remote' = [remote EXCEPT ![name] = source]
      /\ landed' = landed \cup {<<name, source>>}
      /\ Goto(r, "pushed") \/ End(r)
      /\ UNCHANGED <<row, dir, gitVars, sweep, serverVars>>

PushRecorded(r) ==
  /\ LoopFree /\ req[r].pc = "pushed"
  /\ Save([req[r].copy EXCEPT !.branch = req[r].name, !.pushed = TRUE])
  /\ End(r)
  /\ UNCHANGED <<dir, gitVars, remoteVars, serverVars>>

\* Any git command may fail or time out; the request ends with an error and saves nothing.
GitFails(r) ==
  /\ server = "up" /\ req[r].pc \in GitSteps
  /\ End(r)
  /\ UNCHANGED <<row, dir, gitVars, remoteVars, sweep, serverVars>>

\* Somebody else creates a branch on the remote.
OthersPush(n) ==
  /\ remote[n] = None
  /\ \E c \in {"base", "foreign"} : remote' = [remote EXCEPT ![n] = c]
  /\ UNCHANGED <<row, dir, gitVars, landed, req, sweep, serverVars>>

-----------------------------------------------------------------------------
(* The retention sweep                                                     *)

Set(pc) == sweep' = [sweep EXCEPT !.pc = pc]

\* Days pass without a change to the job; no request lasts that long.
Ages ==
  /\ ~row.aged /\ \A r \in Requests : req[r].pc \in {"new", "done"}
  /\ row' = [row EXCEPT !.aged = TRUE]
  /\ UNCHANGED <<dir, gitVars, remoteVars, req, sweep, serverVars>>

\* Variant: jobs marked by an earlier sweep are done with.
NotYetMarked(rec) == rec.state \in AtRest /\ ~rec.removed

\* list_retention_candidates
IsCandidate(rec) == rec.state \in AtRest

Listed ==
  /\ Retention
  /\ server = "up" /\ sweep.pc = "idle"
  /\ IsCandidate(row)
  /\ sweep' = [pc |-> "listed", removed |-> row.removed, expired |-> row.aged, current |-> TRUE]
  /\ UNCHANGED <<row, dir, gitVars, remoteVars, req, serverVars>>

\* Variant: the update does not compare updated_at.
InAFinishedState(rec) == rec.state \in AtRest /\ ~rec.removed

\* The condition of mark_workspace_removed's update.
CanMark(rec) == rec.state \in AtRest /\ sweep.current /\ ~rec.removed

Marked ==
  /\ server = "up" /\ sweep.pc = "listed" /\ ~sweep.removed /\ sweep.expired
  /\ CanMark(row)
  /\ row' = [row EXCEPT !.removed = TRUE]
  /\ Set("deleting")
  /\ UNCHANGED <<dir, gitVars, remoteVars, req, serverVars>>

\* Too young, or changed since it was listed.
Skipped ==
  /\ server = "up" /\ sweep.pc = "listed" /\ ~sweep.removed
  /\ ~sweep.expired \/ ~CanMark(row)
  /\ sweep' = Resting
  /\ UNCHANGED <<row, dir, gitVars, remoteVars, req, serverVars>>

Revisited ==
  /\ server = "up" /\ sweep.pc = "listed" /\ sweep.removed
  /\ Set("deleting")
  /\ UNCHANGED <<row, dir, gitVars, remoteVars, req, serverVars>>

DeletesSome ==
  /\ server = "up" /\ sweep.pc = "deleting" /\ dir = "whole"
  /\ dir' = "partial" /\ tree' = "damaged"
  /\ UNCHANGED <<row, index, on, refs, commits, remoteVars, req, sweep, serverVars>>

DeletesRest ==
  /\ server = "up" /\ sweep.pc = "deleting" /\ dir # "whole"
  /\ dir' = "gone"
  /\ sweep' = Resting
  /\ UNCHANGED <<row, gitVars, remoteVars, req, serverVars>>

\* A file that cannot be deleted ends the pass; the next one tries again.
DeleteFails ==
  /\ server = "up" /\ sweep.pc = "deleting"
  /\ sweep' = Resting
  /\ UNCHANGED <<row, dir, gitVars, remoteVars, req, serverVars>>

-----------------------------------------------------------------------------
(* The process stops and starts again.                                     *)

Crash ==
  /\ server = "up" /\ crashes < MaxCrashes
  /\ server' = "down" /\ crashes' = crashes + 1
  /\ req' = [r \in Requests |-> IF req[r].pc = "new" THEN NotMade ELSE Ended]
  /\ sweep' = Resting
  /\ UNCHANGED <<row, dir, gitVars, remoteVars>>

\* recover_interrupted_jobs, then the server is up: a row at work fails as its runner
\* would have failed it, and a correction that never started keeps its attempt.
Recovered ==
  LET op == IF row.state = "CORRECTING" THEN "correct" ELSE "implement"
  IN  SaveFailed(Failed(row, op, row.started), HasBaseline(row))

Restart ==
  /\ server = "down" /\ server' = "up"
  /\ IF row.state \in AtRest THEN UNCHANGED <<row, index, sweep>> ELSE Recovered
  /\ UNCHANGED <<dir, tree, on, refs, commits, remoteVars, req, crashes>>

-----------------------------------------------------------------------------
Handler(r) ==
  \/ ImplementJob(r) \/ CorrectValidation(r)
  \/ \E n \in Names : CreateBranch(r, n) \/ PushBranch(r, n)

Work(r) ==
  \/ Enqueue(r) \/ RunnerStarts(r) \/ RunnerRefused(r)
  \/ AgentEdits(r) \/ Collected(r) \/ RunnerFails(r)
  \/ CheckedOut(r) \/ Staged(r) \/ Committed(r) \/ NothingToCommit(r)
  \/ CommitRead(r) \/ BranchRecorded(r)
  \/ NameTaken(r) \/ NameFreeOrUnknown(r) \/ Pushed(r) \/ PushRecorded(r) \/ GitFails(r)

SweepStep == Listed \/ Marked \/ Skipped \/ Revisited \/ DeletesSome \/ DeletesRest

Next ==
  \/ \E r \in Requests : Handler(r) \/ Work(r)
  \/ \E n \in Names : OthersPush(n)
  \/ Ages \/ SweepStep \/ DeleteFails
  \/ Crash \/ Restart

Spec == Init /\ [][Next]_vars

\* The sweep runs again and again while the process is up, the container restarts it, and
\* a file that cannot be deleted now can be deleted some day.
FairSpec ==
  Spec /\ WF_vars(Listed \/ Marked \/ Skipped \/ Revisited) /\ WF_vars(Restart)
       /\ SF_vars(DeletesSome) /\ SF_vars(DeletesRest)

-----------------------------------------------------------------------------
(* Properties                                                              *)

\* A job whose workspace was removed is not worked on again: every handler refuses it, and
\* a handler that read the row before the mark overwrites the mark with its own state.
RemovedStaysAtRest == row.removed => row.state \in AtRest

\* The sweep marks a job only if it is finished and unchanged for the whole retention
\* period, also when it is approved, corrected or branched between the sweep's list and
\* its mark.
MarksOnlyExpired ==
  [][~row.removed /\ row'.removed => row.aged /\ row.state \in AtRest]_vars

\* A job that says it was pushed was: the remote accepted the recorded commit under the
\* recorded name, whatever other requests did to the local branches meanwhile.
PushedIsRecorded == row.pushed => <<row.branch, row.sha>> \in landed

\* The edits of an implementation that has a diff are in the working tree or in a commit,
\* until the sweep deletes them: no order of branch requests, failures and crashes in the
\* middle of them throws them away.
WorkIsKept ==
  dir = "whole" /\ row.diff # "base" =>
    tree # "base" \/ \E r \in Requests : commits[r].content # "base"

\* A workspace that is marked as removed is deleted in the end, through deletions that
\* fail half way and crashes, unless a late save takes the mark off again.
RemovedIsDeleted == row.removed ~> (dir = "gone" \/ ~row.removed)

-----------------------------------------------------------------------------
(* What the repository says of the program and the code does not keep.     *)

\* jobs/retention.py: "Jobs in any other state are never touched."
WorkingJobsUntouched == [][dir' # dir => row.state \in AtRest]_vars

\* api/routes.py, create_branch: "Create a branch and commit the reviewed diff".
RecordedCommitIsReviewed ==
  [][row.branch = None /\ row'.branch # None => Content(row'.sha) = row'.diff]_vars

=============================================================================
