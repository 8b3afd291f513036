------------------------------ MODULE JobRecord ------------------------------
(***************************************************************************)
(* The job record that backend/app/jobs keeps as one JSON document per row *)
(* of the jobs table, and the operations that compute a new record from an *)
(* old one.  A record is always written whole (JobStore.save), so every    *)
(* operator here maps a record to a record.                                *)
(*                                                                         *)
(* Payloads (plan text, diffs, messages, timestamps) are reduced to        *)
(* whether they are present.                                               *)
(***************************************************************************)

\* Job.state.  "ABSENT" stands for an id with no row in the table.
PlanStates == {"QUEUED", "FETCHING_TICKET", "CLONING_REPO", "MAPPING_REPO", "PLANNING"}

ImplementationStates == {"IMPLEMENTATION_QUEUED", "IMPLEMENTING", "VALIDATING"}

CorrectionStates == {"CORRECTING", "REVALIDATING"}

TerminalStates ==
  {"PLAN_READY", "IMPLEMENTATION_READY", "IMPLEMENTATION_FAILED", "FAILED"}

JobStates == PlanStates \cup ImplementationStates \cup CorrectionStates \cup TerminalStates

JobRecord ==
  [ state       : JobStates \cup {"ABSENT"},
    plan        : BOOLEAN,   \* plan is not None
    planCost    : BOOLEAN,   \* usage is recorded
    implCost    : BOOLEAN,   \* implementation_usage is recorded
    result      : BOOLEAN,   \* implementation_result is not None
    baseline    : BOOLEAN,   \* implementation_baseline_commit_sha is not None
    correctable : BOOLEAN,   \* correctable_failures(validation_results) is not empty
    fixStarted  : BOOLEAN,   \* implementation_correction_started_at is not None
    attempted   : BOOLEAN,   \* implementation_correction_attempted
    fixCost     : BOOLEAN,   \* implementation_correction_usage is recorded
    branch      : BOOLEAN,   \* branch_name is not None
    pushed      : BOOLEAN ]  \* branch_pushed_at is not None

NoRow ==
  [ state |-> "ABSENT", plan |-> FALSE, planCost |-> FALSE, implCost |-> FALSE,
    result |-> FALSE, baseline |-> FALSE, correctable |-> FALSE,
    fixStarted |-> FALSE, attempted |-> FALSE, fixCost |-> FALSE,
    branch |-> FALSE, pushed |-> FALSE ]

\* Job.new: a fresh record waits for a slot in QUEUED.
NewJob == [NoRow EXCEPT !.state = "QUEUED"]

IsTerminal(rec) == rec.state \in TerminalStates

\* _advance: the state a runner step enters, everything else unchanged.
Advance(rec, s) == [rec EXCEPT !.state = s]

\* _fail: the error names the stage that failed; the record ends in failureState.
Fail(rec, failureState) == [rec EXCEPT !.state = failureState]

\* Variant: a failed correction fails the job.
CorrectionFailsJob(rec, attemptUsed) ==
  [Fail(rec, "IMPLEMENTATION_FAILED") EXCEPT !.attempted = @ \/ attemptUsed]

\* _record_correction_failure: back to IMPLEMENTATION_READY; the one attempt is spent
\* unless the agent never ran.
RecordCorrectionFailure(rec, attemptUsed) ==
  [rec EXCEPT !.state = "IMPLEMENTATION_READY", !.attempted = @ \/ attemptUsed]

\* The finally clause of every runner: whatever happened, the row it leaves behind is
\* terminal.
Settled(rec, failureState) ==
  IF IsTerminal(rec) THEN rec ELSE Fail(rec, failureState)

\* implement_job's edit of the record: the previous run's artifacts are cleared.
Approved(rec) ==
  [rec EXCEPT !.state = "IMPLEMENTATION_QUEUED",
              !.implCost = FALSE, !.result = FALSE, !.correctable = FALSE]

\* Variant: the correction counts as started once it is requested.
RequestedAsStarted(rec) ==
  [rec EXCEPT !.state = "CORRECTING", !.fixStarted = TRUE]

\* correct_validation's edit of the record.
CorrectionRequested(rec) ==
  [rec EXCEPT !.state = "CORRECTING", !.fixStarted = FALSE]

\* Variants of recovery: a state of its own, any implementation offered for review,
\* the job started over, the job reported but not moved.
RecoveredToNewState(rec) == Fail(rec, "INTERRUPTED")

RecoversIntoReview(rec) ==
  IF rec.state \in PlanStates THEN Fail(rec, "FAILED") ELSE RecordCorrectionFailure(rec, FALSE)

RequeuedOnRestart(rec) == [NewJob EXCEPT !.plan = rec.plan]

RecoversInPlace(rec) == rec

\* recover_interrupted_jobs: where a job lands that a dead process left in flight.
Recovered(rec) ==
  CASE rec.state \in CorrectionStates -> RecordCorrectionFailure(rec, rec.fixStarted)
    [] rec.state \in ImplementationStates -> Fail(rec, "IMPLEMENTATION_FAILED")
    [] OTHER -> Fail(rec, "FAILED")

\* Variant: a plan is all it takes.
CanImplementPlanned(rec) == rec.plan

\* implement_job's conditions on the record.
CanImplement(rec) == rec.state = "PLAN_READY" /\ rec.plan

\* correct_validation's conditions on the record.
CanCorrect(rec) ==
  rec.state = "IMPLEMENTATION_READY" /\ ~rec.attempted /\ rec.correctable

\* Variant: like push_branch, in any state.
CanBranchAnyState(rec) == rec.result /\ ~rec.branch

\* create_branch's conditions on the record.
CanCreateBranch(rec) == rec.state = "IMPLEMENTATION_READY" /\ ~rec.branch

\* push_branch's conditions: a branch, whatever the state; a branch already pushed
\* under the same name is reported again without touching git.
CanPush(rec) == rec.branch

=============================================================================
