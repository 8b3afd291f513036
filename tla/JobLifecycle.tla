---------------------------- MODULE JobLifecycle ----------------------------
(***************************************************************************)
(* The life of a job: the request handlers of backend/app/api/routes.py,   *)
(* the runner coroutines of backend/app/jobs/runner.py, the agent threads  *)
(* they start, the slots of backend/app/jobs/limits.py, a crash of the     *)
(* process and the recovery pass of its next start.                        *)
(*                                                                         *)
(* One asyncio event loop runs every handler and runner, so the code       *)
(* between two awaits is one action.  Each coroutine reads its job once    *)
(* and keeps that copy (mem) until it ends; a save writes the whole copy   *)
(* back (db).  Agent threads are not on the loop: they save their          *)
(* coroutine's copy whenever the agent reports progress.                   *)
(***************************************************************************)
EXTENDS JobRecord, Naturals, Sequences, FiniteSets

CONSTANTS
  Jobs,        \* job ids
  Procs,       \* coroutines that can be alive at once: runner tasks and requests
  NoJob,       \* target of an idle coroutine
  SlotLimit,   \* MAX_CONCURRENT_AGENT_RUNS
  GitRaises,   \* whether git may fail in a way the diff helpers do not catch
  MaxRequests, \* bound on accepted requests
  MaxStops     \* bound on crashes and shutdowns of the process

ASSUME SlotLimitAssumption == SlotLimit \in Nat \ {0}
ASSUME GitRaisesAssumption == GitRaises \in BOOLEAN
ASSUME NoJobAssumption == NoJob \notin Jobs
ASSUME BoundsAssumption == MaxRequests \in Nat /\ MaxStops \in Nat

VARIABLES
  db,          \* the jobs table
  kind,        \* what each coroutine is: a runner, a request awaiting git, or idle
  target,      \* the job it works on
  pc,          \* the await it is suspended at
  mem,         \* its copy of the job
  holders,     \* runners that hold an agent slot
  queue,       \* runners waiting for one, in arrival order
  threads,     \* coroutines whose agent thread is alive
  server,      \* "serving", "stopping", "down" or "recovering"
  unfinished,  \* jobs the recovery pass still has to move
  stops,       \* crashes and shutdowns so far
  requests,    \* requests accepted so far
  implRuns,    \* history: implementation agents started, per job
  fixRuns,     \* history: corrections that got their slot, per job
  billed       \* history: agent calls whose usage came back to a live runner

loopVars == <<kind, target, pc, mem>>
slotVars == <<holders, queue>>
serverVars == <<server, unfinished, stops>>
historyVars == <<implRuns, fixRuns, billed>>
vars == <<db, loopVars, slotVars, threads, serverVars, requests, historyVars>>

Runners == {"plan", "implement", "correct"}
Requests == {"branch", "push"}

\* Await points of a runner inside its slot.
InSlot == {"fetch", "clone", "map", "baseline", "agent", "diff", "validate"}

PCs == InSlot \cup {"idle", "created", "waiting", "failing", "refused", "git", "orphaned"}

TypeOK ==
  /\ db \in [Jobs -> JobRecord]
  /\ kind \in [Procs -> Runners \cup Requests \cup {"none"}]
  /\ target \in [Procs -> Jobs \cup {NoJob}]
  /\ pc \in [Procs -> PCs]
  /\ mem \in [Procs -> JobRecord]
  /\ \A p \in Procs : /\ (pc[p] = "idle") = (kind[p] = "none")
                       /\ (pc[p] = "idle") = (target[p] = NoJob)
  /\ holders \in SUBSET Procs
  /\ queue \in Seq(Procs)
  /\ threads \in SUBSET Procs
  /\ server \in {"serving", "stopping", "down", "recovering"}
  /\ unfinished \in SUBSET Jobs
  /\ stops \in 0..MaxStops
  /\ requests \in 0..MaxRequests
  /\ implRuns \in [Jobs -> Nat]
  /\ fixRuns \in [Jobs -> Nat]
  /\ billed \in [Jobs -> SUBSET Runners]

Init ==
  /\ db = [j \in Jobs |-> NoRow]
  /\ kind = [p \in Procs |-> "none"]
  /\ target = [p \in Procs |-> NoJob]
  /\ pc = [p \in Procs |-> "idle"]
  /\ mem = [p \in Procs |-> NoRow]
  /\ holders = {}
  /\ queue = <<>>
  /\ threads = {}
  /\ server = "serving"
  /\ unfinished = {}
  /\ stops = 0
  /\ requests = 0
  /\ implRuns = [j \in Jobs |-> 0]
  /\ fixRuns = [j \in Jobs |-> 0]
  /\ billed = [j \in Jobs |-> {}]

-----------------------------------------------------------------------------
(* What a coroutine does with its copy.                                    *)

\* Suspend at `next` with copy `rec`, without saving it.
Suspend(p, rec, next) ==
  /\ mem' = [mem EXCEPT ![p] = rec]
  /\ pc' = [pc EXCEPT ![p] = next]
  /\ UNCHANGED <<kind, target>>

\* JobStore.save: the whole row is replaced by this copy, whoever wrote it last.
Save(p, rec) == db' = [db EXCEPT ![target[p]] = rec]

Continue(p, rec, next) == Save(p, rec) /\ Suspend(p, rec, next)

GoIdle(p) ==
  /\ kind' = [kind EXCEPT ![p] = "none"]
  /\ target' = [target EXCEPT ![p] = NoJob]
  /\ pc' = [pc EXCEPT ![p] = "idle"]
  /\ mem' = [mem EXCEPT ![p] = NoRow]

FailureState(k) == IF k = "plan" THEN "FAILED" ELSE "IMPLEMENTATION_FAILED"

\* The last save of a runner and its finally clause.  An agent thread that outlives
\* the runner keeps the runner's copy.
Finish(p, rec) ==
  LET final == Settled(rec, FailureState(kind[p]))
  IN  /\ Save(p, final)
      /\ IF p \in threads' THEN Suspend(p, final, "orphaned") ELSE GoIdle(p)

\* A new coroutine for job j.
Spawn(p, k, j, rec, at) ==
  /\ kind' = [kind EXCEPT ![p] = k]
  /\ target' = [target EXCEPT ![p] = j]
  /\ pc' = [pc EXCEPT ![p] = at]
  /\ mem' = [mem EXCEPT ![p] = rec]

Bill(p) == billed' = [billed EXCEPT ![target[p]] = @ \cup {kind[p]}]

\* Variant: a path out of the slot that does not give it back.
ReleaseLeaks(p) == UNCHANGED slotVars

Release(p) == holders' = holders \ {p} /\ UNCHANGED queue

-----------------------------------------------------------------------------
(* Requests that start a runner.  Each reads, checks, saves and creates    *)
(* the task with no await in between; a refused request changes nothing.   *)

Accepted(p) ==
  /\ server = "serving" /\ pc[p] = "idle"
  /\ requests < MaxRequests
  /\ requests' = requests + 1

CreateJob(p, j) ==
  /\ Accepted(p)
  /\ db[j].state = "ABSENT"
  /\ db' = [db EXCEPT ![j] = NewJob]
  /\ Spawn(p, "plan", j, NoRow, "created")
  /\ UNCHANGED <<slotVars, threads, serverVars, historyVars>>

ImplementJob(p, j) ==
  /\ Accepted(p)
  /\ CanImplement(db[j])
  /\ db' = [db EXCEPT ![j] = Approved(@)]
  /\ Spawn(p, "implement", j, NoRow, "created")
  /\ UNCHANGED <<slotVars, threads, serverVars, historyVars>>

CorrectValidation(p, j) ==
  /\ Accepted(p)
  /\ CanCorrect(db[j])
  /\ db' = [db EXCEPT ![j] = CorrectionRequested(@)]
  /\ Spawn(p, "correct", j, NoRow, "created")
  /\ UNCHANGED <<slotVars, threads, serverVars, historyVars>>

-----------------------------------------------------------------------------
(* Requests that await git with their copy in hand.                        *)

CreateBranch(p, j) ==
  /\ Accepted(p)
  /\ CanCreateBranch(db[j])
  /\ Spawn(p, "branch", j, db[j], "git")
  /\ UNCHANGED <<db, slotVars, threads, serverVars, historyVars>>

PushBranch(p, j) ==
  /\ Accepted(p)
  /\ CanPush(db[j])
  /\ Spawn(p, "push", j, db[j], "git")
  /\ UNCHANGED <<db, slotVars, threads, serverVars, historyVars>>

\* Git succeeded: the copy read before the await is saved with the outcome.
GitDone(p) ==
  /\ pc[p] = "git"
  /\ Save(p, IF kind[p] = "branch"
               THEN [mem[p] EXCEPT !.branch = TRUE]
               ELSE [mem[p] EXCEPT !.pushed = TRUE])
  /\ GoIdle(p)
  /\ UNCHANGED <<slotVars, threads, serverVars, requests, historyVars>>

\* Git failed: the request ends with an error and saves nothing.
GitFailed(p) ==
  /\ pc[p] = "git"
  /\ GoIdle(p)
  /\ UNCHANGED <<db, slotVars, threads, serverVars, requests, historyVars>>

-----------------------------------------------------------------------------
(* A runner gets its slot: the block up to its first await.  A run refused *)
(* here gives the slot back in the same block.                             *)

Hold(p) == holders' = holders \cup {p}

BeginPlan(p, rec) ==
  /\ UNCHANGED <<threads, implRuns, fixRuns>>
  /\ \/ Hold(p) /\ Continue(p, Advance(rec, "FETCHING_TICKET"), "fetch")
     \/ UNCHANGED holders /\ Finish(p, Fail(rec, "FAILED"))  \* over budget

BeginImplement(p, rec) ==
  /\ \/ /\ rec.state = "IMPLEMENTATION_QUEUED" /\ rec.plan
        /\ Hold(p) /\ Suspend(p, rec, "baseline")
     \/ UNCHANGED holders /\ Suspend(p, rec, "failing")  \* budget, state or workspace
  /\ UNCHANGED <<db, threads, implRuns, fixRuns>>

BeginCorrect(p, rec) ==
  LET started == [rec EXCEPT !.fixStarted = TRUE]
      Started == fixRuns' = [fixRuns EXCEPT ![target[p]] = @ + 1]
  IN  /\ \/ /\ UNCHANGED <<db, holders, threads, fixRuns>>  \* over budget
            /\ Suspend(p, rec, "refused")
         \/ /\ rec.state # "CORRECTING"
            /\ UNCHANGED <<db, holders, threads, fixRuns>>
            /\ Suspend(p, rec, "failing")
         \/ /\ rec.state = "CORRECTING"
            /\ UNCHANGED <<holders, threads>>               \* workspace missing
            /\ Continue(p, started, "failing") /\ Started
         \/ /\ rec.state = "CORRECTING"
            /\ Hold(p) /\ threads' = threads \cup {p}
            /\ Continue(p, started, "agent") /\ Started
      /\ UNCHANGED implRuns

Begin(p, rec) ==
  /\ \/ kind[p] = "plan" /\ BeginPlan(p, rec)
     \/ kind[p] = "implement" /\ BeginImplement(p, rec)
     \/ kind[p] = "correct" /\ BeginCorrect(p, rec)
  /\ UNCHANGED <<serverVars, requests, billed>>

SlotFree == Cardinality(holders) < SlotLimit

\* The task's first turn on the loop: it reads its job and asks for a slot.
RunnerStart(p) ==
  /\ pc[p] = "created"
  /\ SlotFree /\ queue = <<>>
  /\ Begin(p, db[target[p]])
  /\ UNCHANGED queue

RunnerQueues(p) ==
  /\ pc[p] = "created"
  /\ ~(SlotFree /\ queue = <<>>)
  /\ queue' = Append(queue, p)
  /\ Suspend(p, db[target[p]], "waiting")
  /\ UNCHANGED <<db, holders, threads, serverVars, requests, historyVars>>

\* The semaphore wakes the waiter at the head of the queue, which goes on with the
\* copy it read before it waited.
RunnerWoken(p) ==
  /\ pc[p] = "waiting"
  /\ SlotFree /\ queue # <<>> /\ Head(queue) = p
  /\ queue' = Tail(queue)
  /\ Begin(p, mem[p])

-----------------------------------------------------------------------------
(* run_job                                                                 *)

StageAfter(at) ==
  CASE at = "fetch" -> [state |-> "CLONING_REPO", pc |-> "clone"]
    [] at = "clone" -> [state |-> "MAPPING_REPO", pc |-> "map"]
    [] OTHER        -> [state |-> "PLANNING", pc |-> "agent"]

PlanStageDone(p) ==
  LET next == StageAfter(pc[p])
  IN  /\ pc[p] \in {"fetch", "clone", "map"}
      /\ Continue(p, Advance(mem[p], next.state), next.pc)
      /\ threads' = IF next.pc = "agent" THEN threads \cup {p} ELSE threads
      /\ UNCHANGED <<slotVars, serverVars, requests, historyVars>>

PlanStageFailed(p) ==
  /\ pc[p] \in {"fetch", "clone", "map"}
  /\ UNCHANGED threads
  /\ Release(p)
  /\ Finish(p, Fail(mem[p], "FAILED"))
  /\ UNCHANGED <<serverVars, requests, historyVars>>

\* The harness returned a valid plan.
PlanReturned(p) ==
  /\ kind[p] = "plan" /\ pc[p] = "agent"
  /\ threads' = threads \ {p}
  /\ Bill(p)
  /\ Release(p)
  /\ Finish(p, [mem[p] EXCEPT !.plan = TRUE, !.planCost = TRUE, !.state = "PLAN_READY"])
  /\ UNCHANGED <<serverVars, requests, implRuns, fixRuns>>

\* The harness returned a failure, with its usage.
PlanFailedWithUsage(p) ==
  /\ kind[p] = "plan" /\ pc[p] = "agent"
  /\ threads' = threads \ {p}
  /\ Bill(p)
  /\ Release(p)
  /\ Finish(p, Fail([mem[p] EXCEPT !.planCost = TRUE], "FAILED"))
  /\ UNCHANGED <<serverVars, requests, implRuns, fixRuns>>

\* No result: a transport error ends the agent thread; a timeout abandons it.
PlanFailedNoUsage(p) ==
  /\ kind[p] = "plan" /\ pc[p] = "agent"
  /\ threads' \in {threads, threads \ {p}}
  /\ Release(p)
  /\ Finish(p, Fail(mem[p], "FAILED"))
  /\ UNCHANGED <<serverVars, requests, historyVars>>

-----------------------------------------------------------------------------
(* run_implementation and run_validation_correction                        *)

\* The pre-implementation commit is read and saved and the agent starts.
ImplementationStarted(p) ==
  /\ pc[p] = "baseline"
  /\ Continue(p, Advance([mem[p] EXCEPT !.baseline = TRUE], "IMPLEMENTING"), "agent")
  /\ threads' = threads \cup {p}
  /\ implRuns' = [implRuns EXCEPT ![target[p]] = @ + 1]
  /\ UNCHANGED <<slotVars, serverVars, requests, fixRuns, billed>>

\* Variant: the usage of an implementation is not kept.
UsageOfFixesOnly(p) ==
  IF kind[p] = "implement" THEN mem[p] ELSE [mem[p] EXCEPT !.fixCost = TRUE]

WithUsage(p) ==
  IF kind[p] = "implement" THEN [mem[p] EXCEPT !.implCost = TRUE]
                           ELSE [mem[p] EXCEPT !.fixCost = TRUE]

\* The agent finished: its usage is saved at once.
EditsReturned(p) ==
  /\ kind[p] \in {"implement", "correct"} /\ pc[p] = "agent"
  /\ threads' = threads \ {p}
  /\ Bill(p)
  /\ IF kind[p] = "implement"
       THEN Continue(p, WithUsage(p), "diff")
       ELSE Continue(p, Advance(WithUsage(p), "REVALIDATING"), "validate")
  /\ UNCHANGED <<slotVars, serverVars, requests, implRuns, fixRuns>>

\* A typed failure with usage: kept in the copy, saved when the failure is recorded.
EditsFailedWithUsage(p) ==
  /\ kind[p] \in {"implement", "correct"} /\ pc[p] = "agent"
  /\ threads' = threads \ {p}
  /\ Bill(p)
  /\ Release(p)
  /\ Suspend(p, WithUsage(p), "failing")
  /\ UNCHANGED <<db, serverVars, requests, implRuns, fixRuns>>

EditsFailedNoUsage(p) ==
  /\ kind[p] \in {"implement", "correct"} /\ pc[p] = "agent"
  /\ threads' \in {threads, threads \ {p}}
  /\ Release(p)
  /\ Suspend(p, mem[p], "failing")
  /\ UNCHANGED <<db, serverVars, requests, historyVars>>

\* The diff is collected and agrees with what the agent claims.
DiffCollected(p) ==
  /\ pc[p] = "diff"
  /\ Continue(p, Advance([mem[p] EXCEPT !.result = TRUE], "VALIDATING"), "validate")
  /\ UNCHANGED <<slotVars, threads, serverVars, requests, historyVars>>

\* Git raises, the agent claims changes the diff does not show, or validation raises.
StepFailed(p) ==
  /\ pc[p] \in {"baseline", "diff", "validate"}
  /\ Release(p)
  /\ Suspend(p, mem[p], "failing")
  /\ UNCHANGED <<db, threads, serverVars, requests, historyVars>>

Validated(p) ==
  /\ pc[p] = "validate"
  /\ UNCHANGED threads
  /\ Release(p)
  /\ \E failures \in BOOLEAN :
       Finish(p, [mem[p] EXCEPT !.correctable = failures,
                                !.attempted = @ \/ (kind[p] = "correct"),
                                !.state = "IMPLEMENTATION_READY"])
  /\ UNCHANGED <<serverVars, requests, historyVars>>

\* The except clauses, after the best-effort diff refresh they await.
FailureRecorded(p) ==
  /\ pc[p] \in {"failing", "refused"}
  /\ UNCHANGED threads
  /\ Finish(p, IF kind[p] = "implement"
                 THEN Fail(mem[p], "IMPLEMENTATION_FAILED")
                 ELSE RecordCorrectionFailure(mem[p], pc[p] = "failing"))
  /\ UNCHANGED <<slotVars, serverVars, requests, historyVars>>

\* The refresh itself raises (a timeout or an OS error): the except clause is left
\* without a save and the finally clause settles the row as it finds it.
RefreshRaised(p) ==
  /\ GitRaises
  /\ pc[p] \in {"failing", "refused"} /\ mem[p].baseline
  /\ Save(p, Settled(db[target[p]], "IMPLEMENTATION_FAILED"))
  /\ IF p \in threads THEN Suspend(p, mem[p], "orphaned") ELSE GoIdle(p)
  /\ UNCHANGED <<slotVars, threads, serverVars, requests, historyVars>>

-----------------------------------------------------------------------------
(* Agent threads                                                           *)

\* The progress sink: every reported tool call saves the runner's copy.
Report(p) ==
  /\ p \in threads
  /\ Save(p, mem[p])
  /\ UNCHANGED <<loopVars, slotVars, threads, serverVars, requests, historyVars>>

\* A thread whose runner stopped waiting for it ends.
OrphanEnds(p) ==
  /\ p \in threads /\ pc[p] # "agent"
  /\ threads' = threads \ {p}
  /\ IF pc[p] = "orphaned" THEN GoIdle(p) ELSE UNCHANGED loopVars
  /\ UNCHANGED <<db, slotVars, serverVars, requests, historyVars>>

-----------------------------------------------------------------------------
(* The process stops, restarts and recovers.                               *)

\* Usage that only a stopped runner held is gone.
ForgetUnsavedUsage ==
  billed' = [j \in Jobs |->
    {k \in billed[j] : \/ k = "plan" /\ db[j].planCost
                       \/ k = "implement" /\ db[j].implCost
                       \/ k = "correct" /\ db[j].fixCost}]

\* Nothing of the process survives.
Die ==
  /\ server' = "down"
  /\ kind' = [p \in Procs |-> "none"]
  /\ target' = [p \in Procs |-> NoJob]
  /\ pc' = [p \in Procs |-> "idle"]
  /\ mem' = [p \in Procs |-> NoRow]
  /\ holders' = {} /\ queue' = <<>> /\ threads' = {}
  /\ unfinished' = {}
  /\ ForgetUnsavedUsage
  /\ UNCHANGED <<db, requests, implRuns, fixRuns>>

Crash ==
  /\ server \in {"serving", "recovering"} /\ stops < MaxStops
  /\ stops' = stops + 1
  /\ Die

\* Runners that are inside their try block.
Cancellable(j) ==
  {p \in Procs : target[p] = j /\ kind[p] \in Runners /\ pc[p] \notin {"created", "orphaned"}}

\* A shutdown signal: the server waits for the requests under way, then the loop cancels
\* every task.  A cancelled runner skips its except clauses (CancelledError is not an
\* Exception) and runs its finally clause; an agent thread goes on with the runner's copy.
Shutdown ==
  /\ server = "serving" /\ stops < MaxStops
  /\ \A p \in Procs : kind[p] \notin Requests
  /\ server' = "stopping"
  /\ stops' = stops + 1
  /\ db' = [j \in Jobs |->
       IF Cancellable(j) = {} THEN db[j]
       ELSE Settled(db[j], IF \E p \in Cancellable(j) : kind[p] = "plan"
                             THEN "FAILED" ELSE "IMPLEMENTATION_FAILED")]
  /\ kind' = [p \in Procs |-> IF p \in threads THEN kind[p] ELSE "none"]
  /\ target' = [p \in Procs |-> IF p \in threads THEN target[p] ELSE NoJob]
  /\ pc' = [p \in Procs |-> IF p \in threads THEN "orphaned" ELSE "idle"]
  /\ mem' = [p \in Procs |-> IF p \in threads THEN mem[p] ELSE NoRow]
  /\ holders' = {} /\ queue' = <<>>
  /\ ForgetUnsavedUsage
  /\ UNCHANGED <<threads, unfinished, requests, implRuns, fixRuns>>

\* The process exits once its agent threads have ended, or is killed before.
Exit == server = "stopping" /\ Die /\ UNCHANGED stops

Unfinished(rec) == rec.state \notin TerminalStates \cup {"ABSENT"}

Restart ==
  /\ server = "down"
  /\ server' = "recovering"
  /\ unfinished' = {j \in Jobs : Unfinished(db[j])}
  /\ UNCHANGED <<db, loopVars, slotVars, threads, stops, requests, historyVars>>

RecoverJob(j) ==
  /\ server = "recovering" /\ j \in unfinished
  /\ db' = [db EXCEPT ![j] = Recovered(@)]
  /\ unfinished' = unfinished \ {j}
  /\ UNCHANGED <<loopVars, slotVars, threads, server, stops, requests, historyVars>>

\* The refresh of the job's diff raises: the job is logged and skipped.
RecoverySkips(j) ==
  /\ GitRaises
  /\ server = "recovering" /\ j \in unfinished
  /\ db[j].state \in ImplementationStates \cup CorrectionStates /\ db[j].baseline
  /\ unfinished' = unfinished \ {j}
  /\ UNCHANGED <<db, loopVars, slotVars, threads, server, stops, requests, historyVars>>

Serve ==
  /\ server = "recovering" /\ unfinished = {}
  /\ server' = "serving"
  /\ UNCHANGED <<db, loopVars, slotVars, threads, unfinished, stops, requests, historyVars>>

-----------------------------------------------------------------------------
\* Requests a user may make; none is obliged to.
Request(p, j) ==
  \/ CreateJob(p, j) \/ ImplementJob(p, j) \/ CorrectValidation(p, j)
  \/ CreateBranch(p, j) \/ PushBranch(p, j)

\* Steps of a coroutine that is under way.
Step(p) ==
  \/ GitDone(p) \/ GitFailed(p)
  \/ RunnerStart(p) \/ RunnerQueues(p) \/ RunnerWoken(p)
  \/ PlanStageDone(p) \/ PlanStageFailed(p)
  \/ PlanReturned(p) \/ PlanFailedWithUsage(p) \/ PlanFailedNoUsage(p)
  \/ ImplementationStarted(p) \/ EditsReturned(p)
  \/ EditsFailedWithUsage(p) \/ EditsFailedNoUsage(p)
  \/ DiffCollected(p) \/ StepFailed(p) \/ Validated(p)
  \/ FailureRecorded(p) \/ RefreshRaised(p)

Thread(p) == Report(p) \/ OrphanEnds(p)

Recovery == Exit \/ Restart \/ (\E j \in Jobs : RecoverJob(j) \/ RecoverySkips(j)) \/ Serve

Next ==
  \/ \E p \in Procs, j \in Jobs : Request(p, j)
  \/ \E p \in Procs : Step(p) \/ Thread(p)
  \/ Crash \/ Shutdown
  \/ Recovery

Spec == Init /\ [][Next]_vars

\* The loop runs every ready coroutine, every awaited step ends (each has a timeout or
\* runs local code), and the container restarts a dead process.  Users and abandoned
\* agent threads promise nothing.
Fairness == (\A p \in Procs : WF_vars(Step(p))) /\ WF_vars(Recovery)

FairSpec == Spec /\ Fairness

-----------------------------------------------------------------------------
(* Properties                                                              *)

\* The agent-slot semaphore loses no slot and grants none twice: the holders are exactly
\* the runners suspended inside `async with agent_slot`, on every path out of it, and
\* the waiters are exactly the queue.  An agent executes without a slot only once its
\* runner has given it up (a timeout or a stop), and nothing else exceeds SlotLimit.
SlotsConserved ==
  /\ holders = {p \in Procs : pc[p] \in InSlot}
  /\ {queue[i] : i \in 1..Len(queue)} = {p \in Procs : pc[p] = "waiting"}
  /\ Cardinality(holders) <= SlotLimit
  /\ \A p \in threads : p \in holders \/ pc[p] \in {"failing", "orphaned"}

\* An approved plan is implemented by at most one agent run in the job's whole life,
\* whatever stale copies are saved later and however often the process restarts
\* (implement_job moves PLAN_READY on in the block that reads it).
ImplementedAtMostOnce == \A j \in Jobs : implRuns[j] <= 1

\* A runner of kind k is under way for job j.
Running(j, k) ==
  \E p \in Procs : target[p] = j /\ kind[p] = k /\ pc[p] # "orphaned"

\* The cost of a planning or implementation run whose usage came back to its runner is
\* on the row once that runner is gone, and no stale copy takes it off again (Job.usage,
\* Job.implementation_usage).
CostRecorded ==
  \A j \in Jobs :
    /\ "plan" \in billed[j] /\ ~Running(j, "plan") => db[j].planCost
    /\ "implement" \in billed[j] /\ ~Running(j, "implement") => db[j].implCost

\* Whoever wrote the row last, a job offered for review or correction has the result, the
\* cost and the baseline commit of its implementation: its diff can be recomputed.
ReviewableHasImplementation ==
  \A j \in Jobs :
    db[j].state \in CorrectionStates \cup {"IMPLEMENTATION_READY"} =>
      db[j].plan /\ db[j].result /\ db[j].baseline /\ db[j].implCost

\* A row that says a runner is working on the job has one, unless a push has been saved
\* on it: only push_branch, which has no condition on the state, can bring back a state
\* whose runner has ended.
StuckOnlyAfterPush ==
  server = "serving" =>
    \A j \in Jobs :
      Unfinished(db[j]) => db[j].pushed \/ \E k \in Runners : Running(j, k)

\* An implementation that reached review is not lost: whatever its corrections, branches
\* and pushes do, and however the process dies, the job is never failed again, except by
\* the finally clause of a correction cancelled by a shutdown.
ReviewIsKept ==
  [][server' # "stopping" => \A j \in Jobs :
       db[j].state \in CorrectionStates \cup {"IMPLEMENTATION_READY"} =>
         db'[j].state \in CorrectionStates \cup {"IMPLEMENTATION_READY"}]_vars

\* The process never serves a request while a row still claims work that died with the
\* previous process, also when it dies again during recovery.
ServesOnlyRecovered ==
  [][server = "recovering" /\ server' = "serving" =>
       \A j \in Jobs : ~Unfinished(db'[j])]_vars

\* Recovery spends a job's correction attempt only if a correction got its slot: one that
\* was still waiting keeps the attempt (implementation_correction_started_at).
RecoveryKeepsUnusedAttempt ==
  [][server = "recovering" =>
       \A j \in Jobs : ~db[j].attempted /\ db'[j].attempted => fixRuns[j] > 0]_vars

\* A job without a branch always comes to rest: planning, implementing and correcting
\* end on every path, through waits for a slot, agent timeouts, overlapping requests
\* and restarts.
EndsUnlessBranched ==
  \A j \in Jobs : Unfinished(db[j]) /\ ~db[j].branch ~> ~Unfinished(db[j])

-----------------------------------------------------------------------------
(* Why a plan is implemented once: an invariant that every action keeps.   *)

BeforeApproval == PlanStates \cup {"ABSENT", "PLAN_READY", "FAILED"}
AfterApproval == JobStates \ BeforeApproval

\* The rows a coroutine of kind k may find and leave: planning never sees an approved job,
\* and nothing else sees one that is not approved.
Fits(k, rec) ==
  IF k = "plan" THEN rec.state \in PlanStates \cup {"FAILED"} /\ ~rec.branch
                ELSE rec.state \in AfterApproval

\* Rows and copies, stale ones included, are on the coroutine's side of the approval.
CopiesFit ==
  \A p \in Procs : pc[p] # "idle" =>
    /\ Fits(kind[p], db[target[p]])
    /\ pc[p] # "created" => Fits(kind[p], mem[p])

\* A job has one planning and one implementing coroutine at most.
SoleRunner ==
  \A p, q \in Procs :
    p # q /\ kind[p] = kind[q] /\ kind[p] \in {"plan", "implement"} => target[p] # target[q]

\* Before the approval there is no branch and no implementation agent has run, and after
\* it none has before the runner starts one.
NotYetImplemented ==
  /\ \A j \in Jobs : db[j].state \in BeforeApproval => implRuns[j] = 0 /\ ~db[j].branch
  /\ \A p \in Procs :
       kind[p] = "implement" /\ pc[p] \in {"created", "waiting", "baseline"} =>
         implRuns[target[p]] = 0

\* A dead process has no coroutines, and recovery only touches jobs it left in flight.
RestartIsClean ==
  /\ server \in {"down", "recovering"} => \A p \in Procs : pc[p] = "idle"
  /\ \A j \in unfinished : server = "recovering" /\ Unfinished(db[j])

\* Rows, copies, runners and recovery agree on which side of its approval a job is.
ApprovalInv ==
  /\ CopiesFit
  /\ SoleRunner
  /\ NotYetImplemented
  /\ RestartIsClean
  /\ ImplementedAtMostOnce

-----------------------------------------------------------------------------
(* The job as its user sees it.                                            *)

StageOf(state) ==
  CASE state = "ABSENT" -> "none"
    [] state \in PlanStates -> "planning"
    [] state = "PLAN_READY" -> "planned"
    [] state \in ImplementationStates -> "implementing"
    [] state = "IMPLEMENTATION_READY" -> "review"
    [] state \in CorrectionStates -> "correcting"
    [] OTHER -> "failed"

\* Agents whose reports can still replace the row a shutdown settled.
Lingering(j) ==
  {p \in threads : target[p] = j /\ mem[p].state \notin {"FAILED", "IMPLEMENTATION_FAILED"}}

\* While the process shuts down, a job whose agent lingers has not come to rest; if it has
\* been in review it may rest there or in a failure.
stageOfJob ==
  [j \in Jobs |->
    LET copies == {StageOf(mem[p].state) : p \in Lingering(j)}
    IN  IF server # "stopping" \/ copies = {} THEN StageOf(db[j].state)
        ELSE IF "planning" \in copies THEN "planning"
        ELSE IF "implementing" \in copies THEN "implementing" ELSE "correcting"]

Stage == INSTANCE JobStages WITH stage <- stageOfJob

\* The runners, their stale copies, late reports and the recovery pass together move every
\* job only along the diagram of jobs/models.py.
FollowsStages == Stage!Spec

-----------------------------------------------------------------------------
(* What the repository says of the program and the code does not keep.     *)

\* jobs/models.py: "Every job ends in a terminal state."
EveryJobEnds == \A j \in Jobs : Unfinished(db[j]) ~> ~Unfinished(db[j])

\* jobs/models.py: "A validation-failure correction is capped at one attempt per job".
CorrectedAtMostOnce == \A j \in Jobs : fixRuns[j] <= 1

\* jobs/limits.py: AgentSlots "caps how many agent-backed runs [...] execute at once".
AgentsWithinSlots == Cardinality(threads) <= SlotLimit

\* jobs/runner.py, _record_correction_failure: "whether it succeeds, partially succeeds,
\* or the agent call itself fails, the job always lands back on IMPLEMENTATION_READY".
CorrectionLandsReady ==
  [][\A j \in Jobs : db[j].state \in CorrectionStates =>
       db'[j].state \notin {"FAILED", "IMPLEMENTATION_FAILED"}]_vars

\* jobs/models.py, implementation_correction_usage: "recorded whether it succeeds or fails".
CorrectionCostRecorded ==
  \A j \in Jobs : "correct" \in billed[j] /\ ~Running(j, "correct") => db[j].fixCost

=============================================================================
