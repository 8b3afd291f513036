------------------------ MODULE JobLifecycle_proofs ------------------------
(***************************************************************************)
(* Its types, its slots and the approval of its plans, for any number of   *)
(* jobs, coroutines, slots, requests and restarts.                         *)
(***************************************************************************)
EXTENDS JobLifecycle, FiniteSetTheorems, TLAPS

-----------------------------------------------------------------------------
(* The record operations keep the record's type.                           *)

LEMMA NewJobType == NewJob \in JobRecord /\ NoRow \in JobRecord
BY DEF NewJob, NoRow, JobRecord, JobStates, PlanStates

LEMMA StateType ==
  ASSUME NEW rec \in JobRecord, NEW s \in JobStates
  PROVE  Advance(rec, s) \in JobRecord /\ Fail(rec, s) \in JobRecord /\ Settled(rec, s) \in JobRecord
BY DEF Advance, Fail, Settled, JobRecord

LEMMA EditType ==
  ASSUME NEW rec \in JobRecord, NEW b \in BOOLEAN
  PROVE  /\ RecordCorrectionFailure(rec, b) \in JobRecord
         /\ Approved(rec) \in JobRecord
         /\ CorrectionRequested(rec) \in JobRecord
BY DEF RecordCorrectionFailure, Approved, CorrectionRequested, JobRecord, JobStates,
       TerminalStates, ImplementationStates, CorrectionStates

LEMMA RecoveredType == ASSUME NEW rec \in JobRecord PROVE Recovered(rec) \in JobRecord
<1>1. /\ Fail(rec, "FAILED") \in JobRecord
      /\ Fail(rec, "IMPLEMENTATION_FAILED") \in JobRecord
      /\ RecordCorrectionFailure(rec, rec.fixStarted) \in JobRecord
  <2>1. rec.fixStarted \in BOOLEAN  BY DEF JobRecord
  <2>2. {"FAILED", "IMPLEMENTATION_FAILED"} \subseteq JobStates  BY DEF JobStates, TerminalStates
  <2> QED BY <2>1, <2>2, StateType, EditType
<1> QED BY <1>1 DEF Recovered
-----------------------------------------------------------------------------
(* What a coroutine does with its copy keeps the type of the loop's state. *)

LoopTypeOK ==
  /\ kind \in [Procs -> Runners \cup Requests \cup {"none"}]
  /\ target \in [Procs -> Jobs \cup {NoJob}]
  /\ pc \in [Procs -> PCs]
  /\ mem \in [Procs -> JobRecord]
  /\ \A p \in Procs : /\ (pc[p] = "idle") = (kind[p] = "none")
                       /\ (pc[p] = "idle") = (target[p] = NoJob)

LEMMA ActiveTarget ==
  ASSUME TypeOK, NEW p \in Procs, pc[p] # "idle"
  PROVE  /\ target[p] \in Jobs /\ kind[p] \in Runners \cup Requests
         /\ db[target[p]] \in JobRecord /\ mem[p] \in JobRecord
BY DEF TypeOK

LEMMA SuspendType ==
  ASSUME TypeOK, NEW p \in Procs, NEW rec \in JobRecord, NEW next \in PCs, Suspend(p, rec, next),
         pc[p] # "idle", next # "idle"
  PROVE  LoopTypeOK'
BY DEF TypeOK, Suspend, LoopTypeOK

LEMMA GoIdleType == ASSUME TypeOK, NEW p \in Procs, GoIdle(p) PROVE LoopTypeOK'
<1>1. "idle" \in PCs  BY DEF PCs
<1> QED BY <1>1, NewJobType DEF TypeOK, GoIdle, LoopTypeOK

LEMMA SpawnType ==
  ASSUME TypeOK, NEW p \in Procs, NEW k \in Runners \cup Requests, NEW j \in Jobs,
         NEW rec \in JobRecord, NEW at \in PCs, Spawn(p, k, j, rec, at), at # "idle"
  PROVE  LoopTypeOK'
<1>1. "none" \notin Runners \cup Requests  BY DEF Runners, Requests
<1> QED BY <1>1, NoJobAssumption DEF TypeOK, Spawn, LoopTypeOK

LEMMA SaveType ==
  ASSUME TypeOK, NEW p \in Procs, NEW rec \in JobRecord, Save(p, rec)
  PROVE  db' \in [Jobs -> JobRecord]
BY DEF TypeOK, Save

LEMMA FinishType ==
  ASSUME TypeOK, NEW p \in Procs, NEW rec \in JobRecord, Finish(p, rec), pc[p] # "idle"
  PROVE  LoopTypeOK' /\ db' \in [Jobs -> JobRecord]
<1> DEFINE final == Settled(rec, FailureState(kind[p]))
<1>1. final \in JobRecord
  <2>1. FailureState(kind[p]) \in JobStates  BY DEF FailureState, JobStates, TerminalStates
  <2> QED BY <2>1, StateType
<1>2. "orphaned" \in PCs  BY DEF PCs
<1>3. Save(p, final) /\ (Suspend(p, final, "orphaned") \/ GoIdle(p))  BY DEF Finish
<1> HIDE DEF final
<1> QED BY <1>1, <1>2, <1>3, SaveType, SuspendType, GoIdleType

LEMMA ReleaseType ==
  ASSUME TypeOK, NEW p \in Procs, Release(p)
  PROVE  holders' \in SUBSET Procs /\ queue' \in Seq(Procs)
BY DEF TypeOK, Release

LEMMA BillType ==
  ASSUME TypeOK, NEW p \in Procs, kind[p] \in Runners, Bill(p)
  PROVE  billed' \in [Jobs -> SUBSET Runners]
BY DEF TypeOK, Bill
-----------------------------------------------------------------------------
(* Type correctness, one lemma per group of actions.                       *)

LEMMA TypeInit == Init => TypeOK
<1>1. "idle" \in PCs /\ NoRow \in JobRecord  BY NewJobType DEF PCs
<1> QED BY <1>1, BoundsAssumption DEF Init, TypeOK

LEMMA RequestType ==
  ASSUME TypeOK, NEW p \in Procs, NEW j \in Jobs, Request(p, j)
  PROVE  TypeOK'
<1>0. /\ {"created", "git"} \subseteq PCs
      /\ {"plan", "implement", "correct", "branch", "push"} \subseteq Runners \cup Requests
      /\ db[j] \in JobRecord
      /\ NewJob \in JobRecord /\ NoRow \in JobRecord
  BY NewJobType DEF PCs, Runners, Requests, TypeOK
<1>1. ASSUME Accepted(p) PROVE requests' \in 0..MaxRequests
  BY <1>1, BoundsAssumption DEF Accepted, TypeOK
<1>2. CASE CreateJob(p, j)
  BY <1>0, <1>1, <1>2, SpawnType
  DEF CreateJob, TypeOK, LoopTypeOK, slotVars, serverVars, historyVars
<1>3. CASE ImplementJob(p, j)
  BY <1>0, <1>1, <1>3, SpawnType, EditType
  DEF ImplementJob, TypeOK, LoopTypeOK, slotVars, serverVars, historyVars
<1>4. CASE CorrectValidation(p, j)
  BY <1>0, <1>1, <1>4, SpawnType, EditType
  DEF CorrectValidation, TypeOK, LoopTypeOK, slotVars, serverVars, historyVars
<1>5. CASE CreateBranch(p, j)
  BY <1>0, <1>1, <1>5, SpawnType
  DEF CreateBranch, TypeOK, LoopTypeOK, slotVars, serverVars, historyVars
<1>6. CASE PushBranch(p, j)
  BY <1>0, <1>1, <1>6, SpawnType
  DEF PushBranch, TypeOK, LoopTypeOK, slotVars, serverVars, historyVars
<1> QED BY <1>2, <1>3, <1>4, <1>5, <1>6 DEF Request

LEMMA BeginType ==
  ASSUME TypeOK, NEW p \in Procs, NEW rec \in JobRecord, Begin(p, rec), pc[p] # "idle"
  PROVE  /\ LoopTypeOK' /\ db' \in [Jobs -> JobRecord]
         /\ holders' \in SUBSET Procs /\ threads' \in SUBSET Procs
         /\ implRuns' \in [Jobs -> Nat] /\ fixRuns' \in [Jobs -> Nat]
<1>0. /\ {"fetch", "baseline", "failing", "refused", "agent"} \subseteq PCs
      /\ "FAILED" \in JobStates
  BY DEF PCs, InSlot, JobStates, TerminalStates
<1>1. CASE BeginPlan(p, rec)
  <2>1. Advance(rec, "FETCHING_TICKET") \in JobRecord
    BY StateType DEF JobStates, PlanStates
  <2>2. Fail(rec, "FAILED") \in JobRecord
    BY <1>0, StateType
  <2>3. CASE Hold(p) /\ Continue(p, Advance(rec, "FETCHING_TICKET"), "fetch")
    BY <1>0, <1>1, <2>1, <2>3, SaveType, SuspendType DEF Hold, Continue, BeginPlan, TypeOK
  <2>4. CASE UNCHANGED holders /\ Finish(p, Fail(rec, "FAILED"))
    BY <1>1, <2>2, <2>4, FinishType DEF BeginPlan, TypeOK
  <2> QED BY <1>1, <2>3, <2>4 DEF BeginPlan
<1>2. CASE BeginImplement(p, rec)
  BY <1>0, <1>2, SuspendType DEF BeginImplement, Hold, TypeOK
<1>3. CASE BeginCorrect(p, rec)
  <2> DEFINE started == [rec EXCEPT !.fixStarted = TRUE]
  <2>1. started \in JobRecord  BY DEF JobRecord
  <2> HIDE DEF started
  <2>2. LoopTypeOK' /\ db' \in [Jobs -> JobRecord]
    <3>1. \/ UNCHANGED db /\ (Suspend(p, rec, "refused") \/ Suspend(p, rec, "failing"))
          \/ Continue(p, started, "failing") \/ Continue(p, started, "agent")
      BY <1>3 DEF BeginCorrect, started
    <3> QED BY <1>0, <2>1, <3>1, SuspendType, SaveType DEF Continue, TypeOK
  <2>3. /\ holders' \in {holders, holders \cup {p}}
        /\ threads' \in {threads, threads \cup {p}}
        /\ implRuns' = implRuns
        /\ \/ fixRuns' = fixRuns
           \/ fixRuns' = [fixRuns EXCEPT ![target[p]] = @ + 1]
    BY <1>3 DEF BeginCorrect, Hold
  <2>4. fixRuns' \in [Jobs -> Nat]
    BY <2>3, ActiveTarget DEF TypeOK
  <2> QED BY <2>2, <2>3, <2>4 DEF TypeOK
<1> QED BY <1>1, <1>2, <1>3 DEF Begin

LEMMA SlotType ==
  ASSUME TypeOK, NEW p \in Procs, RunnerStart(p) \/ RunnerQueues(p) \/ RunnerWoken(p)
  PROVE  TypeOK'
<1>0. mem[p] \in JobRecord /\ "waiting" \in PCs  BY DEF TypeOK, PCs
<1>1. pc[p] # "idle" /\ db[target[p]] \in JobRecord
  BY ActiveTarget DEF RunnerStart, RunnerQueues, RunnerWoken
<1>2. CASE RunnerStart(p)
  BY <1>1, <1>2, BeginType
  DEF RunnerStart, Begin, TypeOK, LoopTypeOK, serverVars
<1>3. CASE RunnerQueues(p)
  BY <1>0, <1>1, <1>3, SuspendType
  DEF RunnerQueues, TypeOK, LoopTypeOK, serverVars, historyVars
<1>4. CASE RunnerWoken(p)
  BY <1>0, <1>1, <1>4, BeginType
  DEF RunnerWoken, Begin, TypeOK, LoopTypeOK, serverVars
<1> QED BY <1>2, <1>3, <1>4

\* The steps that end with the runner's copy saved or set aside.
LEMMA PlanType ==
  ASSUME TypeOK, NEW p \in Procs,
         \/ PlanStageDone(p) \/ PlanStageFailed(p)
         \/ PlanReturned(p) \/ PlanFailedWithUsage(p) \/ PlanFailedNoUsage(p)
  PROVE  TypeOK'
<1>0. /\ pc[p] # "idle" /\ mem[p] \in JobRecord /\ target[p] \in Jobs
      /\ "FAILED" \in JobStates
  BY ActiveTarget
  DEF PlanStageDone, PlanStageFailed, PlanReturned, PlanFailedWithUsage, PlanFailedNoUsage,
      JobStates, TerminalStates
<1>1. Fail(mem[p], "FAILED") \in JobRecord
  BY <1>0, StateType
<1>2. CASE PlanStageDone(p)
  <2>1. StageAfter(pc[p]).state \in JobStates /\ StageAfter(pc[p]).pc \in PCs \ {"idle"}
    BY <1>2 DEF PlanStageDone, StageAfter, JobStates, PlanStates, PCs, InSlot
  <2> DEFINE rec == Advance(mem[p], StageAfter(pc[p]).state)
             next == StageAfter(pc[p]).pc
  <2>2. rec \in JobRecord  BY <1>0, <2>1, StateType
  <2>3. Save(p, rec) /\ Suspend(p, rec, next)  BY <1>2 DEF PlanStageDone, Continue
  <2>4. threads' \in {threads, threads \cup {p}} /\ UNCHANGED <<slotVars, serverVars, requests, historyVars>>
    BY <1>2 DEF PlanStageDone
  <2> HIDE DEF rec, next
  <2>5. LoopTypeOK' /\ db' \in [Jobs -> JobRecord]
    BY <1>0, <2>1, <2>2, <2>3, SaveType, SuspendType DEF next
  <2> QED BY <2>4, <2>5 DEF TypeOK, LoopTypeOK, slotVars, serverVars, historyVars
<1>3. CASE PlanStageFailed(p)
  BY <1>0, <1>1, <1>3, FinishType, ReleaseType
  DEF PlanStageFailed, TypeOK, LoopTypeOK, serverVars, historyVars
<1>4. CASE PlanReturned(p)
  <2> DEFINE rec == [mem[p] EXCEPT !.plan = TRUE, !.planCost = TRUE, !.state = "PLAN_READY"]
  <2>1. rec \in JobRecord  BY <1>0 DEF JobRecord, JobStates, TerminalStates
  <2>2. kind[p] \in Runners  BY <1>4 DEF PlanReturned, Runners
  <2> HIDE DEF rec
  <2>3. Finish(p, rec) /\ Release(p) /\ Bill(p)  BY <1>4 DEF PlanReturned, rec
  <2>4. /\ LoopTypeOK' /\ db' \in [Jobs -> JobRecord]
        /\ holders' \in SUBSET Procs /\ queue' \in Seq(Procs)
        /\ billed' \in [Jobs -> SUBSET Runners]
    BY <1>0, <2>1, <2>2, <2>3, FinishType, ReleaseType, BillType
  <2> QED BY <1>4, <2>4 DEF PlanReturned, TypeOK, LoopTypeOK, serverVars
<1>5. CASE PlanFailedWithUsage(p)
  <2> DEFINE rec == Fail([mem[p] EXCEPT !.planCost = TRUE], "FAILED")
  <2>1. rec \in JobRecord
    <3>1. [mem[p] EXCEPT !.planCost = TRUE] \in JobRecord  BY <1>0 DEF JobRecord
    <3> QED BY <1>0, <3>1, StateType
  <2>2. kind[p] \in Runners  BY <1>5 DEF PlanFailedWithUsage, Runners
  <2> HIDE DEF rec
  <2>3. Finish(p, rec) /\ Release(p) /\ Bill(p)  BY <1>5 DEF PlanFailedWithUsage, rec
  <2>4. /\ LoopTypeOK' /\ db' \in [Jobs -> JobRecord]
        /\ holders' \in SUBSET Procs /\ queue' \in Seq(Procs)
        /\ billed' \in [Jobs -> SUBSET Runners]
    BY <1>0, <2>1, <2>2, <2>3, FinishType, ReleaseType, BillType
  <2> QED BY <1>5, <2>4 DEF PlanFailedWithUsage, TypeOK, LoopTypeOK, serverVars
<1>6. CASE PlanFailedNoUsage(p)
  BY <1>0, <1>1, <1>6, FinishType, ReleaseType
  DEF PlanFailedNoUsage, TypeOK, LoopTypeOK, serverVars, historyVars
<1> QED BY <1>2, <1>3, <1>4, <1>5, <1>6

LEMMA EditsType ==
  ASSUME TypeOK, NEW p \in Procs,
         \/ ImplementationStarted(p) \/ EditsReturned(p)
         \/ EditsFailedWithUsage(p) \/ EditsFailedNoUsage(p)
         \/ DiffCollected(p) \/ StepFailed(p)
  PROVE  TypeOK'
<1>0. /\ pc[p] # "idle" /\ mem[p] \in JobRecord /\ target[p] \in Jobs
      /\ {"agent", "diff", "validate", "failing"} \subseteq PCs
      /\ {"IMPLEMENTING", "VALIDATING", "REVALIDATING"} \subseteq JobStates
      /\ WithUsage(p) \in JobRecord
  <2>1. pc[p] # "idle"
    BY DEF ImplementationStarted, EditsReturned, EditsFailedWithUsage, EditsFailedNoUsage,
           DiffCollected, StepFailed
  <2>2. mem[p] \in JobRecord /\ target[p] \in Jobs  BY <2>1, ActiveTarget
  <2>3. WithUsage(p) \in JobRecord  BY <2>2 DEF WithUsage, JobRecord
  <2>4. /\ {"agent", "diff", "validate", "failing"} \subseteq PCs
        /\ {"IMPLEMENTING", "VALIDATING", "REVALIDATING"} \subseteq JobStates
    BY DEF PCs, InSlot, JobStates, ImplementationStates, CorrectionStates
  <2> QED BY <2>1, <2>2, <2>3, <2>4
<1>1. CASE ImplementationStarted(p)
  <2> DEFINE rec == Advance([mem[p] EXCEPT !.baseline = TRUE], "IMPLEMENTING")
  <2>1. rec \in JobRecord
    <3>1. [mem[p] EXCEPT !.baseline = TRUE] \in JobRecord  BY <1>0 DEF JobRecord
    <3> QED BY <1>0, <3>1, StateType
  <2> HIDE DEF rec
  <2>2. Save(p, rec) /\ Suspend(p, rec, "agent")  BY <1>1 DEF ImplementationStarted, Continue, rec
  <2>3. implRuns' \in [Jobs -> Nat]  BY <1>0, <1>1 DEF ImplementationStarted, TypeOK
  <2>4. LoopTypeOK' /\ db' \in [Jobs -> JobRecord]  BY <1>0, <2>1, <2>2, SaveType, SuspendType
  <2> QED BY <1>1, <2>3, <2>4 DEF ImplementationStarted, TypeOK, LoopTypeOK, slotVars, serverVars
<1>2. CASE EditsReturned(p)
  <2>1. kind[p] \in Runners  BY <1>2 DEF EditsReturned, Runners
  <2>2. Advance(WithUsage(p), "REVALIDATING") \in JobRecord  BY <1>0, StateType
  <2>3. \/ Save(p, WithUsage(p)) /\ Suspend(p, WithUsage(p), "diff")
        \/ /\ Save(p, Advance(WithUsage(p), "REVALIDATING"))
           /\ Suspend(p, Advance(WithUsage(p), "REVALIDATING"), "validate")
    BY <1>2 DEF EditsReturned, Continue
  <2>4. LoopTypeOK' /\ db' \in [Jobs -> JobRecord]
    BY <1>0, <2>2, <2>3, SaveType, SuspendType
  <2>5. billed' \in [Jobs -> SUBSET Runners]  BY <1>2, <2>1, BillType DEF EditsReturned
  <2> QED BY <1>2, <2>4, <2>5 DEF EditsReturned, TypeOK, LoopTypeOK, slotVars, serverVars
<1>3. CASE EditsFailedWithUsage(p)
  <2>1. kind[p] \in Runners  BY <1>3 DEF EditsFailedWithUsage, Runners
  <2>2. LoopTypeOK'  BY <1>0, <1>3, SuspendType DEF EditsFailedWithUsage
  <2>3. billed' \in [Jobs -> SUBSET Runners]  BY <1>3, <2>1, BillType DEF EditsFailedWithUsage
  <2> QED BY <1>3, <2>2, <2>3, ReleaseType
          DEF EditsFailedWithUsage, TypeOK, LoopTypeOK, serverVars
<1>4. CASE EditsFailedNoUsage(p)
  BY <1>0, <1>4, SuspendType, ReleaseType
  DEF EditsFailedNoUsage, TypeOK, LoopTypeOK, serverVars, historyVars
<1>5. CASE DiffCollected(p)
  <2> DEFINE rec == Advance([mem[p] EXCEPT !.result = TRUE], "VALIDATING")
  <2>1. rec \in JobRecord
    <3>1. [mem[p] EXCEPT !.result = TRUE] \in JobRecord  BY <1>0 DEF JobRecord
    <3> QED BY <1>0, <3>1, StateType
  <2> HIDE DEF rec
  <2>2. Save(p, rec) /\ Suspend(p, rec, "validate")  BY <1>5 DEF DiffCollected, Continue, rec
  <2>3. LoopTypeOK' /\ db' \in [Jobs -> JobRecord]  BY <1>0, <2>1, <2>2, SaveType, SuspendType
  <2> QED BY <1>5, <2>3 DEF DiffCollected, TypeOK, LoopTypeOK, slotVars, serverVars, historyVars
<1>6. CASE StepFailed(p)
  BY <1>0, <1>6, SuspendType, ReleaseType
  DEF StepFailed, TypeOK, LoopTypeOK, serverVars, historyVars
<1> QED BY <1>1, <1>2, <1>3, <1>4, <1>5, <1>6

LEMMA EndType ==
  ASSUME TypeOK, NEW p \in Procs,
         \/ Validated(p) \/ FailureRecorded(p) \/ RefreshRaised(p)
         \/ GitDone(p) \/ GitFailed(p) \/ Report(p) \/ OrphanEnds(p)
  PROVE  TypeOK'
<1>1. CASE Validated(p)
  <2>0. pc[p] # "idle" /\ mem[p] \in JobRecord  BY <1>1, ActiveTarget DEF Validated
  <2>1. PICK failures \in BOOLEAN :
          Finish(p, [mem[p] EXCEPT !.correctable = failures,
                                   !.attempted = @ \/ (kind[p] = "correct"),
                                   !.state = "IMPLEMENTATION_READY"])
    BY <1>1 DEF Validated
  <2> DEFINE rec == [mem[p] EXCEPT !.correctable = failures,
                                   !.attempted = @ \/ (kind[p] = "correct"),
                                   !.state = "IMPLEMENTATION_READY"]
  <2>2. rec \in JobRecord  BY <2>0 DEF JobRecord, JobStates, TerminalStates
  <2>3. Finish(p, rec)  BY <2>1
  <2> HIDE DEF rec
  <2>4. LoopTypeOK' /\ db' \in [Jobs -> JobRecord]  BY <2>0, <2>2, <2>3, FinishType
  <2> QED BY <1>1, <2>4, ReleaseType DEF Validated, TypeOK, LoopTypeOK, serverVars, historyVars
<1>2. CASE FailureRecorded(p)
  <2>0. pc[p] # "idle" /\ mem[p] \in JobRecord /\ (pc[p] = "failing") \in BOOLEAN
    BY <1>2, ActiveTarget DEF FailureRecorded
  <2>1. /\ Fail(mem[p], "IMPLEMENTATION_FAILED") \in JobRecord
        /\ RecordCorrectionFailure(mem[p], pc[p] = "failing") \in JobRecord
    BY <2>0, StateType, EditType DEF JobStates, TerminalStates
  <2>2. LoopTypeOK' /\ db' \in [Jobs -> JobRecord]
    BY <1>2, <2>0, <2>1, FinishType DEF FailureRecorded
  <2> QED BY <1>2, <2>2
          DEF FailureRecorded, TypeOK, LoopTypeOK, slotVars, serverVars, historyVars
<1>3. CASE RefreshRaised(p)
  <2>0. /\ pc[p] # "idle" /\ mem[p] \in JobRecord /\ db[target[p]] \in JobRecord
        /\ "orphaned" \in PCs /\ "IMPLEMENTATION_FAILED" \in JobStates
    BY <1>3, ActiveTarget DEF RefreshRaised, PCs, JobStates, TerminalStates
  <2>1. Settled(db[target[p]], "IMPLEMENTATION_FAILED") \in JobRecord  BY <2>0, StateType
  <2>2. db' \in [Jobs -> JobRecord]  BY <1>3, <2>1, SaveType DEF RefreshRaised
  <2>3. LoopTypeOK'  BY <1>3, <2>0, SuspendType, GoIdleType DEF RefreshRaised
  <2> QED BY <1>3, <2>2, <2>3
          DEF RefreshRaised, TypeOK, LoopTypeOK, slotVars, serverVars, historyVars
<1>4. CASE GitDone(p)
  <2>0. mem[p] \in JobRecord  BY <1>4, ActiveTarget DEF GitDone
  <2>1. /\ [mem[p] EXCEPT !.branch = TRUE] \in JobRecord
        /\ [mem[p] EXCEPT !.pushed = TRUE] \in JobRecord
    BY <2>0 DEF JobRecord
  <2>2. LoopTypeOK' /\ db' \in [Jobs -> JobRecord]
    BY <1>4, <2>1, SaveType, GoIdleType DEF GitDone
  <2> QED BY <1>4, <2>2 DEF GitDone, TypeOK, LoopTypeOK, slotVars, serverVars, historyVars
<1>5. CASE GitFailed(p)
  BY <1>5, GoIdleType
  DEF GitFailed, TypeOK, LoopTypeOK, slotVars, serverVars, historyVars
<1>6. CASE Report(p)
  <2>1. db' \in [Jobs -> JobRecord]  BY <1>6, SaveType DEF Report, TypeOK
  <2> QED BY <1>6, <2>1
          DEF Report, TypeOK, loopVars, slotVars, serverVars, historyVars
<1>7. CASE OrphanEnds(p)
  <2>1. LoopTypeOK'  BY <1>7, GoIdleType DEF OrphanEnds, TypeOK, LoopTypeOK, loopVars
  <2> QED BY <1>7, <2>1 DEF OrphanEnds, TypeOK, LoopTypeOK, slotVars, serverVars, historyVars
<1> QED BY <1>1, <1>2, <1>3, <1>4, <1>5, <1>6, <1>7

-----------------------------------------------------------------------------
(* An agent thread belongs to a runner that waits for it or has given up on *)
(* it, never to an idle coroutine or a request.                            *)

ThreadsOwned == \A p \in threads : pc[p] \in {"agent", "failing", "orphaned"}

LEMMA ThreadsMove ==
  ASSUME TypeOK, ThreadsOwned, NEW p \in Procs, NEW at,
         pc' = [pc EXCEPT ![p] = at], threads' \subseteq threads \cup {p},
         p \in threads' => at \in {"agent", "failing", "orphaned"}
  PROVE  ThreadsOwned'
BY DEF ThreadsOwned, TypeOK

LEMMA FinishThreads ==
  ASSUME TypeOK, ThreadsOwned, NEW p \in Procs, NEW rec, Finish(p, rec),
         threads' \subseteq threads \cup {p}
  PROVE  ThreadsOwned'
<1>1. CASE p \in threads'
  <2>1. pc' = [pc EXCEPT ![p] = "orphaned"]  BY <1>1 DEF Finish, Suspend
  <2> QED BY <2>1, ThreadsMove
<1>2. CASE p \notin threads'
  <2>1. pc' = [pc EXCEPT ![p] = "idle"]  BY <1>2 DEF Finish, GoIdle
  <2> QED BY <1>2, <2>1, ThreadsMove
<1> QED BY <1>1, <1>2

LEMMA ThreadsRequest ==
  ASSUME TypeOK, ThreadsOwned, NEW p \in Procs, NEW j \in Jobs, Request(p, j)
  PROVE  ThreadsOwned'
<1>1. /\ threads' = threads /\ pc[p] = "idle"
      /\ pc' = [pc EXCEPT ![p] = "created"] \/ pc' = [pc EXCEPT ![p] = "git"]
  BY DEF Request, CreateJob, ImplementJob, CorrectValidation, CreateBranch, PushBranch,
         Accepted, Spawn
<1>2. p \notin threads  BY <1>1 DEF ThreadsOwned
<1> QED BY <1>1, <1>2, ThreadsMove

LEMMA ThreadsSlot ==
  ASSUME TypeOK, ThreadsOwned, NEW p \in Procs,
         RunnerStart(p) \/ RunnerQueues(p) \/ RunnerWoken(p)
  PROVE  ThreadsOwned'
<1>1. p \notin threads  BY DEF ThreadsOwned, RunnerStart, RunnerQueues, RunnerWoken
<1>2. ASSUME NEW rec, Begin(p, rec) PROVE ThreadsOwned'
  <2>1. CASE BeginPlan(p, rec)
    <3>1. threads' = threads  BY <2>1 DEF BeginPlan
    <3>2. CASE Continue(p, Advance(rec, "FETCHING_TICKET"), "fetch")
      <4>1. pc' = [pc EXCEPT ![p] = "fetch"]  BY <3>2 DEF Continue, Suspend
      <4> QED BY <1>1, <3>1, <4>1, ThreadsMove
    <3>3. CASE Finish(p, Fail(rec, "FAILED"))
      BY <3>1, <3>3, FinishThreads
    <3> QED BY <2>1, <3>2, <3>3 DEF BeginPlan
  <2>2. CASE BeginImplement(p, rec)
    <3>1. /\ threads' = threads
          /\ pc' = [pc EXCEPT ![p] = "baseline"] \/ pc' = [pc EXCEPT ![p] = "failing"]
      BY <2>2 DEF BeginImplement, Suspend
    <3> QED BY <1>1, <3>1, ThreadsMove
  <2>3. CASE BeginCorrect(p, rec)
    <3>1. \/ /\ threads' = threads
             /\ pc' = [pc EXCEPT ![p] = "refused"] \/ pc' = [pc EXCEPT ![p] = "failing"]
          \/ threads' = threads \cup {p} /\ pc' = [pc EXCEPT ![p] = "agent"]
      BY <2>3 DEF BeginCorrect, Continue, Suspend
    <3> QED BY <1>1, <3>1, ThreadsMove
  <2> QED BY <1>2, <2>1, <2>2, <2>3 DEF Begin
<1>3. CASE RunnerQueues(p)
  <2>1. threads' = threads /\ pc' = [pc EXCEPT ![p] = "waiting"]
    BY <1>3 DEF RunnerQueues, Suspend
  <2> QED BY <1>1, <2>1, ThreadsMove
<1> QED BY <1>2, <1>3 DEF RunnerStart, RunnerWoken

LEMMA ThreadsStep ==
  ASSUME TypeOK, ThreadsOwned, NEW p \in Procs, Step(p) \/ Thread(p)
  PROVE  ThreadsOwned'
<1>1. CASE GitDone(p) \/ GitFailed(p)
  <2>1. threads' = threads /\ pc' = [pc EXCEPT ![p] = "idle"] /\ p \notin threads
    BY <1>1 DEF GitDone, GitFailed, GoIdle, ThreadsOwned
  <2> QED BY <2>1, ThreadsMove
<1>2. CASE RunnerStart(p) \/ RunnerQueues(p) \/ RunnerWoken(p)
  BY <1>2, ThreadsSlot
<1>3. CASE PlanStageDone(p)
  <2>1. pc' = [pc EXCEPT ![p] = StageAfter(pc[p]).pc]
    BY <1>3 DEF PlanStageDone, Continue, Suspend
  <2>2. threads' \subseteq threads \cup {p} /\ p \notin threads
    BY <1>3 DEF PlanStageDone, ThreadsOwned
  <2>3. p \in threads' => StageAfter(pc[p]).pc = "agent"
    BY <1>3, <2>2 DEF PlanStageDone
  <2> QED BY <2>1, <2>2, <2>3, ThreadsMove
<1>4. CASE \/ PlanStageFailed(p) \/ PlanReturned(p) \/ PlanFailedWithUsage(p)
           \/ PlanFailedNoUsage(p) \/ Validated(p) \/ FailureRecorded(p)
  <2>1. threads' \subseteq threads /\ \E rec : Finish(p, rec)
    BY <1>4
    DEF PlanStageFailed, PlanReturned, PlanFailedWithUsage, PlanFailedNoUsage, Validated,
        FailureRecorded
  <2> QED BY <2>1, FinishThreads
<1>5. CASE ImplementationStarted(p)
  <2>1. threads' = threads \cup {p} /\ pc' = [pc EXCEPT ![p] = "agent"]
    BY <1>5 DEF ImplementationStarted, Continue, Suspend
  <2> QED BY <2>1, ThreadsMove
<1>6. CASE EditsReturned(p)
  <2>1. /\ threads' = threads \ {p}
        /\ pc' = [pc EXCEPT ![p] = "diff"] \/ pc' = [pc EXCEPT ![p] = "validate"]
    BY <1>6 DEF EditsReturned, Continue, Suspend
  <2> QED BY <2>1, ThreadsMove
<1>7. CASE EditsFailedWithUsage(p) \/ EditsFailedNoUsage(p) \/ StepFailed(p)
  <2>1. threads' \subseteq threads /\ pc' = [pc EXCEPT ![p] = "failing"]
    BY <1>7 DEF EditsFailedWithUsage, EditsFailedNoUsage, StepFailed, Suspend
  <2> QED BY <2>1, ThreadsMove
<1>8. CASE DiffCollected(p)
  <2>1. threads' = threads /\ pc' = [pc EXCEPT ![p] = "validate"] /\ p \notin threads
    BY <1>8 DEF DiffCollected, Continue, Suspend, ThreadsOwned
  <2> QED BY <2>1, ThreadsMove
<1>9. CASE RefreshRaised(p)
  <2>1. /\ threads' = threads
        /\ \/ p \in threads /\ pc' = [pc EXCEPT ![p] = "orphaned"]
           \/ p \notin threads /\ pc' = [pc EXCEPT ![p] = "idle"]
    BY <1>9 DEF RefreshRaised, Suspend, GoIdle
  <2> QED BY <2>1, ThreadsMove
<1>10. CASE Report(p)
  BY <1>10 DEF Report, loopVars, ThreadsOwned
<1>11. CASE OrphanEnds(p)
  <2>1. /\ threads' = threads \ {p}
        /\ pc' = [pc EXCEPT ![p] = "idle"] \/ pc' = pc
    BY <1>11 DEF OrphanEnds, GoIdle, loopVars
  <2>2. CASE pc' = pc  BY <2>1, <2>2 DEF ThreadsOwned
  <2>3. CASE pc' = [pc EXCEPT ![p] = "idle"]  BY <2>1, <2>3, ThreadsMove
  <2> QED BY <2>1, <2>2, <2>3
<1> QED BY <1>1, <1>2, <1>3, <1>4, <1>5, <1>6, <1>7, <1>8, <1>9, <1>10, <1>11 DEF Step, Thread

-----------------------------------------------------------------------------
(* The process.                                                            *)

LEMMA ServerType ==
  ASSUME TypeOK, ThreadsOwned, Crash \/ Shutdown \/ Recovery
  PROVE  TypeOK' /\ ThreadsOwned'
<1>0. {"idle", "orphaned"} \subseteq PCs /\ NoRow \in JobRecord
  BY NewJobType DEF PCs
<1>1. ASSUME Die, stops' \in 0..MaxStops PROVE TypeOK' /\ ThreadsOwned'
  <2>1. billed' \in [Jobs -> SUBSET Runners]
    BY <1>1 DEF Die, ForgetUnsavedUsage, TypeOK
  <2> QED BY <1>0, <1>1, <2>1 DEF Die, TypeOK, ThreadsOwned
<1>2. CASE Crash
  BY <1>1, <1>2, BoundsAssumption DEF Crash, TypeOK
<1>3. CASE Exit
  BY <1>1, <1>3 DEF Exit, TypeOK
<1>4. CASE Shutdown
  <2>1. \A p \in threads : kind[p] # "none" /\ target[p] # NoJob
    BY DEF ThreadsOwned, TypeOK
  <2>2. LoopTypeOK'
    BY <1>0, <1>4, <2>1 DEF Shutdown, TypeOK, LoopTypeOK
  <2>3. db' \in [Jobs -> JobRecord]
    <3>1. \A j \in Jobs :
            /\ db[j] \in JobRecord
            /\ Settled(db[j], "FAILED") \in JobRecord
            /\ Settled(db[j], "IMPLEMENTATION_FAILED") \in JobRecord
      BY StateType DEF TypeOK, JobStates, TerminalStates
    <3> QED BY <1>4, <3>1 DEF Shutdown
  <2>4. billed' \in [Jobs -> SUBSET Runners]
    BY <1>4 DEF Shutdown, ForgetUnsavedUsage, TypeOK
  <2>5. stops' \in 0..MaxStops  BY <1>4, BoundsAssumption DEF Shutdown, TypeOK
  <2>6. ThreadsOwned'  BY <1>4 DEF Shutdown, ThreadsOwned, TypeOK
  <2>7. /\ holders' = {} /\ queue' = <<>> /\ server' = "stopping"
        /\ UNCHANGED <<threads, unfinished, requests, implRuns, fixRuns>>
    BY <1>4 DEF Shutdown
  <2> QED BY <2>2, <2>3, <2>4, <2>5, <2>6, <2>7 DEF TypeOK, LoopTypeOK
<1>5. CASE Restart
  BY <1>5 DEF Restart, TypeOK, ThreadsOwned, loopVars, slotVars, historyVars
<1>6. ASSUME NEW j \in Jobs, RecoverJob(j) PROVE TypeOK' /\ ThreadsOwned'
  <2>1. db' \in [Jobs -> JobRecord]  BY <1>6, RecoveredType DEF RecoverJob, TypeOK
  <2> QED BY <1>6, <2>1
          DEF RecoverJob, TypeOK, ThreadsOwned, loopVars, slotVars, historyVars
<1>7. ASSUME NEW j \in Jobs, RecoverySkips(j) PROVE TypeOK' /\ ThreadsOwned'
  BY <1>7 DEF RecoverySkips, TypeOK, ThreadsOwned, loopVars, slotVars, historyVars
<1>8. CASE Serve
  BY <1>8 DEF Serve, TypeOK, ThreadsOwned, loopVars, slotVars, historyVars
<1> QED BY <1>2, <1>3, <1>4, <1>5, <1>6, <1>7, <1>8 DEF Recovery

\* Every action keeps the types, and agent threads where they belong.
LEMMA TypeNext == TypeOK /\ ThreadsOwned /\ [Next]_vars => TypeOK' /\ ThreadsOwned'
<1> SUFFICES ASSUME TypeOK, ThreadsOwned, [Next]_vars PROVE TypeOK' /\ ThreadsOwned'
  OBVIOUS
<1>1. ASSUME NEW p \in Procs, NEW j \in Jobs, Request(p, j) PROVE TypeOK' /\ ThreadsOwned'
  BY <1>1, RequestType, ThreadsRequest
<1>2. ASSUME NEW p \in Procs, Step(p) \/ Thread(p) PROVE TypeOK' /\ ThreadsOwned'
  <2>1. TypeOK'  BY <1>2, SlotType, PlanType, EditsType, EndType DEF Step, Thread
  <2> QED BY <1>2, <2>1, ThreadsStep
<1>3. CASE Crash \/ Shutdown \/ Recovery
  BY <1>3, ServerType
<1>4. CASE UNCHANGED vars
  BY <1>4 DEF vars, loopVars, slotVars, serverVars, historyVars, TypeOK, ThreadsOwned
<1> QED BY <1>1, <1>2, <1>3, <1>4 DEF Next

\* Every state of the specification is well typed: a coroutine has a job exactly while it is
\* active, and every record is one that Job can represent.
THEOREM TypeCorrect == Spec => []TypeOK
<1>1. Init => TypeOK /\ ThreadsOwned
  BY TypeInit DEF Init, ThreadsOwned
<1> QED BY <1>1, TypeNext, PTL DEF Spec

-----------------------------------------------------------------------------
(* The agent slots.                                                        *)

\* What makes SlotsConserved inductive: the holders can be counted, and nobody waits twice.
SlotInv ==
  /\ holders = {p \in Procs : pc[p] \in InSlot}
  /\ IsFiniteSet(holders) /\ Cardinality(holders) <= SlotLimit
  /\ {queue[i] : i \in 1..Len(queue)} = {p \in Procs : pc[p] = "waiting"}
  /\ \A i, k \in 1..Len(queue) : queue[i] = queue[k] => i = k

\* p goes to `at`: it holds a slot there or not, and queues for one or not.
SlotMove(p, at) ==
  /\ pc' = [pc EXCEPT ![p] = at]
  /\ holders' = IF at \in InSlot THEN holders \cup {p} ELSE holders \ {p}
  /\ at \in InSlot /\ pc[p] \notin InSlot => SlotFree
  /\ \/ pc[p] # "waiting" /\ at # "waiting" /\ queue' = queue
     \/ pc[p] # "waiting" /\ at = "waiting" /\ queue' = Append(queue, p)
     \/ pc[p] = "waiting" /\ at # "waiting" /\ queue # <<>> /\ Head(queue) = p /\ queue' = Tail(queue)

LEMMA SlotMoved ==
  ASSUME TypeOK, SlotInv, NEW p \in Procs, NEW at, SlotMove(p, at)
  PROVE  SlotInv'
<1>1. holders' = {q \in Procs : pc'[q] \in InSlot}
  BY DEF SlotMove, SlotInv, TypeOK
<1>2. IsFiniteSet(holders') /\ Cardinality(holders') <= SlotLimit
  <2>1. IsFiniteSet(holders) /\ Cardinality(holders) <= SlotLimit /\ Cardinality(holders) \in Nat
        /\ SlotLimit \in Nat
    BY FS_CardinalityType, SlotLimitAssumption DEF SlotInv
  <2>2. CASE at \in InSlot
    <3>1. /\ IsFiniteSet(holders \cup {p})
          /\ Cardinality(holders \cup {p}) =
               IF p \in holders THEN Cardinality(holders) ELSE Cardinality(holders) + 1
      BY <2>1, FS_AddElement
    <3>2. p \notin holders => Cardinality(holders) < SlotLimit
      BY <2>2 DEF SlotMove, SlotInv, SlotFree
    <3> QED BY <2>1, <2>2, <3>1, <3>2 DEF SlotMove
  <2>3. CASE at \notin InSlot
    <3>1. /\ IsFiniteSet(holders \ {p})
          /\ Cardinality(holders \ {p}) =
               IF p \in holders THEN Cardinality(holders) - 1 ELSE Cardinality(holders)
      BY <2>1, FS_RemoveElement
    <3> QED BY <2>1, <2>3, <3>1 DEF SlotMove
  <2> QED BY <2>2, <2>3
<1> DEFINE waiting == {q \in Procs : pc[q] = "waiting"}
<1>3. /\ queue \in Seq(Procs) /\ Len(queue) \in Nat
      /\ {queue[i] : i \in 1..Len(queue)} = waiting
      /\ \A i, k \in 1..Len(queue) : queue[i] = queue[k] => i = k
  BY DEF TypeOK, SlotInv
<1>4. CASE pc[p] # "waiting" /\ at # "waiting" /\ queue' = queue
  <2>1. {q \in Procs : pc'[q] = "waiting"} = waiting
    BY <1>4 DEF SlotMove, TypeOK
  <2> QED BY <1>1, <1>2, <1>3, <1>4, <2>1 DEF SlotInv
<1>5. CASE pc[p] # "waiting" /\ at = "waiting" /\ queue' = Append(queue, p)
  <2>1. {q \in Procs : pc'[q] = "waiting"} = waiting \cup {p}
    BY <1>5 DEF SlotMove, TypeOK
  <2>2. /\ Len(queue') = Len(queue) + 1 /\ queue'[Len(queue) + 1] = p
        /\ \A i \in 1..Len(queue) : queue'[i] = queue[i]
    BY <1>3, <1>5
  <2>3. {queue'[i] : i \in 1..Len(queue')} = waiting \cup {p}
    <3>1. ASSUME NEW i \in 1..Len(queue') PROVE queue'[i] \in waiting \cup {p}
      BY <1>3, <2>2
    <3>2. ASSUME NEW q \in waiting \cup {p} PROVE \E i \in 1..Len(queue') : queue'[i] = q
      <4>1. CASE q = p  BY <1>3, <2>2, <4>1
      <4>2. CASE q \in waiting
        <5>1. PICK i \in 1..Len(queue) : queue[i] = q  BY <1>3, <4>2
        <5> QED BY <1>3, <2>2, <5>1
      <4> QED BY <4>1, <4>2
    <3> QED BY <3>1, <3>2
  <2>4. p \notin waiting  BY <1>5
  <2>5. ASSUME NEW i \in 1..Len(queue'), NEW k \in 1..Len(queue'), queue'[i] = queue'[k]
        PROVE  i = k
    <3>1. \A n \in 1..Len(queue) : queue'[n] # p  BY <1>3, <2>2, <2>4
    <3> QED BY <1>3, <2>2, <2>5, <3>1
  <2> QED BY <1>1, <1>2, <2>1, <2>3, <2>5 DEF SlotInv
<1>6. CASE /\ pc[p] = "waiting" /\ at # "waiting" /\ queue # <<>> /\ Head(queue) = p
           /\ queue' = Tail(queue)
  <2>1. {q \in Procs : pc'[q] = "waiting"} = waiting \ {p}
    BY <1>6 DEF SlotMove, TypeOK
  <2>2. /\ Len(queue) > 0 /\ Len(queue') = Len(queue) - 1 /\ queue[1] = p
        /\ \A i \in 1..Len(queue') : queue'[i] = queue[i + 1]
    BY <1>3, <1>6
  <2>3. {queue'[i] : i \in 1..Len(queue')} = waiting \ {p}
    <3>1. ASSUME NEW i \in 1..Len(queue') PROVE queue'[i] \in waiting \ {p}
      <4>1. i + 1 \in 1..Len(queue) /\ i + 1 # 1 /\ 1 \in 1..Len(queue)  BY <1>3, <2>2
      <4>2. queue[i + 1] # queue[1]  BY <1>3, <4>1
      <4> QED BY <1>3, <2>2, <4>1, <4>2
    <3>2. ASSUME NEW q \in waiting \ {p} PROVE \E i \in 1..Len(queue') : queue'[i] = q
      <4>1. PICK k \in 1..Len(queue) : queue[k] = q  BY <1>3
      <4>2. k # 1  BY <2>2, <4>1
      <4>3. k - 1 \in 1..Len(queue') /\ (k - 1) + 1 = k  BY <1>3, <2>2, <4>1, <4>2
      <4> QED BY <2>2, <4>1, <4>3
    <3> QED BY <3>1, <3>2
  <2>4. ASSUME NEW i \in 1..Len(queue'), NEW k \in 1..Len(queue'), queue'[i] = queue'[k]
        PROVE  i = k
    <3>1. i + 1 \in 1..Len(queue) /\ k + 1 \in 1..Len(queue)  BY <1>3, <2>2
    <3>2. i + 1 = k + 1  BY <1>3, <2>2, <2>4, <3>1
    <3> QED BY <3>2
  <2> QED BY <1>1, <1>2, <2>1, <2>3, <2>4 DEF SlotInv
<1> QED BY <1>4, <1>5, <1>6 DEF SlotMove

\* A run that ends gives its slot back.
LEMMA SlotEnds ==
  ASSUME TypeOK, SlotInv, NEW p \in Procs, NEW rec, Finish(p, rec), pc[p] # "waiting",
         queue' = queue, holders' = holders \ {p}
  PROVE  SlotInv'
<1>1. PICK at \in {"idle", "orphaned"} : pc' = [pc EXCEPT ![p] = at]
  BY DEF Finish, Suspend, GoIdle
<1>2. SlotMove(p, at)  BY <1>1 DEF SlotMove, InSlot
<1> QED BY <1>2, SlotMoved

LEMMA SlotBegins ==
  ASSUME TypeOK, SlotInv, NEW p \in Procs, NEW rec, Begin(p, rec), SlotFree,
         \/ pc[p] = "created" /\ queue' = queue
         \/ pc[p] = "waiting" /\ queue # <<>> /\ Head(queue) = p /\ queue' = Tail(queue)
  PROVE  SlotInv'
<1>0. p \notin holders /\ pc[p] \notin InSlot  BY DEF SlotInv, InSlot
<1>1. ASSUME NEW at, pc' = [pc EXCEPT ![p] = at], at # "waiting",
             \/ at \in InSlot /\ holders' = holders \cup {p}
             \/ at \notin InSlot /\ holders' = holders
      PROVE  SlotInv'
  <2>1. SlotMove(p, at)  BY <1>0, <1>1 DEF SlotMove
  <2> QED BY <2>1, SlotMoved
<1>2. ASSUME NEW r, NEW at, Suspend(p, r, at) PROVE pc' = [pc EXCEPT ![p] = at]
  BY <1>2 DEF Suspend
<1>3. CASE BeginPlan(p, rec)
  <2>1. CASE Hold(p) /\ Suspend(p, Advance(rec, "FETCHING_TICKET"), "fetch")
    BY <1>1, <1>2, <2>1 DEF Hold, InSlot
  <2>2. CASE UNCHANGED holders /\ Finish(p, Fail(rec, "FAILED"))
    <3>1. pc' = [pc EXCEPT ![p] = "orphaned"] \/ pc' = [pc EXCEPT ![p] = "idle"]
      BY <2>2 DEF Finish, Suspend, GoIdle
    <3> QED BY <1>1, <2>2, <3>1 DEF InSlot
  <2> QED BY <1>3, <2>1, <2>2 DEF BeginPlan, Continue
<1>4. CASE BeginImplement(p, rec)
  <2>1. \/ Hold(p) /\ Suspend(p, rec, "baseline")
        \/ UNCHANGED holders /\ Suspend(p, rec, "failing")
    BY <1>4 DEF BeginImplement
  <2> QED BY <1>1, <1>2, <2>1 DEF Hold, InSlot
<1>5. CASE BeginCorrect(p, rec)
  <2> DEFINE started == [rec EXCEPT !.fixStarted = TRUE]
  <2>1. \/ UNCHANGED holders /\ Suspend(p, rec, "refused")
        \/ UNCHANGED holders /\ Suspend(p, rec, "failing")
        \/ UNCHANGED holders /\ Suspend(p, started, "failing")
        \/ Hold(p) /\ Suspend(p, started, "agent")
    BY <1>5 DEF BeginCorrect, Continue
  <2> HIDE DEF started
  <2> QED BY <1>1, <1>2, <2>1 DEF Hold, InSlot
<1> QED BY <1>3, <1>4, <1>5 DEF Begin

LEMMA SlotsStep ==
  ASSUME TypeOK, ThreadsOwned, SlotInv, NEW p \in Procs, Step(p) \/ Thread(p)
  PROVE  SlotInv'
<1>0. (pc[p] \in InSlot) = (p \in holders)  BY DEF SlotInv
<1>1. ASSUME NEW at, pc' = [pc EXCEPT ![p] = at], at # "waiting", pc[p] # "waiting",
             queue' = queue,
             \/ at \in InSlot /\ pc[p] \in InSlot /\ holders' = holders
             \/ at \notin InSlot /\ pc[p] \notin InSlot /\ holders' = holders
             \/ at \notin InSlot /\ holders' = holders \ {p}
      PROVE  SlotInv'
  <2>1. SlotMove(p, at)  BY <1>0, <1>1 DEF SlotMove
  <2> QED BY <2>1, SlotMoved
<1>2. CASE GitDone(p) \/ GitFailed(p)
  BY <1>1, <1>2 DEF GitDone, GitFailed, GoIdle, slotVars, InSlot
<1>3. CASE RunnerStart(p) \/ RunnerWoken(p)
  BY <1>3, SlotBegins DEF RunnerStart, RunnerWoken
<1>4. CASE RunnerQueues(p)
  <2>1. SlotMove(p, "waiting")
    BY <1>0, <1>4 DEF RunnerQueues, SlotMove, Suspend, InSlot
  <2> QED BY <2>1, SlotMoved
<1>5. CASE PlanStageDone(p)
  <2>1. StageAfter(pc[p]).pc \in InSlot /\ StageAfter(pc[p]).pc # "waiting"
    BY <1>5 DEF PlanStageDone, StageAfter, InSlot
  <2> QED BY <1>1, <1>5, <2>1 DEF PlanStageDone, Continue, Suspend, slotVars, InSlot
<1>6. CASE PlanStageFailed(p) \/ PlanReturned(p) \/ PlanFailedWithUsage(p) \/ PlanFailedNoUsage(p)
           \/ Validated(p)
  <2>1. /\ \E rec : Finish(p, rec)
        /\ pc[p] # "waiting" /\ Release(p)
    BY <1>6 DEF PlanStageFailed, PlanReturned, PlanFailedWithUsage, PlanFailedNoUsage, Validated
  <2> QED BY <2>1, SlotEnds DEF Release
<1>7. CASE ImplementationStarted(p) \/ EditsReturned(p) \/ DiffCollected(p)
  <2>1. \E at \in {"agent", "diff", "validate"} : pc' = [pc EXCEPT ![p] = at]
    BY <1>7 DEF ImplementationStarted, EditsReturned, DiffCollected, Continue, Suspend
  <2>2. pc[p] \in InSlot /\ pc[p] # "waiting" /\ UNCHANGED slotVars
    BY <1>7 DEF ImplementationStarted, EditsReturned, DiffCollected, InSlot
  <2> QED BY <1>1, <2>1, <2>2 DEF slotVars, InSlot
<1>8. CASE EditsFailedWithUsage(p) \/ EditsFailedNoUsage(p) \/ StepFailed(p)
  <2>1. pc' = [pc EXCEPT ![p] = "failing"] /\ pc[p] # "waiting" /\ Release(p)
    BY <1>8 DEF EditsFailedWithUsage, EditsFailedNoUsage, StepFailed, Suspend
  <2> QED BY <1>1, <2>1 DEF Release, InSlot
<1>9. CASE FailureRecorded(p)
  <2>1. /\ \E rec : Finish(p, rec)
        /\ pc[p] \in {"failing", "refused"} /\ UNCHANGED slotVars
    BY <1>9 DEF FailureRecorded
  <2>2. holders' = holders \ {p}  BY <1>0, <2>1 DEF slotVars, InSlot
  <2> QED BY <2>1, <2>2, SlotEnds DEF slotVars
<1>10. CASE RefreshRaised(p)
  BY <1>1, <1>10 DEF RefreshRaised, Suspend, GoIdle, slotVars, InSlot
<1>11. CASE Report(p)
  BY <1>11 DEF Report, loopVars, slotVars, SlotInv
<1>12. CASE OrphanEnds(p)
  <2>1. CASE pc[p] = "orphaned"
    BY <1>1, <1>12, <2>1 DEF OrphanEnds, GoIdle, slotVars, InSlot
  <2>2. CASE pc[p] # "orphaned"
    BY <1>12, <2>2 DEF OrphanEnds, loopVars, slotVars, SlotInv
  <2> QED BY <2>1, <2>2
<1> QED BY <1>2, <1>3, <1>4, <1>5, <1>6, <1>7, <1>8, <1>9, <1>10, <1>11, <1>12 DEF Step, Thread

LEMMA SlotsNext == TypeOK /\ ThreadsOwned /\ SlotInv /\ [Next]_vars => SlotInv'
<1> SUFFICES ASSUME TypeOK, ThreadsOwned, SlotInv, [Next]_vars PROVE SlotInv'
  OBVIOUS
<1>1. ASSUME NEW p \in Procs, NEW j \in Jobs, Request(p, j) PROVE SlotInv'
  <2>1. /\ pc[p] = "idle" /\ UNCHANGED slotVars
        /\ \E at \in {"created", "git"} : pc' = [pc EXCEPT ![p] = at]
    BY <1>1 DEF Request, CreateJob, ImplementJob, CorrectValidation, CreateBranch, PushBranch,
                Accepted, Spawn
  <2>2. \E at : SlotMove(p, at)
    BY <2>1 DEF SlotMove, SlotInv, slotVars, InSlot
  <2> QED BY <2>2, SlotMoved
<1>2. ASSUME holders' = {}, queue' = <<>>, \A p \in Procs : pc'[p] \in {"idle", "orphaned"}
      PROVE  SlotInv'
  BY <1>2, FS_EmptySet, SlotLimitAssumption DEF SlotInv, InSlot
<1>3. CASE Crash \/ Exit \/ Shutdown
  BY <1>2, <1>3 DEF Crash, Exit, Die, Shutdown
<1>4. CASE UNCHANGED vars \/ Restart \/ Serve \/ \E j \in Jobs : RecoverJob(j) \/ RecoverySkips(j)
  <2>1. UNCHANGED <<pc, holders, queue>>
    BY <1>4 DEF vars, loopVars, slotVars, Restart, Serve, RecoverJob, RecoverySkips
  <2> QED BY <2>1 DEF SlotInv
<1> QED BY <1>1, <1>3, <1>4, SlotsStep DEF Next, Recovery

\* The agent-slot semaphore loses no slot and grants none twice: for any limit, the holders are
\* exactly the runners inside `async with agent_slot`, the waiters are exactly the queue, and
\* an agent thread runs without a slot only once its runner has given it up.
THEOREM SlotsAreConserved == Spec => []SlotsConserved
<1>1. Init => TypeOK /\ ThreadsOwned /\ SlotInv
  BY TypeInit, FS_EmptySet, SlotLimitAssumption DEF Init, ThreadsOwned, SlotInv, InSlot
<1>2. ThreadsOwned /\ SlotInv /\ TypeOK => SlotsConserved
  BY DEF ThreadsOwned, SlotInv, SlotsConserved, TypeOK, InSlot
<1> QED BY <1>1, <1>2, TypeNext, SlotsNext, PTL DEF Spec

-----------------------------------------------------------------------------
(* A plan is implemented at most once: ApprovalInv is inductive.  Only the *)
(* approval (ImplementJob) takes a job from one side to the other, and it  *)
(* finds no coroutine on the job; every other write is made by a coroutine *)
(* whose row and copy are already on its side.                             *)

\* The two sides share no state, and where the literal states lie.
LEMMA Sides ==
  /\ \A k, rec : Fits(k, rec) => ((k = "plan") = (rec.state \in BeforeApproval))
  /\ PlanStates \cup {"FAILED"} \subseteq BeforeApproval
  /\ \A s \in ImplementationStates \cup CorrectionStates
              \cup {"IMPLEMENTATION_READY", "IMPLEMENTATION_FAILED"} :
       s \in AfterApproval /\ s \notin BeforeApproval
  /\ JobStates \cup {"ABSENT"} = BeforeApproval \cup AfterApproval
BY DEF Fits, BeforeApproval, AfterApproval, JobStates, PlanStates, ImplementationStates,
       CorrectionStates, TerminalStates

\* Two coroutines of one job are on the same side.
LEMMA SameSide ==
  ASSUME CopiesFit, NEW p \in Procs, NEW q \in Procs, pc[p] # "idle", pc[q] # "idle",
         target[p] = target[q]
  PROVE  /\ (kind[p] = "plan") = (kind[q] = "plan")
         /\ \A rec : Fits(kind[p], rec) => Fits(kind[q], rec)
<1>1. (kind[p] = "plan") = (kind[q] = "plan")
  BY Sides DEF CopiesFit
<1> QED BY <1>1 DEF Fits

\* A coroutine that keeps to its side in what it saves and what it keeps preserves the
\* invariant.
StaysInSide(p, copy, at) ==
  /\ Suspend(p, copy, at) /\ Fits(kind[p], copy) /\ at \notin {"created", "idle"}
  /\ at \in {"waiting", "baseline"} => pc[p] \in {"created", "waiting"}

LEMMA MoveSides ==
  ASSUME TypeOK, ApprovalInv, NEW p \in Procs, pc[p] # "idle",
         NEW rec, db' = db \/ (db' = [db EXCEPT ![target[p]] = rec] /\ Fits(kind[p], rec)),
         GoIdle(p) \/ \E copy, at : StaysInSide(p, copy, at),
         UNCHANGED <<server, unfinished>>
  PROVE  CopiesFit' /\ SoleRunner' /\ RestartIsClean'
<1> PICK copy, at : GoIdle(p) \/ StaysInSide(p, copy, at)
  OBVIOUS
<1>1. /\ target[p] \in Jobs
      /\ \A q \in Procs : pc[q] # "idle" => target[q] \in Jobs /\ kind[q] # "none"
      /\ kind[p] # "none"
  BY DEF TypeOK
<1>2. \A q \in Procs : q # p =>
        kind'[q] = kind[q] /\ target'[q] = target[q] /\ pc'[q] = pc[q] /\ mem'[q] = mem[q]
  BY DEF GoIdle, StaysInSide, Suspend, TypeOK
<1>3. CopiesFit'
  <2> SUFFICES ASSUME NEW q \in Procs, pc'[q] # "idle"
               PROVE  /\ Fits(kind'[q], db'[target'[q]])
                      /\ pc'[q] # "created" => Fits(kind'[q], mem'[q])
    BY DEF CopiesFit
  <2>1. CASE q = p
    <3>1. Suspend(p, copy, at) /\ Fits(kind[p], copy)
      BY <2>1 DEF StaysInSide, GoIdle, TypeOK
    <3>2. kind'[p] = kind[p] /\ target'[p] = target[p] /\ mem'[p] = copy
      BY <3>1 DEF Suspend, TypeOK
    <3>3. Fits(kind[p], db'[target[p]])
      BY <1>1 DEF ApprovalInv, CopiesFit, TypeOK
    <3> QED BY <2>1, <3>1, <3>2, <3>3
  <2>2. CASE q # p
    <3>1. /\ Fits(kind[q], db[target[q]])
          /\ pc[q] # "created" => Fits(kind[q], mem[q])
      BY <1>2, <2>2 DEF ApprovalInv, CopiesFit
    <3>2. CASE db'[target[q]] = db[target[q]]
      BY <1>2, <2>2, <3>1, <3>2
    <3>3. CASE db'[target[q]] # db[target[q]]
      <4>1. target[q] = target[p] /\ db'[target[q]] = rec /\ Fits(kind[p], rec)
        BY <1>1, <1>2, <2>2, <3>3 DEF TypeOK
      <4>2. Fits(kind[q], rec)
        BY <1>2, <2>2, <4>1, SameSide DEF ApprovalInv
      <4> QED BY <1>2, <2>2, <3>1, <4>1, <4>2
    <3> QED BY <3>2, <3>3
  <2> QED BY <2>1, <2>2
<1>4. \/ kind'[p] = "none" /\ pc'[p] = "idle"
      \/ /\ kind'[p] = kind[p] /\ target'[p] = target[p] /\ pc'[p] = at
         /\ at # "created"
         /\ at \in {"waiting", "baseline"} => pc[p] \in {"created", "waiting"}
  BY DEF GoIdle, StaysInSide, Suspend, TypeOK
<1>5. SoleRunner'
  BY <1>2, <1>4 DEF ApprovalInv, SoleRunner
<1>6. RestartIsClean'
  BY DEF ApprovalInv, RestartIsClean
<1> QED BY <1>3, <1>5, <1>6

LEMMA MoveKeeps ==
  ASSUME TypeOK, ApprovalInv, NEW p \in Procs, pc[p] # "idle",
         NEW rec, db' = db \/ (db' = [db EXCEPT ![target[p]] = rec] /\ Fits(kind[p], rec)),
         GoIdle(p) \/ \E copy, at : StaysInSide(p, copy, at),
         UNCHANGED <<implRuns, server, unfinished>>
  PROVE  ApprovalInv'
<1>1. target[p] \in Jobs
  BY DEF TypeOK
<1>2. \A q \in Procs : q # p =>
        kind'[q] = kind[q] /\ target'[q] = target[q] /\ pc'[q] = pc[q]
  BY DEF GoIdle, StaysInSide, Suspend, TypeOK
<1>3. \/ kind'[p] = "none" /\ pc'[p] = "idle"
      \/ /\ kind'[p] = kind[p] /\ target'[p] = target[p]
         /\ pc'[p] # "created"
         /\ pc'[p] \in {"waiting", "baseline"} => pc[p] \in {"created", "waiting"}
  BY DEF GoIdle, StaysInSide, Suspend, TypeOK
<1>4. NotYetImplemented'
  <2>1. \A j \in Jobs : db'[j].state \in BeforeApproval => implRuns[j] = 0 /\ ~db'[j].branch
    <3> SUFFICES ASSUME NEW j \in Jobs, db'[j].state \in BeforeApproval
                 PROVE  implRuns[j] = 0 /\ ~db'[j].branch
      OBVIOUS
    <3>1. CASE db'[j] = db[j]
      BY <3>1 DEF ApprovalInv, NotYetImplemented
    <3>2. CASE db'[j] # db[j]
      <4>1. j = target[p] /\ db'[j] = rec /\ Fits(kind[p], rec)
        BY <1>1, <3>2 DEF TypeOK
      <4>2. kind[p] = "plan"  BY <4>1, Sides
      <4>3. db[j].state \in BeforeApproval
        BY <4>1, <4>2, Sides DEF ApprovalInv, CopiesFit
      <4> QED BY <4>1, <4>2, <4>3 DEF ApprovalInv, NotYetImplemented, Fits
    <3> QED BY <3>1, <3>2
  <2>2. \A q \in Procs : kind'[q] = "implement" /\ pc'[q] \in {"created", "waiting", "baseline"}
          => implRuns[target'[q]] = 0
    BY <1>2, <1>3 DEF ApprovalInv, NotYetImplemented
  <2> QED BY <2>1, <2>2 DEF NotYetImplemented
<1> QED BY <1>4, MoveSides DEF ApprovalInv, ImplementedAtMostOnce

-----------------------------------------------------------------------------
(* Requests                                                                *)

\* A row nobody has planned, or whose plan waits for approval, has no coroutine.
LEMMA Unattended ==
  ASSUME TypeOK, ApprovalInv, NEW j \in Jobs, db[j].state \in {"ABSENT", "PLAN_READY"}
  PROVE  \A q \in Procs : pc[q] # "idle" => target[q] # j
<1>1. /\ db[j].state \notin PlanStates \cup {"FAILED"}
      /\ db[j].state \notin AfterApproval
  BY DEF PlanStates, AfterApproval, BeforeApproval
<1> QED BY <1>1 DEF ApprovalInv, CopiesFit, Fits

\* A new coroutine on the side of its row, for a job nobody else works on or of a kind that
\* may share its job.
LEMMA SpawnKeeps ==
  ASSUME TypeOK, ApprovalInv, NEW p \in Procs, pc[p] = "idle", NEW j \in Jobs,
         NEW k \in Runners \cup Requests, NEW rec, NEW at,
         Spawn(p, k, j, rec, at), server = "serving",
         at # "created" => Fits(k, rec),
         \A i \in Jobs : i # j => db'[i] = db[i],
         Fits(k, db'[j]),
         \/ \A q \in Procs : pc[q] # "idle" => target[q] # j
         \/ /\ Fits(k, db[j])
            /\ k \notin {"plan", "implement"},
         db'[j].state \in BeforeApproval => ~db'[j].branch,
         db'[j].state \in BeforeApproval \/ k = "implement" => implRuns[j] = 0,
         UNCHANGED <<implRuns, server, unfinished>>
  PROVE  ApprovalInv'
<1>1. /\ kind'[p] = k /\ target'[p] = j /\ pc'[p] = at /\ mem'[p] = rec
      /\ \A q \in Procs : q # p =>
           kind'[q] = kind[q] /\ target'[q] = target[q] /\ pc'[q] = pc[q] /\ mem'[q] = mem[q]
  BY DEF Spawn, TypeOK
<1>2. \A q \in Procs : /\ pc[q] # "idle" => target[q] \in Jobs
                       /\ kind[q] # "none" => pc[q] # "idle"
  BY DEF TypeOK
<1>3. \A q \in Procs : pc[q] # "idle" /\ target[q] = j => Fits(kind[q], db'[j])
  <2> SUFFICES ASSUME NEW q \in Procs, pc[q] # "idle", target[q] = j
               PROVE  Fits(kind[q], db'[j])
    OBVIOUS
  <2>1. Fits(k, db[j]) /\ k # "plan"
    OBVIOUS
  <2>2. Fits(kind[q], db[j])
    BY DEF ApprovalInv, CopiesFit
  <2>3. kind[q] # "plan"
    BY <2>1, <2>2, Sides
  <2> QED BY <2>1, <2>3 DEF Fits
<1>4. CopiesFit'
  BY <1>1, <1>2, <1>3 DEF ApprovalInv, CopiesFit
<1>5. SoleRunner'
  <2> SUFFICES ASSUME NEW q \in Procs, NEW r \in Procs, q # r, kind'[q] = kind'[r],
                      kind'[q] \in {"plan", "implement"}
               PROVE  target'[q] # target'[r]
    BY DEF SoleRunner
  <2>1. CASE q # p /\ r # p
    BY <1>1, <2>1 DEF ApprovalInv, SoleRunner
  <2>2. ASSUME NEW x \in Procs, x # p, kind[x] \in {"plan", "implement"}, kind'[p] = kind[x]
        PROVE  target[x] # j
    <3>1. pc[x] # "idle" /\ k \in {"plan", "implement"}  BY <1>1, <1>2, <2>2
    <3> QED BY <3>1, <2>2
  <2> QED BY <1>1, <2>1, <2>2
<1>6. NotYetImplemented'
  BY <1>1 DEF ApprovalInv, NotYetImplemented
<1>7. RestartIsClean'
  BY DEF ApprovalInv, RestartIsClean
<1> QED BY <1>4, <1>5, <1>6, <1>7 DEF ApprovalInv, ImplementedAtMostOnce

LEMMA RequestKeeps ==
  ASSUME TypeOK, ApprovalInv, NEW p \in Procs, NEW j \in Jobs, Request(p, j)
  PROVE  ApprovalInv'
<1>0. /\ pc[p] = "idle" /\ server = "serving"
      /\ UNCHANGED <<implRuns, server, unfinished>>
  BY DEF Request, CreateJob, ImplementJob, CorrectValidation, CreateBranch, PushBranch,
         Accepted, serverVars, historyVars
<1>1. db[j].state \in JobStates \cup {"ABSENT"}
  BY DEF TypeOK, JobRecord
<1>2. CASE CreateJob(p, j)
  <2>1. /\ db[j].state = "ABSENT" /\ db' = [db EXCEPT ![j] = NewJob]
        /\ Spawn(p, "plan", j, NoRow, "created")
    BY <1>2 DEF CreateJob
  <2>2. NewJob.state \in PlanStates /\ ~NewJob.branch  BY DEF NewJob, NoRow, PlanStates
  <2>3. db'[j] = NewJob /\ \A i \in Jobs : i # j => db'[i] = db[i]
    BY <2>1 DEF TypeOK
  <2>4. Fits("plan", db'[j]) /\ ~db'[j].branch  BY <2>2, <2>3 DEF Fits
  <2>5. implRuns[j] = 0
    BY <2>1 DEF ApprovalInv, NotYetImplemented, BeforeApproval
  <2>6. "plan" \in Runners \cup Requests  BY DEF Runners
  <2> QED BY <1>0, <2>1, <2>3, <2>4, <2>5, <2>6, Unattended, SpawnKeeps
<1>3. CASE ImplementJob(p, j)
  <2>1. /\ db[j].state = "PLAN_READY" /\ db' = [db EXCEPT ![j] = Approved(@)]
        /\ Spawn(p, "implement", j, NoRow, "created")
    BY <1>3 DEF ImplementJob, CanImplement
  <2>2. /\ db'[j].state = "IMPLEMENTATION_QUEUED"
        /\ \A i \in Jobs : i # j => db'[i] = db[i]
    BY <2>1 DEF TypeOK, Approved, JobRecord
  <2>3. Fits("implement", db'[j]) /\ db'[j].state \notin BeforeApproval
    BY <2>2, Sides DEF Fits, ImplementationStates
  <2>4. implRuns[j] = 0
    BY <2>1 DEF ApprovalInv, NotYetImplemented, BeforeApproval
  <2>5. "implement" \in Runners \cup Requests  BY DEF Runners
  <2> QED BY <1>0, <2>1, <2>2, <2>3, <2>4, <2>5, Unattended, SpawnKeeps
<1>4. CASE CorrectValidation(p, j)
  <2>1. /\ db[j].state = "IMPLEMENTATION_READY" /\ db' = [db EXCEPT ![j] = CorrectionRequested(@)]
        /\ Spawn(p, "correct", j, NoRow, "created")
    BY <1>4 DEF CorrectValidation, CanCorrect
  <2>2. /\ db'[j].state = "CORRECTING"
        /\ \A i \in Jobs : i # j => db'[i] = db[i]
    BY <2>1 DEF TypeOK, CorrectionRequested, JobRecord
  <2>3. Fits("correct", db'[j]) /\ Fits("correct", db[j]) /\ db'[j].state \notin BeforeApproval
    BY <2>1, <2>2, Sides DEF Fits, CorrectionStates
  <2>4. "correct" \in Runners \cup Requests  BY DEF Runners
  <2> QED BY <1>0, <2>1, <2>2, <2>3, <2>4, SpawnKeeps
<1>5. CASE CreateBranch(p, j) \/ PushBranch(p, j)
  <2>1. PICK k \in {"branch", "push"} : Spawn(p, k, j, db[j], "git") /\ db' = db
    BY <1>5 DEF CreateBranch, PushBranch
  <2>2. db[j].state \in AfterApproval
    <3>1. CASE CreateBranch(p, j)
      BY <3>1, Sides DEF CreateBranch, CanCreateBranch
    <3>2. CASE PushBranch(p, j)
      BY <1>1, <3>2 DEF PushBranch, CanPush, ApprovalInv, NotYetImplemented, AfterApproval, BeforeApproval
    <3> QED BY <1>5, <3>1, <3>2
  <2>3. Fits(k, db[j]) /\ db[j].state \notin BeforeApproval
    BY <2>2 DEF Fits, AfterApproval
  <2>4. k \in Runners \cup Requests  BY DEF Requests
  <2> QED BY <1>0, <2>1, <2>3, <2>4, SpawnKeeps
<1> QED BY <1>2, <1>3, <1>4, <1>5 DEF Request

-----------------------------------------------------------------------------
(* Each kind of coroutine suspends only at its own awaits.                 *)

AwaitsOf(k) ==
  CASE k = "none"      -> {"idle"}
    [] k \in Requests  -> {"git"}
    [] k = "plan"      -> {"created", "waiting", "fetch", "clone", "map", "agent", "orphaned"}
    [] k = "implement" -> {"created", "waiting", "baseline", "agent", "diff", "validate",
                           "failing", "orphaned"}
    [] k = "correct"   -> {"created", "waiting", "agent", "validate", "failing", "refused",
                           "orphaned"}

AtItsAwait == \A p \in Procs : pc[p] \in AwaitsOf(kind[p])

LEMMA AwaitFacts ==
  /\ AwaitsOf("none") = {"idle"}
  /\ AwaitsOf("branch") = {"git"} /\ AwaitsOf("push") = {"git"}
  /\ AwaitsOf("plan") =
       {"created", "waiting", "fetch", "clone", "map", "agent", "orphaned"}
  /\ AwaitsOf("implement") =
       {"created", "waiting", "baseline", "agent", "diff", "validate", "failing", "orphaned"}
  /\ AwaitsOf("correct") =
       {"created", "waiting", "agent", "validate", "failing", "refused", "orphaned"}
BY DEF AwaitsOf, Requests

LEMMA AwaitMoves ==
  ASSUME TypeOK, AtItsAwait, NEW p \in Procs,
         GoIdle(p) \/ \E rec, at : Suspend(p, rec, at) /\ at \in AwaitsOf(kind[p])
  PROVE  AtItsAwait'
BY AwaitFacts DEF AtItsAwait, TypeOK, GoIdle, Suspend

LEMMA AwaitFinish ==
  ASSUME TypeOK, AtItsAwait, NEW p \in Procs, kind[p] \in Runners, NEW rec, Finish(p, rec)
  PROVE  AtItsAwait'
BY AwaitFacts, AwaitMoves DEF Finish, Runners

LEMMA AwaitRequest ==
  ASSUME TypeOK, AtItsAwait, NEW p \in Procs, NEW j \in Jobs, Request(p, j)
  PROVE  AtItsAwait'
<1>1. PICK k \in Runners \cup Requests :
        \E rec, at : Spawn(p, k, j, rec, at) /\ at \in AwaitsOf(k)
  BY AwaitFacts
  DEF Request, CreateJob, ImplementJob, CorrectValidation, CreateBranch, PushBranch, Runners,
      Requests
<1> QED BY <1>1 DEF Spawn, AtItsAwait, TypeOK

LEMMA AwaitStep ==
  ASSUME TypeOK, AtItsAwait, ThreadsOwned, NEW p \in Procs, Step(p) \/ Thread(p)
  PROVE  AtItsAwait'
<1>0. pc[p] \in AwaitsOf(kind[p]) /\ kind[p] \in Runners \cup Requests \cup {"none"}
  BY DEF AtItsAwait, TypeOK
<1>1. CASE GitDone(p) \/ GitFailed(p)
  BY <1>1, AwaitMoves DEF GitDone, GitFailed
<1>2. CASE RunnerStart(p) \/ RunnerQueues(p) \/ RunnerWoken(p)
  <2>1. ASSUME NEW rec, Begin(p, rec) PROVE AtItsAwait'
    <3>1. CASE kind[p] = "plan" /\ BeginPlan(p, rec)
      BY <3>1, AwaitFacts, AwaitMoves, AwaitFinish DEF BeginPlan, Continue, Runners
    <3>2. CASE kind[p] = "implement" /\ BeginImplement(p, rec)
      BY <3>2, AwaitFacts, AwaitMoves DEF BeginImplement
    <3>3. CASE kind[p] = "correct" /\ BeginCorrect(p, rec)
      BY <3>3, AwaitFacts, AwaitMoves DEF BeginCorrect, Continue
    <3> QED BY <2>1, <3>1, <3>2, <3>3 DEF Begin
  <2>2. CASE RunnerQueues(p)
    BY <1>0, <2>2, AwaitFacts, AwaitMoves DEF RunnerQueues, Runners, Requests
  <2> QED BY <1>2, <2>1, <2>2 DEF RunnerStart, RunnerWoken
<1>3. CASE PlanStageDone(p)
  <2>1. kind[p] = "plan"
    BY <1>0, <1>3, AwaitFacts DEF PlanStageDone, Runners, Requests
  <2>2. StageAfter(pc[p]).pc \in AwaitsOf(kind[p])
    BY <2>1, AwaitFacts DEF StageAfter
  <2> QED BY <1>3, <2>2, AwaitMoves DEF PlanStageDone, Continue
<1>4. CASE PlanStageFailed(p) \/ Validated(p) \/ FailureRecorded(p)
  <2>1. kind[p] \in Runners
    BY <1>0, <1>4, AwaitFacts DEF PlanStageFailed, Validated, FailureRecorded, Runners, Requests
  <2> QED BY <1>4, <2>1, AwaitFinish DEF PlanStageFailed, Validated, FailureRecorded
<1>5. CASE PlanReturned(p) \/ PlanFailedWithUsage(p) \/ PlanFailedNoUsage(p)
  BY <1>5, AwaitFinish DEF PlanReturned, PlanFailedWithUsage, PlanFailedNoUsage, Runners
<1>6. CASE ImplementationStarted(p)
  BY <1>0, <1>6, AwaitFacts, AwaitMoves DEF ImplementationStarted, Continue, Runners, Requests
<1>7. CASE EditsReturned(p)
  BY <1>7, AwaitFacts, AwaitMoves DEF EditsReturned, Continue
<1>8. CASE EditsFailedWithUsage(p) \/ EditsFailedNoUsage(p) \/ StepFailed(p)
  <2>1. kind[p] \in {"implement", "correct"}
    BY <1>0, <1>8, AwaitFacts
    DEF EditsFailedWithUsage, EditsFailedNoUsage, StepFailed, Runners, Requests
  <2> QED BY <1>8, <2>1, AwaitFacts, AwaitMoves
          DEF EditsFailedWithUsage, EditsFailedNoUsage, StepFailed
<1>9. CASE DiffCollected(p)
  BY <1>0, <1>9, AwaitFacts, AwaitMoves DEF DiffCollected, Continue, Runners, Requests
<1>10. CASE RefreshRaised(p)
  BY <1>0, <1>10, AwaitFacts, AwaitMoves DEF RefreshRaised, Runners, Requests
<1>11. CASE Report(p)
  BY <1>11 DEF Report, loopVars, AtItsAwait
<1>12. CASE OrphanEnds(p)
  BY <1>12, AwaitMoves DEF OrphanEnds, loopVars, AtItsAwait
<1> QED BY <1>1, <1>2, <1>3, <1>4, <1>5, <1>6, <1>7, <1>8, <1>9, <1>10, <1>11, <1>12
        DEF Step, Thread

LEMMA AwaitNext == TypeOK /\ ThreadsOwned /\ AtItsAwait /\ [Next]_vars => AtItsAwait'
<1> SUFFICES ASSUME TypeOK, ThreadsOwned, AtItsAwait, [Next]_vars PROVE AtItsAwait'
  OBVIOUS
<1>1. CASE Crash \/ Exit
  BY <1>1, AwaitFacts DEF Crash, Exit, Die, AtItsAwait
<1>2. CASE Shutdown
  <2>1. \A p \in threads : kind[p] \in Runners
    <3> SUFFICES ASSUME NEW p \in threads PROVE kind[p] \in Runners
      OBVIOUS
    <3>1. p \in Procs /\ pc[p] \in {"agent", "failing", "orphaned"}  BY DEF ThreadsOwned, TypeOK
    <3> QED BY <3>1, AwaitFacts DEF AtItsAwait, TypeOK, Runners, Requests
  <2> QED BY <1>2, <2>1, AwaitFacts DEF Shutdown, AtItsAwait, Runners
<1>3. CASE Restart \/ (\E j \in Jobs : RecoverJob(j) \/ RecoverySkips(j)) \/ Serve \/ UNCHANGED vars
  BY <1>3 DEF Restart, RecoverJob, RecoverySkips, Serve, vars, loopVars, AtItsAwait
<1> QED BY <1>1, <1>2, <1>3, AwaitRequest, AwaitStep DEF Next, Recovery

-----------------------------------------------------------------------------
(* Coroutines and threads                                                  *)

\* Outside a restart, and with nothing else changed, the last save of a coroutine keeps to
\* its side if its record does.
LEMMA SettledFits ==
  ASSUME NEW k \in Runners, NEW rec, Fits(k, rec)
  PROVE  /\ Fits(k, Settled(rec, FailureState(k)))
         /\ k # "plan" => Fits(k, Settled(rec, "IMPLEMENTATION_FAILED"))
BY Sides DEF Fits, Settled, Fail, FailureState, Runners

LEMMA FinishKeeps ==
  ASSUME TypeOK, ApprovalInv, NEW p \in Procs, pc[p] # "idle", kind[p] \in Runners,
         NEW rec, Fits(kind[p], rec), Finish(p, rec),
         UNCHANGED <<implRuns, server, unfinished>>
  PROVE  ApprovalInv'
<1> DEFINE final == Settled(rec, FailureState(kind[p]))
<1>1. Fits(kind[p], final)  BY SettledFits
<1>2. /\ db' = [db EXCEPT ![target[p]] = final]
      /\ GoIdle(p) \/ Suspend(p, final, "orphaned")
  BY DEF Finish, Save
<1> HIDE DEF final
<1>3. GoIdle(p) \/ StaysInSide(p, final, "orphaned")  BY <1>1, <1>2 DEF StaysInSide
<1> QED BY <1>1, <1>2, <1>3, MoveKeeps

LEMMA ContinueKeeps ==
  ASSUME TypeOK, ApprovalInv, NEW p \in Procs, pc[p] # "idle",
         NEW rec, Fits(kind[p], rec), NEW at \in PCs \ {"idle", "created", "waiting", "baseline"},
         Continue(p, rec, at) \/ (UNCHANGED db /\ Suspend(p, rec, at)),
         UNCHANGED <<implRuns, server, unfinished>>
  PROVE  ApprovalInv'
BY MoveKeeps DEF Continue, Save, StaysInSide

LEMMA BeginKeeps ==
  ASSUME TypeOK, ApprovalInv, NEW p \in Procs, pc[p] \in {"created", "waiting"},
         NEW rec, Fits(kind[p], rec), Begin(p, rec)
  PROVE  ApprovalInv'
<1>0. /\ pc[p] # "idle"
      /\ UNCHANGED <<implRuns, server, unfinished>>
      /\ {"fetch", "failing", "refused", "agent"} \subseteq PCs \ {"idle", "created", "waiting", "baseline"}
  BY DEF Begin, BeginPlan, BeginImplement, BeginCorrect, serverVars, PCs, InSlot
<1>1. CASE kind[p] = "plan" /\ BeginPlan(p, rec)
  <2>1. /\ Fits("plan", Advance(rec, "FETCHING_TICKET")) /\ Fits("plan", Fail(rec, "FAILED"))
        /\ kind[p] \in Runners
    <3>1. ~rec.branch  BY <1>1 DEF Fits
    <3>2. /\ Advance(rec, "FETCHING_TICKET").branch = rec.branch
          /\ Fail(rec, "FAILED").branch = rec.branch
          /\ Advance(rec, "FETCHING_TICKET").state = "FETCHING_TICKET"
          /\ Fail(rec, "FAILED").state = "FAILED"
      BY DEF Advance, Fail
    <3> QED BY <1>1, <3>1, <3>2 DEF Fits, PlanStates, Runners
  <2> QED BY <1>0, <1>1, <2>1, ContinueKeeps, FinishKeeps DEF BeginPlan
<1>2. CASE kind[p] = "implement" /\ BeginImplement(p, rec)
  <2>1. UNCHANGED db /\ (Suspend(p, rec, "baseline") \/ Suspend(p, rec, "failing"))
    BY <1>2 DEF BeginImplement
  <2>2. StaysInSide(p, rec, "baseline") \/ StaysInSide(p, rec, "failing")
    BY <2>1 DEF StaysInSide
  <2> QED BY <1>0, <2>1, <2>2, MoveKeeps
<1>3. CASE kind[p] = "correct" /\ BeginCorrect(p, rec)
  <2> DEFINE started == [rec EXCEPT !.fixStarted = TRUE]
  <2>1. \/ UNCHANGED db /\ (Suspend(p, rec, "refused") \/ Suspend(p, rec, "failing"))
        \/ /\ rec.state = "CORRECTING"
           /\ Continue(p, started, "failing") \/ Continue(p, started, "agent")
    BY <1>3 DEF BeginCorrect
  <2>2. rec.state = "CORRECTING" => Fits(kind[p], started)
    BY <1>3, Sides DEF Fits, CorrectionStates
  <2> HIDE DEF started
  <2> QED BY <1>0, <2>1, <2>2, ContinueKeeps
<1> QED BY <1>1, <1>2, <1>3 DEF Begin

LEMMA SlotKeeps ==
  ASSUME TypeOK, ApprovalInv, NEW p \in Procs, RunnerStart(p) \/ RunnerQueues(p) \/ RunnerWoken(p)
  PROVE  ApprovalInv'
<1>1. pc[p] \in {"created", "waiting"}
  BY DEF RunnerStart, RunnerQueues, RunnerWoken
<1>2. Fits(kind[p], db[target[p]]) /\ (pc[p] = "waiting" => Fits(kind[p], mem[p]))
  BY <1>1 DEF ApprovalInv, CopiesFit
<1>3. CASE RunnerStart(p)  BY <1>1, <1>2, <1>3, BeginKeeps DEF RunnerStart
<1>4. CASE RunnerWoken(p)  BY <1>1, <1>2, <1>4, BeginKeeps DEF RunnerWoken
<1>5. CASE RunnerQueues(p)
  <2>1. /\ StaysInSide(p, db[target[p]], "waiting") /\ UNCHANGED db
        /\ UNCHANGED <<implRuns, server, unfinished>> /\ pc[p] # "idle"
    BY <1>1, <1>2, <1>5 DEF RunnerQueues, StaysInSide, serverVars, historyVars
  <2> QED BY <2>1, MoveKeeps
<1> QED BY <1>3, <1>4, <1>5

LEMMA PlanKeeps ==
  ASSUME TypeOK, ApprovalInv, NEW p \in Procs, kind[p] = "plan",
         \/ PlanStageDone(p) \/ PlanStageFailed(p)
         \/ PlanReturned(p) \/ PlanFailedWithUsage(p) \/ PlanFailedNoUsage(p)
  PROVE  ApprovalInv'
<1>0. /\ pc[p] \notin {"idle", "created"} /\ kind[p] \in Runners /\ target[p] \in Jobs
      /\ UNCHANGED <<implRuns, server, unfinished>>
      /\ mem[p] \in JobRecord /\ ~mem[p].branch /\ mem[p].state \in PlanStates \cup {"FAILED"}
  <2>1. /\ pc[p] \notin {"idle", "created"} /\ kind[p] \in Runners
        /\ UNCHANGED <<implRuns, server, unfinished>>
    BY DEF PlanStageDone, PlanStageFailed, PlanReturned, PlanFailedWithUsage,
           PlanFailedNoUsage, Runners, serverVars, historyVars
  <2>2. Fits("plan", mem[p])  BY <2>1 DEF ApprovalInv, CopiesFit
  <2> QED BY <2>1, <2>2, ActiveTarget DEF Fits
<1>1. CASE PlanStageDone(p)
  <2> DEFINE rec == Advance(mem[p], StageAfter(pc[p]).state)
             next == StageAfter(pc[p]).pc
  <2>1. /\ StageAfter(pc[p]).state \in PlanStates
        /\ next \in PCs \ {"idle", "created", "waiting", "baseline"}
    BY <1>1 DEF PlanStageDone, StageAfter, PlanStates, PCs, InSlot
  <2>2. Fits(kind[p], rec)  BY <1>0, <2>1 DEF Fits, Advance, JobRecord
  <2>3. Continue(p, rec, next)  BY <1>1 DEF PlanStageDone
  <2> HIDE DEF rec, next
  <2> QED BY <1>0, <2>1, <2>2, <2>3, ContinueKeeps
<1>2. CASE PlanReturned(p)
  <2> DEFINE rec == [mem[p] EXCEPT !.plan = TRUE, !.planCost = TRUE, !.state = "PLAN_READY"]
  <2>1. rec.state = "PLAN_READY" /\ rec.branch = mem[p].branch
    BY <1>0 DEF JobRecord
  <2>2. Settled(rec, FailureState(kind[p])) = rec
    BY <2>1 DEF Settled, IsTerminal, TerminalStates
  <2>3. Finish(p, rec) /\ p \notin threads'
    BY <1>2 DEF PlanReturned
  <2> HIDE DEF rec
  <2>4. db' = [db EXCEPT ![target[p]] = rec] /\ GoIdle(p)
    BY <2>2, <2>3 DEF Finish, Save
  <2>5. \A q \in Procs : /\ pc[q] # "idle" => target[q] \in Jobs
                         /\ kind[q] # "none" => pc[q] # "idle"
    BY DEF TypeOK
  <2>6. \A q \in Procs : q # p /\ pc[q] # "idle" => target[q] # target[p]
    <3> SUFFICES ASSUME NEW q \in Procs, q # p, pc[q] # "idle", target[q] = target[p]
                 PROVE  FALSE
      OBVIOUS
    <3>1. kind[q] = "plan"  BY <1>0, SameSide DEF ApprovalInv
    <3> QED BY <3>1 DEF ApprovalInv, SoleRunner
  <2>7. /\ kind'[p] = "none" /\ pc'[p] = "idle"
        /\ \A q \in Procs : q # p =>
             kind'[q] = kind[q] /\ target'[q] = target[q] /\ pc'[q] = pc[q] /\ mem'[q] = mem[q]
    BY <2>4 DEF GoIdle, TypeOK
  <2>8. \A j \in Jobs : db'[j] = IF j = target[p] THEN rec ELSE db[j]
    BY <1>0, <2>4 DEF TypeOK
  <2>9. CopiesFit'
    BY <2>5, <2>6, <2>7, <2>8 DEF ApprovalInv, CopiesFit
  <2>10. SoleRunner'
    BY <2>5, <2>7 DEF ApprovalInv, SoleRunner
  <2>11. NotYetImplemented'
    <3>1. implRuns[target[p]] = 0
      BY <1>0, Sides DEF ApprovalInv, CopiesFit, Fits, NotYetImplemented
    <3> QED BY <1>0, <2>1, <2>5, <2>7, <2>8, <3>1 DEF ApprovalInv, NotYetImplemented
  <2>12. RestartIsClean'
    BY <1>0, <2>7 DEF ApprovalInv, RestartIsClean
  <2> QED BY <1>0, <2>9, <2>10, <2>11, <2>12 DEF ApprovalInv, ImplementedAtMostOnce
<1>3. CASE PlanStageFailed(p) \/ PlanFailedWithUsage(p) \/ PlanFailedNoUsage(p)
  <2>1. PICK rec : rec \in {mem[p], [mem[p] EXCEPT !.planCost = TRUE]}
                   /\ Finish(p, Fail(rec, "FAILED"))
    BY <1>3 DEF PlanStageFailed, PlanFailedWithUsage, PlanFailedNoUsage
  <2>2. rec \in JobRecord /\ ~rec.branch  BY <1>0, <2>1 DEF JobRecord
  <2>3. Fits(kind[p], Fail(rec, "FAILED"))  BY <2>2 DEF Fits, Fail, JobRecord
  <2> QED BY <1>0, <2>1, <2>3, FinishKeeps
<1> QED BY <1>1, <1>2, <1>3

\* A coroutine past its approval keeps to its side as long as its state does.
LEMMA FitsByState ==
  ASSUME NEW k, k # "plan", NEW rec, rec.state \in AfterApproval
  PROVE  Fits(k, rec)
BY DEF Fits

LEMMA WorkingKeeps ==
  ASSUME TypeOK, ApprovalInv, AtItsAwait, NEW p \in Procs,
         \/ EditsReturned(p) \/ EditsFailedWithUsage(p) \/ EditsFailedNoUsage(p)
         \/ DiffCollected(p) \/ StepFailed(p)
  PROVE  ApprovalInv'
<1>0. /\ kind[p] \in {"implement", "correct"} /\ pc[p] \notin {"idle", "created"}
      /\ UNCHANGED <<implRuns, server, unfinished>>
      /\ {"diff", "validate", "failing"} \subseteq PCs \ {"idle", "created", "waiting", "baseline"}
  <2>1. pc[p] \in AwaitsOf(kind[p]) /\ kind[p] \in Runners \cup Requests \cup {"none"}
    BY DEF AtItsAwait, TypeOK
  <2> QED BY <2>1, AwaitFacts
          DEF EditsReturned, EditsFailedWithUsage, EditsFailedNoUsage, DiffCollected, StepFailed,
              Runners, Requests, serverVars, historyVars, PCs, InSlot
<1>1. /\ Fits(kind[p], mem[p]) /\ mem[p].state \in AfterApproval
      /\ mem[p] \in JobRecord /\ WithUsage(p) \in JobRecord /\ WithUsage(p).state = mem[p].state
  <2>1. Fits(kind[p], mem[p]) /\ mem[p] \in JobRecord
    BY <1>0 DEF ApprovalInv, CopiesFit, TypeOK
  <2> QED BY <1>0, <2>1 DEF Fits, WithUsage, JobRecord
<1>2. Fits(kind[p], WithUsage(p))  BY <1>0, <1>1, FitsByState
<1>3. \A s \in {"REVALIDATING", "VALIDATING"}, rec \in JobRecord : Fits(kind[p], Advance(rec, s))
  BY <1>0, Sides DEF Fits, Advance, JobRecord, ImplementationStates, CorrectionStates
<1>4. CASE EditsReturned(p)
  <2>1. \/ Continue(p, WithUsage(p), "diff")
        \/ Continue(p, Advance(WithUsage(p), "REVALIDATING"), "validate")
    BY <1>4 DEF EditsReturned
  <2>2. Fits(kind[p], Advance(WithUsage(p), "REVALIDATING"))  BY <1>1, <1>3
  <2> QED BY <1>0, <1>2, <2>1, <2>2, ContinueKeeps
<1>5. CASE EditsFailedWithUsage(p) \/ EditsFailedNoUsage(p) \/ StepFailed(p)
  <2>1. /\ UNCHANGED db
        /\ Suspend(p, WithUsage(p), "failing") \/ Suspend(p, mem[p], "failing")
    BY <1>5 DEF EditsFailedWithUsage, EditsFailedNoUsage, StepFailed
  <2> QED BY <1>0, <1>1, <1>2, <2>1, ContinueKeeps
<1>6. CASE DiffCollected(p)
  <2> DEFINE rec == [mem[p] EXCEPT !.result = TRUE]
  <2>1. Continue(p, Advance(rec, "VALIDATING"), "validate")  BY <1>6 DEF DiffCollected
  <2>2. rec \in JobRecord  BY <1>1 DEF JobRecord
  <2> HIDE DEF rec
  <2>3. Fits(kind[p], Advance(rec, "VALIDATING"))  BY <1>3, <2>2
  <2> QED BY <1>0, <2>1, <2>3, ContinueKeeps
<1> QED BY <1>4, <1>5, <1>6

LEMMA EndKeeps ==
  ASSUME TypeOK, ApprovalInv, AtItsAwait, ThreadsOwned, NEW p \in Procs,
         \/ GitDone(p) \/ GitFailed(p)
         \/ Validated(p) \/ FailureRecorded(p) \/ RefreshRaised(p)
         \/ Thread(p)
  PROVE  ApprovalInv'
<1>0. /\ UNCHANGED <<implRuns, server, unfinished>>
      /\ pc[p] \in AwaitsOf(kind[p]) /\ kind[p] \in Runners \cup Requests \cup {"none"}
      /\ mem[p] \in JobRecord
  BY DEF GitDone, GitFailed, Validated, FailureRecorded, RefreshRaised, Thread, Report,
         OrphanEnds, serverVars, historyVars, AtItsAwait, TypeOK
<1>1. ASSUME pc[p] # "idle" PROVE /\ pc[p] # "created" => Fits(kind[p], mem[p])
                                  /\ Fits(kind[p], db[target[p]])
                                  /\ target[p] \in Jobs /\ db[target[p]] \in JobRecord
  BY <1>1 DEF ApprovalInv, CopiesFit, TypeOK
<1>2. CASE GitDone(p) \/ GitFailed(p)
  <2>1. pc[p] = "git" /\ kind[p] # "plan" /\ GoIdle(p)
    BY <1>0, <1>2, AwaitFacts DEF GitDone, GitFailed
  <2>2. mem[p].state \in AfterApproval  BY <1>1, <2>1 DEF Fits
  <2>3. \/ UNCHANGED db
        \/ Save(p, [mem[p] EXCEPT !.branch = TRUE])
        \/ Save(p, [mem[p] EXCEPT !.pushed = TRUE])
    BY <1>2 DEF GitDone, GitFailed
  <2>4. /\ Fits(kind[p], [mem[p] EXCEPT !.branch = TRUE])
        /\ Fits(kind[p], [mem[p] EXCEPT !.pushed = TRUE])
    BY <1>0, <2>1, <2>2 DEF Fits, JobRecord
  <2> QED BY <1>0, <2>1, <2>3, <2>4, MoveKeeps DEF Save
<1>3. CASE Validated(p)
  <2>1. PICK failures \in BOOLEAN :
          Finish(p, [mem[p] EXCEPT !.correctable = failures,
                                   !.attempted = @ \/ (kind[p] = "correct"),
                                   !.state = "IMPLEMENTATION_READY"])
    BY <1>3 DEF Validated
  <2> DEFINE rec == [mem[p] EXCEPT !.correctable = failures,
                                   !.attempted = @ \/ (kind[p] = "correct"),
                                   !.state = "IMPLEMENTATION_READY"]
  <2>2. rec.state = "IMPLEMENTATION_READY"  BY <1>0 DEF JobRecord
  <2>3. Finish(p, rec)  BY <2>1
  <2>4. kind[p] \in Runners /\ kind[p] # "plan" /\ pc[p] # "idle"
    BY <1>0, <1>3, AwaitFacts DEF Validated, Runners, Requests
  <2> HIDE DEF rec
  <2>5. Fits(kind[p], rec)  BY <2>2, <2>4, Sides DEF Fits
  <2> QED BY <1>0, <2>3, <2>4, <2>5, FinishKeeps
<1>4. CASE FailureRecorded(p)
  <2>1. kind[p] \in Runners /\ kind[p] # "plan" /\ pc[p] # "idle"
    BY <1>0, <1>4, AwaitFacts DEF FailureRecorded, Runners, Requests
  <2>2. /\ Fail(mem[p], "IMPLEMENTATION_FAILED").state = "IMPLEMENTATION_FAILED"
        /\ RecordCorrectionFailure(mem[p], pc[p] = "failing").state = "IMPLEMENTATION_READY"
    BY <1>0 DEF Fail, RecordCorrectionFailure, JobRecord
  <2>3. /\ Fits(kind[p], Fail(mem[p], "IMPLEMENTATION_FAILED"))
        /\ Fits(kind[p], RecordCorrectionFailure(mem[p], pc[p] = "failing"))
    BY <2>1, <2>2, Sides DEF Fits
  <2>4. \/ Finish(p, Fail(mem[p], "IMPLEMENTATION_FAILED"))
        \/ Finish(p, RecordCorrectionFailure(mem[p], pc[p] = "failing"))
    BY <1>4 DEF FailureRecorded
  <2> QED BY <1>0, <2>1, <2>3, <2>4, FinishKeeps
<1>5. CASE RefreshRaised(p)
  <2> DEFINE rec == Settled(db[target[p]], "IMPLEMENTATION_FAILED")
  <2>1. kind[p] \in Runners /\ kind[p] # "plan" /\ pc[p] \notin {"idle", "created"}
    BY <1>0, <1>5, AwaitFacts DEF RefreshRaised, Runners, Requests
  <2>2. Fits(kind[p], rec)  BY <1>1, <2>1, SettledFits
  <2>3. /\ db' = [db EXCEPT ![target[p]] = rec]
        /\ GoIdle(p) \/ Suspend(p, mem[p], "orphaned")
    BY <1>5 DEF RefreshRaised, Save
  <2> HIDE DEF rec
  <2>4. GoIdle(p) \/ StaysInSide(p, mem[p], "orphaned")
    BY <1>1, <2>1, <2>3 DEF StaysInSide
  <2> QED BY <1>0, <2>1, <2>2, <2>3, <2>4, MoveKeeps
<1>6. CASE Thread(p)
  <2>1. p \in threads /\ pc[p] \in {"agent", "failing", "orphaned"}
    BY <1>6 DEF Thread, Report, OrphanEnds, ThreadsOwned
  <2>2. /\ db' = db \/ db' = [db EXCEPT ![target[p]] = mem[p]]
        /\ GoIdle(p) \/ UNCHANGED loopVars
    BY <1>6 DEF Thread, Report, OrphanEnds, Save
  <2>3. CASE GoIdle(p)
    BY <1>0, <1>1, <2>1, <2>2, <2>3, MoveKeeps
  <2>4. CASE UNCHANGED loopVars
    <3>1. /\ mem' = [mem EXCEPT ![p] = mem[p]] /\ pc' = [pc EXCEPT ![p] = pc[p]]
          /\ UNCHANGED <<kind, target>>
      BY <2>4 DEF loopVars, TypeOK
    <3>2. StaysInSide(p, mem[p], pc[p])
      BY <1>1, <2>1, <3>1 DEF StaysInSide, Suspend
    <3> QED BY <1>0, <1>1, <2>1, <2>2, <3>2, MoveKeeps
  <2> QED BY <2>2, <2>3, <2>4
<1> QED BY <1>2, <1>3, <1>4, <1>5, <1>6

\* The one step that starts an implementation agent.
LEMMA StartKeeps ==
  ASSUME TypeOK, ApprovalInv, AtItsAwait, NEW p \in Procs, ImplementationStarted(p)
  PROVE  ApprovalInv'
<1> DEFINE rec == Advance([mem[p] EXCEPT !.baseline = TRUE], "IMPLEMENTING")
<1>1. /\ kind[p] = "implement" /\ pc[p] = "baseline"
      /\ target[p] \in Jobs /\ mem[p] \in JobRecord
  <2>1. pc[p] = "baseline"  BY DEF ImplementationStarted
  <2>2. pc[p] \in AwaitsOf(kind[p]) /\ kind[p] \in Runners \cup Requests \cup {"none"}
    BY DEF AtItsAwait, TypeOK
  <2>3. kind[p] = "implement"  BY <2>1, <2>2, AwaitFacts DEF Runners, Requests
  <2> QED BY <2>1, <2>3, ActiveTarget
<1>2. rec.state = "IMPLEMENTING"  BY <1>1 DEF Advance, JobRecord
<1>3. /\ db' = [db EXCEPT ![target[p]] = rec] /\ Suspend(p, rec, "agent")
      /\ implRuns' = [implRuns EXCEPT ![target[p]] = @ + 1]
      /\ UNCHANGED <<server, unfinished>>
  BY DEF ImplementationStarted, Continue, Save, serverVars
<1> HIDE DEF rec
<1>4. Fits(kind[p], rec) /\ rec.state \notin BeforeApproval
  BY <1>1, <1>2, Sides DEF Fits, ImplementationStates
<1>5. StaysInSide(p, rec, "agent")  BY <1>3, <1>4 DEF StaysInSide
<1>6. CopiesFit' /\ SoleRunner' /\ RestartIsClean'
  BY <1>1, <1>3, <1>4, <1>5, MoveSides
<1>7. implRuns[target[p]] = 0
  BY <1>1 DEF ApprovalInv, NotYetImplemented
<1>8. \A j \in Jobs : /\ db'[j] = IF j = target[p] THEN rec ELSE db[j]
                     /\ implRuns'[j] = IF j = target[p] THEN 1 ELSE implRuns[j]
  BY <1>1, <1>3, <1>7 DEF TypeOK
<1>9. \A q \in Procs : /\ kind'[q] = kind[q] /\ target'[q] = target[q]
                      /\ pc'[q] = IF q = p THEN "agent" ELSE pc[q]
  BY <1>3 DEF Suspend, TypeOK
<1>10. NotYetImplemented'
  <2>1. \A q \in Procs : q # p /\ kind[q] = "implement" => target[q] # target[p]
    BY <1>1 DEF ApprovalInv, SoleRunner
  <2>2. \A q \in Procs : kind[q] = "implement" => target[q] \in Jobs
    BY DEF TypeOK
  <2>3. \A j \in Jobs : db'[j].state \in BeforeApproval => implRuns'[j] = 0 /\ ~db'[j].branch
    BY <1>4, <1>8 DEF ApprovalInv, NotYetImplemented
  <2>4. \A q \in Procs : kind'[q] = "implement" /\ pc'[q] \in {"created", "waiting", "baseline"}
          => implRuns'[target'[q]] = 0
    BY <1>8, <1>9, <2>1, <2>2 DEF ApprovalInv, NotYetImplemented
  <2> QED BY <2>3, <2>4 DEF NotYetImplemented
<1>11. ImplementedAtMostOnce'
  BY <1>8 DEF ApprovalInv, ImplementedAtMostOnce
<1> QED BY <1>6, <1>10, <1>11 DEF ApprovalInv

-----------------------------------------------------------------------------
(* The process                                                             *)

LEMMA ShutdownKeeps ==
  ASSUME TypeOK, ApprovalInv, AtItsAwait, ThreadsOwned, Shutdown
  PROVE  ApprovalInv'
<1>1. \A q \in Procs :
        pc'[q] # "idle" => /\ q \in threads /\ pc'[q] = "orphaned"
                           /\ kind'[q] = kind[q] /\ target'[q] = target[q] /\ mem'[q] = mem[q]
                           /\ pc[q] \notin {"idle", "created"}
                           /\ kind[q] \in Runners /\ target[q] \in Jobs
  <2> SUFFICES ASSUME NEW q \in Procs, pc'[q] # "idle"
               PROVE  /\ q \in threads /\ pc'[q] = "orphaned"
                      /\ kind'[q] = kind[q] /\ target'[q] = target[q] /\ mem'[q] = mem[q]
                      /\ pc[q] \notin {"idle", "created"}
                      /\ kind[q] \in Runners /\ target[q] \in Jobs
    OBVIOUS
  <2>1. q \in threads /\ pc[q] \in {"agent", "failing", "orphaned"}
    BY DEF Shutdown, ThreadsOwned
  <2>2. kind[q] \in Runners
    BY <2>1, AwaitFacts DEF AtItsAwait, TypeOK, Runners, Requests
  <2> QED BY <2>1, <2>2 DEF Shutdown, TypeOK
<1>2. \A j \in Jobs, q \in Procs :
        pc[q] # "idle" /\ target[q] = j => Fits(kind[q], db'[j])
  <2> SUFFICES ASSUME NEW j \in Jobs, NEW q \in Procs, pc[q] # "idle", target[q] = j
               PROVE  Fits(kind[q], db'[j])
    OBVIOUS
  <2>1. Fits(kind[q], db[j])  BY DEF ApprovalInv, CopiesFit
  <2>2. CASE Cancellable(j) = {}
    BY <2>1, <2>2 DEF Shutdown
  <2>3. ASSUME NEW r \in Cancellable(j) PROVE Fits(kind[q], db'[j])
    <3>0. \A x \in Cancellable(j) :
            x \in Procs /\ target[x] = j /\ kind[x] \in Runners /\ pc[x] # "idle"
      BY DEF Cancellable, TypeOK, Runners
    <3>1. \A x \in Cancellable(j) : (kind[x] = "plan") = (kind[q] = "plan")
      BY <3>0, SameSide DEF ApprovalInv
    <3>2. db'[j] = Settled(db[j], IF kind[q] = "plan" THEN "FAILED" ELSE "IMPLEMENTATION_FAILED")
      BY <2>3, <3>1 DEF Shutdown
    <3>3. db'[j] = Settled(db[j], FailureState(kind[q]))
      BY <3>2 DEF FailureState
    <3>4. db[j] \in JobRecord  BY DEF TypeOK
    <3> QED BY <2>1, <3>3, <3>4, Sides DEF Fits, Settled, Fail, FailureState, JobRecord
  <2> QED BY <2>2, <2>3
<1>3. CopiesFit'
  BY <1>1, <1>2 DEF ApprovalInv, CopiesFit
<1>4. SoleRunner'
  <2>1. \A q \in Procs : kind'[q] \in {"plan", "implement"} =>
          q \in threads /\ kind'[q] = kind[q] /\ target'[q] = target[q]
    BY DEF Shutdown
  <2> QED BY <2>1 DEF ApprovalInv, SoleRunner
<1>5. NotYetImplemented'
  <2>1. ASSUME NEW j \in Jobs, db'[j].state \in BeforeApproval
        PROVE  implRuns[j] = 0 /\ ~db'[j].branch
    <3>1. CASE Cancellable(j) = {} \/ IsTerminal(db[j])
      <4>1. db'[j] = db[j]  BY <3>1 DEF Shutdown, Settled
      <4> QED BY <2>1, <4>1 DEF ApprovalInv, NotYetImplemented
    <3>2. ASSUME NEW r \in Cancellable(j), ~IsTerminal(db[j])
          PROVE  implRuns[j] = 0 /\ ~db'[j].branch
      <4>1. \E s \in {"FAILED", "IMPLEMENTATION_FAILED"} :
              /\ db'[j] = Fail(db[j], s)
              /\ s = "FAILED" => \E x \in Cancellable(j) : kind[x] = "plan"
        BY <3>2 DEF Shutdown, Settled
      <4>2. db'[j].state \in {"FAILED", "IMPLEMENTATION_FAILED"} /\ db'[j].branch = db[j].branch
            /\ (db'[j].state = "FAILED" => \E x \in Cancellable(j) : kind[x] = "plan")
        BY <4>1 DEF Fail, TypeOK, JobRecord
      <4>3. PICK x \in Cancellable(j) : kind[x] = "plan"
        BY <2>1, <4>2, Sides
      <4>4. Fits("plan", db[j])
        BY <4>3 DEF Cancellable, ApprovalInv, CopiesFit, TypeOK
      <4>5. db[j].state \in BeforeApproval  BY <4>4, Sides
      <4> QED BY <4>2, <4>5 DEF ApprovalInv, NotYetImplemented
    <3> QED BY <3>1, <3>2
  <2>2. implRuns' = implRuns  BY DEF Shutdown
  <2>3. \A q \in Procs : pc'[q] \notin {"created", "waiting", "baseline"}
    BY <1>1
  <2> QED BY <2>1, <2>2, <2>3 DEF NotYetImplemented
<1>6. RestartIsClean'
  BY DEF Shutdown, ApprovalInv, RestartIsClean
<1>7. ImplementedAtMostOnce'
  BY DEF Shutdown, ApprovalInv, ImplementedAtMostOnce
<1> QED BY <1>3, <1>4, <1>5, <1>6, <1>7 DEF ApprovalInv

LEMMA RestartKeeps ==
  ASSUME TypeOK, ApprovalInv,
         Crash \/ Exit \/ Restart \/ (\E j \in Jobs : RecoverJob(j) \/ RecoverySkips(j)) \/ Serve
  PROVE  ApprovalInv'
<1>1. CASE Crash \/ Exit
  BY <1>1
  DEF Crash, Exit, Die, ApprovalInv, CopiesFit, SoleRunner, NotYetImplemented, RestartIsClean,
      ImplementedAtMostOnce
<1>2. CASE Restart
  BY <1>2
  DEF Restart, loopVars, historyVars, ApprovalInv, CopiesFit, SoleRunner, NotYetImplemented,
      RestartIsClean, ImplementedAtMostOnce
<1>3. ASSUME NEW j \in Jobs, RecoverJob(j) PROVE ApprovalInv'
  <2>1. /\ UNCHANGED <<kind, target, pc, mem, implRuns, server>>
        /\ unfinished' = unfinished \ {j}
        /\ \A p \in Procs : pc[p] = "idle"
        /\ \A i \in Jobs : db'[i] = IF i = j THEN Recovered(db[j]) ELSE db[i]
        /\ Unfinished(db[j]) /\ db[j] \in JobRecord
    BY <1>3 DEF RecoverJob, loopVars, historyVars, TypeOK, ApprovalInv, RestartIsClean
  <2>2. /\ Recovered(db[j]).branch = db[j].branch
        /\ Recovered(db[j]).state \in BeforeApproval => db[j].state \in BeforeApproval
    <3>1. CASE db[j].state \in PlanStates
      BY <2>1, <3>1
      DEF Recovered, Fail, JobRecord, PlanStates, ImplementationStates, CorrectionStates,
          BeforeApproval
    <3>2. CASE db[j].state \in ImplementationStates \cup CorrectionStates
      <4>1. /\ Recovered(db[j]).state \in {"IMPLEMENTATION_FAILED", "IMPLEMENTATION_READY"}
            /\ Recovered(db[j]).branch = db[j].branch
        BY <2>1, <3>2 DEF Recovered, Fail, RecordCorrectionFailure, JobRecord
      <4> QED BY <4>1, Sides
    <3> QED BY <2>1, <3>1, <3>2 DEF Unfinished, JobRecord, JobStates
  <2>3. NotYetImplemented'
    BY <2>1, <2>2 DEF ApprovalInv, NotYetImplemented
  <2>4. RestartIsClean'
    BY <2>1 DEF ApprovalInv, RestartIsClean, TypeOK
  <2> QED BY <2>1, <2>3, <2>4 DEF ApprovalInv, CopiesFit, SoleRunner, ImplementedAtMostOnce
<1>4. ASSUME NEW j \in Jobs, RecoverySkips(j) PROVE ApprovalInv'
  BY <1>4
  DEF RecoverySkips, loopVars, historyVars, ApprovalInv, CopiesFit, SoleRunner,
      NotYetImplemented, RestartIsClean, ImplementedAtMostOnce
<1>5. CASE Serve
  BY <1>5
  DEF Serve, loopVars, historyVars, ApprovalInv, CopiesFit, SoleRunner, NotYetImplemented,
      RestartIsClean, ImplementedAtMostOnce
<1> QED BY <1>1, <1>2, <1>3, <1>4, <1>5

-----------------------------------------------------------------------------
IInv == TypeOK /\ ThreadsOwned /\ AtItsAwait /\ ApprovalInv

LEMMA InvInit == Init => IInv
<1> SUFFICES ASSUME Init PROVE IInv
  OBVIOUS
<1>1. TypeOK /\ ThreadsOwned /\ AtItsAwait
  BY TypeInit, AwaitFacts DEF Init, ThreadsOwned, AtItsAwait
<1>2. ApprovalInv
  BY DEF Init, NoRow, ApprovalInv, CopiesFit, SoleRunner, NotYetImplemented, RestartIsClean,
         ImplementedAtMostOnce
<1> QED BY <1>1, <1>2 DEF IInv

LEMMA InvNext == IInv /\ [Next]_vars => IInv'
<1> SUFFICES ASSUME IInv, [Next]_vars PROVE IInv'
  OBVIOUS
<1> USE DEF IInv
<1>1. TypeOK' /\ ThreadsOwned' /\ AtItsAwait'
  BY TypeNext, AwaitNext
<1>2. ASSUME NEW p \in Procs, Step(p) PROVE ApprovalInv'
  <2>1. CASE PlanStageDone(p) \/ PlanStageFailed(p)
    <3>1. kind[p] = "plan"
      BY <2>1, AwaitFacts DEF PlanStageDone, PlanStageFailed, AtItsAwait, TypeOK, Runners, Requests
    <3> QED BY <2>1, <3>1, PlanKeeps
  <2>2. CASE PlanReturned(p) \/ PlanFailedWithUsage(p) \/ PlanFailedNoUsage(p)
    BY <2>2, PlanKeeps DEF PlanReturned, PlanFailedWithUsage, PlanFailedNoUsage
  <2> QED BY <1>2, <2>1, <2>2, SlotKeeps, StartKeeps, WorkingKeeps, EndKeeps DEF Step
<1>3. ASSUME UNCHANGED vars PROVE ApprovalInv'
  BY <1>3
  DEF vars, loopVars, serverVars, historyVars, ApprovalInv, CopiesFit, SoleRunner,
      NotYetImplemented, RestartIsClean, ImplementedAtMostOnce
<1>4. ASSUME NEW p \in Procs, NEW j \in Jobs, Request(p, j) PROVE ApprovalInv'
  BY <1>4, RequestKeeps
<1>5. ASSUME NEW p \in Procs, Thread(p) PROVE ApprovalInv'
  BY <1>5, EndKeeps
<1>6. ASSUME Crash \/ Shutdown \/ Recovery PROVE ApprovalInv'
  BY <1>6, ShutdownKeeps, RestartKeeps DEF Recovery
<1> HIDE DEF IInv
<1> QED BY <1>1, <1>2, <1>3, <1>4, <1>5, <1>6 DEF Next, IInv

\* Rows, stale copies, runners and recovery agree on which side of its approval a job is,
\* in every reachable state.
THEOREM ApprovalInvariant == Spec => []ApprovalInv
<1>1. IInv => ApprovalInv  BY DEF IInv
<1> QED BY <1>1, InvInit, InvNext, PTL DEF Spec

\* However many coroutines, crashes, shutdowns and late agent reports there are, at most one
\* implementation agent is ever started for a job.
THEOREM ImplementedOnce == Spec => []ImplementedAtMostOnce
<1>1. ApprovalInv => ImplementedAtMostOnce  BY DEF ApprovalInv
<1> QED BY <1>1, ApprovalInvariant, PTL

=============================================================================
