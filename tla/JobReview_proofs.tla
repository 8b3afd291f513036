-------------------------- MODULE JobReview_proofs --------------------------
(***************************************************************************)
(* What a job offered for review keeps, what its agents cost and what a    *)
(* dead process leaves behind: the safety properties of JobLifecycle that  *)
(* rest on IInv of JobLifecycle_proofs.                                    *)
(*                                                                         *)
(* Outcome restates every step of a coroutine pointwise, for its row and   *)
(* its copy; the invariants below are about rows and copies, and their     *)
(* proofs go through that list.                                            *)
(***************************************************************************)
EXTENDS JobLifecycle_proofs

-----------------------------------------------------------------------------
(* A step of coroutine p, pointwise.                                       *)

\* The other coroutines and the other jobs are as they were.
Elsewhere(p) ==
  /\ \A q \in Procs : q # p =>
       /\ kind'[q] = kind[q] /\ target'[q] = target[q] /\ pc'[q] = pc[q] /\ mem'[q] = mem[q]
       /\ (q \in threads') = (q \in threads)
  /\ \A j \in Jobs : j # target[p] =>
       db'[j] = db[j] /\ billed'[j] = billed[j] /\ fixRuns'[j] = fixRuns[j]
  /\ UNCHANGED <<server, unfinished>>

\* p goes on: its job's row is `row`, its copy `copy`, its await `at`.
Stays(p, row, copy, at) ==
  /\ Elsewhere(p)
  /\ kind'[p] = kind[p] /\ target'[p] = target[p] /\ pc'[p] = at /\ mem'[p] = copy
  /\ db'[target[p]] = row

Leaves(p, row) ==
  /\ Elsewhere(p)
  /\ kind'[p] = "none" /\ target'[p] = NoJob /\ pc'[p] = "idle" /\ mem'[p] = NoRow
  /\ p \notin threads'
  /\ db'[target[p]] = row

\* p ends with a last save; an agent thread keeps its copy.
Ends(p, rec) == (p \in threads' /\ Stays(p, rec, rec, "orphaned")) \/ Leaves(p, rec)

NoUsage(p) == billed'[target[p]] = billed[target[p]]
Usage(p) == billed'[target[p]] = billed[target[p]] \cup {kind[p]}
NoFix(p) == fixRuns'[target[p]] = fixRuns[target[p]]
Fix(p) == fixRuns'[target[p]] = fixRuns[target[p]] + 1

LEMMA StaysFacts ==
  ASSUME TypeOK, NEW p \in Procs, pc[p] # "idle", NEW rec, NEW at,
         Suspend(p, rec, at),
         threads' \ {p} = threads \ {p}, UNCHANGED <<server, unfinished>>,
         UNCHANGED billed \/ Bill(p),
         UNCHANGED fixRuns \/ fixRuns' = [fixRuns EXCEPT ![target[p]] = @ + 1]
  PROVE  /\ UNCHANGED db => Stays(p, db[target[p]], rec, at)
         /\ \A row : Save(p, row) => Stays(p, row, rec, at)
BY ActiveTarget DEF Suspend, Save, Stays, Elsewhere, Bill, TypeOK

LEMMA LeavesFacts ==
  ASSUME TypeOK, NEW p \in Procs, pc[p] # "idle",
         GoIdle(p), p \notin threads',
         threads' \ {p} = threads \ {p}, UNCHANGED <<server, unfinished, fixRuns>>,
         UNCHANGED billed \/ Bill(p)
  PROVE  /\ UNCHANGED db => Leaves(p, db[target[p]])
         /\ \A row : Save(p, row) => Leaves(p, row)
BY ActiveTarget DEF GoIdle, Save, Leaves, Elsewhere, Bill, TypeOK

LEMMA EndsFacts ==
  ASSUME TypeOK, NEW p \in Procs, pc[p] # "idle", NEW rec, Finish(p, rec), IsTerminal(rec),
         threads' \ {p} = threads \ {p}, UNCHANGED <<server, unfinished, fixRuns>>,
         UNCHANGED billed \/ Bill(p)
  PROVE  Ends(p, rec)
<1>1. /\ Save(p, rec)
      /\ IF p \in threads' THEN Suspend(p, rec, "orphaned") ELSE GoIdle(p)
  BY DEF Finish, Settled
<1> QED BY <1>1, StaysFacts, LeavesFacts DEF Ends

LEMMA CountFacts ==
  ASSUME TypeOK, NEW p \in Procs, pc[p] # "idle"
  PROVE  /\ UNCHANGED billed => NoUsage(p)
         /\ Bill(p) => Usage(p)
         /\ UNCHANGED fixRuns => NoFix(p)
         /\ fixRuns' = [fixRuns EXCEPT ![target[p]] = @ + 1] => Fix(p)
BY ActiveTarget DEF Bill, NoUsage, Usage, NoFix, Fix, TypeOK

-----------------------------------------------------------------------------
(* The outcome of each step.                                               *)

LEMMA EndStates ==
  ASSUME NEW rec \in JobRecord
  PROVE  /\ IsTerminal(Fail(rec, "FAILED")) /\ IsTerminal(Fail(rec, "IMPLEMENTATION_FAILED"))
         /\ \A b : IsTerminal(RecordCorrectionFailure(rec, b))
BY DEF IsTerminal, TerminalStates, Fail, RecordCorrectionFailure, JobRecord

GitOutcome(p) ==
  /\ pc[p] = "git" /\ NoUsage(p) /\ NoFix(p)
  /\ \/ Leaves(p, db[target[p]])
     \/ kind[p] = "branch" /\ Leaves(p, [mem[p] EXCEPT !.branch = TRUE])
     \/ kind[p] = "push" /\ Leaves(p, [mem[p] EXCEPT !.pushed = TRUE])

LEMMA GitMoves ==
  ASSUME TypeOK, ThreadsOwned, AtItsAwait, NEW p \in Procs, GitDone(p) \/ GitFailed(p)
  PROVE  GitOutcome(p)
<1>1. /\ pc[p] = "git" /\ GoIdle(p) /\ p \notin threads /\ threads' = threads
      /\ UNCHANGED <<server, unfinished, fixRuns, billed>>
      /\ kind[p] \in Requests
  <2>1. pc[p] = "git"  BY DEF GitDone, GitFailed
  <2>2. kind[p] \in Requests
    BY <2>1, AwaitFacts DEF AtItsAwait, TypeOK, Runners, Requests
  <2> QED BY <2>1, <2>2 DEF GitDone, GitFailed, ThreadsOwned, serverVars, historyVars
<1>2. /\ UNCHANGED db => Leaves(p, db[target[p]])
      /\ \A row : Save(p, row) => Leaves(p, row)
  BY <1>1, LeavesFacts
<1>3. \/ UNCHANGED db
      \/ kind[p] = "branch" /\ Save(p, [mem[p] EXCEPT !.branch = TRUE])
      \/ kind[p] = "push" /\ Save(p, [mem[p] EXCEPT !.pushed = TRUE])
  BY <1>1 DEF GitDone, GitFailed, Requests
<1>4. NoUsage(p) /\ NoFix(p)  BY <1>1, CountFacts
<1> QED BY <1>1, <1>2, <1>3, <1>4 DEF GitOutcome

\* The copy a starting runner goes on with: the row, or what it read before it waited.
CopyAtStart(p) == IF pc[p] = "created" THEN db[target[p]] ELSE mem[p]

Started(rec) == [rec EXCEPT !.fixStarted = TRUE]

SlotOutcome(p) ==
  LET rec == CopyAtStart(p)
      row == db[target[p]]
  IN  /\ pc[p] \in {"created", "waiting"} /\ NoUsage(p) /\ kind[p] \in Runners
      /\ \/ /\ NoFix(p) /\ pc[p] = "created" /\ Stays(p, row, row, "waiting")
         \/ /\ NoFix(p) /\ kind[p] = "plan"
            /\ Stays(p, Advance(rec, "FETCHING_TICKET"), Advance(rec, "FETCHING_TICKET"), "fetch")
         \/ NoFix(p) /\ kind[p] = "plan" /\ Ends(p, Fail(rec, "FAILED"))
         \/ /\ NoFix(p) /\ kind[p] = "implement" /\ rec.plan /\ Stays(p, row, rec, "baseline")
         \/ NoFix(p) /\ kind[p] = "implement" /\ Stays(p, row, rec, "failing")
         \/ /\ NoFix(p) /\ kind[p] = "correct"
            /\ Stays(p, row, rec, "refused") \/ Stays(p, row, rec, "failing")
         \/ /\ Fix(p) /\ kind[p] = "correct" /\ rec.state = "CORRECTING"
            /\ \/ Stays(p, Started(rec), Started(rec), "failing")
               \/ Stays(p, Started(rec), Started(rec), "agent")

LEMMA BeginMoves ==
  ASSUME TypeOK, ThreadsOwned, AtItsAwait, NEW p \in Procs, pc[p] \in {"created", "waiting"},
         Begin(p, CopyAtStart(p))
  PROVE  SlotOutcome(p)
<1> DEFINE rec == CopyAtStart(p)
<1>0. /\ pc[p] # "idle" /\ p \notin threads
      /\ UNCHANGED <<server, unfinished, billed>> /\ NoUsage(p)
  BY CountFacts DEF ThreadsOwned, Begin, serverVars
<1>4. rec \in JobRecord /\ IsTerminal(Fail(rec, "FAILED"))
  BY <1>0, ActiveTarget, EndStates DEF CopyAtStart
<1>1. CASE kind[p] = "plan" /\ BeginPlan(p, rec)
  <2>1. /\ threads' = threads /\ UNCHANGED fixRuns /\ NoFix(p) /\ kind[p] \in Runners
        /\ \/ /\ Save(p, Advance(rec, "FETCHING_TICKET"))
              /\ Suspend(p, Advance(rec, "FETCHING_TICKET"), "fetch")
           \/ Finish(p, Fail(rec, "FAILED"))
    BY <1>0, <1>1, CountFacts DEF BeginPlan, Continue, Runners
  <2> HIDE DEF rec
  <2>2. \/ Stays(p, Advance(rec, "FETCHING_TICKET"), Advance(rec, "FETCHING_TICKET"), "fetch")
        \/ Ends(p, Fail(rec, "FAILED"))
    BY <1>0, <1>4, <2>1, StaysFacts, EndsFacts
  <2> QED BY <1>0, <1>1, <2>1, <2>2 DEF SlotOutcome, rec
<1>2. CASE kind[p] = "implement" /\ BeginImplement(p, rec)
  <2>1. /\ threads' = threads /\ UNCHANGED <<db, fixRuns>> /\ NoFix(p) /\ kind[p] \in Runners
        /\ \/ rec.plan /\ Suspend(p, rec, "baseline")
           \/ Suspend(p, rec, "failing")
    BY <1>0, <1>2, CountFacts DEF BeginImplement, Runners
  <2> HIDE DEF rec
  <2>2. \/ rec.plan /\ Stays(p, db[target[p]], rec, "baseline")
        \/ Stays(p, db[target[p]], rec, "failing")
    BY <1>0, <2>1, StaysFacts
  <2> QED BY <1>0, <1>2, <2>1, <2>2 DEF SlotOutcome, rec
<1>3. CASE kind[p] = "correct" /\ BeginCorrect(p, rec)
  <2>1. /\ threads' \ {p} = threads \ {p} /\ kind[p] \in Runners
        /\ \/ /\ UNCHANGED <<db, fixRuns>>
              /\ Suspend(p, rec, "refused") \/ Suspend(p, rec, "failing")
           \/ /\ fixRuns' = [fixRuns EXCEPT ![target[p]] = @ + 1]
              /\ rec.state = "CORRECTING" /\ Save(p, Started(rec))
              /\ Suspend(p, Started(rec), "failing") \/ Suspend(p, Started(rec), "agent")
    BY <1>3 DEF BeginCorrect, Continue, Runners, Started
  <2> HIDE DEF rec
  <2>2. \/ /\ UNCHANGED fixRuns
           /\ Stays(p, db[target[p]], rec, "refused") \/ Stays(p, db[target[p]], rec, "failing")
        \/ /\ fixRuns' = [fixRuns EXCEPT ![target[p]] = @ + 1]
           /\ rec.state = "CORRECTING"
           /\ Stays(p, Started(rec), Started(rec), "failing") \/ Stays(p, Started(rec), Started(rec), "agent")
    BY <1>0, <2>1, StaysFacts
  <2> QED BY <1>0, <1>3, <2>1, <2>2, CountFacts DEF SlotOutcome, rec
<1> QED BY <1>1, <1>2, <1>3 DEF Begin

LEMMA SlotMoves ==
  ASSUME TypeOK, ThreadsOwned, AtItsAwait, NEW p \in Procs,
         RunnerStart(p) \/ RunnerQueues(p) \/ RunnerWoken(p)
  PROVE  SlotOutcome(p)
<1>1. CASE RunnerStart(p) \/ RunnerWoken(p)
  BY <1>1, BeginMoves DEF RunnerStart, RunnerWoken, CopyAtStart
<1>2. CASE RunnerQueues(p)
  <2>1. /\ pc[p] = "created" /\ threads' = threads
        /\ UNCHANGED <<db, server, unfinished, billed, fixRuns>>
        /\ Suspend(p, db[target[p]], "waiting")
    BY <1>2 DEF RunnerQueues, serverVars, historyVars
  <2>2. Stays(p, db[target[p]], db[target[p]], "waiting")  BY <2>1, StaysFacts
  <2>3. kind[p] \in Runners
    BY <2>1, AwaitFacts DEF AtItsAwait, TypeOK, Runners, Requests
  <2> QED BY <2>1, <2>2, <2>3, CountFacts DEF SlotOutcome
<1> QED BY <1>1, <1>2

Planned(rec) == [rec EXCEPT !.plan = TRUE, !.planCost = TRUE, !.state = "PLAN_READY"]
WithPlanCost(rec) == [rec EXCEPT !.planCost = TRUE]

PlanOutcome(p) ==
  /\ kind[p] = "plan" /\ pc[p] \in {"fetch", "clone", "map", "agent"} /\ NoFix(p)
  /\ \/ /\ NoUsage(p)
        /\ \E s \in PlanStates, at \in {"clone", "map", "agent"} :
             Stays(p, Advance(mem[p], s), Advance(mem[p], s), at)
     \/ NoUsage(p) /\ Ends(p, Fail(mem[p], "FAILED"))
     \/ Usage(p) /\ Leaves(p, Planned(mem[p]))
     \/ Usage(p) /\ Leaves(p, Fail(WithPlanCost(mem[p]), "FAILED"))

LEMMA PlanMoves ==
  ASSUME TypeOK, ThreadsOwned, AtItsAwait, NEW p \in Procs,
         \/ PlanStageDone(p) \/ PlanStageFailed(p)
         \/ PlanReturned(p) \/ PlanFailedWithUsage(p) \/ PlanFailedNoUsage(p)
  PROVE  PlanOutcome(p)
<1>0. /\ pc[p] \in {"fetch", "clone", "map", "agent"} /\ kind[p] = "plan" /\ pc[p] # "idle"
      /\ threads' \ {p} = threads \ {p}
      /\ UNCHANGED <<server, unfinished, fixRuns>> /\ NoFix(p)
      /\ mem[p] \in JobRecord
  <2>1. pc[p] \in {"fetch", "clone", "map", "agent"} /\ pc[p] # "idle"
    BY DEF PlanStageDone, PlanStageFailed, PlanReturned, PlanFailedWithUsage, PlanFailedNoUsage
  <2>2. kind[p] = "plan"
    BY <2>1, AwaitFacts
    DEF PlanStageDone, PlanStageFailed, PlanReturned, PlanFailedWithUsage, PlanFailedNoUsage,
        AtItsAwait, TypeOK, Runners, Requests
  <2>3. /\ threads' \ {p} = threads \ {p}
        /\ UNCHANGED <<server, unfinished, fixRuns>>
    BY DEF PlanStageDone, PlanStageFailed, PlanReturned, PlanFailedWithUsage, PlanFailedNoUsage,
           serverVars, historyVars
  <2> QED BY <2>1, <2>2, <2>3, CountFacts, ActiveTarget
<1>1. CASE PlanStageDone(p)
  <2> DEFINE s == StageAfter(pc[p]).state
             at == StageAfter(pc[p]).pc
  <2>1. /\ Save(p, Advance(mem[p], s)) /\ Suspend(p, Advance(mem[p], s), at)
        /\ UNCHANGED billed
    BY <1>1 DEF PlanStageDone, Continue, historyVars
  <2>2. s \in PlanStates /\ at \in {"clone", "map", "agent"}
    BY <1>1 DEF PlanStageDone, StageAfter, PlanStates
  <2> HIDE DEF s, at
  <2>3. Stays(p, Advance(mem[p], s), Advance(mem[p], s), at) /\ NoUsage(p)
    BY <1>0, <2>1, StaysFacts, CountFacts
  <2> QED BY <1>0, <2>2, <2>3 DEF PlanOutcome
<1>2. CASE PlanStageFailed(p) \/ PlanFailedNoUsage(p)
  <2>1. Finish(p, Fail(mem[p], "FAILED")) /\ UNCHANGED billed
    BY <1>2 DEF PlanStageFailed, PlanFailedNoUsage, historyVars
  <2>2. Ends(p, Fail(mem[p], "FAILED")) /\ NoUsage(p)
    BY <1>0, <2>1, EndStates, EndsFacts, CountFacts
  <2> QED BY <1>0, <2>2 DEF PlanOutcome
<1>3. CASE PlanReturned(p)
  <2>1. IsTerminal(Planned(mem[p]))
    BY <1>0 DEF Planned, IsTerminal, TerminalStates, JobRecord
  <2>2. Finish(p, Planned(mem[p])) /\ Bill(p) /\ p \notin threads'
    BY <1>3 DEF PlanReturned, Planned
  <2>3. Ends(p, Planned(mem[p])) /\ Usage(p)
    BY <1>0, <2>1, <2>2, EndsFacts, CountFacts
  <2> QED BY <1>0, <2>2, <2>3 DEF PlanOutcome, Ends
<1>4. CASE PlanFailedWithUsage(p)
  <2>1. WithPlanCost(mem[p]) \in JobRecord
    BY <1>0 DEF WithPlanCost, JobRecord
  <2>2. Finish(p, Fail(WithPlanCost(mem[p]), "FAILED")) /\ Bill(p) /\ p \notin threads'
    BY <1>4 DEF PlanFailedWithUsage, WithPlanCost
  <2>3. Ends(p, Fail(WithPlanCost(mem[p]), "FAILED")) /\ Usage(p)
    BY <1>0, <2>1, <2>2, EndStates, EndsFacts, CountFacts
  <2> QED BY <1>0, <2>2, <2>3 DEF PlanOutcome, Ends
<1> QED BY <1>1, <1>2, <1>3, <1>4

WithBaseline(rec) == [rec EXCEPT !.baseline = TRUE]
WithResult(rec) == [rec EXCEPT !.result = TRUE]

EditsOutcome(p) ==
  LET saved(rec, at) == Stays(p, rec, rec, at)
      kept(copy) == Stays(p, db[target[p]], copy, "failing")
  IN  /\ NoFix(p)
      /\ \/ /\ kind[p] = "implement" /\ pc[p] = "baseline" /\ NoUsage(p)
            /\ saved(Advance(WithBaseline(mem[p]), "IMPLEMENTING"), "agent")
         \/ /\ kind[p] = "implement" /\ pc[p] = "agent" /\ Usage(p) /\ p \notin threads'
            /\ saved(WithUsage(p), "diff")
         \/ /\ kind[p] = "correct" /\ pc[p] = "agent" /\ Usage(p)
            /\ saved(Advance(WithUsage(p), "REVALIDATING"), "validate")
         \/ /\ kind[p] \in {"implement", "correct"} /\ pc[p] = "agent" /\ Usage(p)
            /\ p \notin threads' /\ kept(WithUsage(p))
         \/ /\ kind[p] \in {"implement", "correct"} /\ NoUsage(p)
            /\ pc[p] \in {"baseline", "agent", "diff", "validate"}
            /\ p \notin threads => p \notin threads'
            /\ kept(mem[p])
         \/ /\ kind[p] = "implement" /\ pc[p] = "diff" /\ NoUsage(p) /\ p \notin threads'
            /\ saved(Advance(WithResult(mem[p]), "VALIDATING"), "validate")

LEMMA EditsMoves ==
  ASSUME TypeOK, ThreadsOwned, AtItsAwait, NEW p \in Procs,
         \/ ImplementationStarted(p) \/ EditsReturned(p)
         \/ EditsFailedWithUsage(p) \/ EditsFailedNoUsage(p)
         \/ DiffCollected(p) \/ StepFailed(p)
  PROVE  EditsOutcome(p)
<1>0. /\ pc[p] # "idle" /\ kind[p] \in {"implement", "correct"}
      /\ pc[p] \in {"baseline", "diff"} => kind[p] = "implement"
      /\ pc[p] = "diff" => p \notin threads
      /\ threads' \ {p} = threads \ {p}
      /\ UNCHANGED <<server, unfinished, fixRuns>> /\ NoFix(p)
  <2>1. pc[p] \in {"baseline", "agent", "diff", "validate"} /\ pc[p] # "idle"
    BY DEF ImplementationStarted, EditsReturned, EditsFailedWithUsage, EditsFailedNoUsage,
           DiffCollected, StepFailed
  <2>2. /\ kind[p] \in {"implement", "correct"}
        /\ pc[p] \in {"baseline", "diff"} => kind[p] = "implement"
    <3>1. pc[p] \in AwaitsOf(kind[p]) /\ kind[p] \in Runners \cup Requests \cup {"none"}
      BY DEF AtItsAwait, TypeOK
    <3> QED BY <2>1, <3>1, AwaitFacts
            DEF ImplementationStarted, EditsReturned, EditsFailedWithUsage, EditsFailedNoUsage,
                DiffCollected, StepFailed, Runners, Requests
  <2>3. /\ threads' \ {p} = threads \ {p}
        /\ UNCHANGED <<server, unfinished, fixRuns>>
    BY DEF ImplementationStarted, EditsReturned, EditsFailedWithUsage, EditsFailedNoUsage,
           DiffCollected, StepFailed, serverVars, historyVars
  <2>4. pc[p] = "diff" => p \notin threads  BY DEF ThreadsOwned
  <2> QED BY <2>1, <2>2, <2>3, <2>4, CountFacts
<1>1. CASE ImplementationStarted(p)
  <2> DEFINE rec == Advance(WithBaseline(mem[p]), "IMPLEMENTING")
  <2>1. /\ pc[p] = "baseline" /\ UNCHANGED billed
        /\ Save(p, rec) /\ Suspend(p, rec, "agent")
    BY <1>1 DEF ImplementationStarted, Continue, WithBaseline
  <2> HIDE DEF rec
  <2>2. Stays(p, rec, rec, "agent") /\ NoUsage(p)  BY <1>0, <2>1, StaysFacts, CountFacts
  <2> QED BY <1>0, <2>1, <2>2 DEF EditsOutcome, rec
<1>2. CASE EditsReturned(p)
  <2>1. /\ pc[p] = "agent" /\ Bill(p) /\ p \notin threads'
        /\ \/ /\ kind[p] = "implement"
              /\ Save(p, WithUsage(p)) /\ Suspend(p, WithUsage(p), "diff")
           \/ /\ kind[p] = "correct"
              /\ Save(p, Advance(WithUsage(p), "REVALIDATING"))
              /\ Suspend(p, Advance(WithUsage(p), "REVALIDATING"), "validate")
    BY <1>2 DEF EditsReturned, Continue
  <2>2. /\ Usage(p)
        /\ \/ kind[p] = "implement" /\ Stays(p, WithUsage(p), WithUsage(p), "diff")
           \/ /\ kind[p] = "correct"
              /\ Stays(p, Advance(WithUsage(p), "REVALIDATING"),
                       Advance(WithUsage(p), "REVALIDATING"), "validate")
    BY <1>0, <2>1, StaysFacts, CountFacts
  <2> QED BY <1>0, <2>1, <2>2 DEF EditsOutcome
<1>3. CASE EditsFailedWithUsage(p)
  <2>1. /\ pc[p] = "agent" /\ Bill(p) /\ p \notin threads' /\ UNCHANGED db
        /\ Suspend(p, WithUsage(p), "failing")
    BY <1>3 DEF EditsFailedWithUsage
  <2>2. Usage(p) /\ Stays(p, db[target[p]], WithUsage(p), "failing")
    BY <1>0, <2>1, StaysFacts, CountFacts
  <2> QED BY <1>0, <2>1, <2>2 DEF EditsOutcome
<1>4. CASE EditsFailedNoUsage(p) \/ StepFailed(p)
  <2>1. /\ pc[p] \in {"baseline", "agent", "diff", "validate"} /\ UNCHANGED <<db, billed>>
        /\ Suspend(p, mem[p], "failing")
        /\ p \notin threads => p \notin threads'
    BY <1>4 DEF EditsFailedNoUsage, StepFailed, historyVars
  <2>2. NoUsage(p) /\ Stays(p, db[target[p]], mem[p], "failing")
    BY <1>0, <2>1, StaysFacts, CountFacts
  <2> QED BY <1>0, <2>1, <2>2 DEF EditsOutcome
<1>5. CASE DiffCollected(p)
  <2> DEFINE rec == Advance(WithResult(mem[p]), "VALIDATING")
  <2>1. /\ pc[p] = "diff" /\ UNCHANGED billed /\ threads' = threads
        /\ Save(p, rec) /\ Suspend(p, rec, "validate")
    BY <1>5 DEF DiffCollected, Continue, WithResult, historyVars
  <2> HIDE DEF rec
  <2>2. Stays(p, rec, rec, "validate") /\ NoUsage(p)  BY <1>0, <2>1, StaysFacts, CountFacts
  <2> QED BY <1>0, <2>1, <2>2 DEF EditsOutcome, rec
<1> QED BY <1>1, <1>2, <1>3, <1>4, <1>5

ValidatedAs(rec, k, failures) ==
  [rec EXCEPT !.correctable = failures, !.attempted = @ \/ (k = "correct"),
              !.state = "IMPLEMENTATION_READY"]

EndOutcome(p) ==
  LET row == Settled(db[target[p]], "IMPLEMENTATION_FAILED")
  IN  /\ kind[p] \in {"implement", "correct"} /\ NoUsage(p) /\ NoFix(p)
      /\ \/ /\ pc[p] = "validate"
            /\ \E failures \in BOOLEAN : Leaves(p, ValidatedAs(mem[p], kind[p], failures))
         \/ /\ kind[p] = "implement" /\ pc[p] = "failing"
            /\ Ends(p, Fail(mem[p], "IMPLEMENTATION_FAILED"))
            /\ p \notin threads => p \notin threads'
         \/ /\ kind[p] = "correct" /\ pc[p] \in {"failing", "refused"}
            /\ Ends(p, RecordCorrectionFailure(mem[p], pc[p] = "failing"))
         \/ /\ GitRaises /\ pc[p] \in {"failing", "refused"}
            /\ (p \in threads /\ Stays(p, row, mem[p], "orphaned")) \/ Leaves(p, row)

LEMMA EndMoves ==
  ASSUME TypeOK, ThreadsOwned, AtItsAwait, NEW p \in Procs,
         Validated(p) \/ FailureRecorded(p) \/ RefreshRaised(p)
  PROVE  EndOutcome(p)
<1>0. /\ pc[p] # "idle" /\ kind[p] \in {"implement", "correct"} /\ mem[p] \in JobRecord
      /\ pc[p] = "refused" => kind[p] = "correct"
      /\ pc[p] = "validate" => p \notin threads
      /\ threads' = threads
      /\ UNCHANGED <<server, unfinished, fixRuns, billed>> /\ NoFix(p) /\ NoUsage(p)
  <2>1. pc[p] \in {"validate", "failing", "refused"} /\ pc[p] # "idle"
    BY DEF Validated, FailureRecorded, RefreshRaised
  <2>2. /\ kind[p] \in {"implement", "correct"}
        /\ pc[p] = "refused" => kind[p] = "correct"
    <3>1. pc[p] \in AwaitsOf(kind[p]) /\ kind[p] \in Runners \cup Requests \cup {"none"}
      BY DEF AtItsAwait, TypeOK
    <3> QED BY <2>1, <3>1, AwaitFacts DEF Runners, Requests
  <2>3. threads' = threads /\ UNCHANGED <<server, unfinished, fixRuns, billed>>
    BY DEF Validated, FailureRecorded, RefreshRaised, serverVars, historyVars
  <2>4. pc[p] = "validate" => p \notin threads  BY DEF ThreadsOwned
  <2> QED BY <2>1, <2>2, <2>3, <2>4, CountFacts, ActiveTarget
<1>1. CASE Validated(p)
  <2>1. PICK failures \in BOOLEAN : Finish(p, ValidatedAs(mem[p], kind[p], failures))
    BY <1>1 DEF Validated, ValidatedAs
  <2>2. IsTerminal(ValidatedAs(mem[p], kind[p], failures))
    BY <1>0 DEF ValidatedAs, IsTerminal, TerminalStates, JobRecord
  <2>3. Ends(p, ValidatedAs(mem[p], kind[p], failures))
    BY <1>0, <2>1, <2>2, EndsFacts
  <2>4. pc[p] = "validate" /\ p \notin threads'  BY <1>0, <1>1 DEF Validated
  <2> QED BY <1>0, <2>3, <2>4 DEF EndOutcome, Ends
<1>2. CASE FailureRecorded(p)
  <2>1. /\ pc[p] \in {"failing", "refused"}
        /\ \/ kind[p] = "implement" /\ Finish(p, Fail(mem[p], "IMPLEMENTATION_FAILED"))
           \/ /\ kind[p] = "correct"
              /\ Finish(p, RecordCorrectionFailure(mem[p], pc[p] = "failing"))
    BY <1>0, <1>2 DEF FailureRecorded
  <2>2. \/ kind[p] = "implement" /\ Ends(p, Fail(mem[p], "IMPLEMENTATION_FAILED"))
        \/ kind[p] = "correct" /\ Ends(p, RecordCorrectionFailure(mem[p], pc[p] = "failing"))
    BY <1>0, <2>1, EndStates, EndsFacts
  <2> QED BY <1>0, <2>1, <2>2 DEF EndOutcome
<1>3. CASE RefreshRaised(p)
  <2> DEFINE row == Settled(db[target[p]], "IMPLEMENTATION_FAILED")
  <2>1. /\ GitRaises /\ pc[p] \in {"failing", "refused"} /\ Save(p, row)
        /\ \/ p \in threads /\ Suspend(p, mem[p], "orphaned")
           \/ p \notin threads' /\ GoIdle(p)
    BY <1>0, <1>3 DEF RefreshRaised
  <2> HIDE DEF row
  <2>2. (p \in threads /\ Stays(p, row, mem[p], "orphaned")) \/ Leaves(p, row)
    BY <1>0, <2>1, StaysFacts, LeavesFacts
  <2> QED BY <1>0, <2>1, <2>2 DEF EndOutcome, row
<1> QED BY <1>1, <1>2, <1>3

ThreadOutcome(p) ==
  /\ p \in threads /\ kind[p] \in Runners /\ pc[p] \in {"agent", "failing", "orphaned"}
  /\ NoUsage(p) /\ NoFix(p)
  /\ \/ Stays(p, mem[p], mem[p], pc[p])
     \/ pc[p] = "orphaned" /\ Leaves(p, db[target[p]])
     \/ pc[p] = "failing" /\ p \notin threads' /\ Stays(p, db[target[p]], mem[p], "failing")

LEMMA ThreadMoves ==
  ASSUME TypeOK, ThreadsOwned, AtItsAwait, NEW p \in Procs, Thread(p)
  PROVE  ThreadOutcome(p)
<1>0. /\ p \in threads /\ pc[p] \in {"agent", "failing", "orphaned"} /\ pc[p] # "idle"
      /\ kind[p] \in Runners
      /\ threads' \ {p} = threads \ {p}
      /\ UNCHANGED <<server, unfinished, fixRuns, billed>> /\ NoFix(p) /\ NoUsage(p)
  <2>1. /\ p \in threads /\ threads' \ {p} = threads \ {p}
        /\ UNCHANGED <<server, unfinished, fixRuns, billed>>
    BY DEF Thread, Report, OrphanEnds, serverVars, historyVars
  <2>2. pc[p] \in {"agent", "failing", "orphaned"} /\ pc[p] # "idle"
    BY <2>1 DEF ThreadsOwned
  <2>3. kind[p] \in Runners
    <3>1. pc[p] \in AwaitsOf(kind[p]) /\ kind[p] \in Runners \cup Requests \cup {"none"}
      BY DEF AtItsAwait, TypeOK
    <3> QED BY <2>2, <3>1, AwaitFacts DEF Runners, Requests
  <2> QED BY <2>1, <2>2, <2>3, CountFacts
<1>1. UNCHANGED loopVars => Suspend(p, mem[p], pc[p])
  BY DEF loopVars, Suspend, TypeOK
<1>2. CASE Report(p)
  <2>1. Save(p, mem[p]) /\ Suspend(p, mem[p], pc[p])  BY <1>1, <1>2 DEF Report
  <2>2. Stays(p, mem[p], mem[p], pc[p])  BY <1>0, <2>1, StaysFacts
  <2> QED BY <1>0, <2>2 DEF ThreadOutcome
<1>3. CASE OrphanEnds(p)
  <2>1. /\ p \notin threads' /\ UNCHANGED db
        /\ \/ pc[p] = "orphaned" /\ GoIdle(p)
           \/ pc[p] = "failing" /\ Suspend(p, mem[p], pc[p])
    BY <1>0, <1>1, <1>3 DEF OrphanEnds
  <2>2. \/ pc[p] = "orphaned" /\ Leaves(p, db[target[p]])
        \/ pc[p] = "failing" /\ Stays(p, db[target[p]], mem[p], pc[p])
    BY <1>0, <2>1, StaysFacts, LeavesFacts
  <2> QED BY <1>0, <2>1, <2>2 DEF ThreadOutcome
<1> QED BY <1>2, <1>3 DEF Thread

\* Every step of a coroutine or of its thread is one of these.
LEMMA Outcome ==
  ASSUME TypeOK, ThreadsOwned, AtItsAwait, NEW p \in Procs, Step(p) \/ Thread(p)
  PROVE  /\ \/ GitOutcome(p) \/ SlotOutcome(p) \/ PlanOutcome(p) \/ EditsOutcome(p)
            \/ EndOutcome(p) \/ ThreadOutcome(p)
         /\ pc[p] # "idle" /\ target[p] \in Jobs /\ mem[p] \in JobRecord
         /\ db[target[p]] \in JobRecord
<1>1. \/ GitOutcome(p) \/ SlotOutcome(p) \/ PlanOutcome(p) \/ EditsOutcome(p)
      \/ EndOutcome(p) \/ ThreadOutcome(p)
  BY GitMoves, SlotMoves, PlanMoves, EditsMoves, EndMoves, ThreadMoves DEF Step
<1>2. pc[p] # "idle"
  BY <1>1 DEF GitOutcome, SlotOutcome, PlanOutcome, EditsOutcome, EndOutcome, ThreadOutcome
<1> QED BY <1>1, <1>2, ActiveTarget

-----------------------------------------------------------------------------
(* A request that starts a coroutine, pointwise.                           *)

\* p, idle before, works on job j as a coroutine of kind k.
Arrives(p, k, j, row, copy, at) ==
  /\ pc[p] = "idle" /\ server = "serving"
  /\ \A q \in Procs : q # p =>
       kind'[q] = kind[q] /\ target'[q] = target[q] /\ pc'[q] = pc[q] /\ mem'[q] = mem[q]
  /\ kind'[p] = k /\ target'[p] = j /\ pc'[p] = at /\ mem'[p] = copy
  /\ db'[j] = row /\ \A i \in Jobs : i # j => db'[i] = db[i]
  /\ UNCHANGED <<billed, fixRuns, threads, server, unfinished>>

RequestOutcome(p, j) ==
  \/ db[j].state = "ABSENT" /\ Arrives(p, "plan", j, NewJob, NoRow, "created")
  \/ /\ db[j].state = "PLAN_READY" /\ db[j].plan
     /\ Arrives(p, "implement", j, Approved(db[j]), NoRow, "created")
  \/ /\ db[j].state = "IMPLEMENTATION_READY"
     /\ Arrives(p, "correct", j, CorrectionRequested(db[j]), NoRow, "created")
  \/ /\ db[j].state = "IMPLEMENTATION_READY"
     /\ Arrives(p, "branch", j, db[j], db[j], "git")
  \/ db[j].branch /\ Arrives(p, "push", j, db[j], db[j], "git")

LEMMA RequestMoves ==
  ASSUME TypeOK, NEW p \in Procs, NEW j \in Jobs, Request(p, j)
  PROVE  RequestOutcome(p, j)
<1>1. ASSUME NEW k, NEW row, NEW copy, NEW at, Accepted(p), Spawn(p, k, j, copy, at),
             UNCHANGED <<billed, fixRuns, threads, server, unfinished>>
      PROVE  /\ db' = [db EXCEPT ![j] = row] => Arrives(p, k, j, row, copy, at)
             /\ UNCHANGED db => Arrives(p, k, j, db[j], copy, at)
  BY <1>1 DEF Accepted, Spawn, Arrives, TypeOK
<1>2. CASE CreateJob(p, j)
  BY <1>1, <1>2 DEF CreateJob, RequestOutcome, serverVars, historyVars
<1>3. CASE ImplementJob(p, j)
  <2>1. Arrives(p, "implement", j, Approved(db[j]), NoRow, "created")
    BY <1>1, <1>3 DEF ImplementJob, serverVars, historyVars
  <2> QED BY <1>3, <2>1 DEF ImplementJob, CanImplement, RequestOutcome
<1>4. CASE CorrectValidation(p, j)
  <2>1. Arrives(p, "correct", j, CorrectionRequested(db[j]), NoRow, "created")
    BY <1>1, <1>4 DEF CorrectValidation, serverVars, historyVars
  <2> QED BY <1>4, <2>1 DEF CorrectValidation, CanCorrect, RequestOutcome
<1>5. CASE CreateBranch(p, j)
  <2>1. Arrives(p, "branch", j, db[j], db[j], "git")
    BY <1>1, <1>5 DEF CreateBranch, serverVars, historyVars
  <2> QED BY <1>5, <2>1 DEF CreateBranch, CanCreateBranch, RequestOutcome
<1>6. CASE PushBranch(p, j)
  <2>1. Arrives(p, "push", j, db[j], db[j], "git")
    BY <1>1, <1>6 DEF PushBranch, serverVars, historyVars
  <2> QED BY <1>6, <2>1 DEF PushBranch, CanPush, RequestOutcome
<1> QED BY <1>2, <1>3, <1>4, <1>5, <1>6 DEF Request

\* The process dies, or the recovery pass goes on: no coroutine is left.
Dies ==
  /\ \A p \in Procs : kind'[p] = "none" /\ target'[p] = NoJob /\ pc'[p] = "idle" /\ mem'[p] = NoRow
  /\ server' = "down" /\ threads' = {} /\ unfinished' = {} /\ ForgetUnsavedUsage
  /\ UNCHANGED <<db, fixRuns>>

Recovers ==
  /\ \A p \in Procs : pc[p] = "idle" /\ kind[p] = "none"
  /\ UNCHANGED <<kind, target, pc, mem, threads, fixRuns, billed>>
  /\ \/ /\ server = "down" /\ server' = "recovering"
        /\ unfinished' = {j \in Jobs : Unfinished(db[j])} /\ UNCHANGED db
     \/ /\ server = "recovering" /\ server' = "recovering"
        /\ \E j \in unfinished :
             /\ unfinished' = unfinished \ {j} /\ Unfinished(db[j])
             /\ \/ /\ db'[j] = Recovered(db[j])
                   /\ \A i \in Jobs : i # j => db'[i] = db[i]
                \/ GitRaises /\ UNCHANGED db
     \/ /\ server = "recovering" /\ server' = "serving"
        /\ unfinished = {} /\ UNCHANGED <<db, unfinished>>

LEMMA ServerMoves ==
  ASSUME TypeOK, RestartIsClean, Crash \/ Recovery
  PROVE  Dies \/ Recovers
<1>0. server \in {"down", "recovering"} => \A p \in Procs : pc[p] = "idle" /\ kind[p] = "none"
  BY DEF RestartIsClean, TypeOK
<1>1. CASE Crash \/ Exit
  BY <1>1 DEF Crash, Exit, Die, Dies
<1>2. CASE Restart \/ Serve
  BY <1>0, <1>2 DEF Restart, Serve, Recovers, loopVars, historyVars
<1>3. ASSUME NEW j \in Jobs, RecoverJob(j) \/ RecoverySkips(j) PROVE Recovers
  <2>1. /\ server = "recovering" /\ server' = "recovering" /\ j \in unfinished
        /\ unfinished' = unfinished \ {j} /\ Unfinished(db[j])
        /\ UNCHANGED <<kind, target, pc, mem, threads, fixRuns, billed>>
    BY <1>3 DEF RecoverJob, RecoverySkips, RestartIsClean, loopVars, historyVars
  <2>2. \/ db'[j] = Recovered(db[j]) /\ \A i \in Jobs : i # j => db'[i] = db[i]
        \/ GitRaises /\ UNCHANGED db
    BY <1>3 DEF RecoverJob, RecoverySkips, TypeOK
  <2> QED BY <1>0, <2>1, <2>2 DEF Recovers
<1> QED BY <1>1, <1>2, <1>3 DEF Recovery

\* A shutdown leaves the coroutines whose agent thread is alive, all of them runners.
Halts ==
  /\ server = "serving" /\ server' = "stopping"
  /\ \A p \in Procs :
       IF p \in threads
       THEN /\ kind'[p] = kind[p] /\ target'[p] = target[p] /\ mem'[p] = mem[p]
            /\ pc'[p] = "orphaned"
            /\ kind[p] \in Runners /\ target[p] \in Jobs /\ pc[p] \in {"agent", "failing", "orphaned"}
       ELSE kind'[p] = "none" /\ target'[p] = NoJob /\ mem'[p] = NoRow /\ pc'[p] = "idle"
  /\ \A j \in Jobs :
       \/ db'[j] \in {db[j], Settled(db[j], "IMPLEMENTATION_FAILED")}
       \/ db[j].state \notin AfterApproval /\ db'[j] = Settled(db[j], "FAILED")
  /\ ForgetUnsavedUsage
  /\ UNCHANGED <<threads, unfinished, fixRuns>>

LEMMA ShutdownMoves ==
  ASSUME TypeOK, ThreadsOwned, AtItsAwait, CopiesFit, Shutdown
  PROVE  Halts
<1>1. ASSUME NEW p \in threads
      PROVE  kind[p] \in Runners /\ target[p] \in Jobs /\ pc[p] \in {"agent", "failing", "orphaned"}
  <2>1. p \in Procs /\ pc[p] \in {"agent", "failing", "orphaned"}
    BY <1>1 DEF ThreadsOwned, TypeOK
  <2>2. pc[p] \in AwaitsOf(kind[p]) /\ kind[p] \in Runners \cup Requests \cup {"none"}
    BY <2>1 DEF AtItsAwait, TypeOK
  <2>3. kind[p] \in Runners  BY <2>1, <2>2, AwaitFacts DEF Runners, Requests
  <2> QED BY <2>1, <2>3 DEF TypeOK
<1>2. ASSUME NEW j \in Jobs
      PROVE  \/ db'[j] \in {db[j], Settled(db[j], "IMPLEMENTATION_FAILED")}
             \/ db[j].state \notin AfterApproval /\ db'[j] = Settled(db[j], "FAILED")
  <2>1. ASSUME NEW p \in Procs, target[p] = j, kind[p] = "plan"
        PROVE  db[j].state \notin AfterApproval
    <3>1. Fits("plan", db[j])
      BY <2>1 DEF CopiesFit, TypeOK
    <3> QED BY <3>1 DEF Fits, AfterApproval, BeforeApproval
  <2>2. (\E p \in Cancellable(j) : kind[p] = "plan") => db[j].state \notin AfterApproval
    BY <2>1 DEF Cancellable
  <2> QED BY <2>2 DEF Shutdown
<1> QED BY <1>1, <1>2 DEF Shutdown, Halts

-----------------------------------------------------------------------------
(* A job offered for review has its implementation.                        *)

Review == CorrectionStates \cup {"IMPLEMENTATION_READY"}

\* The coroutines a reviewed job may have; planning and implementing come before the review.
ReviewKinds == {"correct", "branch", "push"}

HasImplementation(rec) == rec.plan /\ rec.result /\ rec.baseline /\ rec.implCost

Reviewable(rec) == rec.state \in Review \/ rec.branch => HasImplementation(rec)

NotYetReviewed(rec) ==
  rec.state \in ImplementationStates \cup {"IMPLEMENTATION_FAILED"} /\ ~rec.branch

\* What the row and the copy of a coroutine of kind k at await `at` have to show: after the
\* review all of the implementation, before it what the steps so far have brought.
Shows(k, at, row, copy) ==
  /\ k \in ReviewKinds => /\ HasImplementation(row)
                          /\ at # "created" => HasImplementation(copy)
  /\ k = "implement" =>
       /\ NotYetReviewed(row)
       /\ at # "created" => NotYetReviewed(copy)
       /\ at \in {"baseline", "agent", "diff", "validate"} => copy.plan
       /\ at \in {"agent", "diff", "validate"} => copy.baseline
       /\ at \in {"diff", "validate"} => copy.implCost
       /\ at = "validate" => copy.result

RowsReviewable == \A j \in Jobs : Reviewable(db[j])

CopiesShow == \A p \in Procs : Shows(kind[p], pc[p], db[target[p]], mem[p])

\* Planning and implementing share their job with nobody.
WorksAlone ==
  \A p, q \in Procs : p # q /\ kind[p] \in {"plan", "implement"} => target[p] # target[q]

ReviewInv == RowsReviewable /\ CopiesShow /\ WorksAlone

LEMMA Company ==
  ASSUME TypeOK, WorksAlone, NEW p \in Procs, NEW q \in Procs, p # q, pc[p] # "idle",
         target[p] = target[q]
  PROVE  kind[p] \in ReviewKinds /\ kind[q] \in ReviewKinds
BY DEF TypeOK, WorksAlone, ReviewKinds, Runners, Requests

LEMMA ReviewMoves ==
  ASSUME TypeOK, ReviewInv, NEW p \in Procs, pc[p] # "idle", NEW row, Reviewable(row),
         kind[p] \in ReviewKinds => HasImplementation(row),
         \/ Leaves(p, row)
         \/ \E copy, at : Stays(p, row, copy, at) /\ Shows(kind[p], at, row, copy)
  PROVE  ReviewInv'
<1>1. \A q \in Procs : q # p =>
        kind'[q] = kind[q] /\ target'[q] = target[q] /\ pc'[q] = pc[q] /\ mem'[q] = mem[q]
  BY DEF Leaves, Stays, Elsewhere
<1>2. target[p] \in Jobs /\ db'[target[p]] = row /\ \A j \in Jobs : j # target[p] => db'[j] = db[j]
  BY ActiveTarget DEF Leaves, Stays, Elsewhere
<1>3. RowsReviewable'
  BY <1>2 DEF ReviewInv, RowsReviewable
<1>4. CopiesShow'
  <2> SUFFICES ASSUME NEW q \in Procs PROVE Shows(kind'[q], pc'[q], db'[target'[q]], mem'[q])
    BY DEF CopiesShow
  <2>1. CASE q = p
    <3>1. CASE Leaves(p, row)
      BY <2>1, <3>1 DEF Leaves, Shows, ReviewKinds
    <3>2. CASE \E copy, at : Stays(p, row, copy, at) /\ Shows(kind[p], at, row, copy)
      BY <1>2, <2>1, <3>2 DEF Stays
    <3> QED BY <3>1, <3>2
  <2>2. CASE q # p /\ target[q] = target[p]
    <3>1. kind[q] \in ReviewKinds /\ HasImplementation(row)
      BY <2>2, Company DEF ReviewInv
    <3>2. Shows(kind[q], pc[q], db[target[q]], mem[q])  BY DEF ReviewInv, CopiesShow
    <3> QED BY <1>1, <1>2, <2>2, <3>1, <3>2 DEF Shows, ReviewKinds
  <2>3. CASE q # p /\ target[q] # target[p]
    <3>1. CASE kind[q] = "none"
      BY <1>1, <2>3, <3>1 DEF Shows, ReviewKinds
    <3>2. CASE kind[q] # "none"
      <4>1. target[q] \in Jobs  BY <3>2 DEF TypeOK
      <4> QED BY <1>1, <1>2, <2>3, <4>1 DEF ReviewInv, CopiesShow
    <3> QED BY <3>1, <3>2
  <2> QED BY <2>1, <2>2, <2>3
<1>5. WorksAlone'
  <2>1. \/ kind'[p] = "none" /\ target'[p] = NoJob
        \/ kind'[p] = kind[p] /\ target'[p] = target[p]
    BY DEF Leaves, Stays
  <2>2. \A q \in Procs : kind[q] \in {"plan", "implement"} => target[q] # NoJob
    BY DEF TypeOK
  <2> QED BY <1>1, <2>1, <2>2 DEF ReviewInv, WorksAlone
<1> QED BY <1>3, <1>4, <1>5 DEF ReviewInv

LEMMA ReviewStays ==
  ASSUME TypeOK, ReviewInv, NEW p \in Procs, pc[p] # "idle", NEW row, NEW copy, NEW at,
         Stays(p, row, copy, at), Reviewable(row), Shows(kind[p], at, row, copy)
  PROVE  ReviewInv'
BY ReviewMoves DEF Shows

LEMMA ReviewEnds ==
  ASSUME TypeOK, ReviewInv, NEW p \in Procs, pc[p] # "idle", NEW rec, Ends(p, rec),
         Reviewable(rec), Shows(kind[p], "orphaned", rec, rec)
  PROVE  ReviewInv'
BY ReviewMoves DEF Ends, Shows

LEMMA ReviewStep ==
  ASSUME IInv, ReviewInv, NEW p \in Procs, Step(p) \/ Thread(p)
  PROVE  ReviewInv'
<1> USE DEF IInv
<1>0. /\ pc[p] # "idle" /\ mem[p] \in JobRecord /\ db[target[p]] \in JobRecord
      /\ target[p] \in Jobs
      /\ Reviewable(db[target[p]])
      /\ Shows(kind[p], pc[p], db[target[p]], mem[p])
  BY Outcome DEF ReviewInv, RowsReviewable, CopiesShow
<1>1. CASE GitOutcome(p)
  <2>1. kind[p] \in Requests  BY <1>1, AwaitFacts DEF GitOutcome, AtItsAwait, TypeOK, Runners, Requests
  <2>2. HasImplementation(mem[p]) /\ HasImplementation(db[target[p]])
    BY <1>0, <1>1, <2>1 DEF Shows, GitOutcome, ReviewKinds, Requests
  <2>3. /\ HasImplementation([mem[p] EXCEPT !.branch = TRUE])
        /\ HasImplementation([mem[p] EXCEPT !.pushed = TRUE])
    BY <1>0, <2>2 DEF HasImplementation, JobRecord
  <2> QED BY <1>0, <1>1, <2>2, <2>3, ReviewMoves DEF GitOutcome, Reviewable
<1>2. CASE SlotOutcome(p)
  <2> DEFINE rec == CopyAtStart(p)
             row == db[target[p]]
  <2>0. /\ rec \in JobRecord
        /\ \A k : k = "plan" => Fits(k, rec) \/ k # kind[p]
        /\ kind[p] = "correct" => HasImplementation(rec) /\ HasImplementation(row)
        /\ kind[p] = "implement" => NotYetReviewed(rec) /\ NotYetReviewed(row)
        /\ kind[p] \in {"plan", "implement", "correct"}
    BY <1>0, <1>2 DEF SlotOutcome, CopyAtStart, ApprovalInv, CopiesFit, Shows, ReviewKinds, Runners
  <2>1. CASE Stays(p, row, row, "waiting") /\ pc[p] = "created"
    <3>1. Shows(kind[p], "waiting", row, row)
      BY <2>0, <2>1 DEF Shows, CopyAtStart, ReviewKinds
    <3> QED BY <1>0, <2>1, <3>1, ReviewStays
  <2>2. CASE /\ kind[p] = "plan"
             /\ \/ Stays(p, Advance(rec, "FETCHING_TICKET"), Advance(rec, "FETCHING_TICKET"), "fetch")
                \/ Ends(p, Fail(rec, "FAILED"))
    <3>1. ~rec.branch  BY <2>0, <2>2 DEF Fits
    <3>2. Reviewable(Advance(rec, "FETCHING_TICKET")) /\ Reviewable(Fail(rec, "FAILED"))
      BY <2>0, <3>1 DEF Reviewable, Review, Advance, Fail, JobRecord, CorrectionStates
    <3>3. \A at, r : Shows(kind[p], at, r, r)  BY <2>2 DEF Shows, ReviewKinds
    <3> HIDE DEF rec, row
    <3> QED BY <1>0, <2>2, <3>2, <3>3, ReviewStays, ReviewEnds
  <2>3. CASE /\ kind[p] = "implement"
             /\ \/ rec.plan /\ Stays(p, row, rec, "baseline")
                \/ Stays(p, row, rec, "failing")
    <3>1. /\ rec.plan => Shows(kind[p], "baseline", row, rec)
          /\ Shows(kind[p], "failing", row, rec)
      BY <2>0, <2>3 DEF Shows, ReviewKinds
    <3> HIDE DEF rec
    <3> QED BY <1>0, <2>3, <3>1, ReviewStays
  <2>4. CASE /\ kind[p] = "correct"
             /\ Stays(p, row, rec, "refused") \/ Stays(p, row, rec, "failing")
    <3>1. /\ Shows(kind[p], "refused", row, rec)
          /\ Shows(kind[p], "failing", row, rec)
      BY <2>0, <2>4 DEF Shows, ReviewKinds
    <3> HIDE DEF rec
    <3> QED BY <1>0, <2>4, <3>1, ReviewStays
  <2>5. CASE /\ kind[p] = "correct"
             /\ \/ Stays(p, Started(rec), Started(rec), "failing")
                \/ Stays(p, Started(rec), Started(rec), "agent")
    <3>1. HasImplementation(Started(rec))
      BY <2>0, <2>5 DEF Started, HasImplementation, JobRecord
    <3>2. /\ Reviewable(Started(rec))
          /\ Shows(kind[p], "failing", Started(rec), Started(rec))
          /\ Shows(kind[p], "agent", Started(rec), Started(rec))
      BY <2>5, <3>1 DEF Shows, Reviewable, ReviewKinds
    <3> HIDE DEF rec
    <3> QED BY <1>0, <2>5, <3>2, ReviewStays
  <2> QED BY <1>2, <2>1, <2>2, <2>3, <2>4, <2>5 DEF SlotOutcome
<1>3. CASE PlanOutcome(p)
  <2>1. ~mem[p].branch
    BY <1>0, <1>3 DEF PlanOutcome, ApprovalInv, CopiesFit, Fits
  <2>2. \A s \in PlanStates : Reviewable(Advance(mem[p], s))
    BY <1>0, <2>1 DEF Reviewable, Review, Advance, JobRecord, CorrectionStates, PlanStates
  <2>3. /\ Reviewable(Fail(mem[p], "FAILED")) /\ Reviewable(Planned(mem[p]))
        /\ Reviewable(Fail(WithPlanCost(mem[p]), "FAILED"))
    BY <1>0, <2>1 DEF Reviewable, Review, Fail, Planned, WithPlanCost, JobRecord, CorrectionStates
  <2>4. \A at, rec : Shows(kind[p], at, rec, rec) /\ kind[p] \notin ReviewKinds
    BY <1>3 DEF PlanOutcome, Shows, ReviewKinds
  <2>5. ASSUME NEW s \in PlanStates, NEW at, Stays(p, Advance(mem[p], s), Advance(mem[p], s), at)
        PROVE  ReviewInv'
    BY <1>0, <2>2, <2>4, <2>5, ReviewStays
  <2>6. CASE Ends(p, Fail(mem[p], "FAILED"))
    BY <1>0, <2>3, <2>4, <2>6, ReviewEnds
  <2>7. CASE Leaves(p, Planned(mem[p])) \/ Leaves(p, Fail(WithPlanCost(mem[p]), "FAILED"))
    BY <1>0, <2>3, <2>4, <2>7, ReviewMoves
  <2> QED BY <1>3, <2>5, <2>6, <2>7 DEF PlanOutcome
<1>4. CASE EditsOutcome(p)
  <2> DEFINE row == db[target[p]]
  <2>0. /\ kind[p] = "implement" => NotYetReviewed(mem[p]) /\ NotYetReviewed(row)
        /\ kind[p] = "correct" => HasImplementation(mem[p]) /\ HasImplementation(row)
        /\ kind[p] \in {"implement", "correct"}
    BY <1>0, <1>4 DEF EditsOutcome, Shows, ReviewKinds
  <2>1. ASSUME NEW rec, NEW at, Stays(p, rec, rec, at), kind[p] = "implement",
               NotYetReviewed(rec), Shows(kind[p], at, rec, rec)
        PROVE  ReviewInv'
    <3>1. Reviewable(rec)
      BY <2>1 DEF Reviewable, NotYetReviewed, Review, ImplementationStates, CorrectionStates
    <3> QED BY <1>0, <2>1, <3>1, ReviewStays
  <2>2. CASE /\ kind[p] = "implement" /\ pc[p] = "baseline"
             /\ Stays(p, Advance(WithBaseline(mem[p]), "IMPLEMENTING"),
                      Advance(WithBaseline(mem[p]), "IMPLEMENTING"), "agent")
    <3> DEFINE rec == Advance(WithBaseline(mem[p]), "IMPLEMENTING")
    <3>1. NotYetReviewed(rec) /\ rec.baseline /\ rec.plan
      BY <1>0, <2>0, <2>2
      DEF Shows, Advance, WithBaseline, JobRecord, NotYetReviewed, ImplementationStates
    <3> HIDE DEF rec
    <3>2. Shows(kind[p], "agent", rec, rec)  BY <2>2, <3>1 DEF Shows, ReviewKinds
    <3> QED BY <2>1, <2>2, <3>1, <3>2 DEF rec
  <2>3. CASE kind[p] = "implement" /\ pc[p] = "agent" /\ Stays(p, WithUsage(p), WithUsage(p), "diff")
    <3>1. NotYetReviewed(WithUsage(p)) /\ Shows(kind[p], "diff", WithUsage(p), WithUsage(p))
      BY <1>0, <2>0, <2>3 DEF Shows, WithUsage, JobRecord, NotYetReviewed, ReviewKinds
    <3> QED BY <2>1, <2>3, <3>1
  <2>4. CASE /\ kind[p] = "implement" /\ pc[p] = "diff"
             /\ Stays(p, Advance(WithResult(mem[p]), "VALIDATING"),
                      Advance(WithResult(mem[p]), "VALIDATING"), "validate")
    <3> DEFINE rec == Advance(WithResult(mem[p]), "VALIDATING")
    <3>1. NotYetReviewed(rec) /\ rec.baseline /\ rec.plan /\ rec.result /\ rec.implCost
      BY <1>0, <2>0, <2>4
      DEF Shows, Advance, WithResult, JobRecord, NotYetReviewed, ImplementationStates
    <3> HIDE DEF rec
    <3>2. Shows(kind[p], "validate", rec, rec)  BY <2>4, <3>1 DEF Shows, ReviewKinds
    <3> QED BY <2>1, <2>4, <3>1, <3>2 DEF rec
  <2>5. CASE /\ kind[p] = "correct"
             /\ Stays(p, Advance(WithUsage(p), "REVALIDATING"),
                      Advance(WithUsage(p), "REVALIDATING"), "validate")
    <3> DEFINE rec == Advance(WithUsage(p), "REVALIDATING")
    <3>1. HasImplementation(rec)
      BY <1>0, <2>0, <2>5 DEF Advance, WithUsage, JobRecord, HasImplementation
    <3> HIDE DEF rec
    <3>2. Reviewable(rec) /\ Shows(kind[p], "validate", rec, rec)
      BY <2>5, <3>1 DEF Shows, Reviewable
    <3> QED BY <1>0, <2>5, <3>2, ReviewStays DEF rec
  <2>6. ASSUME NEW copy \in {mem[p], WithUsage(p)}, Stays(p, row, copy, "failing")
        PROVE  ReviewInv'
    <3>1. /\ kind[p] = "implement" => NotYetReviewed(copy)
          /\ kind[p] = "correct" => HasImplementation(copy)
      BY <1>0, <2>0 DEF WithUsage, JobRecord, NotYetReviewed, HasImplementation
    <3>2. Shows(kind[p], "failing", row, copy)
      BY <2>0, <3>1 DEF Shows, ReviewKinds
    <3> QED BY <1>0, <2>6, <3>2, ReviewStays
  <2> QED BY <1>4, <2>2, <2>3, <2>4, <2>5, <2>6 DEF EditsOutcome
<1>5. CASE EndOutcome(p)
  <2> DEFINE row == Settled(db[target[p]], "IMPLEMENTATION_FAILED")
  <2>0. kind[p] \in {"implement", "correct"}
    BY <1>5 DEF EndOutcome
  <2>1. CASE /\ pc[p] = "validate"
             /\ \E failures \in BOOLEAN : Leaves(p, ValidatedAs(mem[p], kind[p], failures))
    <3> PICK failures \in BOOLEAN : Leaves(p, ValidatedAs(mem[p], kind[p], failures))
      BY <2>1
    <3>1. HasImplementation(ValidatedAs(mem[p], kind[p], failures))
      BY <1>0, <2>0, <2>1 DEF Shows, ReviewKinds, ValidatedAs, HasImplementation, JobRecord
    <3> QED BY <1>0, <3>1, ReviewMoves DEF Reviewable
  <2>2. CASE kind[p] = "implement" /\ pc[p] = "failing" /\ Ends(p, Fail(mem[p], "IMPLEMENTATION_FAILED"))
    <3> DEFINE rec == Fail(mem[p], "IMPLEMENTATION_FAILED")
    <3>1. NotYetReviewed(rec)
      BY <1>0, <2>2 DEF Shows, NotYetReviewed, Fail, JobRecord
    <3> HIDE DEF rec
    <3>2. Reviewable(rec) /\ Shows(kind[p], "orphaned", rec, rec)
      BY <2>2, <3>1
      DEF Shows, Reviewable, NotYetReviewed, Review, ReviewKinds, ImplementationStates, CorrectionStates
    <3> QED BY <1>0, <2>2, <3>2, ReviewEnds DEF rec
  <2>3. CASE /\ kind[p] = "correct" /\ pc[p] \in {"failing", "refused"}
             /\ Ends(p, RecordCorrectionFailure(mem[p], pc[p] = "failing"))
    <3> DEFINE rec == RecordCorrectionFailure(mem[p], pc[p] = "failing")
    <3>1. HasImplementation(rec)
      BY <1>0, <2>3 DEF Shows, ReviewKinds, HasImplementation, RecordCorrectionFailure, JobRecord
    <3> HIDE DEF rec
    <3>2. Reviewable(rec) /\ Shows(kind[p], "orphaned", rec, rec)
      BY <2>3, <3>1 DEF Shows, Reviewable
    <3> QED BY <1>0, <2>3, <3>2, ReviewEnds DEF rec
  <2>4. CASE /\ pc[p] \in {"failing", "refused"}
             /\ Stays(p, row, mem[p], "orphaned") \/ Leaves(p, row)
    <3>1. /\ Reviewable(row)
          /\ kind[p] = "implement" => NotYetReviewed(row) /\ NotYetReviewed(mem[p])
          /\ kind[p] = "correct" => HasImplementation(row) /\ HasImplementation(mem[p])
      BY <1>0, <2>0, <2>4
      DEF Shows, ReviewKinds, Settled, Fail, Reviewable, NotYetReviewed, HasImplementation, Review,
          CorrectionStates, JobRecord
    <3> HIDE DEF row
    <3>2. Shows(kind[p], "orphaned", row, mem[p])
      BY <2>0, <3>1 DEF Shows, ReviewKinds
    <3> QED BY <1>0, <2>0, <2>4, <3>1, <3>2, ReviewStays, ReviewMoves DEF ReviewKinds
  <2> QED BY <1>5, <2>1, <2>2, <2>3, <2>4 DEF EndOutcome
<1>6. CASE ThreadOutcome(p)
  <2>0. /\ kind[p] \in {"plan", "implement", "correct"}
        /\ pc[p] # "created"
    BY <1>6 DEF ThreadOutcome, Runners
  <2>1. CASE Stays(p, mem[p], mem[p], pc[p])
    <3>1. Shows(kind[p], pc[p], mem[p], mem[p])
      BY <1>0, <2>0 DEF Shows
    <3>2. Reviewable(mem[p])
      <4>1. CASE kind[p] = "plan"
        <5>1. Fits("plan", mem[p])  BY <1>0, <2>0, <4>1 DEF ApprovalInv, CopiesFit
        <5> QED BY <5>1 DEF Fits, Reviewable, Review, PlanStates, CorrectionStates
      <4>2. CASE kind[p] \in {"implement", "correct"}
        BY <1>0, <2>0, <4>2
        DEF Shows, ReviewKinds, Reviewable, NotYetReviewed, Review, ImplementationStates, CorrectionStates
      <4> QED BY <2>0, <4>1, <4>2
    <3> QED BY <1>0, <2>1, <3>1, <3>2, ReviewStays
  <2>2. CASE Leaves(p, db[target[p]])
    <3>1. kind[p] \in ReviewKinds => HasImplementation(db[target[p]])  BY <1>0 DEF Shows
    <3> QED BY <1>0, <2>2, <3>1, ReviewMoves
  <2>3. CASE pc[p] = "failing" /\ Stays(p, db[target[p]], mem[p], "failing")
    BY <1>0, <2>3, ReviewStays
  <2> QED BY <1>6, <2>1, <2>2, <2>3 DEF ThreadOutcome
<1> QED BY <1>1, <1>2, <1>3, <1>4, <1>5, <1>6, Outcome

LEMMA ReviewRequest ==
  ASSUME IInv, ReviewInv, NEW p \in Procs, NEW j \in Jobs, Request(p, j)
  PROVE  ReviewInv'
<1> USE DEF IInv
<1>0. RequestOutcome(p, j) /\ db[j] \in JobRecord /\ Reviewable(db[j])
  BY RequestMoves DEF TypeOK, ReviewInv, RowsReviewable
<1>1. ASSUME NEW k, NEW row, NEW copy, NEW at, Arrives(p, k, j, row, copy, at), k # "none",
             Reviewable(row), Shows(k, at, row, copy), k \in ReviewKinds => HasImplementation(row),
             \/ \A q \in Procs : pc[q] # "idle" => target[q] # j
             \/ /\ k \in ReviewKinds
                /\ db[j].state \in Review \/ db[j].branch
      PROVE  ReviewInv'
  <2>1. RowsReviewable'  BY <1>1 DEF Arrives, ReviewInv, RowsReviewable
  <2>2. \A q \in Procs : pc[q] # "idle" /\ target[q] = j =>
          kind[q] \in ReviewKinds /\ k \in ReviewKinds
    <3> SUFFICES ASSUME NEW q \in Procs, pc[q] # "idle", target[q] = j
                 PROVE  kind[q] \in ReviewKinds /\ k \in ReviewKinds
      OBVIOUS
    <3>1. k \in ReviewKinds /\ (db[j].state \in Review \/ db[j].branch)
      BY <1>1
    <3>2. kind[q] # "implement"
      BY <3>1 DEF ReviewInv, CopiesShow, Shows, NotYetReviewed, Review, ImplementationStates, CorrectionStates
    <3>3. kind[q] # "plan"
      <4>1. kind[q] = "plan" => Fits("plan", db[j])  BY DEF ApprovalInv, CopiesFit
      <4> QED BY <3>1, <4>1 DEF Fits, Review, PlanStates, CorrectionStates
    <3> QED BY <3>1, <3>2, <3>3 DEF TypeOK, ReviewKinds, Runners, Requests
  <2>3. CopiesShow'
    <3> SUFFICES ASSUME NEW q \in Procs PROVE Shows(kind'[q], pc'[q], db'[target'[q]], mem'[q])
      BY DEF CopiesShow
    <3>1. CASE q = p
      BY <1>1, <3>1 DEF Arrives
    <3>2. CASE q # p /\ pc[q] # "idle" /\ target[q] = j
      <4>1. Shows(kind[q], pc[q], db[j], mem[q])  BY <3>2 DEF ReviewInv, CopiesShow
      <4>2. kind[q] \in ReviewKinds /\ HasImplementation(row)  BY <1>1, <2>2, <3>2
      <4> QED BY <1>1, <3>2, <4>1, <4>2 DEF Arrives, Shows, ReviewKinds
    <3>3. CASE q # p /\ pc[q] # "idle" /\ target[q] # j
      <4>1. target[q] \in Jobs  BY <3>3 DEF TypeOK
      <4> QED BY <1>1, <3>3, <4>1 DEF Arrives, ReviewInv, CopiesShow
    <3>4. CASE q # p /\ pc[q] = "idle"
      <4>1. kind[q] = "none"  BY <3>4 DEF TypeOK
      <4> QED BY <1>1, <3>4, <4>1 DEF Arrives, Shows, ReviewKinds
    <3> QED BY <3>1, <3>2, <3>3, <3>4
  <2>4. WorksAlone'
    <3>1. \A q \in Procs : target[q] = j => pc[q] # "idle"  BY NoJobAssumption DEF TypeOK
    <3>2. "plan" \notin ReviewKinds /\ "implement" \notin ReviewKinds  BY DEF ReviewKinds
    <3> QED BY <1>1, <2>2, <3>1, <3>2 DEF Arrives, ReviewInv, WorksAlone
  <2> QED BY <2>1, <2>3, <2>4 DEF ReviewInv
<1>2. CASE db[j].state = "ABSENT" /\ Arrives(p, "plan", j, NewJob, NoRow, "created")
  <2>1. Reviewable(NewJob) /\ Shows("plan", "created", NewJob, NoRow)
    BY DEF Reviewable, NewJob, NoRow, Review, CorrectionStates, Shows, ReviewKinds
  <2>2. "plan" \notin ReviewKinds  BY DEF ReviewKinds
  <2> QED BY <1>1, <1>2, <2>1, <2>2, Unattended
<1>3. CASE /\ db[j].state = "PLAN_READY"
           /\ Arrives(p, "implement", j, Approved(db[j]), NoRow, "created")
  <2>1. ~db[j].branch
    BY <1>3 DEF ApprovalInv, NotYetImplemented, BeforeApproval
  <2>2. NotYetReviewed(Approved(db[j]))
    BY <1>0, <2>1 DEF NotYetReviewed, Approved, JobRecord, ImplementationStates
  <2>3. /\ Reviewable(Approved(db[j])) /\ Shows("implement", "created", Approved(db[j]), NoRow)
        /\ "implement" \notin ReviewKinds
    BY <2>2 DEF Reviewable, NotYetReviewed, Review, ImplementationStates, CorrectionStates, Shows, ReviewKinds
  <2> QED BY <1>1, <1>3, <2>3, Unattended
<1>4. CASE /\ db[j].state = "IMPLEMENTATION_READY"
           /\ Arrives(p, "correct", j, CorrectionRequested(db[j]), NoRow, "created")
  <2>1. HasImplementation(db[j]) /\ db[j].state \in Review  BY <1>0, <1>4 DEF Reviewable, Review
  <2>2. HasImplementation(CorrectionRequested(db[j]))
    BY <1>0, <2>1 DEF HasImplementation, CorrectionRequested, JobRecord
  <2>3. /\ Reviewable(CorrectionRequested(db[j])) /\ "correct" \in ReviewKinds
        /\ Shows("correct", "created", CorrectionRequested(db[j]), NoRow)
    BY <2>2 DEF Reviewable, Shows, ReviewKinds
  <2> QED BY <1>1, <1>4, <2>1, <2>2, <2>3
<1>5. ASSUME NEW k \in {"branch", "push"}, Arrives(p, k, j, db[j], db[j], "git"),
             db[j].state = "IMPLEMENTATION_READY" \/ db[j].branch
      PROVE  ReviewInv'
  <2>1. HasImplementation(db[j]) /\ (db[j].state \in Review \/ db[j].branch)
    BY <1>0, <1>5 DEF Reviewable, Review
  <2>2. k \in ReviewKinds /\ Shows(k, "git", db[j], db[j])
    BY <2>1, <1>5 DEF Shows, ReviewKinds
  <2> QED BY <1>0, <1>1, <1>5, <2>1, <2>2
<1> QED BY <1>0, <1>2, <1>3, <1>4, <1>5 DEF RequestOutcome

LEMMA SettledRow ==
  ASSUME NEW rec \in JobRecord, NEW s \in {"FAILED", "IMPLEMENTATION_FAILED"}
  PROVE  /\ Reviewable(rec) => Reviewable(Settled(rec, s))
         /\ HasImplementation(rec) => HasImplementation(Settled(rec, s))
         /\ Settled(rec, s).branch = rec.branch
         /\ Settled(rec, s).planCost = rec.planCost /\ Settled(rec, s).implCost = rec.implCost
         /\ Settled(rec, s).fixCost = rec.fixCost /\ Settled(rec, s).fixStarted = rec.fixStarted
BY DEF Settled, Fail, Reviewable, HasImplementation, Review, CorrectionStates, JobRecord

LEMMA ReviewServer ==
  ASSUME IInv, ReviewInv, ApprovalInv', Crash \/ Shutdown \/ Recovery
  PROVE  ReviewInv'
<1> USE DEF IInv
<1>1. CASE Dies
  <2>1. CopiesShow' /\ WorksAlone'  BY <1>1 DEF Dies, CopiesShow, WorksAlone, Shows, ReviewKinds
  <2> QED BY <1>1, <2>1 DEF Dies, ReviewInv, RowsReviewable
<1>2. CASE Recovers
  <2>1. CopiesShow' /\ WorksAlone'
    BY <1>2 DEF Recovers, CopiesShow, WorksAlone, Shows, ReviewKinds
  <2>2. \A j \in Jobs : Unfinished(db[j]) => Reviewable(Recovered(db[j]))
    <3> SUFFICES ASSUME NEW j \in Jobs, Unfinished(db[j]) PROVE Reviewable(Recovered(db[j]))
      OBVIOUS
    <3>1. db[j] \in JobRecord /\ Reviewable(db[j])  BY DEF TypeOK, ReviewInv, RowsReviewable
    <3>2. CASE db[j].state \in CorrectionStates
      <4>1. HasImplementation(db[j])  BY <3>1, <3>2 DEF Reviewable, Review
      <4>2. Reviewable(RecordCorrectionFailure(db[j], db[j].fixStarted))
        BY <3>1, <4>1 DEF Reviewable, RecordCorrectionFailure, JobRecord, HasImplementation
      <4> QED BY <3>2, <4>2 DEF Recovered, CorrectionStates, ImplementationStates
    <3>3. CASE db[j].state \notin CorrectionStates
      BY <3>1, <3>3
      DEF Reviewable, Review, Recovered, Fail, JobRecord, HasImplementation, CorrectionStates
    <3> QED BY <3>2, <3>3
  <2>3. RowsReviewable'
    BY <1>2, <2>2 DEF Recovers, ReviewInv, RowsReviewable
  <2> QED BY <2>1, <2>3 DEF ReviewInv
<1>3. CASE Shutdown
  <2>1. Halts  BY <1>3, ShutdownMoves DEF ApprovalInv
  <2>2. \A j \in Jobs : /\ Reviewable(db'[j])
                        /\ HasImplementation(db[j]) => HasImplementation(db'[j])
                        /\ db'[j].branch = db[j].branch
    <3> SUFFICES ASSUME NEW j \in Jobs
                 PROVE  /\ Reviewable(db'[j])
                        /\ HasImplementation(db[j]) => HasImplementation(db'[j])
                        /\ db'[j].branch = db[j].branch
      OBVIOUS
    <3>1. db[j] \in JobRecord /\ Reviewable(db[j])  BY DEF TypeOK, ReviewInv, RowsReviewable
    <3>2. db'[j] = db[j] \/ \E s \in {"FAILED", "IMPLEMENTATION_FAILED"} : db'[j] = Settled(db[j], s)
      BY <2>1 DEF Halts
    <3> QED BY <3>1, <3>2, SettledRow
  <2>3. WorksAlone'  
    BY <2>1 DEF Halts, ReviewInv, WorksAlone, TypeOK
  <2>4. CopiesShow'
    <3> SUFFICES ASSUME NEW p \in threads, p \in Procs
                 PROVE  Shows(kind[p], "orphaned", db'[target[p]], mem[p])
      BY <2>1 DEF Halts, CopiesShow, Shows, ReviewKinds
    <3>1. /\ Shows(kind[p], pc[p], db[target[p]], mem[p]) /\ pc[p] # "created" /\ target[p] \in Jobs
          /\ kind'[p] = kind[p] /\ target'[p] = target[p] /\ pc'[p] = "orphaned"
      BY <2>1 DEF Halts, ReviewInv, CopiesShow
    <3>2. kind[p] = "implement" => NotYetReviewed(db'[target[p]])
      <4> SUFFICES ASSUME kind[p] = "implement" PROVE NotYetReviewed(db'[target[p]])
        OBVIOUS
      <4>1. NotYetReviewed(db[target[p]]) /\ db[target[p]] \in JobRecord
        BY <3>1 DEF Shows, TypeOK
      <4>2. Fits("implement", db'[target[p]])
        BY <3>1 DEF ApprovalInv, CopiesFit
      <4>3. db'[target[p]].state \in AfterApproval \cap
              ({db[target[p]].state} \cup {"FAILED", "IMPLEMENTATION_FAILED"})
        BY <2>1, <3>1, <4>1, <4>2 DEF Halts, Settled, Fail, JobRecord, Fits
      <4> QED BY <2>2, <3>1, <4>1, <4>3 DEF NotYetReviewed, AfterApproval, BeforeApproval
    <3> QED BY <2>2, <3>1, <3>2 DEF Shows, ReviewKinds
  <2> QED BY <2>2, <2>3, <2>4 DEF ReviewInv, RowsReviewable
<1> QED BY <1>1, <1>2, <1>3, ServerMoves DEF ApprovalInv

LEMMA ReviewInit == Init => ReviewInv
BY DEF Init, NoRow, ReviewInv, RowsReviewable, Reviewable, Review, CorrectionStates, CopiesShow,
       Shows, ReviewKinds, WorksAlone

LEMMA ReviewNext == IInv /\ ReviewInv /\ [Next]_vars => ReviewInv'
<1> SUFFICES ASSUME IInv, ReviewInv, [Next]_vars PROVE ReviewInv'
  OBVIOUS
<1>1. ApprovalInv'  BY InvNext DEF IInv
<1>2. CASE UNCHANGED vars
  BY <1>2 DEF vars, loopVars, ReviewInv, RowsReviewable, CopiesShow, WorksAlone
<1> QED BY <1>1, <1>2, ReviewStep, ReviewRequest, ReviewServer DEF Next

\* Whoever wrote the row last, stale copies included, a job offered for review or correction
\* has the result, the cost and the baseline commit of its implementation.
THEOREM ReviewHasImplementation == Spec => []ReviewableHasImplementation
<1>1. ReviewInv => ReviewableHasImplementation
  BY DEF ReviewInv, RowsReviewable, Reviewable, Review, HasImplementation, ReviewableHasImplementation
<1> QED BY <1>1, InvInit, InvNext, ReviewInit, ReviewNext, PTL DEF Spec

-----------------------------------------------------------------------------
(* What the record operations do to the fields the remaining invariants    *)
(* speak of.                                                               *)

LEMMA FixField ==
  ASSUME NEW rec \in JobRecord
  PROVE  /\ \A s : Advance(rec, s).fixStarted = rec.fixStarted
         /\ \A s : Fail(rec, s).fixStarted = rec.fixStarted
         /\ \A s : Settled(rec, s).fixStarted = rec.fixStarted
         /\ \A b : RecordCorrectionFailure(rec, b).fixStarted = rec.fixStarted
         /\ \A k, b : ValidatedAs(rec, k, b).fixStarted = rec.fixStarted
         /\ Approved(rec).fixStarted = rec.fixStarted
         /\ CorrectionRequested(rec).fixStarted = FALSE
         /\ Planned(rec).fixStarted = rec.fixStarted
         /\ WithPlanCost(rec).fixStarted = rec.fixStarted
         /\ WithBaseline(rec).fixStarted = rec.fixStarted
         /\ WithResult(rec).fixStarted = rec.fixStarted
BY DEF Advance, Fail, Settled, RecordCorrectionFailure, Approved, CorrectionRequested, ValidatedAs,
       Planned, WithPlanCost, WithBaseline, WithResult, JobRecord

LEMMA EditTypes ==
  ASSUME NEW rec \in JobRecord
  PROVE  /\ WithPlanCost(rec) \in JobRecord /\ WithBaseline(rec) \in JobRecord
         /\ WithResult(rec) \in JobRecord
         /\ \A p : mem[p] = rec => WithUsage(p) \in JobRecord
BY DEF WithPlanCost, WithBaseline, WithResult, WithUsage, JobRecord

-----------------------------------------------------------------------------
(* A correction that is marked as started has had its slot.                *)

StartedHasRun ==
  /\ \A j \in Jobs : db[j].fixStarted => fixRuns[j] > 0
  /\ \A p \in Procs : pc[p] # "idle" /\ mem[p].fixStarted => fixRuns[target[p]] > 0

\* A record p may write or keep: it was marked before, or is marked now.
Counted(p, rec) == rec.fixStarted => fixRuns'[target[p]] > 0

LEMMA FixMoves ==
  ASSUME TypeOK, StartedHasRun, NEW p \in Procs, pc[p] # "idle", NoFix(p) \/ Fix(p),
         NEW row, Counted(p, row),
         Leaves(p, row) \/ \E copy, at : Stays(p, row, copy, at) /\ Counted(p, copy)
  PROVE  StartedHasRun'
<1>1. target[p] \in Jobs /\ \A j \in Jobs : fixRuns[j] \in Nat  BY DEF TypeOK
<1>2. \A j \in Jobs : fixRuns[j] > 0 => fixRuns'[j] > 0
  BY <1>1 DEF NoFix, Fix, Leaves, Stays, Elsewhere
<1>3. \A j \in Jobs : db'[j].fixStarted => fixRuns'[j] > 0
  BY <1>1, <1>2 DEF Leaves, Stays, Elsewhere, StartedHasRun, Counted
<1>4. ASSUME NEW q \in Procs, pc'[q] # "idle", mem'[q].fixStarted
      PROVE  fixRuns'[target'[q]] > 0
  <2>1. CASE q # p
    <3>1. pc[q] # "idle" /\ mem[q].fixStarted /\ target'[q] = target[q]
      BY <1>4, <2>1 DEF Leaves, Stays, Elsewhere
    <3>2. target[q] \in Jobs  BY <3>1 DEF TypeOK
    <3> QED BY <1>2, <3>1, <3>2 DEF StartedHasRun
  <2>2. CASE q = p
    BY <1>4, <2>2 DEF Leaves, Stays, Counted
  <2> QED BY <2>1, <2>2
<1> QED BY <1>3, <1>4 DEF StartedHasRun

LEMMA FixStays ==
  ASSUME TypeOK, StartedHasRun, NEW p \in Procs, pc[p] # "idle", NoFix(p) \/ Fix(p),
         NEW row, NEW copy, NEW at, Stays(p, row, copy, at), Counted(p, row), Counted(p, copy)
  PROVE  StartedHasRun'
BY FixMoves

LEMMA FixEnds ==
  ASSUME TypeOK, StartedHasRun, NEW p \in Procs, pc[p] # "idle", NoFix(p),
         NEW rec, Ends(p, rec), Counted(p, rec)
  PROVE  StartedHasRun'
BY FixMoves DEF Ends

LEMMA FixStep ==
  ASSUME IInv, StartedHasRun, NEW p \in Procs, Step(p) \/ Thread(p)
  PROVE  StartedHasRun'
<1> USE DEF IInv
<1> DEFINE old == db[target[p]]
           m == mem[p]
<1>0. /\ pc[p] # "idle" /\ m \in JobRecord /\ old \in JobRecord /\ target[p] \in Jobs
      /\ old.fixStarted => fixRuns[target[p]] > 0
      /\ m.fixStarted => fixRuns[target[p]] > 0
      /\ fixRuns[target[p]] \in Nat
  BY Outcome DEF StartedHasRun, TypeOK
<1>1. NoFix(p) => Counted(p, old) /\ Counted(p, m)
  BY <1>0 DEF NoFix, Counted
<1>2. ASSUME NEW rec \in JobRecord, Counted(p, rec), NEW s, NEW b
      PROVE  /\ Counted(p, Advance(rec, s)) /\ Counted(p, Fail(rec, s))
             /\ Counted(p, Settled(rec, s)) /\ Counted(p, RecordCorrectionFailure(rec, b))
             /\ Counted(p, WithPlanCost(rec)) /\ Counted(p, WithBaseline(rec))
             /\ Counted(p, WithResult(rec)) /\ Counted(p, Planned(rec))
             /\ \A k : Counted(p, ValidatedAs(rec, k, b))
             /\ Counted(p, [rec EXCEPT !.branch = TRUE])
             /\ Counted(p, [rec EXCEPT !.pushed = TRUE])
  <2>1. \A r : r.fixStarted = rec.fixStarted => Counted(p, r)
    BY <1>2 DEF Counted
  <2>2. /\ Advance(rec, s).fixStarted = rec.fixStarted /\ Fail(rec, s).fixStarted = rec.fixStarted
        /\ Settled(rec, s).fixStarted = rec.fixStarted
    BY <1>2 DEF Advance, Fail, Settled, JobRecord
  <2>4. /\ RecordCorrectionFailure(rec, b).fixStarted = rec.fixStarted
        /\ \A k : ValidatedAs(rec, k, b).fixStarted = rec.fixStarted
    BY <1>2 DEF RecordCorrectionFailure, ValidatedAs, JobRecord
  <2>5. /\ WithPlanCost(rec).fixStarted = rec.fixStarted
        /\ WithBaseline(rec).fixStarted = rec.fixStarted
        /\ WithResult(rec).fixStarted = rec.fixStarted
        /\ Planned(rec).fixStarted = rec.fixStarted
    BY <1>2, FixField
  <2>3. /\ [rec EXCEPT !.branch = TRUE].fixStarted = rec.fixStarted
        /\ [rec EXCEPT !.pushed = TRUE].fixStarted = rec.fixStarted
    BY <1>2 DEF JobRecord
  <2> QED BY <2>1, <2>2, <2>3, <2>4, <2>5
<1>3. /\ WithPlanCost(m) \in JobRecord /\ WithBaseline(m) \in JobRecord
      /\ WithResult(m) \in JobRecord /\ WithUsage(p) \in JobRecord
  BY <1>0, EditTypes
<1>4. WithUsage(p).fixStarted = m.fixStarted  BY <1>0 DEF WithUsage, JobRecord
<1> HIDE DEF old, m
<1>5. CASE GitOutcome(p)
  BY <1>0, <1>1, <1>2, <1>5, FixMoves DEF GitOutcome, old, m
<1>6. CASE SlotOutcome(p)
  <2> DEFINE rec == CopyAtStart(p)
  <2>1. rec \in JobRecord /\ (NoFix(p) => Counted(p, rec))
    BY <1>0, <1>1 DEF CopyAtStart, old, m
  <2>2. Fix(p) => Counted(p, Started(rec))  BY <1>0 DEF Fix, Counted
  <2> HIDE DEF rec
  <2>3. CASE NoFix(p)
    <3>1. Counted(p, Advance(rec, "FETCHING_TICKET")) /\ Counted(p, Fail(rec, "FAILED"))
          /\ Counted(p, rec) /\ Counted(p, old)
      BY <1>1, <1>2, <2>1, <2>3
    <3>2. ASSUME NEW r, NEW c, NEW at, Stays(p, r, c, at), Counted(p, r), Counted(p, c)
          PROVE  StartedHasRun'
      BY <1>0, <2>3, <3>2, FixStays
    <3>3. CASE Ends(p, Fail(rec, "FAILED"))
      BY <1>0, <2>3, <3>1, <3>3, FixEnds
    <3>4. \/ Ends(p, Fail(rec, "FAILED"))
          \/ \E r \in {old, Advance(rec, "FETCHING_TICKET")},
                c \in {old, rec, Advance(rec, "FETCHING_TICKET")} : \E at : Stays(p, r, c, at)
          \/ Fix(p)
      BY <1>6 DEF SlotOutcome, rec, old
    <3>5. ~Fix(p)  BY <1>0, <2>3 DEF Fix, NoFix
    <3> QED BY <3>1, <3>2, <3>3, <3>4, <3>5
  <2>4. CASE Fix(p) /\ (\/ Stays(p, Started(rec), Started(rec), "failing")
                        \/ Stays(p, Started(rec), Started(rec), "agent"))
    BY <1>0, <2>2, <2>4, FixStays
  <2> QED BY <1>6, <2>3, <2>4 DEF SlotOutcome, rec
<1>7. CASE PlanOutcome(p)
  <2>1. /\ \A s : Counted(p, Advance(m, s))
        /\ Counted(p, Fail(m, "FAILED")) /\ Counted(p, Planned(m)) /\ NoFix(p)
        /\ Counted(p, Fail(WithPlanCost(m), "FAILED"))
    BY <1>0, <1>1, <1>2, <1>3, <1>7 DEF PlanOutcome
  <2>2. ASSUME NEW s, NEW at, Stays(p, Advance(m, s), Advance(m, s), at) PROVE StartedHasRun'
    BY <1>0, <2>1, <2>2, FixStays
  <2>3. CASE \E s \in PlanStates, at \in {"clone", "map", "agent"} :
               Stays(p, Advance(m, s), Advance(m, s), at)
    BY <2>2, <2>3
  <2>4. CASE \/ Ends(p, Fail(m, "FAILED")) \/ Leaves(p, Planned(m))
             \/ Leaves(p, Fail(WithPlanCost(m), "FAILED"))
    BY <1>0, <2>1, <2>4, FixEnds, FixMoves
  <2> QED BY <1>7, <2>3, <2>4 DEF PlanOutcome, m
<1>8. CASE EditsOutcome(p)
  <2>1. /\ NoFix(p) /\ Counted(p, WithUsage(p)) /\ Counted(p, m) /\ Counted(p, old)
        /\ Counted(p, WithBaseline(m)) /\ Counted(p, WithResult(m))
    BY <1>0, <1>1, <1>2, <1>4, <1>8 DEF EditsOutcome, Counted
  <2>2. /\ Counted(p, Advance(WithBaseline(m), "IMPLEMENTING"))
        /\ Counted(p, Advance(WithUsage(p), "REVALIDATING"))
        /\ Counted(p, Advance(WithResult(m), "VALIDATING"))
    BY <1>2, <1>3, <2>1
  <2> QED BY <1>0, <1>8, <2>1, <2>2, FixStays DEF EditsOutcome, m, old
<1>9. CASE EndOutcome(p)
  <2>1. /\ NoFix(p) /\ Counted(p, m) /\ Counted(p, Fail(m, "IMPLEMENTATION_FAILED"))
        /\ \A b : Counted(p, RecordCorrectionFailure(m, b))
        /\ \A k, b : Counted(p, ValidatedAs(m, k, b))
        /\ Counted(p, Settled(old, "IMPLEMENTATION_FAILED"))
    BY <1>0, <1>1, <1>2, <1>9 DEF EndOutcome
  <2>2. ASSUME NEW rec, Counted(p, rec), Ends(p, rec) \/ Leaves(p, rec) \/ Stays(p, rec, m, "orphaned")
        PROVE  StartedHasRun'
    BY <1>0, <2>1, <2>2, FixEnds, FixMoves, FixStays
  <2> QED BY <1>9, <2>1, <2>2 DEF EndOutcome, m, old
<1>10. CASE ThreadOutcome(p)
  BY <1>0, <1>1, <1>10, FixStays, FixMoves DEF ThreadOutcome, m, old
<1> QED BY <1>5, <1>6, <1>7, <1>8, <1>9, <1>10, Outcome

LEMMA FixNext == IInv /\ StartedHasRun /\ [Next]_vars => StartedHasRun'
<1> SUFFICES ASSUME IInv, StartedHasRun, [Next]_vars PROVE StartedHasRun'
  OBVIOUS
<1> USE DEF IInv
<1>0. \A j \in Jobs : db[j] \in JobRecord  BY DEF TypeOK
<1>1. ASSUME NEW p \in Procs, NEW j \in Jobs, Request(p, j) PROVE StartedHasRun'
  <2>1. RequestOutcome(p, j)  BY <1>1, RequestMoves
  <2>2. ~NewJob.fixStarted /\ ~NoRow.fixStarted  BY DEF NewJob, NoRow
  <2>3. /\ Approved(db[j]).fixStarted = db[j].fixStarted
        /\ ~CorrectionRequested(db[j]).fixStarted
    BY <1>0, FixField
  <2>4. \A q \in Procs : pc[q] # "idle" => target[q] \in Jobs  BY DEF TypeOK
  <2>5. ASSUME NEW k, NEW row, NEW copy, NEW at, Arrives(p, k, j, row, copy, at),
               row.fixStarted \/ copy.fixStarted => db[j].fixStarted
        PROVE  StartedHasRun'
    BY <2>4, <2>5 DEF Arrives, StartedHasRun
  <2> QED BY <2>1, <2>2, <2>3, <2>5 DEF RequestOutcome
<1>2. CASE Dies
  BY <1>2 DEF Dies, StartedHasRun
<1>3. CASE Recovers
  <2>1. \A j \in Jobs : Recovered(db[j]).fixStarted = db[j].fixStarted
    <3> SUFFICES ASSUME NEW j \in Jobs PROVE Recovered(db[j]).fixStarted = db[j].fixStarted
      OBVIOUS
    <3>1. /\ \A s : Fail(db[j], s).fixStarted = db[j].fixStarted
          /\ \A b : RecordCorrectionFailure(db[j], b).fixStarted = db[j].fixStarted
      BY <1>0, FixField
    <3> QED BY <3>1 DEF Recovered
  <2> HIDE DEF IInv
  <2> QED BY <1>3, <2>1 DEF Recovers, StartedHasRun
<1>4. CASE Halts
  <2>1. \A j \in Jobs : db'[j].fixStarted = db[j].fixStarted
    <3> SUFFICES ASSUME NEW j \in Jobs PROVE db'[j].fixStarted = db[j].fixStarted
      OBVIOUS
    <3>1. db'[j] \in {db[j], Settled(db[j], "FAILED"), Settled(db[j], "IMPLEMENTATION_FAILED")}
      BY <1>4 DEF Halts
    <3> QED BY <1>0, <3>1, SettledRow
  <2> QED BY <1>4, <2>1 DEF Halts, StartedHasRun
<1>5. CASE UNCHANGED vars
  BY <1>5 DEF vars, loopVars, historyVars, StartedHasRun
<1> QED BY <1>1, <1>2, <1>3, <1>4, <1>5, FixStep, ServerMoves, ShutdownMoves DEF Next, ApprovalInv

\* Recovery spends a job's correction attempt only if a correction got its slot, however often
\* the process died in between.
THEOREM RecoveryKeepsAttempt == Spec => RecoveryKeepsUnusedAttempt
<1>1. Init => StartedHasRun
  BY DEF Init, NoRow, StartedHasRun
<1>2. ASSUME IInv, StartedHasRun, [Next]_vars, server = "recovering", NEW j \in Jobs,
             ~db[j].attempted, db'[j].attempted
      PROVE  fixRuns[j] > 0
  <2> USE <1>2 DEF IInv
  <2>1. \A p \in Procs : pc[p] = "idle"  BY DEF ApprovalInv, RestartIsClean
  <2>2. \A p \in Procs : ~(Step(p) \/ Thread(p))
    BY <2>1, Outcome
  <2>3. \A p \in Procs, i \in Jobs : ~Request(p, i)
    BY RequestMoves DEF RequestOutcome, Arrives
  <2>4. Dies \/ Recovers \/ UNCHANGED vars
    <3>1. ~Shutdown  BY DEF Shutdown
    <3> QED BY <2>2, <2>3, <3>1, ServerMoves DEF Next, ApprovalInv
  <2>5. db'[j] = Recovered(db[j])
    BY <2>4 DEF Dies, Recovers, vars
  <2>6. db[j] \in JobRecord  BY DEF TypeOK
  <2>7. \A s : Fail(db[j], s).attempted = db[j].attempted
    BY <2>6 DEF Fail, JobRecord
  <2>8. RecordCorrectionFailure(db[j], db[j].fixStarted).attempted
          = (db[j].attempted \/ db[j].fixStarted)
    BY <2>6 DEF RecordCorrectionFailure, JobRecord
  <2>9. db[j].fixStarted
    BY <2>5, <2>7, <2>8 DEF Recovered, CorrectionStates, ImplementationStates
  <2> QED BY <2>9 DEF StartedHasRun
<1>3. IInv /\ StartedHasRun /\ [Next]_vars =>
        [server = "recovering" =>
           \A j \in Jobs : ~db[j].attempted /\ db'[j].attempted => fixRuns[j] > 0]_vars
  BY <1>2
<1> QED BY <1>1, <1>3, InvInit, InvNext, FixNext, PTL DEF Spec, RecoveryKeepsUnusedAttempt

-----------------------------------------------------------------------------
(* The cost of a planning or implementing run stays on the row.  It rests  *)
(* on git never failing outside the diff helpers: a refresh that raises    *)
(* leaves the except clause before the save that holds the usage.          *)

\* What a row has to show once these runs are billed.
RowPriced(row, bills) ==
  /\ "plan" \in bills => row.planCost /\ row.state # "ABSENT"
  /\ "implement" \in bills => row.state \in AfterApproval

\* Planning ends when it is billed; whoever comes later read the cost with the row.  An
\* implementing runner carries its own usage in its copy, and no thread of it is left.
CopyPriced(p, bills) ==
  /\ "plan" \in bills => kind[p] # "plan" /\ (pc[p] # "created" => mem[p].planCost)
  /\ kind[p] = "implement" /\ "implement" \in bills =>
       mem[p].implCost /\ pc[p] \in {"diff", "validate", "failing"} /\ p \notin threads

RowsPriced == \A j \in Jobs : RowPriced(db[j], billed[j])

CopiesPriced == \A p \in Procs : pc[p] # "idle" => CopyPriced(p, billed[target[p]])

\* Only an implementing runner may know of a cost that is not on the row yet.
ImplementationPriced ==
  \A j \in Jobs : "implement" \in billed[j] =>
    db[j].implCost \/ \E p \in Procs : kind[p] = "implement" /\ target[p] = j

CostInv == RowsPriced /\ CopiesPriced /\ ImplementationPriced

LEMMA CostMoves ==
  ASSUME TypeOK, ReviewInv, CostInv, NEW p \in Procs, pc[p] # "idle",
         NoUsage(p) \/ Usage(p), NEW row, RowPriced(row, billed'[target[p]]),
         "implement" \in billed'[target[p]] => row.implCost \/ kind'[p] = "implement",
         Leaves(p, row) \/ ((\E copy, at : Stays(p, row, copy, at))
                              /\ CopyPriced(p, billed[target[p]])')
  PROVE  CostInv'
<1>0. target[p] \in Jobs /\ Elsewhere(p) /\ db'[target[p]] = row
      /\ (\/ pc'[p] = "idle" /\ kind'[p] = "none" /\ target'[p] = NoJob
          \/ kind'[p] = kind[p] /\ target'[p] = target[p] /\ CopyPriced(p, billed[target[p]])')
  BY ActiveTarget DEF Leaves, Stays
<1> DEFINE bills == billed'[target[p]]
           known == billed[target[p]]
<1>1. bills = known \/ bills = known \cup {kind[p]}  BY DEF NoUsage, Usage
<1>2. \A q \in Procs : q # p /\ pc[q] # "idle" /\ target[q] = target[p] =>
        /\ kind[q] \notin {"plan", "implement"}
        /\ "plan" \in bills => "plan" \in known
  <2> SUFFICES ASSUME NEW q \in Procs, q # p, pc[q] # "idle", target[q] = target[p]
               PROVE  kind[q] \notin {"plan", "implement"} /\ kind[p] \notin {"plan", "implement"}
    BY <1>1
  <2> QED BY DEF ReviewInv, WorksAlone
<1>3. RowsPriced'
  BY <1>0 DEF Elsewhere, CostInv, RowsPriced
<1>4. CopiesPriced'
  <2> SUFFICES ASSUME NEW q \in Procs, pc'[q] # "idle" PROVE CopyPriced(q, billed[target[q]])'
    BY DEF CopiesPriced
  <2>1. CASE q = p
    BY <1>0, <2>1 DEF CopyPriced
  <2>2. CASE q # p
    <3>1. /\ kind'[q] = kind[q] /\ target'[q] = target[q] /\ pc'[q] = pc[q] /\ mem'[q] = mem[q]
          /\ (q \in threads') = (q \in threads)
          /\ pc[q] # "idle"
      BY <1>0, <2>2 DEF Elsewhere
    <3>2. CopyPriced(q, billed[target[q]]) /\ target[q] \in Jobs
      BY <3>1, ActiveTarget DEF CostInv, CopiesPriced
    <3>3. CASE target[q] = target[p]
      <4>1. /\ kind[q] \notin {"plan", "implement"}
            /\ "plan" \in billed'[target[q]] => "plan" \in billed[target[q]]
        BY <1>2, <2>2, <3>1, <3>3
      <4> QED BY <3>1, <3>2, <4>1 DEF CopyPriced
    <3>4. CASE target[q] # target[p]
      <4>1. billed'[target[q]] = billed[target[q]]  BY <1>0, <3>2, <3>4 DEF Elsewhere
      <4> QED BY <3>1, <3>2, <4>1 DEF CopyPriced
    <3> QED BY <3>3, <3>4
  <2> QED BY <2>1, <2>2
<1>5. ImplementationPriced'
  <2> SUFFICES ASSUME NEW j \in Jobs, "implement" \in billed'[j]
               PROVE  db'[j].implCost \/ \E q \in Procs : kind'[q] = "implement" /\ target'[q] = j
    BY DEF ImplementationPriced
  <2>1. CASE j = target[p]
    BY <1>0, <2>1, NoJobAssumption
  <2>2. CASE j # target[p]
    <3>1. billed'[j] = billed[j] /\ db'[j] = db[j]  BY <1>0, <2>2 DEF Elsewhere
    <3>2. \A q \in Procs : target[q] = j => kind'[q] = kind[q] /\ target'[q] = target[q]
      BY <1>0, <2>2 DEF Elsewhere
    <3> QED BY <3>1, <3>2 DEF CostInv, ImplementationPriced
  <2> QED BY <2>1, <2>2
<1> QED BY <1>3, <1>4, <1>5 DEF CostInv

\* The record keeps what has been paid, and stays beyond the approval.
Carries(rec, r) ==
  /\ rec.planCost => r.planCost
  /\ rec.implCost => r.implCost
  /\ rec.state \in AfterApproval => r.state \in AfterApproval

LEMMA Carried ==
  ASSUME NEW rec \in JobRecord
  PROVE  /\ Carries(rec, rec)
         /\ \A s \in AfterApproval : Carries(rec, Advance(rec, s))
         /\ \A s \in AfterApproval : Carries(rec, Advance(WithBaseline(rec), s))
         /\ \A s \in AfterApproval : Carries(rec, Advance(WithResult(rec), s))
         /\ Carries(rec, Fail(rec, "IMPLEMENTATION_FAILED"))
         /\ \A b : Carries(rec, RecordCorrectionFailure(rec, b))
         /\ \A k, b : Carries(rec, ValidatedAs(rec, k, b))
         /\ Carries(rec, CorrectionRequested(rec)) /\ Carries(rec, Started(rec))
         /\ Carries(rec, [rec EXCEPT !.branch = TRUE])
         /\ Carries(rec, [rec EXCEPT !.pushed = TRUE])
         /\ Carries(rec, Settled(rec, "IMPLEMENTATION_FAILED"))
<1> USE DEF Carries, JobRecord
<1>0. /\ "IMPLEMENTATION_FAILED" \in AfterApproval /\ "IMPLEMENTATION_READY" \in AfterApproval
      /\ "CORRECTING" \in AfterApproval
  BY DEF AfterApproval, BeforeApproval, JobStates, TerminalStates, CorrectionStates, PlanStates
<1>1. /\ Carries(rec, rec)
      /\ \A s \in AfterApproval : Carries(rec, Advance(rec, s))
      /\ \A s \in AfterApproval : Carries(rec, Advance(WithBaseline(rec), s))
      /\ \A s \in AfterApproval : Carries(rec, Advance(WithResult(rec), s))
      /\ Carries(rec, Fail(rec, "IMPLEMENTATION_FAILED"))
  BY <1>0 DEF Advance, WithBaseline, WithResult, Fail
<1>2. \A b : Carries(rec, RecordCorrectionFailure(rec, b))
  BY <1>0 DEF RecordCorrectionFailure
<1>3. \A k, b : Carries(rec, ValidatedAs(rec, k, b))
  BY <1>0 DEF ValidatedAs
<1>4. /\ Carries(rec, CorrectionRequested(rec)) /\ Carries(rec, Started(rec))
      /\ Carries(rec, [rec EXCEPT !.branch = TRUE])
      /\ Carries(rec, [rec EXCEPT !.pushed = TRUE])
  BY <1>0 DEF CorrectionRequested, Started
<1>5. Carries(rec, Settled(rec, "IMPLEMENTATION_FAILED"))
  BY <1>0 DEF Settled, Fail
<1> QED BY <1>1, <1>2, <1>3, <1>4, <1>5

\* What p may write back: its copy, once it has one, or the row as it finds it.
Sources(p) == {db[target[p]]} \cup (IF pc[p] = "created" THEN {} ELSE {mem[p]})

LEMMA SourceFacts ==
  ASSUME IInv, ReviewInv, CostInv, NEW p \in Procs, pc[p] # "idle", kind[p] # "plan",
         NEW x \in Sources(p)
  PROVE  /\ x.state \in AfterApproval
         /\ "plan" \in billed[target[p]] => x.planCost
         /\ kind[p] # "implement" => x.implCost
<1>1. target[p] \in Jobs  BY ActiveTarget DEF IInv
<1>2. Fits(kind[p], x)
  BY <1>1 DEF IInv, ApprovalInv, CopiesFit, Sources
<1>3. RowPriced(db[target[p]], billed[target[p]]) /\ CopyPriced(p, billed[target[p]])
  BY <1>1 DEF CostInv, RowsPriced, CopiesPriced
<1>4. "plan" \in billed[target[p]] => x.planCost
  BY <1>3 DEF RowPriced, CopyPriced, Sources
<1>5. kind[p] # "implement" => x.implCost
  <2>1. kind[p] # "implement" => kind[p] \in ReviewKinds
    BY DEF IInv, TypeOK, Runners, Requests, ReviewKinds
  <2> QED BY <2>1 DEF ReviewInv, CopiesShow, Shows, HasImplementation, Sources
<1> QED BY <1>2, <1>4, <1>5 DEF Fits

LEMMA CostStays ==
  ASSUME IInv, ReviewInv, CostInv, NEW p \in Procs, pc[p] # "idle", kind[p] # "plan",
         NEW x \in Sources(p), NEW y \in Sources(p), NEW row, NEW copy, NEW at,
         Stays(p, row, copy, at), Carries(x, row), Carries(y, copy),
         NoUsage(p) \/ (Usage(p) /\ kind[p] = "correct"),
         kind[p] = "implement" /\ "implement" \in billed[target[p]] =>
           y = mem[p] /\ at \in {"diff", "validate", "failing"} /\ p \notin threads'
  PROVE  CostInv'
<1> DEFINE bills == billed[target[p]]
<1>1. /\ "plan" \in billed'[target[p]] <=> "plan" \in bills
      /\ "implement" \in billed'[target[p]] <=> "implement" \in bills
  BY DEF NoUsage, Usage
<1>2. CopyPriced(p, bills)  BY DEF CostInv, CopiesPriced
<1> QED
  <2>1. RowPriced(row, billed'[target[p]])
    <3>1. row.state \in AfterApproval /\ ("plan" \in bills => row.planCost)
      BY SourceFacts DEF Carries
    <3> QED BY <1>1, <3>1 DEF RowPriced, AfterApproval, BeforeApproval
  <2>2. CopyPriced(p, billed[target[p]])'
    <3>1. "plan" \in bills => copy.planCost  BY SourceFacts DEF Carries
    <3>2. kind[p] = "implement" /\ "implement" \in bills => copy.implCost
      BY <1>2 DEF Carries, CopyPriced
    <3>3. /\ kind'[p] = kind[p] /\ target'[p] = target[p] /\ pc'[p] = at /\ mem'[p] = copy
      BY DEF Stays
    <3> QED BY <1>1, <3>1, <3>2, <3>3 DEF CopyPriced
  <2>3. row.implCost \/ kind'[p] = "implement"
    <3>1. kind[p] # "implement" => row.implCost  BY SourceFacts DEF Carries
    <3> QED BY <3>1 DEF Stays
  <2> QED BY <2>1, <2>2, <2>3, CostMoves DEF IInv

LEMMA CostLeaves ==
  ASSUME IInv, ReviewInv, CostInv, NEW p \in Procs, pc[p] # "idle", kind[p] # "plan",
         NEW x \in Sources(p), NEW row, Leaves(p, row), Carries(x, row), NoUsage(p),
         kind[p] = "implement" /\ "implement" \in billed[target[p]] => x = mem[p]
  PROVE  CostInv'
<1> DEFINE bills == billed[target[p]]
<1>1. billed'[target[p]] = bills  BY DEF NoUsage
<1>2. CopyPriced(p, bills)  BY DEF CostInv, CopiesPriced
<1>3. row.state \in AfterApproval /\ ("plan" \in bills => row.planCost)
  BY SourceFacts DEF Carries
<1>4. RowPriced(row, bills)
  BY <1>3 DEF RowPriced, AfterApproval, BeforeApproval
<1>5. "implement" \in bills => row.implCost
  <2>1. kind[p] # "implement" => row.implCost  BY SourceFacts DEF Carries
  <2> QED BY <1>2, <2>1 DEF CopyPriced, Carries
<1> QED BY <1>1, <1>4, <1>5, CostMoves DEF IInv

LEMMA CostEnds ==
  ASSUME IInv, ReviewInv, CostInv, NEW p \in Procs, pc[p] # "idle", kind[p] # "plan",
         NEW x \in Sources(p), NEW rec, Ends(p, rec), Carries(x, rec), NoUsage(p),
         kind[p] = "implement" /\ "implement" \in billed[target[p]] =>
           x = mem[p] /\ p \notin threads'
  PROVE  CostInv'
<1>1. CASE Leaves(p, rec)  BY <1>1, CostLeaves
<1>2. CASE p \in threads' /\ Stays(p, rec, rec, "orphaned")  BY <1>2, CostStays
<1> QED BY <1>1, <1>2 DEF Ends

\* Nothing is billed on a job that is still being planned.
LEMMA Unbilled ==
  ASSUME IInv, CostInv, NEW p \in Procs, kind[p] = "plan"
  PROVE  "plan" \notin billed[target[p]] /\ "implement" \notin billed[target[p]]
<1>1. target[p] \in Jobs /\ pc[p] # "idle"  BY DEF IInv, TypeOK
<1>2. Fits("plan", db[target[p]])  BY <1>1 DEF IInv, ApprovalInv, CopiesFit
<1>3. db[target[p]].state \notin AfterApproval
  BY <1>2 DEF Fits, AfterApproval, BeforeApproval
<1> QED BY <1>1, <1>3 DEF CostInv, RowsPriced, RowPriced, CopiesPriced, CopyPriced

LEMMA CostPlan ==
  ASSUME IInv, ReviewInv, CostInv, NEW p \in Procs, PlanOutcome(p) \/ (SlotOutcome(p) /\ kind[p] = "plan")
  PROVE  CostInv'
<1>0. kind[p] = "plan" /\ pc[p] # "idle" /\ target[p] \in Jobs /\ mem[p] \in JobRecord
  BY DEF PlanOutcome, SlotOutcome, IInv, TypeOK
<1>1. "plan" \notin billed[target[p]] /\ "implement" \notin billed[target[p]]
  BY <1>0, Unbilled
<1>2. ASSUME NEW row, NEW copy, NEW at, Stays(p, row, copy, at), NoUsage(p) PROVE CostInv'
  <2>1. RowPriced(row, billed'[target[p]])  BY <1>1, <1>2 DEF RowPriced, NoUsage
  <2>2. CopyPriced(p, billed[target[p]])'  BY <1>0, <1>1, <1>2 DEF CopyPriced, NoUsage, Stays
  <2>3. "implement" \notin billed'[target[p]]  BY <1>1, <1>2 DEF NoUsage
  <2> QED BY <1>0, <1>2, <2>1, <2>2, <2>3, CostMoves DEF IInv
<1>3. ASSUME NEW row, Leaves(p, row), RowPriced(row, billed'[target[p]]), NoUsage(p) \/ Usage(p)
      PROVE  CostInv'
  <2>1. "implement" \notin billed'[target[p]]  BY <1>0, <1>1, <1>3 DEF NoUsage, Usage
  <2> QED BY <1>0, <1>3, <2>1, CostMoves DEF IInv
<1>4. ASSUME NEW rec, Ends(p, rec), NoUsage(p) PROVE CostInv'
  <2>1. RowPriced(rec, billed'[target[p]])  BY <1>1, <1>4 DEF RowPriced, NoUsage
  <2> QED BY <1>2, <1>3, <1>4, <2>1 DEF Ends
<1>5. CASE PlanOutcome(p)
  <2>1. ASSUME NEW row, Leaves(p, row), Usage(p), row.planCost, row.state # "ABSENT"
        PROVE  CostInv'
    <3>1. RowPriced(row, billed'[target[p]])  BY <1>0, <1>1, <2>1 DEF RowPriced, Usage
    <3> QED BY <1>3, <2>1, <3>1
  <2>2. CASE Usage(p) /\ (Leaves(p, Planned(mem[p])) \/ Leaves(p, Fail(WithPlanCost(mem[p]), "FAILED")))
    <3>1. /\ Planned(mem[p]).planCost /\ Planned(mem[p]).state # "ABSENT"
          /\ Fail(WithPlanCost(mem[p]), "FAILED").planCost
          /\ Fail(WithPlanCost(mem[p]), "FAILED").state # "ABSENT"
      BY <1>0 DEF Planned, Fail, WithPlanCost, JobRecord
    <3> QED BY <2>1, <2>2, <3>1
  <2>3. CASE /\ NoUsage(p)
             /\ \/ \E s \in PlanStates, at \in {"clone", "map", "agent"} :
                     Stays(p, Advance(mem[p], s), Advance(mem[p], s), at)
                \/ Ends(p, Fail(mem[p], "FAILED"))
    BY <1>2, <1>4, <2>3
  <2> QED BY <1>5, <2>2, <2>3 DEF PlanOutcome
<1>6. CASE SlotOutcome(p) /\ kind[p] = "plan"
  <2>1. \/ \E row, copy, at : Stays(p, row, copy, at)
        \/ \E rec : Ends(p, rec)
    BY <1>6 DEF SlotOutcome
  <2>2. NoUsage(p)  BY <1>6 DEF SlotOutcome
  <2> QED BY <1>2, <1>4, <2>1, <2>2
<1> QED BY <1>5, <1>6

LEMMA CostSlot ==
  ASSUME IInv, ReviewInv, CostInv, NEW p \in Procs, SlotOutcome(p), kind[p] # "plan"
  PROVE  CostInv'
<1> DEFINE rec == CopyAtStart(p)
           row == db[target[p]]
<1>0. /\ pc[p] \in {"created", "waiting"} /\ pc[p] # "idle" /\ NoUsage(p)
      /\ row \in Sources(p) /\ rec \in Sources(p)
  BY DEF SlotOutcome, CopyAtStart, Sources
<1>1. row \in JobRecord /\ rec \in JobRecord
  BY <1>0, ActiveTarget DEF IInv, CopyAtStart
<1>2. Carries(row, row) /\ Carries(rec, rec) /\ Carries(rec, Started(rec))
  BY <1>1, Carried
<1>3. ~(kind[p] = "implement" /\ "implement" \in billed[target[p]])
  BY <1>0 DEF CostInv, CopiesPriced, CopyPriced
<1> HIDE DEF rec, row
<1>4. ASSUME NEW at, Stays(p, row, rec, at) \/ Stays(p, row, row, at) \/ Stays(p, Started(rec), Started(rec), at)
      PROVE  CostInv'
  BY <1>0, <1>2, <1>3, <1>4, CostStays
<1> QED BY <1>4 DEF SlotOutcome, rec, row

LEMMA CostEdits ==
  ASSUME IInv, ReviewInv, CostInv, NEW p \in Procs, EditsOutcome(p)
  PROVE  CostInv'
<1> DEFINE m == mem[p]
           row == db[target[p]]
<1>0. /\ kind[p] \in {"implement", "correct"} /\ kind[p] # "plan"
      /\ pc[p] \in {"baseline", "agent", "diff", "validate"} /\ pc[p] # "idle"
      /\ row \in Sources(p) /\ m \in Sources(p) /\ CopyPriced(p, billed[target[p]])
  BY DEF EditsOutcome, Sources, CostInv, CopiesPriced
<1>1. row \in JobRecord /\ m \in JobRecord /\ target[p] \in Jobs
  BY <1>0, ActiveTarget DEF IInv
<1>2. {"IMPLEMENTING", "VALIDATING", "REVALIDATING"} \subseteq AfterApproval
  BY DEF AfterApproval, BeforeApproval, JobStates, PlanStates, ImplementationStates, CorrectionStates
<1>3. /\ Carries(row, row) /\ Carries(m, m)
      /\ Carries(m, Advance(WithBaseline(m), "IMPLEMENTING"))
      /\ Carries(m, Advance(WithResult(m), "VALIDATING"))
  BY <1>1, <1>2, Carried
<1>4. /\ Carries(m, WithUsage(p)) /\ Carries(m, Advance(WithUsage(p), "REVALIDATING"))
      /\ kind[p] = "implement" => WithUsage(p).implCost
  BY <1>1, <1>2 DEF Carries, WithUsage, Advance, JobRecord
<1>5. kind[p] = "implement" /\ "implement" \in billed[target[p]] =>
        pc[p] \in {"diff", "validate"} /\ p \notin threads
  BY <1>0 DEF CopyPriced
<1> HIDE DEF m, row
<1>6. CASE /\ kind[p] = "implement" /\ pc[p] = "baseline" /\ NoUsage(p)
           /\ Stays(p, Advance(WithBaseline(m), "IMPLEMENTING"),
                    Advance(WithBaseline(m), "IMPLEMENTING"), "agent")
  BY <1>0, <1>3, <1>5, <1>6, CostStays
<1>7. CASE /\ kind[p] = "implement" /\ pc[p] = "agent" /\ Usage(p) /\ p \notin threads'
           /\ \/ Stays(p, WithUsage(p), WithUsage(p), "diff")
              \/ Stays(p, row, WithUsage(p), "failing")
  <2>1. ASSUME NEW r, NEW x \in Sources(p), Carries(x, r), NEW at \in {"diff", "failing"},
               Stays(p, r, WithUsage(p), at)
        PROVE  CostInv'
    <3>1. "plan" \in billed'[target[p]] <=> "plan" \in billed[target[p]]
      BY <1>7 DEF Usage
    <3>2. RowPriced(r, billed'[target[p]])
      <4>1. r.state \in AfterApproval /\ ("plan" \in billed[target[p]] => r.planCost)
        BY <1>0, <2>1, SourceFacts DEF Carries
      <4> QED BY <3>1, <4>1 DEF RowPriced, AfterApproval, BeforeApproval
    <3>3. CopyPriced(p, billed[target[p]])'
      <4>1. "plan" \in billed[target[p]] => WithUsage(p).planCost
        BY <1>0, <1>4, SourceFacts DEF Carries
      <4> QED BY <1>4, <1>7, <2>1, <3>1, <4>1 DEF CopyPriced, Stays
    <3>4. kind'[p] = "implement"  BY <1>7, <2>1 DEF Stays
    <3> QED BY <1>0, <1>7, <2>1, <3>2, <3>3, <3>4, CostMoves DEF IInv
  <2> QED BY <1>0, <1>3, <1>4, <1>7, <2>1
<1>8. CASE /\ kind[p] = "correct" /\ Usage(p)
           /\ \/ Stays(p, Advance(WithUsage(p), "REVALIDATING"),
                       Advance(WithUsage(p), "REVALIDATING"), "validate")
              \/ Stays(p, row, WithUsage(p), "failing")
  BY <1>0, <1>3, <1>4, <1>8, CostStays
<1>9. CASE /\ NoUsage(p) /\ (p \notin threads => p \notin threads') /\ Stays(p, row, m, "failing")
  <2>1. kind[p] = "implement" /\ "implement" \in billed[target[p]] => p \notin threads'
    BY <1>5, <1>9
  <2> QED BY <1>0, <1>3, <1>9, <2>1, CostStays DEF m
<1>10. CASE /\ kind[p] = "implement" /\ pc[p] = "diff" /\ NoUsage(p) /\ p \notin threads'
            /\ Stays(p, Advance(WithResult(m), "VALIDATING"),
                     Advance(WithResult(m), "VALIDATING"), "validate")
  BY <1>0, <1>3, <1>5, <1>10, CostStays DEF m
<1> QED BY <1>6, <1>7, <1>8, <1>9, <1>10 DEF EditsOutcome, m, row

LEMMA CostStep ==
  ASSUME ~GitRaises, IInv, ReviewInv, CostInv, NEW p \in Procs, Step(p) \/ Thread(p)
  PROVE  CostInv'
<1> DEFINE m == mem[p]
           row == db[target[p]]
<1>0. /\ pc[p] # "idle" /\ row \in JobRecord /\ m \in JobRecord /\ target[p] \in Jobs
      /\ row \in Sources(p) /\ (pc[p] # "created" => m \in Sources(p))
      /\ CopyPriced(p, billed[target[p]])
  BY Outcome DEF IInv, Sources, CostInv, CopiesPriced
<1> HIDE DEF m, row
<1>1. CASE GitOutcome(p)
  <2>1. kind[p] \in Requests
    BY <1>1, AwaitFacts DEF IInv, GitOutcome, AtItsAwait, TypeOK, Runners, Requests
  <2>2. /\ m \in Sources(p) /\ kind[p] \notin {"plan", "implement"}
        /\ Carries(row, row) /\ Carries(m, [m EXCEPT !.branch = TRUE])
        /\ Carries(m, [m EXCEPT !.pushed = TRUE])
    BY <1>0, <1>1, <2>1, Carried DEF GitOutcome, Requests
  <2> QED BY <1>0, <1>1, <2>2, CostLeaves DEF GitOutcome, m, row
<1>2. CASE SlotOutcome(p) \/ PlanOutcome(p)
  BY <1>2, CostSlot, CostPlan
<1>3. CASE EditsOutcome(p)
  BY <1>3, CostEdits
<1>4. CASE EndOutcome(p)
  <2>1. /\ m \in Sources(p) /\ kind[p] # "plan" /\ NoUsage(p)
        /\ Carries(m, Fail(m, "IMPLEMENTATION_FAILED"))
        /\ \A b : Carries(m, RecordCorrectionFailure(m, b))
        /\ \A k, b : Carries(m, ValidatedAs(m, k, b))
    BY <1>0, <1>4, Carried DEF EndOutcome
  <2>2. kind[p] = "implement" /\ "implement" \in billed[target[p]] => p \notin threads
    BY <1>0 DEF CopyPriced
  <2>3. CASE \E failures \in BOOLEAN : Leaves(p, ValidatedAs(m, kind[p], failures))
    <3> PICK failures \in BOOLEAN : Leaves(p, ValidatedAs(m, kind[p], failures))
      BY <2>3
    <3> QED BY <1>0, <2>1, CostLeaves DEF m
  <2>4. CASE /\ p \notin threads => p \notin threads'
             /\ Ends(p, Fail(m, "IMPLEMENTATION_FAILED"))
    BY <1>0, <2>1, <2>2, <2>4, CostEnds DEF m
  <2>5. CASE kind[p] = "correct" /\ Ends(p, RecordCorrectionFailure(m, pc[p] = "failing"))
    <3>1. Carries(m, RecordCorrectionFailure(m, pc[p] = "failing"))
      BY <1>0, Carried
    <3> QED BY <1>0, <2>1, <2>5, <3>1, CostEnds
  <2> QED BY <1>4, <2>3, <2>4, <2>5 DEF EndOutcome, m
<1>5. CASE ThreadOutcome(p)
  <2>0. /\ Carries(row, row) /\ Carries(m, m) /\ NoUsage(p) /\ p \in threads
        /\ pc[p] \in {"agent", "failing", "orphaned"} /\ kind[p] \in Runners
        /\ m \in Sources(p)
    BY <1>0, <1>5, Carried DEF ThreadOutcome
  <2>1. ~(kind[p] = "implement" /\ "implement" \in billed[target[p]])
    BY <1>0, <2>0 DEF CopyPriced
  <2>2. CASE kind[p] = "plan"
    <3>1. "plan" \notin billed[target[p]] /\ "implement" \notin billed[target[p]]
      BY <2>2, Unbilled
    <3>2. ASSUME NEW r, Leaves(p, r) \/ \E copy, at : Stays(p, r, copy, at) PROVE CostInv'
      <4>1. RowPriced(r, billed'[target[p]]) /\ "implement" \notin billed'[target[p]]
        BY <2>0, <3>1 DEF RowPriced, NoUsage
      <4>2. (\E copy, at : Stays(p, r, copy, at)) => CopyPriced(p, billed[target[p]])'
        BY <2>0, <2>2, <3>1 DEF CopyPriced, NoUsage, Stays
      <4> QED BY <1>0, <2>0, <3>2, <4>1, <4>2, CostMoves DEF IInv
    <3> QED BY <1>5, <3>2 DEF ThreadOutcome
  <2>3. CASE kind[p] # "plan"
    <3>1. CASE Stays(p, m, m, pc[p])
      BY <1>0, <2>0, <2>1, <2>3, <3>1, CostStays
    <3>2. CASE Leaves(p, row)
      BY <1>0, <2>0, <2>1, <2>3, <3>2, CostLeaves
    <3>3. CASE Stays(p, row, m, "failing")
      BY <1>0, <2>0, <2>1, <2>3, <3>3, CostStays
    <3> QED BY <1>5, <3>1, <3>2, <3>3 DEF ThreadOutcome, m, row
  <2> QED BY <2>2, <2>3
<1> QED BY <1>1, <1>2, <1>3, <1>4, <1>5, Outcome DEF IInv

LEMMA CostRequest ==
  ASSUME IInv, ReviewInv, CostInv, NEW p \in Procs, NEW j \in Jobs, Request(p, j)
  PROVE  CostInv'
<1>0. /\ RequestOutcome(p, j) /\ db[j] \in JobRecord /\ Reviewable(db[j])
      /\ RowPriced(db[j], billed[j])
      /\ \A q \in Procs : pc[q] = "idle" <=> target[q] = NoJob
  BY RequestMoves DEF IInv, TypeOK, ReviewInv, RowsReviewable, CostInv, RowsPriced
<1>1. ASSUME NEW k, NEW row, NEW copy, NEW at, Arrives(p, k, j, row, copy, at),
             RowPriced(row, billed[j]),
             db[j].implCost /\ "implement" \in billed[j] => row.implCost,
             "plan" \in billed[j] => k # "plan" /\ (at # "created" => copy.planCost),
             k = "implement" => "implement" \notin billed[j]
      PROVE  CostInv'
  <2>1. RowsPriced'  BY <1>1 DEF Arrives, CostInv, RowsPriced
  <2>2. CopiesPriced'
    <3> SUFFICES ASSUME NEW q \in Procs, pc'[q] # "idle" PROVE CopyPriced(q, billed[target[q]])'
      BY DEF CopiesPriced
    <3>1. CASE q = p
      BY <1>1, <3>1 DEF Arrives, CopyPriced
    <3>2. CASE q # p
      BY <1>1, <3>2 DEF Arrives, CopyPriced, CostInv, CopiesPriced
    <3> QED BY <3>1, <3>2
  <2>3. ImplementationPriced'
    <3>1. \A q \in Procs : \A i \in Jobs : target[q] = i => kind'[q] = kind[q] /\ target'[q] = target[q]
      BY <1>0, <1>1, NoJobAssumption DEF Arrives
    <3> QED BY <1>1, <3>1 DEF Arrives, CostInv, ImplementationPriced
  <2> QED BY <2>1, <2>2, <2>3 DEF CostInv
<1>2. "PLAN_READY" \notin AfterApproval /\ "ABSENT" \notin AfterApproval
  BY DEF AfterApproval, BeforeApproval
<1>3. CASE db[j].state = "ABSENT" /\ Arrives(p, "plan", j, NewJob, NoRow, "created")
  BY <1>0, <1>1, <1>2, <1>3 DEF RowPriced
<1>4. CASE db[j].state = "PLAN_READY" /\ Arrives(p, "implement", j, Approved(db[j]), NoRow, "created")
  <2>1. "implement" \notin billed[j]  BY <1>0, <1>2, <1>4 DEF RowPriced
  <2>2. RowPriced(Approved(db[j]), billed[j])
    BY <1>0, <2>1 DEF RowPriced, Approved, JobRecord
  <2> QED BY <1>1, <1>4, <2>1, <2>2
<1>5. CASE /\ db[j].state = "IMPLEMENTATION_READY"
           /\ Arrives(p, "correct", j, CorrectionRequested(db[j]), NoRow, "created")
  <2>1. Carries(db[j], CorrectionRequested(db[j]))  BY <1>0, Carried
  <2>2. RowPriced(CorrectionRequested(db[j]), billed[j])
    BY <1>0, <2>1 DEF RowPriced, Carries, CorrectionRequested, JobRecord
  <2> QED BY <1>1, <1>5, <2>1, <2>2 DEF Carries
<1>6. ASSUME NEW k \in {"branch", "push"}, Arrives(p, k, j, db[j], db[j], "git")
      PROVE  CostInv'
  BY <1>0, <1>1, <1>6 DEF RowPriced
<1> QED BY <1>0, <1>3, <1>4, <1>5, <1>6 DEF RequestOutcome

LEMMA CostServer ==
  ASSUME IInv, CostInv, Crash \/ Shutdown \/ Recovery
  PROVE  CostInv'
<1>0. ASSUME NEW j \in Jobs
      PROVE  /\ db[j] \in JobRecord /\ RowPriced(db[j], billed[j])
             /\ "implement" \in billed[j] =>
                  db[j].implCost \/ \E q \in Procs : kind[q] = "implement" /\ target[q] = j
  BY DEF IInv, TypeOK, CostInv, RowsPriced, ImplementationPriced
<1>1. ForgetUnsavedUsage =>
        \A j \in Jobs : /\ billed'[j] \subseteq billed[j]
                        /\ "implement" \in billed'[j] => db[j].implCost
  BY DEF ForgetUnsavedUsage
<1>2. CASE Dies
  BY <1>0, <1>1, <1>2
  DEF Dies, CostInv, RowsPriced, RowPriced, CopiesPriced, ImplementationPriced
<1>3. CASE Recovers
  <2>1. ASSUME NEW j \in Jobs, Unfinished(db[j])
        PROVE  /\ RowPriced(Recovered(db[j]), billed[j])
               /\ db[j].implCost => Recovered(db[j]).implCost
    <3>1. /\ Carries(db[j], Fail(db[j], "IMPLEMENTATION_FAILED"))
          /\ Carries(db[j], RecordCorrectionFailure(db[j], db[j].fixStarted))
      BY <1>0, Carried
    <3>2. CASE db[j].state \in CorrectionStates \cup ImplementationStates
      <4>1. Carries(db[j], Recovered(db[j]))
        BY <3>1, <3>2 DEF Recovered, CorrectionStates, ImplementationStates
      <4>2. db[j].state \in AfterApproval
        BY <3>2 DEF AfterApproval, BeforeApproval, JobStates, CorrectionStates,
                    ImplementationStates, PlanStates
      <4> QED BY <1>0, <4>1, <4>2 DEF Carries, RowPriced, AfterApproval, BeforeApproval
    <3>3. CASE db[j].state \notin CorrectionStates \cup ImplementationStates
      <4>1. Recovered(db[j]) = Fail(db[j], "FAILED")
        BY <3>3 DEF Recovered
      <4>2. db[j].state \notin AfterApproval
        BY <2>1, <3>3 DEF Unfinished, AfterApproval, BeforeApproval, JobStates, TerminalStates
      <4> QED BY <1>0, <4>1, <4>2 DEF RowPriced, Fail, JobRecord
    <3> QED BY <3>2, <3>3
  <2>2. \A j \in Jobs : /\ RowPriced(db'[j], billed[j])
                        /\ db[j].implCost => db'[j].implCost
    BY <1>0, <1>3, <2>1 DEF Recovers
  <2> QED BY <1>0, <1>3, <2>2
          DEF Recovers, CostInv, RowsPriced, CopiesPriced, ImplementationPriced
<1>4. CASE Halts
  <2>1. ASSUME NEW j \in Jobs
        PROVE  RowPriced(db'[j], billed[j]) /\ (db[j].implCost => db'[j].implCost)
    <3>1. CASE db'[j] \in {db[j], Settled(db[j], "IMPLEMENTATION_FAILED")}
      <4>1. Carries(db[j], db'[j])  BY <1>0, <3>1, Carried
      <4>2. db'[j].state # "ABSENT" \/ db[j].state = "ABSENT"
        BY <1>0, <3>1 DEF Settled, Fail, JobRecord
      <4> QED BY <1>0, <4>1, <4>2 DEF Carries, RowPriced
    <3>2. CASE db[j].state \notin AfterApproval /\ db'[j] = Settled(db[j], "FAILED")
      <4>1. /\ db'[j].planCost = db[j].planCost /\ db'[j].implCost = db[j].implCost
            /\ db'[j].state \in {db[j].state, "FAILED"}
        BY <1>0, <3>2 DEF Settled, Fail, JobRecord
      <4> QED BY <1>0, <3>2, <4>1 DEF RowPriced
    <3> QED BY <1>4, <3>1, <3>2 DEF Halts
  <2>2. RowsPriced' /\ ImplementationPriced'
    BY <1>1, <1>4, <2>1 DEF Halts, RowsPriced, ImplementationPriced, RowPriced
  <2>3. CopiesPriced'
    <3> SUFFICES ASSUME NEW p \in Procs, pc'[p] # "idle" PROVE CopyPriced(p, billed[target[p]])'
      BY DEF CopiesPriced
    <3>1. /\ p \in threads /\ p \in threads' /\ pc'[p] = "orphaned" /\ target[p] \in Jobs
          /\ kind'[p] = kind[p] /\ target'[p] = target[p] /\ mem'[p] = mem[p]
          /\ pc[p] \in {"agent", "failing", "orphaned"}
      BY <1>4 DEF Halts
    <3>2. CopyPriced(p, billed[target[p]])  BY <3>1 DEF CostInv, CopiesPriced
    <3>3. billed'[target[p]] \subseteq billed[target[p]]  BY <1>1, <1>4, <3>1 DEF Halts
    <3> QED BY <3>1, <3>2, <3>3 DEF CopyPriced
  <2> QED BY <2>2, <2>3 DEF CostInv
<1> QED BY <1>2, <1>3, <1>4, ServerMoves, ShutdownMoves DEF IInv, ApprovalInv

LEMMA CostNext ==
  ASSUME ~GitRaises, IInv, ReviewInv, CostInv, [Next]_vars
  PROVE  CostInv'
<1>1. CASE UNCHANGED vars
  BY <1>1 DEF vars, loopVars, historyVars, CostInv, RowsPriced, CopiesPriced, CopyPriced,
              ImplementationPriced
<1> QED BY <1>1, CostStep, CostRequest, CostServer DEF Next

\* The cost of a planning or implementing run whose usage came back to its runner is on the row
\* once that runner is gone, whoever saves the job later, as long as git fails only where the
\* diff helpers expect it to.
THEOREM CostIsRecorded == ASSUME ~GitRaises PROVE Spec => []CostRecorded
<1>1. Init => CostInv
  BY DEF Init, CostInv, RowsPriced, RowPriced, CopiesPriced, ImplementationPriced
<1>2. IInv /\ ReviewInv /\ CostInv /\ [Next]_vars => CostInv'
  BY CostNext
<1>3. CostInv => CostRecorded
  <2> SUFFICES ASSUME CostInv, NEW j \in Jobs
               PROVE  /\ "plan" \in billed[j] /\ ~Running(j, "plan") => db[j].planCost
                      /\ "implement" \in billed[j] /\ ~Running(j, "implement") => db[j].implCost
    BY DEF CostRecorded
  <2>1. "plan" \in billed[j] => db[j].planCost  BY DEF CostInv, RowsPriced, RowPriced
  <2>2. ASSUME "implement" \in billed[j], ~db[j].implCost PROVE Running(j, "implement")
    <3>1. PICK q \in Procs : kind[q] = "implement" /\ target[q] = j
      BY <2>2 DEF CostInv, ImplementationPriced
    <3>2. pc[q] # "idle" => pc[q] # "orphaned"
      BY <2>2, <3>1 DEF CostInv, CopiesPriced, CopyPriced
    <3> QED BY <3>1, <3>2 DEF Running
  <2> QED BY <2>1, <2>2
<1> QED BY <1>1, <1>2, <1>3, InvInit, InvNext, ReviewInit, ReviewNext, PTL DEF Spec
-----------------------------------------------------------------------------
(* What a dead process leaves behind is recovered before anyone is served, *)
(* and while a job is in flight a runner is under way for it.              *)

\* Recovery has listed every row that claims work.
RecoveryComplete ==
  server = "recovering" => \A j \in Jobs : Unfinished(db[j]) => j \in unfinished

LEMMA DuringRecovery ==
  ASSUME IInv, [Next]_vars, server = "recovering"
  PROVE  Dies \/ Recovers \/ UNCHANGED vars
<1>1. \A p \in Procs : pc[p] = "idle"  BY DEF IInv, ApprovalInv, RestartIsClean
<1>2. \A p \in Procs : ~(Step(p) \/ Thread(p))
  BY <1>1, Outcome DEF IInv
<1>3. \A p \in Procs, j \in Jobs : ~Request(p, j)
  BY RequestMoves DEF RequestOutcome, Arrives, IInv
<1>4. ~Shutdown  BY DEF Shutdown
<1> QED BY <1>2, <1>3, <1>4, ServerMoves DEF Next, IInv, ApprovalInv

\* A step of a coroutine leaves the server as it is.
LEMMA ServerRests ==
  ASSUME IInv, NEW p \in Procs
  PROVE  /\ Step(p) \/ Thread(p) => UNCHANGED <<server, unfinished>> /\ server \notin {"down", "recovering"}
         /\ \A j \in Jobs : Request(p, j) => UNCHANGED server /\ server = "serving"
<1>1. ASSUME Step(p) \/ Thread(p)
      PROVE  UNCHANGED <<server, unfinished>> /\ pc[p] # "idle"
  <2>1. Elsewhere(p) => UNCHANGED <<server, unfinished>>  BY DEF Elsewhere
  <2>2. /\ \A row, copy, at : Stays(p, row, copy, at) => Elsewhere(p)
        /\ \A row : Leaves(p, row) => Elsewhere(p)
        /\ \A rec : Ends(p, rec) => Elsewhere(p)
    BY DEF Stays, Leaves, Ends
  <2>3. Elsewhere(p)
    <3>1. CASE GitOutcome(p)  BY <2>2, <3>1 DEF GitOutcome
    <3>2. CASE SlotOutcome(p)  BY <2>2, <3>2 DEF SlotOutcome
    <3>3. CASE PlanOutcome(p)  BY <2>2, <3>3 DEF PlanOutcome
    <3>4. CASE EditsOutcome(p)  BY <2>2, <3>4 DEF EditsOutcome
    <3>5. CASE EndOutcome(p)  BY <2>2, <3>5 DEF EndOutcome
    <3>6. CASE ThreadOutcome(p)  BY <2>2, <3>6 DEF ThreadOutcome
    <3> QED BY <1>1, <3>1, <3>2, <3>3, <3>4, <3>5, <3>6, Outcome DEF IInv
  <2> QED BY <1>1, <2>1, <2>3, Outcome DEF IInv
<1>2. \A j \in Jobs : Request(p, j) => UNCHANGED server /\ server = "serving"
  BY RequestMoves DEF RequestOutcome, Arrives, IInv
<1> QED BY <1>1, <1>2 DEF IInv, ApprovalInv, RestartIsClean

LEMMA CompleteNext ==
  ASSUME ~GitRaises, IInv, RecoveryComplete, [Next]_vars
  PROVE  RecoveryComplete'
<1> SUFFICES ASSUME server' = "recovering", NEW j \in Jobs, Unfinished(db'[j])
             PROVE  j \in unfinished'
  BY DEF RecoveryComplete
<1>0. db[j] \in JobRecord  BY DEF IInv, TypeOK
<1>1. CASE Recovers
  <2>1. ~Unfinished(Recovered(db[j]))
    BY <1>0
    DEF Unfinished, Recovered, Fail, RecordCorrectionFailure, TerminalStates, JobRecord
  <2> QED BY <1>1, <2>1 DEF Recovers, RecoveryComplete
<1>2. CASE UNCHANGED vars
  BY <1>2 DEF vars, serverVars, RecoveryComplete
<1>3. CASE Dies \/ Shutdown
  BY <1>3 DEF Dies, Shutdown
<1>4. ASSUME NEW p \in Procs, (Step(p) \/ Thread(p)) \/ \E i \in Jobs : Request(p, i)
      PROVE  FALSE
  BY <1>4, ServerRests
<1> QED BY <1>1, <1>2, <1>3, <1>4, ServerMoves DEF Next, IInv, ApprovalInv

\* The process never serves a request while a row still claims work that died with the
\* previous process, also when it dies again during recovery.
THEOREM ServesRecovered == ASSUME ~GitRaises PROVE Spec => ServesOnlyRecovered
<1>1. Init => RecoveryComplete
  BY DEF Init, RecoveryComplete
<1>2. IInv /\ RecoveryComplete /\ [Next]_vars => RecoveryComplete'
  BY CompleteNext
<1>3. ASSUME IInv, RecoveryComplete, [Next]_vars, server = "recovering", server' = "serving"
      PROVE  \A j \in Jobs : ~Unfinished(db'[j])
  <2>1. Recovers  BY <1>3, DuringRecovery DEF Dies, vars, serverVars
  <2> QED BY <1>3, <2>1 DEF Recovers, RecoveryComplete
<1>4. IInv /\ RecoveryComplete /\ [Next]_vars =>
        [server = "recovering" /\ server' = "serving" => \A j \in Jobs : ~Unfinished(db'[j])]_vars
  BY <1>3
<1> QED BY <1>1, <1>2, <1>4, InvInit, InvNext, PTL DEF Spec, ServesOnlyRecovered

\* An agent thread that outlives its runner can only save a finished copy, and a branch is
\* created on a finished implementation.
CopyRests(p) ==
  /\ pc[p] = "orphaned" => ~Unfinished(mem[p])
  /\ kind[p] = "branch" => ~Unfinished(mem[p])

Attended(j) == \E q \in Procs : kind[q] \in Runners /\ target[q] = j /\ pc[q] # "orphaned"

RestInv ==
  server = "serving" =>
    /\ \A p \in Procs : pc[p] # "idle" => CopyRests(p)
    /\ \A j \in Jobs : Unfinished(db[j]) => db[j].pushed \/ Attended(j)

LEMMA RestStays ==
  ASSUME TypeOK, RestInv, NEW p \in Procs, pc[p] # "idle", NEW row, NEW copy, NEW at,
         Stays(p, row, copy, at), kind[p] \in Runners,
         at = "orphaned" => ~Unfinished(copy) /\ (~Unfinished(row) \/ (row = db[target[p]] /\ pc[p] = "orphaned"))
  PROVE  RestInv'
<1> SUFFICES ASSUME server = "serving" PROVE RestInv'
  BY DEF Stays, Elsewhere, RestInv
<1>0. target[p] \in Jobs /\ Elsewhere(p)  BY ActiveTarget DEF Stays
<1>1. \A q \in Procs : pc'[q] # "idle" => CopyRests(q)'
  <2> SUFFICES ASSUME NEW q \in Procs, pc'[q] # "idle" PROVE CopyRests(q)'
    OBVIOUS
  <2>1. CASE q = p
    BY <2>1 DEF Stays, CopyRests, Runners
  <2>2. CASE q # p
    BY <1>0, <2>2 DEF Elsewhere, RestInv, CopyRests
  <2> QED BY <2>1, <2>2
<1>2. ASSUME NEW j \in Jobs, Unfinished(db'[j]) PROVE db'[j].pushed \/ Attended(j)'
  <2>1. CASE j = target[p] /\ at # "orphaned"
    BY <2>1 DEF Stays, Attended
  <2>2. CASE j # target[p] \/ at = "orphaned"
    <3>1. db'[j] = db[j] /\ (j = target[p] => pc[p] = "orphaned")
      BY <1>0, <1>2, <2>2 DEF Stays, Elsewhere
    <3>2. db[j].pushed \/ Attended(j)
      BY <1>2, <3>1 DEF RestInv
    <3>3. \A q \in Procs : kind[q] \in Runners /\ target[q] = j /\ pc[q] # "orphaned" =>
            q # p /\ kind'[q] = kind[q] /\ target'[q] = target[q] /\ pc'[q] = pc[q]
      BY <1>0, <3>1 DEF Elsewhere
    <3> QED BY <3>1, <3>2, <3>3 DEF Attended
  <2> QED BY <2>1, <2>2
<1> QED BY <1>1, <1>2 DEF RestInv

LEMMA RestLeaves ==
  ASSUME TypeOK, RestInv, NEW p \in Procs, pc[p] # "idle", NEW row, Leaves(p, row),
         \/ ~Unfinished(row)
         \/ row.pushed
         \/ row = db[target[p]] /\ (kind[p] \notin Runners \/ pc[p] = "orphaned")
  PROVE  RestInv'
<1> SUFFICES ASSUME server = "serving" PROVE RestInv'
  BY DEF Leaves, Elsewhere, RestInv
<1>0. target[p] \in Jobs /\ Elsewhere(p) /\ pc'[p] = "idle"  BY ActiveTarget DEF Leaves
<1>1. \A q \in Procs : pc'[q] # "idle" => CopyRests(q)'
  BY <1>0 DEF Elsewhere, RestInv, CopyRests
<1>2. ASSUME NEW j \in Jobs, Unfinished(db'[j]), ~db'[j].pushed PROVE Attended(j)'
  <2>1. db'[j] = db[j] /\ (j = target[p] => kind[p] \notin Runners \/ pc[p] = "orphaned")
    BY <1>0, <1>2 DEF Leaves, Elsewhere
  <2>2. Attended(j)  BY <1>2, <2>1 DEF RestInv
  <2>3. \A q \in Procs : kind[q] \in Runners /\ target[q] = j /\ pc[q] # "orphaned" =>
          q # p /\ kind'[q] = kind[q] /\ target'[q] = target[q] /\ pc'[q] = pc[q]
    BY <1>0, <2>1 DEF Elsewhere
  <2> QED BY <2>2, <2>3 DEF Attended
<1> QED BY <1>1, <1>2 DEF RestInv

LEMMA RestEnds ==
  ASSUME TypeOK, RestInv, NEW p \in Procs, pc[p] # "idle", kind[p] \in Runners, NEW rec,
         Ends(p, rec), IsTerminal(rec)
  PROVE  RestInv'
<1>1. ~Unfinished(rec)  BY DEF IsTerminal, Unfinished
<1> QED BY <1>1, RestStays, RestLeaves DEF Ends

LEMMA RestStep ==
  ASSUME ~GitRaises, IInv, RestInv, NEW p \in Procs, Step(p) \/ Thread(p)
  PROVE  RestInv'
<1> USE DEF IInv
<1> DEFINE m == mem[p]
           row == db[target[p]]
<1>0. pc[p] # "idle" /\ m \in JobRecord /\ row \in JobRecord
  BY Outcome
<1>1. server \notin {"down", "recovering"}  BY ServerRests
<1> HIDE DEF m, row
<1>2. CASE GitOutcome(p)
  <2>1. kind[p] \in Requests /\ kind[p] \notin Runners
    BY <1>2, AwaitFacts DEF GitOutcome, AtItsAwait, TypeOK, Runners, Requests
  <2>2. [m EXCEPT !.pushed = TRUE].pushed  BY <1>0 DEF JobRecord
  <2>3. CASE Leaves(p, row) \/ Leaves(p, [m EXCEPT !.pushed = TRUE])
    BY <1>0, <2>1, <2>2, <2>3, RestLeaves DEF row
  <2>4. CASE kind[p] = "branch" /\ Leaves(p, [m EXCEPT !.branch = TRUE])
    <3>1. CASE server = "serving"
      <4>1. ~Unfinished(m)  BY <1>0, <2>4, <3>1 DEF RestInv, CopyRests, m
      <4>2. ~Unfinished([m EXCEPT !.branch = TRUE])
        BY <1>0, <4>1 DEF Unfinished, JobRecord
      <4> QED BY <1>0, <2>4, <4>2, RestLeaves
    <3>2. CASE server # "serving"
      BY <2>4, <3>2 DEF Leaves, Elsewhere, RestInv
    <3> QED BY <3>1, <3>2
  <2> QED BY <1>2, <2>3, <2>4 DEF GitOutcome, m, row
<1>3. CASE SlotOutcome(p)
  <2> DEFINE rec == CopyAtStart(p)
  <2>1. rec \in JobRecord  BY <1>0 DEF CopyAtStart, m, row
  <2>2. IsTerminal(Fail(rec, "FAILED")) /\ kind[p] \in Runners
    BY <1>3, <2>1, EndStates DEF SlotOutcome
  <2> HIDE DEF rec
  <2>3. CASE Ends(p, Fail(rec, "FAILED"))
    BY <1>0, <2>2, <2>3, RestEnds
  <2>4. ASSUME NEW r, NEW c, NEW at, Stays(p, r, c, at), at # "orphaned" PROVE RestInv'
    BY <1>0, <2>2, <2>4, RestStays
  <2> QED BY <1>3, <2>3, <2>4 DEF SlotOutcome, rec
<1>4. CASE PlanOutcome(p)
  <2>1. kind[p] \in Runners  BY <1>4 DEF PlanOutcome, Runners
  <2>2. CASE Ends(p, Fail(m, "FAILED"))
    BY <1>0, <2>1, <2>2, EndStates, RestEnds
  <2>3. CASE Leaves(p, Planned(m)) \/ Leaves(p, Fail(WithPlanCost(m), "FAILED"))
    <3>1. ~Unfinished(Planned(m)) /\ ~Unfinished(Fail(WithPlanCost(m), "FAILED"))
      BY <1>0 DEF Unfinished, TerminalStates, Planned, Fail, WithPlanCost, JobRecord
    <3> QED BY <1>0, <2>3, <3>1, RestLeaves
  <2>4. ASSUME NEW r, NEW c, NEW at \in {"clone", "map", "agent"}, Stays(p, r, c, at) PROVE RestInv'
    BY <1>0, <2>1, <2>4, RestStays
  <2> QED BY <1>4, <2>2, <2>3, <2>4 DEF PlanOutcome, m
<1>5. CASE EditsOutcome(p)
  <2>1. kind[p] \in Runners  BY <1>5 DEF EditsOutcome, Runners
  <2>2. ASSUME NEW r, NEW c, NEW at, Stays(p, r, c, at), at # "orphaned" PROVE RestInv'
    BY <1>0, <2>1, <2>2, RestStays
  <2> QED BY <1>5, <2>2 DEF EditsOutcome
<1>6. CASE EndOutcome(p)
  <2>1. kind[p] \in Runners  BY <1>6 DEF EndOutcome, Runners
  <2>2. ASSUME NEW failures \in BOOLEAN, Leaves(p, ValidatedAs(m, kind[p], failures)) PROVE RestInv'
    <3>1. ~Unfinished(ValidatedAs(m, kind[p], failures))
      BY <1>0 DEF Unfinished, TerminalStates, ValidatedAs, JobRecord
    <3> QED BY <1>0, <2>2, <3>1, RestLeaves
  <2>3. CASE Ends(p, Fail(m, "IMPLEMENTATION_FAILED"))
    BY <1>0, <2>1, <2>3, EndStates, RestEnds
  <2>4. CASE Ends(p, RecordCorrectionFailure(m, pc[p] = "failing"))
    <3>1. IsTerminal(RecordCorrectionFailure(m, pc[p] = "failing"))  BY <1>0, EndStates
    <3> QED BY <1>0, <2>1, <2>4, <3>1, RestEnds
  <2> QED BY <1>6, <2>2, <2>3, <2>4 DEF EndOutcome, m
<1>7. CASE ThreadOutcome(p)
  <2>1. kind[p] \in Runners  BY <1>7 DEF ThreadOutcome
  <2>2. CASE Stays(p, m, m, pc[p])
    <3>1. CASE server = "serving"
      <4>1. pc[p] = "orphaned" => ~Unfinished(m)  BY <1>0, <3>1 DEF RestInv, CopyRests, m
      <4> QED BY <1>0, <2>1, <2>2, <4>1, RestStays
    <3>2. CASE server # "serving"
      BY <2>2, <3>2 DEF Stays, Elsewhere, RestInv
    <3> QED BY <3>1, <3>2
  <2>3. CASE pc[p] = "orphaned" /\ Leaves(p, row)
    BY <1>0, <2>3, RestLeaves DEF row
  <2>4. CASE pc[p] = "failing" /\ Stays(p, row, m, "failing")
    BY <1>0, <2>1, <2>4, RestStays
  <2> QED BY <1>7, <2>2, <2>3, <2>4 DEF ThreadOutcome, m, row
<1> QED BY <1>2, <1>3, <1>4, <1>5, <1>6, <1>7, Outcome

LEMMA RestNext ==
  ASSUME ~GitRaises, IInv, RecoveryComplete, RestInv, [Next]_vars
  PROVE  RestInv'
<1>1. ASSUME NEW p \in Procs, NEW j \in Jobs, Request(p, j) PROVE RestInv'
  <2>1. RequestOutcome(p, j) /\ db[j] \in JobRecord
    BY <1>1, RequestMoves DEF IInv, TypeOK
  <2>2. ASSUME NEW k, NEW row, NEW copy, NEW at, Arrives(p, k, j, row, copy, at),
               at # "orphaned", k = "branch" => ~Unfinished(copy),
               k \in Runners \/ row = db[j]
        PROVE  RestInv'
    <3>1. \A q \in Procs : pc'[q] # "idle" => CopyRests(q)'
      BY <2>2 DEF Arrives, RestInv, CopyRests
    <3>2. \A i \in Jobs : Attended(i) => Attended(i)'
      <4> SUFFICES ASSUME NEW i \in Jobs, NEW q \in Procs,
                          kind[q] \in Runners /\ target[q] = i /\ pc[q] # "orphaned"
                   PROVE  Attended(i)'
        BY DEF Attended
      <4>1. q # p  BY <2>2 DEF Arrives, IInv, TypeOK, Runners
      <4> QED BY <2>2, <4>1 DEF Arrives, Attended
    <3>3. k \in Runners => Attended(j)'  BY <2>2 DEF Arrives, Attended
    <3> QED BY <2>2, <3>1, <3>2, <3>3 DEF Arrives, RestInv
  <2>3. db[j].state = "IMPLEMENTATION_READY" => ~Unfinished(db[j])
    BY DEF Unfinished, TerminalStates
  <2> QED BY <2>1, <2>2, <2>3 DEF RequestOutcome, Runners
<1>2. CASE Dies \/ Shutdown
  BY <1>2 DEF Dies, Shutdown, RestInv
<1>3. CASE Recovers
  BY <1>3 DEF Recovers, RestInv, RecoveryComplete
<1>4. CASE UNCHANGED vars
  BY <1>4 DEF vars, loopVars, serverVars, RestInv, CopyRests, Attended
<1> QED BY <1>1, <1>2, <1>3, <1>4, RestStep, ServerMoves DEF Next, IInv, ApprovalInv

\* A row that says a runner is working on the job has one, unless a push was saved on it.
THEOREM StuckAfterPush == ASSUME ~GitRaises PROVE Spec => []StuckOnlyAfterPush
<1>1. Init => RecoveryComplete /\ RestInv
  BY DEF Init, RecoveryComplete, RestInv, NoRow, Unfinished
<1>2. IInv /\ RecoveryComplete /\ RestInv /\ [Next]_vars => RecoveryComplete' /\ RestInv'
  BY CompleteNext, RestNext
<1>3. RestInv => StuckOnlyAfterPush
  BY DEF RestInv, Attended, StuckOnlyAfterPush, Running
<1> QED BY <1>1, <1>2, <1>3, InvInit, InvNext, PTL DEF Spec
-----------------------------------------------------------------------------
(* A job in review stays there.                                            *)

InReview(rec) == rec.state \in Review

\* A correction, and a request that awaits git, work on a job in review and with a copy that
\* is; a push may find the job failed, and its copy says so too.
ReviewCopy(p) ==
  /\ kind[p] = "correct" =>
       /\ pc[p] = "created" => server = "serving"
       /\ pc[p] # "created" => InReview(mem[p])
       /\ server = "serving" => InReview(db[target[p]])
  /\ kind[p] \in Requests =>
       /\ server = "serving"
       /\ InReview(mem[p]) <=> InReview(db[target[p]])
       /\ kind[p] = "branch" => mem[p].state = "IMPLEMENTATION_READY"

StaysInReview == \A p \in Procs : pc[p] # "idle" => ReviewCopy(p)

\* No row leaves review, or the process is stopping.
Keeps == server' = "stopping" \/ \A j \in Jobs : InReview(db[j]) => InReview(db'[j])

LEMMA KeepMoves ==
  ASSUME IInv, ReviewInv, StaysInReview, NEW p \in Procs, pc[p] # "idle", NEW row,
         kind[p] \in ReviewKinds /\ server = "serving" => (InReview(row) <=> InReview(db[target[p]])),
         Leaves(p, row) \/ ((\E copy, at : Stays(p, row, copy, at)) /\ ReviewCopy(p)')
  PROVE  StaysInReview' /\ Keeps
<1>0. /\ target[p] \in Jobs /\ Elsewhere(p) /\ db'[target[p]] = row /\ server' = server
      /\ (pc'[p] = "idle" \/ ReviewCopy(p)')
  BY ActiveTarget DEF IInv, Leaves, Stays, Elsewhere
<1>1. ASSUME NEW q \in Procs, pc'[q] # "idle" PROVE ReviewCopy(q)'
  <2>1. CASE q = p
    BY <1>0, <1>1, <2>1
  <2>2. CASE q # p
    <3>1. /\ kind'[q] = kind[q] /\ target'[q] = target[q] /\ pc'[q] = pc[q] /\ mem'[q] = mem[q]
          /\ pc[q] # "idle"
      BY <1>0, <1>1, <2>2 DEF Elsewhere
    <3>2. ReviewCopy(q) /\ target[q] \in Jobs
      BY <3>1, ActiveTarget DEF IInv, StaysInReview
    <3>3. CASE target[q] = target[p]
      <4>1. kind[p] \in ReviewKinds
        BY <2>2, <3>3, Company DEF IInv, ReviewInv
      <4> QED BY <1>0, <3>1, <3>2, <3>3, <4>1 DEF ReviewCopy
    <3>4. CASE target[q] # target[p]
      <4>1. db'[target[q]] = db[target[q]]  BY <1>0, <3>2, <3>4 DEF Elsewhere
      <4> QED BY <1>0, <3>1, <3>2, <4>1 DEF ReviewCopy
    <3> QED BY <3>3, <3>4
  <2> QED BY <2>1, <2>2
<1>2. Keeps
  <2> SUFFICES ASSUME server' # "stopping", NEW j \in Jobs, InReview(db[j])
               PROVE  InReview(db'[j])
    BY DEF Keeps
  <2>1. server = "serving"
    BY <1>0 DEF IInv, TypeOK, ApprovalInv, RestartIsClean
  <2>2. CASE j = target[p]
    <3>1. kind[p] # "implement"
      BY <2>2
      DEF ReviewInv, CopiesShow, Shows, NotYetReviewed, InReview, Review, ImplementationStates,
          CorrectionStates
    <3>2. kind[p] # "plan"
      <4>1. kind[p] = "plan" => Fits("plan", db[j])  BY <2>2 DEF IInv, ApprovalInv, CopiesFit
      <4> QED BY <4>1 DEF Fits, InReview, Review, PlanStates, CorrectionStates
    <3>3. kind[p] \in ReviewKinds
      BY <3>1, <3>2 DEF IInv, TypeOK, ReviewKinds, Runners, Requests
    <3> QED BY <1>0, <2>1, <2>2, <3>3
  <2>3. CASE j # target[p]
    BY <1>0, <2>3 DEF Elsewhere
  <2> QED BY <2>2, <2>3
<1> QED BY <1>1, <1>2 DEF StaysInReview

\* Planning and implementing say nothing of the review.
LEMMA KeepEarly ==
  ASSUME IInv, ReviewInv, StaysInReview, NEW p \in Procs, pc[p] # "idle",
         kind[p] \in {"plan", "implement"}, NEW row,
         Leaves(p, row) \/ \E copy, at : Stays(p, row, copy, at)
  PROVE  StaysInReview' /\ Keeps
<1>1. kind[p] \notin ReviewKinds  BY DEF ReviewKinds
<1>2. (\E copy, at : Stays(p, row, copy, at)) => ReviewCopy(p)'
  BY DEF Stays, ReviewCopy, Requests
<1> QED BY <1>1, <1>2, KeepMoves

\* What a correction saves and keeps is in review.
LEMMA KeepStays ==
  ASSUME IInv, ReviewInv, StaysInReview, NEW p \in Procs, kind[p] = "correct", pc[p] # "idle",
         NEW row, NEW copy, NEW at, Stays(p, row, copy, at), at # "created", InReview(copy),
         server = "serving" => InReview(row)
  PROVE  StaysInReview' /\ Keeps
<1>1. server = "serving" => InReview(db[target[p]])  BY DEF StaysInReview, ReviewCopy
<1>2. ReviewCopy(p)'
  <2>1. /\ kind'[p] = "correct" /\ pc'[p] # "created" /\ mem'[p] = copy /\ server' = server
        /\ target'[p] = target[p] /\ db'[target[p]] = row
    BY DEF Stays, Elsewhere
  <2> QED BY <2>1 DEF ReviewCopy, Requests
<1> QED BY <1>1, <1>2, KeepMoves

LEMMA KeepLeaves ==
  ASSUME IInv, ReviewInv, StaysInReview, NEW p \in Procs, kind[p] = "correct", pc[p] # "idle",
         NEW row, Leaves(p, row), server = "serving" => InReview(row)
  PROVE  StaysInReview' /\ Keeps
<1>1. server = "serving" => InReview(db[target[p]])  BY DEF StaysInReview, ReviewCopy
<1> QED BY <1>1, KeepMoves

LEMMA ReviewStates ==
  ASSUME NEW rec \in JobRecord
  PROVE  /\ InReview(CorrectionRequested(rec))
         /\ \A b : InReview(RecordCorrectionFailure(rec, b))
         /\ \A k, b : InReview(ValidatedAs(rec, k, b))
         /\ InReview(rec) => InReview(Started(rec))
         /\ InReview([rec EXCEPT !.branch = TRUE]) <=> InReview(rec)
         /\ InReview([rec EXCEPT !.pushed = TRUE]) <=> InReview(rec)
<1> USE DEF InReview, Review, CorrectionStates, JobRecord
<1>1. InReview(CorrectionRequested(rec))  BY DEF CorrectionRequested
<1>2. \A b : InReview(RecordCorrectionFailure(rec, b))  BY DEF RecordCorrectionFailure
<1>3. \A k, b : InReview(ValidatedAs(rec, k, b))  BY DEF ValidatedAs
<1>4. /\ InReview(rec) => InReview(Started(rec))
      /\ InReview([rec EXCEPT !.branch = TRUE]) <=> InReview(rec)
      /\ InReview([rec EXCEPT !.pushed = TRUE]) <=> InReview(rec)
  BY DEF Started
<1> QED BY <1>1, <1>2, <1>3, <1>4

LEMMA KeepStep ==
  ASSUME ~GitRaises, IInv, ReviewInv, StaysInReview, NEW p \in Procs, Step(p) \/ Thread(p)
  PROVE  StaysInReview' /\ Keeps
<1> DEFINE m == mem[p]
           row == db[target[p]]
<1>0. /\ pc[p] # "idle" /\ m \in JobRecord /\ row \in JobRecord /\ ReviewCopy(p)
  BY Outcome DEF IInv, StaysInReview
<1> HIDE DEF m, row
<1>1. CASE GitOutcome(p)
  <2>1. kind[p] \in Requests
    BY <1>1, AwaitFacts DEF IInv, GitOutcome, AtItsAwait, TypeOK, Runners, Requests
  <2>2. InReview(m) <=> InReview(row)  BY <1>0, <2>1 DEF ReviewCopy, m, row
  <2>3. \A r \in {row, [m EXCEPT !.branch = TRUE], [m EXCEPT !.pushed = TRUE]} :
          InReview(r) <=> InReview(row)
    BY <1>0, <2>2 DEF InReview, JobRecord
  <2>4. ASSUME NEW r, Leaves(p, r), InReview(r) <=> InReview(row) PROVE StaysInReview' /\ Keeps
    BY <1>0, <2>4, KeepMoves DEF row
  <2> QED BY <1>1, <2>3, <2>4 DEF GitOutcome, m, row
<1>2. CASE SlotOutcome(p)
  <2> DEFINE rec == CopyAtStart(p)
  <2>1. CASE kind[p] \in {"plan", "implement"}
    <3>1. \E r : Leaves(p, r) \/ \E c, at : Stays(p, r, c, at)
      BY <1>2 DEF SlotOutcome, Ends
    <3> QED BY <1>0, <2>1, <3>1, KeepEarly
  <2>2. CASE kind[p] = "correct"
    <3>1. rec \in JobRecord /\ InReview(rec) /\ (server = "serving" => InReview(row))
      BY <1>0, <1>2, <2>2 DEF ReviewCopy, SlotOutcome, CopyAtStart, m, row
    <3>2. InReview(Started(rec))  BY <3>1, ReviewStates
    <3>3. pc[p] = "created" => InReview(row)
      BY <1>0, <2>2 DEF ReviewCopy, row
    <3> HIDE DEF rec
    <3>4. \/ pc[p] = "created" /\ Stays(p, row, row, "waiting")
          \/ Stays(p, row, rec, "refused") \/ Stays(p, row, rec, "failing")
          \/ Stays(p, Started(rec), Started(rec), "failing")
          \/ Stays(p, Started(rec), Started(rec), "agent")
      BY <1>2, <2>2 DEF SlotOutcome, rec, row
    <3>5. ASSUME NEW r, NEW c, NEW at, Stays(p, r, c, at), at # "created", InReview(c),
                 server = "serving" => InReview(r)
          PROVE  StaysInReview' /\ Keeps
      BY <1>0, <2>2, <3>5, KeepStays
    <3> QED BY <3>1, <3>2, <3>3, <3>4, <3>5
  <2> QED BY <1>2, <2>1, <2>2 DEF SlotOutcome, Runners
<1>3. CASE PlanOutcome(p)
  <2>1. \E r : Leaves(p, r) \/ \E c, at : Stays(p, r, c, at)
    BY <1>3 DEF PlanOutcome, Ends
  <2> QED BY <1>0, <1>3, <2>1, KeepEarly DEF PlanOutcome
<1>4. CASE EditsOutcome(p)
  <2>1. CASE kind[p] = "implement"
    <3>1. \E r : \E c, at : Stays(p, r, c, at)
      BY <1>4 DEF EditsOutcome
    <3> QED BY <1>0, <2>1, <3>1, KeepEarly
  <2>2. CASE kind[p] = "correct"
    <3>1. InReview(m) /\ (server = "serving" => InReview(row))
      BY <1>0, <1>4, <2>2 DEF ReviewCopy, EditsOutcome, m, row
    <3>2. InReview(WithUsage(p)) /\ InReview(Advance(WithUsage(p), "REVALIDATING"))
      BY <1>0, <3>1 DEF InReview, WithUsage, Advance, JobRecord, Review, CorrectionStates, m
    <3>3. \/ Stays(p, Advance(WithUsage(p), "REVALIDATING"), Advance(WithUsage(p), "REVALIDATING"), "validate")
          \/ Stays(p, row, WithUsage(p), "failing")
          \/ Stays(p, row, m, "failing")
      BY <1>4, <2>2 DEF EditsOutcome, m, row
    <3>4. ASSUME NEW r, NEW c, NEW at, Stays(p, r, c, at), at # "created", InReview(c),
                 server = "serving" => InReview(r)
          PROVE  StaysInReview' /\ Keeps
      BY <1>0, <2>2, <3>4, KeepStays
    <3> QED BY <3>1, <3>2, <3>3, <3>4
  <2>3. kind[p] \in {"implement", "correct"}  BY <1>4 DEF EditsOutcome
  <2> QED BY <2>1, <2>2, <2>3
<1>5. CASE EndOutcome(p)
  <2>1. CASE kind[p] = "implement"
    <3>1. \E r : Leaves(p, r) \/ \E c, at : Stays(p, r, c, at)
      BY <1>5 DEF EndOutcome, Ends
    <3> QED BY <1>0, <2>1, <3>1, KeepEarly
  <2>2. CASE kind[p] = "correct"
    <3>1. ASSUME NEW r, InReview(r), Leaves(p, r) \/ Stays(p, r, r, "orphaned")
          PROVE  StaysInReview' /\ Keeps
      BY <1>0, <2>2, <3>1, KeepStays, KeepLeaves
    <3>2. /\ \A b : InReview(RecordCorrectionFailure(m, b))
          /\ \A k, b : InReview(ValidatedAs(m, k, b))
      BY <1>0, ReviewStates
    <3>3. \E r : InReview(r) /\ (Leaves(p, r) \/ Stays(p, r, r, "orphaned"))
      <4>1. CASE \E failures \in BOOLEAN : Leaves(p, ValidatedAs(m, kind[p], failures))
        BY <3>2, <4>1
      <4>2. CASE Ends(p, RecordCorrectionFailure(m, pc[p] = "failing"))
        <5>1. InReview(RecordCorrectionFailure(m, pc[p] = "failing"))  BY <1>0, ReviewStates
        <5> QED BY <4>2, <5>1 DEF Ends
      <4> QED BY <1>5, <2>2, <4>1, <4>2 DEF EndOutcome, m
    <3> QED BY <3>1, <3>3
  <2>3. kind[p] \in {"implement", "correct"}  BY <1>5 DEF EndOutcome
  <2> QED BY <2>1, <2>2, <2>3
<1>6. CASE ThreadOutcome(p)
  <2>1. CASE kind[p] \in {"plan", "implement"}
    <3>1. \E r : Leaves(p, r) \/ \E c, at : Stays(p, r, c, at)
      BY <1>6 DEF ThreadOutcome
    <3> QED BY <1>0, <2>1, <3>1, KeepEarly
  <2>2. CASE kind[p] = "correct"
    <3>1. InReview(m) /\ (server = "serving" => InReview(row)) /\ pc[p] # "created"
      BY <1>0, <1>6, <2>2 DEF ReviewCopy, ThreadOutcome, m, row
    <3>2. \/ Stays(p, m, m, pc[p]) \/ Leaves(p, row) \/ Stays(p, row, m, "failing")
      BY <1>6 DEF ThreadOutcome, m, row
    <3> QED BY <1>0, <2>2, <3>1, <3>2, KeepStays, KeepLeaves
  <2> QED BY <1>6, <2>1, <2>2 DEF ThreadOutcome, Runners
<1> QED BY <1>1, <1>2, <1>3, <1>4, <1>5, <1>6, Outcome DEF IInv

LEMMA KeepRequest ==
  ASSUME IInv, StaysInReview, NEW p \in Procs, NEW j \in Jobs, Request(p, j)
  PROVE  StaysInReview' /\ Keeps
<1>0. RequestOutcome(p, j) /\ db[j] \in JobRecord
  BY RequestMoves DEF IInv, TypeOK
<1>1. ASSUME NEW k \in Runners \cup Requests, NEW row, NEW copy, NEW at, Arrives(p, k, j, row, copy, at),
             \/ \A q \in Procs : pc[q] # "idle" => target[q] # j
             \/ InReview(row) <=> InReview(db[j]),
             InReview(db[j]) => InReview(row),
             k = "correct" => at = "created" /\ InReview(row),
             k \in Requests => row = db[j] /\ copy = db[j],
             k = "branch" => copy.state = "IMPLEMENTATION_READY"
      PROVE  StaysInReview' /\ Keeps
  <2>1. ASSUME NEW q \in Procs, pc'[q] # "idle" PROVE ReviewCopy(q)'
    <3>1. CASE q = p
      <4>1. "correct" \notin Requests  BY DEF Requests
      <4> QED BY <1>1, <3>1, <4>1 DEF Arrives, ReviewCopy
    <3>2. CASE q # p
      <4>1. /\ kind'[q] = kind[q] /\ target'[q] = target[q] /\ pc'[q] = pc[q] /\ mem'[q] = mem[q]
            /\ pc[q] # "idle" /\ server' = server
        BY <1>1, <2>1, <3>2 DEF Arrives
      <4>2. ReviewCopy(q) /\ target[q] \in Jobs
        BY <4>1, ActiveTarget DEF IInv, StaysInReview
      <4>3. InReview(db'[target[q]]) <=> InReview(db[target[q]])
        BY <1>1, <4>1, <4>2 DEF Arrives
      <4> QED BY <4>1, <4>2, <4>3 DEF ReviewCopy
    <3> QED BY <3>1, <3>2
  <2>2. Keeps  BY <1>1 DEF Arrives, Keeps
  <2> QED BY <2>1, <2>2 DEF StaysInReview
<1>2. CASE db[j].state = "ABSENT" /\ Arrives(p, "plan", j, NewJob, NoRow, "created")
  <2>1. ~InReview(db[j])  BY <1>2 DEF InReview, Review, CorrectionStates
  <2>2. \A q \in Procs : pc[q] # "idle" => target[q] # j
    BY <1>2, Unattended DEF IInv
  <2> QED BY <1>1, <1>2, <2>1, <2>2 DEF Runners, Requests
<1>3. CASE db[j].state = "PLAN_READY" /\ Arrives(p, "implement", j, Approved(db[j]), NoRow, "created")
  <2>1. ~InReview(db[j])  BY <1>3 DEF InReview, Review, CorrectionStates
  <2>2. \A q \in Procs : pc[q] # "idle" => target[q] # j
    BY <1>3, Unattended DEF IInv
  <2> QED BY <1>1, <1>3, <2>1, <2>2 DEF Runners, Requests
<1>4. CASE /\ db[j].state = "IMPLEMENTATION_READY"
           /\ Arrives(p, "correct", j, CorrectionRequested(db[j]), NoRow, "created")
  <2>1. InReview(db[j]) /\ InReview(CorrectionRequested(db[j]))
    BY <1>0, <1>4, ReviewStates DEF InReview, Review
  <2> QED BY <1>1, <1>4, <2>1 DEF Runners, Requests
<1>5. ASSUME NEW k \in Requests, Arrives(p, k, j, db[j], db[j], "git"),
             k = "branch" => db[j].state = "IMPLEMENTATION_READY"
      PROVE  StaysInReview' /\ Keeps
  BY <1>1, <1>5 DEF Requests
<1> QED BY <1>0, <1>2, <1>3, <1>4, <1>5 DEF RequestOutcome, Requests

LEMMA KeepNext ==
  ASSUME ~GitRaises, IInv, ReviewInv, StaysInReview, [Next]_vars
  PROVE  StaysInReview' /\ Keeps
<1>0. \A j \in Jobs : db[j] \in JobRecord  BY DEF IInv, TypeOK
<1>1. CASE Dies
  BY <1>1 DEF Dies, StaysInReview, Keeps
<1>2. CASE Recovers
  <2>1. \A j \in Jobs : InReview(db[j]) => InReview(Recovered(db[j])) \/ ~Unfinished(db[j])
    <3> SUFFICES ASSUME NEW j \in Jobs, InReview(db[j]), Unfinished(db[j])
                 PROVE  InReview(Recovered(db[j]))
      OBVIOUS
    <3>1. db[j].state \in CorrectionStates
      BY DEF InReview, Review, Unfinished, TerminalStates
    <3>2. InReview(RecordCorrectionFailure(db[j], db[j].fixStarted))
      BY <1>0, ReviewStates
    <3> QED BY <3>1, <3>2 DEF Recovered, CorrectionStates, ImplementationStates
  <2> QED BY <1>2, <2>1 DEF Recovers, StaysInReview, Keeps
<1>3. CASE Halts
  <2>1. ASSUME NEW p \in Procs, pc'[p] # "idle" PROVE ReviewCopy(p)'
    <3>1. /\ p \in threads /\ kind[p] \in Runners /\ pc[p] \in {"agent", "failing", "orphaned"}
          /\ kind'[p] = kind[p] /\ mem'[p] = mem[p] /\ pc'[p] = "orphaned" /\ server' = "stopping"
      BY <1>3, <2>1 DEF Halts
    <3>2. ReviewCopy(p)  BY <3>1 DEF StaysInReview
    <3> QED BY <3>1, <3>2 DEF ReviewCopy, Runners, Requests
  <2> QED BY <1>3, <2>1 DEF Halts, StaysInReview, Keeps
<1>4. CASE UNCHANGED vars
  BY <1>4 DEF vars, loopVars, serverVars, StaysInReview, ReviewCopy, Keeps
<1> QED BY <1>1, <1>2, <1>3, <1>4, KeepStep, KeepRequest, ServerMoves, ShutdownMoves
        DEF Next, IInv, ApprovalInv

\* An implementation that reached review is not lost: no correction, branch, push or crash ever
\* fails the job again, except by the finally clause of a correction cancelled by a shutdown.
THEOREM ReviewKept == ASSUME ~GitRaises PROVE Spec => ReviewIsKept
<1>1. Init => StaysInReview
  BY DEF Init, StaysInReview
<1>2. IInv /\ ReviewInv /\ StaysInReview /\ [Next]_vars => StaysInReview'
  BY KeepNext
<1>3. IInv /\ ReviewInv /\ StaysInReview /\ [Next]_vars =>
        [server' # "stopping" => \A j \in Jobs :
           db[j].state \in CorrectionStates \cup {"IMPLEMENTATION_READY"} =>
             db'[j].state \in CorrectionStates \cup {"IMPLEMENTATION_READY"}]_vars
  BY KeepNext DEF Keeps, InReview, Review
<1> QED BY <1>1, <1>2, <1>3, InvInit, InvNext, ReviewInit, ReviewNext, PTL DEF Spec, ReviewIsKept

-----------------------------------------------------------------------------
(* Every job moves along the diagram of JobStages.                         *)

Goes(s, t) == s = t \/ <<s, t>> \in Stage!Moves

LEMMA StagesOf ==
  /\ \A s \in PlanStates : StageOf(s) = "planning"
  /\ \A s \in ImplementationStates : StageOf(s) = "implementing"
  /\ \A s \in CorrectionStates : StageOf(s) = "correcting"
  /\ StageOf("ABSENT") = "none" /\ StageOf("PLAN_READY") = "planned"
  /\ StageOf("IMPLEMENTATION_READY") = "review"
  /\ StageOf("FAILED") = "failed" /\ StageOf("IMPLEMENTATION_FAILED") = "failed"
BY DEF StageOf, PlanStates, ImplementationStates, CorrectionStates

\* Where a job may be once it has been implemented.
Reviewed == Review \cup {"IMPLEMENTATION_FAILED"}

WorkingStates(k) == IF k = "plan" THEN PlanStates ELSE ImplementationStates

LEMMA GoesFacts ==
  /\ \A s, t \in WorkingStates("plan") : Goes(StageOf(s), StageOf(t))
  /\ \A s, t \in WorkingStates("implement") : Goes(StageOf(s), StageOf(t))
  /\ \A s \in WorkingStates("plan") :
       Goes(StageOf(s), StageOf("FAILED")) /\ Goes(StageOf(s), StageOf("PLAN_READY"))
  /\ \A s \in WorkingStates("implement") :
       /\ Goes(StageOf(s), StageOf("IMPLEMENTATION_FAILED"))
       /\ Goes(StageOf(s), StageOf("IMPLEMENTATION_READY"))
  /\ \A s, t \in Reviewed : (s \in Review <=> t \in Review) => Goes(StageOf(s), StageOf(t))
  /\ \A s \in CorrectionStates :
       Goes(StageOf(s), "failed") /\ Goes(StageOf(s), "review")
<1> USE StagesOf DEF Goes, Stage!Moves, WorkingStates
<1>1. /\ \A s, t \in WorkingStates("plan") : Goes(StageOf(s), StageOf(t))
      /\ \A s, t \in WorkingStates("implement") : Goes(StageOf(s), StageOf(t))
  OBVIOUS
<1>2. \A s \in WorkingStates("plan") :
        Goes(StageOf(s), StageOf("FAILED")) /\ Goes(StageOf(s), StageOf("PLAN_READY"))
  OBVIOUS
<1>3. \A s \in WorkingStates("implement") :
        /\ Goes(StageOf(s), StageOf("IMPLEMENTATION_FAILED"))
        /\ Goes(StageOf(s), StageOf("IMPLEMENTATION_READY"))
  OBVIOUS
<1>4. \A s, t \in Reviewed : (s \in Review <=> t \in Review) => Goes(StageOf(s), StageOf(t))
  <2> SUFFICES ASSUME NEW s \in Reviewed, NEW t \in Reviewed, s \in Review <=> t \in Review
               PROVE  Goes(StageOf(s), StageOf(t))
    OBVIOUS
  <2>1. CASE s \in Review
    <3>1. /\ StageOf(s) \in {"correcting", "review"} /\ StageOf(t) \in {"correcting", "review"}
      BY <2>1 DEF Review
    <3> QED BY <3>1
  <2>2. CASE s \notin Review
    BY <2>2 DEF Reviewed
  <2> QED BY <2>1, <2>2
<1>5. \A s \in CorrectionStates : Goes(StageOf(s), "failed") /\ Goes(StageOf(s), "review")
  OBVIOUS
<1> QED BY <1>1, <1>2, <1>3, <1>4, <1>5

\* Until its runner has ended, the row and the copy of a planning or implementing coroutine
\* say so; a thread that outlived it keeps a failed copy, unless a shutdown cancelled the
\* runner: then its copy is one of work, and a report may bring it back to the row.
StageFits(k, at, mode, row, copy) ==
  /\ k \in {"plan", "implement"} =>
       \/ /\ at # "orphaned" /\ row.state \in WorkingStates(k)
          /\ at # "created" => copy.state \in WorkingStates(k)
       \/ /\ at = "orphaned" /\ row.state = FailureState(k) /\ copy.state = FailureState(k)
       \/ /\ at = "orphaned" /\ mode = "stopping" /\ copy.state \in WorkingStates(k)
          /\ row.state \in WorkingStates(k) \cup {FailureState(k)}
  /\ k \in ReviewKinds =>
       row.state \in Reviewed /\ (at # "created" => copy.state \in Reviewed)
  /\ mode = "stopping" => at = "orphaned"

\* Only a job that has been reviewed has a branch.
BranchesReviewed == \A j \in Jobs : db[j].branch => db[j].state \in Reviewed

StageInv ==
  /\ \A p \in Procs : pc[p] # "idle" =>
       StageFits(kind[p], pc[p], server, db[target[p]], mem[p])
  /\ BranchesReviewed

JobInv == IInv /\ ReviewInv /\ StaysInReview /\ StageInv

\* Unless the process is stopping, every row moves along the diagram.
RowsGo ==
  server' = "stopping" \/ \A j \in Jobs : Goes(StageOf(db[j].state), StageOf(db'[j].state))

LEMMA StageMoves ==
  ASSUME JobInv, NEW p \in Procs, pc[p] # "idle", NEW row,
         row.branch => row.state \in Reviewed,
         kind[p] \in ReviewKinds => row.state \in Reviewed,
         server # "stopping" => Goes(StageOf(db[target[p]].state), StageOf(row.state)),
         \/ Leaves(p, row)
         \/ \E copy, at : Stays(p, row, copy, at) /\ StageFits(kind[p], at, server, row, copy)
  PROVE  StageInv' /\ RowsGo
<1>0. target[p] \in Jobs /\ Elsewhere(p) /\ db'[target[p]] = row /\ server' = server
  BY ActiveTarget DEF JobInv, IInv, Leaves, Stays, Elsewhere
<1>1. ASSUME NEW q \in Procs, pc'[q] # "idle"
      PROVE  StageFits(kind'[q], pc'[q], server', db'[target'[q]], mem'[q])
  <2>1. CASE q = p
    BY <1>0, <1>1, <2>1 DEF Leaves, Stays
  <2>2. CASE q # p
    <3>1. /\ kind'[q] = kind[q] /\ target'[q] = target[q] /\ pc'[q] = pc[q] /\ mem'[q] = mem[q]
          /\ pc[q] # "idle"
      BY <1>0, <1>1, <2>2 DEF Elsewhere
    <3>2. StageFits(kind[q], pc[q], server, db[target[q]], mem[q]) /\ target[q] \in Jobs
      BY <3>1, ActiveTarget DEF JobInv, IInv, StageInv
    <3>3. CASE target[q] = target[p]
      <4>1. kind[p] \in ReviewKinds /\ kind[q] \in ReviewKinds
        BY <2>2, <3>3, Company DEF JobInv, IInv, ReviewInv
      <4> QED BY <1>0, <3>1, <3>2, <3>3, <4>1 DEF StageFits, ReviewKinds
    <3>4. CASE target[q] # target[p]
      <4>1. db'[target[q]] = db[target[q]]  BY <1>0, <3>2, <3>4 DEF Elsewhere
      <4> QED BY <1>0, <3>1, <3>2, <4>1
    <3> QED BY <3>3, <3>4
  <2> QED BY <2>1, <2>2
<1>2. BranchesReviewed'
  BY <1>0 DEF JobInv, StageInv, BranchesReviewed, Elsewhere
<1>3. RowsGo
  <2> SUFFICES ASSUME server # "stopping", NEW j \in Jobs
               PROVE  Goes(StageOf(db[j].state), StageOf(db'[j].state))
    BY <1>0 DEF RowsGo
  <2>1. CASE j = target[p]  BY <1>0, <2>1
  <2>2. CASE j # target[p]  BY <1>0, <2>2 DEF Elsewhere, Goes
  <2> QED BY <2>1, <2>2
<1> QED BY <1>1, <1>2, <1>3 DEF StageInv

\* A planning or implementing runner goes on, or comes to its end.
LEMMA StageEarly ==
  ASSUME JobInv, NEW p \in Procs, kind[p] \in {"plan", "implement"},
         pc[p] \notin {"idle", "orphaned"}, NEW row, ~row.branch
  PROVE  /\ \A copy, at :
              /\ Stays(p, row, copy, at) /\ at \notin {"created", "orphaned"}
              /\ row.state \in WorkingStates(kind[p]) /\ copy.state \in WorkingStates(kind[p])
              => StageInv' /\ RowsGo
         /\ Ends(p, row) /\ row.state = FailureState(kind[p]) => StageInv' /\ RowsGo
         /\ Leaves(p, row) /\ kind[p] = "plan" /\ row.state = "PLAN_READY" => StageInv' /\ RowsGo
         /\ Leaves(p, row) /\ kind[p] = "implement" /\ row.state = "IMPLEMENTATION_READY" =>
              StageInv' /\ RowsGo
<1>1. /\ db[target[p]].state \in WorkingStates(kind[p]) /\ server # "stopping"
      /\ kind[p] \notin ReviewKinds
  BY DEF JobInv, StageInv, StageFits, ReviewKinds
<1>2. /\ row.state \in WorkingStates(kind[p]) => Goes(StageOf(db[target[p]].state), StageOf(row.state))
      /\ row.state = FailureState(kind[p]) => Goes(StageOf(db[target[p]].state), StageOf(row.state))
      /\ kind[p] = "plan" /\ row.state = "PLAN_READY" =>
           Goes(StageOf(db[target[p]].state), StageOf(row.state))
      /\ kind[p] = "implement" /\ row.state = "IMPLEMENTATION_READY" =>
           Goes(StageOf(db[target[p]].state), StageOf(row.state))
  BY <1>1, GoesFacts DEF FailureState
<1>3. ASSUME NEW copy, NEW at, Stays(p, row, copy, at), at \notin {"created", "orphaned"},
             row.state \in WorkingStates(kind[p]), copy.state \in WorkingStates(kind[p])
      PROVE  StageInv' /\ RowsGo
  <2>1. StageFits(kind[p], at, server, row, copy)  BY <1>1, <1>3 DEF StageFits
  <2> QED BY <1>1, <1>2, <1>3, <2>1, StageMoves
<1>4. ASSUME Ends(p, row), row.state = FailureState(kind[p]) PROVE StageInv' /\ RowsGo
  <2>1. StageFits(kind[p], "orphaned", server, row, row)  BY <1>1, <1>4 DEF StageFits
  <2> QED BY <1>1, <1>2, <1>4, <2>1, StageMoves DEF Ends
<1>5. ASSUME Leaves(p, row), \/ kind[p] = "plan" /\ row.state = "PLAN_READY"
                             \/ kind[p] = "implement" /\ row.state = "IMPLEMENTATION_READY"
      PROVE  StageInv' /\ RowsGo
  BY <1>1, <1>2, <1>5, StageMoves
<1> QED BY <1>3, <1>4, <1>5

\* A correction, or a request that awaits git, leaves a row that is in review exactly if it
\* was.
LEMMA StageReview ==
  ASSUME JobInv, NEW p \in Procs, kind[p] \in ReviewKinds, pc[p] # "idle", server # "stopping",
         NEW row, row.state \in Reviewed, InReview(row) <=> InReview(db[target[p]])
  PROVE  /\ Leaves(p, row) => StageInv' /\ RowsGo
         /\ \A copy, at : Stays(p, row, copy, at) /\ copy.state \in Reviewed => StageInv' /\ RowsGo
<1>1. db[target[p]].state \in Reviewed  BY DEF JobInv, StageInv, StageFits
<1>2. Goes(StageOf(db[target[p]].state), StageOf(row.state))
  BY <1>1, GoesFacts DEF InReview
<1>3. ASSUME NEW copy, NEW at, Stays(p, row, copy, at), copy.state \in Reviewed
      PROVE  StageInv' /\ RowsGo
  <2>1. StageFits(kind[p], at, server, row, copy)  BY <1>3 DEF StageFits, ReviewKinds
  <2> QED BY <1>2, <1>3, <2>1, StageMoves
<1> QED BY <1>2, <1>3, StageMoves

\* What the edits of the runners leave of the state and of the branch.
LEMMA EditStates ==
  ASSUME NEW rec \in JobRecord
  PROVE  /\ \A k, b : /\ ValidatedAs(rec, k, b).state = "IMPLEMENTATION_READY"
                      /\ ValidatedAs(rec, k, b).branch = rec.branch
         /\ Planned(rec).state = "PLAN_READY" /\ Planned(rec).branch = rec.branch
         /\ \A r \in {WithPlanCost(rec), WithBaseline(rec), WithResult(rec)} :
              r \in JobRecord /\ r.state = rec.state /\ r.branch = rec.branch
BY DEF JobRecord, ValidatedAs, Planned, WithPlanCost, WithBaseline, WithResult

LEMMA UsageStates ==
  ASSUME NEW p \in Procs, mem[p] \in JobRecord
  PROVE  /\ WithUsage(p) \in JobRecord /\ WithUsage(p).state = mem[p].state
         /\ WithUsage(p).branch = mem[p].branch
BY DEF JobRecord, WithUsage

LEMMA StageStep ==
  ASSUME ~GitRaises, JobInv, NEW p \in Procs, Step(p) \/ Thread(p)
  PROVE  StageInv' /\ RowsGo
<1> DEFINE m == mem[p]
           row == db[target[p]]
           k == kind[p]
<1>0. /\ pc[p] # "idle" /\ m \in JobRecord /\ row \in JobRecord
      /\ ReviewCopy(p) /\ StageFits(k, pc[p], server, row, m) /\ Fits(k, row)
      /\ pc[p] # "created" => Fits(k, m)
      /\ Shows(k, pc[p], row, m)
      /\ row.branch => row.state \in Reviewed
  BY Outcome
  DEF JobInv, IInv, StaysInReview, StageInv, ApprovalInv, CopiesFit, ReviewInv, CopiesShow,
      BranchesReviewed
<1>s. pc[p] # "orphaned" => server = "serving"
  BY <1>0 DEF JobInv, IInv, TypeOK, ApprovalInv, RestartIsClean, StageFits
\* Before the review there is no branch.
<1>b. k \in {"plan", "implement"} => ~row.branch /\ (pc[p] # "created" => ~m.branch)
  BY <1>0 DEF Fits, Shows, NotYetReviewed
<1>w. k \in {"plan", "implement"} /\ pc[p] # "orphaned" =>
        row.state \in WorkingStates(k) /\ (pc[p] # "created" => m.state \in WorkingStates(k))
  BY <1>0 DEF StageFits
<1>r. k \in ReviewKinds => row.state \in Reviewed /\ (pc[p] # "created" => m.state \in Reviewed)
  BY <1>0 DEF StageFits
<1>c. k = "correct" => /\ pc[p] # "created" => InReview(m)
                       /\ server = "serving" => InReview(row)
  BY <1>0 DEF ReviewCopy, m, row, k
<1>d. \A rec : InReview(rec) => rec.state \in Reviewed
  BY DEF InReview, Reviewed
<1> HIDE DEF m, row, k
\* A planning or implementing runner is under way: StageEarly, for its row and copy.
<1>e. ASSUME k \in {"plan", "implement"}, pc[p] # "orphaned", NEW r, ~r.branch
      PROVE  /\ \A copy, at :
                  /\ Stays(p, r, copy, at) /\ at \notin {"created", "orphaned"}
                  /\ r.state \in WorkingStates(k) /\ copy.state \in WorkingStates(k)
                  => StageInv' /\ RowsGo
             /\ Ends(p, r) /\ r.state = FailureState(k) => StageInv' /\ RowsGo
             /\ Leaves(p, r) /\ k = "plan" /\ r.state = "PLAN_READY" => StageInv' /\ RowsGo
             /\ Leaves(p, r) /\ k = "implement" /\ r.state = "IMPLEMENTATION_READY" =>
                  StageInv' /\ RowsGo
  BY <1>0, <1>e, StageEarly DEF k
\* A correction is: it saves and keeps what is in review.
<1>v. ASSUME k = "correct", server = "serving", NEW r, InReview(r)
      PROVE  /\ Leaves(p, r) => StageInv' /\ RowsGo
             /\ \A copy, at : Stays(p, r, copy, at) /\ InReview(copy) => StageInv' /\ RowsGo
             /\ Ends(p, r) => StageInv' /\ RowsGo
  BY <1>0, <1>c, <1>d, <1>v, StageReview DEF k, row, ReviewKinds, Ends
<1>1. CASE GitOutcome(p)
  <2>1. k \in Requests /\ k \in ReviewKinds
    BY <1>1, AwaitFacts DEF JobInv, IInv, GitOutcome, AtItsAwait, TypeOK, Runners, Requests, k, ReviewKinds
  <2>2. /\ InReview(m) <=> InReview(row)
        /\ row.state \in Reviewed /\ m.state \in Reviewed /\ server = "serving"
    BY <1>0, <1>1, <1>r, <2>1 DEF ReviewCopy, m, row, k, GitOutcome
  <2>3. \A r \in {row, [m EXCEPT !.branch = TRUE], [m EXCEPT !.pushed = TRUE]} :
          r.state \in Reviewed /\ (InReview(r) <=> InReview(row))
    BY <1>0, <2>2 DEF InReview, JobRecord
  <2>4. \E r \in {row, [m EXCEPT !.branch = TRUE], [m EXCEPT !.pushed = TRUE]} : Leaves(p, r)
    BY <1>1 DEF GitOutcome, m, row
  <2> QED BY <1>0, <2>1, <2>2, <2>3, <2>4, StageReview DEF k, row
<1>2. CASE SlotOutcome(p)
  <2> DEFINE rec == CopyAtStart(p)
  <2>1. /\ rec \in JobRecord /\ pc[p] # "orphaned" /\ server = "serving" /\ k \in Runners
        /\ k \in {"plan", "implement"} => ~rec.branch /\ rec.state \in WorkingStates(k)
        /\ k = "correct" => InReview(rec) /\ InReview(row)
    BY <1>0, <1>2, <1>s, <1>b, <1>w, <1>c DEF SlotOutcome, CopyAtStart, m, row, k
  <2> HIDE DEF rec
  <2>2. CASE k = "plan"
    <3>1. \/ Stays(p, row, row, "waiting")
          \/ Stays(p, Advance(rec, "FETCHING_TICKET"), Advance(rec, "FETCHING_TICKET"), "fetch")
          \/ Ends(p, Fail(rec, "FAILED"))
      BY <1>2, <2>2 DEF SlotOutcome, rec, row, k
    <3>2. /\ Advance(rec, "FETCHING_TICKET").state = "FETCHING_TICKET"
          /\ ~Advance(rec, "FETCHING_TICKET").branch
          /\ Fail(rec, "FAILED").state = FailureState(k) /\ ~Fail(rec, "FAILED").branch
      BY <2>1, <2>2 DEF FailureState, Advance, Fail, JobRecord
    <3>3. "FETCHING_TICKET" \in WorkingStates(k)  BY <2>2 DEF WorkingStates, PlanStates
    <3> QED BY <1>b, <1>e, <1>w, <2>1, <2>2, <3>1, <3>2, <3>3
  <2>3. CASE k = "implement"
    <3>1. \/ Stays(p, row, row, "waiting") \/ Stays(p, row, rec, "baseline")
          \/ Stays(p, row, rec, "failing")
      BY <1>2, <2>3 DEF SlotOutcome, rec, row, k
    <3> QED BY <1>b, <1>e, <1>w, <2>1, <2>3, <3>1
  <2>4. CASE k = "correct"
    <3>1. \/ Stays(p, row, row, "waiting")
          \/ Stays(p, row, rec, "refused") \/ Stays(p, row, rec, "failing")
          \/ Stays(p, Started(rec), Started(rec), "failing")
          \/ Stays(p, Started(rec), Started(rec), "agent")
      BY <1>2, <2>4 DEF SlotOutcome, rec, row, k
    <3>2. InReview(Started(rec))  BY <2>1, <2>4, ReviewStates
    <3> QED BY <1>v, <2>1, <2>4, <3>1, <3>2
  <2> QED BY <2>1, <2>2, <2>3, <2>4 DEF Runners
<1>3. CASE PlanOutcome(p)
  <2>1. /\ k = "plan" /\ pc[p] \notin {"orphaned", "created"}
        /\ ~m.branch /\ m.state \in WorkingStates(k)
    BY <1>3, <1>b, <1>w DEF PlanOutcome, k
  <2>2. ASSUME NEW s \in PlanStates, NEW at \in {"clone", "map", "agent"},
               Stays(p, Advance(m, s), Advance(m, s), at)
        PROVE  StageInv' /\ RowsGo
    <3>1. Advance(m, s).state = s /\ ~Advance(m, s).branch /\ s \in WorkingStates(k)
      BY <1>0, <2>1 DEF WorkingStates, Advance, JobRecord
    <3> QED BY <1>e, <2>1, <2>2, <3>1
  <2>3. /\ Planned(m).state = "PLAN_READY" /\ ~Planned(m).branch
        /\ \A r \in {m, WithPlanCost(m)} :
             Fail(r, "FAILED").state = "FAILED" /\ ~Fail(r, "FAILED").branch
    <3>1. \A r \in {m, WithPlanCost(m)} : r \in JobRecord /\ ~r.branch
      BY <1>0, <2>1, EditStates
    <3>2. \A r \in {m, WithPlanCost(m)} :
            Fail(r, "FAILED").state = "FAILED" /\ Fail(r, "FAILED").branch = r.branch
      BY <3>1 DEF Fail, JobRecord
    <3> QED BY <1>0, <2>1, <3>1, <3>2, EditStates
  <2>4. Leaves(p, Fail(WithPlanCost(m), "FAILED")) => Ends(p, Fail(WithPlanCost(m), "FAILED"))
    BY DEF Ends
  <2>5. FailureState(k) = "FAILED"  BY <2>1 DEF FailureState
  <2> QED BY <1>3, <1>e, <2>1, <2>2, <2>3, <2>4, <2>5 DEF PlanOutcome, m
<1>4. CASE EditsOutcome(p)
  <2>0. WithUsage(p) \in JobRecord /\ WithUsage(p).state = m.state /\ WithUsage(p).branch = m.branch
    BY <1>0, UsageStates DEF m
  <2>1. pc[p] \notin {"orphaned", "created"} /\ server = "serving"
    BY <1>4, <1>s DEF EditsOutcome
  <2>2. CASE k = "implement"
    <3>1. /\ ~m.branch /\ m.state \in WorkingStates(k) /\ ~row.branch /\ row.state \in WorkingStates(k)
      BY <1>b, <1>w, <2>1, <2>2
    <3>2. \/ \E r \in {Advance(WithBaseline(m), "IMPLEMENTING"), WithUsage(p),
                       Advance(WithResult(m), "VALIDATING")},
                at \in {"agent", "diff", "validate"} : Stays(p, r, r, at)
          \/ \E c \in {WithUsage(p), m} : Stays(p, row, c, "failing")
      BY <1>4, <2>2 DEF EditsOutcome, m, row, k
    <3>3. {"IMPLEMENTING", "VALIDATING"} \subseteq WorkingStates(k)
      BY <2>2 DEF WorkingStates, ImplementationStates
    <3>4. \A r \in {WithBaseline(m), WithResult(m)} : r \in JobRecord /\ ~r.branch
      BY <1>0, <3>1, EditStates
    <3>5. \A r \in {WithBaseline(m), WithResult(m)}, s \in {"IMPLEMENTING", "VALIDATING"} :
            Advance(r, s).state \in WorkingStates(k) /\ ~Advance(r, s).branch
      BY <3>3, <3>4 DEF Advance, JobRecord
    <3>6. WithUsage(p).state \in WorkingStates(k) /\ ~WithUsage(p).branch
      BY <2>0, <3>1
    <3> QED BY <1>e, <2>0, <2>1, <2>2, <3>1, <3>2, <3>5, <3>6
  <2>3. CASE k = "correct"
    <3>1. InReview(m) /\ InReview(row)  BY <1>c, <2>1, <2>3
    <3>2. Advance(WithUsage(p), "REVALIDATING").state = "REVALIDATING"
      BY <2>0 DEF Advance, JobRecord
    <3>3. InReview(WithUsage(p)) /\ InReview(Advance(WithUsage(p), "REVALIDATING"))
      BY <2>0, <3>1, <3>2 DEF InReview, Review, CorrectionStates
    <3>4. \/ Stays(p, Advance(WithUsage(p), "REVALIDATING"), Advance(WithUsage(p), "REVALIDATING"),
                   "validate")
          \/ Stays(p, row, WithUsage(p), "failing") \/ Stays(p, row, m, "failing")
      BY <1>4, <2>3 DEF EditsOutcome, m, row, k
    <3> QED BY <1>v, <2>1, <2>3, <3>1, <3>3, <3>4
  <2>4. k \in {"implement", "correct"}  BY <1>4 DEF EditsOutcome, k
  <2> QED BY <2>2, <2>3, <2>4
<1>5. CASE EndOutcome(p)
  <2>1. /\ pc[p] \notin {"orphaned", "created"} /\ server = "serving" /\ k \in {"implement", "correct"}
    BY <1>5, <1>s DEF EndOutcome, k
  <2>2. CASE k = "implement"
    <3>1. ~m.branch  BY <1>b, <2>1, <2>2
    <3>2. \/ \E failures \in BOOLEAN : Leaves(p, ValidatedAs(m, k, failures))
          \/ Ends(p, Fail(m, "IMPLEMENTATION_FAILED"))
      BY <1>5, <2>2 DEF EndOutcome, m, k
    <3>3. /\ \A b : /\ ValidatedAs(m, k, b).state = "IMPLEMENTATION_READY"
                    /\ ~ValidatedAs(m, k, b).branch
          /\ Fail(m, "IMPLEMENTATION_FAILED").state = FailureState(k)
          /\ ~Fail(m, "IMPLEMENTATION_FAILED").branch
      BY <1>0, <2>2, <3>1, EditStates DEF FailureState, Fail, JobRecord
    <3> QED BY <1>e, <2>1, <2>2, <3>2, <3>3
  <2>3. CASE k = "correct"
    <3>1. \/ \E failures \in BOOLEAN : Leaves(p, ValidatedAs(m, k, failures))
          \/ Ends(p, RecordCorrectionFailure(m, pc[p] = "failing"))
      BY <1>5, <2>3 DEF EndOutcome, m, k
    <3>2. /\ \A b : InReview(ValidatedAs(m, k, b))
          /\ InReview(RecordCorrectionFailure(m, pc[p] = "failing"))
      BY <1>0, ReviewStates
    <3> QED BY <1>v, <2>1, <2>3, <3>1, <3>2
  <2> QED BY <2>1, <2>2, <2>3
<1>6. CASE ThreadOutcome(p)
  <2>1. /\ pc[p] \in {"agent", "failing", "orphaned"} /\ k \in Runners
        /\ \/ Stays(p, m, m, pc[p])
           \/ pc[p] = "orphaned" /\ Leaves(p, row)
           \/ pc[p] = "failing" /\ Stays(p, row, m, "failing")
    BY <1>6 DEF ThreadOutcome, m, row, k
  <2>2. CASE Leaves(p, row)
    <3>1. Goes(StageOf(row.state), StageOf(row.state))  BY DEF Goes
    <3> QED BY <1>0, <1>r, <2>2, <3>1, StageMoves DEF row, k
  <2>3. CASE k = "correct" /\ ~Leaves(p, row)
    <3>1. InReview(m)  BY <1>c, <2>1, <2>3
    <3>2. CASE server = "serving"
      BY <1>c, <1>v, <2>1, <2>3, <3>1, <3>2
    <3>3. CASE server # "serving"
      <4>1. pc[p] = "orphaned" /\ server = "stopping" /\ Stays(p, m, m, "orphaned")
        BY <1>0, <1>s, <2>1, <2>3, <3>3 DEF JobInv, IInv, TypeOK, ApprovalInv, RestartIsClean
      <4>2. StageFits(k, "orphaned", server, m, m) /\ m.state \in Reviewed
        BY <1>d, <2>3, <3>1 DEF StageFits, ReviewKinds
      <4> QED BY <1>0, <4>1, <4>2, StageMoves DEF k
    <3> QED BY <3>2, <3>3
  <2>4. CASE k \in {"plan", "implement"} /\ pc[p] # "orphaned"
    BY <1>b, <1>e, <1>w, <2>1, <2>4
  <2>5. CASE k \in {"plan", "implement"} /\ pc[p] = "orphaned" /\ ~Leaves(p, row)
    <3>1. Stays(p, m, m, "orphaned") /\ ~m.branch /\ k \notin ReviewKinds
      BY <1>b, <2>1, <2>5 DEF ReviewKinds
    <3>2. StageFits(k, "orphaned", server, m, m)
      BY <1>0, <2>5 DEF StageFits
    <3>3. server # "stopping" => Goes(StageOf(row.state), StageOf(m.state))
      BY <1>0, <2>5 DEF StageFits, Goes
    <3> QED BY <1>0, <3>1, <3>2, <3>3, StageMoves DEF k, row
  <2> QED BY <2>1, <2>2, <2>3, <2>4, <2>5 DEF Runners
<1> QED BY <1>1, <1>2, <1>3, <1>4, <1>5, <1>6, Outcome DEF JobInv, IInv

LEMMA StageRequest ==
  ASSUME JobInv, NEW p \in Procs, NEW j \in Jobs, Request(p, j)
  PROVE  StageInv' /\ RowsGo
<1>0. RequestOutcome(p, j) /\ db[j] \in JobRecord
  BY RequestMoves DEF JobInv, IInv, TypeOK
<1>1. ASSUME NEW k, NEW row, NEW copy, NEW at, Arrives(p, k, j, row, copy, at),
             StageFits(k, at, "serving", row, copy), row.branch => row.state \in Reviewed,
             Goes(StageOf(db[j].state), StageOf(row.state)),
             \/ \A q \in Procs : pc[q] # "idle" => target[q] # j
             \/ row = db[j]
             \/ db[j].state = "IMPLEMENTATION_READY" /\ row.state \in Reviewed
      PROVE  StageInv' /\ RowsGo
  <2>1. ASSUME NEW q \in Procs, pc'[q] # "idle"
        PROVE  StageFits(kind'[q], pc'[q], server', db'[target'[q]], mem'[q])
    <3>1. CASE q = p
      BY <1>1, <3>1 DEF Arrives
    <3>2. CASE q # p
      <4>1. /\ kind'[q] = kind[q] /\ target'[q] = target[q] /\ pc'[q] = pc[q] /\ mem'[q] = mem[q]
            /\ pc[q] # "idle" /\ server' = server
        BY <1>1, <2>1, <3>2 DEF Arrives
      <4>2. StageFits(kind[q], pc[q], server, db[target[q]], mem[q]) /\ target[q] \in Jobs
        BY <4>1, ActiveTarget DEF JobInv, IInv, StageInv
      <4>3. CASE target[q] # j \/ row = db[j]
        <5>1. db'[target[q]] = db[target[q]]  BY <1>1, <4>2, <4>3 DEF Arrives
        <5> QED BY <4>1, <4>2, <5>1
      <4>4. CASE target[q] = j /\ db[j].state = "IMPLEMENTATION_READY" /\ row.state \in Reviewed
        <5>1. kind[q] \notin {"plan", "implement"} /\ db'[target[q]] = row
          BY <1>1, <4>2, <4>4
          DEF Arrives, StageFits, WorkingStates, PlanStates, ImplementationStates, FailureState
        <5> QED BY <4>1, <4>2, <4>4, <5>1 DEF StageFits
      <4> QED BY <1>1, <4>1, <4>3, <4>4
    <3> QED BY <3>1, <3>2
  <2>2. BranchesReviewed'
    BY <1>1 DEF Arrives, JobInv, StageInv, BranchesReviewed
  <2>3. RowsGo
    BY <1>1 DEF Arrives, RowsGo, Goes
  <2> QED BY <2>1, <2>2, <2>3 DEF StageInv
<1>2. CASE db[j].state = "ABSENT" /\ Arrives(p, "plan", j, NewJob, NoRow, "created")
  <2>1. \A q \in Procs : pc[q] # "idle" => target[q] # j
    BY <1>2, Unattended DEF JobInv, IInv
  <2>2. NewJob.state = "QUEUED" /\ ~NewJob.branch  BY DEF NewJob, NoRow
  <2>3. StageFits("plan", "created", "serving", NewJob, NoRow)
    BY <2>2 DEF StageFits, WorkingStates, PlanStates, ReviewKinds
  <2>4. Goes(StageOf("ABSENT"), StageOf("QUEUED"))
    BY StagesOf DEF Goes, Stage!Moves, PlanStates
  <2> QED BY <1>1, <1>2, <2>1, <2>2, <2>3, <2>4
<1>3. CASE db[j].state = "PLAN_READY" /\ Arrives(p, "implement", j, Approved(db[j]), NoRow, "created")
  <2>1. \A q \in Procs : pc[q] # "idle" => target[q] # j
    BY <1>3, Unattended DEF JobInv, IInv
  <2>2. ~db[j].branch
    BY <1>3 DEF JobInv, IInv, ApprovalInv, NotYetImplemented, BeforeApproval
  <2>3. Approved(db[j]).state = "IMPLEMENTATION_QUEUED" /\ ~Approved(db[j]).branch
    BY <1>0, <2>2 DEF Approved, JobRecord
  <2>4. StageFits("implement", "created", "serving", Approved(db[j]), NoRow)
    BY <2>3 DEF StageFits, WorkingStates, ImplementationStates, ReviewKinds
  <2>5. Goes(StageOf("PLAN_READY"), StageOf("IMPLEMENTATION_QUEUED"))
    BY StagesOf DEF Goes, Stage!Moves, ImplementationStates
  <2> QED BY <1>1, <1>3, <2>1, <2>3, <2>4, <2>5
<1>4. CASE /\ db[j].state = "IMPLEMENTATION_READY"
           /\ Arrives(p, "correct", j, CorrectionRequested(db[j]), NoRow, "created")
  <2>1. CorrectionRequested(db[j]).state = "CORRECTING"
    BY <1>0 DEF CorrectionRequested, JobRecord
  <2>2. "CORRECTING" \in Reviewed /\ "CORRECTING" \in Review /\ "IMPLEMENTATION_READY" \in Review
    BY DEF Reviewed, Review, CorrectionStates
  <2>3. StageFits("correct", "created", "serving", CorrectionRequested(db[j]), NoRow)
    BY <2>1, <2>2 DEF StageFits
  <2>4. Goes(StageOf("IMPLEMENTATION_READY"), StageOf("CORRECTING"))
    BY <2>2, GoesFacts DEF Reviewed
  <2> QED BY <1>1, <1>4, <2>1, <2>2, <2>3, <2>4
<1>5. ASSUME NEW k \in Requests, Arrives(p, k, j, db[j], db[j], "git"),
             db[j].branch \/ db[j].state = "IMPLEMENTATION_READY"
      PROVE  StageInv' /\ RowsGo
  <2>1. db[j].state \in Reviewed /\ k \notin {"plan", "implement"}
    BY <1>5 DEF JobInv, StageInv, BranchesReviewed, Reviewed, Review, Requests
  <2>2. StageFits(k, "git", "serving", db[j], db[j])  BY <2>1 DEF StageFits
  <2>3. Goes(StageOf(db[j].state), StageOf(db[j].state))  BY DEF Goes
  <2> QED BY <1>1, <1>5, <2>1, <2>2, <2>3
<1> QED BY <1>0, <1>2, <1>3, <1>4, <1>5 DEF RequestOutcome, Requests

LEMMA RecoveredStage ==
  ASSUME NEW rec \in JobRecord, Unfinished(rec)
  PROVE  /\ Goes(StageOf(rec.state), StageOf(Recovered(rec).state))
         /\ rec.state \in Reviewed => Recovered(rec).state \in Reviewed
         /\ Recovered(rec).branch = rec.branch
<1>1. CASE rec.state \in CorrectionStates
  <2>1. Recovered(rec) = RecordCorrectionFailure(rec, rec.fixStarted)
    BY <1>1 DEF Recovered, CorrectionStates, ImplementationStates
  <2>2. /\ Recovered(rec).state = "IMPLEMENTATION_READY" /\ Recovered(rec).branch = rec.branch
    BY <2>1 DEF RecordCorrectionFailure, JobRecord
  <2> QED BY <1>1, <2>2, GoesFacts, StagesOf DEF Reviewed, Review
<1>2. CASE rec.state \in ImplementationStates
  <2>1. /\ Recovered(rec).state = "IMPLEMENTATION_FAILED" /\ Recovered(rec).branch = rec.branch
    BY <1>2 DEF Recovered, Fail, JobRecord, ImplementationStates, CorrectionStates
  <2> QED BY <1>2, <2>1, GoesFacts DEF Reviewed, WorkingStates
<1>3. CASE rec.state \in PlanStates
  <2>1. /\ Recovered(rec).state = "FAILED" /\ Recovered(rec).branch = rec.branch
    BY <1>3 DEF Recovered, Fail, JobRecord, PlanStates, ImplementationStates, CorrectionStates
  <2>2. rec.state \notin Reviewed
    BY <1>3 DEF Reviewed, Review, PlanStates, CorrectionStates
  <2> QED BY <1>3, <2>1, <2>2, GoesFacts DEF WorkingStates
<1> QED BY <1>1, <1>2, <1>3 DEF Unfinished, JobRecord, JobStates

LEMMA StageServer ==
  ASSUME JobInv, ApprovalInv', Crash \/ Shutdown \/ Recovery
  PROVE  StageInv' /\ RowsGo
<1>0. \A j \in Jobs : db[j] \in JobRecord /\ (db[j].branch => db[j].state \in Reviewed)
  BY DEF JobInv, IInv, TypeOK, StageInv, BranchesReviewed
<1>1. CASE Dies
  BY <1>0, <1>1 DEF Dies, StageInv, BranchesReviewed, RowsGo, Goes
<1>2. CASE Recovers
  <2>1. unfinished \subseteq Jobs  BY DEF JobInv, IInv, TypeOK
  <2>2. \A j \in Jobs : /\ Goes(StageOf(db[j].state), StageOf(db'[j].state))
                        /\ db'[j].branch => db'[j].state \in Reviewed
    BY <1>0, <1>2, <2>1, RecoveredStage DEF Recovers, Goes
  <2> QED BY <1>2, <2>2 DEF Recovers, StageInv, BranchesReviewed, RowsGo
<1>3. CASE Shutdown
  <2>1. Halts  BY <1>3, ShutdownMoves DEF JobInv, IInv, ApprovalInv
  <2>2. ASSUME NEW j \in Jobs
        PROVE  /\ db'[j].branch = db[j].branch
               /\ IsTerminal(db[j]) => db'[j] = db[j]
               /\ db'[j].state \in {db[j].state, "FAILED", "IMPLEMENTATION_FAILED"}
               /\ db[j].state \in Reviewed => db'[j].state \in Reviewed
    <3>1. \/ db'[j] = db[j]
          \/ db'[j] = Settled(db[j], "IMPLEMENTATION_FAILED")
          \/ db[j].state \notin AfterApproval /\ db'[j] = Settled(db[j], "FAILED")
      BY <2>1, <2>2 DEF Halts
    <3>2. \A s \in {"FAILED", "IMPLEMENTATION_FAILED"} :
            /\ Settled(db[j], s).state \in {db[j].state, s}
            /\ Settled(db[j], s).branch = db[j].branch
            /\ IsTerminal(db[j]) => Settled(db[j], s) = db[j]
      BY <1>0, <2>2 DEF Settled, Fail, JobRecord
    <3>3. db[j].state \in Reviewed => db[j].state \in AfterApproval
      BY Sides DEF Reviewed, Review
    <3> QED BY <3>1, <3>2, <3>3 DEF Reviewed
  <2>3. ASSUME NEW p \in Procs, pc'[p] # "idle"
        PROVE  StageFits(kind'[p], pc'[p], server', db'[target'[p]], mem'[p])
    <3>1. /\ p \in threads /\ kind[p] \in Runners /\ pc[p] \in {"agent", "failing", "orphaned"}
          /\ kind'[p] = kind[p] /\ target'[p] = target[p] /\ mem'[p] = mem[p]
          /\ pc'[p] = "orphaned" /\ server' = "stopping" /\ server = "serving"
          /\ target[p] \in Jobs
      BY <2>1, <2>3 DEF Halts
    <3>2. StageFits(kind[p], pc[p], server, db[target[p]], mem[p])
      BY <3>1 DEF JobInv, StageInv
    <3>3. Fits(kind[p], db'[target[p]])
      BY <3>1 DEF ApprovalInv, CopiesFit
    <3>4. CASE kind[p] \in ReviewKinds
      BY <2>2, <3>1, <3>2, <3>4 DEF StageFits, ReviewKinds
    <3>5. CASE kind[p] \in {"plan", "implement"} /\ pc[p] = "orphaned"
      <4>1. /\ db[target[p]].state = FailureState(kind[p])
            /\ mem[p].state = FailureState(kind[p])
        BY <3>1, <3>2, <3>5 DEF StageFits
      <4>2. IsTerminal(db[target[p]])
        BY <4>1 DEF IsTerminal, TerminalStates, FailureState
      <4> QED BY <2>2, <3>1, <3>5, <4>1, <4>2 DEF StageFits, ReviewKinds
    <3>6. CASE kind[p] \in {"plan", "implement"} /\ pc[p] # "orphaned"
      <4>1. db[target[p]].state \in WorkingStates(kind[p]) /\ mem[p].state \in WorkingStates(kind[p])
        BY <3>1, <3>2, <3>6 DEF StageFits
      <4>2. db'[target[p]].state \in WorkingStates(kind[p]) \cup {FailureState(kind[p])}
        <5>1. CASE kind[p] = "plan"
          BY <3>3, <5>1 DEF Fits, WorkingStates, FailureState
        <5>2. CASE kind[p] = "implement"
          <6>1. db'[target[p]].state \in AfterApproval  BY <3>3, <5>2 DEF Fits
          <6>2. db'[target[p]].state # "FAILED"  BY <6>1 DEF AfterApproval, BeforeApproval
          <6> QED BY <2>2, <3>1, <4>1, <5>2, <6>2 DEF FailureState
        <5> QED BY <3>6, <5>1, <5>2
      <4> QED BY <3>1, <3>6, <4>1, <4>2 DEF StageFits, ReviewKinds
    <3> QED BY <3>1, <3>4, <3>5, <3>6 DEF Runners, ReviewKinds
  <2>4. BranchesReviewed'
    BY <1>0, <2>2 DEF BranchesReviewed
  <2> QED BY <2>1, <2>3, <2>4 DEF Halts, StageInv, RowsGo
<1> QED BY <1>1, <1>2, <1>3, ServerMoves DEF JobInv, IInv, ApprovalInv

LEMMA JobNext == ~GitRaises /\ JobInv /\ [Next]_vars => JobInv' /\ RowsGo
<1> SUFFICES ASSUME ~GitRaises, JobInv, [Next]_vars PROVE JobInv' /\ RowsGo
  OBVIOUS
<1>1. IInv' /\ ReviewInv' /\ StaysInReview' /\ ApprovalInv'
  BY InvNext, ReviewNext, KeepNext DEF JobInv, IInv
<1>2. ASSUME UNCHANGED vars PROVE StageInv' /\ RowsGo
  <2>1. UNCHANGED <<db, kind, target, pc, mem, server>>
    BY <1>2 DEF vars, loopVars, serverVars
  <2>2. StageInv'  BY <2>1 DEF JobInv, StageInv, BranchesReviewed
  <2>3. RowsGo  BY <2>1 DEF RowsGo, Goes
  <2> QED BY <2>2, <2>3
<1>3. ASSUME NEW p \in Procs, NEW j \in Jobs, Request(p, j) PROVE StageInv' /\ RowsGo
  BY <1>3, StageRequest
<1>4. ASSUME NEW p \in Procs, Step(p) \/ Thread(p) PROVE StageInv' /\ RowsGo
  BY <1>4, StageStep
<1>5. ASSUME Crash \/ Shutdown \/ Recovery PROVE StageInv' /\ RowsGo
  BY <1>1, <1>5, StageServer
<1>6. StageInv' /\ RowsGo
  BY <1>2, <1>3, <1>4, <1>5 DEF Next
<1> QED BY <1>1, <1>6 DEF JobInv

\* What a lingering agent of a coroutine of this kind says of its job.
LingerStage(k) ==
  CASE k = "plan" -> "planning"
    [] k = "implement" -> "implementing"
    [] OTHER -> "correcting"

\* What stageOfJob is: the stage of the row, and while agents linger, who they are.
StageShown ==
  \A j \in Jobs :
    /\ server # "stopping" \/ Lingering(j) = {} => stageOfJob[j] = StageOf(db[j].state)
    /\ server = "stopping" =>
         \A p \in Lingering(j) :
           /\ stageOfJob[j] = LingerStage(kind[p])
           /\ Goes(LingerStage(kind[p]), StageOf(db[j].state))

LEMMA Shown == JobInv => StageShown
<1> SUFFICES ASSUME JobInv, NEW j \in Jobs
             PROVE  /\ server # "stopping" \/ Lingering(j) = {} => stageOfJob[j] = StageOf(db[j].state)
                    /\ server = "stopping" =>
                         \A p \in Lingering(j) :
                           /\ stageOfJob[j] = LingerStage(kind[p])
                           /\ Goes(LingerStage(kind[p]), StageOf(db[j].state))
  BY DEF StageShown
<1> DEFINE copies == {StageOf(mem[q].state) : q \in Lingering(j)}
<1>0. stageOfJob[j] = IF server # "stopping" \/ copies = {} THEN StageOf(db[j].state)
                      ELSE IF "planning" \in copies THEN "planning"
                      ELSE IF "implementing" \in copies THEN "implementing" ELSE "correcting"
  BY DEF stageOfJob
<1>1. copies = {} <=> Lingering(j) = {}
  OBVIOUS
<1>2. ASSUME server = "stopping", NEW p \in Lingering(j)
      PROVE  /\ stageOfJob[j] = LingerStage(kind[p])
             /\ Goes(LingerStage(kind[p]), StageOf(db[j].state))
  <2>1. ASSUME NEW q \in Lingering(j)
        PROVE  /\ q \in Procs /\ target[q] = j /\ pc[q] = "orphaned" /\ kind[q] \in Runners
               /\ kind[q] \in {"plan", "implement"} =>
                    /\ mem[q].state \in WorkingStates(kind[q])
                    /\ db[j].state \in WorkingStates(kind[q]) \cup {FailureState(kind[q])}
               /\ kind[q] = "correct" => mem[q].state \in Review /\ db[j].state \in Reviewed
    <3>1. /\ q \in Procs /\ target[q] = j /\ pc[q] # "idle"
          /\ mem[q].state \notin {"FAILED", "IMPLEMENTATION_FAILED"}
      BY <2>1 DEF Lingering, JobInv, IInv, TypeOK, ThreadsOwned
    <3>2. StageFits(kind[q], pc[q], server, db[j], mem[q]) /\ ReviewCopy(q)
      BY <3>1 DEF JobInv, StageInv, StaysInReview
    <3>3. pc[q] = "orphaned"  BY <1>2, <3>2 DEF StageFits
    <3>4. kind[q] \in Runners
      BY <3>1, <3>3, AwaitFacts DEF JobInv, IInv, AtItsAwait, TypeOK, Runners, Requests
    <3> QED BY <3>1, <3>2, <3>3, <3>4 DEF StageFits, FailureState, ReviewCopy, InReview, ReviewKinds
  <2>2. ASSUME NEW q \in Lingering(j)
        PROVE  StageOf(mem[q].state) = "planning" <=> kind[q] = "plan"
    <3>1. kind[q] = "plan" => StageOf(mem[q].state) = "planning"
      BY <2>1, StagesOf DEF WorkingStates
    <3>2. kind[q] = "implement" => StageOf(mem[q].state) = "implementing"
      BY <2>1, StagesOf DEF WorkingStates
    <3>3. kind[q] = "correct" => StageOf(mem[q].state) \in {"correcting", "review"}
      BY <2>1, StagesOf DEF Review
    <3> QED BY <2>1, <3>1, <3>2, <3>3 DEF Runners
  <2>3. ASSUME NEW q \in Lingering(j)
        PROVE  StageOf(mem[q].state) = "implementing" <=> kind[q] = "implement"
    <3>1. kind[q] = "plan" => StageOf(mem[q].state) = "planning"
      BY <2>1, StagesOf DEF WorkingStates
    <3>2. kind[q] = "implement" => StageOf(mem[q].state) = "implementing"
      BY <2>1, StagesOf DEF WorkingStates
    <3>3. kind[q] = "correct" => StageOf(mem[q].state) \in {"correcting", "review"}
      BY <2>1, StagesOf DEF Review
    <3> QED BY <2>1, <3>1, <3>2, <3>3 DEF Runners
  <2>4. \A q \in Lingering(j) : q # p => kind[p] = "correct" /\ kind[q] = "correct"
    BY <2>1, Company DEF JobInv, IInv, ReviewInv, ReviewKinds, Runners
  <2>5. /\ "planning" \in copies <=> kind[p] = "plan"
        /\ "implementing" \in copies <=> kind[p] = "implement"
    BY <2>2, <2>3, <2>4
  <2>6. stageOfJob[j] = LingerStage(kind[p])
    BY <1>0, <1>1, <1>2, <2>5 DEF LingerStage
  <2>7. Goes(LingerStage(kind[p]), StageOf(db[j].state))
    <3>1. CASE kind[p] = "plan"
      BY <2>1, <3>1, StagesOf DEF WorkingStates, FailureState, LingerStage, Goes, Stage!Moves
    <3>2. CASE kind[p] = "implement"
      BY <2>1, <3>2, StagesOf DEF WorkingStates, FailureState, LingerStage, Goes, Stage!Moves
    <3>3. CASE kind[p] = "correct"
      BY <2>1, <3>3, StagesOf DEF Reviewed, Review, LingerStage, Goes, Stage!Moves
    <3> QED BY <2>1, <3>1, <3>2, <3>3 DEF Runners
  <2> QED BY <2>6, <2>7
<1> QED BY <1>0, <1>1, <1>2

\* Who may move while the process stops, and how it comes to that.
LEMMA StoppingMoves ==
  ASSUME JobInv, [Next]_vars
  PROVE  \/ server # "stopping" /\ server' # "stopping"
         \/ Shutdown
         \/ server = "stopping" /\ Dies
         \/ \E p \in Procs : pc[p] = "orphaned" /\ (Report(p) \/ OrphanEnds(p))
         \/ UNCHANGED vars
<1>1. ASSUME NEW p \in Procs, NEW j \in Jobs, Request(p, j)
      PROVE  server # "stopping" /\ server' # "stopping"
  BY <1>1, ServerRests DEF JobInv
<1>2. ASSUME NEW p \in Procs, Step(p) \/ Thread(p), server = "stopping"
      PROVE  pc[p] = "orphaned" /\ (Report(p) \/ OrphanEnds(p))
  <2>1. pc[p] # "idle"  BY <1>2, Outcome DEF JobInv, IInv
  <2>2. pc[p] = "orphaned"  BY <1>2, <2>1 DEF JobInv, StageInv, StageFits
  <2>3. ~Step(p)
    BY <2>2, AwaitFacts
    DEF Step, GitDone, GitFailed, RunnerStart, RunnerQueues, RunnerWoken, PlanStageDone,
        PlanStageFailed, PlanReturned, PlanFailedWithUsage, PlanFailedNoUsage,
        ImplementationStarted, EditsReturned, EditsFailedWithUsage, EditsFailedNoUsage,
        DiffCollected, StepFailed, Validated, FailureRecorded, RefreshRaised
  <2> QED BY <1>2, <2>2, <2>3 DEF Thread
<1>3. ASSUME NEW p \in Procs, Step(p) \/ Thread(p)
      PROVE  server' = server
  BY <1>3, ServerRests DEF JobInv
<1>4. CASE Crash \/ Recovery
  <2>1. Dies \/ Recovers  BY <1>4, ServerMoves DEF JobInv, IInv, ApprovalInv
  <2> QED BY <2>1 DEF Dies, Recovers
<1> QED BY <1>1, <1>2, <1>3, <1>4 DEF Next

LEMMA StagesGo ==
  ASSUME JobInv, StageShown, StageShown', RowsGo, [Next]_vars, NEW j \in Jobs
  PROVE  Goes(stageOfJob[j], stageOfJob'[j])
<1>1. \A s : Goes(s, s)  BY DEF Goes
<1>2. CASE server # "stopping" /\ server' # "stopping"
  BY <1>2 DEF StageShown, RowsGo
<1>3. CASE Shutdown
  <2>1. /\ Halts /\ server = "serving" /\ server' = "stopping" /\ db[j] \in JobRecord
        /\ stageOfJob[j] = StageOf(db[j].state)
    BY <1>3, ShutdownMoves DEF JobInv, IInv, ApprovalInv, TypeOK, Shutdown, StageShown
  <2>2. ASSUME NEW p \in Lingering(j)' PROVE Goes(stageOfJob[j], stageOfJob'[j])
    <3>1. /\ p \in Procs /\ p \in threads /\ target[p] = j /\ kind[p] \in Runners
          /\ pc[p] \in {"agent", "failing", "orphaned"} /\ kind'[p] = kind[p]
          /\ mem[p].state \notin {"FAILED", "IMPLEMENTATION_FAILED"}
      BY <2>1, <2>2 DEF Halts, Lingering, JobInv, IInv, TypeOK
    <3>2. StageFits(kind[p], pc[p], server, db[j], mem[p]) /\ ReviewCopy(p)
      BY <3>1 DEF JobInv, StageInv, StaysInReview
    <3>3. stageOfJob'[j] = LingerStage(kind[p])
      BY <2>1, <2>2, <3>1 DEF StageShown
    <3>4. CASE kind[p] \in {"plan", "implement"}
      <4>1. db[j].state \in WorkingStates(kind[p])
        BY <2>1, <3>1, <3>2, <3>4 DEF StageFits, FailureState
      <4>2. StageOf(db[j].state) = LingerStage(kind[p])
        BY <3>4, <4>1, StagesOf DEF WorkingStates, LingerStage
      <4> QED BY <1>1, <2>1, <3>3, <4>2
    <3>5. CASE kind[p] = "correct"
      <4>1. db[j].state \in Review  BY <2>1, <3>1, <3>2, <3>5 DEF ReviewCopy, InReview
      <4> QED BY <2>1, <3>3, <3>5, <4>1, StagesOf DEF Review, LingerStage, Goes, Stage!Moves
    <3> QED BY <3>1, <3>4, <3>5 DEF Runners
  <2>3. CASE Lingering(j)' = {}
    <3>1. stageOfJob'[j] = StageOf(db'[j].state)  BY <2>3 DEF StageShown
    <3>2. CASE db'[j] = db[j]
      BY <1>1, <2>1, <3>1, <3>2
    <3>3. CASE db'[j] # db[j]
      <4>1. PICK p \in Procs : target[p] = j /\ pc[p] # "idle"
        <5>1. Cancellable(j) # {}  BY <1>3, <3>3 DEF Shutdown
        <5> QED BY <5>1 DEF Cancellable, Runners, JobInv, IInv, TypeOK
      <4>2. Fits(kind[p], db[j])  BY <4>1 DEF JobInv, IInv, ApprovalInv, CopiesFit
      <4>3. db[j].state # "ABSENT" /\ ~IsTerminal(db[j])
        BY <1>3, <3>3, <4>2
        DEF Shutdown, Settled, Fits, AfterApproval, BeforeApproval, JobStates, PlanStates,
            ImplementationStates, CorrectionStates, TerminalStates
      <4>4. db'[j].state \in {"FAILED", "IMPLEMENTATION_FAILED"}
        BY <1>3, <2>1, <3>3 DEF Shutdown, Settled, Fail, JobRecord
      <4>5. db[j].state \in PlanStates \cup ImplementationStates \cup CorrectionStates
        BY <2>1, <4>3 DEF JobRecord, JobStates, IsTerminal
      <4> QED BY <2>1, <3>1, <4>4, <4>5, StagesOf DEF Goes, Stage!Moves
    <3> QED BY <3>2, <3>3
  <2> QED BY <2>2, <2>3
<1>4. CASE server = "stopping" /\ Dies
  <2>1. stageOfJob'[j] = StageOf(db[j].state)  BY <1>4 DEF Dies, StageShown
  <2> QED BY <1>1, <1>4, <2>1 DEF StageShown
<1>5. ASSUME NEW p \in Procs, server = "stopping", pc[p] = "orphaned", Report(p)
      PROVE  Goes(stageOfJob[j], stageOfJob'[j])
  <2>1. /\ server' = "stopping" /\ Lingering(j)' = Lingering(j) /\ kind' = kind
    BY <1>5 DEF Report, Lingering, loopVars, serverVars
  <2>2. CASE Lingering(j) # {}
    BY <1>1, <1>5, <2>1, <2>2 DEF StageShown
  <2>3. CASE Lingering(j) = {}
    <3>1. stageOfJob[j] = StageOf(db[j].state) /\ stageOfJob'[j] = StageOf(db'[j].state)
      BY <2>1, <2>3 DEF StageShown
    <3>2. target[p] \in Jobs /\ kind[p] \in Runners
      BY <1>5, ActiveTarget, AwaitFacts DEF JobInv, IInv, AtItsAwait, TypeOK, Runners, Requests
    <3>3. db' = [db EXCEPT ![target[p]] = mem[p]]  BY <1>5 DEF Report, Save
    <3>4. CASE j # target[p]
      BY <1>1, <3>1, <3>2, <3>3, <3>4 DEF JobInv, IInv, TypeOK
    <3>5. CASE j = target[p]
      <4>1. mem[p].state \in {"FAILED", "IMPLEMENTATION_FAILED"}
        BY <1>5, <2>3, <3>5 DEF Lingering, Report
      <4>2. StageFits(kind[p], "orphaned", server, db[j], mem[p]) /\ ReviewCopy(p)
        BY <1>5, <3>5 DEF JobInv, StageInv, StaysInReview
      <4>3. kind[p] # "correct"
        BY <1>5, <4>1, <4>2 DEF ReviewCopy, InReview, Review, CorrectionStates
      <4>4. mem[p].state \notin WorkingStates(kind[p])
        BY <4>1 DEF WorkingStates, PlanStates, ImplementationStates
      <4>5. db[j].state = mem[p].state
        BY <3>2, <4>2, <4>3, <4>4 DEF StageFits, Runners
      <4>6. db'[j] = mem[p]  BY <3>3, <3>5 DEF JobInv, IInv, TypeOK
      <4> QED BY <1>1, <3>1, <4>5, <4>6
    <3> QED BY <3>4, <3>5
  <2> QED BY <2>2, <2>3
<1>6. ASSUME NEW p \in Procs, server = "stopping", pc[p] = "orphaned", OrphanEnds(p)
      PROVE  Goes(stageOfJob[j], stageOfJob'[j])
  <2>1. /\ server' = "stopping" /\ db' = db /\ threads' = threads \ {p}
        /\ \A q \in Procs : q # p => kind'[q] = kind[q] /\ target'[q] = target[q] /\ mem'[q] = mem[q]
    BY <1>6 DEF OrphanEnds, GoIdle, serverVars, JobInv, IInv, TypeOK
  <2>2. \A q \in Lingering(j)' : q \in Lingering(j) /\ kind'[q] = kind[q]
    BY <2>1 DEF Lingering, JobInv, IInv, TypeOK
  <2>3. CASE Lingering(j)' = {}
    <3>1. stageOfJob'[j] = StageOf(db[j].state)  BY <2>1, <2>3 DEF StageShown
    <3> QED BY <1>1, <1>6, <3>1 DEF StageShown
  <2>4. ASSUME NEW q \in Lingering(j)' PROVE Goes(stageOfJob[j], stageOfJob'[j])
    BY <1>1, <1>6, <2>1, <2>2, <2>4 DEF StageShown
  <2> QED BY <2>3, <2>4
<1>7. CASE UNCHANGED vars
  <2>1. stageOfJob' = stageOfJob
    BY <1>7 DEF vars, loopVars, serverVars, stageOfJob, Lingering
  <2> QED BY <1>1, <2>1
<1> QED BY <1>2, <1>3, <1>4, <1>5, <1>6, <1>7, StoppingMoves DEF Report, OrphanEnds, serverVars

\* The runners, their stale copies, late reports, stops and the recovery pass together move
\* every job only along the diagram of jobs/models.py: JobLifecycle implements JobStages.
THEOREM ImplementsStages == ASSUME ~GitRaises PROVE Spec => FollowsStages
<1>1. Init => JobInv
  <2>1. Init => StageInv
    BY DEF Init, NoRow, StageInv, BranchesReviewed
  <2>2. Init => StaysInReview
    BY DEF Init, StaysInReview
  <2> QED BY <2>1, <2>2, InvInit, ReviewInit DEF JobInv
<1>2. JobInv /\ [Next]_vars => JobInv' /\ RowsGo
  BY JobNext
<1>3. Init => Stage!Init
  BY StagesOf DEF Init, NoRow, Stage!Init, stageOfJob
<1>4. JobInv => stageOfJob \in [Jobs -> Stage!Stages]
  <2> SUFFICES ASSUME JobInv, NEW j \in Jobs PROVE stageOfJob[j] \in Stage!Stages
    BY DEF stageOfJob
  <2>1. StageOf(db[j].state) \in Stage!Stages
    BY DEF StageOf, Stage!Stages
  <2> QED BY <2>1 DEF stageOfJob, Stage!Stages
<1>5. JobInv /\ JobInv' /\ StageShown /\ StageShown' /\ RowsGo /\ [Next]_vars
        /\ (stageOfJob \in [Jobs -> Stage!Stages])' => [Stage!Next]_stageOfJob
  BY StagesGo DEF Stage!Next, Goes
<1> QED BY <1>1, <1>2, <1>3, <1>4, <1>5, Shown, PTL DEF Spec, FollowsStages, Stage!Spec

=============================================================================
