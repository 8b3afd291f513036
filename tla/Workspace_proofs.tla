-------------------------- MODULE Workspace_proofs --------------------------
(***************************************************************************)
(* What the requests and the sweep keep true of a workspace, for any       *)
(* number of requests, names and crashes: a recorded push happened, a      *)
(* removed job stays at rest, only expired jobs are marked, and the edits  *)
(* of an implementation are not lost before they are deleted.              *)
(***************************************************************************)
EXTENDS Workspace, TLAPS

CreateSteps == {"checkout", "add", "commit", "rev-parse", "created"}
PushSteps == {"ls-remote", "push", "pushed"}

\* HEAD names a branch that has a commit.
HeadExists == on # None => refs[on] # None

\* A branch has a commit, and a branch that was pushed has landed.
RowFits(rec) ==
  /\ rec.branch # None => rec.sha # None
  /\ rec.pushed => <<rec.branch, rec.sha>> \in landed

\* What a request knows at each of its steps.
RequestFits(q) ==
  /\ RowFits(q.copy) /\ ~q.copy.removed
  /\ q.pc \in CreateSteps => q.name # None /\ ~q.copy.pushed
  /\ q.pc = "created" => q.sha # None
  /\ q.pc \in PushSteps => q.name # None /\ q.copy.branch # None
  /\ q.pc = "pushed" => <<q.name, q.copy.sha>> \in landed

RequestsFit == \A r \in Requests : RequestFits(req[r])

\* What the sweep knows of the row it listed.
SweepFits ==
  /\ sweep.pc = "listed" /\ sweep.expired /\ sweep.current => row.aged
  /\ server = "down" => sweep.pc = "idle"

Inv ==
  /\ TypeOK
  /\ HeadExists
  /\ RowFits(row) /\ RequestsFit
  /\ SweepFits
  /\ RemovedStaysAtRest

-----------------------------------------------------------------------------
(* What the building blocks of the actions do.                             *)

LEMMA Constants ==
  /\ None \notin Names /\ None \notin CommitIds /\ None # "foreign"
  /\ Planned \in Row /\ NotMade \in Request /\ Ended \in Request /\ Resting \in Sweep
BY NoneAssumption, CommitsAssumption
DEF CommitIds, Planned, NotMade, Ended, Resting, Row, Request, Sweep, AtRest, Contents, RequestPCs

\* A save writes the copy with a new timestamp and makes the sweep's list outdated.
LEMMA SaveEffect ==
  ASSUME TypeOK, NEW rec \in Row, Save(rec)
  PROVE  /\ row' \in Row /\ sweep' \in Sweep
         /\ row'.state = rec.state /\ row'.branch = rec.branch /\ row'.sha = rec.sha
         /\ row'.diff = rec.diff
         /\ row'.pushed = rec.pushed /\ row'.removed = rec.removed
         /\ sweep'.pc = sweep.pc /\ ~sweep'.current
BY DEF TypeOK, Save, Row, Sweep

\* A step of a request changes no other request.
LEMMA RequestEffect ==
  ASSUME TypeOK, NEW r \in Requests, NEW q \in Request, req' = [req EXCEPT ![r] = q]
  PROVE  /\ req' \in [Requests -> Request]
         /\ req'[r] = q
         /\ \A s \in Requests \ {r} : req'[s] = req[s]
BY DEF TypeOK

LEMMA GotoEffect ==
  ASSUME TypeOK, NEW r \in Requests, NEW pc \in RequestPCs, Goto(r, pc)
  PROVE  /\ req' \in [Requests -> Request]
         /\ req'[r] = [req[r] EXCEPT !.pc = pc]
         /\ \A s \in Requests \ {r} : req'[s] = req[s]
<1>1. [req[r] EXCEPT !.pc = pc] \in Request /\ req' = [req EXCEPT ![r] = [req[r] EXCEPT !.pc = pc]]
  BY DEF TypeOK, Goto, Request
<1> QED BY <1>1, RequestEffect

LEMMA BeginEffect ==
  ASSUME TypeOK, NEW r \in Requests, NEW op \in {"implement", "correct", "create", "push"},
         NEW pc \in RequestPCs, NEW name \in Names \cup {None}, Begin(r, op, pc, name)
  PROVE  /\ req' \in [Requests -> Request]
         /\ req'[r] = [op |-> op, pc |-> pc, copy |-> row, name |-> name, sha |-> None]
         /\ \A s \in Requests \ {r} : req'[s] = req[s]
         /\ ~row.removed
         /\ UNCHANGED <<row, dir, gitVars, remoteVars, sweep, serverVars>>
<1>1. [op |-> op, pc |-> pc, copy |-> row, name |-> name, sha |-> None] \in Request
  BY DEF TypeOK, Request
<1> QED BY <1>1, RequestEffect DEF Begin, HasWorkspace

LEMMA EndEffect ==
  ASSUME TypeOK, NEW r \in Requests, End(r)
  PROVE  /\ req' \in [Requests -> Request]
         /\ req'[r] = Ended
         /\ \A s \in Requests \ {r} : req'[s] = req[s]
BY Constants, RequestEffect DEF End

LEMMA CommitTypes ==
  ASSUME TypeOK, NEW c \in CommitIds
  PROVE  Content(c) \in Contents /\ Past(c) \in SUBSET CommitIds
BY DEF TypeOK, Content, Past, CommitIds, Commit, Contents

LEMMA HeadType ==
  ASSUME TypeOK, HeadExists
  PROVE  Head \in CommitIds
BY DEF TypeOK, HeadExists, Head, CommitIds

\* The row becomes what a failure makes of `from`: at rest, the rest of it kept, and its
\* diff too unless the tree's takes its place.
SavedFrom(from) ==
  \E new \in Row :
    /\ Save(new) /\ new.state \in AtRest
    /\ new.branch = from.branch /\ new.sha = from.sha
    /\ new.pushed = from.pushed /\ new.removed = from.removed
    /\ new.diff \in {from.diff, tree}

LEMMA FailureSaves ==
  ASSUME TypeOK, NEW from \in Row, NEW op \in {"implement", "correct", "create", "push", "none"},
         NEW used \in BOOLEAN, NEW started \in BOOLEAN, NEW baseline,
         SaveFailed([Failed(from, op, used) EXCEPT !.started = started], baseline)
  PROVE  SavedFrom(from) /\ index' \in Contents
<1> DEFINE rec == [Failed(from, op, used) EXCEPT !.started = started]
<1>0. tree \in Contents /\ index \in Contents
  BY DEF TypeOK
<1>1. FailedState(op) \in AtRest
  BY DEF FailedState, AtRest
<1>2. (from.attempted \/ (op = "correct" /\ used)) \in BOOLEAN
  BY DEF Row
<1>3. /\ rec \in Row /\ rec.state \in AtRest
      /\ rec.branch = from.branch /\ rec.sha = from.sha
      /\ rec.pushed = from.pushed /\ rec.removed = from.removed /\ rec.diff = from.diff
  BY <1>1, <1>2 DEF Failed, Row
<1> HIDE DEF rec
<1>4. PICK collects \in BOOLEAN :
        /\ index' = IF collects THEN tree ELSE index
        /\ Save([rec EXCEPT !.diff = IF collects /\ tree # "base" THEN tree ELSE @])
  BY DEF SaveFailed, rec
<1>5. PICK d \in {from.diff, tree} : Save([rec EXCEPT !.diff = d])
  BY <1>3, <1>4
<1>6. d \in Contents
  BY <1>0 DEF Row
<1>7. /\ [rec EXCEPT !.diff = d] \in Row /\ [rec EXCEPT !.diff = d].diff = d
      /\ [rec EXCEPT !.diff = d].state = rec.state /\ [rec EXCEPT !.diff = d].branch = rec.branch
      /\ [rec EXCEPT !.diff = d].sha = rec.sha /\ [rec EXCEPT !.diff = d].pushed = rec.pushed
      /\ [rec EXCEPT !.diff = d].removed = rec.removed
  BY <1>3, <1>6 DEF Row
<1>8. SavedFrom(from)
  BY <1>3, <1>5, <1>7 DEF SavedFrom
<1> QED BY <1>0, <1>4, <1>8

\* The same, where the failure leaves the start of a correction as it was.
LEMMA PlainFailureSaves ==
  ASSUME TypeOK, NEW from \in Row, NEW op \in {"implement", "correct", "create", "push", "none"},
         NEW used \in BOOLEAN, NEW baseline, SaveFailed(Failed(from, op, used), baseline)
  PROVE  SavedFrom(from) /\ index' \in Contents
<1>1. from.started \in BOOLEAN /\ (from.attempted \/ (op = "correct" /\ used)) \in BOOLEAN
  BY DEF Row
<1>2. Failed(from, op, used) = [Failed(from, op, used) EXCEPT !.started = from.started]
  BY DEF Failed, Row
<1> QED BY <1>1, <1>2, FailureSaves

LEMMA RefusalSaves ==
  ASSUME TypeOK, NEW r \in Requests, RunnerRefused(r)
  PROVE  SavedFrom(row) /\ index' \in Contents
<1> DEFINE op == req[r].op
<1>1. row \in Row /\ op \in {"implement", "correct", "create", "push", "none"}
  BY DEF TypeOK, Request
<1>2. row.started \in BOOLEAN /\ (row.started \/ op = "correct") \in BOOLEAN
  BY <1>1 DEF Row
<1>3. (Failed(row, op, TRUE)).started = row.started
  BY <1>1 DEF Failed, Row
<1> HIDE DEF op
<1>4. CASE SaveFailed(Failed(row, op, FALSE), HasBaseline(row))
  BY <1>1, <1>4, PlainFailureSaves
<1>5. CASE SaveFailed(Failed(row, op, TRUE), HasBaseline(row))
  BY <1>1, <1>5, PlainFailureSaves
<1>6. CASE SaveFailed([Failed(row, op, TRUE) EXCEPT !.started = @ \/ op = "correct"], FALSE)
  <2>1. SaveFailed([Failed(row, op, TRUE) EXCEPT !.started = row.started \/ op = "correct"], FALSE)
    BY <1>3, <1>6
  <2> QED BY <1>1, <1>2, <2>1, FailureSaves
<1> QED BY <1>4, <1>5, <1>6 DEF RunnerRefused, op

LEMMA RunFailureSaves ==
  ASSUME TypeOK, NEW r \in Requests, RunnerFails(r)
  PROVE  SavedFrom(req[r].copy) /\ index' \in Contents
<1>1. req[r].copy \in Row /\ req[r].op \in {"implement", "correct", "create", "push", "none"}
  BY DEF TypeOK, Request
<1> QED BY <1>1, PlainFailureSaves DEF RunnerFails

LEMMA RecoverySaves ==
  ASSUME TypeOK, Restart
  PROVE  \/ row.state \in AtRest /\ UNCHANGED <<row, index, sweep>>
         \/ SavedFrom(row) /\ index' \in Contents
<1> DEFINE op == IF row.state = "CORRECTING" THEN "correct" ELSE "implement"
<1>1. row \in Row /\ row.started \in BOOLEAN
  BY DEF TypeOK, Row
<1>2. op \in {"implement", "correct", "create", "push", "none"}
  OBVIOUS
<1>3. CASE row.state \in AtRest
  BY <1>3 DEF Restart
<1>4. CASE row.state \notin AtRest
  <2>1. SaveFailed(Failed(row, op, row.started), HasBaseline(row))
    BY <1>4 DEF Restart, Recovered
  <2> HIDE DEF op
  <2> QED BY <1>1, <1>2, <2>1, PlainFailureSaves
<1> QED BY <1>3, <1>4

-----------------------------------------------------------------------------
(* Type correctness                                                        *)

LEMMA TypeHandler ==
  ASSUME TypeOK, NEW r \in Requests, Handler(r)
  PROVE  TypeOK'
<1>1. CASE ImplementJob(r) \/ CorrectValidation(r)
  <2>1. "checked" \in RequestPCs
    BY DEF RequestPCs
  <2> QED BY <1>1, <2>1, BeginEffect
      DEF ImplementJob, CorrectValidation, TypeOK, gitVars, remoteVars, serverVars
<1>2. CASE \E n \in Names : CreateBranch(r, n) \/ PushBranch(r, n)
  <2>1. "checkout" \in RequestPCs /\ "ls-remote" \in RequestPCs
    BY DEF RequestPCs, GitSteps
  <2> QED BY <1>2, <2>1, BeginEffect
      DEF CreateBranch, PushBranch, TypeOK, gitVars, remoteVars, serverVars
<1> QED BY <1>1, <1>2 DEF Handler

LEMMA TypeRunner ==
  ASSUME TypeOK, NEW r \in Requests,
         \/ Enqueue(r) \/ RunnerStarts(r) \/ RunnerRefused(r)
         \/ AgentEdits(r) \/ Collected(r) \/ RunnerFails(r)
  PROVE  TypeOK'
<1>1. /\ row \in Row /\ req[r] \in Request /\ req[r].copy \in Row /\ sweep \in Sweep
      /\ tree \in Contents /\ index \in Contents
  BY DEF TypeOK, Request
<1>2. CASE Enqueue(r)
  <2>1. [req[r].copy EXCEPT !.state = Awaited(req[r].op), !.started = FALSE] \in Row
    BY <1>1 DEF Row, AtWork, Awaited
  <2> QED BY <1>2, <2>1, SaveEffect, GotoEffect
      DEF Enqueue, TypeOK, RequestPCs, gitVars, remoteVars, serverVars
<1>3. CASE RunnerStarts(r)
  <2> DEFINE rec == IF req[r].op = "implement" THEN [row EXCEPT !.state = "IMPLEMENTING"]
                    ELSE [row EXCEPT !.started = TRUE]
             q == [req[r] EXCEPT !.copy = rec, !.pc = "editing"]
  <2>1. rec \in Row
    BY <1>1 DEF Row, AtWork
  <2>2. q \in Request /\ Save(rec)
    BY <1>1, <1>3, <2>1 DEF Request, RequestPCs, RunnerStarts
  <2>3. req' = [req EXCEPT ![r] = q]
    BY <1>1, <1>3 DEF RunnerStarts, TypeOK
  <2>4. req' \in [Requests -> Request]
    BY <2>2, <2>3, RequestEffect
  <2> QED BY <1>3, <2>1, <2>2, <2>4, SaveEffect
      DEF RunnerStarts, TypeOK, gitVars, remoteVars, serverVars
<1>4. CASE RunnerRefused(r)
  <2>1. SavedFrom(row) /\ index' \in Contents
    BY <1>4, RefusalSaves
  <2>2. row' \in Row /\ sweep' \in Sweep
    BY <2>1, SaveEffect DEF SavedFrom
  <2>3. req' \in [Requests -> Request]
    BY <1>4, EndEffect DEF RunnerRefused
  <2> QED BY <1>4, <2>1, <2>2, <2>3 DEF RunnerRefused, TypeOK, remoteVars, serverVars
<1>5. CASE AgentEdits(r)
  BY <1>5, GotoEffect DEF AgentEdits, TypeOK, RequestPCs, Contents, remoteVars, serverVars
<1>6. CASE Collected(r)
  <2>1. [req[r].copy EXCEPT !.diff = tree, !.state = "IMPLEMENTATION_READY",
                            !.attempted = @ \/ req[r].op = "correct"] \in Row
    BY <1>1 DEF Row, AtRest
  <2> QED BY <1>6, <2>1, SaveEffect, EndEffect
      DEF Collected, TypeOK, remoteVars, serverVars
<1>7. CASE RunnerFails(r)
  <2>1. SavedFrom(req[r].copy) /\ index' \in Contents
    BY <1>7, RunFailureSaves
  <2>2. row' \in Row /\ sweep' \in Sweep
    BY <2>1, SaveEffect DEF SavedFrom
  <2>3. req' \in [Requests -> Request]
    BY <1>7, EndEffect DEF RunnerFails
  <2> QED BY <1>7, <2>1, <2>2, <2>3 DEF RunnerFails, TypeOK, remoteVars, serverVars
<1> QED BY <1>2, <1>3, <1>4, <1>5, <1>6, <1>7

LEMMA TypeCreate ==
  ASSUME TypeOK, HeadExists, NEW r \in Requests,
         \/ CheckedOut(r) \/ Staged(r) \/ Committed(r) \/ NothingToCommit(r)
         \/ CommitRead(r) \/ BranchRecorded(r)
  PROVE  TypeOK'
<1>1. /\ row \in Row /\ req[r] \in Request /\ req[r].copy \in Row /\ sweep \in Sweep
      /\ tree \in Contents /\ index \in Contents
      /\ req[r].name \in Names \cup {None} /\ req[r].sha \in CommitIds \cup {None}
  BY DEF TypeOK, Request
<1>2. CASE CheckedOut(r)
  BY <1>1, <1>2, GotoEffect
  DEF CheckedOut, TypeOK, RequestPCs, GitSteps, Contents, CommitIds, remoteVars, serverVars
<1>3. CASE Staged(r)
  BY <1>1, <1>3, GotoEffect
  DEF Staged, TypeOK, RequestPCs, GitSteps, remoteVars, serverVars
<1>4. CASE Committed(r)
  <2>1. [content |-> index, past |-> Past(Head) \cup {r}] \in Commit /\ r \in CommitIds
    BY <1>1, HeadType, CommitTypes DEF Commit, CommitIds
  <2>2. commits' \in [Requests -> Commit] /\ refs' \in [Names -> CommitIds \cup {None}]
    BY <1>4, <2>1 DEF Committed, TypeOK
  <2>3. req' \in [Requests -> Request]
    BY <1>4, GotoEffect DEF Committed, RequestPCs, GitSteps
  <2> QED BY <1>4, <2>2, <2>3 DEF Committed, TypeOK, remoteVars, serverVars
<1>5. CASE NothingToCommit(r)
  BY <1>5, EndEffect DEF NothingToCommit, TypeOK, gitVars, remoteVars, serverVars
<1>6. CASE CommitRead(r)
  <2> DEFINE q == [req[r] EXCEPT !.sha = Head, !.pc = "created"]
  <2>1. q \in Request
    BY <1>1, HeadType DEF Request, RequestPCs
  <2>2. req' = [req EXCEPT ![r] = q]
    BY <1>1, <1>6 DEF CommitRead, TypeOK
  <2>3. req' \in [Requests -> Request]
    BY <2>1, <2>2, RequestEffect
  <2> QED BY <1>6, <2>3 DEF CommitRead, TypeOK, gitVars, remoteVars, serverVars
<1>7. CASE BranchRecorded(r)
  <2>1. [req[r].copy EXCEPT !.branch = req[r].name, !.sha = req[r].sha] \in Row
    BY <1>1 DEF Row
  <2> QED BY <1>7, <2>1, SaveEffect, EndEffect
      DEF BranchRecorded, TypeOK, gitVars, remoteVars, serverVars
<1> QED BY <1>2, <1>3, <1>4, <1>5, <1>6, <1>7

LEMMA TypePush ==
  ASSUME TypeOK, RequestsFit, NEW r \in Requests,
         \/ NameTaken(r) \/ NameFreeOrUnknown(r) \/ Pushed(r) \/ PushRecorded(r) \/ GitFails(r)
  PROVE  TypeOK'
<1>1. /\ row \in Row /\ req[r] \in Request /\ req[r].copy \in Row /\ sweep \in Sweep
      /\ req[r].name \in Names \cup {None} /\ req[r].sha \in CommitIds \cup {None}
      /\ req[r].copy.sha \in CommitIds \cup {None}
  BY DEF TypeOK, Request, Row
<1>2. CASE NameTaken(r) \/ GitFails(r)
  BY <1>2, EndEffect DEF NameTaken, GitFails, TypeOK, gitVars, remoteVars, serverVars
<1>3. CASE NameFreeOrUnknown(r)
  BY <1>3, GotoEffect
  DEF NameFreeOrUnknown, TypeOK, RequestPCs, GitSteps, gitVars, remoteVars, serverVars
<1>4. CASE Pushed(r)
  <2>1. req[r].name \in Names /\ req[r].copy.sha \in CommitIds
    BY <1>1, <1>4 DEF Pushed, RequestsFit, RequestFits, PushSteps, RowFits
  <2>2. remote' \in [Names -> CommitIds \cup {None, "foreign"}] /\ landed' \in SUBSET (Names \X CommitIds)
    BY <1>4, <2>1 DEF Pushed, PushSource, TypeOK
  <2>3. req' \in [Requests -> Request]
    BY <1>4, GotoEffect, EndEffect DEF Pushed, RequestPCs
  <2> QED BY <1>4, <2>2, <2>3 DEF Pushed, TypeOK, gitVars, serverVars
<1>5. CASE PushRecorded(r)
  <2>1. [req[r].copy EXCEPT !.branch = req[r].name, !.pushed = TRUE] \in Row
    BY <1>1 DEF Row
  <2> QED BY <1>5, <2>1, SaveEffect, EndEffect
      DEF PushRecorded, TypeOK, gitVars, remoteVars, serverVars
<1> QED BY <1>2, <1>3, <1>4, <1>5

LEMMA TypeOthers ==
  ASSUME TypeOK,
         \/ \E n \in Names : OthersPush(n)
         \/ Ages \/ SweepStep \/ DeleteFails \/ Crash \/ Restart
  PROVE  TypeOK'
<1>0. row \in Row /\ sweep \in Sweep
  BY DEF TypeOK
<1>1. CASE \E n \in Names : OthersPush(n)
  BY <1>1 DEF OthersPush, TypeOK, CommitIds, gitVars, serverVars
<1>2. CASE Ages
  BY <1>0, <1>2 DEF Ages, TypeOK, Row, gitVars, remoteVars, serverVars
<1>3. CASE Listed \/ Revisited \/ Skipped \/ DeleteFails
  <2>1. Listed => sweep' \in Sweep
    BY <1>0 DEF Listed, Row, Sweep
  <2>2. Revisited => sweep' \in Sweep
    BY <1>0 DEF Revisited, Set, Sweep
  <2>3. Skipped \/ DeleteFails => sweep' \in Sweep
    BY Constants DEF Skipped, DeleteFails
  <2>4. sweep' \in Sweep
    BY <1>3, <2>1, <2>2, <2>3
  <2> QED BY <1>3, <2>4
      DEF Listed, Revisited, Skipped, DeleteFails, TypeOK, gitVars, remoteVars, serverVars
<1>4. CASE Marked
  BY <1>0, <1>4 DEF Marked, Set, TypeOK, Row, Sweep, gitVars, remoteVars, serverVars
<1>5. CASE DeletesSome \/ DeletesRest
  BY <1>5, Constants
  DEF DeletesSome, DeletesRest, TypeOK, Contents, gitVars, remoteVars, serverVars
<1>6. CASE Crash
  BY <1>6, Constants, CrashBoundAssumption DEF Crash, TypeOK, gitVars, remoteVars
<1>7. CASE Restart
  <2>1. row' \in Row /\ sweep' \in Sweep /\ index' \in Contents
    BY <1>7, RecoverySaves, SaveEffect DEF TypeOK, SavedFrom
  <2> QED BY <1>7, <2>1 DEF Restart, TypeOK, remoteVars
<1> QED BY <1>1, <1>2, <1>3, <1>4, <1>5, <1>6, <1>7 DEF SweepStep

LEMMA TypeStep ==
  ASSUME Inv, [Next]_vars
  PROVE  TypeOK'
<1>1. ASSUME NEW r \in Requests, Handler(r) PROVE TypeOK'
  BY <1>1, TypeHandler DEF Inv
<1>2. ASSUME NEW r \in Requests, Work(r) PROVE TypeOK'
  BY <1>2, TypeRunner, TypeCreate, TypePush DEF Inv, Work
<1>3. CASE \/ \E n \in Names : OthersPush(n)
           \/ Ages \/ SweepStep \/ DeleteFails \/ Crash \/ Restart
  BY <1>3, TypeOthers DEF Inv
<1>4. CASE UNCHANGED vars
  BY <1>4 DEF Inv, TypeOK, vars, gitVars, remoteVars, serverVars
<1> QED BY <1>1, <1>2, <1>3, <1>4 DEF Next

-----------------------------------------------------------------------------
(* The rest of the invariant                                               *)

Facts == HeadExists /\ RowFits(row) /\ RequestsFit /\ SweepFits /\ RemovedStaysAtRest

\* What fits stays so while landed grows and every other request keeps its record.
LEMMA OthersFit ==
  ASSUME RequestsFit, NEW r \in Requests, landed \subseteq landed',
         \A s \in Requests \ {r} : req'[s] = req[s], RequestFits(req[r])'
  PROVE  RequestsFit'
<1> SUFFICES ASSUME NEW s \in Requests, s # r PROVE RequestFits(req[s])'
  BY DEF RequestsFit
<1> QED BY DEF RequestsFit, RequestFits, RowFits

LEMMA EndedFits == RequestFits(Ended) /\ RequestFits(NotMade) /\ RowFits(Planned)
BY DEF RequestFits, RowFits, Ended, NotMade, Planned, CreateSteps, PushSteps

\* A save of a copy that fits, by a request that fits afterwards.
LEMMA SaveStep ==
  ASSUME Inv, NEW r \in Requests, NEW rec \in Row, Save(rec), RowFits(rec),
         rec.removed => rec.state \in AtRest,
         \A s \in Requests \ {r} : req'[s] = req[s], RequestFits(req[r])',
         UNCHANGED <<on, refs, landed, serverVars>>
  PROVE  Facts'
<1>1. RowFits(row)' /\ SweepFits' /\ RemovedStaysAtRest'
  BY SaveEffect DEF Inv, RowFits, SweepFits, RemovedStaysAtRest, serverVars
<1>2. HeadExists'
  BY DEF Inv, HeadExists
<1> QED BY <1>1, <1>2, OthersFit DEF Inv, Facts

\* A step of a request that leaves the row, the sweep and the server alone.
LEMMA GitStep ==
  ASSUME Inv, NEW r \in Requests, landed \subseteq landed', HeadExists',
         \A s \in Requests \ {r} : req'[s] = req[s], RequestFits(req[r])',
         UNCHANGED <<row, sweep, serverVars>>
  PROVE  Facts'
<1>1. RowFits(row)' /\ SweepFits' /\ RemovedStaysAtRest'
  BY DEF Inv, RowFits, SweepFits, RemovedStaysAtRest, serverVars
<1> QED BY <1>1, OthersFit DEF Inv, Facts

\* A step of a request that ends it.
LEMMA EndFits ==
  ASSUME TypeOK, NEW r \in Requests, End(r)
  PROVE  /\ \A s \in Requests \ {r} : req'[s] = req[s]
         /\ RequestFits(req[r])'
BY EndEffect, EndedFits DEF RequestFits, RowFits, Ended, NotMade, Planned, CreateSteps, PushSteps

LEMMA FitsHandler ==
  ASSUME Inv, NEW r \in Requests, Handler(r)
  PROVE  Facts'
<1>1. PICK op \in {"implement", "correct", "create", "push"}, name \in Names \cup {None},
           pc \in {"checked", "checkout", "ls-remote"} :
        /\ Begin(r, op, pc, name)
        /\ pc = "checkout" => name # None /\ row.branch = None
        /\ pc = "ls-remote" => name # None /\ row.branch # None
  BY Constants DEF Handler, ImplementJob, CorrectValidation, CreateBranch, PushBranch
<1> DEFINE q == [op |-> op, pc |-> pc, copy |-> row, name |-> name, sha |-> None]
<1>2. /\ req'[r] = q /\ \A s \in Requests \ {r} : req'[s] = req[s]
      /\ ~row.removed /\ UNCHANGED <<row, dir, gitVars, remoteVars, sweep, serverVars>>
  BY <1>1, BeginEffect DEF Inv, RequestPCs, GitSteps
<1>3. row.pushed => row.branch # None
  BY Constants DEF Inv, RowFits, TypeOK
<1>4. RequestFits(req[r])' /\ HeadExists'
  BY <1>1, <1>2, <1>3
  DEF Inv, RequestFits, RowFits, HeadExists, CreateSteps, PushSteps, gitVars, remoteVars
<1> QED BY <1>2, <1>4, GitStep DEF remoteVars

LEMMA FitsRunner ==
  ASSUME Inv, NEW r \in Requests,
         \/ Enqueue(r) \/ RunnerStarts(r) \/ RunnerRefused(r)
         \/ AgentEdits(r) \/ Collected(r) \/ RunnerFails(r)
  PROVE  Facts'
<1>1. /\ TypeOK /\ row \in Row /\ req[r] \in Request /\ req[r].copy \in Row
      /\ HeadExists /\ RequestsFit /\ RowFits(row)
      /\ RequestFits(req[r]) /\ RowFits(req[r].copy) /\ ~req[r].copy.removed
      /\ tree \in Contents
  BY DEF Inv, TypeOK, Request, RequestsFit, RequestFits
<1>2. CASE Enqueue(r)
  <2> DEFINE rec == [req[r].copy EXCEPT !.state = Awaited(req[r].op), !.started = FALSE]
  <2>1. rec \in Row /\ RowFits(rec) /\ ~rec.removed
    BY <1>1 DEF Row, AtWork, RowFits, Awaited
  <2>2. Save(rec) /\ UNCHANGED <<on, refs, landed, serverVars>>
    BY <1>2 DEF Enqueue, gitVars, remoteVars
  <2>3. /\ req'[r] = [req[r] EXCEPT !.pc = "queued"]
        /\ \A s \in Requests \ {r} : req'[s] = req[s]
    BY <1>1, <1>2, GotoEffect DEF Enqueue, RequestPCs
  <2>4. RequestFits(req[r])'
    BY <1>1, <2>2, <2>3 DEF RequestFits, RowFits, CreateSteps, PushSteps, Request
  <2> QED BY <2>1, <2>2, <2>3, <2>4, SaveStep
<1>3. CASE RunnerStarts(r)
  <2> DEFINE rec == IF req[r].op = "implement" THEN [row EXCEPT !.state = "IMPLEMENTING"]
                    ELSE [row EXCEPT !.started = TRUE]
  <2>1. ~row.removed
    BY <1>3 DEF RunnerStarts, Awaited, Inv, RemovedStaysAtRest, AtRest
  <2>2. rec \in Row /\ RowFits(rec) /\ ~rec.removed
    BY <1>1, <2>1 DEF Row, AtWork, RowFits
  <2>3. Save(rec) /\ UNCHANGED <<on, refs, landed, serverVars>>
    BY <1>3 DEF RunnerStarts, gitVars, remoteVars
  <2>4. /\ req'[r] = [req[r] EXCEPT !.copy = rec, !.pc = "editing"]
        /\ \A s \in Requests \ {r} : req'[s] = req[s]
    BY <1>1, <1>3 DEF RunnerStarts, TypeOK
  <2>5. req'[r].copy = rec /\ req'[r].pc = "editing"
    BY <1>1, <2>4 DEF Request
  <2>6. RequestFits(req[r])'
    BY <2>2, <2>3, <2>5 DEF RequestFits, RowFits, CreateSteps, PushSteps
  <2> QED BY <2>2, <2>3, <2>4, <2>6, SaveStep
<1>4. CASE RunnerRefused(r)
  <2>1. PICK rec \in Row :
          /\ Save(rec) /\ rec.state \in AtRest
          /\ rec.branch = row.branch /\ rec.sha = row.sha /\ rec.pushed = row.pushed
    BY <1>1, <1>4, RefusalSaves DEF SavedFrom
  <2>2. RowFits(rec)
    BY <1>1, <2>1 DEF RowFits
  <2>3. End(r) /\ UNCHANGED <<on, refs, landed, serverVars>>
    BY <1>4 DEF RunnerRefused, remoteVars
  <2> QED BY <1>1, <2>1, <2>2, <2>3, EndFits, SaveStep
<1>5. CASE AgentEdits(r)
  <2>1. /\ req'[r] = [req[r] EXCEPT !.pc = "collecting"]
        /\ \A s \in Requests \ {r} : req'[s] = req[s]
    BY <1>1, <1>5, GotoEffect DEF AgentEdits, RequestPCs
  <2>2. UNCHANGED <<row, on, refs, landed, sweep, serverVars>>
    BY <1>5 DEF AgentEdits, remoteVars
  <2>3. RequestFits(req[r])' /\ HeadExists'
    BY <1>1, <2>1, <2>2 DEF RequestFits, RowFits, HeadExists, CreateSteps, PushSteps, Request
  <2> QED BY <2>1, <2>2, <2>3, GitStep
<1>6. CASE Collected(r)
  <2> DEFINE rec == [req[r].copy EXCEPT !.diff = tree, !.state = "IMPLEMENTATION_READY",
                                        !.attempted = @ \/ req[r].op = "correct"]
  <2>1. rec \in Row /\ RowFits(rec) /\ rec.state \in AtRest
    BY <1>1 DEF Row, AtRest, RowFits
  <2>2. Save(rec) /\ End(r) /\ UNCHANGED <<on, refs, landed, serverVars>>
    BY <1>6 DEF Collected, remoteVars
  <2> QED BY <1>1, <2>1, <2>2, EndFits, SaveStep
<1>7. CASE RunnerFails(r)
  <2>1. PICK rec \in Row :
          /\ Save(rec) /\ rec.state \in AtRest
          /\ rec.branch = req[r].copy.branch /\ rec.sha = req[r].copy.sha
          /\ rec.pushed = req[r].copy.pushed
    BY <1>1, <1>7, RunFailureSaves DEF SavedFrom
  <2>2. RowFits(rec)
    BY <1>1, <2>1 DEF RowFits
  <2>3. End(r) /\ UNCHANGED <<on, refs, landed, serverVars>>
    BY <1>7 DEF RunnerFails, remoteVars
  <2> QED BY <1>1, <2>1, <2>2, <2>3, EndFits, SaveStep
<1> QED BY <1>2, <1>3, <1>4, <1>5, <1>6, <1>7

LEMMA FitsCreate ==
  ASSUME Inv, NEW r \in Requests,
         \/ CheckedOut(r) \/ Staged(r) \/ Committed(r) \/ NothingToCommit(r)
         \/ CommitRead(r) \/ BranchRecorded(r)
  PROVE  Facts'
<1>1. /\ TypeOK /\ req[r] \in Request /\ req[r].copy \in Row
      /\ HeadExists /\ RequestsFit /\ RequestFits(req[r])
  BY DEF Inv, TypeOK, Request, RequestsFit
<1>2. CASE CheckedOut(r)
  <2>1. /\ req'[r] = [req[r] EXCEPT !.pc = "add"]
        /\ \A s \in Requests \ {r} : req'[s] = req[s]
    BY <1>1, <1>2, GotoEffect DEF CheckedOut, RequestPCs, GitSteps
  <2>2. UNCHANGED <<row, landed, sweep, serverVars>> /\ req[r].pc = "checkout"
    BY <1>2 DEF CheckedOut, remoteVars
  <2>3. req[r].name \in Names
    BY <1>1, <2>2 DEF RequestFits, CreateSteps, Request
  <2>4. HeadExists'
    BY <1>1, <1>2, <2>3, NoneAssumption DEF CheckedOut, HeadExists, TypeOK
  <2>5. RequestFits(req[r])'
    BY <1>1, <2>1, <2>2 DEF RequestFits, RowFits, CreateSteps, PushSteps, Request
  <2> QED BY <2>1, <2>2, <2>4, <2>5, GitStep
<1>3. CASE Staged(r)
  <2>1. /\ req'[r] = [req[r] EXCEPT !.pc = "commit"]
        /\ \A s \in Requests \ {r} : req'[s] = req[s]
    BY <1>1, <1>3, GotoEffect DEF Staged, RequestPCs, GitSteps
  <2>2. UNCHANGED <<row, on, refs, landed, sweep, serverVars>> /\ req[r].pc = "add"
    BY <1>3 DEF Staged, remoteVars
  <2>3. RequestFits(req[r])' /\ HeadExists'
    BY <1>1, <2>1, <2>2
    DEF RequestFits, RowFits, HeadExists, CreateSteps, PushSteps, Request
  <2> QED BY <2>1, <2>2, <2>3, GitStep
<1>4. CASE Committed(r)
  <2>1. /\ req'[r] = [req[r] EXCEPT !.pc = "rev-parse"]
        /\ \A s \in Requests \ {r} : req'[s] = req[s]
    BY <1>1, <1>4, GotoEffect DEF Committed, RequestPCs, GitSteps
  <2>2. UNCHANGED <<row, on, landed, sweep, serverVars>> /\ req[r].pc = "commit"
    BY <1>4 DEF Committed, remoteVars
  <2>3. HeadExists'
    BY <1>1, <1>4, <2>2, NoneAssumption DEF Committed, HeadExists, TypeOK
  <2>4. RequestFits(req[r])'
    BY <1>1, <2>1, <2>2 DEF RequestFits, RowFits, CreateSteps, PushSteps, Request
  <2> QED BY <2>1, <2>2, <2>3, <2>4, GitStep
<1>5. CASE NothingToCommit(r)
  <2>1. End(r) /\ UNCHANGED <<row, on, refs, landed, sweep, serverVars>>
    BY <1>5 DEF NothingToCommit, gitVars, remoteVars
  <2> QED BY <1>1, <2>1, EndFits, GitStep DEF HeadExists
<1>6. CASE CommitRead(r)
  <2>1. /\ req'[r] = [req[r] EXCEPT !.sha = Head, !.pc = "created"]
        /\ \A s \in Requests \ {r} : req'[s] = req[s]
        /\ req[r].pc = "rev-parse"
        /\ UNCHANGED <<row, on, refs, landed, sweep, serverVars>>
    BY <1>1, <1>6 DEF CommitRead, TypeOK, gitVars, remoteVars
  <2>2. Head # None
    BY <1>1, HeadType, Constants
  <2>3. RequestFits(req[r])' /\ HeadExists'
    BY <1>1, <2>1, <2>2
    DEF RequestFits, RowFits, HeadExists, CreateSteps, PushSteps, Request
  <2> QED BY <2>1, <2>3, GitStep
<1>7. CASE BranchRecorded(r)
  <2> DEFINE rec == [req[r].copy EXCEPT !.branch = req[r].name, !.sha = req[r].sha]
  <2>1. /\ Save(rec) /\ End(r) /\ req[r].pc = "created"
        /\ UNCHANGED <<on, refs, landed, serverVars>>
    BY <1>7 DEF BranchRecorded, gitVars, remoteVars
  <2>2. rec \in Row /\ RowFits(rec) /\ ~rec.removed
    BY <1>1, <2>1 DEF Row, Request, RowFits, RequestFits, CreateSteps
  <2> QED BY <1>1, <2>1, <2>2, EndFits, SaveStep
<1> QED BY <1>2, <1>3, <1>4, <1>5, <1>6, <1>7

LEMMA FitsPush ==
  ASSUME Inv, NEW r \in Requests,
         \/ NameTaken(r) \/ NameFreeOrUnknown(r) \/ Pushed(r) \/ PushRecorded(r) \/ GitFails(r)
  PROVE  Facts'
<1>1. /\ TypeOK /\ req[r] \in Request /\ req[r].copy \in Row
      /\ HeadExists /\ RequestsFit /\ RequestFits(req[r])
  BY DEF Inv, TypeOK, Request, RequestsFit
<1>2. CASE NameTaken(r) \/ GitFails(r)
  <2>1. End(r) /\ UNCHANGED <<row, on, refs, landed, sweep, serverVars>>
    BY <1>2 DEF NameTaken, GitFails, gitVars, remoteVars
  <2> QED BY <1>1, <2>1, EndFits, GitStep DEF HeadExists
<1>3. CASE NameFreeOrUnknown(r)
  <2>1. /\ req'[r] = [req[r] EXCEPT !.pc = "push"]
        /\ \A s \in Requests \ {r} : req'[s] = req[s]
    BY <1>1, <1>3, GotoEffect DEF NameFreeOrUnknown, RequestPCs, GitSteps
  <2>2. UNCHANGED <<row, on, refs, landed, sweep, serverVars>> /\ req[r].pc = "ls-remote"
    BY <1>3 DEF NameFreeOrUnknown, gitVars, remoteVars
  <2>3. RequestFits(req[r])' /\ HeadExists'
    BY <1>1, <2>1, <2>2
    DEF RequestFits, RowFits, HeadExists, CreateSteps, PushSteps, Request
  <2> QED BY <2>1, <2>2, <2>3, GitStep
<1>4. CASE Pushed(r)
  <2>1. /\ UNCHANGED <<row, on, refs, sweep, serverVars>> /\ req[r].pc = "push"
        /\ landed' = landed \cup {<<req[r].name, req[r].copy.sha>>}
        /\ Goto(r, "pushed") \/ End(r)
    BY <1>4 DEF Pushed, PushSource, gitVars
  <2>2. HeadExists'
    BY <1>1, <2>1 DEF HeadExists
  <2>3. CASE Goto(r, "pushed")
    <3>1. /\ req'[r] = [req[r] EXCEPT !.pc = "pushed"]
          /\ \A s \in Requests \ {r} : req'[s] = req[s]
      BY <1>1, <2>3, GotoEffect DEF RequestPCs
    <3>2. RequestFits(req[r])'
      BY <1>1, <2>1, <3>1 DEF RequestFits, RowFits, CreateSteps, PushSteps, Request
    <3> QED BY <2>1, <2>2, <3>1, <3>2, GitStep
  <2>4. CASE End(r)
    BY <1>1, <2>1, <2>2, <2>4, EndFits, GitStep
  <2> QED BY <2>1, <2>3, <2>4
<1>5. CASE PushRecorded(r)
  <2> DEFINE rec == [req[r].copy EXCEPT !.branch = req[r].name, !.pushed = TRUE]
  <2>1. /\ Save(rec) /\ End(r) /\ req[r].pc = "pushed"
        /\ UNCHANGED <<on, refs, landed, serverVars>>
    BY <1>5 DEF PushRecorded, gitVars, remoteVars
  <2>2. rec \in Row /\ RowFits(rec) /\ ~rec.removed
    BY <1>1, <2>1 DEF Row, Request, RowFits, RequestFits, PushSteps
  <2> QED BY <1>1, <2>1, <2>2, EndFits, SaveStep
<1> QED BY <1>2, <1>3, <1>4, <1>5

\* What fits does not look at the remote, the directory or the tree.
LEMMA SameRequestsFit ==
  ASSUME RequestsFit, UNCHANGED <<req, landed>>
  PROVE  RequestsFit'
BY DEF RequestsFit, RequestFits, RowFits

LEMMA FitsOthers ==
  ASSUME Inv,
         \/ \E n \in Names : OthersPush(n)
         \/ Ages \/ SweepStep \/ DeleteFails \/ Crash \/ Restart
  PROVE  Facts'
<1>1. /\ TypeOK /\ row \in Row /\ sweep \in Sweep /\ server \in {"up", "down"}
      /\ HeadExists /\ RequestsFit /\ RowFits(row) /\ SweepFits /\ RemovedStaysAtRest
  BY DEF Inv, TypeOK
<1>2. UNCHANGED <<on, refs, landed>>
  BY DEF OthersPush, Ages, SweepStep, Listed, Marked, Skipped, Revisited, DeletesSome,
         DeletesRest, DeleteFails, Crash, Restart, gitVars, remoteVars
<1>3. HeadExists'
  BY <1>1, <1>2 DEF HeadExists
<1>4. RequestsFit'
  <2>1. CASE Crash
    <3> SUFFICES ASSUME NEW r \in Requests PROVE RequestFits(req[r])'
      BY DEF RequestsFit
    <3>1. req'[r] \in {NotMade, Ended}
      BY <2>1 DEF Crash
    <3> QED BY <3>1
        DEF RequestFits, RowFits, NotMade, Ended, Planned, CreateSteps, PushSteps
  <2>2. CASE ~Crash
    <3>1. UNCHANGED req
      BY <2>2 DEF OthersPush, Ages, SweepStep, Listed, Marked, Skipped, Revisited,
                  DeletesSome, DeletesRest, DeleteFails, Restart
    <3> QED BY <1>1, <1>2, <3>1, SameRequestsFit
  <2> QED BY <2>1, <2>2
<1>5. RowFits(row)' /\ SweepFits' /\ RemovedStaysAtRest'
  <2>1. CASE \E n \in Names : OthersPush(n)
    BY <1>1, <1>2, <2>1 DEF OthersPush, RowFits, SweepFits, RemovedStaysAtRest, serverVars
  <2>2. CASE Ages
    BY <1>1, <1>2, <2>2 DEF Ages, Row, RowFits, SweepFits, RemovedStaysAtRest, serverVars
  <2>3. CASE Listed
    BY <1>1, <1>2, <2>3 DEF Listed, RowFits, SweepFits, RemovedStaysAtRest, serverVars
  <2>4. CASE Marked
    <3>1. row' = [row EXCEPT !.removed = TRUE] /\ sweep' = [sweep EXCEPT !.pc = "deleting"]
      BY <2>4 DEF Marked, Set
    <3>2. row.state \in AtRest /\ server' = "up"
      BY <2>4 DEF Marked, CanMark, serverVars
    <3> QED BY <1>1, <1>2, <3>1, <3>2 DEF Row, Sweep, RowFits, SweepFits, RemovedStaysAtRest
  <2>5. CASE Revisited
    BY <1>1, <1>2, <2>5
    DEF Revisited, Set, Sweep, RowFits, SweepFits, RemovedStaysAtRest, serverVars
  <2>6. CASE Skipped \/ DeleteFails \/ DeletesRest
    BY <1>1, <1>2, <2>6
    DEF Skipped, DeleteFails, DeletesRest, Resting, RowFits, SweepFits, RemovedStaysAtRest, serverVars
  <2>7. CASE DeletesSome
    BY <1>1, <1>2, <2>7 DEF DeletesSome, RowFits, SweepFits, RemovedStaysAtRest, serverVars
  <2>8. CASE Crash
    BY <1>1, <1>2, <2>8 DEF Crash, Resting, RowFits, SweepFits, RemovedStaysAtRest
  <2>9. CASE Restart
    <3>1. /\ row'.branch = row.branch /\ row'.sha = row.sha /\ row'.pushed = row.pushed
          /\ row'.removed = row.removed /\ row'.state \in AtRest /\ sweep'.pc = sweep.pc
      BY <1>1, <2>9, RecoverySaves, SaveEffect DEF SavedFrom
    <3>2. sweep.pc = "idle"
      BY <1>1, <2>9 DEF Restart, SweepFits
    <3> QED BY <1>1, <1>2, <3>1, <3>2 DEF RowFits, SweepFits, RemovedStaysAtRest
  <2> QED BY <2>1, <2>2, <2>3, <2>4, <2>5, <2>6, <2>7, <2>8, <2>9 DEF SweepStep
<1> QED BY <1>3, <1>4, <1>5 DEF Facts

-----------------------------------------------------------------------------
(* The invariant and what follows from it                                  *)

LEMMA InvInit == Init => Inv
<1> SUFFICES ASSUME Init PROVE Inv
  OBVIOUS
<1>1. TypeOK
  BY Constants, CrashBoundAssumption DEF Init, TypeOK, Contents, CommitIds, Commit
<1>2. HeadExists /\ RowFits(row) /\ SweepFits /\ RemovedStaysAtRest
  BY EndedFits DEF Init, HeadExists, SweepFits, RemovedStaysAtRest, Planned, Resting
<1>3. RequestsFit
  BY EndedFits DEF Init, RequestsFit
<1> QED BY <1>1, <1>2, <1>3 DEF Inv

LEMMA InvStep == Inv /\ [Next]_vars => Inv'
<1> SUFFICES ASSUME Inv, [Next]_vars PROVE Inv'
  OBVIOUS
<1>1. TypeOK'
  BY TypeStep
<1>2. Facts'
  <2>1. ASSUME NEW r \in Requests, Handler(r) PROVE Facts'
    BY <2>1, FitsHandler
  <2>2. ASSUME NEW r \in Requests, Work(r) PROVE Facts'
    BY <2>2, FitsRunner, FitsCreate, FitsPush DEF Work
  <2>3. CASE \/ \E n \in Names : OthersPush(n)
             \/ Ages \/ SweepStep \/ DeleteFails \/ Crash \/ Restart
    BY <2>3, FitsOthers
  <2>4. CASE UNCHANGED vars
    <3>1. RequestsFit'
      BY <2>4, SameRequestsFit DEF Inv, vars, remoteVars
    <3> QED BY <2>4, <3>1
        DEF Inv, Facts, HeadExists, RowFits, SweepFits, RemovedStaysAtRest, vars, gitVars,
            remoteVars, serverVars
  <2> QED BY <2>1, <2>2, <2>3, <2>4 DEF Next
<1> QED BY <1>1, <1>2 DEF Inv, Facts

LEMMA Invariant == Spec => []Inv
BY InvInit, InvStep, PTL DEF Spec

\* Every row, copy, branch and commit keeps its type; in particular the remote never takes a
\* push without a name or of a commit that was not made.
THEOREM WorkspaceTypes == Spec => []TypeOK
<1>1. Inv => TypeOK
  BY DEF Inv
<1> QED BY <1>1, Invariant, PTL

\* A job that says it was pushed was: the remote accepted the recorded commit under the
\* recorded name, for any number of overlapping branch and push requests, lost answers,
\* sweeps and crashes.
THEOREM PushesRecorded == Spec => []PushedIsRecorded
<1>1. Inv => PushedIsRecorded
  BY DEF Inv, RowFits, PushedIsRecorded
<1> QED BY <1>1, Invariant, PTL

\* A job whose workspace was removed is not worked on: no handler or runner that read the
\* row before the mark saves it as removed and at work.
THEOREM RemovedRests == Spec => []RemovedStaysAtRest
<1>1. Inv => RemovedStaysAtRest
  BY DEF Inv
<1> QED BY <1>1, Invariant, PTL

\* A request never turns the mark on: what it saves was not removed when it was read, or is
\* the row as it stands.
LEMMA RequestsDoNotMark ==
  ASSUME Inv, NEW r \in Requests, Handler(r) \/ Work(r), row'.removed
  PROVE  row.removed
<1>1. /\ TypeOK /\ row \in Row /\ req[r].copy \in Row /\ ~req[r].copy.removed
  BY DEF Inv, TypeOK, Request, RequestsFit, RequestFits
<1>2. CASE Handler(r)
  BY <1>2 DEF Handler, ImplementJob, CorrectValidation, CreateBranch, PushBranch, Begin
<1>3. CASE Enqueue(r) \/ Collected(r) \/ RunnerFails(r) \/ BranchRecorded(r) \/ PushRecorded(r)
  <2>1. ~RunnerFails(r)
    BY <1>1, RunFailureSaves, SaveEffect DEF SavedFrom
  <2> QED BY <1>1, <1>3, <2>1
      DEF Enqueue, Collected, BranchRecorded, PushRecorded, Save, Row
<1>4. CASE RunnerStarts(r) \/ RunnerRefused(r)
  <2>1. RunnerRefused(r) => row.removed
    BY <1>1, RefusalSaves, SaveEffect DEF SavedFrom
  <2> QED BY <1>1, <1>4, <2>1 DEF RunnerStarts, Save, Row
<1>5. CASE \/ AgentEdits(r) \/ CheckedOut(r) \/ Staged(r) \/ Committed(r)
           \/ NothingToCommit(r) \/ CommitRead(r)
           \/ NameTaken(r) \/ NameFreeOrUnknown(r) \/ Pushed(r) \/ GitFails(r)
  BY <1>5 DEF AgentEdits, CheckedOut, Staged, Committed, NothingToCommit, CommitRead,
              NameTaken, NameFreeOrUnknown, Pushed, GitFails
<1> QED BY <1>2, <1>3, <1>4, <1>5 DEF Work

\* The sweep marks a job only if it is finished and has aged for the whole retention period
\* when it is marked, whatever is saved between the sweep's list and its mark.
THEOREM MarksExpired == Spec => MarksOnlyExpired
<1>1. ASSUME Inv, [Next]_vars, ~row.removed, row'.removed
      PROVE  row.aged /\ row.state \in AtRest
  <2>1. row \in Row
    BY <1>1 DEF Inv, TypeOK
  <2>2. ~\E r \in Requests : Handler(r) \/ Work(r)
    BY <1>1, RequestsDoNotMark
  <2>3. ~\E n \in Names : OthersPush(n)
    BY <1>1 DEF OthersPush
  <2>4. ~Ages /\ ~Restart
    <3>1. ~Restart
      BY <1>1, RecoverySaves, SaveEffect DEF SavedFrom, Inv
    <3> QED BY <1>1, <2>1, <3>1 DEF Ages, Row
  <2>5. ~(Listed \/ Skipped \/ Revisited \/ DeletesSome \/ DeletesRest \/ DeleteFails \/ Crash)
    BY <1>1
    DEF Listed, Skipped, Revisited, DeletesSome, DeletesRest, DeleteFails, Crash
  <2>6. row' # row
    BY <1>1
  <2>7. Marked
    BY <1>1, <2>2, <2>3, <2>4, <2>5, <2>6 DEF Next, SweepStep, vars
  <2> QED BY <1>1, <2>7 DEF Marked, CanMark, Inv, SweepFits
<1>2. Inv /\ [Next]_vars => [~row.removed /\ row'.removed => row.aged /\ row.state \in AtRest]_vars
  BY <1>1
<1> QED BY <1>2, Invariant, PTL DEF Spec, MarksOnlyExpired

-----------------------------------------------------------------------------
(* The implementation is not lost                                          *)

\* There are edits in the working tree or in a commit.
Kept == tree # "base" \/ \E r \in Requests : commits[r].content # "base"

NotCommitted == {"new", "checkout", "add", "commit"}

\* A request commits once: what it has not committed yet replaces nothing.
CommitsOnce == \A r \in Requests : req[r].pc \in NotCommitted => commits[r].content = "base"

\* A row, or a copy some handler may still save, shows a diff only when there are edits.
DiffKept(rec) == rec.diff # "base" => Kept

WorkInv ==
  /\ CommitsOnce
  /\ DiffKept(row)
  /\ \A r \in Requests : DiffKept(req[r].copy)

\* A commit that is not overwritten keeps the edits.
LEMMA CommitsKeep ==
  ASSUME Kept, tree' # "base" \/ tree' = tree,
         \A r \in Requests : commits[r].content # "base" => commits'[r] = commits[r]
  PROVE  Kept'
BY DEF Kept

\* No step throws edits away: a checkout takes the tree back to the baseline only when a
\* commit holds them, and no commit replaces another.
LEMMA KeptStays ==
  ASSUME Inv, CommitsOnce, [Next]_vars, Kept
  PROVE  Kept'
<1>1. TypeOK /\ HeadExists
  BY DEF Inv
<1>2. ASSUME NEW r \in Requests, CheckedOut(r) PROVE Kept'
  <2>1. UNCHANGED commits /\ (tree' = tree \/ Content(Head) # "base")
    BY <1>2 DEF CheckedOut
  <2>2. CASE tree' = tree
    BY <2>1, <2>2, CommitsKeep
  <2>3. CASE Content(Head) # "base"
    <3>1. Head \in Requests /\ commits[Head].content # "base"
      BY <1>1, <2>3, HeadType DEF Content, CommitIds
    <3> QED BY <2>1, <3>1 DEF Kept
  <2> QED BY <2>1, <2>2, <2>3
<1>3. ASSUME NEW r \in Requests, Committed(r) PROVE Kept'
  <2>1. req[r].pc \in NotCommitted /\ tree' = tree
    BY <1>3 DEF Committed, NotCommitted
  <2>2. \A s \in Requests : commits[s].content # "base" => commits'[s] = commits[s]
    BY <1>1, <1>3, <2>1 DEF Committed, CommitsOnce, TypeOK
  <2> QED BY <2>1, <2>2, CommitsKeep
<1>4. ASSUME NEW r \in Requests, AgentEdits(r) PROVE Kept'
  BY <1>4 DEF AgentEdits, Kept
<1>5. ASSUME NEW r \in Requests, Handler(r) PROVE UNCHANGED <<tree, commits>>
  BY <1>5 DEF Handler, ImplementJob, CorrectValidation, CreateBranch, PushBranch, Begin, gitVars
<1>6. ASSUME NEW r \in Requests,
             Work(r), ~CheckedOut(r), ~Committed(r), ~AgentEdits(r)
      PROVE  UNCHANGED <<tree, commits>>
  BY <1>6 DEF Work, Enqueue, RunnerStarts, RunnerRefused, Collected, RunnerFails, Staged,
              NothingToCommit, CommitRead, BranchRecorded, NameTaken, NameFreeOrUnknown, Pushed,
              PushRecorded, GitFails, gitVars
<1>7. CASE DeletesSome
  BY <1>7 DEF DeletesSome, Kept
<1>8. CASE \/ \E n \in Names : OthersPush(n)
           \/ Ages \/ Listed \/ Marked \/ Skipped \/ Revisited \/ DeletesRest \/ DeleteFails
           \/ Crash \/ Restart \/ UNCHANGED vars
  <2>1. UNCHANGED <<tree, commits>>
    BY <1>8 DEF OthersPush, Ages, Listed, Marked, Skipped, Revisited, DeletesRest, DeleteFails,
                Crash, Restart, vars, gitVars
  <2> QED BY <2>1, CommitsKeep
<1>9. UNCHANGED <<tree, commits>> => Kept'
  BY CommitsKeep
<1> QED BY <1>2, <1>3, <1>4, <1>5, <1>6, <1>7, <1>8, <1>9 DEF Next, SweepStep

\* What a step of a request does to the request.
LEMMA WorkEffect ==
  ASSUME TypeOK, NEW r \in Requests, Work(r), ~RunnerStarts(r)
  PROVE  /\ \A s \in Requests \ {r} : req'[s] = req[s]
         /\ req'[r].copy = req[r].copy \/ req'[r] = Ended
         /\ ~CheckedOut(r) /\ ~Staged(r) => req'[r].pc \notin NotCommitted
<1> DEFINE Rest == {"queued", "collecting", "rev-parse", "push", "pushed"}
<1>0. req \in [Requests -> Request] /\ req[r] \in Request
  BY DEF TypeOK
<1>1. CASE End(r)
  BY <1>1, EndEffect DEF Ended, NotMade, NotCommitted
<1>2. CASE \E pc \in Rest \cup {"add", "commit"} : Goto(r, pc)
  <2>1. PICK pc \in Rest \cup {"add", "commit"} : Goto(r, pc)
    BY <1>2
  <2>2. req' = [req EXCEPT ![r].pc = pc]
    BY <2>1 DEF Goto
  <2>3. /\ \A s \in Requests \ {r} : req'[s] = req[s]
        /\ req'[r].copy = req[r].copy /\ req'[r].pc = pc
    BY <1>0, <2>2 DEF Request
  <2>4. ~CheckedOut(r) /\ ~Staged(r) => pc \in Rest
    <3>1. \/ CheckedOut(r) \/ Staged(r) \/ End(r)
          \/ req' = [req EXCEPT ![r].sha = Head, ![r].pc = "created"]
          \/ \E p \in Rest : req' = [req EXCEPT ![r].pc = p]
      BY DEF Work, Enqueue, RunnerRefused, AgentEdits, Collected, RunnerFails, Committed,
             NothingToCommit, CommitRead, BranchRecorded, NameTaken, NameFreeOrUnknown, Pushed,
             PushRecorded, GitFails, Goto
    <3>2. End(r) => pc = "done"
      BY <2>3, EndEffect DEF Ended, NotMade
    <3>3. req' = [req EXCEPT ![r].sha = Head, ![r].pc = "created"] => pc = "created"
      BY <1>0, <2>3 DEF Request
    <3>4. \A p \in Rest : req' = [req EXCEPT ![r].pc = p] => pc = p
      BY <1>0, <2>3 DEF Request
    <3>5. pc # "done" /\ pc # "created"
      OBVIOUS
    <3> QED BY <3>1, <3>2, <3>3, <3>4, <3>5
  <2> QED BY <2>3, <2>4 DEF NotCommitted
<1>3. CASE req' = [req EXCEPT ![r].sha = Head, ![r].pc = "created"]
  BY <1>0, <1>3 DEF Request, NotCommitted
<1>4. \/ End(r) \/ req' = [req EXCEPT ![r].sha = Head, ![r].pc = "created"]
      \/ \E pc \in Rest \cup {"add", "commit"} : Goto(r, pc)
  BY DEF Work, Enqueue, RunnerRefused, AgentEdits, Collected, RunnerFails, CheckedOut, Staged,
         Committed, NothingToCommit, CommitRead, BranchRecorded, NameTaken, NameFreeOrUnknown,
         Pushed, PushRecorded, GitFails
<1> QED BY <1>1, <1>2, <1>3, <1>4

\* A request that has committed never commits again.
LEMMA CommitsOnceStep ==
  ASSUME Inv, CommitsOnce, [Next]_vars
  PROVE  CommitsOnce'
<1>0. TypeOK
  BY DEF Inv
<1> SUFFICES ASSUME NEW s \in Requests, req'[s].pc \in NotCommitted
             PROVE  commits'[s].content = "base"
  BY DEF CommitsOnce
<1>1. ASSUME NEW r \in Requests, Handler(r) PROVE commits'[s].content = "base"
  <2>1. UNCHANGED commits /\ req[r].pc = "new"
    BY <1>1 DEF Handler, ImplementJob, CorrectValidation, CreateBranch, PushBranch, Begin, gitVars
  <2>2. s # r => req'[s] = req[s]
    BY <1>0, <1>1
    DEF Handler, ImplementJob, CorrectValidation, CreateBranch, PushBranch, Begin, TypeOK
  <2> QED BY <2>1, <2>2 DEF CommitsOnce, NotCommitted
<1>2. ASSUME NEW r \in Requests, Work(r) PROVE commits'[s].content = "base"
  <2>1. s # r => req'[s] = req[s] /\ commits'[s] = commits[s]
    BY <1>0, <1>2
    DEF Work, Enqueue, RunnerStarts, RunnerRefused, AgentEdits, Collected, RunnerFails,
        CheckedOut, Staged, Committed, NothingToCommit, CommitRead, BranchRecorded, NameTaken,
        NameFreeOrUnknown, Pushed, PushRecorded, GitFails, Goto, End, gitVars, TypeOK
  <2>2. CASE s = r /\ (CheckedOut(r) \/ Staged(r))
    BY <1>2, <2>2 DEF CheckedOut, Staged, CommitsOnce, NotCommitted
  <2>3. CASE s = r /\ ~CheckedOut(r) /\ ~Staged(r)
    <3>1. CASE RunnerStarts(r)
      <4>1. req'[r].pc = "editing"
        BY <1>0, <3>1 DEF RunnerStarts, TypeOK, Request
      <4> QED BY <2>3, <4>1 DEF NotCommitted
    <3>2. CASE ~RunnerStarts(r)
      BY <1>0, <1>2, <2>3, <3>2, WorkEffect
    <3> QED BY <3>1, <3>2
  <2> QED BY <2>1, <2>2, <2>3 DEF CommitsOnce
<1>3. CASE Crash
  <2>1. UNCHANGED commits /\ (req[s].pc # "new" => req'[s].pc = "done")
    BY <1>3 DEF Crash, Ended, NotMade, gitVars
  <2> QED BY <2>1 DEF CommitsOnce, NotCommitted
<1>4. CASE \/ \E n \in Names : OthersPush(n)
           \/ Ages \/ SweepStep \/ DeleteFails \/ Restart \/ UNCHANGED vars
  <2>1. UNCHANGED <<commits, req>>
    BY <1>4 DEF OthersPush, Ages, SweepStep, Listed, Marked, Skipped, Revisited, DeletesSome,
                DeletesRest, DeleteFails, Restart, vars, gitVars
  <2> QED BY <2>1 DEF CommitsOnce
<1> QED BY <1>1, <1>2, <1>3, <1>4 DEF Next

\* Where a diff comes from: a row or a copy that shows one, or the working tree.
Diffs == {row.diff, tree, "base"} \cup {req[r].copy.diff : r \in Requests}

LEMMA DiffsAreKept ==
  ASSUME WorkInv, NEW d \in Diffs, d # "base"
  PROVE  Kept
<1>1. d = tree => Kept
  BY DEF Kept
<1> QED BY <1>1 DEF WorkInv, DiffKept, Diffs

\* Every diff a step saves or copies was there before.
LEMMA DiffsCopied ==
  ASSUME Inv, [Next]_vars
  PROVE  row'.diff \in Diffs /\ \A s \in Requests : req'[s].copy.diff \in Diffs
<1>0. /\ TypeOK /\ row \in Row /\ row.diff \in Diffs
      /\ \A s \in Requests : req[s] \in Request /\ req[s].copy \in Row /\ req[s].copy.diff \in Diffs
      /\ tree \in Diffs /\ "base" \in Diffs
  BY DEF Inv, TypeOK, Request, Diffs
<1> HIDE DEF Diffs
<1>1. ASSUME NEW r \in Requests, Handler(r)
      PROVE  row'.diff \in Diffs /\ \A s \in Requests : req'[s].copy.diff \in Diffs
  <2>1. UNCHANGED row
    BY <1>1 DEF Handler, ImplementJob, CorrectValidation, CreateBranch, PushBranch, Begin
  <2>2. \A s \in Requests : req'[s].copy = row \/ req'[s] = req[s]
    BY <1>0, <1>1
    DEF Handler, ImplementJob, CorrectValidation, CreateBranch, PushBranch, Begin, TypeOK
  <2> QED BY <1>0, <2>1, <2>2
<1>2. ASSUME NEW r \in Requests, Work(r)
      PROVE  row'.diff \in Diffs /\ \A s \in Requests : req'[s].copy.diff \in Diffs
  <2>1. row'.diff \in Diffs
    <3>1. CASE Enqueue(r) \/ BranchRecorded(r) \/ PushRecorded(r)
      <4>1. row'.diff = req[r].copy.diff
        BY <1>0, <3>1 DEF Enqueue, BranchRecorded, PushRecorded, Save, Row
      <4> QED BY <1>0, <4>1
    <3>2. CASE Collected(r) \/ RunnerFails(r)
      <4>1. row'.diff \in {tree, req[r].copy.diff}
        <5>1. RunnerFails(r) => row'.diff \in {tree, req[r].copy.diff}
          BY <1>0, RunFailureSaves, SaveEffect DEF SavedFrom
        <5> QED BY <1>0, <3>2, <5>1 DEF Collected, Save, Row
      <4> QED BY <1>0, <4>1
    <3>3. CASE RunnerStarts(r) \/ RunnerRefused(r)
      <4>1. row'.diff \in {tree, row.diff}
        <5>1. RunnerRefused(r) => row'.diff \in {tree, row.diff}
          BY <1>0, RefusalSaves, SaveEffect DEF SavedFrom
        <5> QED BY <1>0, <3>3, <5>1 DEF RunnerStarts, Save, Row
      <4> QED BY <1>0, <4>1
    <3>4. CASE \/ AgentEdits(r) \/ CheckedOut(r) \/ Staged(r) \/ Committed(r)
               \/ NothingToCommit(r) \/ CommitRead(r)
               \/ NameTaken(r) \/ NameFreeOrUnknown(r) \/ Pushed(r) \/ GitFails(r)
      BY <1>0, <3>4
      DEF AgentEdits, CheckedOut, Staged, Committed, NothingToCommit, CommitRead, NameTaken,
          NameFreeOrUnknown, Pushed, GitFails
    <3> QED BY <1>2, <3>1, <3>2, <3>3, <3>4 DEF Work
  <2>2. \A s \in Requests : req'[s].copy.diff \in {req[s].copy.diff, row.diff, "base"}
    <3>1. CASE RunnerStarts(r)
      <4>1. req'[r].copy.diff = row.diff
        BY <1>0, <3>1 DEF RunnerStarts, TypeOK, Request, Row
      <4>2. \A s \in Requests \ {r} : req'[s] = req[s]
        BY <1>0, <3>1 DEF RunnerStarts, TypeOK
      <4> QED BY <4>1, <4>2
    <3>2. CASE ~RunnerStarts(r)
      <4>1. /\ req'[r].copy = req[r].copy \/ req'[r] = Ended
            /\ \A s \in Requests \ {r} : req'[s] = req[s]
        BY <1>0, <1>2, <3>2, WorkEffect
      <4>2. Ended.copy.diff = "base"
        BY DEF Ended, NotMade, Planned
      <4> QED BY <4>1, <4>2
    <3> QED BY <3>1, <3>2
  <2> QED BY <1>0, <2>1, <2>2
<1>3. CASE \/ \E n \in Names : OthersPush(n)
           \/ Ages \/ SweepStep \/ DeleteFails \/ Crash \/ Restart \/ UNCHANGED vars
  <2>1. row'.diff \in {tree, row.diff}
    <3>1. Restart => row'.diff \in {tree, row.diff}
      BY <1>0, RecoverySaves, SaveEffect DEF SavedFrom
    <3> QED BY <1>0, <1>3, <3>1
        DEF OthersPush, Ages, SweepStep, Listed, Marked, Skipped, Revisited, DeletesSome,
            DeletesRest, DeleteFails, Crash, vars, Row
  <2>2. CASE Crash
    <3>1. \A s \in Requests : req'[s].copy.diff = "base"
      BY <2>2 DEF Crash, Ended, NotMade, Planned
    <3> QED BY <1>0, <2>1, <3>1
  <2>3. CASE ~Crash
    <3>1. UNCHANGED req
      BY <1>3, <2>3
      DEF OthersPush, Ages, SweepStep, Listed, Marked, Skipped, Revisited, DeletesSome,
          DeletesRest, DeleteFails, Restart, vars
    <3> QED BY <1>0, <2>1, <3>1
  <2> QED BY <2>2, <2>3
<1> QED BY <1>1, <1>2, <1>3 DEF Next

LEMMA WorkStep ==
  ASSUME Inv, WorkInv, [Next]_vars
  PROVE  WorkInv'
<1>1. CommitsOnce'
  BY CommitsOnceStep DEF WorkInv
<1>2. ASSUME NEW d \in Diffs, d # "base" PROVE Kept'
  BY <1>2, DiffsAreKept, KeptStays DEF WorkInv
<1>3. DiffKept(row)' /\ \A r \in Requests : DiffKept(req[r].copy)'
  BY <1>2, DiffsCopied DEF DiffKept
<1> QED BY <1>1, <1>3 DEF WorkInv

\* The edits of an implementation that has a diff stay in the working tree or in a commit
\* until the sweep deletes them: with any number of branch requests whose git commands
\* interleave, of commands that fail and of crashes, no checkout and no commit loses them.
THEOREM WorkKept == Spec => []WorkIsKept
<1>1. Init => WorkInv
  BY DEF Init, WorkInv, CommitsOnce, DiffKept, Planned, NotMade
<1>2. Inv /\ WorkInv /\ [Next]_vars => WorkInv'
  BY WorkStep
<1>3. WorkInv => WorkIsKept
  BY DEF WorkInv, DiffKept, Kept, WorkIsKept
<1> QED BY <1>1, <1>2, <1>3, Invariant, PTL DEF Spec

=============================================================================
