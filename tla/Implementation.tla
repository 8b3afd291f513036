--------------------------- MODULE Implementation ---------------------------
(***************************************************************************)
(* What the implementation agent, the conversion of line endings, the diff *)
(* and the validation do to the files of one job, and what the job then    *)
(* claims about them (backend/app/jobs/runner.py, steps/implement_agent.py,*)
(* steps/line_endings.py, steps/validation_runner.py).                     *)
(*                                                                         *)
(* A file is the set of agent runs whose edits it contains and its line    *)
(* endings.  The conversions go file by file in a thread, pass over a file *)
(* that cannot be read or written, and can be cut off by a stop; the       *)
(* agent's thread can outlive the call that waits for it.                  *)
(***************************************************************************)
EXTENDS Naturals

CONSTANTS
  Files,     \* text files the conversion looks at
  Manifest,  \* the one that declares npm dependencies
  Bases,     \* the line endings of the files, in each repository of the instance
  Profiles,  \* what validation finds and may run, in each repository: python tools, npm scripts
  GitFails,  \* git may fail to produce a diff
  MaxStops,  \* bound on crashes
  None       \* no diff, no dependencies, nothing validated

Eols == {"lf", "crlf", "mixed"}
Runs == {"implement", "correct"}

ASSUME ManifestAssumption == Manifest \in Files
ASSUME BasesAssumption == Bases \subseteq [Files -> Eols]
ASSUME ProfilesAssumption == Profiles \subseteq SUBSET {"python", "npm"}
ASSUME GitFailsAssumption == GitFails \in BOOLEAN
ASSUME MaxStopsAssumption == MaxStops \in Nat

VARIABLES
  tree,     \* the working tree of the clone
  base,     \* the line endings of the baseline commit, whose files no run has edited
  profile,  \* what validation finds and may run
  job,      \* the job's row, as far as it is about files
  run,      \* the runner's coroutine
  agents,   \* the runs whose agent thread is going
  copy,     \* the validation copy: its tree, its node_modules and the manifest that is of
  excused,  \* history: the tree changed behind the runner's back, or git failed, since the diff
  unsettled,\* history: files of consistent endings that a stop, an agent or a conversion that
            \* passed over them left with others
  stops

vars == <<tree, base, profile, job, run, agents, copy, excused, unsettled, stops>>
history == <<excused, unsettled, stops>>

Content == [edits : SUBSET Runs, eol : Eols]
Tree == [Files -> Content]
ASSUME NoneIsNoTree == None \notin Tree
Commands == {"npm install", "python", "npm"}
Statuses == {"none", "passed", "failed", "skipped"}

Job ==
  [ state     : {"IMPLEMENTATION_QUEUED", "IMPLEMENTING", "VALIDATING", "IMPLEMENTATION_READY",
                 "CORRECTING", "REVALIDATING", "IMPLEMENTATION_FAILED"},
    claims    : BOOLEAN,           \* implementation_result lists changed files
    diff      : Tree \cup {None},  \* implementation_diff: the tree it shows
    results   : [Commands -> Statuses],
    validated : Tree \cup {None},  \* the tree the results are about
    installed : BOOLEAN,           \* the npm result had its dependencies
    started   : BOOLEAN,           \* implementation_correction_started_at
    attempted : BOOLEAN,           \* implementation_correction_attempted
    failed    : BOOLEAN ]          \* implementation_correction_error

Runner ==
  [ pc        : {"none", "normalize", "agent", "restore", "diff", "prepare", "python", "install",
                 "npm", "failing", "recover"},
    of        : Runs,
    todo      : SUBSET Files,      \* files the conversion has not come to yet
    converted : SUBSET Files,      \* converted_line_endings
    answer    : {"none", "claims", "no claims", "error"},
    results   : [Commands -> Statuses] ]

ImplementationTypeOK ==
  /\ tree \in Tree /\ base \in [Files -> Eols]
  /\ profile \subseteq {"python", "npm"}
  /\ job \in Job /\ run \in Runner
  /\ agents \subseteq Runs
  /\ copy \in [tree : Tree \cup {None}, modules : {"none", "partial", "complete"}, of : SUBSET Runs]
  /\ excused \in BOOLEAN /\ unsettled \subseteq Files /\ stops \in 0..MaxStops
  /\ run.pc # "none" => job.state \notin {"IMPLEMENTATION_READY", "IMPLEMENTATION_FAILED"}

NoResults == [c \in Commands |-> "none"]
Idle == [pc |-> "none", of |-> "implement", todo |-> {}, converted |-> {}, answer |-> "none",
         results |-> NoResults]

ImplementationInit ==
  /\ base \in Bases
  /\ tree = [f \in Files |-> [edits |-> {}, eol |-> base[f]]]
  /\ profile \in Profiles
  /\ job = [state |-> "IMPLEMENTATION_QUEUED", claims |-> FALSE, diff |-> None,
            results |-> NoResults, validated |-> None, installed |-> TRUE, started |-> FALSE,
            attempted |-> FALSE, failed |-> FALSE]
  /\ run = Idle /\ agents = {}
  /\ copy = [tree |-> None, modules |-> "none", of |-> {}]
  /\ excused = FALSE /\ unsettled = {} /\ stops = 0

Baseline == [f \in Files |-> [edits |-> {}, eol |-> base[f]]]
Changed(diff) == diff # None /\ diff # Baseline

-----------------------------------------------------------------------------
(* Starting: run_implementation, run_validation_correction                 *)

Begin(of) == run' = [Idle EXCEPT !.pc = "normalize", !.of = of, !.todo = Files]

StartImplementation ==
  /\ run.pc = "none" /\ job.state = "IMPLEMENTATION_QUEUED"
  /\ Begin("implement")
  /\ job' = [job EXCEPT !.state = "IMPLEMENTING"]
  /\ UNCHANGED <<tree, base, profile, agents, copy, history>>

\* correctable_failures: no edit mends a failed installation.
CorrectableFailures(results) == {c \in Commands \ {"npm install"} : results[c] = "failed"}

\* correct_validation
CorrectValidation ==
  /\ job.state = "IMPLEMENTATION_READY" /\ ~job.attempted
  /\ CorrectableFailures(job.results) # {}
  /\ job' = [job EXCEPT !.state = "CORRECTING", !.started = FALSE]
  /\ UNCHANGED <<tree, base, profile, run, agents, copy, history>>

StartCorrection ==
  /\ run.pc = "none" /\ job.state = "CORRECTING"
  /\ \/ Begin("correct") /\ job' = [job EXCEPT !.started = TRUE]
     \/ run' = [Idle EXCEPT !.pc = "failing", !.of = "correct"] /\ UNCHANGED job  \* spend limit
  /\ UNCHANGED <<tree, base, profile, agents, copy, history>>

-----------------------------------------------------------------------------
(* Line endings around the agent                                           *)

\* A file whose conversion is still to be undone.
InFlux(f) == \/ run.pc \in {"normalize", "agent"} /\ f \in run.converted
             \/ run.pc = "restore" /\ f \in run.todo

\* The history: the files fs may keep other line endings than those of the baseline.
Unsettle(fs) == unsettled' = unsettled \cup {f \in fs : base[f] # "mixed"}

\* normalize_to_lf, at the file f, which an OSError leaves as it is
NormalizeToLf(f) ==
  /\ run.pc = "normalize" /\ f \in run.todo
  /\ \/ /\ tree' = [tree EXCEPT ![f].eol = "lf"]
        /\ run' = [run EXCEPT !.todo = @ \ {f},
                              !.converted = IF tree[f].eol = "lf" THEN @ ELSE @ \cup {f}]
     \/ run' = [run EXCEPT !.todo = @ \ {f}] /\ UNCHANGED tree
  /\ UNCHANGED <<base, profile, job, agents, copy, history>>

\* implement_plan is called.
CallAgent ==
  /\ run.pc = "normalize" /\ run.todo = {}
  /\ run' = [run EXCEPT !.pc = "agent"]
  /\ agents' = agents \cup {run.of}
  /\ UNCHANGED <<tree, base, profile, job, copy, history>>

\* Variant: only files with edits are restored.
RestoreEdited(f) ==
  /\ run.pc = "restore" /\ f \in run.todo
  /\ tree' = IF tree[f].edits = {} THEN tree ELSE [tree EXCEPT ![f].eol = "crlf"]
  /\ run' = [run EXCEPT !.todo = @ \ {f}]
  /\ UNCHANGED <<base, profile, job, agents, copy, history>>

\* restore_original_line_endings, at the file f; after an OSError it stays converted, and
\* nothing says so.
RestoreLineEndings(f) ==
  /\ run.pc = "restore" /\ f \in run.todo
  /\ \/ tree' = [tree EXCEPT ![f].eol = "crlf"] /\ UNCHANGED unsettled
     \/ Unsettle({f}) /\ UNCHANGED tree
  /\ run' = [run EXCEPT !.todo = @ \ {f}]
  /\ UNCHANGED <<base, profile, job, agents, copy, excused, stops>>

\* What is raised goes to the except clauses, a result to the diff; a correction is
\* REVALIDATING from here.
Restored ==
  /\ run.pc = "restore" /\ run.todo = {}
  /\ run' = [run EXCEPT !.pc = IF run.answer = "error" THEN "failing" ELSE "diff"]
  /\ job' = IF run.of = "correct" /\ run.answer # "error"
            THEN [job EXCEPT !.state = "REVALIDATING"] ELSE job
  /\ UNCHANGED <<tree, base, profile, agents, copy, history>>

-----------------------------------------------------------------------------
(* The agent                                                               *)

\* Whether the runner is still waiting for this thread.
Awaited(a) == run.pc = "agent" /\ run.of = a

\* A tool call of the agent edits f, which may change its line endings, or takes back every
\* edit: in place, by rewriting the file, or from the commit.
AgentEdits(a, f) ==
  /\ a \in agents
  /\ \E edits \in SUBSET Runs, eol \in Eols :
       /\ \/ /\ a \notin tree[f].edits /\ edits = tree[f].edits \cup {a}
             /\ eol \in {tree[f].eol, "lf", "mixed"}
          \/ /\ tree[f].edits # {} /\ edits = {}
             /\ eol \in {tree[f].eol, "lf", base[f]}
       /\ tree' = [tree EXCEPT ![f] = [edits |-> edits, eol |-> eol]]
       /\ Unsettle(IF eol = base[f] \/ InFlux(f) THEN {} ELSE {f})
  /\ excused' = (excused \/ ~Awaited(a))
  /\ UNCHANGED <<base, profile, job, run, agents, copy, stops>>

\* How execute_agent's outcome is classified by implement_plan: a result, or an error.
AgentAnswers ==
  [subtype : {"success", "max_turns", "budget", "retries", "other"},
   output  : {"none", "invalid", "claims", "no claims"}]
Classified(answer) ==
  IF answer.subtype = "success" /\ answer.output \in {"claims", "no claims"}
  THEN answer.output ELSE "error"

Return(answer) == run' = [run EXCEPT !.pc = "restore", !.todo = run.converted, !.answer = answer]

AgentReturns ==
  /\ run.pc = "agent"
  /\ \E answer \in AgentAnswers : Return(Classified(answer))
  /\ agents' = agents \ {run.of}
  /\ UNCHANGED <<tree, base, profile, job, copy, history>>

\* wait_for gives up; the thread goes on.
AgentTimesOut ==
  /\ run.pc = "agent"
  /\ Return("error")
  /\ UNCHANGED <<tree, base, profile, job, agents, copy, history>>

LateAgentEnds(a) ==
  /\ a \in agents /\ ~Awaited(a)
  /\ agents' = agents \ {a}
  /\ UNCHANGED <<tree, base, profile, job, run, copy, history>>

-----------------------------------------------------------------------------
(* The diff                                                                *)

\* _collect_implementation_diff: the staged tree against the baseline, None when git fails.
Collected == {tree} \cup (IF GitFails THEN {None} ELSE {})

\* The history: the diff just recorded is of the tree, or git failed.
Excuse(diff) == excused' = (diff = None)

\* Whether the result lists files: the agent's own list, or the diff's if it has none.
Lists(diff) == run.answer = "claims" \/ Changed(diff)

\* Variant: what the result claims is believed.
CollectDiffUnchecked ==
  /\ run.pc = "diff" /\ run.of = "implement"
  /\ run' = [run EXCEPT !.pc = "prepare"]
  /\ \E diff \in Collected :
       /\ job' = [job EXCEPT !.state = "VALIDATING", !.diff = diff,
                             !.claims = Lists(diff)]
       /\ Excuse(diff)
  /\ UNCHANGED <<tree, base, profile, agents, copy, unsettled, stops>>

\* run_implementation: claimed changes must be in the diff.
CollectDiff ==
  /\ run.pc = "diff" /\ run.of = "implement"
  /\ \E diff \in Collected :
       IF run.answer = "claims" /\ ~Changed(diff)
       THEN run' = [run EXCEPT !.pc = "failing"] /\ UNCHANGED <<job, excused>>
       ELSE /\ run' = [run EXCEPT !.pc = "prepare"]
            /\ job' = [job EXCEPT !.state = "VALIDATING", !.diff = diff,
                                  !.claims = Lists(diff)]
            /\ Excuse(diff)
  /\ UNCHANGED <<tree, base, profile, agents, copy, unsettled, stops>>

\* Variant: the correction is ready for review while its validation runs.
CollectDiffReady ==
  /\ run.pc = "diff" /\ run.of = "correct"
  /\ run' = [run EXCEPT !.pc = "prepare"]
  /\ \E diff \in Collected :
       /\ job' = [job EXCEPT !.state = "IMPLEMENTATION_READY", !.diff = IF diff # None THEN diff ELSE @]
       /\ Excuse(diff)
  /\ UNCHANGED <<tree, base, profile, agents, copy, unsettled, stops>>

\* run_validation_correction: a diff that cannot be collected leaves the recorded one.
CollectCorrectionDiff ==
  /\ run.pc = "diff" /\ run.of = "correct"
  /\ run' = [run EXCEPT !.pc = "prepare"]
  /\ \E diff \in Collected :
       /\ job' = [job EXCEPT !.diff = IF diff # None THEN diff ELSE @]
       /\ Excuse(diff)
  /\ UNCHANGED <<tree, base, profile, agents, copy, unsettled, stops>>

\* _refresh_diff_best_effort: only a diff with files replaces the recorded one.
Refreshed(diff) == IF Changed(diff) THEN diff ELSE job.diff

\* _record_correction_failure
CorrectionFailure(j, used) ==
  [j EXCEPT !.state = "IMPLEMENTATION_READY", !.failed = TRUE, !.attempted = @ \/ used]

\* Variant: the diff is left as it was.
FailUnrefreshed ==
  /\ run.pc = "failing"
  /\ job' = IF run.of = "implement" THEN [job EXCEPT !.state = "IMPLEMENTATION_FAILED"]
            ELSE CorrectionFailure(job, job.started)
  /\ run' = Idle
  /\ UNCHANGED <<tree, base, profile, agents, copy, excused, unsettled, stops>>

\* The except clauses of both runners.
Fail ==
  /\ run.pc = "failing"
  /\ \E diff \in Collected :
       LET j == [job EXCEPT !.diff = Refreshed(diff)]
       IN  /\ job' = IF run.of = "implement" THEN [j EXCEPT !.state = "IMPLEMENTATION_FAILED"]
                     ELSE CorrectionFailure(j, job.started)
           /\ Excuse(diff)
  /\ run' = Idle
  /\ UNCHANGED <<tree, base, profile, agents, copy, unsettled, stops>>

-----------------------------------------------------------------------------
(* Validation: validate_workspace and what it calls                        *)

Go(pc, results) == run' = [run EXCEPT !.pc = pc, !.results = results]

\* A failed copy, an environment that looks secret-bearing, a launch that fails.
ValidationRaises ==
  /\ run.pc \in {"prepare", "python", "install", "npm"}
  /\ run' = [run EXCEPT !.pc = "failing"]
  /\ UNCHANGED <<tree, base, profile, job, agents, copy, history>>

\* Variant: the copy of the first validation is used again.
PrepareCopyOnce ==
  /\ run.pc = "prepare" /\ profile # {}
  /\ copy' = IF copy.tree = None THEN [copy EXCEPT !.tree = tree] ELSE copy
  /\ run' = [run EXCEPT !.pc = "python"]
  /\ UNCHANGED <<tree, base, profile, job, agents, history>>

\* prepare_validation_copy: a copy of the tree, in which an earlier node_modules stays.
PrepareCopy ==
  /\ run.pc = "prepare" /\ profile # {}
  /\ copy' = [copy EXCEPT !.tree = tree]
  /\ run' = [run EXCEPT !.pc = "python"]
  /\ UNCHANGED <<tree, base, profile, job, agents, history>>

\* _run_command_sync: a verdict, or the tool is missing; a timeout counts as failed.
Verdicts == {"passed", "failed", "skipped"}

\* _python_commands: ruff and pytest, as one
RunPython ==
  /\ run.pc = "python"
  /\ \E v \in IF "python" \in profile THEN Verdicts ELSE {"none"} :
       Go("install", [run.results EXCEPT !["python"] = v])
  /\ UNCHANGED <<tree, base, profile, job, agents, copy, history>>

Complete == [copy EXCEPT !.modules = "complete", !.of = copy.tree[Manifest].edits]

\* Variant: a failed installation is reported, and the scripts run all the same.
InstallAndGoOn ==
  /\ run.pc = "install" /\ "npm" \in profile
  /\ \E v \in Verdicts :
       /\ Go("npm", [run.results EXCEPT !["npm install"] = v])
       /\ copy' = IF v = "passed" THEN Complete ELSE copy
  /\ UNCHANGED <<tree, base, profile, job, agents, history>>

\* npm_install_command and its run: only without a node_modules, of which a failure may leave
\* a part; the npm scripts are skipped unless it passed.
Install ==
  /\ run.pc = "install" /\ "npm" \in profile
  /\ \/ /\ copy.modules # "none"
        /\ Go("npm", run.results) /\ UNCHANGED copy
     \/ /\ copy.modules = "none"
        /\ \/ /\ Go("npm", [run.results EXCEPT !["npm install"] = "passed"])
              /\ copy' = Complete
           \/ /\ Go("npm", [run.results EXCEPT !["npm install"] = "failed", !["npm"] = "skipped"])
              /\ copy' \in {copy, [copy EXCEPT !.modules = "partial"]}
           \/ /\ Go("npm", [run.results EXCEPT !["npm install"] = "skipped", !["npm"] = "skipped"])
              /\ UNCHANGED copy
  /\ UNCHANGED <<tree, base, profile, job, agents, history>>

Installed == copy.modules = "complete" /\ copy.of = copy.tree[Manifest].edits

\* The row after a validation.
Validated(results, validated, installed) ==
  [job EXCEPT !.state = "IMPLEMENTATION_READY", !.results = results, !.validated = validated,
              !.installed = installed, !.attempted = @ \/ run.of = "correct"]

\* _node_commands: npm lint and npm test, as one; and the end of _run_profiles
RunNpm ==
  /\ run.pc = "npm"
  /\ \E v \in IF run.results["npm"] = "skipped" THEN {"skipped"} ELSE Verdicts :
       job' = Validated([run.results EXCEPT !["npm"] = v], copy.tree, v = "skipped" \/ Installed)
  /\ run' = Idle
  /\ UNCHANGED <<tree, base, profile, agents, copy, history>>

NoNpm ==
  /\ run.pc = "install" /\ "npm" \notin profile
  /\ job' = Validated(run.results, copy.tree, TRUE)
  /\ run' = Idle
  /\ UNCHANGED <<tree, base, profile, agents, copy, history>>

\* _blocked_reason, or no recognized profile
NothingToValidate ==
  /\ run.pc = "prepare" /\ profile = {}
  /\ job' = Validated(NoResults, None, TRUE)
  /\ run' = Idle
  /\ UNCHANGED <<tree, base, profile, agents, copy, history>>

-----------------------------------------------------------------------------
(* A stop of the process, and the recovery at its next start               *)

Crash ==
  /\ stops < MaxStops /\ job.state \notin {"IMPLEMENTATION_READY", "IMPLEMENTATION_FAILED"}
  /\ stops' = stops + 1
  /\ Unsettle({f \in Files : InFlux(f)})
  /\ run' = [Idle EXCEPT !.pc = "recover"] /\ agents' = {}
  /\ UNCHANGED <<tree, base, profile, job, copy, excused>>

\* recover_interrupted_jobs
Recover ==
  /\ run.pc = "recover"
  /\ \E diff \in Collected :
       LET j == [job EXCEPT !.diff = Refreshed(diff)]
       IN  /\ job' = IF job.state \in {"CORRECTING", "REVALIDATING"}
                     THEN CorrectionFailure(j, job.started)
                     ELSE [j EXCEPT !.state = "IMPLEMENTATION_FAILED"]
           /\ Excuse(diff)
  /\ run' = Idle
  /\ UNCHANGED <<tree, base, profile, agents, copy, unsettled, stops>>

ImplementationNext ==
  \/ StartImplementation \/ CorrectValidation \/ StartCorrection
  \/ \E f \in Files : NormalizeToLf(f) \/ RestoreLineEndings(f)
  \/ CallAgent \/ AgentReturns \/ AgentTimesOut \/ Restored
  \/ \E a \in Runs : LateAgentEnds(a) \/ \E f \in Files : AgentEdits(a, f)
  \/ CollectDiff \/ CollectCorrectionDiff \/ Fail
  \/ ValidationRaises \/ PrepareCopy \/ RunPython \/ Install \/ RunNpm
  \/ NoNpm \/ NothingToValidate
  \/ Crash \/ Recover

ImplementationSpec == ImplementationInit /\ [][ImplementationNext]_vars

-----------------------------------------------------------------------------
(* Properties                                                              *)

Ready == job.state = "IMPLEMENTATION_READY"

\* A file that no run has edited, shown as changed because of its line endings.
Noise == IF job.diff = None THEN {}
         ELSE {f \in Files : job.diff[f].edits = {} /\ job.diff[f].eol # base[f]}

\* A file of consistent line endings shows up in a diff for its endings alone only if a stop
\* cut a conversion off, a conversion passed over it, or an agent that found or left it outside
\* the conversions changed its endings: what is converted around an agent's call is restored,
\* whatever the agent did to it and however the call ended (line_endings.py; runner.py).
NoiseIsExplained == \A f \in Noise : base[f] = "mixed" \/ f \in unsettled

\* As the comments of both say: whatever happens, a reviewed diff has no noise in a file of
\* consistent line endings.
NoLineEndingNoise == Ready => \A f \in Noise : base[f] = "mixed"

\* An implementation that claims changes and passes the check of runner.py has some: an edit,
\* or else other line endings in a file of mixed ones (which the conversions make consistent) or
\* in one of the files of NoiseIsExplained.  Without such a file an agent that claims edits and
\* made none is not believed.
NoHollowSuccess ==
  job.state = "VALIDATING" \/ (Ready /\ ~job.attempted) =>
    (job.claims => /\ job.diff # None
                   /\ \/ \E f \in Files : job.diff[f].edits # {}
                      \/ \E f \in Noise : base[f] = "mixed" \/ f \in unsettled)

\* What is up for review is what is in the working tree and what a branch would commit, unless
\* git failed, a late agent edited on, or a correction took everything back.
ReviewShowsTree == Ready => job.diff = tree \/ tree = Baseline \/ excused

\* The results next to a reviewed diff are about that diff, unless the correction failed.
ResultsMatchDiff ==
  Ready /\ ~job.failed /\ ~excused /\ job.validated # None => job.validated = job.diff

\* The npm verdict on an implementation is one its dependencies were installed for: a failed
\* installation skips it (validation_runner.py, _run_profiles).
VerdictNeedsInstall == Ready /\ ~job.attempted => job.installed

=============================================================================
