----------------------- MODULE Implementation_proofs -----------------------
(***************************************************************************)
(* Proofs about Implementation, for every set of files, any repositories,  *)
(* any number of stops, and whether git may fail or not.                   *)
(*                                                                         *)
(* FilesInv has one part for each question: where the runner is and what   *)
(* the row says (Fits), how the line endings of a file differ from those   *)
(* of its baseline while they are converted (Endings), what was checked    *)
(* before the first correction (FirstRun), which tree the diff and the     *)
(* copy show (Current), and the dependencies (Dependencies).               *)
(***************************************************************************)
EXTENDS Implementation, TLAPS

Validating == {"prepare", "python", "install", "npm"}
Copying == {"python", "install", "npm"}

Types ==
  /\ tree \in Tree /\ base \in [Files -> Eols]
  /\ profile \subseteq {"python", "npm"}
  /\ job \in Job /\ run \in Runner
  /\ agents \subseteq Runs
  /\ copy \in [tree : Tree \cup {None}, modules : {"none", "partial", "complete"}, of : SUBSET Runs]
  /\ excused \in BOOLEAN /\ unsettled \subseteq Files /\ stops \in 0..MaxStops

\* Where the runner is, and what the row says of it.
Fits ==
  /\ run.pc = "none" =>
       job.state \in {"IMPLEMENTATION_QUEUED", "IMPLEMENTATION_READY", "CORRECTING",
                      "IMPLEMENTATION_FAILED"}
  /\ run.of = "implement" =>
       /\ run.pc \in {"normalize", "agent", "restore", "diff"} => job.state = "IMPLEMENTING"
       /\ run.pc \in Validating => job.state = "VALIDATING"
       /\ run.pc = "failing" => job.state \in {"IMPLEMENTING", "VALIDATING"}
  /\ run.of = "correct" =>
       /\ run.pc \in {"normalize", "agent", "restore"} => job.state = "CORRECTING" /\ job.started
       /\ run.pc \in {"diff"} \cup Validating => job.state = "REVALIDATING"
       /\ run.pc = "failing" => job.state \in {"CORRECTING", "REVALIDATING"}
  /\ run.pc = "recover" => job.state \notin {"IMPLEMENTATION_READY", "IMPLEMENTATION_FAILED"}
  /\ run.pc \in Copying => copy.tree \in Tree
  /\ job.state = "REVALIDATING" => job.started
  /\ job.state \in {"IMPLEMENTATION_QUEUED", "IMPLEMENTING", "VALIDATING"} =>
       ~job.started /\ ~job.attempted
  /\ job.state = "IMPLEMENTATION_READY" => (job.started => job.attempted)
  /\ job.state \in {"CORRECTING", "REVALIDATING"} => ~job.attempted

\* The line endings: of a file of the tree, during the conversion, and in the diff.
Endings ==
  /\ \A f \in Files : tree[f].eol = base[f] \/ base[f] = "mixed" \/ f \in unsettled \/ InFlux(f)
  /\ \A f \in Files : (InFlux(f) /\ base[f] = "lf") => f \in unsettled
  /\ job.diff # None =>
       \A f \in Files : job.diff[f].eol = base[f] \/ base[f] = "mixed" \/ f \in unsettled

Reviewed == job.state \in {"VALIDATING", "IMPLEMENTATION_READY", "CORRECTING"}

\* Before the first correction starts, what the result claims was checked.
FirstRun == (Reviewed /\ ~job.started /\ job.claims) => Changed(job.diff)

\* The diff, the copy and the tree.
Current ==
  /\ (run.pc \in Validating /\ ~excused) => job.diff = tree
  /\ (run.pc \in Copying /\ ~excused) => copy.tree = tree
  /\ Ready => (job.diff = tree \/ tree = Baseline \/ excused)
  /\ (Ready /\ ~job.failed /\ ~excused /\ job.validated # None) => job.validated = job.diff

\* The dependencies of the first validation.
Dependencies ==
  /\ (job.state \in {"IMPLEMENTATION_QUEUED", "IMPLEMENTING"}
        \/ (run.of = "implement" /\ run.pc \in {"prepare", "python", "install"}))
       => copy.modules = "none"
  /\ (run.of = "implement" /\ run.pc = "npm") => (run.results["npm"] = "skipped" \/ Installed)
  /\ (job.state \in {"CORRECTING", "REVALIDATING"} \/ (Ready /\ ~job.attempted)) => job.installed

FilesInv == Types /\ Fits /\ Endings /\ FirstRun /\ Current /\ Dependencies

LEMMA BaselineTyped == Types => Baseline \in Tree /\ Baseline # None
BY NoneIsNoTree DEF Types, Baseline, Tree, Content

LEMMA InitKeeps == ImplementationInit => FilesInv
<1> SUFFICES ASSUME ImplementationInit PROVE FilesInv  OBVIOUS
<1> USE DEF ImplementationInit
<1>1. Types
  <2>1. base \in [Files -> Eols] /\ tree \in Tree
    BY BasesAssumption DEF Tree, Content
  <2>2. job \in Job  BY DEF Job, NoResults, Statuses
  <2>3. run \in Runner  BY DEF Runner, Idle, NoResults, Statuses, Runs
  <2>4. stops \in 0..MaxStops  BY MaxStopsAssumption
  <2>5. profile \subseteq {"python", "npm"}  BY ProfilesAssumption
  <2>6. copy \in [tree : Tree \cup {None}, modules : {"none", "partial", "complete"}, of : SUBSET Runs]
    OBVIOUS
  <2> QED BY <2>1, <2>2, <2>3, <2>4, <2>5, <2>6 DEF Types
<1>2. /\ run.pc = "none" /\ job.state = "IMPLEMENTATION_QUEUED" /\ job.diff = None
      /\ ~job.started /\ ~job.attempted
  BY DEF Idle
<1>3. \A f \in Files : tree[f].edits = {} /\ tree[f].eol = base[f]  OBVIOUS
<1>4. Fits  BY <1>2 DEF Fits, Validating, Copying
<1>5. Endings  BY <1>2, <1>3 DEF Endings, InFlux
<1>6. FirstRun  BY <1>2 DEF FirstRun, Reviewed
<1>7. Current  BY <1>2 DEF Current, Validating, Copying, Ready
<1>8. Dependencies  BY <1>2 DEF Dependencies, Ready
<1> QED BY <1>1, <1>4, <1>5, <1>6, <1>7, <1>8 DEF FilesInv

(***************************************************************************)
(* Starting.                                                               *)
(***************************************************************************)
LEMMA IdleFields ==
  /\ Idle \in Runner /\ Idle.pc = "none" /\ Idle.todo = {} /\ Idle.converted = {}
  /\ Idle.of = "implement" /\ Idle.answer = "none" /\ Idle.results = NoResults
  /\ NoResults \in [Commands -> Statuses]
BY DEF Idle, Runner, NoResults, Statuses, Runs

LEMMA BeginFields ==
  ASSUME NEW of \in Runs, Begin(of)
  PROVE  /\ run' \in Runner /\ run'.pc = "normalize" /\ run'.of = of /\ run'.todo = Files
         /\ run'.converted = {} /\ run'.answer = "none"
<1>1. run' = [Idle EXCEPT !.pc = "normalize", !.of = of, !.todo = Files]  BY DEF Begin
<1> QED BY <1>1, IdleFields DEF Runner

LEMMA StartImplementationKeeps == FilesInv /\ StartImplementation => FilesInv'
<1> SUFFICES ASSUME FilesInv, StartImplementation PROVE FilesInv'  OBVIOUS
<1>0. Types /\ Fits /\ Endings /\ FirstRun /\ Current /\ Dependencies  BY DEF FilesInv
<1>1. run.pc = "none" /\ job.state = "IMPLEMENTATION_QUEUED"  BY DEF StartImplementation
<1>2. /\ run' \in Runner /\ run'.pc = "normalize" /\ run'.of = "implement" /\ run'.todo = Files
      /\ run'.converted = {} /\ run'.answer = "none"
  BY BeginFields DEF StartImplementation, Runs
<1>3. /\ job' \in Job /\ job'.state = "IMPLEMENTING" /\ job'.diff = job.diff
      /\ job'.started = job.started /\ job'.attempted = job.attempted
  BY <1>0 DEF StartImplementation, Types, Job
<1>4. UNCHANGED <<tree, base, profile, agents, copy, excused, unsettled, stops>>
  BY DEF StartImplementation, history
<1>5. Types'  BY <1>0, <1>2, <1>3, <1>4 DEF Types
<1>6. Fits'  BY <1>0, <1>1, <1>2, <1>3, <1>4 DEF Fits, Validating, Copying
<1>7. Endings'  BY <1>0, <1>1, <1>2, <1>3, <1>4 DEF Endings, InFlux
<1>8. FirstRun'  BY <1>3 DEF FirstRun, Reviewed
<1>9. Current'  BY <1>2, <1>3 DEF Current, Validating, Copying, Ready
<1>10. Dependencies'  BY <1>0, <1>1, <1>2, <1>3, <1>4 DEF Dependencies, Ready
<1> QED BY <1>5, <1>6, <1>7, <1>8, <1>9, <1>10 DEF FilesInv

LEMMA CorrectValidationKeeps == FilesInv /\ CorrectValidation => FilesInv'
<1> SUFFICES ASSUME FilesInv, CorrectValidation PROVE FilesInv'  OBVIOUS
<1>0. Types /\ Fits /\ Endings /\ FirstRun /\ Current /\ Dependencies  BY DEF FilesInv
<1>1. job.state = "IMPLEMENTATION_READY" /\ ~job.attempted  BY DEF CorrectValidation
<1>2. ~job.started  BY <1>0, <1>1 DEF Fits
<1>3. /\ job' \in Job /\ job'.state = "CORRECTING" /\ job'.diff = job.diff
      /\ ~job'.started /\ job'.attempted = job.attempted /\ job'.claims = job.claims
      /\ job'.installed = job.installed
  BY <1>0 DEF CorrectValidation, Types, Job
<1>4. UNCHANGED <<tree, base, profile, run, agents, copy, excused, unsettled, stops>>
  BY DEF CorrectValidation, history
<1>5. run.pc = "none"
  BY <1>0, <1>1 DEF Fits, Types, Runner, Runs, Validating
<1>6. Types'  BY <1>0, <1>3, <1>4 DEF Types
<1>7. Fits'  BY <1>1, <1>3, <1>4, <1>5 DEF Fits, Validating, Copying
<1>8. Endings'  BY <1>0, <1>3, <1>4, <1>5 DEF Endings, InFlux
<1>9. FirstRun'  BY <1>0, <1>1, <1>2, <1>3, <1>4 DEF FirstRun, Reviewed, Changed, Baseline
<1>10. Current'  BY <1>3, <1>4, <1>5 DEF Current, Validating, Copying, Ready
<1>11. Dependencies'  BY <1>0, <1>1, <1>3, <1>4, <1>5 DEF Dependencies, Ready
<1> QED BY <1>6, <1>7, <1>8, <1>9, <1>10, <1>11 DEF FilesInv

LEMMA StartCorrectionKeeps == FilesInv /\ StartCorrection => FilesInv'
<1> SUFFICES ASSUME FilesInv, StartCorrection PROVE FilesInv'  OBVIOUS
<1>0. Types /\ Fits /\ Endings /\ FirstRun /\ Current /\ Dependencies  BY DEF FilesInv
<1>1. run.pc = "none" /\ job.state = "CORRECTING"  BY DEF StartCorrection
<1>4. UNCHANGED <<tree, base, profile, agents, copy, excused, unsettled, stops>>
  BY DEF StartCorrection, history
<1>2. CASE Begin("correct") /\ job' = [job EXCEPT !.started = TRUE]
  <2>2. /\ run' \in Runner /\ run'.pc = "normalize" /\ run'.of = "correct" /\ run'.todo = Files
        /\ run'.converted = {} /\ run'.answer = "none"
    BY <1>2, BeginFields DEF Runs
  <2>3. /\ job' \in Job /\ job'.state = "CORRECTING" /\ job'.diff = job.diff
        /\ job'.started /\ job'.attempted = job.attempted
        /\ job'.installed = job.installed
    BY <1>0, <1>1, <1>2 DEF Types, Job
  <2>5. Types'  BY <1>0, <2>2, <2>3, <1>4 DEF Types
  <2>6. Fits'  BY <1>0, <1>1, <2>2, <2>3, <1>4 DEF Fits, Validating, Copying
  <2>7. Endings'  BY <1>0, <1>1, <2>2, <2>3, <1>4 DEF Endings, InFlux
  <2>8. FirstRun'  BY <2>3 DEF FirstRun
  <2>9. Current'  BY <2>2, <2>3 DEF Current, Validating, Copying, Ready
  <2>10. Dependencies'  BY <1>0, <1>1, <2>2, <2>3, <1>4 DEF Dependencies, Ready
  <2> QED BY <2>5, <2>6, <2>7, <2>8, <2>9, <2>10 DEF FilesInv
<1>3. CASE run' = [Idle EXCEPT !.pc = "failing", !.of = "correct"] /\ UNCHANGED job
  <2>2. /\ run' \in Runner /\ run'.pc = "failing" /\ run'.of = "correct"
    BY <1>3, IdleFields DEF Runner, Runs
  <2>5. Types'  BY <1>0, <1>3, <2>2, <1>4 DEF Types
  <2>6. Fits'  BY <1>0, <1>1, <1>3, <2>2, <1>4 DEF Fits, Validating, Copying
  <2>7. Endings'  BY <1>0, <1>1, <1>3, <2>2, <1>4 DEF Endings, InFlux
  <2>8. FirstRun'  BY <1>0, <1>3, <1>4 DEF FirstRun, Reviewed, Changed, Baseline
  <2>9. Current'  BY <1>1, <1>3, <2>2 DEF Current, Validating, Copying, Ready
  <2>10. Dependencies'  BY <1>0, <1>1, <1>3, <2>2, <1>4 DEF Dependencies, Ready
  <2> QED BY <2>5, <2>6, <2>7, <2>8, <2>9, <2>10 DEF FilesInv
<1> QED BY <1>2, <1>3 DEF StartCorrection

(***************************************************************************)
(* The line endings around the agent.                                      *)
(***************************************************************************)
LEMMA TreeWith ==
  ASSUME Types, NEW f \in Files, NEW eol \in Eols, NEW edits \in SUBSET Runs,
         tree' = [tree EXCEPT ![f] = [edits |-> edits, eol |-> eol]]
  PROVE  /\ tree' \in Tree /\ tree'[f].eol = eol /\ tree'[f].edits = edits
         /\ \A g \in Files \ {f} : tree'[g] = tree[g]
BY DEF Types, Tree, Content

LEMMA EolFields ==
  ASSUME Types, NEW f \in Files, NEW eol \in Eols, tree' = [tree EXCEPT ![f].eol = eol]
  PROVE  /\ tree' \in Tree /\ tree'[f].eol = eol
         /\ \A g \in Files \ {f} : tree'[g] = tree[g]
BY DEF Types, Tree, Content

\* What the history gains.
LEMMA UnsettleFields ==
  ASSUME Types, NEW fs \in SUBSET Files, Unsettle(fs)
  PROVE  /\ unsettled \subseteq unsettled' /\ unsettled' \subseteq Files
         /\ \A g \in fs : base[g] = "mixed" \/ g \in unsettled'
BY DEF Types, Unsettle

LEMMA NormalizeKeeps == ASSUME FilesInv, NEW f \in Files, NormalizeToLf(f) PROVE FilesInv'
<1>0. Types /\ Fits /\ Endings /\ FirstRun /\ Current /\ Dependencies  BY DEF FilesInv
<1>1. run.pc = "normalize" /\ f \in run.todo  BY DEF NormalizeToLf
<1>2. /\ run' \in Runner /\ run'.pc = "normalize" /\ run'.of = run.of
      /\ run.converted \subseteq run'.converted
      /\ run'.answer = run.answer /\ tree' \in Tree
      /\ \/ /\ tree'[f].eol = "lf" /\ \A g \in Files \ {f} : tree'[g] = tree[g]
            /\ run'.converted = IF tree[f].eol = "lf" THEN run.converted
                                 ELSE run.converted \cup {f}
         \/ tree' = tree /\ run'.converted = run.converted
  <2>1. CASE /\ tree' = [tree EXCEPT ![f].eol = "lf"]
             /\ run' = [run EXCEPT !.todo = @ \ {f},
                           !.converted = IF tree[f].eol = "lf" THEN @ ELSE @ \cup {f}]
    <3>1. /\ tree' \in Tree /\ tree'[f].eol = "lf"
          /\ \A g \in Files \ {f} : tree'[g] = tree[g]
      BY <1>0, <2>1, EolFields DEF Eols
    <3>2. /\ run' \in Runner /\ run'.pc = "normalize" /\ run'.of = run.of
          /\ run'.converted = IF tree[f].eol = "lf" THEN run.converted
                              ELSE run.converted \cup {f}
          /\ run'.answer = run.answer
      BY <1>0, <1>1, <2>1 DEF Types, Runner
    <3> QED BY <3>1, <3>2
  <2>2. CASE run' = [run EXCEPT !.todo = @ \ {f}] /\ UNCHANGED tree
    BY <1>0, <1>1, <2>2 DEF Types, Runner
  <2> QED BY <2>1, <2>2 DEF NormalizeToLf
<1>3. UNCHANGED <<base, profile, job, agents, copy, excused, unsettled, stops>>
  BY DEF NormalizeToLf, history
<1>5. job.state \in {"IMPLEMENTING", "CORRECTING"}
      /\ (job.state = "CORRECTING" => job.started)
  BY <1>0, <1>1 DEF Fits, Types, Runner, Runs
<1>6. \A g \in Files : base[g] \in Eols /\ tree[g].eol \in Eols
  BY <1>0 DEF Types, Tree, Content
<1>7. Types'  BY <1>0, <1>2, <1>3 DEF Types
<1>8. Fits'  BY <1>0, <1>1, <1>2, <1>3 DEF Fits, Validating, Copying
<1>9. Endings'
  <2>1. ASSUME NEW g \in Files
        PROVE  (tree[g].eol = base[g] \/ base[g] = "mixed" \/ g \in unsettled \/ InFlux(g))'
    <3>1. CASE g = f  BY <1>0, <1>1, <1>2, <1>3, <1>6, <3>1 DEF Endings, InFlux, Eols
    <3>2. CASE g # f  BY <1>0, <1>1, <1>2, <1>3, <3>2 DEF Endings, InFlux
    <3> QED BY <3>1, <3>2
  <2>2. ASSUME NEW g \in Files PROVE (InFlux(g) /\ base[g] = "lf" => g \in unsettled)'
    BY <1>0, <1>1, <1>2, <1>3 DEF Endings, InFlux
  <2> QED BY <1>0, <1>3, <2>1, <2>2 DEF Endings
<1>10. FirstRun'  BY <1>0, <1>3 DEF FirstRun, Reviewed, Changed, Baseline
<1>11. Current'  BY <1>2, <1>3, <1>5 DEF Current, Validating, Copying, Ready
<1>12. Dependencies'  BY <1>0, <1>1, <1>2, <1>3 DEF Dependencies, Ready
<1> QED BY <1>7, <1>8, <1>9, <1>10, <1>11, <1>12 DEF FilesInv

LEMMA RestoreKeeps == ASSUME FilesInv, NEW f \in Files, RestoreLineEndings(f) PROVE FilesInv'
<1>0. Types /\ Fits /\ Endings /\ FirstRun /\ Current /\ Dependencies  BY DEF FilesInv
<1>1. run.pc = "restore" /\ f \in run.todo  BY DEF RestoreLineEndings
<1>2. /\ tree' \in Tree /\ \A g \in Files \ {f} : tree'[g] = tree[g]
      /\ unsettled \subseteq unsettled' /\ unsettled' \subseteq Files
      /\ tree'[f].eol = "crlf" \/ base[f] = "mixed" \/ f \in unsettled'
  <2>1. CASE tree' = [tree EXCEPT ![f].eol = "crlf"] /\ UNCHANGED unsettled
    BY <1>0, <2>1, EolFields DEF Eols, Types
  <2>2. CASE Unsettle({f}) /\ UNCHANGED tree
    BY <1>0, <2>2, UnsettleFields DEF Types
  <2> QED BY <2>1, <2>2 DEF RestoreLineEndings
<1>3. UNCHANGED <<base, profile, job, agents, copy, excused, stops>>
  BY DEF RestoreLineEndings
<1>4. /\ run' \in Runner /\ run'.pc = "restore" /\ run'.of = run.of
      /\ run'.todo = run.todo \ {f} /\ run'.answer = run.answer
  BY <1>0, <1>1 DEF RestoreLineEndings, Types, Runner
<1>5. job.state \in {"IMPLEMENTING", "CORRECTING"}
      /\ (job.state = "CORRECTING" => job.started)
  BY <1>0, <1>1 DEF Fits, Types, Runner, Runs
<1>6. base[f] \in Eols  BY <1>0 DEF Types
<1>7. Types'  BY <1>0, <1>2, <1>3, <1>4 DEF Types
<1>8. Fits'  BY <1>0, <1>1, <1>3, <1>4 DEF Fits, Validating, Copying
<1>9. Endings'
  <2>1. ASSUME NEW g \in Files
        PROVE  (tree[g].eol = base[g] \/ base[g] = "mixed" \/ g \in unsettled \/ InFlux(g))'
    <3>1. CASE g = f
      <4>1. base[f] = "lf" => f \in unsettled  BY <1>0, <1>1 DEF Endings, InFlux
      <4> QED BY <1>2, <1>3, <1>6, <3>1, <4>1 DEF Eols
    <3>2. CASE g # f  BY <1>0, <1>1, <1>2, <1>3, <1>4, <3>2 DEF Endings, InFlux
    <3> QED BY <3>1, <3>2
  <2>2. ASSUME NEW g \in Files PROVE (InFlux(g) /\ base[g] = "lf" => g \in unsettled)'
    BY <1>0, <1>1, <1>2, <1>3, <1>4 DEF Endings, InFlux
  <2>3. (job.diff # None =>
           \A g \in Files : job.diff[g].eol = base[g] \/ base[g] = "mixed" \/ g \in unsettled)'
    BY <1>0, <1>2, <1>3 DEF Endings
  <2> QED BY <2>1, <2>2, <2>3 DEF Endings
<1>10. FirstRun'  BY <1>0, <1>3 DEF FirstRun, Reviewed, Changed, Baseline
<1>11. Current'  BY <1>3, <1>4, <1>5 DEF Current, Validating, Copying, Ready
<1>12. Dependencies'  BY <1>0, <1>1, <1>3, <1>4 DEF Dependencies, Ready
<1> QED BY <1>7, <1>8, <1>9, <1>10, <1>11, <1>12 DEF FilesInv

LEMMA CallAgentKeeps == FilesInv /\ CallAgent => FilesInv'
<1> SUFFICES ASSUME FilesInv, CallAgent PROVE FilesInv'  OBVIOUS
<1>0. Types /\ Fits /\ Endings /\ FirstRun /\ Current /\ Dependencies  BY DEF FilesInv
<1>1. run.pc = "normalize" /\ run.todo = {}  BY DEF CallAgent
<1>2. /\ run' \in Runner /\ run'.pc = "agent" /\ run'.of = run.of /\ run'.todo = {}
      /\ run'.converted = run.converted /\ run'.answer = run.answer
  BY <1>0, <1>1 DEF CallAgent, Types, Runner
<1>3. UNCHANGED <<tree, base, profile, job, copy, excused, unsettled, stops>>
      /\ agents' = agents \cup {run.of}
  BY DEF CallAgent, history
<1>4. job.state \in {"IMPLEMENTING", "CORRECTING"}
      /\ (job.state = "CORRECTING" => job.started)
  BY <1>0, <1>1 DEF Fits, Types, Runner, Runs
<1>5. Types'  BY <1>0, <1>2, <1>3 DEF Types, Runner
<1>6. Fits'  BY <1>0, <1>1, <1>2, <1>3 DEF Fits, Validating, Copying
<1>7. Endings'  BY <1>0, <1>1, <1>2, <1>3 DEF Endings, InFlux
<1>8. FirstRun'  BY <1>0, <1>3 DEF FirstRun, Reviewed, Changed, Baseline
<1>9. Current'  BY <1>2, <1>3, <1>4 DEF Current, Validating, Copying, Ready
<1>10. Dependencies'  BY <1>0, <1>1, <1>2, <1>3 DEF Dependencies, Ready
<1> QED BY <1>5, <1>6, <1>7, <1>8, <1>9, <1>10 DEF FilesInv

LEMMA RestoredKeeps == FilesInv /\ Restored => FilesInv'
<1> SUFFICES ASSUME FilesInv, Restored PROVE FilesInv'  OBVIOUS
<1>0. Types /\ Fits /\ Endings /\ FirstRun /\ Current /\ Dependencies  BY DEF FilesInv
<1>1. run.pc = "restore" /\ run.todo = {}  BY DEF Restored
<1>2. /\ run' \in Runner /\ run'.pc = IF run.answer = "error" THEN "failing" ELSE "diff"
      /\ run'.of = run.of /\ run'.todo = {} /\ run'.answer = run.answer
  BY <1>0, <1>1 DEF Restored, Types, Runner
<1>3. UNCHANGED <<tree, base, profile, agents, copy, excused, unsettled, stops>>
  BY DEF Restored, history
<1>4. /\ job' \in Job /\ job'.diff = job.diff /\ job'.started = job.started
      /\ job'.state = IF run.of = "correct" /\ run.answer # "error" THEN "REVALIDATING" ELSE job.state
      /\ job'.attempted = job.attempted /\ job'.installed = job.installed
      /\ job'.claims = job.claims
  BY <1>0 DEF Restored, Types, Job
<1>5. job.state \in {"IMPLEMENTING", "CORRECTING"} /\ run.of \in {"implement", "correct"}
      /\ (job.state = "CORRECTING" => job.started) /\ (run.of = "correct" <=> job.state = "CORRECTING")
  BY <1>0, <1>1 DEF Fits, Types, Runner, Runs
<1>6. Types'  BY <1>0, <1>2, <1>3, <1>4 DEF Types
<1>7. Fits'  BY <1>0, <1>1, <1>2, <1>3, <1>4, <1>5 DEF Fits, Validating, Copying
<1>8. Endings'  BY <1>0, <1>1, <1>2, <1>3, <1>4 DEF Endings, InFlux
<1>9. FirstRun'  BY <1>0, <1>3, <1>4, <1>5 DEF FirstRun, Reviewed, Changed, Baseline
<1>10. Current'  BY <1>2, <1>3, <1>4, <1>5 DEF Current, Validating, Copying, Ready
<1>11. Dependencies'  BY <1>0, <1>1, <1>2, <1>3, <1>4, <1>5 DEF Dependencies, Ready
<1> QED BY <1>6, <1>7, <1>8, <1>9, <1>10, <1>11 DEF FilesInv

(***************************************************************************)
(* The agent.                                                              *)
(***************************************************************************)

\* An edit of the call that is waited for, or a late one.
LEMMA AgentEditsKeeps ==
  ASSUME FilesInv, NEW a \in Runs, NEW f \in Files, AgentEdits(a, f) PROVE FilesInv'
<1>0. Types /\ Fits /\ Endings /\ FirstRun /\ Current /\ Dependencies  BY DEF FilesInv
<1>1. UNCHANGED <<base, profile, job, run, agents, copy, stops>>
      /\ excused' = (excused \/ ~Awaited(a))
  BY DEF AgentEdits
<1>3. PICK edits \in SUBSET Runs, eol \in Eols :
        /\ tree' = [tree EXCEPT ![f] = [edits |-> edits, eol |-> eol]]
        /\ Unsettle(IF eol = base[f] \/ InFlux(f) THEN {} ELSE {f})
  BY DEF AgentEdits
<1>4. /\ tree' \in Tree /\ tree'[f].eol = eol
      /\ \A g \in Files \ {f} : tree'[g] = tree[g]
  BY <1>0, <1>3, TreeWith
<1>5. /\ unsettled \subseteq unsettled' /\ unsettled' \subseteq Files
      /\ eol = base[f] \/ InFlux(f) \/ base[f] = "mixed" \/ f \in unsettled'
      /\ excused' \in BOOLEAN
  <2> DEFINE fs == IF eol = base[f] \/ InFlux(f) THEN {} ELSE {f}
  <2>1. fs \in SUBSET Files /\ Unsettle(fs)  BY <1>3
  <2>2. f \in fs \/ eol = base[f] \/ InFlux(f)  OBVIOUS
  <2> HIDE DEF fs
  <2> QED BY <1>0, <1>1, <2>1, <2>2, UnsettleFields DEF Types
<1>7. Types'  BY <1>0, <1>1, <1>4, <1>5 DEF Types
<1>8. Fits'  BY <1>0, <1>1 DEF Fits
<1>9. Endings'
  <2>1. ASSUME NEW g \in Files
        PROVE  (tree[g].eol = base[g] \/ base[g] = "mixed" \/ g \in unsettled \/ InFlux(g))'
    <3>1. CASE g # f  BY <1>0, <1>1, <1>4, <1>5, <3>1 DEF Endings, InFlux
    <3>2. CASE g = f  BY <1>1, <1>4, <1>5, <3>2 DEF InFlux
    <3> QED BY <3>1, <3>2
  <2>2. (\A g \in Files : (InFlux(g) /\ base[g] = "lf") => g \in unsettled)'
    BY <1>0, <1>1, <1>5 DEF Endings, InFlux
  <2>3. (job.diff # None =>
           \A g \in Files : job.diff[g].eol = base[g] \/ base[g] = "mixed" \/ g \in unsettled)'
    BY <1>0, <1>1, <1>5 DEF Endings
  <2> QED BY <2>1, <2>2, <2>3 DEF Endings
<1>10. FirstRun'  BY <1>0, <1>1 DEF FirstRun, Reviewed, Changed, Baseline
<1>11. Current'
  <2>1. run.pc \in Validating \/ Ready => excused'
    BY <1>0, <1>1 DEF Awaited, Fits, Ready, Validating, Types, Runner, Runs
  <2> QED BY <1>1, <2>1 DEF Current, Ready, Validating, Copying
<1>12. Dependencies'  BY <1>0, <1>1 DEF Dependencies, Ready, Installed
<1> QED BY <1>7, <1>8, <1>9, <1>10, <1>11, <1>12 DEF FilesInv

LEMMA ReturnFields ==
  ASSUME Types, NEW answer \in {"none", "claims", "no claims", "error"}, Return(answer)
  PROVE  /\ run' \in Runner /\ run'.pc = "restore" /\ run'.of = run.of
         /\ run'.todo = run.converted /\ run'.answer = answer /\ run'.converted = run.converted
BY DEF Types, Runner, Return

\* The call of the agent is over, with whatever answer.
LEMMA CallEnds ==
  ASSUME FilesInv, NEW answer \in {"none", "claims", "no claims", "error"},
         run.pc = "agent", Return(answer),
         UNCHANGED <<tree, base, profile, job, copy, history>>,
         agents' = IF answer = "error" THEN agents' ELSE agents \ {run.of},
         agents' \subseteq agents
  PROVE  FilesInv'
<1>0. Types /\ Fits /\ Endings /\ FirstRun /\ Current /\ Dependencies  BY DEF FilesInv
<1>1. /\ run' \in Runner /\ run'.pc = "restore" /\ run'.of = run.of
      /\ run'.todo = run.converted /\ run'.answer = answer /\ run'.converted = run.converted
  BY <1>0, ReturnFields
<1>2. UNCHANGED <<excused, unsettled, stops>>  BY DEF history
<1>3. job.state \in {"IMPLEMENTING", "CORRECTING"}
      /\ (job.state = "CORRECTING" => job.started)
  BY <1>0 DEF Fits, Types, Runner, Runs
<1>5. Types'  BY <1>0, <1>1, <1>2 DEF Types
<1>6. Fits'  BY <1>0, <1>1, <1>2 DEF Fits, Validating, Copying
<1>7. Endings'  BY <1>0, <1>1, <1>2 DEF Endings, InFlux
<1>8. FirstRun'  BY <1>0 DEF FirstRun, Reviewed, Changed, Baseline
<1>9. Current'  BY <1>1, <1>2, <1>3 DEF Current, Validating, Copying, Ready
<1>10. Dependencies'  BY <1>0, <1>1, <1>2 DEF Dependencies, Ready
<1> QED BY <1>5, <1>6, <1>7, <1>8, <1>9, <1>10 DEF FilesInv

LEMMA AgentReturnsKeeps == FilesInv /\ AgentReturns => FilesInv'
<1> SUFFICES ASSUME FilesInv, AgentReturns PROVE FilesInv'  OBVIOUS
<1>1. PICK answer \in AgentAnswers : Return(Classified(answer))  BY DEF AgentReturns
<1>2. Classified(answer) \in {"none", "claims", "no claims", "error"}
  BY DEF AgentAnswers, Classified
<1>3. /\ run.pc = "agent" /\ UNCHANGED <<tree, base, profile, job, copy, history>>
      /\ agents' = agents \ {run.of}
  BY DEF AgentReturns
<1> QED BY <1>1, <1>2, <1>3, CallEnds

LEMMA AgentTimesOutKeeps == FilesInv /\ AgentTimesOut => FilesInv'
<1> SUFFICES ASSUME FilesInv, AgentTimesOut PROVE FilesInv'  OBVIOUS
<1>1. /\ run.pc = "agent" /\ UNCHANGED <<tree, base, profile, job, copy, history>>
      /\ agents' = agents /\ Return("error")
  BY DEF AgentTimesOut
<1> QED BY <1>1, CallEnds

LEMMA LateAgentEndsKeeps == ASSUME FilesInv, NEW a \in Runs, LateAgentEnds(a) PROVE FilesInv'
<1>0. Types /\ Fits /\ Endings /\ FirstRun /\ Current /\ Dependencies  BY DEF FilesInv
<1>1. /\ UNCHANGED <<tree, base, profile, job, run, copy, excused, unsettled, stops>>
      /\ agents' = agents \ {a}
  BY DEF LateAgentEnds, history
<1>2. Types'  BY <1>0, <1>1 DEF Types
<1>3. Fits'  BY <1>0, <1>1 DEF Fits
<1>4. Endings'  BY <1>0, <1>1 DEF Endings, InFlux
<1>5. FirstRun'  BY <1>0, <1>1 DEF FirstRun, Reviewed, Changed, Baseline
<1>6. Current'  BY <1>0, <1>1 DEF Current, Ready, Baseline
<1>7. Dependencies'  BY <1>0, <1>1 DEF Dependencies, Ready, Installed
<1> QED BY <1>2, <1>3, <1>4, <1>5, <1>6, <1>7 DEF FilesInv

(***************************************************************************)
(* The diff.                                                               *)
(***************************************************************************)
LEMMA CollectedIsTree ==
  ASSUME NEW diff \in Collected PROVE diff = tree \/ diff = None
BY DEF Collected

LEMMA CollectDiffKeeps == FilesInv /\ CollectDiff => FilesInv'
<1> SUFFICES ASSUME FilesInv, CollectDiff PROVE FilesInv'  OBVIOUS
<1>0. Types /\ Fits /\ Endings /\ FirstRun /\ Current /\ Dependencies  BY DEF FilesInv
<1>1. /\ run.pc = "diff" /\ run.of = "implement" /\ job.state = "IMPLEMENTING"
      /\ UNCHANGED <<tree, base, profile, agents, copy, unsettled, stops>>
  BY <1>0 DEF CollectDiff, Fits
<1>2. PICK diff \in Collected :
       IF run.answer = "claims" /\ ~Changed(diff)
       THEN run' = [run EXCEPT !.pc = "failing"] /\ UNCHANGED <<job, excused>>
       ELSE /\ run' = [run EXCEPT !.pc = "prepare"]
            /\ job' = [job EXCEPT !.state = "VALIDATING", !.diff = diff,
                                  !.claims = Lists(diff)]
            /\ Excuse(diff)
  BY DEF CollectDiff
<1>3. diff = tree \/ diff = None  BY CollectedIsTree
<1>4. CASE run.answer = "claims" /\ ~Changed(diff)
  <2>1. /\ run' \in Runner /\ run'.pc = "failing" /\ run'.of = run.of
        /\ UNCHANGED <<job, excused>>
    BY <1>0, <1>2, <1>4 DEF Types, Runner
  <2>2. Types'  BY <1>0, <1>1, <2>1 DEF Types
  <2>3. Fits'  BY <1>0, <1>1, <2>1 DEF Fits, Validating, Copying
  <2>4. Endings'  BY <1>0, <1>1, <2>1 DEF Endings, InFlux
  <2>5. FirstRun'  BY <1>0, <1>1, <2>1 DEF FirstRun, Reviewed, Changed, Baseline
  <2>6. Current'  BY <1>1, <2>1 DEF Current, Validating, Copying, Ready
  <2>7. Dependencies'  BY <1>0, <1>1, <2>1 DEF Dependencies, Ready
  <2> QED BY <2>2, <2>3, <2>4, <2>5, <2>6, <2>7 DEF FilesInv
<1>5. CASE ~(run.answer = "claims" /\ ~Changed(diff))
  <2>1. /\ run' \in Runner /\ run'.pc = "prepare" /\ run'.of = run.of
    BY <1>0, <1>2, <1>5 DEF Types, Runner
  <2>2. diff \in Tree \cup {None} /\ Lists(diff) \in BOOLEAN /\ (Lists(diff) => Changed(diff))
    BY <1>0, <1>3, <1>5 DEF Types, Lists, Changed
  <2>3. /\ job' \in Job /\ job'.state = "VALIDATING" /\ job'.diff = diff
        /\ job'.claims = Lists(diff) /\ job'.started = job.started
        /\ job'.attempted = job.attempted
    <3> DEFINE claims == Lists(diff)
    <3>1. job' = [job EXCEPT !.state = "VALIDATING", !.diff = diff, !.claims = claims]
      BY <1>2, <1>5
    <3>2. claims \in BOOLEAN  BY <2>2
    <3> HIDE DEF claims
    <3>3. /\ job' \in Job /\ job'.state = "VALIDATING" /\ job'.diff = diff
          /\ job'.claims = claims /\ job'.started = job.started
          /\ job'.attempted = job.attempted
      BY <1>0, <2>2, <3>1, <3>2 DEF Types, Job
    <3> QED BY <3>3 DEF claims
  <2>4. excused' = (diff = None)  BY <1>2, <1>5 DEF Excuse
  <2>5. Types'  BY <1>0, <1>1, <2>1, <2>3, <2>4 DEF Types
  <2>6. Fits'  BY <1>0, <1>1, <2>1, <2>3 DEF Fits, Validating, Copying
  <2>7. Endings'  BY <1>0, <1>1, <1>3, <2>1, <2>3 DEF Endings, InFlux
  <2>8. FirstRun'  BY <1>1, <2>2, <2>3 DEF FirstRun, Changed, Baseline
  <2>9. Current'  BY <1>1, <1>3, <2>1, <2>3, <2>4 DEF Current, Validating, Copying, Ready
  <2>10. Dependencies'  BY <1>0, <1>1, <2>1, <2>3 DEF Dependencies, Ready
  <2> QED BY <2>5, <2>6, <2>7, <2>8, <2>9, <2>10 DEF FilesInv
<1> QED BY <1>4, <1>5

LEMMA CollectCorrectionKeeps == FilesInv /\ CollectCorrectionDiff => FilesInv'
<1> SUFFICES ASSUME FilesInv, CollectCorrectionDiff PROVE FilesInv'  OBVIOUS
<1>0. Types /\ Fits /\ Endings /\ FirstRun /\ Current /\ Dependencies  BY DEF FilesInv
<1>1. /\ run.pc = "diff" /\ run.of = "correct" /\ job.state = "REVALIDATING"
      /\ UNCHANGED <<tree, base, profile, agents, copy, unsettled, stops>>
  BY <1>0 DEF CollectCorrectionDiff, Fits
<1>2. PICK diff \in Collected :
        /\ job' = [job EXCEPT !.diff = IF diff # None THEN diff ELSE job.diff]
        /\ Excuse(diff)
  BY DEF CollectCorrectionDiff
<1>3. diff = tree \/ diff = None  BY CollectedIsTree
<1>4. /\ run' \in Runner /\ run'.pc = "prepare" /\ run'.of = run.of
  BY <1>0 DEF CollectCorrectionDiff, Types, Runner
<1>5. /\ job' \in Job /\ job'.state = job.state /\ job'.started = job.started
      /\ job'.diff = IF diff # None THEN diff ELSE job.diff
      /\ job'.attempted = job.attempted /\ job'.installed = job.installed
  BY <1>0, <1>2, <1>3 DEF Types, Job
<1>6. excused' = (diff = None)  BY <1>2 DEF Excuse
<1>7. Types'  BY <1>0, <1>1, <1>4, <1>5, <1>6 DEF Types
<1>8. Fits'  BY <1>0, <1>1, <1>4, <1>5 DEF Fits, Validating, Copying
<1>9. Endings'  BY <1>0, <1>1, <1>3, <1>4, <1>5 DEF Endings, InFlux
<1>10. FirstRun'  BY <1>0, <1>1, <1>5 DEF FirstRun, Reviewed, Fits
<1>11. Current'  BY <1>1, <1>3, <1>4, <1>5, <1>6 DEF Current, Validating, Copying, Ready
<1>12. Dependencies'  BY <1>0, <1>1, <1>4, <1>5 DEF Dependencies, Ready
<1> QED BY <1>7, <1>8, <1>9, <1>10, <1>11, <1>12 DEF FilesInv

\* How a failed run and the recovery leave the job.
LEMMA FailureKeeps ==
  ASSUME FilesInv, run.pc \in {"failing", "recover"}, NEW diff \in Collected,
         NEW corrects \in BOOLEAN, corrects => job.state \in {"CORRECTING", "REVALIDATING"},
         job' = IF corrects
                THEN CorrectionFailure([job EXCEPT !.diff = Refreshed(diff)], job.started)
                ELSE [[job EXCEPT !.diff = Refreshed(diff)] EXCEPT !.state = "IMPLEMENTATION_FAILED"],
         Excuse(diff), run' = Idle,
         UNCHANGED <<tree, base, profile, agents, copy, unsettled, stops>>
  PROVE  FilesInv'
<1>0. Types /\ Fits /\ Endings /\ FirstRun /\ Current /\ Dependencies  BY DEF FilesInv
<1>1. diff = tree \/ diff = None  BY CollectedIsTree
<1>2. /\ Refreshed(diff) \in Tree \cup {None}
      /\ Refreshed(diff) = IF Changed(diff) THEN diff ELSE job.diff
      /\ Changed(diff) => diff = tree
  BY <1>0, <1>1 DEF Types, Job, Refreshed, Changed
<1>3. /\ job' \in Job /\ job'.diff = Refreshed(diff)
      /\ job'.state = IF corrects THEN "IMPLEMENTATION_READY" ELSE "IMPLEMENTATION_FAILED"
      /\ corrects => job'.failed /\ job'.attempted = (job.attempted \/ job.started)
      /\ job'.started = job.started /\ job'.claims = job.claims
      /\ job'.installed = job.installed
  <2> DEFINE j == [job EXCEPT !.diff = Refreshed(diff)]
  <2>1. /\ j \in Job /\ j.diff = Refreshed(diff) /\ j.attempted = job.attempted
        /\ j.started = job.started /\ j.claims = job.claims /\ j.installed = job.installed
    BY <1>0, <1>2 DEF Types, Job
  <2>2. job' = IF corrects
                THEN [j EXCEPT !.state = "IMPLEMENTATION_READY", !.failed = TRUE,
                               !.attempted = j.attempted \/ job.started]
                ELSE [j EXCEPT !.state = "IMPLEMENTATION_FAILED"]
    BY DEF CorrectionFailure
  <2>3. job.attempted \in BOOLEAN /\ job.started \in BOOLEAN  BY <1>0 DEF Types, Job
  <2> HIDE DEF j
  <2> QED BY <2>1, <2>2, <2>3 DEF Job
<1>4. /\ run' \in Runner /\ run'.pc = "none" /\ run'.of = "implement"
  BY IdleFields
<1>5. excused' = (diff = None)  BY DEF Excuse
<1>6. Types'  BY <1>0, <1>3, <1>4, <1>5 DEF Types
<1>7. Fits'  BY <1>3, <1>4 DEF Fits, Validating, Copying
<1>8. Endings'  BY <1>0, <1>1, <1>2, <1>3, <1>4 DEF Endings, InFlux
<1>9. FirstRun'
  <2> SUFFICES ASSUME (Reviewed /\ ~job.started /\ job.claims)' PROVE Changed(job.diff)'
    BY DEF FirstRun
  <2>1. corrects  BY <1>3 DEF Reviewed
  <2>2. Reviewed /\ ~job.started /\ job.claims  BY <1>0, <1>3, <2>1 DEF Fits, Reviewed
  <2>3. Changed(job.diff)  BY <1>0, <2>2 DEF FirstRun
  <2>4. Changed(job'.diff)  BY <1>2, <1>3, <2>3
  <2> QED BY <2>4 DEF Changed, Baseline
<1>10. Current'
  <2>1. job'.diff = tree \/ tree = Baseline \/ excused'
    BY <1>0, <1>1, <1>2, <1>3, <1>5 DEF Changed, Types
  <2>2. Baseline' = Baseline  BY DEF Baseline
  <2> QED BY <1>3, <1>4, <2>1, <2>2 DEF Current, Validating, Copying, Ready
<1>11. Dependencies'  BY <1>0, <1>3, <1>4 DEF Dependencies, Ready
<1> QED BY <1>6, <1>7, <1>8, <1>9, <1>10, <1>11 DEF FilesInv

LEMMA FailKeeps == FilesInv /\ Fail => FilesInv'
<1> SUFFICES ASSUME FilesInv, Fail PROVE FilesInv'  OBVIOUS
<1> DEFINE corrects == run.of # "implement"
<1>1. PICK diff \in Collected :
        /\ job' = IF corrects
                  THEN CorrectionFailure([job EXCEPT !.diff = Refreshed(diff)], job.started)
                  ELSE [[job EXCEPT !.diff = Refreshed(diff)] EXCEPT !.state = "IMPLEMENTATION_FAILED"]
        /\ Excuse(diff)
  BY DEF Fail
<1>2. /\ run.pc = "failing" /\ run' = Idle
      /\ UNCHANGED <<tree, base, profile, agents, copy, unsettled, stops>>
  BY DEF Fail
<1>3. corrects \in BOOLEAN /\ (corrects => job.state \in {"CORRECTING", "REVALIDATING"})
  BY <1>2 DEF FilesInv, Fits, Types, Runner, Runs
<1> HIDE DEF corrects
<1> QED BY <1>1, <1>2, <1>3, FailureKeeps

LEMMA RecoverKeeps == FilesInv /\ Recover => FilesInv'
<1> SUFFICES ASSUME FilesInv, Recover PROVE FilesInv'  OBVIOUS
<1> DEFINE corrects == job.state \in {"CORRECTING", "REVALIDATING"}
<1>1. PICK diff \in Collected :
        /\ job' = IF corrects
                  THEN CorrectionFailure([job EXCEPT !.diff = Refreshed(diff)], job.started)
                  ELSE [[job EXCEPT !.diff = Refreshed(diff)] EXCEPT !.state = "IMPLEMENTATION_FAILED"]
        /\ Excuse(diff)
  BY DEF Recover
<1>2. /\ run.pc = "recover" /\ run' = Idle
      /\ UNCHANGED <<tree, base, profile, agents, copy, unsettled, stops>>
  BY DEF Recover
<1>3. corrects \in BOOLEAN /\ (corrects => job.state \in {"CORRECTING", "REVALIDATING"})
  OBVIOUS
<1> HIDE DEF corrects
<1> QED BY <1>1, <1>2, <1>3, FailureKeeps

(***************************************************************************)
(* The validation.                                                         *)
(***************************************************************************)
LEMMA RaisesKeeps == FilesInv /\ ValidationRaises => FilesInv'
<1> SUFFICES ASSUME FilesInv, ValidationRaises PROVE FilesInv'  OBVIOUS
<1>0. Types /\ Fits /\ Endings /\ FirstRun /\ Current /\ Dependencies  BY DEF FilesInv
<1>1. /\ run.pc \in Validating
      /\ UNCHANGED <<tree, base, profile, job, agents, copy, excused, unsettled, stops>>
  BY DEF ValidationRaises, Validating, history
<1>2. run' \in Runner /\ run'.pc = "failing" /\ run'.of = run.of
  BY <1>0 DEF ValidationRaises, Types, Runner
<1>3. job.state \in {"VALIDATING", "REVALIDATING"}
  BY <1>0, <1>1 DEF Fits, Types, Runner, Runs
<1>4. Types'  BY <1>0, <1>1, <1>2 DEF Types
<1>5. Fits'  BY <1>0, <1>1, <1>2 DEF Fits, Validating, Copying
<1>6. Endings'  BY <1>0, <1>1, <1>2 DEF Endings, InFlux, Validating
<1>7. FirstRun'  BY <1>0, <1>1 DEF FirstRun, Reviewed, Changed, Baseline
<1>8. Current'  BY <1>1, <1>2, <1>3 DEF Current, Validating, Copying, Ready
<1>9. Dependencies'  BY <1>0, <1>1, <1>2, <1>3 DEF Dependencies, Ready
<1> QED BY <1>4, <1>5, <1>6, <1>7, <1>8, <1>9 DEF FilesInv

\* A step from one command to the next.
LEMMA GoFields ==
  ASSUME Types, NEW pc \in Validating, NEW results \in [Commands -> Statuses], Go(pc, results)
  PROVE  run' \in Runner /\ run'.pc = pc /\ run'.of = run.of /\ run'.results = results
BY DEF Types, Runner, Go, Validating

LEMMA NextCommand ==
  ASSUME FilesInv, NEW pc \in Copying, run.pc \in Validating,
         run' \in Runner, run'.pc = pc, run'.of = run.of,
         UNCHANGED <<tree, base, profile, job, agents, history>>,
         copy' \in [tree : Tree, modules : {"none", "partial", "complete"}, of : SUBSET Runs],
         copy'.tree = IF run.pc = "prepare" THEN tree ELSE copy.tree,
         (run.of = "implement" /\ pc # "npm") => copy'.modules = copy.modules,
         (run.of = "implement" /\ pc # "npm") => run.pc # "npm",
         (run.of = "implement" /\ pc = "npm") => (run'.results["npm"] = "skipped" \/ Installed')
  PROVE  FilesInv'
<1>0. Types /\ Fits /\ Endings /\ FirstRun /\ Current /\ Dependencies  BY DEF FilesInv
<1>1. UNCHANGED <<tree, base, profile, job, agents, excused, unsettled, stops>>  BY DEF history
<1>3. job.state \in {"VALIDATING", "REVALIDATING"} /\ (run.of = "implement" => job.state = "VALIDATING")
  BY <1>0, <1>1 DEF Fits, Types, Runner, Runs
<1>4. Types'
  <2>1. copy' \in [tree : Tree \cup {None}, modules : {"none", "partial", "complete"}, of : SUBSET Runs]
    OBVIOUS
  <2> QED BY <1>0, <1>1, <2>1 DEF Types
<1>5. Fits'  BY <1>0, <1>1 DEF Fits, Validating, Copying
<1>6. Endings'  BY <1>0, <1>1 DEF Endings, InFlux, Validating, Copying
<1>7. FirstRun'  BY <1>0, <1>1 DEF FirstRun, Reviewed, Changed, Baseline
<1>8. Current'
  <2>1. run.pc # "prepare" => run.pc \in Copying  BY DEF Validating, Copying
  <2> QED BY <1>0, <1>1, <1>3, <2>1 DEF Current, Validating, Copying, Ready
<1>9. Dependencies'
  <2>1. job.state \notin {"IMPLEMENTATION_QUEUED", "IMPLEMENTING"}  BY <1>3
  <2>2. (run'.of = "implement" /\ run'.pc \in {"prepare", "python", "install"}) => copy'.modules = "none"
    BY <1>0 DEF Dependencies, Validating, Copying
  <2> QED BY <1>0, <1>1, <1>3, <2>1, <2>2 DEF Dependencies, Ready, Installed
<1> QED BY <1>4, <1>5, <1>6, <1>7, <1>8, <1>9 DEF FilesInv

LEMMA PrepareKeeps == FilesInv /\ PrepareCopy => FilesInv'
<1> SUFFICES ASSUME FilesInv, PrepareCopy PROVE FilesInv'  OBVIOUS
<1>0. Types  BY DEF FilesInv
<1>1. /\ run' \in Runner /\ run'.pc = "python" /\ run'.of = run.of
  BY <1>0 DEF PrepareCopy, Types, Runner
<1>2. /\ copy' \in [tree : Tree, modules : {"none", "partial", "complete"}, of : SUBSET Runs]
      /\ copy'.tree = tree /\ copy'.modules = copy.modules
  BY <1>0 DEF PrepareCopy, Types
<1>3. run.pc = "prepare" /\ UNCHANGED <<tree, base, profile, job, agents, history>>
  BY DEF PrepareCopy
<1>4. run.pc \in Validating /\ "python" \in Copying  BY <1>3 DEF Validating, Copying
<1> QED BY <1>1, <1>2, <1>3, <1>4, NextCommand

\* In the commands the copy has a tree.
LEMMA CopyHasTree ==
  ASSUME FilesInv, run.pc \in Copying
  PROVE  copy \in [tree : Tree, modules : {"none", "partial", "complete"}, of : SUBSET Runs]
BY DEF FilesInv, Types, Fits

LEMMA PythonKeeps == FilesInv /\ RunPython => FilesInv'
<1> SUFFICES ASSUME FilesInv, RunPython PROVE FilesInv'  OBVIOUS
<1>0. Types  BY DEF FilesInv
<1>1. /\ run.pc = "python" /\ UNCHANGED <<tree, base, profile, job, agents, copy, history>>
  BY DEF RunPython
<1>2. PICK v \in Verdicts \cup {"none"} : Go("install", [run.results EXCEPT !["python"] = v])
  BY DEF RunPython
<1>3. [run.results EXCEPT !["python"] = v] \in [Commands -> Statuses]
  BY <1>0 DEF Types, Runner, Verdicts, Statuses, Commands
<1>4. run' \in Runner /\ run'.pc = "install" /\ run'.of = run.of
  BY <1>0, <1>2, <1>3, GoFields DEF Validating
<1>5. run.pc \in Validating /\ run.pc \in Copying /\ "install" \in Copying
  BY <1>1 DEF Validating, Copying
<1>6. copy' \in [tree : Tree, modules : {"none", "partial", "complete"}, of : SUBSET Runs]
  BY <1>1, <1>5, CopyHasTree
<1> QED BY <1>1, <1>4, <1>5, <1>6, NextCommand

LEMMA InstallKeeps == FilesInv /\ Install => FilesInv'
<1> SUFFICES ASSUME FilesInv, Install PROVE FilesInv'  OBVIOUS
<1>0. Types /\ Dependencies  BY DEF FilesInv
<1>1. run.pc = "install" /\ UNCHANGED <<tree, base, profile, job, agents, history>>
  BY DEF Install
<1>2. run.pc \in Validating /\ run.pc \in Copying /\ "npm" \in Copying /\ "npm" \in Validating
  BY <1>1 DEF Validating, Copying
<1>3. copy \in [tree : Tree, modules : {"none", "partial", "complete"}, of : SUBSET Runs]
  BY <1>2, CopyHasTree
<1>4. run.results \in [Commands -> Statuses]  BY <1>0 DEF Types, Runner
<1>5. run.of = "implement" => copy.modules = "none"  BY <1>0, <1>1 DEF Dependencies
<1> DEFINE skipped(v) == [run.results EXCEPT !["npm install"] = v, !["npm"] = "skipped"]
<1>6. ASSUME NEW results \in [Commands -> Statuses], Go("npm", results),
             copy' \in [tree : Tree, modules : {"none", "partial", "complete"}, of : SUBSET Runs],
             copy'.tree = copy.tree,
             run.of = "implement" => (results["npm"] = "skipped" \/ Installed')
      PROVE  FilesInv'
  <2>1. run' \in Runner /\ run'.pc = "npm" /\ run'.of = run.of /\ run'.results = results
    BY <1>0, <1>2, <1>6, GoFields
  <2> QED BY <1>1, <1>2, <1>6, <2>1, NextCommand
<1>7. CASE copy.modules # "none" /\ Go("npm", run.results) /\ UNCHANGED copy
  BY <1>3, <1>4, <1>5, <1>6, <1>7
<1>8. CASE Go("npm", [run.results EXCEPT !["npm install"] = "passed"]) /\ copy' = Complete
  <2>1. [run.results EXCEPT !["npm install"] = "passed"] \in [Commands -> Statuses]
    BY <1>4 DEF Commands, Statuses
  <2>2. copy.tree[Manifest].edits \in SUBSET Runs
    BY <1>3, ManifestAssumption DEF Tree, Content
  <2>3. /\ copy' \in [tree : Tree, modules : {"none", "partial", "complete"}, of : SUBSET Runs]
        /\ copy'.tree = copy.tree /\ copy'.modules = "complete"
        /\ copy'.of = copy.tree[Manifest].edits
    BY <1>3, <1>8, <2>2 DEF Complete
  <2>4. Installed'  BY <2>3 DEF Installed
  <2> QED BY <1>6, <1>8, <2>1, <2>3, <2>4
<1>9. CASE Go("npm", skipped("failed")) /\ copy' \in {copy, [copy EXCEPT !.modules = "partial"]}
  <2>1. skipped("failed") \in [Commands -> Statuses] /\ skipped("failed")["npm"] = "skipped"
    BY <1>4 DEF Commands, Statuses
  <2>2. /\ copy' \in [tree : Tree, modules : {"none", "partial", "complete"}, of : SUBSET Runs]
        /\ copy'.tree = copy.tree
    BY <1>3, <1>9
  <2> HIDE DEF skipped
  <2> QED BY <1>6, <1>9, <2>1, <2>2
<1>10. CASE Go("npm", skipped("skipped")) /\ UNCHANGED copy
  <2>1. skipped("skipped") \in [Commands -> Statuses] /\ skipped("skipped")["npm"] = "skipped"
    BY <1>4 DEF Commands, Statuses
  <2> HIDE DEF skipped
  <2> QED BY <1>3, <1>6, <1>10, <2>1
<1> QED BY <1>7, <1>8, <1>9, <1>10 DEF Install

\* The end of a validation.
LEMMA ValidatedKeeps ==
  ASSUME FilesInv, run.pc \in Validating,
         NEW results \in [Commands -> Statuses], NEW validated \in Tree \cup {None},
         NEW installed \in BOOLEAN,
         job' = Validated(results, validated, installed), run' = Idle,
         UNCHANGED <<tree, base, profile, agents, copy, history>>,
         validated = None \/ (run.pc \in Copying /\ validated = copy.tree),
         run.of = "implement" => installed
  PROVE  FilesInv'
<1>0. Types /\ Fits /\ Endings /\ FirstRun /\ Current /\ Dependencies  BY DEF FilesInv
<1>1. UNCHANGED <<tree, base, profile, agents, copy, excused, unsettled, stops>>  BY DEF history
<1>2. run' \in Runner /\ run'.pc = "none" /\ run'.of = "implement"  BY IdleFields
<1>3. /\ job.state \in {"VALIDATING", "REVALIDATING"}
      /\ run.of = "implement" <=> job.state = "VALIDATING"
      /\ run.of = "correct" <=> job.state = "REVALIDATING"
  BY <1>0 DEF Fits, Types, Runner, Runs
<1>4. /\ job' \in Job /\ job'.state = "IMPLEMENTATION_READY"
      /\ job'.validated = validated /\ job'.installed = installed
      /\ job'.attempted = (job.attempted \/ run.of = "correct")
      /\ job'.started = job.started /\ job'.failed = job.failed /\ job'.diff = job.diff
      /\ job'.claims = job.claims
  <2> DEFINE tried == job.attempted \/ run.of = "correct"
  <2>1. job' = [job EXCEPT !.state = "IMPLEMENTATION_READY", !.results = results,
                  !.validated = validated, !.installed = installed, !.attempted = tried]
    BY DEF Validated
  <2>2. tried \in BOOLEAN /\ tried = (job.attempted \/ run.of = "correct")  BY <1>0 DEF Types, Job
  <2> HIDE DEF tried
  <2> QED BY <1>0, <2>1, <2>2 DEF Types, Job
<1>5. Types'  BY <1>0, <1>1, <1>2, <1>4 DEF Types
<1>6. Fits'
  <2>1. job'.started => job'.attempted
    BY <1>0, <1>3, <1>4 DEF Fits, FirstRun
  <2> QED BY <1>2, <1>4, <2>1 DEF Fits, Validating, Copying
<1>7. Endings'  BY <1>0, <1>1, <1>2, <1>4 DEF Endings, InFlux, Validating
<1>8. FirstRun'  BY <1>0, <1>1, <1>3, <1>4 DEF FirstRun, Reviewed, Fits, Changed, Baseline
<1>9. Current'
  <2>1. ~excused => job.diff = tree  BY <1>0 DEF Current
  <2>2. (~excused /\ validated # None) => validated = tree  BY <1>0 DEF Current
  <2> QED BY <1>1, <1>2, <1>4, <2>1, <2>2 DEF Current, Validating, Copying, Ready
<1>10. Dependencies'  BY <1>1, <1>2, <1>3, <1>4, <1>0 DEF Dependencies, Ready, Runner, Types, Runs
<1> QED BY <1>5, <1>6, <1>7, <1>8, <1>9, <1>10 DEF FilesInv

LEMMA NpmKeeps == FilesInv /\ RunNpm => FilesInv'
<1> SUFFICES ASSUME FilesInv, RunNpm PROVE FilesInv'  OBVIOUS
<1>0. Types /\ Dependencies /\ run.pc = "npm"  BY DEF FilesInv, RunNpm
<1>1. PICK v \in IF run.results["npm"] = "skipped" THEN {"skipped"} ELSE Verdicts :
       job' = Validated([run.results EXCEPT !["npm"] = v], copy.tree, v = "skipped" \/ Installed)
  BY DEF RunNpm
<1> DEFINE installed == v = "skipped" \/ Installed
           results == [run.results EXCEPT !["npm"] = v]
<1>2. results \in [Commands -> Statuses]
  BY <1>0 DEF Types, Runner, Verdicts, Statuses, Commands
<1>3. installed \in BOOLEAN  OBVIOUS
<1>4. run.of = "implement" => installed  BY <1>0, <1>1 DEF Dependencies
<1>5. job' = Validated(results, copy.tree, installed)  BY <1>1
<1>6. run.pc \in Validating /\ run.pc \in Copying /\ copy.tree \in Tree \cup {None}
  BY <1>0 DEF Validating, Copying, Types
<1>7. run' = Idle /\ UNCHANGED <<tree, base, profile, agents, copy, history>>  BY DEF RunNpm
<1> HIDE DEF installed, results
<1> QED BY <1>2, <1>3, <1>4, <1>5, <1>6, <1>7, ValidatedKeeps

LEMMA NoNpmKeeps == FilesInv /\ NoNpm => FilesInv'
<1> SUFFICES ASSUME FilesInv, NoNpm PROVE FilesInv'  OBVIOUS
<1>0. Types /\ run.pc = "install"  BY DEF FilesInv, NoNpm
<1>1. run.pc \in Validating /\ run.pc \in Copying /\ copy.tree \in Tree \cup {None}
      /\ run.results \in [Commands -> Statuses]
  BY <1>0 DEF Validating, Copying, Types, Runner
<1>2. /\ job' = Validated(run.results, copy.tree, TRUE) /\ run' = Idle
      /\ UNCHANGED <<tree, base, profile, agents, copy, history>>
  BY DEF NoNpm
<1> QED BY <1>1, <1>2, ValidatedKeeps

LEMMA NothingKeeps == FilesInv /\ NothingToValidate => FilesInv'
<1> SUFFICES ASSUME FilesInv, NothingToValidate PROVE FilesInv'  OBVIOUS
<1>1. run.pc \in Validating  BY DEF Validating, NothingToValidate
<1>2. /\ job' = Validated(NoResults, None, TRUE) /\ run' = Idle
      /\ UNCHANGED <<tree, base, profile, agents, copy, history>>
  BY DEF NothingToValidate
<1> QED BY <1>1, <1>2, IdleFields, ValidatedKeeps

(***************************************************************************)
(* A stop.                                                                 *)
(***************************************************************************)
LEMMA CrashKeeps == FilesInv /\ Crash => FilesInv'
<1> SUFFICES ASSUME FilesInv, Crash PROVE FilesInv'  OBVIOUS
<1>0. Types /\ Fits /\ Endings /\ FirstRun /\ Current /\ Dependencies  BY DEF FilesInv
<1>1. /\ job.state \notin {"IMPLEMENTATION_READY", "IMPLEMENTATION_FAILED"}
      /\ agents' = {} /\ UNCHANGED <<tree, base, profile, job, copy, excused>>
  BY DEF Crash
<1>2. run' \in Runner /\ run'.pc = "recover" /\ run'.of = "implement"
  BY IdleFields DEF Crash, Runner
<1>3. stops' \in 0..MaxStops  BY <1>0, MaxStopsAssumption DEF Crash, Types
<1>4. /\ unsettled \subseteq unsettled' /\ unsettled' \subseteq Files
      /\ \A f \in Files : InFlux(f) => (base[f] = "mixed" \/ f \in unsettled')
  <2> DEFINE fs == {f \in Files : InFlux(f)}
  <2>1. fs \in SUBSET Files /\ Unsettle(fs) /\ \A f \in Files : InFlux(f) => f \in fs
    BY DEF Crash
  <2> HIDE DEF fs
  <2> QED BY <1>0, <2>1, UnsettleFields
<1>5. Types'  BY <1>0, <1>1, <1>2, <1>3, <1>4 DEF Types
<1>6. Fits'  BY <1>0, <1>1, <1>2 DEF Fits, Validating, Copying
<1>7. Endings'
  <2>1. ASSUME NEW f \in Files
        PROVE  tree'[f].eol = base'[f] \/ base'[f] = "mixed" \/ f \in unsettled'
    BY <1>0, <1>1, <1>4 DEF Endings
  <2> QED BY <1>0, <1>1, <1>2, <1>4, <2>1 DEF Endings, InFlux
<1>8. FirstRun'  BY <1>0, <1>1 DEF FirstRun, Reviewed, Changed, Baseline
<1>9. Current'  BY <1>1, <1>2 DEF Current, Validating, Copying, Ready
<1>10. Dependencies'  BY <1>0, <1>1, <1>2 DEF Dependencies, Ready
<1> QED BY <1>5, <1>6, <1>7, <1>8, <1>9, <1>10 DEF FilesInv

LEMMA StepKeeps == FilesInv /\ [ImplementationNext]_vars => FilesInv'
<1> SUFFICES ASSUME FilesInv, [ImplementationNext]_vars PROVE FilesInv'  OBVIOUS
<1>1. CASE UNCHANGED vars
  <2>0. UNCHANGED <<tree, base, profile, job, run, agents, copy, excused, unsettled, stops>>
    BY <1>1 DEF vars
  <2>1. Types'  BY <2>0 DEF FilesInv, Types
  <2>2. Fits'  BY <2>0 DEF FilesInv, Fits
  <2>3. Endings'  BY <2>0 DEF FilesInv, Endings, InFlux
  <2>4. FirstRun'  BY <2>0 DEF FilesInv, FirstRun, Reviewed, Changed, Baseline
  <2>5. Current'  BY <2>0 DEF FilesInv, Current, Ready, Baseline
  <2>6. Dependencies'  BY <2>0 DEF FilesInv, Dependencies, Ready, Installed
  <2> QED BY <2>1, <2>2, <2>3, <2>4, <2>5, <2>6 DEF FilesInv
<1>2. CASE ImplementationNext
  <2>1. CASE StartImplementation \/ CorrectValidation \/ StartCorrection
    BY <2>1, StartImplementationKeeps, CorrectValidationKeeps, StartCorrectionKeeps
  <2>2. CASE \E f \in Files : NormalizeToLf(f) \/ RestoreLineEndings(f)
    BY <2>2, NormalizeKeeps, RestoreKeeps
  <2>3. CASE CallAgent \/ AgentReturns \/ AgentTimesOut \/ Restored
    BY <2>3, CallAgentKeeps, AgentReturnsKeeps, AgentTimesOutKeeps, RestoredKeeps
  <2>4. CASE \E a \in Runs : LateAgentEnds(a) \/ \E f \in Files : AgentEdits(a, f)
    BY <2>4, LateAgentEndsKeeps, AgentEditsKeeps
  <2>5. CASE CollectDiff \/ CollectCorrectionDiff \/ Fail
    BY <2>5, CollectDiffKeeps, CollectCorrectionKeeps, FailKeeps
  <2>6. CASE ValidationRaises \/ PrepareCopy \/ RunPython \/ Install
    BY <2>6, RaisesKeeps, PrepareKeeps, PythonKeeps, InstallKeeps
  <2>7. CASE RunNpm \/ NoNpm \/ NothingToValidate
    BY <2>7, NpmKeeps, NoNpmKeeps, NothingKeeps
  <2>8. CASE Crash \/ Recover  BY <2>8, CrashKeeps, RecoverKeeps
  <2> QED BY <1>2, <2>1, <2>2, <2>3, <2>4, <2>5, <2>6, <2>7, <2>8 DEF ImplementationNext
<1> QED BY <1>1, <1>2

LEMMA FilesKept == ImplementationSpec => []FilesInv
BY InitKeeps, StepKeeps, PTL DEF ImplementationSpec

(***************************************************************************)
(* The theorems.                                                           *)
(***************************************************************************)

\* Whatever the runner, the agents and the stops do, the state is well formed,
\* and a finished job has no runner (runner.py).
THEOREM ImplementationTypes == ImplementationSpec => []ImplementationTypeOK
<1>1. FilesInv => ImplementationTypeOK
  BY DEF FilesInv, Types, Fits, ImplementationTypeOK, Runner, Runs, Validating
<1> QED BY <1>1, FilesKept, PTL

\* A file no run has edited is in the diff for its line endings only when they
\* were mixed, or when a stop, a conversion that passed over the file or an agent
\* left them so (line_endings.py).
THEOREM DiffsHaveNoNoise == ImplementationSpec => []NoiseIsExplained
<1>1. FilesInv => NoiseIsExplained
  BY DEF FilesInv, Endings, NoiseIsExplained, Noise
<1> QED BY <1>1, FilesKept, PTL

\* A claim that got past the check of run_implementation has an edit to show, or
\* the endings of a file that was mixed or was left so.
THEOREM ClaimsHaveChanges == ImplementationSpec => []NoHollowSuccess
<1>1. FilesInv => NoHollowSuccess
  <2> SUFFICES ASSUME FilesInv, job.state = "VALIDATING" \/ (Ready /\ ~job.attempted), job.claims
               PROVE  /\ job.diff # None
                      /\ \/ \E f \in Files : job.diff[f].edits # {}
                         \/ \E f \in Noise : base[f] = "mixed" \/ f \in unsettled
    BY DEF NoHollowSuccess
  <2>1. Reviewed /\ ~job.started  BY DEF FilesInv, Fits, Reviewed, Ready
  <2>2. job.diff # None /\ job.diff # Baseline  BY <2>1 DEF FilesInv, FirstRun, Changed
  <2>3. job.diff \in [Files -> Content]  BY <2>2 DEF FilesInv, Types, Job, Tree
  <2>4. PICK f \in Files : job.diff[f] # [edits |-> {}, eol |-> base[f]]
    BY <2>2, <2>3 DEF Baseline
  <2>5. job.diff[f].edits # {} \/ job.diff[f].eol # base[f]
    BY <2>3, <2>4 DEF Content
  <2> QED BY <2>2, <2>5 DEF FilesInv, Endings, Noise
<1> QED BY <1>1, FilesKept, PTL

\* The reviewed diff is the working tree, unless git failed, a late agent edited
\* on, or a correction took everything back (_refresh_diff_best_effort).
THEOREM ReviewedTree == ImplementationSpec => []ReviewShowsTree
<1>1. FilesInv => ReviewShowsTree  BY DEF FilesInv, Current, ReviewShowsTree
<1> QED BY <1>1, FilesKept, PTL

\* The results next to a reviewed diff are about that diff, unless the
\* correction failed (run_validation_correction, validate_workspace).
THEOREM ResultsAreOfDiff == ImplementationSpec => []ResultsMatchDiff
<1>1. FilesInv => ResultsMatchDiff  BY DEF FilesInv, Current, ResultsMatchDiff
<1> QED BY <1>1, FilesKept, PTL

\* No npm verdict without the dependencies it needs (_run_profiles).
THEOREM VerdictsHaveDependencies == ImplementationSpec => []VerdictNeedsInstall
<1>1. FilesInv => VerdictNeedsInstall  BY DEF FilesInv, Dependencies, VerdictNeedsInstall
<1> QED BY <1>1, FilesKept, PTL
=============================================================================
