-------------------------- MODULE Planning_proofs --------------------------
(***************************************************************************)
(* Proofs about Planning, for every set of jobs, texts, branches, trees,   *)
(* requests, settings, costs and lists of attachments.                     *)
(*                                                                         *)
(* PlanInv says what one job's row and coroutine have got so far, by the   *)
(* place the coroutine has reached; a step moves one job, and the others   *)
(* stay Sound.  The attachments are a loop: what they add up to is proved  *)
(* by induction on its turns.                                              *)
(***************************************************************************)
EXTENDS Planning, WellFoundedInduction, TLAPS

-----------------------------------------------------------------------------
(* Induction, from the least element of a set of numbers.                  *)

\* A set of numbers that is not empty has a least one.
LEMMA Least ==
  ASSUME NEW T, T \subseteq Nat, T # {}
  PROVE  \E x \in T : \A y \in T : x <= y
<1> DEFINE R == OpToRel(<, Nat)
<1>1. IsWellFoundedOn(R, Nat)  BY NatLessThanWellFounded
<1>2. R = { ss \in Nat \X Nat : ss[1] < ss[2] }  BY DEF OpToRel
<1>3. \A x, y \in Nat : y < x => <<y, x>> \in R
  <2> HIDE DEF R
  <2> QED BY <1>2
<1> HIDE DEF R
<1>4. PICK x \in T : \A y \in T : ~ (<<y, x>> \in R)  BY <1>1, WFMin
<1>5. \A y \in T : ~(y < x)  BY <1>3, <1>4
<1> QED BY <1>4, <1>5

\* Induction, with a set for the predicate.
LEMMA Induct ==
  ASSUME NEW S, 0 \in S, \A n \in Nat : n \in S => n + 1 \in S
  PROVE  \A n \in Nat : n \in S
<1> SUFFICES ASSUME Nat \ S # {} PROVE FALSE  OBVIOUS
<1>1. PICK x \in Nat \ S : \A y \in Nat \ S : x <= y  BY Least
<1>2. x # 0 /\ x - 1 \in Nat  BY <1>1
<1>3. x - 1 \in S  BY <1>1, <1>2
<1> QED BY <1>1, <1>2, <1>3

\* g follows the recursion: its first value, and each from the one before.
Follows(g, first, step, n) == /\ g[0] = first
                              /\ \A i \in 1..n : g[i] = step[i][g[i - 1]]
\* The function a recursion describes exists, of values in S.
LEMMA Recursion ==
  ASSUME NEW S, NEW first \in S, NEW m \in Nat, NEW step \in [1..m -> [S -> S]]
  PROVE  \E g \in [0..m -> S] : Follows(g, first, step, m)
<1> DEFINE Reached == { n \in Nat : n <= m => \E g \in [0..n -> S] : Follows(g, first, step, n) }
<1>1. 0 \in Reached
  <2>1. [i \in 0..0 |-> first] \in [0..0 -> S]  OBVIOUS
  <2>2. Follows([i \in 0..0 |-> first], first, step, 0)  BY DEF Follows
  <2> QED BY <2>1, <2>2
<1>2. ASSUME NEW n \in Nat, n \in Reached PROVE n + 1 \in Reached
  <2> SUFFICES ASSUME n + 1 <= m
               PROVE  \E g \in [0..(n + 1) -> S] : Follows(g, first, step, n + 1)
    OBVIOUS
  <2>1. PICK g \in [0..n -> S] : Follows(g, first, step, n)  BY <1>2
  <2> DEFINE h == [i \in 0..(n + 1) |-> IF i = n + 1 THEN step[n + 1][g[n]] ELSE g[i]]
  <2>2. step[n + 1][g[n]] \in S
    <3>1. n + 1 \in 1..m /\ g[n] \in S  OBVIOUS
    <3> QED BY <3>1
  <2>3. h \in [0..(n + 1) -> S]
    <3>1. \A i \in 0..(n + 1) : i # n + 1 => i \in 0..n  OBVIOUS
    <3> QED BY <2>2, <3>1
  <2>4. h[0] = first  BY <2>1 DEF Follows
  <2>5. ASSUME NEW i \in 1..(n + 1) PROVE h[i] = step[i][h[i - 1]]
    <3>1. i - 1 \in 0..n /\ h[i - 1] = g[i - 1]  OBVIOUS
    <3>2. CASE i = n + 1  BY <3>1, <3>2
    <3>3. CASE i # n + 1
      <4>1. i \in 1..n  BY <3>3
      <4>2. h[i] = g[i]  BY <3>3
      <4> QED BY <2>1, <3>1, <4>1, <4>2 DEF Follows
    <3> QED BY <3>2, <3>3
  <2> HIDE DEF h
  <2>6. Follows(h, first, step, n + 1)  BY <2>4, <2>5 DEF Follows
  <2> QED BY <2>3, <2>6
<1> HIDE DEF Reached
<1>3. m \in Reached  BY <1>1, <1>2, Induct
<1> QED BY <1>3 DEF Reached
(***************************************************************************)
(* The attachments.                                                        *)
(***************************************************************************)
Taken == [room : Int, chars : Nat]

\* The text of an attachment, and what is left of the room after it.
LEMMA TakeFits ==
  ASSUME NEW from \in Trackers, NEW t \in Taken, t.room + t.chars = MaxTotal,
         t.chars <= MaxTotal + Heading + Mark, NEW a \in Attachment
  PROVE  LET new == TakeAttachment(from, t, a)
         IN  /\ new \in Taken /\ new.room + new.chars = MaxTotal
             /\ new.chars <= MaxTotal + Heading + Mark
<1> DEFINE text == Heading + Extracted(a.chars, t.room)
<1>1. MaxTotal \in Nat /\ Heading \in Nat /\ Mark \in Nat /\ a.chars \in Nat
  BY RequirementAssumption DEF Attachment
<1>2. t.room \in Int /\ t.chars \in Nat  BY DEF Taken
<1>3. CASE t.room > 0 /\ Usable(from, a)
  <2>1. text \in Nat /\ text <= Heading + t.room + Mark
    BY <1>1, <1>2, <1>3 DEF Extracted
  <2> HIDE DEF text
  <2>2. TakeAttachment(from, t, a) = [room |-> t.room - text, chars |-> t.chars + text]
    BY <1>3 DEF TakeAttachment, text
  <2> QED BY <1>1, <1>2, <2>1, <2>2 DEF Taken
<1>4. CASE ~(t.room > 0 /\ Usable(from, a))
  <2>1. TakeAttachment(from, t, a) = t  BY <1>4 DEF TakeAttachment
  <2> QED BY <2>1
<1> QED BY <1>3, <1>4

\* What all the attachments make: never more than the limit, one heading and one mark.
LEMMA AttachedFits ==
  ASSUME NEW from \in Trackers, NEW list \in Seq(Attachment)
  PROVE  /\ AttachedChars(from, list) \in Nat
         /\ AttachedChars(from, list) <= MaxTotal + Heading + Mark
<1> DEFINE turns == IF Len(list) < MaxCount THEN Len(list) ELSE MaxCount
           Good == { t \in Taken : /\ t.room + t.chars = MaxTotal
                                   /\ t.chars <= MaxTotal + Heading + Mark }
           first == [room |-> MaxTotal, chars |-> 0]
           step == [i \in 1..turns |-> [t \in Good |-> TakeAttachment(from, t, list[i])]]
           taken == CHOOSE f : f = [n \in 0..turns |->
                      IF n = 0 THEN first ELSE TakeAttachment(from, f[n - 1], list[n])]
<1>1. turns \in Nat /\ \A i \in 1..turns : list[i] \in Attachment
  BY RequirementAssumption
<1>2. first \in Good
  BY RequirementAssumption DEF Taken
<1>3. step \in [1..turns -> [Good -> Good]]
  <2>1. \A i \in 1..turns, t \in Good : TakeAttachment(from, t, list[i]) \in Good
    BY <1>1, TakeFits
  <2> HIDE DEF Good, turns
  <2> QED BY <2>1
<1> HIDE DEF turns, Good, first
<1>4. PICK g \in [0..turns -> Good] : Follows(g, first, step, turns)
  <2> HIDE DEF step
  <2> QED BY <1>1, <1>2, <1>3, Recursion
<1>5. g = [n \in 0..turns |-> IF n = 0 THEN first ELSE TakeAttachment(from, g[n - 1], list[n])]
  <2>1. g[0] = first  BY <1>4 DEF Follows
  <2>2. ASSUME NEW n \in 1..turns PROVE g[n] = TakeAttachment(from, g[n - 1], list[n])
    <3>1. n - 1 \in 0..turns  BY <1>1
    <3>2. g[n] = step[n][g[n - 1]]  BY <1>4 DEF Follows
    <3> QED BY <3>1, <3>2
  <2> QED BY <1>1, <2>1, <2>2
<1>6. taken = [n \in 0..turns |-> IF n = 0 THEN first
                                  ELSE TakeAttachment(from, taken[n - 1], list[n])]
  BY <1>5
<1> HIDE DEF step, taken
<1>7. /\ taken[0] = first
      /\ \A n \in 1..turns : taken[n] = TakeAttachment(from, taken[n - 1], list[n])
  <2> DEFINE rec == [n \in 0..turns |-> IF n = 0 THEN first
                                        ELSE TakeAttachment(from, taken[n - 1], list[n])]
  <2>1. rec[0] = first  BY <1>1
  <2>2. \A n \in 1..turns : rec[n] = TakeAttachment(from, taken[n - 1], list[n])  BY <1>1
  <2>3. taken = rec  BY <1>6
  <2> HIDE DEF rec
  <2>4. taken[0] = first  BY <2>1, <2>3
  <2>5. \A n \in 1..turns : taken[n] = rec[n]  BY <2>3
  <2> QED BY <2>2, <2>4, <2>5
<1>8. AttachedChars(from, list) = taken[turns].chars
  BY DEF AttachedChars, taken, turns, first
<1> DEFINE Fit == { n \in Nat : n <= turns => taken[n] \in Good }
<1>9. 0 \in Fit  BY <1>1, <1>2, <1>7
<1>10. ASSUME NEW n \in Nat, n \in Fit PROVE n + 1 \in Fit
  <2> SUFFICES ASSUME n + 1 <= turns PROVE taken[n + 1] \in Good
    OBVIOUS
  <2>1. taken[n] \in Good  BY <1>1, <1>10
  <2>2. n + 1 \in 1..turns /\ (n + 1) - 1 = n  BY <1>1
  <2>3. taken[n + 1] = TakeAttachment(from, taken[n], list[n + 1])
    BY <1>7, <2>2
  <2>4. list[n + 1] \in Attachment  BY <1>1, <2>2
  <2>5. TakeAttachment(from, taken[n], list[n + 1]) \in Good
    BY <2>1, <2>4, TakeFits DEF Good
  <2> QED BY <2>3, <2>5
<1> HIDE DEF Fit
<1>11. turns \in Fit  BY <1>1, <1>9, <1>10, Induct
<1>12. taken[turns] \in Good  BY <1>1, <1>11 DEF Fit
<1> QED BY <1>8, <1>12 DEF Good, Taken

(***************************************************************************)
(* The types.                                                              *)
(***************************************************************************)
Workspaces == [branch : Branches \cup {None}, tree : Trees]
Attempts == [cost : Nat, answered : BOOLEAN]
Maps == { tree.map : tree \in Trees }

Rows ==
  [ request : Requests \cup {None}, state : Unfinished \cup {"none", "PLAN_READY", "FAILED"},
    repo_info : RepoInfos \cup {None}, workspace : Workspaces \cup {None},
    plan : Plans \cup {None, Stub}, usage : Usages \cup {None} ]

Runs ==
  [ at : {"none", "slot", "ticket", "inspect", "clone", "map", "agent"},
    ticket : Texts \cup {None}, inspected : RepoInfos \cup {None}, prompt : Prompts \cup {None} ]

\* The rows of plan_cache.db are keyed by what their plans were made from.
PlanRow(r) ==
  /\ r.plan \in Plans
  /\ r.key[2] = r.plan.model /\ r.key[3] = r.plan.effort /\ r.key[4] = r.plan.prompt

WorldOK ==
  /\ issue \in Contents /\ settings \in Settings /\ changes \in 0..MaxChanges
  /\ source \in [heads : [Branches -> Trees], head : Branches, dirty : BOOLEAN]
  /\ \A r \in plans : PlanRow(r)
  /\ \A d \in digests : d.digest \in Digests

TypeInv ==
  /\ job \in [Jobs -> Rows] /\ run \in [Jobs -> Runs]
  /\ asked \in [Jobs -> Wants \cup {None}] /\ attempts \in [Jobs -> Seq(Attempts)]

\* The places where a coroutine may be while its row is in a state.
PlacesOf(state) ==
  CASE state = "QUEUED" -> {"slot"}
    [] state = "FETCHING_TICKET" -> {"ticket"}
    [] state = "CLONING_REPO" -> {"inspect", "clone"}
    [] state = "MAPPING_REPO" -> {"map"}
    [] state = "PLANNING" -> {"agent"}
    [] OTHER -> {"none"}

\* What one job's row and coroutine have got so far, by the place reached.
InPlace(j) ==
  /\ run[j].at \in PlacesOf(job[j].state)
  /\ job[j].state # "none" => job[j].request \in Requests
  /\ job[j].state = "PLAN_READY" <=> job[j].plan # None
  /\ run[j].at \in {"inspect", "clone", "map"} => run[j].ticket \in Texts
  /\ (run[j].at = "clone" /\ job[j].request.repo = "LOCAL") => run[j].inspected \in RepoInfos
  /\ job[j].state \in {"MAPPING_REPO", "PLANNING", "PLAN_READY"} => job[j].repo_info \in RepoInfos
  /\ run[j].at = "map" => job[j].workspace \in Workspaces
  /\ run[j].at = "agent" => run[j].prompt \in Prompts

\* A coroutine at the agent asks for what asked records, and a plan meets it.
Asks(j) ==
  /\ run[j].at = "agent" => asked[j] = Wanted(run[j].prompt)
  /\ job[j].plan \notin {None, Stub} => Meets(job[j].plan, asked[j])

\* Nothing is spent before the agent is reached, and no usage is known of before a job ends.
Spent(j) ==
  /\ job[j].state \in Unfinished \cup {"none"} => job[j].usage = None
  /\ job[j].state \in (Unfinished \ {"PLANNING"}) \cup {"none"} => attempts[j] = <<>>
  /\ job[j].state = "PLANNING" => Len(attempts[j]) <= 1
  /\ Len(attempts[j]) <= 2
  /\ job[j].state \in {"PLAN_READY", "FAILED"} =>
       Cost(job[j].usage) =
         IF attempts[j] # <<>> /\ attempts[j][Len(attempts[j])].answered
           THEN attempts[j][Len(attempts[j])].cost ELSE 0

Bounded(j) == run[j].ticket # None => run[j].ticket.attached <= MaxTotal + Heading + Mark

\* What the inspection found is what the clone then reports.
Matched(j) ==
  (job[j].request.repo = "LOCAL" /\ \A s \in Settings : s.match) =>
    /\ run[j].at = "clone" =>
         MatchesTicket(job[j].request, BaseOr(job[j].request, run[j].inspected.branch))
    /\ job[j].repo_info # None => MatchesTicket(job[j].request, job[j].repo_info.branch)

Reported(j) ==
  /\ job[j].state = "none" => job[j].repo_info = None
  /\ (job[j].repo_info # None /\ (job[j].request.repo # "LOCAL" \/ job[j].request.base_branch # None))
       => job[j].repo_info.branch = job[j].workspace.branch

Sound(j) ==
  InPlace(j) /\ Asks(j) /\ Spent(j) /\ Bounded(j)
    /\ (job[j].state # "none" => Matched(j)) /\ Reported(j)

PlanInv == WorldOK /\ TypeInv /\ \A j \in Jobs : Sound(j)

(***************************************************************************)
(* A step of one job leaves the others as they were.                       *)
(***************************************************************************)
SameJob(j) ==
  job'[j] = job[j] /\ run'[j] = run[j] /\ asked'[j] = asked[j] /\ attempts'[j] = attempts[j]

Others(i) == \A j \in Jobs \ {i} : SameJob(j)

LEMMA SameIsSound ==
  ASSUME NEW j \in Jobs, Sound(j), SameJob(j), settings' = settings
  PROVE  Sound(j)'
<1> USE DEF SameJob
<1>1. InPlace(j)'  BY DEF Sound, InPlace
<1>2. Asks(j)'  BY DEF Sound, Asks, Wanted
<1>3. Spent(j)'  BY DEF Sound, Spent
<1>4. Bounded(j)'  BY DEF Sound, Bounded
<1>5. (job[j].state # "none" => Matched(j))'  BY DEF Sound, Matched
<1>6. Reported(j)'  BY DEF Sound, Reported
<1> QED BY <1>1, <1>2, <1>3, <1>4, <1>5, <1>6 DEF Sound

LEMMA OneMoves ==
  ASSUME PlanInv, NEW i \in Jobs, settings' = settings, WorldOK', TypeInv', Others(i), Sound(i)'
  PROVE  PlanInv'
<1>1. ASSUME NEW j \in Jobs PROVE Sound(j)'
  <2>1. CASE j = i  BY <2>1
  <2>2. CASE j # i  BY <2>2, SameIsSound DEF PlanInv, Others
  <2> QED BY <2>1, <2>2
<1> QED BY <1>1 DEF PlanInv

LEMMA SameWorld ==
  ASSUME WorldOK, UNCHANGED <<world, plans, digests>>
  PROVE  WorldOK' /\ settings' = settings
BY DEF WorldOK, world, PlanRow

\* What the helpers of the steps do to the row and the coroutine of their job.
LEMMA AdvanceFields ==
  ASSUME TypeInv, NEW j \in Jobs, NEW state \in Unfinished, NEW place \in {"ticket", "slot"},
         Advance(j, state, place)
  PROVE  /\ job' \in [Jobs -> Rows] /\ run' \in [Jobs -> Runs]
         /\ \A i \in Jobs \ {j} : job'[i] = job[i] /\ run'[i] = run[i]
         /\ job'[j].state = state /\ job'[j].request = job[j].request
         /\ job'[j].repo_info = job[j].repo_info /\ job'[j].workspace = job[j].workspace
         /\ job'[j].plan = job[j].plan /\ job'[j].usage = job[j].usage
         /\ run'[j].at = place /\ run'[j].ticket = run[j].ticket
BY DEF TypeInv, Rows, Runs, Advance, Unfinished

LEMMA NoRunTyped == NoRun \in Runs
BY DEF NoRun, Runs

LEMMA FailFields ==
  ASSUME TypeInv, NEW j \in Jobs, NEW usage \in Usages \cup {None}, Fail(j, usage)
  PROVE  /\ job' \in [Jobs -> Rows] /\ run' \in [Jobs -> Runs]
         /\ \A i \in Jobs \ {j} : job'[i] = job[i] /\ run'[i] = run[i]
         /\ job'[j].state = "FAILED" /\ job'[j].request = job[j].request
         /\ job'[j].repo_info = job[j].repo_info /\ job'[j].workspace = job[j].workspace
         /\ job'[j].plan = job[j].plan /\ job'[j].usage = usage
         /\ run'[j].at = "none" /\ run'[j].ticket = None
<1>1. /\ job' \in [Jobs -> Rows]
      /\ \A i \in Jobs \ {j} : job'[i] = job[i]
      /\ job'[j].state = "FAILED" /\ job'[j].request = job[j].request
      /\ job'[j].repo_info = job[j].repo_info /\ job'[j].workspace = job[j].workspace
      /\ job'[j].plan = job[j].plan /\ job'[j].usage = usage
  BY DEF TypeInv, Rows, Fail
<1>2. run' \in [Jobs -> Runs] /\ run'[j] = NoRun /\ \A i \in Jobs \ {j} : run'[i] = run[i]
  BY NoRunTyped DEF TypeInv, Fail
<1> QED BY <1>1, <1>2 DEF NoRun

LEMMA ReadyFields ==
  ASSUME TypeInv, NEW j \in Jobs, NEW plan \in Plans \cup {Stub}, NEW usage \in Usages,
         PlanReady(j, plan, usage)
  PROVE  /\ job' \in [Jobs -> Rows] /\ run' \in [Jobs -> Runs]
         /\ \A i \in Jobs \ {j} : job'[i] = job[i] /\ run'[i] = run[i]
         /\ job'[j].state = "PLAN_READY" /\ job'[j].request = job[j].request
         /\ job'[j].repo_info = job[j].repo_info /\ job'[j].workspace = job[j].workspace
         /\ job'[j].plan = plan /\ job'[j].usage = usage
         /\ run'[j].at = "none" /\ run'[j].ticket = None
<1>1. /\ job' \in [Jobs -> Rows]
      /\ \A i \in Jobs \ {j} : job'[i] = job[i]
      /\ job'[j].state = "PLAN_READY" /\ job'[j].request = job[j].request
      /\ job'[j].repo_info = job[j].repo_info /\ job'[j].workspace = job[j].workspace
      /\ job'[j].plan = plan /\ job'[j].usage = usage
  BY DEF TypeInv, Rows, PlanReady
<1>2. run' \in [Jobs -> Runs] /\ run'[j] = NoRun /\ \A i \in Jobs \ {j} : run'[i] = run[i]
  BY NoRunTyped DEF TypeInv, PlanReady
<1> QED BY <1>1, <1>2 DEF NoRun

\* Which state a row is in, from where its coroutine is.
LEMMA StateAt ==
  ASSUME PlanInv, NEW j \in Jobs
  PROVE  /\ run[j].at = "slot" => job[j].state = "QUEUED"
         /\ run[j].at = "ticket" => job[j].state = "FETCHING_TICKET"
         /\ run[j].at \in {"inspect", "clone"} => job[j].state = "CLONING_REPO"
         /\ run[j].at = "map" => job[j].state = "MAPPING_REPO"
         /\ run[j].at = "agent" => job[j].state = "PLANNING"
<1>1. run[j].at \in PlacesOf(job[j].state) /\ job[j] \in Rows
  BY DEF PlanInv, Sound, InPlace, TypeInv
<1>2. job[j].state \in Unfinished \cup {"none", "PLAN_READY", "FAILED"}  BY <1>1 DEF Rows
<1> QED BY <1>1, <1>2 DEF PlacesOf, Unfinished

LEMMA InitSound == PlanningInit => PlanInv
<1> SUFFICES ASSUME PlanningInit PROVE PlanInv  OBVIOUS
<1> USE DEF PlanningInit
<1>1. WorldOK
  <2>1. changes \in 0..MaxChanges  BY PlanningAssumption
  <2>2. source \in [heads : [Branches -> Trees], head : Branches, dirty : BOOLEAN]  OBVIOUS
  <2> QED BY <2>1, <2>2 DEF WorldOK
<1>2. NoJob \in Rows /\ NoRun \in Runs  BY NoRunTyped DEF NoJob, Rows
<1>3. TypeInv  BY <1>2 DEF TypeInv
<1>4. ASSUME NEW j \in Jobs PROVE Sound(j)
  <2>1. job[j] = NoJob /\ run[j] = NoRun /\ attempts[j] = <<>>  OBVIOUS
  <2>2. InPlace(j)  BY <2>1 DEF InPlace, NoJob, NoRun, PlacesOf
  <2>3. Asks(j)  BY <2>1 DEF Asks, NoJob, NoRun
  <2>4. Spent(j)  BY <2>1 DEF Spent, NoJob, Unfinished
  <2>5. Bounded(j)  BY <2>1 DEF Bounded, NoRun
  <2>6. job[j].state = "none"  BY <2>1 DEF NoJob
  <2>7. Reported(j)  BY <2>1 DEF Reported, NoJob
  <2> QED BY <2>2, <2>3, <2>4, <2>5, <2>6, <2>7 DEF Sound
<1> QED BY <1>1, <1>3, <1>4 DEF PlanInv

\* A step that fails before the planner is asked.
LEMMA EarlyFailure ==
  ASSUME PlanInv, NEW j \in Jobs, job[j].state \in Unfinished \ {"PLANNING"}, Fail(j, None),
         UNCHANGED <<world, plans, digests, asked, attempts>>
  PROVE  PlanInv'
<1>0. WorldOK /\ TypeInv /\ Sound(j)  BY DEF PlanInv
<1>1. WorldOK' /\ settings' = settings  BY <1>0, SameWorld
<1>2. /\ job' \in [Jobs -> Rows] /\ run' \in [Jobs -> Runs]
      /\ \A i \in Jobs \ {j} : job'[i] = job[i] /\ run'[i] = run[i]
      /\ job'[j].state = "FAILED" /\ job'[j].request = job[j].request
      /\ job'[j].repo_info = job[j].repo_info /\ job'[j].workspace = job[j].workspace
      /\ job'[j].plan = job[j].plan /\ job'[j].usage = None
      /\ run'[j].at = "none" /\ run'[j].ticket = None
  BY <1>0, FailFields
<1>3. TypeInv' /\ Others(j)  BY <1>0, <1>2 DEF TypeInv, Others, SameJob
<1>4. job[j].state \notin {"none", "PLAN_READY", "PLANNING"}  BY DEF Unfinished
<1>5. InPlace(j)'  BY <1>0, <1>2, <1>4 DEF Sound, InPlace, PlacesOf
<1>6. Asks(j)'  BY <1>0, <1>2, <1>4 DEF Sound, Asks, InPlace
<1>7. Spent(j)'  BY <1>0, <1>2, <1>4 DEF Sound, Spent, Unfinished, Cost
<1>8. Bounded(j)'  BY <1>2 DEF Bounded
<1>9. Matched(j)'  BY <1>0, <1>2, <1>4 DEF Sound, Matched
<1>10. Reported(j)'  BY <1>0, <1>2, <1>4 DEF Sound, Reported
<1>11. Sound(j)'  BY <1>5, <1>6, <1>7, <1>8, <1>9, <1>10 DEF Sound
<1> QED BY <1>1, <1>3, <1>11, OneMoves

LEMMA CreateSound ==
  ASSUME PlanInv, NEW j \in Jobs, CreateJob(j)
  PROVE  PlanInv'
<1>0. WorldOK /\ TypeInv /\ Sound(j)  BY DEF PlanInv
<1>1. PICK r \in Requests :
        /\ job[j].state = "none"
        /\ job' = [job EXCEPT ![j].request = r, ![j].state = "QUEUED"]
        /\ run' = [run EXCEPT ![j].at = "slot"]
        /\ UNCHANGED <<world, plans, digests, asked, attempts>>
  BY DEF CreateJob
<1>2. WorldOK' /\ settings' = settings  BY <1>0, <1>1, SameWorld
<1>3. /\ job' \in [Jobs -> Rows]
      /\ \A i \in Jobs \ {j} : job'[i] = job[i]
      /\ job'[j].state = "QUEUED" /\ job'[j].request = r
      /\ job'[j].repo_info = job[j].repo_info /\ job'[j].workspace = job[j].workspace
      /\ job'[j].plan = job[j].plan /\ job'[j].usage = job[j].usage
  BY <1>0, <1>1 DEF TypeInv, Rows, Unfinished
<1>4. /\ run' \in [Jobs -> Runs]
      /\ \A i \in Jobs \ {j} : run'[i] = run[i]
      /\ run'[j].at = "slot" /\ run'[j].ticket = run[j].ticket
  BY <1>0, <1>1 DEF TypeInv, Runs
<1>5. asked'[j] = asked[j] /\ attempts'[j] = attempts[j] /\ job[j].state = "none"  BY <1>1
<1>6. TypeInv' /\ Others(j)  BY <1>0, <1>1, <1>3, <1>4 DEF TypeInv, Others, SameJob
<1>7. InPlace(j)'  BY <1>0, <1>3, <1>4, <1>5 DEF Sound, InPlace, PlacesOf
<1>8. Asks(j)'  BY <1>0, <1>3, <1>4, <1>5 DEF Sound, Asks
<1>9. Spent(j)'  BY <1>0, <1>3, <1>5 DEF Sound, Spent, Unfinished
<1>10. Bounded(j)'  BY <1>0, <1>4 DEF Sound, Bounded
<1>11. Matched(j)'  BY <1>0, <1>3, <1>4, <1>5 DEF Sound, Matched, Reported
<1>12. Reported(j)'  BY <1>0, <1>3, <1>5 DEF Sound, Reported
<1>13. Sound(j)'  BY <1>7, <1>8, <1>9, <1>10, <1>11, <1>12 DEF Sound
<1> QED BY <1>2, <1>6, <1>13, OneMoves

LEMMA StartSound ==
  ASSUME PlanInv, NEW j \in Jobs, StartJob(j)
  PROVE  PlanInv'
<1>0. WorldOK /\ TypeInv /\ Sound(j) /\ job[j].state = "QUEUED"
  BY StateAt DEF PlanInv, StartJob, At
<1>1. WorldOK' /\ settings' = settings  BY <1>0, SameWorld DEF StartJob
<1>2. Advance(j, "FETCHING_TICKET", "ticket") /\ UNCHANGED <<asked, attempts>>  BY DEF StartJob
<1>3. /\ job' \in [Jobs -> Rows] /\ run' \in [Jobs -> Runs]
      /\ \A i \in Jobs \ {j} : job'[i] = job[i] /\ run'[i] = run[i]
      /\ job'[j].state = "FETCHING_TICKET" /\ job'[j].request = job[j].request
      /\ job'[j].repo_info = job[j].repo_info /\ job'[j].workspace = job[j].workspace
      /\ job'[j].plan = job[j].plan /\ job'[j].usage = job[j].usage
      /\ run'[j].at = "ticket" /\ run'[j].ticket = run[j].ticket
  BY <1>0, <1>2, AdvanceFields DEF Unfinished
<1>4. TypeInv' /\ Others(j)  BY <1>0, <1>2, <1>3 DEF TypeInv, Others, SameJob
<1>5. InPlace(j)'  BY <1>0, <1>3 DEF Sound, InPlace, PlacesOf
<1>6. Asks(j)'  BY <1>0, <1>2, <1>3 DEF Sound, Asks
<1>7. Spent(j)'  BY <1>0, <1>2, <1>3 DEF Sound, Spent, Unfinished
<1>8. Bounded(j)'  BY <1>0, <1>3 DEF Sound, Bounded
<1>9. Matched(j)'  BY <1>0, <1>3 DEF Sound, Matched
<1>10. Reported(j)'  BY <1>0, <1>3 DEF Sound, Reported
<1>11. Sound(j)'  BY <1>5, <1>6, <1>7, <1>8, <1>9, <1>10 DEF Sound
<1> QED BY <1>1, <1>4, <1>11, OneMoves

\* Every ticket is a text with its attachments within the bound.
LEMMA TicketsFit ==
  ASSUME WorldOK, NEW r \in Requests, NEW ticket \in Tickets(r)
  PROVE  ticket \in Texts /\ ticket.attached <= MaxTotal + Heading + Mark
<1>0. r \in Request /\ MaxTotal + Heading + Mark \in Nat
  BY PlanningAssumption, RequirementAssumption
<1>1. CASE r.source \in Trackers
  <2>1. Tickets(r) = [says : {issue},
          attached : {0} \cup { AttachedChars(r.source, list) : list \in Attachments }]
    BY <1>1 DEF Tickets
  <2>2. \A list \in Attachments : /\ AttachedChars(r.source, list) \in Nat
                                  /\ AttachedChars(r.source, list) <= MaxTotal + Heading + Mark
    BY <1>1, AttachedFits, PlanningAssumption
  <2>3. \A n \in {0} \cup { AttachedChars(r.source, list) : list \in Attachments } :
          n \in Nat /\ n <= MaxTotal + Heading + Mark
    BY <1>0, <2>2
  <2>4. issue \in Contents  BY DEF WorldOK
  <2>5. /\ ticket \in [says : {issue}, attached : Nat]
        /\ ticket.attached \in
             {0} \cup { AttachedChars(r.source, list) : list \in Attachments }
    <3> DEFINE chars == {0} \cup { AttachedChars(r.source, list) : list \in Attachments }
    <3>1. ticket \in [says : {issue}, attached : chars] /\ chars \subseteq Nat  BY <2>1, <2>3
    <3> HIDE DEF chars
    <3>2. ticket \in [says : {issue}, attached : Nat] /\ ticket.attached \in chars  BY <3>1
    <3> QED BY <3>2 DEF chars
  <2>6. ticket.attached <= MaxTotal + Heading + Mark  BY <2>3, <2>5
  <2> QED BY <2>4, <2>5, <2>6 DEF Texts
<1>2. CASE r.source \notin Trackers
  <2>1. Tickets(r) = [says : {r.text}, attached : {0}]  BY <1>2 DEF Tickets
  <2>2. r.text \in Contents  BY <1>0, <1>2, PlanningAssumption DEF Request
  <2> QED BY <1>0, <2>1, <2>2 DEF Texts
<1> QED BY <1>1, <1>2

LEMMA FetchSound ==
  ASSUME PlanInv, NEW j \in Jobs, FetchTicket(j)
  PROVE  PlanInv'
<1>0. WorldOK /\ TypeInv /\ Sound(j) /\ job[j].state = "FETCHING_TICKET"
  BY StateAt DEF PlanInv, FetchTicket, At
<1>1. PICK ticket \in Tickets(job[j].request) :
        run' = [run EXCEPT ![j].ticket = ticket,
                  ![j].at = IF job[j].request.repo = "REMOTE" THEN "clone" ELSE "inspect"]
  BY DEF FetchTicket
<1>2. job[j].request \in Requests  BY <1>0 DEF Sound, InPlace
<1>3. ticket \in Texts /\ ticket.attached <= MaxTotal + Heading + Mark  BY <1>0, <1>2, TicketsFit
<1>4. /\ run' \in [Jobs -> Runs]
      /\ \A i \in Jobs \ {j} : run'[i] = run[i]
      /\ run'[j].at = IF job[j].request.repo = "REMOTE" THEN "clone" ELSE "inspect"
      /\ run'[j].ticket = ticket
  BY <1>0, <1>1, <1>3 DEF TypeInv, Runs
<1>5. /\ job' \in [Jobs -> Rows]
      /\ \A i \in Jobs \ {j} : job'[i] = job[i]
      /\ job'[j].state = "CLONING_REPO" /\ job'[j].request = job[j].request
      /\ job'[j].repo_info = job[j].repo_info /\ job'[j].workspace = job[j].workspace
      /\ job'[j].plan = job[j].plan /\ job'[j].usage = job[j].usage
  <2>1. job' = [job EXCEPT ![j].state = "CLONING_REPO"]  BY DEF FetchTicket
  <2> QED BY <1>0, <2>1 DEF TypeInv, Rows, Unfinished
<1>6. WorldOK' /\ settings' = settings /\ UNCHANGED <<asked, attempts>>
  BY <1>0, SameWorld DEF FetchTicket
<1>7. TypeInv' /\ Others(j)  BY <1>0, <1>4, <1>5, <1>6 DEF TypeInv, Others, SameJob
<1>8. InPlace(j)'  BY <1>0, <1>3, <1>4, <1>5 DEF Sound, InPlace, PlacesOf
<1>9. Asks(j)'  BY <1>0, <1>4, <1>5, <1>6 DEF Sound, Asks
<1>10. Spent(j)'  BY <1>0, <1>5, <1>6 DEF Sound, Spent, Unfinished
<1>11. Bounded(j)'  BY <1>3, <1>4 DEF Bounded
<1>12. Matched(j)'  BY <1>0, <1>4, <1>5 DEF Sound, Matched
<1>13. Reported(j)'  BY <1>0, <1>5 DEF Sound, Reported
<1>14. Sound(j)'  BY <1>8, <1>9, <1>10, <1>11, <1>12, <1>13 DEF Sound
<1> QED BY <1>6, <1>7, <1>14, OneMoves

LEMMA InspectedTyped ==
  ASSUME WorldOK
  PROVE  Inspected \in RepoInfos /\ Inspected.branch = source.head
BY DEF WorldOK, Inspected, RepoInfos, Repos

LEMMA InspectSound ==
  ASSUME PlanInv, NEW j \in Jobs, InspectSource(j)
  PROVE  PlanInv'
<1>0. WorldOK /\ TypeInv /\ Sound(j) /\ job[j].state = "CLONING_REPO"
  BY StateAt DEF PlanInv, InspectSource, At
<1>1. run[j].at = "inspect"  BY DEF InspectSource, At
<1> DEFINE found == IF job[j].request.repo = "LOCAL" THEN Inspected ELSE None
<1>2. found \in RepoInfos \cup {None}  BY <1>0, InspectedTyped
<1>3. run' = [run EXCEPT ![j].at = "clone", ![j].inspected = found]  BY DEF InspectSource
<1> HIDE DEF found
<1>4. /\ run' \in [Jobs -> Runs]
      /\ \A i \in Jobs \ {j} : run'[i] = run[i]
      /\ run'[j].at = "clone" /\ run'[j].ticket = run[j].ticket /\ run'[j].inspected = found
  BY <1>0, <1>2, <1>3 DEF TypeInv, Runs
<1>5. WorldOK' /\ settings' = settings /\ UNCHANGED <<job, asked, attempts>>
  BY <1>0, SameWorld DEF InspectSource
<1>6. TypeInv' /\ Others(j)  BY <1>0, <1>4, <1>5 DEF TypeInv, Others, SameJob
<1>7. job[j].request.repo = "LOCAL" => found \in RepoInfos /\ found.branch = source.head
  BY <1>0, InspectedTyped DEF found
<1>8. InPlace(j)'  BY <1>0, <1>1, <1>4, <1>5, <1>7 DEF Sound, InPlace, PlacesOf
<1>9. Asks(j)'  BY <1>0, <1>4, <1>5 DEF Sound, Asks
<1>10. Spent(j)'  BY <1>0, <1>5 DEF Sound, Spent
<1>11. Bounded(j)'  BY <1>0, <1>4 DEF Sound, Bounded
<1>12. Matched(j)'
  <2> SUFFICES ASSUME job[j].request.repo = "LOCAL", \A s \in Settings : s.match
               PROVE  Matched(j)'
    BY <1>5 DEF Matched
  <2>1. settings.match  BY <1>0 DEF WorldOK
  <2>2. MatchesTicket(job[j].request, BaseOr(job[j].request, source.head))
    BY <2>1 DEF InspectSource, MayWorkOn, MayCloneWorkTree
  <2>3. job[j].repo_info # None => MatchesTicket(job[j].request, job[j].repo_info.branch)
    BY <1>0 DEF Sound, Matched
  <2> QED BY <1>4, <1>5, <1>7, <2>2, <2>3 DEF Matched
<1>13. Reported(j)'  BY <1>0, <1>5 DEF Sound, Reported
<1>14. Sound(j)'  BY <1>8, <1>9, <1>10, <1>11, <1>12, <1>13 DEF Sound
<1> QED BY <1>5, <1>6, <1>14, OneMoves

\* What a clone is of, and what the job reports of it.
LEMMA ClonedTyped ==
  ASSUME WorldOK, NEW r \in Requests, HasBase(r)
  PROVE  Cloned(r) \in Workspaces
<1>1. BaseOr(r, source.head) \in Branches  BY DEF HasBase
<1>2. source.heads[BaseOr(r, source.head)] \in Trees  BY <1>1 DEF WorldOK
<1> QED BY <1>1, <1>2 DEF Cloned, Workspaces

LEMMA RepoInfoTyped ==
  ASSUME WorldOK, NEW r \in Requests, HasBase(r), NEW found \in RepoInfos \cup {None},
         r.repo = "LOCAL" => found \in RepoInfos
  PROVE  LET info == RepoInfo(r, found, Cloned(r))
         IN  /\ info \in RepoInfos
             /\ r.repo = "LOCAL" => info.branch = BaseOr(r, found.branch)
             /\ (r.repo # "LOCAL" \/ r.base_branch # None) => info.branch = Cloned(r).branch
<1>0. r \in Request  BY PlanningAssumption
<1>1. Cloned(r) \in Workspaces /\ BaseOr(r, source.head) \in Branches
  BY ClonedTyped DEF HasBase
<1>2. CASE r.repo = "LOCAL"
  <2>1. RepoInfo(r, found, Cloned(r)) = [found EXCEPT !.branch = BaseOr(r, found.branch)]
    BY <1>2 DEF RepoInfo
  <2>2. BaseOr(r, found.branch) \in Branches \cup {None}  BY <1>1, <1>2 DEF BaseOr, RepoInfos
  <2>3. r.base_branch # None => Cloned(r).branch = BaseOr(r, found.branch)
    BY <1>2 DEF Cloned, BaseOr
  <2> QED BY <1>2, <2>1, <2>2, <2>3 DEF RepoInfos
<1>3. CASE r.repo # "LOCAL"
  <2>1. RepoInfo(r, found, Cloned(r)) =
          [source_kind |-> r.repo, branch |-> Cloned(r).branch,
           commit_sha |-> Cloned(r).tree, is_dirty |-> FALSE]
    BY <1>3 DEF RepoInfo
  <2> QED BY <1>0, <1>1, <1>3, <2>1 DEF RepoInfos, Workspaces, Request
<1> QED BY <1>2, <1>3

LEMMA CloneSound ==
  ASSUME PlanInv, NEW j \in Jobs, CloneRepo(j)
  PROVE  PlanInv'
<1>0. WorldOK /\ TypeInv /\ Sound(j) /\ job[j].state = "CLONING_REPO" /\ run[j].at = "clone"
  BY StateAt DEF PlanInv, CloneRepo, At
<1> DEFINE request == job[j].request
           workspace == Cloned(request)
           info == RepoInfo(request, run[j].inspected, workspace)
<1>1. request \in Requests /\ HasBase(request)  BY <1>0 DEF Sound, InPlace, CloneRepo
<1>2. run[j].inspected \in RepoInfos \cup {None} /\ (request.repo = "LOCAL" => run[j].inspected \in RepoInfos)
  BY <1>0 DEF Sound, InPlace, TypeInv, Runs
<1>3. workspace \in Workspaces  BY <1>0, <1>1, ClonedTyped
<1>4. /\ info \in RepoInfos
      /\ request.repo = "LOCAL" => info.branch = BaseOr(request, run[j].inspected.branch)
      /\ (request.repo # "LOCAL" \/ request.base_branch # None) => info.branch = workspace.branch
  BY <1>0, <1>1, <1>2, RepoInfoTyped
<1>5. /\ job' = [job EXCEPT ![j].state = "MAPPING_REPO", ![j].workspace = workspace,
                   ![j].repo_info = info]
      /\ run' = [run EXCEPT ![j].at = "map", ![j].inspected = None]
      /\ UNCHANGED <<world, plans, digests, asked, attempts>>
  BY DEF CloneRepo
<1> HIDE DEF workspace, info
<1>6. /\ job' \in [Jobs -> Rows]
      /\ \A i \in Jobs \ {j} : job'[i] = job[i]
      /\ job'[j].state = "MAPPING_REPO" /\ job'[j].request = job[j].request
      /\ job'[j].repo_info = info /\ job'[j].workspace = workspace
      /\ job'[j].plan = job[j].plan /\ job'[j].usage = job[j].usage
  BY <1>0, <1>3, <1>4, <1>5 DEF TypeInv, Rows, Unfinished
<1>7. /\ run' \in [Jobs -> Runs]
      /\ \A i \in Jobs \ {j} : run'[i] = run[i]
      /\ run'[j].at = "map" /\ run'[j].ticket = run[j].ticket
  BY <1>0, <1>5 DEF TypeInv, Runs
<1>8. WorldOK' /\ settings' = settings /\ UNCHANGED <<asked, attempts>>  BY <1>0, <1>5, SameWorld
<1>9. TypeInv' /\ Others(j)  BY <1>0, <1>6, <1>7, <1>8 DEF TypeInv, Others, SameJob
<1>10. InPlace(j)'  BY <1>0, <1>3, <1>4, <1>6, <1>7 DEF Sound, InPlace, PlacesOf
<1>11. Asks(j)'  BY <1>0, <1>6, <1>7, <1>8 DEF Sound, Asks
<1>12. Spent(j)'  BY <1>0, <1>6, <1>8 DEF Sound, Spent, Unfinished
<1>13. Bounded(j)'  BY <1>0, <1>7 DEF Sound, Bounded
<1>14. Matched(j)'  BY <1>0, <1>4, <1>6, <1>7 DEF Sound, Matched
<1>15. Reported(j)'  BY <1>0, <1>4, <1>6 DEF Sound, Reported
<1>16. Sound(j)'  BY <1>10, <1>11, <1>12, <1>13, <1>14, <1>15 DEF Sound
<1> QED BY <1>8, <1>9, <1>16, OneMoves

(***************************************************************************)
(* The planner.                                                            *)
(***************************************************************************)
LEMMA DigestTyped ==
  ASSUME WorldOK, NEW tree \in Trees
  PROVE  /\ GetRepoDigest(tree) \in Digests \cup {None}
         /\ \A d \in DigestsAfter(tree) : d.digest \in Digests
<1>1. RepoDigest(tree) \in Digests  BY DEF Digests
<1>2. \A d \in StoredDigest(tree) : d.digest \in Digests  BY DEF WorldOK, StoredDigest
<1>3. GetRepoDigest(tree) \in Digests \cup {None}
  <2>1. CASE settings.digest = "off"  BY <2>1 DEF GetRepoDigest
  <2>2. CASE settings.digest = "cached" /\ StoredDigest(tree) # {}
    <3>1. (CHOOSE d \in StoredDigest(tree) : TRUE) \in StoredDigest(tree)  BY <2>2
    <3>2. GetRepoDigest(tree) = (CHOOSE d \in StoredDigest(tree) : TRUE).digest
      BY <2>2 DEF GetRepoDigest
    <3> QED BY <1>2, <3>1, <3>2
  <2>3. CASE settings.digest # "off" /\ ~(settings.digest = "cached" /\ StoredDigest(tree) # {})
    BY <1>1, <2>3 DEF GetRepoDigest
  <2> QED BY <2>1, <2>2, <2>3
<1>4. \A d \in DigestsAfter(tree) : d.digest \in Digests
  BY <1>1 DEF DigestsAfter, WorldOK
<1> QED BY <1>3, <1>4

LEMMA PromptTyped ==
  ASSUME NEW ticket \in Texts, NEW tree \in Trees, NEW digest \in Digests \cup {None}
  PROVE  Prompt(ticket, tree, digest) \in Prompts
BY DEF Prompt, Prompts

LEMMA PlanTyped ==
  ASSUME WorldOK, NEW prompt \in Prompts
  PROVE  /\ PlanOf(prompt) \in Plans /\ Wanted(prompt) \in Wants
         /\ Meets(PlanOf(prompt), Wanted(prompt))
<1>1. settings \in Setting /\ settings.shape \in settings.accepts
  BY PlanningAssumption DEF WorldOK
<1>2. PlanOf(prompt) \in Plans  BY <1>1 DEF PlanOf, Plans, Setting
<1>3. Wanted(prompt) \in Wants  BY <1>1 DEF Wanted, Wants, Setting
<1>4. Meets(PlanOf(prompt), Wanted(prompt))  BY <1>1 DEF Meets, PlanOf, Wanted
<1> QED BY <1>2, <1>3, <1>4

\* A plan the cache has for a prompt was made from it, and is one this release takes.
LEMMA HitIsWanted ==
  ASSUME WorldOK, NEW prompt, NEW plan \in CachedPlans(prompt)
  PROVE  plan \in Plans /\ Meets(plan, Wanted(prompt))
<1>1. PICK r \in plans :
        r.key = PlanCacheKey(prompt) /\ r.plan.shape \in settings.accepts /\ plan = r.plan
  BY DEF CachedPlans
<1>2. /\ plan \in Plans /\ PlanCacheKey(prompt)[2] = plan.model
      /\ PlanCacheKey(prompt)[3] = plan.effort /\ PlanCacheKey(prompt)[4] = plan.prompt
  BY <1>1 DEF WorldOK, PlanRow
<1>3. /\ plan.model = settings.model /\ plan.effort = settings.effort /\ plan.prompt = prompt
      /\ plan.shape \in settings.accepts
  BY <1>1, <1>2 DEF PlanCacheKey
<1> QED BY <1>2, <1>3 DEF Meets, Wanted

LEMMA PutKeepsRows ==
  ASSUME WorldOK, NEW prompt \in Prompts
  PROVE  \A r \in PlansWith(prompt, PlanOf(prompt)) : PlanRow(r)
<1> DEFINE new == [key |-> PlanCacheKey(prompt), plan |-> PlanOf(prompt)]
<1>1. PlanRow(new)
  <2>1. PlanOf(prompt) \in Plans  BY PlanTyped
  <2> QED BY <2>1 DEF PlanRow, PlanCacheKey, PlanOf
<1>2. \A r \in PlansWith(prompt, PlanOf(prompt)) : r \in plans \/ r = new  BY DEF PlansWith
<1> HIDE DEF new
<1> QED BY <1>1, <1>2 DEF WorldOK

\* A step that ends with a plan.
LEMMA ReadySound ==
  ASSUME PlanInv, NEW j \in Jobs, job[j].state \in {"MAPPING_REPO", "PLANNING"},
         NEW plan \in Plans \cup {Stub}, NEW usage \in Usages, PlanReady(j, plan, usage),
         WorldOK', settings' = settings, asked' \in [Jobs -> Wants \cup {None}],
         attempts' \in [Jobs -> Seq(Attempts)],
         \A i \in Jobs \ {j} : asked'[i] = asked[i] /\ attempts'[i] = attempts[i],
         plan # Stub => Meets(plan, asked'[j]),
         Len(attempts'[j]) <= 2,
         usage.cost = IF attempts'[j] # <<>> /\ attempts'[j][Len(attempts'[j])].answered
                        THEN attempts'[j][Len(attempts'[j])].cost ELSE 0
  PROVE  PlanInv'
<1>0. WorldOK /\ TypeInv /\ Sound(j)  BY DEF PlanInv
<1>1. /\ job' \in [Jobs -> Rows] /\ run' \in [Jobs -> Runs]
      /\ \A i \in Jobs \ {j} : job'[i] = job[i] /\ run'[i] = run[i]
      /\ job'[j].state = "PLAN_READY" /\ job'[j].request = job[j].request
      /\ job'[j].repo_info = job[j].repo_info /\ job'[j].workspace = job[j].workspace
      /\ job'[j].plan = plan /\ job'[j].usage = usage
      /\ run'[j].at = "none" /\ run'[j].ticket = None
  BY <1>0, ReadyFields
<1>2. TypeInv' /\ Others(j)  BY <1>0, <1>1 DEF TypeInv, Others, SameJob
<1>3. plan # None /\ usage # None  BY MarksAreNoValues
<1>4. InPlace(j)'  BY <1>0, <1>1, <1>3 DEF Sound, InPlace, PlacesOf
<1>5. Asks(j)'  BY <1>1 DEF Asks
<1>6. Spent(j)'  BY <1>1, <1>3 DEF Spent, Unfinished, Cost
<1>7. Bounded(j)'  BY <1>1 DEF Bounded
<1>8. Matched(j)'  BY <1>0, <1>1 DEF Sound, Matched
<1>9. Reported(j)'  BY <1>0, <1>1 DEF Sound, Reported
<1>10. Sound(j)'  BY <1>4, <1>5, <1>6, <1>7, <1>8, <1>9 DEF Sound
<1> QED BY <1>2, <1>10, OneMoves

LEMMA StubSound ==
  ASSUME PlanInv, NEW j \in Jobs, PlanFromStub(j)
  PROVE  PlanInv'
<1>0. WorldOK /\ TypeInv /\ Sound(j) /\ job[j].state = "MAPPING_REPO"
  BY StateAt DEF PlanInv, PlanFromStub, At
<1>1. /\ PlanReady(j, Stub, Usage(0, FALSE))
      /\ UNCHANGED <<world, plans, digests, asked, attempts>>
  BY DEF PlanFromStub
<1>2. WorldOK' /\ settings' = settings  BY <1>0, <1>1, SameWorld
<1>3. Usage(0, FALSE) \in Usages /\ Usage(0, FALSE).cost = 0  BY DEF Usage, Usages
<1>4. attempts[j] = <<>>  BY <1>0 DEF Sound, Spent, Unfinished
<1>5. asked' \in [Jobs -> Wants \cup {None}] /\ attempts' \in [Jobs -> Seq(Attempts)]
  BY <1>0, <1>1 DEF TypeInv
<1>6. attempts'[j] = <<>>  BY <1>1, <1>4
<1>7. \A i \in Jobs \ {j} : asked'[i] = asked[i] /\ attempts'[i] = attempts[i]  BY <1>1
<1>8. /\ Len(attempts'[j]) <= 2
      /\ Usage(0, FALSE).cost =
           IF attempts'[j] # <<>> /\ attempts'[j][Len(attempts'[j])].answered
             THEN attempts'[j][Len(attempts'[j])].cost ELSE 0
  <2>1. Len(<<>>) = 0 /\ 0 <= 2  OBVIOUS
  <2>2. Len(attempts'[j]) <= 2  BY <1>6, <2>1
  <2> QED BY <1>3, <1>6, <2>2
<1>9. Stub \in Plans \cup {Stub} /\ job[j].state \in {"MAPPING_REPO", "PLANNING"}  BY <1>0
<1> QED BY <1>1, <1>2, <1>3, <1>5, <1>7, <1>8, <1>9, ReadySound

LEMMA GenerateSound ==
  ASSUME PlanInv, NEW j \in Jobs, GeneratePlan(j)
  PROVE  PlanInv'
<1>0. WorldOK /\ TypeInv /\ Sound(j) /\ job[j].state = "MAPPING_REPO" /\ run[j].at = "map"
  BY StateAt DEF PlanInv, GeneratePlan, At
<1> DEFINE tree == job[j].workspace.tree
           prompt == Prompt(run[j].ticket, tree, GetRepoDigest(tree))
           hit == IF settings.plan_cache THEN CachedPlans(prompt) ELSE {}
<1>1. tree \in Trees /\ run[j].ticket \in Texts
  BY <1>0 DEF Sound, InPlace, Workspaces
<1>2. /\ digests' = DigestsAfter(tree)
      /\ asked' = [asked EXCEPT ![j] = Wanted(prompt)]
      /\ UNCHANGED <<world, plans, attempts>>
  BY DEF GeneratePlan
<1>3. IF hit # {}
        THEN \E plan \in hit : PlanReady(j, plan, Usage(0, TRUE))
        ELSE /\ job' = [job EXCEPT ![j].state = "PLANNING"]
             /\ run' = [run EXCEPT ![j].at = "agent", ![j].prompt = prompt, ![j].ticket = None]
  BY DEF GeneratePlan
<1>4. GetRepoDigest(tree) \in Digests \cup {None} /\ \A d \in digests' : d.digest \in Digests
  BY <1>0, <1>1, <1>2, DigestTyped
<1>5. prompt \in Prompts /\ \A plan \in hit : plan \in Plans /\ Meets(plan, Wanted(prompt))
  BY <1>0, <1>1, <1>4, PromptTyped, HitIsWanted
<1> HIDE DEF tree, prompt, hit
<1>6. Wanted(prompt) \in Wants  BY <1>0, <1>5, PlanTyped
<1>7. WorldOK' /\ settings' = settings  BY <1>0, <1>2, <1>4 DEF WorldOK, world, PlanRow
<1>8. /\ asked' \in [Jobs -> Wants \cup {None}] /\ asked'[j] = Wanted(prompt)
      /\ \A i \in Jobs \ {j} : asked'[i] = asked[i]
  BY <1>0, <1>2, <1>6 DEF TypeInv
<1>9. attempts[j] = <<>>  BY <1>0 DEF Sound, Spent, Unfinished
<1>10. attempts' \in [Jobs -> Seq(Attempts)] /\ attempts' = attempts /\ attempts'[j] = <<>>
  BY <1>0, <1>2, <1>9 DEF TypeInv
<1>11. CASE hit # {}
  <2>1. PICK plan \in hit : PlanReady(j, plan, Usage(0, TRUE))  BY <1>3, <1>11
  <2>2. Usage(0, TRUE) \in Usages /\ Usage(0, TRUE).cost = 0  BY DEF Usage, Usages
  <2>3. /\ Len(attempts'[j]) <= 2
        /\ Usage(0, TRUE).cost =
             IF attempts'[j] # <<>> /\ attempts'[j][Len(attempts'[j])].answered
               THEN attempts'[j][Len(attempts'[j])].cost ELSE 0
    <3>1. Len(<<>>) = 0 /\ 0 <= 2  OBVIOUS
    <3>2. Len(attempts'[j]) <= 2  BY <1>10, <3>1
    <3> QED BY <1>10, <2>2, <3>2
  <2>4. /\ plan \in Plans \cup {Stub} /\ Meets(plan, asked'[j])
        /\ job[j].state \in {"MAPPING_REPO", "PLANNING"}
    BY <1>0, <1>5, <1>8
  <2>5. \A i \in Jobs \ {j} : asked'[i] = asked[i] /\ attempts'[i] = attempts[i]
    BY <1>8, <1>10
  <2> QED BY <1>7, <1>8, <1>10, <2>1, <2>2, <2>3, <2>4, <2>5, ReadySound
<1>12. CASE hit = {}
  <2>1. /\ job' \in [Jobs -> Rows]
        /\ \A i \in Jobs \ {j} : job'[i] = job[i]
        /\ job'[j].state = "PLANNING" /\ job'[j].request = job[j].request
        /\ job'[j].repo_info = job[j].repo_info /\ job'[j].workspace = job[j].workspace
        /\ job'[j].plan = job[j].plan /\ job'[j].usage = job[j].usage
    <3>1. job' = [job EXCEPT ![j].state = "PLANNING"]  BY <1>3, <1>12
    <3> QED BY <1>0, <3>1 DEF TypeInv, Rows, Unfinished
  <2>2. /\ run' \in [Jobs -> Runs]
        /\ \A i \in Jobs \ {j} : run'[i] = run[i]
        /\ run'[j].at = "agent" /\ run'[j].ticket = None /\ run'[j].prompt = prompt
    <3>1. run' = [run EXCEPT ![j].at = "agent", ![j].prompt = prompt, ![j].ticket = None]
      BY <1>3, <1>12
    <3> QED BY <1>0, <1>5, <3>1 DEF TypeInv, Runs
  <2>3. TypeInv' /\ Others(j)  BY <1>0, <1>8, <1>10, <2>1, <2>2 DEF TypeInv, Others, SameJob
  <2>4. InPlace(j)'  BY <1>0, <1>5, <2>1, <2>2 DEF Sound, InPlace, PlacesOf
  <2>5. Asks(j)'
    <3>2. job'[j].plan = None  BY <1>0, <2>1 DEF Sound, InPlace
    <3>3. asked'[j] = [prompt |-> run'[j].prompt, model |-> settings'.model,
                       effort |-> settings'.effort, shapes |-> settings'.accepts]
      BY <1>7, <1>8, <2>2 DEF Wanted
    <3> QED BY <3>2, <3>3 DEF Asks, Wanted
  <2>6. Spent(j)'  BY <1>0, <1>10, <2>1 DEF Sound, Spent, Unfinished
  <2>7. Bounded(j)'  BY <2>2 DEF Bounded
  <2>8. Matched(j)'  BY <1>0, <2>1, <2>2 DEF Sound, Matched
  <2>9. Reported(j)'  BY <1>0, <2>1 DEF Sound, Reported
  <2>10. Sound(j)'  BY <2>4, <2>5, <2>6, <2>7, <2>8, <2>9 DEF Sound
  <2> QED BY <1>7, <2>3, <2>10, OneMoves
<1> QED BY <1>11, <1>12

\* One more run of the planner.
LEMMA AttemptedFields ==
  ASSUME TypeInv, NEW j \in Jobs, NEW end, NEW cost \in Costs, Attempted(j, end, cost)
  PROVE  /\ attempts' \in [Jobs -> Seq(Attempts)]
         /\ \A i \in Jobs \ {j} : attempts'[i] = attempts[i]
         /\ Len(attempts'[j]) = Len(attempts[j]) + 1 /\ attempts'[j] # <<>>
         /\ attempts'[j][Len(attempts'[j])].cost = cost
         /\ attempts'[j][Len(attempts'[j])].answered = (end \notin Silent)
<1> DEFINE made == [cost |-> cost, answered |-> end \notin Silent]
<1>1. cost \in Nat /\ (end \notin Silent) \in BOOLEAN  BY PlanningAssumption
<1>2. made \in Attempts /\ made.cost = cost /\ made.answered = (end \notin Silent)
  BY <1>1 DEF Attempts
<1>3. attempts' = [attempts EXCEPT ![j] = Append(attempts[j], made)]  BY DEF Attempted
<1>4. attempts \in [Jobs -> Seq(Attempts)] /\ attempts[j] \in Seq(Attempts)  BY DEF TypeInv
<1> HIDE DEF made
<1>5. /\ Append(attempts[j], made) \in Seq(Attempts)
      /\ Len(Append(attempts[j], made)) = Len(attempts[j]) + 1
      /\ Append(attempts[j], made)[Len(attempts[j]) + 1] = made
      /\ Len(attempts[j]) \in Nat
  BY <1>2, <1>4
<1>6. attempts'[j] = Append(attempts[j], made)  BY <1>3, <1>4
<1>7. attempts' \in [Jobs -> Seq(Attempts)] /\ \A i \in Jobs \ {j} : attempts'[i] = attempts[i]
  BY <1>3, <1>4, <1>5
<1>8. attempts'[j] # <<>>  BY <1>5, <1>6
<1>9. attempts'[j][Len(attempts'[j])] = made  BY <1>5, <1>6
<1> QED BY <1>2, <1>5, <1>6, <1>7, <1>8, <1>9

LEMMA RetrySound ==
  ASSUME PlanInv, NEW j \in Jobs, PlanRetried(j)
  PROVE  PlanInv'
<1>0. WorldOK /\ TypeInv /\ Sound(j) /\ job[j].state = "PLANNING" /\ run[j].at = "agent"
  BY StateAt DEF PlanInv, PlanRetried, At
<1>1. PICK end \in Invalid, cost \in Costs : Attempted(j, end, cost)  BY DEF PlanRetried
<1>2. UNCHANGED <<world, job, run, plans, digests, asked>> /\ Len(attempts[j]) = 0
  BY DEF PlanRetried, FirstAttempt
<1>3. /\ attempts' \in [Jobs -> Seq(Attempts)]
      /\ \A i \in Jobs \ {j} : attempts'[i] = attempts[i]
      /\ Len(attempts'[j]) = 1
  <2>1. /\ attempts' \in [Jobs -> Seq(Attempts)]
        /\ \A i \in Jobs \ {j} : attempts'[i] = attempts[i]
        /\ Len(attempts'[j]) = Len(attempts[j]) + 1
    BY <1>0, <1>1, AttemptedFields
  <2> QED BY <1>2, <2>1
<1>4. WorldOK' /\ settings' = settings  BY <1>0, <1>2, SameWorld
<1>5. TypeInv' /\ Others(j)  BY <1>0, <1>2, <1>3 DEF TypeInv, Others, SameJob
<1>6. InPlace(j)'  BY <1>0, <1>2 DEF Sound, InPlace
<1>7. Asks(j)'  BY <1>0, <1>2, <1>4 DEF Sound, Asks, Wanted
<1>8. Spent(j)'  BY <1>0, <1>2, <1>3 DEF Sound, Spent, Unfinished
<1>9. Bounded(j)'  BY <1>0, <1>2 DEF Sound, Bounded
<1>10. Matched(j)'  BY <1>0, <1>2 DEF Sound, Matched
<1>11. Reported(j)'  BY <1>0, <1>2 DEF Sound, Reported
<1>12. Sound(j)'  BY <1>6, <1>7, <1>8, <1>9, <1>10, <1>11 DEF Sound
<1> QED BY <1>4, <1>5, <1>12, OneMoves

LEMMA AttemptFailsSound ==
  ASSUME PlanInv, NEW j \in Jobs, AttemptFails(j)
  PROVE  PlanInv'
<1>0. WorldOK /\ TypeInv /\ Sound(j) /\ job[j].state = "PLANNING" /\ run[j].at = "agent"
  BY StateAt DEF PlanInv, AttemptFails, At
<1>1. PICK end \in Silent \cup Invalid \cup Refused, cost \in Costs :
        Fail(j, FailureUsage(end, cost)) /\ Attempted(j, end, cost)
  BY DEF AttemptFails
<1> DEFINE usage == FailureUsage(end, cost)
<1>2. cost \in Nat  BY PlanningAssumption
<1>3. usage \in Usages \cup {None} /\ Cost(usage) = IF end \in Silent THEN 0 ELSE cost
  <2>1. CASE end \in Silent  BY <2>1 DEF FailureUsage, Cost
  <2>2. CASE end \notin Silent
    <3>1. usage = [cost |-> cost, cached |-> FALSE]  BY <2>2 DEF FailureUsage, Usage
    <3>2. usage \in Usages  BY <1>2, <3>1 DEF Usages
    <3>3. usage # None  BY <3>2, MarksAreNoValues
    <3> QED BY <2>2, <3>1, <3>2, <3>3 DEF Cost
  <2> QED BY <2>1, <2>2
<1>4. Fail(j, usage)  BY <1>1
<1> HIDE DEF usage
<1>5. /\ job' \in [Jobs -> Rows] /\ run' \in [Jobs -> Runs]
      /\ \A i \in Jobs \ {j} : job'[i] = job[i] /\ run'[i] = run[i]
      /\ job'[j].state = "FAILED" /\ job'[j].request = job[j].request
      /\ job'[j].repo_info = job[j].repo_info /\ job'[j].workspace = job[j].workspace
      /\ job'[j].plan = job[j].plan /\ job'[j].usage = usage
      /\ run'[j].at = "none" /\ run'[j].ticket = None
  BY <1>0, <1>3, <1>4, FailFields
<1>6. /\ attempts' \in [Jobs -> Seq(Attempts)]
      /\ \A i \in Jobs \ {j} : attempts'[i] = attempts[i]
      /\ Len(attempts'[j]) = Len(attempts[j]) + 1 /\ attempts'[j] # <<>>
      /\ attempts'[j][Len(attempts'[j])].cost = cost
      /\ attempts'[j][Len(attempts'[j])].answered = (end \notin Silent)
  BY <1>0, <1>1, AttemptedFields
<1>7. WorldOK' /\ settings' = settings /\ asked' = asked
  BY <1>0, SameWorld DEF AttemptFails
<1>8. TypeInv' /\ Others(j)  BY <1>0, <1>5, <1>6, <1>7 DEF TypeInv, Others, SameJob
<1>9. InPlace(j)'  BY <1>0, <1>5 DEF Sound, InPlace, PlacesOf
<1>10. Asks(j)'  BY <1>0, <1>5, <1>7 DEF Sound, Asks
<1>11. Spent(j)'
  <2>1. Len(attempts[j]) <= 1 /\ Len(attempts[j]) \in Nat  BY <1>0 DEF Sound, Spent, TypeInv
  <2>2. Len(attempts'[j]) <= 2  BY <1>6, <2>1
  <2>3. Cost(job'[j].usage) =
          IF attempts'[j] # <<>> /\ attempts'[j][Len(attempts'[j])].answered
            THEN attempts'[j][Len(attempts'[j])].cost ELSE 0
    BY <1>3, <1>5, <1>6
  <2> QED BY <1>5, <2>2, <2>3 DEF Spent, Unfinished
<1>12. Bounded(j)'  BY <1>5 DEF Bounded
<1>13. Matched(j)'  BY <1>0, <1>5 DEF Sound, Matched
<1>14. Reported(j)'  BY <1>0, <1>5 DEF Sound, Reported
<1>15. Sound(j)'  BY <1>9, <1>10, <1>11, <1>12, <1>13, <1>14 DEF Sound
<1> QED BY <1>7, <1>8, <1>15, OneMoves

LEMMA MadeSound ==
  ASSUME PlanInv, NEW j \in Jobs, PlanMade(j)
  PROVE  PlanInv'
<1>0. WorldOK /\ TypeInv /\ Sound(j) /\ job[j].state = "PLANNING" /\ run[j].at = "agent"
  BY StateAt DEF PlanInv, PlanMade, At
<1> DEFINE plan == PlanOf(run[j].prompt)
<1>1. PICK cost \in Costs : PlanReady(j, plan, Usage(cost, FALSE)) /\ Attempted(j, "plan", cost)
  BY DEF PlanMade
<1>2. plans' = PlansWith(run[j].prompt, plan) /\ UNCHANGED <<world, digests, asked>>
  BY DEF PlanMade
<1>3. run[j].prompt \in Prompts /\ Meets(plan, asked[j])
  BY <1>0, PlanTyped DEF Sound, InPlace, Asks
<1>4. plan \in Plans /\ \A r \in plans' : PlanRow(r)  BY <1>0, <1>2, <1>3, PlanTyped, PutKeepsRows
<1>5. WorldOK' /\ settings' = settings  BY <1>0, <1>2, <1>4 DEF WorldOK, world, PlanRow
<1>6. /\ attempts' \in [Jobs -> Seq(Attempts)]
      /\ \A i \in Jobs \ {j} : attempts'[i] = attempts[i]
      /\ Len(attempts'[j]) = Len(attempts[j]) + 1 /\ attempts'[j] # <<>>
      /\ attempts'[j][Len(attempts'[j])].cost = cost
      /\ attempts'[j][Len(attempts'[j])].answered
  <2>1. "plan" \notin Silent  BY DEF Silent
  <2> QED BY <1>0, <1>1, <2>1, AttemptedFields
<1>7. Usage(cost, FALSE) \in Usages /\ Usage(cost, FALSE).cost = cost
  BY PlanningAssumption DEF Usage, Usages
<1> HIDE DEF plan
<1>8. Len(attempts[j]) <= 1 /\ Len(attempts[j]) \in Nat  BY <1>0 DEF Sound, Spent, TypeInv
<1>9. /\ Len(attempts'[j]) <= 2
      /\ Usage(cost, FALSE).cost =
           IF attempts'[j] # <<>> /\ attempts'[j][Len(attempts'[j])].answered
             THEN attempts'[j][Len(attempts'[j])].cost ELSE 0
  <2>1. Len(attempts'[j]) <= 2  BY <1>6, <1>8
  <2> QED BY <1>6, <1>7, <2>1
<1>10. /\ asked' \in [Jobs -> Wants \cup {None}] /\ Meets(plan, asked'[j])
       /\ \A i \in Jobs \ {j} : asked'[i] = asked[i] /\ attempts'[i] = attempts[i]
  BY <1>0, <1>2, <1>3, <1>6 DEF TypeInv
<1>11. plan \in Plans \cup {Stub} /\ job[j].state \in {"MAPPING_REPO", "PLANNING"}
  BY <1>0, <1>4
<1> QED BY <1>1, <1>5, <1>6, <1>7, <1>9, <1>10, <1>11, ReadySound

(***************************************************************************)
(* What goes on around the jobs.                                           *)
(***************************************************************************)
LEMMA AroundSound ==
  ASSUME PlanInv, WorldOK', UNCHANGED <<settings, job, run, asked, attempts>>
  PROVE  PlanInv'
<1>1. TypeInv'  BY DEF PlanInv, TypeInv
<1>2. ASSUME NEW j \in Jobs PROVE Sound(j)'  BY SameIsSound DEF PlanInv, SameJob
<1> QED BY <1>1, <1>2 DEF PlanInv

LEMMA SurroundingsSound ==
  ASSUME PlanInv, IssueEdited \/ SourceCommitted \/ SourceEdited \/ SourceSwitched
  PROVE  PlanInv'
<1>0. WorldOK  BY DEF PlanInv
<1>1. changes' \in 0..MaxChanges
  <2>1. Changed  BY DEF IssueEdited, SourceCommitted, SourceEdited, SourceSwitched
  <2>2. changes \in 0..MaxChanges /\ MaxChanges \in Nat  BY <1>0, PlanningAssumption DEF WorldOK
  <2> QED BY <2>1, <2>2 DEF Changed
<1>2. UNCHANGED <<settings, job, run, plans, digests, asked, attempts>>
  BY DEF IssueEdited, SourceCommitted, SourceEdited, SourceSwitched
<1>3. issue' \in Contents
  BY <1>0 DEF WorldOK, IssueEdited, SourceCommitted, SourceEdited, SourceSwitched
<1>4. source' \in [heads : [Branches -> Trees], head : Branches, dirty : BOOLEAN]
  <2>1. source \in [heads : [Branches -> Trees], head : Branches, dirty : BOOLEAN]
    BY <1>0 DEF WorldOK
  <2>2. CASE SourceCommitted
    <3>1. PICK tree \in Trees :
            source' = [source EXCEPT !.heads[source.head] = tree, !.dirty = FALSE]
      BY <2>2 DEF SourceCommitted
    <3> QED BY <2>1, <3>1
  <2>3. CASE SourceEdited  BY <2>1, <2>3 DEF SourceEdited
  <2>4. CASE SourceSwitched
    <3>1. PICK branch \in Branches : source' = [source EXCEPT !.head = branch]
      BY <2>4 DEF SourceSwitched
    <3> QED BY <2>1, <3>1
  <2>5. CASE IssueEdited  BY <2>1, <2>5 DEF IssueEdited
  <2> QED BY <2>2, <2>3, <2>4, <2>5
<1>5. WorldOK'  BY <1>0, <1>1, <1>2, <1>3, <1>4 DEF WorldOK, PlanRow
<1> QED BY <1>2, <1>5, AroundSound

LEMMA RestartSound ==
  ASSUME PlanInv, Restart
  PROVE  PlanInv'
<1>0. WorldOK /\ TypeInv  BY DEF PlanInv
<1>1. PICK cost \in Costs :
        attempts' = [j \in Jobs |-> IF At(j, "agent")
                       THEN Append(attempts[j], [cost |-> cost, answered |-> FALSE])
                       ELSE attempts[j]]
  BY DEF Restart
<1> DEFINE cut == [cost |-> cost, answered |-> FALSE]
<1>2. cut \in Attempts /\ ~cut.answered  BY PlanningAssumption DEF Attempts
<1>3. \A j \in Jobs : attempts'[j] = IF run[j].at = "agent" THEN Append(attempts[j], cut) ELSE attempts[j]
  BY <1>1 DEF At
<1> HIDE DEF cut
<1>4. /\ settings' \in Settings /\ UNCHANGED <<issue, source, plans, digests, asked>>
      /\ changes' \in 0..MaxChanges
  BY <1>0, PlanningAssumption DEF Restart, Changed, WorldOK
<1>5. WorldOK'  BY <1>0, <1>4 DEF WorldOK, PlanRow
<1>6. /\ job' \in [Jobs -> Rows]
      /\ \A j \in Jobs :
           /\ job'[j].state = IF job[j].state \in Unfinished THEN "FAILED" ELSE job[j].state
           /\ job'[j].request = job[j].request /\ job'[j].repo_info = job[j].repo_info
           /\ job'[j].workspace = job[j].workspace /\ job'[j].plan = job[j].plan
           /\ job'[j].usage = job[j].usage
  <2>1. job' = [j \in Jobs |-> IF job[j].state \in Unfinished
                                 THEN [job[j] EXCEPT !.state = "FAILED"] ELSE job[j]]
    BY DEF Restart
  <2> QED BY <1>0, <2>1 DEF TypeInv, Rows
<1>7. run' \in [Jobs -> Runs] /\ \A j \in Jobs : run'[j].at = "none" /\ run'[j].ticket = None
  <2>1. run' = [j \in Jobs |-> NoRun] /\ NoRun.at = "none" /\ NoRun.ticket = None
    BY DEF Restart, NoRun
  <2> QED BY <2>1, NoRunTyped
<1>8. ASSUME NEW j \in Jobs
      PROVE  attempts[j] \in Seq(Attempts) /\ attempts'[j] \in Seq(Attempts)
  <2>1. attempts[j] \in Seq(Attempts)  BY <1>0 DEF TypeInv
  <2>2. Append(attempts[j], cut) \in Seq(Attempts)  BY <1>2, <2>1
  <2> QED BY <1>3, <2>1, <2>2
<1>9. TypeInv'
  <2>1. attempts' \in [Jobs -> Seq(Attempts)]  BY <1>1, <1>8
  <2> QED BY <1>0, <1>4, <1>6, <1>7, <2>1 DEF TypeInv
<1>10. ASSUME NEW j \in Jobs PROVE Sound(j)'
  <2>0. Sound(j)  BY DEF PlanInv
  <2>1. /\ job'[j].state = IF job[j].state \in Unfinished THEN "FAILED" ELSE job[j].state
        /\ job'[j].request = job[j].request /\ job'[j].repo_info = job[j].repo_info
        /\ job'[j].workspace = job[j].workspace /\ job'[j].plan = job[j].plan
        /\ job'[j].usage = job[j].usage
        /\ run'[j].at = "none" /\ run'[j].ticket = None /\ asked'[j] = asked[j]
    BY <1>4, <1>6, <1>7
  <2>2. job[j].state \in Unfinished \cup {"none", "PLAN_READY", "FAILED"}
    BY <1>0 DEF TypeInv, Rows
  <2>3. InPlace(j)'  BY <2>0, <2>1, <2>2 DEF Sound, InPlace, PlacesOf, Unfinished
  <2>4. Asks(j)'  BY <2>0, <2>1 DEF Sound, Asks
  <2>5. Spent(j)'
    <3>1. CASE run[j].at = "agent"
      <4>1. job[j].state = "PLANNING"  BY <3>1, StateAt
      <4>2. /\ attempts'[j] = Append(attempts[j], cut) /\ attempts[j] \in Seq(Attempts)
            /\ Len(attempts[j]) <= 1
        BY <1>3, <1>8, <2>0, <3>1, <4>1 DEF Sound, Spent
      <4>3. Len(attempts'[j]) <= 2 /\ attempts'[j][Len(attempts'[j])] = cut
        BY <1>2, <4>2
      <4>4. job'[j].usage = None /\ job'[j].state = "FAILED"
        BY <2>0, <2>1, <4>1 DEF Sound, Spent, Unfinished
      <4> QED BY <1>2, <4>3, <4>4 DEF Spent, Unfinished, Cost
    <3>2. CASE run[j].at # "agent"
      <4>1. attempts'[j] = attempts[j]  BY <1>3, <3>2
      <4>2. job[j].state # "PLANNING"  BY <2>0, <3>2 DEF Sound, InPlace, PlacesOf
      <4> QED BY <2>0, <2>1, <2>2, <4>1, <4>2 DEF Sound, Spent, Unfinished, Cost
    <3> QED BY <3>1, <3>2
  <2>6. Bounded(j)'  BY <2>1 DEF Bounded
  <2>7. job'[j].state # "none" => Matched(j)'
    <3>1. job'[j].state # "none" => job[j].state # "none"  BY <2>1 DEF Unfinished
    <3>2. Matched(j) => Matched(j)'  BY <2>1 DEF Matched
    <3> QED BY <2>0, <3>1, <3>2 DEF Sound
  <2>8. Reported(j)'  BY <2>0, <2>1 DEF Sound, Reported, Unfinished
  <2> QED BY <2>3, <2>4, <2>5, <2>6, <2>7, <2>8 DEF Sound
<1> QED BY <1>5, <1>9, <1>10 DEF PlanInv

LEMMA StepSound == PlanInv /\ [PlanningNext]_vars => PlanInv'
<1> SUFFICES ASSUME PlanInv, [PlanningNext]_vars PROVE PlanInv'  OBVIOUS
<1>1. CASE UNCHANGED vars
  <2>1. UNCHANGED <<issue, source, settings, changes, plans, digests>>
        /\ UNCHANGED <<job, run, asked, attempts>>
    BY <1>1 DEF vars
  <2>2. WorldOK'  BY <2>1 DEF PlanInv, WorldOK, PlanRow
  <2> QED BY <2>1, <2>2, AroundSound
<1>2. CASE PlanningNext
  <2>1. ASSUME NEW j \in Jobs, CreateJob(j) PROVE PlanInv'  BY <2>1, CreateSound
  <2>2. ASSUME NEW j \in Jobs, StartJob(j) PROVE PlanInv'  BY <2>2, StartSound
  <2>3. ASSUME NEW j \in Jobs, FetchFails(j) PROVE PlanInv'
    <3>1. job[j].state \in Unfinished \ {"PLANNING"}  BY <2>3, StateAt DEF FetchFails, At, Unfinished
    <3> QED BY <2>3, <3>1, EarlyFailure DEF FetchFails
  <2>4. ASSUME NEW j \in Jobs, InspectFails(j) PROVE PlanInv'
    <3>1. job[j].state \in Unfinished \ {"PLANNING"}  BY <2>4, StateAt DEF InspectFails, At, Unfinished
    <3> QED BY <2>4, <3>1, EarlyFailure DEF InspectFails
  <2>5. ASSUME NEW j \in Jobs, CloneFails(j) PROVE PlanInv'
    <3>1. job[j].state \in Unfinished \ {"PLANNING"}  BY <2>5, StateAt DEF CloneFails, At, Unfinished
    <3> QED BY <2>5, <3>1, EarlyFailure DEF CloneFails
  <2>6. ASSUME NEW j \in Jobs, MapFails(j) PROVE PlanInv'
    <3>1. job[j].state \in Unfinished \ {"PLANNING"}  BY <2>6, StateAt DEF MapFails, At, Unfinished
    <3> QED BY <2>6, <3>1, EarlyFailure DEF MapFails
  <2>7. ASSUME NEW j \in Jobs, PlanWithoutKey(j) PROVE PlanInv'
    <3>1. job[j].state \in Unfinished \ {"PLANNING"}
      BY <2>7, StateAt DEF PlanWithoutKey, At, Unfinished
    <3> QED BY <2>7, <3>1, EarlyFailure DEF PlanWithoutKey
  <2>8. ASSUME NEW j \in Jobs, FetchTicket(j) PROVE PlanInv'  BY <2>8, FetchSound
  <2>9. ASSUME NEW j \in Jobs, InspectSource(j) PROVE PlanInv'  BY <2>9, InspectSound
  <2>10. ASSUME NEW j \in Jobs, CloneRepo(j) PROVE PlanInv'  BY <2>10, CloneSound
  <2>11. ASSUME NEW j \in Jobs, PlanFromStub(j) PROVE PlanInv'  BY <2>11, StubSound
  <2>12. ASSUME NEW j \in Jobs, GeneratePlan(j) PROVE PlanInv'  BY <2>12, GenerateSound
  <2>13. ASSUME NEW j \in Jobs, PlanRetried(j) PROVE PlanInv'  BY <2>13, RetrySound
  <2>14. ASSUME NEW j \in Jobs, AttemptFails(j) PROVE PlanInv'  BY <2>14, AttemptFailsSound
  <2>15. ASSUME NEW j \in Jobs, PlanMade(j) PROVE PlanInv'  BY <2>15, MadeSound
  <2>16. CASE IssueEdited \/ SourceCommitted \/ SourceEdited \/ SourceSwitched
    BY <2>16, SurroundingsSound
  <2>17. CASE Restart  BY <2>17, RestartSound
  <2> QED
    BY <1>2, <2>1, <2>2, <2>3, <2>4, <2>5, <2>6, <2>7, <2>8, <2>9, <2>10, <2>11, <2>12, <2>13,
       <2>14, <2>15, <2>16, <2>17 DEF PlanningNext
<1> QED BY <1>1, <1>2

LEMMA PlanningSound == PlanningSpec => []PlanInv
BY InitSound, StepSound, PTL DEF PlanningSpec

(***************************************************************************)
(* The theorems.                                                           *)
(***************************************************************************)

\* Each coroutine waits where its row says, and a row has a plan exactly when
\* it is PLAN_READY, on every way through run_job and over every restart.
THEOREM PlanningTypes == PlanningSpec => []PlanningTypeOK
<1>1. PlanInv => PlanningTypeOK
  <2> SUFFICES ASSUME PlanInv PROVE PlanningTypeOK  OBVIOUS
  <2>1. ASSUME NEW j \in Jobs
        PROVE  run[j].at = CASE job[j].state = "QUEUED" -> "slot"
                       [] job[j].state = "FETCHING_TICKET" -> "ticket"
                       [] job[j].state = "CLONING_REPO" ->
                            IF run[j].at = "inspect" THEN "inspect" ELSE "clone"
                       [] job[j].state = "MAPPING_REPO" -> "map"
                       [] job[j].state = "PLANNING" -> "agent"
                       [] OTHER -> "none"
    <3>1. run[j].at \in PlacesOf(job[j].state)  BY DEF PlanInv, Sound, InPlace
    <3>2. CASE job[j].state = "QUEUED"  BY <3>1, <3>2 DEF PlacesOf
    <3>3. CASE job[j].state = "FETCHING_TICKET"  BY <3>1, <3>3 DEF PlacesOf
    <3>4. CASE job[j].state = "CLONING_REPO"  BY <3>1, <3>4 DEF PlacesOf
    <3>5. CASE job[j].state = "MAPPING_REPO"  BY <3>1, <3>5 DEF PlacesOf
    <3>6. CASE job[j].state = "PLANNING"  BY <3>1, <3>6 DEF PlacesOf
    <3>7. CASE job[j].state \notin Unfinished  BY <3>1, <3>7 DEF PlacesOf, Unfinished
    <3> QED BY <3>2, <3>3, <3>4, <3>5, <3>6, <3>7 DEF Unfinished
  <2>2. ASSUME NEW j \in Jobs
        PROVE  /\ job[j].state \in Unfinished \cup {"none", "PLAN_READY", "FAILED"}
               /\ job[j].state = "PLAN_READY" <=> job[j].plan # None
               /\ run[j].at \in {"inspect", "clone", "map"} => run[j].ticket \in Texts
               /\ run[j].at = "clone" /\ job[j].request.repo = "LOCAL" => run[j].inspected # None
               /\ job[j].state \in {"MAPPING_REPO", "PLANNING", "PLAN_READY"} =>
                    job[j].repo_info # None
               /\ Len(attempts[j]) <= 2
    <3>1. InPlace(j) /\ Len(attempts[j]) <= 2 /\ job[j] \in Rows
      BY DEF PlanInv, Sound, Spent, TypeInv
    <3>2. None \notin RepoInfos  BY MarksAreNoValues
    <3> QED BY <3>1, <3>2 DEF InPlace, Rows
  <2> QED BY <2>1, <2>2 DEF PlanInv, WorldOK, PlanningTypeOK
<1> QED BY <1>1, PlanningSound, PTL

\* The plan cache serves a job no plan but one made from its own prompt, model
\* and effort, and of a shape its release takes (plan_cache_key, PlanCache.get).
THEOREM PlansAreOwn == PlanningSpec => []PlanIsForItsInputs
<1>1. PlanInv => PlanIsForItsInputs  BY DEF PlanInv, Sound, Asks, PlanIsForItsInputs
<1> QED BY <1>1, PlanningSound, PTL

\* A row that is finished has the cost of its planner's last run, if that one
\* answered, and no cost at all if no run did; nothing is said of a first run
\* that answered before a second that did not (plan_agent.py, run_job).
THEOREM LastAnswersAreCharged == PlanningSpec => []LastAnswerIsCharged
<1>1. PlanInv => LastAnswerIsCharged
  <2> SUFFICES ASSUME PlanInv, NEW j \in Jobs, job[j].state \in {"PLAN_READY", "FAILED"}
               PROVE  LET made == attempts[j]
                      IN  /\ (made # <<>> /\ made[Len(made)].answered)
                               => Cost(job[j].usage) = made[Len(made)].cost
                          /\ (\A i \in DOMAIN made : ~made[i].answered)
                               => Cost(job[j].usage) = 0
    BY DEF LastAnswerIsCharged
  <2>1. Spent(j) /\ attempts[j] \in Seq(Attempts)  BY DEF PlanInv, Sound, TypeInv
  <2>2. attempts[j] # <<>> => Len(attempts[j]) \in DOMAIN attempts[j]  BY <2>1
  <2> QED BY <2>1, <2>2 DEF Spent
<1> QED BY <1>1, PlanningSound, PTL

\* However many attachments a ticket has and whatever their sizes, their text
\* stays within the limit, one heading and one mark (fetch_attachment_texts).
THEOREM AttachmentsFit == PlanningSpec => []AttachmentsBounded
<1>1. PlanInv => AttachmentsBounded
  BY DEF PlanInv, Sound, Bounded, AttachmentsBounded
<1> QED BY <1>1, PlanningSound, PTL

\* The branch a job reports is the one its workspace was cloned from, and was
\* matched with the ticket when it had to be (clone_repo, repo_clone.py).
THEOREM ReportedBranch == PlanningSpec => []ReportedBranchIsCloned
<1>1. PlanInv => ReportedBranchIsCloned
  <2> SUFFICES ASSUME PlanInv, NEW j \in Jobs, job[j].repo_info # None
               PROVE  /\ (job[j].request.repo # "LOCAL" \/ job[j].request.base_branch # None)
                           => job[j].repo_info.branch = job[j].workspace.branch
                      /\ (job[j].request.repo = "LOCAL" /\ \A s \in Settings : s.match)
                           => MatchesTicket(job[j].request, job[j].repo_info.branch)
    BY DEF ReportedBranchIsCloned
  <2>1. Reported(j) /\ Matched(j)  BY DEF PlanInv, Sound, Reported
  <2> QED BY <2>1 DEF Reported, Matched
<1> QED BY <1>1, PlanningSound, PTL
=============================================================================
