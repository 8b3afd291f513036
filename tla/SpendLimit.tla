----------------------------- MODULE SpendLimit -----------------------------
(***************************************************************************)
(* The spend limit of one job owner (backend/app/jobs/limits.py): no run   *)
(* starts while the costs on the owner's rows, each counted in the window  *)
(* by a time on the same row, reach the limit.  The routes ask when a run  *)
(* is requested, the runners once more when it gets its slot.              *)
(*                                                                         *)
(* The states a row passes between a run's start and its end are one here, *)
(* as is the cost of a run, known when it ends.                            *)
(***************************************************************************)
EXTENDS Integers, FiniteSets

CONSTANTS
  Jobs,       \* of one owner
  Limit,      \* user_daily_budget_usd
  Window,     \* SPEND_WINDOW
  Slots,      \* max_concurrent_agent_runs
  Costs,      \* what one run may cost
  MaxTime,    \* bound on the clock
  MaxStops,   \* bound on restarts
  None        \* no time, no usage

ASSUME SpendAssumption ==
  /\ Limit \in Nat \ {0} /\ Window \in Nat \ {0} /\ Slots \in Nat \ {0}
  /\ Costs \subseteq Nat \ {0} /\ \E most \in Costs : \A c \in Costs : c <= most
  /\ IsFiniteSet(Jobs) /\ MaxTime \in Nat /\ MaxStops \in Nat
  /\ None \notin Int

VARIABLES
  now,
  row,    \* the jobs' rows
  stops

vars == <<now, row, stops>>

Times == 0..MaxTime

NoRow ==
  [ state |-> "none", created_at |-> None, updated_at |-> None, usage |-> None,
    implementation_started_at |-> None, implementation_usage |-> None,
    correction_started_at |-> None, correction_usage |-> None,
    correction_attempted |-> FALSE ]

\* A job of a release without the two start times, its implementation done.
OldRow ==
  { [NoRow EXCEPT !.state = "IMPLEMENTATION_READY", !.created_at = 0, !.updated_at = 0,
                  !.implementation_usage = cost] : cost \in Costs }

-----------------------------------------------------------------------------
(* spend_status. *)

Or(time, other) == IF time = None THEN other ELSE time

\* spend_events: at most one event for each of a job's three runs.
Event(j, run, usage, at) == IF usage = None THEN {} ELSE {[job |-> j, run |-> run, cost |-> usage, at |-> at]}

SpendEvents(j) ==
  LET r == row[j]
  IN Event(j, "plan", r.usage, r.created_at)
       \cup Event(j, "implement", r.implementation_usage,
                  Or(r.implementation_started_at, r.updated_at))
       \cup Event(j, "correct", r.correction_usage, Or(r.correction_started_at, r.updated_at))

\* The sum of the costs, counted in the units they are made of.
Total(events) == Cardinality(UNION { {e} \X (1 .. e.cost) : e \in events })

\* Variant: the jobs that are asked about are those made in the window.
JobsCreatedSince(since) == { j \in Jobs : row[j].state # "none" /\ row[j].created_at >= since }

\* list_owner_jobs_updated_since.
JobsUpdatedSince(since) == { j \in Jobs : row[j].state # "none" /\ row[j].updated_at >= since }

WindowEvents(at) ==
  { e \in UNION { SpendEvents(j) : j \in JobsUpdatedSince(at - Window) } : e.at > at - Window }

Spent(at) == Total(WindowEvents(at))
Exceeded == Spent(now) >= Limit

\* Variant: the newest event ages out first.
Newest(events) == CHOOSE e \in events : \A f \in events : f.at <= e.at

Oldest(events) == CHOOSE e \in events : \A f \in events : e.at <= f.at

\* The loop over the sorted events: what is left when k of them have aged out.
Left(events) ==
  LET left[k \in 0 .. Cardinality(events)] ==
        IF k = 0 THEN events ELSE left[k - 1] \ {Oldest(left[k - 1])}
  IN left

\* When enough of the spend will have aged out; only asked when the limit is reached.
ResetsAt(at) ==
  LET left == Left(WindowEvents(at))
      enough == { k \in DOMAIN left : Total(left[k]) < Limit }
      turn == CHOOSE k \in enough : \A n \in enough : k <= n
  IN Oldest(left[turn - 1]).at + Window

-----------------------------------------------------------------------------
(* Requests.  One that finds the limit reached changes nothing. *)

SpendInit ==
  /\ now = 0 /\ stops = 0
  /\ \E old \in SUBSET Jobs :
       row \in { f \in [Jobs -> OldRow \cup {NoRow}] : \A j \in Jobs : f[j] # NoRow <=> j \in old }

\* JobStore.save stamps every row it writes.
Save(j, r) == row' = [row EXCEPT ![j] = [r EXCEPT !.updated_at = now]]

CreateJob(j) ==
  /\ row[j].state = "none"
  /\ ~Exceeded
  /\ Save(j, [row[j] EXCEPT !.state = "QUEUED", !.created_at = now])
  /\ UNCHANGED <<now, stops>>

ImplementJob(j) ==
  /\ row[j].state = "PLAN_READY"
  /\ ~Exceeded
  /\ Save(j, [row[j] EXCEPT !.state = "IMPLEMENTATION_QUEUED", !.implementation_usage = None,
                            !.implementation_started_at = None])
  /\ UNCHANGED <<now, stops>>

CorrectValidation(j) ==
  /\ row[j].state = "IMPLEMENTATION_READY"
  /\ ~row[j].correction_attempted
  /\ ~Exceeded
  /\ Save(j, [row[j] EXCEPT !.state = "CORRECTING", !.correction_started_at = None])
  /\ UNCHANGED <<now, stops>>

\* Any other save of a finished job: a branch, a push, a removed workspace.
SavedAgain(j) ==
  /\ row[j].state \in {"PLAN_READY", "IMPLEMENTATION_READY"}
  /\ Save(j, row[j])
  /\ UNCHANGED <<now, stops>>

-----------------------------------------------------------------------------
(* The runners. *)

Correcting(j) == row[j].state = "CORRECTING"
Waits(j) == \/ row[j].state \in {"QUEUED", "IMPLEMENTATION_QUEUED"}
            \/ Correcting(j) /\ row[j].correction_started_at = None
Runs(j) == \/ row[j].state \in {"PLANNING", "IMPLEMENTING"}
           \/ Correcting(j) /\ row[j].correction_started_at # None

\* Variant: one run too many.
HasSlotOrNextTo == Cardinality({ j \in Jobs : Runs(j) }) <= Slots

HasSlot == Cardinality({ j \in Jobs : Runs(j) }) < Slots

\* The row of a run that got its slot: the planner's has no start time of its own.
Started(r) ==
  CASE r.state = "QUEUED" -> [r EXCEPT !.state = "PLANNING"]
    [] r.state = "IMPLEMENTATION_QUEUED" ->
         [r EXCEPT !.state = "IMPLEMENTING", !.implementation_started_at = now]
    [] OTHER -> [r EXCEPT !.correction_started_at = now]

\* A refused correction keeps its attempt; a refused plan or implementation has failed.
Refused(r) ==
  CASE r.state = "QUEUED" -> [r EXCEPT !.state = "FAILED"]
    [] r.state = "IMPLEMENTATION_QUEUED" -> [r EXCEPT !.state = "IMPLEMENTATION_FAILED"]
    [] OTHER -> [r EXCEPT !.state = "IMPLEMENTATION_READY"]

\* Variant: the limit is not looked at again.
RunStartsUnchecked(j) ==
  /\ Waits(j) /\ HasSlot
  /\ Save(j, Started(row[j]))
  /\ UNCHANGED <<now, stops>>

RunStarts(j) ==
  /\ Waits(j) /\ HasSlot
  /\ ~Exceeded
  /\ Save(j, Started(row[j]))
  /\ UNCHANGED <<now, stops>>

RunRefused(j) ==
  /\ Waits(j) /\ HasSlot
  /\ Exceeded
  /\ Save(j, Refused(row[j]))
  /\ UNCHANGED <<now, stops>>

\* A run that failed may have a cost as well, or none that is known.
Ended(r, cost, well) ==
  CASE r.state = "PLANNING" ->
         [r EXCEPT !.state = IF well THEN "PLAN_READY" ELSE "FAILED", !.usage = cost]
    [] r.state = "IMPLEMENTING" ->
         [r EXCEPT !.state = IF well THEN "IMPLEMENTATION_READY" ELSE "IMPLEMENTATION_FAILED",
                   !.implementation_usage = cost]
    [] OTHER -> [r EXCEPT !.state = "IMPLEMENTATION_READY", !.correction_usage = cost,
                          !.correction_attempted = TRUE]

RunEnds(j) ==
  /\ Runs(j)
  /\ \E cost \in Costs \cup {None}, well \in BOOLEAN : Save(j, Ended(row[j], cost, well))
  /\ UNCHANGED <<now, stops>>

\* Recovery: what a run had cost is not known any more.
Interrupted(r) ==
  CASE r.state \in {"QUEUED", "PLANNING"} -> [r EXCEPT !.state = "FAILED"]
    [] r.state \in {"IMPLEMENTATION_QUEUED", "IMPLEMENTING"} ->
         [r EXCEPT !.state = "IMPLEMENTATION_FAILED"]
    [] OTHER -> [r EXCEPT !.state = "IMPLEMENTATION_READY",
                          !.correction_attempted = @ \/ r.correction_started_at # None]

Restart ==
  /\ stops < MaxStops
  /\ stops' = stops + 1
  /\ row' = [j \in Jobs |-> IF Waits(j) \/ Runs(j)
                              THEN [Interrupted(row[j]) EXCEPT !.updated_at = now] ELSE row[j]]
  /\ UNCHANGED now

Tick == now < MaxTime /\ now' = now + 1 /\ UNCHANGED <<row, stops>>

SpendNext ==
  \/ \E j \in Jobs :
       \/ CreateJob(j) \/ ImplementJob(j) \/ CorrectValidation(j) \/ SavedAgain(j)
       \/ RunStarts(j) \/ RunRefused(j) \/ RunEnds(j)
  \/ Restart \/ Tick

SpendSpec == SpendInit /\ [][SpendNext]_vars

-----------------------------------------------------------------------------
(* Properties. *)

\* Each cost has a time it is counted at; no time on a row is later than its
\* last save; and a correction that ended or is under way has used its start.
SpendTypeOK ==
  /\ now \in Times /\ stops \in 0..MaxStops
  /\ Cardinality({ j \in Jobs : Runs(j) }) <= Slots
  /\ \A j \in Jobs : row[j].state # "none" =>
       LET r == row[j] IN
       /\ r.created_at \in Times /\ r.updated_at \in r.created_at..now
       /\ \A t \in {r.implementation_started_at, r.correction_started_at} \ {None} :
            t \in r.created_at..r.updated_at
       /\ {r.usage, r.implementation_usage, r.correction_usage} \subseteq Costs \cup {None}
       /\ r.correction_attempted => r.correction_started_at # None

MaxCost == CHOOSE most \in Costs : \A c \in Costs : c <= most

\* The events stamped with a time of their run; an old row's costs move with its saves.
TimedEvents(at) == { e \in WindowEvents(at) :
  \/ e.run = "plan"
  \/ e.run = "implement" /\ row[e.job].implementation_started_at # None
  \/ e.run = "correct" /\ row[e.job].correction_started_at # None }

\* However many requests passed the routes while nothing was recorded, the
\* spend counted in a window stays below the limit and one run for each slot:
\* runs in progress have no cost yet, but each of them was refused or found
\* the spend below the limit when it got its slot (limits.py, runner.py:310).
SpendIsBounded == Total(TimedEvents(now)) < Limit + Slots * MaxCost

\* The query for the rows saved since the window began misses no cost: no row
\* has a cost in the window and an earlier last save (store.py:278-281).
QueryIsComplete ==
  Spent(now) = Total({ e \in UNION { SpendEvents(j) : j \in { i \in Jobs : row[i].state # "none" } } :
                       e.at > now - Window })

\* The time a refused user is told is the first at which, with nothing new on
\* record, a run would be accepted (spend_status's resets_at).
ResetsAtIsFirst ==
  Exceeded =>
    /\ Spent(ResetsAt(now)) < Limit
    /\ \A t \in now .. ResetsAt(now) - 1 : Spent(t) >= Limit

=============================================================================
