-------------------------- MODULE SpendLimit_proofs --------------------------
(***************************************************************************)
(* The spend limit holds for any number of jobs, slots, restarts and any   *)
(* window: the spend on record stays below the limit and one run for each  *)
(* slot, the query misses no cost, and a refused user is told the first    *)
(* time that helps.                                                        *)
(***************************************************************************)
EXTENDS SpendLimit, FiniteSetTheorems, TLAPS

LEMMA Constants ==
  /\ Limit \in Nat \ {0} /\ Window \in Nat \ {0} /\ Slots \in Nat \ {0}
  /\ Costs \subseteq Nat \ {0} /\ IsFiniteSet(Jobs) /\ MaxTime \in Nat /\ MaxStops \in Nat
  /\ None \notin Int
BY SpendAssumption

LEMMA MaxCostIsMost == MaxCost \in Costs /\ MaxCost \in Nat \ {0} /\ \A c \in Costs : c <= MaxCost
<1>1. PICK most \in Costs : \A c \in Costs : c <= most
  BY SpendAssumption
<1>2. MaxCost \in Costs /\ \A c \in Costs : c <= MaxCost
  BY <1>1 DEF MaxCost
<1> QED BY <1>2, Constants

-----------------------------------------------------------------------------
(* Sums of costs                                                           *)

Kinds == {"plan", "implement", "correct"}
Events == [job : Jobs, run : Kinds, cost : Costs, at : Nat]

\* A run has one event at most.
Separate(events) == \A e, f \in events : e.job = f.job /\ e.run = f.run => e = f

LEMMA SeparateIsFinite ==
  ASSUME NEW events \in SUBSET Events, Separate(events)
  PROVE  IsFiniteSet(events)
<1> DEFINE f == [e \in events |-> <<e.job, e.run>>]
<1>1. IsFiniteSet(Jobs \X Kinds)
  <2>1. IsFiniteSet(Kinds)
    <3>1. Kinds = ({"plan"} \cup {"implement"}) \cup {"correct"}
      BY DEF Kinds
    <3> QED BY <3>1, FS_Singleton, FS_Union
  <2> QED BY <2>1, Constants, FS_Product
<1>2. f \in [events -> Jobs \X Kinds]
  BY DEF Events
<1>3. \A a, b \in events : f[a] = f[b] => a = b
  BY DEF Separate
<1>4. f \in Injection(events, Jobs \X Kinds)
  <2> HIDE DEF f
  <2> QED BY <1>2, <1>3 DEF Injection, IsInjective
<1> HIDE DEF f
<1> QED BY <1>1, <1>4, FS_Injection

LEMMA Interval ==
  ASSUME NEW n \in Nat
  PROVE  IsFiniteSet(1 .. n) /\ Cardinality(1 .. n) = n
<1>1. 1 \in Int /\ n \in Int
  OBVIOUS
<1>2. IsFiniteSet(1 .. n) /\ Cardinality(1 .. n) = IF 1 > n THEN 0 ELSE n - 1 + 1
  BY ONLY <1>1, FS_Interval
<1> QED BY <1>2

Units(events) == UNION { {e} \X (1 .. e.cost) : e \in events }

LEMMA UnitsAreFinite ==
  ASSUME NEW events \in SUBSET Events, IsFiniteSet(events)
  PROVE  IsFiniteSet(Units(events))
<1>1. IsFiniteSet(events \X (1 .. MaxCost))
  <2>1. IsFiniteSet(1 .. MaxCost)
    BY MaxCostIsMost, Interval
  <2> QED BY <2>1, FS_Product
<1>2. ASSUME NEW u \in Units(events) PROVE u \in events \X (1 .. MaxCost)
  <2>1. PICK e \in events : u \in {e} \X (1 .. e.cost)
    BY DEF Units
  <2>2. e.cost \in Nat /\ e.cost <= MaxCost
    BY Constants, MaxCostIsMost DEF Events
  <2> QED BY <2>1, <2>2, MaxCostIsMost
<1> QED BY <1>1, <1>2, FS_Subset

LEMMA TotalType ==
  ASSUME NEW events \in SUBSET Events, IsFiniteSet(events)
  PROVE  Total(events) \in Nat
BY UnitsAreFinite, FS_CardinalityType DEF Total, Units

LEMMA TotalOfNone == Total({}) = 0
<1>1. Units({}) = {}
  BY DEF Units
<1> QED BY <1>1, FS_EmptySet DEF Total, Units

\* More events cost no less.
LEMMA TotalGrows ==
  ASSUME NEW more \in SUBSET Events, IsFiniteSet(more), NEW events \in SUBSET more
  PROVE  Total(events) <= Total(more)
<1>1. IsFiniteSet(Units(more))
  BY UnitsAreFinite
<1>2. Units(events) \subseteq Units(more)
  BY DEF Units
<1> QED BY <1>1, <1>2, FS_Subset DEF Total, Units

\* One more event costs what its run has cost, at most.
LEMMA TotalOfOneMore ==
  ASSUME NEW events \in SUBSET Events, IsFiniteSet(events), NEW e \in Events
  PROVE  /\ IsFiniteSet(events \cup {e})
         /\ Total(events \cup {e}) <= Total(events) + MaxCost
<1> DEFINE own == {e} \X (1 .. e.cost)
<1>1. IsFiniteSet(events \cup {e})
  BY FS_AddElement
<1>2. e.cost \in Nat /\ e.cost <= MaxCost /\ MaxCost \in Nat
  BY Constants, MaxCostIsMost DEF Events
<1>3. IsFiniteSet(own) /\ Cardinality(own) <= MaxCost
  <2>1. IsFiniteSet({e}) /\ Cardinality({e}) = 1
    BY FS_Singleton
  <2>2. IsFiniteSet(1 .. e.cost) /\ Cardinality(1 .. e.cost) <= MaxCost
    BY <1>2, Interval
  <2>3. Cardinality(1 .. e.cost) \in Nat
    BY <2>2, FS_CardinalityType
  <2>4. IsFiniteSet(own) /\ Cardinality(own) = 1 * Cardinality(1 .. e.cost)
    BY <2>1, <2>2, FS_Product
  <2> QED BY <2>2, <2>3, <2>4
<1>4. Units(events \cup {e}) = Units(events) \cup own
  BY DEF Units
<1>5. IsFiniteSet(Units(events))
  BY UnitsAreFinite
<1>6. Cardinality(Units(events) \cup own) <= Cardinality(Units(events)) + Cardinality(own)
  <2>1. IsFiniteSet(Units(events) \cap own)
    BY <1>5, FS_Intersection
  <2>2. /\ Cardinality(Units(events) \cap own) \in Nat /\ Cardinality(own) \in Nat
        /\ Cardinality(Units(events)) \in Nat
    BY <1>3, <1>5, <2>1, FS_CardinalityType
  <2>3. Cardinality(Units(events) \cup own)
          = Cardinality(Units(events)) + Cardinality(own) - Cardinality(Units(events) \cap own)
    BY <1>3, <1>5, FS_Union
  <2> QED BY <2>2, <2>3
<1>7. Total(events \cup {e}) = Cardinality(Units(events) \cup own) /\ Total(events) = Cardinality(Units(events))
  BY <1>4 DEF Total, Units
<1>8. Cardinality(own) \in Nat /\ Cardinality(Units(events)) \in Nat /\ Cardinality(Units(events) \cup own) \in Nat
  BY <1>3, <1>5, FS_CardinalityType, FS_Union
<1> HIDE DEF own
<1> QED BY <1>1, <1>2, <1>3, <1>6, <1>7, <1>8

-----------------------------------------------------------------------------
(* The rows                                                                *)

States ==
  {"none", "QUEUED", "PLANNING", "PLAN_READY", "FAILED", "IMPLEMENTATION_QUEUED", "IMPLEMENTING",
   "IMPLEMENTATION_READY", "IMPLEMENTATION_FAILED", "CORRECTING"}

Stamps == Times \cup {None}
Amounts == Costs \cup {None}

Row ==
  [ state : States, created_at : Stamps, updated_at : Stamps, usage : Amounts,
    implementation_started_at : Stamps, implementation_usage : Amounts,
    correction_started_at : Stamps, correction_usage : Amounts,
    correction_attempted : BOOLEAN ]

\* The times of a row at time t: none is later than its last save.
TimesFit(r, t) ==
  /\ r.created_at \in Times /\ r.updated_at \in r.created_at .. t
  /\ \A s \in {r.implementation_started_at, r.correction_started_at} \ {None} :
       s \in r.created_at .. r.updated_at

\* A run has no cost before it ends, and a correction's costs come with its only attempt.
CostsFit(r) ==
  /\ r.usage # None => r.state \notin {"QUEUED", "PLANNING"}
  /\ r.implementation_usage # None =>
       r.state \in {"IMPLEMENTATION_READY", "IMPLEMENTATION_FAILED", "CORRECTING"}
  /\ r.correction_usage # None => r.correction_attempted
  /\ r.correction_attempted => r.correction_started_at # None
  /\ r.state = "CORRECTING" => ~r.correction_attempted

RowFits(r, t) ==
  /\ r \in Row
  /\ IF r.state = "none" THEN r = NoRow ELSE TimesFit(r, t)
  /\ CostsFit(r)

RowsFit ==
  /\ now \in Times /\ stops \in 0 .. MaxStops
  /\ row \in [Jobs -> Row] /\ \A j \in Jobs : RowFits(row[j], now)

\* A row that holds a slot.
Active(r) ==
  \/ r.state \in {"PLANNING", "IMPLEMENTING"}
  \/ r.state = "CORRECTING" /\ r.correction_started_at # None

Running == { j \in Jobs : Runs(j) }

\* The events of a row that are stamped with a time of their run.
Stamped(j, r) ==
  Event(j, "plan", r.usage, r.created_at)
    \cup (IF r.implementation_started_at = None THEN {}
          ELSE Event(j, "implement", r.implementation_usage, r.implementation_started_at))
    \cup (IF r.correction_started_at = None THEN {}
          ELSE Event(j, "correct", r.correction_usage, r.correction_started_at))

Recent == { e \in UNION { Stamped(j, row[j]) : j \in Jobs } : e.at > now - Window }

\* A run in a slot may still cost as much as a run can: the spend it was started below has
\* room for that.
RoomInv ==
  Total(Recent) + Cardinality(Running) * MaxCost < Limit + Slots * MaxCost

SpendInv ==
  /\ RowsFit
  /\ Cardinality(Running) <= Slots
  /\ RoomInv

-----------------------------------------------------------------------------
(* Events on rows that fit                                                 *)

LEMMA RunsIsActive ==
  ASSUME NEW j \in Jobs
  PROVE  Runs(j) <=> Active(row[j])
BY DEF Runs, Correcting, Active

LEMMA RunningIsFinite == IsFiniteSet(Running) /\ Cardinality(Running) \in Nat
<1>1. Running \in SUBSET Jobs
  BY DEF Running
<1> QED BY <1>1, Constants, FS_Subset, FS_CardinalityType

\* What the events of one row look like, the stamped ones among them.
LEMMA RowEvents ==
  ASSUME NEW j \in Jobs, NEW t \in Times, RowFits(row[j], t)
  PROVE  /\ SpendEvents(j) \in SUBSET Events /\ Separate(SpendEvents(j))
         /\ \A e \in SpendEvents(j) : e.job = j /\ e.at <= row[j].updated_at
         /\ SpendEvents(j) # {} => row[j].state # "none" /\ row[j].updated_at \in Times
         /\ Stamped(j, row[j]) \subseteq SpendEvents(j)
<1> DEFINE r == row[j]
<1>0. r \in Row
  BY DEF RowFits
<1>1. CASE r.state = "none"
  <2>1. r.usage = None /\ r.implementation_usage = None /\ r.correction_usage = None
    BY <1>1 DEF RowFits, NoRow
  <2>2. SpendEvents(j) = {} /\ Stamped(j, r) = {}
    BY <2>1 DEF SpendEvents, Stamped, Event
  <2> QED BY <2>2 DEF Separate
<1>2. CASE r.state # "none"
  <2>1. /\ r.created_at \in Nat /\ r.updated_at \in Times /\ r.created_at <= r.updated_at
        /\ None \notin Int
    BY <1>2, Constants DEF RowFits, TimesFit, Times
  <2>2. \A s \in {r.implementation_started_at, r.correction_started_at} :
          LET at == Or(s, r.updated_at)
          IN  at \in Nat /\ at <= r.updated_at /\ (s # None => at = s)
    BY <1>2, <2>1 DEF RowFits, TimesFit, Or, Times
  <2>3. {r.usage, r.implementation_usage, r.correction_usage} \subseteq Costs \cup {None}
    BY <1>0 DEF Row, Amounts
  <2> DEFINE plan == Event(j, "plan", r.usage, r.created_at)
             implement == Event(j, "implement", r.implementation_usage,
                                Or(r.implementation_started_at, r.updated_at))
             correct == Event(j, "correct", r.correction_usage,
                              Or(r.correction_started_at, r.updated_at))
  <2>4. /\ \A e \in plan : e \in Events /\ e.job = j /\ e.run = "plan" /\ e.at <= r.updated_at
        /\ \A e, f \in plan : e = f
    BY <2>1, <2>3 DEF Event, Events, Kinds
  <2>5. /\ \A e \in implement : e \in Events /\ e.job = j /\ e.run = "implement" /\ e.at <= r.updated_at
        /\ \A e, f \in implement : e = f
    BY <2>2, <2>3 DEF Event, Events, Kinds
  <2>6. /\ \A e \in correct : e \in Events /\ e.job = j /\ e.run = "correct" /\ e.at <= r.updated_at
        /\ \A e, f \in correct : e = f
    BY <2>2, <2>3 DEF Event, Events, Kinds
  <2>7. SpendEvents(j) = plan \cup implement \cup correct
    BY DEF SpendEvents
  <2>8. Stamped(j, r) \subseteq plan \cup implement \cup correct
    BY <2>2 DEF Stamped
  <2> HIDE DEF plan, implement, correct
  <2>9. Separate(SpendEvents(j))
    BY <2>4, <2>5, <2>6, <2>7 DEF Separate
  <2> QED BY <1>2, <2>1, <2>4, <2>5, <2>6, <2>7, <2>8, <2>9
<1> QED BY <1>1, <1>2

\* All the costs on record.
Known == UNION { SpendEvents(j) : j \in Jobs }

LEMMA KnownEvents ==
  ASSUME RowsFit
  PROVE  /\ Known \in SUBSET Events /\ IsFiniteSet(Known)
         /\ \A e \in Known : /\ e.job \in Jobs /\ e \in SpendEvents(e.job)
                             /\ row[e.job].state # "none"
                             /\ row[e.job].updated_at \in Times /\ e.at <= row[e.job].updated_at
<1>1. ASSUME NEW e \in Known
      PROVE  /\ e \in Events /\ e.job \in Jobs /\ e \in SpendEvents(e.job)
             /\ row[e.job].state # "none"
             /\ row[e.job].updated_at \in Times /\ e.at <= row[e.job].updated_at
  <2>1. PICK j \in Jobs : e \in SpendEvents(j)
    BY DEF Known
  <2>2. RowFits(row[j], now) /\ now \in Times
    BY DEF RowsFit
  <2> QED BY <2>1, <2>2, RowEvents
<1>2. Separate(Known)
  <2> SUFFICES ASSUME NEW e \in Known, NEW f \in Known, e.job = f.job, e.run = f.run
               PROVE  e = f
    BY DEF Separate
  <2>1. e \in SpendEvents(e.job) /\ f \in SpendEvents(e.job) /\ e.job \in Jobs
    BY <1>1
  <2>2. Separate(SpendEvents(e.job))
    BY <2>1, RowEvents DEF RowsFit
  <2> QED BY <2>1, <2>2 DEF Separate
<1>3. Known \in SUBSET Events
  BY <1>1
<1> QED BY <1>1, <1>2, <1>3, SeparateIsFinite

\* What is counted in a window are the known events in it.
LEMMA WindowIsKnown ==
  ASSUME RowsFit, NEW at \in Int
  PROVE  WindowEvents(at) = { e \in Known : e.at > at - Window }
<1>1. ASSUME NEW e \in WindowEvents(at) PROVE e \in Known /\ e.at > at - Window
  BY DEF WindowEvents, JobsUpdatedSince, Known
<1>2. ASSUME NEW e \in Known, e.at > at - Window PROVE e \in WindowEvents(at)
  <2>1. /\ e.job \in Jobs /\ e \in SpendEvents(e.job) /\ row[e.job].state # "none"
        /\ row[e.job].updated_at \in Times /\ e.at <= row[e.job].updated_at /\ e \in Events
    BY KnownEvents
  <2>2. row[e.job].updated_at >= at - Window
    BY <1>2, <2>1, Constants DEF Times, Events
  <2> QED BY <1>2, <2>1, <2>2 DEF WindowEvents, JobsUpdatedSince
<1> QED BY <1>1, <1>2

LEMMA RecentIsFinite ==
  ASSUME RowsFit
  PROVE  /\ Recent \in SUBSET Known /\ Recent \in SUBSET Events /\ IsFiniteSet(Recent)
         /\ Recent \in SUBSET WindowEvents(now)
<1>1. Recent \in SUBSET Known
  <2> SUFFICES ASSUME NEW e \in Recent PROVE e \in Known
    OBVIOUS
  <2>1. PICK j \in Jobs : e \in Stamped(j, row[j])
    BY DEF Recent
  <2> QED BY <2>1, RowEvents DEF RowsFit, Known
<1>2. now \in Int
  BY DEF RowsFit, Times
<1>3. Recent \in SUBSET WindowEvents(now)
  BY <1>1, <1>2, WindowIsKnown DEF Recent
<1> QED BY <1>1, <1>3, KnownEvents, FS_Subset

-----------------------------------------------------------------------------
(* Steps that leave the room                                               *)

LEMMA Products ==
  ASSUME NEW a \in Nat, NEW b \in Nat, a <= b, NEW m \in Nat
  PROVE  a * m <= b * m
<1>1. b - a \in Nat /\ b = a + (b - a)
  OBVIOUS
<1>2. b * m = a * m + (b - a) * m
  BY <1>1
<1>3. (b - a) * m \in Nat /\ a * m \in Nat
  BY <1>1
<1> QED BY <1>2, <1>3

\* No new event that is stamped in the window, and no new run.
LEMMA RoomStays ==
  ASSUME SpendInv, RowsFit', Recent' \subseteq Recent, Running' \subseteq Running
  PROVE  SpendInv'
<1>1. Total(Recent') <= Total(Recent) /\ Total(Recent') \in Nat /\ Total(Recent) \in Nat
  <2>1. Recent \in SUBSET Events /\ IsFiniteSet(Recent) /\ Recent' \in SUBSET Recent
    BY RecentIsFinite DEF SpendInv
  <2>2. Recent' \in SUBSET Events /\ IsFiniteSet(Recent')
    BY <2>1, FS_Subset
  <2> QED BY <2>1, <2>2, TotalGrows, TotalType
<1>2. Cardinality(Running') <= Cardinality(Running) /\ Cardinality(Running') \in Nat
      /\ Cardinality(Running) \in Nat
  BY RunningIsFinite, FS_Subset, FS_CardinalityType
<1>3. /\ Cardinality(Running') * MaxCost <= Cardinality(Running) * MaxCost
      /\ Cardinality(Running') * MaxCost \in Nat /\ Cardinality(Running) * MaxCost \in Nat
      /\ Slots * MaxCost \in Nat /\ Limit \in Nat /\ Slots \in Nat
  BY <1>2, Products, MaxCostIsMost, Constants
<1>4. Cardinality(Running') <= Slots
  BY <1>2, Constants DEF SpendInv
<1>5. Total(Recent') + Cardinality(Running') * MaxCost < Limit + Slots * MaxCost
  BY <1>1, <1>3 DEF SpendInv, RoomInv
<1> QED BY <1>4, <1>5 DEF SpendInv, RoomInv

\* A saved row that fits.
LEMMA SavedRow ==
  ASSUME RowsFit, NEW j \in Jobs, NEW r, RowFits(r, now), row' = [row EXCEPT ![j] = r],
         UNCHANGED <<now, stops>>
  PROVE  /\ RowsFit'
         /\ row'[j] = r /\ \A i \in Jobs \ {j} : row'[i] = row[i]
         /\ \A i \in Jobs : Runs(i)' <=> IF i = j THEN Active(r) ELSE Runs(i)
<1>1. r \in Row
  BY DEF RowFits
<1>2. /\ row' \in [Jobs -> Row] /\ row'[j] = r
      /\ \A i \in Jobs \ {j} : row'[i] = row[i]
  BY <1>1 DEF RowsFit
<1>3. \A i \in Jobs : RowFits(row'[i], now)
  BY <1>2 DEF RowsFit
<1>4. RowsFit'
  BY <1>2, <1>3 DEF RowsFit, RowFits, TimesFit, CostsFit
<1>5. \A i \in Jobs : Runs(i)' <=> Active(row'[i])
  BY DEF Runs, Correcting, Active
<1> QED BY <1>2, <1>4, <1>5, RunsIsActive

\* A row that takes neither a slot nor a cost.
Settles(j, r, new) ==
  RowFits(new, now) /\ Stamped(j, new) \subseteq Stamped(j, r) /\ (Active(new) => Active(r))

LEMMA QuietSave ==
  ASSUME SpendInv, NEW j \in Jobs, NEW r, Settles(j, row[j], r), row' = [row EXCEPT ![j] = r],
         UNCHANGED <<now, stops>>
  PROVE  SpendInv'
<1>1. /\ RowsFit' /\ row'[j] = r /\ \A i \in Jobs \ {j} : row'[i] = row[i]
      /\ \A i \in Jobs : Runs(i)' <=> IF i = j THEN Active(r) ELSE Runs(i)
  BY SavedRow DEF SpendInv, Settles
<1>2. Running' \subseteq Running
  BY <1>1, RunsIsActive DEF Running, Settles
<1>3. Recent' \subseteq Recent
  <2>1. ASSUME NEW i \in Jobs PROVE Stamped(i, row'[i]) \subseteq Stamped(i, row[i])
    BY <1>1 DEF Settles
  <2> QED BY <2>1 DEF Recent
<1> QED BY <1>1, <1>2, <1>3, RoomStays

LEMMA TickKeeps ==
  ASSUME SpendInv, Tick
  PROVE  SpendInv'
<1>1. row' = row /\ now' = now + 1 /\ now \in Times /\ now' \in Times /\ now \in Int
  BY Constants DEF SpendInv, RowsFit, Tick, Times
<1>2. RowsFit'
  <2>1. ASSUME NEW j \in Jobs PROVE RowFits(row[j], now + 1)
    <3>1. RowFits(row[j], now)
      BY DEF SpendInv, RowsFit
    <3>2. ASSUME TimesFit(row[j], now) PROVE TimesFit(row[j], now + 1)
      <4>1. row[j].created_at .. now \subseteq row[j].created_at .. now + 1
        BY <1>1, <3>2, Constants DEF TimesFit, Times
      <4> QED BY <3>2, <4>1 DEF TimesFit
    <3> QED BY <3>1, <3>2 DEF RowFits
  <2>2. ASSUME NEW j \in Jobs PROVE RowFits(row'[j], now')
    BY <1>1, <2>1
  <2> QED BY <1>1, <2>2 DEF SpendInv, RowsFit, RowFits, TimesFit, CostsFit, Tick
<1>3. Running' \subseteq Running
  BY <1>1 DEF Running, Runs, Correcting
<1>4. Recent' \subseteq Recent
  <2> DEFINE stamped == UNION { Stamped(j, row[j]) : j \in Jobs }
  <2>1. Recent' = { e \in stamped : e.at > (now + 1) - Window }
    <3>1. Recent' = { e \in UNION { Stamped(j, row'[j]) : j \in Jobs } : e.at > now' - Window }
      BY DEF Recent
    <3> QED BY <1>1, <3>1
  <2>2. ASSUME NEW e \in stamped PROVE e.at \in Int
    <3>1. PICK j \in Jobs : e \in Stamped(j, row[j])
      BY <2>2
    <3>2. RowFits(row[j], now) /\ now \in Times
      BY DEF SpendInv, RowsFit
    <3> QED BY <3>1, <3>2, RowEvents DEF Events
  <2>3. ASSUME NEW e \in stamped, e.at > (now + 1) - Window PROVE e.at > now - Window
    BY <1>1, <2>2, <2>3, Constants
  <2> QED BY <2>1, <2>3 DEF Recent
<1> QED BY <1>2, <1>3, <1>4, RoomStays

-----------------------------------------------------------------------------
(* The actions                                                             *)

LEMMA RowOf ==
  ASSUME SpendInv, NEW j \in Jobs
  PROVE  /\ RowFits(row[j], now) /\ row[j] \in Row /\ CostsFit(row[j])
         /\ row[j].state # "none" => TimesFit(row[j], now)
         /\ now \in Times /\ now \in Int /\ None \notin Int /\ now # None
BY Constants DEF SpendInv, RowsFit, RowFits, Times

\* A save stamps the row, whatever else it writes.
LEMMA StampFits ==
  ASSUME NEW r \in Row, now \in Times, r.created_at \in 0 .. now,
         \A s \in {r.implementation_started_at, r.correction_started_at} \ {None} :
           s \in r.created_at .. now,
         r.state # "none", CostsFit(r)
  PROVE  RowFits([r EXCEPT !.updated_at = now], now)
<1> DEFINE new == [r EXCEPT !.updated_at = now]
<1>1. /\ new \in Row /\ new.state = r.state /\ new.created_at = r.created_at
      /\ new.updated_at = now /\ new.usage = r.usage
      /\ new.implementation_started_at = r.implementation_started_at
      /\ new.implementation_usage = r.implementation_usage
      /\ new.correction_started_at = r.correction_started_at
      /\ new.correction_usage = r.correction_usage
      /\ new.correction_attempted = r.correction_attempted
  BY DEF Row, Stamps
<1> HIDE DEF new
<1>2. CostsFit(new)
  BY <1>1 DEF CostsFit
<1>3. TimesFit(new, now)
  BY <1>1, Constants DEF TimesFit, Times
<1> QED BY <1>1, <1>2, <1>3 DEF RowFits, new

\* The times of a row that is there, seen from now.
LEMMA TimesNow ==
  ASSUME SpendInv, NEW j \in Jobs, row[j].state # "none"
  PROVE  /\ row[j].created_at \in 0 .. now
         /\ \A s \in {row[j].implementation_started_at, row[j].correction_started_at} \ {None} :
              s \in row[j].created_at .. now
BY RowOf, Constants DEF TimesFit, Times

LEMMA CreateJobKeeps ==
  ASSUME SpendInv, NEW j \in Jobs, CreateJob(j)
  PROVE  SpendInv'
<1> DEFINE r == [row[j] EXCEPT !.state = "QUEUED", !.created_at = now]
           new == [r EXCEPT !.updated_at = now]
<1>1. row[j] = NoRow /\ row[j] \in Row /\ now \in Times /\ None \notin Int
  BY RowOf, Constants DEF CreateJob, RowFits, Times
<1>2. /\ r \in Row /\ r.state = "QUEUED" /\ r.created_at = now
      /\ r.implementation_started_at = None /\ r.correction_started_at = None
      /\ r.usage = None /\ r.implementation_usage = None /\ r.correction_usage = None
      /\ ~r.correction_attempted
  <2>1. /\ row[j].implementation_started_at = None /\ row[j].correction_started_at = None
        /\ row[j].usage = None /\ row[j].implementation_usage = None
        /\ row[j].correction_usage = None /\ ~row[j].correction_attempted
    BY <1>1 DEF NoRow
  <2> QED BY <1>1, <2>1 DEF Row, States, Stamps
<1>3. row' = [row EXCEPT ![j] = new] /\ UNCHANGED <<now, stops>>
  BY DEF CreateJob, Save
<1>4. /\ new.state = r.state /\ new.usage = r.usage
      /\ new.implementation_usage = r.implementation_usage
      /\ new.correction_usage = r.correction_usage
  BY <1>2 DEF Row
<1> HIDE DEF r
<1>5. RowFits(new, now)
  <2>1. CostsFit(r)
    BY <1>2 DEF CostsFit
  <2>2. r.created_at \in 0 .. now
    BY <1>1, <1>2, Constants DEF Times
  <2> QED BY <1>1, <1>2, <2>1, <2>2, StampFits
<1> HIDE DEF new
<1>6. Settles(j, row[j], new)
  BY <1>2, <1>4, <1>5 DEF Settles, Stamped, Event, Active
<1> QED BY <1>3, <1>6, QuietSave

\* A save that leaves times and costs alone but for those it takes off.
LEMMA SameCosts ==
  ASSUME SpendInv, NEW j \in Jobs, row[j].state # "none", NEW r \in Row,
         r.state # "none", r.created_at = row[j].created_at, CostsFit(r),
         r.usage = row[j].usage,
         /\ r.implementation_usage \in {row[j].implementation_usage, None}
         /\ r.implementation_started_at \in {row[j].implementation_started_at, None},
         /\ r.correction_usage = row[j].correction_usage
         /\ r.correction_started_at \in {row[j].correction_started_at, None},
         Active(r) => Active(row[j])
  PROVE  Settles(j, row[j], [r EXCEPT !.updated_at = now])
<1> DEFINE new == [r EXCEPT !.updated_at = now]
<1>1. RowFits(new, now)
  <2>1. now \in Times
    BY RowOf
  <2> QED BY <2>1, TimesNow, StampFits
<1>2. /\ new.state = r.state /\ new.created_at = r.created_at
      /\ new.usage = r.usage
      /\ new.implementation_started_at = r.implementation_started_at
      /\ new.implementation_usage = r.implementation_usage
      /\ new.correction_started_at = r.correction_started_at
      /\ new.correction_usage = r.correction_usage
  BY DEF Row
<1> HIDE DEF new
<1>3. Stamped(j, new) \subseteq Stamped(j, row[j])
  BY <1>2 DEF Stamped, Event
<1>4. Active(new) => Active(row[j])
  BY <1>2 DEF Active
<1> QED BY <1>1, <1>3, <1>4 DEF Settles, new

LEMMA RequestKeeps ==
  ASSUME SpendInv, NEW j \in Jobs, ImplementJob(j) \/ CorrectValidation(j) \/ SavedAgain(j)
  PROVE  SpendInv'
<1>0. row[j] \in Row /\ CostsFit(row[j]) /\ UNCHANGED <<now, stops>>
  BY RowOf DEF ImplementJob, CorrectValidation, SavedAgain
<1>1. CASE ImplementJob(j)
  <2> DEFINE r == [row[j] EXCEPT !.state = "IMPLEMENTATION_QUEUED", !.implementation_usage = None,
                                 !.implementation_started_at = None]
  <2>1. /\ r \in Row /\ r.state = "IMPLEMENTATION_QUEUED" /\ r.created_at = row[j].created_at
        /\ r.usage = row[j].usage
        /\ r.implementation_usage = None /\ r.implementation_started_at = None
        /\ r.correction_usage = row[j].correction_usage
        /\ r.correction_started_at = row[j].correction_started_at
        /\ r.correction_attempted = row[j].correction_attempted
    BY <1>0 DEF Row, States, Stamps, Amounts
  <2>2. row[j].state = "PLAN_READY" /\ row' = [row EXCEPT ![j] = [r EXCEPT !.updated_at = now]]
    BY <1>1 DEF ImplementJob, Save
  <2> HIDE DEF r
  <2>3. CostsFit(r) /\ ~Active(r)
    BY <1>0, <2>1, <2>2 DEF CostsFit, Active
  <2>4. Settles(j, row[j], [r EXCEPT !.updated_at = now])
    BY <2>1, <2>2, <2>3, SameCosts
  <2> QED BY <1>0, <2>2, <2>4, QuietSave
<1>2. CASE CorrectValidation(j)
  <2> DEFINE r == [row[j] EXCEPT !.state = "CORRECTING", !.correction_started_at = None]
  <2>1. /\ r \in Row /\ r.state = "CORRECTING" /\ r.created_at = row[j].created_at
        /\ r.usage = row[j].usage
        /\ r.implementation_usage = row[j].implementation_usage
        /\ r.implementation_started_at = row[j].implementation_started_at
        /\ r.correction_usage = row[j].correction_usage /\ r.correction_started_at = None
        /\ r.correction_attempted = row[j].correction_attempted
    BY <1>0 DEF Row, States, Stamps
  <2>2. /\ row[j].state = "IMPLEMENTATION_READY" /\ ~row[j].correction_attempted
        /\ row' = [row EXCEPT ![j] = [r EXCEPT !.updated_at = now]]
    BY <1>2 DEF CorrectValidation, Save
  <2> HIDE DEF r
  <2>3. CostsFit(r) /\ ~Active(r)
    BY <1>0, <2>1, <2>2 DEF CostsFit, Active
  <2>4. Settles(j, row[j], [r EXCEPT !.updated_at = now])
    BY <2>1, <2>2, <2>3, SameCosts
  <2> QED BY <1>0, <2>2, <2>4, QuietSave
<1>3. CASE SavedAgain(j)
  <2>1. /\ row[j].state \in {"PLAN_READY", "IMPLEMENTATION_READY"}
        /\ row' = [row EXCEPT ![j] = [row[j] EXCEPT !.updated_at = now]]
    BY <1>3 DEF SavedAgain, Save
  <2>2. Settles(j, row[j], [row[j] EXCEPT !.updated_at = now])
    BY <1>0, <2>1, SameCosts
  <2> QED BY <1>0, <2>1, <2>2, QuietSave
<1> QED BY <1>1, <1>2, <1>3

LEMMA RefusedKeeps ==
  ASSUME SpendInv, NEW j \in Jobs, RunRefused(j)
  PROVE  SpendInv'
<1> DEFINE r == Refused(row[j])
<1>0. /\ row[j] \in Row /\ CostsFit(row[j]) /\ UNCHANGED <<now, stops>>
      /\ row' = [row EXCEPT ![j] = [r EXCEPT !.updated_at = now]]
      /\ \/ row[j].state \in {"QUEUED", "IMPLEMENTATION_QUEUED"}
         \/ row[j].state = "CORRECTING" /\ row[j].correction_started_at = None
  BY RowOf DEF RunRefused, Waits, Correcting, Save
<1>1. /\ r \in Row /\ r.state \in {"FAILED", "IMPLEMENTATION_FAILED", "IMPLEMENTATION_READY"}
      /\ row[j].state = "CORRECTING" => r.state = "IMPLEMENTATION_READY"
      /\ r.created_at = row[j].created_at /\ r.usage = row[j].usage
      /\ r.implementation_usage = row[j].implementation_usage
      /\ r.implementation_started_at = row[j].implementation_started_at
      /\ r.correction_usage = row[j].correction_usage
      /\ r.correction_started_at = row[j].correction_started_at
      /\ r.correction_attempted = row[j].correction_attempted
  BY <1>0 DEF Row, States, Refused
<1> HIDE DEF r
<1>2. CostsFit(r) /\ ~Active(r)
  BY <1>0, <1>1 DEF CostsFit, Active
<1>3. Settles(j, row[j], [r EXCEPT !.updated_at = now])
  BY <1>0, <1>1, <1>2, SameCosts
<1> QED BY <1>0, <1>3, QuietSave

\* Spend and slots are free for one run more when it starts.
LEMMA StartKeeps ==
  ASSUME SpendInv, NEW j \in Jobs, RunStarts(j)
  PROVE  SpendInv'
<1> DEFINE r == Started(row[j])
           new == [r EXCEPT !.updated_at = now]
<1>0. /\ row[j] \in Row /\ CostsFit(row[j]) /\ TimesFit(row[j], now)
      /\ row[j].state \in {"QUEUED", "IMPLEMENTATION_QUEUED", "CORRECTING"}
      /\ row[j].state = "CORRECTING" => row[j].correction_started_at = None
      /\ UNCHANGED <<now, stops>> /\ row' = [row EXCEPT ![j] = new]
  BY RowOf DEF RunStarts, Waits, Correcting, Save
<1>1. /\ r \in Row /\ r.state \in {"PLANNING", "IMPLEMENTING", "CORRECTING"}
      /\ row[j].state = "QUEUED" => r.state = "PLANNING"
      /\ row[j].state = "IMPLEMENTATION_QUEUED" => r.state = "IMPLEMENTING"
      /\ row[j].state = "CORRECTING" =>
           r.state = "CORRECTING" /\ r.correction_started_at = now
      /\ r.created_at = row[j].created_at /\ r.usage = row[j].usage
      /\ r.implementation_usage = row[j].implementation_usage
      /\ r.implementation_started_at =
           IF row[j].state = "IMPLEMENTATION_QUEUED" THEN now ELSE row[j].implementation_started_at
      /\ r.correction_usage = row[j].correction_usage
      /\ r.correction_started_at =
           IF row[j].state = "CORRECTING" THEN now ELSE row[j].correction_started_at
      /\ r.correction_attempted = row[j].correction_attempted
  <2>1. now \in Stamps
    BY RowOf DEF Stamps
  <2> QED BY <1>0, <2>1 DEF Row, States, Started
<1> HIDE DEF r
<1>2. CostsFit(r)
  BY <1>0, <1>1, RowOf DEF CostsFit
<1>3. RowFits(new, now)
  <2>1. /\ row[j].created_at \in 0 .. now
        /\ \A s \in {row[j].implementation_started_at, row[j].correction_started_at} \ {None} :
             s \in row[j].created_at .. now
    BY <1>0, TimesNow
  <2>2. now \in row[j].created_at .. now
    BY <2>1, RowOf, Constants DEF Times
  <2>3. /\ r.created_at \in 0 .. now
        /\ \A s \in {r.implementation_started_at, r.correction_started_at} \ {None} :
             s \in r.created_at .. now
    BY <1>1, <2>1, <2>2
  <2> QED BY <1>1, <1>2, <2>3, RowOf, StampFits
<1>4. /\ new.state = r.state /\ new.created_at = r.created_at /\ new.usage = r.usage
      /\ new.implementation_started_at = r.implementation_started_at
      /\ new.implementation_usage = r.implementation_usage
      /\ new.correction_started_at = r.correction_started_at
      /\ new.correction_usage = r.correction_usage
  BY <1>1 DEF Row
<1> HIDE DEF new
<1>5. /\ RowsFit' /\ row'[j] = new /\ \A i \in Jobs \ {j} : row'[i] = row[i]
      /\ \A i \in Jobs : Runs(i)' <=> IF i = j THEN Active(new) ELSE Runs(i)
  BY <1>0, <1>3, SavedRow DEF SpendInv
<1>6. Stamped(j, new) \subseteq Stamped(j, row[j])
  <2>1. /\ row[j].state = "IMPLEMENTATION_QUEUED" => row[j].implementation_usage = None
        /\ row[j].state = "CORRECTING" => row[j].correction_usage = None
    BY <1>0 DEF CostsFit
  <2> QED BY <1>1, <1>4, <2>1 DEF Stamped, Event
<1>7. Recent' \in SUBSET WindowEvents(now)
  <2>1. ASSUME NEW i \in Jobs PROVE Stamped(i, row'[i]) \subseteq Stamped(i, row[i])
    BY <1>5, <1>6
  <2>2. Recent' \subseteq Recent
    BY <1>0, <2>1 DEF Recent
  <2> QED BY <2>2, RecentIsFinite DEF SpendInv
<1>8. Total(Recent') < Limit /\ Total(Recent') \in Nat
  <2>1. now \in Int
    BY RowOf
  <2>2. WindowEvents(now) \in SUBSET Events /\ IsFiniteSet(WindowEvents(now))
    <3>1. WindowEvents(now) \in SUBSET Known
      BY <2>1, WindowIsKnown DEF SpendInv
    <3> QED BY <3>1, KnownEvents, FS_Subset DEF SpendInv
  <2>3. Total(WindowEvents(now)) < Limit
    <3>1. Total(WindowEvents(now)) \in Nat
      BY <2>2, TotalType
    <3>2. ~(Total(WindowEvents(now)) >= Limit)
      BY DEF RunStarts, Exceeded, Spent
    <3> QED BY <3>1, <3>2, Constants
  <2>4. Total(Recent') <= Total(WindowEvents(now)) /\ Total(WindowEvents(now)) \in Nat
    BY <1>7, <2>2, TotalGrows, TotalType
  <2>5. Recent' \in SUBSET Events /\ IsFiniteSet(Recent')
    BY <1>7, <2>2, FS_Subset
  <2>6. Total(Recent') \in Nat
    BY <2>5, TotalType
  <2> QED BY <2>3, <2>4, <2>6, Constants
<1>9. Cardinality(Running') <= Slots /\ Cardinality(Running') \in Nat
  <2>1. Running' \subseteq Running \cup {j}
    BY <1>5 DEF Running
  <2>2. Cardinality(Running) < Slots
    BY DEF RunStarts, HasSlot, Running
  <2>3. IsFiniteSet(Running \cup {j}) /\ Cardinality(Running \cup {j}) <= Cardinality(Running) + 1
    BY RunningIsFinite, FS_AddElement
  <2>4. Cardinality(Running') <= Cardinality(Running \cup {j}) /\ IsFiniteSet(Running')
        /\ Cardinality(Running \cup {j}) \in Nat
    BY <2>1, <2>3, FS_Subset, FS_CardinalityType
  <2>5. Cardinality(Running') \in Nat
    BY <2>4, FS_CardinalityType
  <2> QED BY <2>2, <2>3, <2>4, <2>5, RunningIsFinite, Constants
<1>10. /\ Cardinality(Running') * MaxCost <= Slots * MaxCost
       /\ Cardinality(Running') * MaxCost \in Nat /\ Slots * MaxCost \in Nat
       /\ Limit \in Nat
  BY <1>9, Products, MaxCostIsMost, Constants
<1>11. RoomInv'
  BY <1>8, <1>10 DEF RoomInv
<1> QED BY <1>5, <1>9, <1>11 DEF SpendInv

\* A run that ends gives its slot back for its cost.
LEMMA EndKeeps ==
  ASSUME SpendInv, NEW j \in Jobs, RunEnds(j)
  PROVE  SpendInv'
<1>0. PICK cost \in Costs \cup {None}, well \in BOOLEAN :
        row' = [row EXCEPT ![j] = [Ended(row[j], cost, well) EXCEPT !.updated_at = now]]
  BY DEF RunEnds, Save
<1> DEFINE r == Ended(row[j], cost, well)
           new == [r EXCEPT !.updated_at = now]
<1>1. /\ row[j] \in Row /\ CostsFit(row[j]) /\ TimesFit(row[j], now) /\ Active(row[j])
      /\ row[j].state \in {"PLANNING", "IMPLEMENTING", "CORRECTING"}
      /\ row[j].state = "CORRECTING" => row[j].correction_started_at # None
      /\ UNCHANGED <<now, stops>> /\ row' = [row EXCEPT ![j] = new]
  BY <1>0, RowOf DEF RunEnds, Runs, Correcting, Active
<1>2. /\ r \in Row /\ r.created_at = row[j].created_at
      /\ r.state \in {"PLAN_READY", "FAILED", "IMPLEMENTATION_READY", "IMPLEMENTATION_FAILED"}
      /\ row[j].state # "PLANNING" => r.state \in {"IMPLEMENTATION_READY", "IMPLEMENTATION_FAILED"}
      /\ r.implementation_started_at = row[j].implementation_started_at
      /\ r.correction_started_at = row[j].correction_started_at
      /\ r.usage = IF row[j].state = "PLANNING" THEN cost ELSE row[j].usage
      /\ r.implementation_usage =
           IF row[j].state = "IMPLEMENTING" THEN cost ELSE row[j].implementation_usage
      /\ r.correction_usage = IF row[j].state = "CORRECTING" THEN cost ELSE row[j].correction_usage
      /\ r.correction_attempted = (row[j].correction_attempted \/ row[j].state = "CORRECTING")
  <2>1. cost \in Amounts
    BY DEF Amounts
  <2>2. row[j].correction_attempted \in BOOLEAN
    BY <1>1 DEF Row
  <2>3. CASE row[j].state = "PLANNING"
    BY <1>1, <2>1, <2>2, <2>3 DEF Row, States, Ended
  <2>4. CASE row[j].state = "IMPLEMENTING"
    BY <1>1, <2>1, <2>2, <2>4 DEF Row, States, Ended
  <2>5. CASE row[j].state = "CORRECTING"
    BY <1>1, <2>1, <2>2, <2>5 DEF Row, States, Ended
  <2> QED BY <1>1, <2>3, <2>4, <2>5
<1> HIDE DEF r
<1>3. CostsFit(r)
  BY <1>1, <1>2 DEF CostsFit
<1>4. RowFits(new, now)
  <2>1. /\ r.created_at \in 0 .. now
        /\ \A s \in {r.implementation_started_at, r.correction_started_at} \ {None} :
             s \in r.created_at .. now
    BY <1>1, <1>2, TimesNow
  <2> QED BY <1>2, <1>3, <2>1, RowOf, StampFits
<1>5. /\ new.state = r.state /\ new.created_at = r.created_at /\ new.usage = r.usage
      /\ new.implementation_started_at = r.implementation_started_at
      /\ new.implementation_usage = r.implementation_usage
      /\ new.correction_started_at = r.correction_started_at
      /\ new.correction_usage = r.correction_usage
  BY <1>2 DEF Row
<1> HIDE DEF new
<1>6. /\ RowsFit' /\ row'[j] = new /\ \A i \in Jobs \ {j} : row'[i] = row[i]
      /\ \A i \in Jobs : Runs(i)' <=> IF i = j THEN Active(new) ELSE Runs(i)
  BY <1>1, <1>4, SavedRow DEF SpendInv
<1>7. Running' = Running \ {j} /\ j \in Running
  BY <1>1, <1>2, <1>5, <1>6, RunsIsActive DEF Running, Active
<1>8. \E e \in Events : Stamped(j, new) \subseteq Stamped(j, row[j]) \cup {e}
  <2> DEFINE at == IF row[j].state = "PLANNING" THEN r.created_at
                   ELSE IF row[j].state = "IMPLEMENTING" THEN r.implementation_started_at
                   ELSE r.correction_started_at
             run == IF row[j].state = "PLANNING" THEN "plan"
                    ELSE IF row[j].state = "IMPLEMENTING" THEN "implement" ELSE "correct"
             own == [job |-> j, run |-> run, cost |-> cost, at |-> at]
  <2>1. CASE Stamped(j, new) \subseteq Stamped(j, row[j])
    <3>1. MaxCost \in Costs /\ "plan" \in Kinds /\ 0 \in Nat
      BY MaxCostIsMost DEF Kinds
    <3>2. [job |-> j, run |-> "plan", cost |-> MaxCost, at |-> 0] \in Events
      BY <3>1 DEF Events
    <3> QED BY <2>1, <3>2
  <2>2. CASE cost = None
    <3>1. Stamped(j, new) \subseteq Stamped(j, row[j])
      BY <1>1, <1>2, <1>5, <2>2 DEF Stamped, Event
    <3> QED BY <2>1, <3>1
  <2>3. CASE cost # None /\ at = None
    <3>1. row[j].state = "IMPLEMENTING" /\ r.implementation_started_at = None
      BY <1>1, <1>2, <2>3, Constants DEF TimesFit, Times
    <3>2. Stamped(j, new) \subseteq Stamped(j, row[j])
      BY <1>2, <1>5, <3>1 DEF Stamped, Event
    <3> QED BY <2>1, <3>2
  <2>4. CASE cost # None /\ at # None
    <3>1. at \in Nat
      BY <1>2, <2>4, Constants DEF Row, Stamps, Times
    <3>2. own \in Events
      BY <2>4, <3>1 DEF Events, Kinds
    <3>3. Stamped(j, new) \subseteq Stamped(j, row[j]) \cup {own}
      <4>1. CASE row[j].state = "PLANNING"
        BY <1>2, <1>5, <4>1 DEF Stamped, Event
      <4>2. CASE row[j].state = "IMPLEMENTING"
        BY <1>2, <1>5, <2>4, <4>2 DEF Stamped, Event
      <4>3. CASE row[j].state = "CORRECTING"
        BY <1>2, <1>5, <2>4, <4>3 DEF Stamped, Event
      <4> QED BY <1>1, <4>1, <4>2, <4>3
    <3> QED BY <3>2, <3>3
  <2> QED BY <2>2, <2>3, <2>4
<1>9. PICK e \in Events : Stamped(j, new) \subseteq Stamped(j, row[j]) \cup {e}
  BY <1>8
<1>10. Recent' \subseteq Recent \cup {e}
  <2>1. ASSUME NEW i \in Jobs PROVE Stamped(i, row'[i]) \subseteq Stamped(i, row[i]) \cup {e}
    BY <1>6, <1>9
  <2> QED BY <1>1, <2>1 DEF Recent
<1>11. Total(Recent') <= Total(Recent) + MaxCost /\ Total(Recent') \in Nat /\ Total(Recent) \in Nat
  <2>1. Recent \in SUBSET Events /\ IsFiniteSet(Recent)
    BY RecentIsFinite DEF SpendInv
  <2>2. /\ IsFiniteSet(Recent \cup {e}) /\ Recent \cup {e} \in SUBSET Events
        /\ Total(Recent \cup {e}) <= Total(Recent) + MaxCost
    BY <2>1, TotalOfOneMore
  <2>3. Recent' \in SUBSET Events /\ IsFiniteSet(Recent')
    BY <1>10, <2>2, FS_Subset
  <2>4. Total(Recent') <= Total(Recent \cup {e})
    BY <1>10, <2>2, TotalGrows
  <2>5. Total(Recent') \in Nat /\ Total(Recent) \in Nat /\ Total(Recent \cup {e}) \in Nat
    BY <2>1, <2>2, <2>3, TotalType
  <2> QED BY <2>2, <2>4, <2>5, MaxCostIsMost
<1>12. Cardinality(Running') = Cardinality(Running) - 1 /\ Cardinality(Running) \in Nat
  BY <1>7, RunningIsFinite, FS_RemoveElement
<1>13. /\ (Cardinality(Running) - 1) * MaxCost + MaxCost = Cardinality(Running) * MaxCost
       /\ (Cardinality(Running) - 1) * MaxCost \in Int /\ Cardinality(Running) * MaxCost \in Int
       /\ Slots * MaxCost \in Int /\ Limit \in Int /\ MaxCost \in Int
  BY <1>12, MaxCostIsMost, Constants
<1>14. RoomInv'
  <2>1. Total(Recent') + (Cardinality(Running) - 1) * MaxCost < Limit + Slots * MaxCost
    BY <1>11, <1>13 DEF SpendInv, RoomInv
  <2> QED BY <1>12, <2>1 DEF RoomInv
<1>15. Cardinality(Running') <= Slots
  BY <1>12, Constants DEF SpendInv
<1> QED BY <1>6, <1>14, <1>15 DEF SpendInv

LEMMA RestartKeeps ==
  ASSUME SpendInv, Restart
  PROVE  SpendInv'
<1> DEFINE Left1(j) == [Interrupted(row[j]) EXCEPT !.updated_at = now]
<1>0. /\ UNCHANGED now /\ stops' \in 0 .. MaxStops
      /\ row' = [j \in Jobs |-> IF Waits(j) \/ Runs(j) THEN Left1(j) ELSE row[j]]
  BY Constants DEF Restart, SpendInv, RowsFit
<1>1. ASSUME NEW j \in Jobs, Waits(j) \/ Runs(j)
      PROVE  Settles(j, row[j], Left1(j)) /\ ~Active(Left1(j))
  <2> DEFINE r == Interrupted(row[j])
  <2>0. /\ row[j] \in Row /\ CostsFit(row[j]) /\ row[j].correction_attempted \in BOOLEAN
        /\ row[j].state \in {"QUEUED", "PLANNING", "IMPLEMENTATION_QUEUED", "IMPLEMENTING", "CORRECTING"}
    BY <1>1, RowOf DEF Waits, Runs, Correcting, Row
  <2>1. /\ r \in Row /\ r.state \in {"FAILED", "IMPLEMENTATION_FAILED", "IMPLEMENTATION_READY"}
        /\ row[j].state = "CORRECTING" => r.state = "IMPLEMENTATION_READY"
        /\ r.created_at = row[j].created_at /\ r.usage = row[j].usage
        /\ r.implementation_usage = row[j].implementation_usage
        /\ r.implementation_started_at = row[j].implementation_started_at
        /\ r.correction_usage = row[j].correction_usage
        /\ r.correction_started_at = row[j].correction_started_at
        /\ r.correction_attempted =
             IF row[j].state = "CORRECTING"
               THEN row[j].correction_attempted \/ row[j].correction_started_at # None
               ELSE row[j].correction_attempted
    BY <2>0 DEF Row, States, Interrupted
  <2> HIDE DEF r
  <2>2. CostsFit(r) /\ ~Active(r)
    BY <2>0, <2>1 DEF CostsFit, Active
  <2>3. Settles(j, row[j], [r EXCEPT !.updated_at = now])
    BY <2>0, <2>1, <2>2, SameCosts
  <2>4. ~Active([r EXCEPT !.updated_at = now])
    BY <2>1 DEF Active, Row
  <2> QED BY <2>3, <2>4 DEF r
<1> HIDE DEF Left1
<1>2. ASSUME NEW j \in Jobs PROVE Settles(j, row[j], row'[j])
  <2>1. CASE Waits(j) \/ Runs(j)
    BY <1>0, <1>1, <2>1
  <2>2. CASE ~(Waits(j) \/ Runs(j))
    <3>1. row'[j] = row[j]
      BY <1>0, <2>2
    <3> QED BY <3>1, RowOf DEF Settles
  <2> QED BY <2>1, <2>2
<1>3. RowsFit'
  <2>1. \A j \in Jobs : RowFits(row'[j], now) /\ row'[j] \in Row
    BY <1>2 DEF Settles, RowFits
  <2>2. row' \in [Jobs -> Row]
    BY <1>0, <2>1
  <2> QED BY <1>0, <2>1, <2>2 DEF RowsFit, SpendInv, RowFits, TimesFit, CostsFit
<1>4. Running' \subseteq Running
  <2>1. \A j \in Jobs : Runs(j)' <=> Active(row'[j])
    BY DEF Runs, Correcting, Active
  <2> QED BY <1>2, <2>1, RunsIsActive DEF Running, Settles
<1>5. Recent' \subseteq Recent
  BY <1>0, <1>2 DEF Recent, Settles
<1> QED BY <1>3, <1>4, <1>5, RoomStays

LEMMA SpendStep == SpendInv /\ [SpendNext]_vars => SpendInv'
<1> SUFFICES ASSUME SpendInv, [SpendNext]_vars PROVE SpendInv'
  OBVIOUS
<1>1. ASSUME NEW j \in Jobs,
             \/ CreateJob(j) \/ ImplementJob(j) \/ CorrectValidation(j) \/ SavedAgain(j)
             \/ RunStarts(j) \/ RunRefused(j) \/ RunEnds(j)
      PROVE  SpendInv'
  BY <1>1, CreateJobKeeps, RequestKeeps, StartKeeps, RefusedKeeps, EndKeeps
<1>2. CASE Restart \/ Tick
  BY <1>2, RestartKeeps, TickKeeps
<1>3. CASE UNCHANGED vars
  <2>1. UNCHANGED <<now, row, stops>>
    BY <1>3 DEF vars
  <2>2. RowsFit' /\ Running' \subseteq Running /\ Recent' \subseteq Recent
    BY <2>1 DEF SpendInv, RowsFit, RowFits, TimesFit, CostsFit, Running, Runs, Correcting, Recent
  <2> QED BY <2>2, RoomStays
<1> QED BY <1>1, <1>2, <1>3 DEF SpendNext

LEMMA SpendStart == SpendInit => SpendInv
<1> SUFFICES ASSUME SpendInit PROVE SpendInv
  OBVIOUS
<1>1. now = 0 /\ stops = 0 /\ row \in [Jobs -> OldRow \cup {NoRow}]
  BY DEF SpendInit
<1>2. 0 \in Times /\ None \notin Int /\ None \notin Times /\ None \notin Costs
  <2>1. 0 \in Times /\ None \notin Times
    BY Constants DEF Times
  <2>2. \A c \in Costs : c \in Int
    BY Constants
  <2> QED BY <2>1, <2>2, Constants
<1>3. ASSUME NEW j \in Jobs
      PROVE  RowFits(row[j], 0) /\ ~Active(row[j]) /\ Stamped(j, row[j]) = {}
  <2>1. CASE row[j] = NoRow
    <3>1. row[j] \in Row
      BY <2>1 DEF NoRow, Row, States, Stamps, Amounts
    <3> QED BY <2>1, <3>1 DEF NoRow, RowFits, CostsFit, Active, Stamped, Event
  <2>2. CASE row[j] \in OldRow
    <3>1. PICK cost \in Costs :
            row[j] = [NoRow EXCEPT !.state = "IMPLEMENTATION_READY", !.created_at = 0,
                                   !.updated_at = 0, !.implementation_usage = cost]
      BY <2>2 DEF OldRow
    <3>2. /\ row[j].state = "IMPLEMENTATION_READY" /\ row[j].created_at = 0
          /\ row[j].updated_at = 0 /\ row[j].usage = None /\ row[j].implementation_usage = cost
          /\ row[j].implementation_started_at = None /\ row[j].correction_started_at = None
          /\ row[j].correction_usage = None /\ row[j].correction_attempted = FALSE
      BY <3>1 DEF NoRow
    <3>3. row[j] \in Row
      BY <1>2, <3>1 DEF NoRow, Row, States, Stamps, Amounts
    <3>4. TimesFit(row[j], 0)
      BY <1>2, <3>2 DEF TimesFit
    <3> QED BY <3>2, <3>3, <3>4 DEF RowFits, CostsFit, Active, Stamped, Event
  <2> QED BY <1>1, <2>1, <2>2
<1>4. RowsFit
  <2>1. \A j \in Jobs : row[j] \in Row
    BY <1>3 DEF RowFits
  <2> QED BY <1>1, <1>2, <1>3, <2>1, Constants DEF RowsFit
<1>5. Running = {} /\ Recent = {}
  BY <1>3, RunsIsActive DEF Running, Recent
<1>6. Cardinality(Running) = 0 /\ Total(Recent) = 0
  BY <1>5, FS_EmptySet, TotalOfNone
<1>7. 0 * MaxCost = 0 /\ Slots * MaxCost \in Nat /\ Limit \in Nat \ {0} /\ Slots \in Nat
  BY MaxCostIsMost, Constants
<1>8. RoomInv
  <2>1. 0 + 0 * MaxCost < Limit + Slots * MaxCost
    BY <1>7
  <2> QED BY <1>6, <2>1 DEF RoomInv
<1> QED BY <1>4, <1>6, <1>7, <1>8 DEF SpendInv

LEMMA SpendInvariant == SpendSpec => []SpendInv
BY SpendStart, SpendStep, PTL DEF SpendSpec

-----------------------------------------------------------------------------
(* What the limit promises                                                 *)

\* Every cost on record has a time, no time on a row is later than its last save, a
\* correction that was attempted has its start, and no more runs than there are slots are
\* under way (AgentSlots, spend_events), through any restarts.
THEOREM SpendTypes == SpendSpec => []SpendTypeOK
<1>1. SpendInv => SpendTypeOK
  <2> SUFFICES ASSUME SpendInv PROVE SpendTypeOK
    OBVIOUS
  <2>1. ASSUME NEW j \in Jobs, row[j].state # "none"
        PROVE  LET r == row[j] IN
               /\ r.created_at \in Times /\ r.updated_at \in r.created_at .. now
               /\ \A t \in {r.implementation_started_at, r.correction_started_at} \ {None} :
                    t \in r.created_at .. r.updated_at
               /\ {r.usage, r.implementation_usage, r.correction_usage} \subseteq Costs \cup {None}
               /\ r.correction_attempted => r.correction_started_at # None
    <3>1. row[j] \in Row /\ TimesFit(row[j], now) /\ CostsFit(row[j])
      BY <2>1, RowOf
    <3> QED BY <3>1 DEF Row, Amounts, TimesFit, CostsFit
  <2>2. now \in Times /\ stops \in 0 .. MaxStops /\ Cardinality({ j \in Jobs : Runs(j) }) <= Slots
    BY DEF SpendInv, RowsFit, Running
  <2> QED BY <2>1, <2>2 DEF SpendTypeOK
<1> QED BY <1>1, SpendInvariant, PTL

\* The query for the rows saved since the window began finds every cost in the window
\* (list_owner_jobs_updated_since): a save always stamps a time no earlier than the times
\* its costs are counted at.
THEOREM QueryFindsAll == SpendSpec => []QueryIsComplete
<1>1. SpendInv => QueryIsComplete
  <2> SUFFICES ASSUME SpendInv PROVE QueryIsComplete
    OBVIOUS
  <2> DEFINE there == UNION { SpendEvents(j) : j \in { i \in Jobs : row[i].state # "none" } }
  <2>1. now \in Int /\ RowsFit
    BY DEF SpendInv, RowsFit, Times
  <2>2. there = Known
    <3>1. there \subseteq Known
      BY DEF Known
    <3>2. ASSUME NEW e \in Known PROVE e \in there
      BY <2>1, KnownEvents
    <3> QED BY <3>1, <3>2
  <2> HIDE DEF there
  <2>3. WindowEvents(now) = { e \in there : e.at > now - Window }
    BY <2>1, <2>2, WindowIsKnown
  <2> QED BY <2>3 DEF QueryIsComplete, Spent, there
<1> QED BY <1>1, SpendInvariant, PTL

\* However many requests passed the routes while nothing was on record, the spend counted in
\* a window is below the limit and one run for each slot: a run asks again when it has its
\* slot, and each slot has one run that was started below the limit.
THEOREM SpendBounded == SpendSpec => []SpendIsBounded
<1>1. SpendInv => SpendIsBounded
  <2> SUFFICES ASSUME SpendInv PROVE SpendIsBounded
    OBVIOUS
  <2>1. TimedEvents(now) \subseteq Recent
    <3> SUFFICES ASSUME NEW e \in TimedEvents(now) PROVE e \in Recent
      OBVIOUS
    <3>1. /\ e \in Known /\ e.at > now - Window
          /\ \/ e.run = "plan"
             \/ e.run = "implement" /\ row[e.job].implementation_started_at # None
             \/ e.run = "correct" /\ row[e.job].correction_started_at # None
      <4>1. e \in WindowEvents(now) /\ now \in Int /\ RowsFit
        BY DEF TimedEvents, SpendInv, RowsFit, Times
      <4> QED BY <4>1, WindowIsKnown DEF TimedEvents
    <3>2. e.job \in Jobs /\ e \in SpendEvents(e.job)
      BY <3>1, KnownEvents DEF SpendInv
    <3>3. e \in Stamped(e.job, row[e.job])
      BY <3>1, <3>2 DEF SpendEvents, Stamped, Event, Or
    <3> QED BY <3>1, <3>2, <3>3 DEF Recent
  <2>2. Recent \in SUBSET Events /\ IsFiniteSet(Recent)
    BY RecentIsFinite DEF SpendInv
  <2>3. Total(TimedEvents(now)) <= Total(Recent) /\ Total(TimedEvents(now)) \in Nat /\ Total(Recent) \in Nat
    <3>1. IsFiniteSet(TimedEvents(now)) /\ TimedEvents(now) \in SUBSET Events
      BY <2>1, <2>2, FS_Subset
    <3> QED BY <2>1, <2>2, <3>1, TotalGrows, TotalType
  <2>4. Cardinality(Running) * MaxCost \in Nat /\ Limit \in Nat /\ Slots * MaxCost \in Nat
    BY RunningIsFinite, MaxCostIsMost, Constants
  <2> QED BY <2>3, <2>4 DEF SpendInv, RoomInv, SpendIsBounded
<1> QED BY <1>1, SpendInvariant, PTL

-----------------------------------------------------------------------------
(* When the limit lets a run start again                                   *)

LEMMA Least ==
  ASSUME NEW T, T \subseteq Nat, T # {}
  PROVE  \E x \in T : \A y \in T : x <= y
<1> DEFINE R == OpToRel(<, Nat)
<1>1. IsWellFoundedOn(R, Nat)
  BY NatLessThanWellFounded
<1>2. R = { ss \in Nat \X Nat : ss[1] < ss[2] }
  BY DEF OpToRel
<1>3. \A x, y \in Nat : y < x => <<y, x>> \in R
  <2> HIDE DEF R
  <2> QED BY <1>2
<1> HIDE DEF R
<1>4. PICK x \in T : \A y \in T : ~ (<<y, x>> \in R)
  BY <1>1, WFMin
<1>5. \A y \in T : ~(y < x)
  BY <1>3, <1>4
<1> QED BY <1>4, <1>5

LEMMA Induct ==
  ASSUME NEW S, 0 \in S, \A n \in Nat : n \in S => n + 1 \in S
  PROVE  \A n \in Nat : n \in S
<1> SUFFICES ASSUME Nat \ S # {} PROVE FALSE
  OBVIOUS
<1>1. PICK x \in Nat \ S : \A y \in Nat \ S : x <= y
  BY Least
<1>2. x # 0 /\ x - 1 \in Nat
  BY <1>1
<1>3. x - 1 \in S
  BY <1>1, <1>2
<1> QED BY <1>1, <1>2, <1>3

LEMMA OldestIs ==
  ASSUME NEW events \in SUBSET Events, events # {}
  PROVE  Oldest(events) \in events /\ \A f \in events : Oldest(events).at <= f.at
<1>1. PICK least \in { e.at : e \in events } : \A at \in { e.at : e \in events } : least <= at
  <2>1. { e.at : e \in events } \subseteq Nat /\ { e.at : e \in events } # {}
    BY DEF Events
  <2> QED BY <2>1, Least
<1>2. PICK e \in events : e.at = least
  BY <1>1
<1>3. \A f \in events : e.at <= f.at
  BY <1>1, <1>2
<1> QED BY <1>3 DEF Oldest

\* left follows the loop for n turns.
Follows(left, events, n) ==
  left[0] = events /\ \A k \in 1 .. n : left[k] = left[k - 1] \ {Oldest(left[k - 1])}

LEMMA LoopExists ==
  ASSUME NEW events, NEW n \in Nat
  PROVE  \E left \in [0 .. n -> SUBSET events] : Follows(left, events, n)
<1> DEFINE Good == { k \in Nat : \E left \in [0 .. k -> SUBSET events] : Follows(left, events, k) }
<1>1. 0 \in Good
  <2>1. Follows([i \in 0 .. 0 |-> events], events, 0)
    BY DEF Follows
  <2> QED BY <2>1
<1>2. ASSUME NEW k \in Nat, k \in Good PROVE k + 1 \in Good
  <2>1. PICK left \in [0 .. k -> SUBSET events] : Follows(left, events, k)
    BY <1>2
  <2> DEFINE more == [i \in 0 .. k + 1 |-> IF i = k + 1 THEN left[k] \ {Oldest(left[k])} ELSE left[i]]
  <2>2. left[k] \in SUBSET events
    BY <2>1
  <2>3. more \in [0 .. k + 1 -> SUBSET events]
    <3>1. \A i \in 0 .. k + 1 : i # k + 1 => i \in 0 .. k
      OBVIOUS
    <3> QED BY <2>1, <2>2, <3>1
  <2>4. more[0] = events
    BY <2>1 DEF Follows
  <2>5. ASSUME NEW i \in 1 .. k + 1 PROVE more[i] = more[i - 1] \ {Oldest(more[i - 1])}
    <3>1. i - 1 \in 0 .. k /\ more[i - 1] = left[i - 1]
      OBVIOUS
    <3>2. CASE i = k + 1
      BY <3>1, <3>2
    <3>3. CASE i # k + 1
      <4>1. i \in 1 .. k /\ more[i] = left[i]
        BY <3>3
      <4> QED BY <2>1, <3>1, <4>1 DEF Follows
    <3> QED BY <3>2, <3>3
  <2> HIDE DEF more
  <2>6. Follows(more, events, k + 1)
    BY <2>4, <2>5 DEF Follows
  <2> QED BY <2>3, <2>6
<1> HIDE DEF Good
<1>3. n \in Good
  BY <1>1, <1>2, Induct
<1> QED BY <1>3 DEF Good

LEMMA LeftIs ==
  ASSUME NEW events, IsFiniteSet(events)
  PROVE  /\ DOMAIN Left(events) = 0 .. Cardinality(events)
         /\ Follows(Left(events), events, Cardinality(events))
<1> DEFINE n == Cardinality(events)
           Loop(f) == [k \in 0 .. n |-> IF k = 0 THEN events ELSE f[k - 1] \ {Oldest(f[k - 1])}]
           left == CHOOSE f : f = Loop(f)
<1>1. n \in Nat
  BY FS_CardinalityType
<1>2. PICK g \in [0 .. n -> SUBSET events] : Follows(g, events, n)
  BY <1>1, LoopExists
<1>3. g = Loop(g)
  <2>1. \A k \in 0 .. n : g[k] = IF k = 0 THEN events ELSE g[k - 1] \ {Oldest(g[k - 1])}
    BY <1>1, <1>2 DEF Follows
  <2> QED BY <2>1
<1>4. left = Loop(left)
  <2> HIDE DEF Loop
  <2> QED BY <1>3
<1>5. Left(events) = left
  BY DEF Left
<1> HIDE DEF left
<1>6. DOMAIN left = 0 .. n
  BY <1>4
<1>7. left[0] = events
  <2>1. Loop(left)[0] = events
    BY <1>1
  <2> HIDE DEF Loop
  <2> QED BY <1>4, <2>1
<1>8. ASSUME NEW k \in 1 .. n PROVE left[k] = left[k - 1] \ {Oldest(left[k - 1])}
  <2>1. Loop(left)[k] = left[k - 1] \ {Oldest(left[k - 1])}
    BY <1>1
  <2> HIDE DEF Loop
  <2> QED BY <1>4, <2>1
<1> QED BY <1>5, <1>6, <1>7, <1>8 DEF Follows

\* After k turns k events have aged out, and none of them is younger than one that is left.
AgedOut(left, events, k) ==
  /\ left[k] \in SUBSET events
  /\ Cardinality(left[k]) = Cardinality(events) - k
  /\ \A e \in events \ left[k], f \in left[k] : e.at <= f.at

LEMMA LoopInvariant ==
  ASSUME NEW events \in SUBSET Events, IsFiniteSet(events),
         NEW k \in 0 .. Cardinality(events)
  PROVE  AgedOut(Left(events), events, k)
<1> DEFINE n == Cardinality(events)
           left == Left(events)
           Good == { i \in Nat : i <= n => AgedOut(left, events, i) }
<1>1. n \in Nat /\ Follows(left, events, n)
  BY FS_CardinalityType, LeftIs
<1> HIDE DEF left
<1>2. 0 \in Good
  <2>1. left[0] = events
    BY <1>1 DEF Follows
  <2> QED BY <1>1, <2>1 DEF AgedOut
<1>3. ASSUME NEW i \in Nat, i \in Good PROVE i + 1 \in Good
  <2> SUFFICES ASSUME i + 1 <= n PROVE AgedOut(left, events, i + 1)
    OBVIOUS
  <2>1. AgedOut(left, events, i)
    BY <1>1, <1>3
  <2>2. left[i] \in SUBSET Events /\ IsFiniteSet(left[i])
    BY <2>1, FS_Subset DEF AgedOut
  <2>3. left[i] # {}
    <3>1. Cardinality(left[i]) # 0
      BY <1>1, <2>1 DEF AgedOut
    <3> QED BY <3>1, FS_EmptySet
  <2>4. Oldest(left[i]) \in left[i] /\ \A f \in left[i] : Oldest(left[i]).at <= f.at
    BY <2>2, <2>3, OldestIs
  <2>5. left[i + 1] = left[i] \ {Oldest(left[i])}
    <3>1. i + 1 \in 1 .. n /\ i = (i + 1) - 1
      BY <1>1
    <3> QED BY <1>1, <3>1 DEF Follows
  <2>6. Cardinality(left[i + 1]) = Cardinality(left[i]) - 1
    <3>1. Cardinality(left[i] \ {Oldest(left[i])}) = Cardinality(left[i]) - 1
      BY <2>2, <2>4, FS_RemoveElement
    <3> QED BY <2>5, <3>1
  <2>7. Cardinality(left[i + 1]) = n - (i + 1)
    BY <1>1, <2>1, <2>6 DEF AgedOut
  <2>8. \A e \in events \ left[i + 1], f \in left[i + 1] : e.at <= f.at
    BY <2>1, <2>4, <2>5 DEF AgedOut
  <2> QED BY <2>1, <2>5, <2>7, <2>8 DEF AgedOut
<1> HIDE DEF Good
<1>4. k \in Good
  <2>1. k \in Nat
    BY <1>1
  <2> QED BY <1>2, <1>3, <2>1, Induct
<1> QED BY <1>1, <1>4 DEF Good, left

\* The time a refused user is told (resets_at) is the first at which a run would be accepted
\* with nothing new on record: the loop over the sorted events stops at the first turn that
\* brings the spend below the limit, and what is left then is what a later query finds.
THEOREM ResetIsFirst == SpendSpec => []ResetsAtIsFirst
<1>1. SpendInv => ResetsAtIsFirst
  <2> SUFFICES ASSUME SpendInv, Exceeded
               PROVE  /\ Spent(ResetsAt(now)) < Limit
                      /\ \A t \in now .. ResetsAt(now) - 1 : Spent(t) >= Limit
    BY DEF ResetsAtIsFirst
  <2> DEFINE events == WindowEvents(now)
             n == Cardinality(events)
             left == Left(events)
             enough == { k \in DOMAIN left : Total(left[k]) < Limit }
             turn == CHOOSE k \in enough : \A i \in enough : k <= i
             last == Oldest(left[turn - 1])
  <2>1. now \in Int /\ RowsFit /\ Window \in Nat \ {0} /\ Limit \in Nat \ {0}
    BY Constants DEF SpendInv, RowsFit, Times
  <2>2. Known \in SUBSET Events /\ IsFiniteSet(Known)
    BY <2>1, KnownEvents
  <2>3. /\ events = { e \in Known : e.at > now - Window } /\ events \in SUBSET Known
        /\ events \in SUBSET Events /\ IsFiniteSet(events) /\ n \in Nat
    <3>1. events = { e \in Known : e.at > now - Window }
      BY <2>1, WindowIsKnown
    <3>2. events \in SUBSET Known /\ IsFiniteSet(events)
      BY <2>2, <3>1, FS_Subset
    <3> QED BY <2>2, <3>1, <3>2, FS_CardinalityType
  <2>4. Total(events) >= Limit
    BY DEF Exceeded, Spent
  <2> HIDE DEF events
  <2>5. /\ DOMAIN left = 0 .. n /\ Follows(left, events, n)
        /\ \A k \in 0 .. n : AgedOut(left, events, k)
    BY <2>3, LeftIs, LoopInvariant
  <2>6. ResetsAt(now) = last.at + Window
    BY DEF ResetsAt, events
  <2> HIDE DEF left, n
  <2>7. ASSUME NEW k \in 0 .. n
        PROVE  left[k] \in SUBSET Events /\ IsFiniteSet(left[k]) /\ Total(left[k]) \in Nat
    <3>1. left[k] \in SUBSET events
      BY <2>5 DEF AgedOut
    <3>2. left[k] \in SUBSET Events /\ IsFiniteSet(left[k])
      BY <2>3, <3>1, FS_Subset
    <3> QED BY <3>2, TotalType
  <2>8. turn \in enough /\ \A i \in enough : turn <= i
    <3>1. n \in enough
      <4>1. Cardinality(left[n]) = 0
        BY <2>3, <2>5 DEF AgedOut, n
      <4>2. left[n] = {}
        BY <2>3, <2>7, <4>1, FS_EmptySet
      <4>3. Total(left[n]) < Limit
        BY <2>1, <4>2, TotalOfNone
      <4>4. n \in DOMAIN left
        BY <2>3, <2>5
      <4> QED BY <4>3, <4>4
    <3>2. enough \subseteq Nat
      BY <2>3, <2>5
    <3> HIDE DEF enough
    <3>3. \E k \in enough : \A i \in enough : k <= i
      BY <3>1, <3>2, Least
    <3> QED BY <3>3
  <2> HIDE DEF turn
  <2>9. turn \in 1 .. n
    <3>1. turn \in 0 .. n /\ Total(left[turn]) < Limit
      BY <2>5, <2>8
    <3>2. turn # 0
      <4>1. left[0] = events
        BY <2>5 DEF Follows
      <4>2. Total(events) \in Nat
        BY <2>3, TotalType
      <4> QED BY <2>1, <2>4, <3>1, <4>1, <4>2
    <3> QED BY <2>3, <3>1, <3>2
  <2>10. /\ turn - 1 \in 0 .. n /\ turn \in 0 .. n
         /\ left[turn] = left[turn - 1] \ {last}
         /\ Total(left[turn]) < Limit /\ ~(Total(left[turn - 1]) < Limit)
    <3>1. turn - 1 \in 0 .. n /\ turn \in 0 .. n /\ ~(turn <= turn - 1)
      BY <2>3, <2>9
    <3> QED BY <2>5, <2>8, <2>9, <3>1 DEF Follows
  <2>11. last \in left[turn - 1] /\ \A f \in left[turn - 1] : last.at <= f.at
    <3>1. left[turn - 1] # {}
      BY <2>1, <2>10, TotalOfNone
    <3> QED BY <2>7, <2>10, <3>1, OldestIs
  <2>12. /\ last \in events /\ last.at \in Nat
         /\ \A e \in events \ left[turn] : e.at <= last.at
    <3>1. last \in events
      BY <2>5, <2>10, <2>11 DEF AgedOut
    <3>2. last.at \in Nat
      BY <2>3, <3>1 DEF Events
    <3>3. ASSUME NEW e \in events \ left[turn] PROVE e.at <= last.at
      <4>1. CASE e = last
        BY <3>2, <4>1
      <4>2. CASE e # last
        BY <2>5, <2>10, <2>11, <4>2 DEF AgedOut
      <4> QED BY <4>1, <4>2
    <3> QED BY <3>1, <3>2, <3>3
  <2> HIDE DEF last, enough
  <2>13. Spent(last.at + Window) < Limit
    <3>1. WindowEvents(last.at + Window) = { e \in Known : e.at > (last.at + Window) - Window }
      BY <2>1, <2>12, WindowIsKnown
    <3>2. WindowEvents(last.at + Window) \subseteq left[turn]
      <4> SUFFICES ASSUME NEW e \in Known, e.at > (last.at + Window) - Window PROVE e \in left[turn]
        BY <3>1
      <4>1. e.at \in Nat /\ e.at > last.at
        BY <2>1, <2>2, <2>12 DEF Events
      <4>2. last.at > now - Window
        BY <2>3, <2>12
      <4>3. e \in events
        BY <2>1, <2>3, <2>12, <4>1, <4>2
      <4> QED BY <2>12, <4>1, <4>3
    <3>3. Total(WindowEvents(last.at + Window)) <= Total(left[turn])
      BY <2>7, <2>10, <3>2, TotalGrows
    <3>4. Total(WindowEvents(last.at + Window)) \in Nat
      <4>1. WindowEvents(last.at + Window) \in SUBSET Events /\ IsFiniteSet(WindowEvents(last.at + Window))
        BY <2>7, <2>10, <3>2, FS_Subset
      <4> QED BY <4>1, TotalType
    <3>5. Total(left[turn]) \in Nat /\ Total(left[turn]) < Limit
      BY <2>7, <2>10
    <3> QED BY <2>1, <3>3, <3>4, <3>5 DEF Spent
  <2>14. ASSUME NEW t \in now .. (last.at + Window) - 1 PROVE Spent(t) >= Limit
    <3>1. t \in Int /\ t - Window < last.at
      BY <2>1, <2>12
    <3>2. WindowEvents(t) = { e \in Known : e.at > t - Window }
      BY <2>1, <3>1, WindowIsKnown
    <3>3. left[turn - 1] \subseteq WindowEvents(t)
      <4> SUFFICES ASSUME NEW e \in left[turn - 1] PROVE e \in Known /\ e.at > t - Window
        BY <3>2
      <4>1. e \in Known
        BY <2>3, <2>5, <2>10 DEF AgedOut
      <4>2. last.at <= e.at /\ e.at \in Nat
        BY <2>2, <2>11, <4>1 DEF Events
      <4> QED BY <2>1, <2>12, <3>1, <4>1, <4>2
    <3>4. WindowEvents(t) \in SUBSET Events /\ IsFiniteSet(WindowEvents(t))
      BY <2>2, <3>2, FS_Subset
    <3>5. Total(left[turn - 1]) <= Total(WindowEvents(t)) /\ Total(WindowEvents(t)) \in Nat
      BY <3>3, <3>4, TotalGrows, TotalType
    <3> QED BY <2>1, <2>7, <2>10, <3>5 DEF Spent
  <2> QED BY <2>6, <2>13, <2>14
<1> QED BY <1>1, SpendInvariant, PTL

=============================================================================
