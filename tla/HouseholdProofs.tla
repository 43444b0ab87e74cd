-------------------------- MODULE HouseholdProofs ---------------------------
(***************************************************************************)
(* Proofs about GardenPlan, for any crops, seasons, beds, plantings and    *)
(* days: the work on the calendar is the work the plan asks for, and the   *)
(* plan keeps its hands off what people typed, touched or closed.          *)
(*                                                                         *)
(* derive names a job once (JobsUnique), and what it returns depends on    *)
(* the timing of a crop only (TimelyJobs) and on what is planned of a      *)
(* planting (JobsOfAlike).  Hence a step either draws a planting up anew   *)
(* (Draws), and its work is what is wanted by construction, but for the    *)
(* tasks in a hand, whose keys are remembered (WorkInv); or it leaves      *)
(* wanted what was wanted, and only hands move its tasks (Untouched).      *)
(* What a planting needs to be drawn up at all is BaseInv.                 *)
(*                                                                         *)
(* Proofs about Electricity, for any days, prices and periods: what is     *)
(* checked against the nearest reading fits among all (FitsAmongAll), and  *)
(* a period keeps a price list for its first day (TariffsStay).  A bill    *)
(* is added up by chunks of days and by intervals of readings, a history   *)
(* by months, and the promise by single days; what they share is the day.  *)
(* The sum of the library is a choice of function, whose laws are proved   *)
(* by induction on finite sets (Enumerated, from the least                 *)
(* counterexample). Pieces tile the days (PiecesTile), so a sum over the   *)
(* days may be taken piece by piece (TilesSum), and every piece costs      *)
(* half a rounding once (RoundedSum): that gives the energy                *)
(* (MeteredByTheDay), the fees (FeesByTheDay) and, month by month, the     *)
(* history (IntervalShared).                                               *)
(*                                                                         *)
(* Proofs about Finance, for any months and incomes: its split, what it    *)
(* says is missing, and that a reader of the list has been shown exactly   *)
(* what stayed where it was at the cursor or above (Shown).                *)
(*                                                                         *)
(* Proofs about TodoBoards, for any digits, boards and cards: keys are in  *)
(* order (PrecedesOn, OneIsFirst), the key between two lies between them   *)
(* (MidpointLies: at the first place with room, which is past no smaller   *)
(* digit of the upper one), and so a card that is moved lands where it was *)
(* asked to.                                                               *)
(***************************************************************************)
EXTENDS GardenPlan, TodoBoards, Electricity, Finance, FiniteSetTheorems, TLAPS

----------------------------------------------------------------------------
(* What derive returns. *)

LEMMA SowingKinds ==
  ASSUME NEW p, NEW eff, NEW a, NEW j \in SowingJobs(p, eff, a)
  PROVE  j.kind \in {"bedPrep", "sowIndoor", "prickOut", "hardenOff", "sowDirect", "transplant", "thin"}
BY SMTT(60) DEF SowingJobs, Job, Sown, WhenGiven

LEMMA CareKinds ==
  ASSUME NEW p, NEW eff, NEW a, NEW j \in CareJobs(p, eff, a)
  PROVE  j.kind \in {"support", "feed", "mulch", "pestCheck", "prune", "spray"}
BY SMTT(60) DEF CareJobs, PestChecks, Job, WhenGiven, Yearly

LEMMA HarvestKinds ==
  ASSUME NEW p, NEW eff, NEW a, NEW j \in HarvestJobs(p, eff, a)
  PROVE  j.kind \in {"harvest", "process", "store", "clear"}
BY SMTT(60) DEF HarvestJobs, Job, WhenGiven

LEMMA JobsUnique ==
  ASSUME NEW p, NEW eff, NEW a, NEW j \in Jobs(p, eff, a), NEW k \in Jobs(p, eff, a), Same(j, k)
  PROVE  j = k
<1>1. CASE j \in SowingJobs(p, eff, a) /\ k \in SowingJobs(p, eff, a)
  <2>1. j.kind = k.kind
    BY DEF Same
  <2> QED
    BY <1>1, <2>1, SMTT(60) DEF SowingJobs, Job, Sown, WhenGiven, On, Some, BedDay
<1>2. CASE j \in CareJobs(p, eff, a) /\ k \in CareJobs(p, eff, a)
  <2>1. j.kind = k.kind /\ j.index = k.index
    BY DEF Same
  <2> QED
    BY <1>2, <2>1, SMTT(60) DEF CareJobs, PestChecks, Job, WhenGiven, Yearly, GroundDay, Some
<1>3. CASE j \in HarvestJobs(p, eff, a) /\ k \in HarvestJobs(p, eff, a)
  <2>1. j.kind = k.kind
    BY DEF Same
  <2> QED
    BY <1>3, <2>1, SMTT(60) DEF HarvestJobs, Job, WhenGiven, On, Some
<1> QED
  BY <1>1, <1>2, <1>3, SowingKinds, CareKinds, HarvestKinds DEF Jobs, Same

EffOK(eff) ==
  /\ \A f \in {"winSowIndoor", "winSowDirect", "winTransplant", "winHarvest"} : eff[f] \in Windows \cup {None}
  /\ \A f \in {"hardening", "germMin", "germMax"} : eff[f] \in Day
AnchorType == [year : Years \cup {ThisYear, None}, lastFrost : Day, firstFrost : Day]

LEMMA ResolveTyped ==
  ASSUME NEW w \in Windows \cup {None}, NEW a \in AnchorType, Resolve(w, a) # <<>>
  PROVE  Resolve(w, a)[1] \in Int /\ Resolve(w, a)[2] \in Int
<1>1. CASE w \in [anchor : {"week"}, from : 1..53, to : 1..53]
  <2>1. w # None /\ w.anchor = "week"
    BY <1>1, NoneAssumption DEF Windows
  <2>2. a.year # None /\ Resolve(w, a) = <<WeekMonday(a.year, w.from), WeekMonday(a.year, w.to) + 6>>
    BY <2>1 DEF Resolve
  <2>3. a.year \in Years \cup {ThisYear}
    BY <2>2 DEF AnchorType
  <2>4. WeekMonday(a.year, w.from) \in Int /\ WeekMonday(a.year, w.to) \in Int
    BY <1>1, <2>3, DayAssumption
  <2> QED
    BY <2>2, <2>4
<1>2. CASE w \in [anchor : {"lastFrost", "firstFrost"}, from : Int, to : Int]
  <2>1. w # None /\ w.anchor # "week" /\ w.anchor \in {"lastFrost", "firstFrost"}
    BY <1>2, NoneAssumption DEF Windows
  <2>2. a[w.anchor] # None /\ Resolve(w, a) = <<a[w.anchor] + w.from, a[w.anchor] + w.to>>
    BY <2>1 DEF Resolve
  <2>3. a[w.anchor] \in Int
    BY <2>1, <2>2 DEF AnchorType, Day
  <2> QED
    BY <1>2, <2>2, <2>3
<1>3. CASE w = None
  BY <1>3 DEF Resolve
<1> QED
  BY <1>1, <1>2, <1>3 DEF Windows

LEMMA FirstTyped ==
  ASSUME NEW d \in Day, NEW e \in Day
  PROVE  Or(d, e) \in Day
BY DEF Or

LEMMA OccupancyTyped ==
  ASSUME NEW p \in PlantingType
  PROVE  Occupancy(p)[1] \in Day /\ Occupancy(p)[2] \in Day
<1>1. \A f \in Fields : p.dates[f] \in Day
  BY DEF PlantingType
<1>2. \A f \in Actuals : p.actual[f] \in Day
  BY DEF PlantingType
<1> QED
  BY <1>1, <1>2 DEF Occupancy, Or, Day, Fields, Actuals

LEMMA JobTyped ==
  ASSUME NEW kind \in Kinds, NEW index \in 0..11, NEW from \in Int, NEW to \in Int, NEW due \in Day
  PROVE  LET j == Job(kind, index, from, to, due)
         IN /\ j.kind \in Kinds /\ j.index \in 0..11 /\ j.from \in Int /\ j.to \in Int /\ j.due \in Day
BY DEF Job

JobOK(j) == j.kind \in Kinds /\ j.index \in 0..11 /\ j.from \in Int /\ j.to \in Int /\ j.due \in Day

LEMMA JobsTyped ==
  ASSUME NEW p \in PlantingType, NEW eff, EffOK(eff), NEW a \in AnchorType, NEW j \in Jobs(p, eff, a)
  PROVE  JobOK(j)
<1> DEFINE span(f, d) == Spread(p, eff, a, f, d)
<1>1. \A f \in Fields : p.dates[f] \in Day /\ On(p, f) \subseteq Int
  BY DEF PlantingType, Day, On, Some
<1>2. GroundDay(p) \subseteq Int /\ BedDay(p) \subseteq Int
  BY <1>1 DEF GroundDay, BedDay, Some, Or, Day, Fields
<1>3. \A f \in Fields : eff[WindowFor[f]] \in Windows \cup {None}
  BY DEF EffOK, WindowFor, Fields
<1>4. \A f \in Fields : \A d \in Int : span(f, d)[1] \in Int /\ span(f, d)[2] \in Int
  BY <1>3, ResolveTyped DEF Spread
<1>5. \A f \in Fields : Resolve(eff[WindowFor[f]], a) # <<>> =>
         Resolve(eff[WindowFor[f]], a)[1] \in Int /\ Resolve(eff[WindowFor[f]], a)[2] \in Int
  BY <1>3, ResolveTyped
<1>6. eff["hardening"] \in Day /\ eff["germMin"] \in Day /\ eff["germMax"] \in Day
  BY DEF EffOK
<1>7. Fields = {"sowIndoor", "sowDirect", "transplant", "harvestFrom", "harvestTo"}
  BY DEF Fields
<1>8. CASE j \in SowingJobs(p, eff, a)
  BY <1>1, <1>2, <1>4, <1>6, <1>7, <1>8, SMTT(60)
     DEF SowingJobs, Sown, WhenGiven, Some, Job, JobOK, Kinds, Day
<1>9. CASE j \in CareJobs(p, eff, a)
  BY <1>1, <1>2, <1>5, <1>7, <1>9, OccupancyTyped, SMTT(60)
     DEF CareJobs, PestChecks, Yearly, WhenGiven, Job, JobOK, Kinds, Day
<1>10. CASE j \in HarvestJobs(p, eff, a)
  BY <1>1, <1>4, <1>7, <1>10, SMTT(60)
     DEF HarvestJobs, LastPicking, WhenGiven, Job, JobOK, Kinds, Day
<1> QED
  BY <1>8, <1>9, <1>10 DEF Jobs

\* What derive reads of a planting.
Alike(p, n) ==
  /\ p.season = n.season /\ p.bed = n.bed /\ p.dates = n.dates /\ p.manual = n.manual
  /\ \A f \in Actuals \ {"firstHarvest"} : p.actual[f] = n.actual[f]

LEMMA JobsOfAlike ==
  ASSUME NEW p, NEW n, Alike(p, n), NEW eff, NEW a
  PROVE  Jobs(p, eff, a) = Jobs(n, eff, a)
<1>1. /\ p.season = n.season /\ p.bed = n.bed /\ p.dates = n.dates /\ p.manual = n.manual
      /\ \A f \in {"sowed", "transplanted", "cleared", "planted", "removed"} : p.actual[f] = n.actual[f]
  BY DEF Alike, Actuals
<1>2. \A f : On(p, f) = On(n, f)
  BY <1>1 DEF On
<1>3. GroundDay(p) = GroundDay(n) /\ BedDay(p) = BedDay(n)
  BY <1>1 DEF GroundDay, BedDay
<1>4. \A f, d : Spread(p, eff, a, f, d) = Spread(n, eff, a, f, d)
  BY <1>1 DEF Spread
<1>5. \A kind, f : Sown(p, eff, a, kind, f) = Sown(n, eff, a, kind, f)
  BY <1>2, <1>4 DEF Sown
<1>6. \A kind, f : Yearly(p, eff, a, kind, f) = Yearly(n, eff, a, kind, f)
  BY <1>1 DEF Yearly
<1>7. Occupancy(p) = Occupancy(n)
  BY <1>1 DEF Occupancy
<1>8. PestChecks(p) = PestChecks(n)
  BY <1>7 DEF PestChecks
<1>9. \A to : LastPicking(p, to) = LastPicking(n, to)
  BY <1>1 DEF LastPicking
<1>10. SowingJobs(p, eff, a) = SowingJobs(n, eff, a)
  <2>1. On(p, "sowIndoor") = On(n, "sowIndoor") /\ On(p, "transplant") = On(n, "transplant")
        /\ On(p, "sowDirect") = On(n, "sowDirect")
    BY <1>2
  <2> QED
    BY <1>1, <1>3, <1>5, <2>1, SMTT(60) DEF SowingJobs, WhenGiven
<1>11. CareJobs(p, eff, a) = CareJobs(n, eff, a)
  BY <1>3, <1>6, <1>8 DEF CareJobs
<1>12. HarvestJobs(p, eff, a) = HarvestJobs(n, eff, a)
  <2>1. On(p, "harvestFrom") = On(n, "harvestFrom") /\ On(p, "harvestTo") = On(n, "harvestTo")
    BY <1>2
  <2> QED
    BY <1>1, <2>1, SMTT(60) DEF HarvestJobs, WhenGiven, Spread, LastPicking
<1> QED
  BY <1>10, <1>11, <1>12 DEF Jobs

Timely(J) == {j \in J : j.kind \notin {"process", "store"}}

LEMMA TimelyJobs ==
  ASSUME NEW p, NEW eff, NEW other, \A f \in TimingFields : eff[f] = other[f], NEW a
  PROVE  Timely(Jobs(p, eff, a)) = Timely(Jobs(p, other, a))
<1>1. \A f : WindowFor[f] \in TimingFields => eff[WindowFor[f]] = other[WindowFor[f]]
  OBVIOUS
<1>2. \A f \in Fields : eff[WindowFor[f]] = other[WindowFor[f]]
  BY DEF Fields, WindowFor, TimingFields
<1>3. /\ eff["prickOut"] = other["prickOut"] /\ eff["germMin"] = other["germMin"] /\ eff["germMax"] = other["germMax"]
      /\ eff["hardening"] = other["hardening"] /\ eff["support"] = other["support"] /\ eff["feeder"] = other["feeder"]
      /\ eff["mulch"] = other["mulch"] /\ eff["pestCheck"] = other["pestCheck"]
  BY DEF TimingFields
<1>4. \A f \in Fields : \A d : Spread(p, eff, a, f, d) = Spread(p, other, a, f, d)
  BY <1>2 DEF Spread
<1>5. \A f \in Fields : \A kind : Sown(p, eff, a, kind, f) = Sown(p, other, a, kind, f)
  BY <1>4 DEF Sown
<1>6. \A f \in Fields : \A kind : Yearly(p, eff, a, kind, f) = Yearly(p, other, a, kind, f)
  BY <1>2 DEF Yearly
<1>7. SowingJobs(p, eff, a) = SowingJobs(p, other, a)
  BY <1>3, <1>5 DEF SowingJobs, Fields
<1>8. CareJobs(p, eff, a) = CareJobs(p, other, a)
  BY <1>3, <1>6 DEF CareJobs, Fields
<1>9. Timely(HarvestJobs(p, eff, a)) = Timely(HarvestJobs(p, other, a))
  BY <1>4, SMTT(60) DEF HarvestJobs, Fields, Timely, WhenGiven, Job
<1> QED
  BY <1>7, <1>8, <1>9 DEF Jobs, Timely

----------------------------------------------------------------------------
(* The tables, the plans and the work drawn up from them, typed. *)

PlantTable == [Plants -> Cores \cup {None, Gone}]
VarietyTable == [Varieties -> VarietyType \cup {None, Gone}]
SeasonTable == [Years -> SeasonType \cup {None}]

LEMMA KnownTyped ==
  ASSUME NEW p \in PlantingType, NEW P \in PlantTable, NEW V \in VarietyTable, Known(p, P, V)
  PROVE  P[p.plant] \in Cores /\ (p.variety # None => V[p.variety] \in VarietyType)
BY DEF PlantingType, PlantTable, VarietyTable, Known, Is

LEMMA EffectiveTyped ==
  ASSUME NEW p \in PlantingType, NEW P \in PlantTable, NEW V \in VarietyTable, Known(p, P, V)
  PROVE  EffOK(Effective(p, P, V))
<1> DEFINE windows == {"winSowIndoor", "winSowDirect", "winTransplant", "winHarvest"}
           lengths == {"hardening", "germMin", "germMax"}
<1>1. ASSUME NEW c \in Cores
      PROVE  /\ DOMAIN Core[c] = TimingFields \cup {"storage"}
             /\ \A f \in windows : Core[c][f] \in Windows \cup {None}
             /\ \A f \in lengths : Core[c][f] \in Day
  BY CoreAssumption
<1>2. CASE p.variety = None
  BY <1>1, <1>2, KnownTyped DEF Effective, EffOK
<1>3. CASE p.variety # None
  <2>1. P[p.plant] \in Cores /\ V[p.variety].core \in Cores
    BY <1>3, KnownTyped DEF VarietyType
  <2>2. Effective(p, P, V) = Merge(Core[P[p.plant]], Core[V[p.variety].core])
    BY <1>3 DEF Effective
  <2>3. windows \cup lengths \subseteq TimingFields
    BY DEF TimingFields
  <2>4. \A f \in windows \cup lengths :
          Effective(p, P, V)[f] \in {Core[P[p.plant]][f], Core[V[p.variety].core][f]}
    BY <1>1, <2>1, <2>2, <2>3 DEF Merge
  <2> HIDE DEF windows, lengths
  <2>5. \A f \in windows : Effective(p, P, V)[f] \in Windows \cup {None}
    BY <1>1, <2>1, <2>4
  <2>6. \A f \in lengths : Effective(p, P, V)[f] \in Day
    BY <1>1, <2>1, <2>4
  <2> QED
    BY <2>5, <2>6 DEF EffOK, windows, lengths
<1> QED
  BY <1>2, <1>3

\* Crops and varieties that differ in no timing field give the same timing.
LEMMA EffectiveTiming ==
  ASSUME NEW c \in Cores, NEW d \in Cores, NEW e \in Cores,
         \A f \in TimingFields : Core[c][f] = Core[d][f]
  PROVE  \A f \in TimingFields : /\ Merge(Core[c], Core[e])[f] = Merge(Core[d], Core[e])[f]
                                 /\ Merge(Core[e], Core[c])[f] = Merge(Core[e], Core[d])[f]
BY CoreAssumption DEF Merge

HomeIn(p, S) == p.season # None => S[p.season] # None

LEMMA AnchorsTyped ==
  ASSUME NEW S \in SeasonTable, NEW y \in Years, S[y] # None
  PROVE  Anchors(y, S) \in AnchorType
BY DEF SeasonTable, SeasonType, Anchors, AnchorType

LEMMA AnchorsOfTyped ==
  ASSUME NEW p \in PlantingType, NEW S \in SeasonTable, HomeIn(p, S)
  PROVE  AnchorsOf(p, S) \in AnchorType
<1>1. CASE p.season # None
  BY <1>1, AnchorsTyped DEF AnchorsOf, HomeIn, PlantingType
<1>2. CASE p.season = None
  BY <1>2 DEF AnchorsOf, NoAnchors, AnchorType, Day
<1> QED
  BY <1>1, <1>2

LEMMA PlannedTyped ==
  ASSUME NEW p \in PlantingType, NEW eff, EffOK(eff), NEW a \in AnchorType
  PROVE  /\ Planned(p, eff, a) \in PlantingType
         /\ Planned(p, eff, a).season = p.season /\ Planned(p, eff, a).plant = p.plant
         /\ Planned(p, eff, a).variety = p.variety /\ Planned(p, eff, a).bed = p.bed
         /\ Planned(p, eff, a).manual = p.manual
         /\ \A f \in p.manual : Planned(p, eff, a).dates[f] = p.dates[f]
<1> DEFINE days(f) == Resolve(eff[WindowFor[f]], a)
           date(f) == IF f \in p.manual \/ days(f) = <<>> THEN p.dates[f] ELSE days(f)[IF f = "harvestTo" THEN 2 ELSE 1]
<1>1. \A f \in Fields : p.dates[f] \in Day
  BY DEF PlantingType
<1>2. \A f \in Fields : eff[WindowFor[f]] \in Windows \cup {None}
  BY DEF EffOK, WindowFor, Fields
<1>3. \A f \in Fields : days(f) # <<>> => days(f)[1] \in Int /\ days(f)[2] \in Int
  BY <1>2, ResolveTyped
<1>4. \A f \in Fields : date(f) \in Day
  BY <1>1, <1>3 DEF Day
<1>5. Planned(p, eff, a) = [p EXCEPT !.dates = [f \in Fields |-> date(f)]]
  BY DEF Planned
<1>6. \A f \in p.manual : f \in Fields /\ date(f) = p.dates[f]
  BY DEF PlantingType
<1> HIDE DEF date
<1>7. [f \in Fields |-> date(f)] \in [Fields -> Day]
  BY <1>4
<1> QED
  BY <1>5, <1>6, <1>7 DEF PlantingType

LEMMA TaskTyped ==
  ASSUME NEW i \in Plantings, NEW p \in PlantingType, NEW j, JobOK(j)
  PROVE  Task(i, p, j) \in TaskType
BY DEF Task, JobOK, TaskType, PlantingType

\* A change of plantings leaves tables typed.
LEMMA ReplanTyped ==
  ASSUME TypeOK, NEW I \in SUBSET Plantings, NEW new, \A i \in I : new[i] \in PlantingType,
         NEW P \in PlantTable, NEW V \in VarietyTable, NEW S \in SeasonTable,
         \A i \in I : HomeIn(new[i], S), Replan(I, new, P, V, S)
  PROVE  /\ plantings' \in [Plantings -> PlantingType \cup {None, Gone}]
         /\ work' \subseteq TaskType
<1>1. \A i \in I : [new[i] EXCEPT !.drawn = new[i].manual] \in PlantingType
  BY DEF PlantingType
<1>2. plantings' \in [Plantings -> PlantingType \cup {None, Gone}]
  BY <1>1 DEF Replan, TypeOK
<1>3. ASSUME NEW i \in I
      PROVE  Regenerated(i, new[i], Effective(new[i], P, V), AnchorsOf(new[i], S)) \subseteq TaskType
  <2> DEFINE eff == Effective(new[i], P, V)
             a == AnchorsOf(new[i], S)
  <2>1. EffOK(eff) /\ a \in AnchorType
    BY EffectiveTyped, AnchorsOfTyped DEF Replan
  <2> HIDE DEF eff, a
  <2>2. \A j \in Jobs(new[i], eff, a) : Task(i, new[i], j) \in TaskType
    BY <2>1, JobsTyped, TaskTyped
  <2>3. OfPlanting(i) \subseteq TaskType
    BY DEF OfPlanting, TypeOK
  <2>4. Regenerated(i, new[i], eff, a) \subseteq TaskType
    BY <2>2, <2>3 DEF Regenerated
  <2> QED
    BY <2>4 DEF eff, a
<1>4. work' \subseteq TaskType
  BY <1>3 DEF Replan, TypeOK
<1> QED
  BY <1>2, <1>4

----------------------------------------------------------------------------
(* Every planting that is there has its crop, its variety and its season. *)

Homes ==
  \A i \in Plantings : Is(plantings[i]) => Known(plantings[i], plants, varieties) /\ HomeIn(plantings[i], seasons)

\* What a copy has read and built.
CopyInv ==
  copy # None => /\ copy.season.status # "closed"
                 /\ \A i \in Plantings : copy.copied[i] # None => copy.copied[i].season = copy.year

BaseInv == TypeOK /\ Homes /\ CopyInv

LEMMA PlannedFields ==
  ASSUME NEW p \in PlantingType, NEW eff, NEW a
  PROVE  /\ Planned(p, eff, a).season = p.season /\ Planned(p, eff, a).plant = p.plant
         /\ Planned(p, eff, a).variety = p.variety /\ Planned(p, eff, a).bed = p.bed
         /\ Planned(p, eff, a).manual = p.manual
BY DEF PlantingType, Planned

\* A planting that is drawn up is known, and is where its plan says.
LEMMA ReplanHomes ==
  ASSUME BaseInv, NEW I \in SUBSET Plantings, NEW new, \A i \in I : new[i] \in PlantingType,
         NEW P \in PlantTable, NEW V \in VarietyTable, NEW S \in SeasonTable,
         \A i \in I : HomeIn(new[i], S), Replan(I, new, P, V, S),
         \A i \in Plantings \ I : Is(plantings[i]) => Known(plantings[i], P, V) /\ HomeIn(plantings[i], S)
  PROVE  \A i \in Plantings : Is(plantings'[i]) => Known(plantings'[i], P, V) /\ HomeIn(plantings'[i], S)
<1>1. ASSUME NEW i \in I
      PROVE  Known(plantings'[i], P, V) /\ HomeIn(plantings'[i], S)
  <2>1. plantings'[i] = [new[i] EXCEPT !.drawn = new[i].manual]
    BY DEF Replan
  <2>2. /\ plantings'[i].plant = new[i].plant /\ plantings'[i].variety = new[i].variety
        /\ plantings'[i].season = new[i].season
    BY <2>1 DEF PlantingType
  <2>3. Known(new[i], P, V)
    BY DEF Replan
  <2> QED
    BY <2>2, <2>3 DEF Known, HomeIn
<1>2. \A i \in Plantings \ I : plantings'[i] = plantings[i]
  BY DEF Replan
<1> QED
  BY <1>1, <1>2

\* What a change of a crop draws up.
DrawnAnew(p, P, V) ==
  IF p.season = None THEN p ELSE Planned(p, Effective(p, P, V), Anchors(p.season, seasons))

LEMMA DrawnAnewTyped ==
  ASSUME BaseInv, NEW P \in PlantTable, NEW V \in VarietyTable, NEW i \in Plantings, Is(plantings[i]),
         Known(DrawnAnew(plantings[i], P, V), P, V)
  PROVE  LET p == plantings[i]
             n == DrawnAnew(p, P, V)
         IN /\ n \in PlantingType /\ Known(p, P, V)
            /\ n.season = p.season /\ n.plant = p.plant /\ n.variety = p.variety /\ n.bed = p.bed
            /\ n.manual = p.manual /\ \A f \in p.manual : n.dates[f] = p.dates[f]
<1> DEFINE p == plantings[i]
<1>1. p \in PlantingType
  BY DEF BaseInv, TypeOK, Is
<1>2. CASE p.season = None
  BY <1>1, <1>2 DEF DrawnAnew
<1>3. CASE p.season # None
  <2>1. DrawnAnew(p, P, V) = Planned(p, Effective(p, P, V), Anchors(p.season, seasons))
    BY <1>3 DEF DrawnAnew
  <2>2. Known(p, P, V)
    BY <1>1, <2>1, PlannedFields DEF Known
  <2>3. seasons \in SeasonTable /\ seasons[p.season] # None /\ p.season \in Years
    BY <1>1, <1>3 DEF BaseInv, TypeOK, Homes, HomeIn, SeasonTable, PlantingType
  <2>4. Anchors(p.season, seasons) \in AnchorType /\ EffOK(Effective(p, P, V))
    BY <1>1, <2>2, <2>3, AnchorsTyped, EffectiveTyped
  <2> DEFINE n == Planned(p, Effective(p, P, V), Anchors(p.season, seasons))
  <2>5. /\ n \in PlantingType /\ n.season = p.season /\ n.plant = p.plant /\ n.variety = p.variety
        /\ n.bed = p.bed /\ n.manual = p.manual /\ \A f \in p.manual : n.dates[f] = p.dates[f]
    BY <1>1, <2>4, PlannedTyped
  <2> QED
    BY <2>1, <2>2, <2>5
<1> QED
  BY <1>2, <1>3

LEMMA RegenerateIsReplan ==
  ASSUME NEW q, NEW P, NEW V
  PROVE  RegenerateForPlant(q, P, V)
           <=> Replan(UsersOf(q), [i \in UsersOf(q) |-> DrawnAnew(plantings[i], P, V)], P, V, seasons)
BY DEF RegenerateForPlant, DrawnAnew

\* Plantings I are drawn up as new[i], in the tables as they then are.
Draws(I, new) ==
  /\ I \in SUBSET Plantings
  /\ \A i \in I : new[i] \in PlantingType /\ HomeIn(new[i], seasons')
  /\ Replan(I, new, plants', varieties', seasons')

LEMMA DrawsTyped ==
  ASSUME BaseInv, NEW I, NEW new, Draws(I, new),
         plants' \in PlantTable, varieties' \in VarietyTable, seasons' \in SeasonTable,
         \A i \in Plantings \ I : Is(plantings[i]) => Known(plantings[i], plants', varieties') /\ HomeIn(plantings[i], seasons')
  PROVE  /\ plantings' \in [Plantings -> PlantingType \cup {None, Gone}] /\ work' \subseteq TaskType /\ Homes'
<1>1. plantings' \in [Plantings -> PlantingType \cup {None, Gone}] /\ work' \subseteq TaskType
  BY ReplanTyped DEF Draws, BaseInv
<1>2. \A i \in Plantings : Is(plantings'[i]) => Known(plantings'[i], plants', varieties') /\ HomeIn(plantings'[i], seasons')
  BY ReplanHomes DEF Draws
<1> QED
  BY <1>1, <1>2 DEF Homes

\* A change of a crop or a variety draws up the plantings of open seasons anew.
LEMMA RegenerateDraws ==
  ASSUME BaseInv, NEW q, plants' \in PlantTable, varieties' \in VarietyTable, seasons' = seasons,
         RegenerateForPlant(q, plants', varieties')
  PROVE  \E new : /\ Draws(UsersOf(q), new)
                  /\ \A i \in UsersOf(q) : /\ Is(plantings[i])
                                           /\ \A f \in plantings[i].manual : new[i].dates[f] = plantings[i].dates[f]
<1> DEFINE I == UsersOf(q)
           new == [i \in I |-> DrawnAnew(plantings[i], plants', varieties')]
<1>1. Replan(I, new, plants', varieties', seasons')
  BY RegenerateIsReplan
<1>2. I \in SUBSET Plantings /\ \A i \in I : Is(plantings[i])
  BY DEF UsersOf
<1>3. \A i \in I : Known(DrawnAnew(plantings[i], plants', varieties'), plants', varieties')
  BY <1>1 DEF Replan
<1>4. \A i \in I : /\ new[i] \in PlantingType /\ new[i].season = plantings[i].season
                   /\ \A f \in plantings[i].manual : new[i].dates[f] = plantings[i].dates[f]
  BY <1>2, <1>3, DrawnAnewTyped
<1>5. \A i \in I : HomeIn(new[i], seasons')
  BY <1>2, <1>4 DEF BaseInv, Homes, HomeIn
<1> HIDE DEF I, new
<1>6. Draws(I, new)
  BY <1>1, <1>2, <1>4, <1>5 DEF Draws
<1> QED
  BY <1>2, <1>4, <1>6 DEF I

LEMMA PatchedTyped ==
  ASSUME NEW p \in PlantingType, NEW n \in Patched(p)
  PROVE  n \in PlantingType /\ n.season = p.season /\ n.plant = p.plant /\ n.drawn = p.drawn
<1> DEFINE Fits(m) == m \in PlantingType /\ m.season = p.season /\ m.plant = p.plant /\ m.drawn = p.drawn
<1>1. Days \cup {None} \subseteq Day
  BY DayAssumption DEF Day
<1>2. \A b \in Beds \cup {None} : Fits([p EXCEPT !.bed = b])
  BY DEF PlantingType
<1>3. \A v \in Varieties \cup {None} : Fits([p EXCEPT !.variety = v])
  BY DEF PlantingType
<1>4. ASSUME NEW f \in Fields, NEW d \in Days \cup {None}
      PROVE  Fits(WithDate(p, f, d))
  <2> DEFINE dates == [p.dates EXCEPT ![f] = d]
             manual == IF d = None THEN p.manual \ {f} ELSE p.manual \cup {f}
  <2>1. dates \in [Fields -> Day] /\ manual \in SUBSET Fields
    BY <1>1 DEF PlantingType
  <2>2. WithDate(p, f, d) = [[p EXCEPT !.dates = dates] EXCEPT !.manual = manual]
    BY DEF WithDate, PlantingType
  <2> HIDE DEF dates, manual
  <2> QED
    BY <2>1, <2>2 DEF PlantingType
<1>5. \A f \in Actuals, d \in Days \cup {None} : Fits(WithActual(p, f, d))
  BY <1>1 DEF PlantingType, WithActual
<1>6. \A s \in {"growing", "done"} : Fits([p EXCEPT !.status = s])
  BY DEF PlantingType
<1> HIDE DEF Fits
<1>7. Fits(n)
  BY <1>2, <1>3, <1>4, <1>5, <1>6 DEF Patched
<1> QED
  BY <1>7 DEF Fits

LEMMA UpdatePlantingDraws ==
  ASSUME BaseInv, NEW i \in Plantings, Is(plantings[i]), NEW n \in Patched(plantings[i]), UpdatePlanting(i, n),
         PlanChanged(plantings[i], n)
  PROVE  \E new : Draws({i}, new)
<1> DEFINE new == [k \in {i} |-> n]
<1>1. plantings[i] \in PlantingType /\ HomeIn(plantings[i], seasons)
  BY DEF BaseInv, TypeOK, Homes, Is
<1>2. n \in PlantingType /\ HomeIn(n, seasons)
  BY <1>1, PatchedTyped DEF HomeIn
<1>3. Replan({i}, new, plants, varieties, seasons) /\ UNCHANGED <<knownVars, seasons>>
  BY DEF UpdatePlanting
<1>4. Draws({i}, new)
  BY <1>2, <1>3 DEF Draws, knownVars
<1> QED
  BY <1>4

LEMMA BaseInit ==
  ASSUME Init
  PROVE  BaseInv
<1>1. \A i \in Plantings : ~Is(plantings[i])
  BY DEF Init, Is
<1> QED
  BY <1>1 DEF Init, BaseInv, TypeOK, Homes, CopyInv

LEMMA BaseKnown ==
  ASSUME BaseInv, KnownNext
  PROVE  BaseInv'
<1> USE DEF BaseInv
<1>1. ASSUME NEW q \in Plants, NEW c \in Cores, CreatePlant(q, c)
      PROVE  BaseInv'
  <2>1. TypeOK'
    BY <1>1 DEF CreatePlant, TypeOK, history
  <2>2. Homes'
    BY <1>1, NoneAssumption DEF CreatePlant, TypeOK, Homes, HomeIn, Known, Is
  <2> QED
    BY <1>1, <2>1, <2>2 DEF CreatePlant, CopyInv
<1>2. ASSUME NEW q \in Plants, NEW c \in Cores, UpdatePlant(q, c)
      PROVE  BaseInv'
  <2>1. plants' \in PlantTable /\ varieties \in VarietyTable
    BY <1>2 DEF UpdatePlant, TypeOK, PlantTable, VarietyTable
  <2>2. \A i \in Plantings : Is(plantings[i]) => Known(plantings[i], plants', varieties)
    BY <1>2, NoneAssumption DEF UpdatePlant, TypeOK, Homes, Known, Is
  <2>3. CASE TimingChanged(plants[q], c)
    <3>1. RegenerateForPlant(q, plants', varieties)
      BY <1>2, <2>3 DEF UpdatePlant
    <3>2. varieties' = varieties /\ seasons' = seasons
      BY <1>2 DEF UpdatePlant
    <3>3. PICK new : Draws(UsersOf(q), new)
      BY <2>1, <3>1, <3>2, RegenerateDraws
    <3>4. seasons \in SeasonTable
      BY DEF TypeOK, SeasonTable
    <3>5. plantings' \in [Plantings -> PlantingType \cup {None, Gone}] /\ work' \subseteq TaskType /\ Homes'
      BY <2>1, <2>2, <3>2, <3>3, <3>4, DrawsTyped DEF Homes
    <3> QED
      BY <1>2, <2>1, <3>5 DEF UpdatePlant, TypeOK, CopyInv, PlantTable, history
  <2>4. CASE ~TimingChanged(plants[q], c)
    BY <1>2, <2>1, <2>2, <2>4 DEF UpdatePlant, TypeOK, Homes, CopyInv, PlantTable, history
  <2> QED
    BY <2>3, <2>4
<1>3. ASSUME NEW q \in Plants, DeletePlant(q)
      PROVE  BaseInv'
  <2>1. TypeOK'
    BY <1>3 DEF DeletePlant, TypeOK, history
  <2>2. Homes'
    BY <1>3 DEF DeletePlant, TypeOK, Homes, HomeIn, Known, Is
  <2> QED
    BY <1>3, <2>1, <2>2 DEF DeletePlant, CopyInv
<1>4. ASSUME NEW v \in Varieties, NEW q \in Plants, NEW c \in Cores, CreateVariety(v, q, c)
      PROVE  BaseInv'
  <2>0. [plant |-> q, core |-> c] \in VarietyType
    BY DEF VarietyType
  <2>1. TypeOK'
    BY <1>4, <2>0 DEF CreateVariety, TypeOK, history
  <2>2. Homes'
    BY <1>4, <2>0, NoneAssumption DEF CreateVariety, TypeOK, Homes, HomeIn, Known, Is
  <2> QED
    BY <1>4, <2>1, <2>2 DEF CreateVariety, CopyInv
<1>5. ASSUME NEW v \in Varieties, NEW c \in Cores, UpdateVariety(v, c)
      PROVE  BaseInv'
  <2>0. varieties[v] \in VarietyType /\ [varieties[v] EXCEPT !.core = c] \in VarietyType
    BY <1>5 DEF UpdateVariety, TypeOK, Is, VarietyType
  <2>1. plants \in PlantTable /\ varieties' \in VarietyTable /\ varieties[v].plant \in Plants
    BY <1>5, <2>0 DEF UpdateVariety, TypeOK, PlantTable, VarietyTable, VarietyType
  <2>2. \A i \in Plantings : Is(plantings[i]) => Known(plantings[i], plants, varieties')
    BY <1>5, <2>0, NoneAssumption DEF UpdateVariety, TypeOK, Homes, Known, Is
  <2>3. CASE TimingChanged(varieties[v].core, c)
    <3>1. RegenerateForPlant(varieties[v].plant, plants, varieties')
      BY <1>5, <2>3 DEF UpdateVariety
    <3>2. plants' = plants /\ seasons' = seasons
      BY <1>5 DEF UpdateVariety
    <3>3. PICK new : Draws(UsersOf(varieties[v].plant), new)
      BY <2>1, <3>1, <3>2, RegenerateDraws
    <3>4. seasons \in SeasonTable
      BY DEF TypeOK, SeasonTable
    <3>5. plantings' \in [Plantings -> PlantingType \cup {None, Gone}] /\ work' \subseteq TaskType /\ Homes'
      BY <2>1, <2>2, <3>2, <3>3, <3>4, DrawsTyped DEF Homes
    <3> QED
      BY <1>5, <2>1, <3>5 DEF UpdateVariety, TypeOK, CopyInv, VarietyTable, history
  <2>4. CASE ~TimingChanged(varieties[v].core, c)
    BY <1>5, <2>1, <2>2, <2>4 DEF UpdateVariety, TypeOK, Homes, CopyInv, VarietyTable, history
  <2> QED
    BY <2>3, <2>4
<1>6. ASSUME NEW v \in Varieties, DeleteVariety(v)
      PROVE  BaseInv'
  <2>1. TypeOK'
    BY <1>6 DEF DeleteVariety, TypeOK, history
  <2>2. Homes'
    BY <1>6 DEF DeleteVariety, TypeOK, Homes, HomeIn, Known, Is
  <2> QED
    BY <1>6, <2>1, <2>2 DEF DeleteVariety, CopyInv
<1>7. ASSUME NEW b \in Beds, NEW active \in BOOLEAN, UpdateBed(b, active)
      PROVE  BaseInv'
  BY <1>7 DEF UpdateBed, TypeOK, Homes, CopyInv, history
<1>8. ASSUME NEW b \in Beds, DeleteBed(b)
      PROVE  BaseInv'
  BY <1>8 DEF DeleteBed, TypeOK, Homes, CopyInv, history
<1> QED
  BY <1>1, <1>2, <1>3, <1>4, <1>5, <1>6, <1>7, <1>8 DEF KnownNext

LEMMA BaseHand ==
  ASSUME BaseInv, HandNext
  PROVE  BaseInv'
<1> USE DEF BaseInv
<1>1. ASSUME NEW i \in Plantings, Is(plantings[i]), NEW n \in Patched(plantings[i]), UpdatePlanting(i, n)
      PROVE  BaseInv'
  <2> DEFINE p == plantings[i]
  <2>1. p \in PlantingType
    BY <1>1 DEF TypeOK, Is
  <2>2. n \in PlantingType /\ n.season = p.season /\ n.plant = p.plant
    BY <1>1, <2>1, PatchedTyped
  <2>3. HomeIn(n, seasons)
    BY <1>1, <2>2 DEF Homes, HomeIn
  <2>4. CASE PlanChanged(p, n)
    <3>1. PICK new : Draws({i}, new)
      BY <1>1, <2>4, UpdatePlantingDraws
    <3>2. plants \in PlantTable /\ varieties \in VarietyTable /\ seasons \in SeasonTable
      BY DEF TypeOK, PlantTable, VarietyTable, SeasonTable
    <3>3. plants' = plants /\ varieties' = varieties /\ seasons' = seasons
      BY <1>1 DEF UpdatePlanting, knownVars
    <3>4. plantings' \in [Plantings -> PlantingType \cup {None, Gone}] /\ work' \subseteq TaskType /\ Homes'
      BY <3>1, <3>2, <3>3, DrawsTyped DEF Homes
    <3> QED
      BY <1>1, <3>4 DEF UpdatePlanting, TypeOK, CopyInv, knownVars, history
  <2>5. CASE ~PlanChanged(p, n)
    <3>1. n.variety = p.variety
      BY <2>5 DEF PlanChanged
    <3>2. plantings' = [plantings EXCEPT ![i] = n] /\ work' = work
      BY <1>1, <2>5 DEF UpdatePlanting
    <3>3. Homes'
      BY <1>1, <2>2, <2>3, <3>1, <3>2 DEF UpdatePlanting, TypeOK, Homes, HomeIn, Known, knownVars
    <3> QED
      BY <1>1, <2>2, <3>2, <3>3 DEF UpdatePlanting, TypeOK, CopyInv, knownVars, history
  <2> QED
    BY <2>4, <2>5
<1>2. ASSUME NEW i \in Plantings, NEW days \in Days, NEW kinds, ShiftTasks(i, days, kinds)
      PROVE  BaseInv'
  <2>1. days \in Int
    BY DayAssumption
  <2> DEFINE later(t) == [t EXCEPT !.from = @ + days, !.to = @ + days,
                                   !.due = IF @ = None THEN None ELSE @ + days, !.edited = TRUE]
             moved == {t \in OfPlanting(i) : t.status = "open" /\ ~t.suppressed /\ t.kind \in kinds}
  <2>2. ASSUME NEW t \in TaskType
        PROVE  later(t) \in TaskType
    <3>1. t.from + days \in Int /\ t.to + days \in Int
      BY <2>1 DEF TaskType
    <3>2. (IF t.due = None THEN None ELSE t.due + days) \in Day
      BY <2>1 DEF TaskType, Day
    <3> QED
      BY <3>1, <3>2, Zenon DEF TaskType
  <2>3. work' = (work \ moved) \cup {later(t) : t \in moved} /\ handled' = handled \cup {Key(t) : t \in moved}
    BY <1>2 DEF ShiftTasks
  <2>4. moved \subseteq TaskType
    BY DEF TypeOK, OfPlanting
  <2> HIDE DEF later, moved
  <2>5. \A t \in moved : Key(t) \in Plantings \X Kinds \X (0..11)
    BY <2>4 DEF Key, TaskType
  <2>6. work' \subseteq TaskType /\ handled' \subseteq Plantings \X Kinds \X (0..11)
    BY <2>2, <2>3, <2>4, <2>5 DEF TypeOK
  <2> QED
    BY <1>2, <2>6 DEF ShiftTasks, TypeOK, Homes, CopyInv, knownVars
<1>3. ASSUME NEW i \in Plantings, NEW day \in Days, CreateHarvest(i, day)
      PROVE  BaseInv'
  <2> DEFINE p == plantings[i]
             n == [p EXCEPT !.actual["firstHarvest"] = day, !.status = "harvesting"]
  <2>1. p \in PlantingType /\ day \in Day
    BY <1>3, DayAssumption DEF CreateHarvest, TypeOK, Is, Day
  <2>2. n \in PlantingType /\ n.season = p.season /\ n.plant = p.plant /\ n.variety = p.variety
    BY <2>1 DEF PlantingType
  <2>3. plantings' = plantings \/ plantings' = [plantings EXCEPT ![i] = n]
    BY <1>3, <2>1 DEF CreateHarvest, TypeOK
  <2> HIDE DEF n
  <2>4. plantings' \in [Plantings -> PlantingType \cup {None, Gone}] /\ picked' \in [Plantings -> Nat]
    BY <1>3, <2>2, <2>3 DEF CreateHarvest, TypeOK
  <2>5. Homes'
    BY <1>3, <2>2, <2>3 DEF CreateHarvest, TypeOK, Homes, HomeIn, Known, knownVars
  <2> QED
    BY <1>3, <2>4, <2>5 DEF CreateHarvest, TypeOK, CopyInv, knownVars, history
<1>4. ASSUME NEW i \in Plantings, DeleteHarvest(i)
      PROVE  BaseInv'
  BY <1>4 DEF DeleteHarvest, TypeOK, Homes, CopyInv, knownVars, history
<1>5. ASSUME NEW t \in work, NEW n \in TaskType, Change(t, n)
      PROVE  BaseInv'
  BY <1>5 DEF Change, TypeOK, Homes, CopyInv, knownVars, Key, TaskType
<1>6. ASSUME NEW t \in work, NEW day \in Days, EditTask(t, day)
      PROVE  BaseInv'
  <2>1. [t EXCEPT !.from = day, !.to = day, !.edited = TRUE] \in TaskType
    BY DayAssumption DEF TypeOK, TaskType
  <2> QED
    BY <1>5, <1>6, <2>1 DEF EditTask
<1>7. ASSUME NEW t \in work, NEW s \in {"open", "done", "skipped"}, SetTask(t, s)
      PROVE  BaseInv'
  <2>1. [t EXCEPT !.status = s] \in TaskType
    BY DEF TypeOK, TaskType
  <2> QED
    BY <1>5, <1>7, <2>1 DEF SetTask
<1>8. ASSUME NEW t \in work, DeleteTask(t)
      PROVE  BaseInv'
  <2>1. [t EXCEPT !.suppressed = TRUE] \in TaskType
    BY DEF TypeOK, TaskType
  <2> QED
    BY <1>5, <1>8, <2>1 DEF DeleteTask
<1>9. ASSUME NEW c \in Chores, NEW y \in Years \cup {None}, CreateChore(c, y)
      PROVE  BaseInv'
  BY <1>9 DEF CreateChore, TypeOK, Homes, CopyInv, knownVars, history
<1>10. ASSUME NEW c \in Chores, NEW s \in {"open", "done", "skipped"}, SetChore(c, s)
      PROVE  BaseInv'
  BY <1>10 DEF SetChore, TypeOK, Homes, CopyInv, knownVars, history, Is
<1>11. ASSUME NEW c \in Chores, DeleteChore(c)
      PROVE  BaseInv'
  BY <1>11 DEF DeleteChore, TypeOK, Homes, CopyInv, knownVars, history
<1> QED
  BY <1>1, <1>2, <1>3, <1>4, <1>6, <1>7, <1>8, <1>9, <1>10, <1>11 DEF HandNext

\* A planting is planted.
Creating ==
  \E i \in Plantings, y \in Years \cup {None}, q \in Plants, v \in Varieties \cup {None}, b \in Beds \cup {None},
     F \in SUBSET Fields, planted \in Days \cup {None} :
    \E typed \in [F -> Days] : CreatePlanting(i, y, q, v, b, typed, planted)

LEMMA SeasonSteps ==
  ASSUME SeasonNext
  PROVE  \/ \E y \in Years, last, first \in Frosts : CreateSeason(y, last, first)
         \/ \E y, from \in Years, last, first \in Frosts : CopyBegins(y, from, last, first)
         \/ \E offset \in 0..1 : CopyBuilds(offset)
         \/ CopyCommits \/ CopyEnds
         \/ \E y \in Years, s \in {"planning", "active"}, last, first \in Frosts : UpdateSeason(y, s, last, first)
         \/ \E y \in Years : \E I \in SUBSET LiveIn(y) : \E yields \in SUBSET I :
              \E outcome \in [I -> {"done", "failed"}] : CloseSeason(y, outcome, yields)
         \/ \E y \in Years : ReopenSeason(y)
         \/ Creating
         \/ \E i \in Plantings : DeletePlanting(i)
<1> DEFINE Creates ==
      \E i \in Plantings, y \in Years \cup {None}, q \in Plants, v \in Varieties \cup {None}, b \in Beds \cup {None} :
        \E F \in {F \in SUBSET Fields : Cardinality(F) <= MaxTyped} : \E typed \in [F -> Days] :
          \E planted \in IF y = None THEN Days \cup {None} ELSE {None} : CreatePlanting(i, y, q, v, b, typed, planted)
<1>1. Creates => Creating
  <2> SUFFICES ASSUME Creates PROVE Creating
    OBVIOUS
  <2>1. PICK i \in Plantings, y \in Years \cup {None}, q \in Plants, v \in Varieties \cup {None}, b \in Beds \cup {None},
             F \in {F \in SUBSET Fields : Cardinality(F) <= MaxTyped} : \E typed \in [F -> Days] :
               \E planted \in IF y = None THEN Days \cup {None} ELSE {None} : CreatePlanting(i, y, q, v, b, typed, planted)
    OBVIOUS
  <2>2. PICK typed \in [F -> Days], planted \in Days \cup {None} : CreatePlanting(i, y, q, v, b, typed, planted)
    BY <2>1
  <2> QED
    BY <2>2, Zenon DEF Creating
<1> HIDE DEF Creates
<1> QED
  BY <1>1, Zenon DEF SeasonNext, Creates

LEMMA CopyCommitsDraws ==
  ASSUME BaseInv, CopyCommits
  PROVE  \E I, new : /\ Draws(I, new) /\ \A i \in I : plantings[i] = None /\ new[i].season = copy.year
<1> DEFINE from == {i \in Plantings : copy.copied[i] # None}
<1>1. PICK id \in [from -> {i \in Plantings : plantings[i] = None}] :
        LET I == {id[i] : i \in DOMAIN id}
        IN Replan(I, [n \in I |-> copy.copied[CHOOSE i \in DOMAIN id : id[i] = n]], plants, varieties, seasons')
  BY DEF CopyCommits
<1> DEFINE I == {id[i] : i \in DOMAIN id}
           new == [n \in I |-> copy.copied[CHOOSE i \in DOMAIN id : id[i] = n]]
<1>2. copy \in CopyType /\ seasons' = [seasons EXCEPT ![copy.year] = copy.season]
  BY DEF CopyCommits, BaseInv, TypeOK
<1>3. \A i \in from : copy.copied[i] \in PlantingType /\ copy.copied[i].season = copy.year
  BY <1>2 DEF CopyType, BaseInv, CopyInv, CopyCommits
<1>4. seasons'[copy.year] # None
  BY <1>2, NoneAssumption DEF CopyType, BaseInv, TypeOK
<1>5. \A n \in I : n \in Plantings /\ plantings[n] = None /\ \E i \in from : new[n] = copy.copied[i]
  OBVIOUS
<1> HIDE DEF I, new
<1>6. \A n \in I : new[n] \in PlantingType /\ new[n].season = copy.year /\ HomeIn(new[n], seasons')
  BY <1>3, <1>4, <1>5 DEF HomeIn
<1>7. Replan(I, new, plants', varieties', seasons')
  BY <1>1 DEF CopyCommits, knownVars, I, new
<1>8. Draws(I, new)
  BY <1>5, <1>6, <1>7 DEF Draws
<1> QED
  BY <1>5, <1>6, <1>8

LEMMA UpdateSeasonDraws ==
  ASSUME BaseInv, NEW y \in Years, NEW s, NEW last \in Frosts, NEW first \in Frosts,
         s \in {"planning", "active"}, UpdateSeason(y, s, last, first),
         <<last, first>> # <<seasons[y].lastFrost, seasons[y].firstFrost>>
  PROVE  \E new : /\ Draws(LiveIn(y), new)
                  /\ \A i \in LiveIn(y) : /\ new[i].season = y
                                          /\ \A f \in plantings[i].manual : new[i].dates[f] = plantings[i].dates[f]
<1> DEFINE I == LiveIn(y)
           new == [i \in I |-> Planned(plantings[i], Effective(plantings[i], plants, varieties), Anchors(y, seasons'))]
<1>1. seasons' = [seasons EXCEPT ![y] = Season(s, last, first)] /\ Season(s, last, first) \in SeasonType
  BY DayAssumption DEF UpdateSeason, Season, SeasonType
<1>2. seasons' \in SeasonTable /\ seasons'[y] # None
  BY <1>1, NoneAssumption DEF SeasonTable, BaseInv, TypeOK
<1>3. Anchors(y, seasons') \in AnchorType
  BY <1>2, AnchorsTyped
<1>4. ASSUME NEW i \in I
      PROVE  /\ new[i] \in PlantingType /\ new[i].season = y /\ HomeIn(new[i], seasons')
             /\ \A f \in plantings[i].manual : new[i].dates[f] = plantings[i].dates[f]
  <2>1. plantings[i] \in PlantingType /\ plantings[i].season = y /\ i \in Plantings /\ Known(plantings[i], plants, varieties)
    BY DEF LiveIn, BaseInv, TypeOK, Is, Homes
  <2>2. EffOK(Effective(plantings[i], plants, varieties))
    BY <2>1, EffectiveTyped DEF BaseInv, TypeOK, PlantTable, VarietyTable
  <2> QED
    BY <1>2, <1>3, <2>1, <2>2, PlannedTyped DEF HomeIn
<1>5. Replan(I, new, plants', varieties', seasons')
  BY DEF UpdateSeason, knownVars
<1>6. I \in SUBSET Plantings
  BY DEF LiveIn
<1> HIDE DEF new
<1> QED
  BY <1>4, <1>5, <1>6 DEF Draws

LEMMA CreatePlantingDraws ==
  ASSUME BaseInv, NEW i \in Plantings, NEW y \in Years \cup {None}, NEW q \in Plants, NEW v \in Varieties \cup {None},
         NEW b \in Beds \cup {None}, NEW F \in SUBSET Fields, NEW typed \in [F -> Days],
         NEW planted \in Days \cup {None}, CreatePlanting(i, y, q, v, b, typed, planted)
  PROVE  \E new : Draws({i}, new)
<1> DEFINE p == [season |-> y, plant |-> q, variety |-> v, bed |-> b, status |-> "planned",
                 manual |-> DOMAIN typed, drawn |-> {},
                 dates |-> [f \in Fields |-> IF f \in DOMAIN typed THEN typed[f] ELSE None],
                 actual |-> [f \in Actuals |-> IF f = "planted" THEN planted ELSE None]]
           a == IF y = None THEN NoAnchors ELSE Anchors(y, seasons)
           eff == Effective(p, plants, varieties)
           new == [n \in {i} |-> Planned(p, eff, a)]
<1>1. Days \cup {None} \subseteq Day
  BY DayAssumption DEF Day
<1>2. [f \in Fields |-> IF f \in DOMAIN typed THEN typed[f] ELSE None] \in [Fields -> Day]
  BY <1>1
<1>3. [f \in Actuals |-> IF f = "planted" THEN planted ELSE None] \in [Actuals -> Day]
  BY <1>1
<1>4. p \in PlantingType
  BY <1>2, <1>3 DEF PlantingType
<1>5. Known(p, plants, varieties) /\ SeasonTaken(y) /\ Replan({i}, new, plants, varieties, seasons)
  BY DEF CreatePlanting
<1>6. p.season = y
  OBVIOUS
<1> HIDE DEF p
<1>7. EffOK(eff)
  BY <1>4, <1>5, EffectiveTyped DEF BaseInv, TypeOK, PlantTable, VarietyTable
<1>8. a \in AnchorType
  BY <1>5, AnchorsTyped DEF SeasonTaken, BaseInv, TypeOK, SeasonTable, NoAnchors, AnchorType, Day
<1> HIDE DEF eff, a
<1>9. Planned(p, eff, a) \in PlantingType /\ Planned(p, eff, a).season = y
  BY <1>4, <1>6, <1>7, <1>8, PlannedTyped
<1>10. HomeIn(Planned(p, eff, a), seasons)
  BY <1>5, <1>9 DEF HomeIn, SeasonTaken
<1>11. Draws({i}, new)
  BY <1>5, <1>9, <1>10 DEF Draws, CreatePlanting, knownVars
<1> QED
  BY <1>11

LEMMA CopiedTyped ==
  ASSUME copy \in CopyType, NEW p \in PlantingType, NEW offset
  PROVE  Copied(p, offset) \in PlantingType /\ Copied(p, offset).season = copy.year
<1>1. Shifted(p.bed, offset) \in Beds \cup {None}
  <2> DEFINE to == {m \in BedsInUse : \E n \in BedsInUse :
                      BedOrder[n] = p.bed /\ Before(m) = (Before(n) + offset) % Cardinality(BedsInUse)}
  <2>1. to # {} => BedOrder[CHOOSE m \in to : TRUE] \in Beds
    BY DEF BedsInUse, Beds
  <2>2. Shifted(p.bed, offset) = IF p.bed = None \/ offset = 0 \/ to = {} THEN p.bed ELSE BedOrder[CHOOSE m \in to : TRUE]
    BY DEF Shifted
  <2> HIDE DEF to
  <2> QED
    BY <2>1, <2>2 DEF PlantingType
<1>2. [f \in Fields |-> None] \in [Fields -> Day] /\ [f \in Actuals |-> None] \in [Actuals -> Day]
  BY DEF Day
<1> QED
  BY <1>1, <1>2 DEF Copied, PlantingType, CopyType

LEMMA BaseSeason ==
  ASSUME BaseInv, SeasonNext
  PROVE  BaseInv'
<1> USE DEF BaseInv
<1>0. plants \in PlantTable /\ varieties \in VarietyTable /\ seasons \in SeasonTable /\ Frosts \subseteq Day
  BY DayAssumption DEF TypeOK, PlantTable, VarietyTable, SeasonTable
<1>1. ASSUME NEW y \in Years, NEW last \in Frosts, NEW first \in Frosts, CreateSeason(y, last, first)
      PROVE  BaseInv'
  <2>1. Season("planning", last, first) \in SeasonType
    BY <1>0 DEF Season, SeasonType
  <2>2. Homes'
    BY <1>1, <2>1, NoneAssumption DEF CreateSeason, TypeOK, Homes, HomeIn, Known, knownVars
  <2> QED
    BY <1>1, <2>1, <2>2 DEF CreateSeason, TypeOK, CopyInv, knownVars, history
<1>2. ASSUME NEW y \in Years, NEW from \in Years, NEW last \in Frosts, NEW first \in Frosts, CopyBegins(y, from, last, first)
      PROVE  BaseInv'
  <2> DEFINE old == seasons[y]
             planned == IF old = None THEN Season("planning", last, first)
                        ELSE Season(old.status, Or(last, old.lastFrost), Or(first, old.firstFrost))
             next == [year |-> y, from |-> from, reuse |-> old # None, built |-> FALSE,
                      copied |-> [i \in Plantings |-> None], season |-> planned]
  <2>1. planned \in SeasonType /\ planned.status # "closed"
    BY <1>0, <1>2 DEF CopyBegins, TypeOK, Season, SeasonType, Or
  <2>2. copy' = next
    BY <1>2 DEF CopyBegins
  <2> HIDE DEF planned
  <2>3. next \in CopyType /\ next.season.status # "closed" /\ \A i \in Plantings : next.copied[i] = None
    BY <2>1 DEF CopyType
  <2> HIDE DEF next
  <2> QED
    BY <1>2, <2>2, <2>3 DEF CopyBegins, TypeOK, Homes, CopyInv, knownVars, history
<1>3. ASSUME NEW offset, CopyBuilds(offset)
      PROVE  BaseInv'
  <2> DEFINE a == [year |-> copy.year, lastFrost |-> copy.season.lastFrost, firstFrost |-> copy.season.firstFrost]
             plan(i) == Planned(Copied(plantings[i], offset), Effective(plantings[i], plants, varieties), a)
             copied == [i \in Plantings |-> IF i \notin LiveIn(copy.from) THEN None ELSE plan(i)]
  <2>1. copy \in CopyType /\ copy # None /\ copy' = [copy EXCEPT !.built = TRUE, !.copied = copied]
    BY <1>3 DEF CopyBuilds, TypeOK
  <2>2. a \in AnchorType
    BY <2>1 DEF CopyType, SeasonType, AnchorType
  <2>3. ASSUME NEW i \in Plantings, i \in LiveIn(copy.from)
        PROVE  plan(i) \in PlantingType /\ plan(i).season = copy.year
    <3>1. plantings[i] \in PlantingType /\ Known(plantings[i], plants, varieties)
      BY <2>3 DEF LiveIn, TypeOK, Homes, Is
    <3>2. EffOK(Effective(plantings[i], plants, varieties))
      BY <1>0, <3>1, EffectiveTyped
    <3>3. Copied(plantings[i], offset) \in PlantingType /\ Copied(plantings[i], offset).season = copy.year
      BY <2>1, <3>1, CopiedTyped
    <3> QED
      BY <2>2, <3>2, <3>3, PlannedTyped
  <2> HIDE DEF plan
  <2>4. copied \in [Plantings -> PlantingType \cup {None}]
    BY <2>3
  <2>5. \A i \in Plantings : copied[i] # None => copied[i].season = copy.year
    BY <2>3
  <2> HIDE DEF copied
  <2>6. /\ copy' \in CopyType /\ copy'.copied = copied /\ copy'.year = copy.year /\ copy'.season = copy.season
    BY <2>1, <2>4 DEF CopyType
  <2>7. TypeOK'
    BY <1>3, <2>6 DEF CopyBuilds, TypeOK, knownVars, history
  <2>8. Homes' /\ CopyInv'
    BY <1>3, <2>1, <2>5, <2>6 DEF CopyBuilds, Homes, CopyInv, knownVars
  <2> QED
    BY <2>7, <2>8
<1>4. ASSUME CopyCommits
      PROVE  BaseInv'
  <2>1. PICK I, new : Draws(I, new) /\ \A i \in I : plantings[i] = None /\ new[i].season = copy.year
    BY <1>4, CopyCommitsDraws
  <2>2. copy \in CopyType /\ seasons' = [seasons EXCEPT ![copy.year] = copy.season] /\ plants' = plants /\ varieties' = varieties
    BY <1>4 DEF CopyCommits, TypeOK, knownVars
  <2>3. seasons' \in SeasonTable /\ \A y \in Years : seasons[y] # None => seasons'[y] # None
    BY <1>0, <2>2, NoneAssumption DEF CopyType, SeasonTable
  <2>4. \A i \in Plantings \ I : Is(plantings[i]) => Known(plantings[i], plants', varieties') /\ HomeIn(plantings[i], seasons')
    BY <2>2, <2>3 DEF Homes, HomeIn, TypeOK, Is, PlantingType
  <2>5. plantings' \in [Plantings -> PlantingType \cup {None, Gone}] /\ work' \subseteq TaskType /\ Homes'
    BY <1>0, <2>1, <2>2, <2>3, <2>4, DrawsTyped
  <2>6. TypeOK'
    BY <1>4, <2>2, <2>3, <2>5 DEF CopyCommits, TypeOK, knownVars, SeasonTable, CopyType
  <2> QED
    BY <1>4, <2>5, <2>6 DEF CopyCommits, CopyInv
<1>5. ASSUME CopyEnds
      PROVE  BaseInv'
  BY <1>5 DEF CopyEnds, TypeOK, Homes, CopyInv, knownVars, history
<1>6. ASSUME NEW y \in Years, NEW s \in {"planning", "active"}, NEW last \in Frosts, NEW first \in Frosts,
             UpdateSeason(y, s, last, first)
      PROVE  BaseInv'
  <2>1. seasons' = [seasons EXCEPT ![y] = Season(s, last, first)] /\ plants' = plants /\ varieties' = varieties
    BY <1>6 DEF UpdateSeason, knownVars
  <2>2. Season(s, last, first) \in SeasonType
    BY <1>0 DEF Season, SeasonType
  <2>3. seasons' \in SeasonTable /\ \A z \in Years : seasons[z] # None => seasons'[z] # None
    BY <1>0, <2>1, <2>2, NoneAssumption DEF SeasonTable
  <2>4. \A i \in Plantings : Is(plantings[i]) => Known(plantings[i], plants', varieties') /\ HomeIn(plantings[i], seasons')
    BY <2>1, <2>3 DEF Homes, HomeIn, TypeOK, Is, PlantingType
  <2>5. plantings' \in [Plantings -> PlantingType \cup {None, Gone}] /\ work' \subseteq TaskType /\ Homes'
    <3>1. CASE <<last, first>> = <<seasons[y].lastFrost, seasons[y].firstFrost>>
      BY <1>6, <2>4, <3>1 DEF UpdateSeason, TypeOK, Homes
    <3>2. CASE <<last, first>> # <<seasons[y].lastFrost, seasons[y].firstFrost>>
      BY <1>0, <1>6, <2>1, <2>3, <2>4, <3>2, UpdateSeasonDraws, DrawsTyped
    <3> QED
      BY <3>1, <3>2
  <2> QED
    BY <1>6, <2>1, <2>3, <2>5 DEF UpdateSeason, TypeOK, CopyInv, knownVars, history, SeasonTable
<1>7. ASSUME NEW y \in Years, NEW I \in SUBSET LiveIn(y), NEW yields \in SUBSET I, NEW outcome \in [I -> {"done", "failed"}],
             CloseSeason(y, outcome, yields)
      PROVE  BaseInv'
  <2> DEFINE left == {t \in work : Is(plantings[t.planting]) /\ plantings[t.planting].season = y
                                   /\ t.status = "open" /\ ~t.suppressed}
             ended(i) == [plantings[i] EXCEPT !.status = outcome[i]]
  <2>1. ASSUME NEW i \in I
        PROVE  /\ plantings[i] \in PlantingType /\ ended(i) \in PlantingType /\ ended(i).season = plantings[i].season
               /\ ended(i).plant = plantings[i].plant /\ ended(i).variety = plantings[i].variety /\ Is(plantings[i])
    <3>1. plantings[i] \in PlantingType /\ Is(plantings[i])
      BY DEF LiveIn, TypeOK, Is
    <3> QED
      BY <3>1 DEF PlantingType
  <2>2. plantings' = [i \in Plantings |-> IF i \in I THEN ended(i) ELSE plantings[i]]
    BY <1>7 DEF CloseSeason
  <2> HIDE DEF ended
  <2>3. plantings' \in [Plantings -> PlantingType \cup {None, Gone}]
    BY <2>1, <2>2 DEF TypeOK
  <2>4. \A t \in left : [t EXCEPT !.status = "skipped"] \in TaskType /\ Key(t) \in Plantings \X Kinds \X (0..11)
    BY DEF TypeOK, TaskType, Key
  <2>5. work' = (work \ left) \cup {[t EXCEPT !.status = "skipped"] : t \in left}
        /\ handled' = handled \cup {Key(t) : t \in left}
    BY <1>7 DEF CloseSeason
  <2> DEFINE skipped(t) == [t EXCEPT !.status = "skipped"]
  <2>6. work' \subseteq TaskType /\ handled' \subseteq Plantings \X Kinds \X (0..11)
    <3>1. work' = (work \ left) \cup {skipped(t) : t \in left}
      BY <2>5
    <3>2. \A t \in left : skipped(t) \in TaskType
      BY <2>4
    <3> HIDE DEF skipped, left
    <3>3. work' \subseteq TaskType
      BY <3>1, <3>2 DEF TypeOK
    <3>4. handled' = handled \cup {Key(t) : t \in left}
      BY <2>5
    <3>5. \A t \in left : Key(t) \in Plantings \X Kinds \X (0..11)
      BY <2>4
    <3>6. handled' \subseteq Plantings \X Kinds \X (0..11)
      BY <3>4, <3>5 DEF TypeOK
    <3> QED
      BY <3>3, <3>6
  <2>7. seasons' \in SeasonTable /\ \A z \in Years : seasons[z] # None => seasons'[z] # None
    <3>1. seasons[y] \in SeasonType /\ seasons' = [seasons EXCEPT ![y].status = "closed"]
      BY <1>7 DEF CloseSeason, TypeOK
    <3>2. [seasons[y] EXCEPT !.status = "closed"] \in SeasonType
      BY <3>1 DEF SeasonType
    <3> QED
      BY <1>0, <3>1, <3>2, NoneAssumption DEF SeasonTable
  <2>8. Homes'
    BY <1>7, <2>1, <2>2, <2>7 DEF CloseSeason, knownVars, Homes, HomeIn, Known, TypeOK, Is, PlantingType
  <2>9. picked' \in [Plantings -> Nat]
    BY <1>7 DEF CloseSeason, TypeOK
  <2>10. chores' \in [Chores -> [season : Years \cup {None}, status : {"open", "done", "skipped"}] \cup {None, Gone}]
    BY <1>7 DEF CloseSeason, TypeOK, Is
  <2>11. excused' \subseteq Years
    BY <1>7 DEF CloseSeason, TypeOK
  <2>12. TypeOK'
    BY <1>7, <2>3, <2>6, <2>7, <2>9, <2>10, <2>11 DEF CloseSeason, TypeOK, knownVars, SeasonTable
  <2> QED
    BY <1>7, <2>8, <2>12 DEF CloseSeason, CopyInv
<1>8. ASSUME NEW y \in Years, ReopenSeason(y)
      PROVE  BaseInv'
  <2>1. seasons[y] \in SeasonType /\ [seasons[y] EXCEPT !.status = "active"] \in SeasonType
    BY <1>8 DEF ReopenSeason, TypeOK, SeasonType
  <2>2. seasons' \in SeasonTable /\ \A z \in Years : seasons[z] # None => seasons'[z] # None
    BY <1>0, <1>8, <2>1, NoneAssumption DEF ReopenSeason, SeasonTable
  <2>3. Homes'
    BY <1>8, <2>2 DEF ReopenSeason, knownVars, Homes, HomeIn, Known, TypeOK, Is, PlantingType
  <2> QED
    BY <1>8, <2>2, <2>3 DEF ReopenSeason, TypeOK, CopyInv, knownVars, history, SeasonTable
<1>9. ASSUME NEW i \in Plantings, NEW y \in Years \cup {None}, NEW q \in Plants, NEW v \in Varieties \cup {None},
             NEW b \in Beds \cup {None}, NEW F \in SUBSET Fields, NEW typed \in [F -> Days],
             NEW planted \in Days \cup {None}, CreatePlanting(i, y, q, v, b, typed, planted)
      PROVE  BaseInv'
  <2>1. PICK new : Draws({i}, new)
    BY <1>9, CreatePlantingDraws
  <2>2. plants' = plants /\ varieties' = varieties /\ seasons' = seasons
    BY <1>9 DEF CreatePlanting, knownVars
  <2>3. plantings' \in [Plantings -> PlantingType \cup {None, Gone}] /\ work' \subseteq TaskType /\ Homes'
    BY <1>0, <2>1, <2>2, DrawsTyped DEF Homes
  <2> QED
    BY <1>9, <2>3 DEF CreatePlanting, TypeOK, CopyInv, knownVars, history
<1>10. ASSUME NEW i \in Plantings, DeletePlanting(i)
      PROVE  BaseInv'
  <2>1. plantings' = [plantings EXCEPT ![i] = Gone] /\ ~Is(Gone)
    BY <1>10 DEF DeletePlanting, Is
  <2>2. Homes'
    BY <1>10, <2>1 DEF DeletePlanting, TypeOK, Homes, knownVars
  <2> QED
    BY <1>10, <2>1, <2>2 DEF DeletePlanting, TypeOK, CopyInv, knownVars, history
<1>11. Creating => BaseInv'
  BY <1>9, Zenon DEF Creating
<1> HIDE DEF BaseInv
<1> QED
  BY <1>1, <1>2, <1>3, <1>4, <1>5, <1>6, <1>7, <1>8, <1>10, <1>11, SeasonSteps

----------------------------------------------------------------------------
(* The calendar says what the plan says. *)

\* No job is drawn up for a season that was closed since.
ClosedAreExcused == \A y \in Years : seasons[y] # None /\ ~Open(y) => y \in excused

\* What is not in a hand is the plan's, and there is one task to a job.
WorkInv ==
  /\ \A t \in work : plantings[t.planting] # None /\ (Key(t) \notin handled => Mutable(t))
  /\ \A t, u \in work : Key(t) = Key(u) => t = u

FollowedAt(i) ==
  /\ \A t \in work : t.planting = i /\ t.kind \notin {"process", "store"} /\ Key(t) \notin handled =>
       \E j \in Wanted(i) : t = Task(i, plantings[i], j)
  /\ \A j \in Wanted(i) : \/ Task(i, plantings[i], j) \in work
                          \/ \E u \in work : u.planting = i /\ Same(j, u) /\ Key(u) \in handled
Followed ==
  \A i \in Plantings : Is(plantings[i]) /\ VarietyFits(plantings[i]) /\ plantings[i].season \notin excused => FollowedAt(i)

PlanInv == BaseInv /\ ClosedAreExcused /\ WorkInv /\ Followed

LEMMA WantedKinds ==
  ASSUME NEW i
  PROVE  \A j \in Wanted(i) : j.kind \notin {"process", "store"}
BY DEF Wanted

LEMMA TaskIs ==
  ASSUME NEW i, NEW p, NEW j
  PROVE  LET t == Task(i, p, j)
         IN t.planting = i /\ t.kind = j.kind /\ t.index = j.index /\ Mutable(t)
BY DEF Task, Mutable

LEMMA FollowedMeans ==
  ASSUME TypeOK, WorkInv, Followed
  PROVE  PlanIsFollowed
<1> SUFFICES ASSUME NEW i \in Plantings, Is(plantings[i]), VarietyFits(plantings[i]), plantings[i].season \notin excused
             PROVE  LET mine == {t \in OfPlanting(i) : t.kind \notin {"process", "store"}}
                        wanted == {Task(i, plantings[i], j) : j \in Wanted(i)}
                        kept == {t \in mine : Key(t) \in handled}
                    IN /\ mine \ kept \subseteq wanted
                       /\ wanted \ mine \subseteq {t \in wanted : \E u \in kept : Same(t, u)}
                       /\ \A t, u \in mine : Key(t) = Key(u) => t = u
  BY DEF PlanIsFollowed
<1> DEFINE mine == {t \in OfPlanting(i) : t.kind \notin {"process", "store"}}
           wanted == {Task(i, plantings[i], j) : j \in Wanted(i)}
           kept == {t \in mine : Key(t) \in handled}
<1>1. FollowedAt(i)
  BY DEF Followed
<1>2. \A t : t \in mine <=> t \in work /\ t.planting = i /\ t.kind \notin {"process", "store"}
  BY DEF OfPlanting
<1> HIDE DEF mine
<1>3. mine \ kept \subseteq wanted
  BY <1>1, <1>2 DEF FollowedAt
<1>4. ASSUME NEW t \in wanted, t \notin mine
      PROVE  \E u \in kept : Same(t, u)
  <2>1. PICK j \in Wanted(i) : t = Task(i, plantings[i], j)
    OBVIOUS
  <2>2. t \notin work
    BY <1>2, <1>4, <2>1, WantedKinds, TaskIs
  <2>3. PICK u \in work : u.planting = i /\ Same(j, u) /\ Key(u) \in handled
    BY <1>1, <2>1, <2>2 DEF FollowedAt
  <2> QED
    BY <1>2, <2>1, <2>3, WantedKinds, TaskIs DEF Same
<1>5. \A t, u \in mine : Key(t) = Key(u) => t = u
  BY <1>2 DEF WorkInv
<1> QED
  BY <1>3, <1>4, <1>5 DEF mine

----------------------------------------------------------------------------
(* What is wanted, and when it stays the same. *)

AsDrawn(p) == [p EXCEPT !.manual = p.drawn]
FitsIn(p, V) == p.variety # None => V[p.variety].plant = p.plant

LEMMA EffectiveAlike ==
  ASSUME NEW p, NEW n, p.plant = n.plant, p.variety = n.variety, NEW P, NEW V
  PROVE  Effective(p, P, V) = Effective(n, P, V)
BY DEF Effective

LEMMA AnchorsAlike ==
  ASSUME NEW p, NEW n, p.season = n.season, p.actual["planted"] = n.actual["planted"], NEW S
  PROVE  AnchorsOf(p, S) = AnchorsOf(n, S)
BY DEF AnchorsOf

LEMMA WantedIs ==
  ASSUME NEW i, NEW p \in PlantingType, plantings[i] = p
  PROVE  Wanted(i) = Timely(Jobs(AsDrawn(p), Effective(p, plants, varieties), AnchorsOf(p, seasons)))
<1>1. AsDrawn(p).plant = p.plant /\ AsDrawn(p).variety = p.variety /\ AsDrawn(p).season = p.season
      /\ AsDrawn(p).actual = p.actual
  BY DEF AsDrawn, PlantingType
<1>2. Effective(AsDrawn(p), plants, varieties) = Effective(p, plants, varieties)
  BY <1>1, EffectiveAlike
<1>3. AnchorsOf(AsDrawn(p), seasons) = AnchorsOf(p, seasons)
  BY <1>1, AnchorsAlike
<1>4. Wanted(i) = Timely(Jobs(AsDrawn(p), Effective(AsDrawn(p), plants, varieties), AnchorsOf(AsDrawn(p), seasons)))
  BY DEF Wanted, Timely, AsDrawn
<1> QED
  BY <1>2, <1>3, <1>4

LEMMA WantedIsNext ==
  ASSUME NEW i, NEW p \in PlantingType, plantings'[i] = p
  PROVE  Wanted(i)' = Timely(Jobs(AsDrawn(p), Effective(p, plants', varieties'), AnchorsOf(p, seasons')))
<1>1. AsDrawn(p).plant = p.plant /\ AsDrawn(p).variety = p.variety /\ AsDrawn(p).season = p.season
      /\ AsDrawn(p).actual = p.actual
  BY DEF AsDrawn, PlantingType
<1>2. Effective(AsDrawn(p), plants', varieties') = Effective(p, plants', varieties')
  BY <1>1, EffectiveAlike
<1>3. AnchorsOf(AsDrawn(p), seasons') = AnchorsOf(p, seasons')
  BY <1>1, AnchorsAlike
<1>4. Wanted(i)' = Timely(Jobs(AsDrawn(p), Effective(AsDrawn(p), plants', varieties'), AnchorsOf(AsDrawn(p), seasons')))
  BY DEF Wanted, Timely, AsDrawn
<1> QED
  BY <1>2, <1>3, <1>4

\* What derive and the callers of regeneratePlanting read of a planting.
SamePlan(p, n) ==
  /\ p.season = n.season /\ p.plant = n.plant /\ p.variety = n.variety /\ p.bed = n.bed
  /\ p.dates = n.dates /\ p.drawn = n.drawn
  /\ \A f \in Actuals \ {"firstHarvest"} : p.actual[f] = n.actual[f]

LEMMA WantedSteady ==
  ASSUME NEW i, NEW p \in PlantingType, NEW n \in PlantingType, plantings[i] = p, plantings'[i] = n, SamePlan(p, n),
         \A f \in TimingFields : Effective(p, plants, varieties)[f] = Effective(p, plants', varieties')[f],
         AnchorsOf(p, seasons) = AnchorsOf(p, seasons')
  PROVE  Wanted(i)' = Wanted(i)
<1>1. Alike(AsDrawn(p), AsDrawn(n))
  BY DEF SamePlan, Alike, AsDrawn, PlantingType
<1>2. Effective(n, plants', varieties') = Effective(p, plants', varieties')
  BY EffectiveAlike DEF SamePlan
<1>3. AnchorsOf(n, seasons') = AnchorsOf(p, seasons')
  BY AnchorsAlike DEF SamePlan, Actuals
<1>4. Wanted(i) = Timely(Jobs(AsDrawn(p), Effective(p, plants, varieties), AnchorsOf(p, seasons)))
  BY WantedIs
<1>5. Wanted(i)' = Timely(Jobs(AsDrawn(n), Effective(p, plants', varieties'), AnchorsOf(p, seasons)))
  BY <1>2, <1>3, WantedIsNext
<1>6. Timely(Jobs(AsDrawn(p), Effective(p, plants, varieties), AnchorsOf(p, seasons)))
        = Timely(Jobs(AsDrawn(p), Effective(p, plants', varieties'), AnchorsOf(p, seasons)))
  BY TimelyJobs
<1>7. Jobs(AsDrawn(p), Effective(p, plants', varieties'), AnchorsOf(p, seasons))
        = Jobs(AsDrawn(n), Effective(p, plants', varieties'), AnchorsOf(p, seasons))
  BY <1>1, JobsOfAlike
<1> QED
  BY <1>4, <1>5, <1>6, <1>7

\* What is drawn up is what is wanted then.
LEMMA WantedDrawn ==
  ASSUME NEW I, NEW new, Draws(I, new), NEW i \in I
  PROVE  /\ plantings'[i] \in PlantingType /\ plantings'[i].bed = new[i].bed
         /\ Wanted(i)' = Timely(Jobs(new[i], Effective(new[i], plants', varieties'), AnchorsOf(new[i], seasons')))
<1> DEFINE n == new[i]
           m == [n EXCEPT !.drawn = n.manual]
<1>1. n \in PlantingType /\ plantings'[i] = m
  BY DEF Draws, Replan
<1>2. /\ m \in PlantingType /\ m.plant = n.plant /\ m.variety = n.variety /\ m.season = n.season /\ m.bed = n.bed
      /\ m.actual = n.actual /\ Alike(AsDrawn(m), n)
  BY <1>1 DEF PlantingType, AsDrawn, Alike
<1> HIDE DEF m, n
<1>3. Wanted(i)' = Timely(Jobs(AsDrawn(m), Effective(m, plants', varieties'), AnchorsOf(m, seasons')))
  BY <1>1, <1>2, WantedIsNext
<1>4. Effective(m, plants', varieties') = Effective(n, plants', varieties') /\ AnchorsOf(m, seasons') = AnchorsOf(n, seasons')
  BY <1>2, EffectiveAlike, AnchorsAlike
<1>5. Jobs(AsDrawn(m), Effective(n, plants', varieties'), AnchorsOf(n, seasons'))
        = Jobs(n, Effective(n, plants', varieties'), AnchorsOf(n, seasons'))
  BY <1>2, JobsOfAlike
<1> QED
  BY <1>1, <1>2, <1>3, <1>4, <1>5 DEF n

----------------------------------------------------------------------------
(* The work of what is drawn up, and of what is left alone. *)

DrawnTo(new, i) == Regenerated(i, new[i], Effective(new[i], plants', varieties'), AnchorsOf(new[i], seasons'))
JobsOf(new, i) == Jobs(new[i], Effective(new[i], plants', varieties'), AnchorsOf(new[i], seasons'))

\* Of planting i there is what no plan may change, and a task for each job without one.
LEMMA DrawsWork ==
  ASSUME NEW I, NEW new, Draws(I, new)
  PROVE  /\ \A t : t.planting \notin I => (t \in work' <=> t \in work)
         /\ \A i \in I : \A t : t.planting = i =>
              (t \in work' <=> \/ t \in work /\ ~Mutable(t)
                               \/ \E j \in JobsOf(new, i) : /\ t = Task(i, new[i], j)
                                                           /\ \A u \in OfPlanting(i) : ~Same(u, j) \/ Mutable(u))
<1>1. work' = {t \in work : t.planting \notin I} \cup UNION {DrawnTo(new, i) : i \in I}
  BY DEF Draws, Replan, DrawnTo
<1>2. ASSUME NEW i
      PROVE  DrawnTo(new, i) = {t \in OfPlanting(i) : ~Mutable(t)}
               \cup {Task(i, new[i], j) : j \in {k \in JobsOf(new, i) : \A u \in OfPlanting(i) : ~Same(u, k) \/ Mutable(u)}}
  BY DEF DrawnTo, JobsOf, Regenerated
<1>3. ASSUME NEW i, NEW t \in DrawnTo(new, i)
      PROVE  t.planting = i
  BY <1>2, <1>3, TaskIs DEF OfPlanting
<1>4. \A t : t.planting \notin I => (t \in work' <=> t \in work)
  BY <1>1, <1>3
<1>5. ASSUME NEW i \in I, NEW t, t.planting = i
      PROVE  t \in work' <=> \/ t \in work /\ ~Mutable(t)
                             \/ \E j \in JobsOf(new, i) : /\ t = Task(i, new[i], j)
                                                         /\ \A u \in OfPlanting(i) : ~Same(u, j) \/ Mutable(u)
  <2>1. t \in work' <=> t \in DrawnTo(new, i)
    BY <1>1, <1>3, <1>5
  <2>2. t \in OfPlanting(i) <=> t \in work
    BY <1>5 DEF OfPlanting
  <2> QED
    BY <1>2, <2>1, <2>2
<1> QED
  BY <1>4, <1>5

LEMMA DrawsWorkInv ==
  ASSUME BaseInv, WorkInv, NEW I, NEW new, Draws(I, new), handled' = handled
  PROVE  WorkInv'
<1>1. \A i \in I : plantings'[i] # None
  BY WantedDrawn, NoneAssumption
<1>2. \A i \in Plantings \ I : plantings'[i] = plantings[i]
  BY DEF Draws, Replan
<1>3. ASSUME NEW t \in work', t.planting \in I
      PROVE  \/ t \in work /\ ~Mutable(t)
             \/ \E j \in JobsOf(new, t.planting) : /\ t = Task(t.planting, new[t.planting], j)
                                                  /\ \A u \in OfPlanting(t.planting) : ~Same(u, j) \/ Mutable(u)
  BY <1>3, DrawsWork
<1>4. ASSUME NEW t \in work', t.planting \notin I
      PROVE  t \in work
  BY <1>4, DrawsWork
<1>5. ASSUME NEW t \in work'
      PROVE  plantings'[t.planting] # None /\ (Key(t)' \notin handled' => Mutable(t)')
  <2>1. CASE t \in work
    <3>1. t.planting \in Plantings
      BY <2>1 DEF BaseInv, TypeOK, TaskType
    <3> QED
      BY <1>1, <1>2, <2>1, <3>1 DEF WorkInv, Key, Mutable
  <2>2. CASE t \notin work
    BY <1>1, <1>3, <1>4, <1>5, <2>2, TaskIs DEF Mutable
  <2> QED
    BY <2>1, <2>2
<1>6. ASSUME NEW t \in work', NEW u \in work', Key(t) = Key(u), t \notin work
      PROVE  t = u
  <2>1. t.planting = u.planting /\ Same(t, u) /\ t.planting \in I
    BY <1>4, <1>6 DEF Key, Same
  <2>2. PICK j \in JobsOf(new, t.planting) : t = Task(t.planting, new[t.planting], j)
          /\ \A w \in OfPlanting(t.planting) : ~Same(w, j) \/ Mutable(w)
    BY <1>3, <1>6, <2>1
  <2>3. u \in OfPlanting(t.planting) => Mutable(u)
    BY <2>1, <2>2, TaskIs DEF Same
  <2>4. PICK k \in JobsOf(new, t.planting) : u = Task(t.planting, new[t.planting], k)
    BY <1>3, <2>1, <2>3 DEF OfPlanting
  <2>5. Same(j, k)
    BY <2>1, <2>2, <2>4, TaskIs DEF Same
  <2>6. j = k
    BY <2>5, JobsUnique DEF JobsOf
  <2> QED
    BY <2>2, <2>4, <2>6
<1>7. ASSUME NEW t \in work', NEW u \in work', Key(t) = Key(u)
      PROVE  t = u
  BY <1>6, <1>7 DEF WorkInv
<1> QED
  BY <1>5, <1>7 DEF WorkInv, Key

LEMMA DrawnFollows ==
  ASSUME BaseInv, WorkInv, NEW I, NEW new, Draws(I, new), handled' = handled, NEW i \in I
  PROVE  FollowedAt(i)'
<1>1. plantings'[i].bed = new[i].bed /\ Wanted(i)' = Timely(JobsOf(new, i))
  BY WantedDrawn DEF JobsOf
<1>2. \A j : Task(i, plantings'[i], j) = Task(i, new[i], j)
  BY <1>1 DEF Task
<1>3. \A t : t.planting = i =>
        (t \in work' <=> \/ t \in work /\ ~Mutable(t)
                         \/ \E j \in JobsOf(new, i) : /\ t = Task(i, new[i], j)
                                                     /\ \A u \in OfPlanting(i) : ~Same(u, j) \/ Mutable(u))
  BY DrawsWork
<1>4. ASSUME NEW t \in work', t.planting = i, t.kind \notin {"process", "store"}, Key(t) \notin handled
      PROVE  \E j \in Wanted(i)' : t = Task(i, plantings'[i], j)
  <2>1. t \in work => Mutable(t)
    BY <1>4 DEF WorkInv
  <2>2. PICK j \in JobsOf(new, i) : t = Task(i, new[i], j)
    BY <1>3, <1>4, <2>1
  <2>3. j \in Timely(JobsOf(new, i))
    BY <1>4, <2>2, TaskIs DEF Timely
  <2> QED
    BY <1>1, <1>2, <2>2, <2>3
<1>5. ASSUME NEW j \in Wanted(i)', Task(i, plantings'[i], j) \notin work'
      PROVE  \E u \in work' : u.planting = i /\ Same(j, u) /\ Key(u) \in handled
  <2>1. j \in JobsOf(new, i)
    BY <1>1 DEF Timely
  <2>2. Task(i, new[i], j).planting = i /\ Task(i, new[i], j) \notin work'
    BY <1>2, <1>5, TaskIs
  <2>3. PICK u \in OfPlanting(i) : Same(u, j) /\ ~Mutable(u)
    BY <1>3, <2>1, <2>2
  <2>4. u \in work /\ u.planting = i /\ u \in work'
    BY <1>3, <2>3 DEF OfPlanting
  <2> QED
    BY <2>3, <2>4 DEF WorkInv, Same
<1> QED
  BY <1>4, <1>5 DEF FollowedAt, Key, Same, Task

\* Nothing of planting i changes but by hands.
Untouched(i) ==
  /\ handled \subseteq handled'
  /\ \A t \in work' : t.planting = i => t \in work \/ Key(t) \in handled'
  /\ \A t \in work : t.planting = i => \/ t \in work'
                                       \/ \E u \in work' : u.planting = i /\ Same(t, u) /\ Key(u) \in handled'

LEMMA SteadyFollows ==
  ASSUME NEW i, FollowedAt(i), Untouched(i), plantings'[i].bed = plantings[i].bed, Wanted(i)' = Wanted(i)
  PROVE  FollowedAt(i)'
<1>1. \A j : Task(i, plantings'[i], j) = Task(i, plantings[i], j)
  BY DEF Task
<1>2. ASSUME NEW t \in work', t.planting = i, t.kind \notin {"process", "store"}, Key(t) \notin handled'
      PROVE  \E j \in Wanted(i)' : t = Task(i, plantings'[i], j)
  BY <1>1, <1>2 DEF Untouched, FollowedAt
<1>3. ASSUME NEW j \in Wanted(i)', Task(i, plantings'[i], j) \notin work'
      PROVE  \E u \in work' : u.planting = i /\ Same(j, u) /\ Key(u) \in handled'
  <2> DEFINE t == Task(i, plantings[i], j)
  <2>1. CASE t \in work
    <3>1. PICK u \in work' : u.planting = i /\ Same(t, u) /\ Key(u) \in handled'
      BY <1>1, <1>3, <2>1, TaskIs DEF Untouched
    <3> QED
      BY <3>1, TaskIs DEF Same
  <2>2. CASE t \notin work
    <3>1. PICK u \in work : u.planting = i /\ Same(j, u) /\ Key(u) \in handled
      BY <1>3, <2>2 DEF FollowedAt
    <3>2. CASE u \in work'
      BY <3>1, <3>2 DEF Untouched
    <3>3. CASE u \notin work'
      BY <3>1, <3>3 DEF Untouched, Same
    <3> QED
      BY <3>2, <3>3
  <2> QED
    BY <2>1, <2>2
<1> QED
  BY <1>2, <1>3 DEF FollowedAt, Key, Same, Task

LEMMA DrawsKeepPlan ==
  ASSUME BaseInv, WorkInv, Followed, NEW I, NEW new, Draws(I, new), handled' = handled, excused \subseteq excused',
         \A i \in Plantings \ I :
           LET p == plantings[i]
           IN Is(p) /\ FitsIn(p, varieties') /\ p.season \notin excused' =>
                FitsIn(p, varieties) /\ Wanted(i)' = Wanted(i)
  PROVE  WorkInv' /\ Followed'
<1>1. WorkInv'
  BY DrawsWorkInv
<1>2. ASSUME NEW i \in Plantings \ I, Is(plantings'[i]), VarietyFits(plantings[i])', plantings'[i].season \notin excused'
      PROVE  FollowedAt(i)'
  <2>1. plantings'[i] = plantings[i]
    BY DEF Draws, Replan
  <2>2. VarietyFits(plantings[i]) /\ Wanted(i)' = Wanted(i)
    BY <1>2, <2>1 DEF VarietyFits, FitsIn
  <2>3. FollowedAt(i)
    BY <1>2, <2>1, <2>2 DEF Followed
  <2>4. Untouched(i)
    BY DrawsWork DEF Untouched
  <2> QED
    BY <2>1, <2>2, <2>3, <2>4, SteadyFollows
<1>3. \A i \in I : FollowedAt(i)'
  BY DrawnFollows
<1> QED
  BY <1>1, <1>2, <1>3 DEF Followed

LEMMA SteadyKeepsPlan ==
  ASSUME Followed, excused \subseteq excused',
         \A i \in Plantings :
           LET p == plantings[i]
               n == plantings'[i]
           IN Is(n) /\ FitsIn(n, varieties') /\ n.season \notin excused' =>
                /\ Is(p) /\ FitsIn(p, varieties) /\ n.season = p.season /\ n.bed = p.bed
                /\ Wanted(i)' = Wanted(i) /\ Untouched(i)
  PROVE  Followed'
<1> SUFFICES ASSUME NEW i \in Plantings, Is(plantings'[i]), VarietyFits(plantings[i])', plantings'[i].season \notin excused'
             PROVE  FollowedAt(i)'
  BY DEF Followed
<1>1. /\ Is(plantings[i]) /\ VarietyFits(plantings[i]) /\ plantings'[i].season = plantings[i].season
      /\ plantings'[i].bed = plantings[i].bed /\ Wanted(i)' = Wanted(i) /\ Untouched(i)
  BY DEF VarietyFits, FitsIn
<1>2. FollowedAt(i)
  BY <1>1 DEF Followed
<1> QED
  BY <1>1, <1>2, SteadyFollows

\* Hands put other tasks in the place of some, and are remembered.
LEMMA HandsKeepWork ==
  ASSUME WorkInv, NEW moved \in SUBSET work, NEW to, \A t \in moved : Key(to[t]) = Key(t),
         work' = (work \ moved) \cup {to[t] : t \in moved}, handled' = handled \cup {Key(t) : t \in moved},
         \A t \in work : plantings[t.planting] # None => plantings'[t.planting] # None
  PROVE  WorkInv' /\ \A i : Untouched(i)
<1>1. \A t \in moved : Key(t) \in handled' /\ to[t].planting = t.planting /\ Same(t, to[t]) /\ to[t] \in work'
  BY DEF Key, Same
<1>2. \A t \in work' : t \in work \/ \E u \in moved : t = to[u] /\ Key(t) = Key(u)
  OBVIOUS
<1>3. ASSUME NEW t \in work'
      PROVE  plantings'[t.planting] # None /\ (Key(t) \notin handled' => Mutable(t))
  BY <1>1, <1>2 DEF WorkInv
<1>4. ASSUME NEW t \in work', NEW u \in work', Key(t) = Key(u)
      PROVE  t = u
  BY <1>2, <1>4 DEF WorkInv
<1>5. ASSUME NEW i
      PROVE  Untouched(i)
  BY <1>1, <1>2 DEF Untouched
<1> QED
  BY <1>3, <1>4, <1>5 DEF WorkInv, Key, Mutable

\* A planting that stays, with the crop, the variety and the frosts it is planned by.
LEMMA WantedUnmoved ==
  ASSUME BaseInv, NEW i \in Plantings, NEW p, p = plantings[i], Is(p), plantings'[i] = p,
         \A f \in TimingFields : Effective(p, plants, varieties)[f] = Effective(p, plants', varieties')[f],
         p.season # None => /\ seasons'[p.season].lastFrost = seasons[p.season].lastFrost
                            /\ seasons'[p.season].firstFrost = seasons[p.season].firstFrost
  PROVE  Wanted(i)' = Wanted(i)
<1>1. p \in PlantingType
  BY DEF BaseInv, TypeOK, Is
<1>2. AnchorsOf(p, seasons) = AnchorsOf(p, seasons')
  BY DEF AnchorsOf, Anchors
<1>3. SamePlan(p, p)
  BY DEF SamePlan
<1> QED
  BY <1>1, <1>2, <1>3, WantedSteady

planVars == <<plants, varieties, seasons, plantings, work, history>>

LEMMA PlanIdle ==
  ASSUME PlanInv, UNCHANGED planVars
  PROVE  ClosedAreExcused' /\ WorkInv' /\ Followed'
<1>1. \A i : Wanted(i)' = Wanted(i)
  BY DEF planVars, Wanted
<1>2. \A i : FollowedAt(i)' <=> FollowedAt(i)
  BY <1>1 DEF planVars, history, FollowedAt, Key, Same, Task
<1>3. Followed'
  BY <1>2 DEF planVars, history, PlanInv, Followed, VarietyFits
<1>4. ClosedAreExcused'
  BY DEF planVars, history, PlanInv, ClosedAreExcused, Open
<1>5. WorkInv'
  BY DEF planVars, history, PlanInv, WorkInv, Key, Mutable
<1> QED
  BY <1>3, <1>4, <1>5

\* The work stays as it is.
LEMMA QuietWork ==
  ASSUME WorkInv, work' = work, handled' = handled,
         \A i \in Plantings : plantings[i] # None => plantings'[i] # None, work \subseteq TaskType
  PROVE  WorkInv' /\ \A i : Untouched(i)
<1>1. \A t \in work : t.planting \in Plantings
  BY DEF TaskType
<1> QED
  BY <1>1 DEF WorkInv, Untouched, Key, Mutable

LEMMA PlanKnown ==
  ASSUME PlanInv, KnownNext
  PROVE  PlanInv'
<1>1. BaseInv /\ BaseInv' /\ ClosedAreExcused /\ WorkInv /\ Followed /\ TypeOK
  BY BaseKnown DEF PlanInv, BaseInv
<1>2. \A i \in Plantings : Is(plantings[i]) => plantings[i] \in PlantingType /\ Known(plantings[i], plants, varieties)
  BY <1>1 DEF BaseInv, TypeOK, Homes, Is
<1>3. ASSUME UNCHANGED <<seasons, history>>
      PROVE  ClosedAreExcused'
  BY <1>1, <1>3 DEF ClosedAreExcused, Open, history
\* Of a planting that is not drawn up, the timing is the same.
<1>4. ASSUME UNCHANGED <<seasons, plantings, work, history>>,
             \A i \in Plantings : LET p == plantings[i]
                                  IN Is(p) /\ FitsIn(p, varieties') =>
                                       /\ FitsIn(p, varieties)
                                       /\ \A f \in TimingFields :
                                            Effective(p, plants, varieties)[f] = Effective(p, plants', varieties')[f]
      PROVE  PlanInv'
  <2>1. WorkInv' /\ \A i : Untouched(i)
    BY <1>1, <1>4, QuietWork DEF TypeOK, history
  <2>2. \A i \in Plantings : Is(plantings[i]) /\ FitsIn(plantings[i], varieties') => Wanted(i)' = Wanted(i)
    BY <1>1, <1>4, WantedUnmoved
  <2>3. Followed'
    BY <1>1, <1>4, <2>1, <2>2, SteadyKeepsPlan DEF history
  <2> QED
    BY <1>1, <1>3, <1>4, <2>1, <2>3 DEF PlanInv
<1>5. ASSUME NEW q \in Plants, UNCHANGED <<seasons, history>>, RegenerateForPlant(q, plants', varieties'),
             \A i \in Plantings : LET p == plantings[i]
                                  IN Is(p) /\ FitsIn(p, varieties') =>
                                       /\ FitsIn(p, varieties)
                                       /\ p.plant # q => Effective(p, plants, varieties) = Effective(p, plants', varieties')
      PROVE  PlanInv'
  <2>1. plants' \in PlantTable /\ varieties' \in VarietyTable
    BY <1>1 DEF BaseInv, TypeOK, PlantTable, VarietyTable
  <2>2. PICK new : Draws(UsersOf(q), new)
    BY <1>1, <1>5, <2>1, RegenerateDraws
  <2>3. ASSUME NEW i \in Plantings \ UsersOf(q), Is(plantings[i]), FitsIn(plantings[i], varieties'),
               plantings[i].season \notin excused
        PROVE  FitsIn(plantings[i], varieties) /\ Wanted(i)' = Wanted(i)
    <3>1. Open(plantings[i].season)
      BY <1>1, <1>2, <2>3 DEF ClosedAreExcused, Open, PlantingType, BaseInv, Homes, HomeIn
    <3>2. plantings[i].plant # q
      BY <2>3, <3>1 DEF UsersOf
    <3>3. plantings'[i] = plantings[i]
      BY <2>2, <2>3 DEF Draws, Replan
    <3> QED
      BY <1>1, <1>5, <2>3, <3>2, <3>3, WantedUnmoved
  <2>4. WorkInv' /\ Followed'
    BY <1>1, <1>5, <2>2, <2>3, DrawsKeepPlan DEF history
  <2> QED
    BY <1>1, <1>3, <1>5, <2>4 DEF PlanInv
<1>6. ASSUME NEW q \in Plants, NEW c \in Cores, CreatePlant(q, c)
      PROVE  PlanInv'
  <2>1. \A i \in Plantings : Is(plantings[i]) => plants'[plantings[i].plant] = plants[plantings[i].plant]
    BY <1>1, <1>2, <1>6 DEF CreatePlant, Known, Is, TypeOK, PlantingType
  <2> QED
    BY <1>4, <1>6, <2>1 DEF CreatePlant, Effective
<1>7. ASSUME NEW q \in Plants, NEW c \in Cores, UpdatePlant(q, c)
      PROVE  PlanInv'
  <2>1. plants' = [plants EXCEPT ![q] = c] /\ varieties' = varieties /\ plants[q] \in Cores
    BY <1>1, <1>7 DEF UpdatePlant, TypeOK, Is
  <2>2. \A i \in Plantings : Is(plantings[i]) /\ plantings[i].plant # q =>
          Effective(plantings[i], plants, varieties) = Effective(plantings[i], plants', varieties')
    BY <1>1, <1>2, <2>1 DEF Effective, TypeOK, PlantingType
  <2>3. CASE TimingChanged(plants[q], c)
    BY <1>5, <1>7, <2>1, <2>2, <2>3 DEF UpdatePlant
  <2>4. CASE ~TimingChanged(plants[q], c)
    <3>1. \A f \in TimingFields : Core[plants[q]][f] = Core[c][f]
      BY <2>4 DEF TimingChanged
    <3>2. ASSUME NEW i \in Plantings, Is(plantings[i]), plantings[i].plant = q
          PROVE  \A f \in TimingFields : Effective(plantings[i], plants, varieties)[f] = Effective(plantings[i], plants', varieties')[f]
      <4> DEFINE p == plantings[i]
      <4>1. plants'[p.plant] = c /\ p.plant = q
        BY <1>1, <2>1, <3>2 DEF TypeOK
      <4>2. p.variety # None => varieties[p.variety].core \in Cores
        BY <1>1, <1>2, <3>2, KnownTyped DEF TypeOK, PlantTable, VarietyTable, VarietyType
      <4> QED
        BY <2>1, <3>1, <4>1, <4>2, EffectiveTiming DEF Effective
    <3> QED
      BY <1>4, <1>7, <2>1, <2>2, <2>4, <3>2 DEF UpdatePlant
  <2> QED
    BY <2>3, <2>4
<1>8. ASSUME NEW q \in Plants, DeletePlant(q)
      PROVE  PlanInv'
  <2>1. \A i \in Plantings : Is(plantings[i]) => plants'[plantings[i].plant] = plants[plantings[i].plant]
    BY <1>1, <1>2, <1>8 DEF DeletePlant, TypeOK, PlantingType
  <2> QED
    BY <1>4, <1>8, <2>1 DEF DeletePlant, Effective
<1>9. ASSUME NEW v \in Varieties, NEW q \in Plants, NEW c \in Cores, CreateVariety(v, q, c)
      PROVE  PlanInv'
  <2>1. \A i \in Plantings : Is(plantings[i]) /\ plantings[i].variety # None =>
          varieties'[plantings[i].variety] = varieties[plantings[i].variety]
    BY <1>1, <1>2, <1>9 DEF CreateVariety, Known, Is, TypeOK, PlantingType
  <2> QED
    BY <1>4, <1>9, <2>1 DEF CreateVariety, Effective, FitsIn
<1>10. ASSUME NEW v \in Varieties, NEW c \in Cores, UpdateVariety(v, c)
      PROVE  PlanInv'
  <2> DEFINE q == varieties[v].plant
  <2>1. /\ varieties[v] \in VarietyType /\ varieties' = [varieties EXCEPT ![v] = [varieties[v] EXCEPT !.core = c]]
        /\ plants' = plants /\ q \in Plants
    BY <1>1, <1>10 DEF UpdateVariety, TypeOK, Is, VarietyType
  <2>2. varieties'[v].core = c /\ varieties'[v].plant = q /\ \A w \in Varieties \ {v} : varieties'[w] = varieties[w]
    BY <1>1, <2>1 DEF TypeOK, VarietyType
  <2>3. \A i \in Plantings : Is(plantings[i]) /\ FitsIn(plantings[i], varieties') => FitsIn(plantings[i], varieties)
    BY <1>2, <2>2 DEF FitsIn, PlantingType
  <2>4. \A i \in Plantings : Is(plantings[i]) /\ plantings[i].variety # v =>
          Effective(plantings[i], plants, varieties) = Effective(plantings[i], plants', varieties')
    BY <1>2, <2>1, <2>2 DEF Effective, PlantingType
  <2>5. CASE TimingChanged(varieties[v].core, c)
    <3>1. \A i \in Plantings : Is(plantings[i]) /\ FitsIn(plantings[i], varieties') /\ plantings[i].plant # q =>
            plantings[i].variety # v
      BY <2>2, NoneAssumption DEF FitsIn
    <3> QED
      BY <1>5, <1>10, <2>1, <2>3, <2>4, <2>5, <3>1 DEF UpdateVariety
  <2>6. CASE ~TimingChanged(varieties[v].core, c)
    <3>1. \A f \in TimingFields : Core[varieties[v].core][f] = Core[c][f]
      BY <2>6 DEF TimingChanged
    <3>2. ASSUME NEW i \in Plantings, Is(plantings[i]), plantings[i].variety = v
          PROVE  \A f \in TimingFields : Effective(plantings[i], plants, varieties)[f] = Effective(plantings[i], plants', varieties')[f]
      <4> DEFINE p == plantings[i]
      <4>1. plants[p.plant] \in Cores
        BY <1>1, <1>2, <3>2, KnownTyped DEF TypeOK, PlantTable, VarietyTable
      <4>2. Effective(p, plants, varieties) = Merge(Core[plants[p.plant]], Core[varieties[v].core])
            /\ Effective(p, plants', varieties') = Merge(Core[plants[p.plant]], Core[c])
        BY <2>1, <2>2, <3>2, NoneAssumption DEF Effective
      <4>3. varieties[v].core \in Cores
        BY <2>1 DEF VarietyType
      <4> QED
        BY <3>1, <4>1, <4>2, <4>3, EffectiveTiming
    <3> QED
      BY <1>4, <1>10, <2>3, <2>4, <2>6, <3>2 DEF UpdateVariety
  <2> QED
    BY <2>5, <2>6
<1>11. ASSUME NEW v \in Varieties, DeleteVariety(v)
      PROVE  PlanInv'
  <2>1. \A i \in Plantings : Is(plantings[i]) /\ plantings[i].variety # None =>
          varieties'[plantings[i].variety] = varieties[plantings[i].variety]
    BY <1>1, <1>2, <1>11 DEF DeleteVariety, TypeOK, PlantingType
  <2> QED
    BY <1>4, <1>11, <2>1 DEF DeleteVariety, Effective, FitsIn
<1>12. ASSUME \/ \E b \in Beds, active \in BOOLEAN : UpdateBed(b, active)
              \/ \E b \in Beds : DeleteBed(b)
      PROVE  PlanInv'
  <2>1. UNCHANGED planVars
    BY <1>12 DEF UpdateBed, DeleteBed, planVars
  <2> QED
    BY <1>1, <2>1, PlanIdle DEF PlanInv
<1> QED
  BY <1>6, <1>7, <1>8, <1>9, <1>10, <1>11, <1>12 DEF KnownNext

LEMMA PlanSeason ==
  ASSUME PlanInv, SeasonNext
  PROVE  PlanInv'
<1>1. BaseInv /\ BaseInv' /\ ClosedAreExcused /\ WorkInv /\ Followed /\ TypeOK
  BY BaseSeason DEF PlanInv, BaseInv
<1>2. \A i \in Plantings : Is(plantings[i]) => plantings[i] \in PlantingType /\ HomeIn(plantings[i], seasons)
  BY <1>1 DEF BaseInv, TypeOK, Homes, Is
\* Of the seasons that are there, the frosts stay; the work does too.
<1>3. ASSUME UNCHANGED <<knownVars, plantings, work, history>>,
             \A y \in Years : seasons[y] # None => /\ seasons'[y].lastFrost = seasons[y].lastFrost
                                                   /\ seasons'[y].firstFrost = seasons[y].firstFrost
      PROVE  WorkInv' /\ Followed'
  <2>1. WorkInv' /\ \A i : Untouched(i)
    BY <1>1, <1>3, QuietWork DEF TypeOK, history
  <2>2. \A i \in Plantings : Is(plantings[i]) => Wanted(i)' = Wanted(i)
    BY <1>1, <1>2, <1>3, WantedUnmoved DEF knownVars, HomeIn, PlantingType
  <2>3. Followed'
    BY <1>1, <1>3, <2>1, <2>2, SteadyKeepsPlan DEF history, knownVars
  <2> QED
    BY <2>1, <2>3
<1>4. ASSUME NEW y \in Years, NEW last, NEW first, CreateSeason(y, last, first)
      PROVE  PlanInv'
  <2>1. \A z \in Years : seasons[z] # None => seasons'[z] = seasons[z]
    BY <1>1, <1>4 DEF CreateSeason, TypeOK
  <2>2. ClosedAreExcused'
    BY <1>1, <1>4 DEF CreateSeason, TypeOK, ClosedAreExcused, Open, Season, history
  <2> QED
    BY <1>1, <1>3, <1>4, <2>1, <2>2 DEF CreateSeason, PlanInv
<1>5. ASSUME \/ \E y, from \in Years, last, first \in Frosts : CopyBegins(y, from, last, first)
             \/ \E offset \in 0..1 : CopyBuilds(offset)
             \/ CopyEnds
      PROVE  PlanInv'
  <2>1. UNCHANGED planVars
    BY <1>5 DEF CopyBegins, CopyBuilds, CopyEnds, planVars, knownVars
  <2> QED
    BY <1>1, <2>1, PlanIdle DEF PlanInv
<1>6. ASSUME CopyCommits
      PROVE  PlanInv'
  <2>1. PICK I, new : Draws(I, new) /\ \A i \in I : plantings[i] = None /\ new[i].season = copy.year
    BY <1>1, <1>6, CopyCommitsDraws
  <2>2. /\ copy \in CopyType /\ copy # None /\ copy.season.status # "closed" /\ copy.year \in Years
        /\ seasons' = [seasons EXCEPT ![copy.year] = copy.season]
        /\ plants' = plants /\ varieties' = varieties /\ handled' = handled
        /\ excused' = IF LiveIn(copy.year) = {} THEN excused ELSE excused \cup {copy.year}
    BY <1>1, <1>6 DEF CopyCommits, BaseInv, TypeOK, CopyInv, knownVars, CopyType
  <2>3. ASSUME NEW i \in Plantings \ I, Is(plantings[i]), plantings[i].season \notin excused'
        PROVE  Wanted(i)' = Wanted(i)
    <3>1. plantings[i].season # copy.year
      BY <2>2, <2>3 DEF LiveIn
    <3>2. plantings'[i] = plantings[i]
      BY <2>1, <2>3 DEF Draws, Replan
    <3> QED
      BY <1>1, <1>2, <2>2, <2>3, <3>1, <3>2, WantedUnmoved DEF TypeOK, PlantingType
  <2>4. WorkInv' /\ Followed'
    BY <1>1, <2>1, <2>2, <2>3, DrawsKeepPlan
  <2>5. ClosedAreExcused'
    BY <1>1, <2>2, NoneAssumption DEF ClosedAreExcused, Open, TypeOK
  <2> QED
    BY <1>1, <2>4, <2>5 DEF PlanInv
<1>7. ASSUME NEW y \in Years, NEW s \in {"planning", "active"}, NEW last \in Frosts, NEW first \in Frosts,
             UpdateSeason(y, s, last, first)
      PROVE  PlanInv'
  <2>1. /\ seasons' = [seasons EXCEPT ![y] = Season(s, last, first)] /\ Open(y) /\ seasons[y] # None
        /\ plants' = plants /\ varieties' = varieties /\ handled' = handled /\ excused' = excused
    BY <1>7 DEF UpdateSeason, knownVars, history
  <2>2. ClosedAreExcused'
    BY <1>1, <2>1, NoneAssumption DEF ClosedAreExcused, Open, TypeOK, Season
  <2>3. CASE <<last, first>> = <<seasons[y].lastFrost, seasons[y].firstFrost>>
    <3>1. last = seasons[y].lastFrost /\ first = seasons[y].firstFrost
      BY <2>3
    <3>2. \A z \in Years : seasons[z] # None => /\ seasons'[z].lastFrost = seasons[z].lastFrost
                                                /\ seasons'[z].firstFrost = seasons[z].firstFrost
      BY <1>1, <2>1, <3>1 DEF TypeOK, Season
    <3>3. WorkInv' /\ Followed'
      BY <1>3, <1>7, <2>3, <3>2 DEF UpdateSeason
    <3> QED
      BY <1>1, <2>2, <3>3 DEF PlanInv
  <2>4. CASE <<last, first>> # <<seasons[y].lastFrost, seasons[y].firstFrost>>
    <3>1. PICK new : Draws(LiveIn(y), new)
      BY <1>1, <1>7, <2>4, UpdateSeasonDraws
    <3>2. ASSUME NEW i \in Plantings \ LiveIn(y), Is(plantings[i])
          PROVE  Wanted(i)' = Wanted(i)
      <4>1. plantings[i].season # y
        BY <3>2 DEF LiveIn
      <4>2. plantings'[i] = plantings[i]
        BY <3>1, <3>2 DEF Draws, Replan
      <4> QED
        BY <1>1, <1>2, <2>1, <3>2, <4>1, <4>2, WantedUnmoved DEF TypeOK, PlantingType
    <3>3. WorkInv' /\ Followed'
      BY <1>1, <2>1, <3>1, <3>2, DrawsKeepPlan
    <3> QED
      BY <1>1, <2>2, <3>3 DEF PlanInv
  <2> QED
    BY <2>3, <2>4
<1>8. ASSUME NEW y \in Years, NEW I \in SUBSET LiveIn(y), NEW yields \in SUBSET I, NEW outcome \in [I -> {"done", "failed"}],
             CloseSeason(y, outcome, yields)
      PROVE  PlanInv'
  <2> DEFINE left == {t \in work : Is(plantings[t.planting]) /\ plantings[t.planting].season = y
                                   /\ t.status = "open" /\ ~t.suppressed}
             to == [t \in left |-> [t EXCEPT !.status = "skipped"]]
  <2>1. /\ work' = (work \ left) \cup {[t EXCEPT !.status = "skipped"] : t \in left}
        /\ handled' = handled \cup {Key(t) : t \in left} /\ excused' = excused \cup {y}
        /\ plantings' = [i \in Plantings |-> IF i \in I THEN [plantings[i] EXCEPT !.status = outcome[i]] ELSE plantings[i]]
        /\ plants' = plants /\ varieties' = varieties /\ seasons' = [seasons EXCEPT ![y].status = "closed"]
    BY <1>8 DEF CloseSeason, knownVars
  <2>2. work' = (work \ left) \cup {to[t] : t \in left}
    BY <2>1
  <2>3. \A t \in left : Key(to[t]) = Key(t)
    BY <1>1 DEF TypeOK, TaskType, Key
  <2>4. \A i \in I : plantings[i].season = y /\ Is(plantings[i]) /\ plantings[i] \in PlantingType /\ i \in Plantings
    BY <1>2 DEF LiveIn
  <2>5. \A i \in I : plantings'[i].season = y /\ plantings'[i] # None
    <3>1. ASSUME NEW i \in I
          PROVE  plantings'[i] \in PlantingType /\ plantings'[i].season = y
      BY <2>1, <2>4, <3>1 DEF PlantingType
    <3> QED
      BY <3>1, NoneAssumption
  <2>6. \A i \in Plantings \ I : plantings'[i] = plantings[i]
    BY <2>1
  <2>7. \A t \in work : plantings[t.planting] # None => plantings'[t.planting] # None
    BY <1>1, <2>5, <2>6 DEF TypeOK, TaskType
  <2>8. handled' = handled \cup {Key(t) : t \in left}
    BY <2>1
  <2> HIDE DEF to, left
  <2>9. left \subseteq work
    BY DEF left
  <2>10. WorkInv' /\ \A i : Untouched(i)
    BY <1>1, <2>2, <2>3, <2>7, <2>8, <2>9, HandsKeepWork
  <2>11. ASSUME NEW i \in Plantings, Is(plantings'[i]), plantings'[i].season \notin excused'
         PROVE  plantings'[i] = plantings[i] /\ Wanted(i)' = Wanted(i)
    <3>0. excused' = excused \cup {y}
      BY <2>1
    <3>1. plantings'[i] = plantings[i] /\ plantings[i].season # y
      BY <2>5, <2>6, <2>11, <3>0
    <3> QED
      BY <1>1, <1>2, <2>1, <2>11, <3>1, WantedUnmoved DEF TypeOK, PlantingType
  <2>12. Followed'
    BY <1>1, <2>1, <2>10, <2>11, SteadyKeepsPlan
  <2>13. ClosedAreExcused'
    BY <1>1, <2>1, NoneAssumption DEF ClosedAreExcused, Open, TypeOK
  <2> QED
    BY <1>1, <2>10, <2>12, <2>13 DEF PlanInv
<1>9. ASSUME NEW y \in Years, ReopenSeason(y)
      PROVE  PlanInv'
  <2>1. seasons' = [seasons EXCEPT ![y].status = "active"] /\ seasons[y] \in SeasonType
    BY <1>1, <1>9 DEF ReopenSeason, TypeOK
  <2>2. \A z \in Years : seasons[z] # None => /\ seasons'[z].lastFrost = seasons[z].lastFrost
                                              /\ seasons'[z].firstFrost = seasons[z].firstFrost
    BY <1>1, <2>1 DEF TypeOK, SeasonType
  <2>3. ClosedAreExcused'
    BY <1>1, <1>9, <2>1, NoneAssumption DEF ReopenSeason, ClosedAreExcused, Open, TypeOK, history
  <2> QED
    BY <1>1, <1>3, <1>9, <2>2, <2>3 DEF ReopenSeason, PlanInv
<1>10. ASSUME NEW i \in Plantings, NEW y \in Years \cup {None}, NEW q \in Plants, NEW v \in Varieties \cup {None},
              NEW b \in Beds \cup {None}, NEW F \in SUBSET Fields, NEW typed \in [F -> Days],
              NEW planted \in Days \cup {None}, CreatePlanting(i, y, q, v, b, typed, planted)
       PROVE  PlanInv'
  <2>1. PICK new : Draws({i}, new)
    BY <1>1, <1>10, CreatePlantingDraws
  <2>2. plants' = plants /\ varieties' = varieties /\ seasons' = seasons /\ handled' = handled /\ excused' = excused
    BY <1>10 DEF CreatePlanting, knownVars, history
  <2>3. \A k \in Plantings \ {i} : Is(plantings[k]) => Wanted(k)' = Wanted(k)
    BY <1>1, <2>1, <2>2, WantedUnmoved DEF Draws, Replan
  <2>4. WorkInv' /\ Followed'
    BY <1>1, <2>1, <2>2, <2>3, DrawsKeepPlan
  <2>5. ClosedAreExcused'
    BY <1>1, <2>2 DEF ClosedAreExcused, Open
  <2> QED
    BY <1>1, <2>4, <2>5 DEF PlanInv
<1>11. ASSUME NEW i \in Plantings, DeletePlanting(i)
       PROVE  PlanInv'
  <2>1. /\ plantings' = [plantings EXCEPT ![i] = Gone] /\ work' = {t \in work : t.planting # i \/ t.status # "open"}
        /\ UNCHANGED <<plants, varieties, seasons, history>>
    BY <1>11 DEF DeletePlanting, knownVars
  <2>2. WorkInv'
    BY <1>1, <2>1, NoneAssumption DEF WorkInv, history, Key, Mutable, TypeOK, TaskType
  <2>3. ASSUME NEW k \in Plantings, Is(plantings'[k])
        PROVE  k # i /\ plantings'[k] = plantings[k] /\ Wanted(k)' = Wanted(k) /\ Untouched(k)
    <3>1. k # i /\ plantings'[k] = plantings[k]
      BY <1>1, <2>1, <2>3 DEF TypeOK, Is
    <3>2. Wanted(k)' = Wanted(k)
      BY <1>1, <2>1, <2>3, <3>1, WantedUnmoved
    <3> QED
      BY <2>1, <3>1, <3>2 DEF Untouched, history
  <2>4. Followed'
    BY <1>1, <2>1, <2>3, SteadyKeepsPlan DEF history
  <2>5. ClosedAreExcused'
    BY <1>1, <2>1 DEF ClosedAreExcused, Open, history
  <2> QED
    BY <1>1, <2>2, <2>4, <2>5 DEF PlanInv
<1>12. Creating => PlanInv'
  BY <1>10, Zenon DEF Creating
<1> QED
  BY <1>4, <1>5, <1>6, <1>7, <1>8, <1>9, <1>11, <1>12, SeasonSteps

LEMMA PlanHand ==
  ASSUME PlanInv, HandNext
  PROVE  PlanInv'
<1>1. BaseInv /\ BaseInv' /\ ClosedAreExcused /\ WorkInv /\ Followed /\ TypeOK
  BY BaseHand DEF PlanInv, BaseInv
<1>2. \A i \in Plantings : Is(plantings[i]) => plantings[i] \in PlantingType
  BY <1>1 DEF TypeOK, Is
<1>3. ASSUME UNCHANGED <<seasons, excused>>
      PROVE  ClosedAreExcused'
  BY <1>1, <1>3 DEF ClosedAreExcused, Open
\* A change of a planting that leaves what it is planned by.
<1>4. ASSUME NEW i \in Plantings, NEW n \in PlantingType, Is(plantings[i]), SamePlan(plantings[i], n),
             plantings' = [plantings EXCEPT ![i] = n], UNCHANGED <<knownVars, seasons, work, history>>
      PROVE  PlanInv'
  <2>1. plantings[i] \in PlantingType /\ plantings'[i] = n /\ n # None
        /\ \A k \in Plantings \ {i} : plantings'[k] = plantings[k]
    BY <1>1, <1>2, <1>4, NoneAssumption DEF TypeOK
  <2>2. WorkInv' /\ \A k : Untouched(k)
    BY <1>1, <1>4, <2>1, QuietWork DEF TypeOK, history
  <2>3. Wanted(i)' = Wanted(i)
    BY <1>4, <2>1, WantedSteady DEF knownVars
  <2>4. \A k \in Plantings \ {i} : Is(plantings[k]) => Wanted(k)' = Wanted(k)
    BY <1>1, <1>4, <2>1, WantedUnmoved DEF knownVars
  <2>5. n.season = plantings[i].season /\ n.bed = plantings[i].bed /\ n.variety = plantings[i].variety /\ n.plant = plantings[i].plant
    BY <1>4 DEF SamePlan
  <2>6. \A k \in Plantings : LET p == plantings[k]
                                 m == plantings'[k]
                             IN Is(m) /\ FitsIn(m, varieties') =>
                                  /\ Is(p) /\ FitsIn(p, varieties) /\ m.season = p.season /\ m.bed = p.bed
                                  /\ Wanted(k)' = Wanted(k) /\ Untouched(k)
    BY <1>4, <2>1, <2>2, <2>3, <2>4, <2>5 DEF FitsIn, knownVars
  <2>7. Followed'
    BY <1>1, <1>4, <2>6, SteadyKeepsPlan DEF history
  <2> QED
    BY <1>1, <1>3, <1>4, <2>2, <2>7 DEF PlanInv, history
<1>5. ASSUME NEW i \in Plantings, Is(plantings[i]), NEW n \in Patched(plantings[i]), UpdatePlanting(i, n)
      PROVE  PlanInv'
  <2> DEFINE p == plantings[i]
  <2>1. p \in PlantingType
    BY <1>2, <1>5
  <2>2. n \in PlantingType /\ n.season = p.season /\ n.plant = p.plant /\ n.drawn = p.drawn
    BY <2>1, PatchedTyped
  <2>3. UNCHANGED <<knownVars, seasons, history>>
    BY <1>5 DEF UpdatePlanting
  <2>4. CASE PlanChanged(p, n)
    <3>1. \E new : Draws({i}, new)
      BY <1>1, <1>5, <2>4, UpdatePlantingDraws
    <3>2. PICK new : Draws({i}, new)
      BY <3>1
    <3>3. \A k \in Plantings \ {i} : Is(plantings[k]) => Wanted(k)' = Wanted(k)
      BY <1>1, <2>3, <3>2, WantedUnmoved DEF Draws, Replan, knownVars
    <3>4. WorkInv' /\ Followed'
      BY <1>1, <2>3, <3>2, <3>3, DrawsKeepPlan DEF history, knownVars
    <3> QED
      BY <1>1, <1>3, <2>3, <3>4 DEF PlanInv, history
  <2>5. CASE ~PlanChanged(p, n)
    <3>1. SamePlan(p, n)
      BY <2>2, <2>5 DEF PlanChanged, SamePlan
    <3>2. plantings' = [plantings EXCEPT ![i] = n] /\ work' = work
      BY <1>5, <2>5 DEF UpdatePlanting
    <3> QED
      BY <1>4, <1>5, <2>2, <2>3, <3>1, <3>2
  <2> QED
    BY <2>4, <2>5
<1>6. ASSUME NEW moved \in SUBSET work, NEW to, \A t \in moved : Key(to[t]) = Key(t),
             work' = (work \ moved) \cup {to[t] : t \in moved}, handled' = handled \cup {Key(t) : t \in moved},
             UNCHANGED <<knownVars, seasons, plantings, excused>>
      PROVE  PlanInv'
  <2>1. WorkInv' /\ \A i : Untouched(i)
    BY <1>1, <1>6, HandsKeepWork
  <2>2. \A i \in Plantings : Is(plantings[i]) => Wanted(i)' = Wanted(i)
    BY <1>1, <1>6, WantedUnmoved DEF knownVars
  <2>3. Followed'
    BY <1>1, <1>6, <2>1, <2>2, SteadyKeepsPlan DEF knownVars
  <2> QED
    BY <1>1, <1>3, <1>6, <2>1, <2>3 DEF PlanInv
<1>7. ASSUME NEW i \in Plantings, NEW days \in Days, NEW kinds, ShiftTasks(i, days, kinds)
      PROVE  PlanInv'
  <2> DEFINE moved == {t \in OfPlanting(i) : t.status = "open" /\ ~t.suppressed /\ t.kind \in kinds}
             to == [t \in moved |-> [t EXCEPT !.from = @ + days, !.to = @ + days,
                                              !.due = IF @ = None THEN None ELSE @ + days, !.edited = TRUE]]
  <2>1. moved \subseteq work /\ moved \subseteq TaskType
    BY <1>1 DEF OfPlanting, TypeOK
  <2>2. \A t \in TaskType : Key([t EXCEPT !.from = @ + days, !.to = @ + days,
                                          !.due = IF @ = None THEN None ELSE @ + days, !.edited = TRUE]) = Key(t)
    BY DEF TaskType, Key
  <2>3. \A t \in moved : Key(to[t]) = Key(t)
    BY <2>1, <2>2
  <2>4. work' = (work \ moved) \cup {to[t] : t \in moved} /\ handled' = handled \cup {Key(t) : t \in moved}
        /\ UNCHANGED <<knownVars, seasons, plantings, excused>>
    BY <1>7 DEF ShiftTasks
  <2> HIDE DEF moved, to
  <2> QED
    BY <1>6, <2>1, <2>3, <2>4
<1>8. ASSUME NEW t \in work, NEW n, Key(n) = Key(t), Change(t, n)
      PROVE  PlanInv'
  <2> DEFINE moved == {t}
             to == [u \in moved |-> n]
  <2>1. /\ moved \in SUBSET work /\ \A u \in moved : Key(to[u]) = Key(u)
        /\ work' = (work \ moved) \cup {to[u] : u \in moved} /\ handled' = handled \cup {Key(u) : u \in moved}
        /\ UNCHANGED <<knownVars, seasons, plantings, excused>>
    BY <1>8 DEF Change
  <2> HIDE DEF moved, to
  <2> QED
    BY <1>6, <2>1
<1>9. ASSUME NEW t \in work, NEW day \in Days, EditTask(t, day)
      PROVE  PlanInv'
  <2>1. Key([t EXCEPT !.from = day, !.to = day, !.edited = TRUE]) = Key(t)
    BY <1>1 DEF TypeOK, TaskType, Key
  <2> QED
    BY <1>8, <1>9, <2>1 DEF EditTask
<1>10. ASSUME NEW t \in work, NEW s, SetTask(t, s)
       PROVE  PlanInv'
  <2>1. Key([t EXCEPT !.status = s]) = Key(t)
    BY <1>1 DEF TypeOK, TaskType, Key
  <2> QED
    BY <1>8, <1>10, <2>1 DEF SetTask
<1>11. ASSUME NEW t \in work, DeleteTask(t)
       PROVE  PlanInv'
  <2>1. Key([t EXCEPT !.suppressed = TRUE]) = Key(t)
    BY <1>1 DEF TypeOK, TaskType, Key
  <2> QED
    BY <1>8, <1>11, <2>1 DEF DeleteTask
<1>12. ASSUME NEW i \in Plantings, NEW day \in Days, CreateHarvest(i, day)
       PROVE  PlanInv'
  <2>1. Is(plantings[i]) /\ UNCHANGED <<knownVars, seasons, work, history>>
    BY <1>12 DEF CreateHarvest
  <2>2. CASE plantings[i].actual["firstHarvest"] # None
    <3>1. UNCHANGED planVars
      BY <1>12, <2>1, <2>2 DEF CreateHarvest, planVars, knownVars
    <3> QED
      BY <1>1, <3>1, PlanIdle DEF PlanInv
  <2>3. CASE plantings[i].actual["firstHarvest"] = None
    <3> DEFINE n == [plantings[i] EXCEPT !.actual["firstHarvest"] = day, !.status = "harvesting"]
    <3>1. plantings' = [plantings EXCEPT ![i] = n]
      BY <1>1, <1>2, <1>12, <2>1, <2>3 DEF CreateHarvest, TypeOK
    <3>2. n \in PlantingType /\ SamePlan(plantings[i], n)
      BY <1>2, <2>1, DayAssumption DEF PlantingType, SamePlan, Actuals, Day
    <3> HIDE DEF n
    <3> QED
      BY <1>4, <2>1, <3>1, <3>2
  <2> QED
    BY <2>2, <2>3
<1>13. ASSUME \/ \E i \in Plantings : DeleteHarvest(i)
              \/ \E c \in Chores, y \in Years \cup {None} : CreateChore(c, y)
              \/ \E c \in Chores, s \in {"open", "done", "skipped"} : SetChore(c, s)
              \/ \E c \in Chores : DeleteChore(c)
       PROVE  PlanInv'
  <2>1. UNCHANGED planVars
    BY <1>13 DEF DeleteHarvest, CreateChore, SetChore, DeleteChore, planVars, knownVars
  <2> QED
    BY <1>1, <2>1, PlanIdle DEF PlanInv
<1> QED
  BY <1>5, <1>7, <1>9, <1>10, <1>11, <1>12, <1>13 DEF HandNext

LEMMA PlanInit ==
  ASSUME Init
  PROVE  PlanInv
<1>1. \A i \in Plantings : ~Is(plantings[i])
  BY DEF Init, Is
<1> QED
  BY <1>1, BaseInit DEF Init, PlanInv, ClosedAreExcused, WorkInv, Followed

LEMMA PlanNext ==
  ASSUME PlanInv, [Next]_vars
  PROVE  PlanInv'
<1>1. CASE UNCHANGED vars
  <2>1. UNCHANGED planVars
    BY <1>1 DEF vars, planVars, knownVars
  <2>2. BaseInv'
    BY <1>1 DEF vars, knownVars, history, PlanInv, BaseInv, TypeOK, Homes, HomeIn, CopyInv, Known
  <2> QED
    BY <2>1, <2>2, PlanIdle DEF PlanInv
<1>2. CASE Next
  BY <1>2, PlanKnown, PlanSeason, PlanHand DEF Next
<1> QED
  BY <1>1, <1>2

THEOREM PlanAlways == Spec => []PlanInv
BY PlanInit, PlanNext, PTL DEF Spec

\* The plantings, their work, the seasons and a copy under way are what the tables say.
THEOREM GardenTyped == Spec => []TypeOK
<1>1. PlanInv => TypeOK
  BY DEF PlanInv, BaseInv
<1> QED
  BY <1>1, PlanAlways, PTL

\* Whatever changes of the crop, its variety, the frosts or the planting, and however a
\* season is copied, every job has one task, and what no hand has touched is as planned.
THEOREM CalendarFollows == Spec => []PlanIsFollowed
<1>1. PlanInv => PlanIsFollowed
  BY FollowedMeans DEF PlanInv, BaseInv
<1> QED
  BY <1>1, PlanAlways, PTL

----------------------------------------------------------------------------
(* What the plan keeps its hands off. *)

LEMMA DrawsKeepOff ==
  ASSUME BaseInv, NEW I, NEW new, Draws(I, new)
  PROVE  /\ HandsOff
         /\ (\A i \in I : Is(plantings[i]) => \A f \in plantings[i].manual : new[i].dates[f] = plantings[i].dates[f])
              => TypedStays
         /\ \A i \in Plantings \ I : plantings'[i] = plantings[i] /\ {t \in work' : t.planting = i} = OfPlanting(i)
<1>1. \A i \in Plantings \ I : plantings'[i] = plantings[i]
  BY DEF Draws, Replan
<1>2. \A i \in Plantings \ I : {t \in work' : t.planting = i} = OfPlanting(i)
  BY DrawsWork DEF OfPlanting
<1>3. HandsOff
  BY DrawsWork DEF HandsOff, InHand, Mutable
<1>4. ASSUME NEW i \in I
      PROVE  plantings'[i].dates = new[i].dates
  <2>1. new[i] \in PlantingType /\ plantings'[i] = [new[i] EXCEPT !.drawn = new[i].manual]
    BY DEF Draws, Replan
  <2> QED
    BY <2>1 DEF PlantingType
<1> QED
  BY <1>1, <1>2, <1>3, <1>4 DEF TypedStays

\* What leaves the plantings and the work alone keeps off them.
LEMMA QuietKeepsOff ==
  ASSUME UNCHANGED <<plantings, work>>
  PROVE  /\ HandsOff /\ TypedStays
         /\ \A i \in Plantings : plantings'[i] = plantings[i] /\ {t \in work' : t.planting = i} = OfPlanting(i)
BY DEF HandsOff, InHand, Mutable, TypedStays, OfPlanting

ClosedAlone(y) ==
  \A i \in LiveIn(y) : /\ plantings'[i] = plantings[i] /\ picked'[i] = picked[i]
                       /\ {t \in work' : t.planting = i} = OfPlanting(i)

LEMMA KnownKeepsOff ==
  ASSUME BaseInv, KnownNext
  PROVE  PlanKeepsOff
<1>1. UNCHANGED <<seasons, picked>>
  BY DEF KnownNext, CreatePlant, UpdatePlant, DeletePlant, CreateVariety, UpdateVariety, DeleteVariety, UpdateBed, DeleteBed
<1>2. ASSUME UNCHANGED <<plantings, work>>
      PROVE  PlanKeepsOff
  BY <1>1, <1>2, QuietKeepsOff DEF PlanKeepsOff, ClosedStays, Open, LiveIn
<1>3. ASSUME NEW q, RegenerateForPlant(q, plants', varieties')
      PROVE  PlanKeepsOff
  <2>1. plants' \in PlantTable /\ varieties' \in VarietyTable
    BY BaseKnown DEF BaseInv, TypeOK, PlantTable, VarietyTable
  <2>2. PICK new : /\ Draws(UsersOf(q), new)
                   /\ \A i \in UsersOf(q) : /\ Is(plantings[i])
                                            /\ \A f \in plantings[i].manual : new[i].dates[f] = plantings[i].dates[f]
    BY <1>1, <1>3, <2>1, RegenerateDraws
  <2>3. ASSUME NEW y \in Years, ~Open(y)
        PROVE  LiveIn(y) \subseteq Plantings \ UsersOf(q)
    BY <2>3 DEF LiveIn, UsersOf
  <2> QED
    BY <1>1, <2>2, <2>3, DrawsKeepOff DEF PlanKeepsOff, ClosedStays, Open
<1>4. ASSUME NEW q, NEW c, UpdatePlant(q, c)
      PROVE  PlanKeepsOff
  <2>1. varieties' = varieties
    BY <1>4 DEF UpdatePlant
  <2> QED
    BY <1>2, <1>3, <1>4, <2>1 DEF UpdatePlant
<1>5. ASSUME NEW v, NEW c, UpdateVariety(v, c)
      PROVE  PlanKeepsOff
  <2>1. plants' = plants
    BY <1>5 DEF UpdateVariety
  <2> QED
    BY <1>2, <1>3, <1>5, <2>1 DEF UpdateVariety
<1> QED
  BY <1>2, <1>4, <1>5 DEF KnownNext, CreatePlant, DeletePlant, CreateVariety, DeleteVariety, UpdateBed, DeleteBed

LEMMA SeasonKeepsOff ==
  ASSUME BaseInv, SeasonNext
  PROVE  PlanKeepsOff
<1> DEFINE Alone(y) == ClosedAlone(y) /\ (~Open(y)' \/ ReopenSeason(y) \/ (copy # None /\ copy.year = y))
           Off == /\ <<knownVars, seasons>> # <<knownVars, seasons>>' => TypedStays
                  /\ HandsOff /\ \A y \in Years : seasons[y] # None /\ ~Open(y) => Alone(y)
<1>1. \A y : LiveIn(y) \subseteq Plantings
  BY DEF LiveIn
<1>2. ASSUME UNCHANGED <<plantings, work, picked>>
      PROVE  TypedStays /\ HandsOff /\ \A y : ClosedAlone(y)
  BY <1>1, <1>2, QuietKeepsOff DEF ClosedAlone
<1>3. ASSUME NEW y \in Years, NEW last, NEW first, CreateSeason(y, last, first)
      PROVE  Off
  <2>1. \A z \in Years : seasons[z] # None => seasons'[z] = seasons[z]
    BY <1>3 DEF CreateSeason, BaseInv, TypeOK
  <2> QED
    BY <1>2, <1>3, <2>1 DEF CreateSeason, Open
<1>4. ASSUME \/ \E y, from \in Years, last, first \in Frosts : CopyBegins(y, from, last, first)
             \/ \E offset \in 0..1 : CopyBuilds(offset)
             \/ CopyEnds
      PROVE  Off
  <2>1. UNCHANGED <<plantings, work, picked, seasons>>
    BY <1>4 DEF CopyBegins, CopyBuilds, CopyEnds
  <2> QED
    BY <1>2, <2>1 DEF Open
<1>5. ASSUME CopyCommits
      PROVE  Off
  <2>1. PICK I, new : Draws(I, new) /\ \A i \in I : plantings[i] = None /\ new[i].season = copy.year
    BY <1>5, CopyCommitsDraws
  <2>2. picked' = picked /\ copy # None /\ seasons' = [seasons EXCEPT ![copy.year] = copy.season]
    BY <1>5 DEF CopyCommits
  <2>3. \A i \in I : ~Is(plantings[i])
    BY <2>1 DEF Is
  <2>4. TypedStays /\ HandsOff /\ \A y : ClosedAlone(y)
    BY <1>1, <2>1, <2>2, <2>3, DrawsKeepOff DEF ClosedAlone, LiveIn
  <2>5. \A y \in Years : copy.year # y => seasons'[y] = seasons[y]
    BY <2>2 DEF BaseInv, TypeOK
  <2> QED
    BY <2>2, <2>4, <2>5 DEF Open
<1>6. ASSUME NEW y \in Years, NEW s \in {"planning", "active"}, NEW last \in Frosts, NEW first \in Frosts,
             UpdateSeason(y, s, last, first)
      PROVE  Off
  <2>1. picked' = picked /\ Open(y) /\ seasons' = [seasons EXCEPT ![y] = Season(s, last, first)]
    BY <1>6 DEF UpdateSeason
  <2>2. \A z \in Years : seasons[z] # None /\ ~Open(z) => z # y /\ seasons'[z] = seasons[z]
    BY <2>1 DEF BaseInv, TypeOK
  <2>3. CASE UNCHANGED <<plantings, work>>
    BY <1>2, <2>1, <2>2, <2>3 DEF Open
  <2>4. CASE <<last, first>> # <<seasons[y].lastFrost, seasons[y].firstFrost>>
    <3>1. PICK new : /\ Draws(LiveIn(y), new)
                     /\ \A i \in LiveIn(y) : /\ new[i].season = y
                                             /\ \A f \in plantings[i].manual : new[i].dates[f] = plantings[i].dates[f]
      BY <1>6, <2>4, UpdateSeasonDraws
    <3>2. \A z \in Years : z # y => LiveIn(z) \subseteq Plantings \ LiveIn(y)
      BY DEF LiveIn
    <3>3. \A z \in Years : z # y => ClosedAlone(z)
      BY <2>1, <3>1, <3>2, DrawsKeepOff DEF ClosedAlone
    <3> QED
      BY <2>2, <3>1, <3>3, DrawsKeepOff DEF Open
  <2> QED
    BY <1>6, <2>3, <2>4 DEF UpdateSeason
<1>7. ASSUME NEW y \in Years, NEW I \in SUBSET LiveIn(y), NEW yields \in SUBSET I, NEW outcome \in [I -> {"done", "failed"}],
             CloseSeason(y, outcome, yields)
      PROVE  Off
  <2> DEFINE left == {t \in work : Is(plantings[t.planting]) /\ plantings[t.planting].season = y
                                   /\ t.status = "open" /\ ~t.suppressed}
             skipped(t) == [t EXCEPT !.status = "skipped"]
  <2>1. work' = (work \ left) \cup {skipped(t) : t \in left}
    BY <1>7 DEF CloseSeason
  <2>2. plantings' = [i \in Plantings |-> IF i \in I THEN [plantings[i] EXCEPT !.status = outcome[i]] ELSE plantings[i]]
    BY <1>7 DEF CloseSeason
  <2>3. /\ picked' = [i \in Plantings |-> IF i \in yields THEN picked[i] + 1 ELSE picked[i]]
        /\ seasons' = [seasons EXCEPT ![y].status = "closed"] /\ Open(y)
    BY <1>7 DEF CloseSeason
  <2>4. \A z \in Years : seasons[z] # None /\ ~Open(z) => z # y /\ seasons'[z] = seasons[z]
    BY <2>3 DEF BaseInv, TypeOK
  <2>5. ASSUME NEW i \in I
        PROVE  i \in Plantings /\ plantings[i].season = y /\ plantings'[i].dates = plantings[i].dates
    <3>1. i \in Plantings /\ plantings[i].season = y /\ plantings[i] \in PlantingType
      BY DEF LiveIn, BaseInv, TypeOK, Is
    <3> QED
      BY <2>2, <3>1 DEF PlantingType
  <2>6. \A i \in Plantings \ I : plantings'[i] = plantings[i]
    BY <2>2
  <2>7. TypedStays
    BY <2>5, <2>6 DEF TypedStays
  <2>8. \A t \in left : skipped(t).planting = t.planting /\ plantings[t.planting].season = y
    BY DEF BaseInv, TypeOK, TaskType
  <2>9. \A t \in work : t \in left => skipped(t) \in work'
    BY <2>1
  <2>10. \A t \in work : t \notin left => t \in work'
    BY <2>1
  <2>11. HandsOff
    BY <2>9, <2>10 DEF HandsOff, InHand, Mutable
  <2>12. ASSUME NEW z \in Years, z # y
         PROVE  ClosedAlone(z)
    <3>1. \A i \in LiveIn(z) : i \in Plantings /\ plantings[i].season = z /\ i \notin I
      BY <2>5, <2>12 DEF LiveIn
    <3>2. \A i \in LiveIn(z) : plantings'[i] = plantings[i] /\ picked'[i] = picked[i]
      BY <2>3, <2>6, <3>1
    <3> HIDE DEF left, skipped
    <3>3. \A i \in LiveIn(z) : {t \in work' : t.planting = i} = {t \in work : t.planting = i}
      BY <2>1, <2>8, <2>12, <3>1
    <3> QED
      BY <3>2, <3>3 DEF ClosedAlone, OfPlanting
  <2> QED
    BY <2>4, <2>7, <2>11, <2>12 DEF Open
<1>8. ASSUME NEW y \in Years, ReopenSeason(y)
      PROVE  Off
  <2>1. \A z \in Years : z # y => seasons'[z] = seasons[z]
    BY <1>8 DEF ReopenSeason, BaseInv, TypeOK
  <2> QED
    BY <1>2, <1>8, <2>1 DEF ReopenSeason, Open
<1>9. ASSUME NEW i \in Plantings, NEW y \in Years \cup {None}, NEW q \in Plants, NEW v \in Varieties \cup {None},
             NEW b \in Beds \cup {None}, NEW F \in SUBSET Fields, NEW typed \in [F -> Days],
             NEW planted \in Days \cup {None}, CreatePlanting(i, y, q, v, b, typed, planted)
      PROVE  Off
  <2>1. PICK new : Draws({i}, new)
    BY <1>9, CreatePlantingDraws
  <2>2. ~Is(plantings[i]) /\ UNCHANGED <<seasons, picked>>
    BY <1>9 DEF CreatePlanting, Is
  <2>3. TypedStays /\ HandsOff /\ \A z : ClosedAlone(z)
    BY <1>1, <2>1, <2>2, DrawsKeepOff DEF ClosedAlone, LiveIn
  <2> QED
    BY <2>2, <2>3 DEF Open
<1>10. ASSUME NEW i \in Plantings, DeletePlanting(i)
       PROVE  Off
  <2>1. /\ UNCHANGED <<knownVars, seasons, picked>> /\ Open(plantings[i].season)
        /\ plantings' = [plantings EXCEPT ![i] = Gone] /\ work' = {t \in work : t.planting # i \/ t.status # "open"}
    BY <1>10 DEF DeletePlanting
  <2>2. HandsOff
    BY <2>1 DEF HandsOff, InHand, Mutable, BaseInv, TypeOK, TaskType
  <2>3. ASSUME NEW z \in Years, ~Open(z)
        PROVE  ClosedAlone(z)
    <3>1. \A k \in LiveIn(z) : k # i
      BY <2>1, <2>3 DEF LiveIn
    <3> QED
      BY <1>1, <2>1, <3>1 DEF ClosedAlone, OfPlanting, BaseInv, TypeOK
  <2> QED
    BY <2>1, <2>2, <2>3 DEF Open
<1> HIDE DEF Off
<1>11. Creating => Off
  BY <1>9, Zenon DEF Creating
<1>12. Off
  BY <1>3, <1>4, <1>5, <1>6, <1>7, <1>8, <1>10, <1>11, SeasonSteps
<1> QED
  BY <1>12 DEF Off, PlanKeepsOff, ClosedStays, ClosedAlone

LEMMA HandKeepsOff ==
  ASSUME BaseInv, HandNext
  PROVE  PlanKeepsOff
<1>1. UNCHANGED <<knownVars, seasons>>
  BY DEF HandNext, UpdatePlanting, ShiftTasks, CreateHarvest, DeleteHarvest, EditTask, SetTask, DeleteTask, Change,
         CreateChore, SetChore, DeleteChore
<1>2. SUFFICES /\ plantings' # plantings => HandsOff
               /\ \A y \in Years : seasons[y] # None /\ ~Open(y) => ClosedAlone(y)
  BY <1>1 DEF PlanKeepsOff, ClosedStays, ClosedAlone, Open
<1>3. \A y : LiveIn(y) \subseteq Plantings
  BY DEF LiveIn
<1>4. ASSUME UNCHANGED <<plantings, work, picked>>
      PROVE  \A y : ClosedAlone(y)
  BY <1>3, <1>4, QuietKeepsOff DEF ClosedAlone
<1>5. ASSUME NEW i \in Plantings, Is(plantings[i]), NEW n \in Patched(plantings[i]), UpdatePlanting(i, n)
      PROVE  HandsOff /\ \A y \in Years : seasons[y] # None /\ ~Open(y) => ClosedAlone(y)
  <2>1. Open(plantings[i].season) /\ picked' = picked
    BY <1>5 DEF UpdatePlanting
  <2>2. \A y \in Years : ~Open(y) => i \notin LiveIn(y)
    BY <2>1 DEF LiveIn
  <2>3. CASE PlanChanged(plantings[i], n)
    <3>1. PICK new : Draws({i}, new)
      BY <1>5, <2>3, UpdatePlantingDraws
    <3> QED
      BY <1>3, <2>1, <2>2, <3>1, DrawsKeepOff DEF ClosedAlone
  <2>4. CASE ~PlanChanged(plantings[i], n)
    <3>1. plantings' = [plantings EXCEPT ![i] = n] /\ work' = work
      BY <1>5, <2>4 DEF UpdatePlanting
    <3>2. HandsOff
      BY <3>1 DEF HandsOff, InHand, Mutable
    <3>3. \A y \in Years : ~Open(y) => ClosedAlone(y)
      BY <1>3, <2>1, <2>2, <3>1 DEF ClosedAlone, OfPlanting, BaseInv, TypeOK
    <3> QED
      BY <3>2, <3>3
  <2> QED
    BY <2>3, <2>4
<1>6. ASSUME NEW i \in Plantings, NEW days, NEW kinds, ShiftTasks(i, days, kinds)
      PROVE  plantings' = plantings /\ \A y \in Years : seasons[y] # None /\ ~Open(y) => ClosedAlone(y)
  <2> DEFINE moved == {t \in OfPlanting(i) : t.status = "open" /\ ~t.suppressed /\ t.kind \in kinds}
             later(t) == [t EXCEPT !.from = @ + days, !.to = @ + days,
                                   !.due = IF @ = None THEN None ELSE @ + days, !.edited = TRUE]
  <2>1. Open(plantings[i].season) /\ UNCHANGED <<plantings, picked>>
    BY <1>6 DEF ShiftTasks
  <2>2. work' = (work \ moved) \cup {later(t) : t \in moved}
    BY <1>6 DEF ShiftTasks
  <2>3. \A t \in moved : t \in TaskType /\ t.planting = i
    BY DEF OfPlanting, BaseInv, TypeOK
  <2>4. \A t \in TaskType : later(t).planting = t.planting
    BY DEF TaskType
  <2> HIDE DEF moved, later
  <2>5. \A k : k # i => {t \in work' : t.planting = k} = {t \in work : t.planting = k}
    BY <2>2, <2>3, <2>4
  <2>6. \A y \in Years : ~Open(y) => i \notin LiveIn(y)
    BY <2>1 DEF LiveIn
  <2> QED
    BY <1>3, <2>1, <2>5, <2>6 DEF ClosedAlone, OfPlanting
<1>7. ASSUME NEW t \in work, NEW n, n.planting = t.planting, Change(t, n)
      PROVE  plantings' = plantings /\ \A y \in Years : seasons[y] # None /\ ~Open(y) => ClosedAlone(y)
  <2>1. TaskOpen(t) /\ work' = (work \ {t}) \cup {n} /\ UNCHANGED <<plantings, picked>>
    BY <1>7 DEF Change
  <2>2. \A y \in Years : ~Open(y) => t.planting \notin LiveIn(y)
    BY <2>1 DEF TaskOpen, LiveIn
  <2>3. \A k : k # t.planting => {u \in work' : u.planting = k} = {u \in work : u.planting = k}
    BY <1>7, <2>1
  <2> QED
    BY <1>3, <2>1, <2>2, <2>3 DEF ClosedAlone, OfPlanting
<1>8. ASSUME NEW t \in work,
             \/ \E day \in Days : EditTask(t, day)
             \/ \E s \in {"open", "done", "skipped"} : SetTask(t, s)
             \/ DeleteTask(t)
      PROVE  plantings' = plantings /\ \A y \in Years : seasons[y] # None /\ ~Open(y) => ClosedAlone(y)
  <2>1. t \in TaskType
    BY DEF BaseInv, TypeOK
  <2>2. /\ \A day : [t EXCEPT !.from = day, !.to = day, !.edited = TRUE].planting = t.planting
        /\ \A s : [t EXCEPT !.status = s].planting = t.planting
        /\ [t EXCEPT !.suppressed = TRUE].planting = t.planting
    BY <2>1 DEF TaskType
  <2> QED
    BY <1>7, <1>8, <2>2 DEF EditTask, SetTask, DeleteTask
<1>9. ASSUME NEW i \in Plantings, NEW day, CreateHarvest(i, day) \/ DeleteHarvest(i)
      PROVE  HandsOff /\ \A y \in Years : seasons[y] # None /\ ~Open(y) => ClosedAlone(y)
  <2>1. Open(plantings[i].season) /\ work' = work
    BY <1>9 DEF CreateHarvest, DeleteHarvest
  <2>2. \A y \in Years : ~Open(y) => i \notin LiveIn(y)
    BY <2>1 DEF LiveIn
  <2>3. \A k \in Plantings \ {i} : plantings'[k] = plantings[k] /\ picked'[k] = picked[k]
    BY <1>9 DEF CreateHarvest, DeleteHarvest, BaseInv, TypeOK
  <2> QED
    BY <1>3, <2>1, <2>2, <2>3 DEF ClosedAlone, OfPlanting, HandsOff, InHand, Mutable
<1>10. ASSUME \/ \E c \in Chores, y \in Years \cup {None} : CreateChore(c, y)
              \/ \E c \in Chores, s \in {"open", "done", "skipped"} : SetChore(c, s)
              \/ \E c \in Chores : DeleteChore(c)
       PROVE  plantings' = plantings /\ \A y : ClosedAlone(y)
  BY <1>4, <1>10 DEF CreateChore, SetChore, DeleteChore
<1> QED
  BY <1>5, <1>6, <1>8, <1>9, <1>10 DEF HandNext

\* A date that was typed, a task that was touched and a season that was closed outlive
\* every change of the crop, the frosts, the copied seasons and the plan.
THEOREM PlanKeepsItsHandsOff == Spec => KeptOff
<1>1. PlanInv /\ [Next]_vars => [PlanKeepsOff]_vars
  <2>1. PlanInv => BaseInv
    BY DEF PlanInv
  <2> QED
    BY <2>1, KnownKeepsOff, SeasonKeepsOff, HandKeepsOff DEF Next
<1> QED
  BY <1>1, PlanAlways, PTL DEF Spec, KeptOff

----------------------------------------------------------------------------
(* Least and greatest. *)

\* A set of naturals that is not empty has a least member.
LEMMA LeastMember ==
  ASSUME NEW T, T \subseteq Nat, T # {}
  PROVE  \E x \in T : \A y \in T : x <= y
<1>1. IsWellFoundedOn(OpToRel(<, Nat), Nat)
  BY NatLessThanWellFounded
<1>2. PICK x \in T : \A y \in T : ~(<<y, x>> \in OpToRel(<, Nat))
  BY <1>1, WFMin
<1>3. \A y \in T : ~(y < x)
  BY <1>2 DEF OpToRel
<1> QED
  BY <1>3

\* And one with a bound has a greatest.
LEMMA GreatestMember ==
  ASSUME NEW T, NEW n \in Nat, T \subseteq 0..n, T # {}
  PROVE  \E x \in T : \A y \in T : y <= x
<1> DEFINE U == {n - y : y \in T}
<1>1. U \subseteq Nat /\ U # {}
  <2>1. \A y \in T : n - y \in Nat
    OBVIOUS
  <2> QED
    BY <2>1, Zenon
<1>2. PICK u \in U : \A v \in U : u <= v
  BY <1>1, LeastMember
<1>3. PICK x \in T : u = n - x
  BY <1>2
<1>4. \A y \in T : y <= x
  <2> TAKE y \in T
  <2>1. n - y \in U
    OBVIOUS
  <2>2. n - x <= n - y
    BY <1>2, <1>3, <2>1
  <2> QED
    BY <2>2
<1> QED
  BY <1>4

\* A finite set of naturals has a greatest member, too.
LEMMA GreatestOfFinite ==
  ASSUME NEW T, T \subseteq Nat, IsFiniteSet(T), T # {}
  PROVE  \E x \in T : \A y \in T : y <= x
<1> DEFINE Ahead(x) == {y \in T : y > x}
           N == {Cardinality(Ahead(x)) : x \in T}
<1>1. \A x \in T : IsFiniteSet(Ahead(x)) /\ Cardinality(Ahead(x)) \in Nat
  BY FS_Subset, FS_CardinalityType
<1>2. N \subseteq Nat /\ N # {}
  BY <1>1
<1>3. PICK k \in N : \A l \in N : k <= l
  BY <1>2, LeastMember
<1>4. PICK x \in T : k = Cardinality(Ahead(x))
  BY <1>3
<1>5. \A y \in T : ~(y > x)
  <2> SUFFICES ASSUME NEW y \in T, y > x PROVE FALSE
    OBVIOUS
  <2>1. Ahead(y) \subseteq Ahead(x)
    <3>1. \A z \in T : z > y => z > x
      BY x \in Nat, y \in Nat, \A z \in T : z \in Nat
    <3> QED
      BY <3>1, Zenon
  <2>2. Ahead(y) # Ahead(x)
    <3>1. y \in Ahead(x) /\ y \notin Ahead(y)
      OBVIOUS
    <3> QED
      BY <3>1
  <2>3. Cardinality(Ahead(y)) < Cardinality(Ahead(x))
    BY <1>1, <2>1, <2>2, FS_Subset
  <2>4. Cardinality(Ahead(y)) \in N
    OBVIOUS
  <2>5. k <= Cardinality(Ahead(y)) /\ Cardinality(Ahead(x)) \in Nat /\ Cardinality(Ahead(y)) \in Nat
    BY <1>1, <1>3, <2>4
  <2> HIDE DEF N, Ahead
  <2> QED
    BY <1>4, <2>3, <2>5
<1> QED
  BY <1>5

----------------------------------------------------------------------------
(* Sums over finite sets. *)

\* A property of sets that holds of the empty set and survives every element holds of all.
LEMMA Enumerated ==
  ASSUME NEW S, IsFiniteSet(S), NEW P, {} \in P,
         \A T \in SUBSET S, x \in S : x \notin T /\ T \in P => T \cup {x} \in P
  PROVE  S \in P
<1> SUFFICES ASSUME S \notin P PROVE FALSE
  OBVIOUS
<1> DEFINE Bad == {T \in SUBSET S : T \notin P}
           N == {n \in Nat : \E T \in Bad : Cardinality(T) = n}
<1>1. \A T \in SUBSET S : IsFiniteSet(T) /\ Cardinality(T) \in Nat
  BY FS_Subset, FS_CardinalityType
<1>2. S \in Bad
  OBVIOUS
<1>3. N # {} /\ N \subseteq Nat
  BY <1>1, <1>2
<1>4. PICK n \in N : \A m \in N : n <= m
  BY <1>3, LeastMember
<1>5. PICK T \in Bad : Cardinality(T) = n
  BY <1>4
<1>6. PICK x \in T : TRUE
  BY <1>5
<1>7. IsFiniteSet(T) /\ Cardinality(T \ {x}) = n - 1 /\ n \in Nat /\ Cardinality(T \ {x}) \in Nat
  BY <1>1, <1>5, <1>6, FS_RemoveElement
<1>8. T \ {x} \in P
  <2>1. T \ {x} \in SUBSET S
    BY <1>5
  <2>2. CASE T \ {x} \in Bad
    <3>1. n - 1 \in N
      BY <1>7, <2>2
    <3> QED
      BY <1>4, <1>7, <3>1
  <2> QED
    BY <2>1, <2>2
<1>9. (T \ {x}) \cup {x} \in P
  BY <1>5, <1>6, <1>8
<1>10. (T \ {x}) \cup {x} = T
  BY <1>6
<1> QED
  BY <1>5, <1>9, <1>10

One(s) == CHOOSE x \in s : TRUE
\* What the library's sum is: a choice among the functions that add up.
Adds(g, f, S) == g = [s \in SUBSET S |-> IF s = {} THEN 0 ELSE f[One(s)] + g[s \ {One(s)}]]

\* The sum of the library is a choice of this kind.
LEMMA SumIs ==
  ASSUME NEW f, NEW S
  PROVE  SumFunctionOnSet(f, S) = (CHOOSE g : Adds(g, f, S))[S]
BY DEF SumFunctionOnSet, FoldFunctionOnSet, MapThenFoldSet, Adds, One

Small(S, n) == {s \in SUBSET S : Cardinality(s) <= n}
AddsTo(g, f, S, n) == g = [s \in Small(S, n) |-> IF s = {} THEN 0 ELSE f[One(s)] + g[s \ {One(s)}]]

\* There is such a function: for the sets of up to n members, for every n.
LEMMA AddsExists ==
  ASSUME NEW f, NEW S, IsFiniteSet(S)
  PROVE  \E g : Adds(g, f, S)
<1> DEFINE N == {n \in Nat : ~ \E g : AddsTo(g, f, S, n)}
<1>1. \A s \in SUBSET S : IsFiniteSet(s) /\ Cardinality(s) \in Nat /\ Cardinality(s) <= Cardinality(S)
  BY FS_Subset, FS_CardinalityType
<1>2. \A s \in SUBSET S : s # {} => One(s) \in s
  BY DEF One
<1>3. ASSUME NEW s \in SUBSET S, s # {}
      PROVE  s \ {One(s)} \in SUBSET S /\ Cardinality(s \ {One(s)}) = Cardinality(s) - 1
  BY <1>1, <1>2, <1>3, FS_RemoveElement
<1>4. ASSUME N # {} PROVE FALSE
  <2>1. PICK n \in N : \A m \in N : n <= m
    BY <1>4, LeastMember
  <2>2. CASE n = 0
    <3> DEFINE g == [s \in Small(S, 0) |-> 0]
    <3>1. \A s \in Small(S, 0) : s = {}
      BY <1>1, FS_EmptySet DEF Small
    <3>2. AddsTo(g, f, S, 0)
      BY <3>1 DEF AddsTo
    <3> QED
      BY <2>1, <2>2, <3>2
  <2>3. CASE n # 0
    <3>1. n - 1 \in Nat /\ n - 1 \notin N /\ n \in Nat
      BY <2>1, <2>3
    <3>2. PICK h : AddsTo(h, f, S, n - 1)
      BY <3>1
    <3> DEFINE g == [s \in Small(S, n) |-> IF s = {} THEN 0 ELSE f[One(s)] + h[s \ {One(s)}]]
    <3>3. \A s \in Small(S, n - 1) : s \in Small(S, n) /\ h[s] = g[s]
      <4>1. \A s \in Small(S, n - 1) : s \in Small(S, n)
        BY <1>1, <3>1 DEF Small
      <4>2. \A s \in Small(S, n - 1) : h[s] = IF s = {} THEN 0 ELSE f[One(s)] + h[s \ {One(s)}]
        BY <3>2 DEF AddsTo
      <4> QED
        BY <4>1, <4>2
    <3>4. \A s \in Small(S, n) : s # {} => s \ {One(s)} \in Small(S, n - 1)
      BY <1>1, <1>3, <3>1 DEF Small
    <3>5. \A s \in Small(S, n) : g[s] = IF s = {} THEN 0 ELSE f[One(s)] + g[s \ {One(s)}]
      BY <3>3, <3>4
    <3>6. g = [s \in Small(S, n) |-> g[s]]
      OBVIOUS
    <3> HIDE DEF g
    <3>7. AddsTo(g, f, S, n)
      BY <3>5, <3>6 DEF AddsTo
    <3> QED
      BY <2>1, <3>7
  <2> QED
    BY <2>2, <2>3
<1>5. Cardinality(S) \in Nat /\ Small(S, Cardinality(S)) = SUBSET S
  BY <1>1 DEF Small
<1>6. PICK g : AddsTo(g, f, S, Cardinality(S))
  BY <1>4, <1>5
<1> QED
  BY <1>5, <1>6 DEF Adds, AddsTo

\* And there is one only, on every set that both know.
LEMMA AddsAlike ==
  ASSUME NEW f, NEW S, IsFiniteSet(S), NEW T \in SUBSET S, NEW g, Adds(g, f, S), NEW h, Adds(h, f, T)
  PROVE  g[T] = h[T]
<1> DEFINE N == {n \in Nat : \E s \in SUBSET T : Cardinality(s) = n /\ g[s] # h[s]}
<1>1. \A s \in SUBSET T : IsFiniteSet(s) /\ Cardinality(s) \in Nat
  BY FS_Subset, FS_CardinalityType
<1>2. ASSUME N # {} PROVE FALSE
  <2>1. PICK n \in N : \A m \in N : n <= m
    BY <1>2, LeastMember
  <2>2. PICK s \in SUBSET T : Cardinality(s) = n /\ g[s] # h[s]
    BY <2>1
  <2>3. /\ g[s] = IF s = {} THEN 0 ELSE f[One(s)] + g[s \ {One(s)}]
        /\ h[s] = IF s = {} THEN 0 ELSE f[One(s)] + h[s \ {One(s)}]
    BY <2>2 DEF Adds
  <2>4. s # {} /\ One(s) \in s
    BY <2>2, <2>3 DEF One
  <2> DEFINE r == s \ {One(s)}
  <2>5. r \in SUBSET T /\ Cardinality(r) = n - 1 /\ n - 1 \in Nat
    <3>1. IsFiniteSet(s) /\ r \in SUBSET T
      BY <1>1, <2>2
    <3>2. Cardinality(s \ {One(s)}) = Cardinality(s) - 1
      <4> DEFINE o == One(s)
      <4>1. o \in s
        BY <2>4
      <4> HIDE DEF o
      <4>2. Cardinality(s \ {o}) = Cardinality(s) - 1
        BY <3>1, <4>1, FS_RemoveElement
      <4> QED
        BY <4>2 DEF o
    <3>3. Cardinality(r) \in Nat
      BY <1>1, <3>1
    <3> QED
      BY <2>2, <3>1, <3>2, <3>3
  <2>6. g[r] # h[r]
    BY <2>2, <2>3, <2>4
  <2>7. n - 1 \in N
    BY <2>5, <2>6
  <2> QED
    BY <2>1, <2>5, <2>7
<1> QED
  BY <1>1, <1>2

\* The sum of nothing, and of something: one of its members and the sum of the rest.
LEMMA SumUnfolds ==
  ASSUME NEW f, NEW S, IsFiniteSet(S)
  PROVE  SumFunctionOnSet(f, S) = IF S = {} THEN 0 ELSE f[One(S)] + SumFunctionOnSet(f, S \ {One(S)})
<1> DEFINE g == CHOOSE g : Adds(g, f, S)
           T == S \ {One(S)}
           h == CHOOSE h : Adds(h, f, T)
<1>1. Adds(g, f, S)
  BY AddsExists
<1>2. IsFiniteSet(T) /\ T \in SUBSET S
  BY FS_Subset
<1>3. Adds(h, f, T)
  BY <1>2, AddsExists
<1> HIDE DEF T
<1>4. SumFunctionOnSet(f, S) = g[S] /\ SumFunctionOnSet(f, T) = h[T]
  BY SumIs
<1> HIDE DEF g, h
<1>5. g[T] = h[T]
  BY <1>1, <1>2, <1>3, AddsAlike
<1>6. g[S] = IF S = {} THEN 0 ELSE f[One(S)] + g[T]
  BY <1>1 DEF Adds, T
<1> QED
  BY <1>4, <1>5, <1>6 DEF T

\* Any member may come first.
LEMMA SumWithout ==
  ASSUME NEW S, IsFiniteSet(S), NEW f, \A x \in S : f[x] \in Int
  PROVE  /\ SumFunctionOnSet(f, S) \in Int
         /\ \A x \in S : SumFunctionOnSet(f, S) = f[x] + SumFunctionOnSet(f, S \ {x})
<1> DEFINE Fine(T) == /\ SumFunctionOnSet(f, T) \in Int
                      /\ \A x \in T : SumFunctionOnSet(f, T) = f[x] + SumFunctionOnSet(f, T \ {x})
           N == {n \in Nat : \E T \in SUBSET S : Cardinality(T) = n /\ ~Fine(T)}
<1>1. \A T \in SUBSET S : IsFiniteSet(T) /\ Cardinality(T) \in Nat
  BY FS_Subset, FS_CardinalityType
<1>2. ASSUME N # {} PROVE FALSE
  <2>1. PICK n \in N : \A m \in N : n <= m
    BY <1>2, LeastMember
  <2>2. PICK T \in SUBSET S : Cardinality(T) = n /\ ~Fine(T)
    BY <2>1
  <2>3. \A U \in SUBSET S : Cardinality(U) < n => Fine(U)
    <3> SUFFICES ASSUME NEW U \in SUBSET S, Cardinality(U) < n, ~Fine(U) PROVE FALSE
      OBVIOUS
    <3>1. Cardinality(U) \in N
      BY <1>1
    <3> QED
      BY <1>1, <2>1, <3>1
  <2>4. \A x \in T : T \ {x} \in SUBSET S /\ Cardinality(T \ {x}) = n - 1 /\ n \in Nat /\ n - 1 < n
    BY <1>1, <2>2, FS_RemoveElement
  <2>5. \A x \in T : Fine(T \ {x})
    BY <2>3, <2>4
  <2> DEFINE c == One(T)
  <2>6. SumFunctionOnSet(f, T) = IF T = {} THEN 0 ELSE f[c] + SumFunctionOnSet(f, T \ {c})
    BY <1>1, SumUnfolds
  <2>7. CASE T = {}
    BY <2>2, <2>6, <2>7
  <2>8. CASE T # {}
    <3>1. c \in T /\ f[c] \in Int
      BY <2>8 DEF One
    <3> HIDE DEF c
    <3>2. SumFunctionOnSet(f, T \ {c}) \in Int
      BY <2>5, <3>1
    <3>3. SumFunctionOnSet(f, T) \in Int
      BY <2>6, <2>8, <3>1, <3>2
    <3>4. ASSUME NEW x \in T PROVE SumFunctionOnSet(f, T) = f[x] + SumFunctionOnSet(f, T \ {x})
      <4>1. CASE x = c
        BY <2>6, <2>8, <4>1
      <4>2. CASE x # c
        <5>1. x \in T \ {c} /\ c \in T \ {x} /\ (T \ {c}) \ {x} = (T \ {x}) \ {c} /\ f[x] \in Int
          BY <3>1, <4>2
        <5> DEFINE r == SumFunctionOnSet(f, (T \ {c}) \ {x})
        <5>2. SumFunctionOnSet(f, T \ {c}) = f[x] + r
          BY <2>5, <3>1, <5>1
        <5>3. SumFunctionOnSet(f, T \ {x}) = f[c] + r
          BY <2>5, <5>1
        <5>4. r \in Int
          <6>1. T \ {c} \in SUBSET S /\ Cardinality(T \ {c}) = n - 1 /\ n \in Nat
            BY <2>4, <3>1
          <6>2. (T \ {c}) \ {x} \in SUBSET S /\ Cardinality((T \ {c}) \ {x}) < n
            <7>1. IsFiniteSet(T \ {c})
              BY <1>1, <6>1
            <7>2. Cardinality((T \ {c}) \ {x}) = Cardinality(T \ {c}) - 1
              BY <5>1, <7>1, FS_RemoveElement
            <7> QED
              BY <6>1, <7>2
          <6>3. Fine((T \ {c}) \ {x})
            BY <2>3, <6>1, <6>2
          <6> QED
            BY <6>3
        <5> HIDE DEF r
        <5> QED
          BY <2>6, <2>8, <3>1, <5>1, <5>2, <5>3, <5>4
      <4> QED
        BY <4>1, <4>2
    <3> QED
      BY <2>2, <3>3, <3>4
  <2> QED
    BY <2>7, <2>8
<1>3. Fine(S)
  BY <1>1, <1>2
<1> QED
  BY <1>3

Sigma(f, S) == SumFunctionOnSet(f, S)
Ints(f, S) == \A x \in S : f[x] \in Int

LEMMA SumOfNone ==
  ASSUME NEW f
  PROVE  Sigma(f, {}) = 0
BY SumUnfolds, FS_EmptySet DEF Sigma

LEMMA SumInt ==
  ASSUME NEW S, IsFiniteSet(S), NEW f, Ints(f, S)
  PROVE  Sigma(f, S) \in Int
BY SumWithout DEF Sigma, Ints

\* One more member adds its term.
LEMMA SumMore ==
  ASSUME NEW S, IsFiniteSet(S), NEW f, Ints(f, S), NEW T \in SUBSET S, NEW x \in S, x \notin T
  PROVE  /\ Sigma(f, T) \in Int /\ f[x] \in Int /\ Sigma(f, T \cup {x}) \in Int
         /\ Sigma(f, T \cup {x}) = Sigma(f, T) + f[x]
<1>1. IsFiniteSet(T) /\ IsFiniteSet(T \cup {x}) /\ T \cup {x} \in SUBSET S
  BY FS_Subset
<1>2. Sigma(f, T) \in Int /\ Sigma(f, T \cup {x}) \in Int /\ f[x] \in Int
  BY <1>1, SumInt DEF Ints
<1>3. \A y \in T \cup {x} : f[y] \in Int
  BY <1>1 DEF Ints
<1>4. Sigma(f, T \cup {x}) = f[x] + Sigma(f, (T \cup {x}) \ {x})
  <2> DEFINE U == T \cup {x}
  <2>1. IsFiniteSet(U) /\ x \in U /\ \A y \in U : f[y] \in Int
    BY <1>1, <1>3
  <2> HIDE DEF U
  <2>2. Sigma(f, U) = f[x] + Sigma(f, U \ {x})
    BY <2>1, SumWithout DEF Sigma
  <2> QED
    BY <2>2 DEF U
<1>5. (T \cup {x}) \ {x} = T
  OBVIOUS
<1> QED
  <2>1. Sigma(f, T \cup {x}) = f[x] + Sigma(f, T)
    BY <1>4, <1>5
  <2> QED
    BY <1>2, <2>1

\* Equal terms, equal sums.
LEMMA SumAlike ==
  ASSUME NEW S, IsFiniteSet(S), NEW f, Ints(f, S), NEW g, \A x \in S : g[x] = f[x]
  PROVE  Sigma(g, S) = Sigma(f, S)
<1> DEFINE P == {T \in SUBSET S : Sigma(g, T) = Sigma(f, T)}
<1>1. {} \in P
  BY SumOfNone
<1>2. ASSUME NEW T \in SUBSET S, NEW x \in S, x \notin T, T \in P PROVE T \cup {x} \in P
  <2>1. Ints(g, S)
    BY DEF Ints
  <2>2. Sigma(f, T \cup {x}) = Sigma(f, T) + f[x] /\ Sigma(g, T \cup {x}) = Sigma(g, T) + g[x]
    BY <1>2, <2>1, SumMore
  <2>3. T \cup {x} \in SUBSET S
    OBVIOUS
  <2> QED
    BY <1>2, <2>2, <2>3
<1> HIDE DEF P
<1>3. S \in P
  BY <1>1, <1>2, Enumerated
<1> QED
  BY <1>3 DEF P

\* The sum of sums.
LEMMA SumPlus ==
  ASSUME NEW S, IsFiniteSet(S), NEW f, Ints(f, S), NEW g, Ints(g, S), NEW h, \A x \in S : h[x] = f[x] + g[x]
  PROVE  Sigma(h, S) = Sigma(f, S) + Sigma(g, S)
<1> DEFINE P == {T \in SUBSET S : Sigma(h, T) = Sigma(f, T) + Sigma(g, T)}
<1>1. {} \in P
  BY SumOfNone
<1>2. ASSUME NEW T \in SUBSET S, NEW x \in S, x \notin T, T \in P PROVE T \cup {x} \in P
  <2>1. Ints(h, S)
    BY DEF Ints
  <2>2. /\ Sigma(f, T) \in Int /\ f[x] \in Int /\ Sigma(f, T \cup {x}) = Sigma(f, T) + f[x]
        /\ Sigma(g, T) \in Int /\ g[x] \in Int /\ Sigma(g, T \cup {x}) = Sigma(g, T) + g[x]
        /\ Sigma(h, T) \in Int /\ h[x] \in Int /\ Sigma(h, T \cup {x}) = Sigma(h, T) + h[x]
    BY <1>2, <2>1, SumMore
  <2>3. T \cup {x} \in SUBSET S /\ h[x] = f[x] + g[x] /\ Sigma(h, T) = Sigma(f, T) + Sigma(g, T)
    BY <1>2
  <2>4. Sigma(h, T \cup {x}) = Sigma(f, T \cup {x}) + Sigma(g, T \cup {x})
    BY <2>2, <2>3
  <2> QED
    BY <2>3, <2>4
<1> HIDE DEF P
<1>3. S \in P
  BY <1>1, <1>2, Enumerated
<1> QED
  BY <1>3 DEF P

LEMMA Distributes ==
  ASSUME NEW a \in Int, NEW b \in Int, NEW c \in Int
  PROVE  (a + b) * c = a * c + b * c /\ c * (a + b) = c * a + c * b /\ a * c = c * a /\ a * c \in Int
OBVIOUS

\* A common factor is taken out.
LEMMA SumTimes ==
  ASSUME NEW S, IsFiniteSet(S), NEW f, Ints(f, S), NEW k \in Int, NEW h, \A x \in S : h[x] = k * f[x]
  PROVE  Sigma(h, S) = k * Sigma(f, S)
<1> DEFINE P == {T \in SUBSET S : Sigma(h, T) = k * Sigma(f, T)}
<1>1. {} \in P
  BY SumOfNone
<1>2. ASSUME NEW T \in SUBSET S, NEW x \in S, x \notin T, T \in P PROVE T \cup {x} \in P
  <2>1. Ints(h, S)
    BY Distributes DEF Ints
  <2>2. /\ Sigma(f, T) \in Int /\ f[x] \in Int /\ Sigma(f, T \cup {x}) = Sigma(f, T) + f[x]
        /\ Sigma(h, T \cup {x}) = Sigma(h, T) + h[x]
    <3>1. Sigma(f, T) \in Int /\ f[x] \in Int /\ Sigma(f, T \cup {x}) = Sigma(f, T) + f[x]
      <4>1. IsFiniteSet(S) /\ Ints(f, S) /\ T \in SUBSET S /\ x \in S /\ x \notin T
        BY <1>2
      <4> HIDE DEF P
      <4> QED
        BY <4>1, SumMore, ZenonT(30)
    <3>2. Sigma(h, T \cup {x}) = Sigma(h, T) + h[x]
      BY <1>2, <2>1, SumMore
    <3> QED
      BY <3>1, <3>2
  <2>3. T \cup {x} \in SUBSET S /\ h[x] = k * f[x] /\ Sigma(h, T) = k * Sigma(f, T)
    BY <1>2
  <2>4. k * (Sigma(f, T) + f[x]) = k * Sigma(f, T) + k * f[x]
    BY <2>2, Distributes
  <2> QED
    BY <2>2, <2>3, <2>4
<1> HIDE DEF P
<1>3. S \in P
  BY <1>1, <1>2, Enumerated
<1> QED
  BY <1>3 DEF P

\* Smaller terms, a smaller sum.
LEMMA SumAtMost ==
  ASSUME NEW S, IsFiniteSet(S), NEW f, Ints(f, S), NEW g, Ints(g, S), \A x \in S : f[x] <= g[x]
  PROVE  Sigma(f, S) <= Sigma(g, S)
<1> DEFINE P == {T \in SUBSET S : Sigma(f, T) <= Sigma(g, T)}
<1>1. {} \in P
  BY SumOfNone
<1>2. ASSUME NEW T \in SUBSET S, NEW x \in S, x \notin T, T \in P PROVE T \cup {x} \in P
  <2>2. /\ Sigma(f, T) \in Int /\ f[x] \in Int /\ Sigma(f, T \cup {x}) = Sigma(f, T) + f[x]
        /\ Sigma(g, T) \in Int /\ g[x] \in Int /\ Sigma(g, T \cup {x}) = Sigma(g, T) + g[x]
    BY <1>2, SumMore
  <2>3. T \cup {x} \in SUBSET S /\ f[x] <= g[x] /\ Sigma(f, T) <= Sigma(g, T)
    BY <1>2
  <2>4. Sigma(f, T \cup {x}) <= Sigma(g, T \cup {x})
    BY <2>2, <2>3
  <2> QED
    BY <2>3, <2>4
<1> HIDE DEF P
<1>3. S \in P
  BY <1>1, <1>2, Enumerated
<1> QED
  BY <1>3 DEF P

\* The same term as often as there are members.
LEMMA SumConst ==
  ASSUME NEW S, IsFiniteSet(S), NEW k \in Int, NEW f, \A x \in S : f[x] = k
  PROVE  Sigma(f, S) = k * Cardinality(S)
<1> DEFINE P == {T \in SUBSET S : Sigma(f, T) = k * Cardinality(T)}
<1>1. {} \in P
  BY SumOfNone, FS_EmptySet
<1>2. ASSUME NEW T \in SUBSET S, NEW x \in S, x \notin T, T \in P PROVE T \cup {x} \in P
  <2>1. Ints(f, S) /\ IsFiniteSet(T)
    BY FS_Subset DEF Ints
  <2>2. Sigma(f, T \cup {x}) = Sigma(f, T) + k
    BY <1>2, <2>1, SumMore
  <2>3. Cardinality(T \cup {x}) = Cardinality(T) + 1 /\ Cardinality(T) \in Nat
    BY <1>2, <2>1, FS_AddElement, FS_CardinalityType
  <2>4. k * (Cardinality(T) + 1) = k * Cardinality(T) + k * 1 /\ k * 1 = k
    BY <2>3, Distributes
  <2>5. T \cup {x} \in SUBSET S /\ Sigma(f, T) = k * Cardinality(T)
    BY <1>2
  <2> QED
    BY <2>2, <2>3, <2>4, <2>5
<1> HIDE DEF P
<1>3. S \in P
  BY <1>1, <1>2, Enumerated
<1> QED
  BY <1>3 DEF P

\* Two sets apart add up to the sum over both.
LEMMA SumUnion ==
  ASSUME NEW A, IsFiniteSet(A), NEW B, IsFiniteSet(B), A \cap B = {}, NEW f, Ints(f, A \cup B)
  PROVE  Sigma(f, A \cup B) = Sigma(f, A) + Sigma(f, B)
<1> DEFINE P == {T \in SUBSET B : Sigma(f, A \cup T) = Sigma(f, A) + Sigma(f, T)}
<1>0. IsFiniteSet(A \cup B) /\ Ints(f, A) /\ Ints(f, B)
  BY FS_Union DEF Ints
<1>1. {} \in P
  <2>1. A \cup {} = A /\ Sigma(f, A) \in Int
    BY <1>0, SumInt
  <2> QED
    BY <2>1, SumOfNone
<1>2. ASSUME NEW T \in SUBSET B, NEW x \in B, x \notin T, T \in P PROVE T \cup {x} \in P
  <2>1. /\ A \cup T \in SUBSET (A \cup B) /\ x \in A \cup B /\ x \notin A \cup T
        /\ A \cup (T \cup {x}) = (A \cup T) \cup {x} /\ T \cup {x} \in SUBSET B
    BY <1>2
  <2>2. Sigma(f, A \cup (T \cup {x})) = Sigma(f, A \cup T) + f[x]
    <3> DEFINE U == A \cup T  W == A \cup B
    <3>1. U \in SUBSET W /\ x \in W /\ x \notin U /\ IsFiniteSet(W) /\ Ints(f, W)
      BY <1>0, <2>1
    <3> HIDE DEF U, W
    <3>2. Sigma(f, U \cup {x}) = Sigma(f, U) + f[x]
      BY <3>1, SumMore
    <3> QED
      BY <2>1, <3>2 DEF U
  <2>3. Sigma(f, T \cup {x}) = Sigma(f, T) + f[x] /\ Sigma(f, T) \in Int /\ f[x] \in Int
    BY <1>0, <1>2, SumMore
  <2>5. Sigma(f, A) \in Int
    BY <1>0, SumInt
  <2>4. Sigma(f, A \cup T) = Sigma(f, A) + Sigma(f, T)
    BY <1>2
  <2> QED
    BY <2>1, <2>2, <2>3, <2>4, <2>5
<1> HIDE DEF P
<1>3. B \in P
  BY <1>1, <1>2, Enumerated
<1> QED
  BY <1>3 DEF P

\* With no term below nothing, a part adds up to no more than the whole.
LEMMA SumOfPart ==
  ASSUME NEW S, IsFiniteSet(S), NEW f, Ints(f, S), \A x \in S : f[x] >= 0, NEW A \in SUBSET S
  PROVE  Sigma(f, A) <= Sigma(f, S) /\ 0 <= Sigma(f, A)
<1>1. IsFiniteSet(A) /\ IsFiniteSet(S \ A) /\ A \cap (S \ A) = {} /\ A \cup (S \ A) = S /\ Ints(f, A) /\ Ints(f, S \ A)
  BY FS_Subset DEF Ints
<1>2. Sigma(f, S) = Sigma(f, A) + Sigma(f, S \ A)
  BY <1>1, SumUnion
<1> DEFINE zero == [x \in S |-> 0]
<1>3. ASSUME NEW T \in SUBSET S, IsFiniteSet(T) PROVE Sigma(f, T) \in Int /\ 0 <= Sigma(f, T)
  <2>1. Ints(f, T) /\ Ints(zero, T) /\ \A x \in T : zero[x] <= f[x] /\ zero[x] = 0
    BY DEF Ints
  <2>2. Sigma(zero, T) <= Sigma(f, T)
    BY <1>3, <2>1, SumAtMost
  <2>3. Sigma(zero, T) = 0 * Cardinality(T) /\ Cardinality(T) \in Nat
    BY <1>3, <2>1, SumConst, FS_CardinalityType
  <2>4. Sigma(f, T) \in Int
    BY <1>3, <2>1, SumInt
  <2> QED
    BY <2>2, <2>3, <2>4
<1>4. /\ Sigma(f, A) \in Int /\ 0 <= Sigma(f, A)
      /\ Sigma(f, S \ A) \in Int /\ 0 <= Sigma(f, S \ A)
  BY <1>1, <1>3
<1> QED
  BY <1>2, <1>4

Classes(f, key, K, T) == [m \in K |-> Sigma(f, {x \in T : key[x] = m})]

\* A sum may be taken class by class.
LEMMA SumOfClasses ==
  ASSUME NEW S, IsFiniteSet(S), NEW f, Ints(f, S), NEW K, IsFiniteSet(K), NEW key, \A x \in S : key[x] \in K
  PROVE  Sigma(Classes(f, key, K, S), K) = Sigma(f, S) /\ Ints(Classes(f, key, K, S), K)
<1> USE DEF Classes
<1> DEFINE P == {T \in SUBSET S : Sigma(Classes(f, key, K, T), K) = Sigma(f, T)}
<1>0. ASSUME NEW T \in SUBSET S PROVE Ints(Classes(f, key, K, T), K)
  <2> SUFFICES ASSUME NEW m \in K PROVE Sigma(f, {x \in T : key[x] = m}) \in Int
    BY DEF Ints
  <2>1. {x \in T : key[x] = m} \in SUBSET S
    OBVIOUS
  <2> QED
    BY <2>1, FS_Subset, SumInt DEF Ints
<1>1. {} \in P
  <2>1. \A m \in K : {x \in {} : key[x] = m} = {}
    OBVIOUS
  <2>2. \A m \in K : Classes(f, key, K, {})[m] = 0
    BY <2>1, SumOfNone
  <2>3. Sigma(Classes(f, key, K, {}), K) = 0 * Cardinality(K) /\ Cardinality(K) \in Nat
    BY <2>2, SumConst, FS_CardinalityType
  <2> QED
    BY <2>3, SumOfNone
<1>2. ASSUME NEW T \in SUBSET S, NEW x \in S, x \notin T, T \in P PROVE T \cup {x} \in P
  <2> DEFINE k == key[x]
             a == Classes(f, key, K, T)
             b == Classes(f, key, K, T \cup {x})
  <2>1. k \in K /\ K = (K \ {k}) \cup {k} /\ k \notin K \ {k} /\ T \cup {x} \in SUBSET S
    OBVIOUS
  <2>2. ASSUME NEW m \in K PROVE b[m] = IF m = k THEN a[m] + f[x] ELSE a[m]
    <3> DEFINE U == {y \in T : key[y] = m}
    <3>1. CASE m = k
      <4>1. {y \in T \cup {x} : key[y] = m} = U \cup {x} /\ U \in SUBSET S /\ x \notin U
        BY <1>2, <3>1
      <4>3. a[m] = Sigma(f, U) /\ b[m] = Sigma(f, U \cup {x})
        BY <4>1
      <4> HIDE DEF U
      <4>2. Sigma(f, U \cup {x}) = Sigma(f, U) + f[x]
        BY <4>1, SumMore
      <4> QED
        BY <3>1, <4>2, <4>3
    <3>2. CASE m # k
      <4>1. {y \in T \cup {x} : key[y] = m} = U
        BY <3>2
      <4> QED
        BY <3>2, <4>1
    <3> QED
      BY <3>1, <3>2
  <2>3. Ints(a, K) /\ Ints(b, K)
    BY <1>0, <2>1
  <2> HIDE DEF a, b, k
  <2>4. IsFiniteSet(K \ {k}) /\ Ints(a, K \ {k}) /\ \A m \in K \ {k} : b[m] = a[m]
    BY <2>2, <2>3, FS_Subset DEF Ints
  <2>5. Sigma(b, K \ {k}) = Sigma(a, K \ {k})
    BY <2>4, SumAlike
  <2>6. /\ Sigma(a, K) = Sigma(a, K \ {k}) + a[k] /\ Sigma(b, K) = Sigma(b, K \ {k}) + b[k]
        /\ Sigma(a, K \ {k}) \in Int /\ a[k] \in Int
    <3> DEFINE Q == K \ {k}
    <3>1. Q \in SUBSET K /\ k \in K /\ k \notin Q /\ Q \cup {k} = K
      BY <2>1
    <3> HIDE DEF Q
    <3>2. Sigma(a, Q \cup {k}) = Sigma(a, Q) + a[k]
      BY <2>3, <3>1, SumMore
    <3>4. Sigma(a, Q) \in Int /\ a[k] \in Int
      BY <2>3, <3>1, SumMore
    <3>3. Sigma(b, Q \cup {k}) = Sigma(b, Q) + b[k]
      BY <2>3, <3>1, SumMore
    <3> QED
      BY <3>1, <3>2, <3>3, <3>4 DEF Q
  <2>7. Sigma(f, T \cup {x}) = Sigma(f, T) + f[x] /\ f[x] \in Int
    <3>1. T \in SUBSET S /\ x \in S /\ x \notin T /\ IsFiniteSet(S) /\ Ints(f, S)
      BY <1>2
    <3> QED
      BY <3>1, SumMore
  <2>8. Sigma(a, K) = Sigma(f, T)
    BY <1>2 DEF a
  <2>9. Sigma(b, K) = Sigma(f, T \cup {x})
    BY <2>1, <2>2, <2>5, <2>6, <2>7, <2>8
  <2> QED
    BY <2>1, <2>9 DEF b
<1> HIDE DEF P
<1>3. S \in P
  BY <1>1, <1>2, Enumerated
<1>4. Sigma(Classes(f, key, K, S), K) = Sigma(f, S)
  BY <1>3 DEF P
<1> QED
  BY <1>0, <1>4

\* A sum may be taken class by class.
Classed(f, S, key, part, h, K) ==
  /\ IsFiniteSet(S) /\ IsFiniteSet(K) /\ Ints(f, S)
  /\ \A x \in S : key[x] \in K
  /\ \A m \in K : part[m] = {x \in S : key[x] = m} /\ h[m] = Sigma(f, part[m])

\* So may one whose classes are named by a key.
LEMMA SumByKey ==
  ASSUME NEW f, NEW S, NEW key, NEW part, NEW h, NEW K, Classed(f, S, key, part, h, K)
  PROVE  Sigma(h, K) = Sigma(f, S)
<1>1. \A m \in K : h[m] = Classes(f, key, K, S)[m]
  BY DEF Classes, Classed
<1>2. Sigma(Classes(f, key, K, S), K) = Sigma(f, S) /\ Ints(Classes(f, key, K, S), K)
  BY SumOfClasses DEF Classed
<1> QED
  BY <1>1, <1>2, SumAlike DEF Classed

\* What is off by at most so much, twice.
LEMMA MagAdds ==
  ASSUME NEW a \in Int, NEW b \in Int, NEW m \in Int, NEW n \in Int, 2 * Abs(a) <= m, 2 * Abs(b) <= n
  PROVE  2 * Abs(a + b) <= m + n
BY DEF Abs

\* What each term is off by, their sum is off by.
LEMMA SumRounded ==
  ASSUME NEW S, IsFiniteSet(S), NEW q, Ints(q, S), NEW a, Ints(a, S), NEW r, Ints(r, S), NEW den \in Int,
         \A x \in S : 2 * Abs(q[x] * den - a[x]) <= den * r[x]
  PROVE  2 * Abs(Sigma(q, S) * den - Sigma(a, S)) <= den * Sigma(r, S)
<1> DEFINE P == {T \in SUBSET S : 2 * Abs(Sigma(q, T) * den - Sigma(a, T)) <= den * Sigma(r, T)}
<1>1. {} \in P
  <2>1. 0 * den = 0 /\ den * 0 = 0 /\ 2 * Abs(0 - 0) = 0
    BY DEF Abs
  <2>2. 2 * Abs(Sigma(q, {}) * den - Sigma(a, {})) <= den * Sigma(r, {})
    BY <2>1, SumOfNone
  <2> QED
    BY <2>2
<1>2. ASSUME NEW T \in SUBSET S, NEW x \in S, x \notin T, T \in P PROVE T \cup {x} \in P
  <2> DEFINE Q == Sigma(q, T)  A == Sigma(a, T)  R == Sigma(r, T)
  <2>2. /\ Q \in Int /\ q[x] \in Int /\ Sigma(q, T \cup {x}) = Q + q[x]
        /\ A \in Int /\ a[x] \in Int /\ Sigma(a, T \cup {x}) = A + a[x]
        /\ R \in Int /\ r[x] \in Int /\ Sigma(r, T \cup {x}) = R + r[x]
    BY <1>2, SumMore
  <2>3. T \cup {x} \in SUBSET S /\ 2 * Abs(q[x] * den - a[x]) <= den * r[x] /\ 2 * Abs(Q * den - A) <= den * R
    BY <1>2
  <2> HIDE DEF Q, A, R
  <2>4. /\ (Q + q[x]) * den = Q * den + q[x] * den /\ den * (R + r[x]) = den * R + den * r[x]
        /\ Q * den \in Int /\ q[x] * den \in Int /\ den * R \in Int /\ den * r[x] \in Int
    BY <2>2, Distributes
  <2> DEFINE qd == Q * den  xd == q[x] * den  rd == den * R  rx == den * r[x]
  <2>5. qd \in Int /\ xd \in Int /\ rd \in Int /\ rx \in Int
    BY <2>4
  <2>6. 2 * Abs(xd - a[x]) <= rx /\ 2 * Abs(qd - A) <= rd
    BY <2>3
  <2> HIDE DEF qd, xd, rd, rx
  <2>7. 2 * Abs((qd - A) + (xd - a[x])) <= rd + rx
    <3> DEFINE u == qd - A  v == xd - a[x]
    <3>1. u \in Int /\ v \in Int /\ 2 * Abs(u) <= rd /\ 2 * Abs(v) <= rx
      BY <2>2, <2>5, <2>6
    <3> HIDE DEF u, v
    <3>2. 2 * Abs(u + v) <= rd + rx
      BY <2>5, <3>1, MagAdds
    <3> QED
      BY <3>2 DEF u, v
  <2>8. (qd - A) + (xd - a[x]) = (qd + xd) - (A + a[x])
    BY <2>2, <2>5
  <2>9. 2 * Abs((Q + q[x]) * den - (A + a[x])) <= den * (R + r[x])
    BY <2>4, <2>7, <2>8 DEF qd, xd, rd, rx
  <2> QED
    BY <2>2, <2>3, <2>9
<1> HIDE DEF P
<1>3. S \in P
  BY <1>1, <1>2, Enumerated
<1> QED
  BY <1>3 DEF P

\* The rows first or the columns first.
\* A table adds up to the same by its columns and by its rows.
Table(down, col, K, across, rows, S) ==
  /\ IsFiniteSet(S) /\ IsFiniteSet(K)
  /\ \A x \in S, m \in K : down[m][x] = across[x][m] /\ across[x][m] \in Int
  /\ \A m \in K : col[m] = Sigma(down[m], S)
  /\ \A x \in S : rows[x] = Sigma(across[x], K)

\* A table has one sum, by its rows and by its columns.
LEMMA SumSwap ==
  ASSUME NEW down, NEW col, NEW K, NEW across, NEW rows, NEW S, Table(down, col, K, across, rows, S)
  PROVE  Sigma(col, K) = Sigma(rows, S)
<1> USE DEF Table
<1> DEFINE upTo(T) == [m \in K |-> Sigma(down[m], T)]
           P == {T \in SUBSET S : Sigma(upTo(T), K) = Sigma(rows, T)}
<1>0. /\ \A m \in K : Ints(down[m], S)
      /\ \A x \in S : Ints(across[x], K) /\ \A m \in K : across[x][m] = down[m][x]
  BY DEF Ints
<1>1. Ints(rows, S)
  BY <1>0, SumInt DEF Ints
<1>2. ASSUME NEW T \in SUBSET S PROVE Ints(upTo(T), K)
  BY <1>0, FS_Subset, SumInt DEF Ints
<1>3. {} \in P
  <2>1. \A m \in K : upTo({})[m] = 0
    BY SumOfNone
  <2>2. Sigma(upTo({}), K) = 0 * Cardinality(K) /\ Cardinality(K) \in Nat
    BY <2>1, SumConst, FS_CardinalityType
  <2> QED
    BY <2>2, SumOfNone
<1>4. ASSUME NEW T \in SUBSET S, NEW x \in S, x \notin T, T \in P PROVE T \cup {x} \in P
  <2>1. T \cup {x} \in SUBSET S
    OBVIOUS
  <2>2. \A m \in K : upTo(T \cup {x})[m] = upTo(T)[m] + across[x][m]
    BY <1>0, <1>4, SumMore
  <2>3. Ints(upTo(T), K) /\ Ints(across[x], K)
    BY <1>0, <1>2
  <2>4. Sigma(upTo(T \cup {x}), K) = Sigma(upTo(T), K) + Sigma(across[x], K)
    <3> DEFINE a == upTo(T)  b == across[x]  c == upTo(T \cup {x})
    <3>1. Ints(a, K) /\ Ints(b, K) /\ \A m \in K : c[m] = a[m] + b[m]
      BY <2>2, <2>3
    <3> HIDE DEF a, b, c
    <3>2. Sigma(c, K) = Sigma(a, K) + Sigma(b, K)
      BY <3>1, SumPlus
    <3> QED
      BY <3>2 DEF a, b, c
  <2>5. Sigma(rows, T \cup {x}) = Sigma(rows, T) + rows[x]
    BY <1>1, <1>4, SumMore
  <2> QED
    BY <1>4, <2>1, <2>4, <2>5
<1> HIDE DEF P
<1>5. S \in P
  BY <1>3, <1>4, Enumerated
<1>6. Sigma(upTo(S), K) = Sigma(rows, S)
  BY <1>5 DEF P
<1>7. \A m \in K : col[m] = upTo(S)[m]
  OBVIOUS
<1>8. Ints(upTo(S), K)
  BY <1>2
<1> HIDE DEF upTo
<1>9. Sigma(col, K) = Sigma(upTo(S), K)
  BY <1>7, <1>8, SumAlike
<1> QED
  BY <1>6, <1>9

----------------------------------------------------------------------------
(* The electricity accounts. *)

LedgerInv ==
  /\ readings \in [MeterDay -> Register \cup {Blank}]
  /\ tariffs \in [MeterDay -> Price \cup {Blank}]
  /\ advances \in [MeterDay -> Schedule \cup {Blank}]
  /\ payments \in [Month -> Paid \cup {Blank}]
  /\ periods \subseteq [from : Nat, to : Int] /\ \A p \in periods : p.from <= p.to /\ p.to < LastDay
  /\ MeterRunsForwards

LEMMA DaysAreNumbers ==
  ASSUME LedgerConstants
  PROVE  MeterDay \subseteq Nat /\ Blank \notin MeterDay /\ LastDay \in Nat /\ MeterDay = 0..LastDay
BY DEF LedgerConstants, MeterDay

LEMMA MaxIsThere ==
  ASSUME LedgerConstants, NEW S, S \subseteq MeterDay, S # {}
  PROVE  Max(S) \in S /\ \A y \in S : y <= Max(S)
<1>1. \E x \in S : \A y \in S : y <= x
  BY DaysAreNumbers, GreatestMember
<1>2. \E x \in S : \A y \in S : x >= y
  BY <1>1, DaysAreNumbers
<1> HIDE <1>1
<1>3. Max(S) \in S /\ \A y \in S : Max(S) >= y
  BY <1>2 DEF Max
<1> QED
  BY <1>3, DaysAreNumbers

LEMMA MinIsThere ==
  ASSUME LedgerConstants, NEW S, S \subseteq MeterDay, S # {}
  PROVE  Min(S) \in S /\ \A y \in S : Min(S) <= y
<1>1. \E x \in S : \A y \in S : x <= y
  BY DaysAreNumbers, LeastMember
<1> QED
  BY <1>1 DEF Min

\* A reading that fits between its neighbours fits among all.
LEMMA FitsAmongAll ==
  ASSUME LedgerConstants, LedgerInv,
         NEW own \in MeterDay \cup {Blank}, NEW d \in MeterDay, NEW r \in Register,
         readings[d] = Blank \/ d = own, Monotonic(d, r, own),
         NEW e \in Rows(readings) \ {own}
  PROVE  /\ e <= d => NoLess(readings[e], r)
         /\ d <= e => NoLess(r, readings[e])
<1> DEFINE B == ReadBefore(d, own)  A == ReadAfter(d, own)
<1>1. /\ Rows(readings) = {x \in MeterDay : readings[x] # Blank}
      /\ \A x \in Rows(readings) : readings[x] \in [vt : Nat, nt : Nat]
      /\ r \in [vt : Nat, nt : Nat]
  BY DEF LedgerInv, Rows, LedgerConstants
<1>2. B \subseteq Rows(readings) /\ A \subseteq Rows(readings)
  BY DEF ReadBefore, ReadAfter
<1>3. B \subseteq MeterDay /\ A \subseteq MeterDay /\ e \in Nat /\ d \in Nat
  BY <1>1, <1>2, DaysAreNumbers
<1>4. e # d
  BY <1>1
<1>5. \A x, y \in Rows(readings) : x <= y => NoLess(readings[x], readings[y])
  BY DEF LedgerInv, MeterRunsForwards
<1>6. CASE e < d
  <2>1. e \in B
    BY <1>6 DEF ReadBefore
  <2>2. PICK m \in B : m = Max(B) /\ e <= m
    BY <1>3, <2>1, MaxIsThere
  <2>3. NoLess(readings[m], r)
    BY <2>1, <2>2 DEF Monotonic
  <2>4. NoLess(readings[e], readings[m])
    BY <1>2, <1>5, <2>2
  <2>5. NoLess(readings[e], r)
    BY <1>1, <1>2, <2>2, <2>3, <2>4 DEF NoLess
  <2> QED
    BY <1>3, <1>6, <2>5
<1>7. CASE e > d
  <2>1. e \in A
    BY <1>7 DEF ReadAfter
  <2>2. PICK m \in A : m = Min(A) /\ m <= e
    BY <1>3, <2>1, MinIsThere
  <2>3. NoLess(r, readings[m])
    BY <2>1, <2>2 DEF Monotonic
  <2>4. NoLess(readings[m], readings[e])
    BY <1>2, <1>5, <2>2
  <2>5. NoLess(r, readings[e])
    BY <1>1, <1>2, <2>2, <2>3, <2>4 DEF NoLess
  <2> QED
    BY <1>3, <1>7, <2>5
<1> QED
  BY <1>3, <1>4, <1>6, <1>7

\* Such a table: a register never runs backwards.
InLine(table) == \A d, e \in Rows(table) : d <= e => NoLess(table[d], table[e])

\* What writes no reading and no period keeps both.
LEMMA TablesStay ==
  ASSUME LedgerInv, UNCHANGED <<readings, periods>>,
         tariffs' \in [MeterDay -> Price \cup {Blank}], advances' \in [MeterDay -> Schedule \cup {Blank}],
         payments' \in [Month -> Paid \cup {Blank}]
  PROVE  LedgerInv'
BY DEF LedgerInv, MeterRunsForwards, Rows, NoLess, Overlaps

\* And what writes readings in line keeps them.
LEMMA ReadingsWritten ==
  ASSUME LedgerInv, UNCHANGED <<tariffs, advances, payments, periods>>,
         readings' \in [MeterDay -> Register \cup {Blank}], InLine(readings')
  PROVE  LedgerInv'
BY DEF LedgerInv, MeterRunsForwards, InLine, Rows, NoLess, Overlaps

LEMMA PeriodsWritten ==
  ASSUME LedgerInv, UNCHANGED <<readings, tariffs, advances, payments>>,
         periods' \subseteq [from : Nat, to : Int],
         \A p \in periods' : p.from <= p.to /\ p.to < LastDay,
         \A p, q \in periods' : p # q => ~Overlaps(p, q)
  PROVE  LedgerInv'
BY DEF LedgerInv, MeterRunsForwards, Rows, NoLess, Overlaps

LEMMA CreateReadingKeeps ==
  ASSUME LedgerConstants, LedgerInv, NEW d \in ReadOn, NEW r \in Register, CreateReading(d, r)
  PROVE  LedgerInv'
<1>1. d \in MeterDay /\ Blank \notin Register /\ r \in [vt : Nat, nt : Nat] /\ d \in Nat /\ d # Blank
  BY DaysAreNumbers DEF LedgerConstants
<1>2. readings \in [MeterDay -> Register \cup {Blank}] /\ readings' = [readings EXCEPT ![d] = r] /\ readings[d] = Blank
  BY DEF LedgerInv, CreateReading
<1>3. readings' \in [MeterDay -> Register \cup {Blank}]
  BY <1>1, <1>2
<1>4. \A x \in Rows(readings') : x = d \/ (x \in Rows(readings) \ {Blank} /\ readings'[x] = readings[x])
  BY <1>1, <1>2, <1>3, DaysAreNumbers DEF Rows
<1>5. \A e \in Rows(readings) \ {Blank} :
        (e <= d => NoLess(readings[e], r)) /\ (d <= e => NoLess(r, readings[e]))
  BY <1>1, <1>2, FitsAmongAll DEF CreateReading
<1>6. readings'[d] = r /\ NoLess(r, r)
  BY <1>1, <1>2 DEF NoLess
<1>7. InLine(readings)
  BY DEF LedgerInv, MeterRunsForwards, InLine
<1>8. InLine(readings')
  BY <1>4, <1>5, <1>6, <1>7 DEF InLine
<1> QED
  BY <1>3, <1>8, ReadingsWritten DEF CreateReading

LEMMA UpdateReadingKeeps ==
  ASSUME LedgerConstants, LedgerInv, NEW d \in ReadOn, NEW e \in ReadOn, NEW r \in Register,
         UpdateReading(d, e, r)
  PROVE  LedgerInv'
<1>1. d \in MeterDay /\ e \in MeterDay /\ Blank \notin Register /\ r \in [vt : Nat, nt : Nat] /\ d # Blank
  BY DaysAreNumbers DEF LedgerConstants
<1>2. /\ readings \in [MeterDay -> Register \cup {Blank}] /\ readings[d] # Blank
      /\ readings' = [[readings EXCEPT ![d] = Blank] EXCEPT ![e] = r]
  BY DEF LedgerInv, UpdateReading, Moved
<1>3. readings' \in [MeterDay -> Register \cup {Blank}]
  BY <1>1, <1>2
<1>4. \A x \in Rows(readings') : x = e \/ (x \in Rows(readings) \ {d} /\ readings'[x] = readings[x])
  BY <1>1, <1>2, <1>3 DEF Rows
<1>5. readings'[e] = r /\ NoLess(r, r)
  BY <1>1, <1>2 DEF NoLess
<1>6. InLine(readings)
  BY DEF LedgerInv, MeterRunsForwards, InLine
<1>7. \A x \in Rows(readings) \ {d} :
        (x <= e => NoLess(readings[x], r)) /\ (e <= x => NoLess(r, readings[x]))
  <2>1. CASE e # d \/ r # readings[d]
    BY <1>1, <2>1, FitsAmongAll DEF UpdateReading, Free
  <2>2. CASE e = d /\ r = readings[d]
    <3>1. d \in Rows(readings)
      BY <1>1, <1>2 DEF Rows
    <3> QED
      BY <1>6, <2>2, <3>1 DEF InLine
  <2> QED
    BY <2>1, <2>2
<1>8. InLine(readings')
  BY <1>4, <1>5, <1>6, <1>7 DEF InLine
<1> QED
  BY <1>3, <1>8, ReadingsWritten DEF UpdateReading

LEMMA DeleteReadingKeeps ==
  ASSUME LedgerConstants, LedgerInv, NEW d \in MeterDay, DeleteReading(d)
  PROVE  LedgerInv'
<1>1. readings \in [MeterDay -> Register \cup {Blank}] /\ readings' = [readings EXCEPT ![d] = Blank]
  BY DEF LedgerInv, DeleteReading
<1>2. readings' \in [MeterDay -> Register \cup {Blank}]
  BY <1>1
<1>3. \A x \in Rows(readings') : x \in Rows(readings) /\ readings'[x] = readings[x]
  BY <1>1, <1>2 DEF Rows
<1>4. InLine(readings)
  BY DEF LedgerInv, MeterRunsForwards, InLine
<1>5. InLine(readings')
  BY <1>3, <1>4 DEF InLine
<1> QED
  BY <1>2, <1>5, ReadingsWritten DEF DeleteReading

LEMMA LedgerBegins ==
  ASSUME LedgerConstants
  PROVE  LedgerInit => LedgerInv
<1> SUFFICES ASSUME LedgerInit PROVE LedgerInv
  OBVIOUS
<1>1. Rows(readings) = {} /\ periods = {}
  BY DEF LedgerInit, Rows
<1> QED
  BY <1>1 DEF LedgerInv, LedgerInit, MeterRunsForwards

LEMMA LedgerGoesOn ==
  ASSUME LedgerConstants
  PROVE  LedgerInv /\ [LedgerNext]_(ledger) => LedgerInv'
<1> SUFFICES ASSUME LedgerInv, [LedgerNext]_(ledger) PROVE LedgerInv'
  OBVIOUS
<1> USE DEF LedgerInv
<1>0. CASE UNCHANGED ledger
  BY <1>0, TablesStay DEF ledger
<1>1. CASE \/ \E d \in ReadOn, r \in Register : CreateReading(d, r)
           \/ \E d, e \in ReadOn, r \in Register : UpdateReading(d, e, r)
           \/ \E d \in MeterDay : DeleteReading(d)
  BY <1>1, CreateReadingKeeps, UpdateReadingKeeps, DeleteReadingKeeps
<1>2. CASE \/ \E d \in From, t \in Price : CreateTariff(d, t)
           \/ \E d, e \in From, t \in Price : UpdateTariff(d, e, t)
           \/ \E d \in MeterDay : DeleteTariff(d)
  <2>1. tariffs' \in [MeterDay -> Price \cup {Blank}]
    BY <1>2 DEF CreateTariff, UpdateTariff, DeleteTariff, Moved, LedgerConstants
  <2>2. UNCHANGED <<readings, periods, advances, payments>>
    BY <1>2 DEF CreateTariff, UpdateTariff, DeleteTariff
  <2> QED
    BY <2>1, <2>2, TablesStay
<1>3. CASE \/ \E d \in From, a \in Schedule : CreateAdvance(d, a)
           \/ \E d, e \in From, a \in Schedule : UpdateAdvance(d, e, a)
           \/ \E d \in MeterDay : DeleteAdvance(d)
  <2>1. advances' \in [MeterDay -> Schedule \cup {Blank}]
    BY <1>3 DEF CreateAdvance, UpdateAdvance, DeleteAdvance, Moved, LedgerConstants
  <2>2. UNCHANGED <<readings, periods, tariffs, payments>>
    BY <1>3 DEF CreateAdvance, UpdateAdvance, DeleteAdvance
  <2> QED
    BY <2>1, <2>2, TablesStay
<1>4. CASE \/ \E m \in Month, k \in Paid : CreatePayment(m, k)
           \/ \E m, n \in Month, k \in Paid : UpdatePayment(m, n, k)
           \/ \E m \in Month : DeletePayment(m)
  <2>1. UNCHANGED <<readings, periods, tariffs, advances>>
    BY <1>4 DEF CreatePayment, UpdatePayment, DeletePayment
  <2>2. payments' \in [Month -> Paid \cup {Blank}]
    BY <1>4 DEF CreatePayment, UpdatePayment, DeletePayment, Moved
  <2> QED
    BY <2>1, <2>2, TablesStay
<1>5. CASE \/ \E s \in Span : CreatePeriod(Entered(s))
           \/ \E p \in periods, s \in Span : UpdatePeriod(p, Entered(s))
           \/ \E p \in periods : DeletePeriod(p)
  <2>1. \A s \in Span : Entered(s) \in [from : Nat, to : Int] /\ Entered(s).to < LastDay
    BY DEF Entered, LedgerConstants
  <2>2. periods' \subseteq [from : Nat, to : Int]
    BY <1>5, <2>1 DEF CreatePeriod, UpdatePeriod, DeletePeriod
  <2>7. \A p \in periods' : p.from <= p.to /\ p.to < LastDay
    BY <1>5, <2>1 DEF CreatePeriod, UpdatePeriod, DeletePeriod
  <2>3. \A p, q \in periods : p # q => ~Overlaps(p, q)
    BY DEF MeterRunsForwards
  <2>4. \A p, q : Overlaps(p, q) => Overlaps(q, p)
    BY DEF Overlaps
  <2>5. \A p, q \in periods' : p # q => ~Overlaps(p, q)
    BY <1>5, <2>3, <2>4 DEF CreatePeriod, UpdatePeriod, DeletePeriod
  <2>6. UNCHANGED <<readings, tariffs, advances, payments>>
    BY <1>5 DEF CreatePeriod, UpdatePeriod, DeletePeriod
  <2> QED
    BY <2>2, <2>5, <2>6, <2>7, PeriodsWritten
<1> QED
  BY <1>0, <1>1, <1>2, <1>3, <1>4, <1>5 DEF LedgerNext


\* A row is in force where one began.
LEMMA InForceIsThere ==
  ASSUME LedgerConstants, NEW row, NEW table \in [MeterDay -> row], NEW d \in Nat
  PROVE  /\ InForce(table, d) # Blank <=> \E e \in Rows(table) : e <= d
         /\ InForce(table, d) # Blank => InForce(table, d) \in Rows(table)
<1> DEFINE S == {e \in Rows(table) : e <= d}
<1>1. S \subseteq MeterDay
  BY DEF Rows
<1>2. InForce(table, d) = IF S = {} THEN Blank ELSE Max(S)
  BY DEF InForce
<1>3. CASE S = {}
  BY <1>2, <1>3
<1>4. CASE S # {}
  <2>1. Max(S) \in S
    BY <1>1, <1>4, MaxIsThere
  <2>2. Max(S) # Blank
    BY <1>1, <2>1, DaysAreNumbers
  <2> QED
    BY <1>2, <1>4, <2>1, <2>2
<1> QED
  BY <1>3, <1>4

LEMMA TariffsStay ==
  ASSUME LedgerConstants, LedgerInv, LedgerInv', [LedgerNext]_(ledger)
  PROVE  StaysCovered
<1> SUFFICES ASSUME NEW p \in periods, InForce(tariffs, p.from) # Blank
             PROVE  InForce(tariffs', p.from) # Blank
  BY DEF StaysCovered, Covered, InForce, Rows, Max
<1>1. p.from \in Nat /\ tariffs \in [MeterDay -> Price \cup {Blank}] /\ tariffs' \in [MeterDay -> Price \cup {Blank}]
  BY DEF LedgerInv
<1>2. Rows(tariffs) = {x \in MeterDay : tariffs[x] # Blank} /\ Rows(tariffs') = {x \in MeterDay : tariffs'[x] # Blank}
  BY <1>1 DEF Rows
<1>3. PICK x \in Rows(tariffs) : x <= p.from
  BY <1>1, InForceIsThere
<1>4. \A y \in MeterDay : y \in Nat
  BY DaysAreNumbers
<1>5. \E y \in Rows(tariffs') : y <= p.from
  <2>1. CASE tariffs' = tariffs
    BY <1>3, <2>1
  <2>2. CASE \E d \in From, t \in Price : CreateTariff(d, t)
    <3>1. PICK d \in From, t \in Price : tariffs[d] = Blank /\ tariffs' = [tariffs EXCEPT ![d] = t]
      BY <2>2 DEF CreateTariff
    <3>2. x \in Rows(tariffs')
      BY <1>1, <1>2, <1>3, <3>1
    <3> QED
      BY <1>3, <3>2
  <2>3. CASE \E d, e \in From, t \in Price : UpdateTariff(d, e, t)
    <3>1. PICK d \in From, e \in From, t \in Price : UpdateTariff(d, e, t)
      BY <2>3
    <3>2. /\ d \in MeterDay /\ e \in MeterDay /\ t # Blank
          /\ tariffs' = [[tariffs EXCEPT ![d] = Blank] EXCEPT ![e] = t]
      BY <3>1 DEF UpdateTariff, Moved, LedgerConstants
    <3>3. e \in Rows(tariffs')
      BY <1>1, <1>2, <3>2
    <3>4. \A y \in Rows(tariffs) \ {d} : y \in Rows(tariffs')
      BY <1>1, <1>2, <3>2
    <3>5. CASE p \in PeriodsNeedingTariff(d) /\ e # d
      BY <3>1, <3>3, <3>5 DEF UpdateTariff
    <3>6. CASE p \notin PeriodsNeedingTariff(d)
      <4>1. CASE x = d
        <5>1. PICK y \in Rows(tariffs) \ {d} : ~(y > p.from)
          BY <1>3, <3>6, <4>1 DEF PeriodsNeedingTariff
        <5>2. y <= p.from
          BY <1>1, <1>2, <1>4, <5>1
        <5> QED
          BY <3>4, <5>1, <5>2
      <4>2. CASE x # d
        BY <1>3, <3>4, <4>2
      <4> QED
        BY <4>1, <4>2
    <3>7. CASE e = d
      BY <1>3, <3>3, <3>4, <3>7
    <3> QED
      BY <3>5, <3>6, <3>7
  <2>4. CASE \E d \in MeterDay : DeleteTariff(d)
    <3>1. PICK d \in MeterDay : PeriodsNeedingTariff(d) = {} /\ tariffs' = [tariffs EXCEPT ![d] = Blank]
      BY <2>4 DEF DeleteTariff
    <3>2. \A y \in Rows(tariffs) \ {d} : y \in Rows(tariffs')
      BY <1>1, <1>2, <3>1
    <3>3. CASE x = d
      <4>1. PICK y \in Rows(tariffs) \ {d} : ~(y > p.from)
        BY <1>3, <3>1, <3>3 DEF PeriodsNeedingTariff
      <4>2. y <= p.from
        BY <1>1, <1>2, <1>4, <4>1
      <4> QED
        BY <3>2, <4>1, <4>2
    <3>4. CASE x # d
      BY <1>3, <3>2, <3>4
    <3> QED
      BY <3>3, <3>4
  <2>5. tariffs' = tariffs \/ (\E d \in From, t \in Price : CreateTariff(d, t))
        \/ (\E d, e \in From, t \in Price : UpdateTariff(d, e, t)) \/ (\E d \in MeterDay : DeleteTariff(d))
    BY DEF LedgerNext, ledger, CreateReading, UpdateReading, DeleteReading,
      CreateAdvance, UpdateAdvance, DeleteAdvance, CreatePayment,
      UpdatePayment, DeletePayment, CreatePeriod, UpdatePeriod, DeletePeriod
  <2> QED
    BY <2>1, <2>2, <2>3, <2>4, <2>5
<1> QED
  BY <1>1, <1>5, InForceIsThere

\* A rounded quotient is within half of the divisor of what was divided.
LEMMA RoundedOnce ==
  ASSUME NEW n \in Nat, NEW den \in Nat \ {0}
  PROVE  Within(DivRound(n, den), n, den, 1)
<1> DEFINE h == den \div 2
           q == (n + h) \div den
           r == (n + h) % den
<1>1. h \in Nat /\ 2 * h <= den /\ den <= 2 * h + 1
  OBVIOUS
<1>2. q \in Nat /\ r \in Nat /\ r < den /\ n + h = den * q + r
  BY <1>1, SMTT(30)
<1>3. DivRound(n, den) = q
  BY DEF DivRound
<1>4. den * q = q * den
  BY <1>2
<1> HIDE DEF h, q, r
<1> DEFINE z == q * den
<1>5. z \in Int /\ n + h = z + r
  BY <1>1, <1>2, <1>4
<1> HIDE DEF z
<1>6. 2 * (z - n) <= den /\ 2 * (n - z) <= den
  BY <1>1, <1>2, <1>5
<1>7. 2 * Abs(z - n) <= den * 1
  BY <1>5, <1>6 DEF Abs
<1> QED
  BY <1>3, <1>7 DEF Within, z

\* What the headroom says is left buys no more than is left.
LEMMA HeadroomKept ==
  ASSUME LedgerConstants, LedgerInv
  PROVE  HeadroomFits
<1> SUFFICES ASSUME NEW p \in periods, NEW today \in MeterDay, Budget(p, today) # Blank,
                    tariffs[RowOn(tariffs, p, today)].vt > 0
             PROVE  LET price == tariffs[RowOn(tariffs, p, today)].vt
                    IN Within(Buys(p, today), Budget(p, today) * Scale, price, 1)
  BY DEF HeadroomFits
<1> DEFINE t == RowOn(tariffs, p, today)
           a == RowOn(advances, p, today)
           b == Budget(p, today)
<1>1. p.from \in Nat /\ today \in Nat /\ tariffs \in [MeterDay -> Price \cup {Blank}] /\ advances \in [MeterDay -> Schedule \cup {Blank}]
  BY DaysAreNumbers DEF LedgerInv
<1>2. t # Blank /\ a # Blank /\ b = Max({0, advances[a].amount - tariffs[t].fee})
  BY DEF Budget
<1>3. t \in Rows(tariffs) /\ a \in Rows(advances)
  BY <1>1, <1>2, InForceIsThere DEF RowOn
<1>4. tariffs[t] \in [vt : Nat, nt : Nat, fee : Nat] /\ advances[a] \in [amount : Nat, due : Nat]
  BY <1>1, <1>3 DEF Rows, LedgerConstants
<1> DEFINE k == advances[a].amount - tariffs[t].fee
<1>5. k \in Int
  BY <1>4
<1> HIDE DEF k
<1>6. \E x \in {0, k} : \A y \in {0, k} : x >= y
  BY <1>5
<1>7. Max({0, k}) \in {0, k} /\ Max({0, k}) >= 0
  BY <1>5, <1>6 DEF Max
<1>8. b \in Nat
  BY <1>2, <1>5, <1>7 DEF k
<1>9. Scale \in Nat /\ b * Scale \in Nat /\ tariffs[t].vt \in Nat \ {0}
  BY <1>4, <1>8 DEF LedgerConstants
<1>10. Buys(p, today) = DivRound(b * Scale, tariffs[t].vt)
  BY DEF Buys
<1> HIDE DEF b, t
<1>11. Within(DivRound(b * Scale, tariffs[t].vt), b * Scale, tariffs[t].vt, 1)
  BY <1>9, RoundedOnce
<1> QED
  BY <1>10, <1>11 DEF b, t

----------------------------------------------------------------------------
(* What the days of a stretch add up to. *)

\* The least of some days is one of them.
LEMMA LeastOf ==
  ASSUME NEW S, S \subseteq Nat, S # {}
  PROVE  Min(S) \in S /\ \A y \in S : Min(S) <= y
<1>1. \E x \in S : \A y \in S : x <= y
  BY LeastMember
<1> QED
  BY <1>1 DEF Min

\* So is the greatest.
LEMMA GreatestOf ==
  ASSUME NEW n \in Nat, NEW S, S \subseteq 0..n, S # {}
  PROVE  Max(S) \in S /\ \A y \in S : y <= Max(S)
<1>1. \E x \in S : \A y \in S : y <= x
  BY GreatestMember
<1>2. \E x \in S : \A y \in S : x >= y
  BY <1>1
<1>3. Max(S) \in S /\ \A y \in S : Max(S) >= y
  BY <1>2 DEF Max
<1> QED
  BY <1>3

\* A sum over the days of a stretch on which the summand does not change, and over one
\* whose summand is the difference of two days.
LEMMA SumOfSame ==
  ASSUME NEW a \in Int, NEW b \in Int, a <= b, NEW k \in Int, NEW w, \A d \in a..(b - 1) : w[d] = k
  PROVE  Ints(w, a..(b - 1)) /\ Sigma(w, a..(b - 1)) = k * (b - a)
<1>1. IsFiniteSet(a..(b - 1)) /\ Cardinality(a..(b - 1)) = b - a
  BY FS_Interval
<1>2. Sigma(w, a..(b - 1)) = k * Cardinality(a..(b - 1))
  BY <1>1, SumConst
<1>3. Ints(w, a..(b - 1))
  BY DEF Ints
<1> QED
  BY <1>1, <1>2, <1>3

LEMMA Telescopes ==
  ASSUME NEW a \in Int, NEW b \in Int, a <= b, NEW F, \A d \in a..b : F[d] \in Int,
         NEW w, \A d \in a..(b - 1) : w[d] = F[d + 1] - F[d]
  PROVE  Ints(w, a..(b - 1)) /\ Sigma(w, a..(b - 1)) = F[b] - F[a]
<1> DEFINE N == {n \in Nat : a + n <= b /\ Sigma(w, a..(a + n - 1)) # F[a + n] - F[a]}
<1>1. Ints(w, a..(b - 1))
  <2>1. ASSUME NEW d \in a..(b - 1) PROVE w[d] \in Int
    <3>1. d \in a..b /\ d + 1 \in a..b
      OBVIOUS
    <3> QED
      BY <3>1
  <2> QED
    BY <2>1 DEF Ints
<1>2. ASSUME N # {} PROVE FALSE
  <2>1. PICK n \in N : \A m \in N : n <= m
    BY <1>2, LeastMember
  <2>2. n \in Nat /\ a + n <= b
    BY <2>1
  <2>3. CASE n = 0
    <3>1. a..(a + n - 1) = {} /\ F[a] \in Int /\ a + n = a
      BY <2>3
    <3>2. Sigma(w, a..(a + n - 1)) = F[a + n] - F[a]
      BY <3>1, SumOfNone
    <3> QED
      BY <2>1, <3>2
  <2>4. CASE n # 0
    <3> DEFINE T == a..(a + n - 2)  x == a + n - 1  S == a..(b - 1)
    <3>1. n - 1 \in Nat /\ n - 1 \notin N /\ a + (n - 1) <= b
      <4> HIDE DEF N
      <4>1. n - 1 \in Nat /\ a + (n - 1) <= b /\ ~(n <= n - 1)
        BY <2>2, <2>4
      <4> QED
        BY <2>1, <4>1
    <3>2. a + (n - 1) - 1 = a + n - 2 /\ a + (n - 1) = x
      BY <2>2
    <3>3. Sigma(w, T) = F[x] - F[a]
      BY <3>1, <3>2
    <3>4. T \in SUBSET S /\ x \in S /\ x \notin T /\ IsFiniteSet(S) /\ a..(a + n - 1) = T \cup {x}
      <4>1. IsFiniteSet(S)
        BY FS_Interval
      <4>2. T \subseteq S /\ x \in S /\ x \notin T
        BY <2>2, <2>4
      <4>3. \A d : d \in a..(a + n - 1) <=> d \in T \/ d = x
        BY <2>2, <2>4
      <4> HIDE DEF T, x, S
      <4> QED
        BY <4>1, <4>2, <4>3
    <3>5. w[x] = F[a + n] - F[x] /\ F[x] \in Int /\ F[a + n] \in Int /\ F[a] \in Int
      BY <2>2, <2>4
    <3>8. Ints(w, S)
      BY <1>1
    <3> HIDE DEF T, x, S
    <3>6. Sigma(w, T \cup {x}) = Sigma(w, T) + w[x]
      BY <3>4, <3>8, SumMore
    <3>7. Sigma(w, a..(a + n - 1)) = F[a + n] - F[a]
      <4>1. Sigma(w, a..(a + n - 1)) = (F[x] - F[a]) + (F[a + n] - F[x])
        BY <3>3, <3>4, <3>5, <3>6
      <4> DEFINE u == F[x]  v == F[a]  z == F[a + n]
      <4>2. u \in Int /\ v \in Int /\ z \in Int
        BY <3>5
      <4> HIDE DEF u, v, z
      <4>3. (u - v) + (z - u) = z - v
        BY <4>2
      <4> QED
        BY <4>1, <4>3 DEF u, v, z
    <3> QED
      BY <2>1, <3>7
  <2> QED
    BY <2>3, <2>4
<1>3. b - a \in Nat /\ a + (b - a) = b /\ a + (b - a) - 1 = b - 1
  OBVIOUS
<1>4. Sigma(w, a..(b - 1)) = F[b] - F[a]
  <2>1. b - a \notin N
    BY <1>2
  <2> QED
    BY <1>3, <2>1
<1> QED
  BY <1>1, <1>4

Stretch(m) == m[1]..(m[2] - 1)

\* Q divides the days of [from, to) into stretches.
Tiles(Q, from, to) ==
  /\ IsFiniteSet(Q)
  /\ \A m \in Q : m[1] \in Int /\ m[2] \in Int /\ from <= m[1] /\ m[1] < m[2] /\ m[2] <= to
  /\ \A d \in from..(to - 1) : \E m \in Q : m[1] <= d /\ d < m[2]
  /\ \A m, n \in Q : \A d \in from..(to - 1) : m[1] <= d /\ d < m[2] /\ n[1] <= d /\ d < n[2] => m = n

\* A sum over the days may be taken stretch by stretch.
LEMMA TilesSum ==
  ASSUME NEW from \in Int, NEW to \in Int, NEW Q, Tiles(Q, from, to), NEW w, Ints(w, from..(to - 1)),
         NEW h, \A m \in Q : h[m] = Sigma(w, Stretch(m))
  PROVE  Sigma(h, Q) = Sigma(w, from..(to - 1)) /\ Ints(h, Q)
<1> DEFINE S == from..(to - 1)
           key == [d \in S |-> CHOOSE m \in Q : m[1] <= d /\ d < m[2]]
<1>1. \A d \in S : key[d] \in Q /\ key[d][1] <= d /\ d < key[d][2]
  BY DEF Tiles
<1>2. ASSUME NEW m \in Q PROVE {d \in S : key[d] = m} = Stretch(m) /\ Stretch(m) \subseteq S
  <2>1. \A d : d \in Stretch(m) <=> d \in S /\ m[1] <= d /\ d < m[2]
    BY <1>2 DEF Stretch, Tiles
  <2>2. \A d \in S : m[1] <= d /\ d < m[2] => key[d] = m
    BY <1>1, <1>2 DEF Tiles
  <2> HIDE DEF key, S
  <2> QED
    BY <1>1, <2>1, <2>2
<1>3. IsFiniteSet(S) /\ IsFiniteSet(Q)
  BY FS_Interval DEF Tiles
<1>4. Ints(h, Q)
  <2> SUFFICES ASSUME NEW m \in Q PROVE h[m] \in Int
    BY DEF Ints
  <2>1. IsFiniteSet(Stretch(m)) /\ Ints(w, Stretch(m))
    BY <1>2, <1>3, FS_Subset DEF Ints
  <2> QED
    BY <2>1, SumInt
<1> DEFINE part == [m \in Q |-> {d \in S : key[d] = m}]
<1>5. /\ \A m \in Q : part[m] = {d \in S : key[d] = m}
      /\ \A m \in Q : h[m] = Sigma(w, part[m])
  BY <1>2
<1>6. \A d \in S : key[d] \in Q
  BY <1>1
<1>7. Ints(w, S)
  OBVIOUS
<1> HIDE DEF S, key, part
<1>8. Sigma(h, Q) = Sigma(w, S)
  <2>1. Classed(w, S, key, part, h, Q)
    BY <1>3, <1>5, <1>6, <1>7 DEF Classed
  <2> QED
    BY <2>1, SumByKey
<1> QED
  BY <1>4, <1>8 DEF S

Starts(from, to, cuts) == IF from < to THEN {from} \cup {c \in cuts : from < c /\ c < to} ELSE {}
EndOf(from, to, cuts, a) == Min({to} \cup {b \in Starts(from, to, cuts) : b > a})

\* A piece runs from a start to the next.
LEMMA PiecesAre ==
  ASSUME NEW from, NEW to, NEW cuts
  PROVE  Pieces(from, to, cuts) = {<<a, EndOf(from, to, cuts, a)>> : a \in Starts(from, to, cuts)}
BY DEF Pieces, Starts, EndOf

\* Starts are days of the stretch, each with an end after it.
LEMMA StartsTyped ==
  ASSUME NEW from \in Nat, NEW to \in Nat, NEW cuts, cuts \subseteq Nat
  PROVE  /\ Starts(from, to, cuts) \subseteq from..(to - 1) /\ IsFiniteSet(Starts(from, to, cuts))
         /\ \A a \in Starts(from, to, cuts) :
              /\ EndOf(from, to, cuts, a) \in Nat /\ a < EndOf(from, to, cuts, a) /\ EndOf(from, to, cuts, a) <= to
              /\ EndOf(from, to, cuts, a) = to \/ EndOf(from, to, cuts, a) \in Starts(from, to, cuts)
              /\ \A b \in Starts(from, to, cuts) : b > a => EndOf(from, to, cuts, a) <= b
<1> DEFINE S == Starts(from, to, cuts)
<1>1. S \subseteq from..(to - 1)
  <2>1. \A c \in S : c \in Nat /\ from <= c /\ c < to
    BY DEF Starts
  <2> QED
    BY <2>1
<1>2. IsFiniteSet(S)
  BY <1>1, FS_Interval, FS_Subset
<1>3. ASSUME NEW a \in S
      PROVE  /\ EndOf(from, to, cuts, a) \in Nat /\ a < EndOf(from, to, cuts, a) /\ EndOf(from, to, cuts, a) <= to
             /\ EndOf(from, to, cuts, a) = to \/ EndOf(from, to, cuts, a) \in S
             /\ \A b \in S : b > a => EndOf(from, to, cuts, a) <= b
  <2> DEFINE E == {to} \cup {b \in S : b > a}
  <2>1. E \subseteq Nat /\ E # {} /\ to \in E /\ a < to
    BY <1>1, <1>3
  <2>2. Min(E) \in E /\ \A y \in E : Min(E) <= y
    BY <2>1, LeastOf
  <2>3. EndOf(from, to, cuts, a) = Min(E)
    BY DEF EndOf
  <2>4. \A y \in E : y = to \/ (y \in S /\ a < y)
    BY <1>1, <1>3
  <2>5. \A b \in S : b > a => b \in E
    OBVIOUS
  <2> HIDE DEF E, S
  <2> QED
    BY <2>1, <2>2, <2>3, <2>4, <2>5
<1> QED
  BY <1>1, <1>2, <1>3

\* The pieces divide the days, and no cut lies strictly inside of one.
LEMMA PiecesTile ==
  ASSUME NEW from \in Nat, NEW to \in Nat, NEW cuts, cuts \subseteq Nat
  PROVE  /\ Tiles(Pieces(from, to, cuts), from, to)
         /\ \A m \in Pieces(from, to, cuts) : \A c \in cuts : ~(m[1] < c /\ c < m[2])
         /\ \A m \in Pieces(from, to, cuts) : m[1] \in Nat /\ m[2] \in Nat
<1> DEFINE S == Starts(from, to, cuts)
           E(a) == EndOf(from, to, cuts, a)
           Q == Pieces(from, to, cuts)
<1>1. /\ S \subseteq from..(to - 1)
      /\ \A a \in S : /\ E(a) \in Nat /\ a < E(a) /\ E(a) <= to /\ (E(a) = to \/ E(a) \in S)
                      /\ \A b \in S : b > a => E(a) <= b
  BY StartsTyped
<1>2. Q = {<<a, E(a)>> : a \in S}
  BY PiecesAre
<1>3. \A c \in cuts : from < c /\ c < to => c \in S
  BY DEF Starts
<1>4. from < to => from \in S
  BY DEF Starts
<1> HIDE DEF S, E, Q
<1>5. \A m \in Q : m[1] \in S /\ m[2] = E(m[1]) /\ m = <<m[1], m[2]>>
  BY <1>2
<1>6. \A m \in Q : m[1] \in Nat /\ m[2] \in Nat /\ from <= m[1] /\ m[1] < m[2] /\ m[2] <= to
  BY <1>1, <1>5
<1>7. IsFiniteSet(Q)
  <2>1. Q \subseteq (from..to) \X (from..to)
    BY <1>5, <1>6
  <2>2. IsFiniteSet((from..to) \X (from..to))
    <3> DEFINE D == from..to
    <3>1. IsFiniteSet(D)
      BY FS_Interval
    <3> HIDE DEF D
    <3>2. IsFiniteSet(D \X D)
      BY <3>1, FS_Product
    <3> QED
      BY <3>2 DEF D
  <2> QED
    BY <2>1, <2>2, FS_Subset
<1>8. ASSUME NEW d \in from..(to - 1) PROVE \E m \in Q : m[1] <= d /\ d < m[2]
  <2> DEFINE A == {a \in S : a <= d}
  <2>1. A \subseteq 0..to /\ A # {}
    <3>1. from < to /\ from <= d
      OBVIOUS
    <3>2. from \in S
      BY <1>4, <3>1
    <3>3. \A c \in S : c \in 0..to
      BY <1>1
    <3> QED
      BY <3>1, <3>2, <3>3
  <2>2. Max(A) \in A /\ \A y \in A : y <= Max(A)
    BY <2>1, GreatestOf
  <2> DEFINE x == Max(A)
  <2>3. x \in S /\ x <= d /\ \A y \in S : y <= d => y <= x
    BY <2>2
  <2> HIDE DEF x, A
  <2>4. d < E(x)
    BY <1>1, <2>3
  <2>5. <<x, E(x)>> \in Q
    BY <1>2, <2>3
  <2> QED
    BY <2>3, <2>4, <2>5
<1>9. ASSUME NEW m \in Q, NEW n \in Q, NEW d \in from..(to - 1), m[1] <= d, d < m[2], n[1] <= d, d < n[2]
      PROVE  m = n
  <2>1. ~(m[1] < n[1]) /\ ~(n[1] < m[1])
    BY <1>1, <1>5, <1>9
  <2>2. m[1] = n[1]
    BY <1>6, <2>1
  <2> QED
    BY <1>5, <2>2
<1>10. ASSUME NEW m \in Q, NEW c \in cuts, m[1] < c, c < m[2] PROVE FALSE
  <2>1. from < c /\ c < to
    BY <1>6, <1>10
  <2> QED
    BY <1>1, <1>3, <1>5, <1>10, <2>1
<1> QED
  BY <1>6, <1>7, <1>8, <1>9, <1>10 DEF Q, Tiles

----------------------------------------------------------------------------
(* Fees by the day. *)

LEMMA SumFun ==
  ASSUME NEW S, NEW f, f = [x \in S |-> f[x]]
  PROVE  SumFunction(f) = Sigma(f, S)
<1>1. DOMAIN f = S
  OBVIOUS
<1> QED
  BY <1>1 DEF SumFunction, Sigma

\* What the invariant says of the rows, in numbers.
LEMMA LedgerTyped ==
  ASSUME LedgerConstants, LedgerInv
  PROVE  /\ LastDay \in Nat /\ MonthLen \in Nat \ {0} /\ Scale \in Nat \ {0} /\ Koruna \in Nat \ {0}
         /\ Rows(tariffs) \subseteq Nat /\ Rows(readings) \subseteq Nat /\ Firsts \subseteq Nat
         /\ \A d \in Rows(tariffs) : tariffs[d] \in [vt : Nat, nt : Nat, fee : Nat]
         /\ \A d \in Rows(readings) : readings[d] \in [vt : Nat, nt : Nat] /\ d <= LastDay
         /\ \A p \in periods : p.from \in Nat /\ p.to \in Nat /\ p.from <= p.to /\ p.to < LastDay
<1>1. /\ LastDay \in Nat /\ MonthLen \in Nat \ {0} /\ Scale \in Nat \ {0} /\ Koruna \in Nat \ {0}
      /\ Price \subseteq [vt : Nat, nt : Nat, fee : Nat] /\ Register \subseteq [vt : Nat, nt : Nat]
  BY DEF LedgerConstants
<1>2. /\ Rows(tariffs) = {d \in MeterDay : tariffs[d] # Blank} /\ Rows(readings) = {d \in MeterDay : readings[d] # Blank}
      /\ tariffs \in [MeterDay -> Price \cup {Blank}] /\ readings \in [MeterDay -> Register \cup {Blank}]
  BY DEF LedgerInv, Rows
<1>3. \A d \in MeterDay : d \in Nat /\ d <= LastDay
  BY <1>1 DEF MeterDay
<1>4. Firsts \subseteq Nat
  <2>1. \A m \in Month : m \in Nat
    BY DEF Month
  <2>2. \A m \in Nat : First(m) \in Nat
    BY <1>1 DEF First
  <2> QED
    BY <2>1, <2>2 DEF Firsts
<1>5. \A p \in periods : p.from \in Nat /\ p.to \in Nat /\ p.from <= p.to /\ p.to < LastDay
  BY DEF LedgerInv
<1> QED
  BY <1>1, <1>2, <1>3, <1>4, <1>5

\* Between two days without a row between them, the same row is in force.
LEMMA SameInForce ==
  ASSUME NEW table, NEW a \in Int, NEW d \in Int, a <= d, Rows(table) \subseteq Int,
         \A c \in Rows(table) : ~(a < c /\ c <= d)
  PROVE  InForce(table, d) = InForce(table, a)
<1>1. \A c \in Rows(table) : c <= d <=> c <= a
  OBVIOUS
<1>2. {e \in Rows(table) : e <= d} = {e \in Rows(table) : e <= a}
  BY <1>1
<1> QED
  BY <1>2 DEF InForce

\* Rounding keeps what is no less than nothing so, and keeps the order.
LEMMA RoundedNat ==
  ASSUME NEW den \in Nat \ {0}
  PROVE  /\ \A n \in Nat : DivRound(n, den) \in Nat
         /\ DivRound(0, den) = 0
         /\ \A n, k \in Nat : n <= k => DivRound(n, den) <= DivRound(k, den)
<1> DEFINE h == den \div 2
<1>1. h \in Nat /\ h < den
  OBVIOUS
<1>2. \A n \in Nat : DivRound(n, den) = (n + h) \div den
  BY DEF DivRound
<1> HIDE DEF h
<1>3. \A n \in Nat : n \div den \in Nat
  OBVIOUS
<1>4. h \div den = 0
  BY <1>1, SMTT(30)
<1>5. \A n, k \in Nat : n <= k => n \div den <= k \div den
  <2> SUFFICES ASSUME NEW n \in Nat, NEW k \in Nat, n <= k PROVE n \div den <= k \div den
    OBVIOUS
  <2> DEFINE p == n \div den  q == k \div den
  <2>1. /\ p \in Nat /\ n = den * p + (n % den) /\ n % den \in Nat /\ n % den < den
        /\ q \in Nat /\ k = den * q + (k % den) /\ k % den \in Nat /\ k % den < den
    BY SMTT(30)
  <2> HIDE DEF p, q
  <2>2. ASSUME q < p PROVE FALSE
    <3>1. den * (q + 1) = den * q + den /\ den * p \in Int /\ den * q \in Int
      BY <2>1
    <3>2. den * (q + 1) <= den * p
      BY <2>1, <2>2, SMTT(30)
    <3> QED
      BY <2>1, <3>1, <3>2
  <2>3. p <= q
    BY <2>1, <2>2
  <2> QED
    BY <2>3 DEF p, q
<1>6. ASSUME NEW n \in Nat, NEW k \in Nat, n <= k
      PROVE  DivRound(n, den) \in Nat /\ DivRound(n, den) <= DivRound(k, den)
  <2>1. n + h \in Nat /\ k + h \in Nat /\ n + h <= k + h
    BY <1>1, <1>6
  <2> QED
    BY <1>2, <1>3, <1>5, <2>1
<1>7. DivRound(0, den) = 0
  BY <1>1, <1>2, <1>4
<1> QED
  BY <1>6, <1>7

\* Terms rounded one by one are off by half the divisor for each.
LEMMA RoundedSum ==
  ASSUME NEW S, IsFiniteSet(S), NEW den \in Nat \ {0}, NEW a, \A x \in S : a[x] \in Nat,
         NEW q, \A x \in S : q[x] = DivRound(a[x], den)
  PROVE  /\ Within(Sigma(q, S), Sigma(a, S), den, Cardinality(S))
         /\ Ints(q, S) /\ Sigma(q, S) \in Nat
<1> DEFINE r == [x \in S |-> 1]
<1>1. Ints(q, S) /\ Ints(a, S) /\ Ints(r, S) /\ \A x \in S : q[x] >= 0
  BY RoundedNat DEF Ints
<1>2. \A x \in S : 2 * Abs(q[x] * den - a[x]) <= den * r[x]
  <2> TAKE x \in S
  <2>1. Within(DivRound(a[x], den), a[x], den, 1)
    BY RoundedOnce
  <2> QED
    BY <2>1 DEF Within
<1>3. Sigma(r, S) = 1 * Cardinality(S) /\ Cardinality(S) \in Nat
  BY SumConst, FS_CardinalityType
<1> HIDE DEF r
<1>4. 2 * Abs(Sigma(q, S) * den - Sigma(a, S)) <= den * Sigma(r, S)
  BY <1>1, <1>2, SumRounded
<1>5. Sigma(q, S) \in Int /\ 0 <= Sigma(q, S)
  <2>1. S \in SUBSET S
    OBVIOUS
  <2> QED
    BY <1>1, <2>1, SumInt, SumOfPart
<1>6. Sigma(r, S) = Cardinality(S)
  BY <1>3
<1> QED
  BY <1>1, <1>4, <1>5, <1>6 DEF Within

\* A monthly fee is a number.
LEMMA FeeNat ==
  ASSUME LedgerConstants, LedgerInv
  PROVE  \A d \in Nat : MonthlyFee(d) \in Nat
<1> TAKE d \in Nat
<1>1. tariffs \in [MeterDay -> Price \cup {Blank}]
  BY DEF LedgerInv
<1>2. InForce(tariffs, d) # Blank => InForce(tariffs, d) \in Rows(tariffs)
  BY <1>1, InForceIsThere
<1> QED
  BY <1>2, LedgerTyped DEF MonthlyFee

\* A chunk costs its days at the fee of its first.
LEMMA ChunkFee ==
  ASSUME LedgerConstants, LedgerInv, NEW a \in Nat, NEW b \in Nat, a <= b
  PROVE  /\ MonthlyFee(a) * (b - a) \in Nat
         /\ FeeOf(<<a, b>>) = DivRound(MonthlyFee(a) * (b - a), MonthLen)
<1>1. MonthlyFee(a) \in Nat /\ b - a \in Nat /\ MonthLen \in Nat \ {0}
  BY FeeNat, LedgerTyped
<1>2. MonthlyFee(a) * (b - a) \in Nat /\ 0 * (b - a) = 0
  BY <1>1
<1>3. CASE InForce(tariffs, a) = Blank
  BY <1>1, <1>2, <1>3, RoundedNat DEF MonthlyFee, FeeOf
<1>4. CASE InForce(tariffs, a) # Blank
  BY <1>2, <1>4 DEF MonthlyFee, FeeOf
<1> QED
  BY <1>2, <1>3, <1>4

\* The chunks divide the days, each under one price list.
LEMMA ChunksTile ==
  ASSUME LedgerConstants, LedgerInv, NEW from \in Nat, NEW to \in Nat
  PROVE  /\ Tiles(FeeChunks(from, to), from, to)
         /\ \A m \in FeeChunks(from, to) :
              /\ m[1] \in Nat /\ m[2] \in Nat /\ m = <<m[1], m[2]>> /\ m[1] < m[2] /\ from <= m[1] /\ m[2] <= to
              /\ \A c \in Rows(tariffs) : ~(m[1] < c /\ c < m[2])
<1> DEFINE C == Firsts \cup Rows(tariffs)
<1>1. C \subseteq Nat
  BY LedgerTyped
<1>2. FeeChunks(from, to) = Pieces(from, to, C) /\ Rows(tariffs) \subseteq C
  BY DEF FeeChunks
<1>3. \A m \in Pieces(from, to, C) : m = <<m[1], m[2]>>
  BY PiecesAre
<1> HIDE DEF C
<1>4. /\ Tiles(Pieces(from, to, C), from, to)
      /\ \A m \in Pieces(from, to, C) : \A c \in C : ~(m[1] < c /\ c < m[2])
      /\ \A m \in Pieces(from, to, C) : m[1] \in Nat /\ m[2] \in Nat
  BY <1>1, PiecesTile
<1>5. \A m \in Pieces(from, to, C) : m[1] < m[2] /\ from <= m[1] /\ m[2] <= to
  BY <1>4 DEF Tiles
<1> QED
  BY <1>2, <1>3, <1>4, <1>5

\* The fees are those of the single days, but for a rounding per chunk.
LEMMA FeesByTheDay ==
  ASSUME LedgerConstants, LedgerInv, NEW from \in Nat, NEW to \in Nat
  PROVE  /\ Within(Fees(FeeChunks(from, to)), DailyFees(from, to), MonthLen, Cardinality(FeeChunks(from, to)))
         /\ Fees(FeeChunks(from, to)) \in Nat
<1> DEFINE Q == FeeChunks(from, to)
           w == [d \in from..(to - 1) |-> MonthlyFee(d)]
           a == [m \in Q |-> MonthlyFee(m[1]) * (m[2] - m[1])]
           q == [m \in Q |-> FeeOf(m)]
<1>1. /\ Tiles(Q, from, to)
      /\ \A m \in Q : /\ m[1] \in Nat /\ m[2] \in Nat /\ m = <<m[1], m[2]>> /\ m[1] < m[2] /\ from <= m[1] /\ m[2] <= to
                      /\ \A c \in Rows(tariffs) : ~(m[1] < c /\ c < m[2])
  BY ChunksTile
<1>2. Fees(Q) = Sigma(q, Q)
  BY SumFun DEF Fees
<1>3. DailyFees(from, to) = Sigma(w, from..(to - 1))
  BY SumFun DEF DailyFees
<1>4. \A m \in Q : a[m] \in Nat /\ q[m] = DivRound(a[m], MonthLen)
  BY <1>1, ChunkFee
<1>5. Ints(w, from..(to - 1))
  BY FeeNat DEF Ints
<1>6. ASSUME NEW m \in Q PROVE a[m] = Sigma(w, Stretch(m))
  <2>1. /\ m[1] \in Nat /\ m[2] \in Nat /\ m[1] < m[2] /\ from <= m[1] /\ m[2] <= to
        /\ \A c \in Rows(tariffs) : ~(m[1] < c /\ c < m[2])
    BY <1>1
  <2>2. ASSUME NEW d \in m[1]..(m[2] - 1) PROVE w[d] = MonthlyFee(m[1])
    <3>1. d \in Int /\ m[1] <= d /\ d \in from..(to - 1) /\ d < m[2]
      BY <2>1
    <3>2. Rows(tariffs) \subseteq Nat
      BY LedgerTyped
    <3>3. \A c \in Rows(tariffs) : ~(m[1] < c /\ c <= d)
      BY <2>1, <3>1, <3>2
    <3>4. InForce(tariffs, d) = InForce(tariffs, m[1])
      BY <2>1, <3>1, <3>2, <3>3, SameInForce
    <3> QED
      BY <3>1, <3>4 DEF MonthlyFee
  <2>3. MonthlyFee(m[1]) \in Int
    BY <2>1, FeeNat
  <2> HIDE DEF w
  <2>4. Sigma(w, m[1]..(m[2] - 1)) = MonthlyFee(m[1]) * (m[2] - m[1])
    <3> DEFINE b == m[1]  e == m[2]  k == MonthlyFee(m[1])
    <3>1. b \in Int /\ e \in Int /\ b <= e /\ k \in Int /\ \A d \in b..(e - 1) : w[d] = k
      BY <2>1, <2>2, <2>3
    <3> HIDE DEF b, e, k
    <3>2. Sigma(w, b..(e - 1)) = k * (e - b)
      BY <3>1, SumOfSame
    <3> QED
      BY <3>2 DEF b, e, k
  <2> QED
    BY <2>4 DEF Stretch
<1> HIDE DEF Q, w, a, q
<1>7. Sigma(a, Q) = Sigma(w, from..(to - 1))
  BY <1>1, <1>5, <1>6, TilesSum
<1>8. IsFiniteSet(Q)
  BY <1>1 DEF Tiles
<1>9. MonthLen \in Nat \ {0}
  BY LedgerTyped
<1>10. Within(Sigma(q, Q), Sigma(a, Q), MonthLen, Cardinality(Q)) /\ Sigma(q, Q) \in Nat
  BY <1>4, <1>8, <1>9, RoundedSum
<1> QED
  BY <1>2, <1>3, <1>7, <1>10 DEF Q

\* A sum over the pieces, by the day each begins on.
LEMMA SumOverStarts ==
  ASSUME NEW from \in Nat, NEW to \in Nat, NEW cuts, cuts \subseteq Nat,
         NEW f, Ints(f, Pieces(from, to, cuts)),
         NEW h, \A a \in Starts(from, to, cuts) : h[a] = f[<<a, EndOf(from, to, cuts, a)>>]
  PROVE  Sigma(h, Starts(from, to, cuts)) = Sigma(f, Pieces(from, to, cuts)) /\ Ints(h, Starts(from, to, cuts))
<1> DEFINE S == Starts(from, to, cuts)
           E(a) == EndOf(from, to, cuts, a)
           Q == Pieces(from, to, cuts)
           key == [m \in Q |-> m[1]]
<1>1. Q = {<<a, E(a)>> : a \in S}
  BY PiecesAre
<1>2. IsFiniteSet(S) /\ IsFiniteSet(Q)
  BY StartsTyped, PiecesTile DEF Tiles
<1> HIDE DEF S, E, Q
<1>3. \A m \in Q : key[m] \in S
  BY <1>1
<1>4. ASSUME NEW a \in S PROVE h[a] = Sigma(f, {m \in Q : key[m] = a}) /\ h[a] \in Int
  <2> DEFINE x == <<a, E(a)>>
             A == {m \in Q : key[m] = a}
  <2>1. x \in Q /\ key[x] = a /\ \A m \in Q : key[m] = a => m = x
    BY <1>1
  <2> HIDE DEF x, key
  <2>2. A = {} \cup {x} /\ x \notin {} /\ {} \in SUBSET Q
    BY <2>1
  <2>3. Sigma(f, {} \cup {x}) = Sigma(f, {}) + f[x] /\ f[x] \in Int
    <3>1. Ints(f, Q)
      BY DEF Q
    <3>2. Sigma(f, {} \cup {x}) = Sigma(f, {}) + f[x]
      BY <1>2, <2>1, <2>2, <3>1, SumMore
    <3>3. f[x] \in Int
      BY <2>1, <3>1 DEF Ints
    <3> QED
      BY <3>2, <3>3
  <2>4. Sigma(f, {}) = 0
    BY SumOfNone
  <2>5. h[a] = f[x]
    BY DEF x, S, E
  <2> HIDE DEF A
  <2>6. Sigma(f, A) = Sigma(f, {} \cup {x})
    BY <2>2
  <2>7. h[a] = Sigma(f, A) /\ h[a] \in Int
    BY <2>3, <2>4, <2>5, <2>6
  <2> QED
    BY <2>7 DEF A
<1>5. Ints(f, Q) /\ Ints(h, S)
  BY <1>4 DEF Ints, Q
<1> DEFINE part == [a \in S |-> {m \in Q : key[m] = a}]
<1>7. /\ \A a \in S : part[a] = {m \in Q : key[m] = a}
      /\ \A a \in S : h[a] = Sigma(f, part[a])
  BY <1>4
<1> HIDE DEF key, part
<1>6. Sigma(h, S) = Sigma(f, Q)
  <2>1. Classed(f, Q, key, part, h, S)
    BY <1>2, <1>3, <1>5, <1>7 DEF Classed
  <2> QED
    BY <2>1, SumByKey
<1> QED
  BY <1>5, <1>6 DEF S, Q

\* The fees, by the day each chunk begins on.
LEMMA FeesByStart ==
  ASSUME LedgerConstants, LedgerInv, NEW from \in Nat, NEW to \in Nat,
         NEW h, \A a \in Starts(from, to, Firsts \cup Rows(tariffs)) :
                   h[a] = FeeOf(<<a, EndOf(from, to, Firsts \cup Rows(tariffs), a)>>)
  PROVE  Fees(FeeChunks(from, to)) = Sigma(h, Starts(from, to, Firsts \cup Rows(tariffs)))
<1> DEFINE C == Firsts \cup Rows(tariffs)
           Q == Pieces(from, to, C)
           q == [m \in Q |-> FeeOf(m)]
<1>1. C \subseteq Nat
  BY LedgerTyped
<1>2. FeeChunks(from, to) = Q /\ Fees(Q) = Sigma(q, Q)
  BY SumFun DEF FeeChunks, Fees
<1>3. \A a \in Starts(from, to, C) : h[a] = q[<<a, EndOf(from, to, C, a)>>]
  BY PiecesAre
<1>4. Ints(q, Q)
  <2> SUFFICES ASSUME NEW m \in Q PROVE FeeOf(m) \in Int
    BY DEF Ints
  <2>1. m[1] \in Nat /\ m[2] \in Nat /\ m[1] <= m[2] /\ m = <<m[1], m[2]>>
    BY <1>2, ChunksTile
  <2>2. FeeOf(<<m[1], m[2]>>) = DivRound(MonthlyFee(m[1]) * (m[2] - m[1]), MonthLen)
        /\ MonthlyFee(m[1]) * (m[2] - m[1]) \in Nat
    BY <2>1, ChunkFee
  <2>3. MonthLen \in Nat \ {0}
    BY LedgerTyped
  <2> DEFINE n == MonthlyFee(m[1]) * (m[2] - m[1])
  <2>4. n \in Nat
    BY <2>2
  <2> HIDE DEF n
  <2>5. DivRound(n, MonthLen) \in Nat
    BY <2>3, <2>4, RoundedNat
  <2>6. FeeOf(<<m[1], m[2]>>) = FeeOf(m)
    BY <2>1, Zenon
  <2>7. FeeOf(<<m[1], m[2]>>) = DivRound(n, MonthLen)
    BY <2>2 DEF n
  <2> QED
    BY <2>5, <2>6, <2>7
<1> HIDE DEF q, C
<1>5. Sigma(h, Starts(from, to, C)) = Sigma(q, Pieces(from, to, C))
  BY <1>1, <1>3, <1>4, SumOverStarts
<1> QED
  BY <1>2, <1>5 DEF C

\* More days cost no less.
LEMMA FeesGrow ==
  ASSUME LedgerConstants, LedgerInv, NEW from \in Nat, NEW mid \in Nat, NEW to \in Nat, mid <= to
  PROVE  Fees(FeeChunks(from, mid)) <= Fees(FeeChunks(from, to))
<1> DEFINE C == Firsts \cup Rows(tariffs)
           S == Starts(from, mid, C)  T == Starts(from, to, C)
           E(a) == EndOf(from, mid, C, a)  F(a) == EndOf(from, to, C, a)
           g == [a \in S |-> FeeOf(<<a, E(a)>>)]
           h == [a \in T |-> FeeOf(<<a, F(a)>>)]
<1>1. C \subseteq Nat
  BY LedgerTyped
<1>5. S \subseteq T
  <2>1. \A c \in S : c \in T
    BY <1>1 DEF Starts
  <2> QED
    BY <2>1
<1> HIDE DEF C
<1>6. /\ IsFiniteSet(S) /\ \A a \in S : a \in Nat /\ E(a) \in Nat /\ a < E(a) /\ E(a) <= mid
      /\ \A a \in S : \A b \in S : b > a => E(a) <= b
  <2>1. S \subseteq from..(mid - 1) /\ IsFiniteSet(S)
    BY <1>1, StartsTyped
  <2>2. \A a \in S : a \in Nat
    BY <2>1
  <2>3. /\ \A a \in S : E(a) \in Nat /\ a < E(a) /\ E(a) <= mid
        /\ \A a \in S : \A b \in S : b > a => E(a) <= b
    BY <1>1, StartsTyped
  <2> QED
    BY <2>1, <2>2, <2>3
<1>7. /\ IsFiniteSet(T) /\ \A a \in T : a \in Nat /\ F(a) \in Nat /\ a < F(a) /\ (F(a) = to \/ F(a) \in T)
  <2>1. T \subseteq from..(to - 1) /\ IsFiniteSet(T)
    BY <1>1, StartsTyped
  <2>2. \A a \in T : a \in Nat
    BY <2>1
  <2>3. \A a \in T : F(a) \in Nat /\ a < F(a) /\ (F(a) = to \/ F(a) \in T)
    BY <1>1, StartsTyped
  <2> QED
    BY <2>1, <2>2, <2>3
<1>8. \A b \in T : b < mid => b \in S
  BY <1>1 DEF Starts
<1>9. \A a \in S : E(a) <= F(a)
  <2> TAKE a \in S
  <2>1. a \in T
    BY <1>5
  <2>2. CASE F(a) = to
    BY <1>6, <2>2
  <2>3. CASE F(a) \in T /\ F(a) < mid
    <3>1. F(a) \in S /\ F(a) > a
      BY <1>7, <1>8, <2>1, <2>3
    <3> QED
      BY <1>6, <3>1
  <2>4. CASE F(a) >= mid
    BY <1>6, <1>7, <2>1, <2>4
  <2> QED
    BY <1>6, <1>7, <2>1, <2>2, <2>3, <2>4
<1> HIDE DEF S, T, E, F
<1>10. ASSUME NEW a \in Nat, NEW b \in Nat, a < b PROVE FeeOf(<<a, b>>) \in Nat
  <2> DEFINE n == MonthlyFee(a) * (b - a)
  <2>1. a <= b
    BY <1>10
  <2>2. n \in Nat /\ FeeOf(<<a, b>>) = DivRound(n, MonthLen)
    BY <2>1, ChunkFee
  <2>3. MonthLen \in Nat \ {0}
    BY LedgerTyped
  <2> HIDE DEF n
  <2>4. DivRound(n, MonthLen) \in Nat
    BY <2>2, <2>3, RoundedNat
  <2> QED
    BY <2>2, <2>4
<1>11. \A a \in S : g[a] \in Nat
  BY <1>6, <1>10
<1>12. \A a \in T : h[a] \in Nat
  BY <1>7, <1>10
<1>13. \A a \in S : g[a] <= h[a]
  <2> TAKE a \in S
  <2>1. a \in Nat /\ a \in T /\ E(a) \in Nat /\ F(a) \in Nat /\ a < E(a) /\ E(a) <= F(a)
    BY <1>5, <1>6, <1>7, <1>9
  <2> DEFINE k == MonthlyFee(a)  e == E(a) - a  f == F(a) - a
  <2>2. k \in Nat /\ e \in Nat /\ f \in Nat /\ e <= f
    BY <2>1, FeeNat
  <2>3. /\ FeeOf(<<a, E(a)>>) = DivRound(k * e, MonthLen) /\ FeeOf(<<a, F(a)>>) = DivRound(k * f, MonthLen)
    BY <2>1, ChunkFee
  <2> HIDE DEF k, e, f
  <2>4. k * e \in Nat /\ k * f \in Nat /\ k * e <= k * f
    BY <2>2, SMTT(30)
  <2>5. MonthLen \in Nat \ {0}
    BY LedgerTyped
  <2>6. DivRound(k * e, MonthLen) <= DivRound(k * f, MonthLen)
    BY <2>4, <2>5, RoundedNat
  <2> QED
    BY <2>1, <2>3, <2>6
<1>14. Sigma(g, S) = Fees(FeeChunks(from, mid))
  <2>1. \A a \in S : g[a] = FeeOf(<<a, E(a)>>)
    OBVIOUS
  <2> HIDE DEF g
  <2> QED
    BY <2>1, FeesByStart DEF S, E, C
<1>15. Sigma(h, T) = Fees(FeeChunks(from, to))
  <2>1. \A a \in T : h[a] = FeeOf(<<a, F(a)>>)
    OBVIOUS
  <2> HIDE DEF h
  <2> QED
    BY <2>1, FeesByStart DEF T, F, C
<1>16. Ints(g, S) /\ Ints(h, S) /\ Ints(h, T)
  BY <1>5, <1>11, <1>12 DEF Ints
<1>17. \A a \in T : h[a] >= 0
  BY <1>12
<1> HIDE DEF g, h
<1>18. Sigma(g, S) <= Sigma(h, S)
  BY <1>6, <1>13, <1>16, SumAtMost
<1>19. Sigma(h, S) <= Sigma(h, T)
  BY <1>5, <1>7, <1>16, <1>17, SumOfPart
<1>20. Sigma(g, S) \in Int /\ Sigma(h, S) \in Int /\ Sigma(h, T) \in Int
  BY <1>6, <1>7, <1>16, SumInt
<1> QED
  BY <1>14, <1>15, <1>18, <1>19, <1>20

----------------------------------------------------------------------------
(* What is measured. *)

\* A reading and the next of a period, between which the registers move forwards.
LEMMA GapsTyped ==
  ASSUME LedgerConstants, LedgerInv, NEW p \in periods
  PROVE  /\ ReadingsIn(p) \subseteq Rows(readings) /\ ReadingsIn(p) \subseteq p.from..(p.to + 1)
         /\ ReadingsIn(p) \subseteq Nat /\ IsFiniteSet(ReadingsIn(p)) /\ IsFiniteSet(Gaps(p))
         /\ \A g \in Gaps(p) : /\ g = <<g[1], g[2]>> /\ g[1] \in ReadingsIn(p) /\ g[2] \in ReadingsIn(p)
                               /\ g[1] < g[2] /\ g[1] \in Nat /\ g[2] \in Nat
                               /\ \A d \in ReadingsIn(p) : ~(g[1] < d /\ d < g[2])
<1>1. p.from \in Nat /\ p.to \in Nat /\ Rows(readings) \subseteq Nat
  BY LedgerTyped
<1> DEFINE R == ReadingsIn(p)
<1>2. \A d \in R : d \in Rows(readings) /\ p.from <= d /\ d <= p.to + 1 /\ d \in Nat
  BY <1>1 DEF ReadingsIn
<1>3. \A d \in R : d \in p.from..(p.to + 1)
  BY <1>1, <1>2
<1>4. IsFiniteSet(R)
  <2>1. R \subseteq p.from..(p.to + 1)
    BY <1>3
  <2>2. IsFiniteSet(p.from..(p.to + 1))
    BY <1>1, FS_Interval
  <2> QED
    BY <2>1, <2>2, FS_Subset
<1> HIDE DEF R
<1>5. \A g \in Gaps(p) : /\ g \in R \X R /\ g[1] < g[2] /\ \A d \in R : ~(g[1] < d /\ d < g[2])
  BY DEF Gaps, R
<1>6. IsFiniteSet(Gaps(p))
  <2>1. IsFiniteSet(R \X R)
    BY <1>4, FS_Product
  <2>2. Gaps(p) \subseteq R \X R
    BY <1>5
  <2> QED
    BY <2>1, <2>2, FS_Subset
<1> QED
  BY <1>2, <1>3, <1>4, <1>5, <1>6 DEF R

\* Between two readings both registers move forwards.
LEMMA MovesForwards ==
  ASSUME LedgerConstants, LedgerInv, NEW a \in Rows(readings), NEW b \in Rows(readings), a <= b
  PROVE  VT(<<a, b>>) \in Nat /\ NT(<<a, b>>) \in Nat
<1>1. readings[a] \in [vt : Nat, nt : Nat] /\ readings[b] \in [vt : Nat, nt : Nat]
  BY LedgerTyped
<1>2. NoLess(readings[a], readings[b])
  BY DEF LedgerInv, MeterRunsForwards
<1> QED
  BY <1>1, <1>2 DEF NoLess, VT, NT

\* What is priced of a period is a stretch from its first day on, divided by the readings of it,
\* and no price list begins strictly inside of an interval.
LEMMA IntervalsTile ==
  ASSUME LedgerConstants, LedgerInv, NEW p \in periods, HasOpening(p), Covered(p)
  PROVE  /\ LastActual(p) \in ReadingsIn(p) /\ Tiles(Intervals(p), p.from, LastActual(p))
         /\ Intervals(p) \subseteq Gaps(p)
         /\ \A g \in Intervals(p) : \A c \in Rows(tariffs) : ~(g[1] < c /\ c < g[2])
<1> DEFINE R == ReadingsIn(p)
           I == Intervals(p)
           L == LastActual(p)
           E == {p.from} \cup {g[2] : g \in I}
<1>1. p.from \in Nat /\ p.to \in Nat
  BY LedgerTyped
<1>2. /\ R \subseteq Nat /\ R \subseteq p.from..(p.to + 1) /\ IsFiniteSet(R) /\ IsFiniteSet(Gaps(p))
      /\ \A g \in Gaps(p) : /\ g = <<g[1], g[2]>> /\ g[1] \in R /\ g[2] \in R
                            /\ g[1] < g[2] /\ g[1] \in Nat /\ g[2] \in Nat
                            /\ \A d \in R : ~(g[1] < d /\ d < g[2])
  BY GapsTyped
<1>3. I = {g \in Gaps(p) : \A h \in Blocked(p) : g[2] <= h[1]} /\ p.from \in R
  BY DEF Intervals, HasOpening
<1>4. Blocked(p) = {g \in Gaps(p) : \E c \in Rows(tariffs) : g[1] < c /\ c < g[2]}
  BY DEF Blocked, Straddles
<1>5. L \in E /\ \A e \in E : e <= L
  <2>1. \A e \in E : e \in R
    BY <1>2, <1>3
  <2>2. \A e \in E : e \in 0..(p.to + 1)
    BY <1>1, <1>2, <2>1
  <2>3. E # {} /\ p.to + 1 \in Nat /\ E \subseteq 0..(p.to + 1)
    BY <1>1, <2>2
  <2> HIDE DEF E
  <2>4. Max(E) \in E /\ \A e \in E : e <= Max(E)
    BY <2>3, GreatestOf
  <2> QED
    BY <2>4 DEF LastActual, E
<1> HIDE DEF R, I, L
<1>6. L \in R /\ \A g \in I : g[2] <= L
  BY <1>2, <1>3, <1>5
<1>7. IsFiniteSet(I)
  BY <1>2, <1>3, FS_Subset
<1>8. \A g \in I : g[1] \in Int /\ g[2] \in Int /\ p.from <= g[1] /\ g[1] < g[2] /\ g[2] <= L
  <2> TAKE g \in I
  <2>1. g[1] \in R /\ g[1] < g[2] /\ g[1] \in Nat /\ g[2] \in Nat /\ g[2] <= L
    BY <1>2, <1>3, <1>6
  <2>2. g[1] \in p.from..(p.to + 1)
    BY <1>2, <2>1
  <2> QED
    BY <2>1, <2>2
<1>9. \A d \in p.from..(L - 1) : \E g \in I : g[1] <= d /\ d < g[2]
  <2> SUFFICES ASSUME NEW d \in p.from..(L - 1) PROVE \E g \in I : g[1] <= d /\ d < g[2]
    OBVIOUS
  <2> DEFINE A == {r \in R : r <= d}
             B == {r \in R : r > d}
  <2>1. d \in Nat /\ p.from <= d /\ d < L /\ L \in Nat
    BY <1>1, <1>2, <1>6
  <2>2. A # {} /\ B # {} /\ B \subseteq Nat /\ L \in B
    BY <1>2, <1>3, <1>6, <2>1
  <2>3. A \subseteq 0..d
    <3>1. \A r \in A : r \in 0..d
      BY <1>2, <2>1
    <3> QED
      BY <3>1
  <2> DEFINE a == Max(A)  b == Min(B)
  <2>4. a \in A /\ \A r \in A : r <= a
    <3> HIDE DEF A
    <3> QED
      BY <2>1, <2>2, <2>3, GreatestOf
  <2>5. b \in B /\ \A r \in B : b <= r
    <3> HIDE DEF B
    <3> QED
      BY <2>2, LeastOf
  <2> HIDE DEF a, b
  <2>6. a \in R /\ b \in R /\ a <= d /\ d < b /\ a \in Nat /\ b \in Nat
    BY <1>2, <2>4, <2>5
  <2>7. \A r \in R : ~(a < r /\ r < b)
    BY <1>2, <2>1, <2>4, <2>5, <2>6
  <2>8. <<a, b>> \in Gaps(p)
    BY <2>1, <2>6, <2>7 DEF Gaps, R
  <2>9. PICK g \in I : g[2] = L
    BY <1>5, <2>1
  <2>10. b <= L
    BY <2>2, <2>5
  <2>11. \A h \in Blocked(p) : b <= h[1]
    BY <1>2, <1>3, <1>4, <2>1, <2>6, <2>9, <2>10
  <2>12. <<a, b>> \in I
    BY <1>3, <2>8, <2>11
  <2> QED
    BY <2>6, <2>12
<1>10. \A m, n \in I : \A d \in p.from..(L - 1) : m[1] <= d /\ d < m[2] /\ n[1] <= d /\ d < n[2] => m = n
  <2> SUFFICES ASSUME NEW m \in I, NEW n \in I, NEW d \in p.from..(L - 1),
                      m[1] <= d, d < m[2], n[1] <= d, d < n[2]
               PROVE m = n
    OBVIOUS
  <2>1. /\ m = <<m[1], m[2]>> /\ m[1] \in R /\ m[2] \in R /\ m[1] \in Nat /\ m[2] \in Nat
        /\ \A r \in R : ~(m[1] < r /\ r < m[2])
    BY <1>2, <1>3
  <2>2. /\ n = <<n[1], n[2]>> /\ n[1] \in R /\ n[2] \in R /\ n[1] \in Nat /\ n[2] \in Nat
        /\ \A r \in R : ~(n[1] < r /\ r < n[2])
    BY <1>2, <1>3
  <2>3. d \in Nat
    BY <1>1, <1>2, <1>6
  <2>4. m[1] = n[1] /\ m[2] = n[2]
    BY <2>1, <2>2, <2>3
  <2> QED
    BY <2>1, <2>2, <2>4
<1>11. \A g \in I : \A c \in Rows(tariffs) : ~(g[1] < c /\ c < g[2])
  <2> SUFFICES ASSUME NEW g \in I, g \in Blocked(p) PROVE FALSE
    BY <1>3, <1>4
  <2>1. g[2] <= g[1] /\ g[1] < g[2] /\ g[1] \in Nat /\ g[2] \in Nat
    BY <1>2, <1>3
  <2> QED
    BY <2>1
<1> QED
  BY <1>3, <1>6, <1>7, <1>8, <1>9, <1>10, <1>11 DEF Tiles, R, I, L

\* What the registers showed on a reading's day, and by it what a day cost at the prices of
\* that day: only its sums over stretches between readings mean anything.
MeterVT(d) == IF d \in Rows(readings) THEN readings[d].vt ELSE 0
MeterNT(d) == IF d \in Rows(readings) THEN readings[d].nt ELSE 0
RowOf(d) == tariffs[InForce(tariffs, d)]
DayCost(d) == RowOf(d).vt * (MeterVT(d + 1) - MeterVT(d)) + RowOf(d).nt * (MeterNT(d + 1) - MeterNT(d))

\* A period priced on its first day is priced on all that follow.
LEMMA PricedFrom ==
  ASSUME LedgerConstants, LedgerInv, NEW a \in Nat, InForce(tariffs, a) # Blank, NEW d \in Nat, a <= d
  PROVE  InForce(tariffs, d) # Blank /\ RowOf(d) \in [vt : Nat, nt : Nat, fee : Nat]
<1>1. tariffs \in [MeterDay -> Price \cup {Blank}]
  BY DEF LedgerInv
<1>2. PICK e \in Rows(tariffs) : e <= a
  BY <1>1, InForceIsThere
<1>3. e \in Nat /\ e <= d
  BY <1>2, LedgerTyped
<1>4. InForce(tariffs, d) # Blank /\ InForce(tariffs, d) \in Rows(tariffs)
  BY <1>1, <1>3, InForceIsThere
<1> QED
  BY <1>4, LedgerTyped DEF RowOf

\* A register shows numbers.
LEMMA MetersAreNumbers ==
  ASSUME LedgerConstants, LedgerInv
  PROVE  \A d : MeterVT(d) \in Nat /\ MeterNT(d) \in Nat
BY LedgerTyped DEF MeterVT, MeterNT

\* A segment costs what its days cost.
LEMMA SegmentByDay ==
  ASSUME LedgerConstants, LedgerInv, NEW a \in Rows(readings), NEW b \in Rows(readings), a < b,
         InForce(tariffs, a) # Blank, \A c \in Rows(tariffs) : ~(a < c /\ c < b),
         NEW w, \A d \in a..(b - 1) : w[d] = DayCost(d)
  PROVE  /\ Sigma(w, a..(b - 1)) = Segment(<<a, b>>) /\ Ints(w, a..(b - 1))
         /\ Segment(<<a, b>>) \in Nat
<1> DEFINE S == a..(b - 1)
           F == [d \in a..b |-> MeterVT(d)]
           G == [d \in a..b |-> MeterNT(d)]
           u == [d \in S |-> F[d + 1] - F[d]]
           v == [d \in S |-> G[d + 1] - G[d]]
           k == RowOf(a).vt
           l == RowOf(a).nt
           x == [d \in S |-> k * u[d]]
           y == [d \in S |-> l * v[d]]
<1>1. a \in Nat /\ b \in Nat /\ Rows(tariffs) \subseteq Int
  BY LedgerTyped
<1>2. k \in Nat /\ l \in Nat
  BY <1>1, PricedFrom
<1>3. \A d \in S : InForce(tariffs, d) = InForce(tariffs, a)
  <2> SUFFICES ASSUME NEW d \in S PROVE InForce(tariffs, d) = InForce(tariffs, a)
    OBVIOUS
  <2>1. d \in Int /\ a <= d /\ d < b
    BY <1>1
  <2>2. \A c \in Rows(tariffs) : ~(a < c /\ c <= d)
    BY <1>1, <2>1
  <2> QED
    BY <1>1, <2>1, <2>2, SameInForce
<1>4. /\ \A d \in a..b : F[d] \in Int /\ G[d] \in Int
      /\ \A d \in S : d \in a..b /\ d + 1 \in a..b
  BY <1>1, MetersAreNumbers
<1>5. \A d \in S : w[d] = x[d] + y[d]
  <2> TAKE d \in S
  <2>1. w[d] = RowOf(a).vt * (MeterVT(d + 1) - MeterVT(d)) + RowOf(a).nt * (MeterNT(d + 1) - MeterNT(d))
    BY <1>3 DEF DayCost, RowOf
  <2>2. F[d] = MeterVT(d) /\ F[d + 1] = MeterVT(d + 1) /\ G[d] = MeterNT(d) /\ G[d + 1] = MeterNT(d + 1)
    BY <1>4
  <2>3. x[d] = RowOf(a).vt * (F[d + 1] - F[d]) /\ y[d] = RowOf(a).nt * (G[d + 1] - G[d])
    OBVIOUS
  <2> QED
    BY <2>1, <2>2, <2>3
<1>6. F[a] = MeterVT(a) /\ F[b] = MeterVT(b) /\ G[a] = MeterNT(a) /\ G[b] = MeterNT(b)
  BY <1>1
<1>7. /\ \A d \in a..(b - 1) : u[d] = F[d + 1] - F[d] /\ v[d] = G[d + 1] - G[d]
      /\ \A d \in S : x[d] = k * u[d] /\ y[d] = l * v[d]
  OBVIOUS
<1> HIDE DEF F, G, u, v, k, l, x, y
<1>8. Ints(u, a..(b - 1)) /\ Sigma(u, a..(b - 1)) = F[b] - F[a]
  <2>1. a \in Int /\ b \in Int /\ a <= b /\ (\A d \in a..b : F[d] \in Int)
    BY <1>1, <1>4
  <2>2. \A d \in a..(b - 1) : u[d] = F[d + 1] - F[d]
    BY <1>7
  <2> QED
    BY <2>1, <2>2, Telescopes
<1>9. Ints(v, a..(b - 1)) /\ Sigma(v, a..(b - 1)) = G[b] - G[a]
  <2>1. a \in Int /\ b \in Int /\ a <= b /\ (\A d \in a..b : G[d] \in Int)
    BY <1>1, <1>4
  <2>2. \A d \in a..(b - 1) : v[d] = G[d + 1] - G[d]
    BY <1>7
  <2> QED
    BY <2>1, <2>2, Telescopes
<1>10. IsFiniteSet(S)
  BY <1>1, FS_Interval
<1> HIDE DEF S
<1>11. Ints(u, S) /\ Sigma(u, S) = F[b] - F[a] /\ Ints(v, S) /\ Sigma(v, S) = G[b] - G[a]
  BY <1>8, <1>9 DEF S
<1>12. Sigma(x, S) = k * Sigma(u, S) /\ Sigma(y, S) = l * Sigma(v, S)
  <2>1. k \in Int /\ l \in Int
    BY <1>2
  <2>2. Sigma(x, S) = k * Sigma(u, S)
    BY <1>7, <1>10, <1>11, <2>1, SumTimes
  <2>3. Sigma(y, S) = l * Sigma(v, S)
    BY <1>7, <1>10, <1>11, <2>1, SumTimes
  <2> QED
    BY <2>2, <2>3
<1>13. Ints(x, S) /\ Ints(y, S)
  BY <1>2, <1>7, <1>11 DEF Ints
<1>14. Sigma(w, S) = Sigma(x, S) + Sigma(y, S)
  BY <1>5, <1>10, <1>13, SumPlus
<1>15. Ints(w, S)
  BY <1>5, <1>13 DEF Ints
<1>16. F[b] - F[a] = VT(<<a, b>>) /\ G[b] - G[a] = NT(<<a, b>>)
  BY <1>6 DEF VT, NT, MeterVT, MeterNT
<1>17. VT(<<a, b>>) \in Nat /\ NT(<<a, b>>) \in Nat
  BY <1>1, MovesForwards
<1>18. Segment(<<a, b>>) = VT(<<a, b>>) * k + NT(<<a, b>>) * l
  BY DEF Segment, RowOf, k, l
<1> DEFINE m == VT(<<a, b>>)
           n == NT(<<a, b>>)
<1>19. Sigma(w, S) = k * m + l * n
  BY <1>11, <1>12, <1>14, <1>16
<1>20. m \in Nat /\ n \in Nat /\ Segment(<<a, b>>) = m * k + n * l
  BY <1>17, <1>18
<1> HIDE DEF m, n
<1>21. m * k + n * l \in Nat /\ m * k + n * l = k * m + l * n
  BY <1>2, <1>20, SMTT(30)
<1> QED
  BY <1>15, <1>19, <1>20, <1>21 DEF S

\* What was used is priced to the reading, whether cut by the readings or by the prices.
LEMMA MeteredByTheDay ==
  ASSUME LedgerConstants, LedgerInv, NEW p \in periods, HasOpening(p), Covered(p)
  PROVE  /\ \A g \in Intervals(p) : Segment(g) \in Nat /\ EnergyOf(g) = DivRound(Segment(g), Scale)
         /\ Sigma([g \in Intervals(p) |-> Segment(g)], Intervals(p)) = Metered(p.from, LastActual(p))
<1> DEFINE from == p.from
           L == LastActual(p)
           I == Intervals(p)
           Q == Pieces(from, L, Rows(tariffs))
           S == from..(L - 1)
           w == [d \in S |-> DayCost(d)]
           h == [g \in I |-> Segment(g)]
           q == [s \in Q |-> Segment(s)]
<1>1. /\ from \in Nat /\ Rows(tariffs) \subseteq Nat /\ Rows(readings) \subseteq Nat
      /\ InForce(tariffs, from) # Blank /\ from \in ReadingsIn(p)
  BY LedgerTyped DEF Covered, HasOpening
<1>2. ReadingsIn(p) \subseteq Rows(readings) /\ ReadingsIn(p) \subseteq Nat
  BY GapsTyped
<1>3. /\ L \in ReadingsIn(p) /\ Tiles(I, from, L)
      /\ \A g \in I : /\ g = <<g[1], g[2]>> /\ g[1] \in ReadingsIn(p) /\ g[2] \in ReadingsIn(p)
      /\ \A g \in I : \A c \in Rows(tariffs) : ~(g[1] < c /\ c < g[2])
  BY IntervalsTile, GapsTyped
<1>4. L \in Nat
  BY <1>2, <1>3
<1>5. \A d \in S : w[d] = DayCost(d)
  OBVIOUS
<1>6. (\A g \in I : h[g] = Segment(g)) /\ (\A s \in Q : q[s] = Segment(s))
  OBVIOUS
<1> HIDE DEF L, I, w, h, from
<1>7. /\ Tiles(Q, from, L)
      /\ \A s \in Q : \A c \in Rows(tariffs) : ~(s[1] < c /\ c < s[2])
      /\ \A s \in Q : s[1] \in Nat /\ s[2] \in Nat
  BY <1>1, <1>4, PiecesTile
<1>8. \A s \in Q : s = <<s[1], s[2]>> /\ s[1] \in Rows(readings) /\ s[2] \in Rows(readings)
  <2> SUFFICES ASSUME NEW s \in Q
               PROVE  s = <<s[1], s[2]>> /\ s[1] \in Rows(readings) /\ s[2] \in Rows(readings)
    OBVIOUS
  <2>1. PICK a \in Starts(from, L, Rows(tariffs)) : s = <<a, EndOf(from, L, Rows(tariffs), a)>>
    BY PiecesAre
  <2> DEFINE b == EndOf(from, L, Rows(tariffs), a)
  <2>2. b = L \/ b \in Starts(from, L, Rows(tariffs))
    BY <1>1, <1>4, StartsTyped
  <2>3. s[1] = a /\ s[2] = b /\ s = <<a, b>>
    BY <2>1
  <2> HIDE DEF b
  <2>4. ASSUME NEW c \in Starts(from, L, Rows(tariffs)) PROVE c \in Rows(readings)
    <3>1. CASE c = from
      BY <1>1, <1>2, <3>1
    <3>2. CASE c # from
      <4>1. c \in Rows(tariffs) /\ from < c /\ c < L /\ c \in Nat
        BY <1>1, <3>2 DEF Starts
      <4>2. c \in from..(L - 1)
        BY <1>1, <1>4, <4>1
      <4>3. PICK g \in I : g[1] <= c /\ c < g[2]
        BY <1>3, <4>2 DEF Tiles
      <4>4. g[1] \in ReadingsIn(p) /\ g[1] \in Nat
        BY <1>2, <1>3
      <4>5. g[1] = c
        BY <1>3, <4>1, <4>3, <4>4
      <4> QED
        BY <1>2, <4>4, <4>5
    <3> QED
      BY <3>1, <3>2
  <2> QED
    BY <1>2, <1>3, <2>2, <2>3, <2>4
<1> HIDE DEF Q, q, S
<1>9. ASSUME NEW a \in Rows(readings), NEW b \in Rows(readings), from <= a, a < b, b <= L,
             \A c \in Rows(tariffs) : ~(a < c /\ c < b)
      PROVE  /\ Sigma(w, a..(b - 1)) = Segment(<<a, b>>) /\ Ints(w, a..(b - 1)) /\ Segment(<<a, b>>) \in Nat
  <2>1. a \in Nat /\ b \in Nat
    BY <1>1
  <2>2. InForce(tariffs, a) # Blank
    BY <1>1, <1>9, <2>1, PricedFrom
  <2>3. \A d \in a..(b - 1) : d \in S
    BY <1>1, <1>4, <1>9, <2>1 DEF S
  <2>4. \A d \in a..(b - 1) : w[d] = DayCost(d)
    BY <1>5, <2>3
  <2> QED
    BY <1>9, <2>2, <2>4, SegmentByDay
<1>10. \A g \in I : from <= g[1] /\ g[1] < g[2] /\ g[2] <= L
  BY <1>3 DEF Tiles
<1>11. \A s \in Q : from <= s[1] /\ s[1] < s[2] /\ s[2] <= L
  BY <1>7 DEF Tiles
<1>12. \A g \in I : /\ h[g] = Sigma(w, Stretch(g)) /\ Ints(w, Stretch(g)) /\ Segment(g) \in Nat
  <2> TAKE g \in I
  <2>1. /\ g[1] \in Rows(readings) /\ g[2] \in Rows(readings) /\ g = <<g[1], g[2]>>
        /\ \A c \in Rows(tariffs) : ~(g[1] < c /\ c < g[2])
    BY <1>2, <1>3
  <2> DEFINE a == g[1]  b == g[2]
  <2>2. Sigma(w, a..(b - 1)) = Segment(<<a, b>>) /\ Ints(w, a..(b - 1)) /\ Segment(<<a, b>>) \in Nat
    BY <1>9, <1>10, <2>1
  <2> QED
    BY <1>6, <2>1, <2>2 DEF Stretch
<1>13. \A s \in Q : q[s] = Sigma(w, Stretch(s))
  <2> TAKE s \in Q
  <2>1. /\ s[1] \in Rows(readings) /\ s[2] \in Rows(readings) /\ s = <<s[1], s[2]>>
        /\ \A c \in Rows(tariffs) : ~(s[1] < c /\ c < s[2])
    BY <1>7, <1>8
  <2> DEFINE a == s[1]  b == s[2]
  <2>2. Sigma(w, a..(b - 1)) = Segment(<<a, b>>)
    BY <1>9, <1>11, <2>1
  <2> QED
    BY <1>6, <2>1, <2>2 DEF Stretch
<1>14. Ints(w, from..(L - 1))
  <2> SUFFICES ASSUME NEW d \in from..(L - 1) PROVE w[d] \in Int
    BY DEF Ints
  <2>1. PICK g \in I : g[1] <= d /\ d < g[2]
    BY <1>3 DEF Tiles
  <2>2. g[1] \in Nat /\ g[2] \in Nat /\ d \in Int
    BY <1>1, <1>2, <1>3, <1>4
  <2>3. d \in Stretch(g)
    BY <2>1, <2>2 DEF Stretch
  <2> QED
    BY <1>12, <2>3 DEF Ints
<1>15. from \in Int /\ L \in Int
  BY <1>1, <1>4
<1>16. Sigma(h, I) = Sigma(w, from..(L - 1))
  BY <1>3, <1>12, <1>14, <1>15, TilesSum
<1>17. Sigma(q, Q) = Sigma(w, from..(L - 1))
  <2>1. Tiles(Q, from, L)
    BY <1>7
  <2>2. \A s \in Q : q[s] = Sigma(w, Stretch(s))
    BY <1>13
  <2> QED
    BY <1>14, <1>15, <2>1, <2>2, TilesSum
<1>18. Metered(from, L) = Sigma(q, Q)
  BY SumFun DEF Metered, q, Q
<1>19. \A g \in I : EnergyOf(g) = DivRound(Segment(g), Scale)
  BY DEF EnergyOf, Segment
<1> QED
  BY <1>12, <1>16, <1>17, <1>18, <1>19 DEF h, I, L, from

----------------------------------------------------------------------------
(* The bill. *)

\* What the status of a period says of its readings and prices.
LEMMA StatusMeans ==
  ASSUME NEW p, Priced(p)
  PROVE  /\ HasOpening(p) /\ Covered(p) /\ Blocked(p) = {}
         /\ Status(p) = "complete" <=> Closed(p)
         /\ Status(p) # "complete" => Status(p) = "ok"
         /\ Status(p) = "ok" => Elapsed(p) >= 1
<1>1. HasOpening(p)
  <2> SUFFICES ASSUME ~HasOpening(p) PROVE FALSE
    OBVIOUS
  <2>1. Status(p) = "blocked"
    BY DEF Status
  <2> QED
    BY <2>1 DEF Priced
<1>2. Covered(p)
  <2> SUFFICES ASSUME ~Covered(p) PROVE FALSE
    OBVIOUS
  <2>1. Status(p) = "insufficient_data"
    BY <1>1 DEF Status
  <2> QED
    BY <2>1 DEF Priced
<1>3. Blocked(p) = {}
  <2> SUFFICES ASSUME Blocked(p) # {} PROVE FALSE
    OBVIOUS
  <2>1. Status(p) = "blocked"
    BY <1>1, <1>2 DEF Status
  <2> QED
    BY <2>1 DEF Priced
<1>4. Status(p) = IF Closed(p) THEN "complete" ELSE IF Elapsed(p) >= 1 THEN "ok" ELSE "insufficient_data"
  BY <1>1, <1>2, <1>3 DEF Status
<1> QED
  BY <1>1, <1>2, <1>3, <1>4 DEF Priced

\* The days so far end with a reading within the period or the day after it.
LEMMA DaysSoFar ==
  ASSUME LedgerConstants, LedgerInv, NEW p \in periods, Priced(p)
  PROVE  /\ p.from \in Nat /\ p.to \in Nat /\ Basis(p) \in Nat /\ p.from <= Basis(p) /\ Basis(p) <= p.to + 1
         /\ LastActual(p) \in Nat /\ p.from <= LastActual(p) /\ LastActual(p) <= p.to + 1
         /\ Status(p) = "complete" <=> readings[p.to + 1] # Blank
<1>1. /\ HasOpening(p) /\ Covered(p) /\ Blocked(p) = {}
      /\ Status(p) = "complete" <=> Closed(p)
  BY StatusMeans
<1>2. p.from \in Nat /\ p.to \in Nat /\ p.from <= p.to /\ p.to < LastDay /\ LastDay \in Nat
  BY LedgerTyped
<1> DEFINE R == ReadingsIn(p)
<1>3. R \subseteq p.from..(p.to + 1) /\ R \subseteq Nat /\ p.from \in R
  BY <1>1, GapsTyped DEF HasOpening
<1>4. LastActual(p) \in R
  BY <1>1, IntervalsTile
<1>5. readings[p.to + 1] # Blank <=> p.to + 1 \in R
  <2>1. p.to + 1 \in MeterDay /\ DOMAIN readings = MeterDay
    BY <1>2 DEF MeterDay, LedgerInv
  <2> QED
    BY <1>2, <2>1 DEF ReadingsIn, Rows
<1>6. Basis(p) = Max(R)
  BY <1>1 DEF Basis
<1> HIDE DEF R
<1>7. Max(R) \in R /\ \A d \in R : d <= Max(R)
  <2>1. \A d \in R : d \in 0..(p.to + 1)
    BY <1>2, <1>3
  <2>2. R \subseteq 0..(p.to + 1) /\ p.to + 1 \in Nat /\ R # {}
    BY <1>2, <1>3, <2>1
  <2> QED
    BY <2>2, GreatestOf
<1>8. ASSUME NEW d \in R PROVE d \in Nat /\ p.from <= d /\ d <= p.to + 1
  <2>1. d \in p.from..(p.to + 1) /\ d \in Nat
    BY <1>3, <1>8
  <2> QED
    BY <1>2, <2>1
<1>9. Closed(p) <=> p.to + 1 \in R
  <2>1. Closed(p) <=> Max(R) = p.to + 1
    BY <1>6 DEF Closed
  <2>2. Max(R) \in Nat /\ Max(R) <= p.to + 1
    BY <1>7, <1>8
  <2>3. p.to + 1 \in R => p.to + 1 <= Max(R)
    BY <1>7
  <2> QED
    BY <1>2, <1>7, <2>1, <2>2, <2>3
<1> QED
  BY <1>1, <1>2, <1>4, <1>5, <1>6, <1>7, <1>8, <1>9

\* What was used: numbers, and the energy is the metered one but for its roundings.
LEMMA ActualKept ==
  ASSUME LedgerConstants, LedgerInv, NEW p \in periods, HasOpening(p), Covered(p)
  PROVE  /\ Actual(p).vt \in Nat /\ Actual(p).nt \in Nat /\ Actual(p).energy \in Nat /\ Actual(p).fee \in Nat
         /\ Within(Actual(p).energy, Metered(p.from, LastActual(p)), Scale, Cardinality(Intervals(p)))
<1> DEFINE I == Intervals(p)
           v == [g \in I |-> VT(g)]
           n == [g \in I |-> NT(g)]
           e == [g \in I |-> EnergyOf(g)]
           s == [g \in I |-> Segment(g)]
<1>1. /\ \A g \in I : s[g] \in Nat /\ e[g] = DivRound(s[g], Scale)
      /\ Sigma(s, I) = Metered(p.from, LastActual(p))
  BY MeteredByTheDay
<1>2. IsFiniteSet(I) /\ LastActual(p) \in Nat /\ p.from \in Nat
  BY IntervalsTile, GapsTyped, LedgerTyped DEF Tiles
<1>3. \A g \in I : v[g] \in Nat /\ n[g] \in Nat
  <2> TAKE g \in I
  <2>1. /\ g = <<g[1], g[2]>> /\ g[1] \in Rows(readings) /\ g[2] \in Rows(readings)
        /\ g[1] \in Nat /\ g[2] \in Nat /\ g[1] < g[2]
    BY IntervalsTile, GapsTyped
  <2> DEFINE a == g[1]  b == g[2]
  <2>2. a <= b /\ a \in Rows(readings) /\ b \in Rows(readings) /\ g = <<a, b>>
    BY <2>1
  <2> HIDE DEF a, b
  <2>3. VT(<<a, b>>) \in Nat /\ NT(<<a, b>>) \in Nat
    BY <2>2, MovesForwards
  <2> QED
    BY <2>2, <2>3
<1>4. /\ Actual(p).vt = Sigma(v, I) /\ Actual(p).nt = Sigma(n, I) /\ Actual(p).energy = Sigma(e, I)
      /\ Actual(p).fee = Fees(FeeChunks(p.from, LastActual(p)))
  BY SumFun DEF Actual
<1> HIDE DEF v, n, e, s, I
<1>5. Within(Sigma(e, I), Sigma(s, I), Scale, Cardinality(I)) /\ Sigma(e, I) \in Nat
  BY <1>1, <1>2, RoundedSum, LedgerTyped
<1>6. Sigma(v, I) \in Nat /\ Sigma(n, I) \in Nat
  <2>1. Ints(v, I) /\ Ints(n, I) /\ (\A g \in I : v[g] >= 0) /\ (\A g \in I : n[g] >= 0)
    BY <1>3 DEF Ints
  <2>2. Sigma(v, I) \in Int /\ Sigma(n, I) \in Int
    BY <1>2, <2>1, SumInt
  <2>3. 0 <= Sigma(v, I)
    BY <1>2, <2>1, SumOfPart
  <2>4. 0 <= Sigma(n, I)
    BY <1>2, <2>1, SumOfPart
  <2> QED
    BY <2>2, <2>3, <2>4
<1>7. Fees(FeeChunks(p.from, LastActual(p))) \in Nat
  BY <1>2, FeesByTheDay
<1> QED
  BY <1>1, <1>4, <1>5, <1>6, <1>7 DEF I

\* What is to come is the average of the days so far, each day at its own price, but for a
\* rounding per price list.
LEMMA ForecastKept ==
  ASSUME LedgerConstants, LedgerInv, NEW p \in periods, Priced(p), Status(p) = "ok"
  PROVE  /\ Within(ForecastEnergy(p), Projected(p), Scale * Elapsed(p),
                   Cardinality(Pieces(Basis(p), p.to + 1, Rows(tariffs))))
         /\ ForecastEnergy(p) \in Nat
<1> DEFINE act == Actual(p)
           b == Basis(p)
           to == p.to + 1
           Q == Pieces(b, to, Rows(tariffs))
           el == Elapsed(p)
           den == el * Scale
           w == [d \in b..p.to |-> Average(act, d)]
           a == [run \in Q |-> (run[2] - run[1]) * Average(act, run[1])]
           q == [run \in Q |-> DivRound((run[2] - run[1]) * Average(act, run[1]), den)]
<1>1. HasOpening(p) /\ Covered(p) /\ el >= 1
  BY StatusMeans
<1>2. /\ p.from \in Nat /\ p.to \in Nat /\ b \in Nat /\ p.from <= b /\ b <= to /\ to \in Nat
      /\ Scale \in Nat \ {0} /\ Rows(tariffs) \subseteq Nat
  BY DaysSoFar, LedgerTyped
<1>3. den \in Nat \ {0} /\ den = Scale * el
  <2>1. el \in Nat \ {0} /\ Scale \in Nat \ {0}
    BY <1>1, <1>2 DEF Elapsed
  <2> HIDE DEF el
  <2> QED
    BY <2>1, SMTT(30)
<1>4. act.vt \in Nat /\ act.nt \in Nat
  BY <1>1, ActualKept
<1>5. ForecastEnergy(p) = Sigma(q, Q)
  BY SumFun DEF ForecastEnergy
<1>6. Projected(p) = Sigma(w, b..p.to)
  BY SumFun DEF Projected
<1>7. \A d \in b..p.to : w[d] = Average(act, d)
  OBVIOUS
<1>8. \A run \in Q : a[run] = (run[2] - run[1]) * Average(act, run[1]) /\ q[run] = DivRound(a[run], den)
  OBVIOUS
<1> HIDE DEF act, el, den, w, a, q, b, to
<1>9. ASSUME NEW d \in Nat, b <= d PROVE Average(act, d) \in Nat
  <2>1. InForce(tariffs, p.from) # Blank /\ p.from <= d
    BY <1>1, <1>2, <1>9 DEF Covered
  <2>2. RowOf(d) \in [vt : Nat, nt : Nat, fee : Nat]
    BY <1>2, <2>1, PricedFrom
  <2>3. Average(act, d) = act.vt * RowOf(d).vt + act.nt * RowOf(d).nt
    BY DEF Average, RowOf
  <2> QED
    BY <1>4, <2>2, <2>3, SMTT(30)
<1>10. /\ Tiles(Q, b, to)
       /\ \A m \in Q : \A c \in Rows(tariffs) : ~(m[1] < c /\ c < m[2])
       /\ \A m \in Q : m[1] \in Nat /\ m[2] \in Nat
  BY <1>2, PiecesTile
<1> HIDE DEF Q
<1>11. IsFiniteSet(Q) /\ \A m \in Q : b <= m[1] /\ m[1] < m[2] /\ m[2] <= to
  BY <1>10 DEF Tiles
<1>12. \A m \in Q : a[m] \in Nat /\ a[m] = Sigma(w, Stretch(m))
  <2> TAKE m \in Q
  <2> DEFINE s == m[1]
             e == m[2]
             k == Average(act, s)
  <2>1. s \in Nat /\ e \in Nat /\ b <= s /\ s < e /\ e <= to
    BY <1>10, <1>11
  <2>2. k \in Nat
    BY <1>9, <2>1
  <2>3. \A d \in s..(e - 1) : w[d] = k
    <3> SUFFICES ASSUME NEW d \in s..(e - 1) PROVE w[d] = k
      OBVIOUS
    <3>1. d \in Int /\ s <= d /\ d < e /\ d \in b..p.to
      BY <1>2, <2>1 DEF to
    <3>2. \A c \in Rows(tariffs) : ~(s < c /\ c <= d)
      BY <1>2, <1>10, <2>1, <3>1
    <3>3. Rows(tariffs) \subseteq Int /\ s \in Int
      BY <1>2, <2>1
    <3>4. InForce(tariffs, d) = InForce(tariffs, s)
      BY <3>1, <3>2, <3>3, SameInForce
    <3> QED
      BY <1>7, <3>1, <3>4 DEF Average
  <2>4. a[m] = (e - s) * k
    BY <1>8
  <2> HIDE DEF s, e, k
  <2>5. Sigma(w, s..(e - 1)) = k * (e - s)
    <3>1. s \in Int /\ e \in Int /\ s <= e /\ k \in Int
      BY <2>1, <2>2
    <3> QED
      BY <2>3, <3>1, SumOfSame
  <2>6. (e - s) * k \in Nat /\ (e - s) * k = k * (e - s)
    <3>1. e - s \in Nat
      BY <2>1
    <3> QED
      BY <2>2, <3>1, SMTT(30)
  <2> QED
    BY <2>4, <2>5, <2>6 DEF Stretch, s, e
<1>13. Ints(w, b..(to - 1)) /\ b..(to - 1) = b..p.to
  <2>1. to - 1 = p.to
    BY <1>2 DEF to
  <2>2. \A d \in b..p.to : d \in Nat /\ b <= d
    BY <1>2
  <2> QED
    BY <1>7, <1>9, <2>1, <2>2 DEF Ints
<1>14. Sigma(a, Q) = Sigma(w, b..(to - 1))
  <2>1. b \in Int /\ to \in Int /\ (\A m \in Q : a[m] = Sigma(w, Stretch(m)))
    BY <1>2, <1>12
  <2> QED
    BY <1>10, <1>13, <2>1, TilesSum
<1>15. Within(Sigma(q, Q), Sigma(a, Q), den, Cardinality(Q)) /\ Sigma(q, Q) \in Nat
  <2>1. (\A m \in Q : a[m] \in Nat) /\ (\A m \in Q : q[m] = DivRound(a[m], den))
    BY <1>8, <1>12
  <2> QED
    BY <1>3, <1>11, <2>1, RoundedSum
<1> QED
  BY <1>3, <1>5, <1>6, <1>13, <1>14, <1>15 DEF el, b, to, Q

\* A cost is a number.
LEMMA CostIsANumber ==
  ASSUME LedgerConstants, LedgerInv, NEW p \in periods, Priced(p)
  PROVE  CostTotal(p) \in Int
<1>1. HasOpening(p) /\ Covered(p)
  BY StatusMeans
<1>2. Actual(p).energy \in Nat /\ Actual(p).fee \in Nat
  BY <1>1, ActualKept
<1>3. p.from \in Nat /\ p.to + 1 \in Nat
  BY LedgerTyped
<1>4. FeeTotal(p) \in Nat
  BY <1>3, FeesByTheDay DEF FeeTotal
<1>5. Forecast(p).energy \in Int /\ Forecast(p).fee \in Int
  BY <1>2, <1>4, ForecastKept DEF Forecast
<1> QED
  BY <1>2, <1>5 DEF CostTotal

\* The bill is the sum over single days but for its roundings.
LEMMA BillKept ==
  ASSUME LedgerConstants, LedgerInv
  PROVE  PricedByTheDay
<1> SUFFICES ASSUME NEW p \in periods, Priced(p)
             PROVE
    /\ Within(Actual(p).energy, Metered(p.from, LastActual(p)), Scale, Cardinality(Intervals(p)))
    /\ Status(p) = "ok" =>
         Within(Forecast(p).energy, Projected(p), Scale * Elapsed(p),
                Cardinality(Pieces(Basis(p), p.to + 1, Rows(tariffs))))
    /\ Within(FeeTotal(p), DailyFees(p.from, p.to + 1), MonthLen, Cardinality(FeeChunks(p.from, p.to + 1)))
    /\ Forecast(p).fee >= 0 /\ Actual(p).fee >= 0
    /\ Status(p) = "complete" <=> readings[p.to + 1] # Blank
  BY DEF PricedByTheDay
<1>1. HasOpening(p) /\ Covered(p)
  BY StatusMeans
<1>2. /\ p.from \in Nat /\ p.to + 1 \in Nat /\ LastActual(p) \in Nat /\ LastActual(p) <= p.to + 1
      /\ Status(p) = "complete" <=> readings[p.to + 1] # Blank
  BY DaysSoFar
<1>3. /\ Within(Actual(p).energy, Metered(p.from, LastActual(p)), Scale, Cardinality(Intervals(p)))
      /\ Actual(p).fee \in Nat /\ Actual(p).fee = Fees(FeeChunks(p.from, LastActual(p)))
  BY <1>1, ActualKept DEF Actual
<1>4. Within(FeeTotal(p), DailyFees(p.from, p.to + 1), MonthLen, Cardinality(FeeChunks(p.from, p.to + 1)))
      /\ FeeTotal(p) \in Nat
  BY <1>2, FeesByTheDay DEF FeeTotal
<1>5. Status(p) = "ok" => Forecast(p) = [energy |-> ForecastEnergy(p), fee |-> FeeTotal(p) - Actual(p).fee]
  BY DEF Forecast
<1>6. Forecast(p).fee >= 0
  <2>1. Actual(p).fee <= FeeTotal(p)
    BY <1>2, <1>3, FeesGrow DEF FeeTotal
  <2>2. FeeTotal(p) - Actual(p).fee >= 0
    BY <1>3, <1>4, <2>1
  <2> QED
    BY <1>5, <2>2 DEF Forecast
<1>7. Status(p) = "ok" =>
        Within(Forecast(p).energy, Projected(p), Scale * Elapsed(p),
               Cardinality(Pieces(Basis(p), p.to + 1, Rows(tariffs))))
  BY <1>5, ForecastKept
<1> QED
  BY <1>2, <1>3, <1>4, <1>6, <1>7

----------------------------------------------------------------------------
(* Advances. *)

\* So are advances.
LEMMA AmountsAreNumbers ==
  ASSUME LedgerConstants, LedgerInv, NEW m \in Month
  PROVE  AmountOf(m) \in Nat
<1>1. /\ payments \in [Month -> Paid \cup {Blank}] /\ Paid \subseteq Nat
      /\ advances \in [MeterDay -> Schedule \cup {Blank}] /\ Schedule \subseteq [amount : Nat, due : Nat]
  BY DEF LedgerInv, LedgerConstants
<1>2. First(m) \in Nat
  <2>1. m \in Nat /\ MonthLen \in Nat
    BY LedgerTyped DEF Month
  <2> QED
    BY <2>1, SMTT(30) DEF First
<1> DEFINE a == InForce(advances, First(m))
<1>3. a # Blank => advances[a] \in [amount : Nat, due : Nat]
  <2>1. a # Blank => a \in Rows(advances)
    BY <1>1, <1>2, InForceIsThere
  <2> QED
    BY <1>1, <2>1 DEF Rows
<1>4. payments[m] # Blank => payments[m] \in Nat
  BY <1>1
<1> HIDE DEF a
<1>5. AmountOf(m) = IF payments[m] # Blank THEN payments[m] ELSE IF a # Blank THEN advances[a].amount ELSE 0
  BY DEF AmountOf, a
<1> QED
  BY <1>3, <1>4, <1>5

\* The advances of some months and of the rest of them.
LEMMA AdvancesSplit ==
  ASSUME LedgerConstants, LedgerInv, NEW A \in SUBSET Month, NEW B \in SUBSET A
  PROVE  /\ Advances(A) \in Int /\ Advances(B) \in Int
         /\ Advances(A \ B) = Advances(A) - Advances(B)
         /\ Cardinality(A \ B) = Cardinality(A) - Cardinality(B) /\ Cardinality(A \ B) \in Nat
<1> DEFINE f == [m \in Month |-> AmountOf(m)]
<1>1. IsFiniteSet(Month)
  <2>1. LastDay \div MonthLen \in Int
    BY LedgerTyped
  <2> QED
    BY <2>1, FS_Interval DEF Month, MonthOf
<1>2. IsFiniteSet(A) /\ IsFiniteSet(B) /\ IsFiniteSet(A \ B)
  BY <1>1, FS_Subset
<1>3. Ints(f, Month)
  BY AmountsAreNumbers DEF Ints
<1>4. ASSUME NEW C \in SUBSET Month PROVE Advances(C) = Sigma(f, C) /\ Ints(f, C)
  <2> DEFINE g == [m \in C |-> AmountOf(m)]
  <2>1. Advances(C) = Sigma(g, C)
    BY SumFun DEF Advances
  <2>2. IsFiniteSet(C)
    BY <1>1, FS_Subset
  <2>3. Ints(f, C)
    BY <1>3 DEF Ints
  <2>4. \A m \in C : g[m] = f[m]
    OBVIOUS
  <2> HIDE DEF f, g
  <2>5. Sigma(g, C) = Sigma(f, C)
    BY <2>2, <2>3, <2>4, SumAlike
  <2> QED
    BY <2>1, <2>3, <2>5
<1> HIDE DEF f
<1>5. A = (A \ B) \cup B /\ (A \ B) \cap B = {} /\ A \ B \in SUBSET Month /\ B \in SUBSET Month
  OBVIOUS
<1> DEFINE C == A \ B
<1>6. A = C \cup B /\ C \cap B = {} /\ IsFiniteSet(C)
  BY <1>2, <1>5
<1> HIDE DEF C
<1>7. Sigma(f, C \cup B) = Sigma(f, C) + Sigma(f, B)
  <2>1. Ints(f, C \cup B)
    BY <1>4, <1>6
  <2> QED
    BY <1>2, <1>6, <2>1, SumUnion
<1>8. Sigma(f, A) \in Int /\ Sigma(f, B) \in Int /\ Sigma(f, C) \in Int
  <2>1. C \in SUBSET Month
    BY <1>5 DEF C
  <2>2. Ints(f, A) /\ Ints(f, B) /\ Ints(f, C)
    BY <1>4, <1>5, <2>1
  <2> QED
    BY <1>2, <1>6, <2>2, SumInt
<1>9. Advances(A) = Sigma(f, A) /\ Advances(B) = Sigma(f, B) /\ Advances(C) = Sigma(f, C)
  BY <1>4, <1>5 DEF C
<1>10. Cardinality(C) = Cardinality(A) - Cardinality(B) /\ Cardinality(C) \in Nat
  <2>1. Cardinality(C) \in Nat /\ Cardinality(B) \in Nat /\ Cardinality(A) \in Nat
    BY <1>2, <1>6, FS_CardinalityType
  <2>2. Cardinality(C \cup B) = Cardinality(C) + Cardinality(B)
    <3>1. Cardinality(C \cup B) = Cardinality(C) + Cardinality(B) - Cardinality(C \cap B)
      BY <1>2, <1>6, FS_Union
    <3>2. Cardinality(C \cap B) = 0
      BY <1>6, FS_EmptySet
    <3> QED
      BY <2>1, <3>1, <3>2
  <2> QED
    BY <1>6, <2>1, <2>2
<1>11. Sigma(f, A) = Sigma(f, C) + Sigma(f, B)
  BY <1>6, <1>7
<1> QED
  BY <1>8, <1>9, <1>10, <1>11 DEF C

\* To round up to whole units is to take the least that is enough.
LEMMA RoundedUp ==
  ASSUME NEW n \in Nat \ {0}, NEW open \in Nat \ {0}
  PROVE  LET k == (open + n - 1) \div n
         IN k \in Nat \ {0} /\ n * k >= open /\ n * (k - 1) < open
<1> DEFINE x == open + n - 1
           k == x \div n
<1>1. x \in Nat /\ n > 0 /\ x >= n
  OBVIOUS
<1> HIDE DEF x
<1>2. k \in Int /\ n * k <= x /\ x < n * (k + 1)
  BY <1>1, SMTT(30)
<1> HIDE DEF k
<1>3. n * (k + 1) = n * k + n /\ n * (k - 1) = n * k - n /\ n * k \in Int
  BY <1>2, Distributes, SMTT(30)
<1>4. n * k >= open /\ n * (k - 1) < open
  BY <1>2, <1>3 DEF x
<1>5. k > 0
  <2> SUFFICES ASSUME k <= 0 PROVE FALSE
    BY <1>2
  <2>1. n * k <= 0
    BY <1>2, SMTT(30)
  <2> DEFINE y == n * k
  <2>2. y \in Int /\ y <= 0 /\ y >= open
    BY <1>3, <1>4, <2>1
  <2> HIDE DEF y
  <2> QED
    BY <2>2
<1> QED
  BY <1>2, <1>4, <1>5 DEF k, x

\* The recommended advance is the least that covers the cost.
LEMMA AdvanceKept ==
  ASSUME LedgerConstants, LedgerInv
  PROVE  RecommendedCovers
<1> SUFFICES ASSUME NEW p \in periods, Priced(p), NEW today \in MeterDay
             PROVE
      LET left == Counted(p) \ DueBy(p, today)
          instead(k) == Balance(p) - Advances(left) + Cardinality(left) * k * Koruna
          k == Recommended(p, CostTotal(p), today)
      IN k # Blank => instead(k) >= 0 /\ (k > 0 => instead(k - 1) < 0)
  BY DEF RecommendedCovers
<1> DEFINE cost == CostTotal(p)
           A == Counted(p)
           B == DueBy(p, today)
           left == A \ B
           n == Cardinality(left)
           open == cost - Advances(B)
           k == Recommended(p, cost, today)
           base == Balance(p) - Advances(left)
<1>1. cost \in Int
  BY CostIsANumber
<1>2. A \in SUBSET Month /\ B \in SUBSET A
  BY DEF Counted, DueBy
<1>3. /\ Advances(A) \in Int /\ Advances(B) \in Int /\ Advances(left) = Advances(A) - Advances(B)
      /\ n = Cardinality(A) - Cardinality(B) /\ n \in Nat
  <2> HIDE DEF A, B
  <2> QED
    BY <1>2, AdvancesSplit
<1>4. Koruna \in Nat \ {0}
  BY LedgerTyped
<1>5. Balance(p) = Advances(A) - cost
  BY DEF Balance, AdvancesTotal
<1>6. k = IF n <= 0 THEN Blank ELSE IF open <= 0 THEN 0 ELSE (open + n * Koruna - 1) \div (n * Koruna)
  BY <1>3 DEF Recommended, AdvancesDue
<1> HIDE DEF cost, A, B, left, n, k
<1>7. open \in Int /\ base = -open
  BY <1>1, <1>3, <1>5
<1> HIDE DEF base, open
<1> SUFFICES ASSUME k # Blank
             PROVE  base + n * k * Koruna >= 0 /\ (k > 0 => base + n * (k - 1) * Koruna < 0)
  BY DEF base, left, n, k, A, B, cost
<1>8. n > 0 /\ n \in Nat
  BY <1>3, <1>6
<1>9. CASE open <= 0
  <2>1. k = 0
    BY <1>6, <1>7, <1>8, <1>9
  <2>2. n * k * Koruna = 0
    BY <1>4, <1>8, <2>1, SMTT(30)
  <2> QED
    BY <1>7, <1>9, <2>1, <2>2
<1>10. CASE open > 0
  <2> DEFINE u == n * Koruna
  <2>1. u \in Nat \ {0}
    BY <1>4, <1>8, SMTT(30)
  <2>2. k = (open + u - 1) \div u
    BY <1>6, <1>7, <1>8, <1>10
  <2> HIDE DEF u
  <2>3. open \in Nat \ {0}
    BY <1>7, <1>10
  <2>4. k \in Nat \ {0} /\ u * k >= open /\ u * (k - 1) < open
    BY <2>1, <2>2, <2>3, RoundedUp
  <2>5. ASSUME NEW j \in Int PROVE n * j * Koruna = u * j /\ u * j \in Int
    BY <1>4, <1>8, <2>1, <2>5, SMTT(30) DEF u
  <2>6. n * k * Koruna = u * k /\ u * k \in Int
    BY <2>4, <2>5
  <2>7. n * (k - 1) * Koruna = u * (k - 1) /\ u * (k - 1) \in Int
    <3>1. k - 1 \in Int
      BY <2>4
    <3> QED
      BY <2>5, <3>1
  <2> QED
    BY <1>7, <2>4, <2>6, <2>7
<1> QED
  BY <1>7, <1>9, <1>10

----------------------------------------------------------------------------
(* The history by months. *)

\* The months are finitely many, and every day is in one.
LEMMA MonthsAreFew ==
  ASSUME LedgerConstants, LedgerInv
  PROVE  IsFiniteSet(Month) /\ \A d \in 0..LastDay : MonthOf(d) \in Month
<1>1. LastDay \in Nat /\ MonthLen \in Nat \ {0}
  BY LedgerTyped
<1>2. LastDay \div MonthLen \in Int
  BY <1>1
<1>3. ASSUME NEW d \in 0..LastDay PROVE MonthOf(d) \in Month
  <2>1. d \in Nat /\ d <= LastDay
    BY <1>1, <1>3
  <2> DEFINE x == d \div MonthLen  y == LastDay \div MonthLen
  <2>2. x \in Int /\ y \in Int /\ MonthLen * x <= d /\ LastDay < MonthLen * (y + 1) /\ x >= 0
    BY <1>1, <2>1, SMTT(30)
  <2> HIDE DEF x, y
  <2>3. x <= y
    <3> SUFFICES ASSUME y + 1 <= x PROVE FALSE
      BY <2>2
    <3>1. MonthLen * (y + 1) <= MonthLen * x
      BY <1>1, <2>2, SMTT(30)
    <3>2. MonthLen * (y + 1) \in Int /\ MonthLen * x \in Int
      BY <1>1, <2>2, SMTT(30)
    <3> QED
      BY <2>1, <2>2, <3>1, <3>2, <1>1
  <2> QED
    BY <2>2, <2>3 DEF x, y, Month, MonthOf
<1> QED
  BY <1>2, <1>3, FS_Interval DEF Month, MonthOf

\* The fees of the months are those of the period, for every chunk counts in one month.
LEMMA HistoryFeesKept ==
  ASSUME LedgerConstants, LedgerInv, NEW p \in periods, HasOpening(p), Covered(p)
  PROVE  SumFunction([m \in Month |-> HistoryFees(p, m)]) = Actual(p).fee
<1> DEFINE L == LastActual(p)
           S == FeeChunks(p.from, L)
           f == [c \in S |-> FeeOf(c)]
           key == [c \in S |-> MonthOf(c[1])]
           h == [m \in Month |-> HistoryFees(p, m)]
<1>1. p.from \in Nat /\ L \in 0..LastDay
  <2>1. p.from \in Nat /\ Rows(readings) \subseteq Nat /\ \A d \in Rows(readings) : d <= LastDay
    BY LedgerTyped
  <2>2. L \in Rows(readings)
    BY IntervalsTile, GapsTyped
  <2> QED
    BY <2>1, <2>2, LedgerTyped
<1>2. Tiles(S, p.from, L) /\ \A c \in S : /\ c[1] \in Nat /\ c[2] \in Nat /\ c = <<c[1], c[2]>>
                                          /\ c[1] < c[2] /\ c[2] <= L
  <2>1. L \in Nat
    BY <1>1
  <2> QED
    BY <1>1, <2>1, ChunksTile
<1>3. IsFiniteSet(S)
  BY <1>2 DEF Tiles
<1>4. Actual(p).fee = Sigma(f, S)
  BY SumFun DEF Actual, Fees
<1>5. SumFunction(h) = Sigma(h, Month)
  BY SumFun
<1>6. \A m \in Month : h[m] = Fees({c \in S : MonthOf(c[1]) = m})
  BY DEF HistoryFees
<1>7. (\A c \in S : key[c] = MonthOf(c[1])) /\ (\A c \in S : f[c] = FeeOf(c))
  OBVIOUS
<1> HIDE DEF L, S, f, key, h
<1>8. \A c \in S : key[c] \in Month
  <2> TAKE c \in S
  <2>1. c[1] \in 0..LastDay
    BY <1>1, <1>2, LedgerTyped
  <2> QED
    BY <1>7, <2>1, MonthsAreFew
<1>9. \A c \in S : f[c] \in Int
  <2> TAKE c \in S
  <2> DEFINE a == c[1]  b == c[2]
  <2>1. a \in Nat /\ b \in Nat /\ a <= b /\ c = <<a, b>>
    BY <1>2
  <2> HIDE DEF a, b
  <2> DEFINE n == MonthlyFee(a) * (b - a)
  <2>2. n \in Nat /\ FeeOf(<<a, b>>) = DivRound(n, MonthLen) /\ MonthLen \in Nat \ {0}
    BY <2>1, ChunkFee, LedgerTyped
  <2> HIDE DEF n
  <2>3. DivRound(n, MonthLen) \in Nat
    BY <2>2, RoundedNat
  <2> QED
    BY <1>7, <2>1, <2>2, <2>3
<1>10. Ints(f, S)
  BY <1>9 DEF Ints
<1>11. \A m \in Month : h[m] = Sigma(f, {c \in S : key[c] = m})
  <2> TAKE m \in Month
  <2> DEFINE T == {c \in S : MonthOf(c[1]) = m}
             g == [c \in T |-> FeeOf(c)]
  <2>1. h[m] = Sigma(g, T)
    BY <1>6, SumFun DEF Fees
  <2>2. T = {c \in S : key[c] = m}
    BY <1>7
  <2>3. T \subseteq S
    OBVIOUS
  <2>4. \A c \in T : g[c] = f[c]
    BY <1>7, <2>3
  <2> HIDE DEF T, g
  <2>5. IsFiniteSet(T) /\ Ints(f, T)
    BY <1>3, <1>9, <2>3, FS_Subset DEF Ints
  <2>6. Sigma(g, T) = Sigma(f, T)
    BY <2>4, <2>5, SumAlike
  <2> QED
    BY <2>1, <2>2, <2>6
<1>12. IsFiniteSet(Month)
  BY MonthsAreFew
<1>13. Sigma(h, Month) = Sigma(f, S)
  <2> DEFINE part == [m \in Month |-> {c \in S : key[c] = m}]
  <2>1. \A m \in Month : part[m] = {c \in S : key[c] = m}
    OBVIOUS
  <2>2. \A m \in Month : h[m] = Sigma(f, part[m])
    BY <1>11
  <2> HIDE DEF part
  <2>3. Classed(f, S, key, part, h, Month)
    BY <1>3, <1>8, <1>10, <1>12, <2>1, <2>2 DEF Classed
  <2> QED
    BY <2>3, SumByKey
<1> QED
  BY <1>4, <1>5, <1>13 DEF h

\* The days of an interval that fall in a month, and its months.
DaysIn(g, m) == Cardinality({d \in g[1]..(g[2] - 1) : MonthOf(d) = m})
Touches(g, m) == \E d \in g[1]..(g[2] - 1) : MonthOf(d) = m
Touch(g, m) == IF Touches(g, m) THEN 1 ELSE 0

\* A month's share of an interval is off by half a unit.
LEMMA ShareRounded ==
  ASSUME LedgerConstants, LedgerInv, NEW a \in Nat, NEW b \in Nat, a < b, NEW m, NEW n \in Nat
  PROVE  LET g == <<a, b>> IN
         /\ DaysIn(g, m) \in Nat /\ Share(g, m, n) \in Nat /\ n * DaysIn(g, m) \in Nat
         /\ 2 * Abs(Share(g, m, n) * (b - a) - n * DaysIn(g, m)) <= (b - a) * Touch(g, m)
<1> DEFINE g == <<a, b>>
           D == {d \in a..(b - 1) : MonthOf(d) = m}
           days == Cardinality(D)
           den == b - a
<1>1. IsFiniteSet(a..(b - 1)) /\ den \in Nat \ {0}
  <2>1. a \in Int /\ b - 1 \in Int
    OBVIOUS
  <2> QED
    BY <2>1, FS_Interval
<1>2. IsFiniteSet(D) /\ days \in Nat
  <2>1. IsFiniteSet(D)
    BY <1>1, FS_Subset
  <2> HIDE DEF D
  <2> QED
    BY <2>1, FS_CardinalityType
<1>3. DaysIn(g, m) = days /\ Share(g, m, n) = DivRound(n * days, den) /\ (Touches(g, m) <=> D # {})
  BY DEF DaysIn, Share, Touches
<1>4. n * days \in Nat
  BY <1>2, SMTT(30)
<1>5. days = 0 => n * days = 0
  BY <1>2, SMTT(30)
<1>6. D = {} => days = 0
  BY FS_EmptySet
<1> HIDE DEF days, den, D, g
<1> DEFINE x == n * days
<1>7. x \in Nat /\ (D = {} => x = 0)
  BY <1>4, <1>5, <1>6
<1> HIDE DEF x
<1>8. DivRound(x, den) \in Nat /\ DivRound(0, den) = 0 /\ Within(DivRound(x, den), x, den, 1)
  BY <1>1, <1>7, RoundedNat, RoundedOnce
<1>9. 2 * Abs(DivRound(x, den) * den - x) <= den * Touch(g, m)
  <2>1. CASE D # {}
    <3>1. Touch(g, m) = 1
      BY <1>3, <2>1 DEF Touch
    <3> QED
      BY <1>8, <3>1 DEF Within
  <2>2. CASE D = {}
    <3>1. Touch(g, m) = 0 /\ x = 0 /\ DivRound(x, den) = 0
      BY <1>3, <1>7, <1>8, <2>2 DEF Touch
    <3> QED
      BY <1>1, <3>1 DEF Abs
  <2> QED
    BY <2>1, <2>2
<1> QED
  BY <1>2, <1>3, <1>7, <1>8, <1>9 DEF g, den, x

\* The months of an interval share it out but for a rounding per month.
LEMMA IntervalShared ==
  ASSUME LedgerConstants, LedgerInv, NEW a \in Nat, NEW b \in Nat, a < b, b <= LastDay, NEW n \in Nat,
         NEW q, \A m \in Month : q[m] = Share(<<a, b>>, m, n),
         NEW r, \A m \in Month : r[m] = Touch(<<a, b>>, m)
  PROVE  /\ 2 * Abs(Sigma(q, Month) - n) <= Sigma(r, Month)
         /\ Sigma(q, Month) \in Int /\ Sigma(r, Month) \in Int
<1> DEFINE g == <<a, b>>
           S == a..(b - 1)
           den == b - a
           c == [m \in Month |-> DaysIn(g, m)]
           z == [m \in Month |-> n * c[m]]
           one == [d \in S |-> 1]
           key == [d \in S |-> MonthOf(d)]
<1>1. /\ \A m \in Month : c[m] = DaysIn(g, m) /\ z[m] = n * c[m]
      /\ \A d \in S : one[d] = 1 /\ key[d] = MonthOf(d)
  OBVIOUS
<1>2. IsFiniteSet(S) /\ Cardinality(S) = den /\ den \in Nat \ {0}
  <2>1. a \in Int /\ b - 1 \in Int
    OBVIOUS
  <2>2. IsFiniteSet(S) /\ Cardinality(S) = IF a > b - 1 THEN 0 ELSE (b - 1) - a + 1
    BY <2>1, FS_Interval
  <2> QED
    BY <2>2
<1>3. IsFiniteSet(Month) /\ \A d \in S : key[d] \in Month
  <2>1. LastDay \in Nat
    BY LedgerTyped
  <2>2. \A d \in S : d \in 0..LastDay
    BY <2>1
  <2> QED
    BY <1>1, <2>2, MonthsAreFew
<1>4. \A m \in Month : c[m] = Cardinality({d \in S : key[d] = m})
  <2> TAKE m \in Month
  <2>1. {d \in S : key[d] = m} = {d \in a..(b - 1) : MonthOf(d) = m}
    OBVIOUS
  <2> QED
    BY <1>1, <2>1 DEF DaysIn
<1> HIDE DEF S, c, z, one, key
<1>5. \A m \in Month : c[m] \in Nat /\ q[m] \in Nat /\ z[m] \in Nat
                       /\ 2 * Abs(q[m] * den - z[m]) <= den * r[m]
  <2> TAKE m \in Month
  <2>1. DaysIn(g, m) \in Nat /\ Share(g, m, n) \in Nat /\ n * DaysIn(g, m) \in Nat
        /\ 2 * Abs(Share(g, m, n) * (b - a) - n * DaysIn(g, m)) <= (b - a) * Touch(g, m)
    BY ShareRounded
  <2> QED
    BY <1>1, <2>1
<1> HIDE DEF g, den
<1>6. Ints(c, Month) /\ Ints(q, Month) /\ Ints(z, Month) /\ Ints(r, Month)
  BY <1>5 DEF Ints, Touch
<1>7. \A m \in Month : c[m] = Sigma(one, {d \in S : key[d] = m})
  <2> TAKE m \in Month
  <2> DEFINE T == {d \in S : key[d] = m}
  <2>1. IsFiniteSet(T) /\ \A d \in T : one[d] = 1
    BY <1>1, <1>2, FS_Subset
  <2>2. c[m] = Cardinality(T)
    BY <1>4
  <2> HIDE DEF T
  <2>3. Sigma(one, T) = 1 * Cardinality(T) /\ Cardinality(T) \in Nat
    BY <2>1, SumConst, FS_CardinalityType
  <2> QED
    BY <2>2, <2>3 DEF T
<1>8. Ints(one, S)
  BY <1>1 DEF Ints
<1>9. Sigma(c, Month) = Sigma(one, S)
  <2> DEFINE part == [m \in Month |-> {d \in S : key[d] = m}]
  <2>1. \A m \in Month : part[m] = {d \in S : key[d] = m}
    OBVIOUS
  <2>2. \A m \in Month : c[m] = Sigma(one, part[m])
    BY <1>7
  <2> HIDE DEF part
  <2>3. Classed(one, S, key, part, c, Month)
    BY <1>2, <1>3, <1>8, <2>1, <2>2 DEF Classed
  <2> QED
    BY <2>3, SumByKey
<1>10. Sigma(one, S) = den
  <2>1. \A d \in S : one[d] = 1
    BY <1>1
  <2>2. Sigma(one, S) = 1 * Cardinality(S)
    BY <1>2, <2>1, SumConst
  <2> QED
    BY <1>2, <2>2
<1>11. Sigma(z, Month) = n * den
  <2>1. \A m \in Month : z[m] = n * c[m]
    BY <1>1
  <2>2. Sigma(z, Month) = n * Sigma(c, Month)
    BY <1>3, <1>6, <2>1, SumTimes
  <2> QED
    BY <1>9, <1>10, <2>2
<1>12. 2 * Abs(Sigma(q, Month) * den - Sigma(z, Month)) <= den * Sigma(r, Month)
  <2>1. \A m \in Month : 2 * Abs(q[m] * den - z[m]) <= den * r[m]
    BY <1>5
  <2>2. den \in Int
    BY <1>2
  <2> QED
    BY <1>3, <1>6, <2>1, <2>2, SumRounded
<1>13. Sigma(q, Month) \in Int /\ Sigma(r, Month) \in Int
  BY <1>3, <1>6, SumInt
<1> DEFINE x == Sigma(q, Month)
           y == Sigma(r, Month)
<1>14. x \in Int /\ y \in Int /\ 2 * Abs(x * den - n * den) <= den * y
  BY <1>11, <1>12, <1>13
<1> HIDE DEF x, y
<1>15. 2 * Abs(x - n) <= y
  <2> DEFINE e == x - n
  <2>1. e \in Int /\ x * den - n * den = e * den
    BY <1>2, <1>14, SMTT(30)
  <2>2. Abs(e * den) = Abs(e) * den /\ Abs(e) \in Nat
    <3>1. CASE e < 0
      <4> DEFINE w == e * den
      <4>1. w \in Int /\ w < 0 /\ -w = (-e) * den
        BY <1>2, <2>1, <3>1, SMTT(30)
      <4>2. Abs(e) = -e /\ -e \in Nat
        BY <2>1, <3>1 DEF Abs
      <4> HIDE DEF w
      <4>3. Abs(w) = -w
        BY <4>1 DEF Abs
      <4> QED
        BY <4>1, <4>2, <4>3 DEF w
    <3>2. CASE e >= 0
      <4> DEFINE w == e * den
      <4>1. w \in Int /\ w >= 0
        BY <1>2, <2>1, <3>2, SMTT(30)
      <4>2. Abs(e) = e /\ e \in Nat
        BY <2>1, <3>2 DEF Abs
      <4> HIDE DEF w
      <4>3. Abs(w) = w
        BY <4>1 DEF Abs
      <4> QED
        BY <4>2, <4>3 DEF w
    <3> QED
      BY <2>1, <3>1, <3>2
  <2> DEFINE f == Abs(e)
  <2>3. f \in Nat /\ 2 * (f * den) <= den * y
    BY <1>14, <2>1, <2>2
  <2> HIDE DEF e, f
  <2>4. 2 * f <= y
    <3> SUFFICES ASSUME y + 1 <= 2 * f PROVE FALSE
      BY <1>14, <2>3
    <3>1. den * (y + 1) <= den * (2 * f)
      BY <1>2, <1>14, <2>3, SMTT(30)
    <3>2. den * (y + 1) = den * y + den /\ den * (2 * f) = 2 * (f * den) /\ den * y \in Int
      BY <1>2, <1>14, <2>3, SMTT(30)
    <3> QED
      BY <1>2, <2>3, <3>1, <3>2
  <2> QED
    BY <2>4 DEF e, f
<1> QED
  BY <1>13, <1>15 DEF x, y

\* The pairs of which something holds are counted row by row.
LEMMA PairsCounted ==
  ASSUME NEW I, IsFiniteSet(I), NEW K, IsFiniteSet(K), NEW H, H \subseteq I \X K,
         NEW r, \A g \in I, m \in K : r[g][m] = IF <<g, m>> \in H THEN 1 ELSE 0,
         NEW t, \A g \in I : t[g] = Sigma(r[g], K)
  PROVE  Sigma(t, I) = Cardinality(H)
<1> DEFINE one == [x \in H |-> 1]
           row == [x \in H |-> x[1]]
           col == [x \in H |-> x[2]]
           inRow == [g \in I |-> {x \in H : row[x] = g}]
<1>1. IsFiniteSet(H)
  <2>1. IsFiniteSet(I \X K)
    BY FS_Product
  <2> QED
    BY <2>1, FS_Subset
<1>2. \A x \in H : one[x] = 1 /\ row[x] \in I /\ col[x] \in K /\ x = <<row[x], col[x]>>
  OBVIOUS
<1>3. \A g \in I : inRow[g] = {x \in H : row[x] = g}
  OBVIOUS
<1>4. \A g \in I, m \in K : <<g, m>> \in H => row[<<g, m>>] = g /\ col[<<g, m>>] = m
  OBVIOUS
<1> HIDE DEF one, row, col, inRow
<1>5. Ints(one, H)
  BY <1>2 DEF Ints
<1>6. ASSUME NEW g \in I PROVE t[g] = Sigma(one, inRow[g])
  <2> DEFINE S == inRow[g]
             h == r[g]
             part == [m \in K |-> {x \in S : col[x] = m}]
  <2>1. IsFiniteSet(S) /\ Ints(one, S) /\ \A x \in S : col[x] \in K /\ x \in H /\ row[x] = g
    BY <1>1, <1>2, <1>3, <1>5, FS_Subset DEF Ints
  <2>2. \A m \in K : part[m] = {x \in S : col[x] = m}
    OBVIOUS
  <2>3. \A m \in K : h[m] = IF <<g, m>> \in H THEN 1 ELSE 0
    OBVIOUS
  <2>4. \A x : x \in S <=> x \in H /\ row[x] = g
    BY <1>3
  <2> HIDE DEF S, h, part
  <2>5. \A m \in K : h[m] = Sigma(one, part[m])
    <3> TAKE m \in K
    <3>1. CASE <<g, m>> \in H
      <4>1. part[m] = {<<g, m>>}
        <5>1. <<g, m>> \in part[m]
          BY <1>4, <2>2, <2>4, <3>1
        <5>2. \A x \in part[m] : x = <<g, m>>
          BY <1>2, <2>2, <2>4
        <5> QED
          BY <5>1, <5>2
      <4> DEFINE T == {<<g, m>>}
      <4>2. IsFiniteSet(T) /\ Cardinality(T) = 1 /\ \A x \in T : one[x] = 1
        BY <1>2, <3>1, FS_Singleton
      <4> HIDE DEF T
      <4>3. Sigma(one, T) = 1 * Cardinality(T)
        BY <4>2, SumConst
      <4> QED
        BY <2>3, <3>1, <4>1, <4>2, <4>3 DEF T
    <3>2. CASE <<g, m>> \notin H
      <4>1. part[m] = {}
        BY <1>2, <2>2, <2>4, <3>2
      <4> QED
        BY <2>3, <3>2, <4>1, SumOfNone
    <3> QED
      BY <3>1, <3>2
  <2>6. \A x \in S : col[x] \in K
    BY <2>1
  <2>8. Classed(one, S, col, part, h, K)
    BY <2>1, <2>2, <2>5, <2>6 DEF Classed
  <2>7. Sigma(h, K) = Sigma(one, S)
    BY <2>8, SumByKey
  <2> QED
    BY <2>7 DEF h, S
<1>7. \A x \in H : row[x] \in I
  BY <1>2
<1>8. Sigma(t, I) = Sigma(one, H)
  <2>1. Classed(one, H, row, inRow, t, I)
    BY <1>1, <1>3, <1>5, <1>6, <1>7 DEF Classed
  <2> QED
    BY <2>1, SumByKey
<1>9. Sigma(one, H) = Cardinality(H)
  <2>1. \A x \in H : one[x] = 1
    BY <1>2
  <2>2. Sigma(one, H) = 1 * Cardinality(H) /\ Cardinality(H) \in Nat
    BY <1>1, <2>1, SumConst, FS_CardinalityType
  <2> QED
    BY <2>2
<1> QED
  BY <1>8, <1>9

\* The use of the months is that of the period but for the roundings.
LEMMA HistoryUseKept ==
  ASSUME LedgerConstants, LedgerInv, NEW p \in periods, HasOpening(p), Covered(p)
  PROVE  LET parts == {gm \in Intervals(p) \X Month : \E d \in gm[1][1]..(gm[1][2] - 1) : MonthOf(d) = gm[2]}
         IN 2 * Abs(SumFunction([m \in Month |-> HistoryVT(p, m)]) - Actual(p).vt) <= Cardinality(parts)
<1> DEFINE I == Intervals(p)
           K == Month
           H == {gm \in I \X K : Touches(gm[1], gm[2])}
           rf == [g \in I |-> [m \in K |-> Share(g, m, VT(g))]]
           cf == [m \in K |-> [g \in I |-> Share(g, m, VT(g))]]
           tf == [g \in I |-> [m \in K |-> Touch(g, m)]]
           col == [m \in K |-> HistoryVT(p, m)]
           v == [g \in I |-> VT(g)]
           q == [g \in I |-> Sigma(rf[g], K)]
           r == [g \in I |-> Sigma(tf[g], K)]
<1>1. IsFiniteSet(I) /\ IsFiniteSet(K)
  BY IntervalsTile, MonthsAreFew DEF Tiles
<1>2. SumFunction(col) = Sigma(col, K) /\ Actual(p).vt = Sigma(v, I)
  BY SumFun DEF Actual
<1>3. \A m \in K : col[m] = Sigma(cf[m], I)
  BY SumFun DEF HistoryVT
<1>4. /\ \A g \in I : q[g] = Sigma(rf[g], K) /\ r[g] = Sigma(tf[g], K) /\ v[g] = VT(g)
      /\ \A g \in I, m \in K : /\ rf[g][m] = Share(g, m, VT(g)) /\ cf[m][g] = rf[g][m]
                               /\ tf[g][m] = IF <<g, m>> \in H THEN 1 ELSE 0
                               /\ tf[g][m] = Touch(g, m)
  BY DEF Touch
<1>5. H \subseteq I \X K
  OBVIOUS
<1> HIDE DEF I, K, H, rf, cf, tf, col, v, q, r
<1>6. ASSUME NEW g \in I
      PROVE  /\ VT(g) \in Nat /\ \A m \in K : rf[g][m] \in Int
             /\ 2 * Abs(q[g] - v[g]) <= r[g] /\ q[g] \in Int /\ r[g] \in Int
  <2> DEFINE a == g[1]  b == g[2]  n == VT(g)  x == rf[g]  y == tf[g]
  <2>1. /\ g = <<a, b>> /\ a \in Rows(readings) /\ b \in Rows(readings)
        /\ a \in Nat /\ b \in Nat /\ a < b /\ b <= LastDay
    BY <1>6, IntervalsTile, GapsTyped, LedgerTyped DEF I
  <2>2. x = rf[g] /\ y = tf[g] /\ n = VT(g)
    OBVIOUS
  <2> HIDE DEF a, b, x, y, n
  <2>3. n \in Nat
    BY <2>1, <2>2, MovesForwards
  <2>4. (\A m \in K : x[m] = Share(<<a, b>>, m, n)) /\ (\A m \in K : y[m] = Touch(<<a, b>>, m))
    BY <1>4, <2>1, <2>2
  <2>5. /\ 2 * Abs(Sigma(x, K) - n) <= Sigma(y, K) /\ Sigma(x, K) \in Int /\ Sigma(y, K) \in Int
    <3>1. (\A m \in Month : x[m] = Share(<<a, b>>, m, n)) /\ (\A m \in Month : y[m] = Touch(<<a, b>>, m))
      BY <2>4 DEF K
    <3>2. /\ 2 * Abs(Sigma(x, Month) - n) <= Sigma(y, Month) /\ Sigma(x, Month) \in Int /\ Sigma(y, Month) \in Int
      BY <2>1, <2>3, <3>1, IntervalShared
    <3> QED
      BY <3>2 DEF K
  <2>6. \A m \in K : rf[g][m] \in Int
    <3> TAKE m \in K
    <3>1. Share(<<a, b>>, m, n) \in Nat
      BY <2>1, <2>3, ShareRounded
    <3> QED
      BY <2>2, <2>4, <3>1
  <2> QED
    BY <1>4, <2>2, <2>3, <2>5, <2>6
<1>7. Sigma(col, K) = Sigma(q, I)
  <2>1. Table(cf, col, K, rf, q, I)
    BY <1>1, <1>3, <1>4, <1>6 DEF Table
  <2> QED
    BY <2>1, SumSwap
<1>8. Sigma(r, I) = Cardinality(H)
  <2>1. \A g \in I : r[g] = Sigma(tf[g], K)
    BY <1>4
  <2>2. \A g \in I, m \in K : tf[g][m] = IF <<g, m>> \in H THEN 1 ELSE 0
    BY <1>4
  <2> QED
    BY <1>1, <1>5, <2>1, <2>2, PairsCounted
<1>9. Ints(q, I) /\ Ints(v, I) /\ Ints(r, I)
  BY <1>4, <1>6 DEF Ints
<1>10. \A g \in I : 2 * Abs(q[g] * 1 - v[g]) <= 1 * r[g]
  <2> TAKE g \in I
  <2>1. 2 * Abs(q[g] - v[g]) <= r[g] /\ q[g] \in Int /\ r[g] \in Int
    BY <1>6
  <2>2. q[g] * 1 = q[g] /\ 1 * r[g] = r[g]
    BY <2>1
  <2> QED
    BY <2>1, <2>2
<1>11. 2 * Abs(Sigma(q, I) * 1 - Sigma(v, I)) <= 1 * Sigma(r, I)
  BY <1>1, <1>9, <1>10, SumRounded
<1>12. Sigma(q, I) \in Int /\ Sigma(r, I) \in Int
  BY <1>1, <1>9, SumInt
<1>13. 2 * Abs(Sigma(q, I) - Sigma(v, I)) <= Sigma(r, I)
  <2>1. Sigma(q, I) * 1 = Sigma(q, I) /\ 1 * Sigma(r, I) = Sigma(r, I)
    BY <1>12
  <2> QED
    BY <1>11, <2>1
<1>14. H = {gm \in Intervals(p) \X Month : \E d \in gm[1][1]..(gm[1][2] - 1) : MonthOf(d) = gm[2]}
  BY DEF H, Touches, I, K
<1> QED
  BY <1>2, <1>7, <1>8, <1>13, <1>14 DEF col, K

\* The months of the history add up to the period.
LEMMA HistoryKept ==
  ASSUME LedgerConstants, LedgerInv
  PROVE  HistoryAddsUp
BY HistoryFeesKept, HistoryUseKept DEF HistoryAddsUp

----------------------------------------------------------------------------
(* The theorems of the accounts. *)

\* What a billing period costs adds up, whatever is entered, moved and deleted in whatever order: no
\* register runs backwards and no two periods share a day; a priced period is priced for every day
\* of it at the prices of that day; the recommended advance is the least that covers it; what the headroom
\* says an advance still buys costs what is left of it; and the months of the history add up to the period.
THEOREM BillsAddUp ==
  ASSUME LedgerConstants
  PROVE  LedgerSpec => []AccountsAddUp
<1>1. LedgerInit => LedgerInv
  BY LedgerBegins
<1>2. LedgerInv /\ [LedgerNext]_ledger => LedgerInv'
  BY LedgerGoesOn
<1>3. LedgerInv => AccountsAddUp
  BY BillKept, AdvanceKept, HeadroomKept, HistoryKept DEF AccountsAddUp, LedgerInv
<1> QED
  BY <1>1, <1>2, <1>3, PTL DEF LedgerSpec

\* No edit of a price list takes away the price of a period's first day.
THEOREM PeriodsStayPriced ==
  ASSUME LedgerConstants
  PROVE  LedgerSpec => StaysPriced
<1>1. LedgerInit => LedgerInv
  BY LedgerBegins
<1>2. LedgerInv /\ [LedgerNext]_(ledger) => LedgerInv'
  BY LedgerGoesOn
<1>3. LedgerInv /\ LedgerInv' /\ [LedgerNext]_(ledger) => [StaysCovered]_(ledger)
  BY TariffsStay
<1> QED
  BY <1>1, <1>2, <1>3, PTL DEF LedgerSpec, StaysPriced


----------------------------------------------------------------------------
(* The months of income. *)

Walks == [cursor : Months \cup {Nil}, shown : [Ids -> Nat], stayed : SUBSET Ids]

\* Of the reader of the list: what stayed where it was is shown already if it is at the
\* cursor or above, and not yet if it is below.
Shown(i) ==
  IF walk.cursor = Nil THEN walk.shown[i] = 1
  ELSE walk.shown[i] = IF months[i].month < walk.cursor THEN 0 ELSE 1

FinanceInv ==
  /\ months \in [Ids -> Row \cup {Nil}] /\ walk \in Walks \cup {Nil}
  /\ \A i \in Made : Valid(months[i])
  /\ \A i, j \in Made : i # j => months[i].month # months[j].month
  /\ walk # Nil => walk.stayed \subseteq Made /\ \A i \in walk.stayed : Shown(i)

LEMMA MonthsAreNumbers ==
  ASSUME FinanceConstants, FinanceInv
  PROVE  /\ \A i \in Made : months[i] \in Row /\ months[i].month \in Nat /\ i \in Ids
         /\ IsFiniteSet(Made) /\ Made = {i \in Ids : months[i] # Nil} /\ Nil \notin Nat
<1>1. Made = {i \in Ids : months[i] # Nil}
  BY DEF Made
<1>2. IsFiniteSet(Made)
  BY <1>1, FS_Subset DEF FinanceConstants
<1> QED
  BY <1>1, <1>2 DEF FinanceInv, FinanceConstants, Row

\* A rounding is off by half at most.
LEMMA RoundedBy ==
  ASSUME NEW x \in Int, NEW r \in Rounded(x)
  PROVE  r \in Int /\ 100 * r - x <= 50 /\ x - 100 * r <= 50
<1>1. CASE x % 100 = 50
  BY <1>1 DEF Rounded
<1>2. CASE x % 100 # 50
  BY <1>2 DEF Rounded
<1> QED
  BY <1>1, <1>2

LEMMA SplitsAddUp ==
  ASSUME NEW m, m.kaja \in Int, m.andy \in Int, m.rates \in [personal : Int, operational : Int, fun : Int, noFun : Int],
         Valid(m), NEW s \in Compute(m)
  PROVE  LET income == m.kaja + m.andy
         IN /\ s.personalKaja + s.personalAndy + s.fun + s.noFun + s.needs = income
            /\ 100 * s.needs >= income * m.rates.operational - 200
<1> DEFINE k == m.kaja  a == m.andy  p == m.rates.personal  f == m.rates.fun  n == m.rates.noFun  o == m.rates.operational
<1>1. k \in Int /\ a \in Int /\ p \in Int /\ f \in Int /\ n \in Int /\ o \in Int /\ p + o + f + n = 100
  BY DEF Valid
<1>2. PICK pk \in Rounded(k * p), pa \in Rounded(a * p), fu \in Rounded((k + a) * f),
           no \in Rounded((k + a) * n) :
        s = [personalKaja |-> pk, personalAndy |-> pa, received |-> k - pk + a - pa,
             fun |-> fu, noFun |-> no, needs |-> k - pk + a - pa - fu - no]
  BY DEF Compute
<1>3. s.personalKaja = pk /\ s.personalAndy = pa /\ s.fun = fu /\ s.noFun = no /\ s.needs = k - pk + a - pa - fu - no
  BY <1>2
<1> HIDE DEF k, a, p, f, n, o
<1>4. k * p \in Int /\ a * p \in Int /\ (k + a) * f \in Int /\ (k + a) * n \in Int /\ (k + a) * o \in Int
  BY <1>1
<1>5. /\ pk \in Int /\ 100 * pk - k * p <= 50
      /\ pa \in Int /\ 100 * pa - a * p <= 50
      /\ fu \in Int /\ 100 * fu - (k + a) * f <= 50
      /\ no \in Int /\ 100 * no - (k + a) * n <= 50
  BY <1>2, <1>4, RoundedBy
<1>6. k * p + a * p + (k + a) * f + (k + a) * n + (k + a) * o = (k + a) * 100
  <2>1. k * p + a * p + (k + a) * f + (k + a) * n + (k + a) * o = (k + a) * (p + o + f + n)
    BY <1>1, SMTT(30)
  <2> QED
    BY <1>1, <2>1
<1> DEFINE kp == k * p  ap == a * p  cf == (k + a) * f  cn == (k + a) * n  co == (k + a) * o
<1>7. /\ kp \in Int /\ ap \in Int /\ cf \in Int /\ cn \in Int /\ co \in Int /\ kp + ap + cf + cn + co = (k + a) * 100
      /\ 100 * pk - kp <= 50 /\ 100 * pa - ap <= 50 /\ 100 * fu - cf <= 50 /\ 100 * no - cn <= 50
  BY <1>4, <1>5, <1>6
<1> HIDE DEF kp, ap, cf, cn, co
<1>8. 100 * (k - pk + a - pa - fu - no) >= co - 200
  BY <1>1, <1>5, <1>7
<1>9. pk + pa + fu + no + (k - pk + a - pa - fu - no) = k + a
  BY <1>1, <1>5
<1> QED
  BY <1>3, <1>8, <1>9 DEF co, k, a, o

LEMMA MissingAreMissing ==
  ASSUME FinanceConstants, FinanceInv, NEW today \in Months
  PROVE  MissingMonths(today) =
           {x \in today - Lookback .. today : /\ \A i \in Made : months[i].month # x
                                              /\ \E i \in Made : months[i].month < x}
<1> DEFINE recorded == {months[i].month : i \in Made}
           least == Min(recorded)
           from == IF least < today - Lookback THEN today - Lookback ELSE least
<1>1. recorded \subseteq Nat /\ today \in Nat /\ Lookback \in Nat
  BY MonthsAreNumbers DEF FinanceConstants
<1>2. MissingMonths(today) = IF recorded = {} THEN {} ELSE (from..today) \ recorded
  BY DEF MissingMonths
<1>3. CASE recorded = {}
  BY <1>2, <1>3
<1>4. CASE recorded # {}
  <2>1. least \in recorded /\ \A x \in recorded : least <= x
    <3>1. \E x \in recorded : \A y \in recorded : x <= y
      BY <1>1, <1>4, LeastMember
    <3> QED
      BY <3>1 DEF Min
  <2>2. \A x \in Int : x \in from..today <=> x \in today - Lookback .. today /\ least <= x
    BY <1>1, <2>1
  <2>3. \A x \in Int : least <= x /\ x \notin recorded => \E i \in Made : months[i].month < x
    <3>1. PICK i \in Made : months[i].month = least
      BY <2>1
    <3> TAKE x \in Int
    <3>2. least \in Int /\ (x \notin recorded => x # least)
      BY <1>1, <2>1
    <3> QED
      BY <3>1, <3>2
  <2>4. \A x \in Int : (\E i \in Made : months[i].month < x) => least <= x
    <3> SUFFICES ASSUME NEW x \in Int, NEW i \in Made, months[i].month < x PROVE least <= x
      OBVIOUS
    <3>1. months[i].month \in recorded
      OBVIOUS
    <3>2. least <= months[i].month /\ least \in Int /\ months[i].month \in Int
      BY <1>1, <2>1, <3>1
    <3> QED
      BY <3>2
  <2>5. \A x : x \in recorded <=> \E i \in Made : months[i].month = x
    OBVIOUS
  <2>6. today - Lookback .. today \subseteq Int /\ from..today \subseteq Int
    BY <1>1, <2>1
  <2> HIDE DEF recorded, from, least
  <2> QED
    BY <1>2, <1>4, <2>2, <2>3, <2>4, <2>5, <2>6
<1> QED
  BY <1>3, <1>4


\* What a page shows of the months not shown yet: the newest of them.
Rest(cursor) == {i \in Made : cursor = Nil \/ months[i].month < cursor}
Newer(cursor, i) == {j \in Rest(cursor) : months[j].month > months[i].month}

LEMMA PageIsOnTop ==
  ASSUME FinanceConstants, FinanceInv, NEW cursor \in Months \cup {Nil}
  PROVE  /\ \A i : i \in Page(cursor) <=> i \in Rest(cursor) /\ Cardinality(Newer(cursor, i)) < PageSize
         /\ \A i \in Rest(cursor) : IsFiniteSet(Newer(cursor, i)) /\ Cardinality(Newer(cursor, i)) \in Nat
         /\ \A i, j \in Rest(cursor) : j \in Page(cursor) /\ months[i].month >= months[j].month => i \in Page(cursor)
         /\ Rest(cursor) # {} => Page(cursor) # {}
         /\ PageSize \in Nat \ {0} /\ IsFiniteSet(Rest(cursor)) /\ Rest(cursor) \subseteq Made
<1>1. Page(cursor) = {i \in Rest(cursor) : Cardinality(Newer(cursor, i)) < PageSize}
  BY DEF Page, Rest, Newer
<1>2. Rest(cursor) \subseteq Made /\ IsFiniteSet(Rest(cursor))
  BY MonthsAreNumbers, FS_Subset DEF Rest
<1>3. \A i \in Rest(cursor) : IsFiniteSet(Newer(cursor, i)) /\ Cardinality(Newer(cursor, i)) \in Nat
  BY <1>2, FS_Subset, FS_CardinalityType DEF Newer
<1>4. PageSize \in Nat \ {0}
  BY DEF FinanceConstants
<1>5. \A i \in Rest(cursor) : months[i].month \in Nat
  BY <1>2, MonthsAreNumbers
<1>6. ASSUME NEW i \in Rest(cursor), NEW j \in Rest(cursor), j \in Page(cursor), months[i].month >= months[j].month
      PROVE  i \in Page(cursor)
  <2>1. Newer(cursor, i) \subseteq Newer(cursor, j)
    BY <1>5, <1>6 DEF Newer
  <2>2. Cardinality(Newer(cursor, i)) <= Cardinality(Newer(cursor, j))
    BY <1>3, <2>1, FS_Subset
  <2> QED
    BY <1>1, <1>3, <1>4, <1>6, <2>2
<1>7. ASSUME Rest(cursor) # {} PROVE Page(cursor) # {}
  <2> DEFINE M == {months[i].month : i \in Rest(cursor)}
  <2>1. M \subseteq Nat /\ M # {} /\ IsFiniteSet(M)
    <3> DEFINE f == [i \in Rest(cursor) |-> months[i].month]
    <3>1. f \in Surjection(Rest(cursor), M)
      BY DEF Surjection
    <3>2. IsFiniteSet(M)
      BY <1>2, <3>1, FS_Surjection
    <3> QED
      BY <1>5, <1>7, <3>2
  <2>2. PICK x \in M : \A y \in M : y <= x
    BY <2>1, GreatestOfFinite
  <2>3. PICK i \in Rest(cursor) : months[i].month = x
    BY <2>2
  <2>4. Newer(cursor, i) = {}
    <3>1. \A j \in Rest(cursor) : months[j].month \in M
      OBVIOUS
    <3>2. \A j \in Rest(cursor) : months[j].month <= months[i].month
      BY <2>2, <2>3, <3>1
    <3>3. \A j \in Rest(cursor) : ~(months[j].month > months[i].month)
      <4> HIDE DEF M
      <4> QED
        BY <1>5, <3>2
    <3> QED
      BY <3>3 DEF Newer
  <2>5. Cardinality(Newer(cursor, i)) = 0
    BY <2>4, FS_EmptySet
  <2> QED
    BY <1>1, <1>4, <2>3, <2>5
<1> QED
  BY <1>1, <1>2, <1>3, <1>4, <1>6, <1>7

LEMMA ListKeeps ==
  ASSUME FinanceConstants, FinanceInv, List
  PROVE  FinanceInv'
<1> DEFINE cursor == IF walk = Nil THEN Nil ELSE walk.cursor
           page == Page(cursor)
           next == IF page = {} THEN Nil ELSE NextCursor(cursor, page)
           before(i) == IF walk = Nil THEN 0 ELSE walk.shown[i]
           shown == [i \in Ids |-> before(i) + (IF i \in page THEN 1 ELSE 0)]
           stayed == IF walk = Nil THEN Made ELSE walk.stayed
           last == Min({months[i].month : i \in page})
<1>1. /\ walk # Nil => walk \in Walks /\ walk.cursor # Nil
      /\ walk' = [cursor |-> next, shown |-> shown, stayed |-> stayed] /\ months' = months
  BY DEF List, FinanceInv
<1>2. cursor \in Months \cup {Nil} /\ Months \subseteq Nat /\ Nil \notin Nat /\ Nil \notin Months
  BY <1>1 DEF Walks, FinanceConstants
<1>3. stayed \subseteq Made /\ Made \subseteq Ids
  BY MonthsAreNumbers DEF FinanceInv
<1>4. \A i \in Ids : before(i) \in Nat
  BY <1>1 DEF Walks
<1>5. /\ \A i, j \in Rest(cursor) : j \in page /\ months[i].month >= months[j].month => i \in page
      /\ Rest(cursor) # {} => page # {}
      /\ page \subseteq Rest(cursor) /\ Rest(cursor) \subseteq Made
  BY <1>2, PageIsOnTop
<1>6. \A i \in Made : months[i].month \in Nat /\ months[i].month \in Months
  BY MonthsAreNumbers DEF Row
<1>7. page # {} => /\ last \in {months[i].month : i \in page}
                   /\ \A i \in page : last <= months[i].month
  <2> SUFFICES ASSUME page # {} PROVE last \in {months[i].month : i \in page} /\ \A i \in page : last <= months[i].month
    OBVIOUS
  <2> DEFINE M == {months[i].month : i \in page}
  <2>1. M \subseteq Nat /\ M # {}
    BY <1>5, <1>6
  <2>2. \E x \in M : \A y \in M : x <= y
    BY <2>1, LeastMember
  <2>3. last \in M /\ \A y \in M : last <= y
    BY <2>2 DEF Min
  <2> QED
    BY <2>3
<1>8. next = IF page # {} /\ (\E i \in Rest(cursor) : months[i].month < last) THEN last ELSE Nil
  BY DEF NextCursor, Rest
<1>9. next \in Months \cup {Nil}
  BY <1>5, <1>6, <1>7, <1>8
<1>10. shown \in [Ids -> Nat]
  BY <1>4
<1>11. walk' \in Walks
  BY <1>1, <1>3, <1>9, <1>10 DEF Walks
<1>12. \A i \in stayed : before(i) = IF i \in Rest(cursor) THEN 0 ELSE 1
  <2> SUFFICES ASSUME NEW i \in stayed PROVE before(i) = IF i \in Rest(cursor) THEN 0 ELSE 1
    OBVIOUS
  <2>1. CASE walk = Nil
    BY <1>3, <2>1 DEF Rest
  <2>2. CASE walk # Nil
    <3>1. Shown(i)
      BY <2>2 DEF FinanceInv
    <3> QED
      BY <1>1, <1>3, <2>2, <3>1 DEF Shown, Rest
  <2> QED
    BY <2>1, <2>2
<1>13. \A i \in Rest(cursor) : i \in page <=> (next = Nil \/ months[i].month >= next)
  <2> SUFFICES ASSUME NEW i \in Rest(cursor) PROVE i \in page <=> (next = Nil \/ months[i].month >= next)
    OBVIOUS
  <2>1. page # {} /\ months[i].month \in Nat
    BY <1>5, <1>6
  <2>2. PICK j \in page : months[j].month = last
    BY <1>7, <2>1
  <2>3. i \in page => months[i].month >= last
    BY <1>5, <1>6, <1>7, <2>1, <2>2
  <2>4. months[i].month >= last => i \in page
    BY <1>5, <2>2
  <2>5. last \in Nat
    BY <1>5, <1>6, <2>2
  <2> HIDE DEF next, page, cursor, last
  <2>6. CASE \E k \in Rest(cursor) : months[k].month < last
    BY <1>2, <1>8, <2>1, <2>3, <2>4, <2>5, <2>6
  <2>7. CASE ~\E k \in Rest(cursor) : months[k].month < last
    BY <1>2, <1>8, <2>1, <2>3, <2>4, <2>5, <2>7
  <2> QED
    BY <2>6, <2>7
<1>14. \A i \in Made \ Rest(cursor) : next # Nil => months[i].month >= next
  <2> SUFFICES ASSUME NEW i \in Made \ Rest(cursor), next # Nil PROVE months[i].month >= next
    OBVIOUS
  <2>1. cursor # Nil /\ ~(months[i].month < cursor) /\ cursor \in Nat
    BY <1>2 DEF Rest
  <2>2. PICK j \in page : months[j].month = last /\ next = last
    BY <1>7, <1>8
  <2>3. months[j].month < cursor /\ months[j].month \in Nat /\ months[i].month \in Nat
    BY <1>5, <1>6, <2>1, <2>2 DEF Rest
  <2> HIDE DEF next, page, cursor, last
  <2> QED
    BY <2>1, <2>2, <2>3
<1>15. \A i \in stayed : shown[i] = IF next = Nil THEN 1 ELSE IF months[i].month < next THEN 0 ELSE 1
  <2> SUFFICES ASSUME NEW i \in stayed
               PROVE  shown[i] = IF next = Nil THEN 1 ELSE IF months[i].month < next THEN 0 ELSE 1
    OBVIOUS
  <2>1. i \in Made /\ i \in Ids /\ shown[i] = before(i) + (IF i \in page THEN 1 ELSE 0)
    BY <1>3
  <2>2. months[i].month \in Nat /\ (next # Nil => next \in Nat)
    BY <1>2, <1>6, <1>9, <2>1
  <2>3. before(i) = IF i \in Rest(cursor) THEN 0 ELSE 1
    BY <1>12
  <2>4. i \in page => i \in Rest(cursor)
    BY <1>5
  <2> HIDE DEF next, page, cursor, last, shown, before, stayed
  <2>5. CASE i \in Rest(cursor)
    BY <1>13, <2>1, <2>2, <2>3, <2>5
  <2>6. CASE i \notin Rest(cursor)
    BY <1>14, <2>1, <2>2, <2>3, <2>4, <2>6
  <2> QED
    BY <2>5, <2>6
<1>16. walk'.cursor = next /\ walk'.shown = shown /\ walk'.stayed = stayed
  BY <1>1
<1> HIDE DEF next, page, cursor, last, shown, before, stayed
<1>17. \A i \in walk'.stayed : Shown(i)'
  BY <1>1, <1>15, <1>16 DEF Shown
<1>18. Made' = Made
  BY <1>1 DEF Made
<1> QED
  BY <1>1, <1>3, <1>11, <1>16, <1>17, <1>18 DEF FinanceInv, Valid

LEMMA MonthsGoOn ==
  ASSUME FinanceConstants, FinanceInv, NEW i \in Ids, NEW m \in Row \cup {Nil},
         months' = [months EXCEPT ![i] = m],
         m # Nil => Valid(m) /\ \A j \in Made \ {i} : months[j].month # m.month,
         \/ walk' = walk /\ (walk = Nil \/ i \notin walk.stayed \/ (m # Nil /\ m.month = months[i].month))
         \/ walk' = IF walk = Nil THEN Nil ELSE [walk EXCEPT !.stayed = walk.stayed \ {i}]
  PROVE  FinanceInv'
<1>1. months \in [Ids -> Row \cup {Nil}] /\ walk \in Walks \cup {Nil} /\ Nil \notin Walks /\ Nil \notin Row
  BY DEF FinanceInv, FinanceConstants, Walks
<1>2. months' \in [Ids -> Row \cup {Nil}]
  BY <1>1
<1>3. \A j \in Ids : months'[j] = IF j = i THEN m ELSE months[j]
  BY <1>1
<1>4. Made = {j \in Ids : months[j] # Nil} /\ Made' = {j \in Ids : months'[j] # Nil}
  BY DEF Made
<1>5. \A j \in Made' : (j = i /\ m # Nil /\ months'[j] = m) \/ (j # i /\ j \in Made /\ months'[j] = months[j])
  BY <1>3, <1>4
<1>6. \A j \in Made' : Valid(months[j])'
  BY <1>5 DEF FinanceInv, Valid
<1>7. \A j, k \in Made' : j # k => months'[j].month # months'[k].month
  BY <1>5 DEF FinanceInv
<1>8. walk' \in Walks \cup {Nil}
  BY <1>1 DEF Walks
<1>9. ASSUME walk' # Nil PROVE walk'.stayed \subseteq Made' /\ \A j \in walk'.stayed : Shown(j)'
  <2>1. walk # Nil /\ walk \in Walks
    BY <1>1, <1>9
  <2>2. walk.stayed \subseteq Made /\ \A j \in walk.stayed : Shown(j)
    BY <2>1 DEF FinanceInv
  <2>3. walk'.cursor = walk.cursor /\ walk'.shown = walk.shown /\ walk'.stayed \subseteq walk.stayed
        /\ \A j \in walk'.stayed : j # i \/ (m # Nil /\ m.month = months[i].month)
    BY <2>1 DEF Walks
  <2>4. \A j \in walk'.stayed : j \in Made' /\ months'[j].month = months[j].month
    BY <1>3, <1>4, <2>2, <2>3
  <2> QED
    BY <2>2, <2>3, <2>4 DEF Shown
<1> QED
  BY <1>2, <1>6, <1>7, <1>8, <1>9 DEF FinanceInv

LEMMA FinanceBegins ==
  ASSUME FinanceConstants
  PROVE  FinanceInit => FinanceInv
<1> SUFFICES ASSUME FinanceInit PROVE FinanceInv
  OBVIOUS
<1>1. Made = {} /\ walk = Nil
  BY DEF FinanceInit, Made
<1> QED
  BY <1>1 DEF FinanceInv, FinanceInit

LEMMA FinanceGoesOn ==
  ASSUME FinanceConstants
  PROVE  FinanceInv /\ [FinanceNext]_(financeVars) => FinanceInv'
<1> SUFFICES ASSUME FinanceInv, [FinanceNext]_(financeVars) PROVE FinanceInv'
  OBVIOUS
<1>1. CASE UNCHANGED financeVars
  BY <1>1 DEF financeVars, FinanceInv, Shown, Made, Valid
<1>2. ASSUME NEW i \in Ids, NEW m \in Row, Create(i, m) PROVE FinanceInv'
  <2>1. walk = Nil \/ i \notin walk.stayed
    BY <1>2 DEF FinanceInv, Create, Made
  <2>2. \A j \in Made \ {i} : months[j].month # m.month
    BY <1>2 DEF Create, MonthTaken
  <2> QED
    BY <1>2, <2>1, <2>2, MonthsGoOn DEF Create
<1>3. ASSUME NEW i \in Ids, NEW m \in Row, Update(i, m) PROVE FinanceInv'
  <2>1. \A j \in Made \ {i} : months[j].month # m.month
    BY <1>3 DEF FinanceInv, Update, MonthTaken
  <2>2. Nil \notin Row
    BY DEF FinanceConstants
  <2> QED
    BY <1>3, <2>1, <2>2, MonthsGoOn DEF Update, Watched
<1>4. ASSUME NEW i \in Ids, Delete(i) PROVE FinanceInv'
  BY <1>4, MonthsGoOn DEF Delete, Watched
<1>5. CASE Reopen
  <2>1. walk' = Nil /\ months' = months
    BY <1>5 DEF Reopen
  <2>2. Made' = Made
    BY <2>1 DEF Made
  <2> QED
    BY <2>1, <2>2 DEF FinanceInv, Valid
<1>6. ASSUME NEW month \in Months, NEW kaja \in Incomes, NEW andy \in Incomes, NEW r \in Rates
      PROVE  [month |-> month, kaja |-> kaja, andy |-> andy, rates |-> r] \in Row
  BY DEF Row
<1> QED
  BY <1>1, <1>2, <1>3, <1>4, <1>5, <1>6, ListKeeps DEF FinanceNext

\* The months of income: nothing of an income is lost or made up by its division, the months
\* said to be missing are those, and whoever reads the list to its end was shown every month
\* that stayed where it was once, whatever happened to the others meanwhile.
THEOREM MonthsAreWhole ==
  ASSUME FinanceConstants
  PROVE  FinanceSpec => []MonthsAddUp
<1>1. FinanceInit => FinanceInv
  BY FinanceBegins
<1>2. FinanceInv /\ [FinanceNext]_(financeVars) => FinanceInv'
  BY FinanceGoesOn
<1>3. FinanceInv => MonthsAddUp
  <2> SUFFICES ASSUME FinanceInv PROVE MonthsAddUp
    OBVIOUS
  <2>1. \A i \in Made : \A s \in Compute(months[i]) :
          LET income == months[i].kaja + months[i].andy
          IN /\ s.personalKaja + s.personalAndy + s.fun + s.noFun + s.needs = income
             /\ 100 * s.needs >= income * months[i].rates.operational - 200
    <3> TAKE i \in Made
    <3>1. /\ months[i].kaja \in Int /\ months[i].andy \in Int
          /\ months[i].rates \in [personal : Int, operational : Int, fun : Int, noFun : Int]
      BY MonthsAreNumbers DEF Row, FinanceConstants
    <3>2. Valid(months[i])
      BY DEF FinanceInv
    <3> QED
      BY <3>1, <3>2, SplitsAddUp
  <2>2. walk # Nil => \A i \in walk.stayed : IF walk.cursor = Nil THEN walk.shown[i] = 1 ELSE walk.shown[i] <= 1
    BY DEF FinanceInv, Shown
  <2> QED
    BY <2>1, <2>2, MissingAreMissing DEF MonthsAddUp
<1> QED
  BY <1>1, <1>2, <1>3, PTL DEF FinanceSpec

----------------------------------------------------------------------------
(* Order keys. *)

\* A key is known by its length and its digits.
LEMMA KeyTyped ==
  ASSUME NEW a \in Seq(Digits)
  PROVE  /\ Len(a) \in Nat /\ DOMAIN a = 1..Len(a) /\ \A i \in DOMAIN a : a[i] \in Digits
         /\ a = <<>> <=> Len(a) = 0
OBVIOUS

\* No key precedes itself.
LEMMA NotBeforeItself ==
  ASSUME NEW a \in Seq(Digits), Base \in Nat
  PROVE  ~Precedes(a, a)
BY KeyTyped DEF Precedes, Digits

\* The order of keys is one.
LEMMA PrecedesOn ==
  ASSUME Base \in Nat, NEW a \in Seq(Digits), NEW b \in Seq(Digits), NEW c \in Seq(Digits),
         Precedes(a, b), Precedes(b, c)
  PROVE  Precedes(a, c)
<1>1. /\ Len(a) \in Nat /\ DOMAIN a = 1..Len(a) /\ \A i \in DOMAIN a : a[i] \in Int
      /\ Len(b) \in Nat /\ DOMAIN b = 1..Len(b) /\ \A i \in DOMAIN b : b[i] \in Int
      /\ Len(c) \in Nat /\ DOMAIN c = 1..Len(c) /\ \A i \in DOMAIN c : c[i] \in Int
  BY KeyTyped DEF Digits
<1>2. PICK n \in DOMAIN b : /\ \A j \in 1..(n - 1) : j \in DOMAIN a /\ a[j] = b[j]
                            /\ n \in DOMAIN a => a[n] < b[n]
  BY DEF Precedes
<1>3. PICK m \in DOMAIN c : /\ \A j \in 1..(m - 1) : j \in DOMAIN b /\ b[j] = c[j]
                            /\ m \in DOMAIN b => b[m] < c[m]
  BY DEF Precedes
<1>4. CASE n < m
  <2>1. n \in 1..(m - 1) /\ n \in DOMAIN c
    BY <1>1, <1>2, <1>3, <1>4
  <2>2. \A j \in 1..(n - 1) : j \in DOMAIN a /\ a[j] = c[j]
    BY <1>1, <1>2, <1>3, <1>4
  <2>3. n \in DOMAIN a => a[n] < c[n]
    BY <1>2, <1>3, <2>1
  <2> QED
    BY <2>1, <2>2, <2>3 DEF Precedes
<1>5. CASE m <= n
  <2>1. m \in DOMAIN b
    BY <1>1, <1>2, <1>3, <1>5
  <2>2. \A j \in 1..(m - 1) : j \in DOMAIN a /\ a[j] = c[j]
    BY <1>1, <1>2, <1>3, <1>5
  <2>3. ASSUME m \in DOMAIN a PROVE a[m] < c[m]
    <3>1. a[m] <= b[m]
      BY <1>1, <1>2, <1>3, <1>5, <2>1, <2>3
    <3> QED
      BY <1>1, <1>3, <2>1, <2>3, <3>1
  <2> QED
    BY <1>3, <2>2, <2>3 DEF Precedes
<1> QED
  BY <1>1, <1>2, <1>3, <1>4, <1>5

\* Of two keys one is first.
LEMMA OneIsFirst ==
  ASSUME Base \in Nat, NEW a \in Seq(Digits), NEW b \in Seq(Digits), a # b
  PROVE  Precedes(a, b) \/ Precedes(b, a)
<1>1. /\ Len(a) \in Nat /\ DOMAIN a = 1..Len(a) /\ \A i \in DOMAIN a : a[i] \in Int
      /\ Len(b) \in Nat /\ DOMAIN b = 1..Len(b) /\ \A i \in DOMAIN b : b[i] \in Int
  BY KeyTyped DEF Digits
<1> DEFINE N == {n \in Nat \ {0} : ~(n \in DOMAIN a /\ n \in DOMAIN b /\ a[n] = b[n])}
<1>2. Len(a) + 1 \in N /\ N \subseteq Nat
  BY <1>1
<1>3. PICK n \in N : \A m \in N : n <= m
  BY <1>2, LeastMember
<1>4. \A j \in 1..(n - 1) : j \in DOMAIN a /\ j \in DOMAIN b /\ a[j] = b[j]
  BY <1>3
<1>5. CASE n \in DOMAIN a /\ n \in DOMAIN b
  BY <1>1, <1>3, <1>4, <1>5 DEF Precedes
<1>6. CASE n \notin DOMAIN a /\ n \in DOMAIN b
  BY <1>4, <1>6 DEF Precedes
<1>7. CASE n \in DOMAIN a /\ n \notin DOMAIN b
  BY <1>4, <1>7 DEF Precedes
<1>8. CASE n \notin DOMAIN a /\ n \notin DOMAIN b
  <2>1. Len(a) = n - 1 /\ Len(b) = n - 1
    <3>1. n \in Nat /\ n # 0
      BY <1>3
    <3>2. Len(a) <= n - 1 /\ Len(b) <= n - 1
      BY <1>1, <1>8, <3>1
    <3>3. n - 1 = 0 \/ n - 1 \in 1..(n - 1)
      BY <3>1
    <3> QED
      BY <1>1, <1>4, <3>1, <3>2, <3>3
  <2>2. \A j \in 1..Len(a) : a[j] = b[j]
    BY <1>4, <2>1
  <2> QED
    BY <2>1, <2>2
<1> QED
  BY <1>5, <1>6, <1>7, <1>8

\* Among finitely many keys one is the last.
LEMMA LastKeyIsLast ==
  ASSUME Base \in Nat, NEW K, K \subseteq Seq(Digits), IsFiniteSet(K), K # {}
  PROVE  LastKey(K) \in K /\ \A j \in K : j = LastKey(K) \/ Precedes(j, LastKey(K))
<1> DEFINE P == {T \in SUBSET K : T = {} \/ \E k \in T : \A j \in T : j = k \/ Precedes(j, k)}
<1>1. {} \in P
  OBVIOUS
<1>2. ASSUME NEW T \in SUBSET K, NEW x \in K, x \notin T, T \in P PROVE T \cup {x} \in P
  <2>1. CASE T = {}
    BY <2>1
  <2>2. CASE T # {}
    <3>1. PICK k \in T : \A j \in T : j = k \/ Precedes(j, k)
      BY <1>2, <2>2
    <3>2. k \in Seq(Digits) /\ x \in Seq(Digits) /\ k # x /\ \A j \in T : j \in Seq(Digits)
      BY <1>2, <3>1
    <3>3. CASE Precedes(x, k)
      BY <3>1, <3>3
    <3>4. CASE Precedes(k, x)
      <4>1. \A j \in T : Precedes(j, x)
        BY <3>1, <3>2, <3>4, PrecedesOn
      <4> QED
        BY <4>1
    <3> QED
      BY <3>2, <3>3, <3>4, OneIsFirst
  <2> QED
    BY <2>1, <2>2
<1>3. \A T \in SUBSET K, x \in K : x \notin T /\ T \in P => T \cup {x} \in P
  BY <1>2
<1> HIDE DEF P
<1>4. K \in P
  BY <1>1, <1>3, Enumerated
<1> QED
  BY <1>4 DEF P, LastKey

\* What precedes a key has the smaller digit where they differ, both read on past their ends.
LEMMA SmallerDigit ==
  ASSUME Base \in Nat, NEW a \in Seq(Digits), NEW b \in OrderKeys, Precedes(a, b)
  PROVE  \E r \in DOMAIN b : (\A j \in 1..(r - 1) : Digit(a, j) = b[j]) /\ Digit(a, r) < b[r]
<1>1. /\ Len(a) \in Nat /\ DOMAIN a = 1..Len(a) /\ \A i \in DOMAIN a : a[i] \in Nat
      /\ Len(b) \in Nat \ {0} /\ DOMAIN b = 1..Len(b) /\ \A i \in DOMAIN b : b[i] \in Nat
      /\ b[Len(b)] # 0
  BY KeyTyped DEF Digits, OrderKeys
<1>2. PICK n \in DOMAIN b : /\ \A j \in 1..(n - 1) : j \in DOMAIN a /\ a[j] = b[j]
                            /\ n \in DOMAIN a => a[n] < b[n]
  BY DEF Precedes
<1>3. CASE n \in DOMAIN a
  BY <1>1, <1>2, <1>3 DEF Digit
<1>4. CASE n \notin DOMAIN a
  <2> DEFINE N == {r \in n..Len(b) : b[r] # 0}
  <2>1. Len(b) \in N /\ N \subseteq Nat
    BY <1>1, <1>2
  <2>2. PICK r \in N : \A m \in N : r <= m
    BY <2>1, LeastMember
  <2>3. \A j \in n..Len(b) : j \notin DOMAIN a
    BY <1>1, <1>2, <1>4
  <2>4. r \in DOMAIN b /\ Digit(a, r) < b[r]
    BY <1>1, <1>2, <2>2, <2>3 DEF Digit
  <2>5. ASSUME NEW j \in 1..(r - 1) PROVE Digit(a, j) = b[j]
    <3>1. CASE j < n
      BY <1>1, <1>2, <3>1 DEF Digit
    <3>2. CASE j >= n
      <4>1. j \in n..Len(b) /\ j < r
        BY <1>1, <1>2, <2>2, <3>2
      <4>2. b[j] = 0
        BY <2>2, <4>1
      <4> QED
        BY <2>3, <4>1, <4>2 DEF Digit
    <3> QED
      BY <1>1, <1>2, <2>2, <3>1, <3>2
  <2> QED
    BY <2>4, <2>5
<1> QED
  BY <1>3, <1>4

\* Where the two leave room.
Room(a, b) == {n \in 1..(Len(a) + Len(b) + 1) : Digit(a, n) + 1 < Ceiling(a, b, n)}

\* Room there is, and the first place that has it ends the key between.
LEMMA ThereIsRoom ==
  ASSUME Base \in Nat, Base >= 3, NEW a \in Seq(Digits), NEW b \in Seq(Digits)
  PROVE  \E n \in Room(a, b) :
           /\ n \in Nat \ {0} /\ \A m \in Room(a, b) : n <= m
           /\ Midpoint(a, b) = [i \in 1..n |-> IF i < n THEN Digit(a, i) ELSE (Digit(a, i) + Ceiling(a, b, i)) \div 2]
<1>1. /\ Len(a) \in Nat /\ DOMAIN a = 1..Len(a) /\ Len(b) \in Nat /\ DOMAIN b = 1..Len(b)
  BY KeyTyped
<1>2. Len(a) + Len(b) + 1 \in Room(a, b)
  BY <1>1 DEF Room, Digit, Ceiling
<1>3. Room(a, b) # {} /\ Room(a, b) \subseteq Nat \ {0}
  BY <1>1, <1>2 DEF Room
<1> DEFINE Least(n) == n \in Room(a, b) /\ \A m \in Room(a, b) : n <= m
<1>4. \E n \in Room(a, b) : \A m \in Room(a, b) : n <= m
  BY <1>3, LeastMember
<1> DEFINE last == CHOOSE n \in Room(a, b) : \A m \in Room(a, b) : n <= m
<1>5. last \in Room(a, b) /\ \A m \in Room(a, b) : last <= m
  BY <1>4
<1>6. Midpoint(a, b) = [i \in 1..last |-> IF i < last THEN Digit(a, i) ELSE (Digit(a, i) + Ceiling(a, b, i)) \div 2]
  BY DEF Midpoint, Room
<1> HIDE DEF last
<1> QED
  BY <1>3, <1>5, <1>6

\* Between two keys, or after one, lies a key.
LEMMA MidpointLies ==
  ASSUME Base \in Nat, Base >= 3, NEW a \in Seq(Digits), NEW b,
         b = <<>> \/ (b \in OrderKeys /\ Precedes(a, b))
  PROVE  /\ Midpoint(a, b) \in OrderKeys /\ Precedes(a, Midpoint(a, b))
         /\ b # <<>> => Precedes(Midpoint(a, b), b)
<1>1. b \in Seq(Digits)
  <2>1. <<>> \in Seq(Digits)
    OBVIOUS
  <2> QED
    BY <2>1 DEF OrderKeys
<1>2. /\ Len(a) \in Nat /\ DOMAIN a = 1..Len(a) /\ \A i \in DOMAIN a : a[i] \in Digits
      /\ Len(b) \in Nat /\ DOMAIN b = 1..Len(b) /\ \A i \in DOMAIN b : b[i] \in Digits
  BY <1>1, KeyTyped
<1> DEFINE x(i) == Digit(a, i)
           y(i) == Ceiling(a, b, i)
<1>3. PICK n \in Room(a, b) :
           /\ n \in Nat \ {0} /\ \A m \in Room(a, b) : n <= m
           /\ Midpoint(a, b) = [i \in 1..n |-> IF i < n THEN x(i) ELSE (x(i) + y(i)) \div 2]
  BY <1>1, ThereIsRoom
<1> DEFINE k == Midpoint(a, b)
           h == (x(n) + y(n)) \div 2
<1>4. \A i \in Nat : x(i) \in Digits /\ y(i) \in 0..Base
  BY <1>2 DEF Digit, Ceiling, Digits
<1>5. x(n) + 1 < y(n) /\ x(n) \in Digits /\ y(n) \in 0..Base /\ n <= Len(a) + Len(b) + 1
  BY <1>3, <1>4 DEF Room
<1>6. h \in Nat /\ x(n) < h /\ h < y(n)
  <2> DEFINE u == x(n)  v == y(n)
  <2>1. u \in Nat /\ v \in Nat /\ u + 1 < v
    BY <1>5 DEF Digits
  <2> HIDE DEF u, v
  <2>2. (u + v) \div 2 \in Nat /\ u < (u + v) \div 2 /\ (u + v) \div 2 < v
    BY <2>1
  <2> QED
    BY <2>2 DEF u, v
<1>7. /\ DOMAIN k = 1..n /\ k[n] = h /\ \A i \in 1..(n - 1) : k[i] = x(i)
  BY <1>3
<1> HIDE DEF k, h, x, y
<1>8. h \in Digits /\ h # 0
  <2>1. h \in Nat /\ h # 0 /\ h < Base
    BY <1>5, <1>6 DEF Digits
  <2> QED
    BY <2>1 DEF Digits
<1>9. \A i \in 1..n : k[i] \in Digits
  <2> TAKE i \in 1..n
  <2>1. CASE i = n
    BY <1>7, <1>8, <2>1
  <2>2. CASE i # n
    <3>1. i \in 1..(n - 1) /\ i \in Nat
      BY <1>3, <2>2
    <3> QED
      BY <1>4, <1>7, <3>1
  <2> QED
    BY <2>1, <2>2
<1>10. k \in OrderKeys /\ Len(k) = n
  <2>1. k = [i \in 1..n |-> k[i]]
    BY <1>3 DEF k
  <2>2. k \in Seq(Digits) /\ Len(k) = n
    BY <1>3, <1>9, <2>1
  <2> QED
    BY <1>3, <1>7, <1>8, <2>2 DEF OrderKeys
<1>11. Precedes(a, k)
  <2>1. CASE n \in DOMAIN a
    <3>1. \A j \in 1..(n - 1) : j \in DOMAIN a /\ a[j] = k[j]
      BY <1>2, <1>3, <1>7, <2>1 DEF x, Digit
    <3>2. a[n] < k[n] /\ n \in DOMAIN k
      BY <1>3, <1>6, <1>7, <2>1 DEF x, Digit
    <3> QED
      BY <3>1, <3>2 DEF Precedes
  <2>2. CASE n \notin DOMAIN a
    <3> DEFINE p == Len(a) + 1
    <3>1. p \in DOMAIN k /\ p \notin DOMAIN a
      BY <1>2, <1>3, <1>7, <2>2
    <3>2. \A j \in 1..(p - 1) : j \in DOMAIN a /\ a[j] = k[j]
      BY <1>2, <1>3, <1>7, <2>2 DEF x, Digit
    <3> QED
      BY <3>1, <3>2 DEF Precedes
  <2> QED
    BY <2>1, <2>2
<1>12. ASSUME b # <<>> PROVE Precedes(k, b)
  <2>1. b \in OrderKeys /\ Precedes(a, b)
    BY <1>12
  <2>2. PICK r \in DOMAIN b : (\A j \in 1..(r - 1) : x(j) = b[j]) /\ x(r) < b[r]
    BY <2>1, SmallerDigit DEF x
  <2>3. ASSUME n < r PROVE FALSE
    <3>1. n \in DOMAIN b /\ \A j \in 1..(n - 1) : x(j) = b[j]
      BY <1>2, <1>3, <2>2, <2>3
    <3>2. y(n) = b[n]
      BY <3>1 DEF y, x, Ceiling
    <3>3. x(n) = b[n]
      BY <1>2, <1>3, <2>2, <2>3
    <3> QED
      BY <1>5, <3>2, <3>3 DEF Digits
  <2>4. \A j \in 1..(r - 1) : j \in DOMAIN k /\ k[j] = b[j]
    BY <1>2, <1>3, <1>7, <2>2, <2>3
  <2>5. k[r] < b[r]
    <3>1. CASE r = n
      <4>1. y(n) = b[n]
        BY <2>2, <3>1 DEF y, x, Ceiling
      <4> QED
        BY <1>6, <1>7, <3>1, <4>1
    <3>2. CASE r # n
      BY <1>2, <1>3, <1>7, <2>2, <2>3, <3>2
    <3> QED
      BY <3>1, <3>2
  <2> QED
    BY <2>2, <2>4, <2>5 DEF Precedes
<1> QED
  BY <1>10, <1>11, <1>12 DEF k

\* There is always a key between two, before one and after one, as the keys never end in the smallest digit:
\* a gap may be split for ever.
THEOREM BetweenLies ==
  ASSUME Base \in Nat, Base >= 3, NEW a \in OrderKeys \cup {<<>>}, NEW b \in OrderKeys \cup {<<>>}
  PROVE  /\ Between(a, b) \in OrderKeys /\ Precedes(a, Between(a, b))
         /\ b # <<>> /\ (a = <<>> \/ Precedes(a, b)) => Precedes(Between(a, b), b)
<1>1. a \in Seq(Digits)
  <2>1. <<>> \in Seq(Digits)
    OBVIOUS
  <2> QED
    BY <2>1 DEF OrderKeys
<1>2. CASE a # <<>> /\ b # <<>> /\ ~Precedes(a, b)
  BY <1>1, <1>2, MidpointLies DEF Between
<1>3. CASE ~(a # <<>> /\ b # <<>> /\ ~Precedes(a, b))
  <2>1. ASSUME a = <<>>, b # <<>> PROVE Precedes(a, b)
    <3>1. b \in Seq(Digits) /\ Len(b) \in Nat /\ Len(b) # 0 /\ DOMAIN b = 1..Len(b) /\ DOMAIN a = {}
      BY <2>1, KeyTyped DEF OrderKeys
    <3>2. 1 \in DOMAIN b /\ 1..(1 - 1) = {}
      BY <3>1
    <3> QED
      BY <3>1, <3>2 DEF Precedes
  <2>2. b = <<>> \/ (b \in OrderKeys /\ Precedes(a, b))
    BY <1>3, <2>1
  <2>3. Between(a, b) = Midpoint(a, b)
    BY <1>3 DEF Between
  <2> QED
    BY <1>1, <2>2, <2>3, MidpointLies
<1> QED
  BY <1>2, <1>3

\* The end is behind all there are.
LEMMA EndIsBehind ==
  ASSUME Base \in Nat, Base >= 3, NEW K, K \subseteq OrderKeys, IsFiniteSet(K)
  PROVE  AtTheEnd(K) \in OrderKeys /\ \A q \in K : Precedes(q, AtTheEnd(K))
<1>1. CASE K = {}
  BY <1>1, BetweenLies DEF AtTheEnd, FirstKey
<1>2. CASE K # {}
  <2>1. K \subseteq Seq(Digits)
    BY DEF OrderKeys
  <2> DEFINE l == LastKey(K)  e == AtTheEnd(K)
  <2>2. l \in K /\ \A j \in K : j = l \/ Precedes(j, l)
    BY <1>2, <2>1, LastKeyIsLast
  <2>3. e = Between(l, <<>>)
    BY <1>2 DEF AtTheEnd, After
  <2> HIDE DEF l, e
  <2>4. e \in OrderKeys /\ Precedes(l, e)
    BY <2>2, <2>3, BetweenLies
  <2>5. \A q \in K : Precedes(q, e)
    BY <2>1, <2>2, <2>4, PrecedesOn DEF OrderKeys
  <2> QED
    BY <2>4, <2>5 DEF e
<1> QED
  BY <1>1, <1>2

----------------------------------------------------------------------------
(* The boards. *)

\* The columns and the cards there are carry keys.
BoardsInv ==
  /\ columns \in [Columns -> ColumnRow \cup {NoRow}]
  /\ cards \in [Cards -> CardRow \cup {NoRow}]

\* What columns and cards there are carry finitely many keys.
LEMMA KeysAreKeys ==
  ASSUME BoardConstants, BoardsInv
  PROVE  /\ \A K \in SUBSET Columns : (\A k \in K : columns[k] # NoRow) =>
              ColumnKeys(K) \subseteq OrderKeys /\ IsFiniteSet(ColumnKeys(K))
         /\ \A C \in SUBSET Cards : (\A c \in C : cards[c] # NoRow) =>
              KeysOf(C) \subseteq OrderKeys /\ IsFiniteSet(KeysOf(C))
<1>1. ASSUME NEW K \in SUBSET Columns, \A k \in K : columns[k] # NoRow
      PROVE  ColumnKeys(K) \subseteq OrderKeys /\ IsFiniteSet(ColumnKeys(K))
  <2>1. \A k \in K : columns[k].pos \in OrderKeys
    BY <1>1 DEF BoardsInv, ColumnRow
  <2>2. IsFiniteSet(K)
    BY FS_Subset DEF BoardConstants
  <2> DEFINE f == [k \in K |-> columns[k].pos]
             Q == {columns[k].pos : k \in K}
  <2>3. f \in Surjection(K, Q)
    BY DEF Surjection
  <2>4. IsFiniteSet(Q)
    BY <2>2, <2>3, FS_Surjection
  <2> QED
    BY <2>1, <2>4 DEF ColumnKeys
<1>2. ASSUME NEW C \in SUBSET Cards, \A c \in C : cards[c] # NoRow
      PROVE  KeysOf(C) \subseteq OrderKeys /\ IsFiniteSet(KeysOf(C))
  <2>1. \A c \in C : cards[c].pos \in OrderKeys
    BY <1>2 DEF BoardsInv, CardRow
  <2>2. IsFiniteSet(C)
    BY FS_Subset DEF BoardConstants
  <2> DEFINE f == [c \in C |-> cards[c].pos]
             Q == {cards[c].pos : c \in C}
  <2>3. f \in Surjection(C, Q)
    BY DEF Surjection
  <2>4. IsFiniteSet(Q)
    BY <2>2, <2>3, FS_Surjection
  <2> QED
    BY <2>1, <2>4 DEF KeysOf
<1> QED
  BY <1>1, <1>2

\* What a client computes is a key too.
LEMMA ClientKeysAreKeys ==
  ASSUME BoardConstants
  PROVE  ClientKeys \subseteq OrderKeys
<1> SUFFICES ASSUME NEW k \in ClientKeys PROVE k \in OrderKeys
  OBVIOUS
<1>1. PICK n \in 1..MaxKey : k \in [1..n -> 0..(Base - 1)]
  BY DEF ClientKeys
<1>2. n \in Nat \ {0} /\ k = [i \in 1..n |-> k[i]] /\ \A i \in 1..n : k[i] \in Digits
  BY <1>1 DEF BoardConstants, Digits
<1>3. k \in Seq(Digits) /\ Len(k) = n
  BY <1>2
<1>4. k # <<>>
  BY <1>2, <1>3, KeyTyped
<1> QED
  BY <1>3, <1>4 DEF ClientKeys, OrderKeys

\* What goes with a board or a column leaves rows.
LEMMA Dropped ==
  ASSUME BoardsInv, NEW K, DropColumns(K)
  PROVE  BoardsInv'
BY DEF BoardsInv, DropColumns

LEMMA ColumnsOfAre ==
  ASSUME NEW b
  PROVE  ColumnsOf(b) \in SUBSET Columns /\ \A k \in ColumnsOf(b) : columns[k] # NoRow
BY DEF ColumnsOf

LEMMA CardsInAre ==
  ASSUME NEW k
  PROVE  CardsIn(k) \in SUBSET Cards /\ \A c \in CardsIn(k) : cards[c] # NoRow
BY DEF CardsIn

\* A card that is put somewhere keeps to the rows.
LEMMA Put ==
  ASSUME BoardConstants, BoardsInv, NEW c \in Cards, NEW k \in Columns, NEW pos \in OrderKeys, PutCard(c, k, pos)
  PROVE  /\ BoardsInv' /\ cards'[c].pos = pos /\ columns' = columns
         /\ \A d \in Cards : d # c => cards'[d] = cards[d]
<1>1. cards[c] \in CardRow /\ columns[k] \in ColumnRow
  BY DEF PutCard, BoardsInv
<1>2. cards' = [cards EXCEPT ![c] = [cards[c] EXCEPT !.column = k, !.pos = pos, !.done = IsDone(k)]]
  BY DEF PutCard
<1>3. IsDone(k) \in BOOLEAN
  BY DEF IsDone
<1>4. [cards[c] EXCEPT !.column = k, !.pos = pos, !.done = IsDone(k)] \in CardRow
  BY <1>1, <1>3 DEF CardRow
<1>5. [cards[c] EXCEPT !.column = k, !.pos = pos, !.done = IsDone(k)].pos = pos
  BY <1>1 DEF CardRow
<1> DEFINE row == [cards[c] EXCEPT !.column = k, !.pos = pos, !.done = IsDone(k)]
<1>6. row \in CardRow /\ row.pos = pos
  BY <1>4, <1>5
<1> HIDE DEF row
<1>7. cards' = [cards EXCEPT ![c] = row] /\ columns' = columns
  BY <1>2 DEF row, PutCard
<1> QED
  BY <1>6, <1>7 DEF BoardsInv

\* The place in front of an anchor, and behind what came before it.
LEMMA PlaceBefore ==
  ASSUME BoardConstants, BoardsInv, NEW c \in Cards, NEW anchor \in Cards, cards[anchor] # NoRow
  PROVE  LET here == cards[anchor].pos
             pos == Between(CardKeyBefore(c, anchor), here)
         IN /\ pos \in OrderKeys /\ Precedes(pos, here)
            /\ \A d \in CardsIn(cards[anchor].column) \ {c} :
                 Precedes(cards[d].pos, here) => Precedes(cards[d].pos, pos)
<1> DEFINE here == cards[anchor].pos
           C == CardsIn(cards[anchor].column) \ {c}
           Q == {q \in KeysOf(C) : Precedes(q, here)}
           low == CardKeyBefore(c, anchor)
           pos == Between(low, here)
<1>1. here \in OrderKeys /\ here # <<>>
  BY DEF BoardsInv, CardRow, OrderKeys
<1>2. KeysOf(C) \subseteq OrderKeys /\ IsFiniteSet(KeysOf(C))
  BY CardsInAre, KeysAreKeys
<1>3. Q \subseteq OrderKeys /\ IsFiniteSet(Q)
  BY <1>2, FS_Subset
<1>4. low = LastKey(Q)
  BY DEF CardKeyBefore
<1>5. \A d \in C : Precedes(cards[d].pos, here) => cards[d].pos \in Q
  BY DEF KeysOf
<1>6. \A q \in Q : Precedes(q, here) /\ q \in Seq(Digits)
  BY <1>3 DEF OrderKeys
<1>7. Base \in Nat /\ Base >= 3
  BY DEF BoardConstants
<1> SUFFICES pos \in OrderKeys /\ Precedes(pos, here) /\ \A q \in Q : Precedes(q, pos)
  BY <1>5
<1> HIDE DEF here, low, Q
<1>8. CASE Q = {}
  <2>1. low = <<>>
    BY <1>4, <1>8 DEF LastKey
  <2> QED
    BY <1>1, <1>7, <1>8, <2>1, BetweenLies
<1>9. CASE Q # {}
  <2>1. low \in Q /\ \A q \in Q : q = low \/ Precedes(q, low)
    BY <1>3, <1>4, <1>6, <1>7, <1>9, LastKeyIsLast
  <2>2. low \in OrderKeys /\ Precedes(low, here)
    BY <1>3, <1>6, <2>1
  <2>3. pos \in OrderKeys /\ Precedes(low, pos) /\ Precedes(pos, here)
    BY <1>1, <1>7, <2>2, BetweenLies
  <2>4. low \in Seq(Digits) /\ pos \in Seq(Digits)
    BY <2>2, <2>3 DEF OrderKeys
  <2> HIDE DEF pos
  <2>5. \A q \in Q : Precedes(q, pos)
    BY <1>6, <1>7, <2>1, <2>3, <2>4, PrecedesOn
  <2> QED
    BY <2>3, <2>5
<1> QED
  BY <1>8, <1>9

\* The end of a column.
LEMMA PlaceLast ==
  ASSUME BoardConstants, BoardsInv, NEW k
  PROVE  LET pos == AtTheEnd(KeysOf(CardsIn(k)))
         IN pos \in OrderKeys /\ \A d \in CardsIn(k) : Precedes(cards[d].pos, pos)
<1> DEFINE K == KeysOf(CardsIn(k))
<1>1. K \subseteq OrderKeys /\ IsFiniteSet(K)
  BY CardsInAre, KeysAreKeys
<1>2. \A d \in CardsIn(k) : cards[d].pos \in K
  BY DEF KeysOf
<1>3. Base \in Nat /\ Base >= 3
  BY DEF BoardConstants
<1> HIDE DEF K
<1>4. AtTheEnd(K) \in OrderKeys /\ \A q \in K : Precedes(q, AtTheEnd(K))
  BY <1>1, <1>3, EndIsBehind
<1> QED
  BY <1>2, <1>4 DEF K

\* The invariant holds of the empty boards.
LEMMA BoardsBegin == BoardsInit => BoardsInv
BY DEF BoardsInit, BoardsInv

\* And every request keeps it.
LEMMA BoardsGoOn ==
  ASSUME BoardConstants, BoardsInv, [BoardsNext]_boardVars
  PROVE  BoardsInv'
<1>1. CASE UNCHANGED <<columns, cards>>
  BY <1>1 DEF BoardsInv
<1>2. ASSUME NEW b \in Boards, CreateBoard(b) \/ DeleteBoard(b) PROVE BoardsInv'
  BY <1>1, <1>2, Dropped DEF CreateBoard, DeleteBoard
<1>3. ASSUME NEW b \in Boards, NEW archived \in BOOLEAN, UpdateBoard(b, archived) PROVE BoardsInv'
  BY <1>1, <1>3 DEF UpdateBoard
<1>4. ASSUME NEW k \in Columns, NEW b \in Boards, NEW kind \in ColumnKinds, CreateColumn(k, b, kind) PROVE BoardsInv'
  <2> DEFINE K == ColumnKeys(ColumnsOf(b))
             pos == AtTheEnd(K)
  <2>1. K \subseteq OrderKeys /\ IsFiniteSet(K)
    BY ColumnsOfAre, KeysAreKeys
  <2>2. columns' = [columns EXCEPT ![k] = [board |-> b, kind |-> kind, pos |-> pos]] /\ cards' = cards
    BY <1>4 DEF CreateColumn
  <2>3. Base \in Nat /\ Base >= 3
    BY DEF BoardConstants
  <2> HIDE DEF K
  <2>4. pos \in OrderKeys
    BY <2>1, <2>3, EndIsBehind
  <2> HIDE DEF pos
  <2> QED
    BY <2>2, <2>4 DEF BoardsInv, ColumnRow
<1>5. ASSUME NEW k \in Columns, NEW kind \in ColumnKinds, UpdateColumn(k, kind) PROVE BoardsInv'
  <2>1. [columns[k] EXCEPT !.kind = kind] \in ColumnRow
    BY <1>5 DEF UpdateColumn, BoardsInv, ColumnRow
  <2>2. columns' = [columns EXCEPT ![k] = [columns[k] EXCEPT !.kind = kind]] /\ cards' = cards
    BY <1>5 DEF UpdateColumn
  <2> QED
    BY <2>1, <2>2 DEF BoardsInv
<1>6. ASSUME NEW k \in Columns, NEW pos \in ClientKeys, MoveColumn(k, pos) PROVE BoardsInv'
  <2>1. [columns[k] EXCEPT !.pos = pos] \in ColumnRow
    BY <1>6, ClientKeysAreKeys DEF MoveColumn, BoardsInv, ColumnRow
  <2>2. columns' = [columns EXCEPT ![k] = [columns[k] EXCEPT !.pos = pos]] /\ cards' = cards
    BY <1>6 DEF MoveColumn
  <2> QED
    BY <2>1, <2>2 DEF BoardsInv
<1>7. ASSUME NEW b \in Boards, NEW K \in SUBSET ColumnsOf(b), NEW order \in [K -> ClientKeys], ReorderColumns(b, order)
      PROVE  BoardsInv'
  <2>1. \A k \in K : columns[k] \in ColumnRow /\ order[k] \in OrderKeys /\ K = DOMAIN order
    BY ClientKeysAreKeys, ColumnsOfAre DEF BoardsInv
  <2>2. \A k \in K : [columns[k] EXCEPT !.pos = order[k]] \in ColumnRow
    BY <2>1 DEF ColumnRow
  <2>3. /\ columns' = [k \in Columns |-> IF k \in DOMAIN order THEN [columns[k] EXCEPT !.pos = order[k]] ELSE columns[k]]
        /\ cards' = cards
    BY <1>7 DEF ReorderColumns
  <2> QED
    BY <2>1, <2>2, <2>3 DEF BoardsInv
<1>8. ASSUME NEW k \in Columns, NEW cascade \in BOOLEAN, DeleteColumn(k, cascade) PROVE BoardsInv'
  BY <1>8, Dropped DEF DeleteColumn
<1>9. ASSUME NEW c \in Cards, NEW k \in Columns, CreateCard(c, k) PROVE BoardsInv'
  <2> DEFINE pos == AtTheEnd(KeysOf(CardsIn(k)))
  <2>1. pos \in OrderKeys
    BY PlaceLast
  <2>2. cards' = [cards EXCEPT ![c] = [column |-> k, pos |-> pos, archived |-> FALSE, done |-> FALSE]] /\ columns' = columns
    BY <1>9 DEF CreateCard
  <2> HIDE DEF pos
  <2> QED
    BY <2>1, <2>2 DEF BoardsInv, CardRow
<1>10. ASSUME NEW c \in Cards, NEW k \in Columns, MoveCardToEnd(c, k) PROVE BoardsInv'
  BY <1>10, PlaceLast, Put DEF MoveCardToEnd
<1>11. ASSUME NEW c \in Cards, NEW archived \in BOOLEAN, UpdateCard(c, archived) PROVE BoardsInv'
  <2>1. [cards[c] EXCEPT !.archived = archived] \in CardRow
    BY <1>11 DEF UpdateCard, BoardsInv, CardRow
  <2>2. cards' = [cards EXCEPT ![c] = [cards[c] EXCEPT !.archived = archived]] /\ columns' = columns
    BY <1>11 DEF UpdateCard
  <2> QED
    BY <2>1, <2>2 DEF BoardsInv
<1>12. ASSUME NEW c \in Cards, NEW k \in Columns, NEW pos \in ClientKeys, MoveCardTo(c, k, pos) PROVE BoardsInv'
  BY <1>12, ClientKeysAreKeys, Put DEF MoveCardTo
<1>13. ASSUME NEW c \in Cards, NEW anchor \in Cards, NEW k \in Columns, MoveCardBefore(c, k, anchor) PROVE BoardsInv'
  <2>1. CASE cards[anchor] # NoRow /\ cards[anchor].column = k
    <3> DEFINE pos == Between(CardKeyBefore(c, anchor), cards[anchor].pos)
    <3>1. pos \in OrderKeys
      BY <2>1, PlaceBefore
    <3>2. PutCard(c, k, pos)
      BY <1>13, <2>1 DEF MoveCardBefore
    <3> HIDE DEF pos
    <3> QED
      BY <3>1, <3>2, Put
  <2>2. CASE ~(cards[anchor] # NoRow /\ cards[anchor].column = k)
    BY <1>10, <1>13, <2>2 DEF MoveCardBefore
  <2> QED
    BY <2>1, <2>2
<1>14. ASSUME NEW c \in Cards, DeleteCard(c) PROVE BoardsInv'
  BY <1>14 DEF DeleteCard, BoardsInv
<1>15. ASSUME NEW i \in Items, NEW c \in Cards, CreateItem(i, c) PROVE BoardsInv'
  BY <1>1, <1>15 DEF CreateItem
<1>16. ASSUME NEW i \in Items, NEW done \in BOOLEAN, UpdateChecklistItem(i, done) PROVE BoardsInv'
  BY <1>1, <1>16 DEF UpdateChecklistItem
<1>17. ASSUME NEW i \in Items, DeleteItem(i) PROVE BoardsInv'
  BY <1>1, <1>17 DEF DeleteItem
<1>18. ASSUME NEW l \in Labels, NEW b \in Boards, NEW n \in Names, CreateLabel(l, b, n) PROVE BoardsInv'
  BY <1>1, <1>18 DEF CreateLabel
<1>19. ASSUME NEW l \in Labels, NEW n \in Names, UpdateLabel(l, n) PROVE BoardsInv'
  BY <1>1, <1>19 DEF UpdateLabel
<1>20. ASSUME NEW l \in Labels, DeleteLabel(l) PROVE BoardsInv'
  BY <1>1, <1>20 DEF DeleteLabel
<1>21. ASSUME NEW c \in Cards, NEW l \in Labels, AttachLabel(c, l) \/ DetachLabel(c, l) PROVE BoardsInv'
  BY <1>1, <1>21 DEF AttachLabel, DetachLabel
<1>22. CASE UNCHANGED boardVars
  BY <1>1, <1>22 DEF boardVars
<1> QED
  BY <1>2, <1>3, <1>4, <1>5, <1>6, <1>7, <1>8, <1>9, <1>10, <1>11, <1>12, <1>13, <1>14, <1>15, <1>16,
     <1>17, <1>18, <1>19, <1>20, <1>21, <1>22 DEF BoardsNext

\* A card moved in front of another is there.
LEMMA MovedCardsLand ==
  ASSUME BoardConstants, BoardsInv, NEW c \in Cards, NEW anchor \in Cards, NEW k \in Columns, MoveCardBefore(c, k, anchor)
  PROVE  CardLands(c, k, anchor)
<1> DEFINE others == CardsIn(k) \ {c}
<1>1. others \subseteq Cards /\ c \notin others
  BY DEF CardsIn
<1>2. anchor \in CardsIn(k) <=> cards[anchor] # NoRow /\ cards[anchor].column = k
  BY DEF CardsIn
<1>3. CASE anchor \in CardsIn(k)
  <2> DEFINE here == cards[anchor].pos
             pos == Between(CardKeyBefore(c, anchor), here)
  <2>1. PutCard(c, k, pos)
    BY <1>2, <1>3 DEF MoveCardBefore
  <2>2. /\ pos \in OrderKeys /\ Precedes(pos, here)
        /\ \A d \in others : Precedes(cards[d].pos, here) => Precedes(cards[d].pos, pos)
    BY <1>2, <1>3, PlaceBefore
  <2> HIDE DEF pos
  <2>3. cards'[c].pos = pos
    BY <2>1, <2>2, Put
  <2> QED
    BY <1>3, <2>2, <2>3 DEF CardLands
<1>4. CASE anchor \notin CardsIn(k)
  <2> DEFINE pos == AtTheEnd(KeysOf(CardsIn(k)))
  <2>1. PutCard(c, k, pos)
    BY <1>2, <1>4 DEF MoveCardBefore, MoveCardToEnd
  <2>2. pos \in OrderKeys /\ \A d \in CardsIn(k) : Precedes(cards[d].pos, pos)
    BY PlaceLast
  <2> HIDE DEF pos
  <2>3. cards'[c].pos = pos
    BY <2>1, <2>2, Put
  <2> QED
    BY <1>4, <2>2, <2>3 DEF CardLands
<1> QED
  BY <1>3, <1>4

\* Columns renumbered together are apart from one another and from the rest.
LEMMA RenumberedApart ==
  ASSUME BoardConstants, BoardsInv, NEW b \in Boards, Renumbered(b)
  PROVE  Distinct(ColumnsOf(b))'
<1> DEFINE K == {k \in ColumnsOf(b) : columns'[k] \notin {columns[k], NoRow}}
           order == [k \in K |-> columns'[k].pos]
<1>1. ReorderColumns(b, order) /\ Distinct(ColumnsOf(b))
  BY DEF Renumbered
<1>2. DOMAIN order = K /\ K \subseteq ColumnsOf(b)
  OBVIOUS
<1> HIDE DEF order, K
<1>3. /\ columns' = [k \in Columns |-> IF k \in K THEN [columns[k] EXCEPT !.pos = order[k]] ELSE columns[k]]
      /\ \A j, k \in K : j # k => order[j] # order[k]
      /\ \A k \in ColumnsOf(b) \ K, j \in K : order[j] # columns[k].pos
  BY <1>1, <1>2 DEF ReorderColumns, Collides
<1>4. \A k \in ColumnsOf(b) : k \in Columns /\ columns[k] \in ColumnRow
  BY ColumnsOfAre DEF BoardsInv
<1>5. \A k \in Columns : (k \in ColumnsOf(b))' <=> k \in ColumnsOf(b)
  <2> TAKE k \in Columns
  <2>1. CASE k \in K
    <3>1. columns'[k] = [columns[k] EXCEPT !.pos = order[k]] /\ columns[k] \in ColumnRow /\ columns[k].board = b
      BY <1>2, <1>3, <1>4, <2>1 DEF ColumnsOf
    <3>2. columns'[k].board = b /\ order[k] = columns'[k].pos
      BY <3>1 DEF ColumnRow
    <3>3. columns'[k] # NoRow
      BY <2>1 DEF K
    <3> QED
      BY <1>2, <2>1, <3>2, <3>3 DEF ColumnsOf
  <2>2. CASE k \notin K
    BY <1>3, <2>2 DEF ColumnsOf
  <2> QED
    BY <2>1, <2>2
<1>6. \A k \in ColumnsOf(b) : columns'[k].pos = IF k \in K THEN order[k] ELSE columns[k].pos
  BY <1>3, <1>4 DEF ColumnRow
<1>7. \A j, k \in ColumnsOf(b) : j # k => columns'[j].pos # columns'[k].pos
  <2> SUFFICES ASSUME NEW j \in ColumnsOf(b), NEW k \in ColumnsOf(b), j # k
               PROVE  columns'[j].pos # columns'[k].pos
    OBVIOUS
  <2>1. columns[j].pos # columns[k].pos
    BY <1>1 DEF Distinct
  <2> QED
    BY <1>3, <1>6, <2>1
<1>8. (ColumnsOf(b))' = ColumnsOf(b)
  <2>1. (ColumnsOf(b))' \subseteq Columns /\ ColumnsOf(b) \subseteq Columns
    BY DEF ColumnsOf
  <2> QED
    BY <1>5, <2>1
<1> QED
  BY <1>7, <1>8 DEF Distinct

\* A card that is moved lands where it was asked to, between what is there, for any digits, boards,
\* columns and cards and whatever clients drag where; and a renumbering leaves no two columns of a board with one key.
THEOREM CardsLand ==
  ASSUME BoardConstants
  PROVE  BoardsSpec => LandsWhereAsked
<1>1. BoardsInit => BoardsInv
  BY BoardsBegin
<1>2. BoardsInv /\ [BoardsNext]_boardVars => BoardsInv'
  BY BoardsGoOn
<1>3. BoardsInv => [Placed]_boardVars
  BY MovedCardsLand, RenumberedApart DEF Placed
<1> QED
  BY <1>1, <1>2, <1>3, PTL DEF BoardsSpec, LandsWhereAsked
=============================================================================
