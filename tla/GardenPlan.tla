----------------------------- MODULE GardenPlan -----------------------------
(***************************************************************************)
(* The garden planner (modules/garden): what is known of a crop, the       *)
(* seasons, the plantings with their dates, and the work that is derived   *)
(* from them, kept up to date and never taken out of a hand that touched   *)
(* it.                                                                     *)
(*                                                                         *)
(* Every handler is one transaction, except the copying of a season, which *)
(* reads before it (CopyBegins, CopyBuilds) and writes what it read        *)
(* (CopyCommits).  Days are numbers.  What is known of a crop is one of    *)
(* Cores.  A hand changes one field of a planting at a time.  Of a         *)
(* planting, `drawn' is history: the dates that were a hand's (`manual')   *)
(* when its work was last drawn up.                                        *)
(***************************************************************************)
EXTENDS Integers, FiniteSets, Sequences

CONSTANTS
  Years, Plants, Varieties, Plantings, Chores,
  BedOrder,          \* the beds, as they lie
  Cores, Core,       \* Core[c]: the fields of PlantCore
  Frosts, Days,      \* the frost dates and days a hand types
  ThisYear,          \* the year the process lives in
  MaxDay, MaxPicked, \* the last day a postponement leads to; harvests of a planting
  MaxTyped,          \* the dates one request may give
  WeekMonday(_, _),  \* the first day of a week of a year
  None, Gone         \* not there yet, and soft-deleted

Beds == {BedOrder[n] : n \in DOMAIN BedOrder}
Fields == {"sowIndoor", "sowDirect", "transplant", "harvestFrom", "harvestTo"}
Actuals == {"sowed", "transplanted", "firstHarvest", "cleared", "planted", "removed"}
Kinds == {"bedPrep", "sowIndoor", "prickOut", "hardenOff", "sowDirect", "transplant", "thin", "support",
          "feed", "mulch", "pestCheck", "prune", "spray", "harvest", "process", "store", "clear"}
TimingFields ==
  {"winSowIndoor", "winSowDirect", "winTransplant", "winHarvest", "hardening", "germMin", "germMax",
   "feeder", "prickOut", "support", "mulch", "pestCheck"}

\* A window of weeks of the year, or of days around a frost.
Windows == [anchor : {"week"}, from : 1..53, to : 1..53]
           \cup [anchor : {"lastFrost", "firstFrost"}, from : Int, to : Int]
Day == Int \cup {None}

PlantingType ==
  [season : Years \cup {None}, plant : Plants, variety : Varieties \cup {None}, bed : Beds \cup {None},
   status : {"planned", "growing", "harvesting", "done", "failed"},
   manual : SUBSET Fields, drawn : SUBSET Fields, dates : [Fields -> Day], actual : [Actuals -> Day]]
TaskType ==
  [planting : Plantings, kind : Kinds, index : 0..11, from : Int, to : Int, due : Day,
   bed : Beds \cup {None}, status : {"open", "done", "skipped"}, edited : BOOLEAN, suppressed : BOOLEAN]
SeasonType == [status : {"planning", "active", "closed"}, lastFrost : Day, firstFrost : Day]
VarietyType == [plant : Plants, core : Cores]
CopyType ==
  [year : Years, from : Years, reuse : BOOLEAN, built : BOOLEAN,
   copied : [Plantings -> PlantingType \cup {None}], season : SeasonType]

ASSUME CoreAssumption ==
  \A c \in Cores :
    /\ DOMAIN Core[c] = TimingFields \cup {"storage"}
    /\ \A f \in {"winSowIndoor", "winSowDirect", "winTransplant", "winHarvest"} :
         Core[c][f] \in Windows \cup {None}
    /\ \A f \in {"hardening", "germMin", "germMax"} : Core[c][f] \in Day
ASSUME DayAssumption ==
  /\ Days \subseteq Int /\ Frosts \subseteq Day /\ MaxPicked \in Nat
  /\ \A y \in Years \cup {ThisYear}, w \in 1..53 : WeekMonday(y, w) \in Int
\* None and Gone stand for what is not there.
ASSUME NoneAssumption ==
  /\ None # Gone /\ None \notin Int
  /\ \A x \in {None, Gone} : x \notin Cores \cup Years \cup Varieties \cup Beds \cup VarietyType \cup PlantingType
  /\ None \notin SeasonType \cup CopyType \cup Windows

VARIABLES
  plants, varieties,  \* what is known; of a variety, only what differs
  beds,               \* "active", "inactive" or "gone"
  seasons, plantings,
  work,               \* the generated tasks
  chores,             \* the tasks that people wrote down
  picked,             \* per planting: its harvests
  copy,               \* a season being copied
  handled, excused    \* history: the tasks a hand or a closing took over; the seasons
                      \* that were closed, or written over by a copy that came late

knownVars == <<plants, varieties, beds>>
history == <<handled, excused>>
vars == <<knownVars, seasons, plantings, work, chores, picked, copy, history>>

Is(x) == x \notin {None, Gone}
Some(x) == IF x = None THEN {} ELSE {x}
\* The first that is given.
Or(d, e) == IF d # None THEN d ELSE e

\* Some plantings are of earlier years, and deleted.
Init ==
  /\ plants = [q \in Plants |-> None] /\ varieties = [v \in Varieties |-> None]
  /\ beds = [b \in Beds |-> "active"]
  /\ seasons = [y \in Years |-> None] /\ plantings \in [Plantings -> {None, Gone}]
  /\ work = {} /\ chores = [c \in Chores |-> None] /\ picked = [i \in Plantings |-> 0]
  /\ copy = None /\ handled = {} /\ excused = {}

----------------------------------------------------------------------------
(* From knowledge to dates, and from dates to work. *)

\* What a variety says goes before what its crop says.
Merge(base, over) == [f \in DOMAIN base |-> IF over[f] = None THEN base[f] ELSE over[f]]

\* EffectiveFor, in the given tables.
Known(p, P, V) == Is(P[p.plant]) /\ IF p.variety = None THEN TRUE ELSE Is(V[p.variety])
Effective(p, P, V) ==
  IF p.variety = None THEN Core[P[p.plant]] ELSE Merge(Core[P[p.plant]], Core[V[p.variety].core])

NoAnchors == [year |-> None, lastFrost |-> None, firstFrost |-> None]
Anchors(y, S) == [year |-> y, lastFrost |-> S[y].lastFrost, firstFrost |-> S[y].firstFrost]

\* The days of a window, or none: <<from, to>>.
Resolve(w, a) ==
  IF w = None THEN <<>>
  ELSE CASE w.anchor = "week" ->
              IF a.year = None THEN <<>>
              ELSE <<WeekMonday(a.year, w.from), WeekMonday(a.year, w.to) + 6>>
         [] w.anchor \in {"lastFrost", "firstFrost"} ->
              IF a[w.anchor] = None THEN <<>> ELSE <<a[w.anchor] + w.from, a[w.anchor] + w.to>>

WindowFor == [sowIndoor |-> "winSowIndoor", sowDirect |-> "winSowDirect",
              transplant |-> "winTransplant", harvestFrom |-> "winHarvest", harvestTo |-> "winHarvest"]

\* A slip: the dates of a hand are replanned like the others.
PlannedOver(p, eff, a) ==
  [p EXCEPT !.dates = [f \in Fields |->
     LET days == Resolve(eff[WindowFor[f]], a)
     IN IF days = <<>> THEN p.dates[f] ELSE days[IF f = "harvestTo" THEN 2 ELSE 1]]]

\* PlannedDates: a date a hand has typed stays, and so does one whose window is gone.
Planned(p, eff, a) ==
  [p EXCEPT !.dates = [f \in Fields |->
     LET days == Resolve(eff[WindowFor[f]], a)
     IN IF f \in p.manual \/ days = <<>> THEN p.dates[f]
        ELSE days[IF f = "harvestTo" THEN 2 ELSE 1]]]

Occupancy(p) ==
  LET sowedIntoBed == IF p.dates["sowIndoor"] = None THEN p.actual["sowed"] ELSE None
  IN <<Or(sowedIntoBed, Or(p.dates["sowDirect"], Or(p.actual["transplanted"],
          Or(p.dates["transplant"], p.actual["planted"])))),
       Or(p.actual["cleared"], Or(p.actual["removed"], p.dates["harvestTo"]))>>

\* derive: what there is to do for a planting.
Job(kind, index, from, to, due) ==
  [kind |-> kind, index |-> index, from |-> from, to |-> IF to < from THEN from ELSE to, due |-> due]

On(p, f) == Some(p.dates[f])
GroundDay(p) == Some(Or(p.dates["transplant"], p.dates["sowDirect"]))
BedDay(p) == Some(Or(p.dates["sowDirect"], p.dates["transplant"]))
\* The crop's window, or the very day if a hand has typed it.
Spread(p, eff, a, f, d) ==
  LET days == Resolve(eff[WindowFor[f]], a)
  IN IF f \in p.manual \/ days = <<>> THEN <<d, d>> ELSE days
Sown(p, eff, a, kind, f) ==
  {Job(kind, 0, Spread(p, eff, a, f, d)[1], Spread(p, eff, a, f, d)[2], d) : d \in On(p, f)}
Yearly(p, eff, a, kind, f) ==
  IF p.season # None THEN {}
  ELSE {Job(kind, 0, days[1], days[2], None) : days \in {Resolve(eff[WindowFor[f]], a)} \ {<<>>}}
WhenGiven(test, jobs) == IF test THEN jobs ELSE {}

SowingJobs(p, eff, a) == UNION {
  WhenGiven(p.bed # None, {Job("bedPrep", 0, d - 21, d - 7, None) : d \in BedDay(p)}),
  Sown(p, eff, a, "sowIndoor", "sowIndoor"),
  WhenGiven(eff["prickOut"] = TRUE /\ eff["germMin"] # None /\ eff["germMax"] # None,
    {Job("prickOut", 0, d + eff["germMin"], d + eff["germMax"] + 7, None) : d \in On(p, "sowIndoor")}),
  {Job("hardenOff", 0, d - h - 2, d - 1, None) :
     d \in On(p, "transplant"), h \in {h \in Some(eff["hardening"]) : h > 0}},
  Sown(p, eff, a, "sowDirect", "sowDirect"),
  Sown(p, eff, a, "transplant", "transplant"),
  {Job("thin", 0, d + 14, d + 28, None) : d \in On(p, "sowDirect")}}

PestChecks(p) ==
  LET first == Occupancy(p)[1]
      last == Occupancy(p)[2]
  IN {Job("pestCheck", n, first + 30 * (n + 1), first + 30 * (n + 1) + 6, None) :
        n \in {n \in 0..11 : first # None /\ last # None /\ first + 30 * (n + 1) <= last}}
CareJobs(p, eff, a) == UNION {
  WhenGiven(eff["support"] = TRUE, {Job("support", 0, d, d + 14, None) : d \in GroundDay(p)}),
  WhenGiven(eff["feeder"] = "heavy", {Job("feed", 0, d + 28, d + 42, None) : d \in GroundDay(p)}),
  WhenGiven(eff["feeder"] = "medium", {Job("feed", 0, d + 42, d + 56, None) : d \in GroundDay(p)}),
  WhenGiven(eff["mulch"] = TRUE, {Job("mulch", 0, d + 7, d + 21, None) : d \in GroundDay(p)}),
  WhenGiven(eff["pestCheck"] = TRUE, PestChecks(p)),
  Yearly(p, eff, a, "prune", "transplant"),
  Yearly(p, eff, a, "spray", "sowDirect")}

\* Picking goes on to the planned end when there is one.
LastPicking(p, to) ==
  IF p.dates["harvestTo"] # None /\ p.dates["harvestTo"] > to THEN p.dates["harvestTo"] ELSE to
HarvestJobs(p, eff, a) == UNION {
  {Job("harvest", 0, Spread(p, eff, a, "harvestFrom", d)[1],
       LastPicking(p, Spread(p, eff, a, "harvestFrom", d)[2]), d) : d \in On(p, "harvestFrom")},
  WhenGiven(eff["storage"] = TRUE,
    UNION {{Job("process", 0, d, e + 7, None), Job("store", 0, e + 7, e + 14, None)} :
             d \in On(p, "harvestFrom"), e \in On(p, "harvestTo")}),
  {Job("clear", 0, d + 1, d + 21, None) : d \in On(p, "harvestTo")}}

Jobs(p, eff, a) == SowingJobs(p, eff, a) \cup CareJobs(p, eff, a) \cup HarvestJobs(p, eff, a)

----------------------------------------------------------------------------
(* Keeping the work up to date. *)

Key(t) == <<t.planting, t.kind, t.index>>
Same(t, j) == t.kind = j.kind /\ t.index = j.index
OfPlanting(i) == {t \in work : t.planting = i}

Task(i, p, j) ==
  [planting |-> i, kind |-> j.kind, index |-> j.index, from |-> j.from, to |-> j.to, due |-> j.due,
   bed |-> p.bed, status |-> "open", edited |-> FALSE, suppressed |-> FALSE]

\* A slip: a skipped or finished task is the plan's again.
MutableUnlessEdited(t) == ~t.edited /\ ~t.suppressed

\* What no hand has touched.
Mutable(t) == ~t.edited /\ t.status = "open" /\ ~t.suppressed

\* GenerateFor, with its Plan carried out: the tasks that planting i has then.
Regenerated(i, p, eff, a) ==
  LET jobs == Jobs(p, eff, a)
      mine == OfPlanting(i)
  IN {t \in mine : ~Mutable(t)}
     \cup {Task(i, p, j) : j \in {k \in jobs : \A t \in mine : ~Same(t, k) \/ Mutable(t)}}

\* regeneratePlanting: what a planting without a season is anchored to.
AnchorsOf(p, S) ==
  IF p.season # None THEN Anchors(p.season, S)
  ELSE IF p.actual["planted"] # None THEN [NoAnchors EXCEPT !.year = ThisYear]
  ELSE NoAnchors

\* A change of the plantings I to new[i], each regenerated in the given tables.
Replan(I, new, P, V, S) ==
  /\ \A i \in I : Known(new[i], P, V)
  /\ plantings' = [i \in Plantings |-> IF i \in I THEN [new[i] EXCEPT !.drawn = new[i].manual] ELSE plantings[i]]
  /\ work' = {t \in work : t.planting \notin I}
             \cup UNION {Regenerated(i, new[i], Effective(new[i], P, V), AnchorsOf(new[i], S)) : i \in I}

Open(y) == IF y = None THEN TRUE ELSE seasons[y].status # "closed"
LiveIn(y) == {i \in Plantings : Is(plantings[i]) /\ plantings[i].season = y}

\* A slip: closed seasons are replanned like the others.
UsersOpenOrNot(q) == {i \in Plantings : Is(plantings[i]) /\ plantings[i].plant = q}

\* Those of a crop, in seasons that are not closed.
UsersOf(q) ==
  {i \in Plantings : Is(plantings[i]) /\ plantings[i].plant = q /\ Open(plantings[i].season)}

\* regenerateForPlant: dates are planned anew only within a season.
RegenerateForPlant(q, P, V) ==
  Replan(UsersOf(q),
         [i \in UsersOf(q) |->
            LET p == plantings[i]
            IN IF p.season = None THEN p
               ELSE Planned(p, Effective(p, P, V), Anchors(p.season, seasons))],
         P, V, seasons)

TimingChanged(c, d) == \E f \in TimingFields : Core[c][f] # Core[d][f]

----------------------------------------------------------------------------
(* What is known: crops, varieties, beds. *)

CreatePlant(q, c) ==
  /\ plants[q] = None
  /\ plants' = [plants EXCEPT ![q] = c]
  /\ UNCHANGED <<varieties, beds, seasons, plantings, work, chores, picked, copy, history>>

UpdatePlant(q, c) ==
  /\ Is(plants[q])
  /\ plants' = [plants EXCEPT ![q] = c]
  /\ IF TimingChanged(plants[q], c) THEN RegenerateForPlant(q, plants', varieties)
     ELSE UNCHANGED <<plantings, work>>
  /\ UNCHANGED <<varieties, beds, seasons, chores, picked, copy, history>>

DeletePlant(q) ==
  /\ Is(plants[q]) /\ \A i \in Plantings : Is(plantings[i]) => plantings[i].plant # q
  /\ plants' = [plants EXCEPT ![q] = Gone]
  /\ UNCHANGED <<varieties, beds, seasons, plantings, work, chores, picked, copy, history>>

CreateVariety(v, q, c) ==
  /\ varieties[v] = None /\ Is(plants[q])
  /\ varieties' = [varieties EXCEPT ![v] = [plant |-> q, core |-> c]]
  /\ UNCHANGED <<plants, beds, seasons, plantings, work, chores, picked, copy, history>>

UpdateVariety(v, c) ==
  /\ Is(varieties[v])
  /\ varieties' = [varieties EXCEPT ![v].core = c]
  /\ IF TimingChanged(varieties[v].core, c) THEN RegenerateForPlant(varieties[v].plant, plants, varieties')
     ELSE UNCHANGED <<plantings, work>>
  /\ UNCHANGED <<plants, beds, seasons, chores, picked, copy, history>>

DeleteVariety(v) ==
  /\ Is(varieties[v]) /\ \A i \in Plantings : Is(plantings[i]) => plantings[i].variety # v
  /\ varieties' = [varieties EXCEPT ![v] = Gone]
  /\ UNCHANGED <<plants, beds, seasons, plantings, work, chores, picked, copy, history>>

UpdateBed(b, active) ==
  /\ beds[b] # "gone"
  /\ beds' = [beds EXCEPT ![b] = IF active THEN "active" ELSE "inactive"]
  /\ UNCHANGED <<plants, varieties, seasons, plantings, work, chores, picked, copy, history>>

DeleteBed(b) ==
  /\ beds[b] # "gone"
  /\ \A i \in Plantings : Is(plantings[i]) /\ plantings[i].bed = b => ~Open(plantings[i].season)
  /\ beds' = [beds EXCEPT ![b] = "gone"]
  /\ UNCHANGED <<plants, varieties, seasons, plantings, work, chores, picked, copy, history>>

----------------------------------------------------------------------------
(* Seasons. *)

Season(status, last, first) == [status |-> status, lastFrost |-> last, firstFrost |-> first]

CreateSeason(y, last, first) ==
  /\ seasons[y] = None
  /\ seasons' = [seasons EXCEPT ![y] = Season("planning", last, first)]
  /\ UNCHANGED <<knownVars, plantings, work, chores, picked, copy, history>>

\* With copy_from: what becomes of year y, judged before the transaction.
CopyBegins(y, from, last, first) ==
  /\ copy = None
  /\ seasons[y] # None => seasons[y].status # "closed" /\ LiveIn(y) = {}
  /\ LET old == seasons[y]
     IN copy' = [year |-> y, from |-> from, reuse |-> old # None, built |-> FALSE,
                 copied |-> [i \in Plantings |-> None],
                 season |-> IF old = None THEN Season("planning", last, first)
                            ELSE Season(old.status, Or(last, old.lastFrost),
                                        Or(first, old.firstFrost))]
  /\ UNCHANGED <<knownVars, seasons, plantings, work, chores, picked, history>>

\* Where the beds in use lie, and how many of them before n.
BedsInUse == {n \in DOMAIN BedOrder : beds[BedOrder[n]] = "active"}
Before(n) == Cardinality({m \in BedsInUse : m < n})
\* The bed so many beds in use further on, in a round.
Shifted(b, offset) ==
  LET to == {m \in BedsInUse : \E n \in BedsInUse :
               BedOrder[n] = b /\ Before(m) = (Before(n) + offset) % Cardinality(BedsInUse)}
  IN IF b = None \/ offset = 0 \/ to = {} THEN b ELSE BedOrder[CHOOSE m \in to : TRUE]

\* buildCopy: the plan of the source, a season on, without what became of it.
Copied(p, offset) ==
  [p EXCEPT !.season = copy.year, !.bed = Shifted(p.bed, offset), !.status = "planned",
            !.manual = {}, !.dates = [f \in Fields |-> None], !.actual = [f \in Actuals |-> None]]

CopyBuilds(offset) ==
  /\ copy # None /\ ~copy.built /\ seasons[copy.from] # None
  /\ \A i \in LiveIn(copy.from) : Known(plantings[i], plants, varieties)
  /\ LET s == copy.season
         a == [year |-> copy.year, lastFrost |-> s.lastFrost, firstFrost |-> s.firstFrost]
     IN copy' = [copy EXCEPT !.built = TRUE, !.copied =
                   [i \in Plantings |-> IF i \notin LiveIn(copy.from) THEN None ELSE
                      Planned(Copied(plantings[i], offset), Effective(plantings[i], plants, varieties), a)]]
  /\ UNCHANGED <<knownVars, seasons, plantings, work, chores, picked, history>>

\* It writes the season as it read it; a crop that went meanwhile fails it.
CopyCommits ==
  /\ copy # None /\ copy.built
  /\ copy.reuse = (seasons[copy.year] # None)
  /\ seasons' = [seasons EXCEPT ![copy.year] = copy.season]
  /\ \E id \in [{i \in Plantings : copy.copied[i] # None} -> {i \in Plantings : plantings[i] = None}] :
       /\ \A i, j \in DOMAIN id : i # j => id[i] # id[j]
       /\ LET I == {id[i] : i \in DOMAIN id}
          IN Replan(I, [n \in I |-> copy.copied[CHOOSE i \in DOMAIN id : id[i] = n]],
                    plants, varieties, seasons')
  /\ copy' = None
  /\ excused' = IF LiveIn(copy.year) = {} THEN excused ELSE excused \cup {copy.year}
  /\ UNCHANGED <<knownVars, chores, picked, handled>>

\* A preview, a refusal, a failure.
CopyEnds ==
  /\ copy # None /\ copy' = None
  /\ UNCHANGED <<knownVars, seasons, plantings, work, chores, picked, history>>

\* A change of a frost date plans the season's plantings anew: reanchorSeason.
UpdateSeason(y, status, last, first) ==
  /\ seasons[y] # None /\ Open(y)
  /\ seasons' = [seasons EXCEPT ![y] = Season(status, last, first)]
  /\ IF <<last, first>> = <<seasons[y].lastFrost, seasons[y].firstFrost>>
     THEN UNCHANGED <<plantings, work>>
     ELSE Replan(LiveIn(y),
                 [i \in LiveIn(y) |-> Planned(plantings[i], Effective(plantings[i], plants, varieties),
                                              Anchors(y, seasons'))],
                 plants, varieties, seasons')
  /\ UNCHANGED <<knownVars, chores, picked, copy, history>>

\* outcome: "done" or "failed" for some of its plantings, of which some have a yield.
CloseSeason(y, outcome, yields) ==
  /\ seasons[y] # None /\ Open(y)
  /\ DOMAIN outcome \subseteq LiveIn(y) /\ yields \subseteq DOMAIN outcome
  /\ \A i \in yields : picked[i] < MaxPicked
  /\ plantings' = [i \in Plantings |-> IF i \in DOMAIN outcome THEN [plantings[i] EXCEPT !.status = outcome[i]]
                                       ELSE plantings[i]]
  /\ picked' = [i \in Plantings |-> IF i \in yields THEN picked[i] + 1 ELSE picked[i]]
  /\ LET left == {t \in work : Is(plantings[t.planting]) /\ plantings[t.planting].season = y
                                /\ t.status = "open" /\ ~t.suppressed}
     IN /\ work' = (work \ left) \cup {[t EXCEPT !.status = "skipped"] : t \in left}
        /\ handled' = handled \cup {Key(t) : t \in left}
  /\ chores' = [c \in Chores |-> IF Is(chores[c]) /\ chores[c].season = y /\ chores[c].status = "open"
                                 THEN [chores[c] EXCEPT !.status = "skipped"] ELSE chores[c]]
  /\ seasons' = [seasons EXCEPT ![y].status = "closed"]
  /\ excused' = excused \cup {y}
  /\ UNCHANGED <<knownVars, copy>>

\* An administrator; what the closing skipped stays skipped.
ReopenSeason(y) ==
  /\ seasons[y] # None /\ ~Open(y)
  /\ seasons' = [seasons EXCEPT ![y].status = "active"]
  /\ UNCHANGED <<knownVars, plantings, work, chores, picked, copy, history>>

----------------------------------------------------------------------------
(* Plantings. *)

\* requireOpenSeason: no season, or one that is there and not closed.
SeasonTaken(y) == IF y = None THEN TRUE ELSE seasons[y] # None /\ Open(y)

\* typed: the dates the request gives; planted: of a permanent, when it was planted.
CreatePlanting(i, y, q, v, b, typed, planted) ==
  /\ plantings[i] = None /\ SeasonTaken(y)
  /\ b \in {None} \cup {k \in Beds : beds[k] # "gone"}
  /\ LET p == [season |-> y, plant |-> q, variety |-> v, bed |-> b, status |-> "planned",
               manual |-> DOMAIN typed, drawn |-> {},
               dates |-> [f \in Fields |-> IF f \in DOMAIN typed THEN typed[f] ELSE None],
               actual |-> [f \in Actuals |-> IF f = "planted" THEN planted ELSE None]]
         a == IF y = None THEN NoAnchors ELSE Anchors(y, seasons)
     IN /\ Known(p, plants, varieties)
        /\ Replan({i}, [n \in {i} |-> Planned(p, Effective(p, plants, varieties), a)],
                  plants, varieties, seasons)
  /\ UNCHANGED <<knownVars, seasons, chores, picked, copy, history>>

\* A date given is a hand's from then on; one taken away is the plan's again, but empty
\* until the plan next changes.
WithDate(p, f, d) ==
  [p EXCEPT !.dates[f] = d, !.manual = IF d = None THEN @ \ {f} ELSE @ \cup {f}]
WithActual(p, f, d) == [p EXCEPT !.actual[f] = d]

\* What one field of a request makes of a planting.
Patched(p) ==
  {[p EXCEPT !.bed = b] : b \in Beds \cup {None}}
  \cup {[p EXCEPT !.variety = v] : v \in Varieties \cup {None}}
  \cup {WithDate(p, f, d) : f \in Fields, d \in Days \cup {None}}
  \cup {WithActual(p, f, d) : f \in Actuals, d \in Days \cup {None}}
  \cup {[p EXCEPT !.status = s] : s \in {"growing", "done"}}

\* A slip: the bed does not count.
PlanChangedButForTheBed(p, n) ==
  \/ p.variety # n.variety \/ p.dates # n.dates
  \/ \E f \in Actuals \ {"firstHarvest"} : p.actual[f] # n.actual[f]

\* planChanged: the first harvest and the status do not count, nor does it that a hand
\* has typed a date when it types the one that was planned.
PlanChanged(p, n) ==
  \/ p.bed # n.bed \/ p.variety # n.variety \/ p.dates # n.dates
  \/ \E f \in Actuals \ {"firstHarvest"} : p.actual[f] # n.actual[f]

UpdatePlanting(i, n) ==
  /\ Is(plantings[i]) /\ Open(plantings[i].season)
  /\ n.bed \in {None, plantings[i].bed} \cup {b \in Beds : beds[b] # "gone"}
  /\ IF PlanChanged(plantings[i], n) THEN Replan({i}, [k \in {i} |-> n], plants, varieties, seasons)
     ELSE plantings' = [plantings EXCEPT ![i] = n] /\ UNCHANGED work
  /\ UNCHANGED <<knownVars, seasons, chores, picked, copy, history>>

\* With its open work, edited or not; what was done stays on record.
DeletePlanting(i) ==
  /\ Is(plantings[i]) /\ Open(plantings[i].season)
  /\ plantings' = [plantings EXCEPT ![i] = Gone]
  /\ work' = {t \in work : t.planting # i \/ t.status # "open"}
  /\ UNCHANGED <<knownVars, seasons, chores, picked, copy, history>>

\* A postponement by hand of the work of some kinds.
ShiftTasks(i, days, kinds) ==
  /\ Is(plantings[i]) /\ Open(plantings[i].season)
  /\ LET moved == {t \in OfPlanting(i) : t.status = "open" /\ ~t.suppressed /\ t.kind \in kinds}
     IN /\ \A t \in moved : \A d \in {t.to} \cup Some(t.due) : d + days <= MaxDay
        /\ work' = (work \ moved) \cup
                   {[t EXCEPT !.from = @ + days, !.to = @ + days,
                              !.due = IF @ = None THEN None ELSE @ + days, !.edited = TRUE] : t \in moved}
        /\ handled' = handled \cup {Key(t) : t \in moved}
  /\ UNCHANGED <<knownVars, seasons, plantings, chores, picked, copy, excused>>

\* The first harvest dates the planting and sets it to harvesting.
CreateHarvest(i, day) ==
  /\ Is(plantings[i]) /\ Open(plantings[i].season)
  /\ picked[i] < MaxPicked
  /\ \A from \in Some(Occupancy(plantings[i])[1]) : from <= day
  /\ picked' = [picked EXCEPT ![i] = @ + 1]
  /\ plantings' = IF plantings[i].actual["firstHarvest"] # None THEN plantings
                  ELSE [plantings EXCEPT ![i].actual["firstHarvest"] = day, ![i].status = "harvesting"]
  /\ UNCHANGED <<knownVars, seasons, work, chores, copy, history>>

DeleteHarvest(i) ==
  /\ picked[i] > 0 /\ Is(plantings[i]) /\ Open(plantings[i].season)
  /\ picked' = [picked EXCEPT ![i] = @ - 1]
  /\ UNCHANGED <<knownVars, seasons, plantings, work, chores, copy, history>>

----------------------------------------------------------------------------
(* Tasks by hand. *)

\* A task keeps its season when its planting goes; Gone plantings are in no closed one
\* as far as the work that outlives them is concerned.
TaskOpen(t) == Is(plantings[t.planting]) => Open(plantings[t.planting].season)

Change(t, n) ==
  /\ TaskOpen(t)
  /\ work' = (work \ {t}) \cup {n}
  /\ handled' = handled \cup {Key(t)}
  /\ UNCHANGED <<knownVars, seasons, plantings, chores, picked, copy, excused>>

EditTask(t, day) == Change(t, [t EXCEPT !.from = day, !.to = day, !.edited = TRUE])
SetTask(t, status) == Change(t, [t EXCEPT !.status = status])
\* The row of a generated task stays, so that its key stays taken.
DeleteTask(t) == Change(t, [t EXCEPT !.suppressed = TRUE])

CreateChore(c, y) ==
  /\ chores[c] = None /\ SeasonTaken(y)
  /\ chores' = [chores EXCEPT ![c] = [season |-> y, status |-> "open"]]
  /\ UNCHANGED <<knownVars, seasons, plantings, work, picked, copy, history>>
SetChore(c, status) ==
  /\ Is(chores[c]) /\ Open(chores[c].season)
  /\ chores' = [chores EXCEPT ![c].status = status]
  /\ UNCHANGED <<knownVars, seasons, plantings, work, picked, copy, history>>
DeleteChore(c) ==
  /\ Is(chores[c]) /\ Open(chores[c].season)
  /\ chores' = [chores EXCEPT ![c] = Gone]
  /\ UNCHANGED <<knownVars, seasons, plantings, work, picked, copy, history>>

KnownNext ==
  \/ \E q \in Plants, c \in Cores : CreatePlant(q, c)
  \/ \E q \in Plants, c \in Cores : UpdatePlant(q, c)
  \/ \E q \in Plants : DeletePlant(q)
  \/ \E v \in Varieties, q \in Plants, c \in Cores : CreateVariety(v, q, c)
  \/ \E v \in Varieties, c \in Cores : UpdateVariety(v, c)
  \/ \E v \in Varieties : DeleteVariety(v)
  \/ \E b \in Beds, active \in BOOLEAN : UpdateBed(b, active)
  \/ \E b \in Beds : DeleteBed(b)

SeasonNext ==
  \/ \E y \in Years, last, first \in Frosts : CreateSeason(y, last, first)
  \/ \E y, from \in Years, last, first \in Frosts : CopyBegins(y, from, last, first)
  \/ \E offset \in 0..1 : CopyBuilds(offset)
  \/ CopyCommits
  \/ CopyEnds
  \/ \E y \in Years, s \in {"planning", "active"}, last, first \in Frosts : UpdateSeason(y, s, last, first)
  \/ \E y \in Years : \E I \in SUBSET LiveIn(y) : \E yields \in SUBSET I :
       \E outcome \in [I -> {"done", "failed"}] : CloseSeason(y, outcome, yields)
  \/ \E y \in Years : ReopenSeason(y)
  \/ \E i \in Plantings, y \in Years \cup {None}, q \in Plants, v \in Varieties \cup {None},
        b \in Beds \cup {None} : \E F \in {F \in SUBSET Fields : Cardinality(F) <= MaxTyped} : \E typed \in [F -> Days] :
       \E planted \in IF y = None THEN Days \cup {None} ELSE {None} :
         CreatePlanting(i, y, q, v, b, typed, planted)
  \/ \E i \in Plantings : DeletePlanting(i)

HandNext ==
  \/ \E i \in Plantings : Is(plantings[i]) /\ \E n \in Patched(plantings[i]) : UpdatePlanting(i, n)
  \/ \E i \in Plantings, days \in Days : \E kinds \in {{t.kind} : t \in work} : ShiftTasks(i, days, kinds)
  \/ \E i \in Plantings, day \in Days : CreateHarvest(i, day)
  \/ \E i \in Plantings : DeleteHarvest(i)
  \/ \E t \in work, day \in Days : EditTask(t, day)
  \/ \E t \in work, s \in {"open", "done", "skipped"} : SetTask(t, s)
  \/ \E t \in work : DeleteTask(t)
  \/ \E c \in Chores, y \in Years \cup {None} : CreateChore(c, y)
  \/ \E c \in Chores, s \in {"open", "done", "skipped"} : SetChore(c, s)
  \/ \E c \in Chores : DeleteChore(c)

Next == KnownNext \/ SeasonNext \/ HandNext
Spec == Init /\ [][Next]_vars

-----------------------------------------------------------------------------

TypeOK ==
  /\ plants \in [Plants -> Cores \cup {None, Gone}]
  /\ varieties \in [Varieties -> VarietyType \cup {None, Gone}]
  /\ beds \in [Beds -> {"active", "inactive", "gone"}]
  /\ seasons \in [Years -> SeasonType \cup {None}]
  /\ plantings \in [Plantings -> PlantingType \cup {None, Gone}]
  /\ work \subseteq TaskType
  /\ chores \in [Chores -> [season : Years \cup {None}, status : {"open", "done", "skipped"}] \cup {None, Gone}]
  /\ picked \in [Plantings -> Nat]
  /\ copy \in CopyType \cup {None}
  /\ handled \subseteq Plantings \X Kinds \X (0..11) /\ excused \subseteq Years

\* What the plan of planting i asks for, without what a change of a crop's storage
\* methods does not bring up to date (timingChanged leaves them out), nor a date that
\* was typed as it was planned (planChanged leaves it out).
Wanted(i) ==
  LET p == [plantings[i] EXCEPT !.manual = plantings[i].drawn]
  IN {j \in Jobs(p, Effective(p, plants, varieties), AnchorsOf(p, seasons)) :
        j.kind \notin {"process", "store"}}

VarietyFits(p) == p.variety # None => varieties[p.variety].plant = p.plant

\* The calendar says what the plan says: in a season that was never closed, whatever
\* was changed of the crop, its variety, the frosts, the planting, in whatever order
\* and through a copied season, every job has one task, and a task no hand has touched
\* has its job's days and goes with it (the callers of regeneratePlanting).
PlanIsFollowed ==
  \A i \in Plantings : Is(plantings[i]) /\ VarietyFits(plantings[i]) /\ plantings[i].season \notin excused =>
    LET mine == {t \in OfPlanting(i) : t.kind \notin {"process", "store"}}
        wanted == {Task(i, plantings[i], j) : j \in Wanted(i)}
        kept == {t \in mine : Key(t) \in handled}
    IN /\ mine \ kept \subseteq wanted
       /\ wanted \ mine \subseteq {t \in wanted : \E u \in kept : Same(t, u)}
       /\ \A t, u \in mine : Key(t) = Key(u) => t = u

InHand(t) == t.edited \/ t.status # "open" \/ t.suppressed

\* A task that a hand has moved, finished, skipped or removed is not changed by any
\* later change of the plan, but for the open ones of a planting that is deleted and
\* those a closing season skips (GenerateFor, closeOutTasks).
HandsOff ==
  \A t \in work : InHand(t) =>
    \/ t \in work'
    \/ t.status = "open" /\ plantings'[t.planting] = Gone
    \/ [t EXCEPT !.status = "skipped"] \in work'

\* A closed season is a record: but for its reopening nothing of it moves, neither its
\* plantings nor their work and harvests, through whatever of the crop, the frosts or
\* another season changes (requireOpenSeason and its callers).
ClosedStays(y) ==
  /\ ~Open(y)' \/ ReopenSeason(y) \/ (copy # None /\ copy.year = y)
  /\ \A i \in LiveIn(y) : /\ plantings'[i] = plantings[i] /\ picked'[i] = picked[i]
                          /\ {t \in work' : t.planting = i} = OfPlanting(i)

\* A date a hand has typed outlives what changes of the crop and of the frosts.
TypedStays ==
  \A i \in Plantings : Is(plantings[i]) /\ Is(plantings'[i]) =>
    \A f \in plantings[i].manual : plantings'[i].dates[f] = plantings[i].dates[f]

\* What the plan keeps its hands off: the dates people typed, the tasks they touched,
\* and closed seasons.
PlanKeepsOff ==
  /\ <<knownVars, seasons>> # <<knownVars, seasons>>' => TypedStays
  /\ <<knownVars, seasons, plantings>> # <<knownVars, seasons, plantings>>' => HandsOff
  /\ \A y \in Years : seasons[y] # None /\ ~Open(y) => ClosedStays(y)
KeptOff == [][PlanKeepsOff]_vars

\* "Closed" is final but for an administrator's reopening.
ClosedUntilReopened ==
  [][\A y \in Years : seasons[y] # None /\ ~Open(y) => ~Open(y)' \/ ReopenSeason(y)]_vars
=============================================================================
