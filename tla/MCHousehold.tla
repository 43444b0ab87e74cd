---------------------------- MODULE MCHousehold ----------------------------
(***************************************************************************)
(* Instances for TLC of the modules a household plans its work and keeps   *)
(* its accounts with: the garden, the boards, the electricity and the      *)
(* months of income.  The scenes share no state; a behaviour moves the     *)
(* variables of one.                                                       *)
(***************************************************************************)
EXTENDS GardenPlan, TodoBoards, Electricity, Finance, TLC

CONSTANTS spring, later, bare,  \* three states of the knowledge of a crop
          i1, i2, b1,
          Scenes                \* the scenes a run plays

VARIABLE scene

\* Two meters' worth of readings, two price lists, two schedules, four periods of which
\* two overlap and one ends a year on.
Registers == {[vt |-> 0, nt |-> 1], [vt |-> 1, nt |-> 1], [vt |-> 4, nt |-> 2]}
PriceLists == {[vt |-> 3, nt |-> 1, fee |-> 4], [vt |-> 1, nt |-> 2, fee |-> 2]}
Schedules == {[amount |-> 3, due |-> 1], [amount |-> 5, due |-> 9]}
Spans == {[from |-> 0, to |-> 3], [from |-> 0, to |-> Blank], [from |-> 4, to |-> 5], [from |-> 2, to |-> 5]}

Split(personal, operational, fun, noFun) ==
  [personal |-> personal, operational |-> operational, fun |-> fun, noFun |-> noFun]
TwoSplits == {Split(2, 0, 49, 49), Split(33, 34, 16, 17)}

ASSUME AmountsAreSound == BoardConstants /\ LedgerConstants /\ FinanceConstants

Window(anchor, from, to) == [anchor |-> anchor, from |-> from, to |-> to]
Nothing ==
  [winSowIndoor |-> None, winSowDirect |-> None, winTransplant |-> None, winHarvest |-> None,
   hardening |-> None, germMin |-> None, germMax |-> None, feeder |-> None, prickOut |-> None,
   support |-> None, mulch |-> None, pestCheck |-> None, storage |-> None]
ThreeCores ==
  spring :> [Nothing EXCEPT !.winSowDirect = Window("lastFrost", 0, 7), !.winHarvest = Window("week", 20, 21)]
  @@ later :> [Nothing EXCEPT !.winSowDirect = Window("lastFrost", 7, 9), !.mulch = TRUE]
  @@ bare :> Nothing
Monday(year, week) == 364 * (year - 1) + 7 * (week - 1)
OneBed == <<b1>>

Filled(f) == {x \in DOMAIN f : f[x] \notin {None, NoRow}}

\* The accounts, as the bounds below have them: no step leaves them.
OneAccount ==
  LET Card(table) == Cardinality(Rows(table))
      money == Card(advances) + Card(payments)
  IN \/ money = 0 /\ Card(readings) <= 3 /\ Card(tariffs) <= 2 /\ Cardinality(periods) <= 1
     \/ money = 0 /\ Rows(readings) \subseteq {0} /\ Card(tariffs) <= 2
     \/ /\ money <= 2 /\ Rows(readings) \subseteq {0, 3} /\ Rows(tariffs) \subseteq {0}
        /\ Cardinality(periods) <= 1

\* Two seasons with the same frosts, copied and closed while the crop changes.
TwoSeasons ==
  \/ \E q \in Plants, c \in {spring, later} : CreatePlant(q, c) \/ UpdatePlant(q, c)
  \/ \E y \in Years : CreateSeason(y, 100, 100) \/ ReopenSeason(y)
  \/ \E y, from \in Years : CopyBegins(y, from, 100, 100)
  \/ \E offset \in 0..1 : CopyBuilds(offset)
  \/ CopyCommits \/ CopyEnds
  \/ \E y \in Years : UpdateSeason(y, "planning", 100, 100)
  \/ \E y \in Years : \E I \in SUBSET LiveIn(y) : \E yields \in SUBSET I :
       \E outcome \in [I -> {"done", "failed"}] : CloseSeason(y, outcome, yields)
  \/ \E i \in Plantings, y \in Years, q \in Plants : CreatePlanting(i, y, q, None, None, <<>>, None)
  \/ \E i \in Plantings : DeletePlanting(i)

HouseholdInit ==
  /\ scene \in Scenes
  /\ Init /\ plantings = (i1 :> None @@ i2 :> IF scene = "seasons" THEN None ELSE Gone)
  /\ BoardsInit /\ LedgerInit /\ FinanceInit
HouseholdNext ==
  /\ UNCHANGED scene
  /\ \/ scene \in {"crops", "hands", "rest"} /\ Next /\ UNCHANGED <<boardVars, ledger, financeVars>>
     \/ scene = "seasons" /\ TwoSeasons /\ UNCHANGED <<boardVars, ledger, financeVars>>
     \/ scene = "boards" /\ BoardsNext /\ UNCHANGED <<vars, ledger, financeVars>>
     \/ scene = "accounts" /\ LedgerNext /\ OneAccount' /\ UNCHANGED <<vars, boardVars, financeVars>>
     \/ scene = "months" /\ FinanceNext /\ UNCHANGED <<vars, boardVars, ledger>>
HouseholdSpec == HouseholdInit /\ [][HouseholdNext]_<<scene, vars, boardVars, ledger, financeVars>>

(***************************************************************************)
(* Bounds.  In the garden, one planting and one season with one frost      *)
(* moved and one date typed by hand (crops) or one task touched, or the    *)
(* season closed (hands); two plantings and two seasons that are copied    *)
(* and closed (seasons); beds, varieties, notes and harvests of a crop     *)
(* without dates one at a time (rest).  On the boards, columns without     *)
(* cards, or the cards of one column, or one card.  In the accounts, the   *)
(* readings and prices of one period, prices under two, or the advances of *)
(* one.  One month of income, or months without any that are read page by  *)
(* page.                                                                   *)
(***************************************************************************)
Live == {i \in Plantings : Is(plantings[i])}
Typed(i) == Cardinality(plantings[i].manual) + Cardinality({f \in Actuals : plantings[i].actual[f] # None})
OneSeason == copy = None /\ seasons[2] = None
JustPlans ==
  /\ \A y \in Filled(seasons) : seasons[y].status # "active"
  /\ plantings[i1] # Gone /\ \A i \in Plantings : picked[i] = 0
  /\ \A b \in Beds : beds[b] = "active"
  /\ \A q \in Plants : plants[q] \notin {Gone, bare}
  /\ \A v \in Varieties : varieties[v] # Gone
  /\ Filled(chores) = {}
  /\ \A i \in Live : plantings[i].status = "planned"
OneFrost == \A y \in Filled(seasons) : seasons[y].lastFrost = 100 /\ seasons[y].firstFrost = 100
InSeasons ==
  JustPlans /\ OneFrost /\ Filled(varieties) = {} /\ \A i \in Live : plantings[i].season # None /\ plantings[i].bed = None /\ Typed(i) = 0

PlainBoard ==
  /\ \A k \in Filled(columns) : columns[k].kind = "normal"
  /\ \A b \in Boards : boards[b] # "archived"
  /\ \A c \in Filled(cards) : ~cards[c].archived
  /\ Filled(labels) = {} /\ Filled(items) = {}

OneThing ==
  CASE scene = "accounts" -> TRUE
    [] scene = "months" ->
         \/ walk = Nil /\ Cardinality(Made) <= 1
         \/ \A i \in Made : months[i].kaja = 0 /\ months[i].andy = 0 /\ months[i].rates.personal = 2
    [] scene = "crops" -> /\ JustPlans /\ OneSeason /\ handled = {} /\ excused = {} /\ \A i \in Live : Typed(i) <= 1
                          /\ \A y \in Filled(seasons) : 100 \in {seasons[y].lastFrost, seasons[y].firstFrost}
    [] scene = "hands" -> /\ InSeasons /\ OneSeason
                          /\ \/ Cardinality(handled) <= 1
                             \/ excused # {} /\ \A y \in excused : ~Open(y)
    [] scene = "seasons" -> /\ InSeasons
                            /\ handled = {} \/ excused # {}
                            /\ plantings[i2] # Gone
                            /\ IF plantings[i1] = None THEN plantings[i2] = None
                               ELSE plantings[i1].season = 1
    [] scene = "rest" ->
         /\ OneSeason /\ OneFrost /\ handled = {} /\ \A q \in Plants : plants[q] \in {None, bare, Gone}
         /\ \A i \in Live : Typed(i) = 0 /\ plantings[i].status \notin {"growing", "failed"}
         /\ \A v \in Varieties : Is(varieties[v]) => varieties[v].core = bare
         /\ Cardinality({b \in Beds : beds[b] # "active"}) + Cardinality(Filled(varieties))
            + Cardinality(Filled(chores)) + Cardinality({i \in Plantings : picked[i] > 0}) <= 1
    [] scene = "boards" ->
         \/ PlainBoard /\ Filled(cards) = {}
         \/ PlainBoard /\ Cardinality(Filled(columns)) <= 1 /\ \A k \in Filled(columns) : columns[k].pos = <<1>>
         \/ /\ Cardinality(Filled(cards)) <= 1
            /\ Cardinality(Filled(columns)) <= 1 \/ (Filled(labels) = {} /\ Filled(items) = {})
            /\ \A k \in Filled(columns) : Len(columns[k].pos) = 1
            /\ \A c \in Filled(cards) : Len(cards[c].pos) = 1

\* The cards, and the months' rows, are interchangeable.
Alike == Permutations(Cards)
=============================================================================
