------------------------------- MODULE Finance -------------------------------
(***************************************************************************)
(* The household's months of income and how each is divided                *)
(* (backend/internal/modules/finance): one row per month with two incomes  *)
(* and four rates, the split derived from it whenever it is read, and the  *)
(* list read page by page while months come and go.  Money is whole; a     *)
(* month is the number of its place in the calendar.                       *)
(***************************************************************************)
EXTENDS Integers, FiniteSets, FiniteSetsExt

CONSTANTS
  Months, Ids, Nil,
  Incomes,   \* a bound: the incomes entered
  Rates,     \* a bound: the rates entered, [personal, operational, fun, noFun]
  PageSize,  \* the list's limit
  Lookback   \* maxMissingLookback

VARIABLES
  months,   \* the finance_months table
  walk      \* a reader of the list: [cursor, shown, stayed], or Nil

financeVars == <<months, walk>>

Made == {i \in Ids : months[i] # Nil}

\* What is taken of the constants: rows and months are told from the marker.
Row == [month : Months, kaja : Incomes, andy : Incomes, rates : Rates]
FinanceConstants ==
  /\ IsFiniteSet(Ids) /\ Months \subseteq Nat /\ Incomes \subseteq Int
  /\ Rates \subseteq [personal : Int, operational : Int, fun : Int, noFun : Int]
  /\ PageSize \in Nat \ {0} /\ Lookback \in Nat
  /\ Nil \notin Nat \cup Row
  /\ Nil \notin [cursor : Months \cup {Nil}, shown : [Ids -> Nat], stayed : SUBSET Ids]

FinanceInit == months = [i \in Ids |-> Nil] /\ walk = Nil

----------------------------------------------------------------------------
(* The split (split.go, types.go). *)

\* math.Round of x hundredths.  The product is a binary float, so that a half may land
\* on either side.
Rounded(x) == IF x % 100 = 50 THEN {x \div 100, x \div 100 + 1} ELSE {(x + 50) \div 100}

\* Every split Compute may derive from a month.
\* Slip: what is needed is rounded too, not what remains.
ComputeRoundsNeeds(m) ==
  {[personalKaja |-> pk, personalAndy |-> pa, received |-> m.kaja - pk + m.andy - pa,
    fun |-> f, noFun |-> n, needs |-> d] :
     pk \in Rounded(m.kaja * m.rates.personal), pa \in Rounded(m.andy * m.rates.personal),
     f \in Rounded((m.kaja + m.andy) * m.rates.fun), n \in Rounded((m.kaja + m.andy) * m.rates.noFun),
     d \in Rounded((m.kaja + m.andy) * m.rates.operational)}
Compute(m) ==
  {[personalKaja |-> pk, personalAndy |-> pa, received |-> m.kaja - pk + m.andy - pa,
    fun |-> f, noFun |-> n, needs |-> m.kaja - pk + m.andy - pa - f - n] :
     pk \in Rounded(m.kaja * m.rates.personal), pa \in Rounded(m.andy * m.rates.personal),
     f \in Rounded((m.kaja + m.andy) * m.rates.fun), n \in Rounded((m.kaja + m.andy) * m.rates.noFun)}

\* missingMonths: from the first recorded month, or as far back as is looked, to today's.
MissingMonths(today) ==
  LET recorded == {months[i].month : i \in Made}
      from == IF Min(recorded) < today - Lookback THEN today - Lookback ELSE Min(recorded)
  IN IF recorded = {} THEN {} ELSE (from..today) \ recorded

----------------------------------------------------------------------------
(* The service, each operation one transaction. *)

MonthTaken(month, except) == \E i \in Made \ {except} : months[i].month = month
Valid(m) == /\ m.kaja >= 0 /\ m.andy >= 0
            /\ m.rates.personal + m.rates.operational + m.rates.fun + m.rates.noFun = 100

\* A reader remembers which of the months it may still meet stayed where they were.
Watched(touched) == walk' = IF walk = Nil THEN Nil ELSE [walk EXCEPT !.stayed = @ \ {touched}]

Create(i, m) ==
  /\ months[i] = Nil /\ Valid(m) /\ ~MonthTaken(m.month, i)
  /\ months' = [months EXCEPT ![i] = m] /\ UNCHANGED walk
\* A patch of a row that changes nothing writes nothing.
Update(i, m) ==
  /\ i \in Made /\ Valid(m) /\ (m.month # months[i].month => ~MonthTaken(m.month, i))
  /\ months' = [months EXCEPT ![i] = m]
  /\ IF m.month = months[i].month THEN UNCHANGED walk ELSE Watched(i)
Delete(i) ==
  /\ i \in Made /\ months' = [months EXCEPT ![i] = Nil] /\ Watched(i)

\* Slip: the cursor's own month again.
PageAgain(cursor) ==
  LET rest == {i \in Made : cursor = Nil \/ months[i].month <= cursor}
  IN {i \in rest : Cardinality({j \in rest : months[j].month > months[i].month}) < PageSize}
\* List: the newest months before the cursor, and a cursor when there are more.
Page(cursor) ==
  LET rest == {i \in Made : cursor = Nil \/ months[i].month < cursor}
  IN {i \in rest : Cardinality({j \in rest : months[j].month > months[i].month}) < PageSize}
NextCursor(cursor, page) ==
  LET last == Min({months[i].month : i \in page})
  IN IF \E i \in Made : (cursor = Nil \/ months[i].month < cursor) /\ months[i].month < last THEN last ELSE Nil

List ==
  LET cursor == IF walk = Nil THEN Nil ELSE walk.cursor
      page == Page(cursor)
      next == IF page = {} THEN Nil ELSE NextCursor(cursor, page)
      shown == [i \in Ids |-> (IF walk = Nil THEN 0 ELSE walk.shown[i]) + (IF i \in page THEN 1 ELSE 0)]
  IN /\ IF walk = Nil THEN TRUE ELSE walk.cursor # Nil
     /\ walk' = [cursor |-> next, shown |-> shown, stayed |-> IF walk = Nil THEN Made ELSE walk.stayed]
     /\ UNCHANGED months
\* The reader starts over.
Reopen ==
  /\ IF walk = Nil THEN FALSE ELSE walk.cursor = Nil
  /\ walk' = Nil /\ UNCHANGED months

FinanceNext ==
  \/ \E i \in Ids, month \in Months, kaja, andy \in Incomes, r \in Rates :
       LET m == [month |-> month, kaja |-> kaja, andy |-> andy, rates |-> r] IN Create(i, m) \/ Update(i, m)
  \/ \E i \in Ids : Delete(i)
  \/ List \/ Reopen

FinanceSpec == FinanceInit /\ [][FinanceNext]_financeVars

----------------------------------------------------------------------------
(* Properties. *)

\* Nothing of a month's income is lost or made up: it is what goes to the two persons,
\* to savings and to what is needed, exactly; what is needed may fall below its share of
\* the income, or below zero, by two at most (split.go:26-41).  The months said to be missing are those
\* within reach that follow a recorded one and are not recorded.  And whoever reads the
\* list to its end was shown every month that stayed where it was once, whatever
\* happened to the others meanwhile.
MonthsAddUp ==
  /\ \A i \in Made : \A s \in Compute(months[i]) :
       LET income == months[i].kaja + months[i].andy
       IN /\ s.personalKaja + s.personalAndy + s.fun + s.noFun + s.needs = income
          /\ 100 * s.needs >= income * months[i].rates.operational - 200
  /\ \A today \in Months : MissingMonths(today) =
       {x \in today - Lookback .. today : /\ \A i \in Made : months[i].month # x
                                          /\ \E i \in Made : months[i].month < x}
  /\ walk # Nil => \A i \in walk.stayed :
       IF walk.cursor = Nil THEN walk.shown[i] = 1 ELSE walk.shown[i] <= 1
=============================================================================
