----------------------------- MODULE Electricity -----------------------------
(***************************************************************************)
(* The electricity accounts (backend/internal/modules/electricity): meter  *)
(* readings of two registers, price lists, the schedule of advances, the   *)
(* payments made and the billing periods, each kept consistent by the      *)
(* guards of its own edits; and the summary and the history that are       *)
(* computed from all five on every read.                                   *)
(*                                                                         *)
(* A reading, a price list and an advance are the only ones of their day,  *)
(* a payment of its month: each table is a function of it.  Every edit is  *)
(* one transaction.  A summary reads the tables one by one; they are       *)
(* edited independently, so what a torn read puts together is a state of   *)
(* this module as well.  Days are counted, and months are of one length.   *)
(***************************************************************************)
EXTENDS Integers, FiniteSets, FiniteSetsExt

CONSTANTS
  Blank,
  LastDay,    \* a bound
  ReadOn, From,  \* bounds: the days of readings, of price lists and of advances
  MonthLen, YearLen,
  Scale,      \* dkwhPerMWh: what a price is the price of
  Koruna,     \* halers in a koruna
  Register,   \* the states of the two registers, of records [vt, nt]
  Price,      \* price lists, of records [vt, nt, fee]
  Schedule,   \* advances, of records [amount, due]
  Paid,       \* amounts paid
  Span        \* bounds: the periods entered, of records [from, to], to may be Blank

MeterDay       == 0..LastDay
MonthOf(d) == d \div MonthLen
First(m)  == m * MonthLen
Month     == 0..MonthOf(LastDay)

VARIABLES
  readings, tariffs, advances,  \* per day: the row of that day, or Blank
  payments,                     \* per month: the amount, or Blank
  periods                       \* the billing periods, first and last day

ledger == <<readings, tariffs, advances, payments, periods>>

\* defaultEndsOn: a year less a day.
Entered(s) == IF s.to = Blank THEN [s EXCEPT !.to = s.from + YearLen - 1] ELSE s

\* What is taken of the constants: the amounts are numbers, and the marker is none of them.
LedgerConstants ==
  /\ LastDay \in Nat /\ ReadOn \subseteq MeterDay /\ From \subseteq MeterDay
  /\ MonthLen \in Nat \ {0} /\ YearLen \in Nat /\ Scale \in Nat \ {0} /\ Koruna \in Nat \ {0}
  /\ Register \subseteq [vt : Nat, nt : Nat] /\ Price \subseteq [vt : Nat, nt : Nat, fee : Nat]
  /\ Schedule \subseteq [amount : Nat, due : Nat] /\ Paid \subseteq Nat
  /\ Span \subseteq [from : Nat, to : Nat \cup {Blank}] /\ \A s \in Span : Entered(s).to < LastDay
  /\ Blank \notin Int \cup Register \cup Price \cup Schedule

LedgerInit ==
  /\ readings = [d \in MeterDay |-> Blank] /\ tariffs = [d \in MeterDay |-> Blank]
  /\ advances = [d \in MeterDay |-> Blank] /\ payments = [m \in Month |-> Blank]
  /\ periods = {}

Rows(table) == {d \in DOMAIN table : table[d] # Blank}

\* An edit moves the row of d to e, when no other row is there.
Free(table, d, e)  == table[e] = Blank \/ e = d
Moved(table, d, e, row) == [table EXCEPT ![d] = Blank, ![e] = row]

----------------------------------------------------------------------------
(* Readings. *)

NoLess(r, s) == r.vt <= s.vt /\ r.nt <= s.nt

\* NeighbourReadings, of which a reading is its own neighbour never.
ReadBefore(d, own) == {e \in Rows(readings) \ {own} : e < d}
ReadAfter(d, own)  == {e \in Rows(readings) \ {own} : e > d}

\* checkMonotonic: against the nearest on either side only.
Monotonic(d, r, own) ==
  /\ ReadBefore(d, own) # {} => NoLess(readings[Max(ReadBefore(d, own))], r)
  /\ ReadAfter(d, own) # {} => NoLess(r, readings[Min(ReadAfter(d, own))])

CreateReading(d, r) ==
  /\ readings[d] = Blank /\ Monotonic(d, r, Blank)
  /\ readings' = [readings EXCEPT ![d] = r]
  /\ UNCHANGED <<tariffs, advances, payments, periods>>

UpdateReading(d, e, r) ==
  /\ readings[d] # Blank
  /\ e # d \/ r # readings[d] => Free(readings, d, e) /\ Monotonic(e, r, d)
  /\ readings' = Moved(readings, d, e, r)
  /\ UNCHANGED <<tariffs, advances, payments, periods>>

DeleteReading(d) ==
  /\ readings[d] # Blank /\ readings' = [readings EXCEPT ![d] = Blank]
  /\ UNCHANGED <<tariffs, advances, payments, periods>>

----------------------------------------------------------------------------
(* Price lists. *)

\* tariffOn, advanceOn: the day of the row in force on d.
InForce(table, d) ==
  LET S == {e \in Rows(table) : e <= d} IN IF S = {} THEN Blank ELSE Max(S)

\* The periods that only this price list covers from their first day.
PeriodsNeedingTariff(d) ==
  {p \in periods : d <= p.from /\ \A e \in Rows(tariffs) \ {d} : e > p.from}

CreateTariff(d, t) ==
  /\ tariffs[d] = Blank /\ tariffs' = [tariffs EXCEPT ![d] = t]
  /\ UNCHANGED <<readings, advances, payments, periods>>

\* Slip: a moved price list is not asked which periods it leaves.
UpdateTariffFreely(d, e, t) ==
  /\ tariffs[d] # Blank /\ Free(tariffs, d, e)
  /\ tariffs' = Moved(tariffs, d, e, t)
  /\ UNCHANGED <<readings, advances, payments, periods>>

UpdateTariff(d, e, t) ==
  /\ tariffs[d] # Blank
  /\ e # d => Free(tariffs, d, e) /\ \A p \in PeriodsNeedingTariff(d) : e <= p.from
  /\ tariffs' = Moved(tariffs, d, e, t)
  /\ UNCHANGED <<readings, advances, payments, periods>>

DeleteTariff(d) ==
  /\ tariffs[d] # Blank /\ PeriodsNeedingTariff(d) = {}
  /\ tariffs' = [tariffs EXCEPT ![d] = Blank]
  /\ UNCHANGED <<readings, advances, payments, periods>>

----------------------------------------------------------------------------
(* Advances and payments. *)

CreateAdvance(d, a) ==
  /\ advances[d] = Blank /\ advances' = [advances EXCEPT ![d] = a]
  /\ UNCHANGED <<readings, tariffs, payments, periods>>

UpdateAdvance(d, e, a) ==
  /\ advances[d] # Blank /\ Free(advances, d, e)
  /\ advances' = Moved(advances, d, e, a)
  /\ UNCHANGED <<readings, tariffs, payments, periods>>

DeleteAdvance(d) ==
  /\ advances[d] # Blank /\ advances' = [advances EXCEPT ![d] = Blank]
  /\ UNCHANGED <<readings, tariffs, payments, periods>>

CreatePayment(m, k) ==
  /\ payments[m] = Blank /\ payments' = [payments EXCEPT ![m] = k]
  /\ UNCHANGED <<readings, tariffs, advances, periods>>

UpdatePayment(m, n, k) ==
  /\ payments[m] # Blank /\ Free(payments, m, n)
  /\ payments' = Moved(payments, m, n, k)
  /\ UNCHANGED <<readings, tariffs, advances, periods>>

DeletePayment(m) ==
  /\ payments[m] # Blank /\ payments' = [payments EXCEPT ![m] = Blank]
  /\ UNCHANGED <<readings, tariffs, advances, periods>>

----------------------------------------------------------------------------
(* Billing periods. *)

Overlaps(p, q) == p.from <= q.to /\ q.from <= p.to

CreatePeriod(p) ==
  /\ p.from <= p.to /\ \A q \in periods : ~Overlaps(p, q)
  /\ periods' = periods \cup {p}
  /\ UNCHANGED <<readings, tariffs, advances, payments>>

UpdatePeriod(p, q) ==
  /\ p \in periods /\ q.from <= q.to
  /\ \A o \in periods \ {p} : ~Overlaps(q, o)
  /\ periods' = (periods \ {p}) \cup {q}
  /\ UNCHANGED <<readings, tariffs, advances, payments>>

DeletePeriod(p) ==
  /\ p \in periods /\ periods' = periods \ {p}
  /\ UNCHANGED <<readings, tariffs, advances, payments>>

LedgerNext ==
  \/ \E d \in ReadOn, r \in Register : CreateReading(d, r)
  \/ \E d, e \in ReadOn, r \in Register : UpdateReading(d, e, r)
  \/ \E d \in MeterDay : DeleteReading(d)
  \/ \E d \in From, t \in Price : CreateTariff(d, t)
  \/ \E d, e \in From, t \in Price : UpdateTariff(d, e, t)
  \/ \E d \in MeterDay : DeleteTariff(d)
  \/ \E d \in From, a \in Schedule : CreateAdvance(d, a)
  \/ \E d, e \in From, a \in Schedule : UpdateAdvance(d, e, a)
  \/ \E d \in MeterDay : DeleteAdvance(d)
  \/ \E m \in Month, k \in Paid : CreatePayment(m, k)
  \/ \E m, n \in Month, k \in Paid : UpdatePayment(m, n, k)
  \/ \E m \in Month : DeletePayment(m)
  \/ \E s \in Span : CreatePeriod(Entered(s))
  \/ \E p \in periods, s \in Span : UpdatePeriod(p, Entered(s))
  \/ \E p \in periods : DeletePeriod(p)

LedgerSpec == LedgerInit /\ [][LedgerNext]_ledger

----------------------------------------------------------------------------
(* What a period cost. *)

\* Half away from zero.
DivRound(n, den) == IF n >= 0 THEN (n + den \div 2) \div den ELSE -((den \div 2 - n) \div den)

\* The pieces of [from, to) between the days of `cuts'.
Pieces(from, to, cuts) ==
  LET starts == IF from < to THEN {from} \cup {c \in cuts : from < c /\ c < to} ELSE {}
  IN {<<a, Min({to} \cup {b \in starts : b > a})>> : a \in starts}

Firsts == {First(m) : m \in Month}

\* Slip: a month has the fee of its first day.
FeeChunksByMonth(from, to) == Pieces(from, to, Firsts)

\* feeChunks: a month's fee by the days of it, under the price list of each.
FeeChunks(from, to) == Pieces(from, to, Firsts \cup Rows(tariffs))
FeeOf(chunk) ==
  LET t == InForce(tariffs, chunk[1]) IN
  IF t = Blank THEN 0 ELSE DivRound(tariffs[t].fee * (chunk[2] - chunk[1]), MonthLen)
Fees(chunks) == SumFunction([chunk \in chunks |-> FeeOf(chunk)])

\* readingsInPeriod: the reading of the day after the last closes the period.
ReadingsIn(p) == {d \in Rows(readings) : p.from <= d /\ d <= p.to + 1}
HasOpening(p) == p.from \in ReadingsIn(p)
Covered(p)    == InForce(tariffs, p.from) # Blank

\* Between two readings in a row: what the registers moved by.
Gaps(p)  == LET R == ReadingsIn(p) IN {g \in R \X R : g[1] < g[2] /\ \A d \in R : ~(g[1] < d /\ d < g[2])}
VT(g)    == readings[g[2]].vt - readings[g[1]].vt
NT(g)    == readings[g[2]].nt - readings[g[1]].nt

\* firstTariffStrictlyInside
Straddles(g) == \E e \in Rows(tariffs) : g[1] < e /\ e < g[2]

\* BuildIntervals: priced up to the first gap a change of price lies strictly inside.
Blocked(p) == {g \in Gaps(p) : Straddles(g)}
Intervals(p) ==
  IF HasOpening(p) /\ Covered(p)
  THEN {g \in Gaps(p) : \A h \in Blocked(p) : g[2] <= h[1]} ELSE {}

EnergyOf(g) ==
  LET t == tariffs[InForce(tariffs, g[1])] IN DivRound(VT(g) * t.vt + NT(g) * t.nt, Scale)

\* measureActual
LastActual(p) == Max({p.from} \cup {g[2] : g \in Intervals(p)})
Actual(p) ==
  [vt |-> SumFunction([g \in Intervals(p) |-> VT(g)]), nt |-> SumFunction([g \in Intervals(p) |-> NT(g)]),
   energy |-> SumFunction([g \in Intervals(p) |-> EnergyOf(g)]), fee |-> Fees(FeeChunks(p.from, LastActual(p)))]
Basis(p)   == IF Blocked(p) # {} THEN LastActual(p) ELSE Max(ReadingsIn(p))
Elapsed(p) == Basis(p) - p.from
Closed(p)  == Basis(p) = p.to + 1

\* setBlockedStatus, project
Status(p) ==
  CASE ~HasOpening(p) -> "blocked"
    [] HasOpening(p) /\ ~Covered(p) -> "insufficient_data"
    [] HasOpening(p) /\ Covered(p) /\ Blocked(p) # {} -> "blocked"
    [] OTHER -> IF Closed(p) THEN "complete" ELSE IF Elapsed(p) >= 1 THEN "ok" ELSE "insufficient_data"
Priced(p) == Status(p) \in {"ok", "complete"}

\* buildForecast: the average so far, under the price list of each day to come.
Average(a, d) == LET t == tariffs[InForce(tariffs, d)] IN a.vt * t.vt + a.nt * t.nt
ForecastEnergy(p) ==
  LET a == Actual(p)
      elapsed == Elapsed(p)
  IN SumFunction([run \in Pieces(Basis(p), p.to + 1, Rows(tariffs)) |->
                    DivRound((run[2] - run[1]) * Average(a, run[1]), elapsed * Scale)])

\* The fee to come is the fee of the period less the fee so far.
FeeTotal(p) == Fees(FeeChunks(p.from, p.to + 1))
Forecast(p) ==
  IF Status(p) = "ok" THEN [energy |-> ForecastEnergy(p), fee |-> FeeTotal(p) - Actual(p).fee]
  ELSE [energy |-> 0, fee |-> 0]
CostTotal(p) ==
  LET a == Actual(p) f == Forecast(p) IN a.energy + a.fee + f.energy + f.fee

\* countedMonths: those whose first day lies in the period; a payment is counted for
\* the advance of its month, which falls due on the schedule's day or the month's last.
Counted(p) == {m \in Month : p.from <= First(m) /\ First(m) <= p.to}
AmountOf(m) ==
  LET a == InForce(advances, First(m)) IN
  IF payments[m] # Blank THEN payments[m] ELSE IF a # Blank THEN advances[a].amount ELSE 0
DueOn(m) ==
  LET a == InForce(advances, First(m)) IN
  First(m) + (IF a # Blank THEN Min({advances[a].due, MonthLen}) ELSE MonthLen) - 1
DueBy(p, today) == {m \in Counted(p) : DueOn(m) <= today}
Advances(ms) == SumFunction([m \in ms |-> AmountOf(m)])
AdvancesTotal(p) == Advances(Counted(p))
AdvancesDue(p, today) == Advances(DueBy(p, today))

\* settle
Balance(p) == AdvancesTotal(p) - CostTotal(p)

\* recommendedAdvanceKc: in whole koruny, of each month that is not due yet.
Recommended(p, cost, today) ==
  LET left == Cardinality(Counted(p)) - Cardinality(DueBy(p, today))
      open == cost - AdvancesDue(p, today)
  IN IF left <= 0 THEN Blank
     ELSE IF open <= 0 THEN 0 ELSE (open + left * Koruna - 1) \div (left * Koruna)

\* buildHeadroom: what today's advance buys beyond today's fee.
RowOn(table, p, today) ==
  IF InForce(table, today) # Blank THEN InForce(table, today) ELSE InForce(table, p.from)
Budget(p, today) ==
  LET t == RowOn(tariffs, p, today) a == RowOn(advances, p, today) IN
  IF t = Blank \/ a = Blank THEN Blank ELSE Max({0, advances[a].amount - tariffs[t].fee})
Buys(p, today) ==
  LET t == tariffs[RowOn(tariffs, p, today)] IN
  IF t.vt > 0 THEN DivRound(Budget(p, today) * Scale, t.vt) ELSE 0

\* BuildHistory: every interval spread over its months by their days.
Share(g, m, n) ==
  LET days == Cardinality({d \in g[1]..(g[2] - 1) : MonthOf(d) = m})
  IN DivRound(n * days, g[2] - g[1])
HistoryVT(p, m)   == SumFunction([g \in Intervals(p) |-> Share(g, m, VT(g))])
HistoryFees(p, m) == Fees({c \in FeeChunks(p.from, LastActual(p)) : MonthOf(c[1]) = m})

----------------------------------------------------------------------------
(* Properties. *)

\* Whatever order the rows are entered, moved and deleted in, a register never runs
\* backwards, and no day belongs to two periods.
MeterRunsForwards ==
  /\ \A d, e \in Rows(readings) : d <= e => NoLess(readings[d], readings[e])
  /\ \A p, q \in periods : p # q => ~Overlaps(p, q)

Abs(n) == IF n < 0 THEN -n ELSE n

\* What the registers say was used in [from, to) under each price list, by the
\* readings of the days it was changed on, times Scale.
Segment(s) == LET t == tariffs[InForce(tariffs, s[1])] IN VT(s) * t.vt + NT(s) * t.nt
Metered(from, to) == SumFunction([s \in Pieces(from, to, Rows(tariffs)) |-> Segment(s)])

\* The same for the days to come at the average so far, times Scale and Elapsed.
Projected(p) == LET a == Actual(p) IN SumFunction([d \in Basis(p)..p.to |-> Average(a, d)])

MonthlyFee(d) == LET t == InForce(tariffs, d) IN IF t = Blank THEN 0 ELSE tariffs[t].fee
DailyFees(from, to) == SumFunction([d \in from..(to - 1) |-> MonthlyFee(d)])

\* A total is within half a haler per rounding of the exact amount.
Within(total, exact, den, roundings) == 2 * Abs(total * den - exact) <= den * roundings

\* A period that is priced is priced for every day of it, each under the price list of
\* that day: what was used from the registers' own states on the days the price
\* changed, what is to come at the average so far, and the fees by the day; each
\* rounded once per piece and no more.
PricedByTheDay ==
  \A p \in periods : Priced(p) =>
    LET actual == Actual(p) IN
    /\ Within(actual.energy, Metered(p.from, LastActual(p)), Scale, Cardinality(Intervals(p)))
    /\ Status(p) = "ok" =>
         Within(Forecast(p).energy, Projected(p), Scale * Elapsed(p),
                Cardinality(Pieces(Basis(p), p.to + 1, Rows(tariffs))))
    /\ Within(FeeTotal(p), DailyFees(p.from, p.to + 1), MonthLen, Cardinality(FeeChunks(p.from, p.to + 1)))
    /\ Forecast(p).fee >= 0 /\ actual.fee >= 0
    /\ Status(p) = "complete" <=> readings[p.to + 1] # Blank

\* The advance that is recommended, paid in the months still to pay, leaves the balance
\* of the period on the household's side, and a koruna a month less does not.
RecommendedCovers ==
  \A p \in periods : Priced(p) =>
    LET cost == CostTotal(p) balance == Balance(p) IN
    \A today \in MeterDay :
      LET left == Counted(p) \ DueBy(p, today)
          instead(k) == balance - Advances(left) + Cardinality(left) * k * Koruna
          k == Recommended(p, cost, today)
      IN k # Blank => instead(k) >= 0 /\ (k > 0 => instead(k - 1) < 0)

\* What the headroom says today's advance still buys costs what is left of it.
HeadroomFits ==
  \A p \in periods, today \in MeterDay : Budget(p, today) # Blank =>
    LET price == tariffs[RowOn(tariffs, p, today)].vt IN
    price > 0 => Within(Buys(p, today), Budget(p, today) * Scale, price, 1)

\* The months of the history add up to the measured span of the period: the fees to
\* the haler, what was used but for a rounding per month and interval.
HistoryAddsUp ==
  \A p \in periods : HasOpening(p) /\ Covered(p) =>
    LET actual == Actual(p)
        parts == {gm \in Intervals(p) \X Month : \E d \in gm[1][1]..(gm[1][2] - 1) : MonthOf(d) = gm[2]}
    IN /\ SumFunction([m \in Month |-> HistoryFees(p, m)]) = actual.fee
       /\ 2 * Abs(SumFunction([m \in Month |-> HistoryVT(p, m)]) - actual.vt) <= Cardinality(parts)

AccountsAddUp == MeterRunsForwards /\ PricedByTheDay /\ RecommendedCovers /\ HeadroomFits /\ HistoryAddsUp

\* No edit of a price list takes away the price of a period's first day, without which
\* nothing of the period can be computed (service.go:459-471, 506-523).
StaysCovered ==
  \A p \in periods \cap periods' : Covered(p) => (InForce(tariffs, p.from) # Blank)'
StaysPriced == [][StaysCovered]_ledger
=============================================================================
