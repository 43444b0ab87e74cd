SPECIFICATION HouseholdSpec
CONSTANTS
  i1 = i1 i2 = i2 b1 = b1
  spring = spring later = later bare = bare
  None = None
  Gone = Gone
  Blank = Blank
  Nil = Nil
  Years = {1, 2}
  Plants = {q1}
  Varieties = {v1}
  Plantings = {i1, i2}
  Chores = {h1}
  BedOrder <- OneBed
  Cores = {spring, later, bare}
  Core <- ThreeCores
  Frosts = {100, 110}
  Days = {90}
  ThisYear = 1
  MaxDay = 300
  MaxPicked = 1
  MaxTyped = 1
  WeekMonday <- Monday
  NoRow = NoRow
  Boards = {b1}
  Columns = {k1, k2}
  Cards = {c1, c2, c3}
  Labels = {l1}
  Names = {t1}
  Items = {e1}
  Base = 3
  MaxKey = 2
  LastDay = 6
  ReadOn = {0, 2, 3, 4, 6}
  From = {0, 2, 4}
  MonthLen = 3
  YearLen = 6
  Scale = 2
  Koruna = 2
  Register <- Registers
  Price <- PriceLists
  Schedule <- Schedules
  Paid = {1}
  Span <- Spans
  Months = {1, 2, 3, 4}
  Ids = {c1, c2, c3}
  Incomes = {0, 25}
  Rates <- TwoSplits
  PageSize = 1
  Lookback = 2
  Scenes = {"seasons"}
PROPERTY ClosedUntilReopened
CONSTRAINT OneThing
CHECK_DEADLOCK FALSE
