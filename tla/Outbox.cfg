SPECIFICATION FairOutboxSpec
CONSTANTS
  w1 = w1
  w2 = w2
  Writer = {w1, w2}
  MaxId = 4
  Batch = 2
  MaxBreaks = 2
INVARIANTS CursorSkipsNothing FewRedeliveries
PROPERTIES Promised EventuallyPassed
