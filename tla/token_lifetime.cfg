\* An access token of three seconds, a session of four, four ticks to the second,
\* two logouts.
SPECIFICATION SessionSpec
CONSTANTS
  r1 = r1  r2 = r2
  TicksPerSecond = 4
  Lifetime = 3
  RefreshLifetime = 4
  Logouts = {r1, r2}
  MaxDelay = 6
  Horizon = 24
SYMMETRY Symmetry
INVARIANTS GapUnderOneSecond EntryEndsWithToken SessionLastsAsPromised SessionEndsWithToken
\* The clock stops at Horizon.
CHECK_DEADLOCK FALSE
