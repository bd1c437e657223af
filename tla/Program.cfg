SPECIFICATION MCSpec
CONSTANTS
  Threads = {t1, t2, t3, t4}
  Harnesses <- CheckedHarnesses
  Shims <- CheckedShims
  NULL = NULL
INVARIANTS
  ProgramInv
  MutualExclusion
  NoTaskOutlivesTest
  ReportExact
  OverrunOnlyIfUneven
PROPERTIES
  MainReturns
CHECK_DEADLOCK FALSE
