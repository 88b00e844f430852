SPECIFICATION Spec
CONSTANTS
  Epsilon = Epsilon
  Unbounded = Unbounded
  Hirs <- MCHirs
  Alphabet = {"a", "b", "c"}
  MaxWord = 5
  Jobs <- MCJobs
  NoDfa = NoDfa
  Tip = Tip
INVARIANTS TypeOK AcceptsThePattern IsMinimal EveryResultIsAMatch EveryMatchEndIsFound NothingTwice
PROPERTIES SearchEnds
CHECK_DEADLOCK FALSE
