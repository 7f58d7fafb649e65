SPECIFICATION MoneySpec
CHECK_DEADLOCK FALSE
CONSTANTS
  Reviewers = {v1, v2}
  Submissions = {s1}
  Unit = 2
  MaxTime = 3
INVARIANTS
  RefusedMeansChanged
