SPECIFICATION Spec
CONSTANTS
  a = a
  b = b
  caller = caller
  number = number
  Runners = {a, b}
  Fields = {caller, number}
  Fixtures <- MCFixtures
  None = none
INVARIANTS TypeOK UndisturbedPassesHavePost
PROPERTIES SweepsEndEachOther
