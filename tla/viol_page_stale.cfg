SPECIFICATION Spec
CONSTANTS
  Pages = {a, b, c}
  MaxPage = 6
  LookupSteps = 20
  MaxEvent = 1
  MaxWrite = 1
  Calls = {"Read","Write"}
SYMMETRY PageSymmetry
CHECK_DEADLOCK FALSE
INVARIANT ReadsFresh
