SPECIFICATION Spec
CONSTANTS
  Pages = {a, b, c, d}
  MaxPage = 3
  LookupSteps = 2
  MaxEvent = 2
  MaxWrite = 1
  Calls = {"Read","Write","ReadSync"}
SYMMETRY PageSymmetry
CHECK_DEADLOCK FALSE
INVARIANTS IndexConsistent LookupFinds PreadsLand
