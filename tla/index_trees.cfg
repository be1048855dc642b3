SPECIFICATION MCSpec
CONSTANTS
  Keys <- MCKeys
  Bounds = {1, 3, 4, 18, 37, 40}
  Order = 3
  Few = 9
  Many = 38
  Modulus = 41
  Strides = {1, 6, 12, 17, 25, 40}
CHECK_DEADLOCK FALSE
INVARIANTS RBBalanced RBIsSet BTBalanced BTIsSet
