CONSTANTS
  Modulus = 3
  MaxJump = 2
  MaxFv = 5
SPECIFICATION Spec
INVARIANTS WindowExact
PROPERTIES PromiseSpec
CHECK_DEADLOCK FALSE
