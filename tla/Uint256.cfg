CONSTANTS
  Limbs = 3
  LimbBits = 2
SPECIFICATION Spec
PROPERTY ResultIsRight
CHECK_DEADLOCK FALSE
