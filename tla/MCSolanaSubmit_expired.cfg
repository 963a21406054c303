SPECIFICATION Spec
CONSTANTS
  Attempts = {a1}
  Window = 1
  MaxBlocks = 3
CHECK_DEADLOCK FALSE
INVARIANT ExpiredWasNotConfirmed
