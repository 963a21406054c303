SPECIFICATION FairSpec
CONSTANTS
  Attempts = {a1, a2}
  Window = 2
  MaxBlocks = 5
CHECK_DEADLOCK FALSE
INVARIANTS TypeOK SuccessIsConfirmed
PROPERTIES ExpiredIsFinal SuccessSettlesRetries ContractSpec PollTerminates
