SPECIFICATION SequenceSpec
CONSTANTS
  Calls <- MCCalls
  Zero = Zero
  None = None
INVARIANTS
  SequenceTypeOK
  OutputsAreAlone
  StatesAreAlone
