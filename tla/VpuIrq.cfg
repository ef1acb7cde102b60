CONSTANTS
  Signals = TRUE
  LateAnswers = TRUE
SPECIFICATION Spec
INVARIANTS
  NoMissedInterrupt
  CleanBetweenCommands
  HonestResults
PROPERTY WaitEnds
