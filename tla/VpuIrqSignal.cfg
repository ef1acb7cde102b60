CONSTANTS
  Signals = TRUE
  LateAnswers = FALSE
SPECIFICATION Spec
INVARIANT TimeoutMeansTimeout
