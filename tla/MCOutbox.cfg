\* Two events, one with a handler.
SPECIFICATION FairSpec
CONSTANTS
  e1 = e1
  unknown = unknown
  Events = {e1, unknown}
  Registered = {e1}
  MaxRetries = 2
  BatchSize = 1
CHECK_DEADLOCK FALSE
INVARIANT TypeOK
INVARIANT OutcomeIsTrue
INVARIANT DeadLetterIsExhausted
PROPERTY FinishedStaysFinished
PROPERTY EventSettles
