SPECIFICATION QmpLive
CONSTANTS
  Monitored = {v1}
  RunStates <- MCTwoStates
  Interval = 1
  QmpMaxTime = 4
INVARIANTS
  OnePoll
PROPERTIES
  ShownWasReal
  AnswersAdvance
  TicksComplete
CHECK_DEADLOCK FALSE
