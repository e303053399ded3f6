SPECIFICATION Spec
CHECK_DEADLOCK FALSE
CONSTANTS
  AttemptWindow = 4320
  MaxAttempts = 3
  Cooldown = 240
  CaseExpiry = 20160
  FinalFollowup = 10080
  AutoActionCap = 2500000
  QuietStart = 22
  QuietEnd = 8
  Class = "MANDATE_ISSUE"
  Amount = 600000
  Planned <- MCPlanned
  TimePoints <- MCTimes
  MaxRequests = 2
  MaxUnanswered = 1
  MaxRestarts = 1
INVARIANTS
  SentOnce
  StopHoldsUntilLost
PROPERTIES
  SafeUntilLost
