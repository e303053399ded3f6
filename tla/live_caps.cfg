SPECIFICATION Spec
CHECK_DEADLOCK FALSE
CONSTANTS
  mandate = mandate
  network = network
  overdue = overdue
  phone = phone
  Case = {overdue}
  AttemptWindow = 4320
  MaxAttempts = 2
  Cooldown = 240
  CaseExpiry = 20160
  FinalFollowup = 10080
  AutoActionCap = 2500000
  QuietStart = 22
  QuietEnd = 8
  Ladder <- MCLadder
  SalarySlots = {}
  VoiceMinAmount = 2500000
  ClassOf <- MCClassOf
  AmountOf <- MCAmountOf
  CustomerOf <- MCCustomerOf
  TimePoints <- MCCapsTimes
  PromiseTimes <- MCTomorrow
  IngestUntil = 300
  MaxActions = 3
  MaxRestarts = 2
  EventIdInBody = FALSE
  VoiceMayFail = TRUE
INVARIANTS
  AttemptsSpaced
  AttemptsCapped
PROPERTIES
  OptOutIsFinal
