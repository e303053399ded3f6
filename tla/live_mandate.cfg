SPECIFICATION FairSpec
CHECK_DEADLOCK FALSE
CONSTANTS
  mandate = mandate
  network = network
  overdue = overdue
  phone = phone
  Case = {mandate}
  AttemptWindow = 4320
  MaxAttempts = 2
  Cooldown = 240
  CaseExpiry = 20160
  FinalFollowup = 10080
  AutoActionCap = 2500000
  QuietStart = 22
  QuietEnd = 8
  Ladder <- MCLadder
  SalarySlots = {}
  VoiceMinAmount = 2500000
  ClassOf <- MCClassOf
  AmountOf <- MCAmountOf
  CustomerOf <- MCCustomerOf
  TimePoints <- MCTimes
  PromiseTimes <- MCTomorrow
  IngestUntil = 700
  MaxActions = 3
  MaxRestarts = 1
  EventIdInBody = FALSE
  VoiceMayFail = FALSE
INVARIANTS
  NoticePrecedesAttempts
PROPERTIES
  ImplementsContract
  ScheduledSettles
