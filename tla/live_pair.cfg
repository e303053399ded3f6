SPECIFICATION Spec
CHECK_DEADLOCK FALSE
CONSTANTS
  mandate = mandate
  network = network
  overdue = overdue
  phone = phone
  Case = {mandate, network}
  AttemptWindow = 4320
  MaxAttempts = 2
  Cooldown = 240
  CaseExpiry = 20160
  FinalFollowup = 10080
  AutoActionCap = 2500000
  QuietStart = 22
  QuietEnd = 8
  Ladder <- MCLadder
  SalarySlots = {}
  VoiceMinAmount = 2500000
  ClassOf <- MCClassOf
  AmountOf <- MCAmountOf
  CustomerOf <- MCCustomerOf
  TimePoints <- MCPairTimes
  PromiseTimes <- MCPromises
  IngestUntil = 700
  MaxActions = 2
  MaxRestarts = 0
  EventIdInBody = FALSE
  VoiceMayFail = FALSE
INVARIANTS
  TypeOK
  ScheduledIsActive
  ChargesApproved
  MoneyAgrees
  CheckMatchesPromise
