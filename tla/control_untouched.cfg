SPECIFICATION Spec
CONSTANTS
  AttemptWindow = 4320
  MaxAttempts = 3
  Cooldown = 240
  CaseExpiry = 20160
  FinalFollowup = 10080
  AutoActionCap = 2500000
  QuietStart = 22
  QuietEnd = 8
  Ladder <- MCLadder
  SalarySlots = {}
  VoiceMinAmount = 2500000
  control = control
  capped = capped
  invoice = invoice
  Batch <- MCBatch
  ClassOf <- MCClassOf
  AmountOf <- MCAmountOf
  DebitOf <- MCDebitOf
  FailedAt <- MCFailedAt
  Controls <- MCControls
  OptedOut = {}
  HorizonDays = 7
  OrganicDelays <- MCOrganic
  PromiseDays <- MCPromiseDays
  Instants <- MCInstants
INVARIANTS
  ControlUntouched
