SPECIFICATION PartsSpec
CHECK_DEADLOCK FALSE
CONSTANTS
  AttemptWindow = 4320
  MaxAttempts = 3
  Cooldown = 240
  CaseExpiry = 20160
  FinalFollowup = 10080
  AutoActionCap = 2500000
  QuietStart = 22
  QuietEnd = 8
  Profiles <- MCProfiles
  Types <- MCTypes
  Instants <- MCInstants
  NextDelays <- MCNextDelays
  Thread = {t1, t2}
  MaxEvents = 4
  MaxProcesses = 1
  Client = {c1, c2}
  Limit = 2
  Window = 3
  EvictAt = 2
  LastTick = 4
  MaxChecks = 7
  Processor = {p1, p2}
  MaxDeliveries = 4
  MonthDays <- MCMonths
  Replies <- MCReplies
  ReplyTimes <- MCReplyTimes
  Values <- MCValues
  HandlingTimes <- MCHandlingTimes
  Capacities <- MCCapacities
  Short <- MCShort
  MaxPending = 3
  Baseline = 78
  Drift = 2
  Threshold = 500
  Rates <- MCRates
  MaxObservations = 8
  ChannelLimit <- MCChannelLimit
  DefaultTotal = 3
  Totals <- MCTotals
  Executed = {"sms", "other"}
  MaxRows = 3
  MaxBatches = 2
  MaxResets = 1
  MaxUpdates = 1
  Requester = {q1, q2}
  CacheTtl = 2
  InstallLag = 1
  LastInstant = 8
  MaxAnswers = 3
  MayGive <- MCMayGive
  Methods = {"card"}
  Classes = {"HARD_DECLINE", "NETWORK_TIMEOUT"}
  FailureTimes = {0, 1, 2, 3, 4}
  WindowHours = 2
  MinSamples = 2
  BaselineSets <- MCBaselineSets
  MaxFailures = 4
  WindowSize = 6
  Recent = 3
  MaxOutcomes = 10
  Ladder <- MCLadder
  SalarySlots = {}
  VoiceMinAmount = 2500000
  Texts <- MCTexts
  Opinions <- MCOpinions
  Dossiers <- MCDossiers
  Moments <- MCMoments
  CaseClass = {"HARD_DECLINE", "NETWORK_TIMEOUT"}
  Amounts = {100000, 500000}
  Payments = {0, 100000}
  ContactCost <- MCContactCost
  ActionTypes = {"nudge_sms", "retry_charge"}
  Stratum = 2
  Treated = 1
  MaxCases = 3
  MaxSteps = 2
SYMMETRY Interchangeable
INVARIANTS
  PartsTypeOK
  SoundUnlessRaced
  VerdictPinsHistory
  AdmitsByTheWindow
  NoneLostNorTwice
  DueAsMeant
  SelectionIsOptimal
  SumsAreLargestExcess
  BudgetConserved
  CountedInEveryBatch
  OldRatesOnlyAfterFailure
  TornOnlyByClash
  DegradedByArrival
  OutageSeenWhileItBegins
  ClassIsOfTheWords
  InspectorShowsTheGate
  ChasedWithoutUpliftOnly
  NoActionIsEconomicStop
  EndpointsAgree
  BareLiftOfSmallStrata
PROPERTIES
  DeferralsAreTight
