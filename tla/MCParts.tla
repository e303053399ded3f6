------------------------------- MODULE MCParts -------------------------------
(***************************************************************************)
(* The parts of the agent that share no state with the others, explored    *)
(* one at a time: "part" says which, and the rest keep one idle state.     *)
(* Times of the policy gate are minutes from midnight UTC.                 *)
(***************************************************************************)
EXTENDS DeferralChain, AuditChain, RateLimiter, DiagnosisQueue, PromiseReply,
        Portfolio, Cusum, Spending, Currency, Degradation, NetworkHealth,
        Classifier, Decision, Report

VARIABLE part

-----------------------------------------------------------------------------
(* The gate: proposals at every quarter of an hour over a day and a half,  *)
(* at the minutes around both ends of the quiet window, and shortly before *)
(* a case expires.                                                         *)

Doc(class, amount, past) ==
  [status |-> "open", class |-> class, amount |-> amount, created |-> 0,
   attempts |-> past, approved |-> FALSE, optedOut |-> FALSE,
   notice |-> FALSE, paid |-> FALSE, promiseDue |-> NoTime]

MCProfiles ==
  {Doc("MANDATE_ISSUE", 600000, {}), Doc("NETWORK_TIMEOUT", 3000000, {}),
   Doc("INVOICE_OVERDUE", 100000, {0}), Doc("INVOICE_OVERDUE", 100000, {0, 700})}

(* 22:00 and 08:00 IST are 990 and 150 of the UTC day.                     *)
Edges == {d * Day + m : d \in 0 .. 1, m \in {149, 150, 151, 989, 990, 991}}
MCInstants ==
  {15 * k : k \in 0 .. 143} \cup Edges \cup {14 * Day - m : m \in {1, 300, 700, 1440}}
MCNextDelays == {200, 1440}
MCTypes == {"nudge_sms", "retry_payment_link", "escalate_human"}

(* Replies of at most two phrases, with a number or a weekday where one is *)
(* told, over December, January and February.                              *)
MCMonths == <<31, 31, 28>>
MCReplies ==
  {a \in [phrases : {P \in SUBSET Phrase : Cardinality(P) <= 2},
          number : {0, 1, 15, 28, 31}, weekday : {0, 3, 6}] :
     /\ a.number = 0 \/ a.phrases \cap {"tarikh", "din"} # {}
     /\ a.weekday = 0 \/ "weekday" \in a.phrases}
MCReplyTimes ==
  {d * OneDay + m : d \in {0, 1, 14, 26, 27, 28, 29, 30, 31, 45, 58, 61},
                    m \in {720, 1079, 1080, 1081, 1319, 1320, 1410}}

(* Cases of 0.005 to 0.43 hours against 0.58 and 0.6 hours: 0.58 h and two *)
(* cases of 0.29 h each lose a hundredth, 0.15 h and 0.43 h do not.        *)
MCValues == {0, 90, 100}
MCHandlingTimes == {5, 150, 290, 430}
MCCapacities == {580, 600}
MCShort == {290, 580}

MCRates == {0, 50, 100}

(* Answers with both rates or without one for the dollar.                  *)
MCMayGive == {Quoted, {"EUR"}}

(* A budget of three actions, two of them text messages; resets to one of  *)
(* one action and to a negative one.                                       *)
MCTotals == {-1, 1}
MCChannelLimit == [c \in Budgeted |-> IF c = "sms" THEN 2 ELSE 1]

(* No baseline, as in the service; one failure an hour in all; one of each *)
(* class.                                                                  *)
MCBaselineSets ==
  {[k \in Scopes |-> Absent], [k \in Scopes |-> IF k = "global" THEN 1 ELSE 0],
   [k \in Scopes |-> IF k \in Classes THEN 1 ELSE Absent]}

MCLadder == <<"nudge_whatsapp", "nudge_sms", "nudge_email">>

(* Words of two rules, or of a blocked card, a renewal and a third; one    *)
(* confident answer, one that is not, one of a class nobody knows, and     *)
(* three that cannot be read.                                              *)
MCTexts ==
  {T \in SUBSET {Rules[i].words : i \in DOMAIN Rules} :
     \/ Cardinality(T) <= 2
     \/ Cardinality(T) = 3 /\ {"blocked_card", "renewal_failed"} \subseteq T}
MCOpinions ==
  {[class |-> "HARD_DECLINE", confidence |-> 150], [class |-> "LATE_AUTH", confidence |-> 30],
   [class |-> "UNKNOWN", confidence |-> Unreadable], [class |-> "other", confidence |-> 90],
   [class |-> "unhashable", confidence |-> 90], [class |-> "no_object", confidence |-> 0]}

(* Every class around the amounts where a test turns, and the statuses;    *)
(* asked in the morning, in the quiet hours, late, and after the expiry.   *)
Attempted(class, amount, n) ==
  Doc(class, amount, {1000 * k : k \in 1 .. n})
MCDossiers ==
  {Attempted(c, a, n) : c \in FailureClass, a \in {4999, 5000, 17000, 18000, 3000000},
                        n \in 0 .. 5}
  \cup {[Attempted("MANDATE_ISSUE", 20000, 1) EXCEPT !.status = s, !.optedOut = o] :
          s \in Active \cup Closed, o \in BOOLEAN}
MCMoments == {6000, 6900, 19500, 21000}

MCContactCost ==
  [nudge_whatsapp |-> 30, nudge_sms |-> 15, nudge_email |-> 2, nudge_voice |-> 300]

(* Threads, clients, processors and requesters only differ by name.        *)
Interchangeable ==
  Permutations(Thread) \cup Permutations(Client) \cup Permutations(Processor)
  \cup Permutations(Requester)

-----------------------------------------------------------------------------
Among(p, chosen, idle) == IF part = p THEN chosen ELSE idle

PartsInit ==
  /\ part \in {"gate", "audit", "limiter", "queue", "reply", "portfolio", "cusum",
               "spending", "currency", "degradation", "network", "classifier",
               "decision", "report"}
  /\ Among("gate", ChainInit,
           /\ r = Doc("NETWORK_TIMEOUT", 3000000, {}) /\ type = "nudge_sms" /\ t = 0
           /\ visits = 1 /\ state = "pending")
  /\ Among("reply", ReplyInit,
           /\ reply = [phrases |-> {}, number |-> 0, weekday |-> 0] /\ arrived = 0
           /\ meaning = Unread)
  /\ Among("portfolio", PortfolioInit,
           /\ pending = <<>> /\ hours = 0
           /\ selected = [knapsack |-> NotYet, greedy |-> {}, done |-> FALSE])
  /\ Among("degradation", DegradationInit,
           /\ windows = [k \in Scopes |-> <<>>] /\ failures = <<>>
           /\ baselines = [k \in Scopes |-> Absent])
  /\ Among("classifier", ClassifierInit,
           /\ payment = [text |-> {}, given |-> "UNKNOWN", debit |-> FALSE,
                         vulcan |-> NoAnswer, llm |-> NoAnswer]
           /\ ingested = NotIngested /\ firstStep = Missing)
  /\ Among("decision", DecisionInit,
           /\ doc = Attempted("NETWORK_TIMEOUT", 18000, 0) /\ debit = FALSE /\ moment = 6000
           /\ inspection = [asked |-> FALSE, selected |-> {}, verdict |-> << >>]
           /\ weighing = [asked |-> FALSE, worthwhile |-> {}] /\ recheck = Unasked)
  /\ AuditInit /\ LimiterInit /\ QueueInit /\ CusumInit
  /\ SpendingInit /\ CurrencyInit /\ NetworkInit /\ ReportInit

GateSteps ==
  /\ part = "gate" /\ ChainNext
  /\ UNCHANGED <<part, auditVars, limiterVars, queueVars, replyVars,
                 portfolioVars, cusumVars, spendingVars, currencyVars,
                 degradationVars, networkVars, classifierVars, decisionVars,
                 reportVars>>
AuditSteps ==
  /\ part = "audit" /\ AuditNext
  /\ UNCHANGED <<part, chainVars, limiterVars, queueVars, replyVars,
                 portfolioVars, cusumVars, spendingVars, currencyVars,
                 degradationVars, networkVars, classifierVars, decisionVars,
                 reportVars>>
LimiterSteps ==
  /\ part = "limiter" /\ LimiterNext
  /\ UNCHANGED <<part, chainVars, auditVars, queueVars, replyVars,
                 portfolioVars, cusumVars, spendingVars, currencyVars,
                 degradationVars, networkVars, classifierVars, decisionVars,
                 reportVars>>
QueueSteps ==
  /\ part = "queue" /\ QueueNext
  /\ UNCHANGED <<part, chainVars, auditVars, limiterVars, replyVars,
                 portfolioVars, cusumVars, spendingVars, currencyVars,
                 degradationVars, networkVars, classifierVars, decisionVars,
                 reportVars>>
ReplySteps ==
  /\ part = "reply" /\ ReplyNext
  /\ UNCHANGED <<part, chainVars, auditVars, limiterVars, queueVars,
                 portfolioVars, cusumVars, spendingVars, currencyVars,
                 degradationVars, networkVars, classifierVars, decisionVars,
                 reportVars>>
PortfolioSteps ==
  /\ part = "portfolio" /\ PortfolioNext
  /\ UNCHANGED <<part, chainVars, auditVars, limiterVars, queueVars,
                 replyVars, cusumVars, spendingVars, currencyVars,
                 degradationVars, networkVars, classifierVars, decisionVars,
                 reportVars>>
CusumSteps ==
  /\ part = "cusum" /\ CusumNext
  /\ UNCHANGED <<part, chainVars, auditVars, limiterVars, queueVars,
                 replyVars, portfolioVars, spendingVars, currencyVars,
                 degradationVars, networkVars, classifierVars, decisionVars,
                 reportVars>>
SpendingSteps ==
  /\ part = "spending" /\ SpendingNext
  /\ UNCHANGED <<part, chainVars, auditVars, limiterVars, queueVars,
                 replyVars, portfolioVars, cusumVars, currencyVars,
                 degradationVars, networkVars, classifierVars, decisionVars,
                 reportVars>>
CurrencySteps ==
  /\ part = "currency" /\ CurrencyNext
  /\ UNCHANGED <<part, chainVars, auditVars, limiterVars, queueVars,
                 replyVars, portfolioVars, cusumVars, spendingVars,
                 degradationVars, networkVars, classifierVars, decisionVars,
                 reportVars>>
DegradationSteps ==
  /\ part = "degradation" /\ DegradationNext
  /\ UNCHANGED <<part, chainVars, auditVars, limiterVars, queueVars,
                 replyVars, portfolioVars, cusumVars, spendingVars,
                 currencyVars, networkVars, classifierVars, decisionVars,
                 reportVars>>
NetworkSteps ==
  /\ part = "network" /\ NetworkNext
  /\ UNCHANGED <<part, chainVars, auditVars, limiterVars, queueVars,
                 replyVars, portfolioVars, cusumVars, spendingVars,
                 currencyVars, degradationVars, classifierVars, decisionVars,
                 reportVars>>
ClassifierSteps ==
  /\ part = "classifier" /\ ClassifierNext
  /\ UNCHANGED <<part, chainVars, auditVars, limiterVars, queueVars,
                 replyVars, portfolioVars, cusumVars, spendingVars,
                 currencyVars, degradationVars, networkVars, decisionVars,
                 reportVars>>
DecisionSteps ==
  /\ part = "decision" /\ DecisionNext
  /\ UNCHANGED <<part, chainVars, auditVars, limiterVars, queueVars,
                 replyVars, portfolioVars, cusumVars, spendingVars,
                 currencyVars, degradationVars, networkVars, classifierVars,
                 reportVars>>
ReportSteps ==
  /\ part = "report" /\ ReportNext
  /\ UNCHANGED <<part, chainVars, auditVars, limiterVars, queueVars,
                 replyVars, portfolioVars, cusumVars, spendingVars,
                 currencyVars, degradationVars, networkVars, classifierVars,
                 decisionVars>>

PartsNext ==
  \/ GateSteps
  \/ AuditSteps
  \/ LimiterSteps
  \/ QueueSteps
  \/ ReplySteps
  \/ PortfolioSteps
  \/ CusumSteps
  \/ SpendingSteps
  \/ CurrencySteps
  \/ DegradationSteps
  \/ NetworkSteps
  \/ ClassifierSteps
  \/ DecisionSteps
  \/ ReportSteps

partsVars == <<part, chainVars, auditVars, limiterVars, queueVars,
               replyVars, portfolioVars, cusumVars, spendingVars,
               currencyVars, degradationVars, networkVars, classifierVars,
               decisionVars, reportVars>>

PartsSpec == PartsInit /\ [][PartsNext]_partsVars

(* Every part keeps the types of its state.                                *)
PartsTypeOK ==
  /\ ChainTypeOK /\ AuditTypeOK /\ LimiterTypeOK /\ QueueTypeOK
  /\ ReplyTypeOK /\ PortfolioTypeOK /\ CusumTypeOK /\ SpendingTypeOK
  /\ CurrencyTypeOK /\ DegradationTypeOK /\ NetworkTypeOK /\ ClassifierTypeOK
  /\ DecisionTypeOK /\ ReportTypeOK
=============================================================================
