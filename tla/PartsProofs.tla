------------------------------ MODULE PartsProofs ------------------------------
(***************************************************************************)
(* Theorems about the parts of the service that stand beside the case      *)
(* handlers: the shared exchange rates, what the selector and the          *)
(* inspector decide, the class and first action of a failure, and the      *)
(* deferrals of the gate.  They share no state.                            *)
(***************************************************************************)
EXTENDS Currency, Decision, Classifier, DeferralChain, GateProofs

-----------------------------------------------------------------------------
(***************************************************************************)
(* The shared exchange rates, for any number of requests, any ttl and any  *)
(* lag.  RatesFresh says how old a rate may be at each place a request is  *)
(* at; Whole says that, until two answers are installed at once, the rates *)
(* are of one fetch but between its two writes.                            *)
(***************************************************************************)

Place == {"idle", "fetch", "USD", "EUR", "stamp", "read"}
Rate == [fetch : Nat, at : Nat, given : BOOLEAN]
Answer == [fetch : Nat, at : Nat, gives : SUBSET Quoted]
Request == [at : Place, checked : Nat, failed : BOOLEAN, got : Answer]

CurrencyTypes ==
  /\ instant \in Nat /\ stamp \in Nat /\ answers \in Nat /\ clashed \in BOOLEAN
  /\ rates \in [Quoted -> Rate] /\ asking \in [Requester -> Request]

Clock ==
  /\ stamp <= instant /\ CacheTtl < instant
  /\ \A q \in Requester : asking[q].checked <= instant

(* An answer is installed within the lag.                                  *)
InTime ==
  \A q \in Requester : Installing(q) =>
    /\ asking[q].got.fetch > 0
    /\ asking[q].got.at <= instant /\ instant <= asking[q].got.at + InstallLag

Wrote(q, c) ==
  \/ asking[q].at = "stamp"
  \/ asking[q].at = "EUR" /\ c = "USD"

(* What a request wrote is still there, or something no older by more than *)
(* the lag: whoever wrote over it was in time.                             *)
Written ==
  \A q \in Requester, c \in Quoted : Wrote(q, c) =>
    rates[c].fetch > 0 /\ asking[q].got.at <= rates[c].at + InstallLag

Dated ==
  stamp > 0 => \A c \in Quoted :
    rates[c].fetch > 0 /\ stamp <= rates[c].at + 2 * InstallLag

(* A rate a fetch set is what its answer gave, or some answer lacked it.   *)
Accounted ==
  /\ \A c \in Quoted : rates[c].fetch > 0 => rates[c].given \/ c \in lacked
  /\ \A q \in Requester, c \in Quoted :
       Installing(q) => c \in asking[q].got.gives \/ c \in lacked

RatesFresh ==
  /\ CurrencyTypes /\ Clock /\ InTime /\ Written /\ Dated /\ Accounted
  /\ OldRatesOnlyAfterFailure

OneInstalls ==
  \A p, q \in Requester : Installing(p) /\ Installing(q) => p = q

Halfway(q) == asking[q].at = "EUR"

Whole ==
  ~clashed =>
    /\ OneInstalls
    /\ \A q \in Requester : Halfway(q) => rates["USD"].fetch = asking[q].got.fetch
    /\ rates["USD"].fetch = rates["EUR"].fetch \/ \E q \in Requester : Halfway(q)

CurrencyInv == RatesFresh /\ Whole

LEMMA Lags == CacheTtl \in Nat /\ InstallLag \in Nat
BY CurrencyAssumption

LEMMA CurrencyInitInv == CurrencyInit => CurrencyInv
<1> SUFFICES ASSUME CurrencyInit PROVE CurrencyInv
  OBVIOUS
<1>1. BuiltIn \in Rate /\ Idle \in Request
  BY DEF BuiltIn, Nothing, Idle, Rate, Answer, Request, Place
<1>2. CurrencyTypes
  <2>1. instant \in Nat /\ stamp \in Nat /\ answers \in Nat
    BY Lags DEF CurrencyInit
  <2>2. clashed \in BOOLEAN
    BY DEF CurrencyInit
  <2>3. rates \in [Quoted -> Rate] /\ asking \in [Requester -> Request]
    BY <1>1 DEF CurrencyInit
  <2> QED
    BY <2>1, <2>2, <2>3 DEF CurrencyTypes
<1>3. \A q \in Requester : asking[q].at = "idle" /\ asking[q].checked = 0
  BY DEF CurrencyInit, Idle
<1>4. Clock /\ InTime /\ Written /\ Dated /\ OldRatesOnlyAfterFailure
  BY <1>3, Lags DEF CurrencyInit, Clock, InTime, Installing, Written, Wrote, Dated,
     OldRatesOnlyAfterFailure
<1>6. Accounted
  BY <1>3 DEF CurrencyInit, Accounted, BuiltIn, Installing
<1>5. Whole
  BY <1>3 DEF CurrencyInit, Whole, OneInstalls, Installing, Halfway, Quoted
<1> QED
  BY <1>2, <1>4, <1>5, <1>6 DEF CurrencyInv, RatesFresh

(* The other requests stay as they are.                                    *)
Others(q) == \A p \in Requester : p # q => asking'[p] = asking[p]

LEMMA EnsureFreshKeeps ==
  ASSUME CurrencyInv, NEW q \in Requester, EnsureFresh(q)
  PROVE  CurrencyInv'
<1> DEFINE place == IF instant - stamp > CacheTtl THEN "fetch" ELSE "read"
<1>1. /\ Others(q) /\ asking' \in [Requester -> Request]
      /\ asking'[q] = [asking[q] EXCEPT !.at = place, !.checked = instant]
  <2>1. asking \in [Requester -> Request] /\ instant \in Nat /\ place \in Place
    BY DEF CurrencyInv, RatesFresh, CurrencyTypes, Place
  <2>2. asking' = [asking EXCEPT ![q].at = place, ![q].checked = instant]
    BY DEF EnsureFresh
  <2> HIDE DEF place
  <2>3. [asking[q] EXCEPT !.at = place, !.checked = instant] \in Request
    BY <2>1 DEF Request
  <2>4. asking' = [asking EXCEPT ![q] = [asking[q] EXCEPT !.at = place, !.checked = instant]]
    BY <2>1, <2>2
  <2> QED
    BY <2>1, <2>3, <2>4 DEF Others
<1>2. /\ asking'[q].at = place /\ asking'[q].checked = instant
      /\ asking'[q].failed = asking[q].failed /\ asking[q].at = "idle"
  BY <1>1 DEF EnsureFresh, CurrencyInv, RatesFresh, CurrencyTypes, Request
<1>3. UNCHANGED <<instant, rates, stamp, clashed, answers, lacked>>
  BY DEF EnsureFresh
<1>4. CurrencyTypes' /\ Clock'
  <2>1. CurrencyTypes'
    BY <1>1, <1>3 DEF CurrencyInv, RatesFresh, CurrencyTypes
  <2>2. stamp <= instant /\ CacheTtl < instant /\ instant <= instant
    BY DEF CurrencyInv, RatesFresh, Clock, CurrencyTypes
  <2>3. \A p \in Requester : asking'[p].checked <= instant
    BY <1>1, <1>2, <2>2 DEF Others, CurrencyInv, RatesFresh, Clock
  <2> QED
    BY <1>3, <2>1, <2>2, <2>3 DEF Clock
<1>5. \A p \in Requester :
        /\ Installing(p)' <=> Installing(p)
        /\ Halfway(p)' <=> Halfway(p)
        /\ \A c \in Quoted : Wrote(p, c)' <=> Wrote(p, c)
        /\ Installing(p) => asking'[p] = asking[p]
  BY <1>1, <1>2 DEF Installing, Halfway, Wrote, Others
<1>6. InTime' /\ Written' /\ Dated' /\ Accounted'
  BY <1>3, <1>5 DEF CurrencyInv, RatesFresh, InTime, Written, Dated, Accounted, Wrote, Installing
<1>7. OldRatesOnlyAfterFailure'
  <2> SUFFICES ASSUME NEW p \in Requester, NEW c \in Quoted,
                      asking'[p].at = "read", ~asking'[p].failed
               PROVE  /\ rates[c].fetch > 0
                      /\ rates[c].at + CacheTtl + 2 * InstallLag >= asking'[p].checked
                      /\ rates[c].given \/ c \in lacked
    BY <1>3 DEF OldRatesOnlyAfterFailure
  <2>1. CASE p # q
    BY <1>1, <2>1 DEF Others, CurrencyInv, RatesFresh, OldRatesOnlyAfterFailure
  <2>2. CASE p = q
    <3>1. instant \in Nat /\ stamp \in Nat /\ rates[c].at \in Nat
      BY DEF CurrencyInv, RatesFresh, CurrencyTypes, Rate
    <3>2. instant - stamp <= CacheTtl /\ CacheTtl < instant
      BY <1>2, <2>2, <3>1, Lags DEF CurrencyInv, RatesFresh, Clock
    <3>3. stamp > 0
      BY <3>1, <3>2, Lags
    <3>4. rates[c].fetch > 0 /\ stamp <= rates[c].at + 2 * InstallLag
      BY <3>3 DEF CurrencyInv, RatesFresh, Dated
    <3>5. rates[c].given \/ c \in lacked
      BY <3>4 DEF CurrencyInv, RatesFresh, Accounted
    <3> QED
      BY <1>2, <2>2, <3>1, <3>2, <3>4, <3>5, Lags
  <2> QED
    BY <2>1, <2>2
<1>8. Whole'
  BY <1>3, <1>5 DEF CurrencyInv, Whole, OneInstalls, Halfway, Installing
<1> QED
  BY <1>4, <1>6, <1>7, <1>8 DEF CurrencyInv, RatesFresh

LEMMA FetchAnsweredKeeps ==
  ASSUME CurrencyInv, NEW q \in Requester, FetchAnswered(q)
  PROVE  CurrencyInv'
<1>g. PICK gives \in MayGive :
        /\ asking' = [asking EXCEPT
             ![q].at = "USD",
             ![q].got = [fetch |-> answers', at |-> instant, gives |-> gives]]
        /\ lacked' = lacked \cup (Quoted \ gives)
  BY DEF FetchAnswered
<1> DEFINE answer == [fetch |-> answers + 1, at |-> instant, gives |-> gives]
<1>1. answer \in Answer /\ answers' = answers + 1 /\ answers' \in Nat
  BY CurrencyAssumption DEF FetchAnswered, CurrencyInv, RatesFresh, CurrencyTypes, Answer
<1>2. /\ Others(q) /\ asking' \in [Requester -> Request]
      /\ asking'[q] = [asking[q] EXCEPT !.at = "USD", !.got = answer]
  <2>1. asking \in [Requester -> Request]
    BY DEF CurrencyInv, RatesFresh, CurrencyTypes
  <2>2. asking' = [asking EXCEPT ![q].at = "USD", ![q].got = answer]
    BY <1>1, <1>g
  <2> HIDE DEF answer
  <2>3. [asking[q] EXCEPT !.at = "USD", !.got = answer] \in Request
    BY <1>1, <2>1 DEF Request, Place
  <2>4. asking' = [asking EXCEPT ![q] = [asking[q] EXCEPT !.at = "USD", !.got = answer]]
    BY <2>1, <2>2
  <2> QED
    BY <2>1, <2>3, <2>4 DEF Others
<1>3. /\ asking'[q].at = "USD" /\ asking'[q].got = answer
      /\ asking'[q].checked = asking[q].checked /\ asking[q].at = "fetch"
  <2>1. asking[q] \in Request /\ asking[q].at = "fetch"
    BY DEF FetchAnswered, CurrencyInv, RatesFresh, CurrencyTypes
  <2> HIDE DEF answer
  <2> QED
    BY <1>2, <2>1 DEF Request
<1>4. /\ UNCHANGED <<instant, rates, stamp>>
      /\ clashed' = (clashed \/ \E p \in Requester : Installing(p))
  BY DEF FetchAnswered
<1>5. CurrencyTypes' /\ Clock'
  BY <1>1, <1>2, <1>3, <1>4 DEF CurrencyInv, RatesFresh, CurrencyTypes, Clock, Others
<1>6. InTime'
  <2>1. instant \in Nat /\ answer.fetch > 0 /\ answer.at = instant
    BY DEF CurrencyInv, RatesFresh, CurrencyTypes
  <2>2. InTime /\ UNCHANGED instant
    BY <1>4 DEF CurrencyInv, RatesFresh
  <2> SUFFICES ASSUME NEW p \in Requester, Installing(p)'
               PROVE  /\ asking'[p].got.fetch > 0
                      /\ asking'[p].got.at <= instant
                      /\ instant <= asking'[p].got.at + InstallLag
    BY <2>2 DEF InTime
  <2>3. CASE p = q
    BY <1>3, <2>1, <2>3, Lags
  <2>4. CASE p # q
    BY <1>2, <2>2, <2>4 DEF InTime, Installing, Others
  <2> QED
    BY <2>3, <2>4
<1>7. Written' /\ Dated'
  <2>1. \A p \in Requester, c \in Quoted : Wrote(p, c)' => p # q
    BY <1>3 DEF Wrote
  <2>2. Written'
    BY <1>2, <1>4, <2>1 DEF CurrencyInv, RatesFresh, Written, Wrote, Others
  <2> QED
    BY <1>2, <1>3, <1>4, <2>2 DEF CurrencyInv, RatesFresh, Dated, Others
<1>8. Whole'
  <2> SUFFICES ASSUME ~clashed' PROVE Whole'
    BY DEF Whole
  <2>1. ~clashed /\ \A p \in Requester : ~Installing(p)
    BY <1>4
  <2>2. \A p \in Requester : ~Halfway(p) /\ ~Halfway(p)' /\ (Installing(p)' => p = q)
    BY <1>2, <1>3, <2>1 DEF Halfway, Installing, Others
  <2>3. OneInstalls'
    BY <2>2 DEF OneInstalls
  <2>4. rates["USD"].fetch = rates["EUR"].fetch
    BY <2>1, <2>2 DEF CurrencyInv, Whole
  <2> QED
    BY <1>4, <2>2, <2>3, <2>4 DEF Whole
<1>9. Accounted'
  <2>1. \A c \in Quoted : c \in answer.gives \/ c \in lacked'
    BY <1>g
  <2>2. lacked \subseteq lacked'
    BY <1>g
  <2> HIDE DEF answer
  <2>3. \A p \in Requester, c \in Quoted :
          Installing(p)' => c \in asking'[p].got.gives \/ c \in lacked'
    BY <1>2, <1>3, <2>1, <2>2 DEF CurrencyInv, RatesFresh, Accounted, Installing, Others
  <2> QED
    BY <1>4, <2>2, <2>3 DEF CurrencyInv, RatesFresh, Accounted
<1>10. OldRatesOnlyAfterFailure'
  <2>1. lacked \subseteq lacked'
    BY <1>g
  <2> QED
    BY <1>2, <1>3, <1>4, <2>1 DEF CurrencyInv, RatesFresh, OldRatesOnlyAfterFailure, Others
<1> QED
  BY <1>5, <1>6, <1>7, <1>8, <1>9, <1>10 DEF CurrencyInv, RatesFresh

LEMMA FetchFailedKeeps ==
  ASSUME CurrencyInv, NEW q \in Requester, FetchFailed(q)
  PROVE  CurrencyInv'
<1>1. /\ Others(q) /\ asking' \in [Requester -> Request]
      /\ asking'[q] = [asking[q] EXCEPT !.at = "read", !.failed = TRUE]
  BY DEF FetchFailed, Others, CurrencyInv, RatesFresh, CurrencyTypes, Request, Place
<1>2. /\ asking'[q].at = "read" /\ asking'[q].failed
      /\ asking'[q].checked = asking[q].checked /\ asking[q].at = "fetch"
  BY <1>1 DEF FetchFailed, CurrencyInv, RatesFresh, CurrencyTypes, Request
<1>3. UNCHANGED <<instant, rates, stamp, clashed, answers, lacked>>
  BY DEF FetchFailed
<1>4. CurrencyTypes' /\ Clock'
  BY <1>1, <1>2, <1>3 DEF CurrencyInv, RatesFresh, CurrencyTypes, Clock, Others
<1>5. \A p \in Requester :
        /\ Installing(p)' <=> Installing(p)
        /\ Halfway(p)' <=> Halfway(p)
        /\ \A c \in Quoted : Wrote(p, c)' <=> Wrote(p, c)
        /\ Installing(p) => asking'[p] = asking[p]
  BY <1>1, <1>2 DEF Installing, Halfway, Wrote, Others
<1>6. InTime' /\ Written' /\ Dated' /\ Accounted'
  BY <1>3, <1>5 DEF CurrencyInv, RatesFresh, InTime, Written, Dated, Accounted, Wrote, Installing
<1>7. OldRatesOnlyAfterFailure'
  BY <1>1, <1>2, <1>3 DEF CurrencyInv, RatesFresh, OldRatesOnlyAfterFailure, Others
<1>8. Whole'
  BY <1>3, <1>5 DEF CurrencyInv, Whole, OneInstalls, Halfway, Installing
<1> QED
  BY <1>4, <1>6, <1>7, <1>8 DEF CurrencyInv, RatesFresh

LEMMA InstallKeeps ==
  ASSUME CurrencyInv, NEW q \in Requester, Install(q)
  PROVE  CurrencyInv'
<1> DEFINE w == asking[q].at
           next == IF w = "USD" THEN "EUR" ELSE "stamp"
           rate == RateOf(asking[q].got, w)
<1>1. /\ w \in Quoted /\ Installing(q) /\ asking[q].got \in Answer
      /\ rates' = [rates EXCEPT ![w] = rate]
  BY DEF Install, Installing, Quoted, CurrencyInv, RatesFresh, CurrencyTypes, Request
<1>r. /\ rate \in Rate /\ rate.fetch = asking[q].got.fetch /\ rate.at = asking[q].got.at
      /\ rate.given <=> w \in asking[q].got.gives
  <2> DEFINE has == w \in asking[q].got.gives
  <2>1. has \in BOOLEAN /\ asking[q].got.fetch \in Nat /\ asking[q].got.at \in Nat
    BY <1>1 DEF Answer
  <2>2. rate = [fetch |-> asking[q].got.fetch, at |-> asking[q].got.at, given |-> has]
    BY DEF RateOf
  <2> HIDE DEF has, rate
  <2>3. rate.given = has
    BY <2>2
  <2>4. rate.given <=> w \in asking[q].got.gives
    BY <2>3 DEF has
  <2> QED
    BY <2>1, <2>2, <2>4 DEF Rate
<1> HIDE DEF rate
<1>2. /\ Others(q) /\ asking' \in [Requester -> Request]
      /\ asking'[q] = [asking[q] EXCEPT !.at = next]
  BY DEF Install, Moves, Others, CurrencyInv, RatesFresh, CurrencyTypes, Request, Place
<1>3. /\ asking'[q].at = next /\ asking'[q].got = asking[q].got
      /\ asking'[q].checked = asking[q].checked
  BY <1>2 DEF CurrencyInv, RatesFresh, CurrencyTypes, Request
<1>4. UNCHANGED <<instant, stamp, clashed, answers, lacked>>
  BY DEF Install
<1>5. CurrencyTypes' /\ Clock'
  BY <1>1, <1>2, <1>3, <1>4, <1>r DEF CurrencyInv, RatesFresh, CurrencyTypes, Clock, Others
<1>6. InTime'
  BY <1>1, <1>2, <1>3, <1>4 DEF CurrencyInv, RatesFresh, InTime, Installing, Others
<1>7. /\ asking[q].got.fetch > 0
      /\ asking[q].got.at \in Nat /\ instant \in Nat
      /\ instant <= asking[q].got.at + InstallLag
  BY <1>1 DEF CurrencyInv, RatesFresh, InTime, CurrencyTypes, Answer
<1>8. /\ rates'[w] = rate
      /\ \A c \in Quoted : c # w => rates'[c] = rates[c]
      /\ \A c \in Quoted : rates[c].at \in Nat
  BY <1>1 DEF CurrencyInv, RatesFresh, CurrencyTypes, Rate
<1>9. Written'
  <2> SUFFICES ASSUME NEW p \in Requester, NEW c \in Quoted, Wrote(p, c)'
               PROVE  /\ rates'[c].fetch > 0
                      /\ asking'[p].got.at <= rates'[c].at + InstallLag
    BY DEF Written
  <2>1. CASE c = w
    <3>1. Installing(p)'
      BY DEF Wrote, Installing
    <3>2. asking'[p].got.at <= instant /\ asking'[p].got.at \in Nat
      BY <1>4, <1>5, <1>6, <3>1 DEF InTime, CurrencyTypes, Request, Answer
    <3> QED
      BY <1>7, <1>8, <1>r, <2>1, <3>2, Lags
  <2>2. CASE c # w
    <3>1. Wrote(p, c) /\ asking'[p].got = asking[p].got
      BY <1>1, <1>2, <1>3, <2>2 DEF Wrote, Others, Quoted
    <3> QED
      BY <1>8, <2>2, <3>1 DEF CurrencyInv, RatesFresh, Written
  <2> QED
    BY <2>1, <2>2
<1>10. Dated'
  <2>1. stamp <= instant /\ stamp \in Nat
    BY DEF CurrencyInv, RatesFresh, Clock, CurrencyTypes
  <2> QED
    BY <1>4, <1>7, <1>8, <1>r, <2>1, Lags DEF CurrencyInv, RatesFresh, Dated
<1>13. Accounted'
  <2>1. rates'[w].given \/ w \in lacked
    BY <1>1, <1>8, <1>r DEF CurrencyInv, RatesFresh, Accounted
  <2>2. \A c \in Quoted : c # w /\ rates'[c].fetch > 0 => rates'[c].given \/ c \in lacked
    BY <1>8 DEF CurrencyInv, RatesFresh, Accounted
  <2>3. \A p \in Requester :
          Installing(p)' => Installing(p) /\ asking'[p].got = asking[p].got
    BY <1>1, <1>2, <1>3 DEF Installing, Others
  <2> QED
    BY <1>4, <2>1, <2>2, <2>3 DEF CurrencyInv, RatesFresh, Accounted
<1>11. OldRatesOnlyAfterFailure'
  <2> SUFFICES ASSUME NEW p \in Requester, NEW c \in Quoted,
                      asking'[p].at = "read", ~asking'[p].failed
               PROVE  /\ rates'[c].fetch > 0
                      /\ rates'[c].at + CacheTtl + 2 * InstallLag >= asking'[p].checked
                      /\ rates'[c].given \/ c \in lacked
    BY <1>4 DEF OldRatesOnlyAfterFailure
  <2>1. p # q /\ asking'[p] = asking[p]
    BY <1>2, <1>3 DEF Others
  <2>2. asking[p].checked <= instant /\ asking[p].checked \in Nat
    BY DEF CurrencyInv, RatesFresh, Clock, CurrencyTypes, Request
  <2>3. CASE c = w
    <3>1. rates'[c].given \/ c \in lacked
      BY <1>4, <1>7, <1>8, <1>13, <1>r, <2>3 DEF Accounted
    <3> QED
      BY <1>7, <1>8, <1>r, <2>1, <2>2, <2>3, <3>1, Lags
  <2>4. CASE c # w
    BY <1>8, <2>1, <2>4 DEF CurrencyInv, RatesFresh, OldRatesOnlyAfterFailure
  <2> QED
    BY <2>3, <2>4
<1>12. Whole'
  <2> SUFFICES ASSUME ~clashed PROVE Whole'
    BY <1>4 DEF Whole
  <2>1. /\ OneInstalls
        /\ \A p \in Requester : Halfway(p) => rates["USD"].fetch = asking[p].got.fetch
    BY DEF CurrencyInv, Whole
  <2>2. \A p \in Requester : Installing(p) => p = q
    BY <1>1, <2>1 DEF OneInstalls
  <2>3. OneInstalls'
    BY <1>2, <2>2 DEF OneInstalls, Installing, Others
  <2>4. \A p \in Requester : p # q => ~Halfway(p) /\ ~Halfway(p)'
    BY <1>2, <2>2 DEF Halfway, Installing, Others
  <2>5. CASE w = "USD"
    <3>1. Halfway(q)' /\ rates'["USD"].fetch = asking'[q].got.fetch
      BY <1>3, <1>8, <1>r, <2>5 DEF Halfway
    <3> QED
      BY <2>3, <2>4, <3>1 DEF Whole
  <2>6. CASE w = "EUR"
    <3>1. Halfway(q) /\ ~Halfway(q)'
      BY <1>3, <2>6 DEF Halfway
    <3>2. /\ rates'["USD"].fetch = asking[q].got.fetch
          /\ rates'["EUR"].fetch = asking[q].got.fetch
      BY <1>8, <1>r, <2>1, <2>6, <3>1 DEF Quoted
    <3> QED
      BY <2>3, <2>4, <3>1, <3>2 DEF Whole
  <2> QED
    BY <1>1, <2>5, <2>6 DEF Quoted
<1> QED
  BY <1>5, <1>6, <1>9, <1>10, <1>11, <1>12, <1>13 DEF CurrencyInv, RatesFresh

LEMMA StampKeeps ==
  ASSUME CurrencyInv, NEW q \in Requester, Stamp(q)
  PROVE  CurrencyInv'
<1>1. Nothing \in Answer
  BY DEF Nothing, Answer
<1>2. /\ Others(q) /\ asking' \in [Requester -> Request]
      /\ asking'[q] = [asking[q] EXCEPT !.at = "read", !.got = Nothing]
  BY <1>1 DEF Stamp, Others, CurrencyInv, RatesFresh, CurrencyTypes, Request, Place
<1>3. /\ asking'[q].at = "read" /\ asking[q].at = "stamp"
      /\ asking'[q].checked = asking[q].checked
  BY <1>2 DEF Stamp, CurrencyInv, RatesFresh, CurrencyTypes, Request
<1>4. stamp' = instant /\ UNCHANGED <<instant, rates, clashed, answers, lacked>>
  BY DEF Stamp
<1>5. CurrencyTypes' /\ Clock'
  <2>1. CurrencyTypes'
    BY <1>2, <1>4 DEF CurrencyInv, RatesFresh, CurrencyTypes
  <2>2. CacheTtl < instant /\ instant <= instant
    BY DEF CurrencyInv, RatesFresh, Clock, CurrencyTypes
  <2>3. \A p \in Requester : asking'[p].checked <= instant
    BY <1>2, <1>3 DEF Others, CurrencyInv, RatesFresh, Clock
  <2> QED
    BY <1>4, <2>1, <2>2, <2>3 DEF Clock
<1>6. InTime' /\ Written' /\ Accounted'
  BY <1>2, <1>3, <1>4 DEF CurrencyInv, RatesFresh, InTime, Installing, Written, Wrote,
     Accounted, Others
<1>7. \A c \in Quoted :
        rates[c].fetch > 0 /\ instant <= rates[c].at + 2 * InstallLag
  <2> SUFFICES ASSUME NEW c \in Quoted
               PROVE  rates[c].fetch > 0 /\ instant <= rates[c].at + 2 * InstallLag
    OBVIOUS
  <2>1. rates[c].fetch > 0 /\ asking[q].got.at <= rates[c].at + InstallLag
    BY <1>3 DEF CurrencyInv, RatesFresh, Written, Wrote
  <2>2. instant <= asking[q].got.at + InstallLag
    BY <1>3 DEF CurrencyInv, RatesFresh, InTime, Installing
  <2>3. instant \in Nat /\ rates[c].at \in Nat /\ asking[q].got.at \in Nat
    BY DEF CurrencyInv, RatesFresh, CurrencyTypes, Request, Rate, Answer
  <2> QED
    BY <2>1, <2>2, <2>3, Lags
<1>8. Dated'
  BY <1>4, <1>7 DEF Dated
<1>9. OldRatesOnlyAfterFailure'
  <2> SUFFICES ASSUME NEW p \in Requester, NEW c \in Quoted,
                      asking'[p].at = "read", ~asking'[p].failed
               PROVE  /\ rates[c].fetch > 0
                      /\ rates[c].at + CacheTtl + 2 * InstallLag >= asking'[p].checked
                      /\ rates[c].given \/ c \in lacked
    BY <1>4 DEF OldRatesOnlyAfterFailure
  <2>1. asking'[p].checked <= instant /\ asking'[p].checked \in Nat
    BY <1>4, <1>5 DEF Clock, CurrencyTypes, Request
  <2>2. instant \in Nat /\ rates[c].at \in Nat
    BY DEF CurrencyInv, RatesFresh, CurrencyTypes, Rate
  <2>3. rates[c].given \/ c \in lacked
    BY <1>7 DEF CurrencyInv, RatesFresh, Accounted
  <2> QED
    BY <1>7, <2>1, <2>2, <2>3, Lags
<1>10. Whole'
  <2> SUFFICES ASSUME ~clashed PROVE Whole'
    BY <1>4 DEF Whole
  <2>1. \A p \in Requester :
          /\ Installing(p)' => Installing(p)
          /\ Halfway(p)' <=> Halfway(p)
          /\ Halfway(p) => asking'[p] = asking[p]
    BY <1>2, <1>3 DEF Installing, Halfway, Others
  <2> QED
    BY <1>4, <2>1 DEF CurrencyInv, Whole, OneInstalls
<1> QED
  BY <1>5, <1>6, <1>8, <1>9, <1>10 DEF CurrencyInv, RatesFresh

LEMMA ReturnKeeps ==
  ASSUME CurrencyInv, NEW q \in Requester, Return(q)
  PROVE  CurrencyInv'
<1>1. Idle \in Request /\ Idle.at = "idle" /\ Idle.checked = 0
  BY DEF Idle, Nothing, Request, Answer, Place
<1>2. Others(q) /\ asking' \in [Requester -> Request] /\ asking'[q] = Idle
  BY <1>1 DEF Return, Others, CurrencyInv, RatesFresh, CurrencyTypes
<1>3. asking[q].at = "read" /\ UNCHANGED <<instant, rates, stamp, clashed, answers, lacked>>
  BY DEF Return
<1>4. CurrencyTypes' /\ Clock'
  BY <1>1, <1>2, <1>3 DEF CurrencyInv, RatesFresh, CurrencyTypes, Clock, Others
<1>5. \A p \in Requester :
        /\ Installing(p)' <=> Installing(p)
        /\ Halfway(p)' <=> Halfway(p)
        /\ \A c \in Quoted : Wrote(p, c)' <=> Wrote(p, c)
        /\ Installing(p) => asking'[p] = asking[p]
  BY <1>1, <1>2, <1>3 DEF Installing, Halfway, Wrote, Others
<1>6. InTime' /\ Written' /\ Dated' /\ Accounted'
  BY <1>3, <1>5 DEF CurrencyInv, RatesFresh, InTime, Written, Dated, Accounted, Wrote, Installing
<1>7. OldRatesOnlyAfterFailure'
  BY <1>1, <1>2, <1>3 DEF CurrencyInv, RatesFresh, OldRatesOnlyAfterFailure, Others
<1>8. Whole'
  BY <1>3, <1>5 DEF CurrencyInv, Whole, OneInstalls, Halfway, Installing
<1> QED
  BY <1>4, <1>6, <1>7, <1>8 DEF CurrencyInv, RatesFresh

LEMMA TimePassesKeeps ==
  ASSUME CurrencyInv, TimePasses
  PROVE  CurrencyInv'
<1>1. instant' = instant + 1 /\ UNCHANGED <<rates, stamp, asking, clashed, answers, lacked>>
  BY DEF TimePasses
<1>2. CurrencyTypes' /\ Clock'
  BY <1>1, Lags DEF CurrencyInv, RatesFresh, CurrencyTypes, Clock, Request
<1>3. InTime'
  <2> SUFFICES ASSUME NEW q \in Requester, Installing(q)
               PROVE  /\ asking[q].got.fetch > 0 /\ asking[q].got.at <= instant + 1
                      /\ instant + 1 <= asking[q].got.at + InstallLag
    BY <1>1 DEF InTime, Installing
  <2>1. instant \in Nat /\ asking[q].got.at \in Nat
    BY DEF CurrencyInv, RatesFresh, CurrencyTypes, Request, Answer
  <2>2. instant < asking[q].got.at + InstallLag
    BY DEF TimePasses
  <2> QED
    BY <2>1, <2>2, Lags DEF CurrencyInv, RatesFresh, InTime
<1>4. Written' /\ Dated' /\ Accounted' /\ OldRatesOnlyAfterFailure'
  BY <1>1 DEF CurrencyInv, RatesFresh, Written, Wrote, Dated, Accounted, Installing,
     OldRatesOnlyAfterFailure
<1>5. Whole'
  BY <1>1 DEF CurrencyInv, Whole, OneInstalls, Halfway, Installing
<1> QED
  BY <1>2, <1>3, <1>4, <1>5 DEF CurrencyInv, RatesFresh

LEMMA CurrencyStep == CurrencyInv /\ [CurrencyNext]_currencyVars => CurrencyInv'
<1> SUFFICES ASSUME CurrencyInv, [CurrencyNext]_currencyVars PROVE CurrencyInv'
  OBVIOUS
<1>1. CASE TimePasses
  BY <1>1, TimePassesKeeps
<1>2. CASE \E q \in Requester :
             \/ EnsureFresh(q) \/ FetchAnswered(q) \/ FetchFailed(q)
             \/ Install(q) \/ Stamp(q) \/ Return(q)
  BY <1>2, EnsureFreshKeeps, FetchAnsweredKeeps, FetchFailedKeeps, InstallKeeps,
     StampKeeps, ReturnKeeps
<1>3. CASE UNCHANGED currencyVars
  BY <1>3 DEF currencyVars, CurrencyInv, RatesFresh, CurrencyTypes, Clock, InTime, Written,
     Wrote, Dated, Accounted, OldRatesOnlyAfterFailure, Whole, OneInstalls, Halfway, Installing
<1> QED
  BY <1>1, <1>2, <1>3 DEF CurrencyNext

LEMMA CurrencyAlways == CurrencySpec => []CurrencyInv
BY CurrencyInitInv, CurrencyStep, PTL DEF CurrencySpec

(* Whoever fetches and installs meanwhile, a request whose own fetch did   *)
(* not fail computes with rates set no longer ago than the ttl and two     *)
(* lags, and with a built-in one only for a currency some answer lacked:   *)
(* the stamp is written after the rates.                                   *)
THEOREM CurrencyFreshness == CurrencySpec => []OldRatesOnlyAfterFailure
<1>1. CurrencyInv => OldRatesOnlyAfterFailure
  BY DEF CurrencyInv, RatesFresh
<1> QED
  BY <1>1, CurrencyAlways, PTL

(* Only two answers installed at the same time can leave a pair of rates   *)
(* of two fetches behind.                                                  *)
THEOREM CurrencyWholeness == CurrencySpec => []TornOnlyByClash
<1>1. CurrencyInv => TornOnlyByClash
  BY DEF CurrencyInv, Whole, TornOnlyByClash, Halfway, Installing
<1> QED
  BY <1>1, CurrencyAlways, PTL

-----------------------------------------------------------------------------
(***************************************************************************)
(* Two facts of Decision for every case and every amount: the selector's   *)
(* test of net expected values never decides by itself, and the inspector  *)
(* shows the executor's verdict but for two actions in the quiet hours.    *)
(***************************************************************************)

(* A product is at least that of lower bounds of its factors.              *)
LEMMA AtLeast ==
  ASSUME NEW x \in Nat, NEW y \in Nat, NEW a \in Nat, NEW b \in Nat, x >= a, y >= b
  PROVE  x * y >= a * b
<1>1. x * y >= a * y
  BY SMT
<1>2. a * y >= a * b
  BY SMT
<1>3. x * y \in Nat /\ a * y \in Nat /\ a * b \in Nat
  BY SMT
<1> QED
  BY <1>1, <1>2, <1>3

(* The chance of an email is that of its class, tired at most to 70%.      *)
LEMMA EmailChance ==
  ASSUME NEW class \in FailureClass, NEW n \in Nat
  PROVE  Chance(class, "nudge_email", n) \in Nat /\ Chance(class, "nudge_email", n) >= 1750
<1> DEFINE b == BaseChance(class)
           f == Fatigue(n)
<1>1. b \in Nat /\ b >= 25
  BY DEF BaseChance, FailureClass
<1>2. f \in Nat /\ f >= 70
  BY DEF Fatigue
<1>3. Channel("nudge_email") = 100
  BY DEF Channel
<1> HIDE DEF b, f
<1>4. b * f >= 25 * 70 /\ b * f \in Nat
  BY <1>1, <1>2, AtLeast
<1>5. (b * 100 * f + 50) \div 100 = b * f
  <2>1. b * 100 * f = 100 * (b * f)
    BY <1>1, <1>2
  <2> QED
    BY <1>4, <2>1
<1>6. Chance(class, "nudge_email", n) = IF b * f < 9500 THEN b * f ELSE 9500
  BY <1>3, <1>5 DEF Chance, b, f
<1> QED
  BY <1>4, <1>6

(* Such a chance of 50 rupees is worth more than the one rupee of an email.*)
LEMMA EmailPays ==
  ASSUME NEW p \in Nat, p >= 1750, NEW amount \in Nat, amount >= 5000
  PROVE  Expected(p, amount) > 100
<1> DEFINE high == amount \div 10000
           low == amount % 10000
<1>1. high \in Nat /\ low \in Nat /\ amount = 10000 * high + low
  OBVIOUS
<1> HIDE DEF high, low
<1>2. p * high \in Nat /\ p * low \in Nat
  BY <1>1
<1>3. (p * low + 9999) \div 10000 \in Nat
  BY <1>2
<1>4. CASE high >= 1
  <2>1. p * high >= 1750 * 1
    BY <1>1, <1>4, AtLeast
  <2> QED
    BY <1>2, <1>3, <2>1 DEF Expected, high, low
<1>5. CASE high = 0
  <2>1. p * low >= 1750 * 5000
    BY <1>1, <1>5, AtLeast
  <2>2. (p * low + 9999) \div 10000 >= 875
    BY <1>2, <2>1
  <2> QED
    BY <1>2, <1>3, <2>2 DEF Expected, high, low
<1> QED
  BY <1>1, <1>4, <1>5

(* What the economic stop lets through is worth an email.                  *)
LEMMA WorthUnlessStopped ==
  ASSUME NEW c \in CaseFields, IsFiniteSet(c.attempts), ~EconomicStop(c.amount)
  PROVE  SomeWorth(c)
<1> DEFINE n == Cardinality(c.attempts)
<1>1. n \in Nat /\ c.class \in FailureClass /\ c.amount \in Nat
  BY FS_CardinalityType DEF CaseFields
<1>2. c.amount >= 5000
  BY <1>1 DEF EconomicStop
<1>3. Expected(Chance(c.class, "nudge_email", n), c.amount) > 100
  BY <1>1, <1>2, EmailChance, EmailPays
<1>4. "nudge_email" \in Candidates /\ ActionCost["nudge_email"] = 100
  BY DEF Candidates, ActionType, ContactTypes, MoneyTypes, ActionCost
<1> QED
  BY <1>3, <1>4 DEF SomeWorth

-----------------------------------------------------------------------------
Known ==
  /\ doc \in CaseFields /\ doc.status \in Active \cup Closed
  /\ IsFiniteSet(doc.attempts)

Inspected ==
  inspection.asked =>
    /\ inspection.selected = {s.type : s \in StepNow}
    /\ inspection.verdict = [kind \in Candidates |->
                               Evaluate(doc, moment, InspectedContact(kind), IsMoney(kind))]

Rechecked ==
  recheck \in {Unasked, "state_valid"} \/ doc.status \in Closed \/ doc.optedOut

Weighed ==
  weighing.asked => weighing.worthwhile = {c \in Candidates : Worthwhile(doc, c)}

DecisionInv == Known /\ Inspected /\ Weighed /\ Rechecked

LEMMA DecisionInitInv == DecisionInit => DecisionInv
<1> SUFFICES ASSUME DecisionInit PROVE DecisionInv
  OBVIOUS
<1>1. doc \in CaseFields /\ moment \in Nat
  BY DecisionAssumption DEF DecisionInit
<1>2. doc.status \in Active \cup Closed
  BY <1>1 DEF DecisionInit, CaseFields
<1>3. doc.attempts \subseteq 0 .. moment
  BY <1>1 DEF DecisionInit, CaseFields
<1>4. IsFiniteSet(0 .. moment)
  BY <1>1, FS_Interval
<1>5. IsFiniteSet(doc.attempts)
  BY <1>3, <1>4, FS_Subset
<1> QED
  BY <1>1, <1>2, <1>5 DEF DecisionInit, DecisionInv, Known, Inspected, Weighed, Rechecked

LEMMA DecisionStep == DecisionInv /\ [DecisionNext]_decisionVars => DecisionInv'
<1> SUFFICES ASSUME DecisionInv, [DecisionNext]_decisionVars PROVE DecisionInv'
  OBVIOUS
<1>1. UNCHANGED <<doc, debit, moment>> /\ Known'
  BY DEF DecisionNext, Inspect, Weigh, Revalidate, decisionVars, DecisionInv, Known
<1>2. StepNow' = StepNow
  BY <1>1 DEF StepNow
<1>3. CASE Inspect
  BY <1>1, <1>2, <1>3 DEF Inspect, DecisionInv, Inspected, Weighed, Rechecked
<1>4. CASE Weigh
  BY <1>1, <1>2, <1>4 DEF Weigh, DecisionInv, Inspected, Weighed, Rechecked
<1>5. CASE Revalidate
  <2>1. Inspected' /\ Weighed'
    BY <1>1, <1>2, <1>5 DEF Revalidate, DecisionInv, Inspected, Weighed
  <2>2. Rechecked'
    BY <1>1, <1>5 DEF Revalidate, DecisionInv, Known, Rechecked, Closed, Active
  <2> QED
    BY <1>1, <2>1, <2>2 DEF DecisionInv
<1>6. CASE UNCHANGED decisionVars
  BY <1>1, <1>2, <1>6 DEF decisionVars, DecisionInv, Inspected, Weighed, Rechecked
<1> QED
  BY <1>3, <1>4, <1>5, <1>6 DEF DecisionNext

LEMMA DecisionAlways == DecisionSpec => []DecisionInv
BY DecisionInitInv, DecisionStep, PTL DEF DecisionSpec

(* For every case and amount the selector proposes nothing exactly when    *)
(* the economic stop says so: its own test of net expected values refuses  *)
(* no case that the stop lets through.                                     *)
THEOREM StopDecides == DecisionSpec => []NoActionIsEconomicStop
<1>1. DecisionInv => NoActionIsEconomicStop
  <2> SUFFICES ASSUME DecisionInv, inspection.asked
               PROVE  inspection.selected = {} <=> EconomicStop(doc.amount)
    BY DEF NoActionIsEconomicStop
  <2>1. inspection.selected = {s.type : s \in StepNow}
    BY DEF DecisionInv, Inspected
  <2>2. ~EconomicStop(doc.amount) => SomeWorth(doc)
    BY WorthUnlessStopped DEF DecisionInv, Known
  <2>3. StepNow = {} <=> EconomicStop(doc.amount)
    BY <2>2 DEF StepNow, NextSteps
  <2> QED
    BY <2>1, <2>3
<1> QED
  BY <1>1, DecisionAlways, PTL

-----------------------------------------------------------------------------
(***************************************************************************)
(* What the selector proposes is worth its uplift, with the exceptions the *)
(* property names.  The bounds are the least uplifts over every number of  *)
(* attempts, in ten-thousandths.                                           *)
(***************************************************************************)

Uplift(class, kind, n) == Chance(class, kind, n) - Unaided(class) * Waning(n)

(* Every number of attempts tires and wanes as one of six.                 *)
LEMMA Pace ==
  ASSUME NEW n \in Nat
  PROVE  \/ n = 0 /\ Fatigue(n) = 100 /\ Waning(n) = 100
         \/ n = 1 /\ Fatigue(n) = 92 /\ Waning(n) = 85
         \/ n = 2 /\ Fatigue(n) = 84 /\ Waning(n) = 70
         \/ n = 3 /\ Fatigue(n) = 76 /\ Waning(n) = 55
         \/ n = 4 /\ Fatigue(n) = 70 /\ Waning(n) = 40
         \/ n >= 5 /\ Fatigue(n) = 70 /\ Waning(n) = 30
BY SMT DEF Fatigue, Waning

(* The value of an action, rounded up, is at least the exact one.          *)
RoundedUp(p, amount) ==
  Expected(p, amount) \in Nat /\ 10000 * Expected(p, amount) >= p * amount

LEMMA ExpectedRoundsUp ==
  ASSUME NEW p \in Nat, NEW amount \in Nat
  PROVE  RoundedUp(p, amount)
<1> DEFINE high == amount \div 10000
           low == amount % 10000
<1>1. high \in Nat /\ low \in Nat /\ amount = 10000 * high + low
  OBVIOUS
<1> HIDE DEF high, low
<1>2. p * high \in Nat /\ p * low \in Nat /\ p * amount = 10000 * (p * high) + p * low
  BY <1>1
<1>3. /\ (p * low + 9999) \div 10000 \in Nat
      /\ 10000 * ((p * low + 9999) \div 10000) >= p * low
  BY <1>2
<1>4. Expected(p, amount) = p * high + (p * low + 9999) \div 10000
  BY DEF Expected, high, low
<1> QED
  BY <1>2, <1>3, <1>4 DEF RoundedUp

(* An action is worthwhile from an uplift u and an amount a on if it is of *)
(* these.                                                                  *)
LEMMA WorthFrom ==
  ASSUME NEW c \in CaseFields, NEW kind \in Candidates, NEW u \in Nat, NEW a \in Nat,
         Uplift(c.class, kind, Cardinality(c.attempts)) \in Int,
         Uplift(c.class, kind, Cardinality(c.attempts)) >= u,
         c.amount >= a, (2 * u) * a > 10000 * (2 * ActionCost[kind] + 1)
  PROVE  Worthwhile(c, kind)
<1> DEFINE twice == 2 * Uplift(c.class, kind, Cardinality(c.attempts))
           sum == c.amount
           goal == 2 * ActionCost[kind] + 1
           least == 2 * u
<1>1. sum \in Nat /\ sum >= a
  BY DEF CaseFields
<1>2. goal \in Nat
  BY DEF Candidates, ActionType, ContactTypes, MoneyTypes, ActionCost
<1>3. twice \in Nat /\ least \in Nat /\ twice >= least
  OBVIOUS
<1>4. Worthwhile(c, kind) <=> Expected(twice, sum) > goal
  BY DEF Worthwhile, Uplift
<1>5. least * a > 10000 * goal
  OBVIOUS
<1> HIDE DEF twice, sum, goal, least
<1>6. twice * sum >= least * a
  BY <1>1, <1>3, AtLeast
<1>7. RoundedUp(twice, sum)
  BY <1>1, <1>3, ExpectedRoundsUp
<1>8. twice * sum \in Nat /\ least * a \in Nat
  BY <1>1, <1>3
<1>9. Expected(twice, sum) > goal
  BY <1>2, <1>5, <1>6, <1>7, <1>8 DEF RoundedUp
<1> QED
  BY <1>4, <1>9

Messaged == FailureClass \ {"NETWORK_TIMEOUT", "ISSUER_UNAVAILABLE", "GATEWAY_TIMEOUT"}

(* A message or a call, for every class but the three that charge again.   *)
LEMMA UpliftOfContact ==
  ASSUME NEW class \in Messaged, NEW kind \in ContactTypes, NEW n \in Nat
  PROVE  /\ Uplift(class, kind, n) \in Int /\ Uplift(class, kind, n) >= 1500
         /\ kind \in {"nudge_voice", "nudge_whatsapp"} => Uplift(class, kind, n) >= 1725
<1>1. CASE n = 0
  BY <1>1, Pace DEF Messaged, FailureClass, ContactTypes, Uplift, Chance, BaseChance,
                    Channel, Unaided
<1>2. CASE n = 1
  BY <1>2, Pace DEF Messaged, FailureClass, ContactTypes, Uplift, Chance, BaseChance,
                    Channel, Unaided
<1>3. CASE n = 2
  BY <1>3, Pace DEF Messaged, FailureClass, ContactTypes, Uplift, Chance, BaseChance,
                    Channel, Unaided
<1>4. CASE n = 3
  BY <1>4, Pace DEF Messaged, FailureClass, ContactTypes, Uplift, Chance, BaseChance,
                    Channel, Unaided
<1>5. CASE n = 4
  BY <1>5, Pace DEF Messaged, FailureClass, ContactTypes, Uplift, Chance, BaseChance,
                    Channel, Unaided
<1>6. CASE n >= 5
  BY <1>6, Pace DEF Messaged, FailureClass, ContactTypes, Uplift, Chance, BaseChance,
                    Channel, Unaided
<1> QED
  BY <1>1, <1>2, <1>3, <1>4, <1>5, <1>6

LEMMA UpliftOfLink ==
  ASSUME NEW n \in Nat
  PROVE  LET gain == Uplift("NETWORK_TIMEOUT", "retry_payment_link", n)
         IN  gain \in Int /\ gain >= 1500
BY Pace DEF Uplift, Chance, BaseChance, Channel, Unaided

(* Charging again is worth least after a gateway's timeout.                *)
LEMMA UpliftOfCharge ==
  ASSUME NEW class \in {"NETWORK_TIMEOUT", "ISSUER_UNAVAILABLE", "SUBSCRIPTION_FAILED",
                        "LATE_AUTH", "GATEWAY_TIMEOUT"},
         NEW n \in Nat, class = "GATEWAY_TIMEOUT" => n >= 4
  PROVE  Uplift(class, "retry_charge", n) \in Int /\ Uplift(class, "retry_charge", n) >= 328
BY Pace DEF Uplift, Chance, BaseChance, Channel, Unaided

LEMMA UpliftOfEscalation ==
  ASSUME NEW class, NEW n \in Nat,
         \/ class = "LATE_AUTH" /\ n >= 2
         \/ class = "INVOICE_OVERDUE" /\ n >= 3
  PROVE  Uplift(class, "escalate_human", n) \in Int /\ Uplift(class, "escalate_human", n) >= 2805
BY Pace DEF Uplift, Chance, BaseChance, Channel, Unaided

(* What the selector proposes, by class.                                   *)
LEMMA LadderContacts ==
  ASSUME NEW n \in Nat PROVE ContactLadder(n) \in ContactTypes
<1>1. Ladder \in Seq(ContactTypes) /\ Len(Ladder) > 0
  BY SelectorAssumption
<1> QED
  BY <1>1 DEF ContactLadder

Proposes(class, n, kind) ==
  \/ class = "NETWORK_TIMEOUT" /\ kind \in {"retry_charge", "retry_payment_link"}
  \/ class \in {"ISSUER_UNAVAILABLE", "GATEWAY_TIMEOUT"} /\ kind = "retry_charge"
  \/ class \in Messaged /\ kind \in ContactTypes
  \/ class \in {"SUBSCRIPTION_FAILED", "LATE_AUTH"} /\ kind = "retry_charge"
  \/ class = "LATE_AUTH" /\ n >= 2 /\ kind = "escalate_human"
  \/ class = "INVOICE_OVERDUE" /\ n >= 3 /\ kind = "escalate_human"

LEMMA Proposed ==
  ASSUME NEW class \in FailureClass, NEW d, NEW amount, NEW n \in Nat, NEW u
  PROVE  Proposes(class, n, ClassStep(class, d, amount, n, u).type)
<1> DEFINE kind == ClassStep(class, d, amount, n, u).type
<1>0. /\ DOMAIN LadderDelay = {"HARD_DECLINE", "CARD_EXPIRED", "PRICE_SHOCK", "MANDATE_ISSUE"}
      /\ DOMAIN StagedSteps = {"SUBSCRIPTION_FAILED", "LATE_AUTH"}
  BY DEF LadderDelay, StagedSteps
<1> SUFFICES Proposes(class, n, kind)
  OBVIOUS
<1>1. CASE class \in {"NETWORK_TIMEOUT", "ISSUER_UNAVAILABLE", "GATEWAY_TIMEOUT"}
  BY <1>1 DEF ClassStep, LadderDelay, StagedSteps, FixedStep, Step, Proposes
<1>2. CASE class \in {"INSUFFICIENT_FUNDS", "HARD_DECLINE", "CARD_EXPIRED", "PRICE_SHOCK",
                      "MANDATE_ISSUE", "CUSTOMER_ABANDONMENT"}
  <2>1. kind = ContactLadder(n)
    BY <1>0, <1>2 DEF ClassStep, Step
  <2> QED
    BY <1>2, <2>1, LadderContacts DEF Messaged, FailureClass, Proposes
<1>3. CASE class \in {"OVERDUE_GENUINE", "SOFT_DECLINE_OTHER", "UNKNOWN"}
  BY <1>3 DEF ClassStep, LadderDelay, StagedSteps, FixedStep, Step, Messaged, FailureClass,
              ContactTypes, Proposes
<1>4. CASE class = "INVOICE_OVERDUE"
  <2>1. kind = IF n >= 3 THEN "escalate_human"
               ELSE IF n = 2 /\ amount >= VoiceMinAmount THEN "nudge_voice"
               ELSE ContactLadder(n)
    BY <1>0, <1>4 DEF ClassStep, Step
  <2> QED
    BY <1>4, <2>1, LadderContacts DEF Messaged, FailureClass, ContactTypes, Proposes
<1>5. CASE class \in {"SUBSCRIPTION_FAILED", "LATE_AUTH"}
  <2> DEFINE stages == StagedSteps[class]
  <2>1. kind = stages[IF n < Len(stages) THEN n + 1 ELSE Len(stages)].type
    BY <1>5 DEF ClassStep, LadderDelay, StagedSteps, Stage
  <2>2. /\ Len(stages) = 3 /\ stages[1].type = "retry_charge"
        /\ stages[2].type = "nudge_whatsapp"
        /\ stages[3].type = IF class = "LATE_AUTH" THEN "escalate_human" ELSE "nudge_email"
    BY <1>5 DEF StagedSteps, Step
  <2> HIDE DEF stages, kind
  <2>3. \/ n = 0 /\ kind = "retry_charge"
        \/ n = 1 /\ kind = "nudge_whatsapp"
        \/ n >= 2 /\ kind = stages[3].type
    BY <2>1, <2>2
  <2>4. \/ kind = "retry_charge"
        \/ kind \in ContactTypes
        \/ class = "LATE_AUTH" /\ n >= 2 /\ kind = "escalate_human"
    BY <2>2, <2>3 DEF ContactTypes
  <2>5. class \in Messaged
    BY <1>5 DEF Messaged, FailureClass, Proposes
  <2> QED
    BY <1>5, <2>4, <2>5 DEF Proposes
<1> QED
  BY <1>1, <1>2, <1>3, <1>4, <1>5 DEF FailureClass

(* A proposal the property does not exempt is worthwhile.                  *)
LEMMA ProposedIsWorth ==
  ASSUME NEW c \in CaseFields, IsFiniteSet(c.attempts), ~EconomicStop(c.amount),
         NEW kind,
         NEW d, NEW u, kind = ClassStep(c.class, d, c.amount, Cardinality(c.attempts), u).type,
         ~(c.class = "GATEWAY_TIMEOUT" /\ Cardinality(c.attempts) < 4),
         ~(c.amount < 18000 /\ kind \in {"nudge_voice", "escalate_human", "retry_charge"})
  PROVE  kind \in Candidates => Worthwhile(c, kind)
<1> SUFFICES ASSUME kind \in Candidates PROVE Worthwhile(c, kind)
  OBVIOUS
<1> DEFINE n == Cardinality(c.attempts)
           class == c.class
           sum == c.amount
           gain == Uplift(class, kind, n)
<1>1. n \in Nat /\ class \in FailureClass /\ c.amount \in Nat /\ c.amount >= 5000
  BY FS_CardinalityType DEF CaseFields, EconomicStop
<1>2. kind \in {"nudge_voice", "escalate_human", "retry_charge"} => c.amount >= 18000
  BY <1>1
<1>3. class = "GATEWAY_TIMEOUT" => n >= 4
  BY <1>1
<1>a. kind = ClassStep(class, d, sum, n, u).type /\ n \in Nat /\ class \in FailureClass
  BY <1>1
<1> HIDE DEF n, class, sum
<1>b. Proposes(class, n, kind)
  BY <1>a, Proposed
<1>4. \/ class = "NETWORK_TIMEOUT" /\ kind = "retry_payment_link"
      \/ /\ class \in {"NETWORK_TIMEOUT", "ISSUER_UNAVAILABLE", "SUBSCRIPTION_FAILED",
                       "LATE_AUTH", "GATEWAY_TIMEOUT"}
         /\ kind = "retry_charge"
      \/ class \in Messaged /\ kind \in ContactTypes
      \/ /\ (class = "LATE_AUTH" /\ n >= 2) \/ (class = "INVOICE_OVERDUE" /\ n >= 3)
         /\ kind = "escalate_human"
  BY <1>b DEF Proposes
<1>5. CASE class = "NETWORK_TIMEOUT" /\ kind = "retry_payment_link"
  <2>1. gain \in Int /\ gain >= 1500
    BY <1>1, <1>5, UpliftOfLink
  <2>2. (2 * 1500) * 5000 > 10000 * (2 * ActionCost[kind] + 1)
    BY <1>5 DEF ActionCost
  <2> QED
    BY <1>1, <2>1, <2>2, WorthFrom DEF n, class
<1>6. CASE /\ class \in {"NETWORK_TIMEOUT", "ISSUER_UNAVAILABLE", "SUBSCRIPTION_FAILED",
                         "LATE_AUTH", "GATEWAY_TIMEOUT"}
           /\ kind = "retry_charge"
  <2>1. gain \in Int /\ gain >= 328
    BY <1>1, <1>3, <1>6, UpliftOfCharge
  <2>2. (2 * 328) * 18000 > 10000 * (2 * ActionCost[kind] + 1)
    BY <1>6 DEF ActionCost
  <2> QED
    BY <1>1, <1>2, <1>6, <2>1, <2>2, WorthFrom DEF n, class
<1>7. CASE class \in Messaged /\ kind = "nudge_voice"
  <2>1. gain \in Int /\ gain >= 1725
    BY <1>1, <1>7, UpliftOfContact DEF ContactTypes
  <2>2. (2 * 1725) * 18000 > 10000 * (2 * ActionCost[kind] + 1)
    BY <1>7 DEF ActionCost
  <2> QED
    BY <1>1, <1>2, <1>7, <2>1, <2>2, WorthFrom DEF n, class
<1>8. CASE class \in Messaged /\ kind = "nudge_whatsapp"
  <2>1. gain \in Int /\ gain >= 1725
    BY <1>1, <1>8, UpliftOfContact DEF ContactTypes
  <2>2. (2 * 1725) * 5000 > 10000 * (2 * ActionCost[kind] + 1)
    BY <1>8 DEF ActionCost
  <2> QED
    BY <1>1, <2>1, <2>2, WorthFrom DEF n, class
<1>9. CASE class \in Messaged /\ kind \in {"nudge_sms", "nudge_email"}
  <2>1. gain \in Int /\ gain >= 1500
    BY <1>1, <1>9, UpliftOfContact DEF ContactTypes
  <2>2. (2 * 1500) * 5000 > 10000 * (2 * ActionCost[kind] + 1)
    BY <1>9 DEF ActionCost
  <2> QED
    BY <1>1, <2>1, <2>2, WorthFrom DEF n, class
<1>10. CASE /\ (class = "LATE_AUTH" /\ n >= 2) \/ (class = "INVOICE_OVERDUE" /\ n >= 3)
            /\ kind = "escalate_human"
  <2>1. gain \in Int /\ gain >= 2805
    BY <1>1, <1>10, UpliftOfEscalation
  <2>2. (2 * 2805) * 18000 > 10000 * (2 * ActionCost[kind] + 1)
    BY <1>10 DEF ActionCost
  <2> QED
    BY <1>1, <1>2, <1>10, <2>1, <2>2, WorthFrom DEF n, class
<1> QED
  BY <1>4, <1>5, <1>6, <1>7, <1>8, <1>9, <1>10 DEF ContactTypes

(* For every case, number of attempts and ladder, what the selector        *)
(* proposes is worth its uplift but for a charge after a gateway's timeout *)
(* up to the fourth attempt and three costlier actions on small amounts.   *)
THEOREM ChaseIsWorthIt == DecisionSpec => []ChasedWithoutUpliftOnly
<1>1. DecisionInv => ChasedWithoutUpliftOnly
  <2> SUFFICES ASSUME DecisionInv, inspection.asked, weighing.asked,
                      NEW kind \in inspection.selected \ weighing.worthwhile
               PROVE  \/ doc.class = "GATEWAY_TIMEOUT" /\ Cardinality(doc.attempts) < 4
                      \/ /\ doc.amount < 18000
                         /\ kind \in {"nudge_voice", "escalate_human", "retry_charge"}
    BY DEF ChasedWithoutUpliftOnly
  <2>1. PICK s \in StepNow : kind = s.type
    BY DEF DecisionInv, Inspected
  <2>2. ~EconomicStop(doc.amount)
    BY <2>1 DEF StepNow, NextSteps
  <2>3. kind = ClassStep(doc.class, debit, doc.amount, Cardinality(doc.attempts), moment).type
    BY <2>1 DEF StepNow, NextSteps
  <2>4. doc \in CaseFields /\ IsFiniteSet(doc.attempts)
    BY DEF DecisionInv, Known
  <2>5. kind \in Candidates
    <3>1. Cardinality(doc.attempts) \in Nat /\ doc.class \in FailureClass
      BY <2>4, FS_CardinalityType DEF CaseFields
    <3>2. Proposes(doc.class, Cardinality(doc.attempts), kind)
      BY <2>3, <3>1, Proposed
    <3>3. kind \in ContactTypes \cup MoneyTypes \cup {"escalate_human"}
      BY <3>2 DEF Proposes, MoneyTypes
    <3> QED
      BY <3>3 DEF Candidates, ActionType, ContactTypes, MoneyTypes
  <2>6. ~Worthwhile(doc, kind)
    BY <2>5 DEF DecisionInv, Weighed
  <2> QED
    BY <2>2, <2>3, <2>4, <2>5, <2>6, ProposedIsWorth
<1> QED
  BY <1>1, DecisionAlways, PTL

-----------------------------------------------------------------------------
(* The flag for a contact only matters to the last test of the gate.       *)
LEMMA ContactMattersLast ==
  ASSUME NEW c, NEW u, NEW money
  PROVE  \/ Evaluate(c, u, TRUE, money) = Evaluate(c, u, FALSE, money)
         \/ /\ Evaluate(c, u, FALSE, money).decision = "execute"
            /\ Evaluate(c, u, TRUE, money).reason = "quiet_hours_ist"
BY DEF Evaluate, Execute, Block, Defer

LEMMA ClosedIsBlocked ==
  ASSUME NEW c, c.status \in Closed \/ c.optedOut, NEW u, NEW contact, NEW money
  PROVE  Evaluate(c, u, contact, money).decision = "block"
BY DEF Evaluate, Block

(* The inspector tells what the executor's gate would, but for a payment   *)
(* link and an escalation in the quiet hours, and revalidation refuses     *)
(* only what the gate blocks.                                              *)
THEOREM InspectorIsTrue == DecisionSpec => []InspectorShowsTheGate
<1>1. DecisionInv => InspectorShowsTheGate
  <2> SUFFICES ASSUME DecisionInv PROVE InspectorShowsTheGate
    OBVIOUS
  <2>1. ASSUME inspection.asked, NEW kind \in Candidates
        PROVE  \/ inspection.verdict[kind] = GateOf(kind)
               \/ /\ kind \in {"retry_payment_link", "escalate_human"}
                  /\ GateOf(kind).decision = "execute"
                  /\ inspection.verdict[kind].reason = "quiet_hours_ist"
    <3>1. inspection.verdict[kind]
            = Evaluate(doc, moment, InspectedContact(kind), IsMoney(kind))
      BY <2>1 DEF DecisionInv, Inspected
    <3>2. CASE kind \in ContactTypes
      <4>1. InspectedContact(kind) = TRUE /\ IsContact(kind) = TRUE
        BY <3>2 DEF InspectedContact, IsContact, ContactTypes
      <4> QED
        BY <3>1, <4>1 DEF GateOf
    <3>3. CASE kind = "retry_charge"
      <4>1. InspectedContact(kind) = FALSE /\ IsContact(kind) = FALSE
        BY <3>3 DEF InspectedContact, IsContact, ContactTypes
      <4> QED
        BY <3>1, <4>1 DEF GateOf
    <3>4. CASE kind \in {"retry_payment_link", "escalate_human"}
      <4>1. InspectedContact(kind) = TRUE /\ IsContact(kind) = FALSE
        BY <3>4 DEF InspectedContact, IsContact, ContactTypes
      <4> QED
        BY <3>1, <3>4, <4>1, ContactMattersLast DEF GateOf
    <3> QED
      BY <2>1, <3>2, <3>3, <3>4 DEF Candidates, ActionType, MoneyTypes
  <2>2. ASSUME recheck \notin {Unasked, "state_valid"}, NEW kind \in Candidates
        PROVE  GateOf(kind).decision = "block"
    BY <2>2, ClosedIsBlocked DEF DecisionInv, Rechecked, GateOf
  <2> QED
    BY <2>1, <2>2 DEF InspectorShowsTheGate
<1> QED
  BY <1>1, DecisionAlways, PTL

-----------------------------------------------------------------------------
(***************************************************************************)
(* The class of a failure, for any texts, answers and policy numbers: the  *)
(* case and its first step are what the words and the answers say.         *)
(***************************************************************************)

ClassifierInv ==
  /\ payment.text \subseteq {Rules[i].words : i \in DOMAIN Rules}
  /\ {payment.vulcan, payment.llm} \subseteq Opinions \cup {NoAnswer}
  /\ \/ payment.given = "UNKNOWN"
     \/ \E m \in ClassMix : payment.text = {m[1]} /\ payment.given = m[2]
  /\ \/ ingested = NotIngested
     \/ ingested = Raised /\ Classify(payment) = Raised
     \/ Classify(payment) # Raised /\ ingested = ClassKept(Classify(payment), payment.given)
  /\ firstStep # Missing =>
       /\ ingested.class \in FailureClass
       /\ firstStep = ClassStep(ingested.class, payment.debit, 100000, 0, 0).type

IsRule(i, words, class, confidence) ==
  Rules[i].words = words /\ Rules[i].class = class /\ Rules[i].confidence = confidence

LEMMA RuleTable ==
  /\ IsRule(1, "insufficient_funds", "INSUFFICIENT_FUNDS", 95)
  /\ IsRule(2, "expired_card", "CARD_EXPIRED", 95)
  /\ IsRule(3, "mandate_paused", "MANDATE_ISSUE", 90)
  /\ IsRule(4, "dropped_off", "CUSTOMER_ABANDONMENT", 90)
  /\ IsRule(5, "receivable", "INVOICE_OVERDUE", 92)
  /\ IsRule(6, "genuinely_overdue", "OVERDUE_GENUINE", 90)
  /\ IsRule(7, "renewal_failed", "SUBSCRIPTION_FAILED", 88)
  /\ IsRule(8, "otp", "SOFT_DECLINE_OTHER", 75)
  /\ IsRule(9, "blocked_card", "HARD_DECLINE", 92)
  /\ IsRule(10, "issuer_unavailable", "ISSUER_UNAVAILABLE", 85)
  /\ IsRule(11, "gateway_error", "GATEWAY_TIMEOUT", 85)
  /\ IsRule(12, "timed_out", "NETWORK_TIMEOUT", 80)
  /\ IsRule(13, "amount_changed", "PRICE_SHOCK", 80)
  /\ IsRule(14, "declined_by_bank", "SOFT_DECLINE_OTHER", 60)
  /\ IsRule(15, "acquirer", "ISSUER_UNAVAILABLE", 70)
  /\ IsRule(16, "late_authorization", "LATE_AUTH", 88)
BY DEF Rules, Rule, IsRule

LEMMA RulesRead ==
  /\ DOMAIN Rules = 1 .. 16
  /\ \A i \in 1 .. 16 : Rules[i].class \in FailureClass
  /\ \A i \in 1 .. 16 : Rules[i].confidence \in Int /\ Rules[i].confidence >= 60
<1>1. DOMAIN Rules = 1 .. 16
  BY DEF Rules
<1>2. \A i \in 1 .. 16 : Rules[i].class \in FailureClass
  BY RuleTable DEF IsRule, FailureClass
<1>3. \A i \in 1 .. 16 : Rules[i].confidence \in Int /\ Rules[i].confidence >= 60
  BY RuleTable DEF IsRule
<1> QED
  BY <1>1, <1>2, <1>3

(* The rules up to that of a blocked card.                                 *)
LEMMA RulesBefore ==
  /\ Rules[1].class = "INSUFFICIENT_FUNDS" /\ Rules[2].class = "CARD_EXPIRED"
  /\ Rules[3].class = "MANDATE_ISSUE" /\ Rules[4].class = "CUSTOMER_ABANDONMENT"
  /\ Rules[5].class = "INVOICE_OVERDUE" /\ Rules[6].class = "OVERDUE_GENUINE"
  /\ Rules[7].class = "SUBSCRIPTION_FAILED" /\ Rules[8].class = "SOFT_DECLINE_OTHER"
  /\ Rules[9].class = "HARD_DECLINE"
  /\ Rules[7].words = "renewal_failed" /\ Rules[9].words = "blocked_card"
BY RuleTable DEF IsRule

(* Of their classes only a renewal is first charged again.                 *)
LEMMA FirstSteps ==
  ASSUME NEW k \in FailureClass, NEW d,
         k \in {"INSUFFICIENT_FUNDS", "CARD_EXPIRED", "MANDATE_ISSUE", "CUSTOMER_ABANDONMENT",
                "INVOICE_OVERDUE", "OVERDUE_GENUINE", "SUBSCRIPTION_FAILED",
                "SOFT_DECLINE_OTHER", "HARD_DECLINE"}
  PROVE  ClassStep(k, d, 100000, 0, 0).type = "retry_charge" <=> k = "SUBSCRIPTION_FAILED"
<1>1. /\ DOMAIN LadderDelay = {"HARD_DECLINE", "CARD_EXPIRED", "PRICE_SHOCK", "MANDATE_ISSUE"}
      /\ DOMAIN StagedSteps = {"SUBSCRIPTION_FAILED", "LATE_AUTH"}
  BY DEF LadderDelay, StagedSteps
<1>2. ContactLadder(0) # "retry_charge"
  BY SelectorAssumption DEF ContactLadder, ContactTypes
<1>3. CASE k = "INSUFFICIENT_FUNDS"
  BY <1>1, <1>2, <1>3 DEF ClassStep, Step
<1>4. CASE k \in DOMAIN LadderDelay
  <2>1. ClassStep(k, d, 100000, 0, 0) = Step(ContactLadder(0), LadderDelay[k])
    BY <1>1, <1>4 DEF ClassStep
  <2> QED
    BY <1>1, <1>2, <1>4, <2>1 DEF Step
<1>5. CASE k = "CUSTOMER_ABANDONMENT"
  BY <1>1, <1>2, <1>5 DEF ClassStep, Step
<1>6. CASE k = "INVOICE_OVERDUE"
  BY <1>1, <1>2, <1>6 DEF ClassStep, Step
<1>7. CASE k \in {"OVERDUE_GENUINE", "SOFT_DECLINE_OTHER"}
  <2>1. ClassStep(k, d, 100000, 0, 0) = FixedStep[k]
    BY <1>1, <1>7 DEF ClassStep
  <2> QED
    BY <1>7, <2>1 DEF FixedStep, Step
<1>8. CASE k = "SUBSCRIPTION_FAILED"
  <2>1. ClassStep(k, d, 100000, 0, 0) = Stage(StagedSteps[k], 0)
    BY <1>1, <1>8 DEF ClassStep
  <2>2. Stage(StagedSteps[k], 0) = Step("retry_charge", 6 * Hour)
    BY <1>8 DEF Stage, StagedSteps
  <2> QED
    BY <1>8, <2>1, <2>2 DEF Step
<1> QED
  BY <1>1, <1>3, <1>4, <1>5, <1>6, <1>7, <1>8

(* The first rule hit decides.                                             *)
LEMMA FirstRule ==
  ASSUME NEW text, RulesHit(text) # {}
  PROVE  \E i \in RulesHit(text) :
           Deciding(text) = Rules[i] /\ \A j \in RulesHit(text) : i <= j
<1> DEFINE hit == RulesHit(text)
           first == CHOOSE i \in hit : \A j \in hit : i <= j
<1>1. hit \subseteq Nat /\ hit # {}
  BY RulesRead DEF RulesHit
<1>2. \E i \in hit : \A j \in hit : i <= j
  <2> HIDE DEF hit
  <2> QED
    BY <1>1, LeastNatural
<1>3. first \in hit /\ \A j \in hit : first <= j
  BY <1>2
<1> QED
  BY <1>3 DEF Deciding

LEMMA VerdictFacts ==
  ASSUME ClassifierInv
  PROVE  /\ VulcanAnswers(payment) =>
              /\ Classify(payment) = Judged(payment.vulcan.class, Clamped(payment.vulcan.confidence))
              /\ payment.vulcan.confidence \in Int
         /\ ~VulcanAnswers(payment) /\ RulesHit(payment.text) # {} =>
              \E i \in RulesHit(payment.text) :
                /\ \A j \in RulesHit(payment.text) : i <= j
                /\ Classify(payment) = Judged(Rules[i].class, Rules[i].confidence)
         /\ ~VulcanAnswers(payment) /\ RulesHit(payment.text) = {} =>
              Classify(payment) = LlmVerdict(payment) /\ payment.text = {}
<1>1. ASSUME VulcanAnswers(payment)
      PROVE  payment.vulcan.confidence \in Int
  BY <1>1, ClassifierAssumption DEF ClassifierInv, NoAnswer, Opinion
<1>2. ASSUME RulesHit(payment.text) = {} PROVE payment.text = {}
  BY <1>2 DEF ClassifierInv, RulesHit
<1> QED
  BY <1>1, <1>2, FirstRule DEF Classify

LEMMA ClassifierStep == ClassifierInv /\ [ClassifierNext]_classifierVars => ClassifierInv'
<1> SUFFICES ASSUME ClassifierInv, [ClassifierNext]_classifierVars PROVE ClassifierInv'
  OBVIOUS
<1>1. CASE IngestFailure
  <2>1. firstStep = Missing
    BY <1>1 DEF IngestFailure, ClassifierInv, NotIngested, Judged, Missing, FailureClass
  <2> QED
    BY <1>1, <2>1 DEF IngestFailure, ClassifierInv
<1>2. CASE PlanFirst
  BY <1>2 DEF PlanFirst, ClassifierInv
<1>3. CASE UNCHANGED classifierVars
  BY <1>3 DEF classifierVars, ClassifierInv
<1> QED
  BY <1>1, <1>2, <1>3 DEF ClassifierNext

(* The words of a blocked card: what the rules before it say.              *)
LEMMA BlockedCard ==
  ASSUME ClassifierInv, firstStep # Missing, ~VulcanAnswers(payment),
         "blocked_card" \in payment.text
  PROVE  firstStep = "retry_charge" <=>
           /\ "renewal_failed" \in payment.text
           /\ \A i \in 1 .. 6 : Rules[i].words \notin payment.text
<1> DEFINE hit == RulesHit(payment.text)
<1>1. 9 \in hit
  BY RulesRead, RulesBefore DEF RulesHit
<1>2. PICK i \in hit : /\ \A j \in hit : i <= j
                       /\ Classify(payment) = Judged(Rules[i].class, Rules[i].confidence)
  BY <1>1, VerdictFacts
<1>3. i \in 1 .. 9
  BY <1>1, <1>2, RulesRead DEF RulesHit
<1>4. ingested.class = Rules[i].class
  <2>1. Rules[i].class \in FailureClass /\ Rules[i].confidence >= 60 /\ Rules[i].confidence \in Int
    BY <1>3, RulesRead
  <2>2. ingested.class \in FailureClass
    BY DEF ClassifierInv
  <2>3. ingested # NotIngested /\ ingested # Raised
    BY <2>2 DEF NotIngested, Raised, Judged, Missing, FailureClass
  <2>4. ingested = ClassKept(Classify(payment), payment.given)
    BY <2>3 DEF ClassifierInv
  <2>5. ClassKept(Classify(payment), payment.given) = Classify(payment)
    BY <1>2, <2>1 DEF ClassKept, Judged
  <2> QED
    BY <1>2, <2>4, <2>5 DEF Judged
<1>5. firstStep = ClassStep(Rules[i].class, payment.debit, 100000, 0, 0).type
  BY <1>4 DEF ClassifierInv
<1>7. firstStep = "retry_charge" <=> i = 7
  <2> DEFINE k == Rules[i].class
  <2>1. k \in FailureClass
    BY <1>3, RulesRead
  <2>2. /\ i = 7 <=> k = "SUBSCRIPTION_FAILED"
        /\ k \in {"INSUFFICIENT_FUNDS", "CARD_EXPIRED", "MANDATE_ISSUE",
                  "CUSTOMER_ABANDONMENT", "INVOICE_OVERDUE", "OVERDUE_GENUINE",
                  "SUBSCRIPTION_FAILED", "SOFT_DECLINE_OTHER", "HARD_DECLINE"}
    <3>1. i \in {1, 2, 3, 4, 5, 6, 7, 8, 9}
      BY <1>3
    <3> QED
      BY <3>1, RulesBefore
  <2> HIDE DEF k
  <2>3. firstStep = ClassStep(k, payment.debit, 100000, 0, 0).type
    BY <1>5 DEF k
  <2> QED
    BY <2>1, <2>2, <2>3, FirstSteps
<1>8. \A j \in 1 .. 16 : j \in hit <=> Rules[j].words \in payment.text
  BY RulesRead DEF RulesHit
<1> HIDE DEF hit
<1> QED
  BY <1>2, <1>3, <1>7, <1>8, RulesBefore

(* A simulated payment is said to fail as it was generated.                *)
LEMMA SimulatedClass ==
  ASSUME NEW m \in ClassMix, NEW i \in RulesHit({m[1]})
  PROVE  Rules[i].class = m[2]
<1>1. i \in 1 .. 16 /\ Rules[i].words = m[1]
  BY RulesRead DEF RulesHit
<1>2. i \in {1, 2, 3, 4, 5, 6, 7, 8, 9, 10, 11, 12, 13, 14, 15, 16}
  BY <1>1
<1>3. Rules[i].words = m[1] => Rules[i].class = m[2]
  BY <1>2, RuleTable DEF ClassMix, IsRule
<1> QED
  BY <1>1, <1>3

LEMMA VerdictHolds == ClassifierInv => ClassIsOfTheWords
<1> SUFFICES ASSUME ClassifierInv PROVE ClassIsOfTheWords
  OBVIOUS
<1>1. ASSUME ingested # NotIngested, payment.given # "UNKNOWN", ingested.class # payment.given
      PROVE  VulcanAnswers(payment) /\ payment.vulcan.confidence >= 50
  <2>1. PICK m \in ClassMix : payment.text = {m[1]} /\ payment.given = m[2]
    BY <1>1 DEF ClassifierInv
  <2>2. \E i \in 1 .. 16 : Rules[i].words = m[1]
    <3>1. payment.text \subseteq {Rules[i].words : i \in DOMAIN Rules}
      BY DEF ClassifierInv
    <3> QED
      BY <2>1, <3>1, RulesRead
  <2>3. RulesHit(payment.text) # {}
    BY <2>1, <2>2, RulesRead DEF RulesHit
  <2>4. CASE ~VulcanAnswers(payment)
    <3>1. PICK i \in RulesHit(payment.text) :
            Classify(payment) = Judged(Rules[i].class, Rules[i].confidence)
      BY <2>3, <2>4, VerdictFacts
    <3>2. Rules[i].class = payment.given
      BY <2>1, <3>1, SimulatedClass
    <3>3. i \in 1 .. 16 /\ Rules[i].class \in FailureClass
      BY <3>1, RulesRead DEF RulesHit
    <3>4. Classify(payment) # Raised
      BY <3>1, <3>3 DEF Judged, Raised, FailureClass
    <3>5. ingested = ClassKept(Classify(payment), payment.given)
      BY <1>1, <3>4 DEF ClassifierInv
    <3> QED
      BY <1>1, <3>1, <3>2, <3>5 DEF ClassKept, Judged
  <2>5. CASE VulcanAnswers(payment)
    <3>1. /\ Classify(payment) = Judged(payment.vulcan.class, Clamped(payment.vulcan.confidence))
          /\ payment.vulcan.confidence \in Int
      BY <2>5, VerdictFacts
    <3>2. Classify(payment) # Raised
      BY <2>5, <3>1 DEF VulcanAnswers, Judged, Raised, FailureClass
    <3>3. ingested = ClassKept(Classify(payment), payment.given)
      BY <1>1, <3>2 DEF ClassifierInv
    <3>4. ~(Clamped(payment.vulcan.confidence) < 50)
      BY <1>1, <3>1, <3>3 DEF ClassKept, Judged
    <3> QED
      BY <2>5, <3>1, <3>4 DEF Clamped
  <2> QED
    BY <2>4, <2>5
<1>2. ASSUME ingested = Raised
      PROVE  /\ ~VulcanAnswers(payment) /\ payment.text = {}
             /\ LlmRaises(payment)
  <2>1. Classify(payment) = Raised
    <3>1. ingested # NotIngested
      BY <1>2 DEF NotIngested, Raised, Judged, Missing
    <3>2. SUFFICES ASSUME Classify(payment) # Raised,
                          ingested = ClassKept(Classify(payment), payment.given)
                   PROVE  FALSE
      BY <3>1 DEF ClassifierInv
    <3>3. payment.given # "raised"
      BY DEF ClassifierInv, ClassMix
    <3> QED
      BY <1>2, <3>2, <3>3 DEF ClassKept, Raised, Judged
  <2>2. ~VulcanAnswers(payment)
    BY <2>1, VerdictFacts DEF VulcanAnswers, Raised, Judged, FailureClass
  <2>3. RulesHit(payment.text) = {}
    <3> SUFFICES ASSUME RulesHit(payment.text) # {} PROVE FALSE
      OBVIOUS
    <3>1. PICK i \in RulesHit(payment.text) :
            Classify(payment) = Judged(Rules[i].class, Rules[i].confidence)
      BY <2>2, VerdictFacts
    <3>2. Rules[i].class \in FailureClass
      BY <3>1, RulesRead DEF RulesHit
    <3> QED
      BY <2>1, <3>1, <3>2 DEF Judged, Raised, FailureClass
  <2>4. LlmVerdict(payment) = Raised /\ payment.text = {}
    BY <2>1, <2>2, <2>3, VerdictFacts
  <2> QED
    BY <2>2, <2>4 DEF LlmVerdict, Raised, Judged, FailureClass
<1>3. ASSUME ingested # NotIngested, ~VulcanAnswers(payment), payment.text = {},
             LlmRaises(payment)
      PROVE  ingested = Raised
  <2>1. RulesHit(payment.text) = {}
    BY <1>3 DEF RulesHit
  <2>2. Classify(payment) = Raised
    BY <1>3, <2>1, VerdictFacts DEF LlmVerdict
  <2> QED
    BY <1>3, <2>2 DEF ClassifierInv
<1> QED
  BY <1>1, <1>2, <1>3, BlockedCard DEF ClassIsOfTheWords, LlmRaises

(* The words alone decide as the order of the rules says, a simulated      *)
(* payment keeps its class unless Vulcan is sure of another, and no case   *)
(* is left exactly when reading the LLM's answer raises                    *)
(* (classifier.py:32-78, agent.py:41-44, selector.py:226-232).             *)
THEOREM ClassifierReadsWords == ClassifierSpec => []ClassIsOfTheWords
<1>1. ClassifierInit => ClassifierInv
  <2> SUFFICES ASSUME ClassifierInit PROVE ClassifierInv
    OBVIOUS
  <2>1. PICK base \in {Live(text) : text \in Texts} \cup {Simulated(m) : m \in ClassMix} :
          \E d \in BOOLEAN, vulcan, llm \in Opinions \cup {NoAnswer} :
            payment = [text |-> base.text, given |-> base.given, debit |-> d,
                       vulcan |-> vulcan, llm |-> llm]
    BY DEF ClassifierInit
  <2>2. /\ payment.text = base.text /\ payment.given = base.given
        /\ {payment.vulcan, payment.llm} \subseteq Opinions \cup {NoAnswer}
    BY <2>1
  <2>3. CASE \E text \in Texts : base = Live(text)
    BY <2>2, <2>3, ClassifierAssumption DEF ClassifierInit, ClassifierInv, Live
  <2>4. CASE \E m \in ClassMix : base = Simulated(m)
    <3>1. PICK m \in ClassMix : base = Simulated(m)
      BY <2>4
    <3>2. payment.text = {m[1]} /\ payment.given = m[2]
      BY <2>2, <3>1 DEF Simulated
    <3>3. m[1] \in {Rules[i].words : i \in DOMAIN Rules}
      <4>1. \E i \in {1, 3, 4, 5, 7, 9, 10, 12, 14} : Rules[i].words = m[1]
        BY RuleTable DEF ClassMix, IsRule
      <4> QED
        BY <4>1, RulesRead
    <3> QED
      BY <2>2, <3>2, <3>3 DEF ClassifierInit, ClassifierInv
  <2> QED
    BY <2>1, <2>3, <2>4
<1> QED
  BY <1>1, ClassifierStep, VerdictHolds, PTL DEF ClassifierSpec

-----------------------------------------------------------------------------
(***************************************************************************)
(* Deferrals of the gate, for any cases and policy numbers whose quiet     *)
(* window is not the whole day: of such a window nobody could say when it  *)
(* opens.                                                                  *)
(***************************************************************************)

NotAllDayQuiet == ~(QuietStart = 0 /\ QuietEnd = 24)

LEMMA MinuteType ==
  ASSUME NEW u \in Nat PROVE MinuteOfDay(u) \in Nat /\ MinuteOfDay(u) < 1440
BY DEF MinuteOfDay, Day, Hour, IstOffset

LEMMA MinuteLater ==
  ASSUME NEW u \in Nat, NEW d \in Nat, d < 1440
  PROVE  MinuteOfDay(u + d) = IF MinuteOfDay(u) + d < 1440 THEN MinuteOfDay(u) + d
                              ELSE MinuteOfDay(u) + d - 1440
<1> DEFINE x == u + 330
<1>1. x \in Nat /\ x + d \in Nat /\ (u + d) + 330 = x + d
  OBVIOUS
<1> HIDE DEF x
<1>2. (x + d) % 1440 = IF (x % 1440) + d < 1440 THEN (x % 1440) + d
                       ELSE (x % 1440) + d - 1440
  BY <1>1
<1> QED
  BY <1>1, <1>2 DEF MinuteOfDay, Day, Hour, IstOffset, x

(* The hours of the window, told one by one.                               *)
LEMMA HourByHour == ASSUME NEW u \in Nat PROVE QuietMinute(u) <=> InQuietHours(u)
<1> DEFINE x == u + 330
           m == x % 1440
           h == (x \div 60) % 24
<1>1. x \in Nat
  OBVIOUS
<1>2. MinuteOfDay(u) = m /\ QuietMinute(u) = QuietHour(h)
  BY DEF MinuteOfDay, QuietMinute, Day, Hour, IstOffset
<1> HIDE DEF x
<1>3. m \in 0 .. 1439 /\ h \in 0 .. 23 /\ 60 * h <= m /\ m < 60 * h + 60
  BY <1>1
<1> HIDE DEF m, h
<1> DEFINE a == QuietStart
           b == QuietEnd
<1>4. a \in 0 .. 24 /\ b \in 0 .. 24
  BY PolicyAssumption
<1>5. QuietHour(h) <=> IF a <= b THEN h \in a .. b - 1 ELSE h \in (a .. 23) \cup (0 .. b - 1)
  BY DEF QuietHour
<1>6. InQuietHours(u) <=> IF a * 60 <= b * 60 THEN a * 60 <= m /\ m < b * 60
                          ELSE m >= a * 60 \/ m < b * 60
  BY <1>2 DEF InQuietHours, Hour
<1> HIDE DEF a, b
<1>7. QuietHour(h) <=> InQuietHours(u)
  BY <1>3, <1>4, <1>5, <1>6
<1> QED
  BY <1>2, <1>7

(* The window opens when the code says, and not before.                    *)
LEMMA QuietOpens ==
  ASSUME NotAllDayQuiet, NEW u \in Nat, InQuietHours(u)
  PROVE  LET opens == NextQuietHoursOpen(u)
         IN  /\ opens \in Nat /\ opens > u /\ ~InQuietHours(opens)
             /\ \A w \in u .. opens - 1 : InQuietHours(w)
<1> DEFINE m == MinuteOfDay(u)
           s == QuietStart * 60
           e == QuietEnd * 60
           d == IF m < e THEN e - m ELSE e - m + 1440
<1>1. m \in Nat /\ m < 1440
  BY MinuteType
<1>2. /\ s \in 0 .. 1440 /\ e \in 0 .. 1440 /\ ~(s = 0 /\ e = 1440)
      /\ QuietStart * Hour = s /\ QuietEnd * Hour = e
  BY PolicyAssumption DEF NotAllDayQuiet, Hour
<1>3. \A w : InQuietHours(w) <=>
        IF s <= e THEN s <= MinuteOfDay(w) /\ MinuteOfDay(w) < e
        ELSE MinuteOfDay(w) >= s \/ MinuteOfDay(w) < e
  BY <1>2 DEF InQuietHours
<1> HIDE DEF s, e
<1>4. IF s <= e THEN s <= m /\ m < e ELSE m >= s \/ m < e
  BY <1>3
<1>5. NextQuietHoursOpen(u) = u + d
  <2>1. Day = 1440
    BY DEF Day, Hour
  <2>2. NextQuietHoursOpen(u) = IF u < u - m + e THEN u - m + e ELSE u - m + e + 1440
    BY <1>2, <2>1 DEF NextQuietHoursOpen
  <2> HIDE DEF m
  <2> QED
    BY <1>1, <1>2, <2>2
<1> HIDE DEF m
<1>6. /\ d \in Nat /\ d > 0 /\ d < 1440
      /\ (IF m + d < 1440 THEN m + d ELSE m + d - 1440) = (IF e = 1440 THEN 0 ELSE e)
  BY <1>1, <1>2, <1>4
<1>7. \A k \in Nat : k < d =>
        MinuteOfDay(u + k) = IF m + k < 1440 THEN m + k ELSE m + k - 1440
  <2> TAKE k \in Nat
  <2> HAVE k < d
  <2> QED
    BY <1>6, MinuteLater DEF m
<1>8. MinuteOfDay(u + d) = IF m + d < 1440 THEN m + d ELSE m + d - 1440
  BY <1>6, MinuteLater DEF m
<1>9. \A w \in u .. u + d - 1 : InQuietHours(w)
  <2> TAKE w \in u .. u + d - 1
  <2> HIDE DEF d
  <2>1. PICK k \in Nat : k < d /\ w = u + k
    <3>1. w - u \in Nat /\ w - u < d /\ w = u + (w - u)
      BY <1>6
    <3> QED
      BY <3>1
  <2>2. MinuteOfDay(w) = IF m + k < 1440 THEN m + k ELSE m + k - 1440
    BY <1>7, <2>1
  <2>3. k < IF m < e THEN e - m ELSE e - m + 1440
    BY <2>1 DEF d
  <2> QED
    BY <1>1, <1>2, <1>3, <1>4, <2>1, <2>2, <2>3
<1> HIDE DEF d
<1>10. ~InQuietHours(u + d)
  <2>1. MinuteOfDay(u + d) = IF e = 1440 THEN 0 ELSE e
    BY <1>6, <1>8
  <2> QED
    BY <1>2, <1>3, <2>1
<1> QED
  BY <1>5, <1>6, <1>9, <1>10

LEMMA OpenIsNow == ASSUME NEW u, ~InQuietHours(u) PROVE NextQuietHoursOpen(u) = u
BY DEF NextQuietHoursOpen

(* The last attempt ends the cooldown.                                     *)
LEMMA LastAttemptIsLast ==
  ASSUME NEW c \in CaseFields, IsFiniteSet(c.attempts), c.attempts # {}
  PROVE  LastAttempt(c) \in c.attempts /\ \A v \in c.attempts : v <= LastAttempt(c)
<1> DEFINE S == c.attempts
<1>1. S \subseteq Nat /\ S # {} /\ IsFiniteSet(S)
  BY DEF CaseFields
<1>2. \E m \in S : \A v \in S : v <= m
  <2> HIDE DEF S
  <2> QED
    BY <1>1, FiniteHasGreatest
<1> QED
  BY <1>2 DEF LastAttempt

(* What the gate tells by a deferral with an instant.                      *)
LEMMA DeferralFacts ==
  ASSUME NotAllDayQuiet, NEW c \in CaseFields, IsFiniteSet(c.attempts), NEW u \in Nat,
         NEW contact \in BOOLEAN, NEW money \in BOOLEAN,
         Evaluate(c, u, contact, money).decision = "defer",
         Evaluate(c, u, contact, money).at # NoTime
  PROVE  LET v == Evaluate(c, u, contact, money)
         IN  /\ v.at \in Nat /\ v.at > u
             /\ \A w \in u .. v.at - 1 : Evaluate(c, w, contact, money).decision # "execute"
             /\ \/ v.reason = "rbi_notice" /\ NeedsNotice(c)
                \/ /\ v.reason = "cooldown" /\ ~NeedsNotice(c)
                   /\ CoolingDown(c, u) /\ ~CoolingDown(c, v.at)
                \/ /\ v.reason = "quiet_hours_ist" /\ ~NeedsNotice(c)
                   /\ ~CoolingDown(c, u) /\ contact
                   /\ InQuietHours(u) /\ ~InQuietHours(v.at)
                   /\ \A w \in u .. v.at - 1 : InQuietHours(w)
<1> DEFINE v == Evaluate(c, u, contact, money)
<1>1. \/ v = Defer("rbi_notice", u + NoticeDelay) /\ NeedsNotice(c)
      \/ /\ v = Defer("cooldown", LastAttempt(c) + Cooldown)
         /\ ~NeedsNotice(c) /\ CoolingDown(c, u)
      \/ /\ v = Defer("quiet_hours_ist", NextQuietHoursOpen(u))
         /\ ~NeedsNotice(c) /\ ~CoolingDown(c, u) /\ contact /\ NextQuietHoursOpen(u) # u
  BY DEF Evaluate, Defer, Block, Execute
<1>2. CASE v = Defer("rbi_notice", u + NoticeDelay) /\ NeedsNotice(c)
  <2>1. v.at = u + 1440 /\ v.reason = "rbi_notice"
    BY <1>2 DEF Defer, NoticeDelay, Hour
  <2>2. \A w : Evaluate(c, w, contact, money).decision # "execute"
    BY <1>2 DEF Evaluate, Defer, Block
  <2> HIDE DEF v
  <2>3. v.at \in Nat /\ v.at > u
    BY <2>1
  <2> QED
    BY <1>2, <2>1, <2>2, <2>3 DEF v
<1>3. CASE /\ v = Defer("cooldown", LastAttempt(c) + Cooldown)
           /\ ~NeedsNotice(c) /\ CoolingDown(c, u)
  <2> DEFINE last == LastAttempt(c)
  <2>1. v.at = last + Cooldown /\ v.reason = "cooldown"
    BY <1>3 DEF Defer
  <2>2. /\ Cooldown \in Nat /\ c.attempts \subseteq Nat
        /\ last \in c.attempts /\ \A x \in c.attempts : x <= last
    BY <1>3, PolicyAssumption, LastAttemptIsLast DEF CoolingDown, CaseFields
  <2> HIDE DEF v, last
  <2>3. PICK x \in c.attempts : u < x + Cooldown
    BY <1>3 DEF CoolingDown
  <2>4. v.at \in Nat /\ v.at > u
    BY <2>1, <2>2, <2>3
  <2>5. ~CoolingDown(c, v.at)
    <3>1. \A y \in c.attempts : y \in Nat /\ ~(v.at < y + Cooldown)
      BY <2>1, <2>2
    <3> QED
      BY <3>1 DEF CoolingDown
  <2>6. \A w \in u .. v.at - 1 : CoolingDown(c, w)
    BY <2>1, <2>2 DEF CoolingDown
  <2>7. \A w \in u .. v.at - 1 : Evaluate(c, w, contact, money).decision # "execute"
    BY <2>6 DEF Evaluate, Defer, Block
  <2> QED
    BY <1>3, <2>1, <2>4, <2>5, <2>7 DEF v
<1>4. CASE /\ v = Defer("quiet_hours_ist", NextQuietHoursOpen(u))
           /\ ~NeedsNotice(c) /\ ~CoolingDown(c, u) /\ contact /\ NextQuietHoursOpen(u) # u
  <2> DEFINE opens == NextQuietHoursOpen(u)
  <2>1. v.at = opens /\ v.reason = "quiet_hours_ist"
    <3> HIDE DEF v, opens
    <3> QED
      BY <1>4 DEF Defer, opens
  <2>2. InQuietHours(u)
    BY <1>4, OpenIsNow
  <2>3. /\ opens \in Nat /\ opens > u /\ ~InQuietHours(opens)
        /\ \A w \in u .. opens - 1 : InQuietHours(w)
    BY <2>2, QuietOpens
  <2>4. \A w \in u .. opens - 1 : Evaluate(c, w, contact, money).decision # "execute"
    <3> SUFFICES ASSUME NEW w \in u .. opens - 1
                 PROVE  Evaluate(c, w, contact, money).decision # "execute"
      OBVIOUS
    <3>1. w \in Nat /\ InQuietHours(w)
      BY <2>3
    <3>2. NextQuietHoursOpen(w) # w
      BY <3>1, QuietOpens
    <3> QED
      BY <1>4, <3>2 DEF Evaluate, Defer, Block
  <2> HIDE DEF v, opens
  <2> QED
    BY <1>4, <2>1, <2>2, <2>3, <2>4 DEF v
<1> QED
  BY <1>1, <1>2, <1>3, <1>4

LEMMA ReasonFacts ==
  ASSUME NEW c, NEW u, NEW contact, NEW money
  PROVE  LET why == Evaluate(c, u, contact, money).reason
         IN  /\ why = "rbi_notice" => NeedsNotice(c)
             /\ why = "cooldown" => CoolingDown(c, u)
             /\ why = "quiet_hours_ist" => contact /\ InQuietHours(u)
BY OpenIsNow DEF Evaluate, Defer, Block, Execute

(* Where the case stands when it is visited again: no notice is wanted and *)
(* no cooldown runs, and the third time the window is open too.            *)
ChainInv ==
  /\ r \in CaseFields /\ IsFiniteSet(r.attempts) /\ type \in ActionType /\ t \in Nat
  /\ visits \in 1 .. 3 /\ state \in {"pending", "executed", "over"}
  /\ state = "pending" /\ visits > 1 => ~NeedsNotice(r) /\ ~CoolingDown(r, t)
  /\ state = "pending" /\ visits > 2 => ~(IsContact(type) /\ InQuietHours(t))

(* What one deferral leads to.                                             *)
LEMMA RevisitFacts ==
  ASSUME NotAllDayQuiet, ChainInv, Revisit
  PROVE  /\ ChainInv'
         /\ t' > t /\ visits' <= 3
         /\ \A u \in t .. t' - 1 :
              Evaluate(r, u, IsContact(type), IsMoney(type)).decision # "execute"
         /\ Verdict.reason = "quiet_hours_ist" =>
              ~QuietMinute(t') /\ \A u \in t .. t' - 1 : QuietMinute(u)
         /\ Verdict'.reason # Verdict.reason
<1> DEFINE contact == IsContact(type)
           money == IsMoney(type)
           v == Evaluate(r, t, contact, money)
<1>1. /\ r \in CaseFields /\ IsFiniteSet(r.attempts) /\ t \in Nat /\ type \in ActionType
      /\ contact \in BOOLEAN /\ money \in BOOLEAN /\ visits \in 1 .. 3
      /\ state = "pending" /\ state' = state /\ type' = type
  BY DEF ChainInv, Revisit, IsContact, IsMoney
<1>2. Verdict = v /\ v.decision = "defer" /\ v.at # NoTime /\ t' = v.at
      /\ r' = Deferred(r, v.reason) /\ visits' = visits + 1
  BY DEF Revisit, MayRevisit, Verdict
<1>3. /\ v.at \in Nat /\ v.at > t
      /\ \A w \in t .. v.at - 1 : Evaluate(r, w, contact, money).decision # "execute"
      /\ \/ v.reason = "rbi_notice" /\ NeedsNotice(r)
         \/ /\ v.reason = "cooldown" /\ ~NeedsNotice(r)
            /\ CoolingDown(r, t) /\ ~CoolingDown(r, v.at)
         \/ /\ v.reason = "quiet_hours_ist" /\ ~NeedsNotice(r)
            /\ ~CoolingDown(r, t) /\ contact
            /\ InQuietHours(t) /\ ~InQuietHours(v.at)
            /\ \A w \in t .. v.at - 1 : InQuietHours(w)
  BY <1>1, <1>2, DeferralFacts
<1>4. Verdict' = Evaluate(r', t', contact, money)
  BY <1>1 DEF Verdict
<1>5. /\ Verdict'.reason = "rbi_notice" => NeedsNotice(r')
      /\ Verdict'.reason = "cooldown" => CoolingDown(r', t')
      /\ Verdict'.reason = "quiet_hours_ist" => contact /\ InQuietHours(t')
  <2> DEFINE r1 == r'
             t1 == t'
  <2> HIDE DEF r1, t1
  <2>1. LET why == Evaluate(r1, t1, contact, money).reason
        IN  /\ why = "rbi_notice" => NeedsNotice(r1)
            /\ why = "cooldown" => CoolingDown(r1, t1)
            /\ why = "quiet_hours_ist" => contact /\ InQuietHours(t1)
    BY ReasonFacts
  <2> QED
    BY <1>4, <2>1 DEF r1, t1
<1>6. /\ r' \in CaseFields /\ r'.attempts = r.attempts /\ IsFiniteSet(r'.attempts)
      /\ r'.class = r.class /\ r'.amount = r.amount
      /\ v.reason = "rbi_notice" => r'.notice = TRUE
      /\ v.reason # "rbi_notice" => r' = r
  BY <1>1, <1>2 DEF Deferred, CaseFields
<1> HIDE DEF v, contact, money
<1>7. ~NeedsNotice(r') /\ ~CoolingDown(r', t')
  <2>1. CASE v.reason = "rbi_notice"
    <3>1. r.attempts = {}
      BY <1>3, <2>1 DEF NeedsNotice
    <3> QED
      BY <1>6, <2>1, <3>1 DEF NeedsNotice, CoolingDown
  <2>2. CASE v.reason = "cooldown"
    BY <1>2, <1>3, <1>6, <2>2
  <2>3. CASE v.reason = "quiet_hours_ist"
    <3>1. r' = r /\ ~NeedsNotice(r) /\ ~CoolingDown(r, t) /\ t' \in Nat /\ t' > t
      BY <1>2, <1>3, <1>6, <2>3
    <3>2. Cooldown \in Nat /\ r.attempts \subseteq Nat
      BY <1>1, PolicyAssumption DEF CaseFields
    <3>3. ~CoolingDown(r, t')
      BY <1>1, <3>1, <3>2 DEF CoolingDown
    <3> QED
      BY <3>1, <3>3
  <2> QED
    BY <1>3, <2>1, <2>2, <2>3
<1>8. visits > 1 => v.reason = "quiet_hours_ist"
  BY <1>1, <1>3 DEF ChainInv
<1>9. visits \in {1, 2}
  BY <1>1, <1>3, <1>8 DEF ChainInv, contact
<1>10. v.reason = "quiet_hours_ist" => ~InQuietHours(t')
  BY <1>2, <1>3
<1>11. ChainInv'
  BY <1>1, <1>2, <1>3, <1>6, <1>7, <1>8, <1>9, <1>10 DEF ChainInv
<1>12. Verdict'.reason # v.reason
  BY <1>3, <1>5, <1>7, <1>10
<1>13. v.reason = "quiet_hours_ist" =>
         ~QuietMinute(t') /\ \A u \in t .. t' - 1 : QuietMinute(u)
  <2> HAVE v.reason = "quiet_hours_ist"
  <2>1. t' \in Nat /\ ~InQuietHours(t') /\ \A w \in t .. t' - 1 : w \in Nat /\ InQuietHours(w)
    BY <1>1, <1>2, <1>3
  <2> DEFINE t1 == t'
  <2> HIDE DEF t1
  <2>2. t1 \in Nat /\ ~InQuietHours(t1) /\ \A w \in t .. t1 - 1 : w \in Nat /\ InQuietHours(w)
    BY <2>1 DEF t1
  <2>3. ~QuietMinute(t1) /\ \A u \in t .. t1 - 1 : QuietMinute(u)
    BY <2>2, HourByHour
  <2> QED
    BY <2>3 DEF t1
<1>14. \A u \in t .. t' - 1 : Evaluate(r, u, IsContact(type), IsMoney(type)).decision # "execute"
  BY <1>2, <1>3 DEF contact, money
<1>15. t' > t /\ visits' <= 3
  BY <1>2, <1>3, <1>9
<1> QED
  BY <1>2, <1>11, <1>12, <1>13, <1>14, <1>15

LEMMA ChainStep ==
  ASSUME NotAllDayQuiet, ChainInv, [ChainNext]_chainVars
  PROVE  ChainInv'
<1>1. CASE Revisit
  BY <1>1, RevisitFacts
<1>2. CASE GiveUp
  BY <1>2 DEF GiveUp, ChainInv
<1>3. CASE Run
  <2>1. /\ r \in CaseFields /\ IsFiniteSet(r.attempts) /\ t \in Nat
        /\ UNCHANGED <<type, t, visits>> /\ state' = "executed"
        /\ r' = [r EXCEPT !.attempts = IF CountsAsAttempt(type) THEN @ \cup {t} ELSE @,
                          !.status = "scheduled"]
    BY <1>3 DEF Run, ChainInv
  <2>2. r' \in CaseFields /\ r'.attempts \in {r.attempts, r.attempts \cup {t}}
    BY <2>1 DEF CaseFields, Active
  <2>3. IsFiniteSet(r.attempts \cup {t})
    BY <2>1, FS_AddElement
  <2>4. IsFiniteSet(r'.attempts)
    BY <2>1, <2>2, <2>3
  <2> QED
    BY <2>1, <2>2, <2>4 DEF ChainInv
<1>4. CASE Replan
  <2>1. PICK d \in NextDelays : t' = t + d
    BY <1>4 DEF Replan
  <2>2. type' \in ActionType /\ t' \in Nat
    BY <1>4, <2>1, ChainAssumption DEF Replan, ChainInv
  <2> QED
    BY <1>4, <2>2 DEF Replan, ChainInv
<1>5. CASE UNCHANGED chainVars
  BY <1>5 DEF chainVars, ChainInv, NeedsNotice, CoolingDown
<1> QED
  BY <1>1, <1>2, <1>3, <1>4, <1>5 DEF ChainNext

(* Every deferral is to the first instant the action may run, out of the   *)
(* quiet hours if it was for them, never for the same reason twice in a    *)
(* row, and no action is deferred more than twice (policy.py:41-52,        *)
(* 84-117, engine.py:73-75).                                               *)
THEOREM GateDefersTightly ==
  ASSUME NotAllDayQuiet
  PROVE  ChainSpec => DeferralsAreTight
<1>1. ChainInit => ChainInv
  BY ChainAssumption DEF ChainInit, ChainInv
<1>2. ChainInv /\ [ChainNext]_chainVars => ChainInv'
  BY ChainStep
<1>3. ChainInv /\ [ChainNext]_chainVars =>
        [visits' = visits + 1 =>
           /\ t' > t /\ visits' <= 3
           /\ \A u \in t .. t' - 1 :
                Evaluate(r, u, IsContact(type), IsMoney(type)).decision # "execute"
           /\ Verdict.reason = "quiet_hours_ist" =>
                ~QuietMinute(t') /\ \A u \in t .. t' - 1 : QuietMinute(u)
           /\ Verdict'.reason # Verdict.reason]_chainVars
  <2> SUFFICES ASSUME ChainInv, ChainNext, visits' = visits + 1
               PROVE  Revisit
    BY RevisitFacts
  <2>1. visits \in 1 .. 3
    BY DEF ChainInv
  <2> QED
    BY <2>1 DEF ChainNext, GiveUp, Run, Replan
<1> QED
  BY <1>1, <1>2, <1>3, PTL DEF ChainSpec, DeferralsAreTight
=============================================================================
