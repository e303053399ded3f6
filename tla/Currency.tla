------------------------------- MODULE Currency -------------------------------
(***************************************************************************)
(* The exchange-rate cache that every request of a process shares          *)
(* (app/currency.py).  Requests run in threads and take no lock: several   *)
(* may find the rates old, fetch, and install their answers rate by rate   *)
(* with the stamp last.  Amounts do not matter here, only where the rates  *)
(* come from: each carries the fetch that set it, and whether its answer   *)
(* gave a rate or the fetch fell back on the built-in one.                 *)
(***************************************************************************)
EXTENDS Naturals, FiniteSets

CONSTANTS
  Requester,      \* the threads requests run in
  CacheTtl,       \* a stamp older than this is refetched
  InstallLag,     \* bound: time from an answer to its stamp
  LastInstant,    \* bound: the last instant
  MaxAnswers,     \* bound: fetches answered
  MayGive         \* the sets of currencies an answer may give a rate for

Quoted == {"USD", "EUR"}

ASSUME CurrencyAssumption ==
  /\ {CacheTtl, InstallLag, LastInstant, MaxAnswers} \subseteq Nat
  /\ MayGive \subseteq SUBSET Quoted

VARIABLES
  instant,    \* time.time(); a new process finds it far beyond the ttl
  rates,      \* the fetch each rate was set by, when it was answered, and
              \* whether the answer gave it
  stamp,      \* _rate_timestamp
  asking,     \* the requests
  clashed,    \* history: two answers were being installed at once
  answers,    \* history: fetches answered
  lacked      \* history: currencies some answer gave no rate for

currencyVars == <<instant, rates, stamp, asking, clashed, answers, lacked>>

BuiltIn == [fetch |-> 0, at |-> 0, given |-> FALSE]
Nothing == [fetch |-> 0, at |-> 0, gives |-> {}]
Idle == [at |-> "idle", checked |-> 0, failed |-> FALSE, got |-> Nothing]

CurrencyInit ==
  /\ instant = CacheTtl + 1 /\ stamp = 0
  /\ rates = [c \in Quoted |-> BuiltIn]
  /\ asking = [q \in Requester |-> Idle]
  /\ clashed = FALSE /\ answers = 0 /\ lacked = {}

Moves(q, place) == asking' = [asking EXCEPT ![q].at = place]
Installing(q) == asking[q].at \in {"USD", "EUR", "stamp"}

-----------------------------------------------------------------------------
(* A conversion or a question for the rate: the endpoint makes both, one   *)
(* after the other.  _ensure_fresh_rates comes first; converting a         *)
(* currency to itself returns before it, and is not seen here.             *)
EnsureFresh(q) ==
  /\ asking[q].at = "idle"
  /\ asking' = [asking EXCEPT
       ![q].at = IF instant - stamp > CacheTtl THEN "fetch" ELSE "read",
       ![q].checked = instant]
  /\ UNCHANGED <<instant, rates, stamp, clashed, answers, lacked>>

(* A successful answer with rates, though not always with both: what rate  *)
(* it gives is taken as it comes.                                          *)
FetchAnswered(q) ==
  /\ asking[q].at = "fetch" /\ answers < MaxAnswers
  /\ answers' = answers + 1
  /\ \E gives \in MayGive :
       /\ asking' = [asking EXCEPT
            ![q].at = "USD",
            ![q].got = [fetch |-> answers', at |-> instant, gives |-> gives]]
       /\ lacked' = lacked \cup (Quoted \ gives)
  /\ clashed' = (clashed \/ \E p \in Requester : Installing(p))
  /\ UNCHANGED <<instant, rates, stamp>>

(* No answer, an error of theirs, or one that cannot be read: the stamp    *)
(* stays, and so the next request fetches again.                           *)
FetchFailed(q) ==
  /\ asking[q].at = "fetch"
  /\ asking' = [asking EXCEPT ![q].at = "read", ![q].failed = TRUE]
  /\ UNCHANGED <<instant, rates, stamp, clashed, answers, lacked>>

Stamp(q) ==
  /\ asking[q].at = "stamp"
  /\ stamp' = instant
  /\ asking' = [asking EXCEPT ![q].at = "read", ![q].got = Nothing]
  /\ UNCHANGED <<instant, rates, clashed, answers, lacked>>

(* The rate a fetch sets: the built-in one where its answer has none.      *)
RateOf(got, c) == [fetch |-> got.fetch, at |-> got.at, given |-> c \in got.gives]

(* Mutant: the stamp is renewed together with the first rate.              *)
InstallStamped(q) ==
  /\ asking[q].at \in Quoted
  /\ rates' = [rates EXCEPT ![asking[q].at] = RateOf(asking[q].got, asking[q].at)]
  /\ stamp' = instant
  /\ Moves(q, IF asking[q].at = "USD" THEN "EUR" ELSE "stamp")
  /\ UNCHANGED <<instant, clashed, answers, lacked>>

(* Mutant: a currency the answer lacks keeps the rate it has.              *)
InstallKnown(q) ==
  /\ asking[q].at \in Quoted
  /\ rates' = IF asking[q].at \in asking[q].got.gives
              THEN [rates EXCEPT ![asking[q].at] = RateOf(asking[q].got, asking[q].at)]
              ELSE rates
  /\ Moves(q, IF asking[q].at = "USD" THEN "EUR" ELSE "stamp")
  /\ UNCHANGED <<instant, stamp, clashed, answers, lacked>>

Install(q) ==
  /\ asking[q].at \in Quoted
  /\ rates' = [rates EXCEPT ![asking[q].at] = RateOf(asking[q].got, asking[q].at)]
  /\ Moves(q, IF asking[q].at = "USD" THEN "EUR" ELSE "stamp")
  /\ UNCHANGED <<instant, stamp, clashed, answers, lacked>>

(* The two rates are read one after the other, at any time between the     *)
(* check and this.                                                         *)
Return(q) ==
  /\ asking[q].at = "read"
  /\ asking' = [asking EXCEPT ![q] = Idle]
  /\ UNCHANGED <<instant, rates, stamp, clashed, answers, lacked>>

(* Installing an answer takes no longer than the lag.                      *)
TimePasses ==
  /\ instant < LastInstant
  /\ \A q \in Requester : Installing(q) => instant < asking[q].got.at + InstallLag
  /\ instant' = instant + 1
  /\ UNCHANGED <<rates, stamp, asking, clashed, answers, lacked>>

CurrencyNext ==
  \/ TimePasses
  \/ \E q \in Requester :
       \/ EnsureFresh(q) \/ FetchAnswered(q) \/ FetchFailed(q)
       \/ Install(q) \/ Stamp(q) \/ Return(q)

CurrencySpec == CurrencyInit /\ [][CurrencyNext]_currencyVars

-----------------------------------------------------------------------------
RateType == [fetch : 0 .. MaxAnswers, at : Nat, given : BOOLEAN]
AnswerType == [fetch : 0 .. MaxAnswers, at : Nat, gives : SUBSET Quoted]

CurrencyTypeOK ==
  /\ instant \in Nat /\ stamp \in 0 .. instant
  /\ rates \in [Quoted -> RateType] /\ answers \in 0 .. MaxAnswers
  /\ clashed \in BOOLEAN /\ lacked \subseteq Quoted
  /\ asking \in [Requester ->
       [at : {"idle", "fetch", "USD", "EUR", "stamp", "read"}, checked : Nat,
        failed : BOOLEAN, got : AnswerType]]

(* A request whose own fetch did not fail computes with rates a fetch set  *)
(* within the ttl and the lags of two installations before it looked,      *)
(* whoever installs meanwhile: the stamp comes after the rates it dates.   *)
(* They are what an answer gave, unless some answer lacked the currency    *)
(* (currency.py:44-51, 61-63).                                             *)
OldRatesOnlyAfterFailure ==
  \A q \in Requester, c \in Quoted :
    asking[q].at = "read" /\ ~asking[q].failed =>
      /\ rates[c].fetch > 0
      /\ rates[c].at + CacheTtl + 2 * InstallLag >= asking[q].checked
      /\ rates[c].given \/ c \in lacked

(* With no installation under way the two rates were set by one fetch, one *)
(* of them maybe to the built-in rate, unless two answers were once        *)
(* installed at the same time: then a pair of two fetches can stay, as     *)
(* fresh as any, until the ttl is over.                                    *)
TornOnlyByClash ==
  (\A q \in Requester : ~Installing(q)) /\ rates["USD"].fetch # rates["EUR"].fetch
    => clashed
=============================================================================
