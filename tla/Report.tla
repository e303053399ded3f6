-------------------------------- MODULE Report --------------------------------
(***************************************************************************)
(* What the service counts: the report of app/measure.py, and the funnel   *)
(* and segments of app/main.py, read off the tables of cases and actions.  *)
(* A batch is split within each failure class, by assign_groups of         *)
(* simulate/batch_generator.py; a live failure is always treated.  Shares  *)
(* are kept as the two counts they are made of.                            *)
(***************************************************************************)
EXTENDS Naturals, Sequences, FiniteSets, Sums

CONSTANTS
  CaseClass,            \* failure classes
  Amounts,              \* amounts at risk, in paise
  Payments,             \* amounts a payment may report
  ContactCost,          \* channels.*.cost_paise of each nudge; other actions are free
  ActionTypes,          \* the actions that may run
  Stratum, Treated,     \* 10 and 7: of so many cases of a class, treated
  MaxCases, MaxSteps    \* bounds

Nudge == {"nudge_whatsapp", "nudge_sms", "nudge_email", "nudge_voice"}

ASSUME ReportAssumption ==
  /\ Amounts \subseteq Nat /\ Payments \subseteq Nat
  /\ ContactCost \in [Nudge -> Nat]
  /\ {Stratum, Treated, MaxCases, MaxSteps} \subseteq Nat
  /\ Treated < Stratum

VARIABLES
  cases,       \* the table of cases, each with how many actions of each type
               \* were executed on it: every execution is a row of actions
  batches,     \* history: the classes of each batch
  steps        \* history: what has happened to cases

reportVars == <<cases, batches, steps>>

ReportInit == cases = <<>> /\ batches = <<>> /\ steps = 0

NewCase(class, amount, group) ==
  [class |-> class, amount |-> amount, group |-> group, status |-> "open",
   recovered |-> 0, promised |-> FALSE, executed |-> [t \in ActionTypes |-> 0]]

-----------------------------------------------------------------------------
SameBefore(classes, i) == Cardinality({j \in 1 .. i - 1 : classes[j] = classes[i]})

(* Mutant: the whole batch is one stratum.                                 *)
GroupOfAny(classes, i) == IF (i - 1) % Stratum < Treated THEN "treatment" ELSE "control"

(* assign_groups: the count of a class starts anew with each batch.        *)
GroupOf(classes, i) ==
  IF SameBefore(classes, i) % Stratum < Treated THEN "treatment" ELSE "control"

IngestBatch(classes) ==
  /\ Len(cases) + Len(classes) <= MaxCases
  /\ \E amount \in [DOMAIN classes -> Amounts] :
       cases' = cases \o [i \in DOMAIN classes |->
                            NewCase(classes[i], amount[i], GroupOf(classes, i))]
  /\ batches' = Append(batches, classes)
  /\ UNCHANGED steps

IngestLive(class, amount) ==
  /\ Len(cases) < MaxCases
  /\ cases' = Append(cases, NewCase(class, amount, "treatment"))
  /\ UNCHANGED <<batches, steps>>

Changes(i, c) ==
  /\ steps < MaxSteps /\ steps' = steps + 1
  /\ cases' = [cases EXCEPT ![i] = c]
  /\ UNCHANGED batches

(* An action of an open case is executed, of whichever group it is, and a  *)
(* type may be executed again.                                             *)
ExecuteAction(i, type) ==
  /\ cases[i].status = "open"
  /\ Changes(i, [cases[i] EXCEPT !.executed[type] = @ + 1])

(* mark_recovered also takes a case that was written off, and a payment of *)
(* no amount.                                                              *)
MarkRecovered(i, amount) ==
  /\ cases[i].status # "recovered"
  /\ Changes(i, [cases[i] EXCEPT !.status = "recovered", !.recovered = amount])

PromiseMade(i) ==
  /\ cases[i].status = "open"
  /\ Changes(i, [cases[i] EXCEPT !.promised = TRUE])

(* write_off asks nothing of the case: it takes a recovered one, too.      *)
WriteOff(i) == Changes(i, [cases[i] EXCEPT !.status = "written_off"])

ReportNext ==
  \/ \E n \in 1 .. MaxCases : \E classes \in [1 .. n -> CaseClass] : IngestBatch(classes)
  \/ \E class \in CaseClass, amount \in Amounts : IngestLive(class, amount)
  \/ \E i \in DOMAIN cases :
       \/ \E type \in ActionTypes : ExecuteAction(i, type)
       \/ \E amount \in Payments : MarkRecovered(i, amount)
       \/ PromiseMade(i)
       \/ WriteOff(i)

ReportSpec == ReportInit /\ [][ReportNext]_reportVars

-----------------------------------------------------------------------------
(* What is read off the table                                              *)

Recovered == {i \in DOMAIN cases : cases[i].recovered > 0}
InGroup(group) == {i \in DOMAIN cases : cases[i].group = group}
Money(S) == Total(At([i \in DOMAIN cases |-> cases[i].recovered], S))

(* _rates and build_report                                                 *)
GroupRates(group) ==
  [n |-> Cardinality(InGroup(group)),
   recovered |-> Cardinality(InGroup(group) \cap Recovered),
   paise |-> Money(InGroup(group) \cap Recovered)]

ClassRates(class) ==
  [group \in {"treatment", "control"} |->
     LET S == {i \in InGroup(group) : cases[i].class = class}
     IN  [n |-> Cardinality(S), recovered |-> Cardinality(S \cap Recovered)]]

PromisedCases == {i \in InGroup("treatment") : cases[i].promised}
PromisesKept == PromisedCases \cap Recovered

OverChannels(f(_)) ==
  f("nudge_whatsapp") + f("nudge_sms") + f("nudge_email") + f("nudge_voice")

Executions(c, type) == IF type \in ActionTypes THEN c.executed[type] ELSE 0

CostOfCase(c) == OverChannels(LAMBDA type : ContactCost[type] * Executions(c, type))

SpendPaise == Total([i \in DOMAIN cases |-> CostOfCase(cases[i])])

CostByChannel(type) ==
  ContactCost[type] * Total([i \in DOMAIN cases |-> Executions(cases[i], type)])

(* recovery_funnel: cases with an executed action count whatever their     *)
(* group, the other stages count the treated ones.                         *)
Funnel ==
  [failed |-> Cardinality(InGroup("treatment")),
   attempted |-> Cardinality({i \in DOMAIN cases :
                                \E type \in ActionTypes : cases[i].executed[type] > 0}),
   settled |-> Cardinality(InGroup("treatment") \cap Recovered),
   paused |-> Cardinality({i \in InGroup("treatment") :
                             cases[i].promised /\ cases[i].recovered = 0})]

(* Mutant: a case on the border is in both segments.                       *)
SegmentClosed(name) ==
  {i \in DOMAIN cases :
     CASE name = "standard" -> cases[i].amount <= 100000
       [] name = "growth" -> 100000 <= cases[i].amount /\ cases[i].amount <= 500000
       [] name = "enterprise" -> cases[i].amount >= 500000}

Segment(name) ==
  {i \in DOMAIN cases :
     CASE name = "standard" -> cases[i].amount < 100000
       [] name = "growth" -> 100000 <= cases[i].amount /\ cases[i].amount < 500000
       [] name = "enterprise" -> cases[i].amount >= 500000}

Segments ==
  [name \in {"standard", "growth", "enterprise"} |->
     [cases |-> Cardinality(Segment(name)),
      recovered |-> Cardinality(Segment(name) \cap Recovered),
      paise |-> Money(Segment(name))]]

ReportTypeOK ==
  /\ Len(cases) <= MaxCases /\ steps <= MaxSteps
  /\ \A i \in DOMAIN cases : cases[i] \in
       [class : CaseClass, amount : Amounts, group : {"treatment", "control"},
        status : {"open", "recovered", "written_off"}, recovered : Payments \cup {0},
        promised : BOOLEAN, executed : [ActionTypes -> Nat]]

OverSegments(f(_)) == f("standard") + f("growth") + f("enterprise")

(* The three endpoints tell one story however cases are paid, promised,    *)
(* written off after they were paid, or paid after they were written off:  *)
(* the segments and the two groups divide the same cases, recoveries and   *)
(* money, the funnel settles what the report calls recovered, a promise    *)
(* counts as kept or as pausing its case, and the channels account for all *)
(* that is spent (measure.py:20-31, 104-157, main.py:853-892, 1126-1144).  *)
EndpointsAgree ==
  LET t == GroupRates("treatment") c == GroupRates("control")
  IN  /\ OverSegments(LAMBDA s : Segments[s].cases) = t.n + c.n
      /\ OverSegments(LAMBDA s : Segments[s].recovered) = t.recovered + c.recovered
      /\ OverSegments(LAMBDA s : Segments[s].paise) = t.paise + c.paise
      /\ Funnel.settled = t.recovered
      /\ Funnel.paused + Cardinality(PromisesKept) = Cardinality(PromisedCases)
      /\ SpendPaise = OverChannels(CostByChannel)

InBatch(class, b) == Cardinality({i \in DOMAIN batches[b] : batches[b][i] = class})

(* The lift of a class is told against no control, and is then its bare    *)
(* recovery rate, exactly when no single batch had more cases of the class *)
(* than the share of a stratum that is treated, however many the store has *)
(* by now; its treated cases are never fewer than that share of all        *)
(* (batch_generator.py:97-106, measure.py:77-90).                          *)
BareLiftOfSmallStrata ==
  \A class \in CaseClass :
    LET rates == ClassRates(class)
    IN  /\ rates["control"].n = 0 <=>
             \A b \in DOMAIN batches : InBatch(class, b) <= Treated
        /\ Stratum * rates["treatment"].n >=
             Treated * (rates["treatment"].n + rates["control"].n)
=============================================================================
