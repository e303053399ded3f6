---------------------------- MODULE DiagnosisQueue ----------------------------
(***************************************************************************)
(* The queue of app/webhook.py: the webhook accepts a failure and appends  *)
(* it to a list of the process; a processor, a request in a worker thread, *)
(* takes items off until it finds none, diagnoses each, and answers with   *)
(* all of them.  Two processors may run at once, a cron's and a worker's.  *)
(* A model that fails is an answer too (app/llm_client.py:68-70); a        *)
(* delivery whose prompt cannot be built is not.                           *)
(***************************************************************************)
EXTENDS Naturals, Sequences, SequencesExt

CONSTANTS
  Processor,
  MaxDeliveries      \* bound: failures delivered, redeliveries included

ASSUME QueueAssumption == MaxDeliveries \in Nat

VARIABLES
  queue,        \* the deliveries waiting, told by their order of arrival
  delivered,    \* how many have arrived
  stage,        \* where each processor stands
  item,         \* the delivery it holds
  results,      \* the deliveries it has diagnosed
  answered,     \* history: the answers given
  dropped,      \* history: deliveries that were accepted and lost
  disturbed     \* history: two processors have overlapped, one has raised
                \* over a malformed delivery, or a restart came

queueVars == <<queue, delivered, stage, item, results, answered, dropped, disturbed>>

QueueInit ==
  /\ queue = <<>> /\ delivered = 0
  /\ stage = [p \in Processor |-> "idle"] /\ item = [p \in Processor |-> 0]
  /\ results = [p \in Processor |-> <<>>]
  /\ answered = {} /\ dropped = {} /\ disturbed = FALSE

Accepts ==
  /\ delivered < MaxDeliveries
  /\ delivered' = delivered + 1
  /\ queue' = Append(queue, delivered')
  /\ UNCHANGED <<stage, item, results, answered, dropped, disturbed>>

MovesOn(p, from, to) == stage[p] = from /\ stage' = [stage EXCEPT ![p] = to]

Begins(p) ==
  /\ MovesOn(p, "idle", "looking")
  /\ results' = [results EXCEPT ![p] = <<>>]
  /\ disturbed' = (disturbed \/ \E o \in Processor : stage[o] # "idle")
  /\ UNCHANGED <<queue, delivered, item, answered, dropped>>

(* Mutant: the loop does not look before it takes.                         *)
MayTakeBlindly == TRUE

MayTake == queue # <<>>

Looks(p) ==
  /\ MayTake /\ MovesOn(p, "looking", "taking")
  /\ UNCHANGED <<queue, delivered, item, results, answered, dropped, disturbed>>

Taken(q) == [item |-> Head(q), rest |-> Tail(q)]

Takes(p) ==
  /\ queue # <<>> /\ MovesOn(p, "taking", "diagnosing")
  /\ item' = [item EXCEPT ![p] = Taken(queue).item]
  /\ queue' = Taken(queue).rest
  /\ UNCHANGED <<delivered, results, answered, dropped, disturbed>>

(* The other processor took the last item after this one had looked: pop   *)
(* raises, and what this one has diagnosed is never answered.              *)
TakesNothing(p) ==
  /\ queue = <<>> /\ MovesOn(p, "taking", "idle")
  /\ dropped' = dropped \cup ToSet(results[p])
  /\ results' = [results EXCEPT ![p] = <<>>]
  /\ UNCHANGED <<queue, delivered, item, answered, disturbed>>

Diagnoses(p) ==
  /\ MovesOn(p, "diagnosing", "looking")
  /\ results' = [results EXCEPT ![p] = Append(@, item[p])]
  /\ UNCHANGED <<queue, delivered, item, answered, dropped, disturbed>>

InHand(p) ==
  ToSet(results[p]) \cup IF stage[p] = "diagnosing" THEN {item[p]} ELSE {}

(* Raised before the model is asked: the failure, off the queue already,   *)
(* is lost with those diagnosed before it.                                 *)
Raises(p) ==
  /\ MovesOn(p, "diagnosing", "idle")
  /\ dropped' = dropped \cup InHand(p)
  /\ results' = [results EXCEPT ![p] = <<>>]
  /\ disturbed' = TRUE
  /\ UNCHANGED <<queue, delivered, item, answered>>

AnswersAll(p) ==
  /\ queue = <<>> /\ MovesOn(p, "looking", "idle")
  /\ answered' = answered \cup {results[p]}
  /\ results' = [results EXCEPT ![p] = <<>>]
  /\ UNCHANGED <<queue, delivered, item, dropped, disturbed>>

QueueRestart ==
  /\ queue # <<>> \/ \E p \in Processor : stage[p] # "idle"
  /\ queue' = <<>>
  /\ dropped' = dropped \cup ToSet(queue) \cup UNION {InHand(p) : p \in Processor}
  /\ stage' = [p \in Processor |-> "idle"]
  /\ results' = [p \in Processor |-> <<>>]
  /\ disturbed' = TRUE
  /\ UNCHANGED <<delivered, item, answered>>

QueueNext ==
  \/ Accepts
  \/ \E p \in Processor : \/ Begins(p)
                          \/ Looks(p)
                          \/ Takes(p)
                          \/ TakesNothing(p)
                          \/ Diagnoses(p)
                          \/ Raises(p)
                          \/ AnswersAll(p)
  \/ QueueRestart

QueueSpec == QueueInit /\ [][QueueNext]_queueVars

-----------------------------------------------------------------------------
QueueTypeOK ==
  /\ queue \in Seq(1 .. MaxDeliveries) /\ delivered \in 0 .. MaxDeliveries
  /\ stage \in [Processor -> {"idle", "looking", "taking", "diagnosing"}]
  /\ item \in [Processor -> 0 .. MaxDeliveries]
  /\ results \in [Processor -> Seq(1 .. MaxDeliveries)]
  /\ answered \subseteq Seq(1 .. MaxDeliveries) /\ dropped \subseteq 1 .. MaxDeliveries

Ascends(s) == \A i, j \in DOMAIN s : i < j => s[i] < s[j]

Answered == UNION {ToSet(a) : a \in answered}

(* An accepted failure is waiting, in hand, or answered, unless a restart  *)
(* came, a delivery made its diagnosis raise, or two processors met at the *)
(* end of the queue: one alone never finds it empty.  Even so none is      *)
(* handed out twice, an answer lists its failures in the order they        *)
(* arrived, and nothing that waits is older than anything taken            *)
(* (webhook.py:252-272).                                                   *)
NoneLostNorTwice ==
  /\ ~disturbed =>
       1 .. delivered = ToSet(queue) \cup Answered \cup UNION {InHand(p) : p \in Processor}
  /\ \A a \in answered : Ascends(a)
  /\ \A a, b \in answered : a # b => ToSet(a) \cap ToSet(b) = {}
  /\ \A w \in ToSet(queue), d \in Answered \cup UNION {InHand(p) : p \in Processor} : d < w
=============================================================================
