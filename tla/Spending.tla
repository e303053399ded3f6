------------------------------- MODULE Spending -------------------------------
(***************************************************************************)
(* The contact budget and the channel bandit of one process (app/policy.py *)
(* InterventionBudget, app/bandit.py) and the loop that feeds them after   *)
(* each simulated batch (app/main.py batch_run_stream, ws_replay).  The    *)
(* loop holds the event loop, but the endpoints run in threads beside it,  *)
(* so a reset, an update or a live action may fall between two rows.       *)
(***************************************************************************)
EXTENDS Integers, Sequences, FiniteSets, Sums

CONSTANTS
  ChannelLimit,    \* actions a new budget allows on each of its channels
  DefaultTotal,    \* actions it allows in all
  Totals,          \* totals an operator resets it to; none is refused
  Executed,        \* channels of the actions executed
  MaxRows, MaxBatches, MaxResets, MaxUpdates    \* bounds

Arm == {"whatsapp", "sms", "email", "voice", "retry"}
Budgeted == Arm \cup {"human"}

ASSUME SpendingAssumption ==
  /\ ChannelLimit \in [Budgeted -> Nat] /\ DefaultTotal \in Nat /\ Totals \subseteq Int
  /\ Executed \subseteq Arm \cup {"other"}
  /\ {MaxRows, MaxBatches, MaxResets, MaxUpdates} \subseteq Nat

VARIABLES
  executedRows,   \* the executed actions of the store: their channel, whether
                  \* the case has recovered money
  reading,        \* the rows a batch has read and not fed yet
  arms,           \* the bandit's counts
  budget,         \* the module's budget
  history         \* sizes of the tables read, updates received, resets,
                  \* and the actions charged to this budget

spendingVars == <<executedRows, reading, arms, budget, history>>

NewBudget(total) == [total |-> total, remaining |-> total, channel |-> ChannelLimit]
Zeroes(S) == [c \in S |-> 0]

SpendingInit ==
  /\ executedRows = <<>> /\ reading = <<>>
  /\ arms = [c \in Arm |-> [pulls |-> 0, recoveries |-> 0]]
  /\ budget = NewBudget(DefaultTotal)
  /\ history = [reads |-> <<>>, direct |-> Zeroes(Arm), resets |-> 0,
                charged |-> Zeroes(Budgeted)]

-----------------------------------------------------------------------------
(* Mutant: only the total is asked.                                        *)
CanSpendTotal(channel) == budget.remaining >= 1 /\ channel \in Budgeted

CanSpend(channel) ==
  budget.remaining >= 1 /\ channel \in Budgeted /\ budget.channel[channel] >= 1

Spend(channel) ==
  IF CanSpend(channel)
  THEN [budget EXCEPT !.remaining = @ - 1, !.channel[channel] = @ - 1]
  ELSE budget

Pulled(channel, recovered) ==
  IF channel \in Arm
  THEN [arms EXCEPT ![channel] =
          [pulls |-> @.pulls + 1, recoveries |-> @.recoveries + IF recovered THEN 1 ELSE 0]]
  ELSE arms

(* Mutant: a batch feeds the rows it added.                                *)
RowsReadNew(new) == new

(* What a batch feeds: every executed action of the store, its own new     *)
(* ones and those of all that came before.                                 *)
RowsRead(new) == executedRows \o new

(* A batch adds its executed actions to the store, then reads the table.   *)
RunBatch ==
  /\ reading = <<>> /\ Len(history.reads) < MaxBatches
  /\ \E n \in 0 .. 2 : \E new \in [1 .. n -> [channel : Executed, recovered : BOOLEAN]] :
       /\ Len(executedRows) + n <= MaxRows
       /\ executedRows' = executedRows \o new
       /\ reading' = RowsRead(new)
       /\ history' = [history EXCEPT !.reads = Append(@, Len(executedRows'))]
  /\ UNCHANGED <<arms, budget>>

FeedRow ==
  /\ reading # <<>>
  /\ LET a == Head(reading)
     IN  /\ arms' = Pulled(a.channel, a.recovered)
         /\ budget' = Spend(a.channel)
         /\ history' = IF a.channel \in Budgeted
                       THEN [history EXCEPT !.charged[a.channel] = @ + 1] ELSE history
  /\ reading' = Tail(reading)
  /\ UNCHANGED executedRows

(* POST /analytics/bandit/update                                           *)
BanditUpdate(channel, recovered) ==
  /\ history.direct[channel] < MaxUpdates
  /\ arms' = Pulled(channel, recovered)
  /\ history' = [history EXCEPT !.direct[channel] = @ + 1]
  /\ UNCHANGED <<executedRows, reading, budget>>

(* POST /budget/reset puts a new budget in the place of the old one.       *)
BudgetReset(total) ==
  /\ history.resets < MaxResets
  /\ budget' = NewBudget(total)
  /\ history' = [history EXCEPT !.resets = @ + 1, !.charged = Zeroes(Budgeted)]
  /\ UNCHANGED <<executedRows, reading, arms>>

(* The live agent executes an action, or the case of one is paid.          *)
ExecuteLive(channel) ==
  /\ Len(executedRows) < MaxRows
  /\ executedRows' = Append(executedRows, [channel |-> channel, recovered |-> FALSE])
  /\ UNCHANGED <<reading, arms, budget, history>>

CasePaid(i) ==
  /\ ~executedRows[i].recovered
  /\ executedRows' = [executedRows EXCEPT ![i].recovered = TRUE]
  /\ UNCHANGED <<reading, arms, budget, history>>

SpendingNext ==
  \/ RunBatch
  \/ FeedRow
  \/ \E c \in Executed \cap Arm, b \in BOOLEAN : BanditUpdate(c, b)
  \/ \E n \in Totals : BudgetReset(n)
  \/ \E c \in Executed : ExecuteLive(c)
  \/ \E i \in DOMAIN executedRows : CasePaid(i)

SpendingSpec == SpendingInit /\ [][SpendingNext]_spendingVars

-----------------------------------------------------------------------------
SpendingTypeOK ==
  /\ executedRows \in Seq([channel : Executed, recovered : BOOLEAN])
  /\ reading \in Seq([channel : Executed, recovered : BOOLEAN])
  /\ arms \in [Arm -> [pulls : Nat, recoveries : Nat]]
  /\ budget \in [total : Int, remaining : Int, channel : [Budgeted -> Nat]]
  /\ history \in [reads : Seq(Nat), direct : [Arm -> Nat], resets : Nat,
                  charged : [Budgeted -> Nat]]

Spent(channel) == ChannelLimit[channel] - budget.channel[channel]

(* Wherever resets fall in a running batch, no channel goes negative, nor  *)
(* the whole budget unless it was reset to a negative total, which is then *)
(* never spent; what is gone of the total is what is gone of the channels, *)
(* and an action charged since the reset is paid for unless its channel or *)
(* the budget is used up (policy.py:160-163, 186-199, main.py:735, 1597).  *)
BudgetConserved ==
  /\ budget.remaining >= 0 \/ budget.remaining = budget.total
  /\ \A c \in Budgeted : budget.channel[c] >= 0
  /\ budget.total - budget.remaining =
       Spent("whatsapp") + Spent("sms") + Spent("email") + Spent("voice")
       + Spent("retry") + Spent("human")
  /\ \A c \in Budgeted :
       \/ Spent(c) = history.charged[c]
       \/ /\ Spent(c) < history.charged[c]
          /\ budget.channel[c] = 0 \/ budget.remaining <= 0

(* How often the first n rows, or those still to be fed, use a channel.    *)
Uses(c, n) == Cardinality({i \in 1 .. n : executedRows[i].channel = c})
StillToFeed(c) == Cardinality({i \in DOMAIN reading : reading[i].channel = c})

(* An arm is pulled once for each of its actions in every batch from then  *)
(* on, not once for each action, and once for each update received: the    *)
(* counts are of batches times actions (main.py:732-739).                  *)
CountedInEveryBatch ==
  \A c \in Arm :
    /\ arms[c].pulls + StillToFeed(c) =
         history.direct[c]
         + Total([b \in DOMAIN history.reads |-> Uses(c, history.reads[b])])
    /\ arms[c].recoveries <= arms[c].pulls
=============================================================================
