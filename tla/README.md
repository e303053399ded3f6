# Verification of the recovery agent

TLA+ models of the payment-recovery agent in `src/`, the TLC runs that check
them on small instances, and proofs, checked by TLAPS, of the properties that
matter most for every instance.

- [The system](#the-system): components, state, operations, interactions
- [Modules](#modules): which models what, and how it corresponds to the code
- [Runs](#runs): what TLC checks, bounds, fairness
- [Where the code and its documents disagree](#where-the-code-and-its-documents-disagree)
- [Proofs](#proofs)
- [Not modelled](#not-modelled)
- [Plan](#plan)

## The system

A failed payment becomes a *recovery case*. The agent picks one next action
for it (a nudge on some channel, a payment link, a charge, an escalation),
schedules it, and executes it when due, if the policy gate lets it. A payment
or a reply of the customer, or an operator, ends or redirects the case. Two
drivers use the same agent: the live HTTP service and an offline replay.

| component | state it keeps | operations | correct when |
|---|---|---|---|
| policy gate `app/policy.py` | none | `evaluate`, `should_write_off`, quiet hours | caps, cooldown, quiet hours and approvals hold whatever the order of proposals; a deferral leads somewhere |
| selector `app/selector.py` | none | `select_next_action` | one action per case and attempt count |
| agent `app/agent.py` | none of its own (cases and actions through the store) | `ingest_failure`, `plan_and_schedule`, `mark_recovered`, `write_off` | closing a case stops its ladder; money is booked once |
| executor `app/executor.py` | none of its own | `execute_action`, promise check | an attempt is recorded for what is sent; a deferral remembers its notice |
| store `app/store.py` | tables `cases`, `actions`, `webhook_events`, `audit` | upserts, `due_actions`, `supersede_scheduled`, event table | a redelivered event is recognised; a superseded action stays so |
| HTTP service `app/main.py` | none of its own | webhooks, replies, approve, opt-out, tick, dashboards | the contract of a case holds under any interleaving of handlers |
| replay `simulate/engine.py`, world `simulate/world.py` | a heap of events, visit counts, latent draws | `case_ingest`, `action_due`, `organic`, `promise_paid`, `sweep`, end of run | ends, closes every case once, keeps the contract |
| promise parsing `app/promisetopay.py` | none | `parse_reply` | the parsed instant is one the customer meant, and ahead |
| audit chain `app/audit_chain.py` | list of hash links of the process | `append`, `verify` | the chain agrees with the table; a verdict of valid pins the history |
| rate limiter `app/ratelimit.py` | a window and a count per client | `check` | bounded over any stretch; refuses for cause; honest about when to retry |
| diagnosis queue `app/webhook.py` | in-memory queue | accept, process | nothing lost or diagnosed twice, in order |
| portfolio `app/portfolio.py` | none | knapsack, greedy | the selection is optimal in hundredths and fits in them |
| CUSUM detector `app/cusum.py` | two sums | `update` | no start of a shift is missed |
| budget `app/policy.py`, bandit `app/bandit.py` | counters of the process | `spend`, reset, `update`, the feed after a batch | nothing goes negative by spending, each count has a known cause |
| currency rates `app/currency.py` | two rates and a stamp, shared by the request threads | age check, fetch, conversion | no request computes with rates older than promised, or set by two fetches |
| failure windows `app/degradation.py` | times per scope | `record_failure`, `evaluate`, `is_degraded` | the two readers agree, whatever order failures arrive in |
| network health `app/network_health.py` | the last outcomes of a method | `record_event`, `get_status` | an outage is seen when it begins |
| classifier `app/classifier.py`, `classifier_vulcan.py`, `llm.py` | none | `classify`, the fallback of `ingest_failure` | the class is that of the words; a service that fails changes nothing |
| prediction and uplift `app/recovery_model.py`, `uplift.py` | none while untrained | `predict`, `uplift` | the economic tests agree about a case |
| inspection endpoints of `app/main.py` | none | decision, uplift, revalidate | what an operator is shown is what the executor does |
| report `app/measure.py`, funnel and segments of `main.py`, split of `simulate/batch_generator.py` | none | `build_report`, `assign_groups`, ... | all views count the same cases; treatment has a control to compare with |

Interaction. Every request opens its own `Store` on one SQLite file, and every
write of the store is a commit of its own. `async` handlers (webhook, reply)
run on the event loop, plain ones (tick, opt-out, approve) in worker threads.
One ticker replica posts `/tick` once a minute. The tick reads the list of due
actions once, then for each action re-reads the case and executes the action
*as it was in the list*.

What is hard here: a handler that runs between the listing and the execution
of an action; restarts, which cut a handler between two commits, lose the tick
in progress and change the ids of webhooks that carry none; redelivered
webhooks; chains of deferrals (notice, cooldown, quiet hours across midnight
of another time zone); promises that race the ladder they pause; lists of the
process that threads share without a lock; and ends: whether each scheduled
action, each case and the replay come to one.
`PROJECT.json` lists these hazards line by line with the properties that
watch them.

## Modules

| module | models | lines of code |
|---|---|---|
| `PolicyGate` | the gate as pure operators over a case document | `app/policy.py:34-152`, `app/models.py` |
| `Selector` | the decision table of the next action | `app/selector.py`, `economic_stop` |
| `RecoveryContract` | abstract: what the agent promises about a case | – |
| `LiveAgent` | the live service over its store | `app/main.py`, `agent.py`, `executor.py`, `store.py` |
| `DeferralChain` | one case proposed to the gate again and again | `executor.py`, `engine.py:70-108` |
| `SimEngine` | the replay: event heap, world's answers, sweep, end | `simulate/engine.py`, `simulate/world.py` |
| `StoreRace` | one stored case at the grain of store calls | handlers of `main.py`, `executor.py:92-202`, `store.py` |
| `AuditChain` | appends of several threads to the hash chain, and the audit table | `audit_chain.py:39-95`, `store.py:229-242` |
| `RateLimiter` | the fixed-window limiter and its eviction | `ratelimit.py:22-50` |
| `DiagnosisQueue` | the queue of diagnoses and its processors | `webhook.py:133-272` |
| `PromiseReply` | what a reply means, and when a promise is due | `promisetopay.py:104-172` |
| `Portfolio` | knapsack and greedy selection | `portfolio.py:15-82` |
| `Cusum` | the change-point detector | `cusum.py:15-33` |
| `Spending` | the contact budget, the bandit's counts and their feed | `policy.py:158-213`, `bandit.py:25-52`, `main.py:733-741`, `:1498-1608` |
| `Currency` | the exchange-rate cache shared by requests | `currency.py:14-106` |
| `Degradation` | the failure windows of a scope | `degradation.py:36-117` |
| `NetworkHealth` | one method's outcomes and status | `network_health.py:28-79` |
| `Classifier` | from a text to a class and the first action | `classifier.py:19-78`, `classifier_vulcan.py:27-52`, `agent.py:37-59` |
| `Decision` | inspector, uplift and revalidation of a case | `main.py:981-1075`, `:1545-1583`, `recovery_model.py:180-213`, `uplift.py`, `policy.py:220-246` |
| `Report` | groups, report, funnel and segments | `measure.py:20-117`, `main.py:845-908`, `:1126-1156`, `batch_generator.py:97-106` |
| `Sums` | sums of a list of numbers, for `Cusum`, `Spending`, `Report` and `Portfolio` | `measure.py:21-29`, `:85` |
| `MCLiveAgent`, `MCSimEngine`, `MCStoreRace`, `MCParts` | instances for TLC | – |
| `RecoveryContractProofs`, `GateProofs`, `LiveAgentProofs`, `StoreRaceProofs`, `SimEngineProofs`, `ListProofs`, `SumProofs`, `PartsProofs` | theorems | – |

`LiveAgent` and `SimEngine` EXTEND `Selector`, which EXTENDS `PolicyGate`;
both, and `StoreRace`, INSTANCE `RecoveryContract` with a refinement mapping.
`Classifier` and `Decision` EXTEND `Selector`, so that the first step and the
gate they speak of are the ones of the service. The modules from `AuditChain`
to `Report` share no state with the cases of `LiveAgent` or with one another.
`MCParts` explores them, and `DeferralChain`, in one run: its variable `part`
says which one moves, and the others keep one idle state.

**Time** is in minutes from a midnight UTC; IST is 330 minutes ahead. Seconds
are dropped. `NoTime` is Python's `None`.

**PolicyGate.** A case is a record of the fields the gate and the handlers
read (`CaseFields`). `Evaluate` follows the early returns of `evaluate` in
their order; each test is an operator named for it (`NeedsApproval`,
`NeedsNotice`, `CoolingDown`, ...). `attempt_times` is a set: while the
cooldown is positive two attempts of one case differ in time.

**Selector.** `NextSteps` is `select_next_action`: the set of the one step, or
empty for NO_ACTION. The expected-value test depends on probabilities of the
prediction model; its result is the Boolean parameter `worth`, chosen freely
by `LiveAgent` and `SimEngine`. `Decision` computes it, and shows that it never
decides: `NoActionIsEconomicStop`. The WhatsApp, SMS, email ladder is the constant
`Ladder`, the salary-cycle instants of the modelled calendar `SalarySlots`.

**LiveAgent.** State: the clock `now`; `row`, the JSON documents of the cases
table; `act`, the actions table, with the `scheduled_at` *column* as `due`
(which a later save of the same action does not change, `store.py:164-165`);
`processed`, the events table; `tickDue`/`tickAt`, what a running tick still
has to handle and its instant; `epoch`, the incarnation of the process;
`noticedAt`, a history variable. One action per handler, with the calls it
makes folded in: `PaymentFailed`, `PaymentLinkPaid`, `ReplyStop`, `ReplyPaid`,
`ReplyRefused`, `ReplyPromise`, `Approve`, `OperatorOptOut`, `DemoVerify`;
`BatchRunCloses` is the last pass of a demo batch, which runs the replay over
the live store and writes off every open case there (`main.py:730`, `:1699`). A
tick is `TickStart` and then one step per listed action: `SkipClosed`,
`CheckPromise`, `GateDefers`, `GateBlocks`, `LinkFails`, `VoiceRaises`,
`Executes`; any handler may run between two of them. `CrashIn...` cut a
handler after each of its commits that leaves a state of its own; `Restart`
between handlers.

Two facts of the code worth knowing when reading it. A planned instant is
stored as IST text and compared with UTC text by `due_actions`, so a planned
action falls due 330 minutes after the instant meant (`PlanAndSchedule`); a
promise check is stored in UTC and is not shifted. And a webhook without an
`event_id` is identified by Python's `hash`, which changes with the process
(`EventId`; constant `EventIdInBody`).

Atomicity. A handler is one step, and so is one action of a tick. That is
exact for a handler against the *list* of a running tick, and for crashes; two
handlers whose read and write of the same case overlap are `StoreRace`'s.

**StoreRace.** The same handlers on one case, each the sequence of store calls
it makes after its read (`StopCalls`, `RecoverCalls`, `DeferCalls`, ...). At
most three are under way: the tick and one operator request in worker
threads, and one webhook or reply, since the event loop runs one at a time. A
call is a step: `UpsertsCase` writes the handler's whole copy back,
`Supersedes`, `Plans`, `Sends` and `SavesAction` are the others. `RunCalls` is
an action the gate lets run: its link may fail, and the request to the voice
provider may raise with the call placed or not. `Raises` ends the tick then, as
nothing catches the exception: the action stays scheduled, and `unanswered`
counts the calls that were placed all the same, which the next tick places
again (`executor.py:144-149`, `:56`). Two history
variables carry the argument: `seen`, the stored document as a handler last
knew it, and `lost`, set when a handler writes over one it never saw. The run
shows that losing an update is the *only* thing that can break the contract: up
to it every step keeps it. The contract speaks of recorded attempts; sends that
no attempt records, those of a crash before the count and unanswered calls, are
`SentOnce`'s.

**SimEngine.** State: `heap`, the events in the order `heapq` pops them (time,
then insertion: `Push` inserts stably); the case documents `row`; `acts`, the
actions in the order saved, with their visit counts; `sent`, an executed
action whose answer is still to come; `review`, the cases a sweep or the end
of the run has yet to look at; `pledge`, the draws of a customer's promises,
made once since the code hashes them from the case alone. An `action_due`
event is `Drops`, `Defers`, `Blocks`, `ChecksPromise` or `Executes`; an
execution is followed by `Closes` (escalation, STOP), `Pays`, `Ignores` or
`Promises`. Here instants are parsed, so there is no IST shift, and a broken
promise does resume the ladder. A batch has the classes the world knows the
chances of (`AnsweredClass`): of any other `base_probability` raises
`KeyError`.

**AuditChain.** `append` reads the length of the list, then its last hash, then
appends; then `append_audit` inserts the row. These are `ReadsIndex`,
`ReadsPrevious`, `AppendsLink` and `InsertsRow`, a step each, in every thread;
`InsertFails` leaves the link without its row, and `AuditRestart` empties the
list and keeps the table. SHA-256 is taken as injective: a hash is the sequence
of events it stands on. Two overlapping appends do break the chain (it stops
verifying, or indices repeat); the history variable `raced` marks them, and up
to then the chain is whole. `verify_audit_chain` says "from database"
(`store.py:245`) and reads the list in memory only, so `Verified` never looks
at `rows`.

**RateLimiter.** The middleware calls `check` on the event loop, so it is one
step. Time is in half seconds: the answer to a refused caller is in whole ones.

**DiagnosisQueue.** A processor is a plain handler, so two may run in two
worker threads: `Looks` (the test of the `while`) and `Takes` (`pop(0)`) are
two steps, and `TakesNothing` is the `IndexError` in between. `Raises` is a
diagnosis that fails outside the client's `try` (a currency, an amount or a
prompt that cannot be built). What a failed processor had diagnosed is lost.

**PromiseReply.** A reply is the set of phrases it contains; `Order` is the
order of the patterns. The weekday patterns `mon`, `tue`, ... need a letter
before them, so the abbreviations of the table are never recognised, and the
model has full names only. "0 tarikh" raises.

**Portfolio.** Times in thousandths of an hour, truncated to hundredths by the
code. `Short` are the hours whose float product with 100 falls below the whole
number: `int(0.58 * 100)` is 57, `int(0.29 * 100)` is 28. `Units` loses a
hundredth on them, so a capacity may be smaller and a case cheaper than told.
The knapsack is optimal and fits in these units; it is no worse than the greedy
choice unless the capacity itself fell short (`SelectionIsOptimal`), and is worse
when it did (`KnapsackBeatsGreedy`). Greedy compares floats too: cases of the
same value per hour may come in either order (`Orders`), and a sum that is just
the capacity may pass the test or not (`over`).

**Cusum.** Rates, drift and threshold in hundredths. `Excess` is the definition
the sums are held against: the largest total any run of the latest rates
exceeds (or stays below) the baseline by, drift taken off each.

**Spending.** A batch run appends its executed actions to the store, reads the
*whole* table (`RowsRead`) and feeds it row by row (`FeedRow`) to bandit and
budget. The loop is on the event loop but the endpoints run in threads, so
`BanditUpdate`, `BudgetReset` or an action of the live service may fall between
two rows. `history` keeps the sizes of the tables read and what was charged to
the present budget: `CountedInEveryBatch` states the consequence, that pulls
count an action once for each batch from then on. The `human` channel of the
budget is never charged: `_channel_from_action` answers `other` for an
escalation. `/budget/reset` refuses no total: a negative one is a budget that
is never spent, and stays as it was set.

**Currency.** A rate carries the fetch that set it, when that was answered, and
whether the answer gave it (`given`): of an answer that lacks a currency the code
installs the built-in rate, and the stamp makes it look as fresh as the other
(`currency.py:45-46`). `lacked` are the currencies some answer lacked.
`EnsureFresh` looks at the age, `FetchAnswered` and `FetchFailed` end the
call, `Install` assigns one rate, `Stamp` the time; `Return` reads the rates at
any later moment. `InstallLag` bounds the time between an answer and its stamp;
the bound of `OldRatesOnlyAfterFailure` counts it twice, because the stamp a
request trusts may be that of a slow installation while another, of an older
answer, still overwrites a rate. TLC finds it violated with one lag.

**Degradation.** `record_failure` is given the time the payment failed, and
prunes by it: `Pruned` removes what is older than the failure being recorded,
not older than now. The baselines are constant, one of `BaselineSets`:
`update_baselines` is called by tests only, so in the service there are none
and nothing is ever degraded; the property covers both.

**NetworkHealth.** One method. Rates are compared as cross products of counts,
where the code divides floats. Nothing in `src/` calls `record_event` or its
wrappers, so the endpoint reports no method until something outside does.

**Classifier.** A text is the set of rules it has words of, each named by one
of its phrases: the code searches for substrings in the order of `_RULES`.
`Opinions` are what a service may answer; a service that is off, fails or
answers no JSON is `NoAnswer`. JSON of the wrong shape raises out of `classify`
(`LlmRaises`), as the reading of it is outside `chat_json`'s `try`: an answer that
is no object has no `get`, a class that is a list or an object cannot be looked
up in a dict, and `float()` fails on a confidence that is no number. Vulcan's
whole reading is inside its `try`, so there all these are no answer; its
confidence is clamped, the LLM's is not.

**Decision.** The inspector asks the gate with a flag of its own for contacts
(`InspectedContact`: all but a charge) where the executor has a table
(`IsContact`); `InspectorShowsTheGate` says which verdicts differ for it.
Chances are in ten-thousandths and rounded half up, where `round()` of the code
rounds the nearest double of a product; the two differ at most on an exact tie,
by one ten-thousandth. `Expected` splits the amount in two, as TLC's integers
are of 32 bits. The model is the rule of an untrained one, as nothing but
scripts trains it.

**Report.** A case carries what the views read: class, amount, group, status,
recovered amount, promise, and how often an action of each type was executed.
`IngestBatch` splits one batch by
`assign_groups`, `IngestLive` opens a treated case; the rest is what handlers
do to a case, `WriteOff` after a payment included. The views are operators over
the table; shares are kept as the two counts they are made of. 10 and 7 of the
split are scaled to `Stratum` and `Treated`.

**RecoveryContract.** Per case a phase, the instants of attempts, the instant
it was opened and the opt-out flag. An attempt is allowed only for an active
case that has not opted out, at least `Cooldown` after every other, with fewer
than `MaxAttempts` in the window, and before the expiry. `Spaced`, `Capped`
and `OptOutIsFinal` are its consequences.

## Runs

Common values are those of `config.yaml`: 72 h window, 3 attempts, 240 min
cooldown, 336 h expiry, 168 h final follow-up, Rs 25,000 cap, quiet hours 22
to 8 IST. Deadlock is not checked in the live runs: their clock and counters
end at a bound. It is checked in the replay, which stutters only when done.

| run | instance | shows |
|---|---|---|
| `live_mandate` | one Rs 6,000 mandate; 5 instants over two days and past the expiry; promises into past and future; 1 restart; 3 actions | refinement of the contract, notice before the first attempt; with fairness, each scheduled action settles |
| `live_caps` | one voice case, redelivered across 2 restarts, provider may raise; 5 instants within two cooldowns and one window | spacing and cap over several plans, opt-out final |
| `live_pair` | two cases of one phone, one above the cap; 3 instants; 2 actions | type invariant, closing stops the ladder, approvals, money against status, a check belongs to the latest promise |
| `parts` | *gate*: four case profiles, three action types, about 160 instants; *audit*: two threads, four events, one restart; *limiter*: two clients, limit 2, window of 1.5 s, table swept at 2, seven requests; *queue*: two processors, four deliveries; *reply*: up to two phrases, around the ends of months; *portfolio*: up to three cases of 0.005 to 0.43 h, two of them within 0.58 or 0.6 h, of which 0.29 and 0.58 fall short; *cusum*: eight rates; *spending*: two batches, three rows, one reset, to 1 or to -1, one update; *currency*: two requests, ttl 2, lag 1, three answers, with both rates or without the dollar's; *degradation*: four failures at five hours, three sets of baselines; *network*: window of 6, recent 3, ten outcomes; *classifier*: texts of up to two rules, or of three with a blocked card and a renewal, six opinions of each service, two of them misshapen; *decision*: every class, five amounts, 0 to 5 attempts, four instants; *report*: three cases of two classes, strata of 2, two steps | deferrals are tight; the chain is whole until raced; bounds of the limiter; order and losses of the queue; due dates; optimality; the detectors against their definitions; conservation of the budget; age and wholeness of rates; class of the words; what operators are shown; agreement of the views |
| `replay` | a mandate in the control group, a payment above the cap, an invoice up to its escalation; 7 days | one pending action per case; broken means broken; closed is final; the replay ends and implements the contract |
| `store_race` | the mandate, a voice call and a message, two requests beside the tick, one call without an answer per action, 1 restart; 3 instants, two of them within a cooldown | sent once per incarnation and once more per unanswered call; contract and STOP hold until an update is lost |
| `promise_pause`, `rbi_notice`, `never_dropped`, `control_untouched`, `optout_race`, `knapsack_short` | small instances of the same | the disagreements below |

Bounds. In `parts` each part is as large as lets its hazard happen: a third
append over a race, a window that ends while another client's eviction runs, a
processor that comes between the look and the take of another, the turn of a
31-day and of a 28-day month, handling times that truncate to 0, a second batch
that reads the rows of the first, a request that comes between the rates and
the stamp of another, a window that drops an outcome, a second batch whose
class count starts anew, amounts on the borders of segments and of each
economic test, a reset to a negative total while a batch feeds it, a capacity
that falls a hundredth short, an answer without one of the rates. `TimePoints` are chosen so that each test of the gate can go either
way: two instants within one cooldown, two on either side of the quiet window
or a night, three attempts in one window, one instant past the expiry.
`MaxActions` is what the restarts can plan plus one promise check;
`MaxRestarts` one or two, enough to redeliver a webhook as new and to crash
before or after it. `IngestUntil` stops redeliveries after the first instant,
as later ones change only the due time. In the replay nothing is bounded but
the batch, the days a promise may be ahead (1 or 3) and the delay of an
unprompted payment (two days): the horizon ends each behaviour.

Fairness. `LiveAgent!FairSpec` has weak fairness of the clock, of `TickStart`
and of the steps of a tick: the ticker of the chart posts `/tick` every minute
and waits for the answer, and the handler's loop goes on unless it raises.
Nothing else is fair: no customer has to pay, reply or be restarted.
`SimEngine!FairSpec` has weak fairness of the loop itself, a single thread.

Each checked property has a mutant in `PROJECT.json`: a plausible slip in one
mapped definition (rupees for paise, a dropped event mark, a missing
supersede, a day's error) under which TLC finds the property violated.

Some properties hold only until a restart (`epoch = 0`): a crash between
storing a closed case and superseding its actions leaves scheduled actions on
a closed case, and a crash between a new promise and its check leaves the
older check. The next tick clears the former.

## Where the code and its documents disagree

1. `PromisePausesLadder` (`main.py:402-403`). A tick's stale list, or a
   redelivered failure, puts a dunning action back beside a pending promise.
2. `NoticeLeadTime` (`policy.py:85`). The 24 hours between notice and first
   attempt are not kept: the deferred instant is not in the column the tick
   selects by, and the recorded notice lets the next tick through.
3. `CasesTerminate` (`COMPLIANCE.md:16`). The live service plans one action
   per recognised failure, never a second, never sweeps or escalates; the
   case stays open. Only the replay does those.
4. `ControlUntouched` (`COMPLIANCE.md:78`). The replay contacts control
   cases; only the customers' answers are suppressed.
5. `OptOutEndsContact` (`COMPLIANCE.md:73`, `:11`). A tick that read the case
   before an opt-out and defers or counts after it writes its stale copy back:
   the opt-out is lost and the next tick sends the superseded message.
6. `KnapsackBeatsGreedy` (`tests/test_portfolio.py:48`, "Knapsack must recover
   at least as much"). `int(hours * 100)` of a float may lose a hundredth of the
   capacity (`portfolio.py:35`): of cases of 0.15 h and 0.43 h within 0.58 h the
   knapsack names one, the greedy choice both.

## Proofs

All for arbitrary sets of cases, instants, bounds and policies within the
named assumption of each module: the types of its constants, a positive
cooldown, cap and window, and for the replay a batch of distinct cases
(`EngineAssumption`). TLC evaluates every one of them. One theorem has a
hypothesis of its own, `GateDefersTightly`, and two that the contract's
instants are all of `Nat`, `ReplayImplementsContract` and `ReplayPacing`.

*RecoveryContractProofs.* `ContractSafety`: `Spaced` and `Capped` hold always
and `OptOutIsFinal` of every step. The inductive invariant adds that a case
has finitely many attempts, without which a cardinality bound says nothing.
`Capped` needs `Spaced`'s guard: a new attempt is the latest of its case, so
only the window that ends at it can grow, by one.

*GateProofs.* What the modules with a gate have in common: a verdict "execute"
means an active case that has not opted out, the cooldown past, the cap not
reached and the expiry ahead (`GateExecutes`, on which each refinement rests);
and the selector answers a well-formed action (`NextStepsType`).

*LiveAgentProofs.* `LiveInv` is `TypeOK`, finitely many attempts, and
`AbsentIsBlank`: a case nobody has ingested has a blank document, so that an
ingest opens a case with no attempts, as the contract demands. `LiveTypes`
follows. `LiveImplementsContract` shows that every handler, tick step and
crash changes one case's view in one of the contract's ways or not at all;
`CrashInClosing` is why the contract lets an opt-out leave the phase active.
`LivePacing`, `LiveCapped` and `LiveOptOut` transfer `ContractSafety` through
the mapping.

The other safety properties of the service have an invariant each, in the same
module. `ChargeInv` (`LiveCharges`) adds that an action in use has a stored case,
so that no later ingest can reset the approval behind an executed charge.
`NoticeInv` (`LiveNotices`) adds that a running tick is not ahead of the clock and that no
notice was recorded after it; with that the next attempt, made at the tick's
instant, cannot precede the notice. `PendingInv` (`LivePending`) is `LiveInv` with the
property itself: the step that matters is a tick that saves an action of its
stale list as scheduled, which it does only after it found the case active.
`MoneyInv` (`LiveMoney`) is `LiveInv` with `MoneyAgrees` itself: every handler that books
money or closes a case keeps the two together in the one document it stores, and
a crash falls between stores. `LiveChecks` relates two records, the promise of
a case and its check, which a reply stores one after the other: a new promise
supersedes the older check in the same step, and `ScheduledIsActive` keeps a
closed case from having one left when it is opened again; a crash between the
two stores is why it holds until a restart only.

*StoreRaceProofs.* Any number of actions, restarts and instants; one call of
any handler per step. `RaceInv` has three parts beside the types. `SendInv`: an
action sent as often as the restarts and the unanswered calls so far allow is
stored executed, or is the one in hand, about to be stored so or to be found
unanswered; and it is not in the list any more. `RaceSentOnce` follows.
`Copies`: what a handler knows of its copy at each call it still has to make
(one about to write "recovered" has read a case that was not, a tick about to
send has the gate's leave for its copy). `StopInv`: while no update is lost no
copy is ahead of the stored document, so writing one back cannot undo a STOP;
`RaceStopHolds` follows. `RaceImplementsContract`: each write of a whole copy is
one step of the contract, because until an update is lost the copy a handler
writes back is the stored case with that handler's own edit.

*SimEngineProofs.* `EngineInvariant` relates the four things the replay keeps:
the heap, the table of actions, the documents and the pledges. The heap is in
order and not behind the clock (`InOrder`, `Ahead`); a case is ingested once
(`ComesOnce`) and is blank before (`Blank`); a scheduled action of an active
case and an `action_due` event are the same thing, of which a case has at most
one (`OneWaits`, `WaitsScheduled`); the payment of a promise that will be kept
stands before its check (`KeepersPay`). None of the three properties is
inductive alone: `ReplayOneThread` needs that the event of a superseded action
finds its case closed, `ReplayBrokenMeansBroken` that the payment of a keeper is
strictly earlier than the check and the heap is in order, `ReplayClosedIsFinal`
that a payment is not ingested twice. `DeferralAhead` shows that a deferral is
never to an instant before its event, for each of the gate's reasons, or the
heap would be popped at an instant that is past. That `Init` establishes it is itself an
argument over the batch: the initial heap is filled case by case.
`ReplayImplementsContract` and `ReplayPacing` are for a contract told of every
instant (`Instants = Nat`): the replay computes instants by adding days, delays
and quiet hours, and a smaller set could leave one out. TLC's run gives the
contract the finite set its batch can reach.

*ListProofs.* Four parts that keep a list.
`ChainSound`: until two appends overlap, for any number of threads, events,
failed inserts and restarts. The inductive invariant says what a thread in the
middle of `append_audit` holds: only one is between its first read and its
append, the index it read is still the length of the list, the hash it read
still the last one; and one that has appended still finds its link at its
index. Rows of earlier processes are told by `NoFutureRow`. `ChainPinsHistory`:
in a chain that verifies every link is the one its last hash names, back to the
first, so the last hash alone decides the history.
`QueueLosesNone`: deliveries are numbered as they come (`Numbered`); queue,
processors' hands and answers are each in that order (`InTurn`) and share none
(`Apart`); until an overlap, a raise or a restart they are all there is
(`Rests`, `Undisturbed`). The property alone says nothing of what a processor
holds between its take and its answer.
`LimiterAdmits`: the limiter keeps one start and one count per client, the
property is about all requests it let through. `LimiterInv` gives each of
them a window start and an ordinal in it (`Placed`), those of
the table for the latest of them unless that window has ended (`Tabled`); two windows
of one client are a window's length apart, so any stretch of that length meets
two of them, with at most the limit in each.
`NetworkSeesOutage`: the kept outcomes are the latest `LengthKept` of all
(`NetworkInv`), so a run of failures no longer than the window is all in it.

*SumProofs.* Six parts that add up or count, each over a recursive function
of `Sums` or of its own module.
`CusumForgetsNone`: the code keeps two numbers, the definition looks at every
run of the latest rates; that the largest of n + 1 rates is the new one added to
the larger of 0 and that of n is the lemma (`ExcessOfOneMore`,
`LargestOfOneMore`).
`SpendingConserves`, for any limits, any totals, negative ones included, and any
lengths: feeding a row changes the sum over the six channels in one term, and a
reset restarts both sides at once. A budget below zero is one that was reset
to it: it has the total it started with (`Solvent`), so it has spent nothing. `SpendingCounts`: `CountsInv` adds that no batch has read beyond
the table as it is now (`ReadsBehind`), so a row stored later changes no earlier
count, and a batch that starts owes to each arm just the rows it has read.
`ReportAgrees` needs of the table its types alone: each view divides the same
cases in another way (group, segment, promise, channel), and the lemmas add up
the parts; what a channel costs in all is its price times its executions, summed
by case or at once (`SumsTimes`). `ReportLiftIsBare` follows each class through the batches (`RatesInv`):
a batch adds the treated share of its cases to one group and the rest to the
other (`BatchGroups`), and a live case adds to the treated. It takes
`Treated < Stratum` of the split, 7 of 10 in the code.
`SelectionHolds`: a column of `dp` is the largest worth of a choice among the
first cases that fits in it (`BestOfMore`, `NoneIsBetter`); the walk back from
the last column keeps, at each case, the worth still to find equal to the column
it has come to (`RebuiltFacts`). The greedy choice fits in the hours, in whatever order it
went and however its sums were rounded (`GreedyFits`); where the capacity lost
no hundredth it fits in the units too, so it is one of those `dp` is the largest
of. Truncation and a short product lose at most a hundredth of an hour a case
(`TruncationFacts`).
`WindowsHoldByArrival`: the code keeps a list of times and prunes it by each
arrival, the property speaks of all failures that arrived. `Tells` gives each
place of a window the failure it has, one to one and onto the failures that no
later one of the scope pruned; filtering the list is filtering those
(`SinceFilters`).
`PromisesFallAsMeant`, for every calendar of months of 28 to 31 days: every day
is in one month (`MonthOfDay`, `OneMonth`), so the day looked up this month or
the next is the first such evening ahead (`OnDateFacts`), and a weekday is one to
seven days ahead (`NextWeekdayFacts`). `CalendarAssumption` says that a reply
does not arrive in the last month of the calendar, which has no next one.

*PartsProofs.* `CurrencyFreshness`, for any requests, ttl and lag. The
invariant follows an answer from place to place: in the hands of a request it is
at most a lag old (`InTime`, from the guard of `TimePasses`); a rate that request
wrote is there or overwritten by one at most a lag older (`Written`); so when it
sets the stamp, each rate is at most two lags behind it (`Dated`); a rate an answer did not give
is of a currency some answer lacked.
`CurrencyWholeness`: until two installations overlap, at
most one request installs, and the rates differ only if it is between the two.
`StopDecides`: a case the economic stop lets through is worth
an email, for every class, amount and number of attempts: the least base chance
with the most fatigue is 17.5%, of Rs 50 that is more than the rupee an email
costs. `ChaseIsWorthIt`: each action the selector proposes for a class is held against the
least uplift of its chances (`UpliftOfCharge`, `UpliftOfContact`, ...) on the
least amount the selector lets through. `InspectorIsTrue`: the contact flag matters to the gate in its last test
only, and what revalidation refuses the gate blocks before it.
`ClassifierReadsWords`: the rule that decides is the first one with words in the
text, so it is found without looking at what stands behind it; `ClassifierInv`
keeps what a payment was given when it came, and that a payment left no case
exactly when `Classify` raised on it.
`GateDefersTightly`, for any cases with finitely many attempts and any policy
whose quiet window is not the whole day (`NotAllDayQuiet`; nobody could say when
such a window opens): `ChainInv` says which of notice and cooldown the earlier
visits have used up, so a third deferral has no reason left.

*Induction.* The library's induction theorems take an operator, which the
provers at hand cannot instantiate. Where a statement is about all prefixes of a
list or all values of a recursive function (the links of a chain, the initial
heap, `Excess`, the rows of `dp`), it is shown by a least counterexample: the set
of numbers it fails for, if not empty, has a least (`LeastNatural`), which is
neither 0 nor one more than a number it holds for (`HoldsUpTo`). That a recursive
function exists at all is shown the same way (`FillingExists`, `Stepwise`). The
sums and filters of these modules are recursive functions for that reason: of
the library's folds no fact is known to the prover.

Only model-checked, and why:

- every liveness property (`EveryCaseCloses`, `ScheduledSettles`): the prover
  does not treat fairness or ENABLED;
- `PartsTypeOK`, the types of all fourteen parts at once, of the run's own
  specification, in which one part moves and the others stand. The theorems are
  about each part's own specification; where they need its types, these are the
  first conjunct of the invariant.

## Not modelled

- *Approval queue* (`main.py:1400-1458`): it lists and decides cases whose
  `pending_approval` is set, and no code sets it, so the list is empty and both
  answers are 400. The approval the gate reads is `Approve`'s.
- *Settings and provider* (`main.py:658-686`): what they store is read by
  their own endpoints and, the provider, shown by the batch stream and the case
  detail (`main.py:712`, `:789`); the gate reads none of it.
- *Trained prediction*, its explanations and its calibration: only scripts
  train the model. *UCB1 selection*: logarithms and roots of the counts.
- *Bootstrap interval, naive baseline, classification scores* of the report.
- *Texts, channels, HTTP clients* beyond their failure; the HTML pages;
  `PromiseTracker`; the exponential-backoff, ROI, preview and incident pages;
  the adversarial battery of sample inputs; scripts, charts and the front end.
- *Tenants*: each has a store of its own, but audit chain, budget, bandit,
  limiter and detectors are of the process. The modules take the state of one
  process as shared by everything that runs in it, and no tenant is told apart.
- *Revalidation before execution*: the executor does not call it, so it is a
  view (`Decision`) and not a guard of `LiveAgent`.
- *The store's batch commits* in the replay, which nothing else reads meanwhile,
  and the cases a demo batch adds to the live store.

`PROJECT.json` gives a reason per component.

## Plan

1. Done: `PolicyGate`, `Selector`, `RecoveryContract`, `LiveAgent`,
   `DeferralChain`, `SimEngine`, `StoreRace`, the thirteen parts that `MCParts`
   runs beside `DeferralChain`, and a theorem for every safety property checked
   but `PartsTypeOK`.
2. Next: the cases a demo batch adds to the live store, and the batch commits of
   the replay against a ticking service.
3. With a prover that treats ENABLED: `ScheduledSettles` and `EveryCaseCloses`.
