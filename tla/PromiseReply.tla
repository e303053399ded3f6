----------------------------- MODULE PromiseReply -----------------------------
(***************************************************************************)
(* What a customer's reply means (app/promisetopay.py).  A reply is the    *)
(* set of phrases it contains, the number before "tarikh" or "din", and    *)
(* the weekday it names; the order in which the code looks for them is the *)
(* order of their precedence.  "weekday" is a full name ("monday",         *)
(* "somvar") that comes before every other word in -day or -var.           *)
(*                                                                         *)
(* Instants are minutes of IST from midnight of a Monday that opens the    *)
(* first of the months MonthDays.                                          *)
(***************************************************************************)
EXTENDS Naturals, Sequences, FiniteSets

CONSTANTS
  MonthDays,      \* the lengths of the months of the modelled calendar
  Replies,        \* the replies that arrive
  ReplyTimes      \* the instants they arrive at: not in the last month

Phrase == {"stop", "paid", "cant", "tarikh", "din", "parso", "kal", "weekday",
           "next_week", "aaj"}
Reply == [phrases : SUBSET Phrase, number : 0 .. 99, weekday : 0 .. 6]

ASSUME ReplyAssumption ==
  /\ MonthDays \in Seq(28 .. 31)
  /\ Replies \subseteq Reply /\ ReplyTimes \subseteq Nat

OneDay == 1440
OneHour == 60

MonthStart[m \in 1 .. Len(MonthDays)] ==
  IF m = 1 THEN 0 ELSE MonthStart[m - 1] + MonthDays[m - 1]

MonthOf(day) ==
  CHOOSE m \in 1 .. Len(MonthDays) :
    MonthStart[m] <= day /\ day < MonthStart[m] + MonthDays[m]

DayOfMonth(day) == day - MonthStart[MonthOf(day)] + 1

Weekday(day) == day % 7

(* The evening of a day: 18:00.                                            *)
Evening(day) == day * OneDay + 18 * OneHour

Today(now) == now \div OneDay

ASSUME CalendarAssumption ==
  \A now \in ReplyTimes : \E m \in 2 .. Len(MonthDays) : Today(now) < MonthStart[m]

-----------------------------------------------------------------------------
NoDue == "none"
Parsed(intent, due) == [intent |-> intent, due |-> due]
Promise(due) == Parsed("promise", due)

(* Mutant: named on its own day, a weekday is today.                       *)
NextWeekdayToday(target, now) ==
  Evening(Today(now) + ((target + 7 - Weekday(Today(now))) % 7))

NextWeekday(target, now) ==
  LET delta == (target + (7 - Weekday(Today(now)))) % 7
  IN  Evening(Today(now) + IF delta = 0 THEN 7 ELSE delta)

Gone(candidate, now) == candidate <= now

(* Days 29 to 31 are taken as the 28th.  There is no day 0: the handler    *)
(* raises.                                                                 *)
OnDate(number, now) ==
  LET month == MonthOf(Today(now))
      day == IF number < 28 THEN number ELSE 28
      candidate == Evening(MonthStart[month] + day - 1)
  IN  IF day = 0 THEN Parsed("raises", NoDue)
      ELSE Promise(IF Gone(candidate, now) THEN Evening(MonthStart[month + 1] + day - 1)
                   ELSE candidate)

(* In six hours, at 22:00 the latest.                                      *)
TodayLater(now) ==
  LET ten == Today(now) * OneDay + 22 * OneHour
  IN  IF now + 6 * OneHour < ten THEN now + 6 * OneHour ELSE ten

ClosingPhrases(r) == r.phrases \cap {"stop", "paid", "cant"} # {}

Closing(r) ==
  CASE "stop" \in r.phrases -> Parsed("opt_out", NoDue)
    [] "stop" \notin r.phrases /\ "paid" \in r.phrases -> Parsed("already_paid", NoDue)
    [] "stop" \notin r.phrases /\ "paid" \notin r.phrases -> Parsed("refused", NoDue)

(* The phrases of a promise in the order the code looks for them.          *)
Order == <<"tarikh", "din", "parso", "kal", "weekday", "next_week", "aaj">>

Promised(r, phrase, now) ==
  CASE phrase = "tarikh" -> OnDate(r.number, now)
    [] phrase = "din" -> Promise(Evening(Today(now) + r.number))
    [] phrase = "parso" -> Promise(Evening(Today(now) + 2))
    [] phrase = "kal" -> Promise(Evening(Today(now) + 1))
    [] phrase = "weekday" -> Promise(NextWeekday(r.weekday, now))
    [] phrase = "next_week" -> Promise(Evening(Today(now) + 7))
    [] phrase = "aaj" -> Promise(TodayLater(now))

Found(r) == {i \in DOMAIN Order : Order[i] \in r.phrases}

ParseReply(r, now) ==
  IF ClosingPhrases(r) THEN Closing(r)
  ELSE IF Found(r) = {} THEN Parsed("other", NoDue)
  ELSE Promised(r, Order[CHOOSE i \in Found(r) : \A j \in Found(r) : i <= j], now)

-----------------------------------------------------------------------------
VARIABLES reply, arrived, meaning

replyVars == <<reply, arrived, meaning>>

Unread == Parsed("unread", NoDue)

ReplyInit == reply \in Replies /\ arrived \in ReplyTimes /\ meaning = Unread

Parse ==
  /\ meaning = Unread
  /\ meaning' = ParseReply(reply, arrived)
  /\ UNCHANGED <<reply, arrived>>

ReplyNext == Parse

ReplySpec == ReplyInit /\ [][ReplyNext]_replyVars

-----------------------------------------------------------------------------
ReplyTypeOK ==
  /\ meaning.intent \in {"unread", "opt_out", "already_paid", "refused", "promise",
                         "other", "raises"}
  /\ IF meaning.intent = "promise" THEN meaning.due \in Nat ELSE meaning.due = NoDue

IsEvening(t) == t % OneDay = 18 * OneHour

FirstAfter(t, Meant(_)) ==
  /\ t > arrived /\ Meant(t)
  /\ \A d \in Today(arrived) .. Today(t) - 1 :
       Evening(d) > arrived => ~Meant(Evening(d))

(* A promise by day of the month, or by weekday, is due on the evening the *)
(* customer means: the first one ahead on such a day, across the ends of   *)
(* months and years; a weekday named on that day is the next week's.  Any  *)
(* promised instant is still ahead, but for "aaj" said from 22:00 on and   *)
(* "0 din" from 18:00 on: those two are looked at too early                *)
(* (promisetopay.py:104-117, 140-170).                                     *)
DueAsMeant ==
  meaning.intent = "promise" =>
    /\ "tarikh" \in reply.phrases =>
         FirstAfter(meaning.due,
                    LAMBDA t : DayOfMonth(Today(t)) = IF reply.number < 28 THEN reply.number ELSE 28)
    /\ reply.phrases = {"weekday"} =>
         /\ IsEvening(meaning.due) /\ Weekday(Today(meaning.due)) = reply.weekday
         /\ Today(meaning.due) - Today(arrived) \in 1 .. 7
    /\ meaning.due <= arrived <=>
         \/ /\ reply.phrases = {"aaj"} /\ arrived % OneDay >= 22 * OneHour
         \/ /\ "din" \in reply.phrases /\ "tarikh" \notin reply.phrases
            /\ reply.number = 0 /\ arrived % OneDay >= 18 * OneHour
=============================================================================
