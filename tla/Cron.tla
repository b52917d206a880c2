-------------------------------- MODULE Cron --------------------------------
(***************************************************************************)
(* The cron dialect of schedule triggers (nexum-runtime-manifest cron.rs): *)
(* a five-field expression is parsed to match sets and refused when it     *)
(* names no real date, and next_after searches for the first matching      *)
(* minute, a day at a time, with a jump over a month that does not match.  *)
(*                                                                         *)
(* An expression is a function from field names to sequences of list       *)
(* elements; an element is [kind, low, high, step] with kind star, one or  *)
(* range and step -1 for none.                                             *)
(* Characters, and the refusals that are about characters, are left out.   *)
(* Times are minutes since the epoch, far from the end of u64.             *)
(*                                                                         *)
(* cal is a history variable: the same day by the plain rules of the       *)
(* Gregorian calendar, which the era arithmetic of Date has to agree with. *)
(***************************************************************************)
EXTENDS Integers, Sequences, FiniteSets, FiniteSetsExt

CONSTANTS Expressions, \* the expressions that are parsed
          Starts,      \* dates [y, m, d] from which a search starts
          Froms        \* minutes of the day at which a search starts

ASSUME CronAssumption ==
  /\ Froms \subseteq 0 .. 1439
  /\ \A s \in Starts : s.y >= 1970 /\ s.m \in 1 .. 12 /\ s.d \in 1 .. 31

VARIABLES cron, \* the search: schedule, position and result
          cal   \* the calendar's own date of cron.day

cronVars == <<cron, cal>>

NoDate == [y |-> 1970, m |-> 1, d |-> 1, w |-> 4]

-----------------------------------------------------------------------------
(* Parsing. *)

Fields == {"minute", "hour", "dom", "month", "dow"}

Bounds(field) ==
  CASE field = "minute" -> <<0, 59>>
    [] field = "hour"   -> <<0, 23>>
    [] field = "dom"    -> <<1, 31>>
    [] field = "month"  -> <<1, 12>>
    [] field = "dow"    -> <<0, 7>>

InBounds(field, n) == Bounds(field)[1] <= n /\ n <= Bounds(field)[2]

\* A list element is refused when it is out of range, runs backwards, steps
\* by nothing or by too much, or steps from a single number.
ElementOK(field, t) ==
  /\ t.kind # "star" => InBounds(field, t.low) /\ InBounds(field, t.high) /\ t.low <= t.high
  /\ t.step # -1 => t.kind # "one" /\ t.step \in 1 .. Bounds(field)[2]

ElementSet(field, t) ==
  LET low  == IF t.kind = "star" THEN Bounds(field)[1] ELSE t.low
      high == IF t.kind = "star" THEN Bounds(field)[2] ELSE t.high
      by   == IF t.step = -1 THEN 1 ELSE t.step
      hits == {n \in low .. high : (n - low) % by = 0}
  IN  IF field = "dow" THEN {n % 7 : n \in hits} ELSE hits

ParseField(field, text) == UNION {ElementSet(field, text[i]) : i \in DOMAIN text}

LongestMonth(m) == IF m = 2 THEN 29 ELSE IF m \in {4, 6, 9, 11} THEN 30 ELSE 31

Schedule(x) ==
  [minute |-> ParseField("minute", x.minute), hour |-> ParseField("hour", x.hour),
   dom |-> ParseField("dom", x.dom), month |-> ParseField("month", x.month),
   dow |-> ParseField("dow", x.dow),
   either |-> x.dom[1].kind # "star" /\ x.dow[1].kind # "star"]

\* from_str: every element parses, and some date can match.
Accepted(x) ==
  /\ \A f \in Fields : \A i \in DOMAIN x[f] : ElementOK(f, x[f][i])
  /\ LET s == Schedule(x)
     IN  s.either \/ \E m \in s.month : \E d \in s.dom : d <= LongestMonth(m)

-----------------------------------------------------------------------------
(* Dates. *)

B01(p) == IF p THEN 1 ELSE 0

FromDays(days) ==
  LET shifted == days + 719468
      era     == shifted \div 146097
      doe     == shifted % 146097
      yoe     == (doe - doe \div 1460 + doe \div 36524 - doe \div 146096) \div 365
      doy     == doe - (365 * yoe + yoe \div 4 - yoe \div 100)
      sm      == (5 * doy + 2) \div 153
      month   == IF sm < 10 THEN sm + 3 ELSE sm - 9
  IN  [y |-> yoe + era * 400 + B01(month <= 2), m |-> month,
       d |-> doy - (153 * sm + 2) \div 5 + 1]

ToDays(t) ==
  LET year == t.y - B01(t.m <= 2)
      yoe  == year % 400
      sm   == IF t.m > 2 THEN t.m - 3 ELSE t.m + 9
      doy  == (153 * sm + 2) \div 5 + t.d - 1
  IN  (year \div 400) * 146097 + yoe * 365 + yoe \div 4 - yoe \div 100 + doy - 719468

FirstOfNextMonth(t) ==
  ToDays(IF t.m = 12 THEN [y |-> t.y + 1, m |-> 1, d |-> 1]
                     ELSE [y |-> t.y, m |-> t.m + 1, d |-> 1])

Weekday(days) == (days + 4) % 7

-----------------------------------------------------------------------------
(* The calendar by its rules: the reference for the arithmetic above.      *)

Leap(y) == y % 4 = 0 /\ (y % 100 # 0 \/ y % 400 = 0)
MonthDays(y, m) == IF m = 2 /\ ~Leap(y) THEN 28 ELSE LongestMonth(m)

CalDays(t) ==
  365 * (t.y - 1970) + Cardinality({y \in 1970 .. t.y - 1 : Leap(y)})
    + MapThenSumSet(LAMBDA m : MonthDays(t.y, m), 1 .. t.m - 1) + t.d - 1

\* The first of the month after c; the weekday moves by the days skipped.
CalNextMonth(c) ==
  [y |-> c.y + B01(c.m = 12), m |-> (c.m % 12) + 1, d |-> 1,
   w |-> (c.w + MonthDays(c.y, c.m) - c.d + 1) % 7]

CalNextDay(c) ==
  IF c.d = MonthDays(c.y, c.m) THEN CalNextMonth(c)
                               ELSE [c EXCEPT !.d = @ + 1, !.w = (@ + 1) % 7]

-----------------------------------------------------------------------------
(* next_after. *)

DayMatches(s, dom, wd) ==
  IF s.either THEN dom \in s.dom \/ wd \in s.dow
              ELSE dom \in s.dom /\ wd \in s.dow

\* Mutant: the minute of the start binds in every hour
MinuteOfEveryHour(s, from) ==
  LET hits(hour) == {hour * 60 + m : m \in {k \in s.minute : k >= from % 60}}
      hours == {h \in s.hour : h >= from \div 60 /\ hits(h) # {}}
  IN  IF hours = {} THEN -1 ELSE Min(hits(Min(hours)))

\* The first matching minute of a day at or after from, or -1.
MinuteOfDayFrom(s, from) ==
  LET hits(hour) == {hour * 60 + m : m \in {k \in s.minute :
                        hour = from \div 60 => k >= from % 60}}
      hours == {h \in s.hour : h >= from \div 60 /\ hits(h) # {}}
  IN  IF hours = {} THEN -1 ELSE Min(hits(Min(hours)))

\* from_str: an accepted expression becomes a schedule, and a search begins
\* at some minute of some day.
Parse ==
  /\ cron.at = "text"
  /\ IF Accepted(cron.text)
     THEN \E t \in Starts, from \in Froms :
            /\ cron' = [at |-> "search", sched |-> Schedule(cron.text), day |-> CalDays(t),
                        minute |-> from, last |-> CalDays(t) + 146097]
            /\ cal' = [y |-> t.y, m |-> t.m, d |-> t.d, w |-> (CalDays(t) + 4) % 7]
     ELSE cron' = [at |-> "refused"] /\ UNCHANGED cal

\* next_after, one turn of its loop.
SearchStep ==
  /\ cron.at = "search"
  /\ LET s    == cron.sched
         date == FromDays(cron.day)
         hit  == MinuteOfDayFrom(s, cron.minute)
     IN  IF cron.day > cron.last
         THEN cron' = [cron EXCEPT !.at = "none"] /\ UNCHANGED cal
         ELSE IF date.m \notin s.month
         THEN /\ cron' = [cron EXCEPT !.day = FirstOfNextMonth(date), !.minute = 0]
              /\ cal' = CalNextMonth(cal)
         ELSE IF DayMatches(s, date.d, Weekday(cron.day)) /\ hit # -1
         THEN cron' = [cron EXCEPT !.at = "found", !.minute = hit] /\ UNCHANGED cal
         ELSE /\ cron' = [cron EXCEPT !.day = @ + 1, !.minute = 0]
              /\ cal' = CalNextDay(cal)

CronInit ==
  /\ \E x \in Expressions : cron = [at |-> "text", text |-> x]
  /\ cal = NoDate

CronNext == Parse \/ SearchStep

CronSpec == CronInit /\ [][CronNext]_cronVars

-----------------------------------------------------------------------------
(* Properties. *)

\* next_after misses no matching minute: a turn of its loop leaves a day only
\* when no minute of it from the position on matches, and what it returns is
\* the first that does. Matching is judged on the calendar's own date.
FirstMatch ==
  [][cron.at = "search" =>
     LET s == cron.sched
         hits == {k \in cron.minute .. 1439 :
                    /\ cal.m \in s.month /\ DayMatches(s, cal.d, cal.w)
                    /\ (k \div 60) \in s.hour /\ (k % 60) \in s.minute}
     IN  /\ cron'.day # cron.day =>
              hits = {} /\ (cal'.m # cal.m => cal.d = MonthDays(cal.y, cal.m)
                                                \/ cal.m \notin s.month)
         /\ cron'.at = "found" => hits # {} /\ cron'.minute = Min(hits)]_cronVars
=============================================================================
