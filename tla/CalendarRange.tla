--------------------------- MODULE CalendarRange ----------------------------
(***************************************************************************)
(* resolveCalendarRange (internal/policy) once the account's time zone is  *)
(* known, with internal/timerange: which two instants a calendar request   *)
(* stands for at a moment of local time, and whether max_days admits them. *)
(*                                                                         *)
(* Local days are numbered; day 0 is a Sunday.  Offset(d) is the zone's    *)
(* UTC offset, in hours, when day d begins, so a day is 24 hours long      *)
(* unless the offset changes in it.  Instants are counted in ticks, two to *)
(* the hour: every instant here is a whole hour, or the nanosecond before  *)
(* one that endOfDay returns, which is one tick less.  Zones that change   *)
(* their offset exactly at midnight are left out.                          *)
(***************************************************************************)
EXTENDS Integers

CONSTANTS
  Standard,    \* the UTC offset of the zone's standard time
  SummerDays,  \* the local days that begin in summer time, an hour ahead of it
  Asks,        \* the requests
  FirstDay, LastDay  \* the days on which somebody asks

\* A time expression, a named day or an instant of its own; none is NoTime.
NoTime == [form |-> "none"]
Instant(t) == [form |-> "instant", at |-> t]
Named(form) == [form |-> form]
OnWeekday(w, next) == [form |-> "weekday", weekday |-> w, next |-> next]
OnDate(d) == [form |-> "date", day |-> d]

IsTime(e) ==
  CASE e.form = "instant" -> e.at \in Int
    [] e.form = "weekday" -> e.weekday \in 0..6
    [] e.form = "date"    -> e.day \in Int
    [] OTHER -> e.form \in {"none", "unreadable", "now", "today", "tomorrow", "yesterday"}

ASSUME StandardIsInt == Standard \in Int
ASSUME AsksAreFlags ==
  \A f \in Asks : /\ f.flag \in {"today", "tomorrow", "week", "none"}
                  /\ f.days \in Int /\ f.weekStart \in -1..6 /\ f.maxDays \in Int
                  /\ IsTime(f.from) /\ (f.from.form = "none" => f.from = NoTime)
ASSUME DaysAreInt == FirstDay \in Int /\ LastDay \in Int /\ FirstDay <= LastDay

Offset(d) == IF d \in SummerDays THEN Standard + 1 ELSE Standard

Hour == 2
Midnight(d) == Hour * (24 * d - Offset(d))
EndOfDay(d) == Midnight(d + 1) - 1
Weekday(d) == d % 7

\* The time parameters of a request (timerange.Flags), and max_days of its account's
\* policy, a limit when it is positive.  Of today, tomorrow and week, flag is the
\* first that is set, or "none".  weekStart is a weekday, or NoWeekday for a text
\* that names none.
NoWeekday == -1
Flags(from, to, flag, days, weekStart, maxDays) ==
  [from |-> from, to |-> to, flag |-> flag, days |-> days, weekStart |-> weekStart,
   maxDays |-> maxDays]

\* Faulty: a day's own name stands for the next week.
parseLaterWeekday(day, w, next) ==
  LET until == w - Weekday(day) IN IF until <= 0 THEN day + until + 7 ELSE day + until

\* parseWeekday: the day a weekday's name stands for on this day.
parseWeekday(day, w, next) ==
  LET until == w - Weekday(day)
  IN  IF until < 0 \/ (until = 0 /\ next) THEN day + until + 7 ELSE day + until

\* parseTimeExpr on a readable expression; the code refuses any other.
Readable(e) == e.form # "unreadable"

parseTimeExpr(e, day, now) ==
  CASE e.form = "instant"   -> e.at
    [] e.form = "now"       -> now
    [] e.form = "today"     -> Midnight(day)
    [] e.form = "tomorrow"  -> Midnight(day + 1)
    [] e.form = "yesterday" -> Midnight(day - 1)
    [] e.form = "weekday"   -> Midnight(parseWeekday(day, e.weekday, e.next))
    [] e.form = "date"      -> Midnight(e.day)

\* Faulty: a negative difference stays negative.
startOfSameWeek(day, weekStart) == day - (Weekday(day) - weekStart)

startOfWeek(day, weekStart) == day - ((Weekday(day) - weekStart + 7) % 7)

\* Faulty: a week, whatever max_days is.
WeekWindow(maxDays) == Hour * 24 * 7

\* The default window: a week, or max_days when that is less.
DefaultWindow(maxDays) ==
  Hour * 24 * (IF maxDays > 0 /\ maxDays < 7 THEN maxDays ELSE 7)

\* Faulty: one day too many.
AllDays(day, n) == [from |-> Midnight(day), to |-> EndOfDay(day + n)]

\* The days flag: today and the days after it, n in all.
NextDays(day, n) == [from |-> Midnight(day), to |-> EndOfDay(day + n - 1)]

\* timerange.Resolve: the first day flag that is set decides.
Between(from, to) == [from |-> from, to |-> to]

Resolve(f, day, now) ==
  CASE f.flag = "today"    -> Between(Midnight(day), EndOfDay(day))
    [] f.flag = "tomorrow" -> Between(Midnight(day + 1), EndOfDay(day + 1))
    [] f.flag = "week"     ->
         LET first == startOfWeek(day, f.weekStart)
         IN  Between(Midnight(first), EndOfDay(first + 6))
    [] f.flag = "none" /\ f.days > 0 -> NextDays(day, f.days)
    [] OTHER ->
         LET from == IF f.from = NoTime THEN now ELSE parseTimeExpr(f.from, day, now)
             to   == IF f.to # NoTime THEN parseTimeExpr(f.to, day, now)
                     ELSE from + DefaultWindow(f.maxDays)
         IN  Between(from, to)

UsesEnds(f) == f.flag = "none" /\ f.days <= 0

Refused == [refused |-> TRUE]

\* Faulty: a range of max_days days exactly does not fit.
FitsWithin(range, maxDays) ==
  /\ range.to >= range.from
  /\ maxDays > 0 => range.to - range.from < maxDays * 24 * Hour

\* The end of resolveCalendarRange: the range is not reversed and not longer
\* than max_days days of 24 hours.
Fits(range, maxDays) ==
  /\ range.to >= range.from
  /\ maxDays > 0 => range.to - range.from <= maxDays * 24 * Hour

resolveCalendarRange(f, day, now) ==
  IF \/ f.weekStart = NoWeekday
     \/ UsesEnds(f) /\ ~(Readable(f.from) /\ Readable(f.to)) THEN Refused
  ELSE IF Fits(Resolve(f, day, now), f.maxDays) THEN Resolve(f, day, now)
  ELSE Refused

-----------------------------------------------------------------------------
(* Requests at every hour of some days *)

VARIABLES day, hour, asked, outcome

vars == <<day, hour, asked, outcome>>

Nobody == [form |-> "nobody"]
Now == Midnight(day) + Hour * hour

\* The hours of a day: 24, one less or one more when the clocks change in it.
HoursOf(d) == 24 + Offset(d) - Offset(d + 1)

TypeOK ==
  /\ day \in FirstDay..LastDay
  /\ hour \in 0..(HoursOf(day) - 1)
  /\ asked \in Asks \cup {Nobody}

Init ==
  /\ day = FirstDay /\ hour = 0
  /\ asked = Nobody /\ outcome = Nobody

Ask ==
  /\ asked = Nobody
  /\ \E f \in Asks : /\ asked' = f
                     /\ outcome' = resolveCalendarRange(f, day, Now)
  /\ UNCHANGED <<day, hour>>

Tick ==
  /\ IF hour + 1 < HoursOf(day)
       THEN hour' = hour + 1 /\ day' = day
       ELSE /\ day < LastDay
            /\ hour' = 0 /\ day' = day + 1
  /\ asked' = Nobody /\ outcome' = Nobody

Next == Ask \/ Tick

Spec == Init /\ [][Next]_vars

-----------------------------------------------------------------------------
\* What was answered is what the code computes at this moment.
Resolved ==
  asked = Nobody \/ outcome = resolveCalendarRange(asked, day, Now)

Served == asked # Nobody /\ outcome # Refused

\* The days a day flag means, at this moment.
MeantDays(f) ==
  CASE f.flag = "today"    -> {day}
    [] f.flag = "tomorrow" -> {day + 1}
    [] f.flag = "week"     ->
         LET weeks == {w \in (day - 6)..day : Weekday(w) = f.weekStart}
         IN  {d \in (day - 6)..(day + 6) : \E w \in weeks : d \in w..(w + 6)}
    [] OTHER -> day..(day + f.days - 1)

\* A day flag that is served is served with the local days it means, all of
\* each and nothing of the days around, though the clocks may change in them
\* (timerange.go:43-56 and 184-200).
FlagsMeanWholeDays ==
  Served /\ ~UsesEnds(asked) =>
    \A d \in (day - 8)..(day + 15) :
      /\ d \in MeantDays(asked) =>
           outcome.from <= Midnight(d) /\ EndOfDay(d) <= outcome.to
      /\ d \notin MeantDays(asked) =>
           EndOfDay(d) < outcome.from \/ outcome.to < Midnight(d)

\* The name of a weekday stands for the beginning of the first such day from
\* today on, or from tomorrow on with "next" (timerange.go:121-157).
WeekdayIsTheNextOne ==
  Served /\ UsesEnds(asked) /\ asked.from.form = "weekday" =>
    LET from == IF asked.from.next /\ Weekday(day) = asked.from.weekday
                  THEN day + 1 ELSE day
    IN  \E d \in from..(from + 6) :
          Weekday(d) = asked.from.weekday /\ outcome.from = Midnight(d)

\* A request that names no end of its range is never refused for the length of it,
\* wherever it begins: the default window adapts to the policy (policy.go:707-711).
DefaultFits ==
  asked # Nobody /\ UsesEnds(asked) /\ Readable(asked.from) /\ asked.to = NoTime
    /\ asked.weekStart # NoWeekday => Served

\* The next N days are served when N is within max_days, unless the clocks go
\* back in between (policy.go:754-759).
DaysFitUnlessClocksGoBack ==
  /\ asked # Nobody /\ asked.flag = "none" /\ asked.days \in 1..asked.maxDays
  /\ asked.weekStart # NoWeekday
  /\ Offset(day) <= Offset(day + asked.days)
  => Served

\* What the installation guide's own example asks for: the next N days, where
\* N is max_days (docs/install.md:227 with the policy of its line 108).
DaysFit ==
  asked # Nobody /\ asked.flag = "none" /\ asked.days \in 1..asked.maxDays
    /\ asked.weekStart # NoWeekday => Served
=============================================================================
