------------------------ MODULE CalendarRangeProofs -------------------------
(***************************************************************************)
(* What calendar requests are served with, in every zone with summer time  *)
(* and under every max_days.                                               *)
(***************************************************************************)
EXTENDS CalendarRange, TLAPS

LEMMA OffsetType == \A d : Offset(d) \in {Standard, Standard + 1}
BY DEF Offset

LEMMA MidnightType == \A d \in Int : Midnight(d) \in Int
BY OffsetType, StandardIsInt DEF Midnight, Hour

\* The invariant the others rest on: the last answer is what
\* resolveCalendarRange computes at this hour of this day.
THEOREM AnswersAreCurrent == Spec => [](TypeOK /\ Resolved)
<1>1. Init => TypeOK /\ Resolved
  BY DaysAreInt, OffsetType, StandardIsInt DEF Init, TypeOK, Resolved, HoursOf
<1>2. TypeOK /\ Resolved /\ [Next]_vars => (TypeOK /\ Resolved)'
  <2> SUFFICES ASSUME TypeOK, Resolved, [Next]_vars PROVE TypeOK' /\ Resolved'
    OBVIOUS
  <2>1. CASE Ask
    BY <2>1 DEF Ask, TypeOK, Resolved, Now
  <2>2. CASE Tick
    BY <2>2, DaysAreInt, OffsetType, StandardIsInt DEF Tick, TypeOK, Resolved, HoursOf
  <2>3. CASE UNCHANGED vars
    BY <2>3 DEF vars, TypeOK, Resolved, Now
  <2> QED
    BY <2>1, <2>2, <2>3 DEF Next
<1> QED
  BY <1>1, <1>2, PTL DEF Spec

-----------------------------------------------------------------------------
(* The window of a policy *)

\* The span of so many whole days is at most so many times 24 hours, unless the
\* clocks go back in between.
LEMMA WholeDaysSpan ==
  ASSUME NEW d \in Int, NEW n \in Int, Offset(d) <= Offset(d + n)
  PROVE  EndOfDay(d + n - 1) - Midnight(d) <= n * 24 * Hour
<1>1. EndOfDay(d + n - 1) = Midnight(d + n) - 1
  BY DEF EndOfDay
<1> QED
  BY <1>1, OffsetType, StandardIsInt DEF Midnight, Hour

\* Whole days are not reversed: no day is shorter than 23 hours.
LEMMA WholeDaysForward ==
  ASSUME NEW d \in Int, NEW n \in Int, n >= 1
  PROVE  EndOfDay(d + n - 1) >= Midnight(d)
<1>1. EndOfDay(d + n - 1) = Midnight(d + n) - 1
  BY DEF EndOfDay
<1> QED
  BY <1>1, OffsetType, StandardIsInt DEF Midnight, Hour

\* The next N days, N within max_days, are served in every zone and at every
\* hour, unless the clocks go back in between (policy.go:754-759).
THEOREM DaysFitAlways == Spec => []DaysFitUnlessClocksGoBack
<1>1. TypeOK /\ Resolved => DaysFitUnlessClocksGoBack
  <2> SUFFICES ASSUME TypeOK, Resolved, asked # Nobody, asked.flag = "none",
                      asked.days \in 1..asked.maxDays, asked.weekStart # NoWeekday,
                      Offset(day) <= Offset(day + asked.days)
               PROVE  Served
    BY DEF DaysFitUnlessClocksGoBack
  <2> DEFINE n == asked.days
             range == Between(Midnight(day), EndOfDay(day + n - 1))
  <2>1. day \in Int /\ n \in Int /\ n >= 1 /\ n <= asked.maxDays /\ asked.maxDays \in Int
    BY DaysAreInt, AsksAreFlags DEF TypeOK
  <2>2. Resolve(asked, day, Now) = range
    BY <2>1 DEF Resolve, NextDays, Between
  <2>3. range.to = EndOfDay(day + n - 1) /\ range.from = Midnight(day)
    BY DEF Between
  <2>4. range.to \in Int /\ range.from \in Int
    BY <2>1, <2>3, MidnightType DEF EndOfDay
  <2>5. range.to >= range.from
    BY <2>1, <2>3, WholeDaysForward
  <2>6. range.to - range.from <= n * 24 * Hour
    BY <2>1, <2>3, WholeDaysSpan
  <2>7. n * 24 * Hour <= asked.maxDays * 24 * Hour
    BY <2>1 DEF Hour
  <2>8. Fits(range, asked.maxDays)
    <3> HIDE DEF n, range
    <3> QED
      BY <2>1, <2>4, <2>5, <2>6, <2>7 DEF Fits, Hour
  <2>9. resolveCalendarRange(asked, day, Now) = range
    <3>1. ~UsesEnds(asked)
      BY <2>1 DEF UsesEnds
    <3> QED
      BY <2>2, <2>8, <3>1 DEF resolveCalendarRange
  <2>10. range # Refused
    BY DEF Between, Refused
  <2> QED
    BY <2>9, <2>10 DEF Resolved, Served
<1> QED
  BY <1>1, AnswersAreCurrent, PTL

\* A readable expression stands for an instant.
LEMMA ExprIsInstant ==
  ASSUME NEW e, IsTime(e), Readable(e), e.form # "none", NEW d \in Int, NEW now \in Int
  PROVE  parseTimeExpr(e, d, now) \in Int
<1>1. CASE e.form = "weekday"
  <2>1. parseWeekday(d, e.weekday, e.next) \in Int
    BY <1>1 DEF IsTime, parseWeekday, Weekday
  <2> QED
    BY <1>1, <2>1, MidnightType DEF parseTimeExpr
<1>2. CASE e.form = "instant" \/ e.form = "date"
  BY <1>2, MidnightType DEF IsTime, parseTimeExpr
<1>3. CASE e.form \in {"now", "today", "tomorrow", "yesterday"}
  <2>1. d + 1 \in Int /\ d - 1 \in Int
    OBVIOUS
  <2> QED
    BY <1>3, <2>1, MidnightType DEF parseTimeExpr
<1> QED
  BY <1>1, <1>2, <1>3 DEF IsTime, Readable

\* A request that names no end is served under every max_days, from wherever it
\* begins (policy.go:707-711).
THEOREM DefaultFitsAlways == Spec => []DefaultFits
<1>1. TypeOK /\ Resolved => DefaultFits
  <2> SUFFICES ASSUME TypeOK, Resolved, asked # Nobody, UsesEnds(asked),
                      Readable(asked.from), asked.to = NoTime, asked.weekStart # NoWeekday
               PROVE  Served
    BY DEF DefaultFits
  <2> DEFINE from == IF asked.from = NoTime THEN Now ELSE parseTimeExpr(asked.from, day, Now)
             window == DefaultWindow(asked.maxDays)
             range == Between(from, from + window)
  <2>1. /\ asked.flag = "none" /\ asked.days <= 0 /\ asked.days \in Int /\ asked.maxDays \in Int
        /\ IsTime(asked.from) /\ (asked.from.form = "none" => asked.from = NoTime)
    BY AsksAreFlags DEF UsesEnds, TypeOK
  <2>2. day \in Int /\ hour \in Int
    BY DaysAreInt, OffsetType, StandardIsInt DEF TypeOK, HoursOf
  <2>3. Now \in Int
    BY <2>2, MidnightType DEF Now, Hour
  <2>4. from \in Int
    BY <2>1, <2>2, <2>3, ExprIsInstant
  <2>5. window \in Nat /\ (asked.maxDays > 0 => window <= asked.maxDays * 24 * Hour)
    BY <2>1 DEF DefaultWindow, Hour
  <2>6. Resolve(asked, day, Now) = range
    <3>1. ~(asked.days > 0) /\ asked.flag \notin {"today", "tomorrow", "week"}
      BY <2>1
    <3> QED
      BY <3>1 DEF Resolve
  <2> HIDE DEF from, window
  <2>7. range.from = from /\ range.to = from + window
    BY DEF Between
  <2>8. Fits(range, asked.maxDays)
    <3> HIDE DEF range
    <3> QED
      BY <2>1, <2>4, <2>5, <2>7 DEF Fits, Hour
  <2>9. Readable(asked.to)
    BY DEF Readable, NoTime
  <2>10. resolveCalendarRange(asked, day, Now) = range
    BY <2>6, <2>8, <2>9 DEF resolveCalendarRange
  <2>11. range # Refused
    BY DEF Between, Refused
  <2> QED
    BY <2>10, <2>11 DEF Resolved, Served
<1> QED
  BY <1>1, AnswersAreCurrent, PTL

-----------------------------------------------------------------------------
(* Whole local days *)

\* A later day begins after an earlier one has ended.
LEMMA DaysAreOrdered ==
  ASSUME NEW d \in Int, NEW e \in Int, d < e
  PROVE  EndOfDay(d) < Midnight(e)
<1>1. EndOfDay(d) = Midnight(d + 1) - 1
  BY DEF EndOfDay
<1>2. d + 1 = e \/ d + 2 <= e
  OBVIOUS
<1>3. CASE d + 1 = e
  BY <1>1, <1>3, MidnightType
<1>4. CASE d + 2 <= e
  BY <1>1, <1>4, OffsetType, StandardIsInt DEF Midnight, Hour
<1> QED
  BY <1>2, <1>3, <1>4

\* The only day in the last seven that has this weekday is startOfWeek.
LEMMA OneWeekStart ==
  ASSUME NEW d \in Int, NEW w \in 0..6
  PROVE  /\ startOfWeek(d, w) \in (d - 6)..d
         /\ \A s \in (d - 6)..d : Weekday(s) = w <=> s = startOfWeek(d, w)
BY DEF startOfWeek, Weekday

\* The days from first to last, and no others.
Spans(range, first, last) ==
  range.from = Midnight(first) /\ range.to = EndOfDay(last)

LEMMA SpansWholeDays ==
  ASSUME NEW first \in Int, NEW last \in Int, NEW d \in Int, NEW range,
         Spans(range, first, last)
  PROVE  /\ d \in first..last => range.from <= Midnight(d) /\ EndOfDay(d) <= range.to
         /\ d \notin first..last => EndOfDay(d) < range.from \/ range.to < Midnight(d)
<1>1. /\ d > first => Midnight(first) <= Midnight(d)
      /\ d < last => EndOfDay(d) <= EndOfDay(last)
  <2>1. d > first => Midnight(first) <= Midnight(d)
    BY OffsetType, StandardIsInt DEF Midnight, Hour
  <2>2. d < last => EndOfDay(d) < Midnight(last)
    BY DaysAreOrdered
  <2>3. d + 1 \in Int /\ last + 1 \in Int
    OBVIOUS
  <2>4. d < last => Midnight(d + 1) <= Midnight(last + 1)
    BY <2>3, OffsetType, StandardIsInt DEF Midnight, Hour
  <2> QED
    BY <2>1, <2>3, <2>4, MidnightType DEF EndOfDay
<1>2. /\ d < first => EndOfDay(d) < Midnight(first)
      /\ last < d => EndOfDay(last) < Midnight(d)
  BY DaysAreOrdered
<1>3. Midnight(d) \in Int /\ EndOfDay(d) \in Int
  BY MidnightType DEF EndOfDay
<1>4. d \in first..last => Midnight(first) <= Midnight(d) /\ EndOfDay(d) <= EndOfDay(last)
  <2>1. Midnight(first) <= Midnight(first) /\ EndOfDay(last) <= EndOfDay(last)
    BY MidnightType DEF EndOfDay
  <2> QED
    BY <1>1, <2>1
<1>5. d \notin first..last => d < first \/ last < d
  OBVIOUS
<1> QED
  BY <1>2, <1>4, <1>5 DEF Spans

\* Whatever the clocks do, a day flag that is served is served with exactly the
\* local days it means (timerange.go:43-56 and 184-200).
THEOREM FlagsMeanWholeDaysAlways == Spec => []FlagsMeanWholeDays
<1>1. TypeOK /\ Resolved => FlagsMeanWholeDays
  <2> SUFFICES ASSUME TypeOK, Resolved, Served, ~UsesEnds(asked)
               PROVE  \E first, last \in Int :
                        MeantDays(asked) = first..last /\ Spans(outcome, first, last)
    <3>1. ASSUME NEW first \in Int, NEW last \in Int,
                 MeantDays(asked) = first..last, Spans(outcome, first, last),
                 NEW d \in (day - 8)..(day + 15)
          PROVE  /\ d \in MeantDays(asked) =>
                      outcome.from <= Midnight(d) /\ EndOfDay(d) <= outcome.to
                 /\ d \notin MeantDays(asked) =>
                      EndOfDay(d) < outcome.from \/ outcome.to < Midnight(d)
      <4>1. d \in Int
        BY DaysAreInt DEF TypeOK
      <4> QED
        BY <3>1, <4>1, SpansWholeDays
    <3> QED
      BY <3>1 DEF FlagsMeanWholeDays
  <2>1. /\ asked.flag \in {"today", "tomorrow", "week", "none"}
        /\ asked.days \in Int /\ day \in Int
        /\ asked.flag = "none" => asked.days > 0
    BY AsksAreFlags, DaysAreInt DEF TypeOK, Served, UsesEnds
  <2>2. asked.weekStart \in 0..6 /\ outcome = Resolve(asked, day, Now)
    BY AsksAreFlags DEF TypeOK, Resolved, Served, resolveCalendarRange, NoWeekday
  <2>3. CASE asked.flag = "today"
    <3>1. MeantDays(asked) = day..day
      BY <2>1, <2>3 DEF MeantDays
    <3>2. Spans(outcome, day, day)
      BY <2>2, <2>3 DEF Resolve, Between, Spans
    <3> QED
      BY <2>1, <3>1, <3>2
  <2>4. CASE asked.flag = "tomorrow"
    <3>1. MeantDays(asked) = (day + 1)..(day + 1)
      BY <2>1, <2>4 DEF MeantDays
    <3>2. Spans(outcome, day + 1, day + 1)
      BY <2>2, <2>4 DEF Resolve, Between, Spans
    <3> QED
      BY <2>1, <3>1, <3>2
  <2>5. CASE asked.flag = "week"
    <3>1. PICK first \in Int :
            /\ first = startOfWeek(day, asked.weekStart)
            /\ first \in (day - 6)..day
            /\ \A s \in (day - 6)..day : Weekday(s) = asked.weekStart <=> s = first
      <4>1. startOfWeek(day, asked.weekStart) \in (day - 6)..day
        BY <2>1, <2>2, OneWeekStart
      <4>2. startOfWeek(day, asked.weekStart) \in Int
        BY <2>1, <4>1
      <4>3. \A s \in (day - 6)..day :
              Weekday(s) = asked.weekStart <=> s = startOfWeek(day, asked.weekStart)
        BY <2>1, <2>2, OneWeekStart
      <4> QED
        BY <4>1, <4>2, <4>3
    <3>2. {w \in (day - 6)..day : Weekday(w) = asked.weekStart} = {first}
      BY <3>1
    <3>3. MeantDays(asked) = {d \in (day - 6)..(day + 6) : d \in first..(first + 6)}
      BY <2>5, <3>2 DEF MeantDays
    <3>4. MeantDays(asked) = first..(first + 6)
      BY <2>1, <3>1, <3>3
    <3>5. Spans(outcome, first, first + 6)
      BY <2>2, <2>5, <3>1 DEF Resolve, Between, Spans
    <3> QED
      BY <3>1, <3>4, <3>5
  <2>6. CASE asked.flag = "none"
    <3>1. MeantDays(asked) = day..(day + asked.days - 1)
      BY <2>6 DEF MeantDays
    <3>2. Spans(outcome, day, day + asked.days - 1)
      BY <2>1, <2>2, <2>6 DEF Resolve, NextDays, Between, Spans
    <3> QED
      BY <2>1, <3>1, <3>2
  <2> QED
    BY <2>1, <2>3, <2>4, <2>5, <2>6
<1> QED
  BY <1>1, AnswersAreCurrent, PTL

-----------------------------------------------------------------------------
(* The names of weekdays *)

\* parseWeekday finds the first such day from today on, or from tomorrow on.
LEMMA WeekdayFound ==
  ASSUME NEW d \in Int, NEW w \in 0..6, NEW next
  PROVE  LET from == IF next /\ Weekday(d) = w THEN d + 1 ELSE d
         IN  /\ parseWeekday(d, w, next) \in from..(from + 6)
             /\ Weekday(parseWeekday(d, w, next)) = w
<1> DEFINE until == w - Weekday(d)
           from == IF next /\ Weekday(d) = w THEN d + 1 ELSE d
<1>1. Weekday(d) \in 0..6 /\ until \in -6..6
  BY DEF Weekday
<1>2. CASE until < 0 \/ (until = 0 /\ next)
  <2>1. parseWeekday(d, w, next) = d + until + 7
    BY <1>2 DEF parseWeekday
  <2>2. Weekday(d + until + 7) = w
    BY <1>1 DEF Weekday
  <2>3. from = IF until = 0 THEN d + 1 ELSE d
    BY <1>1, <1>2
  <2> QED BY <1>1, <1>2, <2>1, <2>2, <2>3
<1>3. CASE ~(until < 0 \/ (until = 0 /\ next))
  <2>1. parseWeekday(d, w, next) = d + until
    BY <1>3 DEF parseWeekday
  <2>2. Weekday(d + until) = w
    BY <1>1 DEF Weekday
  <2>3. from = d
    BY <1>1, <1>3
  <2> QED BY <1>1, <1>3, <2>1, <2>2, <2>3
<1> QED BY <1>2, <1>3

\* The name of a weekday stands for the beginning of the first such day from
\* today on, or from tomorrow on with "next" (timerange.go:121-157).
THEOREM WeekdayIsTheNextOneAlways == Spec => []WeekdayIsTheNextOne
<1>1. TypeOK /\ Resolved => WeekdayIsTheNextOne
  <2> SUFFICES ASSUME TypeOK, Resolved, Served, UsesEnds(asked),
                      asked.from.form = "weekday"
               PROVE  LET from == IF asked.from.next /\ Weekday(day) = asked.from.weekday
                                    THEN day + 1 ELSE day
                      IN  \E d \in from..(from + 6) :
                            Weekday(d) = asked.from.weekday /\ outcome.from = Midnight(d)
    BY DEF WeekdayIsTheNextOne
  <2> DEFINE w == asked.from.weekday
             d == parseWeekday(day, w, asked.from.next)
  <2>1. day \in Int /\ asked \in Asks
    BY DaysAreInt DEF TypeOK, Served
  <2>2. w \in 0..6
    BY <2>1, AsksAreFlags DEF IsTime
  <2>3. asked.flag = "none" /\ ~(asked.days > 0)
    BY <2>1, AsksAreFlags DEF UsesEnds
  <2>4. outcome = Resolve(asked, day, Now)
    BY DEF Served, Resolved, resolveCalendarRange
  <2>5. asked.from # NoTime
    BY DEF NoTime
  <2>6. outcome.from = parseTimeExpr(asked.from, day, Now)
    BY <2>3, <2>4, <2>5 DEF Resolve, Between
  <2>7. outcome.from = Midnight(d)
    BY <2>6 DEF parseTimeExpr
  <2> HIDE DEF d
  <2> QED BY <2>1, <2>2, <2>7, WeekdayFound DEF d
<1> QED
  BY <1>1, AnswersAreCurrent, PTL
=============================================================================
