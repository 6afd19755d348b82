-------------------------- MODULE MCCalendarRange ---------------------------
(***************************************************************************)
(* Eleven days of a zone that goes back to standard time on day 5 and, so  *)
(* that a short run sees both, ahead to summer time on day 9.              *)
(***************************************************************************)
EXTENDS CalendarRange

Eastern == -5
Summer == (-20..5) \cup (10..40)

\* The two ends a request without a day flag may name.
Ends ==
  {<<OnWeekday(w, next), NoTime>> : w \in {0, 3, 6}, next \in BOOLEAN}
  \cup {<<Named("now"), Named("tomorrow")>>, <<Named("yesterday"), Named("today")>>,
        <<Named("unreadable"), NoTime>>, <<NoTime, OnDate(6)>>,
        <<Named("tomorrow"), Instant(100)>>, <<OnDate(3), OnDate(10)>>}

\* Every form of request under a max_days.
AsksUnder(maxDays) ==
  {Flags(NoTime, NoTime, "none", n, 1, maxDays) : n \in {-1, 0, 1, 3, 7, 8}}
  \cup {Flags(NoTime, NoTime, "none", 2, NoWeekday, maxDays)}
  \cup {Flags(NoTime, NoTime, flag, 3, w, maxDays) :
          flag \in {"today", "tomorrow", "week"}, w \in 0..1}
  \cup {Flags(e[1], e[2], "none", 0, 1, maxDays) : e \in Ends}

\* No limit, one shorter than the default week, and that week.
AllAsks == UNION {AsksUnder(maxDays) : maxDays \in {0, 3, 7}}
=============================================================================
