---------------------------- MODULE PolicyRules -----------------------------
(***************************************************************************)
(* internal/policy/policy.go: ValidateAndRewrite and the rules it applies. *)
(* Each rewriteX of the code is an operator that returns whether the       *)
(* request is accepted and the parameters it leaves, which is what the gog *)
(* runner gets.  g is the "gmail" section of the policy, c the "calendar"  *)
(* section, p the parameters.                                              *)
(*                                                                         *)
(* Labels, senders, addresses and calendars are tokens, a list of them in  *)
(* a policy is a set.  A label table holds the two maps of SetLabelMap.    *)
(* The text of a search query is a sequence of terms; the text of a time   *)
(* is one time expression.                                                 *)
(***************************************************************************)
EXTENDS Params, PolicySet

Outcome(accepted, params) == [accepted |-> accepted, params |-> params]

-----------------------------------------------------------------------------
(* Labels *)

\* A policy's label table before SetLabelMap: every lookup fails.
NoLabels == [k \in {} |-> Blank]
EmptyTable == [nameOf |-> NoLabels, idOf |-> NoLabels]

\* SetLabelMap(m): the map from ids to names and the map back.  Two ids may
\* carry the same name; the code keeps whichever the iteration over the Go
\* map meets last, so each choice is a table it can build.
LabelTables(m) ==
  LET names == {m[id] : id \in DOMAIN m}
  IN  {[nameOf |-> m, idOf |-> back] :
         back \in {b \in [names -> DOMAIN m] : \A n \in names : m[b[n]] = n}}

\* Faulty: the id is looked up for a name, the name is not for an id.
isNameAllowed(label, allowed, table) ==
  \/ label \in allowed
  \/ label \in DOMAIN table.idOf /\ table.idOf[label] \in allowed

\* isLabelAllowed: the label itself, the id of the label of that name, or the
\* name of the label of that id is listed.
isLabelAllowed(label, allowed, table) ==
  \/ label \in allowed
  \/ label \in DOMAIN table.idOf /\ table.idOf[label] \in allowed
  \/ label \in DOMAIN table.nameOf /\ table.nameOf[label] \in allowed

\* Faulty: an empty allow-list allows everything everywhere.
validateListedLabels(labels, allowed, allowEmpty, table) ==
  allowed # {} => \A i \in DOMAIN labels :
    labels[i] # Blank => isLabelAllowed(labels[i], allowed, table)

\* validateLabels: blank entries are skipped, an empty allow-list allows
\* everything only where the caller says so.
validateLabels(labels, allowed, allowEmpty, table) ==
  IF labels # <<>> /\ allowed = {} THEN allowEmpty
  ELSE \A i \in DOMAIN labels :
         labels[i] # Blank => isLabelAllowed(labels[i], allowed, table)

\* What thread.modify and labels.modify have in common: something to change,
\* every change allowed, and the lists joined back into comma strings.
LabelChangeAllowed(g, table, p) ==
  LET add == StringSlice(p, "add")  remove == StringSlice(p, "remove")
  IN  /\ add # <<>> \/ remove # <<>>
      /\ validateLabels(add, g.add, FALSE, table)
      /\ validateLabels(remove, g.remove, FALSE, table)

JoinLabels(p) ==
  [k \in DOMAIN p |->
     IF k \in {"add", "remove"} /\ StringSlice(p, k) # <<>>
       THEN Str(StringSlice(p, k)) ELSE p[k]]

rewriteGmailThreadModify(g, table, p) ==
  LET id == TextAny(p, <<"thread_id", "id">>)
  IN  Outcome(~IsBlank(id) /\ LabelChangeAllowed(g, table, p),
              Put(JoinLabels(p), "thread_id", Str(id)))

rewriteGmailLabelsModify(g, table, p) ==
  LET listed == StringSlice(p, "thread_ids")
      single == \/ HasString(p, "thread_id")
                \/ HasString(p, "id")
      ids    == IF listed = <<>> /\ single
                  THEN TextAny(p, <<"thread_id", "id">>) ELSE listed
  IN  Outcome(/\ listed # <<>> \/ single
              /\ LabelChangeAllowed(g, table, p),
              Put(JoinLabels(p), "thread_ids", Strings(ids)))

rewriteGmailLabelsGet(g, table, p) ==
  LET label == TextAny(p, <<"label", "label_id", "id">>)
  IN  Outcome(~IsBlank(label) /\ validateLabels(label, g.read, TRUE, table),
              Put(p, "label", Str(label)))

-----------------------------------------------------------------------------
(* Search: the query window and the sender restriction *)

\* Terms of a query.  "after" names a date so many days before today, by
\* the UTC calendar; it may also be a date that does not exist.  A term binds
\* when every message found has to match it.
NewerThan(days)  == [op |-> "newer_than", days |-> days, binds |-> TRUE]
After(ago)       == [op |-> "after", ago |-> ago, valid |-> TRUE, binds |-> TRUE]
AfterNoDate      == [op |-> "after", ago |-> 0, valid |-> FALSE, binds |-> TRUE]
FromAny(domains) == [op |-> "from", domains |-> domains, binds |-> TRUE]
Words            == [op |-> "words"]

\* The same term behind a "-", in quotes or beside an OR; and an OR that ends
\* the query, the other side of which is what comes next.
Loose(term) == [term EXCEPT !.binds = FALSE]
Dangling    == [op |-> "dangling"]

\* The position of the first term of this kind, loose or not: the regular
\* expression finds it wherever it stands; 0 when there is none.
FirstTerm(query, op) == SelectInSeq(query, LAMBDA t : t.op = op)

\* extractAfterDate fails on a date that does not parse.
HasAfterDate(query) ==
  LET i == FirstTerm(query, "after") IN i # 0 /\ query[i].valid

\* after.Before(now - maxDays): the date is a midnight, so the day exactly
\* maxDays ago already lies before the limit.
WindowAllowed(query, maxDays) ==
  LET n == FirstTerm(query, "newer_than")  a == FirstTerm(query, "after")
  IN  IF n # 0 THEN query[n].days <= maxDays
      ELSE HasAfterDate(query) => query[a].ago < maxDays

\* query + " " + term
Extended(query, term) ==
  Append(query, IF query # <<>> /\ Last(query) = Dangling THEN Loose(term) ELSE term)

WithWindow(query, maxDays) ==
  IF FirstTerm(query, "newer_than") # 0 \/ HasAfterDate(query) THEN query
  ELSE Extended(query, NewerThan(maxDays))

rewriteGmailQuery(g, p) ==
  LET query   == Text(p, "query")
      bounded == IF g.maxDays > 0 THEN WithWindow(query, g.maxDays) ELSE query
      final   == IF g.senders # {} THEN Extended(bounded, FromAny(g.senders))
                 ELSE bounded
  IN  Outcome(/\ ~OnlyBlanks(query)
              /\ g.maxDays > 0 => WindowAllowed(query, g.maxDays),
              Put(p, "query", Str(final)))

-----------------------------------------------------------------------------
(* Reading a thread or a message *)

rewriteGmailThreadGet(p) ==
  Outcome(HasString(p, "id") \/ HasString(p, "thread_id"),
          Put(p, "thread_id", Str(TextAny(p, <<"id", "thread_id">>))))

rewriteGmailGet(p) ==
  LET id == Str(TextAny(p, <<"id", "message_id">>))
  IN  Outcome(/\ HasString(p, "id") \/ HasString(p, "message_id")
              /\ Text(p, "format") \in {<<>>, <<"metadata">>},
              Delete(Put(Put(p, "message_id", id),
                         "format", Str(<<"metadata">>)), {"headers"}))

-----------------------------------------------------------------------------
(* Sending *)

rewriteGmailSend(g, p) ==
  Outcome(/\ DOMAIN p \cap {"track", "track_split", "reply_all"} = {}
          /\ "thread_id" \in DOMAIN p => ~g.draftOnly
          /\ "attach" \in DOMAIN p => g.allowAttachments,
          p)

rewriteGmailDraftCreate(g, p) ==
  Outcome(/\ DOMAIN p \cap {"track", "track_split", "reply_all", "thread_id"} = {}
          /\ "attach" \in DOMAIN p => g.allowAttachments,
          p)

\* collectRecipients: the addresses of to, cc and bcc, where the items of a
\* JSON array that are no strings are passed over.
Recipients(p) ==
  (UNION {Range(StringItems(p[k])) : k \in DOMAIN p \cap {"to", "cc", "bcc"}}) \ {Blank}

\* Faulty: one allowed recipient lets the mail go to the others too.
DraftForStrangers(g, p) ==
  \/ g.draftOnly
  \/ g.recipients # {} /\ Recipients(p) \cap g.recipients = {}

\* draftSendReason(params) != "".
DraftSendRequired(g, p) ==
  \/ g.draftOnly
  \/ /\ g.recipients # {}
     /\ Recipients(p) = {} \/ ~(Recipients(p) \subseteq g.recipients)

-----------------------------------------------------------------------------
(* Calendar *)

\* A time expression: a date with a UTC offset (RFC3339), an expression that
\* needs the account's time zone, or a text that does not parse.
AtHour(h)  == [form |-> "absolute", hour |-> h]
LocalTime  == [form |-> "local", hour |-> 0]
Unreadable == [form |-> "unreadable", hour |-> 0]

RangeFrom(p) == TextAny(p, <<"time_min", "from">>)
RangeTo(p)   == TextAny(p, <<"time_max", "to">>)

DayFlags == {"today", "tomorrow", "week"}
AnyDayFlag(p) == (\E f \in DayFlags : IsOn(p, f)) \/ Number(p, "days") > 0

\* Both ends are absolute times and no day flag is set: the account's time
\* zone is not needed.
AbsoluteRange(p) ==
  /\ RangeFrom(p) # <<>> /\ RangeTo(p) # <<>> /\ ~AnyDayFlag(p)
  /\ RangeFrom(p)[1].form = "absolute" /\ RangeTo(p)[1].form = "absolute"

\* A range of so many hours is not reversed and not longer than max_days.
RangeAllowed(c, hours) == hours >= 0 /\ (c.maxDays > 0 => hours <= c.maxDays * 24)

AbsoluteRangeAllowed(c, p) ==
  RangeAllowed(c, RangeTo(p)[1].hour - RangeFrom(p)[1].hour)

\* The accepted absolute range reaches cleanupTimeParams, which calls itself
\* without end: the goroutine's stack overflows and the process dies.
RangeOverflows(c, p) == AbsoluteRange(p) /\ AbsoluteRangeAllowed(c, p)

\* Refused before the time zone is asked for.
RangeRefused(c, p, require) ==
  \/ require /\ RangeFrom(p) = <<>> /\ RangeTo(p) = <<>> /\ ~AnyDayFlag(p)
  \/ AbsoluteRange(p) /\ ~AbsoluteRangeAllowed(c, p)

\* The week's first day has a name the code knows, and every end that is used
\* parses; the day flags take precedence over the ends.
WeekStarts == {"sunday", "monday", "tuesday", "wednesday", "thursday", "friday", "saturday"}

RangeReadable(p) ==
  /\ Text(p, "week_start") \in {<<>>, <<Blank>>} \cup {<<w>> : w \in WeekStarts}
  /\ ~AnyDayFlag(p) => \A end \in {RangeFrom(p), RangeTo(p)} :
                          end # <<>> => end[1].form \in {"absolute", "local"}

TimeParams == {"from", "to", "time_min", "time_max", "today", "tomorrow",
               "week", "days", "week_start"}

\* The parameters once the range is resolved to two absolute times, so many
\* hours apart.
WithRange(p, hours) ==
  Put(Put(Delete(p, TimeParams), "time_min", Str(<<AtHour(0)>>)),
      "time_max", Str(<<AtHour(hours)>>))

CalendarIdAllowed(c, p) ==
  /\ HasString(p, "calendar_id")
  /\ c.calendars # {} => \E id \in c.calendars : Text(p, "calendar_id") = <<id>>

CalendarIdsAllowed(c, p) ==
  LET ids == StringSlice(p, "calendar_ids")
  IN  /\ ids # <<>>
      /\ c.calendars # {} => \A i \in DOMAIN ids : ids[i] \in c.calendars

-----------------------------------------------------------------------------
(* ValidateAndRewrite, for the actions that need no calendar range *)

NeedsRange(action) == action \in {"calendar.events", "calendar.freebusy"}

ValidateAndRewrite(pol, table, action, p) ==
  CASE action \in {"gmail.search", "gmail.thread.list"} ->
         rewriteGmailQuery(pol.gmail, p)
    [] action = "gmail.thread.get" -> rewriteGmailThreadGet(p)
    [] action = "gmail.thread.modify" ->
         rewriteGmailThreadModify(pol.gmail, table, p)
    [] action = "gmail.get" -> rewriteGmailGet(p)
    [] action = "gmail.send" -> rewriteGmailSend(pol.gmail, p)
    [] action = "gmail.drafts.create" -> rewriteGmailDraftCreate(pol.gmail, p)
    [] action = "gmail.labels.get" -> rewriteGmailLabelsGet(pol.gmail, table, p)
    [] action = "gmail.labels.modify" ->
         rewriteGmailLabelsModify(pol.gmail, table, p)
    [] action \in {"gmail.labels.list", "calendar.list"} -> Outcome(TRUE, p)
    [] action = "policy.actions" -> Outcome(p = NoParams, p)
    [] OTHER -> Outcome(FALSE, p)
=============================================================================
