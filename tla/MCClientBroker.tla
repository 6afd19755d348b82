--------------------------- MODULE MCClientBroker ---------------------------
(***************************************************************************)
(* Command lines for the client: every command, with its options, and the  *)
(* slips of a user, beside the requests of agents that do without it.      *)
(***************************************************************************)
EXTENDS ClientBroker, MCBroker

Says1(name, word) == Opt(name, Str(<<word>>))
On(name) == Opt(name, Flag(TRUE))

Id == Says1("id", "t")

SearchLines ==
  {<<Says1("query", Words)>>, <<Arg(Words), Arg(Words)>>, <<Opt("query", Str(<<>>)), Arg(Words)>>,
   <<Says1("query", NewerThan(8)), Says1("query", NewerThan(6)), On("oldest")>>,
   <<Opt("max", Num(0)), Says1("page", "p"), Arg(Words), Opt("max", Num(3))>>,
   <<Opt("max", Num(3)), Says1("query", NewerThan(30))>>, <<Says1("query", BlankTerm)>>, <<>>, <<Says1("label", "inbox")>>}

ModifyLines ==
  {<<Id, Says1("add", "work")>>, <<Says1("add", "l1"), Arg("t"), Says1("remove", "l1")>>,
   <<Id, Opt("add", Str(<<"work", Blank, "l1">>)), Says1("remove", "work")>>,
   <<Id, Says1("remove", Blank)>>, <<Id, Says1("add", Blank), Says1("remove", "l1")>>, <<Id, Says1("remove", "home")>>}

SendLines ==
  {<<Says1("to", "ann"), Says1("from", "me"), Says1("subject", "s"), Says1("body", "b")>>,
   <<Says1("to", "ann"), Says1("bcc", "eve"), Opt("reply_all", Flag(FALSE))>>,
   <<Says1("to", "ann"), On("track")>>,
   <<Says1("to", "ann"), Says1("attach", "f"), Opt("attach", Str(<<"g", Blank>>))>>, <<>>,
   <<Says1("to", "ann"), Says1("thread_id", "t")>>, <<Says1("to", "eve"), Says1("thread_id", "t")>>}

LabelsModifyLines ==
  {<<Says1("thread_id", "t"), Says1("add", "work"), Arg("u"), Says1("remove", "inbox")>>,
   <<Says1("add", "work")>>}

EventLines ==
  {<<Says1("calendar_id", "main"), Opt("days", Num(2)), Opt("max", Num(5))>>,
   <<Says1("calendar_id", "main"), On("today"), Says1("query", "q"), Says1("page", "p")>>,
   <<Says1("calendar_id", "main"), Says1("time_min", LocalTime), Says1("from", AtHour(1)),
     Says1("to", LocalTime)>>,
   <<Says1("calendar_id", "main"), Says1("from", BlankTerm), Says1("to", LocalTime)>>,
   <<On("week"), Says1("week_start", "monday")>>, <<Says1("calendar_id", "other")>>}

FreebusyLines ==
  {<<Opt("calendar_ids", Str(<<"main", Blank>>)), Says1("calendar_id", "main"),
     Says1("from", LocalTime), Says1("time_max", AtHour(4))>>,
   <<Says1("calendar_id", "other"), Says1("from", LocalTime), Says1("to", LocalTime)>>,
   <<Says1("calendar_id", "main"), Says1("from", LocalTime)>>,
   <<Says1("calendar_id", "main"), Says1("from", BlankTerm), Says1("to", LocalTime)>>}

Lines(cmds, lines) == cmds \X lines

CommandLines ==
  Lines({"gmail.search"}, SearchLines) \cup Lines({"gmail.thread.modify"}, ModifyLines)
  \cup Lines({"gmail.send"}, SendLines) \cup Lines({"gmail.labels.modify"}, LabelsModifyLines)
  \cup Lines({"calendar.events"}, EventLines) \cup Lines({"calendar.freebusy"}, FreebusyLines)
  \cup Lines({"gmail.thread.get", "gmail.get"}, {<<Id>>, <<Arg("t"), Arg("u")>>, <<>>})
  \cup Lines({"gmail.labels.get", "gmail.lables.get"}, {<<Says1("label", "inbox")>>, <<Arg("l1")>>})
  \cup Lines({"gmail.labels.list", "policy.actions", "calendar.list"},
             {<<>>, <<Opt("max", Num(3))>>, <<Arg("x")>>})

\* The requests of the lines that the client accepts.
RequestsOf(lines) ==
  {Typed(account, line[1], line[2]) :
     account \in {Alice, Carol}, line \in {l \in lines : ClientMakes(l[1], l[2]).accepted}}

ClientInputs == RequestsOf(CommandLines)

\* What agents may send, with the client and without.
AllInputs == ActionInputs \cup ClientInputs
=============================================================================
