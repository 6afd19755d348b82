------------------------------- MODULE Client -------------------------------
(***************************************************************************)
(* cmd/client: the request a command line makes, or its refusal.           *)
(*                                                                         *)
(* A command line is a command and a sequence of words: options with their *)
(* values, and arguments.  The name of an option is written with "_" for   *)
(* "-", as the parameters are.  Values are those of Params: the text of an *)
(* option, the number, the switch, or, where an option may be repeated,    *)
(* the pieces of its comma lists.                                          *)
(***************************************************************************)
EXTENDS Params

Opt(name, value) == [name |-> name, value |-> value]
Arg(word)        == [name |-> Blank, value |-> Str(<<word>>)]

Made(accepted, action, params) ==
  [accepted |-> accepted, action |-> action, params |-> params]

RangeOptions == {"from", "to", "time_min", "time_max"}
MailOptions ==
  {"to", "cc", "bcc", "subject", "body", "body_html", "reply_to_message_id",
   "thread_id", "reply_all", "reply_to", "from", "track", "track_split", "attach"}
EventOptions ==
  {"today", "tomorrow", "week", "days", "week_start", "max", "page", "query"}

NumberOptions == {"max", "days"}
SwitchOptions ==
  {"oldest", "reply_all", "track", "track_split", "today", "tomorrow", "week"}

\* The options of each command, which are the commands there are.
Commands ==
  {"gmail.search", "gmail.thread.get", "gmail.thread.modify", "gmail.get", "gmail.send",
   "gmail.labels.list", "gmail.labels.get", "gmail.lables.get", "gmail.labels.modify",
   "policy.actions", "calendar.list", "calendar.events", "calendar.freebusy"}

Options ==
  [cmd \in Commands |->
     CASE cmd = "gmail.search" -> {"query", "max", "page", "oldest"}
       [] cmd \in {"gmail.thread.get", "gmail.get"} -> {"id"}
       [] cmd = "gmail.thread.modify" -> {"id", "add", "remove"}
       [] cmd = "gmail.send" -> MailOptions
       [] cmd \in {"gmail.labels.get", "gmail.lables.get"} -> {"label"}
       [] cmd = "gmail.labels.modify" -> {"thread_id", "add", "remove"}
       [] cmd \in {"gmail.labels.list", "policy.actions"} -> {}
       [] cmd = "calendar.list" -> {"max", "page"}
       [] cmd = "calendar.events" -> {"calendar_id"} \cup RangeOptions \cup EventOptions
       [] cmd = "calendar.freebusy" -> {"calendar_id", "calendar_ids"} \cup RangeOptions]

-----------------------------------------------------------------------------
(* The flag package: options are read up to the first argument *)

Repeatable(cmd) ==
  CASE cmd = "gmail.send" -> {"attach"}
    [] cmd = "gmail.labels.modify" -> {"thread_id"}
    [] cmd = "calendar.freebusy" -> {"calendar_id", "calendar_ids"}
    [] OTHER -> {}

Leading(words) ==
  LET n == SelectInSeq(words, LAMBDA w : w.name = Blank)
  IN  IF n = 0 THEN words ELSE SubSeq(words, 1, n - 1)

\* The words after that, an option among them too.
Rest(words) ==
  [i \in 1..(Len(words) - Len(Leading(words))) |-> words[i + Len(Leading(words))]]

\* The last value of an option, all the pieces of one that may be repeated
\* (stringList.Set drops blank ones).
OptionValue(cmd, words, name) ==
  LET given == {i \in DOMAIN words : words[i].name = name}
      pieces == FlattenSeq([i \in DOMAIN words |->
                  IF i \in given THEN NonBlank(words[i].value.toks) ELSE <<>>])
  IN  IF name \in Repeatable(cmd) THEN List(pieces) ELSE words[Max(given)].value

ParsedOptions(cmd, words) ==
  [name \in {words[i].name : i \in DOMAIN words} |-> OptionValue(cmd, words, name)]

\* What the rest of the line says as arguments: an option among them is a word
\* like any other.
OptionWord == [op |-> "words"]

Arguments(words) ==
  [i \in DOMAIN Rest(words) |->
     IF Rest(words)[i].name = Blank THEN Rest(words)[i].value.toks[1] ELSE OptionWord]

-----------------------------------------------------------------------------
(* The commands.  o holds the options, args the arguments *)

\* An option that is empty, zero or off makes no parameter.
Says(value) ==
  CASE value.type = "number" -> value.n > 0
    [] value.type = "bool"   -> value.on
    [] OTHER                 -> value.toks # <<>>

Passed(o, names) == [k \in {n \in names \cap DOMAIN o : Says(o[n])} |-> o[k]]

\* As Passed, where a text of blanks makes no parameter either.
PassedText(o, names) == [k \in {n \in names : ~IsBlank(Text(o, n))} |-> Str(Text(o, k))]

Items(o, name) == IF name \in DOMAIN o THEN o[name].toks ELSE <<>>

\* The first argument stands for an option that is not given.
OrArgument(o, name, args) ==
  IF Text(o, name) = <<>> /\ args # <<>> THEN <<args[1]>> ELSE Text(o, name)

parseGmailSearch(o, args) ==
  LET query == IF Text(o, "query") = <<>> THEN args ELSE Text(o, "query")
  IN  Made(~OnlyBlanks(query), "gmail.search",
           Put(Passed(o, {"max", "page", "oldest"}), "query", Str(query)))

\* Faulty: the id is sent under the name of the option.
OneByOption(action, key, option, o, args) ==
  LET text == OrArgument(o, option, args)
  IN  Made(~IsBlank(text), action, Put(NoParams, option, Str(text)))

\* The commands that take one id or name.
parseOne(action, key, option, o, args) ==
  LET text == OrArgument(o, option, args)
  IN  Made(~IsBlank(text), action, Put(NoParams, key, Str(text)))

LabelChange(o) == PassedText(o, {"add", "remove"})

parseGmailThreadModify(o, args) ==
  LET id == OrArgument(o, "id", args)
  IN  Made(~IsBlank(id) /\ DOMAIN LabelChange(o) # {}, "gmail.thread.modify",
           Put(LabelChange(o), "thread_id", Str(id)))

\* Faulty: the recipients are forgotten.
SendWithoutTo(o) == Made(TRUE, "gmail.send", Passed(o, MailOptions \ {"to"}))

parseGmailSend(o) == Made(TRUE, "gmail.send", Passed(o, MailOptions))

parseGmailLabelsModify(o, args) ==
  LET ids == Items(o, "thread_id") \o args
  IN  Made(ids # <<>> /\ DOMAIN LabelChange(o) # {}, "gmail.labels.modify",
           Put(LabelChange(o), "thread_ids", List(ids)))

\* --from and --to, or else --time-min and --time-max.
RangeEnd(o, name, other) == IF Text(o, name) = <<>> THEN Text(o, other) ELSE Text(o, name)

Trimmed(text) == IF OnlyBlanks(text) THEN <<>> ELSE text

parseCalendarEvents(o) ==
  LET from == Str(Trimmed(RangeEnd(o, "from", "time_min")))
      to   == Str(Trimmed(RangeEnd(o, "to", "time_max")))
      id   == Text(o, "calendar_id")
  IN  Made(~IsBlank(id), "calendar.events",
           Put(Passed(Put(Put(o, "from", from), "to", to), {"from", "to"} \cup EventOptions),
               "calendar_id", Str(id)))

parseCalendarFreebusy(o) ==
  LET ids == Items(o, "calendar_ids") \o Items(o, "calendar_id")
      from == RangeEnd(o, "from", "time_min")
      to   == RangeEnd(o, "to", "time_max")
  IN  Made(ids # <<>> /\ ~OnlyBlanks(from) /\ ~OnlyBlanks(to), "calendar.freebusy",
           [calendar_ids |-> List(ids), time_min |-> Str(from), time_max |-> Str(to)])

parseCommand(cmd, o, args) ==
  CASE cmd = "gmail.search" -> parseGmailSearch(o, args)
    [] cmd = "gmail.thread.get" -> parseOne(cmd, "thread_id", "id", o, args)
    [] cmd = "gmail.get" -> parseOne(cmd, "message_id", "id", o, args)
    [] cmd \in {"gmail.labels.get", "gmail.lables.get"} ->
         parseOne("gmail.labels.get", "label", "label", o, args)
    [] cmd = "gmail.thread.modify" -> parseGmailThreadModify(o, args)
    [] cmd = "gmail.send" -> parseGmailSend(o)
    [] cmd = "gmail.labels.modify" -> parseGmailLabelsModify(o, args)
    [] cmd \in {"calendar.list", "gmail.labels.list"} ->
         Made(TRUE, cmd, Passed(o, {"max", "page"}))
    [] cmd = "calendar.events" -> parseCalendarEvents(o)
    [] cmd = "calendar.freebusy" -> parseCalendarFreebusy(o)
    [] cmd = "policy.actions" -> Made(args = <<>>, cmd, NoParams)

\* What the client makes of a command line: an option the command does not have
\* is refused.
ClientMakes(cmd, words) ==
  LET o == ParsedOptions(cmd, Leading(words))
  IN  IF cmd \in DOMAIN Options /\ DOMAIN o \subseteq Options[cmd]
        THEN parseCommand(cmd, o, Arguments(words))
        ELSE Made(FALSE, cmd, NoParams)

\* doRequest: the request that is sent, for the account of --account or of the
\* environment, and under an id that is never empty.
ClientRequest(account, cmd, words) ==
  LET made == ClientMakes(cmd, words)
  IN  [id |-> "1", account |-> account, action |-> made.action, params |-> made.params]
=============================================================================
