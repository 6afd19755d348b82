------------------------------ MODULE MCBroker ------------------------------
(***************************************************************************)
(* Instances of the broker for TLC: mailboxes, policy files and requests.  *)
(***************************************************************************)
EXTENDS BrokerProperties

Written(name, spelling) == [name |-> name, spelling |-> spelling]
Alice == Written("alice", "Alice")
Bob == Written("bob", "bob")
Carol == Written("carol", "carol")
Unnamed == Written(NoName, "absent")

Request(account, action, p) ==
  [id |-> "1", account |-> account, action |-> action, params |-> p]

Gmail(read, add, remove) ==
  [read |-> read, add |-> add, remove |-> remove, senders |-> {}, recipients |-> {},
   maxDays |-> 0, draftOnly |-> FALSE, allowAttachments |-> FALSE]

-----------------------------------------------------------------------------
(* Labels: an account whose labels are renamed, and one whose labels stay *)

Labels == "l1" :> "work" @@ "l2" :> "home" @@ "inbox" :> "inbox"

\* For alice, gog may report labels that share a name, other labels after a
\* rename, or none at all.
LabelMailbox ==
  "alice" :> {Labels, "l1" :> "work" @@ "l2" :> "work", "l1" :> "home", NoLabels}
  @@ "bob" :> {Labels}

LabelPolicies ==
  [default |-> Unnamed,
   accounts |-> Alice :> [actions |-> {"gmail.thread.modify", "calendar.freebusy"},
                          gmail |-> Gmail({}, {"work", "l2"}, {}),
                          calendar |-> [calendars |-> {"main"}, maxDays |-> 3]]
             @@ Bob :> [actions |-> {"gmail.thread.modify"},
                        gmail |-> Gmail({}, {"l1"}, {"home"})]]

Modify(account, add, remove) ==
  Request(account, "gmail.thread.modify",
          ("thread_id" :> Str(<<"t">>)) @@
          (IF add = <<>> THEN NoParams ELSE "add" :> Str(add)) @@
          (IF remove = <<>> THEN NoParams ELSE "remove" :> List(remove)))

\* A word, and a list with lists in it, of labels to remove.
ModifyMixed(strings, toks) ==
  Request(Alice, "gmail.thread.modify",
          "thread_id" :> Str(<<"t">>) @@ "add" :> Str(<<"work">>)
          @@ "remove" :> Mixed(strings, toks, TRUE))

FreeBusy(p) ==
  Request(Alice, "calendar.freebusy", "calendar_ids" :> Str(<<"main">>) @@ p)

\* What the client sends for calendar.freebusy.
FreeBusyInputs ==
  {FreeBusy("time_min" :> Str(<<AtHour(0)>>) @@ "time_max" :> Str(<<AtHour(24)>>))}

\* A listed name asked for by id and a listed id by name, an account that is not
\* named, and the two ways a range goes.
LabelInputs ==
  FreeBusyInputs \cup
  {Modify(Alice, <<"l1", Blank, "home">>, <<>>), Modify(Unnamed, <<"work">>, <<"inbox">>),
   Modify(Bob, <<"work">>, <<"l2">>), FreeBusy("days" :> Num(3))}

-----------------------------------------------------------------------------
(* Every action: an account with every kind of limit, one that only drafts, *)
(* and one with a policy that forgets the Gmail limits                      *)

Everything == GmailActions \cup CalendarActions \cup {"policy.actions", "drive.list"}

ActionPolicies ==
  [default |-> Alice,
   accounts |->
     Alice :> [actions  |-> Everything,
               gmail    |-> [Gmail({"inbox"}, {"work"}, {"inbox", "l1"}) EXCEPT
                               !.senders = {"acme"}, !.recipients = {"ann"},
                               !.maxDays = 7],
               calendar |-> [calendars |-> {"main"}, maxDays |-> 3]]
     @@ Carol :> [actions  |-> {"gmail.send", "gmail.search", "gmail.thread.list",
                                "calendar.events"},
                  gmail    |-> [Gmail({}, {}, {}) EXCEPT !.draftOnly = TRUE,
                                  !.allowAttachments = TRUE],
                  calendar |-> [calendars |-> {}, maxDays |-> 0]]]

ActionMailbox == [a \in {"alice", "carol"} |-> {Labels, NoLabels}]

Text1(word) == Str(<<word>>)
Thread == "thread_id" :> Text1("t")
To(who) == "to" :> Str(who)
Span(from, to) == "from" :> Str(<<from>>) @@ "to" :> Str(<<to>>)

SearchInputs ==
  {Request(Alice, "gmail.search", "query" :> Str(q)) :
     q \in {<<Words>>, <<NewerThan(7)>>, <<NewerThan(8), After(1)>>, <<After(6)>>,
            <<After(7)>>, <<AfterNoDate>>, <<>>, <<BlankTerm>>, <<Words, Dangling>>}}
  \cup {Request(Alice, "gmail.thread.list", "query" :> Text1(NewerThan(8))),
        Request(Alice, "gmail.thread.list", "query" :> Text1(Words)),
        Request(Carol, "gmail.search", "query" :> Str(<<NewerThan(30)>>) @@ "max" :> Num(5)),
        Request(Carol, "gmail.search", "max" :> Num(5)),
        Request(Carol, "gmail.thread.list", "query" :> List(<<Words>>))}

MessageInputs ==
  {Request(Alice, "gmail.thread.get", Thread),
   Request(Alice, "gmail.thread.get", "id" :> Text1("t")),
   Request(Alice, "gmail.thread.get", NoParams),
   Request(Alice, "gmail.get", "message_id" :> Text1("m") @@ "headers" :> Text1("from")),
   Request(Alice, "gmail.get", "message_id" :> Text1("m") @@ "format" :> Text1("full")),
   Request(Alice, "gmail.get", "format" :> Text1("metadata"))}

SendInputs ==
  {Request(Alice, "gmail.send", p) :
     p \in {To(<<"ann">>), To(<<"ann", "eve">>), To(<<Blank>>), NoParams,
            To(<<"ann">>) @@ "cc" :> List(<<"ann", "eve">>),
            To(<<"ann">>) @@ "bcc" :> Mixed(<<"eve">>, <<"eve", "5">>, TRUE),
            To(<<"ann">>) @@ "bcc" :> Mixed(<<>>, <<>>, FALSE),
            "to" :> Num(5),
            To(<<"eve">>) @@ Thread,
            To(<<"ann">>) @@ "track" :> Flag(TRUE),
            To(<<"ann">>) @@ "attach" :> List(<<"f", "g">>)}}
  \cup {Request(Carol, "gmail.send", p) :
          p \in {To(<<"ann">>), To(<<"ann">>) @@ Thread,
                 To(<<"ann">>) @@ "attach" :> List(<<"f", "g">>),
                 To(<<"ann">>) @@ "reply_all" :> Flag(TRUE)}}
  \cup {Request(Alice, "gmail.drafts.create", p) :
          p \in {To(<<"eve">>), To(<<"eve">>) @@ Thread,
                 To(<<"eve">>) @@ "track_split" :> Flag(FALSE)}}

LabelRuleInputs ==
  {Modify(Alice, <<"l1">>, <<"inbox">>), Modify(Alice, <<"l2">>, <<>>),
   ModifyMixed(<<>>, <<"inbox">>), ModifyMixed(<<"l2">>, <<"inbox", "l2">>),
   Request(Alice, "gmail.labels.list", NoParams),
   Request(Alice, "gmail.lables.get", "label" :> Text1("inbox")),
   Request(Alice, "gmail.labels.get", "label_id" :> Text1("l2")),
   Request(Alice, "gmail.labels.get", NoParams),
   Request(Alice, "gmail.labels.modify", "thread_ids" :> List(<<"t", "u">>) @@ "add" :> Text1("work")),
   Request(Alice, "gmail.labels.modify", "add" :> Text1("work"))}

CalendarInputs ==
  {Request(Alice, "calendar.list", "max" :> Num(3)),
   Request(Alice, "calendar.events", NoParams),
   Request(Alice, "calendar.events", "calendar_id" :> Text1("other")),
   Request(Alice, "calendar.events", "calendar_id" :> Text1("main") @@ "today" :> Flag(TRUE)),
   Request(Alice, "calendar.events", "calendar_id" :> Text1("main") @@ Span(AtHour(0), AtHour(73))),
   Request(Alice, "calendar.events", "calendar_id" :> Text1("main") @@ Span(AtHour(0), AtHour(72))),
   Request(Carol, "calendar.events", "calendar_id" :> Text1("other") @@ Span(AtHour(5), AtHour(4))),
   Request(Alice, "calendar.freebusy", "calendar_ids" :> Str(<<"main">>)),
   Request(Alice, "calendar.freebusy", "calendar_ids" :> Str(<<"main">>) @@ "days" :> Num(3)),
   Request(Alice, "calendar.freebusy", "calendar_ids" :> List(<<"main", "other">>) @@ Span(LocalTime, AtHour(9))),
   Request(Alice, "calendar.freebusy", "calendar_ids" :> Text1("main") @@ Span(LocalTime, Unreadable)),
   Request(Alice, "calendar.freebusy", "calendar_ids" :> Mixed(<<"main">>, <<"main", "other">>, TRUE) @@ "days" :> Num(3)),
   Request(Alice, "calendar.freebusy", "calendar_ids" :> Text1("main") @@ "week" :> Flag(TRUE)
                                       @@ "week_start" :> Text1("someday"))}

OddInputs ==
  {[Request(Alice, "gmail.search", NoParams) EXCEPT !.id = ""],
   Request(Alice, "", NoParams),
   Request(Unnamed, "policy.actions", NoParams),
   Request(Alice, "policy.actions", "x" :> Null),
   Request(Carol, "gmail.get", NoParams),
   Request(Bob, "gmail.search", NoParams),
   Request(Alice, "drive.list", NoParams)}

-----------------------------------------------------------------------------
(* Requests that go wrong *)

\* gmail.labels.modify as the client sends it, and a mail in a thread to someone
\* the policy does not list.
UnrunnableInputs ==
  {Request(Alice, "gmail.labels.modify",
           "thread_ids" :> List(<<"t", "u">>) @@ "add" :> Text1("work")),
   Request(Alice, "gmail.send", To(<<"eve">>) @@ Thread)}

\* A mail to someone the policy lists, with a list in the list of copies, and a
\* query with a term that bounds it where it stands alone, but not there.
UnlimitedInputs ==
  {Request(Alice, "gmail.send", To(<<"ann">>) @@ "cc" :> Mixed(<<>>, <<"eve">>, TRUE)),
   Request(Alice, "gmail.search", "query" :> Str(<<Words, Loose(NewerThan(1))>>))}

ActionInputs == SearchInputs \cup MessageInputs \cup SendInputs \cup LabelRuleInputs
                \cup CalendarInputs \cup OddInputs \cup UnlimitedInputs
=============================================================================
