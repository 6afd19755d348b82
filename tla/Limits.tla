------------------------------- MODULE Limits -------------------------------
(***************************************************************************)
(* What the policy file permits gog to do for a request, stated on the     *)
(* arguments gog gets and on the labels of the mailbox, not by the rules   *)
(* the code checks the request with; and what an answer may say of it.     *)
(*                                                                         *)
(* A run of gog is a record e of the account it runs for, its action and   *)
(* its arguments.  The limits are stated for a set K of parameters: those  *)
(* a limit is to hold for.                                                 *)
(***************************************************************************)
EXTENDS Deployment, Integers, TLC

\* The labels of a mailbox a word denotes, by id or by name.
Denoted(mail, word) == {id \in DOMAIN mail : word \in {id, mail[id]}}

\* The policy lists this word, or another word for a label it denotes.
Listed(mail, word, allowed) ==
  \/ word \in allowed
  \/ \E id \in Denoted(mail, word) : {id, mail[id]} \cap allowed # {}

\* The words of a value: of a list, those of the lists in it as well.  A number
\* and a switch stand for a word no policy lists.
Unlisted == "a number or a switch"
WordsOf(value) ==
  IF value.type \in {"string", "list", "mixed"} THEN Range(value.toks) \ {Blank}
  ELSE {Unlisted}

AllListed(mail, args, k, allowed) ==
  k \in DOMAIN args => \A word \in WordsOf(args[k]) : Listed(mail, word, allowed)

LabelsWithin(g, mail, e, K) ==
  /\ e.action \in {"gmail.thread.modify", "gmail.labels.modify"} =>
       /\ DOMAIN e.args \cap {"add", "remove"} # {}
       /\ "add" \in K => AllListed(mail, e.args, "add", g.add)
       /\ "remove" \in K => AllListed(mail, e.args, "remove", g.remove)
  /\ e.action = "gmail.labels.get" /\ g.read # {} =>
       AllListed(mail, e.args, "label", g.read)

\* Every message a search finds is at most maxDays old, and of a sender the
\* policy lists: one of the terms that bind sees to it.  A message of the day so
\* many days ago may be almost a day older than that.
SearchWithin(g, e, K) ==
  e.action \in {"gmail.search", "gmail.thread.list"} /\ "query" \in K =>
    LET terms == Range(e.args["query"].toks)
    IN  /\ g.maxDays > 0 =>
             \E t \in terms :
               \/ t.op = "newer_than" /\ t.binds /\ t.days <= g.maxDays
               \/ t.op = "after" /\ t.binds /\ t.valid /\ t.ago < g.maxDays
        /\ g.senders # {} =>
             \E t \in terms : t.op = "from" /\ t.binds /\ t.domains \subseteq g.senders

\* Whoever the request names, in a list within a list too.
Named(p) ==
  UNION {WordsOf(p[k]) : k \in DOMAIN p \cap {"to", "cc", "bcc"}}

\* A mail is sent only when the request names someone, and to no one but those
\* who may get it.
MailWithin(g, i, e, K) ==
  e.action \in {"gmail.send", "gmail.drafts.create"} =>
    /\ DOMAIN e.args \cap {"track", "track_split", "reply_all"} = {}
    /\ "attach" \in DOMAIN e.args => g.allowAttachments
    /\ e.action = "gmail.send" =>
         /\ ~g.draftOnly
         /\ g.recipients # {} =>
              /\ Named(i.params) # {}
              /\ \A k \in DOMAIN e.args \cap K \cap {"to", "cc", "bcc"} :
                   WordsOf(e.args[k]) \subseteq g.recipients

ReadWithin(e) ==
  e.action = "gmail.get" => /\ e.args["format"] = Str(<<"metadata">>)
                            /\ "headers" \notin DOMAIN e.args

\* The time asked about is that between two ends, and no longer than max_days.
CalendarWithin(c, e, K) ==
  e.action \in {"calendar.events", "calendar.freebusy"} =>
    /\ {"time_min", "time_max"} \subseteq DOMAIN e.args
    /\ LET hours == e.args["time_max"].toks[1].hour - e.args["time_min"].toks[1].hour
       IN  0 <= hours /\ (c.maxDays > 0 => hours <= c.maxDays * 24)
    /\ c.calendars # {} =>
         \A k \in DOMAIN e.args \cap K \cap {"calendar_id", "calendar_ids"} :
           WordsOf(e.args[k]) \subseteq c.calendars

\* What gog does for the request i keeps the limits of its account's policy, for
\* the parameters of K, given the labels of some listing of the mailbox.
LimitsOn(i, e, K) ==
  LET pol == PolicyOf(i)
  IN  /\ e.action \in GmailActions =>
           /\ \E mail \in Mailbox[e.account] : LabelsWithin(pol.gmail, mail, e, K)
           /\ SearchWithin(pol.gmail, e, K)
           /\ MailWithin(pol.gmail, i, e, K)
           /\ ReadWithin(e)
      /\ e.action \in CalendarActions => CalendarWithin(pol.calendar, e, K)

\* The terms that bound a query bind, those appended to it as well.
Conjunction(query) ==
  \A j \in DOMAIN query :
    /\ query[j].op # "dangling"
    /\ query[j].op \in {"newer_than", "after"} => query[j].binds

\* The parameters that policy and gog read alike: texts and lists of strings, and
\* a query only where all its terms must match.  The getters of the policy pass
\* over what else a list holds and over a value that is no list, and the regular
\* expressions over what stands around a term; gog gets all of it.
Understood(i) ==
  {k \in DOMAIN i.params :
     /\ IsText(i.params[k])
     /\ k = "query" /\ ActionOf(i) \in {"gmail.search", "gmail.thread.list"} =>
          Conjunction(i.params[k].toks)}

\* gog may do e for the request i: its action is one the account's policy
\* allows, or the draft of a mail it allows to send, and it keeps the limits on
\* all that policy and gog read alike.
Permitted(i, e) ==
  /\ e.account = AccountOf(i)
  /\ ActionOf(i) \in PolicyOf(i).actions
  /\ \/ e.action = ActionOf(i)
     \/ ActionOf(i) = "gmail.send" /\ e.action = "gmail.drafts.create"
  /\ LimitsOn(i, e, Understood(i))

-----------------------------------------------------------------------------
\* What an answer with this code says about whether gog acted for i.
Truthful(i, acted, code) ==
  /\ code \in {"bad_request", "forbidden"} => ~acted
  /\ code = "redaction_error" => acted
  /\ code = "ok" => \/ acted
                    \/ /\ ActionOf(i) = "policy.actions"
                       /\ "policy.actions" \in PolicyOf(i).actions
=============================================================================
