----------------------------- MODULE GogRunner ------------------------------
(***************************************************************************)
(* internal/gog: which parameters of an action the gog command line takes, *)
(* and the arguments a run of gog gets.                                    *)
(*                                                                         *)
(* Arguments are a function from the parameter names that reach the        *)
(* command line to the value that follows them; the order of flags and the *)
(* fixed words of a command are left out.                                  *)
(***************************************************************************)
EXTENDS Params

Command(positional, flags, multi) ==
  [positional |-> positional, flags |-> flags, multi |-> multi]

SearchCommand == Command({"query"}, {"max", "page", "oldest"}, {})
DraftFlags == {"to", "cc", "bcc", "subject", "body", "body_html",
               "reply_to_message_id", "reply_to", "from"}
SendFlags == DraftFlags \cup {"thread_id", "reply_all", "track", "track_split"}
EventFlags == {"time_min", "time_max", "max", "page", "query"}

\* actionSpecs: an action that is not here has no command.
GogActions ==
  {"gmail.search", "gmail.thread.list", "gmail.thread.get", "gmail.thread.modify",
   "gmail.get", "gmail.send", "gmail.drafts.create", "gmail.labels.list",
   "gmail.labels.get", "gmail.labels.modify", "calendar.list", "calendar.events",
   "calendar.freebusy"}

actionSpecs ==
  [a \in GogActions |->
     CASE a \in {"gmail.search", "gmail.thread.list"} -> SearchCommand
       [] a = "gmail.thread.get"    -> Command({"thread_id"}, {}, {})
       [] a = "gmail.thread.modify" -> Command({"thread_id"}, {"add", "remove"}, {})
       [] a = "gmail.get"           -> Command({"message_id"}, {"format", "headers"}, {})
       [] a = "gmail.send"          -> Command({}, SendFlags, {"attach"})
       [] a = "gmail.drafts.create" -> Command({}, DraftFlags, {"attach"})
       [] a = "gmail.labels.list"   -> Command({}, {}, {})
       [] a = "gmail.labels.get"    -> Command({"label"}, {}, {})
       [] a = "gmail.labels.modify" -> Command({"thread_ids"}, {"add", "remove"}, {})
       [] a = "calendar.list"       -> Command({}, {"max", "page"}, {})
       [] a = "calendar.events"     -> Command({"calendar_id"}, EventFlags, {})
       [] a = "calendar.freebusy"   -> Command({"calendar_ids"}, {"time_min", "time_max"}, {})]

\* normalizeValue: the values it converts ([]string, null and objects are not
\* among them), and those it makes no argument of.
IsArray(v) == v.type \in {"list", "mixed"}
Supported(v) ==
  \/ v.type \in {"string", "number", "bool", "list"}
  \/ v.type = "mixed" /\ v.converts
NoArgument(v) == IsArray(v) /\ v.toks = <<>>

\* buildArgs succeeds: every positional parameter is there with a value, every
\* value can be converted, and no parameter is unknown to the command.
GogAccepts(action, p) ==
  /\ action \in DOMAIN actionSpecs
  /\ LET cmd == actionSpecs[action]
     IN  /\ \A k \in cmd.positional :
              k \in DOMAIN p /\ Supported(p[k]) /\ ~NoArgument(p[k])
         /\ \A k \in DOMAIN p \cap (cmd.flags \cup cmd.multi) : Supported(p[k])
         /\ DOMAIN p \subseteq cmd.positional \cup cmd.flags \cup cmd.multi

\* The arguments buildArgs makes: of the leaves of a list a flag passes the
\* first one only, a false flag and an empty list pass nothing.
GogArgs(action, p) ==
  LET cmd == actionSpecs[action]
      passed == {k \in DOMAIN p :
                   /\ ~NoArgument(p[k])
                   /\ ~(k \in cmd.flags /\ p[k] = Flag(FALSE))}
  IN  [k \in passed |->
         IF IsArray(p[k])
           THEN IF k \in cmd.flags THEN Str(<<p[k].toks[1]>>) ELSE Str(p[k].toks)
           ELSE p[k]]

\* RunnerFor: the account gog runs for.
RunnerFor(account, default) == IF account = "" THEN default ELSE account
=============================================================================
