------------------------------ MODULE MCReading -----------------------------
(***************************************************************************)
(* Instances of Reading for TLC: a mailbox of three labels whose names     *)
(* change and change places, and policies that list labels by id and name. *)
(***************************************************************************)
EXTENDS Reading

Named(first, second) == "l1" :> first @@ "l2" :> second @@ "inbox" :> "inbox"

ThreeListings == {Named("work", "home"), Named("home", "work"), Named("job", "home")}

\* A thread of two messages, one of a single message, one with no label.
SomeThreads == <<<<{"l1", "inbox"}, {"l2"}>>, <<{"inbox"}>>, <<{}>>>>

Gmail(read, senders, allowBody, allowLinks) ==
  [read |-> read, add |-> {"l2"}, remove |-> {}, senders |-> senders,
   allowBody |-> allowBody, allowLinks |-> allowLinks]

Account(gmail, calendars, allowDetails) ==
  [gmail |-> gmail, calendar |-> [calendars |-> calendars, allowDetails |-> allowDetails]]

SomeCalendars ==
  <<Word("team"), Address("bob@acme", "acme"), Address("room@else", "else")>>

ListedPolicies ==
  {Account(Gmail({"l1"}, {}, FALSE, FALSE), {"team"}, TRUE),
   Account(Gmail({"l2", "job"}, {"acme"}, TRUE, TRUE), {"bob@acme", "room@else"}, TRUE),
   Account(Gmail({}, {"acme"}, FALSE, TRUE), {}, FALSE)}

\* A label is listed by its name, and a calendar that is the address of somebody
\* whose mail may not be read.
HidingPolicies == {Account(Gmail({"work"}, {"acme"}, FALSE, FALSE), {"room@else"}, TRUE)}
=============================================================================
