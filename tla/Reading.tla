------------------------------- MODULE Reading ------------------------------
(***************************************************************************)
(* Reading a mailbox and its calendars through the broker, while labels    *)
(* are renamed and the broker is restarted: gog prints what is there now,  *)
(* internal/redact filters it with the label maps the process looked up    *)
(* some time ago.                                                          *)
(*                                                                         *)
(* A request is one step here.  Broker models what happens inside it, and  *)
(* its theorem LabelsKnownAlways is what makes this sound: a request that  *)
(* needs labels is answered only after the one lookup of its process, by   *)
(* the tables that lookup filled in.                                       *)
(***************************************************************************)
EXTENDS Redact

CONSTANTS
  Policies,   \* the policies the account may have
  Listings,   \* the labels the mailbox may have: functions from id to name
  Threads,    \* its threads: sequences of messages, each the set of its labels
  Calendars   \* the account's calendars, by their ids

\* A mailbox has finitely many labels, each has a name, and every label a message
\* has is in every listing.
ASSUME ListingsAssumption ==
  \A listing \in Listings :
    /\ IsFiniteSet(DOMAIN listing) /\ \A l \in DOMAIN listing : listing[l] # Blank
    /\ \A t \in DOMAIN Threads : \A m \in DOMAIN Threads[t] :
         Threads[t][m] \subseteq DOMAIN listing

\* Threads and their messages are numbered, and a thread has a first message.
ASSUME ThreadsAssumption ==
  /\ DOMAIN Threads \subseteq Nat
  /\ \A t \in DOMAIN Threads : DOMAIN Threads[t] \subseteq Nat /\ 1 \in DOMAIN Threads[t]

\* The id of a calendar is a word or an address.
ASSUME CalendarsAssumption ==
  \A i \in DOMAIN Calendars : Calendars[i].part \in {"word", "address"}

VARIABLES
  policy,     \* the policy the process has loaded
  mail,       \* the labels of the mailbox
  table,      \* the label maps of the policy
  seen,       \* the listings the mailbox has had since their lookup
  asked,      \* the action of the last request, and the thread it is about
  printed,    \* what gog printed for it
  shown       \* what the client got of that

exchange == <<asked, printed, shown>>
vars == <<policy, mail, table, seen, exchange>>

Nothing == [action |-> "none", thread |-> 0]

-----------------------------------------------------------------------------
(* What gog prints, as the code and its tests take it *)

LabelsOf(t) == UNION {Threads[t][m] : m \in DOMAIN Threads[t]}

\* A document: the leaves under a path, and the parts of one joined.
Leaf(path, leaf) == [p \in {path} |-> leaf]
Joined(docs) == [p \in UNION {DOMAIN d : d \in docs} |->
                   (CHOOSE d \in docs : p \in DOMAIN d)[p]]
Strings1(path, words) ==
  LET listed == SetToSeq(words)
  IN  Joined({Leaf(path \o <<At(i)>>, Wording(<<Word(listed[i])>>)) : i \in DOMAIN listed})

\* A search: the threads that are found, with the names of their labels.
SearchPrinted(found) ==
  Joined(UNION {{Leaf(Field("threads", t, "id"), Scalar),
                 Leaf(Field("threads", t, "snippet"),
                      Wording(<<Word("see"), Link, Address("eve@else", "else")>>)),
                 Strings1(Field("threads", t, "labels"), {mail[l] : l \in LabelsOf(t)})} :
                t \in found})

\* A message: the ids of its labels, and its content.
MessagePrinted(path, labels) ==
  Joined({Leaf(path \o <<Key("snippet")>>, Wording(<<Word("see"), Link>>)),
          Leaf(path \o <<Key("payload"), Key("body")>>, Wording(<<Word("text")>>)),
          Strings1(path \o <<Key("labelIds")>>, labels)})

GetPrinted(t) == MessagePrinted(<<Key("message")>>, Threads[t][1])
ThreadPrinted(t) ==
  Joined({MessagePrinted(<<Key("thread"), Key("messages"), At(m)>>, Threads[t][m]) :
            m \in DOMAIN Threads[t]})

LabelsPrinted ==
  LET ids == SetToSeq(DOMAIN mail)
  IN  Joined(UNION {{Leaf(Field("labels", i, "id"), Wording(<<Word(ids[i])>>)),
                     Leaf(Field("labels", i, "name"), Wording(<<Word(mail[ids[i]])>>))} :
                    i \in DOMAIN ids})

CalendarsPrinted ==
  Joined(UNION {{Leaf(Field("calendars", i, "id"), Wording(<<Calendars[i]>>)),
                 Leaf(Field("calendars", i, "location"), Wording(<<Word("room")>>))} :
                i \in DOMAIN Calendars})

\* The documents gog may print for an action; a search finds any threads.
Printed(a) ==
  CASE a.action = "gmail.search" -> {SearchPrinted(found) : found \in SUBSET DOMAIN Threads}
    [] a.action = "gmail.get" -> {GetPrinted(a.thread)}
    [] a.action = "gmail.thread.get" -> {ThreadPrinted(a.thread)}
    [] a.action = "gmail.labels.list" -> {LabelsPrinted}
    [] a.action = "calendar.list" -> {CalendarsPrinted}

Asks ==
  [action : {"gmail.get", "gmail.thread.get"}, thread : DOMAIN Threads]
  \cup [action : {"gmail.search", "gmail.labels.list", "calendar.list"}, thread : {0}]

-----------------------------------------------------------------------------
NeedsLookup(a) ==
  /\ a.action \in {"gmail.search", "gmail.labels.list"}
  /\ allowedLabelUnion(policy.gmail) # {}

\* The process has looked its labels up.
LookedUp == seen # {}

Init ==
  /\ policy \in Policies
  /\ mail \in Listings
  /\ table = EmptyTable /\ seen = {}
  /\ asked = Nothing /\ printed = << >> /\ shown = Shown(<< >>)

NoExchange == asked' = Nothing /\ printed' = << >> /\ shown' = Shown(<< >>)

\* ensureLabelMap, before the first request that needs it.
Lookup ==
  /\ ~LookedUp
  /\ \E t \in LabelTables(mail) : table' = t
  /\ seen' = {mail}
  /\ NoExchange
  /\ UNCHANGED <<policy, mail>>

\* Faulty: the filters get the response as gog printed it.
Unfiltered(a, doc) == {Shown(doc)}

\* What the client gets of a document.
Answers(a, doc) == Redact(a.action, doc, policy, table)

Read(a) ==
  /\ NeedsLookup(a) => LookedUp
  /\ asked' = a
  /\ printed' \in Printed(a)
  /\ shown' \in Answers(a, printed')
  /\ UNCHANGED <<policy, mail, table, seen>>

\* Labels are renamed, added or removed elsewhere.
Rename ==
  /\ mail' \in Listings
  /\ seen' = IF LookedUp THEN seen \cup {mail'} ELSE {}
  /\ NoExchange
  /\ UNCHANGED <<policy, table>>

\* A new process reads the policy file again and knows no labels.
Restart ==
  /\ policy' \in Policies
  /\ table' = EmptyTable /\ seen' = {}
  /\ NoExchange
  /\ UNCHANGED mail

Next == Lookup \/ (\E a \in Asks : Read(a)) \/ Rename \/ Restart

Spec == Init /\ [][Next]_vars

-----------------------------------------------------------------------------
(* Properties *)

Listed == policy.gmail.read

\* The items of a list of a document, by position.
Items(doc, key) == {p[2].at : p \in {q \in DOMAIN doc : Len(q) > 1 /\ q[1] = Key(key)}}

\* The thread has a label that the policy lists by its present name, or by its
\* id when the label's name was as m says.
MayBeFound(t, m) ==
  \E l \in LabelsOf(t) :
    \/ mail[l] \in Listed
    \/ \E k \in Listed \cap DOMAIN m : m[k] = mail[l]

\* A search is filtered by one listing of the labels that the mailbox has had
\* since the lookup, whatever is renamed meanwhile: of the threads gog found,
\* those that may be found by that listing are left, all of them, and no others
\* (allowedLabelForItem, redact.go:345-369).
SearchIsConsistent ==
  asked.action = "gmail.search" /\ Listed \ {Blank} # {} =>
    \E m \in seen : Items(shown.doc, "threads")
                      = {t \in Items(printed, "threads") : MayBeFound(t, m)}

\* The order in which Go walks over a map never decides whether a response is
\* shown: on the documents gog prints, whatever list of labels is met first,
\* the outcome is the same (hasAllowedLabelIDs, redact.go:202-238).
SameVerdict == asked # Nothing => Cardinality(Answers(asked, printed)) = 1

\* Every leaf of left is one of doc, without what pol forbids.
Permitted(left, doc, pol) ==
  \A p \in DOMAIN left :
    /\ p \in DOMAIN doc /\ left[p].kind = doc[p].kind
    /\ \A i \in DOMAIN p : ~shouldDropKey(p[i].key, pol)
    /\ \A i \in DOMAIN left[p].parts :
         LET part == left[p].parts[i]
         IN  /\ part = Masked \/ part = doc[p].parts[i]
             /\ part.part = "link" => ~LinksForbidden(pol)
             /\ part.part = "address" /\ SendersListed(pol)
                  => part.domain \in pol.gmail.senders

\* Nothing that the policy forbids is left anywhere in what is shown, in any
\* answer, even where a list was filtered after it was redacted: no key that is
\* dropped, no URL, no address of a domain that is not allowed, and nothing that
\* gog did not print (redactAny and sanitizeString, redact.go:110-200).
NothingForbiddenLeft == Permitted(shown.doc, printed, policy)

AsksForCalendars == asked.action = "calendar.list" /\ policy.calendar.calendars # {}

\* The calendars of the account that the policy lists.
ListedCalendars ==
  {i \in DOMAIN Calendars : Calendars[i].says \in policy.calendar.calendars \ {Blank}}

\* What the code does: the calendars shown are exact but for those whose id the mask
\* has replaced before the filter reads it, which are addresses of a domain that no
\* allowed sender has (redact.go:91-97, and filterCalendarList, redact.go:413-453).
OnlyMaskedCalendarsMiss ==
  AsksForCalendars =>
    Items(shown.doc, "calendars")
      = {i \in ListedCalendars : ~maskEmails(Calendars[i], policy)}

\* What the policy lists is shown to who asks for it: a message one of whose labels
\* it lists, by its id or its name, and a calendar of the account it lists by its id
\* (bootstrap's help, "Allowed Gmail read label ID/name" and "Allowed calendar ID",
\* cmd/bootstrap/main.go:75 and 79).
ListedIsShown ==
  /\ asked.action = "gmail.get"
       /\ (\E l \in Threads[asked.thread][1] : {l, mail[l]} \cap Listed # {})
         => ~shown.refused
  /\ AsksForCalendars => ListedCalendars \subseteq Items(shown.doc, "calendars")

\* A message or thread is shown only if one of its messages has a label that may
\* be read, or none has any label; but it is enough that one has, since one list
\* of labels decides for the whole response (redact.go:79-84, 202-238).
ShownHasListedLabel ==
  asked.action \in {"gmail.get", "gmail.thread.get"} /\ ~shown.refused /\ Listed # {} =>
    LET labels == IF asked.action = "gmail.get" THEN Threads[asked.thread][1]
                  ELSE LabelsOf(asked.thread)
    IN  labels = {} \/ labels \cap Listed # {}
=============================================================================
