------------------------------- MODULE Redact -------------------------------
(***************************************************************************)
(* internal/redact: what is left of the response gog printed.              *)
(*                                                                         *)
(* A response is the tree of a decoded JSON document, written as a         *)
(* function from the paths of its leaves to the leaves.  A step of a path  *)
(* is the key of a map or the position in an array; a filtered array keeps *)
(* the positions of its items, which stand for the items.  The text of a   *)
(* string is a sequence of parts, and what a part says is lower-cased,     *)
(* which is how labels are compared.                                       *)
(***************************************************************************)
EXTENDS PolicyRules, FiniteSetsExt

Key(k) == [key |-> k, at |-> 0]
At(i)  == [key |-> Blank, at |-> i]

InArray(step) == step.key = Blank

\* The parts of a text: a word, a URL, an e-mail address, and what is put in
\* the place of the last two.
Word(w)       == [part |-> "word", says |-> w, domain |-> Blank]
Link          == [part |-> "link", says |-> Blank, domain |-> Blank]
Address(w, d) == [part |-> "address", says |-> w, domain |-> d]
Masked        == [part |-> "masked", says |-> Blank, domain |-> Blank]

Wording(parts) == [kind |-> "string", parts |-> parts]  \* a JSON string
Scalar         == [kind |-> "scalar", parts |-> <<>>]   \* a number, bool, null

\* The string is one of these, as a whole.
SaysOneOf(leaf, words) ==
  leaf.kind = "string" /\ Len(leaf.parts) = 1 /\ leaf.parts[1].says \in words \ {Blank}

Shown(doc) == [refused |-> FALSE, doc |-> doc]
RefusedResponse == [refused |-> TRUE, doc |-> << >>]

-----------------------------------------------------------------------------
(* redactAny *)

alwaysDropKeys == {"attachment", "attachments"}
snippetKeys == {"snippetHtml", "snippet_html"}
bodyKeys == {"body", "payload", "parts", "raw", "html", "htmlbody", "mime", "mimeType"}
calendarDetailKeys ==
  {"hangoutLink", "conferenceData", "location", "description", "htmlLink"}

\* What the sections of a policy forbid, in any response of the account.
BodyForbidden(pol)    == "gmail" \in DOMAIN pol /\ ~pol.gmail.allowBody
DetailsForbidden(pol) == "calendar" \in DOMAIN pol /\ ~pol.calendar.allowDetails
LinksForbidden(pol) ==
  \/ "gmail" \in DOMAIN pol /\ ~pol.gmail.allowLinks
  \/ DetailsForbidden(pol)
SendersListed(pol) == "gmail" \in DOMAIN pol /\ pol.gmail.senders # {}

shouldDropKey(key, pol) ==
  \/ key \in alwaysDropKeys \cup snippetKeys
  \/ BodyForbidden(pol) /\ key \in bodyKeys
  \/ DetailsForbidden(pol) /\ key \in calendarDetailKeys

maskEmails(part, pol) ==
  part.part = "address" /\ SendersListed(pol) /\ part.domain \notin pol.gmail.senders

sanitizeString(parts, pol) ==
  [i \in DOMAIN parts |->
     IF \/ parts[i].part = "link" /\ LinksForbidden(pol)
        \/ maskEmails(parts[i], pol)
       THEN Masked ELSE parts[i]]

redactAny(doc, pol) ==
  [p \in {q \in DOMAIN doc : \A i \in DOMAIN q : ~shouldDropKey(q[i].key, pol)} |->
     [doc[p] EXCEPT !.parts = sanitizeString(doc[p].parts, pol)]]

-----------------------------------------------------------------------------
(* hasAllowedLabelIDs *)

LabelListKeys == {"labelIds", "labelids", "label_ids"}

\* The arrays of strings under a label key, by their paths.
LabelLists(doc) ==
  {Front(p) : p \in {q \in DOMAIN doc :
     /\ Len(q) > 1 /\ InArray(q[Len(q)]) /\ doc[q].kind = "string"
     /\ q[Len(q) - 1].key \in LabelListKeys}}

\* Faulty: the items of an array are walked in any order too.
MetInside(p, q) == IsStrictPrefix(p, q)

\* Every walk over the response meets p before q: p holds q, or they part in
\* an array.  The keys of a map are walked in any order.
MetBefore(p, q) ==
  \/ IsStrictPrefix(p, q)
  \/ \E n \in DOMAIN p \cap DOMAIN q :
       /\ \A j \in 1..(n - 1) : p[j] = q[j]
       /\ InArray(p[n]) /\ InArray(q[n]) /\ p[n].at < q[n].at

\* The lists a walk may meet first; the first one decides.
DecidingLists(doc) ==
  {p \in LabelLists(doc) : \A q \in LabelLists(doc) : ~MetBefore(q, p)}

ListAllowed(doc, list, allowed) ==
  \E p \in DOMAIN doc : p # <<>> /\ Front(p) = list /\ SaysOneOf(doc[p], allowed)

\* The outcomes of the check on this response: no label is found, one that is
\* allowed is, or none that is allowed is.
hasAllowedLabelIDs(doc, allowed) ==
  IF LabelLists(doc) = {} THEN {"unlabelled"}
  ELSE {IF ListAllowed(doc, list, allowed) THEN "allowed" ELSE "refused" :
          list \in DecidingLists(doc)}

-----------------------------------------------------------------------------
(* The filters on lists *)

\* The list under a key of the root without the items that do not pass.
WithoutItems(doc, key, Passes(_)) ==
  [p \in {q \in DOMAIN doc :
            Len(q) > 1 /\ q[1] = Key(key) /\ InArray(q[2]) => Passes(q[2].at)} |-> doc[p]]

Field(key, i, name) == <<Key(key), At(i), Key(name)>>

FieldSays(doc, key, i, name, words) ==
  /\ Field(key, i, name) \in DOMAIN doc
  /\ SaysOneOf(doc[Field(key, i, name)], words)

\* extractLabels: the strings of a thread's first label list that has any.
ItemLabels(doc, i, name) ==
  {doc[p] : p \in {q \in DOMAIN doc :
     Len(q) = 4 /\ Front(q) = Field("threads", i, name) /\ InArray(q[4])
       /\ doc[q].kind = "string" /\ doc[q].parts # <<>>}}

extractLabels(doc, i) ==
  LET names == <<"labels", "labelIds", "label_ids">>
      first == SelectInSeq(names, LAMBDA n : ItemLabels(doc, i, n) # {})
  IN  IF first = 0 THEN {} ELSE ItemLabels(doc, i, names[first])

\* Faulty: the names of listed ids are not added.
WordsAsListed(allowed, table) == allowed

\* The allowed words and the names of the allowed ids.
AllowedWords(allowed, table) ==
  allowed \cup {table.nameOf[l] : l \in allowed \cap DOMAIN table.nameOf}

filterSearchResults(doc, allowed, table) ==
  WithoutItems(doc, "threads",
    LAMBDA i : \E leaf \in extractLabels(doc, i) :
                 SaysOneOf(leaf, AllowedWords(allowed, table)))

filterLabelsList(doc, allowed) ==
  WithoutItems(doc, "labels",
    LAMBDA i : \/ FieldSays(doc, "labels", i, "id", allowed)
               \/ FieldSays(doc, "labels", i, "name", allowed))

filterCalendarList(doc, allowed) ==
  WithoutItems(doc, "calendars", LAMBDA i : FieldSays(doc, "calendars", i, "id", allowed))

allowedLabelUnion(g) == (g.read \cup g.add \cup g.remove) \ {Blank}

-----------------------------------------------------------------------------
\* Redact: what the client may be given of doc.
Redact(action, doc, pol, table) ==
  LET clean == redactAny(doc, pol)
  IN  CASE action \in {"gmail.search", "gmail.thread.list"} ->
             {Shown(IF pol.gmail.read = {} THEN clean
                    ELSE filterSearchResults(clean, pol.gmail.read, table))}
        [] action = "gmail.labels.list" ->
             {Shown(IF allowedLabelUnion(pol.gmail) = {} THEN clean
                    ELSE filterLabelsList(clean, allowedLabelUnion(pol.gmail)))}
        [] action = "calendar.list" ->
             {Shown(IF pol.calendar.calendars = {} THEN clean
                    ELSE filterCalendarList(clean, pol.calendar.calendars))}
        [] action \in {"gmail.send", "gmail.drafts.create",
                       "calendar.events", "calendar.freebusy"} -> {Shown(clean)}
        [] action \in GmailActions
                        \ {"gmail.search", "gmail.thread.list", "gmail.labels.list",
                           "gmail.send", "gmail.drafts.create"} ->
             IF pol.gmail.read = {} THEN {Shown(clean)}
             ELSE {IF v = "refused" THEN RefusedResponse ELSE Shown(clean) :
                     v \in hasAllowedLabelIDs(clean, pol.gmail.read)}
        [] OTHER -> {Shown(doc)}
=============================================================================
