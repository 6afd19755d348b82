--------------------------- MODULE ReadingProofs ----------------------------
(***************************************************************************)
(* Proofs about Redact and Reading, for all policies, mailboxes, threads   *)
(* and calendars: what is shown is permitted, and the label table is that  *)
(* of one listing of the labels.                                           *)
(*                                                                         *)
(* Redact first takes out what is forbidden, and a list it filters then is *)
(* a part of the rest; so the result is a part of a permitted document.    *)
(***************************************************************************)
EXTENDS Reading, FiniteSetTheorems, SequenceTheorems, WellFoundedInduction, TLAPS

\* A document: its leaves are leaves.
Document(doc) ==
  \A p \in DOMAIN doc : doc[p] = [kind |-> doc[p].kind, parts |-> doc[p].parts]

PartOf(d, e) == \A p \in DOMAIN d : p \in DOMAIN e /\ d[p] = e[p]

LEMMA PartIsPermitted ==
  ASSUME NEW d, NEW e, NEW doc, NEW pol, PartOf(d, e), Permitted(e, doc, pol)
  PROVE  Permitted(d, doc, pol)
BY DEF PartOf, Permitted

\* redactAny leaves what is permitted.
LEMMA RedactedIsPermitted ==
  ASSUME NEW doc, NEW pol, Document(doc)
  PROVE  Permitted(redactAny(doc, pol), doc, pol)
<1> DEFINE left == redactAny(doc, pol)
<1> SUFFICES ASSUME NEW p \in DOMAIN left
             PROVE  /\ p \in DOMAIN doc /\ left[p].kind = doc[p].kind
                    /\ \A i \in DOMAIN p : ~shouldDropKey(p[i].key, pol)
                    /\ \A i \in DOMAIN left[p].parts :
                         /\ left[p].parts[i] = Masked \/ left[p].parts[i] = doc[p].parts[i]
                         /\ left[p].parts[i].part = "link" => ~LinksForbidden(pol)
                         /\ left[p].parts[i].part = "address" /\ SendersListed(pol)
                              => left[p].parts[i].domain \in pol.gmail.senders
  BY DEF Permitted
<1>1. p \in DOMAIN doc /\ \A i \in DOMAIN p : ~shouldDropKey(p[i].key, pol)
  BY DEF redactAny
<1>2. left[p] = [doc[p] EXCEPT !.parts = sanitizeString(doc[p].parts, pol)]
  BY <1>1 DEF redactAny
<1>3. doc[p] = [kind |-> doc[p].kind, parts |-> doc[p].parts]
  BY <1>1 DEF Document
<1>4. left[p].kind = doc[p].kind /\ left[p].parts = sanitizeString(doc[p].parts, pol)
  BY <1>2, <1>3
<1>5. ASSUME NEW i \in DOMAIN left[p].parts
      PROVE  /\ left[p].parts[i] = Masked \/ left[p].parts[i] = doc[p].parts[i]
             /\ left[p].parts[i].part = "link" => ~LinksForbidden(pol)
             /\ left[p].parts[i].part = "address" /\ SendersListed(pol)
                  => left[p].parts[i].domain \in pol.gmail.senders
  <2>1. i \in DOMAIN doc[p].parts
    BY <1>4, <1>5 DEF sanitizeString
  <2>2. left[p].parts[i] = IF \/ doc[p].parts[i].part = "link" /\ LinksForbidden(pol)
                              \/ maskEmails(doc[p].parts[i], pol)
                            THEN Masked ELSE doc[p].parts[i]
    BY <1>4, <2>1 DEF sanitizeString
  <2>3. Masked.part = "masked"
    BY DEF Masked
  <2> QED BY <2>2, <2>3 DEF maskEmails
<1> QED BY <1>1, <1>4, <1>5

\* What Redact shows of a document is permitted, and it shows nothing of one
\* that it refuses.
LEMMA RedactIsPermitted ==
  ASSUME NEW a \in Asks, NEW doc, NEW pol, NEW t, Document(doc),
         NEW out \in Redact(a.action, doc, pol, t)
  PROVE  Permitted(out.doc, doc, pol)
<1> DEFINE clean == redactAny(doc, pol)
<1>1. Permitted(clean, doc, pol)
  BY RedactedIsPermitted
<1>2. PartOf(clean, clean)
  BY DEF PartOf
<1>3. PartOf(filterSearchResults(clean, pol.gmail.read, t), clean)
  BY DEF PartOf, filterSearchResults, WithoutItems
<1>4. PartOf(filterLabelsList(clean, allowedLabelUnion(pol.gmail)), clean)
  BY DEF PartOf, filterLabelsList, WithoutItems
<1>5. PartOf(filterCalendarList(clean, pol.calendar.calendars), clean)
  BY DEF PartOf, filterCalendarList, WithoutItems
<1>6. PartOf(RefusedResponse.doc, clean)
  BY DEF PartOf, RefusedResponse
<1>7. PartOf(out.doc, clean)
  <2>1. CASE a.action = "gmail.search"
    BY <2>1, <1>2, <1>3 DEF Redact, Shown
  <2>2. CASE a.action = "gmail.labels.list"
    BY <2>2, <1>2, <1>4 DEF Redact, Shown
  <2>3. CASE a.action = "calendar.list"
    BY <2>3, <1>2, <1>5 DEF Redact, Shown, GmailActions
  <2>4. CASE a.action \in {"gmail.get", "gmail.thread.get"}
    <3> DEFINE verdicts == hasAllowedLabelIDs(clean, pol.gmail.read)
    <3>1. a.action \in GmailActions
                        \ {"gmail.search", "gmail.thread.list", "gmail.labels.list",
                           "gmail.send", "gmail.drafts.create"}
      BY <2>4 DEF GmailActions
    <3>2. Redact(a.action, doc, pol, t)
            = IF pol.gmail.read = {} THEN {Shown(clean)}
              ELSE {IF v = "refused" THEN RefusedResponse ELSE Shown(clean) : v \in verdicts}
      BY <2>4, <3>1 DEF Redact
    <3>3. out = Shown(clean) \/ out = RefusedResponse
      BY <3>2
    <3> QED BY <3>3, <1>2, <1>6 DEF Shown
  <2> QED BY <2>1, <2>2, <2>3, <2>4 DEF Asks
<1> QED BY <1>1, <1>7, PartIsPermitted

-----------------------------------------------------------------------------
(* What gog prints is a document *)

LEMMA LeafIsDocument ==
  ASSUME NEW path, NEW kind, NEW parts
  PROVE  Document(Leaf(path, [kind |-> kind, parts |-> parts]))
BY DEF Document, Leaf

LEMMA JoinedIsDocument ==
  ASSUME NEW docs, \A d \in docs : Document(d)
  PROVE  Document(Joined(docs))
<1> SUFFICES ASSUME NEW p \in DOMAIN Joined(docs)
             PROVE  Joined(docs)[p] = [kind |-> Joined(docs)[p].kind,
                                       parts |-> Joined(docs)[p].parts]
  BY DEF Document
<1>1. p \in UNION {DOMAIN d : d \in docs}
  BY DEF Joined
<1>2. \E d \in docs : p \in DOMAIN d
  BY <1>1
<1> DEFINE d1 == CHOOSE d \in docs : p \in DOMAIN d
<1>3. d1 \in docs /\ p \in DOMAIN d1
  BY <1>2
<1>4. Joined(docs)[p] = d1[p]
  BY <1>1 DEF Joined
<1> QED BY <1>3, <1>4 DEF Document

LEMMA WordsAreDocument == ASSUME NEW path, NEW words PROVE Document(Strings1(path, words))
BY JoinedIsDocument, LeafIsDocument DEF Strings1, Wording

LEMMA MessageIsDocument ==
  ASSUME NEW path, NEW labels PROVE Document(MessagePrinted(path, labels))
<1>1. /\ Document(Leaf(path \o <<Key("snippet")>>, Wording(<<Word("see"), Link>>)))
      /\ Document(Leaf(path \o <<Key("payload"), Key("body")>>, Wording(<<Word("text")>>)))
      /\ Document(Strings1(path \o <<Key("labelIds")>>, labels))
  BY LeafIsDocument, WordsAreDocument DEF Wording
<1> QED BY <1>1, JoinedIsDocument DEF MessagePrinted

LEMMA PrintedIsDocument ==
  ASSUME NEW a \in Asks, NEW doc \in Printed(a) PROVE Document(doc)
<1>1. ASSUME NEW found PROVE Document(SearchPrinted(found))
  <2> DEFINE parts(t) ==
               {Leaf(Field("threads", t, "id"), Scalar),
                Leaf(Field("threads", t, "snippet"),
                     Wording(<<Word("see"), Link, Address("eve@else", "else")>>)),
                Strings1(Field("threads", t, "labels"), {mail[l] : l \in LabelsOf(t)})}
             docs == UNION {parts(t) : t \in found}
  <2>1. ASSUME NEW t, NEW d \in parts(t) PROVE Document(d)
    BY LeafIsDocument, WordsAreDocument DEF Wording, Scalar
  <2>2. SearchPrinted(found) = Joined(docs)
    BY DEF SearchPrinted
  <2> HIDE DEF parts
  <2>3. \A d \in docs : Document(d)
    BY <2>1
  <2> HIDE DEF docs
  <2> QED BY <2>2, <2>3, JoinedIsDocument
<1>2. ASSUME NEW t PROVE Document(GetPrinted(t)) /\ Document(ThreadPrinted(t))
  BY MessageIsDocument, JoinedIsDocument DEF GetPrinted, ThreadPrinted
<1>3. Document(LabelsPrinted)
  <2> DEFINE ids == SetToSeq(DOMAIN mail)
  <2>1. ASSUME NEW i
        PROVE  /\ Document(Leaf(Field("labels", i, "id"), Wording(<<Word(ids[i])>>)))
               /\ Document(Leaf(Field("labels", i, "name"), Wording(<<Word(mail[ids[i]])>>)))
    BY LeafIsDocument DEF Wording
  <2> QED BY <2>1, JoinedIsDocument DEF LabelsPrinted
<1>4. Document(CalendarsPrinted)
  <2> DEFINE id(i) == Leaf(Field("calendars", i, "id"), Wording(<<Calendars[i]>>))
             place(i) == Leaf(Field("calendars", i, "location"), Wording(<<Word("room")>>))
             docs == UNION {{id(i), place(i)} : i \in DOMAIN Calendars}
  <2>1. \A i : Document(id(i)) /\ Document(place(i))
    BY LeafIsDocument DEF Wording
  <2>2. \A d \in docs : Document(d)
    <3> HIDE DEF id, place
    <3> QED BY <2>1
  <2> HIDE DEF docs
  <2>3. Document(Joined(docs))
    BY <2>2, JoinedIsDocument
  <2> QED BY <2>3 DEF CalendarsPrinted, docs
<1>5. CASE a.action = "gmail.search"
  BY <1>1, <1>5 DEF Printed
<1>6. CASE a.action = "gmail.get"
  BY <1>2, <1>6 DEF Printed
<1>7. CASE a.action = "gmail.thread.get"
  BY <1>2, <1>7 DEF Printed
<1>8. CASE a.action = "gmail.labels.list"
  BY <1>3, <1>8 DEF Printed
<1>9. CASE a.action = "calendar.list"
  BY <1>4, <1>9 DEF Printed
<1> QED BY <1>5, <1>6, <1>7, <1>8, <1>9 DEF Asks

-----------------------------------------------------------------------------
LEMMA NothingIsPermitted == ASSUME NEW pol PROVE Permitted(Shown(<< >>).doc, << >>, pol)
BY DEF Permitted, Shown

\* Whatever the policy, the mailbox and its calendars are, nothing is shown that
\* the policy forbids (Redact, redact.go:43-108).
THEOREM NothingForbiddenLeftAlways == Spec => []NothingForbiddenLeft
<1>1. Init => NothingForbiddenLeft
  BY NothingIsPermitted DEF Init, NothingForbiddenLeft
<1>2. NothingForbiddenLeft /\ [Next]_vars => NothingForbiddenLeft'
  <2> SUFFICES ASSUME NothingForbiddenLeft, [Next]_vars PROVE NothingForbiddenLeft'
    OBVIOUS
  <2>1. CASE UNCHANGED vars
    BY <2>1 DEF vars, exchange, NothingForbiddenLeft
  <2>2. CASE Lookup \/ Rename \/ Restart
    BY <2>2, NothingIsPermitted DEF Lookup, Rename, Restart, NoExchange, NothingForbiddenLeft
  <2>3. ASSUME NEW a \in Asks, Read(a) PROVE NothingForbiddenLeft'
    <3>1. Document(printed')
      BY <2>3, PrintedIsDocument DEF Read
    <3>2. shown' \in Redact(a.action, printed', policy, table) /\ policy' = policy
      BY <2>3 DEF Read, Answers
    <3> QED BY <3>1, <3>2, RedactIsPermitted DEF NothingForbiddenLeft
  <2> QED BY <2>1, <2>2, <2>3 DEF Next
<1> QED BY <1>1, <1>2, PTL DEF Spec

\* The table by which a search is filtered is that of one listing the mailbox has
\* had since the lookup, and there is none before it (SetLabelMap, by
\* ensureLabelMap, broker.go:187-232).
OneListing ==
  IF LookedUp THEN \E m \in seen : table \in LabelTables(m) ELSE table = EmptyTable

\* Whatever is renamed and however often the process restarts, its table is that of one
\* listing it has seen, or empty before the lookup (SetLabelMap, broker.go:187-232).
THEOREM OneListingAlways == Spec => []OneListing
<1>1. Init => OneListing
  BY DEF Init, OneListing, LookedUp
<1>2. OneListing /\ [Next]_vars => OneListing'
  <2> SUFFICES ASSUME OneListing, [Next]_vars PROVE OneListing'
    OBVIOUS
  <2>1. CASE UNCHANGED vars \/ \E a \in Asks : Read(a)
    BY <2>1 DEF vars, Read, OneListing, LookedUp
  <2>2. CASE Lookup
    BY <2>2 DEF Lookup, OneListing, LookedUp
  <2>3. CASE Rename
    BY <2>3 DEF Rename, OneListing, LookedUp
  <2>4. CASE Restart
    BY <2>4 DEF Restart, OneListing, LookedUp
  <2> QED BY <2>1, <2>2, <2>3, <2>4 DEF Next
<1> QED BY <1>1, <1>2, PTL DEF Spec

-----------------------------------------------------------------------------
(* Where the leaves of a response are, and what redactAny leaves of them *)

\* The keys on the way to labels and calendars, none of which is dropped.
OpenKeys ==
  {Blank, "threads", "id", "labels", "message", "thread", "messages", "labelIds",
   "calendars"}

LEMMA OpenKeysAreKept ==
  ASSUME NEW key \in OpenKeys, NEW pol
  PROVE  ~shouldDropKey(key, pol)
BY DEF OpenKeys, Blank, shouldDropKey, alwaysDropKeys, snippetKeys, bodyKeys,
       calendarDetailKeys

LEMMA KeptLeaf ==
  ASSUME NEW doc, NEW pol, NEW p \in DOMAIN doc, \A i \in DOMAIN p : p[i].key \in OpenKeys
  PROVE  p \in DOMAIN redactAny(doc, pol)
BY OpenKeysAreKept DEF redactAny

\* A text of one part is left as it is or masked.
LEMMA TextOfOnePart ==
  ASSUME NEW doc, NEW pol, NEW p \in DOMAIN redactAny(doc, pol), NEW part,
         doc[p] = Wording(<<part>>)
  PROVE  redactAny(doc, pol)[p]
           = Wording(<<IF (part.part = "link" /\ LinksForbidden(pol)) \/ maskEmails(part, pol)
                         THEN Masked ELSE part>>)
<1> DEFINE new == IF (part.part = "link" /\ LinksForbidden(pol)) \/ maskEmails(part, pol)
                    THEN Masked ELSE part
<1>1. sanitizeString(<<part>>, pol) = <<new>>
  BY DEF sanitizeString
<1>2. redactAny(doc, pol)[p] = [doc[p] EXCEPT !.parts = sanitizeString(doc[p].parts, pol)]
  BY DEF redactAny
<1> HIDE DEF new
<1>3. redactAny(doc, pol)[p] = Wording(<<new>>)
  BY <1>1, <1>2 DEF Wording
<1> QED BY <1>3 DEF new

LEMMA WordIsKept ==
  ASSUME NEW doc, NEW pol, NEW p \in DOMAIN redactAny(doc, pol), NEW w,
         doc[p] = Wording(<<Word(w)>>)
  PROVE  redactAny(doc, pol)[p] = Wording(<<Word(w)>>)
<1>1. Word(w).part = "word"
  BY DEF Word
<1>2. ~maskEmails(Word(w), pol)
  BY <1>1 DEF maskEmails
<1> QED BY <1>1, <1>2, TextOfOnePart

LEMMA JoinedAt ==
  ASSUME NEW docs
  PROVE  /\ \A d \in docs : DOMAIN d \subseteq DOMAIN Joined(docs)
         /\ \A p \in DOMAIN Joined(docs) :
              \E d \in docs : p \in DOMAIN d /\ Joined(docs)[p] = d[p]
<1>1. DOMAIN Joined(docs) = UNION {DOMAIN d : d \in docs}
  BY DEF Joined
<1>2. ASSUME NEW p \in DOMAIN Joined(docs)
      PROVE  \E d \in docs : p \in DOMAIN d /\ Joined(docs)[p] = d[p]
  <2> DEFINE e == CHOOSE d \in docs : p \in DOMAIN d
  <2>1. e \in docs /\ p \in DOMAIN e
    BY <1>1
  <2>2. Joined(docs)[p] = e[p]
    BY DEF Joined
  <2> QED BY <2>1, <2>2
<1> QED BY <1>1, <1>2

\* SetToSeq lists a finite set, each element of it and no other.
LEMMA SetIsListed ==
  ASSUME NEW S, IsFiniteSet(S)
  PROVE  /\ Cardinality(S) \in Nat /\ DOMAIN SetToSeq(S) = 1..Cardinality(S)
         /\ \A i \in DOMAIN SetToSeq(S) : SetToSeq(S)[i] \in S
         /\ \A x \in S : \E i \in DOMAIN SetToSeq(S) : SetToSeq(S)[i] = x
<1> DEFINE n == Cardinality(S)
           f == SetToSeq(S)
<1>1. n \in Nat /\ ExistsBijection(1..n, S)
  BY FS_CardinalityType
<1>2. \E g \in [1..n -> S] : IsInjective(g)
  BY <1>1 DEF ExistsBijection, Bijection, Injection
<1>3. f \in [1..n -> S] /\ IsInjective(f)
  BY <1>2 DEF SetToSeq
<1>4. f \in Injection(1..n, S)
  BY <1>3 DEF Injection
<1>5. IsFiniteSet(1..n) /\ Cardinality(1..n) = n
  BY <1>1, FS_Interval
<1>6. f \in Surjection(1..n, S)
  <2> HIDE DEF f
  <2> QED BY <1>4, <1>5, FS_Injection
<1>7. \A x \in S : \E i \in 1..n : f[i] = x
  BY <1>6 DEF Surjection
<1> QED BY <1>1, <1>3, <1>7

\* The steps of a path to a label.
Steps == {Key(k) : k \in OpenKeys} \cup {At(i) : i \in Nat}

LEMMA StepsAreTyped ==
  /\ \A k \in OpenKeys : Key(k) \in Steps
  /\ \A i \in Nat : At(i) \in Steps /\ InArray(At(i)) /\ At(i).at = i
<1>1. \A k \in OpenKeys : Key(k) \in Steps
  BY DEF Steps
<1>2. ASSUME NEW i \in Nat PROVE At(i) \in Steps
  BY DEF Steps
<1>3. ASSUME NEW i PROVE InArray(At(i)) /\ At(i).at = i
  BY DEF At, InArray
<1> QED BY <1>1, <1>2, <1>3

LEMMA Appended ==
  ASSUME NEW path \in Seq(Steps), NEW x \in Steps
  PROVE  /\ path \o <<x>> \in Seq(Steps)
         /\ Len(path \o <<x>>) = Len(path) + 1
         /\ (path \o <<x>>)[Len(path) + 1] = x
         /\ \A i \in 1..Len(path) : (path \o <<x>>)[i] = path[i]
         /\ Front(path \o <<x>>) = path
<1> DEFINE q == path \o <<x>>
<1>1. /\ q \in Seq(Steps) /\ Len(q) = Len(path) + 1
      /\ q[Len(path) + 1] = x /\ \A i \in 1..Len(path) : q[i] = path[i]
  OBVIOUS
<1>2. Front(q) = path
  <2> HIDE DEF q
  <2>1. Front(q) = SubSeq(q, 1, Len(path))
    BY <1>1 DEF Front
  <2>2. Len(SubSeq(q, 1, Len(path))) = Len(path)
    BY <1>1
  <2>3. \A i \in 1..Len(path) : SubSeq(q, 1, Len(path))[i] = path[i]
    BY <1>1
  <2>4. SubSeq(q, 1, Len(path)) \in Seq(Steps)
    BY <1>1
  <2> QED BY <2>1, <2>2, <2>3, <2>4, SeqEqual
<1> QED BY <1>1, <1>2

\* One of these words, in the array at path.
IsWord(p, leaf, path, words) ==
  \E i \in Nat, w \in words : p = path \o <<At(i)>> /\ leaf = Wording(<<Word(w)>>)

\* An array of words has one leaf for each, in the array.
LEMMA WordsPrinted ==
  ASSUME NEW path \in Seq(Steps), NEW words, IsFiniteSet(words)
  PROVE  /\ \A p \in DOMAIN Strings1(path, words) :
              IsWord(p, Strings1(path, words)[p], path, words)
         /\ \A w \in words : \E p \in DOMAIN Strings1(path, words) :
              IsWord(p, Strings1(path, words)[p], path, {w})
<1> DEFINE listed == SetToSeq(words)
           leaf(i) == Leaf(path \o <<At(i)>>, Wording(<<Word(listed[i])>>))
           leaves == {leaf(i) : i \in DOMAIN listed}
<1>1. /\ \A i \in DOMAIN listed : i \in Nat /\ listed[i] \in words
      /\ \A w \in words : \E i \in DOMAIN listed : listed[i] = w
  BY SetIsListed
<1>2. Strings1(path, words) = Joined(leaves)
  BY DEF Strings1
<1>3. ASSUME NEW i
      PROVE  /\ DOMAIN leaf(i) = {path \o <<At(i)>>}
             /\ leaf(i)[path \o <<At(i)>>] = Wording(<<Word(listed[i])>>)
  BY DEF Leaf
<1>4. ASSUME NEW i \in Nat, NEW j \in Nat, path \o <<At(i)>> = path \o <<At(j)>>
      PROVE  i = j
  BY <1>4, Appended, StepsAreTyped
<1> HIDE DEF leaf, listed
<1>5. ASSUME NEW p \in DOMAIN Joined(leaves)
      PROVE  \E i \in DOMAIN listed :
               p = path \o <<At(i)>> /\ Joined(leaves)[p] = Wording(<<Word(listed[i])>>)
  <2>1. PICK d \in leaves : p \in DOMAIN d /\ Joined(leaves)[p] = d[p]
    BY JoinedAt
  <2>2. PICK i \in DOMAIN listed : d = leaf(i)
    OBVIOUS
  <2> QED BY <2>1, <2>2, <1>3
<1>6. ASSUME NEW w \in words
      PROVE  \E p \in DOMAIN Joined(leaves) : IsWord(p, Joined(leaves)[p], path, {w})
  <2>1. PICK i \in DOMAIN listed : listed[i] = w
    BY <1>1
  <2>2. leaf(i) \in leaves
    OBVIOUS
  <2>3. path \o <<At(i)>> \in DOMAIN Joined(leaves)
    BY <2>2, <1>3, JoinedAt
  <2>4. Joined(leaves)[path \o <<At(i)>>] = Wording(<<Word(listed[i])>>)
    BY <2>3, <1>1, <1>4, <1>5
  <2> QED BY <1>1, <2>1, <2>3, <2>4 DEF IsWord
<1>7. ASSUME NEW p \in DOMAIN Joined(leaves)
      PROVE  IsWord(p, Joined(leaves)[p], path, words)
  <2>1. PICK i \in DOMAIN listed :
          p = path \o <<At(i)>> /\ Joined(leaves)[p] = Wording(<<Word(listed[i])>>)
    BY <1>5
  <2> QED BY <1>1, <2>1 DEF IsWord
<1> HIDE DEF leaves
<1> QED BY <1>2, <1>6, <1>7

LEMMA FieldPath ==
  ASSUME NEW key, NEW i, NEW name
  PROVE  /\ Len(Field(key, i, name)) = 3 /\ DOMAIN Field(key, i, name) = 1..3
         /\ Field(key, i, name)[1] = Key(key) /\ Field(key, i, name)[2] = At(i)
         /\ Field(key, i, name)[3] = Key(name)
BY DEF Field

LEMMA StepsAreDistinct ==
  /\ \A i, j : At(i) = At(j) => i = j
  /\ \A i : At(i).at = i /\ InArray(At(i)) /\ At(i).key = Blank
  /\ \A k, l : Key(k) = Key(l) => k = l
  /\ \A k : Key(k).key = k
BY DEF At, Key, InArray

-----------------------------------------------------------------------------
(* What the last request was, and what came of it *)

LastExchange ==
  asked = Nothing \/ (asked \in Asks /\ printed \in Printed(asked)
                        /\ shown \in Answers(asked, printed))

\* What was shown last is one of the answers that the broker gives, under its present
\* policy and labels, to one of the documents gog prints (Handle, broker.go:115-135).
THEOREM LastExchangeAlways == Spec => []LastExchange
<1>1. Init => LastExchange
  BY DEF Init, LastExchange
<1>2. LastExchange /\ [Next]_vars => LastExchange'
  <2> SUFFICES ASSUME LastExchange, [Next]_vars PROVE LastExchange'
    OBVIOUS
  <2>1. CASE UNCHANGED vars
    <3>1. ASSUME NEW a PROVE Printed(a)' = Printed(a) /\ (Answers(a, printed))' = Answers(a, printed)
      BY <2>1 DEF vars, exchange, Printed, SearchPrinted, LabelsPrinted, Answers
    <3> QED BY <2>1, <3>1 DEF vars, exchange, LastExchange
  <2>2. CASE Lookup \/ Rename \/ Restart
    BY <2>2 DEF Lookup, Rename, Restart, NoExchange, LastExchange
  <2>3. ASSUME NEW a \in Asks, Read(a) PROVE LastExchange'
    <3>1. /\ asked' = a /\ printed' \in Printed(a) /\ shown' \in Answers(a, printed')
          /\ UNCHANGED <<policy, mail, table>>
      BY <2>3 DEF Read
    <3>2. (Printed(asked))' = Printed(a)
      BY <3>1 DEF Printed, SearchPrinted, LabelsPrinted
    <3>3. (Answers(asked, printed))' = Answers(a, printed')
      BY <3>1 DEF Answers
    <3> QED BY <3>1, <3>2, <3>3 DEF LastExchange
  <2> QED BY <2>1, <2>2, <2>3 DEF Next
<1> QED BY <1>1, <1>2, PTL DEF Spec

-----------------------------------------------------------------------------
(* The list of calendars *)

\* gog prints an id and a location for each calendar, and nothing else.
LEMMA CalendarLeaves ==
  /\ \A p \in DOMAIN CalendarsPrinted : \E i \in DOMAIN Calendars :
       p = Field("calendars", i, "id") \/ p = Field("calendars", i, "location")
  /\ \A i \in DOMAIN Calendars :
       /\ Field("calendars", i, "id") \in DOMAIN CalendarsPrinted
       /\ CalendarsPrinted[Field("calendars", i, "id")] = Wording(<<Calendars[i]>>)
<1> DEFINE id(i) == Leaf(Field("calendars", i, "id"), Wording(<<Calendars[i]>>))
           place(i) == Leaf(Field("calendars", i, "location"), Wording(<<Word("room")>>))
           docs == UNION {{id(i), place(i)} : i \in DOMAIN Calendars}
<1>1. CalendarsPrinted = Joined(docs)
  BY DEF CalendarsPrinted
<1>2. ASSUME NEW i
      PROVE  /\ DOMAIN id(i) = {Field("calendars", i, "id")}
             /\ DOMAIN place(i) = {Field("calendars", i, "location")}
             /\ id(i)[Field("calendars", i, "id")] = Wording(<<Calendars[i]>>)
  BY DEF Leaf
<1> HIDE DEF id, place
<1>3. /\ \A d \in docs : \E i \in DOMAIN Calendars : d = id(i) \/ d = place(i)
      /\ \A i \in DOMAIN Calendars : id(i) \in docs
  OBVIOUS
<1> HIDE DEF docs
<1>4. ASSUME NEW p \in DOMAIN Joined(docs)
      PROVE  \E i \in DOMAIN Calendars :
               \/ p = Field("calendars", i, "id") /\ Joined(docs)[p] = Wording(<<Calendars[i]>>)
               \/ p = Field("calendars", i, "location")
  <2>1. PICK d \in docs : p \in DOMAIN d /\ Joined(docs)[p] = d[p]
    BY JoinedAt
  <2>2. PICK i \in DOMAIN Calendars : d = id(i) \/ d = place(i)
    BY <1>3
  <2>3. CASE d = id(i)
    BY <2>1, <2>3, <1>2
  <2>4. CASE d = place(i)
    BY <2>1, <2>4, <1>2
  <2> QED BY <2>2, <2>3, <2>4
<1>5. ASSUME NEW i \in DOMAIN Calendars
      PROVE  /\ Field("calendars", i, "id") \in DOMAIN Joined(docs)
             /\ Joined(docs)[Field("calendars", i, "id")] = Wording(<<Calendars[i]>>)
  <2>1. id(i) \in docs
    BY <1>3
  <2>2. Field("calendars", i, "id") \in DOMAIN Joined(docs)
    BY <2>1, <1>2, JoinedAt
  <2>3. Key("id") # Key("location")
    BY StepsAreDistinct
  <2>4. \A j : /\ Field("calendars", i, "id") # Field("calendars", j, "location")
               /\ Field("calendars", i, "id") = Field("calendars", j, "id") => j = i
    BY <2>3, FieldPath, StepsAreDistinct
  <2> QED BY <2>2, <2>4, <1>4
<1> QED BY <1>1, <1>4, <1>5

\* Of what gog prints, the listed calendars with an unmasked id are left, and no others.
LEMMA ListedCalendarsAreShown ==
  ASSUME NEW pol, NEW allowed
  PROVE  Items(filterCalendarList(redactAny(CalendarsPrinted, pol), allowed), "calendars")
           = {i \in DOMAIN Calendars : /\ Calendars[i].says \in allowed \ {Blank}
                                       /\ ~maskEmails(Calendars[i], pol)}
<1> DEFINE clean == redactAny(CalendarsPrinted, pol)
           id(i) == Field("calendars", i, "id")
           passes(i) == FieldSays(clean, "calendars", i, "id", allowed)
           left == filterCalendarList(clean, allowed)
           good(i) == Calendars[i].says \in allowed \ {Blank} /\ ~maskEmails(Calendars[i], pol)
<1>1. ASSUME NEW i \in DOMAIN Calendars
      PROVE  id(i) \in DOMAIN clean
  <2>1. id(i) \in DOMAIN CalendarsPrinted
    BY CalendarLeaves
  <2>2. \A n \in DOMAIN id(i) : id(i)[n].key \in OpenKeys
    BY FieldPath, StepsAreDistinct DEF OpenKeys
  <2> QED BY <2>1, <2>2, KeptLeaf
<1>2. ASSUME NEW i \in DOMAIN Calendars
      PROVE  passes(i) <=> good(i)
  <2> DEFINE new == IF \/ Calendars[i].part = "link" /\ LinksForbidden(pol)
                       \/ maskEmails(Calendars[i], pol)
                      THEN Masked ELSE Calendars[i]
  <2>1. CalendarsPrinted[id(i)] = Wording(<<Calendars[i]>>)
    BY CalendarLeaves
  <2>2. clean[id(i)] = Wording(<<new>>)
    BY <1>1, <2>1, TextOfOnePart
  <2>3. new = IF maskEmails(Calendars[i], pol) THEN Masked ELSE Calendars[i]
    BY CalendarsAssumption
  <2> HIDE DEF new
  <2>4. passes(i) <=> new.says \in allowed \ {Blank}
    BY <1>1, <2>2 DEF FieldSays, SaysOneOf, Wording
  <2>5. Masked.says = Blank
    BY DEF Masked
  <2> QED BY <2>3, <2>4, <2>5
<1>3. /\ DOMAIN left = {q \in DOMAIN clean :
                          Len(q) > 1 /\ q[1] = Key("calendars") /\ InArray(q[2]) => passes(q[2].at)}
  BY DEF filterCalendarList, WithoutItems
<1>4. DOMAIN clean \subseteq DOMAIN CalendarsPrinted
  BY DEF redactAny
<1> HIDE DEF clean, passes, good, left
<1>5. ASSUME NEW n \in Items(left, "calendars")
      PROVE  n \in DOMAIN Calendars /\ good(n)
  <2>1. PICK p \in DOMAIN left : Len(p) > 1 /\ p[1] = Key("calendars") /\ n = p[2].at
    BY DEF Items
  <2>2. PICK i \in DOMAIN Calendars : p = id(i) \/ p = Field("calendars", i, "location")
    BY <1>3, <1>4, CalendarLeaves
  <2>3. p[2] = At(i)
    BY <2>2, FieldPath
  <2>4. n = i /\ InArray(p[2])
    BY <2>1, <2>3, StepsAreDistinct
  <2> QED BY <2>1, <2>4, <1>2, <1>3
<1>6. ASSUME NEW n \in DOMAIN Calendars, good(n)
      PROVE  n \in Items(left, "calendars")
  <2>1. /\ Len(id(n)) > 1 /\ id(n)[1] = Key("calendars") /\ InArray(id(n)[2])
        /\ id(n)[2].at = n
    BY FieldPath, StepsAreDistinct
  <2>2. id(n) \in DOMAIN left
    BY <1>1, <1>2, <1>3, <1>6, <2>1
  <2> QED BY <2>1, <2>2 DEF Items
<1>7. Items(left, "calendars") = {i \in DOMAIN Calendars : good(i)}
  BY <1>5, <1>6
<1> QED BY <1>7 DEF left, clean, good

\* The client sees all calendars the policy lists but those whose id is masked, and
\* no others, for every policy and every calendar list (filterCalendarList,
\* redact.go:413-453).
THEOREM OnlyMaskedCalendarsMissAlways == Spec => []OnlyMaskedCalendarsMiss
<1>1. LastExchange => OnlyMaskedCalendarsMiss
  <2> SUFFICES ASSUME LastExchange, asked.action = "calendar.list",
                      policy.calendar.calendars # {}
               PROVE  Items(shown.doc, "calendars")
                        = {i \in DOMAIN Calendars :
                             /\ Calendars[i].says \in policy.calendar.calendars \ {Blank}
                             /\ ~maskEmails(Calendars[i], policy)}
    BY DEF OnlyMaskedCalendarsMiss, AsksForCalendars, ListedCalendars
  <2>1. asked # Nothing
    BY DEF Nothing
  <2>2. printed = CalendarsPrinted
    BY <2>1 DEF LastExchange, Printed
  <2>3. shown \in Redact("calendar.list", CalendarsPrinted, policy, table)
    BY <2>1, <2>2 DEF LastExchange, Answers
  <2>4. shown = Shown(filterCalendarList(redactAny(CalendarsPrinted, policy),
                                         policy.calendar.calendars))
    BY <2>3 DEF Redact, GmailActions
  <2>5. shown.doc = filterCalendarList(redactAny(CalendarsPrinted, policy),
                                       policy.calendar.calendars)
    BY <2>4 DEF Shown
  <2> QED BY <2>5, ListedCalendarsAreShown
<1> QED BY <1>1, LastExchangeAlways, PTL

-----------------------------------------------------------------------------
(* The label lists of messages *)

ListPath(path) == path \o <<Key("labelIds")>>

\* What is at p, of a message at path that has these labels.
OfMessage(p, leaf, path, labels) ==
  \/ p = path \o <<Key("snippet")>>
  \/ p = path \o <<Key("payload"), Key("body")>>
  \/ IsWord(p, leaf, ListPath(path), labels)

\* A path to a message: what is under it is no label list, and is kept.
PathToMessage(path) ==
  /\ path \in Seq(Steps) /\ path # <<>> /\ path[Len(path)] # Key("labelIds")
  /\ \A n \in DOMAIN path : path[n].key \in OpenKeys

LEMMA ListPathIsPath ==
  ASSUME NEW path, PathToMessage(path)
  PROVE  /\ path \in Seq(Steps) /\ ListPath(path) \in Seq(Steps)
         /\ Len(ListPath(path)) = Len(path) + 1
         /\ ListPath(path)[Len(path) + 1] = Key("labelIds")
         /\ \A n \in 1..Len(path) : ListPath(path)[n] = path[n]
<1>1. path \in Seq(Steps)
  BY DEF PathToMessage
<1>2. Key("labelIds") \in Steps
  <2>1. "labelIds" \in OpenKeys
    BY DEF OpenKeys
  <2> QED BY <2>1, StepsAreTyped
<1> QED BY <1>1, <1>2, Appended DEF ListPath

\* The leaves of a message that are in a label list are its labels.
LEMMA LabelLeaf ==
  ASSUME NEW path, PathToMessage(path), NEW labels, NEW p, NEW leaf,
         OfMessage(p, leaf, path, labels), InArray(p[Len(p)])
  PROVE  IsWord(p, leaf, ListPath(path), labels)
<1>1. path \in Seq(Steps)
  BY ListPathIsPath
<1>2. ASSUME p = path \o <<Key("snippet")>> PROVE FALSE
  <2>1. p[Len(p)] = Key("snippet")
    BY <1>1, <1>2
  <2> QED BY <2>1, StepsAreDistinct DEF InArray, Blank
<1>3. ASSUME p = path \o <<Key("payload"), Key("body")>> PROVE FALSE
  <2>1. p[Len(p)] = Key("body")
    BY <1>1, <1>3
  <2> QED BY <2>1, StepsAreDistinct DEF InArray, Blank
<1> QED BY <1>2, <1>3 DEF OfMessage

\* A word in an array is behind the path of the array.
LEMMA WordPath ==
  ASSUME NEW path \in Seq(Steps), NEW words, NEW p, NEW leaf, IsWord(p, leaf, path, words)
  PROVE  /\ p \in Seq(Steps) /\ Len(p) = Len(path) + 1 /\ Front(p) = path
         /\ InArray(p[Len(p)])
         /\ \A n \in 1..Len(path) : p[n] = path[n]
         /\ \E w \in words : leaf = Wording(<<Word(w)>>)
<1>1. PICK i \in Nat, w \in words : p = path \o <<At(i)>> /\ leaf = Wording(<<Word(w)>>)
  BY DEF IsWord
<1>2. At(i) \in Steps /\ InArray(At(i))
  BY StepsAreTyped
<1> QED BY <1>1, <1>2, Appended

\* What gog prints of a message is its snippet, its body and the ids of its labels.
LEMMA MessageLeaves ==
  ASSUME NEW path, PathToMessage(path), NEW labels, IsFiniteSet(labels)
  PROVE  /\ \A p \in DOMAIN MessagePrinted(path, labels) :
              OfMessage(p, MessagePrinted(path, labels)[p], path, labels)
         /\ labels # {} => \E p \in DOMAIN MessagePrinted(path, labels) :
              IsWord(p, MessagePrinted(path, labels)[p], ListPath(path), labels)
<1> DEFINE snippet == Leaf(path \o <<Key("snippet")>>, Wording(<<Word("see"), Link>>))
           body == Leaf(path \o <<Key("payload"), Key("body")>>, Wording(<<Word("text")>>))
           list == Strings1(ListPath(path), labels)
           docs == {snippet, body, list}
<1>1. MessagePrinted(path, labels) = Joined(docs)
  BY DEF MessagePrinted, ListPath
<1>2. ListPath(path) \in Seq(Steps)
  BY ListPathIsPath
<1>3. /\ DOMAIN snippet = {path \o <<Key("snippet")>>}
      /\ DOMAIN body = {path \o <<Key("payload"), Key("body")>>}
  BY DEF Leaf
<1>4. /\ \A p \in DOMAIN list : IsWord(p, list[p], ListPath(path), labels)
      /\ \A l \in labels : \E p \in DOMAIN list : IsWord(p, list[p], ListPath(path), {l})
  BY <1>2, WordsPrinted
<1> HIDE DEF snippet, body, list
<1>5. \A d \in docs : d = snippet \/ d = body \/ d = list
  OBVIOUS
<1>6. list \in docs
  OBVIOUS
<1> HIDE DEF docs
<1>7. ASSUME NEW p \in DOMAIN Joined(docs)
      PROVE  OfMessage(p, Joined(docs)[p], path, labels)
  <2>1. PICK d \in docs : p \in DOMAIN d /\ Joined(docs)[p] = d[p]
    BY JoinedAt
  <2>2. CASE d = snippet
    BY <2>1, <2>2, <1>3 DEF OfMessage
  <2>3. CASE d = body
    BY <2>1, <2>3, <1>3 DEF OfMessage
  <2>4. CASE d = list
    BY <2>1, <2>4, <1>4 DEF OfMessage
  <2> QED BY <1>5, <2>2, <2>3, <2>4
<1>8. ASSUME labels # {}
      PROVE  \E p \in DOMAIN Joined(docs) : IsWord(p, Joined(docs)[p], ListPath(path), labels)
  <2>1. PICK p \in DOMAIN list : IsWord(p, list[p], ListPath(path), labels)
    BY <1>4, <1>8
  <2>2. p \in DOMAIN Joined(docs)
    BY <1>6, JoinedAt
  <2>3. InArray(p[Len(p)])
    BY <1>2, <2>1, WordPath
  <2> QED BY <1>7, <2>2, <2>3, LabelLeaf
<1> QED BY <1>1, <1>7, <1>8

\* What is in the label list of a message is a label of one of the messages.
LEMMA ListHoldsWords ==
  ASSUME NEW path, PathToMessage(path), NEW labels, NEW p, NEW leaf,
         OfMessage(p, leaf, path, labels),
         NEW other, PathToMessage(other), Front(p) = ListPath(other)
  PROVE  IsWord(p, leaf, ListPath(path), labels)
<1> DEFINE T == Steps \cup {Key("snippet"), Key("payload"), Key("body")}
           n == Len(other) + 1
<1>1. /\ path \in Seq(T) /\ ListPath(other) \in Seq(Steps)
      /\ Len(ListPath(other)) = n /\ ListPath(other)[n] = Key("labelIds")
      /\ Len(path) \in Nat \ {0} /\ path[Len(path)] # Key("labelIds") /\ n \in Nat
  BY ListPathIsPath DEF PathToMessage
<1>2. ASSUME p = path \o <<Key("snippet")>> PROVE FALSE
  <2>1. Front(p) \in Seq(T) /\ Len(Front(p)) = Len(path) /\ Front(p)[Len(path)] = path[Len(path)]
    <3> HIDE DEF T
    <3>1. Key("snippet") \in T
      BY DEF T
    <3>2. /\ p \in Seq(T) /\ Len(p) = Len(path) + 1 /\ p[Len(path)] = path[Len(path)]
      BY <1>1, <1>2, <3>1
    <3> QED BY <1>1, <3>2 DEF Front
  <2> QED BY <1>1, <2>1
<1>3. ASSUME p = path \o <<Key("payload"), Key("body")>> PROVE FALSE
  <2>1. Len(Front(p)) = Len(path) + 1 /\ Front(p)[Len(path) + 1] = Key("payload")
    <3> HIDE DEF T
    <3>1. Key("payload") \in T /\ Key("body") \in T
      BY DEF T
    <3>2. /\ p \in Seq(T) /\ Len(p) = Len(path) + 2 /\ p[Len(path) + 1] = Key("payload")
      BY <1>1, <1>3, <3>1
    <3> QED BY <1>1, <3>2 DEF Front
  <2>2. Key("payload") # Key("labelIds")
    BY StepsAreDistinct
  <2> QED BY <1>1, <2>1, <2>2
<1> QED BY <1>2, <1>3 DEF OfMessage

\* A response of messages m \in M, at these paths and with these labels.
Messages(doc, M, paths, labels) ==
  /\ \A m \in M : PathToMessage(paths[m])
  /\ \A p \in DOMAIN doc : \E m \in M : OfMessage(p, doc[p], paths[m], labels[m])
  /\ \A m \in M : labels[m] # {} =>
       \E p \in DOMAIN doc : \E leaf : IsWord(p, leaf, ListPath(paths[m]), labels[m])

GetPath == <<Key("message")>>
ThreadPath(m) == <<Key("thread"), Key("messages"), At(m)>>

\* The places of messages in the two responses are paths to a message.
LEMMA MessagePaths ==
  /\ PathToMessage(GetPath)
  /\ \A m \in Nat : PathToMessage(ThreadPath(m))
<1>1. Key("message") \in Steps /\ Key("thread") \in Steps /\ Key("messages") \in Steps
  BY StepsAreTyped DEF OpenKeys
<1>2. Key("message") # Key("labelIds")
  BY StepsAreDistinct
<1>3. PathToMessage(GetPath)
  <2>1. /\ GetPath \in Seq(Steps) /\ Len(GetPath) = 1 /\ DOMAIN GetPath = {1}
        /\ GetPath[1] = Key("message")
    BY <1>1 DEF GetPath
  <2>2. Key("message").key \in OpenKeys
    BY StepsAreDistinct DEF OpenKeys
  <2>3. GetPath # <<>> /\ GetPath[Len(GetPath)] # Key("labelIds")
    BY <1>2, <2>1
  <2>4. \A n \in DOMAIN GetPath : GetPath[n].key \in OpenKeys
    BY <2>1, <2>2
  <2> QED BY <2>1, <2>3, <2>4 DEF PathToMessage
<1>4. ASSUME NEW m \in Nat PROVE PathToMessage(ThreadPath(m))
  <2>1. At(m) \in Steps
    BY StepsAreTyped
  <2>2. /\ ThreadPath(m) \in Seq(Steps) /\ Len(ThreadPath(m)) = 3
        /\ DOMAIN ThreadPath(m) = {1, 2, 3}
        /\ ThreadPath(m)[1] = Key("thread") /\ ThreadPath(m)[2] = Key("messages")
        /\ ThreadPath(m)[3] = At(m)
    BY <1>1, <2>1 DEF ThreadPath
  <2>3. At(m) # Key("labelIds")
    <3>1. At(m).key = Blank /\ Key("labelIds").key = "labelIds"
      BY StepsAreDistinct
    <3> QED BY <3>1 DEF Blank
  <2>4. /\ Key("thread").key \in OpenKeys /\ Key("messages").key \in OpenKeys
        /\ At(m).key \in OpenKeys
    BY StepsAreDistinct DEF OpenKeys
  <2> QED BY <2>2, <2>3, <2>4 DEF PathToMessage
<1> QED BY <1>3, <1>4

\* A message has finitely many labels, as the mailbox has.
LEMMA LabelsAreFinite ==
  ASSUME mail \in Listings, NEW t \in DOMAIN Threads
  PROVE  /\ IsFiniteSet(LabelsOf(t)) /\ LabelsOf(t) \subseteq DOMAIN mail
         /\ \A m \in DOMAIN Threads[t] : IsFiniteSet(Threads[t][m])
<1>1. IsFiniteSet(DOMAIN mail)
  BY ListingsAssumption
<1>2. \A m \in DOMAIN Threads[t] : Threads[t][m] \subseteq DOMAIN mail
  BY ListingsAssumption
<1>3. LabelsOf(t) \subseteq DOMAIN mail
  BY <1>2 DEF LabelsOf
<1> QED BY <1>1, <1>2, <1>3, FS_Subset

LEMMA GetIsMessages ==
  ASSUME mail \in Listings, NEW t \in DOMAIN Threads
  PROVE  Messages(GetPrinted(t), {1}, [m \in {1} |-> GetPath], [m \in {1} |-> Threads[t][1]])
<1>1. IsFiniteSet(Threads[t][1])
  BY LabelsAreFinite, ThreadsAssumption
<1>2. GetPrinted(t) = MessagePrinted(GetPath, Threads[t][1])
  BY DEF GetPrinted, GetPath
<1> QED BY <1>1, <1>2, MessagePaths, MessageLeaves DEF Messages

LEMMA ThreadIsMessages ==
  ASSUME mail \in Listings, NEW t \in DOMAIN Threads
  PROVE  Messages(ThreadPrinted(t), DOMAIN Threads[t],
                  [m \in DOMAIN Threads[t] |-> ThreadPath(m)], Threads[t])
<1> DEFINE M == DOMAIN Threads[t]
           message(m) == MessagePrinted(ThreadPath(m), Threads[t][m])
           docs == {message(m) : m \in M}
<1>1. ThreadPrinted(t) = Joined(docs)
  BY DEF ThreadPrinted, ThreadPath
<1>2. ASSUME NEW m \in M
      PROVE  /\ PathToMessage(ThreadPath(m)) /\ message(m) \in docs
             /\ \A p \in DOMAIN message(m) :
                  OfMessage(p, message(m)[p], ThreadPath(m), Threads[t][m])
             /\ Threads[t][m] # {} => \E p \in DOMAIN message(m) :
                  IsWord(p, message(m)[p], ListPath(ThreadPath(m)), Threads[t][m])
  <2>1. IsFiniteSet(Threads[t][m]) /\ m \in Nat
    BY LabelsAreFinite, ThreadsAssumption
  <2> QED BY <2>1, MessagePaths, MessageLeaves
<1>3. \A d \in docs : \E m \in M : d = message(m)
  OBVIOUS
<1> HIDE DEF message, docs
<1>4. ASSUME NEW p \in DOMAIN Joined(docs)
      PROVE  \E m \in M : OfMessage(p, Joined(docs)[p], ThreadPath(m), Threads[t][m])
  <2>1. PICK d \in docs : p \in DOMAIN d /\ Joined(docs)[p] = d[p]
    BY JoinedAt
  <2> QED BY <2>1, <1>2, <1>3
<1>5. ASSUME NEW m \in M, Threads[t][m] # {}
      PROVE  \E p \in DOMAIN Joined(docs) : \E leaf :
               IsWord(p, leaf, ListPath(ThreadPath(m)), Threads[t][m])
  <2>1. DOMAIN message(m) \subseteq DOMAIN Joined(docs)
    BY <1>2, JoinedAt
  <2> QED BY <1>2, <1>5, <2>1
<1> QED BY <1>1, <1>2, <1>4, <1>5 DEF Messages

\* The label lists redactAny leaves are those of the messages that have labels, and
\* nothing but labels of such a message is in them.
LEMMA ListsOfMessages ==
  ASSUME NEW doc, NEW M, NEW paths, NEW labels, Messages(doc, M, paths, labels), NEW pol
  PROVE  LET clean == redactAny(doc, pol)
         IN  /\ \A list \in LabelLists(clean) : \E m \in M :
                  list = ListPath(paths[m]) /\ labels[m] # {}
             /\ \A m \in M : labels[m] # {} => ListPath(paths[m]) \in LabelLists(clean)
             /\ \A list \in LabelLists(clean) : \A allowed : ListAllowed(clean, list, allowed) =>
                  \E m \in M : labels[m] \cap allowed # {}
<1> DEFINE clean == redactAny(doc, pol)
<1>1. DOMAIN clean \subseteq DOMAIN doc
  BY DEF redactAny
<1>2. ASSUME NEW q \in DOMAIN clean, InArray(q[Len(q)])
      PROVE  \E m \in M : Front(q) = ListPath(paths[m]) /\ labels[m] # {}
  <2>1. PICK m \in M : OfMessage(q, doc[q], paths[m], labels[m])
    BY <1>1 DEF Messages
  <2>2. PathToMessage(paths[m])
    BY DEF Messages
  <2>3. IsWord(q, doc[q], ListPath(paths[m]), labels[m])
    BY <1>2, <2>1, <2>2, LabelLeaf
  <2>4. labels[m] # {}
    BY <2>3 DEF IsWord
  <2> QED BY <2>2, <2>3, <2>4, ListPathIsPath, WordPath
<1>3. ASSUME NEW list \in LabelLists(clean)
      PROVE  \E m \in M : list = ListPath(paths[m]) /\ labels[m] # {}
  <2>1. PICK q \in DOMAIN clean : list = Front(q) /\ InArray(q[Len(q)])
    BY DEF LabelLists
  <2> QED BY <2>1, <1>2
<1>4. ASSUME NEW m \in M, labels[m] # {}
      PROVE  ListPath(paths[m]) \in LabelLists(clean)
  <2> DEFINE path == paths[m]
  <2>1. PathToMessage(path)
    BY DEF Messages
  <2>2. PICK p \in DOMAIN doc : \E leaf : IsWord(p, leaf, ListPath(path), labels[m])
    BY <1>4 DEF Messages
  <2> HIDE DEF path
  <2>3. /\ ListPath(path) \in Seq(Steps) /\ Len(ListPath(path)) = Len(path) + 1
        /\ ListPath(path)[Len(path) + 1] = Key("labelIds") /\ Len(path) \in Nat \ {0}
        /\ \A n \in 1..Len(path) : ListPath(path)[n] = path[n] /\ path[n].key \in OpenKeys
    BY <2>1, ListPathIsPath DEF PathToMessage
  <2>4. /\ p \in Seq(Steps) /\ Len(p) = Len(path) + 2 /\ Front(p) = ListPath(path)
        /\ InArray(p[Len(p)])
        /\ \A n \in 1..(Len(path) + 1) : p[n] = ListPath(path)[n]
    BY <2>2, <2>3, WordPath
  <2>5. \A n \in DOMAIN p : p[n].key \in OpenKeys
    <3>1. \A n \in 1..Len(path) : p[n].key \in OpenKeys
      BY <2>3, <2>4
    <3>2. p[Len(path) + 1].key \in OpenKeys
      BY <2>3, <2>4, StepsAreDistinct DEF OpenKeys
    <3>3. p[Len(path) + 2].key \in OpenKeys
      BY <2>3, <2>4 DEF InArray, OpenKeys
    <3>4. DOMAIN p = 1..(Len(path) + 2)
      BY <2>4
    <3> QED BY <2>3, <3>1, <3>2, <3>3, <3>4
  <2>6. p \in DOMAIN clean
    BY <2>5, KeptLeaf
  <2>7. PICK k \in M : OfMessage(p, doc[p], paths[k], labels[k])
    BY DEF Messages
  <2>8. PathToMessage(paths[k])
    BY DEF Messages
  <2>9. \E w \in labels[k] : doc[p] = Wording(<<Word(w)>>)
    BY <2>4, <2>7, <2>8, LabelLeaf, ListPathIsPath, WordPath
  <2>10. clean[p].kind = "string"
    BY <2>6, <2>9, WordIsKept DEF Wording
  <2>11. Len(p) > 1 /\ p[Len(p) - 1].key \in LabelListKeys
    BY <2>3, <2>4, StepsAreDistinct DEF LabelListKeys
  <2>12. Front(p) \in LabelLists(clean)
    BY <2>4, <2>6, <2>10, <2>11 DEF LabelLists
  <2> QED BY <2>4, <2>12 DEF path
<1>5. ASSUME NEW list \in LabelLists(clean), NEW allowed, ListAllowed(clean, list, allowed)
      PROVE  \E m \in M : labels[m] \cap allowed # {}
  <2>1. PICK k \in M : list = ListPath(paths[k])
    BY <1>3
  <2>2. PICK p \in DOMAIN clean : Front(p) = list /\ SaysOneOf(clean[p], allowed)
    BY <1>5 DEF ListAllowed
  <2>3. PICK m \in M : OfMessage(p, doc[p], paths[m], labels[m])
    BY <1>1 DEF Messages
  <2>4. PathToMessage(paths[m]) /\ PathToMessage(paths[k])
    BY DEF Messages
  <2>5. IsWord(p, doc[p], ListPath(paths[m]), labels[m])
    BY <2>1, <2>2, <2>3, <2>4, ListHoldsWords
  <2>6. PICK w \in labels[m] : doc[p] = Wording(<<Word(w)>>)
    BY <2>5 DEF IsWord
  <2>7. clean[p] = Wording(<<Word(w)>>)
    BY <2>6, WordIsKept
  <2>8. w \in allowed
    BY <2>2, <2>7 DEF SaysOneOf, Wording, Word
  <2> QED BY <2>6, <2>8
<1> QED BY <1>3, <1>4, <1>5

\* The mailbox has one of the listings at any time.
THEOREM MailIsListed == Spec => [](mail \in Listings)
<1>1. Init => mail \in Listings
  BY DEF Init
<1>2. mail \in Listings /\ [Next]_vars => (mail \in Listings)'
  BY DEF Next, vars, Lookup, Read, Rename, Restart
<1> QED BY <1>1, <1>2, PTL DEF Spec

\* A response about messages is refused or shown by the verdict on one of its lists.
LEMMA VerdictDecides ==
  ASSUME NEW action \in {"gmail.get", "gmail.thread.get"}, NEW doc, NEW pol, NEW t,
         pol.gmail.read # {}
  PROVE  Redact(action, doc, pol, t)
           = {IF v = "refused" THEN RefusedResponse ELSE Shown(redactAny(doc, pol)) :
                v \in hasAllowedLabelIDs(redactAny(doc, pol), pol.gmail.read)}
<1>1. action \in GmailActions
                   \ {"gmail.search", "gmail.thread.list", "gmail.labels.list",
                      "gmail.send", "gmail.drafts.create"}
  BY DEF GmailActions
<1>2. action \notin {"gmail.search", "gmail.thread.list"} /\ action # "gmail.labels.list"
      /\ action # "calendar.list"
      /\ action \notin {"gmail.send", "gmail.drafts.create",
                        "calendar.events", "calendar.freebusy"}
  OBVIOUS
<1> QED BY <1>1, <1>2 DEF Redact

\* What is shown of a response of messages has a listed label, or has none.
LEMMA ShownIsListed ==
  ASSUME NEW action \in {"gmail.get", "gmail.thread.get"}, NEW doc, NEW pol, NEW t,
         pol.gmail.read # {},
         NEW M, NEW paths, NEW labels, Messages(doc, M, paths, labels),
         NEW out \in Redact(action, doc, pol, t), ~out.refused
  PROVE  \/ \A m \in M : labels[m] = {}
         \/ \E m \in M : labels[m] \cap pol.gmail.read # {}
<1> DEFINE clean == redactAny(doc, pol)
<1>1. PICK v \in hasAllowedLabelIDs(clean, pol.gmail.read) :
        out = IF v = "refused" THEN RefusedResponse ELSE Shown(clean)
  BY VerdictDecides
<1>2. v # "refused"
  BY <1>1 DEF RefusedResponse
<1>3. CASE LabelLists(clean) = {}
  BY <1>3, ListsOfMessages
<1>4. CASE LabelLists(clean) # {}
  <2>1. PICK list \in DecidingLists(clean) : ListAllowed(clean, list, pol.gmail.read)
    BY <1>2, <1>4 DEF hasAllowedLabelIDs
  <2>2. list \in LabelLists(clean)
    BY DEF DecidingLists
  <2> QED BY <2>1, <2>2, ListsOfMessages
<1> QED BY <1>3, <1>4

\* A message or thread that has labels is shown only if one of them may be read,
\* whatever the policy, the labels and the length of the thread (redact.go:79-84,
\* 202-238).
THEOREM ShownHasListedLabelAlways == Spec => []ShownHasListedLabel
<1>1. LastExchange /\ mail \in Listings => ShownHasListedLabel
  <2> SUFFICES ASSUME LastExchange, mail \in Listings,
                      asked.action \in {"gmail.get", "gmail.thread.get"},
                      ~shown.refused, Listed # {}
               PROVE  LET labels == IF asked.action = "gmail.get" THEN Threads[asked.thread][1]
                                    ELSE LabelsOf(asked.thread)
                      IN  labels = {} \/ labels \cap Listed # {}
    BY DEF ShownHasListedLabel
  <2> DEFINE th == asked.thread
  <2>1. asked # Nothing
    BY DEF Nothing
  <2>2. th \in DOMAIN Threads
    BY <2>1 DEF LastExchange, Asks
  <2>3. shown \in Redact(asked.action, printed, policy, table)
    BY <2>1 DEF LastExchange, Answers
  <2>4. CASE asked.action = "gmail.get"
    <3>1. printed = GetPrinted(th)
      BY <2>1, <2>4 DEF LastExchange, Printed
    <3> DEFINE labels == [m \in {1} |-> Threads[th][1]]
    <3>2. Messages(printed, {1}, [m \in {1} |-> GetPath], labels)
      BY <2>2, <3>1, GetIsMessages
    <3>3. \/ \A m \in {1} : labels[m] = {}
          \/ \E m \in {1} : labels[m] \cap Listed # {}
      BY <2>3, <3>2, ShownIsListed DEF Listed
    <3> QED BY <2>4, <3>3
  <2>5. CASE asked.action = "gmail.thread.get"
    <3>1. printed = ThreadPrinted(th)
      BY <2>1, <2>5 DEF LastExchange, Printed
    <3>2. Messages(printed, DOMAIN Threads[th],
                   [m \in DOMAIN Threads[th] |-> ThreadPath(m)], Threads[th])
      BY <2>2, <3>1, ThreadIsMessages
    <3>3. \/ \A m \in DOMAIN Threads[th] : Threads[th][m] = {}
          \/ \E m \in DOMAIN Threads[th] : Threads[th][m] \cap Listed # {}
      BY <2>3, <3>2, ShownIsListed DEF Listed
    <3>4. LabelsOf(th) = {} \/ LabelsOf(th) \cap Listed # {}
      BY <3>3 DEF LabelsOf
    <3> QED BY <2>5, <3>4
  <2> QED BY <2>4, <2>5
<1> QED BY <1>1, LastExchangeAlways, MailIsListed, PTL

-----------------------------------------------------------------------------
(* The list that decides *)

\* A set of naturals that is not empty has a least element.
LEMMA LeastNatural ==
  ASSUME NEW S, S \subseteq Nat, S # {}
  PROVE  \E m \in S : \A x \in S : m <= x
<1> DEFINE Less == {p \in Nat \X Nat : p[1] < p[2]}
<1>1. IsWellFoundedOn(Less, Nat)
  <2>1. IsWellFoundedOn(OpToRel(<, Nat), Nat)
    BY NatLessThanWellFounded
  <2>2. OpToRel(<, Nat) \cap (Nat \X Nat) = Less
    BY DEF OpToRel
  <2> QED BY <2>1, <2>2, IsWellFoundedOnSubrelation
<1>2. PICK m \in S : \A y \in S : <<y, m>> \notin Less
  BY <1>1, WFMin
<1>3. ASSUME NEW x \in S PROVE m <= x
  <2>1. <<x, m>> \in Nat \X Nat /\ <<x, m>> \notin Less
    BY <1>2
  <2>2. <<x, m>>[1] = x /\ <<x, m>>[2] = m
    OBVIOUS
  <2> QED BY <2>1, <2>2
<1> QED BY <1>3

\* A walk meets the messages of a response in their order.
InOrder(M, paths) ==
  /\ M \subseteq Nat
  /\ \A m, k \in M : MetBefore(ListPath(paths[m]), ListPath(paths[k])) <=> m < k

\* A label list is that of a message.
LEMMA ListIsOfMessage ==
  ASSUME NEW doc, NEW M, NEW paths, NEW labels, Messages(doc, M, paths, labels), NEW pol,
         NEW list \in LabelLists(redactAny(doc, pol))
  PROVE  \E m \in M : list = ListPath(paths[m]) /\ labels[m] # {}
BY ListsOfMessages

\* There is one outcome.
Single(outcomes) == \E out : outcomes = {out}

\* Then one list decides, that of the first message that has a label.
LEMMA OneVerdict ==
  ASSUME NEW doc, NEW M, NEW paths, NEW labels, Messages(doc, M, paths, labels),
         InOrder(M, paths), NEW pol, NEW allowed
  PROVE  Single(hasAllowedLabelIDs(redactAny(doc, pol), allowed))
<1> DEFINE clean == redactAny(doc, pol)
           labelled == {m \in M : labels[m] # {}}
<1> HIDE DEF clean
<1>1. /\ \A list \in LabelLists(clean) : \E m \in labelled : list = ListPath(paths[m])
      /\ \A m \in labelled : ListPath(paths[m]) \in LabelLists(clean)
  <2>1. ASSUME NEW list \in LabelLists(clean)
        PROVE  \E m \in labelled : list = ListPath(paths[m])
    <3>1. list \in LabelLists(redactAny(doc, pol))
      BY DEF clean
    <3>2. \E m \in M : list = ListPath(paths[m]) /\ labels[m] # {}
      BY <3>1, ListIsOfMessage
    <3> QED BY <3>2
  <2>2. ASSUME NEW m \in labelled PROVE ListPath(paths[m]) \in LabelLists(clean)
    BY ListsOfMessages DEF clean
  <2> QED BY <2>1, <2>2
<1>2. CASE LabelLists(clean) = {}
  BY <1>2 DEF hasAllowedLabelIDs, clean, Single
<1>3. CASE LabelLists(clean) # {}
  <2>1. labelled # {}
    BY <1>1, <1>3
  <2>0. labelled \subseteq Nat
    BY DEF InOrder
  <2>2. PICK m \in labelled : \A k \in labelled : m <= k
    BY <2>0, <2>1, LeastNatural
  <2> DEFINE first == ListPath(paths[m])
  <2>3. \A k \in labelled : MetBefore(ListPath(paths[k]), first) <=> k < m
    BY DEF InOrder
  <2>4. \A k \in labelled : MetBefore(first, ListPath(paths[k])) <=> m < k
    BY DEF InOrder
  <2> HIDE DEF first
  <2>5. first \in LabelLists(clean)
    BY <1>1 DEF first
  <2>6. first \in DecidingLists(clean)
    BY <1>1, <2>0, <2>2, <2>3, <2>5 DEF DecidingLists
  <2>7. ASSUME NEW list \in DecidingLists(clean) PROVE list = first
    <3>1. list \in LabelLists(clean) /\ ~MetBefore(first, list)
      BY <2>5 DEF DecidingLists
    <3>2. PICK k \in labelled : list = ListPath(paths[k])
      BY <1>1, <3>1
    <3>3. k = m
      BY <2>0, <2>2, <2>4, <3>1, <3>2
    <3> QED BY <3>2, <3>3 DEF first
  <2>8. DecidingLists(clean) = {first}
    BY <2>6, <2>7
  <2>9. hasAllowedLabelIDs(clean, allowed)
          = {IF ListAllowed(clean, first, allowed) THEN "allowed" ELSE "refused"}
    BY <1>3, <2>8 DEF hasAllowedLabelIDs
  <2> QED BY <2>9 DEF clean, Single
<1> QED BY <1>2, <1>3

\* In the response of gmail.get there is one message to meet.
LEMMA GetIsInOrder == InOrder({1}, [m \in {1} |-> GetPath])
<1> DEFINE p == ListPath(GetPath)
<1>1. /\ p \in Seq(Steps) /\ Len(p) = 2 /\ p[1] = Key("message") /\ p[2] = Key("labelIds")
      /\ DOMAIN p = {1, 2}
  <2>1. Len(GetPath) = 1 /\ GetPath[1] = Key("message")
    BY DEF GetPath
  <2>2. /\ p \in Seq(Steps) /\ Len(p) = Len(GetPath) + 1
        /\ p[Len(GetPath) + 1] = Key("labelIds")
        /\ \A n \in 1..Len(GetPath) : p[n] = GetPath[n]
    BY MessagePaths, ListPathIsPath
  <2> HIDE DEF p
  <2> QED BY <2>1, <2>2
<1>2. ~InArray(p[1]) /\ ~InArray(p[2])
  BY <1>1, StepsAreDistinct DEF InArray, Blank
<1>3. ~MetBefore(p, p)
  BY <1>1, <1>2 DEF MetBefore, IsStrictPrefix
<1> QED BY <1>3 DEF InOrder

\* The messages of a thread are met in their order, the items of a JSON array.
LEMMA ThreadIsInOrder ==
  ASSUME NEW M, M \subseteq Nat
  PROVE  InOrder(M, [m \in M |-> ThreadPath(m)])
<1> DEFINE p(m) == ListPath(ThreadPath(m))
<1>1. ASSUME NEW m \in M
      PROVE  /\ p(m) \in Seq(Steps) /\ Len(p(m)) = 4 /\ DOMAIN p(m) = {1, 2, 3, 4}
             /\ p(m)[1] = Key("thread") /\ p(m)[2] = Key("messages")
             /\ p(m)[3] = At(m) /\ p(m)[4] = Key("labelIds")
  <2>1. /\ Len(ThreadPath(m)) = 3
        /\ ThreadPath(m)[1] = Key("thread") /\ ThreadPath(m)[2] = Key("messages")
        /\ ThreadPath(m)[3] = At(m)
    BY DEF ThreadPath
  <2>2. PathToMessage(ThreadPath(m))
    BY MessagePaths
  <2>3. /\ p(m) \in Seq(Steps) /\ Len(p(m)) = Len(ThreadPath(m)) + 1
        /\ p(m)[Len(ThreadPath(m)) + 1] = Key("labelIds")
        /\ \A n \in 1..Len(ThreadPath(m)) : p(m)[n] = ThreadPath(m)[n]
    BY <2>2, ListPathIsPath
  <2> HIDE DEF p
  <2> QED BY <2>1, <2>3
<1>2. /\ ~InArray(Key("thread")) /\ ~InArray(Key("messages")) /\ ~InArray(Key("labelIds"))
      /\ \A i : InArray(At(i)) /\ At(i).at = i
  <2>1. ~InArray(Key("thread")) /\ ~InArray(Key("messages")) /\ ~InArray(Key("labelIds"))
    <3>1. /\ Key("thread").key = "thread" /\ Key("messages").key = "messages"
          /\ Key("labelIds").key = "labelIds"
      BY StepsAreDistinct
    <3> QED BY <3>1 DEF InArray, Blank
  <2>2. \A i : InArray(At(i)) /\ At(i).at = i
    BY StepsAreDistinct
  <2> QED BY <2>1, <2>2
<1> HIDE DEF p
<1>3. ASSUME NEW m \in M, NEW k \in M
      PROVE  MetBefore(p(m), p(k)) <=> m < k
  <2>1. ~IsStrictPrefix(p(m), p(k))
    <3>1. SubSeq(p(m), 1, 4) = p(m) /\ SubSeq(p(k), 1, 4) = p(k)
      BY <1>1
    <3> QED BY <1>1, <3>1 DEF IsStrictPrefix, IsPrefix
  <2>2. ASSUME NEW n \in DOMAIN p(m) \cap DOMAIN p(k), InArray(p(m)[n])
        PROVE  n = 3
    BY <1>1, <1>2, <2>2
  <2>3. \A j \in 1..2 : p(m)[j] = p(k)[j]
    BY <1>1
  <2>4. 3 \in DOMAIN p(m) \cap DOMAIN p(k) /\ 3 - 1 = 2
    BY <1>1
  <2>5. InArray(p(m)[3]) /\ InArray(p(k)[3]) /\ (p(m)[3].at < p(k)[3].at <=> m < k)
    BY <1>1, <1>2
  <2> QED BY <2>1, <2>2, <2>3, <2>4, <2>5 DEF MetBefore
<1> QED BY <1>3 DEF InOrder, p
\* On the documents gog prints there is one answer.
LEMMA OneAnswer ==
  ASSUME mail \in Listings, asked \in Asks, printed \in Printed(asked)
  PROVE  Single(Answers(asked, printed))
<1> DEFINE th == asked.thread
           clean == redactAny(printed, policy)
<1>1. asked.action \in {"gmail.search", "gmail.labels.list", "calendar.list",
                        "gmail.get", "gmail.thread.get"}
  BY DEF Asks
<1>2. CASE asked.action = "gmail.search"
  BY <1>2 DEF Answers, Redact, Single
<1>3. CASE asked.action = "gmail.labels.list"
  BY <1>3 DEF Answers, Redact, Single
<1>4. CASE asked.action = "calendar.list"
  BY <1>4 DEF Answers, Redact, GmailActions, Single
<1>5. CASE asked.action \in {"gmail.get", "gmail.thread.get"}
  <2>1. th \in DOMAIN Threads
    BY <1>5 DEF Asks
  <2>2. Single(hasAllowedLabelIDs(clean, policy.gmail.read))
    <3>1. CASE asked.action = "gmail.get"
      <4>1. printed = GetPrinted(th)
        BY <3>1 DEF Printed
      <4> DEFINE paths == [m \in {1} |-> GetPath]
                 labels == [m \in {1} |-> Threads[th][1]]
      <4>2. Messages(printed, {1}, paths, labels)
        BY <2>1, <4>1, GetIsMessages
      <4>3. InOrder({1}, paths)
        BY GetIsInOrder
      <4> HIDE DEF paths, labels, th
      <4> QED BY <4>2, <4>3, OneVerdict
    <3>2. CASE asked.action = "gmail.thread.get"
      <4>1. printed = ThreadPrinted(th)
        BY <3>2 DEF Printed
      <4> DEFINE M == DOMAIN Threads[th]
                 paths == [m \in M |-> ThreadPath(m)]
      <4>2. Messages(printed, M, paths, Threads[th])
        BY <2>1, <4>1, ThreadIsMessages
      <4>3. InOrder(M, paths)
        BY <2>1, ThreadsAssumption, ThreadIsInOrder
      <4> HIDE DEF M, paths, th
      <4> QED BY <4>2, <4>3, OneVerdict
    <3> QED BY <1>5, <3>1, <3>2
  <2> DEFINE answer(v) == IF v = "refused" THEN RefusedResponse ELSE Shown(clean)
  <2>3. Answers(asked, printed)
          = IF policy.gmail.read = {} THEN {Shown(clean)}
            ELSE {answer(v) : v \in hasAllowedLabelIDs(clean, policy.gmail.read)}
    BY <1>5 DEF Answers, Redact, GmailActions
  <2> HIDE DEF answer, clean
  <2>4. CASE policy.gmail.read = {}
    BY <2>3, <2>4 DEF Single
  <2>5. CASE policy.gmail.read # {}
    <3>1. PICK v : hasAllowedLabelIDs(clean, policy.gmail.read) = {v}
      BY <2>2 DEF Single
    <3>2. Answers(asked, printed) = {answer(v)}
      BY <2>3, <2>5, <3>1
    <3> QED BY <3>2 DEF Single
  <2> QED BY <2>4, <2>5
<1> QED BY <1>1, <1>2, <1>3, <1>4, <1>5

\* Whatever is asked and whatever gog prints for it, the order in which a map is
\* walked never decides what the client gets (hasAllowedLabelIDs, redact.go:202-238).
THEOREM SameVerdictAlways == Spec => []SameVerdict
<1>1. LastExchange /\ mail \in Listings => SameVerdict
  <2> SUFFICES ASSUME LastExchange, mail \in Listings, asked # Nothing
               PROVE  Cardinality(Answers(asked, printed)) = 1
    BY DEF SameVerdict
  <2>1. asked \in Asks /\ printed \in Printed(asked)
    BY DEF LastExchange
  <2>2. PICK out : Answers(asked, printed) = {out}
    BY <2>1, OneAnswer DEF Single
  <2> QED BY <2>2, FS_Singleton
<1> QED BY <1>1, LastExchangeAlways, MailIsListed, PTL

-----------------------------------------------------------------------------
(* The result of a search *)

NamesOf(t) == {mail[l] : l \in LabelsOf(t)}

NamesPath(t) == Field("threads", t, "labels")

\* What is at p, of a thread that a search has found.
OfThread(p, leaf, t) ==
  \/ p = Field("threads", t, "id")
  \/ p = Field("threads", t, "snippet")
  \/ IsWord(p, leaf, NamesPath(t), NamesOf(t))

\* The names of a thread's labels are finitely many, and none is blank.
LEMMA NamesAreFinite ==
  ASSUME mail \in Listings, NEW t \in DOMAIN Threads
  PROVE  IsFiniteSet(NamesOf(t)) /\ Blank \notin NamesOf(t)
<1>1. IsFiniteSet(LabelsOf(t)) /\ LabelsOf(t) \subseteq DOMAIN mail
  BY LabelsAreFinite
<1> DEFINE f == [l \in LabelsOf(t) |-> mail[l]]
<1>2. f \in Surjection(LabelsOf(t), NamesOf(t))
  BY DEF Surjection, NamesOf
<1>3. IsFiniteSet(NamesOf(t))
  <2> HIDE DEF f
  <2> QED BY <1>1, <1>2, FS_Surjection
<1>4. \A l \in DOMAIN mail : mail[l] # Blank
  BY ListingsAssumption
<1> QED BY <1>1, <1>3, <1>4 DEF NamesOf

\* The path of a thread's labels is a sequence of steps.
LEMMA NamesPathIsPath ==
  ASSUME NEW t \in Nat
  PROVE  NamesPath(t) \in Seq(Steps)
<1>1. Key("threads") \in Steps /\ Key("labels") \in Steps /\ At(t) \in Steps
  BY StepsAreTyped DEF OpenKeys
<1> QED BY <1>1 DEF NamesPath, Field

\* A search prints the id, a snippet and the label names of every thread found, and
\* nothing of any other thread.
LEMMA SearchLeaves ==
  ASSUME mail \in Listings, NEW found, found \subseteq DOMAIN Threads
  PROVE  /\ \A p \in DOMAIN SearchPrinted(found) : \E t \in found :
              OfThread(p, SearchPrinted(found)[p], t)
         /\ \A t \in found : Field("threads", t, "id") \in DOMAIN SearchPrinted(found)
         /\ \A t \in found : \A w \in NamesOf(t) : \E p \in DOMAIN SearchPrinted(found) :
              IsWord(p, SearchPrinted(found)[p], NamesPath(t), {w})
<1> DEFINE id(t) == Leaf(Field("threads", t, "id"), Scalar)
           text(t) == Leaf(Field("threads", t, "snippet"),
                           Wording(<<Word("see"), Link, Address("eve@else", "else")>>))
           names(t) == Strings1(NamesPath(t), NamesOf(t))
           docs == UNION {{id(t), text(t), names(t)} : t \in found}
<1>1. SearchPrinted(found) = Joined(docs)
  BY DEF SearchPrinted, NamesPath, NamesOf
<1>2. ASSUME NEW t \in found
      PROVE  /\ DOMAIN id(t) = {Field("threads", t, "id")}
             /\ DOMAIN text(t) = {Field("threads", t, "snippet")}
  BY DEF Leaf
<1>3. ASSUME NEW t \in found
      PROVE  /\ NamesPath(t) \in Seq(Steps)
             /\ \A p \in DOMAIN names(t) : IsWord(p, names(t)[p], NamesPath(t), NamesOf(t))
             /\ \A w \in NamesOf(t) : \E p \in DOMAIN names(t) :
                  IsWord(p, names(t)[p], NamesPath(t), {w})
  <2>1. NamesPath(t) \in Seq(Steps)
    BY ThreadsAssumption, NamesPathIsPath
  <2>2. IsFiniteSet(NamesOf(t))
    BY NamesAreFinite
  <2> QED BY <2>1, <2>2, WordsPrinted
<1> HIDE DEF id, text, names
<1>4. /\ \A d \in docs : \E t \in found : d = id(t) \/ d = text(t) \/ d = names(t)
      /\ \A t \in found : id(t) \in docs /\ names(t) \in docs
  OBVIOUS
<1> HIDE DEF docs
<1>5. ASSUME NEW p \in DOMAIN Joined(docs)
      PROVE  \E t \in found : OfThread(p, Joined(docs)[p], t)
  <2>1. PICK d \in docs : p \in DOMAIN d /\ Joined(docs)[p] = d[p]
    BY JoinedAt
  <2>2. PICK t \in found : d = id(t) \/ d = text(t) \/ d = names(t)
    BY <1>4
  <2>3. CASE d = id(t)
    BY <2>1, <2>3, <1>2 DEF OfThread
  <2>4. CASE d = text(t)
    BY <2>1, <2>4, <1>2 DEF OfThread
  <2>5. CASE d = names(t)
    BY <2>1, <2>5, <1>3 DEF OfThread
  <2> QED BY <2>2, <2>3, <2>4, <2>5
<1>6. ASSUME NEW t \in found
      PROVE  Field("threads", t, "id") \in DOMAIN Joined(docs)
  BY <1>2, <1>4, JoinedAt
<1>7. ASSUME NEW t \in found, NEW w \in NamesOf(t)
      PROVE  \E p \in DOMAIN Joined(docs) : IsWord(p, Joined(docs)[p], NamesPath(t), {w})
  <2>1. PICK p \in DOMAIN names(t) : IsWord(p, names(t)[p], NamesPath(t), {w})
    BY <1>3
  <2>2. p \in DOMAIN Joined(docs)
    BY <1>4, JoinedAt
  <2>3. PICK d \in docs : p \in DOMAIN d /\ Joined(docs)[p] = d[p]
    BY <2>2, JoinedAt
  <2>4. PICK u \in found : d = id(u) \/ d = text(u) \/ d = names(u)
    BY <1>4
  <2>5. Len(p) = 4 /\ Front(p) = NamesPath(t)
    <3>1. NamesPath(t) \in Seq(Steps) /\ Len(NamesPath(t)) = 3
      BY <1>3, FieldPath DEF NamesPath
    <3>2. Len(p) = Len(NamesPath(t)) + 1 /\ Front(p) = NamesPath(t)
      BY <2>1, <3>1, WordPath
    <3> QED BY <3>1, <3>2
  <2>6. d = names(u)
    <3>1. /\ p # Field("threads", u, "id") /\ p # Field("threads", u, "snippet")
      BY <2>5, FieldPath
    <3> QED BY <1>2, <2>3, <2>4, <3>1
  <2>7. Front(p) = NamesPath(u)
    BY <1>3, <2>3, <2>6, WordPath
  <2>8. u = t
    BY <2>5, <2>7, FieldPath, StepsAreDistinct DEF NamesPath
  <2> QED BY <2>1, <2>2, <2>3, <2>6, <2>8
<1> QED BY <1>1, <1>5, <1>6, <1>7

\* Every leaf of a thread is under its position.
LEMMA ThreadLeaf ==
  ASSUME NEW t \in Nat, NEW p, NEW leaf, OfThread(p, leaf, t)
  PROVE  /\ Len(p) > 1 /\ p[1] = Key("threads") /\ p[2] = At(t)
         /\ Len(p) = 4 => IsWord(p, leaf, NamesPath(t), NamesOf(t))
<1>1. NamesPath(t) \in Seq(Steps)
  BY NamesPathIsPath
<1>2. CASE p = Field("threads", t, "id") \/ p = Field("threads", t, "snippet")
  BY <1>2, FieldPath
<1>3. CASE IsWord(p, leaf, NamesPath(t), NamesOf(t))
  BY <1>1, <1>3, WordPath, FieldPath DEF NamesPath
<1> QED BY <1>2, <1>3 DEF OfThread

\* What extractLabels finds for a thread is the names of its labels.
LEMMA ExtractedAreNames ==
  ASSUME mail \in Listings, NEW found, found \subseteq DOMAIN Threads, NEW t \in found, NEW pol
  PROVE  extractLabels(redactAny(SearchPrinted(found), pol), t)
           = {Wording(<<Word(w)>>) : w \in NamesOf(t)}
<1> DEFINE doc == SearchPrinted(found)
           clean == redactAny(doc, pol)
           words == {Wording(<<Word(w)>>) : w \in NamesOf(t)}
<1>1. found \subseteq Nat
  BY ThreadsAssumption
<1>2. DOMAIN clean \subseteq DOMAIN doc
  BY DEF redactAny
<1>3. ASSUME NEW q \in DOMAIN clean, NEW name, Len(q) = 4, Front(q) = Field("threads", t, name)
      PROVE  name = "labels" /\ clean[q] \in words
  <2>1. PICK u \in found : OfThread(q, doc[q], u)
    BY <1>2, SearchLeaves
  <2>2. IsWord(q, doc[q], NamesPath(u), NamesOf(u))
    BY <1>1, <1>3, <2>1, ThreadLeaf
  <2>3. Front(q) = NamesPath(u) /\ \E w \in NamesOf(u) : doc[q] = Wording(<<Word(w)>>)
    <3> HIDE DEF doc
    <3>1. NamesPath(u) \in Seq(Steps)
      BY <1>1, NamesPathIsPath
    <3> QED BY <2>2, <3>1, WordPath
  <2>4. u = t /\ name = "labels"
    <3>1. Field("threads", u, "labels") = Field("threads", t, name)
      BY <1>3, <2>3 DEF NamesPath
    <3>2. At(u) = At(t) /\ Key("labels") = Key(name)
      BY <3>1, FieldPath
    <3> QED BY <3>2, StepsAreDistinct
  <2>5. PICK w \in NamesOf(t) : doc[q] = Wording(<<Word(w)>>)
    BY <2>3, <2>4
  <2>6. clean[q] = Wording(<<Word(w)>>)
    BY <2>5, WordIsKept
  <2> QED BY <2>4, <2>6
<1>4. ASSUME NEW w \in NamesOf(t)
      PROVE  Wording(<<Word(w)>>) \in ItemLabels(clean, t, "labels")
  <2>1. PICK p \in DOMAIN doc : IsWord(p, doc[p], NamesPath(t), {w})
    BY SearchLeaves
  <2>2. /\ p \in Seq(Steps) /\ Len(p) = 4 /\ Front(p) = Field("threads", t, "labels")
        /\ InArray(p[4]) /\ \A n \in 1..3 : p[n] = NamesPath(t)[n]
        /\ doc[p] = Wording(<<Word(w)>>)
    <3>1. NamesPath(t) \in Seq(Steps) /\ Len(NamesPath(t)) = 3
      BY <1>1, NamesPathIsPath, FieldPath DEF NamesPath
    <3>2. PICK i \in Nat : p = NamesPath(t) \o <<At(i)>> /\ doc[p] = Wording(<<Word(w)>>)
      BY <2>1 DEF IsWord
    <3>3. At(i) \in Steps /\ InArray(At(i))
      BY StepsAreTyped
    <3> QED BY <3>1, <3>2, <3>3, Appended DEF NamesPath
  <2>3. /\ p[1] = Key("threads") /\ p[2] = At(t) /\ p[3] = Key("labels")
    BY <2>2, FieldPath DEF NamesPath
  <2>4. \A n \in DOMAIN p : p[n].key \in OpenKeys
    <3>1. DOMAIN p = {1, 2, 3, 4}
      BY <2>2
    <3>2. p[1].key = "threads" /\ p[2].key = Blank /\ p[3].key = "labels" /\ p[4].key = Blank
      BY <2>2, <2>3, StepsAreDistinct DEF InArray
    <3> QED BY <3>1, <3>2 DEF OpenKeys
  <2>5. p \in DOMAIN clean
    BY <2>4, KeptLeaf
  <2>6. clean[p] = Wording(<<Word(w)>>)
    BY <2>2, <2>5, WordIsKept
  <2>7. clean[p].kind = "string" /\ clean[p].parts # <<>>
    BY <2>6 DEF Wording
  <2> HIDE DEF clean
  <2> QED BY <2>2, <2>5, <2>6, <2>7 DEF ItemLabels
<1> HIDE DEF clean
<1>5. ItemLabels(clean, t, "labels") \subseteq words
  BY <1>3 DEF ItemLabels
<1>6. ItemLabels(clean, t, "labels") = words
  BY <1>4, <1>5
<1>7. ItemLabels(clean, t, "labelIds") = {} /\ ItemLabels(clean, t, "label_ids") = {}
  BY <1>3 DEF ItemLabels
<1> HIDE DEF words
<1> DEFINE names == <<"labels", "labelIds", "label_ids">>
           I == {i \in 1..Len(names) : ItemLabels(clean, t, names[i]) # {}}
<1>8. extractLabels(clean, t)
        = IF I = {} THEN {} ELSE IF Min(I) = 0 THEN {} ELSE ItemLabels(clean, t, names[Min(I)])
  BY DEF extractLabels, SelectInSeq
<1>9. CASE words = {}
  <2>1. I = {}
    BY <1>6, <1>7, <1>9
  <2> QED BY <1>8, <1>9, <2>1 DEF clean, words
<1>10. CASE words # {}
  <2>1. I = {1}
    BY <1>6, <1>7, <1>10
  <2>2. Min(I) = 1
    BY <2>1 DEF Min
  <2>3. names[1] = "labels"
    OBVIOUS
  <2> HIDE DEF names, I
  <2>4. extractLabels(clean, t) = words
    BY <1>6, <1>8, <2>1, <2>2, <2>3
  <2> QED BY <2>4 DEF clean, words
<1> QED BY <1>9, <1>10

\* The id of a thread that was found is never dropped, so the thread can be shown.
LEMMA IdIsKept ==
  ASSUME mail \in Listings, NEW found, found \subseteq DOMAIN Threads, NEW t \in found, NEW pol
  PROVE  Field("threads", t, "id") \in DOMAIN redactAny(SearchPrinted(found), pol)
<1>1. Field("threads", t, "id") \in DOMAIN SearchPrinted(found)
  BY SearchLeaves
<1>2. \A n \in DOMAIN Field("threads", t, "id") : Field("threads", t, "id")[n].key \in OpenKeys
  BY FieldPath, StepsAreDistinct DEF OpenKeys
<1> QED BY <1>1, <1>2, KeptLeaf

\* Every thread that is found is listed in what gog prints.
LEMMA FoundArePrinted ==
  ASSUME mail \in Listings, NEW found, found \subseteq DOMAIN Threads
  PROVE  Items(SearchPrinted(found), "threads") = found
<1> DEFINE doc == SearchPrinted(found)
<1>1. ASSUME NEW n \in Items(doc, "threads") PROVE n \in found
  <2>1. PICK p \in DOMAIN doc : n = p[2].at
    BY DEF Items
  <2>2. PICK t \in found : OfThread(p, doc[p], t)
    BY SearchLeaves
  <2>3. p[2] = At(t)
    BY <2>2, ThreadsAssumption, ThreadLeaf
  <2> QED BY <2>1, <2>3, StepsAreDistinct
<1>2. ASSUME NEW t \in found PROVE t \in Items(doc, "threads")
  <2> DEFINE p == Field("threads", t, "id")
  <2>1. p \in DOMAIN doc
    BY SearchLeaves
  <2>2. Len(p) > 1 /\ p[1] = Key("threads") /\ p[2].at = t
    BY FieldPath, StepsAreDistinct
  <2> HIDE DEF p, doc
  <2> QED BY <2>1, <2>2 DEF Items
<1> QED BY <1>1, <1>2

\* Of the threads that are found, those one of whose labels has a listed name, or
\* the name that the table has for a listed id, are left.
LEMMA ListedThreadsAreShown ==
  ASSUME mail \in Listings, NEW found, found \subseteq DOMAIN Threads,
         NEW pol, NEW allowed, NEW t0
  PROVE  Items(filterSearchResults(redactAny(SearchPrinted(found), pol), allowed, t0), "threads")
           = {t \in found : \E w \in NamesOf(t) : w \in AllowedWords(allowed, t0)}
<1> DEFINE clean == redactAny(SearchPrinted(found), pol)
           left == filterSearchResults(clean, allowed, t0)
           passes(t) == \E leaf \in extractLabels(clean, t) :
                          SaysOneOf(leaf, AllowedWords(allowed, t0))
           good(t) == \E w \in NamesOf(t) : w \in AllowedWords(allowed, t0)
<1>1. ASSUME NEW t \in found PROVE passes(t) <=> good(t)
  <2>1. extractLabels(clean, t) = {Wording(<<Word(w)>>) : w \in NamesOf(t)}
    BY ExtractedAreNames
  <2>2. \A w : SaysOneOf(Wording(<<Word(w)>>), AllowedWords(allowed, t0))
                 <=> w \in AllowedWords(allowed, t0) \ {Blank}
    BY DEF SaysOneOf, Wording, Word
  <2>3. Blank \notin NamesOf(t)
    BY NamesAreFinite
  <2> HIDE DEF clean
  <2> QED BY <2>1, <2>2, <2>3
<1>2. DOMAIN left = {q \in DOMAIN clean :
        Len(q) > 1 /\ q[1] = Key("threads") /\ InArray(q[2]) => passes(q[2].at)}
  BY DEF filterSearchResults, WithoutItems
<1>3. DOMAIN clean \subseteq DOMAIN SearchPrinted(found)
  BY DEF redactAny
<1>4. \A t \in found : Field("threads", t, "id") \in DOMAIN clean
  BY IdIsKept
<1> HIDE DEF clean, passes, good, left
<1>5. ASSUME NEW n \in Items(left, "threads") PROVE n \in found /\ good(n)
  <2>1. PICK p \in DOMAIN left : n = p[2].at
    BY DEF Items
  <2>2. PICK t \in found : OfThread(p, SearchPrinted(found)[p], t)
    BY <1>2, <1>3, SearchLeaves
  <2>3. Len(p) > 1 /\ p[1] = Key("threads") /\ p[2] = At(t)
    BY <2>2, ThreadsAssumption, ThreadLeaf
  <2>4. n = t /\ InArray(p[2])
    BY <2>1, <2>3, StepsAreDistinct
  <2> QED BY <2>1, <2>3, <2>4, <1>1, <1>2
<1>6. ASSUME NEW t \in found, good(t) PROVE t \in Items(left, "threads")
  <2> DEFINE p == Field("threads", t, "id")
  <2>1. Len(p) > 1 /\ p[1] = Key("threads") /\ InArray(p[2]) /\ p[2].at = t
    BY FieldPath, StepsAreDistinct
  <2>2. p \in DOMAIN left
    BY <1>1, <1>2, <1>4, <1>6, <2>1
  <2> HIDE DEF p
  <2> QED BY <2>1, <2>2 DEF Items
<1>7. Items(left, "threads") = {t \in found : good(t)}
  BY <1>5, <1>6
<1> QED BY <1>7 DEF left, clean, good

\* A search that needs the labels is answered after their lookup (broker.go:187-232).
LookupIsFirst ==
  asked.action = "gmail.search" /\ Listed \ {Blank} # {} => LookedUp

\* No search is answered under a policy with read labels before their lookup.
LEMMA LookupIsFirstAlways == Spec => []LookupIsFirst
<1>1. Init => LookupIsFirst
  BY DEF Init, LookupIsFirst, Nothing
<1>2. LookupIsFirst /\ [Next]_vars => LookupIsFirst'
  <2> SUFFICES ASSUME LookupIsFirst, [Next]_vars PROVE LookupIsFirst'
    OBVIOUS
  <2>1. CASE UNCHANGED vars
    BY <2>1 DEF vars, exchange, LookupIsFirst, Listed, LookedUp
  <2>2. CASE Lookup \/ Rename \/ Restart
    BY <2>2 DEF Lookup, Rename, Restart, NoExchange, Nothing, LookupIsFirst
  <2>3. ASSUME NEW a \in Asks, Read(a) PROVE LookupIsFirst'
    <3> SUFFICES ASSUME a.action = "gmail.search", Listed \ {Blank} # {}
                 PROVE  LookedUp
      BY <2>3 DEF Read, LookupIsFirst, Listed, LookedUp
    <3> QED BY <2>3 DEF Read, NeedsLookup, allowedLabelUnion, Listed
  <2> QED BY <2>1, <2>2, <2>3 DEF Next
<1> QED BY <1>1, <1>2, PTL DEF Spec

\* Whatever the policy, and however labels are renamed between a lookup and a
\* search, the result of the search is filtered by one listing the mailbox has had
\* since the lookup, and is all that this listing lets through (redact.go:345-369).
THEOREM SearchIsConsistentAlways == Spec => []SearchIsConsistent
<1>1. LastExchange /\ mail \in Listings /\ OneListing /\ LookupIsFirst => SearchIsConsistent
  <2> SUFFICES ASSUME LastExchange, mail \in Listings, OneListing, LookupIsFirst,
                      asked.action = "gmail.search", Listed \ {Blank} # {}
               PROVE  \E m \in seen : Items(shown.doc, "threads")
                        = {t \in Items(printed, "threads") : MayBeFound(t, m)}
    BY DEF SearchIsConsistent
  <2>1. asked # Nothing
    BY DEF Nothing
  <2>2. PICK found \in SUBSET DOMAIN Threads : printed = SearchPrinted(found)
    BY <2>1 DEF LastExchange, Printed
  <2>3. found \subseteq DOMAIN Threads
    OBVIOUS
  <2>4. shown = Shown(filterSearchResults(redactAny(printed, policy), Listed, table))
    BY <2>1 DEF LastExchange, Answers, Redact, Listed
  <2>5. Items(shown.doc, "threads")
          = {t \in found : \E w \in NamesOf(t) : w \in AllowedWords(Listed, table)}
    BY <2>2, <2>3, <2>4, ListedThreadsAreShown DEF Shown
  <2>6. Items(printed, "threads") = found
    BY <2>2, <2>3, FoundArePrinted
  <2>7. PICK m \in seen : table \in LabelTables(m)
    BY DEF OneListing, LookupIsFirst
  <2>8. table.nameOf = m
    <3>1. \E back : table = [nameOf |-> m, idOf |-> back]
      BY <2>7 DEF LabelTables
    <3> QED BY <3>1
  <2>9. ASSUME NEW t
        PROVE  (\E w \in NamesOf(t) : w \in AllowedWords(Listed, table)) <=> MayBeFound(t, m)
    <3>1. ASSUME NEW w
          PROVE  w \in AllowedWords(Listed, table)
                   <=> w \in Listed \/ \E k \in Listed \cap DOMAIN m : m[k] = w
      BY <2>8 DEF AllowedWords
    <3> QED BY <3>1 DEF NamesOf, MayBeFound
  <2> QED BY <2>5, <2>6, <2>9
<1> QED BY <1>1, LastExchangeAlways, MailIsListed, OneListingAlways, LookupIsFirstAlways, PTL

=============================================================================
