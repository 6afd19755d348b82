----------------------------- MODULE PolicySet ------------------------------
(***************************************************************************)
(* internal/policy/set.go and Policy.Validate: what the broker loads from  *)
(* policy.json when it starts, and which account's policy a request gets.  *)
(*                                                                         *)
(* An account as someone wrote it (a key of the file, the "account" of a   *)
(* request, gog_account) is a record: the name it denotes and how it is    *)
(* spelled.  normalizeAccount lower-cases and trims, so it keeps the name  *)
(* and drops the spelling; a string of blanks denotes the name NoName.     *)
(* A policy is the record of the JSON object: "gmail" and "calendar" are   *)
(* fields only when the object has them.                                   *)
(***************************************************************************)
EXTENDS FiniteSets, SequencesExt

NoName == ""
NullPolicy == [null |-> TRUE]

normalizeAccount(written) == written.name

\* The action names that start with "gmail." and with "calendar.".
GmailActions ==
  {"gmail.search", "gmail.thread.list", "gmail.thread.get",
   "gmail.thread.modify", "gmail.get", "gmail.send", "gmail.drafts.create",
   "gmail.labels.list", "gmail.labels.get", "gmail.labels.modify"}
CalendarActions == {"calendar.list", "calendar.events", "calendar.freebusy"}

\* Policy.Validate: a policy may name any action, but one for Gmail or the
\* calendar needs the section that constrains it.
Validate(pol) ==
  /\ pol.actions # {}
  /\ "" \notin pol.actions
  /\ pol.actions \cap GmailActions # {} => "gmail" \in DOMAIN pol
  /\ pol.actions \cap CalendarActions # {} => "calendar" \in DOMAIN pol

IsActionAllowed(pol, action) == action \in pol.actions

\* The set LoadSet returns: policies by normalized account, and a default.
LoadedSet(file) ==
  LET keys == DOMAIN file.accounts
      names == {normalizeAccount(k) : k \in keys}
  IN  [default  |-> normalizeAccount(file.default),
       accounts |-> [n \in names |->
          file.accounts[CHOOSE k \in keys : normalizeAccount(k) = n]]]

\* Faulty: of two spellings of an account, one hides the other.
AcceptsSpellings(file) ==
  LET keys == DOMAIN file.accounts
  IN  /\ keys # {}
      /\ \A k \in keys : /\ normalizeAccount(k) # NoName
                         /\ file.accounts[k] # NullPolicy
                         /\ Validate(file.accounts[k])

\* Whether LoadSet accepts the file; the broker refuses to start otherwise.
\* The raw "default_account": "" is the spelling "absent".
LoadAccepts(file) ==
  LET keys == DOMAIN file.accounts
  IN  /\ keys # {}
      /\ \A k \in keys : /\ normalizeAccount(k) # NoName
                         /\ file.accounts[k] # NullPolicy
                         /\ Validate(file.accounts[k])
      /\ \A k1, k2 \in keys :
            normalizeAccount(k1) = normalizeAccount(k2) => k1 = k2
      /\ \/ file.default.spelling = "absent"
         \/ \E k \in keys : normalizeAccount(file.default) = normalizeAccount(k)

\* PolicySet.Resolve: the name of the account whose policy applies is the
\* first of these that is not blank, NoName when all are.
ResolvedName(set, written, fallback) ==
  LET only == IF Cardinality(DOMAIN set.accounts) = 1
                THEN CHOOSE n \in DOMAIN set.accounts : TRUE ELSE NoName
      candidates == <<normalizeAccount(written), set.default,
                      normalizeAccount(fallback), only>>
      first == SelectInSeq(candidates, LAMBDA n : n # NoName)
  IN  IF first = 0 THEN NoName ELSE candidates[first]

\* ErrAccountRequired, and the absence of ErrAccountNotAllowed.
AccountRequired(set, written, fallback) ==
  ResolvedName(set, written, fallback) = NoName

AccountKnown(set, written, fallback) ==
  ResolvedName(set, written, fallback) \in DOMAIN set.accounts
=============================================================================
