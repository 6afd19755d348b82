----------------------------- MODULE Deployment -----------------------------
(***************************************************************************)
(* What stays fixed while brokers come and go: the policy file, the        *)
(* gog_account setting, the mailboxes behind gog, and the requests clients *)
(* may send.                                                               *)
(***************************************************************************)
EXTENDS Integers, Params, PolicySet

CONSTANTS
  Requests,    \* the slots a client's request can occupy, one at a time each
  Inputs,      \* the requests: records of id, action, account and params
  PolicyFile,  \* policy.json
  GogAccount,  \* gog_account of the broker's configuration, as written
  Mailbox,     \* by account: the sets of labels gog may report, each a
               \* function from label ids to names
  Windows      \* the hours a range may turn out to span once the account's
               \* time zone is known

\* The broker starts only with a policy file that LoadSet accepts.
ASSUME PolicyFileAccepted == LoadAccepts(PolicyFile)

\* max_days is decoded into an int.
ASSUME MaxDaysIsInt ==
  \A k \in DOMAIN PolicyFile.accounts :
    "gmail" \in DOMAIN PolicyFile.accounts[k] =>
      PolicyFile.accounts[k].gmail.maxDays \in Int

Policies == LoadedSet(PolicyFile)
Accounts == DOMAIN Policies.accounts

\* Every account the policy file names has a mailbox, with some set of labels.
ASSUME MailboxPerAccount ==
  DOMAIN Mailbox = Accounts /\ \A a \in Accounts : Mailbox[a] # {}

ASSUME WindowsAreHours == Windows \subseteq Int

IsText(value) == value.type \in {"string", "list"}
IsSequence(toks) == Len(toks) \in Nat /\ toks = [j \in 1..Len(toks) |-> toks[j]]

\* A text and a list are sequences, and the strings among the items of a list
\* have their place among its leaves.  Any parameter may be of any JSON type.
ASSUME InputsAreParsed ==
  \A i \in Inputs : \A k \in DOMAIN i.params :
    LET v == i.params[k]
    IN  /\ IsText(v) \/ v.type = "mixed" => IsSequence(v.toks)
        /\ v.type = "mixed" =>
             IsSequence(v.strings) /\ Range(v.strings) \subseteq Range(v.toks)

\* Handle accepts a historical misspelling of one action.
ActionOf(i) ==
  IF i.action = "gmail.lables.get" THEN "gmail.labels.get" ELSE i.action

\* resolvePolicy, for a request whose account is known.
AccountOf(i) == ResolvedName(Policies, i.account, GogAccount)
PolicyOf(i) == Policies.accounts[AccountOf(i)]
=============================================================================
