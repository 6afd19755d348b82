-------------------------- MODULE BrokerProperties --------------------------
(***************************************************************************)
(* What the broker must keep true, whatever the order its handlers run in. *)
(***************************************************************************)
EXTENDS Broker, Limits

\* What the broker promises, read off its state: a request is pending from its
\* arrival to its end.
StageOf == [r \in Requests |-> IF pc[r] \in Quiet THEN pc[r] ELSE "pending"]

Promise == INSTANCE Gatekeeper
             WITH stage <- StageOf, asked <- input, effect <- ran, verdict <- answer

\* The account whose labels this handler is looking up.
Fetching(r, a) == pc[r] = "fetching" /\ AccountOf(input[r]) = a

\* A table built from what gog reported.
Reported(a, t) == \E m \in Mailbox[a] : m # NoLabels /\ t \in LabelTables(m)

\* The account's lookup has ended well.
Settled(a) == once[a] = "done" /\ labelErr[a] = "nil" /\ Reported(a, table[a])

\* A request that may depend on labels is judged, and gog run for it, only once
\* its account's lookup has ended well, with the tables that lookup filled in:
\* Handle calls ensureLabelMap before ValidateAndRewrite (broker.go:77-86), and
\* every later reader of the tables relies on it.
LabelsKnown ==
  \A r \in Requests :
    pc[r] \in Judged /\ NeedsLabels(input[r]) => Settled(AccountOf(input[r]))

\* However many requests of an account arrive while its labels are unknown, one
\* of them looks them up and the process asks gog once (sync.Once,
\* broker.go:194).
SingleLookup ==
  /\ \A a \in Accounts : lookups[a] <= 1
  /\ \A r1, r2 \in Requests, a \in Accounts :
        Fetching(r1, a) /\ Fetching(r2, a) => r1 = r2

\* Why the three hold, as an invariant every step keeps: a handler past its
\* admission has an account with a policy; once.Do is running exactly when one
\* handler of the account is in it; a lookup that is over has left either an
\* error or tables gog reported; and no handler outlives its process.
AdmittedHaveAccount ==
  \A r \in Requests :
    pc[r] \in Judged \cup {"labels", "fetching"} => AccountOf(input[r]) \in Accounts

OnceHasRunner ==
  up => \A a \in Accounts : once[a] = "running" <=> \E r \in Requests : Fetching(r, a)

OutcomeKept ==
  \A a \in Accounts :
    /\ once[a] = "done" => labelErr[a] \in {"nil", "err"}
    /\ labelErr[a] = "nil" => Settled(a)
    /\ once[a] = "new" => lookups[a] = 0

NoHandlerOutlives == ~up => \A r \in Requests : pc[r] \in Quiet

LookupDiscipline ==
  /\ TypeOK /\ AdmittedHaveAccount /\ OnceHasRunner /\ OutcomeKept
  /\ NoHandlerOutlives /\ SingleLookup /\ LabelsKnown

\* The policy's rules leave parameters p of the request i: by the tables the
\* account's lookup has filled in where labels matter, by any the process has
\* known otherwise.
Accepted(i, p) ==
  LET pol == PolicyOf(i)  action == ActionOf(i)
  IN  IF NeedsRange(action)
        THEN /\ \E hours \in Windows :
                  RangeAllowed(pol.calendar, hours) /\ p = WithRange(i.params, hours)
             /\ action = "calendar.events" => CalendarIdAllowed(pol.calendar, i.params)
             /\ action = "calendar.freebusy" => CalendarIdsAllowed(pol.calendar, i.params)
        ELSE \E t \in Tables(AccountOf(i)) :
               /\ NeedsLabels(i) => \E m \in Mailbox[AccountOf(i)] : t \in LabelTables(m)
               /\ LET out == ValidateAndRewrite(pol, t, action, i.params)
                  IN  out.accepted /\ out.params = p

\* What gog is run with was judged, all of it and as the client sent it: however
\* long a handler waits for labels or a time zone, nothing comes between the
\* request, the checks it passed and the parameters they leave
\* (broker.go:49-116).
JudgedAsSent ==
  \A r \in Requests :
    /\ pc[r] \in Phases \ Quiet => input[r] \in Inputs
    /\ pc[r] \in Judged \cup {"labels", "fetching"} =>
         AdmissionRefusal(input[r]) = Unanswered
    /\ pc[r] \in {"received", "labels", "fetching", "rewrite", "range"} =>
         params[r] = input[r].params
    /\ pc[r] = "range" =>
         /\ NeedsRange(ActionOf(input[r]))
         /\ ~CalendarRefused(PolicyOf(input[r]).calendar, ActionOf(input[r]), params[r])
    /\ pc[r] = "run" => Accepted(input[r], params[r])

\* While a process lives, the outcome of an account's lookup never changes: all
\* its requests are judged by the same tables, or all fail (broker.go:194-235).
KeepsOutcome ==
  \A a \in Accounts :
    up /\ up' /\ once[a] = "done" =>
      once'[a] = "done" /\ labelErr'[a] = labelErr[a] /\ table'[a] = table[a]

LookupIsFinal == [][KeepsOutcome]_vars

\* The labels a request asks to change.
Changes(i, k) == Range(StringSlice(i.params, k)) \ {Blank}

\* A request to change labels with nothing wrong but, perhaps, the labels.
AsksToChangeLabels(i) ==
  /\ AdmissionRefusal(i) = Unanswered
  /\ ActionOf(i) = "gmail.thread.modify"
  /\ ~IsBlank(Text(i.params, "thread_id"))
  /\ Changes(i, "add") \cup Changes(i, "remove") # {}

\* The policy lists this word or another one for the label it denotes; of two
\* labels with this name the broker may know either, so it lists both.
DenotesListed(mail, w, allowed) ==
  LET named == {l \in DOMAIN mail : mail[l] = w}
  IN  \/ w \in allowed
      \/ w \in DOMAIN mail /\ mail[w] \in allowed
      \/ named # {} /\ named \subseteq allowed

\* The policy lists every label the request changes, by whatever name; a list of
\* blanks needs a list in the policy too.
ChangesListed(i, mail) ==
  LET g == PolicyOf(i).gmail
      ListedIn(k, allowed) ==
        /\ StringSlice(i.params, k) # <<>> => allowed # {}
        /\ \A w \in Changes(i, k) : DenotesListed(mail, w, allowed)
  IN  ListedIn("add", g.add) /\ ListedIn("remove", g.remove)

\* A request is refused only for a label the mailbox really has no allowed word
\* for: neither the spelling (id or name) nor the moment the request arrives
\* (before, during or after the lookup, after a restart) makes a difference
\* (isLabelAllowed, policy.go:406-440, with broker.go:77-84).
AllowedChangesPass ==
  \A r \in Requests :
    answer[r] = "forbidden" /\ AsksToChangeLabels(input[r]) =>
      \E mail \in Mailbox[AccountOf(input[r])] : ~ChangesListed(input[r], mail)

\* gog is started at most once for a request, only while its client waits and its
\* process lives, and the answer is true of it: a request answered bad_request or
\* forbidden has done nothing, one answered ok has run gog unless it only asked
\* what it may do (broker.go:86-136).
RunsOnce ==
  \A r \in Requests :
    /\ ran[r] # NoRun /\ pc'[r] # "idle" => ran'[r] = ran[r]
    /\ ran'[r] # ran[r] /\ pc'[r] # "idle" => up /\ ~gone[r]

AnswerIsTrue ==
  \A r \in Requests :
    /\ answer[r] \in {"bad_request", "forbidden"} => ran[r] = NoRun
    /\ answer[r] = "redaction_error" => ran[r] # NoRun
    /\ answer[r] = "ok" => ran[r] # NoRun \/ ActionOf(input[r]) = "policy.actions"

OneTrueRun == [][RunsOnce /\ AnswerIsTrue']_vars

\* No request is run twice, whatever fails: gog has run for none that may still
\* get to where it is started, it has for every one that waits for its result,
\* and only a finished handler has answered (broker.go:86-136).
RunMatchesPhase ==
  \A r \in Requests :
    /\ pc[r] \in Phases \ (Quiet \cup {"running"}) => ran[r] = NoRun
    /\ pc[r] = "idle" => ran[r] = NoRun
    /\ pc[r] = "running" => ran[r] # NoRun
    /\ pc[r] # "answered" => answer[r] = Unanswered

\* What policy accepts, gog can be run with: no request gets as far as the
\* runner with parameters its command line has no place for (broker.go:86-116).
AcceptedIsRunnable ==
  \A r \in Requests :
    pc[r] = "run" => GogAccepts(RunAction(input[r], params[r]), params[r])

\* The parameters whose contents a policy limits.
LimitedParams == {"add", "remove", "to", "cc", "bcc", "calendar_id", "calendar_ids", "query"}

\* gog keeps the limits of the policy on all of them, whatever the JSON types they
\* come in and whatever the query: direct send goes "only to specific recipients"
\* (docs/install.md:71), to an "allowed email address" (cmd/bootstrap/main.go:81),
\* and max_days is the "Max Gmail query window in days" (cmd/bootstrap/main.go:86).
EveryRunKeepsLimits ==
  \A r \in Requests : ran[r] # NoRun => LimitsOn(input[r], ran[r], LimitedParams)

\* A broker nobody kills answers every request it accepts: the client's help
\* offers calendar.freebusy (cmd/client/main.go:593) with RFC3339 start and end
\* times (cmd/client/main.go:452-453).
NoRequestIsLost == \A r \in Requests : pc[r] # "lost"

-----------------------------------------------------------------------------
\* Nothing outside kills the process.
CalmNext == (\E r \in Requests : Handle(r) \/ Client(r)) \/ Restart

CalmSpec == Init /\ [][CalmNext]_vars

\* Each handler runs as long as it can: the Go scheduler is fair to goroutines,
\* and gog is killed when its timeout ends.  Clients and crashes are not forced.
FairSpec == Spec /\ \A r \in Requests : WF_vars(Handle(r))

\* Every request that reaches the broker is answered, unless the process dies:
\* no request waits for ever for another one's label lookup, whoever hangs up.
EveryRequestEnds == \A r \in Requests : pc[r] = "received" ~> pc[r] \in {"answered", "lost"}

-----------------------------------------------------------------------------
(* The broker keeps the promise of Gatekeeper *)

\* Every behaviour of the broker is one of the gatekeeper: gog acts at most once
\* for a request, within the limits of the account's policy on all that policy
\* and gog read alike (Understood), and the answer is true of what gog did
\* (Handle, broker.go:27-136).
KeepsPromise == Promise!Spec
=============================================================================
