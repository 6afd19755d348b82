------------------------------- MODULE Broker -------------------------------
(***************************************************************************)
(* internal/broker/broker.go: the life of every request in one broker      *)
(* process, from Handle's first check to its answer.                       *)
(*                                                                         *)
(* A handler runs on a goroutine of its own.  It is split where other      *)
(* goroutines can run in between and be noticed: at each run of gog, which *)
(* takes up to its timeout, and around the sync.Once that lets the first   *)
(* label request of an account look its labels up while the others wait.   *)
(* Any client may hang up, which cancels its request's context; the        *)
(* process may die at any moment and be started again.                     *)
(***************************************************************************)
EXTENDS PolicyRules, GogRunner, Deployment

VARIABLES
  up,        \* the process is running
  pc,        \* where the handler of each request is
  input,     \* the request itself
  gone,      \* its context is cancelled: the client has hung up
  params,    \* its parameters, rewritten in place
  ran,       \* the run of gog on behalf of the request
  answer,    \* the code of its response
  once,      \* labelOnce of each account
  labelErr,  \* labelErr of each account
  table,     \* the label maps of each account's policy
  lookups    \* label lookups the process has started for each account

requestVars == <<input, gone, params, ran, answer>>
labelVars == <<once, labelErr, table, lookups>>
vars == <<up, pc, requestVars, labelVars>>

NoInput == [none |-> "input"]
NoRun == [none |-> "run"]
Unanswered == "none"
Codes == {"ok", "bad_request", "forbidden", "upstream_error", "redaction_error"}

Quiet == {"idle", "answered", "lost"}
Judged == {"rewrite", "range", "overflow", "run", "running"}
Phases == Quiet \cup Judged \cup {"received", "labels", "fetching"}

\* The Gmail section of a policy that names labels.
hasAnyLabelConstraints(g) == g.read # {} \/ g.add # {} \/ g.remove # {}

LabelActions ==
  {"gmail.search", "gmail.thread.list", "gmail.labels.get",
   "gmail.labels.modify", "gmail.thread.modify", "gmail.labels.list"}

NeedsLabels(i) ==
  /\ ActionOf(i) \in LabelActions
  /\ hasAnyLabelConstraints(PolicyOf(i).gmail)

Malformed(i) == i.id = "" \/ i.action = ""

\* The tables an account's policy can hold.
Tables(a) == {EmptyTable} \cup UNION {LabelTables(m) : m \in Mailbox[a]}

TypeOK ==
  /\ up \in BOOLEAN
  /\ pc \in [Requests -> Phases]
  /\ input \in [Requests -> Inputs \cup {NoInput}]
  /\ gone \in [Requests -> BOOLEAN]
  /\ DOMAIN params = Requests
  /\ DOMAIN ran = Requests
  /\ answer \in [Requests -> Codes \cup {Unanswered}]
  /\ once \in [Accounts -> {"new", "running", "done"}]
  /\ labelErr \in [Accounts -> {"absent", "nil", "err"}]
  /\ DOMAIN table = Accounts
  /\ \A a \in Accounts : table[a] \in Tables(a)
  /\ lookups \in [Accounts -> Nat]

-----------------------------------------------------------------------------
Init ==
  /\ up = TRUE
  /\ pc = [r \in Requests |-> "idle"]
  /\ input = [r \in Requests |-> NoInput]
  /\ gone = [r \in Requests |-> FALSE]
  /\ params = [r \in Requests |-> NoParams]
  /\ ran = [r \in Requests |-> NoRun]
  /\ answer = [r \in Requests |-> Unanswered]
  /\ once = [a \in Accounts |-> "new"]
  /\ labelErr = [a \in Accounts |-> "absent"]
  /\ table = [a \in Accounts |-> EmptyTable]
  /\ lookups = [a \in Accounts |-> 0]

Go(r, phase) == pc' = [pc EXCEPT ![r] = phase]

Reply(r, code) ==
  /\ Go(r, "answered")
  /\ answer' = [answer EXCEPT ![r] = code]

\* A client sends a request.
Receive(r) ==
  /\ up /\ pc[r] = "idle"
  /\ \E i \in Inputs : /\ input' = [input EXCEPT ![r] = i]
                       /\ params' = [params EXCEPT ![r] = i.params]
  /\ Go(r, "received")
  /\ UNCHANGED <<up, gone, ran, answer, labelVars>>

\* The slot of a request that is over takes another one.
NextRequest(r) ==
  /\ pc[r] \in {"answered", "lost"}
  /\ Go(r, "idle")
  /\ input' = [input EXCEPT ![r] = NoInput]
  /\ gone' = [gone EXCEPT ![r] = FALSE]
  /\ params' = [params EXCEPT ![r] = NoParams]
  /\ ran' = [ran EXCEPT ![r] = NoRun]
  /\ answer' = [answer EXCEPT ![r] = Unanswered]
  /\ UNCHANGED <<up, labelVars>>

\* Faulty: an unknown account is answered with a code nobody knows.
RefusedWithNewCode(i) ==
  IF Malformed(i) THEN "bad_request"
  ELSE IF ~AccountKnown(Policies, i.account, GogAccount) THEN "not_found"
  ELSE IF IsActionAllowed(PolicyOf(i), ActionOf(i)) THEN Unanswered
  ELSE "forbidden"

\* The code of the refusal by the checks Handle makes before it looks at the
\* parameters, Unanswered when there is none.
AdmissionRefusal(i) ==
  IF Malformed(i) \/ AccountRequired(Policies, i.account, GogAccount)
    THEN "bad_request"
  ELSE IF AccountKnown(Policies, i.account, GogAccount)
    THEN IF IsActionAllowed(PolicyOf(i), ActionOf(i)) THEN Unanswered ELSE "forbidden"
  ELSE "forbidden"

Refuse(r) ==
  /\ pc[r] = "received"
  /\ AdmissionRefusal(input[r]) # Unanswered
  /\ Reply(r, AdmissionRefusal(input[r]))
  /\ UNCHANGED <<up, input, gone, params, ran, labelVars>>

Admit(r) ==
  /\ pc[r] = "received"
  /\ AdmissionRefusal(input[r]) = Unanswered
  /\ Go(r, IF NeedsLabels(input[r]) THEN "labels" ELSE "rewrite")
  /\ UNCHANGED <<up, requestVars, labelVars>>

-----------------------------------------------------------------------------
(* ensureLabelMap *)

\* Faulty: a lock in place of the sync.Once, a lookup that starts while another
\* runs.
OnceIdle(a) == once[a] # "running"
OnceNotDone(a) == once[a] # "done"

\* once.Do has yet to run its function.
OnceFree(a) == once[a] = "new"

\* Faulty: the error of a lookup is not kept; waiters are not released.
FinishForgetsError(a, err) ==
  /\ once' = [once EXCEPT ![a] = "done"]
  /\ labelErr' = IF err = "nil" THEN [labelErr EXCEPT ![a] = err] ELSE labelErr
FinishKeepsOnce(a, err) ==
  /\ UNCHANGED once
  /\ labelErr' = [labelErr EXCEPT ![a] = err]

\* The function once.Do runs sets labelErr in the end and returns.
FinishLookup(a, err) ==
  /\ once' = [once EXCEPT ![a] = "done"]
  /\ labelErr' = [labelErr EXCEPT ![a] = err]

\* Faulty: ensureLabelMap returns no error.
NeverFailed(a) == FALSE

\* getLabelErr(account) != nil.
LookupFailed(a) == labelErr[a] = "err"

\* once.Do by the first request of the account: gog is started, unless the
\* context is cancelled already.
EnterOnce(r) ==
  LET a == AccountOf(input[r])
  IN  /\ pc[r] = "labels" /\ OnceFree(a)
      /\ once' = [once EXCEPT ![a] = "running"]
      /\ lookups' = [lookups EXCEPT ![a] = IF gone[r] THEN @ ELSE @ + 1]
      /\ Go(r, "fetching")
      /\ UNCHANGED <<up, requestVars, labelErr, table>>

\* gog reports the labels in time, and there are some.
LabelsArrive(r) ==
  LET a == AccountOf(input[r])
  IN  /\ pc[r] = "fetching" /\ ~gone[r]
      /\ \E m \in Mailbox[a] :
           /\ m # NoLabels
           /\ \E t \in LabelTables(m) : table' = [table EXCEPT ![a] = t]
      /\ FinishLookup(a, "nil")
      /\ Go(r, "labels")
      /\ UNCHANGED <<up, requestVars, lookups>>

\* gog fails, times out, is cancelled with the request that started it, or
\* reports nothing usable; the error is kept.
LabelsFail(r) ==
  LET a == AccountOf(input[r])
  IN  /\ pc[r] = "fetching"
      /\ FinishLookup(a, "err")
      /\ Go(r, "labels")
      /\ UNCHANGED <<up, requestVars, table, lookups>>

\* once.Do returns, to the request that ran it and to those that waited, and
\* getLabelErr tells how it went.
LeaveOnce(r) ==
  LET a == AccountOf(input[r])
  IN  /\ pc[r] = "labels" /\ once[a] = "done"
      /\ IF LookupFailed(a)
           THEN Reply(r, "upstream_error")
           ELSE Go(r, "rewrite") /\ UNCHANGED answer
      /\ UNCHANGED <<up, input, gone, params, ran, labelVars>>

-----------------------------------------------------------------------------
(* ValidateAndRewrite *)

\* The policy's rules, for the actions that need no calendar range.
Rewrite(r) ==
  LET i == input[r]
      out == ValidateAndRewrite(PolicyOf(i), table[AccountOf(i)], ActionOf(i),
                                params[r])
  IN  /\ pc[r] = "rewrite" /\ ~NeedsRange(ActionOf(i))
      /\ \/ ~out.accepted /\ Reply(r, "forbidden") /\ UNCHANGED params
         \/ /\ out.accepted
            /\ params' = [params EXCEPT ![r] = out.params]
            /\ IF ActionOf(i) = "policy.actions"
                 THEN Reply(r, "ok")
                 ELSE Go(r, "run") /\ UNCHANGED answer
      /\ UNCHANGED <<up, input, gone, ran, labelVars>>

\* calendar.events checks its calendar before the range, and both actions
\* check what needs no time zone; then gog is asked for the time zone.
CalendarRefused(c, action, p) ==
  \/ action = "calendar.events" /\ ~CalendarIdAllowed(c, p)
  \/ RangeRefused(c, p, action = "calendar.freebusy")

RewriteCalendar(r) ==
  LET i == input[r]  c == PolicyOf(i).calendar
  IN  /\ pc[r] = "rewrite" /\ NeedsRange(ActionOf(i))
      /\ \/ /\ CalendarRefused(c, ActionOf(i), params[r])
            /\ Reply(r, "forbidden")
         \/ /\ ~CalendarRefused(c, ActionOf(i), params[r])
            /\ Go(r, IF RangeOverflows(c, params[r]) THEN "overflow" ELSE "range")
            /\ UNCHANGED answer
      /\ UNCHANGED <<up, input, gone, params, ran, labelVars>>

\* Faulty: the check of the calendars that waits for the range is forgotten.
RangeResolvedOnly(r) ==
  /\ pc[r] = "range" /\ ~gone[r] /\ RangeReadable(params[r])
  /\ \E hours \in Windows :
       /\ RangeAllowed(PolicyOf(input[r]).calendar, hours)
       /\ params' = [params EXCEPT ![r] = WithRange(params[r], hours)]
  /\ Go(r, "run")
  /\ UNCHANGED <<up, input, gone, ran, answer, labelVars>>

\* The time zone is known and the range fits the policy; calendar.freebusy
\* checks its calendars only now.
RangeResolved(r) ==
  LET i == input[r]  c == PolicyOf(i).calendar
      refused == ActionOf(i) = "calendar.freebusy" /\ ~CalendarIdsAllowed(c, params[r])
  IN  /\ pc[r] = "range" /\ ~gone[r] /\ RangeReadable(params[r])
      /\ \E hours \in Windows :
           /\ RangeAllowed(c, hours)
           /\ params' = [params EXCEPT ![r] = WithRange(params[r], hours)]
      /\ IF refused THEN Reply(r, "forbidden")
         ELSE Go(r, "run") /\ UNCHANGED answer
      /\ UNCHANGED <<up, input, gone, ran, labelVars>>

\* gog does not tell the time zone, or the range is unreadable, reversed or
\* longer than max_days: each is reported as a refusal by the policy.
RangeFails(r) ==
  /\ pc[r] = "range"
  /\ Reply(r, "forbidden")
  /\ UNCHANGED <<up, input, gone, params, ran, labelVars>>

-----------------------------------------------------------------------------
(* The run of gog *)

\* A send the policy does not allow becomes a draft.
RunAction(i, p) ==
  IF ActionOf(i) = "gmail.send" /\ DraftSendRequired(PolicyOf(i).gmail, p)
    THEN "gmail.drafts.create" ELSE ActionOf(i)

\* Faulty: gog runs on, whether its client has hung up or not.
StartsAnyway(r, action) == GogAccepts(action, params[r])

\* The runner builds a command line and starts gog, unless the context is
\* cancelled already.
Starts(r, action) == GogAccepts(action, params[r]) /\ ~gone[r]

RunGog(r) ==
  LET i == input[r]  action == RunAction(i, params[r])
  IN  /\ pc[r] = "run"
      /\ IF ~Starts(r, action)
           THEN Reply(r, "upstream_error") /\ UNCHANGED ran
           ELSE /\ ran' = [ran EXCEPT ![r] =
                     [account |-> RunnerFor(AccountOf(i), normalizeAccount(GogAccount)),
                      action |-> action,
                      args |-> GogArgs(action, params[r])]]
                /\ Go(r, "running")
                /\ UNCHANGED answer
      /\ UNCHANGED <<up, input, gone, params, labelVars>>

\* Actions whose response is refused when it carries labels and none of them
\* is a label the policy lets the agent read.
LabelledResponse(action) ==
  action \in {"gmail.thread.get", "gmail.thread.modify", "gmail.get",
              "gmail.labels.get", "gmail.labels.modify"}

\* gog ends well; Redact filters what it printed or refuses it.
GogSucceeds(r) ==
  LET i == input[r]
  IN  /\ pc[r] = "running" /\ ~gone[r]
      /\ \/ Reply(r, "ok")
         \/ /\ LabelledResponse(ActionOf(i)) /\ PolicyOf(i).gmail.read # {}
            /\ Reply(r, "redaction_error")
      /\ UNCHANGED <<up, input, gone, params, ran, labelVars>>

\* Faulty: a run that fails is tried again.
GogIsTriedAgain(r) ==
  /\ pc[r] = "running"
  /\ Go(r, "run")
  /\ UNCHANGED <<up, requestVars, labelVars>>

\* gog fails, is killed when its timeout ends or its client hangs up, or prints
\* no JSON, though it may have done what it was asked to.
GogFails(r) ==
  /\ pc[r] = "running"
  /\ Reply(r, "upstream_error")
  /\ UNCHANGED <<up, input, gone, params, ran, labelVars>>

-----------------------------------------------------------------------------
(* What happens to a broker *)

\* The client closes its connection, or stops waiting.
ClientGone(r) ==
  /\ pc[r] \notin Quiet /\ ~gone[r]
  /\ gone' = [gone EXCEPT ![r] = TRUE]
  /\ UNCHANGED <<up, pc, input, params, ran, answer, labelVars>>

\* The process dies with every request it was handling.
Die ==
  /\ up' = FALSE
  /\ pc' = [r \in Requests |-> IF pc[r] \in Quiet THEN pc[r] ELSE "lost"]
  /\ UNCHANGED <<requestVars, labelVars>>

\* cleanupTimeParams has filled the stack.
Overflow(r) == pc[r] = "overflow" /\ Die

Crash == up /\ Die

\* A new process knows nothing of the labels the old one had looked up.
Restart ==
  /\ ~up /\ up' = TRUE
  /\ once' = [a \in Accounts |-> "new"]
  /\ labelErr' = [a \in Accounts |-> "absent"]
  /\ table' = [a \in Accounts |-> EmptyTable]
  /\ lookups' = [a \in Accounts |-> 0]
  /\ UNCHANGED <<pc, requestVars>>

-----------------------------------------------------------------------------
\* What the handler of a request does by itself.
Handle(r) ==
  \/ Refuse(r) \/ Admit(r)
  \/ EnterOnce(r) \/ LabelsArrive(r) \/ LabelsFail(r) \/ LeaveOnce(r)
  \/ Rewrite(r) \/ RewriteCalendar(r) \/ RangeResolved(r) \/ RangeFails(r)
  \/ RunGog(r) \/ GogSucceeds(r) \/ GogFails(r)
  \/ Overflow(r)

Client(r) == Receive(r) \/ ClientGone(r) \/ NextRequest(r)

Next == (\E r \in Requests : Handle(r) \/ Client(r)) \/ Crash \/ Restart

Spec == Init /\ [][Next]_vars
=============================================================================
