---------------------------- MODULE BrokerProofs ----------------------------
(***************************************************************************)
(* internal/broker, for every set of requests, policy file and mailbox:    *)
(* the label lookup, the one run of a request, and the promise.            *)
(***************************************************************************)
EXTENDS BrokerProperties, PolicyProofs

\* Every refusal of Handle before it looks at the parameters has a code
\* (broker.go:49-76).
LEMMA RefusalIsCode ==
  ASSUME NEW i
  PROVE  AdmissionRefusal(i) \in {"bad_request", "forbidden", Unanswered}
BY DEF AdmissionRefusal, Unanswered

\* A request that is admitted has an account the policy set knows
\* (broker.go:62-76).
LEMMA AdmittedAccount ==
  ASSUME NEW i, AdmissionRefusal(i) = Unanswered
  PROVE  AccountOf(i) \in Accounts
<1>1. ~Malformed(i)
  BY DEF AdmissionRefusal, Unanswered
<1>2. ~AccountRequired(Policies, i.account, GogAccount)
  BY <1>1 DEF AdmissionRefusal, Unanswered
<1>3. AccountKnown(Policies, i.account, GogAccount)
  BY <1>1, <1>2 DEF AdmissionRefusal, Unanswered
<1> QED
  BY <1>3 DEF AccountKnown, AccountOf, Accounts

\* The phases and codes are what TypeOK says.
LEMMA ReplyTypes ==
  ASSUME TypeOK, NEW r \in Requests, NEW code \in Codes \cup {Unanswered}, Reply(r, code)
  PROVE  /\ pc' \in [Requests -> Phases]
         /\ answer' \in [Requests -> Codes \cup {Unanswered}]
BY DEF Reply, Go, TypeOK, Phases, Quiet

LEMMA GoTypes ==
  ASSUME TypeOK, NEW r \in Requests, NEW phase \in Phases, Go(r, phase)
  PROVE  pc' \in [Requests -> Phases]
BY DEF Go, TypeOK

\* Each step of a handler keeps the types.
LEMMA HandleKeepsTypes ==
  ASSUME TypeOK, NEW r \in Requests, Handle(r)
  PROVE  TypeOK'
<1> USE DEF requestVars, labelVars
<1>0. /\ {"answered", "lost", "idle", "received", "labels", "fetching", "rewrite",
          "range", "overflow", "run", "running"} \subseteq Phases
      /\ {"ok", "bad_request", "forbidden", "upstream_error", "redaction_error"}
           \subseteq Codes \cup {Unanswered}
  BY DEF Phases, Quiet, Judged, Codes
<1>1. CASE Refuse(r)
  <2>1. AdmissionRefusal(input[r]) \in Codes \cup {Unanswered}
    BY RefusalIsCode DEF Codes
  <2> QED
    BY <1>1, <2>1, ReplyTypes DEF Refuse, TypeOK
<1>2. CASE Admit(r)
  BY <1>0, <1>2, GoTypes DEF Admit, TypeOK
<1>3. CASE EnterOnce(r)
  <2> DEFINE a == AccountOf(input[r])
  <2>1. once' = [once EXCEPT ![a] = "running"] /\ Go(r, "fetching")
    BY <1>3 DEF EnterOnce
  <2>2. /\ lookups' = [lookups EXCEPT ![a] = IF gone[r] THEN @ ELSE @ + 1]
        /\ UNCHANGED <<up, requestVars, labelErr, table>>
    BY <1>3 DEF EnterOnce
  <2>3. lookups' \in [Accounts -> Nat]
    <3>1. lookups \in [Accounts -> Nat]
      BY DEF TypeOK
    <3> DEFINE n == IF gone[r] THEN lookups[a] ELSE lookups[a] + 1
    <3>2. a \in Accounts => n \in Nat
      BY <3>1
    <3>3. lookups' = [lookups EXCEPT ![a] = n]
      BY <2>2
    <3> HIDE DEF n
    <3> QED
      BY <3>1, <3>2, <3>3
  <2>4. once' \in [Accounts -> {"new", "running", "done"}]
    BY <2>1 DEF TypeOK
  <2>5. pc' \in [Requests -> Phases]
    BY <1>0, <2>1, GoTypes
  <2> QED
    BY <2>2, <2>3, <2>4, <2>5 DEF TypeOK
<1>4. CASE LabelsArrive(r)
  <2> DEFINE a == AccountOf(input[r])
  <2>1. PICK m \in Mailbox[a] : \E t \in LabelTables(m) : table' = [table EXCEPT ![a] = t]
    BY <1>4 DEF LabelsArrive
  <2>2. PICK t \in LabelTables(m) : table' = [table EXCEPT ![a] = t]
    BY <2>1
  <2>3. DOMAIN table' = Accounts /\ \A b \in Accounts : table'[b] \in Tables(b)
    <3>1. t \in Tables(a)
      BY <2>1, <2>2 DEF Tables
    <3> QED
      BY <2>2, <3>1 DEF TypeOK
  <2> QED
    BY <1>0, <1>4, <2>3, GoTypes DEF LabelsArrive, FinishLookup, TypeOK
<1>5. CASE LabelsFail(r)
  BY <1>0, <1>5, GoTypes DEF LabelsFail, FinishLookup, TypeOK
<1>6. CASE LeaveOnce(r)
  BY <1>0, <1>6, GoTypes, ReplyTypes DEF LeaveOnce, TypeOK
<1>7. CASE Rewrite(r)
  <2>1. DOMAIN params' = Requests
    BY <1>7 DEF Rewrite, TypeOK
  <2>2. /\ pc' \in [Requests -> Phases]
        /\ answer' \in [Requests -> Codes \cup {Unanswered}]
    BY <1>0, <1>7, GoTypes, ReplyTypes DEF Rewrite, TypeOK
  <2> QED
    BY <1>7, <2>1, <2>2 DEF Rewrite, TypeOK
<1>8. CASE RewriteCalendar(r)
  BY <1>0, <1>8, GoTypes, ReplyTypes DEF RewriteCalendar, TypeOK
<1>9. CASE RangeResolved(r)
  <2>1. DOMAIN params' = Requests
    BY <1>9 DEF RangeResolved, TypeOK
  <2>2. /\ pc' \in [Requests -> Phases]
        /\ answer' \in [Requests -> Codes \cup {Unanswered}]
    BY <1>0, <1>9, GoTypes, ReplyTypes DEF RangeResolved, TypeOK
  <2> QED
    BY <1>9, <2>1, <2>2 DEF RangeResolved, TypeOK
<1>10. CASE RangeFails(r)
  BY <1>0, <1>10, ReplyTypes DEF RangeFails, TypeOK
<1>11. CASE RunGog(r)
  <2>1. DOMAIN ran' = Requests
    BY <1>11 DEF RunGog, TypeOK
  <2>2. /\ pc' \in [Requests -> Phases]
        /\ answer' \in [Requests -> Codes \cup {Unanswered}]
    BY <1>0, <1>11, GoTypes, ReplyTypes DEF RunGog, TypeOK
  <2> QED
    BY <1>11, <2>1, <2>2 DEF RunGog, TypeOK
<1>12. CASE GogSucceeds(r)
  BY <1>0, <1>12, ReplyTypes DEF GogSucceeds, TypeOK
<1>13. CASE GogFails(r)
  BY <1>0, <1>13, ReplyTypes DEF GogFails, TypeOK
<1>14. CASE Overflow(r)
  BY <1>0, <1>14 DEF Overflow, Die, TypeOK
<1> QED
  BY <1>1, <1>2, <1>3, <1>4, <1>5, <1>6, <1>7, <1>8, <1>9, <1>10, <1>11, <1>12,
     <1>13, <1>14 DEF Handle

LEMMA ClientKeepsTypes ==
  ASSUME TypeOK, NEW r \in Requests, Client(r)
  PROVE  TypeOK'
<1> USE DEF requestVars, labelVars
<1>0. {"idle", "received"} \subseteq Phases
  BY DEF Phases, Quiet
<1>1. CASE Receive(r)
  <2>1. PICK i \in Inputs : /\ input' = [input EXCEPT ![r] = i]
                            /\ params' = [params EXCEPT ![r] = i.params]
    BY <1>1 DEF Receive
  <2> QED
    BY <1>0, <1>1, <2>1, GoTypes DEF Receive, TypeOK
<1>2. CASE ClientGone(r)
  BY <1>2 DEF ClientGone, TypeOK
<1>3. CASE NextRequest(r)
  BY <1>0, <1>3, GoTypes DEF NextRequest, TypeOK
<1> QED
  BY <1>1, <1>2, <1>3 DEF Client

LEMMA DieKeepsTypes ==
  ASSUME TypeOK, Die
  PROVE  TypeOK'
<1>1. "lost" \in Phases
  BY DEF Phases, Quiet
<1> QED
  BY <1>1 DEF Die, TypeOK, requestVars, labelVars

LEMMA RestartKeepsTypes ==
  ASSUME TypeOK, Restart
  PROVE  TypeOK'
<1>1. \A a \in Accounts : EmptyTable \in Tables(a)
  BY DEF Tables
<1> QED
  BY <1>1 DEF Restart, TypeOK, requestVars

\* Type correctness: no step of a handler, a client or the process leaves the
\* phases, codes and per-account caches the code has (broker.go:16-25).
THEOREM TypeCorrect == Spec => []TypeOK
<1>1. Init => TypeOK
  <2> SUFFICES ASSUME Init PROVE TypeOK
    OBVIOUS
  <2>1. "idle" \in Phases /\ \A a \in Accounts : EmptyTable \in Tables(a)
    BY DEF Phases, Quiet, Tables
  <2> QED
    BY <2>1 DEF Init, TypeOK
<1>2. TypeOK /\ [Next]_vars => TypeOK'
  <2> SUFFICES ASSUME TypeOK, [Next]_vars PROVE TypeOK'
    OBVIOUS
  <2>1. CASE \E r \in Requests : Handle(r) \/ Client(r)
    BY <2>1, HandleKeepsTypes, ClientKeepsTypes
  <2>2. CASE Crash
    BY <2>2, DieKeepsTypes DEF Crash
  <2>3. CASE Restart
    BY <2>3, RestartKeepsTypes
  <2>4. CASE UNCHANGED vars
    BY <2>4 DEF vars, requestVars, labelVars, TypeOK, Tables
  <2> QED
    BY <2>1, <2>2, <2>3, <2>4 DEF Next
<1> QED
  BY <1>1, <1>2, PTL DEF Spec

-----------------------------------------------------------------------------
(* The lookup of labels *)

\* A step that moves one handler, and neither into nor out of the lookup, keeps
\* the discipline when the handler ends up where its request may be.
LEMMA MoveKeepsDiscipline ==
  ASSUME LookupDiscipline, TypeOK', NEW r \in Requests, NEW q \in Phases, Go(r, q),
         UNCHANGED <<up, once, labelErr, table, lookups>>,
         \A s \in Requests : s # r => input'[s] = input[s],
         pc[r] # "fetching", q # "fetching",
         q \in Quiet \/ up,
         q \in Judged \cup {"labels"} => AccountOf(input'[r]) \in Accounts,
         q \in Judged /\ NeedsLabels(input'[r]) => Settled(AccountOf(input'[r]))
  PROVE  LookupDiscipline'
<1>1. /\ pc'[r] = q
      /\ \A s \in Requests : s # r => pc'[s] = pc[s] /\ input'[s] = input[s]
  BY DEF Go, LookupDiscipline, TypeOK
<1>2. \A s \in Requests, a \in Accounts : Fetching(s, a)' <=> Fetching(s, a)
  BY <1>1 DEF Fetching
<1>3. AdmittedHaveAccount'
  BY <1>1 DEF LookupDiscipline, AdmittedHaveAccount
<1>4. OnceHasRunner'
  BY <1>2 DEF LookupDiscipline, OnceHasRunner
<1>5. \A a : Settled(a)' <=> Settled(a)
  BY DEF Settled, Reported
<1>6. OutcomeKept'
  BY <1>5 DEF LookupDiscipline, OutcomeKept
<1>7. NoHandlerOutlives'
  BY <1>1 DEF LookupDiscipline, NoHandlerOutlives
<1>8. SingleLookup'
  BY <1>2 DEF LookupDiscipline, SingleLookup
<1>9. LabelsKnown'
  BY <1>1, <1>5 DEF LookupDiscipline, LabelsKnown
<1> QED
  BY <1>3, <1>4, <1>6, <1>7, <1>8, <1>9 DEF LookupDiscipline

\* Outside the lookup a handler only moves: an admitted request goes past its
\* lookup with what that has settled.
LEMMA HandlerKeepsDiscipline ==
  ASSUME LookupDiscipline, TypeOK', NEW r \in Requests,
         \/ Refuse(r) \/ Admit(r) \/ LeaveOnce(r) \/ Rewrite(r)
         \/ RewriteCalendar(r) \/ RangeResolved(r) \/ RangeFails(r)
         \/ RunGog(r) \/ GogSucceeds(r) \/ GogFails(r)
  PROVE  LookupDiscipline'
<1> DEFINE
      Framed == UNCHANGED <<up, once, labelErr, table, lookups>> /\ input' = input
      Refused == Go(r, "answered")
      Admitted == /\ pc[r] = "received" /\ AdmissionRefusal(input[r]) = Unanswered
                  /\ Go(r, "labels") \/ (~NeedsLabels(input[r]) /\ Go(r, "rewrite"))
      Served == /\ pc[r] = "labels" /\ once[AccountOf(input[r])] = "done"
                /\ labelErr[AccountOf(input[r])] # "err" /\ Go(r, "rewrite")
      Moved == pc[r] \in Judged /\ \E q \in Judged : Go(r, q)
      Before == pc[r] \in Judged \cup {"received", "labels"}
      Goal == Framed /\ Before /\ (Refused \/ Admitted \/ Served \/ Moved)
<1>1. Goal
  <2> USE DEF Judged, Reply, requestVars, labelVars
  <2>1. Refuse(r) => Goal
    BY DEF Refuse
  <2>2. Admit(r) => Goal
    BY DEF Admit
  <2>3. LeaveOnce(r) => Goal
    BY DEF LeaveOnce, LookupFailed
  <2>4. Rewrite(r) => Goal
    BY DEF Rewrite
  <2>5. RewriteCalendar(r) => Goal
    BY DEF RewriteCalendar
  <2>6. RangeResolved(r) => Goal
    BY DEF RangeResolved
  <2>7. RangeFails(r) => Goal
    BY DEF RangeFails
  <2>8. RunGog(r) => Goal
    BY DEF RunGog, Starts
  <2>9. GogSucceeds(r) => Goal
    BY DEF GogSucceeds
  <2>10. GogFails(r) => Goal
    BY DEF GogFails
  <2> QED
    BY <2>1, <2>2, <2>3, <2>4, <2>5, <2>6, <2>7, <2>8, <2>9, <2>10
<1>2. up
  BY <1>1 DEF LookupDiscipline, NoHandlerOutlives, Quiet, Judged, TypeOK
<1>4. CASE Refused
  BY <1>1, <1>4, MoveKeepsDiscipline DEF Phases, Quiet, Judged
<1>5. CASE Admitted
  <2>1. AccountOf(input[r]) \in Accounts
    BY <1>5, AdmittedAccount
  <2> QED
    BY <1>1, <1>2, <1>5, <2>1, MoveKeepsDiscipline DEF Phases, Quiet, Judged
<1>6. CASE Served
  <2>1. AccountOf(input[r]) \in Accounts
    BY <1>6 DEF LookupDiscipline, AdmittedHaveAccount
  <2>2. Settled(AccountOf(input[r]))
    BY <1>6, <2>1 DEF LookupDiscipline, OutcomeKept
  <2> QED
    BY <1>1, <1>2, <1>6, <2>1, <2>2, MoveKeepsDiscipline DEF Phases, Quiet, Judged
<1>7. CASE Moved
  <2>1. PICK q \in Judged : Go(r, q)
    BY <1>7
  <2>2. /\ AccountOf(input[r]) \in Accounts
        /\ NeedsLabels(input[r]) => Settled(AccountOf(input[r]))
    BY <1>7 DEF LookupDiscipline, AdmittedHaveAccount, LabelsKnown
  <2>3. q \in Phases /\ q # "fetching" /\ pc[r] # "fetching"
    BY <1>7 DEF Phases, Judged
  <2> QED
    BY <1>1, <1>2, <2>1, <2>2, <2>3, MoveKeepsDiscipline
<1> QED
  BY <1>1, <1>4, <1>5, <1>6, <1>7

\* A client's steps touch no request past its admission.
LEMMA ClientKeepsDiscipline ==
  ASSUME LookupDiscipline, TypeOK', NEW r \in Requests, Client(r)
  PROVE  LookupDiscipline'
<1>1. CASE Receive(r)
  <2>1. PICK i \in Inputs : input' = [input EXCEPT ![r] = i]
    BY <1>1 DEF Receive
  <2>2. \A s \in Requests : s # r => input'[s] = input[s]
    BY <2>1 DEF LookupDiscipline, TypeOK
  <2> QED
    BY <1>1, <2>2, MoveKeepsDiscipline
       DEF Receive, labelVars, Phases, Quiet, Judged
<1>2. CASE NextRequest(r)
  <2>1. \A s \in Requests : s # r => input'[s] = input[s]
    BY <1>2 DEF NextRequest, LookupDiscipline, TypeOK
  <2> QED
    BY <1>2, <2>1, MoveKeepsDiscipline
       DEF NextRequest, labelVars, Phases, Quiet, Judged
<1>3. CASE ClientGone(r)
  <2>1. /\ UNCHANGED <<up, pc, input, once, labelErr, table, lookups>>
    BY <1>3 DEF ClientGone, labelVars
  <2> QED
    BY <2>1 DEF LookupDiscipline, AdmittedHaveAccount, OnceHasRunner, Fetching,
                OutcomeKept, Settled, Reported, NoHandlerOutlives, SingleLookup,
                LabelsKnown
<1> QED
  BY <1>1, <1>2, <1>3 DEF Client

\* The request that enters once.Do finds nobody in it, and nobody follows.
LEMMA EnterKeepsDiscipline ==
  ASSUME LookupDiscipline, TypeOK', NEW r \in Requests, EnterOnce(r)
  PROVE  LookupDiscipline'
<1> DEFINE a == AccountOf(input[r])
<1>1. /\ pc[r] = "labels" /\ once[a] = "new" /\ pc' = [pc EXCEPT ![r] = "fetching"]
      /\ once' = [once EXCEPT ![a] = "running"]
      /\ lookups' = [lookups EXCEPT ![a] = IF gone[r] THEN @ ELSE @ + 1]
      /\ UNCHANGED <<up, input, labelErr, table>>
  BY DEF EnterOnce, OnceFree, Go, requestVars
<1>2. a \in Accounts
  BY <1>1 DEF LookupDiscipline, AdmittedHaveAccount
<1>3. up
  BY <1>1 DEF LookupDiscipline, NoHandlerOutlives, Quiet, TypeOK
<1>4. /\ pc'[r] = "fetching" /\ \A s \in Requests : s # r => pc'[s] = pc[s]
      /\ once'[a] = "running" /\ \A b \in Accounts : b # a => once'[b] = once[b]
  BY <1>1, <1>2 DEF LookupDiscipline, TypeOK
<1>5. \A s \in Requests : ~Fetching(s, a)
  BY <1>1, <1>2, <1>3 DEF LookupDiscipline, OnceHasRunner
<1>6. \A s \in Requests, b \in Accounts :
        Fetching(s, b)' <=> (Fetching(s, b) \/ (s = r /\ b = a))
  BY <1>1, <1>4 DEF Fetching
<1>7. \A b : Settled(b)' /\ b # a <=> Settled(b) /\ b # a
  <2>1. \A b : b # a => once'[b] = once[b]
    BY <1>1, <1>2 DEF LookupDiscipline, TypeOK
  <2> QED
    BY <1>1, <2>1 DEF Settled, Reported
<1>8. /\ lookups'[a] \in {0, 1}
      /\ \A b \in Accounts : b # a => lookups'[b] = lookups[b]
  <2>1. lookups[a] = 0
    BY <1>1, <1>2 DEF LookupDiscipline, OutcomeKept
  <2> DEFINE n == IF gone[r] THEN lookups[a] ELSE lookups[a] + 1
  <2>2. n \in {0, 1}
    BY <2>1
  <2>3. lookups' = [lookups EXCEPT ![a] = n]
    BY <1>1
  <2> HIDE DEF n
  <2> QED
    BY <1>2, <2>2, <2>3 DEF LookupDiscipline, TypeOK
<1>9. AdmittedHaveAccount'
  BY <1>1, <1>2, <1>4 DEF LookupDiscipline, AdmittedHaveAccount
<1>10. OnceHasRunner'
  BY <1>1, <1>4, <1>5, <1>6 DEF LookupDiscipline, OnceHasRunner
<1>11. labelErr[a] # "nil"
  BY <1>1, <1>2 DEF LookupDiscipline, OutcomeKept, Settled
<1>12. OutcomeKept'
  BY <1>1, <1>4, <1>7, <1>8, <1>11 DEF LookupDiscipline, OutcomeKept
<1>13. NoHandlerOutlives'
  BY <1>1, <1>3 DEF NoHandlerOutlives
<1>14. SingleLookup'
  <2>1. \A b \in Accounts : lookups'[b] <= 1
    BY <1>8 DEF LookupDiscipline, SingleLookup
  <2>2. \A r1, r2 \in Requests, b \in Accounts :
          Fetching(r1, b)' /\ Fetching(r2, b)' => r1 = r2
    BY <1>5, <1>6 DEF LookupDiscipline, SingleLookup
  <2> QED
    BY <2>1, <2>2 DEF SingleLookup
<1>15. LabelsKnown'
  <2>1. ~Settled(a)
    BY <1>1 DEF Settled
  <2>2. \A s \in Requests : pc'[s] \in Judged => s # r
    BY <1>4 DEF Judged
  <2> QED
    BY <1>1, <1>4, <1>7, <2>1, <2>2 DEF LookupDiscipline, LabelsKnown
<1> QED
  BY <1>9, <1>10, <1>12, <1>13, <1>14, <1>15 DEF LookupDiscipline

\* The request in once.Do leaves an error, or tables that gog reported.
LEMMA LookupEndKeepsDiscipline ==
  ASSUME LookupDiscipline, TypeOK', NEW r \in Requests, LabelsArrive(r) \/ LabelsFail(r)
  PROVE  LookupDiscipline'
<1> DEFINE a == AccountOf(input[r])
<1>1. /\ pc[r] = "fetching" /\ pc' = [pc EXCEPT ![r] = "labels"]
      /\ once' = [once EXCEPT ![a] = "done"]
      /\ UNCHANGED <<up, input, lookups>>
  BY DEF LabelsArrive, LabelsFail, FinishLookup, Go, requestVars
<1>2. a \in Accounts
  BY <1>1 DEF LookupDiscipline, AdmittedHaveAccount
<1>3. up /\ Fetching(r, a)
  BY <1>1 DEF LookupDiscipline, NoHandlerOutlives, Quiet, Fetching
<1>4. /\ pc'[r] = "labels" /\ \A s \in Requests : s # r => pc'[s] = pc[s]
      /\ once'[a] = "done" /\ \A b \in Accounts : b # a => once'[b] = once[b]
  BY <1>1, <1>2 DEF LookupDiscipline, TypeOK
<1>5. once[a] = "running"
  BY <1>2, <1>3 DEF LookupDiscipline, OnceHasRunner
<1>6. /\ labelErr'[a] = "err" \/ (labelErr'[a] = "nil" /\ Reported(a, table'[a]))
      /\ \A b \in Accounts : b # a => labelErr'[b] = labelErr[b] /\ table'[b] = table[b]
  <2>1. CASE LabelsArrive(r)
    <3>1. PICK m \in Mailbox[a] :
            m # NoLabels /\ \E t \in LabelTables(m) : table' = [table EXCEPT ![a] = t]
      BY <2>1 DEF LabelsArrive
    <3>2. PICK t \in LabelTables(m) : table' = [table EXCEPT ![a] = t]
      BY <3>1
    <3>3. table'[a] = t /\ \A b \in Accounts : b # a => table'[b] = table[b]
      BY <1>2, <3>2 DEF LookupDiscipline, TypeOK
    <3>4. labelErr'[a] = "nil" /\ \A b \in Accounts : b # a => labelErr'[b] = labelErr[b]
      BY <1>2, <2>1 DEF LabelsArrive, FinishLookup, LookupDiscipline, TypeOK
    <3> QED
      BY <3>1, <3>2, <3>3, <3>4 DEF Reported
  <2>2. CASE LabelsFail(r)
    BY <1>2, <2>2 DEF LabelsFail, FinishLookup, LookupDiscipline, TypeOK
  <2> QED
    BY <2>1, <2>2
<1>7. \A s \in Requests, b \in Accounts :
        Fetching(s, b)' <=> (Fetching(s, b) /\ s # r)
  BY <1>1, <1>4 DEF Fetching
<1>8. \A s \in Requests : Fetching(s, a) => s = r
  BY <1>2, <1>3 DEF LookupDiscipline, SingleLookup
<1>9. \A b \in Accounts : Settled(b) => Settled(b)'
  BY <1>4, <1>5, <1>6 DEF Settled, Reported
<1>10. AdmittedHaveAccount'
  BY <1>1, <1>2, <1>4 DEF LookupDiscipline, AdmittedHaveAccount
<1>11. OnceHasRunner'
  <2>1. \A b \in Accounts : b # a =>
          ((\E s \in Requests : Fetching(s, b)') <=> \E s \in Requests : Fetching(s, b))
    BY <1>7, <1>1 DEF Fetching
  <2>2. \A b \in Accounts : b = a => ~\E s \in Requests : Fetching(s, b)'
    BY <1>7, <1>8
  <2>3. \A b \in Accounts : once'[b] = "running" <=> \E s \in Requests : Fetching(s, b)'
    BY <1>3, <1>4, <2>1, <2>2 DEF LookupDiscipline, OnceHasRunner
  <2> QED
    BY <2>3 DEF OnceHasRunner
<1>12. OutcomeKept'
  <2>1. \A b \in Accounts : b = a /\ labelErr'[b] = "nil" => Settled(b)'
    BY <1>4, <1>6 DEF Settled, Reported
  <2> QED
    BY <1>1, <1>4, <1>6, <1>9, <2>1 DEF LookupDiscipline, OutcomeKept
<1>13. NoHandlerOutlives'
  BY <1>1, <1>3 DEF NoHandlerOutlives
<1>14. SingleLookup'
  BY <1>1, <1>7 DEF LookupDiscipline, SingleLookup
<1>15. LabelsKnown'
  <2>1. \A s \in Requests : pc'[s] \in Judged =>
          pc[s] \in Judged /\ AccountOf(input[s]) \in Accounts
    BY <1>4 DEF Judged, LookupDiscipline, AdmittedHaveAccount
  <2> QED
    BY <1>1, <1>9, <2>1 DEF LookupDiscipline, LabelsKnown
<1> QED
  BY <1>10, <1>11, <1>12, <1>13, <1>14, <1>15 DEF LookupDiscipline

\* A process that dies leaves no handler, and a new one starts with no labels.
LEMMA ProcessKeepsDiscipline ==
  ASSUME LookupDiscipline, TypeOK', Die \/ Restart
  PROVE  LookupDiscipline'
<1>1. CASE Die
  <2>1. ~up' /\ UNCHANGED <<input, once, labelErr, table, lookups>>
    BY <1>1 DEF Die, requestVars, labelVars
  <2>2. \A s \in Requests : pc'[s] \in Quiet
    BY <1>1 DEF Die, Quiet
  <2>3. \A s \in Requests : pc'[s] \notin Judged \cup {"labels", "fetching"}
    BY <2>2 DEF Quiet, Judged
  <2> QED
    BY <2>1, <2>2, <2>3
       DEF LookupDiscipline, AdmittedHaveAccount, OnceHasRunner, Fetching, OutcomeKept,
           Settled, Reported, NoHandlerOutlives, SingleLookup, LabelsKnown
<1>2. CASE Restart
  <2>1. \A s \in Requests : pc'[s] \in Quiet
    BY <1>2 DEF Restart, LookupDiscipline, NoHandlerOutlives
  <2>2. \A s \in Requests : pc'[s] \notin Judged \cup {"labels", "fetching"}
    BY <2>1 DEF Quiet, Judged
  <2>3. up' /\ \A b \in Accounts : /\ once'[b] = "new" /\ labelErr'[b] = "absent"
                                   /\ lookups'[b] = 0
    BY <1>2 DEF Restart
  <2> QED
    BY <2>2, <2>3
       DEF LookupDiscipline, AdmittedHaveAccount, OnceHasRunner, Fetching, OutcomeKept,
           NoHandlerOutlives, SingleLookup, LabelsKnown
<1> QED
  BY <1>1, <1>2

\* A handler's steps keep the discipline.
LEMMA HandleKeepsDiscipline ==
  ASSUME LookupDiscipline, TypeOK', NEW r \in Requests, Handle(r)
  PROVE  LookupDiscipline'
BY HandlerKeepsDiscipline, EnterKeepsDiscipline, LookupEndKeepsDiscipline,
   ProcessKeepsDiscipline DEF Handle, Overflow

\* The invariant behind the label properties: once.Do has one runner, its
\* outcome is an error or reported tables, and who is judged on labels is
\* judged on those (broker.go:77-86 and 185-236).
THEOREM LookupIsDisciplined == Spec => []LookupDiscipline
<1>1. Init => LookupDiscipline
  <2> SUFFICES ASSUME Init PROVE LookupDiscipline
    OBVIOUS
  <2>1. TypeOK
    <3>1. "idle" \in Phases /\ \A a \in Accounts : EmptyTable \in Tables(a)
      BY DEF Phases, Quiet, Tables
    <3> QED
      BY <3>1 DEF Init, TypeOK
  <2>2. \A r \in Requests : pc[r] = "idle"
    BY DEF Init
  <2>3. \A a \in Accounts : once[a] = "new" /\ labelErr[a] = "absent" /\ lookups[a] = 0
    BY DEF Init
  <2>4. up
    BY DEF Init
  <2> QED
    BY <2>1, <2>2, <2>3, <2>4
       DEF LookupDiscipline, AdmittedHaveAccount, OnceHasRunner, Fetching, OutcomeKept,
           NoHandlerOutlives, SingleLookup, LabelsKnown, Judged
<1>2. LookupDiscipline /\ TypeOK' /\ [Next]_vars => LookupDiscipline'
  <2> SUFFICES ASSUME LookupDiscipline, TypeOK', [Next]_vars PROVE LookupDiscipline'
    OBVIOUS
  <2>1. CASE \E r \in Requests : Handle(r) \/ Client(r)
    BY <2>1, HandleKeepsDiscipline, ClientKeepsDiscipline
  <2>2. CASE Crash \/ Restart
    BY <2>2, ProcessKeepsDiscipline DEF Crash
  <2>3. CASE UNCHANGED vars
    BY <2>3 DEF vars, requestVars, labelVars, LookupDiscipline, AdmittedHaveAccount,
                OnceHasRunner, Fetching, OutcomeKept, Settled, Reported,
                NoHandlerOutlives, SingleLookup, LabelsKnown
  <2> QED
    BY <2>1, <2>2, <2>3 DEF Next
<1> QED
  BY <1>1, <1>2, TypeCorrect, PTL DEF Spec

\* No request that depends on labels is judged before they are known
\* (broker.go:77-86).
THEOREM LabelsKnownAlways == Spec => []LabelsKnown
<1>1. LookupDiscipline => LabelsKnown
  BY DEF LookupDiscipline
<1> QED
  BY <1>1, LookupIsDisciplined, PTL

\* A process asks gog for an account's labels at most once, and one request at
\* a time does (broker.go:194).
THEOREM SingleLookupAlways == Spec => []SingleLookup
<1>1. LookupDiscipline => SingleLookup
  BY DEF LookupDiscipline
<1> QED
  BY <1>1, LookupIsDisciplined, PTL

\* A lookup that is over stays as it is while the process lives
\* (broker.go:194-235).
THEOREM LookupFinalAlways == Spec => LookupIsFinal
<1>1. LookupDiscipline /\ [Next]_vars => [KeepsOutcome]_vars
  <2> SUFFICES ASSUME LookupDiscipline, [Next]_vars, NEW a \in Accounts,
                      up, up', once[a] = "done"
               PROVE  once'[a] = "done" /\ labelErr'[a] = labelErr[a] /\ table'[a] = table[a]
    BY DEF KeepsOutcome
  <2> USE DEF requestVars, labelVars
  <2>1. ASSUME NEW r \in Requests, EnterOnce(r)
        PROVE  UNCHANGED <<labelErr, table>> /\ once'[a] = once[a]
    <3>1. AccountOf(input[r]) # a
      BY <2>1 DEF EnterOnce, OnceFree
    <3> QED
      BY <2>1, <3>1 DEF EnterOnce, LookupDiscipline, TypeOK
  <2>2. ASSUME NEW r \in Requests, LabelsArrive(r) \/ LabelsFail(r)
        PROVE  once'[a] = once[a] /\ labelErr'[a] = labelErr[a] /\ table'[a] = table[a]
    <3>1. AccountOf(input[r]) # a
      BY <2>2 DEF LabelsArrive, LabelsFail, FinishLookup, LookupDiscipline, AdmittedHaveAccount,
                  OnceHasRunner, Fetching
    <3> QED
      BY <2>2, <3>1 DEF LabelsArrive, LabelsFail, FinishLookup, LookupDiscipline, TypeOK
  <2>3. ASSUME NEW r \in Requests, Handle(r) \/ Client(r),
               ~EnterOnce(r), ~LabelsArrive(r), ~LabelsFail(r)
        PROVE  UNCHANGED labelVars
    BY <2>3 DEF Handle, Client, Refuse, Admit, LeaveOnce, Rewrite, RewriteCalendar,
                RangeResolved, RangeFails, RunGog, GogSucceeds, GogFails, Overflow, Die,
                Receive, ClientGone, NextRequest
  <2>4. ~Crash /\ ~Restart
    BY DEF Crash, Die, Restart
  <2> QED
    BY <2>1, <2>2, <2>3, <2>4 DEF Next, vars
<1> QED
  BY <1>1, LookupIsDisciplined, PTL DEF Spec, LookupIsFinal

-----------------------------------------------------------------------------
(* One true run *)

RunDiscipline == TypeOK /\ RunMatchesPhase /\ AnswerIsTrue

\* What RunMatchesPhase and AnswerIsTrue say of one request.
TrueRun(phase, run, code, i) ==
  /\ phase \in Phases \ (Quiet \cup {"running"}) => run = NoRun
  /\ phase = "idle" => run = NoRun
  /\ phase = "running" => run # NoRun
  /\ phase # "answered" => code = Unanswered
  /\ code \in {"bad_request", "forbidden"} => run = NoRun
  /\ code = "redaction_error" => run # NoRun
  /\ code = "ok" => run # NoRun \/ ActionOf(i) = "policy.actions"

LEMMA TrueRuns ==
  (RunMatchesPhase /\ AnswerIsTrue) <=>
    \A r \in Requests : TrueRun(pc[r], ran[r], answer[r], input[r])
BY DEF TrueRun, RunMatchesPhase, AnswerIsTrue

\* Each step of one request keeps its run and its answer true.
LEMMA StepKeepsTrueRun ==
  ASSUME RunDiscipline, NEW r \in Requests,
         (Handle(r) /\ ~Overflow(r)) \/ Client(r)
  PROVE  /\ \A s \in Requests : s # r =>
               /\ pc'[s] = pc[s] /\ ran'[s] = ran[s]
               /\ answer'[s] = answer[s] /\ input'[s] = input[s]
         /\ TrueRun(pc'[r], ran'[r], answer'[r], input'[r])
<1> DEFINE
      Goal == /\ \A s \in Requests : s # r =>
                    /\ pc'[s] = pc[s] /\ ran'[s] = ran[s]
                    /\ answer'[s] = answer[s] /\ input'[s] = input[s]
              /\ TrueRun(pc'[r], ran'[r], answer'[r], input'[r])
<1>0. TrueRun(pc[r], ran[r], answer[r], input[r])
  BY TrueRuns DEF RunDiscipline
<1> USE <1>0 DEF RunDiscipline, TypeOK, TrueRun, Phases, Quiet, Judged, Go, Reply,
                 requestVars, labelVars, Unanswered
<1>1. Refuse(r) => Goal
  BY RefusalIsCode DEF Refuse
<1>2. Admit(r) => Goal
  BY DEF Admit
<1>3. EnterOnce(r) => Goal
  BY DEF EnterOnce
<1>4. LabelsArrive(r) => Goal
  BY DEF LabelsArrive
<1>5. LabelsFail(r) => Goal
  BY DEF LabelsFail
<1>6. LeaveOnce(r) => Goal
  BY DEF LeaveOnce
<1>7. Rewrite(r) => Goal
  BY DEF Rewrite
<1>8. RewriteCalendar(r) => Goal
  BY DEF RewriteCalendar
<1>9. RangeResolved(r) => Goal
  BY DEF RangeResolved
<1>10. RangeFails(r) => Goal
  BY DEF RangeFails
<1>11. RunGog(r) => Goal
  <2> SUFFICES ASSUME RunGog(r) PROVE Goal
    OBVIOUS
  <2>1. \A account, action, args :
          [account |-> account, action |-> action, args |-> args] # NoRun
    BY DEF NoRun
  <2>2. CASE gone[r] \/ ~GogAccepts(RunAction(input[r], params[r]), params[r])
    BY <2>2 DEF RunGog, Starts
  <2>3. CASE ~(gone[r] \/ ~GogAccepts(RunAction(input[r], params[r]), params[r]))
    <3>1. \E account, action, args :
            ran' = [ran EXCEPT ![r] = [account |-> account, action |-> action, args |-> args]]
      BY <2>3 DEF RunGog, Starts
    <3>2. ran'[r] # NoRun /\ \A s \in Requests : s # r => ran'[s] = ran[s]
      BY <2>1, <3>1
    <3>3. pc[r] = "run" /\ Go(r, "running") /\ UNCHANGED <<answer, input>>
      BY <2>3 DEF RunGog, Starts
    <3> QED
      BY <3>2, <3>3
  <2> QED
    BY <2>2, <2>3
<1>12. GogSucceeds(r) => Goal
  BY DEF GogSucceeds
<1>13. GogFails(r) => Goal
  BY DEF GogFails
<1>14. Receive(r) => Goal
  BY DEF Receive
<1>15. ClientGone(r) => Goal
  BY DEF ClientGone
<1>16. NextRequest(r) => Goal
  BY DEF NextRequest
<1> QED
  BY <1>1, <1>2, <1>3, <1>4, <1>5, <1>6, <1>7, <1>8, <1>9, <1>10, <1>11, <1>12, <1>13,
     <1>14, <1>15, <1>16
     DEF Handle, Client

LEMMA RunDisciplineKept ==
  ASSUME RunDiscipline, [Next]_vars
  PROVE  RunMatchesPhase' /\ AnswerIsTrue'
<1> SUFFICES \A r \in Requests : TrueRun(pc'[r], ran'[r], answer'[r], input'[r])
  BY DEF TrueRun, RunMatchesPhase, AnswerIsTrue
<1>0. \A r \in Requests : TrueRun(pc[r], ran[r], answer[r], input[r])
  BY TrueRuns DEF RunDiscipline
<1>1. CASE \E r \in Requests : (Handle(r) /\ ~Overflow(r)) \/ Client(r)
  <2>1. PICK r \in Requests : (Handle(r) /\ ~Overflow(r)) \/ Client(r)
    BY <1>1
  <2> QED
    BY <1>0, <2>1, StepKeepsTrueRun
<1>2. CASE Die
  <2> SUFFICES ASSUME NEW r \in Requests
               PROVE  TrueRun(pc'[r], ran'[r], answer'[r], input'[r])
    OBVIOUS
  <2>1. /\ pc'[r] = IF pc[r] \in Quiet THEN pc[r] ELSE "lost"
        /\ UNCHANGED <<ran, answer, input>>
    BY <1>2 DEF Die, requestVars
  <2> QED
    BY <1>0, <2>1 DEF TrueRun, Quiet, Unanswered
<1>3. CASE UNCHANGED <<pc, ran, answer, input>>
  BY <1>0, <1>3
<1> QED
  BY <1>1, <1>2, <1>3 DEF Next, Handle, Overflow, Crash, Restart, vars, requestVars

\* No request is run twice: none that has run gets back to where gog is started,
\* and what its answer says of the run is true (broker.go:86-136).
THEOREM RunsMatchPhases == Spec => [](RunMatchesPhase /\ AnswerIsTrue)
<1>1. Init => RunMatchesPhase /\ AnswerIsTrue
  BY DEF Init, RunMatchesPhase, AnswerIsTrue, Unanswered, Codes
<1>2. RunMatchesPhase /\ AnswerIsTrue /\ TypeOK /\ [Next]_vars
        => (RunMatchesPhase /\ AnswerIsTrue)'
  BY RunDisciplineKept DEF RunDiscipline
<1> QED
  BY <1>1, <1>2, TypeCorrect, PTL DEF Spec

\* gog runs at most once for a request, for a client that waits and in a process
\* that lives, and the answer is true of it (broker.go:86-136).
THEOREM OneTrueRunAlways == Spec => OneTrueRun
<1>1. RunDiscipline /\ LookupDiscipline /\ [Next]_vars => [RunsOnce]_vars
  <2> SUFFICES ASSUME RunDiscipline, LookupDiscipline, [Next]_vars, NEW r \in Requests,
                      pc'[r] # "idle"
               PROVE  /\ ran[r] # NoRun => ran'[r] = ran[r]
                      /\ ran'[r] # ran[r] => up /\ ~gone[r]
    BY DEF RunsOnce
  <2>1. ASSUME NEW s \in Requests, RunGog(s)
        PROVE  /\ ran[r] # NoRun => ran'[r] = ran[r]
               /\ ran'[r] # ran[r] => up /\ ~gone[r]
    <3>1. CASE s # r
      BY <2>1, <3>1 DEF RunGog, Starts, RunDiscipline, TypeOK
    <3>2. CASE s = r
      <4>1. pc[r] = "run" /\ ran[r] = NoRun
        BY <2>1, <3>2 DEF RunGog, Starts, RunDiscipline, RunMatchesPhase, Phases, Quiet, Judged
      <4>2. up
        BY <4>1 DEF LookupDiscipline, NoHandlerOutlives, Quiet, TypeOK
      <4>3. ran'[r] # ran[r] => ~gone[r]
        BY <2>1, <3>2 DEF RunGog, Starts
      <4> QED
        BY <4>1, <4>2, <4>3
    <3> QED
      BY <3>1, <3>2
  <2>2. ASSUME NEW s \in Requests, NextRequest(s)
        PROVE  ran'[r] = ran[r]
    BY <2>2 DEF NextRequest, Go, RunDiscipline, TypeOK
  <2>3. ASSUME NEW s \in Requests, Handle(s) \/ Client(s), ~RunGog(s), ~NextRequest(s)
        PROVE  ran' = ran
    BY <2>3 DEF Handle, Client, Refuse, Admit, EnterOnce, LabelsArrive, LabelsFail,
                LeaveOnce, Rewrite, RewriteCalendar, RangeResolved, RangeFails,
                GogSucceeds, GogFails, Overflow, Die, Receive, ClientGone, requestVars
  <2>4. ASSUME Crash \/ Restart \/ UNCHANGED vars
        PROVE  ran' = ran
    BY <2>4 DEF Crash, Die, Restart, vars, requestVars
  <2> QED
    BY <2>1, <2>2, <2>3, <2>4 DEF Next
<1>2. RunDiscipline <=> TypeOK /\ RunMatchesPhase /\ AnswerIsTrue
  BY DEF RunDiscipline
<1>3. [RunsOnce]_vars /\ AnswerIsTrue' => [RunsOnce /\ AnswerIsTrue']_vars
  OBVIOUS
<1> QED
  BY <1>1, <1>2, <1>3, TypeCorrect, LookupIsDisciplined, RunsMatchPhases, PTL
     DEF Spec, OneTrueRun
-----------------------------------------------------------------------------
(***************************************************************************)
(* The broker keeps its promise: Broker implements Gatekeeper, for every   *)
(* policy file, mailbox and set of requests.                               *)
(*                                                                         *)
(* The argument has two halves.  That a run gog starts is Permitted is a   *)
(* fact about the rules alone (PolicyProofs), once the run is known to be  *)
(* what the rules left of the request (JudgedAsSent).  That the broker's   *)
(* steps are steps of the gatekeeper follows from where its handlers are   *)
(* (RunMatchesPhase) and what their answers say (AnswerIsTrue).            *)
(***************************************************************************)


-----------------------------------------------------------------------------
(* A run the rules accept is permitted *)

\* An admitted request has an account with a name, and its policy allows the
\* action (broker.go:62-76).
LEMMA AdmittedByPolicy ==
  ASSUME NEW i, AdmissionRefusal(i) = Unanswered
  PROVE  /\ AccountOf(i) \in Accounts /\ AccountOf(i) # NoName
         /\ ActionOf(i) \in PolicyOf(i).actions
<1>1. ~Malformed(i) /\ ~AccountRequired(Policies, i.account, GogAccount)
  BY DEF AdmissionRefusal, Unanswered
<1>2. AccountKnown(Policies, i.account, GogAccount)
  BY <1>1 DEF AdmissionRefusal, Unanswered
<1>3. IsActionAllowed(PolicyOf(i), ActionOf(i))
  BY <1>1, <1>2 DEF AdmissionRefusal, Unanswered
<1> QED
  BY <1>1, <1>3, AdmittedAccount DEF AccountRequired, AccountOf, IsActionAllowed

\* The policy of an account is one of the file's (set.go:35-64).
LEMMA PolicyIsOfFile ==
  ASSUME NEW i, AccountOf(i) \in Accounts
  PROVE  \E k \in DOMAIN PolicyFile.accounts : PolicyOf(i) = PolicyFile.accounts[k]
<1> DEFINE keys == DOMAIN PolicyFile.accounts
           names == {normalizeAccount(k) : k \in keys}
<1>1. Policies.accounts =
        [n \in names |-> PolicyFile.accounts[CHOOSE k \in keys : normalizeAccount(k) = n]]
  BY DEF Policies, LoadedSet
<1>2. AccountOf(i) \in names
  BY <1>1 DEF Accounts
<1>3. (CHOOSE k \in keys : normalizeAccount(k) = AccountOf(i)) \in keys
  BY <1>2
<1> QED
  BY <1>1, <1>2, <1>3 DEF PolicyOf

\* A policy that allows a Gmail action has Gmail limits, and a number of days
\* among them (policy.go:48-75).
LEMMA GmailLimitsAreThere ==
  ASSUME NEW i, AccountOf(i) \in Accounts, ActionOf(i) \in PolicyOf(i).actions,
         ActionOf(i) \in GmailActions
  PROVE  PolicyOf(i).gmail.maxDays \in Int
<1>1. PICK k \in DOMAIN PolicyFile.accounts : PolicyOf(i) = PolicyFile.accounts[k]
  BY PolicyIsOfFile
<1>2. Validate(PolicyOf(i))
  BY <1>1, PolicyFileAccepted DEF LoadAccepts
<1>3. "gmail" \in DOMAIN PolicyOf(i)
  BY <1>2 DEF Validate
<1> QED
  BY <1>1, <1>3, MaxDaysIsInt

LEMMA InputIsParsed == ASSUME NEW i \in Inputs PROVE Parsed(i.params)
BY InputsAreParsed DEF Parsed

\* What policy and gog read alike are texts and lists of strings, and a query of
\* which every term must match.
LEMMA UnderstoodIsPlain ==
  ASSUME NEW i
  PROVE  /\ Plain(i.params, Understood(i))
         /\ ActionOf(i) \in {"gmail.search", "gmail.thread.list"} /\ "query" \in Understood(i) =>
              Conjunction(Text(i.params, "query"))
<1>1. Plain(i.params, Understood(i))
  BY DEF Plain, Understood
<1>2. ASSUME ActionOf(i) \in {"gmail.search", "gmail.thread.list"}, "query" \in Understood(i)
      PROVE  Conjunction(Text(i.params, "query"))
  <2>1. Conjunction(i.params["query"].toks)
    BY <1>2 DEF Understood
  <2>2. Conjunction(<<>>)
    BY DEF Conjunction
  <2> QED
    BY <2>1, <2>2 DEF Text
<1> QED
  BY <1>1, <1>2

\* The run of gog that RunGog starts.
GogRun(i, p) ==
  [account |-> RunnerFor(AccountOf(i), normalizeAccount(GogAccount)),
   action  |-> RunAction(i, p),
   args    |-> GogArgs(RunAction(i, p), p)]

\* A send the rules accept is run as itself, or as a draft; every other action as
\* itself (broker.go:93-100).
LEMMA RunIsOfAction ==
  ASSUME NEW i, NEW p
  PROVE  /\ RunAction(i, p) = ActionOf(i)
            \/ (ActionOf(i) = "gmail.send" /\ RunAction(i, p) = "gmail.drafts.create")
         /\ RunAction(i, p) = "gmail.send" => ~DraftSendRequired(PolicyOf(i).gmail, p)
BY DEF RunAction

\* What the rules make of a request by a label table.
Rules(i, t) == ValidateAndRewrite(PolicyOf(i), t, ActionOf(i), i.params)

\* The rules of an action that needs no range accepted the request and left p.
LEMMA RuleOfAction ==
  ASSUME NEW i, NEW p, NEW t,
         Rules(i, t).accepted, Rules(i, t).params = p
  PROVE  LET g == PolicyOf(i).gmail
             By(out) == out.accepted /\ out.params = p
         IN  /\ ActionOf(i) \in {"gmail.search", "gmail.thread.list"} =>
                  By(rewriteGmailQuery(g, i.params))
             /\ ActionOf(i) = "gmail.thread.modify" =>
                  By(rewriteGmailThreadModify(g, t, i.params))
             /\ ActionOf(i) = "gmail.labels.modify" =>
                  By(rewriteGmailLabelsModify(g, t, i.params))
             /\ ActionOf(i) = "gmail.labels.get" => By(rewriteGmailLabelsGet(g, t, i.params))
             /\ ActionOf(i) = "gmail.get" => By(rewriteGmailGet(i.params))
             /\ ActionOf(i) = "gmail.send" => By(rewriteGmailSend(g, i.params))
             /\ ActionOf(i) = "gmail.drafts.create" =>
                  By(rewriteGmailDraftCreate(g, i.params))
<1> DEFINE out == Rules(i, t)
<1>1. /\ ActionOf(i) \in {"gmail.search", "gmail.thread.list"} =>
           out = rewriteGmailQuery(PolicyOf(i).gmail, i.params)
      /\ ActionOf(i) = "gmail.thread.modify" =>
           out = rewriteGmailThreadModify(PolicyOf(i).gmail, t, i.params)
      /\ ActionOf(i) = "gmail.labels.modify" =>
           out = rewriteGmailLabelsModify(PolicyOf(i).gmail, t, i.params)
      /\ ActionOf(i) = "gmail.labels.get" =>
           out = rewriteGmailLabelsGet(PolicyOf(i).gmail, t, i.params)
      /\ ActionOf(i) = "gmail.get" => out = rewriteGmailGet(i.params)
      /\ ActionOf(i) = "gmail.send" => out = rewriteGmailSend(PolicyOf(i).gmail, i.params)
      /\ ActionOf(i) = "gmail.drafts.create" =>
           out = rewriteGmailDraftCreate(PolicyOf(i).gmail, i.params)
  BY DEF Rules, ValidateAndRewrite
<1> HIDE DEF out
<1> QED
  BY <1>1 DEF out

\* A mail is judged and sent as the client wrote it (policy.go:273-326).
LEMMA MailIsAsSent ==
  ASSUME NEW g, NEW p
  PROVE  rewriteGmailSend(g, p).params = p /\ rewriteGmailDraftCreate(g, p).params = p
BY DEF rewriteGmailSend, rewriteGmailDraftCreate, Outcome

\* What the rules accept keeps every limit of the policy when gog is run with it
\* (broker.go:86-116, policy.go:136-500).
LEMMA AcceptedRunIsPermitted ==
  ASSUME NEW i \in Inputs, AdmissionRefusal(i) = Unanswered,
         NEW p, Accepted(i, p), GogAccepts(RunAction(i, p), p)
  PROVE  Permitted(i, GogRun(i, p))
<1> DEFINE a == AccountOf(i)
           action == ActionOf(i)
           pol == PolicyOf(i)
           K == Understood(i)
           e == GogRun(i, p)
<1>1. a \in Accounts /\ a # NoName /\ action \in pol.actions
  BY AdmittedByPolicy
<1>2. e.account = a /\ e.action = RunAction(i, p) /\ e.args = GogArgs(RunAction(i, p), p)
  BY <1>1 DEF GogRun, RunnerFor, NoName
<1>3. Parsed(i.params) /\ Plain(i.params, K)
  BY InputIsParsed, UnderstoodIsPlain
<1>4. Mailbox[a] # {}
  BY <1>1, MailboxPerAccount
<1>5. /\ e.action = action \/ (action = "gmail.send" /\ e.action = "gmail.drafts.create")
      /\ e.action = "gmail.send" => ~DraftSendRequired(pol.gmail, p)
  BY <1>2, RunIsOfAction
<1> HIDE DEF e, K
<1>6. \E mail \in Mailbox[a] : LabelsWithin(pol.gmail, mail, e, K)
  <2>1. CASE e.action \notin {"gmail.thread.modify", "gmail.labels.modify", "gmail.labels.get"}
    BY <1>4, <2>1 DEF LabelsWithin
  <2>2. CASE e.action \in {"gmail.thread.modify", "gmail.labels.modify", "gmail.labels.get"}
    <3>1. action = e.action /\ ~NeedsRange(action)
      BY <1>5, <2>2 DEF NeedsRange
    <3>2. PICK t \in Tables(a) :
            /\ NeedsLabels(i) => \E m \in Mailbox[a] : t \in LabelTables(m)
            /\ Rules(i, t).accepted /\ Rules(i, t).params = p
      BY <3>1 DEF Accepted, Rules
    <3>3. PICK m \in Mailbox[a] : NeedsLabels(i) => t \in LabelTables(m)
      BY <1>4, <3>2
    <3>4. pol.gmail.read # {} \/ pol.gmail.add # {} \/ pol.gmail.remove # {} =>
            t \in LabelTables(m)
      BY <2>2, <3>1, <3>3 DEF NeedsLabels, LabelActions, hasAnyLabelConstraints
    <3>5. e.args = GogArgs(e.action, p)
      BY <1>2
    <3>6. CASE action = "gmail.thread.modify"
      <4>1. /\ rewriteGmailThreadModify(pol.gmail, t, i.params).accepted
            /\ rewriteGmailThreadModify(pol.gmail, t, i.params).params = p
        BY <3>2, <3>6, RuleOfAction
      <4> DEFINE args == GogArgs(e.action, rewriteGmailThreadModify(pol.gmail, t, i.params).params)
      <4>2. /\ DOMAIN args \cap {"add", "remove"} # {}
            /\ "add" \in K => AllListed(m, args, "add", pol.gmail.add)
            /\ "remove" \in K => AllListed(m, args, "remove", pol.gmail.remove)
        <5> HIDE DEF pol
        <5>1. pol.gmail.add # {} \/ pol.gmail.remove # {} => t \in LabelTables(m)
          BY <3>4
        <5> QED
          BY <1>3, <4>1, <5>1, ThreadModifyWithin
      <4>3. args = e.args
        BY <3>5, <4>1
      <4> QED
        BY <3>1, <3>6, <4>2, <4>3 DEF LabelsWithin
    <3>7. CASE action = "gmail.labels.modify"
      <4>1. /\ rewriteGmailLabelsModify(pol.gmail, t, i.params).accepted
            /\ rewriteGmailLabelsModify(pol.gmail, t, i.params).params = p
        BY <3>2, <3>7, RuleOfAction
      <4> DEFINE args == GogArgs(e.action, rewriteGmailLabelsModify(pol.gmail, t, i.params).params)
      <4>2. /\ DOMAIN args \cap {"add", "remove"} # {}
            /\ "add" \in K => AllListed(m, args, "add", pol.gmail.add)
            /\ "remove" \in K => AllListed(m, args, "remove", pol.gmail.remove)
        <5> HIDE DEF pol
        <5>1. pol.gmail.add # {} \/ pol.gmail.remove # {} => t \in LabelTables(m)
          BY <3>4
        <5> QED
          BY <1>3, <4>1, <5>1, LabelsModifyWithin
      <4>3. args = e.args
        BY <3>5, <4>1
      <4> QED
        BY <3>1, <3>7, <4>2, <4>3 DEF LabelsWithin
    <3>8. CASE action = "gmail.labels.get"
      <4>1. /\ rewriteGmailLabelsGet(pol.gmail, t, i.params).accepted
            /\ rewriteGmailLabelsGet(pol.gmail, t, i.params).params = p
        BY <3>2, <3>8, RuleOfAction
      <4>2. pol.gmail.read # {} => AllListed(m, e.args, "label", pol.gmail.read)
        BY <3>4, <3>5, <4>1, LabelsGetWithin
      <4> QED
        BY <3>1, <3>8, <4>2 DEF LabelsWithin
    <3> QED
      BY <2>2, <3>1, <3>6, <3>7, <3>8
  <2> QED
    BY <2>1, <2>2
<1>7. SearchWithin(pol.gmail, e, K)
  <2> SUFFICES ASSUME e.action \in {"gmail.search", "gmail.thread.list"}, "query" \in K
               PROVE  SearchWithin(pol.gmail, e, K)
    BY DEF SearchWithin
  <2>1. action = e.action /\ ~NeedsRange(action) /\ action \in GmailActions
    BY <1>5 DEF NeedsRange, GmailActions
  <2>2. \E t : Rules(i, t).accepted /\ Rules(i, t).params = p
    BY <2>1 DEF Accepted, Rules
  <2>3. /\ rewriteGmailQuery(pol.gmail, i.params).accepted
        /\ rewriteGmailQuery(pol.gmail, i.params).params = p
    BY <2>1, <2>2, RuleOfAction
  <2>4. pol.gmail.maxDays \in Int
    BY <1>1, <2>1, GmailLimitsAreThere
  <2>0. Conjunction(Text(i.params, "query"))
    BY <2>1, UnderstoodIsPlain DEF K
  <2> DEFINE g == pol.gmail
             terms == Range(GogArgs(e.action, rewriteGmailQuery(g, i.params).params)["query"].toks)
  <2>5. terms = Range(e.args["query"].toks)
    BY <1>2, <2>3
  <2> HIDE DEF pol
  <2>6. /\ g.maxDays > 0 =>
             \E t \in terms :
               \/ t.op = "newer_than" /\ t.binds /\ t.days <= g.maxDays
               \/ t.op = "after" /\ t.binds /\ t.valid /\ t.ago < g.maxDays
        /\ g.senders # {} =>
             \E t \in terms : t.op = "from" /\ t.binds /\ t.domains \subseteq g.senders
    BY <1>3, <2>0, <2>3, <2>4, SearchReachesGogWithin
  <2> HIDE DEF terms
  <2> QED
    BY <2>5, <2>6 DEF SearchWithin
<1>8. MailWithin(pol.gmail, i, e, K)
  <2> SUFFICES ASSUME e.action \in {"gmail.send", "gmail.drafts.create"}
               PROVE  MailWithin(pol.gmail, i, e, K)
    BY DEF MailWithin
  <2>1. action \in {"gmail.send", "gmail.drafts.create"} /\ ~NeedsRange(action)
    BY <1>5 DEF NeedsRange
  <2>2. \E t : Rules(i, t).accepted /\ Rules(i, t).params = p
    BY <2>1 DEF Accepted, Rules
  <2>3. /\ \/ rewriteGmailSend(pol.gmail, i.params).accepted
           \/ rewriteGmailDraftCreate(pol.gmail, i.params).accepted
        /\ p = i.params
    <3>1. CASE action = "gmail.send"
      <4>1. /\ rewriteGmailSend(pol.gmail, i.params).accepted
            /\ rewriteGmailSend(pol.gmail, i.params).params = p
        BY <2>2, <3>1, RuleOfAction
      <4> QED
        BY <4>1, MailIsAsSent
    <3>2. CASE action = "gmail.drafts.create"
      <4>1. /\ rewriteGmailDraftCreate(pol.gmail, i.params).accepted
            /\ rewriteGmailDraftCreate(pol.gmail, i.params).params = p
        BY <2>2, <3>2, RuleOfAction
      <4> QED
        BY <4>1, MailIsAsSent
    <3> QED
      BY <2>1, <3>1, <3>2
  <2>4. e.args = GogArgs(e.action, i.params)
    BY <1>2, <2>3
  <2>5. e.action = "gmail.send" => ~DraftSendRequired(pol.gmail, i.params)
    BY <1>5, <2>3
  <2> DEFINE args == GogArgs(e.action, i.params)
  <2>6. /\ DOMAIN args \cap {"track", "track_split", "reply_all"} = {}
        /\ "attach" \in DOMAIN args => pol.gmail.allowAttachments
        /\ ~DraftSendRequired(pol.gmail, i.params) =>
             /\ ~pol.gmail.draftOnly
             /\ pol.gmail.recipients # {} =>
                  /\ Named(i.params) # {}
                  /\ \A k \in DOMAIN args \cap K \cap {"to", "cc", "bcc"} :
                       WordsOf(args[k]) \subseteq pol.gmail.recipients
    BY <1>3, <2>3, MailReachesGogWithin
  <2> QED
    BY <2>4, <2>5, <2>6 DEF MailWithin
<1>9. ReadWithin(e)
  <2> SUFFICES ASSUME e.action = "gmail.get" PROVE ReadWithin(e)
    BY DEF ReadWithin
  <2>1. action = "gmail.get" /\ ~NeedsRange(action)
    BY <1>5 DEF NeedsRange
  <2>2. \E t : Rules(i, t).accepted /\ Rules(i, t).params = p
    BY <2>1 DEF Accepted, Rules
  <2>3. rewriteGmailGet(i.params).params = p
    BY <2>1, <2>2, RuleOfAction
  <2> QED
    BY <1>2, <2>3, GetReachesGogAsMetadata DEF ReadWithin
<1>10. CalendarWithin(pol.calendar, e, K)
  <2> SUFFICES ASSUME e.action \in {"calendar.events", "calendar.freebusy"}
               PROVE  CalendarWithin(pol.calendar, e, K)
    BY DEF CalendarWithin
  <2>1. action = e.action /\ NeedsRange(action)
    BY <1>5 DEF NeedsRange
  <2>2. PICK hours \in Windows :
          /\ RangeAllowed(pol.calendar, hours) /\ p = WithRange(i.params, hours)
          /\ action = "calendar.events" => CalendarIdAllowed(pol.calendar, i.params)
          /\ action = "calendar.freebusy" => CalendarIdsAllowed(pol.calendar, i.params)
    BY <2>1 DEF Accepted, Rules
  <2>3. GogAccepts(action, p) /\ e.args = GogArgs(action, p)
    BY <1>2, <2>1
  <2>4. hours \in Int
    BY WindowsAreHours
  <2> HIDE DEF pol
  <2>5. CASE action = "calendar.events"
    BY <1>3, <2>2, <2>3, <2>4, <2>5, EventsReachGogWithin
  <2>6. CASE action = "calendar.freebusy"
    BY <1>3, <2>2, <2>3, <2>4, <2>6, FreeBusyReachesGogWithin
  <2> QED
    BY <2>1, <2>5, <2>6
<1>11. LimitsOn(i, e, K)
  BY <1>2, <1>6, <1>7, <1>8, <1>9, <1>10 DEF LimitsOn
<1> QED
  BY <1>1, <1>2, <1>5, <1>11 DEF Permitted, K, e

-----------------------------------------------------------------------------
(* What gog is run with was judged as it was sent *)

\* What JudgedAsSent says of one request.
JudgedRight(phase, i, p) ==
  /\ phase \in Phases \ Quiet => i \in Inputs
  /\ phase \in Judged \cup {"labels", "fetching"} => AdmissionRefusal(i) = Unanswered
  /\ phase \in {"received", "labels", "fetching", "rewrite", "range"} => p = i.params
  /\ phase = "range" => /\ NeedsRange(ActionOf(i))
                        /\ ~CalendarRefused(PolicyOf(i).calendar, ActionOf(i), p)
  /\ phase = "run" => Accepted(i, p)

\* Each step of one request keeps it judged as it was sent.
LEMMA StepKeepsJudged ==
  ASSUME LookupDiscipline, JudgedAsSent, NEW r \in Requests,
         (Handle(r) /\ ~Overflow(r)) \/ Client(r)
  PROVE  /\ \A s \in Requests : s # r =>
               pc'[s] = pc[s] /\ input'[s] = input[s] /\ params'[s] = params[s]
         /\ JudgedRight(pc'[r], input'[r], params'[r])
<1> DEFINE
      Goal == /\ \A s \in Requests : s # r =>
                    pc'[s] = pc[s] /\ input'[s] = input[s] /\ params'[s] = params[s]
              /\ JudgedRight(pc'[r], input'[r], params'[r])
      i == input[r]
<1>0. JudgedRight(pc[r], i, params[r]) /\ TypeOK
  BY DEF JudgedAsSent, JudgedRight, LookupDiscipline
<1> USE <1>0 DEF TypeOK, Phases, Quiet, Judged, Go, Reply, requestVars, labelVars
<1>1. Refuse(r) => Goal
  BY DEF Refuse, JudgedRight
<1>2. Admit(r) => Goal
  BY DEF Admit, JudgedRight
<1>3. EnterOnce(r) => Goal
  BY DEF EnterOnce, JudgedRight
<1>4. LabelsArrive(r) => Goal
  BY DEF LabelsArrive, JudgedRight
<1>5. LabelsFail(r) => Goal
  BY DEF LabelsFail, JudgedRight
<1>6. LeaveOnce(r) => Goal
  BY DEF LeaveOnce, JudgedRight
<1>7. Rewrite(r) => Goal
  <2> SUFFICES ASSUME Rewrite(r) PROVE Goal
    OBVIOUS
  <2> DEFINE t == table[AccountOf(i)]
             out == ValidateAndRewrite(PolicyOf(i), t, ActionOf(i), params[r])
  <2>1. pc[r] = "rewrite" /\ ~NeedsRange(ActionOf(i)) /\ input' = input
    BY DEF Rewrite
  <2>2. params[r] = i.params /\ AdmissionRefusal(i) = Unanswered /\ i \in Inputs
    BY <2>1 DEF JudgedRight
  <2>3. AccountOf(i) \in Accounts
    BY <2>2, AdmittedAccount
  <2>4. t \in Tables(AccountOf(i))
    BY <2>3
  <2>5. NeedsLabels(i) => \E m \in Mailbox[AccountOf(i)] : t \in LabelTables(m)
    BY <2>1 DEF LookupDiscipline, LabelsKnown, Settled, Reported
  <2>6. out.accepted => Accepted(i, out.params)
    BY <2>1, <2>2, <2>4, <2>5 DEF Accepted
  <2>7. CASE Reply(r, "forbidden") /\ UNCHANGED params
    BY <2>1, <2>7 DEF JudgedRight
  <2>8. CASE /\ out.accepted /\ params' = [params EXCEPT ![r] = out.params]
             /\ Go(r, "answered") \/ Go(r, "run")
    <3>1. params'[r] = out.params /\ \A s \in Requests : s # r => params'[s] = params[s]
      BY <2>8
    <3> HIDE DEF out
    <3> QED
      BY <2>1, <2>2, <2>6, <2>8, <3>1 DEF JudgedRight
  <2> QED
    BY <2>7, <2>8 DEF Rewrite
<1>8. RewriteCalendar(r) => Goal
  BY DEF RewriteCalendar, JudgedRight
<1>9. RangeResolved(r) => Goal
  <2> SUFFICES ASSUME RangeResolved(r) PROVE Goal
    OBVIOUS
  <2>1. /\ pc[r] = "range" /\ input' = input
        /\ \/ Go(r, "answered")
           \/ /\ Go(r, "run")
              /\ ActionOf(i) = "calendar.freebusy" =>
                   CalendarIdsAllowed(PolicyOf(i).calendar, params[r])
    BY DEF RangeResolved
  <2>0. PICK hours \in Windows :
          /\ RangeAllowed(PolicyOf(i).calendar, hours)
          /\ params' = [params EXCEPT ![r] = WithRange(params[r], hours)]
    BY DEF RangeResolved
  <2>2. /\ params[r] = i.params /\ AdmissionRefusal(i) = Unanswered /\ i \in Inputs
        /\ NeedsRange(ActionOf(i))
        /\ ActionOf(i) = "calendar.events" =>
             CalendarIdAllowed(PolicyOf(i).calendar, i.params)
    BY <2>1 DEF JudgedRight, CalendarRefused
  <2>3. Go(r, "run") => Accepted(i, WithRange(params[r], hours))
    BY <2>0, <2>1, <2>2 DEF Accepted
  <2> QED
    BY <2>0, <2>1, <2>2, <2>3 DEF JudgedRight
<1>10. RangeFails(r) => Goal
  BY DEF RangeFails, JudgedRight
<1>11. RunGog(r) => Goal
  BY DEF RunGog, Starts, JudgedRight
<1>12. GogSucceeds(r) => Goal
  BY DEF GogSucceeds, JudgedRight
<1>13. GogFails(r) => Goal
  BY DEF GogFails, JudgedRight
<1>14. Receive(r) => Goal
  <2> SUFFICES ASSUME Receive(r) PROVE Goal
    OBVIOUS
  <2>1. PICK j \in Inputs : /\ input' = [input EXCEPT ![r] = j]
                            /\ params' = [params EXCEPT ![r] = j.params]
    BY DEF Receive
  <2>2. input'[r] = j /\ params'[r] = j.params /\ pc'[r] = "received"
    BY <2>1 DEF Receive
  <2> QED
    BY <2>1, <2>2 DEF Receive, JudgedRight
<1>15. ClientGone(r) => Goal
  BY DEF ClientGone, JudgedRight
<1>16. NextRequest(r) => Goal
  BY DEF NextRequest, JudgedRight
<1> QED
  BY <1>1, <1>2, <1>3, <1>4, <1>5, <1>6, <1>7, <1>8, <1>9, <1>10, <1>11, <1>12, <1>13,
     <1>14, <1>15, <1>16 DEF Handle, Client

\* Nothing comes between a request, the checks it passed and what gog is run
\* with (broker.go:49-116).
THEOREM JudgedAsSentAlways == Spec => []JudgedAsSent
<1>1. Init => JudgedAsSent
  BY DEF Init, JudgedAsSent, Quiet, Judged
<1>2. LookupDiscipline /\ JudgedAsSent /\ [Next]_vars => JudgedAsSent'
  <2> SUFFICES ASSUME LookupDiscipline, JudgedAsSent, [Next]_vars,
                      NEW r \in Requests
               PROVE  JudgedRight(pc'[r], input'[r], params'[r])
    BY DEF JudgedAsSent, JudgedRight
  <2>0. JudgedRight(pc[r], input[r], params[r])
    BY DEF JudgedAsSent, JudgedRight
  <2>1. CASE \E s \in Requests : (Handle(s) /\ ~Overflow(s)) \/ Client(s)
    BY <2>0, <2>1, StepKeepsJudged
  <2>2. CASE Die
    <3>1. pc'[r] \in Quiet /\ UNCHANGED <<input, params>>
      BY <2>2 DEF Die, Quiet, requestVars
    <3> QED
      BY <3>1 DEF JudgedRight, Quiet, Judged
  <2>3. CASE UNCHANGED <<pc, input, params>>
    BY <2>0, <2>3
  <2> QED
    BY <2>1, <2>2, <2>3 DEF Next, Handle, Overflow, Crash, Restart, vars, requestVars
<1> QED
  BY <1>1, <1>2, LookupIsDisciplined, PTL DEF Spec

-----------------------------------------------------------------------------
(* Every step of the broker is one of the gatekeeper *)

PromiseInv == LookupDiscipline /\ RunDiscipline /\ JudgedAsSent

\* A handler that moves on moves its request's stage alone.
LEMMA StageOfGo ==
  ASSUME TypeOK, NEW r \in Requests, NEW q, Go(r, q)
  PROVE  /\ StageOf' = [StageOf EXCEPT ![r] = IF q \in Quiet THEN q ELSE "pending"]
         /\ pc[r] \notin Quiet /\ q \notin Quiet => StageOf' = StageOf
<1>1. pc' = [pc EXCEPT ![r] = q]
  BY DEF Go
<1>2. DOMAIN pc = Requests
  BY DEF TypeOK
<1>3. \A s \in Requests : pc'[s] = IF s = r THEN q ELSE pc[s]
  BY <1>1, <1>2
<1> QED
  BY <1>3 DEF StageOf

\* An answer that tells the truth is one the gatekeeper may give; only a request
\* that was judged is answered ok.
LEMMA ReplyIsAnswer ==
  ASSUME PromiseInv, AnswerIsTrue', NEW r \in Requests, pc[r] \notin Quiet,
         NEW code \in Codes, Reply(r, code), UNCHANGED <<input, ran>>,
         code = "ok" => pc[r] \in Judged
  PROVE  Promise!Answer(r)
<1>1. TypeOK
  BY DEF PromiseInv, LookupDiscipline
<1>2. /\ StageOf' = [StageOf EXCEPT ![r] = "answered"]
      /\ answer' = [answer EXCEPT ![r] = code] /\ answer'[r] = code
  BY <1>1, StageOfGo DEF Reply, Quiet, TypeOK
<1>3. StageOf[r] = "pending"
  BY DEF StageOf
<1>4. code = "ok" => ActionOf(input[r]) \in PolicyOf(input[r]).actions
  BY AdmittedByPolicy DEF PromiseInv, JudgedAsSent
<1>5. Truthful(input[r], ran[r] # NoRun, code)
  BY <1>2, <1>4 DEF AnswerIsTrue, Truthful
<1>6. code # Promise!Unanswered
  BY DEF Codes, Promise!Unanswered
<1> QED
  BY <1>2, <1>3, <1>5, <1>6 DEF Promise!Answer, Promise!NoEffect, NoRun

\* A step inside a handler is none of the gatekeeper's.
LEMMA MoveIsStutter ==
  ASSUME TypeOK, NEW r \in Requests, pc[r] \notin Quiet, NEW q, q \notin Quiet, Go(r, q),
         UNCHANGED <<input, ran, answer>>
  PROVE  UNCHANGED Promise!promiseVars
BY StageOfGo DEF Promise!promiseVars

\* Starting gog is the gatekeeper's act: for a request that is pending and for
\* which gog has done nothing yet, and a permitted one.
LEMMA StartIsAct ==
  ASSUME PromiseInv, NEW r \in Requests, RunGog(r),
         Starts(r, RunAction(input[r], params[r]))
  PROVE  Promise!Act(r)
<1> DEFINE i == input[r]
           e == GogRun(i, params[r])
<1>1. TypeOK
  BY DEF PromiseInv, LookupDiscipline
<1>2. /\ pc[r] = "run" /\ GogAccepts(RunAction(i, params[r]), params[r])
      /\ ran' = [ran EXCEPT ![r] = e] /\ Go(r, "running") /\ UNCHANGED <<input, answer>>
  BY DEF RunGog, Starts, GogRun
<1>3. i \in Inputs /\ AdmissionRefusal(i) = Unanswered /\ Accepted(i, params[r])
  BY <1>2 DEF PromiseInv, JudgedAsSent, Phases, Quiet, Judged
<1>4. Permitted(i, e)
  BY <1>2, <1>3, AcceptedRunIsPermitted
<1>5. ran[r] = NoRun
  BY <1>2 DEF PromiseInv, RunDiscipline, RunMatchesPhase, Phases, Quiet, Judged
<1>6. e # NoRun
  BY DEF GogRun, NoRun
<1>7. UNCHANGED StageOf /\ StageOf[r] = "pending"
  BY <1>1, <1>2, StageOfGo DEF Quiet, StageOf
<1> HIDE DEF e
<1>8. ran'[r] = e /\ ran' = [ran EXCEPT ![r] = ran'[r]]
  BY <1>1, <1>2 DEF TypeOK
<1> QED
  BY <1>2, <1>4, <1>5, <1>6, <1>7, <1>8 DEF Promise!Act, Promise!NoEffect, NoRun

\* A step of a handler is an act or an answer of the gatekeeper, or nothing to it.
LEMMA HandleImplements ==
  ASSUME PromiseInv, AnswerIsTrue', NEW r \in Requests, Handle(r), ~Overflow(r)
  PROVE  Promise!Act(r) \/ Promise!Answer(r) \/ UNCHANGED Promise!promiseVars
<1> DEFINE Goal == Promise!Act(r) \/ Promise!Answer(r) \/ UNCHANGED Promise!promiseVars
<1>0. TypeOK
  BY DEF PromiseInv, LookupDiscipline
<1> USE <1>0 DEF Phases, Quiet, Judged, Codes, requestVars, labelVars
<1>1. Refuse(r) => Goal
  BY RefusalIsCode, ReplyIsAnswer DEF Refuse
<1>2. Admit(r) => Goal
  BY MoveIsStutter DEF Admit
<1>3. EnterOnce(r) => Goal
  BY MoveIsStutter DEF EnterOnce
<1>4. LabelsArrive(r) => Goal
  BY MoveIsStutter DEF LabelsArrive
<1>5. LabelsFail(r) => Goal
  BY MoveIsStutter DEF LabelsFail
<1>6. LeaveOnce(r) => Goal
  BY MoveIsStutter, ReplyIsAnswer DEF LeaveOnce
<1>7. Rewrite(r) => Goal
  BY MoveIsStutter, ReplyIsAnswer DEF Rewrite
<1>8. RewriteCalendar(r) => Goal
  BY MoveIsStutter, ReplyIsAnswer DEF RewriteCalendar
<1>9. RangeResolved(r) => Goal
  BY MoveIsStutter, ReplyIsAnswer DEF RangeResolved
<1>10. RangeFails(r) => Goal
  BY ReplyIsAnswer DEF RangeFails
<1>11. RunGog(r) => Goal
  <2> SUFFICES ASSUME RunGog(r) PROVE Goal
    OBVIOUS
  <2>1. CASE Starts(r, RunAction(input[r], params[r]))
    BY <2>1, StartIsAct
  <2>2. CASE ~Starts(r, RunAction(input[r], params[r]))
    BY <2>2, ReplyIsAnswer DEF RunGog
  <2> QED
    BY <2>1, <2>2
<1>12. GogSucceeds(r) => Goal
  BY ReplyIsAnswer DEF GogSucceeds
<1>13. GogFails(r) => Goal
  BY ReplyIsAnswer DEF GogFails
<1> QED
  BY <1>1, <1>2, <1>3, <1>4, <1>5, <1>6, <1>7, <1>8, <1>9, <1>10, <1>11, <1>12, <1>13
     DEF Handle

\* A client asks, or takes back the slot of a request that is over.
LEMMA ClientImplements ==
  ASSUME PromiseInv, NEW r \in Requests, Client(r)
  PROVE  Promise!Ask(r) \/ Promise!Done(r) \/ UNCHANGED Promise!promiseVars
<1>0. TypeOK
  BY DEF PromiseInv, LookupDiscipline
<1>1. CASE Receive(r)
  <2>1. pc[r] = "idle" /\ Go(r, "received") /\ UNCHANGED <<ran, answer>>
        /\ \E i \in Inputs : input' = [input EXCEPT ![r] = i]
    BY <1>1 DEF Receive
  <2>2. StageOf[r] = "idle" /\ StageOf' = [StageOf EXCEPT ![r] = "pending"]
    BY <1>0, <2>1, StageOfGo DEF StageOf, Quiet
  <2> QED
    BY <2>1, <2>2 DEF Promise!Ask
<1>2. CASE NextRequest(r)
  <2>1. StageOf[r] \in {"answered", "lost"}
    BY <1>2 DEF NextRequest, StageOf, Quiet
  <2>2. StageOf' = [StageOf EXCEPT ![r] = "idle"]
    BY <1>0, <1>2, StageOfGo DEF NextRequest, Quiet
  <2> QED
    BY <1>2, <2>1, <2>2
       DEF NextRequest, Promise!Done, Promise!Nothing, Promise!NoEffect,
           Promise!Unanswered, NoInput, NoRun, Unanswered
<1>3. CASE ClientGone(r)
  BY <1>3 DEF ClientGone, StageOf, Promise!promiseVars
<1> QED
  BY <1>1, <1>2, <1>3 DEF Client

\* A process that dies loses the requests it was handling.
LEMMA DieImplements ==
  ASSUME TypeOK, Die
  PROVE  Promise!Lose
<1>1. /\ pc' = [r \in Requests |-> IF pc[r] \in Quiet THEN pc[r] ELSE "lost"]
      /\ UNCHANGED <<input, ran, answer>>
  BY DEF Die, requestVars
<1>2. \A r \in Requests :
        StageOf'[r] = IF StageOf[r] = "pending" THEN "lost" ELSE StageOf[r]
  BY <1>1 DEF StageOf, Quiet
<1>3. StageOf' = [r \in Requests |-> StageOf'[r]]
  BY DEF StageOf
<1> QED
  BY <1>1, <1>2, <1>3 DEF Promise!Lose

\* The broker keeps its promise: for a request gog acts at most once, for the
\* account and within the limits its policy sets, and the answer is true of it,
\* whatever requests run beside it and whenever a client or the process dies
\* (Handle, broker.go:27-136).
THEOREM BrokerKeepsPromise == Spec => KeepsPromise
<1>1. Init => Promise!Init
  BY DEF Init, Promise!Init, StageOf, Quiet, Promise!Nothing, Promise!NoEffect,
         Promise!Unanswered, NoInput, NoRun, Unanswered
<1>2. PromiseInv /\ AnswerIsTrue' /\ [Next]_vars => [Promise!Next]_(Promise!promiseVars)
  <2> SUFFICES ASSUME PromiseInv, AnswerIsTrue', [Next]_vars
               PROVE  [Promise!Next]_(Promise!promiseVars)
    OBVIOUS
  <2>1. TypeOK
    BY DEF PromiseInv, LookupDiscipline
  <2>2. CASE \E r \in Requests : (Handle(r) /\ ~Overflow(r)) \/ Client(r)
    BY <2>2, HandleImplements, ClientImplements DEF Promise!Next
  <2>3. CASE Die
    BY <2>1, <2>3, DieImplements DEF Promise!Next
  <2>4. CASE Restart \/ UNCHANGED vars
    BY <2>4 DEF Restart, vars, requestVars, StageOf, Promise!promiseVars
  <2> QED
    BY <2>2, <2>3, <2>4 DEF Next, Handle, Overflow, Crash
<1>3. LookupDiscipline /\ TypeOK /\ RunMatchesPhase /\ AnswerIsTrue /\ JudgedAsSent
        => PromiseInv
  BY DEF PromiseInv, RunDiscipline
<1> QED
  BY <1>1, <1>2, <1>3, TypeCorrect, LookupIsDisciplined, RunsMatchPhases,
     JudgedAsSentAlways, PTL DEF Spec, KeepsPromise, Promise!Spec

-----------------------------------------------------------------------------
(* No change the policy lists is refused *)

\* The word of a listed label passes, whichever table the labels gave
\* (policy.go:77-96 and 406-440).
LEMMA ListedIsAllowed ==
  ASSUME NEW m, NEW t \in LabelTables(m), NEW w, NEW allowed, DenotesListed(m, w, allowed)
  PROVE  isLabelAllowed(w, allowed, t)
<1> DEFINE names == {m[id] : id \in DOMAIN m}
           named == {l \in DOMAIN m : m[l] = w}
<1>1. /\ t.nameOf = m /\ DOMAIN t.idOf = names
      /\ \A n \in names : t.idOf[n] \in DOMAIN m /\ m[t.idOf[n]] = n
  <2>1. PICK back \in [names -> DOMAIN m] :
          /\ \A n \in names : m[back[n]] = n
          /\ t = [nameOf |-> m, idOf |-> back]
    BY Zenon DEF LabelTables
  <2> HIDE DEF names
  <2> QED
    BY <2>1
<1>2. CASE w \in allowed
  BY <1>2 DEF isLabelAllowed
<1>3. CASE w \in DOMAIN m /\ m[w] \in allowed
  BY <1>1, <1>3 DEF isLabelAllowed
<1>4. CASE named # {} /\ named \subseteq allowed
  <2>1. w \in names
    BY <1>4
  <2>2. t.idOf[w] \in named
    BY <1>1, <2>1
  <2> QED
    BY <1>1, <1>4, <2>1, <2>2 DEF isLabelAllowed
<1> QED
  BY <1>2, <1>3, <1>4 DEF DenotesListed

\* A thread id that is given is the one that is used (policy.go:561-568).
LEMMA GivenThreadId ==
  ASSUME NEW p, ~IsBlank(Text(p, "thread_id"))
  PROVE  ~IsBlank(TextAny(p, <<"thread_id", "id">>))
<1> DEFINE keys == <<"thread_id", "id">>
           I == {j \in 1..2 : HasString(p, keys[j])}
<1>1. HasString(p, "thread_id")
  BY DEF Text, IsBlank
<1>2. 1 \in I /\ I \subseteq Nat
  BY <1>1
<1>3. Min(I) \in I /\ Min(I) <= 1
  BY <1>2, MinIsLeast
<1>4. Min(I) = 1
  BY <1>3
<1>5. TextAny(p, keys) = p["thread_id"].toks
  <2>1. SelectInSeq(keys, LAMBDA k : HasString(p, k)) = 1
    BY <1>2, <1>4 DEF SelectInSeq
  <2> QED
    BY <2>1 DEF TextAny
<1> QED
  BY <1>1, <1>5 DEF Text

\* Labels the policy lists by some word are labels it accepts.
LEMMA ListedChangeIsValid ==
  ASSUME NEW i, NEW k, NEW m, NEW t, NEW allowed, allowed # {} => t \in LabelTables(m),
         StringSlice(i.params, k) # <<>> => allowed # {},
         \A w \in Changes(i, k) : DenotesListed(m, w, allowed)
  PROVE  validateLabels(StringSlice(i.params, k), allowed, FALSE, t)
<1> DEFINE slice == StringSlice(i.params, k)
<1>1. ASSUME NEW j \in DOMAIN slice, slice[j] # Blank
      PROVE  isLabelAllowed(slice[j], allowed, t)
  <2>1. slice[j] \in Changes(i, k)
    BY <1>1 DEF Changes, Range
  <2>2. slice # <<>>
    BY <1>1
  <2> QED
    BY <2>1, <2>2, ListedIsAllowed
<1> HIDE DEF slice
<1> QED
  BY <1>1 DEF validateLabels, slice

\* A request to change labels that the rules refuse changes one the mailbox has
\* no listed word for.
LEMMA RefusedChangeIsUnlisted ==
  ASSUME LookupDiscipline, JudgedAsSent, NEW r \in Requests, pc[r] = "rewrite",
         AsksToChangeLabels(input[r]),
         ~ValidateAndRewrite(PolicyOf(input[r]), table[AccountOf(input[r])],
                             ActionOf(input[r]), params[r]).accepted
  PROVE  \E mail \in Mailbox[AccountOf(input[r])] : ~ChangesListed(input[r], mail)
<1> DEFINE i == input[r]
           g == PolicyOf(i).gmail
           t == table[AccountOf(i)]
<1>1. /\ ActionOf(i) = "gmail.thread.modify" /\ ~IsBlank(Text(i.params, "thread_id"))
      /\ Changes(i, "add") \cup Changes(i, "remove") # {}
  BY DEF AsksToChangeLabels
<1>2. params[r] = i.params
  BY DEF JudgedAsSent
<1>3. AccountOf(i) \in Accounts /\ Mailbox[AccountOf(i)] # {}
  BY AdmittedAccount, MailboxPerAccount DEF AsksToChangeLabels
<1>4. PICK m \in Mailbox[AccountOf(i)] : NeedsLabels(i) => t \in LabelTables(m)
  BY <1>3 DEF LookupDiscipline, LabelsKnown, Settled, Reported, Judged
<1>5. g.add # {} \/ g.remove # {} => t \in LabelTables(m)
  BY <1>1, <1>4 DEF NeedsLabels, LabelActions, hasAnyLabelConstraints
<1>6. ~rewriteGmailThreadModify(g, t, i.params).accepted
  BY <1>1, <1>2 DEF ValidateAndRewrite
<1>7. ~LabelChangeAllowed(g, t, i.params)
  BY <1>1, <1>6, GivenThreadId DEF rewriteGmailThreadModify, Outcome
<1>8. StringSlice(i.params, "add") # <<>> \/ StringSlice(i.params, "remove") # <<>>
  <2>1. Range(<<>>) = {}
    BY DEF Range
  <2> QED
    BY <1>1, <2>1 DEF Changes
<1>9. ~ChangesListed(i, m)
  <2> SUFFICES ASSUME ChangesListed(i, m) PROVE FALSE
    OBVIOUS
  <2>1. validateLabels(StringSlice(i.params, "add"), g.add, FALSE, t)
    BY <1>5, ListedChangeIsValid DEF ChangesListed
  <2>2. validateLabels(StringSlice(i.params, "remove"), g.remove, FALSE, t)
    BY <1>5, ListedChangeIsValid DEF ChangesListed
  <2> QED
    BY <1>7, <1>8, <2>1, <2>2 DEF LabelChangeAllowed
<1> QED
  BY <1>9

\* What AllowedChangesPass says of one request.
ListedPasses(code, i) ==
  code = "forbidden" /\ AsksToChangeLabels(i) =>
    \E mail \in Mailbox[AccountOf(i)] : ~ChangesListed(i, mail)

\* No step of a handler or a client refuses a change of listed labels.
LEMMA StepKeepsListedPasses ==
  ASSUME PromiseInv, AllowedChangesPass, NEW r \in Requests,
         (Handle(r) /\ ~Overflow(r)) \/ Client(r)
  PROVE  \A s \in Requests : ListedPasses(answer'[s], input'[s])
<1> DEFINE Goal == \A s \in Requests : ListedPasses(answer'[s], input'[s])
           i == input[r]
<1>0. /\ TypeOK /\ LookupDiscipline /\ JudgedAsSent
      /\ \A s \in Requests : ListedPasses(answer[s], input[s])
      /\ pc[r] # "answered" => answer[r] = Unanswered
  BY DEF PromiseInv, LookupDiscipline, AllowedChangesPass, ListedPasses, RunDiscipline,
         RunMatchesPhase
<1>1. ASSUME UNCHANGED <<input, answer>> PROVE Goal
  BY <1>0, <1>1
<1>2. ASSUME NEW code, Reply(r, code), UNCHANGED input, ListedPasses(code, i) PROVE Goal
  BY <1>0, <1>2 DEF Reply, TypeOK
<1>3. ASSUME NEW code, code # "forbidden" PROVE ListedPasses(code, i)
  BY <1>3 DEF ListedPasses
<1>4. ASSUME AdmissionRefusal(i) # Unanswered \/ NeedsRange(ActionOf(i))
      PROVE  ListedPasses("forbidden", i)
  BY <1>4 DEF ListedPasses, AsksToChangeLabels, NeedsRange
<1> USE DEF requestVars, labelVars
<1>5. Refuse(r) => Goal
  BY <1>2, <1>3, <1>4 DEF Refuse
<1>6. Admit(r) \/ EnterOnce(r) \/ LabelsArrive(r) \/ LabelsFail(r) \/ ClientGone(r) => Goal
  BY <1>1 DEF Admit, EnterOnce, LabelsArrive, LabelsFail, ClientGone
<1>7. LeaveOnce(r) => Goal
  BY <1>1, <1>2, <1>3 DEF LeaveOnce
<1>8. Rewrite(r) => Goal
  <2> SUFFICES ASSUME Rewrite(r) PROVE Goal
    OBVIOUS
  <2> DEFINE out == ValidateAndRewrite(PolicyOf(i), table[AccountOf(i)], ActionOf(i), params[r])
  <2>1. pc[r] = "rewrite" /\ UNCHANGED input
    BY DEF Rewrite
  <2>2. CASE ~out.accepted /\ Reply(r, "forbidden")
    <3>1. ListedPasses("forbidden", i)
      BY <1>0, <2>1, <2>2, RefusedChangeIsUnlisted DEF ListedPasses
    <3> QED
      BY <1>2, <2>1, <2>2, <3>1
  <2>3. CASE Reply(r, "ok") \/ UNCHANGED answer
    BY <1>1, <1>2, <1>3, <2>1, <2>3
  <2> QED
    BY <2>2, <2>3 DEF Rewrite
<1>9. RewriteCalendar(r) => Goal
  BY <1>1, <1>2, <1>4 DEF RewriteCalendar
<1>10. RangeResolved(r) \/ RangeFails(r) => Goal
  <2>1. pc[r] = "range" => NeedsRange(ActionOf(i))
    BY <1>0 DEF JudgedAsSent
  <2> QED
    BY <1>1, <1>2, <1>4, <2>1 DEF RangeResolved, RangeFails
<1>11. RunGog(r) \/ GogSucceeds(r) \/ GogFails(r) => Goal
  BY <1>1, <1>2, <1>3 DEF RunGog, GogSucceeds, GogFails
<1>12. Receive(r) => Goal
  <2> SUFFICES ASSUME Receive(r) PROVE Goal
    OBVIOUS
  <2>1. answer[r] = Unanswered /\ UNCHANGED answer
    BY <1>0 DEF Receive
  <2>2. \A s \in Requests : s # r => input'[s] = input[s]
    BY <1>0 DEF Receive, TypeOK
  <2> QED
    BY <1>0, <2>1, <2>2 DEF ListedPasses, Unanswered
<1>13. NextRequest(r) => Goal
  BY <1>0 DEF NextRequest, ListedPasses, Unanswered, TypeOK
<1> QED
  BY <1>5, <1>6, <1>7, <1>8, <1>9, <1>10, <1>11, <1>12, <1>13 DEF Handle, Client

\* A request to change labels the policy lists is not refused, by whatever word
\* it or the policy names them, and whenever it comes: before, during or after
\* the lookup, or after a restart (policy.go:406-440, broker.go:77-84).
THEOREM AllowedChangesPassAlways == Spec => []AllowedChangesPass
<1>1. Init => AllowedChangesPass
  BY DEF Init, AllowedChangesPass, Unanswered
<1>2. PromiseInv /\ AllowedChangesPass /\ [Next]_vars => AllowedChangesPass'
  <2> SUFFICES ASSUME PromiseInv, AllowedChangesPass, [Next]_vars
               PROVE  \A s \in Requests : ListedPasses(answer'[s], input'[s])
    BY DEF AllowedChangesPass, ListedPasses
  <2>1. CASE \E r \in Requests : (Handle(r) /\ ~Overflow(r)) \/ Client(r)
    BY <2>1, StepKeepsListedPasses
  <2>2. CASE UNCHANGED <<input, answer>>
    BY <2>2 DEF AllowedChangesPass, ListedPasses
  <2> QED
    BY <2>1, <2>2 DEF Next, Handle, Overflow, Crash, Die, Restart, vars, requestVars
<1>3. LookupDiscipline /\ TypeOK /\ RunMatchesPhase /\ AnswerIsTrue /\ JudgedAsSent
        => PromiseInv
  BY DEF PromiseInv, RunDiscipline
<1> QED
  BY <1>1, <1>2, <1>3, TypeCorrect, LookupIsDisciplined, RunsMatchPhases,
     JudgedAsSentAlways, PTL DEF Spec
=============================================================================
