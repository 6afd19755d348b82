------------------------------ MODULE Exchange ------------------------------
(***************************************************************************)
(* The time a request takes, from the client's doRequest over net/http to  *)
(* the broker's handler and its runs of gog, each of which has a time      *)
(* limit of its own: the client's --timeout, ReadTimeout and WriteTimeout  *)
(* of the server, and the Timeout of a gog run.                            *)
(*                                                                         *)
(* Time is counted in ticks.  Only gog takes time: a tick passes when no   *)
(* handler can go on without gog and no limit is reached.  The requests    *)
(* are those of one account, whose label lookup they share (Broker models  *)
(* what they ask for, and how the process dies).  late is a history        *)
(* variable.                                                               *)
(***************************************************************************)
EXTENDS Naturals

CONSTANTS
  Requests,
  ClientTimeout, ReadTimeout, WriteTimeout, GogTimeout

ASSUME TimeoutsAssumption ==
  /\ ClientTimeout \in Nat \ {0} /\ ReadTimeout \in Nat \ {0}
  /\ WriteTimeout \in Nat \ {0} /\ GogTimeout \in Nat \ {0}

VARIABLES
  phase,      \* where the handler is: idle, at once.Do, in one of the runs of gog, over
  age,        \* how long ago the request was sent
  gogAge,     \* how long its gog has run
  cancelled,  \* its context is cancelled
  acted,      \* its action: not started, started, done
  client,     \* what the client knows
  late,       \* time has passed since its client gave up
  once        \* the label lookup: new, running, ok, failed

vars == <<phase, age, gogAge, cancelled, acted, client, late, once>>

GogPhases == {"lookup", "zone", "run"}
Active == GogPhases \cup {"labels"}
Phases == Active \cup {"idle", "over"}
Gone == {"timeout", "broken"}
ClientStates == Gone \cup {"idle", "waiting", "ok", "error"}

TypeOK ==
  /\ phase \in [Requests -> Phases]
  /\ age \in [Requests -> Nat] /\ gogAge \in [Requests -> Nat]
  /\ cancelled \in [Requests -> BOOLEAN]
  /\ acted \in [Requests -> {"no", "started", "done"}]
  /\ client \in [Requests -> ClientStates]
  /\ late \in [Requests -> BOOLEAN]
  /\ once \in {"new", "running", "ok", "failed"}

Init ==
  /\ phase = [r \in Requests |-> "idle"]
  /\ age = [r \in Requests |-> 0] /\ gogAge = [r \in Requests |-> 0]
  /\ cancelled = [r \in Requests |-> FALSE]
  /\ acted = [r \in Requests |-> "no"]
  /\ client = [r \in Requests |-> "idle"]
  /\ late = [r \in Requests |-> FALSE]
  /\ once = "new"

\* Faulty: gog is started whatever has become of the context.
StartAnyway(r) ==
  /\ phase' = [phase EXCEPT ![r] = "run"]
  /\ gogAge' = [gogAge EXCEPT ![r] = 0]
  /\ acted' = [acted EXCEPT ![r] = "started"]

\* The run of the action starts, within the handler; gog itself does not when
\* the context is cancelled.
StartRun(r) ==
  /\ phase' = [phase EXCEPT ![r] = "run"]
  /\ gogAge' = [gogAge EXCEPT ![r] = 0]
  /\ acted' = [acted EXCEPT ![r] = IF cancelled[r] THEN @ ELSE "started"]

\* What a client that waits gets of an answer that is written now: nothing when
\* the deadline for writing has passed.
Delivered(r, code) ==
  IF client[r] # "waiting" THEN {client[r]}
  ELSE (IF age[r] <= WriteTimeout THEN {code} ELSE {})
         \cup (IF age[r] >= WriteTimeout THEN {"broken"} ELSE {})

\* The handler returns and net/http writes its answer.
Reply(r, code) ==
  /\ phase' = [phase EXCEPT ![r] = "over"]
  /\ \E got \in Delivered(r, code) : client' = [client EXCEPT ![r] = got]

-----------------------------------------------------------------------------
\* A client sends a request: one whose handler comes to once.Do, to the time
\* zone, or to its action, or one that is answered without gog: it is refused,
\* or it is policy.actions, which is done with its answer.
Send(r) ==
  /\ phase[r] = "idle"
  /\ age' = [age EXCEPT ![r] = 0] /\ gogAge' = [gogAge EXCEPT ![r] = 0]
  /\ \/ /\ \E p \in {"labels", "zone", "run"} :
             /\ phase' = [phase EXCEPT ![r] = p]
             /\ acted' = [acted EXCEPT ![r] = IF p = "run" THEN "started" ELSE @]
        /\ client' = [client EXCEPT ![r] = "waiting"]
     \/ /\ phase' = [phase EXCEPT ![r] = "over"]
        /\ \/ client' = [client EXCEPT ![r] = "error"] /\ UNCHANGED acted
           \/ /\ client' = [client EXCEPT ![r] = "ok"]
              /\ acted' = [acted EXCEPT ![r] = "done"]
  /\ UNCHANGED <<cancelled, late, once>>

\* The slot of a request takes another one.
NextRequest(r) ==
  /\ phase[r] = "over"
  /\ phase' = [phase EXCEPT ![r] = "idle"]
  /\ client' = [client EXCEPT ![r] = "idle"]
  /\ acted' = [acted EXCEPT ![r] = "no"]
  /\ cancelled' = [cancelled EXCEPT ![r] = FALSE]
  /\ age' = [age EXCEPT ![r] = 0] /\ gogAge' = [gogAge EXCEPT ![r] = 0]
  /\ late' = [late EXCEPT ![r] = FALSE]
  /\ UNCHANGED once

\* The client gives up, because its time is over or its user stops it.
GiveUp(r) ==
  /\ client[r] = "waiting"
  /\ client' = [client EXCEPT ![r] = "timeout"]
  /\ UNCHANGED <<phase, age, gogAge, cancelled, acted, late, once>>

\* Faulty: handlers get a context that does not end with the connection.
DeadlineOnly(r) == age[r] >= ReadTimeout

\* net/http reads on behind the request: the end of the connection cancels the
\* context, and so may the read deadline once it has passed.
ReadEnds(r) == client[r] \in Gone \/ age[r] >= ReadTimeout

CanCancel(r) == phase[r] \in Active /\ ~cancelled[r] /\ ReadEnds(r)

Cancel(r) ==
  /\ CanCancel(r)
  /\ cancelled' = [cancelled EXCEPT ![r] = TRUE]
  /\ UNCHANGED <<phase, age, gogAge, acted, client, late, once>>

-----------------------------------------------------------------------------
\* gog may succeed; it is killed when its time is over or the context cancelled.
GogMaySucceed(r) == ~cancelled[r]

\* Faulty: once.Do runs again after a failure; it is not released by one.
RetriedOutcomes(r) == {"new"} \cup (IF GogMaySucceed(r) THEN {"ok"} ELSE {})
StuckOutcomes(r) == {"running"} \cup (IF GogMaySucceed(r) THEN {"ok"} ELSE {})

\* What the lookup leaves behind.
LookupOutcomes(r) == {"failed"} \cup (IF GogMaySucceed(r) THEN {"ok"} ELSE {})

EnterOnce(r) ==
  /\ phase[r] = "labels" /\ once = "new"
  /\ once' = "running"
  /\ phase' = [phase EXCEPT ![r] = "lookup"]
  /\ gogAge' = [gogAge EXCEPT ![r] = 0]
  /\ UNCHANGED <<age, cancelled, acted, client, late>>

LookupEnds(r) ==
  /\ phase[r] = "lookup"
  /\ once' \in LookupOutcomes(r)
  /\ phase' = [phase EXCEPT ![r] = "labels"]
  /\ UNCHANGED <<age, gogAge, cancelled, acted, client, late>>

LeaveOnce(r) ==
  /\ phase[r] = "labels"
  /\ \/ /\ once = "ok"
        /\ \/ StartRun(r) /\ UNCHANGED client
           \/ Reply(r, "error") /\ UNCHANGED <<gogAge, acted>>
     \/ /\ once = "failed"
        /\ Reply(r, "error") /\ UNCHANGED <<gogAge, acted>>
  /\ UNCHANGED <<age, cancelled, late, once>>

\* The time zone is known, or local time will do; or the range is refused.
ZoneKnown(r) ==
  /\ phase[r] = "zone"
  /\ \/ StartRun(r) /\ UNCHANGED client
     \/ Reply(r, "error") /\ UNCHANGED <<gogAge, acted>>
  /\ UNCHANGED <<age, cancelled, late, once>>

\* The action is done, and its result shown or refused.
RunSucceeds(r) ==
  /\ phase[r] = "run" /\ GogMaySucceed(r)
  /\ acted' = [acted EXCEPT ![r] = "done"]
  /\ \E code \in {"ok", "error"} : Reply(r, code)
  /\ UNCHANGED <<age, gogAge, cancelled, late, once>>

RunFails(r) ==
  /\ phase[r] = "run"
  /\ Reply(r, "error")
  /\ UNCHANGED <<age, gogAge, cancelled, acted, late, once>>

-----------------------------------------------------------------------------
\* Nothing has to happen for r before time goes on: its handler waits for gog,
\* or for another's lookup, its client still waits, or the reader of its
\* connection has seen that it does not.
Waits(r) ==
  /\ phase[r] \in GogPhases => ~cancelled[r] /\ gogAge[r] < GogTimeout
  /\ phase[r] = "labels" => once = "running"
  /\ client[r] = "waiting" => age[r] < ClientTimeout
  /\ client[r] \in Gone => ~CanCancel(r)

Older(r) == IF phase[r] \in Active THEN age[r] + 1 ELSE age[r]

Tick ==
  /\ \A r \in Requests : Waits(r)
  /\ \E r \in Requests : phase[r] \in Active
  /\ age' = [r \in Requests |-> Older(r)]
  /\ gogAge' = [r \in Requests |->
                  IF phase[r] \in GogPhases THEN gogAge[r] + 1 ELSE gogAge[r]]
  /\ late' = [r \in Requests |-> late[r] \/ (phase[r] \in Active /\ client[r] \in Gone)]
  /\ UNCHANGED <<phase, cancelled, acted, client, once>>

Handler(r) ==
  EnterOnce(r) \/ LookupEnds(r) \/ LeaveOnce(r) \/ ZoneKnown(r) \/ RunSucceeds(r) \/ RunFails(r)

Next ==
  \/ \E r \in Requests : Send(r) \/ NextRequest(r) \/ GiveUp(r) \/ Cancel(r) \/ Handler(r)
  \/ Tick

Spec == Init /\ [][Next]_vars

\* The scheduler is fair to handlers and to net/http's readers, clients see to
\* their own time limit, and time goes on.
FairSpec ==
  /\ Spec /\ WF_vars(Tick)
  /\ \A r \in Requests : /\ WF_vars(Handler(r)) /\ WF_vars(Cancel(r))
                         /\ WF_vars(age[r] >= ClientTimeout /\ GiveUp(r))

-----------------------------------------------------------------------------
(* Properties *)

\* No handler takes longer than two runs of gog may, though the first may be
\* another request's: it waits for one lookup, which is never tried again, and
\* then runs its action (once.Do, broker.go:187-232, and Run, runner.go:176).
HandlersAreBounded ==
  \A r \in Requests : phase[r] \in Active => age[r] <= 2 * GogTimeout

\* Where two runs of gog fit into WriteTimeout, no answer comes too late to be
\* written: whoever waits for one gets it (http.go:69-73, runner.go:176).
FastAnswersArrive ==
  2 * GogTimeout < WriteTimeout => \A r \in Requests : client[r] # "broken"

\* What a client asked for is not done long after it has given up: within that
\* moment gog may still be started, or succeed; once time has passed, the action is
\* neither started nor completed, not by a handler that waited for another's
\* lookup, nor by one that was resolving a range (r.Context(), http.go:58;
\* exec.CommandContext, runner.go:179).
NothingIsDoneForTheGone ==
  [][\A r \in Requests : late[r] /\ phase'[r] # "idle" => acted'[r] = acted[r]]_vars

\* Every handler returns, whoever gives up and whenever: nobody waits for ever
\* for another's lookup, and no limit keeps time from going on
\* (ensureLabelMap, broker.go:187-232).
HandlersEnd == \A r \in Requests : phase[r] = "labels" ~> phase[r] = "over"
=============================================================================
