--------------------------- MODULE ExchangeProofs ---------------------------
(***************************************************************************)
(* Proofs about Exchange, for any requests and any time limits.            *)
(*                                                                         *)
(* The bound on handlers is not inductive: a handler that waits for a      *)
(* lookup is bounded because the lookup is older than its wait (Limits),   *)
(* there is one lookup while once.Do runs (OneLookup), and that one is     *)
(* never older than GogTimeout.                                            *)
(***************************************************************************)
EXTENDS Exchange, TLAPS

OneLookup ==
  /\ once = "running" => \E q \in Requests : phase[q] = "lookup"
  /\ \A q \in Requests : phase[q] = "lookup" => once = "running"
  /\ \A q, r \in Requests : phase[q] = "lookup" /\ phase[r] = "lookup" => q = r

Limits ==
  \A r \in Requests :
    /\ phase[r] \in GogPhases => gogAge[r] <= GogTimeout
    /\ phase[r] \in {"lookup", "zone"} => age[r] = gogAge[r]
    /\ phase[r] = "run" => age[r] <= GogTimeout + gogAge[r]
    /\ phase[r] = "labels" => age[r] <= GogTimeout /\ (once = "new" => age[r] = 0)
    /\ phase[r] = "labels" =>
         \A q \in Requests : phase[q] = "lookup" => age[r] <= gogAge[q]

IInv == TypeOK /\ OneLookup /\ Limits /\ FastAnswersArrive

\* The strengthening implies the bound on handlers.
LEMMA IInvImpliesBounded ==
  ASSUME IInv PROVE HandlersAreBounded
BY TimeoutsAssumption, SMTT(30) DEF IInv, TypeOK, Limits, HandlersAreBounded, GogPhases, Active

LEMMA InitIInv == Init => IInv
BY TimeoutsAssumption
   DEF Init, IInv, TypeOK, OneLookup, Limits, FastAnswersArrive, Phases, Active, GogPhases,
       ClientStates, Gone

\* Every step keeps the types.
LEMMA TypeStep == ASSUME TypeOK, [Next]_vars PROVE TypeOK'
<1> USE TimeoutsAssumption DEF TypeOK, Phases, Active, GogPhases, ClientStates, Gone
<1>1. CASE UNCHANGED vars
  BY <1>1 DEF vars
<1>2. CASE Tick
  BY <1>2 DEF Tick, Older
<1>3. ASSUME NEW r \in Requests, Send(r) \/ NextRequest(r) \/ GiveUp(r) \/ Cancel(r)
      PROVE  TypeOK'
  <2>1. CASE Send(r)
    BY <2>1 DEF Send
  <2>2. CASE NextRequest(r)
    BY <2>2 DEF NextRequest
  <2>3. CASE GiveUp(r) \/ Cancel(r)
    BY <2>3 DEF GiveUp, Cancel
  <2> QED BY <1>3, <2>1, <2>2, <2>3
<1>4. ASSUME NEW r \in Requests, Handler(r) PROVE TypeOK'
  <2>1. CASE EnterOnce(r) \/ LookupEnds(r)
    BY <2>1 DEF EnterOnce, LookupEnds, LookupOutcomes
  <2>2. CASE LeaveOnce(r) \/ ZoneKnown(r)
    BY <2>2 DEF LeaveOnce, ZoneKnown, StartRun, Reply, Delivered
  <2>3. CASE RunSucceeds(r) \/ RunFails(r)
    BY <2>3 DEF RunSucceeds, RunFails, Reply, Delivered
  <2> QED BY <1>4, <2>1, <2>2, <2>3 DEF Handler
<1> QED BY <1>1, <1>2, <1>3, <1>4 DEF Next

\* An answer that can be late is that of a handler that took longer than two
\* runs of gog.
LEMMA ReplyArrives ==
  ASSUME NEW r \in Requests, TypeOK, FastAnswersArrive,
         phase[r] \in Active, age[r] <= 2 * GogTimeout,
         NEW code \in ClientStates, code # "broken", Reply(r, code)
  PROVE  FastAnswersArrive'
BY TimeoutsAssumption DEF FastAnswersArrive, Reply, Delivered, TypeOK, ClientStates, Gone

\* A handler that has returned leaves the rest of the bounds alone.
LEMMA ReplyKeepsLimits ==
  ASSUME NEW r \in Requests, TypeOK, OneLookup, Limits, phase[r] \in Active \ {"lookup"},
         NEW code \in ClientStates, Reply(r, code),
         UNCHANGED <<age, gogAge, once>>
  PROVE  (OneLookup /\ Limits)'
BY DEF TypeOK, OneLookup, Limits, Reply, GogPhases, Active

\* So does one that starts its action no later than one run of gog.
LEMMA StartKeepsLimits ==
  ASSUME NEW r \in Requests, TypeOK, OneLookup, Limits, phase[r] \in {"labels", "zone"},
         StartRun(r), UNCHANGED <<age, once>>
  PROVE  (OneLookup /\ Limits)'
BY TimeoutsAssumption DEF TypeOK, OneLookup, Limits, StartRun, GogPhases, Active

\* Every step of a handler keeps the bounds.
LEMMA HandlerStep ==
  ASSUME IInv, NEW r \in Requests, Handler(r)
  PROVE  (OneLookup /\ Limits /\ FastAnswersArrive)'
<1>0. TypeOK /\ OneLookup /\ Limits /\ FastAnswersArrive /\ HandlersAreBounded
  BY IInvImpliesBounded DEF IInv
<1> USE <1>0, TimeoutsAssumption
<1>1. CASE EnterOnce(r)
  <2>1. OneLookup'
    BY <1>1 DEF EnterOnce, TypeOK, OneLookup
  <2>2. Limits'
    BY <1>1 DEF EnterOnce, TypeOK, OneLookup, Limits, GogPhases
  <2>3. FastAnswersArrive'
    BY <1>1 DEF EnterOnce, FastAnswersArrive
  <2> QED BY <2>1, <2>2, <2>3
<1>2. CASE LookupEnds(r)
  <2>1. once' \in {"ok", "failed"} /\ phase' = [phase EXCEPT ![r] = "labels"]
        /\ UNCHANGED <<age, gogAge, client>> /\ phase[r] = "lookup"
    BY <1>2 DEF LookupEnds, LookupOutcomes
  <2>2. OneLookup'
    BY <2>1 DEF TypeOK, OneLookup
  <2>3. Limits'
    BY <2>1 DEF TypeOK, OneLookup, Limits, GogPhases
  <2>4. FastAnswersArrive'
    BY <2>1 DEF FastAnswersArrive
  <2> QED BY <2>2, <2>3, <2>4
<1>3. ASSUME phase[r] \in {"labels", "zone"}, StartRun(r), UNCHANGED <<age, once, client>>
      PROVE  (OneLookup /\ Limits /\ FastAnswersArrive)'
  BY <1>3, StartKeepsLimits DEF FastAnswersArrive
<1>4. ASSUME NEW code \in {"ok", "error"}, phase[r] \in {"labels", "zone", "run"},
             Reply(r, code), UNCHANGED <<age, gogAge, once>>
      PROVE  (OneLookup /\ Limits /\ FastAnswersArrive)'
  <2>1. phase[r] \in Active \ {"lookup"} /\ age[r] <= 2 * GogTimeout
    BY <1>4 DEF HandlersAreBounded, Active, GogPhases
  <2> QED BY <1>4, <2>1, ReplyArrives, ReplyKeepsLimits DEF ClientStates, Gone
<1>5. CASE LeaveOnce(r)
  BY <1>5, <1>3, <1>4 DEF LeaveOnce
<1>6. CASE ZoneKnown(r)
  BY <1>6, <1>3, <1>4 DEF ZoneKnown
<1>7. CASE RunSucceeds(r) \/ RunFails(r)
  BY <1>7, <1>4 DEF RunSucceeds, RunFails
<1> QED BY <1>1, <1>2, <1>5, <1>6, <1>7 DEF Handler

\* A waiting handler is younger than the lookup it waits for.
LEMMA TickStep ==
  ASSUME IInv, Tick
  PROVE  (OneLookup /\ Limits /\ FastAnswersArrive)'
<1> USE TimeoutsAssumption DEF IInv
<1>1. OneLookup' /\ FastAnswersArrive'
  BY DEF Tick, OneLookup, FastAnswersArrive
<1>2. ASSUME NEW r \in Requests, phase[r] = "labels"
      PROVE  age[r] + 1 <= GogTimeout
  <2>1. PICK q \in Requests : phase[q] = "lookup"
    BY <1>2 DEF Tick, Waits, OneLookup
  <2>2. gogAge[q] < GogTimeout /\ age[r] <= gogAge[q]
    BY <1>2, <2>1 DEF Tick, Waits, Limits, GogPhases
  <2> QED BY <2>2 DEF TypeOK
<1>3. \A r \in Requests : phase[r] = "labels" => once = "running"
  BY DEF Tick, Waits
<1>4. Limits'
  BY <1>2, <1>3 DEF Tick, Waits, Older, TypeOK, Limits, GogPhases, Active
<1> QED BY <1>1, <1>4

LEMMA NextIInv == IInv /\ [Next]_vars => IInv'
<1> SUFFICES ASSUME IInv, [Next]_vars PROVE IInv'
  OBVIOUS
<1>1. TypeOK'
  BY TypeStep DEF IInv
<1>2. (OneLookup /\ Limits /\ FastAnswersArrive)'
  <2> USE TimeoutsAssumption DEF IInv
  <2>1. CASE UNCHANGED vars
    BY <2>1 DEF vars, OneLookup, Limits, FastAnswersArrive
  <2>2. CASE Tick
    BY <2>2, TickStep
  <2>3. ASSUME NEW r \in Requests, Send(r)
        PROVE  (OneLookup /\ Limits /\ FastAnswersArrive)'
    <3>1. OneLookup' /\ FastAnswersArrive'
      BY <2>3 DEF Send, TypeOK, OneLookup, FastAnswersArrive
    <3>2. Limits'
      BY <2>3 DEF Send, TypeOK, OneLookup, Limits, GogPhases
    <3> QED BY <3>1, <3>2
  <2>4. ASSUME NEW r \in Requests, NextRequest(r)
        PROVE  (OneLookup /\ Limits /\ FastAnswersArrive)'
    BY <2>4 DEF NextRequest, TypeOK, OneLookup, Limits, FastAnswersArrive, GogPhases
  <2>5. ASSUME NEW r \in Requests, GiveUp(r) \/ Cancel(r)
        PROVE  (OneLookup /\ Limits /\ FastAnswersArrive)'
    BY <2>5 DEF GiveUp, Cancel, TypeOK, OneLookup, Limits, FastAnswersArrive
  <2> QED BY <2>1, <2>2, <2>3, <2>4, <2>5, HandlerStep DEF Next
<1> QED BY <1>1, <1>2 DEF IInv

LEMMA IInvAlways == Spec => []IInv
BY InitIInv, NextIInv, PTL DEF Spec

\* In any behaviour with any time limits, no handler takes longer than two runs
\* of gog may (ensureLabelMap and Run: once.Do never tries a lookup again).
THEOREM HandlersAreBoundedAlways == Spec => []HandlersAreBounded
<1>1. IInv => HandlersAreBounded
  BY IInvImpliesBounded
<1> QED BY <1>1, IInvAlways, PTL

\* For all time limits with room for two runs of gog before WriteTimeout, no
\* answer is lost to it (http.go:69-73).
THEOREM FastAnswersArriveAlways == Spec => []FastAnswersArrive
<1>1. IInv => FastAnswersArrive
  BY DEF IInv
<1> QED BY <1>1, IInvAlways, PTL

\* When time has passed since a client gave up, its request is cancelled.
Forsaken ==
  \A r \in Requests :
    late[r] => phase[r] # "idle" /\ (phase[r] \in Active => client[r] \in Gone /\ cancelled[r])

\* No more is done for the client of r once it is forsaken.
DoneNoMore(r) == late[r] /\ phase'[r] # "idle" => acted'[r] = acted[r]

LEMMA ForsakenHandlerStep ==
  ASSUME TypeOK, Forsaken, NEW r \in Requests, Handler(r)
  PROVE  Forsaken' /\ \A q \in Requests : DoneNoMore(q)
<1> USE DEF TypeOK, Forsaken, DoneNoMore, Active, GogPhases
<1>1. ASSUME phase[r] \in Active, StartRun(r), UNCHANGED <<cancelled, late, client>>
      PROVE  Forsaken' /\ \A q \in Requests : DoneNoMore(q)
  BY <1>1 DEF StartRun
<1>2. ASSUME phase' = [phase EXCEPT ![r] = "over"], UNCHANGED <<cancelled, late>>,
             \A q \in Requests \ {r} : client'[q] = client[q]
      PROVE  Forsaken'
  BY <1>2
<1>3. ASSUME NEW code, Reply(r, code)
      PROVE  /\ phase' = [phase EXCEPT ![r] = "over"]
             /\ \A q \in Requests \ {r} : client'[q] = client[q]
  BY <1>3 DEF Reply
<1>4. CASE EnterOnce(r) \/ LookupEnds(r)
  BY <1>4 DEF EnterOnce, LookupEnds
<1>5. CASE LeaveOnce(r)
  BY <1>5, <1>1, <1>2, <1>3 DEF LeaveOnce
<1>6. CASE ZoneKnown(r)
  BY <1>6, <1>1, <1>2, <1>3 DEF ZoneKnown
<1>7. CASE RunSucceeds(r)
  <2>1. ~cancelled[r] /\ phase[r] \in Active /\ acted' = [acted EXCEPT ![r] = "done"]
        /\ UNCHANGED <<cancelled, late>>
    BY <1>7 DEF RunSucceeds, GogMaySucceed
  <2>2. ~late[r]
    BY <2>1
  <2> QED BY <1>7, <2>1, <2>2, <1>2, <1>3 DEF RunSucceeds
<1>8. CASE RunFails(r)
  BY <1>8, <1>2, <1>3 DEF RunFails
<1> QED BY <1>4, <1>5, <1>6, <1>7, <1>8 DEF Handler

LEMMA ForsakenStep ==
  ASSUME TypeOK, Forsaken, Next
  PROVE  Forsaken' /\ \A q \in Requests : DoneNoMore(q)
<1> USE DEF TypeOK, Forsaken, DoneNoMore, Active, GogPhases, Gone
<1>1. CASE Tick
  BY <1>1 DEF Tick, Waits, CanCancel, ReadEnds
<1>2. ASSUME NEW r \in Requests, Send(r)
      PROVE  Forsaken' /\ \A q \in Requests : DoneNoMore(q)
  BY <1>2 DEF Send
<1>3. ASSUME NEW r \in Requests, NextRequest(r)
      PROVE  Forsaken' /\ \A q \in Requests : DoneNoMore(q)
  BY <1>3 DEF NextRequest
<1>4. ASSUME NEW r \in Requests, GiveUp(r) \/ Cancel(r)
      PROVE  Forsaken' /\ \A q \in Requests : DoneNoMore(q)
  BY <1>4 DEF GiveUp, Cancel
<1> QED BY <1>1, <1>2, <1>3, <1>4, ForsakenHandlerStep DEF Next

\* Whatever the limits, once time has passed since a client gave up its action is
\* neither started nor completed (http.go:58, runner.go:179).
THEOREM NothingIsDoneForTheGoneAlways == Spec => NothingIsDoneForTheGone
<1>1. Init => Forsaken
  BY DEF Init, Forsaken
<1>2. ASSUME TypeOK, Forsaken, [Next]_vars
      PROVE  Forsaken'
  <2>1. CASE UNCHANGED vars
    BY <1>2, <2>1 DEF vars, Forsaken
  <2> QED BY <1>2, <2>1, ForsakenStep
<1>3. ASSUME TypeOK, Forsaken, [Next]_vars
      PROVE  [\A r \in Requests : late[r] /\ phase'[r] # "idle" => acted'[r] = acted[r]]_vars
  BY <1>3, ForsakenStep DEF DoneNoMore
<1>4. IInv => TypeOK
  BY DEF IInv
<1> QED BY <1>1, <1>2, <1>3, <1>4, IInvAlways, PTL DEF NothingIsDoneForTheGone, Spec
=============================================================================
