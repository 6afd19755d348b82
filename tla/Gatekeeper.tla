----------------------------- MODULE Gatekeeper -----------------------------
(***************************************************************************)
(* What the broker promises, without a word on how: between a client's     *)
(* request and its answer gog acts at most once on its behalf, and only as *)
(* it is permitted to; the answer tells the truth about it; and a request  *)
(* whose broker dies is not answered at all.                               *)
(***************************************************************************)
CONSTANTS
  Requests,           \* the slots of requests
  Inputs,             \* the requests a client may send
  Permitted(_, _),    \* gog may do this for this request
  Truthful(_, _, _)   \* of a request, and whether gog acted, this may be said

VARIABLES
  stage,    \* of each request: idle, pending, answered or lost
  asked,    \* the request
  effect,   \* what gog did for it
  verdict   \* the answer

NoEffect == [none |-> "run"]
Nothing == [none |-> "input"]
Unanswered == "none"

promiseVars == <<stage, asked, effect, verdict>>

Init ==
  /\ stage = [r \in Requests |-> "idle"]
  /\ asked = [r \in Requests |-> Nothing]
  /\ effect = [r \in Requests |-> NoEffect]
  /\ verdict = [r \in Requests |-> Unanswered]

Ask(r) ==
  /\ stage[r] = "idle"
  /\ stage' = [stage EXCEPT ![r] = "pending"]
  /\ \E i \in Inputs : asked' = [asked EXCEPT ![r] = i]
  /\ UNCHANGED <<effect, verdict>>

\* gog acts for the request, once.
Act(r) ==
  /\ stage[r] = "pending" /\ effect[r] = NoEffect
  /\ effect' = [effect EXCEPT ![r] = effect'[r]]
  /\ effect'[r] # NoEffect
  /\ Permitted(asked[r], effect'[r])
  /\ UNCHANGED <<stage, asked, verdict>>

Answer(r) ==
  /\ stage[r] = "pending"
  /\ stage' = [stage EXCEPT ![r] = "answered"]
  /\ verdict' = [verdict EXCEPT ![r] = verdict'[r]]
  /\ Truthful(asked[r], effect[r] # NoEffect, verdict'[r])
  /\ verdict'[r] # Unanswered
  /\ UNCHANGED <<asked, effect>>

\* A broker that dies answers none of the requests it had accepted.
Lose ==
  /\ stage' = [r \in Requests |-> IF stage[r] = "pending" THEN "lost" ELSE stage[r]]
  /\ UNCHANGED <<asked, effect, verdict>>

Done(r) ==
  /\ stage[r] \in {"answered", "lost"}
  /\ stage' = [stage EXCEPT ![r] = "idle"]
  /\ asked' = [asked EXCEPT ![r] = Nothing]
  /\ effect' = [effect EXCEPT ![r] = NoEffect]
  /\ verdict' = [verdict EXCEPT ![r] = Unanswered]

Next == (\E r \in Requests : Ask(r) \/ Act(r) \/ Answer(r) \/ Done(r)) \/ Lose

Spec == Init /\ [][Next]_promiseVars
=============================================================================
