---------------------------- MODULE ClientBroker ----------------------------
(***************************************************************************)
(* The broker with requests that its own client sends, and others that     *)
(* agents write themselves: what was typed on the command line, and what   *)
(* gog is run with in the end.                                             *)
(*                                                                         *)
(* An input the client makes is a record with two more fields, the command *)
(* and the words of the line it was made from (Typed).                     *)
(***************************************************************************)
EXTENDS BrokerProperties, Client

\* The request of a command line, with the line.
Typed(account, cmd, words) ==
  Put(Put(ClientRequest(account, cmd, words), "cmd", cmd), "words", words)

\* A word as the flag package reads it: an argument, or an option with a number,
\* a switch or a text.
IsWord(w) ==
  CASE w.name = Blank -> w.value = Str(<<w.value.toks[1]>>)
    [] w.name \in NumberOptions -> w.value = Num(w.value.n) /\ w.value.n \in Int
    [] w.name \in SwitchOptions -> w.value = Flag(w.value.on) /\ w.value.on \in BOOLEAN
    [] OTHER -> w.value = Str(w.value.toks) /\ IsSequence(w.value.toks)

\* The requests of the client.
TypedInputs == {i \in Inputs : "words" \in DOMAIN i}

\* Each of them is one the client makes of a line, and sends.
ASSUME InputsAreTyped ==
  \A i \in TypedInputs :
    /\ IsSequence(i.words) /\ \A j \in DOMAIN i.words : IsWord(i.words[j])
    /\ ClientMakes(i.cmd, i.words).accepted
    /\ i = Typed(i.account, i.cmd, i.words)

-----------------------------------------------------------------------------
(* Properties *)

Pieces(value) == {value.toks[i] : i \in DOMAIN value.toks}

\* The argument of gog that is for an option of a command.
ArgumentFor(cmd, name) ==
  CASE name = "id" -> IF cmd = "gmail.get" THEN "message_id" ELSE "thread_id"
    [] cmd = "calendar.freebusy" /\ name = "calendar_id" -> "calendar_ids"
    [] OTHER -> name

\* An argument carries the value of an option; labels lose their blank pieces.
Carries(name, argument, value) ==
  CASE value.type \in {"number", "bool"} -> argument = value
    [] name \in {"add", "remove"} -> Pieces(value) \ {Blank} \subseteq Pieces(argument)
    [] OTHER -> Pieces(value) \subseteq Pieces(argument)

\* The options of a request's line, those before the first argument.
TypedOptions(i) == ParsedOptions(i.cmd, Leading(i.words))

\* An option asks for something; labels that are all blank do not.
AsksFor(name, value) ==
  Says(value) /\ (name \in {"add", "remove"} => ~IsBlank(value.toks))

\* The options of a command that the broker resolves to a range of time.
TimeOptions(cmd) == IF NeedsRange(cmd) THEN TimeParams ELSE {}

\* Every option that asks for something, and is not about time, is there in the
\* arguments of gog, with its value.
Reaches(i, args) ==
  \A name \in DOMAIN TypedOptions(i) \ TimeOptions(i.cmd) :
    LET k == ArgumentFor(i.cmd, name)  value == TypedOptions(i)[name]
    IN  AsksFor(name, value) => k \in DOMAIN args /\ Carries(name, args[k], value)

\* What is typed before the arguments gets to gog (the parse functions of the
\* client, main.go:137-494, rewriteX of policy.go and buildArgs,
\* runner.go:198-269).
TypedReachesGog ==
  \A r \in Requests :
    ran[r] # NoRun /\ input[r] \in TypedInputs => Reaches(input[r], ran[r].args)

\* The mail that the policy turns into a draft is to be in a thread, which a draft
\* has no place for.
DraftInThread(i, p) == "thread_id" \in DOMAIN p /\ RunAction(i, p) = "gmail.drafts.create"

\* gog can be run for the request i once the policy has left p of it: with all but
\* gmail.labels.modify and a draft in a thread.
RunsAllButTwo(i, p) ==
  GogAccepts(RunAction(i, p), p)
    <=> i.action # "gmail.labels.modify" /\ ~DraftInThread(i, p)

\* Of what the client can ask for, gog can be run with all that the policy
\* accepts, each command with any of its options, but for two: never with
\* gmail.labels.modify, and never with a draft in a thread (parseCommand,
\* main.go:93-135, rewriteX of policy.go, and buildArgs, runner.go:198-269).
ClientCommandsRun ==
  \A r \in Requests :
    pc[r] = "run" /\ input[r] \in TypedInputs => RunsAllButTwo(input[r], params[r])
=============================================================================
