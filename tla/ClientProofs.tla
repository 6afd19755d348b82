---------------------------- MODULE ClientProofs ----------------------------
(***************************************************************************)
(* The client with the broker, for every policy file, every mailbox and    *)
(* every set of command lines, whatever other requests there are: what was *)
(* typed is what gog gets, and of what the policy accepts gog can be run   *)
(* with all but two things.                                                *)
(*                                                                         *)
(* gog has been run with what the rules left of a request (RunsAreAccepted)*)
(* and a request of the client is made of a line (InputsAreTyped).  So     *)
(* each command is followed by itself: the parameters its parse function   *)
(* makes of the options, those the policy's rule leaves, and the arguments *)
(* of gog.                                                                 *)
(***************************************************************************)
EXTENDS ClientBroker, BrokerProofs

-----------------------------------------------------------------------------
(* A run of gog is what the rules left of its request *)

RunRight(phase, i, p, e) ==
  /\ e # NoRun => /\ i \in Inputs /\ Accepted(i, p)
                  /\ GogAccepts(RunAction(i, p), p)
                  /\ e.args = GogArgs(RunAction(i, p), p)
  /\ phase = "run" => ActionOf(i) # "policy.actions"

RunsAreAccepted == \A r \in Requests : RunRight(pc[r], input[r], params[r], ran[r])

RunInv == TypeOK /\ RunMatchesPhase /\ JudgedAsSent /\ RunsAreAccepted

\* A step of a handler or a client keeps what it is a step of.
LEMMA StepKeepsRuns ==
  ASSUME RunInv, NEW r \in Requests, (Handle(r) /\ ~Overflow(r)) \/ Client(r)
  PROVE  RunRight(pc'[r], input'[r], params'[r], ran'[r])
         /\ \A s \in Requests : s # r =>
              pc'[s] = pc[s] /\ input'[s] = input[s] /\ params'[s] = params[s]
                /\ ran'[s] = ran[s]
<1> DEFINE
      Goal == RunRight(pc'[r], input'[r], params'[r], ran'[r])
      Others == \A s \in Requests : s # r =>
                   pc'[s] = pc[s] /\ input'[s] = input[s] /\ params'[s] = params[s]
                     /\ ran'[s] = ran[s]
      i == input[r]
<1>0. /\ TypeOK /\ RunRight(pc[r], i, params[r], ran[r])
      /\ pc[r] \in Phases \ (Quiet \cup {"running"}) => ran[r] = NoRun
      /\ pc[r] = "idle" => ran[r] = NoRun
  BY DEF RunInv, RunsAreAccepted, RunMatchesPhase
<1>1. Others
  BY <1>0 DEF TypeOK, Handle, Client, Go, Reply, Refuse, Admit, EnterOnce, LabelsArrive,
     LabelsFail, LeaveOnce, Rewrite, RewriteCalendar, RangeResolved, RangeFails, RunGog,
     GogSucceeds, GogFails, Receive, ClientGone, NextRequest, requestVars, labelVars
<1> USE <1>0 DEF TypeOK, Phases, Quiet, Judged, Go, Reply, requestVars, labelVars
<1>2. Refuse(r) \/ Admit(r) \/ EnterOnce(r) \/ LabelsArrive(r) \/ LabelsFail(r) => Goal
  BY DEF Refuse, Admit, EnterOnce, LabelsArrive, LabelsFail, RunRight
<1>3. LeaveOnce(r) \/ RewriteCalendar(r) \/ RangeFails(r) => Goal
  BY DEF LeaveOnce, RewriteCalendar, RangeFails, RunRight
<1>4. Rewrite(r) => Goal
  <2> SUFFICES ASSUME Rewrite(r) PROVE Goal
    OBVIOUS
  <2>1. /\ pc[r] = "rewrite" /\ UNCHANGED <<input, ran>>
        /\ \/ pc'[r] = "answered"
           \/ pc'[r] = "run" /\ ActionOf(i) # "policy.actions"
    BY DEF Rewrite
  <2> QED
    BY <2>1 DEF RunRight
<1>5. RangeResolved(r) => Goal
  <2> SUFFICES ASSUME RangeResolved(r) PROVE Goal
    OBVIOUS
  <2>1. pc[r] = "range" /\ UNCHANGED <<input, ran>>
    BY DEF RangeResolved
  <2>2. ActionOf(i) # "policy.actions"
    BY <2>1 DEF RunInv, JudgedAsSent, NeedsRange
  <2> QED
    BY <2>1, <2>2 DEF RunRight
<1>6. RunGog(r) => Goal
  <2> SUFFICES ASSUME RunGog(r) PROVE Goal
    OBVIOUS
  <2> DEFINE action == RunAction(i, params[r])
  <2>1. pc[r] = "run" /\ pc'[r] \in {"answered", "running"} /\ UNCHANGED <<input, params>>
    BY DEF RunGog
  <2>2. i \in Inputs /\ Accepted(i, params[r])
    BY <2>1 DEF RunInv, JudgedAsSent
  <2>3. \/ ran'[r] = NoRun
        \/ GogAccepts(action, params[r]) /\ ran'[r].args = GogArgs(action, params[r])
    BY <2>1 DEF RunGog, Starts
  <2> HIDE DEF action
  <2>4. \/ ran'[r] = NoRun
        \/ GogAccepts(action, params'[r]) /\ ran'[r].args = GogArgs(action, params'[r])
    BY <2>1, <2>3
  <2> QED
    BY <2>1, <2>2, <2>4 DEF RunRight, action
<1>7. GogSucceeds(r) \/ GogFails(r) \/ ClientGone(r) => Goal
  BY DEF GogSucceeds, GogFails, ClientGone, RunRight
<1>8. Receive(r) \/ NextRequest(r) => Goal
  BY DEF Receive, NextRequest, RunRight
<1> QED
  BY <1>1, <1>2, <1>3, <1>4, <1>5, <1>6, <1>7, <1>8 DEF Handle, Client

\* What gog has been run with for a request is what the rules left of it, and it
\* is never run to tell what a policy allows (Handle, broker.go:86-120).
THEOREM RunsAreAcceptedAlways == Spec => []RunsAreAccepted
<1>1. Init => RunsAreAccepted
  BY DEF Init, RunsAreAccepted, RunRight
<1>2. RunInv /\ [Next]_vars => RunsAreAccepted'
  <2> SUFFICES ASSUME RunInv, [Next]_vars, NEW r \in Requests
               PROVE  RunRight(pc'[r], input'[r], params'[r], ran'[r])
    BY DEF RunsAreAccepted
  <2>0. RunRight(pc[r], input[r], params[r], ran[r])
    BY DEF RunInv, RunsAreAccepted
  <2>1. CASE \E s \in Requests : (Handle(s) /\ ~Overflow(s)) \/ Client(s)
    BY <2>0, <2>1, StepKeepsRuns
  <2>2. CASE Die
    <3>1. pc'[r] # "run" \/ pc'[r] = pc[r]
      BY <2>2 DEF Die, Quiet
    <3>2. UNCHANGED <<input, params, ran>>
      BY <2>2 DEF Die, requestVars
    <3> QED
      BY <2>0, <3>1, <3>2 DEF RunRight
  <2>3. CASE UNCHANGED <<pc, input, params, ran>>
    BY <2>0, <2>3
  <2> QED
    BY <2>1, <2>2, <2>3 DEF Next, Handle, Overflow, Crash, Restart, vars, requestVars
<1>3. TypeOK /\ RunMatchesPhase /\ JudgedAsSent /\ RunsAreAccepted => RunInv
  BY DEF RunInv
<1> QED
  BY <1>1, <1>2, <1>3, TypeCorrect, RunsMatchPhases, JudgedAsSentAlways, PTL DEF Spec
-----------------------------------------------------------------------------
(* The options of a line *)

\* What has been read of an option: the pieces of one that may be repeated, or
\* the value of a word.
TypedOption(cmd, name, v) ==
  IF name \in Repeatable(cmd) THEN v = List(v.toks) /\ IsSequence(v.toks)
  ELSE IsWord([name |-> name, value |-> v])

\* The largest of some naturals that have a bound.
LEMMA MaxIsMember ==
  ASSUME NEW n \in Nat, NEW S, S \subseteq 1..n, S # {}
  PROVE  Max(S) \in S
<1> DEFINE below == {n - x : x \in S}
<1>1. below \subseteq Nat /\ below # {}
  <2>1. \A x \in S : n - x \in Nat
    OBVIOUS
  <2>2. PICK x \in S : TRUE
    OBVIOUS
  <2>3. n - x \in below
    BY <2>2
  <2> QED
    BY <2>1, <2>3
<1>2. PICK m \in below : \A y \in below : m <= y
  <2> HIDE DEF below
  <2> QED
    BY <1>1, LeastNatural
<1>3. PICK x \in S : m = n - x
  BY <1>2
<1>4. \A y \in S : x >= y
  <2> SUFFICES ASSUME NEW y \in S PROVE x >= y
    OBVIOUS
  <2>1. n - y \in below
    OBVIOUS
  <2>2. n - x <= n - y
    BY <1>2, <1>3, <2>1
  <2>3. n \in Int /\ x \in Int /\ y \in Int
    BY <1>3
  <2> HIDE DEF below
  <2> QED
    BY <2>2, <2>3
<1> QED
  BY <1>4 DEF Max

\* Sequences one after the other are a sequence.
LEMMA FlattenIsSequence ==
  ASSUME NEW T, NEW ss \in Seq(Seq(T))
  PROVE  FlattenSeq(ss) \in Seq(T)
<1> DEFINE n == Len(ss)
           Step(f, i) == IF i = 1 THEN ss[i] ELSE f[i - 1] \o ss[i]
           flatten == CHOOSE f : f = [i \in 1..n |-> Step(f, i)]
           Wrong == {i \in 1..n : flatten[i] \notin Seq(T)}
           Fits(f, m) == f = [i \in 1..m |-> Step(f, i)]
           Without == {m \in Nat : ~ \E f : Fits(f, m)}
<1>1. n \in Nat /\ \A i \in 1..n : ss[i] \in Seq(T)
  OBVIOUS
<1>2. CASE n = 0
  <2>1. ss = <<>>
    BY <1>2
  <2> QED
    BY <1>2, <2>1 DEF FlattenSeq
<1>3. CASE n # 0
  <2>1. \E f : Fits(f, n)
    <3>1. \E f : Fits(f, 0)
      <4>1. Fits([i \in 1..0 |-> <<>>], 0)
        OBVIOUS
      <4> QED
        BY <4>1
    <3>2. ASSUME NEW m \in Nat, m # 0, NEW f, Fits(f, m - 1)
          PROVE  \E g : Fits(g, m)
      <4> DEFINE g == [i \in 1..m |-> IF i = m THEN Step(f, m) ELSE f[i]]
      <4>1. ASSUME NEW i \in 1..m PROVE g[i] = Step(g, i)
        <5>1. CASE i = m
          <6>1. g[i] = Step(f, i)
            BY <5>1
          <6>2. i # 1 => g[i - 1] = f[i - 1]
            BY <3>2, <5>1
          <6> QED
            BY <6>1, <6>2
        <5>2. CASE i # m
          <6>1. i \in 1..(m - 1)
            BY <5>2
          <6>2. g[i] = Step(f, i)
            BY <3>2, <5>2, <6>1
          <6>3. i # 1 => g[i - 1] = f[i - 1]
            BY <6>1
          <6> QED
            BY <6>2, <6>3
        <5> QED
          BY <5>1, <5>2
      <4> HIDE DEF Step
      <4>2. Fits(g, m)
        BY <4>1
      <4> QED
        BY <4>2
    <3> HIDE DEF Fits
    <3>3. Without = {}
      <4> SUFFICES ASSUME Without # {} PROVE FALSE
        OBVIOUS
      <4>1. PICK m \in Without : \A x \in Without : m <= x
        <5> HIDE DEF Without
        <5>1. Without \subseteq Nat
          BY DEF Without
        <5> QED
          BY <5>1, LeastNatural
      <4>2. m # 0 /\ m \in Nat /\ ~ \E f : Fits(f, m)
        BY <3>1
      <4>3. m - 1 \in Nat /\ m - 1 \notin Without
        BY <4>1, <4>2
      <4> QED
        BY <3>2, <4>2, <4>3
    <3> QED
      BY <1>1, <3>3
  <2>2. flatten = [i \in 1..n |-> Step(flatten, i)]
    BY <2>1
  <2>3. FlattenSeq(ss) = flatten[n]
    BY <1>3 DEF FlattenSeq
  <2> HIDE DEF flatten
  <2>4. \A i \in 1..n : flatten[i] = Step(flatten, i)
    <3> HIDE DEF Step
    <3> QED
      BY <2>2
  <2>5. Wrong = {}
    <3> SUFFICES ASSUME Wrong # {} PROVE FALSE
      OBVIOUS
    <3>1. PICK m \in Wrong : \A x \in Wrong : m <= x
      <4> HIDE DEF Wrong
      <4>1. Wrong \subseteq Nat
        BY <1>1 DEF Wrong
      <4> QED
        BY <4>1, LeastNatural
    <3>2. m \in 1..n /\ flatten[m] \notin Seq(T) /\ ss[m] \in Seq(T)
      BY <1>1, <3>1
    <3>3. CASE m = 1
      BY <2>4, <3>2, <3>3
    <3>4. CASE m # 1
      <4>1. m - 1 \in 1..n /\ m - 1 \notin Wrong
        BY <1>1, <3>1, <3>2, <3>4
      <4>2. flatten[m - 1] \in Seq(T)
        BY <4>1
      <4>3. flatten[m] = flatten[m - 1] \o ss[m]
        BY <2>4, <3>2, <3>4
      <4> QED
        BY <3>2, <4>2, <4>3
    <3> QED
      BY <3>3, <3>4
  <2> QED
    BY <1>1, <1>3, <2>3, <2>5
<1> QED
  BY <1>2, <1>3

\* What is read of a line's options has their types (flag package).
LEMMA OptionsAreTyped ==
  ASSUME NEW words, IsSequence(words), \A j \in DOMAIN words : IsWord(words[j]),
         NEW cmd, NEW name \in DOMAIN ParsedOptions(cmd, words), name # Blank
  PROVE  TypedOption(cmd, name, ParsedOptions(cmd, words)[name])
<1> DEFINE given == {j \in DOMAIN words : words[j].name = name}
           text(j) == words[j].value.toks
           parts == [j \in DOMAIN words |-> IF j \in given THEN NonBlank(text(j)) ELSE <<>>]
           T == UNION {Range(text(j)) : j \in given}
           v == ParsedOptions(cmd, words)[name]
<1>1. DOMAIN words = 1..Len(words) /\ Len(words) \in Nat
  BY SequenceOfItsRange
<1>2. given # {} /\ given \subseteq 1..Len(words)
  BY <1>1 DEF ParsedOptions
<1>3. v = IF name \in Repeatable(cmd) THEN List(FlattenSeq(parts)) ELSE words[Max(given)].value
  BY DEF ParsedOptions, OptionValue
<1>4. CASE name \notin Repeatable(cmd)
  <2> HIDE DEF given
  <2>1. Max(given) \in given
    BY <1>1, <1>2, MaxIsMember
  <2> USE DEF given
  <2>2. IsWord(words[Max(given)]) /\ words[Max(given)].name = name
    BY <2>1
  <2>3. v = words[Max(given)].value
    BY <1>3, <1>4
  <2> HIDE DEF v, given
  <2> QED
    BY <1>4, <2>2, <2>3 DEF TypedOption, IsWord, v
<1>5. CASE name \in Repeatable(cmd)
  <2>1. name \notin NumberOptions \cup SwitchOptions
    BY <1>5 DEF Repeatable, NumberOptions, SwitchOptions
  <2>2. ASSUME NEW j \in given PROVE NonBlank(text(j)) \in Seq(T)
    <3>1. IsSequence(text(j))
      BY <2>1 DEF IsWord
    <3>2. text(j) \in Seq(Range(text(j)))
      BY <3>1, SequenceOfItsRange
    <3>3. NonBlank(text(j)) \in Seq(Range(text(j)))
      BY <3>2, NonBlankRange
    <3> QED
      BY <3>3
  <2>3. parts \in Seq(Seq(T))
    <3>1. \A j \in 1..Len(words) : parts[j] \in Seq(T)
      BY <1>1, <2>2
    <3>2. parts = [j \in 1..Len(words) |-> parts[j]]
      BY <1>1
    <3> HIDE DEF parts, T
    <3> QED
      BY <1>1, <3>1, <3>2
  <2> HIDE DEF parts, T
  <2>4. FlattenSeq(parts) \in Seq(T)
    BY <2>3, FlattenIsSequence
  <2>5. IsSequence(FlattenSeq(parts))
    BY <2>4 DEF IsSequence
  <2>6. v = List(FlattenSeq(parts))
    BY <1>3, <1>5
  <2> HIDE DEF v
  <2> QED
    BY <1>5, <2>5, <2>6 DEF TypedOption, List, v
<1> QED
  BY <1>4, <1>5

\* The words before the first argument are words of the line.
LEMMA LeadingAreWords ==
  ASSUME NEW words, IsSequence(words), \A j \in DOMAIN words : IsWord(words[j])
  PROVE  IsSequence(Leading(words)) /\ \A j \in DOMAIN Leading(words) : IsWord(Leading(words)[j])
<1> DEFINE I == {j \in 1..Len(words) : words[j].name = Blank}
           n == SelectInSeq(words, LAMBDA w : w.name = Blank)
<1>1. words \in Seq(Range(words)) /\ DOMAIN words = 1..Len(words) /\ Len(words) \in Nat
  BY SequenceOfItsRange
<1>2. n = 0 \/ n \in 1..Len(words)
  <2>1. n = IF I # {} THEN Min(I) ELSE 0
    BY DEF SelectInSeq
  <2>2. I \subseteq Nat
    OBVIOUS
  <2> HIDE DEF I, n
  <2>3. I # {} => Min(I) \in I
    BY <2>2, MinIsLeast
  <2> QED
    BY <2>1, <2>3 DEF I
<1>3. Leading(words) = IF n = 0 THEN words ELSE SubSeq(words, 1, n - 1)
  BY DEF Leading
<1> HIDE DEF n
<1>4. CASE n = 0
  BY <1>3, <1>4
<1>5. CASE n # 0
  <2>1. /\ SubSeq(words, 1, n - 1) \in Seq(Range(words))
        /\ DOMAIN SubSeq(words, 1, n - 1) = 1..(n - 1)
        /\ \A j \in 1..(n - 1) : SubSeq(words, 1, n - 1)[j] = words[j]
    BY <1>1, <1>2, <1>5
  <2>2. IsSequence(SubSeq(words, 1, n - 1))
    BY <2>1 DEF IsSequence
  <2> QED
    BY <1>1, <1>2, <1>3, <1>5, <2>1, <2>2
<1> QED
  BY <1>4, <1>5

-----------------------------------------------------------------------------
(* What a line makes of its options *)

\* A request is what the client makes of its line (main.go:93-135).
LEMMA LineOf ==
  ASSUME NEW i \in TypedInputs
  PROVE  LET o == TypedOptions(i)
             made == parseCommand(i.cmd, o, Arguments(i.words))
         IN  /\ i.cmd \in Commands /\ DOMAIN o \subseteq Options[i.cmd]
             /\ \A name \in DOMAIN o : name # Blank /\ TypedOption(i.cmd, name, o[name])
             /\ made.accepted /\ i.action = made.action /\ i.params = made.params
<1> DEFINE o == TypedOptions(i)
           made == ClientMakes(i.cmd, i.words)
           request == ClientRequest(i.account, i.cmd, i.words)
           line == Put(Put(request, "cmd", i.cmd), "words", i.words)
<1>1. /\ IsSequence(i.words) /\ \A j \in DOMAIN i.words : IsWord(i.words[j])
      /\ made.accepted /\ i = line
  BY InputsAreTyped DEF Typed
<1>2. i.action = made.action /\ i.params = made.params
  <2>1. request = [id |-> "1", account |-> i.account, action |-> made.action,
                   params |-> made.params]
    BY DEF ClientRequest
  <2> HIDE DEF made, request
  <2>2. line["action"] = request["action"] /\ line["params"] = request["params"]
    BY <2>1 DEF Put
  <2> HIDE DEF line
  <2> QED
    BY <1>1, <2>1, <2>2
<1>3. /\ i.cmd \in Commands /\ DOMAIN o \subseteq Options[i.cmd]
      /\ made = parseCommand(i.cmd, o, Arguments(i.words))
  BY <1>1 DEF ClientMakes, Made, Options, TypedOptions
<1>4. ASSUME NEW name \in DOMAIN o PROVE name # Blank
  BY <1>3 DEF Options, Commands, MailOptions, RangeOptions, EventOptions, Blank
<1>5. ASSUME NEW name \in DOMAIN o PROVE TypedOption(i.cmd, name, o[name])
  BY <1>1, <1>4, LeadingAreWords, OptionsAreTyped DEF TypedOptions
<1> HIDE DEF o, made
<1> QED
  BY <1>1, <1>2, <1>3, <1>4, <1>5 DEF o

\* Every value of an option can be converted for gog (runner.go:271-320).
LEMMA TypedIsSupported ==
  ASSUME NEW cmd, NEW name, name # Blank, NEW v, TypedOption(cmd, name, v)
  PROVE  Supported(v)
<1>1. CASE name \in Repeatable(cmd)
  BY <1>1 DEF TypedOption, Supported, List
<1>2. CASE name \notin Repeatable(cmd)
  BY <1>2 DEF TypedOption, IsWord, Supported, Str, Num, Flag
<1> QED
  BY <1>1, <1>2

\* An option that is no number, no switch and not repeated is a text.
LEMMA TextOption ==
  ASSUME NEW cmd, NEW name, name \notin Repeatable(cmd) \cup NumberOptions \cup SwitchOptions,
         name # Blank, NEW v, TypedOption(cmd, name, v)
  PROVE  v = Str(v.toks) /\ IsSequence(v.toks)
BY DEF TypedOption, IsWord

\* Only one that may be repeated is a list.
LEMMA ListOption ==
  ASSUME NEW cmd, NEW name, name \notin Repeatable(cmd),
         name # Blank, NEW v, TypedOption(cmd, name, v)
  PROVE  v.type # "list"
BY DEF TypedOption, IsWord, Str, Num, Flag

\* An option that says something is an argument of gog, under whatever parameter
\* it stands; a flag takes no list.
LEMMA OptionReaches ==
  ASSUME NEW cmd, NEW name, name # Blank, NEW v, TypedOption(cmd, name, v), Says(v),
         NEW action, NEW p, NEW k \in DOMAIN p, p[k] = v,
         v.type = "list" => k \notin actionSpecs[action].flags
  PROVE  /\ k \in DOMAIN GogArgs(action, p)
         /\ \A n : Carries(n, GogArgs(action, p)[k], v)
<1> DEFINE args == GogArgs(action, p)
<1>1. \/ v.type = "list" /\ v.toks # <<>>
      \/ v.type \in {"string", "number", "bool"} /\ v # Flag(FALSE)
  <2>1. CASE name \in Repeatable(cmd)
    <3>1. v.type = "list"
      BY <2>1 DEF TypedOption, List
    <3> QED
      BY <3>1 DEF Says
  <2>2. CASE name \notin Repeatable(cmd)
    <3>1. \/ v.type = "number"
          \/ v.type = "bool"
          \/ v.type = "string"
      BY <2>2 DEF TypedOption, IsWord, Str, Num, Flag
    <3>2. v.type = "bool" => v.on
      BY DEF Says
    <3> QED
      BY <3>1, <3>2 DEF Flag
  <2> QED
    BY <2>1, <2>2
<1>2. CASE v.type = "list"
  <2>1. k \in DOMAIN args /\ args[k] = Str(v.toks)
    BY <1>1, <1>2 DEF GogArgs, NoArgument, IsArray, Flag
  <2> HIDE DEF args
  <2> QED
    BY <1>2, <2>1 DEF Carries, Pieces, Str, args
<1>3. CASE v.type # "list"
  <2>1. k \in DOMAIN args /\ args[k] = v
    BY <1>1, <1>3 DEF GogArgs, NoArgument, IsArray
  <2> HIDE DEF args
  <2> QED
    BY <2>1 DEF Carries, args
<1> QED
  BY <1>2, <1>3

\* The parameters options are passed as.
LEMMA PassedOptions ==
  ASSUME NEW cmd, NEW o, \A name \in DOMAIN o : name # Blank /\ TypedOption(cmd, name, o[name]),
         NEW names
  PROVE  /\ DOMAIN Passed(o, names) \subseteq names \cap DOMAIN o
         /\ \A k \in DOMAIN Passed(o, names) :
              Passed(o, names)[k] = o[k] /\ Supported(Passed(o, names)[k])
         /\ \A k \in names \cap DOMAIN o : Says(o[k]) => k \in DOMAIN Passed(o, names)
BY TypedIsSupported DEF Passed

\* A text is found under the one name of these that holds one.
LEMMA OnlyText ==
  ASSUME NEW p, NEW keys, DOMAIN keys = 1..Len(keys), Len(keys) \in Nat, NEW j \in DOMAIN keys,
         HasString(p, keys[j]), \A l \in DOMAIN keys : l # j => ~HasString(p, keys[l])
  PROVE  TextAny(p, keys) = p[keys[j]].toks
<1> DEFINE I == {l \in 1..Len(keys) : HasString(p, keys[l])}
           n == SelectInSeq(keys, LAMBDA k : HasString(p, k))
<1>1. I = {j} /\ j \in Nat /\ j # 0
  OBVIOUS
<1>2. Min(I) = j
  BY <1>1, MinIsLeast
<1>3. n = j
  BY <1>1, <1>2 DEF SelectInSeq
<1> HIDE DEF n
<1> QED
  BY <1>1, <1>3 DEF TextAny, n

-----------------------------------------------------------------------------
(* Each command, from its line to gog *)

\* gog can be run for a request of which the policy left p, unless it is one of
\* the two, and its arguments then say all the line does.
Fits(i, p) ==
  /\ RunsAllButTwo(i, p)
  /\ GogAccepts(RunAction(i, p), p) => Reaches(i, GogArgs(RunAction(i, p), p))

\* The rules left p of a request that names no range.
LEMMA AcceptedByRules ==
  ASSUME NEW i, NEW p, Accepted(i, p), ~NeedsRange(ActionOf(i))
  PROVE  \E t : Rules(i, t).accepted /\ Rules(i, t).params = p
BY DEF Accepted, Rules

\* The rules add one term, which binds or does not.
LEMMA ExtendedByOne ==
  ASSUME NEW query, NEW term
  PROVE  \E x : Extended(query, term) = Append(query, x)
BY DEF Extended

\* A query keeps its terms when one is added.
LEMMA ExtendedKeeps ==
  ASSUME NEW T, NEW query \in Seq(T), NEW term
  PROVE  \E U : Extended(query, term) \in Seq(U) /\ Range(query) \subseteq Range(Extended(query, term))
<1>1. PICK x : Extended(query, term) = Append(query, x)
  BY ExtendedByOne
<1>2. query \in Seq(T \cup {x}) /\ Append(query, x) \in Seq(T \cup {x})
  OBVIOUS
<1>3. Range(Append(query, x)) = Range(query) \cup {x}
  BY <1>2, RangeOfAppend
<1> QED
  BY <1>1, <1>2, <1>3

\* The terms of a query are still there when the rules have added theirs.
LEMMA QueryIsKept ==
  ASSUME NEW g, NEW p, IsSequence(Text(p, "query"))
  PROVE  \E final : /\ rewriteGmailQuery(g, p).params = Put(p, "query", Str(final))
                    /\ Range(Text(p, "query")) \subseteq Range(final)
<1> DEFINE query   == Text(p, "query")
           bounded == IF g.maxDays > 0 THEN WithWindow(query, g.maxDays) ELSE query
           final   == IF g.senders # {} THEN Extended(bounded, FromAny(g.senders)) ELSE bounded
<1>1. query \in Seq(Range(query))
  <2>1. query \in Seq(Range(query))
    BY SequenceOfItsRange
  <2> HIDE DEF query
  <2> QED
    BY <2>1
<1>2. rewriteGmailQuery(g, p).params = Put(p, "query", Str(final))
  BY DEF rewriteGmailQuery, Outcome
<1>3. bounded = query \/ bounded = Extended(query, NewerThan(g.maxDays))
  BY DEF WithWindow
<1> HIDE DEF query
<1>4. PICK U : bounded \in Seq(U) /\ Range(query) \subseteq Range(bounded)
  <2> HIDE DEF bounded
  <2> QED
    BY <1>1, <1>3, ExtendedKeeps
<1>5. Range(bounded) \subseteq Range(final)
  <2> HIDE DEF bounded
  <2> QED
    BY <1>4, ExtendedKeeps
<1> HIDE DEF bounded, final
<1> QED
  BY <1>2, <1>4, <1>5 DEF query

\* gmail.search (main.go:136-163, policy.go:177-209).
LEMMA SearchFits ==
  ASSUME NEW i \in TypedInputs, NEW p, Accepted(i, p), i.cmd = "gmail.search"
  PROVE  Fits(i, p)
<1> DEFINE o == TypedOptions(i)
           words == Arguments(i.words)
           query == IF Text(o, "query") = <<>> THEN words ELSE Text(o, "query")
           passed == Passed(o, {"max", "page", "oldest"})
           typed == Put(passed, "query", Str(query))
           args == GogArgs("gmail.search", p)
<1>1. /\ DOMAIN o \subseteq {"query", "max", "page", "oldest"}
      /\ \A name \in DOMAIN o : name # Blank /\ TypedOption(i.cmd, name, o[name])
      /\ i.action = "gmail.search" /\ i.params = typed
  <2>1. Options[i.cmd] = {"query", "max", "page", "oldest"}
    BY DEF Options, Commands
  <2>2. parseCommand(i.cmd, o, words) = parseGmailSearch(o, words)
    BY DEF parseCommand
  <2> QED
    BY <2>1, <2>2, LineOf DEF parseGmailSearch, Made
<1> HIDE DEF o, words
<1>2. /\ DOMAIN passed \subseteq {"max", "page", "oldest"} \cap DOMAIN o
      /\ \A k \in DOMAIN passed : passed[k] = o[k] /\ Supported(passed[k])
      /\ \A k \in {"max", "page", "oldest"} \cap DOMAIN o : Says(o[k]) => k \in DOMAIN passed
  BY <1>1, PassedOptions
<1> HIDE DEF passed, query
<1>3. Text(i.params, "query") = query
  BY <1>1 DEF Text, HasString, Put, Str
<1>4. IsSequence(query)
  BY <1>1, InputIsParsed DEF TypedInputs, Parsed, Put, Str, IsText
<1>5. ActionOf(i) = "gmail.search" /\ RunAction(i, p) = "gmail.search"
  BY <1>1 DEF ActionOf, RunAction
<1>6. PICK final : p = Put(typed, "query", Str(final)) /\ Range(query) \subseteq Range(final)
  <2>1. PICK t : Rules(i, t).accepted /\ Rules(i, t).params = p
    BY <1>5, AcceptedByRules DEF NeedsRange
  <2>2. p = rewriteGmailQuery(PolicyOf(i).gmail, i.params).params
    BY <1>5, <2>1, RuleOfAction
  <2> HIDE DEF typed
  <2> QED
    BY <1>1, <1>3, <1>4, <2>2, QueryIsKept
<1>7. /\ DOMAIN p = {"query"} \cup DOMAIN passed /\ p["query"] = Str(final)
      /\ \A k \in DOMAIN passed : p[k] = o[k] /\ Supported(p[k])
  BY <1>2, <1>6 DEF Put
<1>8. actionSpecs["gmail.search"] = Command({"query"}, {"max", "page", "oldest"}, {})
  BY DEF actionSpecs, GogActions, SearchCommand
<1>9. GogAccepts("gmail.search", p)
  <2>1. Supported(p["query"]) /\ ~NoArgument(p["query"])
    BY <1>7 DEF Supported, NoArgument, IsArray, Str
  <2> QED
    BY <1>2, <1>7, <1>8, <2>1 DEF GogAccepts, Command, actionSpecs, GogActions
<1>10. Reaches(i, args)
  <2> SUFFICES ASSUME NEW name \in DOMAIN o, AsksFor(name, o[name])
               PROVE  name \in DOMAIN args /\ Carries(name, args[name], o[name])
    BY <1>1 DEF Reaches, ArgumentFor, o
  <2>1. CASE name = "query"
    <3>1. o["query"] = Str(o["query"].toks) /\ o["query"].toks # <<>>
      <4>1. TypedOption(i.cmd, "query", o["query"]) /\ "query" \notin Repeatable(i.cmd)
        BY <1>1, <2>1 DEF Repeatable
      <4>2. o["query"] = Str(o["query"].toks)
        BY <4>1, TextOption DEF NumberOptions, SwitchOptions, Blank
      <4>3. Says(o["query"])
        BY <2>1 DEF AsksFor
      <4> QED
        BY <4>2, <4>3 DEF Says, Str
    <3>2. query = o["query"].toks
      BY <2>1, <3>1 DEF query, Text, HasString, Str
    <3>3. "query" \in DOMAIN args /\ args["query"] = Str(final)
      BY <1>7, TextReachesGog DEF Str
    <3>4. Pieces(o["query"]) \subseteq Pieces(args["query"])
      BY <1>6, <3>2, <3>3 DEF Pieces, Range, Str
    <3> QED
      BY <2>1, <3>1, <3>3, <3>4 DEF Carries, Str
  <2>2. CASE name # "query"
    <3>1. name \in DOMAIN passed
      BY <1>1, <1>2, <2>2 DEF AsksFor
    <3>2. name # Blank /\ TypedOption(i.cmd, name, o[name])
      BY <1>1
    <3>3. o[name].type # "list"
      BY <3>2, ListOption DEF Repeatable
    <3>4. name \in DOMAIN p /\ p[name] = o[name] /\ Says(o[name])
      BY <1>7, <3>1 DEF AsksFor
    <3> QED
      BY <3>2, <3>3, <3>4, OptionReaches
  <2> QED
    BY <2>1, <2>2
<1> QED
  BY <1>1, <1>5, <1>9, <1>10 DEF Fits, RunsAllButTwo, DraftInThread

\* The commands that take one id or name send it under its own parameter, and it
\* gets to gog from there (parseGmailThreadGet and the like).
LEMMA OneReaches ==
  ASSUME NEW i \in TypedInputs, NEW option, NEW key, NEW action,
         Options[i.cmd] = {option}, ArgumentFor(i.cmd, option) = key,
         option \notin Repeatable(i.cmd) \cup NumberOptions \cup SwitchOptions \cup {"add", "remove"},
         parseCommand(i.cmd, TypedOptions(i), Arguments(i.words))
           = parseOne(action, key, option, TypedOptions(i), Arguments(i.words))
  PROVE  /\ i.action = action
         /\ \E text : /\ i.params = Put(NoParams, key, Str(text))
                      /\ \A a, p : key \in DOMAIN p /\ p[key] = Str(text)
                                    => Reaches(i, GogArgs(a, p))
<1> DEFINE o == TypedOptions(i)
           text == OrArgument(o, option, Arguments(i.words))
<1>1. /\ DOMAIN o \subseteq {option}
      /\ \A name \in DOMAIN o : name # Blank /\ TypedOption(i.cmd, name, o[name])
      /\ i.action = action /\ i.params = Put(NoParams, key, Str(text))
  BY LineOf DEF parseOne, Made
<1>2. ASSUME NEW a, NEW p, key \in DOMAIN p, p[key] = Str(text) PROVE Reaches(i, GogArgs(a, p))
  <2> SUFFICES ASSUME NEW name \in DOMAIN o, Says(o[name])
               PROVE  key \in DOMAIN GogArgs(a, p) /\ Carries(name, GogArgs(a, p)[key], o[name])
    BY <1>1 DEF Reaches, AsksFor
  <2>1. name = option /\ o[name] = Str(o[name].toks)
    BY <1>1, TextOption
  <2>2. o[name].type = "string" /\ o[name].toks # <<>>
    BY <2>1 DEF Says, Str
  <2>3. text = o[name].toks
    BY <2>1, <2>2 DEF OrArgument, Text, HasString
  <2>4. key \in DOMAIN GogArgs(a, p) /\ GogArgs(a, p)[key] = Str(text)
    BY <1>2, TextReachesGog DEF Str
  <2> HIDE DEF text, o
  <2> QED
    BY <2>1, <2>2, <2>3, <2>4 DEF Carries, Pieces, Str
<1> HIDE DEF text, o
<1> QED
  BY <1>1, <1>2

\* gmail.thread.get (main.go:165-179, policy.go:211-221).
LEMMA ThreadGetFits ==
  ASSUME NEW i \in TypedInputs, NEW p, Accepted(i, p), i.cmd = "gmail.thread.get"
  PROVE  Fits(i, p)
<1>1. /\ Options[i.cmd] = {"id"} /\ ArgumentFor(i.cmd, "id") = "thread_id"
      /\ "id" \notin Repeatable(i.cmd) \cup NumberOptions \cup SwitchOptions \cup {"add", "remove"}
  BY DEF Options, Commands, ArgumentFor, Repeatable, NumberOptions, SwitchOptions
<1>2. \A o, args : parseCommand(i.cmd, o, args) = parseOne(i.cmd, "thread_id", "id", o, args)
  BY DEF parseCommand
<1>3. /\ i.action = "gmail.thread.get"
      /\ \E text : /\ i.params = Put(NoParams, "thread_id", Str(text))
                   /\ \A a, q : "thread_id" \in DOMAIN q /\ q["thread_id"] = Str(text)
                                 => Reaches(i, GogArgs(a, q))
  BY <1>1, <1>2, OneReaches
<1>4. PICK text : /\ i.params = Put(NoParams, "thread_id", Str(text))
                  /\ \A a, q : "thread_id" \in DOMAIN q /\ q["thread_id"] = Str(text)
                                => Reaches(i, GogArgs(a, q))
  BY <1>3
<1>5. ActionOf(i) = "gmail.thread.get" /\ RunAction(i, p) = "gmail.thread.get"
  BY <1>3 DEF ActionOf, RunAction
<1>6. p = Put(i.params, "thread_id", Str(TextAny(i.params, <<"id", "thread_id">>)))
  <2>1. PICK t : Rules(i, t).accepted /\ Rules(i, t).params = p
    BY <1>5, AcceptedByRules DEF NeedsRange
  <2>2. Rules(i, t) = rewriteGmailThreadGet(i.params)
    BY <1>5 DEF Rules, ValidateAndRewrite
  <2> QED
    BY <2>1, <2>2 DEF rewriteGmailThreadGet, Outcome
<1>7. TextAny(i.params, <<"id", "thread_id">>) = text
  <2> DEFINE keys == <<"id", "thread_id">>
  <2>1. ~HasString(i.params, keys[1]) /\ HasString(i.params, keys[2])
    BY <1>4 DEF HasString, Put, NoParams, Str
  <2>2. DOMAIN keys = 1..2 /\ Len(keys) = 2
    OBVIOUS
  <2> HIDE DEF keys
  <2>3. TextAny(i.params, keys) = i.params[keys[2]].toks
    BY <2>1, <2>2, OnlyText
  <2> USE DEF keys
  <2> QED
    BY <1>4, <2>3 DEF Put, Str
<1>8. DOMAIN p = {"thread_id"} /\ p["thread_id"] = Str(text)
  BY <1>4, <1>6, <1>7 DEF Put, NoParams
<1>9. GogAccepts("gmail.thread.get", p)
  BY <1>8 DEF GogAccepts, actionSpecs, GogActions, Command, Supported, NoArgument, IsArray, Str
<1>10. Reaches(i, GogArgs("gmail.thread.get", p))
  BY <1>4, <1>8
<1> QED
  BY <1>3, <1>5, <1>9, <1>10 DEF Fits, RunsAllButTwo, DraftInThread

\* gmail.get: the id is sent as the message's (main.go:209-223, policy.go:251-271).
LEMMA GetFits ==
  ASSUME NEW i \in TypedInputs, NEW p, Accepted(i, p), i.cmd = "gmail.get"
  PROVE  Fits(i, p)
<1>1. /\ Options[i.cmd] = {"id"} /\ ArgumentFor(i.cmd, "id") = "message_id"
      /\ "id" \notin Repeatable(i.cmd) \cup NumberOptions \cup SwitchOptions \cup {"add", "remove"}
  BY DEF Options, Commands, ArgumentFor, Repeatable, NumberOptions, SwitchOptions
<1>2. \A o, args : parseCommand(i.cmd, o, args) = parseOne(i.cmd, "message_id", "id", o, args)
  BY DEF parseCommand
<1>3. /\ i.action = "gmail.get"
      /\ \E text : /\ i.params = Put(NoParams, "message_id", Str(text))
                   /\ \A a, q : "message_id" \in DOMAIN q /\ q["message_id"] = Str(text)
                                 => Reaches(i, GogArgs(a, q))
  BY <1>1, <1>2, OneReaches
<1>4. PICK text : /\ i.params = Put(NoParams, "message_id", Str(text))
                  /\ \A a, q : "message_id" \in DOMAIN q /\ q["message_id"] = Str(text)
                                => Reaches(i, GogArgs(a, q))
  BY <1>3
<1>5. ActionOf(i) = "gmail.get" /\ RunAction(i, p) = "gmail.get"
  BY <1>3 DEF ActionOf, RunAction
<1>6. p = Delete(Put(Put(i.params, "message_id", Str(TextAny(i.params, <<"id", "message_id">>))),
                     "format", Str(<<"metadata">>)), {"headers"})
  <2>1. PICK t : Rules(i, t).accepted /\ Rules(i, t).params = p
    BY <1>5, AcceptedByRules DEF NeedsRange
  <2>2. p = rewriteGmailGet(i.params).params
    BY <1>5, <2>1, RuleOfAction
  <2> QED
    BY <2>2 DEF rewriteGmailGet, Outcome
<1>7. TextAny(i.params, <<"id", "message_id">>) = text
  <2> DEFINE keys == <<"id", "message_id">>
  <2>1. ~HasString(i.params, keys[1]) /\ HasString(i.params, keys[2])
    BY <1>4 DEF HasString, Put, NoParams, Str
  <2>2. DOMAIN keys = 1..2 /\ Len(keys) = 2
    OBVIOUS
  <2> HIDE DEF keys
  <2>3. TextAny(i.params, keys) = i.params[keys[2]].toks
    BY <2>1, <2>2, OnlyText
  <2> USE DEF keys
  <2> QED
    BY <1>4, <2>3 DEF Put, Str
<1>8. /\ DOMAIN p = {"message_id", "format"}
      /\ p["message_id"] = Str(text) /\ p["format"] = Str(<<"metadata">>)
  BY <1>4, <1>6, <1>7 DEF Put, Delete, NoParams
<1>9. GogAccepts("gmail.get", p)
  BY <1>8 DEF GogAccepts, actionSpecs, GogActions, Command, Supported, NoArgument, IsArray, Str
<1>10. Reaches(i, GogArgs("gmail.get", p))
  BY <1>4, <1>8
<1> QED
  BY <1>3, <1>5, <1>9, <1>10 DEF Fits, RunsAllButTwo, DraftInThread

\* gmail.labels.get, by either name (main.go:319-333, policy.go:328-339).
LEMMA LabelsGetFits ==
  ASSUME NEW i \in TypedInputs, NEW p, Accepted(i, p),
         i.cmd \in {"gmail.labels.get", "gmail.lables.get"}
  PROVE  Fits(i, p)
<1>1. /\ Options[i.cmd] = {"label"} /\ ArgumentFor(i.cmd, "label") = "label"
      /\ "label" \notin Repeatable(i.cmd) \cup NumberOptions \cup SwitchOptions \cup {"add", "remove"}
  BY DEF Options, Commands, ArgumentFor, Repeatable, NumberOptions, SwitchOptions
<1>2. \A o, args : parseCommand(i.cmd, o, args)
                     = parseOne("gmail.labels.get", "label", "label", o, args)
  BY DEF parseCommand
<1>3. /\ i.action = "gmail.labels.get"
      /\ \E text : /\ i.params = Put(NoParams, "label", Str(text))
                   /\ \A a, q : "label" \in DOMAIN q /\ q["label"] = Str(text)
                                 => Reaches(i, GogArgs(a, q))
  BY <1>1, <1>2, OneReaches
<1>4. PICK text : /\ i.params = Put(NoParams, "label", Str(text))
                  /\ \A a, q : "label" \in DOMAIN q /\ q["label"] = Str(text)
                                => Reaches(i, GogArgs(a, q))
  BY <1>3
<1>5. ActionOf(i) = "gmail.labels.get" /\ RunAction(i, p) = "gmail.labels.get"
  BY <1>3 DEF ActionOf, RunAction
<1>6. p = Put(i.params, "label", Str(TextAny(i.params, <<"label", "label_id", "id">>)))
  <2>1. PICK t : Rules(i, t).accepted /\ Rules(i, t).params = p
    BY <1>5, AcceptedByRules DEF NeedsRange
  <2>2. p = rewriteGmailLabelsGet(PolicyOf(i).gmail, t, i.params).params
    BY <1>5, <2>1, RuleOfAction
  <2> QED
    BY <2>2 DEF rewriteGmailLabelsGet, Outcome
<1>7. TextAny(i.params, <<"label", "label_id", "id">>) = text
  <2> DEFINE keys == <<"label", "label_id", "id">>
  <2>1. /\ HasString(i.params, keys[1])
        /\ ~HasString(i.params, keys[2]) /\ ~HasString(i.params, keys[3])
    BY <1>4 DEF HasString, Put, NoParams, Str
  <2>2. DOMAIN keys = 1..3 /\ Len(keys) = 3
    OBVIOUS
  <2> HIDE DEF keys
  <2>3. TextAny(i.params, keys) = i.params[keys[1]].toks
    BY <2>1, <2>2, OnlyText
  <2> USE DEF keys
  <2> QED
    BY <1>4, <2>3 DEF Put, Str
<1>8. DOMAIN p = {"label"} /\ p["label"] = Str(text)
  BY <1>4, <1>6, <1>7 DEF Put, NoParams
<1>9. GogAccepts("gmail.labels.get", p)
  BY <1>8 DEF GogAccepts, actionSpecs, GogActions, Command, Supported, NoArgument, IsArray, Str
<1>10. Reaches(i, GogArgs("gmail.labels.get", p))
  BY <1>4, <1>8
<1> QED
  BY <1>3, <1>5, <1>9, <1>10 DEF Fits, RunsAllButTwo, DraftInThread

\* The listings: their options are gog's (main.go:310-317 and 363-379).
LEMMA ListFits ==
  ASSUME NEW i \in TypedInputs, NEW p, Accepted(i, p), i.cmd \in {"calendar.list", "gmail.labels.list"}
  PROVE  Fits(i, p)
<1> DEFINE o == TypedOptions(i)
           args == GogArgs(i.cmd, p)
<1>1. /\ DOMAIN o \subseteq Options[i.cmd] /\ Options[i.cmd] \subseteq {"max", "page"}
      /\ i.cmd = "gmail.labels.list" => Options[i.cmd] = {}
      /\ \A name \in DOMAIN o : name # Blank /\ TypedOption(i.cmd, name, o[name])
      /\ i.action = i.cmd /\ i.params = Passed(o, {"max", "page"})
  <2>1. parseCommand(i.cmd, o, Arguments(i.words)) = Made(TRUE, i.cmd, Passed(o, {"max", "page"}))
    BY DEF parseCommand
  <2> QED
    BY <2>1, LineOf DEF Made, Options, Commands
<1> HIDE DEF o
<1>2. ActionOf(i) = i.cmd /\ RunAction(i, p) = i.cmd
  BY <1>1 DEF ActionOf, RunAction
<1>3. p = Passed(o, {"max", "page"})
  <2>1. ~NeedsRange(ActionOf(i))
    BY <1>2 DEF NeedsRange
  <2>2. PICK t : Rules(i, t).accepted /\ Rules(i, t).params = p
    BY <2>1, AcceptedByRules
  <2>3. Rules(i, t) = Outcome(TRUE, i.params)
    BY <1>2 DEF Rules, ValidateAndRewrite
  <2> QED
    BY <1>1, <2>2, <2>3 DEF Outcome
<1>4. /\ DOMAIN p \subseteq {"max", "page"} \cap DOMAIN o
      /\ \A k \in DOMAIN p : p[k] = o[k] /\ Supported(p[k])
      /\ \A k \in {"max", "page"} \cap DOMAIN o : Says(o[k]) => k \in DOMAIN p
  <2> DEFINE names == {"max", "page"}
  <2>1. p = Passed(o, names)
    BY <1>3
  <2> HIDE DEF names
  <2>2. /\ DOMAIN p \subseteq names \cap DOMAIN o
        /\ \A k \in DOMAIN p : p[k] = o[k] /\ Supported(p[k])
        /\ \A k \in names \cap DOMAIN o : Says(o[k]) => k \in DOMAIN p
    BY <1>1, <2>1, PassedOptions
  <2> QED
    BY <2>2 DEF names
<1>5. GogAccepts(i.cmd, p)
  <2>1. /\ i.cmd \in DOMAIN actionSpecs /\ actionSpecs[i.cmd].positional = {}
        /\ i.cmd = "calendar.list" => actionSpecs[i.cmd].flags = {"max", "page"}
    BY DEF actionSpecs, GogActions, Command
  <2> QED
    BY <1>1, <1>4, <2>1 DEF GogAccepts
<1>6. Reaches(i, args)
  <2> SUFFICES ASSUME NEW name \in DOMAIN o, Says(o[name])
               PROVE  name \in DOMAIN args /\ Carries(name, args[name], o[name])
    BY <1>1 DEF Reaches, AsksFor, ArgumentFor, o
  <2>1. name \in DOMAIN p /\ p[name] = o[name]
    BY <1>1, <1>4
  <2>2. name # Blank /\ TypedOption(i.cmd, name, o[name])
    BY <1>1
  <2>3. o[name].type # "list"
    BY <2>2, ListOption DEF Repeatable
  <2> QED
    BY <2>1, <2>2, <2>3, OptionReaches
<1> QED
  BY <1>1, <1>2, <1>5, <1>6 DEF Fits, RunsAllButTwo, DraftInThread

\* Labels keep their words, but for blank ones, when the rules have joined them
\* (main.go:181-207 and 335-361, policy.go:223-249).
LEMMA LabelsAreKept ==
  ASSUME NEW o, NEW k \in {"add", "remove"}, k \in DOMAIN o,
         o[k] = Str(o[k].toks), IsSequence(o[k].toks), ~IsBlank(o[k].toks),
         NEW id, NEW p, p = Put(LabelChange(o), "thread_id", Str(id))
  PROVE  /\ k \in DOMAIN JoinLabels(p) /\ JoinLabels(p)[k].type = "string"
         /\ Pieces(o[k]) \ {Blank} \subseteq Pieces(JoinLabels(p)[k])
<1> DEFINE toks == o[k].toks
<1>1. k \in DOMAIN p /\ p[k] = Str(toks)
  <2>1. Text(o, k) = toks
    BY DEF Text, HasString, Str
  <2> HIDE DEF toks
  <2> QED
    BY <2>1 DEF LabelChange, PassedText, Put, toks
<1>2. StringSlice(p, k) = NonBlank(toks)
  BY <1>1 DEF StringSlice, Str
<1>3. Range(NonBlank(toks)) = Range(toks) \ {Blank}
  <2>1. toks \in Seq(Range(toks))
    BY SequenceOfItsRange
  <2> HIDE DEF toks
  <2> QED
    BY <2>1, NonBlankRange
<1>4. k \in DOMAIN JoinLabels(p) /\ JoinLabels(p)[k] \in {Str(NonBlank(toks)), Str(toks)}
  BY <1>1, <1>2 DEF JoinLabels
<1>5. Pieces(Str(toks)) = Range(toks) /\ Pieces(Str(NonBlank(toks))) = Range(NonBlank(toks))
  BY DEF Pieces, Range, Str
<1>6. Pieces(o[k]) = Range(toks)
  BY DEF Pieces, Range
<1> QED
  BY <1>3, <1>4, <1>5, <1>6 DEF Str

\* gmail.thread.modify (main.go:181-207, policy.go:223-249).
LEMMA ThreadModifyFits ==
  ASSUME NEW i \in TypedInputs, NEW p, Accepted(i, p), i.cmd = "gmail.thread.modify"
  PROVE  Fits(i, p)
<1> DEFINE o == TypedOptions(i)
           id == OrArgument(o, "id", Arguments(i.words))
           typed == Put(LabelChange(o), "thread_id", Str(id))
           args == GogArgs("gmail.thread.modify", p)
<1>1. /\ DOMAIN o \subseteq {"id", "add", "remove"}
      /\ \A name \in DOMAIN o : name # Blank /\ TypedOption(i.cmd, name, o[name])
      /\ i.action = "gmail.thread.modify" /\ i.params = typed
  <2>1. Options[i.cmd] = {"id", "add", "remove"}
    BY DEF Options, Commands
  <2>2. parseCommand(i.cmd, o, Arguments(i.words))
          = parseGmailThreadModify(o, Arguments(i.words))
    BY DEF parseCommand
  <2> QED
    BY <2>1, <2>2, LineOf DEF parseGmailThreadModify, Made
<1>2. ASSUME NEW name \in DOMAIN o PROVE o[name] = Str(o[name].toks) /\ IsSequence(o[name].toks)
  <2>1. name \notin Repeatable(i.cmd) \cup NumberOptions \cup SwitchOptions
    BY <1>1 DEF Repeatable, NumberOptions, SwitchOptions
  <2> QED
    BY <1>1, <2>1, TextOption
<1>3. DOMAIN LabelChange(o) \subseteq {"add", "remove"}
  BY DEF LabelChange, PassedText
<1> HIDE DEF o
<1>4. ActionOf(i) = "gmail.thread.modify" /\ RunAction(i, p) = "gmail.thread.modify"
  BY <1>1 DEF ActionOf, RunAction
<1>5. p = Put(JoinLabels(typed), "thread_id", Str(TextAny(typed, <<"thread_id", "id">>)))
  <2>1. PICK t : Rules(i, t).accepted /\ Rules(i, t).params = p
    BY <1>4, AcceptedByRules DEF NeedsRange
  <2>2. p = rewriteGmailThreadModify(PolicyOf(i).gmail, t, i.params).params
    BY <1>4, <2>1, RuleOfAction
  <2> QED
    BY <1>1, <2>2 DEF rewriteGmailThreadModify, Outcome
<1>6. TextAny(typed, <<"thread_id", "id">>) = id
  <2> DEFINE keys == <<"thread_id", "id">>
  <2>1. HasString(typed, keys[1]) /\ ~HasString(typed, keys[2])
    BY <1>3 DEF HasString, Put, Str
  <2>2. DOMAIN keys = 1..2 /\ Len(keys) = 2
    OBVIOUS
  <2> HIDE DEF keys, typed
  <2>3. TextAny(typed, keys) = typed[keys[1]].toks
    BY <2>1, <2>2, OnlyText
  <2> USE DEF keys, typed
  <2> QED
    BY <2>3 DEF Put, Str
<1> HIDE DEF typed
<1>7. /\ DOMAIN p = {"thread_id"} \cup DOMAIN JoinLabels(typed)
      /\ p["thread_id"] = Str(id)
      /\ \A k \in {"add", "remove"} \cap DOMAIN JoinLabels(typed) : p[k] = JoinLabels(typed)[k]
  BY <1>5, <1>6 DEF Put
<1>8. GogAccepts("gmail.thread.modify", p)
  <2>1. DOMAIN p \subseteq {"thread_id", "add", "remove"}
    BY <1>3, <1>7 DEF JoinLabels, typed, Put
  <2>2. ASSUME NEW k \in DOMAIN p PROVE p[k].type = "string"
    <3>1. CASE k = "thread_id"
      BY <1>7, <3>1 DEF Str
    <3>2. CASE k # "thread_id"
      <4>1. k \in DOMAIN typed /\ typed[k].type = "string" /\ p[k] = JoinLabels(typed)[k]
        BY <1>7, <2>1, <3>2 DEF JoinLabels, typed, Put, LabelChange, PassedText, Str
      <4> QED
        BY <4>1 DEF JoinLabels, Str
    <3> QED
      BY <3>1, <3>2
  <2>3. actionSpecs["gmail.thread.modify"] = Command({"thread_id"}, {"add", "remove"}, {})
    BY DEF actionSpecs, GogActions
  <2> QED
    BY <1>7, <2>1, <2>2, <2>3 DEF GogAccepts, actionSpecs, GogActions, Command, Supported,
       NoArgument, IsArray
<1>9. Reaches(i, args)
  <2>1. ASSUME NEW name \in DOMAIN o, AsksFor(name, o[name]), name \in {"add", "remove"}
        PROVE  name \in DOMAIN args /\ Carries(name, args[name], o[name])
    <3>1. /\ name \in DOMAIN JoinLabels(typed) /\ JoinLabels(typed)[name].type = "string"
          /\ Pieces(o[name]) \ {Blank} \subseteq Pieces(JoinLabels(typed)[name])
      <4>1. /\ o[name] = Str(o[name].toks) /\ IsSequence(o[name].toks)
            /\ ~IsBlank(o[name].toks)
        BY <1>2, <2>1 DEF AsksFor
      <4>2. typed = Put(LabelChange(o), "thread_id", Str(id))
        BY DEF typed
      <4> HIDE DEF id
      <4> QED
        BY <2>1, <4>1, <4>2, LabelsAreKept
    <3>2. name \in DOMAIN args /\ args[name] = JoinLabels(typed)[name]
      BY <1>7, <2>1, <3>1, TextReachesGog
    <3>3. o[name].type = "string"
      BY <1>2, <2>1 DEF Str
    <3> HIDE DEF args
    <3> QED
      BY <2>1, <3>1, <3>2, <3>3 DEF Carries
  <2>2. ASSUME "id" \in DOMAIN o, AsksFor("id", o["id"])
        PROVE  "thread_id" \in DOMAIN args /\ Carries("id", args["thread_id"], o["id"])
    <3>1. o["id"].type = "string" /\ o["id"].toks # <<>>
      BY <1>2, <2>2 DEF AsksFor, Says, Str
    <3>2. id = o["id"].toks
      BY <2>2, <3>1 DEF OrArgument, Text, HasString
    <3>3. "thread_id" \in DOMAIN args /\ args["thread_id"] = Str(id)
      BY <1>7, TextReachesGog DEF Str
    <3> HIDE DEF args, id
    <3> QED
      BY <3>1, <3>2, <3>3 DEF Carries, Pieces, Str
  <2> QED
    BY <1>1, <2>1, <2>2 DEF Reaches, ArgumentFor, o
<1> QED
  BY <1>1, <1>4, <1>8, <1>9 DEF Fits, RunsAllButTwo, DraftInThread

\* gmail.labels.modify is never run: the rules leave its threads as a list gog's
\* runner cannot convert (main.go:335-361, policy.go:341-372, runner.go:271-320).
LEMMA LabelsModifyFits ==
  ASSUME NEW i \in TypedInputs, NEW p, Accepted(i, p), i.cmd = "gmail.labels.modify"
  PROVE  Fits(i, p)
<1>1. i.action = "gmail.labels.modify"
  <2>1. \A o, args : parseCommand(i.cmd, o, args) = parseGmailLabelsModify(o, args)
    BY DEF parseCommand
  <2> QED
    BY <2>1, LineOf DEF parseGmailLabelsModify, Made
<1>2. ActionOf(i) = "gmail.labels.modify" /\ RunAction(i, p) = "gmail.labels.modify"
  BY <1>1 DEF ActionOf, RunAction
<1>3. \E ids : p = Put(JoinLabels(i.params), "thread_ids", Strings(ids))
  <2>1. PICK t : Rules(i, t).accepted /\ Rules(i, t).params = p
    BY <1>2, AcceptedByRules DEF NeedsRange
  <2>2. p = rewriteGmailLabelsModify(PolicyOf(i).gmail, t, i.params).params
    BY <1>2, <2>1, RuleOfAction
  <2> QED
    BY <2>2 DEF rewriteGmailLabelsModify, Outcome
<1>4. ~Supported(p["thread_ids"])
  BY <1>3 DEF Put, Supported, Strings
<1>5. ~GogAccepts("gmail.labels.modify", p)
  <2>1. actionSpecs["gmail.labels.modify"].positional = {"thread_ids"}
    BY DEF actionSpecs, GogActions, Command
  <2> QED
    BY <1>4, <2>1 DEF GogAccepts
<1> QED
  BY <1>1, <1>2, <1>5 DEF Fits, RunsAllButTwo

\* gmail.send, as a mail or as a draft (main.go:242-308, policy.go:273-326).
LEMMA SendFits ==
  ASSUME NEW i \in TypedInputs, NEW p, Accepted(i, p), i.cmd = "gmail.send"
  PROVE  Fits(i, p)
<1> DEFINE o == TypedOptions(i)
           action == RunAction(i, p)
           args == GogArgs(action, p)
<1>1. /\ DOMAIN o \subseteq MailOptions
      /\ \A name \in DOMAIN o : name # Blank /\ TypedOption(i.cmd, name, o[name])
      /\ i.action = "gmail.send" /\ i.params = Passed(o, MailOptions)
  <2>1. Options[i.cmd] = MailOptions
    BY DEF Options, Commands
  <2>2. parseCommand(i.cmd, o, Arguments(i.words)) = parseGmailSend(o)
    BY DEF parseCommand
  <2> QED
    BY <2>1, <2>2, LineOf DEF parseGmailSend, Made
<1> HIDE DEF o
<1>2. ActionOf(i) = "gmail.send" /\ action \in {"gmail.send", "gmail.drafts.create"}
  BY <1>1 DEF ActionOf, RunAction
<1>3. p = i.params /\ DOMAIN p \cap {"track", "track_split", "reply_all"} = {}
  <2>1. PICK t : Rules(i, t).accepted /\ Rules(i, t).params = p
    BY <1>2, AcceptedByRules DEF NeedsRange
  <2>2. /\ rewriteGmailSend(PolicyOf(i).gmail, i.params).accepted
        /\ p = rewriteGmailSend(PolicyOf(i).gmail, i.params).params
    BY <1>2, <2>1, RuleOfAction
  <2> QED
    BY <2>2 DEF rewriteGmailSend, Outcome
<1>4. /\ DOMAIN p \subseteq MailOptions \cap DOMAIN o
      /\ \A k \in DOMAIN p : p[k] = o[k] /\ Supported(p[k])
      /\ \A k \in MailOptions \cap DOMAIN o : Says(o[k]) => k \in DOMAIN p
  BY <1>1, <1>3, PassedOptions
<1>5. /\ actionSpecs["gmail.send"] = Command({}, SendFlags, {"attach"})
      /\ actionSpecs["gmail.drafts.create"] = Command({}, DraftFlags, {"attach"})
      /\ {"gmail.send", "gmail.drafts.create"} \subseteq DOMAIN actionSpecs
  BY DEF actionSpecs, GogActions
<1> HIDE DEF action
<1>6. GogAccepts(action, p) <=> ~(action = "gmail.drafts.create" /\ "thread_id" \in DOMAIN p)
  <2>1. MailOptions = SendFlags \cup {"attach"}
    BY DEF MailOptions, SendFlags, DraftFlags
  <2>2. SendFlags \ {"track", "track_split", "reply_all"} = DraftFlags \cup {"thread_id"}
    BY DEF SendFlags, DraftFlags
  <2>3. "thread_id" \notin DraftFlags \cup {"attach"}
    BY DEF DraftFlags
  <2>4. DOMAIN p \subseteq DraftFlags \cup {"thread_id", "attach"}
    BY <1>3, <1>4, <2>1, <2>2
  <2>5. CASE action = "gmail.send"
    BY <1>4, <1>5, <2>1, <2>5 DEF GogAccepts, Command
  <2>6. CASE action = "gmail.drafts.create"
    BY <1>4, <1>5, <2>3, <2>4, <2>6 DEF GogAccepts, Command
  <2> QED
    BY <1>2, <2>5, <2>6
<1>7. Reaches(i, args)
  <2> SUFFICES ASSUME NEW name \in DOMAIN o, Says(o[name])
               PROVE  name \in DOMAIN args /\ Carries(name, args[name], o[name])
    <3>1. \A name \in DOMAIN o : ArgumentFor(i.cmd, name) = name
      BY <1>1 DEF ArgumentFor, MailOptions
    <3> HIDE DEF args
    <3> QED
      BY <3>1 DEF Reaches, AsksFor, o
  <2>1. name \in DOMAIN p /\ p[name] = o[name]
    BY <1>1, <1>4
  <2>2. name # Blank /\ TypedOption(i.cmd, name, o[name])
    BY <1>1
  <2>3. o[name].type = "list" => name \notin actionSpecs[action].flags
    <3>1. o[name].type = "list" => name = "attach"
      BY <2>2, ListOption DEF Repeatable
    <3>2. "attach" \notin actionSpecs[action].flags
      BY <1>2, <1>5 DEF Command, SendFlags, DraftFlags
    <3> QED
      BY <3>1, <3>2
  <2> QED
    BY <2>1, <2>2, <2>3, OptionReaches
<1> QED
  BY <1>1, <1>6, <1>7 DEF Fits, RunsAllButTwo, DraftInThread, action

\* calendar.events: but for the range, which is the broker's (main.go:381-445,
\* policy.go:462-480).
LEMMA EventsFit ==
  ASSUME NEW i \in TypedInputs, NEW p, Accepted(i, p), i.cmd = "calendar.events"
  PROVE  Fits(i, p)
<1> DEFINE o == TypedOptions(i)
           from == Str(Trimmed(RangeEnd(o, "from", "time_min")))
           to == Str(Trimmed(RangeEnd(o, "to", "time_max")))
           ends == Put(Put(o, "from", from), "to", to)
           passed == Passed(ends, {"from", "to"} \cup EventOptions)
           typed == Put(passed, "calendar_id", Str(Text(o, "calendar_id")))
           args == GogArgs("calendar.events", p)
           Free == {"max", "page", "query"}
<1>1. /\ DOMAIN o \subseteq {"calendar_id"} \cup RangeOptions \cup EventOptions
      /\ \A name \in DOMAIN o : name # Blank /\ TypedOption(i.cmd, name, o[name])
      /\ i.action = "calendar.events" /\ i.params = typed
  <2>1. Options[i.cmd] = {"calendar_id"} \cup RangeOptions \cup EventOptions
    BY DEF Options, Commands
  <2>2. parseCommand(i.cmd, o, Arguments(i.words)) = parseCalendarEvents(o)
    BY DEF parseCommand
  <2>3. /\ parseCalendarEvents(o).action = "calendar.events"
        /\ parseCalendarEvents(o).params = typed
    BY DEF parseCalendarEvents, Made
  <2> HIDE DEF typed
  <2> QED
    BY <2>1, <2>2, <2>3, LineOf
<1> HIDE DEF o, from, to
<1>2. /\ DOMAIN passed \subseteq {"from", "to"} \cup EventOptions
      /\ \A k \in Free : /\ k \in DOMAIN passed <=> (k \in DOMAIN o /\ Says(o[k]))
                         /\ k \in DOMAIN passed => passed[k] = o[k]
  BY DEF Passed, Put, EventOptions
<1> HIDE DEF passed, ends
<1>3. ActionOf(i) = "calendar.events" /\ RunAction(i, p) = "calendar.events"
  BY <1>1 DEF ActionOf, RunAction
<1>4. PICK hours \in Windows : p = WithRange(typed, hours)
  BY <1>1, <1>3 DEF Accepted, NeedsRange
<1>5. {"from", "to"} \cup EventOptions \subseteq TimeParams \cup Free
  BY DEF EventOptions, TimeParams
<1>6. /\ DOMAIN p \subseteq {"calendar_id", "time_min", "time_max"} \cup Free
      /\ "calendar_id" \in DOMAIN p /\ p["calendar_id"] = Str(Text(o, "calendar_id"))
      /\ {"time_min", "time_max"} \subseteq DOMAIN p
      /\ p["time_min"].type = "string" /\ p["time_max"].type = "string"
  BY <1>2, <1>4, <1>5 DEF WithRange, Put, Delete, TimeParams, Str
<1>7. ASSUME NEW k \in Free
      PROVE  /\ k \in DOMAIN p <=> (k \in DOMAIN o /\ Says(o[k]))
             /\ k \in DOMAIN p => p[k] = o[k]
  <2>1. /\ k \in DOMAIN p <=> k \in DOMAIN passed
        /\ k \in DOMAIN p => p[k] = passed[k]
    <3>1. k \notin TimeParams \cup {"time_min", "time_max", "calendar_id"}
      BY DEF TimeParams
    <3>2. /\ k \in DOMAIN typed <=> k \in DOMAIN passed
          /\ k \in DOMAIN passed => typed[k] = passed[k]
      BY <3>1 DEF Put
    <3> HIDE DEF typed
    <3>3. /\ k \in DOMAIN p <=> k \in DOMAIN typed
          /\ k \in DOMAIN p => p[k] = typed[k]
      BY <1>4, <3>1 DEF WithRange, Put, Delete
    <3> QED
      BY <3>2, <3>3
  <2>2. /\ k \in DOMAIN passed <=> (k \in DOMAIN o /\ Says(o[k]))
        /\ k \in DOMAIN passed => passed[k] = o[k]
    <3> HIDE DEF Free
    <3> QED
      BY <1>2, Zenon
  <2> QED
    BY <2>1, <2>2, Zenon
<1>8. GogAccepts("calendar.events", p)
  <2>1. \A k \in DOMAIN p \cap Free : Supported(p[k])
    BY <1>1, <1>7, TypedIsSupported
  <2>2. \A k \in DOMAIN p : Supported(p[k])
    BY <1>6, <2>1 DEF Supported, Str
  <2>3. ~NoArgument(p["calendar_id"])
    BY <1>6 DEF NoArgument, IsArray, Str
  <2>4. "calendar.events" \in DOMAIN actionSpecs
    BY DEF actionSpecs, GogActions
  <2> QED
    BY <1>6, <2>2, <2>3, <2>4, CalendarCommands DEF GogAccepts, Command, EventFlags
<1>9. Reaches(i, args)
  <2> SUFFICES ASSUME NEW name \in DOMAIN o \ TimeParams, Says(o[name])
               PROVE  name \in DOMAIN args /\ Carries(name, args[name], o[name])
    <3>1. \A name \in DOMAIN o : ArgumentFor(i.cmd, name) = name
      BY <1>1 DEF ArgumentFor, RangeOptions, EventOptions
    <3>2. TimeOptions(i.cmd) = TimeParams
      BY DEF TimeOptions, NeedsRange
    <3> HIDE DEF args
    <3> QED
      BY <3>1, <3>2 DEF Reaches, AsksFor, o
  <2>1. name # Blank /\ TypedOption(i.cmd, name, o[name])
    BY <1>1
  <2>2. o[name].type # "list"
    BY <2>1, ListOption DEF Repeatable
  <2>3. name \in {"calendar_id"} \cup Free
    BY <1>1, <1>5 DEF RangeOptions, TimeParams
  <2>4. name \in DOMAIN p /\ p[name] = o[name]
    <3>1. CASE name = "calendar_id"
      <4>1. o[name] = Str(o[name].toks)
        BY <2>1, <3>1, TextOption DEF Repeatable, NumberOptions, SwitchOptions
      <4> QED
        BY <1>6, <3>1, <4>1 DEF Text, HasString, Str
    <3>2. CASE name # "calendar_id"
      BY <1>7, <2>3, <3>2
    <3> QED
      BY <3>1, <3>2
  <2> QED
    BY <2>1, <2>2, <2>4, OptionReaches
<1> QED
  BY <1>1, <1>3, <1>8, <1>9 DEF Fits, RunsAllButTwo, DraftInThread

\* A calendar of either option is one of those the client sends.
LEMMA ItemsAreSent ==
  ASSUME NEW o, \A name \in DOMAIN o : TypedOption("calendar.freebusy", name, o[name]),
         NEW name \in {"calendar_id", "calendar_ids"}, name \in DOMAIN o
  PROVE  /\ o[name].type = "list"
         /\ Pieces(o[name]) \subseteq
              Range(Items(o, "calendar_ids") \o Items(o, "calendar_id"))
<1> DEFINE first == Items(o, "calendar_ids")
           second == Items(o, "calendar_id")
           T == Range(first) \cup Range(second)
<1>1. ASSUME NEW k \in {"calendar_id", "calendar_ids"}
      PROVE  /\ IsSequence(Items(o, k))
             /\ k \in DOMAIN o => o[k].type = "list"
  <2>1. k \in Repeatable("calendar.freebusy")
    BY DEF Repeatable
  <2>2. k \in DOMAIN o => o[k] = List(o[k].toks) /\ IsSequence(o[k].toks)
    BY <2>1 DEF TypedOption
  <2>3. IsSequence(<<>>)
    BY DEF IsSequence
  <2> QED
    BY <2>2, <2>3 DEF Items, List
<1>2. first \in Seq(T) /\ second \in Seq(T)
  <2>1. first \in Seq(Range(first)) /\ second \in Seq(Range(second))
    BY <1>1, SequenceOfItsRange
  <2> HIDE DEF first, second
  <2> QED
    BY <2>1
<1>3. Pieces(o[name]) = Range(IF name = "calendar_ids" THEN first ELSE second)
  BY DEF Pieces, Range, Items
<1> HIDE DEF first, second, T
<1>4. Range(first) \subseteq Range(first \o second) /\ Range(second) \subseteq Range(first \o second)
  <2>1. /\ DOMAIN (first \o second) = 1..(Len(first) + Len(second))
        /\ DOMAIN first = 1..Len(first) /\ DOMAIN second = 1..Len(second)
        /\ Len(first) \in Nat /\ Len(second) \in Nat
        /\ \A j \in 1..Len(first) : (first \o second)[j] = first[j]
        /\ \A j \in 1..Len(second) : (first \o second)[Len(first) + j] = second[j]
    BY <1>2
  <2>2. ASSUME NEW j \in 1..Len(first) PROVE first[j] \in Range(first \o second)
    <3>1. j \in DOMAIN (first \o second) /\ (first \o second)[j] = first[j]
      BY <2>1
    <3> QED
      BY <3>1 DEF Range
  <2>3. ASSUME NEW j \in 1..Len(second) PROVE second[j] \in Range(first \o second)
    <3>1. /\ Len(first) + j \in DOMAIN (first \o second)
          /\ (first \o second)[Len(first) + j] = second[j]
      BY <2>1
    <3> QED
      BY <3>1 DEF Range
  <2>4. /\ Range(first) = {first[j] : j \in 1..Len(first)}
        /\ Range(second) = {second[j] : j \in 1..Len(second)}
    BY <2>1 DEF Range
  <2> QED
    BY <2>2, <2>3, <2>4
<1> QED
  BY <1>1, <1>3, <1>4 DEF first, second

\* calendar.freebusy: the calendars of both options together (main.go:447-482,
\* policy.go:482-500).
LEMMA FreebusyFits ==
  ASSUME NEW i \in TypedInputs, NEW p, Accepted(i, p), i.cmd = "calendar.freebusy"
  PROVE  Fits(i, p)
<1> DEFINE o == TypedOptions(i)
           ids == Items(o, "calendar_ids") \o Items(o, "calendar_id")
           args == GogArgs("calendar.freebusy", p)
<1>1. /\ DOMAIN o \subseteq {"calendar_id", "calendar_ids"} \cup RangeOptions
      /\ \A name \in DOMAIN o : TypedOption("calendar.freebusy", name, o[name])
      /\ i.action = "calendar.freebusy" /\ ids # <<>>
      /\ DOMAIN i.params = {"calendar_ids", "time_min", "time_max"}
      /\ i.params["calendar_ids"] = List(ids)
  <2>1. Options[i.cmd] = {"calendar_id", "calendar_ids"} \cup RangeOptions
    BY DEF Options, Commands
  <2>2. parseCommand(i.cmd, o, Arguments(i.words)) = parseCalendarFreebusy(o)
    BY DEF parseCommand
  <2> DEFINE made == parseCalendarFreebusy(o)
  <2>3. made.accepted /\ i.action = made.action /\ i.params = made.params
    BY <2>2, LineOf
  <2>4. /\ made.accepted => ids # <<>>
        /\ made.action = "calendar.freebusy"
        /\ DOMAIN made.params = {"calendar_ids", "time_min", "time_max"}
        /\ made.params["calendar_ids"] = List(ids)
    BY DEF parseCalendarFreebusy, Made
  <2> HIDE DEF ids, made
  <2> QED
    BY <2>1, <2>3, <2>4, LineOf
<1> HIDE DEF o, ids
<1>2. ActionOf(i) = "calendar.freebusy" /\ RunAction(i, p) = "calendar.freebusy"
  BY <1>1 DEF ActionOf, RunAction
<1>3. PICK hours \in Windows : p = WithRange(i.params, hours)
  BY <1>1, <1>2 DEF Accepted, NeedsRange
<1>4. /\ DOMAIN p = {"calendar_ids", "time_min", "time_max"} /\ p["calendar_ids"] = List(ids)
      /\ p["time_min"].type = "string" /\ p["time_max"].type = "string"
  BY <1>1, <1>3 DEF WithRange, Put, Delete, TimeParams, Str
<1>5. GogAccepts("calendar.freebusy", p)
  <2>1. \A k \in DOMAIN p : Supported(p[k])
    BY <1>4 DEF Supported, List
  <2>2. ~NoArgument(p["calendar_ids"])
    BY <1>1, <1>4 DEF NoArgument, IsArray, List
  <2>3. "calendar.freebusy" \in DOMAIN actionSpecs
    BY DEF actionSpecs, GogActions
  <2> QED
    BY <1>4, <2>1, <2>2, <2>3, CalendarCommands DEF GogAccepts, Command
<1>6. Reaches(i, args)
  <2>1. "calendar_ids" \in DOMAIN args /\ args["calendar_ids"] = Str(ids)
    BY <1>1, <1>4, CalendarCommands DEF GogArgs, NoArgument, IsArray, Command, List, Flag
  <2>2. Pieces(Str(ids)) = Range(ids)
    BY DEF Pieces, Range, Str
  <2> SUFFICES ASSUME NEW name \in DOMAIN o \ TimeParams
               PROVE  Carries(name, args["calendar_ids"], o[name])
                      /\ ArgumentFor(i.cmd, name) = "calendar_ids"
    BY <2>1 DEF Reaches, TimeOptions, NeedsRange, o
  <2>3. name \in {"calendar_id", "calendar_ids"}
    BY <1>1 DEF RangeOptions, TimeParams
  <2>4. o[name].type = "list" /\ Pieces(o[name]) \subseteq Range(ids)
    BY <1>1, <2>3, ItemsAreSent DEF ids
  <2> HIDE DEF args
  <2> QED
    BY <2>1, <2>2, <2>3, <2>4 DEF Carries, ArgumentFor
<1> QED
  BY <1>1, <1>2, <1>5, <1>6 DEF Fits, RunsAllButTwo, DraftInThread

\* Whatever the command, unless it only asks what a policy allows.
LEMMA AcceptedFits ==
  ASSUME NEW i \in TypedInputs, NEW p, Accepted(i, p), ActionOf(i) # "policy.actions"
  PROVE  Fits(i, p)
<1>1. i.cmd # "policy.actions"
  <2> SUFFICES ASSUME i.cmd = "policy.actions" PROVE FALSE
    OBVIOUS
  <2>1. \A o, args : parseCommand(i.cmd, o, args).action = "policy.actions"
    BY DEF parseCommand, Made
  <2>2. i.action = "policy.actions"
    BY <2>1, LineOf
  <2> QED
    BY <2>2 DEF ActionOf
<1>2. i.cmd \in Commands
  BY LineOf
<1> QED
  BY <1>1, <1>2, SearchFits, ThreadGetFits, GetFits, LabelsGetFits, ListFits, ThreadModifyFits,
     LabelsModifyFits, SendFits, EventsFit, FreebusyFits DEF Commands

-----------------------------------------------------------------------------

\* What is typed before the arguments gets to gog (parseX of main.go, rewriteX of
\* policy.go, buildArgs of runner.go).
THEOREM TypedReachesGogAlways == Spec => []TypedReachesGog
<1>1. RunsAreAccepted => TypedReachesGog
  <2> SUFFICES ASSUME RunsAreAccepted, NEW r \in Requests, ran[r] # NoRun,
                      input[r] \in TypedInputs
               PROVE  Reaches(input[r], ran[r].args)
    BY DEF TypedReachesGog
  <2> DEFINE i == input[r]
             p == params[r]
  <2>1. /\ i \in TypedInputs /\ Accepted(i, p) /\ GogAccepts(RunAction(i, p), p)
        /\ ran[r].args = GogArgs(RunAction(i, p), p)
    BY DEF RunsAreAccepted, RunRight
  <2> HIDE DEF i, p
  <2>2. RunAction(i, p) # "policy.actions"
    BY <2>1 DEF GogAccepts, actionSpecs, GogActions
  <2>3. ActionOf(i) # "policy.actions"
    BY <2>2, RunIsOfAction
  <2> QED
    BY <2>1, <2>3, AcceptedFits DEF Fits, i
<1> QED
  BY <1>1, RunsAreAcceptedAlways, PTL

\* gog can be run for all the policy accepts of the client's commands, but for
\* gmail.labels.modify and a draft in a thread (parseCommand of main.go, rewriteX
\* of policy.go, buildArgs of runner.go).
THEOREM ClientCommandsRunAlways == Spec => []ClientCommandsRun
<1>1. JudgedAsSent /\ RunsAreAccepted => ClientCommandsRun
  <2> SUFFICES ASSUME JudgedAsSent, RunsAreAccepted, NEW r \in Requests, pc[r] = "run",
                      input[r] \in TypedInputs
               PROVE  RunsAllButTwo(input[r], params[r])
    BY DEF ClientCommandsRun
  <2>1. Accepted(input[r], params[r])
    <3>1. pc[r] \in Phases \ Quiet
      BY DEF Phases, Quiet, Judged
    <3> QED
      BY <3>1 DEF JudgedAsSent
  <2>2. ActionOf(input[r]) # "policy.actions"
    BY DEF RunsAreAccepted, RunRight
  <2> QED
    BY <2>1, <2>2, AcceptedFits DEF Fits
<1> QED
  BY <1>1, JudgedAsSentAlways, RunsAreAcceptedAlways, PTL
=============================================================================
