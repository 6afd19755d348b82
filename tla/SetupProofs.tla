----------------------------- MODULE SetupProofs ----------------------------
(***************************************************************************)
(* Proofs about Setup, for any number of inits, any options, any edits and *)
(* any flags.                                                              *)
(*                                                                         *)
(* The default config file is either broken or holds what was last written *)
(* completely (Files); so a broker that starts on it knows that content.   *)
(* A broker serves only a policy file that LoadSet accepts (Accepts), and  *)
(* then PolicySet.Resolve finds the account of every request it should.    *)
(***************************************************************************)
EXTENDS Setup, TLAPS

Files ==
  /\ ConfigPath \in DOMAIN disk
  /\ disk[ConfigPath] = Broken \/ disk[ConfigPath] = intact

Process ==
  \/ broker = Down
  \/ broker = [at |-> broker.at, flags |-> broker.flags, config |-> broker.config,
               knew |-> broker.knew, file |-> broker.file]

Accepts == Serving => LoadAccepts(broker.file)

IInv == Files /\ Process /\ Accepts /\ ConfigSurvivesCrashes

LEMMA InitInvariant == Init => IInv
BY DEF Init, IInv, Files, Process, Accepts, Serving, Down, ConfigSurvivesCrashes, Paths

\* A step that only writes to the disk keeps the invariant.
LEMMA WriteKeeps ==
  ASSUME IInv, NEW path, NEW content, disk' = [disk EXCEPT ![path] = content],
         KeepIntact, UNCHANGED broker
  PROVE  IInv'
<1>1. Files'
  BY DEF IInv, Files, KeepIntact
<1> QED BY <1>1 DEF IInv, Process, Accepts, Serving, ConfigSurvivesCrashes, Configured,
              DefaultPath

\* A step that leaves the disk and the broker keeps it.
LEMMA IdleKeeps ==
  ASSUME IInv, UNCHANGED <<disk, intact, broker>>
  PROVE  IInv'
BY DEF IInv, Files, Process, Accepts, Serving, ConfigSurvivesCrashes, Configured,
       DefaultPath

LEMMA OpenKeeps ==
  ASSUME IInv, NEW i, NEW place, NEW path, NEW next, Open(i, place, path, next)
  PROVE  IInv'
<1>1. disk' = [disk EXCEPT ![path] = Broken] /\ UNCHANGED <<intact, broker>>
  BY DEF Open
<1>2. Files'
  BY <1>1 DEF IInv, Files
<1> QED BY <1>1, <1>2 DEF IInv, Process, Accepts, Serving, ConfigSurvivesCrashes,
              Configured, DefaultPath

LEMMA FillKeeps ==
  ASSUME IInv, NEW i, NEW place, NEW path, NEW content, NEW next,
         Fill(i, place, path, content, next)
  PROVE  IInv'
<1>1. PICK c : disk' = [disk EXCEPT ![path] = c]
  BY DEF Fill
<1> QED BY <1>1, WriteKeeps DEF Fill

\* A broker that starts reads the last complete config file, or none at all.
LEMMA StartKeeps ==
  ASSUME IInv, NEW f, Start(f)
  PROVE  IInv'
<1>1. PICK c \in Load(f) :
        broker' = [at |-> "loading", flags |-> f, config |-> c, knew |-> intact,
                   file |-> NoFile]
  BY DEF Start
<1>2. Files' /\ Process' /\ Accepts'
  BY <1>1 DEF Start, IInv, Files, Process, Accepts, Serving
<1>3. ASSUME f.config = <<>>, f.policy = <<>>, f.home, intact # Missing
      PROVE  c = Configured(f, IF intact.is = "settings" THEN intact.settings
                               ELSE NoSettings)
  <2> DEFINE path == IF f.config # <<>> THEN f.config[1] ELSE DefaultPath(f.home, ConfigPath)
  <2>1. path = ConfigPath /\ path # NoPath
    BY <1>3 DEF DefaultPath, ConfigPath, NoPath
  <2>2. PICK s \in LoadFile(path, f.config # <<>>) : c = Configured(f, s)
    BY DEF Load
  <2>3. CASE disk[ConfigPath] = Broken
    BY <2>1, <2>2, <2>3 DEF LoadFile, Broken, Missing
  <2>4. CASE disk[ConfigPath] = intact /\ intact # Broken
    BY <1>3, <2>1, <2>2, <2>4 DEF LoadFile
  <2> QED BY <2>3, <2>4 DEF IInv, Files
<1>4. ConfigSurvivesCrashes'
  BY <1>1, <1>3 DEF ConfigSurvivesCrashes, Configured, DefaultPath
<1> QED BY <1>2, <1>4 DEF IInv

LEMMA ServeKeeps ==
  ASSUME IInv, Serve
  PROVE  IInv'
<1>1. UNCHANGED <<disk, intact>>
  BY DEF Serve
<1>2. Files'
  BY <1>1 DEF IInv, Files
<1>3. broker # Down
  BY DEF Serve, Down
<1>4. CASE broker' = Down
  BY <1>2, <1>4 DEF IInv, Process, Accepts, Serving, ConfigSurvivesCrashes, Down
<1>5. CASE broker' # Down
  <2> DEFINE file == disk[broker.config.policy].file
  <2>1. broker' = [broker EXCEPT !.at = "serving", !.file = file] /\ LoadAccepts(file)
    BY <1>5 DEF Serve, Loadable
  <2>2. broker' = [at |-> "serving", flags |-> broker.flags, config |-> broker.config,
                   knew |-> broker.knew, file |-> file]
    BY <2>1, <1>3 DEF IInv, Process
  <2>3. Process' /\ Accepts'
    BY <2>1, <2>2 DEF Process, Accepts, Serving
  <2>4. ConfigSurvivesCrashes'
    BY <2>2, <1>3 DEF IInv, ConfigSurvivesCrashes, Configured, DefaultPath
  <2> QED BY <1>2, <2>3, <2>4 DEF IInv
<1> QED BY <1>4, <1>5

LEMMA NextInvariant == IInv /\ [Next]_vars => IInv'
<1> SUFFICES ASSUME IInv, [Next]_vars PROVE IInv'
  OBVIOUS
<1>1. CASE UNCHANGED vars
  BY <1>1, IdleKeeps DEF vars
<1>2. ASSUME NEW i \in Inits, InitStep(i) PROVE IInv'
  <2>1. CASE \E o \in Invocations : Begin(i, o)
    BY <2>1, IdleKeeps DEF Begin
  <2>2. CASE OpenPolicy(i) \/ OpenConfig(i)
    BY <2>2, OpenKeeps DEF OpenPolicy, OpenConfig
  <2>3. CASE FillPolicy(i) \/ FillConfig(i)
    BY <2>3, FillKeeps DEF FillPolicy, FillConfig
  <2>4. CASE Fail(i)
    BY <2>4, IdleKeeps DEF Fail
  <2> QED BY <1>2, <2>1, <2>2, <2>3, <2>4 DEF InitStep
<1>3. CASE Edit
  BY <1>3, WriteKeeps DEF Edit
<1>4. CASE \E f \in Flags : Start(f)
  BY <1>4, StartKeeps
<1>5. CASE Serve
  BY <1>5, ServeKeeps
<1>6. CASE Stop
  BY <1>6 DEF Stop, IInv, Files, Process, Accepts, Serving, Down, ConfigSurvivesCrashes
<1> QED BY <1>1, <1>2, <1>3, <1>4, <1>5, <1>6 DEF Next, BrokerStep

\* In every state the default config file is broken or what was last written to it
\* completely, and a broker serves only what LoadSet has accepted (config.go:20-88).
THEOREM Invariant == Spec => []IInv
BY InitInvariant, NextInvariant, PTL DEF Spec

\* However inits, edits and crashes interleave with the start of a broker, a config
\* file that is being written never sends it back to the defaults (LoadFile,
\* file.go:33-52).
THEOREM ConfigSurvivesCrashesAlways == Spec => []ConfigSurvivesCrashes
<1>1. IInv => ConfigSurvivesCrashes
  BY DEF IInv
<1> QED BY <1>1, Invariant, PTL

-----------------------------------------------------------------------------
(* PolicySet.Resolve *)

\* The account a request names wins.
LEMMA NamedIsResolved ==
  ASSUME NEW set, NEW written, NEW fallback, normalizeAccount(written) # NoName
  PROVE  ResolvedName(set, written, fallback) = normalizeAccount(written)
<1> DEFINE only == IF Cardinality(DOMAIN set.accounts) = 1
                     THEN CHOOSE n \in DOMAIN set.accounts : TRUE ELSE NoName
           cs == <<normalizeAccount(written), set.default, normalizeAccount(fallback), only>>
           I == {i \in 1..Len(cs) : cs[i] # NoName}
<1> HIDE DEF only
<1>1. 1 \in I /\ I \subseteq 1..4
  OBVIOUS
<1>2. Min(I) = 1
  BY <1>1 DEF Min
<1>3. SelectInSeq(cs, LAMBDA n : n # NoName) = 1
  BY <1>1, <1>2 DEF SelectInSeq
<1> QED BY <1>3 DEF ResolvedName, only

\* Without one, the default account does.
LEMMA DefaultIsResolved ==
  ASSUME NEW set, NEW fallback, set.default # NoName
  PROVE  ResolvedName(set, Unset, fallback) = set.default
<1> DEFINE only == IF Cardinality(DOMAIN set.accounts) = 1
                     THEN CHOOSE n \in DOMAIN set.accounts : TRUE ELSE NoName
           cs == <<normalizeAccount(Unset), set.default, normalizeAccount(fallback), only>>
           I == {i \in 1..Len(cs) : cs[i] # NoName}
<1> HIDE DEF only
<1>1. normalizeAccount(Unset) = NoName
  BY DEF normalizeAccount, Unset
<1>2. 2 \in I /\ I \subseteq 2..4
  BY <1>1
<1>3. Min(I) = 2
  BY <1>2 DEF Min
<1>4. SelectInSeq(cs, LAMBDA n : n # NoName) = 2
  BY <1>2, <1>3 DEF SelectInSeq
<1> QED BY <1>4 DEF ResolvedName, only

\* Whatever a broker has loaded, each account of the file gets the policy written
\* under it, in any spelling (LoadSet, set.go:35-52).
THEOREM WrittenPoliciesApplyAlways == Spec => []WrittenPoliciesApply
<1>1. Accepts => WrittenPoliciesApply
  <2> SUFFICES ASSUME LoadAccepts(broker.file), NEW k \in DOMAIN broker.file.accounts
               PROVE  Set.accounts[ResolvedName(Set, k, Unset)] = broker.file.accounts[k]
    BY DEF Accepts, WrittenPoliciesApply
  <2> DEFINE keys == DOMAIN broker.file.accounts
  <2>1. /\ normalizeAccount(k) # NoName
        /\ \A j \in keys : normalizeAccount(j) = normalizeAccount(k) => j = k
    BY DEF LoadAccepts
  <2>2. ResolvedName(Set, k, Unset) = normalizeAccount(k)
    BY <2>1, NamedIsResolved
  <2>3. (CHOOSE j \in keys : normalizeAccount(j) = normalizeAccount(k)) = k
    BY <2>1
  <2>4. Set.accounts[normalizeAccount(k)]
          = broker.file.accounts[CHOOSE j \in keys : normalizeAccount(j) = normalizeAccount(k)]
    BY DEF Set, LoadedSet
  <2> QED BY <2>2, <2>3, <2>4
<1>2. IInv => Accepts
  BY DEF IInv
<1> QED BY <1>1, <1>2, Invariant, PTL

\* A request without an account is always answered under a policy that init wrote,
\* whatever gog_account the broker has read (Resolve, set.go:74-95).
THEOREM UnnamedIsServedAlways == Spec => []UnnamedIsServed
<1>1. Accepts => UnnamedIsServed
  <2> SUFFICES ASSUME NEW o, broker.file = InitFile(o), LoadAccepts(broker.file)
               PROVE  AccountKnown(Set, Unset, broker.config.gogAccount)
    BY DEF Accepts, UnnamedIsServed, FromInit
  <2> DEFINE name == normalizeAccount(o.account)
  <2>1. DOMAIN broker.file.accounts = {o.account} /\ broker.file.default = o.account
    BY DEF InitFile
  <2>2. name # NoName
    BY <2>1 DEF LoadAccepts
  <2>3. Set.default = name /\ name \in DOMAIN Set.accounts
    BY <2>1 DEF Set, LoadedSet
  <2>4. ResolvedName(Set, Unset, broker.config.gogAccount) = name
    BY <2>2, <2>3, DefaultIsResolved
  <2> QED BY <2>3, <2>4 DEF AccountKnown
<1>2. IInv => Accepts
  BY DEF IInv
<1> QED BY <1>1, <1>2, Invariant, PTL

\* A broker that has loaded the file of an init enforces the policy of that init
\* for every account it knows.
LEMMA InitPolicyIsEnforced ==
  ASSUME NEW o, broker.file = InitFile(o), NEW a \in DOMAIN Set.accounts
  PROVE  Set.accounts[a] = InitPolicy(o)
<1> DEFINE accounts == broker.file.accounts
           key == CHOOSE k \in DOMAIN accounts : normalizeAccount(k) = a
<1>1. DOMAIN accounts = {o.account} /\ accounts[o.account] = InitPolicy(o)
  BY DEF InitFile
<1>2. a = normalizeAccount(o.account) /\ Set.accounts[a] = accounts[key]
  BY <1>1 DEF Set, LoadedSet
<1>3. key = o.account
  BY <1>1, <1>2
<1> QED BY <1>1, <1>2, <1>3

\* Under a policy that init wrote, a mail leaves without a draft only when an init
\* was asked for that, and only to recipients it was given (docs/install.md, and
\* draftSendReason, policy.go:442-460).
THEOREM DirectMailIsAskedForAlways == Spec => []DirectMailIsAskedFor
<1>1. DirectMailIsAskedFor
  <2> SUFFICES ASSUME FromInit, NEW a \in DOMAIN Set.accounts, NEW p \in Mails,
                      SendsDirectly(Set.accounts[a], p)
               PROVE  \E o \in Invocations :
                        /\ broker.file = InitFile(o) /\ o.allowSend /\ ~o.draftOnly
                        /\ o.recipients # {} => Recipients(p) \subseteq o.recipients
    BY DEF DirectMailIsAskedFor
  <2>1. PICK o \in Invocations : broker.file = InitFile(o)
    BY DEF FromInit
  <2> DEFINE g == InitPolicy(o).gmail
  <2>2. Set.accounts[a] = InitPolicy(o)
    BY <2>1, InitPolicyIsEnforced
  <2>3. SendsDirectly(InitPolicy(o), p)
    BY <2>2
  <2>4. "gmail.send" \in InitActions(o) /\ ~DraftSendRequired(g, p)
    BY <2>3 DEF SendsDirectly, InitPolicy
  <2>5. o.allowSend
    BY <2>4 DEF InitActions
  <2>6. ~o.draftOnly /\ (o.recipients # {} => Recipients(p) \subseteq o.recipients)
    BY <2>4 DEF DraftSendRequired, InitPolicy
  <2> QED BY <2>1, <2>5, <2>6
<1> QED BY <1>1, PTL

-----------------------------------------------------------------------------
(* An init that completes alone takes effect *)

\* What an init that is at work has decided.
JobFits(j) ==
  /\ j = [at |-> j.at, options |-> j.options, alone |-> j.alone]
  /\ j.at \in {"policy", "open policy", "config", "open config"}
  /\ j.options \in Invocations /\ Accepted(j.options)
  /\ j.at \in {"policy", "open policy"} => ~j.options.stdout
  /\ j.at \in {"config", "open config"} => WritesConfig(j.options)

Jobs ==
  /\ DOMAIN disk = Paths
  /\ job = [i \in Inits |-> job[i]]
  /\ \A i \in Inits : job[i] = Idle \/ JobFits(job[i])

\* The two files of an init, and none of them the other's.
OwnFiles(o) == ~o.stdout /\ PolicyTarget(o) # ConfigTarget(o)

\* An init that runs alone still finds its policy when it writes the config.
AloneFindsPolicy ==
  \A i \in Inits : job[i] # Idle /\ job[i].alone =>
    /\ \A j \in Inits \ {i} : job[j] = Idle
    /\ LET o == job[i].options
       IN  job[i].at \in {"config", "open config"} /\ OwnFiles(o) =>
             disk[PolicyTarget(o)] = Policy(InitFile(o))

DoneIsWritten ==
  \A o \in done :
    /\ \A i \in Inits : job[i] = Idle
    /\ Accepted(o) /\ WritesConfig(o)
    /\ OwnFiles(o) => /\ disk[PolicyTarget(o)] = Policy(InitFile(o))
                      /\ disk[ConfigTarget(o)] = Settings(InitSettings(o))

EffectInv == Jobs /\ AloneFindsPolicy /\ DoneIsWritten

LEMMA InitEffect == Init => EffectInv
BY DEF Init, EffectInv, Jobs, AloneFindsPolicy, DoneIsWritten

\* The files of an init are among those the disk has.
LEMMA TargetsAreOnDisk ==
  ASSUME NEW o \in Invocations
  PROVE  /\ PolicyTarget(o) \in Paths \cup {NoPath}
         /\ ConfigTarget(o) \in Paths \cup {NoPath}
BY DEF PolicyTarget, ConfigTarget, DefaultPath, Paths

\* An init at another place has decided the same.
LEMMA FitsAt ==
  ASSUME NEW j, JobFits(j),
         NEW place \in {"policy", "open policy", "config", "open config"},
         place \in {"policy", "open policy"} => ~j.options.stdout,
         place \in {"config", "open config"} => WritesConfig(j.options)
  PROVE  JobFits([j EXCEPT !.at = place])
<1> DEFINE k == [j EXCEPT !.at = place]
<1>1. DOMAIN j = {"at", "options", "alone"}
  BY DEF JobFits
<1>2. /\ DOMAIN k = {"at", "options", "alone"}
      /\ k.at = place /\ k.options = j.options /\ k.alone = j.alone
      /\ k = [f \in {"at", "options", "alone"} |-> k[f]]
  BY <1>1
<1> HIDE DEF k
<1>3. k = [at |-> k.at, options |-> k.options, alone |-> k.alone]
  BY <1>2
<1>4. k.options \in Invocations /\ Accepted(k.options)
  BY <1>2 DEF JobFits
<1>5. /\ k.at \in {"policy", "open policy"} => ~k.options.stdout
      /\ k.at \in {"config", "open config"} => WritesConfig(k.options)
  BY <1>2
<1> QED BY <1>2, <1>3, <1>4, <1>5 DEF JobFits

\* An init that moves on is where it went, or nowhere; no other moves.
LEMMA MovesOn ==
  ASSUME Jobs, NEW i \in Inits, NEW place, job[i] # Idle, GoTo(i, place),
         place # "end" => JobFits([job[i] EXCEPT !.at = place])
  PROVE  /\ job' = [j \in Inits |-> job'[j]]
         /\ \A j \in Inits : job'[j] = Idle \/ JobFits(job'[j])
         /\ \A j \in Inits \ {i} : job'[j] = job[j]
         /\ place = "end" => job'[i] = Idle
         /\ place # "end" => job'[i] = [at |-> place, options |-> job[i].options,
                                        alone |-> job[i].alone]
<1> DEFINE next == IF place = "end" THEN Idle ELSE [job[i] EXCEPT !.at = place]
<1>1. job' = [job EXCEPT ![i] = next]
  BY DEF GoTo
<1>2. job = [j \in Inits |-> job[j]]
  BY DEF Jobs
<1>3. job' = [j \in Inits |-> IF j = i THEN next ELSE job[j]]
  BY <1>1, <1>2
<1>4. JobFits(job[i])
  BY DEF Jobs
<1>5. place # "end" => next = [at |-> place, options |-> job[i].options,
                                alone |-> job[i].alone]
  BY <1>4 DEF JobFits
<1> HIDE DEF next
<1>6. next = Idle \/ JobFits(next)
  BY DEF next
<1>7. \A j \in Inits : job'[j] = Idle \/ JobFits(job'[j])
  BY <1>3, <1>6 DEF Jobs
<1> QED BY <1>3, <1>5, <1>7 DEF next

\* One lemma per step: an init opens a file.
LEMMA OpenKeepsEffect ==
  ASSUME EffectInv, NEW i \in Inits, OpenPolicy(i) \/ OpenConfig(i)
  PROVE  EffectInv'
<1> DEFINE o == job[i].options
<1>1. PICK path, next :
        /\ job[i] # Idle /\ UNCHANGED done /\ GoTo(i, next)
        /\ disk' = [disk EXCEPT ![path] = Broken]
        /\ \/ job[i].at = "policy" /\ next = "open policy"
           \/ job[i].at = "config" /\ next = "open config" /\ path = ConfigTarget(o)
  BY DEF OpenPolicy, OpenConfig, Open
<1>2. JobFits(job[i])
  BY <1>1 DEF EffectInv, Jobs
<1>3. JobFits([job[i] EXCEPT !.at = next])
  <2>1. /\ next \in {"open policy", "open config"}
        /\ next = "open policy" => ~o.stdout
        /\ next = "open config" => WritesConfig(o)
    BY <1>1, <1>2 DEF JobFits
  <2> QED BY <1>2, <2>1, FitsAt
<1>4. /\ job' = [j \in Inits |-> job'[j]]
      /\ \A j \in Inits : job'[j] = Idle \/ JobFits(job'[j])
      /\ \A j \in Inits \ {i} : job'[j] = job[j]
      /\ job'[i] = [at |-> next, options |-> o, alone |-> job[i].alone]
  BY <1>1, <1>3, MovesOn DEF EffectInv
<1>5. Jobs'
  BY <1>1, <1>4 DEF EffectInv, Jobs
<1>6. done = {}
  BY <1>1 DEF EffectInv, DoneIsWritten
<1>7. DoneIsWritten'
  BY <1>1, <1>6 DEF DoneIsWritten
<1>8. AloneFindsPolicy'
  <2> SUFFICES ASSUME NEW k \in Inits, job'[k] # Idle, job'[k].alone
               PROVE  /\ \A j \in Inits \ {k} : job'[j] = Idle
                      /\ job'[k].at \in {"config", "open config"} /\ OwnFiles(job'[k].options)
                           => disk'[PolicyTarget(job'[k].options)]
                                = Policy(InitFile(job'[k].options))
    BY DEF AloneFindsPolicy
  <2>1. k = i
    BY <1>1, <1>4 DEF EffectInv, AloneFindsPolicy
  <2>2. job[i].alone
    BY <1>4, <2>1
  <2>3. \A j \in Inits \ {i} : job[j] = Idle
    BY <1>1, <2>2 DEF EffectInv, AloneFindsPolicy
  <2>4. \A j \in Inits \ {i} : job'[j] = Idle
    BY <1>4, <2>3
  <2>5. ASSUME next = "open config", OwnFiles(o)
        PROVE  disk'[PolicyTarget(o)] = Policy(InitFile(o))
    <3>1. disk[PolicyTarget(o)] = Policy(InitFile(o))
      BY <1>1, <2>2, <2>5 DEF EffectInv, AloneFindsPolicy
    <3>2. PolicyTarget(o) # path
      BY <1>1, <2>5 DEF OwnFiles
    <3>3. PolicyTarget(o) \in DOMAIN disk
      BY <1>2, <2>5, TargetsAreOnDisk DEF EffectInv, Jobs, JobFits, OwnFiles, Accepted
    <3> QED BY <1>1, <3>1, <3>2, <3>3
  <2>6. job'[i].at = next /\ job'[i].options = o
    BY <1>4
  <2>7. next = "open policy" \/ next = "open config"
    BY <1>1
  <2> QED BY <2>1, <2>4, <2>5, <2>6, <2>7
<1> QED BY <1>5, <1>7, <1>8 DEF EffectInv

\* An init writes the policy it has opened.
LEMMA FillPolicyKeepsEffect ==
  ASSUME EffectInv, NEW i \in Inits, FillPolicy(i)
  PROVE  EffectInv'
<1> DEFINE o == job[i].options
           path == PolicyTarget(o)
           next == AfterPolicy(o)
<1>1. /\ job[i] # Idle /\ job[i].at = "open policy" /\ UNCHANGED done
      /\ GoTo(i, next)
  BY DEF FillPolicy, Fill
<1>2. PICK c : /\ disk' = [disk EXCEPT ![path] = c]
               /\ job[i].alone => c = Policy(InitFile(o))
  BY DEF FillPolicy, Fill
<1>3. JobFits(job[i])
  BY <1>1 DEF EffectInv, Jobs
<1>4. next # "end" => JobFits([job[i] EXCEPT !.at = next])
  <2>1. next # "end" => next = "config" /\ WritesConfig(o)
    BY DEF AfterPolicy
  <2> HIDE DEF next
  <2> QED BY <1>3, <2>1, FitsAt
<1> HIDE DEF next
<1>5. /\ job' = [j \in Inits |-> job'[j]]
      /\ \A j \in Inits : job'[j] = Idle \/ JobFits(job'[j])
      /\ \A j \in Inits \ {i} : job'[j] = job[j]
      /\ next = "end" => job'[i] = Idle
      /\ next # "end" => job'[i] = [at |-> next, options |-> o, alone |-> job[i].alone]
  BY <1>1, <1>4, MovesOn DEF EffectInv
<1>6. Jobs'
  BY <1>2, <1>5 DEF EffectInv, Jobs
<1>7. DoneIsWritten'
  BY <1>1 DEF EffectInv, DoneIsWritten
<1>8. AloneFindsPolicy'
  <2> SUFFICES ASSUME NEW k \in Inits, job'[k] # Idle, job'[k].alone
               PROVE  /\ \A j \in Inits \ {k} : job'[j] = Idle
                      /\ OwnFiles(job'[k].options)
                           => disk'[PolicyTarget(job'[k].options)]
                                = Policy(InitFile(job'[k].options))
    BY DEF AloneFindsPolicy
  <2>1. k = i
    BY <1>1, <1>5 DEF EffectInv, AloneFindsPolicy
  <2>2. next # "end" /\ job'[i].options = o /\ job[i].alone
    BY <1>5, <2>1
  <2>3. \A j \in Inits \ {i} : job[j] = Idle
    BY <1>1, <2>2 DEF EffectInv, AloneFindsPolicy
  <2>4. OwnFiles(o) => path \in DOMAIN disk
    BY <1>3, TargetsAreOnDisk DEF EffectInv, Jobs, JobFits, OwnFiles, Accepted
  <2> QED BY <1>2, <1>5, <2>1, <2>2, <2>3, <2>4
<1> QED BY <1>6, <1>7, <1>8 DEF EffectInv

\* An init writes the config file, its last step.
LEMMA FillConfigKeepsEffect ==
  ASSUME EffectInv, NEW i \in Inits, FillConfig(i)
  PROVE  EffectInv'
<1> DEFINE o == job[i].options
           path == ConfigTarget(o)
<1>1. /\ job[i] # Idle /\ job[i].at = "open config" /\ GoTo(i, "end")
      /\ done' = IF job[i].alone THEN {o} ELSE {}
  BY DEF FillConfig, Fill
<1>2. PICK c : /\ disk' = [disk EXCEPT ![path] = c]
               /\ job[i].alone => c = Settings(InitSettings(o))
  BY DEF FillConfig, Fill
<1>3. JobFits(job[i])
  BY <1>1 DEF EffectInv, Jobs
<1>4. /\ job' = [j \in Inits |-> job'[j]]
      /\ \A j \in Inits : job'[j] = Idle \/ JobFits(job'[j])
      /\ \A j \in Inits \ {i} : job'[j] = job[j]
      /\ job'[i] = Idle
  BY <1>1, MovesOn DEF EffectInv
<1>5. Jobs'
  BY <1>2, <1>4 DEF EffectInv, Jobs
<1>6. AloneFindsPolicy'
  BY <1>1, <1>4 DEF EffectInv, AloneFindsPolicy
<1>7. ASSUME job[i].alone
      PROVE  /\ \A j \in Inits : job'[j] = Idle
             /\ Accepted(o) /\ WritesConfig(o)
             /\ OwnFiles(o) => /\ disk'[PolicyTarget(o)] = Policy(InitFile(o))
                               /\ disk'[ConfigTarget(o)] = Settings(InitSettings(o))
  <2>1. \A j \in Inits : job'[j] = Idle
    BY <1>1, <1>4, <1>7 DEF EffectInv, AloneFindsPolicy
  <2>2. Accepted(o) /\ WritesConfig(o)
    BY <1>1, <1>3 DEF JobFits
  <2>3. path \in DOMAIN disk
    BY <1>3, <2>2, TargetsAreOnDisk DEF EffectInv, Jobs, JobFits, WritesConfig
  <2>4. ASSUME OwnFiles(o)
        PROVE  disk'[PolicyTarget(o)] = Policy(InitFile(o))
    <3>1. disk[PolicyTarget(o)] = Policy(InitFile(o))
      BY <1>1, <1>7, <2>4 DEF EffectInv, AloneFindsPolicy
    <3>2. PolicyTarget(o) # path
      BY <2>4 DEF OwnFiles
    <3>3. PolicyTarget(o) \in DOMAIN disk
      BY <1>3, <2>4, TargetsAreOnDisk DEF EffectInv, Jobs, JobFits, OwnFiles, Accepted
    <3> QED BY <1>2, <3>1, <3>2, <3>3
  <2> QED BY <1>2, <1>7, <2>1, <2>2, <2>3, <2>4
<1>8. DoneIsWritten'
  BY <1>1, <1>7 DEF DoneIsWritten
<1> QED BY <1>5, <1>6, <1>8 DEF EffectInv

\* Of an init that others disturb, only that it was alone is forgotten.
LEMMA DisturbedFits ==
  ASSUME NEW j, JobFits(j)
  PROVE  JobFits([j EXCEPT !.alone = FALSE]) /\ ~[j EXCEPT !.alone = FALSE].alone
<1> DEFINE k == [j EXCEPT !.alone = FALSE]
<1>1. DOMAIN j = {"at", "options", "alone"}
  BY DEF JobFits
<1>2. /\ k.at = j.at /\ k.options = j.options /\ k.alone = FALSE
      /\ k = [f \in {"at", "options", "alone"} |-> k[f]]
  BY <1>1
<1> HIDE DEF k
<1>3. k = [at |-> k.at, options |-> k.options, alone |-> k.alone]
  BY <1>2
<1>4. k.options \in Invocations /\ Accepted(k.options)
  BY <1>2 DEF JobFits
<1>5. /\ k.at \in {"policy", "open policy"} => ~k.options.stdout
      /\ k.at \in {"config", "open config"} => WritesConfig(k.options)
      /\ k.at \in {"policy", "open policy", "config", "open config"}
  BY <1>2 DEF JobFits
<1>6. JobFits(k)
  BY <1>3, <1>4, <1>5 DEF JobFits
<1>7. k.alone = FALSE
  BY <1>2
<1> QED BY <1>6, <1>7 DEF k

\* An init begins; it and all that run are no longer alone.
LEMMA BeginKeepsEffect ==
  ASSUME EffectInv, NEW i \in Inits, NEW o \in Invocations, Begin(i, o)
  PROVE  EffectInv'
<1> DEFINE place == IF o.stdout THEN AfterPolicy(o) ELSE "policy"
           alone == Active = {}
           fresh == [at |-> place, options |-> o, alone |-> alone]
           next(j) == IF job[j] = Idle THEN Idle ELSE [job[j] EXCEPT !.alone = FALSE]
<1>1. /\ Accepted(o) /\ place # "end"
      /\ job' = [j \in Inits |-> IF j = i THEN fresh ELSE next(j)]
      /\ done' = {} /\ UNCHANGED disk
  BY DEF Begin
<1>2. alone => \A j \in Inits : job[j] = Idle
  BY DEF Active
<1>3. \/ place = "policy" /\ ~o.stdout
      \/ place = "config" /\ o.stdout /\ WritesConfig(o)
  <2>1. place # "end"
    BY <1>1
  <2> QED BY <2>1 DEF AfterPolicy
<1> HIDE DEF place, alone
<1>4. JobFits(fresh)
  <2>1. fresh.at = place /\ fresh.options = o /\ fresh.alone = alone
    OBVIOUS
  <2>2. fresh = [at |-> fresh.at, options |-> fresh.options, alone |-> fresh.alone]
    BY <2>1
  <2> HIDE DEF fresh
  <2>3. Accepted(fresh.options)
    BY <1>1, <2>1
  <2> QED BY <1>3, <2>1, <2>2, <2>3 DEF JobFits
<1>5. ASSUME NEW j \in Inits, job[j] # Idle
      PROVE  JobFits(next(j)) /\ ~next(j).alone
  BY <1>5, DisturbedFits DEF EffectInv, Jobs
<1>6. fresh.alone = alone /\ fresh.at = place /\ fresh.options = o
  OBVIOUS
<1> HIDE DEF fresh
<1>7. \A j \in Inits \ {i} : job'[j] = next(j)
  BY <1>1
<1>8. job'[i] = fresh
  BY <1>1
<1>9. Jobs'
  <2>1. \A j \in Inits : job'[j] = Idle \/ JobFits(job'[j])
    BY <1>4, <1>5, <1>7, <1>8
  <2>2. job' = [j \in Inits |-> job'[j]]
    BY <1>1
  <2> QED BY <1>1, <2>1, <2>2 DEF EffectInv, Jobs
<1>10. AloneFindsPolicy'
  <2> SUFFICES ASSUME NEW k \in Inits, job'[k] # Idle, job'[k].alone
               PROVE  /\ \A j \in Inits \ {k} : job'[j] = Idle
                      /\ job'[k].at \in {"config", "open config"} => ~OwnFiles(job'[k].options)
    BY DEF AloneFindsPolicy
  <2>1. k = i
    BY <1>5, <1>7
  <2>2. alone
    BY <1>6, <1>8, <2>1
  <2>3. \A j \in Inits \ {i} : job'[j] = Idle
    BY <1>2, <1>7, <2>2
  <2>4. place \in {"config", "open config"} => ~OwnFiles(o)
    BY <1>3 DEF OwnFiles
  <2> QED BY <1>6, <1>8, <2>1, <2>3, <2>4
<1>11. DoneIsWritten'
  BY <1>1 DEF DoneIsWritten
<1> QED BY <1>9, <1>10, <1>11 DEF EffectInv

\* An init ends early, and is not done.
LEMMA FailKeepsEffect ==
  ASSUME EffectInv, NEW i \in Inits, Fail(i)
  PROVE  EffectInv'
<1>1. job[i] # Idle /\ GoTo(i, "end") /\ UNCHANGED <<disk, done>>
  BY DEF Fail
<1>2. /\ job' = [j \in Inits |-> job'[j]]
      /\ \A j \in Inits : job'[j] = Idle \/ JobFits(job'[j])
      /\ \A j \in Inits \ {i} : job'[j] = job[j]
      /\ job'[i] = Idle
  BY <1>1, MovesOn DEF EffectInv
<1>3. Jobs'
  BY <1>1, <1>2 DEF EffectInv, Jobs
<1>4. AloneFindsPolicy'
  BY <1>1, <1>2 DEF EffectInv, AloneFindsPolicy
<1>5. DoneIsWritten'
  BY <1>1 DEF EffectInv, DoneIsWritten
<1> QED BY <1>3, <1>4, <1>5 DEF EffectInv

\* A file is edited: nothing is undisturbed any more.
LEMMA EditKeepsEffect ==
  ASSUME EffectInv, Edit
  PROVE  EffectInv'
<1> DEFINE next(j) == IF job[j] = Idle THEN Idle ELSE [job[j] EXCEPT !.alone = FALSE]
<1>1. PICK e \in Edits : disk' = [disk EXCEPT ![e[1]] = e[2]]
  BY DEF Edit
<1>2. job' = [j \in Inits |-> next(j)] /\ done' = {}
  BY DEF Edit
<1>3. ASSUME NEW j \in Inits, job[j] # Idle
      PROVE  JobFits(next(j)) /\ ~next(j).alone
  BY <1>3, DisturbedFits DEF EffectInv, Jobs
<1>4. \A j \in Inits : job'[j] = next(j)
  BY <1>2
<1>5. \A j \in Inits : job'[j] = Idle \/ (JobFits(job'[j]) /\ ~job'[j].alone)
  BY <1>3, <1>4
<1>6. Jobs'
  BY <1>1, <1>2, <1>5 DEF EffectInv, Jobs
<1>7. AloneFindsPolicy' /\ DoneIsWritten'
  BY <1>2, <1>5 DEF AloneFindsPolicy, DoneIsWritten
<1> QED BY <1>6, <1>7 DEF EffectInv

LEMMA NextEffect == EffectInv /\ [Next]_vars => EffectInv'
<1> SUFFICES ASSUME EffectInv, [Next]_vars PROVE EffectInv'
  OBVIOUS
<1>1. CASE UNCHANGED <<disk, job, done>>
  BY <1>1 DEF EffectInv, Jobs, AloneFindsPolicy, DoneIsWritten
<1>2. ASSUME NEW i \in Inits, InitStep(i) PROVE EffectInv'
  <2>1. CASE \E o \in Invocations : Begin(i, o)
    BY <2>1, BeginKeepsEffect
  <2>2. CASE OpenPolicy(i) \/ OpenConfig(i)
    BY <2>2, OpenKeepsEffect
  <2>3. CASE FillPolicy(i)
    BY <2>3, FillPolicyKeepsEffect
  <2>4. CASE FillConfig(i)
    BY <2>4, FillConfigKeepsEffect
  <2>5. CASE Fail(i)
    BY <2>5, FailKeepsEffect
  <2> QED BY <1>2, <2>1, <2>2, <2>3, <2>4, <2>5 DEF InitStep
<1>3. CASE Edit
  BY <1>3, EditKeepsEffect
<1>4. CASE BrokerStep
  BY <1>1, <1>4 DEF BrokerStep, Start, Serve, Stop
<1> QED BY <1>1, <1>2, <1>3, <1>4 DEF Next, vars

\* LoadSet accepts what an init writes.
LEMMA InitFileIsAccepted ==
  ASSUME NEW o, Accepted(o)
  PROVE  LoadAccepts(InitFile(o))
<1> DEFINE pol == InitPolicy(o)
<1>1. DOMAIN InitFile(o).accounts = {o.account} /\ InitFile(o).accounts[o.account] = pol
  BY DEF InitFile
<1>2. InitFile(o).default = o.account
  BY DEF InitFile
<1>3. DOMAIN pol = {"actions", "gmail", "calendar"} /\ pol.actions = InitActions(o)
  BY DEF InitPolicy
<1>4. pol # NullPolicy
  BY <1>3 DEF NullPolicy
<1>5. Validate(pol)
  <2>1. InitActions(o) # {} /\ "" \notin InitActions(o)
    BY DEF InitActions
  <2> QED BY <1>3, <2>1 DEF Validate
<1>6. normalizeAccount(o.account) # NoName
  BY DEF Accepted
<1> HIDE DEF pol
<1> QED BY <1>1, <1>2, <1>4, <1>5, <1>6 DEF LoadAccepts

\* With both files as an init wrote them, a broker loads its policy.
LEMMA DoneTakesEffect ==
  ASSUME NEW o, Accepted(o), WritesConfig(o), OwnFiles(o),
         disk[PolicyTarget(o)] = Policy(InitFile(o)),
         disk[ConfigTarget(o)] = Settings(InitSettings(o)),
         NEW f, f.home = o.home, f.policy = <<>>, f.gogAccount = <<>>, f.timeout = <<>>,
         f.config = IF o.configOut = NoPath THEN <<>> ELSE <<o.configOut>>
  PROVE  \E c \in Load(f) : Loadable(c.policy) /\ disk[c.policy].file = InitFile(o)
<1> DEFINE path == IF f.config # <<>> THEN f.config[1] ELSE DefaultPath(f.home, ConfigPath)
           s == InitSettings(o)
           c == Configured(f, s)
<1>1. path = ConfigTarget(o) /\ path # NoPath
  BY DEF ConfigTarget, WritesConfig, DefaultPath
<1>2. s \in LoadFile(path, f.config # <<>>)
  BY <1>1 DEF LoadFile, Settings, Missing, Broken
<1>3. PolicyTarget(o) # NoPath
  BY DEF Accepted, OwnFiles
<1>4. c.policy = PolicyTarget(o) /\ c.timeout = "30s"
  BY <1>3 DEF Configured, FirstGiven, InitSettings
<1>5. c \in Load(f)
  BY <1>2, <1>3, <1>4 DEF Load
<1>6. Loadable(c.policy) /\ disk[c.policy].file = InitFile(o)
  BY <1>4, InitFileIsAccepted DEF Loadable, Policy
<1> QED BY <1>5, <1>6

\* A broker that starts after an init that nothing disturbed enforces its policy,
\* whatever inits before it were cut off (main, cmd/bootstrap/main.go:166-218, and
\* Load, config.go:49-59).
THEOREM InitTakesEffectAlways == Spec => []InitTakesEffect
<1>1. EffectInv => InitTakesEffect
  BY DoneTakesEffect DEF EffectInv, DoneIsWritten, InitTakesEffect, OwnFiles
<1> QED BY <1>1, InitEffect, NextEffect, PTL DEF Spec
=============================================================================
