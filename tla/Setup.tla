------------------------------- MODULE Setup --------------------------------
(***************************************************************************)
(* How a broker gets its policy: gogcli-sandbox-init (cmd/bootstrap)       *)
(* writes policy.json and config.json, an administrator may edit them, and *)
(* a starting broker reads first the one and then the other (config.Load,  *)
(* policy.LoadSet).  Nothing orders these against each other: several      *)
(* inits may run at once, each may stop anywhere, and a broker may start   *)
(* between any two of their steps.                                         *)
(***************************************************************************)
EXTENDS PolicyRules

CONSTANTS
  Inits,        \* processes running gogcli-sandbox-init
  Invocations,  \* the options it may be called with: see InitFile, PolicyTarget
  Edits,        \* what an administrator may save: pairs of a path and a content
  Flags,        \* the options a broker may be started with: see Load
  Mails         \* parameters of gmail.send, for DirectMailIsAskedFor

VARIABLES
  disk,    \* the content of each file
  job,     \* the state of each init
  done,    \* the last init, when it completed alone and nothing was changed since
  intact,  \* what was last written completely to the default config path
  broker   \* the broker process

vars == <<disk, job, done, intact, broker>>

NoPath == ""
Unset  == [name |-> NoName, spelling |-> "absent"]

\* DefaultPolicyPath and DefaultConfigPath, which fail without a home directory.
PolicyPath == "policy.json"
ConfigPath == "config.json"
DefaultPath(home, path) == IF home THEN path ELSE NoPath

\* The content of a file.  One that is emptied and not yet written, or longer
\* than what was written over it, is no JSON document.
Missing == [is |-> "missing"]
Broken  == [is |-> "broken"]
Policy(file) == [is |-> "policy", file |-> file]
Settings(s)  == [is |-> "settings", settings |-> s]

-----------------------------------------------------------------------------
(* gogcli-sandbox-init *)

OrDefault(listed, default) == IF listed = {} THEN {default} ELSE listed

InitActions(o) ==
  {"policy.actions", "gmail.search", "gmail.thread.list", "gmail.get",
   "calendar.list", "calendar.events", "calendar.freebusy"}
  \cup (IF o.threadGet THEN {"gmail.thread.get"} ELSE {})
  \cup (IF o.allowSend THEN {"gmail.send"} ELSE {})

InitPolicy(o) ==
  [actions  |-> InitActions(o),
   gmail    |-> [read |-> OrDefault(o.read, "inbox"), add |-> o.add, remove |-> o.remove,
                 senders |-> o.senders, recipients |-> o.recipients,
                 maxDays |-> o.gmailDays, allowBody |-> FALSE, allowLinks |-> FALSE,
                 draftOnly |-> o.draftOnly, allowAttachments |-> o.attachments],
   calendar |-> [calendars |-> OrDefault(o.calendars, "primary"),
                 allowDetails |-> FALSE, maxDays |-> o.calendarDays]]

\* Faulty: the policy names no default account.
WithoutDefault(o) == [default |-> Unset, accounts |-> [a \in {o.account} |-> InitPolicy(o)]]

\* The policy file it writes.
InitFile(o) == [default |-> o.account, accounts |-> [a \in {o.account} |-> InitPolicy(o)]]

PolicyTarget(o) == IF o.out # NoPath THEN o.out ELSE DefaultPath(o.home, PolicyPath)
ConfigTarget(o) ==
  IF o.configOut # NoPath THEN o.configOut ELSE DefaultPath(o.home, ConfigPath)

\* Faulty: the config file names the default policy file.
DefaultSettings(o) ==
  [policy |-> DefaultPath(o.home, PolicyPath), gogAccount |-> o.account, timeout |-> "30s"]

\* The config file it writes.
InitSettings(o) ==
  [policy |-> PolicyTarget(o), gogAccount |-> o.account, timeout |-> "30s"]

\* It starts to write: otherwise it only complains and exits.
Accepted(o) ==
  /\ ~(o.stdout /\ o.out # NoPath)
  /\ normalizeAccount(o.account) # NoName
  /\ o.stdout \/ PolicyTarget(o) # NoPath

WritesConfig(o) ==
  /\ o.writeConfig /\ ~(o.stdout /\ o.configOut = NoPath)
  /\ ConfigTarget(o) # NoPath

\* Where an init is: about to open a file, or about to write the open file.
Idle == [at |-> "idle"]
Active == {i \in Inits : job[i] # Idle}

\* The next thing to do once the policy is written or printed.
AfterPolicy(o) == IF WritesConfig(o) THEN "config" ELSE "end"

GoTo(i, place) ==
  job' = [job EXCEPT ![i] = IF place = "end" THEN Idle ELSE [@ EXCEPT !.at = place]]

Begin(i, o) ==
  LET place == IF o.stdout THEN AfterPolicy(o) ELSE "policy"
  IN  /\ job[i] = Idle /\ Accepted(o) /\ place # "end"
      /\ job' = [j \in Inits |->
                   IF j = i THEN [at |-> place, options |-> o, alone |-> Active = {}]
                   ELSE IF job[j] = Idle THEN Idle ELSE [job[j] EXCEPT !.alone = FALSE]]
      /\ done' = {}
      /\ UNCHANGED <<disk, intact, broker>>

\* os.WriteFile empties the file when it opens it ...
Open(i, place, path, next) ==
  /\ job[i] # Idle /\ job[i].at = place
  /\ disk' = [disk EXCEPT ![path] = Broken]
  /\ GoTo(i, next)
  /\ UNCHANGED <<done, intact, broker>>

KeepIntact ==
  intact' = IF disk'[ConfigPath] = Broken THEN intact ELSE disk'[ConfigPath]

\* ... and writes it at once.  Over what another process has written since,
\* the end of a longer content is left.
Fill(i, place, path, content, next) ==
  /\ job[i] # Idle /\ job[i].at = place
  /\ \E c \in {content} \cup (IF job[i].alone THEN {} ELSE {Broken}) :
       disk' = [disk EXCEPT ![path] = c]
  /\ GoTo(i, next)
  /\ KeepIntact
  /\ UNCHANGED broker

OpenPolicy(i) == Open(i, "policy", PolicyTarget(job[i].options), "open policy")
OpenConfig(i) == Open(i, "config", ConfigTarget(job[i].options), "open config")

FillPolicy(i) ==
  LET o == job[i].options
  IN  /\ Fill(i, "open policy", PolicyTarget(o), Policy(InitFile(o)), AfterPolicy(o))
      /\ UNCHANGED done

FillConfig(i) ==
  LET o == job[i].options
  IN  /\ Fill(i, "open config", ConfigTarget(o), Settings(InitSettings(o)), "end")
      /\ done' = IF job[i].alone THEN {o} ELSE {}

\* A write fails or the process is killed: what is written stays.
Fail(i) ==
  /\ job[i] # Idle
  /\ GoTo(i, "end")
  /\ UNCHANGED <<disk, done, intact, broker>>

Edit ==
  /\ \E e \in Edits : disk' = [disk EXCEPT ![e[1]] = e[2]]
  /\ job' = [j \in Inits |->
               IF job[j] = Idle THEN Idle ELSE [job[j] EXCEPT !.alone = FALSE]]
  /\ done' = {}
  /\ KeepIntact
  /\ UNCHANGED broker

-----------------------------------------------------------------------------
(* The broker starts *)

NoSettings == [policy |-> NoPath, gogAccount |-> Unset, timeout |-> ""]

\* Faulty: a file that is no JSON document counts as one that is not there.
LoadLeniently(path, required) ==
  IF path = NoPath \/ disk[path] \in {Missing, Broken}
    THEN (IF required THEN {} ELSE {NoSettings})
    ELSE {IF disk[path].is = "settings" THEN disk[path].settings ELSE NoSettings}

\* The settings of the config file; none when the broker cannot start.  A JSON
\* object of another kind has none of the keys.
LoadFile(path, required) ==
  IF path = NoPath \/ disk[path] = Missing
    THEN (IF required THEN {} ELSE {NoSettings})
    ELSE IF disk[path] = Broken THEN {}
    ELSE {IF disk[path].is = "settings" THEN disk[path].settings ELSE NoSettings}

\* A flag that is given, <<v>>, wins over the file, and the file over the default.
FirstGiven(flag, setting, unset, default) ==
  IF flag # <<>> THEN flag[1] ELSE IF setting # unset THEN setting ELSE default

\* What config.Load makes of the flags and a file.
Configured(f, s) ==
  [policy     |-> FirstGiven(f.policy, s.policy, NoPath, DefaultPath(f.home, PolicyPath)),
   gogAccount |-> FirstGiven(f.gogAccount, s.gogAccount, Unset, Unset),
   timeout    |-> FirstGiven(f.timeout, s.timeout, "", "30s")]

Load(f) ==
  LET path == IF f.config # <<>> THEN f.config[1] ELSE DefaultPath(f.home, ConfigPath)
  IN  {c \in {Configured(f, s) : s \in LoadFile(path, f.config # <<>>)} :
         c.policy # NoPath /\ c.timeout # "unreadable"}

\* LoadSet reads a file that is there, is JSON and has accounts.
Loadable(path) == disk[path].is = "policy" /\ LoadAccepts(disk[path].file)

Down   == [at |-> "down"]
NoFile == [default |-> Unset, accounts |-> << >>]

\* The broker has read its config file; it exits when there is no result.
Start(f) ==
  /\ broker = Down
  /\ \E c \in Load(f) :
       broker' = [at |-> "loading", flags |-> f, config |-> c, knew |-> intact,
                     file |-> NoFile]
  /\ UNCHANGED <<disk, job, done, intact>>

\* It reads its policy file, and then serves or exits.
Serve ==
  LET path == broker.config.policy
  IN  /\ broker.at = "loading"
      /\ broker' = IF Loadable(path)
                     THEN [broker EXCEPT !.at = "serving", !.file = disk[path].file]
                     ELSE Down
      /\ UNCHANGED <<disk, job, done, intact>>

Stop == broker # Down /\ broker' = Down /\ UNCHANGED <<disk, job, done, intact>>

-----------------------------------------------------------------------------
\* Every path that something may write or read.
Paths ==
  {PolicyPath, ConfigPath} \cup {e[1] : e \in Edits}
  \cup {o.out : o \in Invocations} \cup {o.configOut : o \in Invocations}
  \cup UNION {{v[1] : v \in {f.config, f.policy} \ {<<>>}} : f \in Flags}

Init ==
  /\ disk = [path \in Paths |-> Missing]
  /\ job = [i \in Inits |-> Idle]
  /\ done = {} /\ intact = Missing /\ broker = Down

InitStep(i) ==
  \/ \E o \in Invocations : Begin(i, o)
  \/ OpenPolicy(i) \/ FillPolicy(i) \/ OpenConfig(i) \/ FillConfig(i) \/ Fail(i)

BrokerStep == (\E f \in Flags : Start(f)) \/ Serve \/ Stop

Next == (\E i \in Inits : InitStep(i)) \/ Edit \/ BrokerStep

Spec == Init /\ [][Next]_vars

-----------------------------------------------------------------------------
(* Properties *)

Serving == broker.at = "serving"
Set == LoadedSet(broker.file)

\* The policy file the broker has loaded is one that gogcli-sandbox-init writes.
FromInit == \E o \in Invocations : broker.file = InitFile(o)

\* When an init completes with no other running and nothing is changed since, a
\* broker started on its config file enforces the policy of that init, whatever
\* inits before it left half-written (main, cmd/bootstrap/main.go:166-218, and
\* Load, config.go:49-59).
InitTakesEffect ==
  \A o \in done :
    LET named == IF o.configOut = NoPath THEN <<>> ELSE <<o.configOut>>
        flags == [home |-> o.home, config |-> named,
                  policy |-> <<>>, gogAccount |-> <<>>, timeout |-> <<>>]
    IN  ~o.stdout /\ PolicyTarget(o) # ConfigTarget(o) =>
          \E c \in Load(flags) :
            Loadable(c.policy) /\ disk[c.policy].file = InitFile(o)

\* A config file that is being rewritten, or was left half-written, never sends
\* a broker back to the default policy file: one that is started without --config
\* and --policy uses the policy file that the last complete config file names
\* (LoadFile, file.go:33-52).
ConfigSurvivesCrashes ==
  broker # Down =>
    LET f == broker.flags
    IN  f.config = <<>> /\ f.policy = <<>> /\ f.home /\ broker.knew # Missing =>
          broker.config = Configured(f, IF broker.knew.is = "settings"
                                          THEN broker.knew.settings ELSE NoSettings)

\* A request without an account is answered by the account of the policy that was
\* loaded, even when the gog_account the broker has read is that of another init
\* (default_account, cmd/bootstrap/main.go:155-158, and Resolve, set.go:74-95).
UnnamedIsServed ==
  Serving /\ FromInit =>
    AccountKnown(Set, Unset, broker.config.gogAccount)

\* Every policy of the file the broker has loaded is enforced, for the account it
\* is written under in any spelling: none hides another (LoadSet, set.go:35-52).
WrittenPoliciesApply ==
  Serving => \A k \in DOMAIN broker.file.accounts :
               Set.accounts[ResolvedName(Set, k, Unset)] = broker.file.accounts[k]

\* The broker would send this mail, rather than draft it or refuse it.
SendsDirectly(pol, p) ==
  /\ "gmail.send" \in pol.actions
  /\ rewriteGmailSend(pol.gmail, p).accepted /\ ~DraftSendRequired(pol.gmail, p)

\* Under a policy that init wrote, a mail is sent directly only when an init was
\* called with --allow-send and --draft-only=false, and only to the recipients it
\* was given, when it was given any ("Allow direct send only to specific
\* recipients", docs/install.md; draftSendReason, policy.go).
DirectMailIsAskedFor ==
  Serving /\ FromInit =>
    \A a \in DOMAIN Set.accounts, p \in Mails :
      SendsDirectly(Set.accounts[a], p) =>
        \E o \in Invocations :
          /\ broker.file = InitFile(o) /\ o.allowSend /\ ~o.draftOnly
          /\ o.recipients # {} => Recipients(p) \subseteq o.recipients
=============================================================================
