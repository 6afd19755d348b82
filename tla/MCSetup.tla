------------------------------- MODULE MCSetup ------------------------------
(***************************************************************************)
(* Instances of Setup for TLC: what two administrators may do.             *)
(***************************************************************************)
EXTENDS Setup, TLC

Symmetry == Permutations(Inits)

Written(name, spelling) == [name |-> name, spelling |-> spelling]
Alice == Written("alice", "Alice")
Bob   == Written("bob", "bob")

\* gogcli-sandbox-init --account alice
Defaults ==
  [account |-> Alice, read |-> {}, add |-> {}, remove |-> {}, senders |-> {},
   recipients |-> {}, calendars |-> {}, threadGet |-> FALSE, allowSend |-> FALSE,
   draftOnly |-> TRUE, attachments |-> FALSE, gmailDays |-> 7, calendarDays |-> 7,
   stdout |-> FALSE, out |-> NoPath, writeConfig |-> TRUE, configOut |-> NoPath,
   home |-> TRUE]

\* Bob may send to two recipients, and has a policy file of his own.
Sending ==
  [Defaults EXCEPT !.account = Bob, !.allowSend = TRUE, !.draftOnly = FALSE,
                   !.recipients = {"ann", "abe"}, !.out = "bob.json"]
\* Without a home directory the config file cannot be written.
Drafting ==
  [Sending EXCEPT !.draftOnly = TRUE, !.threadGet = TRUE, !.home = FALSE]
Preview  == [Sending EXCEPT !.out = NoPath, !.stdout = TRUE]
Refused  == [Sending EXCEPT !.stdout = TRUE]
\* The policy is printed, and a config file names where it should go.
Printing == [Preview EXCEPT !.configOut = "etc.json"]

MCInvocations == {Defaults, Sending, Drafting, Preview, Refused, Printing}

\* A policy file with two accounts, one with an account in two spellings, and a
\* config file whose timeout does not parse.
MCEdits ==
  {<<PolicyPath,
     Policy([default |-> Unset,
             accounts |-> Alice :> InitPolicy(Defaults) @@ Bob :> InitPolicy(Sending)])>>,
   <<PolicyPath,
     Policy([default |-> Alice,
             accounts |-> Alice :> InitPolicy(Defaults)
                          @@ Written("alice", "alice") :> InitPolicy(Sending)])>>,
   <<ConfigPath, Settings([policy |-> NoPath, gogAccount |-> Bob, timeout |-> "unreadable"])>>}

NoFlags ==
  [home |-> TRUE, config |-> <<>>, policy |-> <<>>, gogAccount |-> <<>>, timeout |-> <<>>]
MCFlags ==
  {NoFlags, [NoFlags EXCEPT !.policy = <<"bob.json">>, !.timeout = <<"1m">>],
   [NoFlags EXCEPT !.home = FALSE, !.config = <<"etc.json">>]}

To(who) == "to" :> Str(who)
MCMails == {To(<<"ann">>), To(<<"ann", "eve">>), To(<<"ann">>) @@ "bcc" :> Str(<<"eve">>)}
=============================================================================
