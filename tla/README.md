# gogcli-sandbox in TLA+

gogcli-sandbox is a broker: agents send it JSON requests over a Unix socket, it
checks each against the policy of an account, rewrites it, runs the `gog`
command line for it and redacts what `gog` printed. These modules model the
broker, its server, its client and its setup from their Go source; TLC checks
them on small instances and TLAPS proves the central theorems for every
instance. Line numbers refer to the source files.

## Inventory

| Component | State | Operations | Interacts with |
|---|---|---|---|
| request broker (`internal/broker/broker.go`) | per account: `labelOnce`, `labelErr`; per request: the goroutine of `Handle` | `Handle`, `ensureLabelMap`, `resolvePolicy` | called by the server on one goroutine per request; calls policy, runner, redaction; cancelled through the request's context |
| policy rules (`internal/policy/policy.go`) | per account: the two label maps | `ValidateAndRewrite` and the `rewrite...` functions, `SetLabelMap`, label lookups | called by the broker; calls the time zone provider, which runs gog |
| policy set (`internal/policy/set.go`) | the accounts' policies, fixed after start | `LoadSet`, `Resolve` | loaded by the process at start, asked by the broker |
| calendar range (`internal/timerange`, `resolveCalendarRange`) | none | `Resolve`, window check | called by the policy rules |
| gog runner (`internal/gog`) | none; a child process per run | `Run`, `buildArgs` | called by the broker, by the label lookup and by the time zone provider; kills gog when its timeout ends or the context is cancelled |
| redaction (`internal/redact`) | none | `Redact`, its masks and filters | called by the broker; reads the label maps |
| HTTP server (`internal/server/http.go`) | the listener and the socket file | listen, accept, decode, encode, shut down | gives `Handle` a context that ends with the connection; shares the path of its socket with other processes |
| broker process (`cmd/broker/main.go`, systemd units) | the process | start, signals, exit; restarted on failure | builds all of the above from config.json and policy.json |
| client (`cmd/client`) | none | parse a command line, one request with a timeout | the HTTP server |
| configuration (`internal/config`) | `config.json` | `Load`, `LoadFile`, `WriteFile`, default paths | read by the broker, written by bootstrap and by hand |
| bootstrap (`cmd/bootstrap`, gogcli-sandbox-init) | `policy.json`, `config.json` | write one, then the other | runs beside other inits and beside starting brokers |
| logging | log lines | written | influences nothing |

What is hard here:

* **Interleaving.** Handlers of one account share a `sync.Once`, the error it
  left and the label maps. The lookup is done by whichever request comes first,
  with that request's context: if its client hangs up, the lookup of everybody
  fails, and stays failed until the process ends. Two brokers may start on one
  path, whose socket is looked at, removed, bound and opened in separate system
  calls; two inits may write the same files while a broker reads them.
* **Failure.** gog fails, is killed or prints nonsense, before or after it has
  acted. The process dies with all requests in flight, and systemd starts one
  that knows nothing. init dies between its two files, or within one.
* **Time limits.** The client waits 15 s, gog may take 30 s, a request may need
  gog twice, the server stops reading after 10 s and writing after 30 s.
* **Rewriting.** A command line passes through four readers (the client's flags,
  the rule that judges the parameters, the rule that rewrites them, the runner
  that turns them into arguments), and what is judged must be what is run.
* **Old knowledge.** Labels are looked up once and go on being renamed; results
  are filtered by the maps of then.
* **Days.** A calendar range is computed in the account's zone, whose days are
  23 to 25 hours long, and judged in days of 24.

What makes the components correct:

* broker: gog acts at most once for a request, within the policy, for a client
  that waits; the answer is true; every request ends; labels are looked up once
  and known before they are needed.
* policy rules: what is accepted keeps the limits of the policy in terms of what
  gog gets; an allowed label is allowed by id and by name; what is accepted can
  be run.
* calendar range: a flag means whole local days; what the policy's window
  should admit, it admits.
* redaction: nothing that is forbidden is left, whatever the order of a map; a
  list is filtered by one consistent knowledge of the labels.
* server and time limits: a broker that serves can be reached; what an earlier
  process left behind does not stop the next; a handler is bounded; gog does not
  work for a client that has gone.
* client: what was typed is what gog gets.
* configuration and bootstrap: a broker enforces the policy that was written
  last and completely, or does not start.

## Modules

| Module | Models | Notes |
|---|---|---|
| `Params` | parameter maps and their getters | values keep their Go type, because getters and runner decide on it; a text is the sequence of its comma-separated pieces; of a list that holds more than strings (`Mixed`) the strings the getters read, the leaves gog gets, and whether the runner can convert it |
| `PolicySet` | `set.go`, `Policy.Validate` | an account is a name and its spelling; `normalizeAccount` drops the spelling |
| `PolicyRules` | `policy.go` | one operator per `rewrite...` function, returning acceptance and the new parameters |
| `GogRunner` | `internal/gog` | `GogAccepts` is the success of `buildArgs`, `GogArgs` its result |
| `Deployment` | policy file, `gog_account`, mailboxes, requests, the ranges a calendar request may stand for | the constants, and what follows from them at start |
| `Broker` | `Handle`, `ensureLabelMap`, crash and restart | the state machine |
| `BrokerProperties` | | invariants, action properties, fairness, refinement |
| `Limits` | the policy in terms of gog's arguments | what gog may do for a request, and what an answer may say |
| `Gatekeeper` | the promise of the broker | abstract specification, implemented by `Broker` |
| `CalendarRange` | `timerange.go`, end of `resolveCalendarRange` | a clock that ticks hours, over days with clock changes |
| `Redact` | `redact.go` | a response as a function from paths to leaves |
| `Reading` | mailbox, label maps and `Redact` together | `EXTENDS Redact`; one step per request, renames and restarts between |
| `Exchange` | client, net/http, handler, gog: their time limits | a clock in ticks, which passes only while gog runs |
| `Client` | `cmd/client` up to the request | one operator per `parse...` function |
| `ClientBroker` | the broker with requests of its client, and of agents that do without it | composes `Client` and `Broker` |
| `Server` | `http.go`, the life of `cmd/broker` on its path | one action per system call on the socket file |
| `Setup` | `cmd/bootstrap`, `internal/config`, `LoadSet`, the start of the broker | one action per open and per write of a file |
| `PolicyProofs`, `BrokerProofs`, `ClientProofs`, `CalendarRangeProofs`, `ReadingProofs`, `ExchangeProofs`, `ServerProofs`, `SetupProofs` | | TLAPS |
| `MCBroker`, `MCCalendarRange`, `MCReading`, `MCClientBroker`, `MCSetup` | | instances for TLC |

### Broker

`pc[r]` is where the goroutine of `Handle` for request `r` is:

| `pc` | Code |
|---|---|
| `received` | `Handle` has been called (http.go:58) |
| `labels` | before `once.Do`, or waiting in it, or back from it (broker.go:194) |
| `fetching` | in the function `once.Do` runs, while gog lists labels |
| `rewrite` | before `ValidateAndRewrite` (broker.go:86) |
| `range` | in the time zone provider, while gog lists calendars (policy.go:738) |
| `overflow` | in the recursion of `cleanupTimeParams` (policy.go:671) |
| `run` | before `runner.Run` (broker.go:116) |
| `running` | while gog runs for the request |
| `answered`, `lost` | answered, or gone with the process |

A step ends where other goroutines can act and be noticed: at each run of gog
and around `once.Do`. Between these a handler touches only its own parameters
and reads label maps that no longer change (`LookupIsFinal`), so longer steps
hide no interleaving. `sync.Once` is `once[a]`: `new`, `running` while one
handler is in the function, `done` for ever after. `labelErr[a]` is `absent`
until set, then `nil` or `err`. `ran[r]` is the run of gog *for the request*
(account, action, arguments); the two auxiliary runs (labels, calendars) only
list things and appear as steps. `gone[r]` is a cancelled context: gog is not
started, or is killed. `GogFails` leaves `ran` as it is, because gog may have
acted before it failed. `ClientGone`, `Crash` and `Restart` may happen at any
time.

Parameters of a refused request are not looked at again, so a refusal leaves
them as they were, although `rewriteGmailGet` and `resolveCalendarRange` may
have begun to rewrite them.

`Gatekeeper` states what the broker promises: gog acts at most once for a
request, as it is permitted to, and the answer is true. Its parameters
`Permitted` and `Truthful` are defined in `Limits`, without the rules of the
code. A label change within the policy is one whose every word denotes, in a
listing of the mailbox, a label the policy lists under its id or its name; a
search within the policy has a term that must match and bounds its age
(`newer_than` to the limit, `after` to less than it, for it names a day and the
day is not over); a mail goes out only when the request names someone, and only
to listed addresses; a calendar is asked about no more than `max_days`.
`Promise` maps `pc` to the four stages of a request and the other variables to
themselves; `KeepsPromise` is checked, and proved, as a refinement.

A request may have any JSON parameters, but the broker does not keep the limits
on all of them: its rules pass over what a list holds besides strings, which the
runner passes on, and find terms of a query wherever they stand, also behind a
minus or beside an OR. The promise is about the parameters that rules and gog
read alike (`Understood`): texts, lists of strings, and queries whose every term
must match. On all others `EveryRunKeepsLimits` states the same limits, and
fails. A term of a query has a flag for whether it binds (`Loose` makes one that
does not), and one that ends in an OR or opens a quote (`Dangling`) takes the
binding from the term that is appended to it. How Gmail reads a query is outside
the code; that OR is between the terms next to it is all that is taken of it.

### CalendarRange

Days are numbered and instants counted in half hours of UTC; `Offset(d)` is
the zone's offset at the midnight day `d` begins with, so
`Midnight(d) = 24 d - Offset(d)` hours and the days at a clock change are 23 or
25 hours long. `endOfDay` is one tick before the next midnight, which stands
for its nanosecond. A request carries the `max_days` of its account's policy. The
broker module abstracts from the days: a range spans one of the hours of
`Windows`, which `max_days` admits or not, and `RangeFails` is possible for every
readable range.

### Redact and Reading

A JSON document is a function from the paths of its leaves to the leaves; a step
of a path is a map key or an array position. A string is a sequence of parts (a
word, a URL, an address, what masks them), because masking replaces parts and
filtering compares whole strings. A filtered array keeps the positions of its
items, which stand for the items. `hasAllowedLabelIDs` walks the document and
lets the first label list decide; Go walks the keys of a map in any order, so
the operator returns the set of outcomes of all walks, of which `MetBefore` says
which lists come first in every one.

`Reading` puts `Redact` where it is called: `mail` is what the labels are named
now, `table` what the process looked up at its first request that needs labels,
`seen` (a history variable) the listings there have been since. What gog prints
is modelled on what the code and its tests take it to print. A request is one
step; `LabelsKnownAlways` of the broker is what allows that.

### Exchange

`phase[r]` is the handler's (`labels` is `once.Do`, `lookup`, `zone` and `run`
are runs of gog), `client[r]` what the client knows, `once` the shared lookup.
`Tick` lets time pass when no handler can go on without gog and no limit has
been reached (`Waits`). net/http reads on behind a request, so the end of the
connection cancels the context; the read deadline may do so too, which is left
open. `Waits` says of a client that has gone that it has been noticed
(`CanCancel` is what net/http does about it), and nothing of what its handler
does then. `late` is a history variable: time has passed since the client gave up.
An answer written after the write deadline does not arrive (`broken`).

### Client and ClientBroker

A command line is a command and a sequence of options and arguments; the flag
package stops at the first argument, so what follows it is an argument whatever
it looks like. `ClientRequest` is the request sent. `ClientBroker` runs the
broker on such requests (`TypedInputs`), each with the line it came from, so that
what was typed can be compared with what gog is run with, beside the requests of
agents that write their JSON themselves. `InputsAreTyped` says what the former
are: their words are typed as the flag package reads them, and they are the
request the client makes of them. `AsksFor` is what `TypedReachesGog` is about: an
option that is there and, under `--add` and `--remove`, not all blank. Of a
calendar command the options that say a range (`TimeOptions`) are left out, for
gog gets the range they stand for; `--to` and `--from` of `gmail.send` are not.

### Server

`pc[b]` follows a broker through `Serve`: `look` (os.Stat), `remove`, `listen`,
`chmod`, `serving`, then `unlink` (the listener removes the path, whatever is
there now) and `close`, after which `Serve` returns and `main` ends with
whatever its handlers are doing. `file` is what is at the path: nothing, a file
of another kind, the socket of a dead process (`stale`), of a broker, or of
systemd. A connection nobody has accepted is `queued` at the broker that
listens, or at systemd's socket, which outlives all brokers; which of them the
end of a broker loses is `LosesConnection`. `Crash` is possible at every step.
`activated` is chosen once: systemd holds the socket, and `Serve` starts at
`serving`. `sole` is a history variable that says which broker has had the path
to itself since it started.

### Setup

`disk` maps paths to contents; a file that has been emptied and not written, or
whose longer old end shows behind a shorter new content, is `Broken`, which is
no JSON document. `job[i]` is where an init is (about to open or to fill the
policy or the config file); `Fail` ends it anywhere. `Edit` is an administrator
who saves a file. `Start` is `config.Load` with the flags of the broker,
`Serve` is `LoadSet`; anything may happen between the two. `done` and `intact`
are history variables: the init that completed alone and undisturbed, and what
was last written completely to the default config file.

## What is checked

The first seven runs pass. Each of the other five states what a document or a
help text promises, and fails.

| Run | Instance | Shows |
|---|---|---|
| `labels` | 2 requests, 2 accounts, 5 inputs, under `FairSpec`; labels allowed by id and by name; one mailbox whose labels are renamed, share a name or are missing, one with fixed names; ranges and the overflow | `LookupDiscipline` (the inductive invariant), `LabelsKnown`, `SingleLookup`, `LookupIsFinal`, `AllowedChangesPass`, `OneTrueRun`, `KeepsPromise`, `EveryRequestEnds` |
| `requests` | 1 request out of all actions and all ways to be refused or rewritten, with lists in lists and loose queries, and from every command of the client with its options, repeated, blank, half blank, zero, misplaced and missing ones; an account with every limit and a draft-only one; `gog_account` differs from the default account | `TypeOK`, `RunMatchesPhase`, `JudgedAsSent`, `OneTrueRun`, `KeepsPromise`, `TypedReachesGog`, `ClientCommandsRun` |
| `ranges` | 11 days of hours, a zone that changes its clocks on days 5 and 9, every form of range, under a `max_days` of 0 (none), 3 (less than the default week) and 7 | `FlagsMeanWholeDays`, `WeekdayIsTheNextOne`, `DefaultFits`, `DaysFitUnlessClocksGoBack` |
| `reading` | 3 labels whose names change and change places; 3 threads (two messages, one, one without labels); 3 policies that list labels by id, by name and not at all, with and without senders, bodies, links and details | `SearchIsConsistent`, `SameVerdict`, `NothingForbiddenLeft`, `ShownHasListedLabel`, `OnlyMaskedCalendarsMiss` |
| `exchange` | 2 requests; gog 3 ticks, reading 4, writing 7, the client 9, under `FairSpec` | `HandlersAreBounded`, `FastAnswersArrive`, `NothingIsDoneForTheGone`, `HandlersEnd` |
| `server` | 2 brokers, 2 clients, with and without socket activation, under `FairSpec` | `ServingIsReachable`, `OnlyFilesStopAStart`, `FileIsKept`, `OnlyCrashesLeaveSockets`, `QueueOutlivesBrokers`, `ConnectionsEnd` |
| `setup` | 2 inits out of 6 sets of options, 3 edits, 3 sets of broker flags, 3 mails | `InitTakesEffect`, `ConfigSurvivesCrashes`, `UnnamedIsServed`, `WrittenPoliciesApply`, `DirectMailIsAskedFor` |
| `free_busy` | `CalmSpec`: nothing kills the process from outside | `NoRequestIsLost` fails, see below |
| `unrunnable` | a change of labels on threads, and a reply in a thread | `AcceptedIsRunnable` fails, see below |
| `limits` | a list in a list, and a loose query | `EveryRunKeepsLimits` fails, see below |
| `days_over_clock_change` | as `ranges` | `DaysFit` fails, see below |
| `listed_hidden` | as `reading`, the policy lists a label by its name and a calendar of another domain | `ListedIsShown` fails, see below |

Bounds. Handlers interact only through an account's lookup and through the
death of the process. With two of them one can be in any phase while the other
is in any other: one does the lookup and the other waits for it, comes later, or
belongs to the other account. A slot takes any number of requests one after the
other, and the process may crash and restart any number of times: `lookups`
counts per process, and no counter needs a bound. What the lookup guarantees for
any number of handlers is proved. In `requests` there is one slot, because what
matters there is which request it is: handlers share nothing but the lookup, and
two of them meet in `labels`. `Windows` has the hours of a range that `max_days`
just admits and of one it just does not. The eleven days of `ranges` contain every
weekday, both clock changes, and windows of seven days that begin before, in and
after them. `CalendarRange.cfg` turns deadlock checking off because its clock
stops at the last day; no other run does.

In `reading` each label has a name that was another's before, so that maps of
any age differ from the truth in every way they can; a search may find any set
of threads. In `exchange` two runs of gog just fit into the time to write, the
read deadline falls into the second run, and the client may give up at any
moment, not only at its limit; the default limits have other proportions (15 s,
10 s, 30 s and 30 s), for which `FastAnswersArrive` says nothing: there an answer
that took two runs of gog may be lost, as its theorem makes plain. In `server` a
broker and its successor, or two at once, go through all their steps against
each other. In `setup` two inits, an editor and a starting broker meet at every
step; the options are those that lead to different files, paths or permissions.

Fairness. `FairSpec` of the broker lets each handler go on as long as it can.
The Go scheduler runs every runnable goroutine; a handler that waits for gog is
freed by the timeout, which kills gog (runner.go:176-186); a handler in `once.Do`
is freed when the one inside returns. That of `Exchange` adds that time goes on,
that net/http notices the end of a connection, and that a client keeps its own
limit. That of `Server` lets each process run on, be started again when it has
ended (`Restart=on-failure`; a broker told to stop ends with exit code 1 too),
and accept and answer who is connected. Clients, signals, edits, crashes and the
restart after a crash of the broker model are not forced.

Each property has a mutant: an operator marked "Faulty", next to the definition
it stands in for, with a mistake that is easy to make there. The property is
violated when the one replaces the other.

### What the runs found

* **An absolute calendar range kills the broker.** `cleanupTimeParams`
  (policy.go:670-672) is nothing but a call of itself. `resolveCalendarRange`
  calls it for every accepted range with two RFC3339 ends, which is what the
  client sends for `calendar.freebusy`. All requests in flight are lost.
* **Some parameters are run and not judged.** The rules skip what a list holds
  besides strings (policy.go:636-640 and 787-791), while the runner goes into
  lists in it and writes numbers and booleans out (runner.go:300-309): a mail to
  `["ann"]` with a copy to `[["eve"]]` is accepted, and gog sends to both. Labels
  and calendars are let through in the same way. The client sends no such lists.
* **A query may look bounded and not be.** `newer_than` and `after` are found
  wherever they stand (policy.go:502), also in `-newer_than:1d` and in
  `x OR newer_than:1d`, and no window is added then. Both are what `limits`
  shows: each of its two requests fails alone.
* **`gmail.labels.modify` never runs.** `thread_ids` becomes a `[]string`
  (policy.go:364), a type the runner does not convert.
* **Nor does a reply in a thread to a stranger.** It becomes a draft
  (broker.go:93), which has no `thread_id`. `unrunnable` has both requests, and
  each fails alone; `ClientCommandsRun` states that these two always fail, and
  that nothing else the client asks for does.
* **`--days 7` under `max_days` 7** is refused in the week the clocks go back.
* **A label listed by its name can be searched for and not read.**
  `hasAllowedLabelIDs` (redact.go:216) compares ids with the policy's words as
  they are; `filterSearchResults` looks names up.
* **A listed calendar may not be shown.** `filterCalendarList` runs after
  `maskEmails` (redact.go:91-97), so with `allowed_senders` a calendar whose id is
  an address of another domain is left out. `listed_hidden` has a policy with both,
  and each fails alone; `OnlyMaskedCalendarsMiss` states that no other listed
  calendar is missing, and none is shown that is not listed.

Met while modelling, and visible in the modules without a run of their own:

* `id` for `thread_id` (policy.go:212) and for `message_id` (policy.go:252) is
  accepted and left in place, and the runner then refuses it as unknown.
* `gmail.thread.get` shows a whole thread when its first message with labels has
  an allowed one: `ShownHasListedLabel` is as much as holds.
* Labels that are all blank are dropped by the client without a word when the
  line changes others (`--add " " --remove x`, main.go:200), and refused when it
  does not. `TypedReachesGog` promised them too, until its proof failed there;
  the line is one of the run's since.
* No option of gogcli-sandbox-init allows an action that changes labels, so
  `--add-label` and `--remove-label` have no effect (docs/install.md:53 shows
  them under "Allow label modifications"). Its default `--calendar primary`
  matches no id that gog lists.
* A broker that starts takes the path of one that serves, and that one does not
  notice; two that start at once may both fail; one that stops removes whatever
  is at the path. Hence `sole` in the properties of `Server`.
* A second init for another account replaces the policy of the first and the
  whole of `config.json`. `InitTakesEffect` is about the last one.
* Options after the first argument of a command line are arguments; `track` and
  `reply_all` are always refused; `allow_links` of Gmail has no effect where the
  calendar section forbids details.

## What is proved

Every invariant and every safety property of a step that a passing run checks is
a theorem, and so is the refinement. The runs show them on the instances above,
the theorems for all constants that meet the assumptions named in the modules,
which TLC evaluates in the runs:

| Assumption | Because |
|---|---|
| `PolicyFileAccepted` | the broker does not start with a file `LoadSet` refuses |
| `MaxDaysIsInt` | `max_days` is decoded into an `int` |
| `MailboxPerAccount` | `gog` lists the labels of an account, whichever they are |
| `InputsAreParsed` | texts and lists are sequences, and the strings of a list are among its leaves; a parameter may be of any JSON type |
| `WindowsAreHours` | a range is a number of hours long |
| `InputsAreTyped` | a request that carries a command line is the one this client makes of it |
| `ListingsAssumption`, `ThreadsAssumption`, `CalendarsAssumption` | a mailbox has finitely many labels, each with a name; messages have labels of it; threads and messages are counted, and a thread has a first one; a calendar's id is a word or an address |
| `StandardIsInt`, `AsksAreFlags`, `DaysAreInt` | what flags, policies and zones consist of; `from` is a time expression |
| `TimeoutsAssumption` | a time limit is a positive number of ticks |

`PolicyProofs`, for any policy, tables and parameters: what the rules accept
keeps the limits in terms of what gog gets, on the parameters that are texts or
lists of strings, and on queries whose terms all bind. There is one lemma for each rule
(`ThreadModifyWithin`, `LabelsModifyWithin`, `LabelsGetWithin`,
`SearchReachesGogWithin`, `GetReachesGogAsMetadata`, `MailReachesGogWithin`,
`EventsReachGogWithin`, `FreeBusyReachesGogWithin`). They rest on what the
getters read being what the runner passes on (`ArgWords`, `SliceWords`), on
`NonBlankRange`, what is left of a list without its blanks, and on
`AllowedIsListed`: a word the tables allow denotes a label the policy lists in
the listing the tables were made of.

`BrokerProofs`, for any finite or infinite set of requests, any accepted policy
file and any mailboxes:

1. `TypeCorrect`: `TypeOK` is inductive.
2. `LookupIsDisciplined`: the inductive invariant of the lookup. `LabelsKnown`
   alone is not inductive: that a judged request has its labels follows from
   `once` being `done` without an error *and* the maps being filled, which holds
   because only the handler in `fetching` can finish a lookup (`OnceHasRunner`),
   because it writes maps and error in one step (`OutcomeKept`), because no two
   handlers are in there (`SingleLookup`), and because after a crash there is no
   handler left that remembers the old maps (`NoHandlerOutlives`). The proof has
   one lemma per kind of step: steps that move a handler past the lookup, the
   entry, the end of a lookup, clients, and the process.
3. `LabelsKnownAlways` and `SingleLookupAlways` are conjuncts of it;
   `LookupFinalAlways` follows from it step by step.
4. `RunsMatchPhases`: `ran` and `answer` agree with the phase of every handler,
   inductive with `TypeOK`; with it `OneTrueRunAlways`.
5. `JudgedAsSentAlways`: what waits to be judged is what the client sent, and
   what waits for gog is what the rules left of it, by maps gog reported. It
   uses `LookupDiscipline` for the maps.
6. `BrokerKeepsPromise`, the refinement: with the three invariants above each
   step is a step of `Gatekeeper` or a stutter. All but one case are about
   stages and answers (`ReplyIsAnswer`, `StageOfGo`); the start of gog is `Act`
   because a request that was judged as it was sent, by maps gog reported, is
   run within the limits (`AcceptedRunIsPermitted`, from the lemmas of
   `PolicyProofs`). It holds for requests with any parameters; the limits are
   those on the parameters that rules and gog read alike, which is what the
   lemmas assume (`UnderstoodIsPlain`).
7. `AllowedChangesPassAlways`, the converse: a change of labels the policy lists
   is never refused (`ListedChangeIsValid`), under whichever name it asks for
   them, and by maps of any listing the lookup may have got.

`ClientProofs`, for any lines of words, among any other requests:
`TypedReachesGogAlways` and `ClientCommandsRunAlways`. `RunsAreAcceptedAlways` is
the invariant they share: what gog has been run with are the arguments of
accepted parameters. The rest is a walk along the command line: what the options of a line are (`LineOf`,
`OptionsAreTyped`, and `FlattenIsSequence` for options given more than once),
and for each command which parameters its request has, what its rule leaves of
them, and that the runner supports them and no others (`SearchFits`,
`ThreadModifyFits`, ..., `FreebusyFits`; `AcceptedFits` combines them).

`CalendarRangeProofs`, for every zone with one hour of summer time on any set of
days, every `max_days` and every form of request: `FlagsMeanWholeDaysAlways`,
`DefaultFitsAlways`, `DaysFitAlways`, `WeekdayIsTheNextOneAlways`.
`AnswersAreCurrent` is the invariant they share: an answer is what
`resolveCalendarRange` computes at that hour. The rest is arithmetic on
midnights, in the lemmas `WholeDaysSpan`, `DaysAreOrdered` and `SpansWholeDays`,
and on days of the week (`WeekdayFound`), and that a readable expression is an
instant (`ExprIsInstant`).

`ReadingProofs`, for all policies, mailboxes, threads and calendars:

1. `NothingForbiddenLeftAlways`. What `redactAny` leaves is permitted, a filtered
   list is a part of what it is given, and a part of a permitted document is
   permitted; so every branch of `Redact` is, and then every answer.
2. `LastExchangeAlways`: `shown` is one of the answers to `printed`. The others
   use it, and say where the leaves of each response are (`MessageLeaves`,
   `SearchLeaves`, `CalendarLeaves`) and which of them redaction leaves alone
   (`KeptLeaf`, `WordIsKept`).
3. `SameVerdictAlways` and `ShownHasListedLabelAlways`: the label lists of a
   response are those of its messages (`ListsOfMessages`). The messages of a
   thread are an array, so of any two lists the earlier is met first in every
   walk (`InOrder`), and the first one that is not empty decides (`OneVerdict`).
4. `SearchIsConsistentAlways`: the table is that of one listing, and that listing
   is one the mailbox has had since (`LookupIsFirst`; `OneListingAlways` is the
   half of it about the table). Names are looked up in it, and what
   `filterSearchResults` extracts from a thread are the names of its labels
   (`ExtractedAreNames`). Label names are words here: one that looks like an
   address would be masked before it is compared.
5. `OnlyMaskedCalendarsMissAlways`: an id that is not masked is compared as it
   is.

`ExchangeProofs`, for any requests and any time limits:
`HandlersAreBoundedAlways`, `FastAnswersArriveAlways`,
`NothingIsDoneForTheGoneAlways`. The bound is not inductive. A handler that waits
in `once.Do` is bounded because the lookup it waits for is at least as old as its
wait (`Limits`), because there is one lookup while the `Once` runs (`OneLookup`),
and because no run of gog outlives its timeout. That nothing is done for a client
that has been gone for a while rests on `Forsaken`: as long as its handler is
active, the context is cancelled. That holds in `once.Do` too, where the handler
may wait on for the lookup of another, and when it is let out of there.

`ServerProofs`, for any number of brokers and clients, with and without socket
activation: `SoleIsReachable`, `SoleStarts`, `SoleKeepsFiles`,
`OnlyCrashesLeaveSocketsAlways`, `QueueStaysAlways`. A broker's socket is at the
path only between its bind and its unlink (`FileMatchesPhase`); while a broker is
`sole` the others are down (`SoleRuns`), so what the path holds at each of its
steps (`SoleAtPath`) is what it did there itself or what dead ones left. What is
queued at systemd's socket stays, because no broker listens at another one then
(`QueueIsOpen`) and the end of a broker loses only its own (`QueuedStay`).

`SetupProofs`, for any number of inits, any options, edits and flags:

1. `ConfigSurvivesCrashesAlways`, `UnnamedIsServedAlways`,
   `WrittenPoliciesApplyAlways`. The default config file is broken or holds what
   was last written completely (`Files`), and what a broker serves has passed
   `LoadSet` (`Accepts`); the rest is that `Resolve` finds the account in any
   spelling, because `LoadAccepts` admits no two spellings of one.
2. `InitTakesEffectAlways`. Its invariant `EffectInv` says what an init at each
   of its places has decided (`Jobs`), that one which runs alone still finds its
   policy when it writes the config (`AloneFindsPolicy`), and that both files of
   one that is done hold what it wrote (`DoneIsWritten`), unless both are the
   same file. Whoever else opens or saves a file takes `alone` and `done` away
   (`DisturbedFits`). What `LoadSet` then makes of the two files is the policy of
   the options (`InitFileIsAccepted`, `DoneTakesEffect`).
3. `DirectMailIsAskedForAlways`: an enforced policy that sends a mail directly is
   that of an init whose options allow it.

Lists are walked by recursive functions and folds. Where a proof needs what one
computes for every list it argues by a least counterexample (`LeastNatural`,
`NonBlankSteps`, `SequenceOfItsRange`), because the library's induction takes an
operator. The provers know nothing of `:>`, `@@` and `SelectSeq`; modules with
proofs about such values write them as functions (`Put`, `NonBlank`).

Only model-checked: liveness (`EveryRequestEnds`, `HandlersEnd`,
`ConnectionsEnd`), which is out of the prover's reach like everything about
`ENABLED` and fairness; and the five runs that end in a violation. No module
declares a recursive operator.

## What is not modelled

* Texts: messages, warnings, help, the printing of answers, the order of
  arguments. How Gmail reads a query (quotes, brackets, precedence): a term binds
  or does not. Blank entries in a policy's lists are
  left out, and so is what the regular expressions for URLs and addresses match.
* Logging, tests, scripts and CI: they influence nothing.
* Health checks, wrong methods and bodies over the size limit, which the server
  answers without changing anything.
* The settings of the configuration but the policy file, `gog_account` and the
  timeout: they follow the same rule of flag, file and default. Directories,
  permissions and working directories: a relative `--out` is written into
  `config.json` as it is.
* A write that stops halfway: `os.WriteFile` empties a file in one step and
  fills it in another.
* Numbers too large for their type, and times of day other than whole hours.

## Plan

Done: all components that hold state, alone and composed where they interact, and
a theorem for each safety property of the runs. Left:

1. A working directory in `Setup`: a relative `--out` is written into
   `config.json` as it is, and a broker started elsewhere reads another file. It
   is the one hazard without a property.
2. Proofs about two components at once: that a client which keeps the limits of
   `Exchange` sees an answer of `Broker`, which needs the phases of both.
