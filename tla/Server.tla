------------------------------- MODULE Server -------------------------------
(***************************************************************************)
(* internal/server and cmd/broker: the life of the socket file, from the   *)
(* start of a broker process to its end.                                   *)
(*                                                                         *)
(* A broker looks at the path, removes what it finds if that is a socket,  *)
(* binds a new one and opens it to its group; each of these is a system    *)
(* call of its own.  A signal makes a goroutine shut the listener down,    *)
(* which takes the file away, and main ends as soon as Serve returns.  A   *)
(* process that dies leaves its file behind.  With socket activation the   *)
(* file and the listening socket are systemd's.                            *)
(*                                                                         *)
(* sole is a history variable: the broker that was started last, if no     *)
(* other was running then.                                                 *)
(***************************************************************************)
EXTENDS Naturals

CONSTANTS
  Brokers,    \* the broker processes that may run on the path
  Clients     \* clients, each with one connection at a time

\* A broker is not a state of the path or of a connection.
ASSUME ServerAssumption ==
  Brokers \cap {"none", "plain", "stale", "systemd",
                "closed", "queued", "answered", "lost", "refused"} = {}

VARIABLES
  activated,  \* systemd passes the socket (LISTEN_PID, LISTEN_FDS)
  file,      \* what is at the path: nothing, another file, the socket of a
             \* process that is gone, of a broker, or of systemd
  shared,    \* the socket there is open to the group
  pc,        \* where each broker is
  signalled, \* it has got SIGINT or SIGTERM
  failed,    \* it ended with an error of its start
  sole,      \* the broker that has had the path to itself since its start
  queue,     \* the socket that each client's connection is queued at
  conn       \* the connection: closed, queued, at a broker, answered, lost, or refused

process == <<signalled, failed>>
server == <<activated, sole, pc, process>>
clients == <<queue, conn>>
vars == <<file, shared, server, clients>>

Starting == {"look", "remove", "listen", "chmod"}
Nobody == "none"
Others == {"none", "plain", "stale", "systemd"}

TypeOK ==
  /\ activated \in BOOLEAN /\ sole \in Brokers \cup {Nobody}
  /\ file \in Others \cup Brokers
  /\ shared \in BOOLEAN
  /\ pc \in [Brokers -> Starting \cup {"down", "serving", "unlink", "close"}]
  /\ signalled \in [Brokers -> BOOLEAN] /\ failed \in [Brokers -> BOOLEAN]
  /\ queue \in [Clients -> {Nobody, "systemd"} \cup Brokers]
  /\ conn \in [Clients -> {"closed", "queued", "answered", "lost", "refused"} \cup Brokers]

Init ==
  /\ activated \in BOOLEAN /\ sole = Nobody
  /\ file \in IF activated THEN {"systemd"} ELSE {"none", "plain"}
  /\ shared = activated
  /\ pc = [b \in Brokers |-> "down"]
  /\ signalled = [b \in Brokers |-> FALSE] /\ failed = [b \in Brokers |-> FALSE]
  /\ queue = [c \in Clients |-> Nobody]
  /\ conn = [c \in Clients |-> "closed"]

Go(b, where) == pc' = [pc EXCEPT ![b] = where] /\ UNCHANGED <<activated, sole>>

-----------------------------------------------------------------------------
(* The end of a process *)

\* Faulty: a broker takes all that is queued with it.
LosesAllQueued(b, c) == conn[c] = b \/ conn[c] = "queued"

\* Every connection it had is lost, those that wait to be accepted too, unless they
\* wait at systemd's socket.
LosesConnection(b, c) == conn[c] = b \/ (conn[c] = "queued" /\ queue[c] = b)

\* Its file stays.
End(b, byItself) ==
  /\ Go(b, "down")
  /\ signalled' = [signalled EXCEPT ![b] = FALSE]
  /\ failed' = [failed EXCEPT ![b] = byItself]
  /\ file' = IF file = b THEN "stale" ELSE file
  /\ conn' = [c \in Clients |-> IF LosesConnection(b, c) THEN "lost" ELSE conn[c]]
  /\ UNCHANGED <<shared, queue>>

Crash(b) == pc[b] # "down" /\ End(b, FALSE)

-----------------------------------------------------------------------------
(* Serve, to the point where it listens *)

Start(b) ==
  /\ pc[b] = "down"
  /\ pc' = [pc EXCEPT ![b] = IF activated THEN "serving" ELSE "look"]
  /\ sole' = IF \A other \in Brokers \ {b} : pc[other] = "down" THEN b ELSE Nobody
  /\ failed' = [failed EXCEPT ![b] = FALSE]
  /\ UNCHANGED <<activated, file, shared, signalled, clients>>

\* Faulty: what is found is left there; whatever is found is removed.
LeaveIt == "listen"
AnyFile == file # "none"

\* os.Stat: nothing, a socket, or another file, which is an error.
FoundSocket == file \notin {"none", "plain"}
AfterSocket == "remove"

Look(b) ==
  /\ pc[b] = "look"
  /\ \/ file = "none" /\ Go(b, "listen") /\ UNCHANGED <<file, shared, process, clients>>
     \/ FoundSocket /\ Go(b, AfterSocket) /\ UNCHANGED <<file, shared, process, clients>>
     \/ file # "none" /\ ~FoundSocket /\ End(b, TRUE)

\* os.Remove: the path may have been removed by another.
Remove(b) ==
  /\ pc[b] = "remove"
  /\ IF file = "none" THEN End(b, TRUE)
     ELSE /\ file' = "none" /\ shared' = FALSE
          /\ Go(b, "listen")
          /\ UNCHANGED <<process, clients>>

\* net.Listen: the path must be free.
Listen(b) ==
  /\ pc[b] = "listen"
  /\ IF file # "none" THEN End(b, TRUE)
     ELSE /\ file' = b /\ shared' = FALSE
          /\ Go(b, "chmod")
          /\ UNCHANGED <<process, clients>>

\* Faulty: the socket is not opened to its group.
NoChmod(b) ==
  /\ pc[b] = "chmod" /\ Go(b, "serving")
  /\ UNCHANGED <<file, shared, process, clients>>

\* os.Chmod, of whatever is there now.
Chmod(b) ==
  /\ pc[b] = "chmod"
  /\ IF file = "none"
       THEN /\ failed' = [failed EXCEPT ![b] = TRUE]
            /\ Go(b, "unlink")
            /\ UNCHANGED shared
       ELSE shared' = TRUE /\ Go(b, "serving") /\ UNCHANGED failed
  /\ UNCHANGED <<file, signalled, clients>>

-----------------------------------------------------------------------------
(* Serving and shutting down *)

Signal(b) ==
  /\ pc[b] # "down" /\ ~signalled[b]
  /\ signalled' = [signalled EXCEPT ![b] = TRUE]
  /\ UNCHANGED <<activated, sole, file, shared, pc, failed, clients>>

Shutdown(b) ==
  /\ pc[b] = "serving" /\ signalled[b]
  /\ Go(b, "unlink")
  /\ UNCHANGED <<file, shared, process, clients>>

\* Faulty: no listener takes its file away.
KeepsFile == FALSE

\* A listener that was made by net.Listen removes the path when it is closed,
\* one that was made of systemd's descriptor does not.
RemovesFile == ~activated

\* The listener is closed: first the path is removed, whatever is there.
Unlink(b) ==
  /\ pc[b] = "unlink"
  /\ file' = IF RemovesFile THEN "none" ELSE file
  /\ Go(b, "close")
  /\ UNCHANGED <<shared, signalled, failed, clients>>

\* Faulty: main waits for every connection, those nobody accepts any more too.
CloseWhenIdle(b) ==
  /\ pc[b] = "close" /\ \A c \in Clients : ~(conn[c] = "queued" /\ queue[c] = b)
  /\ End(b, failed[b])

\* Serve returns, and main ends with the requests that are being handled.
Close(b) == pc[b] = "close" /\ End(b, failed[b])

-----------------------------------------------------------------------------
(* Clients *)

\* The broker's socket takes connections once it listens.
Listens(b) == pc[b] \in {"chmod", "serving", "unlink", "close"}

Connect(c) ==
  /\ conn[c] = "closed"
  /\ IF shared /\ (file = "systemd" \/ \E b \in Brokers : file = b /\ Listens(b))
       THEN queue' = [queue EXCEPT ![c] = file] /\ conn' = [conn EXCEPT ![c] = "queued"]
       ELSE conn' = [conn EXCEPT ![c] = "refused"] /\ UNCHANGED queue
  /\ UNCHANGED <<file, shared, server>>

Accept(b, c) ==
  /\ pc[b] \in {"serving", "unlink"} /\ ~failed[b]
  /\ conn[c] = "queued" /\ queue[c] \in {b, "systemd"}
  /\ conn' = [conn EXCEPT ![c] = b]
  /\ UNCHANGED <<file, shared, server, queue>>

\* The handler answers; it goes on while the server shuts down.
Answer(b, c) ==
  /\ conn[c] = b
  /\ conn' = [conn EXCEPT ![c] = "answered"]
  /\ UNCHANGED <<file, shared, server, queue>>

Disconnect(c) ==
  /\ conn[c] \in {"answered", "lost", "refused"}
  /\ conn' = [conn EXCEPT ![c] = "closed"] /\ queue' = [queue EXCEPT ![c] = Nobody]
  /\ UNCHANGED <<file, shared, server>>

\* Somebody puts another file at the path while it is free.
PutFile ==
  /\ file = "none"
  /\ file' = "plain" /\ shared' = FALSE
  /\ UNCHANGED <<server, clients>>

-----------------------------------------------------------------------------
Step(b) ==
  \/ Look(b) \/ Remove(b) \/ Listen(b) \/ Chmod(b)
  \/ Shutdown(b) \/ Unlink(b) \/ Close(b)

Next ==
  \/ \E b \in Brokers : Start(b) \/ Step(b) \/ Signal(b) \/ Crash(b)
  \/ \E b \in Brokers, c \in Clients : Accept(b, c) \/ Answer(b, c)
  \/ \E c \in Clients : Connect(c) \/ Disconnect(c)
  \/ PutFile

Spec == Init /\ [][Next]_vars

\* A process runs on, is started again when it has ended (Restart=on-failure, and
\* a broker that was told to stop ends with an error too), and accepts and
\* answers who connects.  Nothing forces signals, crashes or clients.
FairSpec ==
  /\ Spec
  /\ \A b \in Brokers :
       /\ WF_vars(Step(b)) /\ WF_vars(Start(b))
       /\ \A c \in Clients : WF_vars(Accept(b, c)) /\ WF_vars(Answer(b, c))

-----------------------------------------------------------------------------
(* Properties *)

\* A broker that serves can be reached at its path, and by its group, unless
\* another one ran beside it: nothing it did on its way, and nothing any number of
\* earlier processes left there at whatever step they died, stands in between
\* (Serve, http.go:20-40).
ServingIsReachable ==
  \A b \in Brokers :
    pc[b] = "serving" /\ (activated \/ sole = b) =>
      shared /\ file = IF activated THEN "systemd" ELSE b

\* A broker that has the path to itself fails to start only because a file is
\* there that is no socket: whatever step an earlier one died at, the next one
\* can start (removeSocketIfExists, http.go:113-125).
OnlyFilesStopAStart ==
  \A b \in Brokers : failed[b] /\ sole = b => file = "plain"

\* Only a process that dies before it has come to its end leaves its socket
\* behind: one that is told to stop, or that cannot open its socket to the group,
\* has taken it away by then (Shutdown, http.go:75-80).
OnlyCrashesLeaveSockets ==
  [][file' = "stale" /\ file # "stale" =>
       \E b \in Brokers : Crash(b) /\ pc[b] # "close"]_vars

\* A file that is no socket is removed only where brokers run beside each other,
\* one of which may take it for the socket it has just seen there
\* (http.go:114-125, and the listener's unlink).
FileIsKept == [][file = "plain" /\ sole # Nobody => file' = "plain"]_vars

\* With socket activation nobody is refused while no broker runs, and a connection
\* leaves the queue only for a broker that runs and accepts it: it outlives those
\* that stop, fail to start or die, whichever, and in whatever order
\* (systemdListener, http.go:127-162).
QueueOutlivesBrokers ==
  [][activated =>
       \A c \in Clients :
         /\ conn'[c] # "refused"
         /\ conn[c] = "queued" =>
              \/ conn'[c] = "queued"
              \/ \E b \in Brokers : conn'[c] = b /\ pc[b] \in {"serving", "unlink"}]_vars

\* A client that has connected to a broker's socket is answered or learns that it
\* will not be, whoever stops, dies or takes the path over (Serve and the goroutine
\* of Shutdown, http.go:75-89).
ConnectionsEnd ==
  \A c \in Clients :
    conn[c] = "queued" /\ queue[c] # "systemd" ~> conn[c] \in {"answered", "lost"}
=============================================================================
