---------------------------- MODULE ServerProofs ----------------------------
(***************************************************************************)
(* Proofs about Server, for any number of brokers on a path: what holds    *)
(* however they run, and what one that has the path to itself relies on.   *)
(***************************************************************************)
EXTENDS Server, TLAPS

\* A broker's socket is at the path only while the broker listens; the file of
\* systemd stays where it is, and no broker fails to start with it.
FileMatchesPhase ==
  /\ \A b \in Brokers : file = b => pc[b] \in {"chmod", "serving", "unlink"}
  /\ activated => file = "systemd"
  /\ activated => \A b \in Brokers : pc[b] \notin Starting /\ ~failed[b]

TypedFile == TypeOK /\ FileMatchesPhase

LEMMA InitTyped == Init => TypedFile
BY ServerAssumption DEF Init, TypedFile, TypeOK, FileMatchesPhase, Starting, Others, Nobody

\* The end of a process keeps the types.
LEMMA EndTyped ==
  ASSUME NEW b \in Brokers, NEW why \in BOOLEAN, TypeOK, End(b, why) PROVE TypeOK'
BY DEF End, TypeOK, Go, Others

LEMMA TypeStep == ASSUME TypeOK, [Next]_vars PROVE TypeOK'
<1> USE DEF TypeOK, Go, Starting, Others, Nobody, server, process, clients
<1>1. CASE UNCHANGED vars
  BY <1>1 DEF vars
<1>2. CASE PutFile
  BY <1>2 DEF PutFile
<1>3. ASSUME NEW c \in Clients, Connect(c) \/ Disconnect(c) PROVE TypeOK'
  <2>1. CASE Connect(c)
    BY <2>1 DEF Connect
  <2>2. CASE Disconnect(c)
    BY <2>2 DEF Disconnect
  <2> QED BY <1>3, <2>1, <2>2
<1>4. ASSUME NEW b \in Brokers, NEW c \in Clients, Accept(b, c) \/ Answer(b, c) PROVE TypeOK'
  BY <1>4 DEF Accept, Answer
<1>5. ASSUME NEW b \in Brokers, Start(b) \/ Signal(b) \/ Crash(b) PROVE TypeOK'
  <2>1. CASE Start(b)
    BY <2>1 DEF Start
  <2>2. CASE Signal(b)
    BY <2>2 DEF Signal
  <2>3. CASE Crash(b)
    BY <2>3, EndTyped DEF Crash
  <2> QED BY <1>5, <2>1, <2>2, <2>3
<1>6. ASSUME NEW b \in Brokers, Step(b) PROVE TypeOK'
  <2>1. CASE Look(b)
    BY <2>1, EndTyped DEF Look, AfterSocket
  <2>2. CASE Remove(b) \/ Listen(b)
    BY <2>2, EndTyped DEF Remove, Listen
  <2>3. CASE Chmod(b) \/ Shutdown(b) \/ Unlink(b)
    BY <2>3 DEF Chmod, Shutdown, Unlink
  <2>4. CASE Close(b)
    BY <2>4, EndTyped DEF Close
  <2> QED BY <1>6, <2>1, <2>2, <2>3, <2>4 DEF Step
<1> QED BY <1>1, <1>2, <1>3, <1>4, <1>5, <1>6 DEF Next

\* Every step but a crash: where it leaves the file and the brokers.
LEMMA FileStep == ASSUME TypedFile, [Next]_vars PROVE FileMatchesPhase'
<1> USE ServerAssumption DEF TypedFile, TypeOK, FileMatchesPhase, Go, Starting, Others, server, process, clients
<1>1. CASE UNCHANGED vars
  BY <1>1 DEF vars
<1>2. CASE PutFile
  BY <1>2 DEF PutFile
<1>3. ASSUME NEW c \in Clients, Connect(c) \/ Disconnect(c) PROVE FileMatchesPhase'
  BY <1>3 DEF Connect, Disconnect
<1>4. ASSUME NEW b \in Brokers, NEW c \in Clients, Accept(b, c) \/ Answer(b, c)
      PROVE  FileMatchesPhase'
  BY <1>4 DEF Accept, Answer
<1>5. ASSUME NEW b \in Brokers, NEW why \in BOOLEAN, End(b, why), activated => ~why
      PROVE  FileMatchesPhase'
  BY <1>5 DEF End
<1>6. ASSUME NEW b \in Brokers, Start(b) \/ Signal(b) \/ Crash(b) PROVE FileMatchesPhase'
  <2>1. CASE Start(b)
    BY <2>1 DEF Start
  <2>2. CASE Signal(b)
    BY <2>2 DEF Signal
  <2>3. CASE Crash(b)
    BY <2>3, <1>5 DEF Crash
  <2> QED BY <1>6, <2>1, <2>2, <2>3
<1>7. ASSUME NEW b \in Brokers, Step(b) PROVE FileMatchesPhase'
  <2>1. CASE Look(b)
    <3>1. CASE End(b, TRUE)
      BY <2>1, <3>1, <1>5 DEF Look
    <3>2. CASE ~End(b, TRUE)
      <4>1. /\ ~activated /\ activated' = activated /\ file' = file /\ pc[b] = "look"
            /\ \A c \in Brokers : c # b => pc'[c] = pc[c]
        BY <2>1, <3>2 DEF Look, AfterSocket, FoundSocket
      <4> QED BY <4>1
    <3> QED BY <3>1, <3>2
  <2>2. CASE Remove(b)
    BY <2>2, <1>5 DEF Remove
  <2>3. CASE Listen(b)
    <3>1. CASE file # "none"
      BY <2>3, <3>1, <1>5 DEF Listen
    <3>2. CASE file = "none"
      <4>1. /\ file' = b /\ pc' = [pc EXCEPT ![b] = "chmod"]
            /\ ~activated /\ activated' = activated
        BY <2>3, <3>2 DEF Listen
      <4> QED BY <4>1
    <3> QED BY <3>1, <3>2
  <2>4. CASE Chmod(b)
    BY <2>4 DEF Chmod
  <2>5. CASE Shutdown(b) \/ Unlink(b)
    BY <2>5 DEF Shutdown, Unlink, RemovesFile
  <2>6. CASE Close(b)
    BY <2>6, <1>5 DEF Close
  <2> QED BY <1>7, <2>1, <2>2, <2>3, <2>4, <2>5, <2>6 DEF Step
<1> QED BY <1>1, <1>2, <1>3, <1>4, <1>6, <1>7 DEF Next

LEMMA TypedFileAlways == Spec => []TypedFile
<1>1. TypedFile /\ [Next]_vars => TypedFile'
  BY TypeStep, FileStep DEF TypedFile
<1> QED BY <1>1, InitTyped, PTL DEF Spec

\* However many brokers share a path and however they stop, only one that dies
\* leaves a stale socket behind (http.go:75-80).
THEOREM OnlyCrashesLeaveSocketsAlways == Spec => OnlyCrashesLeaveSockets
<1> DEFINE Leaves == file' = "stale" /\ file # "stale" =>
                       \E b \in Brokers : Crash(b) /\ pc[b] # "close"
<1>1. ASSUME TypedFile, Next PROVE Leaves
  <2> SUFFICES ASSUME file' = "stale", file # "stale"
               PROVE  \E b \in Brokers : Crash(b) /\ pc[b] # "close"
    OBVIOUS
  <2> USE <1>1, ServerAssumption
          DEF TypedFile, TypeOK, FileMatchesPhase, Go, Starting, Others, server, process, clients
  <2>1. ASSUME NEW b \in Brokers, NEW why \in BOOLEAN, End(b, why)
        PROVE  pc[b] \in {"chmod", "serving", "unlink"}
    BY <2>1 DEF End
  <2>2. ASSUME NEW b \in Brokers, Step(b) PROVE FALSE
    <3>1. CASE Look(b) \/ Remove(b) \/ Listen(b)
      BY <3>1, <2>1 DEF Look, Remove, Listen
    <3>2. CASE Chmod(b) \/ Shutdown(b) \/ Unlink(b)
      BY <3>2 DEF Chmod, Shutdown, Unlink
    <3>3. CASE Close(b)
      BY <3>3, <2>1 DEF Close
    <3> QED BY <2>2, <3>1, <3>2, <3>3 DEF Step
  <2>3. ASSUME NEW b \in Brokers, Start(b) \/ Signal(b) PROVE FALSE
    BY <2>3 DEF Start, Signal
  <2>4. ASSUME NEW b \in Brokers, NEW c \in Clients, Accept(b, c) \/ Answer(b, c) PROVE FALSE
    BY <2>4 DEF Accept, Answer
  <2>5. ASSUME NEW c \in Clients, Connect(c) \/ Disconnect(c) PROVE FALSE
    BY <2>5 DEF Connect, Disconnect
  <2>6. ~PutFile
    BY DEF PutFile
  <2>7. ASSUME NEW b \in Brokers, Crash(b) PROVE pc[b] # "close"
    BY <2>7, <2>1 DEF Crash
  <2> QED BY <2>2, <2>3, <2>4, <2>5, <2>6, <2>7 DEF Next
<1>2. TypedFile /\ [Next]_vars => [Leaves]_vars
  BY <1>1
<1> QED BY <1>2, TypedFileAlways, PTL DEF OnlyCrashesLeaveSockets, Spec

-----------------------------------------------------------------------------
(* Socket activation *)

\* The socket of systemd is open to its group, nobody is refused at it, and what is
\* queued is queued there.
QueueIsOpen ==
  activated =>
    /\ shared
    /\ \A c \in Clients : conn[c] # "refused" /\ (conn[c] = "queued" => queue[c] = "systemd")

LEMMA QueueStep == ASSUME TypedFile, QueueIsOpen, [Next]_vars PROVE QueueIsOpen'
<1> DEFINE Open == shared' /\ \A c \in Clients :
                      conn'[c] # "refused" /\ (conn'[c] = "queued" => queue'[c] = "systemd")
<1> SUFFICES ASSUME activated' PROVE Open
  BY DEF QueueIsOpen
<1> USE DEF QueueIsOpen, TypedFile, TypeOK, FileMatchesPhase, Go, Starting, Others,
            server, process, clients
<1>1. CASE UNCHANGED vars
  BY <1>1 DEF vars
<1>2. CASE PutFile
  BY <1>2 DEF PutFile
<1>3. ASSUME NEW c \in Clients,
             Connect(c) \/ Disconnect(c) \/ \E x \in Brokers : Accept(x, c) \/ Answer(x, c)
      PROVE  Open
  <2>1. activated /\ shared' = shared /\ file = "systemd"
    BY <1>3 DEF Connect, Disconnect, Accept, Answer
  <2>2. CASE Connect(c)
    BY <2>1, <2>2 DEF Connect
  <2>3. CASE Disconnect(c)
    BY <2>1, <2>3 DEF Disconnect
  <2>4. ASSUME NEW x \in Brokers, Accept(x, c) \/ Answer(x, c) PROVE Open
    BY <2>1, <2>4, ServerAssumption DEF Accept, Answer
  <2> QED BY <1>3, <2>2, <2>3, <2>4
<1>4. ASSUME NEW b \in Brokers, NEW why \in BOOLEAN, End(b, why)
      PROVE  Open
  BY <1>4 DEF End
<1>5. ASSUME NEW b \in Brokers, Start(b) \/ Signal(b) \/ Crash(b)
      PROVE  Open
  BY <1>5, <1>4 DEF Start, Signal, Crash
<1>6. ASSUME NEW b \in Brokers, Step(b)
      PROVE  Open
  <2>1. activated
    BY <1>6 DEF Step, Look, Remove, Listen, Chmod, Shutdown, Unlink, Close, End
  <2>2. pc[b] \notin {"look", "remove", "listen", "chmod"}
    BY <2>1
  <2> QED BY <1>6, <1>4, <2>1, <2>2
          DEF Step, Look, Remove, Listen, Chmod, Shutdown, Unlink, Close
<1> QED BY <1>1, <1>2, <1>3, <1>5, <1>6 DEF Next

LEMMA QueueIsOpenAlways == Spec => [](TypedFile /\ QueueIsOpen)
<1>1. Init => QueueIsOpen
  BY DEF Init, QueueIsOpen
<1>2. TypedFile /\ QueueIsOpen /\ [Next]_vars => QueueIsOpen'
  BY QueueStep
<1> QED BY <1>1, <1>2, TypedFileAlways, PTL DEF Spec

\* What is queued at systemd's socket stays there until a broker that runs accepts
\* it.
LEMMA QueuedStay ==
  ASSUME TypedFile, QueueIsOpen, activated, Next, NEW c \in Clients, conn[c] = "queued"
  PROVE  \/ conn'[c] = "queued"
         \/ \E b \in Brokers : conn'[c] = b /\ pc[b] \in {"serving", "unlink"}
<1> USE ServerAssumption
<1>1. queue[c] = "systemd" /\ queue[c] \notin Brokers /\ conn[c] \notin Brokers
  BY DEF QueueIsOpen
<1>2. conn \in [Clients -> {"closed", "queued", "answered", "lost", "refused"} \cup Brokers]
  BY DEF TypedFile, TypeOK
<1>3. ASSUME NEW b \in Brokers, NEW why, End(b, why) PROVE conn'[c] = "queued"
  BY <1>1, <1>3 DEF End, LosesConnection
<1>4. ASSUME NEW b \in Brokers, Start(b) \/ Step(b) \/ Signal(b) \/ Crash(b)
      PROVE  conn'[c] = "queued"
  BY <1>3, <1>4 DEF Start, Step, Signal, Crash, Look, Remove, Listen, Chmod, Shutdown, Unlink,
                    Close, clients
<1>5. ASSUME NEW b \in Brokers, NEW k \in Clients, Accept(b, k)
      PROVE  conn'[c] = "queued" \/ (conn'[c] = b /\ pc[b] \in {"serving", "unlink"})
  BY <1>2, <1>5 DEF Accept
<1>6. ASSUME NEW b \in Brokers, NEW k \in Clients, Answer(b, k)
      PROVE  conn'[c] = "queued"
  BY <1>1, <1>2, <1>6 DEF Answer
<1>7. ASSUME NEW k \in Clients, Connect(k) \/ Disconnect(k)
      PROVE  conn'[c] = "queued"
  BY <1>2, <1>7 DEF Connect, Disconnect
<1>8. CASE PutFile
  BY <1>8 DEF PutFile, clients
<1> QED BY <1>4, <1>5, <1>6, <1>7, <1>8 DEF Next

\* With socket activation nobody is refused, and who is queued is accepted by a
\* broker that runs or stays queued, whatever becomes of the others
\* (http.go:127-162).
THEOREM QueueStaysAlways == Spec => QueueOutlivesBrokers
<1> DEFINE Stays ==
      activated =>
        \A c \in Clients :
          /\ conn'[c] # "refused"
          /\ conn[c] = "queued" =>
               \/ conn'[c] = "queued"
               \/ \E b \in Brokers : conn'[c] = b /\ pc[b] \in {"serving", "unlink"}
<1>1. ASSUME TypedFile, QueueIsOpen, Next, QueueIsOpen' PROVE Stays
  <2>1. activated' = activated
    BY <1>1 DEF Next, Start, Step, Signal, Crash, Look, Remove, Listen, Chmod, Shutdown, Unlink,
                Close, End, Go, Accept, Answer, Connect, Disconnect, PutFile, server
  <2>2. activated => \A c \in Clients : conn'[c] # "refused"
    BY <1>1, <2>1 DEF QueueIsOpen
  <2> QED BY <1>1, <2>2, QueuedStay
<1>2. (TypedFile /\ QueueIsOpen) /\ (TypedFile /\ QueueIsOpen)' /\ [Next]_vars => [Stays]_vars
  BY <1>1
<1> QED BY <1>2, QueueIsOpenAlways, PTL DEF QueueOutlivesBrokers, Spec

-----------------------------------------------------------------------------
(* A broker that has the path to itself *)

\* The others are down, and what the path holds at each of its steps.
SoleRuns == \A b \in Brokers : sole # Nobody /\ b # sole => pc[b] = "down"

SoleAtPath ==
  sole # Nobody /\ ~activated =>
    /\ pc[sole] = "remove" => file = "stale"
    /\ pc[sole] = "listen" => file \in {"none", "plain"}
    /\ pc[sole] \in {"chmod", "serving", "unlink"} => file = sole
    /\ pc[sole] = "serving" => shared
    /\ failed[sole] => file = "plain"

SystemdsOnly == ~activated => file # "systemd"

SoleInv == SoleRuns /\ SoleAtPath /\ SystemdsOnly

LEMMA SystemdsStep == ASSUME TypedFile, SystemdsOnly, [Next]_vars PROVE SystemdsOnly'
<1> USE ServerAssumption DEF SystemdsOnly, Go, server, process, clients
<1>1. CASE UNCHANGED vars
  BY <1>1 DEF vars
<1>2. ASSUME NEW b \in Brokers, Start(b) \/ Step(b) \/ Signal(b) \/ Crash(b)
      PROVE  SystemdsOnly'
  BY <1>2 DEF Start, Step, Signal, Crash, Look, Remove, Listen, Chmod, Shutdown, Unlink,
              Close, End
<1>3. CASE \/ \E b \in Brokers, c \in Clients : Accept(b, c) \/ Answer(b, c)
           \/ \E c \in Clients : Connect(c) \/ Disconnect(c)
           \/ PutFile
  BY <1>3 DEF Accept, Answer, Connect, Disconnect, PutFile
<1> QED BY <1>1, <1>2, <1>3 DEF Next

\* A broker that starts while the others are down finds what dead ones left.
LEMMA StartIsSole ==
  ASSUME TypedFile, SoleInv, NEW b \in Brokers, Start(b) PROVE SoleRuns' /\ SoleAtPath'
<1> USE ServerAssumption DEF TypedFile, TypeOK, FileMatchesPhase, Others, Nobody, Starting
<1>1. SoleRuns'
  BY DEF Start, SoleRuns
<1>2. pc'[b] \in {"look", "serving"} /\ (pc'[b] = "serving" <=> activated) /\ ~failed'[b]
  BY DEF Start
<1>3. sole' \in {b, Nobody} /\ activated' = activated
  BY DEF Start
<1> QED BY <1>1, <1>2, <1>3 DEF SoleAtPath

LEMMA SoleStep == ASSUME TypedFile, SoleInv, [Next]_vars PROVE SoleRuns' /\ SoleAtPath'
<1> USE ServerAssumption
        DEF SoleInv, SoleRuns, SoleAtPath, SystemdsOnly, TypedFile, TypeOK, FileMatchesPhase,
            Go, Starting, Others, Nobody, server, process, clients
<1>1. CASE UNCHANGED vars
  BY <1>1 DEF vars
<1>2. CASE PutFile
  BY <1>2 DEF PutFile
<1>3. CASE \/ \E b \in Brokers, c \in Clients : Accept(b, c) \/ Answer(b, c)
           \/ \E c \in Clients : Connect(c) \/ Disconnect(c)
  BY <1>3 DEF Connect, Disconnect, Accept, Answer
<1>4. ASSUME NEW b \in Brokers, Start(b) PROVE SoleRuns' /\ SoleAtPath'
  BY <1>4, StartIsSole
<1>5. ASSUME NEW b \in Brokers, Step(b) \/ Signal(b) \/ Crash(b)
      PROVE  SoleRuns' /\ SoleAtPath'
  <2>1. sole' = sole /\ activated' = activated /\ pc[b] # "down"
    BY <1>5 DEF Step, Signal, Crash, Look, Remove, Listen, Chmod, Shutdown, Unlink, Close, End
  <2>2. CASE sole = Nobody
    BY <2>1, <2>2
  <2>3. CASE sole # Nobody
    <3>1. b = sole
      BY <2>1, <2>3
    <3>2. SoleRuns'
      <4>1. \A c \in Brokers : c # b => pc'[c] = pc[c]
        BY <1>5 DEF Step, Signal, Crash, Look, Remove, Listen, Chmod, Shutdown, Unlink, Close, End
      <4> QED BY <2>1, <3>1, <4>1
    <3>3. CASE Signal(b)
      BY <3>1, <3>2, <3>3 DEF Signal
    <3>4. CASE Crash(b)
      BY <3>1, <3>2, <3>4 DEF Crash, End
    <3>5. CASE Look(b)
      BY <3>1, <3>2, <3>5 DEF Look, AfterSocket, FoundSocket, End
    <3>6. CASE Remove(b)
      BY <3>1, <3>2, <3>6 DEF Remove, End
    <3>7. CASE Listen(b)
      <4>1. CASE file # "none"
        BY <3>1, <3>2, <3>7, <4>1 DEF Listen, End
      <4>2. CASE file = "none"
        <5>1. file' = b /\ pc' = [pc EXCEPT ![b] = "chmod"] /\ failed' = failed
              /\ pc[b] = "listen"
          BY <3>7, <4>2 DEF Listen
        <5> QED BY <2>1, <3>1, <3>2, <4>2, <5>1
      <4> QED BY <4>1, <4>2
    <3>8. CASE Chmod(b)
      BY <3>1, <3>2, <3>8 DEF Chmod
    <3>9. CASE Shutdown(b) \/ Unlink(b)
      BY <3>1, <3>2, <3>9 DEF Shutdown, Unlink, RemovesFile
    <3>10. CASE Close(b)
      BY <3>1, <3>2, <3>10 DEF Close, End
    <3> QED BY <1>5, <3>3, <3>4, <3>5, <3>6, <3>7, <3>8, <3>9, <3>10 DEF Step
  <2> QED BY <2>2, <2>3
<1> QED BY <1>1, <1>2, <1>3, <1>4, <1>5 DEF Next

LEMMA SoleAlways == Spec => [](TypedFile /\ SoleInv)
<1>1. Init => SoleInv
  BY DEF Init, SoleInv, SoleRuns, SoleAtPath, SystemdsOnly
<1>2. TypedFile /\ SoleInv /\ [Next]_vars => SoleInv'
  BY SoleStep, SystemdsStep DEF SoleInv
<1> QED BY <1>1, <1>2, TypedFileAlways, PTL DEF Spec

\* A broker that has the path to itself can be reached whenever it serves,
\* whatever crashes and stops went before (http.go:20-40).
THEOREM SoleIsReachable == Spec => []ServingIsReachable
<1>1. TypedFile /\ SoleInv /\ QueueIsOpen => ServingIsReachable
  BY ServerAssumption DEF SoleInv, SoleAtPath, QueueIsOpen, TypedFile, FileMatchesPhase,
                          ServingIsReachable, Nobody
<1> QED BY <1>1, QueueIsOpenAlways, SoleAlways, PTL

\* And nothing but another file at its path keeps it from starting (http.go:113-125).
THEOREM SoleStarts == Spec => []OnlyFilesStopAStart
<1>1. TypedFile /\ SoleInv => OnlyFilesStopAStart
  BY ServerAssumption
     DEF SoleInv, SoleAtPath, TypedFile, FileMatchesPhase, OnlyFilesStopAStart, Nobody
<1> QED BY <1>1, SoleAlways, PTL

\* It never removes a file that is no socket (http.go:121-123).
THEOREM SoleKeepsFiles == Spec => FileIsKept
<1> DEFINE Kept == file = "plain" /\ sole # Nobody => file' = "plain"
<1>1. ASSUME TypedFile, SoleInv, Next PROVE Kept
  <2> SUFFICES ASSUME file = "plain", sole # Nobody PROVE file' = "plain"
    OBVIOUS
  <2> USE <1>1, ServerAssumption
          DEF SoleInv, SoleRuns, SoleAtPath, SystemdsOnly, TypedFile, TypeOK, FileMatchesPhase,
              server, process, clients, Starting, Nobody
  <2>1. ~activated /\ \A b \in Brokers :
          pc[b] \notin {"remove", "chmod", "serving", "unlink"} /\ file # b
    OBVIOUS
  <2>2. ASSUME NEW b \in Brokers, Start(b) \/ Step(b) \/ Signal(b) \/ Crash(b)
        PROVE  file' = "plain"
    BY <2>1, <2>2 DEF Start, Step, Signal, Crash, Look, Remove, Listen, Chmod, Shutdown, Unlink,
                      Close, End
  <2>3. CASE \/ \E b \in Brokers, c \in Clients : Accept(b, c) \/ Answer(b, c)
             \/ \E c \in Clients : Connect(c) \/ Disconnect(c)
             \/ PutFile
    BY <2>1, <2>3 DEF Accept, Answer, Connect, Disconnect, PutFile
  <2> QED BY <2>2, <2>3 DEF Next
<1>2. TypedFile /\ SoleInv /\ [Next]_vars => [Kept]_vars
  BY <1>1 DEF vars
<1> QED BY <1>2, SoleAlways, PTL DEF FileIsKept, Spec
=============================================================================
