-------------------------- MODULE CaptureServiceProofs -------------------------
(***************************************************************************)
(* Proofs about CaptureService, for any clients and any value of the       *)
(* bounds: what the service manager is told, the camera against what the   *)
(* loop believes of it, the idle count against the clients there are, and  *)
(* that the service implements ClientCounter.                              *)
(***************************************************************************)
EXTENDS CaptureService, FiniteSetTheorems, TLAPS

-----------------------------------------------------------------------------
(* The invariant                                                           *)

\* What client c does.
ClientNext(c) ==
  \/ ConnectSignal(c) \/ ConnectCount(c) \/ DisconnectCount(c) \/ DisconnectSignal(c)
  \/ ClientDies(c)

FlagsOK ==
  /\ asService \in BOOLEAN /\ running \in BOOLEAN /\ cameraActive \in BOOLEAN
  /\ plugged \in BOOLEAN /\ event \in BOOLEAN /\ lost \in BOOLEAN

BoundsOK ==
  /\ faults \in 0..MaxFaults /\ leaks \in 0..MaxLeaks /\ restarts \in 0..MaxRestarts

Starting == {"begin", "starting", "started", "entering"}
InLoop == {"top", "look", "wait", "init", "frame", "check", "idle"}
Ending == {"close", "leave", "stopping", "end"}

\* What is reported: until the service has entered its running state no stop
\* can come; a stop is handled once, and when the handler is done neither
\* thread writes or posts "RUNNING" any more; from then on the thread of
\* ServiceMain is the only one that reports.
ReportInv ==
  /\ handler \in {"idle", "called", "written", "posted"}
  /\ status \in {"none", "START_PENDING", "RUNNING", "STOP_PENDING", "STOPPED"}
  /\ scm \in {"START_PENDING", "RUNNING", "STOP_PENDING", "STOPPED"}
  /\ main \in Starting => running /\ handler = "idle" /\ scm = "START_PENDING"
  /\ main = "starting" => status = "START_PENDING"
  /\ main = "entering" => status = "RUNNING"
  /\ main = "stopping" => status \in {"STOP_PENDING", "STOPPED"}
  /\ handler \in {"written", "posted"} => status \in {"STOP_PENDING", "STOPPED"}
  /\ handler = "posted" => scm # "RUNNING"
  /\ ~running => handler = "idle" /\ scm # "RUNNING"

\* How the loop ends: only after g_running was cleared, and then the memory is
\* closed and the stop is reported.
EndInv ==
  /\ mem \in {"none", "up", "closed", "orphan"}
  /\ main \in {"exit", "close"} \/ mem = "closed" => ~running
  /\ mem = "closed" => main \in {"leave", "stopping", "end", "dead"}
  /\ mem = "closed" /\ main = "stopping" => status = "STOPPED"
  /\ mem = "closed" /\ main = "end" /\ asService => scm = "STOPPED"

\* cameraActive: where the loop is says what it is; outside the loop there is no
\* camera at all.
CameraInv ==
  /\ main \in Starting \cup InLoop \cup Ending \cup {"create", "exit", "dead"}
  /\ camera \in {"none", "open", "streaming"}
  /\ camera = "streaming" => cameraActive
  /\ main \in {"frame", "check", "idle"} => cameraActive
  /\ main \in {"look", "wait", "init"} => ~cameraActive
  /\ main \in Starting \cup {"create", "leave", "stopping", "end", "dead"} => camera = "none"

\* The idle count runs only while the camera is on, and exceeds MaxIdle only to
\* stop it.
IdleInv ==
  /\ idle \in 0..MaxIdle + 1 /\ quiet \in 0..MaxIdle + 1
  /\ main \notin {"idle", "dead"} => idle <= MaxIdle
  /\ main = "idle" => idle > MaxIdle
  /\ main \notin Ending \cup {"dead"} /\ ~cameraActive => idle = 0

\* What the loop takes for want of clients is one, if the count was never
\* cleared under a client.
QuietInv == ~lost => idle <= quiet

\* clientCount is the number of connected clients and of those that died.
Connected == {c \in Clients : In(c)}
Surplus == count - Cardinality(Connected)

CountInv ==
  /\ client \in [Clients -> {"off", "signalled", "in", "leaving"}] /\ count \in Int
  /\ ~lost => Surplus \in 0..leaks

LoopInv == FlagsOK /\ BoundsOK /\ ReportInv /\ EndInv /\ CameraInv /\ IdleInv

IInv == LoopInv /\ QuietInv /\ CountInv

-----------------------------------------------------------------------------
(* The loop and the reports                                                *)

\* The initial state of both threads.
LEMMA InitLoop == Init => LoopInv
<1> SUFFICES ASSUME Init PROVE LoopInv
  OBVIOUS
<1>1. FlagsOK
  BY Zenon DEF Init, FlagsOK
<1>2. BoundsOK
  BY CaptureAssumption DEF Init, BoundsOK
<1> QED
  BY <1>1, <1>2, CaptureAssumption
     DEF Init, LoopInv, ReportInv, EndInv, CameraInv, IdleInv, Starting, InLoop, Ending

\* The flags keep their type.
LEMMA FlagsStep ==
  ASSUME FlagsOK, [Next]_vars
  PROVE  FlagsOK'
<1> USE DEF FlagsOK, Go, Move, StopCamera, statusVars, cameraVars, clientVars, handlerFrame,
        loopFrame, otherThanClients
<1>1. CASE RegisterFails \/ ReportStatus \/ StopRequested \/ Handler
  BY Zenon, <1>1 DEF RegisterFails, ReportStatus, WriteStatus, PostStatus, StopRequested,
     Handler, HandlerWrites, HandlerPosts, HandlerStops
<1>2. CASE Loop
  BY Zenon, <1>2
     DEF Loop, Create, CreateFails, LoopTop, LookForClients, ClientEvent, ClientTimeout,
         InitFails, InitCamera, GetFrame, CheckClients, StopIdle, ExitLoop, CloseMemory
<1>3. CASE \E c \in Clients : ClientNext(c)
  BY Zenon, <1>3 DEF ClientNext, ConnectSignal, ConnectCount, DisconnectCount,
     DisconnectSignal, ClientDies
<1>4. CASE StreamEnds \/ PlugIn \/ Die \/ StartAgain \/ UNCHANGED vars
  BY Zenon, <1>4 DEF StreamEnds, PlugIn, Die, StartAgain, vars
<1> QED
  BY Zenon, <1>1, <1>2, <1>3, <1>4 DEF Next, ClientNext

\* The bounds are kept by the guards they are in.
LEMMA BoundsStep ==
  ASSUME BoundsOK, [Next]_vars
  PROVE  BoundsOK'
<1> USE CaptureAssumption
    DEF BoundsOK, Go, Move, statusVars, cameraVars, clientVars, handlerFrame, loopFrame,
        otherThanClients
<1>1. CASE RegisterFails \/ ReportStatus \/ StopRequested \/ Handler
  BY <1>1 DEF RegisterFails, ReportStatus, WriteStatus, PostStatus, StopRequested, Handler,
     HandlerWrites, HandlerPosts, HandlerStops
<1>2. CASE Loop
  BY <1>2
     DEF Loop, Create, CreateFails, LoopTop, LookForClients, ClientEvent, ClientTimeout,
         InitFails, InitCamera, GetFrame, CheckClients, StopIdle, ExitLoop, CloseMemory
<1>3. CASE \E c \in Clients : ClientNext(c)
  BY <1>3 DEF ClientNext, ConnectSignal, ConnectCount, DisconnectCount, DisconnectSignal,
     ClientDies
<1>4. CASE StreamEnds \/ PlugIn \/ Die \/ StartAgain \/ UNCHANGED vars
  BY <1>4 DEF StreamEnds, PlugIn, Die, StartAgain, vars
<1> QED
  BY <1>1, <1>2, <1>3, <1>4 DEF Next, ClientNext

\* What each step keeps of the reports, of the order in which the loop ends, of
\* the camera and of the idle count.
LEMMA LoopStep ==
  ASSUME LoopInv, [Next]_vars
  PROVE  (ReportInv /\ EndInv /\ CameraInv /\ IdleInv)'
<1> USE CaptureAssumption
    DEF LoopInv, FlagsOK, ReportInv, EndInv, CameraInv, IdleInv, Starting, InLoop, Ending, Go,
        Leave, Move, StopCamera, statusVars, cameraVars, clientVars, handlerFrame, loopFrame,
        otherThanClients
<1>1. CASE RegisterFails
  BY <1>1 DEF RegisterFails
<1>2. CASE ReportStatus
  BY <1>2 DEF ReportStatus, WriteStatus, PostStatus
<1>3. CASE StopRequested
  BY <1>3 DEF StopRequested
<1>4. CASE Handler
  BY <1>4 DEF Handler, HandlerWrites, HandlerPosts, HandlerStops
<1>5. CASE Loop
  <2>1. CASE Create \/ CreateFails
    BY <2>1 DEF Create, CreateFails
  <2>2. CASE LoopTop
    BY <2>2 DEF LoopTop
  <2>3. CASE LookForClients \/ ClientEvent \/ ClientTimeout
    BY <2>3 DEF LookForClients, ClientEvent, ClientTimeout
  <2>4. CASE InitFails \/ InitCamera
    BY <2>4 DEF InitFails, InitCamera
  <2>5. CASE GetFrame \/ CheckClients
    BY <2>5 DEF GetFrame, CheckClients
  <2>6. CASE StopIdle
    BY <2>6 DEF StopIdle
  <2>7. CASE ExitLoop
    BY <2>7 DEF ExitLoop
  <2>8. CASE CloseMemory
    BY <2>8 DEF CloseMemory
  <2> QED
    BY <1>5, <2>1, <2>2, <2>3, <2>4, <2>5, <2>6, <2>7, <2>8 DEF Loop
<1>6. CASE \E c \in Clients : ClientNext(c)
  BY <1>6 DEF ClientNext, ConnectSignal, ConnectCount, DisconnectCount, DisconnectSignal,
     ClientDies
<1>7. CASE StreamEnds \/ PlugIn
  BY <1>7 DEF StreamEnds, PlugIn
<1>8. CASE Die
  BY <1>8 DEF Die
<1>9. CASE StartAgain
  BY <1>9 DEF StartAgain
<1>10. CASE UNCHANGED vars
  BY <1>10 DEF vars
<1> QED
  BY <1>1, <1>2, <1>3, <1>4, <1>5, <1>6, <1>7, <1>8, <1>9, <1>10 DEF Next, ClientNext

-----------------------------------------------------------------------------
(* The count and the idle count                                            *)

\* The connected clients are finitely many: the assumption on Clients.
LEMMA ConnectedFinite == IsFiniteSet(Connected)
  BY CaptureAssumption, FS_Subset DEF Connected

\* Connect and Disconnect move the count with the set of the connected; a
\* client that dies leaves the count behind.
LEMMA CountMoves ==
  ASSUME CountInv, BoundsOK, NEW c \in Clients
  PROVE  /\ ConnectCount(c) => /\ c \notin Connected /\ Connected' = Connected \cup {c}
                               /\ count' = count + 1 /\ leaks' = leaks
         /\ DisconnectCount(c) => /\ c \in Connected /\ Connected' = Connected \ {c}
                                  /\ count' = count - 1 /\ leaks' = leaks
         /\ ClientDies(c) => /\ Connected' = Connected \ {c}
                             /\ count' = count /\ leaks' = leaks + 1
  BY DEF CountInv, BoundsOK, Connected, In, Move, ConnectCount, DisconnectCount, ClientDies

\* Nothing else touches it but Create, and lost is never taken back.
LEMMA CountStays ==
  ASSUME CountInv, [Next]_vars, ~Create,
         \A c \in Clients : ~ConnectCount(c) /\ ~DisconnectCount(c) /\ ~ClientDies(c)
  PROVE  Connected' = Connected /\ count' = count /\ leaks' = leaks /\ lost' = lost
<1>1. count' = count /\ leaks' = leaks /\ lost' = lost
  BY Zenon
     DEF Next, vars, RegisterFails, ReportStatus, WriteStatus, PostStatus, StopRequested,
         Handler, HandlerWrites, HandlerPosts, HandlerStops, Loop, CreateFails, LoopTop,
         LookForClients, ClientEvent, ClientTimeout, InitFails, InitCamera, GetFrame,
         CheckClients, StopIdle, ExitLoop, CloseMemory, ConnectSignal, DisconnectSignal,
         StreamEnds, PlugIn, Die, StartAgain, clientVars, handlerFrame, loopFrame
<1>2. \A c \in Clients : client'[c] = "in" <=> client[c] = "in"
  BY DEF CountInv, Move, Next, vars, RegisterFails, ReportStatus, WriteStatus, PostStatus,
         StopRequested, Handler, HandlerWrites, HandlerPosts, HandlerStops, Loop, CreateFails,
         LoopTop, LookForClients, ClientEvent, ClientTimeout, InitFails, InitCamera, GetFrame,
         CheckClients, StopIdle, ExitLoop, CloseMemory, ConnectSignal, DisconnectSignal,
         StreamEnds, PlugIn, Die, StartAgain, clientVars, handlerFrame, loopFrame
<1> QED
  BY <1>1, <1>2 DEF Connected, In

\* That a client was connected when Create cleared the count is not forgotten.
LEMMA LostStays ==
  ASSUME [Next]_vars, lost
  PROVE  lost'
  BY Zenon
     DEF Next, vars, RegisterFails, ReportStatus, WriteStatus, PostStatus, StopRequested,
         Handler, HandlerWrites, HandlerPosts, HandlerStops, Loop, Create, CreateFails, LoopTop,
         LookForClients, ClientEvent, ClientTimeout, InitFails, InitCamera, GetFrame,
         CheckClients, StopIdle, ExitLoop, CloseMemory, ConnectSignal, ConnectCount,
         DisconnectCount, DisconnectSignal, ClientDies, StreamEnds, PlugIn, Die, StartAgain,
         clientVars, handlerFrame, loopFrame

\* The steps that leave the idle count alone.
LEMMA IdleStays ==
  ASSUME [Next]_vars, ~CheckClients, ~InitCamera, ~StopIdle, ~StartAgain
  PROVE  UNCHANGED <<idle, quiet>>
  BY Zenon
     DEF Next, vars, RegisterFails, ReportStatus, WriteStatus, PostStatus, StopRequested,
         Handler, HandlerWrites, HandlerPosts, HandlerStops, Loop, Create, CreateFails, LoopTop,
         LookForClients, ClientEvent, ClientTimeout, InitFails, GetFrame, ExitLoop,
         CloseMemory, ConnectSignal, ConnectCount, DisconnectCount, DisconnectSignal,
         ClientDies, StreamEnds, PlugIn, Die, cameraVars, handlerFrame, otherThanClients

\* The count keeps its type, and the clients are where they can be.
LEMMA ClientStep ==
  ASSUME CountInv, [Next]_vars
  PROVE  /\ client' \in [Clients -> {"off", "signalled", "in", "leaving"}]
         /\ count' \in Int
<1> USE DEF CountInv, Move, clientVars, handlerFrame, loopFrame
<1>1. CASE Create
  BY <1>1 DEF Create
<1>2. CASE \E c \in Clients : ClientNext(c)
  BY <1>2 DEF ClientNext, ConnectSignal, ConnectCount, DisconnectCount, DisconnectSignal,
     ClientDies
<1>3. ASSUME ~Create, ~\E c \in Clients : ClientNext(c)
      PROVE  UNCHANGED <<client, count>>
  BY Zenon, <1>3
     DEF ClientNext, Next, vars, RegisterFails, ReportStatus, WriteStatus, PostStatus,
         StopRequested, Handler, HandlerWrites, HandlerPosts, HandlerStops, Loop, CreateFails,
         LoopTop, LookForClients, ClientEvent, ClientTimeout, InitFails, InitCamera, GetFrame,
         CheckClients, StopIdle, ExitLoop, CloseMemory, StreamEnds, PlugIn, Die, StartAgain
<1> QED
  BY <1>1, <1>2, <1>3

\* No step lowers the surplus of the count over the connected clients, and only
\* a death raises it, by one; Create, with nobody connected, makes it 0.
LEMMA CountStep ==
  ASSUME CountInv, BoundsOK, [Next]_vars
  PROVE  CountInv'
<1> SUFFICES ASSUME ~lost' PROVE Surplus' \in 0..leaks'
  BY ClientStep DEF CountInv
<1>1. Cardinality(Connected) \in Nat /\ count \in Int /\ leaks \in Nat
  BY ConnectedFinite, FS_CardinalityType, CaptureAssumption DEF CountInv, BoundsOK
<1>2. CASE Create
  <2>1. Connected' = {} /\ count' = 0 /\ leaks' = leaks
    BY <1>2 DEF Create, Connected, In
  <2> QED
    BY <1>1, <2>1, FS_EmptySet DEF Surplus
<1>3. ~lost
  BY LostStays
<1>4. ASSUME NEW c \in Clients, ConnectCount(c) PROVE Surplus' \in 0..leaks'
  <2>1. Cardinality(Connected') = Cardinality(Connected) + 1
    BY <1>4, CountMoves, ConnectedFinite, FS_AddElement
  <2> QED
    BY <1>1, <1>3, <1>4, <2>1, CountMoves DEF CountInv, Surplus
<1>5. ASSUME NEW c \in Clients, DisconnectCount(c) PROVE Surplus' \in 0..leaks'
  <2>1. Cardinality(Connected') = Cardinality(Connected) - 1
    BY <1>5, CountMoves, ConnectedFinite, FS_RemoveElement
  <2> QED
    BY <1>1, <1>3, <1>5, <2>1, CountMoves DEF CountInv, Surplus
<1>6. ASSUME NEW c \in Clients, ClientDies(c) PROVE Surplus' \in 0..leaks'
  <2>1. Cardinality(Connected') = IF c \in Connected THEN Cardinality(Connected) - 1
                                                     ELSE Cardinality(Connected)
    BY <1>6, CountMoves, ConnectedFinite, FS_RemoveElement
  <2> QED
    BY <1>1, <1>3, <1>6, <2>1, CountMoves DEF CountInv, Surplus
<1>7. ASSUME ~Create,
             \A c \in Clients : ~ConnectCount(c) /\ ~DisconnectCount(c) /\ ~ClientDies(c)
      PROVE  Surplus' \in 0..leaks'
  <2>1. Connected' = Connected /\ count' = count /\ leaks' = leaks
    BY <1>7, CountStays
  <2> QED
    BY <1>3, <1>7, <2>1 DEF CountInv, Surplus
<1> QED
  BY <1>2, <1>4, <1>5, <1>6, <1>7

\* The loop counts an idle frame only when no client is connected.
LEMMA IdleMeansUnused ==
  ASSUME CountInv, BoundsOK, ~lost, count <= 0
  PROVE  \A c \in Clients : ~In(c)
<1>1. Cardinality(Connected) \in Nat /\ count \in Int /\ leaks \in Nat
  BY ConnectedFinite, FS_CardinalityType, CaptureAssumption DEF CountInv, BoundsOK
<1>2. Cardinality(Connected) = 0
  BY <1>1 DEF CountInv, Surplus
<1> QED
  BY <1>2, ConnectedFinite, FS_EmptySet DEF Connected

\* So every check that raises the idle count raises quiet too, and who resets
\* quiet starts a camera that was off, with an idle count of 0.
LEMMA QuietStep ==
  ASSUME LoopInv, QuietInv, CountInv, [Next]_vars
  PROVE  QuietInv'
<1> USE DEF LoopInv, IdleInv, QuietInv, InLoop, Ending
<1>1. CASE CheckClients
  <2> SUFFICES ASSUME ~lost' PROVE idle' <= quiet'
    OBVIOUS
  <2>1. ~lost /\ UNCHANGED count
    BY <1>1, Zenon DEF CheckClients, loopFrame, clientVars
  <2>2. idle \in Nat /\ quiet \in Nat /\ idle <= MaxIdle /\ idle <= quiet /\ count \in Int
    BY <1>1, <2>1, CaptureAssumption DEF CheckClients, CountInv
  <2>3. CASE count <= 0
    <3>1. ~\E c \in Clients : client[c] = "in"
      BY <2>1, <2>3, IdleMeansUnused DEF In
    <3>2. idle' = idle + 1 /\ quiet' = IF quiet <= MaxIdle THEN quiet + 1 ELSE quiet
      BY <1>1, <2>3, <3>1 DEF CheckClients
    <3> QED
      BY <2>2, <3>2, CaptureAssumption
  <2>4. CASE ~(count <= 0)
    <3>1. idle' = 0 /\ quiet' \in {0, quiet, quiet + 1}
      BY <1>1, <2>4, CaptureAssumption DEF CheckClients
    <3> QED
      BY <2>2, <3>1
  <2> QED
    BY <2>3, <2>4
<1>2. CASE InitCamera \/ StopIdle \/ StartAgain
  <2>1. idle' = 0 /\ quiet' \in Nat
    <3>1. CASE InitCamera
      BY <1>2, <3>1, CaptureAssumption DEF InitCamera, Go, CameraInv
    <3>2. CASE StopIdle \/ StartAgain
      BY <1>2, <3>2, CaptureAssumption DEF StopIdle, StartAgain
    <3> QED
      BY <1>2, <3>1, <3>2
  <2> QED
    BY <2>1
<1>3. ASSUME ~CheckClients, ~InitCamera, ~StopIdle, ~StartAgain
      PROVE  QuietInv'
  <2>1. UNCHANGED <<idle, quiet>> /\ (lost => lost')
    BY <1>3, IdleStays, LostStays
  <2> QED
    BY <2>1
<1> QED
  BY <1>1, <1>2, <1>3

-----------------------------------------------------------------------------
(* The theorems                                                            *)

\* IInv holds in every reachable state.
LEMMA SpecIInv == Spec => []IInv
<1>1. Init => IInv
  <2> SUFFICES ASSUME Init PROVE QuietInv /\ CountInv
    BY InitLoop DEF IInv
  <2>1. Connected = {}
    BY DEF Init, Connected, In
  <2> QED
    BY <2>1, FS_EmptySet DEF Init, QuietInv, CountInv, Surplus
<1>2. IInv /\ [Next]_vars => IInv'
  <2> SUFFICES ASSUME IInv, [Next]_vars PROVE IInv'
    OBVIOUS
  <2>1. LoopInv'
    BY FlagsStep, BoundsStep, LoopStep DEF IInv, LoopInv
  <2>2. QuietInv'
    BY QuietStep DEF IInv
  <2>3. CountInv'
    BY CountStep DEF IInv, LoopInv
  <2> QED
    BY <2>1, <2>2, <2>3 DEF IInv
<1> QED
  BY <1>1, <1>2, PTL DEF Spec

\* Types of all variables, for any number of clients, deaths and restarts.
THEOREM TypeCorrect == Spec => []TypeOK
<1>1. IInv => TypeOK
  <2> SUFFICES ASSUME IInv PROVE TypeOK
    OBVIOUS
  <2>1. {asService, running, cameraActive, plugged, event, lost} \subseteq BOOLEAN
    BY Zenon DEF IInv, LoopInv, FlagsOK
  <2> QED
    BY <2>1 DEF IInv, LoopInv, BoundsOK, ReportInv, EndInv, CameraInv, IdleInv, CountInv,
       Starting, InLoop, Ending, TypeOK
<1> QED
  BY <1>1, SpecIInv, PTL

\* If no client was connected across a restart, the camera is stopped for want
\* of clients only after more than MaxIdle checks in a row that found none.
THEOREM StopsWhenUnused == Spec => []StopsOnlyWhenUnused
<1>1. IInv => StopsOnlyWhenUnused
  <2> SUFFICES ASSUME IInv, main = "idle", ~lost PROVE quiet > MaxIdle
    BY DEF StopsOnlyWhenUnused
  <2>1. idle > MaxIdle /\ idle <= quiet /\ idle \in Nat /\ quiet \in Nat /\ MaxIdle \in Nat
    BY CaptureAssumption DEF IInv, LoopInv, IdleInv, QuietInv
  <2> QED
    BY <2>1
<1> QED
  BY <1>1, SpecIInv, PTL

\* No loop that believes the camera off leaves it streaming: nothing would stop
\* it before the process ends (service.cpp:64-89).
THEOREM CameraIsNotForgotten == Spec => [](camera = "streaming" => cameraActive)
<1>1. IInv => (camera = "streaming" => cameraActive)
  BY DEF IInv, LoopInv, CameraInv
<1> QED
  BY <1>1, SpecIInv, PTL

\* When the loop has ended and both threads are done reporting, what was
\* reported last is that the service stopped, however their reports mix.
THEOREM StopIsReported == Spec => []StoppedReported
<1>1. IInv => StoppedReported
  BY DEF IInv, LoopInv, EndInv, StoppedReported
<1> QED
  BY <1>1, SpecIInv, PTL

-----------------------------------------------------------------------------
(* Implementing the counter                                                *)

\* The mapping is up exactly while the loop has it.
MemInv == mem = "up" <=> main \in InLoop \cup {"exit", "close"}

\* Only Create brings it up, only Close and the end of the process take it away.
LEMMA MemStep ==
  ASSUME LoopInv, MemInv, [Next]_vars
  PROVE  MemInv'
<1> USE DEF LoopInv, CameraInv, EndInv, MemInv, Starting, InLoop, Ending, Go, Leave, Move,
        statusVars, cameraVars, clientVars, handlerFrame, loopFrame, otherThanClients
<1>1. CASE RegisterFails \/ ReportStatus \/ StopRequested \/ Handler
  BY <1>1 DEF RegisterFails, ReportStatus, WriteStatus, PostStatus, StopRequested, Handler,
     HandlerWrites, HandlerPosts, HandlerStops
<1>2. CASE Loop
  BY <1>2
     DEF Loop, Create, CreateFails, LoopTop, LookForClients, ClientEvent, ClientTimeout,
         InitFails, InitCamera, GetFrame, CheckClients, StopIdle, ExitLoop, CloseMemory
<1>3. CASE \E c \in Clients : ClientNext(c)
  BY <1>3 DEF ClientNext, ConnectSignal, ConnectCount, DisconnectCount, DisconnectSignal,
     ClientDies
<1>4. CASE StreamEnds \/ PlugIn \/ Die \/ StartAgain \/ UNCHANGED vars
  BY <1>4 DEF StreamEnds, PlugIn, Die, StartAgain, vars
<1> QED
  BY <1>1, <1>2, <1>3, <1>4 DEF Next, ClientNext

\* What client c does is what a client of the counter does.
LEMMA ClientCounterStep ==
  ASSUME LoopInv, CountInv, NEW c \in Clients, ClientNext(c)
  PROVE  Counter!Next
<1> USE DEF CountInv, Attached, Move, Counter!Move, otherThanClients, statusVars, cameraVars
<1>1. CASE ConnectSignal(c)
  <2>1. Counter!Signal(c)
    BY <1>1 DEF ConnectSignal, Counter!Signal
  <2> QED
    BY <2>1 DEF Counter!Next
<1>2. CASE ConnectCount(c)
  <2>1. Counter!CountIn(c)
    BY <1>2 DEF ConnectCount, Counter!CountIn
  <2> QED
    BY <2>1 DEF Counter!Next
<1>3. CASE DisconnectCount(c)
  <2>1. Counter!CountOut(c)
    BY <1>3 DEF DisconnectCount, Counter!CountOut
  <2> QED
    BY <2>1 DEF Counter!Next
<1>4. CASE DisconnectSignal(c)
  <2>1. Counter!Leave(c)
    BY <1>4 DEF DisconnectSignal, Counter!Leave
  <2> QED
    BY <2>1 DEF Counter!Next
<1>5. CASE ClientDies(c)
  <2>1. Counter!Die(c)
    BY <1>5 DEF ClientDies, Counter!Die
  <2> QED
    BY <2>1 DEF Counter!Next
<1> QED
  BY <1>1, <1>2, <1>3, <1>4, <1>5 DEF ClientNext

\* The steps that no client and nobody who counts clients can tell.
LEMMA CounterStays ==
  ASSUME [Next]_vars, ~Create, ~ClientEvent, ~CloseMemory, ~Die, ~StartAgain,
         ~\E c \in Clients : ClientNext(c)
  PROVE  UNCHANGED <<client, count, event, mem>>
  BY Zenon
     DEF ClientNext, Next, vars, RegisterFails, ReportStatus, WriteStatus, PostStatus,
         StopRequested, Handler, HandlerWrites, HandlerPosts, HandlerStops, Loop, CreateFails,
         LoopTop, LookForClients, ClientTimeout, InitFails, InitCamera, GetFrame,
         CheckClients, StopIdle, ExitLoop, StreamEnds, PlugIn, clientVars, handlerFrame,
         loopFrame

\* A step of the service is a step of the counter or changes nothing of it.
LEMMA CounterStep ==
  ASSUME LoopInv, CountInv, MemInv, [Next]_vars
  PROVE  [Counter!Next]_(Counter!kvars)
<1> USE DEF InLoop, Go, loopFrame, clientVars, Attached, Counter!kvars
<1>1. CASE Create
  <2>1. Counter!Clear
    BY <1>1 DEF Create, Counter!Clear, MemInv, LoopInv, FlagsOK
  <2> QED
    BY <2>1 DEF Counter!Next
<1>2. CASE ClientEvent
  <2>1. Counter!TakeEvent
    BY <1>2 DEF ClientEvent, Counter!TakeEvent, MemInv
  <2> QED
    BY <2>1 DEF Counter!Next
<1>3. CASE CloseMemory
  <2>1. Counter!GoAway
    BY <1>3 DEF CloseMemory, Counter!GoAway, MemInv
  <2> QED
    BY <2>1 DEF Counter!Next
<1>4. CASE Die
  <2>1. CASE mem = "up"
    <3>1. Counter!GoAway
      BY <1>4, <2>1 DEF Die, Counter!GoAway
    <3> QED
      BY <3>1 DEF Counter!Next
  <2>2. CASE mem # "up"
    BY <1>4, <2>2 DEF Die
  <2> QED
    BY <2>1, <2>2
<1>5. CASE StartAgain
  BY <1>5 DEF StartAgain
<1>6. CASE \E c \in Clients : ClientNext(c)
  BY <1>6, ClientCounterStep
<1>7. CASE UNCHANGED <<client, count, event, mem>>
  BY <1>7
<1> QED
  BY <1>1, <1>2, <1>3, <1>4, <1>5, <1>6, <1>7, CounterStays

\* The service and its clients do nothing to clientCount and to the client event
\* that the counter does not allow, which SharedFrame keeps to as well, for any
\* clients, deaths and restarts.
THEOREM ServiceImplementsCounter == Spec => ImplementsCounter
<1>1. Init => MemInv /\ Counter!Init
  BY DEF Init, MemInv, InLoop, Counter!Init, Attached
<1>2. IInv /\ MemInv /\ [Next]_vars => MemInv'
  BY MemStep DEF IInv
<1>3. IInv /\ MemInv /\ [Next]_vars => [Counter!Next]_(Counter!kvars)
  BY CounterStep DEF IInv
<1> QED
  BY <1>1, <1>2, <1>3, SpecIInv, PTL DEF Spec, ImplementsCounter, Counter!Spec
=============================================================================
