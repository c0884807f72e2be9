---------------------------- MODULE CaptureService ----------------------------
(***************************************************************************)
(* The capture process (PS3EyeCaptureService.cpp): the thread that runs    *)
(* ServiceMain and in it CaptureLoop, the thread the service manager calls *)
(* ServiceCtrlHandler on, and what the two share.  The camera is on only   *)
(* while clients are connected: the loop learns of them from clientCount   *)
(* and from the client event, which Connect and Disconnect of the clients  *)
(* (PS3EyeSharedMemory.cpp) change one after the other.  The process may    *)
(* die at any point and is started again; the clients keep the named       *)
(* objects alive and connected in the meantime, and Create clears the      *)
(* count under them.                                                       *)
(*                                                                         *)
(* Of the shared frame only that interface is here; see SharedFrame.  The  *)
(* camera driver and the service manager are external.                     *)
(***************************************************************************)
EXTENDS Integers, FiniteSets

CONSTANTS
  Clients,
  MaxIdle,     \* frames without a client before the camera may be stopped (30)
  MaxFaults,   \* bound: times the camera stops streaming by itself
  MaxLeaks,    \* bound: clients that die connected, without Disconnect
  MaxRestarts  \* bound: times the process is started again

ASSUME CaptureAssumption ==
  /\ {MaxIdle, MaxFaults, MaxLeaks, MaxRestarts} \subseteq Nat
  /\ IsFiniteSet(Clients)

VARIABLES
  main,          \* where the ServiceMain/CaptureLoop thread is
  asService,     \* started by the service manager, or run directly (wmain)
  handler,       \* where the ServiceCtrlHandler call is
  running,       \* g_running
  status,        \* g_serviceStatus.dwCurrentState
  scm,           \* the state the service manager was last told
  mem,           \* this process's shared memory: "none", "up", "closed" (serverPID is
                 \* 0), or "orphan" (the process died and did not close it)
  cameraActive,
  camera,        \* what the camera reference is: "none", "open", "streaming"
  plugged,       \* there is a device to find
  idle,          \* noClientFrames
  count,         \* clientCount in the header
  event,         \* the client event is signalled
  client,        \* where each client is in Connect/Disconnect
  faults, leaks, restarts, \* the counters the bounds are about
  quiet,         \* history: checks since the camera started or found a client,
                 \* counted to MaxIdle + 1
  lost           \* history: a client was connected when Create cleared the count

statusVars == <<asService, handler, running, status, scm>>
cameraVars == <<cameraActive, camera, plugged, idle, faults, quiet>>
clientVars == <<count, client, leaks, lost, restarts>>
vars == <<main, asService, handler, running, status, scm, mem, cameraActive, camera,
          plugged, idle, faults, count, event, client, leaks, lost, restarts, quiet>>

Init ==
  /\ asService \in BOOLEAN
  /\ main = IF asService THEN "begin" ELSE "create"
  /\ handler = "idle" /\ running = TRUE
  /\ status = "none" /\ scm = "START_PENDING"
  /\ mem = "none"
  /\ cameraActive = FALSE /\ camera = "none" /\ plugged \in BOOLEAN
  /\ idle = 0 /\ faults = 0
  /\ count = 0 /\ event = FALSE /\ client = [c \in Clients |-> "off"] /\ leaks = 0
  /\ quiet = 0 /\ lost = FALSE /\ restarts = 0

Go(from, to) == main = from /\ main' = to

-----------------------------------------------------------------------------
(* ServiceMain and ServiceCtrlHandler: ReportServiceStatus fills the one    *)
(* global SERVICE_STATUS and then hands it to SetServiceStatus, on either   *)
(* thread and without a lock.                                              *)

WriteStatus(from, to, state) ==
  /\ Go(from, to) /\ status' = state
  /\ UNCHANGED <<asService, handler, running, scm, mem, cameraVars, event, clientVars>>

PostStatus(from, to) ==
  /\ Go(from, to) /\ scm' = status
  /\ UNCHANGED <<asService, handler, running, status, mem, cameraVars, event, clientVars>>

\* No handler could be registered.
RegisterFails ==
  /\ Go("begin", "end")
  /\ UNCHANGED <<statusVars, mem, cameraVars, event, clientVars>>

ReportStatus ==
  \/ WriteStatus("begin", "starting", "START_PENDING")
  \/ PostStatus("starting", "started")
  \/ WriteStatus("started", "entering", "RUNNING")
  \/ PostStatus("entering", "create")
  \/ WriteStatus("leave", "stopping", "STOPPED")
  \/ PostStatus("stopping", "end")

handlerFrame == <<main, asService, mem, cameraVars, event, clientVars>>

\* The service manager passes on a stop when the service accepts it.
StopRequested ==
  /\ asService /\ scm = "RUNNING" /\ main \notin {"end", "dead"}
  /\ handler = "idle" /\ handler' = "called"
  /\ UNCHANGED <<running, status, scm, handlerFrame>>

HandlerWrites ==
  /\ handler = "called" /\ handler' = "written"
  /\ status' = "STOP_PENDING"
  /\ UNCHANGED <<running, scm, handlerFrame>>

HandlerPosts ==
  /\ handler = "written" /\ handler' = "posted"
  /\ scm' = status
  /\ UNCHANGED <<running, status, handlerFrame>>

HandlerStops ==
  /\ handler = "posted" /\ handler' = "idle"
  /\ running' = FALSE
  /\ UNCHANGED <<status, scm, handlerFrame>>

-----------------------------------------------------------------------------
(* CaptureLoop                                                             *)

loopFrame == <<statusVars, clientVars>>
Leave == IF asService THEN "leave" ELSE "end"

\* The clients that have the named objects open keep them alive.
Attached == {c \in Clients : client[c] # "off"}

\* sharedMemory.Create(): the objects that are still there are opened again,
\* and the count is cleared whoever is connected
Create ==
  /\ Go("create", "top")
  /\ mem' = "up" /\ count' = 0
  /\ event' = (event /\ Attached # {})
  /\ lost' = (lost \/ \E c \in Clients : client[c] = "in")
  /\ UNCHANGED <<statusVars, cameraVars, client, leaks, restarts>>

\* no memory, no rights to the names
CreateFails ==
  /\ Go("create", Leave)
  /\ UNCHANGED <<mem, cameraVars, event, loopFrame>>

\* Mutant of LoopTop: the wait for the stream does not look at g_running.
LoopTopDeaf ==
  /\ main = "top"
  /\ \/ ~running /\ (~cameraActive \/ camera = "streaming") /\ main' = "exit"
     \/ running /\ ~cameraActive /\ main' = "look"
     \/ running /\ cameraActive /\ camera = "streaming" /\ main' = "frame"
  /\ UNCHANGED <<mem, cameraVars, event, loopFrame>>

\* while (g_running): the camera is off, wait for clients; it streams, take a
\* frame.  A camera that is on and does not stream is waited for, 100 ms at a
\* time, with no step of its own.
LoopTop ==
  /\ main = "top"
  /\ \/ ~running /\ main' = "exit"
     \/ running /\ ~cameraActive /\ main' = "look"
     \/ running /\ cameraActive /\ camera = "streaming" /\ main' = "frame"
  /\ UNCHANGED <<mem, cameraVars, event, loopFrame>>

\* WaitForClients: some are there already
LookForClients ==
  /\ Go("look", IF count > 0 THEN "init" ELSE "wait")
  /\ UNCHANGED <<mem, cameraVars, event, loopFrame>>

\* WaitForClients: the event, or 1 s without it and another look
ClientEvent ==
  /\ event /\ event' = FALSE
  /\ Go("wait", "init")
  /\ UNCHANGED <<mem, cameraVars, loopFrame>>

ClientTimeout ==
  /\ ~event
  /\ Go("wait", IF count > 0 THEN "init" ELSE "top")
  /\ UNCHANGED <<mem, cameraVars, event, loopFrame>>

\* initCamera: no device, or the device does not initialise
InitFails ==
  /\ Go("init", "top")
  /\ IF plugged THEN camera' = "open" ELSE UNCHANGED camera
  /\ UNCHANGED <<mem, cameraActive, plugged, idle, faults, quiet, event, loopFrame>>

InitCamera ==
  /\ plugged
  /\ Go("init", "top")
  /\ camera' = "streaming" /\ cameraActive' = TRUE /\ quiet' = 0
  /\ UNCHANGED <<mem, plugged, idle, faults, event, loopFrame>>

\* getFrame and WriteFrame.  getFrame has no timeout and does not look at
\* g_running.  If the stream ended after the look at it in LoopTop, the driver
\* may still have a frame to return; or getFrame never returns.
GetFrame ==
  /\ Go("frame", "check")
  /\ UNCHANGED <<mem, cameraVars, event, loopFrame>>

\* the idle count
CheckClients ==
  /\ main = "check"
  /\ idle' = IF count <= 0 THEN idle + 1 ELSE 0
  /\ main' = IF idle' > MaxIdle THEN "idle" ELSE "top"
  /\ quiet' = IF \E c \in Clients : client[c] = "in" THEN 0
              ELSE IF quiet <= MaxIdle THEN quiet + 1 ELSE quiet
  /\ UNCHANGED <<mem, cameraActive, camera, plugged, faults, event, loopFrame>>

\* stopCamera()
StopCamera ==
  IF cameraActive THEN camera' = "none" /\ cameraActive' = FALSE
                  ELSE UNCHANGED <<camera, cameraActive>>

\* Mutants of StopIdle: the idle count is not reset; the camera is stopped and
\* cameraActive stays set.
StopIdleKeepsCount ==
  /\ Go("idle", "top")
  /\ StopCamera
  /\ UNCHANGED <<mem, plugged, idle, faults, quiet, event, loopFrame>>

StopIdleStaysActive ==
  /\ Go("idle", "top")
  /\ camera' = "none" /\ idle' = 0
  /\ UNCHANGED <<mem, cameraActive, plugged, faults, quiet, event, loopFrame>>

StopIdle ==
  /\ Go("idle", "top")
  /\ StopCamera /\ idle' = 0
  /\ UNCHANGED <<mem, plugged, faults, quiet, event, loopFrame>>

\* after the loop: stopCamera() ...
ExitLoop ==
  /\ Go("exit", "close")
  /\ StopCamera
  /\ UNCHANGED <<mem, plugged, idle, faults, quiet, event, loopFrame>>

\* ... Close(), and the locals go out of scope
CloseMemory ==
  /\ Go("close", Leave)
  /\ mem' = "closed" /\ camera' = "none"
  /\ UNCHANGED <<cameraActive, plugged, idle, faults, quiet, event, loopFrame>>

-----------------------------------------------------------------------------
(* The clients                                                             *)

otherThanClients == <<main, statusVars, mem, cameraVars>>

Move(c, from, to) == client[c] = from /\ client' = [client EXCEPT ![c] = to]

\* Connect: SetEvent, then InterlockedIncrement.  The named objects exist, and
\* the magic is in the header, as long as somebody has them open.
ConnectSignal(c) ==
  /\ mem = "up" \/ Attached # {}
  /\ Move(c, "off", "signalled")
  /\ event' = TRUE
  /\ UNCHANGED <<count, leaks, lost, restarts, otherThanClients>>

ConnectCount(c) ==
  /\ Move(c, "signalled", "in")
  /\ count' = count + 1
  /\ UNCHANGED <<event, leaks, lost, restarts, otherThanClients>>

\* Mutant of DisconnectCount: the count is not taken back.
DisconnectForgotten(c) ==
  /\ Move(c, "in", "leaving")
  /\ UNCHANGED <<count, event, leaks, lost, restarts, otherThanClients>>

\* Disconnect: InterlockedDecrement, then SetEvent
DisconnectCount(c) ==
  /\ Move(c, "in", "leaving")
  /\ count' = count - 1
  /\ UNCHANGED <<event, leaks, lost, restarts, otherThanClients>>

DisconnectSignal(c) ==
  /\ Move(c, "leaving", "off")
  /\ event' = TRUE
  /\ UNCHANGED <<count, leaks, lost, restarts, otherThanClients>>

\* The client's process dies.
ClientDies(c) ==
  /\ leaks < MaxLeaks /\ leaks' = leaks + 1
  /\ client[c] # "off" /\ Move(c, client[c], "off")
  /\ UNCHANGED <<count, event, lost, restarts, otherThanClients>>

\* The device is pulled out, or stops streaming for a reason of its own.
StreamEnds ==
  /\ faults < MaxFaults /\ faults' = faults + 1
  /\ camera = "streaming" /\ camera' = "open"
  /\ plugged' \in BOOLEAN
  /\ UNCHANGED <<main, statusVars, mem, cameraActive, idle, quiet, event, clientVars>>

PlugIn ==
  /\ ~plugged /\ plugged' = TRUE
  /\ UNCHANGED <<main, statusVars, mem, cameraActive, camera, idle, faults, quiet, event,
                 clientVars>>

\* The process is killed; the device is closed for it.
Die ==
  /\ main \notin {"end", "dead"} /\ main' = "dead"
  /\ mem' = IF mem = "up" THEN "orphan" ELSE mem
  /\ camera' = "none" /\ handler' = "idle"
  /\ restarts < MaxRestarts
  /\ UNCHANGED <<asService, running, status, scm, cameraActive, plugged, idle, faults, quiet,
                 event, clientVars>>

\* A process that died or ended is started again.
StartAgain ==
  /\ restarts < MaxRestarts /\ restarts' = restarts + 1
  /\ main \in {"end", "dead"} /\ main' = IF asService THEN "begin" ELSE "create"
  /\ handler' = "idle" /\ running' = TRUE /\ status' = "none" /\ scm' = "START_PENDING"
  /\ mem' = IF mem = "closed" THEN "none" ELSE mem
  /\ cameraActive' = FALSE /\ idle' = 0 /\ quiet' = 0
  /\ UNCHANGED <<asService, camera, plugged, faults, count, event, client, leaks, lost>>

Loop ==
  \/ Create \/ CreateFails \/ LoopTop \/ LookForClients \/ ClientEvent \/ ClientTimeout
  \/ InitFails \/ InitCamera \/ GetFrame \/ CheckClients \/ StopIdle \/ ExitLoop \/ CloseMemory

\* Mutant of Handler: g_running is cleared first, then the report is made.
HandlerStopsFirst ==
  \/ /\ handler = "called" /\ handler' = "written" /\ running' = FALSE
     /\ UNCHANGED <<status, scm, handlerFrame>>
  \/ /\ handler = "written" /\ handler' = "posted" /\ status' = "STOP_PENDING"
     /\ UNCHANGED <<running, scm, handlerFrame>>
  \/ /\ handler = "posted" /\ handler' = "idle" /\ scm' = status
     /\ UNCHANGED <<running, status, handlerFrame>>

\* ServiceCtrlHandler
Handler == HandlerWrites \/ HandlerPosts \/ HandlerStops

Next ==
  \/ RegisterFails \/ ReportStatus \/ Loop
  \/ StopRequested \/ Handler
  \/ \E c \in Clients :
       \/ ConnectSignal(c) \/ ConnectCount(c) \/ DisconnectCount(c) \/ DisconnectSignal(c)
       \/ ClientDies(c)
  \/ StreamEnds \/ PlugIn
  \/ Die \/ StartAgain

Spec == Init /\ [][Next]_vars

-----------------------------------------------------------------------------
(* Fairness.  The threads run on: every wait of the loop has a timeout,     *)
(* except getFrame, which returns while the camera streams and need not     *)
(* return afterwards.  A device that is there comes up if it is tried       *)
(* again and again.  A client that began to connect or to disconnect        *)
(* finishes.                                                                *)

\* The loop waits in getFrame for a camera that no longer streams.
HeldByDriver == main = "frame" /\ camera # "streaming"

FairSpec ==
  /\ Spec
  /\ WF_vars((RegisterFails \/ ReportStatus \/ Loop) /\ ~HeldByDriver)
  /\ SF_vars(InitCamera)
  /\ WF_vars(Handler)
  /\ \A c \in Clients : WF_vars(ConnectCount(c)) /\ WF_vars(DisconnectSignal(c))

-----------------------------------------------------------------------------
(* Properties                                                              *)

In(c) == client[c] = "in"

TypeOK ==
  /\ main \in {"begin", "starting", "started", "entering", "create", "top", "look", "wait",
               "init", "frame", "check", "idle", "exit", "close", "leave", "stopping", "end",
               "dead"}
  /\ handler \in {"idle", "called", "written", "posted"}
  /\ status \in {"none", "START_PENDING", "RUNNING", "STOP_PENDING", "STOPPED"}
  /\ scm \in {"START_PENDING", "RUNNING", "STOP_PENDING", "STOPPED"}
  /\ {asService, running, cameraActive, plugged, event, lost} \subseteq BOOLEAN
  /\ mem \in {"none", "up", "closed", "orphan"}
  /\ camera \in {"none", "open", "streaming"}
  /\ idle \in 0..MaxIdle + 1 /\ quiet \in 0..MaxIdle + 1 /\ count \in Int
  /\ client \in [Clients -> {"off", "signalled", "in", "leaving"}]
  /\ faults \in 0..MaxFaults /\ leaks \in 0..MaxLeaks /\ restarts \in 0..MaxRestarts

\* The camera is stopped for want of clients only when more than MaxIdle
\* checks in a row, all since it was last started, found none connected, if no
\* client was connected across a restart (service.cpp:112-120).
StopsOnlyWhenUnused == main = "idle" /\ ~lost => quiet > MaxIdle

\* On-demand start (service.cpp:92): a client that stays connected gets the
\* camera streaming, whatever the others do and however its event and its
\* count are seen by the loop.  For a camera that never fails by itself, and
\* clients that were not connected across a restart.
OnDemandStart ==
  [](~lost /\ faults = 0) =>
    \A c \in Clients :
      (In(c) /\ plugged) ~> (camera = "streaming" \/ ~In(c) \/ ~running \/ mem # "up")

\* On-demand stop: once the clients stay away the camera goes off and stays
\* off, though the last Disconnect leaves its event behind, across restarts,
\* and if none of them died.
OnDemandStop ==
  [](leaks = 0) /\ <>[](\A c \in Clients : client[c] = "off") => <>[](camera # "streaming")

\* Whatever the order of the two threads' reports, when both are done after
\* the loop has run, the service manager has been told that the service
\* stopped (service.cpp:141).
StoppedReported ==
  main = "end" /\ handler = "idle" /\ asService /\ mem = "closed" => scm = "STOPPED"

\* A stop the service manager asks for ends the service thread, wherever the
\* loop is and whatever the camera does: only a getFrame that never returns,
\* since the stream ended just before it, can keep the thread from it.
StopHonoured ==
  [](handler = "called" => <>(main \in {"end", "dead"} \/ []HeldByDriver))

\* While a client and the device are there for good, frames keep coming
\* ("captures from PS3 Eye and shares", service.cpp:2), if the driver lets go
\* of the loop.
KeepsCapturing ==
  \A c \in Clients :
    <>[](In(c) /\ plugged /\ running /\ mem = "up" /\ ~HeldByDriver)
      => []<>(camera = "streaming")

\* What the service takes its clients for is what they are in SharedFrame, and
\* the service does to the count and the event what they expect of it: the
\* clients, the restarts and the deaths of both (cpp:87, 133-144, 249-274).
Counter == INSTANCE ClientCounter WITH holders <- Attached, up <- mem = "up"
ImplementsCounter == Counter!Spec
=============================================================================
