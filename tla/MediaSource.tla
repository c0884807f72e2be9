------------------------------ MODULE MediaSource ------------------------------
(***************************************************************************)
(* The Media Foundation source (PS3EyeMediaSource.cpp): Start, Stop, Pause *)
(* and Shutdown, called by any thread of the application and serialised by *)
(* m_mutex, the stream object with a mutex of its own, and the capture     *)
(* thread, which Start creates, Stop and Shutdown join, and which takes    *)
(* only the stream's mutex: it uses the shared memory client and m_stream  *)
(* without m_mutex.                                                        *)
(*                                                                         *)
(* A call is a sequence of steps, `at', under m_mutex.  Calls that return  *)
(* an error or a value and change nothing (a source that is shut down,     *)
(* RequestSample, the descriptors and attributes) have no step.            *)
(***************************************************************************)
EXTENDS Naturals

CONSTANTS
  Callers,  \* the application's threads
  Nobody,   \* no holder of a mutex
  Capture   \* the capture thread as a holder of the stream's mutex

ASSUME SourceAssumption == Nobody \notin Callers /\ Capture \notin Callers \cup {Nobody}

VARIABLES
  op, at,       \* the call each caller is in, and where
  mutex,        \* PS3EyeMediaSource::m_mutex
  state,        \* m_state
  connected,    \* m_sharedMemClient is connected
  service,      \* the capture service is there to connect to
  flag,         \* m_captureThreadRunning
  thread,       \* m_captureThread: "none" (not joinable), "alive", "ended"
  cap,          \* where the capture thread is
  stream,       \* m_stream is set
  streamMutex,  \* PS3EyeMediaStream::m_mutex
  active, shut, \* m_isActive, m_isShutdown
  told          \* the last event of the stream's queue that is not a sample

callVars == <<op, at, mutex>>
threadVars == <<flag, thread, cap>>
streamVars == <<stream, streamMutex, active, shut, told>>
vars == <<op, at, mutex, state, connected, service, flag, thread, cap,
          stream, streamMutex, active, shut, told>>

\* A source CreateInstance has handed out: Initialize connected it.
Init ==
  /\ op = [p \in Callers |-> "none"] /\ at = [p \in Callers |-> "idle"]
  /\ mutex = Nobody /\ state = "Stopped"
  /\ connected = TRUE /\ service = TRUE
  /\ flag = FALSE /\ thread = "none" /\ cap = "none"
  /\ stream = TRUE /\ streamMutex = Nobody /\ active = FALSE /\ shut = FALSE
  /\ told = "nothing"

-----------------------------------------------------------------------------
(* Calls                                                                   *)

\* lock_guard, and the checks that end the call at once
Enter(p) ==
  /\ at[p] = "idle" /\ mutex = Nobody /\ state # "Shutdown"
  /\ mutex' = p
  /\ \/ op' = [op EXCEPT ![p] = "Start"] /\ at' = [at EXCEPT ![p] = "connect"]
     \/ op' = [op EXCEPT ![p] = "Stop"] /\ at' = [at EXCEPT ![p] = "clear"]
     \/ op' = [op EXCEPT ![p] = "Shutdown"] /\ at' = [at EXCEPT ![p] = "clear"]
     \/ /\ state = "Started"
        /\ op' = [op EXCEPT ![p] = "Pause"] /\ at' = [at EXCEPT ![p] = "stream"]
  /\ UNCHANGED <<state, connected, service, threadVars, streamVars>>

At(p, o, from) == at[p] = from /\ op[p] \in o
Go(p, to) == at' = [at EXCEPT ![p] = to] /\ UNCHANGED <<op, mutex>>
Return(p) ==
  /\ at' = [at EXCEPT ![p] = "idle"] /\ op' = [op EXCEPT ![p] = "none"]
  /\ mutex' = Nobody

\* Start: IsConnected, or Connect; E_FAIL without the service
StartConnect(p) ==
  /\ At(p, {"Start"}, "connect")
  /\ IF connected \/ service
     THEN connected' = TRUE /\ Go(p, "stream")
     ELSE UNCHANGED connected /\ Return(p)
  /\ UNCHANGED <<state, service, threadVars, streamVars>>

\* Mutant of StreamEvent: Pause also tells the capture thread to end.
StreamEventEndsThread(p) ==
  /\ At(p, {"Start", "Pause", "Stop"}, "stream") /\ streamMutex = Nobody
  /\ active' = (op[p] = "Start")
  /\ told' = CASE op[p] = "Start" -> "started"
               [] op[p] = "Pause" -> "paused"
               [] op[p] = "Stop" -> "stopped"
  /\ flag' = (flag /\ op[p] # "Pause")
  /\ Go(p, IF op[p] = "Start" THEN "thread" ELSE "return")
  /\ UNCHANGED <<state, connected, service, thread, cap, stream, streamMutex, shut>>

\* m_stream->Start / Pause / Stop: one event under the stream's mutex
StreamEvent(p) ==
  /\ At(p, {"Start", "Pause", "Stop"}, "stream") /\ streamMutex = Nobody
  /\ active' = (op[p] = "Start")
  /\ told' = CASE op[p] = "Start" -> "started"
               [] op[p] = "Pause" -> "paused"
               [] op[p] = "Stop" -> "stopped"
  /\ Go(p, IF op[p] = "Start" THEN "thread" ELSE "return")
  /\ UNCHANGED <<state, connected, service, threadVars, stream, streamMutex, shut>>

\* StartCaptureThread
StartThread(p) ==
  /\ At(p, {"Start"}, "thread")
  /\ flag' = TRUE
  /\ IF flag THEN UNCHANGED <<thread, cap>> ELSE thread' = "alive" /\ cap' = "loop"
  /\ Go(p, "return")
  /\ UNCHANGED <<state, connected, service, streamVars>>

\* StopCaptureThread: m_captureThreadRunning = false ...
ClearFlag(p) ==
  /\ At(p, {"Stop", "Shutdown"}, "clear")
  /\ flag' = FALSE
  /\ Go(p, "join")
  /\ UNCHANGED <<state, connected, service, thread, cap, streamVars>>

\* Mutant of JoinThread: the thread is detached, not joined.
DetachThread(p) ==
  /\ At(p, {"Stop", "Shutdown"}, "join")
  /\ thread' = "none"
  /\ Go(p, "disconnect")
  /\ UNCHANGED <<state, connected, service, flag, cap, streamVars>>

\* ... and join, if there is a thread
JoinThread(p) ==
  /\ At(p, {"Stop", "Shutdown"}, "join")
  /\ thread # "alive" /\ thread' = "none"
  /\ Go(p, "disconnect")
  /\ UNCHANGED <<state, connected, service, flag, cap, streamVars>>

\* m_sharedMemClient.Disconnect()
Disconnect(p) ==
  /\ At(p, {"Stop", "Shutdown"}, "disconnect")
  /\ connected' = FALSE
  /\ Go(p, "stream")
  /\ UNCHANGED <<state, service, threadVars, streamVars>>

\* m_stream->Shutdown(), m_stream.Reset()
ShutdownStream(p) ==
  /\ At(p, {"Shutdown"}, "stream") /\ streamMutex = Nobody
  /\ shut' = TRUE /\ active' = FALSE /\ told' = "shutdown" /\ stream' = FALSE
  /\ Go(p, "return")
  /\ UNCHANGED <<state, connected, service, threadVars, streamMutex>>

\* Mutant of Leave: Stop leaves m_state as it was.
LeaveStateOnStop(p) ==
  /\ at[p] = "return"
  /\ state' = CASE op[p] = "Start" -> "Started"
                [] op[p] = "Pause" -> "Paused"
                [] op[p] = "Stop" -> state
                [] op[p] = "Shutdown" -> "Shutdown"
  /\ Return(p)
  /\ UNCHANGED <<connected, service, threadVars, streamVars>>

\* m_state and the source's own event
Leave(p) ==
  /\ at[p] = "return"
  /\ state' = CASE op[p] = "Start" -> "Started"
                [] op[p] = "Pause" -> "Paused"
                [] op[p] = "Stop" -> "Stopped"
                [] op[p] = "Shutdown" -> "Shutdown"
  /\ Return(p)
  /\ UNCHANGED <<connected, service, threadVars, streamVars>>

-----------------------------------------------------------------------------
(* CaptureThreadProc                                                       *)

\* while (m_captureThreadRunning)
CaptureLoop ==
  /\ cap = "loop"
  /\ IF flag THEN cap' = "client" /\ UNCHANGED thread
             ELSE cap' = "none" /\ thread' = "ended"
  /\ UNCHANGED <<callVars, state, connected, service, flag, streamVars>>

\* IsConnected, or Connect; 100 ms later again without the service
CaptureConnect ==
  /\ cap = "client"
  /\ IF connected \/ service
     THEN connected' = TRUE /\ cap' = "wait"
     ELSE cap' = "loop" /\ UNCHANGED connected
  /\ UNCHANGED <<callVars, state, service, flag, thread, streamVars>>

\* WaitForFrame: signalled, or 100 ms without a frame
CaptureWait ==
  /\ cap = "wait" /\ cap' \in {"read", "loop"}
  /\ UNCHANGED <<callVars, state, connected, service, flag, thread, streamVars>>

\* ReadFrame and a sample made of it, or a failure of either
CaptureRead ==
  /\ cap = "read" /\ cap' \in {"deliver", "loop"}
  /\ UNCHANGED <<callVars, state, connected, service, flag, thread, streamVars>>

\* Mutants of DeliverBegin: the stream's mutex is not taken before m_isActive is
\* looked at; the source's mutex is taken too.
DeliverUnlocked ==
  /\ cap = "deliver"
  /\ cap' = IF active /\ ~shut THEN "queue" ELSE "loop"
  /\ UNCHANGED <<callVars, state, connected, service, flag, thread, streamVars>>

DeliverLocksSource ==
  /\ cap = "deliver" /\ streamMutex = Nobody /\ mutex = Nobody
  /\ IF active /\ ~shut
     THEN cap' = "queue" /\ streamMutex' = Capture
     ELSE cap' = "loop" /\ UNCHANGED streamMutex
  /\ UNCHANGED <<callVars, state, connected, service, flag, thread, stream, active, shut, told>>

\* DeliverSample: under the stream's mutex, drop it ...
DeliverBegin ==
  /\ cap = "deliver" /\ streamMutex = Nobody
  /\ IF active /\ ~shut
     THEN cap' = "queue" /\ streamMutex' = Capture
     ELSE cap' = "loop" /\ UNCHANGED streamMutex
  /\ UNCHANGED <<callVars, state, connected, service, flag, thread, stream, active, shut, told>>

\* Mutant of QueueSample: the stream's mutex is not given back.
QueueLocked ==
  /\ cap = "queue" /\ cap' = "loop"
  /\ UNCHANGED <<callVars, state, connected, service, flag, thread, streamVars>>

\* ... or queue it
QueueSample ==
  /\ cap = "queue" /\ cap' = "loop"
  /\ streamMutex' = Nobody
  /\ UNCHANGED <<callVars, state, connected, service, flag, thread, stream, active, shut, told>>

\* The service comes and goes; a connected client keeps what it has open.
ServiceChange ==
  /\ service' = ~service
  /\ UNCHANGED <<callVars, state, connected, threadVars, streamVars>>

Call(p) ==
  \/ StartConnect(p) \/ StreamEvent(p) \/ StartThread(p)
  \/ ClearFlag(p) \/ JoinThread(p) \/ Disconnect(p) \/ ShutdownStream(p) \/ Leave(p)

CaptureThread ==
  \/ CaptureLoop \/ CaptureConnect \/ CaptureWait \/ CaptureRead \/ DeliverBegin \/ QueueSample

Next ==
  \/ \E p \in Callers : Enter(p) \/ Call(p)
  \/ CaptureThread
  \/ ServiceChange

Spec == Init /\ [][Next]_vars

\* The threads run on; a thread that wants the stream's mutex gets it in turn.
FairSpec ==
  /\ Spec
  /\ WF_vars(CaptureThread) /\ SF_vars(DeliverBegin)
  /\ \A p \in Callers : SF_vars(Call(p))

-----------------------------------------------------------------------------
(* Properties                                                              *)

\* Types, and who holds the two mutexes where.
TypeOK ==
  /\ op \in [Callers -> {"none", "Start", "Stop", "Pause", "Shutdown"}]
  /\ at \in [Callers -> {"idle", "connect", "stream", "thread", "clear", "join",
                         "disconnect", "return"}]
  /\ mutex \in Callers \cup {Nobody} /\ \A p \in Callers : at[p] # "idle" <=> mutex = p
  /\ state \in {"Stopped", "Started", "Paused", "Shutdown"}
  /\ {connected, service, flag, stream, active, shut} \subseteq BOOLEAN
  /\ thread \in {"none", "alive", "ended"}
  /\ cap \in {"none", "loop", "client", "wait", "read", "deliver", "queue"}
  /\ streamMutex = (IF cap = "queue" THEN Capture ELSE Nobody)
  /\ told \in {"nothing", "started", "paused", "stopped", "shutdown"}

\* While the capture thread uses the shared memory client no caller connects or
\* disconnects it, though the thread does not hold m_mutex (cpp:493-520).
ClientNotShared ==
  cap \in {"client", "wait", "read"} =>
    /\ connected
    /\ \A p \in Callers : at[p] # "disconnect"

\* m_stream is set whenever the capture thread uses it (cpp:552-553).
StreamOutlivesThread == cap \in {"deliver", "queue"} => stream

\* Start never assigns to a std::thread that is still joinable, which would
\* end the program (cpp:483).
ThreadNotOverwritten ==
  \A p \in Callers : at[p] = "thread" /\ ~flag => thread = "none"

\* When no call is in progress the state is what the parts are.
StateMatchesParts ==
  mutex = Nobody =>
    /\ (thread = "alive") = (state \in {"Started", "Paused"})
    /\ flag = (state \in {"Started", "Paused"})
    /\ active = (state = "Started")
    /\ (state \in {"Started", "Paused"} => connected)
    /\ (state = "Shutdown") = ~stream

\* A sample is queued only between MEStreamStarted and the next stream event:
\* never after MEStreamPaused, MEStreamStopped or the queue's shutdown.
SamplesOnlyWhileStarted ==
  [][cap = "queue" /\ cap' = "loop" => told = "started" /\ told' = "started"]_vars

\* Stop and Shutdown, which join the capture thread with m_mutex held, return.
CallsReturn == \A p \in Callers : (at[p] # "idle") ~> (at[p] = "idle")
=============================================================================
