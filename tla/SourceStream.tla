------------------------------ MODULE SourceStream -----------------------------
(***************************************************************************)
(* The streaming thread of a DirectShow pin: Pause, Run and Stop of the    *)
(* filter, one at a time under its state lock, and the worker thread they  *)
(* start, command and end (CSourceStream and CAMThread of the base         *)
(* classes), with the hooks of PS3EyePushPin, which owns the camera.       *)
(* PS3EyeVirtualPin has no hooks: it is the pin without a camera.          *)
(*                                                                         *)
(* The pin is connected; between calls, while the filter is stopped, it    *)
(* may be disconnected and connected again, which decommits its allocator  *)
(* and agrees on the buffers anew.  The filter downstream keeps a sample   *)
(* for as long as it likes.                                                *)
(***************************************************************************)
EXTENDS Naturals, FiniteSets

CONSTANTS
  Buffers,  \* the samples the allocator can have
  Thread    \* the worker, the one caller of GetBuffer

ASSUME BuffersAssumption == Buffers # {}

VARIABLES
  filter,     \* m_State
  op, at,     \* the call that holds the state lock, and where it is
  handle,     \* m_hThread is set
  send,       \* m_EventSend (stays set until it is reset)
  param,      \* m_dwParam
  complete,   \* m_EventComplete (a wait resets it)
  failed,     \* m_dwReturnVal is an error
  worker,     \* where the thread is
  replying,   \* where the thread is in Reply
  camera,     \* "absent", or the camera is "off" or "on"
  held,       \* the sample the thread has, if any
  kept,       \* the samples downstream
  committed, decommitting, agreed, changed, pool, free, waiting, semaphore, asleep, self

Allocator == INSTANCE SampleAllocator WITH Threads <- {Thread}

callVars == <<filter, op, at, handle>>
mailVars == <<send, param, complete, failed>>
allocVars == <<committed, decommitting, agreed, changed, pool, free, waiting, semaphore,
               asleep, self>>
bufferVars == <<held, kept, allocVars>>
vars == <<filter, op, at, handle, send, param, complete, failed, worker, replying, camera,
          held, kept, committed, decommitting, agreed, changed, pool, free, waiting,
          semaphore, asleep, self>>

Commands == {"INIT", "PAUSE", "STOP", "EXIT"}

Init ==
  /\ filter = "Stopped" /\ op = "none" /\ at = "idle" /\ handle = FALSE
  /\ send = FALSE /\ param = "INIT" /\ complete = FALSE /\ failed = FALSE
  /\ worker = "none" /\ replying = "no" /\ camera \in {"absent", "off"}
  /\ held = {} /\ kept = {}
  /\ Allocator!Init /\ agreed # {}

-----------------------------------------------------------------------------
(* CBaseFilter::Pause, Run and Stop: take the lock; only Stopped has a      *)
(* thread to start and only the others have one to end.                    *)

Enter ==
  /\ at = "idle" /\ op' \in {"Pause", "Run", "Stop"}
  /\ at' = CASE op' # "Stop" /\ filter = "Stopped" -> "commit"
             [] op' = "Stop" /\ filter # "Stopped" -> "decommit"
             [] OTHER -> "return"
  /\ UNCHANGED <<filter, handle, mailVars, worker, replying, camera, bufferVars>>

\* Pause or Run returns an error: m_State stays as it is
ReturnError == op' = "none" /\ at' = "idle" /\ UNCHANGED filter

Return ==
  /\ at = "return"
  /\ filter' = CASE op = "Pause" -> "Paused"
                 [] op = "Run" -> "Running"
                 [] op = "Stop" -> "Stopped"
  /\ op' = "none" /\ at' = "idle"
  /\ UNCHANGED <<handle, mailVars, worker, replying, camera, bufferVars>>

\* Active: the allocator ...
Commit ==
  /\ at = "commit" /\ at' = "create"
  /\ IF committed THEN UNCHANGED allocVars ELSE Allocator!Commit
  /\ UNCHANGED <<filter, op, handle, mailVars, worker, replying, camera, held, kept>>

\* ... and the thread, unless m_hThread is set
CreateThread ==
  /\ at = "create" /\ ~handle
  /\ handle' = TRUE /\ worker' = "begin"
  /\ at' = "INIT"
  /\ UNCHANGED <<filter, op, mailVars, replying, camera, bufferVars>>

\* No memory for the buffers, no thread, or m_hThread is set.
ActiveFails ==
  /\ at \in {"commit", "create"}
  /\ ReturnError
  /\ UNCHANGED <<handle, mailVars, worker, replying, camera, bufferVars>>

\* Mutant of Decommit: the thread is stopped with the allocator committed.
StopCommitted ==
  /\ at = "decommit" /\ at' = IF handle THEN "STOP" ELSE "return"
  /\ UNCHANGED <<filter, op, handle, mailVars, worker, replying, camera, bufferVars>>

\* Inactive: the allocator first, then the thread, if there is one
Decommit ==
  /\ at = "decommit" /\ at' = IF handle THEN "STOP" ELSE "return"
  /\ IF committed \/ decommitting THEN Allocator!Decommit ELSE UNCHANGED allocVars
  /\ UNCHANGED <<filter, op, handle, mailVars, worker, replying, camera, held, kept>>

\* CallWorker: leave the command and wake the thread ...
Send ==
  /\ at \in Commands
  /\ param' = at /\ send' = TRUE /\ at' = "await"
  /\ UNCHANGED <<filter, op, handle, complete, failed, worker, replying, camera, bufferVars>>

\* What Active and Inactive do after the answer to the command in `param'
Continue ==
  CASE param = "INIT" /\ failed -> ReturnError
    [] param = "INIT" /\ ~failed -> at' = "PAUSE" /\ UNCHANGED <<filter, op>>
    [] param = "STOP" /\ ~failed -> at' = "EXIT" /\ UNCHANGED <<filter, op>>
    [] param = "EXIT" /\ ~failed -> at' = "close" /\ UNCHANGED <<filter, op>>
    [] OTHER -> at' = "return" /\ UNCHANGED <<filter, op>>

\* Mutant of Await: the wait leaves m_EventComplete set.
AwaitManualReset ==
  /\ at = "await" /\ complete
  /\ Continue
  /\ UNCHANGED <<handle, mailVars, worker, replying, camera, bufferVars>>

\* ... and wait for its answer
Await ==
  /\ at = "await" /\ complete
  /\ complete' = FALSE
  /\ Continue
  /\ UNCHANGED <<handle, send, param, failed, worker, replying, camera, bufferVars>>

\* Close: the end of the thread
Close ==
  /\ at = "close" /\ worker = "ended" /\ replying = "no"
  /\ handle' = FALSE /\ worker' = "none"
  /\ at' = "return"
  /\ UNCHANGED <<filter, op, mailVars, replying, camera, bufferVars>>

Call ==
  \/ Return \/ Commit \/ CreateThread \/ ActiveFails \/ Decommit \/ Send \/ Await \/ Close

-----------------------------------------------------------------------------
(* CSourceStream::ThreadProc                                               *)

Go(from, to) == worker = from /\ replying = "no" /\ worker' = to

\* Reply(hr), and go on from `to'
Answer(from, to, hr) ==
  /\ Go(from, to)
  /\ failed' = (hr = "error") /\ replying' = "reset"

\* the two events of a Reply, in this order
Reply ==
  /\ \/ /\ replying = "reset" /\ replying' = "signal"
        /\ send' = FALSE /\ UNCHANGED complete
     \/ /\ replying = "signal" /\ replying' = "no"
        /\ complete' = TRUE /\ UNCHANGED send
  /\ UNCHANGED <<callVars, param, failed, worker, camera, bufferVars>>

\* The first command must be CMD_INIT.
FirstRequest ==
  /\ send
  /\ IF param = "INIT"
     THEN Go("begin", "create") /\ UNCHANGED <<failed, replying>>
     ELSE Answer("begin", "begin", "error")
  /\ UNCHANGED <<callVars, send, param, complete, camera, bufferVars>>

\* OnThreadCreate: the camera is initialised and started; a pin without one
\* goes on
OnThreadCreate ==
  /\ Answer("create", "command", "ok")
  /\ camera' = IF camera = "off" THEN "on" ELSE camera
  /\ UNCHANGED <<callVars, send, param, complete, bufferVars>>

\* ... or it does not initialise: OnThreadDestroy, the answer, and the thread ends
OnThreadCreateFails ==
  /\ camera # "absent"
  /\ Answer("create", "ended", "error")
  /\ camera' = "off"
  /\ UNCHANGED <<callVars, send, param, complete, bufferVars>>

\* GetRequest: CMD_PAUSE enters the loop, CMD_EXIT leaves
Request ==
  /\ send
  /\ CASE param = "PAUSE" -> Answer("command", "check", "ok")
       [] param = "STOP" -> Answer("command", "command", "ok")
       [] param = "EXIT" -> Answer("command", "destroy", "ok")
       [] OTHER -> Answer("command", "command", "error")
  /\ UNCHANGED <<callVars, send, param, complete, camera, bufferVars>>

\* Mutant of OnThreadDestroy: the camera is left on.
DestroyForgotten ==
  /\ Go("destroy", "ended")
  /\ UNCHANGED <<callVars, mailVars, replying, camera, bufferVars>>

OnThreadDestroy ==
  /\ Go("destroy", "ended")
  /\ camera' = IF camera = "on" THEN "off" ELSE camera
  /\ UNCHANGED <<callVars, mailVars, replying, bufferVars>>

-----------------------------------------------------------------------------
(* DoBufferProcessingLoop                                                  *)

\* CheckRequest: CMD_STOP is left for GetRequest to answer
CheckRequest ==
  /\ CASE ~send -> Go("check", "buffer") /\ UNCHANGED <<failed, replying>>
       [] send /\ param = "STOP" -> Go("check", "command") /\ UNCHANGED <<failed, replying>>
       [] send /\ param = "PAUSE" -> Answer("check", "check", "ok")
       [] OTHER -> Answer("check", "check", "error")
  /\ UNCHANGED <<callVars, send, param, complete, camera, bufferVars>>

\* GetDeliveryBuffer: a sample, or none as the allocator is not committed; in
\* between the thread may have to sleep
GetDeliveryBuffer ==
  \/ /\ Go("buffer", "fill")
     /\ \E b \in Buffers : held' = {b} /\ Allocator!TakeBuffer(Thread, b)
     /\ UNCHANGED <<callVars, mailVars, replying, camera, kept>>
  \/ /\ Go("buffer", "check")
     /\ ~committed /\ asleep = {}
     /\ UNCHANGED <<callVars, mailVars, replying, camera, bufferVars>>
  \/ /\ Go("buffer", "buffer")
     /\ Allocator!Sleep(Thread) \/ Allocator!WakeUp(Thread)
     /\ UNCHANGED <<callVars, mailVars, replying, camera, held, kept>>

\* FillBuffer: S_OK, with the camera's next frame or without
FillBuffer ==
  /\ Go("fill", "deliver")
  /\ UNCHANGED <<callVars, mailVars, replying, camera, bufferVars>>

\* The thread gives up its sample: free again, or downstream keeps it.
PassOn ==
  /\ held' = {}
  /\ \/ UNCHANGED kept /\ \E b \in held : Allocator!ReleaseBuffer(b)
     \/ kept' = kept \cup held /\ UNCHANGED allocVars

\* Mutant of Deliver: the sample is not released when it was refused.
DeliverLeaks ==
  /\ \/ Go("deliver", "check") /\ PassOn
     \/ Go("deliver", "command") /\ held' = {} /\ UNCHANGED <<kept, allocVars>>
  /\ UNCHANGED <<callVars, mailVars, replying, camera>>

\* Deliver and Release: an answer other than S_OK ends the loop
Deliver ==
  /\ Go("deliver", "check") \/ Go("deliver", "command")
  /\ PassOn
  /\ UNCHANGED <<callVars, mailVars, replying, camera>>

Loop ==
  \/ FirstRequest \/ OnThreadCreate \/ OnThreadCreateFails \/ Request \/ OnThreadDestroy
  \/ CheckRequest \/ GetDeliveryBuffer \/ Deliver \/ Reply

Worker == Loop \/ FillBuffer

-----------------------------------------------------------------------------
(* The filter downstream and the graph                                     *)

\* A sample comes back.
Release ==
  /\ \E b \in kept : kept' = kept \ {b} /\ Allocator!ReleaseBuffer(b)
  /\ UNCHANGED <<callVars, mailVars, worker, replying, camera, held>>

\* BreakConnect decommits the allocator, whatever state it was left in.
BreakConnect ==
  /\ at = "idle" /\ filter = "Stopped"
  /\ Allocator!Decommit
  /\ UNCHANGED <<callVars, mailVars, worker, replying, camera, held, kept>>

\* Mutant of AgreeOnBuffers: the samples are there before Commit.
AgreeAllocates ==
  /\ at = "idle" /\ filter = "Stopped"
  /\ ~committed /\ free = pool
  /\ agreed' \in SUBSET Buffers \ {{}} /\ pool' = agreed' /\ free' = agreed'
  /\ UNCHANGED <<committed, decommitting, changed, waiting, semaphore, asleep, self>>
  /\ UNCHANGED <<callVars, mailVars, worker, replying, camera, held, kept>>

\* DecideBufferSize on the same allocator, for another connection
AgreeOnBuffers ==
  /\ at = "idle" /\ filter = "Stopped"
  /\ Allocator!SetProperties
  /\ UNCHANGED <<callVars, mailVars, worker, replying, camera, held, kept>>

Graph == Release \/ BreakConnect \/ AgreeOnBuffers

Next == Enter \/ Call \/ Worker \/ Graph

Spec == Init /\ [][Next]_vars

\* The calling thread and the worker go on.  FillBuffer returns (the driver has
\* a frame, or the pin stops polling), and so does Deliver: the graph stops the
\* filters downstream first.  Release is not fair: a renderer that is paused
\* keeps its samples.
FairSpec == Spec /\ WF_vars(Call) /\ WF_vars(Worker)

-----------------------------------------------------------------------------
(* Properties                                                              *)

\* Types; the state lock is held exactly during a call; no sample is lost: the
\* thread holds one between GetDeliveryBuffer and Deliver, the others are free
\* or downstream.
TypeOK ==
  /\ filter \in {"Stopped", "Paused", "Running"}
  /\ op \in {"none", "Pause", "Run", "Stop"}
  /\ at \in Commands \cup {"idle", "return", "commit", "create", "decommit", "await", "close"}
  /\ (at = "idle") = (op = "none")
  /\ {handle, send, complete, failed} \subseteq BOOLEAN
  /\ param \in Commands
  /\ worker \in {"none", "begin", "create", "command", "check", "buffer", "fill", "deliver",
                 "destroy", "ended"}
  /\ replying \in {"no", "reset", "signal"}
  /\ camera \in {"absent", "off", "on"}
  /\ Allocator!TypeOK
  /\ Cardinality(held) = IF worker \in {"fill", "deliver"} THEN 1 ELSE 0
  /\ held \cap kept = {} /\ held \cup kept = pool \ free

\* When CallWorker returns, the worker has taken the command it returns for,
\* not an earlier one: it is ready to play after CMD_INIT, out of the loop
\* after CMD_STOP, on its way out after CMD_EXIT (wxutil.cpp:158-221).
CommandsObeyed ==
  /\ at \in {"PAUSE", "EXIT"} => worker = "command"
  /\ at = "close" => worker \in {"destroy", "ended"}
  /\ at = "return" /\ filter = "Stopped" /\ op # "Stop" =>
       worker \in {"check", "buffer", "fill", "deliver", "command"}

\* Between calls a stopped filter has no thread at work and its camera is off,
\* whether it was stopped or never came up; otherwise the camera is on.  In
\* between too, getFrame is called only on a camera that was started and not
\* yet stopped.
CameraFollowsFilter ==
  /\ at = "idle" =>
       IF filter = "Stopped" THEN worker \in {"none", "ended"} /\ camera # "on"
                             ELSE worker \notin {"none", "ended"} /\ camera # "off"
  /\ worker = "fill" => camera # "off"

\* A call of the filter returns, though the renderer keeps every buffer and
\* the thread waits for one ("we may be stuck waiting for our own allocator",
\* source.cpp:350-351), and though the thread may have ended by itself.
CallsReturn == (at # "idle") ~> (at = "idle")

\* The samples are handed out as the allocator is meant to be used: its steps
\* are those of SampleAllocator, with one thread that takes them.
ImplementsAllocator == Allocator!Spec

\* amfilter.h:1412-1425: the thread is not left asleep when a sample is free or
\* the allocator decommitted.
NoLostWakeup == Allocator!NoLostWakeup /\ (asleep # {} => worker = "buffer")

\* Samples the renderer still has when the filter is stopped, disconnected or
\* started again are not freed or allocated anew under it (amfilter.cpp:4899).
SamplesOutlivePin == Allocator!SamplesOutlivePin

\* ASSERT(!ThreadExists()) in Active (source.cpp:317).
NoThreadBeforeCreate == at = "create" => ~handle
=============================================================================
