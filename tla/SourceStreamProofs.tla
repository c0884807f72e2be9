--------------------------- MODULE SourceStreamProofs --------------------------
(***************************************************************************)
(* Proofs about SourceStream, for any samples the allocator can have: the  *)
(* calls of the filter, the worker thread and the camera stay in step, and *)
(* what the pin does with its samples implements SampleAllocator.          *)
(***************************************************************************)
EXTENDS SourceStream, FiniteSetTheorems, TLAPS

Samples == INSTANCE SampleAllocatorProofs WITH Threads <- {Thread}

-----------------------------------------------------------------------------
(* The invariant                                                           *)

FlagsOK ==
  handle \in BOOLEAN /\ send \in BOOLEAN /\ complete \in BOOLEAN /\ failed \in BOOLEAN

\* Where the call is says what it is and whether the filter was stopped.
OpInv ==
  /\ filter \in {"Stopped", "Paused", "Running"}
  /\ op \in {"none", "Pause", "Run", "Stop"}
  /\ at \in Commands \cup {"idle", "return", "commit", "create", "decommit", "await", "close"}
  /\ param \in Commands
  /\ at = "idle" <=> op = "none"
  /\ \/ at \in {"commit", "create", "INIT", "PAUSE"}
     \/ at = "await" /\ param \in {"INIT", "PAUSE"}
     => op \in {"Pause", "Run"} /\ filter = "Stopped"
  /\ \/ at \in {"decommit", "STOP", "EXIT", "close"}
     \/ at = "await" /\ param \in {"STOP", "EXIT"}
     => op = "Stop" /\ filter # "Stopped"

\* The command is pending until the worker replies, and then the answer is on
\* its way until the call takes it.
Pending == send /\ ~complete /\ replying = "no"
Answered ==
  \/ send /\ ~complete /\ replying = "reset"
  \/ ~send /\ ~complete /\ replying = "signal"
  \/ ~send /\ complete /\ replying = "no"

MailInv ==
  IF at = "await" THEN Pending \/ Answered ELSE ~send /\ ~complete /\ replying = "no"

\* Where the thread is when the call is where it is.
Playing == {"command", "check", "buffer", "fill", "deliver"}
Down == \/ worker = "none" /\ ~handle
        \/ worker = "ended" /\ handle
Up == worker \in Playing /\ handle

AwaitInv ==
  /\ handle
  /\ Pending =>
       /\ param = "INIT" => worker \in {"begin", "create"}
       /\ param \in {"PAUSE", "EXIT"} => worker = "command"
       /\ param = "STOP" => worker \in Playing
  /\ Answered =>
       /\ param = "INIT" => worker = IF failed THEN "ended" ELSE "command"
       /\ param = "PAUSE" => ~failed /\ worker \in Playing
       /\ param = "STOP" => ~failed /\ worker = "command"
       /\ param = "EXIT" => ~failed /\ worker \in {"destroy", "ended"}

ThreadInv ==
  /\ at \in {"commit", "create"} => Down
  /\ at = "idle" => IF filter = "Stopped" THEN Down ELSE Up
  /\ at = "return" => IF op = "Stop" THEN Down ELSE Up
  /\ at \in {"decommit", "STOP"} => Up
  /\ at = "INIT" => handle /\ worker = "begin"
  /\ at \in {"PAUSE", "EXIT"} => handle /\ worker = "command"
  /\ at = "close" => handle /\ worker \in {"destroy", "ended"}
  /\ at = "await" => AwaitInv

CameraInv ==
  /\ camera \in {"absent", "off", "on"}
  /\ camera = "on" => worker \in Playing \cup {"destroy"}
  /\ camera = "off" => worker \notin Playing \cup {"destroy"}

ControlInv == FlagsOK /\ OpInv /\ MailInv /\ ThreadInv /\ CameraInv

\* The thread holds a sample from GetDeliveryBuffer to the end of Deliver, and
\* sleeps only in GetDeliveryBuffer.
SampleInv ==
  /\ IF worker \in {"fill", "deliver"} THEN \E b \in Buffers : held = {b} ELSE held = {}
  /\ held \cap kept = {} /\ held \cup kept = pool \ free
  /\ asleep # {} => worker = "buffer"

IInv == ControlInv /\ SampleInv /\ Samples!IInv

-----------------------------------------------------------------------------
(* The control                                                             *)

\* The initial state of the control.
LEMMA InitControl == Init => ControlInv
<1> SUFFICES ASSUME Init PROVE ControlInv
  OBVIOUS
<1>1. FlagsOK
  BY Zenon DEF Init, FlagsOK
<1> QED
  BY <1>1 DEF Init, ControlInv, OpInv, MailInv, ThreadInv, CameraInv, Down, Playing, Commands

\* The flags keep their type.
LEMMA FlagsStep ==
  ASSUME FlagsOK, [Next]_vars
  PROVE  FlagsOK'
  BY Zenon
     DEF FlagsOK, Next, vars, Enter, Call, Return, Commit, CreateThread, ActiveFails,
         Decommit, Send, Await, Close, Worker, Loop, FillBuffer, FirstRequest, OnThreadCreate,
         OnThreadCreateFails, Request, OnThreadDestroy, CheckRequest, GetDeliveryBuffer,
         Deliver, Reply, Go, Answer, Graph, Release, BreakConnect, AgreeOnBuffers, callVars,
         mailVars

\* What the steps of the call keep of the control.
LEMMA CallStep ==
  ASSUME ControlInv, Enter \/ Call
  PROVE  (OpInv /\ MailInv /\ ThreadInv /\ CameraInv)'
<1> USE DEF ControlInv, FlagsOK, OpInv, MailInv, ThreadInv, CameraInv, Down, Up, AwaitInv,
   Pending, Answered, Playing, Commands, callVars, mailVars
<1>1. CASE Enter
  BY <1>1 DEF Enter
<1>2. CASE Return
  BY <1>2 DEF Return
<1>3. CASE Commit
  BY <1>3 DEF Commit
<1>4. CASE CreateThread
  BY <1>4 DEF CreateThread
<1>5. CASE ActiveFails
  BY <1>5 DEF ActiveFails, ReturnError
<1>6. CASE Decommit
  BY <1>6 DEF Decommit
<1>7. CASE Send
  BY <1>7 DEF Send
<1>8. CASE Await
  BY <1>8 DEF Await, Continue, ReturnError
<1>9. CASE Close
  BY <1>9 DEF Close
<1> QED
  BY <1>1, <1>2, <1>3, <1>4, <1>5, <1>6, <1>7, <1>8, <1>9 DEF Call

\* What the steps of the worker keep of the control.
LEMMA WorkerStep ==
  ASSUME ControlInv, Worker
  PROVE  (OpInv /\ MailInv /\ ThreadInv /\ CameraInv)'
<1> USE DEF ControlInv, FlagsOK, OpInv, MailInv, ThreadInv, CameraInv, Down, Up, AwaitInv,
   Pending, Answered, Playing, Commands, callVars, mailVars
<1>1. CASE FirstRequest
  BY <1>1 DEF FirstRequest, Go, Answer
<1>2. CASE OnThreadCreate
  BY <1>2 DEF OnThreadCreate, Go, Answer
<1>3. CASE OnThreadCreateFails
  BY <1>3 DEF OnThreadCreateFails, Go, Answer
<1>4. CASE Request
  BY <1>4 DEF Request, Go, Answer
<1>5. CASE OnThreadDestroy
  BY <1>5 DEF OnThreadDestroy, Go
<1>6. CASE CheckRequest
  BY <1>6 DEF CheckRequest, Go, Answer
<1>7. CASE GetDeliveryBuffer
  BY <1>7 DEF GetDeliveryBuffer, Go
<1>8. CASE FillBuffer
  BY <1>8 DEF FillBuffer, Go
<1>9. CASE Deliver
  BY <1>9 DEF Deliver, Go
<1>10. CASE Reply
  BY <1>10 DEF Reply
<1> QED
  BY <1>1, <1>2, <1>3, <1>4, <1>5, <1>6, <1>7, <1>8, <1>9, <1>10
     DEF Worker, Loop

\* ControlInv is inductive.
LEMMA ControlStep ==
  ASSUME ControlInv, [Next]_vars
  PROVE  ControlInv'
<1>1. FlagsOK'
  BY FlagsStep DEF ControlInv
<1>2. CASE Enter \/ Call
  BY <1>1, <1>2, CallStep DEF ControlInv
<1>3. CASE Worker
  BY <1>1, <1>3, WorkerStep DEF ControlInv
<1>4. CASE Graph \/ UNCHANGED vars
  <2>1. UNCHANGED <<callVars, mailVars, worker, replying, camera>>
    BY Zenon, <1>4 DEF Graph, Release, BreakConnect, AgreeOnBuffers, vars, callVars, mailVars
  <2> QED
    BY <2>1 DEF ControlInv, FlagsOK, OpInv, MailInv, ThreadInv, CameraInv, Down, Up, AwaitInv,
       Pending, Answered, Playing, callVars, mailVars
<1> QED
  BY <1>2, <1>3, <1>4 DEF Next

-----------------------------------------------------------------------------
(* The samples                                                             *)

\* The initial state of the samples.
LEMMA InitSamples == Init => SampleInv /\ Samples!Init
<1> SUFFICES ASSUME Init PROVE SampleInv /\ Samples!Init
  OBVIOUS
<1>1. Samples!Init
  BY DEF Init, Allocator!Init, Samples!Init
<1> QED
  BY <1>1 DEF Init, SampleInv, Samples!Init

\* The steps that leave the samples alone.
LEMMA OtherSteps ==
  ASSUME [Next]_vars, ~Commit, ~Decommit, ~BreakConnect, ~AgreeOnBuffers,
         ~GetDeliveryBuffer, ~Deliver, ~Release
  PROVE  UNCHANGED bufferVars
  BY Zenon
     DEF Next, vars, Enter, Call, Return, CreateThread, ActiveFails, Send, Await, Close,
         Worker, Loop, FillBuffer, FirstRequest, OnThreadCreate, OnThreadCreateFails, Request,
         OnThreadDestroy, CheckRequest, Reply, Graph, bufferVars, allocVars

\* Every step of the pin is a step of the allocator, or none.
LEMMA AllocatorStep ==
  ASSUME ControlInv, SampleInv, Samples!TypeOK, [Next]_vars
  PROVE  [Samples!Next]_(Samples!avars)
<1> USE DEF allocVars, Samples!avars
<1>1. CASE Commit
  <2>1. CASE committed
    BY <1>1, <2>1 DEF Commit
  <2>2. CASE ~committed
    <3>1. Samples!Commit
      BY <1>1, <2>2 DEF Commit, Allocator!Commit, Samples!Commit, Allocator!sleepVars,
         Samples!sleepVars
    <3> QED
      BY <3>1 DEF Samples!Next
  <2> QED
    BY <2>1, <2>2
<1>2. CASE Decommit \/ BreakConnect
  <2>1. CASE UNCHANGED allocVars
    BY <2>1
  <2>2. CASE Allocator!Decommit
    <3>1. Samples!Decommit
      BY <2>2 DEF Allocator!Decommit, Samples!Decommit, Allocator!NotifySample,
         Samples!NotifySample
    <3> QED
      BY <3>1 DEF Samples!Next
  <2> QED
    BY <1>2, <2>1, <2>2 DEF Decommit, BreakConnect
<1>3. CASE AgreeOnBuffers
  <2>1. Samples!SetProperties
    BY <1>3 DEF AgreeOnBuffers, Allocator!SetProperties, Samples!SetProperties,
       Allocator!sleepVars, Samples!sleepVars
  <2> QED
    BY <2>1 DEF Samples!Next
<1>4. CASE GetDeliveryBuffer
  <2>1. CASE UNCHANGED allocVars
    BY <2>1
  <2>2. ASSUME NEW b \in Buffers, Allocator!TakeBuffer(Thread, b)
        PROVE  Samples!Next
    <3>1. Samples!TakeBuffer(Thread, b)
      BY <2>2 DEF Allocator!TakeBuffer, Samples!TakeBuffer, Allocator!sleepVars,
         Samples!sleepVars
    <3> QED
      BY <3>1 DEF Samples!Next
  <2>3. CASE Allocator!Sleep(Thread) \/ Allocator!WakeUp(Thread)
    <3>1. Samples!Sleep(Thread) \/ Samples!WakeUp(Thread)
      BY <2>3 DEF Allocator!Sleep, Samples!Sleep, Allocator!WakeUp, Samples!WakeUp
    <3> QED
      BY <3>1 DEF Samples!Next
  <2> QED
    BY <1>4, <2>1, <2>2, <2>3 DEF GetDeliveryBuffer, bufferVars
<1>5. CASE Deliver \/ Release
  <2>1. CASE UNCHANGED allocVars
    BY <2>1
  <2>2. ASSUME NEW b \in held \cup kept, Allocator!ReleaseBuffer(b)
        PROVE  Samples!Next
    <3>1. b \in Buffers
      BY DEF SampleInv, Samples!TypeOK
    <3>2. Samples!ReleaseBuffer(b)
      BY <2>2 DEF Allocator!ReleaseBuffer, Samples!ReleaseBuffer, Allocator!NotifySample,
         Samples!NotifySample
    <3> QED
      BY <3>1, <3>2 DEF Samples!Next
  <2> QED
    BY <1>5, <2>1, <2>2 DEF Deliver, PassOn, Release
<1>6. CASE UNCHANGED bufferVars
  BY <1>6 DEF bufferVars
<1> QED
  BY <1>1, <1>2, <1>3, <1>4, <1>5, <1>6, OtherSteps

\* Where the samples are, and where the thread may sleep.
LEMMA SampleStep ==
  ASSUME ControlInv, SampleInv, Samples!IInv, [Next]_vars
  PROVE  SampleInv'
<1> USE DEF SampleInv, Samples!IInv, Samples!TypeOK
<1>1. CASE Commit
  <2>1. worker' = worker /\ held' = held /\ kept' = kept /\ asleep' = asleep
    BY <1>1 DEF Commit, Allocator!Commit, Allocator!sleepVars, allocVars
  <2>2. pool' \ free' = pool \ free
    BY <1>1 DEF Commit, Allocator!Commit, Samples!SamplesOutlivePin, allocVars
  <2> QED
    BY <2>1, <2>2
<1>2. CASE Decommit \/ BreakConnect \/ AgreeOnBuffers
  BY <1>2 DEF Decommit, BreakConnect, AgreeOnBuffers, Allocator!Decommit,
     Allocator!SetProperties, Allocator!sleepVars, allocVars
<1>3. CASE GetDeliveryBuffer
  <2>1. CASE UNCHANGED bufferVars
    BY <1>3, <2>1
       DEF GetDeliveryBuffer, Go, bufferVars, allocVars, Allocator!TakeBuffer, Allocator!Sleep,
           Allocator!WakeUp
  <2>2. ASSUME NEW b \in Buffers, Go("buffer", "fill"), held' = {b},
               Allocator!TakeBuffer(Thread, b), UNCHANGED kept
        PROVE  SampleInv'
    BY <2>2 DEF Go, Allocator!TakeBuffer, Allocator!sleepVars
  <2>3. ASSUME Go("buffer", "buffer"), UNCHANGED <<held, kept>>,
               Allocator!Sleep(Thread) \/ Allocator!WakeUp(Thread)
        PROVE  SampleInv'
    BY <2>3 DEF Go, Allocator!Sleep, Allocator!WakeUp
  <2> QED
    BY <1>3, <2>1, <2>2, <2>3 DEF GetDeliveryBuffer
<1>4. CASE Deliver
  <2>1. PICK b \in Buffers : held = {b}
    BY <1>4 DEF Deliver, Go
  <2>2. CASE UNCHANGED kept /\ Allocator!ReleaseBuffer(b)
    BY <1>4, <2>1, <2>2 DEF Deliver, Go, PassOn, Allocator!ReleaseBuffer
  <2>3. CASE kept' = kept \cup held /\ UNCHANGED allocVars
    BY <1>4, <2>1, <2>3 DEF Deliver, Go, PassOn, allocVars
  <2> QED
    BY <1>4, <2>1, <2>2, <2>3 DEF Deliver, PassOn
<1>5. CASE Release
  BY <1>5 DEF Release, Allocator!ReleaseBuffer
<1>6. CASE FillBuffer
  BY <1>6 DEF FillBuffer, Go, bufferVars, allocVars
<1>7. ASSUME [Next]_vars, ~Commit, ~Decommit, ~BreakConnect, ~AgreeOnBuffers,
             ~GetDeliveryBuffer, ~Deliver, ~Release, ~FillBuffer
      PROVE  SampleInv'
  <2>1. UNCHANGED bufferVars
    BY <1>7, OtherSteps
  <2>2. worker \notin {"fill", "deliver", "buffer"} \/ worker' = worker
    BY <1>7
       DEF Next, vars, Enter, Call, Return, CreateThread, ActiveFails, Send, Await, Close,
           Worker, Loop, FirstRequest, OnThreadCreate, OnThreadCreateFails, Request,
           OnThreadDestroy, CheckRequest, Reply, Graph, Go, Answer, ControlInv, ThreadInv,
           Down
  <2>3. worker' \notin {"fill", "deliver"} \/ worker' = worker
    BY <1>7
       DEF Next, vars, Enter, Call, Return, CreateThread, ActiveFails, Send, Await, Close,
           Worker, Loop, FirstRequest, OnThreadCreate, OnThreadCreateFails, Request,
           OnThreadDestroy, CheckRequest, Reply, Graph, Go, Answer
  <2> QED
    BY <2>1, <2>2, <2>3 DEF bufferVars, allocVars
<1> QED
  BY <1>1, <1>2, <1>3, <1>4, <1>5, <1>6, <1>7

\* IInv is inductive.
LEMMA NextIInv == IInv /\ [Next]_vars => IInv'
<1> SUFFICES ASSUME IInv, [Next]_vars PROVE IInv'
  OBVIOUS
<1>1. ControlInv'
  BY ControlStep DEF IInv
<1>2. SampleInv'
  BY SampleStep DEF IInv
<1>3. Samples!IInv'
  <2>1. Samples!IsFiniteSet({Thread})
    BY Samples!FS_Singleton
  <2>2. [Samples!Next]_(Samples!avars)
    BY AllocatorStep DEF IInv, Samples!IInv
  <2> QED
    BY <2>1, <2>2, Samples!NextIInv DEF IInv
<1> QED
  BY <1>1, <1>2, <1>3 DEF IInv

\* IInv holds in every reachable state.
LEMMA SpecIInv == Spec => []IInv
<1>1. Init => IInv
  BY InitControl, InitSamples, Samples!InitIInv DEF IInv
<1> QED
  BY <1>1, NextIInv, PTL DEF Spec

-----------------------------------------------------------------------------
(* The theorems                                                            *)

\* Types; no sample of the allocator is lost, whatever the renderer keeps.
THEOREM TypeCorrect == Spec => []TypeOK
<1>1. IInv => TypeOK
  <2> SUFFICES ASSUME IInv PROVE TypeOK
    OBVIOUS
  <2>1. Cardinality(held) = IF worker \in {"fill", "deliver"} THEN 1 ELSE 0
    BY FS_EmptySet, FS_Singleton DEF IInv, SampleInv
  <2>2. Allocator!TypeOK
    BY DEF IInv, Samples!IInv, Samples!TypeOK, Allocator!TypeOK
  <2>3. /\ {handle, send, complete, failed} \subseteq BOOLEAN
        /\ replying \in {"no", "reset", "signal"}
    <3>1. {handle, send, complete, failed} \subseteq BOOLEAN
      BY Zenon DEF IInv, ControlInv, FlagsOK
    <3>2. replying \in {"no", "reset", "signal"}
      BY DEF IInv, ControlInv, MailInv, Pending, Answered
    <3> QED
      BY <3>1, <3>2
  <2>4. worker \in {"none", "begin", "create", "command", "check", "buffer", "fill", "deliver",
                    "destroy", "ended"}
    BY DEF IInv, ControlInv, OpInv, MailInv, ThreadInv, AwaitInv, Up, Down, Playing, Commands
  <2> QED
    BY <2>1, <2>2, <2>3, <2>4 DEF IInv, ControlInv, OpInv, CameraInv, SampleInv, TypeOK
<1> QED
  BY <1>1, SpecIInv, PTL

\* When CallWorker returns, the worker has taken the command it returns for.
THEOREM CommandsAreObeyed == Spec => []CommandsObeyed
<1>1. IInv => CommandsObeyed
  BY DEF IInv, ControlInv, ThreadInv, Up, Playing, CommandsObeyed
<1> QED
  BY <1>1, SpecIInv, PTL

\* Between calls the camera is on exactly while the filter is not stopped, and a
\* frame is asked only of a camera that was started and not yet stopped.
THEOREM CameraIsInStep == Spec => []CameraFollowsFilter
<1>1. IInv => CameraFollowsFilter
  BY DEF IInv, ControlInv, ThreadInv, CameraInv, Up, Down, Playing, CameraFollowsFilter
<1> QED
  BY <1>1, SpecIInv, PTL

\* The pin uses the allocator as the allocator is meant to be used ...
THEOREM PinImplementsAllocator == Spec => ImplementsAllocator
<1>1. Init => Allocator!Init
  BY DEF Init
<1>2. IInv /\ [Next]_vars => [Allocator!Next]_(Allocator!avars)
  <2> SUFFICES ASSUME IInv, [Next]_vars PROVE [Allocator!Next]_(Allocator!avars)
    OBVIOUS
  <2>1. [Samples!Next]_(Samples!avars)
    BY AllocatorStep DEF IInv, Samples!IInv
  <2>2. CASE UNCHANGED Samples!avars
    BY <2>2 DEF Samples!avars, Allocator!avars
  <2>3. CASE Samples!Next
    BY <2>3
       DEF Samples!Next, Allocator!Next, Samples!SetProperties, Allocator!SetProperties,
           Samples!Commit, Allocator!Commit, Samples!Decommit, Allocator!Decommit,
           Samples!Sleep, Allocator!Sleep, Samples!WakeUp, Allocator!WakeUp,
           Samples!TakeBuffer, Allocator!TakeBuffer, Samples!ReleaseBuffer,
           Allocator!ReleaseBuffer, Samples!NotifySample, Allocator!NotifySample,
           Samples!sleepVars, Allocator!sleepVars
  <2> QED
    BY <2>1, <2>2, <2>3
<1> QED
  BY <1>1, <1>2, SpecIInv, PTL DEF Spec, ImplementsAllocator, Allocator!Spec

\* ... so its thread is not left asleep ...
THEOREM WorkerIsWoken == Spec => []NoLostWakeup
<1>1. IInv => NoLostWakeup
  <2> SUFFICES ASSUME IInv PROVE NoLostWakeup
    OBVIOUS
  <2>1. Samples!IsFiniteSet({Thread})
    BY Samples!FS_Singleton
  <2>2. Samples!NoLostWakeup
    BY <2>1, Samples!WakeupFollows DEF IInv
  <2>3. Samples!Cardinality(asleep) = Allocator!Cardinality(asleep)
    BY Zenon DEF Samples!Cardinality, Allocator!Cardinality
  <2> QED
    BY <2>2, <2>3
       DEF Samples!NoLostWakeup, Allocator!NoLostWakeup, IInv, SampleInv, NoLostWakeup
<1> QED
  BY <1>1, SpecIInv, PTL

\* ... and no sample the renderer has is freed or allocated anew.
THEOREM SamplesAreSafe == Spec => []SamplesOutlivePin
<1>1. IInv => SamplesOutlivePin
  BY DEF IInv, Samples!IInv, Samples!SamplesOutlivePin, Allocator!SamplesOutlivePin,
     SamplesOutlivePin
<1> QED
  BY <1>1, SpecIInv, PTL
=============================================================================
