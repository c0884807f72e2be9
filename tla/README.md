# PS3 Eye camera sharing: TLA+ models, checks and proofs

These modules describe how one PlayStation Eye camera is shared between applications on Windows.
A capture service takes frames from the camera and writes them into a named file mapping; virtual
cameras (a Media Foundation source and a DirectShow filter) read them from there. A second
DirectShow filter uses the camera directly. The modules are translated from the code under `src/`;
TLC checks them on small instances (`*.cfg`), and TLAPS proves the main safety results for every
value of the constants (`*Proofs.tla`).

`PROJECT.json` maps each definition to the lines it translates, and lists the hazards of the code at
their lines with the properties that cover them. In the comments of the modules, line references are
to the `.cpp` of the component, to `PS3EyeSharedMemory.h` (`h:n`), `PS3EyeCaptureService.cpp`
(`service.cpp:n`), `PS3EyePushPin.cpp` (`PushPin.cpp:n`), and to `source.cpp`, `wxutil.cpp` and
`amfilter.cpp/.h` in `DirectShowFilter/baseclasses`.

## The system

| part | state | operations | talks to |
|---|---|---|---|
| **Shared frame** `PS3EyeSharedMemory.h/.cpp` | one header (magic, server PID, frame number, client count) and one frame in a file mapping; a named mutex; two auto-reset events; per client the last number it saw | server: `Create`, `WriteFrame`, `WaitForClients`, `Close`; client: `Connect`, `WaitForFrame`, `ReadFrame`, `Disconnect` | every process that captures or shows the camera |
| **Capture service** `PS3EyeCaptureService.cpp` | `g_running`, `g_serviceStatus`, the camera, `cameraActive`, `noClientFrames` | `ServiceMain`/`CaptureLoop` on one thread, `ServiceCtrlHandler` on another | shared frame (server), camera driver, service manager |
| **Media source** `PS3EyeMediaSource.h/.cpp` | `m_state`, capture thread and its flag, client connection, stream with `m_isActive`/`m_isShutdown`, two mutexes, two event queues, a reference count | `CreateInstance`, `Start`, `Stop`, `Pause`, `Shutdown`, `Release`, the capture thread, sample delivery | shared frame (client that waits for the event), Media Foundation |
| **Activation object** `PS3EyeDeviceSource.cpp` | the source it has made, a reference count | `ActivateObject`, `ShutdownObject`, `DetachObject` | media source, Media Foundation |
| **Virtual filter** `PS3EyeVirtualFilter.h/.cpp` | client connection, running sample time | `FillBuffer`, media types, `DecideBufferSize` | shared frame (client that polls), filter graph |
| **Direct filter** `DirectShowFilter/PS3EyePushPin.cpp`, `PS3EyeSource.cpp` | the camera, the chosen format, a clock | worker thread hooks, `FillBuffer`, media types, `SetFormat` | camera driver, filter graph |
| **Base classes** `baseclasses/source.cpp`, `wxutil.*`, `amfilter.*`, `mtype.cpp`, as the two filters use them | filter state; thread handle, a command word and its answer with an event each; the allocator's free list; the connection of a pin | `Pause`, `Run`, `Stop`; the worker thread; `GetBuffer`, `ReleaseBuffer`, `Commit`, `Decommit`; `Connect`, `Disconnect` | both filters, the renderer, the graph |

What is hard about it, and what makes each part correct:

* **Several processes, one mapping.** The header is initialised and marked closed without the mutex,
  the count is changed by interlocked operations only, the copy happens under a mutex that may be
  timed out on or abandoned. Correct: reader and writer never overlap; a read returns one whole
  image, newer than the last one read; a published frame reaches a connected client; the count
  covers the connected clients.
* **Crash and restart.** Named objects outlive their creator while anybody has them open; the mutex of
  a dead owner is handed on as `WAIT_ABANDONED`; the count of a dead client stays, and a service that
  starts again clears the count under its clients.
* **On-demand camera.** The loop learns of clients from a count and an event that a client changes in
  two steps. Correct: a client that stays gets the camera, the camera goes off when nobody is
  connected, and it is not stopped while it is used.
* **Two threads of the service** share a status record and a flag. Correct: a stop request ends the
  service and the service manager is told so.
* **Media source.** Callers are serialised by one mutex, the capture thread takes another, and callers
  join the capture thread with the first one held. Correct: no deadlock, no use of client or
  stream behind the thread's back, no sample outside started, no overwritten `std::thread`.
* **Life of the sources.** The application, the activation object and `CreateInstance` share
  references, and the application starts and stops the sources meanwhile. Correct: every reference
  belongs to somebody, no dead source is handed out, and a source is counted as a client exactly
  while it is neither stopped nor shut down.
* **Streaming thread.** A caller and the worker exchange commands through two events of different
  kinds, while the worker may wait for a sample, be in the driver, or have ended. Correct: each call
  gets the answer to its own command and returns; the camera is on exactly while the filter is not
  stopped.
* **Samples.** A thread counts itself under a lock and sleeps outside it; a decommit may have to wait for
  the renderer. Correct: no lost wake-up, no sample freed under the renderer.
* **What an unwritten sample shows.** The virtual pin returns `S_OK` without having filled the sample.
  Correct: the picture never goes back.
* **Connection.** Two pins agree on a type by trying one after the other; an attempt can fail at six
  places; `SetFormat` changes the list of types and has the graph reconnect. Correct: failed attempts
  leave nothing behind, connected pins agree, and nobody waits for ever.

## Modules

| module | models |
|---|---|
| `FrameChannel` | abstract: a channel that holds the newest frame and hands each client whole frames with growing numbers |
| `ClientCounter` | abstract: what the capture process and its clients do to `clientCount` and to the client event |
| `SharedFrame` (`MCSharedFrame`: symmetry) | the shared frame in full; refines `FrameChannel` and `ClientCounter` |
| `CaptureService` | both threads of the service, the camera, the clients' side of the count; refines `ClientCounter` |
| `MediaSource` | source, stream and capture thread |
| `Activation` | activation object, creation, reference counts and end of the sources |
| `SampleAllocator` | abstract for the pin: the allocator with any number of threads that take samples |
| `SourceStream` | filter state, worker thread and its commands, camera hooks; refines `SampleAllocator` |
| `CameraPins` | `SourceStream` composed with `FrameChannel`: both pins, what they put into the samples |
| `PinConnection` (`MCPinConnection`: input pins for TLC) | connection of the pins, their media types, `SetFormat` |
| `SharedFrameProofs`, `CaptureServiceProofs`, `MediaSourceProofs`, `ActivationProofs`, `SampleAllocatorProofs`, `SourceStreamProofs`, `CameraPinsProofs`, `PinConnectionProofs` | see *Proofs* |

How they fit: `SharedFrame` implements `FrameChannel`, so `CameraPins` uses the channel for the virtual
pin's reads instead of the whole mapping. `SourceStream` implements `SampleAllocator`, so what is proved
of the allocator holds for the pin. `SharedFrame` and `CaptureService` both implement `ClientCounter`: the
clients that the service sees through the count and the event behave as those of the mapping do, and the
service does to both what its clients in `SharedFrame` meet. `Activation` says which sources are counted.

### SharedFrame

One process `Server` (started up to `MaxStarts` times, never twice at once) and any set of `Clients`.
`pc[p]` says between which two statements a process is. The steps are as small as another process can
tell apart:

* `Create` is `CreateObjects` (the four `Create*` calls; a new object is blank only if nobody else has it
  open), `ZeroHeader`, `FillHeader` (magic to serverPID), `ResetCount`; none takes the mutex.
* `WriteFrame` is `BeginWrite` or `DropFrame` (timeout, or `WAIT_ABANDONED`, after which the code returns
  `false` owning the mutex), `CopyLow`, `CopyHigh` (the `memcpy` in two halves), `Publish`.
* `WaitForClients` is `LookForClients` (nobody is counted; with a client it returns at once and changes nothing),
  then `TakeClientEvent` or `ClientTimeout`: clients connect and disconnect between the look and the wait.
* `Connect` is `OpenObjects`, `AcceptHeader` or `RejectHeader` (whose `Disconnect` lowers the count),
  `SignalConnect`, `CountIn`; `Disconnect` is `CountOut`, `CloseObjects`. `evtOpen` are the clients with `m_clientEvent` set: a
  `Connect` that finds no event goes on without.
* `ReadFrame` is `BeginRead` or `GiveUpRead`, `RefuseRead` or `PassCheck`, `ReadSize`, `ReadLow`, `ReadHigh`,
  `EndRead`. A client in `Pollers` calls it at any time (`PS3EyeVirtualPin`), the others after
  `WaitForFrame` (`PS3EyeMediaSource`).
* `Crash` ends a process anywhere, `EndThread` a client's thread that still owns the mutex.

An image is its capture number; `<<lo, hi>>` says which image each half of a buffer shows, so that a torn
frame is visible. `got` and `published` are history variables. A client has one thread.

Left out: two servers at once; torn reads *within* `FillHeader` (its stores are one step); timestamps;
`GetFrameInfo`; the width of the 64-bit frame number.

### CaptureService

`main` is where the `ServiceMain` thread is, `handler` the control handler. `ReportServiceStatus` is two
steps, filling the global record and passing it to the service manager, because both threads use the one
record. `asService` is FALSE for the process run by hand. `CaptureLoop` is `Create` ... `CloseMemory`. The
camera is `none`, `open` (a reference that does not stream) or `streaming`. The process may `Die` and is
started again (`StartAgain`, `MaxRestarts`); connected clients keep the mapping, and `Create` clears their
count (`lost` remembers that it happened). The clients appear through `Connect` and `Disconnect` only,
each in two steps; a client can connect while the process or another client has the objects open
(`Attached`), also when there is no process. `Create` is one step here, so no `Connect` falls into it and
none is rejected: `Clear` and `Reject` of `ClientCounter` are wider than this module. The driver is external:
a device may be plugged in or not, may fail to initialise, may stop streaming. `GetFrame` returns while the
camera streams. If the stream ended after the loop's look at it (service.cpp:99), it may still return a frame that
the driver had queued, or never return (`HeldByDriver`): the call has no timeout and does not look at `g_running`.

### MediaSource and Activation

In `MediaSource` a call of `Start`, `Stop`, `Pause` or `Shutdown` is a sequence of steps (`at`) under
`m_mutex`; the capture thread (`cap`) takes only the stream's mutex. `thread = "ended"` is a `std::thread`
that has returned and is not joined. Calls that change nothing have no step.

`Activation` has one activation object at a time, the sources it makes, and an application that adds and
drops references (up to `MaxReferences`), and starts, stops, shuts down and releases sources. `CreateInstance` is
`CreateSource` and then `StoreSource` or `InitializeFails`, so that the source with its one reference and
its place in the client count is visible in between. `refs` is a source's reference count, `held` the
application's part of it; `clients` are the sources connected to the shared memory, from `Initialize` to `Stop` or
`Shutdown` and again from `Start` on, and `capturing` those whose capture thread runs (`StartCaptureThread`,
`StopCaptureThread`). `stopped` and `ended` remember what the application did. `Start`, `Stop` and `Shutdown` are one
step each: what happens inside them is `MediaSource`. A `Start` that cannot connect fails and changes nothing;
`Pause` changes neither thread nor client. The capture thread's own `Connect` (`PS3EyeMediaSource.cpp:504-505`) has no
step here, as it is never reached: the client is disconnected only after the thread was joined, and
`ClientNotShared` of `MediaSource`, where the step exists, is the proof. The calls of one
activation object come one at a time, as Media Foundation makes them: the class has no lock, and with two
`ActivateObject` at once the source that is stored first is lost with its connection
(`PS3EyeDeviceSource.cpp:145`, a hazard without a property).

### SampleAllocator, SourceStream and CameraPins

`SampleAllocator` is `CBaseAllocator`/`CMemAllocator`: `pool` the samples allocated, `free` the list, and the
"lazy signalling" of `amfilter.h:1394-1426`: `waiting` (`m_lWaiting`), `semaphore`, and the threads `asleep`.
`self` is the reference that a committed allocator has to itself. `GetBuffer` is `TakeBuffer`, or `Sleep` and
`WakeUp`. The free list is a set: which sample comes next is left open. Allocation that fails for want of
memory is not modelled here (in `SourceStream` `ActiveFails` covers it).

In `SourceStream` `op` and `at` are the call of `CBaseFilter` that holds the state lock: `Commit`, `CreateThread`
and two commands for `Active`, `Decommit`, two commands and `Close` for `Inactive`. A command is `Send` and
`Await`; the worker's `Reply` is two steps, since resetting one event and setting the other in this order is
what makes the exchange work. `worker` is where `ThreadProc` and `DoBufferProcessingLoop` are. The camera is
`absent` (no device, or the virtual pin, which has no hooks), `off` or `on`. Between calls a stopped pin may be
disconnected and connected again (`BreakConnect`, `AgreeOnBuffers`). The renderer keeps samples as long as it
likes. `Close` clears the handle and waits in one step: nobody can look at the handle in between.
Of what `FillBuffer` may return only `S_OK` is here (source.cpp:481): both pins return nothing else for the samples of a
`CMemAllocator`, whose `GetPointer` does not fail, so the two paths that end the stream (:493-505) are not reached.

`CameraPins` adds, for each kind of pin, `DecideBufferSize` (one sample for the virtual pin, two or what was
asked for the direct one) and `FillBuffer`. The virtual pin connects, polls `MaxAttempts` times and gives up with
`S_OK`; `shows` is the image each sample holds, `stamped` whether `SetTime` was called, `drawn` the newest image
delivered. Every other step is a step of `SourceStream`. Values of time stamps are left out (`_startTime` is
set at `Pause`, and the running time of the virtual pin is never reset: both are about clocks only).

### PinConnection

`Connect` of `CBasePin` with `AgreeMediaType`, `TryMediaTypes` and `AttemptConnection`, and the part of
`CBaseOutputPin`: `turn` says whose types are tried (the one given, the input pin's, the pin's own) and `next`
which of them; `at` is where an attempt is (`try`, `check`, `receive`, `decide`), and each place has an action
for success and one for failure. `graph` is the graph's own lock, `lock` the pin's (`m_pLock`) from one step to
the next. `references` counts the pin's references to the input pin. The application calls `SetFormat` of
`PS3EyePushPin` at any time, in three steps: the checks, the store under the pin's lock, the graph's
`Reconnect`. The input pin is a `CBaseInputPin` that offers any sequence of types and accepts any set. A type is
its subtype, size and `AvgTimePerFrame`. `Reconnect` and the serialisation of the graph's calls are
the graph manager's and external.

## Runs

| run | instance | shows |
|---|---|---|
| `shared_chaos` | an event client and a poller, 2 starts, 2 images, 1 crash, timeouts, clients that connect during `Create` | types (with the recursion depth of the mutex), exclusion, whole frames until the server dies while it writes or is restarted, refinement of `ClientCounter` |
| `shared_steady` | the same clients, 1 start, 3 images, no crash, fairness | the count covers the clients, fresh reads, refinement of `FrameChannel`, frames arrive |
| `service` | two clients of which one may die, 2 idle frames, 1 camera fault, 1 restart, fairness | the camera stops only when unused; on-demand start and stop; a stop request is honoured, unless `getFrame` never returns, and reported; refinement of `ClientCounter` |
| `media_source` | two calling threads, fairness | types and mutexes, four safety properties, no sample after the stop, every call returns; no deadlock |
| `activation` | three sources, two references | references add up, a source is counted exactly while it is neither stopped nor shut down, and usable ones are handed out; no deadlock |
| `camera_pins` | both pins, two samples, two polls, two images, fairness | commands, camera, samples and wake-ups are right; refinement of `SampleAllocator`; the picture never goes back; frames are shown; every call returns; no deadlock |
| `pin_connection` | both pins, input pins that offer none, one or three types and accept one, two or many, fairness | failed attempts leave nothing, connected pins agree, `Connect` fails for a reason, the agreed type is usable, every call returns; no deadlock |

Runs that TLC refutes; each is a disagreement between the code and what it says of itself (details under
"findings" in `PROJECT.json`):

| run | what happens |
|---|---|
| `shared_crash_mutex` | after `WAIT_ABANDONED` the function returns `false` and keeps the mutex |
| `shared_two_waiters` | one of two waiting clients is woken per frame |
| `service_unplugged` | a camera that stopped streaming is never started again |
| `stream_camera_fails` | a camera that did not initialise leaves a thread handle: the pin can never be activated again |
| `other_format` | after `SetFormat` the pin still connects with another format, when the other pin offers one |

What the properties assume, and what happens without it:

* `CountCovers` has no `Connect` during `Create` (`ConnectDuringCreate = FALSE`): a client that connects
  between `magic` and `clientCount = 0` is lost from the count.
* `WholeFrames`, `FreshDelivery` and `ImplementsChannel` hold as long as it is `Calm`: the server was started once and
  did not die with an image copied in part or not yet numbered. Clients may die anywhere. A restarted `Create` zeroes the
  header under a reader that is past its checks, which then reads `dataOffset` 0 and copies the header as image.
* `StopsOnlyWhenUnused` and `OnDemandStart` are for clients that were not connected across a restart (`~lost`):
  the others are never counted again, and their `Disconnect` makes the count negative.
* `OnDemandStart` is for a camera that does not fail by itself; `service_unplugged` is the other case.
* `StopHonoured` excepts a loop that stays in `getFrame` for ever because the stream ended between the check of
  `isStreaming` (service.cpp:99) and the call (`:104`); without the exception TLC finds it violated there. Every other
  place of the loop, with or without a camera fault, is covered. `KeepsCapturing` leaves the same case out, so that its
  counterexample is the loop itself and not the driver.
* `OnDemandStop` is for clients that do not die: one that does stays counted, and the camera stays on.
* `CountedUnlessStopped` says nothing of the source that `CreateInstance` is still making: it is connected or not yet.
* `StoppedReported` is for a service whose loop ran (`mem = "closed"`): when `Create` fails, `ServiceMain` reports
  `SERVICE_STOPPED` while the handler is between filling the shared record and passing it on, and the last
  report can be `STOP_PENDING`.
* `NoStepBack` is about the virtual pin, whose `DecideBufferSize` asks for one sample. With two it fails: an
  unwritten sample would show the image before last.

### Bounds

`MaxStarts`, `MaxFrames`, `MaxCrashes`, `MaxDrift` (rejected connections), `MaxIdle`, `MaxFaults`, `MaxLeaks`,
`MaxRestarts` and `MaxReferences` bound counters in the guards of the actions that count.

* Two starts are one restart, which is what the header does not survive; two images are enough to mix them
  and three for a client to skip one; one crash leaves the mutex abandoned or a frame torn. One client of
  each kind contends with the other and with the server.
* `MaxIdle` is 30 in the code; 2 keeps the counting and its reset. One client that may die, one fault and one
  restart come together with a second client that behaves.
* Two callers contend for the mutex of the source while the capture thread runs; three sources are one that is
  kept, one that was shut down and is still referenced, and one being made.
* Two samples are the most the direct pin asks for by itself; one thread takes them. `maxAttempts` is 10 in the code;
  two polls are a first, a further and a failed one.
* The input pins of `MCPinConnection` refuse at the check of either side, offer types this pin does not advertise and
  accept only what it offers last, so that both turns and every rejection happen.

The theorems have none of these bounds except where they say so. Deadlock is not checked in the runs of
`SharedFrame` and `CaptureService`, where the bounds or the end of the service stop everything; it is in all others.

### Fairness

* `SharedFrame`: the writer and a reader inside a call go on (weak); taking the mutex is strongly fair, since the
  kernel queues its waiters; the service calls `WriteFrame` again and again. Nothing is assumed of connecting,
  disconnecting or crashing. `FramesArrive` is for lock sections shorter than the 100 ms timeout
  (`LockTimeouts = FALSE`) and one client per event (see `shared_two_waiters`).
* `CaptureService`: both threads go on; every wait of the loop has a timeout except `getFrame`, which is only assumed to
  return while the camera streams (`~HeldByDriver` in the fairness of the loop); a present device comes up when it is
  tried for ever (strong fairness of `InitCamera`); a client that began to connect or disconnect finishes.
  Clients need not connect, devices need not be plugged in, and the process need not be started again.
* `MediaSource`: the capture thread and a caller inside a call go on; both get a contended mutex in turn. No call
  need be made.
* `SourceStream`, `CameraPins`: the caller and the worker go on. `FillBuffer` of the direct pin returns (the driver
  has a frame); that the virtual pin's returns is shown. `Deliver` returns, because the graph stops a renderer
  before the source. A renderer need never give a sample back. Of the polls of the virtual pin not all fail for
  ever while there is a new frame (strong fairness of `PollHit`).
* `PinConnection`: the thread that has the graph's lock goes on; a thread that waits for a lock which is released again
  and again gets it (strong fairness of `StoreFormat` and `Reconnect`). No call need be made.

## Proofs

Each theorem is listed in `PROJECT.json` with the property it states. Every inductive invariant was checked with TLC
before it was proved.

* **Shared frame** (`SharedFrameProofs`), from `ProcsAssumption` (the server is no client, the clients are finitely many) and
  `BoundsAssumption` (bounds are natural numbers), for every set of clients.
  * `TypeCorrect`, `Exclusive`. `IInv` is `TypeOK` and `MutexInv`: who is inside a call owns
    the mutex, an abandoned mutex has no owner, and `depth` is 1 or 2 while it is owned, the second level being the
    one `WAIT_ABANDONED` left behind. Exclusion alone is not inductive, since `Release` frees the mutex only at
    depth 1. No restriction on crashes or restarts.
  * `FramesAreWhole`, `FrameImplementsChannel`, `ReadsAreFresh`, while it is `Calm`: any crashes of clients, and a server
    that is started once and does not die in `WriteFrame`. `OneRunIsCalm`: with one start and no crash it is `Calm` all
    the time, which is the instance `shared_steady` checks. Nothing but a restart mends a frame the server died in, so
    `Calm` never returns, and the invariant may be stated under it. `FrameInv` says what the two halves of the
    buffer hold at each point of `WriteFrame` and what a reader has copied so far; it needs exclusion. Every
    step is then a step of `FrameChannel` or a stutter.
  * `CountIsRight`, for one start and no `Connect` during `Create`: `clientCount` minus the number
    of connected clients is between 0 and `crashes`.
  * `FrameImplementsCounter`, with no restriction on starts, crashes, timeouts or connections during `Create`: each step is a
    step of `ClientCounter` or a stutter. It needs `HolderInv`: once `Create` has filled in the header it stays valid, so
    a client is rejected (and lowers the count) only while the server is not up; and who has the client event open is
    past the header.
* **Capture service** (`CaptureServiceProofs`), for any finite set of clients and any bounds, from `CaptureAssumption`.
  * `StopIsReported`: `ReportInv` follows the one status record that both threads fill and pass on. Until `running` is
    cleared no stop can come, and a handler that is done leaves nothing in the record or with the service manager that
    says `RUNNING`; from then on the thread of `ServiceMain` is the only one that reports, and `EndInv` says that after
    a loop that ran the next report is `STOPPED`.
  * `CameraIsNotForgotten`: `CameraInv` says at each place of the loop whether `cameraActive` holds, and that outside the
    loop there is no camera at all.
  * `StopsWhenUnused`: `QuietInv` bounds the idle count by the number of checks in a row that found nobody. It is not
    inductive alone, since it needs that a count of 0 means nobody is connected: `CountInv` says that `clientCount` exceeds the
    number of connected clients by 0 to `leaks` (the clients that died), as long as no restart cleared it under one.
  * `ServiceImplementsCounter`: with `MemInv` (the mapping is up exactly from `Create` to `Close`) each step of the service
    and of its clients is a step of `ClientCounter` or a stutter.
* **Media source** (`MediaSourceProofs`), for any number of callers, from `SourceAssumption`. Since one caller at most has
  the mutex (`LockInv`), the source is at one place of one call (`Where`, `What`), and `PartsInv` says for each place
  what the call has already done to flag, thread, client and stream; `ThreadInv` that a thread that is alive has a
  client and a stream. All five invariants and the action property `SamplesOnlyWhileStarted` follow.
* **Activation** (`ActivationProofs`), for any sources and references, from `ActivationAssumption`. `TypeOK` (references add
  up) is nearly inductive; `CallInv` and `ClientInv` add where a source can be in each state of `ActivateObject`, and that from
  the end of its creation on a source is connected, stopped or shut down, and only one of them. `SourcesAreCounted` and
  `ActivatedIsUsable` follow, with the application's `Start`, `Stop`, `Shutdown` and `Release` at any time.
* **Allocator** (`SampleAllocatorProofs`), for any samples and finitely many threads: `WakeupNotLost`, `SamplesAreSafe`. The
  invariant is that a thread is counted only while the allocator is committed and has nothing free, and that count and
  semaphore together are the number of threads asleep.
* **Streaming thread** (`SourceStreamProofs`), for any samples, from `BuffersAssumption`. `MailInv` says in which of four
  stages a command and its answer are, `ThreadInv` and `AwaitInv` where the worker can be for each place of the call,
  `CameraInv` follows the thread. `CommandsAreObeyed`, `CameraIsInStep` come from these. `SampleInv` says
  who has which sample; with it `PinImplementsAllocator` shows each step to be a step of `SampleAllocator` or a stutter, and
  `WorkerIsWoken`, `SamplesAreSafe` take the allocator's theorems over through the refinement.
* **The two pins** (`CameraPinsProofs`), for any samples, attempts and frames, from `PinsAssumption` and
  `BuffersAssumption`.
  `PinImplementsStream` shows `PinSpec => Spec`, so `PinsAreSourceStreams` takes every safety theorem and the refinement
  of the allocator over to the pins as they are. `ImagesGoForward` needs that the virtual pin has one sample
  (`OneSample`, which follows from `DecideBufferSize` and the renderer's answer) and `ShownInv`: that sample is blank or shows
  the image drawn last, until `FillBuffer` has written one that is newer.
* **Connection** (`PinConnectionProofs`), for input pins that offer and accept anything, and any types. `HeldInv` says what
  the pin holds at each place of an attempt, `AlikeInv` what the two pins have in common there, and `WorkInv` who has which
  lock. Every failing action goes through the lemma `Undone`, every type that is passed over through `Skipped`.
  `TypeCorrect`, `AttemptsLeaveNothing`, `ConnectedPinsAgree`. On top of that `SearchInv` follows the search for a type:
  `AttemptInv` says what of the type under way has been found good, `TriedInv` that no type before it is usable, in this turn
  and in the one before, or something else has failed. From it come `ConnectFailsForAReason` and, with lemmas
  about the divisions (`RatesInRange`, `AdvertisedRates`), `ConnectionsHaveAgreedType`. From `OffersAssumption` (what
  an input pin offers is a sequence).

Every safety and action property of the passing runs is a theorem. Only model-checked are the liveness properties
(`FramesArrive`, `OnDemandStart`, `OnDemandStop`, `StopHonoured`, `CallsReturn` of three runs, `FramesShown`), since
reasoning about fairness and ENABLED is out of this prover's reach.

## Remarks on the code

Met while modelling; not stated as properties:

* `ActivateObject`, `ShutdownObject` and `DetachObject` change `m_source` without a lock, and the object is registered
  with `ThreadingModel` `Both`.
* Each media source leaks its stream: `PS3EyeMediaSource.cpp:187` keeps a reference that nothing gives back.
* The virtual pin stays connected to the service, and counted, until it is destroyed (`PS3EyeVirtualFilter.cpp:121`),
  so the camera stays on for a stopped graph. `m_paStreams` is allocated twice (`:90`).
* `MaxBitsPerSecond` is 10^12 cut down to a `LONG` (`PS3EyePushPin.cpp:373`) and comes out negative.
* A stop request is not honoured, and the clients are not counted, while `getFrame` waits for a camera whose stream ended
  after `PS3EyeCaptureService.cpp:99`.
* `QueryAccept` answers `S_FALSE` for a type it refuses, which passes `SUCCEEDED` (`PS3EyePushPin.cpp:284`).

## Plan

Done: the shared frame, the service with restarts, the media source and its activation, the allocator, the streaming
thread, both pins on top of them, their connection; the count as the interface between the shared frame and the service;
every safety property and every refinement proved.

Left, in order of importance:

1. Sources of `Activation` as clients of `ClientCounter`: `Activation` has `Connect` and `Disconnect` as one step each.
2. A second server at the same time; it needs a statement of what a reader may then expect, which the code does not give.

## Not modelled

* **Most of `DirectShowFilter/baseclasses`** (about 38,000 of the repository's 42,000 implementation lines). It is
  Microsoft's sample library, kept in the tree as a whole: video and audio renderers, transform filters, pull pins, window and
  position controls, quality management, property pages, debugging, registration. Neither filter uses these files, so a model of
  them would describe code this program does not run. What the two filters do run on is modelled: `source.cpp`, the
  `CAMThread` of `wxutil`, and the filter, pin, output pin, input pin and allocator classes of `amfilter.cpp`. This is why
  the share of lines mapped stays small although the operations of the program's own parts that change state are modelled.
* **Registration** (`setup.cpp`, `DllRegisterServer`, service installation): registry and service-manager calls in a row with
  no state of their own.
* **Installer**: declarative packaging. **Driver** (`PS3EYEDriver`, `libusb`): submodules whose directories are empty; what is
  used of them is an external part of `CaptureService` and `SourceStream`. **Test programs**: manual.
* **Two threads in one activation object**, enumerators that an application keeps open, reads of `_currentMediaType` without
  the lock, two servers: hazards in `PROJECT.json` with the reason why no property covers them.
* **Event queues** of Media Foundation beyond the last event, attributes, descriptors; time stamps and clocks; pixel
  conversion; `GetFormat`, `GetStreamCaps`, the property set, `GetFrameInfo`, which change nothing.
