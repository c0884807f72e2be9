------------------------------ MODULE SharedFrame ------------------------------
(***************************************************************************)
(* The frame shared between the capture process and the applications that *)
(* show the camera (PS3EyeSharedMemory.h/.cpp).  A file mapping holds one  *)
(* header and one frame; a named mutex, an auto-reset "new frame" event    *)
(* and an auto-reset "client" event coordinate its users.                  *)
(*                                                                         *)
(* Steps are as small as the code lets other processes see: the header is  *)
(* initialised and marked closed WITHOUT the mutex, the client count is    *)
(* changed with interlocked operations only, and a frame is copied in two  *)
(* halves.  A frame is named by the image it shows (a number that grows    *)
(* with each capture); <<lo, hi>> says which image each half comes from.   *)
(*                                                                         *)
(* The Win32 objects are external; what they do is modelled from the way   *)
(* the code calls them: WaitForSingleObject on a mutex is recursive for    *)
(* its owner, gives the mutex AND WAIT_ABANDONED to whoever comes after a   *)
(* dead owner, and may time out while another owner holds it; SetEvent on  *)
(* an auto-reset event releases one waiter or is remembered; a named       *)
(* object lives as long as somebody has it open.                           *)
(***************************************************************************)
EXTENDS Integers, FiniteSets

CONSTANTS
  Server,               \* the capture process
  Clients,              \* the client objects, each used by one thread
  Pollers,              \* the clients that poll ReadFrame (PS3EyeVirtualPin);
                        \* the others wait for the event (PS3EyeMediaSource)
  NoProc,               \* nobody: no owner of the mutex, a serverPID of 0
  MaxStarts,            \* bound: how often the server is started
  MaxFrames,            \* bound: how many images are captured
  MaxCrashes,           \* bound: how many processes die without cleaning up
  MaxDrift,             \* bound: how far rejected connections lower the count
  ConnectDuringCreate,  \* may a client call Connect while Create is running?
  LockTimeouts          \* may an owner keep the mutex for more than 100 ms?

Procs == {Server} \cup Clients

ASSUME ProcsAssumption ==
  /\ Server \notin Clients
  /\ NoProc \notin Procs
  /\ Pollers \subseteq Clients
  /\ IsFiniteSet(Clients)
ASSUME BoundsAssumption ==
  /\ {MaxStarts, MaxFrames, MaxCrashes, MaxDrift} \subseteq Nat
  /\ {ConnectDuringCreate, LockTimeouts} \subseteq BOOLEAN

VARIABLES
  pc,           \* where each process is
  owner, depth, \* the mutex: who owns it, and how many times over
  abandoned,    \* did its last owner die?
  hdr,          \* the header: magic/version valid, serverPID, frameNumber, clientCount
  data,         \* the image in each half of the frame buffer
  frameEvent,   \* PS3EyeNewFrameEvent is signalled
  clientEvent,  \* PS3EyeClientEvent is signalled
  evtOpen,      \* the clients that have PS3EyeClientEvent open (m_clientEvent)
  frameNumber,  \* the server's m_frameNumber
  captured,     \* images captured so far: the one being written is the last
  last,         \* m_lastFrameNumber of each client
  buf,          \* the buffer each client hands to ReadFrame, by halves
  got,          \* history: the frame ReadFrame last returned in this connection
  starts, crashes,  \* the counters the bounds are about
  published     \* history: what the last completed WriteFrame wrote

mutexVars == <<owner, depth, abandoned>>
eventVars == <<frameEvent, clientEvent, evtOpen>>
serverVars == <<frameNumber, captured, published>>
clientVars == <<last, buf, got>>
countVars == <<starts, crashes>>
vars == <<pc, owner, depth, abandoned, hdr, data, frameEvent, clientEvent, evtOpen,
          frameNumber, captured, last, buf, got, starts, crashes, published>>

Nothing == [num |-> 0, lo |-> 0, hi |-> 0]
NoImage == [lo |-> 0, hi |-> 0]
BlankHeader == [ready |-> FALSE, pid |-> NoProc, number |-> 0, count |-> 0]

Init ==
  /\ pc = [p \in Procs |-> "off"]
  /\ owner = NoProc /\ depth = 0 /\ abandoned = FALSE
  /\ hdr = BlankHeader
  /\ data = NoImage
  /\ frameEvent = FALSE /\ clientEvent = FALSE /\ evtOpen = {}
  /\ frameNumber = 0 /\ captured = 0
  /\ last = [c \in Clients |-> 0]
  /\ buf = [c \in Clients |-> NoImage]
  /\ got = [c \in Clients |-> Nothing]
  /\ starts = 0 /\ crashes = 0
  /\ published = [num |-> 0, id |-> 0]

Goto(p, from, to) == pc[p] = from /\ pc' = [pc EXCEPT ![p] = to]

\* What most steps leave alone
quietVars == <<data, eventVars, serverVars, clientVars, countVars>>

\* A step that only goes on
Step(p, from, to) == Goto(p, from, to) /\ UNCHANGED <<mutexVars, hdr, quietVars>>

\* Whoever has the named objects open keeps them alive.
Attached == {p \in Procs : pc[p] # "off"}
Creating == pc[Server] \in {"opened", "zeroed", "filled"}

-----------------------------------------------------------------------------
(* The mutex.                                                              *)

\* Mutant of Acquire: the result of the wait is not looked at.
AcquireUnchecked(p) ==
  /\ owner' = p /\ depth' = depth + 1
  /\ UNCHANGED abandoned

\* WaitForSingleObject(m_mutex, 100) = WAIT_OBJECT_0
Acquire(p) ==
  /\ owner \in {p, NoProc} /\ ~abandoned
  /\ owner' = p /\ depth' = depth + 1
  /\ UNCHANGED abandoned

\* ... = WAIT_ABANDONED: p owns the mutex now
AcquireAbandoned(p) ==
  /\ abandoned
  /\ owner' = p /\ depth' = 1 /\ abandoned' = FALSE

\* ... = WAIT_TIMEOUT
TimedOut(p) == LockTimeouts /\ owner \notin {p, NoProc}

\* ReleaseMutex(m_mutex)
Release ==
  /\ depth' = depth - 1
  /\ owner' = IF depth = 1 THEN NoProc ELSE owner
  /\ UNCHANGED abandoned

\* The owning thread ends without releasing.
Abandon(p) ==
  IF owner = p
  THEN owner' = NoProc /\ depth' = 0 /\ abandoned' = TRUE
  ELSE UNCHANGED mutexVars

-----------------------------------------------------------------------------
(* PS3EyeSharedMemoryServer                                                *)

\* Create: the Create* calls open what exists and make what does not; only a
\* new object starts blank.
CreateObjects ==
  /\ starts < MaxStarts
  /\ Goto(Server, "off", "opened")
  /\ starts' = starts + 1
  /\ clientEvent' = (clientEvent /\ evtOpen # {})
  /\ IF Attached = {}
     THEN /\ hdr' = BlankHeader
          /\ data' = NoImage
          /\ frameEvent' = FALSE
          /\ owner' = NoProc /\ depth' = 0 /\ abandoned' = FALSE
     ELSE UNCHANGED <<hdr, data, frameEvent, mutexVars>>
  /\ UNCHANGED <<evtOpen, serverVars, clientVars, crashes>>

\* Create: ZeroMemory, whatever the mapping held and whoever uses it
ZeroHeader ==
  /\ Goto(Server, "opened", "zeroed")
  /\ hdr' = BlankHeader
  /\ UNCHANGED <<mutexVars, quietVars>>

\* Create: magic ... serverPID
FillHeader ==
  /\ Goto(Server, "zeroed", "filled")
  /\ hdr' = [hdr EXCEPT !.ready = TRUE, !.number = 0, !.pid = Server]
  /\ UNCHANGED <<mutexVars, quietVars>>

\* Create: clientCount = 0, m_frameNumber = 0
ResetCount ==
  /\ Goto(Server, "filled", "up")
  /\ hdr' = [hdr EXCEPT !.count = 0]
  /\ frameNumber' = 0
  /\ UNCHANGED <<mutexVars, data, eventVars, captured, published, clientVars, countVars>>

\* WriteFrame, called with the next image: the mutex is ours
BeginWrite ==
  /\ captured < MaxFrames /\ captured' = captured + 1
  /\ Goto(Server, "up", "wLo")
  /\ Acquire(Server)
  /\ UNCHANGED <<hdr, data, eventVars, frameNumber, published, clientVars, countVars>>

\* WriteFrame gives up and the image is lost; after WAIT_ABANDONED it keeps
\* the mutex it was given.
DropFrame ==
  /\ pc[Server] = "up"
  /\ captured < MaxFrames /\ captured' = captured + 1
  /\ \/ TimedOut(Server) /\ UNCHANGED mutexVars
     \/ AcquireAbandoned(Server)
  /\ UNCHANGED <<pc, hdr, data, eventVars, frameNumber, published, clientVars, countVars>>

\* WriteFrame: memcpy, in two halves
CopyLow ==
  /\ Goto(Server, "wLo", "wHi")
  /\ data' = [data EXCEPT !.lo = captured]
  /\ UNCHANGED <<mutexVars, hdr, eventVars, serverVars, clientVars, countVars>>

CopyHigh ==
  /\ Goto(Server, "wHi", "pub")
  /\ data' = [data EXCEPT !.hi = captured]
  /\ UNCHANGED <<mutexVars, hdr, eventVars, serverVars, clientVars, countVars>>

Waiting == {c \in Clients : pc[c] = "waiting"}

\* Mutant of SignalFrame: PulseEvent, nobody waits and the signal is gone.
PulseFrame ==
  \/ Waiting = {} /\ UNCHANGED frameEvent /\ pc' = [pc EXCEPT ![Server] = "up"]
  \/ \E c \in Waiting :
       /\ pc' = [pc EXCEPT ![Server] = "up", ![c] = "woken"]
       /\ UNCHANGED frameEvent

\* SetEvent on the auto-reset event: one waiter goes on, or the next one will
SignalFrame ==
  \/ Waiting = {} /\ frameEvent' = TRUE /\ pc' = [pc EXCEPT ![Server] = "up"]
  \/ \E c \in Waiting :
       /\ pc' = [pc EXCEPT ![Server] = "up", ![c] = "woken"]
       /\ UNCHANGED frameEvent

\* Mutant of Publish: the number is stored before it is incremented.
PublishOldNumber ==
  /\ pc[Server] = "pub"
  /\ frameNumber' = frameNumber + 1
  /\ hdr' = [hdr EXCEPT !.number = frameNumber]
  /\ published' = [num |-> frameNumber + 1, id |-> captured]
  /\ SignalFrame
  /\ Release
  /\ UNCHANGED <<data, clientEvent, evtOpen, captured, clientVars, countVars>>

\* WriteFrame: header update, SetEvent, ReleaseMutex
Publish ==
  /\ pc[Server] = "pub"
  /\ frameNumber' = frameNumber + 1
  /\ hdr' = [hdr EXCEPT !.number = frameNumber + 1]
  /\ published' = [num |-> frameNumber + 1, id |-> captured]
  /\ SignalFrame
  /\ Release
  /\ UNCHANGED <<data, clientEvent, evtOpen, captured, clientVars, countVars>>

\* WaitForClients: no client is counted ...
LookForClients == hdr.count <= 0 /\ Step(Server, "up", "wait")

\* ... and the event is signalled and taken, whoever is counted by now ...
TakeClientEvent ==
  /\ clientEvent /\ clientEvent' = FALSE
  /\ Goto(Server, "wait", "up")
  /\ UNCHANGED <<mutexVars, hdr, data, frameEvent, evtOpen, serverVars, clientVars, countVars>>

\* ... or time is up
ClientTimeout == ~clientEvent /\ Step(Server, "wait", "up")

WaitForClients == LookForClients \/ TakeClientEvent \/ ClientTimeout

\* Close: serverPID = 0
BeginClose ==
  /\ Goto(Server, "up", "closing")
  /\ hdr' = [hdr EXCEPT !.pid = NoProc]
  /\ UNCHANGED <<mutexVars, quietVars>>

\* Close: the handles; the process ends and with it a mutex it still owns
EndClose ==
  /\ Goto(Server, "closing", "off")
  /\ Abandon(Server)
  /\ UNCHANGED <<hdr, quietVars>>

-----------------------------------------------------------------------------
(* PS3EyeSharedMemoryClient                                                *)

\* Connect: the objects exist (somebody has them open) and are opened
OpenObjects(c) ==
  /\ Attached # {}
  /\ Creating => ConnectDuringCreate
  /\ Step(c, "off", "opened")

\* Connect: bad magic.  Disconnect then takes back a count never given.
RejectHeader(c) ==
  /\ ~hdr.ready /\ hdr.count > -MaxDrift
  /\ Goto(c, "opened", "off")
  /\ hdr' = [hdr EXCEPT !.count = @ - 1]
  /\ UNCHANGED <<mutexVars, quietVars>>

AcceptHeader(c) ==
  /\ hdr.ready
  /\ Step(c, "opened", "valid")

\* Connect: the client event, if anybody still has it, is opened and set
SignalConnect(c) ==
  /\ Goto(c, "valid", "signalled")
  /\ IF pc[Server] # "off" \/ evtOpen # {}
     THEN evtOpen' = evtOpen \cup {c} /\ clientEvent' = TRUE
     ELSE UNCHANGED <<evtOpen, clientEvent>>
  /\ UNCHANGED <<mutexVars, hdr, data, frameEvent, serverVars, clientVars, countVars>>

\* Connect: InterlockedIncrement; this connection has read nothing
CountIn(c) ==
  /\ Goto(c, "signalled", "up")
  /\ hdr' = [hdr EXCEPT !.count = @ + 1]
  /\ last' = [last EXCEPT ![c] = 0]
  /\ buf' = [buf EXCEPT ![c] = NoImage]
  /\ got' = [got EXCEPT ![c] = Nothing]
  /\ UNCHANGED <<mutexVars, data, eventVars, serverVars, countVars>>

\* Mutant of CountOut: the handles are closed, the count is forgotten.
CountOutForgotten(c) == Step(c, "up", "leaving")

\* Disconnect: InterlockedDecrement
CountOut(c) ==
  /\ Goto(c, "up", "leaving")
  /\ hdr' = [hdr EXCEPT !.count = @ - 1]
  /\ UNCHANGED <<mutexVars, quietVars>>

\* Disconnect: SetEvent, then the handles
CloseObjects(c) ==
  /\ Goto(c, "leaving", "off")
  /\ clientEvent' = (clientEvent \/ c \in evtOpen)
  /\ evtOpen' = evtOpen \ {c}
  /\ UNCHANGED <<mutexVars, hdr, data, frameEvent, serverVars, clientVars, countVars>>

\* WaitForFrame: the event is signalled and taken
TakeFrameEvent(c) ==
  /\ c \notin Pollers
  /\ frameEvent /\ frameEvent' = FALSE
  /\ Goto(c, "up", "woken")
  /\ UNCHANGED <<mutexVars, hdr, data, clientEvent, evtOpen, serverVars, clientVars, countVars>>

\* WaitForFrame: it is not, so wait
BlockOnFrame(c) ==
  /\ c \notin Pollers
  /\ ~frameEvent
  /\ Step(c, "up", "waiting")

WaitTimeout(c) == Step(c, "waiting", "up")

\* Where ReadFrame is called from: after WaitForFrame, or at any time
ReadyToRead(c) == pc[c] = IF c \in Pollers THEN "up" ELSE "woken"

\* ReadFrame: the mutex is ours
BeginRead(c) ==
  /\ ReadyToRead(c)
  /\ pc' = [pc EXCEPT ![c] = "check"]
  /\ Acquire(c)
  /\ UNCHANGED <<hdr, quietVars>>

\* ReadFrame returns false; after WAIT_ABANDONED it keeps the mutex
GiveUpRead(c) ==
  /\ ReadyToRead(c)
  /\ pc' = [pc EXCEPT ![c] = "up"]
  /\ \/ TimedOut(c) /\ UNCHANGED mutexVars
     \/ AcquireAbandoned(c)
  /\ UNCHANGED <<hdr, quietVars>>

\* ReadFrame: no server, or no new frame
RefuseRead(c) ==
  /\ hdr.pid = NoProc \/ hdr.number = last[c]
  /\ Goto(c, "check", "up")
  /\ Release
  /\ UNCHANGED <<hdr, quietVars>>

\* Mutant of PassCheck: no look at the frame number.
PassAnyNumber(c) ==
  /\ hdr.pid # NoProc
  /\ Step(c, "check", "passed")

\* ReadFrame: both checks pass
PassCheck(c) ==
  /\ hdr.pid # NoProc /\ hdr.number # last[c]
  /\ Step(c, "check", "passed")

\* ReadFrame: dataSize is read (0 after ZeroMemory, then nothing is copied)
ReadSize(c) == Step(c, "passed", IF hdr.ready THEN "sized" ELSE "done")

\* ReadFrame: dataOffset is read (0 after ZeroMemory: the copy starts with the
\* header, and no image is in its place) and the first half is copied
ReadLow(c) ==
  /\ Goto(c, "sized", "copyHi")
  /\ buf' = [buf EXCEPT ![c].lo = IF hdr.ready THEN data.lo ELSE 0]
  /\ UNCHANGED <<mutexVars, hdr, data, eventVars, serverVars, last, got, countVars>>

ReadHigh(c) ==
  /\ Goto(c, "copyHi", "done")
  /\ buf' = [buf EXCEPT ![c].hi = data.hi]
  /\ UNCHANGED <<mutexVars, hdr, data, eventVars, serverVars, last, got, countVars>>

\* Mutant of EndRead: a successful read does not release the mutex.
EndReadLocked(c) ==
  /\ Goto(c, "done", "up")
  /\ last' = [last EXCEPT ![c] = hdr.number]
  /\ got' = [got EXCEPT ![c] = [num |-> hdr.number, lo |-> buf[c].lo, hi |-> buf[c].hi]]
  /\ UNCHANGED <<mutexVars, hdr, data, buf, eventVars, serverVars, countVars>>

\* ReadFrame: the number is noted, the mutex released, true returned
EndRead(c) ==
  /\ Goto(c, "done", "up")
  /\ last' = [last EXCEPT ![c] = hdr.number]
  /\ got' = [got EXCEPT ![c] = [num |-> hdr.number, lo |-> buf[c].lo, hi |-> buf[c].hi]]
  /\ Release
  /\ UNCHANGED <<hdr, data, buf, eventVars, serverVars, countVars>>

-----------------------------------------------------------------------------
(* What the system does to them                                            *)

\* A process dies: its handles are closed and nothing else is cleaned up.
Crash(p) ==
  /\ crashes < MaxCrashes /\ crashes' = crashes + 1
  /\ pc[p] # "off" /\ pc' = [pc EXCEPT ![p] = "off"]
  /\ Abandon(p)
  /\ evtOpen' = evtOpen \ {p}
  /\ UNCHANGED <<hdr, data, frameEvent, clientEvent, serverVars, clientVars, starts>>

\* A client's reading thread ends while WAIT_ABANDONED has left it the mutex.
EndThread(c) ==
  /\ pc[c] \in {"off", "up"}
  /\ owner = c /\ Abandon(c)
  /\ UNCHANGED <<pc, hdr, data, eventVars, serverVars, clientVars, countVars>>

ServerNext ==
  \/ CreateObjects \/ ZeroHeader \/ FillHeader \/ ResetCount
  \/ BeginWrite \/ DropFrame \/ CopyLow \/ CopyHigh \/ Publish
  \/ WaitForClients \/ BeginClose \/ EndClose

ClientNext(c) ==
  \/ OpenObjects(c) \/ RejectHeader(c) \/ AcceptHeader(c) \/ SignalConnect(c) \/ CountIn(c)
  \/ CountOut(c) \/ CloseObjects(c)
  \/ TakeFrameEvent(c) \/ BlockOnFrame(c) \/ WaitTimeout(c)
  \/ BeginRead(c) \/ GiveUpRead(c) \/ RefuseRead(c) \/ PassCheck(c)
  \/ ReadSize(c) \/ ReadLow(c) \/ ReadHigh(c) \/ EndRead(c)
  \/ EndThread(c)

Next ==
  \/ ServerNext
  \/ \E c \in Clients : ClientNext(c)
  \/ \E p \in Procs : Crash(p)

Spec == Init /\ [][Next]_vars

-----------------------------------------------------------------------------
(* Fairness.  A running thread goes on; a thread that asks for the mutex   *)
(* gets it in turn once it is free (strong fairness: others may take it in *)
(* between, kernel waits are served in order).                             *)
WriterGoesOn == CopyLow \/ CopyHigh \/ Publish
ReaderGoesOn(c) ==
  RefuseRead(c) \/ PassCheck(c) \/ ReadSize(c) \/ ReadLow(c) \/ ReadHigh(c) \/ EndRead(c)

FairSpec ==
  /\ Spec
  /\ SF_vars(BeginWrite) /\ WF_vars(WriterGoesOn)
  /\ \A c \in Clients :
       /\ WF_vars(TakeFrameEvent(c)) /\ SF_vars(BeginRead(c)) /\ WF_vars(ReaderGoesOn(c))

-----------------------------------------------------------------------------
(* Properties                                                              *)

ServerPoints ==
  {"off", "opened", "zeroed", "filled", "up", "wait", "wLo", "wHi", "pub", "closing"}
ReadPoints == {"check", "passed", "sized", "copyHi", "done"}
ClientPoints ==
  {"off", "opened", "valid", "signalled", "up", "waiting", "woken", "leaving"} \cup ReadPoints

FlagsOK == abandoned \in BOOLEAN /\ frameEvent \in BOOLEAN /\ clientEvent \in BOOLEAN

\* The type of every variable.  The mutex is held at most twice over: once
\* kept after WAIT_ABANDONED, once by the call that is using it.
TypeOK ==
  /\ FlagsOK
  /\ pc \in [Procs -> ServerPoints \cup ClientPoints]
  /\ pc[Server] \in ServerPoints /\ \A c \in Clients : pc[c] \in ClientPoints
  /\ owner \in Procs \cup {NoProc} /\ depth \in 0..2 /\ evtOpen \subseteq Clients
  /\ hdr \in [ready : BOOLEAN, pid : {Server, NoProc}, number : Nat, count : Int]
  /\ data \in [lo : Nat, hi : Nat]
  /\ frameNumber \in Nat /\ captured \in 0..MaxFrames
  /\ starts \in 0..MaxStarts /\ crashes \in 0..MaxCrashes
  /\ last \in [Clients -> Nat] /\ buf \in [Clients -> [lo : Nat, hi : Nat]]
  /\ got \in [Clients -> [num : Nat, lo : Nat, hi : Nat]]
  /\ published \in [num : Nat, id : Nat]

Inside(p) == pc[p] \in {"wLo", "wHi", "pub"} \cup ReadPoints

\* WriteFrame and ReadFrame never overlap, whichever processes crash, restart
\* or are left with the mutex by WAIT_ABANDONED (h:68).
DataAccessExclusive == \A p, q \in Procs : Inside(p) /\ Inside(q) => p = q

\* The server died in WriteFrame, with an image copied in part or not published.
DiedWriting == pc[Server] = "off" /\ data # [lo |-> published.id, hi |-> published.id]

\* The frame is what its one server has written: the readers may die as they like.
Calm == starts <= 1 /\ ~DiedWriting

\* ReadFrame never hands out a frame put together from two images, as long as
\* the server does not die in the middle of one and is not started again under
\* its clients (h:3, cpp:167, cpp:339).
WholeFrames == Calm => \A c \in Clients : got[c].lo = got[c].hi

\* Within one connection every successful ReadFrame returns a later image than
\* the one before it: "check if new frame" (cpp:333) means what it says (while
\* it is Calm).
FreshDelivery ==
  [][\A c \in Clients :
       pc[c] = "done" /\ pc'[c] = "up" => got'[c].lo > got[c].lo]_vars

Counted == {c \in Clients : pc[c] \in {"up", "waiting", "woken"} \cup ReadPoints}

\* Create is done, and Close is not.
Up == pc[Server] \in {"up", "wait", "wLo", "wHi", "pub", "closing"}

\* While the server is up, clientCount counts the connected clients; only a
\* client that died is still counted (h:43).  Holds for a single start and
\* clients that do not connect before Create is done.
CountCovers ==
  Up => hdr.count - Cardinality(Counted) \in 0..crashes

\* "Thread-safe via mutex" (h:68): nobody owns the mutex outside a call.
MutexOnlyInside == owner # NoProc => Inside(owner)

\* "So clients can catch it" (cpp:179): every client that waits for a frame
\* when one is published goes on to read it.
EveryWaiterWoken ==
  [][pc[Server] = "pub" /\ pc'[Server] = "up" =>
       \A c \in Waiting : pc'[c] = "woken"]_vars

Streaming == pc[Server] \in {"up", "wLo", "wHi", "pub"}

\* A frame published while a client is connected reaches it, itself or as a
\* newer one, however the clients contend for the mutex and the event.  For
\* lock sections shorter than 100 ms and at most one client per event.
FramesArrive ==
  \A c \in Clients, n \in 1..MaxFrames :
    (Streaming /\ published.num = n - 1 /\ c \in Counted)
      ~> (last[c] >= n \/ c \notin Counted \/ ~Streaming)

\* The shared frame keeps the channel's promise (while it is Calm).
Channel == INSTANCE FrameChannel WITH seen <- last
ImplementsChannel == Channel!Spec

\* Where a client is for whoever only looks at the count and the event
place == [c \in Clients |->
  IF pc[c] \in {"off", "opened", "valid"} THEN "off"
  ELSE IF pc[c] \in {"signalled", "leaving"} THEN pc[c] ELSE "in"]

\* clientCount and the client event change as the capture service expects of
\* its clients, through restarts, crashes and connections during Create:
\* after Create only by a client, once in and once out, each time with the
\* event beside it (cpp:87, 133-144, 249-274).
Counter == INSTANCE ClientCounter
  WITH client <- place, count <- hdr.count, event <- clientEvent, holders <- evtOpen, up <- Up
ImplementsCounter == Counter!Spec
=============================================================================
