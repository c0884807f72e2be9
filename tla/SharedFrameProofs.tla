--------------------------- MODULE SharedFrameProofs ---------------------------
(***************************************************************************)
(* Proofs about SharedFrame, for every set of clients and every value of   *)
(* the bounds: who owns the mutex; that the shared frame implements        *)
(* FrameChannel, with what follows from the invariant that shows it;       *)
(* clientCount against the clients there are; and that the shared frame    *)
(* implements ClientCounter.                                               *)
(***************************************************************************)
EXTENDS SharedFrame, FiniteSetTheorems, TLAPS

-----------------------------------------------------------------------------
(* The types and the mutex                                                 *)

\* Who owns the mutex, and how often.  A call that is inside owns it; a process
\* that WAIT_ABANDONED left with the mutex owns it once while it is outside.
MutexInv ==
  /\ \A p \in Procs : Inside(p) => owner = p
  /\ owner = NoProc <=> depth = 0
  /\ owner # NoProc /\ ~Inside(owner) => depth = 1
  /\ abandoned => owner = NoProc

IInv == TypeOK /\ MutexInv

-----------------------------------------------------------------------------
\* The initial state.
LEMMA InitIInv == Init => IInv
<1> SUFFICES ASSUME Init PROVE IInv
  OBVIOUS
<1> USE ProcsAssumption, BoundsAssumption DEF Init, Inside, Procs, ServerPoints, ClientPoints,
   ReadPoints
<1>1. TypeOK
  <2>1. FlagsOK
    BY Zenon DEF FlagsOK
  <2> QED
    BY <2>1 DEF TypeOK, BlankHeader, NoImage, Nothing
<1>2. MutexInv
  BY DEF MutexInv
<1> QED
  BY <1>1, <1>2 DEF IInv

-----------------------------------------------------------------------------
\* What each action keeps: the flags (first-order), the types, the mutex.
LEMMA FlagsStep ==
  ASSUME FlagsOK, [Next]_vars
  PROVE  FlagsOK'
<1> USE DEF FlagsOK, Goto, Step, quietVars, mutexVars, eventVars, serverVars, clientVars,
   countVars
<1>1. CASE CreateObjects
  BY Zenon, <1>1 DEF CreateObjects, Attached, BlankHeader, NoImage
<1>2. CASE ZeroHeader
  BY Zenon, <1>2 DEF ZeroHeader, BlankHeader
<1>3. CASE FillHeader
  BY Zenon, <1>3 DEF FillHeader
<1>4. CASE ResetCount
  BY Zenon, <1>4 DEF ResetCount
<1>5. CASE BeginWrite
  BY Zenon, <1>5 DEF BeginWrite, Acquire
<1>6. CASE DropFrame
  BY Zenon, <1>6 DEF DropFrame, TimedOut, AcquireAbandoned
<1>7. CASE CopyLow
  BY Zenon, <1>7 DEF CopyLow
<1>8. CASE CopyHigh
  BY Zenon, <1>8 DEF CopyHigh
<1>9. CASE Publish
  BY Zenon, <1>9 DEF Publish, SignalFrame, Waiting, Release
<1>10. CASE WaitForClients
  BY Zenon, <1>10 DEF WaitForClients, LookForClients, TakeClientEvent, ClientTimeout
<1>11. CASE BeginClose
  BY Zenon, <1>11 DEF BeginClose
<1>12. CASE EndClose
  BY Zenon, <1>12 DEF EndClose, Abandon
<1>13. ASSUME NEW c \in Clients, ClientNext(c) PROVE FlagsOK'
  <2>1. CASE OpenObjects(c)
    BY Zenon, <2>1 DEF OpenObjects
  <2>2. CASE RejectHeader(c)
    BY Zenon, <2>2 DEF RejectHeader
  <2>3. CASE AcceptHeader(c)
    BY Zenon, <2>3 DEF AcceptHeader
  <2>4. CASE SignalConnect(c)
    BY Zenon, <2>4 DEF SignalConnect
  <2>5. CASE CountIn(c)
    BY Zenon, <2>5 DEF CountIn, Nothing, NoImage
  <2>6. CASE CountOut(c)
    BY Zenon, <2>6 DEF CountOut
  <2>7. CASE CloseObjects(c)
    BY Zenon, <2>7 DEF CloseObjects
  <2>8. CASE TakeFrameEvent(c)
    BY Zenon, <2>8 DEF TakeFrameEvent
  <2>9. CASE BlockOnFrame(c)
    BY Zenon, <2>9 DEF BlockOnFrame
  <2>10. CASE WaitTimeout(c)
    BY Zenon, <2>10 DEF WaitTimeout
  <2>11. CASE BeginRead(c)
    BY Zenon, <2>11 DEF BeginRead, ReadyToRead, Acquire
  <2>12. CASE GiveUpRead(c)
    BY Zenon, <2>12 DEF GiveUpRead, ReadyToRead, TimedOut, AcquireAbandoned
  <2>13. CASE RefuseRead(c)
    BY Zenon, <2>13 DEF RefuseRead, Release
  <2>14. CASE PassCheck(c)
    BY Zenon, <2>14 DEF PassCheck
  <2>15. CASE ReadSize(c)
    BY Zenon, <2>15 DEF ReadSize
  <2>16. CASE ReadLow(c)
    BY Zenon, <2>16 DEF ReadLow
  <2>17. CASE ReadHigh(c)
    BY Zenon, <2>17 DEF ReadHigh
  <2>18. CASE EndRead(c)
    BY Zenon, <2>18 DEF EndRead, Release
  <2>19. CASE EndThread(c)
    BY Zenon, <2>19 DEF EndThread, Abandon
  <2> QED
    BY <1>13, <2>1, <2>2, <2>3, <2>4, <2>5, <2>6, <2>7, <2>8, <2>9, <2>10, <2>11, <2>12,
       <2>13, <2>14, <2>15, <2>16, <2>17, <2>18, <2>19 DEF ClientNext
<1>14. ASSUME NEW p \in Procs, Crash(p) PROVE FlagsOK'
  BY Zenon, <1>14 DEF Crash, Abandon
<1>15. CASE UNCHANGED vars
  BY Zenon, <1>15 DEF vars
<1> QED
  BY <1>1, <1>2, <1>3, <1>4, <1>5, <1>6, <1>7, <1>8, <1>9, <1>10, <1>11, <1>12, <1>13, <1>14,
     <1>15 DEF Next, ServerNext

\* Every action keeps the types; the mutex invariant bounds depth.
LEMMA TypeStep ==
  ASSUME IInv, FlagsOK', [Next]_vars
  PROVE  TypeOK'
<1> USE ProcsAssumption, BoundsAssumption
    DEF IInv, TypeOK, MutexInv, Inside, Procs, ServerPoints, ClientPoints, ReadPoints,
        Goto, Step, quietVars, mutexVars, eventVars, serverVars, clientVars, countVars
<1>1. CASE CreateObjects
  <2>1. /\ pc' \in [Procs -> ServerPoints \cup ClientPoints]
        /\ pc'[Server] \in ServerPoints /\ \A c \in Clients : pc'[c] \in ClientPoints
        /\ starts' \in 0..MaxStarts
    BY <1>1 DEF CreateObjects
  <2>2. /\ owner' \in Procs \cup {NoProc} /\ depth' \in 0..2
        /\ hdr' \in [ready : BOOLEAN, pid : {Server, NoProc}, number : Nat, count : Int]
        /\ data' \in [lo : Nat, hi : Nat]
    <3>1. CASE Attached = {}
      <4>1. hdr' = BlankHeader /\ data' = NoImage /\ owner' = NoProc /\ depth' = 0
        BY <1>1, <3>1, Zenon DEF CreateObjects
      <4> QED
        BY <4>1 DEF BlankHeader, NoImage
    <3>2. CASE Attached # {}
      BY <1>1, <3>2 DEF CreateObjects
    <3> QED
      BY <3>1, <3>2
  <2> QED
    BY <1>1, <2>1, <2>2 DEF CreateObjects
<1>2. CASE ZeroHeader
  BY <1>2 DEF ZeroHeader, BlankHeader
<1>3. CASE FillHeader
  BY <1>3 DEF FillHeader
<1>4. CASE ResetCount
  BY <1>4 DEF ResetCount
<1>5. CASE BeginWrite
  BY <1>5 DEF BeginWrite, Acquire
<1>6. CASE DropFrame
  BY <1>6 DEF DropFrame, TimedOut, AcquireAbandoned
<1>7. CASE CopyLow
  BY <1>7 DEF CopyLow
<1>8. CASE CopyHigh
  BY <1>8 DEF CopyHigh
<1>9. CASE Publish
  <2>1. /\ pc' \in [Procs -> ServerPoints \cup ClientPoints]
        /\ pc'[Server] \in ServerPoints /\ \A c \in Clients : pc'[c] \in ClientPoints
    <3>1. \/ pc' = [pc EXCEPT ![Server] = "up"]
          \/ \E c \in Clients : pc' = [pc EXCEPT ![Server] = "up", ![c] = "woken"]
      BY <1>9 DEF Publish, SignalFrame, Waiting
    <3>2. "up" \in ServerPoints /\ "woken" \in ClientPoints
      OBVIOUS
    <3>3. /\ pc \in [Procs -> ServerPoints \cup ClientPoints]
          /\ pc[Server] \in ServerPoints /\ \A c \in Clients : pc[c] \in ClientPoints
      OBVIOUS
    <3> QED
      BY ONLY <3>1, <3>2, <3>3, ProcsAssumption DEF Procs
  <2>2. owner' \in Procs \cup {NoProc} /\ depth' \in 0..2
    BY <1>9 DEF Publish, Release
  <2>3. hdr' \in [ready : BOOLEAN, pid : {Server, NoProc}, number : Nat, count : Int]
    BY <1>9 DEF Publish
  <2>4. frameNumber' \in Nat /\ published' \in [num : Nat, id : Nat]
    BY <1>9 DEF Publish
  <2> QED
    BY <1>9, <2>1, <2>2, <2>3, <2>4 DEF Publish
<1>10. CASE WaitForClients
  BY <1>10, SMTT(30) DEF WaitForClients, LookForClients, TakeClientEvent, ClientTimeout
<1>11. CASE BeginClose
  BY <1>11 DEF BeginClose
<1>12. CASE EndClose
  BY <1>12 DEF EndClose, Abandon
<1>13. ASSUME NEW c \in Clients, ClientNext(c) PROVE TypeOK'
  <2>1. CASE OpenObjects(c)
    BY <2>1 DEF OpenObjects
  <2>2. CASE RejectHeader(c)
    BY <2>2 DEF RejectHeader
  <2>3. CASE AcceptHeader(c)
    BY <2>3 DEF AcceptHeader
  <2>4. CASE SignalConnect(c)
    BY <2>4 DEF SignalConnect
  <2>5. CASE CountIn(c)
    <3>1. buf' \in [Clients -> [lo : Nat, hi : Nat]]
      BY <2>5 DEF CountIn, NoImage
    <3>2. got' \in [Clients -> [num : Nat, lo : Nat, hi : Nat]]
      BY <2>5 DEF CountIn, Nothing
    <3> QED
      BY <2>5, <3>1, <3>2, SMTT(30) DEF CountIn
  <2>6. CASE CountOut(c)
    BY <2>6, SMTT(30) DEF CountOut
  <2>7. CASE CloseObjects(c)
    BY <2>7 DEF CloseObjects
  <2>8. CASE TakeFrameEvent(c)
    BY <2>8 DEF TakeFrameEvent
  <2>9. CASE BlockOnFrame(c)
    BY <2>9 DEF BlockOnFrame
  <2>10. CASE WaitTimeout(c)
    BY <2>10 DEF WaitTimeout
  <2>11. CASE BeginRead(c)
    BY <2>11 DEF BeginRead, ReadyToRead, Acquire
  <2>12. CASE GiveUpRead(c)
    BY <2>12 DEF GiveUpRead, ReadyToRead, TimedOut, AcquireAbandoned
  <2>13. CASE RefuseRead(c)
    BY <2>13 DEF RefuseRead, Release
  <2>14. CASE PassCheck(c)
    BY <2>14 DEF PassCheck
  <2>15. CASE ReadSize(c)
    BY <2>15 DEF ReadSize
  <2>16. CASE ReadLow(c)
    BY <2>16 DEF ReadLow
  <2>17. CASE ReadHigh(c)
    BY <2>17 DEF ReadHigh
  <2>18. CASE EndRead(c)
    BY <2>18 DEF EndRead, Release
  <2>19. CASE EndThread(c)
    BY <2>19 DEF EndThread, Abandon
  <2> QED
    BY <1>13, <2>1, <2>2, <2>3, <2>4, <2>5, <2>6, <2>7, <2>8, <2>9, <2>10, <2>11, <2>12,
       <2>13, <2>14, <2>15, <2>16, <2>17, <2>18, <2>19 DEF ClientNext
<1>14. ASSUME NEW p \in Procs, Crash(p) PROVE TypeOK'
  BY <1>14 DEF Crash, Abandon
<1>15. CASE UNCHANGED vars
  BY <1>15 DEF vars
<1> QED
  BY <1>1, <1>2, <1>3, <1>4, <1>5, <1>6, <1>7, <1>8, <1>9, <1>10, <1>11, <1>12, <1>13, <1>14,
     <1>15 DEF Next, ServerNext

\* Every action keeps the mutex invariant: who is inside a call owns the mutex.
LEMMA MutexStep ==
  ASSUME IInv, [Next]_vars
  PROVE  MutexInv'
<1> USE ProcsAssumption, BoundsAssumption
    DEF IInv, TypeOK, MutexInv, Inside, Procs, ServerPoints, ClientPoints, ReadPoints,
        Goto, Step, quietVars, mutexVars, eventVars, serverVars, clientVars, countVars
<1>1. CASE CreateObjects
  BY <1>1 DEF CreateObjects, Attached, BlankHeader, NoImage
<1>2. CASE ZeroHeader
  BY <1>2 DEF ZeroHeader, BlankHeader
<1>3. CASE FillHeader
  BY <1>3 DEF FillHeader
<1>4. CASE ResetCount
  BY <1>4 DEF ResetCount
<1>5. CASE BeginWrite
  BY <1>5 DEF BeginWrite, Acquire
<1>6. CASE DropFrame
  BY <1>6 DEF DropFrame, TimedOut, AcquireAbandoned
<1>7. CASE CopyLow
  BY <1>7 DEF CopyLow
<1>8. CASE CopyHigh
  BY <1>8 DEF CopyHigh
<1>9. CASE Publish
  BY <1>9 DEF Publish, SignalFrame, Waiting, Release
<1>10. CASE WaitForClients
  BY <1>10 DEF WaitForClients, LookForClients, TakeClientEvent, ClientTimeout
<1>11. CASE BeginClose
  BY <1>11 DEF BeginClose
<1>12. CASE EndClose
  BY <1>12 DEF EndClose, Abandon
<1>13. ASSUME NEW c \in Clients, ClientNext(c) PROVE MutexInv'
  <2>1. CASE OpenObjects(c)
    BY <2>1 DEF OpenObjects
  <2>2. CASE RejectHeader(c)
    BY <2>2 DEF RejectHeader
  <2>3. CASE AcceptHeader(c)
    BY <2>3 DEF AcceptHeader
  <2>4. CASE SignalConnect(c)
    BY <2>4 DEF SignalConnect
  <2>5. CASE CountIn(c)
    BY <2>5 DEF CountIn, Nothing, NoImage
  <2>6. CASE CountOut(c)
    BY <2>6 DEF CountOut
  <2>7. CASE CloseObjects(c)
    BY <2>7 DEF CloseObjects
  <2>8. CASE TakeFrameEvent(c)
    BY <2>8 DEF TakeFrameEvent
  <2>9. CASE BlockOnFrame(c)
    BY <2>9 DEF BlockOnFrame
  <2>10. CASE WaitTimeout(c)
    BY <2>10 DEF WaitTimeout
  <2>11. CASE BeginRead(c)
    BY <2>11 DEF BeginRead, ReadyToRead, Acquire
  <2>12. CASE GiveUpRead(c)
    BY <2>12 DEF GiveUpRead, ReadyToRead, TimedOut, AcquireAbandoned
  <2>13. CASE RefuseRead(c)
    BY <2>13 DEF RefuseRead, Release
  <2>14. CASE PassCheck(c)
    BY <2>14 DEF PassCheck
  <2>15. CASE ReadSize(c)
    BY <2>15 DEF ReadSize
  <2>16. CASE ReadLow(c)
    BY <2>16 DEF ReadLow
  <2>17. CASE ReadHigh(c)
    BY <2>17 DEF ReadHigh
  <2>18. CASE EndRead(c)
    BY <2>18 DEF EndRead, Release
  <2>19. CASE EndThread(c)
    BY <2>19 DEF EndThread, Abandon
  <2> QED
    BY <1>13, <2>1, <2>2, <2>3, <2>4, <2>5, <2>6, <2>7, <2>8, <2>9, <2>10, <2>11, <2>12,
       <2>13, <2>14, <2>15, <2>16, <2>17, <2>18, <2>19 DEF ClientNext
<1>14. ASSUME NEW p \in Procs, Crash(p) PROVE MutexInv'
  BY <1>14 DEF Crash, Abandon
<1>15. CASE UNCHANGED vars
  BY <1>15 DEF vars
<1> QED
  BY <1>1, <1>2, <1>3, <1>4, <1>5, <1>6, <1>7, <1>8, <1>9, <1>10, <1>11, <1>12, <1>13, <1>14,
     <1>15 DEF Next, ServerNext

\* IInv is inductive.
LEMMA NextIInv == IInv /\ [Next]_vars => IInv'
<1> SUFFICES ASSUME IInv, [Next]_vars PROVE IInv'
  OBVIOUS
<1>1. FlagsOK'
  BY FlagsStep DEF IInv, TypeOK
<1> QED
  BY <1>1, TypeStep, MutexStep DEF IInv

\* IInv holds in every reachable state.
LEMMA SpecIInv == Spec => []IInv
  BY InitIInv, NextIInv, PTL DEF Spec

\* Every variable keeps its type: in particular no sequence of crashes,
\* restarts and abandoned waits makes one process hold the mutex three times
\* over, whatever the number of clients.
THEOREM TypeCorrect == Spec => []TypeOK
<1>1. IInv => TypeOK
  BY DEF IInv
<1> QED
  BY SpecIInv, <1>1, PTL

\* WriteFrame and ReadFrame exclude each other, for any number of clients,
\* crashes and restarts.
THEOREM Exclusive == Spec => []DataAccessExclusive
<1>1. IInv => DataAccessExclusive
  BY DEF IInv, MutexInv, DataAccessExclusive
<1> QED
  BY SpecIInv, <1>1, PTL

-----------------------------------------------------------------------------
(* What is read: as long as it is Calm, the server copies, publishes and   *)
(* numbers images in one order, and a client that is inside ReadFrame      *)
(* keeps all of that still.                                                *)

\* Before the only start nothing has happened; while it is being made nothing
\* is published, and clients that got past the header found it filled in.
StartInv ==
  /\ starts = 0 => \A p \in Procs : pc[p] = "off"
  /\ starts = 0 \/ Creating => published.num = 0 /\ published.id = 0
  /\ pc[Server] \in {"opened", "zeroed"} => ~hdr.ready
  /\ \A c \in Clients :
       pc[c] \notin {"off", "opened", "leaving"} =>
         hdr.ready /\ pc[Server] \notin {"opened", "zeroed"}

\* The header carries the number of the published image, the buffer that
\* image except where the server is copying the next one.
ImageInv ==
  /\ frameNumber = published.num /\ hdr.number = published.num
  /\ published.num # 0 => published.id # 0
  /\ published.id <= captured
  /\ pc[Server] \in {"wLo", "wHi", "pub"} => published.id # captured
  /\ data = [lo |-> IF pc[Server] \in {"wHi", "pub"} THEN captured ELSE published.id,
             hi |-> IF pc[Server] = "pub" THEN captured ELSE published.id]

\* A client has old images only, and copies the published one.
ReadInv ==
  \A c \in Clients :
    /\ last[c] <= published.num
    /\ pc[c] \in {"passed", "sized", "copyHi", "done"} => last[c] # published.num
    /\ pc[c] \in {"copyHi", "done"} => buf[c].lo = published.id
    /\ pc[c] = "done" => buf[c].hi = published.id
    /\ got[c].lo = got[c].hi /\ got[c].lo <= published.id
    /\ last[c] # published.num => got[c].lo # published.id

\* Before the first start there is no frame.
BlankInv ==
  starts = 0 => /\ pc[Server] = "off" /\ data = NoImage
                /\ published.num = 0 /\ published.id = 0

FrameInv == BlankInv /\ (Calm => StartInv /\ ImageInv /\ ReadInv)

\* Before the first start nothing exists, and no step but CreateObjects changes that.
LEMMA StartStep ==
  ASSUME IInv, StartInv, ImageInv, ReadInv, Calm', [Next]_vars
  PROVE  StartInv'
<1> USE ProcsAssumption, BoundsAssumption
    DEF IInv, TypeOK, Inside, Procs, ServerPoints, ClientPoints, ReadPoints, Calm,
        DiedWriting,
        Goto, Step, quietVars, mutexVars, eventVars, serverVars, clientVars, countVars,
        StartInv, Creating
<1>1. CASE CreateObjects
  BY <1>1 DEF CreateObjects, Attached, BlankHeader, NoImage
<1>2. CASE ZeroHeader
  BY <1>2 DEF ZeroHeader, BlankHeader
<1>3. CASE FillHeader
  BY <1>3 DEF FillHeader
<1>4. CASE ResetCount
  BY <1>4 DEF ResetCount
<1>5. CASE BeginWrite
  BY <1>5 DEF BeginWrite, Acquire
<1>6. CASE DropFrame
  BY <1>6 DEF DropFrame, TimedOut, AcquireAbandoned
<1>7. CASE CopyLow
  BY <1>7 DEF CopyLow
<1>8. CASE CopyHigh
  BY <1>8 DEF CopyHigh
<1>9. CASE Publish
  BY <1>9, SMTT(30) DEF Publish, SignalFrame, Waiting, Release
<1>10. CASE WaitForClients
  BY <1>10 DEF WaitForClients, LookForClients, TakeClientEvent, ClientTimeout
<1>11. CASE BeginClose
  BY <1>11 DEF BeginClose
<1>12. CASE EndClose
  BY <1>12 DEF EndClose, Abandon
<1>13. ASSUME NEW c \in Clients, ClientNext(c) PROVE StartInv'
  <2>1. CASE OpenObjects(c)
    BY <2>1 DEF OpenObjects, Attached
  <2>2. CASE RejectHeader(c)
    BY <2>2 DEF RejectHeader
  <2>3. CASE AcceptHeader(c)
    BY <2>3 DEF AcceptHeader
  <2>4. CASE SignalConnect(c)
    BY <2>4 DEF SignalConnect
  <2>5. CASE CountIn(c)
    BY <2>5 DEF CountIn, Nothing, NoImage
  <2>6. CASE CountOut(c)
    BY <2>6 DEF CountOut
  <2>7. CASE CloseObjects(c)
    BY <2>7 DEF CloseObjects
  <2>8. CASE TakeFrameEvent(c)
    BY <2>8 DEF TakeFrameEvent
  <2>9. CASE BlockOnFrame(c)
    BY <2>9 DEF BlockOnFrame
  <2>10. CASE WaitTimeout(c)
    BY <2>10 DEF WaitTimeout
  <2>11. CASE BeginRead(c)
    BY <2>11 DEF BeginRead, ReadyToRead, Acquire
  <2>12. CASE GiveUpRead(c)
    BY <2>12 DEF GiveUpRead, ReadyToRead, TimedOut, AcquireAbandoned
  <2>13. CASE RefuseRead(c)
    BY <2>13 DEF RefuseRead, Release
  <2>14. CASE PassCheck(c)
    BY <2>14 DEF PassCheck
  <2>15. CASE ReadSize(c)
    BY <2>15 DEF ReadSize
  <2>16. CASE ReadLow(c)
    BY <2>16 DEF ReadLow
  <2>17. CASE ReadHigh(c)
    BY <2>17 DEF ReadHigh
  <2>18. CASE EndRead(c)
    BY <2>18 DEF EndRead, Release
  <2>19. CASE EndThread(c)
    BY <2>19 DEF EndThread, Abandon
  <2> QED
    BY <1>13, <2>1, <2>2, <2>3, <2>4, <2>5, <2>6, <2>7, <2>8, <2>9, <2>10, <2>11, <2>12,
       <2>13, <2>14, <2>15, <2>16, <2>17, <2>18, <2>19 DEF ClientNext
<1>14. ASSUME NEW p \in Procs, Crash(p) PROVE StartInv'
  BY <1>14 DEF Crash, Abandon
<1>15. CASE UNCHANGED vars
  BY <1>15 DEF vars
<1> QED
  BY <1>1, <1>2, <1>3, <1>4, <1>5, <1>6, <1>7, <1>8, <1>9, <1>10, <1>11, <1>12, <1>13, <1>14,
     <1>15 DEF Next, ServerNext

\* What the server writes: outside WriteFrame the two halves of the buffer agree,
\* inside it they are on the way to the new image, and numbers and images grow.
LEMMA ImageStep ==
  ASSUME IInv, StartInv, ImageInv, ReadInv, Calm', [Next]_vars
  PROVE  ImageInv'
<1> USE ProcsAssumption, BoundsAssumption
    DEF IInv, TypeOK, Inside, Procs, ServerPoints, ClientPoints, ReadPoints, Calm,
        DiedWriting,
        Goto, Step, quietVars, mutexVars, eventVars, serverVars, clientVars, countVars,
        StartInv, Creating, ImageInv
<1>1. CASE CreateObjects
  BY <1>1 DEF CreateObjects, Attached, BlankHeader, NoImage
<1>2. CASE ZeroHeader
  BY <1>2 DEF ZeroHeader, BlankHeader
<1>3. CASE FillHeader
  BY <1>3 DEF FillHeader
<1>4. CASE ResetCount
  BY <1>4 DEF ResetCount
<1>5. CASE BeginWrite
  BY <1>5 DEF BeginWrite, Acquire
<1>6. CASE DropFrame
  BY <1>6 DEF DropFrame, TimedOut, AcquireAbandoned
<1>7. CASE CopyLow
  BY <1>7 DEF CopyLow
<1>8. CASE CopyHigh
  BY <1>8 DEF CopyHigh
<1>9. CASE Publish
  BY <1>9 DEF Publish, SignalFrame, Waiting, Release
<1>10. CASE WaitForClients
  BY <1>10 DEF WaitForClients, LookForClients, TakeClientEvent, ClientTimeout
<1>11. CASE BeginClose
  BY <1>11 DEF BeginClose
<1>12. CASE EndClose
  BY <1>12 DEF EndClose, Abandon
<1>13. ASSUME NEW c \in Clients, ClientNext(c) PROVE ImageInv'
  <2>1. CASE OpenObjects(c)
    BY <2>1 DEF OpenObjects, Attached
  <2>2. CASE RejectHeader(c)
    BY <2>2 DEF RejectHeader
  <2>3. CASE AcceptHeader(c)
    BY <2>3 DEF AcceptHeader
  <2>4. CASE SignalConnect(c)
    BY <2>4 DEF SignalConnect
  <2>5. CASE CountIn(c)
    BY <2>5 DEF CountIn, Nothing, NoImage
  <2>6. CASE CountOut(c)
    BY <2>6 DEF CountOut
  <2>7. CASE CloseObjects(c)
    BY <2>7 DEF CloseObjects
  <2>8. CASE TakeFrameEvent(c)
    BY <2>8 DEF TakeFrameEvent
  <2>9. CASE BlockOnFrame(c)
    BY <2>9 DEF BlockOnFrame
  <2>10. CASE WaitTimeout(c)
    BY <2>10 DEF WaitTimeout
  <2>11. CASE BeginRead(c)
    BY <2>11 DEF BeginRead, ReadyToRead, Acquire
  <2>12. CASE GiveUpRead(c)
    BY <2>12 DEF GiveUpRead, ReadyToRead, TimedOut, AcquireAbandoned
  <2>13. CASE RefuseRead(c)
    BY <2>13 DEF RefuseRead, Release
  <2>14. CASE PassCheck(c)
    BY <2>14 DEF PassCheck
  <2>15. CASE ReadSize(c)
    BY <2>15 DEF ReadSize
  <2>16. CASE ReadLow(c)
    BY <2>16 DEF ReadLow
  <2>17. CASE ReadHigh(c)
    BY <2>17 DEF ReadHigh
  <2>18. CASE EndRead(c)
    BY <2>18 DEF EndRead, Release
  <2>19. CASE EndThread(c)
    BY <2>19 DEF EndThread, Abandon
  <2> QED
    BY <1>13, <2>1, <2>2, <2>3, <2>4, <2>5, <2>6, <2>7, <2>8, <2>9, <2>10, <2>11, <2>12,
       <2>13, <2>14, <2>15, <2>16, <2>17, <2>18, <2>19 DEF ClientNext
<1>14. ASSUME NEW p \in Procs, Crash(p) PROVE ImageInv'
  BY <1>14 DEF Crash, Abandon
<1>15. CASE UNCHANGED vars
  BY <1>15 DEF vars
<1> QED
  BY <1>1, <1>2, <1>3, <1>4, <1>5, <1>6, <1>7, <1>8, <1>9, <1>10, <1>11, <1>12, <1>13, <1>14,
     <1>15 DEF Next, ServerNext

\* What a reader holds: the halves it has copied are those of the published image,
\* because the server cannot be inside WriteFrame at the same time.
LEMMA ReadStep ==
  ASSUME IInv, StartInv, ImageInv, ReadInv, Calm', [Next]_vars
  PROVE  ReadInv'
<1> USE ProcsAssumption, BoundsAssumption
    DEF IInv, TypeOK, Inside, Procs, ServerPoints, ClientPoints, ReadPoints, Calm,
        DiedWriting,
        Goto, Step, quietVars, mutexVars, eventVars, serverVars, clientVars, countVars,
        MutexInv, StartInv, Creating, ImageInv, ReadInv
<1>1. CASE CreateObjects
  BY <1>1 DEF CreateObjects, Attached, BlankHeader, NoImage
<1>2. CASE ZeroHeader
  BY <1>2 DEF ZeroHeader, BlankHeader
<1>3. CASE FillHeader
  BY <1>3 DEF FillHeader
<1>4. CASE ResetCount
  BY <1>4 DEF ResetCount
<1>5. CASE BeginWrite
  BY <1>5 DEF BeginWrite, Acquire
<1>6. CASE DropFrame
  BY <1>6 DEF DropFrame, TimedOut, AcquireAbandoned
<1>7. CASE CopyLow
  BY <1>7 DEF CopyLow
<1>8. CASE CopyHigh
  BY <1>8 DEF CopyHigh
<1>9. CASE Publish
  BY <1>9 DEF Publish, SignalFrame, Waiting, Release
<1>10. CASE WaitForClients
  BY <1>10 DEF WaitForClients, LookForClients, TakeClientEvent, ClientTimeout
<1>11. CASE BeginClose
  BY <1>11 DEF BeginClose
<1>12. CASE EndClose
  BY <1>12 DEF EndClose, Abandon
<1>13. ASSUME NEW c \in Clients, ClientNext(c) PROVE ReadInv'
  <2>1. CASE OpenObjects(c)
    BY <2>1 DEF OpenObjects, Attached
  <2>2. CASE RejectHeader(c)
    BY <2>2 DEF RejectHeader
  <2>3. CASE AcceptHeader(c)
    BY <2>3 DEF AcceptHeader
  <2>4. CASE SignalConnect(c)
    BY <2>4 DEF SignalConnect
  <2>5. CASE CountIn(c)
    BY <2>5 DEF CountIn, Nothing, NoImage
  <2>6. CASE CountOut(c)
    BY <2>6 DEF CountOut
  <2>7. CASE CloseObjects(c)
    BY <2>7 DEF CloseObjects
  <2>8. CASE TakeFrameEvent(c)
    BY <2>8 DEF TakeFrameEvent
  <2>9. CASE BlockOnFrame(c)
    BY <2>9 DEF BlockOnFrame
  <2>10. CASE WaitTimeout(c)
    BY <2>10 DEF WaitTimeout
  <2>11. CASE BeginRead(c)
    BY <2>11 DEF BeginRead, ReadyToRead, Acquire
  <2>12. CASE GiveUpRead(c)
    BY <2>12 DEF GiveUpRead, ReadyToRead, TimedOut, AcquireAbandoned
  <2>13. CASE RefuseRead(c)
    BY <2>13 DEF RefuseRead, Release
  <2>14. CASE PassCheck(c)
    BY <2>14 DEF PassCheck
  <2>15. CASE ReadSize(c)
    BY <2>15 DEF ReadSize
  <2>16. CASE ReadLow(c)
    <3>1. pc[c] = "sized" /\ pc' = [pc EXCEPT ![c] = "copyHi"]
      BY <2>16 DEF ReadLow
    <3>2. UNCHANGED <<published, last, got>>
      BY <2>16 DEF ReadLow
    <3>3. hdr.ready /\ data.lo = published.id
      BY <3>1
    <3>4. buf' = [buf EXCEPT ![c].lo = published.id]
      BY <2>16, <3>3 DEF ReadLow
    <3> QED
      BY <3>1, <3>2, <3>4
  <2>17. CASE ReadHigh(c)
    BY <2>17 DEF ReadHigh
  <2>18. CASE EndRead(c)
    BY <2>18 DEF EndRead, Release
  <2>19. CASE EndThread(c)
    BY <2>19 DEF EndThread, Abandon
  <2> QED
    BY <1>13, <2>1, <2>2, <2>3, <2>4, <2>5, <2>6, <2>7, <2>8, <2>9, <2>10, <2>11, <2>12,
       <2>13, <2>14, <2>15, <2>16, <2>17, <2>18, <2>19 DEF ClientNext
<1>14. ASSUME NEW p \in Procs, Crash(p) PROVE ReadInv'
  <2>1. UNCHANGED <<published, last, got, buf>>
    BY <1>14 DEF Crash
  <2>2. \A c \in Clients : pc'[c] = pc[c] \/ pc'[c] = "off"
    BY <1>14 DEF Crash
  <2> QED
    BY ONLY <2>1, <2>2, ReadInv DEF ReadInv
<1>15. CASE UNCHANGED vars
  BY <1>15 DEF vars
<1> QED
  BY <1>1, <1>2, <1>3, <1>4, <1>5, <1>6, <1>7, <1>8, <1>9, <1>10, <1>11, <1>12, <1>13, <1>14,
     <1>15 DEF Next, ServerNext

\* FrameInv holds at the start: nothing is written or read yet.
LEMMA InitFrameInv == Init => FrameInv
  BY ProcsAssumption
  DEF Init, FrameInv, BlankInv, StartInv, ImageInv, ReadInv, Creating, Procs, BlankHeader,
     NoImage, Nothing

\* Before the first start there is no frame, and the server is not there.
LEMMA BlankStep ==
  ASSUME IInv, BlankInv, [Next]_vars
  PROVE  BlankInv'
<1> SUFFICES ASSUME starts' = 0 PROVE BlankInv'
  BY DEF BlankInv
<1> USE ProcsAssumption, BoundsAssumption
    DEF IInv, TypeOK, Procs, Goto, Step, BlankInv, quietVars, serverVars, countVars
<1>1. CASE ServerNext
  BY <1>1 DEF ServerNext, CreateObjects, ZeroHeader, FillHeader, ResetCount, BeginWrite,
     DropFrame, CopyLow, CopyHigh, Publish, WaitForClients, LookForClients, TakeClientEvent,
     ClientTimeout, BeginClose, EndClose
<1>2. ASSUME NEW c \in Clients, ClientNext(c) PROVE BlankInv'
  BY <1>2 DEF ClientNext, OpenObjects, RejectHeader, AcceptHeader, SignalConnect, CountIn,
     CountOut, CloseObjects, TakeFrameEvent, BlockOnFrame, WaitTimeout, BeginRead, ReadyToRead,
     GiveUpRead, RefuseRead, PassCheck, ReadSize, ReadLow, ReadHigh, EndRead, EndThread
<1>3. ASSUME NEW p \in Procs, Crash(p) PROVE BlankInv'
  BY <1>3 DEF Crash
<1>4. CASE UNCHANGED vars
  BY <1>4 DEF vars
<1> QED
  BY <1>1, <1>2, <1>3, <1>4 DEF Next

\* A server that died writing does not come back with one start, and nobody
\* else mends the frame.
LEMMA CalmBefore ==
  ASSUME IInv, BlankInv, [Next]_vars, Calm'
  PROVE  Calm
<1>1. starts <= 1
  <2> USE BoundsAssumption DEF IInv, TypeOK, Calm, countVars, quietVars, Step
  <2>1. CASE ServerNext
    BY <2>1 DEF ServerNext, CreateObjects, ZeroHeader, FillHeader, ResetCount, BeginWrite,
       DropFrame, CopyLow, CopyHigh, Publish, WaitForClients, LookForClients,
       TakeClientEvent, ClientTimeout, BeginClose, EndClose
  <2>2. ASSUME NEW c \in Clients, ClientNext(c) PROVE starts <= 1
    BY <2>2 DEF ClientNext, OpenObjects, RejectHeader, AcceptHeader, SignalConnect, CountIn,
       CountOut, CloseObjects, TakeFrameEvent, BlockOnFrame, WaitTimeout, BeginRead,
       GiveUpRead, RefuseRead, PassCheck, ReadSize, ReadLow, ReadHigh, EndRead, EndThread
  <2>3. ASSUME NEW p \in Procs, Crash(p) PROVE starts <= 1
    BY <2>3 DEF Crash
  <2>4. CASE UNCHANGED vars
    BY <2>4 DEF vars
  <2> QED
    BY <2>1, <2>2, <2>3, <2>4 DEF Next
<1>2. ASSUME DiedWriting PROVE FALSE
  <2> USE ProcsAssumption, BoundsAssumption
      DEF IInv, TypeOK, Procs, Calm, DiedWriting, Goto, Step, quietVars, serverVars, countVars
  <2>1. starts = 1
    BY <1>1, <1>2 DEF BlankInv, NoImage
  <2>2. CASE ServerNext
    BY <1>2, <2>1, <2>2
       DEF ServerNext, CreateObjects, ZeroHeader, FillHeader, ResetCount, BeginWrite,
           DropFrame, CopyLow, CopyHigh, Publish, WaitForClients, LookForClients,
           TakeClientEvent, ClientTimeout, BeginClose, EndClose
  <2>3. ASSUME NEW c \in Clients, ClientNext(c) PROVE FALSE
    BY <1>2, <2>3
       DEF ClientNext, OpenObjects, RejectHeader, AcceptHeader, SignalConnect, CountIn,
           CountOut, CloseObjects, TakeFrameEvent, BlockOnFrame, WaitTimeout, BeginRead,
           ReadyToRead, GiveUpRead, RefuseRead, PassCheck, ReadSize, ReadLow, ReadHigh,
           EndRead, EndThread
  <2>4. ASSUME NEW p \in Procs, Crash(p) PROVE FALSE
    BY <1>2, <2>4 DEF Crash
  <2>5. CASE UNCHANGED vars
    BY <1>2, <2>5 DEF vars
  <2> QED
    BY <2>2, <2>3, <2>4, <2>5 DEF Next
<1> QED
  BY <1>1, <1>2 DEF Calm

\* FrameInv is inductive relative to IInv.
LEMMA NextFrameInv == IInv /\ FrameInv /\ [Next]_vars => FrameInv'
<1> SUFFICES ASSUME IInv, FrameInv, [Next]_vars, Calm'
             PROVE  StartInv' /\ ImageInv' /\ ReadInv'
  BY BlankStep DEF FrameInv
<1>1. StartInv /\ ImageInv /\ ReadInv
  BY CalmBefore DEF FrameInv
<1> QED
  BY <1>1, StartStep, ImageStep, ReadStep

\* FrameInv holds in every reachable state.
LEMMA SpecFrameInv == Spec => [](IInv /\ FrameInv)
<1>1. Init => IInv /\ FrameInv
  BY InitIInv, InitFrameInv
<1>2. (IInv /\ FrameInv) /\ [Next]_vars => (IInv /\ FrameInv)'
  BY NextIInv, NextFrameInv
<1> QED
  BY <1>1, <1>2, PTL DEF Spec

\* No client is ever handed a frame made of two images, whichever clients die
\* and wherever, as long as the server does not die in the middle of a frame
\* and is started once.
THEOREM FramesAreWhole == Spec => []WholeFrames
<1>1. IInv /\ FrameInv => WholeFrames
  BY DEF FrameInv, ReadInv, WholeFrames
<1> QED
  BY SpecFrameInv, <1>1, PTL

\* A server that is started once and a system in which nobody dies stay Calm:
\* the server leaves the frame only in Close, when it has published it.
LEMMA StaysCalm ==
  ASSUME MaxStarts <= 1, MaxCrashes = 0, IInv, IInv', FrameInv, Calm, [Next]_vars
  PROVE  Calm'
<1>1. starts' <= 1
  BY BoundsAssumption DEF IInv, TypeOK
<1>2. StartInv /\ ImageInv
  BY DEF FrameInv
<1>3. ASSUME DiedWriting' PROVE FALSE
  <2> USE ProcsAssumption
      DEF IInv, TypeOK, Procs, Goto, Step, quietVars, serverVars, countVars
  <2>1. pc'[Server] = "off" /\ data' # [lo |-> published'.id, hi |-> published'.id]
    BY <1>3 DEF DiedWriting
  <2>2. CASE ServerNext
    BY <1>2, <2>1, <2>2
       DEF ImageInv, ServerNext, CreateObjects, ZeroHeader, FillHeader, ResetCount, BeginWrite,
           DropFrame, CopyLow, CopyHigh, Publish, WaitForClients, LookForClients,
           TakeClientEvent, ClientTimeout, BeginClose, EndClose
  <2>3. ASSUME NEW c \in Clients, ClientNext(c) PROVE FALSE
    <3>1. pc'[Server] = pc[Server] /\ UNCHANGED <<data, published>>
      BY <2>3
         DEF ClientNext, OpenObjects, RejectHeader, AcceptHeader, SignalConnect, CountIn,
             CountOut, CloseObjects, TakeFrameEvent, BlockOnFrame, WaitTimeout, BeginRead,
             ReadyToRead, GiveUpRead, RefuseRead, PassCheck, ReadSize, ReadLow, ReadHigh,
             EndRead, EndThread
    <3> QED
      BY <2>1, <3>1 DEF Calm, DiedWriting
  <2>4. ASSUME NEW p \in Procs, Crash(p) PROVE FALSE
    BY <2>4, BoundsAssumption DEF Crash
  <2>5. CASE UNCHANGED vars
    BY <2>1, <2>5 DEF vars, Calm, DiedWriting
  <2> QED
    BY <2>2, <2>3, <2>4, <2>5 DEF Next
<1> QED
  BY <1>1, <1>3 DEF Calm

\* With one start and no crash it is Calm all the time, so what holds while it
\* is Calm holds of every behaviour of such a system.
THEOREM OneRunIsCalm ==
  ASSUME MaxStarts <= 1, MaxCrashes = 0
  PROVE  Spec => []Calm
<1>1. Init => Calm
  BY ProcsAssumption DEF Init, Calm, DiedWriting, Procs, NoImage
<1>2. (IInv /\ FrameInv) /\ (IInv /\ FrameInv)' /\ Calm /\ [Next]_vars => Calm'
  BY StaysCalm
<1> QED
  BY <1>1, <1>2, SpecFrameInv, PTL DEF Spec

-----------------------------------------------------------------------------
(* Implementing the channel.                                               *)

\* A step of the shared frame is a step of the channel or changes nothing of it.
LEMMA ChannelStep ==
  ASSUME IInv, StartInv, ImageInv, ReadInv, [Next]_vars, Calm'
  PROVE  [Channel!Next]_(Channel!cvars)
<1> USE DEF IInv, TypeOK, Goto, Step, quietVars, mutexVars, eventVars, serverVars, clientVars,
        countVars, Channel!cvars
<1> DEFINE Same == UNCHANGED <<published, last, got>>
<1>1. CASE ServerNext /\ ~Publish
  <2>1. Same
    BY <1>1 DEF ServerNext, CreateObjects, ZeroHeader, FillHeader, ResetCount, BeginWrite,
       DropFrame,
       CopyLow, CopyHigh, WaitForClients, LookForClients, TakeClientEvent, ClientTimeout,
     BeginClose, EndClose
  <2> QED
    BY <2>1
<1>2. CASE Publish
  <2>1. /\ published'.num = published.num + 1 /\ published'.id = captured
        /\ UNCHANGED <<last, got>>
    BY <1>2 DEF Publish, ImageInv
  <2>2. captured > published.id
    <3>1. captured \in Nat /\ published.id \in Nat
      BY BoundsAssumption
    <3>2. published.id <= captured /\ published.id # captured
      BY <1>2 DEF Publish, ImageInv
    <3> QED
      BY ONLY <3>1, <3>2
  <2>3. published' \in [num : {published.num + 1}, id : Nat]
    BY <1>2, BoundsAssumption DEF Publish, ImageInv
  <2>4. Channel!Publish
    BY <2>1, <2>2, <2>3 DEF Channel!Publish
  <2> QED
    BY <2>4 DEF Channel!Next
<1>3. ASSUME NEW c \in Clients, ClientNext(c) PROVE [Channel!Next]_(Channel!cvars)
  <2>1. CASE CountIn(c)
    <3>1. Channel!Join(c)
      BY <2>1 DEF CountIn, Channel!Join, Nothing, Channel!Nothing
    <3> QED
      BY <3>1 DEF Channel!Next
  <2>2. CASE EndRead(c)
    <3>1. /\ last[c] < published.num /\ hdr.number = published.num
          /\ buf[c].lo = published.id /\ buf[c].hi = published.id
      <4>1. pc[c] = "done"
        BY <2>2 DEF EndRead
      <4>2. /\ last[c] <= published.num /\ last[c] # published.num
            /\ buf[c].lo = published.id /\ buf[c].hi = published.id
        BY <4>1 DEF ReadInv
      <4>3. hdr.number = published.num
        BY DEF ImageInv
      <4>4. last[c] \in Nat /\ published.num \in Nat
        OBVIOUS
      <4> QED
        BY ONLY <4>2, <4>3, <4>4
    <3>2. Channel!Deliver(c)
      BY <2>2, <3>1 DEF EndRead, Channel!Deliver
    <3> QED
      BY <3>2 DEF Channel!Next
  <2>3. CASE ~CountIn(c) /\ ~EndRead(c)
    <3>1. Same
      BY <1>3, <2>3 DEF ClientNext, OpenObjects, RejectHeader, AcceptHeader, SignalConnect,
         CountOut,
         CloseObjects, TakeFrameEvent, BlockOnFrame, WaitTimeout, BeginRead, GiveUpRead,
         RefuseRead,
         PassCheck, ReadSize, ReadLow, ReadHigh, EndThread
    <3> QED
      BY <3>1
  <2> QED
    BY <2>1, <2>2, <2>3
<1>4. ASSUME NEW p \in Procs, Crash(p) PROVE Same
  BY <1>4 DEF Crash
<1>5. CASE UNCHANGED vars
  BY <1>5 DEF vars
<1> QED
  BY <1>1, <1>2, <1>3, <1>4, <1>5 DEF Next

\* While it is Calm, however clients come, go, contend and die, what they see
\* is the channel: the newest published image, whole, once (cpp:167, cpp:333).
THEOREM FrameImplementsChannel == Spec /\ []Calm => ImplementsChannel
<1>1. Init => Channel!Init
  BY DEF Init, Channel!Init, Nothing, Channel!Nothing
<1>2. (IInv /\ FrameInv) /\ Calm /\ Calm' /\ [Next]_vars => [Channel!Next]_(Channel!cvars)
  BY ChannelStep DEF FrameInv
<1> QED
  BY <1>1, <1>2, SpecFrameInv, PTL DEF Spec, ImplementsChannel, Channel!Spec

\* Only the end of ReadFrame takes a client from "done" to "up".
LEMMA OnlyEndRead ==
  ASSUME TypeOK, [Next]_vars, NEW c \in Clients, pc[c] = "done", pc'[c] = "up"
  PROVE  EndRead(c)
<1> USE ProcsAssumption DEF TypeOK, Goto, Step, Procs
<1>1. CASE ServerNext
  BY <1>1 DEF ServerNext, CreateObjects, ZeroHeader, FillHeader, ResetCount, BeginWrite,
     DropFrame,
     CopyLow, CopyHigh, Publish, SignalFrame, Waiting, WaitForClients, LookForClients,
     TakeClientEvent, ClientTimeout, BeginClose, EndClose
<1>2. ASSUME NEW d \in Clients, ClientNext(d) PROVE EndRead(c)
  BY <1>2 DEF ClientNext, OpenObjects, RejectHeader, AcceptHeader, SignalConnect, CountIn,
     CountOut,
     CloseObjects, TakeFrameEvent, BlockOnFrame, WaitTimeout, BeginRead, ReadyToRead,
     GiveUpRead,
     RefuseRead, PassCheck, ReadSize, ReadLow, ReadHigh, EndRead, EndThread
<1>3. ASSUME NEW p \in Procs, Crash(p) PROVE FALSE
  BY <1>3 DEF Crash
<1>4. CASE UNCHANGED vars
  BY <1>4 DEF vars
<1> QED
  BY <1>1, <1>2, <1>3, <1>4 DEF Next

\* While it is Calm a successful ReadFrame always returns a later image than
\* the one before it in that connection (cpp:333).
THEOREM ReadsAreFresh == Spec /\ []Calm => FreshDelivery
<1>1. ASSUME IInv, FrameInv, Calm, [Next]_vars, NEW c \in Clients, pc[c] = "done", pc'[c] = "up"
      PROVE  got'[c].lo > got[c].lo
  <2>2. last[c] # published.num /\ buf[c].lo = published.id
    BY <1>1 DEF FrameInv, ReadInv
  <2>3. got[c].lo < published.id
    <3>1. got[c].lo \in Nat /\ published.id \in Nat
      BY <1>1 DEF IInv, TypeOK
    <3>2. got[c].lo <= published.id /\ got[c].lo # published.id
      BY <1>1, <2>2 DEF FrameInv, ReadInv
    <3> QED
      BY <3>1, <3>2
  <2>4. EndRead(c)
    BY <1>1, OnlyEndRead DEF IInv
  <2>5. got'[c].lo = buf[c].lo
    BY <1>1, <2>4 DEF EndRead, IInv, TypeOK
  <2>6. got[c].lo \in Nat /\ published.id \in Nat
    BY <1>1 DEF IInv, TypeOK
  <2> QED
    BY <2>2, <2>3, <2>5, <2>6
<1>2. (IInv /\ FrameInv) /\ Calm /\ [Next]_vars =>
        [\A c \in Clients :
           pc[c] = "done" /\ pc'[c] = "up" => got'[c].lo > got[c].lo]_vars
  BY <1>1
<1> QED
  BY <1>2, SpecFrameInv, PTL DEF Spec, FreshDelivery

-----------------------------------------------------------------------------
(* The count, for any number of clients and crashes: one start, no Connect *)
(* before Create is done.                                                  *)

\* Nobody connects before the header is filled in, so nobody is rejected and
\* Create resets a count of nobody.
EarlyInv ==
  /\ starts = 0 => \A p \in Procs : pc[p] = "off"
  /\ Creating => starts # 0
  /\ Creating \/ ~hdr.ready => \A c \in Clients : pc[c] = "off"
  /\ ~hdr.ready => pc[Server] \in {"off", "opened", "zeroed"}

Surplus == hdr.count - Cardinality(Counted)
SurplusInv == Surplus \in 0..crashes

Patient == MaxStarts <= 1 /\ ~ConnectDuringCreate

\* The connected clients are finitely many: the assumption on Clients.
LEMMA CountedFinite == IsFiniteSet(Counted)
  BY ProcsAssumption, FS_Subset DEF Counted

\* Who connects when, and what the header looks like then.
LEMMA EarlyStep ==
  ASSUME Patient, IInv, EarlyInv, [Next]_vars
  PROVE  EarlyInv'
<1> USE ProcsAssumption, BoundsAssumption
    DEF IInv, TypeOK, Procs, ServerPoints, ClientPoints, ReadPoints, Patient,
        Goto, Step, quietVars, mutexVars, eventVars, serverVars, clientVars, countVars,
        EarlyInv, Creating, Attached
<1>1. CASE CreateObjects
  BY <1>1 DEF CreateObjects, Attached, BlankHeader, NoImage
<1>2. CASE ZeroHeader
  BY <1>2 DEF ZeroHeader, BlankHeader
<1>3. CASE FillHeader
  BY <1>3 DEF FillHeader
<1>4. CASE ResetCount
  BY <1>4 DEF ResetCount
<1>5. CASE BeginWrite
  BY <1>5 DEF BeginWrite, Acquire
<1>6. CASE DropFrame
  BY <1>6 DEF DropFrame, TimedOut, AcquireAbandoned
<1>7. CASE CopyLow
  BY <1>7 DEF CopyLow
<1>8. CASE CopyHigh
  BY <1>8 DEF CopyHigh
<1>9. CASE Publish
  BY <1>9 DEF Publish, SignalFrame, Waiting, Release
<1>10. CASE WaitForClients
  BY <1>10 DEF WaitForClients, LookForClients, TakeClientEvent, ClientTimeout
<1>11. CASE BeginClose
  BY <1>11 DEF BeginClose
<1>12. CASE EndClose
  BY <1>12 DEF EndClose, Abandon
<1>13. ASSUME NEW c \in Clients, ClientNext(c) PROVE EarlyInv'
  <2>1. CASE OpenObjects(c)
    BY <2>1 DEF OpenObjects, Attached
  <2>2. CASE RejectHeader(c)
    BY <2>2 DEF RejectHeader
  <2>3. CASE AcceptHeader(c)
    BY <2>3 DEF AcceptHeader
  <2>4. CASE SignalConnect(c)
    BY <2>4 DEF SignalConnect
  <2>5. CASE CountIn(c)
    BY <2>5 DEF CountIn, Nothing, NoImage
  <2>6. CASE CountOut(c)
    BY <2>6 DEF CountOut
  <2>7. CASE CloseObjects(c)
    BY <2>7 DEF CloseObjects
  <2>8. CASE TakeFrameEvent(c)
    BY <2>8 DEF TakeFrameEvent
  <2>9. CASE BlockOnFrame(c)
    BY <2>9 DEF BlockOnFrame
  <2>10. CASE WaitTimeout(c)
    BY <2>10 DEF WaitTimeout
  <2>11. CASE BeginRead(c)
    BY <2>11 DEF BeginRead, ReadyToRead, Acquire
  <2>12. CASE GiveUpRead(c)
    BY <2>12 DEF GiveUpRead, ReadyToRead, TimedOut, AcquireAbandoned
  <2>13. CASE RefuseRead(c)
    BY <2>13 DEF RefuseRead, Release
  <2>14. CASE PassCheck(c)
    BY <2>14 DEF PassCheck
  <2>15. CASE ReadSize(c)
    BY <2>15 DEF ReadSize
  <2>16. CASE ReadLow(c)
    BY <2>16 DEF ReadLow
  <2>17. CASE ReadHigh(c)
    BY <2>17 DEF ReadHigh
  <2>18. CASE EndRead(c)
    BY <2>18 DEF EndRead, Release
  <2>19. CASE EndThread(c)
    BY <2>19 DEF EndThread, Abandon
  <2> QED
    BY <1>13, <2>1, <2>2, <2>3, <2>4, <2>5, <2>6, <2>7, <2>8, <2>9, <2>10, <2>11, <2>12,
       <2>13, <2>14, <2>15, <2>16, <2>17, <2>18, <2>19 DEF ClientNext
<1>14. ASSUME NEW p \in Procs, Crash(p) PROVE EarlyInv'
  BY <1>14 DEF Crash, Abandon
<1>15. CASE UNCHANGED vars
  BY <1>15 DEF vars
<1> QED
  BY <1>1, <1>2, <1>3, <1>4, <1>5, <1>6, <1>7, <1>8, <1>9, <1>10, <1>11, <1>12, <1>13, <1>14,
     <1>15 DEF Next, ServerNext

\* Initialising the header counts nobody, and there is nobody.
LEMMA CreateCountsNobody ==
  ASSUME Patient, IInv, EarlyInv, CreateObjects \/ ZeroHeader \/ ResetCount
  PROVE  hdr'.count = 0 /\ Counted' = {} /\ crashes' = crashes
<1> USE ProcsAssumption, BoundsAssumption
    DEF IInv, TypeOK, Procs, ServerPoints, ClientPoints, ReadPoints, Patient,
        Goto, Step, quietVars, mutexVars, eventVars, serverVars, clientVars, countVars,
        EarlyInv, Creating, Counted
<1>1. CASE CreateObjects
  <2>1. starts = 0 /\ Attached = {}
    BY <1>1 DEF CreateObjects, Attached
  <2> QED
    BY <1>1, <2>1 DEF CreateObjects, BlankHeader
<1>2. CASE ZeroHeader
  BY <1>2 DEF ZeroHeader, BlankHeader
<1>3. CASE ResetCount
  BY <1>3 DEF ResetCount
<1> QED
  BY <1>1, <1>2, <1>3

\* Connect and Disconnect move the count with the set of the connected.
LEMMA CountMoves ==
  ASSUME IInv, NEW c \in Clients
  PROVE  /\ CountIn(c) => /\ c \notin Counted /\ Counted' = Counted \cup {c}
                          /\ hdr'.count = hdr.count + 1 /\ crashes' = crashes
         /\ CountOut(c) => /\ c \in Counted /\ Counted' = Counted \ {c}
                           /\ hdr'.count = hdr.count - 1 /\ crashes' = crashes
<1> USE ProcsAssumption, BoundsAssumption
    DEF IInv, TypeOK, Procs, ServerPoints, ClientPoints, ReadPoints, Patient,
        Goto, Step, quietVars, mutexVars, eventVars, serverVars, clientVars, countVars, Counted
<1>1. CASE CountIn(c)
  <2>1. pc' = [pc EXCEPT ![c] = "up"] /\ pc[c] = "signalled"
    BY <1>1 DEF CountIn
  <2>2. c \notin Counted /\ Counted' = Counted \cup {c}
    BY <2>1
  <2> QED
    BY <1>1, <2>2 DEF CountIn, CountOut
<1>2. CASE CountOut(c)
  <2>1. pc' = [pc EXCEPT ![c] = "leaving"] /\ pc[c] = "up"
    BY <1>2 DEF CountOut
  <2>2. c \in Counted /\ Counted' = Counted \ {c}
    BY <2>1
  <2> QED
    BY <1>2, <2>2 DEF CountIn, CountOut
<1> QED
  BY <1>1, <1>2

\* A process that dies leaves the count as it is.
LEMMA CrashLeavesCount ==
  ASSUME IInv, NEW p \in Procs, Crash(p)
  PROVE  Counted' = Counted \ {p} /\ hdr'.count = hdr.count /\ crashes' = crashes + 1
  BY ProcsAssumption DEF IInv, TypeOK, Procs, ReadPoints, Counted, Crash

\* Nothing else touches it.
LEMMA CountStays ==
  ASSUME Patient, IInv, EarlyInv,
         \/ ServerNext /\ ~(CreateObjects \/ ZeroHeader \/ ResetCount)
         \/ \E c \in Clients : ClientNext(c) /\ ~(CountIn(c) \/ CountOut(c))
         \/ UNCHANGED vars
  PROVE  Counted' = Counted /\ hdr'.count = hdr.count /\ crashes' = crashes
<1> USE ProcsAssumption, BoundsAssumption
    DEF IInv, TypeOK, Procs, ServerPoints, ClientPoints, ReadPoints, Patient,
        Goto, Step, quietVars, mutexVars, eventVars, serverVars, clientVars, countVars,
        EarlyInv, Creating, Counted
<1> DEFINE Same == Counted' = Counted /\ hdr'.count = hdr.count /\ crashes' = crashes
<1>1. ASSUME ServerNext, ~(CreateObjects \/ ZeroHeader \/ ResetCount) PROVE Same
  <2>1. CASE FillHeader
    BY <2>1 DEF FillHeader
  <2>2. CASE BeginWrite
    BY <2>2 DEF BeginWrite, Acquire
  <2>3. CASE DropFrame
    BY <2>3 DEF DropFrame, TimedOut, AcquireAbandoned
  <2>4. CASE CopyLow
    BY <2>4 DEF CopyLow
  <2>5. CASE CopyHigh
    BY <2>5 DEF CopyHigh
  <2>6. CASE Publish
    BY <2>6 DEF Publish, SignalFrame, Waiting, Release
  <2>7. CASE WaitForClients
    BY <2>7 DEF WaitForClients, LookForClients, TakeClientEvent, ClientTimeout
  <2>8. CASE BeginClose
    BY <2>8 DEF BeginClose
  <2>9. CASE EndClose
    BY <2>9 DEF EndClose, Abandon
  <2> QED
    BY <1>1, <2>1, <2>2, <2>3, <2>4, <2>5, <2>6, <2>7, <2>8, <2>9 DEF ServerNext
<1>2. ASSUME NEW c \in Clients, ClientNext(c), ~(CountIn(c) \/ CountOut(c)) PROVE Same
  <2>1. CASE OpenObjects(c)
    BY <2>1 DEF OpenObjects, Attached
  <2>2. CASE RejectHeader(c)
    BY <2>2 DEF RejectHeader
  <2>3. CASE AcceptHeader(c)
    BY <2>3 DEF AcceptHeader
  <2>4. CASE SignalConnect(c)
    BY <2>4 DEF SignalConnect
  <2>5. CASE CloseObjects(c)
    BY <2>5 DEF CloseObjects
  <2>6. CASE TakeFrameEvent(c)
    BY <2>6 DEF TakeFrameEvent
  <2>7. CASE BlockOnFrame(c)
    BY <2>7 DEF BlockOnFrame
  <2>8. CASE WaitTimeout(c)
    BY <2>8 DEF WaitTimeout
  <2>9. CASE BeginRead(c)
    BY <2>9 DEF BeginRead, ReadyToRead, Acquire
  <2>10. CASE GiveUpRead(c)
    BY <2>10 DEF GiveUpRead, ReadyToRead, TimedOut, AcquireAbandoned
  <2>11. CASE RefuseRead(c)
    BY <2>11 DEF RefuseRead, Release
  <2>12. CASE PassCheck(c)
    BY <2>12 DEF PassCheck
  <2>13. CASE ReadSize(c)
    BY <2>13 DEF ReadSize
  <2>14. CASE ReadLow(c)
    BY <2>14 DEF ReadLow
  <2>15. CASE ReadHigh(c)
    BY <2>15 DEF ReadHigh
  <2>16. CASE EndRead(c)
    BY <2>16 DEF EndRead, Release
  <2>17. CASE EndThread(c)
    BY <2>17 DEF EndThread, Abandon
  <2> QED
    BY <1>2, <2>1, <2>2, <2>3, <2>4, <2>5, <2>6, <2>7, <2>8, <2>9, <2>10, <2>11, <2>12, <2>13,
       <2>14, <2>15, <2>16, <2>17 DEF ClientNext
<1>3. CASE UNCHANGED vars
  BY <1>3 DEF vars
<1> QED
  BY <1>1, <1>2, <1>3

\* No step lowers the surplus of clientCount over the connected clients, and only
\* a death raises it, by one: the sum of the lemmas above.
LEMMA SurplusStep ==
  ASSUME Patient, IInv, EarlyInv, SurplusInv, [Next]_vars
  PROVE  SurplusInv'
<1>0. /\ Cardinality(Counted) \in Nat /\ hdr.count \in Int /\ crashes \in Nat
      /\ hdr.count - Cardinality(Counted) \in 0..crashes
  BY CountedFinite, FS_CardinalityType, BoundsAssumption DEF IInv, TypeOK, SurplusInv, Surplus
<1>1. CASE CreateObjects \/ ZeroHeader \/ ResetCount
  BY <1>0, <1>1, CreateCountsNobody, FS_EmptySet DEF SurplusInv, Surplus
<1>2. ASSUME NEW c \in Clients, CountIn(c) PROVE SurplusInv'
  <2>1. Cardinality(Counted') = Cardinality(Counted) + 1
    BY <1>2, CountMoves, CountedFinite, FS_AddElement
  <2> QED
    BY <1>0, <1>2, <2>1, CountMoves DEF SurplusInv, Surplus
<1>3. ASSUME NEW c \in Clients, CountOut(c) PROVE SurplusInv'
  <2>1. Cardinality(Counted') = Cardinality(Counted) - 1
    BY <1>3, CountMoves, CountedFinite, FS_RemoveElement
  <2> QED
    BY <1>0, <1>3, <2>1, CountMoves DEF SurplusInv, Surplus
<1>4. ASSUME NEW p \in Procs, Crash(p) PROVE SurplusInv'
  <2>1. Cardinality(Counted') = IF p \in Counted THEN Cardinality(Counted) - 1
                                                 ELSE Cardinality(Counted)
    BY <1>4, CrashLeavesCount, CountedFinite, FS_RemoveElement
  <2> QED
    BY <1>0, <1>4, <2>1, CrashLeavesCount DEF SurplusInv, Surplus
<1>5. CASE \/ ServerNext /\ ~(CreateObjects \/ ZeroHeader \/ ResetCount)
           \/ \E c \in Clients : ClientNext(c) /\ ~(CountIn(c) \/ CountOut(c))
           \/ UNCHANGED vars
  <2>1. Counted' = Counted /\ hdr'.count = hdr.count /\ crashes' = crashes
    BY <1>5, CountStays
  <2> QED
    BY <1>0, <2>1 DEF SurplusInv, Surplus
<1> QED
  BY <1>1, <1>2, <1>3, <1>4, <1>5 DEF Next

\* With one start, and clients that wait for Create to be done, clientCount is
\* the number of connected clients, plus at most one for each process that
\* died, for any number of clients.
THEOREM CountIsRight ==
  ASSUME MaxStarts <= 1, ~ConnectDuringCreate
  PROVE  Spec => []CountCovers
<1> DEFINE I == IInv /\ EarlyInv /\ SurplusInv
<1>1. Init => I
  <2> SUFFICES ASSUME Init PROVE EarlyInv /\ SurplusInv
    BY InitIInv
  <2>1. EarlyInv
    BY ProcsAssumption DEF Init, EarlyInv, Creating, Procs, BlankHeader
  <2>2. Counted = {} /\ hdr.count = 0 /\ crashes = 0
    BY DEF Init, Counted, Procs, ReadPoints, BlankHeader
  <2> QED
    BY <2>1, <2>2, FS_EmptySet DEF SurplusInv, Surplus
<1>2. I /\ [Next]_vars => I'
  BY NextIInv, EarlyStep, SurplusStep DEF Patient
<1>3. I => CountCovers
  BY DEF SurplusInv, Surplus, CountCovers
<1> QED
  BY <1>1, <1>2, <1>3, PTL DEF Spec

-----------------------------------------------------------------------------
(* Implementing the counter, whatever the bounds are.                      *)

\* Once Create has filled in the header it stays so; who has the client event
\* open is past the header.
HolderInv ==
  /\ pc[Server] = "filled" \/ Up => hdr.ready
  /\ \A c \in evtOpen : pc[c] \notin {"off", "opened", "valid"}

\* Only ZeroHeader empties a header, before it is up; Disconnect and a death
\* close the event with the connection.
LEMMA HolderStep ==
  ASSUME IInv, HolderInv, [Next]_vars
  PROVE  HolderInv'
<1> USE ProcsAssumption
    DEF IInv, TypeOK, Procs, ServerPoints, ClientPoints, ReadPoints,
        Goto, Step, quietVars, mutexVars, eventVars, serverVars, clientVars, countVars,
        HolderInv, Up
<1>1. CASE CreateObjects \/ ZeroHeader \/ FillHeader \/ ResetCount
  <2>1. CASE CreateObjects
    BY <2>1 DEF CreateObjects
  <2>2. CASE ZeroHeader
    BY <2>2 DEF ZeroHeader
  <2>3. CASE FillHeader
    BY <2>3 DEF FillHeader
  <2>4. CASE ResetCount
    BY <2>4 DEF ResetCount
  <2> QED
    BY <1>1, <2>1, <2>2, <2>3, <2>4
<1>2. CASE BeginWrite \/ DropFrame \/ CopyLow \/ CopyHigh
  BY <1>2 DEF BeginWrite, Acquire, DropFrame, TimedOut, AcquireAbandoned, CopyLow, CopyHigh
<1>3. CASE Publish
  BY <1>3 DEF Publish, SignalFrame, Waiting
<1>4. CASE WaitForClients \/ BeginClose \/ EndClose
  BY <1>4 DEF WaitForClients, LookForClients, TakeClientEvent, ClientTimeout, BeginClose,
     EndClose
<1>5. ASSUME NEW c \in Clients, ClientNext(c) PROVE HolderInv'
  <2>1. CASE OpenObjects(c) \/ RejectHeader(c) \/ AcceptHeader(c)
    BY <2>1 DEF OpenObjects, RejectHeader, AcceptHeader
  <2>2. CASE SignalConnect(c)
    <3>1. pc' = [pc EXCEPT ![c] = "signalled"] /\ evtOpen' \subseteq evtOpen \cup {c}
      BY <2>2 DEF SignalConnect
    <3>2. hdr' = hdr
      BY <2>2 DEF SignalConnect
    <3> QED
      BY <3>1, <3>2
  <2>3. CASE CountIn(c) \/ CountOut(c)
    BY <2>3 DEF CountIn, CountOut
  <2>4. CASE CloseObjects(c)
    BY <2>4 DEF CloseObjects
  <2>5. CASE TakeFrameEvent(c) \/ BlockOnFrame(c) \/ WaitTimeout(c)
    BY <2>5 DEF TakeFrameEvent, BlockOnFrame, WaitTimeout
  <2>6. CASE BeginRead(c) \/ GiveUpRead(c) \/ RefuseRead(c) \/ PassCheck(c)
    BY <2>6 DEF BeginRead, GiveUpRead, ReadyToRead, RefuseRead, PassCheck
  <2>7. CASE ReadSize(c) \/ ReadLow(c) \/ ReadHigh(c) \/ EndRead(c)
    <3>1. CASE ReadSize(c)
      BY <3>1 DEF ReadSize
    <3>2. CASE ReadLow(c)
      BY <3>2 DEF ReadLow
    <3>3. CASE ReadHigh(c)
      BY <3>3 DEF ReadHigh
    <3>4. CASE EndRead(c)
      BY <3>4 DEF EndRead
    <3> QED
      BY <2>7, <3>1, <3>2, <3>3, <3>4
  <2>8. CASE EndThread(c)
    BY <2>8 DEF EndThread
  <2> QED
    BY <1>5, <2>1, <2>2, <2>3, <2>4, <2>5, <2>6, <2>7, <2>8 DEF ClientNext
<1>6. ASSUME NEW p \in Procs, Crash(p) PROVE HolderInv'
  BY <1>6 DEF Crash
<1>7. CASE UNCHANGED vars
  BY <1>7 DEF vars
<1> QED
  BY <1>1, <1>2, <1>3, <1>4, <1>5, <1>6, <1>7 DEF Next, ServerNext

\* What client c does is what a client of the counter does, or nobody can tell.
LEMMA ClientCounterStep ==
  ASSUME IInv, HolderInv, NEW c \in Clients, ClientNext(c)
  PROVE  [Counter!Next]_(Counter!kvars)
<1> USE ProcsAssumption
    DEF IInv, TypeOK, Procs, ServerPoints, ClientPoints, ReadPoints,
        Goto, Step, quietVars, mutexVars, eventVars, serverVars, clientVars, countVars,
        HolderInv, Up, place
<1>1. CASE OpenObjects(c) \/ AcceptHeader(c)
  BY <1>1 DEF OpenObjects, AcceptHeader, Counter!kvars
<1>2. CASE RejectHeader(c)
  <2>1. Counter!Reject
    BY <1>2 DEF RejectHeader, Counter!Reject
  <2> QED
    BY <2>1 DEF Counter!Next
<1>3. CASE SignalConnect(c)
  <2>1. Counter!Signal(c)
    BY <1>3 DEF SignalConnect, Counter!Signal, Counter!Move
  <2> QED
    BY <2>1 DEF Counter!Next
<1>4. CASE CountIn(c)
  <2>1. Counter!CountIn(c)
    BY <1>4 DEF CountIn, Counter!CountIn, Counter!Move
  <2> QED
    BY <2>1 DEF Counter!Next
<1>5. CASE CountOut(c)
  <2>1. Counter!CountOut(c)
    BY <1>5 DEF CountOut, Counter!CountOut, Counter!Move
  <2> QED
    BY <2>1 DEF Counter!Next
<1>6. CASE CloseObjects(c)
  <2>1. Counter!Leave(c)
    BY <1>6 DEF CloseObjects, Counter!Leave, Counter!Move
  <2> QED
    BY <2>1 DEF Counter!Next
<1>7. CASE TakeFrameEvent(c) \/ BlockOnFrame(c) \/ WaitTimeout(c)
  BY <1>7 DEF TakeFrameEvent, BlockOnFrame, WaitTimeout, Counter!kvars
<1>8. CASE BeginRead(c) \/ GiveUpRead(c) \/ RefuseRead(c) \/ PassCheck(c)
  BY <1>8 DEF BeginRead, GiveUpRead, ReadyToRead, RefuseRead, PassCheck, Counter!kvars
<1>9. CASE ReadSize(c) \/ ReadLow(c) \/ ReadHigh(c) \/ EndRead(c)
  BY <1>9 DEF ReadSize, ReadLow, ReadHigh, EndRead, Counter!kvars
<1>10. CASE EndThread(c)
  BY <1>10 DEF EndThread, Counter!kvars
<1> QED
  BY <1>1, <1>2, <1>3, <1>4, <1>5, <1>6, <1>7, <1>8, <1>9, <1>10 DEF ClientNext

\* So is what the server does, what the capture process does there.
LEMMA ServerCounterStep ==
  ASSUME IInv, HolderInv, ServerNext
  PROVE  [Counter!Next]_(Counter!kvars)
<1> USE ProcsAssumption
    DEF IInv, TypeOK, FlagsOK, Procs, ServerPoints, ClientPoints, ReadPoints,
        Goto, Step, quietVars, mutexVars, eventVars, serverVars, clientVars, countVars,
        HolderInv, Up, place
<1>1. CASE CreateObjects \/ ZeroHeader \/ ResetCount
  <2>1. Counter!Clear
    BY <1>1 DEF CreateObjects, Attached, ZeroHeader, ResetCount, BlankHeader, Counter!Clear
  <2> QED
    BY <2>1 DEF Counter!Next
<1>2. CASE FillHeader
  BY <1>2 DEF FillHeader, Counter!kvars
<1>3. CASE BeginWrite \/ DropFrame \/ CopyLow \/ CopyHigh
  BY <1>3 DEF BeginWrite, Acquire, DropFrame, TimedOut, AcquireAbandoned, CopyLow, CopyHigh,
     Counter!kvars
<1>4. CASE Publish
  BY <1>4 DEF Publish, SignalFrame, Waiting, Counter!kvars
<1>5. CASE TakeClientEvent
  <2>1. Counter!TakeEvent
    BY <1>5 DEF TakeClientEvent, Counter!TakeEvent
  <2> QED
    BY <2>1 DEF Counter!Next
<1>6. CASE LookForClients \/ ClientTimeout \/ BeginClose
  BY <1>6 DEF LookForClients, ClientTimeout, BeginClose, Counter!kvars
<1>7. CASE EndClose
  <2>1. Counter!GoAway
    BY <1>7 DEF EndClose, Counter!GoAway
  <2> QED
    BY <2>1 DEF Counter!Next
<1> QED
  BY <1>1, <1>2, <1>3, <1>4, <1>5, <1>6, <1>7 DEF ServerNext, WaitForClients

\* A process that dies is the capture process or a client of the counter.
LEMMA CrashCounterStep ==
  ASSUME IInv, HolderInv, NEW p \in Procs, Crash(p)
  PROVE  [Counter!Next]_(Counter!kvars)
<1> USE ProcsAssumption
    DEF IInv, TypeOK, Procs, ServerPoints, ClientPoints, ReadPoints, HolderInv, Up,
        place, Crash, serverVars, clientVars
<1>1. CASE p = Server /\ Up
  <2>1. Counter!GoAway
    BY <1>1 DEF Counter!GoAway
  <2> QED
    BY <2>1 DEF Counter!Next
<1>2. CASE p = Server /\ ~Up
  BY <1>2 DEF Counter!kvars
<1>3. CASE p \in Clients /\ place[p] # "off"
  <2>1. Counter!Die(p)
    BY <1>3 DEF Counter!Die, Counter!Move
  <2> QED
    BY <1>3, <2>1 DEF Counter!Next
<1>4. CASE p \in Clients /\ place[p] = "off"
  <2>1. evtOpen' = evtOpen
    <3>1. p \notin evtOpen
      BY <1>4
    <3> QED
      BY <3>1
  <2>2. place' = place
    BY <1>4
  <2>3. Up' = Up /\ hdr' = hdr /\ clientEvent' = clientEvent
    BY <1>4
  <2> QED
    BY <2>1, <2>2, <2>3 DEF Counter!kvars
<1> QED
  BY <1>1, <1>2, <1>3, <1>4

\* Whatever the frame's processes do, restart, crash or connect to a header
\* that is half made, clientCount and the client event move as the counter
\* says, for any number of clients.
THEOREM FrameImplementsCounter == Spec => ImplementsCounter
<1>1. Init => HolderInv /\ Counter!Init
  BY ProcsAssumption DEF Init, HolderInv, Up, place, Procs, BlankHeader, Counter!Init
<1>2. IInv /\ HolderInv /\ [Next]_vars => HolderInv'
  BY HolderStep
<1>3. IInv /\ HolderInv /\ [Next]_vars => [Counter!Next]_(Counter!kvars)
  <2> SUFFICES ASSUME IInv, HolderInv, [Next]_vars PROVE [Counter!Next]_(Counter!kvars)
    OBVIOUS
  <2>1. CASE UNCHANGED vars
    BY <2>1 DEF vars, Counter!kvars, place, Up
  <2> QED
    BY <2>1, ServerCounterStep, ClientCounterStep, CrashCounterStep DEF Next
<1> QED
  BY <1>1, <1>2, <1>3, SpecIInv, PTL DEF Spec, ImplementsCounter, Counter!Spec
=============================================================================
