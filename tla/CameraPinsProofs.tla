---------------------------- MODULE CameraPinsProofs ----------------------------
(***************************************************************************)
(* Proofs about CameraPins, for any samples, attempts and frames: the two  *)
(* pins are the pin of SourceStream, so what is proved of it holds of      *)
(* them, and the images of the virtual pin do not go back.                 *)
(***************************************************************************)
EXTENDS CameraPins, SourceStreamProofs

pvars == <<vars, pinVars>>

-----------------------------------------------------------------------------
(* The pins are SourceStream's                                             *)

\* A step of a pin is a step of SourceStream, or none.
LEMMA PinStep ==
  ASSUME [PinNext]_pvars
  PROVE  [Next]_vars
<1>1. CASE Stream
  BY Zenon, <1>1 DEF Stream, Next, Worker
<1>2. CASE Fill
  <2>1. FillBuffer \/ UNCHANGED vars
    BY Zenon, <1>2 DEF Fill, FillDirect, FillConnect, FillNoService, PollHit, PollMiss, GiveUp
  <2> QED
    BY Zenon, <2>1 DEF Next, Worker
<1>3. CASE ServiceChange \/ Publish \/ UNCHANGED pvars
  BY Zenon, <1>3 DEF ServiceChange, Publish, pvars
<1> QED
  BY Zenon, <1>1, <1>2, <1>3 DEF PinNext

\* Whatever SourceStream does, the pins do no other.
LEMMA PinImplementsStream == PinSpec => Spec
<1>1. PinInit => Init
  BY DEF PinInit
<1>2. [PinNext]_pvars => [Next]_vars
  BY PinStep
<1> QED
  BY <1>1, <1>2, PTL DEF PinSpec, Spec, pvars

-----------------------------------------------------------------------------
(* The images                                                              *)

\* Frames and images are numbered alike; nothing is delivered that was not seen.
ImageTypeOK ==
  /\ Channel!ChannelTypeOK /\ published.id = published.num
  /\ shows \in [Buffers -> Nat] /\ drawn \in Nat

\* The virtual pin has one sample.
OneSample == (\A a, b \in agreed : a = b) /\ (\A a, b \in pool : a = b)

\* It shows the image drawn last or is blank, until FillBuffer has written a
\* newer one into it; and what was drawn was seen.
ShownInv ==
  /\ drawn <= seen[Thread] /\ (~joined => seen[Thread] = 0)
  /\ \A b \in pool :
       IF worker = "deliver" /\ stamped
       THEN shows[b] > drawn /\ shows[b] <= seen[Thread]
       ELSE shows[b] \in {0, drawn}

PinInv == kind = "virtual" => OneSample /\ ImageTypeOK /\ ShownInv

\* The larger of two numbers.
LEMMA MaxOfTwo ==
  ASSUME NEW m \in Nat, NEW n \in Nat
  PROVE  Max({m} \cup {n}) = IF m >= n THEN m ELSE n
<1> DEFINE best == IF m >= n THEN m ELSE n
<1>1. best \in {m} \cup {n} /\ \A y \in {m} \cup {n} : best >= y
  OBVIOUS
<1>2. \A x \in {m} \cup {n} : (\A y \in {m} \cup {n} : x >= y) => x = best
  OBVIOUS
<1> HIDE DEF best
<1>3. Max({m} \cup {n}) = best
  BY <1>1, <1>2, Zenon DEF Max
<1> QED
  BY <1>3 DEF best

\* The virtual pin asks for one sample, whatever the other pin asks for.
LEMMA OneIsDecided ==
  ASSUME kind = "virtual", NEW S \in SUBSET Buffers, Decided(S)
  PROVE  \A a, b \in S : a = b
<1>1. Cardinality(S) = 1
  BY DEF Decided, BufferCount
<1>2. IsFiniteSet(S)
  BY PinsAssumption, FS_Subset
<1> QED
  BY <1>1, <1>2, FS_Singleton

\* Only Commit changes the samples there are; then they are those agreed on,
\* and the thread is not there.
LEMMA SamplesStay ==
  ASSUME IInv, [Next]_vars
  PROVE  \/ UNCHANGED pool /\ ~(changed /\ ~changed')
         \/ /\ pool' = agreed /\ changed /\ ~changed'
            /\ worker' = worker /\ worker # "deliver"
<1>1. CASE Commit
  <2>1. worker' = worker /\ worker # "deliver"
    BY <1>1 DEF Commit, IInv, ControlInv, ThreadInv, Down
  <2>2. \/ UNCHANGED <<pool, changed>>
        \/ UNCHANGED pool /\ ~changed
        \/ pool' = agreed /\ changed /\ ~changed'
    BY Zenon, <1>1 DEF Commit, Allocator!Commit, allocVars
  <2> QED
    BY <2>1, <2>2
<1>2. ASSUME ~Commit PROVE UNCHANGED pool /\ (changed => changed')
  <2>1. CASE Decommit \/ BreakConnect \/ AgreeOnBuffers
    BY <2>1
       DEF Decommit, BreakConnect, AgreeOnBuffers, Allocator!Decommit,
           Allocator!SetProperties, Allocator!sleepVars, allocVars
  <2>2. CASE GetDeliveryBuffer \/ Deliver \/ Release
    BY <2>2
       DEF GetDeliveryBuffer, Deliver, PassOn, Release, Allocator!TakeBuffer,
           Allocator!Sleep, Allocator!WakeUp, Allocator!ReleaseBuffer, Allocator!sleepVars,
           bufferVars, allocVars
  <2>3. CASE UNCHANGED bufferVars
    BY Zenon, <2>3 DEF bufferVars, allocVars
  <2> QED
    BY Zenon, <1>2, <2>1, <2>2, <2>3, OtherSteps
<1> QED
  BY <1>1, <1>2

\* The thread delivers only what FillBuffer has been at.
LEMMA DeliverAfterFill ==
  ASSUME Enter \/ Call \/ Loop \/ Graph, worker' = "deliver"
  PROVE  worker = "deliver"
  BY DEF Enter, Call, Return, Commit, CreateThread, ActiveFails, Decommit, Send, Await, Close,
     Loop, FirstRequest, OnThreadCreate, OnThreadCreateFails, Request, OnThreadDestroy,
     CheckRequest, GetDeliveryBuffer, Deliver, Reply, Graph, Release, BreakConnect,
     AgreeOnBuffers, Go, Answer

\* The steps of SourceStream: what was delivered is drawn, new samples are blank.
LEMMA StreamStep ==
  ASSUME IInv, kind = "virtual", OneSample, ImageTypeOK, ShownInv, Stream,
         agreed' \subseteq Buffers
  PROVE  (OneSample /\ ImageTypeOK /\ ShownInv)'
<1>1. [Next]_vars
  BY Zenon DEF Stream, Next, Worker
<1>2. pool \subseteq Buffers /\ held \subseteq pool
  BY DEF IInv, SampleInv, Samples!IInv, Samples!TypeOK
<1>3. OneSample'
  <2>1. \A a, b \in agreed' : a = b
    BY Zenon, OneIsDecided DEF Stream
  <2>2. pool' = pool \/ pool' = agreed
    BY <1>1, SamplesStay
  <2> QED
    BY <2>1, <2>2 DEF OneSample
<1>4. UNCHANGED <<joined, stamped, published, seen, got>>
  BY Zenon DEF Stream, Images, channelVars
<1>5. CASE pool' = agreed /\ changed /\ ~changed' /\ worker' = worker /\ worker # "deliver"
  <2>1. shows' = [b \in Buffers |-> 0] /\ drawn' = drawn
    BY <1>5 DEF Stream, Images
  <2>2. pool' \subseteq Buffers
    BY <1>5 DEF IInv, Samples!IInv, Samples!TypeOK
  <2> QED
    BY <1>3, <1>4, <1>5, <2>1, <2>2 DEF ImageTypeOK, Channel!ChannelTypeOK, ShownInv
<1>6. CASE UNCHANGED pool /\ ~(changed /\ ~changed')
  <2>1. shows' = shows
    BY <1>6 DEF Stream, Images
  <2>2. CASE worker = "deliver" /\ worker' # "deliver"
    <3>1. PICK b \in Buffers : held = {b}
      BY <2>2 DEF IInv, SampleInv
    <3>2. drawn' = Max({drawn} \cup {shows[b]})
      <4>1. {shows[a] : a \in held} = {shows[b]}
        BY <3>1
      <4> QED
        BY <2>2, <4>1 DEF Stream, Images
    <3>3. drawn' = IF drawn >= shows[b] THEN drawn ELSE shows[b]
      BY <3>1, <3>2, MaxOfTwo DEF ImageTypeOK, Channel!ChannelTypeOK
    <3>4. \A a \in pool : a = b
      BY <1>2, <3>1 DEF OneSample
    <3>5. /\ b \in pool /\ drawn \in Nat /\ shows[b] \in Nat /\ seen[Thread] \in Nat
          /\ drawn <= seen[Thread]
          /\ IF stamped THEN shows[b] > drawn /\ shows[b] <= seen[Thread]
                        ELSE shows[b] \in {0, drawn}
      BY <1>2, <2>2, <3>1 DEF ImageTypeOK, Channel!ChannelTypeOK, ShownInv
    <3>6. drawn' \in Nat /\ drawn' <= seen[Thread] /\ shows[b] \in {0, drawn'}
      BY <3>3, <3>5
    <3> QED
      BY <1>3, <1>4, <1>6, <2>1, <2>2, <3>4, <3>6
         DEF ImageTypeOK, Channel!ChannelTypeOK, ShownInv
  <2>3. CASE ~(worker = "deliver" /\ worker' # "deliver")
    <3>1. drawn' = drawn /\ (worker' = "deliver" <=> worker = "deliver")
      BY <2>3, DeliverAfterFill DEF Stream, Images
    <3> QED
      BY <1>3, <1>4, <1>6, <2>1, <3>1 DEF ImageTypeOK, Channel!ChannelTypeOK, ShownInv
  <2> QED
    BY <2>2, <2>3
<1> QED
  BY <1>1, <1>5, <1>6, SamplesStay

\* FillBuffer: the sample is left as it is, or holds an image newer than all
\* that were drawn.
LEMMA FillStep ==
  ASSUME IInv, kind = "virtual", OneSample, ImageTypeOK, ShownInv, Fill
  PROVE  (OneSample /\ ImageTypeOK /\ ShownInv)'
<1>1. UNCHANGED <<agreed, pool, drawn>>
  BY Zenon
     DEF Fill, FillDirect, FillConnect, FillNoService, PollHit, PollMiss, GiveUp, FillBuffer,
         bufferVars, allocVars, vars
<1>2. CASE FillConnect
  <2>1. UNCHANGED <<worker, stamped, shows>> /\ ~joined
    BY Zenon, <1>2 DEF FillConnect, vars
  <2>2. /\ seen' = [seen EXCEPT ![Thread] = 0] /\ UNCHANGED published
        /\ got' = [got EXCEPT ![Thread] = Channel!Nothing]
    BY <1>2 DEF FillConnect, Channel!Join
  <2>3. seen'[Thread] = 0 /\ seen[Thread] = 0
    BY <2>1, <2>2 DEF ImageTypeOK, Channel!ChannelTypeOK, ShownInv
  <2> QED
    BY <1>1, <2>1, <2>2, <2>3
       DEF OneSample, ImageTypeOK, Channel!ChannelTypeOK, Channel!Nothing, ShownInv
<1>3. CASE PollMiss
  <2>1. UNCHANGED <<joined, worker, stamped, shows, published, seen, got>>
    BY Zenon, <1>3 DEF PollMiss, vars, channelVars
  <2> QED
    BY <1>1, <2>1 DEF OneSample, ImageTypeOK, Channel!ChannelTypeOK, ShownInv
<1>4. CASE FillNoService \/ GiveUp
  <2>1. worker = "fill" /\ ~stamped' /\ UNCHANGED <<joined, shows, published, seen, got>>
    BY Zenon, <1>4 DEF FillNoService, GiveUp, FillBuffer, Go, channelVars
  <2> QED
    BY <1>1, <2>1 DEF OneSample, ImageTypeOK, Channel!ChannelTypeOK, ShownInv
<1>5. CASE PollHit
  <2>1. worker = "fill" /\ worker' = "deliver" /\ stamped' /\ joined /\ UNCHANGED joined
    BY Zenon, <1>5 DEF PollHit, FillBuffer, Go
  <2>2. PICK b \in Buffers : held = {b}
    BY <2>1 DEF IInv, SampleInv
  <2>3. b \in pool /\ \A a \in pool : a = b
    BY <2>2 DEF OneSample, IInv, SampleInv
  <2>4. /\ seen[Thread] < published.num /\ seen' = [seen EXCEPT ![Thread] = published.num]
        /\ got' = [got EXCEPT ![Thread] = [num |-> published.num, lo |-> published.id,
                                           hi |-> published.id]]
        /\ UNCHANGED published
    BY <1>5 DEF PollHit, Channel!Deliver
  <2>5. shows' = [shows EXCEPT ![b] = got'[Thread].lo]
    BY <1>5, <2>2 DEF PollHit
  <2>6. /\ shows'[b] = published.num /\ seen'[Thread] = published.num
        /\ published.num > drawn /\ drawn \in Nat
    BY <2>2, <2>4, <2>5 DEF ImageTypeOK, Channel!ChannelTypeOK, ShownInv
  <2>7. ImageTypeOK'
    BY <1>1, <2>2, <2>4, <2>5 DEF ImageTypeOK, Channel!ChannelTypeOK
  <2>8. ShownInv'
    BY <1>1, <2>1, <2>3, <2>6 DEF ShownInv, ImageTypeOK, Channel!ChannelTypeOK
  <2> QED
    BY <1>1, <2>7, <2>8 DEF OneSample
<1>6. ~FillDirect
  BY DEF FillDirect
<1> QED
  BY <1>2, <1>3, <1>4, <1>5, <1>6 DEF Fill

\* PinInv is inductive relative to what SourceStream keeps.
LEMMA NextPinInv == IInv /\ IInv' /\ PinInv /\ [PinNext]_pvars => PinInv'
<1> SUFFICES ASSUME IInv, IInv', PinInv, [PinNext]_pvars, kind' = "virtual"
             PROVE  (OneSample /\ ImageTypeOK /\ ShownInv)'
  BY DEF PinInv
<1>1. kind = "virtual"
  BY Zenon
     DEF PinNext, Stream, Images, Fill, FillDirect, FillConnect, FillNoService, PollHit,
         PollMiss, GiveUp, ServiceChange, Publish, pvars, pinVars
<1>2. OneSample /\ ImageTypeOK /\ ShownInv
  BY <1>1 DEF PinInv
<1>3. CASE Stream
  <2>1. agreed' \subseteq Buffers
    BY DEF IInv, Samples!IInv, Samples!TypeOK
  <2> QED
    BY <1>1, <1>2, <1>3, <2>1, StreamStep
<1>4. CASE Fill
  BY <1>1, <1>2, <1>4, FillStep
<1>5. CASE Publish
  <2>1. UNCHANGED <<worker, agreed, pool, joined, shows, stamped, drawn, seen, got>>
    BY Zenon, <1>5 DEF Publish, Channel!Publish, vars, fillVars
  <2> QED
    BY <1>2, <1>5, <2>1
       DEF Publish, OneSample, ImageTypeOK, Channel!ChannelTypeOK, ShownInv
<1>6. CASE ServiceChange \/ UNCHANGED pvars
  <2>1. UNCHANGED <<worker, agreed, pool, joined, shows, stamped, drawn, seen, got, published>>
    BY Zenon, <1>6 DEF ServiceChange, pvars, pinVars, vars, fillVars, channelVars
  <2> QED
    BY <1>2, <2>1 DEF OneSample, ImageTypeOK, Channel!ChannelTypeOK, ShownInv
<1> QED
  BY <1>3, <1>4, <1>5, <1>6 DEF PinNext

\* The initial images.
LEMMA InitPinInv == PinInit => PinInv
<1> SUFFICES ASSUME PinInit, kind = "virtual" PROVE OneSample /\ ImageTypeOK /\ ShownInv
  BY DEF PinInv
<1>1. agreed \subseteq Buffers /\ pool = {}
  BY DEF PinInit, Init, Allocator!Init
<1>2. \A a, b \in agreed : a = b
  BY <1>1, OneIsDecided DEF PinInit
<1> QED
  BY <1>1, <1>2
     DEF PinInit, Channel!Init, Channel!Nothing, OneSample, ImageTypeOK,
         Channel!ChannelTypeOK, ShownInv

\* PinInv holds in every reachable state.
LEMMA SpecPinInv == PinSpec => [](IInv /\ PinInv)
<1>1. PinInit => PinInv
  BY InitPinInv
<1>2. IInv /\ IInv' /\ PinInv /\ [PinNext]_pvars => PinInv'
  BY NextPinInv
<1> QED
  BY <1>1, <1>2, PinImplementsStream, SpecIInv, PTL DEF PinSpec, pvars

-----------------------------------------------------------------------------
(* The theorems                                                            *)

\* Both pins obey the commands of the filter, keep the camera in step with it
\* and use the samples as the allocator is meant to be used.
THEOREM PinsAreSourceStreams ==
  PinSpec => /\ [](TypeOK /\ CommandsObeyed /\ CameraFollowsFilter)
             /\ [](NoLostWakeup /\ SamplesOutlivePin)
             /\ ImplementsAllocator
  BY PinImplementsStream, TypeCorrect, CommandsAreObeyed, CameraIsInStep, WorkerIsWoken,
     SamplesAreSafe, PinImplementsAllocator, PTL

\* What the virtual pin delivers never goes back to an earlier image, however
\* its samples are left unwritten, and whenever the filter stops and starts.
THEOREM ImagesGoForward == PinSpec => []NoStepBack
<1>1. IInv /\ PinInv => NoStepBack
  <2> SUFFICES ASSUME IInv, PinInv, kind = "virtual", worker = "deliver", NEW b \in held
               PROVE  IF stamped THEN shows[b] > drawn ELSE shows[b] \in {0, drawn}
    BY DEF NoStepBack
  <2>1. b \in pool
    BY DEF IInv, SampleInv
  <2> QED
    BY <2>1 DEF PinInv, ShownInv
<1> QED
  BY <1>1, SpecPinInv, PTL
=============================================================================
