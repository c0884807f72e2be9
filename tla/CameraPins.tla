------------------------------ MODULE CameraPins -------------------------------
(***************************************************************************)
(* The two pins on top of the streaming thread of SourceStream: what they  *)
(* ask of the allocator (DecideBufferSize) and how they fill a sample      *)
(* (FillBuffer).  PS3EyePushPin takes the camera's next frame.             *)
(* PS3EyeVirtualPin is a client of the shared frame, of which it polls up  *)
(* to MaxAttempts times; without the service or a new frame it returns     *)
(* S_OK all the same, with the sample as it was.                           *)
(*                                                                         *)
(* The shared frame is FrameChannel, which SharedFrame implements; images  *)
(* are numbers, 0 is a blank sample.                                       *)
(***************************************************************************)
EXTENDS SourceStream, FiniteSetsExt

CONSTANTS
  MaxAttempts,  \* maxAttempts (10)
  MaxFrames     \* bound: frames the service publishes

ASSUME PinsAssumption ==
  MaxAttempts \in Nat \ {0} /\ MaxFrames \in Nat /\ IsFiniteSet(Buffers)

VARIABLES
  kind,      \* which pin this is
  service,   \* the capture service runs
  joined,    \* m_client is connected
  attempts,
  published, seen, got,  \* the frame channel
  shows,     \* the image each sample holds
  stamped,   \* FillBuffer gave the thread's sample its times
  drawn      \* history: the newest image delivered

Channel == INSTANCE FrameChannel WITH Clients <- {Thread}

channelVars == <<published, seen, got>>
fillVars == <<joined, attempts, shows, stamped>>
pinVars == <<kind, service, fillVars, channelVars, drawn>>

\* cBuffers, from what the other pin asks for
BufferCount(asked) ==
  CASE kind = "virtual" -> 1
    [] kind = "direct" /\ asked = 0 -> 2
    [] OTHER -> asked

\* DecideBufferSize
Decided(buffers) ==
  \E asked \in 0..Cardinality(Buffers) : Cardinality(buffers) = BufferCount(asked)

PinInit ==
  /\ Init
  /\ kind \in {"direct", "virtual"} /\ (kind = "virtual" => camera = "absent")
  /\ Decided(agreed)
  /\ service \in BOOLEAN /\ joined = FALSE /\ attempts = 0
  /\ Channel!Init
  /\ shows = [b \in Buffers |-> 0] /\ stamped = FALSE /\ drawn = 0

-----------------------------------------------------------------------------
(* FillBuffer                                                              *)

\* PS3EyePushPin: a frame, or zeros without a device; times with a clock
FillDirect ==
  /\ kind = "direct" /\ FillBuffer
  /\ stamped' \in BOOLEAN
  /\ UNCHANGED <<kind, service, joined, attempts, shows, channelVars, drawn>>

\* PS3EyeVirtualPin: m_client.Connect() ...
FillConnect ==
  /\ kind = "virtual" /\ worker = "fill" /\ replying = "no"
  /\ ~joined /\ service /\ joined' = TRUE
  /\ Channel!Join(Thread)
  /\ UNCHANGED <<vars, kind, service, attempts, shows, stamped, drawn>>

\* ... or one frame period later the sample as it is
FillNoService ==
  /\ kind = "virtual" /\ FillBuffer
  /\ ~joined /\ stamped' = FALSE
  /\ UNCHANGED <<kind, service, joined, attempts, shows, channelVars, drawn>>

\* Mutant of PollHit: the image is taken, the sample gets no times.
PollHitUnstamped ==
  /\ kind = "virtual" /\ FillBuffer
  /\ joined /\ attempts < MaxAttempts /\ attempts' = 0
  /\ Channel!Deliver(Thread)
  /\ \A b \in held : shows' = [shows EXCEPT ![b] = got'[Thread].lo]
  /\ stamped' = FALSE
  /\ UNCHANGED <<kind, service, joined, drawn>>

\* ReadFrame into the sample: a new frame, and SetTime
PollHit ==
  /\ kind = "virtual" /\ FillBuffer
  /\ joined /\ attempts < MaxAttempts /\ attempts' = 0
  /\ Channel!Deliver(Thread)
  /\ \A b \in held : shows' = [shows EXCEPT ![b] = got'[Thread].lo]
  /\ stamped' = TRUE
  /\ UNCHANGED <<kind, service, joined, drawn>>

\* ... none, or the mutex is not had in time: 10 ms, and again
PollMiss ==
  /\ kind = "virtual" /\ worker = "fill" /\ replying = "no"
  /\ joined /\ attempts < MaxAttempts /\ attempts' = attempts + 1
  /\ UNCHANGED <<vars, kind, service, joined, shows, stamped, channelVars, drawn>>

\* Mutant of GiveUp: the next sample goes on counting where this one gave up.
GiveUpForGood ==
  /\ kind = "virtual" /\ FillBuffer
  /\ joined /\ attempts = MaxAttempts /\ stamped' = FALSE
  /\ UNCHANGED <<kind, service, joined, attempts, shows, channelVars, drawn>>

\* No new frame in all attempts: the sample as it is
GiveUp ==
  /\ kind = "virtual" /\ FillBuffer
  /\ joined /\ attempts = MaxAttempts /\ attempts' = 0 /\ stamped' = FALSE
  /\ UNCHANGED <<kind, service, joined, shows, channelVars, drawn>>

Fill == FillDirect \/ FillConnect \/ FillNoService \/ PollHit \/ PollMiss \/ GiveUp

-----------------------------------------------------------------------------

\* What the steps of SourceStream do to the images: new samples are blank, and
\* a sample that Deliver is done with was shown.
Images ==
  /\ shows' = IF changed /\ ~changed' THEN [b \in Buffers |-> 0] ELSE shows
  /\ drawn' = IF worker = "deliver" /\ worker' # "deliver"
              THEN Max({drawn} \cup {shows[b] : b \in held})
              ELSE drawn
  /\ UNCHANGED <<kind, service, joined, attempts, stamped, channelVars>>

Stream ==
  /\ Enter \/ Call \/ Loop \/ Graph
  /\ Decided(agreed')
  /\ Images

\* The service comes up once and ends; while it runs it publishes frames.
ServiceChange ==
  /\ service' = ~service /\ (service' => published.num = 0)
  /\ UNCHANGED <<vars, kind, fillVars, channelVars, drawn>>

Publish ==
  /\ service /\ published.num < MaxFrames
  /\ published' = [num |-> published.num + 1, id |-> published.id + 1]
  /\ Channel!Publish
  /\ UNCHANGED <<vars, kind, service, fillVars, drawn>>

PinNext == Stream \/ Fill \/ ServiceChange \/ Publish

PinSpec == PinInit /\ [][PinNext]_<<vars, pinVars>>

\* As in SourceStream; that FillBuffer of the virtual pin returns is shown.  Of
\* the attempts to have the mutex in time not all fail for ever.
FairPinSpec ==
  /\ PinSpec
  /\ WF_<<vars, pinVars>>(Call /\ Images)
  /\ WF_<<vars, pinVars>>((Loop /\ Images) \/ Fill)
  /\ SF_<<vars, pinVars>>(PollHit)

-----------------------------------------------------------------------------
(* Properties                                                              *)

\* The virtual pin's samples never go back: one with times shows an image newer
\* than every one delivered before, one without repeats the last or is blank.
\* So though FillBuffer returns S_OK for a sample it did not write, which
\* holds whatever it held (VirtualFilter.cpp:216, 244), and though the filter
\* stops and starts again.
NoStepBack ==
  kind = "virtual" /\ worker = "deliver" =>
    \A b \in held :
      IF stamped THEN shows[b] > drawn ELSE shows[b] \in {0, drawn}

\* As long as the virtual pin is asked to fill samples, a frame published once
\* it is connected reaches the renderer, itself or as a newer one, across
\* samples that found none, stops and new connections of the pin.
FramesShown ==
  []<>(worker = "fill") =>
    \A n \in 1..MaxFrames : (joined /\ published.num >= n) ~> (drawn >= n)
=============================================================================
