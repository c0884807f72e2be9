----------------------------- MODULE PinConnection -----------------------------
(***************************************************************************)
(* How an output pin of this repository is connected to the input pin of   *)
(* another filter, and how its format is set.  The graph calls Connect and *)
(* Disconnect, one call at a time under a lock of its own; Connect tries   *)
(* one media type after the other (CBasePin and CBaseOutputPin) under the  *)
(* pin's lock.  At any time the application calls SetFormat of             *)
(* PS3EyePushPin, which stores a format under the pin's lock and has the   *)
(* graph connect a connected pin again.                                    *)
(*                                                                         *)
(* The input pin is a CBaseInputPin: the types it offers and the ones it   *)
(* accepts are not known.  A type is its subtype, image size and           *)
(* AvgTimePerFrame; its other fields are taken as consistent with these.   *)
(***************************************************************************)
EXTENDS Integers, Sequences, Functions

CONSTANTS
  PeerOffers,  \* the sequences of types an input pin may offer
  PeerTastes,  \* the sets of types an input pin may accept
  Types        \* the types that Connect and SetFormat may be called with

ASSUME OffersAssumption == \A o \in PeerOffers : o \in Seq(Range(o))

Units == 10000000  \* of 100 ns in a second

NoType == [subtype |-> "none", width |-> 0, height |-> 0, interval |-> 0]

VARIABLES
  kind,         \* "direct" (PS3EyePushPin) or "virtual" (PS3EyeVirtualPin)
  offers, tastes, \* of this input pin
  graph,        \* who holds the graph's lock: "none", "graph" or "app"
  task,         \* what for
  lock,         \* who holds m_pLock from one step to the next
  at,           \* where Connect is
  template,     \* the type it was given: in full, in part, or NoType
  turn, next,   \* whose types are tried, and which of them
  connected, mt, input, allocator, \* m_Connected, m_mt, m_pInputPin, m_pAllocator
  buffer,       \* the type m_pAllocator's buffers are made for
  references,   \* the pin's references to the input pin
  peerConnected, peerType, peerAllocator, \* the same members of the input pin
  active,       \* the filters are not stopped
  current,      \* _currentMediaType
  config, wanted, \* where SetFormat is, and its format
  fault,        \* history: this Connect met a failure that is no refusal of a type
  split         \* history: the graph disconnected one pin only, or first

peerVars == <<peerConnected, peerType, peerAllocator>>
pinVars == <<connected, mt, input, allocator, buffer, references>>
tryVars == <<at, template, turn, next>>
configVars == <<current, config, wanted>>
setup == <<kind, offers, tastes>>
vars == <<kind, offers, tastes, graph, task, lock, at, template, turn, next, connected, mt,
          input, allocator, buffer, references, peerConnected, peerType, peerAllocator,
          active, current, config, wanted, fault, split>>

-----------------------------------------------------------------------------
(* The formats of the two pins                                             *)

\* _GetMediaType: the rate at a position
Fps(i) == CASE i % 3 = 2 -> 15 [] i % 3 < 2 -> 30 * ((i % 3) + 1)

\* _GetMediaType of PS3EyePushPin
Advertised(i) ==
  [subtype |-> "RGB32",
   width |-> IF i < 3 THEN 640 ELSE 320, height |-> IF i < 3 THEN 480 ELSE 240,
   interval |-> Units \div Fps(i)]

\* GetMediaType of PS3EyeVirtualPin
VirtualType == [subtype |-> "RGB24", width |-> 640, height |-> 480, interval |-> Units \div 30]

\* Mutant of OwnTypes: the format that was set is the first of all.
OwnTypesAll ==
  CASE kind = "virtual" -> <<VirtualType>>
    [] kind = "direct" -> (IF current = NoType THEN <<>> ELSE <<current>>)
                          \o [i \in 1..6 |-> Advertised(i - 1)]

\* What the enumerator gets from GetMediaType: all types, or the one that was set
OwnTypes ==
  CASE kind = "virtual" -> <<VirtualType>>
    [] kind = "direct" /\ current = NoType -> [i \in 1..6 |-> Advertised(i - 1)]
    [] OTHER -> <<current>>

\* CheckMediaType of the two pins
CheckMediaType(t) ==
  CASE kind = "direct" ->
         /\ t.subtype = "RGB32"
         /\ <<t.width, t.height>> \in {<<640, 480>>, <<320, 240>>}
         /\ t.interval \in Units \div 70 .. Units \div 2
    [] kind = "virtual" ->
         t.subtype = "RGB24" /\ t.width = 640 /\ t.height \in {480, -480}

\* OnThreadCreate: the rate the camera is initialised with
CameraRate(t) == Units \div t.interval

Init ==
  /\ kind \in {"direct", "virtual"} /\ offers \in PeerOffers /\ tastes \in PeerTastes
  /\ graph = "none" /\ task = "none" /\ lock = "none"
  /\ at = "idle" /\ template = NoType /\ turn = "peer" /\ next = 1
  /\ connected = FALSE /\ mt = NoType /\ input = FALSE /\ allocator = "none"
  /\ buffer = NoType /\ references = 0
  /\ peerConnected = FALSE /\ peerType = NoType /\ peerAllocator = "none"
  /\ active = FALSE
  /\ current = NoType /\ config = "idle" /\ wanted = NoType
  /\ fault = FALSE /\ split = FALSE

-----------------------------------------------------------------------------
(* The graph                                                               *)

GraphCall ==
  /\ graph = "none" /\ graph' = "graph"
  /\ task' \in {"connect", "disconnect", "disconnect peer", "run or stop"}
  /\ fault' = FALSE
  /\ UNCHANGED <<lock, active, setup, tryVars, pinVars, peerVars, configVars, split>>

\* The graph's lock is released; Reconnect ends SetFormat.
Done ==
  /\ graph' = "none" /\ task' = "none" /\ lock' = "none"
  /\ config' = IF graph = "app" THEN "idle" ELSE config
  /\ UNCHANGED <<current, wanted>>

\* Each call first has the pin's lock.
Locked == lock \in {"none", graph}

RunOrStop ==
  /\ task = "run or stop" /\ Locked
  /\ active' = ~active
  /\ Done
  /\ UNCHANGED <<setup, tryVars, pinVars, peerVars, fault, split>>

BreakConnect == allocator' = "none" /\ buffer' = NoType /\ input' = FALSE

\* All that this connection or this attempt holds is released; m_mt means
\* nothing without a connection.
Release ==
  /\ BreakConnect
  /\ connected' = FALSE /\ mt' = NoType
  /\ references' = references - (IF input THEN 1 ELSE 0) - (IF connected THEN 1 ELSE 0)

\* Disconnect: not of an active filter.  Reconnect goes on, or fails here.
Disconnect ==
  /\ task = "disconnect" /\ Locked
  /\ IF active THEN UNCHANGED pinVars ELSE Release
  /\ IF graph = "app" /\ ~active
     THEN task' = "disconnect peer" /\ UNCHANGED <<graph, lock, configVars>>
     ELSE Done
  /\ split' = (connected' # peerConnected)
  /\ UNCHANGED <<setup, tryVars, peerVars, active, fault>>

\* Disconnect of the input pin, and its BreakConnect
DisconnectPeer ==
  /\ peerConnected' = FALSE /\ peerAllocator' = "none" /\ peerType' = NoType

GraphDisconnectsPeer ==
  /\ task = "disconnect peer"
  /\ IF active THEN UNCHANGED peerVars ELSE DisconnectPeer
  /\ IF graph = "app" THEN task' = "connect" /\ UNCHANGED <<graph, lock, configVars>> ELSE Done
  /\ split' = (connected # peerConnected')
  /\ UNCHANGED <<setup, tryVars, pinVars, active, fault>>

-----------------------------------------------------------------------------
(* Connect, AgreeMediaType and TryMediaTypes                               *)

connectFrame == <<setup, active, split>>

\* Connected already, or not stopped
ConnectRefused ==
  /\ task = "connect" /\ at = "idle" /\ Locked
  /\ connected \/ active
  /\ Done
  /\ UNCHANGED <<tryVars, pinVars, peerVars, fault, connectFrame>>

\* A type in full, a partial one (here: the subtype), or none
Connect ==
  /\ task = "connect" /\ at = "idle" /\ Locked
  /\ ~connected /\ ~active
  /\ \/ graph = "graph" /\ template' \in Types
     \/ graph = "graph" /\ \E t \in Types : template' = [NoType EXCEPT !.subtype = t.subtype]
     \/ template' = NoType
  /\ turn' = IF template' \in Types THEN "given" ELSE "peer"
  /\ lock' = graph /\ at' = "try" /\ next' = 1
  /\ UNCHANGED <<graph, task, pinVars, peerVars, configVars, fault, connectFrame>>

\* The types of this turn
Candidates ==
  CASE turn = "given" -> <<template>>
    [] turn = "peer" -> offers
    [] turn = "own" -> OwnTypes

candidate == Candidates[next]

\* The locals of a Connect that ends
ForgetTemplate == template' = NoType /\ turn' = "peer" /\ next' = 1

\* Mutant of Failed: after the input pin's types the pin's own are not tried.
FailedForGood ==
  /\ at' = "idle" /\ Done
  /\ ForgetTemplate

\* No type is left: the other pin's types, or the Connect has failed
Failed ==
  IF turn = "peer"
  THEN /\ turn' = "own" /\ next' = 1 /\ at' = "try"
       /\ UNCHANGED <<template, graph, task, lock, configVars>>
  ELSE /\ at' = "idle" /\ Done
       /\ ForgetTemplate

\* Mutant of NextType: the enumerator stays where it is.
NextTypeAgain ==
  IF next < Len(Candidates)
  THEN /\ at' = "try"
       /\ UNCHANGED <<next, template, turn, graph, task, lock, configVars>>
  ELSE Failed

NextType ==
  IF next < Len(Candidates)
  THEN /\ next' = next + 1 /\ at' = "try"
       /\ UNCHANGED <<template, turn, graph, task, lock, configVars>>
  ELSE Failed

NoCandidate ==
  /\ at = "try" /\ Candidates = <<>>
  /\ Failed
  /\ UNCHANGED <<pinVars, peerVars, fault, connectFrame>>

\* MatchesPartial; a type in full is only tried itself
Matches(t) == template.subtype \in {"none", t.subtype} /\ (turn = "given" => t = template)

NoMatch ==
  /\ at = "try" /\ Candidates # <<>>
  /\ ~Matches(candidate)
  /\ NextType
  /\ UNCHANGED <<pinVars, peerVars, fault, connectFrame>>

-----------------------------------------------------------------------------
(* AttemptConnection                                                       *)

attemptFrame == <<template, turn, next, graph, task, lock, configVars, connectFrame>>

\* CheckConnect gets IMemInputPin ...
CheckConnect ==
  /\ at = "try" /\ Candidates # <<>> /\ Matches(candidate)
  /\ at' = "check" /\ input' = TRUE /\ references' = references + 1
  /\ UNCHANGED <<connected, mt, allocator, buffer, peerVars, fault, attemptFrame>>

\* ... or does not
CheckConnectFails ==
  /\ at = "try" /\ Candidates # <<>> /\ Matches(candidate)
  /\ fault' = TRUE
  /\ NextType
  /\ UNCHANGED <<pinVars, peerVars, connectFrame>>

\* CheckMediaType, m_Connected and SetMediaType
Propose ==
  /\ at = "check" /\ CheckMediaType(candidate)
  /\ at' = "receive"
  /\ connected' = TRUE /\ references' = references + 1 /\ mt' = candidate
  /\ UNCHANGED <<input, allocator, buffer, peerVars, fault, attemptFrame>>

NotProposed ==
  /\ at = "check" /\ ~CheckMediaType(candidate)
  /\ Release /\ NextType
  /\ UNCHANGED <<peerVars, fault, connectFrame>>

\* ReceiveConnection: the input pin is free, and accepts the type
Received ==
  /\ at = "receive" /\ ~peerConnected /\ mt \in tastes
  /\ at' = "decide" /\ peerConnected' = TRUE /\ peerType' = mt
  /\ UNCHANGED <<pinVars, peerAllocator, fault, attemptFrame>>

NotReceived ==
  /\ at = "receive" /\ (peerConnected \/ mt \notin tastes)
  /\ Release /\ NextType
  /\ fault' = (fault \/ peerConnected)
  /\ UNCHANGED <<peerVars, connectFrame>>

\* CompleteConnect, DecideAllocator: DecideBufferSize on the input pin's
\* allocator, or on one of the pin's own, and NotifyAllocator
DecideAllocator ==
  /\ at = "decide"
  /\ \E a \in {"peer", "own"} : allocator' = a /\ peerAllocator' = a
  /\ buffer' = mt
  /\ at' = "idle" /\ Done
  /\ ForgetTemplate
  /\ UNCHANGED <<connected, mt, input, references, peerConnected, peerType, fault,
                 connectFrame>>

\* Mutants of NoAllocator: the input pin stays connected; the reference is kept.
NoAllocatorHalfway ==
  /\ at = "decide"
  /\ fault' = TRUE
  /\ Release /\ NextType
  /\ UNCHANGED <<peerVars, connectFrame>>

NoAllocatorLeaks ==
  /\ at = "decide"
  /\ DisconnectPeer /\ fault' = TRUE
  /\ BreakConnect /\ connected' = FALSE /\ mt' = NoType
  /\ references' = references - 1 /\ NextType
  /\ UNCHANGED connectFrame

\* Neither will do: the input pin is disconnected, the attempt undone
NoAllocator ==
  /\ at = "decide"
  /\ DisconnectPeer /\ fault' = TRUE
  /\ Release /\ NextType
  /\ UNCHANGED connectFrame

ConnectStep ==
  \/ NoCandidate \/ NoMatch \/ CheckConnect \/ CheckConnectFails \/ Propose \/ NotProposed
  \/ Received \/ NotReceived \/ DecideAllocator \/ NoAllocator

-----------------------------------------------------------------------------
(* SetFormat                                                               *)

configFrame == <<setup, tryVars, pinVars, peerVars, active, fault, split>>

\* CheckMediaType, and ConnectedTo without the lock.  The input pin is asked
\* whether it accepts the format: "no" is S_FALSE and passes SUCCEEDED.
SetFormat ==
  /\ kind = "direct" /\ config = "idle"
  /\ \E t \in Types : CheckMediaType(t) /\ wanted' = t
  /\ config' = IF connected THEN "store" ELSE "store only"
  /\ UNCHANGED <<graph, task, lock, current, configFrame>>

\* Mutant of StoreFormat: the pin's lock is kept while the graph reconnects.
StoreFormatLocked ==
  /\ config \in {"store", "store only"} /\ lock = "none"
  /\ current' = wanted /\ wanted' = NoType
  /\ config' = IF config = "store" THEN "reconnect" ELSE "idle"
  /\ lock' = IF config = "store" THEN "app" ELSE "none"
  /\ UNCHANGED <<graph, task, configFrame>>

StoreFormat ==
  /\ config \in {"store", "store only"} /\ lock = "none"
  /\ current' = wanted /\ wanted' = NoType
  /\ config' = IF config = "store" THEN "reconnect" ELSE "idle"
  /\ UNCHANGED <<graph, task, lock, configFrame>>

\* Reconnect: the graph disconnects both pins and connects them again.
Reconnect ==
  /\ config = "reconnect" /\ graph = "none"
  /\ graph' = "app" /\ task' = "disconnect" /\ config' = "reconnecting" /\ fault' = FALSE
  /\ UNCHANGED <<lock, current, wanted, setup, tryVars, pinVars, peerVars, active, split>>

GraphStep ==
  \/ RunOrStop \/ Disconnect \/ GraphDisconnectsPeer \/ ConnectRefused \/ Connect
  \/ ConnectStep

Next == GraphCall \/ GraphStep \/ SetFormat \/ StoreFormat \/ Reconnect

Spec == Init /\ [][Next]_vars

\* The thread with the graph's lock goes on; one that waits for a lock which is
\* released again and again gets it.
FairSpec ==
  /\ Spec
  /\ WF_vars(GraphStep) /\ SF_vars(StoreFormat) /\ SF_vars(Reconnect)

-----------------------------------------------------------------------------
(* Properties                                                              *)

\* Types; and outside Connect the pin's lock is free.
TypeOK ==
  /\ graph \in {"none", "graph", "app"} /\ lock \in {"none", "graph", "app"}
  /\ task \in {"none", "connect", "disconnect", "disconnect peer", "run or stop"}
  /\ at \in {"idle", "try", "check", "receive", "decide"}
  /\ turn \in {"given", "peer", "own"} /\ next \in Nat \ {0}
  /\ {connected, input, peerConnected, active, fault, split} \subseteq BOOLEAN
  /\ {allocator, peerAllocator} \subseteq {"none", "peer", "own"}
  /\ config \in {"idle", "store", "store only", "reconnect", "reconnecting"}
  /\ (at = "idle") = (lock = "none") /\ (graph = "none") = (task = "none")

\* However far an attempt came before it failed, and however often, the pin
\* gives back what it took: the input pin is referenced once for each pointer
\* to it, and a pin that is not connected holds neither pointer nor an
\* allocator (amfilter.cpp:1824-1836).
NothingHeld ==
  /\ references = (IF input THEN 1 ELSE 0) + (IF connected THEN 1 ELSE 0)
  /\ at = "idle" => connected = input /\ connected = (allocator # "none")

\* Two pins that are connected to each other agree on the type and the
\* allocator, whose buffers are made for that type; and one is connected alone
\* only if the graph disconnected the other, never because an attempt failed
\* halfway (amfilter.cpp:1807).
ConnectedAlike ==
  at = "idle" =>
    IF connected /\ peerConnected
    THEN mt = peerType /\ buffer = mt /\ allocator = peerAllocator
    ELSE connected = peerConnected \/ split

\* The Connect under way is done.
Ends == at # "idle" /\ at' = "idle"

Offered == Range(offers) \cup Range(OwnTypes) \cup (IF turn = "given" THEN {template} ELSE {})

\* Connect fails only if something else failed than the choice of a type, or
\* of the types offered no one that it may use is accepted by both pins
\* (amfilter.cpp:1917-1924).
FailsForAReason ==
  [][Ends /\ ~connected' =>
       fault' \/ ~\E t \in Offered : Matches(t) /\ CheckMediaType(t) /\ t \in tastes]_vars

\* A connection has a type that Connect was allowed, and a format that was set
\* unless the type came from the other side.  The camera can then be started
\* at a rate of 2 to 70, and for a type this pin advertised at just the rate
\* that was advertised, through both divisions (PushPin.cpp:89, 155).
AgreedType ==
  [][Ends /\ connected' =>
       /\ Matches(mt') /\ mt' \in tastes
       /\ turn = "own" /\ current # NoType => mt' = current
       /\ kind = "direct" =>
            /\ CameraRate(mt') \in 2..70
            /\ \A i \in 0..5 : mt' = Advertised(i) => CameraRate(mt') = Fps(i)]_vars

\* Every call returns: SetFormat does not keep the pin's lock while it waits
\* for the graph, which calls the pin with its own lock held
\* (PushPin.cpp:285-291).
CallsReturn ==
  /\ (graph # "none") ~> (graph = "none")
  /\ (config # "idle") ~> (config = "idle")

\* "SetFormat from IAMStreamConfig has been called, only allow that format"
\* (PushPin.cpp:53): no connection is made with another.
OnlyChosenFormat == [][Ends /\ connected' /\ current # NoType => mt' = current]_vars
=============================================================================
