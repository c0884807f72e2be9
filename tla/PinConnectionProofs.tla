--------------------------- MODULE PinConnectionProofs -------------------------
(***************************************************************************)
(* Proofs about PinConnection, for any input pins (whatever they offer and *)
(* accept, however many types) and any types the pins are asked for.       *)
(***************************************************************************)
EXTENDS PinConnection, TLAPS

-----------------------------------------------------------------------------
(* The invariant                                                           *)

FlagsOK ==
  /\ connected \in BOOLEAN /\ input \in BOOLEAN /\ peerConnected \in BOOLEAN
  /\ active \in BOOLEAN /\ fault \in BOOLEAN /\ split \in BOOLEAN

\* Who is at work: Connect has the pin's lock and the graph's.
WorkInv ==
  /\ graph \in {"none", "graph", "app"} /\ lock \in {"none", "graph", "app"}
  /\ task \in {"none", "connect", "disconnect", "disconnect peer", "run or stop"}
  /\ at \in {"idle", "try", "check", "receive", "decide"}
  /\ turn \in {"given", "peer", "own"} /\ next \in Nat \ {0}
  /\ config \in {"idle", "store", "store only", "reconnect", "reconnecting"}
  /\ at = "idle" <=> lock = "none"
  /\ graph = "none" <=> task = "none"
  /\ at # "idle" => task = "connect" /\ lock = graph
  /\ allocator \in {"none", "peer", "own"} /\ peerAllocator \in {"none", "peer", "own"}

\* What the pin holds, step by step of an attempt.
HeldInv ==
  /\ references = (IF input THEN 1 ELSE 0) + (IF connected THEN 1 ELSE 0)
  /\ input <=> connected \/ at = "check"
  /\ connected => at \in {"idle", "receive", "decide"}
  /\ at \in {"receive", "decide"} => connected
  /\ allocator # "none" <=> connected /\ at = "idle"

\* What the two pins have in common.
AlikeInv ==
  /\ at = "idle" /\ connected /\ peerConnected =>
       mt = peerType /\ buffer = mt /\ allocator = peerAllocator
  /\ at = "decide" => peerConnected /\ mt = peerType
  /\ connected /\ ~peerConnected => split \/ at = "receive"
  /\ ~connected /\ peerConnected => split
  /\ at = "receive" /\ peerConnected => split

IInv == FlagsOK /\ WorkInv /\ HeldInv /\ AlikeInv

-----------------------------------------------------------------------------
\* The initial state.
LEMMA InitIInv == Init => IInv
<1> SUFFICES ASSUME Init PROVE IInv
  OBVIOUS
<1>1. FlagsOK
  BY Zenon DEF Init, FlagsOK
<1> QED
  BY <1>1 DEF Init, IInv, WorkInv, HeldInv, AlikeInv

\* The flags keep their type.
LEMMA FlagsStep ==
  ASSUME FlagsOK, [Next]_vars
  PROVE  FlagsOK'
  BY ZenonT(60)
     DEF FlagsOK, Next, vars, GraphCall, GraphStep, RunOrStop, Disconnect, DisconnectPeer,
         GraphDisconnectsPeer, ConnectRefused, Connect, ConnectStep, NoCandidate, NoMatch,
         CheckConnect, CheckConnectFails, Propose, NotProposed, Received, NotReceived,
         DecideAllocator, NoAllocator, SetFormat, StoreFormat, Reconnect, Release,
         BreakConnect, setup, tryVars, pinVars, peerVars, configVars, connectFrame,
         attemptFrame, configFrame

\* What a call leaves behind that is done: SetFormat may end with it.
LEMMA DoneKeeps ==
  ASSUME WorkInv, Done
  PROVE  /\ graph' = "none" /\ task' = "none" /\ lock' = "none"
         /\ config' \in {"idle", "store", "store only", "reconnect", "reconnecting"}
<1>1. /\ graph' = "none" /\ task' = "none" /\ lock' = "none"
      /\ config' = IF graph = "app" THEN "idle" ELSE config
  BY Zenon DEF Done
<1> QED
  BY <1>1 DEF WorkInv

\* How the search for a type goes on, or ends.
SearchGoesOn ==
  /\ at' = "try" /\ UNCHANGED <<graph, task, lock, config>>
  /\ turn' \in {"given", "peer", "own"} /\ next' \in Nat \ {0}

SearchEnds == at' = "idle" /\ Done /\ turn' = "peer" /\ next' = 1

\* When no type of a turn is left.
LEMMA FailedKeeps ==
  ASSUME WorkInv, Failed
  PROVE  SearchGoesOn \/ SearchEnds
<1>1. CASE turn = "peer"
  <2>1. turn' = "own" /\ next' = 1 /\ at' = "try" /\ UNCHANGED <<graph, task, lock, config>>
    BY <1>1, Zenon DEF Failed, configVars
  <2> QED
    BY <2>1 DEF SearchGoesOn
<1>2. CASE turn # "peer"
  BY <1>2, Zenon DEF Failed, ForgetTemplate, SearchEnds
<1> QED
  BY <1>1, <1>2

\* When this type is no good.
LEMMA NextTypeKeeps ==
  ASSUME WorkInv, NextType
  PROVE  SearchGoesOn \/ SearchEnds
<1>1. CASE next < Len(Candidates)
  <2>1. /\ next' = next + 1 /\ at' = "try"
        /\ UNCHANGED <<turn, graph, task, lock, config>>
    BY <1>1, Zenon DEF NextType, configVars
  <2>2. next' \in Nat \ {0}
    <3>1. next \in Nat \ {0}
      BY DEF WorkInv
    <3> QED
      BY <2>1, <3>1
  <2>3. turn' \in {"given", "peer", "own"}
    BY <2>1 DEF WorkInv
  <2> QED
    BY <2>1, <2>2, <2>3 DEF SearchGoesOn
<1>2. CASE ~(next < Len(Candidates))
  BY <1>2, FailedKeeps, Zenon DEF NextType
<1> QED
  BY <1>1, <1>2

\* Either way the work is consistent, if the allocators are.
LEMMA SearchKeepsWork ==
  ASSUME WorkInv, at # "idle", SearchGoesOn \/ SearchEnds,
         allocator' \in {"none", "peer", "own"}, peerAllocator' \in {"none", "peer", "own"}
  PROVE  WorkInv' /\ at' \in {"try", "idle"}
<1>1. CASE SearchGoesOn
  BY <1>1 DEF SearchGoesOn, WorkInv
<1>2. CASE SearchEnds
  <2>1. at' = "idle" /\ turn' = "peer" /\ next' = 1
    BY <1>2, Zenon DEF SearchEnds
  <2>2. /\ graph' = "none" /\ task' = "none" /\ lock' = "none"
        /\ config' \in {"idle", "store", "store only", "reconnect", "reconnecting"}
    BY <1>2, DoneKeeps, Zenon DEF SearchEnds
  <2>3. next' \in Nat \ {0}
    BY <2>1
  <2> QED
    BY <2>1, <2>2, <2>3 DEF WorkInv
<1> QED
  BY <1>1, <1>2

\* What an attempt took is given back.
LEMMA ReleaseGivesBack ==
  ASSUME FlagsOK, HeldInv, Release
  PROVE  ~connected' /\ ~input' /\ references' = 0 /\ allocator' = "none"
<1>1. /\ connected' = FALSE /\ input' = FALSE /\ allocator' = "none"
      /\ references' = references - (IF input THEN 1 ELSE 0) - (IF connected THEN 1 ELSE 0)
  BY Zenon DEF Release, BreakConnect
<1>2. references = (IF input THEN 1 ELSE 0) + (IF connected THEN 1 ELSE 0)
  BY DEF HeldInv
<1>3. references' = 0
  BY <1>1, <1>2 DEF FlagsOK
<1> QED
  BY <1>1, <1>3

\* A call that is done, or goes on with the input pin.
LEMMA CallKeepsWork ==
  ASSUME WorkInv, at = "idle", UNCHANGED <<at, turn, next>>, graph # "none",
         allocator' \in {"none", "peer", "own"}, peerAllocator' \in {"none", "peer", "own"},
         \/ Done
         \/ task' \in {"connect", "disconnect peer"} /\ UNCHANGED <<graph, lock, config>>
  PROVE  WorkInv'
<1>1. CASE Done
  BY <1>1, DoneKeeps DEF WorkInv
<1>2. CASE task' \in {"connect", "disconnect peer"} /\ UNCHANGED <<graph, lock, config>>
  BY <1>2 DEF WorkInv
<1> QED
  BY <1>1, <1>2

\* Both pins as they were.
LEMMA PinsAsTheyWere ==
  ASSUME IInv, UNCHANGED <<at, pinVars, peerVars, split>>
  PROVE  (HeldInv /\ AlikeInv)'
<1>1. UNCHANGED <<at, connected, mt, input, allocator, buffer, references, peerConnected,
                  peerType, peerAllocator, split>>
  BY Zenon DEF pinVars, peerVars
<1> QED
  BY <1>1 DEF IInv, HeldInv, AlikeInv

\* The steps of the graph outside Connect.
LEMMA GraphKeeps ==
  ASSUME IInv,
         \/ GraphCall \/ RunOrStop \/ Disconnect \/ GraphDisconnectsPeer
         \/ ConnectRefused \/ Connect
  PROVE  (WorkInv /\ HeldInv /\ AlikeInv)'
<1>1. CASE GraphCall
  <2>1. /\ graph = "none" /\ graph' = "graph"
        /\ task' \in {"connect", "disconnect", "disconnect peer", "run or stop"}
        /\ UNCHANGED <<lock, at, turn, next, config, allocator, peerAllocator>>
    BY <1>1, Zenon DEF GraphCall, tryVars, pinVars, peerVars, configVars
  <2>2. UNCHANGED <<at, pinVars, peerVars, split>>
    BY <1>1, Zenon DEF GraphCall, tryVars
  <2>3. WorkInv'
    BY <2>1 DEF IInv, WorkInv
  <2> QED
    BY <2>2, <2>3, PinsAsTheyWere
<1>2. CASE RunOrStop \/ ConnectRefused
  <2>1. Done /\ UNCHANGED <<at, turn, next, pinVars, peerVars, split>>
    BY <1>2, Zenon DEF RunOrStop, ConnectRefused, tryVars, connectFrame
  <2>2. UNCHANGED <<at, turn, next, allocator, peerAllocator>>
    BY <2>1, Zenon DEF pinVars, peerVars
  <2>3. at = "idle" /\ graph # "none"
    BY <1>2 DEF RunOrStop, ConnectRefused, IInv, WorkInv
  <2>4. allocator' \in {"none", "peer", "own"} /\ peerAllocator' \in {"none", "peer", "own"}
    BY <2>2 DEF IInv, WorkInv
  <2>5. WorkInv'
    BY <2>1, <2>2, <2>3, <2>4, CallKeepsWork, Zenon DEF IInv
  <2> QED
    BY <2>1, <2>5, PinsAsTheyWere
<1>3. CASE Disconnect
  <2>1. task = "disconnect" /\ UNCHANGED <<at, turn, next, peerVars>>
    BY <1>3, Zenon DEF Disconnect, tryVars
  <2>2. UNCHANGED <<peerConnected, peerType, peerAllocator>>
    BY <2>1, Zenon DEF peerVars
  <2>3. \/ Done
        \/ task' \in {"connect", "disconnect peer"} /\ UNCHANGED <<graph, lock, config>>
    <3>1. Done \/ (task' = "disconnect peer" /\ UNCHANGED <<graph, lock, config>>)
      BY <1>3, Zenon DEF Disconnect, configVars
    <3> QED
      BY <3>1
  <2>4. at = "idle" /\ graph # "none"
    BY <2>1 DEF IInv, WorkInv
  <2>5. split' = (connected' # peerConnected)
    BY <1>3, Zenon DEF Disconnect
  <2>6. CASE active
    <3>1. UNCHANGED <<connected, mt, input, allocator, buffer, references>>
      BY <1>3, <2>6, Zenon DEF Disconnect, pinVars
    <3>2. allocator' \in {"none", "peer", "own"} /\ peerAllocator' \in {"none", "peer", "own"}
      BY <2>2, <3>1 DEF IInv, WorkInv
    <3>3. WorkInv'
      BY <2>1, <2>3, <2>4, <3>2, CallKeepsWork DEF IInv
    <3>4. (HeldInv /\ AlikeInv)'
      BY <2>1, <2>2, <2>4, <2>5, <3>1 DEF IInv, FlagsOK, HeldInv, AlikeInv
    <3> QED
      BY <3>3, <3>4, Zenon
  <2>7. CASE ~active
    <3>1. ~connected' /\ ~input' /\ references' = 0 /\ allocator' = "none"
      BY <1>3, <2>7, ReleaseGivesBack DEF Disconnect, IInv
    <3>2. allocator' \in {"none", "peer", "own"} /\ peerAllocator' \in {"none", "peer", "own"}
      BY <2>2, <3>1 DEF IInv, WorkInv
    <3>3. WorkInv'
      BY <2>1, <2>3, <2>4, <3>2, CallKeepsWork DEF IInv
    <3>4. (HeldInv /\ AlikeInv)'
      BY <2>1, <2>2, <2>4, <2>5, <3>1 DEF IInv, FlagsOK, HeldInv, AlikeInv
    <3> QED
      BY <3>3, <3>4, Zenon
  <2> QED
    BY <2>6, <2>7
<1>4. CASE GraphDisconnectsPeer
  <2>1. task = "disconnect peer" /\ UNCHANGED <<at, turn, next, pinVars>>
    BY <1>4, Zenon DEF GraphDisconnectsPeer, tryVars
  <2>2. UNCHANGED <<connected, mt, input, allocator, buffer, references>>
    BY <2>1, Zenon DEF pinVars
  <2>3. \/ Done
        \/ task' \in {"connect", "disconnect peer"} /\ UNCHANGED <<graph, lock, config>>
    <3>1. Done \/ (task' = "connect" /\ UNCHANGED <<graph, lock, config>>)
      BY <1>4, Zenon DEF GraphDisconnectsPeer, configVars
    <3> QED
      BY <3>1
  <2>4. at = "idle" /\ graph # "none"
    BY <2>1 DEF IInv, WorkInv
  <2>5. split' = (connected # peerConnected')
    BY <1>4, Zenon DEF GraphDisconnectsPeer
  <2>6. \/ UNCHANGED <<peerConnected, peerType, peerAllocator>>
        \/ peerConnected' = FALSE /\ peerAllocator' = "none"
    BY <1>4, Zenon DEF GraphDisconnectsPeer, DisconnectPeer, peerVars
  <2>7. allocator' \in {"none", "peer", "own"} /\ peerAllocator' \in {"none", "peer", "own"}
    BY <2>2, <2>6 DEF IInv, WorkInv
  <2>8. WorkInv'
    BY <2>1, <2>3, <2>4, <2>7, CallKeepsWork DEF IInv
  <2>9. at' = "idle"
    BY <2>1, <2>4
  <2>10. HeldInv'
    BY <2>2, <2>4, <2>9 DEF IInv, HeldInv
  <2>11. connected \in BOOLEAN /\ peerConnected \in BOOLEAN
    BY Zenon DEF IInv, FlagsOK
  <2>12. connected /\ peerConnected => mt = peerType /\ buffer = mt /\ allocator = peerAllocator
    BY <2>4 DEF IInv, AlikeInv
  <2>13. AlikeInv'
    BY <2>2, <2>5, <2>6, <2>9, <2>11, <2>12 DEF AlikeInv
  <2> QED
    BY <2>8, <2>10, <2>13, Zenon
<1>5. CASE Connect
  <2>1. /\ task = "connect" /\ at = "idle" /\ ~connected
        /\ lock' = graph /\ at' = "try" /\ next' = 1
        /\ UNCHANGED <<graph, task, config, split, peerConnected, peerType, peerAllocator>>
        /\ UNCHANGED <<connected, mt, input, allocator, buffer, references>>
    BY <1>5, Zenon DEF Connect, pinVars, peerVars, configVars, connectFrame
  <2>2. turn' \in {"given", "peer", "own"} /\ next' \in Nat \ {0}
    <3>1. turn' = "given" \/ turn' = "peer"
      BY <1>5, Zenon DEF Connect
    <3> QED
      BY <2>1, <3>1
  <2>3. WorkInv'
    BY <2>1, <2>2 DEF IInv, WorkInv
  <2>4. (HeldInv /\ AlikeInv)'
    BY <2>1 DEF IInv, FlagsOK, HeldInv, AlikeInv
  <2> QED
    BY <2>3, <2>4, Zenon
<1> QED
  BY <1>1, <1>2, <1>3, <1>4, <1>5

\* Between two attempts the pin holds nothing.
LEMMA HoldsNothing ==
  ASSUME ~connected', ~input', references' = 0, allocator' = "none",
         at' \in {"try", "idle"}, peerConnected' => split'
  PROVE  (HeldInv /\ AlikeInv)'
  BY DEF HeldInv, AlikeInv

\* While the search goes on the pin holds nothing.
LEMMA HoldsNothingYet ==
  ASSUME FlagsOK, HeldInv, AlikeInv, at = "try"
  PROVE  /\ ~connected /\ ~input /\ references = 0 /\ allocator = "none"
         /\ peerConnected => split
  BY DEF FlagsOK, HeldInv, AlikeInv

\* A type that is not tried, or cannot be.
LEMMA Skipped ==
  ASSUME IInv, at = "try", SearchGoesOn \/ SearchEnds, UNCHANGED <<pinVars, peerVars, split>>
  PROVE  (WorkInv /\ HeldInv /\ AlikeInv)'
<1>1. UNCHANGED <<connected, input, references, allocator, peerConnected, peerAllocator, split>>
  BY Zenon DEF pinVars, peerVars
<1>2. WorkInv' /\ at' \in {"try", "idle"}
  <2>1. allocator' \in {"none", "peer", "own"} /\ peerAllocator' \in {"none", "peer", "own"}
    BY <1>1 DEF IInv, WorkInv
  <2>2. at # "idle"
    OBVIOUS
  <2> QED
    BY <2>1, <2>2, SearchKeepsWork, Zenon DEF IInv
<1>3. ~connected /\ ~input /\ references = 0 /\ allocator = "none" /\ (peerConnected => split)
  BY HoldsNothingYet, Zenon DEF IInv
<1>4. ~connected' /\ ~input' /\ references' = 0 /\ allocator' = "none"
  BY <1>1, <1>3
<1>5. peerConnected' => split'
  BY <1>1, <1>3
<1> QED
  BY <1>2, <1>4, <1>5, HoldsNothing, Zenon

\* An attempt that fails halfway.
LEMMA Undone ==
  ASSUME IInv, at # "idle", Release, SearchGoesOn \/ SearchEnds,
         peerAllocator' \in {"none", "peer", "own"}, peerConnected' => split'
  PROVE  (WorkInv /\ HeldInv /\ AlikeInv)'
<1>1. ~connected' /\ ~input' /\ references' = 0 /\ allocator' = "none"
  BY ReleaseGivesBack, Zenon DEF IInv
<1>2. WorkInv' /\ at' \in {"try", "idle"}
  <2>1. allocator' \in {"none", "peer", "own"}
    BY <1>1
  <2> QED
    BY <2>1, SearchKeepsWork, Zenon DEF IInv
<1> QED
  BY <1>1, <1>2, HoldsNothing, Zenon

\* The attempt goes on, and the search stays where it is.
LEMMA AttemptKeepsWork ==
  ASSUME WorkInv, at # "idle", at' \in {"check", "receive", "decide"},
         attemptFrame' = attemptFrame, UNCHANGED <<allocator, peerAllocator>>
  PROVE  WorkInv' /\ split' = split
<1>1. UNCHANGED <<turn, next, graph, task, lock, config, split>>
  BY Zenon DEF attemptFrame, configVars, connectFrame
<1>2. UNCHANGED <<allocator, peerAllocator>>
  OBVIOUS
<1> QED
  BY <1>1, <1>2 DEF WorkInv

\* The steps of Connect.
LEMMA ConnectKeeps ==
  ASSUME IInv, ConnectStep
  PROVE  (WorkInv /\ HeldInv /\ AlikeInv)'
<1>1. CASE NoCandidate
  <2>1. at = "try" /\ Failed /\ UNCHANGED <<pinVars, peerVars, split>>
    BY <1>1, Zenon DEF NoCandidate, connectFrame
  <2> QED
    BY <2>1, FailedKeeps, Skipped, Zenon DEF IInv
<1>2. CASE NoMatch \/ CheckConnectFails
  <2>1. at = "try" /\ NextType /\ UNCHANGED <<pinVars, peerVars, split>>
    BY <1>2, Zenon DEF NoMatch, CheckConnectFails, connectFrame
  <2> QED
    BY <2>1, NextTypeKeeps, Skipped, Zenon DEF IInv
<1>3. CASE CheckConnect
  <2>1. /\ at = "try" /\ at' = "check" /\ input' = TRUE /\ references' = references + 1
        /\ UNCHANGED <<connected, allocator, peerConnected, peerAllocator>>
        /\ UNCHANGED attemptFrame
    BY <1>3, Zenon DEF CheckConnect, peerVars
  <2>2. WorkInv' /\ split' = split
    BY <2>1, AttemptKeepsWork DEF IInv
  <2>3. ~connected /\ ~input /\ references = 0 /\ allocator = "none" /\ (peerConnected => split)
    BY <2>1, HoldsNothingYet, Zenon DEF IInv
  <2> QED
    BY <2>1, <2>2, <2>3 DEF HeldInv, AlikeInv
<1>4. CASE Propose
  <2>1. /\ at = "check" /\ at' = "receive" /\ connected' = TRUE /\ references' = references + 1
        /\ UNCHANGED <<input, allocator, peerConnected, peerAllocator>>
        /\ UNCHANGED attemptFrame
    BY <1>4, Zenon DEF Propose, peerVars
  <2>2. WorkInv' /\ split' = split
    BY <2>1, AttemptKeepsWork DEF IInv
  <2>3. input /\ ~connected /\ references = 1 /\ allocator = "none" /\ (peerConnected => split)
    BY <2>1 DEF IInv, FlagsOK, HeldInv, AlikeInv
  <2> QED
    BY <2>1, <2>2, <2>3 DEF HeldInv, AlikeInv
<1>5. CASE Received
  <2>1. /\ at = "receive" /\ at' = "decide" /\ peerConnected' = TRUE /\ peerType' = mt
        /\ UNCHANGED <<connected, input, references, allocator, mt, buffer, peerAllocator>>
        /\ UNCHANGED attemptFrame
    BY <1>5, Zenon DEF Received, pinVars
  <2>2. WorkInv' /\ split' = split
    BY <2>1, AttemptKeepsWork DEF IInv
  <2>3. input /\ connected /\ references = 2 /\ allocator = "none"
    BY <2>1 DEF IInv, FlagsOK, HeldInv
  <2> QED
    BY <2>1, <2>2, <2>3 DEF HeldInv, AlikeInv
<1>6. CASE NotProposed \/ NotReceived
  <2>1. /\ at \in {"check", "receive"} /\ Release /\ NextType
        /\ UNCHANGED <<peerConnected, peerAllocator, split>>
    BY <1>6 DEF NotProposed, NotReceived, peerVars, connectFrame
  <2>2. peerAllocator' \in {"none", "peer", "own"}
    BY <2>1 DEF IInv, WorkInv
  <2>3. at # "idle" /\ (peerConnected' => split')
    BY <2>1 DEF IInv, AlikeInv, FlagsOK, HeldInv
  <2> QED
    BY <2>1, <2>2, <2>3, NextTypeKeeps, Undone, Zenon DEF IInv
<1>7. CASE DecideAllocator
  <2>1. /\ at = "decide" /\ at' = "idle" /\ Done /\ turn' = "peer" /\ next' = 1
        /\ buffer' = mt
        /\ UNCHANGED <<connected, mt, input, references, peerConnected, peerType, split>>
    BY <1>7, Zenon DEF DecideAllocator, ForgetTemplate, connectFrame
  <2>2. allocator' \in {"peer", "own"} /\ peerAllocator' = allocator'
    BY <1>7, Zenon DEF DecideAllocator
  <2>3. WorkInv'
    <3>1. allocator' \in {"none", "peer", "own"} /\ peerAllocator' \in {"none", "peer", "own"}
      BY <2>2
    <3>2. at # "idle" /\ SearchEnds
      BY <2>1 DEF SearchEnds
    <3> QED
      BY <3>1, <3>2, SearchKeepsWork, Zenon DEF IInv
  <2>4. input /\ connected /\ references = 2 /\ peerConnected /\ mt = peerType
    BY <2>1 DEF IInv, FlagsOK, HeldInv, AlikeInv
  <2> QED
    BY <2>1, <2>2, <2>3, <2>4 DEF HeldInv, AlikeInv
<1>8. CASE NoAllocator
  <2>1. at # "idle" /\ Release /\ NextType /\ peerConnected' = FALSE /\ peerAllocator' = "none"
    BY <1>8 DEF NoAllocator, DisconnectPeer
  <2>2. peerAllocator' \in {"none", "peer", "own"} /\ (peerConnected' => split')
    BY <2>1
  <2> QED
    BY <2>1, <2>2, NextTypeKeeps, Undone, Zenon DEF IInv
<1> QED
  BY <1>1, <1>2, <1>3, <1>4, <1>5, <1>6, <1>7, <1>8 DEF ConnectStep

\* IInv is inductive.
LEMMA NextIInv == IInv /\ [Next]_vars => IInv'
<1> SUFFICES ASSUME IInv, [Next]_vars PROVE IInv'
  OBVIOUS
<1>1. FlagsOK'
  BY FlagsStep DEF IInv
<1>2. CASE GraphCall \/ GraphStep
  BY <1>1, <1>2, GraphKeeps, ConnectKeeps, Zenon DEF GraphStep, IInv
<1>3. CASE SetFormat \/ StoreFormat \/ Reconnect
  <2>1. UNCHANGED <<at, turn, next, connected, mt, input, allocator, buffer, references,
                    peerConnected, peerType, peerAllocator, split>>
    BY <1>3, Zenon
       DEF SetFormat, StoreFormat, Reconnect, tryVars, pinVars, peerVars, configFrame
  <2>2. /\ config' \in {"idle", "store", "store only", "reconnect", "reconnecting"}
        /\ \/ UNCHANGED <<graph, task, lock>>
           \/ graph = "none" /\ graph' = "app" /\ task' = "disconnect" /\ lock' = lock
    BY <1>3 DEF SetFormat, StoreFormat, Reconnect
  <2>3. WorkInv'
    BY <2>1, <2>2 DEF IInv, WorkInv
  <2>4. HeldInv'
    BY <2>1 DEF IInv, HeldInv
  <2>5. AlikeInv'
    BY <2>1 DEF IInv, AlikeInv
  <2> QED
    BY <1>1, <2>3, <2>4, <2>5, Zenon DEF IInv
<1>4. CASE UNCHANGED vars
  <2>1. UNCHANGED <<graph, task, lock, at, turn, next, connected, mt, input, allocator, buffer,
                    references, peerConnected, peerType, peerAllocator, config, split>>
    BY <1>4, Zenon DEF vars
  <2>2. WorkInv'
    BY <2>1, ZenonT(40) DEF IInv, WorkInv
  <2>3. (HeldInv /\ AlikeInv)'
    BY <2>1 DEF IInv, HeldInv, AlikeInv
  <2> QED
    BY <1>1, <2>2, <2>3, Zenon DEF IInv
<1> QED
  BY <1>2, <1>3, <1>4 DEF Next

\* IInv holds in every reachable state.
LEMMA SpecIInv == Spec => []IInv
  BY InitIInv, NextIInv, PTL DEF Spec

-----------------------------------------------------------------------------
(* The types tried so far                                                  *)

\* A type this Connect may use and both pins accept.
Usable(t) == Matches(t) /\ CheckMediaType(t) /\ t \in tastes

\* Which pin this is, and where a format can have been set.
SetupInv ==
  /\ kind \in {"direct", "virtual"} /\ offers \in PeerOffers
  /\ kind = "virtual" => config = "idle" /\ current = NoType

\* The type of this attempt, and how much of it has been found good.
AttemptInv ==
  /\ at = "check" => Matches(candidate)
  /\ at \in {"receive", "decide"} => mt = candidate /\ Matches(mt) /\ CheckMediaType(mt)
  /\ at = "decide" => mt \in tastes

\* Of the types before this one none is usable, unless something else failed.
TriedInv ==
  at # "idle" =>
    /\ turn = "given" => next = 1
    /\ turn = "own" /\ current # NoType => next = 1
    /\ fault \/ \A j \in 1 .. next - 1 : ~Usable(Candidates[j])
    /\ fault \/ turn # "own" \/ \A t \in Range(offers) : ~Usable(t)

SearchInv == SetupInv /\ AttemptInv /\ TriedInv

\* A list of types: what Len and Range need to know of one.
IsList(s) == Len(s) \in Nat /\ DOMAIN s = 1 .. Len(s)

\* What the enumerator of the pin goes through.
LEMMA OwnTypesListed ==
  ASSUME kind \in {"direct", "virtual"}
  PROVE  /\ IsList(OwnTypes)
         /\ kind = "direct" /\ current # NoType => OwnTypes = <<current>>
<1>1. CASE kind = "virtual"
  <2>1. OwnTypes = <<VirtualType>>
    BY <1>1 DEF OwnTypes
  <2> QED
    BY <1>1, <2>1 DEF IsList
<1>2. CASE kind = "direct" /\ current = NoType
  <2>1. OwnTypes = [i \in 1..6 |-> Advertised(i - 1)]
    BY <1>2 DEF OwnTypes
  <2>2. IsList(OwnTypes)
    <3> HIDE DEF Advertised
    <3>1. Len(OwnTypes) = 6
      BY <2>1
    <3> QED
      BY <2>1, <3>1 DEF IsList
  <2> QED
    BY <1>2, <2>2
<1>3. CASE kind = "direct" /\ current # NoType
  <2>1. OwnTypes = <<current>>
    BY <1>3 DEF OwnTypes
  <2> QED
    BY <2>1 DEF IsList
<1> QED
  BY <1>1, <1>2, <1>3

\* What TryMediaTypes goes through, whoever's types they are.
LEMMA CandidatesListed ==
  ASSUME SetupInv, turn \in {"given", "peer", "own"}
  PROVE  /\ IsList(Candidates)
         /\ turn = "given" => Candidates = <<template>>
         /\ turn = "own" => Candidates = OwnTypes
         /\ turn = "peer" => Candidates = offers
<1>1. CASE turn = "given"
  <2>1. Candidates = <<template>>
    BY <1>1 DEF Candidates
  <2> QED
    BY <1>1, <2>1 DEF IsList
<1>2. CASE turn = "peer"
  <2>1. Candidates = offers
    BY <1>2 DEF Candidates
  <2>2. offers \in Seq(Range(offers))
    BY OffersAssumption DEF SetupInv
  <2>3. IsList(offers)
    BY <2>2 DEF IsList
  <2> QED
    BY <1>2, <2>1, <2>3
<1>3. CASE turn = "own"
  <2>1. Candidates = OwnTypes
    BY <1>3 DEF Candidates
  <2> QED
    BY <1>3, <2>1, OwnTypesListed DEF SetupInv
<1> QED
  BY <1>1, <1>2, <1>3

\* While the search stays where it is, so do its types.
LEMMA TypesStay ==
  ASSUME UNCHANGED <<kind, offers, tastes, template, turn, current>>
  PROVE  /\ Candidates' = Candidates /\ OwnTypes' = OwnTypes
         /\ \A t : /\ Matches(t)' <=> Matches(t)
                   /\ CheckMediaType(t)' <=> CheckMediaType(t)
                   /\ Usable(t)' <=> Usable(t)
<1>1. OwnTypes' = OwnTypes
  BY Zenon DEF OwnTypes
<1>2. Candidates' = Candidates
  BY <1>1, Zenon DEF Candidates
<1>3. \A t : /\ Matches(t)' <=> Matches(t)
             /\ CheckMediaType(t)' <=> CheckMediaType(t)
  BY Zenon DEF Matches, CheckMediaType
<1>4. \A t : Usable(t)' <=> Usable(t)
  BY <1>3, Zenon DEF Usable
<1> QED
  BY <1>1, <1>2, <1>3, <1>4, Zenon

\* All of a turn has been tried, when this type is its last.
LEMMA TurnTried ==
  ASSUME IsList(Candidates), next \in Nat \ {0}, ~(next < Len(Candidates)),
         \A j \in 1 .. next - 1 : ~Usable(Candidates[j]), ~Usable(candidate)
  PROVE  \A t \in Range(Candidates) : ~Usable(t)
<1> HIDE DEF Candidates, Usable
<1> SUFFICES ASSUME NEW j \in DOMAIN Candidates PROVE ~Usable(Candidates[j])
  BY DEF Range
<1>1. j \in 1 .. next - 1 \/ j = next
  BY DEF IsList
<1>2. ASSUME j = next PROVE ~Usable(Candidates[j])
  BY <1>2, Zenon DEF candidate
<1> QED
  BY <1>1, <1>2

\* What a step of the search keeps, and what it has found out when it gives up.
SearchKept ==
  SearchInv' /\ (at' = "idle" => fault' \/ \A t \in Offered : ~Usable(t))

\* What is no part of the search.
Surroundings == UNCHANGED <<kind, offers, tastes, current>> /\ (fault => fault')

\* A turn is over.
LEMMA FailedTried ==
  ASSUME IInv, SearchInv, at # "idle", Failed, Surroundings,
         fault' \/ \A t \in Range(Candidates) : ~Usable(t)
  PROVE  SearchKept
<1>1. turn \in {"given", "peer", "own"} /\ next \in Nat \ {0}
  BY DEF IInv, WorkInv
<1>2. /\ IsList(Candidates)
      /\ turn = "given" => Candidates = <<template>>
      /\ turn = "own" => Candidates = OwnTypes
      /\ turn = "peer" => Candidates = offers
  BY <1>1, CandidatesListed, Zenon DEF SearchInv
<1>3. UNCHANGED <<kind, offers, tastes, current>> /\ (fault => fault')
  BY Zenon DEF Surroundings
<1>4. CASE turn = "peer"
  <2>1. turn' = "own" /\ next' = 1 /\ at' = "try" /\ template' = template /\ config' = config
    BY <1>4, Zenon DEF Failed, configVars
  <2>2. \A t : Usable(t)' <=> Usable(t)
    <3>1. \A t : Matches(t)' <=> Matches(t)
      BY <1>4, <2>1 DEF Matches
    <3>2. \A t : CheckMediaType(t)' <=> CheckMediaType(t)
      BY <1>3, Zenon DEF CheckMediaType
    <3> QED
      BY <1>3, <3>1, <3>2, Zenon DEF Usable
  <2>3. SetupInv'
    BY <1>3, <2>1 DEF SearchInv, SetupInv
  <2>4. fault' \/ \A t \in Range(offers)' : ~Usable(t)'
    BY <1>2, <1>3, <1>4, <2>2, Zenon
  <2>5. TriedInv'
    <3>1. fault' \/ \A j \in 1 .. (next - 1)' : ~Usable(Candidates[j])'
      BY <2>1
    <3> QED
      BY <2>1, <2>4, <3>1, Zenon DEF TriedInv
  <2>6. AttemptInv'
    BY <2>1 DEF AttemptInv
  <2> QED
    BY <2>1, <2>3, <2>5, <2>6, Zenon DEF SearchKept, SearchInv
<1>5. CASE turn # "peer"
  <2>1. at' = "idle" /\ Done
    BY <1>5, Zenon DEF Failed
  <2>2. config' = IF graph = "app" THEN "idle" ELSE config
    BY <2>1, Zenon DEF Done
  <2>3. SearchInv'
    BY <1>3, <2>1, <2>2 DEF SearchInv, SetupInv, AttemptInv, TriedInv
  <2>4. ASSUME ~fault', NEW t \in Offered, Usable(t) PROVE FALSE
    <3>1. ~fault /\ \A u \in Range(Candidates) : ~Usable(u)
      BY <1>3, <2>4
    <3>2. CASE turn = "given"
      <4>1. t = template
        BY <2>4, <3>2, Zenon DEF Usable, Matches
      <4>2. template \in Range(Candidates)
        BY <1>2, <3>2 DEF Range
      <4> QED
        BY <2>4, <3>1, <4>1, <4>2, Zenon
    <3>3. CASE turn = "own"
      <4>1. \A u \in Range(offers) : ~Usable(u)
        BY <3>1, <3>3, Zenon DEF SearchInv, TriedInv
      <4>2. t \in Range(offers) \cup Range(OwnTypes)
        <5>1. turn # "given"
          BY <3>3
        <5> QED
          BY <2>4, <5>1, Zenon DEF Offered
      <4> QED
        BY <1>2, <2>4, <3>1, <3>3, <4>1, <4>2, Zenon
    <3> QED
      BY <1>1, <1>5, <3>2, <3>3
  <2> QED
    BY <2>3, <2>4, Zenon DEF SearchKept
<1> QED
  BY <1>4, <1>5

\* This type is no good, or something else failed.
LEMMA NextTypeTried ==
  ASSUME IInv, SearchInv, at # "idle", NextType, Surroundings, fault' \/ ~Usable(candidate)
  PROVE  SearchKept
<1>1. turn \in {"given", "peer", "own"} /\ next \in Nat \ {0}
  BY DEF IInv, WorkInv
<1>2. /\ IsList(Candidates)
      /\ turn = "given" => Candidates = <<template>>
      /\ turn = "own" => Candidates = OwnTypes
      /\ turn = "peer" => Candidates = offers
  BY <1>1, CandidatesListed, Zenon DEF SearchInv
<1>3. UNCHANGED <<kind, offers, tastes, current>> /\ (fault => fault')
  BY Zenon DEF Surroundings
<1>4. fault \/ \A j \in 1 .. next - 1 : ~Usable(Candidates[j])
  BY Zenon DEF SearchInv, TriedInv
<1>5. CASE next < Len(Candidates)
  <2>1. /\ next' = next + 1 /\ at' = "try"
        /\ UNCHANGED <<template, turn, config>>
    BY <1>5, Zenon DEF NextType, configVars
  <2>2. /\ Candidates' = Candidates
        /\ \A t : Usable(t)' <=> Usable(t)
    BY <1>3, <2>1, TypesStay, Zenon
  <2>3. fault' \/ \A j \in 1 .. (next - 1)' : ~Usable(Candidates[j])'
    <3> SUFFICES ASSUME ~fault', NEW j \in 1 .. (next - 1)' PROVE ~Usable(Candidates[j])'
      BY Zenon
    <3>1. j \in 1 .. next - 1 \/ j = next
      BY <1>1, <2>1
    <3>2. ~Usable(Candidates[j])
      BY <1>3, <1>4, <3>1, Zenon DEF candidate
    <3> QED
      BY <2>2, <3>2, Zenon
  <2>4. SetupInv' /\ AttemptInv'
    BY <1>3, <2>1 DEF SearchInv, SetupInv, AttemptInv
  <2>5. turn # "given" /\ ~(turn = "own" /\ current # NoType)
    <3>1. SetupInv
      BY Zenon DEF SearchInv
    <3>2. ASSUME turn = "given" PROVE FALSE
      <4>1. Len(Candidates) = 1
        BY <1>2, <3>2
      <4> QED
        BY <1>1, <1>5, <4>1
    <3>3. ASSUME turn = "own", current # NoType PROVE FALSE
      <4>1. kind = "direct"
        BY <3>1, <3>3 DEF SetupInv
      <4>2. Candidates = <<current>>
        BY <1>2, <3>1, <3>3, <4>1, OwnTypesListed, Zenon
      <4>3. Len(Candidates) = 1
        BY <4>2
      <4> QED
        BY <1>1, <1>5, <4>3
    <3> QED
      BY <3>2, <3>3
  <2>6. fault' \/ turn # "own" \/ \A t \in Range(offers)' : ~Usable(t)'
    <3>1. fault \/ turn # "own" \/ \A t \in Range(offers) : ~Usable(t)
      BY Zenon DEF SearchInv, TriedInv
    <3>2. Range(offers)' = Range(offers)
      BY <1>3, Zenon
    <3> QED
      BY <1>3, <2>2, <3>1, <3>2, Zenon
  <2>7. TriedInv'
    <3>1. /\ turn' = "given" => next' = 1
          /\ turn' = "own" /\ current' # NoType' => next' = 1
      BY <1>3, <2>1, <2>5, Zenon DEF NoType
    <3>2. fault' \/ turn' # "own" \/ \A t \in Range(offers)' : ~Usable(t)'
      BY <2>1, <2>6, Zenon
    <3> QED
      BY <2>3, <3>1, <3>2, Zenon DEF TriedInv
  <2> QED
    BY <2>1, <2>4, <2>7, Zenon DEF SearchKept, SearchInv
<1>6. CASE ~(next < Len(Candidates))
  <2>1. fault' \/ \A t \in Range(Candidates) : ~Usable(t)
    BY <1>1, <1>2, <1>3, <1>4, <1>6, TurnTried, Zenon
  <2> QED
    BY <1>6, <2>1, FailedTried, Zenon DEF NextType
<1> QED
  BY <1>5, <1>6

\* An attempt goes on with the type it has.
LEMMA AttemptGoesOn ==
  ASSUME IInv, SearchInv, at # "idle", attemptFrame' = attemptFrame, fault' = fault
  PROVE  /\ SetupInv' /\ TriedInv'
         /\ candidate' = candidate /\ (tastes' = tastes)
         /\ \A t : /\ Matches(t)' <=> Matches(t)
                   /\ CheckMediaType(t)' <=> CheckMediaType(t)
<1>1. UNCHANGED <<kind, offers, tastes, template, turn, next, current, config>>
  BY Zenon DEF attemptFrame, configVars, connectFrame, setup
<1>2. /\ Candidates' = Candidates
      /\ \A t : /\ Matches(t)' <=> Matches(t)
                /\ CheckMediaType(t)' <=> CheckMediaType(t)
                /\ Usable(t)' <=> Usable(t)
  BY <1>1, TypesStay, Zenon
<1>3. SetupInv'
  BY <1>1 DEF SearchInv, SetupInv
<1>4. candidate' = candidate
  BY <1>1, <1>2, Zenon DEF candidate
<1>5. /\ turn = "given" => next = 1
      /\ turn = "own" /\ current # NoType => next = 1
      /\ fault \/ \A j \in 1 .. next - 1 : ~Usable(Candidates[j])
      /\ fault \/ turn # "own" \/ \A t \in Range(offers) : ~Usable(t)
  BY Zenon DEF SearchInv, TriedInv
<1>6. /\ turn' = "given" => next' = 1
      /\ turn' = "own" /\ current' # NoType' => next' = 1
  BY <1>1, <1>5, Zenon DEF NoType
<1>7. fault' \/ \A j \in 1 .. (next - 1)' : ~Usable(Candidates[j])'
  BY <1>1, <1>2, <1>5, Zenon
<1>8. fault' \/ turn' # "own" \/ \A t \in Range(offers)' : ~Usable(t)'
  BY <1>1, <1>2, <1>5, Zenon
<1>9. TriedInv'
  BY <1>6, <1>7, <1>8, Zenon DEF TriedInv
<1> QED
  BY <1>1, <1>2, <1>3, <1>4, <1>9, Zenon

\* The steps of Connect that find or lose a type.
LEMMA ConnectStepSearches ==
  ASSUME IInv, SearchInv, ConnectStep
  PROVE  /\ SearchInv'
         /\ at' = "idle" /\ ~connected' => fault' \/ \A t \in Offered : ~Usable(t)
<1>1. CASE NoCandidate
  <2>1. at # "idle" /\ Failed /\ Surroundings /\ Candidates = <<>>
    <3>1. at = "try" /\ Failed /\ UNCHANGED <<kind, offers, tastes, fault>> /\ Candidates = <<>>
      BY <1>1, Zenon DEF NoCandidate, connectFrame, setup
    <3>2. current' = current
      BY <3>1, Zenon DEF Failed, Done, configVars
    <3> QED
      BY <3>1, <3>2 DEF Surroundings
  <2>2. \A t \in Range(Candidates) : ~Usable(t)
    BY <2>1 DEF Range
  <2> QED
    BY <2>1, <2>2, FailedTried, Zenon DEF SearchKept
<1>2. CASE NoMatch \/ CheckConnectFails \/ NotProposed \/ NotReceived \/ NoAllocator
  <2>1. at # "idle" /\ NextType /\ UNCHANGED <<kind, offers, tastes>>
    <3>1. NextType /\ UNCHANGED <<kind, offers, tastes>>
      BY <1>2, Zenon
         DEF NoMatch, CheckConnectFails, NotProposed, NotReceived, NoAllocator, connectFrame,
             setup
    <3>2. at \in {"try", "check", "receive", "decide"}
      BY <1>2 DEF NoMatch, CheckConnectFails, NotProposed, NotReceived, NoAllocator
    <3> QED
      BY <3>1, <3>2
  <2>2. current' = current
    BY <2>1, Zenon DEF NextType, Failed, Done, configVars
  <2>3. fault => fault'
    BY <1>2, Zenon DEF NoMatch, CheckConnectFails, NotProposed, NotReceived, NoAllocator
  <2>4. fault' \/ ~Usable(candidate)
    <3>1. CASE NoMatch \/ NotProposed
      BY <3>1, Zenon DEF NoMatch, NotProposed, Usable
    <3>2. CASE CheckConnectFails \/ NoAllocator
      BY <3>2, Zenon DEF CheckConnectFails, NoAllocator
    <3>3. CASE NotReceived
      <4>1. at = "receive" /\ (fault' \/ mt \notin tastes)
        BY <3>3, Zenon DEF NotReceived
      <4>2. mt = candidate
        BY <4>1 DEF SearchInv, AttemptInv
      <4> QED
        BY <4>1, <4>2, Zenon DEF Usable
    <3> QED
      BY <1>2, <3>1, <3>2, <3>3
  <2> QED
    BY <2>1, <2>2, <2>3, <2>4, NextTypeTried, Zenon DEF SearchKept, Surroundings
<1>3. CASE CheckConnect \/ Propose \/ Received
  <2>1. at # "idle" /\ attemptFrame' = attemptFrame /\ fault' = fault
    <3>1. attemptFrame' = attemptFrame /\ fault' = fault
      BY <1>3, Zenon DEF CheckConnect, Propose, Received
    <3>2. at \in {"try", "check", "receive"}
      BY <1>3 DEF CheckConnect, Propose, Received
    <3> QED
      BY <3>1, <3>2
  <2>2. /\ SetupInv' /\ TriedInv'
        /\ candidate' = candidate /\ tastes' = tastes
        /\ \A t : /\ Matches(t)' <=> Matches(t)
                  /\ CheckMediaType(t)' <=> CheckMediaType(t)
    BY <2>1, AttemptGoesOn, Zenon
  <2>3. CASE CheckConnect
    <3>1. at' = "check" /\ Matches(candidate)
      BY <2>3, Zenon DEF CheckConnect
    <3>2. Matches(candidate)'
      BY <2>2, <3>1, Zenon
    <3> QED
      BY <2>2, <3>1, <3>2 DEF SearchInv, AttemptInv
  <2>4. CASE Propose
    <3>1. at' = "receive" /\ mt' = candidate /\ CheckMediaType(candidate) /\ at = "check"
      BY <2>4, Zenon DEF Propose
    <3>2. Matches(mt') /\ CheckMediaType(mt')
      BY <3>1, Zenon DEF SearchInv, AttemptInv
    <3>3. Matches(mt)' /\ CheckMediaType(mt)' /\ mt' = candidate'
      BY <2>2, <3>1, <3>2, Zenon
    <3> QED
      BY <2>2, <3>1, <3>3 DEF SearchInv, AttemptInv
  <2>5. CASE Received
    <3>1. at' = "decide" /\ mt' = mt /\ mt \in tastes /\ at = "receive"
      BY <2>5, Zenon DEF Received, pinVars
    <3>2. mt = candidate /\ Matches(mt) /\ CheckMediaType(mt)
      BY <3>1 DEF SearchInv, AttemptInv
    <3>3. Matches(mt)' /\ CheckMediaType(mt)' /\ mt' = candidate' /\ (mt \in tastes)'
      BY <2>2, <3>1, <3>2, Zenon
    <3> QED
      BY <2>2, <3>1, <3>3 DEF SearchInv, AttemptInv
  <2> QED
    BY <1>3, <2>3, <2>4, <2>5
<1>4. CASE DecideAllocator
  <2>1. /\ at = "decide" /\ at' = "idle" /\ Done
        /\ UNCHANGED <<connected, kind, offers>>
    BY <1>4, Zenon DEF DecideAllocator, connectFrame, setup
  <2>2. UNCHANGED current /\ config' = IF graph = "app" THEN "idle" ELSE config
    BY <2>1, Zenon DEF Done
  <2>3. connected'
    BY <2>1 DEF IInv, HeldInv
  <2>4. SearchInv'
    BY <2>1, <2>2 DEF SearchInv, SetupInv, AttemptInv, TriedInv
  <2> QED
    BY <2>3, <2>4
<1> QED
  BY <1>1, <1>2, <1>3, <1>4 DEF ConnectStep

\* The search has not begun.
LEMMA NoSearch ==
  ASSUME SetupInv, UNCHANGED <<kind, offers>>, at' = "idle",
         kind' = "virtual" => config' = "idle" /\ current' = NoType'
  PROVE  SearchInv'
  BY DEF SearchInv, SetupInv, AttemptInv, TriedInv

\* The steps outside Connect.
LEMMA OthersKeepSearch ==
  ASSUME IInv, SearchInv, [Next]_vars, ~ConnectStep
  PROVE  SearchInv' /\ ~Ends
<1>1. /\ kind = "virtual" => config = "idle" /\ current = NoType
      /\ SetupInv
  BY Zenon DEF SearchInv, SetupInv
<1>2. CASE GraphCall \/ RunOrStop \/ Disconnect \/ GraphDisconnectsPeer \/ ConnectRefused
  <2>1. UNCHANGED <<at, kind, offers, current>>
    BY <1>2, Zenon
       DEF GraphCall, RunOrStop, Disconnect, GraphDisconnectsPeer, ConnectRefused, Done,
           setup, tryVars, configVars, connectFrame
  <2>2. config' \in {config, "idle"}
    <3>1. config' = config \/ config' = IF graph = "app" THEN "idle" ELSE config
      BY <1>2, Zenon
         DEF GraphCall, RunOrStop, Disconnect, GraphDisconnectsPeer, ConnectRefused, Done,
             configVars
    <3> QED
      BY <3>1
  <2>3. at = "idle"
    BY <1>2 DEF GraphCall, RunOrStop, Disconnect, GraphDisconnectsPeer, ConnectRefused, IInv,
                WorkInv
  <2> QED
    BY <1>1, <2>1, <2>2, <2>3, NoSearch DEF Ends, NoType
<1>3. CASE Connect
  <2>1. /\ at = "idle" /\ at' = "try" /\ next' = 1
        /\ UNCHANGED <<kind, offers, config, current>>
    BY <1>3, Zenon DEF Connect, configVars, connectFrame, setup
  <2>2. turn' \in {"given", "peer"}
    BY <1>3 DEF Connect
  <2> QED
    BY <2>1, <2>2 DEF SearchInv, SetupInv, AttemptInv, TriedInv, Ends
<1>4. CASE SetFormat \/ UNCHANGED vars
  <2>1. UNCHANGED <<kind, offers, tastes, template, turn, next, at, mt, current, fault>>
    BY <1>4, Zenon DEF SetFormat, configFrame, setup, tryVars, pinVars, vars
  <2>2. kind = "virtual" => config' = config
    <3>1. kind = "direct" \/ config' = config
      BY <1>4, Zenon DEF SetFormat, vars
    <3> QED
      BY <3>1
  <2>3. /\ Candidates' = Candidates
        /\ \A t : /\ Matches(t)' <=> Matches(t)
                  /\ CheckMediaType(t)' <=> CheckMediaType(t)
                  /\ Usable(t)' <=> Usable(t)
    BY <2>1, TypesStay, Zenon
  <2>4. SetupInv'
    BY <1>1, <2>1, <2>2 DEF SetupInv
  <2>5. AttemptInv'
    BY <2>1, <2>3, Zenon DEF SearchInv, AttemptInv, candidate
  <2>6. TriedInv'
    BY <2>1, <2>3, Zenon DEF SearchInv, TriedInv, NoType
  <2> QED
    BY <2>1, <2>4, <2>5, <2>6, Zenon DEF SearchInv, Ends
<1>5. CASE StoreFormat \/ Reconnect
  <2>1. UNCHANGED <<at, kind, offers>>
    BY <1>5, Zenon DEF StoreFormat, Reconnect, configFrame, setup, tryVars
  <2>2. at = "idle" /\ config # "idle"
    BY <1>5 DEF StoreFormat, Reconnect, IInv, WorkInv
  <2> QED
    BY <1>1, <2>1, <2>2, NoSearch DEF Ends
<1> QED
  BY <1>2, <1>3, <1>4, <1>5, Zenon DEF Next, GraphStep

\* The search keeps its invariant, too.
LEMMA SpecSearchInv == Spec => [](IInv /\ SearchInv)
<1>1. Init => SearchInv
  BY DEF Init, SearchInv, SetupInv, AttemptInv, TriedInv
<1>2. IInv /\ SearchInv /\ [Next]_vars => SearchInv'
  BY ConnectStepSearches, OthersKeepSearch, Zenon
<1> QED
  BY <1>1, <1>2, InitIInv, NextIInv, PTL DEF Spec

-----------------------------------------------------------------------------
(* Frame rates                                                             *)

\* What an integer division gives.
LEMMA Division ==
  ASSUME NEW x \in Nat \ {0}, NEW a \in Nat
  PROVE  /\ a \div x \in Int
         /\ x * (a \div x) <= a /\ a < x * (a \div x + 1)
  BY SMT

\* The rate of an interval between the limits, as numbers.
LEMMA RateOfInterval ==
  ASSUME NEW x \in Int, 142857 <= x, x <= 5000000
  PROVE  Units \div x \in 2..70
<1> DEFINE q == Units \div x
<1>1. q \in Int /\ x * q <= Units /\ Units < x * (q + 1)
  <2>1. Units \in Nat
    BY SMT DEF Units
  <2>2. x \in Nat \ {0}
    BY SMT
  <2> QED
    BY <2>1, <2>2, Division, SMT
<1> HIDE DEF q
<1>2. q >= 2
  <2>1. q + 1 <= 2 => x * (q + 1) <= x * 2
    BY <1>1, SMT
  <2> QED
    BY <1>1, <2>1, SMT DEF Units
<1>3. q <= 70
  <2>1. q >= 71 => x * 71 <= x * q
    BY <1>1, SMT
  <2> QED
    BY <1>1, <2>1, SMT DEF Units
<1> QED
  <2>1. q \in 2..70
    BY <1>1, <1>2, <1>3, SMT
  <2> QED
    BY <2>1, SMT DEF q

\* The members of an interval of integers.
LEMMA Between ==
  ASSUME NEW a \in Int, NEW b \in Int, NEW x \in a..b
  PROVE  x \in Int /\ a <= x /\ x <= b
  BY SMT

\* The rates of the intervals CheckMediaType lets through.
LEMMA RatesInRange == \A x \in Units \div 70 .. Units \div 2 : Units \div x \in 2..70
<1>1. Units \div 70 \in Int /\ Units \div 2 \in Int
  BY SMT DEF Units
<1>2. Units \div 70 >= 142857 /\ 5000000 >= Units \div 2
  BY SMT DEF Units
<1>3. \A x \in Units \div 70 .. Units \div 2 :
        x \in Int /\ Units \div 70 <= x /\ x <= Units \div 2
  BY <1>1, Between, Zenon
<1> QED
  BY <1>1, <1>2, <1>3, RateOfInterval, SMT

\* A rate that was advertised survives both divisions.
LEMMA AdvertisedRates ==
  ASSUME NEW i \in 0..5
  PROVE  CameraRate(Advertised(i)) = Fps(i)
<1>1. Fps(i) \in {15, 30, 60}
  <2>1. i % 3 \in {0, 1, 2}
    BY SMT
  <2>2. CASE i % 3 = 2
    BY <2>2, SMT DEF Fps
  <2>3. CASE i % 3 \in {0, 1}
    <3>1. Fps(i) = 30 * ((i % 3) + 1)
      BY <2>3, SMT DEF Fps
    <3> QED
      BY <2>3, <3>1, SMT
  <2> QED
    BY <2>1, <2>2, <2>3, SMT
<1>2. Advertised(i).interval = Units \div Fps(i)
  BY SMT DEF Advertised
<1>3. \A f \in {15, 30, 60} : Units \div (Units \div f) = f
  BY SMT DEF Units
<1> QED
  BY <1>1, <1>2, <1>3, SMT DEF CameraRate

-----------------------------------------------------------------------------
(* How Connect ends                                                        *)

\* Only an allocator that both pins agreed on ends it with a connection.
LEMMA ConnectedByDecision ==
  ASSUME IInv, ConnectStep, at' = "idle", connected'
  PROVE  DecideAllocator
<1>1. CASE NoCandidate \/ NoMatch \/ CheckConnectFails
  <2>1. at = "try" /\ connected' = connected
    BY <1>1, Zenon DEF NoCandidate, NoMatch, CheckConnectFails, pinVars
  <2> QED
    BY <2>1 DEF IInv, HeldInv
<1>2. CASE CheckConnect \/ Propose \/ Received
  BY <1>2 DEF CheckConnect, Propose, Received
<1>3. CASE NotProposed \/ NotReceived \/ NoAllocator
  BY <1>3, Zenon DEF NotProposed, NotReceived, NoAllocator, Release
<1> QED
  BY <1>1, <1>2, <1>3 DEF ConnectStep

\* The type of a connection that is made, in the terms of AgreedType.
LEMMA DecidedType ==
  ASSUME IInv, SearchInv, DecideAllocator
  PROVE  /\ Matches(mt') /\ mt' \in tastes
         /\ turn = "own" /\ current # NoType => mt' = current
         /\ kind = "direct" => CameraRate(mt') \in 2..70
<1>1. at = "decide" /\ mt' = mt
  BY Zenon DEF DecideAllocator
<1>2. mt = candidate /\ Matches(mt) /\ CheckMediaType(mt) /\ mt \in tastes
  BY <1>1 DEF SearchInv, AttemptInv
<1>3. ASSUME turn = "own", current # NoType PROVE mt = current
  <2>1. at # "idle"
    BY <1>1
  <2>2. next = 1
    BY <1>3, <2>1, Zenon DEF SearchInv, TriedInv
  <2>3. SetupInv /\ kind = "direct"
    BY <1>3, Zenon DEF SearchInv, SetupInv
  <2>4. Candidates = <<current>>
    <3>1. Candidates = OwnTypes
      BY <1>3, Zenon DEF Candidates
    <3> QED
      BY <1>3, <2>3, <3>1, OwnTypesListed, Zenon
  <2>5. Candidates[1] = current
    BY <2>4
  <2> QED
    BY <1>2, <2>2, <2>5, Zenon DEF candidate
<1>4. ASSUME kind = "direct" PROVE CameraRate(mt) \in 2..70
  <2>1. mt.interval \in Units \div 70 .. Units \div 2
    BY <1>2, <1>4, Zenon DEF CheckMediaType
  <2> QED
    BY <2>1, RatesInRange, Zenon DEF CameraRate
<1> QED
  BY <1>1, <1>2, <1>3, <1>4, Zenon

-----------------------------------------------------------------------------
(* The theorems                                                            *)

\* Types, and the pin's lock is free outside Connect.
THEOREM TypeCorrect == Spec => []TypeOK
<1>1. IInv => TypeOK
  <2> SUFFICES ASSUME IInv PROVE TypeOK
    OBVIOUS
  <2>1. {connected, input, peerConnected, active, fault, split} \subseteq BOOLEAN
    BY Zenon DEF IInv, FlagsOK
  <2> QED
    BY <2>1 DEF IInv, WorkInv, TypeOK
<1> QED
  BY <1>1, SpecIInv, PTL

\* An attempt that fails gives back what it took, wherever it failed.
THEOREM AttemptsLeaveNothing == Spec => []NothingHeld
<1>1. IInv => NothingHeld
  BY DEF IInv, FlagsOK, HeldInv, NothingHeld
<1> QED
  BY <1>1, SpecIInv, PTL

\* Two pins that are connected agree, and none is connected alone but by the
\* graph.
THEOREM ConnectedPinsAgree == Spec => []ConnectedAlike
<1>1. IInv => ConnectedAlike
  BY DEF IInv, FlagsOK, AlikeInv, ConnectedAlike
<1> QED
  BY <1>1, SpecIInv, PTL

\* Connect gives up only when something else failed, or when it has tried
\* every type that either side offers and found none that both accept.
THEOREM ConnectFailsForAReason == Spec => FailsForAReason
<1>1. IInv /\ SearchInv /\ [Next]_vars =>
        [Ends /\ ~connected' =>
           fault' \/ ~\E t \in Offered : Matches(t) /\ CheckMediaType(t) /\ t \in tastes]_vars
  <2> SUFFICES ASSUME IInv, SearchInv, [Next]_vars, Ends, ~connected', ~fault',
                      NEW t \in Offered, Matches(t), CheckMediaType(t), t \in tastes
               PROVE  FALSE
    BY Zenon
  <2>1. ConnectStep
    BY OthersKeepSearch, Zenon
  <2>2. \A u \in Offered : ~Usable(u)
    BY <2>1, ConnectStepSearches, Zenon DEF Ends
  <2> QED
    BY <2>2, Zenon DEF Usable
<1> QED
  BY <1>1, SpecSearchInv, PTL DEF Spec, FailsForAReason

\* A connection has a type that Connect was allowed and the input pin accepts,
\* the format that was set if it is the pin's own type, and a rate the camera
\* has: the advertised one for every advertised type.
THEOREM ConnectionsHaveAgreedType == Spec => AgreedType
<1>1. IInv /\ SearchInv /\ [Next]_vars =>
        [Ends /\ connected' =>
           /\ Matches(mt') /\ mt' \in tastes
           /\ turn = "own" /\ current # NoType => mt' = current
           /\ kind = "direct" =>
                /\ CameraRate(mt') \in 2..70
                /\ \A i \in 0..5 : mt' = Advertised(i) => CameraRate(mt') = Fps(i)]_vars
  <2> SUFFICES ASSUME IInv, SearchInv, [Next]_vars, Ends, connected'
               PROVE  /\ Matches(mt') /\ mt' \in tastes
                      /\ turn = "own" /\ current # NoType => mt' = current
                      /\ kind = "direct" =>
                           /\ CameraRate(mt') \in 2..70
                           /\ \A i \in 0..5 :
                                mt' = Advertised(i) => CameraRate(mt') = Fps(i)
    BY Zenon
  <2>1. DecideAllocator
    BY OthersKeepSearch, ConnectedByDecision, Zenon DEF Ends
  <2>2. \A i \in 0..5 : mt' = Advertised(i) => CameraRate(mt') = Fps(i)
    BY AdvertisedRates, Zenon
  <2> QED
    BY <2>1, <2>2, DecidedType, Zenon
<1> QED
  BY <1>1, SpecSearchInv, PTL DEF Spec, AgreedType
==============================================================================
