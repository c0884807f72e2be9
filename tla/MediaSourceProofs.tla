--------------------------- MODULE MediaSourceProofs ---------------------------
(***************************************************************************)
(* Proofs about MediaSource, for any number of threads that call the       *)
(* source.                                                                 *)
(***************************************************************************)
EXTENDS MediaSource, TLAPS

-----------------------------------------------------------------------------
(* The invariant                                                           *)

FlagsOK ==
  /\ connected \in BOOLEAN /\ service \in BOOLEAN /\ flag \in BOOLEAN
  /\ stream \in BOOLEAN /\ active \in BOOLEAN /\ shut \in BOOLEAN

Ops == {"none", "Start", "Stop", "Pause", "Shutdown"}
Places == {"idle", "connect", "stream", "thread", "clear", "join", "disconnect", "return"}

\* One caller at most is in a call, the one that has the mutex ...
LockInv ==
  /\ op \in [Callers -> Ops] /\ at \in [Callers -> Places]
  /\ mutex \in Callers \cup {Nobody}
  /\ \A p \in Callers : at[p] # "idle" <=> mutex = p
  /\ \A p \in Callers : at[p] = "idle" <=> op[p] = "none"

\* ... so there is one place, of one call, at which the source is.
Where == IF mutex = Nobody THEN "idle" ELSE at[mutex]
What == IF mutex = Nobody THEN "none" ELSE op[mutex]

PlaceInv ==
  /\ Where \in Places /\ What \in Ops
  /\ Where = "idle" <=> What = "none"
  /\ Where \in {"connect", "thread"} => What = "Start"
  /\ Where \in {"clear", "join", "disconnect"} => What \in {"Stop", "Shutdown"}
  /\ state \in {"Stopped", "Started", "Paused", "Shutdown"}
  /\ What # "none" => state # "Shutdown"
  /\ What = "Pause" => state = "Started"

Playing == state \in {"Started", "Paused"}

\* The parts as they are before a call has changed them.
Settled ==
  /\ flag <=> Playing
  /\ active <=> state = "Started"
  /\ Playing => connected
  /\ flag => thread = "alive"
  /\ ~flag => thread = "none"

\* What the call has done to the parts by then.
PartsInv ==
  /\ Where \in {"idle", "connect", "clear"} => Settled
  /\ Where = "stream" /\ What \in {"Start", "Pause"} => Settled /\ connected
  /\ Where = "thread" => connected /\ active /\ thread = (IF flag THEN "alive" ELSE "none")
  /\ Where = "return" /\ What \in {"Start", "Pause"} =>
       connected /\ flag /\ thread = "alive" /\ (active <=> What = "Start")
  /\ Where = "join" => ~flag
  /\ Where = "disconnect" => ~flag /\ thread = "none"
  /\ Where \in {"stream", "return"} /\ What \in {"Stop", "Shutdown"} => ~flag /\ thread = "none"
  /\ Where = "return" /\ What \in {"Stop", "Shutdown"} => ~active
  /\ stream <=> ~shut
  /\ shut <=> state = "Shutdown" \/ (Where = "return" /\ What = "Shutdown")

\* The capture thread and what it uses.
ThreadInv ==
  /\ thread \in {"none", "alive", "ended"}
  /\ cap \in {"none", "loop", "client", "wait", "read", "deliver", "queue"}
  /\ told \in {"nothing", "started", "paused", "stopped", "shutdown"}
  /\ thread = "alive" <=> cap # "none"
  /\ thread = "alive" => connected /\ stream
  /\ cap = "queue" => streamMutex = Capture /\ active
  /\ cap # "queue" => streamMutex = Nobody
  /\ active => told = "started"

IInv == FlagsOK /\ LockInv /\ PlaceInv /\ PartsInv /\ ThreadInv

-----------------------------------------------------------------------------
(* Where the call is                                                       *)

\* A thread that is in a call is the one that has the mutex.
LEMMA Caller ==
  ASSUME LockInv, NEW p \in Callers, at[p] # "idle"
  PROVE  mutex = p /\ Where = at[p] /\ What = op[p]
<1>1. mutex = p /\ p # Nobody
  BY SourceAssumption DEF LockInv
<1> QED
  BY <1>1 DEF Where, What

\* It goes on ...
LEMMA GoesOn ==
  ASSUME LockInv, NEW p \in Callers, at[p] # "idle",
         NEW to \in Places \ {"idle"}, Go(p, to)
  PROVE  LockInv' /\ Where' = to /\ What' = What
<1>1. mutex = p /\ mutex' = p /\ op' = op /\ at' = [at EXCEPT ![p] = to] /\ p # Nobody
  BY SourceAssumption DEF LockInv, Go
<1>2. LockInv'
  <2>1. op' \in [Callers -> Ops] /\ at' \in [Callers -> Places] /\ mutex' \in Callers
    BY <1>1 DEF LockInv
  <2>2. ASSUME NEW q \in Callers
        PROVE  (at'[q] # "idle" <=> mutex' = q) /\ (at'[q] = "idle" <=> op'[q] = "none")
    <3>1. CASE q = p
      BY <1>1, <3>1 DEF LockInv
    <3>2. CASE q # p
      BY <1>1, <3>2 DEF LockInv
    <3> QED
      BY <3>1, <3>2
  <2> QED
    BY <2>1, <2>2 DEF LockInv
<1>3. at'[p] = to
  BY <1>1 DEF LockInv
<1> QED
  BY <1>1, <1>2, <1>3 DEF Where, What

\* ... or returns.
LEMMA Returns ==
  ASSUME LockInv, NEW p \in Callers, at[p] # "idle", Return(p)
  PROVE  LockInv' /\ Where' = "idle" /\ What' = "none"
<1>1. /\ mutex = p /\ mutex' = Nobody /\ op' = [op EXCEPT ![p] = "none"]
      /\ at' = [at EXCEPT ![p] = "idle"]
  BY DEF LockInv, Return
<1>2. op' \in [Callers -> Ops] /\ at' \in [Callers -> Places]
  BY <1>1 DEF LockInv, Ops, Places
<1>3. ASSUME NEW q \in Callers
      PROVE  at'[q] = "idle" /\ op'[q] = "none" /\ q # Nobody
  <2>1. CASE q = p
    BY <1>1, <2>1, SourceAssumption DEF LockInv
  <2>2. CASE q # p
    BY <1>1, <2>2, SourceAssumption DEF LockInv
  <2> QED
    BY <2>1, <2>2
<1> QED
  BY <1>1, <1>2, <1>3 DEF LockInv, Where, What

\* Where nobody moves the call is where it was.
LEMMA Stays ==
  ASSUME LockInv, UNCHANGED callVars
  PROVE  LockInv' /\ Where' = Where /\ What' = What
<1>1. op' = op /\ at' = at /\ mutex' = mutex
  BY DEF callVars
<1> QED
  BY <1>1 DEF LockInv, Where, What

-----------------------------------------------------------------------------
(* The invariant holds                                                     *)

\* The initial state.
LEMMA InitIInv == Init => IInv
<1> SUFFICES ASSUME Init PROVE IInv
  OBVIOUS
<1>1. LockInv
  BY SourceAssumption DEF Init, LockInv, Ops, Places
<1>2. Where = "idle" /\ What = "none"
  BY DEF Init, Where, What
<1>3. FlagsOK
  BY DEF Init, FlagsOK
<1> QED
  BY <1>1, <1>2, <1>3
     DEF Init, IInv, PlaceInv, PartsInv, ThreadInv, Settled, Playing, Ops, Places

\* A call begins.
LEMMA EnterKeeps ==
  ASSUME IInv, NEW p \in Callers, Enter(p)
  PROVE  IInv'
<1> DEFINE Begins(o, from) ==
      op' = [op EXCEPT ![p] = o] /\ at' = [at EXCEPT ![p] = from]
<1>1. /\ mutex = Nobody /\ mutex' = p /\ state # "Shutdown" /\ p # Nobody
      /\ UNCHANGED <<state, connected, service, flag, thread, cap, stream, streamMutex, active,
                       shut, told>>
  BY SourceAssumption DEF Enter, threadVars, streamVars
<1>2. PICK o \in Ops \ {"none"}, from \in Places \ {"idle"} :
        /\ Begins(o, from)
        /\ \/ o = "Start" /\ from = "connect"
           \/ o \in {"Stop", "Shutdown"} /\ from = "clear"
           \/ o = "Pause" /\ from = "stream" /\ state = "Started"
  BY DEF Enter, Ops, Places
<1>3. Where = "idle" /\ What = "none"
  BY <1>1 DEF Where, What
<1>4. Where' = from /\ What' = o
  BY <1>1, <1>2 DEF IInv, LockInv, Where, What
<1>5. LockInv'
  <2>1. op' \in [Callers -> Ops] /\ at' \in [Callers -> Places]
    BY <1>2 DEF IInv, LockInv
  <2>2. ASSUME NEW q \in Callers
        PROVE  (at'[q] # "idle" <=> mutex' = q) /\ (at'[q] = "idle" <=> op'[q] = "none")
    <3>1. CASE q = p
      BY <1>1, <1>2, <3>1 DEF IInv, LockInv
    <3>2. CASE q # p
      BY <1>1, <1>2, <3>2, SourceAssumption DEF IInv, LockInv
    <3> QED
      BY <3>1, <3>2
  <2> QED
    BY <1>1, <2>1, <2>2 DEF LockInv
<1>6. FlagsOK'
  BY <1>1 DEF IInv, FlagsOK
<1>7. PlaceInv' /\ PartsInv'
  BY <1>1, <1>2, <1>3, <1>4 DEF IInv, PlaceInv, PartsInv, Settled, Playing, Ops, Places
<1>8. ThreadInv'
  BY <1>1 DEF IInv, ThreadInv
<1> QED
  BY <1>5, <1>6, <1>7, <1>8 DEF IInv

\* The parts after a step of the call, from where it is before and after.
LEMMA CallKeeps ==
  ASSUME IInv, NEW p \in Callers, Call(p)
  PROVE  IInv'
<1> USE DEF threadVars, streamVars
<1>0. at[p] # "idle" /\ mutex = p /\ Where = at[p] /\ What = op[p]
  <2>1. at[p] # "idle"
    BY DEF Call, At, StartConnect, StreamEvent, StartThread, ClearFlag, JoinThread, Disconnect,
           ShutdownStream, Leave
  <2> QED
    BY <2>1, Caller DEF IInv
<1>1. CASE StartConnect(p)
  <2>1. /\ Where = "connect" /\ What = "Start"
        /\ UNCHANGED <<state, service, flag, thread, cap, stream, streamMutex, active,
                       shut, told>>
    BY <1>0, <1>1 DEF StartConnect, At
  <2>2. CASE connected \/ service
    <3>1. connected' = TRUE /\ Go(p, "stream")
      BY <1>1, <2>2 DEF StartConnect
    <3>2. LockInv' /\ Where' = "stream" /\ What' = What
      BY <1>0, <3>1, GoesOn DEF IInv, Places
    <3> QED
      BY <2>1, <3>1, <3>2
         DEF IInv, FlagsOK, PlaceInv, PartsInv, ThreadInv, Settled, Playing, Ops, Places
  <2>3. CASE ~(connected \/ service)
    <3>1. connected' = connected /\ Return(p)
      BY <1>1, <2>3 DEF StartConnect
    <3>2. LockInv' /\ Where' = "idle" /\ What' = "none"
      BY <1>0, <3>1, Returns DEF IInv
    <3> QED
      BY <2>1, <3>1, <3>2
         DEF IInv, FlagsOK, PlaceInv, PartsInv, ThreadInv, Settled, Playing, Ops, Places
  <2> QED
    BY <2>2, <2>3
<1>2. CASE StreamEvent(p)
  <2>1. /\ Where = "stream" /\ What \in {"Start", "Pause", "Stop"} /\ streamMutex = Nobody
        /\ active' = (What = "Start")
        /\ What = "Start" => told' = "started"
        /\ told' \in {"started", "paused", "stopped"}
        /\ UNCHANGED <<state, connected, service, flag, thread, cap, stream, streamMutex,
                       shut>>
    BY <1>0, <1>2 DEF StreamEvent, At
  <2>2. CASE What = "Start"
    <3>1. LockInv' /\ Where' = "thread" /\ What' = What
      BY <1>0, <1>2, <2>2, GoesOn DEF StreamEvent, At, IInv, Places
    <3> QED
      BY <2>1, <2>2, <3>1
         DEF IInv, FlagsOK, PlaceInv, PartsInv, ThreadInv, Settled, Playing, Ops, Places
  <2>3. CASE What # "Start"
    <3>1. LockInv' /\ Where' = "return" /\ What' = What
      BY <1>0, <1>2, <2>3, GoesOn DEF StreamEvent, At, IInv, Places
    <3>2. active' = FALSE /\ cap # "queue"
      BY <2>1, <2>3, SourceAssumption DEF IInv, ThreadInv
    <3>3. FlagsOK' /\ PlaceInv' /\ ThreadInv'
      BY <2>1, <2>3, <3>1, <3>2 DEF IInv, FlagsOK, PlaceInv, ThreadInv, Ops, Places
    <3>4. PartsInv'
      BY <2>1, <2>3, <3>1, <3>2 DEF IInv, PlaceInv, PartsInv, Settled, Playing, Ops
    <3> QED
      BY <3>1, <3>3, <3>4 DEF IInv
  <2> QED
    BY <2>2, <2>3
<1>3. CASE StartThread(p)
  <2>1. /\ Where = "thread" /\ What = "Start" /\ flag' = TRUE
        /\ IF flag THEN thread' = thread /\ cap' = cap ELSE thread' = "alive" /\ cap' = "loop"
        /\ UNCHANGED <<state, connected, service, stream, streamMutex, active, shut, told>>
    BY <1>0, <1>3 DEF StartThread, At
  <2>2. LockInv' /\ Where' = "return" /\ What' = What
    BY <1>0, <1>3, GoesOn DEF StartThread, At, IInv, Places
  <2> QED
    BY <2>1, <2>2
       DEF IInv, FlagsOK, PlaceInv, PartsInv, ThreadInv, Settled, Playing, Ops, Places
<1>4. CASE ClearFlag(p)
  <2>1. /\ Where = "clear" /\ What \in {"Stop", "Shutdown"}
        /\ flag' = FALSE
        /\ UNCHANGED <<state, connected, service, thread, cap, stream, streamMutex, active,
                       shut, told>>
    BY <1>0, <1>4 DEF ClearFlag, At
  <2>2. LockInv' /\ Where' = "join" /\ What' = What
    BY <1>0, <1>4, GoesOn DEF ClearFlag, At, IInv, Places
  <2> QED
    BY <2>1, <2>2
       DEF IInv, FlagsOK, PlaceInv, PartsInv, ThreadInv, Settled, Playing, Ops, Places
<1>5. CASE JoinThread(p)
  <2>1. /\ Where = "join" /\ What \in {"Stop", "Shutdown"}
        /\ thread # "alive" /\ thread' = "none"
        /\ UNCHANGED <<state, connected, service, flag, cap, stream, streamMutex, active,
                       shut, told>>
    BY <1>0, <1>5 DEF JoinThread, At
  <2>2. LockInv' /\ Where' = "disconnect" /\ What' = What
    BY <1>0, <1>5, GoesOn DEF JoinThread, At, IInv, Places
  <2> QED
    BY <2>1, <2>2
       DEF IInv, FlagsOK, PlaceInv, PartsInv, ThreadInv, Settled, Playing, Ops, Places
<1>6. CASE Disconnect(p)
  <2>1. /\ Where = "disconnect" /\ What \in {"Stop", "Shutdown"}
        /\ connected' = FALSE
        /\ UNCHANGED <<state, service, flag, thread, cap, stream, streamMutex, active,
                       shut, told>>
    BY <1>0, <1>6 DEF Disconnect, At
  <2>2. LockInv' /\ Where' = "stream" /\ What' = What
    BY <1>0, <1>6, GoesOn DEF Disconnect, At, IInv, Places
  <2> QED
    BY <2>1, <2>2
       DEF IInv, FlagsOK, PlaceInv, PartsInv, ThreadInv, Settled, Playing, Ops, Places
<1>7. CASE ShutdownStream(p)
  <2>1. /\ Where = "stream" /\ What = "Shutdown" /\ streamMutex = Nobody
        /\ shut' = TRUE /\ active' = FALSE /\ told' = "shutdown" /\ stream' = FALSE
        /\ UNCHANGED <<state, connected, service, flag, thread, cap, streamMutex>>
    BY <1>0, <1>7 DEF ShutdownStream, At
  <2>2. LockInv' /\ Where' = "return" /\ What' = What
    BY <1>0, <1>7, GoesOn DEF ShutdownStream, At, IInv, Places
  <2> QED
    BY <2>1, <2>2
       DEF IInv, FlagsOK, PlaceInv, PartsInv, ThreadInv, Settled, Playing, Ops, Places
<1>8. CASE Leave(p)
  <2>1. /\ Where = "return"
        /\ What = "Start" => state' = "Started"
        /\ What = "Pause" => state' = "Paused"
        /\ What = "Stop" => state' = "Stopped"
        /\ What = "Shutdown" => state' = "Shutdown"
        /\ UNCHANGED <<connected, service, flag, thread, cap, stream, streamMutex, active,
                       shut, told>>
    BY <1>0, <1>8 DEF Leave
  <2>2. LockInv' /\ Where' = "idle" /\ What' = "none"
    BY <1>0, <1>8, Returns DEF Leave, IInv
  <2> QED
    BY <2>1, <2>2
       DEF IInv, FlagsOK, PlaceInv, PartsInv, ThreadInv, Settled, Playing, Ops, Places
<1> QED
  BY <1>1, <1>2, <1>3, <1>4, <1>5, <1>6, <1>7, <1>8 DEF Call

\* The capture thread, which goes only where no call has ended it.
LEMMA CaptureKeeps ==
  ASSUME IInv, CaptureThread \/ ServiceChange
  PROVE  IInv'
<1> USE DEF callVars, threadVars, streamVars
<1>1. UNCHANGED callVars /\ UNCHANGED <<state, flag, stream, active, shut, told>>
  BY DEF CaptureThread, CaptureLoop, CaptureConnect, CaptureWait, CaptureRead, DeliverBegin,
         QueueSample, ServiceChange
<1>2. LockInv' /\ Where' = Where /\ What' = What
  BY <1>1, Stays DEF IInv
<1>3. CASE CaptureLoop
  BY <1>1, <1>2, <1>3
     DEF CaptureLoop, IInv, FlagsOK, PlaceInv, PartsInv, ThreadInv, Settled, Playing, Ops,
         Places
<1>4. CASE CaptureConnect
  BY <1>1, <1>2, <1>4
     DEF CaptureConnect, IInv, FlagsOK, PlaceInv, PartsInv, ThreadInv, Settled, Playing
<1>5. CASE CaptureWait \/ CaptureRead
  BY <1>1, <1>2, <1>5
     DEF CaptureWait, CaptureRead, IInv, FlagsOK, PlaceInv, PartsInv, ThreadInv, Settled,
         Playing
<1>6. CASE DeliverBegin \/ QueueSample
  BY <1>1, <1>2, <1>6
     DEF DeliverBegin, QueueSample, IInv, FlagsOK, PlaceInv, PartsInv, ThreadInv, Settled,
         Playing
<1>7. CASE ServiceChange
  BY <1>1, <1>2, <1>7
     DEF ServiceChange, IInv, FlagsOK, PlaceInv, PartsInv, ThreadInv, Settled, Playing
<1> QED
  BY <1>3, <1>4, <1>5, <1>6, <1>7 DEF CaptureThread

\* IInv is inductive.
LEMMA NextIInv == IInv /\ [Next]_vars => IInv'
<1> SUFFICES ASSUME IInv, [Next]_vars PROVE IInv'
  OBVIOUS
<1>1. CASE Next
  BY <1>1, EnterKeeps, CallKeeps, CaptureKeeps DEF Next
<1>2. CASE UNCHANGED vars
  <2>1. LockInv' /\ Where' = Where /\ What' = What
    BY <1>2, Stays DEF vars, callVars, IInv
  <2> QED
    BY <1>2, <2>1
       DEF vars, IInv, FlagsOK, PlaceInv, PartsInv, ThreadInv, Settled, Playing
<1> QED
  BY <1>1, <1>2

\* IInv holds in every reachable state.
LEMMA SpecIInv == Spec => []IInv
  BY InitIInv, NextIInv, PTL DEF Spec

-----------------------------------------------------------------------------
(* The theorems                                                            *)

\* Types; the mutexes are held where they should be.
THEOREM TypeCorrect == Spec => []TypeOK
<1>1. IInv => TypeOK
  <2> SUFFICES ASSUME IInv PROVE TypeOK
    OBVIOUS
  <2>1. {connected, service, flag, stream, active, shut} \subseteq BOOLEAN
    BY Zenon DEF IInv, FlagsOK
  <2>2. /\ op \in [Callers -> {"none", "Start", "Stop", "Pause", "Shutdown"}]
        /\ at \in [Callers -> {"idle", "connect", "stream", "thread", "clear", "join",
                               "disconnect", "return"}]
        /\ mutex \in Callers \cup {Nobody} /\ \A p \in Callers : at[p] # "idle" <=> mutex = p
    BY DEF IInv, LockInv, Ops, Places
  <2> QED
    BY <2>1, <2>2 DEF IInv, PlaceInv, ThreadInv, TypeOK
<1> QED
  BY <1>1, SpecIInv, PTL

\* Nobody connects or disconnects the client while the capture thread uses it,
\* though that takes no lock: who disconnects has joined the thread.
THEOREM ClientIsItsOwn == Spec => []ClientNotShared
<1>1. IInv => ClientNotShared
  <2> SUFFICES ASSUME IInv, cap \in {"client", "wait", "read"},
                      NEW p \in Callers, at[p] = "disconnect"
               PROVE  FALSE
    BY DEF IInv, ThreadInv, ClientNotShared
  <2>1. Where = "disconnect"
    BY Caller DEF IInv
  <2> QED
    BY <2>1 DEF IInv, PartsInv, ThreadInv
<1> QED
  BY <1>1, SpecIInv, PTL

\* The stream is there for as long as the capture thread delivers to it.
THEOREM StreamStays == Spec => []StreamOutlivesThread
<1>1. IInv => StreamOutlivesThread
  BY DEF IInv, ThreadInv, StreamOutlivesThread
<1> QED
  BY <1>1, SpecIInv, PTL

\* A thread that can be joined has been when Start makes another.
THEOREM ThreadsAreJoined == Spec => []ThreadNotOverwritten
<1>1. IInv => ThreadNotOverwritten
  <2> SUFFICES ASSUME IInv, NEW p \in Callers, at[p] = "thread", ~flag
               PROVE  thread = "none"
    BY DEF ThreadNotOverwritten
  <2>1. Where = "thread"
    BY Caller DEF IInv
  <2> QED
    BY <2>1 DEF IInv, PartsInv
<1> QED
  BY <1>1, SpecIInv, PTL

\* Between calls the state says what thread, stream and client are doing.
THEOREM StateIsTrue == Spec => []StateMatchesParts
<1>1. IInv => StateMatchesParts
  <2> SUFFICES ASSUME IInv, mutex = Nobody
               PROVE  /\ (thread = "alive") = (state \in {"Started", "Paused"})
                      /\ flag = (state \in {"Started", "Paused"})
                      /\ active = (state = "Started")
                      /\ (state \in {"Started", "Paused"} => connected)
                      /\ (state = "Shutdown") = ~stream
    BY DEF StateMatchesParts
  <2>1. Where = "idle"
    BY DEF Where
  <2> QED
    BY <2>1 DEF IInv, FlagsOK, PartsInv, Settled, Playing
<1> QED
  BY <1>1, SpecIInv, PTL

\* No sample comes after the event that says that there will be none.
THEOREM NoSampleAfterStop == Spec => SamplesOnlyWhileStarted
<1>1. IInv /\ [Next]_vars => [cap = "queue" /\ cap' = "loop" =>
                                told = "started" /\ told' = "started"]_vars
  <2> SUFFICES ASSUME IInv, Next, cap = "queue", cap' = "loop"
               PROVE  told = "started" /\ told' = "started"
    OBVIOUS
  <2>1. told = "started" /\ thread = "alive" /\ streamMutex # Nobody
    BY SourceAssumption DEF IInv, ThreadInv
  <2>2. CASE \E p \in Callers : Enter(p) \/ Call(p)
    <3>1. PICK p \in Callers : Enter(p) \/ Call(p)
      BY <2>2
    <3>2. CASE told' = told
      BY <2>1, <3>2
    <3>3. CASE told' # told
      BY <2>1, <3>1, <3>3
         DEF Enter, Call, StartConnect, StreamEvent, StartThread, ClearFlag, JoinThread,
             Disconnect, ShutdownStream, Leave, streamVars
    <3> QED
      BY <3>2, <3>3
  <2>3. CASE CaptureThread \/ ServiceChange
    BY <2>1, <2>3
       DEF CaptureThread, CaptureLoop, CaptureConnect, CaptureWait, CaptureRead, DeliverBegin,
           QueueSample, ServiceChange, streamVars
  <2> QED
    BY <2>2, <2>3 DEF Next
<1> QED
  BY <1>1, SpecIInv, PTL DEF Spec, SamplesOnlyWhileStarted
=============================================================================
