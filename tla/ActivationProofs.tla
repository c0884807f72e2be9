---------------------------- MODULE ActivationProofs ---------------------------
(***************************************************************************)
(* Proofs about Activation, for any sources and any number of references.  *)
(***************************************************************************)
EXTENDS Activation, TLAPS

\* The types the arithmetic rests on.
FunsOK ==
  /\ refs \in [Sources -> Nat] /\ held \in [Sources -> Nat]
  /\ shut \subseteq Sources /\ ended \subseteq Sources /\ stopped \subseteq Sources
  /\ clients \subseteq Sources /\ capturing \subseteq Sources

\* Where the calls are: CreateInstance has its source exactly while it
\* initialises it, and runs only for an activation object without a source.
CallInv ==
  /\ at = "initialized" <=> new # None
  /\ at \in {"create", "initialized"} => m_source = None
  /\ at # "idle" => m_refCount > 0

\* Which sources are connected, stopped and shut down.  One that is being made
\* is neither of the last two and nobody else has it.
ClientInv ==
  /\ \A s \in clients \cup shut \cup stopped : Exists(s)
  /\ clients \cap (shut \cup stopped) = {} /\ shut \cap stopped = {}
  /\ \A s \in Sources : Exists(s) /\ s # new => s \in clients \cup shut \cup stopped
  /\ m_source # None => m_source \in clients \cup stopped \cup ended
  /\ ended \subseteq shut /\ capturing \subseteq clients
  /\ new # None => new \notin shut \cup stopped \cup capturing /\ held[new] = 0

IInv == TypeOK /\ FunsOK /\ CallInv /\ ClientInv
-----------------------------------------------------------------------------
\* The initial state.
LEMMA InitIInv == Init => IInv
  BY ActivationAssumption
     DEF Init, IInv, TypeOK, FunsOK, CallInv, ClientInv, Exists

\* What each call keeps, one at a time.
LEMMA CreationStep ==
  ASSUME IInv, CreateSource \/ StoreSource \/ InitializeFails
  PROVE  IInv'
<1> USE ActivationAssumption
    DEF IInv, TypeOK, FunsOK, CallInv, ClientInv, Exists, activities
<1>1. CASE CreateSource
  <2>1. TypeOK'
    BY <1>1 DEF CreateSource
  <2>2. FunsOK' /\ CallInv'
    BY <1>1 DEF CreateSource
  <2>3. ClientInv'
    BY <1>1 DEF CreateSource
  <2> QED
    BY <2>1, <2>2, <2>3
<1>2. CASE StoreSource
  BY <1>2 DEF StoreSource
<1>3. CASE InitializeFails
  <2>1. new \in Sources /\ refs[new] = 1 /\ m_source = None
    BY <1>3 DEF InitializeFails
  <2>2. /\ refs' = [refs EXCEPT ![new] = 0] /\ at' = "idle" /\ new' = None
        /\ shut' = shut \ {new} /\ ended' = ended \ {new} /\ stopped' = stopped \ {new}
        /\ clients' = clients \ {new} /\ capturing' = capturing \ {new}
        /\ UNCHANGED <<m_refCount, m_source, held>>
    BY <1>3, <2>1 DEF InitializeFails, ReleaseOf, StopAndDisconnect
  <2>3. TypeOK'
    BY <2>1, <2>2
  <2>4. FunsOK' /\ CallInv'
    BY <2>1, <2>2
  <2>5. ClientInv'
    BY <2>1, <2>2
  <2> QED
    BY <2>3, <2>4, <2>5
<1> QED
  BY <1>1, <1>2, <1>3

\* m_source.Reset() with or without Shutdown, whoever calls it.
LEMMA ResetStep ==
  ASSUME IInv, at = "idle", m_refCount > 0, NEW shutdown \in BOOLEAN, ResetSource(shutdown),
         UNCHANGED activateFrame,
         m_refCount' = m_refCount \/ (m_refCount' = m_refCount - 1)
  PROVE  IInv'
<1> USE ActivationAssumption
    DEF IInv, TypeOK, FunsOK, CallInv, ClientInv, Exists, activateFrame, activities,
        StopAndDisconnect
<1>1. CASE m_source = None
  BY <1>1 DEF ResetSource
<1>2. CASE m_source # None /\ shutdown /\ refs[m_source] > 1
  <2>1. TypeOK' /\ FunsOK' /\ CallInv'
    BY <1>2 DEF ResetSource, ShutdownOf
  <2>2. ClientInv'
    BY <1>2 DEF ResetSource, ShutdownOf
  <2> QED
    BY <2>1, <2>2
<1>3. CASE m_source # None /\ ~(shutdown /\ refs[m_source] > 1)
  <2>1. TypeOK' /\ FunsOK' /\ CallInv'
    BY <1>3 DEF ResetSource, ReleaseOf
  <2>2. m_source \in Sources /\ m_source' = None /\ UNCHANGED <<at, new, held>> /\ new = None
    BY <1>3 DEF ResetSource
  <2>3. refs[m_source] \in Nat \ {0} /\ refs' = [refs EXCEPT ![m_source] = @ - 1]
    BY <1>3, <2>2 DEF ResetSource, ReleaseOf
  <2>4. CASE refs[m_source] = 1
    BY <1>3, <2>2, <2>3, <2>4 DEF ResetSource, ReleaseOf
  <2>5. CASE refs[m_source] # 1
    <3>1. UNCHANGED activities
      BY <1>3, <2>5 DEF ResetSource, ReleaseOf
    <3>2. \A s \in Sources : Exists(s)' <=> Exists(s)
      BY <2>2, <2>3, <2>5
    <3>3. ClientInv'
      BY <2>2, <3>1, <3>2
    <3> QED
      BY <2>1, <3>3
  <2> QED
    BY <2>1, <2>3, <2>4, <2>5
<1> QED
  BY <1>1, <1>2, <1>3

\* Start, Stop and Shutdown of a source that the application holds.
LEMMA CallStep ==
  ASSUME IInv, NEW s \in Sources, AppStart(s) \/ AppStop(s) \/ AppShutdown(s)
  PROVE  IInv'
<1> USE ActivationAssumption
    DEF IInv, TypeOK, FunsOK, CallInv, ClientInv, Exists, activateFrame, sourceFrame,
        Callable, StopAndDisconnect, ShutdownOf
\* It exists, and is not the one that is being made.
<1>1. s # new /\ Exists(s) /\ s \notin shut
  BY DEF AppStart, AppStop, AppShutdown
<1>2. TypeOK' /\ CallInv' /\ UNCHANGED <<refs, held, new, m_source>>
  BY DEF AppStart, AppStop, AppShutdown
<1>3. CASE AppStart(s)
  BY <1>1, <1>2, <1>3 DEF AppStart
<1>4. CASE AppStop(s)
  BY <1>1, <1>2, <1>4 DEF AppStop
<1>5. CASE AppShutdown(s)
  BY <1>1, <1>2, <1>5 DEF AppShutdown
<1> QED
  BY <1>3, <1>4, <1>5

\* IInv is inductive.
LEMMA NextIInv == IInv /\ [Next]_vars => IInv'
<1> SUFFICES ASSUME IInv, [Next]_vars PROVE IInv'
  OBVIOUS
<1> USE ActivationAssumption
<1>1. CASE CreateActivate
  BY <1>1 DEF CreateActivate, activateFrame, activities, IInv, TypeOK, FunsOK, CallInv,
     ClientInv, Exists
<1>2. CASE AddRef
  BY <1>2 DEF AddRef, activateFrame, activities, IInv, TypeOK, FunsOK, CallInv, ClientInv,
     Exists
<1>3. CASE ActivateObject
  BY <1>3 DEF ActivateObject, activities, IInv, TypeOK, FunsOK, CallInv, ClientInv, Exists
<1>4. CASE HandOut
  BY <1>4 DEF HandOut, activities, IInv, TypeOK, FunsOK, CallInv, ClientInv, Exists
<1>5. CASE CreateSource \/ StoreSource \/ InitializeFails
  BY <1>5, CreationStep
<1>6. CASE ShutdownObject \/ DetachObject
  BY <1>6, ResetStep DEF ShutdownObject, DetachObject
<1>7. CASE ReleaseActivate
  <2>1. CASE m_refCount = 1
    BY <1>7, <2>1, ResetStep DEF ReleaseActivate
  <2>2. CASE m_refCount # 1
    BY <1>7, <2>2
       DEF ReleaseActivate, activateFrame, activities, IInv, TypeOK, FunsOK, CallInv,
           ClientInv, Exists
  <2> QED
    BY <2>1, <2>2
<1>8. ASSUME NEW s \in Sources, AppStart(s) \/ AppStop(s) \/ AppShutdown(s)
      PROVE  IInv'
  BY <1>8, CallStep
<1>9. ASSUME NEW s \in Sources, AppRelease(s)
      PROVE  IInv'
  <2> USE DEF AppRelease, ReleaseOf, StopAndDisconnect, activities, IInv, TypeOK, FunsOK,
          CallInv, ClientInv, Exists
  <2>1. TypeOK' /\ FunsOK' /\ CallInv'
    BY <1>9
  <2>2. ClientInv'
    BY <1>9
  <2> QED
    BY <2>1, <2>2
<1>10. CASE UNCHANGED vars
  BY <1>10 DEF vars, activities, IInv, TypeOK, FunsOK, CallInv, ClientInv, Exists
<1> QED
  BY <1>1, <1>2, <1>3, <1>4, <1>5, <1>6, <1>7, <1>8, <1>9, <1>10 DEF Next

\* IInv holds in every reachable state.
LEMMA SpecIInv == Spec => []IInv
  BY InitIInv, NextIInv, PTL DEF Spec

-----------------------------------------------------------------------------
\* Every reference of every source belongs to somebody: no pointer dangles and
\* no source leaks, for any number of sources and references.
THEOREM ReferencesAddUp == Spec => []TypeOK
<1>1. IInv => TypeOK
  BY DEF IInv
<1> QED
  BY SpecIInv, <1>1, PTL

\* The capture service counts the sources that exist and are neither stopped nor
\* shut down, among them all that capture, and none once the application has
\* let go of everything.
THEOREM SourcesAreCounted == Spec => []CountedUnlessStopped
<1>1. IInv => CountedUnlessStopped
  BY ActivationAssumption
     DEF IInv, TypeOK, FunsOK, CallInv, ClientInv, CountedUnlessStopped, Exists
<1> QED
  BY SpecIInv, <1>1, PTL

\* ActivateObject hands out a source that works or can be started again, or one
\* that the application itself has shut down.
THEOREM ActivatedIsUsable == Spec => []HandedOutUsable
<1>1. IInv => HandedOutUsable
  BY DEF IInv, TypeOK, ClientInv, HandedOutUsable
<1> QED
  BY SpecIInv, <1>1, PTL
=============================================================================
