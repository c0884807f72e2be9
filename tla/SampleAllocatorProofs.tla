------------------------- MODULE SampleAllocatorProofs -------------------------
(***************************************************************************)
(* Proofs about SampleAllocator, for any samples and any finite number of  *)
(* threads that wait for them.                                             *)
(***************************************************************************)
EXTENDS SampleAllocator, FiniteSetTheorems, TLAPS

\* While the allocator is committed its samples are those agreed on, and only
\* then does a thread count itself.
IInv ==
  /\ TypeOK /\ SamplesOutlivePin
  /\ committed => ~changed
  /\ free # {} \/ ~committed => waiting = 0
  /\ waiting + semaphore = Cardinality(asleep)

-----------------------------------------------------------------------------
\* The initial state.
LEMMA InitIInv == Init => IInv
<1> SUFFICES ASSUME Init PROVE IInv
  OBVIOUS
<1>1. TypeOK
  <2>1. {committed, decommitting, changed, self} \subseteq BOOLEAN
    BY Zenon DEF Init
  <2> QED
    BY <2>1 DEF Init, TypeOK
<1>2. SamplesOutlivePin
  BY DEF Init, SamplesOutlivePin
<1>3. Cardinality(asleep) = 0
  BY FS_EmptySet DEF Init
<1> QED
  BY <1>1, <1>2, <1>3 DEF Init, IInv

\* What each call keeps of the types.
LEMMA TypeStep ==
  ASSUME TypeOK, [Next]_avars
  PROVE  TypeOK'
<1> DEFINE Flags == {committed, decommitting, changed, self} \subseteq BOOLEAN
           Rest == /\ agreed \subseteq Buffers /\ pool \subseteq Buffers /\ free \subseteq pool
                   /\ asleep \subseteq Threads
                   /\ waiting \in Nat /\ semaphore \in Nat
<1> USE DEF TypeOK, sleepVars
<1>1. CASE SetProperties
  <2>1. Flags'
    BY Zenon, <1>1 DEF SetProperties
  <2> QED
    BY <1>1, <2>1 DEF SetProperties
<1>2. CASE Commit
  <2>1. Flags'
    BY Zenon, <1>2 DEF Commit
  <2>2. Rest'
    BY <1>2 DEF Commit
  <2> QED
    BY <2>1, <2>2
<1>3. CASE Decommit
  <2>1. Flags'
    BY Zenon, <1>3 DEF Decommit
  <2>2. Rest'
    BY <1>3 DEF Decommit, NotifySample
  <2> QED
    BY <2>1, <2>2
<1>4. ASSUME NEW t \in Threads, Sleep(t) \/ WakeUp(t) \/ \E b \in Buffers : TakeBuffer(t, b)
      PROVE  TypeOK'
  <2>1. Flags'
    BY Zenon, <1>4 DEF Sleep, WakeUp, TakeBuffer
  <2>2. Rest'
    BY <1>4 DEF Sleep, WakeUp, TakeBuffer
  <2> QED
    BY <2>1, <2>2
<1>5. ASSUME NEW b \in Buffers, ReleaseBuffer(b)
      PROVE  TypeOK'
  <2>1. Flags'
    BY Zenon, <1>5 DEF ReleaseBuffer
  <2>2. Rest'
    BY <1>5 DEF ReleaseBuffer, NotifySample
  <2> QED
    BY <2>1, <2>2
<1>6. CASE UNCHANGED avars
  BY Zenon, <1>6 DEF avars
<1> QED
  BY <1>1, <1>2, <1>3, <1>4, <1>5, <1>6 DEF Next

-----------------------------------------------------------------------------
\* The samples that are out, the reference and the pending decommit.
LEMMA SamplesStep ==
  ASSUME IInv, [Next]_avars
  PROVE  SamplesOutlivePin' /\ (committed => ~changed)'
<1> USE DEF IInv, TypeOK, SamplesOutlivePin, sleepVars
<1>1. CASE SetProperties
  BY <1>1 DEF SetProperties
<1>2. CASE Commit
  BY <1>2 DEF Commit
<1>3. CASE Decommit
  BY <1>3 DEF Decommit
<1>4. ASSUME NEW t \in Threads, Sleep(t) \/ WakeUp(t) \/ \E b \in Buffers : TakeBuffer(t, b)
      PROVE  SamplesOutlivePin' /\ (committed => ~changed)'
  BY <1>4 DEF Sleep, WakeUp, TakeBuffer
<1>5. ASSUME NEW b \in Buffers, ReleaseBuffer(b)
      PROVE  SamplesOutlivePin' /\ (committed => ~changed)'
  BY <1>5 DEF ReleaseBuffer
<1>6. CASE UNCHANGED avars
  BY <1>6 DEF avars
<1> QED
  BY <1>1, <1>2, <1>3, <1>4, <1>5, <1>6 DEF Next

\* The counts: who sleeps is counted in m_lWaiting or in the semaphore, and
\* m_lWaiting is zero when there is something to wake up for.
LEMMA CountStep ==
  ASSUME IsFiniteSet(Threads), IInv, [Next]_avars
  PROVE  /\ (free # {} \/ ~committed => waiting = 0)'
         /\ (waiting + semaphore = Cardinality(asleep))'
<1> DEFINE Counted == /\ free # {} \/ ~committed => waiting = 0
                      /\ waiting + semaphore = Cardinality(asleep)
<1>f. IsFiniteSet(asleep) /\ Cardinality(asleep) \in Nat
  BY FS_Subset, FS_CardinalityType DEF IInv, TypeOK
<1> USE DEF IInv, TypeOK, sleepVars
<1>1. CASE SetProperties
  BY <1>1 DEF SetProperties
<1>2. CASE Commit
  BY <1>2 DEF Commit, SamplesOutlivePin
<1>3. CASE Decommit
  BY <1>3 DEF Decommit, NotifySample
<1>4. ASSUME NEW t \in Threads, Sleep(t)
      PROVE  Counted'
  <2>1. Cardinality(asleep') = Cardinality(asleep) + 1
    BY <1>4, <1>f, FS_AddElement DEF Sleep
  <2> QED
    BY <2>1, <1>4, <1>f DEF Sleep
<1>5. ASSUME NEW t \in Threads, WakeUp(t)
      PROVE  Counted'
  <2>1. Cardinality(asleep') = Cardinality(asleep) - 1
    BY <1>5, <1>f, FS_RemoveElement DEF WakeUp
  <2> QED
    BY <2>1, <1>5, <1>f DEF WakeUp
<1>6. ASSUME NEW t \in Threads, NEW b \in Buffers, TakeBuffer(t, b)
      PROVE  Counted'
  BY <1>6 DEF TakeBuffer
<1>7. ASSUME NEW b \in Buffers, ReleaseBuffer(b)
      PROVE  Counted'
  BY <1>7 DEF ReleaseBuffer, NotifySample
<1>8. CASE UNCHANGED avars
  BY <1>8 DEF avars
<1> QED
  BY <1>1, <1>2, <1>3, <1>4, <1>5, <1>6, <1>7, <1>8 DEF Next

\* IInv is inductive.
LEMMA NextIInv ==
  ASSUME IsFiniteSet(Threads), IInv, [Next]_avars
  PROVE  IInv'
  BY TypeStep, SamplesStep, CountStep DEF IInv

\* The invariant, for finitely many threads.
THEOREM Invariant ==
  ASSUME IsFiniteSet(Threads)
  PROVE  Spec => []IInv
<1>1. Init => IInv
  BY InitIInv
<1>2. IInv /\ [Next]_avars => IInv'
  BY NextIInv
<1> QED
  BY <1>1, <1>2, PTL DEF Spec

-----------------------------------------------------------------------------
\* What the invariant says of the threads that sleep.
LEMMA WakeupFollows ==
  ASSUME IsFiniteSet(Threads), IInv
  PROVE  NoLostWakeup
<1>1. IsFiniteSet(asleep)
  BY FS_Subset DEF IInv, TypeOK
<1>2. asleep # {} => Cardinality(asleep) # 0
  BY <1>1, FS_EmptySet
<1>3. Cardinality(asleep) \in Nat
  BY <1>1, FS_CardinalityType
<1> QED
  BY <1>2, <1>3 DEF IInv, TypeOK, NoLostWakeup

\* The lazy signalling of amfilter.h:1394-1426 loses no wake-up: statements (1)
\* and (2) of that comment and its conclusion, for any number of threads that
\* call GetBuffer and any samples, across decommits and new commits.
THEOREM WakeupNotLost ==
  ASSUME IsFiniteSet(Threads)
  PROVE  Spec => []NoLostWakeup
<1>1. IInv => NoLostWakeup
  BY WakeupFollows
<1> QED
  BY <1>1, Invariant, PTL

\* The allocator outlives its samples, and neither frees nor allocates while
\* one is out (amfilter.cpp:4899, 4982).
THEOREM SamplesAreSafe ==
  ASSUME IsFiniteSet(Threads)
  PROVE  Spec => []SamplesOutlivePin
<1>1. IInv => SamplesOutlivePin
  BY DEF IInv
<1> QED
  BY <1>1, Invariant, PTL
=============================================================================
