---------------------------- MODULE SampleAllocator ----------------------------
(***************************************************************************)
(* The allocator of a pin connection (CBaseAllocator with CMemAllocator,   *)
(* amfilter.cpp): a free list of samples that any number of threads take   *)
(* from and release to, each call under the allocator's lock.  A thread    *)
(* that finds no sample counts itself in m_lWaiting under the lock and     *)
(* waits for the semaphore outside it; who adds a sample or decommits      *)
(* raises the semaphore by that count ("lazy signalling",                  *)
(* amfilter.h:1394-1426).                                                  *)
(*                                                                         *)
(* The free list is a set: which sample is handed out next is left open.   *)
(***************************************************************************)
EXTENDS Naturals, FiniteSets

CONSTANTS
  Buffers,  \* the samples there can be
  Threads   \* the threads that call GetBuffer, finitely many

VARIABLES
  committed,     \* m_bCommitted
  decommitting,  \* m_bDecommitInProgress
  agreed,        \* the samples there will be: m_lCount of them
  changed,       \* m_bChanged
  pool,          \* the samples allocated: m_lAllocated of them
  free,          \* m_lFree
  waiting,       \* m_lWaiting
  semaphore,     \* the count of m_hSem
  asleep,        \* the threads in or before WaitForSingleObject(m_hSem)
  self           \* the reference the allocator has to itself

sleepVars == <<waiting, semaphore, asleep>>
avars == <<committed, decommitting, agreed, changed, pool, free, waiting, semaphore, asleep,
           self>>

\* A new allocator, the properties set or not.
Init ==
  /\ committed = FALSE /\ decommitting = FALSE /\ self = FALSE
  /\ agreed \in SUBSET Buffers /\ changed = (agreed # {})
  /\ pool = {} /\ free = {}
  /\ waiting = 0 /\ semaphore = 0 /\ asleep = {}

-----------------------------------------------------------------------------

\* SetProperties: refused while committed or while samples are outstanding.
SetProperties ==
  /\ ~committed /\ free = pool
  /\ agreed' \in SUBSET Buffers \ {{}} /\ changed' = TRUE
  /\ UNCHANGED <<committed, decommitting, pool, free, sleepVars, self>>

\* Commit cancels a pending decommit, or allocates: the samples anew if the
\* properties have changed, and the reference to itself.
Commit ==
  /\ ~committed /\ committed' = TRUE
  /\ IF decommitting
     THEN decommitting' = FALSE /\ UNCHANGED <<pool, free, changed, self>>
     ELSE /\ agreed # {}
          /\ IF changed THEN pool' = agreed /\ free' = agreed ELSE UNCHANGED <<pool, free>>
          /\ changed' = FALSE /\ self' = TRUE
          /\ UNCHANGED decommitting
  /\ UNCHANGED <<agreed, sleepVars>>

\* GetBuffer: take a sample ...
TakeBuffer(t, b) ==
  /\ t \notin asleep /\ committed
  /\ b \in free /\ free' = free \ {b}
  /\ UNCHANGED <<committed, decommitting, agreed, changed, pool, sleepVars, self>>

\* ... or SetWaiting and go to sleep ...
Sleep(t) ==
  /\ t \notin asleep /\ committed
  /\ free = {}
  /\ waiting' = waiting + 1 /\ asleep' = asleep \cup {t}
  /\ UNCHANGED <<committed, decommitting, agreed, changed, pool, free, semaphore, self>>

\* ... until the semaphore is raised, and try again.
WakeUp(t) ==
  /\ t \in asleep /\ semaphore > 0
  /\ semaphore' = semaphore - 1 /\ asleep' = asleep \ {t}
  /\ UNCHANGED <<committed, decommitting, agreed, changed, pool, free, waiting, self>>

\* Mutant of NotifySample: nobody is told.
NotifyNobody == UNCHANGED <<waiting, semaphore>>

NotifySample == semaphore' = semaphore + waiting /\ waiting' = 0

\* ReleaseBuffer: the last one completes a pending decommit.
ReleaseBuffer(b) ==
  /\ b \in pool \ free /\ free' = free \cup {b}
  /\ NotifySample
  /\ IF decommitting /\ free' = pool
     THEN decommitting' = FALSE /\ self' = FALSE
     ELSE UNCHANGED <<decommitting, self>>
  /\ UNCHANGED <<committed, agreed, changed, pool, asleep>>

\* Mutant of Decommit: the reference is given back with samples outstanding.
DecommitReleases ==
  /\ committed \/ decommitting
  /\ committed' = FALSE
  /\ decommitting' = (free # pool)
  /\ self' = FALSE
  /\ NotifySample
  /\ UNCHANGED <<agreed, changed, pool, free, asleep>>

\* Decommit: at once, or when the last sample comes back.
Decommit ==
  /\ committed \/ decommitting
  /\ committed' = FALSE
  /\ decommitting' = (free # pool)
  /\ self' = (self /\ free # pool)
  /\ NotifySample
  /\ UNCHANGED <<agreed, changed, pool, free, asleep>>

Next ==
  \/ SetProperties \/ Commit \/ Decommit
  \/ \E t \in Threads : Sleep(t) \/ WakeUp(t) \/ \E b \in Buffers : TakeBuffer(t, b)
  \/ \E b \in Buffers : ReleaseBuffer(b)

Spec == Init /\ [][Next]_avars

-----------------------------------------------------------------------------
(* Properties                                                              *)

TypeOK ==
  /\ {committed, decommitting, changed, self} \subseteq BOOLEAN
  /\ agreed \subseteq Buffers /\ pool \subseteq Buffers /\ free \subseteq pool
  /\ asleep \subseteq Threads
  /\ waiting \in Nat /\ semaphore \in Nat

\* What amfilter.h:1412-1425 says of the lazy signalling: a free sample leaves
\* nobody to be notified, m_lWaiting and the semaphore account for every
\* thread, and so no thread sleeps on while there is a sample for it or the
\* allocator is decommitted.
NoLostWakeup ==
  /\ free # {} => waiting = 0
  /\ waiting + semaphore = Cardinality(asleep)
  /\ asleep # {} /\ (free # {} \/ ~committed) => semaphore > 0

\* Samples that are out keep the allocator alive and their number and size as
\* they were: the allocator holds a reference to itself until the last one is
\* back, and allocates only while none is out (amfilter.cpp:4899-4902, 4982).
SamplesOutlivePin ==
  /\ free # pool => self /\ ~changed
  /\ self = (committed \/ decommitting)
  /\ decommitting => ~committed /\ free # pool
=============================================================================
