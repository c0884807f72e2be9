------------------------------- MODULE Activation ------------------------------
(***************************************************************************)
(* The life of the Media Foundation sources: the class factory makes       *)
(* activation objects (PS3EyeActivate), ActivateObject of one makes a      *)
(* PS3EyeMediaSource on demand and keeps it for later calls, and the       *)
(* application counts references to both (PS3EyeDeviceSource.cpp,          *)
(* PS3EyeMediaSource.cpp).  A source is a client of the capture service    *)
(* from Initialize to Stop or Shutdown, and again from Start on.  What     *)
(* goes on inside Start, Stop and Shutdown, and beside the capture thread, *)
(* is MediaSource; here each of them is one step.                          *)
(*                                                                         *)
(* The capture thread connects too, if it finds its client disconnected    *)
(* (cpp:504).  It never does, and has no action here: a client is          *)
(* disconnected only after the thread was joined (cpp:356-359, 399-402;    *)
(* MediaSource!CaptureConnect and ClientNotShared).                        *)
(*                                                                         *)
(* PS3EyeActivate has no lock: its methods are called one at a time here.  *)
(* The application starts, stops, shuts down and releases sources at any   *)
(* time.                                                                   *)
(***************************************************************************)
EXTENDS Naturals, FiniteSets

CONSTANTS
  Sources,        \* the sources there are at a time
  MaxReferences   \* bound: references of the application to one object

None == "none"
ASSUME ActivationAssumption == None \notin Sources /\ MaxReferences \in Nat \ {0}

VARIABLES
  m_refCount,  \* of the activation object, 0 if there is none
  m_source,    \* of the activation object
  at,          \* where its ActivateObject is
  new,         \* the source CreateInstance is making
  refs,        \* the reference count of each source, 0 if there is none
  shut,        \* the sources that are shut down
  clients,     \* the sources that are connected to the shared memory
  capturing,   \* m_captureThreadRunning: the sources whose capture thread runs
  held,        \* how many references to each source the application has
  stopped,     \* history: the sources the application has stopped and not started since
  ended        \* history: the sources whose Shutdown the application has called

activities == <<shut, clients, capturing, stopped, ended>>
vars == <<m_refCount, m_source, at, new, refs, held, activities>>

Init ==
  /\ m_refCount = 0 /\ m_source = None /\ at = "idle" /\ new = None
  /\ refs = [s \in Sources |-> 0] /\ held = [s \in Sources |-> 0]
  /\ shut = {} /\ clients = {} /\ capturing = {} /\ stopped = {} /\ ended = {}

-----------------------------------------------------------------------------
(* PS3EyeMediaSource                                                       *)

\* StopCaptureThread, which joins the thread, and then Disconnect of the client
StopAndDisconnect(s) == capturing' = capturing \ {s} /\ clients' = clients \ {s}

\* Shutdown, of a source that is not yet
ShutdownOf(s) ==
  /\ StopAndDisconnect(s)
  /\ shut' = shut \cup {s} /\ stopped' = stopped \ {s}

\* Mutant of ReleaseOf: the last Release forgets the destructor's Shutdown.
ReleaseForgets(s) ==
  /\ refs' = [refs EXCEPT ![s] = @ - 1]
  /\ IF refs[s] = 1
     THEN /\ shut' = shut \ {s} /\ stopped' = stopped \ {s} /\ ended' = ended \ {s}
          /\ UNCHANGED <<clients, capturing>>
     ELSE UNCHANGED activities

\* Release: the last one runs the destructor, which shuts the source down
ReleaseOf(s) ==
  /\ refs' = [refs EXCEPT ![s] = @ - 1]
  /\ IF refs[s] = 1
     THEN /\ StopAndDisconnect(s)
          /\ shut' = shut \ {s} /\ stopped' = stopped \ {s} /\ ended' = ended \ {s}
     ELSE UNCHANGED activities

\* CreateInstance: the new source has the reference of CreateInstance itself;
\* Initialize connects it, after which it may still fail ...
CreateSource ==
  /\ at = "create" /\ at' = "initialized"
  /\ \E s \in Sources :
       /\ refs[s] = 0 /\ new' = s
       /\ refs' = [refs EXCEPT ![s] = 1]
       /\ clients' \in {clients, clients \cup {s}}
  /\ UNCHANGED <<m_refCount, m_source, held, shut, capturing, stopped, ended>>

\* ... QueryInterface stores it in m_source, and the first reference is released
StoreSource ==
  /\ at = "initialized" /\ new \in clients /\ at' = "query"
  /\ m_source' = new /\ new' = None
  /\ UNCHANGED <<m_refCount, refs, held, activities>>

\* Mutant of InitializeFails: the error is returned at once.
InitializeFailsAtOnce ==
  /\ at = "initialized" /\ at' = "idle" /\ new' = None
  /\ UNCHANGED <<m_refCount, m_source, refs, held, activities>>

\* No service, or no stream or descriptor: the reference goes, and the source
InitializeFails ==
  /\ at = "initialized" /\ at' = "idle" /\ new' = None
  /\ ReleaseOf(new)
  /\ UNCHANGED <<m_refCount, m_source, held>>

-----------------------------------------------------------------------------
(* PS3EyeActivate                                                          *)

activateFrame == <<at, new, held>>

\* IClassFactory::CreateInstance: one reference, for the application, or the
\* interface is not had and the object is gone again
CreateActivate ==
  /\ m_refCount = 0 /\ m_refCount' = 1
  /\ UNCHANGED <<m_source, refs, activities, activateFrame>>

AddRef ==
  /\ m_refCount \in 1..MaxReferences - 1 /\ m_refCount' = m_refCount + 1
  /\ UNCHANGED <<m_source, refs, activities, activateFrame>>

ActivateObject ==
  /\ m_refCount > 0 /\ at = "idle"
  /\ at' = IF m_source = None THEN "create" ELSE "query"
  /\ UNCHANGED <<m_refCount, m_source, new, refs, held, activities>>

\* m_source->QueryInterface(riid): a reference for the application, or none
HandOut ==
  /\ at = "query" /\ at' = "idle"
  /\ \/ /\ held[m_source] < MaxReferences
        /\ held' = [held EXCEPT ![m_source] = @ + 1]
        /\ refs' = [refs EXCEPT ![m_source] = @ + 1]
     \/ UNCHANGED <<held, refs>>
  /\ UNCHANGED <<m_refCount, m_source, new, activities>>

\* m_source.Reset(), after Shutdown or without
ResetSource(shutdown) ==
  IF m_source = None THEN UNCHANGED <<m_source, refs, activities>>
  ELSE /\ m_source' = None
       /\ IF shutdown /\ refs[m_source] > 1
          THEN /\ refs' = [refs EXCEPT ![m_source] = @ - 1]
               /\ ShutdownOf(m_source) /\ UNCHANGED ended
          ELSE ReleaseOf(m_source)

\* Mutant of ShutdownObject: the pointer is kept.
ShutdownKeeps ==
  /\ m_refCount > 0 /\ at = "idle" /\ m_source # None
  /\ ShutdownOf(m_source)
  /\ UNCHANGED <<m_refCount, m_source, refs, ended, activateFrame>>

ShutdownObject ==
  /\ m_refCount > 0 /\ at = "idle"
  /\ ResetSource(TRUE)
  /\ UNCHANGED <<m_refCount, activateFrame>>

DetachObject ==
  /\ m_refCount > 0 /\ at = "idle"
  /\ ResetSource(FALSE)
  /\ UNCHANGED <<m_refCount, activateFrame>>

\* Release: with the last one the object ends, by way of ShutdownObject
ReleaseActivate ==
  /\ m_refCount > 0 /\ at = "idle" /\ m_refCount' = m_refCount - 1
  /\ IF m_refCount = 1 THEN ResetSource(TRUE)
                       ELSE UNCHANGED <<m_source, refs, activities>>
  /\ UNCHANGED activateFrame

-----------------------------------------------------------------------------
(* The application and its sources, on any thread                          *)

\* A call of the application on a source that it holds and that is not shut down
Callable(s) == held[s] > 0 /\ s \notin shut

sourceFrame == <<m_refCount, m_source, refs, activateFrame>>

\* Start: a source that is not connected connects, or the call fails without a
\* change; then the thread runs, if it did not already
AppStart(s) ==
  /\ Callable(s)
  /\ clients' = clients \cup {s} /\ capturing' = capturing \cup {s}
  /\ stopped' = stopped \ {s}
  /\ UNCHANGED <<shut, ended, sourceFrame>>

\* Stop, of a source in any state.  (Pause changes neither thread nor client.)
AppStop(s) ==
  /\ Callable(s)
  /\ StopAndDisconnect(s) /\ stopped' = stopped \cup {s}
  /\ UNCHANGED <<shut, ended, sourceFrame>>

AppShutdown(s) ==
  /\ Callable(s)
  /\ ShutdownOf(s) /\ ended' = ended \cup {s}
  /\ UNCHANGED sourceFrame

AppRelease(s) ==
  /\ held[s] > 0 /\ held' = [held EXCEPT ![s] = @ - 1]
  /\ ReleaseOf(s)
  /\ UNCHANGED <<m_refCount, m_source, at, new>>

Next ==
  \/ CreateActivate \/ AddRef \/ ActivateObject \/ HandOut \/ CreateSource \/ StoreSource
  \/ InitializeFails \/ ShutdownObject \/ DetachObject \/ ReleaseActivate
  \/ \E s \in Sources : AppStart(s) \/ AppStop(s) \/ AppShutdown(s) \/ AppRelease(s)

Spec == Init /\ [][Next]_vars

-----------------------------------------------------------------------------
(* Properties                                                              *)

Exists(s) == refs[s] > 0

\* Types, and each reference of a source belongs to somebody: m_source, the
\* application or CreateInstance.  So no pointer is to a source that is gone,
\* and no source stays for nobody, however creation fails or the calls mix.
TypeOK ==
  /\ m_refCount \in 0..MaxReferences /\ m_source \in Sources \cup {None}
  /\ at \in {"idle", "create", "initialized", "query"} /\ new \in Sources \cup {None}
  /\ \A s \in Sources :
       refs[s] = held[s] + (IF m_source = s THEN 1 ELSE 0) + (IF new = s THEN 1 ELSE 0)
  /\ m_source # None => m_refCount > 0
  /\ at = "query" => m_source # None

\* The capture service counts the sources that exist and are neither stopped
\* nor shut down, whoever shut them down and in whatever order they are
\* created, started, stopped and released; a source that captures is counted,
\* or the camera could go off under it.  None is counted once the application
\* has let go of its sources and of the activation object: the camera can go off.
CountedUnlessStopped ==
  /\ \A s \in clients : Exists(s) /\ s \notin shut \cup stopped
  /\ capturing \subseteq clients
  /\ \A s \in Sources : Exists(s) /\ s # new => s \in clients \cup shut \cup stopped
  /\ m_refCount = 0 /\ (\A s \in Sources : held[s] = 0) => clients = {}

\* The source that ActivateObject hands out works, or can be started again if
\* the application has stopped it, though the one before was ended by
\* ShutdownObject, DetachObject or a failed Initialize; only one that the
\* application itself has shut down is handed out again as it is.
HandedOutUsable ==
  at = "query" => m_source \in (clients \cup stopped) \ shut \/ m_source \in ended
=============================================================================
