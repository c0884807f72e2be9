----------------------------- MODULE ClientCounter -----------------------------
(***************************************************************************)
(* What the capture process and its clients may do to clientCount and to   *)
(* PS3EyeClientEvent (PS3EyeSharedMemory.cpp): the only thing by which the *)
(* service learns that it is used.  SharedFrame implements this with the   *)
(* whole mapping around it, CaptureService with the whole service; so each *)
(* may take the other to be what is said here.                             *)
(***************************************************************************)
EXTENDS Integers

CONSTANT Clients

VARIABLES
  client,   \* where each client is: "off", "signalled" (in Connect), "in", "leaving"
  count,    \* clientCount
  event,    \* the client event is signalled
  holders,  \* the clients that have it open
  up        \* Create is done, and the process is there

kvars == <<client, count, event, holders, up>>

Init ==
  /\ client = [c \in Clients |-> "off"] /\ count = 0
  /\ event = FALSE /\ holders = {} /\ up = FALSE

Move(c, from, to) == client[c] = from /\ client' = [client EXCEPT ![c] = to]

-----------------------------------------------------------------------------
(* The capture process                                                     *)

\* Create clears the count, whoever is counted; an event that nobody has open
\* is a new one.
Clear ==
  /\ ~up /\ up' \in BOOLEAN
  /\ count' \in {0, count} /\ (up' => count' = 0)
  /\ event' \in {event, event /\ holders # {}}
  /\ UNCHANGED <<client, holders>>

\* Close, or the end of the process: all stays as it is.
GoAway == up /\ ~up' /\ UNCHANGED <<client, count, event, holders>>

\* WaitForClients takes the event.
TakeEvent == up /\ event /\ ~event' /\ UNCHANGED <<client, count, holders, up>>

-----------------------------------------------------------------------------
(* Client c                                                                *)

\* Connect sets the event, unless neither the process nor anybody has one, ...
Signal(c) ==
  /\ Move(c, "off", "signalled")
  /\ \/ holders' = holders \cup {c} /\ event' = TRUE
     \/ ~up /\ holders = {} /\ UNCHANGED <<holders, event>>
  /\ UNCHANGED <<count, up>>

\* ... and then counts the client.
CountIn(c) ==
  /\ Move(c, "signalled", "in")
  /\ count' = count + 1
  /\ UNCHANGED <<event, holders, up>>

\* Disconnect takes the count back ...
CountOut(c) ==
  /\ Move(c, "in", "leaving")
  /\ count' = count - 1
  /\ UNCHANGED <<event, holders, up>>

\* ... and then sets the event.
Leave(c) ==
  /\ Move(c, "leaving", "off")
  /\ event' = (event \/ c \in holders) /\ holders' = holders \ {c}
  /\ UNCHANGED <<count, up>>

\* A Connect that finds Create half done takes back a count it never gave.
Reject == ~up /\ count' = count - 1 /\ UNCHANGED <<client, event, holders, up>>

\* Who dies stays counted.
Die(c) ==
  /\ client[c] # "off" /\ Move(c, client[c], "off")
  /\ holders' = holders \ {c}
  /\ UNCHANGED <<count, event, up>>

Next ==
  \/ Clear \/ GoAway \/ TakeEvent \/ Reject
  \/ \E c \in Clients : Signal(c) \/ CountIn(c) \/ CountOut(c) \/ Leave(c) \/ Die(c)

Spec == Init /\ [][Next]_kvars
=============================================================================
