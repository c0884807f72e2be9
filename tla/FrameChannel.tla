----------------------------- MODULE FrameChannel -----------------------------
(***************************************************************************)
(* What the shared frame promises to its users (PS3EyeSharedMemory.h 1-3, *)
(* 68, 113-115): a capture process publishes one frame after another, and  *)
(* a client that reads is handed the newest published frame, whole, and    *)
(* never the same frame twice in one connection.  Frames may be skipped:   *)
(* the channel holds one frame, not a queue.                               *)
(***************************************************************************)
EXTENDS Naturals

CONSTANT Clients

VARIABLES
  published,  \* the newest published frame: its number, and which image it is
  seen,       \* seen[c]: number of the frame c was handed last
  got         \* got[c]: what c was handed last, by halves of the image

cvars == <<published, seen, got>>

Nothing == [num |-> 0, lo |-> 0, hi |-> 0]

ChannelTypeOK ==
  /\ published \in [num : Nat, id : Nat]
  /\ seen \in [Clients -> Nat]
  /\ got \in [Clients -> [num : Nat, lo : Nat, hi : Nat]]

Init ==
  /\ published = [num |-> 0, id |-> 0]
  /\ seen = [c \in Clients |-> 0]
  /\ got = [c \in Clients |-> Nothing]

\* The next frame: numbers have no gap, images may (a capture can be dropped).
Publish ==
  /\ published' \in [num : {published.num + 1}, id : Nat]
  /\ published'.id > published.id
  /\ UNCHANGED <<seen, got>>

\* A new connection has seen nothing.
Join(c) ==
  /\ seen' = [seen EXCEPT ![c] = 0]
  /\ got' = [got EXCEPT ![c] = Nothing]
  /\ UNCHANGED published

Deliver(c) ==
  /\ seen[c] < published.num
  /\ seen' = [seen EXCEPT ![c] = published.num]
  /\ got' = [got EXCEPT ![c] =
               [num |-> published.num, lo |-> published.id, hi |-> published.id]]
  /\ UNCHANGED published

Next ==
  \/ Publish
  \/ \E c \in Clients : Join(c) \/ Deliver(c)

Spec == Init /\ [][Next]_cvars
=============================================================================
