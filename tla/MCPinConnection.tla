--------------------------- MODULE MCPinConnection ---------------------------
(***************************************************************************)
(* Instances of PinConnection for TLC: input pins that offer nothing, a    *)
(* type of theirs that no pin here has, or valid types that this pin does  *)
(* not advertise, and that accept nothing, one type or every type.         *)
(***************************************************************************)
EXTENDS PinConnection

Rgb32(width, height, interval) ==
  [subtype |-> "RGB32", width |-> width, height |-> height, interval |-> interval]

Fastest == Rgb32(640, 480, 142857)
TooFast == Rgb32(640, 480, 142856)
Small15 == Advertised(5)
Yuv == [subtype |-> "YUY2", width |-> 640, height |-> 480, interval |-> 333333]
UpsideDown == [VirtualType EXCEPT !.height = -480]

MCPeerOffers == {<<>>, <<Yuv, TooFast, Fastest>>, <<UpsideDown>>}
MCPeerTastes == {{Fastest, Yuv, VirtualType} \cup {Advertised(i) : i \in 0..5},
                 {Small15, UpsideDown}, {Yuv}}
MCTypes == {Fastest, TooFast, Small15, UpsideDown}
=============================================================================
