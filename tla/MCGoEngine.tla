---------------------------- MODULE MCGoEngine ------------------------------
(***************************************************************************)
(* Instances of GoEngine.tla for TLC.  Float prices are half ticks: 0, 1   *)
(* (which PriceToFixed rounds up to the tick 1), 2 and the bad 3.          *)
(***************************************************************************)
EXTENDS GoEngine

SmallRequests ==
  [id : {"o1", "o2"}, price : {0, 1}, quantity : 1 .. 2, side : Sides]
    \cup [id : {"o3"}, price : {0, 1}, quantity : {1}, side : Sides]
    \cup {[id |-> "o3", price |-> 2, quantity |-> 1, side |-> "BUY"],
          [id |-> "o1", price |-> 3, quantity |-> 1, side |-> "BUY"],
          [id |-> "o1", price |-> -1, quantity |-> 1, side |-> "SELL"],
          [id |-> "o1", price |-> 1, quantity |-> 0, side |-> "BUY"],
          [id |-> "o1", price |-> 1, quantity |-> 1, side |-> "NEITHER"]}

=============================================================================
