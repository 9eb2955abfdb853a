------------------------- MODULE MCOrderBookManager -------------------------
(* Small instances of the registry of order books. *)
EXTENDS OrderBookManager, TLC

CONSTANTS t1, t2, s1, s2

OneOwnerEach == s1 :> t1 @@ s2 :> t2

=============================================================================
