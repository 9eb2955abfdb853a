-------------------------------- MODULE MCCApi ------------------------------
(***************************************************************************)
(* Small instances of the C API.                                           *)
(***************************************************************************)
EXTENDS CApi, TLC

CONSTANTS o1, o2, o3, o4

\* A client passes the double nearest to a number of tenths of a tick.
Request(id, tenths, quantity, side) ==
  [id |-> id, price |-> Double(tenths, 10 * PRICE_SCALE_FACTOR),
   quantity |-> quantity, side |-> side]

\* Three orders at one tick and at a price that becomes two ticks: a tick and
\* a half for the buys, which are larger, and 1.9 for the sells.  A fourth is
\* refused for its price or its quantity, or its side is no constant of CAPI.h.
CRequests ==
  {Request(id, price, 2, 0) : id \in {o1, o2, o3}, price \in {10, 15}}
  \cup {Request(id, price, 1, 1) : id \in {o1, o2, o3}, price \in {10, 19}}
  \cup {Request(o4, 4, 1, 0), Request(o4, 25, 1, 0), Request(o4, 10, 3, 0),
        Request(o4, 10, 1, 7)}

\* No guard reads result and no property of the run is about it.
WithoutResult == <<free_list, mem, book, order_map, call, now, outer,
                   handle, callback, limit>>

\* The ids of the three are interchangeable: no definition tells them apart.
IdSymmetry == Permutations({o1, o2, o3})

=============================================================================
