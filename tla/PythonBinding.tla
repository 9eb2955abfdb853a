---------------------------- MODULE PythonBinding ---------------------------
(***************************************************************************)
(* The Python class OrderBook (bindings/python/lob/__init__.py) over the C *)
(* API: one RLock, a handle made by __init__ and destroyed by __del__.     *)
(*                                                                         *)
(* Its argtypes declare the price of add_limit_order as c_int64, where     *)
(* CAPI.h:45 has a double.  By the System V convention (Linux, macOS) an   *)
(* int64 travels in the next integer register and a double in the first    *)
(* floating-point register, which nobody sets: the callee reads whatever   *)
(* is left there as the price, the fixed-point price as the quantity and   *)
(* the quantity as the side.                                               *)
(***************************************************************************)
EXTENDS CApi

CONSTANT Leftovers  \* what may be left in the floating-point register

VARIABLE wellFormed  \* history: the last add could be accepted as passed

pythonVars == <<capiVars, wellFormed>>

\* price_to_fixed of the Python module.
PyPriceToFixed(price) ==
  Double(2 * Double(price * PRICE_SCALE_FACTOR, Grid) + Grid, 2 * Grid)
    \div Grid

\* The request the C function sees.
Received(r, leftover) ==
  [id |-> r.id, price |-> leftover,
   quantity |-> PyPriceToFixed(r.price) % QuantityModulus,
   side |-> r.quantity]

\* __init__ raises an error when there is no handle: no object then.
PythonInit == CApiInit /\ wellFormed = FALSE

AddLimitOrder(r) ==
  /\ \E leftover \in Leftovers :
       AddRefused(Received(r, leftover)) \/ AddBegins(Received(r, leftover))
  /\ wellFormed' = (Refusal(Converted(r)) = "SUCCESS")

OtherCalls ==
  /\ \/ CreateOrderBook \/ DestroyOrderBook \/ SetTradeCallback
     \/ \E id \in OrderIDs : Cancel(id)
  /\ wellFormed' = FALSE

PythonNext ==
  \/ \E r \in Requests : AddLimitOrder(r)
  \/ OtherCalls
  \/ Continue /\ UNCHANGED wellFormed

PythonSpec == PythonInit /\ [][PythonNext]_pythonVars

-----------------------------------------------------------------------------
\* An order with a legal price and quantity, a new id and a side, for which
\* the pool has room, is added: what the binding's tests expect of every such
\* call (bindings/python/tests/test_python.py:55-66).
ValidOrdersAreAdded == wellFormed /\ Idle => result = "SUCCESS"

=============================================================================
