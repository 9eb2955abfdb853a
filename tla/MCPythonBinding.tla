--------------------------- MODULE MCPythonBinding --------------------------
(***************************************************************************)
(* A small instance of the Python binding.                                 *)
(***************************************************************************)
EXTENDS PythonBinding

CONSTANTS o1, o2

\* Whole ticks up to MAX_PRICE, quantities up to MAX_QUANTITY, both sides.
PyRequests ==
  [id : {o1, o2}, price : {PriceToDouble(p) : p \in Prices},
   quantity : Quantities, side : {0, 1}]

\* The most favourable case: the register happens to hold a legal price.
SomeLeftovers == {PriceToDouble(1)}

=============================================================================
