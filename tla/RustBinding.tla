----------------------------- MODULE RustBinding ----------------------------
(***************************************************************************)
(* Who owns a book made from Rust (bindings/rust/src/lib.rs and            *)
(* cxx_wrapper.cpp): an OrderBookWrapper holds a UniquePtr to a C++        *)
(* OrderBookHandle, a struct around the void* of the C API.  Of a book     *)
(* only its existence is kept; the calls on it are those of CApi.tla.      *)
(***************************************************************************)
EXTENDS Integers

CONSTANTS
  Wrappers,  \* the variables of a Rust program that can hold a wrapper
  Books,     \* the addresses at which a book can be built
  NoBook,    \* nullptr
  Unbound    \* the content of a variable that holds no wrapper

VARIABLES
  books,   \* the OrderBooks that exist
  holds    \* for each variable, the ptr of its wrapper's OrderBookHandle

vars == <<books, holds>>

Init ==
  /\ books = {}
  /\ holds = [w \in Wrappers |-> Unbound]

\* OrderBook::new(): make_unique gives a struct whatever the C API returned,
\* so from_handle, which asks whether there is a struct, never fails.
New(w) ==
  /\ holds[w] = Unbound
  /\ \/ \E b \in Books \ books :
          /\ books' = books \cup {b}
          /\ holds' = [holds EXCEPT ![w] = b]
     \/ /\ holds' = [holds EXCEPT ![w] = NoBook]
        /\ UNCHANGED books

\* let v = w: the wrapper moves.
Move(w, v) ==
  /\ holds[w] # Unbound /\ holds[v] = Unbound
  /\ holds' = [holds EXCEPT ![w] = Unbound, ![v] = holds[w]]
  /\ UNCHANGED books

\* The end of a scope: there is no Drop implementation, so the UniquePtr
\* deletes the struct, which has no destructor of its own.
DropWrapper(w) ==
  /\ holds[w] # Unbound
  /\ holds' = [holds EXCEPT ![w] = Unbound]
  /\ UNCHANGED books

Next ==
  \E w \in Wrappers :
    New(w) \/ DropWrapper(w) \/ \E v \in Wrappers : Move(w, v)

Spec == Init /\ [][Next]_vars

-----------------------------------------------------------------------------
\* A book lives no longer than the wrapper that owns it: the claim of
\* .github/README.md:667, "safe memory management via automatic RAII Drop
\* implementation on OrderBook wrappers".
BooksAreOwned == \A b \in books : \E w \in Wrappers : holds[w] = b

=============================================================================
