CONSTANTS
  Wrappers = {w1, w2}
  Books = {b1, b2}
  NoBook = NoBook
  Unbound = Unbound
SPECIFICATION Spec
INVARIANT BooksAreOwned
