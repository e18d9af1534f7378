SPECIFICATION Spec
CONSTANTS
  Items = {a, b, c, d}
  Threads = {t1, t2}
  OneOwner = TRUE
  NULL = NULL
SYMMETRY ThreadSymmetry
INVARIANT LinksAgree
PROPERTY ImplementsOrderedList
