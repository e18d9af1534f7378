SPECIFICATION Spec
CONSTANTS
  Items = {a, b, c}
  Threads = {t1, t2}
  OneOwner = FALSE
  NULL = NULL
SYMMETRY ThreadSymmetry
INVARIANT LinksAgree
