SPECIFICATION Spec
CONSTANTS
  PageSize = 2
  Clients = {c1, c2}
  Inputs <- PagedInputs
  Pages = {0, 1, 2, 3}
SYMMETRY ClientSymmetry
INVARIANTS
  NodesConsistent
  PagesAccounted
PROPERTIES
  KeepsPromise
  EvictsOldest
