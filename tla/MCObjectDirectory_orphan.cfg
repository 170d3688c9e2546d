CONSTANTS
  Headers = {h1, h2}
  CSets = {1, 2, 3}
  Objects = {1, 2, 3}
  UUIDs = {u1, u2, u3}
  Nothing = Nothing
  DeletesOrphans = TRUE
SPECIFICATION Spec
SYMMETRY Symmetry
INVARIANTS DeletedObjectsAreRemoved
CHECK_DEADLOCK FALSE
