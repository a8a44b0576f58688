SPECIFICATION Spec
CONSTANTS
  Projects = {p1, p2}
  None = None
SYMMETRY Symmetry
INVARIANTS ListedIsThere DeletedStaysDeleted
PROPERTIES WorkKept
