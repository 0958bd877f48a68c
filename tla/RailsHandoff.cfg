CONSTANTS
  Sessions = {m, n}
  Files = {f, g}
  None = None
  MaxEntries = 3
SPECIFICATION Spec
SYMMETRY MCSymmetry
INVARIANTS TypeOK HandoffIsClean HandoffIsVerified
