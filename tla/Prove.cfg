CONSTANTS
  Runs = {r, s}
  Codes = {a}
  Docs = {d, e}
  Versions = {v, w}
  Altered = Altered
  Proofs = 2
  Plans <- MCPlans
  None = None
  MaxCommits = 3
  MaxEdits = 2
CHECK_DEADLOCK FALSE
SPECIFICATION Spec
SYMMETRY MCSymmetry
INVARIANTS TypeOK PassIsEarned MergeIsProven
