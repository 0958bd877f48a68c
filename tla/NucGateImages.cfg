CONSTANTS
  Jobs = {j1, j2}
  Repos = {r1}
  RepoOf <- MCRepoOf
  Submitters = {p1}
  Units = {u1, u2}
  Slots = {s1, s2}
  Faults = {"ambiguous"}
  Free = Free
  NoJob = NoJob
SPECIFICATION Spec
INVARIANT NoDuplicateBuild
SYMMETRY Symmetry
