CONSTANTS
  Jobs = {j1}
  Repos = {r1}
  RepoOf <- MCRepoOf
  Submitters = {p1}
  Units = {u1}
  Slots = {s1}
  Faults = {"term"}
  Free = Free
  NoJob = NoJob
SPECIFICATION Spec
PROPERTY UnitLeavesResult
