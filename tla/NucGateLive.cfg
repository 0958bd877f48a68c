CONSTANTS
  Jobs = {j1, j2}
  Repos = {r1}
  RepoOf <- MCRepoOf
  Submitters = {p1}
  Units = {u1, u2}
  Slots = {s1}
  Faults = {}
  Free = Free
  NoJob = NoJob
SPECIFICATION FairSpec
PROPERTY ImplementsGateJob
