CONSTANTS
  Jobs = {j1}
  Repos = {r1}
  RepoOf <- MCRepoOf
  Submitters = {p1, p2}
  Units = {u1, u2}
  Slots = {s1}
  Faults = {"crash", "term", "kill", "rm", "uncaught"}
  Free = Free
  NoJob = NoJob
SPECIFICATION FairSpec
PROPERTIES SubmitAnswers ImplementsGateJob
