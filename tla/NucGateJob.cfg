CONSTANTS
  Jobs = {j1}
  Repos = {r1}
  RepoOf <- MCRepoOf
  Submitters = {p1, p2}
  Units = {u1, u2}
  Slots = {s1}
  Faults = {"crash", "term", "kill", "rm", "uncaught"}
  Free = Free
  NoJob = NoJob
  Readers = {c1}
SPECIFICATION WaitSpec
INVARIANTS WaitTypeOK OneExecution AnswerStands OneUnitPerJob FreshCheckout SlotCoversContainer GitHubAgrees NoLostJob
PROPERTIES VerdictIsFinal EndsWithResult ImplementsSafety
