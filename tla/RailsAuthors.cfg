CONSTANTS
  Mains = {m, n}
  Children = {k, l}
  Families = {f, g}
  Main = Main
  None = None
  MaxEpoch = 1
  MaxAuthors = 2
SPECIFICATION Spec
SYMMETRY MCSymmetry
INVARIANTS TypeOK AuthorsAreKnown
PROPERTY VerifierIsIndependent
