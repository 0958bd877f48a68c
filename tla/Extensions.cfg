CONSTANTS
  Providers = {codex, claude}
  Levels = {0, 2}
  Thresholds = {1, 3}
  MaxSession = 1
  UIs = {TRUE, FALSE}
  Modal = TRUE
  Absent = Absent
  Commands = {c1, c2}
  Texts = {t1, t2}
  ResumeText = ResumeText
  MaxQueue = 2
  NoText = NoText
SPECIFICATION Spec
INVARIANTS TypeOK OnMeansPolled AnalyseIsReadOnly OthersAreFree
PROPERTY OpenIsChecked
