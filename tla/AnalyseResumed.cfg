CONSTANTS
  Providers = {codex, claude}
  Levels = {0, 2}
  Thresholds = {1, 3}
  MaxSession = 1
  UIs = {TRUE}
  Modal = TRUE
  Absent = Absent
  Commands = {c1}
  Texts = {t1, t2}
  ResumeText = ResumeText
  MaxQueue = 2
  NoText = NoText
SPECIFICATION Spec
INVARIANT ResumeIsReadOnly
