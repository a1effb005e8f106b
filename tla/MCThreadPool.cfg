SPECIFICATION FairSpec
CONSTANTS
  Threads = {t1, t2}
  Jobs = {j1, j2}
  NoJob = NoJob
  CreateMayFail = TRUE
  MaxPauses = 1
INVARIANTS TypeOK NoForgottenJob FreedWhenUnused
PROPERTIES RefinesWorkPool JobsAreDone OwnerCallsReturn ResumeReleases
\* The pool ends with its destruction.
CHECK_DEADLOCK FALSE
