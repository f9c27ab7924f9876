SPECIFICATION Spec
CONSTANTS
  Mcps = {m1, m2}
  Tasks = {t1, t2}
  MaxRuns = 3
SYMMETRY Symmetry
CONSTRAINT Explored
INVARIANTS TypeOK OneExecution StateTells DiagnosisFits NothingForgotten AttachmentsKept
PROPERTY EachLivesOnce
CHECK_DEADLOCK FALSE
