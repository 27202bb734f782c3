SPECIFICATION Spec
CONSTANTS
  c1 = c1
  c2 = c2
  f1 = f1
  f2 = f2
  NoOne = NoOne
  Configs = {c1, c2}
  MaxRuns <- MCMaxRuns
  MaxRetries <- MCMaxRetries
  s1 = s1
  Starters = {s1}
  Silent <- MCSilent
  MaxBatchRuns = 1
  Finalizers = {f1, f2}
SYMMETRY MCFinalizers
INVARIANTS
  TypeOK
  SlotSafe
  NoChildOutlivesRun
  OutcomeHonest
PROPERTIES
  FinalIsFinal
CHECK_DEADLOCK FALSE
