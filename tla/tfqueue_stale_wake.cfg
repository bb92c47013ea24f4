SPECIFICATION Spec
CONSTANTS
  p1 = p1
  p2 = p2
  p3 = p3
  c1 = c1
  c2 = c2
  c3 = c3
  Nil = Nil
  Procs <- ThreeProcs
  Storages <- EnoughCells
  Timeouts = FALSE
  StaleWakes = TRUE
  Signals = FALSE
INVARIANTS MutualExclusion
