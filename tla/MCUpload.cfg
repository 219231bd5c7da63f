\* Every short content and the near misses of the boundary, cut everywhere.
CONSTANTS
  Letters = {"cr", "lf", "-", "b"}
  CR = "cr"
  LF = "lf"
  Dash = "-"
  Boundary <- MCBoundary
  Contents <- MCContents
  Epilogues <- MCEpilogues
  BufSize = 26
SPECIFICATION Spec
INVARIANTS SavedExactly BufferStaysSmall
PROPERTY EventuallyComplete
CHECK_DEADLOCK FALSE
