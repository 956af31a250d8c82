\* The same pages and sizes as Arena.cfg.
SPECIFICATION Spec
CONSTANTS
  NULL = null
  ABORTED = aborted
  DefPage = 6
  SizeSpace = 32
  Bases = {0, 2}
  Sizes = {3, 5, 7, 30}
  Aligns = {4}
  MaxPages = 3
  MaxBlocks = 3
INVARIANT HeadKnowsTail
CHECK_DEADLOCK FALSE
