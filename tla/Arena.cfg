\* Three pages in up to three arenas; blocks of which one fits in a page only
\* where malloc aligns it well, one that needs a page of its own, and one so large
\* that the sums of its size wrap.
SPECIFICATION Spec
CONSTANTS
  NULL = null
  ABORTED = aborted
  DefPage = 6
  SizeSpace = 32
  Bases = {0, 2}
  Sizes = {3, 5, 7, 30}
  Aligns = {4}
  MaxPages = 3
  MaxBlocks = 3
INVARIANTS
  TypeOK
  BlocksSound
  FreedOnce
  GrownPageFits
\* All pages may have been allocated and freed.
CHECK_DEADLOCK FALSE
