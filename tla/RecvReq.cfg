\* All streams of up to six bytes, in blocks of up to three: requests longer
\* than a block, shorter than one, and several in one; one too long;
\* one with a byte 0 inside, at its end or behind it.
SPECIFICATION Spec
CONSTANTS
  Stop = stop
  Escape = escape
  Nul = nul
  Other = other
  BlockSize = 3
  MaxMessage = 6
  MaxStream = 6
INVARIANTS
  TypeOK
  StreamConserved
  BuffersInBounds
  FramingExact
\* The client stops sending when its stream ends.
CHECK_DEADLOCK FALSE
