\* Bodies of up to six bytes, forms with sections of up to two, parameters of
\* up to five, and lists of three.  Alignment 4: sections of a negative size are refused, abort or
\* are stored, as the distance of the braces and what is allocated decide.
SPECIFICATION FairExchange
CONSTANTS
  Raws <- MCRaws
  Behinds <- MCBehinds
  Align = 4
INVARIANTS
  TypeOK
  FormedAccepted
  SectionsInOrder
  ParamsExact
  AllReleased
  ReplyReadable
PROPERTY RequestDecided
\* The request is decided and answered.
CHECK_DEADLOCK FALSE
