\* The texts of Exchange.cfg.
SPECIFICATION ExchangeSpec
CONSTANTS
  Raws <- MCRaws
  Behinds <- MCBehinds
  Align = 4
INVARIANT EscapesAccepted
CHECK_DEADLOCK FALSE
