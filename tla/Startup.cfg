\* Every command line of up to four words, and those with two files and a port
\* between them.  The least int stands in one of the files, whose absolute value
\* is no int.
SPECIFICATION Spec
CONSTANTS
  Argvs <- MCArgvs
  Files <- MCFiles
  Strtol <- MCStrtol
  ERANGE = erange
  MaxInt = 70000
  SizeMax = 1000000
INVARIANTS
  TypeOK
  LastOptionsInForce
  AssumptionsMet
\* The server starts or not.
CHECK_DEADLOCK FALSE
