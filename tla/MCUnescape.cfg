SPECIFICATION FairSpec
CONSTANTS
  Document <- MCDocument
CHECK_DEADLOCK FALSE
INVARIANT IndInv
INVARIANT RoundTrip
PROPERTY Terminates
