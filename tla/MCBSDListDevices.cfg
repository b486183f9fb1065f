CONSTANTS
  w1 = w1
  w2 = w2
  empty = empty
  Names <- MCNames
  Empty = empty
  NameBytes <- MCNameBytes
  MaxChanges <- MCMaxChanges
  Errors <- MCErrors

SPECIFICATION Spec

INVARIANT TypeOK
INVARIANT ListedIsCopy
INVARIANT ListHoldsNames

CHECK_DEADLOCK FALSE
