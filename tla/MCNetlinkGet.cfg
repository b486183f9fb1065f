CONSTANTS
  k1 = k1
  k2 = k2
  a1 = a1
  a2 = a2
  a3 = a3
  NULL = NULL
  Keys <- MCKeys
  IPs <- MCIPs
  Family <- MCFamily
  InitConfigs <- MCInitConfigs
  ChangeFragments <- MCChangeFragments
  MaxChanges <- MCMaxChanges
  MaxItemsPerMessage <- MCMaxItemsPerMessage

SPECIFICATION Spec

INVARIANT TypeOK
INVARIANT GetIsSnapshot
PROPERTY Termination

CHECK_DEADLOCK FALSE
