CONSTANTS
  k1 = k1
  k2 = k2
  a1 = a1
  a2 = a2
  a3 = a3
  Keys <- MCKeys
  IPs <- MCIPs
  Family <- MCFamily
  InitConfigs <- MCInitConfigs
  ChangeFragments <- MCChangeFragments
  MaxChanges <- MCMaxChanges
  Errors <- MCErrors

SPECIFICATION Spec

INVARIANT NoLeak


CHECK_DEADLOCK FALSE
