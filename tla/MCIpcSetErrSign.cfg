CONSTANTS
  k1 = k1
  k2 = k2
  a1 = a1
  a2 = a2
  a3 = a3
  Keys <- MCKeys
  IPs <- MCIPs
  Family <- MCFamily
  Requests <- MCRequests
  InitConfigs <- MCInitConfigs
  MaxInode <- MCMaxInode
  DaemonErrors <- MCDaemonErrors
  StaleErrnos <- MCStaleErrnos

SPECIFICATION Spec

INVARIANT ErrorsAreNegative


CHECK_DEADLOCK FALSE
