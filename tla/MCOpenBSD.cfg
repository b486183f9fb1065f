CONSTANTS
  k1 = k1
  k2 = k2
  a1 = a1
  a2 = a2
  a3 = a3
  Keys <- MCKeys
  IPs <- MCIPs
  Family <- MCFamily
  Requests <- MCRequests
  InitConfigs <- MCInitConfigs
  SetErrors <- MCSetErrors
  GetErrors <- MCGetErrors

SPECIFICATION Spec

INVARIANT TypeOK
INVARIANT WriteInBounds
INVARIANT ReturnsCopy
PROPERTY Refinement
PROPERTY Termination

CHECK_DEADLOCK FALSE
