CONSTANTS
  k1 = k1
  k2 = k2
  a1 = a1
  a2 = a2
  Keys <- MCKeys
  IPs <- MCIPs
  Family <- MCFamily
  Lines <- MCLines
  MaxLines <- MCMaxLines
  OpenErrors <- MCOpenErrors

SPECIFICATION Spec

INVARIANT ErrorsAreNegative


CHECK_DEADLOCK FALSE
