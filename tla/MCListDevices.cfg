CONSTANTS
  k1 = k1
  k2 = k2
  u1 = u1
  u2 = u2
  KNames <- MCKNames
  UNames <- MCUNames
  NameBytes <- MCNameBytes
  MaxChanges <- MCMaxChanges
  MaxInode <- MCMaxInode
  KernelErrors <- MCKernelErrors
  DirErrors <- MCDirErrors

SPECIFICATION Spec

INVARIANT TypeOK
INVARIANT KernelCompleteWhenQuiet
INVARIANT LiveDaemonListed
INVARIANT ListWriteInBounds

CHECK_DEADLOCK FALSE
