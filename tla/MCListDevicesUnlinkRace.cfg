CONSTANTS
  k1 = k1
  k2 = k2
  u1 = u1
  u2 = u2
  KNames <- MCKNames
  UNames <- MCUNames
  NameBytes <- MCNameBytes
  MaxChanges <- MCMaxChanges
  MaxInode <- MCMaxInode
  KernelErrors <- MCKernelErrors
  DirErrors <- MCDirErrors

SPECIFICATION Spec

INVARIANT NoLiveSocketUnlinked


CHECK_DEADLOCK FALSE
