------------------------------ MODULE Dispatch ------------------------------
(***************************************************************************)
(* ipc_get_device and ipc_set_device (src/src/ipc.c 1223-1242) on Linux    *)
(* and the BSDs: probe the interface's socket with                         *)
(* userspace_has_wireguard_interface (127-152); if it says yes, open it    *)
(* again with userspace_interface_file (83-125) and talk to the daemon,    *)
(* else call the kernel backend.  Both entry points have the same control  *)
(* flow; the protocol exchange itself is UapiGet / UapiSet, the kernel     *)
(* call NetlinkGet / NetlinkSet, here reduced to who serves the request.   *)
(*                                                                         *)
(* Environment as in ListDevices: the daemon starts (a fresh socket file), *)
(* crashes (leaving it) or stops (removing it) at any time, at most        *)
(* MaxInode - 1 starts.                                                    *)
(***************************************************************************)
EXTENDS Integers

CONSTANTS MaxInode

ENOENT == 2
ENODEV == 19
EMFILE == 24
EBADF  == 9
ECONNREFUSED == 111

VARIABLES
  pc,        \* "pstat", "pconnect", "punlink", "kernel", "ostat", "oconnect",
             \* "ounlink", "done"
  file,      \* inode of the socket file, 0 for none
  daemon,    \* inode the daemon listens on, 0 when down
  inodes,    \* socket files created so far
  kernelIf,  \* a kernel interface of that name exists
  errno,
  ret,
  served,    \* "none", "daemon", "kernel": who got the request
  stale0,    \* history: at the call, a socket file with no daemon
  live0,     \* history: at the call, the daemon listening on its file
  changed    \* history: the daemon or its file changed during the call

vars == <<pc, file, daemon, inodes, kernelIf, errno, ret, served, stale0, live0, changed>>

Listening == daemon # 0 /\ daemon = file

Env == <<file, daemon, inodes, kernelIf, stale0, live0, changed>>

Init ==
  /\ file \in {0, 1}
  /\ daemon \in {0, file}
  /\ inodes = 1
  /\ kernelIf \in BOOLEAN
  /\ stale0 = (file # 0 /\ daemon = 0)
  /\ live0 = (daemon # 0)
  /\ changed = FALSE
  /\ pc = "pstat" /\ errno = 0 /\ ret = 0 /\ served = "none"

\* stat: no file means no userspace interface (ipc.c 137-140).
PStat ==
  /\ pc = "pstat"
  /\ pc' = IF file = 0 THEN "kernel" ELSE "pconnect"
  /\ UNCHANGED <<errno, ret, served>> /\ UNCHANGED Env

\* Mutant: a refused connect counts as a live interface.
PConnectRefusedIsLive ==
  /\ pc = "pconnect"
  /\ \/ pc' = "kernel" /\ errno' = EMFILE
     \/ pc' = "ostat" /\ errno' = IF Listening THEN errno ELSE ENOENT
  /\ UNCHANGED <<ret, served>> /\ UNCHANGED Env

\* socket and connect: a failed socket means no; ECONNREFUSED means a
\* stale socket to unlink; any other outcome means yes (ipc.c 141-151).
PConnect ==
  /\ pc = "pconnect"
  /\ \/ pc' = "kernel" /\ errno' = EMFILE
     \/ Listening /\ pc' = "ostat" /\ UNCHANGED errno
     \/ ~Listening /\ file # 0 /\ pc' = "punlink" /\ errno' = ECONNREFUSED
     \/ file = 0 /\ pc' = "ostat" /\ errno' = ENOENT
  /\ UNCHANGED <<ret, served>> /\ UNCHANGED Env

\* unlink(addr.sun_path), then no (ipc.c 145-148).
PUnlink ==
  /\ pc = "punlink"
  /\ file' = 0 /\ pc' = "kernel"
  /\ UNCHANGED <<daemon, inodes, kernelIf, stale0, live0, changed, errno, ret, served>>

\* kernel_get_device / kernel_set_device (ipc.c 1228, 1239).
Kernel ==
  /\ pc = "kernel"
  /\ pc' = "done"
  /\ IF kernelIf THEN served' = "kernel" /\ ret' = 0 ELSE ret' = -ENODEV /\ UNCHANGED served
  /\ UNCHANGED errno /\ UNCHANGED Env

\* Mutant: errno returned with its sign.
OutRetPositive(e) == e

\* `out: ret = -errno` (ipc.c 116-124).
OutRet(e) == -e

\* The end of userspace_interface_file and the caller's `if (!f) return
\* -errno`; with a FILE the daemon gets the request (ipc.c 116-124, 196-198).
Out(e) ==
  /\ pc' = "done" /\ errno' = e
  /\ IF e # 0 THEN ret' = OutRet(e) /\ UNCHANGED served
     ELSE ret' = 0 /\ served' = "daemon"

\* errno = EINVAL; stat; errno = EBADF; S_ISSOCK (ipc.c 90-101).
OStat ==
  /\ pc = "ostat"
  /\ IF file = 0 THEN Out(ENOENT) ELSE pc' = "oconnect" /\ errno' = EBADF /\ UNCHANGED <<ret, served>>
  /\ UNCHANGED Env

\* Mutant: no `if (f) errno = 0;` after fdopen.
OConnectNoReset ==
  /\ pc = "oconnect"
  /\ \/ Out(EMFILE)
     \/ Listening /\ Out(errno)
     \/ ~Listening /\ file # 0 /\ pc' = "ounlink" /\ errno' = ECONNREFUSED /\ UNCHANGED <<ret, served>>
     \/ file = 0 /\ Out(ENOENT)
  /\ UNCHANGED Env

\* socket, connect, fdopen and `errno = 0` (ipc.c 103-115).
OConnect ==
  /\ pc = "oconnect"
  /\ \/ Out(EMFILE)
     \/ Listening /\ Out(0)
     \/ ~Listening /\ file # 0 /\ pc' = "ounlink" /\ errno' = ECONNREFUSED /\ UNCHANGED <<ret, served>>
     \/ file = 0 /\ Out(ENOENT)
  /\ UNCHANGED Env

\* unlink after ECONNREFUSED, then out (ipc.c 108-111).
OUnlink ==
  /\ pc = "ounlink"
  /\ file' = 0
  /\ Out(ECONNREFUSED)
  /\ UNCHANGED <<daemon, inodes, kernelIf, stale0, live0, changed>>

Client == PStat \/ PConnect \/ PUnlink \/ Kernel \/ OStat \/ OConnect \/ OUnlink

DaemonStart ==
  /\ daemon = 0 /\ inodes < MaxInode
  /\ inodes' = inodes + 1 /\ file' = inodes + 1 /\ daemon' = inodes + 1

DaemonCrash == daemon # 0 /\ daemon' = 0 /\ UNCHANGED <<file, inodes>>

DaemonStop == daemon # 0 /\ daemon' = 0 /\ file' = 0 /\ UNCHANGED inodes

Environment ==
  /\ pc # "done"
  /\ DaemonStart \/ DaemonCrash \/ DaemonStop
  /\ changed' = TRUE
  /\ UNCHANGED <<pc, kernelIf, errno, ret, served, stale0, live0>>

Next == Client \/ Environment

Spec == Init /\ [][Next]_vars

-----------------------------------------------------------------------------

TypeOK ==
  /\ pc \in {"pstat", "pconnect", "punlink", "kernel", "ostat", "oconnect", "ounlink", "done"}
  /\ file \in 0..MaxInode /\ daemon \in 0..MaxInode
  /\ served \in {"none", "daemon", "kernel"}
  /\ ret \in {0, -ENOENT, -ENODEV, -EMFILE, -ECONNREFUSED}

(* A socket file left behind by a crashed daemon does not capture the      *)
(* request: with no daemon starting during the call, it goes to the        *)
(* kernel backend, and a kernel interface of that name serves it.          *)
StaleSocketFallsBack ==
  (pc = "done" /\ stale0 /\ ~changed) => served # "daemon" /\ (kernelIf => served = "kernel")

(* A daemon listening throughout the call serves it, unless a socket      *)
(* could not be created: the probe and the second open both reach it.     *)
LiveDaemonServes ==
  (pc = "done" /\ live0 /\ ~changed /\ errno # EMFILE) => served = "daemon" /\ ret = 0
=============================================================================
