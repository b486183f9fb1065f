------------------------------- MODULE IpcSet -------------------------------
(***************************************************************************)
(* ipc_set_device (src/src/ipc.c 1233-1242) on an interface a userspace    *)
(* daemon may serve: the dispatch of Dispatch (the probe, then the second  *)
(* open by userspace_interface_file, or the kernel backend), followed on   *)
(* the userspace path by userspace_set_device's exchange of UapiSet.  The  *)
(* open of UapiSet is the end of Dispatch's second open: it succeeds when  *)
(* the daemon got the FILE and fails with Dispatch's return value         *)
(* otherwise.  The kernel path ends at Dispatch's Kernel step; it is       *)
(* NetlinkSet.                                                             *)
(***************************************************************************)
EXTENDS WgNetlink

CONSTANTS MaxInode, Requests, InitConfigs, DaemonErrors, StaleErrnos

VARIABLES
  dpc, file, daemon, inodes, kernelIf, errno, dret, served,  \* Dispatch
  stale0, live0, changed,
  dev, upc, wire, answer, dcfg, dcfg0, uret                  \* UapiSet

dVars == <<dpc, file, daemon, inodes, kernelIf, errno, dret, served, stale0, live0, changed>>
uVars == <<dev, upc, wire, answer, dcfg, dcfg0, uret>>
vars == <<dVars, uVars>>

D == INSTANCE Dispatch WITH pc <- dpc, ret <- dret
U == INSTANCE UapiSet WITH pc <- upc, daemon <- dcfg, daemon0 <- dcfg0, ret <- uret,
       OpenErrors <- {D!ENOENT, D!EMFILE, D!ECONNREFUSED}

Init == D!Init /\ U!Init

Dispatching == (D!Client \/ D!Environment) /\ UNCHANGED uVars

\* `if (userspace_has_wireguard_interface(dev->name)) return
\* userspace_set_device(dev);` (ipc.c 1236-1237): the FILE, or the error
\* of userspace_interface_file, is what userspace_set_device starts from.
UserspacePath == served = "daemon" \/ (served = "none" /\ dret # -D!ENODEV)

Handoff ==
  /\ dpc = "done" /\ UserspacePath
  /\ U!Open
  /\ (upc' = "write") = (served = "daemon")
  /\ upc' = "done" => uret' = dret
  /\ UNCHANGED dVars

Exchange == (U!Write \/ U!DaemonServe \/ U!ReadReply) /\ UNCHANGED dVars

Next == Dispatching \/ Handoff \/ Exchange

Spec == Init /\ [][Next]_vars

-----------------------------------------------------------------------------

TypeOK == D!TypeOK /\ U!TypeOK

(* The properties of Dispatch and UapiSet, over the whole call.           *)
(* A stale socket file does not capture the request (Dispatch).            *)
StaleSocketFallsBack == D!StaleSocketFallsBack

(* A daemon listening throughout the dispatch gets the request (Dispatch). *)
LiveDaemonServes == D!LiveDaemonServes

(* A set reported successful left the daemon in the state one netlink    *)
(* message of the same request gives the kernel (UapiSet).                 *)
SuccessAppliesWholeRequest == U!SuccessAppliesWholeRequest

(* Only the daemon's errno=0 reads as success (UapiSet).                   *)
SuccessOnlyOnZeroReply == U!SuccessOnlyOnZeroReply

(* ipc_set_device reports every failure as a negative errno (UapiSet).    *)
ErrorsAreNegative == U!ErrorsAreNegative
====
