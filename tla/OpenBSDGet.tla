----------------------------- MODULE OpenBSDGet -----------------------------
(***************************************************************************)
(* kernel_get_device on OpenBSD (src/src/ipc.c 970-1088).  SIOCGWG reports *)
(* the size it needs when the buffer is too small and copies the interface *)
(* otherwise; the client grows its buffer until a copy arrives (986-994),  *)
(* then builds a struct wgdevice from the copy, one calloc per peer and    *)
(* per allowed ip (997-1081).  Another process may change the interface    *)
(* between two ioctls (ConfigChange, at most MaxChanges times).            *)
(*                                                                         *)
(* `heap` counts the blocks allocated and not freed: the ioctl buffer, the *)
(* device, its peers and allowed ips.                                      *)
(***************************************************************************)
EXTENDS WgIoctl

CONSTANTS
  InitConfigs,      \* interface states before the call
  ChangeFragments,  \* peer updates another process may apply
  MaxChanges,       \* bound on the number of such updates
  Errors            \* errno values of socket and ioctl failures

ENOMEM == 12

VARIABLES
  cfg,      \* the interface state in the driver
  changes,  \* changes made so far
  pc,       \* "socket", "ioctl", "grow", "dev", "peer", "aip", "done"
  size,     \* wgdata.wgd_size, in items
  last,     \* last_size
  bufLen,   \* items allocated at wgdata.wgd_interface, 0 for NULL
  buf,      \* the copy SIOCGWG wrote there
  copied,   \* history: the interface state that copy was made of
  ptr,      \* wg_peer / wg_aip: index of the next item to read
  at,       \* index of the current peer's item
  i, j,     \* loop counters over peers and over the current peer's ips
  peers,    \* the struct wgpeer list built: [key, attrs, allowedips]
  heap,
  ret

vars == <<cfg, changes, pc, size, last, bufLen, buf, copied, ptr, at, i, j, peers, heap, ret>>

\* `out:` ret = -errno and free(wgdata.wgd_interface) (ipc.c 1084-1087);
\* the device and everything linked to it are not freed.
Out(code, h, bl) ==
  /\ pc' = "done" /\ ret' = code
  /\ heap' = h - (IF bl > 0 THEN 1 ELSE 0)

Init ==
  /\ cfg \in InitConfigs
  /\ changes = 0
  /\ pc = "socket"
  /\ size = 0 /\ last = 0 /\ bufLen = 0 /\ buf = <<>> /\ copied = cfg
  /\ ptr = 0 /\ at = 0 /\ i = 0 /\ j = 0
  /\ peers = <<>>
  /\ heap = 0
  /\ ret = 0

\* get_dgram_socket (ipc.c 979-982).
Socket ==
  /\ pc = "socket"
  /\ \/ pc' = "ioctl" /\ UNCHANGED ret
     \/ \E e \in Errors : pc' = "done" /\ ret' = -e
  /\ UNCHANGED <<cfg, changes, size, last, bufLen, buf, copied, ptr, at, i, j, peers, heap>>

\* Mutant: the loop stops only when the size shrank.
FitsStrict(l, s) == l > s

\* `if (last_size >= wgdata.wgd_size) break;` (ipc.c 989-990).
Fits(l, s) == l >= s

\* ioctl(s, SIOCGWG): a failure goes to out; otherwise the driver sets
\* wgd_size to what it needs, copying only when that fits (ipc.c 987-990).
Ioctl ==
  /\ pc = "ioctl"
  /\ \/ \E e \in Errors : Out(-e, heap, bufLen) /\ UNCHANGED <<size, buf, copied>>
     \/ /\ size' = IoLen(cfg)
        /\ IF size >= IoLen(cfg) THEN buf' = KernelFill(cfg) /\ copied' = cfg
           ELSE UNCHANGED <<buf, copied>>
        /\ pc' = IF Fits(last, IoLen(cfg)) THEN "dev" ELSE "grow"
        /\ UNCHANGED <<heap, ret>>
  /\ UNCHANGED <<cfg, changes, last, bufLen, ptr, at, i, j, peers>>

\* Mutant: a failed realloc frees the old buffer, which out frees again.
GrowFreesOld ==
  /\ pc = "grow"
  /\ \/ Out(-ENOMEM, heap - 1, bufLen) /\ UNCHANGED <<bufLen, last>>
     \/ /\ bufLen' = size /\ last' = size /\ pc' = "ioctl"
        /\ heap' = heap + (IF bufLen = 0 THEN 1 ELSE 0)
        /\ UNCHANGED ret
  /\ UNCHANGED <<cfg, changes, size, buf, copied, ptr, at, i, j, peers>>

\* realloc into wgdata.wgd_interface itself (ipc.c 991-993, 986): on
\* failure the old buffer is lost and out frees NULL.
Grow ==
  /\ pc = "grow"
  /\ \/ Out(-ENOMEM, heap, 0) /\ bufLen' = 0 /\ UNCHANGED last
     \/ /\ bufLen' = size /\ last' = size /\ pc' = "ioctl"
        /\ heap' = heap + (IF bufLen = 0 THEN 1 ELSE 0)
        /\ UNCHANGED ret
  /\ UNCHANGED <<cfg, changes, size, buf, copied, ptr, at, i, j, peers>>

\* calloc of the device and the interface fields (ipc.c 996-1022).
Dev ==
  /\ pc = "dev"
  /\ \/ Out(-ENOMEM, heap, bufLen) /\ UNCHANGED <<ptr, i>>
     \/ pc' = "peer" /\ heap' = heap + 1 /\ ptr' = 2 /\ i' = 0 /\ UNCHANGED ret
  /\ UNCHANGED <<cfg, changes, size, last, bufLen, buf, copied, at, j, peers>>

\* One turn of the peer loop, or its end: *device = dev, errno = 0
\* (ipc.c 1023-1058, 1082-1087).
Peer ==
  /\ pc = "peer"
  /\ IF i >= buf[1].count
     THEN Out(0, heap, bufLen) /\ UNCHANGED <<ptr, at, j, peers>>
     ELSE \/ Out(-ENOMEM, heap, bufLen) /\ UNCHANGED <<ptr, at, j, peers>>
          \/ /\ peers' = Append(peers, [key |-> buf[ptr].key, allowedips |-> <<>>,
                                        attrs |-> {a \in PeerAttrs : PeerBit[a] \in buf[ptr].flags}])
             /\ heap' = heap + 1 /\ at' = ptr /\ ptr' = ptr + 1 /\ j' = 0
             /\ pc' = "aip" /\ UNCHANGED ret
  /\ UNCHANGED <<cfg, changes, size, last, bufLen, buf, copied, i>>

\* Mutant: `++wg_peer`, stepping over one struct wg_peer_io only.
NextPeerSkipOne(after, p) == p + 1

\* `wg_peer = (struct wg_peer_io *)wg_aip;` (ipc.c 1080).
NextPeer(after, p) == after

\* One turn of the allowed-ip loop, or its end (ipc.c 1059-1081).
Aip ==
  /\ pc = "aip"
  /\ IF j >= buf[at].count
     THEN pc' = "peer" /\ i' = i + 1 /\ ptr' = NextPeer(ptr, at) /\ UNCHANGED <<heap, ret, j, peers>>
     ELSE \/ Out(-ENOMEM, heap, bufLen) /\ UNCHANGED <<ptr, j, peers, i>>
          \/ /\ peers' = [peers EXCEPT ![Len(peers)].allowedips = Append(@, buf[ptr].ip)]
             /\ heap' = heap + 1 /\ ptr' = ptr + 1 /\ j' = j + 1
             /\ UNCHANGED <<pc, ret, i>>
  /\ UNCHANGED <<cfg, changes, size, last, bufLen, buf, copied, at>>

\* Another process changes the interface.
ConfigChange ==
  /\ changes < MaxChanges
  /\ \E f \in ChangeFragments : cfg' = ApplyFragment(cfg, f)
  /\ changes' = changes + 1
  /\ UNCHANGED <<pc, size, last, bufLen, buf, copied, ptr, at, i, j, peers, heap, ret>>

Client == Socket \/ Ioctl \/ Grow \/ Dev \/ Peer \/ Aip

Next == Client \/ ConfigChange

\* The client runs; the other process need not.
Spec == Init /\ [][Next]_vars /\ WF_vars(Client)

-----------------------------------------------------------------------------

TypeOK ==
  /\ pc \in {"socket", "ioctl", "grow", "dev", "peer", "aip", "done"}
  /\ heap \in Nat
  /\ bufLen \in Nat /\ size \in Nat /\ last \in Nat
  /\ cfg \in KernelConfigs

(* A successful call returns the interface exactly as it was at one        *)
(* SIOCGWG: every peer with its attributes and its allowed ips, in the     *)
(* driver's order, however the interface grew or shrank between ioctls.   *)
ReturnsCopy == (pc = "done" /\ ret = 0) => peers = KernelPeers(copied)

(* Every call returns, once other processes stop changing the interface:  *)
(* the grow loop ends when a copy fits.                                    *)
Termination == <>(pc = "done")

(* Every exit returns the device with everything reachable from it, or    *)
(* frees all it allocated.                                                 *)
NoLeak ==
  pc = "done" =>
    heap = IF ret = 0
           THEN 1 + Len(peers) + FoldLeft(LAMBDA acc, p : acc + Len(p.allowedips), 0, peers)
           ELSE 0
=============================================================================
