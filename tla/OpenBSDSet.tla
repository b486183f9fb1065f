----------------------------- MODULE OpenBSDSet -----------------------------
(***************************************************************************)
(* kernel_set_device on OpenBSD (src/src/ipc.c 1090-1190): the request is  *)
(* sized, copied into one struct wg_data_io and handed to the driver with  *)
(* a single SIOCSWG ioctl.  The driver applies it, or fails part way       *)
(* having applied a prefix.                                                *)
(***************************************************************************)
EXTENDS WgIoctl

CONSTANTS
  Requests,     \* the struct wgdevice values a caller may pass
  InitConfigs,  \* interface states before the call
  Errors        \* errno values of socket, calloc and ioctl failures

VARIABLES
  dev,      \* the request
  pc,       \* "prepare", "ioctl", "done"
  size,     \* wgdata.wgd_size, in items
  buf,      \* the items written to wgdata.wgd_interface
  kernel,   \* the interface state in the driver
  kernel0,  \* history: the interface state before the call
  ret

vars == <<dev, pc, size, buf, kernel, kernel0, ret>>

\* Mutant: the allowed ips are not counted.
IoSizePeersOnly(d) == 1 + Len(d.peers)

\* wgd_size: the interface, each peer and each of its allowed ips
\* (ipc.c 1092, 1104-1108).
IoSize(d) == 1 + Len(d.peers)
               + FoldLeft(LAMBDA acc, p : acc + Len(p.allowedips), 0, d.peers)

\* Mutant: `if (peer->flags & WGPEER_REPLACE_ALLOWEDIPS)` dropped.
PeerIoFlagsNoReplace(p) ==
  {"HAS_PUBLIC"} \cup {"HAS_PSK" : x \in p.flags \cap {"HAS_PRESHARED_KEY"}}
  \cup {"HAS_PKA" : x \in p.flags \cap {"HAS_PERSISTENT_KEEPALIVE_INTERVAL"}}
  \cup {"HAS_ENDPOINT" : x \in {p.endpoint} \cap {"AF_INET", "AF_INET6"}}
  \cup {"REMOVE" : x \in p.flags \cap {"REMOVE_ME"}}

\* p_flags (ipc.c 1135-1158); sa_len always fits p_endpoint.
PeerIoFlags(p) ==
  {"HAS_PUBLIC"} \cup {"HAS_PSK" : x \in p.flags \cap {"HAS_PRESHARED_KEY"}}
  \cup {"HAS_PKA" : x \in p.flags \cap {"HAS_PERSISTENT_KEEPALIVE_INTERVAL"}}
  \cup {"HAS_ENDPOINT" : x \in {p.endpoint} \cap {"AF_INET", "AF_INET6"}}
  \cup {"REPLACE_AIPS" : x \in p.flags \cap {"REPLACE_ALLOWEDIPS"}}
  \cup {"REMOVE" : x \in p.flags \cap {"REMOVE_ME"}}

\* The interface flags (ipc.c 1114-1130).
IfaceIoFlags(d) ==
  {"HAS_PRIVATE" : x \in d.flags \cap {"HAS_PRIVATE_KEY"}}
  \cup {"HAS_PORT" : x \in d.flags \cap {"HAS_LISTEN_PORT"}}
  \cup {"HAS_RTABLE" : x \in d.flags \cap {"HAS_FWMARK"}}
  \cup {"REPLACE_PEERS" : x \in d.flags \cap {"REPLACE_PEERS"}}

\* The items the fill loops write (ipc.c 1112-1180).  Every allowed ip of
\* the model is AF_INET or AF_INET6, so the `continue` of 1170-1172 is
\* never taken and aip_count is the peer's number of allowed ips.
Fill(d) ==
  <<IfaceIo(IfaceIoFlags(d), Len(d.peers))>>
  \o FlattenSeq([i \in DOMAIN d.peers |->
       <<PeerIo(d.peers[i].key, PeerIoFlags(d.peers[i]), Len(d.peers[i].allowedips))>>
       \o [n \in DOMAIN d.peers[i].allowedips |-> AipIo(d.peers[i].allowedips[n])]])

\* Mutant: errno returned with its sign.
FailedPositive(e) == e

\* `out: ret = -errno` (ipc.c 1186-1187).
Failed(e) == -e

Init ==
  /\ dev \in Requests
  /\ kernel \in InitConfigs
  /\ kernel0 = kernel
  /\ pc = "prepare"
  /\ size = 0
  /\ buf = <<>>
  /\ ret = 0

\* get_dgram_socket, sizing, calloc and filling (ipc.c 1098-1180); a
\* failed socket or calloc returns -errno with nothing allocated.
Prepare ==
  /\ pc = "prepare"
  /\ \/ \E e \in Errors : pc' = "done" /\ ret' = Failed(e) /\ UNCHANGED <<size, buf>>
     \/ /\ size' = IoSize(dev)
        /\ \/ \E e \in Errors : pc' = "done" /\ ret' = Failed(e) /\ UNCHANGED buf
           \/ pc' = "ioctl" /\ buf' = Fill(dev) /\ UNCHANGED ret
  /\ UNCHANGED <<dev, kernel, kernel0>>

\* ioctl(s, SIOCSWG) and the free at `out:` (ipc.c 1182-1189).
Ioctl ==
  /\ pc = "ioctl"
  /\ pc' = "done"
  /\ \/ kernel' = ApplyMessage(kernel, KernelRead(buf)) /\ ret' = 0
     \/ \E e \in Errors, m \in MessagePrefixes(KernelRead(buf)) :
          kernel' = ApplyMessage(kernel, m) /\ ret' = Failed(e)
  /\ UNCHANGED <<dev, size, buf, kernel0>>

Next == Prepare \/ Ioctl

Spec == Init /\ [][Next]_vars

-----------------------------------------------------------------------------

TypeOK ==
  /\ pc \in {"prepare", "ioctl", "done"}
  /\ size \in Nat
  /\ kernel \in KernelConfigs
  /\ ret \in {0} \cup {-e : e \in Errors}

(* The fill loops never write past the wgd_size bytes calloc returned,    *)
(* whatever the number of peers and of allowed ips per peer.               *)
WriteInBounds == Len(buf) <= size

(* One SIOCSWG implements the abstract SetDevice: when kernel_set_device  *)
(* returns, the driver holds the state one netlink message with the whole *)
(* request gives (success), or that of a prefix of it (error).            *)
Abstract == INSTANCE SetDevice
              WITH cfg <- IF pc = "done" THEN kernel ELSE kernel0,
                   result <- IF pc # "done" THEN "pending"
                             ELSE IF ret = 0 THEN "ok" ELSE "err"
Refinement == Abstract!Spec
=============================================================================
