------------------------------ MODULE WgIoctl ------------------------------
(***************************************************************************)
(* The OpenBSD driver's struct wg_data_io (net/if_wg.h), as the OpenBSD    *)
(* branch of src/src/ipc.c fills and reads it: one struct wg_interface_io, *)
(* then for each of its i_peers_count peers a struct wg_peer_io followed   *)
(* back to back by its p_aips_count struct wg_aip_io.  The buffer is a     *)
(* sequence of items, one per struct; sizes are counted in items.  All     *)
(* items have the same fields so that any item can be read as any kind.    *)
(*                                                                         *)
(* KernelFill (SIOCGWG) and KernelRead (SIOCSWG) are the environment: the  *)
(* driver, not code of this repository.  They use the apply semantics of  *)
(* WgNetlink, which the OpenBSD driver shares.                             *)
(***************************************************************************)
EXTENDS WgNetlink

NoKey == "none"
NoIP  == "none"

Item(kind, key, flags, count, ip) ==
  [kind |-> kind, key |-> key, flags |-> flags, count |-> count, ip |-> ip]

IfaceIo(flags, count)     == Item("iface", NoKey, flags, count, NoIP)
PeerIo(key, flags, count) == Item("peer", key, flags, count, NoIP)
AipIo(ip)                 == Item("aip", NoKey, {}, 0, ip)

\* WG_INTERFACE_* and WG_PEER_* bits against the interface state's attributes.
IfaceBit == [WGDEVICE_A_PRIVATE_KEY |-> "HAS_PRIVATE", WGDEVICE_A_LISTEN_PORT |-> "HAS_PORT",
             WGDEVICE_A_FWMARK |-> "HAS_RTABLE", WGDEVICE_F_REPLACE_PEERS |-> "REPLACE_PEERS"]
PeerBit  == [WGPEER_A_PRESHARED_KEY |-> "HAS_PSK", WGPEER_A_ENDPOINT |-> "HAS_ENDPOINT",
             WGPEER_A_PERSISTENT_KEEPALIVE_INTERVAL |-> "HAS_PKA",
             WGPEER_F_REMOVE_ME |-> "REMOVE", WGPEER_F_REPLACE_ALLOWEDIPS |-> "REPLACE_AIPS"]

OnPeers(c) == SetToSeq({k \in Keys : c.peers[k].on})

\* The number of items SIOCGWG needs for interface state c.
IoLen(c) == 1 + Len(OnPeers(c))
              + FoldLeft(LAMBDA acc, k : acc + Cardinality(c.peers[k].allowedips), 0, OnPeers(c))

\* SIOCGWG with a large enough buffer: the driver's copy of state c.
KernelFill(c) ==
  LET peerIos(k) == <<PeerIo(k, {PeerBit[a] : a \in c.peers[k].attrs} \cup {"HAS_PUBLIC"},
                             Cardinality(c.peers[k].allowedips))>>
                    \o [n \in 1..Cardinality(c.peers[k].allowedips) |->
                          AipIo(SetToSeq(c.peers[k].allowedips)[n])]
  IN <<IfaceIo({IfaceBit[a] : a \in c.dev}, Len(OnPeers(c)))>>
     \o FlattenSeq([n \in DOMAIN OnPeers(c) |-> peerIos(OnPeers(c)[n])])

\* The peers of state c as a reader of that copy sees them, in order.
KernelPeers(c) == [n \in DOMAIN OnPeers(c) |->
                     [key |-> OnPeers(c)[n], attrs |-> c.peers[OnPeers(c)[n]].attrs,
                      allowedips |-> SetToSeq(c.peers[OnPeers(c)[n]].allowedips)]]

\* SIOCSWG: the driver walks the buffer by the counts and sees a message.
RECURSIVE ReadPeers(_, _, _)
ReadPeers(buf, at, n) ==
  IF n = 0 \/ at > Len(buf) THEN <<>>
  ELSE LET p == buf[at]
       IN <<[key |-> p.key,
             attrs |-> {a \in PeerAttrs : PeerBit[a] \in p.flags},
             flags |-> {a \in PeerWireFlags : PeerBit[a] \in p.flags},
             allowedips |-> [m \in 1..p.count |-> buf[at + m].ip]]>>
          \o ReadPeers(buf, at + 1 + p.count, n - 1)

KernelRead(buf) ==
  [dev |-> {a \in DeviceAttrs : IfaceBit[a] \in buf[1].flags},
   peers |-> ReadPeers(buf, 2, buf[1].count)]
=============================================================================
