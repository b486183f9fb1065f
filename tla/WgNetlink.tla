----------------------------- MODULE WgNetlink -----------------------------
(***************************************************************************)
(* The WireGuard generic-netlink WG_CMD_SET_DEVICE message as              *)
(* kernel_set_device (src/src/ipc.c) fills it from a struct wgdevice, and  *)
(* the way the kernel driver applies such a message to an interface.       *)
(*                                                                         *)
(* Data is abstracted to what the chunking and apply semantics tell apart: *)
(* keys and allowed IPs are model values, key material, ports and marks    *)
(* are only "present" or not.  The kernel part (ApplyFragment,             *)
(* ApplyMessage, MessagePrefixes) is the environment: it is not code of    *)
(* this repository but the driver's documented netlink semantics.         *)
(***************************************************************************)
EXTENDS Integers, Sequences, SequencesExt, FiniteSets

CONSTANTS
  Keys,     \* peer public keys
  IPs,      \* allowed-ip ranges (address/cidr), one model value each
  Family    \* Family[a] is "AF_INET" or "AF_INET6" for every a \in IPs

ASSUME Family \in [IPs -> {"AF_INET", "AF_INET6"}]

-----------------------------------------------------------------------------
(* The caller's request: struct wgdevice, struct wgpeer, their flags.      *)

DeviceFlags == {"HAS_PRIVATE_KEY", "HAS_LISTEN_PORT", "HAS_FWMARK", "REPLACE_PEERS"}
PeerFlags   == {"REMOVE_ME", "REPLACE_ALLOWEDIPS", "HAS_PRESHARED_KEY",
                "HAS_PERSISTENT_KEEPALIVE_INTERVAL"}
Endpoints   == {"AF_UNSPEC", "AF_INET", "AF_INET6"}

IsPeer(p) ==
  /\ p.key \in Keys
  /\ p.flags \subseteq PeerFlags
  /\ p.endpoint \in Endpoints
  /\ p.allowedips \in Seq(IPs)

IsDevice(d) ==
  /\ d.flags \subseteq DeviceFlags
  /\ d.peers \in Seq([key : Keys, flags : SUBSET PeerFlags,
                      endpoint : Endpoints, allowedips : Seq(IPs)])

-----------------------------------------------------------------------------
(* The wire: a message carries device attributes and a list of peer        *)
(* fragments; a fragment is one WGPEER nest with its attributes, its       *)
(* WGPEER_A_FLAGS bits and the allowed IPs of its WGPEER_A_ALLOWEDIPS nest. *)

DeviceAttrs == {"WGDEVICE_A_PRIVATE_KEY", "WGDEVICE_A_LISTEN_PORT",
                "WGDEVICE_A_FWMARK", "WGDEVICE_F_REPLACE_PEERS"}
PeerAttrs   == {"WGPEER_A_PRESHARED_KEY", "WGPEER_A_ENDPOINT",
                "WGPEER_A_PERSISTENT_KEEPALIVE_INTERVAL"}
PeerWireFlags == {"WGPEER_F_REMOVE_ME", "WGPEER_F_REPLACE_ALLOWEDIPS"}

IsFragment(f) ==
  /\ f.key \in Keys
  /\ f.attrs \subseteq PeerAttrs
  /\ f.flags \subseteq PeerWireFlags
  /\ f.allowedips \in Seq(IPs)

IsMessage(m) ==
  /\ m.dev \subseteq DeviceAttrs
  /\ \A i \in DOMAIN m.peers : IsFragment(m.peers[i])

\* The device attributes of the first message (ipc.c 565-578).
DeviceAttrsOf(d) ==
  { "WGDEVICE_A_PRIVATE_KEY" : x \in d.flags \cap {"HAS_PRIVATE_KEY"} }
  \cup { "WGDEVICE_A_LISTEN_PORT" : x \in d.flags \cap {"HAS_LISTEN_PORT"} }
  \cup { "WGDEVICE_A_FWMARK" : x \in d.flags \cap {"HAS_FWMARK"} }
  \cup { "WGDEVICE_F_REPLACE_PEERS" : x \in d.flags \cap {"REPLACE_PEERS"} }

\* Mutant: REPLACE_ALLOWEDIPS on every fragment of the peer (no `if (!allowedip)`).
PeerFlagsOfEveryFragment(p, resuming) ==
  { "WGPEER_F_REMOVE_ME" : x \in p.flags \cap {"REMOVE_ME"} }
  \cup { "WGPEER_F_REPLACE_ALLOWEDIPS" : x \in p.flags \cap {"REPLACE_ALLOWEDIPS"} }

\* The WGPEER_A_FLAGS bits of a fragment; REPLACE_ALLOWEDIPS only on the
\* fragment that opens the peer, i.e. when no allowed ip is being resumed
\* (ipc.c 584-595).
PeerFlagsOf(p, resuming) ==
  { "WGPEER_F_REMOVE_ME" : x \in p.flags \cap {"REMOVE_ME"} }
  \cup IF resuming THEN {}
       ELSE { "WGPEER_F_REPLACE_ALLOWEDIPS" : x \in p.flags \cap {"REPLACE_ALLOWEDIPS"} }

\* The peer attributes sent on the opening fragment of a peer (ipc.c 596-610).
PeerAttrsOf(p) ==
  { "WGPEER_A_PRESHARED_KEY" : x \in p.flags \cap {"HAS_PRESHARED_KEY"} }
  \cup { "WGPEER_A_ENDPOINT" : x \in {p.endpoint} \cap {"AF_INET", "AF_INET6"} }
  \cup { "WGPEER_A_PERSISTENT_KEEPALIVE_INTERVAL" :
           x \in p.flags \cap {"HAS_PERSISTENT_KEEPALIVE_INTERVAL"} }

\* The whole request as one message of unbounded size: what one
\* set-device call means when no buffer limit forces a split.
WholeRequest(d) ==
  [dev   |-> DeviceAttrsOf(d),
   peers |-> [i \in DOMAIN d.peers |->
                [key |-> d.peers[i].key, attrs |-> PeerAttrsOf(d.peers[i]),
                 flags |-> PeerFlagsOf(d.peers[i], FALSE),
                 allowedips |-> d.peers[i].allowedips]]]

-----------------------------------------------------------------------------
(* Environment: the kernel driver's interface state and how it applies a  *)
(* message: device attributes, then REPLACE_PEERS, then each peer nest in  *)
(* order (remove, or create/update then REPLACE_ALLOWEDIPS then add ips).  *)

PeerState  == [on : BOOLEAN, attrs : SUBSET PeerAttrs, allowedips : SUBSET IPs]
NoPeer     == [on |-> FALSE, attrs |-> {}, allowedips |-> {}]
KernelConfigs == [dev : SUBSET (DeviceAttrs \ {"WGDEVICE_F_REPLACE_PEERS"}),
                  peers : [Keys -> PeerState]]

ApplyFragment(cfg, f) ==
  LET old == IF cfg.peers[f.key].on THEN cfg.peers[f.key]
             ELSE [NoPeer EXCEPT !.on = TRUE]
      kept == IF "WGPEER_F_REPLACE_ALLOWEDIPS" \in f.flags THEN {} ELSE old.allowedips
  IN [cfg EXCEPT !.peers[f.key] =
        IF "WGPEER_F_REMOVE_ME" \in f.flags THEN NoPeer
        ELSE [on |-> TRUE, attrs |-> old.attrs \cup f.attrs,
              allowedips |-> kept \cup ToSet(f.allowedips)]]

ApplyMessage(cfg, m) ==
  LET base == [dev   |-> cfg.dev \cup (m.dev \ {"WGDEVICE_F_REPLACE_PEERS"}),
               peers |-> IF "WGDEVICE_F_REPLACE_PEERS" \in m.dev
                         THEN [k \in Keys |-> NoPeer] ELSE cfg.peers]
  IN FoldLeft(ApplyFragment, base, m.peers)

\* The parts of a message the kernel may have applied when it fails part
\* way: nothing, whole peers up to some point, or a peer's header and the
\* first n of its allowed ips.
MessagePrefixes(m) ==
  {[dev |-> {}, peers |-> <<>>]}
  \cup {[m EXCEPT !.peers = SubSeq(m.peers, 1, j)] : j \in 0..Len(m.peers)}
  \cup UNION {{[m EXCEPT !.peers =
                  Append(SubSeq(m.peers, 1, j),
                         [m.peers[j + 1] EXCEPT !.allowedips = SubSeq(@, 1, n)])]
                : n \in 0..Len(m.peers[j + 1].allowedips)}
              : j \in 0..(Len(m.peers) - 1)}
=============================================================================
