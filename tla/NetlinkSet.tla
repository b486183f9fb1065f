---------------------------- MODULE NetlinkSet ----------------------------
(***************************************************************************)
(* kernel_set_device (src/src/ipc.c 548-680): the Linux client that sends  *)
(* a struct wgdevice to the kernel as WG_CMD_SET_DEVICE messages over      *)
(* generic netlink.  A message has a fixed buffer (SOCKET_BUFFER_SIZE);    *)
(* when the next peer or allowed ip does not fit, the in-progress nest is  *)
(* rolled back, the message is sent, and a fresh message resumes at the    *)
(* peer (and allowed ip) that did not fit, without the device attributes   *)
(* and without the peer's opening-only attributes.  The kernel applies     *)
(* each message as it arrives and acknowledges it.                         *)
(*                                                                         *)
(* Lengths are netlink attribute lengths in 4-byte units (NLA_ALIGNTO).    *)
(***************************************************************************)
EXTENDS WgNetlink

CONSTANTS
  Requests,     \* the struct wgdevice values a caller may pass
  InitConfigs,  \* kernel interface states before the call
  Capacities,   \* SOCKET_BUFFER_SIZE values, in 4-byte units
  MaxMessages   \* bound on messages per call; Termination shows it is never hit

VARIABLES
  dev,        \* the request
  cap,        \* SOCKET_BUFFER_SIZE of this run
  peer,       \* cursor: index of the peer to resume at, 0 for NULL
  allowedip,  \* cursor: index of the allowed ip to resume at, 0 for NULL
  pc,         \* "open", "build", "wait" (for the ack), "done"
  msg,        \* the message in flight to the kernel: <<>> or <<m>>
  reply,      \* the kernel's answer to it: "none", "ack", "error"
  ret,        \* the return value: "none", "ok", "err"
  kernel,     \* the interface state in the kernel
  kernel0,    \* history: the interface state before the call
  sent        \* history: the messages the kernel received, in order

vars == <<dev, cap, peer, allowedip, pc, msg, reply, ret, kernel, kernel0, sent>>

-----------------------------------------------------------------------------
(* Attribute lengths, header included, in 4-byte units.                   *)

\* nlmsghdr (16) + genlmsghdr (4) + WGDEVICE_A_IFNAME of a short name (8)
HeaderLen == 7
NestLen   == 1
KeyLen    == 9   \* WG_KEY_LEN (32) + header
IntLen    == 2   \* u8, u16 and u32 attributes

DeviceAttrLen ==
  [WGDEVICE_A_PRIVATE_KEY |-> KeyLen, WGDEVICE_A_LISTEN_PORT |-> IntLen,
   WGDEVICE_A_FWMARK |-> IntLen, WGDEVICE_F_REPLACE_PEERS |-> IntLen]

EndpointLen == [AF_UNSPEC |-> 0, AF_INET |-> 5, AF_INET6 |-> 8]

\* The opening attributes of a peer: preshared key, endpoint, keepalive.
PeerAttrsLen(p) ==
  (IF "HAS_PRESHARED_KEY" \in p.flags THEN KeyLen ELSE 0)
  + EndpointLen[p.endpoint]
  + (IF "HAS_PERSISTENT_KEEPALIVE_INTERVAL" \in p.flags THEN IntLen ELSE 0)

\* Peer nest, public key, opening attributes unless resuming, flags if any.
PeerHeaderLen(p, resuming) ==
  NestLen + KeyLen
  + (IF resuming THEN 0 ELSE PeerAttrsLen(p))
  + (IF PeerFlagsOf(p, resuming) # {} THEN IntLen ELSE 0)

\* Allowed-ip nest, family, address, cidr.
AllowedIpLen(a) ==
  NestLen + IntLen + (IF Family[a] = "AF_INET" THEN 2 ELSE 5) + IntLen

-----------------------------------------------------------------------------
(* Filling one message (ipc.c 561-662).                                    *)

\* How many allowed ips of aips, from index i on, still fit after used.
RECURSIVE FitAllowedIps(_, _, _)
FitAllowedIps(aips, i, used) ==
  IF i > Len(aips) \/ used + AllowedIpLen(aips[i]) > cap THEN 0
  ELSE 1 + FitAllowedIps(aips, i + 1, used + AllowedIpLen(aips[i]))

AllowedIpsLen(aips) == FoldLeft(LAMBDA acc, a : acc + AllowedIpLen(a), 0, aips)

\* Mutant: the end of the peer list leaves the cursor past the last peer
\* instead of NULL.
RECURSIVE FillPeersNoReset(_, _, _, _)
FillPeersNoReset(i, ai, used, frags) ==
  IF i > Len(dev.peers) THEN [frags |-> frags, peer |-> i, allowedip |-> 0]
  ELSE
  LET p      == dev.peers[i]
      hdr    == used + PeerHeaderLen(p, ai # 0)
      frag   == [key |-> p.key, attrs |-> IF ai # 0 THEN {} ELSE PeerAttrsOf(p),
                 flags |-> PeerFlagsOf(p, ai # 0), allowedips |-> <<>>]
      from   == IF ai # 0 THEN ai ELSE 1
      n      == FitAllowedIps(p.allowedips, from, hdr + NestLen)
      part   == SubSeq(p.allowedips, from, from + n - 1)
      filled == [frag EXCEPT !.allowedips = part]
  IN CASE hdr > cap -> [frags |-> frags, peer |-> i, allowedip |-> ai]
       [] p.allowedips = <<>> -> FillPeersNoReset(i + 1, 0, hdr, Append(frags, frag))
       [] hdr + NestLen > cap -> [frags |-> Append(frags, frag), peer |-> i, allowedip |-> from]
       [] from + n <= Len(p.allowedips)
            -> [frags |-> Append(frags, filled), peer |-> i, allowedip |-> from + n]
       [] OTHER -> FillPeersNoReset(i + 1, 0, hdr + NestLen + AllowedIpsLen(part),
                                    Append(frags, filled))

\* Appends peers from index i (resuming its allowed ip ai, 0 for none) to
\* frags while they fit; returns the fragments and where the next message
\* resumes (peer 0 when every peer has gone).
RECURSIVE FillPeers(_, _, _, _)
FillPeers(i, ai, used, frags) ==
  IF i > Len(dev.peers) THEN [frags |-> frags, peer |-> 0, allowedip |-> 0]
  ELSE
  LET p      == dev.peers[i]
      hdr    == used + PeerHeaderLen(p, ai # 0)
      frag   == [key |-> p.key, attrs |-> IF ai # 0 THEN {} ELSE PeerAttrsOf(p),
                 flags |-> PeerFlagsOf(p, ai # 0), allowedips |-> <<>>]
      from   == IF ai # 0 THEN ai ELSE 1
      n      == FitAllowedIps(p.allowedips, from, hdr + NestLen)
      part   == SubSeq(p.allowedips, from, from + n - 1)
      filled == [frag EXCEPT !.allowedips = part]
  IN CASE hdr > cap                  \* toobig_peers: cancel the peer nest
            -> [frags |-> frags, peer |-> i, allowedip |-> ai]
       [] p.allowedips = <<>>
            -> FillPeers(i + 1, 0, hdr, Append(frags, frag))
       [] hdr + NestLen > cap        \* toobig_allowedips, no allowedips nest
            -> [frags |-> Append(frags, frag), peer |-> i, allowedip |-> from]
       [] from + n <= Len(p.allowedips)   \* toobig_allowedips
            -> [frags |-> Append(frags, filled), peer |-> i, allowedip |-> from + n]
       [] OTHER
            -> FillPeers(i + 1, 0, hdr + NestLen + AllowedIpsLen(part),
                         Append(frags, filled))

\* Mutant: device attributes on every message (no `if (!peer)`).
BuildMessageDevAlways ==
  LET first == peer = 0
      used  == HeaderLen
               + MapThenSumSet(LAMBDA x : DeviceAttrLen[x], DeviceAttrsOf(dev))
               + (IF dev.peers # <<>> THEN NestLen ELSE 0)
      r     == IF dev.peers = <<>> THEN [frags |-> <<>>, peer |-> 0, allowedip |-> 0]
               ELSE FillPeers(IF first THEN 1 ELSE peer, allowedip, used, <<>>)
  IN [msg |-> [dev |-> DeviceAttrsOf(dev), peers |-> r.frags],
      peer |-> r.peer, allowedip |-> r.allowedip]

\* The message the code sends from the current cursor, and the new cursor.
\* Device attributes only while peer is NULL, i.e. on the first message.
BuildMessage ==
  LET first == peer = 0
      used  == HeaderLen
               + (IF first THEN MapThenSumSet(LAMBDA x : DeviceAttrLen[x], DeviceAttrsOf(dev))
                  ELSE 0)
               + (IF dev.peers # <<>> THEN NestLen ELSE 0)
      r     == IF dev.peers = <<>> THEN [frags |-> <<>>, peer |-> 0, allowedip |-> 0]
               ELSE FillPeers(IF first THEN 1 ELSE peer, allowedip, used, <<>>)
  IN [msg |-> [dev |-> IF first THEN DeviceAttrsOf(dev) ELSE {}, peers |-> r.frags],
      peer |-> r.peer, allowedip |-> r.allowedip]

-----------------------------------------------------------------------------

Init ==
  /\ dev \in Requests
  /\ cap \in Capacities
  /\ peer = 0
  /\ allowedip = 0
  /\ pc = "open"
  /\ msg = <<>>
  /\ reply = "none"
  /\ ret = "none"
  /\ kernel \in InitConfigs
  /\ kernel0 = kernel
  /\ sent = <<>>

\* mnlg_socket_open (ipc.c 557-559).
Open ==
  /\ pc = "open"
  /\ \/ pc' = "build" /\ UNCHANGED ret
     \/ pc' = "done" /\ ret' = "err"
  /\ UNCHANGED <<dev, cap, peer, allowedip, msg, reply, kernel, kernel0, sent>>

\* again: fill a message from the cursor, then mnlg_socket_send (ipc.c 561-667).
Send ==
  /\ pc = "build"
  /\ Len(sent) < MaxMessages
  /\ LET b == BuildMessage IN
       /\ peer' = b.peer
       /\ allowedip' = b.allowedip
       /\ \/ /\ msg' = <<b.msg>>
             /\ sent' = Append(sent, b.msg)
             /\ pc' = "wait"
             /\ UNCHANGED ret
          \/ /\ pc' = "done"        \* send failed
             /\ ret' = "err"
             /\ UNCHANGED <<msg, sent>>
  /\ UNCHANGED <<dev, cap, reply, kernel, kernel0>>

\* Environment: the kernel applies the message and acknowledges it, or
\* fails part way and returns an error.
KernelAck ==
  /\ msg # <<>>
  /\ kernel' = ApplyMessage(kernel, Head(msg))
  /\ reply' = "ack"
  /\ msg' = <<>>
  /\ UNCHANGED <<dev, cap, peer, allowedip, pc, ret, kernel0, sent>>

KernelError ==
  /\ msg # <<>>
  /\ \E p \in MessagePrefixes(Head(msg)) : kernel' = ApplyMessage(kernel, p)
  /\ reply' = "error"
  /\ msg' = <<>>
  /\ UNCHANGED <<dev, cap, peer, allowedip, pc, ret, kernel0, sent>>

\* Mutant: goto again after every acknowledgement, whatever the cursor.
RecvAlwaysAgain ==
  /\ pc = "wait"
  /\ reply # "none"
  /\ reply' = "none"
  /\ IF reply = "error" THEN pc' = "done" /\ ret' = "err"
     ELSE pc' = "build" /\ UNCHANGED ret
  /\ UNCHANGED <<dev, cap, peer, allowedip, msg, kernel, kernel0, sent>>

\* mnlg_socket_recv_run, then goto again while peer is not NULL (ipc.c 668-679).
Recv ==
  /\ pc = "wait"
  /\ reply # "none"
  /\ reply' = "none"
  /\ IF reply = "error" THEN pc' = "done" /\ ret' = "err"
     ELSE IF peer # 0 THEN pc' = "build" /\ UNCHANGED ret
     ELSE pc' = "done" /\ ret' = "ok"
  /\ UNCHANGED <<dev, cap, peer, allowedip, msg, kernel, kernel0, sent>>

Client == Open \/ Send \/ Recv
Kernel == KernelAck \/ KernelError

Next == Client \/ Kernel

\* The call runs to completion and the kernel answers every request.
Spec == Init /\ [][Next]_vars /\ WF_vars(Client) /\ WF_vars(Kernel)

-----------------------------------------------------------------------------
(* Properties.                                                              *)

TypeOK ==
  /\ IsDevice(dev)
  /\ cap \in Capacities
  /\ peer \in 0..Len(dev.peers)
  /\ allowedip \in Nat
  /\ pc \in {"open", "build", "wait", "done"}
  /\ Len(msg) <= 1 /\ \A j \in DOMAIN msg : IsMessage(msg[j])
  /\ reply \in {"none", "ack", "error"}
  /\ ret \in {"none", "ok", "err"}
  /\ kernel \in KernelConfigs
  /\ \A j \in DOMAIN sent : IsMessage(sent[j])

\* All peer fragments received by the kernel, in order.
SentFragments == FlattenSeq([j \in DOMAIN sent |-> sent[j].peers])

AllowedIpStream(frags) == FlattenSeq([i \in DOMAIN frags |-> frags[i].allowedips])

\* The opening-only content of the fragments that carry some.
Opening(f) == f.attrs # {} \/ "WGPEER_F_REPLACE_ALLOWEDIPS" \in f.flags
OpeningStream(frags) ==
  LET o == SelectSeq(frags, Opening)
  IN [i \in DOMAIN o |-> <<o[i].key, o[i].attrs,
                          o[i].flags \cap {"WGPEER_F_REPLACE_ALLOWEDIPS"}>>]

(* Chunking transmits the request exactly once and in order: device        *)
(* attributes only in the first message; the allowed ips sent so far, and  *)
(* the opening-only peer attributes (preshared key, endpoint, keepalive,   *)
(* REPLACE_ALLOWEDIPS) sent so far, are each a prefix of the request's, and *)
(* all of it once the call succeeds.  A resume cursor that skips, repeats  *)
(* or re-opens a peer breaks it.                                           *)
TransmittedOnceInOrder ==
  LET whole == WholeRequest(dev).peers IN
  /\ \A j \in DOMAIN sent : sent[j].dev = IF j = 1 THEN DeviceAttrsOf(dev) ELSE {}
  /\ IsPrefix(AllowedIpStream(SentFragments), AllowedIpStream(whole))
  /\ IsPrefix(OpeningStream(SentFragments), OpeningStream(whole))
  /\ ret = "ok" =>
       /\ AllowedIpStream(SentFragments) = AllowedIpStream(whole)
       /\ OpeningStream(SentFragments) = OpeningStream(whole)

(* The chunked exchange implements the abstract SetDevice: seen at the     *)
(* moment kernel_set_device returns, the interface is in the state one     *)
(* message with the whole request would have produced (success), or in the *)
(* state of some prefix of the request (error).                            *)
Abstract == INSTANCE SetDevice
              WITH cfg <- IF pc = "done" THEN kernel ELSE kernel0,
                   result <- IF pc = "done" THEN ret ELSE "pending"
Refinement == Abstract!Spec

(* Every call returns: the resume cursor always makes progress, so the     *)
(* goto-again loop of kernel_set_device ends.                              *)
Termination == <>(pc = "done")
=============================================================================
