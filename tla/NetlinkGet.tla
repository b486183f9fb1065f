---------------------------- MODULE NetlinkGet ----------------------------
(***************************************************************************)
(* kernel_get_device (src/src/ipc.c 682-925): the Linux client that dumps *)
(* one interface with WG_CMD_GET_DEVICE.  The kernel builds each dump      *)
(* message when the client reads it, as many peers and allowed ips as fit, *)
(* and a peer cut short is continued in the next message under its public *)
(* key alone.  The client decodes each peer nest into a new struct wgpeer  *)
(* (parse_peers, parse_allowedips), merges adjacent peers with equal keys  *)
(* afterwards (coalesce_peers), and when the kernel flags a message        *)
(* NLM_F_DUMP_INTR (the interface changed during the dump) it frees        *)
(* everything and starts again (goto try_again).                           *)
(*                                                                         *)
(* Another process may change the interface at any time (ConfigChange);   *)
(* the number of changes is bounded by MaxChanges.                         *)
(***************************************************************************)
EXTENDS WgNetlink

CONSTANTS
  InitConfigs,         \* interface states before the call
  ChangeFragments,     \* peer updates another process may apply
  MaxChanges,          \* bound on the number of such updates
  MaxItemsPerMessage,  \* how many dump items (peer headers, allowed ips) fit a message
  NULL                 \* the NULL pointer

VARIABLES
  cfg,        \* the interface state in the kernel
  gen,        \* wg->device_update_gen, bumped by every change
  configs,    \* history: configs[g + 1] is the interface state of generation g
  pos,        \* the kernel's dump cursor: dump items already sent
  prevGen,    \* cb->prev_seq: generation of the previous message, -1 before the first
  pc,         \* "request", "recv", "done"
  ddev,       \* decoded device attributes
  peers,      \* decoded struct wgpeer list: [key, attrs, allowedips, last]
  ret         \* "none", "ok", "err"

vars == <<cfg, gen, configs, pos, prevGen, pc, ddev, peers, ret>>

-----------------------------------------------------------------------------
(* Environment: the kernel's dump of an interface as a stream of items, in *)
(* its peer-list order, each peer followed by its allowed ips.             *)

PeerOrder(c) == SetToSeq({k \in Keys : c.peers[k].on})
AllowedIpOrder(c, k) == SetToSeq(c.peers[k].allowedips)

DumpItems(c) ==
  FlattenSeq([i \in DOMAIN PeerOrder(c) |->
               LET k == PeerOrder(c)[i] IN
               <<[kind |-> "peer", key |-> k]>>
               \o [j \in DOMAIN AllowedIpOrder(c, k) |->
                     [kind |-> "aip", key |-> k, ip |-> AllowedIpOrder(c, k)[j]]]])

\* The peer nests of a message holding items: a message that starts with
\* an allowed ip continues that peer under its key alone.
RECURSIVE Fragments(_, _)
Fragments(c, items) ==
  IF items = <<>> THEN <<>>
  ELSE
  LET k    == items[1].key
      run  == LET ends == {i \in DOMAIN items : \A j \in 2..i : items[j].kind = "aip" /\ items[j].key = k}
              IN CHOOSE i \in ends : \A j \in ends : j <= i
      ips  == [j \in 1..(run - (IF items[1].kind = "peer" THEN 1 ELSE 0)) |->
                 items[j + (IF items[1].kind = "peer" THEN 1 ELSE 0)].ip]
  IN <<[key |-> k,
        attrs |-> IF items[1].kind = "peer" THEN c.peers[k].attrs ELSE {},
        allowedips |-> ips]>>
     \o Fragments(c, SubSeq(items, run + 1, Len(items)))

-----------------------------------------------------------------------------
(* The client.                                                             *)

\* parse_peers / parse_peer / parse_allowedips: every peer nest becomes a
\* new struct wgpeer appended to the device (last_peer), its allowed ips
\* appended in order with last_allowedip on the last one.
DecodeFragment(f) ==
  [key |-> f.key, attrs |-> f.attrs, allowedips |-> f.allowedips,
   last |-> IF f.allowedips = <<>> THEN NULL ELSE Last(f.allowedips)]

\* The list of q appended after p's last_allowedip (or as p's list when p has
\* none); a NULL last with allowed ips present loses them (a crash in C).
LinkAllowedIps(p, q) ==
  IF p.allowedips = <<>> THEN q.allowedips
  ELSE LET at == {i \in DOMAIN p.allowedips : p.allowedips[i] = p.last}
       IN SubSeq(p.allowedips, 1, IF at = {} THEN 0 ELSE CHOOSE i \in at : TRUE)
          \o q.allowedips

\* Mutant: last_allowedip left on the first peer's last (no line 874).
MergePeersKeepLast(p, q) ==
  [p EXCEPT !.allowedips = LinkAllowedIps(p, q)]

MergePeers(p, q) ==
  [p EXCEPT !.allowedips = LinkAllowedIps(p, q), !.last = q.last]

\* coalesce_peers (ipc.c 860-880): merge the next peer into this one while
\* their keys are equal, else move on.
RECURSIVE CoalescePeers(_)
CoalescePeers(ps) ==
  IF Len(ps) < 2 THEN ps
  ELSE IF ps[1].key # ps[2].key THEN <<ps[1]>> \o CoalescePeers(Tail(ps))
  ELSE CoalescePeers(<<MergePeers(ps[1], ps[2])>> \o SubSeq(ps, 3, Len(ps)))

Init ==
  /\ cfg \in InitConfigs
  /\ gen = 0
  /\ configs = <<cfg>>
  /\ pos = 0
  /\ prevGen = -1
  /\ pc = "request"
  /\ ddev = {}
  /\ peers = <<>>
  /\ ret = "none"

\* try_again: calloc, mnlg_socket_open, mnlg_msg_prepare, mnlg_socket_send
\* (ipc.c 888-906); any failure returns the error with *device NULL.
Request ==
  /\ pc = "request"
  /\ ddev' = {}
  /\ peers' = <<>>
  /\ \/ /\ pc' = "recv"
        /\ pos' = 0
        /\ prevGen' = -1
        /\ UNCHANGED ret
     \/ /\ pc' = "done"
        /\ ret' = "err"
        /\ UNCHANGED <<pos, prevGen>>
  /\ UNCHANGED <<cfg, gen, configs>>

\* Mutant: NLM_F_DUMP_INTR ignored, partial results kept as in discovery.
InterruptedNever == FALSE

\* A flagged message: mnl_cb_run fails with EINTR, the device is freed and
\* the whole GET starts again (ipc.c 908-920).
Interrupted == prevGen # -1 /\ prevGen # gen

\* mnlg_socket_recv_run reads the next dump message; read_device_cb
\* decodes it (ipc.c 811-858, 908).  The first message carries the device
\* attributes, and is sent even when the interface has no peers.
RecvMessage ==
  /\ pc = "recv"
  /\ prevGen = -1 \/ pos < Len(DumpItems(cfg))
  /\ IF Interrupted
     THEN /\ pc' = "request"
          /\ UNCHANGED <<pos, prevGen, ddev, peers>>
     ELSE \E n \in IF pos < Len(DumpItems(cfg)) THEN 1..MaxItemsPerMessage ELSE {0} :
            LET items == SubSeq(DumpItems(cfg), pos + 1, pos + n)
                frags == Fragments(cfg, items)
            IN /\ pos + n <= Len(DumpItems(cfg))
               /\ pos' = pos + n
               /\ prevGen' = gen
               /\ ddev' = IF pos = 0 THEN cfg.dev ELSE ddev
               /\ peers' = peers \o [i \in DOMAIN frags |-> DecodeFragment(frags[i])]
               /\ UNCHANGED pc
  /\ UNCHANGED <<cfg, gen, configs, ret>>

\* Mutant: an interrupted dump is read again instead of requested again.
RecvDoneNoRestart ==
  /\ pc = "recv"
  /\ prevGen # -1
  /\ pos >= Len(DumpItems(cfg))
  /\ IF Interrupted
     THEN UNCHANGED <<pc, ddev, peers, ret>>
     ELSE /\ pc' = "done"
          /\ ret' = "ok"
          /\ peers' = CoalescePeers(peers)
          /\ UNCHANGED ddev
  /\ UNCHANGED <<cfg, gen, configs, pos, prevGen>>

\* NLMSG_DONE ends the dump: coalesce_peers, return 0 (ipc.c 908-924).
RecvDone ==
  /\ pc = "recv"
  /\ prevGen # -1
  /\ pos >= Len(DumpItems(cfg))
  /\ IF Interrupted
     THEN /\ pc' = "request"
          /\ UNCHANGED <<ddev, peers, ret>>
     ELSE /\ pc' = "done"
          /\ ret' = "ok"
          /\ peers' = CoalescePeers(peers)
          /\ UNCHANGED ddev
  /\ UNCHANGED <<cfg, gen, configs, pos, prevGen>>

\* The kernel or the socket fails (ENODEV, ENOMEM, ...): free and return.
RecvError ==
  /\ pc = "recv"
  /\ pc' = "done"
  /\ ret' = "err"
  /\ peers' = <<>>
  /\ ddev' = {}
  /\ UNCHANGED <<cfg, gen, configs, pos, prevGen>>

\* Environment: another process updates a peer of the interface.
ConfigChange ==
  /\ gen < MaxChanges
  /\ \E f \in ChangeFragments :
       /\ cfg' = ApplyFragment(cfg, f)
       /\ cfg' # cfg
  /\ gen' = gen + 1
  /\ configs' = Append(configs, cfg')
  /\ UNCHANGED <<pos, prevGen, pc, ddev, peers, ret>>

Client == Request \/ RecvMessage \/ RecvDone \/ RecvError

Next == Client \/ ConfigChange

\* The client runs and the kernel answers every read.  Failures and other
\* writers are not fair: they need not ever happen.
Spec == Init /\ [][Next]_vars
        /\ WF_vars(Request) /\ WF_vars(RecvMessage) /\ WF_vars(RecvDone)

-----------------------------------------------------------------------------
(* Properties.                                                              *)

DecodedPeer == [key : Keys, attrs : SUBSET PeerAttrs,
                allowedips : Seq(IPs), last : IPs \cup {NULL}]

TypeOK ==
  /\ cfg \in KernelConfigs
  /\ gen \in 0..MaxChanges
  /\ Len(configs) = gen + 1
  /\ pos \in Nat
  /\ prevGen \in -1..MaxChanges
  /\ pc \in {"request", "recv", "done"}
  /\ ddev \subseteq DeviceAttrs
  /\ peers \in Seq(DecodedPeer)
  \* last_allowedip is NULL exactly when the list is empty, else its last
  /\ \A i \in DOMAIN peers :
       peers[i].last = IF peers[i].allowedips = <<>> THEN NULL
                       ELSE Last(peers[i].allowedips)
  /\ ret \in {"none", "ok", "err"}

\* What a caller sees of a device: each peer with its attributes and its
\* allowed ips in kernel order, one entry per peer.
View(ps) == {<<ps[i].key, ps[i].attrs, ps[i].allowedips>> : i \in DOMAIN ps}
KernelView(c) == {<<k, c.peers[k].attrs, AllowedIpOrder(c, k)>> : k \in ToSet(PeerOrder(c))}

(* A GET that succeeds returns a snapshot: the device, after coalescing,   *)
(* is exactly the interface as it was at one generation, every peer once  *)
(* with all its allowed ips in order, however the kernel split the dump   *)
(* and whatever other processes changed meanwhile; a GET that fails       *)
(* returns no device.                                                      *)
GetIsSnapshot ==
  /\ ret = "ok" =>
       /\ Len(peers) = Cardinality(View(peers))
       /\ View(peers) = KernelView(configs[prevGen + 1])
       /\ ddev = configs[prevGen + 1].dev
  /\ ret = "err" => peers = <<>>

(* The GET returns once the interface stops changing: the restart on an   *)
(* interrupted dump is taken only finitely often.                          *)
Termination == <>(pc = "done")
=============================================================================
