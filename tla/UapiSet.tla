----------------------------- MODULE UapiSet -------------------------------
(***************************************************************************)
(* userspace_set_device (src/src/ipc.c 187-260): SET over the text         *)
(* protocol.  The client writes "set=1", the device's fields, each peer's *)
(* fields and allowed ips, and a blank line, flushes, and reads one        *)
(* "errno=N" reply.  The daemon (the environment) applies the lines in     *)
(* order as the userspace implementation does, and on an error stops part *)
(* way and replies with a positive errno, or it dies and the reply is     *)
(* missing.  A text line is a record [k |-> key, v |-> value].             *)
(***************************************************************************)
EXTENDS WgNetlink

CONSTANTS
  Requests,     \* the struct wgdevice values a caller may pass
  InitConfigs,  \* the daemon's interface states before the call
  OpenErrors,   \* errno values userspace_interface_file may fail with
  DaemonErrors, \* errno values a daemon may reply with
  StaleErrnos   \* values errno may hold when fscanf fails (0 for none)

EPROTO == 71

TLine(key, val) == [k |-> key, v |-> val]
Blank == TLine("", "")

VARIABLES
  dev,      \* the request
  pc,       \* "open", "write", "reply", "done"
  wire,     \* the lines the client has written
  answer,   \* the daemon's reply: [kind |-> "none" | "errno" | "eof", val]
  daemon,   \* the daemon's interface state
  daemon0,  \* history: the daemon's state before the call
  ret       \* the return value, meaningful once pc = "done"

vars == <<dev, pc, wire, answer, daemon, daemon0, ret>>

-----------------------------------------------------------------------------
(* The request as text lines (ipc.c 199-252).  Values are abstracted to    *)
(* presence, keys and allowed ips to their model values.                   *)

DeviceLines(d) ==
  SelectSeq(<<TLine("private_key", "hex"), TLine("listen_port", "u16"),
              TLine("fwmark", "u32"), TLine("replace_peers", "true")>>,
            LAMBDA l : \/ l.k = "private_key" /\ "HAS_PRIVATE_KEY" \in d.flags
                       \/ l.k = "listen_port" /\ "HAS_LISTEN_PORT" \in d.flags
                       \/ l.k = "fwmark" /\ "HAS_FWMARK" \in d.flags
                       \/ l.k = "replace_peers" /\ "REPLACE_PEERS" \in d.flags)

\* Mutant: the endpoint printed whatever its family.
PrintsEndpointAny(p) == TRUE

\* Only AF_INET and AF_INET6 endpoints are printed (ipc.c 223).
PrintsEndpoint(p) == p.endpoint \in {"AF_INET", "AF_INET6"}

\* Mutant: `if (peer->flags & WGPEER_REPLACE_ALLOWEDIPS)` dropped.
ReplacesAllowedIpsNever(p) == FALSE

\* replace_allowed_ips=true (ipc.c 238-239).
ReplacesAllowedIps(p) == "REPLACE_ALLOWEDIPS" \in p.flags

\* A removed peer is its public_key and remove=true only (ipc.c 215-218).
\* Endpoints print as host:port only for AF_INET and AF_INET6.
PeerLines(p) ==
  <<TLine("public_key", p.key)>>
  \o IF "REMOVE_ME" \in p.flags THEN <<TLine("remove", "true")>>
     ELSE SelectSeq(<<TLine("preshared_key", "hex"), TLine("endpoint", p.endpoint),
                      TLine("persistent_keepalive_interval", "u16"),
                      TLine("replace_allowed_ips", "true")>>,
                    LAMBDA l : \/ l.k = "preshared_key" /\ "HAS_PRESHARED_KEY" \in p.flags
                               \/ l.k = "endpoint" /\ PrintsEndpoint(p)
                               \/ l.k = "persistent_keepalive_interval"
                                    /\ "HAS_PERSISTENT_KEEPALIVE_INTERVAL" \in p.flags
                               \/ l.k = "replace_allowed_ips" /\ ReplacesAllowedIps(p))
          \o [i \in DOMAIN p.allowedips |-> TLine("allowed_ip", p.allowedips[i])]

SetLines(d) ==
  <<TLine("set", "1")>> \o DeviceLines(d)
  \o FlattenSeq([i \in DOMAIN d.peers |-> PeerLines(d.peers[i])])
  \o <<Blank>>

-----------------------------------------------------------------------------
(* Environment: the daemon applies set lines in order to its state; `cur` *)
(* is the peer the last public_key line named.                             *)

DeviceLineAttr == [private_key |-> "WGDEVICE_A_PRIVATE_KEY",
                   listen_port |-> "WGDEVICE_A_LISTEN_PORT",
                   fwmark      |-> "WGDEVICE_A_FWMARK"]
PeerLineAttr   == [preshared_key |-> "WGPEER_A_PRESHARED_KEY",
                   endpoint      |-> "WGPEER_A_ENDPOINT",
                   persistent_keepalive_interval |-> "WGPEER_A_PERSISTENT_KEEPALIVE_INTERVAL"]

DaemonLine(s, l) ==
  LET c == s.cfg IN
  CASE l.k \in DOMAIN DeviceLineAttr ->
         [s EXCEPT !.cfg.dev = @ \cup {DeviceLineAttr[l.k]}]
    [] l.k = "replace_peers" -> [s EXCEPT !.cfg.peers = [k \in Keys |-> NoPeer]]
    [] l.k = "public_key" ->
         [cur |-> l.v,
          cfg |-> [c EXCEPT !.peers[l.v].on = TRUE]]
    [] l.k = "remove" -> [s EXCEPT !.cfg.peers[s.cur] = NoPeer]
    [] l.k \in DOMAIN PeerLineAttr ->
         [s EXCEPT !.cfg.peers[s.cur].attrs = @ \cup {PeerLineAttr[l.k]}]
    [] l.k = "replace_allowed_ips" -> [s EXCEPT !.cfg.peers[s.cur].allowedips = {}]
    [] l.k = "allowed_ip" ->
         [s EXCEPT !.cfg.peers[s.cur].allowedips = @ \cup {l.v}]
    [] OTHER -> s

DaemonApply(cfg, lines) ==
  FoldLeft(DaemonLine, [cfg |-> cfg, cur |-> CHOOSE k \in Keys : TRUE], lines).cfg

-----------------------------------------------------------------------------

NoAnswer == [kind |-> "none", val |-> 0]

Init ==
  /\ dev \in Requests
  /\ pc = "open"
  /\ wire = <<>>
  /\ answer = NoAnswer
  /\ daemon \in InitConfigs
  /\ daemon0 = daemon
  /\ ret = 0

\* userspace_interface_file (ipc.c 196-198).
Open ==
  /\ pc = "open"
  /\ \/ pc' = "write" /\ UNCHANGED ret
     \/ \E e \in OpenErrors : pc' = "done" /\ ret' = -e
  /\ UNCHANGED <<dev, wire, answer, daemon, daemon0>>

\* The fprintf calls and fflush (ipc.c 199-253).
Write ==
  /\ pc = "write"
  /\ pc' = "reply"
  /\ wire' = SetLines(dev)
  /\ UNCHANGED <<dev, answer, daemon, daemon0, ret>>

\* Environment: the daemon applies the whole request and replies errno=0,
\* or stops after a prefix of it and replies a positive errno, or dies
\* after a prefix and closes the socket.
DaemonServe ==
  /\ pc = "reply"
  /\ answer = NoAnswer
  /\ \/ /\ daemon' = DaemonApply(daemon, wire)
        /\ answer' = [kind |-> "errno", val |-> 0]
     \/ \E j \in 0..(Len(wire) - 1), e \in DaemonErrors :
          /\ daemon' = DaemonApply(daemon, SubSeq(wire, 1, j))
          /\ answer' = [kind |-> "errno", val |-> e]
     \/ \E j \in 0..(Len(wire) - 1) :
          /\ daemon' = DaemonApply(daemon, SubSeq(wire, 1, j))
          /\ answer' = [kind |-> "eof", val |-> 0]
  /\ UNCHANGED <<dev, pc, wire, daemon0, ret>>

\* Mutant: ret = -errno without the -EPROTO fallback.
ReadReplyNoFallback ==
  /\ pc = "reply"
  /\ answer # NoAnswer
  /\ pc' = "done"
  /\ IF answer.kind = "errno" THEN ret' = answer.val
     ELSE \E e \in StaleErrnos : ret' = -e
  /\ UNCHANGED <<dev, wire, answer, daemon, daemon0>>

\* fscanf(f, "errno=%d\n\n", &ret); when it does not match, ret is -errno,
\* or -EPROTO when errno is 0; the value is returned as it is
\* (ipc.c 255-259).
ReadReply ==
  /\ pc = "reply"
  /\ answer # NoAnswer
  /\ pc' = "done"
  /\ IF answer.kind = "errno" THEN ret' = answer.val
     ELSE \E e \in StaleErrnos : ret' = IF e # 0 THEN -e ELSE -EPROTO
  /\ UNCHANGED <<dev, wire, answer, daemon, daemon0>>

Next == Open \/ Write \/ DaemonServe \/ ReadReply

Spec == Init /\ [][Next]_vars

-----------------------------------------------------------------------------
(* Properties.                                                              *)

\* The lines of the set grammar.
WireLines ==
  {TLine("set", "1"), Blank, TLine("private_key", "hex"), TLine("listen_port", "u16"),
   TLine("fwmark", "u32"), TLine("replace_peers", "true"), TLine("remove", "true"),
   TLine("preshared_key", "hex"), TLine("persistent_keepalive_interval", "u16"),
   TLine("replace_allowed_ips", "true")}
  \cup {TLine("public_key", k) : k \in Keys}
  \cup {TLine("endpoint", f) : f \in {"AF_INET", "AF_INET6"}}
  \cup {TLine("allowed_ip", a) : a \in IPs}

TypeOK ==
  /\ IsDevice(dev)
  /\ wire \in Seq(WireLines)
  /\ pc \in {"open", "write", "reply", "done"}
  /\ answer \in [kind : {"none", "errno", "eof"}, val : {0} \cup DaemonErrors]
  /\ daemon \in KernelConfigs
  /\ ret \in Int

(* The text encoding means what the netlink one means: when               *)
(* userspace_set_device reports success, the daemon's interface is in the  *)
(* state the kernel would reach from the same struct wgdevice sent as one  *)
(* WG_CMD_SET_DEVICE message, whatever peers are removed, replaced or      *)
(* repeated in it.                                                         *)
SuccessAppliesWholeRequest ==
  (pc = "done" /\ ret = 0) => daemon = ApplyMessage(daemon0, WholeRequest(dev))

(* Only the daemon's own "errno=0" reply reads as success: a daemon that   *)
(* died before answering, however errno happens to be left, is a failure.  *)
SuccessOnlyOnZeroReply ==
  (pc = "done" /\ ret = 0) => answer = [kind |-> "errno", val |-> 0]

(* The interface promises a negative errno on every failure (spec: "All    *)
(* errors surface as a negative OS-style error code"); the daemon replies  *)
(* errno=N with N positive and the code returns N as read (ipc.c 255-259). *)
ErrorsAreNegative == pc = "done" => ret <= 0
====
