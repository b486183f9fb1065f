----------------------------- MODULE UapiGet -------------------------------
(***************************************************************************)
(* userspace_get_device (src/src/ipc.c 273-431): GET over the text         *)
(* protocol of a userspace implementation's UNIX socket.  The client sends *)
(* "get=1\n\n" and decodes the daemon's key=value lines, one getline at a  *)
(* time, into a struct wgdevice: a struct wgpeer per public_key line and a *)
(* struct wgallowedip per allowed_ip line, each linked as soon as it is    *)
(* allocated.  The daemon is the environment: it may send any line of      *)
(* Lines, or close the stream.                                             *)
(*                                                                         *)
(* A line is a record [k |-> key, v |-> value]: hex keys are "hex", "zero" *)
(* or "bad"; a number is an integer, negative for a value that does not   *)
(* start with a digit ("-1"); an allowed ip is [ip, cidr] with ip \in IPs  *)
(* or "garbage" and cidr -1 for a missing or non-digit mask; an endpoint   *)
(* is "ok", "malformed", "unresolvable" (getaddrinfo fails) or            *)
(* "badfamily".                                                            *)
(***************************************************************************)
EXTENDS Integers, Sequences, SequencesExt

CONSTANTS
  Keys,       \* peer public keys the daemon may name
  IPs,        \* allowed-ip addresses
  Family,     \* Family[a] \in {"AF_INET", "AF_INET6"}
  Lines,      \* the lines a daemon may send
  MaxLines,   \* bound on the length of a reply
  OpenErrors  \* errno values userspace_interface_file may fail with

ASSUME Family \in [IPs -> {"AF_INET", "AF_INET6"}]

ENOMEM      == 12
EPROTO      == 71
ENETUNREACH == 101

Blank     == [k |-> "", v |-> ""]     \* "\n"
Malformed == [k |-> "?", v |-> ""]    \* no '=' or no trailing newline

VARIABLES
  pc,        \* "alloc", "open", "read", "done"
  reply,     \* history: the lines the client has read
  dflags,    \* dev->flags
  peers,     \* dev's peer list: [key, attrs, allowedips]
  aipOwner,  \* the peer whose list `allowedip` points into, 0 for NULL
  heap,      \* records allocated and not yet freed
  out,       \* *out: "NULL" or "dev"
  ret        \* ret

vars == <<pc, reply, dflags, peers, aipOwner, heap, out, ret>>

\* The records free_wgdevice reaches from dev.
ReachableOf(ps) ==
  1 + Len(ps) + FoldLeft(LAMBDA acc, p : acc + Len(p.allowedips), 0, ps)

-----------------------------------------------------------------------------
(* Steps of the getline loop.                                              *)

Max16    == 65535
MaxErrno == 2147483647   \* 0x7fffffff

\* NUM(max): decimal digits only, the whole value, at most max (ipc.c 262-271).
NumOk(v, max) == v >= 0 /\ v <= max

\* NUM with a 32- or 64-bit bound: no value of the model exceeds it.
NumOkWide(v) == v >= 0

\* `err:` (ipc.c 421-429): on a non-zero ret free the device and everything
\* linked to it and return NULL.
Finish(code, ps, h) ==
  /\ pc' = "done"
  /\ ret' = code
  /\ IF code # 0
     THEN /\ heap' = h - ReachableOf(ps)
          /\ out' = "NULL"
          /\ peers' = <<>>
          /\ dflags' = {}
     ELSE /\ heap' = h
          /\ peers' = ps
          /\ UNCHANGED <<out, dflags>>
  /\ UNCHANGED aipOwner

\* `break`: leave the loop, then `ret = -EPROTO` (ipc.c 420).
Break(ps, h) == Finish(-EPROTO, ps, h)

Continue(fl, ps, own, h, r) ==
  /\ dflags' = fl /\ peers' = ps /\ aipOwner' = own /\ heap' = h /\ ret' = r
  /\ UNCHANGED <<pc, out>>

Stay == Continue(dflags, peers, aipOwner, heap, ret)

\* Peer-scoped attribute a added to the current (last) peer.
WithAttr(a) == [peers EXCEPT ![Len(peers)].attrs = @ \cup {a}]

\* Device keys, accepted only while no peer has started (ipc.c 310-320).
DeviceLine(l) ==
  \/ /\ l.k = "private_key"
     /\ IF l.v = "bad" THEN Break(peers, heap)
        ELSE Continue(dflags \cup {"private_key", "public_key"}, peers, aipOwner, heap, ret)
  \/ /\ l.k \in {"listen_port", "fwmark"}
     /\ IF IF l.k = "listen_port" THEN NumOk(l.v, Max16) ELSE NumOkWide(l.v)
        THEN Continue(dflags \cup {l.k}, peers, aipOwner, heap, ret)
        ELSE Break(peers, heap)

\* Mutant: the new peer is linked only once its key has parsed.
PublicKeyLinkAfterCheck(l) ==
  /\ l.k = "public_key"
  /\ \/ Finish(-ENOMEM, peers, heap)
     \/ LET ps == Append(peers, [key |-> l.v, attrs |-> {}, allowedips |-> <<>>])
        IN IF l.v = "bad" THEN Break(peers, heap + 1)
           ELSE Continue(dflags, ps, 0, heap + 1, ret)

\* Mutant: `allowedip = NULL` (ipc.c 328) missing.
PublicKeyKeepAllowedIp(l) ==
  /\ l.k = "public_key"
  /\ \/ Finish(-ENOMEM, peers, heap)
     \/ LET ps == Append(peers, [key |-> l.v, attrs |-> {}, allowedips |-> <<>>])
        IN IF l.v = "bad" THEN Break(ps, heap + 1)
           ELSE Continue(dflags, ps, aipOwner, heap + 1, ret)

\* A public_key line starts a new peer, linked before its key is checked
\* (ipc.c 321-336).
PublicKeyLine(l) ==
  /\ l.k = "public_key"
  /\ \/ Finish(-ENOMEM, peers, heap)                   \* calloc fails
     \/ LET ps == Append(peers, [key |-> l.v, attrs |-> {}, allowedips |-> <<>>])
        IN IF l.v = "bad" THEN Break(ps, heap + 1)
           ELSE Continue(dflags, ps, 0, heap + 1, ret)

\* Mutant: the linked allowed ip is also freed on the spot when it fails
\* validation, then again by free_wgdevice.
AllowedIpLineFreeTwice(l) ==
  LET to  == IF aipOwner # 0 THEN aipOwner ELSE Len(peers)
      ps  == [peers EXCEPT ![to].allowedips = Append(@, l.v)]
      ok  == /\ l.v.ip \in IPs
             /\ l.v.cidr <= IF Family[l.v.ip] = "AF_INET" THEN 32 ELSE 128
  IN /\ l.k = "allowed_ip"
     /\ IF l.v.cidr < 0 THEN Break(peers, heap)
        ELSE \/ Finish(-ENOMEM, peers, heap)
             \/ IF ok THEN Continue(dflags, ps, to, heap + 1, ret)
                ELSE Break(ps, heap)

\* An allowed_ip line: parse the mask, allocate, link after `allowedip` (or
\* as the current peer's first), then validate family and cidr
\* (ipc.c 382-408).
AllowedIpLine(l) ==
  LET to  == IF aipOwner # 0 THEN aipOwner ELSE Len(peers)
      ps  == [peers EXCEPT ![to].allowedips = Append(@, l.v)]
      ok  == /\ l.v.ip \in IPs
             /\ l.v.cidr <= IF Family[l.v.ip] = "AF_INET" THEN 32 ELSE 128
  IN /\ l.k = "allowed_ip"
     /\ IF l.v.cidr < 0 THEN Break(peers, heap)
        ELSE \/ Finish(-ENOMEM, peers, heap)            \* calloc fails
             \/ IF ok THEN Continue(dflags, ps, to, heap + 1, ret)
                ELSE Break(ps, heap + 1)

\* The other peer-scoped keys (ipc.c 337-381, 409-416).
PeerAttrLine(l) ==
  \/ /\ l.k = "preshared_key"
     /\ CASE l.v = "bad"  -> Break(peers, heap)
          [] l.v = "zero" -> Stay
          [] OTHER        -> Continue(dflags, WithAttr("preshared_key"), aipOwner, heap, ret)
  \/ /\ l.k = "endpoint"
     /\ CASE l.v \in {"malformed", "badfamily"} -> Break(peers, heap)
          [] l.v = "unresolvable" -> Finish(ENETUNREACH, peers, heap)
          [] OTHER -> Continue(dflags, WithAttr("endpoint"), aipOwner, heap, ret)
  \/ /\ l.k = "persistent_keepalive_interval"
     /\ IF NumOk(l.v, Max16)
        THEN Continue(dflags, WithAttr(l.k), aipOwner, heap, ret)
        ELSE Break(peers, heap)
  \/ /\ l.k \in {"last_handshake_time_sec", "last_handshake_time_nsec", "rx_bytes", "tx_bytes"}
     /\ IF NumOkWide(l.v) THEN Stay ELSE Break(peers, heap)

DeviceKeys == {"private_key", "listen_port", "fwmark"}
PeerKeys   == {"preshared_key", "endpoint", "persistent_keepalive_interval", "allowed_ip",
               "last_handshake_time_sec", "last_handshake_time_nsec", "rx_bytes", "tx_bytes"}

\* The if-chain of the loop body for one line (ipc.c 302-418); a key no
\* branch takes (a device key after a peer, a peer key before one, an
\* unknown key) is skipped.
HandleLine(l) ==
  LET inPeer == peers # <<>> IN
  CASE l = Blank     -> Finish(ret, peers, heap)           \* goto err
    [] l = Malformed -> Break(peers, heap)
    [] ~inPeer /\ l.k \in DeviceKeys -> DeviceLine(l)
    [] l.k = "public_key"           -> PublicKeyLine(l)
    [] inPeer /\ l.k = "allowed_ip" -> AllowedIpLine(l)
    [] inPeer /\ l.k \in PeerKeys   -> PeerAttrLine(l)
    [] l.k = "errno" -> IF NumOk(l.v, MaxErrno)
                        THEN Continue(dflags, peers, aipOwner, heap, -l.v)
                        ELSE Break(peers, heap)
    [] OTHER -> Stay

-----------------------------------------------------------------------------

\* Mutant: ret starts at 0 instead of -EPROTO.
InitRetZero ==
  /\ pc = "alloc" /\ reply = <<>> /\ dflags = {} /\ peers = <<>>
  /\ aipOwner = 0 /\ heap = 0 /\ out = "NULL" /\ ret = 0

\* Locals of userspace_get_device (ipc.c 275-281).
Init ==
  /\ pc = "alloc"
  /\ reply = <<>>
  /\ dflags = {}
  /\ peers = <<>>
  /\ aipOwner = 0
  /\ heap = 0
  /\ out = "NULL"
  /\ ret = -EPROTO

\* *out = dev = calloc(...) (ipc.c 283-285).
Alloc ==
  /\ pc = "alloc"
  /\ \/ pc' = "open" /\ heap' = 1 /\ out' = "dev" /\ UNCHANGED ret
     \/ pc' = "done" /\ ret' = -ENOMEM /\ UNCHANGED <<heap, out>>
  /\ UNCHANGED <<reply, dflags, peers, aipOwner>>

\* userspace_interface_file, then "get=1\n\n" (ipc.c 287-299).
Open ==
  /\ pc = "open"
  /\ \/ pc' = "read" /\ UNCHANGED <<heap, out, ret>>
     \/ \E e \in OpenErrors :
          pc' = "done" /\ ret' = -e /\ heap' = 0 /\ out' = "NULL"
  /\ UNCHANGED <<reply, dflags, peers, aipOwner>>

\* getline returns a line; the loop body handles it (ipc.c 301-419).
ReadLine ==
  /\ pc = "read"
  /\ Len(reply) < MaxLines
  /\ \E l \in Lines : reply' = Append(reply, l) /\ HandleLine(l)

\* getline returns -1 (the daemon closed the stream or a read failed):
\* the loop ends with ret = -EPROTO (ipc.c 301, 420-429).
EndOfStream ==
  /\ pc = "read"
  /\ Break(peers, heap)
  /\ UNCHANGED reply

Next == Alloc \/ Open \/ ReadLine \/ EndOfStream

Spec == Init /\ [][Next]_vars

-----------------------------------------------------------------------------
(* Properties.                                                              *)

TypeOK ==
  /\ pc \in {"alloc", "open", "read", "done"}
  /\ reply \in Seq(Lines)
  /\ dflags \subseteq {"private_key", "public_key", "listen_port", "fwmark"}
  /\ \A i \in DOMAIN peers : peers[i].attrs \subseteq
        {"preshared_key", "endpoint", "persistent_keepalive_interval"}
  /\ aipOwner \in 0..MaxLines
  /\ heap \in Nat
  /\ out \in {"NULL", "dev"}
  /\ ret \in Int

ErrnoValues == [j \in DOMAIN SelectSeq(reply, LAMBDA l : l.k = "errno") |->
                  SelectSeq(reply, LAMBDA l : l.k = "errno")[j].v]

(* Every exit from userspace_get_device either hands the caller the device *)
(* with exactly the records linked into it, or frees every record it       *)
(* allocated and sets *out to NULL: no partially built peer or allowed ip  *)
(* survives a failed decode, whatever line it failed on.                   *)
NoLeak ==
  pc = "done" =>
    /\ (out = "dev") = (ret = 0)
    /\ heap = IF out = "dev" THEN ReachableOf(peers) ELSE 0

(* A GET succeeds only when the daemon's reply ended with the blank line    *)
(* and the last errno= line before it said 0: a reply with no errno line,  *)
(* cut short, or reporting an error is never taken as a device.           *)
SuccessNeedsExplicitZero ==
  (pc = "done" /\ ret = 0) =>
     /\ reply # <<>> /\ Last(reply) = Blank
     /\ ErrnoValues # <<>> /\ Last(ErrnoValues) = 0

\* The peers the reply describes: one per public_key line, in order, each
\* with the allowed_ip lines that follow it up to the next public_key.
PkIdx == SelectSeq([i \in DOMAIN reply |-> i], LAMBDA i : reply[i].k = "public_key")
SegmentAips(n) ==
  LET seg  == SubSeq(reply, PkIdx[n] + 1,
                     IF n < Len(PkIdx) THEN PkIdx[n + 1] - 1 ELSE Len(reply))
      aips == SelectSeq(seg, LAMBDA l : l.k = "allowed_ip")
  IN [j \in DOMAIN aips |-> aips[j].v]
ReplyPeers == [n \in DOMAIN PkIdx |-> [key |-> reply[PkIdx[n]].v, allowedips |-> SegmentAips(n)]]
Shape(ps)  == [n \in DOMAIN ps |-> [key |-> ps[n].key, allowedips |-> ps[n].allowedips]]

(* While the reply is being read, and in a device that is returned, the    *)
(* peer list is exactly the reply's: every allowed ip belongs to the peer   *)
(* whose public_key line it follows, although the code appends through a   *)
(* cursor (allowedip) that outlives the peer it was set for.              *)
PeersFollowReply ==
  (pc = "read" \/ (pc = "done" /\ ret = 0)) => Shape(peers) = ReplyPeers

(* The interface promises a negative errno on every failure (spec: "All    *)
(* errors surface as a negative OS-style error code"); an endpoint that    *)
(* does not resolve sets ret = ENETUNREACH (ipc.c 368).                     *)
ErrorsAreNegative == pc = "done" => ret <= 0

(* The spec: a malformed line ends the stream "with an implicit error      *)
(* unless an explicit errno= record was already seen"; the code's `break`  *)
(* always ends in ret = -EPROTO (ipc.c 307, 420).                           *)
ExplicitErrnoKept ==
  (/\ pc = "done" /\ reply # <<>> /\ Last(reply) = Malformed
   /\ ErrnoValues # <<>> /\ Last(ErrnoValues) > 0)
    => ret = -Last(ErrnoValues)
====
