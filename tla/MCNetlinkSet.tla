--------------------------- MODULE MCNetlinkSet ---------------------------
(***************************************************************************)
(* Model of kernel_set_device for TLC: two peer keys, three allowed ips of *)
(* both families, peer shapes that differ in which opening attributes they *)
(* carry, requests of up to two peers, and buffer sizes from the smallest  *)
(* that holds one largest peer with one allowed ip up to one that holds    *)
(* most requests whole, so that every split point occurs.                  *)
(***************************************************************************)
EXTENDS NetlinkSet

CONSTANTS k1, k2, a1, a2, a3

MCKeys == {k1, k2}
MCIPs  == {a1, a2, a3}
MCFamily == [a \in MCIPs |-> IF a = a2 THEN "AF_INET6" ELSE "AF_INET"]

PeerChoices ==
  { [key |-> k1, flags |-> {"REPLACE_ALLOWEDIPS", "HAS_PRESHARED_KEY",
                            "HAS_PERSISTENT_KEEPALIVE_INTERVAL"},
     endpoint |-> "AF_INET6", allowedips |-> <<a1, a2, a3>>],
    [key |-> k2, flags |-> {"REMOVE_ME"}, endpoint |-> "AF_UNSPEC",
     allowedips |-> <<a3>>],
    [key |-> k2, flags |-> {"REPLACE_ALLOWEDIPS"}, endpoint |-> "AF_INET",
     allowedips |-> <<a2, a1>>],
    [key |-> k1, flags |-> {}, endpoint |-> "AF_UNSPEC", allowedips |-> <<>>] }

MCRequests ==
  { [flags |-> f, peers |-> s] :
      f \in {{}, {"HAS_PRIVATE_KEY", "HAS_LISTEN_PORT", "REPLACE_PEERS"}},
      s \in {<<>>} \cup [1..1 -> PeerChoices] \cup [1..2 -> PeerChoices] }

MCInitConfigs ==
  { [dev |-> {}, peers |-> [k \in MCKeys |-> NoPeer]],
    [dev |-> {"WGDEVICE_A_LISTEN_PORT"},
     peers |-> [k \in MCKeys |->
                  [on |-> TRUE, attrs |-> {"WGPEER_A_ENDPOINT"},
                   allowedips |-> IF k = k1 THEN {a3} ELSE {a1}]]] }

\* One largest opening peer and one IPv6 allowed ip in a fresh message:
\* 7 + 1 + 31 + 1 + 10 = 50.  Real buffers (>= 1024 units) are far larger.
MCCapacities == 50..72

\* At most 5 messages are needed here (checked by Termination).
MCMaxMessages == 8
=============================================================================
