---------------------------- MODULE MCIpcSet --------------------------------
(* IpcSet for TLC: the requests of MCNetlinkSet (two                     *)
(* keys, three allowed ips; removed, replacing and repeated peers), and   *)
(* up to two daemon starts during the dispatch (three socket inodes).    *)
EXTENDS IpcSet

CONSTANTS k1, k2, a1, a2, a3

MCKeys   == {k1, k2}
MCIPs    == {a1, a2, a3}
MCFamily == [a \in MCIPs |-> IF a = a2 THEN "AF_INET6" ELSE "AF_INET"]

PeerChoices ==
  { [key |-> k1, flags |-> {"REPLACE_ALLOWEDIPS", "HAS_PRESHARED_KEY",
                            "HAS_PERSISTENT_KEEPALIVE_INTERVAL"},
     endpoint |-> "AF_INET6", allowedips |-> <<a1, a2, a3>>],
    [key |-> k2, flags |-> {"REMOVE_ME"}, endpoint |-> "AF_UNSPEC",
     allowedips |-> <<a3>>],
    [key |-> k2, flags |-> {"REPLACE_ALLOWEDIPS"}, endpoint |-> "AF_INET",
     allowedips |-> <<a2, a1>>],
    [key |-> k1, flags |-> {}, endpoint |-> "AF_UNSPEC", allowedips |-> <<>>] }

MCRequests ==
  { [flags |-> f, peers |-> s] :
      f \in {{}, {"HAS_PRIVATE_KEY", "HAS_LISTEN_PORT", "REPLACE_PEERS"}},
      s \in {<<>>} \cup [1..1 -> PeerChoices] \cup [1..2 -> PeerChoices] }

MCInitConfigs ==
  { [dev |-> {}, peers |-> [k \in MCKeys |-> NoPeer]],
    [dev |-> {"WGDEVICE_A_LISTEN_PORT"},
     peers |-> [k \in MCKeys |->
                  [on |-> TRUE, attrs |-> {"WGPEER_A_ENDPOINT"},
                   allowedips |-> IF k = k1 THEN {a1} ELSE {a3}]]] }

MCMaxInode     == 3
MCDaemonErrors == {22}       \* EINVAL
MCStaleErrnos  == {0, 32}    \* none, EPIPE from a write to a closed socket
====
