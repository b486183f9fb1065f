--------------------------- MODULE MCNetlinkGet ---------------------------
(***************************************************************************)
(* Model of kernel_get_device for TLC: two peers, three allowed ips, dump *)
(* messages of one or two items so that a peer with three allowed ips is  *)
(* split across up to three messages, and up to two changes by another    *)
(* process during the call.                                                *)
(***************************************************************************)
EXTENDS NetlinkGet

CONSTANTS k1, k2, a1, a2, a3

MCKeys == {k1, k2}
MCIPs  == {a1, a2, a3}
MCFamily == [a \in MCIPs |-> IF a = a2 THEN "AF_INET6" ELSE "AF_INET"]

MCInitConfigs ==
  { [dev |-> {"WGDEVICE_A_PRIVATE_KEY", "WGDEVICE_A_LISTEN_PORT"},
     peers |-> [k \in MCKeys |->
                  IF k = k1
                  THEN [on |-> TRUE, attrs |-> {"WGPEER_A_ENDPOINT"},
                        allowedips |-> {a1, a2, a3}]
                  ELSE [on |-> TRUE, attrs |-> {}, allowedips |-> {a2}]]],
    [dev |-> {}, peers |-> [k \in MCKeys |-> NoPeer]] }

\* Another `wg set`: remove k2, give k1 a preshared key and replace its
\* allowed ips, add a1 to k2.
MCChangeFragments ==
  { [key |-> k2, attrs |-> {}, flags |-> {"WGPEER_F_REMOVE_ME"}, allowedips |-> <<>>],
    [key |-> k1, attrs |-> {"WGPEER_A_PRESHARED_KEY"},
     flags |-> {"WGPEER_F_REPLACE_ALLOWEDIPS"}, allowedips |-> <<a3>>],
    [key |-> k2, attrs |-> {}, flags |-> {}, allowedips |-> <<a1>>] }

MCMaxChanges == 2
MCMaxItemsPerMessage == 2
=============================================================================
