--------------------------- MODULE MCOpenBSDGet ---------------------------
(***************************************************************************)
(* OpenBSDGet for TLC: the interface states and concurrent changes of     *)
(* MCNetlinkGet (peers added, removed, given more or fewer allowed ips),  *)
(* so the interface grows and shrinks between ioctls; up to two changes.   *)
(***************************************************************************)
EXTENDS OpenBSDGet

CONSTANTS k1, k2, a1, a2, a3

MCKeys == {k1, k2}
MCIPs  == {a1, a2, a3}
MCFamily == [a \in MCIPs |-> IF a = a2 THEN "AF_INET6" ELSE "AF_INET"]

MCInitConfigs ==
  { [dev |-> {"WGDEVICE_A_PRIVATE_KEY", "WGDEVICE_A_LISTEN_PORT"},
     peers |-> [k \in MCKeys |->
                  IF k = k1
                  THEN [on |-> TRUE, attrs |-> {"WGPEER_A_ENDPOINT"},
                        allowedips |-> {a1, a2, a3}]
                  ELSE [on |-> TRUE, attrs |-> {}, allowedips |-> {a2}]]],
    [dev |-> {}, peers |-> [k \in MCKeys |-> NoPeer]] }

\* Another `wg set`: remove k2, give k1 a preshared key and replace its
\* allowed ips, add a1 to k2.
MCChangeFragments ==
  { [key |-> k2, attrs |-> {}, flags |-> {"WGPEER_F_REMOVE_ME"}, allowedips |-> <<>>],
    [key |-> k1, attrs |-> {"WGPEER_A_PRESHARED_KEY"},
     flags |-> {"WGPEER_F_REPLACE_ALLOWEDIPS"}, allowedips |-> <<a3>>],
    [key |-> k2, attrs |-> {}, flags |-> {}, allowedips |-> <<a1>>] }

MCMaxChanges == 2
MCErrors == {6}   \* ENXIO: no such interface
=============================================================================
