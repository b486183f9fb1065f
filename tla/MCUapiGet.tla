---------------------------- MODULE MCUapiGet ------------------------------
(* UapiGet for TLC: two peers, an IPv4 and an IPv6 address, and one line  *)
(* of every kind the decoder tells apart, at the numeric bounds where they *)
(* matter (65535 accepted, 65536 rejected; an IPv4 /33 rejected, an IPv6   *)
(* /33 accepted).                                                          *)
EXTENDS UapiGet

CONSTANTS k1, k2, a1, a2

MCKeys   == {k1, k2}
MCIPs    == {a1, a2}
MCFamily == [a \in MCIPs |-> IF a = a2 THEN "AF_INET6" ELSE "AF_INET"]

L(key, val) == [k |-> key, v |-> val]

MCLines ==
  {Blank, Malformed,
   L("private_key", "hex"), L("private_key", "bad"),
   L("listen_port", 65535), L("listen_port", 65536), L("fwmark", -1),
   L("public_key", k1), L("public_key", k2), L("public_key", "bad"),
   L("preshared_key", "hex"), L("preshared_key", "zero"), L("preshared_key", "bad"),
   L("endpoint", "ok"), L("endpoint", "malformed"), L("endpoint", "unresolvable"),
   L("endpoint", "badfamily"),
   L("persistent_keepalive_interval", 65536),
   L("allowed_ip", [ip |-> a1, cidr |-> 32]), L("allowed_ip", [ip |-> a1, cidr |-> 33]),
   L("allowed_ip", [ip |-> a2, cidr |-> 33]), L("allowed_ip", [ip |-> "garbage", cidr |-> 8]),
   L("allowed_ip", [ip |-> a1, cidr |-> -1]),
   L("rx_bytes", 0), L("tx_bytes", -1),
   L("errno", 0), L("errno", 5), L("errno", -1),
   L("protocol_version", 1)}

MCMaxLines   == 4
MCOpenErrors == {2, 111}   \* ENOENT, ECONNREFUSED
====
