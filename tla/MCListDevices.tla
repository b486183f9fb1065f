--------------------------- MODULE MCListDevices ---------------------------
(* ListDevices for TLC: two kernel links and two socket names of one and  *)
(* two bytes (so the list grows more than once), one link change during   *)
(* the dump, and up to two daemon (re)starts beyond the initial sockets.  *)
EXTENDS ListDevices

CONSTANTS k1, k2, u1, u2

MCKNames     == {k1, k2}
MCUNames     == {u1, u2}
MCNameBytes  == (k1 :> <<"c">>) @@ (k2 :> <<"c", "c">>)
                  @@ (u1 :> <<"c">>) @@ (u2 :> <<"c", "c">>)
MCMaxChanges == 1
MCMaxInode   == 3
MCKernelErrors == {105}   \* ENOBUFS
MCDirErrors  == {13}      \* EACCES
====
