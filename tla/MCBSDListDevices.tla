-------------------------- MODULE MCBSDListDevices --------------------------
(* BSDListDevices for TLC: two interfaces of one and two bytes, and up to *)
(* two joins or leaves, so the group can grow, shrink or vanish between   *)
(* the size query and the copy.                                            *)
EXTENDS BSDListDevices

CONSTANTS w1, w2, empty

MCNames      == {w1, w2}
MCNameBytes  == (w1 :> <<"c">>) @@ (w2 :> <<"c", "c">>) @@ (empty :> <<>>)
MCMaxChanges == 2
MCErrors     == {6}   \* ENXIO
====
