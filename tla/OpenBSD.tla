------------------------------- MODULE OpenBSD -------------------------------
(***************************************************************************)
(* `wg set` and `wg show` on one OpenBSD interface at the same time: the   *)
(* kernel_set_device of OpenBSDSet and the kernel_get_device of OpenBSDGet *)
(* share the driver's interface state.  The set's SIOCSWG is the change    *)
(* the get's size loop sees between its SIOCGWG calls.  No third writer:  *)
(* SetDevice, which the set refines, lets nothing else change the          *)
(* interface during the call.                                              *)
(***************************************************************************)
EXTENDS WgIoctl

CONSTANTS Requests, InitConfigs, SetErrors, GetErrors

VARIABLES
  cfg,                                      \* the driver's interface state
  dev, spc, ssize, sbuf, kernel0, sret,     \* kernel_set_device
  changes, gpc, gsize, last, bufLen, gbuf,  \* kernel_get_device
  copied, ptr, at, i, j, peers, heap, gret

setVars == <<dev, spc, ssize, sbuf, kernel0, sret>>
getVars == <<changes, gpc, gsize, last, bufLen, gbuf, copied, ptr, at, i, j, peers, heap, gret>>
vars == <<cfg, setVars, getVars>>

S == INSTANCE OpenBSDSet WITH pc <- spc, size <- ssize, buf <- sbuf, ret <- sret,
       kernel <- cfg, Errors <- SetErrors
G == INSTANCE OpenBSDGet WITH pc <- gpc, size <- gsize, buf <- gbuf, ret <- gret,
       ChangeFragments <- {}, MaxChanges <- 0, Errors <- GetErrors

Init == S!Init /\ G!Init

SetStep == (S!Prepare \/ S!Ioctl) /\ UNCHANGED getVars

GetStep == G!Client /\ UNCHANGED setVars

Next == SetStep \/ GetStep

\* The get runs to its end; the set need not run.
Spec == Init /\ [][Next]_vars /\ WF_vars(GetStep)

-----------------------------------------------------------------------------

TypeOK == S!TypeOK /\ G!TypeOK

WriteInBounds == S!WriteInBounds

Refinement == S!Refinement

ReturnsCopy == G!ReturnsCopy

Termination == G!Termination
====
