----------------------------- MODULE SetDevice -----------------------------
(***************************************************************************)
(* Abstract specification of ipc_set_device on a kernel-backed interface: *)
(* one call either applies the caller's whole request, as if it had been  *)
(* one message, and reports success, or reports an error having applied   *)
(* some prefix of that request.  Chunking into several messages must be    *)
(* invisible at this level.                                                *)
(***************************************************************************)
EXTENDS WgNetlink

CONSTANTS
  Requests,     \* the struct wgdevice values a caller passes
  InitConfigs   \* interface states before the call

VARIABLES
  dev,      \* the request
  cfg,      \* the interface state in the kernel
  result    \* "pending", then "ok" or "err"

vars == <<dev, cfg, result>>

Init ==
  /\ dev \in Requests
  /\ cfg \in InitConfigs
  /\ result = "pending"

Succeed ==
  /\ result = "pending"
  /\ cfg' = ApplyMessage(cfg, WholeRequest(dev))
  /\ result' = "ok"
  /\ UNCHANGED dev

Fail ==
  /\ result = "pending"
  /\ \E p \in MessagePrefixes(WholeRequest(dev)) : cfg' = ApplyMessage(cfg, p)
  /\ result' = "err"
  /\ UNCHANGED dev

Next == Succeed \/ Fail

Spec == Init /\ [][Next]_vars
=============================================================================
