--------------------------- MODULE MCHostLifecycle ---------------------------
(* One machine, two attempts per bounded wait, lossy RPC and drivers whose *)
(* Restart may return before the reboot.                                   *)
EXTENDS HostLifecycle

MCMaxPolls == 2
====
