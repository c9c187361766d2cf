---------------------------- MODULE MCSerialDriver ----------------------------
(* A batch of three machines: two virtualbox ones, which the serial driver *)
(* must keep apart, and one of another driver, which it must not touch;   *)
(* two calls per verb, so that a host can call again after another took   *)
(* the mutex.                                                             *)
EXTENDS SerialDriver, TLC

CONSTANTS h1, h2, h3

MCHosts == {h1, h2, h3}
MCDriverName == (h1 :> "virtualbox") @@ (h2 :> "virtualbox") @@ (h3 :> "kvm")
MCMaxCalls == 2
====
