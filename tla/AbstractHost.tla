---------------------------- MODULE AbstractHost ----------------------------
(***************************************************************************)
(* What a lifecycle verb of a Host promises its caller (spec.md section    *)
(* 4.3), with the steps it takes to keep the promise hidden.  The machine  *)
(* changes as the hypervisor and the driver make it; the Host only sees    *)
(* it.  A verb that is called                                              *)
(*   - is turned away with "already in state" only while the machine is    *)
(*     in the verb's target state, and before it sent any primitive;       *)
(*   - sends at most one driver primitive, one of its own;                 *)
(*   - reports success only once its target was observed after that       *)
(*     primitive, and Start, Stop and Kill only after they sent it;        *)
(*   - returns.                                                            *)
(***************************************************************************)
EXTENDS Naturals

VARIABLES
    vm,       \* the machine's state, as the driver would report it
    sshUp,    \* the guest answers on its command channel
    verb,     \* the verb last called
    busy,     \* the verb has not returned yet
    issued,   \* the driver primitives the verb has sent
    since,    \* what was observed of the machine since the last primitive
    outcome   \* how the verb returned

vars == <<vm, sshUp, verb, busy, issued, since, outcome>>

MachineStates == {"None", "Starting", "Running", "Paused", "Saved",
                  "Stopped", "Stopping", "Error", "Timeout"}
Verbs == {"Start", "Stop", "Kill", "Restart", "Upgrade", "Provision",
          "ConfigureAuth", "ConfigureAllAuth", "Status", "Version"}
Errors == {"driver_err", "state_err", "timeout", "ssh_err", "detect_err",
           "pkg_err", "prov_err", "cert_err"}

\* The state a verb drives the machine to, and the primitives it may send.
Target(v) == IF v \in {"Stop", "Kill"} THEN "Stopped" ELSE "Running"
Own(v) ==
    CASE v \in {"Start", "Stop", "Kill"} -> {v}
      [] v = "Restart" -> {"Start", "Restart"}
      [] v = "Upgrade" -> {"Start"}
      [] OTHER -> {}
MayReject == {"Start", "Stop", "Kill", "Restart", "Upgrade"}

Fresh(s, up) == [down |-> s # "Running", stopped |-> s = "Stopped", ssh |-> up]
Seen(s, up) == [down    |-> since.down \/ s # "Running",
                stopped |-> since.stopped \/ s = "Stopped",
                ssh     |-> since.ssh \/ up]

\* The verb's target has been observed since its last primitive: Stopped
\* for Stop and Kill, a guest answering on its command channel for the
\* others; status only reports what it read.
Confirmed(v) ==
    CASE v \in {"Stop", "Kill"} -> since.stopped
      [] v = "Status" -> TRUE
      [] OTHER -> since.ssh

Init ==
    /\ vm \in MachineStates /\ sshUp \in BOOLEAN
    /\ verb = "none" /\ busy = FALSE /\ issued = {}
    /\ since = Fresh(vm, sshUp) /\ outcome = "none"

\* The hypervisor moves the machine; the Host observes it.
Env ==
    /\ vm' \in MachineStates /\ sshUp' \in BOOLEAN
    /\ since' = Seen(vm', sshUp')
    /\ UNCHANGED <<verb, busy, issued, outcome>>

Call(v) ==
    /\ ~busy
    /\ verb' = v /\ busy' = TRUE /\ issued' = {} /\ outcome' = "none"
    /\ since' = Fresh(vm, sshUp)
    /\ UNCHANGED <<vm, sshUp>>

Reject ==
    /\ busy /\ verb \in MayReject /\ issued = {}
    /\ vm = Target(verb)
    /\ busy' = FALSE /\ outcome' = "already"
    /\ UNCHANGED <<vm, sshUp, verb, issued, since>>

\* The primitive reaches the plugin, which acts on the machine; its reply
\* may still be lost, which ends the verb with the driver's error.
Send(p) ==
    /\ busy /\ issued = {} /\ p \in Own(verb)
    /\ vm' \in MachineStates /\ sshUp' \in BOOLEAN
    /\ issued' = {p} /\ since' = Fresh(vm', sshUp')
    /\ \/ UNCHANGED <<busy, outcome>>
       \/ busy' = FALSE /\ outcome' = "driver_err"
    /\ UNCHANGED verb

Finish(o) ==
    /\ busy
    /\ o = "ok" => /\ Confirmed(verb)
                   /\ verb \in {"Start", "Stop", "Kill"} => issued = {verb}
    /\ busy' = FALSE /\ outcome' = o
    /\ UNCHANGED <<vm, sshUp, verb, issued, since>>

HostStep ==
    Reject \/ (\E p \in {"Start", "Stop", "Kill", "Restart"} : Send(p))
    \/ (\E o \in Errors \cup {"ok"} : Finish(o))

Next == Env \/ (\E v \in Verbs : Call(v)) \/ HostStep

\* A verb that was called returns, whatever the machine does meanwhile.
Spec == Init /\ [][Next]_vars /\ WF_vars(HostStep)
====
