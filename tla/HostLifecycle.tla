---------------------------- MODULE HostLifecycle ----------------------------
(***************************************************************************)
(* The lifecycle verbs of libmachine/host/host.go (Start, Stop, Kill,      *)
(* Restart, Upgrade) run by one CLI process against one machine.  The      *)
(* machine is driven through a driver reached over plugin RPC, and the     *)
(* hypervisor changes the machine's state on its own (boot, shutdown,      *)
(* pause), so every read the verbs make may be stale when it is used.      *)
(*                                                                         *)
(* A verb is a small program: pc is its current step and stack holds the   *)
(* steps its callers continue at (Restart and Upgrade call Start; Start    *)
(* and Restart call WaitForPodman, which calls DetectProvisioner).         *)
(***************************************************************************)
EXTENDS Naturals, Sequences, FiniteSets

CONSTANTS
    MaxPolls,     \* attempts of mcnutils.WaitFor before it reports a timeout
    RpcMayFail,   \* whether a plugin RPC call may fail in transit
    AsyncRestart  \* whether a driver's Restart may return before the reboot

ASSUME MaxPolls \in Nat \ {0} /\ RpcMayFail \in BOOLEAN /\ AsyncRestart \in BOOLEAN

VARIABLES
    vm,           \* the state the hypervisor would report (state.State)
    sshUp,        \* the guest answers on its SSH command channel
    pendingReboot,\* an asynchronous driver Restart has not yet taken effect
    pluginFound,  \* Load resolved a plugin; FALSE means the errdriver stand-in
    osKnown,      \* some registered provisioner is compatible with the guest
    verb,         \* the verb the CLI process is running
    pc,           \* the step the verb is at
    stack,        \* steps the callers of the current subroutine continue at
    act,          \* the driver primitive runActionForState was given
    desired,      \* the state runActionForState / WaitFor waits for
    polls,        \* attempts made by the current bounded wait
    issued,       \* driver primitives sent during the current verb
    since,        \* what the machine went through since the last primitive
    outcome       \* how the last verb returned

vars == <<vm, sshUp, pendingReboot, pluginFound, osKnown, verb, pc, stack,
          act, desired, polls, issued, since, outcome>>
envVars == <<pluginFound, osKnown>>

MachineStates == {"None", "Starting", "Running", "Paused", "Saved",
                  "Stopped", "Stopping", "Error", "Timeout"}
Verbs == {"Start", "Stop", "Kill", "Restart", "Upgrade", "Provision",
          "ConfigureAuth", "ConfigureAllAuth", "Status", "Version"}
Primitives == {"Start", "Stop", "Kill", "Restart"}
Outcomes == {"none", "ok", "already", "driver_err", "state_err", "timeout",
             "ssh_err", "detect_err", "pkg_err", "prov_err", "cert_err"}
Labels == {"idle", "ra_check", "ra_act", "ra_wait", "rs_stopped",
           "rs_running", "rs_act", "up_state", "det_ssh", "det_cat",
           "wfp_podman", "up_pkg", "certs", "prov", "st_state", "ver_client",
           "ver_out", "done"}

(***************************************************************************)
(* The driver seen through RPC.  GetState answers the machine's state, or  *)
(* an error when the plugin is missing (errdriver) or the call is lost.    *)
(* drivers.MachineInState turns an error into "not in that state".         *)
(***************************************************************************)
GetStateReplies ==
    IF ~pluginFound THEN {"err"}
    ELSE IF RpcMayFail THEN {vm, "err"} ELSE {vm}

\* A call either fails before the plugin acts, fails after it acted (the
\* reply is lost), or succeeds.  The errdriver fails every call.
CallResults ==
    IF ~pluginFound THEN {"lost_request"}
    ELSE IF RpcMayFail THEN {"ok", "lost_request", "lost_reply"} ELSE {"ok"}

\* RunSSHCommandFromDriver: asks the driver for the address, then runs the
\* command; it fails when the guest does not answer.
SSHReplies ==
    IF pluginFound /\ sshUp
    THEN (IF RpcMayFail THEN BOOLEAN ELSE {TRUE})
    ELSE {FALSE}

\* What a primitive does to the machine when the plugin carries it out.
Effect(p, s) ==
    CASE p = "Start"   -> IF s = "Running" THEN s ELSE "Starting"
      [] p = "Stop"    -> IF s \in {"Running", "Paused"} THEN "Stopping" ELSE s
      [] p = "Kill"    -> "Stopped"
      [] p = "Restart" -> IF s = "Running" THEN "Starting" ELSE s

Fresh(s, up) == [down |-> s # "Running", stopped |-> s = "Stopped", ssh |-> up]
Seen(s, up) == [down    |-> since.down \/ s # "Running",
                stopped |-> since.stopped \/ s = "Stopped",
                ssh     |-> since.ssh \/ up]

\* The machine after primitive p was carried out; an asynchronous Restart
\* leaves it Running with the reboot still to come.
DriverCall(p) ==
    \/ /\ p = "Restart" /\ AsyncRestart /\ vm = "Running"
       /\ pendingReboot' = TRUE
       /\ UNCHANGED <<vm, sshUp>>
    \/ /\ vm' = Effect(p, vm)
       /\ sshUp' = (sshUp /\ vm' = "Running")
       /\ UNCHANGED pendingReboot

-----------------------------------------------------------------------------
(* The hypervisor and the guest, acting on their own.                      *)

Boot ==
    /\ vm = "Starting"
    /\ vm' \in {"Running", "Error"}
    /\ UNCHANGED <<sshUp, pendingReboot>>

SSHReady ==
    /\ vm = "Running" /\ ~sshUp
    /\ sshUp' = TRUE
    /\ UNCHANGED <<vm, pendingReboot>>

Halt ==
    /\ vm = "Stopping"
    /\ vm' = "Stopped"
    /\ UNCHANGED <<sshUp, pendingReboot>>

Reboot ==
    /\ pendingReboot /\ vm = "Running"
    /\ vm' = "Starting" /\ sshUp' = FALSE /\ pendingReboot' = FALSE

\* The guest powers itself off, or the user pauses or resumes it in the
\* hypervisor's own interface.
External ==
    \/ vm = "Running" /\ vm' \in {"Stopped", "Paused"} /\ sshUp' = FALSE
       /\ pendingReboot' = FALSE
    \/ vm = "Paused" /\ vm' = "Running" /\ UNCHANGED <<sshUp, pendingReboot>>

Machine ==
    /\ Boot \/ SSHReady \/ Halt \/ Reboot \/ External
    /\ since' = Seen(vm', sshUp')
    /\ UNCHANGED <<envVars, verb, pc, stack, act, desired, polls, issued, outcome>>

-----------------------------------------------------------------------------
(* Control of the CLI process.                                             *)

Goto(l) == pc' = l /\ polls' = 0
Return == pc' = Head(stack) /\ stack' = Tail(stack) /\ polls' = 0
Fail(o) == pc' = "idle" /\ stack' = <<>> /\ outcome' = o /\ polls' = 0
Machine0 == UNCHANGED <<vm, sshUp, pendingReboot, since>>

\* h.WaitForPodman(): DetectProvisioner (wait for SSH, read /etc/os-release,
\* pick a provisioner), then provision.WaitForPodman.
WaitForPodman == <<"det_ssh", "wfp_podman">>

\* Enter runActionForState(action, desiredState).
RunAction(p, s) == Goto("ra_check") /\ act' = p /\ desired' = s

Begin(v) ==
    /\ pc = "idle"
    /\ verb' = v /\ issued' = {} /\ outcome' = "none"
    /\ since' = Fresh(vm, sshUp)
    /\ UNCHANGED <<vm, sshUp, pendingReboot, envVars>>

\* Host.Start: runActionForState(Driver.Start, Running), then WaitForPodman.
Start ==
    /\ Begin("Start")
    /\ RunAction("Start", "Running")
    /\ stack' = WaitForPodman \o <<"done">>

\* Host.Stop and Host.Kill: runActionForState towards Stopped.
Stop ==
    /\ Begin("Stop")
    /\ RunAction("Stop", "Stopped")
    /\ stack' = <<"done">>

Kill ==
    /\ Begin("Kill")
    /\ RunAction("Kill", "Stopped")
    /\ stack' = <<"done">>

\* Host.Restart ends with its own WaitForPodman whichever branch it took.
Restart ==
    /\ Begin("Restart")
    /\ Goto("rs_stopped")
    /\ stack' = WaitForPodman \o <<"done">>
    /\ UNCHANGED <<act, desired>>

Upgrade ==
    /\ Begin("Upgrade")
    /\ Goto("up_state")
    /\ stack' = <<"done">>
    /\ UNCHANGED <<act, desired>>

\* Host.Provision: DetectProvisioner, then provisioner.Provision.
Provision ==
    /\ Begin("Provision")
    /\ Goto("det_ssh")
    /\ stack' = <<"prov", "done">>
    /\ UNCHANGED <<act, desired>>

\* Host.ConfigureAuth (regenerate-certs): the same calls as Provision.
ConfigureAuth ==
    /\ Begin("ConfigureAuth")
    /\ Goto("det_ssh")
    /\ stack' = <<"prov", "done">>
    /\ UNCHANGED <<act, desired>>

\* Host.ConfigureAllAuth (regenerate-certs --client-certs): bootstrap the
\* local certificates, then ConfigureAuth.
ConfigureAllAuth ==
    /\ Begin("ConfigureAllAuth")
    /\ Goto("certs")
    /\ stack' = <<"det_ssh", "prov", "done">>
    /\ UNCHANGED <<act, desired>>

\* cmdStatus: api.Load, then Driver.GetState, whose error is returned.
Status ==
    /\ Begin("Status")
    /\ Goto("st_state")
    /\ stack' = <<"done">>
    /\ UNCHANGED <<act, desired>>

\* printVersion with a machine name: api.Load, h.CreateSSHClient, then
\* "podman version" over the client.
Version ==
    /\ Begin("Version")
    /\ Goto("ver_client")
    /\ stack' = <<"done">>
    /\ UNCHANGED <<act, desired>>

-----------------------------------------------------------------------------
(* Mutations of the steps below, each a plausible slip in host.go or in    *)
(* the helpers it calls; a property that no mutation breaks says nothing.  *)

\* runActionForState calling the action before the already-in-state check.
RaCheckActFirst ==
    /\ pc = "ra_check"
    /\ \E r \in GetStateReplies :
          IF r = desired
          THEN Fail("already") /\ DriverCall(act)
               /\ issued' = issued \cup {act} /\ since' = Fresh(vm', sshUp')
          ELSE Goto("ra_act") /\ UNCHANGED <<stack, outcome, issued>> /\ Machine0
    /\ UNCHANGED <<act, desired>>

\* WaitFor returning nil once its attempts are used up.
WaitTimeoutNil ==
    /\ pc \in {"ra_wait", "det_ssh"}
    /\ polls = MaxPolls
    /\ Return /\ UNCHANGED outcome
    /\ UNCHANGED <<act, desired, issued>> /\ Machine0

\* WaitFor making one attempt more than it may (i <= maxAttempts).
RaWaitOffByOne ==
    /\ pc = "ra_wait"
    /\ polls <= MaxPolls
    /\ \E r \in GetStateReplies :
          IF r = desired
          THEN Return
          ELSE polls' = polls + 1 /\ UNCHANGED <<pc, stack>>
    /\ UNCHANGED <<act, desired, issued, outcome>> /\ Machine0

\* WaitFor polling until the state shows up, with no limit on attempts.
RaWaitUnbounded ==
    /\ pc = "ra_wait"
    /\ \E r \in GetStateReplies :
          IF r = desired THEN Return ELSE UNCHANGED <<pc, stack, polls>>
    /\ UNCHANGED <<act, desired, issued, outcome>> /\ Machine0

\* Host.Restart with the "else" dropped: after the Start branch, the
\* MachineInState(Running) branch runs too.
RsStoppedNoElse ==
    /\ pc = "rs_stopped"
    /\ \E r \in GetStateReplies :
          IF r = "Stopped"
          THEN RunAction("Start", "Running")
               /\ stack' = WaitForPodman \o <<"rs_running">> \o stack
          ELSE Goto("rs_running") /\ UNCHANGED <<stack, act, desired>>
    /\ UNCHANGED <<issued, outcome>> /\ Machine0

-----------------------------------------------------------------------------
(* The steps of a running verb.                                            *)

\* runActionForState: an early return when MachineInState(desiredState).
RaCheck ==
    /\ pc = "ra_check"
    /\ \E r \in GetStateReplies :
          IF r = desired
          THEN Fail("already")
          ELSE Goto("ra_act") /\ UNCHANGED <<stack, outcome>>
    /\ UNCHANGED <<act, desired, issued>> /\ Machine0

\* Send primitive p to the plugin; on success wait for desired.
Invoke(p) ==
    \E res \in CallResults :
       \/ /\ res = "lost_request"
          /\ Fail("driver_err")
          /\ UNCHANGED issued /\ Machine0
       \/ /\ res # "lost_request"
          /\ DriverCall(p)
          /\ issued' = issued \cup {p}
          /\ since' = Fresh(vm', sshUp')
          /\ IF res = "ok"
             THEN Goto("ra_wait") /\ UNCHANGED <<stack, outcome>>
             ELSE Fail("driver_err")

\* runActionForState: if err := action(); err != nil { return err }
RaAct ==
    /\ pc = "ra_act"
    /\ Invoke(act)
    /\ UNCHANGED <<act, desired>>

\* mcnutils.WaitFor(drivers.MachineInState(h.Driver, desired)): one attempt.
RaWait ==
    /\ pc = "ra_wait"
    /\ polls < MaxPolls
    /\ \E r \in GetStateReplies :
          IF r = desired
          THEN Return
          ELSE polls' = polls + 1 /\ UNCHANGED <<pc, stack>>
    /\ UNCHANGED <<act, desired, issued, outcome>> /\ Machine0

\* WaitFor (of a state or of SSH) gives up after MaxPolls attempts.
WaitTimeout ==
    /\ pc \in {"ra_wait", "det_ssh"}
    /\ polls = MaxPolls
    /\ Fail("timeout")
    /\ UNCHANGED <<act, desired, issued>> /\ Machine0

\* Host.Restart: if MachineInState(Stopped) { h.Start() } ...
RsStopped ==
    /\ pc = "rs_stopped"
    /\ \E r \in GetStateReplies :
          IF r = "Stopped"
          THEN RunAction("Start", "Running") /\ stack' = WaitForPodman \o stack
          ELSE Goto("rs_running") /\ UNCHANGED <<stack, act, desired>>
    /\ UNCHANGED <<issued, outcome>> /\ Machine0

\* ... else if MachineInState(Running) { Driver.Restart; WaitFor(Running) }
\* and in any other state nothing is done before the final WaitForPodman.
RsRunning ==
    /\ pc = "rs_running"
    /\ \E r \in GetStateReplies :
          IF r = "Running"
          THEN Goto("rs_act") /\ UNCHANGED stack
          ELSE Return
    /\ UNCHANGED <<act, desired, issued, outcome>> /\ Machine0

RsAct ==
    /\ pc = "rs_act"
    /\ Invoke("Restart")
    /\ act' = "Restart" /\ desired' = "Running"

\* Host.Upgrade: GetState (an error aborts); Start unless Running; then
\* DetectProvisioner and the package upgrade.
UpState ==
    /\ pc = "up_state"
    /\ \E r \in GetStateReplies :
          CASE r = "err" ->
                 Fail("state_err") /\ UNCHANGED <<act, desired>>
            [] r = "Running" ->
                 Goto("det_ssh") /\ stack' = <<"up_pkg">> \o stack
                 /\ UNCHANGED <<act, desired, outcome>>
            [] OTHER ->
                 RunAction("Start", "Running")
                 /\ stack' = WaitForPodman \o <<"det_ssh", "up_pkg">> \o stack
                 /\ UNCHANGED outcome
    /\ UNCHANGED issued /\ Machine0

\* drivers.WaitForSSH: one attempt of running "exit 0" over SSH.
DetSSH ==
    /\ pc = "det_ssh"
    /\ polls < MaxPolls
    /\ \E ok \in SSHReplies :
          IF ok
          THEN Goto("det_cat")
          ELSE polls' = polls + 1 /\ UNCHANGED pc
    /\ UNCHANGED <<stack, act, desired, issued, outcome>> /\ Machine0

\* StandardDetector: cat /etc/os-release, then the first compatible
\* provisioner of the registry, else ErrDetectionFailed.
DetCat ==
    /\ pc = "det_cat"
    /\ \E ok \in SSHReplies :
          CASE ~ok -> Fail("ssh_err")
            [] ~osKnown -> Fail("detect_err")
            [] OTHER -> Return /\ UNCHANGED outcome
    /\ UNCHANGED <<act, desired, issued>> /\ Machine0

\* provision.WaitForPodman: the podman socket is looked for over SSH; a
\* failing SSH command ends the wait with its error.
WfpPodman ==
    /\ pc = "wfp_podman"
    /\ \E ok \in SSHReplies :
          IF ok THEN Return /\ UNCHANGED outcome ELSE Fail("ssh_err")
    /\ UNCHANGED <<act, desired, issued>> /\ Machine0

\* provisioner.Package("podman", pkgaction.Upgrade) over SSH.
UpPkg ==
    /\ pc = "up_pkg"
    /\ \E ok \in SSHReplies :
          IF ok THEN Return /\ UNCHANGED outcome ELSE Fail("pkg_err")
    /\ UNCHANGED <<act, desired, issued>> /\ Machine0

\* cert.BootstrapCertificates(h.AuthOptions()): local files only.
Certs ==
    /\ pc = "certs"
    /\ \E ok \in BOOLEAN :
          IF ok THEN Return /\ UNCHANGED outcome ELSE Fail("cert_err")
    /\ UNCHANGED <<act, desired, issued>> /\ Machine0

\* provisioner.Provision(authOptions, engineOptions), carried out over SSH.
Prov ==
    /\ pc = "prov"
    /\ \E ok \in SSHReplies :
          IF ok THEN Return /\ UNCHANGED outcome ELSE Fail("prov_err")
    /\ UNCHANGED <<act, desired, issued>> /\ Machine0

\* cmdStatus: if err := GetState(); err != nil { return err }.
StState ==
    /\ pc = "st_state"
    /\ \E r \in GetStateReplies :
          IF r = "err" THEN Fail("state_err") ELSE Return /\ UNCHANGED outcome
    /\ UNCHANGED <<act, desired, issued>> /\ Machine0

\* StandardSSHClientCreator.CreateSSHClient: GetSSHHostname and GetSSHPort
\* over RPC (their errors are returned), then ssh.NewClient, which may fail
\* locally (no ssh binary); nothing is sent to the guest yet.
VerClient ==
    /\ pc = "ver_client"
    /\ \E res \in CallResults, made \in BOOLEAN :
          CASE res # "ok" -> Fail("driver_err")
            [] ~made -> Fail("ssh_err")
            [] OTHER -> Goto("ver_out") /\ UNCHANGED <<stack, outcome>>
    /\ UNCHANGED <<act, desired, issued>> /\ Machine0

\* client.Output("podman version ..."): its error is returned.
VerOut ==
    /\ pc = "ver_out"
    /\ \E ok \in SSHReplies :
          IF ok THEN Return /\ UNCHANGED outcome ELSE Fail("ssh_err")
    /\ UNCHANGED <<act, desired, issued>> /\ Machine0

Done ==
    /\ pc = "done"
    /\ pc' = "idle" /\ outcome' = "ok"
    /\ UNCHANGED <<stack, act, desired, polls, issued>> /\ Machine0

Step ==
    /\ \/ RaCheck \/ RaAct \/ RaWait \/ WaitTimeout \/ RsStopped \/ RsRunning
       \/ RsAct \/ UpState \/ DetSSH \/ DetCat \/ WfpPodman \/ UpPkg \/ Certs
       \/ Prov \/ StState \/ VerClient \/ VerOut \/ Done
    /\ UNCHANGED <<envVars, verb>>

-----------------------------------------------------------------------------
Init ==
    /\ vm \in {"Running", "Stopped", "Saved", "Error"}
    /\ sshUp \in BOOLEAN /\ (sshUp => vm = "Running")
    /\ pendingReboot = FALSE
    /\ pluginFound \in BOOLEAN
    /\ osKnown \in BOOLEAN
    /\ verb = "none" /\ pc = "idle" /\ stack = <<>>
    /\ act = "Start" /\ desired = "Running" /\ polls = 0
    /\ issued = {} /\ since = Fresh(vm, sshUp) /\ outcome = "none"

Next ==
    \/ Machine
    \/ Start \/ Stop \/ Kill \/ Restart \/ Upgrade
    \/ Provision \/ ConfigureAuth \/ ConfigureAllAuth
    \/ Status \/ Version
    \/ Step

\* The CLI process runs each verb to its end: every step is a synchronous
\* call that returns.  Nothing obliges the user to issue a verb or the
\* hypervisor to move.
Spec == Init /\ [][Next]_vars /\ WF_vars(Step)

-----------------------------------------------------------------------------
\* Every variable keeps its type; in particular WaitFor never makes more
\* attempts than its bound.
TypeOK ==
    /\ vm \in MachineStates /\ sshUp \in BOOLEAN /\ pendingReboot \in BOOLEAN
    /\ pluginFound \in BOOLEAN /\ osKnown \in BOOLEAN
    /\ verb \in Verbs \cup {"none"} /\ pc \in Labels
    /\ stack \in Seq(Labels) /\ act \in Primitives /\ desired \in MachineStates
    /\ polls \in 0..MaxPolls /\ issued \subseteq Primitives
    /\ since \in [down : BOOLEAN, stopped : BOOLEAN, ssh : BOOLEAN]
    /\ outcome \in Outcomes

Finished(v, o) == pc = "idle" /\ verb = v /\ outcome = o

\* runActionForState returns ErrHostAlreadyInState before it calls the
\* action, in every verb that reaches it (Start, Stop, Kill, and Start
\* called by Restart or Upgrade): a rejected verb sent no primitive.
RejectionHasNoSideEffect ==
    (pc = "idle" /\ outcome = "already") => issued = {}

\* A verb that reports success has seen its target since the last primitive
\* it sent: Stop and Kill a Stopped machine (WaitFor on MachineInState),
\* the others a guest answering SSH (WaitForSSH, or the SSH command they
\* ran); status only reports a state.  A wait that ran out of attempts must
\* not be reported as success.
OkImpliesConfirmed ==
    (pc = "idle" /\ outcome = "ok" /\ verb # "Status") =>
        IF verb \in {"Stop", "Kill"} THEN since.stopped ELSE since.ssh

\* Every verb returns: each wait of host.go is bounded by WaitFor's attempts,
\* whatever the hypervisor does meanwhile.
VerbTerminates == (pc # "idle") ~> (pc = "idle")

\* The verbs keep the promise of AbstractHost, the steps of host.go hidden:
\* Restart takes one branch only, so a verb sends at most one primitive and
\* only its own; a rejection precedes any primitive; a successful Start,
\* Stop or Kill sent its primitive and then observed its target; every verb
\* returns.
Abstract == INSTANCE AbstractHost WITH busy <- pc # "idle"
AbstractHostSpec == Abstract!Spec

\* Host.Upgrade ensures the machine is running, starting it if it is not: it
\* is never turned away with "already running".
UpgradeNotRejected == ~Finished("Upgrade", "already")

\* Host.Restart reports success only after the machine really restarted:
\* by the Start branch, or by the driver's Restart followed by the machine
\* going down (so that the wait for Running observed the rebooted machine,
\* not the old one).
RestartConfirmed ==
    Finished("Restart", "ok") =>
        \/ "Start" \in issued
        \/ "Restart" \in issued /\ since.down

\* With the errdriver stand-in (plugin binary missing) every verb that
\* reaches the driver reports the driver's error, not a different failure.
\* BootstrapCertificates in ConfigureAllAuth runs before any driver call,
\* so its local failure is exempt.
MissingPluginReported ==
    (pc = "idle" /\ ~pluginFound /\ outcome # "none")
        => outcome \in {"driver_err", "state_err", "cert_err"}
====
