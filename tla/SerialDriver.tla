---------------------------- MODULE SerialDriver ----------------------------
(***************************************************************************)
(* A batch command runs one verb per machine in parallel (spec.md section *)
(* 5), each on a host from Client.Load (libmachine.go), which wraps the   *)
(* driver of a "virtualbox" host in drivers.NewSerialDriver: every call   *)
(* takes one process-wide mutex, calls the RPC driver, and unlocks in a   *)
(* defer, on error too.  A host whose plugin binary is missing gets the   *)
(* errdriver, whose every call fails at once; a host that cannot be       *)
(* loaded fails its verb.  inTool is the set of hosts whose call is       *)
(* running in their plugin's hypervisor tool.                             *)
(***************************************************************************)
EXTENDS Naturals

CONSTANTS
    Hosts,        \* the machines of the batch
    DriverName,   \* h.DriverName of each
    MaxCalls,     \* driver calls a verb makes when none fails
    None

ASSUME MaxCalls \in Nat \ {0} /\ None \notin Hosts

VARIABLES
    pc,        \* per host: "load", "ready", "acquire", "in", "release", "done"
    left,      \* per host: the calls its verb still has to make
    failed,    \* per host: its last call returned an error
    wrapped,   \* per host: Load wrapped its driver in the serial driver
    lock       \* the serial driver's mutex: the host holding it, or None

vars == <<pc, left, failed, wrapped, lock>>

\* The hosts whose driver family the serial driver exists for.
VBoxHosts == {h \in Hosts : DriverName[h] = "virtualbox"}

Init ==
    /\ pc = [h \in Hosts |-> "load"]
    /\ left = [h \in Hosts |-> MaxCalls]
    /\ failed = [h \in Hosts |-> FALSE]
    /\ wrapped = [h \in Hosts |-> FALSE]
    /\ lock = None

Goto(h, l) == pc' = [pc EXCEPT ![h] = l]

\* Mutation of Load: the family compared with a misspelt name.
LoadNoWrap(h) ==
    /\ pc[h] = "load"
    /\ \/ Goto(h, "ready") /\ UNCHANGED wrapped
       \/ Goto(h, "done") /\ UNCHANGED wrapped
    /\ UNCHANGED <<left, failed, lock>>

\* Client.Load: Filestore.Load and NewRPCClientDriver succeed, and the
\* driver of a "virtualbox" host is wrapped; or either fails, or the plugin
\* is missing and the errdriver's first call fails: the verb ends without
\* reaching a hypervisor.
Load(h) ==
    /\ pc[h] = "load"
    /\ \/ Goto(h, "ready")
          /\ wrapped' = [wrapped EXCEPT ![h] = DriverName[h] = "virtualbox"]
       \/ Goto(h, "done") /\ UNCHANGED wrapped
    /\ UNCHANGED <<left, failed, lock>>

\* The verb makes its next driver call: through the serial driver, which
\* first locks, or straight to the RPC driver.
Call(h) ==
    /\ pc[h] = "ready"
    /\ Goto(h, IF wrapped[h] THEN "acquire" ELSE "in")
    /\ UNCHANGED <<left, failed, wrapped, lock>>

\* SerialDriver: d.Lock().
Acquire(h) ==
    /\ pc[h] = "acquire" /\ lock = None
    /\ lock' = h
    /\ Goto(h, "in")
    /\ UNCHANGED <<left, failed, wrapped>>

\* Where the verb goes after a call: a call whose error the verb returns
\* ends it (runActionForState: if err := action(); err != nil { return err }),
\* as does its last call.  A GetState error inside MachineInState or WaitFor
\* is read as "not in that state" and the verb goes on: for the control it
\* is a call without error (err = FALSE).
After(h, err) == IF err \/ left'[h] = 0 THEN "done" ELSE "ready"

\* The RPC call returns, with or without an error.
Return(h) ==
    /\ pc[h] = "in"
    /\ \E err \in BOOLEAN :
         /\ failed' = [failed EXCEPT ![h] = err]
         /\ left' = IF err THEN left ELSE [left EXCEPT ![h] = @ - 1]
         /\ Goto(h, IF wrapped[h] THEN "release" ELSE After(h, err))
    /\ UNCHANGED <<wrapped, lock>>

\* SerialDriver: the deferred d.Unlock() as the method returns.
Release(h) ==
    /\ pc[h] = "release"
    /\ lock' = None
    /\ Goto(h, IF failed[h] \/ left[h] = 0 THEN "done" ELSE "ready")
    /\ UNCHANGED <<left, failed, wrapped>>

Next ==
    \E h \in Hosts :
        Load(h) \/ Call(h) \/ Acquire(h) \/ Return(h) \/ Release(h)

\* Each verb runs in its own goroutine, which the Go scheduler keeps
\* running; a goroutine blocked in Lock gets the mutex eventually, however
\* often others take it (sync.Mutex hands it to a waiter that has waited
\* over a millisecond).
Spec ==
    /\ Init /\ [][Next]_vars
    /\ \A h \in Hosts :
         /\ WF_vars(Load(h)) /\ WF_vars(Call(h)) /\ WF_vars(Return(h))
         /\ WF_vars(Release(h)) /\ SF_vars(Acquire(h))

inTool == {h \in Hosts : pc[h] = "in"}

-----------------------------------------------------------------------------
\* The serial driver implements the abstract promise: the virtualbox
\* family's calls run one at a time and every verb of the batch ends.  A
\* host that has returned from a call but not yet unlocked is already past
\* it; one still loading or waiting for the mutex has not begun it.
Abstract == INSTANCE SerialTool WITH
    Serialized <- VBoxHosts,
    st <- [h \in Hosts |->
             CASE pc[h] = "in" -> "in"
               [] pc[h] = "release" ->
                    IF failed[h] \/ left[h] = 0 THEN "done" ELSE "ready"
               [] pc[h] = "done" -> "done"
               [] OTHER -> "ready"],
    left <- left

SerialToolSpec == Abstract!Spec
====
