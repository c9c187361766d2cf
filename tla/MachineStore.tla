---------------------------- MODULE MachineStore ----------------------------
(***************************************************************************)
(* The create and rm commands (commands/create.go, commands/rm.go) and the *)
(* libmachine Client calls they make (Create, performCreate, Load), seen   *)
(* from what they leave behind: a record per machine name in the store and *)
(* the instances the driver created.  One CLI process runs one command at  *)
(* a time and may be killed between any two calls (Ctrl-C during the       *)
(* minutes a create waits); the driver and the store may fail any call.    *)
(***************************************************************************)
EXTENDS Naturals, Sequences, FiniteSets

CONSTANTS
    Names,        \* machine names
    MaxVMs,       \* instances a name may accumulate (bounds the model)
    ByName,       \* the driver finds its instance by machine name (virtualbox)
                  \* rather than by an ID it learns in Create (cloud drivers)
    StoreMayFail  \* whether store calls (Exists, Save, Remove) may fail

ASSUME MaxVMs \in Nat \ {0} /\ ByName \in BOOLEAN /\ StoreMayFail \in BOOLEAN

VARIABLES
    record,       \* the store: "absent", or the host saved before Driver.Create
                  \* ("bare") or after it, with the driver's state ("full")
    vms,          \* live instances created under each name
    pluginMissing,\* names whose driver plugin binary is not installed
    abandoned,    \* instances a forced rm left behind on purpose, per name
    cmd,          \* the command the process runs
    pc,           \* its step
    name,         \* the machine the step is about
    todo,         \* rm: the names still to process after name
    argSet,       \* rm: every name given on the command line
    force,        \* rm: --force
    remoteOk,     \* rm: removeRemoteMachine(name) returned nil
    errs,         \* rm: names an error message was collected for
    outcome       \* how the last command returned

vars == <<record, vms, pluginMissing, abandoned, cmd, pc, name, todo, argSet,
          force, remoteOk, errs, outcome>>
rmVars == <<todo, argSet, force, remoteOk, errs>>

Records == {"absent", "bare", "full"}
Outcomes == {"none", "ok", "error", "exists", "killed"}
Labels == {"idle", "c_exists", "c_pre", "c_save1", "c_create", "c_save2",
           "c_provision", "c_save3", "r_remote", "r_local", "r_next", "r_end"}

\* The result of a store call.
StoreResults == IF StoreMayFail THEN BOOLEAN ELSE {TRUE}

\* Driver calls: nothing done, done but reported failed, or done.
DriverResults == {"lost_request", "lost_reply", "ok"}

\* The instance the driver rebuilt from a record can find: a record saved
\* after Create carries the instance's ID; one saved before it only lets a
\* driver that looks instances up by name find it.
Reachable(n) ==
    IF record[n] = "full" \/ (record[n] = "bare" /\ ByName) THEN 1 ELSE 0

\* Client.NewHost: NewRPCClientDriver fails when the plugin binary is missing.
NewHostOk(n) == n \notin pluginMissing

\* Client.Load: the store read (ok) and NewRPCClientDriver.  A missing plugin
\* binary is not an error here: the host gets the errdriver, which fails
\* every call, so the host has no working driver either way.
Loaded(n, ok) == ok /\ record[n] # "absent" /\ n \notin pluginMissing

\* Argument lists of rm: one or two distinct names.
ArgLists == {<<a>> : a \in Names} \cup {<<a, b>> \in Names \X Names : a # b}

Finish(o) == pc' = "idle" /\ outcome' = o

-----------------------------------------------------------------------------
(* create: cmdCreateInner -> Client.Create -> performCreate                *)

\* cmdCreateInner up to api.Exists: the argument and name checks, then
\* NewHost, which resolves the plugin (a missing binary is an error here).
CreateBegin(n) ==
    /\ pc = "idle"
    /\ cmd' = "create" /\ name' = n
    /\ \E ok \in BOOLEAN :
          IF ok /\ NewHostOk(n)
          THEN pc' = "c_exists" /\ outcome' = "none"
          ELSE Finish("error")
    /\ UNCHANGED <<record, vms, pluginMissing, abandoned, rmVars>>

\* if exists { return ErrHostAlreadyExists }
CExists ==
    /\ pc = "c_exists"
    /\ \E ok \in StoreResults :
          CASE ~ok -> Finish("error")
            [] record[name] # "absent" -> Finish("exists")
            [] OTHER -> pc' = "c_pre" /\ UNCHANGED outcome
    /\ UNCHANGED <<record, vms>>

\* cmdCreateInner: Driver.SetConfigFromFlags; then Client.Create:
\* BootstrapCertificates and Driver.PreCreateCheck.  Any error returns.
CPre ==
    /\ pc = "c_pre"
    /\ \E ok \in BOOLEAN :
          IF ok THEN pc' = "c_save1" /\ UNCHANGED outcome ELSE Finish("error")
    /\ UNCHANGED <<record, vms>>

\* Client.Create: api.Save(h) before attempting creation.
CSave1 ==
    /\ pc = "c_save1"
    /\ \E ok \in StoreResults :
          IF ok THEN record' = [record EXCEPT ![name] = "bare"]
                     /\ pc' = "c_create" /\ UNCHANGED outcome
                ELSE Finish("error") /\ UNCHANGED record
    /\ UNCHANGED vms

\* performCreate: h.Driver.Create(); an error returns before the next Save.
CCreate ==
    /\ pc = "c_create"
    /\ vms[name] < MaxVMs
    /\ \E res \in DriverResults :
          /\ vms' = IF res = "lost_request" THEN vms
                    ELSE [vms EXCEPT ![name] = @ + 1]
          /\ IF res = "ok" THEN pc' = "c_save2" /\ UNCHANGED outcome
                           ELSE Finish("error")
    /\ UNCHANGED record

\* performCreate: api.Save(h) after creation, now with the driver's state.
CSave2 ==
    /\ pc = "c_save2"
    /\ \E ok \in StoreResults :
          IF ok THEN record' = [record EXCEPT ![name] = "full"]
                     /\ pc' = "c_provision" /\ UNCHANGED outcome
                ELSE Finish("error") /\ UNCHANGED record
    /\ UNCHANGED vms

\* performCreate: wait for Running, detect and run the provisioner, check
\* podman over SSH ("none" and "ci-test" drivers skip all of it).  These
\* act on the guest only; any failure is returned.
CProvision ==
    /\ pc = "c_provision"
    /\ \E ok \in BOOLEAN :
          IF ok THEN pc' = "c_save3" /\ UNCHANGED outcome ELSE Finish("error")
    /\ UNCHANGED <<record, vms>>

\* cmdCreateInner: the final api.Save(h).
CSave3 ==
    /\ pc = "c_save3"
    /\ \E ok \in StoreResults :
          Finish(IF ok THEN "ok" ELSE "error")
    /\ UNCHANGED <<record, vms>>

CreateStep ==
    /\ \/ CExists \/ CPre \/ CSave1 \/ CCreate \/ CSave2 \/ CProvision \/ CSave3
    /\ UNCHANGED <<pluginMissing, abandoned, cmd, name, rmVars>>

-----------------------------------------------------------------------------
(* rm: cmdRm, removeRemoteMachine, removeLocalMachine, collectError        *)

\* cmdRm: userConfirm proceeds on --force or -y, else asks; a "no" returns
\* nil having done nothing.
RmBegin(args, f) ==
    /\ pc = "idle"
    /\ cmd' = "rm" /\ force' = f /\ errs' = {} /\ remoteOk' = FALSE
    /\ name' = Head(args) /\ todo' = Tail(args)
    /\ argSet' = {args[i] : i \in DOMAIN args}
    /\ \E confirmed \in BOOLEAN :
          IF f \/ confirmed THEN pc' = "r_remote" /\ outcome' = "none"
                            ELSE Finish("ok")
    /\ UNCHANGED <<record, vms, pluginMissing, abandoned>>

\* Mutations of RRemote: cmdRm removing the local record whatever the
\* remote removal returned, and cmdRm returning at the first failure.
RRemoteAlwaysLocal ==
    /\ pc = "r_remote"
    /\ \E loadOk \in StoreResults, res \in DriverResults :
          LET driven  == Loaded(name, loadOk)
              found   == Reachable(name) = 1 /\ vms[name] > 0
              success == driven /\ res = "ok"
          IN /\ vms' = IF driven /\ found /\ res # "lost_request"
                       THEN [vms EXCEPT ![name] = @ - 1] ELSE vms
             /\ remoteOk' = success
             /\ errs' = IF success THEN errs ELSE errs \cup {name}
             /\ pc' = "r_local"
    /\ UNCHANGED <<record, abandoned, name, todo, outcome>>

RRemoteStopOnError ==
    /\ pc = "r_remote"
    /\ \E loadOk \in StoreResults, res \in DriverResults :
          LET driven  == Loaded(name, loadOk)
              found   == Reachable(name) = 1 /\ vms[name] > 0
              success == driven /\ res = "ok"
          IN /\ vms' = IF driven /\ found /\ res # "lost_request"
                       THEN [vms EXCEPT ![name] = @ - 1] ELSE vms
             /\ remoteOk' = success
             /\ errs' = IF success THEN errs ELSE errs \cup {name}
             /\ pc' = CASE success \/ force -> "r_local" [] OTHER -> "r_end"
    /\ UNCHANGED <<record, abandoned, name, todo, outcome>>

\* removeRemoteMachine: api.Load, then currentHost.Driver.Remove().  Load
\* substitutes the errdriver, whose Remove fails, when the plugin is
\* missing.  A failure is collected; local removal follows on success or
\* with --force.
RRemote ==
    /\ pc = "r_remote"
    /\ \E loadOk \in StoreResults, res \in DriverResults :
          LET driven  == Loaded(name, loadOk)
              found   == Reachable(name) = 1 /\ vms[name] > 0
              removed == driven /\ found /\ res # "lost_request"
              success == driven /\ res = "ok"
          IN /\ vms' = IF removed THEN [vms EXCEPT ![name] = @ - 1] ELSE vms
             /\ remoteOk' = success
             /\ errs' = IF success THEN errs ELSE errs \cup {name}
             /\ pc' = IF success \/ force THEN "r_local" ELSE "r_next"
    /\ UNCHANGED <<record, abandoned, name, todo, outcome>>

\* Mutation of RLocal: api.Remove's error dropped (return nil).
RLocalDropRemoveErr ==
    /\ pc = "r_local"
    /\ \E existsOk \in StoreResults, removeOk \in StoreResults :
          LET exist == existsOk /\ record[name] # "absent"
              gone  == exist /\ removeOk
              left  == IF gone /\ ~remoteOk /\ force /\ vms[name] > abandoned[name]
                       THEN Reachable(name) ELSE 0
          IN /\ record' = IF gone THEN [record EXCEPT ![name] = "absent"] ELSE record
             /\ errs' = IF exist THEN errs ELSE errs \cup {name}
             /\ abandoned' = [abandoned EXCEPT ![name] = @ + left]
    /\ pc' = "r_next"
    /\ UNCHANGED <<vms, remoteOk, name, todo, outcome>>

\* removeLocalMachine: exist, _ := api.Exists (an error reads as "does not
\* exist"), then api.Remove.  A record dropped by --force after the remote
\* removal failed leaves its instance behind on purpose, if it has one
\* that the store still reached.
RLocal ==
    /\ pc = "r_local"
    /\ \E existsOk \in StoreResults, removeOk \in StoreResults :
          LET exist == existsOk /\ record[name] # "absent"
              gone  == exist /\ removeOk
              left  == IF gone /\ ~remoteOk /\ force /\ vms[name] > abandoned[name]
                       THEN Reachable(name) ELSE 0
          IN /\ record' = IF gone THEN [record EXCEPT ![name] = "absent"] ELSE record
             /\ errs' = IF gone THEN errs ELSE errs \cup {name}
             /\ abandoned' = [abandoned EXCEPT ![name] = @ + left]
    /\ pc' = "r_next"
    /\ UNCHANGED <<vms, remoteOk, name, todo, outcome>>

\* The loop over c.Args().
RNext ==
    /\ pc = "r_next"
    /\ IF todo = <<>>
       THEN pc' = "r_end" /\ UNCHANGED <<name, todo, remoteOk>>
       ELSE /\ pc' = "r_remote" /\ name' = Head(todo) /\ todo' = Tail(todo)
            /\ remoteOk' = FALSE
    /\ UNCHANGED <<record, vms, abandoned, errs, outcome>>

\* if len(errorOccurred) > 0 && !force { return the joined messages }
REnd ==
    /\ pc = "r_end"
    /\ Finish(IF errs # {} /\ ~force THEN "error" ELSE "ok")
    /\ UNCHANGED <<record, vms, abandoned, name, todo, remoteOk, errs>>

RmStep ==
    /\ RRemote \/ RLocal \/ RNext \/ REnd
    /\ UNCHANGED <<pluginMissing, cmd, argSet, force>>

-----------------------------------------------------------------------------
(* The environment.                                                        *)

\* The process is killed between two calls.
Crash ==
    /\ pc # "idle"
    /\ Finish("killed")
    /\ UNCHANGED <<record, vms, pluginMissing, abandoned, cmd, name, rmVars>>

\* The user uninstalls a driver plugin binary.
Uninstall(n) ==
    /\ n \notin pluginMissing
    /\ pluginMissing' = pluginMissing \cup {n}
    /\ UNCHANGED <<record, vms, abandoned, cmd, pc, name, rmVars, outcome>>

Init ==
    /\ record = [n \in Names |-> "absent"]
    /\ vms = [n \in Names |-> 0]
    /\ pluginMissing = {}
    /\ abandoned = [n \in Names |-> 0]
    /\ cmd = "none" /\ pc = "idle" /\ name \in Names
    /\ todo = <<>> /\ argSet = {} /\ force = FALSE /\ remoteOk = FALSE
    /\ errs = {} /\ outcome = "none"

Next ==
    \/ \E n \in Names : CreateBegin(n)
    \/ CreateStep
    \/ \E args \in ArgLists, f \in BOOLEAN : RmBegin(args, f)
    \/ RmStep
    \/ Crash
    \/ \E n \in Names : Uninstall(n)

Spec == Init /\ [][Next]_vars

-----------------------------------------------------------------------------
\* Every instance a driver created can be reached through the store, so rm
\* can remove it, unless a forced rm dropped its record on purpose or a
\* create is between Driver.Create and the Save that records it.  Store
\* records are written before Driver.Create (Client.Create) and rm keeps a
\* record whose remote removal failed (cmdRm, unless --force).
NoUntrackedInstance ==
    \A n \in Names :
        LET inFlight == IF cmd = "create" /\ pc = "c_save2" /\ name = n THEN 1 ELSE 0
        IN vms[n] <= Reachable(n) + abandoned[n] + inFlight

\* When rm's loop is over, every machine named on the command line has lost
\* its record or has an error collected for it: a failure on one machine
\* does not stop the others from being removed.
RmEveryNameAccounted ==
    pc = "r_end" => \A n \in argSet : record[n] = "absent" \/ n \in errs

\* When rm's loop is over with no error collected, every machine named on
\* the command line is gone: its record is removed and it has no instance
\* left but those an earlier forced rm abandoned.  rm's silence must mean
\* that the remote removal and the local one both happened, whatever the
\* store and the driver returned on the way.
RmCleanMeansRemoved ==
    (pc = "r_end" /\ errs = {}) =>
        \A n \in argSet : record[n] = "absent" /\ vms[n] <= abandoned[n]
====
