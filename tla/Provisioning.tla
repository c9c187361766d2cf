---------------------------- MODULE Provisioning ----------------------------
(***************************************************************************)
(* The systemd provisioner of libmachine/provision/systemd.go, driven by   *)
(* Host.Provision (host.go): detection builds a fresh provisioner, which   *)
(* is handed a copy of the host's EngineOptions; GenerateEngineOptions     *)
(* appends the provider label and renders the daemon's flag file; the file *)
(* is written to the guest and the engine service restarted through       *)
(* Service, which runs "systemctl daemon-reload" before start and restart. *)
(* Callers may also run Service(start|stop|restart) on their own.  Every   *)
(* command goes over SSH and may fail before it runs, or run and still     *)
(* report an error (the reply is lost).  One operation runs at a time on a *)
(* host.                                                                   *)
(***************************************************************************)
EXTENDS Naturals, Sequences

CONSTANTS
    LabelChoices,   \* the --engine-label lists a host may be created with
    Provider,       \* the label "provider=<driver name>"
    Insecure,       \* --engine-insecure-registry values
    Mirrors,        \* --engine-registry-mirror values
    Flags,          \* --engine-opt values
    MaxOps          \* operations a run of the model issues (bounds the model)

ASSUME MaxOps \in Nat \ {0}

VARIABLES
    hostLabels,  \* h.HostOptions.EngineOptions.Labels, as saved in the store
    provLabels,  \* p.EngineOptions.Labels of the provisioner in hand
    rendered,    \* the EngineOptionsString GenerateEngineOptions returned
    disk,        \* the flag file on the guest: NoConfig or a rendering
    loaded,      \* the unit configuration systemd last (re)loaded
    running,     \* whether the engine service is running
    daemon,      \* the configuration the engine last started with
    pc,          \* the step of the operation in progress
    svc,         \* the Service action in progress
    ops,         \* operations issued so far
    outcome      \* how the last operation returned

vars == <<hostLabels, provLabels, rendered, disk, loaded, running, daemon,
          pc, svc, ops, outcome>>

NoConfig == <<>>          \* no flag file: the package's own defaults
ServiceActions == {"start", "stop", "restart"}
Results == {"ok", "lost_request", "lost_reply"}   \* an SSHCommand

\* A rendered flag: the flag and its value.  "range .X" of the template
\* writes one flag per element of X.
Tokens(f, s) == [i \in 1..Len(s) |-> [f |-> f, v |-> s[i]]]

\* The template of GenerateEngineOptions as the sequence of flags it writes,
\* in its order; the TLS paths and storage driver are fixed per host and
\* abstracted to their flag, the Environment= line (empty: create passes no
\* --engine-env in this model) is left out.
Render(labels) ==
    Tokens("fixed", <<"storage-driver", "tlsverify", "tlscacert", "tlscert",
                      "tlskey">>)
    \o Tokens("label", labels) \o Tokens("insecure-registry", Insecure)
    \o Tokens("registry-mirror", Mirrors) \o Tokens("arbitrary", Flags)

-----------------------------------------------------------------------------
\* A host created with some labels; the guest has never been provisioned.
Init ==
    /\ hostLabels \in LabelChoices
    /\ provLabels = <<>> /\ rendered = NoConfig
    /\ disk = NoConfig /\ loaded = NoConfig
    /\ running = FALSE /\ daemon = NoConfig
    /\ pc = "idle" /\ svc = "restart" /\ ops = 0 /\ outcome = "none"

Return(o) == pc' = "idle" /\ outcome' = o

\* Host.Provision: DetectProvisioner (its SSH wait or os-release read may
\* fail); on success p.New(d) builds a fresh SystemdProvisioner, and
\* provisioner.Provision(*h.HostOptions.AuthOptions,
\* *h.HostOptions.EngineOptions) receives a copy of the host's options.
Provision ==
    /\ pc = "idle" /\ ops < MaxOps
    /\ ops' = ops + 1
    /\ \/ Return("error") /\ UNCHANGED provLabels
       \/ pc' = "gen" /\ provLabels' = hostLabels /\ UNCHANGED outcome
    /\ UNCHANGED <<hostLabels, rendered, disk, loaded, running, daemon, svc>>

\* Mutation of GenerateEngineOptions: the provider label appended to the
\* host's own options rather than to the provisioner's copy.
GenerateEngineOptionsShared ==
    /\ pc = "gen"
    /\ hostLabels' = Append(hostLabels, Provider)
    /\ provLabels' = Append(provLabels, Provider)
    /\ rendered' = Render(Append(provLabels, Provider))
    /\ pc' = "write"
    /\ UNCHANGED <<disk, loaded, running, daemon, svc, ops, outcome>>

\* SystemdProvisioner.GenerateEngineOptions: append "provider=<driver>" to
\* p.EngineOptions.Labels and render the template; Execute's error is
\* ignored and the template always parses.
GenerateEngineOptions ==
    /\ pc = "gen"
    /\ provLabels' = Append(provLabels, Provider)
    /\ rendered' = Render(Append(provLabels, Provider))
    /\ pc' = "write"
    /\ UNCHANGED <<hostLabels, disk, loaded, running, daemon, svc, ops,
                   outcome>>

\* Provision writes the rendered options to the guest's flag file over SSH,
\* then restarts the engine service.
WriteOptions ==
    /\ pc = "write"
    /\ \E r \in Results :
         /\ disk' = IF r = "lost_request" THEN disk ELSE rendered
         /\ IF r = "ok" THEN pc' = "reload" /\ svc' = "restart"
                             /\ UNCHANGED outcome
            ELSE Return("error") /\ UNCHANGED svc
    /\ UNCHANGED <<hostLabels, provLabels, rendered, loaded, running, daemon,
                   ops>>

\* A caller runs p.Service("podman", action) directly.
CallService ==
    /\ pc = "idle" /\ ops < MaxOps
    /\ ops' = ops + 1
    /\ \E a \in ServiceActions : svc' = a
    /\ pc' = "reload"
    /\ UNCHANGED <<hostLabels, provLabels, rendered, disk, loaded, running,
                   daemon, outcome>>

\* Mutation of ServiceReload: reloadDaemon set for Start only.
ServiceReloadStartOnly ==
    /\ pc = "reload"
    /\ IF svc = "start"
       THEN \E r \in Results :
              /\ loaded' = IF r = "lost_request" THEN loaded ELSE disk
              /\ IF r = "ok" THEN pc' = "act" /\ UNCHANGED outcome
                 ELSE Return("error")
       ELSE pc' = "act" /\ UNCHANGED <<loaded, outcome>>
    /\ UNCHANGED <<hostLabels, provLabels, rendered, disk, running, daemon,
                   svc, ops>>

\* Service: for Start and Restart, "sudo systemctl daemon-reload" first; its
\* error returns before the action is issued.
ServiceReload ==
    /\ pc = "reload"
    /\ IF svc \in {"start", "restart"}
       THEN \E r \in Results :
              /\ loaded' = IF r = "lost_request" THEN loaded ELSE disk
              /\ IF r = "ok" THEN pc' = "act" /\ UNCHANGED outcome
                 ELSE Return("error")
       ELSE pc' = "act" /\ UNCHANGED <<loaded, outcome>>
    /\ UNCHANGED <<hostLabels, provLabels, rendered, disk, running, daemon,
                   svc, ops>>

\* What "systemctl -f <action>" does to the engine: stop stops it, start
\* leaves a running engine as it is, restart and start of a stopped engine
\* run the configuration systemd has loaded.
Starts(a) == a = "restart" \/ (a = "start" /\ ~running)

\* Service: "sudo systemctl -f <action> <name>", then return its error.
ServiceAction ==
    /\ pc = "act"
    /\ \E r \in Results :
         /\ running' = IF r = "lost_request" THEN running ELSE svc # "stop"
         /\ daemon' = IF r # "lost_request" /\ Starts(svc) THEN loaded
                      ELSE daemon
         /\ Return(IF r = "ok" THEN "ok" ELSE "error")
    /\ UNCHANGED <<hostLabels, provLabels, rendered, disk, loaded, svc, ops>>

Next ==
    \/ Provision \/ GenerateEngineOptions \/ WriteOptions
    \/ CallService \/ ServiceReload \/ ServiceAction

\* No fairness: nothing obliges a caller to provision or manage services.
Spec == Init /\ [][Next]_vars

-----------------------------------------------------------------------------
\* However many times a host is provisioned, the flag file on the guest is
\* the rendering of the labels the host was saved with plus exactly one
\* provider label: GenerateEngineOptions' append must land on the
\* provisioner's copy of the options (host.go passes them by value), never
\* on the host's own.
DiskFollowsHost ==
    disk = NoConfig \/ disk = Render(Append(hostLabels, Provider))

\* When Service(restart) returns nil, or Service(start) returns nil for a
\* stopped engine, the engine runs the flag file now on disk, however the
\* file changed since the last reload: the daemon-reload of systemd.go must
\* precede both actions.
ServiceAppliesDisk ==
    [][ (pc = "act" /\ outcome' = "ok"
         /\ Starts(svc))
        => daemon' = disk ]_vars
====
