------------------------------ MODULE IsoCache ------------------------------
(***************************************************************************)
(* The boot2podman ISO cache of libmachine/mcnutils/b2p.go, shared by      *)
(* every CLI process of one store path: CopyIsoToMachineDir runs           *)
(* UpdateISOCache (recreate the cache directory, keep or refresh the       *)
(* cached ISO) and then copies the cached ISO into the machine's directory *)
(* or, for an explicit ISO URL, downloads that one there.  download writes *)
(* a temp file, removes the old destination and renames the temp file over *)
(* it.  Creates of different machines are independent verbs and may run   *)
(* at once; a process may be killed between any two calls; the network and *)
(* the file system may fail any call.                                      *)
(***************************************************************************)
EXTENDS Naturals, FiniteSets

CONSTANTS
    Procs,      \* CLI processes sharing the store path
    MaxLeaked,  \* temp files killed processes may leave (bounds the model)
    ReleaseCandidate \* version.RC(): the build asks for the release list

ASSUME MaxLeaked \in Nat /\ ReleaseCandidate \in BOOLEAN

VARIABLES
    dirExists,  \* the cache directory exists
    cache,      \* what the cache path holds
    pc,         \* per process: its step
    custom,     \* per process: an ISO URL was given at create time
    target,     \* per process: the directory download writes into
    localVer,   \* per process: the version isLatest read from the cache
    tagFailed,  \* per process: getReleaseTag failed inside isLatest (ghost)
    tmp,        \* per process: its temp file and what it holds
    mach,       \* per process: the ISO in its machine's directory
    leaked,     \* temp files left behind by killed processes
    outcome,    \* per process: how its last CopyIsoToMachineDir returned
    touched     \* per process: another process changed the cache since this
                \* one began (ghost)

vars == <<dirExists, cache, pc, custom, target, localVer, tagFailed, tmp,
          mach, leaked, outcome, touched>>

\* File contents: a whole ISO of the latest release, an older one, one
\* downloaded from a custom URL, an unreadable one, or a partly written file.
Contents == {"none", "partial", "old", "latest", "custom", "corrupt"}
Outcomes == {"none", "ok", "net_err", "fs_err", "eexist", "enoent", "killed",
             "panic"}
UpdateLabels == {"u_dir", "u_mkdir", "u_exists", "u_ver", "u_tag", "l_url"}
DownloadLabels == {"d_open", "d_temp", "d_copy", "d_stat", "d_remove",
                   "d_rename"}
Labels == {"idle", "c_url", "c_copy"} \cup UpdateLabels \cup DownloadLabels

\* The file a download of process p replaces, and what it fetches.
Dest(p) == IF target[p] = "cache" THEN cache ELSE mach[p]
Fetched(p) == IF target[p] = "cache" THEN "latest" ELSE "custom"

SetDest(p, c) ==
    IF target[p] = "cache"
    THEN cache' = c /\ UNCHANGED mach
    ELSE mach' = [mach EXCEPT ![p] = c] /\ UNCHANGED cache

\* getReleaseTag: GET .../releases/latest, or the whole release list for a
\* release candidate; a request, decoding or empty-tag error is returned.
\* With the list, tags[0] is read before any check: an empty list panics.
TagReplies == IF ReleaseCandidate THEN {"tag", "err", "panic"} ELSE {"tag", "err"}

Goto(p, l) == pc' = [pc EXCEPT ![p] = l]
Finish(p, o) == pc' = [pc EXCEPT ![p] = "idle"] /\ outcome' = [outcome EXCEPT ![p] = o]
\* download's deferred removeFileIfExists(f.Name()).
DropTmp(p) == tmp' = [tmp EXCEPT ![p] = "none"]

-----------------------------------------------------------------------------
\* CopyIsoToMachineDir(isoURL, machineName) for a new machine.
Begin(p) ==
    /\ pc[p] = "idle"
    /\ \E c \in BOOLEAN : custom' = [custom EXCEPT ![p] = c]
    /\ Goto(p, "u_dir")
    /\ target' = [target EXCEPT ![p] = "cache"]
    /\ tagFailed' = [tagFailed EXCEPT ![p] = FALSE]
    /\ mach' = [mach EXCEPT ![p] = "none"]
    /\ outcome' = [outcome EXCEPT ![p] = "none"]
    /\ UNCHANGED <<dirExists, cache, localVer, tmp, leaked>>

\* UpdateISOCache: os.Stat(imgCachePath); a missing directory is created.
UDir(p) ==
    /\ pc[p] = "u_dir"
    /\ Goto(p, IF dirExists THEN "u_exists" ELSE "u_mkdir")
    /\ UNCHANGED <<dirExists, outcome, localVer, tagFailed, target, mach>>

\* os.Mkdir fails with EEXIST when the directory appeared since the Stat.
UMkdir(p) ==
    /\ pc[p] = "u_mkdir"
    /\ \E ok \in BOOLEAN :
          CASE dirExists -> Finish(p, "eexist") /\ UNCHANGED dirExists
            [] ok -> dirExists' = TRUE /\ Goto(p, "u_exists")
                     /\ UNCHANGED outcome
            [] OTHER -> Finish(p, "fs_err") /\ UNCHANGED dirExists
    /\ UNCHANGED <<localVer, tagFailed, target, mach>>

\* exists := b.exists(); a custom URL returns nil (not cached); a missing
\* ISO is downloaded; an existing one is checked by isLatest.
UExists(p) ==
    /\ pc[p] = "u_exists"
    /\ Goto(p, CASE custom[p] -> "c_url"
                 [] cache = "none" -> "l_url"
                 [] OTHER -> "u_ver")
    /\ UNCHANGED <<dirExists, outcome, localVer, tagFailed, target, mach>>

\* Mutations of UVer: isLatest ignoring the error of b.version(), and
\* isLatest answering true when the local version cannot be read.
UVerNoErrCheck(p) ==
    /\ pc[p] = "u_ver"
    /\ Goto(p, "u_tag") /\ localVer' = [localVer EXCEPT ![p] = cache]
    /\ UNCHANGED <<dirExists, outcome, tagFailed, target, mach>>

UVer(p) ==
    /\ pc[p] = "u_ver"
    /\ IF cache \in {"old", "latest"}
       THEN Goto(p, "u_tag") /\ localVer' = [localVer EXCEPT ![p] = cache]
       ELSE Goto(p, "l_url") /\ UNCHANGED localVer
    /\ UNCHANGED <<dirExists, outcome, tagFailed, target, mach>>

\* isLatest: getReleaseTag(""); an error means "latest".  UpdateISOCache
\* returns nil when the cache is latest, else downloads.
UTag(p) ==
    /\ pc[p] = "u_tag"
    /\ \E r \in TagReplies :
          IF r = "panic"
          THEN Finish(p, "panic") /\ UNCHANGED tagFailed
          ELSE /\ tagFailed' = [tagFailed EXCEPT ![p] = (r = "err")]
               /\ Goto(p, IF r = "err" \/ localVer[p] = "latest"
                          THEN "c_copy" ELSE "l_url")
               /\ UNCHANGED outcome
    /\ UNCHANGED <<dirExists, localVer, target, mach>>

\* DownloadLatestBoot2Podman(""): getReleaseURL asks the GitHub API for the
\* tag; then DownloadISO into the cache directory.
LUrl(p) ==
    /\ pc[p] = "l_url"
    /\ \E r \in TagReplies :
          CASE r = "tag" -> Goto(p, "d_open") /\ UNCHANGED outcome
            [] r = "err" -> Finish(p, "net_err")
            [] OTHER -> Finish(p, "panic")
    /\ UNCHANGED <<dirExists, localVer, tagFailed, target, mach>>

\* CopyIsoToMachineDir with isoURL set: getReleaseURL(isoURL) (a GitHub
\* releases URL costs a tag request), then DownloadISO into machineDir.
CUrl(p) ==
    /\ pc[p] = "c_url"
    /\ \E r \in TagReplies :
          CASE r = "tag" -> Goto(p, "d_open") /\ target' = [target EXCEPT ![p] = "mach"]
                            /\ UNCHANGED outcome
            [] r = "err" -> Finish(p, "net_err") /\ UNCHANGED target
            [] OTHER -> Finish(p, "panic") /\ UNCHANGED target
    /\ UNCHANGED <<dirExists, localVer, tagFailed, mach>>

\* CopyIsoToMachineDir with no isoURL: CopyFile(cache, machineIsoPath).
CCopy(p) ==
    /\ pc[p] = "c_copy"
    /\ \E ok \in BOOLEAN :
          CASE cache = "none" -> Finish(p, "enoent") /\ UNCHANGED mach
            [] ok -> Finish(p, "ok") /\ mach' = [mach EXCEPT ![p] = cache]
            [] OTHER -> Finish(p, "fs_err") /\ UNCHANGED mach
    /\ UNCHANGED <<dirExists, localVer, tagFailed, target>>

UpdateStep(p) ==
    /\ \/ UDir(p) \/ UMkdir(p) \/ UExists(p) \/ UVer(p) \/ UTag(p) \/ LUrl(p)
       \/ CUrl(p) \/ CCopy(p)
    /\ UNCHANGED <<cache, custom, tmp, leaked>>

-----------------------------------------------------------------------------
(* download(dir, file, isoURL): the source is opened first, then a temp    *)
(* file in dir; once a temp file exists every return removes it (defer).   *)

\* url.Parse, then os.Open (file URL) or client.Get (http URL).
DOpen(p) ==
    /\ pc[p] = "d_open"
    /\ \E ok \in BOOLEAN :
          IF ok THEN Goto(p, "d_temp") /\ UNCHANGED outcome
                ELSE Finish(p, "net_err")
    /\ UNCHANGED <<tmp, cache, mach>>

\* Mutation of DTemp: downloading straight into dir/file, without a temp file.
DTempAtDest(p) ==
    /\ pc[p] = "d_temp"
    /\ \E ok \in BOOLEAN :
          IF ok THEN Goto(p, "d_copy") /\ tmp' = [tmp EXCEPT ![p] = "partial"]
                     /\ SetDest(p, "partial") /\ UNCHANGED outcome
                ELSE Finish(p, "fs_err") /\ UNCHANGED <<tmp, cache, mach>>

\* ioutil.TempFile(dir, file+".tmp"): an empty file of this process's own.
DTemp(p) ==
    /\ pc[p] = "d_temp"
    /\ \E ok \in BOOLEAN :
          IF ok THEN Goto(p, "d_copy") /\ tmp' = [tmp EXCEPT ![p] = "partial"]
                     /\ UNCHANGED outcome
                ELSE Finish(p, "fs_err") /\ UNCHANGED tmp
    /\ UNCHANGED <<cache, mach>>

DCopy(p) ==
    /\ pc[p] = "d_copy"
    /\ \E ok \in BOOLEAN :
          IF ok THEN Goto(p, "d_stat") /\ tmp' = [tmp EXCEPT ![p] = Fetched(p)]
                     /\ UNCHANGED outcome
                ELSE Finish(p, "net_err") /\ DropTmp(p)
    /\ UNCHANGED <<cache, mach>>

\* removeFileIfExists(dest): os.Stat ...
DStat(p) ==
    /\ pc[p] = "d_stat"
    /\ Goto(p, IF Dest(p) # "none" THEN "d_remove" ELSE "d_rename")
    /\ UNCHANGED <<tmp, cache, mach, outcome>>

\* ... then os.Remove, which fails with ENOENT if the file went meanwhile.
DRemove(p) ==
    /\ pc[p] = "d_remove"
    /\ \E ok \in BOOLEAN :
          CASE Dest(p) = "none" ->
                 Finish(p, "enoent") /\ DropTmp(p) /\ UNCHANGED <<cache, mach>>
            [] ok -> SetDest(p, "none") /\ Goto(p, "d_rename")
                     /\ UNCHANGED <<tmp, outcome>>
            [] OTHER ->
                 Finish(p, "fs_err") /\ DropTmp(p) /\ UNCHANGED <<cache, mach>>

\* os.Rename(f.Name(), dest) replaces dest atomically.  download returns
\* its error; on nil UpdateISOCache returns nil and CopyIsoToMachineDir
\* goes on to CopyFile, or the download into machineDir was the last step.
DRename(p) ==
    /\ pc[p] = "d_rename"
    /\ \E ok \in BOOLEAN :
          IF ok
          THEN /\ SetDest(p, tmp[p]) /\ DropTmp(p)
               /\ IF target[p] = "cache"
                  THEN Goto(p, "c_copy") /\ UNCHANGED outcome
                  ELSE Finish(p, "ok")
          ELSE Finish(p, "fs_err") /\ DropTmp(p) /\ UNCHANGED <<cache, mach>>

DownloadStep(p) ==
    /\ \/ DOpen(p) \/ DTemp(p) \/ DCopy(p) \/ DStat(p) \/ DRemove(p)
       \/ DRename(p)
    /\ UNCHANGED <<dirExists, custom, target, localVer, tagFailed, leaked>>

\* The process is killed (Ctrl-C): defers do not run, its temp file stays.
Crash(p) ==
    /\ pc[p] # "idle"
    /\ tmp[p] # "none" => leaked < MaxLeaked
    /\ Finish(p, "killed")
    /\ leaked' = leaked + (IF tmp[p] # "none" THEN 1 ELSE 0)
    /\ DropTmp(p)
    /\ UNCHANGED <<dirExists, cache, custom, target, localVer, tagFailed, mach>>

-----------------------------------------------------------------------------
\* The user may have deleted the cache directory; a cache left by earlier
\* versions may hold an older or an unreadable ISO.
Init ==
    /\ dirExists \in BOOLEAN
    /\ cache \in IF dirExists THEN {"none", "old", "latest", "corrupt"}
                              ELSE {"none"}
    /\ pc = [p \in Procs |-> "idle"]
    /\ custom = [p \in Procs |-> FALSE]
    /\ target = [p \in Procs |-> "cache"]
    /\ localVer = [p \in Procs |-> "none"]
    /\ tagFailed = [p \in Procs |-> FALSE]
    /\ tmp = [p \in Procs |-> "none"]
    /\ mach = [p \in Procs |-> "none"]
    /\ leaked = 0
    /\ outcome = [p \in Procs |-> "none"]
    /\ touched = [p \in Procs |-> FALSE]

\* The ghost touched: cleared when a process begins, set for every other
\* process whenever one changes the cache.
Touch(p) ==
    touched' = [q \in Procs |->
                  IF q = p THEN touched[q] /\ pc[q] # "idle"
                  ELSE touched[q] \/ cache' # cache]

Next ==
    \E p \in Procs :
       /\ Begin(p) \/ UpdateStep(p) \/ DownloadStep(p) \/ Crash(p)
       /\ Touch(p)

Spec == Init /\ [][Next]_vars

-----------------------------------------------------------------------------
\* Every variable keeps its type; isLatest only compares versions read
\* from a whole ISO.
TypeOK ==
    /\ dirExists \in BOOLEAN /\ cache \in Contents
    /\ pc \in [Procs -> Labels] /\ custom \in [Procs -> BOOLEAN]
    /\ target \in [Procs -> {"cache", "mach"}]
    /\ localVer \in [Procs -> {"none", "old", "latest"}]
    /\ tagFailed \in [Procs -> BOOLEAN]
    /\ tmp \in [Procs -> Contents] /\ mach \in [Procs -> Contents]
    /\ leaked \in 0..MaxLeaked /\ outcome \in [Procs -> Outcomes]
    /\ touched \in [Procs -> BOOLEAN]

\* download writes a temp file and renames it over the destination, so the
\* cache path never holds a partly written ISO, whichever call fails and
\* wherever a process is killed.
CacheWhole == cache # "partial"

====
