---------------------------- MODULE CreateFlags ----------------------------
(***************************************************************************)
(* The flag phase of the create command (commands/create.go).             *)
(* cmdCreateOuter guesses the driver from os.Args with flagHackLookup,     *)
(* loads that driver's plugin, adds the plugin's create flags to the       *)
(* create command and runs the application again.  The create command's   *)
(* flags are then parsed by the CLI library (Go's flag package), and       *)
(* cmdCreateInner makes the host with the driver the parse bound, sending  *)
(* that driver its flag values through getDriverOpts.                      *)
(*                                                                         *)
(* A command-line argument is a record: hy leading hyphens, a name, and    *)
(* "=value" when eq.  A word (hy = 0) is a value or the machine name.      *)
(* Every flag is written before the machine name.                          *)
(***************************************************************************)
EXTENDS Naturals, Sequences, SequencesExt

CONSTANTS
    Drivers,      \* driver plugins installed; "virtualbox" is the default
    DriverFlags,  \* the create flags each driver's GetCreateFlags declares
    SharedFlags,  \* SharedCreateFlags that take a value, "driver" included
    Words,        \* values and machine names a user may type
    MaxFlags      \* arguments between "create" and the machine name

ASSUME MaxFlags \in Nat

VARIABLES
    argv,     \* os.Args
    env,      \* $MACHINE_DRIVER, "" when unset
    pc,       \* "outer", "inner" or "done"
    offered,  \* the driver whose flags cmdCreateOuter added to the command
    created,  \* the driver cmdCreateInner made the host with
    sent,     \* the driver options handed to SetConfigFromFlags
    outcome

vars == <<argv, env, pc, offered, created, sent, outcome>>

Arg(h, n, e, v) == [hy |-> h, name |-> n, eq |-> e, val |-> v]
Word(w) == Arg(0, w, FALSE, "")
AllDriverFlags == UNION {DriverFlags[d] : d \in Drivers}

\* The arguments a user may type: flags of the command and of every driver,
\* with one or two hyphens, "driver" and its alias "d" also as -d=value.
Args ==
    {Arg(h, n, FALSE, "") : h \in {1, 2},
                            n \in {"d"} \cup SharedFlags \cup AllDriverFlags}
    \cup {Arg(h, n, TRUE, v) : h \in {1, 2}, n \in {"d", "driver"}, v \in Drivers}
    \cup {Word(w) : w \in Words}

\* What an argument reads as when a flag takes it as its value: a word is
\* itself, a flag is text no driver, value or machine has.
FlagText == "-flag"
Text(a) == IF a.hy = 0 THEN a.name ELSE FlagText

Default(f) == IF f = "driver" THEN "virtualbox" ELSE "default"

-----------------------------------------------------------------------------
(* flagHackLookup("--driver"): flagPrefix is "-d".                         *)

\* strings.Contains(arg, "-d"): among these arguments, a flag whose name
\* begins with d (no other name or value holds "-d").
ContainsPrefix(a) == a.hy >= 1 /\ a.name \in {"d", "driver"}
\* arg == flagPrefix || arg == flagName
IsBare(a) == ~a.eq /\ <<a.hy, a.name>> \in {<<1, "d">>, <<2, "driver">>}
\* strings.HasPrefix(arg, flagPrefix+"=") || strings.HasPrefix(arg, flagName+"=")
IsAssign(a) == a.eq /\ <<a.hy, a.name>> \in {<<1, "d">>, <<2, "driver">>}

\* The loop over os.Args from index i: the first match returns.
RECURSIVE LookupFrom(_, _)
LookupFrom(args, i) ==
    IF i > Len(args) THEN ""
    ELSE LET a == args[i] IN
         CASE ContainsPrefix(a) /\ IsBare(a) /\ i + 1 <= Len(args) -> Text(args[i + 1])
           [] ContainsPrefix(a) /\ IsAssign(a) -> a.val
           [] OTHER -> LookupFrom(args, i + 1)

FlagHackLookup(args) == LookupFrom(args, 1)

-----------------------------------------------------------------------------
(* The create command's flag parse.  The CLI library hands the arguments   *)
(* after "create" to Go's flag package: flags are read until the first     *)
(* word; -name and --name are the same flag; a flag without "=" takes the  *)
(* next argument, whatever it is, as its value; an undefined flag or a     *)
(* missing value is an error.  It is the one part of this module not       *)
(* under src/.                                                             *)

Canon(n) == IF n = "d" THEN "driver" ELSE n

RECURSIVE ParseFrom(_, _, _)
ParseFrom(args, known, set) ==
    IF args = <<>> \/ Head(args).hy = 0
    THEN [ok |-> TRUE, set |-> set, rest |-> args]
    ELSE LET a == Head(args) IN
         CASE Canon(a.name) \notin known -> [ok |-> FALSE, set |-> set, rest |-> args]
           [] a.eq -> ParseFrom(Tail(args), known, set \o <<<<Canon(a.name), a.val>>>>)
           [] Len(args) < 2 -> [ok |-> FALSE, set |-> set, rest |-> args]
           [] OTHER -> ParseFrom(Tail(Tail(args)), known,
                                 set \o <<<<Canon(a.name), Text(args[2])>>>>)

\* The arguments after "p2box create".
CreateArgs(args) == SubSeq(args, 3, Len(args))

Parse(known) == ParseFrom(CreateArgs(argv), known, <<>>)

\* The flag's value after the parse: the last occurrence wins; unset, the
\* driver flag reads $MACHINE_DRIVER (its EnvVar) before its default.
ValueOf(p, f) ==
    LET i == SelectLastInSeq(p.set, LAMBDA s : s[1] = f) IN
    CASE i > 0 -> p.set[i][2]
      [] f = "driver" /\ env # "" -> env
      [] OTHER -> Default(f)

\* addDriverFlagsToCommand: the create command's flags are SharedCreateFlags
\* and the converted create flags of driver d.
CommandFlags(d) == SharedFlags \cup DriverFlags[d]

\* getDriverOpts(c, mcnFlags) for new driver d: each of d's flags starts at
\* its default, then every flag of the command that is a Getter (the
\* string flags) overwrites its entry with the parsed value.
GetDriverOpts(p, known, d) ==
    [f \in AllDriverFlags |->
       CASE f \notin DriverFlags[d] -> "none"
         [] f \in known -> ValueOf(p, f)
         [] OTHER -> Default(f)]

-----------------------------------------------------------------------------
\* A create command line with up to MaxFlags arguments before the machine
\* name, with or without $MACHINE_DRIVER.
Init ==
    /\ argv \in {<<Word("p2box"), Word("create")>> \o a \o <<Word("m1")>> :
                   a \in BoundedSeq(Args, MaxFlags)}
    /\ env \in {""} \cup Drivers
    /\ pc = "outer" /\ offered = "none" /\ created = "none"
    /\ sent = [f \in AllDriverFlags |-> "none"] /\ outcome = "none"

\* cmdCreateOuter: the driver name from flagHackLookup, else $MACHINE_DRIVER,
\* else "virtualbox"; NewHost fails when no plugin has that name; the
\* plugin's GetCreateFlags are converted (every declared type is known) and
\* added to the create command, and the application runs again.
CreateOuter ==
    /\ pc = "outer"
    /\ LET looked == FlagHackLookup(argv)
           name   == CASE looked # "" -> looked
                        [] env # "" -> env
                        [] OTHER -> "virtualbox"
       IN IF name \in Drivers
          THEN offered' = name /\ pc' = "inner" /\ UNCHANGED outcome
          ELSE pc' = "done" /\ outcome' = "no_plugin" /\ UNCHANGED offered
    /\ UNCHANGED <<argv, env, created, sent>>

\* The create command runs: its flags (SharedCreateFlags and the offered
\* driver's) are parsed, then cmdCreateInner checks for exactly one
\* argument, calls NewHost(c.String("driver")), and getDriverOpts fills the
\* options from the new driver's GetCreateFlags defaults and then from
\* every flag of the command (the string flags are Getters).
CreateInner ==
    /\ pc = "inner"
    /\ LET known == CommandFlags(offered)
           p     == Parse(known)
           d     == ValueOf(p, "driver")
       IN CASE ~p.ok -> outcome' = "flag_err" /\ UNCHANGED <<created, sent>>
            [] Len(p.rest) # 1 -> outcome' = "arg_err" /\ UNCHANGED <<created, sent>>
            [] d \notin Drivers -> outcome' = "no_plugin" /\ UNCHANGED <<created, sent>>
            [] OTHER ->
                 /\ created' = d /\ outcome' = "created"
                 /\ sent' = GetDriverOpts(p, known, d)
    /\ pc' = "done"
    /\ UNCHANGED <<argv, env, offered>>

Next == CreateOuter \/ CreateInner

Spec == Init /\ [][Next]_vars

-----------------------------------------------------------------------------
\* The command line is a create command for driver d: parsed with the flags
\* of d, every flag takes a value that is not itself a flag, the driver
\* flag is given at most once and bound to d, and just the machine name is
\* left.
ValidFor(d) ==
    LET p == Parse(CommandFlags(d))
    IN /\ p.ok /\ Len(p.rest) = 1 /\ ValueOf(p, "driver") = d
       /\ \A i \in DOMAIN p.set : p.set[i][2] # FlagText
       /\ \A i, j \in DOMAIN p.set : p.set[i][1] = "driver" /\ p.set[j][1] = "driver" => i = j

\* The comment above flagHackLookup: the outer function reads the flags the
\* inner one will use.  Any command line that is a create command for an
\* installed driver creates the machine with that driver, and every flag of
\* that driver reaches its plugin with the value given on the command line.
CreateHonoursCommandLine ==
    pc = "done" =>
      \A d \in Drivers :
        ValidFor(d) =>
          LET p == Parse(CommandFlags(d)) IN
          /\ outcome = "created" /\ created = d
          /\ \A f \in DriverFlags[d] : sent[f] = ValueOf(p, f)
====
