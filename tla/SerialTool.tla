----------------------------- MODULE SerialTool -----------------------------
(***************************************************************************)
(* What the serial driver wrapper promises (spec.md section 4.2): in a    *)
(* batch, every host runs its verb as a sequence of driver calls, and the *)
(* hypervisor tool of a family that cannot bear concurrent invocation     *)
(* runs the calls of all hosts of that family one at a time.  A call      *)
(* begins and ends; a failing call, or a host that cannot be loaded, ends *)
(* the host's verb; every verb ends.                                      *)
(***************************************************************************)
EXTENDS Naturals

CONSTANTS
    Hosts,        \* the machines of the batch
    Serialized,   \* those whose driver family must be serialized
    MaxCalls      \* driver calls a verb makes when none fails

ASSUME Serialized \subseteq Hosts /\ MaxCalls \in Nat \ {0}

VARIABLES
    st,     \* per host: "ready" for its next call, "in" one, or "done"
    left    \* per host: the calls its verb still has to make

vars == <<st, left>>

Init ==
    /\ st = [h \in Hosts |-> "ready"]
    /\ left = [h \in Hosts |-> MaxCalls]

\* No host of a serialized family is inside a call.
ToolFree == \A g \in Serialized : st[g] # "in"

Begin(h) ==
    /\ st[h] = "ready" /\ left[h] > 0
    /\ h \in Serialized => ToolFree
    /\ st' = [st EXCEPT ![h] = "in"]
    /\ UNCHANGED left

End(h) ==
    /\ st[h] = "in"
    /\ \/ /\ left' = [left EXCEPT ![h] = @ - 1]
          /\ st' = [st EXCEPT ![h] = IF left[h] = 1 THEN "done" ELSE "ready"]
       \/ st' = [st EXCEPT ![h] = "done"] /\ UNCHANGED left

\* The verb gives up before its first call.
Fail(h) ==
    /\ st[h] = "ready" /\ left[h] = MaxCalls
    /\ st' = [st EXCEPT ![h] = "done"]
    /\ UNCHANGED left

Next == \E h \in Hosts : Begin(h) \/ End(h) \/ Fail(h)

\* A call in progress ends; a host waiting for its family's tool gets it,
\* however often others take it first.
Spec ==
    /\ Init /\ [][Next]_vars
    /\ \A h \in Hosts : WF_vars(End(h)) /\ SF_vars(Begin(h))

\* The calls of a serialized family never overlap.
Exclusive == \A g, h \in Serialized : st[g] = "in" /\ st[h] = "in" => g = h

\* Every host's verb ends.
Termination == <>(\A h \in Hosts : st[h] = "done")
====
