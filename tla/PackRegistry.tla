---------------------------- MODULE PackRegistry ----------------------------
(***************************************************************************)
(* What kubedrill install promises of the versions of a pack: one complete *)
(* copy of each is kept, which an install replaces in one step by a newer  *)
(* one, or not at all.  What is kept goes only with a failure that is      *)
(* known to lose it.  A copy is known by its build, numbered from 1 in the *)
(* order the sources came, and 0 is none.  PackStore, the directories that *)
(* are renamed and removed behind it, implements this.                     *)
(***************************************************************************)
EXTENDS Naturals

CONSTANT
    Version     \* the versions of the pack

VARIABLES
    kept,       \* the complete copy of each version
    reported,   \* the one that the last install which returned has reported
    failed      \* versions whose copy a failed install gives up

vars == <<kept, reported, failed>>

Init ==
    /\ kept = [v \in Version |-> 0]
    /\ reported = [v \in Version |-> 0]
    /\ failed = {}

Report(v, b) ==
    /\ reported' = [reported EXCEPT ![v] = b]
    /\ failed' = failed \ {v}

\* The install returns at once, or has something left to do, or is killed.
Replace(v) ==
    /\ kept'[v] > kept[v]
    /\ kept' = [kept EXCEPT ![v] = kept'[v]]
    /\ Report(v, kept'[v]) \/ UNCHANGED <<reported, failed>>

Return(v) ==
    /\ kept[v] # 0
    /\ Report(v, kept[v])
    /\ UNCHANGED kept

Fail(v) ==
    /\ failed' = failed \cup {v}
    /\ UNCHANGED <<kept, reported>>

Lose(v) ==
    /\ v \in failed
    /\ kept' = [kept EXCEPT ![v] = 0]
    /\ UNCHANGED <<reported, failed>>

Next == \E v \in Version : Replace(v) \/ Return(v) \/ Fail(v) \/ Lose(v)

Spec == Init /\ [][Next]_vars
=============================================================================
