---------------------------- MODULE PolledMirror ----------------------------
(***************************************************************************)
(* What the polling of a unit promises to whoever reads the mirror: each   *)
(* block of registers a poll mirrors holds contents the unit really had,   *)
(* all of one moment, and it is only ever replaced by contents of the same *)
(* block that are at least as recent.                                      *)
(***************************************************************************)
EXTENDS Naturals

CONSTANT Poll     \* the polls, one per block of registers

VARIABLES
    version,      \* how often the block has changed at the unit
    mirror        \* the version of the block the gateway holds

Init ==
    /\ version = [p \in Poll |-> 0]
    /\ mirror = [p \in Poll |-> 0]

\* The block changes at the unit.
Change(p) ==
    /\ version' = [version EXCEPT ![p] = @ + 1]
    /\ UNCHANGED mirror

\* A poll brings contents between those of the last poll and the current ones.
Refresh(p) ==
    /\ \E v \in mirror[p] .. version[p] : mirror' = [mirror EXCEPT ![p] = v]
    /\ UNCHANGED version

Next == \E p \in Poll : Change(p) \/ Refresh(p)

Spec == Init /\ [][Next]_<<version, mirror>>
=============================================================================
