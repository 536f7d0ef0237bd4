---------------------------- MODULE AtomicVolume ----------------------------
(***************************************************************************)
(* What the native source partition promises its users: a map from path    *)
(* names to files that changes one name at a time, and that a power loss   *)
(* either leaves as it is or takes back to the version before the one      *)
(* change that was not yet synchronised.                                   *)
(***************************************************************************)
CONSTANTS
    Names,      \* the path names
    Files,      \* the file contents
    Absent,     \* the name was never stored
    Deleted     \* the name is hidden by a tombstone

VARIABLES
    vol,        \* vol[n]: what a lookup of n yields now
    stable      \* the volume that is certain to survive a power loss

vars == <<vol, stable>>

Init ==
    /\ vol = [n \in Names |-> Absent]
    /\ stable = vol

\* One name changes; only when every change before it is durable.
Commit(n, x) ==
    /\ stable = vol
    /\ vol' = [vol EXCEPT ![n] = x]
    /\ stable' \in {stable, vol'}

\* The change is made durable.
Sync ==
    /\ stable' = vol
    /\ UNCHANGED vol

\* Power is lost, with or without the change that is at risk.
Lose ==
    /\ vol' \in {vol, stable}
    /\ stable' = vol'

Next ==
    \/ \E n \in Names, x \in Files \union {Deleted} : Commit(n, x)
    \/ Sync
    \/ Lose

Spec == Init /\ [][Next]_vars
=============================================================================
