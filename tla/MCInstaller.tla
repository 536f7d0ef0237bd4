---------------------------- MODULE MCInstaller -----------------------------
(* Every image of at most two extents on a disk of five sectors, with exact, *)
(* missing and trailing payload; transfer windows that split the extents.    *)
EXTENDS Installer

Extents == [lba : 0 .. 5, n : 0 .. 3]
AllImages ==
    [header : {TRUE}, rest : {FALSE}, payload : 0 .. 6,
     extents : {<<>>} \union {<<e>> : e \in Extents}
                      \union {<<d, e>> : d \in Extents, e \in Extents}]
    \union [header : BOOLEAN, rest : BOOLEAN, payload : {3},
            extents : {<<[lba |-> 1, n |-> 3]>>}]
AllTargets ==
    {[capacity |-> 5, flush |-> TRUE, batch |-> b] : b \in 0 .. 3}
    \union {[capacity |-> 5, flush |-> FALSE, batch |-> 2],
            [capacity |-> 4, flush |-> TRUE, batch |-> 2]}
=============================================================================
