---------------------------- MODULE MCSourceStore ----------------------------
(* Small instances of SourceStore. *)
EXTENDS SourceStore, TLC

CONSTANTS n1, n2, f1, f2

\* f1 fills one sector exactly, f2 ends in a partial second sector.
TwoFiles == {f1, f2}
OneFile == {f1}
TwoBlocks == [f \in Files |-> IF f = f1 THEN 1 ELSE 2]
OneFull == [f \in Files |-> 1]
FiveSectors == [b \in Bank |-> 5]
SixSectors == [b \in Bank |-> 6]

NameSymmetry == Permutations({n1, n2})
=============================================================================
