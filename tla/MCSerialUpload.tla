--------------------------- MODULE MCSerialUpload ---------------------------
(* A bundled file of the root and one in a directory, files of one and of   *)
(* two chunks, and a damaged chunk that passes for another.                 *)
EXTENDS SerialUpload

CONSTANTS n1, n2, a, b, s

TwoFiles == {<<a>>, <<a, s>>}
OneBundled == (n1 :> <<a>>) @@ (n2 :> Absent)
SavesOrUploads == {[saves |-> 3, uploads |-> 0], [saves |-> 1, uploads |-> 1],
                   [saves |-> 0, uploads |-> 2]}
Roots == {n1 :> Absent, n1 :> <<a, s>>}
=============================================================================
