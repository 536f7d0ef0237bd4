-------------------------------- MODULE Lists ---------------------------------
(***************************************************************************)
(* The loops of the code that walk a list and take some of its elements:   *)
(* the job queues of TaskBridge, and the catalog and the file list of      *)
(* SourceFiles.                                                            *)
(***************************************************************************)
EXTENDS Integers, Sequences

(* The elements of a sequence that are in S, in their order. *)
Only(s, S) ==
    LET pick[n \in 0 .. Len(s)] ==
          IF n = 0 THEN <<>>
          ELSE IF s[n] \in S THEN Append(pick[n - 1], s[n]) ELSE pick[n - 1]
    IN pick[Len(s)]
=============================================================================
