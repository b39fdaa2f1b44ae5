------------------------------- MODULE MCStaging -------------------------------
(* Three launches of profile A (the second is started even if the preflight      *)
(* fails, the third only checks) next to one of profile B.  Nothing runs under   *)
(* idC, an engine id that is no longer used, but its file may have stayed.       *)
(* A and B fit side by side, all three do not.                                   *)
EXTENDS Staging, TLC

CONSTANTS l1, l2, l3, l4, idA, idB, idC

MCLaunches == {l1, l2, l3, l4}
MCEngineId == [l \in MCLaunches |-> IF l = l3 THEN idB ELSE idA]
MCBytes    == (idA :> 2) @@ (idB :> 2) @@ (idC :> 1)

\* The ranks of an engine are interchangeable.
RankSymmetry == Permutations(Ranks)
================================================================================
