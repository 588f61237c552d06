----------------------------- MODULE MCScaling -------------------------------
(* Two rows and two columns, so that factors differ between neighbours; two*)
(* iterations of Ruiz, so that the factors of the first are not published. *)
EXTENDS Scaling

MCRows == {1, 2}
MCCols == {1, 2}
MCFactors == {0, 1}
MCGlobalFactors == {0, -1}
MCLanes == {"lane"}
==============================================================================
