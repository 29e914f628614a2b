-------------------------- MODULE MC_LiveQueries --------------------------
(* Model-checking instance of LiveQueries: model values for names, models *)
(* and ids.                                                                *)
EXTENDS LiveQueries, TLC

CONSTANTS n1, n2, mA, mB, i1

MC_Names == {n1, n2}
MC_Names1 == {n1}
MC_Models == {mA, mB}
MC_Ids == {i1}

=============================================================================
