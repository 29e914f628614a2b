------------------------- MODULE MC_YekongaSocket -------------------------
(* Model-checking instance of YekongaSocket: model values for messages.    *)
EXTENDS YekongaSocket, TLC

CONSTANTS m1, m2, ra, rb

MC_Msgs == {m1, m2}
MC_Rooms == {ra}
MC_Rooms2 == {ra, rb}
MC_NoPoison == {}
MC_Poison == {m1}

\* Acked messages are interchangeable; sound for the safety runs.
MC_Symmetry == Permutations(MC_Msgs)

=============================================================================
