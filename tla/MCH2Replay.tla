----------------------------- MODULE MCH2Replay -----------------------------
(* Instances of H2Replay for model checking.                                *)
EXTENDS H2Replay, TLC

CONSTANTS b1, b2, b3, b4, b5, k1, k2

\* Three packets of one key, one of another, and one that is never replayed.
FiveBodies == {b1, b2, b3, b4, b5}
FiveKeys ==
  [b \in FiveBodies |->
     CASE b \in {b1, b2, b3} -> k1 [] b = b4 -> k2 [] b = b5 -> NoKey]

BodySymmetry == Permutations({b1, b2, b3})

=============================================================================
