-------------------------- MODULE MCEmailVerification --------------------------
(* Instances of EmailVerification for TLC: worker sets and symmetry.        *)
EXTENDS EmailVerification, TLC

CONSTANTS w1, w2

OneWorker == {w1}
TwoWorkers == {w1, w2}

Symmetry == Permutations(Workers)
=============================================================================
