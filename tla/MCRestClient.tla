---------------------------- MODULE MCRestClient ----------------------------
(* Model-checking instance of RestClient: model values for callers, keys   *)
(* and object contents.                                                    *)
EXTENDS RestClient, TLC

CONSTANTS c1, c2, k1, p1

MCCallers == {c1, c2}
MCCallers1 == {c1}
MCKeys == {k1}
MCPayloads == {p1}

(* Callers are interchangeable threads.                                    *)
MCSymmetry == Permutations(MCCallers)
=============================================================================
