--------------------------- MODULE MCAsyncBridge ---------------------------
(* Model values and bounds for TLC runs of AsyncBridge. *)
EXTENDS AsyncBridge, TLC

CONSTANTS t1, t2, l1, l2, l3, l4, s1, s2

MCThreads == {t1, t2}
MCOneThread == {t1}
MCLoopIds == {l1, l2, l3}
MCLoopIdsFour == {l1, l2, l3, l4}
MCSlotsOne == {s1}
MCSlotsTwo == {s1, s2}
MCAllContexts == {"sync", "async"}
MCSyncOnly == {"sync"}
MCAsyncOnly == {"async"}
MCAllKinds == {"unary", "stream", "close"}
MCUnaryClose == {"unary", "close"}
MCUnary == {"unary"}
MCStreamOnly == {"stream"}
MCUnaryStream == {"unary", "stream"}
MCStreamLen == 2
MCStreamLenOne == 1

MCSymmetry == Permutations(MCThreads) \cup Permutations(MCLoopIds)
MCLoopSymmetry == Permutations(MCLoopIds)
=============================================================================
