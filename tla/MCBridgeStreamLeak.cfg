\* get_stream abandoned mid-stream by a caller without a running loop.
CONSTANTS
    t1 = t1  t2 = t2
    l1 = l1  l2 = l2  l3 = l3  l4 = l4
    s1 = s1  s2 = s2
    NoLoop = NoLoop
    NoSlot = NoSlot
    Threads <- MCThreads
    LoopIds <- MCLoopIds
    Slots <- MCSlotsOne
    Contexts <- MCSyncOnly
    Kinds <- MCStreamOnly
    StreamLen <- MCStreamLen
SPECIFICATION Spec
INVARIANT StreamReleased
SYMMETRY MCSymmetry
