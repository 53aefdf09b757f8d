\* One thread calling unary operations and get_stream from both contexts: each path can end up driving a loop on a thread whose loop is already running.
CONSTANTS
    t1 = t1  t2 = t2
    l1 = l1  l2 = l2  l3 = l3  l4 = l4
    s1 = s1  s2 = s2
    NoLoop = NoLoop
    NoSlot = NoSlot
    Threads <- MCOneThread
    LoopIds <- MCLoopIds
    Slots <- MCSlotsOne
    Contexts <- MCAllContexts
    Kinds <- MCUnaryStream
    StreamLen <- MCStreamLen
SPECIFICATION Spec
INVARIANT NoNestedDrive
SYMMETRY MCLoopSymmetry
