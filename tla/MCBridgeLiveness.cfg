\* Two threads, one pool slot, unary calls and close from both contexts; no symmetry, since CallsReturn is a liveness property.
CONSTANTS
    t1 = t1  t2 = t2
    l1 = l1  l2 = l2  l3 = l3  l4 = l4
    s1 = s1  s2 = s2
    NoLoop = NoLoop
    NoSlot = NoSlot
    Threads <- MCThreads
    LoopIds <- MCLoopIds
    Slots <- MCSlotsOne
    Contexts <- MCAllContexts
    Kinds <- MCUnaryClose
    StreamLen <- MCStreamLen
SPECIFICATION Spec
PROPERTY CallsReturn
