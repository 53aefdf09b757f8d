\* Sequential unary calls from one thread that runs no loop: each asyncio.run makes a new loop, the pool keeps the old loop's connection.
CONSTANTS
    t1 = t1  t2 = t2
    l1 = l1  l2 = l2  l3 = l3  l4 = l4
    s1 = s1  s2 = s2
    NoLoop = NoLoop
    NoSlot = NoSlot
    Threads <- MCOneThread
    LoopIds <- MCLoopIds
    Slots <- MCSlotsOne
    Contexts <- MCSyncOnly
    Kinds <- MCUnary
    StreamLen <- MCStreamLen
SPECIFICATION Spec
INVARIANT NoStaleLoopUse
SYMMETRY MCLoopSymmetry
