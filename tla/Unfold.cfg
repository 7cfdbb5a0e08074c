SPECIFICATION Spec
CONSTANTS
    t1 = t1
    t2 = t2
    l1 = l1
    l2 = l2
    f = f
    g = g
    conf = conf
    Threads <- MCThreads
    Links <- MCLinks
    Walks <- AllWalks
    Children <- MCChildren
    Subdirs <- MCSubdirs
    NumSlots = 1
    Exchange <- ExchangeMayWork
    Faults <- CallsThatFail
    Signals = TRUE
INVARIANTS
    TypeOK
    NothingLeftBehind
    ViewShrinksOnlyInFallback
    InterruptCleansUp
    LossOnlyInWindow
