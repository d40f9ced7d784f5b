SPECIFICATION Spec
CONSTANTS
    Threads = {t1, t2}
    Rates <- LastRejected
    MaxSend = 1
    MaxDup = 0
    CounterRange = 64
    t1 = t1
    t2 = t2
SYMMETRY Symmetry
INVARIANTS SessionInv FinalReadingExact DiffNonNegative ListeningWhileAwaited ReportedOnce
PROPERTIES NoResultWiped ImplementsLoadTest
