SPECIFICATION Spec
CONSTANTS
    Threads = {t1, t2}
    NoThread = NoThread
    MaxPacket = 4096
    Lines <- SomeLines
    Packets <- SomePackets
    MaxEntries = 3
    MaxTakes = 3
    t1 = t1
    t2 = t2
INVARIANTS IteratorValid CacheIsFiltered EvenlyServed
PROPERTIES ImplementsRoundRobin
