SPECIFICATION Spec
CONSTANTS
    TargetIP = 3
    TargetPort = 53
    Slots = 3
    ChunkSize = 3
    HeaderSize = 2
    GenRange = 3
    MaxPackets = 12
INVARIANTS
    EveryPacketOnce
    OnlyAnswers
    ResourcesExact
PROPERTIES
    HeldIsRead
