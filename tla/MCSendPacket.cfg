SPECIFICATION Spec
CONSTANTS
    DnssecRates = {0, 30, 100}
    TextSizes = {17, 271}
    PcapSizes = {41, 42, 43, 4096}
    Bodies = {129923}
    Ports = {1024, 65535}
    Ids = {0, 59999}
    SourceIP = 1
    Targets = {2, 3}
    TargetPort = 53
    AddrRange = 4
    NetSizes = {2, 4}
    Word = 65536
    SizeRange = 65536
    MaxPacket = 4096
    Header = 28
    PcapHeader = 42
    OptSize = 11
    MaxTaken = 11
INVARIANTS ChecksumCovers ChecksumVerifies SourceAsAsked DnssecShare EndsByInputOnly
