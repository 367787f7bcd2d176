\* Three files, two pool threads, volumes smaller than a file.
SPECIFICATION FairSpec
CONSTANTS
    f1 = f1
    f2 = f2
    f3 = f3
    NoWriter = NoWriter
    Files <- ThreeFiles
    NumThreads = 2
    VolumeSize = 2
    UInt32Size = 8
    MaxBytes = 3
    MaxCall = 3
INVARIANTS
    TypeOK
    ExclusiveOwnership
    LeftSizeExact
    BlocksReproduceFile
    EveryByteInOneBlock
    OpenVolumesBounded
    VolumeNumbersDense
PROPERTIES
    EveryFileIsStored
    ImplementsFileStore
