\* Two files that share volumes, two threads, one volume may stay open.
SPECIFICATION FairSpec
CONSTANTS
    s1 = s1
    s2 = s2
    NoStream = NoStream
    Streams <- TwoStreams
    NumThreads = 2
    NumVolumes = 4
    MaxOpenVolumes = 1
    Layouts <- SharedLayouts
    Lengths <- SharedLengths
    MaxCall = 2
INVARIANTS
    TypeOK
    ReaderHasVolume
    CountersExact
    OpenVolumesExact
    BytesInOrder
    UnusedVolumesBounded
PROPERTIES
    NeededVolumesStayOpen
    EveryReaderEnds
