\* A volume file is shorter than its blocks say.
SPECIFICATION FairSpec
CONSTANTS
    s1 = s1
    s2 = s2
    NoStream = NoStream
    Streams <- TwoStreams
    NumThreads = 1
    NumVolumes = 1
    MaxOpenVolumes = 1
    Layouts <- TruncatedLayouts
    Lengths <- TruncatedLengths
    MaxCall = 2
PROPERTIES
    EveryReaderEnds
