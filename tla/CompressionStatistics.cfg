CONSTANTS
    t1 = t1
    t2 = t2
    image = image
    empty = empty
    link = link
    Files <- MCFiles
    ExtensionOf <- MCExtensionOf
    KindOf <- MCKindOf
    Incompressible <- MCIncompressible
    Unit = 32
    MaxCompressionLevel = 7
    RawRates <- MCRawRates
    NumThreads = 2
    NoFile = NoFile
    MaxCommands = 4
    MaxKills = 1
SPECIFICATION Spec
INVARIANTS TypeOK NoSampleLost IncompressibleStays LearnedIsKept
CHECK_DEADLOCK FALSE
