\* Two paths, two contents of the same size, a directory; edits that race with the snapshots.
SPECIFICATION Spec
CONSTANTS
    p1 = p1
    p2 = p2
    a = a
    b = b
    dir = dir
    sha = sha
    Paths <- TwoPaths
    Contents <- FilesAndDirectory
    SizeOf <- Sizes
    TypeOf <- TypesOf
    Algorithms = {sha}
    None = None
    EditKinds <- AllEdits
    EditsWhileAdding = TRUE
    MaxEdits = 3
    MaxSnapshots = 3
    MaxReconfigurations = 0
SYMMETRY Symmetry
INVARIANTS
    TypeOK
    UnchangedMeansRecorded
    OwnReferencesRestore
PROPERTIES
    UntouchedIsRecorded
    OnlyNewDataIsStored
    NoDifferenceAfterwards
