\* Two files and two snapshots.
SPECIFICATION ViewerSpec
CONSTANTS
    p1 = p1
    p2 = p2
    a = a
    b = b
    sha = sha
    Paths <- TwoPaths
    Contents <- TwoContents
    SizeOf <- Sizes
    TypeOf <- TypesOf
    Algorithms = {sha}
    None = None
    EditKinds = {"write"}
    EditsWhileAdding = FALSE
    MaxEdits = 1
    MaxSnapshots = 2
    MaxReconfigurations = 0
INVARIANTS
    RevisionsAreOfTheFile
