\* A file is renamed and then left alone for a snapshot.
SPECIFICATION Spec
CONSTANTS
    p1 = p1
    p2 = p2
    a = a
    b = b
    dir = dir
    sha = sha
    Paths <- TwoPaths
    Contents <- TwoContents
    SizeOf <- Sizes
    TypeOf <- TypesOf
    Algorithms = {sha}
    None = None
    EditKinds <- Renames
    EditsWhileAdding = TRUE
    MaxEdits = 1
    MaxSnapshots = 3
    MaxReconfigurations = 0
INVARIANTS
    EveryNodeRestores
