\* Renames and rewrites of three paths between three snapshots, and a change of the algorithm.
SPECIFICATION Spec
CONSTANTS
    p1 = p1
    p2 = p2
    p3 = p3
    text = text
    empty = empty
    sha = sha
    md5 = md5
    Paths <- ThreePaths
    Contents <- TextAndEmpty
    SizeOf <- Sizes
    TypeOf <- TypesOf
    Algorithms <- TwoAlgorithms
    None = None
    EditKinds <- WritesAndRenames
    EditsWhileAdding = FALSE
    MaxEdits = 2
    MaxSnapshots = 3
    MaxReconfigurations = 1
SYMMETRY Symmetry
ACTION_CONSTRAINT TasksInOrder
INVARIANTS
    ReadersAgree
    DiffIsTruthful
    RevisionsAreVersions
