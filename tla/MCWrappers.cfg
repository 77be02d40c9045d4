SPECIFICATION Spec
CONSTANTS
    f = f
    g = g
    d = d
    x = x
    top = top
    c1 = c1
    c2 = c2
    None = None
    Path = {f, g, d, x}
    Root = top
    Parent <- MCParent
    Content = {c1, c2}
    Target = f
    Operation <- MCOperation
    MaxEdits = 1
VIEW MCView
SYMMETRY MCSymmetry
INVARIANTS
    CommitsNamedPathOnly
    ResultsAreTrue
PROPERTIES
    NoLostEdit
    NoLostCommit
CHECK_DEADLOCK FALSE
