SPECIFICATION Spec
CONSTANTS
    Clients = {c1, c2}
    c1 = c1
    c2 = c2
    Kinds = {"read", "write", "cas"}
    Initial = 9
    MaxOps = 3
    Resolution = 2
    Fronts = {"jepsen"}
    Taggings <- McTaggings
SYMMETRY McSymmetry
CHECK_DEADLOCK FALSE
INVARIANT CompletedIsEnough
