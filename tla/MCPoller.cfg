SPECIFICATION Spec
CONSTANTS
    Channels = {c1, c2, c3}
    Fds = {0, 3}
SYMMETRY ChannelSymmetry
INVARIANTS
    TableConsistent
    AssertionsHold
    NoDanglingChannel
PROPERTIES
    OthersUndisturbed
