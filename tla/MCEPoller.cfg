SPECIFICATION Spec
CONSTANTS
    Channels = {c1, c2, c3, c4}
    Fds = {3, 4, 5}
SYMMETRY ChannelSymmetry
INVARIANTS
    RegistrationAgrees
PROPERTIES
    WatchSpec
CHECK_DEADLOCK FALSE
