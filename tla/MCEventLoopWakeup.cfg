SPECIFICATION Spec
CONSTANTS
    Workers = {w1}
    Functors = {f1, f2}
INVARIANT
    WakeupReachesPoll
