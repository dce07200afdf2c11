SPECIFICATION Spec
CONSTANTS
    Ops = {o1, o2}
    SystemUser = TRUE
    Faults = TRUE
    QueueBound = 3
SYMMETRY OpSymmetry
INVARIANTS
    ArmedIsTrue
    OffStaysOff
    NeverForgotten
    OneTaskPerJob
