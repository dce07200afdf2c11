SPECIFICATION Spec
CONSTANTS
    Threads = {t1, t2}
    small = small
    other = other
    full = full
    huge = huge
    Keys <- MCKeys
    Charge <- MCCharge
    Total <- MCTotal
    Limit = 2
    ClockBound = 8
INVARIANTS
    Accounted
PROPERTIES
    OldestFirst
    ValueStays
