SPECIFICATION FairSpec
CONSTANTS
    Ops = {o1, o2}
    SystemUser = TRUE
    Faults = FALSE
    QueueBound = 2
PROPERTIES
    ListensAgain
    ComesToRest
