SPECIFICATION FairSpec
CONSTANTS
    n1 = n1
    n2 = n2
    n3 = n3
    ctx = ctx
    Node <- MCNode
    Registered <- MCRegistered
INVARIANTS
    IInv
PROPERTIES
    ImplementsCycleCheck
    Terminates
CHECK_DEADLOCK FALSE
