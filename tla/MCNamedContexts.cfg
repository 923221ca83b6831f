SPECIFICATION FairContextSpec
CONSTANTS
    MaxContextRecursion = 2
    Path = {"x", "y"}
    Worlds <- MCWorlds
INVARIANTS
    FollowsThePolicies
    SendsWhatIsRead
PROPERTIES
    EveryoneIsAnswered
CHECK_DEADLOCK FALSE
