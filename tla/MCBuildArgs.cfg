\* The arguments of builds, with and without values that are given.
SPECIFICATION Spec
CONSTANTS
    Key <- MCKey
    PlatformArgs <- MCPlatformArgs
    Recipes <- MCRecipes
    Given <- MCGiven
INVARIANTS
    GivenPrevails
    SameInEveryStage
    IgnoredDefaultsNeverFail
    OutlineIsWhole
CHECK_DEADLOCK FALSE
