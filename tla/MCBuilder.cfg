SPECIFICATION FairSpec
CONSTANTS
    MaxTargets = 3
    Requests <- MCRequests
    Builds <- MCBuilds
INVARIANTS
    RecipeIsTheUsers
    IgnoreFileOfTheRecipe
    PatternsAreOfTheFile
PROPERTIES
    ImplementsBuildResult
    Answers
CHECK_DEADLOCK FALSE
