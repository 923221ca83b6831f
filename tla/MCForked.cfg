SPECIFICATION Spec
CONSTANTS
    Recipes <- MCRecipes
    Elsewhere <- MCElsewhere
    MaxBuilds = 2
    Env <- MCEnv
    Dashed <- MCDashed
    FileOptions <- MCFileOptions
    Spaced <- MCSpaced
INVARIANTS
    StagesKeepTheirLabels
    StagesKeepTheirHistory
    BaseImageStays
CHECK_DEADLOCK FALSE
