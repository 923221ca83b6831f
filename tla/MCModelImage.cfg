SPECIFICATION Spec
CONSTANTS
    Recipes <- MCRecipes
    Elsewhere <- MCElsewhere
    MaxBuilds = 3
    Env <- MCEnv
    Dashed <- MCDashed
    FileOptions <- MCFileOptions
    Spaced <- MCSpaced
INVARIANTS
    PositionsHold
    RunNamesTheFiles
    OnlyTheLastCmd
    LabelsPrevail
    HistoryIsWhole
CHECK_DEADLOCK FALSE
