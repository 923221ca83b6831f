SPECIFICATION Spec
CONSTANTS
    Recipes <- MCUnlabelled
    Elsewhere <- MCElsewhere
    MaxBuilds = 2
    Env <- MCEnv
    Dashed <- MCDashed
    FileOptions <- MCFileOptions
    Spaced <- MCSpaced
INVARIANTS
    IndexIsOfTheCmd
    SizeIsOfAllFiles
    ArchitectureIsOfTheModel
    WordsReachTheServer
CHECK_DEADLOCK FALSE
