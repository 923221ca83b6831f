\* The bases that the linter looks at.
SPECIFICATION Spec
CONSTANTS
    Key <- MCKey
    PlatformArgs <- MCPlatformArgs
    Recipes <- MCRecipes
    Given <- MCGiven
INVARIANT
    LintedWithDefaults
CHECK_DEADLOCK FALSE
