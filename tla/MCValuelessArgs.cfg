\* A global argument without a value.
SPECIFICATION Spec
CONSTANTS
    Key <- MCKey
    PlatformArgs <- MCPlatformArgs
    Recipes <- MCRecipes
    Given <- MCGiven
INVARIANT
    ValuesAreOptional
CHECK_DEADLOCK FALSE
