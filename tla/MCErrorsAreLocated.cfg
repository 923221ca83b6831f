\* The location of the error of a directive, as errors.go describes it.
SPECIFICATION Spec
CONSTANT
    Files <- MCFiles
INVARIANT
    ErrorsAreLocated
CHECK_DEADLOCK FALSE
