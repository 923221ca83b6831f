SPECIFICATION Spec
CONSTANTS
    MaxTargets = 3
    Requests <- SharedRequests
    Builds <- SharedBuilds
INVARIANT
    StrictBuildsFail
CHECK_DEADLOCK FALSE
