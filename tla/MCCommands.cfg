SPECIFICATION CommandSpec
CONSTANTS
    latest = latest
    mistralnemo12b = mistralnemo12b
    tombstone = tombstone
    d1 = d1
    d2 = d2
    byName = byName
    byId = byId
    byBoth = byBoth
    idLike = idLike
    bad = bad
    Path = {latest, mistralnemo12b, tombstone}
    Digest = {d1, d2}
    Arg = {byName, byId, byBoth, idLike, bad}
    Ref <- Refs
    LooksLikeId = {byId, byBoth, idLike}
    Prefixed <- Beginnings
    MaxArgs = 3
    None = None
    Blocks = 4
    Inputs <- AllInputs
    Unset = Unset
INVARIANTS
    NothingIsOrphaned
    RemovedIsGone
    OnlyNamedOrLast
    StepsReachTheEnd
CHECK_DEADLOCK FALSE
