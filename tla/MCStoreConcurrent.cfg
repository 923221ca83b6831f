SPECIFICATION Spec
CONSTANTS
    p1 = p1
    p2 = p2
    latest = latest
    demo = demo
    d1 = d1
    d2 = d2
    l1 = l1
    l2 = l2
    Process <- Two
    Tag = {latest}
    Digest = {d1, d2}
    Layer = {l1}
    Layers <- Shared
    PartCount = 2
    Kinds = {"run"}
    Faults = TRUE
    None = None
INVARIANTS
    IInv
    TornIsBeingWritten
SYMMETRY Alike
