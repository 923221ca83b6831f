SPECIFICATION Spec
CONSTANTS
    p1 = p1
    p2 = p2
    latest = latest
    demo = demo
    d1 = d1
    d2 = d2
    l1 = l1
    l2 = l2
    Process <- One
    Tag = {latest, demo}
    Digest = {d1, d2}
    Layer = {l1, l2}
    Layers <- Twice
    PartCount = 2
    Kinds = {"pull", "force", "remove", "removeid"}
    Faults = TRUE
    None = None
PROPERTIES
    LinkedWhenWhole
    RemovalByIdSparesOthers
