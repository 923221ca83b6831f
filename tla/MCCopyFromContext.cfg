SPECIFICATION Spec
CONSTANTS
    alpha = alpha
    beta = beta
    gamma = gamma
    img = img
    lib = lib
    tool = tool
    empty = empty
    context = context
    noname = noname
    p = p
    q = q
    root = root
    url = url
    Name <- MCName
    NoName = noname
    Scratch = empty
    Context = context
    ConvertImage = tool
    QuantizeImage = tool
    Path <- MCPath
    Root = root
    Remote = url
    MaxStates = 7
    Inputs <- CopyFromContext
INVARIANTS
    Meaning
CHECK_DEADLOCK FALSE
