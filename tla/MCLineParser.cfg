\* Parse over all the files of MCLineParser.
SPECIFICATION Spec
CONSTANT
    Files <- MCFiles
INVARIANTS
    EveryLineIsPlaced
    InstructionsAreWhole
    HeredocsAreVerbatim
    ReadToTheEnd
    DirectivesAgree
CHECK_DEADLOCK FALSE
