SPECIFICATION Spec
CONSTANTS
    Instances = {"pool", "resumed", "changed", "killed", "engine", "pairs", "sparse", "dense", "shifted",
                 "imports", "copies", "legacy rows", "campaign rows", "both runs",
                 "parse", "cycles"}
INVARIANTS
    ResultsAreWhole
    BooksAgree
    StreamIsWhole
    ResearchIsTrue
PROPERTIES
    StepsAreAllowed
    SweepsEnd
CHECK_DEADLOCK FALSE
