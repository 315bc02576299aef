SPECIFICATION Spec
CONSTANTS
    None = None
    Parsers = {p1, p2}
    Transactions = {t1, t2, t3}
    Uploads = {u1, u2}
    First = u1
    MoreUploads = {u1, u2, u3}
    Copies = {u2, u3}
    MaxGeneration = 1
    MaxOverruns = 0
    EditedBlocks = {"code", "picture"}
    Quoted = {"picture"}
    Captioned = {"picture"}
    Natives = {"n1", "n2"}
    EditedTexts = {"t"}
    NoText = "none"
    MaxRevisions = 3
    Reach = 1
    Characters <- ThreeCharacters
    TextLength = 6
    DescriptionLength = 1
    ByteBudgets <- ThreeBudgets
    PageOf <- ThreeBlocks
    DocumentOf <- ThreePages
    Letters = {"a", "b"}
    Patterns <- ThreePatterns
    BlockLength = 3
    MaxBudget = 3
    OpenBatch = 1
    GrepBatch = 2
    GrepAllMatches = 2
    MaxEdits = 1
INVARIANTS
    FilesMatchRows
    TextsFitTheirBlocks
    ChunksServe
    ReadingsTellWhatIsLeft
    LocksFlow
PROPERTIES
    StepsLoseNothing
SYMMETRY Symmetry
CHECK_DEADLOCK FALSE
