\* A duration printed is not the duration parsed.
SPECIFICATION Spec
CONSTANTS
    Alphabets <- SmallAlphabets
    None = None
    Bad = Bad
    Width = 6
    Nodes <- SmallNodes
    Absent = Absent
    Grammars <- SmallGrammars
    Document = Document
    Unset = Unset
    Files <- SmallFiles
    NoValue = NoValue
INVARIANTS PrintedAsParsed
CHECK_DEADLOCK FALSE
