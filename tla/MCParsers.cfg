\* Every short document of each kind.
SPECIFICATION Spec
CONSTANTS
    Alphabets <- SmallAlphabets
    None = None
    Bad = Bad
    Width = 6
    Nodes <- SmallNodes
    Absent = Absent
    Grammars <- SmallGrammars
    Document = Document
    Unset = Unset
    Files <- SmallFiles
    NoValue = NoValue
INVARIANTS
    ReadAsWritten VerdictByContent DurationsRead
    PrintedIsRead LinesFit CharactersWhole
    RequestAsWritten
PROPERTIES
    SettingsAsWritten
CHECK_DEADLOCK FALSE
