\* A history of two lines, so that the popup menu's line may leave it.
SPECIFICATION Spec
CONSTANTS
    Texts = {"", "a", "ab"}
    Blank = ""
    Begins <- MCBegins
    Max = 2
    MaxLines = 5
    Domains = {"com", "org"}
    NameLists <- MCNameLists
    Paths = {"/"}
    Dates = {0, 1, 3}
    MaxTime = 4
INVARIANTS
    TypeOK
    NoDeadPosition
    CountsAreUsers
    TerminatedOnce
    FileIsCurrent
PROPERTIES
    UpShowsAnother
CHECK_DEADLOCK FALSE
