\* Four of the thirteen units, cut anywhere; four keys; two connections.
SPECIFICATION FairSpec
CONSTANTS
    MaxLine = 5
    Units = {"newline", "color", "willEcho", "wontEcho"}
    MaxBytes = 7
    MaxKeys = 4
    MaxSessions = 2
INVARIANTS
    TerminalInv
    PacketsDoNotMatter
    TagsBalanced
    FieldMatchesEcho
PROPERTIES
    SecretsHidden
    LoginNotKept
    OfferAnswered
CHECK_DEADLOCK FALSE
