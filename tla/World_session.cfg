CONSTANTS
    MaxWorlds = 2
    MaxRequests = 2
SPECIFICATION FairSpec
INVARIANTS
    SessionInv
    WaitingIsListed
    ConnectionOutlivesWait
PROPERTIES
    CanceledStaysOffline
    FileForItsWorld
    AttemptSettles
CHECK_DEADLOCK FALSE
