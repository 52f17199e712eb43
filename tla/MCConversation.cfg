SPECIFICATION FairSpec
CONSTANTS
    MaxMessages = 8
    MaxMarks = 1
    MaxSkips = 1
    MaxRetries = 1
INVARIANTS SentIsAConversation LatestIsSent ResultsFollowCalls
PROPERTIES DeletedStaysDeleted RequestSettles
CHECK_DEADLOCK FALSE
