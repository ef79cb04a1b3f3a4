SPECIFICATION FairInboxSpec
CONSTANTS
    INBOX = 3
    MaxReplies = 7
PROPERTIES
    ImplementsChannel
    NoLostWakeup
    CloseEnds
CHECK_DEADLOCK FALSE
