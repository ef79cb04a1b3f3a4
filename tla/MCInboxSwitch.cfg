SPECIFICATION InboxSpec
CONSTANTS
    INBOX = 2
    MaxReplies = 4
PROPERTIES
    BacklogNeverEndsStreaming
CHECK_DEADLOCK FALSE
