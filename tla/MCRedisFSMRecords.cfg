\* Two calls of any operations on a new conversation, or on one whose record
\* expires after a tick; a record stored meanwhile expires after the second.
CONSTANTS
    Calls = {c1, c2}
    None = None
    Ttl = 1
    MaxTime = 2
    Prompt = FALSE
SPECIFICATION FairRedis
PROPERTIES ImplementsRecords CallsEnd
CHECK_DEADLOCK FALSE
