\* Three calls of any operations on a new conversation, or on one whose record
\* expires after a tick; a record stored meanwhile may expire as well.
CONSTANTS
    Calls = {c1, c2, c3}
    None = None
    Ttl = 1
    MaxTime = 1
    Prompt = TRUE
SPECIFICATION Spec
INVARIANTS UpdatesSurvive
PROPERTIES AppliedToCurrent
CHECK_DEADLOCK FALSE
