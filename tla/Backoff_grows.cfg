SPECIFICATION Spec
CONSTANTS
    Reasons = {starting, deleting}
    NoReason = NoReason
    Asked = {0, 1, 15}
    None = None
    MaxTries = 62
INVARIANT Bounded
PROPERTY Grows
CHECK_DEADLOCK FALSE
