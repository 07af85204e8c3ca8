SPECIFICATION FairSpec
CONSTANTS
    c1 = c1  c2 = c2  c3 = c3  r1 = r1  r2 = r2  w1 = w1
    NoCall = NoCall  NoRef = NoRef
    Calls = {c1, c2, c3}
    Refs = {r1, r2}
    RefOf <- TwoProviders
    Further <- OneMore
    Workers = {w1}
    Hosts = 2
    Filled = {r2}
    KeepAliveSeconds = 0
    TimeoutSeconds = 0
    MaxVersion = 2
    Faults = {"connect", "connection", "timeout", "stderr", "edit", "delete", "foreground", "race"}
INVARIANTS RunsAtMostOnce OwnProvider EveryHostTried
PROPERTIES CallsSpec EveryCallAnswered
CHECK_DEADLOCK FALSE
