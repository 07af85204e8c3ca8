SPECIFICATION Spec
CONSTANTS
    c1 = c1  c2 = c2  c3 = c3  r1 = r1  r2 = r2  w1 = w1
    NoCall = NoCall  NoRef = NoRef
    Calls = {c1, c2}
    Refs = {r1}
    RefOf <- OneProvider
    Further <- OneMore
    Workers = {w1}
    Hosts = 1
    Filled = {}
    KeepAliveSeconds = 0
    TimeoutSeconds = 0
    MaxVersion = 2
    Faults = {"foreground"}
INVARIANTS NeverPanics
CHECK_DEADLOCK FALSE
