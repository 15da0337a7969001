CONSTANTS
    Nil = Nil
    Torn = Torn
    Logins = {l1, l2}
    Logouts = {o1}
    Requests = {q1}
    Bases = {a, b}
    MaxFaults = 1
SPECIFICATION Spec
CHECK_DEADLOCK FALSE
INVARIANTS SessionHolds OwnTokensOnly
PROPERTY LoginEnds
