SPECIFICATION FairSpec
CONSTANTS
    a = a
    r1 = r1
    r2 = r2
    r3 = r3
    r4 = r4
    r5 = r5
    Instances = {a}
    Namespace <- MCNamespace
    Configured = {}
    FirstRevs = {r1}
    Revs = {r1, r2, r3, r4, r5}
    NoAuth = {r5}
    NoRedirect = {}
    BadHost = {r4}
    NoForward = {r2}
    ApplyOnSave = TRUE
    MaxGen = 2
    MaxDisturbances = 3
INVARIANTS ReadyIsTrue 
PROPERTIES  EventuallySettled
CHECK_DEADLOCK FALSE
