SPECIFICATION FairSpec
CONSTANTS
    e1 = e1  r1 = r1  r2 = r2  r3 = r3
    Emails = {e1}
    Requests = {r1, r2}
    MaxAttempts = 2
    MaxFaults = 0
    MaxCrashes = 1
    NoEmail = NoEmail
PROPERTIES
    LockIsTemporary
