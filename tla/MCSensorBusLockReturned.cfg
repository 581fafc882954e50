SPECIFICATION Spec
CONSTANTS
    r1 = r1
    r2 = r2
    TempUsers <- MCUsers
    LightUsers <- MCUsers
    NoOne = NoOne
    MaxFds = 3
INVARIANTS
    LockReturned
