SPECIFICATION Spec
CONSTANTS
    Requests = {r1, r2}
    NoActor = 0
    Actors <- MCActors
INVARIANT UserHasTime
CHECK_DEADLOCK FALSE
