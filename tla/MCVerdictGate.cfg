SPECIFICATION Spec
CONSTANTS
    Requests = {r1, r2}
    NoActor = 0
    Actors <- MCActors
INVARIANTS
    OnlyCleared
    PendingExact
PROPERTIES
    RejectedStays
    PageAnswered
    QueueMoves
CHECK_DEADLOCK FALSE
