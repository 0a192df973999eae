SPECIFICATION Spec
CONSTANTS
    Requests = {q1, q2, q3}
    Bodies <- SomeBodies
    Cards <- SomeCards
    DefaultReserve = 3
    FastPath = 8
    MaxEdits = 1
SYMMETRY RequestSymmetry
CHECK_DEADLOCK FALSE
INVARIANTS DiscardedRoomIsDead
