SPECIFICATION RefSpec
CONSTANTS
    Users = {"u1", "u2"}
    MaxHeld = 2
    RefRaces = {"revive"}
INVARIANTS
    HeldIsAlive
CHECK_DEADLOCK FALSE
