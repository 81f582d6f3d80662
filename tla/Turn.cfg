SPECIFICATION TurnSpec
CONSTANTS
    NoTurn = NoTurn
    Turns = {t1, t2}
    Slots = 2
INVARIANT OnlyTheAskedAreInterrupted
CHECK_DEADLOCK FALSE
