CONSTANT MaxEntrants = 3
SPECIFICATION Spec
CHECK_DEADLOCK FALSE
INVARIANT RaceIsClean
