SPECIFICATION Spec
CONSTANTS
    Debounce_mS = 3
    AC_DEBOUNCE_LENGTH = 5
    POWER_ON_CYCLE_LENGTH = 2
    Levels = {0, 1, 2}
    Bounce = 2
    Blocked = {12, 13}
    Limit = 12
INVARIANT
    IsNoticed
