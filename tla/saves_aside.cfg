SPECIFICATION Spec
CONSTANTS
    None = None
    Bound <- MCBound
PROPERTY AsideKept
CHECK_DEADLOCK FALSE
