SPECIFICATION Spec
CONSTANTS
    None = None
    Bound <- MCBound
INVARIANT TypeOK
PROPERTY Atomic
PROPERTY LostOnlyWithBackup
PROPERTY UnmarkedKept
CHECK_DEADLOCK FALSE
CONSTRAINT NotExposed
