\* Main with up to four files: its return and its cleanup.
CONSTANTS
    MAX_FILES = 4
    UnzipErrors <- MCUnzipErrors
    OPTION_MISSING = 4
    CODE_ERROR = 65535
    None = None

SPECIFICATION Spec


CHECK_DEADLOCK FALSE
INVARIANT MainCleansUp
