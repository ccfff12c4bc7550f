CONSTANTS
    MAX_FILES = 4
    UnzipErrors <- MCUnzipErrors
    OPTION_MISSING = 4
    CODE_ERROR = 65535
    None = None

SPECIFICATION Spec

INVARIANT TypeOK
INVARIANT ReturnCodeReportsError

CHECK_DEADLOCK FALSE
