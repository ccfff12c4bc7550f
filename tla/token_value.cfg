\* Every candidate TokenValue of up to five characters, at two hex digits.
CONSTANTS
    HEX_DIGITS = 2
    TOKEN_MAX = 255
    CHARS = {"0", "1", "2", "5", "6", "f", "x", "X", "-"}
    MAX_LEN = 5
    None = None

SPECIFICATION Spec

INVARIANT TokenCheckMatchesRange

\* A behaviour stops once the candidate has MAX_LEN characters.
CHECK_DEADLOCK FALSE
