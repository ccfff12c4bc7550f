CONSTANTS
    S1 = S1  S2 = S2  S3 = S3  S4 = S4  S5 = S5  S6 = S6
    G1 = G1  G2 = G2  G3 = G3  G4 = G4  G5 = G5  G6 = G6
    PcdG = PcdG  ByteG = ByteG
    RawA = RawA  RawB = RawB  RawE = RawE  Bin2 = Bin2  Out1 = Out1  Out6 = Out6
    A4 = A4  A8 = A8  A16 = A16
    None = None
    Stmts <- MCStmts
    STMT <- MCSTMT
    FV_NAME = "FVMAIN"
    FV_DICT = {"FVMAIN"}
    FD_DICT = {}
    PCD_VALUE <- MCPcdValue
    BYTE_GUID <- MCByteGuid
    FILE_LEN <- MCFileLen
    ALIGN <- MCAlign
    USES <- MCUses
    SEC_OUT <- MCSecOut
    SEC_ALIGN <- MCSecAlign
    FV_MACROS <- MCFvMacros
    CHILD_ADDRS <- MCChildAddrs
    RAW_PATH <- MCRawPath
    MAX_CALLS = 5
SPECIFICATION Spec
INVARIANT FfsFileSound
CHECK_DEADLOCK FALSE
