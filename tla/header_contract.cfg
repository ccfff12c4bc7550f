\* The header contract: every memoized getter, in every access order.
CONSTANTS
    None = None
    PyTrue = PyTrue
    PyFalse = PyFalse
    NotCached = NotCached
    BadVersion = BadVersion
    Infs <- MCInfs
    Attrs <- MCAttrs
    ContractAttrs <- MCContractAttrs
    SUP_MODULE_LIST <- MCSupModuleList
    COMPONENT_TO_MODULE_MAP <- MCComponentMap
    NMAKE_FLAG_TOOLS <- MCNmakeFlagTools
    FILE_EXT <- MCFileExt
    Upper <- MCUpper
    EQ_OPTIONS = {"=/O2"}
    EDK_GLOBAL <- MCEdkGlobal
    ECP_SOURCE = "EcpSrc"
    ARCH = "X64"
    UseBaseName = UseBaseName
    MacroRef <- MCMacroRef

SPECIFICATION Spec

INVARIANT TypeOK
PROPERTY HeaderContract

\* A run ends when the consumer has read what it needs or an error is raised.
CHECK_DEADLOCK FALSE
