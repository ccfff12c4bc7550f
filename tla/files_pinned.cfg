\* The file and symbol getters beside the header, in every access order.
CONSTANTS
    None = None
    PyTrue = PyTrue
    PyFalse = PyFalse
    NotCached = NotCached
    BadVersion = BadVersion
    Infs <- MCFileInfs
    Attrs <- MCHeaderAttrs
    FileAttrs <- MCFileAttrs
    ContractAttrs = {}
    SUP_MODULE_LIST <- MCSupModuleList
    COMPONENT_TO_MODULE_MAP <- MCComponentMap
    NMAKE_FLAG_TOOLS <- MCNmakeFlagTools
    FILE_EXT <- MCFilesExt
    Upper <- MCUpper
    EQ_OPTIONS = {"=/O2"}
    EDK_GLOBAL <- MCFilesEdkGlobal
    ECP_SOURCE = "EcpSrc"
    EDK_SOURCE = "EdkSrc"
    WORKSPACE = "Ws"
    ARCH = "X64"
    UseBaseName = UseBaseName
    UseEdk = UseEdk
    UseEfi = UseEfi
    UseProc = UseProc
    UseDep = UseDep
    MacroRef <- MCFilesMacroRef
    PKG_SYMBOLS <- MCPkgSymbols
    DEPEX_SUPPORTED_OPCODE_SET <- MCDepexOpcodes
    BUILD_DB <- MCBuildDb
    PCD_TOKEN <- MCPcdToken

INIT FInit
NEXT FNext

INVARIANT FilesTypeOK
INVARIANT SourcesCarryDependencyFiles
INVARIANT PinnedGettersIndependentOfOrder
INVARIANT DepexRequiredForDrivers

\* A run ends when the consumer has read what it needs or an error is raised.
CHECK_DEADLOCK FALSE
