CONSTANTS
    None = None
    NotCached = NotCached
    BadExpression = BadExpression
    Modules <- MCModules
    Pkgs <- MCPkgs
    PcdRecs <- MCPcdRecs
    GuidRecs <- MCGuidRecs
    ModPkgs <- MCModPkgs
    PkgGuids <- MCPkgGuids
    DecPcds <- MCDecPcds
    MixedVariants <- MCMixedVariants
    PCD_TYPE_LIST <- MCPcdTypeList
    Eval <- MCEval
    HEX_DIGITS = 2
    TOKEN_MAX = 255

SPECIFICATION Spec
PROPERTY PcdSharedStateSound





CHECK_DEADLOCK FALSE
