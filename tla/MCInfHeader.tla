---------------------------- MODULE MCInfHeader ----------------------------
(***************************************************************************)
(* Model-checking instance of InfHeader: six module files that between     *)
(* them reach every branch of _GetHeaderInfo (EDK II and Edk modules, the  *)
(* option-ROM and HII build types, the rejected SMM_CORE, a missing        *)
(* BASE_NAME, [nmake] flags beside [BuildOptions]), and the getters a      *)
(* consumer may read in any order.                                         *)
(***************************************************************************)
EXTENDS InfHeader

CONSTANT UseBaseName   \* the value $(BASE_NAME)

\* Common.DataType.SUP_MODULE_LIST
MCSupModuleList ==
  {"BASE", "SEC", "PEI_CORE", "PEIM", "DXE_CORE", "DXE_DRIVER",
   "DXE_RUNTIME_DRIVER", "DXE_SAL_DRIVER", "DXE_SMM_DRIVER", "UEFI_DRIVER",
   "UEFI_APPLICATION", "USER_DEFINED", "SMM_CORE", "MM_STANDALONE",
   "MM_CORE_STANDALONE"}

\* Common.DataType.COMPONENT_TO_MODULE_MAP_DICT
MCComponentMap ==
  [ LIBRARY |-> "BASE", SECURITY_CORE |-> "SEC", PEI_CORE |-> "PEI_CORE",
    COMBINED_PEIM_DRIVER |-> "PEIM", PIC_PEIM |-> "PEIM",
    RELOCATABLE_PEIM |-> "PEIM", PE32_PEIM |-> "PEIM",
    BS_DRIVER |-> "DXE_DRIVER", RT_DRIVER |-> "DXE_RUNTIME_DRIVER",
    SAL_RT_DRIVER |-> "DXE_SAL_DRIVER", APPLICATION |-> "UEFI_APPLICATION",
    LOGO |-> "BASE" ]

\* _NMAKE_FLAG_PATTERN_.findall on the [nmake] names of the model
MCNmakeFlagTools ==
  [ C_FLAGS |-> <<"C">>, IMAGE_ENTRY_POINT |-> <<>>, DPX_SOURCE |-> <<>> ]

MCFileExt == [ f \in {"Drv.dxs", "Cust.dxs", "Cust.txt"} |->
                 IF f = "Cust.txt" THEN "txt" ELSE "dxs" ]

MCUpper(s) == CASE s = "true"  -> "TRUE"
                [] s = "false" -> "FALSE"
                [] OTHER       -> s

\* An EDK II DXE driver: macro use, empty UNLOAD_IMAGE, SHADOW = FALSE.
DrvInf ==
  [ hdr |-> << <<"INF_VERSION", <<65541>>>>, <<"BASE_NAME", "Drv">>,
               <<"FILE_GUID", "G1">>, <<"MODULE_TYPE", "DXE_DRIVER">>,
               <<"ENTRY_POINT", UseBaseName>>,
               <<"UNLOAD_IMAGE", "">>, <<"CONSTRUCTOR", "Ctor">>,
               <<"SHADOW", "FALSE">>, <<"PI_SPECIFICATION_VERSION", 65546>>,
               <<"DPX_SOURCE", "Drv.dxs">>, <<"CUSTOM_MAKEFILE", <<"Makefile">>>> >>,
    nmake |-> <<>>, opts |-> <<>>, files |-> {"Drv.dxs"} ]

\* SMM_CORE declared by a module whose PI version is below 0x0001000A.
SmmInf ==
  [ hdr |-> << <<"INF_VERSION", <<65541>>>>, <<"BASE_NAME", "Smm">>,
               <<"MODULE_TYPE", "SMM_CORE">>,
               <<"PI_SPECIFICATION_VERSION", 65536>> >>,
    nmake |-> <<>>, opts |-> <<>>, files |-> {} ]

\* A PCI option ROM, INF_VERSION 1.27, two library classes, SHADOW = true.
RomInf ==
  [ hdr |-> << <<"INF_VERSION", <<1, 27>>>>, <<"BASE_NAME", "Rom">>,
               <<"MODULE_TYPE", "UEFI_DRIVER">>, <<"PCI_VENDOR_ID", "8086">>,
               <<"PCI_DEVICE_ID", "1">>, <<"PCI_CLASS_CODE", "2">>,
               <<"PCI_REVISION", "3">>, <<"PCI_COMPRESS", "TRUE">>,
               <<"LIBRARY_CLASS", <<"RomLib">>>>,
               <<"LIBRARY_CLASS", <<"PeiLib", {"PEIM"}>>>>,
               <<"EFI_SPECIFICATION_VERSION", 131072>>, <<"SHADOW", "true">> >>,
    nmake |-> <<>>, opts |-> <<>>, files |-> {} ]

\* An HII application without BASE_NAME (its $(BASE_NAME) stays unexpanded),
\* GCC-only custom makefile.
HiiInf ==
  [ hdr |-> << <<"INF_VERSION", <<65541>>>>, <<"MODULE_TYPE", "UEFI_APPLICATION">>,
               <<"ENTRY_POINT", UseBaseName>>,
               <<"UEFI_HII_RESOURCE_SECTION", "TRUE">>, <<"DESTRUCTOR", "Dtor">>,
               <<"CUSTOM_MAKEFILE", <<"GCC", "gcc.mk">>>>,
               <<"UEFI_SPECIFICATION_VERSION", 131072>> >>,
    nmake |-> <<>>, opts |-> <<>>, files |-> {} ]

\* An Edk library: [nmake] C_FLAGS and an [BuildOptions] entry for CC.
EdkLibInf ==
  [ hdr |-> << <<"BASE_NAME", "EdkLib">>, <<"COMPONENT_TYPE", "LIBRARY">>,
               <<"LIBRARY_CLASS", <<"Ignored">>>>, <<"SHADOW", "TRUE">> >>,
    nmake |-> << <<"C_FLAGS", "/Od">>, <<"IMAGE_ENTRY_POINT", "EdkMain">> >>,
    opts  |-> << <<"MSFT", "*_*_*_CC_FLAGS", "/O1">> >>,
    files |-> {} ]

\* An Edk module (INF_VERSION 1.4) of an unmapped COMPONENT_TYPE that
\* declares an unsupported MODULE_TYPE, with an [nmake] DPX_SOURCE.
EdkCustomInf ==
  [ hdr |-> << <<"INF_VERSION", <<1, 4>>>>, <<"BASE_NAME", "Cust">>,
               <<"COMPONENT_TYPE", "CUSTOM">>, <<"MODULE_TYPE", "FOO">> >>,
    nmake |-> << <<"DPX_SOURCE", "Cust.dxs">> >>, opts |-> <<>>,
    files |-> {"Cust.dxs"} ]

MCMacroRef == UseBaseName :> "BASE_NAME"

MCEdkGlobal == [EFI_SOURCE |-> "EfiSrc"]

\* An EDK II PEIM whose DPX_SOURCE is not a .dxs file.
BadDxsInf ==
  [ hdr |-> << <<"INF_VERSION", <<65541>>>>, <<"BASE_NAME", "Pei">>,
               <<"MODULE_TYPE", "PEIM">>, <<"DPX_SOURCE", "Cust.txt">> >>,
    nmake |-> <<>>, opts |-> <<>>, files |-> {"Cust.txt"} ]

MCInfs == {DrvInf, SmmInf, RomInf, HiiInf, EdkLibInf, EdkCustomInf, BadDxsInf}

MCAttrs == {"BaseName", "ModuleType", "BuildType", "Guid", "Shadow", "DxsFile",
            "Specification", "LibraryClass", "ModuleEntryPointList",
            "ConstructorList", "CustomMakefile", "Defines", "BuildOptions"}

MCContractAttrs == MCAttrs \ {"Shadow", "ModuleType", "BuildOptions"}

=============================================================================
