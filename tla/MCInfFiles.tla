------------------------------ MODULE MCInfFiles ------------------------------
(***************************************************************************)
(* Three module files for the file and symbol getters, with the header     *)
(* constants of MCInfHeader.                                               *)
(*                                                                         *)
(* EdkDrv is an Edk driver: SOURCE_OVERRIDE_PATH, an [nmake] DPX_SOURCE,   *)
(* a header under $(EDK_SOURCE) that exists in neither tree, include       *)
(* directories under $(EDK_SOURCE) and $(EFI_SOURCE) (found only under the *)
(* workspace), a package and a library class under $(EDK_SOURCE) (present  *)
(* in both the Ecp and the Edk tree) and a library named $(PROCESSOR), and *)
(* a PPI no package declares.  Drv is an EDK II driver with a binary under *)
(* $(PROCESSOR), two packages that both declare gProtA, and a library      *)
(* class without an instance.  Bad is an EDK II module whose second        *)
(* package does not exist and whose source file is missing.  Cust is an   *)
(* Edk module of an unmapped COMPONENT_TYPE declaring MODULE_TYPE = FOO,   *)
(* which the header promises as USER_DEFINED, with an untyped [Depex].     *)
(*                                                                         *)
(* Drv's [Depex] uses every token class: opcodes, gBoth (a PPI of MdePkg   *)
(* and a protocol of OemPkg), a $(DEP_PROT) defined in its [Defines], a   *)
(* module file and a VOID* fixed PCD; EdkDrv, a DXE driver that is no     *)
(* library, has no [Depex].                                                *)
(***************************************************************************)
EXTENDS InfFiles, MCInfHeader

CONSTANTS UseEdk, UseEfi, UseProc, UseDep  \* $(EDK_SOURCE), $(EFI_SOURCE), $(PROCESSOR), $(DEP_PROT)

MCFilesMacroRef ==
  UseBaseName :> "BASE_NAME" @@ UseEdk :> "EDK_SOURCE" @@ UseEfi :> "EFI_SOURCE"
  @@ UseProc :> "PROCESSOR" @@ UseDep :> "DEP_PROT"

\* gEdkGlobal of an Edk build: EFI_SOURCE and EDK_SOURCE are defined.
MCFilesEdkGlobal == [EFI_SOURCE |-> "EfiSrc", EDK_SOURCE |-> "EdkSrc"]

MCFilesExt ==
  [ f \in {"Drv.dxs", "a.c", "b.h", "Inc", "Fnd", "Include", "Edk.dec",
           "MdePkg.dec", "Oem.dec", "X.dec", "BaseLib.inf", "Dbg.inf",
           "Drv.efi", "EdkLib", "Ovr", "Lib.inf"} |->
      CASE f \in {"Drv.dxs"} -> "dxs"
        [] f = "a.c" -> "c"
        [] f = "b.h" -> "h"
        [] f \in {"Edk.dec", "MdePkg.dec", "Oem.dec", "X.dec"} -> "dec"
        [] f \in {"BaseLib.inf", "Dbg.inf", "Lib.inf"} -> "inf"
        [] f = "Drv.efi" -> "efi"
        [] OTHER -> "" ]

EdkDrv ==
  [ hdr    |-> << <<"BASE_NAME", "EdkDrv">>, <<"COMPONENT_TYPE", "BS_DRIVER">>,
                  <<"SOURCE_OVERRIDE_PATH", "Ovr">> >>,
    nmake  |-> << <<"DPX_SOURCE", "Drv.dxs">> >>,
    opts   |-> <<>>,
    files  |-> {"Drv.dxs"},
    bins   |-> <<>>,
    srcs   |-> << <<".", "a.c">>, <<UseEdk, "b.h">> >>,
    incs   |-> << <<UseEdk, "Inc">>, <<UseEfi, "Fnd">> >>,
    pkgs   |-> << <<UseEdk, "Edk.dec">> >>,
    libcls |-> << <<"BaseLib", <<UseEdk, "BaseLib.inf">>>> >>,
    libs   |-> << <<"EdkLib", ".lib">>, <<UseProc, ".lib">> >>,
    Protocols |-> <<"gProtA">>,
    Ppis   |-> <<"gPpiZ">>,
    depex  |-> <<>>,
    pcds   |-> <<>>,
    paths  |-> {<<".", "a.c">>, <<".", "Drv.dxs">>, <<"EcpSrc", "Inc">>,
                <<"EdkSrc", "Inc">>, <<"Ws", "Fnd">>, <<"EcpSrc", "Edk.dec">>,
                <<"EdkSrc", "Edk.dec">>} ]

Drv ==
  [ hdr    |-> << <<"INF_VERSION", <<65541>>>>, <<"BASE_NAME", "Drv">>,
                  <<"MODULE_TYPE", "DXE_DRIVER">>, <<"DPX_SOURCE", "Drv.dxs">>,
                  <<"DEP_PROT", "gProtB">> >>,
    nmake  |-> <<>>,
    opts   |-> <<>>,
    files  |-> {"Drv.dxs"},
    bins   |-> << <<UseProc, "Drv.efi">> >>,
    srcs   |-> << <<".", "a.c">> >>,
    incs   |-> << <<".", "Include">> >>,
    pkgs   |-> << <<"MdePkg", "MdePkg.dec">>, <<"OemPkg", "Oem.dec">> >>,
    libcls |-> << <<"BaseLib", None>>, <<"DebugLib", <<".", "Dbg.inf">>>> >>,
    libs   |-> <<>>,
    Protocols |-> <<"gProtA", "gProtB", "gBoth">>,
    Ppis   |-> <<"gPpiA">>,
    depex  |-> << [toks |-> <<"gBoth", "gPpiA", "AND", UseDep, "AND">>,
                   arch |-> "COMMON", type |-> "COMMON"],
                  [toks |-> <<"Lib.inf", "gTs.PcdP", "OR">>,
                   arch |-> "X64", type |-> "COMMON"] >>,
    pcds   |-> <<"PcdP", "gTs">> :> "VOID*",
    paths  |-> {<<".", "a.c">>, <<".", "Drv.dxs">>, <<".", "Include">>,
                <<"X64", "Drv.efi">>, <<"MdePkg", "MdePkg.dec">>,
                <<"OemPkg", "Oem.dec">>} ]

Bad ==
  [ hdr    |-> << <<"INF_VERSION", <<65541>>>>, <<"BASE_NAME", "Bad">>,
                  <<"MODULE_TYPE", "PEIM">> >>,
    nmake  |-> <<>>,
    opts   |-> <<>>,
    files  |-> {},
    bins   |-> <<>>,
    srcs   |-> << <<".", "a.c">> >>,
    incs   |-> <<>>,
    pkgs   |-> << <<"MdePkg", "MdePkg.dec">>, <<"Gone", "X.dec">> >>,
    libcls |-> <<>>,
    libs   |-> << <<"EdkLib", ".lib">>, <<"EdkLib", ".a">> >>,
    Protocols |-> <<"gProtA">>,
    Ppis   |-> <<>>,
    depex  |-> << [toks |-> <<"gProtA">>, arch |-> "COMMON", type |-> "COMMON"] >>,
    pcds   |-> <<>>,
    paths  |-> {} ]

Cust ==
  [ hdr    |-> << <<"BASE_NAME", "Cust">>, <<"COMPONENT_TYPE", "CUSTOM">>,
                  <<"MODULE_TYPE", "FOO">> >>,
    nmake  |-> <<>>,
    opts   |-> <<>>,
    files  |-> {},
    bins   |-> <<>>,
    srcs   |-> << <<".", "a.c">> >>,
    incs   |-> <<>>,
    pkgs   |-> << <<"MdePkg", "MdePkg.dec">> >>,
    libcls |-> <<>>,
    libs   |-> <<>>,
    Protocols |-> <<>>,
    Ppis   |-> <<>>,
    depex  |-> << [toks |-> <<"gProtA", "Lib.inf", "AND">>,
                   arch |-> "COMMON", type |-> "COMMON"] >>,
    pcds   |-> <<>>,
    paths  |-> {<<".", "a.c">>, <<"MdePkg", "MdePkg.dec">>} ]

MCFileInfs == {EdkDrv, Drv, Bad, Cust}


MCPkgSymbols ==
  [ p \in {<<"EcpSrc", "Edk.dec">>, <<"EdkSrc", "Edk.dec">>,
           <<"MdePkg", "MdePkg.dec">>, <<"OemPkg", "Oem.dec">>,
           <<"Gone", "X.dec">>} |->
      CASE p[2] = "X.dec"      -> [Protocols |-> {}, Ppis |-> {}, Guids |-> {}]
        [] p[2] = "Edk.dec"    -> [Protocols |-> {"gProtA"}, Ppis |-> {}, Guids |-> {}]
        [] p[2] = "MdePkg.dec" -> [Protocols |-> {"gProtA"}, Ppis |-> {"gBoth"},
                                   Guids |-> {"gTs"}]
        [] OTHER               -> [Protocols |-> {"gProtA", "gProtB", "gBoth"},
                                   Ppis |-> {"gPpiA"}, Guids |-> {}] ]

\* The platform's modules.
MCBuildDb == [f \in {"BaseLib.inf", "Dbg.inf", "Lib.inf"} |-> "G_" \o f]

MCPcdToken == "gTs.PcdP" :> <<"PcdP", "gTs">>

MCDepexOpcodes == {"BEFORE", "AFTER", "PUSH", "AND", "OR", "NOT", "TRUE",
                   "FALSE", "END", "SOR"}

MCFileAttrs == {"Binaries", "Sources", "Includes", "Packages", "LibraryClasses",
                "Libraries", "Protocols", "Ppis", "Depex", "DepexExpression"}

MCHeaderAttrs == {"Defines", "ModuleType", "LibraryClass"}

=============================================================================
