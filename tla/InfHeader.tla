----------------------------- MODULE InfHeader -----------------------------
(***************************************************************************)
(* The [Defines] resolver of InfBuildData (Workspace/InfBuildData.py) and  *)
(* the memoized getters that trigger it.                                   *)
(*                                                                         *)
(* A consumer (AutoGen, GenFds) reads the attributes of a module facade in *)
(* whatever order its own code runs.  Each getter is a cached_property: on *)
(* its first use it looks at a private field (self._X); if the field is    *)
(* None it runs _GetHeaderInfo, a cached_class_function that resolves the  *)
(* whole [Defines] block once, then applies the getter's own default.     *)
(* One step of this module is one first access of one attribute, with all *)
(* it does: the header batch (if it runs), the default, the cache entry.  *)
(*                                                                         *)
(* Data is abstracted to what the properties tell apart: names and values  *)
(* are short strings, a file is its path, a macro use is a model value u, *)
(* MacroRef[u] the macro it names.                                         *)
(***************************************************************************)
EXTENDS Integers, Sequences, SequencesExt, FiniteSets, TLC

CONSTANTS
    Infs,                   \* the module files: [hdr, nmake, opts, files]
    Attrs,                  \* the getters a consumer may call
    SUP_MODULE_LIST,        \* Common.DataType.SUP_MODULE_LIST
    COMPONENT_TO_MODULE_MAP,\* Common.DataType.COMPONENT_TO_MODULE_MAP_DICT
    NMAKE_FLAG_TOOLS,       \* name -> findall of _NMAKE_FLAG_PATTERN_ on it
    EQ_OPTIONS,             \* the [BuildOptions] values that start with '='
    EDK_GLOBAL,             \* GlobalData.gEdkGlobal + gGlobalDefines
    ECP_SOURCE,             \* GlobalData.gEcpSource
    ARCH,                   \* the architecture of this facade
    None,                   \* Python None
    PyTrue, PyFalse,        \* Python True and False (model values)
    NotCached,              \* a cached_property not computed yet
    BadVersion,             \* a version string GetHexVerValue rejects
    MacroRef,               \* macro use (model value) -> the macro it names
    ContractAttrs,          \* the getters checked against the contract
    FILE_EXT,               \* file -> its extension (PathClass.Ext)
    Upper(_)                \* str.upper on the strings of the model

VARIABLES
    inf,        \* the module file being resolved (never changes)
    fld,        \* the private fields self._BaseName, self._ModuleType, ...
    macros,     \* self._Macros, the macro table shared by every getter
    headerDone, \* _GetHeaderInfo has completed (and is now cached)
    cache,      \* cache[a]: value cached by getter a, or NotCached
    err         \* the error EdkLogger.error raised, or None

vars == <<inf, fld, macros, headerDone, cache, err>>

-----------------------------------------------------------------------------
(* Constants of InfBuildData and helpers.                                  *)

\* InfBuildData._PROPERTY_: [Defines] names copied straight into a field.
PROPERTY ==
    [ BASE_NAME            |-> "BaseName",   FILE_GUID      |-> "Guid",
      MODULE_TYPE          |-> "ModuleType", COMPONENT_TYPE |-> "ComponentType",
      MAKEFILE_NAME        |-> "MakefileName", DPX_SOURCE   |-> "DxsFile",
      VERSION_NUMBER       |-> "Version",    VERSION_STRING |-> "Version",
      VERSION              |-> "Version",    PCD_IS_DRIVER  |-> "PcdIsDriver",
      SHADOW               |-> "Shadow",
      SOURCE_OVERRIDE_PATH |-> "SourceOverridePath" ]

SpecVersionNames == {"EFI_SPECIFICATION_VERSION", "UEFI_SPECIFICATION_VERSION",
                     "EDK_RELEASE_VERSION", "PI_SPECIFICATION_VERSION"}

\* The list-valued [Defines] entries that skip an empty value.
SKIP_EMPTY == [ UNLOAD_IMAGE |-> "ModuleUnloadImageList",
                CONSTRUCTOR  |-> "ConstructorList",
                DESTRUCTOR   |-> "DestructorList" ]

\* InfBuildData._TOOL_CODE_
TOOL_CODE == [ C |-> "CC", LIB |-> "SLINK", LINK |-> "DLINK" ]

FieldNames ==
    {"BaseName", "Guid", "ModuleType", "ComponentType", "MakefileName",
     "DxsFile", "Version", "PcdIsDriver", "Shadow", "SourceOverridePath",
     "BuildType", "Specification", "LibraryClass", "ModuleEntryPointList",
     "ModuleUnloadImageList", "ConstructorList", "DestructorList",
     "CustomMakefile", "Defs", "BuildOptions", "DependencyFileList"}

\* dict[k] = v on a TLA+ function standing for a Python dict
Put(d, k, v) == (k :> v) @@ d

OrEmpty(x) == IF x = None THEN <<>> ELSE x

\* ReplaceMacro(value, macros, SelfReplacement): a macro use becomes its
\* value; an undefined one is kept, or replaced by '' if SelfReplacement.
ReplaceMacro(v, m, self) ==
    CASE v \notin DOMAIN MacroRef -> v
      [] MacroRef[v] \in DOMAIN m     -> m[MacroRef[v]]
      [] self                   -> ""
      [] OTHER                  -> v

\* GetHexVerValue: a version it cannot read is None.
HexVer(v) == IF v = BadVersion THEN None ELSE v

\* PathClass.Validate(ext): the file exists and has the extension.
Validate(file, ext, existing) == file \in existing /\ FILE_EXT[file] = ext

\* AutoGenVersion: INF_VERSION "M.m" is read as the hex number whose digits
\* are '%04o' % M followed by '%04o' % m (octal, not hex, digits).
RECURSIVE OctAsHex(_)
OctAsHex(n) == IF n < 8 THEN n ELSE OctAsHex(n \div 8) * 16 + (n % 8)
RECURSIVE OctWidth(_)
OctWidth(n) == IF n < 8 THEN 1 ELSE 1 + OctWidth(n \div 8)

AutoGenVersion(in) ==
    LET i == SelectInSeq(in.hdr, LAMBDA r : r[1] = "INF_VERSION")
        v == in.hdr[i][2]
    IN  CASE i = 0      -> 65536                         \* 0x00010000
          [] Len(v) = 1 -> v[1]                          \* int(value, 0)
          [] OTHER      -> OctAsHex(v[1]) * 16 ^ (IF OctWidth(v[2]) > 4
                                                  THEN OctWidth(v[2]) ELSE 4)
                           + OctAsHex(v[2])

IsModern(in) == AutoGenVersion(in) >= 65541              \* 0x00010005

\* _Macros: EDK_GLOBAL defined macros apply to Edk (legacy) modules only.
InitMacros(in) == IF IsModern(in) THEN <<>> ELSE EDK_GLOBAL

-----------------------------------------------------------------------------
(* _GetHeaderInfo, over a state H = [f: fields, m: macros, err].           *)

\* "Name in self" (__contains__): a name of _PROPERTY_.
IsProperty(n) == n \in DOMAIN PROPERTY

\* self[Name] = Value (__setitem__): the field _PROPERTY_ names.
SetItem(f, n, v) == [f EXCEPT ![PROPERTY[n]] = v]

\* One iteration of the loop over the [Defines] records.
DefineStep(H, r) ==
  IF H.err # None THEN H ELSE
  LET n == r[1]
      v == ReplaceMacro(r[2], H.m, FALSE)
      f == H.f
  IN CASE IsProperty(n) ->
            [H EXCEPT !.f = [SetItem(f, n, v) EXCEPT !.Defs = Put(@, n, v)],
                      !.m = Put(@, n, v)]
       [] n \in SpecVersionNames ->
            LET key == IF n \in {"EFI_SPECIFICATION_VERSION",
                                 "UEFI_SPECIFICATION_VERSION"}
                       THEN "UEFI_SPECIFICATION_VERSION" ELSE n
            IN [H EXCEPT !.f.Specification = Put(OrEmpty(@), key, HexVer(v)),
                         !.err = IF HexVer(v) = None
                                 THEN "FORMAT_NOT_SUPPORTED" ELSE None]
       [] n = "LIBRARY_CLASS" ->                \* v = GetSplitValueList(value)
            [H EXCEPT !.f.LibraryClass =
               Append(OrEmpty(@), <<v[1], IF Len(v) > 1 THEN v[2]
                                          ELSE SUP_MODULE_LIST>>)]
       [] n = "ENTRY_POINT" ->
            [H EXCEPT !.f.ModuleEntryPointList = Append(OrEmpty(@), v)]
       [] n \in DOMAIN SKIP_EMPTY ->
            [H EXCEPT !.f[SKIP_EMPTY[n]] =
               IF v = "" THEN OrEmpty(@) ELSE Append(OrEmpty(@), v)]
       [] n = "CUSTOM_MAKEFILE" ->              \* v = GetSplitValueList(value)
            IF Len(v) < 2
            THEN [H EXCEPT !.f.CustomMakefile =
                    Put(Put(OrEmpty(@), "MSFT", v[1]), "GCC", v[1])]
            ELSE IF v[1] \notin {"MSFT", "GCC"}
            THEN [H EXCEPT !.err = "FORMAT_NOT_SUPPORTED"]
            ELSE [H EXCEPT !.f.CustomMakefile = Put(OrEmpty(@), v[1], v[2])]
       [] OTHER ->
            [H EXCEPT !.f.Defs = Put(@, n, v), !.m = Put(@, n, v)]

\* Validation and BUILD_TYPE of an EDK II (INF_VERSION >= 1.5) module.
PostModern(H, in) ==
  LET f   == H.f
      d   == f.Defs
      pi  == IF f.Specification # None
                /\ "PI_SPECIFICATION_VERSION" \in DOMAIN f.Specification
             THEN f.Specification["PI_SPECIFICATION_VERSION"] ELSE 0
      pci == {"PCI_DEVICE_ID", "PCI_VENDOR_ID", "PCI_CLASS_CODE",
              "PCI_REVISION"} \subseteq DOMAIN d
      hii == "UEFI_HII_RESOURCE_SECTION" \in DOMAIN d
             /\ d["UEFI_HII_RESOURCE_SECTION"] = "TRUE"
      dxs == f.DxsFile \notin {None, ""}
      e == CASE f.ModuleType \in {None, ""}      -> "ATTRIBUTE_NOT_AVAILABLE"
             [] f.ModuleType \notin SUP_MODULE_LIST -> "FORMAT_NOT_SUPPORTED"
             [] pi < 65546 /\ f.ModuleType = "SMM_CORE" -> "FORMAT_NOT_SUPPORTED"
             [] pi < 65586 /\ f.ModuleType \in {"MM_CORE_STANDALONE",
                                                "MM_STANDALONE"}
                                                   -> "FORMAT_NOT_SUPPORTED"
             [] pci /\ "PCI_COMPRESS" \in DOMAIN d
                    /\ d["PCI_COMPRESS"] \notin {"TRUE", "FALSE"}
                                                   -> "FORMAT_INVALID"
                \* the error call names LineNo, which this path never binds
             [] dxs /\ ~Validate(f.DxsFile, "dxs", in.files)
                                                   -> "UnboundLocalError"
             [] OTHER                              -> None
  IN [H EXCEPT
        !.err = e,
        !.f.BuildType = CASE pci -> "UEFI_OPTIONROM"
                          [] hii -> "UEFI_HII"
                          [] OTHER -> Upper(f.ModuleType),
        !.f.DependencyFileList = IF dxs THEN Append(OrEmpty(@), f.DxsFile)
                                 ELSE @]

\* One record of the [nmake] section of an Edk (legacy) module.
NmakeStep(H, r) ==
  IF H.err # None THEN H ELSE
  LET n == r[1]
      v == ReplaceMacro(r[2], H.m, TRUE)
      tools == NMAKE_FLAG_TOOLS[n]
      tool  == IF tools[1] \in DOMAIN TOOL_CODE THEN TOOL_CODE[tools[1]]
               ELSE tools[1]
      key   == <<"MSFT", "*_*_*_" \o tool \o "_FLAGS">>
      bo    == OrEmpty(H.f.BuildOptions)
  IN CASE n = "IMAGE_ENTRY_POINT" ->
            [H EXCEPT !.f.ModuleEntryPointList = Append(OrEmpty(@), v)]
       [] n = "DPX_SOURCE" ->
            IF ~Validate(v, "dxs", H.files) THEN [H EXCEPT !.err = "FILE_NOT_FOUND"]
            ELSE [H EXCEPT !.f.DependencyFileList = Append(OrEmpty(@), v)]
       [] Len(tools) = 1 ->       \* the /D filtering of the value is abstracted
            [H EXCEPT !.f.BuildOptions =
               IF key \notin DOMAIN bo THEN Put(bo, key, <<v>>)
               ELSE Put(bo, key, bo[key] \o <<v>>)]
       [] OTHER -> H

\* COMPONENT_TYPE handling of an Edk (legacy) module, then its [nmake].
PostLegacy(H, in) ==
  LET f  == H.f
      ct == f.ComponentType
      H2 == [H EXCEPT
               !.f.BuildType = Upper(ct),
               !.f.ModuleType = IF ct \in DOMAIN COMPONENT_TO_MODULE_MAP
                                THEN COMPONENT_TO_MODULE_MAP[ct] ELSE @,
               !.f.LibraryClass = IF ct = "LIBRARY"
                                  THEN << <<f.BaseName, SUP_MODULE_LIST>> >>
                                  ELSE @,
               !.m = Put(Put(@, "EDK_SOURCE", ECP_SOURCE), "PROCESSOR", ARCH)]
  IN IF ct \in {None, ""} THEN [H EXCEPT !.err = "ATTRIBUTE_NOT_AVAILABLE"]
     ELSE FoldLeft(NmakeStep, H2, in.nmake)

HeaderInfo(f, m, in) ==
  LET H0 == [f |-> f, m |-> m, err |-> None, files |-> in.files]
      H1 == FoldLeft(DefineStep, H0, in.hdr)
  IN CASE H1.err # None -> H1
       [] IsModern(in)  -> PostModern(H1, in)
       [] OTHER         -> PostLegacy(H1, in)

-----------------------------------------------------------------------------
(* The getters.                                                            *)

\* The field each getter reads, and the default it stores if still None.
FieldOf(a) == IF a = "Defines" THEN "Defs" ELSE a

DEFAULT == [ DxsFile |-> "", ComponentType |-> "USER_DEFINED",
             Guid |-> "00000000-0000-0000-0000-000000000000",
             Version |-> "0.0", PcdIsDriver |-> "",
             CustomMakefile |-> <<>>, Specification |-> <<>>,
             LibraryClass |-> <<>>, ModuleEntryPointList |-> <<>>,
             ModuleUnloadImageList |-> <<>>, ConstructorList |-> <<>>,
             DestructorList |-> <<>> ]

\* Mutant: the getter returns the field without storing its default.
AfterGetterNoDefault(a, f0, f) == f

\* The field values after the getter's own code, given the fields before
\* the access (f0) and after the header batch, if it ran (f).
AfterGetter(a, f0, f) ==
  LET x == FieldOf(a) IN
  CASE a \in DOMAIN DEFAULT ->
         [f EXCEPT ![x] = IF @ = None THEN DEFAULT[a] ELSE @]
    [] a = "ModuleType" ->
         IF f0.ModuleType # None THEN f ELSE
         LET mt == IF f.ModuleType = None THEN "BASE" ELSE f.ModuleType
         IN [f EXCEPT !.ModuleType = IF mt \notin SUP_MODULE_LIST
                                     THEN "USER_DEFINED" ELSE mt]
    [] a = "BuildType" ->
         IF f0.BuildType # None THEN f
         ELSE [f EXCEPT !.BuildType = IF @ \in {None, ""} THEN "BASE" ELSE @]
    [] a = "Shadow" ->
         IF f0.Shadow # None THEN f
         ELSE [f EXCEPT !.Shadow = IF @ \notin {None, ""} /\ Upper(@) = "TRUE"
                                   THEN PyTrue ELSE PyFalse]
    [] OTHER -> f

\* The [BuildOptions] section read by the BuildOptions getter.
BuildOptionsSection(f, in) ==
  LET Step(bo, r) ==
        LET key == <<r[1], r[2]>> IN
        IF key \notin DOMAIN bo \/ r[3] \in EQ_OPTIONS THEN Put(bo, key, <<r[3]>>)
        ELSE Put(bo, key, bo[key] \o <<r[3]>>)
  IN [f EXCEPT !.BuildOptions = FoldLeft(Step, <<>>, in.opts)]

\* Mutant: _GetHeaderInfo without @cached_class_function, run on every call.
HeaderCachedNever(done, ok) == FALSE

\* @cached_class_function: the batch is remembered once it has returned.
HeaderCached(done, ok) == done \/ ok

\* The getter's own code, given whether it ran the batch and what that gave.
GetterAfterHeader(a, S, run, H) ==
  LET x     == FieldOf(a)
      f2    == IF a = "BuildOptions"
               THEN IF S.f.BuildOptions = None THEN BuildOptionsSection(S.f, inf)
                    ELSE S.f
               ELSE AfterGetter(a, S.f, H.f)
      e     == IF H.err = None /\ a = "BaseName" /\ f2.BaseName = None
               THEN "ATTRIBUTE_NOT_AVAILABLE" ELSE H.err
  IN [S EXCEPT !.f = f2, !.m = H.m, !.hd = HeaderCached(S.hd, run /\ H.err = None),
               !.err = e, !.c = IF e = None THEN [@ EXCEPT ![a] = f2[x]] ELSE @]

\* The getter of attribute a on a facade S = [f, m, hd, c, err] (fields,
\* macros, header memo, getter cache, error), everything it does included.
GetAttr(a, S) ==
  LET run == ~S.hd /\ a # "BuildOptions" /\ (S.f[FieldOf(a)] = None \/ a = "Defines")
  IN GetterAfterHeader(a, S, run, IF run THEN HeaderInfo(S.f, S.m, inf)
                                  ELSE [f |-> S.f, m |-> S.m, err |-> None])

\* The first access of attribute a.
Access(a) ==
  /\ err = None
  /\ cache[a] = NotCached
  /\ LET S == GetAttr(a, [f |-> fld, m |-> macros, hd |-> headerDone, c |-> cache,
                          err |-> None])
     IN /\ fld' = S.f
        /\ macros' = S.m
        /\ headerDone' = S.hd
        /\ err' = S.err
        /\ cache' = S.c
  /\ UNCHANGED inf

-----------------------------------------------------------------------------
(* What the resolver promises (spec.md 3 and 4.1), stated from the module  *)
(* file alone, with no reference to fields, caches or access order.        *)

\* The value of record i of the [Defines] block, macros expanded against
\* the ordinary defines before it and the module's initial macros.
DeclValue(in, i) ==
  LET v  == in.hdr[i][2]
      j  == IF v \in DOMAIN MacroRef
            THEN SelectLastInSubSeq(in.hdr, 1, i - 1, LAMBDA r : r[1] = MacroRef[v])
            ELSE 0
  IN CASE v \notin DOMAIN MacroRef            -> v
       [] j # 0                              -> in.hdr[j][2]
       [] MacroRef[v] \in DOMAIN InitMacros(in)    -> InitMacros(in)[MacroRef[v]]
       [] OTHER                              -> v

\* The last value declared for a name, or None.
Decl(in, n) ==
  LET i == SelectLastInSeq(in.hdr, LAMBDA r : r[1] = n)
  IN IF i = 0 THEN None ELSE DeclValue(in, i)

\* Every value declared for a name, in order.
DeclList(in, n) ==
  LET I == {i \in 1..Len(in.hdr) : in.hdr[i][1] = n}
  IN [k \in 1..Cardinality(I) |-> DeclValue(in, SetToSortSeq(I, <)[k])]

NonEmpty(s) == SelectSeq(s, LAMBDA v : v # "")

\* The names that never reach the Defines map.
SpecialNames == SpecVersionNames \cup DOMAIN SKIP_EMPTY
                \cup {"LIBRARY_CLASS", "ENTRY_POINT", "CUSTOM_MAKEFILE"}

\* The module kind: declared (EDK II), or mapped from COMPONENT_TYPE (Edk).
Kind(in) ==
  LET ct == Decl(in, "COMPONENT_TYPE")
      mt == Decl(in, "MODULE_TYPE")
  IN CASE IsModern(in)                          -> mt
       [] ct \in DOMAIN COMPONENT_TO_MODULE_MAP -> COMPONENT_TO_MODULE_MAP[ct]
       [] mt = None                             -> "BASE"
       [] mt \in SUP_MODULE_LIST                -> mt
       [] OTHER                                 -> "USER_DEFINED"

PciModule(in) ==
  \A n \in {"PCI_DEVICE_ID", "PCI_VENDOR_ID", "PCI_CLASS_CODE", "PCI_REVISION"} :
     Decl(in, n) # None

\* The inputs whose [Defines] block is rejected as a whole.
BadHeader(in) ==
  LET mt  == Decl(in, "MODULE_TYPE")
      pi  == IF Decl(in, "PI_SPECIFICATION_VERSION") \in {None, BadVersion}
             THEN 0 ELSE Decl(in, "PI_SPECIFICATION_VERSION")
      dxs == Decl(in, "DPX_SOURCE")
      cmf == {v \in Range(DeclList(in, "CUSTOM_MAKEFILE")) :
                Len(v) > 1 /\ v[1] \notin {"MSFT", "GCC"}}
      ndx == {r \in Range(in.nmake) :
                r[1] = "DPX_SOURCE" /\ ~Validate(r[2], "dxs", in.files)}
  IN \/ \E n \in SpecVersionNames : BadVersion \in Range(DeclList(in, n))
     \/ cmf # {}
     \/ IsModern(in) /\ \/ mt \in {None, ""} \/ mt \notin SUP_MODULE_LIST
                        \/ pi < 65546 /\ mt = "SMM_CORE"
                        \/ pi < 65586 /\ mt \in {"MM_CORE_STANDALONE", "MM_STANDALONE"}
                        \/ PciModule(in) /\ Decl(in, "PCI_COMPRESS") \notin
                                                    {None, "TRUE", "FALSE"}
                        \/ dxs \notin {None, ""} /\ ~Validate(dxs, "dxs", in.files)
     \/ ~IsModern(in) /\ \/ Decl(in, "COMPONENT_TYPE") \in {None, ""}
                         \/ ndx # {}

HeaderPromise(in, a) ==
  LET ct   == Decl(in, "COMPONENT_TYPE")
      cm   == [fam \in {"MSFT", "GCC"} |->
                 LET s == SelectSeq(DeclList(in, "CUSTOM_MAKEFILE"),
                                    LAMBDA v : Len(v) = 1 \/ v[1] = fam)
                 IN IF s = <<>> THEN None ELSE Last(s)[Len(Last(s))]]
      spec == [k \in {IF n = "EFI_SPECIFICATION_VERSION"
                      THEN "UEFI_SPECIFICATION_VERSION" ELSE n :
                        n \in {n2 \in SpecVersionNames : Decl(in, n2) # None}} |->
                 LET ns == IF k = "UEFI_SPECIFICATION_VERSION"
                           THEN {"EFI_SPECIFICATION_VERSION", k} ELSE {k}
                 IN DeclValue(in, SelectLastInSeq(in.hdr, LAMBDA r : r[1] \in ns))]
      nmep == [k \in 1..Len(SelectSeq(in.nmake,
                                      LAMBDA r : r[1] = "IMAGE_ENTRY_POINT")) |->
                 SelectSeq(in.nmake, LAMBDA r : r[1] = "IMAGE_ENTRY_POINT")[k][2]]
  IN CASE a = "BaseName"      -> Decl(in, "BASE_NAME")
       [] a = "Guid"          -> IF Decl(in, "FILE_GUID") = None THEN DEFAULT.Guid
                                 ELSE Decl(in, "FILE_GUID")
       [] a = "ComponentType" -> IF ct = None THEN "USER_DEFINED" ELSE ct
       [] a = "ModuleType"    -> Kind(in)
       [] a = "BuildType"     -> CASE ~IsModern(in) -> Upper(ct)
                                   [] PciModule(in) -> "UEFI_OPTIONROM"
                                   [] Decl(in, "UEFI_HII_RESOURCE_SECTION") = "TRUE"
                                                    -> "UEFI_HII"
                                   [] OTHER         -> Upper(Kind(in))
       [] a = "Shadow"        -> Decl(in, "SHADOW") \notin {None, ""}
                                 /\ Upper(Decl(in, "SHADOW")) = "TRUE"
       [] a = "DxsFile"       -> IF Decl(in, "DPX_SOURCE") = None THEN ""
                                 ELSE Decl(in, "DPX_SOURCE")
       [] a = "Specification" -> spec
       [] a = "LibraryClass"  ->
            IF ~IsModern(in) /\ ct = "LIBRARY"
            THEN << <<Decl(in, "BASE_NAME"), SUP_MODULE_LIST>> >>
            ELSE [k \in 1..Len(DeclList(in, "LIBRARY_CLASS")) |->
                    LET v == DeclList(in, "LIBRARY_CLASS")[k]
                    IN <<v[1], IF Len(v) > 1 THEN v[2] ELSE SUP_MODULE_LIST>>]
       [] a = "ModuleEntryPointList" ->
            DeclList(in, "ENTRY_POINT") \o (IF IsModern(in) THEN <<>> ELSE nmep)
       [] a = "ModuleUnloadImageList" -> NonEmpty(DeclList(in, "UNLOAD_IMAGE"))
       [] a = "ConstructorList"       -> NonEmpty(DeclList(in, "CONSTRUCTOR"))
       [] a = "DestructorList"        -> NonEmpty(DeclList(in, "DESTRUCTOR"))
       [] a = "CustomMakefile" -> [fam \in {x \in DOMAIN cm : cm[x] # None} |-> cm[fam]]
       [] a = "Defines" ->
            [n \in {r[1] : r \in {r2 \in Range(in.hdr) : r2[1] \notin SpecialNames}}
               |-> Decl(in, n)]
       [] OTHER -> None

\* Fatal on first access: everything if the block is rejected, else only
\* BaseName when BASE_NAME is missing.
HeaderFailsOn(in) ==
  IF BadHeader(in) THEN Attrs \ {"BuildOptions"}
  ELSE IF Decl(in, "BASE_NAME") = None THEN {"BaseName"} ELSE {}

-----------------------------------------------------------------------------

Init ==
  /\ inf \in Infs
  /\ fld = [Defs |-> <<>>] @@ [x \in FieldNames |-> None]
  /\ macros = InitMacros(inf)
  /\ headerDone = FALSE
  /\ cache = [a \in Attrs |-> NotCached]
  /\ err = None

Next == \E a \in Attrs : Access(a)

Spec == Init /\ [][Next]_vars

-----------------------------------------------------------------------------
(* Properties.                                                             *)

ErrorKinds == {"ATTRIBUTE_NOT_AVAILABLE", "FORMAT_NOT_SUPPORTED",
               "FORMAT_INVALID", "FILE_NOT_FOUND", "UnboundLocalError"}

TypeOK ==
  /\ inf \in Infs
  /\ DOMAIN fld = FieldNames
  /\ headerDone \in BOOLEAN
  /\ DOMAIN cache = Attrs
  \* no getter hands out None: each stores its default (or raises) first
  /\ \A a \in Attrs : cache[a] # None
  /\ err \in ErrorKinds \cup {None}

\* Python truthiness of the Shadow getter's result (a bool or a string).
Truthy(x) == CASE x = PyTrue  -> TRUE
               [] x = PyFalse -> FALSE
               [] OTHER       -> x # ""

\* The getters that hand out a list or dict: the consumer holds the very
\* object stored in the field, so it sees every later change to it.
ByReference == {"Specification", "LibraryClass", "ModuleEntryPointList",
                "ModuleUnloadImageList", "ConstructorList", "DestructorList",
                "CustomMakefile", "Defines", "BuildOptions"}

\* What a consumer that asked for a sees now.
Observed(a) ==
  IF cache[a] # NotCached /\ a \in ByReference THEN fld[FieldOf(a)] ELSE cache[a]

Contract == INSTANCE AttributeCache
              WITH Attrs    <- ContractAttrs,
                   Inputs   <- Infs,
                   input    <- inf,
                   resolved <- [a \in ContractAttrs |-> Observed(a)],
                   failed   <- err # None,
                   Promise  <- HeaderPromise,
                   FailsOn  <- HeaderFailsOn

\* Whatever order a consumer reads the attributes in, each attribute of
\* ContractAttrs resolves once, to the value spec.md 4.1 gives it for the
\* module file, and resolution fails only on a rejected [Defines] block
\* (or on BaseName when BASE_NAME is missing): the memoized getters and the
\* once-only _GetHeaderInfo batch implement the AttributeCache contract.
HeaderContract == Contract!Spec

\* SHADOW: the Shadow getter's result is true exactly when the module
\* declares SHADOW = TRUE (any case), whichever attribute was read first.
ShadowFlagMatchesDeclaration ==
  cache["Shadow"] # NotCached =>
     Truthy(cache["Shadow"]) = HeaderPromise(inf, "Shadow")

\* The ModuleType getter always yields one of the supported module kinds
\* (USER_DEFINED for an unrecognised one), whichever attribute was read first.
ModuleTypeIsSupportedKind ==
  cache["ModuleType"] # NotCached => cache["ModuleType"] \in SUP_MODULE_LIST

\* The getters whose normalisation runs only when they find their field
\* None (Shadow's bool conversion, ModuleType's USER_DEFINED fallback)
\* normalise whichever attribute was read first.
HeaderGettersNormalise == ShadowFlagMatchesDeclaration /\ ModuleTypeIsSupportedKind

\* An attribute, once handed out, never changes afterwards (spec.md 3,
\* Lifecycle; 6: read-only after first resolution) -- including the dicts
\* and lists the consumer holds by reference while other getters run.
ResolvedAttributesStable ==
  [][\A a \in Attrs : cache[a] # NotCached => Observed(a)' = Observed(a)]_vars

\* Every fatal error of the resolver is a build error reported with the
\* module file and line (spec.md 7), never an internal Python exception.
ErrorsAreBuildErrors == err # "UnboundLocalError"

\* What a header getter hands out is what the module declares: a
\* normalised Shadow flag and module type whichever attribute ran the batch
\* (HeaderGettersNormalise), and a build error, never an internal Python
\* exception, when the header does not validate (ErrorsAreBuildErrors).
HeaderGettersSound == HeaderGettersNormalise /\ ErrorsAreBuildErrors

=============================================================================
