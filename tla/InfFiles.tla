------------------------------ MODULE InfFiles ------------------------------
(***************************************************************************)
(* The file and symbol getters of InfBuildData (Binaries, Sources,         *)
(* Includes, Packages, LibraryClasses, Libraries, Protocols, Ppis) beside  *)
(* the header getters of InfHeader, on one facade: they share self._Macros *)
(* and the header fields, so one consumer's read order decides what the    *)
(* next getter expands a $(EDK_SOURCE), $(EFI_SOURCE) or $(PROCESSOR) to.  *)
(*                                                                         *)
(* A path record is <<root, rest>>: root a macro use (a model value of     *)
(* MacroRef), "." or a directory name, rest a file name.  NormPath expands *)
(* the root; the directory a path is then joined to is fixed by its first  *)
(* character, so a path stands for the joined one, and inf.paths is the    *)
(* set of those that exist.  A getter is an operator from a facade state   *)
(* S = [f, m, hd, c, fc, err] (fields, macros, header memo, header and    *)
(* file getter caches, error) to the state after it, so the value a getter yields on a *)
(* fresh facade can be stated beside the one it yields in a behaviour.    *)
(***************************************************************************)
EXTENDS InfHeader

CONSTANTS
    FileAttrs,      \* the file and symbol getters a consumer may call
    EDK_SOURCE,     \* GlobalData.gEdkSource
    WORKSPACE,      \* GlobalData.gWorkspace
    PKG_SYMBOLS,    \* package path -> [Protocols, Ppis, Guids]: the names it declares
    DEPEX_SUPPORTED_OPCODE_SET,   \* Common.DataType
    BUILD_DB,       \* self.BuildDatabase: module file -> its FILE_GUID, or None
    PCD_TOKEN       \* a depex token with a period -> <<TokenCName, TokenSpaceGuid>>

VARIABLES
    fcache,         \* fcache[a]: the value file getter a cached, or NotCached
    ignoreSource    \* GlobalData.gIgnoreSource (binary-only build)

allVars == <<inf, fld, macros, headerDone, cache, err, fcache, ignoreSource>>

\* NormPath(Path, Defines): the macro use at the root is expanded, or kept.
NormPath(p, m) == <<ReplaceMacro(p[1], m, FALSE), p[2]>>

\* Record[0].find(name) > -1: the record's text names the macro.
Uses(p, name) == p[1] \in DOMAIN MacroRef /\ MacroRef[p[1]] = name

\* PathClass.Validate(ext) / RealPath: the file exists (with the extension).
Exists(p) == p \in inf.paths
ValidExt(p, ext) == Exists(p) /\ FILE_EXT[p[2]] = ext

Kept(p) == IF Exists(p) THEN <<p>> ELSE <<>>

MapSeq(s, Op(_)) == [k \in 1..Len(s) |-> Op(s[k])]

-----------------------------------------------------------------------------
(* The getters, over S.                                                    *)

\* self._GetHeaderInfo(), a no-op once it has returned.
HeaderInto(S, H) ==
  [S EXCEPT !.f = H.f, !.m = H.m, !.hd = HeaderCached(S.hd, H.err = None),
            !.err = H.err]

RunHeader(S) == IF S.hd THEN S ELSE HeaderInto(S, HeaderInfo(S.f, S.m, inf))

\* _GetBinaries and the Binaries check.
Binaries(S) ==
  LET m     == Put(Put(S.m, "EDK_SOURCE", ECP_SOURCE), "PROCESSOR", ARCH)
      files == MapSeq(inf.bins, LAMBDA r : NormPath(r, m))
  IN CASE \E k \in 1..Len(files) : ~Exists(files[k])
              -> [S EXCEPT !.m = m, !.err = "FILE_NOT_FOUND"]
       [] ignoreSource /\ files = <<>>
              -> [S EXCEPT !.m = m, !.err = "RESOURCE_NOT_AVAILABLE"]
       [] OTHER -> [S EXCEPT !.m = m, !.fc.Binaries = files]

\* The header's dependency files, as the path records of the model.
DepFiles(f) == MapSeq(OrEmpty(f.DependencyFileList), LAMBDA d : <<".", d>>)

\* Sources: the header first; nothing in a binary build; an Edk module sets
\* EDK_SOURCE and PROCESSOR on every record and only warns on a missing
\* header file; the header's dependency files come last.
SourcesAfterHeader(H) ==
  IF H.err # None THEN H ELSE
  IF ignoreSource THEN [H EXCEPT !.fc.Sources = <<>>] ELSE
  LET legacy == ~IsModern(inf)
      m == IF legacy /\ inf.srcs # <<>>
           THEN Put(Put(H.m, "EDK_SOURCE", ECP_SOURCE), "PROCESSOR", ARCH) ELSE H.m
      Step(acc, r) ==
        LET p == NormPath(r, m) IN
        CASE acc.err # None                     -> acc
          [] Exists(p)                          -> [acc EXCEPT !.out = Append(@, p)]
          [] legacy /\ FILE_EXT[p[2]] = "h"     -> acc
          [] OTHER                              -> [acc EXCEPT !.err = "FILE_NOT_FOUND"]
      R == FoldLeft(Step, [out |-> <<>>, err |-> None], inf.srcs)
  IN IF R.err # None THEN [H EXCEPT !.m = m, !.err = R.err]
     ELSE [H EXCEPT !.m = m, !.fc.Sources = R.out \o DepFiles(H.f)]

\* Mutant: Sources without its _GetHeaderInfo call.
SourcesNoHeader(S) == SourcesAfterHeader(S)

Sources(S) == SourcesAfterHeader(RunHeader(S))

\* One include record: an EDK_SOURCE path is tried under gEcpSource, then
\* under gEdkSource (which stays in the table); another path that does not
\* exist and names EFI_SOURCE is retried with EFI_SOURCE = gWorkspace.
IncludeStep(acc, r) ==
  IF Uses(r, "EDK_SOURCE") THEN
     LET ma == Put(acc.m, "EDK_SOURCE", ECP_SOURCE)
         mb == Put(ma, "EDK_SOURCE", EDK_SOURCE)
     IN [m |-> mb, out |-> acc.out \o Kept(NormPath(r, ma)) \o Kept(NormPath(r, mb))]
  ELSE LET p == NormPath(r, acc.m) IN
     CASE Exists(p)              -> [acc EXCEPT !.out = Append(@, p)]
       [] Uses(r, "EFI_SOURCE")  ->
            LET me == Put(acc.m, "EFI_SOURCE", WORKSPACE)
            IN [m |-> me, out |-> acc.out \o Kept(NormPath(r, me))]
       [] OTHER                  -> acc

\* Includes: self._SourceOverridePath as the header left it (the getter does
\* not run the header), then the records, PROCESSOR set first.
Includes(S) ==
  LET ov == S.f.SourceOverridePath
      m0 == Put(S.m, "PROCESSOR", IF "PROCESSOR" \in DOMAIN EDK_GLOBAL
                                  THEN EDK_GLOBAL["PROCESSOR"] ELSE ARCH)
      R  == FoldLeft(IncludeStep,
                     [m |-> m0, out |-> IF ov # None THEN << <<ov>> >> ELSE <<>>],
                     inf.incs)
  IN [S EXCEPT !.m = R.m, !.fc.Includes = R.out]

\* Mutant: Packages without its EDK_SOURCE assignment.
PackagesNoPin(S) ==
  LET files == MapSeq(inf.pkgs, LAMBDA r : NormPath(r, S.m))
  IN IF \E k \in 1..Len(files) : ~ValidExt(files[k], "dec")
     THEN [S EXCEPT !.err = "FILE_NOT_FOUND"]
     ELSE [S EXCEPT !.fc.Packages = files]

\* Mutant: Packages without its .dec validation.
PackagesNoCheck(S) ==
  LET m == Put(S.m, "EDK_SOURCE", ECP_SOURCE)
  IN [S EXCEPT !.m = m, !.fc.Packages = MapSeq(inf.pkgs, LAMBDA r : NormPath(r, m))]

\* Packages: EDK_SOURCE = gEcpSource, then every .dec path validated.
Packages(S) ==
  LET m     == Put(S.m, "EDK_SOURCE", ECP_SOURCE)
      files == MapSeq(inf.pkgs, LAMBDA r : NormPath(r, m))
  IN IF \E k \in 1..Len(files) : ~ValidExt(files[k], "dec")
     THEN [S EXCEPT !.m = m, !.err = "FILE_NOT_FOUND"]
     ELSE [S EXCEPT !.m = m, !.fc.Packages = files]

\* LibraryClasses: class -> instance path, macros as the table holds them.
LibraryClasses(S) ==
  [S EXCEPT !.fc.LibraryClasses =
     FoldLeft(LAMBDA d, r : Put(d, r[1], IF r[2] = None THEN None ELSE NormPath(r[2], S.m)),
              <<>>, inf.libcls)]

\* Libraries: each name macro-expanded, its extension dropped, de-duplicated.
Libraries(S) ==
  [S EXCEPT !.fc.Libraries =
     FoldLeft(LAMBDA l, r : LET n == ReplaceMacro(r[1], S.m, FALSE)
                            IN IF n \in Range(l) THEN l ELSE Append(l, n),
              <<>>, inf.libs)]

\* ProtocolValue / PpiValue: the first package declaring the name wins.
SymbolValue(kind, c, pkgs) ==
  LET i == SelectInSeq(pkgs, LAMBDA p : c \in PKG_SYMBOLS[p][kind])
  IN IF i = 0 THEN None ELSE <<pkgs[i], c>>

\* Protocols and Ppis: per record, self.Packages (run at the first record if
\* not cached) and a lookup; an unresolved name is a build error.
Symbols(kind, S) ==
  LET S1 == IF inf[kind] # <<>> /\ S.fc.Packages = NotCached THEN Packages(S) ELSE S
      vs == MapSeq(inf[kind], LAMBDA c : SymbolValue(kind, c, S1.fc.Packages))
  IN CASE S1.err # None -> S1
       [] \E k \in 1..Len(vs) : vs[k] = None -> [S1 EXCEPT !.err = "RESOURCE_NOT_AVAILABLE"]
       [] OTHER -> [S1 EXCEPT !.fc[kind] =
                      [c \in Range(inf[kind]) |-> SymbolValue(kind, c, S1.fc.Packages)]]

\* self.<a> for a header getter a: its cached value or its first read.
Header(a, S) == IF S.c[a] # NotCached THEN S ELSE GetAttr(a, S)

\* self.<a> for a file getter a, from the file getter cache or run now.
Cached(a, S, Op(_)) == IF S.fc[a] # NotCached THEN S ELSE Op(S)

\* The kinds that must have a [Depex] section unless they are libraries.
DEPEX_REQUIRED == {"DXE_DRIVER", "PEIM", "DXE_SMM_DRIVER", "DXE_SAL_DRIVER",
                   "DXE_RUNTIME_DRIVER"}

\* The kinds a USER_DEFINED module may name as the type of a [Depex] section.
DEPEX_USER_TYPES == {"PEIM", "DXE_DRIVER", "DXE_SMM_DRIVER"}

\* A record's tokens: DepexStr = ReplaceMacro(Record[0], self._Macros), split.
DepexTokens(r, m) == MapSeq(r.toks, LAMBDA t : ReplaceMacro(t, m, FALSE))

DepexKey(r) == <<r.arch, r.type>>

EndsWithInf(t) == t \in DOMAIN FILE_EXT /\ FILE_EXT[t] = "inf"

\* ProtocolValue, then PpiValue, then GuidValue against self.Packages.
SymbolLookup(t, pkgs) ==
  LET kinds == <<"Protocols", "Ppis", "Guids">>
      v == [k \in 1..3 |-> SymbolValue(kinds[k], t, pkgs)]
      i == SelectInSeq(v, LAMBDA x : x # None)
  IN IF i = 0 THEN None ELSE v[i]

\* The value of a name token, once self.Packages has run (S1).
DepexSymbol(key, acc, S1, t) ==
  LET v == SymbolLookup(t, S1.fc.Packages)
  IN CASE S1.err # None -> [acc EXCEPT !.s = S1]
       [] v = None      -> [acc EXCEPT !.s = [S1 EXCEPT !.err = "RESOURCE_NOT_AVAILABLE"]]
       [] OTHER         -> [acc EXCEPT !.s = S1, !.d[key] = Append(@, <<"sym", v>>)]

\* One token of the Depex loop over acc = [s: facade, d: key -> values]:
\* an opcode is kept, a module file becomes its FILE_GUID, a fixed PCD
\* reference is kept after its check, any other name is resolved; the
\* compiled value is tagged with its kind.
DepexStep(key, acc, t) ==
  LET Out(v) == [acc EXCEPT !.d[key] = Append(@, v)]
      Fail(e) == [acc EXCEPT !.s.err = e]
  IN CASE acc.s.err # None -> acc
       [] t \in DEPEX_SUPPORTED_OPCODE_SET -> Out(<<"op", t>>)
       [] EndsWithInf(t) ->
            IF BUILD_DB[t] = None THEN Fail("RESOURCE_NOT_AVAILABLE")
            ELSE Out(<<"guid", BUILD_DB[t]>>)
       [] t \in DOMAIN PCD_TOKEN ->
            CASE PCD_TOKEN[t] \notin DOMAIN inf.pcds -> Fail("RESOURCE_NOT_AVAILABLE")
              [] inf.pcds[PCD_TOKEN[t]] # "VOID*"   -> Fail("FORMAT_INVALID")
              [] OTHER                              -> Out(<<"pcd", t>>)
       [] OTHER -> DepexSymbol(key, acc, Cached("Packages", acc.s, Packages), t)

\* One [Depex] record: its tokens expanded against the macros as they are
\* when the record is reached, appended to the list of its key.
DepexRecord(acc, r) ==
  LET key == DepexKey(r)
      a0  == IF key \in DOMAIN acc.d THEN acc ELSE [acc EXCEPT !.d = Put(@, key, <<>>)]
  IN IF acc.s.err # None THEN acc
     ELSE FoldLeft(LAMBDA a, t : DepexStep(key, a, t), a0, DepexTokens(r, acc.s.m))

\* The two validation rules, on the facade after the getters they read.
DepexRules(S) ==
  LET recs == inf.depex IN
  CASE S.err # None -> S
    [] S.c.LibraryClass = <<>> /\ recs = <<>> /\ S.c.ModuleType \in DEPEX_REQUIRED
         -> [S EXCEPT !.err = "RESOURCE_NOT_AVAILABLE"]
    [] recs # <<>> /\ S.c.ModuleType = "USER_DEFINED"
       /\ \E k \in 1..Len(recs) : recs[k].type \notin DEPEX_USER_TYPES
         -> [S EXCEPT !.err = "FORMAT_INVALID"]
    [] OTHER -> S

\* self.ModuleType is read when the first rule's other conditions hold
\* (len(self.LibraryClass) == 0 and no records) or there are records.
DepexKindRead(S) ==
  IF S.err = None /\ (inf.depex # <<>> \/ S.c.LibraryClass = <<>>)
  THEN Header("ModuleType", S) ELSE S

\* Mutant: the checks without the rule for kinds that need a [Depex].
DepexCheckedNoRequired(S) ==
  LET S3 == DepexKindRead(Header("LibraryClass", S)) IN
  IF S3.err = None /\ inf.depex # <<>> /\ S3.c.ModuleType = "USER_DEFINED"
     /\ \E k \in 1..Len(inf.depex) : inf.depex[k].type \notin DEPEX_USER_TYPES
  THEN [S3 EXCEPT !.err = "FORMAT_INVALID"] ELSE S3

\* The checks before the loop, on the facade after self.Sources.
DepexChecked(S) == DepexRules(DepexKindRead(Header("LibraryClass", S)))

DepexResult(R) == IF R.s.err # None THEN R.s ELSE [R.s EXCEPT !.fc.Depex = R.d]

DepexLoop(S) ==
  IF S.err # None THEN S
  ELSE DepexResult(FoldLeft(DepexRecord, [s |-> S, d |-> <<>>], inf.depex))

\* After self.Sources and, if it is empty, self.Binaries.
DepexAfterFiles(S) ==
  CASE S.err # None -> S
    [] S.fc.Sources = <<>> /\ S.fc.Binaries # <<>> -> [S EXCEPT !.fc.Depex = <<>>]
    [] OTHER -> DepexLoop(DepexChecked(S))

DepexSourcesRead(S) ==
  IF S.err = None /\ S.fc.Sources = <<>> THEN Cached("Binaries", S, Binaries) ELSE S

\* Depex: nothing for a module with binaries and no sources, else the
\* checks and the token loop.
Depex(S) == DepexAfterFiles(DepexSourcesRead(Cached("Sources", S, Sources)))

\* DepexExpression: per key, the tokens expanded against self._Macros as it
\* is now (the string joins them, each followed by a space).
DepexExpression(S) ==
  [S EXCEPT !.fc.DepexExpression =
     FoldLeft(LAMBDA d, r : LET k == DepexKey(r) IN
                 Put(d, k, (IF k \in DOMAIN d THEN d[k] ELSE <<>>) \o DepexTokens(r, S.m)),
              <<>>, inf.depex)]

Get(a, S) ==
  CASE a = "Binaries"       -> Binaries(S)
    [] a = "Sources"        -> Sources(S)
    [] a = "Includes"       -> Includes(S)
    [] a = "Packages"       -> Packages(S)
    [] a = "LibraryClasses" -> LibraryClasses(S)
    [] a = "Libraries"      -> Libraries(S)
    [] a \in {"Protocols", "Ppis"} -> Symbols(a, S)
    [] a = "Depex"          -> Depex(S)
    [] a = "DepexExpression" -> DepexExpression(S)

-----------------------------------------------------------------------------

InitFld == [Defs |-> <<>>] @@ [x \in FieldNames |-> None]

Now == [f |-> fld, m |-> macros, hd |-> headerDone, c |-> cache, fc |-> fcache,
        err |-> None]

\* The facade as constructed, before any getter ran.
Fresh == [f |-> InitFld, m |-> InitMacros(inf), hd |-> FALSE, c |-> [a \in Attrs |-> NotCached],
          fc |-> [a \in FileAttrs |-> NotCached], err |-> None]

FInit ==
  /\ Init
  /\ fcache = [a \in FileAttrs |-> NotCached]
  /\ ignoreSource \in BOOLEAN

\* A header getter's first read (InfHeader), on the shared table.
HeaderRead(a) == Access(a) /\ UNCHANGED <<fcache, ignoreSource>>

\* A file or symbol getter's first read, with what it runs on the way.
FileRead(a) ==
  /\ err = None
  /\ fcache[a] = NotCached
  /\ LET S == Get(a, Now)
     IN /\ fld' = S.f
        /\ macros' = S.m
        /\ headerDone' = S.hd
        /\ fcache' = IF S.err = None THEN S.fc ELSE fcache
        /\ cache' = S.c
        /\ err' = S.err
  /\ UNCHANGED <<inf, ignoreSource>>

\* IsBinaryModule, a plain property computed on every read: Binaries, then
\* Sources only when Binaries is not empty (Python's "and"), unless
\* gIgnoreSource decides.
IsBinaryModuleState(S) ==
  LET B == Cached("Binaries", S, Binaries)
  IN IF B.err = None /\ B.fc.Binaries # <<>> THEN Cached("Sources", B, Sources) ELSE B

\* The value it returns, from the state it left.
IsBinaryModuleValue(T) ==
  (T.fc.Binaries # <<>> /\ T.fc.Sources = <<>>) \/ ignoreSource

\* A read of IsBinaryModule, with the getters it runs on the way.
BinaryRead ==
  /\ err = None
  /\ LET S == IsBinaryModuleState(Now)
     IN /\ fld' = S.f
        /\ macros' = S.m
        /\ headerDone' = S.hd
        /\ fcache' = IF S.err = None THEN S.fc ELSE fcache
        /\ cache' = S.c
        /\ err' = S.err
  /\ UNCHANGED <<inf, ignoreSource>>

FNext == (\E a \in Attrs : HeaderRead(a)) \/ (\E a \in FileAttrs : FileRead(a))
         \/ BinaryRead

FSpec == FInit /\ [][FNext]_allVars

-----------------------------------------------------------------------------
(* Properties.                                                             *)

FilesTypeOK ==
  /\ DOMAIN fcache = FileAttrs
  /\ ignoreSource \in BOOLEAN
  /\ err \in ErrorKinds \cup {"RESOURCE_NOT_AVAILABLE", "FORMAT_INVALID", None}
  \* a package handed out is an existing .dec file
  /\ fcache.Packages # NotCached =>
        \A k \in 1..Len(fcache.Packages) : ValidExt(fcache.Packages[k], "dec")

\* The dependency expression files the module file declares: [Defines]
\* DPX_SOURCE of an EDK II module, [nmake] DPX_SOURCE of an Edk one.
DxsRecords(in) ==
  LET recs == IF IsModern(in) THEN in.hdr ELSE in.nmake
  IN {recs[k][2] : k \in {j \in DOMAIN recs : recs[j][1] = "DPX_SOURCE"}}

\* Sources hands the build every dependency expression file the module
\* declares, whichever getters ran first: it runs _GetHeaderInfo itself
\* before it appends self._DependencyFileList.
SourcesCarryDependencyFiles ==
  fcache.Sources # NotCached /\ ~ignoreSource =>
     \A d \in DxsRecords(inf) : <<".", d>> \in Range(fcache.Sources)

\* Getter a yields what it would yield on a fresh facade (spec.md 3: a
\* resolved attribute is a function of the module file and the build).
Stable(a) == fcache[a] # NotCached => fcache[a] = Get(a, Fresh).fc[a]

\* Binaries and Packages set the macros they expand ($(EDK_SOURCE),
\* $(PROCESSOR)) before their loop, and Protocols and Ppis resolve against
\* Packages: their values do not depend on what other getters ran first.
PinnedGettersIndependentOfOrder ==
  \A a \in {"Binaries", "Packages", "Protocols", "Ppis"} : Stable(a)

\* LibraryClasses and Libraries expand their records against self._Macros
\* as earlier getters left it: the same module's library paths should not
\* depend on the order the build reads its attributes in.
LibraryPathsIndependentOfOrder ==
  Stable("LibraryClasses") /\ Stable("Libraries")

\* Includes starts from self._SourceOverridePath without running
\* _GetHeaderInfo: its list should not depend on whether a header getter
\* ran first.
IncludesIndependentOfOrder == Stable("Includes")

\* The file getters that read shared state without resetting it first
\* (LibraryClasses, Libraries, Includes, and DepexExpression, which expands
\* a [Depex] macro the module defines only if a header getter ran) yield
\* what they yield on a fresh facade.
FileGettersIndependentOfOrder ==
  LibraryPathsIndependentOfOrder /\ IncludesIndependentOfOrder
  /\ Stable("DepexExpression")

\* Whether the module is what Depex skips: binaries and no sources.
BinaryOnly == ignoreSource \/ (inf.srcs = <<>> /\ inf.bins # <<>>)

\* A driver kind that needs a dependency expression and is no library never
\* gets a Depex without one (spec.md 4.4), whichever getters ran first.
DepexRequiredForDrivers ==
  fcache.Depex # NotCached /\ ~BinaryOnly
  /\ HeaderPromise(inf, "ModuleType") \in DEPEX_REQUIRED
  /\ HeaderPromise(inf, "LibraryClass") = <<>> => DOMAIN fcache.Depex # {}

\* A USER_DEFINED module supplying a dependency expression names one of the
\* allowed kinds as its type (spec.md 4.4); the kind is the one the header
\* promises, an unsupported declared kind being USER_DEFINED.
DepexUserDefinedRestricted ==
  fcache.Depex # NotCached /\ HeaderPromise(inf, "ModuleType") = "USER_DEFINED" =>
     \A key \in DOMAIN fcache.Depex : key[2] \in DEPEX_USER_TYPES

\* Every file getter's value is independent of the access order, and the
\* Depex checks apply to the kind the module declares.
FileGettersSound == FileGettersIndependentOfOrder /\ DepexUserDefinedRestricted

=============================================================================
