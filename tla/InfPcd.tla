------------------------------- MODULE InfPcd -------------------------------
(***************************************************************************)
(* PCD resolution (InfBuildData.Pcds and _GetPcd) for several modules of   *)
(* one build that share their packages' PCD declaration tables, and the    *)
(* Guids getter that _GetPcd widens.                                       *)
(*                                                                         *)
(* Package.Pcds maps <<TokenCName, TokenSpaceGuidCName, Type>> to the      *)
(* declaration; _GetPcd renames keys of it in place for the PCDs the       *)
(* platform listed in GlobalData.MixedPcd (one PCD used with several       *)
(* types), so what one module's resolution leaves in the tables is what    *)
(* the next module reads.  One action is one consumer's first read of a   *)
(* getter of one module; every read in between runs to completion.        *)
(*                                                                         *)
(* A PCD record of a module is [guid, cname, dflt, off] (the setting       *)
(* already split by AnalyzePcdData); a declaration is [TokenCName,         *)
(* TokenSpaceGuidCName, Type, TokenValue, DatumType, DefaultValue], its    *)
(* TokenValue a sequence of characters checked by PcdTokenValue.           *)
(***************************************************************************)
EXTENDS Integers, Sequences, SequencesExt, FiniteSets, TLC

CONSTANTS
    Modules,        \* the modules (InfBuildData instances) of the build
    Pkgs,           \* the packages (DecBuildData instances) they depend on
    PcdRecs,        \* PcdRecs[m][t]: the PCD records of m in section type t
    GuidRecs,       \* GuidRecs[m]: the [Guids] names of m
    ModPkgs,        \* ModPkgs[m]: m's Packages, in [Packages] order
    PkgGuids,       \* PkgGuids[p]: the GUID names package p declares
    DecPcds,        \* DecPcds[p]: p's PCD declaration table as parsed
    MixedVariants,  \* the GlobalData.MixedPcd tables a platform may produce
    PCD_TYPE_LIST,  \* Common.DataType.PCD_TYPE_LIST, in priority order
    Eval(_, _),     \* ValueExpressionEx(value, datum type, ...)(True)
    BadExpression,  \* what Eval yields for a value it rejects
    HEX_DIGITS, TOKEN_MAX,   \* the token value check (PcdTokenValue)
    None, NotCached

VARIABLES
    mixedPcd,       \* GlobalData.MixedPcd: <<cname, guid>> -> seq of items
    pkgPcds,        \* pkgPcds[p]: Package.Pcds now
    guids,          \* guids[m]: m's Guids dict, or NotCached
    guidsRead,      \* guidsRead[m]: a consumer holds m's Guids dict
    usedByPcd,      \* usedByPcd[m]: m's _GuidsUsedByPcd
    pcds,           \* pcds[m]: m's Pcds dict, or NotCached
    err             \* the build error that ended the build, or None

vars == <<mixedPcd, pkgPcds, guids, guidsRead, usedByPcd, pcds, err>>

Tok == INSTANCE PcdTokenValue WITH CHARS <- {}, MAX_LEN <- 0, tok <- <<>>

\* The five _GetPcd calls of Pcds, in order, by _PCD_TYPE_STRING_ of each.
CATEGORIES == <<"FixedAtBuild", "PatchableInModule", "FeatureFlag",
                "Dynamic", "DynamicEx">>

Put(d, k, v) == (k :> v) @@ d

\* GuidValue(name, Packages): the value of the first package declaring it.
GuidValue(c, m) ==
  LET i == SelectInSeq(ModPkgs[m], LAMBDA p : c \in PkgGuids[p])
  IN IF i = 0 THEN None ELSE <<ModPkgs[m][i], c>>

\* The Guids getter: one entry per [Guids] record, or a build error.
GuidsOf(m) ==
  FoldLeft(LAMBDA g, c :
             IF g.err # None THEN g
             ELSE IF GuidValue(c, m) = None THEN [g EXCEPT !.err = "GuidNotFound"]
             ELSE [g EXCEPT !.d = Put(@, c, GuidValue(c, m))],
           [d |-> <<>>, err |-> None], GuidRecs[m])

-----------------------------------------------------------------------------
(* _GetPcd, over S = [pkg, guids, used, out, err, pcd].                    *)

\* First loop: the token space GUID of every record is looked up, through
\* the Guids getter (computed on first use), and added to it if missing.
GuidStep(S, r, m) ==
  IF S.err # None THEN S ELSE
  LET g == IF S.guids = NotCached THEN GuidsOf(m) ELSE [d |-> S.guids, err |-> None]
      v == GuidValue(r.guid, m)
  IN CASE g.err # None            -> [S EXCEPT !.err = g.err]
       [] r.guid \in DOMAIN g.d   -> [S EXCEPT !.guids = g.d]
       [] v = None                -> [S EXCEPT !.guids = g.d, !.err = "GuidNotFound",
                                               !.pcd = <<r.cname, r.guid>>]
       [] OTHER -> [S EXCEPT !.guids = Put(g.d, r.guid, v),
                             !.used = Put(@, r.guid, v)]

RenameIn(t, items, real, tsg) ==
  LET ren == {k \in DOMAIN t : /\ t[k].TokenCName = real
                               /\ t[k].TokenSpaceGuidCName = tsg
                               /\ \E i \in 1..Len(items) : items[i].sfx = t[k].Type}
      NewKey(k) == <<real \o "_" \o t[k].Type, k[2], k[3]>>
  IN [nk \in {NewKey(k) : k \in ren} |->
        LET k == CHOOSE k \in ren : NewKey(k) = nk IN [t[k] EXCEPT !.TokenCName = nk[1]]]
     @@ [k \in DOMAIN t \ ren |-> t[k]]

\* The rename, over every package of m.
RenameMixed(pkg, m, items, real, tsg) ==
  [p \in DOMAIN pkg |-> IF p \in Range(ModPkgs[m]) THEN RenameIn(pkg[p], items, real, tsg)
                        ELSE pkg[p]]

\* Mutant: the non-mixed scan without its break (the last type declared wins).
DynamicScanNoBreak(t, items, real, tsg, cname) ==
  LET mixed == items # <<>>
      i == IF mixed THEN 1
           ELSE SelectLastInSeq(PCD_TYPE_LIST, LAMBDA T : <<real, tsg, T>> \in DOMAIN t)
      T == PCD_TYPE_LIST[i]
      h == SelectInSeq(items, LAMBDA it : it.sfx = T /\ <<it.name, it.guid, T>> \in DOMAIN t)
  IN CASE i = 0           -> [type |-> "Dynamic", cname |-> cname]
       [] ~mixed          -> [type |-> T, cname |-> cname]
       [] h = 0           -> [type |-> "Dynamic", cname |-> cname]
       [] OTHER           -> [type |-> T, cname |-> items[h].name]

\* The type and name a dynamic PCD is looked up under in table t: the scan
\* of PCD_TYPE_LIST stops at the first type the package declares, or, for
\* a mixed PCD, after the first type whatever its items match (the break
\* after the item loop).  An item name ends with T exactly when its type
\* suffix is T: no PCD type name ends with another.
DynamicScan(t, items, real, tsg, cname) ==
  LET mixed == items # <<>>
      i == SelectInSeq(PCD_TYPE_LIST,
                       LAMBDA T : mixed \/ <<real, tsg, T>> \in DOMAIN t)
      T == PCD_TYPE_LIST[i]
      h == SelectInSeq(items, LAMBDA it : it.sfx = T /\ <<it.name, it.guid, T>> \in DOMAIN t)
  IN CASE i = 0           -> [type |-> "Dynamic", cname |-> cname]
       [] ~mixed          -> [type |-> T, cname |-> cname]
       [] h = 0           -> [type |-> "Dynamic", cname |-> cname]
       [] OTHER           -> [type |-> T, cname |-> items[h].name]

\* One iteration of the loop over Packages; L carries PcdType, PcdCName and
\* the declaration found, if any (the loop breaks on it).
LookupStep(L, p, pkg, items, real, tsg, cat) ==
  IF L.found # None THEN L ELSE
  LET t  == pkg[p]
      h  == SelectInSeq(items, LAMBDA it : it.sfx = cat)
      ty == IF cat = "Dynamic" THEN DynamicScan(t, items, real, tsg, L.cname)
            ELSE [type |-> cat, cname |-> IF h = 0 THEN L.cname ELSE items[h].name]
      key == <<ty.cname, tsg, ty.type>>
  IN [found |-> IF key \in DOMAIN t THEN t[key] ELSE None,
      type |-> ty.type, cname |-> ty.cname]

\* The token value checks, in code order.
TokenValueError(tv) ==
  CASE tv \in {None, <<>>}          -> "TokenValueMissing"
    [] ~Tok!TokenValueValid(tv)     -> "TokenValueInvalid"
    [] OTHER                        -> None

\* Mutant: Pcd.Type = PcdType forgotten; the object keeps its ''.
PcdFromEntryNoType(e, L, r, cat, g) ==
  [Type |-> "", TokenValue |-> e.TokenValue, DatumType |-> e.DatumType,
   DefaultValue |-> IF r.dflt = "" THEN e.DefaultValue ELSE Eval(r.dflt, e.DatumType),
   InfDefaultValue |-> r.dflt, Pending |-> cat = "Dynamic",
   Offset |-> IF cat = "PatchableInModule" /\ r.off # "" THEN r.off ELSE None,
   TokenSpaceGuidValue |-> g]

\* The PcdClassObject built for record r from the declaration e found.
PcdFromEntry(e, L, r, cat, g) ==
  [Type |-> L.type, TokenValue |-> e.TokenValue, DatumType |-> e.DatumType,
   DefaultValue |-> IF r.dflt = "" THEN e.DefaultValue ELSE Eval(r.dflt, e.DatumType),
   InfDefaultValue |-> r.dflt, Pending |-> cat = "Dynamic",
   Offset |-> IF cat = "PatchableInModule" /\ r.off # "" THEN r.off ELSE None,
   TokenSpaceGuidValue |-> g]

\* Second loop: one PCD of PcdList, its setting the last record of it.
ResolvePcd(S, r0, m, cat, recs) ==
  IF S.err # None THEN S ELSE
  LET real  == r0.cname
      tsg   == r0.guid
      r     == recs[SelectLastInSeq(recs, LAMBDA x : x.cname = real /\ x.guid = tsg)]
      items == IF <<real, tsg>> \in DOMAIN mixedPcd THEN mixedPcd[<<real, tsg>>] ELSE <<>>
      pkg   == IF items # <<>> THEN RenameMixed(S.pkg, m, items, real, tsg) ELSE S.pkg
      L     == FoldLeft(LAMBDA l, p : LookupStep(l, p, pkg, items, real, tsg, cat),
                        [found |-> None, type |-> cat, cname |-> real], ModPkgs[m])
      e     == L.found
      fail(k) == [S EXCEPT !.pkg = pkg, !.err = k, !.pcd = <<real, tsg, cat>>]
  IN CASE e = None                                  -> fail("PcdNotFound")
       [] TokenValueError(e.TokenValue) # None      -> fail(TokenValueError(e.TokenValue))
       [] r.dflt # "" /\ Eval(r.dflt, e.DatumType) = BadExpression
                                                    -> fail("BadExpression")
       [] OTHER -> [S EXCEPT !.pkg = pkg,
                             !.out = Put(@, <<L.cname, tsg>>,
                                         PcdFromEntry(e, L, r, cat, S.guids[tsg]))]

\* _GetPcd(Type): both loops over the records of one section type.
GetPcd(S, m, cat) ==
  LET recs == PcdRecs[m][cat]
      S1   == FoldLeft(LAMBDA s, r : GuidStep(s, r, m), S, recs)
  IN FoldLeft(LAMBDA s, r : ResolvePcd(s, r, m, cat, recs), S1, recs)

\* The Pcds getter: the five sections, later ones overriding earlier keys.
PcdsRun(m, pkg, g, used) ==
  FoldLeft(LAMBDA s, cat : GetPcd(s, m, cat),
           [pkg |-> pkg, guids |-> g, used |-> used, out |-> <<>>, err |-> None,
            pcd |-> None],
           CATEGORIES)

-----------------------------------------------------------------------------

Init ==
  /\ mixedPcd \in MixedVariants
  /\ pkgPcds = DecPcds
  /\ guids = [m \in Modules |-> NotCached]
  /\ guidsRead = [m \in Modules |-> FALSE]
  /\ usedByPcd = [m \in Modules |-> <<>>]
  /\ pcds = [m \in Modules |-> NotCached]
  /\ err = None

\* A consumer reads m.Guids for the first time.
ReadGuids(m) ==
  /\ err = None
  /\ ~guidsRead[m]
  /\ LET g == IF guids[m] = NotCached THEN GuidsOf(m) ELSE [d |-> guids[m], err |-> None]
     IN /\ guids' = [guids EXCEPT ![m] = IF g.err = None THEN g.d ELSE @]
        /\ guidsRead' = [guidsRead EXCEPT ![m] = g.err = None]
        /\ err' = IF g.err = None THEN None
                   ELSE [mod |-> m, op |-> "Guids", kind |-> g.err, pcd |-> None]
  /\ UNCHANGED <<mixedPcd, pkgPcds, usedByPcd, pcds>>

\* A consumer reads m.Pcds for the first time.
ReadPcds(m) ==
  /\ err = None
  /\ pcds[m] = NotCached
  /\ LET S == PcdsRun(m, pkgPcds, guids[m], usedByPcd[m])
     IN /\ pkgPcds' = S.pkg
        /\ guids' = [guids EXCEPT ![m] = S.guids]
        /\ usedByPcd' = [usedByPcd EXCEPT ![m] = S.used]
        /\ pcds' = [pcds EXCEPT ![m] = IF S.err = None THEN S.out ELSE @]
        /\ err' = IF S.err = None THEN None
                   ELSE [mod |-> m, op |-> "Pcds", kind |-> S.err, pcd |-> S.pcd]
  /\ UNCHANGED <<mixedPcd, guidsRead>>

Next == \E m \in Modules : ReadGuids(m) \/ ReadPcds(m)

Spec == Init /\ [][Next]_vars

-----------------------------------------------------------------------------
(* Properties.                                                             *)

TypeOK ==
  /\ mixedPcd \in MixedVariants
  /\ err = None \/ (err.mod \in Modules /\ err.op \in {"Guids", "Pcds"})
  \* every resolved PCD carries the type of the declaration it was found under
  /\ \A m \in Modules : pcds[m] # NotCached =>
        \A k \in DOMAIN pcds[m] : pcds[m][k].Type \in Range(PCD_TYPE_LIST)

\* What m's Pcds getter yields when it is the first to touch the tables.
Fresh(m) == PcdsRun(m, DecPcds, NotCached, <<>>)

FirstDeclaredType(m, c, g) ==
  LET Declares(p, T) == <<c, g, T>> \in DOMAIN DecPcds[p]
      i == SelectInSeq(ModPkgs[m], LAMBDA p : \E T \in Range(PCD_TYPE_LIST) : Declares(p, T))
      p == ModPkgs[m][i]
  IN PCD_TYPE_LIST[SelectInSeq(PCD_TYPE_LIST, LAMBDA T : Declares(p, T))]

\* A PCD a module lists in [Pcd] (type left to the platform) and that the
\* platform does not split resolves to the highest-priority type of the
\* first package declaring it (spec.md 8, PCD type precedence).
\* Whether key <<cname, guid>> of a Pcds dict is a PCD the platform split,
\* under its own name or one of its instances' names.
IsMixed(k) ==
  \E mk \in DOMAIN mixedPcd :
     mk[2] = k[2] /\ (mk[1] = k[1] \/ \E i \in 1..Len(mixedPcd[mk]) : mixedPcd[mk][i].name = k[1])

DynamicTypePrecedence ==
  \A m \in Modules : pcds[m] # NotCached =>
     \A k \in DOMAIN pcds[m] :
        pcds[m][k].Pending /\ ~IsMixed(k) =>
           pcds[m][k].Type = FirstDeclaredType(m, k[1], k[2])

\* Declared in some package of m, under the section's type or, for [Pcd],
\* under any type of PCD_TYPE_LIST.
Declared(m, pcd) ==
  \E p \in Range(ModPkgs[m]) :
     \E T \in (IF pcd[3] = "Dynamic" THEN Range(PCD_TYPE_LIST) ELSE {pcd[3]}) :
        <<pcd[1], pcd[2], T>> \in DOMAIN DecPcds[p]

\* "Absence from every dependent package's declaration table is a hard
\* error" (spec.md 4.3), and only absence: a PCD some package of the module
\* declares is never reported as not found, split by MixedPcd or not.
PcdFoundWhenDeclared ==
  (err # None /\ err.kind = "PcdNotFound") => ~Declared(err.mod, err.pcd)

\* A Guids dict a consumer holds does not change afterwards (spec.md 6:
\* read-only after first resolution), although _GetPcd adds token spaces.
GuidsStable ==
  [][\A m \in Modules : guidsRead[m] => guids'[m] = guids[m]]_vars

\* What one module's _GetPcd writes into shared state (the renamed package
\* tables, the widened Guids dict) never breaks another read: no step
\* reports a declared PCD as not found (PcdFoundWhenDeclared) or changes a
\* Guids dict a consumer already holds (GuidsStable).
PcdSharedStateSound ==
  [][PcdFoundWhenDeclared' /\ \A m \in Modules : guidsRead[m] => guids'[m] = guids[m]]_vars

=============================================================================
