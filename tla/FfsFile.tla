------------------------------- MODULE FfsFile -------------------------------
(***************************************************************************)
(* FileStatement.GenFfs (GenFds/FfsFileStatement.py): the FFS file of one  *)
(* FILE statement of the FDF, generated by calls that may repeat, share    *)
(* one macro dict and one FvChildAddr list, and rewrite the statement      *)
(* object itself (NameGuid, FileName, SubAlignment, Alignment).            *)
(*                                                                         *)
(* A call passes either the Dict of the FV being built (Fv.AddToBuffer     *)
(* passes its MacroDict, its child FV addresses and its base address) or   *)
(* nothing, in which case Python gives it the one dict object created for  *)
(* the default argument when the def statement ran, and FvChildAddr the    *)
(* one default list.  One action is one whole call.                       *)
(*                                                                         *)
(* File names, alignments and PCD values are model values; the RAW file   *)
(* contents are lengths, and a packed RAW file is its layout: each part's  *)
(* offset and alignment, and the 0xFF padding.  The collaborators outside  *)
(* this file (GetPcdValue, GetAlignment, Fv.AddToBuffer, Fd.GenFd,         *)
(* GenSection, GenerateFfs) are constants or are recorded as called.       *)
(***************************************************************************)
EXTENDS Integers, Sequences, SequencesExt, FiniteSets

CONSTANTS
    Stmts,          \* the FILE statements
    STMT,           \* STMT[s]: the statement object as FdfParser built it
    FV_NAME,        \* UiFvName of the FV whose AddToBuffer calls GenFfs
    FV_DICT,        \* Profile.FvDict: the FV names the FDF describes
    FD_DICT,        \* Profile.FdDict: the FD names the FDF describes
    PCD_VALUE,      \* GenFdsGlobalVariable.GetPcdValue on a PCD(...) NameGuid
    BYTE_GUID,      \* GuidStructureByteArrayToGuidString on a {...} value
    FILE_LEN,       \* RAW file -> its length; a file not in it cannot be opened
    ALIGN,          \* GenFdsGlobalVariable.GetAlignment: "8", "1K", ... -> bytes
    USES,           \* FILE path -> the $(NAME) it uses
    SEC_OUT,        \* GenSection of a section kind -> number of files it yields
    SEC_ALIGN,      \* ... and their alignment
    FV_MACROS,      \* the FV's MacroDict before any FILE of it is generated
    CHILD_ADDRS,    \* the FV's FvChildAddr list
    RAW_PATH,       \* NameGuid -> FfsDir/NameGuid/NameGuid.raw
    MAX_CALLS,      \* bound on GenFfs calls
    None

VARIABLES
    st,             \* st[s]: the statement's fields GenFfs rewrites
    dicts,          \* dicts[d]: the dict object d ("default" or "fv")
    childAddr,      \* childAddr[d]: the FvChildAddr list object d
    secAddr,        \* secAddr[s][i]: FvAddr set on section i of s, or None
    dirs,           \* the output directories created
    raw,            \* raw[s]: the layout of s's packed .raw file, or None
    out,            \* out[s]: the GenerateFfs requests of s, in call order
    err,            \* None, GENFDS_ERROR, or an escaping Python exception
    errAt,          \* the statement whose call raised
    calls           \* GenFfs calls so far

vars == <<st, dicts, childAddr, secAddr, dirs, raw, out, err, errAt, calls>>

Callers == {"default", "fv"}

\* A Python list (FileName or SubAlignment), as opposed to one value.
IsList(x) == x # None /\ x \notin DOMAIN ALIGN /\ x \notin DOMAIN USES

\* Python truthiness of an alignment field: None and [] are false.
Truthy(x) == x # None /\ x # <<>>

\* dict.update: the new entries win.
Update(d, new) == new @@ d

\* GenFdsGlobalVariable.MacroExtend of a path against a macro dict.
MacroExtend(p, D) ==
  IF USES[p] \in DOMAIN D THEN <<p, D[USES[p]]>> ELSE p

-----------------------------------------------------------------------------
(* The steps of one call, over C = [s, d, st, dict, child, sec, dirs, raw, *)
(* err, files, aligns]: the statement, the caller, and what it changes.    *)

\* Mutant: a byte-array PCD value taken as the GUID string unconverted.
ResolveNameGuidNoConvert(C) ==
  LET ng == C.st.nameGuid IN
  IF ng \notin DOMAIN PCD_VALUE THEN C
  ELSE IF PCD_VALUE[ng] = "" THEN [C EXCEPT !.err = "GENFDS_ERROR"]
  ELSE [C EXCEPT !.st.nameGuid = PCD_VALUE[ng]]

\* The PCD(...) NameGuid resolved once and written back to the statement.
ResolveNameGuid(C) ==
  LET ng == C.st.nameGuid IN
  IF ng \notin DOMAIN PCD_VALUE THEN C
  ELSE LET v == PCD_VALUE[ng]
           g == IF v \in DOMAIN BYTE_GUID THEN BYTE_GUID[v] ELSE v
       IN IF v = "" \/ g = "" THEN [C EXCEPT !.err = "GENFDS_ERROR"]
          ELSE [C EXCEPT !.st.nameGuid = g]

\* Mutant: the index of the largest alignment never updated.
PackStepNoMax(sub, acc, i, f) ==
  LET av  == IF sub[i] = None THEN 1 ELSE ALIGN[sub[i]]
      len == acc.len + FILE_LEN[f]
      pad == IF len % av # 0 THEN av - (len % av) ELSE 0
  IN IF acc.err # None THEN acc
     ELSE IF f \notin DOMAIN FILE_LEN THEN [acc EXCEPT !.err = "GENFDS_ERROR"]
     ELSE [acc EXCEPT
             !.lay = Append(@, [file |-> f, off |-> acc.len, align |-> av, pad |-> pad]),
             !.len = len + pad]

\* One RAW file of the packing loop over acc = [lay, len, maxIdx, maxVal,
\* err]: appended, then padded to a multiple of its own alignment.
PackStep(sub, acc, i, f) ==
  LET av  == IF sub[i] = None THEN 1 ELSE ALIGN[sub[i]]
      len == acc.len + FILE_LEN[f]
      pad == IF len % av # 0 THEN av - (len % av) ELSE 0
  IN IF acc.err # None THEN acc
     ELSE IF f \notin DOMAIN FILE_LEN THEN [acc EXCEPT !.err = "GENFDS_ERROR"]
     ELSE [acc EXCEPT
             !.lay = Append(@, [file |-> f, off |-> acc.len, align |-> av, pad |-> pad]),
             !.len = len + pad,
             !.maxIdx = IF av > acc.maxVal THEN i ELSE @,
             !.maxVal = IF av > acc.maxVal THEN av ELSE @]

\* The files of a RAW FILE statement packed into one .raw file; when it is
\* not empty the statement's FileName and SubAlignment are replaced by the
\* .raw path and the largest alignment.
PackRaw(C) ==
  LET fs  == C.st.fileName
      sub == C.st.subAlign
      R   == FoldLeftDomain(LAMBDA acc, i : PackStep(sub, acc, i, fs[i]),
                            [lay |-> <<>>, len |-> 0, maxIdx |-> 1, maxVal |-> 1,
                             err |-> None], fs)
  IN CASE R.err # None -> [C EXCEPT !.err = R.err]
       [] R.len = 0    -> C
       [] OTHER        -> [C EXCEPT !.raw = R.lay,
                                    !.st.fileName = RAW_PATH[C.st.nameGuid],
                                    !.st.subAlign = sub[R.maxIdx]]

\* Alignment = the larger of Alignment and SubAlignment; GetAlignment of a
\* list (a RAW statement whose files were all empty) raises.
MergeAlignment(C) ==
  LET a == C.st.alignment
      b == C.st.subAlign
  IN CASE C.err # None -> C
       [] Truthy(a) /\ Truthy(b) ->
            IF IsList(a) \/ IsList(b) THEN [C EXCEPT !.err = "PyException"]
            ELSE IF ALIGN[a] < ALIGN[b] THEN [C EXCEPT !.st.alignment = b] ELSE C
       [] Truthy(b) -> [C EXCEPT !.st.alignment = b]
       [] OTHER -> C

\* The FvName branch: the FV must be described; Fv.AddToBuffer makes it.
FvBranch(C) ==
  IF STMT[C.s].fvName \notin FV_DICT THEN [C EXCEPT !.err = "GENFDS_ERROR"]
  ELSE [C EXCEPT !.files = << <<"fv", STMT[C.s].fvName>> >>]

\* The FdName branch: the FD must be described; Fd.GenFd makes it.
FdBranch(C) ==
  IF STMT[C.s].fdName \notin FD_DICT THEN [C EXCEPT !.err = "GENFDS_ERROR"]
  ELSE [C EXCEPT !.files = << <<"fd", STMT[C.s].fdName>> >>]

\* Packing, when FileName and SubAlignment are lists of one length.
RawLists(C) ==
  IF IsList(C.st.fileName) /\ IsList(C.st.subAlign)
     /\ Len(C.st.fileName) = Len(C.st.subAlign)
  THEN PackRaw(C) ELSE C

\* The FileName branch: a RAW statement packs its files and merges its
\* alignments; then ReplaceWorkspaceMacro and the $(SPACE) replacement (no
\* path of the model names either; a list raises) and MacroExtend against
\* the call's Dict.
FileBranch(C) ==
  LET C1 == IF STMT[C.s].fileType = "RAW" THEN MergeAlignment(RawLists(C)) ELSE C
  IN CASE C1.err # None             -> C1
       [] IsList(C1.st.fileName)    -> [C1 EXCEPT !.err = "PyException"]
       [] OTHER -> [C1 EXCEPT !.path = C1.st.fileName,
                              !.files = << MacroExtend(C1.st.fileName, C1.dict) >>]

\* One section: FvImageSection takes the next child FV address, a
\* GuidSection the list object itself (an alias: it sees later pops); a
\* GuidSection gets FvParentAddr; KeepReloc = False is passed down; then
\* GenSection yields its files and their alignment.
SectionStep(C, i) ==
  LET k    == STMT[C.s].sections[i]
      pop  == C.child # <<>> /\ k = "FvImage"
      sec  == [C.sec[i] EXCEPT
                 !.addr   = CASE C.child = <<>> -> @
                              [] k = "FvImage"  -> Head(C.child)
                              [] k = "Guid"     -> <<"alias", C.d>>
                              [] OTHER          -> @,
                 !.parent = IF C.d = "fv" /\ k = "Guid" THEN "FvBase" ELSE @,
                 !.reloc  = IF STMT[C.s].keepReloc = FALSE THEN FALSE ELSE @]
  IN [C EXCEPT !.child  = IF pop THEN Tail(@) ELSE @,
               !.sec[i] = sec,
               !.files  = @ \o [j \in 1..SEC_OUT[k] |-> <<C.s, i, j>>],
               !.aligns = @ \o [j \in 1..SEC_OUT[k] |-> SEC_ALIGN[k]]]

SectionsBranch(C) ==
  FoldLeft(SectionStep, [C EXCEPT !.aligns = <<>>],
           [i \in DOMAIN STMT[C.s].sections |-> i])

\* Which FILE form the statement has, in the code's order.
Body(C) ==
  CASE C.err # None                 -> C
    [] STMT[C.s].fvName # None      -> FvBranch(C)
    [] STMT[C.s].fdName # None      -> FdBranch(C)
    [] C.st.fileName # None         -> FileBranch(C)
    [] OTHER                        -> SectionsBranch(C)

\* The output directory FfsDir/NameGuid[+FvName], and Dict.update.
Prepare(C) ==
  IF C.err # None THEN C
  ELSE [C EXCEPT !.dirs = @ \cup {<<C.st.nameGuid, IF C.d = "fv" THEN FV_NAME ELSE None>>},
                 !.dict = Update(@, STMT[C.s].defines)]

\* GenerateFfs with the statement's (possibly rewritten) alignment; an
\* Alignment that became a list cannot be passed on.
Generate(C) ==
  CASE C.err # None          -> C
    [] IsList(C.st.alignment) -> [C EXCEPT !.err = "PyException"]
    [] OTHER -> [C EXCEPT !.rec = [guid |-> C.st.nameGuid, files |-> C.files,
                                   path |-> C.path, align |-> C.st.alignment,
                                   secAligns |-> C.aligns, caller |-> C.d]]

\* The state one call starts from.
Start(s, d) ==
  [s |-> s, d |-> d, st |-> st[s], dict |-> dicts[d], child |-> childAddr[d],
   sec |-> secAddr[s], dirs |-> dirs, raw |-> raw[s], err |-> None,
   files |-> <<>>, aligns |-> None, path |-> None, rec |-> None]

-----------------------------------------------------------------------------

Init ==
  /\ st = [s \in Stmts |-> [nameGuid  |-> STMT[s].nameGuid,
                             fileName  |-> STMT[s].fileName,
                             subAlign  |-> STMT[s].subAlign,
                             alignment |-> STMT[s].alignment]]
  /\ dicts = [d \in Callers |-> IF d = "fv" THEN FV_MACROS ELSE <<>>]
  /\ childAddr = [d \in Callers |-> IF d = "fv" THEN CHILD_ADDRS ELSE <<>>]
  /\ secAddr = [s \in Stmts |-> [i \in DOMAIN STMT[s].sections |->
                                   [addr |-> None, parent |-> None, reloc |-> None]]]
  /\ dirs = {}
  /\ raw = [s \in Stmts |-> None]
  /\ out = [s \in Stmts |-> <<>>]
  /\ err = None
  /\ errAt = None
  /\ calls = 0

\* The outcome of one whole call, applied.
Apply(s, d, C) ==
  /\ st' = [st EXCEPT ![s] = C.st]
  /\ dicts' = [dicts EXCEPT ![d] = C.dict]
  /\ childAddr' = [childAddr EXCEPT ![d] = C.child]
  /\ secAddr' = [secAddr EXCEPT ![s] = C.sec]
  /\ dirs' = C.dirs
  /\ raw' = [raw EXCEPT ![s] = C.raw]
  /\ out' = IF C.err = None THEN [out EXCEPT ![s] = Append(@, C.rec)] ELSE out
  /\ err' = C.err
  /\ errAt' = IF C.err # None THEN s ELSE errAt
  /\ calls' = calls + 1

\* GenFfs(self = s) called by caller d, the whole call.
GenFfs(s, d) ==
  /\ err = None
  /\ calls < MAX_CALLS
  /\ Apply(s, d, Generate(Body(Prepare(ResolveNameGuid(Start(s, d))))))

Next == \E s \in Stmts, d \in Callers : GenFfs(s, d)

Spec == Init /\ [][Next]_vars

-----------------------------------------------------------------------------
(* Properties.                                                             *)

\* Type of the state; a generated FFS is named by a registry GUID string,
\* never by the PCD(...) name or a byte array, and aligned by one value.
FfsTypeOK ==
  /\ err \in {None, "GENFDS_ERROR", "PyException"}
  /\ calls \in 0..MAX_CALLS
  /\ \A s \in Stmts : \A k \in 1..Len(out[s]) :
        /\ out[s][k].caller \in Callers
        /\ out[s][k].guid \notin DOMAIN PCD_VALUE \cup DOMAIN BYTE_GUID
        /\ out[s][k].align \in DOMAIN ALIGN \cup {None}

\* The alignments a RAW statement declares: its Alignment and its files'.
DeclaredAligns(s) ==
  LET sub == STMT[s].subAlign
      xs  == {STMT[s].alignment} \cup (IF IsList(sub) THEN Range(sub) ELSE {sub})
  IN {ALIGN[x] : x \in {y \in xs : Truthy(y)}}

IsRawFile(s) ==
  STMT[s].fileType = "RAW" /\ STMT[s].fvName = None /\ STMT[s].fdName = None
  /\ STMT[s].fileName # None

\* The FFS of a RAW statement is aligned to the largest alignment it or any
\* of its files declares, on every call: the packing loop's running
\* maximum, the SubAlignment written back and the Alignment merge together
\* pick it, and a later call, seeing the rewritten fields, picks it again.
FfsAlignmentCoversParts ==
  \A s \in Stmts : IsRawFile(s) /\ DeclaredAligns(s) # {} =>
     \A k \in 1..Len(out[s]) :
        out[s][k].align # None /\ ALIGN[out[s][k].align] = Max(DeclaredAligns(s))

\* A call that passes no Dict expands the file name against the statement's
\* own DEFINEs only (the caller gave no macros), not against those of the
\* statements generated by earlier such calls.
DefaultCallsScoped ==
  \A s \in Stmts : \A k \in 1..Len(out[s]) :
     out[s][k].caller = "default" /\ out[s][k].path # None =>
        out[s][k].files = << MacroExtend(out[s][k].path, STMT[s].defines) >>

\* Every file packed into a RAW FFS starts at a multiple of its own
\* alignment (FDF Align= of the file).
RawPartsAligned ==
  \A s \in Stmts : raw[s] # None =>
     \A i \in 1..Len(raw[s]) : raw[s][i].off % raw[s][i].align = 0

\* GenFfs reports every failure through EdkLogger.error (GENFDS_ERROR);
\* no Python exception escapes it, an empty RAW file included.
FfsErrorsAreBuildErrors == err \in {None, "GENFDS_ERROR"}

\* What GenFfs produces for a FILE statement is what the statement says:
\* its macros and its files' alignments; and it fails only as a build error.
FfsFileSound == DefaultCallsScoped /\ RawPartsAligned /\ FfsErrorsAreBuildErrors

=============================================================================
