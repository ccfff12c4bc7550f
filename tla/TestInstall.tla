---------------------------- MODULE TestInstall ----------------------------
(***************************************************************************)
(* UPT/TestInstall.py, Main: unzip every distribution package given on the *)
(* command line, check their dependencies against the workspace database,  *)
(* and in a finally block close the open zip files and remove the unpack   *)
(* directory.                                                              *)
(*                                                                         *)
(* pc follows Main's control: "try" (the option test), "loop" (the for     *)
(* loop over DistFiles, then the dependency check), "except" (one of the   *)
(* two handlers), "finally" and "end".  UnZipDp (InstallPkg) and the       *)
(* dependency check are outside this tree: each call is a nondeterministic *)
(* choice among its outcomes (success, a FatalError, another exception).   *)
(* A handle is <<"dist", k>> or <<"content", k>>, the PackageFile and the  *)
(* content zip UnZipDp opened for the k-th file; <<"path", k>> is the k-th *)
(* command-line string the loop variable holds before UnZipDp returns.     *)
(***************************************************************************)
EXTENDS Naturals, Sequences

CONSTANTS
    MAX_FILES,       \* the most DistFiles a command line gives here
    UnzipErrors,     \* the exceptions UnZipDp may raise, as records
    OPTION_MISSING,  \* TE.OPTION_MISSING
    CODE_ERROR,      \* TE.CODE_ERROR
    None

VARIABLES
    nFiles,         \* Len(Options.DistFiles), fixed by the command line
    pc,
    i,              \* the index of the DistFiles entry the loop is at
    distFile,       \* DistFile
    contentZip,     \* ContentZipFile
    exc,            \* the exception being handled, or None
    returnCode,     \* ReturnCode
    result,         \* Result of the dependency check, or None
    unpackDir,      \* GlobalData.gUNPACK_DIR is set
    opened,         \* the handles opened so far
    closed,         \* the handles closed so far
    escaped         \* the exception Main raised to its caller, or None

vars == <<nFiles, pc, i, distFile, contentZip, exc, returnCode, result, unpackDir,
          opened, closed, escaped>>

\* DistFile still holds the command-line string, not a PackageFile.
IsPath(f) == f # None /\ f[1] = "path"

Init ==
  /\ nFiles \in 0..MAX_FILES
  /\ pc = "try"
  /\ i = 0
  /\ distFile = None /\ contentZip = None
  /\ exc = None /\ returnCode = 0 /\ result = None
  /\ unpackDir = FALSE
  /\ opened = {} /\ closed = {}
  /\ escaped = None

\* if not Options.DistFiles: Logger.Error(...) raises FatalError.
Try ==
  /\ pc = "try"
  /\ IF nFiles = 0
       THEN /\ exc' = [kind |-> "FatalError", code |-> OPTION_MISSING]
            /\ pc' = "except" /\ UNCHANGED i
       ELSE /\ pc' = "loop" /\ i' = 1 /\ UNCHANGED exc
  /\ UNCHANGED <<nFiles, distFile, contentZip, returnCode, result, unpackDir, opened, closed, escaped>>

\* Mutant: the loop index moves past the next entry.
UnZipOkSkip ==
  /\ pc = "loop" /\ i <= nFiles
  /\ distFile' = <<"dist", i>>
  /\ contentZip' = <<"content", i>>
  /\ opened' = opened \cup {<<"dist", i>>, <<"content", i>>}
  /\ closed' = closed \cup ({distFile, contentZip} \ {None})
  /\ unpackDir' = TRUE
  /\ i' = i + 2
  /\ UNCHANGED <<nFiles, pc, exc, returnCode, result, escaped>>

\* DistPkg, ContentZipFile, __, DistFile = UnZipDp(WorkspaceDir, DistFile):
\* the call returns the two zip files it opened and sets gUNPACK_DIR.  The
\* previous iteration's zips lose their last reference and CPython's
\* reference counting closes them (ZipFile.__del__).
UnZipOk ==
  /\ pc = "loop" /\ i <= nFiles
  /\ distFile' = <<"dist", i>>
  /\ contentZip' = <<"content", i>>
  /\ opened' = opened \cup {<<"dist", i>>, <<"content", i>>}
  /\ closed' = closed \cup ({distFile, contentZip} \ {None})
  /\ unpackDir' = TRUE
  /\ i' = i + 1
  /\ UNCHANGED <<nFiles, pc, exc, returnCode, result, escaped>>

\* UnZipDp raises: DistFile keeps the path string the for statement bound
\* (the previous PackageFile, dropped, is closed by reference counting),
\* ContentZipFile the previous file's zip.  Whether the call set
\* gUNPACK_DIR before raising is not known here, so both are possible.
UnZipFails ==
  /\ pc = "loop" /\ i <= nFiles
  /\ \E e \in UnzipErrors, u \in {unpackDir, TRUE} :
        /\ exc' = e
        /\ unpackDir' = u
  /\ distFile' = <<"path", i>>
  /\ closed' = closed \cup ({distFile} \ {None})
  /\ pc' = "except"
  /\ UNCHANGED <<nFiles, i, contentZip, returnCode, result, opened, escaped>>

\* Dep.CheckTestInstallPdDepexSatisfied: its answer, or an exception the
\* bare except turns into Result = False; either way only a message.
CheckDependency ==
  /\ pc = "loop" /\ i > nFiles
  /\ \E r \in BOOLEAN : result' = r
  /\ pc' = "finally"
  /\ UNCHANGED <<nFiles, i, distFile, contentZip, exc, returnCode, unpackDir, opened, closed, escaped>>

\* Mutant: the handlers log the error but leave ReturnCode at 0.
ExceptKeepsCode ==
  /\ pc = "except"
  /\ pc' = "finally"
  /\ UNCHANGED <<nFiles, i, distFile, contentZip, exc, returnCode, result, unpackDir, opened, closed, escaped>>

\* except TE.FatalError: ReturnCode = args[0]; except Exception: CODE_ERROR.
Except ==
  /\ pc = "except"
  /\ returnCode' = IF exc.kind = "FatalError" THEN exc.code ELSE CODE_ERROR
  /\ pc' = "finally"
  /\ UNCHANGED <<nFiles, i, distFile, contentZip, exc, result, unpackDir, opened, closed, escaped>>

\* finally, when DistFile holds a path: str has no Close, the AttributeError
\* leaves the finally block at once and replaces ReturnCode as the outcome.
FinallyRaises ==
  /\ pc = "finally"
  /\ IsPath(distFile)
  /\ escaped' = "AttributeError"
  /\ pc' = "end"
  /\ UNCHANGED <<nFiles, i, distFile, contentZip, exc, returnCode, result, unpackDir, opened, closed>>

\* finally: close DistFile and ContentZipFile if set, remove gUNPACK_DIR.
FinallyCleans ==
  /\ pc = "finally"
  /\ ~IsPath(distFile)
  /\ closed' = closed \cup ({distFile, contentZip} \ {None})
  /\ unpackDir' = FALSE
  /\ pc' = "end"
  /\ UNCHANGED <<nFiles, i, distFile, contentZip, exc, returnCode, result, opened, escaped>>

Next == Try \/ UnZipOk \/ UnZipFails \/ CheckDependency \/ Except
        \/ FinallyRaises \/ FinallyCleans

Spec == Init /\ [][Next]_vars

-----------------------------------------------------------------------------
(* Properties.                                                             *)

TypeOK ==
  /\ nFiles \in 0..MAX_FILES /\ i \in 0..nFiles + 1
  /\ pc \in {"try", "loop", "except", "finally", "end"}
  /\ closed \subseteq opened
  /\ escaped \in {None, "AttributeError"}

\* "If no error found, return zero value so the caller of this tool can know
\* if it's executed successfully" (the comment on Main): when Main returns,
\* its code is 0 exactly when every file unzipped and the check ran.
ReturnCodeReportsError ==
  pc = "end" /\ escaped = None => (returnCode = 0 <=> result # None)

\* Main's finally block removes the unpack directory (gUNPACK_DIR) and Main
\* hands ReturnCode to its caller ("return zero value so the caller of this
\* tool can know if it's executed successfully or not"): when Main has
\* ended, gUNPACK_DIR is cleared and no exception escaped, whatever UnZipDp
\* and the dependency check did.
MainCleansUp == pc = "end" => ~unpackDir /\ escaped = None

=============================================================================
