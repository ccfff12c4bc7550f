---------------------------- MODULE MCTestInstall ----------------------------
(* TestInstall with up to four command-line files and the two kinds of     *)
(* exception UnZipDp raises: a FatalError (FILE_NOT_FOUND = 7 here) and   *)
(* any other exception.                                                   *)
EXTENDS TestInstall

MCUnzipErrors == {[kind |-> "FatalError", code |-> 7], [kind |-> "Exception"]}

=============================================================================
