------------------------------ MODULE MCFfsFile ------------------------------
(***************************************************************************)
(* Six FILE statements of one FDF, generated by calls with no Dict and by  *)
(* the AddToBuffer of FV FVMAIN, at most MAX_CALLS calls in all:           *)
(*   S1  RAW, two files (3 and 4 bytes) aligned 1 and 8, Alignment 4, and  *)
(*       DEFINE X;                                                         *)
(*   S2  a driver whose NameGuid is PCD(...) holding a byte-array GUID and *)
(*       whose path uses $(X); it defines Y only;                          *)
(*   S3  sections FvImage, Guid, FvImage, Raw with KeepReloc = FALSE;      *)
(*   S4  FV = FVMAIN (described);  S5  FD = FDX (not described);           *)
(*   S6  RAW with one empty file.                                          *)
(***************************************************************************)
EXTENDS FfsFile, TLC

CONSTANTS S1, S2, S3, S4, S5, S6,
          G1, G2, G3, G4, G5, G6, PcdG, ByteG,
          RawA, RawB, RawE, Bin2, Out1, Out6, A4, A8, A16

MCStmts == {S1, S2, S3, S4, S5, S6}

Blank == [nameGuid |-> None, fileName |-> None, subAlign |-> None,
          alignment |-> None, fileType |-> "FREEFORM", fvName |-> None,
          fdName |-> None, defines |-> <<>>, sections |-> <<>>,
          keepReloc |-> None]

MCSTMT ==
  (S1 :> [Blank EXCEPT !.nameGuid = G1, !.fileName = <<RawA, RawB>>,
                       !.subAlign = <<None, A8>>, !.alignment = A4,
                       !.fileType = "RAW", !.defines = "X" :> "x1"])
  @@ (S2 :> [Blank EXCEPT !.nameGuid = PcdG, !.fileName = Bin2,
                         !.fileType = "DRIVER", !.defines = "Y" :> "y2"])
  @@ (S3 :> [Blank EXCEPT !.nameGuid = G3,
                         !.sections = <<"FvImage", "Guid", "FvImage", "Raw">>,
                         !.keepReloc = FALSE])
  @@ (S4 :> [Blank EXCEPT !.nameGuid = G4, !.fvName = "FVMAIN"])
  @@ (S5 :> [Blank EXCEPT !.nameGuid = G5, !.fdName = "FDX"])
  @@ (S6 :> [Blank EXCEPT !.nameGuid = G6, !.fileName = <<RawE>>,
                         !.subAlign = <<A4>>, !.fileType = "RAW"])

MCPcdValue == PcdG :> ByteG
MCByteGuid == ByteG :> G2
MCFileLen  == (RawA :> 3) @@ (RawB :> 4) @@ (RawE :> 0)
MCAlign    == (A4 :> 4) @@ (A8 :> 8) @@ (A16 :> 16)
MCUses     == (RawA :> None) @@ (RawB :> None) @@ (RawE :> None)
              @@ (Bin2 :> "X") @@ (Out1 :> None) @@ (Out6 :> None)
MCRawPath  == (G1 :> Out1) @@ (G6 :> Out6)
MCSecOut   == ("FvImage" :> 1) @@ ("Guid" :> 2) @@ ("Raw" :> 1)
MCSecAlign == ("FvImage" :> A16) @@ ("Guid" :> None) @@ ("Raw" :> A4)
MCFvMacros == "X" :> "fvx"
MCChildAddrs == <<"0x1000", "0x2000">>
=============================================================================
