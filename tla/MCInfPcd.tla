------------------------------- MODULE MCInfPcd -------------------------------
(***************************************************************************)
(* Eight modules of one build and two packages, for TLC.                   *)
(*                                                                         *)
(* P1 declares PcdX as FixedAtBuild, PatchableInModule and Dynamic, and    *)
(* PcdY as DynamicEx; P2 declares PcdY as PatchableInModule and            *)
(* FeatureFlag, and the faulty PcdZ (no token value) and PcdW (a token     *)
(* value too wide for the regex).  A, B and C resolve successfully and     *)
(* share P1 and P2; D to H each reach one error path of _GetPcd or Guids.  *)
(* The platform either splits nothing, or splits PcdX into a FixedAtBuild  *)
(* and a Dynamic instance, or into a PatchableInModule and a Dynamic one.  *)
(***************************************************************************)
EXTENDS InfPcd

MCModules == {"A", "B", "C", "D", "E", "F", "G", "H"}

MCPkgs == {"P1", "P2"}

Decl(c, g, T, tv) ==
  <<c, g, T>> :> [TokenCName |-> c, TokenSpaceGuidCName |-> g, Type |-> T,
                  TokenValue |-> tv, DatumType |-> "UINT32", DefaultValue |-> "0"]

MCDecPcds ==
  "P1" :> (Decl("PcdX", "gTs", "FixedAtBuild", <<"1">>)
           @@ Decl("PcdX", "gTs", "PatchableInModule", <<"2">>)
           @@ Decl("PcdX", "gTs", "Dynamic", <<"0", "x", "1", "0">>)
           @@ Decl("PcdY", "gTs", "DynamicEx", <<"4">>))
  @@ "P2" :> (Decl("PcdY", "gTs", "PatchableInModule", <<"5">>)
              @@ Decl("PcdY", "gTs", "FeatureFlag", <<"6">>)
              @@ Decl("PcdZ", "gTs", "FixedAtBuild", <<>>)
              @@ Decl("PcdW", "gB", "DynamicEx", <<"0", "x", "1", "f", "f">>))

MCPkgGuids == "P1" :> {"gTs"} @@ "P2" :> {"gTs", "gB"}

MCModPkgs ==
  [m \in MCModules |-> CASE m = "A" -> <<"P1">>
                         [] m \in {"B", "G", "H"} -> <<"P1", "P2">>
                         [] m = "C" -> <<"P2", "P1">>
                         [] OTHER -> <<"P2">>]

Rec(c, g, dflt, off) == [guid |-> g, cname |-> c, dflt |-> dflt, off |-> off]

\* The records of one module, by section type; absent types are empty.
Sections(f) == [t \in {"FixedAtBuild", "PatchableInModule", "FeatureFlag",
                       "Dynamic", "DynamicEx"} |->
                  IF t \in DOMAIN f THEN f[t] ELSE <<>>]

MCPcdRecs ==
  [m \in MCModules |->
     CASE m = "A" -> Sections("FixedAtBuild" :> <<Rec("PcdX", "gTs", "", "")>>)
       [] m = "B" -> Sections(("PatchableInModule" :> <<Rec("PcdY", "gTs", "5", "0x10")>>)
                              @@ ("Dynamic" :> <<Rec("PcdX", "gTs", "", ""),
                                                 Rec("PcdY", "gTs", "", "")>>))
       [] m = "C" -> Sections(("Dynamic" :> <<Rec("PcdY", "gTs", "7", "")>>)
                              @@ ("FixedAtBuild" :> <<Rec("PcdX", "gTs", "", "")>>))
       [] m = "D" -> Sections("FixedAtBuild" :> <<Rec("PcdZ", "gTs", "", "")>>)
       [] m = "E" -> Sections("FeatureFlag" :> <<Rec("PcdY", "gTs", "bad", "")>>)
       [] m = "F" -> Sections("DynamicEx" :> <<Rec("PcdW", "gB", "", "")>>)
       [] m = "G" -> Sections("FixedAtBuild" :> <<Rec("PcdX", "gTs", "", "")>>)
       [] m = "H" -> Sections("FixedAtBuild" :> <<Rec("PcdX", "gNone", "", "")>>)]

MCGuidRecs ==
  [m \in MCModules |-> CASE m = "B" -> <<"gB">>
                         [] m = "G" -> <<"gNope">>
                         [] OTHER -> <<>>]

Item(c, T) == [name |-> c \o "_" \o T, guid |-> "gTs", sfx |-> T]

MCMixedVariants ==
  { <<>>,
    <<"PcdX", "gTs">> :> <<Item("PcdX", "FixedAtBuild"), Item("PcdX", "Dynamic")>>,
    <<"PcdX", "gTs">> :> <<Item("PcdX", "PatchableInModule"), Item("PcdX", "Dynamic")>> }

MCPcdTypeList == <<"FixedAtBuild", "PatchableInModule", "FeatureFlag", "Dynamic", "DynamicEx">>

\* ValueExpressionEx: "bad" is rejected, any other value evaluates to itself.
MCEval(v, dt) == IF v = "bad" THEN BadExpression ELSE v

=============================================================================
