--------------------------- MODULE PcdTokenValue ---------------------------
(***************************************************************************)
(* The check _GetPcd applies to the TokenValue a package declares for a    *)
(* PCD (InfBuildData.py 1026-1066), as an operator on the characters of    *)
(* the value, and the range spec.md 4.3 says it accepts: a 0x-prefixed hex *)
(* literal or a decimal literal whose value lies in [0, 4294967295].       *)
(*                                                                         *)
(* The width is a parameter: HEX_DIGITS is the {1,8} of the regex and      *)
(* TOKEN_MAX the 4294967295 of the decimal test, so the model can check    *)
(* the two tests against each other at a width TLC's integers can hold.    *)
(*                                                                         *)
(* A behaviour builds one candidate value a character at a time; every     *)
(* string over CHARS of length at most MAX_LEN is a reachable state.       *)
(***************************************************************************)
EXTENDS Integers, Sequences, SequencesExt, TLC

CONSTANTS
    HEX_DIGITS,     \* most significant hex digits the regex admits (8)
    TOKEN_MAX,      \* largest decimal token value admitted (4294967295)
    CHARS,          \* the characters candidate values are built from
    MAX_LEN,        \* longest candidate value
    None            \* Python None

VARIABLE tok        \* the candidate TokenValue, a sequence of characters

DEC_VAL == ("0" :> 0) @@ ("1" :> 1) @@ ("2" :> 2) @@ ("3" :> 3) @@ ("4" :> 4)
        @@ ("5" :> 5) @@ ("6" :> 6) @@ ("7" :> 7) @@ ("8" :> 8) @@ ("9" :> 9)

HEX_VAL == DEC_VAL @@ [c \in {"a", "b", "c", "d", "e", "f", "A", "B", "C", "D", "E", "F"} |->
              CASE c \in {"a", "A"} -> 10 [] c \in {"b", "B"} -> 11
                [] c \in {"c", "C"} -> 12 [] c \in {"d", "D"} -> 13
                [] c \in {"e", "E"} -> 14 [] c \in {"f", "F"} -> 15]

\* The value of a nonempty digit string in base b.
DigitsValue(ds, b, val) == FoldLeft(LAMBDA acc, c : acc * b + val[c], 0, ds)

AllIn(s, S) == \A i \in 1..Len(s) : s[i] \in S

-----------------------------------------------------------------------------
(* The code.                                                               *)

\* Pcd.TokenValue.startswith("0x") or .startswith("0X")
HasHexPrefix(t) == Len(t) >= 2 /\ t[1] = "0" /\ t[2] \in {"x", "X"}

\* Mutant: the regex without its [0]* (zero padding counted as digits).
HexTokenMatchesNoPadding(r) ==
  Len(r) \in 1..HEX_DIGITS /\ AllIn(r, DOMAIN HEX_VAL)

\* The regex ^[0][x|X][0]*[0-9a-fA-F]{1,8}$ on what follows the prefix:
\* some run of zeros, then 1 to HEX_DIGITS hex digits, then the end.
HexTokenMatches(r) ==
  \E k \in 0..Len(r) :
     /\ \A i \in 1..k : r[i] = "0"
     /\ Len(r) - k \in 1..HEX_DIGITS
     /\ AllIn(SubSeq(r, k + 1, Len(r)), DOMAIN HEX_VAL)

\* int(t, 10): an optional sign and at least one decimal digit, else the
\* ValueError the bare except turns into a format error (None here).
PyInt10(t) ==
  LET signed == Len(t) > 0 /\ t[1] \in {"+", "-"}
      ds     == IF signed THEN Tail(t) ELSE t
      mag    == DigitsValue(ds, 10, DEC_VAL)
  IN IF ds = <<>> \/ ~AllIn(ds, DOMAIN DEC_VAL) THEN None
     ELSE IF signed /\ t[1] = "-" THEN -mag ELSE mag

\* TokenValueInt < 0 or TokenValueInt > 4294967295 is an error
DecimalInRange(v) == v # None /\ v >= 0 /\ v <= TOKEN_MAX

\* The three checks of the found package entry's TokenValue, in code order:
\* not empty, then the hex regex or the decimal range.
TokenValueValid(t) ==
  /\ t # <<>>
  /\ IF HasHexPrefix(t) THEN HexTokenMatches(SubSeq(t, 3, Len(t)))
     ELSE DecimalInRange(PyInt10(t))

-----------------------------------------------------------------------------
(* The reference: what the value denotes, read as spec.md 4.3 states it.   *)

IsHexLiteral(t) ==
  /\ HasHexPrefix(t)
  /\ Len(t) > 2
  /\ AllIn(SubSeq(t, 3, Len(t)), DOMAIN HEX_VAL)
  /\ DigitsValue(SubSeq(t, 3, Len(t)), 16, HEX_VAL) <= TOKEN_MAX

IsDecimalLiteral(t) ==
  LET ds == IF Len(t) > 0 /\ t[1] \in {"+", "-"} THEN Tail(t) ELSE t
      v  == DigitsValue(ds, 10, DEC_VAL)
  IN /\ ds # <<>>
     /\ AllIn(ds, DOMAIN DEC_VAL)
     /\ v <= TOKEN_MAX
     /\ t[1] = "-" => v = 0

-----------------------------------------------------------------------------

Init == tok = <<>>

\* Extend the candidate by one character.
Extend == /\ Len(tok) < MAX_LEN
          /\ \E c \in CHARS : tok' = Append(tok, c)

Spec == Init /\ [][Extend]_tok

\* The regex on hex digits and the decimal range test accept exactly the
\* literals that denote a number in [0, TOKEN_MAX]: a zero-padded hex value
\* is not turned away for its length, and the two tests of _GetPcd agree on
\* where the range ends.
TokenCheckMatchesRange == TokenValueValid(tok) <=> (IsHexLiteral(tok) \/ IsDecimalLiteral(tok))

=============================================================================
