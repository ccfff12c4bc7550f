--------------------------- MODULE AttributeCache ---------------------------
(***************************************************************************)
(* What a resolved module facade promises its consumers (spec.md, sections *)
(* 3 and 6): every attribute moves from "unresolved" to "resolved" at most *)
(* once, and the value it resolves to is a function of the module's input  *)
(* alone -- never of which attributes were asked for before it.  Asking   *)
(* for an attribute whose input is invalid ends the resolution with a     *)
(* fatal error (section 7: there is no partial facade).                    *)
(*                                                                         *)
(* The detailed modules (InfHeader, ...) are shown to implement this       *)
(* specification through a refinement mapping.                             *)
(***************************************************************************)
CONSTANTS
    Attrs,          \* the attributes whose contract is checked
    Inputs,         \* the possible inputs (module files)
    NotCached,      \* marker of an attribute not resolved yet
    Promise(_, _),  \* Promise(in, a): the value a resolves to for input in
    FailsOn(_)      \* FailsOn(in): attributes whose first access is fatal

VARIABLES
    input,      \* the module being resolved; fixed for the whole behaviour
    resolved,   \* resolved[a]: the value of a, or NotCached
    failed      \* TRUE once resolution stopped with a fatal error

vars == <<input, resolved, failed>>

Init ==
    /\ input \in Inputs
    /\ resolved = [a \in Attrs |-> NotCached]
    /\ failed = FALSE

\* A consumer asks for an unresolved attribute whose input is valid.
Resolve(a) ==
    /\ ~failed
    /\ resolved[a] = NotCached
    /\ a \notin FailsOn(input)
    /\ resolved' = [resolved EXCEPT ![a] = Promise(input, a)]
    /\ UNCHANGED <<input, failed>>

\* A consumer asks for an attribute whose input is invalid: fatal.
Fail ==
    /\ ~failed
    /\ \E a \in FailsOn(input) \cap Attrs : resolved[a] = NotCached
    /\ failed' = TRUE
    /\ UNCHANGED <<input, resolved>>

Next == Fail \/ \E a \in Attrs : Resolve(a)

Spec == Init /\ [][Next]_vars

=============================================================================
