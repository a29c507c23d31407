----------------------------- MODULE MCExecPool -----------------------------
(* Three requests of both lanes, which hold one task each.                 *)
EXTENDS ExecPool, TLC

CONSTANTS r1, r2, r3

MCKind == r1 :> "Js" @@ r2 :> "Wasm" @@ r3 :> "Wasm"
MCBytes == r1 :> 2 @@ r2 :> 1 @@ r3 :> 1

Symmetry == Permutations(Workers) \cup Permutations({r2, r3})

\* bound: how many deadlines pass
MCSpec == Init /\ [][Next /\ Cardinality(expired') <= 1]_vars
=============================================================================
