------------------------------ MODULE Admission ------------------------------
(***************************************************************************)
(* What a Budget promises: a set of charges is outstanding, each one worth *)
(* some units and some bytes, and a charge is granted only when both       *)
(* totals stay within their limits.  Granting and releasing are atomic     *)
(* here.  A request may always be refused: the promise is about what is    *)
(* granted.                                                                *)
(***************************************************************************)
EXTENDS Naturals, FiniteSets, Totals

CONSTANTS Callers,      \* every party that can hold a charge
          EntryLimit,   \* most units outstanding at once
          ByteLimit     \* most bytes outstanding at once

VARIABLES granted,      \* the callers that hold a charge
          units,        \* units[c]: what the charge of c is worth, in units
          size          \* size[c]: and in bytes

vars == <<granted, units, size>>

Init == /\ granted = {}
        /\ units \in [Callers -> Nat]
        /\ size \in [Callers -> Nat]

(* A caller without a charge decides what it will ask for next. *)
Ask(c) == /\ c \notin granted
          /\ units'[c] \in Nat /\ units' = [units EXCEPT ![c] = units'[c]]
          /\ size'[c] \in Nat /\ size' = [size EXCEPT ![c] = size'[c]]
          /\ UNCHANGED granted

Grant(c) == /\ c \notin granted
            /\ granted' = granted \cup {c}
            /\ Total(units, granted') <= EntryLimit
            /\ Total(size, granted') <= ByteLimit
            /\ UNCHANGED <<units, size>>

Release(c) == /\ c \in granted
              /\ granted' = granted \ {c}
              /\ UNCHANGED <<units, size>>

Next == \E c \in Callers : Ask(c) \/ Grant(c) \/ Release(c)

Spec == Init /\ [][Next]_vars
=============================================================================
