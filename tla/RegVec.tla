------------------------------- MODULE RegVec -------------------------------
(* The registries behind script objects (observers, requests, streams): an  *)
(* id is a slot and the generation the slot had when it was given out, so   *)
(* that an object a script still holds does not reach what the slot holds   *)
(* now.  A registry is cleared between requests, its generations are not.   *)
EXTENDS Naturals, SequencesExt, FiniteSets

CONSTANTS Cap,     \* live entries a constructor allows
          Gens,    \* size of the generation counter: 2^28
          Allocs   \* entries made in one behaviour

RegAssumption == Cap \in Nat /\ Gens \in Nat \ {0, 1} /\ Allocs \in Nat

None == 0

VARIABLES slots,   \* which entry a slot holds, by number
          gens, free, live,
          made,    \* entries made so far; they are numbered
          ids      \* the id each of them was given
vars == <<slots, gens, free, live, made, ids>>

Init == slots = <<>> /\ gens = <<>> /\ free = <<>> /\ live = 0 /\ made = 0 /\ ids = <<>>

Bumped(g) == IF (g + 1) % Gens = 0 THEN 1 ELSE (g + 1) % Gens

Alloc ==
  LET grow == free = <<>>
      slot == IF grow THEN Len(slots) + 1 ELSE Last(free)
      gen == Bumped(IF grow THEN 0 ELSE gens[slot])
  IN /\ live < Cap /\ made < Allocs
     /\ made' = made + 1 /\ live' = live + 1
     /\ slots' = IF grow THEN Append(slots, made') ELSE [slots EXCEPT ![slot] = made']
     /\ gens' = IF grow THEN Append(gens, gen) ELSE [gens EXCEPT ![slot] = gen]
     /\ free' = IF grow THEN free ELSE Front(free)
     /\ ids' = Append(ids, [slot |-> slot, gen |-> gen])

Resolve(id) == IF /\ id.slot \in DOMAIN slots
                  /\ gens[id.slot] = id.gen
                  /\ slots[id.slot] # None
               THEN slots[id.slot] ELSE None

Drop(id) == /\ Resolve(id) # None
            /\ slots' = [slots EXCEPT ![id.slot] = None]
            /\ live' = live - 1
            /\ free' = Append(free, id.slot)
            /\ UNCHANGED <<gens, made, ids>>

\* Mutant: the generations start over with the slots.
ClearAll == /\ slots' = [i \in DOMAIN slots |-> None]
            /\ gens' = [i \in DOMAIN slots |-> 0]
            /\ free' = [i \in DOMAIN slots |-> i]
            /\ live' = 0
            /\ UNCHANGED <<made, ids>>

Clear == /\ slots' = [i \in DOMAIN slots |-> None]
         /\ free' = [i \in DOMAIN slots |-> i]
         /\ live' = 0
         /\ UNCHANGED <<gens, made, ids>>

Next == Alloc \/ Clear \/ \E k \in DOMAIN ids : Drop(ids[k])

Spec == Init /\ [][Next]_vars
----------------------------------------------------------------------------
(* An id reaches the entry it was made for or nothing, however often slots *)
(* were dropped, cleared and given out again, as long as no slot was given *)
(* out as often as the counter has values; slots and free list tile.       *)
IdsHold ==
  /\ \A k \in DOMAIN ids :
       \/ Resolve(ids[k]) \in {None, k}
       \/ \E s \in DOMAIN slots : Cardinality({j \in DOMAIN ids : ids[j].slot = s}) >= Gens
  /\ IsInjective(free) /\ ToSet(free) = {s \in DOMAIN slots : slots[s] = None}
  /\ live = Len(slots) - Len(free)
=============================================================================
