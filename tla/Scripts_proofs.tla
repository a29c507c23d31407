--------------------------- MODULE Scripts_proofs ---------------------------
(***************************************************************************)
(* What keeps a worker's scripts within bounds and apart, for any number   *)
(* of workers, scripts, objects and requests: the budget their payloads    *)
(* are charged to, the caches in front of the engine, the registries of    *)
(* the objects a script makes, what is cleared between two requests, what  *)
(* observers of the tree are told, shared formatters, and a canvas.        *)
(***************************************************************************)
EXTENDS Budget, MCWorkers, SequenceTheorems, FiniteSetTheorems, TLAPS

-----------------------------------------------------------------------------
(* The budget: its counters account for exactly the charges under way, the *)
(* charges granted stay within both limits, and the two compare-exchanges  *)
(* of reserve() implement one atomic grant.                                *)

(* The counters never pass the limits either, in-flight units included; a  *)
(* caller about to exchange the bytes has seen that its request fits.      *)
BudgetInv ==
  /\ TypeOK
  /\ IsFiniteSet(Atoms(units, CountedEntries))
  /\ IsFiniteSet(Atoms(size, CountedBytes))
  /\ Accounted
  /\ entries <= EntryLimit
  /\ bytes <= ByteLimit
  /\ \A c \in Callers : pc[c] = "casBytes" => seenBytes[c] + size[c] <= ByteLimit

LEMMA BudgetInit == Init => BudgetInv
<1> SUFFICES ASSUME Init PROVE BudgetInv
  OBVIOUS
<1>1. TypeOK
  BY DEF Init, TypeOK, Phases
<1>2. CountedEntries = {} /\ CountedBytes = {}
  BY DEF Init, CountedEntries, CountedBytes, InPhase
<1>3. QED
  BY <1>1, <1>2, TotalOfNone, BudgetAssumption DEF Init, BudgetInv, Accounted

(* Type correctness is inductive on its own, except that a subtraction     *)
(* needs the accounting to stay in the naturals.                           *)
LEMMA BudgetStep == BudgetInv /\ [Next]_vars => BudgetInv'
<1> SUFFICES ASSUME BudgetInv, [Next]_vars PROVE BudgetInv'
  OBVIOUS
<1> USE DEF BudgetInv, Accounted
<1>1. ASSUME NEW c \in Callers, Call(c) PROVE BudgetInv'
  <2>1. TypeOK'
    BY <1>1, BudgetAssumption DEF Call, Goto, TypeOK, Phases
  <2>2. CountedEntries' = CountedEntries /\ CountedBytes' = CountedBytes
    BY <1>1 DEF Call, Goto, TypeOK, CountedEntries, CountedBytes, InPhase
  <2>3. /\ \A d \in CountedEntries : units'[d] = units[d]
        /\ \A d \in CountedBytes : size'[d] = size[d]
    BY <1>1 DEF Call, Goto, TypeOK, CountedEntries, CountedBytes, InPhase
  <2>4. /\ Atoms(units, CountedEntries)' = Atoms(units, CountedEntries)
        /\ Atoms(size, CountedBytes)' = Atoms(size, CountedBytes)
    BY <2>2, <2>3 DEF Atoms
  <2>5. (\A d \in Callers : pc[d] = "casBytes" => seenBytes[d] + size[d] <= ByteLimit)'
    BY <1>1 DEF Call, Goto, TypeOK
  <2>6. QED
    BY <1>1, <2>1, <2>4, <2>5 DEF Call, Total
<1>2. ASSUME NEW c \in Callers,
             \/ LoadEntries(c) \/ LoadBytes(c) \/ Refuse(c)
             \/ CasEntriesFails(c) \/ CasBytesFails(c)
      PROVE  BudgetInv'
  <2>1. TypeOK'
    BY <1>2 DEF LoadEntries, LoadBytes, Refuse, CasEntriesFails, CasBytesFails, Goto, TypeOK, Phases
  <2>2. CountedEntries' = CountedEntries /\ CountedBytes' = CountedBytes
    BY <1>2 DEF LoadEntries, LoadBytes, Refuse, CasEntriesFails, CasBytesFails, Goto,
                TypeOK, CountedEntries, CountedBytes, InPhase
  <2>3. UNCHANGED <<entries, bytes, units, size>>
    BY <1>2 DEF LoadEntries, LoadBytes, Refuse, CasEntriesFails, CasBytesFails
  <2>4. (\A d \in Callers : pc[d] = "casBytes" => seenBytes[d] + size[d] <= ByteLimit)'
    BY <1>2 DEF LoadEntries, LoadBytes, Refuse, CasEntriesFails, CasBytesFails, Goto, TypeOK
  <2>5. QED
    BY <2>1, <2>2, <2>3, <2>4 DEF Atoms, Total
<1>3. ASSUME NEW c \in Callers, CasEntries(c) PROVE BudgetInv'
  <2>1. TypeOK'
    BY <1>3 DEF CasEntries, Goto, TypeOK, Phases
  <2>2. /\ CountedEntries' = CountedEntries \cup {c}
        /\ c \notin CountedEntries
        /\ CountedBytes' = CountedBytes
    BY <1>3 DEF CasEntries, Goto, TypeOK, CountedEntries, CountedBytes, InPhase
  <2>3. /\ entries' = entries + units[c]
        /\ UNCHANGED <<bytes, units, size>>
    BY <1>3 DEF CasEntries
  <2>4. /\ IsFiniteSet(Atoms(units, CountedEntries)')
        /\ entries' = Total(units, CountedEntries)'
    BY <2>2, <2>3, TotalGrows DEF TypeOK
  <2>5. entries' <= EntryLimit
    BY <1>3 DEF CasEntries, Fits
  <2>6. (\A d \in Callers : pc[d] = "casBytes" => seenBytes[d] + size[d] <= ByteLimit)'
    BY <1>3 DEF CasEntries, Goto, Fits, TypeOK
  <2>7. QED
    BY <2>1, <2>2, <2>3, <2>4, <2>5, <2>6 DEF Atoms, Total
<1>4. ASSUME NEW c \in Callers, CasBytes(c) PROVE BudgetInv'
  <2>1. TypeOK'
    BY <1>4 DEF CasBytes, Goto, TypeOK, Phases
  <2>2. /\ CountedBytes' = CountedBytes \cup {c}
        /\ c \notin CountedBytes
        /\ CountedEntries' = CountedEntries
    BY <1>4 DEF CasBytes, Goto, TypeOK, CountedEntries, CountedBytes, InPhase
  <2>3. /\ bytes' = bytes + size[c]
        /\ UNCHANGED <<entries, units, size>>
    BY <1>4 DEF CasBytes
  <2>4. /\ IsFiniteSet(Atoms(size, CountedBytes)')
        /\ bytes' = Total(size, CountedBytes)'
    BY <2>2, <2>3, TotalGrows DEF TypeOK
  <2>5. bytes' <= ByteLimit
    BY <1>4 DEF CasBytes, Goto
  <2>6. (\A d \in Callers : pc[d] = "casBytes" => seenBytes[d] + size[d] <= ByteLimit)'
    BY <1>4 DEF CasBytes, Goto, TypeOK
  <2>7. QED
    BY <2>1, <2>2, <2>3, <2>4, <2>5, <2>6 DEF Atoms, Total
<1>5. ASSUME NEW c \in Callers, Undo(c) \/ DropEntries(c) PROVE BudgetInv'
  <2>1. /\ CountedEntries' = CountedEntries \ {c}
        /\ c \in CountedEntries
        /\ CountedBytes' = CountedBytes
    BY <1>5 DEF Undo, DropEntries, Goto, TypeOK, CountedEntries, CountedBytes, InPhase
  <2>2. /\ entries' = entries - units[c]
        /\ UNCHANGED <<bytes, units, size, seenEntries, seenBytes>>
    BY <1>5 DEF Undo, DropEntries
  <2>3. /\ IsFiniteSet(Atoms(units, CountedEntries)')
        /\ entries' = Total(units, CountedEntries)'
        /\ entries >= units[c]
    BY <2>1, <2>2, TotalShrinks DEF TypeOK
  <2>4. entries' \in Nat /\ entries' <= EntryLimit
    BY <2>2, <2>3, BudgetAssumption DEF TypeOK
  <2>5. pc' \in [Callers -> Phases]
    BY <1>5 DEF Undo, DropEntries, Goto, TypeOK, Phases
  <2>6. (\A d \in Callers : pc[d] = "casBytes" => seenBytes[d] + size[d] <= ByteLimit)'
    BY <1>5 DEF Undo, DropEntries, Goto, TypeOK
  <2>7. QED
    BY <2>1, <2>2, <2>3, <2>4, <2>5, <2>6 DEF Atoms, Total, TypeOK
<1>6. ASSUME NEW c \in Callers, DropBytes(c) PROVE BudgetInv'
  <2>1. /\ CountedBytes' = CountedBytes \ {c}
        /\ c \in CountedBytes
        /\ CountedEntries' = CountedEntries
    BY <1>6 DEF DropBytes, Goto, TypeOK, CountedEntries, CountedBytes, InPhase
  <2>2. /\ bytes' = bytes - size[c]
        /\ UNCHANGED <<entries, units, size, seenEntries, seenBytes>>
    BY <1>6 DEF DropBytes
  <2>3. /\ IsFiniteSet(Atoms(size, CountedBytes)')
        /\ bytes' = Total(size, CountedBytes)'
        /\ bytes >= size[c]
    BY <2>1, <2>2, TotalShrinks DEF TypeOK
  <2>4. bytes' \in Nat /\ bytes' <= ByteLimit
    BY <2>2, <2>3, BudgetAssumption DEF TypeOK
  <2>5. pc' \in [Callers -> Phases]
    BY <1>6 DEF DropBytes, Goto, TypeOK, Phases
  <2>6. (\A d \in Callers : pc[d] = "casBytes" => seenBytes[d] + size[d] <= ByteLimit)'
    BY <1>6 DEF DropBytes, Goto, TypeOK
  <2>7. QED
    BY <2>1, <2>2, <2>3, <2>4, <2>5, <2>6 DEF Atoms, Total, TypeOK
<1>7. ASSUME UNCHANGED vars PROVE BudgetInv'
  BY <1>7 DEF vars, TypeOK, CountedEntries, CountedBytes, InPhase, Atoms, Total
<1>8. QED
  BY <1>1, <1>2, <1>3, <1>4, <1>5, <1>6, <1>7 DEF Next, Step

(* The inductive invariant holds in every reachable state.                 *)
THEOREM BudgetInvariant == Spec => []BudgetInv
BY BudgetInit, BudgetStep, PTL DEF Spec

LEMMA GrantedFits == BudgetInv => WithinLimits
<1> SUFFICES ASSUME BudgetInv PROVE WithinLimits
  OBVIOUS
<1>1. Granted \in SUBSET CountedEntries /\ Granted \in SUBSET CountedBytes
  BY DEF Granted, CountedEntries, CountedBytes, InPhase
<1>2. /\ Total(units, Granted) \in Nat
      /\ Total(units, Granted) <= Total(units, CountedEntries)
      /\ Total(size, Granted) \in Nat
      /\ Total(size, Granted) <= Total(size, CountedBytes)
  BY <1>1, TotalOfPart DEF BudgetInv
<1>3. QED
  BY <1>2, BudgetAssumption DEF BudgetInv, Accounted, WithinLimits, TypeOK

(* The counters account for exactly the charges under way, whatever undo,  *)
(* retry and drop interleave, no fetch_sub takes one below zero, and the   *)
(* charges granted never exceed the entry limit or the byte limit          *)
(* (cache.rs:168-216).                                                     *)
THEOREM BudgetKeepsCharges == Spec => []ChargesKept
<1>1. BudgetInv => ChargesKept
  BY GrantedFits DEF BudgetInv, ChargesKept
<1>2. QED
  BY <1>1, BudgetInvariant, PTL

-----------------------------------------------------------------------------
LEMMA AbstractTotal ==
  ASSUME NEW f, NEW S
  PROVE  Abstract!Total(f, S) = Total(f, S)
BY DEF Abstract!Total, Abstract!Atoms, Abstract!Cardinality, Total, Atoms, Cardinality

(* A step of the two-counter protocol is a request, a grant or a release   *)
(* of the atomic budget, or changes nothing it can see.                    *)
LEMMA AdmissionStep ==
  BudgetInv /\ BudgetInv' /\ [Next]_vars => [Abstract!Next]_(Abstract!vars)
<1> SUFFICES ASSUME BudgetInv, BudgetInv', [Next]_vars
             PROVE  Abstract!Next \/ UNCHANGED Abstract!vars
  OBVIOUS
<1> USE DEF Goto, Granted, InPhase
<1>1. ASSUME NEW c \in Callers, Call(c) PROVE Abstract!Ask(c)
  BY <1>1, BudgetAssumption DEF Call, BudgetInv, TypeOK, Abstract!Ask
<1>2. ASSUME NEW c \in Callers, CasBytes(c) PROVE Abstract!Grant(c)
  <2>1. Granted' = Granted \cup {c} /\ c \notin Granted
    BY <1>2 DEF CasBytes, BudgetInv, TypeOK
  <2>2. UNCHANGED <<units, size>>
    BY <1>2 DEF CasBytes
  <2>3. WithinLimits'
    BY GrantedFits, PTL
  <2>4. QED
    BY <2>1, <2>2, <2>3, AbstractTotal DEF WithinLimits, Abstract!Grant
<1>3. ASSUME NEW c \in Callers, DropEntries(c) PROVE Abstract!Release(c)
  BY <1>3 DEF DropEntries, BudgetInv, TypeOK, Abstract!Release
<1>4. ASSUME NEW c \in Callers, Step(c), ~CasBytes(c)
      PROVE  UNCHANGED Abstract!vars
  <2>1. UNCHANGED <<units, size>>
    BY <1>4 DEF Step, LoadEntries, LoadBytes, Refuse, CasEntries, CasEntriesFails,
                CasBytesFails, Undo, DropBytes
  <2>2. Granted' = Granted
    BY <1>4 DEF Step, LoadEntries, LoadBytes, Refuse, CasEntries, CasEntriesFails,
                CasBytesFails, Undo, DropBytes, BudgetInv, TypeOK
  <2>3. QED
    BY <2>1, <2>2 DEF Abstract!vars
<1>5. ASSUME UNCHANGED vars PROVE UNCHANGED Abstract!vars
  BY <1>5 DEF vars, Abstract!vars
<1>6. QED
  BY <1>1, <1>2, <1>3, <1>4, <1>5 DEF Next, Abstract!Next

(* reserve() and drop, each of them several atomic accesses, implement a   *)
(* budget that grants and releases atomically.                             *)
THEOREM BudgetImplementsAdmission == Spec => Admits
<1>1. Init => Abstract!Init
  BY DEF Init, Abstract!Init, Granted, InPhase
<1>2. QED
  BY <1>1, AdmissionStep, BudgetInvariant, PTL DEF Spec, Admits, Abstract!Spec

-----------------------------------------------------------------------------
(* The script cache: each budget counts the entries of its map.            *)

CacheLimits ==
  /\ {SharedCache.room, SharedCache.maxAge, SharedCache.sweepGap, SharedCache.fnCap} \subseteq Nat \ {0}
  /\ SharedCache.lastTick \in Nat /\ SharedCache.scripts # {}
  /\ IsFiniteSet(SharedCache.workers) /\ IsFiniteSet(SharedCache.scripts) /\ IsFiniteSet(SharedCache.forms)
  /\ \A s \in SharedCache.scripts : SharedForm(s) \in SharedCache.forms

Counted == /\ Shared!TypeOK
           /\ \A m \in Shared!Maps : cached[m] = Cardinality(Shared!Held(m)) + Cardinality(Shared!Coming(m))

LEMMA SharedCounts ==
  /\ Shared!CacheAssumption => CacheLimits
  /\ Counted => Shared!RoomKept
<1>1. \A S : Shared!IsFiniteSet(S) <=> IsFiniteSet(S)
  BY DEF Shared!IsFiniteSet, IsFiniteSet
<1>2. \A S : Shared!Cardinality(S) = Cardinality(S)
  BY DEF Shared!Cardinality, Cardinality
<1>3. QED
  BY <1>1, <1>2 DEF Shared!CacheAssumption, CacheLimits, Counted, Shared!RoomKept

(* TypeOK and the count are inductive once used is known to be a function. *)
CacheInv == /\ used = [m \in Shared!Maps |-> used[m]]
            /\ Counted

LEMMA CacheInit == CacheLimits => (Shared!Init => CacheInv)
<1> SUFFICES ASSUME CacheLimits, Shared!Init PROVE CacheInv
  OBVIOUS
<1> USE DEF Shared!Init
<1>1. used = [m \in Shared!Maps |-> used[m]]
  OBVIOUS
<1>2. script \in [SharedCache.workers -> SharedCache.scripts]
  BY DEF CacheLimits
<1>3. Shared!TypeOK
  BY <1>2 DEF Shared!TypeOK, CacheLimits, Shared!Maps, Shared!Places, Shared!Absent
<1>4. ASSUME NEW m \in Shared!Maps PROVE cached[m] = Cardinality(Shared!Held(m)) + Cardinality(Shared!Coming(m))
  <2>1. Shared!Held(m) = {} /\ Shared!Coming(m) = {}
    BY DEF Shared!Held, Shared!Coming, Shared!AtInsert, Shared!Absent
  <2>2. QED
    BY <2>1, FS_EmptySet
<1>5. QED
  BY <1>1, <1>3, <1>4 DEF CacheInv, Counted

(* Whatever is held or coming is a finite set. *)
LEMMA Finite ==
  ASSUME CacheLimits, NEW m \in Shared!Maps
  PROVE  /\ IsFiniteSet(Shared!Held(m)) /\ IsFiniteSet(Shared!Coming(m))
         /\ Cardinality(Shared!Held(m)) \in Nat /\ Cardinality(Shared!Coming(m)) \in Nat
<1>1. IsFiniteSet(Shared!Keys(m))
  BY DEF CacheLimits, Shared!Keys
<1>2. IsFiniteSet(Shared!Held(m)) /\ IsFiniteSet(Shared!Coming(m))
  BY <1>1, FS_Subset DEF CacheLimits, Shared!Held, Shared!Coming
<1>3. QED
  BY <1>2, FS_CardinalityType

(* The five ways in which a step moves the count of a map. *)
LEMMA CountMoves ==
  ASSUME CacheLimits, CacheInv, NEW m \in Shared!Maps,
         \/ cached'[m] = cached[m] /\ Shared!Held(m)' = Shared!Held(m) /\ Shared!Coming(m)' = Shared!Coming(m)
         \/ \E w : w \notin Shared!Coming(m) /\ cached'[m] = cached[m] + 1
                   /\ Shared!Held(m)' = Shared!Held(m) /\ Shared!Coming(m)' = Shared!Coming(m) \cup {w}
         \/ \E w : w \in Shared!Coming(m) /\ cached'[m] = cached[m] - 1
                   /\ Shared!Held(m)' = Shared!Held(m) /\ Shared!Coming(m)' = Shared!Coming(m) \ {w}
         \/ \E w, k : w \in Shared!Coming(m) /\ k \notin Shared!Held(m) /\ cached'[m] = cached[m]
                      /\ Shared!Held(m)' = Shared!Held(m) \cup {k} /\ Shared!Coming(m)' = Shared!Coming(m) \ {w}
         \/ \E k : k \in Shared!Held(m) /\ cached'[m] = cached[m] - 1
                   /\ Shared!Held(m)' = Shared!Held(m) \ {k} /\ Shared!Coming(m)' = Shared!Coming(m)
  PROVE  /\ cached'[m] = Cardinality(Shared!Held(m)') + Cardinality(Shared!Coming(m)')
         /\ cached[m] \in 0 .. SharedCache.room /\ cached'[m] \in Nat
<1> DEFINE h == Cardinality(Shared!Held(m))
           c == Cardinality(Shared!Coming(m))
<1>1. /\ cached[m] = h + c /\ h \in Nat /\ c \in Nat
      /\ IsFiniteSet(Shared!Held(m)) /\ IsFiniteSet(Shared!Coming(m))
      /\ cached[m] \in 0 .. SharedCache.room
  BY Finite DEF CacheInv, Counted, Shared!TypeOK
<1> HIDE DEF h, c
<1>2. CASE cached'[m] = cached[m] /\ Shared!Held(m)' = Shared!Held(m) /\ Shared!Coming(m)' = Shared!Coming(m)
  BY <1>1, <1>2 DEF h, c
<1>3. ASSUME NEW w, w \notin Shared!Coming(m), cached'[m] = cached[m] + 1,
             Shared!Held(m)' = Shared!Held(m), Shared!Coming(m)' = Shared!Coming(m) \cup {w}
      PROVE  cached'[m] = Cardinality(Shared!Held(m)') + Cardinality(Shared!Coming(m)') /\ cached'[m] \in Nat
  <2>1. Cardinality(Shared!Coming(m) \cup {w}) = Cardinality(Shared!Coming(m)) + 1
    BY <1>1, <1>3, FS_AddElement
  <2>2. Cardinality(Shared!Coming(m)') = c + 1 /\ Cardinality(Shared!Held(m)') = h
    BY <1>3, <2>1 DEF h, c
  <2>3. QED
    BY <1>1, <1>3, <2>2
<1>4. ASSUME NEW w, w \in Shared!Coming(m), cached'[m] = cached[m] - 1,
             Shared!Held(m)' = Shared!Held(m), Shared!Coming(m)' = Shared!Coming(m) \ {w}
      PROVE  cached'[m] = Cardinality(Shared!Held(m)') + Cardinality(Shared!Coming(m)') /\ cached'[m] \in Nat
  <2>1. Cardinality(Shared!Coming(m)') = c - 1 /\ Cardinality(Shared!Held(m)') = h
    BY <1>1, <1>4, FS_RemoveElement DEF h, c
  <2>2. c - 1 \in Nat
    <3>1. IsFiniteSet(Shared!Coming(m)')
      BY <1>1, <1>4, FS_RemoveElement
    <3>2. QED
      BY <2>1, <3>1, FS_CardinalityType
  <2>3. QED
    BY <1>1, <1>4, <2>1, <2>2
<1>5. ASSUME NEW w, NEW k, w \in Shared!Coming(m), k \notin Shared!Held(m), cached'[m] = cached[m],
             Shared!Held(m)' = Shared!Held(m) \cup {k}, Shared!Coming(m)' = Shared!Coming(m) \ {w}
      PROVE  cached'[m] = Cardinality(Shared!Held(m)') + Cardinality(Shared!Coming(m)') /\ cached'[m] \in Nat
  <2>1. Cardinality(Shared!Coming(m)') = c - 1
    BY <1>1, <1>5, FS_RemoveElement DEF c
  <2>2. Cardinality(Shared!Held(m)') = h + 1
    BY <1>1, <1>5, FS_AddElement DEF h
  <2>3. QED
    BY <1>1, <1>5, <2>1, <2>2
<1>6. ASSUME NEW k, k \in Shared!Held(m), cached'[m] = cached[m] - 1,
             Shared!Held(m)' = Shared!Held(m) \ {k}, Shared!Coming(m)' = Shared!Coming(m)
      PROVE  cached'[m] = Cardinality(Shared!Held(m)') + Cardinality(Shared!Coming(m)') /\ cached'[m] \in Nat
  <2>1. Cardinality(Shared!Held(m)') = h - 1 /\ Cardinality(Shared!Coming(m)') = c
    BY <1>1, <1>6, FS_RemoveElement DEF h, c
  <2>2. h - 1 \in Nat
    <3>1. IsFiniteSet(Shared!Held(m)')
      BY <1>1, <1>6, FS_RemoveElement
    <3>2. QED
      BY <2>1, <3>1, FS_CardinalityType
  <2>3. QED
    BY <1>1, <1>6, <2>1, <2>2
<1>7. QED
  BY <1>1, <1>2, <1>3, <1>4, <1>5, <1>6

(* What a change of one entry does to the map. *)
LEMMA Updated ==
  ASSUME CacheInv, NEW m \in Shared!Maps, NEW k \in Shared!Keys(m), NEW v \in {Shared!Absent} \cup 0 .. now,
         used' = [used EXCEPT ![m][k] = v]
  PROVE  /\ used' = [n \in Shared!Maps |-> used'[n]] /\ DOMAIN used' = Shared!Maps
         /\ \A n \in Shared!Maps : used'[n] \in [Shared!Keys(n) -> {Shared!Absent} \cup 0 .. now]
         /\ \A n \in Shared!Maps : n # m => Shared!Held(n)' = Shared!Held(n)
         /\ Shared!Held(m)' = IF v = Shared!Absent THEN Shared!Held(m) \ {k} ELSE Shared!Held(m) \cup {k}
<1>1. /\ used = [n \in Shared!Maps |-> used[n]]
      /\ \A n \in Shared!Maps : used[n] \in [Shared!Keys(n) -> {Shared!Absent} \cup 0 .. now]
  BY DEF CacheInv, Counted, Shared!TypeOK
<1>2. /\ used' = [n \in Shared!Maps |-> used'[n]] /\ DOMAIN used' = Shared!Maps
      /\ \A n \in Shared!Maps : n # m => used'[n] = used[n]
      /\ used'[m] = [used[m] EXCEPT ![k] = v]
  BY <1>1
<1>3. used'[m] \in [Shared!Keys(m) -> {Shared!Absent} \cup 0 .. now]
  BY <1>1, <1>2
<1>4. \A n \in Shared!Maps : used'[n] \in [Shared!Keys(n) -> {Shared!Absent} \cup 0 .. now]
  BY <1>1, <1>2, <1>3
<1>5. \A n \in Shared!Maps : n # m => Shared!Held(n)' = Shared!Held(n)
  BY <1>2 DEF Shared!Held
<1>6. \A j \in Shared!Keys(m) : used'[m][j] = IF j = k THEN v ELSE used[m][j]
  BY <1>1, <1>2
<1>7. Shared!Held(m)' = IF v = Shared!Absent THEN Shared!Held(m) \ {k} ELSE Shared!Held(m) \cup {k}
  BY <1>6 DEF Shared!Held
<1>8. QED
  BY <1>2, <1>4, <1>5, <1>7

(* What a worker's move does to those about to insert. *)
LEMMA Moved ==
  ASSUME CacheInv, NEW m \in Shared!Maps, NEW w \in SharedCache.workers, NEW to \in Shared!Places,
         at' = [at EXCEPT ![w] = to]
  PROVE  /\ Shared!Coming(m)' = IF to = Shared!AtInsert(m) THEN Shared!Coming(m) \cup {w} ELSE Shared!Coming(m) \ {w}
         /\ at' \in [SharedCache.workers -> Shared!Places]
<1>1. at \in [SharedCache.workers -> Shared!Places]
  BY DEF CacheInv, Counted, Shared!TypeOK
<1>2. \A v \in SharedCache.workers : at'[v] = IF v = w THEN to ELSE at[v]
  BY <1>1
<1>3. QED
  BY <1>1, <1>2 DEF Shared!Coming

(* The key a worker looks up is one of the map's, and touching what is     *)
(* there leaves it there.                                                  *)
LEMMA KeyTyped ==
  ASSUME CacheLimits, CacheInv, NEW m \in Shared!Maps, NEW w \in SharedCache.workers
  PROVE  /\ Shared!Key(w, m) \in Shared!Keys(m)
         /\ Shared!Has(w, m) <=> Shared!Key(w, m) \in Shared!Held(m)
<1>1. script[w] \in SharedCache.scripts
  BY DEF CacheInv, Counted, Shared!TypeOK
<1>2. Shared!Key(w, m) \in Shared!Keys(m)
  BY <1>1 DEF Shared!Key, Shared!Keys, Shared!Maps, CacheLimits
<1>3. QED
  BY <1>2 DEF Shared!Has, Shared!Held

LEMMA TouchKeeps ==
  ASSUME CacheLimits, CacheInv, NEW m \in Shared!Maps, NEW w \in SharedCache.workers, Shared!Touch(w, m)
  PROVE  /\ used' = [n \in Shared!Maps |-> used'[n]] /\ DOMAIN used' = Shared!Maps
         /\ \A n \in Shared!Maps : used'[n] \in [Shared!Keys(n) -> {Shared!Absent} \cup 0 .. now]
         /\ \A n \in Shared!Maps : Shared!Held(n)' = Shared!Held(n)
<1>1. CASE ~Shared!Has(w, m)
  BY <1>1 DEF Shared!Touch, Shared!Held, CacheInv, Counted, Shared!TypeOK
<1>2. CASE Shared!Has(w, m)
  <2>1. now \in Nat /\ now \in {Shared!Absent} \cup 0 .. now /\ now # Shared!Absent
    BY DEF CacheInv, Counted, Shared!TypeOK, Shared!Absent, CacheLimits
  <2>2. used' = [used EXCEPT ![m][Shared!Key(w, m)] = now]
    BY <1>2 DEF Shared!Touch
  <2>3. Shared!Key(w, m) \in Shared!Keys(m) /\ Shared!Key(w, m) \in Shared!Held(m)
    BY <1>2, KeyTyped
  <2>4. /\ used' = [n \in Shared!Maps |-> used'[n]] /\ DOMAIN used' = Shared!Maps
        /\ \A n \in Shared!Maps : used'[n] \in [Shared!Keys(n) -> {Shared!Absent} \cup 0 .. now]
        /\ \A n \in Shared!Maps : n # m => Shared!Held(n)' = Shared!Held(n)
        /\ Shared!Held(m)' = Shared!Held(m) \cup {Shared!Key(w, m)}
    BY <2>1, <2>2, <2>3, Updated
  <2>5. Shared!Held(m)' = Shared!Held(m)
    BY <2>3, <2>4
  <2>6. \A n \in Shared!Maps : Shared!Held(n)' = Shared!Held(n)
    BY <2>4, <2>5
  <2>7. QED
    BY <2>4, <2>6
<1>3. QED
  BY <1>1, <1>2

LEMMA CacheStep == CacheLimits => (CacheInv /\ [Shared!Next]_Shared!vars => CacheInv')
<1> SUFFICES ASSUME CacheLimits, CacheInv, [Shared!Next]_Shared!vars PROVE CacheInv'
  OBVIOUS
<1>0. /\ used = [m \in Shared!Maps |-> used[m]] /\ DOMAIN used = Shared!Maps
      /\ \A m \in Shared!Maps : used[m] \in [Shared!Keys(m) -> {Shared!Absent} \cup 0 .. now]
      /\ cached \in [Shared!Maps -> 0 .. SharedCache.room] /\ now \in 0 .. SharedCache.lastTick
      /\ at \in [SharedCache.workers -> Shared!Places] /\ script \in [SharedCache.workers -> SharedCache.scripts]
      /\ todo \in [SharedCache.workers -> SUBSET Shared!Entries]
      /\ SharedCache.room \in Nat /\ SharedCache.lastTick \in Nat /\ now \in Nat
  BY DEF CacheInv, Counted, Shared!TypeOK, CacheLimits
(* A step that leaves the maps and the budgets alone, and nobody about to  *)
(* insert.                                                                 *)
<1>a. ASSUME UNCHANGED Shared!norm, now' \in now .. SharedCache.lastTick,
             \A m \in Shared!Maps : Shared!Coming(m)' = Shared!Coming(m),
             at' \in [SharedCache.workers -> Shared!Places], script' \in [SharedCache.workers -> SharedCache.scripts],
             todo' \in [SharedCache.workers -> SUBSET Shared!Entries]
      PROVE  CacheInv'
  <2>1. \A m \in Shared!Maps : Shared!Held(m)' = Shared!Held(m)
    BY <1>a DEF Shared!Held, Shared!norm
  <2>2. \A m \in Shared!Maps : cached'[m] = Cardinality(Shared!Held(m)') + Cardinality(Shared!Coming(m)')
    BY <1>a, <2>1 DEF Shared!norm, CacheInv, Counted
  <2>3. \A m \in Shared!Maps : used'[m] \in [Shared!Keys(m) -> {Shared!Absent} \cup 0 .. now']
    BY <1>0, <1>a DEF Shared!norm
  <2>4. QED
    BY <1>0, <1>a, <2>2, <2>3 DEF Shared!norm, CacheInv, Counted, Shared!TypeOK
<1>b. ASSUME NEW w \in SharedCache.workers, NEW to \in Shared!Places,
         at' = [at EXCEPT ![w] = to],
             to \notin {"insert raw", "insert src"}, at[w] \notin {"insert raw", "insert src"}
      PROVE  \A m \in Shared!Maps : Shared!Coming(m)' = Shared!Coming(m)
  BY <1>b, Moved DEF Shared!Coming, Shared!AtInsert
(* What the other steps leave of the types. *)
<1>c. ASSUME UNCHANGED <<now, script>>, at' \in [SharedCache.workers -> Shared!Places],
             todo' \in [SharedCache.workers -> SUBSET Shared!Entries],
             used' = [m \in Shared!Maps |-> used'[m]], DOMAIN used' = Shared!Maps,
             \A m \in Shared!Maps : used'[m] \in [Shared!Keys(m) -> {Shared!Absent} \cup 0 .. now],
             cached' \in [Shared!Maps -> 0 .. SharedCache.room],
             \A m \in Shared!Maps : cached'[m] = Cardinality(Shared!Held(m)') + Cardinality(Shared!Coming(m)')
      PROVE  CacheInv'
  BY <1>0, <1>c DEF CacheInv, Counted, Shared!TypeOK
<1>1. ASSUME NEW w \in SharedCache.workers, Shared!Start(w) PROVE CacheInv'
  <2>1. PICK to \in {"sweep", "raw"} : at[w] = "idle" /\ at' = [at EXCEPT ![w] = to]
    BY <1>1 DEF Shared!Start, Shared!Goes
  <2>2. \A m \in Shared!Maps : Shared!Coming(m)' = Shared!Coming(m)
    BY <2>1, <1>b DEF Shared!Places
  <2>3. at' \in [SharedCache.workers -> Shared!Places] /\ script' \in [SharedCache.workers -> SharedCache.scripts]
    BY <1>0, <1>1, <2>1 DEF Shared!Start, Shared!Places
  <2>4. todo' \in [SharedCache.workers -> SUBSET Shared!Entries]
    BY <1>0, <1>1 DEF Shared!Start
  <2>5. UNCHANGED Shared!norm /\ now' = now
    BY <1>1 DEF Shared!Start
  <2>6. QED
    BY <1>0, <1>a, <2>2, <2>3, <2>4, <2>5
<1>2. ASSUME NEW w \in SharedCache.workers, Shared!Sweep(w) PROVE CacheInv'
  <2>1. PICK e \in todo[w] :
          /\ at[w] = "sweep"
          /\ todo' = [todo EXCEPT ![w] = @ \ {e}]
          /\ at' = IF todo[w] = {e} THEN [at EXCEPT ![w] = "raw"] ELSE at
          /\ IF used[e[1]][e[2]] # Shared!Absent /\ ~Shared!Fresh(w, e[1], e[2])
             THEN /\ used' = [used EXCEPT ![e[1]][e[2]] = Shared!Absent]
                  /\ cached' = [cached EXCEPT ![e[1]] = @ - 1]
             ELSE UNCHANGED Shared!norm
          /\ UNCHANGED <<now, script>>
    BY <1>2 DEF Shared!Sweep
  <2> DEFINE m == e[1]
             k == e[2]
  <2>2. m \in Shared!Maps /\ k \in Shared!Keys(m)
    <3>1. e \in Shared!Entries
      BY <1>0, <2>1
    <3>2. PICK n \in Shared!Maps : e \in {n} \X Shared!Keys(n)
      BY <3>1 DEF Shared!Entries
    <3>3. QED
      BY <3>2
  <2> HIDE DEF m, k
  <2>3. todo' \in [SharedCache.workers -> SUBSET Shared!Entries]
    BY <1>0, <2>1
  <2>4. /\ at' \in [SharedCache.workers -> Shared!Places]
        /\ \A n \in Shared!Maps : Shared!Coming(n)' = Shared!Coming(n)
    <3>1. CASE at' = at
      BY <1>0, <3>1 DEF Shared!Coming
    <3>2. CASE at' = [at EXCEPT ![w] = "raw"]
      BY <1>0, <1>b, <2>1, <3>2 DEF Shared!Places
    <3>3. QED
      BY <2>1, <3>1, <3>2
  <2>5. CASE UNCHANGED Shared!norm
    BY <1>0, <1>a, <2>1, <2>3, <2>4, <2>5
  <2>6. CASE /\ used[m][k] # Shared!Absent
             /\ used' = [used EXCEPT ![m][k] = Shared!Absent]
             /\ cached' = [cached EXCEPT ![m] = @ - 1]
    <3>1. /\ used' = [n \in Shared!Maps |-> used'[n]] /\ DOMAIN used' = Shared!Maps
          /\ \A n \in Shared!Maps : used'[n] \in [Shared!Keys(n) -> {Shared!Absent} \cup 0 .. now]
          /\ \A n \in Shared!Maps : n # m => Shared!Held(n)' = Shared!Held(n)
          /\ Shared!Held(m)' = Shared!Held(m) \ {k}
      BY <1>0, <2>2, <2>6, Updated
    <3>2. k \in Shared!Held(m)
      BY <2>2, <2>6 DEF Shared!Held
    <3>3. cached'[m] = cached[m] - 1 /\ \A n \in Shared!Maps : n # m => cached'[n] = cached[n]
      BY <1>0, <2>2, <2>6
    <3>4. \A n \in Shared!Maps : /\ cached'[n] = Cardinality(Shared!Held(n)') + Cardinality(Shared!Coming(n)')
                          /\ cached'[n] \in Nat
      BY <2>4, <3>1, <3>2, <3>3, CountMoves
    <3>5. cached' \in [Shared!Maps -> 0 .. SharedCache.room]
      <4>1. \A n \in Shared!Maps : cached'[n] \in 0 .. SharedCache.room
        BY <1>0, <3>3, <3>4
      <4>2. QED
        BY <1>0, <2>6, <4>1
    <3>6. QED
      BY <1>c, <2>1, <2>3, <2>4, <3>1, <3>4, <3>5
  <2>7. QED
    BY <2>1, <2>5, <2>6 DEF m, k
<1>3. ASSUME NEW w \in SharedCache.workers, Shared!LookRaw(w) PROVE CacheInv'
  <2>1. PICK to \in {"source", "reserve raw", "idle"} : at[w] = "raw" /\ at' = [at EXCEPT ![w] = to]
    BY <1>3 DEF Shared!LookRaw, Shared!Goes
  <2>2. at' \in [SharedCache.workers -> Shared!Places] /\ \A m \in Shared!Maps : Shared!Coming(m)' = Shared!Coming(m)
    BY <1>0, <1>b, <2>1 DEF Shared!Places
  <2>3. /\ used' = [n \in Shared!Maps |-> used'[n]] /\ DOMAIN used' = Shared!Maps
        /\ \A n \in Shared!Maps : used'[n] \in [Shared!Keys(n) -> {Shared!Absent} \cup 0 .. now]
        /\ \A n \in Shared!Maps : Shared!Held(n)' = Shared!Held(n)
    BY <1>3, TouchKeeps DEF Shared!LookRaw, Shared!Maps
  <2>4. UNCHANGED <<cached, now, script, todo>>
    BY <1>3 DEF Shared!LookRaw
  <2>5. \A n \in Shared!Maps : cached'[n] = Cardinality(Shared!Held(n)') + Cardinality(Shared!Coming(n)')
    BY <2>2, <2>3, <2>4 DEF CacheInv, Counted
  <2>6. QED
    BY <1>0, <1>c, <2>2, <2>3, <2>4, <2>5
<1>4. ASSUME NEW w \in SharedCache.workers, Shared!LookSrc(w) PROVE CacheInv'
  <2>1. PICK to \in {"call", "reserve src", "idle"} : at[w] = "source" /\ at' = [at EXCEPT ![w] = to]
    BY <1>4 DEF Shared!LookSrc, Shared!Goes
  <2>2. at' \in [SharedCache.workers -> Shared!Places] /\ \A m \in Shared!Maps : Shared!Coming(m)' = Shared!Coming(m)
    BY <1>0, <1>b, <2>1 DEF Shared!Places
  <2>3. /\ used' = [n \in Shared!Maps |-> used'[n]] /\ DOMAIN used' = Shared!Maps
        /\ \A n \in Shared!Maps : used'[n] \in [Shared!Keys(n) -> {Shared!Absent} \cup 0 .. now]
        /\ \A n \in Shared!Maps : Shared!Held(n)' = Shared!Held(n)
    BY <1>4, TouchKeeps DEF Shared!LookSrc, Shared!Maps
  <2>4. UNCHANGED <<cached, now, script, todo>>
    BY <1>4 DEF Shared!LookSrc
  <2>5. \A n \in Shared!Maps : cached'[n] = Cardinality(Shared!Held(n)') + Cardinality(Shared!Coming(n)')
    BY <2>2, <2>3, <2>4 DEF CacheInv, Counted
  <2>6. QED
    BY <1>0, <1>c, <2>2, <2>3, <2>4, <2>5
<1>5. ASSUME NEW w \in SharedCache.workers, NEW m \in Shared!Maps, Shared!Reserve(w, m) PROVE CacheInv'
  <2>1. UNCHANGED <<used, now, script, todo>>
    BY <1>5 DEF Shared!Reserve
  <2>2. Shared!AtInsert(m) \in Shared!Places /\ Shared!After(m) \in Shared!Places \ {"insert raw", "insert src"}
    BY DEF Shared!AtInsert, Shared!After, Shared!Places
  <2>3. at[w] = Shared!AtReserve(m) /\ at[w] \notin {"insert raw", "insert src"}
    BY <1>5 DEF Shared!Reserve, Shared!Goes, Shared!AtReserve
  <2>4. CASE at' = [at EXCEPT ![w] = Shared!After(m)] /\ UNCHANGED cached
    <3>1. at' \in [SharedCache.workers -> Shared!Places] /\ \A n \in Shared!Maps : Shared!Coming(n)' = Shared!Coming(n)
      BY <1>0, <1>b, <2>2, <2>3, <2>4
    <3>2. QED
      BY <1>0, <1>a, <2>1, <2>4, <3>1 DEF Shared!norm
  <2>5. CASE /\ cached[m] # SharedCache.room /\ at' = [at EXCEPT ![w] = Shared!AtInsert(m)]
             /\ cached' = [cached EXCEPT ![m] = @ + 1]
    <3>1. at' \in [SharedCache.workers -> Shared!Places] /\ Shared!Coming(m)' = Shared!Coming(m) \cup {w}
      BY <2>2, <2>5, Moved
    <3>2. \A n \in Shared!Maps : n # m => Shared!Coming(n)' = Shared!Coming(n)
      <4> SUFFICES ASSUME NEW n \in Shared!Maps, n # m PROVE Shared!Coming(n)' = Shared!Coming(n)
        OBVIOUS
      <4>1. Shared!AtInsert(n) # Shared!AtInsert(m)
        <5>1. (n = "raw" /\ m = "src") \/ (n = "src" /\ m = "raw")
          BY DEF Shared!Maps
        <5>2. Shared!AtInsert("raw") = "insert raw" /\ Shared!AtInsert("src") = "insert src"
          BY DEF Shared!AtInsert
        <5>3. QED
          BY <5>1, <5>2
      <4>2. w \notin Shared!Coming(n)
        BY <2>3 DEF Shared!AtInsert, Shared!Coming
      <4>3. Shared!Coming(n)' = Shared!Coming(n) \ {w}
        <5>1. Shared!AtInsert(m) \in Shared!Places /\ at' = [at EXCEPT ![w] = Shared!AtInsert(m)]
          BY <2>2, <2>5
        <5>2. \A k \in Shared!Maps : Shared!AtInsert(m) # Shared!AtInsert(k) => Shared!Coming(k)' = Shared!Coming(k) \ {w}
          BY <5>1, Moved
        <5>3. QED
          BY <4>1, <5>2
      <4>4. QED
        BY <4>2, <4>3
    <3>3. \A n \in Shared!Maps : Shared!Held(n)' = Shared!Held(n)
      BY <2>1 DEF Shared!Held
    <3>4. w \notin Shared!Coming(m)
      BY <2>3 DEF Shared!Coming, Shared!AtInsert
    <3>5. cached'[m] = cached[m] + 1 /\ \A n \in Shared!Maps : n # m => cached'[n] = cached[n]
      BY <1>0, <2>5
    <3>6. \A n \in Shared!Maps : /\ cached'[n] = Cardinality(Shared!Held(n)') + Cardinality(Shared!Coming(n)')
                          /\ cached'[n] \in Nat
      BY <3>1, <3>2, <3>3, <3>4, <3>5, CountMoves
    <3>7. cached' \in [Shared!Maps -> 0 .. SharedCache.room]
      <4> DEFINE e == cached[m]
      <4>1. e + 1 \in 0 .. SharedCache.room
        <5>1. e \in 0 .. SharedCache.room /\ e # SharedCache.room /\ SharedCache.room \in Nat
          BY <1>0, <2>5
        <5> HIDE DEF e
        <5>2. QED
          BY <5>1
      <4>2. QED
        BY <1>0, <2>5, <4>1
    <3>8. QED
      BY <1>0, <1>c, <2>1, <3>1, <3>6, <3>7
  <2>6. QED
    BY <1>5, <2>4, <2>5 DEF Shared!Reserve, Shared!Goes
<1>6. ASSUME NEW w \in SharedCache.workers, NEW m \in Shared!Maps, Shared!Insert(w, m) PROVE CacheInv'
  <2>1. /\ UNCHANGED <<now, script, todo>>
        /\ at[w] = Shared!AtInsert(m) /\ at' = [at EXCEPT ![w] = Shared!After(m)]
    BY <1>6 DEF Shared!Insert, Shared!Goes
  <2>2. Shared!After(m) \in Shared!Places \ {"insert raw", "insert src"}
    BY DEF Shared!After, Shared!Places
  <2>3. at' \in [SharedCache.workers -> Shared!Places] /\ \A n \in Shared!Maps : Shared!Coming(n)' = Shared!Coming(n) \ {w}
    BY <2>1, <2>2, Moved DEF Shared!AtInsert
  <2>4. w \in Shared!Coming(m) /\ \A n \in Shared!Maps : n # m => Shared!Coming(n)' = Shared!Coming(n)
    <3>1. \A n \in Shared!Maps : n # m => w \notin Shared!Coming(n)
      BY <2>1 DEF Shared!Coming, Shared!AtInsert, Shared!Maps
    <3>2. QED
      BY <2>1, <2>3, <3>1 DEF Shared!Coming
  <2>5. CASE Shared!Has(w, m)
    <3>1. cached' = [cached EXCEPT ![m] = @ - 1] /\ UNCHANGED used
      BY <1>6, <2>5 DEF Shared!Insert
    <3>2. \A n \in Shared!Maps : Shared!Held(n)' = Shared!Held(n)
      BY <3>1 DEF Shared!Held
    <3>3. cached'[m] = cached[m] - 1 /\ \A n \in Shared!Maps : n # m => cached'[n] = cached[n]
      BY <1>0, <3>1
    <3>4. \A n \in Shared!Maps : /\ cached'[n] = Cardinality(Shared!Held(n)') + Cardinality(Shared!Coming(n)')
                          /\ cached'[n] \in Nat
      BY <2>3, <2>4, <3>2, <3>3, CountMoves
    <3>5. cached' \in [Shared!Maps -> 0 .. SharedCache.room]
      <4>1. \A n \in Shared!Maps : cached'[n] \in 0 .. SharedCache.room
        BY <1>0, <3>3, <3>4
      <4>2. QED
        BY <1>0, <3>1, <4>1
    <3>6. QED
      BY <1>0, <1>c, <2>1, <2>3, <3>1, <3>4, <3>5
  <2>6. CASE ~Shared!Has(w, m)
    <3>1. UNCHANGED cached /\ used' = [used EXCEPT ![m][Shared!Key(w, m)] = now]
      BY <1>6, <2>6 DEF Shared!Insert
    <3>2. Shared!Key(w, m) \in Shared!Keys(m) /\ Shared!Key(w, m) \notin Shared!Held(m)
      BY <2>6, KeyTyped
    <3>3. now \in {Shared!Absent} \cup 0 .. now /\ now # Shared!Absent
      BY <1>0 DEF Shared!Absent
    <3>4. /\ used' = [n \in Shared!Maps |-> used'[n]] /\ DOMAIN used' = Shared!Maps
          /\ \A n \in Shared!Maps : used'[n] \in [Shared!Keys(n) -> {Shared!Absent} \cup 0 .. now]
          /\ \A n \in Shared!Maps : n # m => Shared!Held(n)' = Shared!Held(n)
          /\ Shared!Held(m)' = Shared!Held(m) \cup {Shared!Key(w, m)}
      BY <3>1, <3>2, <3>3, Updated
    <3>5. \A n \in Shared!Maps : cached'[n] = Cardinality(Shared!Held(n)') + Cardinality(Shared!Coming(n)')
      BY <2>3, <2>4, <3>1, <3>2, <3>4, CountMoves
    <3>6. QED
      BY <1>0, <1>c, <2>1, <2>3, <3>1, <3>4, <3>5
  <2>7. QED
    BY <2>5, <2>6
<1>7. ASSUME NEW w \in SharedCache.workers, Shared!Call(w) PROVE CacheInv'
  <2>1. /\ UNCHANGED <<Shared!norm, now, script, todo>>
        /\ at[w] = "call" /\ at' = [at EXCEPT ![w] = "idle"]
    BY <1>7 DEF Shared!Call, Shared!Goes
  <2>2. at' \in [SharedCache.workers -> Shared!Places] /\ \A m \in Shared!Maps : Shared!Coming(m)' = Shared!Coming(m)
    BY <1>0, <1>b, <2>1 DEF Shared!Places
  <2>3. QED
    BY <1>0, <1>a, <2>1, <2>2
<1>8. CASE UNCHANGED <<Shared!norm, at, script, todo>> /\ now' \in now .. SharedCache.lastTick
  <2>1. \A m \in Shared!Maps : Shared!Coming(m)' = Shared!Coming(m)
    BY <1>8 DEF Shared!Coming
  <2>2. QED
    BY <1>0, <1>a, <1>8, <2>1
<1>9. CASE Shared!Tick
  BY <1>0, <1>8, <1>9 DEF Shared!Tick
<1>10. ASSUME NEW w \in SharedCache.workers, Shared!Rebuild(w) PROVE CacheInv'
  BY <1>0, <1>8, <1>10 DEF Shared!Rebuild
<1>11. CASE UNCHANGED Shared!vars
  BY <1>0, <1>8, <1>11 DEF Shared!vars
<1>12. QED
  BY <1>1, <1>2, <1>3, <1>4, <1>5, <1>6, <1>7, <1>9, <1>10, <1>11 DEF Shared!Next

(* Each budget counts what is in its map and what is about to be inserted, *)
(* for any number of workers and scripts (put_raw, put_src and             *)
(* NormCache::sweep of cache.rs:61-133).                                   *)
THEOREM RoomIsKept == WorkerSpec => [](scene = "shared" => Shared!RoomKept)
<1>1. CacheLimits
  BY WorkersAssumption, SharedCounts DEF WorkersAssumption
<1>2. WorkerInit => (scene = "shared" => CacheInv)
  BY <1>1, CacheInit DEF WorkerInit
<1>3. (scene = "shared" => CacheInv) /\ [WorkerNext]_<<scene, workerVars>> => (scene = "shared" => CacheInv)'
  <2> SUFFICES ASSUME scene = "shared" => CacheInv, [WorkerNext]_<<scene, workerVars>>, scene' = "shared"
               PROVE  CacheInv'
    OBVIOUS
  <2>1. scene = "shared" /\ CacheInv /\ [Shared!Next]_Shared!vars
    BY DEF WorkerNext, workerVars, cacheVars, Shared!vars, Shared!norm, Shared!fns
  <2>2. QED
    BY <1>1, <2>1, CacheStep
<1>4. (scene = "shared" => CacheInv) => (scene = "shared" => Shared!RoomKept)
  BY SharedCounts DEF CacheInv
<1>5. QED
  BY <1>2, <1>3, <1>4, PTL DEF WorkerSpec

-----------------------------------------------------------------------------
(* The functions of a worker: two maps make do for an order of use.        *)

Distinct(r) == \A i, j \in 1 .. Len(r) : r[i] = r[j] => i = j
Firsts(r, n) == {r[i] : i \in 1 .. n}

(* What is compiled now is what was used last, in that order.              *)
FunctionLimits == FunctionCache.fnCap \in Nat \ {0} /\ \A s \in FunctionCache.scripts : FunctionForm(s) \in FunctionCache.forms
OrderHolds(r, new, old) ==
  /\ r \in Seq(FunctionCache.forms) /\ Len(r) <= FunctionCache.fnCap /\ Distinct(r)
  /\ IsFiniteSet(new) /\ IsFiniteSet(old) /\ new \cap old = {}
  /\ Cardinality(new) <= FunctionCache.fnCap /\ Cardinality(old) <= FunctionCache.fnCap
  /\ Cardinality(new) <= Len(r) /\ new = Firsts(r, Cardinality(new))
  /\ Firsts(r, Len(r)) \subseteq new \cup old
FunctionsInv ==
  /\ script \in [FunctionCache.workers -> FunctionCache.scripts]
  /\ DOMAIN cur = FunctionCache.workers /\ DOMAIN prev = FunctionCache.workers
  /\ DOMAIN recent = FunctionCache.workers
  /\ \A w \in FunctionCache.workers : OrderHolds(recent[w], cur[w], prev[w])

(* How a function comes to the front: from a place of its own or from      *)
(* outside, when the last one goes if there is no room.                    *)
ComesFrom(r, k, n, p, l) ==
  \/ p \in 1 .. Len(r) /\ r[p] = k /\ l = Len(r)
  \/ /\ p = Len(r) + 1 /\ \A i \in 1 .. Len(r) : r[i] # k
     /\ \/ l = Len(r) /\ Len(r) = n
        \/ l = Len(r) + 1 /\ Len(r) < n
Reordered(r, k, q, p, l) == q = [i \in 1 .. l |-> IF i = 1 THEN k ELSE IF i <= p THEN r[i - 1] ELSE r[i]]
Fronted(r, k, n, q, p, l) == ComesFrom(r, k, n, p, l) /\ Reordered(r, k, q, p, l)

LEMMA InFrontIs ==
  ASSUME NEW S, NEW r \in Seq(S), NEW k, Len(r) <= FunctionCache.fnCap, FunctionCache.fnCap \in Nat
  PROVE  \E p, l : Fronted(r, k, FunctionCache.fnCap, Functions!InFront(r, k), p, l)
<1>1. DOMAIN r = 1 .. Len(r) /\ Len(r) \in Nat
  BY LenProperties
<1> DEFINE known == \E i \in DOMAIN r : r[i] = k
           from == IF known THEN CHOOSE i \in DOMAIN r : r[i] = k ELSE Len(r) + 1
           end == IF known \/ Len(r) = FunctionCache.fnCap THEN Len(r) ELSE Len(r) + 1
<1>2. Functions!InFront(r, k) = [i \in 1 .. end |-> IF i = 1 THEN k ELSE IF i <= from THEN r[i - 1] ELSE r[i]]
  BY DEF Functions!InFront
<1>3. CASE known
  <2>1. from \in DOMAIN r /\ r[from] = k /\ end = Len(r)
    BY <1>3
  <2> HIDE DEF known, from, end
  <2>2. Fronted(r, k, FunctionCache.fnCap, Functions!InFront(r, k), from, end)
    <3>1. ComesFrom(r, k, FunctionCache.fnCap, from, end)
      BY <1>1, <2>1 DEF ComesFrom
    <3>2. QED
      BY <1>2, <3>1 DEF Fronted, Reordered
  <2>3. QED
    BY <2>2
<1>4. CASE ~known
  <2>1. /\ from = Len(r) + 1 /\ \A i \in 1 .. Len(r) : r[i] # k
        /\ end = IF Len(r) = FunctionCache.fnCap THEN Len(r) ELSE Len(r) + 1
    BY <1>1, <1>4
  <2> HIDE DEF known, from, end
  <2>2. Fronted(r, k, FunctionCache.fnCap, Functions!InFront(r, k), from, end)
    <3>1. CASE Len(r) = FunctionCache.fnCap
      BY <1>2, <2>1, <3>1 DEF ComesFrom, Fronted, Reordered
    <3>2. CASE Len(r) # FunctionCache.fnCap
      <4>1. end = Len(r) + 1 /\ Len(r) < FunctionCache.fnCap
        BY <1>1, <2>1, <3>2
      <4>2. QED
        BY <1>2, <2>1, <4>1 DEF ComesFrom, Fronted, Reordered
    <3>3. QED
      BY <3>1, <3>2
  <2>3. QED
    BY <2>2
<1>5. QED
  BY <1>3, <1>4

LEMMA FrontKeeps ==
  ASSUME NEW S, NEW r \in Seq(S), NEW k \in S, NEW n \in Nat \ {0}, Len(r) <= n, Distinct(r),
         NEW q, NEW p, NEW l, Fronted(r, k, n, q, p, l)
  PROVE  /\ q \in Seq(S) /\ Len(q) = l /\ l \in 1 .. n /\ Distinct(q) /\ q[1] = k
         /\ \A i \in 1 .. l : q[i] = IF i = 1 THEN k ELSE IF i <= p THEN r[i - 1] ELSE r[i]
         /\ \A i \in 2 .. l : i <= p => i - 1 \in 1 .. Len(r)
         /\ \A i \in 2 .. l : i > p => i \in 1 .. Len(r)
         /\ Firsts(q, l) \subseteq {k} \cup Firsts(r, Len(r))
<1>1. /\ DOMAIN r = 1 .. Len(r) /\ Len(r) \in Nat /\ \A i \in 1 .. Len(r) : r[i] \in S
      /\ p \in Nat /\ l \in 1 .. n /\ p >= 1 /\ p <= Len(r) + 1
  <2>1. DOMAIN r = 1 .. Len(r) /\ Len(r) \in Nat /\ \A i \in 1 .. Len(r) : r[i] \in S
    BY LenProperties, ElementOfSeq
  <2>2. \/ p \in 1 .. Len(r) /\ l = Len(r)
        \/ p = Len(r) + 1 /\ l = Len(r) /\ Len(r) = n
        \/ p = Len(r) + 1 /\ l = Len(r) + 1 /\ Len(r) < n
    BY DEF Fronted, ComesFrom
  <2>3. p \in Nat /\ l \in 1 .. n /\ p >= 1 /\ p <= Len(r) + 1
    <3> HIDE DEF Distinct, Fronted
    <3>1. Len(r) \in Nat
      BY <2>1
    <3>2. QED
      BY <2>2, <3>1
  <2>4. QED
    BY <2>1, <2>3
<1>2. /\ DOMAIN q = 1 .. l
      /\ \A i \in 1 .. l : q[i] = IF i = 1 THEN k ELSE IF i <= p THEN r[i - 1] ELSE r[i]
  BY DEF Fronted, Reordered
<1>3. /\ \A i \in 2 .. l : i <= p => i - 1 \in 1 .. Len(r)
      /\ \A i \in 2 .. l : i > p => i \in 1 .. Len(r)
      /\ \A i \in 1 .. Len(r) : r[i] = k => i = p
  <2>1. /\ (p \in 1 .. Len(r) /\ r[p] = k) \/ \A i \in 1 .. Len(r) : r[i] # k
        /\ \/ p <= Len(r) /\ l = Len(r)
           \/ p = Len(r) + 1 /\ (l = Len(r) \/ l = Len(r) + 1)
    BY DEF Fronted, ComesFrom
  <2>2. \A i \in 1 .. Len(r) : r[i] = k => i = p
    BY <2>1 DEF Distinct
  <2>3. Len(r) \in Nat /\ p \in Nat /\ p >= 1 /\ l \in Nat
    BY <1>1
  <2>4. \A i \in 2 .. l : (i <= p => i - 1 \in 1 .. Len(r)) /\ (i > p => i \in 1 .. Len(r))
    BY <2>1, <2>3
  <2>5. QED
    BY <2>2, <2>4
<1>4. \A i \in 1 .. l : q[i] \in S
  <2>1. ASSUME NEW i \in 1 .. l PROVE q[i] \in S
    <3>1. i = 1 \/ i \in 2 .. l
      BY <1>1
    <3>2. QED
      BY <1>1, <1>2, <1>3, <3>1
  <2>2. QED
    BY <2>1
<1>5. q \in Seq(S) /\ Len(q) = l
  <2>1. q \in [1 .. l -> S]
    BY <1>2, <1>4 DEF Fronted, Reordered
  <2>2. l \in Nat
    BY <1>1
  <2>3. q \in Seq(S)
    BY <2>1, <2>2, SeqDef
  <2>4. Len(q) \in Nat /\ DOMAIN q = 1 .. Len(q)
    BY <2>3, LenProperties
  <2>5. QED
    BY <1>2, <2>2, <2>3, <2>4
<1>6. Distinct(q)
  <2>1. ASSUME NEW i \in 1 .. l, NEW j \in 1 .. l, i < j PROVE q[i] # q[j]
    <3>1. j \in 2 .. l /\ q[j] = (IF j <= p THEN r[j - 1] ELSE r[j])
      BY <1>1, <1>2, <2>1
    <3>2. CASE i = 1
      <4>1. q[i] = k
        BY <1>2, <3>2
      <4>2. (IF j <= p THEN r[j - 1] ELSE r[j]) # k
        BY <1>1, <1>3, <3>1
      <4>3. QED
        BY <3>1, <4>1, <4>2
    <3>3. CASE i # 1
      <4>1. i \in 2 .. l /\ q[i] = (IF i <= p THEN r[i - 1] ELSE r[i])
        BY <1>1, <1>2, <3>3
      <4>2. QED
        BY <1>1, <1>3, <2>1, <3>1, <4>1 DEF Distinct
    <3>4. QED
      BY <3>2, <3>3
  <2>2. QED
    BY <1>1, <1>5, <2>1 DEF Distinct
<1>7. Firsts(q, l) \subseteq {k} \cup Firsts(r, Len(r))
  <2>1. ASSUME NEW i \in 1 .. l PROVE q[i] \in {k} \cup Firsts(r, Len(r))
    <3>1. i = 1 \/ i \in 2 .. l
      BY <1>1
    <3>2. QED
      BY <1>1, <1>2, <1>3, <3>1 DEF Firsts
  <2>2. QED
    BY <2>1 DEF Firsts
<1>8. q[1] = k
  BY <1>1, <1>2
<1>9. QED
  BY <1>1, <1>2, <1>3, <1>5, <1>6, <1>7, <1>8

(* What a use of k does to the two maps and the order. *)
UsesAs(w, k) ==
  /\ \/ k \in cur[w] /\ UNCHANGED <<cur, prev>>
     \/ k \notin cur[w] /\ Functions!Enter(w, k)
  /\ recent' = [recent EXCEPT ![w] = Functions!InFront(recent[w], k)]

LEMMA UseKeeps ==
  ASSUME FunctionLimits, FunctionsInv, NEW w \in FunctionCache.workers, NEW k \in FunctionCache.forms,
         UsesAs(w, k)
  PROVE  /\ DOMAIN cur' = FunctionCache.workers /\ DOMAIN prev' = FunctionCache.workers
         /\ DOMAIN recent' = FunctionCache.workers
         /\ \A v \in FunctionCache.workers : OrderHolds(recent'[v], cur'[v], prev'[v])
<1> DEFINE r == recent[w]
           n == FunctionCache.fnCap
           c == Cardinality(cur[w])
<1>1. /\ r \in Seq(FunctionCache.forms) /\ Len(r) <= n /\ Distinct(r) /\ n \in Nat \ {0}
      /\ IsFiniteSet(cur[w]) /\ IsFiniteSet(prev[w]) /\ cur[w] \cap prev[w] = {} /\ c <= n /\ c <= Len(r)
      /\ Cardinality(prev[w]) <= n /\ cur[w] = Firsts(r, c) /\ Firsts(r, Len(r)) \subseteq cur[w] \cup prev[w]
  BY DEF FunctionsInv, OrderHolds, FunctionLimits
<1>2. c \in Nat /\ Len(r) \in Nat
  BY <1>1, FS_CardinalityType, LenProperties
<1>3. PICK p, l : Fronted(r, k, n, Functions!InFront(r, k), p, l)
  BY <1>1, InFrontIs
<1> DEFINE q == Functions!InFront(r, k)
<1>4. /\ q \in Seq(FunctionCache.forms) /\ Len(q) = l /\ l \in 1 .. n /\ Distinct(q) /\ q[1] = k
      /\ \A i \in 1 .. l : q[i] = IF i = 1 THEN k ELSE IF i <= p THEN r[i - 1] ELSE r[i]
      /\ Firsts(q, l) \subseteq {k} \cup Firsts(r, Len(r))
  BY <1>1, <1>3, FrontKeeps
<1>5. \/ p \in 1 .. Len(r) /\ r[p] = k /\ l = Len(r)
      \/ p = Len(r) + 1 /\ (\A i \in 1 .. Len(r) : r[i] # k) /\ l = Len(r) /\ Len(r) = n
      \/ p = Len(r) + 1 /\ (\A i \in 1 .. Len(r) : r[i] # k) /\ l = Len(r) + 1 /\ Len(r) < n
  BY <1>3 DEF Fronted, ComesFrom
<1>6. /\ DOMAIN recent' = FunctionCache.workers /\ recent'[w] = q
      /\ \A v \in FunctionCache.workers : v # w => recent'[v] = recent[v]
  BY DEF UsesAs, FunctionsInv
<1>f. Functions!Full(w) <=> c >= n
  <2>1. \A S : Functions!Cardinality(S) = Cardinality(S)
    BY DEF Functions!Cardinality, Cardinality
  <2>2. QED
    BY <2>1 DEF Functions!Full
<1> HIDE DEF r, c, n, q
<1>7. /\ DOMAIN cur' = FunctionCache.workers /\ DOMAIN prev' = FunctionCache.workers
      /\ \A v \in FunctionCache.workers : v # w => cur'[v] = cur[v] /\ prev'[v] = prev[v]
  BY DEF UsesAs, FunctionsInv, Functions!Enter
<1>8. IsFiniteSet({k}) /\ Cardinality({k}) = 1
  BY FS_Singleton
<1>9. /\ IsFiniteSet(cur'[w]) /\ IsFiniteSet(prev'[w]) /\ cur'[w] \cap prev'[w] = {}
      /\ Cardinality(cur'[w]) <= n /\ Cardinality(prev'[w]) <= n
      /\ Cardinality(cur'[w]) <= l /\ cur'[w] = Firsts(q, Cardinality(cur'[w]))
      /\ Firsts(q, l) \subseteq cur'[w] \cup prev'[w]
  <2>1. CASE k \in cur[w]
    <3>1. cur' = cur /\ prev' = prev
      BY <2>1 DEF UsesAs
    <3>2. PICK i \in 1 .. c : r[i] = k
      BY <1>1, <2>1 DEF Firsts
    <3>3. i \in 1 .. Len(r) /\ p \in 1 .. Len(r) /\ r[p] = k /\ l = Len(r)
      BY <1>1, <1>2, <1>5, <3>2
    <3>4. p \in 1 .. c
      BY <1>1, <3>2, <3>3 DEF Distinct
    <3>5. Firsts(q, c) = Firsts(r, c)
      <4>1. ASSUME NEW j \in 1 .. c PROVE q[j] \in Firsts(r, c)
        <5>1. j \in 1 .. l
          BY <1>1, <1>2, <3>3
        <5>2. CASE j = 1
          BY <1>4, <3>2, <5>2 DEF Firsts
        <5>3. CASE j # 1 /\ j <= p
          <6>1. q[j] = r[j - 1] /\ j - 1 \in 1 .. c
            BY <1>2, <1>4, <5>1, <5>3
          <6>2. QED
            BY <6>1 DEF Firsts
        <5>4. CASE j > p
          <6>1. q[j] = r[j]
            BY <1>4, <3>4, <5>1, <5>4
          <6>2. QED
            BY <6>1 DEF Firsts
        <5>5. QED
          BY <3>4, <5>2, <5>3, <5>4
      <4>2. ASSUME NEW j \in 1 .. c PROVE r[j] \in Firsts(q, c)
        <5>1. CASE j = p
          BY <1>2, <1>4, <3>3, <3>4, <5>1 DEF Firsts
        <5>2. CASE j < p
          <6>1. j + 1 \in 1 .. c /\ j + 1 \in 1 .. l /\ j + 1 # 1 /\ j + 1 <= p /\ (j + 1) - 1 = j
            BY <1>1, <1>2, <3>3, <3>4, <5>2
          <6>2. q[j + 1] = r[j]
            BY <1>4, <6>1
          <6>3. QED
            BY <6>1, <6>2 DEF Firsts
        <5>3. CASE j > p
          <6>1. j \in 1 .. l /\ j # 1 /\ ~(j <= p)
            BY <1>1, <1>2, <3>3, <3>4, <5>3
          <6>2. q[j] = r[j]
            BY <1>4, <6>1
          <6>3. QED
            BY <6>2 DEF Firsts
        <5>4. QED
          BY <3>4, <5>1, <5>2, <5>3
      <4>3. QED
        BY <4>1, <4>2 DEF Firsts
    <3>6. Cardinality(cur'[w]) = c
      BY <3>1 DEF c
    <3>7. QED
      BY <1>1, <1>2, <1>4, <2>1, <3>1, <3>3, <3>5, <3>6
  <2>2. CASE k \notin cur[w] /\ c < n
    <3>1. cur'[w] = cur[w] \cup {k} /\ prev'[w] = prev[w] \ {k}
      <4>1. Functions!Enter(w, k) /\ ~Functions!Full(w)
        <5>1. ~(c >= n)
          BY <1>1, <1>2, <2>2
        <5>2. QED
          BY <1>f, <2>2, <5>1 DEF UsesAs
      <4>2. QED
        BY <4>1 DEF Functions!Enter, FunctionsInv
    <3>2. IsFiniteSet(cur'[w]) /\ Cardinality(cur'[w]) = c + 1
      <4>1. IsFiniteSet(cur[w]) /\ k \notin cur[w]
        BY <1>1, <2>2
      <4>2. IsFiniteSet(cur[w] \cup {k}) /\ Cardinality(cur[w] \cup {k}) = Cardinality(cur[w]) + 1
        BY <4>1, FS_AddElement
      <4>3. QED
        BY <3>1, <4>2 DEF c
    <3>3. IsFiniteSet(prev'[w]) /\ Cardinality(prev'[w]) <= Cardinality(prev[w])
      BY <1>1, <3>1, FS_Subset
    <3>4. Cardinality(prev'[w]) \in Nat /\ Cardinality(prev[w]) \in Nat
      BY <1>1, <3>3, FS_CardinalityType
    <3>5. \A i \in 1 .. c : r[i] # k
      BY <1>1, <2>2 DEF Firsts
    <3>6. p > c /\ c + 1 <= l /\ p \in Nat
      BY <1>1, <1>2, <1>5, <2>2, <3>5
    <3>7. Firsts(q, c + 1) = Firsts(r, c) \cup {k}
      <4>1. ASSUME NEW j \in 1 .. c + 1 PROVE q[j] \in Firsts(r, c) \cup {k}
        <5>1. CASE j = 1
          BY <1>4, <5>1
        <5>2. CASE j # 1
          <6>1. j \in 1 .. l /\ j <= p /\ j - 1 \in 1 .. c
            BY <1>2, <1>4, <3>6, <5>2
          <6>2. q[j] = r[j - 1]
            BY <1>4, <5>2, <6>1
          <6>3. QED
            BY <6>1, <6>2 DEF Firsts
        <5>3. QED
          BY <5>1, <5>2
      <4>2. ASSUME NEW j \in 1 .. c PROVE r[j] \in Firsts(q, c + 1)
        <5>1. j + 1 \in 1 .. c + 1 /\ j + 1 \in 1 .. l /\ j + 1 # 1 /\ j + 1 <= p /\ (j + 1) - 1 = j
          BY <1>2, <1>4, <3>6
        <5>2. q[j + 1] = r[j]
          BY <1>4, <5>1
        <5>3. QED
          BY <5>1, <5>2 DEF Firsts
      <4>3. k \in Firsts(q, c + 1)
        BY <1>2, <1>4 DEF Firsts
      <4>4. QED
        BY <4>1, <4>2, <4>3 DEF Firsts
    <3>8. c + 1 <= n
      BY <1>1, <1>2, <2>2
    <3>9. Cardinality(prev'[w]) <= n
      BY <1>1, <3>3, <3>4
    <3>10. QED
      BY <1>1, <1>4, <3>1, <3>2, <3>3, <3>6, <3>7, <3>8, <3>9
  <2>3. CASE k \notin cur[w] /\ ~(c < n)
    <3>1. c = n /\ Len(r) = n
      BY <1>1, <1>2, <2>3
    <3>2. cur'[w] = {k} /\ prev'[w] = cur[w]
      <4>1. Functions!Enter(w, k) /\ Functions!Full(w)
        <5>1. c >= n
          BY <1>1, <1>2, <2>3
        <5>2. QED
          BY <1>f, <2>3, <5>1 DEF UsesAs
      <4>2. QED
        BY <2>3, <4>1 DEF Functions!Enter, FunctionsInv
    <3>3. Firsts(r, Len(r)) = cur[w]
      BY <1>1, <3>1
    <3>4. Firsts(q, 1) = {k}
      BY <1>4 DEF Firsts
    <3>5. 1 <= n /\ 1 <= l
      BY <1>1, <1>4
    <3>6. Cardinality(prev'[w]) <= n /\ Cardinality(cur'[w]) = 1
      BY <1>1, <1>8, <3>1, <3>2 DEF c
    <3>7. /\ IsFiniteSet(cur'[w]) /\ IsFiniteSet(prev'[w]) /\ cur'[w] \cap prev'[w] = {}
          /\ cur'[w] = Firsts(q, Cardinality(cur'[w])) /\ Firsts(q, l) \subseteq cur'[w] \cup prev'[w]
      <4>1. {k} \cap cur[w] = {}
        BY <2>3
      <4>2. Firsts(q, Cardinality(cur'[w])) = {k}
        BY <3>4, <3>6
      <4>3. Firsts(q, l) \subseteq {k} \cup cur[w]
        BY <1>4, <3>3
      <4>4. IsFiniteSet({k}) /\ IsFiniteSet(cur[w])
        BY <1>1, <1>8
      <4>5. QED
        BY <3>2, <4>1, <4>2, <4>3, <4>4
    <3>8. QED
      BY <3>5, <3>6, <3>7
  <2>4. QED
    BY <2>1, <2>2, <2>3
<1>10. OrderHolds(recent'[w], cur'[w], prev'[w])
  BY <1>4, <1>6, <1>9 DEF OrderHolds, n
<1>11. ASSUME NEW v \in FunctionCache.workers, v # w PROVE OrderHolds(recent'[v], cur'[v], prev'[v])
  BY <1>6, <1>7, <1>11 DEF FunctionsInv
<1>12. QED
  BY <1>6, <1>7, <1>10, <1>11

LEMMA NothingUsed ==
  ASSUME FunctionLimits
  PROVE  OrderHolds(<<>>, {}, {})
<1>1. IsFiniteSet({}) /\ Cardinality({}) = 0
  BY FS_EmptySet
<1>2. <<>> \in Seq(FunctionCache.forms) /\ Len(<<>>) = 0
  BY EmptySeq
<1>3. Firsts(<<>>, 0) = {} /\ Distinct(<<>>)
  BY <1>2 DEF Firsts, Distinct
<1>4. QED
  BY <1>1, <1>2, <1>3 DEF OrderHolds, FunctionLimits

LEMMA FunctionsStart == FunctionLimits /\ FunctionCache.scripts # {} /\ Functions!Init => FunctionsInv
<1> SUFFICES ASSUME FunctionLimits, FunctionCache.scripts # {}, Functions!Init PROVE FunctionsInv
  OBVIOUS
<1>1. /\ script \in [FunctionCache.workers -> FunctionCache.scripts]
      /\ DOMAIN cur = FunctionCache.workers /\ DOMAIN prev = FunctionCache.workers
      /\ DOMAIN recent = FunctionCache.workers
      /\ \A w \in FunctionCache.workers : cur[w] = {} /\ prev[w] = {} /\ recent[w] = <<>>
  BY DEF Functions!Init
<1>2. QED
  BY <1>1, NothingUsed DEF FunctionsInv

LEMMA FunctionsStep == FunctionLimits /\ FunctionsInv /\ [Functions!Next]_Functions!vars => FunctionsInv'
<1> SUFFICES ASSUME FunctionLimits, FunctionsInv, [Functions!Next]_Functions!vars PROVE FunctionsInv'
  OBVIOUS
<1>1. CASE UNCHANGED <<Functions!fns, script>>
  BY <1>1 DEF FunctionsInv, Functions!fns
<1>2. ASSUME NEW w \in FunctionCache.workers, Functions!Start(w) PROVE FunctionsInv'
  <2>1. UNCHANGED <<cur, prev, recent>> /\ script' \in [FunctionCache.workers -> FunctionCache.scripts]
    BY <1>2 DEF FunctionsInv, Functions!Start, Functions!fns
  <2>2. QED
    BY <2>1 DEF FunctionsInv
<1>3. ASSUME NEW w \in FunctionCache.workers, Functions!Call(w) PROVE FunctionsInv'
  <2> DEFINE k == Functions!Key(w, "src")
  <2>1. k \in FunctionCache.forms
    BY DEF FunctionLimits, FunctionsInv, Functions!Key
  <2>2. UNCHANGED script /\ (UNCHANGED Functions!fns \/ UsesAs(w, k))
    BY <1>3 DEF Functions!Call, Functions!Used, UsesAs
  <2> HIDE DEF k
  <2>3. CASE UsesAs(w, k)
    BY <2>1, <2>2, <2>3, UseKeeps DEF FunctionsInv
  <2>4. QED
    BY <1>1, <2>2, <2>3
<1>4. ASSUME NEW w \in FunctionCache.workers, Functions!Rebuild(w) PROVE FunctionsInv'
  <2>1. /\ UNCHANGED script /\ DOMAIN cur' = FunctionCache.workers /\ DOMAIN prev' = FunctionCache.workers
        /\ DOMAIN recent' = FunctionCache.workers
        /\ cur'[w] = {} /\ prev'[w] = {} /\ recent'[w] = <<>>
        /\ \A v \in FunctionCache.workers : v # w => cur'[v] = cur[v] /\ prev'[v] = prev[v] /\ recent'[v] = recent[v]
    BY <1>4 DEF FunctionsInv, Functions!Rebuild
  <2>2. OrderHolds(recent'[w], cur'[w], prev'[w])
    BY <2>1, NothingUsed
  <2>3. ASSUME NEW v \in FunctionCache.workers, v # w PROVE OrderHolds(recent'[v], cur'[v], prev'[v])
    BY <2>1, <2>3 DEF FunctionsInv
  <2>4. QED
    BY <2>1, <2>2, <2>3 DEF FunctionsInv
<1>5. ASSUME NEW w \in FunctionCache.workers,
             \/ Functions!Sweep(w) \/ Functions!LookRaw(w) \/ Functions!LookSrc(w)
             \/ \E m \in Functions!Maps : Functions!Reserve(w, m) \/ Functions!Insert(w, m)
      PROVE  FunctionsInv'
  BY <1>1, <1>5 DEF Functions!Sweep, Functions!LookRaw, Functions!LookSrc, Functions!Reserve, Functions!Insert
<1>6. CASE Functions!Tick
  BY <1>1, <1>6 DEF Functions!Tick
<1>7. CASE UNCHANGED Functions!vars
  BY <1>1, <1>7 DEF Functions!vars
<1>8. QED
  BY <1>2, <1>3, <1>4, <1>5, <1>6, <1>7 DEF Functions!Next

(* Two maps of FnCap functions each make do for an order of use, whatever  *)
(* a worker runs: those it used last are never thrown away (FnCache::fetch *)
(* and insert, worker.rs:1345-1363).                                       *)
THEOREM LastUsedAreKept == WorkerSpec => [](scene = "functions" => Functions!KeepsRecent)
<1>1. FunctionLimits /\ FunctionCache.scripts # {}
  BY WorkersAssumption DEF WorkersAssumption, Functions!CacheAssumption, FunctionLimits
<1>2. WorkerInit => (scene = "functions" => FunctionsInv)
  BY <1>1, FunctionsStart DEF WorkerInit
<1>3. (scene = "functions" => FunctionsInv) /\ [WorkerNext]_<<scene, workerVars>>
        => (scene = "functions" => FunctionsInv)'
  <2> SUFFICES ASSUME scene = "functions" => FunctionsInv, [WorkerNext]_<<scene, workerVars>>, scene' = "functions"
               PROVE  FunctionsInv'
    OBVIOUS
  <2>1. scene = "functions" /\ FunctionsInv /\ [Functions!Next]_Functions!vars
    BY DEF WorkerNext, workerVars, cacheVars, Functions!vars, Functions!norm, Functions!fns
  <2>2. QED
    BY <1>1, <2>1, FunctionsStep
<1>4. FunctionsInv => Functions!KeepsRecent
  <2> SUFFICES ASSUME FunctionsInv, NEW w \in FunctionCache.workers
               PROVE  /\ Functions!ToSet(recent[w]) \subseteq cur[w] \cup prev[w]
                      /\ Functions!Cardinality(cur[w]) <= FunctionCache.fnCap
                      /\ Functions!Cardinality(prev[w]) <= FunctionCache.fnCap /\ cur[w] \cap prev[w] = {}
    BY DEF Functions!KeepsRecent
  <2>1. DOMAIN recent[w] = 1 .. Len(recent[w])
    BY LenProperties DEF FunctionsInv, OrderHolds
  <2>2. Functions!ToSet(recent[w]) = Firsts(recent[w], Len(recent[w]))
    BY <2>1 DEF Functions!ToSet, Firsts
  <2>3. \A S : Functions!Cardinality(S) = Cardinality(S)
    BY DEF Functions!Cardinality, Cardinality
  <2>4. QED
    BY <2>2, <2>3 DEF FunctionsInv, OrderHolds
<1>5. QED
  BY <1>2, <1>3, <1>4, PTL DEF WorkerSpec

-----------------------------------------------------------------------------
(* A registry, as one record: the three scenes that have one share its     *)
(* variables, and what its operations do to it is said of the record.      *)

IdRec == [slot : Nat, gen : Nat]
RegTyped(r) == /\ r.slots \in Seq(Nat) /\ r.gens \in Seq(Nat) /\ r.free \in Seq(Nat) /\ r.ids \in Seq(IdRec)
               /\ r.live \in Int /\ r.made \in Nat
RegNow == [slots |-> slots, gens |-> gens, free |-> free, live |-> live, made |-> made, ids |-> ids]

Found(r, id) == IF id.slot \in DOMAIN r.slots /\ r.gens[id.slot] = id.gen /\ r.slots[id.slot] # 0
                THEN r.slots[id.slot] ELSE 0
Entry(r, k) == Found(r, r.ids[k])
Given(r, s) == {j \in DOMAIN r.ids : r.ids[j].slot = s}
Unwrapped(r, g) == \A s \in DOMAIN r.slots : Cardinality(Given(r, s)) < g

(* Slots and free list tile, and every id was given for a slot there is.   *)
RegTidy(r) ==
  /\ RegTyped(r)
  /\ DOMAIN r.gens = DOMAIN r.slots
  /\ \A i \in DOMAIN r.free : r.free[i] \in DOMAIN r.slots
  /\ \A i, j \in DOMAIN r.free : r.free[i] = r.free[j] => i = j
  /\ \A s \in DOMAIN r.slots : r.slots[s] = 0 <=> \E i \in DOMAIN r.free : r.free[i] = s
  /\ r.live = Len(r.slots) - Len(r.free)
  /\ r.made = Len(r.ids)
  /\ \A j \in DOMAIN r.ids : r.ids[j].slot \in DOMAIN r.slots

(* Until a counter wraps, the generation of a slot is how often it was     *)
(* given, no id was given twice, and what a slot holds has its latest id.  *)
RegFresh(r) ==
  /\ \A s \in DOMAIN r.slots : r.gens[s] = Cardinality(Given(r, s))
  /\ \A j, k \in DOMAIN r.ids : r.ids[j] = r.ids[k] => j = k
  /\ \A j \in DOMAIN r.ids : r.ids[j].gen <= r.gens[r.ids[j].slot]
  /\ \A s \in DOMAIN r.slots : r.slots[s] # 0 =>
       r.slots[s] \in DOMAIN r.ids /\ r.ids[r.slots[s]] = [slot |-> s, gen |-> r.gens[s]]

RegInv(r, g) == RegTidy(r) /\ (Unwrapped(r, g) => RegFresh(r))

Next1(n, g) == IF (n + 1) % g = 0 THEN 1 ELSE (n + 1) % g
Grows(r, q, s, n, g) ==
  /\ r.free = <<>> /\ s = Len(r.slots) + 1 /\ n = Next1(0, g)
  /\ q.slots = Append(r.slots, r.made + 1) /\ q.gens = Append(r.gens, n) /\ q.free = r.free
Reuses(r, q, s, n, g) ==
  /\ r.free # <<>> /\ s = r.free[Len(r.free)] /\ n = Next1(r.gens[s], g)
  /\ q.slots = [r.slots EXCEPT ![s] = r.made + 1] /\ q.gens = [r.gens EXCEPT ![s] = n]
  /\ q.free = SubSeq(r.free, 1, Len(r.free) - 1)
Numbers(r, q, s, n) ==
  /\ q.made = r.made + 1 /\ q.live = r.live + 1
  /\ q.ids = Append(r.ids, [slot |-> s, gen |-> n])
Deals(r, q, g) ==
  \E s, n : Numbers(r, q, s, n) /\ (Grows(r, q, s, n, g) \/ Reuses(r, q, s, n, g))

DropsId(r, q, id) ==
  /\ Found(r, id) # 0
  /\ q.slots = [r.slots EXCEPT ![id.slot] = 0] /\ q.live = r.live - 1
  /\ q.free = Append(r.free, id.slot)
  /\ q.gens = r.gens /\ q.made = r.made /\ q.ids = r.ids

Empties(r, q) ==
  /\ q.slots = [i \in DOMAIN r.slots |-> 0] /\ q.free = [i \in DOMAIN r.slots |-> i] /\ q.live = 0
  /\ q.gens = r.gens /\ q.made = r.made /\ q.ids = r.ids

RegBasics(r) ==
  /\ r.slots \in Seq(Nat) /\ r.gens \in Seq(Nat) /\ r.free \in Seq(Nat) /\ r.ids \in Seq(IdRec)
  /\ r.live \in Int /\ r.made \in Nat
  /\ DOMAIN r.slots = 1 .. Len(r.slots) /\ DOMAIN r.gens = 1 .. Len(r.slots) /\ Len(r.gens) = Len(r.slots)
  /\ DOMAIN r.free = 1 .. Len(r.free) /\ DOMAIN r.ids = 1 .. r.made
  /\ Len(r.slots) \in Nat /\ Len(r.free) \in Nat /\ Len(r.ids) = r.made

LEMMA RegShape ==
  ASSUME NEW r, RegTidy(r)
  PROVE  RegBasics(r)
<1>1. /\ r.slots \in Seq(Nat) /\ r.gens \in Seq(Nat) /\ r.free \in Seq(Nat) /\ r.ids \in Seq(IdRec)
      /\ r.live \in Int /\ r.made \in Nat /\ DOMAIN r.gens = DOMAIN r.slots /\ Len(r.ids) = r.made
  BY DEF RegTidy, RegTyped
<1>2. QED
  BY <1>1 DEF RegBasics

LEMMA FirstNumbers ==
  ASSUME NEW n \in Nat
  PROVE  IsFiniteSet(1 .. n) /\ Cardinality(1 .. n) = n
<1>1. 1 \in Int /\ n \in Int /\ (IF 1 > n THEN 0 ELSE n - 1 + 1) = n
  OBVIOUS
<1>2. IsFiniteSet(1 .. n) /\ Cardinality(1 .. n) = IF 1 > n THEN 0 ELSE n - 1 + 1
  BY ONLY <1>1, FS_Interval, Zenon
<1>3. QED
  BY <1>1, <1>2

(* Of a slot, the ids given are a finite set; one more of its own.         *)
LEMMA GivenFinite ==
  ASSUME NEW r, RegTidy(r), NEW s
  PROVE  IsFiniteSet(Given(r, s)) /\ Cardinality(Given(r, s)) \in Nat /\ Cardinality(Given(r, s)) <= r.made
<1>1. r.made \in Nat /\ DOMAIN r.ids = 1 .. r.made
  BY RegShape DEF RegBasics
<1>2. IsFiniteSet(1 .. r.made) /\ Cardinality(1 .. r.made) = r.made
  BY <1>1, FirstNumbers
<1>3. Given(r, s) \in SUBSET (1 .. r.made)
  BY <1>1 DEF Given
<1>4. QED
  BY <1>2, <1>3, FS_Subset, FS_CardinalityType

Noted(r, q, s, n) ==
  /\ q.ids \in Seq(IdRec) /\ Len(q.ids) = r.made + 1 /\ DOMAIN q.ids = 1 .. r.made + 1
  /\ \A j \in DOMAIN r.ids : q.ids[j] = r.ids[j]
  /\ q.ids[r.made + 1] = [slot |-> s, gen |-> n]
  /\ Given(q, s) = Given(r, s) \cup {r.made + 1} /\ r.made + 1 \notin Given(r, s)
  /\ Cardinality(Given(q, s)) = Cardinality(Given(r, s)) + 1
  /\ \A t : t # s => Given(q, t) = Given(r, t)

LEMMA GivenMore ==
  ASSUME NEW r, RegTidy(r), NEW q, NEW s, NEW n, Numbers(r, q, s, n), s \in Nat, n \in Nat
  PROVE  Noted(r, q, s, n)
<1>1. RegBasics(r)
  BY RegShape
<1>2. [slot |-> s, gen |-> n] \in IdRec
  BY DEF IdRec
<1>3. /\ q.ids \in Seq(IdRec) /\ Len(q.ids) = r.made + 1
      /\ \A j \in 1 .. r.made : q.ids[j] = r.ids[j]
      /\ q.ids[r.made + 1] = [slot |-> s, gen |-> n]
  BY <1>1, <1>2, AppendProperties DEF RegBasics, Numbers
<1>4. DOMAIN q.ids = 1 .. r.made + 1 /\ DOMAIN r.ids = 1 .. r.made /\ r.made \in Nat
  BY <1>1, <1>3 DEF RegBasics
<1>5. \A t : Given(q, t) = IF t = s THEN Given(r, t) \cup {r.made + 1} ELSE Given(r, t)
  <2> TAKE t
  <2>1. ASSUME NEW j \in 1 .. r.made + 1
        PROVE  q.ids[j].slot = t <=> (IF j = r.made + 1 THEN s = t ELSE j \in 1 .. r.made /\ r.ids[j].slot = t)
    <3>1. j = r.made + 1 \/ (j \in 1 .. r.made /\ j # r.made + 1)
      <4>1. r.made \in Nat
        BY <1>4
      <4>2. QED
        BY <4>1, SMT
    <3>2. QED
      BY <1>3, <3>1
  <2>2. QED
    BY <1>4, <2>1 DEF Given
<1>6. r.made + 1 \notin Given(r, s)
  BY <1>4 DEF Given
<1>7. Cardinality(Given(r, s) \cup {r.made + 1}) = Cardinality(Given(r, s)) + 1
  BY <1>6, GivenFinite, FS_AddElement
<1>8. QED
  BY <1>3, <1>4, <1>5, <1>6, <1>7 DEF Noted

LEMMA NextOne ==
  ASSUME NEW g \in Nat, g > 1, NEW n \in Nat
  PROVE  Next1(n, g) \in Nat /\ (n + 1 < g => Next1(n, g) = n + 1)
<1>1. (n + 1) % g \in 0 .. g - 1 /\ (n + 1 < g => (n + 1) % g = n + 1)
  BY SMT
<1>2. QED
  BY <1>1 DEF Next1

Dealt(r, q, s, n, g) ==
  /\ s \in Nat /\ n \in Nat /\ n = Next1(IF s \in DOMAIN r.slots THEN r.gens[s] ELSE 0, g)
  /\ q.slots \in Seq(Nat) /\ q.gens \in Seq(Nat) /\ q.free \in Seq(Nat)
  /\ DOMAIN q.slots = DOMAIN r.slots \cup {s} /\ DOMAIN q.gens = DOMAIN q.slots
  /\ s \in DOMAIN r.slots => r.slots[s] = 0
  /\ \A t \in DOMAIN r.slots : t # s => q.slots[t] = r.slots[t] /\ q.gens[t] = r.gens[t]
  /\ q.slots[s] = r.made + 1 /\ q.gens[s] = n
  /\ Len(q.slots) - Len(q.free) = Len(r.slots) - Len(r.free) + 1
  /\ \A i \in DOMAIN q.free : i \in DOMAIN r.free /\ q.free[i] = r.free[i] /\ r.free[i] # s
  /\ \A i \in DOMAIN r.free : i \in DOMAIN q.free \/ r.free[i] = s

LEMMA DealShape ==
  ASSUME NEW g \in Nat, g > 1, NEW r, RegTidy(r), NEW q, NEW s, NEW n,
         Numbers(r, q, s, n), Grows(r, q, s, n, g) \/ Reuses(r, q, s, n, g)
  PROVE  Dealt(r, q, s, n, g)
<1>1. RegBasics(r)
  BY RegShape
<1>2. CASE Grows(r, q, s, n, g)
  <2>1. s = Len(r.slots) + 1 /\ s \in Nat /\ s \notin DOMAIN r.slots /\ r.made + 1 \in Nat
    BY <1>1, <1>2 DEF RegBasics, Grows
  <2>2. n = Next1(0, g) /\ n \in Nat
    BY <1>2, NextOne DEF Grows
  <2>3. /\ q.slots \in Seq(Nat) /\ Len(q.slots) = s /\ q.slots[s] = r.made + 1
        /\ \A t \in 1 .. Len(r.slots) : q.slots[t] = r.slots[t]
    BY <1>1, <1>2, <2>1, AppendProperties DEF RegBasics, Grows
  <2>4. /\ q.gens \in Seq(Nat) /\ Len(q.gens) = s /\ q.gens[s] = n
        /\ \A t \in 1 .. Len(r.slots) : q.gens[t] = r.gens[t]
    BY <1>1, <1>2, <2>1, <2>2, AppendProperties DEF RegBasics, Grows
  <2>5. DOMAIN q.slots = 1 .. s /\ DOMAIN q.gens = 1 .. s /\ DOMAIN r.slots = 1 .. Len(r.slots)
    BY <1>1, <2>3, <2>4 DEF RegBasics
  <2>6. q.free = r.free /\ Len(r.free) = 0 /\ DOMAIN r.free = {} /\ q.free \in Seq(Nat)
    BY <1>1, <1>2 DEF RegBasics, Grows
  <2>7. DOMAIN q.slots = DOMAIN r.slots \cup {s} /\ DOMAIN q.gens = DOMAIN q.slots
    BY <1>1, <2>1, <2>5 DEF RegBasics
  <2>8. Len(q.slots) - Len(q.free) = Len(r.slots) - Len(r.free) + 1
    BY <1>1, <2>1, <2>3, <2>6 DEF RegBasics
  <2>9. QED
    BY <2>1, <2>2, <2>3, <2>4, <2>5, <2>6, <2>7, <2>8 DEF Dealt
<1>3. CASE Reuses(r, q, s, n, g)
  <2> DEFINE z == Len(r.free)
  <2>1. z \in Nat /\ z # 0 /\ z \in DOMAIN r.free /\ s = r.free[z] /\ DOMAIN r.free = 1 .. z
    BY <1>1, <1>3, EmptySeq DEF RegBasics, Reuses
  <2>2. s \in DOMAIN r.slots /\ s \in Nat /\ r.slots[s] = 0 /\ r.gens[s] \in Nat /\ s \in DOMAIN r.gens
    <3>1. r.free[z] \in DOMAIN r.slots /\ r.slots[r.free[z]] = 0
      BY <2>1 DEF RegTidy
    <3>2. DOMAIN r.slots = 1 .. Len(r.slots) /\ Len(r.slots) \in Nat /\ DOMAIN r.gens = 1 .. Len(r.slots)
      BY <1>1 DEF RegBasics
    <3>3. r.gens \in Seq(Nat) /\ s \in 1 .. Len(r.gens)
      BY <1>1, <2>1, <3>1, <3>2 DEF RegBasics
    <3>4. s \in Nat /\ r.gens[s] \in Nat
      BY <3>2, <3>3, ElementOfSeq
    <3>5. QED
      BY <2>1, <3>1, <3>2, <3>4
  <2>3. n = Next1(r.gens[s], g) /\ n \in Nat
    BY <1>3, <2>2, NextOne DEF Reuses
  <2>4. /\ q.slots \in Seq(Nat) /\ Len(q.slots) = Len(r.slots) /\ DOMAIN q.slots = DOMAIN r.slots
        /\ q.slots[s] = r.made + 1 /\ \A t \in DOMAIN r.slots : t # s => q.slots[t] = r.slots[t]
    <3>1. r.slots \in Seq(Nat) /\ s \in 1 .. Len(r.slots) /\ r.made + 1 \in Nat /\ DOMAIN r.slots = 1 .. Len(r.slots)
      BY <1>1, <2>2 DEF RegBasics
    <3>2. q.slots = [r.slots EXCEPT ![s] = r.made + 1]
      BY <1>3 DEF Reuses
    <3>3. QED
      BY <3>1, <3>2, ExceptSeq
  <2>5. /\ q.gens \in Seq(Nat) /\ DOMAIN q.gens = DOMAIN r.gens
        /\ q.gens[s] = n /\ \A t \in DOMAIN r.gens : t # s => q.gens[t] = r.gens[t]
    <3>1. r.gens \in Seq(Nat) /\ s \in 1 .. Len(r.gens) /\ DOMAIN r.gens = 1 .. Len(r.gens)
      BY <1>1, <2>2 DEF RegBasics
    <3>2. q.gens = [r.gens EXCEPT ![s] = n]
      BY <1>3 DEF Reuses
    <3>3. QED
      BY <2>3, <3>1, <3>2, ExceptSeq
  <2>6. /\ q.free \in Seq(Nat) /\ Len(q.free) = z - 1 /\ DOMAIN q.free = 1 .. z - 1
        /\ \A i \in 1 .. z - 1 : q.free[i] = r.free[i]
    <3>1. q.free = SubSeq(r.free, 1, z - 1) /\ r.free \in Seq(Nat) /\ z = Len(r.free)
      BY <1>1, <1>3 DEF RegBasics, Reuses
    <3>2. \A i \in 1 .. z - 1 : r.free[i] \in Nat
      BY <2>1, <3>1, ElementOfSeq
    <3>3. 1 \in Int /\ z - 1 \in Int
      BY <2>1
    <3>4. /\ SubSeq(r.free, 1, z - 1) \in Seq(Nat)
          /\ Len(SubSeq(r.free, 1, z - 1)) = IF 1 <= z - 1 THEN z - 1 - 1 + 1 ELSE 0
          /\ \A i \in 1 .. z - 1 - 1 + 1 : SubSeq(r.free, 1, z - 1)[i] = r.free[1 + i - 1]
      BY <3>2, <3>3, SubSeqProperties
    <3>5. Len(q.free) = z - 1 /\ q.free \in Seq(Nat)
      BY <2>1, <3>1, <3>4
    <3>6. DOMAIN q.free = 1 .. z - 1
      BY <3>5
    <3>7. ASSUME NEW i \in 1 .. z - 1 PROVE q.free[i] = r.free[i]
      <4>1. i \in 1 .. z - 1 - 1 + 1 /\ 1 + i - 1 = i
        BY <2>1
      <4>2. QED
        BY <3>1, <3>4, <4>1
    <3>8. QED
      BY <3>5, <3>6, <3>7
  <2>7. \A i \in DOMAIN r.free : r.free[i] = s => i = z
    BY <2>1 DEF RegTidy
  <2>8. \A i \in 1 .. z : i \in 1 .. z - 1 \/ i = z
    BY <2>1
  <2>9. \A i \in 1 .. z - 1 : i \in 1 .. z /\ i # z
    BY <2>1
  <2>10. Len(q.slots) - Len(q.free) = Len(r.slots) - Len(r.free) + 1
    BY <1>1, <2>1, <2>4, <2>6 DEF RegBasics
  <2>11. DOMAIN q.slots = DOMAIN r.slots \cup {s} /\ DOMAIN q.gens = DOMAIN q.slots /\ DOMAIN r.gens = DOMAIN r.slots
    BY <2>2, <2>4, <2>5 DEF RegTidy
  <2> HIDE DEF z
  <2>12. /\ \A i \in DOMAIN q.free : i \in DOMAIN r.free /\ q.free[i] = r.free[i] /\ r.free[i] # s
         /\ \A i \in DOMAIN r.free : i \in DOMAIN q.free \/ r.free[i] = s
    BY <2>1, <2>6, <2>7, <2>8, <2>9
  <2>13. QED
    BY <2>2, <2>3, <2>4, <2>5, <2>6, <2>10, <2>11, <2>12 DEF Dealt
<1>4. QED
  BY <1>2, <1>3

(* An entry that is made keeps the registry in shape.                      *)
LEMMA DealTidy ==
  ASSUME NEW g \in Nat, g > 1, NEW r, RegTidy(r), NEW q, NEW s, NEW n,
         Numbers(r, q, s, n), Grows(r, q, s, n, g) \/ Reuses(r, q, s, n, g)
  PROVE  RegTidy(q)
<1>1. RegBasics(r)
  BY RegShape
<1>2. /\ s \in Nat /\ n \in Nat
      /\ q.slots \in Seq(Nat) /\ q.gens \in Seq(Nat) /\ q.free \in Seq(Nat)
      /\ DOMAIN q.slots = DOMAIN r.slots \cup {s} /\ DOMAIN q.gens = DOMAIN q.slots
      /\ \A t \in DOMAIN r.slots : t # s => q.slots[t] = r.slots[t]
      /\ q.slots[s] = r.made + 1
      /\ Len(q.slots) - Len(q.free) = Len(r.slots) - Len(r.free) + 1
      /\ \A i \in DOMAIN q.free : i \in DOMAIN r.free /\ q.free[i] = r.free[i] /\ r.free[i] # s
      /\ \A i \in DOMAIN r.free : i \in DOMAIN q.free \/ r.free[i] = s
  <2>1. Dealt(r, q, s, n, g)
    BY DealShape
  <2>2. QED
    BY <2>1 DEF Dealt
<1>3. /\ q.ids \in Seq(IdRec) /\ Len(q.ids) = r.made + 1 /\ DOMAIN q.ids = 1 .. r.made + 1
      /\ \A j \in DOMAIN r.ids : q.ids[j] = r.ids[j]
      /\ q.ids[r.made + 1] = [slot |-> s, gen |-> n]
  <2>1. Noted(r, q, s, n)
    BY <1>2, GivenMore
  <2>2. QED
    BY <2>1 DEF Noted
<1>4. q.made = r.made + 1 /\ q.live = r.live + 1 /\ r.made \in Nat /\ r.live \in Int /\ DOMAIN r.ids = 1 .. r.made
  BY <1>1 DEF RegBasics, Numbers
<1>5. /\ \A i \in DOMAIN r.free : r.free[i] \in DOMAIN r.slots
      /\ \A i, j \in DOMAIN r.free : r.free[i] = r.free[j] => i = j
      /\ \A t \in DOMAIN r.slots : r.slots[t] = 0 <=> \E i \in DOMAIN r.free : r.free[i] = t
      /\ r.live = Len(r.slots) - Len(r.free)
      /\ \A j \in DOMAIN r.ids : r.ids[j].slot \in DOMAIN r.slots
  BY DEF RegTidy
<1>6. RegTyped(q)
  BY <1>2, <1>3, <1>4 DEF RegTyped
<1>7. \A i \in DOMAIN q.free : q.free[i] \in DOMAIN q.slots
  BY <1>2, <1>5
<1>8. \A i, j \in DOMAIN q.free : q.free[i] = q.free[j] => i = j
  BY <1>2, <1>5
<1>9. ASSUME NEW t \in DOMAIN q.slots
      PROVE  q.slots[t] = 0 <=> \E i \in DOMAIN q.free : q.free[i] = t
  <2>1. CASE t = s
    <3>1. q.slots[t] # 0
      BY <1>2, <1>4, <2>1
    <3>2. ~ \E i \in DOMAIN q.free : q.free[i] = t
      BY <1>2, <2>1
    <3>3. QED
      BY <3>1, <3>2
  <2>2. CASE t # s
    <3>1. t \in DOMAIN r.slots /\ q.slots[t] = r.slots[t]
      BY <1>2, <2>2
    <3>2. (\E i \in DOMAIN r.free : r.free[i] = t) <=> (\E i \in DOMAIN q.free : q.free[i] = t)
      BY <1>2, <2>2
    <3>3. QED
      BY <1>5, <3>1, <3>2
  <2>3. QED
    BY <2>1, <2>2
<1>10. q.live = Len(q.slots) - Len(q.free)
  <2>1. Len(r.slots) \in Nat /\ Len(r.free) \in Nat
    BY <1>1 DEF RegBasics
  <2>2. QED
    BY <1>2, <1>4, <1>5, <2>1
<1>11. \A j \in DOMAIN q.ids : q.ids[j].slot \in DOMAIN q.slots
  <2>1. ASSUME NEW j \in 1 .. r.made + 1
        PROVE  q.ids[j].slot \in DOMAIN q.slots
    <3>1. CASE j = r.made + 1
      BY <1>2, <1>3, <3>1
    <3>2. CASE j # r.made + 1
      <4>1. j \in DOMAIN r.ids
        BY <1>4, <3>2
      <4>2. QED
        BY <1>2, <1>3, <1>5, <4>1
    <3>3. QED
      BY <3>1, <3>2
  <2>2. QED
    BY <1>3, <2>1
<1>12. q.made = Len(q.ids)
  BY <1>3, <1>4
<1>13. DOMAIN q.gens = DOMAIN q.slots
  BY <1>2
<1>14. QED
  BY <1>6, <1>7, <1>8, <1>9, <1>10, <1>11, <1>12, <1>13 DEF RegTidy

(* The id of a new entry is new, as long as its slot's counter has not     *)
(* come round.                                                             *)
LEMMA DealFresh ==
  ASSUME NEW g \in Nat, g > 1, NEW r, RegTidy(r), NEW q, NEW s, NEW n,
         Numbers(r, q, s, n), Grows(r, q, s, n, g) \/ Reuses(r, q, s, n, g),
         RegInv(r, g), Unwrapped(q, g)
  PROVE  RegFresh(q)
<1>1. RegBasics(r)
  BY RegShape
<1>2. /\ s \in Nat /\ n \in Nat /\ n = Next1(IF s \in DOMAIN r.slots THEN r.gens[s] ELSE 0, g)
      /\ DOMAIN q.slots = DOMAIN r.slots \cup {s}
      /\ \A t \in DOMAIN r.slots : t # s => q.slots[t] = r.slots[t] /\ q.gens[t] = r.gens[t]
      /\ q.slots[s] = r.made + 1 /\ q.gens[s] = n
  <2>1. Dealt(r, q, s, n, g)
    BY DealShape
  <2>2. QED
    BY <2>1 DEF Dealt
<1>3. /\ DOMAIN q.ids = 1 .. r.made + 1
      /\ \A j \in DOMAIN r.ids : q.ids[j] = r.ids[j]
      /\ q.ids[r.made + 1] = [slot |-> s, gen |-> n]
      /\ Cardinality(Given(q, s)) = Cardinality(Given(r, s)) + 1
      /\ \A t : t # s => Given(q, t) = Given(r, t)
  <2>1. Noted(r, q, s, n)
    BY <1>2, GivenMore
  <2>2. QED
    BY <2>1 DEF Noted
<1>4. r.made \in Nat /\ DOMAIN r.ids = 1 .. r.made /\ r.ids \in Seq(IdRec)
  BY <1>1 DEF RegBasics
<1>5. \A t : Cardinality(Given(r, t)) \in Nat
  BY GivenFinite
<1>6. Unwrapped(r, g)
  <2>1. ASSUME NEW t \in DOMAIN r.slots
        PROVE  Cardinality(Given(r, t)) < g
    <3>1. Cardinality(Given(q, t)) < g
      BY <1>2 DEF Unwrapped
    <3>2. Cardinality(Given(q, t)) \in {Cardinality(Given(r, t)), Cardinality(Given(r, t)) + 1}
      BY <1>3
    <3>3. Cardinality(Given(r, t)) \in Nat
      BY <1>5
    <3>4. QED
      BY <3>1, <3>2, <3>3
  <2>2. QED
    BY <2>1 DEF Unwrapped
<1>7. /\ \A t \in DOMAIN r.slots : r.gens[t] = Cardinality(Given(r, t))
      /\ \A j, k \in DOMAIN r.ids : r.ids[j] = r.ids[k] => j = k
      /\ \A j \in DOMAIN r.ids : r.ids[j].gen <= r.gens[r.ids[j].slot]
      /\ \A t \in DOMAIN r.slots : r.slots[t] # 0 =>
           r.slots[t] \in DOMAIN r.ids /\ r.ids[r.slots[t]] = [slot |-> t, gen |-> r.gens[t]]
  BY <1>6 DEF RegInv, RegFresh
<1>8. \A j \in DOMAIN r.ids : r.ids[j].slot \in DOMAIN r.slots
  BY DEF RegTidy
<1>9. n = Cardinality(Given(r, s)) + 1
  <2>1. Cardinality(Given(r, s)) + 1 < g
    BY <1>2, <1>3 DEF Unwrapped
  <2>2. CASE s \in DOMAIN r.slots
    BY <1>2, <1>5, <1>7, <2>1, <2>2, NextOne
  <2>3. CASE s \notin DOMAIN r.slots
    <3>1. Given(r, s) = {}
      BY <1>8, <2>3 DEF Given
    <3>2. Cardinality(Given(r, s)) = 0
      BY <3>1, FS_EmptySet
    <3>3. n = Next1(0, g)
      BY <1>2, <2>3
    <3>4. QED
      BY <2>1, <3>2, <3>3, NextOne
  <2>4. QED
    BY <2>2, <2>3
<1>10. ASSUME NEW t \in DOMAIN q.slots
       PROVE  q.gens[t] = Cardinality(Given(q, t))
  <2>1. CASE t = s
    BY <1>2, <1>3, <1>9, <2>1
  <2>2. CASE t # s
    BY <1>2, <1>3, <1>7, <2>2
  <2>3. QED
    BY <2>1, <2>2
<1>11. \A j \in DOMAIN r.ids : r.ids[j].slot = s => r.ids[j].gen < n
  <2>1. ASSUME NEW j \in DOMAIN r.ids, r.ids[j].slot = s
        PROVE  r.ids[j].gen < n
    <3>1. s \in DOMAIN r.slots /\ r.ids[j].gen <= r.gens[s] /\ r.gens[s] = Cardinality(Given(r, s))
      BY <1>7, <1>8, <2>1
    <3>2. r.ids[j].gen \in Nat
      <4>1. r.ids[j] \in IdRec
        BY <1>4, ElementOfSeq
      <4>2. QED
        BY <4>1 DEF IdRec
    <3>3. QED
      BY <1>5, <1>9, <3>1, <3>2
  <2>2. QED
    BY <2>1
<1>12. ASSUME NEW j \in DOMAIN q.ids, j # r.made + 1
       PROVE  j \in DOMAIN r.ids /\ q.ids[j] = r.ids[j] /\ q.ids[j] # q.ids[r.made + 1]
  <2>1. j \in DOMAIN r.ids
    BY <1>3, <1>4, <1>12
  <2>2. q.ids[j] = r.ids[j] /\ r.ids[j].gen \in Nat
    <3>1. r.ids[j] \in IdRec
      BY <1>4, <2>1, ElementOfSeq
    <3>2. QED
      BY <1>3, <2>1, <3>1 DEF IdRec
  <2>3. q.ids[r.made + 1].slot = s /\ q.ids[r.made + 1].gen = n
    BY <1>3
  <2>4. r.ids[j].slot = s => r.ids[j].gen # n
    BY <1>2, <1>11, <2>1, <2>2
  <2>5. QED
    BY <2>1, <2>2, <2>3, <2>4
<1>13. \A j, k \in DOMAIN q.ids : q.ids[j] = q.ids[k] => j = k
  <2>1. ASSUME NEW j \in DOMAIN q.ids, NEW k \in DOMAIN q.ids, q.ids[j] = q.ids[k], j # r.made + 1
        PROVE  j = k
    <3>1. j \in DOMAIN r.ids /\ q.ids[j] = r.ids[j] /\ q.ids[j] # q.ids[r.made + 1]
      BY <1>12, <2>1
    <3>2. k # r.made + 1
      BY <2>1, <3>1
    <3>3. k \in DOMAIN r.ids /\ q.ids[k] = r.ids[k]
      BY <1>12, <3>2
    <3>4. QED
      BY <1>7, <2>1, <3>1, <3>3
  <2>2. QED
    BY <2>1
<1>14. ASSUME NEW j \in DOMAIN q.ids
       PROVE  q.ids[j].gen <= q.gens[q.ids[j].slot]
  <2>1. CASE j = r.made + 1
    BY <1>2, <1>3, <2>1
  <2>2. CASE j # r.made + 1
    <3>1. j \in DOMAIN r.ids /\ q.ids[j] = r.ids[j]
      BY <1>12, <2>2
    <3>2. CASE r.ids[j].slot = s
      <4>1. r.ids[j] \in IdRec
        BY <1>4, <3>1, ElementOfSeq
      <4>2. r.ids[j].gen \in Nat /\ r.ids[j].gen < n
        BY <1>11, <3>1, <3>2, <4>1 DEF IdRec
      <4>3. QED
        BY <1>2, <3>1, <3>2, <4>2
    <3>3. CASE r.ids[j].slot # s
      BY <1>2, <1>7, <1>8, <3>1, <3>3
    <3>4. QED
      BY <3>2, <3>3
  <2>3. QED
    BY <2>1, <2>2
<1>15. ASSUME NEW t \in DOMAIN q.slots, q.slots[t] # 0
       PROVE  q.slots[t] \in DOMAIN q.ids /\ q.ids[q.slots[t]] = [slot |-> t, gen |-> q.gens[t]]
  <2>1. CASE t = s
    BY <1>2, <1>3, <1>4, <2>1
  <2>2. CASE t # s
    <3>1. t \in DOMAIN r.slots /\ q.slots[t] = r.slots[t] /\ q.gens[t] = r.gens[t]
      BY <1>2, <2>2
    <3>2. r.slots[t] \in DOMAIN r.ids /\ r.ids[r.slots[t]] = [slot |-> t, gen |-> r.gens[t]]
      BY <1>7, <1>15, <3>1
    <3>3. DOMAIN r.ids \subseteq DOMAIN q.ids
      BY <1>3, <1>4
    <3>4. QED
      BY <1>3, <3>1, <3>2, <3>3
  <2>3. QED
    BY <2>1, <2>2
<1>16. QED
  BY <1>10, <1>13, <1>14, <1>15 DEF RegFresh

LEMMA DealKeeps ==
  ASSUME NEW g \in Nat, g > 1, NEW r, RegInv(r, g), NEW q, Deals(r, q, g)
  PROVE  RegInv(q, g)
<1>1. PICK s, n : Numbers(r, q, s, n) /\ (Grows(r, q, s, n, g) \/ Reuses(r, q, s, n, g))
  BY DEF Deals
<1>2. RegTidy(r)
  BY DEF RegInv
<1>3. RegTidy(q)
  BY <1>1, <1>2, DealTidy
<1>4. Unwrapped(q, g) => RegFresh(q)
  BY <1>1, <1>2, DealFresh
<1>5. QED
  BY <1>3, <1>4 DEF RegInv

LEMMA DropKeeps ==
  ASSUME NEW g, NEW r, RegInv(r, g), NEW q, NEW k \in DOMAIN r.ids, DropsId(r, q, r.ids[k])
  PROVE  RegInv(q, g)
<1> DEFINE s == r.ids[k].slot
<1>1. RegTidy(r) /\ RegBasics(r)
  BY RegShape DEF RegInv
<1>2. /\ s \in DOMAIN r.slots /\ r.slots[s] # 0
      /\ q.slots = [r.slots EXCEPT ![s] = 0] /\ q.live = r.live - 1
      /\ q.free = Append(r.free, s) /\ q.gens = r.gens /\ q.made = r.made /\ q.ids = r.ids
  BY DEF DropsId, Found
<1> HIDE DEF s
<1>3. /\ r.slots \in Seq(Nat) /\ s \in 1 .. Len(r.slots) /\ DOMAIN r.slots = 1 .. Len(r.slots) /\ s \in Nat
      /\ r.free \in Seq(Nat) /\ Len(r.free) \in Nat /\ DOMAIN r.free = 1 .. Len(r.free) /\ r.live \in Int
  BY <1>1, <1>2 DEF RegBasics
<1>4. /\ q.slots \in Seq(Nat) /\ Len(q.slots) = Len(r.slots) /\ DOMAIN q.slots = DOMAIN r.slots
      /\ q.slots[s] = 0 /\ \A t \in DOMAIN r.slots : t # s => q.slots[t] = r.slots[t]
  BY <1>2, <1>3, ExceptSeq
<1>5. /\ q.free \in Seq(Nat) /\ Len(q.free) = Len(r.free) + 1 /\ DOMAIN q.free = 1 .. Len(r.free) + 1
      /\ q.free[Len(r.free) + 1] = s /\ \A i \in 1 .. Len(r.free) : q.free[i] = r.free[i]
  BY <1>2, <1>3, AppendProperties
<1>6. /\ DOMAIN r.gens = DOMAIN r.slots
      /\ \A i \in DOMAIN r.free : r.free[i] \in DOMAIN r.slots
      /\ \A i, j \in DOMAIN r.free : r.free[i] = r.free[j] => i = j
      /\ \A t \in DOMAIN r.slots : r.slots[t] = 0 <=> \E i \in DOMAIN r.free : r.free[i] = t
      /\ r.live = Len(r.slots) - Len(r.free)
      /\ r.made = Len(r.ids)
      /\ \A j \in DOMAIN r.ids : r.ids[j].slot \in DOMAIN r.slots
  BY <1>1 DEF RegTidy
<1>7. \A i \in DOMAIN q.free : i \in DOMAIN r.free \/ i = Len(r.free) + 1
  BY <1>3, <1>5
<1>8. \A i \in DOMAIN r.free : i \in DOMAIN q.free /\ q.free[i] = r.free[i] /\ r.free[i] # s
  <2>1. \A i \in DOMAIN r.free : i \in DOMAIN q.free /\ q.free[i] = r.free[i]
    <3>1. \A z \in Nat : \A i \in 1 .. z : i \in 1 .. z + 1
      OBVIOUS
    <3>2. \A i \in 1 .. Len(r.free) : i \in 1 .. Len(r.free) + 1
      BY <1>3, <3>1
    <3>3. QED
      BY <1>3, <1>5, <3>2
  <2>2. \A i \in DOMAIN r.free : r.free[i] # s
    BY <1>2, <1>6
  <2>3. QED
    BY <2>1, <2>2
<1>9. RegTidy(q)
  <2>1. RegTyped(q)
    BY <1>1, <1>2, <1>3, <1>4, <1>5 DEF RegTyped, RegBasics
  <2>2. /\ DOMAIN q.gens = DOMAIN q.slots /\ q.made = Len(q.ids)
        /\ \A j \in DOMAIN q.ids : q.ids[j].slot \in DOMAIN q.slots
    BY <1>2, <1>4, <1>6
  <2>3. \A i \in DOMAIN q.free : q.free[i] \in DOMAIN q.slots
    BY <1>2, <1>4, <1>5, <1>6, <1>7, <1>8
  <2>4. \A i, j \in DOMAIN q.free : q.free[i] = q.free[j] => i = j
    BY <1>5, <1>6, <1>7, <1>8
  <2>5. ASSUME NEW t \in DOMAIN q.slots
        PROVE  q.slots[t] = 0 <=> \E i \in DOMAIN q.free : q.free[i] = t
    <3>1. CASE t = s
      <4>1. Len(r.free) + 1 \in DOMAIN q.free
        BY <1>3, <1>5
      <4>2. QED
        BY <1>4, <1>5, <3>1, <4>1
    <3>2. CASE t # s
      <4>1. t \in DOMAIN r.slots /\ q.slots[t] = r.slots[t]
        BY <1>4, <3>2
      <4>2. (\E i \in DOMAIN r.free : r.free[i] = t) <=> (\E i \in DOMAIN q.free : q.free[i] = t)
        BY <1>5, <1>7, <1>8, <3>2
      <4>3. QED
        BY <1>6, <4>1, <4>2
    <3>3. QED
      BY <3>1, <3>2
  <2>6. q.live = Len(q.slots) - Len(q.free)
    <3>1. Len(r.slots) \in Nat
      BY <1>3, LenProperties
    <3>2. QED
      BY <1>2, <1>3, <1>4, <1>5, <1>6, <3>1
  <2>7. QED
    BY <2>1, <2>2, <2>3, <2>4, <2>5, <2>6 DEF RegTidy
<1>10. Unwrapped(q, g) => RegFresh(q)
  <2>1. \A t : Given(q, t) = Given(r, t)
    BY <1>2 DEF Given
  <2>2. ASSUME Unwrapped(q, g)
        PROVE  RegFresh(q)
    <3>1. Unwrapped(r, g)
      BY <1>4, <2>1, <2>2 DEF Unwrapped
    <3>2. /\ \A t \in DOMAIN r.slots : r.gens[t] = Cardinality(Given(r, t))
          /\ \A j, i \in DOMAIN r.ids : r.ids[j] = r.ids[i] => j = i
          /\ \A j \in DOMAIN r.ids : r.ids[j].gen <= r.gens[r.ids[j].slot]
          /\ \A t \in DOMAIN r.slots : r.slots[t] # 0 =>
               r.slots[t] \in DOMAIN r.ids /\ r.ids[r.slots[t]] = [slot |-> t, gen |-> r.gens[t]]
      BY <3>1 DEF RegInv, RegFresh
    <3>3. \A t \in DOMAIN q.slots : q.slots[t] # 0 =>
            q.slots[t] \in DOMAIN q.ids /\ q.ids[q.slots[t]] = [slot |-> t, gen |-> q.gens[t]]
      BY <1>2, <1>4, <3>2
    <3>4. QED
      BY <1>2, <1>4, <2>1, <3>2, <3>3 DEF RegFresh
  <2>3. QED
    BY <2>2
<1>11. QED
  BY <1>9, <1>10 DEF RegInv

LEMMA EmptiesKeeps ==
  ASSUME NEW g, NEW r, RegInv(r, g), NEW q, Empties(r, q)
  PROVE  RegInv(q, g)
<1>1. RegTidy(r) /\ RegBasics(r)
  BY RegShape DEF RegInv
<1>2. /\ q.slots = [i \in DOMAIN r.slots |-> 0] /\ q.free = [i \in DOMAIN r.slots |-> i] /\ q.live = 0
      /\ q.gens = r.gens /\ q.made = r.made /\ q.ids = r.ids
  BY DEF Empties
<1>3. DOMAIN r.slots = 1 .. Len(r.slots) /\ Len(r.slots) \in Nat
  BY <1>1 DEF RegBasics
<1>4. /\ q.slots \in Seq(Nat) /\ Len(q.slots) = Len(r.slots) /\ DOMAIN q.slots = DOMAIN r.slots
      /\ \A t \in DOMAIN r.slots : q.slots[t] = 0
  BY <1>2, <1>3
<1>5. /\ q.free \in Seq(Nat) /\ Len(q.free) = Len(r.slots) /\ DOMAIN q.free = DOMAIN r.slots
      /\ \A t \in DOMAIN r.slots : q.free[t] = t
  BY <1>2, <1>3
<1>6. RegTidy(q)
  <2>1. RegTyped(q)
    BY <1>1, <1>2, <1>4, <1>5 DEF RegTyped, RegBasics
  <2>2. /\ DOMAIN q.gens = DOMAIN q.slots /\ q.made = Len(q.ids)
        /\ \A j \in DOMAIN q.ids : q.ids[j].slot \in DOMAIN q.slots
    BY <1>1, <1>2, <1>4 DEF RegTidy
  <2>3. /\ \A i \in DOMAIN q.free : q.free[i] \in DOMAIN q.slots
        /\ \A i, j \in DOMAIN q.free : q.free[i] = q.free[j] => i = j
        /\ \A t \in DOMAIN q.slots : q.slots[t] = 0 <=> \E i \in DOMAIN q.free : q.free[i] = t
    BY <1>4, <1>5
  <2>4. q.live = Len(q.slots) - Len(q.free)
    BY <1>2, <1>3, <1>4, <1>5
  <2>5. QED
    BY <2>1, <2>2, <2>3, <2>4 DEF RegTidy
<1>7. Unwrapped(q, g) => RegFresh(q)
  <2>1. \A t : Given(q, t) = Given(r, t)
    BY <1>2 DEF Given
  <2>2. Unwrapped(q, g) => Unwrapped(r, g)
    BY <1>4, <2>1 DEF Unwrapped
  <2>3. QED
    BY <1>2, <1>4, <2>1, <2>2 DEF RegInv, RegFresh
<1>8. QED
  BY <1>6, <1>7 DEF RegInv

(* What an id leads to: its own entry or nothing.                          *)
LEMMA EntryOwn ==
  ASSUME NEW g, NEW r, RegInv(r, g), Unwrapped(r, g), NEW k \in DOMAIN r.ids
  PROVE  Entry(r, k) \in {0, k}
<1>1. /\ \A j, i \in DOMAIN r.ids : r.ids[j] = r.ids[i] => j = i
      /\ \A t \in DOMAIN r.slots : r.slots[t] # 0 =>
           r.slots[t] \in DOMAIN r.ids /\ r.ids[r.slots[t]] = [slot |-> t, gen |-> r.gens[t]]
  BY DEF RegInv, RegFresh
<1>2. r.ids[k] \in IdRec
  <2>1. r.ids \in Seq(IdRec)
    BY DEF RegInv, RegTidy, RegTyped
  <2>2. QED
    BY <2>1, ElementOfSeq
<1>3. r.ids[k] = [slot |-> r.ids[k].slot, gen |-> r.ids[k].gen]
  BY <1>2 DEF IdRec
<1>4. CASE Entry(r, k) # 0
  <2>1. /\ r.ids[k].slot \in DOMAIN r.slots /\ r.gens[r.ids[k].slot] = r.ids[k].gen
        /\ r.slots[r.ids[k].slot] # 0 /\ Entry(r, k) = r.slots[r.ids[k].slot]
    BY <1>4 DEF Entry, Found
  <2>2. QED
    BY <1>1, <1>3, <2>1
<1>5. QED
  BY <1>4

(* As long as fewer entries were made than the counter has values, no      *)
(* slot's has come round.                                                  *)
LEMMA FewUnwrapped ==
  ASSUME NEW g \in Nat, NEW r, RegTidy(r), r.made < g
  PROVE  Unwrapped(r, g)
<1>1. r.made \in Nat /\ \A s : Cardinality(Given(r, s)) \in Nat /\ Cardinality(Given(r, s)) <= r.made
  BY GivenFinite DEF RegTidy, RegTyped
<1>2. QED
  BY <1>1 DEF Unwrapped

LEMMA DealtEntries ==
  ASSUME NEW g \in Nat, g > 1, NEW r, RegInv(r, g), NEW q, Deals(r, q, g), RegInv(q, g), Unwrapped(q, g)
  PROVE  \A k \in DOMAIN q.ids :
           IF k = r.made + 1 THEN Entry(q, k) = k ELSE k \in DOMAIN r.ids /\ Entry(q, k) = Entry(r, k)
<1>1. PICK s, n : Numbers(r, q, s, n) /\ (Grows(r, q, s, n, g) \/ Reuses(r, q, s, n, g))
  BY DEF Deals
<1>2. RegTidy(r) /\ RegBasics(r)
  BY RegShape DEF RegInv
<1>3. /\ s \in Nat /\ n \in Nat
      /\ DOMAIN q.slots = DOMAIN r.slots \cup {s}
      /\ s \in DOMAIN r.slots => r.slots[s] = 0
      /\ \A t \in DOMAIN r.slots : t # s => q.slots[t] = r.slots[t] /\ q.gens[t] = r.gens[t]
      /\ q.slots[s] = r.made + 1 /\ q.gens[s] = n
  <2>1. Dealt(r, q, s, n, g)
    BY <1>1, <1>2, DealShape
  <2>2. QED
    BY <2>1 DEF Dealt
<1>4. /\ DOMAIN q.ids = 1 .. r.made + 1
      /\ \A j \in DOMAIN r.ids : q.ids[j] = r.ids[j]
      /\ q.ids[r.made + 1] = [slot |-> s, gen |-> n]
  <2>1. Noted(r, q, s, n)
    BY <1>1, <1>2, <1>3, GivenMore
  <2>2. QED
    BY <2>1 DEF Noted
<1>5. r.made \in Nat /\ DOMAIN r.ids = 1 .. r.made /\ \A j \in DOMAIN r.ids : r.ids[j].slot \in DOMAIN r.slots
  BY <1>2 DEF RegBasics, RegTidy
<1>6. ASSUME NEW k \in DOMAIN q.ids, k # r.made + 1
      PROVE  k \in DOMAIN r.ids /\ Entry(q, k) = Entry(r, k)
  <2>1. k \in DOMAIN r.ids
    BY <1>4, <1>5, <1>6
  <2>2. r.ids[k].slot \in DOMAIN r.slots /\ r.ids[k].slot \in DOMAIN q.slots /\ q.ids[k] = r.ids[k]
    BY <1>3, <1>4, <1>5, <2>1
  <2>3. CASE r.ids[k].slot = s
    <3>1. Entry(r, k) = 0
      BY <1>3, <2>2, <2>3 DEF Entry, Found
    <3>2. Entry(q, k) \in {0, k}
      BY EntryOwn
    <3>3. Entry(q, k) \in {0, r.made + 1}
      BY <1>3, <2>2, <2>3 DEF Entry, Found
    <3>4. QED
      BY <1>6, <2>1, <3>1, <3>2, <3>3
  <2>4. CASE r.ids[k].slot # s
    BY <1>3, <2>1, <2>2, <2>4 DEF Entry, Found
  <2>5. QED
    BY <2>3, <2>4
<1>7. Entry(q, r.made + 1) = r.made + 1
  BY <1>3, <1>4, <1>5 DEF Entry, Found
<1>8. QED
  BY <1>6, <1>7

LEMMA DroppedEntries ==
  ASSUME NEW g, NEW r, RegInv(r, g), Unwrapped(r, g), NEW k \in DOMAIN r.ids, NEW q, DropsId(r, q, r.ids[k])
  PROVE  /\ q.made = r.made /\ q.ids = r.ids /\ Entry(q, k) = 0 /\ Entry(r, k) = k
         /\ \A j \in DOMAIN r.ids : j # k => Entry(q, j) = Entry(r, j)
<1>0. PICK s : s = r.ids[k].slot
  OBVIOUS
<1>1. RegTidy(r) /\ s = r.ids[k].slot
  BY <1>0 DEF RegInv
<1>2. /\ s \in DOMAIN r.slots /\ r.slots[s] # 0 /\ Entry(r, k) = r.slots[s]
      /\ q.slots = [r.slots EXCEPT ![s] = 0] /\ q.gens = r.gens /\ q.made = r.made /\ q.ids = r.ids
  BY <1>0 DEF DropsId, Found, Entry
<1>3. Entry(r, k) = k
  BY <1>2, EntryOwn
<1>4. DOMAIN q.slots = DOMAIN r.slots /\ q.slots[s] = 0 /\ \A t \in DOMAIN r.slots : t # s => q.slots[t] = r.slots[t]
  <2>1. r.slots \in Seq(Nat) /\ s \in 1 .. Len(r.slots) /\ DOMAIN r.slots = 1 .. Len(r.slots)
    BY <1>1, <1>2, RegShape DEF RegBasics
  <2>2. QED
    BY <1>2, <2>1, ExceptSeq
<1>5. Entry(q, k) = 0
  BY <1>1, <1>2, <1>4 DEF Entry, Found
<1>6. ASSUME NEW j \in DOMAIN r.ids, j # k
      PROVE  Entry(q, j) = Entry(r, j)
  <2>1. CASE r.ids[j].slot = s
    <3>1. Entry(q, j) = 0
      BY <1>1, <1>2, <1>4, <2>1 DEF Entry, Found
    <3>2. Entry(r, j) \in {0, j} /\ Entry(r, j) \in {0, k}
      <4>1. Entry(r, j) \in {0, j}
        BY EntryOwn
      <4>2. Entry(r, j) \in {0, r.slots[s]}
        BY <1>1, <2>1 DEF Entry, Found
      <4>3. QED
        BY <1>2, <1>3, <4>1, <4>2
    <3>3. QED
      BY <1>6, <3>1, <3>2
  <2>2. CASE r.ids[j].slot # s
    <3>1. q.ids[j] = r.ids[j] /\ r.ids[j].slot \in DOMAIN r.slots
      BY <1>1, <1>2 DEF RegTidy
    <3>2. QED
      BY <1>1, <1>2, <1>4, <2>2, <3>1 DEF Entry, Found
  <2>3. QED
    BY <2>1, <2>2
<1>7. Entry(r, k) = k
  BY <1>3
<1>8. QED
  BY <1>2, <1>5, <1>6, <1>7

(* Each scene's registry does to its record what the operations say.       *)
LEMMA RegistrySteps ==
  ASSUME RegTidy(RegNow)
  PROVE  /\ Reg!Alloc => Deals(RegNow, RegNow', RegBounds.gens) /\ made < RegBounds.allocs
         /\ \A id : Reg!Drop(id) => DropsId(RegNow, RegNow', id)
         /\ \A id : Reg!Resolve(id) = Found(RegNow, id)
         /\ Reg!Clear => Empties(RegNow, RegNow')
<1>1. RegBasics(RegNow) /\ free \in Seq(Nat)
  BY RegShape DEF RegBasics, RegNow
<1>2. ASSUME Reg!Alloc
      PROVE  Deals(RegNow, RegNow', RegBounds.gens) /\ made < RegBounds.allocs
  <2> DEFINE s == IF free = <<>> THEN Len(slots) + 1 ELSE free[Len(free)]
             n == Next1(IF free = <<>> THEN 0 ELSE gens[s], RegBounds.gens)
  <2>1. Reg!Last(free) = free[Len(free)] /\ Reg!Front(free) = SubSeq(free, 1, Len(free) - 1)
    BY DEF Reg!Last, Reg!Front
  <2>2. \A z : Reg!Bumped(z) = Next1(z, RegBounds.gens)
    BY DEF Reg!Bumped, Next1
  <2>3. /\ made' = made + 1 /\ live' = live + 1 /\ made < RegBounds.allocs
        /\ slots' = IF free = <<>> THEN Append(slots, made + 1) ELSE [slots EXCEPT ![s] = made + 1]
        /\ gens' = IF free = <<>> THEN Append(gens, n) ELSE [gens EXCEPT ![s] = n]
        /\ free' = IF free = <<>> THEN free ELSE SubSeq(free, 1, Len(free) - 1)
        /\ ids' = Append(ids, [slot |-> s, gen |-> n])
    BY <1>2, <2>1, <2>2 DEF Reg!Alloc
  <2>4. Numbers(RegNow, RegNow', s, n)
    BY <2>3 DEF Numbers, RegNow
  <2>5. CASE free = <<>>
    <3>1. Grows(RegNow, RegNow', s, n, RegBounds.gens)
      BY <2>3, <2>5 DEF Grows, RegNow
    <3>2. QED
      BY <2>3, <2>4, <3>1 DEF Deals
  <2>6. CASE free # <<>>
    <3>1. Reuses(RegNow, RegNow', s, n, RegBounds.gens)
      BY <2>3, <2>6 DEF Reuses, RegNow
    <3>2. QED
      BY <2>3, <2>4, <3>1 DEF Deals
  <2>7. QED
    BY <2>5, <2>6
<1>3. \A id : Reg!Resolve(id) = Found(RegNow, id)
  BY DEF Reg!Resolve, Reg!None, Found, RegNow
<1>4. \A id : Reg!Drop(id) => DropsId(RegNow, RegNow', id)
  BY <1>3 DEF Reg!Drop, Reg!None, DropsId, RegNow
<1>5. Reg!Clear => Empties(RegNow, RegNow')
  BY DEF Reg!Clear, Reg!None, Empties, RegNow
<1>6. QED
  BY <1>2, <1>3, <1>4, <1>5

LEMMA XhrSteps ==
  ASSUME RegTidy(RegNow)
  PROVE  /\ Xhr!Alloc => Deals(RegNow, RegNow', XhrBounds.gens) /\ made < XhrBounds.allocs
         /\ \A id : Xhr!Drop(id) => DropsId(RegNow, RegNow', id)
         /\ \A id : Xhr!Resolve(id) = Found(RegNow, id)
<1>1. RegBasics(RegNow) /\ free \in Seq(Nat)
  BY RegShape DEF RegBasics, RegNow
<1>2. ASSUME Xhr!Alloc
      PROVE  Deals(RegNow, RegNow', XhrBounds.gens) /\ made < XhrBounds.allocs
  <2> DEFINE s == IF free = <<>> THEN Len(slots) + 1 ELSE free[Len(free)]
             n == Next1(IF free = <<>> THEN 0 ELSE gens[s], XhrBounds.gens)
  <2>1. Xhr!Last(free) = free[Len(free)] /\ Xhr!Front(free) = SubSeq(free, 1, Len(free) - 1)
    BY DEF Xhr!Last, Xhr!Front
  <2>2. \A z : Xhr!Bumped(z) = Next1(z, XhrBounds.gens)
    BY DEF Xhr!Bumped, Next1
  <2>3. /\ made' = made + 1 /\ live' = live + 1 /\ made < XhrBounds.allocs
        /\ slots' = IF free = <<>> THEN Append(slots, made + 1) ELSE [slots EXCEPT ![s] = made + 1]
        /\ gens' = IF free = <<>> THEN Append(gens, n) ELSE [gens EXCEPT ![s] = n]
        /\ free' = IF free = <<>> THEN free ELSE SubSeq(free, 1, Len(free) - 1)
        /\ ids' = Append(ids, [slot |-> s, gen |-> n])
    BY <1>2, <2>1, <2>2 DEF Xhr!Alloc
  <2>4. Numbers(RegNow, RegNow', s, n)
    BY <2>3 DEF Numbers, RegNow
  <2>5. CASE free = <<>>
    <3>1. Grows(RegNow, RegNow', s, n, XhrBounds.gens)
      BY <2>3, <2>5 DEF Grows, RegNow
    <3>2. QED
      BY <2>3, <2>4, <3>1 DEF Deals
  <2>6. CASE free # <<>>
    <3>1. Reuses(RegNow, RegNow', s, n, XhrBounds.gens)
      BY <2>3, <2>6 DEF Reuses, RegNow
    <3>2. QED
      BY <2>3, <2>4, <3>1 DEF Deals
  <2>7. QED
    BY <2>5, <2>6
<1>3. \A id : Xhr!Resolve(id) = Found(RegNow, id)
  BY DEF Xhr!Resolve, Xhr!None, Found, RegNow
<1>4. \A id : Xhr!Drop(id) => DropsId(RegNow, RegNow', id)
  BY <1>3 DEF Xhr!Drop, Xhr!None, DropsId, RegNow
<1>6. QED
  BY <1>2, <1>3, <1>4

LEMMA RtcSteps ==
  ASSUME RegTidy(RegNow)
  PROVE  /\ Rtc!Alloc => Deals(RegNow, RegNow', RtcBounds.gens) /\ made < RtcBounds.allocs
         /\ \A id : Rtc!Drop(id) => DropsId(RegNow, RegNow', id)
         /\ \A id : Rtc!Resolve(id) = Found(RegNow, id)
<1>1. RegBasics(RegNow) /\ free \in Seq(Nat)
  BY RegShape DEF RegBasics, RegNow
<1>2. ASSUME Rtc!Alloc
      PROVE  Deals(RegNow, RegNow', RtcBounds.gens) /\ made < RtcBounds.allocs
  <2> DEFINE s == IF free = <<>> THEN Len(slots) + 1 ELSE free[Len(free)]
             n == Next1(IF free = <<>> THEN 0 ELSE gens[s], RtcBounds.gens)
  <2>1. Rtc!Last(free) = free[Len(free)] /\ Rtc!Front(free) = SubSeq(free, 1, Len(free) - 1)
    BY DEF Rtc!Last, Rtc!Front
  <2>2. \A z : Rtc!Bumped(z) = Next1(z, RtcBounds.gens)
    BY DEF Rtc!Bumped, Next1
  <2>3. /\ made' = made + 1 /\ live' = live + 1 /\ made < RtcBounds.allocs
        /\ slots' = IF free = <<>> THEN Append(slots, made + 1) ELSE [slots EXCEPT ![s] = made + 1]
        /\ gens' = IF free = <<>> THEN Append(gens, n) ELSE [gens EXCEPT ![s] = n]
        /\ free' = IF free = <<>> THEN free ELSE SubSeq(free, 1, Len(free) - 1)
        /\ ids' = Append(ids, [slot |-> s, gen |-> n])
    BY <1>2, <2>1, <2>2 DEF Rtc!Alloc
  <2>4. Numbers(RegNow, RegNow', s, n)
    BY <2>3 DEF Numbers, RegNow
  <2>5. CASE free = <<>>
    <3>1. Grows(RegNow, RegNow', s, n, RtcBounds.gens)
      BY <2>3, <2>5 DEF Grows, RegNow
    <3>2. QED
      BY <2>3, <2>4, <3>1 DEF Deals
  <2>6. CASE free # <<>>
    <3>1. Reuses(RegNow, RegNow', s, n, RtcBounds.gens)
      BY <2>3, <2>6 DEF Reuses, RegNow
    <3>2. QED
      BY <2>3, <2>4, <3>1 DEF Deals
  <2>7. QED
    BY <2>5, <2>6
<1>3. \A id : Rtc!Resolve(id) = Found(RegNow, id)
  BY DEF Rtc!Resolve, Rtc!None, Found, RegNow
<1>4. \A id : Rtc!Drop(id) => DropsId(RegNow, RegNow', id)
  BY <1>3 DEF Rtc!Drop, Rtc!None, DropsId, RegNow
<1>6. QED
  BY <1>2, <1>3, <1>4

LEMMA RegistryStart ==
  ASSUME slots = <<>>, gens = <<>>, free = <<>>, live = 0, made = 0, ids = <<>>, NEW g
  PROVE  RegInv(RegNow, g)
<1>1. /\ RegNow.slots = <<>> /\ RegNow.gens = <<>> /\ RegNow.free = <<>> /\ RegNow.live = 0
      /\ RegNow.made = 0 /\ RegNow.ids = <<>>
  BY DEF RegNow
<1>2. DOMAIN (<<>>) = {} /\ Len(<<>>) = 0 /\ <<>> \in Seq(Nat) /\ <<>> \in Seq(IdRec)
  BY EmptySeq
<1>3. RegTyped(RegNow)
  BY <1>1, <1>2 DEF RegTyped
<1>4. RegTidy(RegNow)
  BY <1>1, <1>2, <1>3 DEF RegTidy
<1>5. RegFresh(RegNow)
  BY <1>1, <1>2 DEF RegFresh
<1>6. QED
  BY <1>4, <1>5 DEF RegInv

LEMMA RegistryStays ==
  ASSUME NEW g, RegInv(RegNow, g), UNCHANGED regVars
  PROVE  RegInv(RegNow, g)'
<1>1. RegNow' = RegNow
  BY DEF regVars, RegNow
<1>2. RegInv(RegNow', g)
  BY <1>1
<1>3. QED
  BY <1>2

LEMMA RegistryConstants ==
  /\ RegBounds.gens \in Nat /\ RegBounds.gens > 1
  /\ XhrBounds.gens \in Nat /\ XhrBounds.gens > 1 /\ XhrBounds.allocs \in Nat /\ XhrBounds.allocs < XhrBounds.gens
  /\ RtcBounds.gens \in Nat /\ RtcBounds.gens > 1 /\ RtcBounds.allocs \in Nat /\ RtcBounds.allocs < RtcBounds.gens
<1>1. Reg!RegAssumption /\ Xhr!XhrAssumption /\ Rtc!RtcAssumption
  BY WorkersAssumption
<1>2. RegBounds.gens \in Nat \ {0, 1}
  BY <1>1 DEF Reg!RegAssumption
<1>3. XhrBounds.gens \in Nat \ {0, 1} /\ XhrBounds.allocs \in Nat /\ XhrBounds.allocs < XhrBounds.gens
  BY <1>1 DEF Xhr!XhrAssumption, Xhr!RegAssumption
<1>4. RtcBounds.gens \in Nat \ {0, 1} /\ RtcBounds.allocs \in Nat /\ RtcBounds.allocs < RtcBounds.gens
  BY <1>1 DEF Rtc!RtcAssumption, Rtc!RegAssumption
<1>5. QED
  BY <1>2, <1>3, <1>4

LEMMA RegistryMoves ==
  ASSUME RegInv(RegNow, RegBounds.gens), Reg!Next
  PROVE  RegInv(RegNow, RegBounds.gens)'
<1>1. RegTidy(RegNow) /\ RegBounds.gens \in Nat /\ RegBounds.gens > 1
  BY RegistryConstants DEF RegInv
<1>2. RegInv(RegNow', RegBounds.gens)
  <2>1. CASE Reg!Alloc
    <3>1. Deals(RegNow, RegNow', RegBounds.gens)
      BY <1>1, <2>1, RegistrySteps
    <3>2. QED
      BY <1>1, <3>1, DealKeeps
  <2>2. CASE Reg!Clear
    <3>1. Empties(RegNow, RegNow')
      BY <1>1, <2>2, RegistrySteps
    <3>2. QED
      BY <3>1, EmptiesKeeps
  <2>3. ASSUME NEW k \in DOMAIN ids, Reg!Drop(ids[k])
        PROVE  RegInv(RegNow', RegBounds.gens)
    <3>1. DropsId(RegNow, RegNow', ids[k])
      BY <1>1, <2>3, RegistrySteps
    <3>2. k \in DOMAIN RegNow.ids /\ RegNow.ids[k] = ids[k]
      BY DEF RegNow
    <3>3. QED
      BY <3>1, <3>2, DropKeeps
  <2>4. QED
    BY <2>1, <2>2, <2>3 DEF Reg!Next
<1>3. QED
  BY <1>2

LEMMA RegistrySays ==
  ASSUME RegInv(RegNow, RegBounds.gens)
  PROVE  Reg!IdsHold
<1> DEFINE g == RegBounds.gens
<1>1. RegTidy(RegNow) /\ g \in Nat
  BY RegistryConstants DEF RegInv
<1>2. ASSUME NEW k \in DOMAIN ids
      PROVE  \/ Reg!Resolve(ids[k]) \in {0, k}
             \/ \E s \in DOMAIN slots : Reg!Cardinality({j \in DOMAIN ids : ids[j].slot = s}) >= g
  <2>1. CASE Unwrapped(RegNow, g)
    <3>1. k \in DOMAIN RegNow.ids /\ RegNow.ids[k] = ids[k]
      BY DEF RegNow
    <3>2. Entry(RegNow, k) \in {0, k}
      BY <2>1, <3>1, EntryOwn
    <3>3. Reg!Resolve(ids[k]) = Entry(RegNow, k)
      BY <1>1, <3>1, RegistrySteps DEF Entry
    <3>4. QED
      BY <3>2, <3>3
  <2>2. CASE ~Unwrapped(RegNow, g)
    <3>1. PICK s \in DOMAIN slots : ~(Cardinality(Given(RegNow, s)) < g)
      BY <2>2 DEF Unwrapped, RegNow
    <3>2. Cardinality(Given(RegNow, s)) \in Nat
      BY <1>1, GivenFinite
    <3>3. Given(RegNow, s) = {j \in DOMAIN ids : ids[j].slot = s}
      BY DEF Given, RegNow
    <3>4. \A S : Reg!Cardinality(S) = Cardinality(S)
      BY DEF Reg!Cardinality, Cardinality
    <3>5. Reg!Cardinality({j \in DOMAIN ids : ids[j].slot = s}) = Cardinality(Given(RegNow, s))
      BY <3>3, <3>4
    <3>6. Cardinality(Given(RegNow, s)) >= g
      BY <1>1, <3>1, <3>2
    <3>7. Reg!Cardinality({j \in DOMAIN ids : ids[j].slot = s}) >= g
      BY <3>5, <3>6
    <3>8. QED
      BY <3>7
  <2>3. QED
    BY <2>1, <2>2
<1>3. /\ \A i \in DOMAIN free : free[i] \in DOMAIN slots
      /\ \A i, j \in DOMAIN free : free[i] = free[j] => i = j
      /\ \A t \in DOMAIN slots : slots[t] = 0 <=> \E i \in DOMAIN free : free[i] = t
      /\ live = Len(slots) - Len(free)
  BY <1>1 DEF RegTidy, RegNow
<1>4. Reg!IsInjective(free)
  BY <1>3 DEF Reg!IsInjective
<1>5. Reg!ToSet(free) = {s \in DOMAIN slots : slots[s] = 0}
  BY <1>3 DEF Reg!ToSet
<1>6. QED
  BY <1>2, <1>3, <1>4, <1>5 DEF Reg!IdsHold, Reg!None

-----------------------------------------------------------------------------
(* Peers: an offer that waits, or is trickled, is of a peer that is gone   *)
(* or has made it, unless it was cleared; a closed peer is gone.           *)

PeerRec == [sdp : {"none", "offer", "answer"},
            ice : {"new", "checking", "connected", "closed"},
            connection : {"new", "connecting", "connected", "closed"},
            signaling : {"stable", "have-local-offer", "closed"},
            handler : BOOLEAN, heard : BOOLEAN]
PeerFine(s) ==
  /\ s.heard \/ s.connection = "connected" => s.signaling # "stable"
  /\ <<s.ice, s.connection>> \in
       {<<"new", "new">>, <<"checking", "connecting">>, <<"connected", "connected">>, <<"closed", "closed">>}
PeersFine(u, n) == u \in Seq(PeerRec) /\ Len(u) = n /\ \A k \in 1 .. n : PeerFine(u[k])

Offered(r, u, k) == k \in 1 .. r.made /\ (Entry(r, k) = 0 \/ u[k].signaling # "stable")
OffersHold(r, u, p, t) ==
  /\ p \in Seq(Nat) /\ \A i \in DOMAIN p : p[i] = 0 \/ Offered(r, u, p[i])
  /\ t \in [peer : Nat, sent : 0 .. 2] /\ (t # Rtc!Idle => Offered(r, u, t.peer))
ClosedHold(r, u, c) == \A k \in c : k \in 1 .. r.made /\ Entry(r, k) = 0 /\ u[k].connection = "closed"

RtcInv == /\ RegInv(RegNow, RtcBounds.gens) /\ made <= RtcBounds.allocs
          /\ PeersFine(st, made) /\ OffersHold(RegNow, st, jobs, firing) /\ ClosedHold(RegNow, st, due)

Changed(u, v, k, gone, s) == v = IF gone THEN u ELSE [u EXCEPT ![k] = s]
Follows(r, q, u, v) ==
  /\ q.made = r.made
  /\ \A k \in 1 .. r.made : /\ Entry(r, k) = 0 => Entry(q, k) = 0 /\ v[k] = u[k]
                            /\ u[k].signaling # "stable" => v[k].signaling # "stable"

LEMMA PeerChanged ==
  ASSUME NEW n \in Nat, NEW u, PeersFine(u, n), NEW k \in 1 .. n, NEW s \in PeerRec, PeerFine(s),
         u[k].signaling # "stable" => s.signaling # "stable", NEW gone \in BOOLEAN, NEW v, Changed(u, v, k, gone, s)
  PROVE  /\ PeersFine(v, n)
         /\ gone => v = u
         /\ \A j \in 1 .. n : /\ j # k => v[j] = u[j]
                              /\ u[j].signaling # "stable" => v[j].signaling # "stable"
<1>1. CASE gone
  BY <1>1 DEF Changed
<1>2. CASE ~gone
  <2>1. u \in Seq(PeerRec) /\ Len(u) = n /\ v = [u EXCEPT ![k] = s]
    BY <1>2 DEF Changed, PeersFine
  <2>2. v \in Seq(PeerRec) /\ Len(v) = n /\ \A j \in 1 .. n : v[j] = IF j = k THEN s ELSE u[j]
    BY <2>1, ExceptSeq
  <2>3. \A j \in 1 .. n : PeerFine(v[j])
    BY <2>2 DEF PeersFine
  <2>4. QED
    BY <1>2, <2>2, <2>3 DEF PeersFine
<1>3. QED
  BY <1>1, <1>2

LEMMA OffersFollow ==
  ASSUME NEW r, NEW q, NEW u, NEW v, Follows(r, q, u, v)
  PROVE  /\ \A k : Offered(r, u, k) => Offered(q, v, k)
         /\ \A p, t : OffersHold(r, u, p, t) => OffersHold(q, v, p, t)
         /\ \A c : ClosedHold(r, u, c) => ClosedHold(q, v, c)
<1>1. \A k : Offered(r, u, k) => Offered(q, v, k)
  BY DEF Offered, Follows
<1>2. \A p, t : OffersHold(r, u, p, t) => OffersHold(q, v, p, t)
  BY <1>1 DEF OffersHold
<1>3. \A c : ClosedHold(r, u, c) => ClosedHold(q, v, c)
  BY DEF ClosedHold, Follows
<1>4. QED
  BY <1>1, <1>2, <1>3

LEMMA RtcStart ==
  ASSUME Rtc!RtcInit
  PROVE  RtcInv
<1>1. /\ slots = <<>> /\ gens = <<>> /\ free = <<>> /\ live = 0 /\ made = 0 /\ ids = <<>>
      /\ st = <<>> /\ jobs = <<>> /\ firing = Rtc!Idle /\ due = {}
  BY DEF Rtc!RtcInit, Rtc!Init
<1>2. RegInv(RegNow, RtcBounds.gens)
  BY <1>1, RegistryStart
<1>3. made <= RtcBounds.allocs
  BY <1>1, RegistryConstants
<1>4. PeersFine(st, made)
  <2>1. st \in Seq(PeerRec) /\ Len(st) = 0
    BY <1>1, EmptySeq
  <2>2. QED
    BY <1>1, <2>1 DEF PeersFine
<1>5. OffersHold(RegNow, st, jobs, firing)
  <2>1. jobs \in Seq(Nat) /\ DOMAIN jobs = {}
    BY <1>1, EmptySeq
  <2>2. firing \in [peer : Nat, sent : 0 .. 2]
    BY <1>1 DEF Rtc!Idle
  <2>3. QED
    BY <1>1, <2>1, <2>2 DEF OffersHold
<1>6. ClosedHold(RegNow, st, due)
  BY <1>1 DEF ClosedHold
<1>7. QED
  BY <1>2, <1>3, <1>4, <1>5, <1>6 DEF RtcInv

RtcShape ==
  /\ made \in Nat /\ DOMAIN ids = 1 .. made /\ RegNow.made = made
  /\ RegTidy(RegNow) /\ Unwrapped(RegNow, RtcBounds.gens)
  /\ \A k \in 1 .. made : /\ k \in DOMAIN RegNow.ids /\ RegNow.ids[k] = ids[k]
                          /\ Rtc!Resolve(ids[k]) = Entry(RegNow, k) /\ Entry(RegNow, k) \in {0, k}
                          /\ Rtc!Gone(k) <=> Entry(RegNow, k) = 0
                          /\ k \in DOMAIN st /\ st[k] \in PeerRec /\ PeerFine(st[k])

LEMMA RtcBasics ==
  ASSUME RtcInv
  PROVE  RtcShape
<1>1. RegInv(RegNow, RtcBounds.gens) /\ RegTidy(RegNow) /\ RegBasics(RegNow)
  BY RegShape DEF RtcInv, RegInv
<1>2. RegNow.made = made /\ RegNow.ids = ids /\ made \in Nat /\ DOMAIN ids = 1 .. made
  <2>1. RegNow.made = made /\ RegNow.ids = ids
    BY DEF RegNow
  <2>2. QED
    BY <1>1, <2>1 DEF RegBasics
<1>3. Unwrapped(RegNow, RtcBounds.gens)
  <2>1. RegNow.made < RtcBounds.gens
    BY <1>2, RegistryConstants DEF RtcInv
  <2>2. QED
    BY <1>1, <2>1, FewUnwrapped, RegistryConstants
<1>4. ASSUME NEW k \in 1 .. made
      PROVE  /\ Rtc!Resolve(ids[k]) = Entry(RegNow, k) /\ Entry(RegNow, k) \in {0, k}
             /\ Rtc!Gone(k) <=> Entry(RegNow, k) = 0
             /\ k \in DOMAIN st /\ st[k] \in PeerRec /\ PeerFine(st[k])
  <2>1. Rtc!Resolve(ids[k]) = Entry(RegNow, k)
    BY <1>1, <1>2, RtcSteps DEF Entry
  <2>2. Entry(RegNow, k) \in {0, k}
    BY <1>1, <1>2, <1>3, EntryOwn
  <2>3. Rtc!Gone(k) <=> Entry(RegNow, k) = 0
    BY <2>1 DEF Rtc!Gone, Rtc!None
  <2>4. st \in Seq(PeerRec) /\ Len(st) = made /\ PeerFine(st[k])
    BY DEF RtcInv, PeersFine
  <2>5. k \in DOMAIN st /\ st[k] \in PeerRec
    BY <2>4, ElementOfSeq
  <2>6. QED
    BY <2>1, <2>2, <2>3, <2>4, <2>5
<1>5. QED
  BY <1>1, <1>2, <1>3, <1>4 DEF RtcShape

(* A step that changes one peer at most, and no entry.                     *)
LEMMA PeerEdit ==
  ASSUME RtcInv, UNCHANGED regVars, due' = due, NEW k \in 1 .. made, NEW s \in PeerRec, PeerFine(s),
         st[k].signaling # "stable" => s.signaling # "stable",
         Changed(st, st', k, Entry(RegNow, k) = 0, s)
  PROVE  /\ RegInv(RegNow, RtcBounds.gens)' /\ RegNow' = RegNow /\ made' <= RtcBounds.allocs
         /\ PeersFine(st', made') /\ ClosedHold(RegNow', st', due')
         /\ Follows(RegNow, RegNow', st, st') /\ (Entry(RegNow, k) # 0 => st'[k] = s)
<1>1. RtcShape
  BY RtcBasics
<1>2. RegNow' = RegNow /\ made' = made
  BY DEF regVars, RegNow
<1>3. RegInv(RegNow, RtcBounds.gens)'
  BY RegistryStays DEF RtcInv
<1>4. PeersFine(st, made) /\ made \in Nat /\ (Entry(RegNow, k) = 0) \in BOOLEAN
  BY <1>1 DEF RtcInv, RtcShape
<1>5. /\ PeersFine(st', made) /\ (Entry(RegNow, k) = 0 => st' = st)
      /\ \A j \in 1 .. made : /\ j # k => st'[j] = st[j]
                              /\ st[j].signaling # "stable" => st'[j].signaling # "stable"
  <2> DEFINE gone == Entry(RegNow, k) = 0
  <2>1. gone \in BOOLEAN /\ Changed(st, st', k, gone, s)
    OBVIOUS
  <2> HIDE DEF gone
  <2>2. /\ PeersFine(st', made) /\ (gone => st' = st)
        /\ \A j \in 1 .. made : /\ j # k => st'[j] = st[j]
                                /\ st[j].signaling # "stable" => st'[j].signaling # "stable"
    BY <1>4, <2>1, PeerChanged
  <2>3. QED
    BY <2>2 DEF gone
<1>6. Follows(RegNow, RegNow', st, st')
  BY <1>1, <1>2, <1>5 DEF Follows, RtcShape
<1>7. ClosedHold(RegNow', st', due')
  BY <1>6, OffersFollow DEF RtcInv
<1>8. Entry(RegNow, k) # 0 => st'[k] = s
  BY <1>1 DEF Changed, RtcShape
<1>9. QED
  BY <1>2, <1>3, <1>5, <1>6, <1>7, <1>8 DEF RtcInv

LEMMA RtcMoves ==
  ASSUME RtcInv, Rtc!RtcNext, opens' = opens
  PROVE  RtcInv'
<1>1. RtcShape
  BY RtcBasics
<1>2. /\ \A k \in 1 .. made : st[k] \in PeerRec /\ PeerFine(st[k])
      /\ DOMAIN ids = 1 .. made /\ made \in Nat
      /\ OffersHold(RegNow, st, jobs, firing) /\ RegNow.made = made
  BY <1>1 DEF RtcShape, RtcInv
<1>3. ASSUME NEW k \in 1 .. made, NEW on \in BOOLEAN, Rtc!SetHandler(k, on) PROVE RtcInv'
  <2> DEFINE s == [st[k] EXCEPT !.handler = on]
  <2>0. k \in 1 .. made
    OBVIOUS
  <2>1. s \in PeerRec /\ PeerFine(s) /\ (st[k].signaling # "stable" => s.signaling # "stable")
    BY <1>2, <2>0 DEF PeerRec, PeerFine
  <2>2. Changed(st, st', k, Entry(RegNow, k) = 0, s)
    BY <1>1, <1>3, <2>0 DEF RtcShape, Rtc!SetHandler, Rtc!With, Changed
  <2>3. UNCHANGED regVars /\ due' = due
    BY <1>3 DEF Rtc!SetHandler, Rtc!vars, regVars
  <2> HIDE DEF s
  <2>4. /\ RegInv(RegNow, RtcBounds.gens)' /\ RegNow' = RegNow /\ made' <= RtcBounds.allocs
        /\ PeersFine(st', made') /\ ClosedHold(RegNow', st', due')
        /\ Follows(RegNow, RegNow', st, st') /\ (Entry(RegNow, k) # 0 => st'[k] = s)
    BY <2>0, <2>1, <2>2, <2>3, PeerEdit
  <2>5. OffersHold(RegNow', st', jobs, firing)
    BY <1>2, <2>4, OffersFollow
  <2>6. OffersHold(RegNow', st', jobs', firing')
    BY <1>3, <2>5 DEF Rtc!SetHandler
  <2>7. QED
    BY <2>4, <2>6 DEF RtcInv
<1>4. ASSUME NEW k \in 1 .. made, Rtc!CreateOffer(k) PROVE RtcInv'
  <2> DEFINE s == [st[k] EXCEPT !.sdp = "offer", !.signaling = "have-local-offer"]
  <2>0. k \in 1 .. made
    OBVIOUS
  <2>1. s \in PeerRec /\ PeerFine(s) /\ (st[k].signaling # "stable" => s.signaling # "stable")
    BY <1>2, <2>0 DEF PeerRec, PeerFine
  <2>2. Changed(st, st', k, Entry(RegNow, k) = 0, s)
    BY <1>1, <1>4, <2>0 DEF RtcShape, Rtc!CreateOffer, Rtc!With, Changed
  <2>3. UNCHANGED regVars /\ due' = due
    BY <1>4 DEF Rtc!CreateOffer, Rtc!vars, regVars
  <2> HIDE DEF s
  <2>4. /\ RegInv(RegNow, RtcBounds.gens)' /\ RegNow' = RegNow /\ made' <= RtcBounds.allocs
        /\ PeersFine(st', made') /\ ClosedHold(RegNow', st', due')
        /\ Follows(RegNow, RegNow', st, st') /\ (Entry(RegNow, k) # 0 => st'[k] = s)
    BY <2>0, <2>1, <2>2, <2>3, PeerEdit
  <2>5. OffersHold(RegNow', st', jobs, firing)
    BY <1>2, <2>4, OffersFollow
  <2>6. OffersHold(RegNow', st', jobs', firing')
    <3>0. firing' = firing /\ (jobs' = Append(jobs, k) \/ jobs' = jobs)
      BY <1>4 DEF Rtc!CreateOffer
    <3>1. CASE jobs' = jobs
      BY <2>5, <3>0, <3>1
    <3> SUFFICES ASSUME jobs' = Append(jobs, k) PROVE OffersHold(RegNow', st', jobs', firing')
      BY <3>0, <3>1
    <3>2. Offered(RegNow', st', k)
      <4>1. RegNow'.made = made /\ (st[k].signaling # "stable" => st'[k].signaling # "stable")
        BY <1>2, <2>4 DEF Follows
      <4>2. Entry(RegNow, k) # 0 => st'[k].signaling # "stable"
        <5>1. s.signaling = "have-local-offer"
          BY <1>2 DEF s, PeerRec
        <5>2. QED
          BY <2>4, <5>1
      <4>3. QED
        BY <2>4, <4>1, <4>2 DEF Offered
    <3>3. jobs' \in Seq(Nat) /\ \A i \in DOMAIN jobs' : jobs'[i] = 0 \/ Offered(RegNow', st', jobs'[i])
      <4>1. jobs \in Seq(Nat) /\ \A i \in DOMAIN jobs : jobs[i] = 0 \/ Offered(RegNow', st', jobs[i])
        BY <2>5 DEF OffersHold
      <4>2. /\ Append(jobs, k) \in Seq(Nat) /\ Len(Append(jobs, k)) = Len(jobs) + 1
            /\ \A i \in 1 .. Len(jobs) : Append(jobs, k)[i] = jobs[i]
            /\ Append(jobs, k)[Len(jobs) + 1] = k
        BY <1>2, <4>1, AppendProperties
      <4>3. \A i \in DOMAIN Append(jobs, k) : i \in DOMAIN jobs \/ i = Len(jobs) + 1
        BY <4>1, <4>2
      <4>4. QED
        BY <3>2, <4>1, <4>2, <4>3
    <3>4. QED
      BY <2>5, <3>0, <3>3 DEF OffersHold
  <2>7. QED
    BY <2>4, <2>6 DEF RtcInv
<1>5. ASSUME NEW k \in 1 .. made, Rtc!CreateAnswer(k) PROVE RtcInv'
  <2> DEFINE s == [st[k] EXCEPT !.sdp = "answer"]
  <2>0. k \in 1 .. made
    OBVIOUS
  <2>1. s \in PeerRec /\ PeerFine(s) /\ (st[k].signaling # "stable" => s.signaling # "stable")
    BY <1>2, <2>0 DEF PeerRec, PeerFine
  <2>2. Changed(st, st', k, Entry(RegNow, k) = 0, s)
    BY <1>1, <1>5, <2>0 DEF RtcShape, Rtc!CreateAnswer, Rtc!With, Changed
  <2>3. UNCHANGED regVars /\ due' = due
    BY <1>5 DEF Rtc!CreateAnswer, Rtc!vars, regVars
  <2> HIDE DEF s
  <2>4. /\ RegInv(RegNow, RtcBounds.gens)' /\ RegNow' = RegNow /\ made' <= RtcBounds.allocs
        /\ PeersFine(st', made') /\ ClosedHold(RegNow', st', due')
        /\ Follows(RegNow, RegNow', st, st') /\ (Entry(RegNow, k) # 0 => st'[k] = s)
    BY <2>0, <2>1, <2>2, <2>3, PeerEdit
  <2>5. OffersHold(RegNow', st', jobs, firing)
    BY <1>2, <2>4, OffersFollow
  <2>6. OffersHold(RegNow', st', jobs', firing')
    BY <1>5, <2>5 DEF Rtc!CreateAnswer
  <2>7. QED
    BY <2>4, <2>6 DEF RtcInv
<1>6. ASSUME NEW k \in 1 .. made, Rtc!SetLocalDescription(k) PROVE RtcInv'
  <2> DEFINE s == [st[k] EXCEPT !.connection = "connecting", !.ice = "checking"]
  <2>0. k \in 1 .. made
    OBVIOUS
  <2>1. s \in PeerRec /\ PeerFine(s) /\ (st[k].signaling # "stable" => s.signaling # "stable")
    BY <1>2, <2>0 DEF PeerRec, PeerFine
  <2>2. Changed(st, st', k, Entry(RegNow, k) = 0, s)
    BY <1>1, <1>6, <2>0 DEF RtcShape, Rtc!SetLocalDescription, Rtc!With, Changed
  <2>3. UNCHANGED regVars /\ due' = due
    BY <1>6 DEF Rtc!SetLocalDescription, Rtc!vars, regVars
  <2> HIDE DEF s
  <2>4. /\ RegInv(RegNow, RtcBounds.gens)' /\ RegNow' = RegNow /\ made' <= RtcBounds.allocs
        /\ PeersFine(st', made') /\ ClosedHold(RegNow', st', due')
        /\ Follows(RegNow, RegNow', st, st') /\ (Entry(RegNow, k) # 0 => st'[k] = s)
    BY <2>0, <2>1, <2>2, <2>3, PeerEdit
  <2>5. OffersHold(RegNow', st', jobs, firing)
    BY <1>2, <2>4, OffersFollow
  <2>6. OffersHold(RegNow', st', jobs', firing')
    BY <1>6, <2>5 DEF Rtc!SetLocalDescription
  <2>7. QED
    BY <2>4, <2>6 DEF RtcInv
<1>7. ASSUME Rtc!Candidate PROVE RtcInv'
  <2> DEFINE s == IF Entry(RegNow, firing.peer) = 0 THEN st[firing.peer]
                  ELSE [st[firing.peer] EXCEPT !.heard = TRUE]
  <2>0. firing.peer \in 1 .. made
    BY <1>2, <1>7 DEF OffersHold, Offered, Rtc!Candidate
  <2>1. s \in PeerRec /\ PeerFine(s) /\ (st[firing.peer].signaling # "stable" => s.signaling # "stable")
    <3>1. CASE Entry(RegNow, firing.peer) = 0
      BY <1>2, <2>0, <3>1
    <3>2. CASE Entry(RegNow, firing.peer) # 0
      <4>1. st[firing.peer] \in PeerRec /\ PeerFine(st[firing.peer])
        BY <1>2, <2>0
      <4>2. st[firing.peer].signaling # "stable"
        BY <1>2, <1>7, <3>2 DEF OffersHold, Offered, Rtc!Candidate
      <4>3. s = [st[firing.peer] EXCEPT !.heard = TRUE]
        BY <3>2
      <4> HIDE DEF s
      <4>4. QED
        BY <4>1, <4>2, <4>3 DEF PeerRec, PeerFine
    <3>3. QED
      BY <3>1, <3>2
  <2>2. Changed(st, st', firing.peer, Entry(RegNow, firing.peer) = 0, s)
    BY <1>1, <1>7, <2>0 DEF RtcShape, Rtc!Candidate, Rtc!With, Changed
  <2>3. UNCHANGED regVars /\ due' = due
    BY <1>7 DEF Rtc!Candidate, Rtc!vars, regVars
  <2> HIDE DEF s
  <2>4. /\ RegInv(RegNow, RtcBounds.gens)' /\ RegNow' = RegNow /\ made' <= RtcBounds.allocs
        /\ PeersFine(st', made') /\ ClosedHold(RegNow', st', due')
        /\ Follows(RegNow, RegNow', st, st') /\ (Entry(RegNow, firing.peer) # 0 => st'[firing.peer] = s)
    BY <2>0, <2>1, <2>2, <2>3, PeerEdit
  <2>5. OffersHold(RegNow', st', jobs, firing)
    BY <1>2, <2>4, OffersFollow
  <2>6. OffersHold(RegNow', st', jobs', firing')
    <3>1. firing' = [firing EXCEPT !.sent = @ + 1] /\ firing.sent < 2 /\ jobs' = jobs /\ firing # Rtc!Idle
      BY <1>7 DEF Rtc!Candidate
    <3>2. firing \in [peer : Nat, sent : 0 .. 2]
      BY <2>5 DEF OffersHold
    <3>3. firing' \in [peer : Nat, sent : 0 .. 2] /\ firing'.peer = firing.peer
      BY <3>1, <3>2
    <3>4. QED
      BY <2>5, <3>1, <3>3 DEF OffersHold
  <2>7. QED
    BY <2>4, <2>6 DEF RtcInv
<1>8. ASSUME Rtc!Connected PROVE RtcInv'
  <2> DEFINE s == IF Entry(RegNow, firing.peer) = 0 THEN st[firing.peer]
                  ELSE [st[firing.peer] EXCEPT !.ice = "connected", !.connection = "connected"]
  <2>0. firing.peer \in 1 .. made
    BY <1>2, <1>8 DEF OffersHold, Offered, Rtc!Connected
  <2>1. s \in PeerRec /\ PeerFine(s) /\ (st[firing.peer].signaling # "stable" => s.signaling # "stable")
    <3>1. CASE Entry(RegNow, firing.peer) = 0
      BY <1>2, <2>0, <3>1
    <3>2. CASE Entry(RegNow, firing.peer) # 0
      <4>1. st[firing.peer] \in PeerRec /\ PeerFine(st[firing.peer])
        BY <1>2, <2>0
      <4>2. st[firing.peer].signaling # "stable"
        BY <1>2, <1>8, <3>2 DEF OffersHold, Offered, Rtc!Connected
      <4>3. s = [st[firing.peer] EXCEPT !.ice = "connected", !.connection = "connected"]
        BY <3>2
      <4> HIDE DEF s
      <4>4. QED
        BY <4>1, <4>2, <4>3 DEF PeerRec, PeerFine
    <3>3. QED
      BY <3>1, <3>2
  <2>2. Changed(st, st', firing.peer, Entry(RegNow, firing.peer) = 0, s)
    BY <1>1, <1>8, <2>0 DEF RtcShape, Rtc!Connected, Rtc!With, Changed
  <2>3. UNCHANGED regVars /\ due' = due
    BY <1>8 DEF Rtc!Connected, Rtc!vars, regVars
  <2> HIDE DEF s
  <2>4. /\ RegInv(RegNow, RtcBounds.gens)' /\ RegNow' = RegNow /\ made' <= RtcBounds.allocs
        /\ PeersFine(st', made') /\ ClosedHold(RegNow', st', due')
        /\ Follows(RegNow, RegNow', st, st') /\ (Entry(RegNow, firing.peer) # 0 => st'[firing.peer] = s)
    BY <2>0, <2>1, <2>2, <2>3, PeerEdit
  <2>5. OffersHold(RegNow', st', jobs, firing)
    BY <1>2, <2>4, OffersFollow
  <2>6. OffersHold(RegNow', st', jobs', firing')
    <3>1. firing' = Rtc!Idle /\ jobs' = jobs /\ Rtc!Idle \in [peer : Nat, sent : 0 .. 2]
      BY <1>8 DEF Rtc!Connected, Rtc!Idle
    <3>2. QED
      BY <2>5, <3>1 DEF OffersHold
  <2>7. QED
    BY <2>4, <2>6 DEF RtcInv
<1>9. ASSUME NEW k \in 1 .. made, Rtc!Close(k) PROVE RtcInv'
  <2>1. /\ DropsId(RegNow, RegNow', ids[k]) /\ k \in DOMAIN RegNow.ids /\ RegNow.ids[k] = ids[k]
        /\ RegTidy(RegNow) /\ Unwrapped(RegNow, RtcBounds.gens)
    BY <1>1, <1>9, RtcSteps DEF RtcShape, Rtc!Close
  <2>2. RegInv(RegNow', RtcBounds.gens)
    BY <2>1, DropKeeps DEF RtcInv
  <2>3. /\ RegNow'.made = made /\ Entry(RegNow', k) = 0 /\ Entry(RegNow, k) = k
        /\ \A j \in 1 .. made : j # k => Entry(RegNow', j) = Entry(RegNow, j)
    <3>1. /\ RegNow'.made = RegNow.made /\ RegNow'.ids = RegNow.ids /\ Entry(RegNow', k) = 0 /\ Entry(RegNow, k) = k
          /\ \A j \in DOMAIN RegNow.ids : j # k => Entry(RegNow', j) = Entry(RegNow, j)
      BY <2>1, DroppedEntries DEF RtcInv
    <3>2. QED
      BY <1>1, <3>1 DEF RtcShape
  <2>4. made' = made
    BY <2>3 DEF RegNow
  <2> DEFINE s == [st[k] EXCEPT !.connection = "closed", !.ice = "closed", !.signaling = "closed"]
  <2>5. s \in PeerRec /\ PeerFine(s) /\ s.signaling # "stable" /\ s.connection = "closed"
    BY <1>2 DEF PeerRec, PeerFine
  <2>6. st' = [st EXCEPT ![k] = s]
    <3>1. k # 0
      BY <1>2
    <3>2. ~Rtc!Gone(k) /\ Rtc!Resolve(ids[k]) = k
      BY <1>1, <2>3, <3>1 DEF RtcShape
    <3>3. QED
      BY <1>9, <3>2 DEF Rtc!Close, Rtc!With
  <2> HIDE DEF s
  <2>7. /\ PeersFine(st', made)
        /\ \A j \in 1 .. made : /\ j # k => st'[j] = st[j]
                                /\ st[j].signaling # "stable" => st'[j].signaling # "stable"
    <3> DEFINE gone == FALSE
    <3>1. PeersFine(st, made)
      BY DEF RtcInv
    <3>2. gone \in BOOLEAN /\ Changed(st, st', k, gone, s)
      BY <2>6 DEF Changed
    <3> HIDE DEF gone
    <3>3. QED
      BY <1>2, <2>5, <3>1, <3>2, PeerChanged
  <2>8. st'[k] = s
    <3>1. k \in DOMAIN st
      BY <1>1 DEF RtcShape
    <3>2. QED
      BY <2>6, <3>1
  <2>9. Follows(RegNow, RegNow', st, st')
    BY <1>2, <2>3, <2>7 DEF Follows
  <2>10. jobs' = jobs /\ firing' = firing /\ due' = due \cup {k}
    BY <1>9 DEF Rtc!Close
  <2>11. OffersHold(RegNow', st', jobs', firing')
    BY <1>2, <2>9, <2>10, OffersFollow
  <2>12. ClosedHold(RegNow', st', due')
    <3>1. ClosedHold(RegNow', st', due)
      BY <2>9, OffersFollow DEF RtcInv
    <3>2. QED
      BY <2>3, <2>5, <2>8, <2>10, <3>1 DEF ClosedHold
  <2>13. QED
    BY <2>2, <2>4, <2>7, <2>11, <2>12 DEF RtcInv
<1>10. ASSUME Rtc!New PROVE RtcInv'
  <2>1. RegTidy(RegNow) /\ RtcBounds.gens \in Nat /\ RtcBounds.gens > 1 /\ RegInv(RegNow, RtcBounds.gens)
    BY <1>1, RegistryConstants DEF RtcShape, RtcInv
  <2>2. Deals(RegNow, RegNow', RtcBounds.gens) /\ made < RtcBounds.allocs
    BY <1>10, <2>1, RtcSteps DEF Rtc!New
  <2>3. RegInv(RegNow', RtcBounds.gens)
    BY <2>1, <2>2, DealKeeps
  <2>4. RegNow'.made = made + 1 /\ made' = made + 1 /\ made' <= RtcBounds.allocs
    <3>1. RegNow'.made = RegNow.made + 1
      BY <2>2 DEF Deals, Numbers
    <3>2. made' = RegNow'.made
      BY DEF RegNow
    <3>3. QED
      BY <1>2, <2>2, <3>1, <3>2, RegistryConstants
  <2>5. Unwrapped(RegNow', RtcBounds.gens)
    <3>1. RegNow'.made < RtcBounds.gens /\ RegTidy(RegNow')
      BY <1>2, <2>3, <2>4, RegistryConstants DEF RegInv
    <3>2. QED
      BY <2>1, <3>1, FewUnwrapped
  <2>6. \A k \in 1 .. made : Entry(RegNow', k) = Entry(RegNow, k)
    <3>1. \A k \in DOMAIN RegNow'.ids : k # RegNow.made + 1 => Entry(RegNow', k) = Entry(RegNow, k)
      BY <2>1, <2>2, <2>3, <2>5, DealtEntries
    <3>2. DOMAIN RegNow'.ids = 1 .. made + 1
      <4>1. RegTidy(RegNow')
        BY <2>3 DEF RegInv
      <4>2. QED
        BY <2>4, <4>1, RegShape DEF RegBasics
    <3>3. \A k \in 1 .. made : k \in 1 .. made + 1 /\ k # made + 1
      BY <1>2
    <3>4. QED
      BY <1>2, <3>1, <3>2, <3>3
  <2>7. st' = Append(st, Rtc!Fresh) /\ jobs' = jobs /\ firing' = firing /\ due' = due
    BY <1>10 DEF Rtc!New
  <2>8. Rtc!Fresh \in PeerRec /\ PeerFine(Rtc!Fresh)
    BY DEF Rtc!Fresh, PeerRec, PeerFine
  <2>9. /\ st' \in Seq(PeerRec) /\ Len(st') = made + 1 /\ st'[made + 1] = Rtc!Fresh
        /\ \A k \in 1 .. made : st'[k] = st[k]
    <3>1. st \in Seq(PeerRec) /\ Len(st) = made
      BY DEF RtcInv, PeersFine
    <3>2. QED
      BY <2>7, <2>8, <3>1, AppendProperties
  <2>10. PeersFine(st', made')
    <3>1. \A k \in 1 .. made + 1 : k \in 1 .. made \/ k = made + 1
      BY <1>2
    <3>2. \A k \in 1 .. made + 1 : PeerFine(st'[k])
      BY <1>2, <2>8, <2>9, <3>1
    <3>3. QED
      BY <2>4, <2>9, <3>2 DEF PeersFine
  <2>11. \A k : Offered(RegNow, st, k) => Offered(RegNow', st', k)
    <3>1. \A k \in 1 .. made : k \in 1 .. made + 1
      BY <1>2
    <3>2. QED
      BY <1>2, <2>4, <2>6, <2>9, <3>1 DEF Offered
  <2>12. OffersHold(RegNow', st', jobs', firing')
    BY <1>2, <2>7, <2>11 DEF OffersHold
  <2>13. ClosedHold(RegNow', st', due')
    <3>1. \A k \in 1 .. made : k \in 1 .. made + 1
      BY <1>2
    <3>2. ClosedHold(RegNow, st, due)
      BY DEF RtcInv
    <3>3. QED
      BY <1>2, <2>4, <2>6, <2>7, <2>9, <3>1, <3>2 DEF ClosedHold
  <2>14. QED
    BY <2>3, <2>4, <2>10, <2>12, <2>13 DEF RtcInv
<1>11. ASSUME Rtc!StartTrickle PROVE RtcInv'
  <2>1. UNCHANGED regVars /\ st' = st /\ due' = due /\ jobs # <<>> /\ jobs' = Tail(jobs)
    BY <1>11 DEF Rtc!StartTrickle, Rtc!vars, regVars
  <2>2. RegNow' = RegNow /\ RegInv(RegNow, RtcBounds.gens)' /\ made' = made
    BY <2>1, RegistryStays DEF RegNow, regVars, RtcInv
  <2>3. jobs \in Seq(Nat) /\ 1 \in DOMAIN jobs /\ Head(jobs) = jobs[1]
    <3>1. jobs \in Seq(Nat)
      BY <1>2 DEF OffersHold
    <3>2. QED
      BY <2>1, <3>1, EmptySeq
  <2>4. Head(jobs) = 0 \/ Offered(RegNow, st, Head(jobs))
    BY <1>2, <2>3 DEF OffersHold
  <2>5. firing' = Rtc!Idle \/ (Head(jobs) # 0 /\ firing' = [peer |-> Head(jobs), sent |-> 0])
    BY <1>11 DEF Rtc!StartTrickle, Rtc!None
  <2>6. firing' \in [peer : Nat, sent : 0 .. 2] /\ (firing' # Rtc!Idle => Offered(RegNow, st, firing'.peer))
    <3>1. Head(jobs) \in Nat
      BY <2>3, ElementOfSeq
    <3>2. QED
      BY <2>4, <2>5, <3>1 DEF Rtc!Idle
  <2>7. jobs' \in Seq(Nat) /\ \A i \in DOMAIN jobs' : jobs'[i] = 0 \/ Offered(RegNow, st, jobs'[i])
    <3>1. jobs' \in Seq(Nat) /\ Len(jobs') = Len(jobs) - 1 /\ \A i \in 1 .. Len(jobs') : jobs'[i] = jobs[i + 1]
      BY <2>1, <2>3, HeadTailProperties
    <3>2. \A i \in DOMAIN jobs' : i + 1 \in DOMAIN jobs
      BY <2>3, <3>1
    <3>3. QED
      <4>1. \A i \in DOMAIN jobs : jobs[i] = 0 \/ Offered(RegNow, st, jobs[i])
        BY <1>2 DEF OffersHold
      <4>2. DOMAIN jobs' = 1 .. Len(jobs')
        BY <3>1
      <4>3. QED
        BY <3>1, <3>2, <4>1, <4>2
  <2>8. OffersHold(RegNow', st', jobs', firing')
    BY <2>1, <2>2, <2>6, <2>7 DEF OffersHold
  <2>9. QED
    BY <2>1, <2>2, <2>8 DEF RtcInv
<1>12. ASSUME Rtc!ClearTimers \/ \E n \in DOMAIN jobs : Rtc!ClearTimer(n) PROVE RtcInv'
  <2>1. UNCHANGED regVars /\ st' = st /\ firing' = firing /\ due' = due
    BY <1>12 DEF Rtc!ClearTimers, Rtc!ClearTimer, Rtc!vars, regVars
  <2>2. RegNow' = RegNow /\ RegInv(RegNow, RtcBounds.gens)' /\ made' = made
    BY <2>1, RegistryStays DEF RegNow, regVars, RtcInv
  <2>3. jobs \in Seq(Nat) /\ \A i \in DOMAIN jobs : jobs[i] = 0 \/ Offered(RegNow, st, jobs[i])
    BY <1>2 DEF OffersHold
  <2>4. jobs' \in Seq(Nat) /\ \A i \in DOMAIN jobs' : jobs'[i] = 0 \/ Offered(RegNow, st, jobs'[i])
    <3>1. CASE Rtc!ClearTimers
      <4>1. jobs' = <<>> /\ <<>> \in Seq(Nat) /\ DOMAIN (<<>>) = {}
        BY <3>1, EmptySeq DEF Rtc!ClearTimers
      <4>2. QED
        BY <4>1
    <3>2. ASSUME NEW n \in DOMAIN jobs, Rtc!ClearTimer(n)
          PROVE  jobs' \in Seq(Nat) /\ \A i \in DOMAIN jobs' : jobs'[i] = 0 \/ Offered(RegNow, st, jobs'[i])
      <4>1. jobs' = [jobs EXCEPT ![n] = 0]
        BY <3>2 DEF Rtc!ClearTimer, Rtc!None
      <4>2. QED
        BY <2>3, <3>2, <4>1, ExceptSeq
    <3>3. QED
      BY <1>12, <3>1, <3>2
  <2>5. OffersHold(RegNow', st', jobs', firing')
    BY <1>2, <2>1, <2>2, <2>4 DEF OffersHold
  <2>6. QED
    BY <2>1, <2>2, <2>5 DEF RtcInv
<1>13. QED
  BY <1>2, <1>3, <1>4, <1>5, <1>6, <1>7, <1>8, <1>9, <1>10, <1>11, <1>12 DEF Rtc!RtcNext

LEMMA RtcSays ==
  ASSUME RtcInv
  PROVE  Rtc!PeersApart
<1>1. ClosedHold(RegNow, st, due) /\ st \in Seq(PeerRec) /\ Len(st) = made /\ \A k \in 1 .. made : PeerFine(st[k])
  BY DEF RtcInv, PeersFine
<1>2. QED
  BY <1>1 DEF ClosedHold, PeerFine, Rtc!PeersApart

-----------------------------------------------------------------------------
(* Requests: of each that is not gone, what is kept of its firings, or is  *)
(* fired, is what it is still to see end, and a reply is of the request    *)
(* that was opened last.                                                            *)

XhrRec == [ready : Nat, sent : BOOLEAN, aborted : BOOLEAN, completed : BOOLEAN, url : Nat, of : Nat,
           reply : {"none", "ok", "bad"}]
XhrFine(s) ==
  /\ s.completed => s.reply # "none" /\ s.of # 0 /\ s.url = 0
  /\ s.reply # "none" => s.sent /\ ~s.aborted
XhrsFine(u, n) == u \in Seq(XhrRec) /\ Len(u) = n /\ \A k \in 1 .. n : XhrFine(u[k])
AbortsHold(r, u) == \A k \in 1 .. r.made : Entry(r, k) # 0 /\ u[k].aborted => u[k].sent

Firings == {"completion", "failure", "abort"}
JobRec == [xhr : Nat, what : Firings \cup {"cleared"}]
EventNames == {"readystatechange", "load", "error", "abort", "loadend"}
Kept(j, k) == j.xhr = k /\ j.what # "cleared"
JobsOf(p, k) == {i \in DOMAIN p : Kept(p[i], k)}
Running(f, k) == IF f.xhr = k THEN 1 ELSE 0
EndsOnce(e) == /\ e \in Seq(EventNames) /\ Len(e) > 0
               /\ \A i \in 1 .. Len(e) : e[i] = "loadend" <=> i = Len(e)
Deferred(n, p, f) ==
  /\ p \in Seq(JobRec) /\ \A i \in DOMAIN p : p[i].xhr \in 1 .. n
  /\ \/ f = Xhr!Idle
     \/ f.xhr \in 1 .. n /\ f = [xhr |-> f.xhr, events |-> f.events] /\ EndsOnce(f.events)
Waited(p, f, k) == Cardinality(JobsOf(p, k)) + Running(f, k)
DueHolds(r, d, p, f) ==
  /\ d \in Seq(Nat) /\ Len(d) = r.made
  /\ \A k \in 1 .. r.made : Entry(r, k) # 0 => d[k] = Waited(p, f, k)

XhrInv == /\ RegInv(RegNow, XhrBounds.gens) /\ made <= XhrBounds.allocs /\ opens \in Nat
          /\ XhrsFine(st, made) /\ AbortsHold(RegNow, st)
          /\ Deferred(made, jobs, firing) /\ DueHolds(RegNow, due, jobs, firing)

LEMMA JobsFinite ==
  ASSUME NEW p \in Seq(JobRec), NEW k
  PROVE  IsFiniteSet(JobsOf(p, k)) /\ Cardinality(JobsOf(p, k)) \in Nat
<1>1. Len(p) \in Nat /\ DOMAIN p = 1 .. Len(p)
  BY LenProperties
<1>2. IsFiniteSet(1 .. Len(p))
  BY <1>1, FirstNumbers
<1>3. JobsOf(p, k) \in SUBSET (1 .. Len(p))
  BY <1>1 DEF JobsOf
<1>4. QED
  BY <1>2, <1>3, FS_Subset, FS_CardinalityType

LEMMA JobDeferred ==
  ASSUME NEW p \in Seq(JobRec), NEW j \in JobRec, NEW k
  PROVE  Cardinality(JobsOf(Append(p, j), k)) = Cardinality(JobsOf(p, k)) + (IF Kept(j, k) THEN 1 ELSE 0)
<1>1. /\ Len(p) \in Nat /\ DOMAIN p = 1 .. Len(p) /\ DOMAIN Append(p, j) = 1 .. Len(p) + 1
      /\ \A i \in 1 .. Len(p) : Append(p, j)[i] = p[i]
      /\ Append(p, j)[Len(p) + 1] = j
  BY AppendProperties, LenProperties
<1>2. \A z \in Nat : 1 .. z + 1 = (1 .. z) \cup {z + 1} /\ z + 1 \notin 1 .. z
  OBVIOUS
<1>3. DOMAIN Append(p, j) = DOMAIN p \cup {Len(p) + 1} /\ Len(p) + 1 \notin DOMAIN p
  BY <1>1, <1>2
<1>4. JobsOf(Append(p, j), k) = JobsOf(p, k) \cup (IF Kept(j, k) THEN {Len(p) + 1} ELSE {})
  BY <1>1, <1>3 DEF JobsOf
<1>5. IsFiniteSet(JobsOf(p, k)) /\ Len(p) + 1 \notin JobsOf(p, k) /\ Cardinality(JobsOf(p, k)) \in Nat
  BY <1>3, JobsFinite DEF JobsOf
<1>6. CASE Kept(j, k)
  BY <1>4, <1>5, <1>6, FS_AddElement
<1>7. CASE ~Kept(j, k)
  BY <1>4, <1>5, <1>7
<1>8. QED
  BY <1>6, <1>7

(* The first job leaves the queue, the others move up.                     *)
LEMMA JobTaken ==
  ASSUME NEW p \in Seq(JobRec), p # <<>>, NEW k
  PROVE  Cardinality(JobsOf(p, k)) = Cardinality(JobsOf(Tail(p), k)) + (IF Kept(Head(p), k) THEN 1 ELSE 0)
<1> DEFINE S == JobsOf(Tail(p), k)
           T == JobsOf(p, k) \ {1}
           F == [i \in S |-> i + 1]
<1>1. /\ Tail(p) \in Seq(JobRec) /\ Len(p) \in Nat /\ Len(p) >= 1 /\ Len(Tail(p)) = Len(p) - 1
      /\ DOMAIN p = 1 .. Len(p) /\ DOMAIN Tail(p) = 1 .. Len(p) - 1
      /\ \A i \in 1 .. Len(p) - 1 : Tail(p)[i] = p[i + 1]
      /\ Head(p) = p[1]
  BY HeadTailProperties, EmptySeq, LenProperties
<1>2. S = {i \in 1 .. Len(p) - 1 : Kept(p[i + 1], k)}
  BY <1>1 DEF JobsOf
<1>3. T = {i \in 2 .. Len(p) : Kept(p[i], k)}
  BY <1>1 DEF JobsOf
<1>4. IsFiniteSet(S)
  BY <1>1, JobsFinite
<1>5. F \in [S -> T]
  BY <1>1, <1>2, <1>3
<1>6. \A a, b \in S : F[a] = F[b] => a = b
  BY <1>1, <1>2
<1>7. ASSUME NEW t \in T
      PROVE  \E i \in S : F[i] = t
  <2>1. t - 1 \in S
    BY <1>1, <1>2, <1>3
  <2>2. F[t - 1] = t
    BY <1>1, <1>3, <2>1
  <2>3. QED
    BY <2>1, <2>2
<1> HIDE DEF S, T, F
<1>8. F \in Bijection(S, T)
  BY <1>5, <1>6, <1>7 DEF Bijection, Injection, Surjection, IsInjective
<1>9. IsFiniteSet(T) /\ Cardinality(T) = Cardinality(S)
  BY <1>4, <1>8, FS_Bijection DEF ExistsBijection
<1>10. JobsOf(p, k) = T \cup (IF Kept(Head(p), k) THEN {1} ELSE {})
  BY <1>1 DEF T, JobsOf
<1>11. Cardinality(S) \in Nat /\ 1 \notin T
  BY <1>4, FS_CardinalityType DEF T
<1>12. CASE Kept(Head(p), k)
  BY <1>9, <1>10, <1>11, <1>12, FS_AddElement DEF S
<1>13. CASE ~Kept(Head(p), k)
  BY <1>9, <1>10, <1>11, <1>13 DEF S
<1>14. QED
  BY <1>12, <1>13

LEMMA XhrSet ==
  ASSUME NEW n \in Nat, NEW u, XhrsFine(u, n), NEW k \in 1 .. n, NEW s \in XhrRec, XhrFine(s)
  PROVE  /\ XhrsFine([u EXCEPT ![k] = s], n)
         /\ \A j \in 1 .. n : [u EXCEPT ![k] = s][j] = IF j = k THEN s ELSE u[j]
<1>1. u \in Seq(XhrRec) /\ Len(u) = n
  BY DEF XhrsFine
<1> DEFINE v == [u EXCEPT ![k] = s]
<1>2. v \in Seq(XhrRec) /\ Len(v) = n /\ \A j \in 1 .. n : v[j] = IF j = k THEN s ELSE u[j]
  BY <1>1, ExceptSeq
<1> HIDE DEF v
<1>3. \A j \in 1 .. n : XhrFine(v[j])
  BY <1>2 DEF XhrsFine
<1>4. XhrsFine(v, n) /\ \A j \in 1 .. n : v[j] = IF j = k THEN s ELSE u[j]
  BY <1>2, <1>3 DEF XhrsFine
<1>5. QED
  BY <1>4 DEF v

(* What is sent or aborted is one more to see end.                         *)
LEMMA DueDeferred ==
  ASSUME NEW r, r.made \in Nat, NEW d, NEW p, NEW f, Deferred(r.made, p, f), DueHolds(r, d, p, f),
         NEW k \in 1 .. r.made, NEW j \in JobRec, j.xhr = k, j.what # "cleared"
  PROVE  /\ Deferred(r.made, Append(p, j), f)
         /\ DueHolds(r, [d EXCEPT ![k] = d[k] + 1], Append(p, j), f)
<1>1. p \in Seq(JobRec) /\ \A i \in DOMAIN p : p[i].xhr \in 1 .. r.made
  BY DEF Deferred
<1>2. /\ Append(p, j) \in Seq(JobRec) /\ Len(Append(p, j)) = Len(p) + 1 /\ Len(p) \in Nat
      /\ \A i \in 1 .. Len(p) : Append(p, j)[i] = p[i]
      /\ Append(p, j)[Len(p) + 1] = j
  BY <1>1, AppendProperties, LenProperties
<1>3. \A i \in DOMAIN Append(p, j) : i \in DOMAIN p \/ i = Len(p) + 1
  BY <1>1, <1>2
<1>4. Deferred(r.made, Append(p, j), f)
  BY <1>1, <1>2, <1>3 DEF Deferred
<1>5. d \in Seq(Nat) /\ Len(d) = r.made /\ d[k] \in Nat
  BY ElementOfSeq DEF DueHolds
<1> DEFINE e == [d EXCEPT ![k] = d[k] + 1]
<1>6. e \in Seq(Nat) /\ Len(e) = r.made /\ \A i \in 1 .. r.made : e[i] = IF i = k THEN d[k] + 1 ELSE d[i]
  BY <1>5, ExceptSeq
<1> HIDE DEF e
<1>7. ASSUME NEW i \in 1 .. r.made, Entry(r, i) # 0
      PROVE  e[i] = Waited(Append(p, j), f, i)
  <2>1. d[i] = Cardinality(JobsOf(p, i)) + Running(f, i)
    BY <1>7 DEF DueHolds, Waited
  <2>2. Cardinality(JobsOf(Append(p, j), i)) = Cardinality(JobsOf(p, i)) + (IF i = k THEN 1 ELSE 0)
    BY <1>1, JobDeferred DEF Kept
  <2>3. Cardinality(JobsOf(p, i)) \in Nat /\ Running(f, i) \in Nat
    BY <1>1, JobsFinite DEF Running
  <2>4. QED
    BY <1>6, <2>1, <2>2, <2>3 DEF Waited
<1>8. DueHolds(r, e, Append(p, j), f)
  BY <1>6, <1>7 DEF DueHolds
<1>9. QED
  BY <1>4, <1>8 DEF e

(* A firing that begins was deferred first.                                *)
LEMMA DueTaken ==
  ASSUME NEW r, r.made \in Nat, NEW d, NEW p, Deferred(r.made, p, Xhr!Idle), DueHolds(r, d, p, Xhr!Idle), p # <<>>,
         Head(p).what # "cleared", NEW e, EndsOnce(e)
  PROVE  /\ Head(p) \in JobRec /\ Head(p).xhr \in 1 .. r.made
         /\ Deferred(r.made, Tail(p), [xhr |-> Head(p).xhr, events |-> e])
         /\ DueHolds(r, d, Tail(p), [xhr |-> Head(p).xhr, events |-> e])
<1> DEFINE f == [xhr |-> Head(p).xhr, events |-> e]
<1>1. /\ p \in Seq(JobRec) /\ Len(p) \in Nat /\ Len(p) >= 1 /\ DOMAIN p = 1 .. Len(p)
      /\ Tail(p) \in Seq(JobRec) /\ Len(Tail(p)) = Len(p) - 1 /\ DOMAIN Tail(p) = 1 .. Len(p) - 1
      /\ \A i \in 1 .. Len(p) - 1 : Tail(p)[i] = p[i + 1]
      /\ Head(p) = p[1]
  BY HeadTailProperties, EmptySeq, LenProperties DEF Deferred
<1>2. \A i \in DOMAIN p : p[i].xhr \in 1 .. r.made
  BY DEF Deferred
<1>3. 1 \in DOMAIN p /\ Head(p) \in JobRec /\ Head(p).xhr \in 1 .. r.made
  <2>1. 1 \in 1 .. Len(p)
    BY <1>1
  <2>2. QED
    BY <1>1, <1>2, <2>1, ElementOfSeq
<1>4. f.xhr = Head(p).xhr /\ f.events = e
  OBVIOUS
<1>5. \A i \in DOMAIN Tail(p) : Tail(p)[i].xhr \in 1 .. r.made
  <2>1. \A i \in 1 .. Len(p) - 1 : i + 1 \in 1 .. Len(p)
    BY <1>1
  <2>2. QED
    BY <1>1, <1>2, <2>1
<1> HIDE DEF f
<1>6. Deferred(r.made, Tail(p), f)
  <2>1. f = [xhr |-> f.xhr, events |-> f.events]
    BY <1>4 DEF f
  <2>2. QED
    BY <1>1, <1>3, <1>4, <1>5, <2>1 DEF Deferred
<1>7. ASSUME NEW k \in 1 .. r.made
      PROVE  Waited(Tail(p), f, k) = Waited(p, Xhr!Idle, k)
  <2>1. Cardinality(JobsOf(p, k)) = Cardinality(JobsOf(Tail(p), k)) + (IF Head(p).xhr = k THEN 1 ELSE 0)
    BY <1>1, JobTaken DEF Kept
  <2>2. Running(f, k) = (IF Head(p).xhr = k THEN 1 ELSE 0) /\ Running(Xhr!Idle, k) = 0
    <3>1. Xhr!Idle.xhr = 0 /\ k # 0
      BY DEF Xhr!Idle
    <3>2. QED
      BY <1>4, <3>1 DEF Running
  <2>3. Cardinality(JobsOf(Tail(p), k)) \in Nat
    BY <1>1, JobsFinite
  <2>4. QED
    BY <2>1, <2>2, <2>3 DEF Waited
<1>8. DueHolds(r, d, Tail(p), f)
  BY <1>7 DEF DueHolds
<1>9. QED
  BY <1>3, <1>6, <1>8 DEF f

(* A cleared one leaves without a firing.                                  *)
LEMMA DueSkipped ==
  ASSUME NEW r, r.made \in Nat, NEW d, NEW p, NEW f, Deferred(r.made, p, f), DueHolds(r, d, p, f), p # <<>>,
         Head(p).what = "cleared"
  PROVE  Deferred(r.made, Tail(p), f) /\ DueHolds(r, d, Tail(p), f)
<1>1. /\ p \in Seq(JobRec) /\ Len(p) \in Nat /\ DOMAIN p = 1 .. Len(p)
      /\ Tail(p) \in Seq(JobRec) /\ DOMAIN Tail(p) = 1 .. Len(p) - 1
      /\ \A i \in 1 .. Len(p) - 1 : Tail(p)[i] = p[i + 1]
  BY HeadTailProperties, EmptySeq, LenProperties DEF Deferred
<1>2. \A i \in 1 .. Len(p) - 1 : i + 1 \in 1 .. Len(p)
  BY <1>1
<1>3. Deferred(r.made, Tail(p), f)
  BY <1>1, <1>2 DEF Deferred
<1>4. ASSUME NEW k \in 1 .. r.made
      PROVE  Waited(Tail(p), f, k) = Waited(p, f, k)
  <2>1. Cardinality(JobsOf(p, k)) = Cardinality(JobsOf(Tail(p), k)) + 0
    BY <1>1, JobTaken DEF Kept
  <2>2. Cardinality(JobsOf(Tail(p), k)) \in Nat
    BY <1>1, JobsFinite
  <2>3. QED
    BY <2>1, <2>2 DEF Waited
<1>5. QED
  BY <1>3, <1>4 DEF DueHolds

(* What is cleared is one less to see end.                                 *)
LEMMA DueCleared ==
  ASSUME NEW r, r.made \in Nat, NEW d, NEW p, NEW f, Deferred(r.made, p, f), DueHolds(r, d, p, f),
         NEW n \in DOMAIN p, p[n].what # "cleared"
  PROVE  /\ Deferred(r.made, [p EXCEPT ![n].what = "cleared"], f)
         /\ DueHolds(r, IF Entry(r, p[n].xhr) = 0 THEN d ELSE [d EXCEPT ![p[n].xhr] = d[p[n].xhr] - 1],
                     [p EXCEPT ![n].what = "cleared"], f)
<1> DEFINE k == p[n].xhr
           j == [p[n] EXCEPT !.what = "cleared"]
           q == [p EXCEPT ![n].what = "cleared"]
           e == IF Entry(r, p[n].xhr) = 0 THEN d ELSE [d EXCEPT ![p[n].xhr] = d[p[n].xhr] - 1]
<1> SUFFICES Deferred(r.made, q, f) /\ DueHolds(r, e, q, f)
  OBVIOUS
<1>1. /\ p \in Seq(JobRec) /\ DOMAIN p = 1 .. Len(p) /\ p[n] \in JobRec
      /\ \A i \in DOMAIN p : p[i].xhr \in 1 .. r.made
  BY LenProperties, ElementOfSeq DEF Deferred
<1>2. j \in JobRec /\ j.xhr = k /\ j.what = "cleared" /\ q = [p EXCEPT ![n] = j]
  BY <1>1 DEF JobRec
<1> HIDE DEF j, q
<1>3. q \in Seq(JobRec) /\ Len(q) = Len(p) /\ \A i \in 1 .. Len(p) : q[i] = IF i = n THEN j ELSE p[i]
  BY <1>1, <1>2, ExceptSeq
<1>4. DOMAIN q = DOMAIN p
  BY <1>1, <1>3
<1>5. Deferred(r.made, q, f)
  BY <1>1, <1>2, <1>3, <1>4 DEF Deferred
<1>6. ASSUME NEW i \in 1 .. r.made
      PROVE  /\ Cardinality(JobsOf(p, i)) \in Nat
             /\ Cardinality(JobsOf(q, i)) = Cardinality(JobsOf(p, i)) - (IF i = k THEN 1 ELSE 0)
             /\ i = k => Cardinality(JobsOf(p, i)) > 0
  <2>1. IsFiniteSet(JobsOf(p, i)) /\ Cardinality(JobsOf(p, i)) \in Nat /\ IsFiniteSet(JobsOf(q, i))
        /\ Cardinality(JobsOf(q, i)) \in Nat
    BY <1>1, <1>3, JobsFinite
  <2>2. CASE i = k
    <3>1. JobsOf(p, i) = JobsOf(q, i) \cup {n} /\ n \notin JobsOf(q, i)
      BY <1>1, <1>2, <1>3, <1>4, <2>2 DEF JobsOf, Kept
    <3>2. Cardinality(JobsOf(p, i)) = Cardinality(JobsOf(q, i)) + 1
      BY <2>1, <3>1, FS_AddElement
    <3>3. QED
      BY <2>1, <2>2, <3>2
  <2>3. CASE i # k
    <3>1. JobsOf(p, i) = JobsOf(q, i)
      BY <1>1, <1>2, <1>3, <1>4, <2>3 DEF JobsOf, Kept
    <3>2. QED
      BY <2>1, <2>3, <3>1
  <2>4. QED
    BY <2>2, <2>3
<1>7. d \in Seq(Nat) /\ Len(d) = r.made /\ k \in 1 .. r.made /\ d[k] \in Nat
  BY <1>1, ElementOfSeq DEF DueHolds
<1>8. \A i \in 1 .. r.made : Running(f, i) \in Nat
  BY DEF Running
<1>9. (Entry(r, k) = 0 => e = d) /\ (Entry(r, k) # 0 => e = [d EXCEPT ![k] = d[k] - 1])
  OBVIOUS
<1> HIDE DEF k, e
<1>10. CASE Entry(r, k) = 0
  <2>1. e = d
    BY <1>9, <1>10
  <2>2. ASSUME NEW i \in 1 .. r.made, Entry(r, i) # 0
        PROVE  e[i] = Waited(q, f, i)
    <3>1. i # k
      BY <1>10, <2>2
    <3>2. Cardinality(JobsOf(q, i)) = Cardinality(JobsOf(p, i))
      <4>1. /\ Cardinality(JobsOf(q, i)) = Cardinality(JobsOf(p, i)) - (IF i = k THEN 1 ELSE 0)
            /\ Cardinality(JobsOf(p, i)) \in Nat
        BY <1>6
      <4>2. QED
        BY <3>1, <4>1
    <3>3. d[i] = Waited(p, f, i)
      BY <2>2 DEF DueHolds
    <3>4. QED
      BY <2>1, <3>2, <3>3 DEF Waited
  <2>3. QED
    BY <1>5, <1>7, <2>1, <2>2 DEF DueHolds
<1>11. CASE Entry(r, k) # 0
  <2>1. d[k] > 0
    BY <1>6, <1>7, <1>8, <1>11 DEF DueHolds, Waited
  <2>2. e = [d EXCEPT ![k] = d[k] - 1] /\ d[k] - 1 \in Nat
    BY <1>7, <1>9, <1>11, <2>1
  <2>3. e \in Seq(Nat) /\ Len(e) = r.made /\ \A i \in 1 .. r.made : e[i] = IF i = k THEN d[k] - 1 ELSE d[i]
    BY <1>7, <2>2, ExceptSeq
  <2>4. ASSUME NEW i \in 1 .. r.made, Entry(r, i) # 0
        PROVE  e[i] = Waited(q, f, i)
    <3>1. d[i] = Cardinality(JobsOf(p, i)) + Running(f, i)
      BY <2>4 DEF DueHolds, Waited
    <3>2. /\ Cardinality(JobsOf(q, i)) = Cardinality(JobsOf(p, i)) - (IF i = k THEN 1 ELSE 0)
          /\ Cardinality(JobsOf(p, i)) \in Nat /\ Running(f, i) \in Nat
      BY <1>6, <1>8
    <3>3. Waited(q, f, i) = Cardinality(JobsOf(q, i)) + Running(f, i)
      BY DEF Waited
    <3>4. e[i] = IF i = k THEN d[i] - 1 ELSE d[i]
      BY <2>3
    <3>5. QED
      BY <3>1, <3>2, <3>3, <3>4
  <2>5. QED
    BY <1>5, <2>3, <2>4 DEF DueHolds
<1>12. QED
  BY <1>10, <1>11

FiringIs(h, x, y) == h.xhr = x /\ h.events = y /\ h = [xhr |-> h.xhr, events |-> h.events]

LEMMA FiringParts ==
  ASSUME NEW x, NEW y
  PROVE  FiringIs([xhr |-> x, events |-> y], x, y)
BY DEF FiringIs

(* Of a firing, the last event ends one.                                   *)
LEMMA DueFired ==
  ASSUME NEW r, r.made \in Nat, NEW d, NEW p, NEW f, Deferred(r.made, p, f), DueHolds(r, d, p, f), f # Xhr!Idle,
         Entry(r, f.xhr) \in {0, f.xhr}, NEW b,
         b = (IF Entry(r, f.xhr) # 0 /\ Head(f.events) = "loadend" THEN [d EXCEPT ![f.xhr] = d[f.xhr] - 1] ELSE d),
         NEW h, h = (IF Len(f.events) = 1 THEN Xhr!Idle ELSE [f EXCEPT !.events = Tail(f.events)])
  PROVE  Deferred(r.made, p, h) /\ DueHolds(r, b, p, h)
<1> DEFINE k == f.xhr
           e == f.events
<1>1. k \in 1 .. r.made /\ f = [xhr |-> k, events |-> e] /\ EndsOnce(e)
  BY DEF Deferred
<1>2. p \in Seq(JobRec) /\ \A i \in DOMAIN p : p[i].xhr \in 1 .. r.made
  BY DEF Deferred
<1>3. e \in Seq(EventNames) /\ Len(e) \in Nat /\ Len(e) > 0 /\ \A i \in 1 .. Len(e) : e[i] = "loadend" <=> i = Len(e)
  BY <1>1, LenProperties DEF EndsOnce
<1>4. Head(e) = "loadend" <=> Len(e) = 1
  <2>1. Head(e) = e[1] /\ 1 \in 1 .. Len(e)
    BY <1>3
  <2>2. QED
    BY <1>3, <2>1
<1>5. d \in Seq(Nat) /\ Len(d) = r.made /\ \A i \in 1 .. r.made : d[i] \in Nat
  BY ElementOfSeq DEF DueHolds
<1>6. \A i \in 1 .. r.made : Cardinality(JobsOf(p, i)) \in Nat
  BY <1>2, JobsFinite
<1>7. \A i \in 1 .. r.made : Running(f, i) = IF i = k THEN 1 ELSE 0
  BY DEF Running
<1> HIDE DEF k, e
<1>8. CASE Len(e) = 1
  <2>1. h = Xhr!Idle
    BY <1>8 DEF e
  <2>2. Deferred(r.made, p, h)
    BY <1>2, <2>1 DEF Deferred
  <2>3. \A i \in 1 .. r.made : Running(h, i) = 0
    <3>1. Xhr!Idle.xhr = 0
      BY DEF Xhr!Idle
    <3>2. \A i \in 1 .. r.made : i # 0
      OBVIOUS
    <3>3. QED
      BY <2>1, <3>1, <3>2 DEF Running
  <2>4. CASE Entry(r, k) # 0
    <3>1. d[k] = Waited(p, f, k) /\ d[k] >= 1
      <4>1. d[k] = Waited(p, f, k)
        BY <1>1, <2>4 DEF DueHolds
      <4>2. QED
        BY <1>1, <1>6, <1>7, <4>1 DEF Waited
    <3>2. b = [d EXCEPT ![k] = d[k] - 1] /\ d[k] - 1 \in Nat
      BY <1>1, <1>4, <1>5, <1>8, <2>4, <3>1 DEF k, e
    <3>3. b \in Seq(Nat) /\ Len(b) = r.made /\ \A i \in 1 .. r.made : b[i] = IF i = k THEN d[k] - 1 ELSE d[i]
      BY <1>1, <1>5, <3>2, ExceptSeq
    <3>4. ASSUME NEW i \in 1 .. r.made, Entry(r, i) # 0
          PROVE  b[i] = Waited(p, h, i)
      <4>1. d[i] = Cardinality(JobsOf(p, i)) + (IF i = k THEN 1 ELSE 0)
        BY <1>7, <3>4 DEF DueHolds, Waited
      <4>2. Waited(p, h, i) = Cardinality(JobsOf(p, i)) + 0
        BY <2>3 DEF Waited
      <4>3. QED
        BY <1>6, <3>3, <4>1, <4>2
    <3>5. QED
      BY <2>2, <3>3, <3>4 DEF DueHolds
  <2>5. CASE Entry(r, k) = 0
    <3>1. b = d
      BY <2>5 DEF k
    <3>2. ASSUME NEW i \in 1 .. r.made, Entry(r, i) # 0
          PROVE  d[i] = Waited(p, h, i)
      <4>1. i # k
        BY <2>5, <3>2
      <4>2. d[i] = Cardinality(JobsOf(p, i)) + 0
        BY <1>7, <3>2, <4>1 DEF DueHolds, Waited
      <4>3. QED
        BY <2>3, <4>2 DEF Waited
    <3>3. QED
      BY <1>5, <2>2, <3>1, <3>2 DEF DueHolds
  <2>6. QED
    BY <2>4, <2>5
<1>9. CASE Len(e) # 1
  <2>1. b = d
    BY <1>4, <1>9 DEF e
  <2>2. h = [xhr |-> k, events |-> Tail(e)]
    BY <1>1, <1>9 DEF e, k
  <2>3. EndsOnce(Tail(e))
    <3>1. /\ Tail(e) \in Seq(EventNames) /\ Len(Tail(e)) = Len(e) - 1
          /\ \A i \in 1 .. Len(Tail(e)) : Tail(e)[i] = e[i + 1]
      BY <1>3, HeadTailProperties, EmptySeq
    <3>2. \A i \in 1 .. Len(Tail(e)) : i + 1 \in 1 .. Len(e) /\ (i + 1 = Len(e) <=> i = Len(Tail(e)))
      BY <1>3, <3>1
    <3>3. Len(Tail(e)) > 0
      BY <1>3, <1>9, <3>1
    <3>4. QED
      BY <1>3, <3>1, <3>2, <3>3 DEF EndsOnce
  <2>4. h.xhr = k /\ h.events = Tail(e) /\ h = [xhr |-> h.xhr, events |-> h.events]
    <3>1. FiringIs([xhr |-> k, events |-> Tail(e)], k, Tail(e))
      BY FiringParts
    <3>2. FiringIs(h, k, Tail(e))
      BY <2>2, <3>1
    <3>3. QED
      BY <3>2 DEF FiringIs
  <2>5. Deferred(r.made, p, h)
    BY <1>1, <1>2, <2>3, <2>4 DEF Deferred
  <2>6. \A i : Waited(p, h, i) = Waited(p, f, i)
    BY <2>4 DEF Waited, Running, k
  <2>7. QED
    BY <2>1, <2>5, <2>6 DEF DueHolds
<1>10. QED
  BY <1>8, <1>9

LEMMA XhrStart ==
  ASSUME Xhr!XhrInit
  PROVE  XhrInv
<1>1. /\ slots = <<>> /\ gens = <<>> /\ free = <<>> /\ live = 0 /\ made = 0 /\ ids = <<>>
      /\ st = <<>> /\ opens = 0 /\ jobs = <<>> /\ firing = Xhr!Idle /\ due = <<>>
  BY DEF Xhr!XhrInit, Xhr!Init
<1>2. RegInv(RegNow, XhrBounds.gens) /\ RegNow.made = 0
  BY <1>1, RegistryStart DEF RegNow
<1>3. made <= XhrBounds.allocs /\ opens \in Nat
  BY <1>1, RegistryConstants
<1>4. XhrsFine(st, made) /\ AbortsHold(RegNow, st)
  <2>1. st \in Seq(XhrRec) /\ Len(st) = 0
    BY <1>1, EmptySeq
  <2>2. QED
    BY <1>1, <1>2, <2>1 DEF XhrsFine, AbortsHold
<1>5. Deferred(made, jobs, firing) /\ DueHolds(RegNow, due, jobs, firing)
  <2>1. jobs \in Seq(JobRec) /\ due \in Seq(Nat) /\ Len(due) = 0 /\ DOMAIN jobs = {}
    BY <1>1, EmptySeq
  <2>2. QED
    BY <1>1, <1>2, <2>1 DEF Deferred, DueHolds
<1>6. QED
  BY <1>2, <1>3, <1>4, <1>5 DEF XhrInv

XhrShape ==
  /\ made \in Nat /\ DOMAIN ids = 1 .. made /\ RegNow.made = made
  /\ RegTidy(RegNow) /\ Unwrapped(RegNow, XhrBounds.gens)
  /\ \A k \in 1 .. made : /\ k # 0 /\ k \in DOMAIN RegNow.ids /\ RegNow.ids[k] = ids[k]
                          /\ Xhr!Resolve(ids[k]) = Entry(RegNow, k) /\ Entry(RegNow, k) \in {0, k}
                          /\ Xhr!Gone(k) <=> Entry(RegNow, k) = 0
                          /\ k \in DOMAIN st /\ st[k] \in XhrRec /\ XhrFine(st[k])
                          /\ due[k] \in Nat

LEMMA XhrBasics ==
  ASSUME XhrInv
  PROVE  XhrShape
<1>1. RegInv(RegNow, XhrBounds.gens) /\ RegTidy(RegNow) /\ RegBasics(RegNow)
  BY RegShape DEF XhrInv, RegInv
<1>2. RegNow.made = made /\ RegNow.ids = ids /\ made \in Nat /\ DOMAIN ids = 1 .. made
  <2>1. RegNow.made = made /\ RegNow.ids = ids
    BY DEF RegNow
  <2>2. QED
    BY <1>1, <2>1 DEF RegBasics
<1>3. Unwrapped(RegNow, XhrBounds.gens)
  <2>1. RegNow.made < XhrBounds.gens
    BY <1>2, RegistryConstants DEF XhrInv
  <2>2. QED
    BY <1>1, <2>1, FewUnwrapped, RegistryConstants
<1>4. ASSUME NEW k \in 1 .. made
      PROVE  /\ k # 0 /\ Xhr!Resolve(ids[k]) = Entry(RegNow, k) /\ Entry(RegNow, k) \in {0, k}
             /\ Xhr!Gone(k) <=> Entry(RegNow, k) = 0
             /\ k \in DOMAIN st /\ st[k] \in XhrRec /\ XhrFine(st[k])
             /\ due[k] \in Nat
  <2>1. Xhr!Resolve(ids[k]) = Entry(RegNow, k)
    BY <1>1, <1>2, XhrSteps DEF Entry
  <2>2. Entry(RegNow, k) \in {0, k}
    BY <1>1, <1>2, <1>3, EntryOwn
  <2>3. Xhr!Gone(k) <=> Entry(RegNow, k) = 0
    BY <2>1 DEF Xhr!Gone, Xhr!None
  <2>4. st \in Seq(XhrRec) /\ Len(st) = made /\ XhrFine(st[k])
    BY DEF XhrInv, XhrsFine
  <2>5. k \in DOMAIN st /\ st[k] \in XhrRec
    BY <2>4, ElementOfSeq
  <2>6. due \in Seq(Nat) /\ Len(due) = made
    BY <1>2 DEF XhrInv, DueHolds
  <2>7. due[k] \in Nat
    BY <2>6, ElementOfSeq
  <2>8. k # 0
    BY <1>2
  <2>9. QED
    BY <2>1, <2>2, <2>3, <2>4, <2>5, <2>7, <2>8
<1>5. QED
  BY <1>1, <1>2, <1>3, <1>4 DEF XhrShape

(* What is written to a request keeps its parts together.                  *)
LEMMA XhrEdit ==
  ASSUME XhrInv, UNCHANGED regVars, NEW k \in 1 .. made, NEW s \in XhrRec, XhrFine(s), s.aborted => s.sent,
         Changed(st, st', k, Entry(RegNow, k) = 0, s)
  PROVE  /\ RegInv(RegNow, XhrBounds.gens)' /\ RegNow' = RegNow /\ made' = made /\ made' <= XhrBounds.allocs
         /\ XhrsFine(st', made') /\ AbortsHold(RegNow', st')
<1>1. XhrShape
  BY XhrBasics
<1>2. RegNow' = RegNow /\ made' = made
  BY DEF regVars, RegNow
<1>3. RegInv(RegNow, XhrBounds.gens)' /\ XhrsFine(st, made) /\ AbortsHold(RegNow, st) /\ made <= XhrBounds.allocs
  BY RegistryStays DEF XhrInv
<1>4. CASE Entry(RegNow, k) = 0
  BY <1>2, <1>3, <1>4 DEF Changed
<1>5. CASE Entry(RegNow, k) # 0
  <2>1. st' = [st EXCEPT ![k] = s]
    BY <1>5 DEF Changed
  <2>2. XhrsFine(st', made) /\ \A j \in 1 .. made : st'[j] = IF j = k THEN s ELSE st[j]
    BY <1>1, <1>3, <2>1, XhrSet DEF XhrShape
  <2>3. AbortsHold(RegNow, st')
    BY <1>1, <1>3, <2>2 DEF AbortsHold, XhrShape
  <2>4. QED
    BY <1>2, <1>3, <2>2, <2>3
<1>6. QED
  BY <1>4, <1>5

LEMMA WaitingIs == \A k : Xhr!Waiting(k) = Cardinality(JobsOf(jobs, k))
<1> TAKE k
<1>1. \A S : Xhr!Cardinality(S) = Cardinality(S)
  BY DEF Xhr!Cardinality, Cardinality
<1>2. JobsOf(jobs, k) = {n \in DOMAIN jobs : jobs[n].xhr = k /\ jobs[n].what # "cleared"}
  BY DEF JobsOf, Kept
<1>3. QED
  BY <1>1, <1>2 DEF Xhr!Waiting

(* What is deferred is kept, and seen to end, or neither.                  *)
LEMMA FiringKept ==
  ASSUME XhrInv, NEW k \in 1 .. made, NEW what \in Firings, Xhr!Defer(k, what),
         RegNow' = RegNow, made' = made, firing' = firing
  PROVE  Deferred(made', jobs', firing') /\ DueHolds(RegNow', due', jobs', firing')
<1>1. /\ RegNow.made = made /\ made \in Nat
      /\ Deferred(made, jobs, firing) /\ DueHolds(RegNow, due, jobs, firing)
  BY XhrBasics DEF XhrShape, XhrInv
<1> DEFINE j == [xhr |-> k, what |-> what]
<1>2. j \in JobRec /\ j.xhr = k /\ j.what # "cleared"
  BY <1>1 DEF JobRec, Firings
<1>3. CASE UNCHANGED <<jobs, due>>
  BY <1>1, <1>3
<1>4. CASE jobs' = Append(jobs, j) /\ due' = [due EXCEPT ![k] = due[k] + 1]
  <2> HIDE DEF j
  <2>1. /\ Deferred(RegNow.made, Append(jobs, j), firing)
        /\ DueHolds(RegNow, [due EXCEPT ![k] = due[k] + 1], Append(jobs, j), firing)
    BY <1>1, <1>2, DueDeferred
  <2>2. QED
    BY <1>1, <1>4, <2>1
<1>5. QED
  BY <1>3, <1>4 DEF Xhr!Defer

LEMMA XhrSays ==
  ASSUME XhrInv
  PROVE  Xhr!XhrSound
<1>1. XhrShape /\ st \in Seq(XhrRec) /\ Len(st) = made
  BY XhrBasics DEF XhrInv, XhrsFine
<1>2. ASSUME NEW k \in 1 .. made
      PROVE  /\ st[k].completed => st[k].reply # "none" /\ st[k].of # 0 /\ st[k].url = 0
             /\ st[k].reply # "none" => st[k].sent /\ ~st[k].aborted
             /\ ~Xhr!Gone(k) => due[k] = Xhr!Coming(k)
             /\ due[k] >= 0
  <2>1. XhrFine(st[k]) /\ due[k] \in Nat /\ (Xhr!Gone(k) <=> Entry(RegNow, k) = 0)
    BY <1>1 DEF XhrShape
  <2>2. ~Xhr!Gone(k) => due[k] = Waited(jobs, firing, k)
    BY <1>1, <2>1 DEF XhrInv, DueHolds, XhrShape
  <2>3. Xhr!Coming(k) = Waited(jobs, firing, k)
    BY WaitingIs DEF Xhr!Coming, Waited, Running
  <2>4. due[k] >= 0
    BY <2>1
  <2>5. QED
    BY <2>1, <2>2, <2>3, <2>4 DEF XhrFine
<1>3. DOMAIN st = 1 .. made
  BY <1>1
<1>4. QED
  BY <1>2, <1>3 DEF Xhr!XhrSound

LEMMA XhrOpened ==
  ASSUME NEW t \in XhrRec, ~t.completed, t.reply = "none", ~t.aborted, NEW w \in Nat, NEW s,
         s = [t EXCEPT !.ready = 1, !.url = w]
  PROVE  s \in XhrRec /\ XhrFine(s) /\ (s.aborted => s.sent)
BY DEF XhrRec, XhrFine

LEMMA XhrFired ==
  ASSUME NEW t \in XhrRec, XhrFine(t), t.aborted => t.sent, NEW s,
         \/ s = [t EXCEPT !.ready = 4]
         \/ s = [t EXCEPT !.ready = 4, !.completed = FALSE]
         \/ s = [t EXCEPT !.ready = 0]
  PROVE  s \in XhrRec /\ XhrFine(s) /\ (s.aborted => s.sent)
<1>1. CASE s = [t EXCEPT !.ready = 4]
  BY <1>1 DEF XhrRec, XhrFine
<1>2. CASE s = [t EXCEPT !.ready = 4, !.completed = FALSE]
  BY <1>2 DEF XhrRec, XhrFine
<1>3. CASE s = [t EXCEPT !.ready = 0]
  BY <1>3 DEF XhrRec, XhrFine
<1>4. QED
  BY <1>1, <1>2, <1>3

LEMMA XhrMoves ==
  ASSUME XhrInv, Xhr!XhrNext
  PROVE  XhrInv'
<1>1. XhrShape
  BY XhrBasics
<1>2. /\ \A k \in 1 .. made : /\ k # 0 /\ st[k] \in XhrRec /\ XhrFine(st[k]) /\ due[k] \in Nat
                              /\ Xhr!Resolve(ids[k]) = Entry(RegNow, k) /\ Entry(RegNow, k) \in {0, k}
                              /\ Xhr!Gone(k) <=> Entry(RegNow, k) = 0
      /\ DOMAIN ids = 1 .. made /\ made \in Nat /\ RegNow.made = made /\ opens \in Nat
      /\ AbortsHold(RegNow, st) /\ Deferred(made, jobs, firing) /\ DueHolds(RegNow, due, jobs, firing)
  BY <1>1 DEF XhrShape, XhrInv
<1>3. ASSUME NEW k \in 1 .. made, NEW blank \in BOOLEAN, Xhr!Open(k, blank) PROVE XhrInv'
  <2> DEFINE s == [Xhr!Fresh EXCEPT !.ready = 1, !.url = IF blank THEN 0 ELSE opens + 1]
  <2>1. opens' = opens + 1 /\ opens' \in Nat /\ UNCHANGED regVars /\ UNCHANGED <<jobs, firing, due>>
    BY <1>2, <1>3 DEF Xhr!Open, Xhr!vars, regVars
  <2>2. s \in XhrRec /\ XhrFine(s) /\ (s.aborted => s.sent)
    <3> DEFINE w == IF blank THEN 0 ELSE opens + 1
    <3>1. w \in Nat
      BY <1>2
    <3>2. /\ Xhr!Fresh \in XhrRec /\ ~Xhr!Fresh.completed /\ Xhr!Fresh.reply = "none" /\ ~Xhr!Fresh.aborted
      BY DEF Xhr!Fresh, XhrRec
    <3>3. s = [Xhr!Fresh EXCEPT !.ready = 1, !.url = w]
      OBVIOUS
    <3> HIDE DEF s, w
    <3>4. QED
      BY <3>1, <3>2, <3>3, XhrOpened
  <2>3. Changed(st, st', k, Entry(RegNow, k) = 0, s)
    BY <1>2, <1>3, <2>1 DEF Xhr!Open, Xhr!With, Xhr!None, Changed
  <2> HIDE DEF s
  <2>4. /\ RegInv(RegNow, XhrBounds.gens)' /\ RegNow' = RegNow /\ made' = made /\ made' <= XhrBounds.allocs
        /\ XhrsFine(st', made') /\ AbortsHold(RegNow', st')
    BY <2>1, <2>2, <2>3, XhrEdit
  <2>5. Deferred(made', jobs', firing') /\ DueHolds(RegNow', due', jobs', firing')
    BY <1>2, <2>1, <2>4
  <2>6. QED
    BY <2>1, <2>4, <2>5 DEF XhrInv
<1>4. ASSUME NEW k \in 1 .. made, NEW reply \in {"ok", "bad", "none"}, Xhr!Send(k, reply) PROVE XhrInv'
  <2>1. /\ Entry(RegNow, k) = k /\ k # 0 /\ Xhr!Resolve(ids[k]) = k /\ Xhr!State(k) = st[k] /\ ~Xhr!Gone(k)
        /\ ~st[k].sent /\ UNCHANGED regVars /\ UNCHANGED <<opens, firing>>
    BY <1>2, <1>4 DEF Xhr!Send, Xhr!State, Xhr!vars, regVars
  <2>2. st[k] \in XhrRec /\ XhrFine(st[k]) /\ ~st[k].aborted /\ st[k].reply = "none" /\ ~st[k].completed
    <3>1. st[k] \in XhrRec /\ XhrFine(st[k])
      BY <1>2
    <3>2. st[k].aborted => st[k].sent
      BY <1>2, <2>1 DEF AbortsHold
    <3>3. QED
      BY <2>1, <3>1, <3>2 DEF XhrRec, XhrFine
  <2>3. CASE st[k].url = 0
    <3> DEFINE s == [st[k] EXCEPT !.sent = TRUE]
    <3>1. s \in XhrRec /\ XhrFine(s) /\ (s.aborted => s.sent)
      BY <2>2 DEF XhrRec, XhrFine
    <3>2. Changed(st, st', k, Entry(RegNow, k) = 0, s)
      BY <1>4, <2>1, <2>3 DEF Xhr!Send, Xhr!With, Xhr!None, Changed
    <3>3. UNCHANGED <<jobs, due>>
      BY <1>4, <2>1, <2>3 DEF Xhr!Send
    <3> HIDE DEF s
    <3>4. /\ RegInv(RegNow, XhrBounds.gens)' /\ RegNow' = RegNow /\ made' = made /\ made' <= XhrBounds.allocs
          /\ XhrsFine(st', made') /\ AbortsHold(RegNow', st')
      BY <2>1, <3>1, <3>2, XhrEdit
    <3>5. Deferred(made', jobs', firing') /\ DueHolds(RegNow', due', jobs', firing')
      BY <1>2, <2>1, <3>3, <3>4
    <3>6. QED
      BY <1>2, <2>1, <3>4, <3>5 DEF XhrInv
  <2>4. CASE st[k].url # 0
    <3> DEFINE s == [st[k] EXCEPT !.sent = TRUE, !.url = 0, !.reply = reply, !.of = st[k].url,
                                  !.completed = (reply # "none")]
               what == IF reply = "none" THEN "failure" ELSE "completion"
    <3>1. s \in XhrRec /\ XhrFine(s) /\ (s.aborted => s.sent)
      BY <2>2, <2>4 DEF XhrRec, XhrFine
    <3>2. Changed(st, st', k, Entry(RegNow, k) = 0, s)
      BY <1>4, <2>1, <2>4 DEF Xhr!Send, Xhr!With, Xhr!None, Changed
    <3>3. Xhr!Defer(k, what) /\ what \in Firings
      BY <1>4, <2>1, <2>4 DEF Xhr!Send, Firings
    <3> HIDE DEF s, what
    <3>5. /\ RegInv(RegNow, XhrBounds.gens)' /\ RegNow' = RegNow /\ made' = made /\ made' <= XhrBounds.allocs
          /\ XhrsFine(st', made') /\ AbortsHold(RegNow', st')
      BY <2>1, <3>1, <3>2, XhrEdit
    <3>6. Deferred(made', jobs', firing') /\ DueHolds(RegNow', due', jobs', firing')
      BY <2>1, <3>3, <3>5, FiringKept
    <3>7. QED
      BY <1>2, <2>1, <3>5, <3>6 DEF XhrInv
  <2>5. QED
    BY <2>3, <2>4
<1>5. ASSUME NEW k \in 1 .. made, Xhr!Abort(k) PROVE XhrInv'
  <2> DEFINE s == IF st[k].aborted THEN st[k]
                  ELSE [st[k] EXCEPT !.aborted = TRUE, !.reply = "none", !.completed = FALSE, !.ready = 0]
  <2>1. /\ Entry(RegNow, k) = k /\ k # 0 /\ Xhr!Resolve(ids[k]) = k /\ Xhr!State(k) = st[k] /\ ~Xhr!Gone(k)
        /\ UNCHANGED <<opens, firing>>
    BY <1>2, <1>5 DEF Xhr!Abort, Xhr!State
  <2>2. st' = [st EXCEPT ![k] = s]
    BY <1>5, <2>1 DEF Xhr!Abort, Xhr!With, Xhr!None
  <2>3. s \in XhrRec /\ XhrFine(s) /\ s.sent = st[k].sent
    <3>1. st[k] \in XhrRec /\ XhrFine(st[k])
      BY <1>2
    <3>2. CASE st[k].aborted
      BY <3>1, <3>2
    <3>3. CASE ~st[k].aborted
      <4>1. s = [st[k] EXCEPT !.aborted = TRUE, !.reply = "none", !.completed = FALSE, !.ready = 0]
        BY <3>3
      <4> HIDE DEF s
      <4>2. QED
        BY <3>1, <4>1 DEF XhrRec, XhrFine
    <3>4. QED
      BY <3>2, <3>3
  <2>4. CASE st[k].sent
    <3>1. Xhr!Defer(k, "abort") /\ UNCHANGED regVars
      BY <1>5, <2>1, <2>4 DEF Xhr!Abort, Xhr!vars, regVars
    <3>2. "abort" \in Firings
      BY DEF Firings
    <3> HIDE DEF s
    <3>3. Changed(st, st', k, Entry(RegNow, k) = 0, s)
      BY <2>1, <2>2 DEF Changed
    <3>4. /\ RegInv(RegNow, XhrBounds.gens)' /\ RegNow' = RegNow /\ made' = made /\ made' <= XhrBounds.allocs
          /\ XhrsFine(st', made') /\ AbortsHold(RegNow', st')
      BY <2>3, <2>4, <3>1, <3>3, XhrEdit
    <3>5. Deferred(made', jobs', firing') /\ DueHolds(RegNow', due', jobs', firing')
      BY <2>1, <3>1, <3>2, <3>4, FiringKept
    <3>6. QED
      BY <1>2, <2>1, <3>4, <3>5 DEF XhrInv
  <2>5. CASE ~st[k].sent
    <3>1. /\ DropsId(RegNow, RegNow', ids[k]) /\ k \in DOMAIN RegNow.ids /\ RegNow.ids[k] = ids[k]
          /\ RegTidy(RegNow) /\ Unwrapped(RegNow, XhrBounds.gens)
      BY <1>1, <1>5, <2>1, <2>5, XhrSteps DEF XhrShape, Xhr!Abort
    <3>2. UNCHANGED <<jobs, due>>
      BY <1>5, <2>1, <2>5 DEF Xhr!Abort
    <3>3. RegInv(RegNow', XhrBounds.gens)
      BY <3>1, DropKeeps DEF XhrInv
    <3>4. /\ RegNow'.made = made /\ Entry(RegNow', k) = 0
          /\ \A j \in 1 .. made : j # k => Entry(RegNow', j) = Entry(RegNow, j)
      <4>1. /\ RegNow'.made = RegNow.made /\ RegNow'.ids = RegNow.ids /\ Entry(RegNow', k) = 0 /\ Entry(RegNow, k) = k
            /\ \A j \in DOMAIN RegNow.ids : j # k => Entry(RegNow', j) = Entry(RegNow, j)
        BY <3>1, DroppedEntries DEF XhrInv
      <4>2. QED
        BY <1>1, <4>1 DEF XhrShape
    <3>5. made' = made
      BY <3>4 DEF RegNow
    <3> HIDE DEF s
    <3>6. XhrsFine(st', made) /\ \A j \in 1 .. made : st'[j] = IF j = k THEN s ELSE st[j]
      <4>1. XhrsFine(st, made)
        BY DEF XhrInv
      <4>2. /\ XhrsFine([st EXCEPT ![k] = s], made)
            /\ \A j \in 1 .. made : [st EXCEPT ![k] = s][j] = IF j = k THEN s ELSE st[j]
        BY <1>2, <2>3, <4>1, XhrSet
      <4>3. QED
        BY <2>2, <4>2
    <3>7. AbortsHold(RegNow', st')
      BY <1>2, <3>4, <3>6 DEF AbortsHold
    <3>8. DueHolds(RegNow', due, jobs, firing)
      BY <1>2, <3>4 DEF DueHolds
    <3>9. QED
      BY <1>2, <2>1, <3>2, <3>3, <3>5, <3>6, <3>7, <3>8 DEF XhrInv
  <2>6. QED
    BY <2>4, <2>5
<1>6. ASSUME Xhr!RunDeferred PROVE XhrInv'
  <2> DEFINE k == Head(jobs).xhr
             what == Head(jobs).what
             e == IF what = "abort" THEN <<"abort", "loadend">>
                  ELSE <<"readystatechange",
                         IF what = "completion" /\ ~Xhr!Gone(k) /\ Xhr!State(k).reply = "ok"
                         THEN "load" ELSE "error", "loadend">>
  <2>1. /\ jobs # <<>> /\ firing = Xhr!Idle /\ what # "cleared"
        /\ jobs' = Tail(jobs) /\ firing' = [xhr |-> k, events |-> e]
        /\ UNCHANGED regVars /\ UNCHANGED <<opens, due>>
    BY <1>6 DEF Xhr!RunDeferred, Xhr!vars, regVars
  <2>2. EndsOnce(e)
    <3>1. CASE what = "abort"
      <4>1. e = <<"abort", "loadend">>
        BY <3>1
      <4> HIDE DEF e
      <4>2. QED
        BY <4>1 DEF EndsOnce, EventNames
    <3>2. CASE what # "abort"
      <4>1. PICK x \in {"load", "error"} : e = <<"readystatechange", x, "loadend">>
        BY <3>2
      <4> HIDE DEF e
      <4>2. QED
        BY <4>1 DEF EndsOnce, EventNames
    <3>3. QED
      BY <3>1, <3>2
  <2> HIDE DEF e
  <2>3. /\ Head(jobs) \in JobRec /\ Head(jobs).xhr \in 1 .. RegNow.made
        /\ Deferred(RegNow.made, Tail(jobs), [xhr |-> Head(jobs).xhr, events |-> e])
        /\ DueHolds(RegNow, due, Tail(jobs), [xhr |-> Head(jobs).xhr, events |-> e])
    <3>1. Deferred(RegNow.made, jobs, Xhr!Idle) /\ DueHolds(RegNow, due, jobs, Xhr!Idle) /\ RegNow.made \in Nat
      BY <1>2, <2>1
    <3>2. QED
      BY <2>1, <2>2, <3>1, DueTaken
  <2>4. k \in 1 .. made /\ what \in {"completion", "failure", "abort"}
    BY <1>2, <2>1, <2>3 DEF JobRec, Firings
  <2> DEFINE s == IF Entry(RegNow, k) = 0 THEN Xhr!Fresh
                  ELSE CASE what = "completion" -> [st[k] EXCEPT !.ready = 4]
                         [] what = "failure" -> [st[k] EXCEPT !.ready = 4, !.completed = FALSE]
                         [] OTHER -> [st[k] EXCEPT !.ready = 0]
  <2>5. s \in XhrRec /\ XhrFine(s) /\ (s.aborted => s.sent)
    <3>1. CASE Entry(RegNow, k) = 0
      BY <3>1 DEF XhrRec, XhrFine, Xhr!Fresh
    <3>2. CASE Entry(RegNow, k) # 0
      <4>1. \/ s = [st[k] EXCEPT !.ready = 4]
            \/ s = [st[k] EXCEPT !.ready = 4, !.completed = FALSE]
            \/ s = [st[k] EXCEPT !.ready = 0]
        BY <2>4, <3>2
      <4>2. st[k] \in XhrRec /\ XhrFine(st[k]) /\ (st[k].aborted => st[k].sent)
        BY <1>2, <2>4, <3>2 DEF AbortsHold
      <4> HIDE DEF s, k
      <4>3. QED
        BY <4>1, <4>2, XhrFired
    <3>3. QED
      BY <3>1, <3>2
  <2>6. Changed(st, st', k, Entry(RegNow, k) = 0, s)
    <3>1. /\ Xhr!Gone(k) <=> Entry(RegNow, k) = 0
          /\ Entry(RegNow, k) # 0 => Xhr!Resolve(ids[k]) = k /\ Xhr!State(k) = st[k] /\ k # 0
      BY <1>2, <2>4 DEF Xhr!State
    <3>2. CASE Entry(RegNow, k) = 0
      BY <1>6, <3>1, <3>2 DEF Xhr!RunDeferred, Changed
    <3>3. CASE Entry(RegNow, k) # 0
      BY <1>6, <3>1, <3>3 DEF Xhr!RunDeferred, Xhr!With, Xhr!None, Changed
    <3>4. QED
      BY <3>2, <3>3
  <2> HIDE DEF s
  <2>7. /\ RegInv(RegNow, XhrBounds.gens)' /\ RegNow' = RegNow /\ made' = made /\ made' <= XhrBounds.allocs
        /\ XhrsFine(st', made') /\ AbortsHold(RegNow', st')
    BY <2>1, <2>4, <2>5, <2>6, XhrEdit
  <2>8. Deferred(made', jobs', firing') /\ DueHolds(RegNow', due', jobs', firing')
    BY <1>2, <2>1, <2>3, <2>7
  <2>9. QED
    BY <1>2, <2>1, <2>7, <2>8 DEF XhrInv
<1>7. ASSUME Xhr!Fire PROVE XhrInv'
  <2> DEFINE k == firing.xhr
  <2>1. UNCHANGED regVars /\ UNCHANGED <<st, opens, jobs>> /\ firing # Xhr!Idle
    BY <1>7 DEF Xhr!Fire, Xhr!vars, regVars
  <2>2. k \in 1 .. made
    BY <1>2, <2>1 DEF Deferred
  <2>3. k # 0 /\ Xhr!Resolve(ids[k]) = Entry(RegNow, k) /\ Entry(RegNow, k) \in {0, k}
    BY <1>2, <2>2
  <2>4. due' = IF Entry(RegNow, k) # 0 /\ Head(firing.events) = "loadend" THEN [due EXCEPT ![k] = due[k] - 1] ELSE due
    BY <1>7, <2>3 DEF Xhr!Fire, Xhr!None
  <2>5. firing' = IF Len(firing.events) = 1 THEN Xhr!Idle ELSE [firing EXCEPT !.events = Tail(firing.events)]
    BY <1>7 DEF Xhr!Fire
  <2>6. Deferred(RegNow.made, jobs, firing') /\ DueHolds(RegNow, due', jobs, firing')
    <3>1. /\ RegNow.made \in Nat /\ Deferred(RegNow.made, jobs, firing) /\ DueHolds(RegNow, due, jobs, firing)
          /\ Entry(RegNow, firing.xhr) \in {0, firing.xhr}
      BY <1>2, <2>3
    <3>2. due' = (IF Entry(RegNow, firing.xhr) # 0 /\ Head(firing.events) = "loadend"
                  THEN [due EXCEPT ![firing.xhr] = due[firing.xhr] - 1] ELSE due)
      BY <2>4
    <3>3. QED
      BY <2>1, <2>5, <3>1, <3>2, DueFired
  <2>7. RegInv(RegNow, XhrBounds.gens)' /\ RegNow' = RegNow /\ made' = made
    BY <2>1, RegistryStays DEF RegNow, regVars, XhrInv
  <2>8. QED
    BY <1>2, <2>1, <2>6, <2>7 DEF XhrInv
<1>8. ASSUME Xhr!New PROVE XhrInv'
  <2>1. RegTidy(RegNow) /\ XhrBounds.gens \in Nat /\ XhrBounds.gens > 1 /\ RegInv(RegNow, XhrBounds.gens)
    BY <1>1, RegistryConstants DEF XhrShape, XhrInv
  <2>2. Deals(RegNow, RegNow', XhrBounds.gens) /\ made < XhrBounds.allocs
    BY <1>8, <2>1, XhrSteps DEF Xhr!New
  <2>3. RegInv(RegNow', XhrBounds.gens)
    BY <2>1, <2>2, DealKeeps
  <2>4. RegNow'.made = made + 1 /\ made' = made + 1 /\ made' <= XhrBounds.allocs
    <3>1. RegNow'.made = RegNow.made + 1
      BY <2>2 DEF Deals, Numbers
    <3>2. made' = RegNow'.made
      BY DEF RegNow
    <3>3. QED
      BY <1>2, <2>2, <3>1, <3>2, RegistryConstants
  <2>5. Unwrapped(RegNow', XhrBounds.gens)
    <3>1. RegNow'.made < XhrBounds.gens /\ RegTidy(RegNow')
      BY <1>2, <2>3, <2>4, RegistryConstants DEF RegInv
    <3>2. QED
      BY <2>1, <3>1, FewUnwrapped
  <2>6. \A k \in 1 .. made : Entry(RegNow', k) = Entry(RegNow, k)
    <3>1. \A k \in DOMAIN RegNow'.ids : k # RegNow.made + 1 => Entry(RegNow', k) = Entry(RegNow, k)
      BY <2>1, <2>2, <2>3, <2>5, DealtEntries
    <3>2. DOMAIN RegNow'.ids = 1 .. made + 1
      <4>1. RegTidy(RegNow')
        BY <2>3 DEF RegInv
      <4>2. QED
        BY <2>4, <4>1, RegShape DEF RegBasics
    <3>3. \A k \in 1 .. made : k \in 1 .. made + 1 /\ k # made + 1
      BY <1>2
    <3>4. QED
      BY <1>2, <3>1, <3>2, <3>3
  <2>7. st' = Append(st, Xhr!Fresh) /\ due' = Append(due, 0) /\ UNCHANGED <<opens, jobs, firing>>
    BY <1>8 DEF Xhr!New
  <2>8. Xhr!Fresh \in XhrRec /\ XhrFine(Xhr!Fresh) /\ ~Xhr!Fresh.aborted
    BY DEF Xhr!Fresh, XhrRec, XhrFine
  <2>9. \A k \in 1 .. made + 1 : k \in 1 .. made \/ k = made + 1
    BY <1>2
  <2>10. /\ st' \in Seq(XhrRec) /\ Len(st') = made + 1 /\ st'[made + 1] = Xhr!Fresh
         /\ \A k \in 1 .. made : st'[k] = st[k]
    <3>1. st \in Seq(XhrRec) /\ Len(st) = made
      BY DEF XhrInv, XhrsFine
    <3>2. QED
      BY <2>7, <2>8, <3>1, AppendProperties
  <2>11. /\ due' \in Seq(Nat) /\ Len(due') = made + 1 /\ due'[made + 1] = 0
         /\ \A k \in 1 .. made : due'[k] = due[k]
    <3>1. due \in Seq(Nat) /\ Len(due) = made
      BY <1>2 DEF DueHolds
    <3>2. QED
      BY <2>7, <3>1, AppendProperties
  <2>12. XhrsFine(st', made')
    <3>1. \A k \in 1 .. made + 1 : XhrFine(st'[k])
      BY <1>2, <2>8, <2>9, <2>10
    <3>2. QED
      BY <2>4, <2>10, <3>1 DEF XhrsFine
  <2>13. AbortsHold(RegNow', st')
    BY <1>2, <2>4, <2>6, <2>8, <2>9, <2>10 DEF AbortsHold
  <2>14. Deferred(made', jobs', firing')
    <3>1. \A k \in 1 .. made : k \in 1 .. made + 1
      BY <1>2
    <3>2. QED
      BY <1>2, <2>4, <2>7, <3>1 DEF Deferred
  <2>15. Waited(jobs, firing, made + 1) = 0
    <3>1. JobsOf(jobs, made + 1) = {}
      BY <1>2 DEF JobsOf, Kept, Deferred
    <3>2. Running(firing, made + 1) = 0
      BY <1>2 DEF Running, Deferred, Xhr!Idle
    <3>3. QED
      BY <3>1, <3>2, FS_EmptySet DEF Waited
  <2>16. DueHolds(RegNow', due', jobs', firing')
    BY <1>2, <2>4, <2>6, <2>7, <2>9, <2>11, <2>15 DEF DueHolds
  <2>17. QED
    BY <1>2, <2>3, <2>4, <2>7, <2>12, <2>13, <2>14, <2>16 DEF XhrInv
<1>9. ASSUME UNCHANGED regVars, UNCHANGED <<st, opens, firing>>,
             Deferred(RegNow.made, jobs', firing) /\ DueHolds(RegNow, due', jobs', firing)
      PROVE  XhrInv'
  <2>1. RegInv(RegNow, XhrBounds.gens)' /\ RegNow' = RegNow /\ made' = made
    BY <1>9, RegistryStays DEF RegNow, regVars, XhrInv
  <2>2. QED
    BY <1>2, <1>9, <2>1 DEF XhrInv
<1>10. ASSUME Xhr!SkipCleared PROVE XhrInv'
  <2>1. /\ UNCHANGED regVars /\ UNCHANGED <<st, opens, firing>> /\ due' = due
        /\ jobs # <<>> /\ Head(jobs).what = "cleared" /\ jobs' = Tail(jobs)
    BY <1>10 DEF Xhr!SkipCleared, Xhr!vars, regVars
  <2>2. Deferred(RegNow.made, Tail(jobs), firing) /\ DueHolds(RegNow, due, Tail(jobs), firing)
    BY <1>2, <2>1, DueSkipped
  <2>3. QED
    BY <1>9, <2>1, <2>2
<1>11. ASSUME NEW n \in DOMAIN jobs, Xhr!ClearTimer(n) PROVE XhrInv'
  <2>1. /\ UNCHANGED regVars /\ UNCHANGED <<st, opens, firing>> /\ jobs[n].what # "cleared"
        /\ jobs' = [jobs EXCEPT ![n].what = "cleared"]
    BY <1>11 DEF Xhr!ClearTimer, Xhr!vars, regVars
  <2>2. jobs[n].xhr \in 1 .. made
    BY <1>2 DEF Deferred
  <2>3. due' = IF Entry(RegNow, jobs[n].xhr) = 0 THEN due ELSE [due EXCEPT ![jobs[n].xhr] = due[jobs[n].xhr] - 1]
    BY <1>2, <1>11, <2>2 DEF Xhr!ClearTimer
  <2>4. Deferred(RegNow.made, jobs', firing) /\ DueHolds(RegNow, due', jobs', firing)
    <3>1. /\ RegNow.made \in Nat /\ Deferred(RegNow.made, jobs, firing) /\ DueHolds(RegNow, due, jobs, firing)
          /\ n \in DOMAIN jobs
      BY <1>2
    <3>2. jobs[n].what # "cleared" /\ jobs' = [jobs EXCEPT ![n].what = "cleared"]
      BY <2>1
    <3>3. QED
      BY <2>3, <3>1, <3>2, DueCleared
  <2>5. QED
    BY <1>9, <2>1, <2>4
<1>12. ASSUME Xhr!ClearTimers PROVE XhrInv'
  <2>1. /\ UNCHANGED regVars /\ UNCHANGED <<st, opens, firing>> /\ firing = Xhr!Idle /\ jobs' = <<>>
        /\ due' = [k \in DOMAIN due |-> IF Xhr!Gone(k) THEN due[k] ELSE due[k] - Xhr!Waiting(k)]
    BY <1>12 DEF Xhr!ClearTimers, Xhr!vars, regVars
  <2>2. due \in Seq(Nat) /\ DOMAIN due = 1 .. made /\ Len(due) = made
    BY <1>2, LenProperties DEF DueHolds
  <2>3. \A k \in 1 .. made : Running(firing, k) = 0
    BY <1>2, <2>1 DEF Running, Xhr!Idle
  <2>4. \A k \in 1 .. made : due'[k] \in Nat /\ (Entry(RegNow, k) # 0 => due'[k] = 0)
    <3> TAKE k \in 1 .. made
    <3>1. due[k] \in Nat /\ (Xhr!Gone(k) <=> Entry(RegNow, k) = 0)
      BY <1>2
    <3>2. due'[k] = IF Entry(RegNow, k) = 0 THEN due[k] ELSE due[k] - Cardinality(JobsOf(jobs, k))
      BY <2>1, <2>2, <3>1, WaitingIs
    <3>3. Entry(RegNow, k) # 0 => due[k] = Cardinality(JobsOf(jobs, k)) + 0
      BY <1>2, <2>3 DEF DueHolds, Waited
    <3>4. Cardinality(JobsOf(jobs, k)) \in Nat
      BY <1>2, JobsFinite DEF Deferred
    <3>5. QED
      BY <3>1, <3>2, <3>3, <3>4
  <2>5. due' \in Seq(Nat) /\ Len(due') = made
    <3>1. DOMAIN due' = 1 .. made
      BY <2>1, <2>2
    <3>2. due' \in [1 .. made -> Nat]
      BY <2>1, <2>4, <3>1
    <3>3. QED
      BY <1>2, <3>2, SeqDef, LenProperties
  <2>6. jobs' \in Seq(JobRec) /\ DOMAIN jobs' = {}
    BY <2>1, EmptySeq
  <2>7. \A k \in 1 .. made : Waited(jobs', firing, k) = 0
    <3> TAKE k \in 1 .. made
    <3>1. JobsOf(jobs', k) = {}
      BY <2>6 DEF JobsOf
    <3>2. QED
      BY <2>3, <3>1, FS_EmptySet DEF Waited
  <2>8. Deferred(RegNow.made, jobs', firing) /\ DueHolds(RegNow, due', jobs', firing)
    BY <1>2, <2>1, <2>4, <2>5, <2>6, <2>7 DEF Deferred, DueHolds
  <2>9. QED
    BY <1>9, <2>1, <2>8
<1>13. QED
  BY <1>2, <1>3, <1>4, <1>5, <1>6, <1>7, <1>8, <1>10, <1>11, <1>12 DEF Xhr!XhrNext

ObjectsInv == /\ scene = "registry" => RegInv(RegNow, RegBounds.gens)
              /\ scene = "xhr" => XhrInv
              /\ scene = "rtc" => RtcInv

LEMMA ObjectsStart == WorkerInit => ObjectsInv
<1> SUFFICES ASSUME WorkerInit PROVE ObjectsInv
  OBVIOUS
<1>1. CASE scene = "registry"
  <2>1. Xhr!Init
    BY <1>1 DEF WorkerInit, Xhr!XhrInit
  <2>2. RegInv(RegNow, RegBounds.gens)
    BY <2>1, RegistryStart DEF Xhr!Init
  <2>3. QED
    BY <1>1, <2>2 DEF ObjectsInv
<1>2. CASE scene = "xhr"
  BY <1>2, XhrStart DEF WorkerInit, ObjectsInv
<1>3. CASE scene = "rtc"
  BY <1>3, RtcStart DEF WorkerInit, ObjectsInv
<1>4. QED
  BY <1>1, <1>2, <1>3 DEF ObjectsInv

LEMMA ObjectsStep == ObjectsInv /\ [WorkerNext]_<<scene, workerVars>> => ObjectsInv'
<1> SUFFICES ASSUME ObjectsInv, [WorkerNext]_<<scene, workerVars>> PROVE ObjectsInv'
  OBVIOUS
<1>1. scene' = scene
  BY DEF WorkerNext
<1>2. CASE UNCHANGED <<scene, workerVars>>
  <2>1. /\ UNCHANGED <<slots, gens, free, live, made, ids>> /\ UNCHANGED <<st, opens, jobs, firing, due>>
    BY <1>2 DEF workerVars, regVars, objectVars
  <2>2. RegNow' = RegNow
    BY <2>1 DEF RegNow
  <2>3. XhrInv => XhrInv'
    BY <2>1, <2>2 DEF XhrInv
  <2>4. RtcInv => RtcInv'
    BY <2>1, <2>2 DEF RtcInv
  <2>5. QED
    BY <1>1, <2>2, <2>3, <2>4 DEF ObjectsInv
<1>3. CASE scene = "registry" /\ WorkerNext
  <2>1. Reg!Next /\ RegInv(RegNow, RegBounds.gens)
    BY <1>3 DEF WorkerNext, ObjectsInv
  <2>2. RegInv(RegNow, RegBounds.gens)'
    BY <2>1, RegistryMoves
  <2>3. QED
    BY <1>1, <1>3, <2>2 DEF ObjectsInv
<1>4. CASE scene = "xhr" /\ WorkerNext
  <2>1. Xhr!XhrNext /\ XhrInv
    BY <1>4 DEF WorkerNext, ObjectsInv
  <2>2. XhrInv'
    BY <2>1, XhrMoves
  <2>3. QED
    BY <1>1, <1>4, <2>2 DEF ObjectsInv
<1>5. CASE scene = "rtc" /\ WorkerNext
  <2>1. Rtc!RtcNext /\ opens' = opens /\ RtcInv
    BY <1>5 DEF WorkerNext, ObjectsInv
  <2>2. RtcInv'
    BY <2>1, RtcMoves
  <2>3. QED
    BY <1>1, <1>5, <2>2 DEF ObjectsInv
<1>6. CASE scene \notin {"registry", "xhr", "rtc"}
  BY <1>1, <1>6 DEF ObjectsInv
<1>7. QED
  BY <1>2, <1>3, <1>4, <1>5, <1>6

(* An id a script holds leads to its own object or to none, until a slot   *)
(* was given out as often as the generation counter has values; each       *)
(* request sees one loadend for each send and abort, but for those whose   *)
(* timer was dropped or cleared, and shows the reply to what was opened    *)
(* last; a peer is connected only by an offer of its own (RegVec of        *)
(* webidl.rs; XhrState and RtcState of netapi.rs; push_timer of timer.rs). *)
THEOREM ObjectsStayApart == WorkerSpec => []ObjectsApart
<1>1. ObjectsInv => ObjectsApart
  BY RegistrySays, XhrSays, RtcSays DEF ObjectsInv, ObjectsApart
<1>2. QED
  BY <1>1, ObjectsStart, ObjectsStep, PTL DEF WorkerSpec

-----------------------------------------------------------------------------
(* The worker's thread: which request, run of its script and engine what   *)
(* is in the followed store may be of, wherever the worker is.             *)

Serving == {"run", "exec", "script", "report", "leave"}
Entering == {"idle", "make", "enter", "run", "rebuild", "gone"}
Taken == {"cookies", "navigation"}     \* of what the outcome takes: what is cleared in between
OfScope == Scopes!ScopeState \cup Scopes!TreeState \cup {"layout", "net slot"}
Tags == [req : Nat, try : Nat, env : Nat]
Holding == held # Scopes!Empty

ScopeTypes ==
  /\ slot \in Scopes!Stores /\ held \in Tags
  /\ place \in {"idle", "make", "enter", "run", "exec", "script", "report", "leave", "rebuild", "gone"}
  /\ {req, try, env, engines} \subseteq Nat

(* What was put there since the request came: cleared on its way in, when  *)
(* its script was set up, or on the way out of the one before.             *)
OwnOnly ==
  /\ place \in Serving /\ slot \in OfScope /\ Holding => held.req = req
  /\ place \in {"exec", "script", "report"} /\ slot = "touches" /\ Holding => held.req = req
  /\ place = "script" /\ slot \in Scopes!Reset \cup Scopes!Renewed /\ Holding => held.req = req
  /\ place \in Entering /\ slot \in Taken => ~Holding
  /\ place \in {"script", "report"} /\ slot \in Taken /\ Holding => held.req = req /\ held.try = try

(* What went out with the outcome, until the next request comes.           *)
SentOnce ==
  /\ place \in {"make", "enter", "run", "exec", "script", "report"} => sent = Scopes!Empty
  /\ slot \in Taken /\ sent # Scopes!Empty => sent.req = req /\ sent.try = try

(* Values are of the engine there is; what it was set up with is there.    *)
OneEngine ==
  /\ place \in Serving \cup {"enter", "rebuild"} => env # 0
  /\ slot \in Scopes!Values /\ Holding => held.env = env
  /\ slot \in Scopes!FromEngine /\ place # "gone" /\ env # 0 => Holding

Signals ==
  /\ place \in {"run", "exec", "script", "report"} => control = req /\ cancelled = req
  /\ place \in {"idle", "make", "enter", "rebuild"} => control = 0

ScopesInv == ScopeTypes /\ OwnOnly /\ SentOnce /\ OneEngine /\ Signals

(* How the lists of stores lie to each other. *)
LEMMA StoreKinds ==
  ASSUME NEW s
  PROVE  /\ s \in Scopes!FromEngine =>
              /\ s \notin OfScope /\ s \notin Scopes!RequestState /\ s \notin Scopes!Reset
              /\ s \notin Scopes!Renewed /\ s \notin Scopes!ByScript /\ s \notin Taken
              /\ s \notin {"doc", "current script", "net slot", "touches", "handles", "input"}
              /\ s \in Scopes!Drained
         /\ s \in Scopes!Values =>
              /\ s \in Scopes!Drained /\ s \notin Scopes!Renewed
              /\ s \notin {"doc", "current script", "net slot", "input"}
         /\ s \in OfScope => s \in Scopes!ScopeState \cup Scopes!TreeState \cup {"layout", "net slot"}
         /\ s \in Scopes!ScopeState => s \in Scopes!RequestState
         /\ s \in Scopes!RequestState => s \in Scopes!Drained
         /\ s \in Taken =>
              /\ s \notin OfScope /\ s \in Scopes!RequestState /\ s \in Scopes!Reset /\ s \notin Scopes!Renewed
              /\ s \notin {"doc", "current script", "net slot", "touches", "handles", "input"}
              /\ s \in {"cookies", "navigation", "touches"} /\ s \in Scopes!Drained
         /\ s \in Scopes!Stores /\ s \notin Scopes!FromEngine /\ s \notin Scopes!OfEngine =>
              s \in OfScope \/ s = "touches" \/ s \in Scopes!Reset \/ s \in Scopes!Renewed
         /\ s \in Scopes!Reset => s \notin Scopes!Renewed
         /\ s = "touches" => s \notin OfScope /\ s \notin Scopes!Reset /\ s \notin Scopes!Renewed
<1> USE DEF Scopes!FromEngine, Scopes!RequestState, Scopes!Reset, Scopes!Renewed, Scopes!ByScript,
            Scopes!Drained,
       Scopes!Values, Scopes!ScopeState, Scopes!TreeState, Scopes!EngineState, Scopes!Stores, Scopes!OfEngine,
       OfScope, Taken
<1>1. s \in Scopes!FromEngine =>
       /\ s \notin OfScope /\ s \notin Scopes!RequestState /\ s \notin Scopes!Reset
       /\ s \notin Scopes!Renewed /\ s \notin Scopes!ByScript /\ s \notin Taken
       /\ s \notin {"doc", "current script", "net slot", "touches", "handles", "input"}
       /\ s \in Scopes!Drained
  OBVIOUS
<1>2. s \in Scopes!Values =>
       /\ s \in Scopes!Drained /\ s \notin Scopes!Renewed
       /\ s \notin {"doc", "current script", "net slot", "input"}
  OBVIOUS
<1>3. s \in OfScope => s \in Scopes!ScopeState \cup Scopes!TreeState \cup {"layout", "net slot"}
  OBVIOUS
<1>4. s \in Scopes!ScopeState => s \in Scopes!RequestState
  OBVIOUS
<1>5. s \in Scopes!RequestState => s \in Scopes!Drained
  OBVIOUS
<1>6. s \in Taken =>
       /\ s \notin OfScope /\ s \in Scopes!RequestState /\ s \in Scopes!Reset /\ s \notin Scopes!Renewed
       /\ s \notin {"doc", "current script", "net slot", "touches", "handles", "input"}
       /\ s \in {"cookies", "navigation", "touches"} /\ s \in Scopes!Drained
  OBVIOUS
<1>7. s \in Scopes!Stores /\ s \notin Scopes!FromEngine /\ s \notin Scopes!OfEngine =>
       s \in OfScope \/ s = "touches" \/ s \in Scopes!Reset \/ s \in Scopes!Renewed
  OBVIOUS
<1>8. s \in Scopes!Reset => s \notin Scopes!Renewed
  OBVIOUS
<1>9. s = "touches" => s \notin OfScope /\ s \notin Scopes!Reset /\ s \notin Scopes!Renewed
  OBVIOUS
<1> HIDE DEF Scopes!FromEngine, Scopes!RequestState, Scopes!Reset, Scopes!Renewed, Scopes!ByScript,
             Scopes!Drained,
       Scopes!Values, Scopes!ScopeState, Scopes!TreeState, Scopes!EngineState, Scopes!Stores, Scopes!OfEngine,
       OfScope, Taken
<1>20. QED
  BY <1>1, <1>2, <1>3, <1>4, <1>5, <1>6, <1>7, <1>8, <1>9

LEMMA ScopesStart == Scopes!Init => ScopesInv
<1> SUFFICES ASSUME Scopes!Init PROVE ScopesInv
  OBVIOUS
<1> USE DEF Scopes!Init, Scopes!Empty, Scopes!None
<1>1. ScopeTypes
  BY DEF ScopeTypes, Tags
<1>2. OwnOnly /\ SentOnce
  BY DEF OwnOnly, SentOnce, Serving, Entering, Holding
<1>3. OneEngine /\ Signals
  BY DEF OneEngine, Signals, Serving, Holding
<1>4. QED
  BY <1>1, <1>2, <1>3 DEF ScopesInv

(* What is in the store once an engine was made, or was not. *)
EngineOutcome(broken) ==
  /\ engines' \in Nat /\ held' \in Tags
  /\ \/ /\ env' = engines + 1 /\ env' # 0 /\ env' \in Nat
        /\ place' = IF place = "make" THEN "enter" ELSE "idle"
        /\ slot \in Scopes!FromEngine => held' # Scopes!Empty /\ held'.env = env'
        /\ slot \notin Scopes!FromEngine /\ slot \in Scopes!Drained => held' = Scopes!Empty
     \/ env' = 0 /\ place' = broken /\ (slot \in Scopes!Drained => held' = Scopes!Empty)
  /\ slot \notin Scopes!Drained => held' = held

LEMMA EngineMade ==
  ASSUME ScopeTypes, NEW broken, Scopes!Engine(broken)
  PROVE  EngineOutcome(broken)
<1>1. Scopes!Empty \in Tags /\ Scopes!Empty.env = 0
  BY DEF Scopes!Empty, Scopes!None, Tags
<1>2. engines' = engines + 1 /\ engines' \in Nat /\ engines' # 0
  BY DEF Scopes!Engine, ScopeTypes
<1>3. CASE /\ env' = engines + 1
           /\ place' = IF place = "make" THEN "enter" ELSE "idle"
           /\ held' = IF slot \in Scopes!FromEngine THEN [Scopes!Empty EXCEPT !.env = engines + 1]
                      ELSE IF slot \in Scopes!Drained THEN Scopes!Empty ELSE held
  <2>1. /\ [Scopes!Empty EXCEPT !.env = engines + 1] \in Tags
        /\ [Scopes!Empty EXCEPT !.env = engines + 1].env = engines + 1
    BY <1>1, <1>2 DEF Tags
  <2>2. [Scopes!Empty EXCEPT !.env = engines + 1] # Scopes!Empty
    BY <1>1, <1>2, <2>1
  <2>3. QED
    BY ZenonT(40), <1>1, <1>2, <1>3, <2>1, <2>2, StoreKinds DEF ScopeTypes, EngineOutcome
<1>4. CASE env' = 0 /\ place' = broken /\ held' = IF slot \in Scopes!Drained THEN Scopes!Empty ELSE held
  BY <1>1, <1>2, <1>4 DEF ScopeTypes, EngineOutcome
<1>5. QED
  BY <1>3, <1>4 DEF Scopes!Engine, Scopes!Is, Scopes!Clears, Scopes!None

LEMMA ScopesStep == ScopesInv /\ [Scopes!Next]_scopeVars => ScopesInv'
<1> SUFFICES ASSUME ScopesInv, [Scopes!Next]_scopeVars PROVE ScopesInv'
  OBVIOUS
<1>h. ScopeTypes /\ OwnOnly /\ SentOnce /\ OneEngine /\ Signals
  BY DEF ScopesInv
<1>e. Scopes!Empty \in Tags /\ Scopes!Empty.req = 0 /\ Scopes!Empty.env = 0
  BY DEF Scopes!Empty, Scopes!None, Tags
<1>m. /\ Scopes!Mine \in Tags /\ Scopes!Mine = [req |-> req, try |-> try, env |-> env]
  BY <1>h DEF ScopeTypes, Scopes!Mine, Scopes!By, Tags
<1>1. CASE Scopes!Take
  BY <1>h, <1>1 DEF Scopes!Take, Scopes!None,
                    ScopeTypes, OwnOnly, SentOnce, OneEngine, Signals, Serving, Entering, Holding, ScopesInv
<1>2. CASE Scopes!Make
  <2>1. /\ place = "make" /\ Scopes!Engine("idle")
        /\ UNCHANGED <<slot, req, try, err, control, cancelled, sent>>
    BY <1>2 DEF Scopes!Make
  <2>2. EngineOutcome("idle")
    BY <1>h, <2>1, EngineMade
  <2>3. ScopeTypes' /\ SentOnce' /\ Signals'
    BY <1>h, <2>1, <2>2 DEF EngineOutcome, ScopeTypes, SentOnce, Signals
  <2>4. OneEngine'
    BY ZenonT(40), <1>h, <1>e, <2>1, <2>2, StoreKinds DEF EngineOutcome, OneEngine, Serving, Holding
  <2>5. OwnOnly'
    <3>1. slot \in Taken => held' = Scopes!Empty
      BY ZenonT(40), <2>2, StoreKinds DEF EngineOutcome
    <3>2. place' \in {"enter", "idle", "gone"} /\ slot' = slot
      BY <2>1, <2>2 DEF EngineOutcome
    <3>3. QED
      BY <1>h, <3>1, <3>2 DEF OwnOnly, Serving, Entering, Holding
  <2>6. QED
    BY <2>3, <2>4, <2>5 DEF ScopesInv
<1>3. CASE Scopes!Enter
  BY ZenonT(40), <1>h, <1>3, <1>e, StoreKinds DEF Scopes!Enter, Scopes!Goes, Scopes!Clears, OfScope,
                                                  ScopeTypes, OwnOnly, SentOnce,
                                                  OneEngine, Signals, Serving, Entering, Holding, ScopesInv
<1>4. CASE Scopes!Run
  <2>1. /\ place = "run" /\ place' \in {"leave", "exec", "report"}
        /\ UNCHANGED <<slot, req, try, env, engines, control, cancelled, sent>>
        /\ \/ held' = held /\ (slot = "touches" => place' = "leave")
           \/ held' = Scopes!Mine /\ slot \in {"doc", "current script", "net slot"}
           \/ held' = Scopes!Empty /\ slot \in {"touches", "handles"}
    BY ZenonT(40), <1>4 DEF Scopes!Run, Scopes!Is
  <2>2. ScopeTypes' /\ Signals' /\ SentOnce'
    BY ZenonT(40), <1>h, <1>e, <1>m, <2>1 DEF ScopeTypes, SentOnce, Signals
  <2>3. OneEngine'
    BY ZenonT(40), <1>h, <1>e, <1>m, <2>1, StoreKinds DEF OneEngine, Serving, Holding
  <2>4. OwnOnly'
    <3>1. slot' = slot /\ req' = req /\ try' = try /\ place' \notin Entering /\ place' # "script"
      BY ZenonT(40), <1>h, <2>1 DEF Entering
    <3>2. slot \in OfScope /\ held' # Scopes!Empty => held'.req = req
      <4>1. Scopes!Mine.req = req
        BY <1>m
      <4>2. slot \in OfScope /\ held # Scopes!Empty => held.req = req
        BY ZenonT(40), <1>h, <2>1 DEF OwnOnly, Serving, Holding
      <4>3. held' = held \/ held' = Scopes!Mine \/ held' = Scopes!Empty
        BY ZenonT(40), <2>1
      <4>4. QED
        BY <4>1, <4>2, <4>3
    <3>3. slot = "touches" /\ place' # "leave" => held' = Scopes!Empty
      BY <2>1
    <3>4. slot \in Taken => held' = Scopes!Empty
      BY ZenonT(40), <1>h, <2>1, StoreKinds DEF OwnOnly, Entering, Holding
    <3>5. QED
      BY <1>h, <3>1, <3>2, <3>3, <3>4 DEF OwnOnly, Serving, Holding
  <2>5. QED
    BY <2>2, <2>3, <2>4 DEF ScopesInv
<1>5. CASE Scopes!Exec
  <2> DEFINE mine == [req |-> req, try |-> try + 1, env |-> env]
  <2>1. /\ place = "exec" /\ place' = "script" /\ try' = try + 1
        /\ UNCHANGED <<slot, req, env, engines, control, cancelled, sent>>
        /\ \/ held' = mine /\ slot \in Scopes!Renewed \cup {"input"}
           \/ held' = Scopes!Empty /\ slot \in Scopes!Reset
           \/ held' = held /\ slot \notin Scopes!Renewed /\ slot \notin Scopes!Reset
    BY <1>5 DEF Scopes!Exec, Scopes!Is, Scopes!Goes, Scopes!By
  <2>2. mine \in Tags /\ mine.req = req /\ mine.env = env /\ try' \in Nat
    BY <1>h, <2>1 DEF Tags, ScopeTypes
  <2> HIDE DEF mine
  <2>3. ScopeTypes' /\ Signals' /\ SentOnce'
    BY <1>h, <1>e, <2>1, <2>2 DEF ScopeTypes, SentOnce, Signals
  <2>4. OneEngine'
    BY ZenonT(40), <1>h, <1>e, <2>1, <2>2, StoreKinds DEF OneEngine, Serving, Holding
  <2>5. OwnOnly'
    BY ZenonT(40), <1>h, <1>e, <2>1, <2>2, StoreKinds DEF OwnOnly, Serving, Entering, Holding
  <2>6. QED
    BY <2>3, <2>4, <2>5 DEF ScopesInv
<1>6. CASE Scopes!Write
  BY ZenonT(40), <1>h, <1>6, <1>m, StoreKinds DEF Scopes!Write, Scopes!Is,
                                                  ScopeTypes, OwnOnly, SentOnce,
                                                  OneEngine, Signals, Serving, Entering, Holding, ScopesInv
<1>7. CASE Scopes!End
  BY <1>h, <1>7 DEF Scopes!End, Scopes!Goes,
                    ScopeTypes, OwnOnly, SentOnce, OneEngine, Signals, Serving, Entering, Holding, ScopesInv
<1>8. CASE Scopes!Panic
  BY <1>h, <1>8 DEF Scopes!Panic,
                    ScopeTypes, OwnOnly, SentOnce, OneEngine, Signals, Serving, Entering, Holding, ScopesInv
<1>9. CASE Scopes!Report
  <2>1. /\ place = "report" /\ place' = "leave"
        /\ UNCHANGED <<slot, req, try, env, engines, control, cancelled>>
        /\ sent' = IF slot \in {"cookies", "navigation", "touches"} THEN held ELSE Scopes!Empty
        /\ held' = IF slot \in {"navigation"} THEN Scopes!Empty ELSE held
    BY <1>9 DEF Scopes!Report, Scopes!Goes, Scopes!Is, Scopes!Clears
  <2>2. ScopeTypes' /\ Signals'
    BY <1>h, <1>e, <2>1 DEF ScopeTypes, Signals
  <2>3. SentOnce'
    BY ZenonT(40), <1>h, <1>e, <2>1, StoreKinds DEF SentOnce, OwnOnly, Holding
  <2>4. OneEngine' /\ OwnOnly'
    BY ZenonT(40), <1>h, <1>e, <2>1, StoreKinds DEF Scopes!FromEngine, OneEngine, OwnOnly, Serving, Entering,
                                                    Holding
  <2>5. QED
    BY <2>2, <2>3, <2>4 DEF ScopesInv
<1>10. CASE Scopes!Leave
  BY ZenonT(40), <1>h, <1>10, <1>e, StoreKinds DEF Scopes!Leave, Scopes!Clears, Scopes!None,
                                                   ScopeTypes, OwnOnly, SentOnce,
                                                   OneEngine, Signals, Serving, Entering, Holding, ScopesInv
<1>11. CASE Scopes!Rebuild
  <2>1. /\ place = "rebuild" /\ Scopes!Engine("gone")
        /\ UNCHANGED <<slot, req, try, sent>> /\ control' = 0
    BY <1>11 DEF Scopes!Rebuild, Scopes!None
  <2>2. EngineOutcome("gone")
    BY <1>h, <2>1, EngineMade
  <2>3. ScopeTypes' /\ SentOnce' /\ Signals'
    BY <1>h, <2>1, <2>2 DEF EngineOutcome, ScopeTypes, SentOnce, Signals
  <2>4. OneEngine'
    BY ZenonT(40), <1>h, <1>e, <2>1, <2>2, StoreKinds DEF EngineOutcome, OneEngine, Serving, Holding
  <2>5. OwnOnly'
    <3>1. slot \in Taken => held' = Scopes!Empty
      BY ZenonT(40), <2>2, StoreKinds DEF EngineOutcome
    <3>2. place' \in {"enter", "idle", "gone"} /\ slot' = slot
      BY <2>1, <2>2 DEF EngineOutcome
    <3>3. QED
      BY <1>h, <3>1, <3>2 DEF OwnOnly, Serving, Entering, Holding
  <2>6. QED
    BY <2>3, <2>4, <2>5 DEF ScopesInv
<1>12. CASE Scopes!Close
  BY ZenonT(40), <1>h, <1>12, <1>e, StoreKinds DEF Scopes!Close, Scopes!Goes, Scopes!Clears, Scopes!None,
                                                   ScopeTypes, OwnOnly, SentOnce,
                                                   OneEngine, Signals, Serving, Entering, Holding, ScopesInv
<1>13. CASE UNCHANGED scopeVars
  BY <1>h, <1>13 DEF scopeVars,
                     ScopeTypes, OwnOnly, SentOnce, OneEngine, Signals, Serving, Entering, Holding, ScopesInv
<1>14. QED
  BY <1>1, <1>2, <1>3, <1>4, <1>5, <1>6, <1>7, <1>8, <1>9, <1>10, <1>11, <1>12, <1>13 DEF Scopes!Next

LEMMA ScopesSay == ScopesInv => Scopes!NothingCarriedOver /\ Scopes!OwnEngine /\ Scopes!SignalsOwn
<1> SUFFICES ASSUME ScopesInv PROVE Scopes!NothingCarriedOver /\ Scopes!OwnEngine /\ Scopes!SignalsOwn
  OBVIOUS
<1> USE DEF ScopesInv, Scopes!Is, Holding
<1>1. Scopes!NothingCarriedOver
  BY ZenonT(40), StoreKinds DEF Scopes!NothingCarriedOver, ScopeTypes, OwnOnly, SentOnce, Serving, Taken
<1>2. Scopes!OwnEngine
  BY DEF Scopes!OwnEngine, OneEngine, Serving
<1>3. Scopes!SignalsOwn
  BY DEF Scopes!SignalsOwn, Signals, Scopes!None
<1>4. QED
  BY <1>1, <1>2, <1>3

(* A script finds nothing of the request before it, no value of an engine  *)
(* that is gone, and is stopped by its own request's flag only, however    *)
(* many requests and engines a worker goes through (RequestScope::enter    *)
(* and its drop, JsEnv::exec, worker_main and rebuild_env of worker.rs).   *)
THEOREM RequestsStayApart == WorkerSpec => []RequestsApart
<1>1. WorkerInit => ScopesInv
  BY ScopesStart DEF WorkerInit
<1>2. ScopesInv /\ [WorkerNext]_<<scene, workerVars>> => ScopesInv'
  <2> SUFFICES ASSUME ScopesInv, [WorkerNext]_<<scene, workerVars>> PROVE ScopesInv'
    OBVIOUS
  <2>1. [Scopes!Next]_scopeVars
    BY DEF WorkerNext, workerVars
  <2>2. QED
    BY <2>1, ScopesStep
<1>3. ScopesInv => RequestsApart
  BY ScopesSay DEF RequestsApart
<1>4. QED
  BY <1>1, <1>2, <1>3, PTL DEF WorkerSpec

-----------------------------------------------------------------------------
(* The observers: what a record is, where it is queued, and who was handed *)
(* it, for any number of observers, registrations and changes.             *)

Watching == WatchBounds.observers
RegRec == [obs : Watching, target : WatchBounds.targets, subtree : BOOLEAN, queue : Seq(Nat)]
BatchRec == [obs : Watching, recs : Seq(Nat)]
HandedNow == [o \in Watching |-> Watchers!Handed(o)]

(* Of the records rs, what each observer h was handed, and n changes.      *)
RecordsApart(rs, h, n) ==
  /\ \A i \in DOMAIN rs : rs[i] <= n
  /\ \A o \in Watching : \A v \in h[o] : v \in Nat /\ v <= n /\ (v # 0 => \A i \in DOMAIN rs : rs[i] # v)
  /\ \A o, q \in Watching : o # q => \A v \in h[o] : v \in h[q] => v = 0
  /\ \A i, k \in DOMAIN rs : i # k /\ rs[i] # 0 => rs[i] # rs[k]

QueueFits(queue, n) ==
  \A k \in DOMAIN queue : /\ queue[k] \in 1 .. n
                          /\ k > 1 => queue[k - 1] < queue[k]
QueuesFit(regs, n) == \A i \in DOMAIN regs : QueueFits(regs[i].queue, n)

RecTypes == /\ observers \in Seq(RegRec) /\ recs \in Seq(Nat) /\ changes \in Nat
            /\ batch \in Seq(BatchRec) /\ got \in [Watching -> SUBSET Nat]
RecInv == RecTypes /\ QueuesFit(observers, Len(recs)) /\ RecordsApart(recs, HandedNow, changes)

(* What retain leaves is a part of the list.                               *)
LEMMA LeftIs ==
  ASSUME NEW X, NEW list \in Seq(X), NEW S \in SUBSET (DOMAIN list)
  PROVE  /\ Watchers!Left(list, S) \in Seq(X)
         /\ \A k \in DOMAIN Watchers!Left(list, S) : \E i \in S : Watchers!Left(list, S)[k] = list[i]
<1> DEFINE n == Len(list)
           m == Cardinality(S)
           rank(i) == Cardinality(S \cap 1 .. i)
           ranks == [i \in S |-> rank(i)]
           left == Watchers!Left(list, S)
<1>1. n \in Nat /\ S \in SUBSET (1 .. n) /\ \A i \in 1 .. n : list[i] \in X
  BY LenProperties, ElementOfSeq
<1> HIDE DEF n
<1>2. IsFiniteSet(S) /\ m \in Nat
  <2>1. IsFiniteSet(1 .. n)
    BY <1>1, FirstNumbers
  <2>2. IsFiniteSet(S)
    BY <1>1, <2>1, FS_Subset
  <2>3. QED
    BY <2>2, FS_CardinalityType
<1>3. ASSUME NEW i \in S
      PROVE  rank(i) \in 1 .. m
  <2>1. i \in S \cap 1 .. i
    BY <1>1
  <2>2. IsFiniteSet(S \cap 1 .. i) /\ Cardinality(S \cap 1 .. i) <= m
    BY <1>2, FS_Subset
  <2>3. rank(i) \in Nat /\ rank(i) # 0
    BY <2>1, <2>2, FS_CardinalityType, FS_EmptySet
  <2>4. QED
    BY <1>2, <2>2, <2>3
<1>4. ASSUME NEW i \in S, NEW k \in S, i < k
      PROVE  rank(i) # rank(k)
  <2>1. S \cap 1 .. i \in SUBSET (S \cap 1 .. k) /\ k \in S \cap 1 .. k /\ k \notin S \cap 1 .. i
    BY <1>1, <1>4
  <2>2. IsFiniteSet(S \cap 1 .. k)
    BY <1>2, FS_Subset
  <2>3. S \cap 1 .. i # S \cap 1 .. k
    BY <2>1
  <2>4. QED
    BY <2>1, <2>2, <2>3, FS_Subset
<1>5. ranks \in Injection(S, 1 .. m)
  <2>1. ASSUME NEW i \in S, NEW k \in S, rank(i) = rank(k)
        PROVE  i = k
    <3>1. i \in 1 .. n /\ k \in 1 .. n /\ ~(i < k) /\ ~(k < i)
      BY <1>1, <1>4, <2>1
    <3>2. QED
      BY <3>1
  <2> HIDE DEF rank
  <2>2. QED
    BY <1>3, <2>1 DEF Injection, IsInjective
<1>6. \A k \in 1 .. m : \E i \in S : rank(i) = k
  <2>1. IsFiniteSet(1 .. m) /\ Cardinality(1 .. m) = m
    BY <1>2, FirstNumbers
  <2>2. ranks \in Surjection(S, 1 .. m)
    BY <1>2, <1>5, <2>1, FS_Injection
  <2>3. QED
    BY <2>2 DEF Surjection
<1>7. left = [k \in 1 .. m |-> list[CHOOSE i \in S : rank(i) = k]]
  BY DEF Watchers!Left, Watchers!Cardinality, Cardinality
<1> HIDE DEF left, m, rank
<1>8. \A k \in 1 .. m : (CHOOSE i \in S : rank(i) = k) \in S
  BY <1>6
<1>9. \A k \in 1 .. m : left[k] \in X /\ \E i \in S : left[k] = list[i]
  BY <1>1, <1>7, <1>8
<1>10. left \in [1 .. m -> X] /\ DOMAIN left = 1 .. m
  BY <1>7, <1>9
<1>11. left \in Seq(X)
  BY <1>2, <1>10
<1>12. QED
  BY <1>9, <1>10, <1>11 DEF left

(* A record that is new is larger than all before it.                      *)
LEMMA ApartChanged ==
  ASSUME NEW rs \in Seq(Nat), NEW h, NEW n \in Nat, RecordsApart(rs, h, n)
  PROVE  RecordsApart(rs, h, n + 1) /\ RecordsApart(Append(rs, n + 1), h, n + 1)
<1>1. Len(rs) \in Nat /\ DOMAIN rs = 1 .. Len(rs) /\ \A i \in 1 .. Len(rs) : rs[i] \in Nat
  BY LenProperties, ElementOfSeq
<1>2. RecordsApart(rs, h, n + 1)
  BY <1>1 DEF RecordsApart
<1> DEFINE r == Append(rs, n + 1)
<1>3. /\ DOMAIN r = 1 .. Len(rs) + 1 /\ r[Len(rs) + 1] = n + 1
      /\ \A i \in 1 .. Len(rs) : r[i] = rs[i] /\ r[i] <= n /\ r[i] \in Nat
  <2>1. r \in Seq(Nat) /\ Len(r) = Len(rs) + 1 /\ r[Len(rs) + 1] = n + 1 /\ \A i \in 1 .. Len(rs) : r[i] = rs[i]
    BY AppendProperties
  <2>2. QED
    BY <1>1, <2>1, LenProperties DEF RecordsApart
<1> HIDE DEF r
<1>4. \A i \in DOMAIN r : i \in 1 .. Len(rs) \/ i = Len(rs) + 1
  BY <1>1, <1>3
<1>5. \A i \in DOMAIN r : r[i] <= n + 1
  BY <1>3, <1>4
<1>6. ASSUME NEW o \in Watching, NEW v \in h[o], v # 0
      PROVE  \A i \in DOMAIN r : r[i] # v
  BY <1>1, <1>3, <1>4, <1>6 DEF RecordsApart
<1>7. \A i, k \in DOMAIN r : i # k /\ r[i] # 0 => r[i] # r[k]
  BY <1>1, <1>3, <1>4 DEF RecordsApart
<1>8. RecordsApart(r, h, n + 1)
  BY <1>2, <1>5, <1>6, <1>7 DEF RecordsApart
<1>9. QED
  BY <1>2, <1>8 DEF r

(* Records that are moved out of the positions T go to one observer each:  *)
(* what they are handed is g, once it was h.                               *)
MovedApart(rs, T, h, g, share) ==
  /\ \A o \in Watching : share[o] \in SUBSET (T \cap DOMAIN rs)
  /\ \A o, q \in Watching : o # q => share[o] \cap share[q] = {}
  /\ \A o \in Watching : \A v \in g[o] : v \in h[o] \/ v = 0 \/ \E i \in share[o] : v = rs[i]

LEMMA ApartMoved ==
  ASSUME NEW rs \in Seq(Nat), NEW h, NEW n \in Nat, RecordsApart(rs, h, n), NEW T, NEW g, NEW share,
         MovedApart(rs, T, h, g, share)
  PROVE  /\ Watchers!Without(rs, T) \in Seq(Nat) /\ Len(Watchers!Without(rs, T)) = Len(rs)
         /\ RecordsApart(Watchers!Without(rs, T), g, n)
<1> USE DEF MovedApart
<1> DEFINE r == Watchers!Without(rs, T)
<1>1. Len(rs) \in Nat /\ DOMAIN rs = 1 .. Len(rs) /\ \A i \in 1 .. Len(rs) : rs[i] \in Nat
  BY LenProperties, ElementOfSeq
<1>2. r = [i \in DOMAIN rs |-> IF i \in T THEN 0 ELSE rs[i]]
  BY DEF Watchers!Without, Watchers!Empty
<1> HIDE DEF r
<1>3. r \in Seq(Nat) /\ Len(r) = Len(rs)
  <2>1. r \in [1 .. Len(rs) -> Nat]
    BY <1>1, <1>2
  <2>2. QED
    BY <1>1, <2>1
<1>4. DOMAIN r = DOMAIN rs /\ \A i \in DOMAIN rs : r[i] = 0 \/ (i \notin T /\ r[i] = rs[i])
  BY <1>2
<1>5. \A i \in DOMAIN r : r[i] <= n
  BY <1>1, <1>4 DEF RecordsApart
<1>6. \A i, k \in DOMAIN r : i # k /\ r[i] # 0 => r[i] # r[k]
  BY <1>4 DEF RecordsApart
<1>7. ASSUME NEW o \in Watching, NEW v \in g[o]
      PROVE  v \in Nat /\ v <= n /\ (v # 0 => \A i \in DOMAIN r : r[i] # v)
  <2>1. CASE v \in h[o]
    BY <1>4, <2>1 DEF RecordsApart
  <2>2. CASE v = 0
    BY <2>2
  <2>3. ASSUME NEW k \in share[o], v = rs[k]
        PROVE  v \in Nat /\ v <= n /\ (v # 0 => \A i \in DOMAIN r : r[i] # v)
    <3>1. k \in DOMAIN rs /\ k \in T
      OBVIOUS
    <3>2. v \in Nat /\ v <= n
      BY <1>1, <2>3, <3>1 DEF RecordsApart
    <3>3. ASSUME v # 0, NEW i \in DOMAIN r
          PROVE  r[i] # v
      BY <1>4, <2>3, <3>1, <3>3 DEF RecordsApart
    <3>4. QED
      BY <3>2, <3>3
  <2>4. QED
    BY <2>1, <2>2, <2>3
<1>8. ASSUME NEW o \in Watching, NEW q \in Watching, o # q, NEW v \in g[o], v \in g[q]
      PROVE  v = 0
  <2>1. CASE v \in h[o] /\ v \in h[q]
    BY <1>8, <2>1 DEF RecordsApart
  <2>2. ASSUME NEW p \in Watching, v \in h[p], NEW s \in Watching, NEW k \in share[s], v = rs[k]
        PROVE  v = 0
    <3>1. k \in DOMAIN rs
      OBVIOUS
    <3>2. QED
      BY <2>2, <3>1 DEF RecordsApart
  <2>3. ASSUME NEW i \in share[o], NEW k \in share[q], v = rs[i], v = rs[k]
        PROVE  v = 0
    <3>1. i \in DOMAIN rs /\ k \in DOMAIN rs /\ i # k
      BY <1>8
    <3>2. QED
      BY <2>3, <3>1 DEF RecordsApart
  <2>4. QED
    BY <1>8, <2>1, <2>2, <2>3
<1>9. RecordsApart(r, g, n)
  BY <1>5, <1>6, <1>7, <1>8 DEF RecordsApart
<1>10. QED
  BY <1>3, <1>9 DEF r

(* The list is cleared when nobody has a record queued.                    *)
LEMMA TidyKeeps ==
  ASSUME NEW regs \in Seq(RegRec), NEW rs \in Seq(Nat), QueuesFit(regs, Len(rs)),
         NEW h, NEW n \in Nat, RecordsApart(rs, h, n)
  PROVE  /\ Watchers!Tidy(regs, rs) \in Seq(Nat)
         /\ QueuesFit(regs, Len(Watchers!Tidy(regs, rs)))
         /\ RecordsApart(Watchers!Tidy(regs, rs), h, n)
<1>1. CASE Watchers!Tidy(regs, rs) = rs
  BY <1>1
<1>2. CASE Watchers!Tidy(regs, rs) # rs
  <2>1. Watchers!Tidy(regs, rs) = <<>> /\ \A i \in DOMAIN regs : regs[i].queue = <<>>
    BY <1>2 DEF Watchers!Tidy
  <2>2. QueuesFit(regs, Len(<<>>))
    BY <2>1 DEF QueuesFit, QueueFits
  <2>3. <<>> \in Seq(Nat) /\ RecordsApart(<<>>, h, n)
    BY DEF RecordsApart
  <2>4. QED
    BY <2>1, <2>2, <2>3
<1>3. QED
  BY <1>1, <1>2

LEMMA RecordsStart == Watchers!Init => RecInv
<1> SUFFICES ASSUME Watchers!Init PROVE RecInv
  OBVIOUS
<1>1. /\ observers = <<>> /\ recs = <<>> /\ batch = <<>> /\ changes = 0
      /\ got = [o \in Watching |-> {}]
  BY DEF Watchers!Init, Watching
<1>2. RecTypes
  BY <1>1 DEF RecTypes
<1>3. HandedNow = [o \in Watching |-> {}]
  BY <1>1 DEF HandedNow, Watchers!Handed, Watchers!ToSet
<1>4. RecordsApart(recs, HandedNow, changes)
  BY <1>1, <1>3 DEF RecordsApart
<1>5. QueuesFit(observers, Len(recs))
  BY <1>1 DEF QueuesFit
<1>6. QED
  BY <1>2, <1>4, <1>5 DEF RecInv

(* A registration's queue, and one more record in it.                      *)
LEMMA QueueGrows ==
  ASSUME NEW queue \in Seq(Nat), NEW n \in Nat, QueueFits(queue, n)
  PROVE  QueueFits(queue, n + 1) /\ QueueFits(Append(queue, n + 1), n + 1)
<1>1. Len(queue) \in Nat /\ DOMAIN queue = 1 .. Len(queue)
  BY LenProperties
<1>2. QueueFits(queue, n + 1)
  BY DEF QueueFits
<1> DEFINE p == Append(queue, n + 1)
<1>3. /\ DOMAIN p = 1 .. Len(queue) + 1 /\ p[Len(queue) + 1] = n + 1
      /\ \A k \in 1 .. Len(queue) : p[k] = queue[k]
  <2>1. p \in Seq(Nat) /\ Len(p) = Len(queue) + 1 /\ p[Len(queue) + 1] = n + 1
        /\ \A k \in 1 .. Len(queue) : p[k] = queue[k]
    BY AppendProperties
  <2>2. QED
    BY <2>1, LenProperties
<1> HIDE DEF p
<1>4. ASSUME NEW k \in DOMAIN p
      PROVE  p[k] \in 1 .. n + 1 /\ (k > 1 => p[k - 1] < p[k])
  <2>1. CASE k \in 1 .. Len(queue)
    <3>1. p[k] = queue[k] /\ (k > 1 => k - 1 \in 1 .. Len(queue) /\ p[k - 1] = queue[k - 1])
      BY <1>1, <1>3, <2>1
    <3>2. QED
      BY <1>1, <1>2, <2>1, <3>1 DEF QueueFits
  <2>2. CASE k = Len(queue) + 1
    <3>1. p[k] = n + 1 /\ (k > 1 => Len(queue) \in DOMAIN queue /\ p[k - 1] = queue[Len(queue)])
      BY <1>1, <1>3, <2>2
    <3>2. k > 1 => queue[Len(queue)] \in 1 .. n
      BY <3>1 DEF QueueFits
    <3>3. QED
      BY <3>1, <3>2
  <2>3. QED
    BY <1>1, <1>3, <2>1, <2>2
<1>5. QueueFits(p, n + 1)
  BY <1>4 DEF QueueFits
<1>6. QED
  BY <1>2, <1>5 DEF p

LEMMA ChangeMoves ==
  ASSUME RecInv, NEW t \in WatchBounds.targets, Watchers!Change(t)
  PROVE  RecInv'
<1>1. /\ changes' = changes + 1 /\ UNCHANGED <<batch, got>>
      /\ IF observers = <<>> THEN UNCHANGED <<observers, recs>> ELSE Watchers!Fanout(t, changes')
  BY DEF Watchers!Change
<1>2. HandedNow' = HandedNow
  BY <1>1 DEF HandedNow, Watchers!Handed
<1>3. /\ RecTypes /\ QueuesFit(observers, Len(recs)) /\ RecordsApart(recs, HandedNow, changes)
      /\ changes \in Nat /\ changes' \in Nat /\ recs \in Seq(Nat) /\ observers \in Seq(RegRec)
      /\ batch' \in Seq(BatchRec) /\ got' \in [Watching -> SUBSET Nat]
  BY <1>1 DEF RecInv, RecTypes
<1>4. /\ RecordsApart(recs, HandedNow, changes + 1)
      /\ RecordsApart(Append(recs, changes + 1), HandedNow, changes + 1)
  BY <1>3, ApartChanged
<1>5. CASE observers = <<>>
  BY <1>1, <1>2, <1>3, <1>4, <1>5 DEF RecInv, RecTypes
<1>6. CASE observers # <<>>
  <2> DEFINE n == Len(recs)
             one(r) == IF Watchers!Matches(r, t) THEN [r EXCEPT !.queue = Append(@, n + 1)] ELSE r
  <2>1. recs' = Append(recs, changes + 1) /\ n \in Nat /\ recs' \in Seq(Nat) /\ Len(recs') = n + 1
    <3>1. recs' = Append(recs, changes + 1)
      BY <1>1, <1>6 DEF Watchers!Fanout
    <3>2. changes + 1 \in Nat
      BY <1>3
    <3>3. QED
      BY <1>3, <3>1, <3>2, AppendProperties, LenProperties
  <2>2. observers' = [i \in DOMAIN observers |-> one(observers[i])]
    BY <1>1, <1>6, <2>1 DEF Watchers!Fanout
  <2>3. ASSUME NEW r \in RegRec, QueueFits(r.queue, n)
        PROVE  one(r) \in RegRec /\ QueueFits(one(r).queue, n + 1)
    <3>1. /\ r.queue \in Seq(Nat) /\ Append(r.queue, n + 1) \in Seq(Nat)
          /\ QueueFits(r.queue, n + 1) /\ QueueFits(Append(r.queue, n + 1), n + 1)
      BY <2>1, <2>3, QueueGrows, AppendProperties DEF RegRec
    <3>2. CASE one(r) = r
      BY <3>1, <3>2
    <3>3. CASE one(r) = [r EXCEPT !.queue = Append(@, n + 1)]
      BY <3>1, <3>3 DEF RegRec
    <3>4. QED
      BY <3>2, <3>3
  <2> HIDE DEF n, one
  <2>4. \A i \in DOMAIN observers : observers[i] \in RegRec /\ QueueFits(observers[i].queue, n)
    BY <1>3, ElementOfSeq, LenProperties DEF QueuesFit, n
  <2>5. \A i \in DOMAIN observers : observers'[i] \in RegRec /\ QueueFits(observers'[i].queue, n + 1)
    BY <2>2, <2>3, <2>4
  <2>6. observers' \in Seq(RegRec) /\ DOMAIN observers' = DOMAIN observers
    <3>1. observers' \in [1 .. Len(observers) -> RegRec] /\ Len(observers) \in Nat
      BY <1>3, <2>2, <2>5, LenProperties
    <3>2. QED
      BY <1>3, <2>2, <3>1
  <2>7. QueuesFit(observers', Len(recs'))
    BY <2>1, <2>5, <2>6 DEF QueuesFit
  <2>8. QED
    BY <1>1, <1>2, <1>3, <1>4, <2>1, <2>6, <2>7 DEF RecInv, RecTypes
<1>7. QED
  BY <1>5, <1>6

(* A part of the registrations.                                            *)
LEMMA LeftFits ==
  ASSUME NEW regs \in Seq(RegRec), NEW n \in Nat, QueuesFit(regs, n), NEW S \in SUBSET (DOMAIN regs)
  PROVE  Watchers!Left(regs, S) \in Seq(RegRec) /\ QueuesFit(Watchers!Left(regs, S), n)
BY LeftIs DEF QueuesFit

LEMMA ObserveMoves ==
  ASSUME RecInv, NEW o \in Watching, NEW t \in WatchBounds.targets, NEW deep \in BOOLEAN,
         Watchers!Observe(o, t, deep)
  PROVE  RecInv'
<1>1. UNCHANGED <<recs, batch, changes, got>>
  BY DEF Watchers!Observe
<1>2. HandedNow' = HandedNow
  BY <1>1 DEF HandedNow, Watchers!Handed
<1>3. /\ QueuesFit(observers, Len(recs)) /\ RecordsApart(recs, HandedNow, changes) /\ RecTypes
      /\ observers \in Seq(RegRec) /\ recs \in Seq(Nat) /\ Len(recs) \in Nat
  BY LenProperties DEF RecInv, RecTypes
<1>4. CASE observers' = observers
  BY <1>1, <1>2, <1>3, <1>4 DEF RecInv, RecTypes
<1>5. CASE observers' # observers
  <2> DEFINE S == {i \in DOMAIN observers : ~(observers[i].obs = o /\ observers[i].target = t)}
             left == Watchers!Left(observers, S)
             r == [obs |-> o, target |-> t, subtree |-> deep, queue |-> <<>>]
  <2>1. observers' = Append(left, r)
    BY <1>5 DEF Watchers!Observe
  <2>2. left \in Seq(RegRec) /\ QueuesFit(left, Len(recs))
    BY <1>3, LeftFits
  <2>3. r \in RegRec /\ QueueFits(r.queue, Len(recs))
    BY DEF RegRec, QueueFits
  <2> HIDE DEF left, r
  <2>4. /\ observers' \in Seq(RegRec) /\ DOMAIN observers' = 1 .. Len(left) + 1 /\ observers'[Len(left) + 1] = r
        /\ Len(left) \in Nat /\ DOMAIN left = 1 .. Len(left) /\ \A i \in 1 .. Len(left) : observers'[i] = left[i]
    BY <2>1, <2>2, <2>3, AppendProperties, LenProperties
  <2>5. \A i \in DOMAIN observers' : i \in DOMAIN left \/ i = Len(left) + 1
    BY <2>4
  <2>6. QueuesFit(observers', Len(recs))
    BY <2>2, <2>3, <2>4, <2>5 DEF QueuesFit
  <2>7. QED
    BY <1>1, <1>2, <1>3, <2>4, <2>6 DEF RecInv, RecTypes
<1>6. QED
  BY <1>4, <1>5

LEMMA DisconnectMoves ==
  ASSUME RecInv, NEW o \in Watching, Watchers!Disconnect(o)
  PROVE  RecInv'
<1> DEFINE S == {i \in DOMAIN observers : observers[i].obs # o}
<1>1. /\ UNCHANGED <<batch, changes, got>> /\ observers' = Watchers!Left(observers, S)
      /\ recs' = Watchers!Tidy(observers', recs)
  BY DEF Watchers!Disconnect
<1>2. HandedNow' = HandedNow
  BY <1>1 DEF HandedNow, Watchers!Handed
<1>3. /\ QueuesFit(observers, Len(recs)) /\ RecordsApart(recs, HandedNow, changes) /\ RecTypes
      /\ observers \in Seq(RegRec) /\ recs \in Seq(Nat) /\ Len(recs) \in Nat /\ changes \in Nat
  BY LenProperties DEF RecInv, RecTypes
<1>4. observers' \in Seq(RegRec) /\ QueuesFit(observers', Len(recs))
  BY <1>1, <1>3, LeftFits
<1>5. recs' \in Seq(Nat) /\ QueuesFit(observers', Len(recs')) /\ RecordsApart(recs', HandedNow, changes)
  BY <1>1, <1>3, <1>4, TidyKeeps
<1>6. QED
  BY <1>1, <1>2, <1>3, <1>4, <1>5 DEF RecInv, RecTypes

LEMMA TakeMoves ==
  ASSUME RecInv, NEW o \in Watching, Watchers!TakeRecords(o)
  PROVE  RecInv'
<1>1. PICK i \in DOMAIN observers :
        /\ observers[i].obs = o
        /\ got' = [got EXCEPT ![o] = @ \cup Watchers!ToSet(Watchers!Moved(recs, observers[i].queue))]
        /\ observers' = [observers EXCEPT ![i].queue = <<>>]
        /\ recs' = Watchers!Tidy(observers', Watchers!Without(recs, Watchers!ToSet(observers[i].queue)))
        /\ UNCHANGED <<batch, changes>>
  BY DEF Watchers!TakeRecords
<1>2. /\ QueuesFit(observers, Len(recs)) /\ RecordsApart(recs, HandedNow, changes) /\ RecTypes
      /\ observers \in Seq(RegRec) /\ recs \in Seq(Nat) /\ Len(recs) \in Nat /\ changes \in Nat
      /\ DOMAIN recs = 1 .. Len(recs) /\ DOMAIN observers = 1 .. Len(observers)
      /\ got \in [Watching -> SUBSET Nat]
  BY LenProperties DEF RecInv, RecTypes
<1> DEFINE queue == observers[i].queue
           T == Watchers!ToSet(queue)
           moved == Watchers!ToSet(Watchers!Moved(recs, queue))
           share == [q \in Watching |-> IF q = o THEN T ELSE {}]
           rs == Watchers!Without(recs, T)
           g == HandedNow'
<1>3. observers[i] \in RegRec /\ queue \in Seq(Nat) /\ QueueFits(queue, Len(recs))
  <2>1. observers[i] \in RegRec
    BY <1>2, ElementOfSeq
  <2>2. QED
    BY <1>2, <2>1 DEF RegRec, QueuesFit
<1>4. T \in SUBSET (DOMAIN recs)
  BY <1>2, <1>3 DEF QueueFits, Watchers!ToSet
<1>5. \A v \in moved : \E k \in T : v = recs[k]
  BY DEF Watchers!Moved, Watchers!ToSet
<1>6. moved \in SUBSET Nat
  BY <1>2, <1>4, <1>5, ElementOfSeq
<1>7. got' = [got EXCEPT ![o] = @ \cup moved]
  BY <1>1
<1>8. rs = Watchers!Without(recs, T) /\ recs' = Watchers!Tidy(observers', rs)
  BY <1>1
<1> HIDE DEF moved, T, rs
<1>9. ASSUME NEW q \in Watching, NEW v \in g[q]
      PROVE  v \in HandedNow[q] \/ v = 0 \/ \E k \in share[q] : v = recs[k]
  <2> DEFINE waiting == {j \in DOMAIN batch : batch[j].obs = q}
  <2>1. /\ HandedNow[q] = got[q] \cup UNION {Watchers!ToSet(batch[j].recs) : j \in waiting}
        /\ g[q] = got'[q] \cup UNION {Watchers!ToSet(batch[j].recs) : j \in waiting}
    BY <1>1 DEF HandedNow, Watchers!Handed
  <2>2. got'[q] = IF q = o THEN got[q] \cup moved ELSE got[q]
    BY <1>2, <1>7
  <2>3. v \in HandedNow[q] \/ (q = o /\ v \in moved)
    BY <1>9, <2>1, <2>2
  <2>4. QED
    BY <1>5, <2>3
<1> HIDE DEF g
<1>10. rs \in Seq(Nat) /\ Len(rs) = Len(recs) /\ RecordsApart(rs, g, changes)
  <2>1. \A q \in Watching : share[q] \in SUBSET (T \cap DOMAIN recs)
    BY <1>4
  <2>2. \A q, p \in Watching : q # p => share[q] \cap share[p] = {}
    OBVIOUS
  <2>3. \A q \in Watching : \A v \in g[q] : v \in HandedNow[q] \/ v = 0 \/ \E k \in share[q] : v = recs[k]
    BY <1>9
  <2> HIDE DEF share
  <2>4. /\ RecordsApart(recs, HandedNow, changes) /\ recs \in Seq(Nat) /\ changes \in Nat
        /\ MovedApart(recs, T, HandedNow, g, share)
    BY <1>2, <2>1, <2>2, <2>3 DEF MovedApart
  <2>5. /\ Watchers!Without(recs, T) \in Seq(Nat) /\ Len(Watchers!Without(recs, T)) = Len(recs)
        /\ RecordsApart(Watchers!Without(recs, T), g, changes)
    BY <2>4, ApartMoved
  <2>6. QED
    BY <1>8, <2>5
<1>11. observers' \in Seq(RegRec) /\ QueuesFit(observers', Len(rs))
  <2> DEFINE r == [observers[i] EXCEPT !.queue = <<>>]
  <2>1. r \in RegRec /\ QueueFits(r.queue, Len(recs))
    <3>1. <<>> \in Seq(Nat)
      OBVIOUS
    <3>2. r.queue = <<>> /\ r \in RegRec
      BY <1>3, <3>1 DEF RegRec
    <3>3. QED
      BY <3>2 DEF QueueFits
  <2>2. observers' = [observers EXCEPT ![i] = r]
    BY <1>1
  <2> HIDE DEF r
  <2>3. /\ observers' \in Seq(RegRec) /\ DOMAIN observers' = DOMAIN observers
        /\ \A j \in DOMAIN observers : observers'[j] = IF j = i THEN r ELSE observers[j]
    BY <1>2, <2>1, <2>2, ExceptSeq
  <2>4. QED
    BY <1>2, <1>10, <2>1, <2>3 DEF QueuesFit
<1>12. recs' \in Seq(Nat) /\ QueuesFit(observers', Len(recs')) /\ RecordsApart(recs', g, changes)
  BY <1>2, <1>8, <1>10, <1>11, TidyKeeps
<1>13. got' \in [Watching -> SUBSET Nat]
  BY <1>2, <1>6, <1>7
<1>14. QED
  BY <1>1, <1>2, <1>11, <1>12, <1>13 DEF RecInv, RecTypes, g

LEMMA FlushMoves ==
  ASSUME RecInv, Watchers!Flush
  PROVE  RecInv'
<1> DEFINE full == {i \in DOMAIN observers : observers[i].queue # <<>>}
           list == [i \in DOMAIN observers |-> Watchers!Entry(i)]
           T == Watchers!Queued(full)
           mine(i) == Watchers!ToSet(observers[i].queue) \ Watchers!Queued(1 .. i - 1)
           share == [o \in Watching |-> UNION {mine(i) : i \in {i \in full : observers[i].obs = o}}]
           g == HandedNow'
<1>1. /\ batch = <<>> /\ batch' = Watchers!Left(list, full) /\ recs' = Watchers!Without(recs, T)
      /\ observers' = [i \in DOMAIN observers |-> [observers[i] EXCEPT !.queue = <<>>]]
      /\ UNCHANGED <<changes, got>>
  BY DEF Watchers!Flush
<1>2. /\ QueuesFit(observers, Len(recs)) /\ RecordsApart(recs, HandedNow, changes) /\ RecTypes
      /\ observers \in Seq(RegRec) /\ recs \in Seq(Nat) /\ Len(recs) \in Nat /\ changes \in Nat
      /\ DOMAIN recs = 1 .. Len(recs) /\ DOMAIN observers = 1 .. Len(observers) /\ Len(observers) \in Nat
      /\ got \in [Watching -> SUBSET Nat]
  BY LenProperties DEF RecInv, RecTypes
<1>3. \A i \in DOMAIN observers : observers[i] \in RegRec /\ QueueFits(observers[i].queue, Len(recs))
  BY <1>2, ElementOfSeq DEF QueuesFit
<1>4. \A i \in DOMAIN observers : Watchers!ToSet(observers[i].queue) \in SUBSET (DOMAIN recs)
  BY <1>2, <1>3 DEF QueueFits, Watchers!ToSet
<1>5. \A o \in Watching : share[o] \in SUBSET (T \cap DOMAIN recs)
  BY <1>4 DEF Watchers!Queued
<1>6. \A o, q \in Watching : o # q => share[o] \cap share[q] = {}
  <2>1. ASSUME NEW i \in full, NEW j \in full, i < j
        PROVE  mine(i) \cap mine(j) = {}
    <3>1. i \in 1 .. j - 1
      BY <1>2, <2>1
    <3>2. QED
      BY <3>1 DEF Watchers!Queued
  <2>2. ASSUME NEW i \in full, NEW j \in full, i # j
        PROVE  mine(i) \cap mine(j) = {}
    <3>1. i < j \/ j < i
      BY <1>2, <2>2
    <3>2. QED
      BY <2>1, <3>1
  <2> HIDE DEF mine, full
  <2>3. QED
    BY <2>2
<1>7. ASSUME NEW i \in DOMAIN observers
      PROVE  /\ list[i] \in BatchRec /\ list[i].obs = observers[i].obs
             /\ \A v \in Watchers!ToSet(list[i].recs) : v = 0 \/ \E k \in mine(i) : v = recs[k]
  <2> DEFINE queue == observers[i].queue
             earlier == Watchers!Queued(1 .. i - 1)
             moved == Watchers!Moved(Watchers!Without(recs, earlier), queue)
  <2>1. queue \in Seq(Nat) /\ observers[i].obs \in Watching /\ \A k \in DOMAIN queue : queue[k] \in DOMAIN recs
    BY <1>2, <1>3 DEF RegRec, QueueFits
  <2>2. list[i] = [obs |-> observers[i].obs, recs |-> moved]
    BY DEF Watchers!Entry
  <2>3. moved = [k \in DOMAIN queue |-> IF queue[k] \in earlier THEN 0 ELSE recs[queue[k]]]
    BY <2>1 DEF Watchers!Moved, Watchers!Without, Watchers!Empty
  <2>4. mine(i) = {queue[k] : k \in DOMAIN queue} \ earlier
    BY DEF Watchers!ToSet
  <2> HIDE DEF moved, earlier, queue, list, mine
  <2>5. moved \in Seq(Nat)
    <3>1. \A k \in DOMAIN queue : moved[k] \in Nat
      BY <1>2, <2>1, <2>3, ElementOfSeq
    <3>2. DOMAIN queue = 1 .. Len(queue) /\ Len(queue) \in Nat
      BY <2>1, LenProperties
    <3>3. moved \in [1 .. Len(queue) -> Nat]
      BY <2>3, <3>1, <3>2
    <3>4. QED
      BY <3>2, <3>3
  <2>6. \A v \in Watchers!ToSet(moved) : v = 0 \/ \E k \in mine(i) : v = recs[k]
    BY <2>3, <2>4 DEF Watchers!ToSet
  <2>7. QED
    BY <2>1, <2>2, <2>5, <2>6 DEF BatchRec
<1>8. list \in Seq(BatchRec) /\ DOMAIN list = DOMAIN observers
  <2>1. DOMAIN list = DOMAIN observers /\ list = [i \in DOMAIN observers |-> list[i]]
    OBVIOUS
  <2> HIDE DEF list
  <2>2. list \in [1 .. Len(observers) -> BatchRec]
    BY <1>2, <1>7, <2>1
  <2>3. QED
    BY <1>2, <2>1, <2>2
<1> HIDE DEF list
<1>9. batch' \in Seq(BatchRec) /\ \A k \in DOMAIN batch' : \E i \in full : batch'[k] = list[i]
  <2>1. full \in SUBSET (DOMAIN list)
    BY <1>8
  <2> HIDE DEF full
  <2>2. QED
    BY <1>1, <1>8, <2>1, LeftIs
<1>10. ASSUME NEW o \in Watching, NEW v \in g[o]
       PROVE  v \in HandedNow[o] \/ v = 0 \/ \E k \in share[o] : v = recs[k]
  <2>1. CASE v \in got'[o]
    <3>1. v \in HandedNow[o]
      BY <1>1, <2>1 DEF HandedNow, Watchers!Handed
    <3>2. QED
      BY <3>1
  <2>2. CASE v \notin got'[o]
    <3>1. PICK k \in DOMAIN batch' : batch'[k].obs = o /\ v \in Watchers!ToSet(batch'[k].recs)
      BY <1>10, <2>2 DEF HandedNow, Watchers!Handed
    <3>2. PICK i \in full : batch'[k] = list[i]
      BY <1>9
    <3>3. observers[i].obs = o /\ (v = 0 \/ \E j \in mine(i) : v = recs[j])
      BY <1>7, <3>1, <3>2
    <3>4. mine(i) \in SUBSET share[o]
      BY <3>3
    <3>5. QED
      BY <3>3, <3>4
  <2>3. QED
    BY <2>1, <2>2
<1>11. recs' \in Seq(Nat) /\ Len(recs') = Len(recs) /\ RecordsApart(recs', g, changes)
  <2>1. \A o \in Watching : \A v \in g[o] : v \in HandedNow[o] \/ v = 0 \/ \E k \in share[o] : v = recs[k]
    BY <1>10
  <2> HIDE DEF share, g, T
  <2>2. /\ RecordsApart(recs, HandedNow, changes) /\ recs \in Seq(Nat) /\ changes \in Nat
        /\ MovedApart(recs, T, HandedNow, g, share)
    BY <1>2, <1>5, <1>6, <2>1 DEF MovedApart
  <2>3. /\ Watchers!Without(recs, T) \in Seq(Nat) /\ Len(Watchers!Without(recs, T)) = Len(recs)
        /\ RecordsApart(Watchers!Without(recs, T), g, changes)
    BY <2>2, ApartMoved
  <2>4. QED
    BY <1>1, <2>3
<1>12. observers' \in Seq(RegRec) /\ QueuesFit(observers', Len(recs'))
  <2>1. \A i \in DOMAIN observers : observers'[i] \in RegRec /\ observers'[i].queue = <<>>
    <3>1. ASSUME NEW r \in RegRec
          PROVE  [r EXCEPT !.queue = <<>>] \in RegRec /\ [r EXCEPT !.queue = <<>>].queue = <<>>
      <4>1. <<>> \in Seq(Nat)
        OBVIOUS
      <4>2. QED
        BY <4>1 DEF RegRec
    <3>2. \A i \in DOMAIN observers : observers'[i] = [observers[i] EXCEPT !.queue = <<>>]
      BY <1>1
    <3>3. QED
      BY <1>3, <3>1, <3>2
  <2>2. DOMAIN observers' = DOMAIN observers /\ observers' \in [1 .. Len(observers) -> RegRec]
    BY <1>1, <1>2, <2>1
  <2>3. observers' \in Seq(RegRec)
    BY <1>2, <2>2
  <2>4. QED
    BY <2>1, <2>2, <2>3 DEF QueuesFit, QueueFits
<1>13. QED
  BY <1>1, <1>2, <1>9, <1>11, <1>12 DEF RecInv, RecTypes, g

LEMMA DeliverMoves ==
  ASSUME RecInv, Watchers!Deliver
  PROVE  RecInv'
<1> DEFINE o == Head(batch).obs
           g == HandedNow'
<1>1. /\ batch # <<>> /\ batch' = Tail(batch)
      /\ got' = [got EXCEPT ![o] = @ \cup Watchers!ToSet(Head(batch).recs)]
      /\ UNCHANGED <<observers, recs, changes>>
  BY DEF Watchers!Deliver
<1>2. /\ QueuesFit(observers, Len(recs)) /\ RecordsApart(recs, HandedNow, changes) /\ RecTypes
      /\ recs \in Seq(Nat) /\ batch \in Seq(BatchRec) /\ got \in [Watching -> SUBSET Nat]
  BY DEF RecInv, RecTypes
<1>3. /\ batch[1] = Head(batch) /\ 1 \in DOMAIN batch /\ Head(batch) \in BatchRec
      /\ batch' \in Seq(BatchRec) /\ \A k \in DOMAIN batch' : k + 1 \in DOMAIN batch /\ batch'[k] = batch[k + 1]
  <2>1. Len(batch) \in Nat /\ Len(batch) # 0 /\ DOMAIN batch = 1 .. Len(batch)
    BY <1>1, <1>2, LenProperties, EmptySeq
  <2>2. /\ Head(batch) \in BatchRec /\ Tail(batch) \in Seq(BatchRec) /\ Len(Tail(batch)) = Len(batch) - 1
        /\ \A i \in 1 .. Len(Tail(batch)) : Tail(batch)[i] = batch[i + 1]
    BY <1>1, <1>2, HeadTailProperties
  <2>3. DOMAIN Tail(batch) = 1 .. Len(batch) - 1
    BY <2>2, LenProperties
  <2>4. QED
    BY <1>1, <2>1, <2>2, <2>3
<1>4. o \in Watching /\ Watchers!ToSet(Head(batch).recs) \in SUBSET Nat
  BY <1>3, ElementOfSeq, LenProperties DEF BatchRec, Watchers!ToSet
<1>5. ASSUME NEW q \in Watching
      PROVE  g[q] \subseteq HandedNow[q]
  <2>1. ASSUME NEW v \in got'[q]
        PROVE  v \in HandedNow[q]
    <3>1. v \in got[q] \/ (q = o /\ v \in Watchers!ToSet(batch[1].recs))
      BY <1>1, <1>2, <1>3, <2>1
    <3>2. QED
      BY <1>3, <3>1 DEF HandedNow, Watchers!Handed
  <2>2. ASSUME NEW k \in DOMAIN batch', batch'[k].obs = q, NEW v \in Watchers!ToSet(batch'[k].recs)
        PROVE  v \in HandedNow[q]
    <3>1. k + 1 \in DOMAIN batch /\ batch[k + 1].obs = q /\ v \in Watchers!ToSet(batch[k + 1].recs)
      BY <1>3, <2>2
    <3>2. QED
      BY <3>1 DEF HandedNow, Watchers!Handed
  <2>3. g[q] = got'[q] \cup UNION {Watchers!ToSet(batch'[j].recs) : j \in {j \in DOMAIN batch' : batch'[j].obs = q}}
    BY DEF HandedNow, Watchers!Handed
  <2> HIDE DEF g
  <2>4. QED
    BY <2>1, <2>2, <2>3
<1> HIDE DEF g
<1>6. RecordsApart(recs, g, changes)
  BY <1>2, <1>5 DEF RecordsApart
<1>7. got' \in [Watching -> SUBSET Nat]
  BY <1>1, <1>2, <1>4
<1>8. QED
  BY <1>1, <1>2, <1>3, <1>6, <1>7 DEF RecInv, RecTypes, g

LEMMA RecordsStep == RecInv /\ [Watchers!Next]_recordVars => RecInv'
<1> SUFFICES ASSUME RecInv, [Watchers!Next]_recordVars PROVE RecInv'
  OBVIOUS
<1>1. CASE UNCHANGED recordVars
  <2>1. UNCHANGED <<observers, recs, batch, changes, got>>
    BY <1>1 DEF recordVars
  <2>2. HandedNow' = HandedNow
    BY <2>1 DEF HandedNow, Watchers!Handed
  <2>3. QED
    BY <2>1, <2>2 DEF RecInv, RecTypes
<1>2. CASE Watchers!Next
  BY <1>2, ChangeMoves, ObserveMoves, DisconnectMoves, TakeMoves, FlushMoves, DeliverMoves DEF Watchers!Next, Watching
<1>3. QED
  BY <1>1, <1>2

LEMMA RecordsSay == RecInv => Watchers!RecordsKept
<1> SUFFICES ASSUME RecInv PROVE Watchers!RecordsKept
  OBVIOUS
<1>1. /\ QueuesFit(observers, Len(recs)) /\ RecordsApart(recs, HandedNow, changes) /\ DOMAIN recs = 1 .. Len(recs)
  BY LenProperties DEF RecInv, RecTypes
<1>2. \A o \in Watching : HandedNow[o] = Watchers!Handed(o)
  BY DEF HandedNow
<1>3. ASSUME NEW o \in Watching
      PROVE  /\ (Watchers!Handed(o) \ {0}) \cap Watchers!ToSet(recs) = {}
             /\ \A q \in Watching \ {o} : Watchers!Handed(o) \cap Watchers!Handed(q) \subseteq {0}
  BY <1>1, <1>2 DEF RecordsApart, Watchers!ToSet
<1>4. \A h, i \in DOMAIN recs : h # i /\ recs[h] # 0 => recs[h] # recs[i]
  BY <1>1 DEF RecordsApart
<1>5. \A i \in DOMAIN observers : QueueFits(observers[i].queue, Len(recs))
  BY <1>1 DEF QueuesFit
<1>6. QED
  BY <1>1, <1>3, <1>4, <1>5 DEF Watchers!RecordsKept, Watchers!Empty, Watching, QueueFits

(* The frames: what was asked for and not handed over has one on the way,  *)
(* or its last one was missed.                                             *)
FrameInv == /\ frames \in Nat /\ kind \in {"resize", "intersection"}
            /\ scheduled \in BOOLEAN /\ missed \in BOOLEAN
            /\ targets \subseteq told \/ scheduled
            /\ Watchers!FrameOnTheWay

LEMMA FramesStart == Watchers!FrameInit => FrameInv
<1> SUFFICES ASSUME Watchers!FrameInit PROVE FrameInv
  OBVIOUS
<1>1. ~scheduled /\ scheduled \in BOOLEAN /\ ~missed /\ missed \in BOOLEAN
  BY Zenon DEF Watchers!FrameInit
<1>2. frames \in Nat /\ kind \in {"resize", "intersection"} /\ targets \subseteq told
  BY DEF Watchers!FrameInit
<1>3. QED
  BY <1>1, <1>2 DEF FrameInv, Watchers!FrameOnTheWay

LEMMA FramesStep == FrameInv /\ [Watchers!FrameNext]_frameVars => FrameInv'
<1> SUFFICES ASSUME FrameInv, [Watchers!FrameNext]_frameVars PROVE FrameInv'
  OBVIOUS
<1> USE DEF FrameInv, Watchers!FrameOnTheWay
<1>1. ASSUME NEW t \in WatchBounds.targets, Watchers!Watch(t) PROVE FrameInv'
  <2>1. scheduled' /\ scheduled' \in BOOLEAN
    BY Zenon, <1>1 DEF Watchers!Watch
  <2>2. kind' = kind /\ kind' \in {"resize", "intersection"}
    BY <1>1 DEF Watchers!Watch
  <2>3. CASE scheduled
    <3>1. frames' = frames /\ missed' = missed
      BY <1>1, <2>3 DEF Watchers!Watch
    <3>2. QED
      BY <2>1, <2>2, <2>3, <3>1
  <2>4. CASE ~scheduled
    <3>1. ~missed /\ Watchers!DeferFrame
      BY <1>1, <2>4 DEF Watchers!Watch
    <3>2. CASE frames' = frames + 1 /\ missed' = missed
      BY <2>1, <2>2, <3>1, <3>2
    <3>3. CASE missed' = (frames = 0) /\ frames' = frames
      <4>1. missed' \in BOOLEAN /\ (missed' <=> frames = 0)
        BY Zenon, <3>3
      <4>2. QED
        BY <2>1, <2>2, <3>3, <4>1
    <3>4. QED
      BY <3>1, <3>2, <3>3 DEF Watchers!DeferFrame
  <2>5. QED
    BY <2>3, <2>4
<1>2. CASE \E t \in WatchBounds.targets : Watchers!Unwatch(t)
  BY <1>2 DEF Watchers!Unwatch
<1>3. CASE Watchers!UnwatchAll
  <2>1. ~scheduled' /\ scheduled' \in BOOLEAN /\ ~missed' /\ missed' \in BOOLEAN
    BY Zenon, <1>3 DEF Watchers!UnwatchAll
  <2>2. frames' = frames /\ kind' = kind /\ targets' = {}
    BY <1>3 DEF Watchers!UnwatchAll
  <2>3. QED
    BY <2>1, <2>2
<1>4. CASE Watchers!DeliverResize
  <2>1. /\ scheduled' \in BOOLEAN /\ (scheduled' <=> scheduled /\ targets = {})
        /\ missed' \in BOOLEAN /\ (missed' <=> scheduled' /\ frames' = 0)
    BY Zenon, <1>4 DEF Watchers!DeliverResize
  <2>2. frames' = frames - 1 /\ frames > 0 /\ kind' = kind /\ targets' \subseteq told'
    BY <1>4 DEF Watchers!DeliverResize, Watchers!Told
  <2>3. QED
    BY <2>1, <2>2
<1>5. CASE Watchers!DeliverIntersection
  <2>1. ~scheduled' /\ scheduled' \in BOOLEAN /\ ~missed' /\ missed' \in BOOLEAN
    BY Zenon, <1>5 DEF Watchers!DeliverIntersection
  <2>2. frames' \in Nat /\ kind' = kind /\ targets' \subseteq told'
    BY <1>5 DEF Watchers!DeliverIntersection, Watchers!Told
  <2>3. QED
    BY <2>1, <2>2
<1>6. CASE UNCHANGED frameVars
  BY <1>6 DEF frameVars
<1>7. ASSUME NEW left \in Nat, left <= frames, frames > left \/ left = 0, Watchers!Lose(left) PROVE FrameInv'
  <2>1. missed' \in BOOLEAN /\ (missed' <=> missed \/ (scheduled /\ left = 0))
    BY Zenon, <1>7 DEF Watchers!Lose
  <2>2. frames' = left /\ UNCHANGED <<kind, targets, scheduled, told>>
    BY <1>7 DEF Watchers!Lose
  <2>3. QED
    BY <1>7, <2>1, <2>2
<1>8. Watchers!ClearAll \/ Watchers!ClearTimer => FrameInv'
  BY <1>7 DEF Watchers!ClearAll, Watchers!ClearTimer
<1>9. QED
  BY <1>1, <1>2, <1>3, <1>4, <1>5, <1>6, <1>8 DEF Watchers!FrameNext

(* However many observers, registrations and changes there are, each index *)
(* that is queued points at a record, in order, a change is handed whole   *)
(* to one observer only, and a target nobody was told about has a frame on *)
(* the way, unless that frame was dropped or cleared, or found a resize    *)
(* observer with nothing to report (fanout, take_records_for,              *)
(* disconnect_obs and flush_mutations of webidl.rs; reserve_target and the *)
(* two deliveries of observers.rs; push_timer and clear_all of timer.rs).  *)
THEOREM ObserversAreTold == WorkerSpec => []ObserversTold
<1>1. WorkerInit => RecInv /\ FrameInv
  BY RecordsStart, FramesStart DEF WorkerInit
<1>2. RecInv /\ FrameInv /\ [WorkerNext]_<<scene, workerVars>> => RecInv' /\ FrameInv'
  <2> SUFFICES ASSUME RecInv, FrameInv, [WorkerNext]_<<scene, workerVars>> PROVE RecInv' /\ FrameInv'
    OBVIOUS
  <2>1. [Watchers!Next]_recordVars /\ [Watchers!FrameNext]_frameVars
    BY DEF WorkerNext, workerVars
  <2>2. QED
    BY <2>1, RecordsStep, FramesStep
<1>3. RecInv /\ FrameInv => ObserversTold
  BY RecordsSay DEF ObserversTold, FrameInv
<1>4. QED
  BY <1>1, <1>2, <1>3, PTL DEF WorkerSpec

-----------------------------------------------------------------------------
(* The formatters: what is shared is told apart by all that a builder      *)
(* reads, and the ring is the realm.                                       *)

Fields == {"kind", "locale", "calendar", "numbering", "currency", "fields", "cycle", "style", "sub", "display",
           "grouping", "order", "zone"}
Printing == {"DateTimeFormat", "NumberFormat", "Collator", "ListFormat", "PluralRules", "RelativeTimeFormat",
             "DisplayNames"}
IsState(s) == DOMAIN s = Fields /\ s.kind \in Printing \cup {"Segmenter", "Locale"}
Prints(s) == IsState(s) /\ s.kind \in Printing

\* what is kept under a key is what any object with that key calls for
Answers(k, f) == \A s, u : Prints(s) /\ Formats!Key(s, u) = k => f = Formats!Formatter(s, u)

RingOf(r, D) == /\ r \in Seq(D) /\ \A x \in D : \E i \in DOMAIN r : r[i] = x
                /\ \A i, j \in DOMAIN r : r[i] = r[j] => i = j
                /\ IsFiniteSet(D) /\ Cardinality(D) = Len(r)
RealmInv == RingOf(ring, DOMAIN realm) /\ \A k \in DOMAIN realm : Answers(k, realm[k])

ObjectInv(o) == /\ o = [st |-> o.st, own |-> o.own] /\ IsState(o.st)
                /\ \A u \in DOMAIN o.own : o.own[u] = Formats!Formatter(o.st, u)
InstInv == \A i \in DOMAIN inst : ObjectInv(inst[i])

Asked(locale, zone, parts) == [Formats!Blank("DateTimeFormat", locale) EXCEPT !.fields = parts, !.zone = zone]
CellInv == cell # Formats!None => cell.by = Formats!BuildDtf(Asked(cell.locale, cell.zone, cell.parts))
FormatInv == RealmInv /\ InstInv /\ CellInv /\ Formats!ShownForProfile

(* Two objects of one signature agree on every field but the zone.         *)
LEMMA SameReads ==
  ASSUME NEW s, NEW t, Prints(s), Prints(t), Formats!Sig(s) = Formats!Sig(t)
  PROVE  \A f \in Fields \ {"zone"} : s[f] = t[f]
<1>1. ASSUME NEW f \in Fields \ {"zone"} PROVE s[f] = t[f]
  <2>1. Formats!Sig(s)[f] = s[f] /\ Formats!Sig(t)[f] = t[f]
    BY <1>1 DEF Formats!Sig, Prints, IsState
  <2>2. QED
    BY <2>1
<1>2. QED
  BY <1>1

(* No builder reads the zone.                                              *)
LEMMA SameFormatter ==
  ASSUME NEW s, NEW t, NEW u, \A f \in Fields \ {"zone"} : s[f] = t[f]
  PROVE  Formats!Formatter(s, u) = Formats!Formatter(t, u)
<1>1. /\ s.kind = t.kind /\ s.locale = t.locale /\ s.calendar = t.calendar /\ s.numbering = t.numbering
      /\ s.currency = t.currency /\ s.fields = t.fields /\ s.cycle = t.cycle /\ s.style = t.style /\ s.sub = t.sub
      /\ s.display = t.display /\ s.grouping = t.grouping /\ s.order = t.order
  BY DEF Fields
<1>2. \A c : Formats!LocaleOf(s, c) = Formats!LocaleOf(t, c)
  BY <1>1 DEF Formats!LocaleOf
<1>3. Formats!BuildDec(s) = Formats!BuildDec(t)
  BY <1>1, <1>2 DEF Formats!BuildDec
<1>4. Formats!BuildCur(s) = Formats!BuildCur(t)
  BY <1>1, <1>2 DEF Formats!BuildCur
<1>5. Formats!BuildPct(s) = Formats!BuildPct(t)
  BY <1>2 DEF Formats!BuildPct
<1>6. Formats!BuildColl(s) = Formats!BuildColl(t)
  BY <1>1, <1>2 DEF Formats!BuildColl
<1>7. Formats!BuildPr(s) = Formats!BuildPr(t) /\ Formats!BuildDn(s) = Formats!BuildDn(t)
  BY <1>1, <1>2 DEF Formats!BuildPr, Formats!BuildDn
<1>8. Formats!BuildLf(s) = Formats!BuildLf(t)
  BY <1>1, <1>2 DEF Formats!BuildLf
<1>9. Formats!BuildRtf(s, u) = Formats!BuildRtf(t, u)
  BY <1>1, <1>2 DEF Formats!BuildRtf
<1>10. Formats!BuildDtf(s) = Formats!BuildDtf(t)
  <2>1. Formats!Fieldset(s) = Formats!Fieldset(t)
    BY <1>1 DEF Formats!Fieldset
  <2>2. QED
    BY <1>1, <1>2, <2>1 DEF Formats!BuildDtf
<1>11. QED
  BY <1>1, <1>3, <1>4, <1>5, <1>6, <1>7, <1>8, <1>9, <1>10, Zenon DEF Formats!Formatter

LEMMA UnitRead ==
  ASSUME NEW s, NEW u, NEW v, Prints(s), s.kind = "RelativeTimeFormat" => u = v
  PROVE  Formats!Formatter(s, u) = Formats!Formatter(s, v)
BY DEF Formats!Formatter

(* So what is shared under a key serves every object that has the key.     *)
LEMMA KeyTells ==
  ASSUME NEW s, NEW t, NEW u, NEW v, Prints(s), Prints(t), Formats!Key(s, u) = Formats!Key(t, v)
  PROVE  Formats!Formatter(s, u) = Formats!Formatter(t, v)
<1>1. Formats!Sig(s) = Formats!Sig(t) /\ (s.kind = "RelativeTimeFormat" /\ t.kind = "RelativeTimeFormat" => u = v)
  BY DEF Formats!Key
<1>2. \A f \in Fields \ {"zone"} : s[f] = t[f]
  BY <1>1, SameReads
<1>3. s.kind = t.kind
  BY <1>2 DEF Fields
<1>4. Formats!Formatter(s, u) = Formats!Formatter(s, v)
  BY <1>1, <1>3, UnitRead
<1>5. QED
  BY <1>2, <1>4, SameFormatter

(* A ring of distinct keys gains one and drops its oldest.                 *)
LEMMA RingGrows ==
  ASSUME NEW r, NEW D, RingOf(r, D), NEW k, k \notin D
  PROVE  RingOf(Append(r, k), D \cup {k})
<1> DEFINE E == D \cup {k}
           q == Append(r, k)
<1>1. r \in Seq(D) /\ r \in Seq(E) /\ DOMAIN r = 1 .. Len(r) /\ Len(r) \in Nat
  BY LenProperties DEF RingOf
<1>2. /\ q \in Seq(E) /\ Len(q) = Len(r) + 1 /\ DOMAIN q = 1 .. Len(r) + 1
      /\ q[Len(r) + 1] = k /\ \A i \in DOMAIN r : q[i] = r[i] /\ r[i] \in D
  BY <1>1, AppendProperties, LenProperties, ElementOfSeq
<1>3. IsFiniteSet(E) /\ Cardinality(E) = Len(r) + 1
  BY FS_AddElement DEF RingOf
<1> HIDE DEF E, q
<1>4. \A i, j \in DOMAIN q : q[i] = q[j] => i = j
  <2> SUFFICES ASSUME NEW i \in DOMAIN q, NEW j \in DOMAIN q, q[i] = q[j] PROVE i = j
    OBVIOUS
  <2>1. (i \in DOMAIN r \/ i = Len(r) + 1) /\ (j \in DOMAIN r \/ j = Len(r) + 1)
    BY <1>1, <1>2
  <2>2. QED
    BY <1>2, <2>1 DEF RingOf
<1>5. \A x \in E : \E i \in DOMAIN q : q[i] = x
  <2>1. Len(r) + 1 \in DOMAIN q /\ \A i \in DOMAIN r : i \in DOMAIN q
    BY <1>1, <1>2
  <2>2. QED
    BY <1>2, <2>1 DEF RingOf, E
<1>6. RingOf(q, E)
  BY <1>2, <1>3, <1>4, <1>5 DEF RingOf
<1>7. QED
  BY <1>6 DEF q, E

LEMMA RingDrops ==
  ASSUME NEW r, NEW D, RingOf(r, D), r # <<>>
  PROVE  RingOf(Tail(r), D \ {Head(r)}) /\ Head(r) \in D
<1> DEFINE E == D \ {Head(r)}
           q == Tail(r)
<1>1. r \in Seq(D) /\ DOMAIN r = 1 .. Len(r) /\ Len(r) \in Nat /\ Len(r) > 0
  BY LenProperties, EmptySeq DEF RingOf
<1>2. Head(r) = r[1] /\ 1 \in DOMAIN r /\ Head(r) \in D
  BY <1>1, ElementOfSeq
<1>3. /\ q \in Seq(D) /\ Len(q) = Len(r) - 1 /\ DOMAIN q = 1 .. Len(r) - 1
      /\ \A i \in 1 .. Len(r) - 1 : q[i] = r[i + 1] /\ i + 1 \in DOMAIN r
  BY <1>1, HeadTailProperties, LenProperties
<1>4. IsFiniteSet(E) /\ Cardinality(E) = Len(r) - 1
  BY <1>2, FS_RemoveElement DEF RingOf
<1> HIDE DEF q
<1>5. \A i \in DOMAIN q : q[i] \in E
  <2> SUFFICES ASSUME NEW i \in DOMAIN q PROVE q[i] \in D /\ q[i] # r[1]
    BY <1>2 DEF E
  <2>1. q[i] = r[i + 1] /\ i + 1 \in DOMAIN r /\ i + 1 # 1
    BY <1>1, <1>3
  <2>2. r[i + 1] # r[1]
    BY <1>2, <2>1 DEF RingOf
  <2>3. QED
    BY <1>1, <2>1, <2>2, ElementOfSeq
<1>6. q \in Seq(E)
  <2>1. q = [i \in 1 .. Len(q) |-> q[i]] /\ Len(q) \in Nat
    BY <1>1, <1>3
  <2>2. q \in [1 .. Len(q) -> E]
    BY <1>3, <1>5, <2>1
  <2>3. QED
    BY <2>1, <2>2, SeqDef
<1>7. \A i, j \in DOMAIN q : q[i] = q[j] => i = j
  <2> SUFFICES ASSUME NEW i \in DOMAIN q, NEW j \in DOMAIN q, q[i] = q[j] PROVE i = j
    OBVIOUS
  <2>1. r[i + 1] = r[j + 1] /\ i + 1 \in DOMAIN r /\ j + 1 \in DOMAIN r /\ i \in Nat /\ j \in Nat
    BY <1>1, <1>3
  <2>2. i + 1 = j + 1
    BY <2>1 DEF RingOf
  <2>3. QED
    BY <2>1, <2>2
<1>8. \A x \in E : \E i \in DOMAIN q : q[i] = x
  <2> SUFFICES ASSUME NEW x \in E PROVE \E i \in DOMAIN q : q[i] = x
    OBVIOUS
  <2>1. PICK i \in DOMAIN r : r[i] = x
    BY DEF RingOf
  <2>2. i # 1
    BY <1>2, <2>1
  <2>3. i - 1 \in DOMAIN q /\ q[i - 1] = r[i]
    BY <1>1, <1>3, <2>1, <2>2
  <2>4. QED
    BY <2>1, <2>3
<1> HIDE DEF E
<1>9. RingOf(q, E)
  BY <1>3, <1>4, <1>6, <1>7, <1>8 DEF RingOf
<1>10. QED
  BY <1>2, <1>9 DEF q, E

LEMMA InsertKeeps ==
  ASSUME RealmInv, NEW k, k \notin DOMAIN realm, NEW f, Answers(k, f), Formats!InsertRealm(k, f)
  PROVE  RealmInv' /\ k \in DOMAIN realm' /\ realm'[k] = f
<1> DEFINE S == IF Len(ring) < FormatBounds.realmCap THEN DOMAIN realm ELSE DOMAIN realm \ {Head(ring)}
           r == Formats!Evicted
<1>1. RingOf(ring, DOMAIN realm) /\ Len(ring) \in Nat
  BY LenProperties DEF RealmInv, RingOf
<1>2. RingOf(r, S) /\ S \subseteq DOMAIN realm
  <2>1. CASE Len(ring) < FormatBounds.realmCap
    BY <1>1, <2>1 DEF Formats!Evicted
  <2>2. CASE ~(Len(ring) < FormatBounds.realmCap)
    <3>1. FormatBounds.realmCap \in Nat \ {0}
      BY WorkersAssumption DEF WorkersAssumption, Formats!FormattersAssumption
    <3>2. ring # <<>>
      BY <1>1, <2>2, <3>1
    <3>3. RingOf(Tail(ring), DOMAIN realm \ {Head(ring)})
      BY <1>1, <3>2, RingDrops
    <3>4. QED
      BY <2>2, <3>3 DEF Formats!Evicted
  <2>3. QED
    BY <2>1, <2>2
<1>3. ring' = Append(r, k) /\ realm' = Formats!With(Formats!Restrict(realm, S), k, f)
  BY DEF Formats!InsertRealm
<1> HIDE DEF S, r
<1>4. /\ DOMAIN realm' = S \cup {k} /\ realm'[k] = f
      /\ \A x \in S : x # k => realm'[x] = realm[x]
  BY <1>3 DEF Formats!With, Formats!Restrict
<1>5. RingOf(ring', S \cup {k})
  BY <1>2, <1>3, RingGrows
<1>6. \A x \in DOMAIN realm' : Answers(x, realm'[x])
  BY <1>2, <1>4 DEF RealmInv
<1>7. QED
  BY <1>4, <1>5, <1>6 DEF RealmInv

LEMMA BlankIs ==
  ASSUME NEW x \in Printing \cup {"Segmenter", "Locale"}, NEW tag
  PROVE  IsState(Formats!Blank(x, tag)) /\ Formats!Blank(x, tag).kind = x
BY DEF Formats!Blank, IsState, Fields

(* The constructors keep the fields and the kind of a state, or refuse.    *)
LEMMA ClassesKeep ==
  ASSUME NEW tag, NEW o
  PROVE  /\ Formats!DateTimeFormat(tag, o) = Formats!Error \/ IsState(Formats!DateTimeFormat(tag, o))
         /\ Formats!NumberFormat(tag, o) = Formats!Error \/ IsState(Formats!NumberFormat(tag, o))
         /\ IsState(Formats!Collator(tag, o)) /\ IsState(Formats!ListFormat(tag, o))
         /\ IsState(Formats!PluralRules(tag, o)) /\ IsState(Formats!RelativeTimeFormat(tag, o))
         /\ Formats!DisplayNames(tag, o) = Formats!Error \/ IsState(Formats!DisplayNames(tag, o))
         /\ Formats!Segmenter(tag, o) = Formats!Error \/ IsState(Formats!Segmenter(tag, o))
<1>1. /\ IsState(Formats!Blank("DateTimeFormat", tag)) /\ Formats!Blank("DateTimeFormat", tag).kind = "DateTimeFormat"
      /\ IsState(Formats!Blank("NumberFormat", tag)) /\ Formats!Blank("NumberFormat", tag).kind = "NumberFormat"
      /\ IsState(Formats!Blank("Collator", tag)) /\ Formats!Blank("Collator", tag).kind = "Collator"
      /\ IsState(Formats!Blank("ListFormat", tag)) /\ Formats!Blank("ListFormat", tag).kind = "ListFormat"
      /\ IsState(Formats!Blank("PluralRules", tag)) /\ Formats!Blank("PluralRules", tag).kind = "PluralRules"
      /\ IsState(Formats!Blank("RelativeTimeFormat", tag))
      /\ Formats!Blank("RelativeTimeFormat", tag).kind = "RelativeTimeFormat"
      /\ IsState(Formats!Blank("DisplayNames", tag)) /\ Formats!Blank("DisplayNames", tag).kind = "DisplayNames"
      /\ IsState(Formats!Blank("Segmenter", tag)) /\ Formats!Blank("Segmenter", tag).kind = "Segmenter"
  BY BlankIs DEF Printing
<1>2. ASSUME NEW s, IsState(s), NEW f \in Fields \ {"kind"}, NEW v PROVE IsState([s EXCEPT ![f] = v])
  BY <1>2 DEF IsState, Fields
<1>3. IsState(Formats!ParseOpts(tag, o))
  BY <1>1 DEF Formats!ParseOpts, IsState, Printing
<1>4. Formats!DateTimeFormat(tag, o) = Formats!Error \/ IsState(Formats!DateTimeFormat(tag, o))
  BY <1>3 DEF Formats!DateTimeFormat, IsState
<1>5. Formats!NumberFormat(tag, o) = Formats!Error \/ IsState(Formats!NumberFormat(tag, o))
  BY <1>1 DEF Formats!NumberFormat, IsState
<1>6. IsState(Formats!Collator(tag, o))
  BY <1>1 DEF Formats!Collator, IsState
<1>7. IsState(Formats!ListFormat(tag, o))
  BY <1>1 DEF Formats!ListFormat, IsState
<1>8. IsState(Formats!PluralRules(tag, o))
  BY <1>1 DEF Formats!PluralRules, IsState
<1>9. IsState(Formats!RelativeTimeFormat(tag, o))
  BY <1>1 DEF Formats!RelativeTimeFormat, IsState
<1>10. Formats!DisplayNames(tag, o) = Formats!Error \/ IsState(Formats!DisplayNames(tag, o))
  BY <1>1 DEF Formats!DisplayNames, IsState
<1>11. Formats!Segmenter(tag, o) = Formats!Error \/ IsState(Formats!Segmenter(tag, o))
  BY <1>1 DEF Formats!Segmenter, IsState
<1>12. QED
  BY <1>4, <1>5, <1>6, <1>7, <1>8, <1>9, <1>10, <1>11

LEMMA ConstructedIs ==
  ASSUME NEW a \in FormatBounds.asks, Formats!Constructed(a) # Formats!Error
  PROVE  IsState(Formats!Constructed(a))
<1> DEFINE tag == IF a.tag = "" THEN profile.locale ELSE a.tag
<1>1. a.class \in Printing \cup {"Segmenter", "Locale"}
  BY WorkersAssumption DEF WorkersAssumption, Formats!FormattersAssumption, Printing
<1>2. IsState(Formats!Blank("Locale", tag))
  BY BlankIs
<1>3. \/ a.class = "DateTimeFormat" /\ Formats!Constructed(a) = Formats!DateTimeFormat(tag, a.opt)
      \/ a.class = "NumberFormat" /\ Formats!Constructed(a) = Formats!NumberFormat(tag, a.opt)
      \/ a.class = "Collator" /\ Formats!Constructed(a) = Formats!Collator(tag, a.opt)
      \/ a.class = "ListFormat" /\ Formats!Constructed(a) = Formats!ListFormat(tag, a.opt)
      \/ a.class = "PluralRules" /\ Formats!Constructed(a) = Formats!PluralRules(tag, a.opt)
      \/ a.class = "RelativeTimeFormat" /\ Formats!Constructed(a) = Formats!RelativeTimeFormat(tag, a.opt)
      \/ a.class = "DisplayNames" /\ Formats!Constructed(a) = Formats!DisplayNames(tag, a.opt)
      \/ a.class = "Segmenter" /\ Formats!Constructed(a) = Formats!Segmenter(tag, a.opt)
      \/ a.class = "Locale" /\ Formats!Constructed(a) = Formats!Blank("Locale", tag)
  <2>1. CASE a.class = "DateTimeFormat"
    BY <2>1 DEF Formats!Constructed
  <2>2. CASE a.class = "NumberFormat"
    BY <2>2 DEF Formats!Constructed
  <2>3. CASE a.class = "Collator"
    BY <2>3 DEF Formats!Constructed
  <2>4. CASE a.class = "ListFormat"
    BY <2>4 DEF Formats!Constructed
  <2>5. CASE a.class = "PluralRules"
    BY <2>5 DEF Formats!Constructed
  <2>6. CASE a.class = "RelativeTimeFormat"
    BY <2>6 DEF Formats!Constructed
  <2>7. CASE a.class = "DisplayNames"
    BY <2>7 DEF Formats!Constructed
  <2>8. CASE a.class = "Segmenter"
    BY <2>8 DEF Formats!Constructed
  <2>9. CASE a.class = "Locale"
    BY <2>9 DEF Formats!Constructed
  <2>10. QED
    BY <1>1, <2>1, <2>2, <2>3, <2>4, <2>5, <2>6, <2>7, <2>8, <2>9 DEF Printing
<1> HIDE DEF tag
<1>4. QED
  BY <1>2, <1>3, ClassesKeep

LEMMA MadeKeeps ==
  ASSUME FormatInv, NEW s, IsState(s), Formats!MakeInstance(s)
  PROVE  InstInv'
<1>1. inst' = Formats!With(inst, count + 1, [st |-> s, own |-> <<>>])
  BY DEF Formats!MakeInstance
<1>2. ObjectInv([st |-> s, own |-> <<>>])
  BY DEF ObjectInv
<1>3. \A i \in DOMAIN inst' : inst'[i] = [st |-> s, own |-> <<>>] \/ (i \in DOMAIN inst /\ inst'[i] = inst[i])
  BY <1>1 DEF Formats!With
<1>4. QED
  BY <1>2, <1>3 DEF FormatInv, InstInv

LEMMA ObjectUsed ==
  ASSUME FormatInv, Formats!Use
  PROVE  RealmInv' /\ InstInv'
<1>1. PICK i \in DOMAIN inst, u \in FormatBounds.units :
        LET s == inst[i].st
            k == Formats!Key(s, u)
            v == IF s.kind = "RelativeTimeFormat" THEN u ELSE "own"
        IN /\ s.kind \notin {"Locale", "Segmenter"}
           /\ v \notin DOMAIN inst[i].own
           /\ IF k \in DOMAIN realm THEN UNCHANGED <<realm, ring>> ELSE Formats!InsertRealm(k, Formats!Formatter(s, u))
           /\ inst' = [inst EXCEPT ![i].own = Formats!With(inst[i].own, v, realm'[k])]
  BY DEF Formats!Use
<1> DEFINE s == inst[i].st
           k == Formats!Key(s, u)
           v == IF s.kind = "RelativeTimeFormat" THEN u ELSE "own"
<1>2. ObjectInv(inst[i])
  BY DEF FormatInv, InstInv
<1>3. Prints(s)
  BY <1>1, <1>2 DEF ObjectInv, IsState, Prints
<1>4. Answers(k, Formats!Formatter(s, u))
  <2> SUFFICES ASSUME NEW t, NEW w, Prints(t), Formats!Key(t, w) = k PROVE Formats!Formatter(s, u) = Formats!Formatter(t, w)
    BY DEF Answers
  <2>1. QED
    BY <1>3, KeyTells
<1>5. RealmInv' /\ realm'[k] = Formats!Formatter(s, u)
  <2>1. CASE k \in DOMAIN realm
    <3>1. realm' = realm /\ ring' = ring
      BY <1>1, <2>1
    <3>2. Answers(k, realm[k])
      BY <2>1 DEF FormatInv, RealmInv
    <3>3. realm[k] = Formats!Formatter(s, u)
      BY <1>3, <3>2 DEF Answers
    <3>4. QED
      BY <3>1, <3>3 DEF FormatInv, RealmInv
  <2>2. CASE k \notin DOMAIN realm
    <3>1. Formats!InsertRealm(k, Formats!Formatter(s, u)) /\ RealmInv
      BY <1>1, <2>2 DEF FormatInv
    <3>2. QED
      BY <1>4, <2>2, <3>1, InsertKeeps
  <2>3. QED
    BY <2>1, <2>2
<1>6. Formats!Formatter(s, u) = Formats!Formatter(s, v)
  BY <1>3, UnitRead
<1>7. inst' = [inst EXCEPT ![i].own = Formats!With(inst[i].own, v, realm'[k])]
  BY <1>1
<1> DEFINE own == Formats!With(inst[i].own, v, Formats!Formatter(s, v))
<1>8. \A w \in DOMAIN own : own[w] = Formats!Formatter(s, w)
  BY <1>2 DEF ObjectInv, Formats!With
<1> HIDE DEF own
<1>9. inst' = [inst EXCEPT ![i] = [st |-> s, own |-> own]]
  <2>1. Formats!With(inst[i].own, v, realm'[k]) = own
    BY <1>5, <1>6 DEF own
  <2>2. inst' = [inst EXCEPT ![i].own = own]
    BY <1>7, <2>1
  <2>3. inst[i] = [st |-> s, own |-> inst[i].own]
    BY <1>2 DEF ObjectInv
  <2>4. [inst[i] EXCEPT !.own = own] = [st |-> s, own |-> own]
    BY <2>3
  <2>5. QED
    BY <2>2, <2>4
<1> HIDE DEF s, k, v
<1>10. ObjectInv([st |-> s, own |-> own])
  BY <1>3, <1>8 DEF ObjectInv, Prints
<1>11. QED
  BY <1>5, <1>9, <1>10 DEF FormatInv, InstInv

LEMMA AskedIs == \A parts : Formats!LocaleState(parts) = Asked(profile.locale, profile.zone, parts)
BY DEF Formats!LocaleState, Asked

LEMMA FormatsStart == Formats!Init => FormatInv
<1> SUFFICES ASSUME Formats!Init PROVE FormatInv
  OBVIOUS
<1>1. ring = <<>> /\ realm = <<>> /\ inst = <<>> /\ cell = Formats!None /\ shown = Formats!None
  BY DEF Formats!Init
<1>2. RingOf(<<>>, {})
  BY FS_EmptySet, EmptySeq DEF RingOf
<1>3. QED
  BY <1>1, <1>2 DEF FormatInv, RealmInv, InstInv, CellInv, Formats!ShownForProfile

LEMMA FormatsStep == FormatInv /\ [Formats!Next]_formatVars => FormatInv'
<1> SUFFICES ASSUME FormatInv, [Formats!Next]_formatVars PROVE FormatInv'
  OBVIOUS
<1>1. CASE Formats!New
  <2>1. PICK a \in FormatBounds.asks : Formats!Constructed(a) # Formats!Error /\ Formats!MakeInstance(Formats!Constructed(a))
    BY <1>1 DEF Formats!New
  <2>2. InstInv'
    BY <2>1, ConstructedIs, MadeKeeps
  <2>3. shown' = Formats!None /\ UNCHANGED <<profile, realm, ring, cell>>
    BY <1>1 DEF Formats!New
  <2>4. QED
    BY <2>2, <2>3 DEF FormatInv, RealmInv, CellInv, Formats!ShownForProfile
<1>2. CASE Formats!Expand
  <2>1. PICK tag : Formats!MakeInstance(Formats!Blank("Locale", tag))
    BY <1>2 DEF Formats!Expand
  <2>2. InstInv'
    BY <2>1, BlankIs, MadeKeeps
  <2>3. shown' = Formats!None /\ UNCHANGED <<profile, realm, ring, cell>>
    BY <1>2 DEF Formats!Expand
  <2>4. QED
    BY <2>2, <2>3 DEF FormatInv, RealmInv, CellInv, Formats!ShownForProfile
<1>3. CASE Formats!Use
  <2>1. shown' = Formats!None /\ UNCHANGED cell
    BY <1>3 DEF Formats!Use
  <2>2. QED
    BY <1>3, <2>1, ObjectUsed DEF FormatInv, CellInv, Formats!ShownForProfile
<1>4. CASE Formats!LocaleDateString
  <2>1. PICK parts :
          LET hit == /\ cell # Formats!None
                     /\ cell.locale = profile.locale /\ cell.parts = parts /\ cell.zone = profile.zone
          IN cell' = IF hit THEN cell
                     ELSE [by |-> Formats!BuildDtf(Formats!LocaleState(parts)), locale |-> profile.locale,
                           zone |-> profile.zone, parts |-> parts]
    BY <1>4 DEF Formats!LocaleDateString
  <2>2. shown' = cell' /\ UNCHANGED <<profile, inst, realm, ring>>
    BY <1>4 DEF Formats!LocaleDateString
  <2>3. /\ cell'.by = Formats!BuildDtf(Asked(profile.locale, profile.zone, parts))
        /\ cell'.locale = profile.locale /\ cell'.zone = profile.zone /\ cell'.parts = parts
    <3>1. CASE /\ cell # Formats!None
               /\ cell.locale = profile.locale /\ cell.parts = parts /\ cell.zone = profile.zone
      BY <2>1, <3>1 DEF FormatInv, CellInv
    <3>2. CASE ~(/\ cell # Formats!None
                 /\ cell.locale = profile.locale /\ cell.parts = parts /\ cell.zone = profile.zone)
      BY <2>1, <3>2, AskedIs
    <3>3. QED
      BY <3>1, <3>2
  <2>4. CellInv'
    BY <2>3 DEF CellInv
  <2>5. Formats!ShownForProfile'
    <3>1. shown'.by = Formats!BuildDtf(Formats!LocaleState(shown'.parts)) /\ shown'.zone = profile.zone
      BY <2>2, <2>3, AskedIs
    <3>2. QED
      BY <2>2, <3>1 DEF Formats!ShownForProfile, Formats!LocaleState
  <2>6. QED
    BY <2>2, <2>4, <2>5 DEF FormatInv, RealmInv, InstInv
<1>5. CASE Formats!NextRequest \/ Formats!NextEngine
  <2>1. inst' = <<>> /\ shown' = Formats!None
    BY <1>5 DEF Formats!NextRequest, Formats!NextEngine
  <2>2. UNCHANGED <<realm, ring, cell>> \/ (realm' = <<>> /\ ring' = <<>> /\ cell' = Formats!None)
    BY <1>5 DEF Formats!NextRequest, Formats!NextEngine
  <2>3. RingOf(<<>>, {})
    BY FS_EmptySet, EmptySeq DEF RingOf
  <2>4. QED
    BY <2>1, <2>2, <2>3 DEF FormatInv, RealmInv, InstInv, CellInv, Formats!ShownForProfile
<1>6. CASE UNCHANGED formatVars
  BY <1>6 DEF formatVars, FormatInv, RealmInv, InstInv, CellInv, Formats!ShownForProfile, Formats!LocaleState
<1>7. QED
  BY <1>1, <1>2, <1>3, <1>4, <1>5, <1>6 DEF Formats!Next

LEMMA FormatsSay == FormatInv => Formats!FormattersSound
<1> SUFFICES ASSUME FormatInv PROVE Formats!FormattersSound
  OBVIOUS
<1>1. Formats!OwnOptions
  BY DEF FormatInv, InstInv, ObjectInv, Formats!OwnOptions
<1>2. Formats!Range(ring) = DOMAIN realm
  <2>1. \A i \in DOMAIN ring : ring[i] \in DOMAIN realm
    BY ElementOfSeq, LenProperties DEF FormatInv, RealmInv, RingOf
  <2>2. \A x \in DOMAIN realm : \E i \in DOMAIN ring : ring[i] = x
    BY DEF FormatInv, RealmInv, RingOf
  <2>3. QED
    BY <2>1, <2>2 DEF Formats!Range
<1>3. \A S : Formats!Cardinality(S) = Cardinality(S)
  BY DEF Formats!Cardinality, Cardinality
<1>4. QED
  BY <1>1, <1>2, <1>3 DEF FormatInv, RealmInv, RingOf, Formats!RingIsRealm, Formats!FormattersSound

-----------------------------------------------------------------------------
(* The canvas: what is recorded stays apart and whole, and the frame that  *)
(* is kept is painted from it.                                             *)

Paints == {"black", "red", "clear"}
Segments == {"move", "line", "curve", "close"}
CommandShape == [paint : Paints, at : Nat, start : Nat, len : Nat]
RasterShape == [fill : Paints, cmds : Seq(CommandShape), segs : Seq(Segments), base : Nat, pen : BOOLEAN, start : BOOLEAN]

\* what is recorded lies before the path that is drawn, each path behind the ones before it
CommandsLie(cmds, base) ==
  /\ \A i \in DOMAIN cmds : cmds[i].start + cmds[i].len <= base
  /\ \A i, j \in DOMAIN cmds :
       i < j /\ cmds[i].len > 0 /\ cmds[j].len > 0 => cmds[i].start + cmds[i].len <= cmds[j].start

\* a context of an older size may hold what was drawn at any size since, and starts over when it is read
CtxInv(c, e) ==
  /\ c = [epoch |-> c.epoch, ops |-> c.ops, raster |-> c.raster, key |-> c.key, buf |-> c.buf]
  /\ c.epoch \in Nat /\ c.epoch <= e
  /\ c.raster \in RasterShape /\ c.raster.base <= Len(c.raster.segs) /\ CommandsLie(c.raster.cmds, c.raster.base)
  /\ c.epoch = e => \A i \in DOMAIN c.raster.cmds : c.raster.cmds[i].at = e
  /\ c.key # Canvas!None => c.buf = Canvas!Render(c.raster)
CanvasInv == epoch \in Nat /\ (ctx # Canvas!None => CtxInv(ctx, epoch)) /\ Canvas!OldGone

\* what a call leaves of a raster: the same commands over another path, or one command more
PathChanged(r, q) == q \in RasterShape /\ q.cmds = r.cmds /\ q.base = r.base /\ r.base <= Len(q.segs)
CommandAdded(r, q, e) ==
  /\ q \in RasterShape /\ r.base <= q.base /\ q.base <= Len(q.segs)
  /\ \E c \in CommandShape : /\ q.cmds = Append(r.cmds, c) /\ c.at = e
                             /\ c.start + c.len <= q.base /\ (c.len = 0 \/ c.start >= r.base)

(* A command more, behind all that is recorded, is apart from it.          *)
LEMMA OneCommandMore ==
  ASSUME NEW r, NEW e, r \in RasterShape, CommandsLie(r.cmds, r.base), NEW q, CommandAdded(r, q, e)
  PROVE  /\ CommandsLie(q.cmds, q.base)
         /\ (\A i \in DOMAIN r.cmds : r.cmds[i].at = e) => \A i \in DOMAIN q.cmds : q.cmds[i].at = e
<1>1. PICK c \in CommandShape : /\ q.cmds = Append(r.cmds, c) /\ c.at = e
                                /\ c.start + c.len <= q.base /\ (c.len = 0 \/ c.start >= r.base)
  BY DEF CommandAdded
<1>2. r.cmds \in Seq(CommandShape) /\ r.base \in Nat /\ q.base \in Nat /\ r.base <= q.base /\ q.segs \in Seq(Segments)
  BY DEF CommandAdded, RasterShape
<1>3. /\ DOMAIN r.cmds = 1 .. Len(r.cmds) /\ DOMAIN q.cmds = 1 .. Len(r.cmds) + 1 /\ Len(r.cmds) \in Nat
      /\ \A i \in DOMAIN r.cmds : q.cmds[i] = r.cmds[i] /\ r.cmds[i] \in CommandShape
      /\ q.cmds[Len(r.cmds) + 1] = c
  BY <1>1, <1>2, AppendProperties, LenProperties, ElementOfSeq
<1>4. ASSUME NEW i \in DOMAIN q.cmds
      PROVE  q.cmds[i] \in CommandShape /\ q.cmds[i].start + q.cmds[i].len <= q.base
  <2>1. CASE i \in DOMAIN r.cmds
    <3>1. q.cmds[i] = r.cmds[i] /\ r.cmds[i] \in CommandShape /\ r.cmds[i].start + r.cmds[i].len <= r.base
      BY <1>3, <2>1 DEF CommandsLie
    <3>2. r.cmds[i].start \in Nat /\ r.cmds[i].len \in Nat
      BY <3>1 DEF CommandShape
    <3>3. QED
      BY <1>2, <3>1, <3>2
  <2>2. CASE i = Len(r.cmds) + 1
    BY <1>1, <1>3, <2>2
  <2>3. QED
    BY <1>3, <2>1, <2>2
<1>5. ASSUME NEW i \in DOMAIN q.cmds, NEW j \in DOMAIN q.cmds, i < j, q.cmds[i].len > 0, q.cmds[j].len > 0
      PROVE  q.cmds[i].start + q.cmds[i].len <= q.cmds[j].start
  <2>1. i \in DOMAIN r.cmds
    BY <1>3, <1>5
  <2>2. CASE j \in DOMAIN r.cmds
    BY <1>3, <1>5, <2>1, <2>2 DEF CommandsLie
  <2>3. CASE j = Len(r.cmds) + 1
    <3>1. q.cmds[i].start + q.cmds[i].len <= r.base
      BY <1>3, <2>1 DEF CommandsLie
    <3>2. c.start >= r.base /\ c.start \in Nat
      BY <1>1, <1>3, <1>5, <2>3 DEF CommandShape
    <3>3. q.cmds[i].start \in Nat /\ q.cmds[i].len \in Nat
      BY <1>4 DEF CommandShape
    <3>4. q.cmds[j] = c
      BY <1>3, <2>3
    <3>5. QED
      BY <1>2, <3>1, <3>2, <3>3, <3>4
  <2>4. QED
    BY <1>3, <2>2, <2>3
<1>6. QED
  BY <1>1, <1>3, <1>4, <1>5 DEF CommandsLie

LEMMA OpKeeps ==
  ASSUME CanvasInv, NEW q, Canvas!Op(q), PathChanged(ctx.raster, q) \/ CommandAdded(ctx.raster, q, epoch)
  PROVE  CanvasInv'
<1>1. /\ ctx # Canvas!None /\ CtxInv(ctx, epoch) /\ epoch \in Nat
      /\ ctx' = [ctx EXCEPT !.ops = ctx.ops + 1, !.key = Canvas!None, !.raster = q]
      /\ epoch' = epoch /\ picture' = picture
  BY DEF Canvas!Op, CanvasInv
<1>2. ctx' = [epoch |-> ctx.epoch, ops |-> ctx.ops + 1, raster |-> q, key |-> Canvas!None, buf |-> ctx.buf]
  BY <1>1 DEF CtxInv
<1>3. /\ q \in RasterShape /\ q.base <= Len(q.segs) /\ CommandsLie(q.cmds, q.base)
      /\ ctx.epoch = epoch => \A i \in DOMAIN q.cmds : q.cmds[i].at = epoch
  <2>1. /\ ctx.raster \in RasterShape /\ ctx.raster.base <= Len(ctx.raster.segs)
        /\ CommandsLie(ctx.raster.cmds, ctx.raster.base)
        /\ ctx.epoch = epoch => \A i \in DOMAIN ctx.raster.cmds : ctx.raster.cmds[i].at = epoch
    BY <1>1 DEF CtxInv
  <2>2. CASE PathChanged(ctx.raster, q)
    BY <2>1, <2>2 DEF PathChanged
  <2>3. CASE CommandAdded(ctx.raster, q, epoch)
    <3>1. q \in RasterShape /\ q.base <= Len(q.segs)
      BY <2>3 DEF CommandAdded
    <3>2. /\ CommandsLie(q.cmds, q.base)
          /\ (\A i \in DOMAIN ctx.raster.cmds : ctx.raster.cmds[i].at = epoch) => \A i \in DOMAIN q.cmds : q.cmds[i].at = epoch
      BY ONLY <2>1, <2>3, OneCommandMore
    <3>3. QED
      BY <2>1, <3>1, <3>2
  <2>4. QED
    BY <2>2, <2>3
<1>4. CtxInv(ctx', epoch)
  BY <1>1, <1>2, <1>3 DEF CtxInv
<1>5. QED
  BY <1>1, <1>4 DEF CanvasInv, Canvas!OldGone

LEMMA LongerPath ==
  ASSUME NEW s \in Seq(Segments), NEW t \in Seq(Segments)
  PROVE  s \o t \in Seq(Segments) /\ Len(s) <= Len(s \o t)
BY ConcatProperties, LenProperties

LEMMA PathSet ==
  ASSUME NEW r \in RasterShape, NEW segs \in Seq(Segments), NEW pen \in BOOLEAN, NEW start \in BOOLEAN
  PROVE  LET q == [r EXCEPT !.segs = segs, !.pen = pen, !.start = start]
         IN  q \in RasterShape /\ q.cmds = r.cmds /\ q.base = r.base /\ q.segs = segs
BY DEF RasterShape

LEMMA DrawnTo ==
  ASSUME NEW r \in RasterShape, NEW seg \in {"line", "curve"}
  PROVE  /\ Canvas!To(r, seg) \in RasterShape /\ Len(r.segs) <= Len(Canvas!To(r, seg).segs)
         /\ Canvas!To(r, seg).cmds = r.cmds /\ Canvas!To(r, seg).base = r.base
<1> DEFINE more == IF r.pen THEN <<seg>> ELSE IF seg = "line" THEN <<"move">> ELSE <<"move", seg>>
<1>1. more \in Seq(Segments) /\ r.segs \in Seq(Segments)
  <2>1. <<seg>> \in Seq(Segments) /\ <<"move">> \in Seq(Segments) /\ <<"move", seg>> \in Seq(Segments)
    BY DEF Segments
  <2>2. QED
    BY <2>1 DEF RasterShape
<1>2. Append(r.segs, seg) = r.segs \o <<seg>>
  BY <1>1, AppendIsConcat DEF Segments
<1>3. Canvas!To(r, seg) = [r EXCEPT !.segs = r.segs \o more, !.pen = TRUE, !.start = (r.start \/ ~r.pen)]
  BY <1>2 DEF Canvas!To
<1>4. r.segs \o more \in Seq(Segments) /\ Len(r.segs) <= Len(r.segs \o more)
  BY <1>1, LongerPath
<1>5. (r.start \/ ~r.pen) \in BOOLEAN
  OBVIOUS
<1> HIDE DEF more
<1>6. QED
  BY <1>3, <1>4, <1>5 DEF RasterShape

LEMMA DrawingKeeps ==
  ASSUME CanvasInv,
         \/ Canvas!Mark \/ Canvas!Shape \/ Canvas!BeginPath \/ Canvas!ClosePath \/ Canvas!MoveTo
         \/ Canvas!LineTo \/ Canvas!CurveTo \/ Canvas!Ellipse \/ Canvas!Paint
  PROVE  CanvasInv'
<1> DEFINE r == ctx.raster
<1>0. ASSUME ctx # Canvas!None
      PROVE  /\ epoch \in Nat /\ r \in RasterShape /\ r.base <= Len(r.segs)
             /\ r.segs \in Seq(Segments) /\ r.cmds \in Seq(CommandShape) /\ r.base \in Nat /\ r.fill \in Paints
             /\ \A seg \in Segments : Append(r.segs, seg) \in Seq(Segments) /\ Len(r.segs) <= Len(Append(r.segs, seg))
  <2>1. epoch \in Nat /\ r \in RasterShape /\ r.base <= Len(r.segs)
    BY <1>0 DEF CanvasInv, CtxInv
  <2>2. r.segs \in Seq(Segments) /\ r.cmds \in Seq(CommandShape) /\ r.base \in Nat /\ r.fill \in Paints
    BY <2>1 DEF RasterShape
  <2>3. QED
    BY <2>1, <2>2, AppendProperties, LenProperties
<1>1. ASSUME Canvas!Mark PROVE CanvasInv'
  <2>1. PathChanged(r, r) /\ Canvas!Op(r)
    BY <1>0, <1>1 DEF Canvas!Mark, PathChanged
  <2>2. QED
    BY <2>1, OpKeeps
<1>2. ASSUME Canvas!Shape PROVE CanvasInv'
  <2>1. PICK paint \in {r.fill, "clear"} : Canvas!Op(Canvas!Command(paint, 0, 0)) /\ ctx # Canvas!None
    BY <1>2 DEF Canvas!Shape
  <2> DEFINE c == [paint |-> paint, at |-> epoch, start |-> 0, len |-> 0]
             q == Canvas!Command(paint, 0, 0)
  <2>2. c \in CommandShape /\ c.at = epoch /\ c.start + c.len <= r.base /\ c.len = 0
    <3>1. paint \in Paints /\ epoch \in Nat /\ r.base \in Nat
      BY <1>0, <2>1 DEF Paints
    <3>2. c \in CommandShape
      BY <3>1 DEF CommandShape
    <3>3. QED
      BY <3>1, <3>2
  <2>3. q = [r EXCEPT !.cmds = Append(r.cmds, c)]
    BY DEF Canvas!Command
  <2>4. Append(r.cmds, c) \in Seq(CommandShape)
    BY <1>0, <2>1, <2>2, AppendProperties
  <2> HIDE DEF c, q
  <2>5. q \in RasterShape /\ q.cmds = Append(r.cmds, c) /\ q.base = r.base /\ q.segs = r.segs
    BY <1>0, <2>1, <2>3, <2>4 DEF RasterShape
  <2>6. CommandAdded(r, q, epoch)
    BY <1>0, <2>1, <2>2, <2>5 DEF CommandAdded
  <2>7. QED
    BY <2>1, <2>6, OpKeeps DEF q
<1>3. ASSUME Canvas!BeginPath PROVE CanvasInv'
  <2> DEFINE q == [r EXCEPT !.segs = SubSeq(r.segs, 1, r.base), !.pen = FALSE, !.start = FALSE]
  <2>1. ctx # Canvas!None /\ Canvas!Op(q)
    BY <1>3 DEF Canvas!BeginPath
  <2>2. SubSeq(r.segs, 1, r.base) \in Seq(Segments) /\ Len(SubSeq(r.segs, 1, r.base)) = r.base
    <3>1. r.segs \in Seq(Segments) /\ r.base \in Nat /\ r.base <= Len(r.segs)
      BY <1>0, <2>1
    <3>2. \A i \in 1 .. r.base : i \in 1 .. Len(r.segs)
      BY <3>1, LenProperties
    <3>3. QED
      BY <3>1, <3>2, SubSeqProperties
  <2>3. q \in RasterShape /\ q.cmds = r.cmds /\ q.base = r.base /\ q.segs = SubSeq(r.segs, 1, r.base)
    BY <1>0, <2>1, <2>2, PathSet
  <2> HIDE DEF q
  <2>a. PathChanged(r, q)
    BY <1>0, <2>1, <2>2, <2>3 DEF PathChanged
  <2>4. QED
    BY <2>1, <2>a, OpKeeps
<1>4. ASSUME Canvas!ClosePath PROVE CanvasInv'
  <2> DEFINE q == IF r.start THEN [r EXCEPT !.segs = Append(r.segs, "close"), !.pen = TRUE] ELSE r
  <2>1. ctx # Canvas!None /\ Canvas!Op(q)
    BY <1>4 DEF Canvas!ClosePath
  <2>2. Append(r.segs, "close") \in Seq(Segments) /\ Len(r.segs) <= Len(Append(r.segs, "close"))
    BY <1>0, <2>1 DEF Segments
  <2>a. Len(r.segs) \in Nat /\ Len(Append(r.segs, "close")) \in Nat
    BY <1>0, <2>1, <2>2, LenProperties
  <2>3. PathChanged(r, [r EXCEPT !.segs = Append(r.segs, "close"), !.pen = TRUE]) /\ PathChanged(r, r)
    <3> DEFINE q2 == [r EXCEPT !.segs = Append(r.segs, "close"), !.pen = TRUE]
    <3>1. /\ q2 \in RasterShape /\ q2.cmds = r.cmds /\ q2.base = r.base /\ q2.segs = Append(r.segs, "close")
          /\ r \in RasterShape /\ r.base \in Nat /\ r.base <= Len(r.segs)
      <4>1. r \in RasterShape /\ r.base \in Nat /\ r.base <= Len(r.segs)
        BY <1>0, <2>1
      <4>2. QED
        BY ONLY <4>1, <2>2 DEF RasterShape
    <3> HIDE DEF q2
    <3>2. PathChanged(r, q2) /\ PathChanged(r, r)
      BY <2>2, <2>a, <3>1 DEF PathChanged
    <3>3. QED
      BY <3>2 DEF q2
  <2>4. PathChanged(r, q)
    BY <2>3
  <2> HIDE DEF q
  <2>5. QED
    BY <2>1, <2>4, OpKeeps
<1>5. ASSUME Canvas!MoveTo PROVE CanvasInv'
  <2> DEFINE q == [r EXCEPT !.segs = Append(r.segs, "move"), !.pen = TRUE, !.start = TRUE]
  <2>1. ctx # Canvas!None /\ Canvas!Op(q)
    BY <1>5 DEF Canvas!MoveTo
  <2>2. Append(r.segs, "move") \in Seq(Segments) /\ Len(r.segs) <= Len(Append(r.segs, "move"))
    BY <1>0, <2>1 DEF Segments
  <2>a. Len(r.segs) \in Nat /\ Len(Append(r.segs, "move")) \in Nat
    BY <1>0, <2>1, <2>2, LenProperties
  <2>3. PathChanged(r, q)
    <3>1. /\ q \in RasterShape /\ q.cmds = r.cmds /\ q.base = r.base /\ q.segs = Append(r.segs, "move")
          /\ r.base \in Nat /\ r.base <= Len(r.segs)
      BY <1>0, <2>1, <2>2, PathSet
    <3> HIDE DEF q
    <3>2. QED
      BY <2>2, <2>a, <3>1 DEF PathChanged
  <2> HIDE DEF q
  <2>4. QED
    BY <2>1, <2>3, OpKeeps
<1>6. ASSUME NEW seg \in {"line", "curve"}, ctx # Canvas!None
      PROVE  /\ PathChanged(r, Canvas!To(r, seg)) /\ Canvas!To(r, seg) \in RasterShape
             /\ r.base <= Len(Canvas!To(r, seg).segs) /\ Canvas!To(r, seg).segs \in Seq(Segments)
  <2>1. r \in RasterShape /\ r.base \in Nat /\ r.base <= Len(r.segs) /\ Len(r.segs) \in Nat
    BY <1>0, <1>6, LenProperties
  <2>2. /\ Canvas!To(r, seg) \in RasterShape /\ Len(r.segs) <= Len(Canvas!To(r, seg).segs)
        /\ Canvas!To(r, seg).cmds = r.cmds /\ Canvas!To(r, seg).base = r.base
    BY <2>1, DrawnTo
  <2>3. Canvas!To(r, seg).segs \in Seq(Segments)
    BY <2>2 DEF RasterShape
  <2>4. Len(Canvas!To(r, seg).segs) \in Nat
    BY <2>3, LenProperties
  <2>5. QED
    BY <2>1, <2>2, <2>3, <2>4 DEF PathChanged
<1>7. ASSUME Canvas!LineTo \/ Canvas!CurveTo PROVE CanvasInv'
  <2>1. ctx # Canvas!None /\ \E seg \in {"line", "curve"} : Canvas!Op(Canvas!To(r, seg))
    BY <1>7 DEF Canvas!LineTo, Canvas!CurveTo
  <2>2. QED
    BY <1>6, <2>1, OpKeeps
<1>8. ASSUME Canvas!Ellipse PROVE CanvasInv'
  <2>1. PICK n \in 0 .. 1 : /\ ctx # Canvas!None
                            /\ Canvas!Op([Canvas!To(r, "line") EXCEPT !.segs = @ \o [i \in 1 .. n |-> "curve"], !.start = TRUE])
    BY <1>8 DEF Canvas!Ellipse
  <2> DEFINE t == Canvas!To(r, "line")
             arcs == [i \in 1 .. n |-> "curve"]
             q == [t EXCEPT !.segs = t.segs \o arcs, !.start = TRUE]
  <2>2. Canvas!Op(q)
    BY <2>1
  <2>3. /\ t \in RasterShape /\ t.segs \in Seq(Segments) /\ t.cmds = r.cmds /\ t.base = r.base /\ r.base <= Len(t.segs)
        /\ r.base \in Nat
    BY <1>0, <1>6, <2>1 DEF PathChanged
  <2> HIDE DEF t
  <2>4. arcs \in Seq(Segments)
    BY DEF Segments
  <2> HIDE DEF arcs
  <2>5. t.segs \o arcs \in Seq(Segments) /\ Len(t.segs) <= Len(t.segs \o arcs)
    BY <2>3, <2>4, LongerPath
  <2>6. Len(t.segs) \in Nat /\ Len(t.segs \o arcs) \in Nat
    BY <2>3, <2>5, LenProperties
  <2>7. q \in RasterShape /\ q.cmds = t.cmds /\ q.base = t.base /\ q.segs = t.segs \o arcs
    BY <2>3, <2>5 DEF RasterShape
  <2> HIDE DEF q
  <2>8. PathChanged(r, q)
    BY <2>3, <2>5, <2>6, <2>7 DEF PathChanged
  <2>9. QED
    BY <2>2, <2>8, OpKeeps
<1>9. ASSUME Canvas!Paint PROVE CanvasInv'
  <2>1. ctx # Canvas!None
    BY <1>9 DEF Canvas!Paint
  <2> DEFINE c == [paint |-> r.fill, at |-> epoch, start |-> r.base, len |-> Len(r.segs) - r.base]
             q == [Canvas!Command(r.fill, r.base, Len(r.segs) - r.base) EXCEPT !.base = Len(r.segs)]
  <2>2. CASE r.segs = <<>>
    <3>1. PathChanged(r, r) /\ Canvas!Op(r)
      BY <1>0, <1>9, <2>1, <2>2 DEF Canvas!Paint, PathChanged
    <3>2. QED
      BY <3>1, OpKeeps
  <2>3. CASE r.segs # <<>>
    <3>1. Canvas!Op(q)
      BY <1>9, <2>3 DEF Canvas!Paint
    <3>2. r.base \in Nat /\ Len(r.segs) \in Nat /\ r.base <= Len(r.segs) /\ epoch \in Nat
      BY <1>0, <2>1, LenProperties
    <3>3. /\ c \in CommandShape /\ c.at = epoch /\ c.start = r.base
          /\ c.start + c.len <= Len(r.segs)
      BY <1>0, <2>1, <3>2 DEF CommandShape
    <3>4. q = [r EXCEPT !.cmds = Append(r.cmds, c), !.base = Len(r.segs)]
      BY DEF Canvas!Command
    <3>5. Append(r.cmds, c) \in Seq(CommandShape)
      BY <1>0, <2>1, <3>3, AppendProperties
    <3> HIDE DEF c, q
    <3>6. q \in RasterShape /\ q.cmds = Append(r.cmds, c) /\ q.base = Len(r.segs) /\ q.segs = r.segs
      BY <1>0, <2>1, <3>2, <3>4, <3>5 DEF RasterShape
    <3>7. CommandAdded(r, q, epoch)
      BY <3>2, <3>3, <3>6 DEF CommandAdded
    <3>8. QED
      BY <3>1, <3>7, OpKeeps
  <2>4. QED
    BY <2>2, <2>3
<1>10. QED
  BY <1>1, <1>2, <1>3, <1>4, <1>5, <1>7, <1>8, <1>9

\* an empty raster, as the context starts and starts over
LEMMA BlankGood ==
  Canvas!Blank \in RasterShape /\ Canvas!Blank.base = 0 /\ Canvas!Blank.segs = <<>> /\ Canvas!Blank.cmds = <<>>
<1>1. <<>> \in Seq(CommandShape) /\ <<>> \in Seq(Segments)
  OBVIOUS
<1>2. Canvas!Blank \in RasterShape
  BY <1>1 DEF Canvas!Blank, RasterShape, Paints
<1>3. QED
  BY <1>2 DEF Canvas!Blank

LEMMA FreshCtx ==
  ASSUME NEW c, NEW e \in Nat, c.epoch = e, c.raster = Canvas!Blank, c.key = Canvas!None,
         c = [epoch |-> c.epoch, ops |-> c.ops, raster |-> c.raster, key |-> c.key, buf |-> c.buf]
  PROVE  CtxInv(c, e)
<1>1. CommandsLie(<<>>, 0) /\ Len(<<>>) = 0
  BY DEF CommandsLie
<1>2. QED
  BY <1>1, BlankGood DEF CtxInv

(* A context that was read is of the size the canvas has now.              *)
LEMMA SyncedGood ==
  ASSUME CanvasInv, ctx # Canvas!None
  PROVE  /\ CtxInv(Canvas!Synced, epoch) /\ Canvas!Synced.epoch = epoch
         /\ \A i \in DOMAIN Canvas!Synced.raster.cmds : Canvas!Synced.raster.cmds[i].at = epoch
<1>1. CtxInv(ctx, epoch) /\ epoch \in Nat
  BY DEF CanvasInv
<1>2. CASE ctx.epoch = epoch
  <2>1. Canvas!Synced = ctx
    BY <1>2 DEF Canvas!Synced
  <2>2. QED
    BY <1>1, <1>2, <2>1 DEF CtxInv
<1>3. CASE ctx.epoch # epoch
  <2>1. Canvas!Synced = [epoch |-> epoch, ops |-> ctx.ops, raster |-> Canvas!Blank, key |-> Canvas!None, buf |-> ctx.buf]
    BY <1>1, <1>3 DEF Canvas!Synced, CtxInv
  <2>2. CtxInv(Canvas!Synced, epoch)
    BY <1>1, <2>1, FreshCtx
  <2>3. QED
    BY <2>1, <2>2, BlankGood
<1>4. QED
  BY <1>2, <1>3

LEMMA RenderedAt ==
  ASSUME NEW r, NEW e, \A i \in DOMAIN r.cmds : r.cmds[i].at = e
  PROVE  \A i \in DOMAIN Canvas!Render(r) : Canvas!Render(r)[i].at = e
BY DEF Canvas!Render

LEMMA ReadingKeeps ==
  ASSUME CanvasInv, Canvas!ToDataUrl \/ Canvas!GetImageData
  PROVE  CanvasInv'
<1>1. CASE Canvas!ToDataUrl /\ ctx = Canvas!None
  BY <1>1 DEF Canvas!ToDataUrl, Canvas!Reading, CanvasInv, Canvas!OldGone
<1>2. CASE Canvas!ToDataUrl /\ ctx # Canvas!None
  <2> DEFINE s == Canvas!Synced
  <2>1. /\ epoch' = epoch /\ epoch \in Nat /\ ctx' = Canvas!Framed(s) /\ picture' = ctx'.buf
    BY <1>2 DEF Canvas!ToDataUrl, Canvas!Reading, CanvasInv
  <2>2. CtxInv(s, epoch) /\ \A i \in DOMAIN s.raster.cmds : s.raster.cmds[i].at = epoch
    BY <1>2, SyncedGood
  <2> HIDE DEF s
  <2>3. CASE s.key = [epoch |-> s.epoch, size |-> area]
    <3>1. s.key # Canvas!None
      BY <2>3 DEF Canvas!None
    <3>2. ctx' = s
      BY <2>1, <2>3 DEF Canvas!Framed
    <3>3. CtxInv(ctx', epoch) /\ picture' = Canvas!Render(s.raster)
      BY <2>1, <2>2, <3>1, <3>2 DEF CtxInv
    <3>4. \A i \in DOMAIN picture' : picture'[i].at = epoch
      BY <2>2, <3>3, RenderedAt
    <3>5. QED
      BY <2>1, <3>3, <3>4 DEF CanvasInv, Canvas!OldGone
  <2>4. CASE s.key # [epoch |-> s.epoch, size |-> area]
    <3>1. ctx' = [epoch |-> s.epoch, ops |-> s.ops, raster |-> s.raster, key |-> [epoch |-> s.epoch, size |-> area],
                  buf |-> Canvas!Render(s.raster)]
      BY <2>1, <2>2, <2>4 DEF Canvas!Framed, CtxInv
    <3>2. CtxInv(ctx', epoch)
      BY <2>2, <3>1 DEF CtxInv
    <3>3. picture' = Canvas!Render(s.raster)
      BY <2>1, <3>1
    <3>4. \A i \in DOMAIN picture' : picture'[i].at = epoch
      BY <2>2, <3>3, RenderedAt
    <3>5. QED
      BY <2>1, <3>2, <3>4 DEF CanvasInv, Canvas!OldGone
  <2>5. QED
    BY <2>3, <2>4
<1>3. CASE Canvas!GetImageData
  <2>1. /\ epoch' = epoch /\ epoch \in Nat /\ ctx' = Canvas!Synced /\ picture' = Canvas!Render(Canvas!Synced.raster)
        /\ ctx # Canvas!None
    BY <1>3 DEF Canvas!GetImageData, Canvas!Reading, CanvasInv
  <2>2. QED
    BY <2>1, SyncedGood, RenderedAt DEF CanvasInv, Canvas!OldGone
<1>4. QED
  BY <1>1, <1>2, <1>3

LEMMA CanvasStart == Canvas!Init => CanvasInv
BY DEF Canvas!Init, CanvasInv, Canvas!OldGone

LEMMA CanvasStep == CanvasInv /\ [Canvas!Next]_canvasVars => CanvasInv'
<1> SUFFICES ASSUME CanvasInv, [Canvas!Next]_canvasVars PROVE CanvasInv'
  OBVIOUS
<1>1. CASE Canvas!GetContext
  <2>1. /\ epoch' = epoch /\ picture' = picture /\ epoch \in Nat
        /\ ctx' = [epoch |-> epoch, ops |-> 0, raster |-> Canvas!Blank, key |-> Canvas!None, buf |-> <<>>]
    BY <1>1 DEF Canvas!GetContext, Canvas!Context, CanvasInv
  <2>2. CtxInv(ctx', epoch)
    BY <2>1, FreshCtx
  <2>3. QED
    BY <2>1, <2>2 DEF CanvasInv, Canvas!OldGone
<1>2. CASE Canvas!Resize
  BY <1>2 DEF Canvas!Resize, CanvasInv, CtxInv, Canvas!OldGone
<1>3. CASE Canvas!SetStyle
  <2>1. /\ epoch' = epoch /\ picture' = picture /\ epoch \in Nat /\ ctx # Canvas!None /\ CtxInv(ctx, epoch)
        /\ ctx' = [ctx EXCEPT !.raster.fill = "red"]
    BY <1>3 DEF Canvas!SetStyle, CanvasInv
  <2> DEFINE q == [ctx.raster EXCEPT !.fill = "red"]
  <2>2. ctx' = [epoch |-> ctx.epoch, ops |-> ctx.ops, raster |-> q, key |-> ctx.key, buf |-> ctx.buf]
    BY <2>1 DEF CtxInv
  <2>a. ctx.raster \in RasterShape
    BY <2>1 DEF CtxInv
  <2>3. q \in RasterShape /\ q.segs = ctx.raster.segs /\ q.cmds = ctx.raster.cmds /\ q.base = ctx.raster.base
    BY <2>a DEF RasterShape, Paints
  <2> HIDE DEF q
  <2>4. Canvas!Render(q) = Canvas!Render(ctx.raster)
    BY <2>3 DEF Canvas!Render, Canvas!PathOf
  <2>5. CtxInv(ctx', epoch)
    <3>1. /\ ctx'.epoch = ctx.epoch /\ ctx'.ops = ctx.ops /\ ctx'.raster = q /\ ctx'.key = ctx.key /\ ctx'.buf = ctx.buf
          /\ ctx' = [epoch |-> ctx'.epoch, ops |-> ctx'.ops, raster |-> ctx'.raster, key |-> ctx'.key, buf |-> ctx'.buf]
      BY <2>2
    <3>2. /\ ctx.epoch \in Nat /\ ctx.epoch <= epoch
          /\ ctx.raster.base <= Len(ctx.raster.segs) /\ CommandsLie(ctx.raster.cmds, ctx.raster.base)
          /\ ctx.epoch = epoch => \A i \in DOMAIN ctx.raster.cmds : ctx.raster.cmds[i].at = epoch
          /\ ctx.key # Canvas!None => ctx.buf = Canvas!Render(ctx.raster)
      BY <2>1 DEF CtxInv
    <3>3. /\ q.base <= Len(q.segs) /\ CommandsLie(q.cmds, q.base)
          /\ ctx.epoch = epoch => \A i \in DOMAIN q.cmds : q.cmds[i].at = epoch
      BY <2>3, <3>2
    <3>4. QED
      BY <2>3, <2>4, <3>1, <3>2, <3>3 DEF CtxInv
  <2>6. QED
    BY <2>1, <2>5 DEF CanvasInv, Canvas!OldGone
<1>4. CASE UNCHANGED canvasVars
  BY <1>4 DEF canvasVars, CanvasInv, Canvas!OldGone
<1>5. QED
  BY <1>1, <1>2, <1>3, <1>4, DrawingKeeps, ReadingKeeps DEF Canvas!Next

LEMMA CanvasSays == CanvasInv => Canvas!CanvasSound
<1> SUFFICES ASSUME CanvasInv PROVE Canvas!CanvasSound
  OBVIOUS
<1>1. Canvas!PathsWhole
  BY DEF CanvasInv, CtxInv, CommandsLie, Canvas!PathsWhole
<1>2. QED
  BY <1>1 DEF CanvasInv, CtxInv, Canvas!FrameFresh, Canvas!CanvasSound

(* What a worker keeps is worth keeping, for any scripts, options, sizes   *)
(* and limits: besides the script cache and the compiled functions, an     *)
(* Intl object prints with what its own options call for, whoever built    *)
(* the formatter, the realm holds what its ring says and no more, a date   *)
(* is printed for the profile of its request (intl.rs:259-327, 1490-1529), *)
(* and a canvas that is read shows what is recorded now, of this size and  *)
(* with no path cut into by another (canvas2d.rs, canvas.rs).              *)
THEOREM CachesStaySound == WorkerSpec => []CachesSound
<1>1. WorkerInit => FormatInv /\ CanvasInv
  BY FormatsStart, CanvasStart DEF WorkerInit
<1>2. FormatInv /\ CanvasInv /\ [WorkerNext]_<<scene, workerVars>> => FormatInv' /\ CanvasInv'
  <2> SUFFICES ASSUME FormatInv, CanvasInv, [WorkerNext]_<<scene, workerVars>> PROVE FormatInv' /\ CanvasInv'
    OBVIOUS
  <2>1. [Formats!Next]_formatVars /\ [Canvas!Next]_canvasVars
    BY DEF WorkerNext, workerVars
  <2>2. QED
    BY <2>1, FormatsStep, CanvasStep
<1>3. (scene = "shared" => Shared!RoomKept) /\ (scene = "functions" => Functions!KeepsRecent) /\ FormatInv /\ CanvasInv
        => CachesSound
  BY FormatsSay, CanvasSays DEF CachesSound
<1>4. QED
  BY <1>1, <1>2, <1>3, RoomIsKept, LastUsedAreKept, PTL DEF WorkerSpec
=============================================================================
