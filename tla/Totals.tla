------------------------------- MODULE Totals -------------------------------
(***************************************************************************)
(* The total of a function into the naturals over a set of its arguments,  *)
(* as the size of a disjoint union: f[c] atoms for each c of the set.      *)
(* Unlike a fold, this form can be reasoned about from the theorems on     *)
(* finite sets alone: what it does when the set grows, shrinks or is       *)
(* replaced by a part, and when the function changes elsewhere.            *)
(***************************************************************************)
EXTENDS Naturals, FiniteSets, FiniteSetTheorems, TLAPS

Atoms(f, S) == UNION {{c} \X (1 .. f[c]) : c \in S}
Total(f, S) == Cardinality(Atoms(f, S))

(* Nothing totals zero. *)
LEMMA TotalOfNone ==
  ASSUME NEW f
  PROVE  IsFiniteSet(Atoms(f, {})) /\ Total(f, {}) = 0
<1>1. Atoms(f, {}) = {}
  BY DEF Atoms
<1>2. QED
  BY <1>1, FS_EmptySet DEF Total

(* Only the values inside the set matter. *)
LEMMA TotalOfSame ==
  ASSUME NEW f, NEW g, NEW S, \A c \in S : f[c] = g[c]
  PROVE  Atoms(f, S) = Atoms(g, S) /\ Total(f, S) = Total(g, S)
<1>1. Atoms(f, S) = Atoms(g, S)
  BY DEF Atoms
<1>2. QED
  BY <1>1 DEF Total

(* One more member adds its value. *)
LEMMA TotalGrows ==
  ASSUME NEW f, NEW S, NEW c, c \notin S, f[c] \in Nat,
         IsFiniteSet(Atoms(f, S))
  PROVE  /\ IsFiniteSet(Atoms(f, S \cup {c}))
         /\ Total(f, S \cup {c}) = Total(f, S) + f[c]
<1> DEFINE new == {c} \X (1 .. f[c])
<1>1. Atoms(f, S \cup {c}) = Atoms(f, S) \cup new
  BY DEF Atoms
<1>2. Atoms(f, S) \cap new = {}
  BY DEF Atoms
<1>3. IsFiniteSet({c}) /\ Cardinality({c}) = 1
  BY FS_Singleton
<1>4. IsFiniteSet(1 .. f[c]) /\ Cardinality(1 .. f[c]) = f[c]
  BY FS_Interval
<1>5. IsFiniteSet(new) /\ Cardinality(new) = f[c]
  <2>1. IsFiniteSet(new) /\ Cardinality(new) = Cardinality({c}) * Cardinality(1 .. f[c])
    BY <1>3, <1>4, FS_Product
  <2>2. QED
    BY <2>1, <1>3, <1>4
<1>6. /\ IsFiniteSet(Atoms(f, S) \cup new)
      /\ Cardinality(Atoms(f, S) \cup new)
           = Cardinality(Atoms(f, S)) + Cardinality(new) - Cardinality({})
  BY <1>2, <1>5, FS_Union
<1>7. Cardinality(Atoms(f, S)) \in Nat /\ Cardinality({}) = 0
  BY FS_CardinalityType, FS_EmptySet
<1>8. Cardinality(Atoms(f, S) \cup new) = Cardinality(Atoms(f, S)) + f[c]
  <2> HIDE DEF new
  <2>1. QED
    BY <1>5, <1>6, <1>7
<1>9. QED
  BY <1>1, <1>6, <1>8 DEF Total

(* A part of a finite total is finite and no larger. *)
LEMMA TotalOfPart ==
  ASSUME NEW f, NEW S, NEW T \in SUBSET S, IsFiniteSet(Atoms(f, S))
  PROVE  /\ IsFiniteSet(Atoms(f, T))
         /\ Total(f, T) \in Nat
         /\ Total(f, S) \in Nat
         /\ Total(f, T) <= Total(f, S)
<1>1. Atoms(f, T) \in SUBSET Atoms(f, S)
  BY DEF Atoms
<1>2. QED
  BY <1>1, FS_Subset, FS_CardinalityType DEF Total

(* One member less takes its value away. *)
LEMMA TotalShrinks ==
  ASSUME NEW f, NEW S, NEW c \in S, f[c] \in Nat, IsFiniteSet(Atoms(f, S))
  PROVE  /\ IsFiniteSet(Atoms(f, S \ {c}))
         /\ Total(f, S \ {c}) = Total(f, S) - f[c]
         /\ Total(f, S) >= f[c]
<1>1. /\ IsFiniteSet(Atoms(f, S \ {c}))
      /\ Total(f, S \ {c}) \in Nat
  BY TotalOfPart
<1>2. (S \ {c}) \cup {c} = S
  OBVIOUS
<1>3. Total(f, S) = Total(f, S \ {c}) + f[c]
  BY <1>1, <1>2, TotalGrows
<1>4. QED
  BY <1>1, <1>3

(* Totals over disjoint sets add up. *)
LEMMA TotalOfUnion ==
  ASSUME NEW f, NEW S, NEW T, S \cap T = {},
         IsFiniteSet(Atoms(f, S)), IsFiniteSet(Atoms(f, T))
  PROVE  /\ IsFiniteSet(Atoms(f, S \cup T))
         /\ Total(f, S \cup T) = Total(f, S) + Total(f, T)
<1> DEFINE A == Atoms(f, S)
           B == Atoms(f, T)
<1>1. Atoms(f, S \cup T) = A \cup B
  BY DEF Atoms
<1>2. A \cap B = {}
  BY DEF Atoms
<1>3. IsFiniteSet(A) /\ IsFiniteSet(B)
  OBVIOUS
<1>4. Total(f, S) = Cardinality(A) /\ Total(f, T) = Cardinality(B)
  BY DEF Total
<1> HIDE DEF A, B
<1>5. /\ IsFiniteSet(A \cup B)
      /\ Cardinality(A \cup B) = Cardinality(A) + Cardinality(B) - Cardinality({})
  BY <1>2, <1>3, FS_Union
<1>6. Cardinality({}) = 0 /\ Cardinality(A) \in Nat /\ Cardinality(B) \in Nat
  BY <1>3, FS_EmptySet, FS_CardinalityType
<1>7. Cardinality(A \cup B) = Cardinality(A) + Cardinality(B)
  BY <1>5, <1>6
<1>8. QED
  BY <1>1, <1>4, <1>5, <1>7 DEF Total

(* A finite set of arguments with bounded values has a finite total. *)
LEMMA TotalOfBounded ==
  ASSUME NEW f, NEW S, IsFiniteSet(S), NEW m \in Nat, \A c \in S : f[c] \in Nat /\ f[c] <= m
  PROVE  IsFiniteSet(Atoms(f, S))
<1>1. IsFiniteSet(S \X (1 .. m))
  <2>1. IsFiniteSet(1 .. m)
    BY FS_Interval
  <2>2. QED
    BY <2>1, FS_Product
<1>2. \A c \in S : 1 .. f[c] \subseteq 1 .. m
  OBVIOUS
<1>3. Atoms(f, S) \subseteq S \X (1 .. m)
  BY <1>2 DEF Atoms
<1>4. QED
  BY <1>1, <1>3, FS_Subset

(* r renames the arguments: each of T is the new name of one of S, with its value. *)
Renames(r, f, S, g, T) ==
  /\ r \in [S -> T]
  /\ \A c, d \in S : r[c] = r[d] => c = d
  /\ \A e \in T : \E c \in S : r[c] = e
  /\ \A c \in S : g[r[c]] = f[c]

(* The total does not depend on what the arguments are called. *)
LEMMA TotalOfRenamed ==
  ASSUME NEW f, NEW S, NEW g, NEW T, NEW r,
         Renames(r, f, S, g, T),
         IsFiniteSet(Atoms(f, S))
  PROVE  IsFiniteSet(Atoms(g, T)) /\ Total(g, T) = Total(f, S)
<1> DEFINE A == Atoms(f, S)
           B == Atoms(g, T)
           R == [a \in A |-> <<r[a[1]], a[2]>>]
<1>1. \A a \in A : /\ a = <<a[1], a[2]>> /\ a[1] \in S /\ a[2] \in 1 .. f[a[1]]
                   /\ <<r[a[1]], a[2]>> \in B
  BY DEF Atoms, Renames
<1>2. \A b \in B : b = <<b[1], b[2]>> /\ b[1] \in T /\ b[2] \in 1 .. g[b[1]]
  BY DEF Atoms
<1>3. \A c \in S : \A n \in 1 .. f[c] : <<c, n>> \in A
  BY DEF Atoms
<1>0. /\ \A c, d \in S : r[c] = r[d] => c = d
      /\ \A e \in T : \E c \in S : r[c] = e
      /\ \A c \in S : g[r[c]] = f[c]
  BY DEF Renames
<1> HIDE DEF A, B
<1>4. R \in [A -> B]
  BY <1>1
<1>5. \A a, b \in A : R[a] = R[b] => a = b
  <2> TAKE a, b \in A
  <2> HAVE R[a] = R[b]
  <2>1. <<r[a[1]], a[2]>> = <<r[b[1]], b[2]>>
    OBVIOUS
  <2>2. r[a[1]] = r[b[1]] /\ a[2] = b[2]
    BY <2>1
  <2>3. a[1] = b[1]
    BY <1>1, <1>0, <2>2
  <2>4. QED
    BY <1>1, <2>2, <2>3
<1>6. ASSUME NEW b \in B
      PROVE  \E a \in A : R[a] = b
  <2>1. PICK c \in S : r[c] = b[1]
    BY <1>2, <1>0
  <2>2. <<c, b[2]>> \in A
    BY <1>2, <1>3, <1>0, <2>1
  <2>3. R[<<c, b[2]>>] = <<r[c], b[2]>>
    BY <2>2
  <2>4. QED
    BY <1>2, <2>1, <2>2, <2>3
<1>7. R \in Bijection(A, B)
  BY <1>4, <1>5, <1>6 DEF Bijection, Injection, Surjection, IsInjective
<1>8. IsFiniteSet(A)
  BY DEF A
<1>9. IsFiniteSet(B) /\ Cardinality(B) = Cardinality(A)
  BY <1>7, <1>8, FS_Bijection DEF ExistsBijection
<1>10. QED
  BY <1>9 DEF Total, A, B
=============================================================================
