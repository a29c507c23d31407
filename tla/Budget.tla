-------------------------------- MODULE Budget --------------------------------
(***************************************************************************)
(* The two-counter reservation of runtime-exec/src/cache.rs: Budget keeps  *)
(* `entries` and `bytes` in two separate atomics, reserve() moves first    *)
(* the one and then the other by compare-exchange, and dropping a Charge   *)
(* subtracts first the one and then the other.  Every action below is one  *)
(* atomic access (and the local computation in front of it), so that any   *)
(* two callers interleave between any two accesses.                        *)
(*                                                                         *)
(* checked_add overflows only past u64::MAX, which is past either limit,   *)
(* so an overflow is the same refusal as a sum over the limit.             *)
(***************************************************************************)
EXTENDS Naturals, FiniteSets, Totals

CONSTANTS Callers,      \* the life of one Charge, from reserve() to drop
          EntryLimit,   \* Budget.entry_limit
          ByteLimit,    \* Budget.byte_limit
          UnitChoices,  \* the units a caller may ask for
          SizeChoices   \* the bytes a caller may ask for

ASSUME BudgetAssumption ==
  /\ EntryLimit \in Nat \ {0}
  /\ ByteLimit \in Nat \ {0}
  /\ UnitChoices \subseteq Nat
  /\ SizeChoices \subseteq Nat

VARIABLES entries,      \* Budget.entries
          bytes,        \* Budget.bytes
          pc,           \* pc[c]: the next atomic access of c
          units, size,  \* the arguments of reserve(), kept by the Charge
          seenEntries,  \* the local `entries` of reserve()
          seenBytes     \* the local `bytes_now` of reserve()

vars == <<entries, bytes, pc, units, size, seenEntries, seenBytes>>

Phases == {"idle", "loadEntries", "loadBytes", "casEntries", "casBytes",
           "undo", "held", "dropBytes"}

Init == /\ entries = 0
        /\ bytes = 0
        /\ pc = [c \in Callers |-> "idle"]
        /\ units = [c \in Callers |-> 0]
        /\ size = [c \in Callers |-> 0]
        /\ seenEntries = [c \in Callers |-> 0]
        /\ seenBytes = [c \in Callers |-> 0]

Goto(c, from, to) == pc[c] = from /\ pc' = [pc EXCEPT ![c] = to]

-----------------------------------------------------------------------------
(* reserve(units, bytes) *)

Call(c) == /\ Goto(c, "idle", "loadEntries")
           /\ \E u \in UnitChoices : units' = [units EXCEPT ![c] = u]
           /\ \E b \in SizeChoices : size' = [size EXCEPT ![c] = b]
           /\ UNCHANGED <<entries, bytes, seenEntries, seenBytes>>

LoadEntries(c) == /\ Goto(c, "loadEntries", "loadBytes")
                  /\ seenEntries' = [seenEntries EXCEPT ![c] = entries]
                  /\ UNCHANGED <<entries, bytes, units, size, seenBytes>>

LoadBytes(c) == /\ Goto(c, "loadBytes", "casEntries")
                /\ seenBytes' = [seenBytes EXCEPT ![c] = bytes]
                /\ UNCHANGED <<entries, bytes, units, size, seenEntries>>

(* Mutant: one byte too many. *)
FitsLoosely(c) == /\ seenEntries[c] + units[c] <= EntryLimit
                  /\ seenBytes[c] + size[c] <= ByteLimit + 1

(* Both sums fit, as far as this caller has seen. *)
Fits(c) == /\ seenEntries[c] + units[c] <= EntryLimit
           /\ seenBytes[c] + size[c] <= ByteLimit

Refuse(c) == /\ Goto(c, "casEntries", "idle")
             /\ ~Fits(c)
             /\ UNCHANGED <<entries, bytes, units, size, seenEntries, seenBytes>>

CasEntries(c) == /\ Goto(c, "casEntries", "casBytes")
                 /\ Fits(c)
                 /\ entries = seenEntries[c]
                 /\ entries' = seenEntries[c] + units[c]
                 /\ UNCHANGED <<bytes, units, size, seenEntries, seenBytes>>

(* Mutant: a failed exchange is tried again without looking. *)
CasEntriesInsists(c) ==
  /\ Goto(c, "casEntries", "loadBytes")
  /\ Fits(c)
  /\ UNCHANGED <<entries, bytes, units, size, seenEntries, seenBytes>>

(* compare_exchange_weak may fail although the value is the expected one. *)
CasEntriesFails(c) ==
  /\ Goto(c, "casEntries", "loadEntries")
  /\ Fits(c)
  /\ UNCHANGED <<entries, bytes, units, size, seenEntries, seenBytes>>

CasBytes(c) == /\ Goto(c, "casBytes", "held")
               /\ bytes = seenBytes[c]
               /\ bytes' = seenBytes[c] + size[c]
               /\ UNCHANGED <<entries, units, size, seenEntries, seenBytes>>

(* Mutant: the units are not given back before the next try. *)
CasBytesForgets(c) ==
  /\ Goto(c, "casBytes", "loadEntries")
  /\ bytes # seenBytes[c]
  /\ UNCHANGED <<entries, bytes, units, size, seenEntries, seenBytes>>

(* The strong exchange fails only because another caller moved the bytes;  *)
(* the units taken a moment ago are then given back.                       *)
CasBytesFails(c) ==
  /\ Goto(c, "casBytes", "undo")
  /\ bytes # seenBytes[c]
  /\ UNCHANGED <<entries, bytes, units, size, seenEntries, seenBytes>>

Undo(c) == /\ Goto(c, "undo", "loadEntries")
           /\ entries' = entries - units[c]
           /\ UNCHANGED <<bytes, units, size, seenEntries, seenBytes>>

-----------------------------------------------------------------------------
(* Drop for Charge *)

DropEntries(c) == /\ Goto(c, "held", "dropBytes")
                  /\ entries' = entries - units[c]
                  /\ UNCHANGED <<bytes, units, size, seenEntries, seenBytes>>

DropBytes(c) == /\ Goto(c, "dropBytes", "idle")
                /\ bytes' = bytes - size[c]
                /\ UNCHANGED <<entries, units, size, seenEntries, seenBytes>>

-----------------------------------------------------------------------------
Step(c) == \/ LoadEntries(c) \/ LoadBytes(c)
           \/ Refuse(c) \/ CasEntries(c) \/ CasEntriesFails(c)
           \/ CasBytes(c) \/ CasBytesFails(c) \/ Undo(c)
           \/ DropBytes(c)

Next == \E c \in Callers : Call(c) \/ Step(c) \/ DropEntries(c)

Spec == Init /\ [][Next]_vars

(***************************************************************************)
(* Threads keep running: a call that is under way takes its next access,   *)
(* and a compare-exchange whose expectation keeps being right does not     *)
(* fail spuriously for all callers for ever.  Nobody owes a reserve() or a *)
(* drop.                                                                   *)
(***************************************************************************)
Fairness == /\ \A c \in Callers : WF_vars(Step(c))
            /\ SF_vars(\E c \in Callers : CasEntries(c))

FairSpec == Spec /\ Fairness

-----------------------------------------------------------------------------


InPhase(P) == {c \in Callers : pc[c] \in P}

CountedEntries == InPhase({"casBytes", "undo", "held"})
CountedBytes == InPhase({"held", "dropBytes"})
Granted == InPhase({"held"})

TypeOK == /\ entries \in Nat
          /\ bytes \in Nat
          /\ pc \in [Callers -> Phases]
          /\ units \in [Callers -> Nat]
          /\ size \in [Callers -> Nat]
          /\ seenEntries \in [Callers -> Nat]
          /\ seenBytes \in [Callers -> Nat]

(* Each counter is exactly what its charges are worth: the units of every  *)
(* caller between its first exchange and its undo or drop, the bytes of    *)
(* every caller between its second exchange and the end of its drop.  No   *)
(* undo is lost, no drop runs twice and neither fetch_sub ever wraps       *)
(* (cache.rs:189-204, 212-214).                                            *)
Accounted == /\ entries = Total(units, CountedEntries)
             /\ bytes = Total(size, CountedBytes)

(* The charges outstanding never exceed either limit, although no step of  *)
(* reserve() checks both counters at once (cache.rs:168-204).              *)
WithinLimits == /\ Total(units, Granted) <= EntryLimit
                /\ Total(size, Granted) <= ByteLimit

(* What a budget keeps, whatever undo, retry and drop interleave.          *)
ChargesKept == TypeOK /\ Accounted /\ WithinLimits

(* The loop is lock-free: as long as some call is under way, calls keep    *)
(* ending, granted or refused, whatever the others do.                     *)
Calling(c) == pc[c] \notin {"idle", "held", "dropBytes"}
Ends(c) == Calling(c) /\ ~Calling(c)'
LockFree == \/ []<><<\E c \in Callers : Ends(c)>>_vars
            \/ []<>(\A c \in Callers : ~Calling(c))

(* The two exchanges implement one atomic grant. *)
Abstract == INSTANCE Admission WITH granted <- Granted
Admits == Abstract!Spec
=============================================================================
