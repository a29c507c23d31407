----------------------------- MODULE AnswerCache -----------------------------
(***************************************************************************)
(* The cache of slider answers (challenge-solver/src/cache.rs): a ring of  *)
(* slots, each a key and an answer in two atomics that no lock holds       *)
(* together, read and written by the clients of solve_with_cache at once.  *)
(*                                                                         *)
(* A key stands for the hash of a payload, and for its answer: the solver  *)
(* gives one payload one answer.  That a payload hashes to 0 is left out.  *)
(***************************************************************************)
EXTENDS Naturals, FiniteSets

CONSTANTS Clients, Keys,
          Slots, SlotOf(_),   \* the ring and the slot of a key (its low bits)
          Calls               \* bound: calls per client

Empty == 0        \* key 0, and the answer 0

CacheAssumption == /\ IsFiniteSet(Clients) /\ IsFiniteSet(Keys) /\ Empty \notin Keys
                   /\ IsFiniteSet(Slots)
                   /\ \A k \in Keys : SlotOf(k) \in Slots
                   /\ Calls \in Nat

VARIABLES may,          \* may[c]: the payloads that come to client c (fixed)
          key, xy,      \* the two atomics of each slot
          len,
          at,           \* where each client is
          asked,        \* the payload it has
          got,          \* what it was answered last, from the cache or not
          calls

vars == <<may, key, xy, len, at, asked, got, calls>>

Nothing == [hit |-> FALSE, answer |-> Empty]

Init == /\ may \in [Clients -> SUBSET Keys]
        /\ key = [s \in Slots |-> Empty]
        /\ xy = [s \in Slots |-> Empty]
        /\ len = 0
        /\ at = [c \in Clients |-> "idle"]
        /\ asked = [c \in Clients |-> Empty]
        /\ got = [c \in Clients |-> Nothing]
        /\ calls = [c \in Clients |-> 0]

Slot(c) == SlotOf(asked[c])
Goes(c, from, to) == at[c] = from /\ at' = [at EXCEPT ![c] = to]

-----------------------------------------------------------------------------
(* lookup *)

Call(c) == /\ Goes(c, "idle", "lookup")
           /\ calls[c] < Calls
           /\ calls' = [calls EXCEPT ![c] = @ + 1]
           /\ \E k \in may[c] : asked' = [asked EXCEPT ![c] = k]
           /\ got' = [got EXCEPT ![c] = Nothing]
           /\ UNCHANGED <<may, key, xy, len>>

ReadKey(c) == /\ \/ Goes(c, "lookup", "read") /\ key[Slot(c)] = asked[c]
                 \/ Goes(c, "lookup", "solve") /\ key[Slot(c)] # asked[c]
              /\ UNCHANGED <<may, key, xy, len, asked, got, calls>>

ReadAnswer(c) == /\ Goes(c, "read", "idle")
                 /\ got' = [got EXCEPT ![c] = [hit |-> TRUE, answer |-> xy[Slot(c)]]]
                 /\ UNCHANGED <<may, key, xy, len, asked, calls>>

(* slider::solve, which may fail: then nothing is recorded. *)
Solve(c) == /\ \/ Goes(c, "solve", "record") /\ got' = [got EXCEPT ![c].answer = asked[c]]
               \/ Goes(c, "solve", "idle") /\ UNCHANGED got
            /\ UNCHANGED <<may, key, xy, len, asked, calls>>

-----------------------------------------------------------------------------
(* record *)

ReadOld(c) == /\ \/ Goes(c, "record", "idle") /\ key[Slot(c)] = asked[c]
                 \/ Goes(c, "record", "count") /\ key[Slot(c)] = Empty
                 \/ Goes(c, "record", "write") /\ key[Slot(c)] \notin {Empty, asked[c]}
              /\ UNCHANGED <<may, key, xy, len, asked, got, calls>>

Count(c) == /\ Goes(c, "count", "write")
            /\ len' = len + 1
            /\ UNCHANGED <<may, key, xy, asked, got, calls>>

(* Mutant: the key is there before the answer. *)
PublishFirst(c) == /\ Goes(c, "write", "publish")
                   /\ key' = [key EXCEPT ![Slot(c)] = asked[c]]
                   /\ UNCHANGED <<may, xy, len, asked, got, calls>>

WriteAnswer(c) == /\ Goes(c, "write", "publish")
                  /\ xy' = [xy EXCEPT ![Slot(c)] = asked[c]]
                  /\ UNCHANGED <<may, key, len, asked, got, calls>>

Publish(c) == /\ Goes(c, "publish", "idle")
              /\ key' = [key EXCEPT ![Slot(c)] = asked[c]]
              /\ UNCHANGED <<may, xy, len, asked, got, calls>>

Next == \E c \in Clients : \/ Call(c) \/ ReadKey(c) \/ ReadAnswer(c) \/ Solve(c)
                           \/ ReadOld(c) \/ Count(c) \/ WriteAnswer(c) \/ Publish(c)

Spec == Init /\ [][Next]_vars

-----------------------------------------------------------------------------
Places == {"idle", "lookup", "read", "solve", "record", "count", "write", "publish"}

TypeOK == /\ may \in [Clients -> SUBSET Keys]
          /\ key \in [Slots -> Keys \cup {Empty}]
          /\ xy \in [Slots -> Keys \cup {Empty}]
          /\ len \in 0 .. Cardinality(Clients) * Calls
          /\ at \in [Clients -> Places]
          /\ asked \in [Clients -> Keys \cup {Empty}]
          /\ got \in [Clients -> [hit : BOOLEAN, answer : Keys \cup {Empty}]]
          /\ calls \in [Clients -> 0 .. Calls]

(* Whatever races, a hit is an answer that somebody solved and that        *)
(* belongs in this slot, never the zeros of an empty one: the answer is    *)
(* written before the key (cache.rs:59-61).  In a slot whose payloads all  *)
(* come to one client, the hit is the answer to what was asked.            *)
Within(s) == {c \in Clients : \E k \in may[c] : SlotOf(k) = s}
Raced(s) == Cardinality(Within(s)) > 1
HitsAreOfTheSlot ==
  \A c \in Clients : got[c].hit =>
    /\ got[c].answer # Empty /\ SlotOf(got[c].answer) = Slot(c)
    /\ ~Raced(Slot(c)) => got[c].answer = asked[c]

(* Every slot in use is counted, and twice only where clients race for it  *)
(* (cache.rs:50-58).                                                       *)
InUse == {s \in Slots : key[s] # Empty}
Counting == {c \in Clients : at[c] \in {"write", "publish"} /\ key[Slot(c)] = Empty}
SlotsCounted == /\ TypeOK
                /\ len >= Cardinality(InUse)
                /\ (\A s \in Slots : ~Raced(s)) => len = Cardinality(InUse) + Cardinality(Counting)
=============================================================================
