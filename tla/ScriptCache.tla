----------------------------- MODULE ScriptCache -----------------------------
(***************************************************************************)
(* What is remembered of scripts (runtime-exec/src/cache.rs, worker.rs):   *)
(* NormCache, shared by the workers, with the normal form of a script      *)
(* (raw) and the source of a normal form (src), both within a budget; and  *)
(* in each worker a FnCache with the compiled functions it used last.      *)
(* A domain is a part of every key.  A Budget's reserve is one step here:  *)
(* module Budget has its inside.                                           *)
(***************************************************************************)
EXTENDS Integers, FiniteSets, SequencesExt

CONSTANTS Workers, Scripts,
          Skels,                \* normal forms
          SkelOf(_),            \* normalize
          Room,                 \* entry_limit of each budget
          MaxAge, SweepGap,     \* 300 s and 30 s
          FnCap,                \* FN_CACHE_CAP
          LastTick              \* bound on the clock

CacheAssumption == /\ {Room, MaxAge, SweepGap, FnCap} \subseteq Nat \ {0} /\ LastTick \in Nat
                   /\ IsFiniteSet(Workers) /\ IsFiniteSet(Scripts) /\ IsFiniteSet(Skels) /\ Scripts # {}
                   /\ \A s \in Scripts : SkelOf(s) \in Skels

Maps == {"raw", "src"}
Keys(m) == IF m = "raw" THEN Scripts ELSE Skels
Absent == -1
Entries == UNION {{m} \X Keys(m) : m \in Maps}

VARIABLES used,        \* used[m][k]: when the entry was used last, or Absent
          entries,     \* entries[m]: what the budget counts
          now,
          nextSweep,   \* of each worker
          at, script,  \* where a worker is, and what it runs
          cut,         \* a worker's sweep: the time it read
          todo,        \* a worker's sweep: the entries it has yet to see
          cur, prev,   \* FnCache
          recent       \* the FnCap functions a worker used last (history)

norm == <<used, entries>>
fns == <<cur, prev, recent>>
vars == <<norm, now, nextSweep, at, script, cut, todo, fns>>

Init == /\ used = [m \in Maps |-> [k \in Keys(m) |-> Absent]]
        /\ entries = [m \in Maps |-> 0]
        /\ now = 0
        /\ nextSweep = [w \in Workers |-> 0]
        /\ at = [w \in Workers |-> "idle"]
        /\ script = [w \in Workers |-> CHOOSE s \in Scripts : TRUE]
        /\ cut = [w \in Workers |-> 0] /\ todo = [w \in Workers |-> {}]
        /\ cur = [w \in Workers |-> {}] /\ prev = [w \in Workers |-> {}]
        /\ recent = [w \in Workers |-> <<>>]

Goes(w, from, to) == at[w] = from /\ at' = [at EXCEPT ![w] = to]
Key(w, m) == IF m = "raw" THEN script[w] ELSE SkelOf(script[w])
Has(w, m) == used[m][Key(w, m)] # Absent

-----------------------------------------------------------------------------
(* Worker::run, for a script *)

Start(w) == /\ Goes(w, "idle", IF now >= nextSweep[w] THEN "sweep" ELSE "raw")
            /\ \E s \in Scripts : script' = [script EXCEPT ![w] = s]
            /\ IF now >= nextSweep[w]
               THEN /\ nextSweep' = [nextSweep EXCEPT ![w] = now + SweepGap]
                    /\ cut' = [cut EXCEPT ![w] = now]
                    /\ todo' = [todo EXCEPT ![w] = Entries]
               ELSE UNCHANGED <<nextSweep, cut, todo>>
            /\ UNCHANGED <<norm, now, fns>>

(* sweep: entry by entry, raw before src, against the time it began. *)
Fresh(w, m, k) == used[m][k] > cut[w] - MaxAge
Sweep(w) == \E e \in todo[w] :
  /\ at[w] = "sweep" /\ (e[1] = "src" => ~\E f \in todo[w] : f[1] = "raw")
  /\ todo' = [todo EXCEPT ![w] = @ \ {e}]
  /\ at' = IF todo[w] = {e} THEN [at EXCEPT ![w] = "raw"] ELSE at
  /\ IF used[e[1]][e[2]] # Absent /\ ~Fresh(w, e[1], e[2])
     THEN /\ used' = [used EXCEPT ![e[1]][e[2]] = Absent]
          /\ entries' = [entries EXCEPT ![e[1]] = @ - 1]
     ELSE UNCHANGED norm
  /\ UNCHANGED <<now, nextSweep, script, cut, fns>>

(* lookup_raw, lookup_src: what is found is touched; what is not is        *)
(* normalized, unless that fails or takes too long.                        *)
Touch(w, m) == used' = IF Has(w, m) THEN [used EXCEPT ![m][Key(w, m)] = now] ELSE used
LookRaw(w) == /\ \/ Has(w, "raw") /\ Goes(w, "raw", "source")
                 \/ ~Has(w, "raw") /\ (Goes(w, "raw", "reserve raw") \/ Goes(w, "raw", "idle"))
              /\ Touch(w, "raw")
              /\ UNCHANGED <<entries, now, nextSweep, script, cut, todo, fns>>

LookSrc(w) == /\ \/ Has(w, "src") /\ Goes(w, "source", "call")
                 \/ ~Has(w, "src") /\ (Goes(w, "source", "reserve src") \/ Goes(w, "source", "idle"))
              /\ Touch(w, "src")
              /\ UNCHANGED <<entries, now, nextSweep, script, cut, todo, fns>>

AtReserve(m) == IF m = "raw" THEN "reserve raw" ELSE "reserve src"
AtInsert(m) == IF m = "raw" THEN "insert raw" ELSE "insert src"
After(m) == IF m = "raw" THEN "reserve src" ELSE "call"
(* put_raw, put_src: no room, no entry. *)
Reserve(w, m) == /\ IF entries[m] = Room
                    THEN Goes(w, AtReserve(m), After(m)) /\ UNCHANGED entries
                    ELSE /\ Goes(w, AtReserve(m), AtInsert(m))
                         /\ entries' = [entries EXCEPT ![m] = @ + 1]
                 /\ UNCHANGED <<used, now, nextSweep, script, cut, todo, fns>>

(* Mutant: the reservation is given back only with an entry of one's own. *)
InsertLeaks(w, m) == /\ Goes(w, AtInsert(m), After(m))
                     /\ used' = IF Has(w, m) THEN used ELSE [used EXCEPT ![m][Key(w, m)] = now]
                     /\ UNCHANGED <<entries, now, nextSweep, script, cut, todo, fns>>

(* insert_sync fails on a key that is there; the new entry is dropped with *)
(* its charge.                                                             *)
Insert(w, m) == /\ Goes(w, AtInsert(m), After(m))
                /\ IF Has(w, m)
                   THEN entries' = [entries EXCEPT ![m] = @ - 1] /\ UNCHANGED used
                   ELSE used' = [used EXCEPT ![m][Key(w, m)] = now] /\ UNCHANGED entries
                /\ UNCHANGED <<now, nextSweep, script, cut, todo, fns>>

-----------------------------------------------------------------------------
(* FnCache: fetch, and insert after a fetch that found nothing. *)

Full(w) == Cardinality(cur[w]) >= FnCap

Enter(w, k) == /\ cur' = [cur EXCEPT ![w] = IF Full(w) THEN {k} ELSE @ \cup {k}]
               /\ prev' = [prev EXCEPT ![w] = (IF Full(w) THEN cur[w] ELSE @) \ {k}]

\* k in front; what stood before it moves back, and what comes after FnCap others is forgotten
InFront(order, k) ==
  LET known == \E p \in DOMAIN order : order[p] = k
      place == IF known THEN CHOOSE p \in DOMAIN order : order[p] = k ELSE Len(order) + 1
      last == IF known \/ Len(order) = FnCap THEN Len(order) ELSE Len(order) + 1
  IN  [i \in 1 .. last |-> IF i = 1 THEN k ELSE IF i <= place THEN order[i - 1] ELSE order[i]]
Used(w, k) == recent' = [recent EXCEPT ![w] = InFront(@, k)]

(* exec, if there is time for it; source that does not compile leaves      *)
(* nothing behind.                                                         *)
Call(w) == LET k == Key(w, "src")
           IN  /\ Goes(w, "call", "idle")
               /\ \/ k \in cur[w] /\ UNCHANGED <<cur, prev>> /\ Used(w, k)
                  \/ k \notin cur[w] /\ Enter(w, k) /\ Used(w, k)
                  \/ UNCHANGED fns
               /\ UNCHANGED <<norm, now, nextSweep, script, cut, todo>>

(* rebuild_env *)
Rebuild(w) == /\ at[w] = "idle" /\ cur[w] # {}
              /\ cur' = [cur EXCEPT ![w] = {}] /\ prev' = [prev EXCEPT ![w] = {}]
              /\ recent' = [recent EXCEPT ![w] = <<>>]
              /\ UNCHANGED <<norm, now, nextSweep, at, script, cut, todo>>

Tick == now < LastTick /\ now' = now + 1 /\ UNCHANGED <<norm, nextSweep, at, script, cut, todo, fns>>

Next == \/ \E w \in Workers : \/ Start(w) \/ Sweep(w) \/ LookRaw(w) \/ LookSrc(w)
                              \/ Call(w) \/ Rebuild(w)
                              \/ \E m \in Maps : Reserve(w, m) \/ Insert(w, m)
        \/ Tick

Spec == Init /\ [][Next]_vars

-----------------------------------------------------------------------------
Places == {"idle", "sweep", "raw", "reserve raw", "insert raw", "source", "reserve src", "insert src", "call"}
TypeOK == /\ DOMAIN used = Maps /\ \A m \in Maps : used[m] \in [Keys(m) -> {Absent} \cup 0 .. now]
          /\ entries \in [Maps -> 0 .. Room] /\ now \in 0 .. LastTick
          /\ at \in [Workers -> Places] /\ script \in [Workers -> Scripts]
          /\ todo \in [Workers -> SUBSET Entries]

(* Each budget counts the entries that are in its map and those a worker   *)
(* is about to insert, and no others, within its room: whatever the        *)
(* workers look up, put twice and sweep at once, nothing is leaked that    *)
(* would close the cache for good (cache.rs:69-86, 97-133;                 *)
(* runtime-exec/tests/cache_resource.rs:56-64).                            *)
Held(m) == {k \in Keys(m) : used[m][k] # Absent}
Coming(m) == {w \in Workers : at[w] = AtInsert(m)}
RoomKept == /\ TypeOK
            /\ \A m \in Maps : entries[m] = Cardinality(Held(m)) + Cardinality(Coming(m))

(* Two maps of FnCap make do for an order of use: the FnCap functions a    *)
(* worker used last are never the ones thrown away (worker.rs:1345-1363).  *)
KeepsRecent == \A w \in Workers :
  /\ ToSet(recent[w]) \subseteq cur[w] \cup prev[w]
  /\ Cardinality(cur[w]) <= FnCap /\ Cardinality(prev[w]) <= FnCap /\ cur[w] \cap prev[w] = {}
=============================================================================
