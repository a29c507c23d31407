------------------------------ MODULE BuildWatch ------------------------------
(***************************************************************************)
(* The watch over challenge builds (supervisor/src/watch.rs, VersionMonitor*)
(* of parser-pipeline/src/lib.rs): visits report what script a page has    *)
(* and put it on a list; a daemon fetches what is listed, now and then,    *)
(* and reports what is not the build the monitor has for its address.      *)
(*                                                                         *)
(* Neither table replaces: insert_sync does nothing where there is a key.  *)
(* So the monitor has the first build ever seen of an address, and a       *)
(* record stays as it was put until it ages out or has to make room.       *)
(*                                                                         *)
(* A build is a member of Builds, its hash with it.  Fetching and running  *)
(* a script are other modules' business; the token it leaves and the       *)
(* difference of the two scripts are only logged.                          *)
(***************************************************************************)
EXTENDS Integers, FiniteSets

CONSTANTS Urls, Pages,        \* Pages: the addresses whose page is probed
          Builds, Visitors,
          Cap, Ttl,           \* WATCH_CAP, WATCH_TTL
          Usize,              \* how many numbers a usize has
          Visits, Rounds,     \* bounds: of each visitor, of the daemon
          LastTick            \* bound of the clock

Unknown == 0                  \* no build

Daemon == "daemon"
Actors == Visitors \cup {Daemon}

WatchAssumption == /\ IsFiniteSet(Urls) /\ Pages \subseteq Urls
                   /\ IsFiniteSet(Visitors) /\ Daemon \notin Visitors
                   /\ Unknown \notin Builds /\ {Cap, Ttl, Visits, Rounds, LastTick} \subseteq Nat
                   /\ Usize \in Nat /\ Cardinality(Urls) < Usize

VARIABLES first,      \* VersionMonitor.hashes: the build of an address, or Unknown
          listed,     \* the watch map: [build, seen] of an address, or Absent
          reported,   \* <<address, build>> that was warned of and counted
          clock,
          at, has,    \* where each actor is, and with what address and build
          victims, excess,    \* of the watch_gc it runs
          probes,     \* what the daemon has still to fetch
          runs        \* visits begun, rounds of the daemon

vars == <<first, listed, reported, clock, at, has, victims, excess, probes, runs>>
gcVars == <<victims, excess>>

Nothing == [url |-> Unknown, build |-> Unknown]
Absent == [build |-> Unknown, seen |-> -1]
Listed == {u \in Urls : listed[u] # Absent}
Old(u) == clock - listed[u].seen > Ttl

Init == /\ first = [u \in Urls |-> Unknown]
        /\ listed = [u \in Urls |-> Absent]
        /\ reported = {} /\ clock = 0
        /\ at = [a \in Actors |-> "idle"]
        /\ has = [a \in Actors |-> Nothing]
        /\ victims = [a \in Actors |-> {}]
        /\ excess = [a \in Actors |-> 0]
        /\ probes = {}
        /\ runs = [a \in Actors |-> 0]

Goes(a, from, to) == at[a] = from /\ at' = [at EXCEPT ![a] = to]

(* A visit, or a probe, is over. *)
Over(a, from) == /\ Goes(a, from, IF a = Daemon THEN "probe" ELSE "idle")
                 /\ has' = [has EXCEPT ![a] = Nothing]

-----------------------------------------------------------------------------
(* What brings a build: a visit, or a probe of the daemon. *)

(* A page whose script stands in it is put without asking the monitor. *)
Visit(v) ==
  /\ runs[v] < Visits
  /\ \E u \in Urls, b \in Builds :
       /\ Goes(v, "idle", IF u \in Pages THEN "put" ELSE "check")
       /\ has' = [has EXCEPT ![v] = [url |-> u, build |-> b]]
  /\ runs' = [runs EXCEPT ![v] = @ + 1]
  /\ UNCHANGED <<first, listed, reported, clock, gcVars, probes>>

(* The daemon wakes and first lets go of what is too old. *)
Awake == /\ runs[Daemon] < Rounds
         /\ Goes(Daemon, "idle", "age")
         /\ runs' = [runs EXCEPT ![Daemon] = @ + 1]
         /\ UNCHANGED <<first, listed, reported, clock, has, gcVars, probes>>

(* A probe without a session, an answer or a body is passed over. *)
Probe == /\ \E u \in probes :
              /\ probes' = probes \ {u}
              /\ \/ /\ Goes(Daemon, "probe", "check")
                    /\ \E b \in Builds : has' = [has EXCEPT ![Daemon] = [url |-> u, build |-> b]]
                 \/ at[Daemon] = "probe" /\ UNCHANGED <<at, has>>
         /\ UNCHANGED <<first, listed, reported, clock, gcVars, runs>>

Probed == /\ probes = {} /\ Goes(Daemon, "probe", "idle")
          /\ UNCHANGED <<first, listed, reported, clock, has, gcVars, probes, runs>>

-----------------------------------------------------------------------------
(* VersionMonitor::check, and what follows: a visit goes on in any case,   *)
(* the daemon only with a build that is not the monitor's.                 *)

Changed(a) == first[has[a].url] # has[a].build
Check(a) ==
  /\ \/ Goes(a, "check", "keep") /\ Changed(a) /\ UNCHANGED has
     \/ a # Daemon /\ Goes(a, "check", "put") /\ ~Changed(a) /\ UNCHANGED has
     \/ a = Daemon /\ Over(a, "check") /\ ~Changed(a)
  /\ UNCHANGED <<first, listed, reported, clock, gcVars, probes, runs>>

Keep(a) == /\ Goes(a, "keep", "warn")
           /\ first' = [first EXCEPT ![has[a].url] = IF @ = Unknown THEN has[a].build ELSE @]
           /\ UNCHANGED <<listed, reported, clock, has, gcVars, probes, runs>>

Warn(a) == /\ Goes(a, "warn", "put")
           /\ reported' = reported \cup {<<has[a].url, has[a].build>>}
           /\ UNCHANGED <<first, listed, clock, has, gcVars, probes, runs>>

-----------------------------------------------------------------------------
(* watch_put and watch_gc *)

Put(a) == /\ Goes(a, "put", "len")
          /\ listed' = [listed EXCEPT ![has[a].url] =
                           IF @ = Absent THEN [build |-> has[a].build, seen |-> clock] ELSE @]
          /\ UNCHANGED <<first, reported, clock, has, gcVars, probes, runs>>

Fits == Cardinality(Listed) <= Cap

Look(a) == /\ \/ Fits /\ Over(a, "len")
              \/ ~Fits /\ Goes(a, "len", "age") /\ UNCHANGED has
           /\ UNCHANGED <<first, listed, reported, clock, gcVars, probes, runs>>

Age(a) == /\ Goes(a, "age", "drop")
          /\ victims' = [victims EXCEPT ![a] = {u \in Listed : Old(u)}]
          /\ UNCHANGED <<first, listed, reported, clock, has, excess, probes, runs>>

(* Whoever is meant, the record that is at its address now goes. *)
Drop(a) == /\ at[a] \in {"drop", "cut"}
           /\ \E u \in victims[a] : /\ listed' = [listed EXCEPT ![u] = Absent]
                                    /\ victims' = [victims EXCEPT ![a] = @ \ {u}]
           /\ UNCHANGED <<first, reported, clock, at, has, excess, probes, runs>>

(* The daemon's own round has no cap: it takes down what is listed. *)
Dropped(a) == /\ victims[a] = {}
              /\ IF has[a].build = Unknown
                 THEN Goes(a, "drop", "probe") /\ probes' = Listed
                 ELSE Goes(a, "drop", "room") /\ UNCHANGED probes
              /\ UNCHANGED <<first, listed, reported, clock, has, gcVars, runs>>

Room(a) == /\ \/ Fits /\ Over(a, "room")
              \/ ~Fits /\ Goes(a, "room", "count") /\ UNCHANGED has
           /\ UNCHANGED <<first, listed, reported, clock, gcVars, probes, runs>>

(* The list is counted a second time for what it has too much: others may  *)
(* have shortened it to less than its cap since, and then the difference   *)
(* is the huge number that it is in a usize.                               *)
Count(a) == /\ Goes(a, "count", "pick")
            /\ excess' = [excess EXCEPT ![a] = (Cardinality(Listed) - Cap) % Usize]
            /\ UNCHANGED <<first, listed, reported, clock, has, victims, probes, runs>>

(* The first that the iteration meets, in whatever order it goes. *)
Pick(a) == /\ Goes(a, "pick", "cut")
           /\ \E vs \in SUBSET Listed :
                /\ Cardinality(vs) = excess[a] \/ (vs = Listed /\ Cardinality(vs) < excess[a])
                /\ victims' = [victims EXCEPT ![a] = vs]
           /\ excess' = [excess EXCEPT ![a] = 0]
           /\ UNCHANGED <<first, listed, reported, clock, has, probes, runs>>

Cut(a) == /\ victims[a] = {} /\ Over(a, "cut")
          /\ UNCHANGED <<first, listed, reported, clock, gcVars, probes, runs>>

(* A tick is six hours: it does not pass within a round of the daemon. *)
Tick == /\ clock < LastTick /\ at[Daemon] = "idle" /\ clock' = clock + 1
        /\ UNCHANGED <<first, listed, reported, at, has, gcVars, probes, runs>>

Step(a) == \/ Check(a) \/ Keep(a) \/ Warn(a) \/ Put(a) \/ Look(a)
           \/ Age(a) \/ Drop(a) \/ Dropped(a) \/ Room(a) \/ Count(a) \/ Pick(a) \/ Cut(a)

Next == \/ \E v \in Visitors : Visit(v)
        \/ Awake \/ Probe \/ Probed \/ Tick
        \/ \E a \in Actors : Step(a)

Spec == Init /\ [][Next]_vars

-----------------------------------------------------------------------------
(* The list is as long as its cap allows, but for those who have put and   *)
(* not yet looked or made room: two sweeps at once, the second for what    *)
(* the first is about to take, leave nothing over (watch.rs:63-87).        *)
(* That they leave what fits is not so: one that counts when another has   *)
(* just made room takes all there is.                                      *)
Putting == {a \in Actors : at[a] \in {"len", "age", "drop", "room", "count", "pick", "cut"} /\ has[a].build # Unknown}
CapKept == Cardinality(Listed) <= Cap + Cardinality(Putting)

(* No build of a script gets on the list unnoticed, whoever else checks    *)
(* that address at the time: it was reported, or is the monitor's first    *)
(* (watch.rs:113-125, lib.rs:37-48).                                       *)
NoneUnnoticed ==
  \A u \in Listed \ Pages :
    first[u] # Unknown /\ (first[u] = listed[u].build \/ <<u, listed[u].build>> \in reported)
=============================================================================
