------------------------------ MODULE TimerLoop ------------------------------
(***************************************************************************)
(* The timers and animation frames of one script environment               *)
(* (runtime-exec/src/timer.rs): a heap of keys that may be stale, a map    *)
(* from the ids that are still armed to their callbacks, a count of them,  *)
(* and run_loop, which fires what is due until nothing is left, the        *)
(* deadline passes or the limit is reached.                                *)
(*                                                                         *)
(* Scripts are whatever they like: while one runs (the main script, a      *)
(* microtask, a timer's or a frame's callback) it may schedule and clear   *)
(* timers and frames in any order, and take any time.                      *)
(***************************************************************************)
EXTENDS Naturals, Sequences, FiniteSets

CONSTANTS TimerCap,   \* TIMER_CAP
          RafCap,     \* RAF_CAP
          FireLimit,  \* FIRE_LIMIT
          Delays,     \* the delays scripts ask for, in ticks (at least one)
          FrameTicks, \* the time between two frames
          Budget,     \* the time a run is given
          MaxId,      \* bound: timers a script can set
          MaxRaf,     \* bound: frames a script can ask for
          LastTick    \* bound: the clock stops here

ASSUME TimerAssumption == /\ {TimerCap, RafCap, FireLimit, FrameTicks, Budget, MaxId, MaxRaf, LastTick} \subseteq Nat
                          /\ Delays \subseteq Nat \ {0}

VARIABLES now,
          running,   \* "idle", "script", "loop", "timer" or "raf": whose turn it is
          deadline,  \* of the run
          fired,     \* callbacks of this run
          q,         \* TimerState: the next id, the last seq, the count, heap and map
          task,      \* the key whose callback runs
          raf,       \* RafState: the next id, when the frame is due, its callbacks
          batch,     \* the rest of the frame that runs
          quiet,     \* ids cleared by anything but their own callback
          silenced,  \* ids cleared
          asked      \* the delay each id of this run was set with

loopVars == <<running, deadline, fired, task, batch>>
ghostVars == <<quiet, silenced, asked>>
vars == <<now, loopVars, q, raf, ghostVars>>

Ids == 1 .. MaxId
Frames == 1 .. MaxRaf
Keys == [due : Nat, seq : Nat, id : Ids, interval : Nat]
NoTask == [due |-> 0, seq |-> 0, id |-> 0, interval |-> 0]
NoTimers == [nextId |-> 1, seq |-> 0, live |-> 0, heap |-> {}, tails |-> {}]
NoFrames == [nextId |-> 1, due |-> 0, cbs |-> <<>>]

Init == /\ now = 0
        /\ running = "idle"
        /\ deadline = 0
        /\ fired = 0
        /\ q = NoTimers
        /\ task = NoTask
        /\ raf = NoFrames
        /\ batch = <<>>
        /\ quiet = {} /\ silenced = {}
        /\ asked = [id \in Ids |-> 0]

Tick == /\ now < LastTick
        /\ now' = now + 1
        /\ UNCHANGED <<loopVars, q, raf, ghostVars>>

-----------------------------------------------------------------------------
(* TimerKey::cmp *)

Before(j, k) == j.due < k.due \/ (j.due = k.due /\ j.seq < k.seq)

KeyOf(due, n, id, interval) == [due |-> due, seq |-> n, id |-> id, interval |-> interval]

(* Mutant: a full heap is emptied. *)
PrunedAll(s) == IF Cardinality(s.heap) >= TimerCap THEN {} ELSE s.heap

(* A heap full of stale keys is pruned before the next key goes in. *)
Pruned(s) == IF Cardinality(s.heap) >= TimerCap THEN {k \in s.heap : k.id \in s.tails} ELSE s.heap

(* Mutant: the sequence numbers are of two bits, and wrap. *)
PushedNarrow(s, due, id, interval) ==
  IF s.live >= TimerCap
  THEN s
  ELSE [s EXCEPT !.seq = @ + 1,
                 !.live = @ + 1,
                 !.tails = @ \cup {id},
                 !.heap = Pruned(s) \cup {KeyOf(due, (s.seq + 1) % 4, id, interval)}]

(* push_timer: at the cap the timer is dropped without a word. *)
Pushed(s, due, id, interval) ==
  IF s.live >= TimerCap
  THEN s
  ELSE [s EXCEPT !.seq = @ + 1,
                 !.live = @ + 1,
                 !.tails = @ \cup {id},
                 !.heap = Pruned(s) \cup {KeyOf(due, s.seq + 1, id, interval)}]

(* schedule: the id is used up even if the timer is dropped. *)
Scheduled(s, delay, interval) ==
  [Pushed(s, now + delay, s.nextId, interval) EXCEPT !.nextId = @ + 1]

-----------------------------------------------------------------------------
(* What a script may do while it runs. *)

Scripting == running # "idle"

Schedule(delay, repeats) ==
  /\ Scripting
  /\ q.nextId <= MaxId
  /\ q' = Scheduled(q, delay, IF repeats THEN delay ELSE 0)
  /\ asked' = [asked EXCEPT ![q.nextId] = delay]
  /\ UNCHANGED <<now, loopVars, raf, quiet, silenced>>

(* The key stays in the heap, stale. *)
Removed(id) ==
  IF id \in q.tails THEN [q EXCEPT !.tails = @ \ {id}, !.live = @ - 1] ELSE q

(* Mutant: nothing is removed. *)
UnscheduleNothing(id) ==
  /\ Scripting
  /\ id < q.nextId
  /\ silenced' = silenced \cup {id}
  /\ quiet' = IF running = "timer" /\ task.id = id THEN quiet ELSE quiet \cup {id}
  /\ UNCHANGED <<now, loopVars, q, raf, asked>>

Unschedule(id) ==
  /\ Scripting
  /\ id < q.nextId
  /\ q' = Removed(id)
  /\ silenced' = silenced \cup {id}
  /\ quiet' = IF running = "timer" /\ task.id = id THEN quiet ELSE quiet \cup {id}
  /\ UNCHANGED <<now, loopVars, raf, asked>>

RafSchedule ==
  /\ Scripting
  /\ raf.nextId <= MaxRaf
  /\ raf' = [nextId |-> raf.nextId + 1,
             due |-> IF raf.due = 0 THEN now + FrameTicks ELSE raf.due,
             cbs |-> IF Len(raf.cbs) < RafCap THEN Append(raf.cbs, raf.nextId) ELSE raf.cbs]
  /\ UNCHANGED <<now, loopVars, q, ghostVars>>

(* retain, without recursion: the entries of s at the places K, in order. *)
Kept(s, K) == [n \in 1 .. Cardinality(K) |-> s[CHOOSE k \in K : Cardinality({j \in K : j <= k}) = n]]

(* The callbacks of the frame that runs are out of reach. *)
RafCancel(id) == /\ Scripting
                 /\ id < raf.nextId
                 /\ raf' = [raf EXCEPT !.cbs = Kept(@, {n \in DOMAIN @ : @[n] # id})]
                 /\ UNCHANGED <<now, loopVars, q, ghostVars>>

Script == \/ \E d \in Delays, repeats \in BOOLEAN : Schedule(d, repeats)
          \/ \E id \in Ids : Unschedule(id)
          \/ RafSchedule
          \/ \E id \in Frames : RafCancel(id)

-----------------------------------------------------------------------------
(* A run: clear_all, the script, then run_loop. *)

Start == /\ running = "idle"
         /\ now < LastTick
         /\ running' = "script"
         /\ deadline' = now + Budget
         /\ fired' = 0
         /\ q' = NoTimers
         /\ raf' = NoFrames
         /\ quiet' = {} /\ silenced' = {}
         /\ asked' = [id \in Ids |-> 0]
         /\ UNCHANGED <<now, task, batch>>

(* The script threw: there is no loop. *)
Threw == /\ running = "script"
         /\ running' = "idle"
         /\ UNCHANGED <<now, deadline, fired, task, batch, q, raf, ghostVars>>

(* The script is done; DOMContentLoaded and load are set as timers, if the *)
(* environment has a dispatcher of events.                                 *)
Evaluated == /\ running = "script"
             /\ running' = "loop"
             /\ \/ /\ q.nextId < MaxId
                   /\ q' = Scheduled(Scheduled(q, 1, 0), 1, 0)
                   /\ asked' = [asked EXCEPT ![q.nextId] = 1, ![q.nextId + 1] = 1]
                \/ UNCHANGED <<q, asked>>
             /\ UNCHANGED <<now, deadline, fired, task, batch, raf, quiet, silenced>>

GoesOn == fired < FireLimit /\ now < deadline
FrameDue == raf.cbs # <<>> /\ now >= raf.due
DueKeys == {k \in q.heap : k.due <= now}
DueTimers == {k \in DueKeys : k.id \in q.tails}

Exhausted == /\ running = "loop"
             /\ ~GoesOn
             /\ running' = "idle"
             /\ UNCHANGED <<now, deadline, fired, task, batch, q, raf, ghostVars>>

(* fire_raf_batch comes before the timers. *)
FireFrame == /\ running = "loop"
             /\ GoesOn
             /\ FrameDue
             /\ running' = "raf"
             /\ batch' = raf.cbs
             /\ raf' = [raf EXCEPT !.cbs = <<>>]
             /\ UNCHANGED <<now, deadline, fired, task, q, ghostVars>>

(* The callback of the frame's next entry has run (what it did is in       *)
(* Script), or it is no function and goes back, beyond RAF_CAP too.        *)
NextInFrame == /\ running = "raf"
               /\ batch # <<>>
               /\ batch' = Tail(batch)
               /\ \/ UNCHANGED raf
                  \/ raf' = [raf EXCEPT !.cbs = Append(@, Head(batch))]
               /\ UNCHANGED <<now, running, deadline, fired, task, q, ghostVars>>

FrameDone == /\ running = "raf"
             /\ batch = <<>>
             /\ running' = "loop"
             /\ fired' = fired + 1
             /\ raf' = [raf EXCEPT !.due = now + FrameTicks]
             /\ UNCHANGED <<now, deadline, task, batch, q, ghostVars>>

(* The earliest due timer leaves heap and map; the stale keys before it    *)
(* go with it.                                                             *)
Fire == /\ running = "loop"
        /\ GoesOn
        /\ ~FrameDue
        /\ \E k \in DueTimers :
             /\ \A j \in DueTimers : j = k \/ Before(k, j)
             /\ task' = k
             /\ q' = [q EXCEPT !.heap = @ \ {j \in DueKeys : j = k \/ Before(j, k)},
                               !.tails = @ \ {k.id},
                               !.live = @ - 1]
        /\ running' = "timer"
        /\ UNCHANGED <<now, deadline, fired, batch, raf, ghostVars>>

(* An interval whose callback did not fail is armed again. *)
Fired == /\ running = "timer"
         /\ fired' = fired + 1
         /\ running' = "loop"
         /\ task' = NoTask
         /\ \/ task.interval # 0 /\ q' = Pushed(q, now + task.interval, task.id, task.interval)
            \/ UNCHANGED q
         /\ UNCHANGED <<now, deadline, batch, raf, ghostVars>>

(* Nothing is due: the stale keys that were go, and the loop ends unless   *)
(* something comes before the deadline; it sleeps until then (Tick).       *)
Wakes == {k.due : k \in q.heap \ DueKeys} \cup (IF raf.cbs = <<>> THEN {} ELSE {raf.due})
Ends == (q.live = 0 /\ raf.cbs = <<>>) \/ \A w \in Wakes : w >= deadline

Nothing == /\ running = "loop"
           /\ GoesOn
           /\ ~FrameDue
           /\ DueTimers = {}
           /\ DueKeys # {} \/ Ends
           /\ q' = [q EXCEPT !.heap = @ \ DueKeys]
           /\ running' = IF Ends THEN "idle" ELSE "loop"
           /\ UNCHANGED <<now, deadline, fired, task, batch, raf, ghostVars>>

Loop == Exhausted \/ FireFrame \/ NextInFrame \/ FrameDone \/ Fire \/ Fired \/ Nothing

Next == Tick \/ Script \/ Start \/ Threw \/ Evaluated \/ Loop

Spec == Init /\ [][Next]_vars

-----------------------------------------------------------------------------
TypeOK == /\ now \in 0 .. LastTick
          /\ running \in {"idle", "script", "loop", "timer", "raf"}
          /\ deadline \in Nat /\ fired \in 0 .. FireLimit
          /\ q \in [nextId : 1 .. MaxId + 1, seq : Nat, live : 0 .. TimerCap,
                    heap : SUBSET Keys, tails : SUBSET Ids]
          /\ task \in Keys \cup {NoTask}
          /\ raf \in [nextId : 1 .. MaxRaf + 1, due : Nat, cbs : Seq(Frames)]
          /\ batch \in Seq(Frames)
          /\ quiet \subseteq Ids /\ silenced \subseteq Ids
          /\ asked \in [Ids -> Nat]

(* What a script asks of a frame is pending at most once, in the frame     *)
(* that runs or in the next one, whichever way a callback asks, cancels    *)
(* and throws (timer.rs:366-387).                                          *)
FramePendsOnce == \A i, j \in DOMAIN (batch \o raf.cbs) :
                    (batch \o raf.cbs)[i] = (batch \o raf.cbs)[j] => i = j

(* The count is the number of callbacks, and each has exactly one key:     *)
(* neither the pruning of a full heap nor the lazy removal of cleared      *)
(* timers loses one or fires one twice; and the stale keys of a script     *)
(* that sets and clears timers for ever do not grow the heap               *)
(* (timer.rs:217-229, 269-278, 407-424).                                   *)
EachHasItsKey == /\ q.live = Cardinality(q.tails)
                 /\ \A id \in q.tails : Cardinality({k \in q.heap : k.id = id}) = 1
                 /\ Cardinality(q.heap) <= TimerCap
Armed == TypeOK /\ EachHasItsKey /\ FramePendsOnce

(* A timer set before another one, with a delay that is no longer, does    *)
(* not fire after it, whatever was cleared, pruned or repeated in between  *)
(* and however late the loop is (timer.rs:91-111, 217-259, 407-424, 455).  *)
(* A repeating timer is only held to it as the later one: each of its      *)
(* turns counts from the one before.                                       *)
Fires == running = "loop" /\ running' = "timer"
FiresAsAsked ==
  [][Fires => \A k \in q.heap :
       k.id \in q.tails /\ k.interval = 0 /\ k.id < task'.id => asked[k.id] > asked[task'.id]]_vars

(* A timer that anything but its own callback cleared does not fire again, *)
(* however many of its keys the heap still holds (timer.rs:269-278).       *)
ClearedByOthers == [][Fires => task'.id \notin quiet]_vars

(* A timer that was cleared does not fire again.                           *)
ClearedIsQuiet == [][Fires => task'.id \notin silenced]_vars
=============================================================================
