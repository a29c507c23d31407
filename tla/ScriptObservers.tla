--------------------------- MODULE ScriptObservers ---------------------------
(* The observers of a script, in two machines that share nothing.          *)
(*                                                                         *)
(* Mutation observers: each change is one shared record, and every         *)
(* registration whose target it concerns queues the record's index.  A     *)
(* flush at the end of a task, or takeRecords, moves the records out.      *)
(*                                                                         *)
(* ResizeObserver and IntersectionObserver: watching a target asks for one *)
(* frame unless one is already asked for, and the frame hands every target *)
(* to the callback.  The frame is a timer like any other: it is not kept   *)
(* when there are too many, and may be cleared.                            *)
EXTENDS Naturals, SequencesExt, FiniteSets

CONSTANTS Observers, Targets,
          Below,     \* pairs <<node, root>> of is_in_subtree
          Changes,   \* how many changes the script may make
          Regs,      \* how many registrations there are at once
          TargetCap, \* OBS_TARGET_CAP
          Frames     \* frames kept at once

ObserversAssumption ==
  /\ Below \subseteq Targets \X Targets /\ {Changes, Regs, TargetCap, Frames} \subseteq Nat
  /\ \A t \in Targets : <<t, t>> \in Below

Empty == 0

VARIABLES observers,  \* the registrations, in order: who, of what, how deep, and their queue
          recs,       \* the records of the changes, by number; Empty once moved out
          batch,      \* what a flush moved out and has not handed over yet
          alive,      \* observers still in MO_REG
          changes,    \* changes so far
          got         \* what each observer was handed: records, and blanks
vars == <<observers, recs, batch, alive, changes, got>>

Init == /\ observers = <<>> /\ recs = <<>> /\ batch = <<>>
        /\ alive = Observers /\ changes = 0 /\ got = [o \in Observers |-> {}]

\* Mutant: the records go when somebody has none queued.
TidyEarly(regs, rs) == IF \E i \in DOMAIN regs : regs[i].queue = <<>> THEN <<>> ELSE rs

\* the records go once nobody has one queued
Tidy(regs, rs) == IF \A i \in DOMAIN regs : regs[i].queue = <<>> THEN <<>> ELSE rs

Matches(reg, target) == reg.target = target \/ (reg.subtree /\ <<target, reg.target>> \in Below)

Fanout(target, number) ==
  /\ recs' = Append(recs, number)
  /\ observers' = [i \in DOMAIN observers |->
                     IF Matches(observers[i], target)
                     THEN [observers[i] EXCEPT !.queue = Append(@, Len(recs'))] ELSE observers[i]]

\* note_child_list, note_attr, note_character
Change(target) ==
  /\ changes < Changes /\ changes' = changes + 1
  /\ IF observers = <<>> THEN UNCHANGED <<observers, recs>> ELSE Fanout(target, changes')
  /\ UNCHANGED <<batch, alive, got>>

\* what retain leaves of a list: the positions S of it
Left(list, S) == [k \in 1 .. Cardinality(S) |-> list[CHOOSE i \in S : Cardinality(S \cap 1 .. i) = k]]

\* observing a target again starts over: what was queued for it is dropped
Observe(o, target, subtree) ==
  /\ IF o \in alive
     THEN observers' = Append(Left(observers, {i \in DOMAIN observers : ~(observers[i].obs = o /\ observers[i].target = target)}),
                              [obs |-> o, target |-> target, subtree |-> subtree, queue |-> <<>>])
     ELSE UNCHANGED observers
  /\ Len(observers') <= Regs
  /\ UNCHANGED <<recs, batch, alive, changes, got>>

Disconnect(o) ==
  /\ observers' = Left(observers, {i \in DOMAIN observers : observers[i].obs # o})
  /\ recs' = Tidy(observers', recs)
  /\ alive' = alive \ {o}
  /\ UNCHANGED <<batch, changes, got>>

Moved(rs, queue) == [k \in DOMAIN queue |-> rs[queue[k]]]
Without(rs, S) == [i \in DOMAIN rs |-> IF i \in S THEN Empty ELSE rs[i]]

\* take_records_for: of the observer's first registration only
TakeRecords(o) == \E i \in DOMAIN observers :
  /\ observers[i].obs = o /\ \A h \in 1 .. i - 1 : observers[h].obs # o
  /\ got' = [got EXCEPT ![o] = @ \cup ToSet(Moved(recs, observers[i].queue))]
  /\ observers' = [observers EXCEPT ![i].queue = <<>>]
  /\ recs' = Tidy(observers', Without(recs, ToSet(observers[i].queue)))
  /\ UNCHANGED <<batch, alive, changes>>

\* flush_mutations: one entry of the batch for each registration with something queued; a record that several have
\* queued goes with the first
Queued(S) == UNION {ToSet(observers[i].queue) : i \in S}
Entry(i) == [obs |-> observers[i].obs, recs |-> Moved(Without(recs, Queued(1 .. i - 1)), observers[i].queue)]
Flush ==
  LET full == {i \in DOMAIN observers : observers[i].queue # <<>>}
  IN /\ batch = <<>> /\ full # {}
     /\ batch' = Left([i \in DOMAIN observers |-> Entry(i)], full)
     /\ recs' = Without(recs, Queued(full))
     /\ observers' = [i \in DOMAIN observers |-> [observers[i] EXCEPT !.queue = <<>>]]
     /\ UNCHANGED <<alive, changes, got>>

\* the callback may do anything above before the next one is called
Deliver == /\ batch # <<>>
           /\ got' = [got EXCEPT ![Head(batch).obs] = @ \cup ToSet(Head(batch).recs)]
           /\ batch' = Tail(batch)
           /\ UNCHANGED <<observers, recs, alive, changes>>

Next == \/ \E t \in Targets : Change(t)
        \/ \E o \in Observers, t \in Targets, deep \in BOOLEAN : Observe(o, t, deep)
        \/ \E o \in Observers : Disconnect(o) \/ TakeRecords(o)
        \/ Flush
        \/ Deliver

Spec == Init /\ [][Next]_vars
----------------------------------------------------------------------------
Handed(o) == got[o] \cup UNION {ToSet(batch[i].recs) : i \in {i \in DOMAIN batch : batch[i].obs = o}}

(* The indexes that registrations queue outlive the records that others    *)
(* take and the lists that are cleared between a change and its delivery:  *)
(* each still points at a record and they are in order; a change is handed *)
(* whole to one observer only.                                             *)
RecordsKept ==
  /\ \A i \in DOMAIN observers : \A k \in DOMAIN observers[i].queue :
       /\ observers[i].queue[k] \in DOMAIN recs
       /\ k > 1 => observers[i].queue[k - 1] < observers[i].queue[k]
  /\ \A o \in Observers :
       /\ (Handed(o) \ {Empty}) \cap ToSet(recs) = {}
       /\ \A q \in Observers \ {o} : Handed(o) \cap Handed(q) \subseteq {Empty}
  /\ \A h, i \in DOMAIN recs : h # i /\ recs[h] # Empty => recs[h] # recs[i]

----------------------------------------------------------------------------
VARIABLES kind,       \* "resize" or "intersection"
          targets, scheduled,
          frames,     \* deferred frames that will deliver
          told,       \* targets handed over since they are watched
          missed      \* the last frame on the way went without clearing the flag
frameVars == <<kind, targets, scheduled, frames, told, missed>>

FrameInit == /\ kind \in {"resize", "intersection"}
             /\ targets = {} /\ scheduled = FALSE /\ frames = 0 /\ told = {} /\ missed = FALSE

\* push_timer keeps the frame or, out of room for timers, drops it without a word
DeferFrame == \/ frames < Frames /\ frames' = frames + 1 /\ UNCHANGED missed
              \/ missed' = (frames = 0) /\ UNCHANGED frames

\* Mutant: only the first target asks for a frame.
WatchFirst(t) ==
  /\ t \notin targets /\ Cardinality(targets) < TargetCap
  /\ targets' = targets \cup {t}
  /\ scheduled' = TRUE
  /\ IF targets # {} THEN UNCHANGED <<frames, missed>> ELSE DeferFrame
  /\ UNCHANGED <<kind, told>>

\* reserve_target, and defer_frame when it says so
Watch(t) ==
  /\ t \notin targets /\ Cardinality(targets) < TargetCap
  /\ targets' = targets \cup {t}
  /\ scheduled' = TRUE
  /\ IF scheduled THEN UNCHANGED <<frames, missed>> ELSE DeferFrame
  /\ UNCHANGED <<kind, told>>

Unwatch(t) == /\ targets' = targets \ {t} /\ told' = told \ {t}
              /\ UNCHANGED <<kind, scheduled, frames, missed>>

UnwatchAll == /\ targets' = {} /\ told' = {} /\ scheduled' = FALSE /\ missed' = FALSE
              /\ UNCHANGED <<kind, frames>>

Told == frames > 0 /\ frames' = frames - 1 /\ told' = targets /\ UNCHANGED <<kind, targets>>

\* it returns on no targets before it clears the flag
DeliverResize == /\ kind = "resize" /\ Told /\ scheduled' = (scheduled /\ targets = {})
                 /\ missed' = (scheduled' /\ frames' = 0)

DeliverIntersection == kind = "intersection" /\ Told /\ scheduled' = FALSE /\ missed' = FALSE

Lose(left) == /\ frames' = left /\ missed' = (missed \/ (scheduled /\ left = 0))
              /\ UNCHANGED <<kind, targets, scheduled, told>>

\* before a script runs again the timers go; the observers stay as they are (only after a run out of memory; here at
\* any time)
ClearAll == Lose(0)

\* clearTimeout by a script that guesses the id
ClearTimer == frames > 0 /\ Lose(frames - 1)

FrameNext == \/ \E t \in Targets : Watch(t) \/ Unwatch(t)
             \/ UnwatchAll
             \/ DeliverResize \/ DeliverIntersection
             \/ ClearAll \/ ClearTimer

FrameSpec == FrameInit /\ [][FrameNext]_frameVars
----------------------------------------------------------------------------
(* A target nobody was told about has a frame on the way, through every    *)
(* order of watching, leaving off and disconnecting around the frames that *)
(* are pending.  The exceptions: the frame was dropped or cleared, or found*)
(* a resize observer with nothing to report; the observer then counts as   *)
(* scheduled, and is silent, until it disconnects.                         *)
FrameOnTheWay == /\ targets \subseteq told \/ frames > 0 \/ missed
                 /\ scheduled => frames > 0 \/ missed
                 /\ missed => scheduled /\ frames = 0
=============================================================================
