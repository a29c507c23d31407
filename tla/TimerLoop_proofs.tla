-------------------------- MODULE TimerLoop_proofs --------------------------
(***************************************************************************)
(* For any caps, delays and limits, and whatever the scripts do: each      *)
(* armed timer has one key in the heap, a timer set first with no longer   *)
(* delay fires first, and none fires after anything but its own callback   *)
(* has cleared it.                                                         *)
(***************************************************************************)
EXTENDS TimerLoop, FiniteSetTheorems, SequenceTheorems, TLAPS

(* The timers s, all of whose ids are below n: the count is the number of  *)
(* callbacks, each of which has a key, and no id has two, stale or not.    *)
Tidy(s, n) ==
  /\ s \in [nextId : Nat \ {0}, seq : Nat, live : Nat, heap : SUBSET Keys, tails : SUBSET Ids]
  /\ IsFiniteSet(s.heap) /\ IsFiniteSet(s.tails)
  /\ s.live = Cardinality(s.tails) /\ s.live <= TimerCap
  /\ Cardinality(s.heap) <= TimerCap
  /\ \A id \in s.tails : \E k \in s.heap : k.id = id
  /\ \A j, k \in s.heap : j.id = k.id => j = k
  /\ \A k \in s.heap : k.id < n

(* The timer whose callback runs is out of the heap, so that nothing but   *)
(* the end of the callback can arm it again.                               *)
OutWhileItRuns ==
  running = "timer" => /\ task \in Keys /\ task.id < q.nextId /\ task.id \notin quiet
                       /\ \A k \in q.heap : k.id # task.id

TimersInv ==
  /\ now \in Nat
  /\ Tidy(q, q.nextId)
  /\ OutWhileItRuns
  /\ quiet \cap q.tails = {}
  /\ \A id \in quiet : id \in Nat /\ id < q.nextId

(* An id whose key is not in the heap is not armed. *)
LEMMA NoKeyNotArmed ==
  ASSUME NEW s, NEW n \in Nat, Tidy(s, n), NEW id, \A k \in s.heap : k.id # id
  PROVE  id \notin s.tails
BY DEF Tidy

(* Clearing leaves a stale key, and nothing else changes. *)
LEMMA RemovedTidy ==
  ASSUME Tidy(q, q.nextId), q.nextId \in Nat, NEW id
  PROVE  /\ Tidy(Removed(id), q.nextId)
         /\ Removed(id).nextId = q.nextId /\ Removed(id).heap = q.heap
         /\ Removed(id).tails = q.tails \ {id}
<1>1. CASE id \notin q.tails
  BY <1>1 DEF Removed, Tidy
<1>2. CASE id \in q.tails
  <2> DEFINE r == [q EXCEPT !.tails = @ \ {id}, !.live = @ - 1]
  <2>1. Removed(id) = r
    BY <1>2 DEF Removed
  <2>2. /\ r.nextId = q.nextId /\ r.seq = q.seq /\ r.heap = q.heap
        /\ r.tails = q.tails \ {id} /\ r.live = q.live - 1
    BY DEF Tidy
  <2>3. /\ IsFiniteSet(q.tails \ {id})
        /\ Cardinality(q.tails \ {id}) = Cardinality(q.tails) - 1
    BY <1>2, FS_RemoveElement DEF Tidy
  <2>4. Cardinality(q.tails \ {id}) \in Nat
    BY <2>3, FS_CardinalityType
  <2>5. r \in [nextId : Nat \ {0}, seq : Nat, live : Nat, heap : SUBSET Keys, tails : SUBSET Ids]
    <3>1. q \in [nextId : Nat \ {0}, seq : Nat, live : Nat, heap : SUBSET Keys, tails : SUBSET Ids]
      BY DEF Tidy
    <3>2. q.live - 1 \in Nat /\ q.tails \ {id} \in SUBSET Ids
      BY <2>3, <2>4, <3>1 DEF Tidy
    <3>3. QED
      BY <3>1, <3>2
  <2>6. r.live = Cardinality(r.tails) /\ r.live <= TimerCap
    BY <2>2, <2>3, <2>4, TimerAssumption DEF Tidy
  <2>7. Tidy(r, q.nextId)
    BY <2>2, <2>3, <2>5, <2>6 DEF Tidy
  <2>8. QED
    BY <2>1, <2>2, <2>7
<1>3. QED
  BY <1>1, <1>2

(* A heap that holds keys of armed timers only holds one for each. *)
LEMMA KeysOfArmed ==
  ASSUME NEW s, NEW n \in Nat, Tidy(s, n)
  PROVE  Cardinality({k \in s.heap : k.id \in s.tails}) <= s.live
<1> DEFINE fresh == {k \in s.heap : k.id \in s.tails}
           f == [k \in fresh |-> k.id]
<1>1. f \in Injection(fresh, s.tails)
  BY DEF Injection, IsInjective, Tidy
<1>2. QED
  BY <1>1, FS_Injection DEF Tidy

(* A timer whose id has no key is pushed, or dropped at the cap. *)
LEMMA PushedTidy ==
  ASSUME NEW s, NEW n \in Nat, Tidy(s, n), s.nextId \in Nat,
         NEW due \in Nat, NEW interval \in Nat, NEW id \in Ids,
         id < n, \A k \in s.heap : k.id # id
  PROVE  LET p == Pushed(s, due, id, interval)
         IN  /\ Tidy(p, n) /\ p.nextId = s.nextId
             /\ p.tails \subseteq s.tails \cup {id}
             /\ \A k \in p.heap : k.id = id \/ k \in s.heap
<1>1. CASE s.live >= TimerCap
  BY <1>1 DEF Pushed
<1>2. CASE ~(s.live >= TimerCap)
  <2> DEFINE key == KeyOf(due, s.seq + 1, id, interval)
             p == [s EXCEPT !.seq = @ + 1, !.live = @ + 1,
                            !.tails = @ \cup {id}, !.heap = Pruned(s) \cup {key}]
  <2>1. Pushed(s, due, id, interval) = p
    BY <1>2 DEF Pushed
  <2>2. s.live \in Nat /\ s.live < TimerCap /\ s.seq \in Nat /\ TimerCap \in Nat
    BY <1>2, TimerAssumption DEF Tidy
  <2>3. /\ p.nextId = s.nextId /\ p.seq = s.seq + 1 /\ p.live = s.live + 1
        /\ p.tails = s.tails \cup {id} /\ p.heap = Pruned(s) \cup {key}
    BY DEF Tidy
  <2>4. key \in Keys /\ key.id = id
    BY <2>2 DEF KeyOf, Keys
  <2>5. id \notin s.tails
    BY NoKeyNotArmed
  <2>6. IsFiniteSet(p.tails) /\ Cardinality(p.tails) = p.live /\ p.live <= TimerCap
    BY <2>2, <2>3, <2>5, FS_AddElement DEF Tidy
  <2>7. /\ Pruned(s) \subseteq s.heap
        /\ \A k \in s.heap : k.id \in s.tails => k \in Pruned(s)
    BY DEF Pruned
  <2>8. IsFiniteSet(Pruned(s)) /\ Cardinality(Pruned(s)) \in Nat
    BY <2>7, FS_Subset, FS_CardinalityType DEF Tidy
  <2>9. Cardinality(Pruned(s)) < TimerCap
    <3>1. Cardinality(s.heap) \in Nat
      BY FS_CardinalityType DEF Tidy
    <3>2. CASE Cardinality(s.heap) >= TimerCap
      <4>1. Pruned(s) = {k \in s.heap : k.id \in s.tails}
        BY <3>2 DEF Pruned
      <4>2. Cardinality(Pruned(s)) <= s.live
        BY <4>1, KeysOfArmed
      <4>3. QED
        BY <4>2, <2>2, <2>8
    <3>3. CASE ~(Cardinality(s.heap) >= TimerCap)
      BY <3>3, <3>1, <2>2 DEF Pruned
    <3>4. QED
      BY <3>2, <3>3
  <2>10. IsFiniteSet(p.heap) /\ Cardinality(p.heap) <= TimerCap
    <3> HIDE DEF key, p
    <3>1. /\ IsFiniteSet(Pruned(s) \cup {key})
          /\ Cardinality(Pruned(s) \cup {key}) <= Cardinality(Pruned(s)) + 1
      <4> DEFINE S == Pruned(s)
      <4>1. IsFiniteSet(S) /\ Cardinality(S) \in Nat
        BY <2>8
      <4> HIDE DEF S
      <4>2. /\ IsFiniteSet(S \cup {key})
            /\ Cardinality(S \cup {key}) = IF key \in S THEN Cardinality(S) ELSE Cardinality(S) + 1
        BY <4>1, FS_AddElement
      <4>3. IsFiniteSet(S \cup {key}) /\ Cardinality(S \cup {key}) <= Cardinality(S) + 1
        BY <4>1, <4>2
      <4>4. QED
        BY <4>3 DEF S
    <3>2. Cardinality(Pruned(s) \cup {key}) \in Nat
      BY <3>1, FS_CardinalityType
    <3>3. QED
      BY <2>2, <2>3, <2>8, <2>9, <3>1, <3>2
  <2>11. p \in [nextId : Nat \ {0}, seq : Nat, live : Nat, heap : SUBSET Keys, tails : SUBSET Ids]
    <3> HIDE DEF key
    <3>1. /\ Pruned(s) \cup {key} \in SUBSET Keys /\ s.tails \cup {id} \in SUBSET Ids
          /\ s.seq + 1 \in Nat /\ s.live + 1 \in Nat
      BY <2>2, <2>4, <2>7 DEF Tidy
    <3>2. QED
      BY <3>1 DEF Tidy
  <2>12. /\ \A i \in p.tails : \E k \in p.heap : k.id = i
         /\ \A j, k \in p.heap : j.id = k.id => j = k
         /\ \A k \in p.heap : k.id < n
    BY <2>3, <2>4, <2>7 DEF Tidy
  <2>13. Tidy(p, n)
    BY <2>6, <2>10, <2>11, <2>12 DEF Tidy
  <2>14. QED
    BY <2>1, <2>3, <2>4, <2>7, <2>13
<1>3. QED
  BY <1>1, <1>2

(* A new timer takes the next id. *)
LEMMA ScheduledTidy ==
  ASSUME NEW s, Tidy(s, s.nextId), s.nextId \in Ids, now \in Nat,
         NEW delay \in Nat, NEW interval \in Nat
  PROVE  LET p == Scheduled(s, delay, interval)
         IN  /\ Tidy(p, p.nextId) /\ p.nextId = s.nextId + 1
             /\ p.tails \subseteq s.tails \cup {s.nextId}
             /\ \A k \in p.heap : k.id = s.nextId \/ k \in s.heap
<1> DEFINE p == Pushed(s, now + delay, s.nextId, interval)
           r == [p EXCEPT !.nextId = @ + 1]
<1>1. s.nextId \in Nat
  BY DEF Ids
<1>2. Tidy(s, s.nextId + 1)
  BY <1>1 DEF Tidy, Keys, Ids
<1>3. /\ Tidy(p, s.nextId + 1) /\ p.nextId = s.nextId
      /\ p.tails \subseteq s.tails \cup {s.nextId}
      /\ \A k \in p.heap : k.id = s.nextId \/ k \in s.heap
  <2>1. \A k \in s.heap : k.id # s.nextId
    BY <1>1 DEF Tidy, Keys, Ids
  <2>2. now + delay \in Nat /\ s.nextId + 1 \in Nat /\ s.nextId < s.nextId + 1
    BY <1>1
  <2>3. QED
    BY <1>1, <1>2, <2>1, <2>2, PushedTidy
<1>4. /\ r.nextId = s.nextId + 1 /\ r.seq = p.seq /\ r.live = p.live
      /\ r.heap = p.heap /\ r.tails = p.tails
      /\ r \in [nextId : Nat \ {0}, seq : Nat, live : Nat, heap : SUBSET Keys, tails : SUBSET Ids]
  BY <1>1, <1>3 DEF Tidy
<1>5. Tidy(r, r.nextId)
  BY <1>3, <1>4 DEF Tidy
<1>6. Scheduled(s, delay, interval) = r
  BY DEF Scheduled
<1>7. QED
  BY <1>3, <1>4, <1>5, <1>6

(* Keys may leave the heap with the timer they belong to, or stale. *)
LEMMA FewerKeysTidy ==
  ASSUME NEW s, NEW n \in Nat, Tidy(s, n), NEW H \in SUBSET s.heap, NEW id \in s.tails,
         \A k \in s.heap : k.id \in s.tails \ {id} => k \in H
  PROVE  Tidy([s EXCEPT !.heap = H, !.tails = @ \ {id}, !.live = @ - 1], n)
<1> DEFINE r == [s EXCEPT !.heap = H, !.tails = @ \ {id}, !.live = @ - 1]
<1>1. /\ r.nextId = s.nextId /\ r.seq = s.seq /\ r.heap = H
      /\ r.tails = s.tails \ {id} /\ r.live = s.live - 1
  BY DEF Tidy
<1>2. IsFiniteSet(H) /\ Cardinality(H) <= Cardinality(s.heap)
  BY FS_Subset DEF Tidy
<1>3. Cardinality(H) \in Nat /\ Cardinality(s.heap) \in Nat
  BY <1>2, FS_CardinalityType DEF Tidy
<1>4. /\ IsFiniteSet(s.tails \ {id})
      /\ Cardinality(s.tails \ {id}) = Cardinality(s.tails) - 1
  BY FS_RemoveElement DEF Tidy
<1>5. Cardinality(s.tails \ {id}) \in Nat
  BY <1>4, FS_CardinalityType
<1>6. s.live - 1 \in Nat /\ s.live - 1 <= TimerCap /\ Cardinality(H) <= TimerCap
  BY <1>2, <1>3, <1>4, <1>5, TimerAssumption DEF Tidy
<1>7. r \in [nextId : Nat \ {0}, seq : Nat, live : Nat, heap : SUBSET Keys, tails : SUBSET Ids]
  BY <1>6 DEF Tidy
<1>8. \A i \in s.tails \ {id} : \E k \in H : k.id = i
  BY DEF Tidy
<1>9. QED
  BY <1>1, <1>2, <1>4, <1>6, <1>7, <1>8 DEF Tidy

LEMMA StaleKeysTidy ==
  ASSUME NEW s, NEW n \in Nat, Tidy(s, n), NEW H \in SUBSET s.heap,
         \A k \in s.heap : k.id \in s.tails => k \in H
  PROVE  Tidy([s EXCEPT !.heap = H], n)
<1>1. IsFiniteSet(H) /\ Cardinality(H) <= Cardinality(s.heap)
  BY FS_Subset DEF Tidy
<1>2. Cardinality(H) \in Nat /\ Cardinality(s.heap) \in Nat
  BY <1>1, FS_CardinalityType DEF Tidy
<1>3. Cardinality(H) <= TimerCap
  BY <1>1, <1>2, TimerAssumption DEF Tidy
<1>4. QED
  BY <1>1, <1>3 DEF Tidy

-----------------------------------------------------------------------------
LEMMA TimersInit == Init => TimersInv
<1> SUFFICES ASSUME Init PROVE TimersInv
  OBVIOUS
<1>1. Tidy(NoTimers, 1)
  BY FS_EmptySet, TimerAssumption DEF Tidy, NoTimers
<1>2. QED
  BY <1>1 DEF Init, TimersInv, OutWhileItRuns, NoTimers

(* A step that touches no timer, nor whose turn it is between callbacks.   *)
LEMMA OtherSteps ==
  ASSUME TimersInv, now' \in Nat, UNCHANGED <<q, quiet, task>>, running' = "timer" => running = "timer"
  PROVE  TimersInv'
BY DEF TimersInv, OutWhileItRuns

(* A new timer of a script or of the page's two events. *)
LEMMA ScheduledInv ==
  ASSUME TimersInv, q.nextId <= MaxId, NEW delay \in Nat, NEW interval \in Nat,
         q' = Scheduled(q, delay, interval), UNCHANGED <<now, quiet, task>>, running' = "timer" => running = "timer"
  PROVE  TimersInv'
<1>1. q.nextId \in Nat /\ q.nextId \in Ids /\ now \in Nat
  BY TimerAssumption DEF TimersInv, Tidy, Ids
<1>2. /\ Tidy(q', q'.nextId) /\ q'.nextId = q.nextId + 1
      /\ q'.tails \subseteq q.tails \cup {q.nextId}
      /\ \A k \in q'.heap : k.id = q.nextId \/ k \in q.heap
  BY <1>1, ScheduledTidy DEF TimersInv
<1>3. OutWhileItRuns'
  BY <1>1, <1>2 DEF TimersInv, OutWhileItRuns, Keys, Ids
<1>4. quiet \cap q'.tails = {} /\ \A id \in quiet : id \in Nat /\ id < q'.nextId
  BY <1>1, <1>2 DEF TimersInv
<1>5. QED
  BY <1>1, <1>2, <1>3, <1>4 DEF TimersInv

LEMMA ScheduleStep ==
  ASSUME TimersInv, NEW d \in Delays, NEW repeats \in BOOLEAN, Schedule(d, repeats)
  PROVE  TimersInv'
<1> DEFINE i == IF repeats THEN d ELSE 0
<1>1. d \in Nat /\ i \in Nat
  BY TimerAssumption
<1>2. /\ q.nextId <= MaxId /\ q' = Scheduled(q, d, i)
      /\ UNCHANGED <<now, quiet, task>> /\ running' = running
  BY DEF Schedule, loopVars, ghostVars
<1> HIDE DEF i
<1>3. QED
  BY <1>1, <1>2, ScheduledInv

LEMMA EvaluatedStep ==
  ASSUME TimersInv, Evaluated
  PROVE  TimersInv'
<1>1. CASE UNCHANGED q
  BY <1>1, OtherSteps DEF Evaluated, ghostVars, TimersInv
<1>2. CASE q.nextId < MaxId /\ q' = Scheduled(Scheduled(q, 1, 0), 1, 0)
  <2> DEFINE p == Scheduled(q, 1, 0)
  <2>1. q.nextId \in Nat /\ q.nextId \in Ids /\ now \in Nat /\ q.nextId + 1 \in Ids
    BY <1>2, TimerAssumption DEF TimersInv, Tidy, Ids
  <2>2. /\ Tidy(p, p.nextId) /\ p.nextId = q.nextId + 1
        /\ p.tails \subseteq q.tails \cup {q.nextId}
    BY <2>1, ScheduledTidy DEF TimersInv
  <2> HIDE DEF p
  <2>3. q' = Scheduled(p, 1, 0)
    BY <1>2 DEF p
  <2>4. /\ Tidy(q', q'.nextId) /\ q'.nextId = p.nextId + 1
        /\ q'.tails \subseteq p.tails \cup {p.nextId}
    BY <2>1, <2>2, <2>3, ScheduledTidy
  <2>5. OutWhileItRuns'
    BY DEF Evaluated, OutWhileItRuns
  <2>6. quiet \cap q'.tails = {} /\ \A id \in quiet : id \in Nat /\ id < q'.nextId
    BY <2>1, <2>2, <2>4 DEF TimersInv
  <2>7. now' = now /\ quiet' = quiet
    BY DEF Evaluated, ghostVars
  <2>8. QED
    BY <2>1, <2>4, <2>5, <2>6, <2>7 DEF TimersInv
<1>3. QED
  BY <1>1, <1>2 DEF Evaluated

LEMMA UnscheduleStep ==
  ASSUME TimersInv, NEW id \in Ids, Unschedule(id)
  PROVE  TimersInv'
<1>1. /\ Tidy(q', q.nextId) /\ q'.nextId = q.nextId /\ q'.heap = q.heap /\ q'.tails = q.tails \ {id}
  BY RemovedTidy DEF TimersInv, Tidy, Unschedule
<1>2. /\ id \in Nat /\ id < q.nextId
      /\ quiet' = IF running = "timer" /\ task.id = id THEN quiet ELSE quiet \cup {id}
      /\ UNCHANGED <<now, running, task>>
  BY DEF Unschedule, Ids, loopVars
<1>3. OutWhileItRuns'
  BY <1>1, <1>2 DEF TimersInv, OutWhileItRuns
<1>4. quiet' \cap q'.tails = {} /\ \A i \in quiet' : i \in Nat /\ i < q'.nextId
  BY <1>1, <1>2 DEF TimersInv
<1>5. QED
  BY <1>1, <1>2, <1>3, <1>4 DEF TimersInv

LEMMA StartStep ==
  ASSUME TimersInv, Start
  PROVE  TimersInv'
<1>1. Tidy(NoTimers, 1)
  BY FS_EmptySet, TimerAssumption DEF Tidy, NoTimers
<1>2. QED
  BY <1>1 DEF Start, TimersInv, OutWhileItRuns, NoTimers

LEMMA FireStep ==
  ASSUME TimersInv, Fire
  PROVE  TimersInv'
<1> PICK k \in DueTimers :
      /\ \A j \in DueTimers : j = k \/ Before(k, j)
      /\ task' = k
      /\ q' = [q EXCEPT !.heap = @ \ {j \in DueKeys : j = k \/ Before(j, k)},
                        !.tails = @ \ {k.id}, !.live = @ - 1]
  BY DEF Fire
<1> DEFINE H == q.heap \ {j \in DueKeys : j = k \/ Before(j, k)}
<1>1. k \in q.heap /\ k.id \in q.tails /\ k \in Keys /\ H \in SUBSET q.heap /\ k \notin H
  BY DEF DueTimers, DueKeys, TimersInv, Tidy
<1>2. ASSUME NEW j \in q.heap, j.id \in q.tails \ {k.id} PROVE j \in H
  <2>1. j # k /\ j \in Keys /\ k \in Keys
    BY <1>1, <1>2 DEF TimersInv, Tidy
  <2>2. j \in DueKeys => Before(k, j)
    BY <1>2, <2>1 DEF DueTimers
  <2>3. Before(k, j) => ~Before(j, k)
    BY <2>1 DEF Before, Keys
  <2>4. QED
    BY <1>2, <2>1, <2>2, <2>3
<1>3. q' = [q EXCEPT !.heap = H, !.tails = @ \ {k.id}, !.live = @ - 1]
  BY DEF TimersInv, Tidy
<1> HIDE DEF H
<1>4. q.nextId \in Nat
  BY DEF TimersInv, Tidy
<1>5. Tidy(q', q.nextId)
  <2>1. Tidy(q, q.nextId)
    BY DEF TimersInv
  <2>2. \A j \in q.heap : j.id \in q.tails \ {k.id} => j \in H
    BY <1>2
  <2>3. Tidy([q EXCEPT !.heap = H, !.tails = @ \ {k.id}, !.live = @ - 1], q.nextId)
    BY <1>1, <1>4, <2>1, <2>2, FewerKeysTidy
  <2>4. QED
    BY <1>3, <2>3
<1>6. q'.nextId = q.nextId /\ q'.heap = H /\ q'.tails = q.tails \ {k.id}
  BY <1>3 DEF TimersInv, Tidy
<1>7. OutWhileItRuns'
  <2>1. k.id < q.nextId /\ k.id \notin quiet
    BY <1>1 DEF TimersInv, Tidy
  <2>2. \A j \in H : j.id # k.id
    BY <1>1 DEF TimersInv, Tidy
  <2>3. QED
    BY <1>1, <1>6, <2>1, <2>2 DEF Fire, ghostVars, OutWhileItRuns
<1>8. QED
  BY <1>5, <1>6, <1>7 DEF TimersInv, Fire, ghostVars

LEMMA FiredStep ==
  ASSUME TimersInv, Fired
  PROVE  TimersInv'
<1>1. /\ now' = now /\ quiet' = quiet /\ running = "timer" /\ running' = "loop" /\ now \in Nat
  BY DEF Fired, ghostVars, TimersInv
<1>2. OutWhileItRuns'
  BY <1>1 DEF OutWhileItRuns
<1>3. CASE UNCHANGED q
  BY <1>1, <1>2, <1>3 DEF TimersInv
<1>4. CASE q' = Pushed(q, now + task.interval, task.id, task.interval)
  <2>1. /\ task.interval \in Nat /\ task.id \in Ids /\ task.id < q.nextId /\ task.id \notin quiet
        /\ \A k \in q.heap : k.id # task.id
    BY <1>1 DEF TimersInv, OutWhileItRuns, Keys
  <2>2. now + task.interval \in Nat /\ q.nextId \in Nat
    BY <1>1, <2>1 DEF TimersInv, Tidy
  <2>3. /\ Tidy(q', q.nextId) /\ q'.nextId = q.nextId /\ q'.tails \subseteq q.tails \cup {task.id}
    BY <1>4, <2>1, <2>2, PushedTidy DEF TimersInv
  <2>4. QED
    BY <1>1, <1>2, <2>1, <2>3 DEF TimersInv
<1>5. QED
  BY <1>3, <1>4 DEF Fired

LEMMA NothingStep ==
  ASSUME TimersInv, Nothing
  PROVE  TimersInv'
<1>1. q.heap \ DueKeys \in SUBSET q.heap /\ \A k \in q.heap : k.id \in q.tails => k \in q.heap \ DueKeys
  BY DEF Nothing, DueTimers
<1>2. q' = [q EXCEPT !.heap = q.heap \ DueKeys]
  BY DEF Nothing, TimersInv, Tidy
<1>3. q.nextId \in Nat
  BY DEF TimersInv, Tidy
<1>4. Tidy(q', q.nextId)
  BY <1>1, <1>2, <1>3, StaleKeysTidy DEF TimersInv
<1>5. q'.nextId = q.nextId /\ q'.tails = q.tails
  BY <1>2 DEF TimersInv, Tidy
<1>6. OutWhileItRuns'
  BY DEF Nothing, OutWhileItRuns
<1>7. QED
  BY <1>4, <1>5, <1>6 DEF TimersInv, Nothing, ghostVars

LEMMA TimersStep == TimersInv /\ [Next]_vars => TimersInv'
<1> SUFFICES ASSUME TimersInv, [Next]_vars PROVE TimersInv'
  OBVIOUS
<1>1. now \in Nat
  BY DEF TimersInv
<1>2. CASE Tick
  BY <1>1, <1>2, OtherSteps DEF Tick, loopVars, ghostVars
<1>3. ASSUME NEW d \in Delays, NEW repeats \in BOOLEAN, Schedule(d, repeats) PROVE TimersInv'
  BY <1>3, ScheduleStep
<1>4. ASSUME NEW id \in Ids, Unschedule(id) PROVE TimersInv'
  BY <1>4, UnscheduleStep
<1>5. CASE RafSchedule
  BY <1>1, <1>5, OtherSteps DEF RafSchedule, loopVars, ghostVars
<1>6. ASSUME NEW id \in Frames, RafCancel(id) PROVE TimersInv'
  BY <1>1, <1>6, OtherSteps DEF RafCancel, loopVars, ghostVars
<1>7. CASE Start
  BY <1>7, StartStep
<1>8. CASE Threw
  BY <1>1, <1>8, OtherSteps DEF Threw, ghostVars
<1>9. CASE Evaluated
  BY <1>9, EvaluatedStep
<1>10. CASE Exhausted
  BY <1>1, <1>10, OtherSteps DEF Exhausted, ghostVars
<1>11. CASE FireFrame
  BY <1>1, <1>11, OtherSteps DEF FireFrame, ghostVars
<1>12. CASE NextInFrame
  BY <1>1, <1>12, OtherSteps DEF NextInFrame, ghostVars
<1>13. CASE FrameDone
  BY <1>1, <1>13, OtherSteps DEF FrameDone, ghostVars
<1>14. CASE Fire
  BY <1>14, FireStep
<1>15. CASE Fired
  BY <1>15, FiredStep
<1>16. CASE Nothing
  BY <1>16, NothingStep
<1>17. CASE UNCHANGED vars
  BY <1>1, <1>17, OtherSteps DEF vars, loopVars, ghostVars
<1>18. QED
  BY <1>2, <1>3, <1>4, <1>5, <1>6, <1>7, <1>8, <1>9, <1>10, <1>11, <1>12, <1>13, <1>14, <1>15, <1>16, <1>17
     DEF Next, Script, Loop

-----------------------------------------------------------------------------
(* The frames: what pends is in the frame that runs or in the next one,    *)
(* once, by an id that was given out; and a frame that is not running has  *)
(* no entries left.                                                        *)
Once(s) == \A i, j \in DOMAIN s : s[i] = s[j] => i = j
Apart(s, t) == \A i \in DOMAIN s, j \in DOMAIN t : s[i] # t[j]
Below(s, n) == \A i \in DOMAIN s : s[i] < n

FramesPend ==
  /\ raf \in [nextId : 1 .. MaxRaf + 1, due : Nat, cbs : Seq(Frames)]
  /\ batch \in Seq(Frames)
  /\ Once(batch) /\ Once(raf.cbs) /\ Apart(batch, raf.cbs)
  /\ Below(batch, raf.nextId) /\ Below(raf.cbs, raf.nextId)
  /\ running # "raf" => batch = <<>>

(* The limit has room for the callback that runs. *)
RunTyped ==
  /\ now \in 0 .. LastTick
  /\ running \in {"idle", "script", "loop", "timer", "raf"}
  /\ deadline \in Nat /\ fired \in 0 .. FireLimit
  /\ running \in {"timer", "raf"} => fired < FireLimit
  /\ q.nextId \in 1 .. MaxId + 1
  /\ task \in Keys \cup {NoTask}
  /\ quiet \subseteq Ids /\ silenced \subseteq Ids
  /\ asked \in [Ids -> Nat]

ArmedInv == TimersInv /\ FramesPend /\ RunTyped

(* The n-th place of a finite set of places exists. *)
LEMMA NthExists ==
  ASSUME NEW K \in SUBSET Nat, IsFiniteSet(K), NEW n \in 1 .. Cardinality(K)
  PROVE  \E k \in K : Cardinality({j \in K : j <= k}) = n
<1> DEFINE upto(k) == {j \in K : j <= k}
           c == Cardinality(K)
           rank == [k \in K |-> Cardinality(upto(k))]
<1>1. c \in Nat /\ IsFiniteSet(1 .. c) /\ Cardinality(1 .. c) = c
  BY FS_CardinalityType, FS_Interval
<1>2. ASSUME NEW k \in K
      PROVE  IsFiniteSet(upto(k)) /\ Cardinality(upto(k)) \in 1 .. c
  <2>1. IsFiniteSet(upto(k)) /\ Cardinality(upto(k)) <= c
    BY FS_Subset
  <2>2. Cardinality(upto(k)) \in Nat /\ Cardinality(upto(k)) # 0
    <3>1. k \in upto(k)
      OBVIOUS
    <3>2. QED
      BY <2>1, <3>1, FS_EmptySet, FS_CardinalityType
  <2>3. QED
    BY <1>1, <2>1, <2>2
<1>3. ASSUME NEW k \in K, NEW l \in K, k < l
      PROVE  Cardinality(upto(k)) < Cardinality(upto(l))
  <2>1. upto(k) \in SUBSET upto(l) /\ l \in upto(l) /\ l \notin upto(k)
    <3>1. k \in Nat /\ l \in Nat /\ \A j \in K : j \in Nat
      OBVIOUS
    <3>2. \A j \in K : j <= k => j <= l
      BY <1>3, <3>1
    <3>3. l <= l /\ ~(l <= k)
      BY <1>3, <3>1
    <3>4. QED
      BY <3>2, <3>3
  <2>2. /\ Cardinality(upto(k)) <= Cardinality(upto(l))
        /\ Cardinality(upto(l)) # Cardinality(upto(k))
    BY <1>2, <2>1, FS_Subset
  <2>3. Cardinality(upto(k)) \in Nat /\ Cardinality(upto(l)) \in Nat
    BY <1>2
  <2> HIDE DEF upto
  <2>4. QED
    BY <2>2, <2>3
<1>4. rank \in Injection(K, 1 .. c)
  <2>1. rank \in [K -> 1 .. c]
    BY <1>2
  <2>2. ASSUME NEW k \in K, NEW l \in K, k # l PROVE rank[k] # rank[l]
    <3>1. rank[k] \in Nat /\ rank[l] \in Nat
      BY <2>1
    <3>2. (k < l => rank[k] < rank[l]) /\ (l < k => rank[l] < rank[k])
      BY <1>3
    <3> HIDE DEF rank
    <3>3. QED
      BY <2>2, <3>1, <3>2
  <2>3. QED
    BY <2>1, <2>2 DEF Injection, IsInjective
<1>5. rank \in Surjection(K, 1 .. c)
  BY <1>1, <1>4, FS_Injection
<1>6. QED
  BY <1>5 DEF Surjection

(* What is kept was there, and nothing is there twice that was not. *)
LEMMA KeptOnce ==
  ASSUME NEW S, NEW s \in Seq(S), NEW K \in SUBSET DOMAIN s
  PROVE  /\ Kept(s, K) \in Seq(S)
         /\ \A n \in DOMAIN Kept(s, K) : \E k \in K : Kept(s, K)[n] = s[k]
         /\ Once(s) => Once(Kept(s, K))
<1> DEFINE c == Cardinality(K)
           At(n) == CHOOSE k \in K : Cardinality({j \in K : j <= k}) = n
<1>1. K \in SUBSET Nat /\ IsFiniteSet(K)
  <2>1. Len(s) \in Nat /\ DOMAIN s = 1 .. Len(s)
    BY LenProperties
  <2>2. IsFiniteSet(DOMAIN s)
    BY <2>1, FS_Interval
  <2>3. QED
    BY <2>1, <2>2, FS_Subset
<1>2. ASSUME NEW n \in 1 .. c
      PROVE  At(n) \in K /\ Cardinality({j \in K : j <= At(n)}) = n
  BY <1>1, NthExists
<1>3. c \in Nat
  BY <1>1, FS_CardinalityType
<1>4. Kept(s, K) = [n \in 1 .. c |-> s[At(n)]]
  BY DEF Kept
<1>5. \A k \in K : s[k] \in S
  BY ElementOfSeq
<1>6. Kept(s, K) \in [1 .. c -> S]
  BY <1>2, <1>4, <1>5
<1>7. Kept(s, K) \in Seq(S) /\ DOMAIN Kept(s, K) = 1 .. c
  BY <1>3, <1>6 DEF Seq
<1>8. \A n \in 1 .. c : Kept(s, K)[n] = s[At(n)]
  BY <1>4
<1>9. ASSUME Once(s), NEW m \in 1 .. c, NEW n \in 1 .. c, Kept(s, K)[m] = Kept(s, K)[n]
      PROVE  m = n
  <2>1. At(m) = At(n)
    BY <1>2, <1>8, <1>9 DEF Once
  <2>2. QED
    BY <1>2, <2>1
<1>10. QED
  BY <1>2, <1>7, <1>8, <1>9 DEF Once

LEMMA FramesInit == Init => FramesPend /\ RunTyped
BY TimerAssumption DEF Init, FramesPend, RunTyped, NoTimers, NoFrames, Once, Apart, Below

LEMMA RafScheduleStep ==
  ASSUME FramesPend, RunTyped, RafSchedule
  PROVE  FramesPend'
<1> DEFINE s == raf.cbs
           n == raf.nextId
<1>1. /\ n \in 1 .. MaxRaf + 1 /\ s \in Seq(Frames) /\ raf.due \in Nat /\ n \in Frames
      /\ n \in Nat /\ n + 1 \in 1 .. MaxRaf + 1 /\ now + FrameTicks \in Nat
  <2>1. MaxRaf \in Nat /\ LastTick \in Nat /\ FrameTicks \in Nat
    BY TimerAssumption
  <2>2. n \in 1 .. MaxRaf + 1 /\ s \in Seq(Frames) /\ raf.due \in Nat /\ n <= MaxRaf
    BY DEF FramesPend, RafSchedule
  <2>3. now \in Nat
    BY <2>1 DEF RunTyped
  <2>4. QED
    BY <2>1, <2>2, <2>3 DEF Frames
<1>2. /\ raf'.nextId = n + 1 /\ raf'.due \in Nat /\ batch' = batch /\ running' = running
      /\ raf'.cbs = IF Len(s) < RafCap THEN Append(s, n) ELSE s
  BY <1>1 DEF RafSchedule, loopVars
<1>3. /\ Append(s, n) \in Seq(Frames) /\ DOMAIN s = 1 .. Len(s) /\ Len(s) \in Nat
      /\ DOMAIN Append(s, n) = 1 .. Len(s) + 1
      /\ \A i \in 1 .. Len(s) : Append(s, n)[i] = s[i]
      /\ Append(s, n)[Len(s) + 1] = n
  BY <1>1, AppendProperties, LenProperties
<1>4. \A i \in DOMAIN s : s[i] \in Nat /\ s[i] < n
  <2>1. s \in [1 .. Len(s) -> Frames]
    BY <1>1, LenProperties
  <2>2. QED
    BY <1>3, <2>1 DEF FramesPend, Below, Frames
<1>5. \A i \in DOMAIN batch : batch[i] \in Nat /\ batch[i] < n
  <2>1. batch \in [1 .. Len(batch) -> Frames]
    BY LenProperties DEF FramesPend
  <2>2. QED
    BY <2>1 DEF FramesPend, Below, Frames
<1>6. Once(Append(s, n)) /\ Apart(batch, Append(s, n))
  BY <1>3, <1>4, <1>5 DEF FramesPend, Once, Apart
<1>7. Below(batch, n + 1) /\ Below(s, n + 1) /\ Below(Append(s, n), n + 1)
  BY <1>1, <1>3, <1>4, <1>5 DEF Below
<1>8. raf' \in [nextId : 1 .. MaxRaf + 1, due : Nat, cbs : Seq(Frames)]
  <2>1. raf'.cbs \in Seq(Frames)
    BY <1>1, <1>2, <1>3
  <2>2. raf' = [nextId |-> raf'.nextId, due |-> raf'.due, cbs |-> raf'.cbs]
    BY DEF RafSchedule
  <2>3. QED
    BY <1>1, <1>2, <2>1, <2>2
<1>9. Once(raf'.cbs) /\ Apart(batch, raf'.cbs) /\ Below(raf'.cbs, n + 1)
  BY <1>2, <1>6, <1>7 DEF FramesPend
<1>10. QED
  BY <1>2, <1>7, <1>8, <1>9 DEF FramesPend

LEMMA RafCancelStep ==
  ASSUME FramesPend, NEW id, RafCancel(id)
  PROVE  FramesPend'
<1> DEFINE s == raf.cbs
           K == {n \in DOMAIN s : s[n] # id}
           t == Kept(s, K)
<1>1. s \in Seq(Frames) /\ K \in SUBSET DOMAIN s
  BY DEF FramesPend
<1>2. t \in Seq(Frames) /\ Once(t) /\ \A n \in DOMAIN t : \E k \in DOMAIN s : t[n] = s[k]
  <2> HIDE DEF K
  <2>1. /\ t \in Seq(Frames) /\ (Once(s) => Once(t))
        /\ \A n \in DOMAIN t : \E k \in K : t[n] = s[k]
    BY <1>1, KeptOnce
  <2>2. QED
    BY <1>1, <2>1 DEF FramesPend
<1>3. raf' = [raf EXCEPT !.cbs = t] /\ batch' = batch /\ running' = running
  BY DEF RafCancel, loopVars
<1> HIDE DEF t, K
<1>4. /\ raf' \in [nextId : 1 .. MaxRaf + 1, due : Nat, cbs : Seq(Frames)]
      /\ raf'.cbs = t /\ raf'.nextId = raf.nextId
  BY <1>2, <1>3 DEF FramesPend
<1>5. Apart(batch, t) /\ Below(t, raf.nextId)
  BY <1>2 DEF FramesPend, Apart, Below
<1>6. QED
  BY <1>2, <1>3, <1>4, <1>5 DEF FramesPend

LEMMA FireFrameStep ==
  ASSUME FramesPend, FireFrame
  PROVE  FramesPend'
<1>1. /\ batch' = raf.cbs /\ raf' = [raf EXCEPT !.cbs = <<>>] /\ running' = "raf"
  BY DEF FireFrame
<1>2. /\ raf' \in [nextId : 1 .. MaxRaf + 1, due : Nat, cbs : Seq(Frames)]
      /\ raf'.cbs = <<>> /\ raf'.nextId = raf.nextId
  BY <1>1, EmptySeq DEF FramesPend
<1>3. QED
  BY <1>1, <1>2 DEF FramesPend, Once, Apart, Below

(* An entry that goes back was in the frame once, and is in it no more. *)
LEMMA NextInFrameStep ==
  ASSUME FramesPend, NextInFrame
  PROVE  FramesPend'
<1> DEFINE s == raf.cbs
           h == Head(batch)
           b == Tail(batch)
<1>1. /\ batch \in Seq(Frames) /\ batch # <<>> /\ s \in Seq(Frames)
      /\ batch' = b /\ running' = running /\ running = "raf"
  BY DEF FramesPend, NextInFrame
<1>2. /\ DOMAIN batch = 1 .. Len(batch) /\ DOMAIN s = 1 .. Len(s)
      /\ Len(batch) \in Nat \ {0} /\ Len(s) \in Nat
  BY <1>1, LenProperties, EmptySeq
<1>3. /\ h = batch[1] /\ h \in Frames /\ b \in Seq(Frames)
      /\ DOMAIN b = 1 .. Len(batch) - 1
      /\ \A i \in 1 .. Len(batch) - 1 : b[i] = batch[i + 1]
  BY <1>1, <1>2, HeadTailProperties, LenProperties
<1>4. /\ Append(s, h) \in Seq(Frames)
      /\ DOMAIN Append(s, h) = 1 .. Len(s) + 1
      /\ \A i \in 1 .. Len(s) : Append(s, h)[i] = s[i]
      /\ Append(s, h)[Len(s) + 1] = h
  BY <1>1, <1>2, <1>3, AppendProperties, LenProperties
<1> HIDE DEF b, h
<1>5. Once(b) /\ Apart(b, s) /\ Below(b, raf.nextId)
  <2>1. \A i \in DOMAIN b : i \in Nat /\ i + 1 \in DOMAIN batch /\ b[i] = batch[i + 1]
    BY <1>2, <1>3
  <2>2. Apart(b, s) /\ Below(b, raf.nextId)
    BY <2>1 DEF FramesPend, Apart, Below
  <2>3. ASSUME NEW i \in DOMAIN b, NEW j \in DOMAIN b, b[i] = b[j] PROVE i = j
    <3>1. i + 1 = j + 1
      BY <2>1, <2>3 DEF FramesPend, Once
    <3>2. QED
      BY <2>1, <3>1
  <2>4. QED
    BY <2>2, <2>3 DEF Once
<1>6. Once(Append(s, h)) /\ Apart(b, Append(s, h)) /\ Below(Append(s, h), raf.nextId)
  <2>1. \A i \in DOMAIN s : s[i] # h
    BY <1>2, <1>3 DEF FramesPend, Apart
  <2>2. \A i \in DOMAIN b : b[i] # h
    <3>1. \A i \in DOMAIN b : i + 1 \in DOMAIN batch /\ i + 1 # 1 /\ b[i] = batch[i + 1]
      BY <1>2, <1>3
    <3>2. 1 \in DOMAIN batch
      BY <1>2
    <3>3. QED
      BY <1>3, <3>1, <3>2 DEF FramesPend, Once
  <2>3. Once(Append(s, h))
    BY <1>2, <1>4, <2>1 DEF FramesPend, Once
  <2>4. Apart(b, Append(s, h))
    BY <1>2, <1>4, <1>5, <2>2 DEF Apart
  <2>5. Below(Append(s, h), raf.nextId)
    <3>1. 1 \in DOMAIN batch
      BY <1>2
    <3>2. h < raf.nextId
      BY <1>3, <3>1 DEF FramesPend, Below
    <3>3. QED
      BY <1>2, <1>4, <3>2 DEF FramesPend, Below
  <2>6. QED
    BY <2>3, <2>4, <2>5
<1>7. CASE UNCHANGED raf
  BY <1>1, <1>3, <1>5, <1>7 DEF FramesPend
<1>8. CASE raf' = [raf EXCEPT !.cbs = Append(@, Head(batch))]
  <2>1. /\ raf' \in [nextId : 1 .. MaxRaf + 1, due : Nat, cbs : Seq(Frames)]
        /\ raf'.cbs = Append(s, h) /\ raf'.nextId = raf.nextId
    BY <1>4, <1>8 DEF FramesPend, h
  <2>2. QED
    BY <1>1, <1>3, <1>5, <1>6, <2>1 DEF FramesPend
<1>9. QED
  BY <1>7, <1>8 DEF NextInFrame

LEMMA FrameDoneStep ==
  ASSUME FramesPend, RunTyped, FrameDone
  PROVE  FramesPend'
<1>1. now + FrameTicks \in Nat
  BY TimerAssumption DEF RunTyped
<1>2. raf' = [raf EXCEPT !.due = now + FrameTicks] /\ batch = <<>> /\ batch' = batch
  BY DEF FrameDone
<1>3. /\ raf' \in [nextId : 1 .. MaxRaf + 1, due : Nat, cbs : Seq(Frames)]
      /\ raf'.cbs = raf.cbs /\ raf'.nextId = raf.nextId
  BY <1>1, <1>2 DEF FramesPend
<1>4. QED
  BY <1>2, <1>3 DEF FramesPend, FrameDone

(* A run begins with no frame asked for, and none running. *)
LEMMA StartFramesStep ==
  ASSUME FramesPend, Start
  PROVE  FramesPend'
<1>1. batch = <<>> /\ batch' = <<>> /\ raf' = NoFrames
  BY DEF FramesPend, Start
<1>2. QED
  BY <1>1, TimerAssumption DEF FramesPend, NoFrames, Once, Apart, Below

LEMMA FramesStep == FramesPend /\ RunTyped /\ [Next]_vars => FramesPend'
<1> SUFFICES ASSUME FramesPend, RunTyped, [Next]_vars PROVE FramesPend'
  OBVIOUS
<1>1. ASSUME UNCHANGED <<raf, batch>>, running = "raf" => running' = "raf"
      PROVE  FramesPend'
  BY <1>1 DEF FramesPend
<1>2. CASE \/ Tick \/ Threw \/ Evaluated \/ Exhausted \/ Fire \/ Fired \/ Nothing \/ UNCHANGED vars
  BY <1>1, <1>2 DEF Tick, Threw, Evaluated, Exhausted, Fire, Fired, Nothing, vars, loopVars
<1>3. ASSUME NEW d \in Delays, NEW repeats \in BOOLEAN, Schedule(d, repeats) PROVE FramesPend'
  BY <1>1, <1>3 DEF Schedule, loopVars
<1>4. ASSUME NEW id \in Ids, Unschedule(id) PROVE FramesPend'
  BY <1>1, <1>4 DEF Unschedule, loopVars
<1>5. ASSUME NEW id \in Frames, RafCancel(id) PROVE FramesPend'
  BY <1>5, RafCancelStep
<1>6. QED
  BY <1>2, <1>3, <1>4, <1>5, RafScheduleStep, FireFrameStep, NextInFrameStep, FrameDoneStep, StartFramesStep
     DEF Next, Script, Loop

(* A new timer takes the next id, and nothing else does. *)
LEMMA NextIdStep ==
  ASSUME TimersInv, RunTyped, [Next]_vars
  PROVE  q'.nextId \in 1 .. MaxId + 1
<1>1. q.nextId \in 1 .. MaxId + 1 /\ MaxId \in Nat /\ now \in Nat /\ Tidy(q, q.nextId)
  BY TimerAssumption DEF RunTyped, TimersInv
<1>2. ASSUME NEW d \in Delays, NEW repeats \in BOOLEAN, Schedule(d, repeats)
      PROVE  q'.nextId \in 1 .. MaxId + 1
  <2> DEFINE i == IF repeats THEN d ELSE 0
  <2>1. q.nextId \in Ids /\ d \in Nat /\ i \in Nat /\ q' = Scheduled(q, d, i)
    BY <1>1, <1>2, TimerAssumption DEF Schedule, Ids
  <2> HIDE DEF i
  <2>2. q'.nextId = q.nextId + 1
    BY <1>1, <2>1, ScheduledTidy
  <2>3. QED
    BY <1>1, <2>1, <2>2 DEF Ids
<1>3. ASSUME NEW id \in Ids, Unschedule(id)
      PROVE  q'.nextId \in 1 .. MaxId + 1
  BY <1>1, <1>3, RemovedTidy DEF Unschedule
<1>4. CASE Evaluated
  <2> DEFINE p == Scheduled(q, 1, 0)
  <2>1. CASE UNCHANGED q
    BY <1>1, <2>1
  <2>2. CASE q.nextId < MaxId /\ q' = Scheduled(p, 1, 0)
    <3>1. q.nextId \in Ids /\ q.nextId + 1 \in Ids
      BY <1>1, <2>2 DEF Ids
    <3>2. Tidy(p, p.nextId) /\ p.nextId = q.nextId + 1
      BY <1>1, <3>1, ScheduledTidy
    <3> HIDE DEF p
    <3>3. q'.nextId = p.nextId + 1
      BY <1>1, <2>2, <3>1, <3>2, ScheduledTidy
    <3>4. QED
      BY <1>1, <2>2, <3>2, <3>3
  <2>3. QED
    BY <1>4, <2>1, <2>2 DEF Evaluated
<1>5. CASE Start
  BY <1>1, <1>5 DEF Start, NoTimers
<1>6. CASE Fire \/ Nothing
  BY <1>1, <1>6 DEF Fire, Nothing, Tidy
<1>7. CASE Fired
  <2>1. CASE UNCHANGED q
    BY <1>1, <2>1
  <2>2. CASE q' = Pushed(q, now + task.interval, task.id, task.interval)
    <3>1. q'.nextId = q.nextId
      BY <1>1, <2>2 DEF Pushed, Tidy
    <3>2. QED
      BY <1>1, <3>1
  <2>3. QED
    BY <1>7, <2>1, <2>2 DEF Fired
<1>8. CASE UNCHANGED q
  BY <1>1, <1>8
<1>9. QED
  BY <1>2, <1>3, <1>4, <1>5, <1>6, <1>7, <1>8
     DEF Next, Script, Loop, Tick, RafSchedule, RafCancel, Threw, Exhausted, FireFrame, NextInFrame, FrameDone, vars

LEMMA RunStep ==
  ASSUME TimersInv, RunTyped, [Next]_vars
  PROVE  RunTyped'
<1>1. /\ now \in 0 .. LastTick /\ deadline \in Nat /\ fired \in 0 .. FireLimit /\ q'.nextId \in 1 .. MaxId + 1
      /\ LastTick \in Nat /\ FireLimit \in Nat /\ Budget \in Nat
  BY NextIdStep, TimerAssumption DEF RunTyped
<1>2. CASE Tick
  BY <1>1, <1>2 DEF Tick, RunTyped, loopVars, ghostVars
<1>3. ASSUME NEW d \in Delays, NEW repeats \in BOOLEAN, Schedule(d, repeats) PROVE RunTyped'
  <2>1. d \in Nat /\ asked' = [asked EXCEPT ![q.nextId] = d] /\ asked \in [Ids -> Nat]
    BY <1>3, TimerAssumption DEF Schedule, RunTyped
  <2>2. asked' \in [Ids -> Nat]
    BY <2>1
  <2>3. QED
    BY <1>1, <1>3, <2>2 DEF Schedule, RunTyped, loopVars
<1>4. ASSUME NEW id \in Ids, Unschedule(id) PROVE RunTyped'
  BY <1>1, <1>4 DEF Unschedule, RunTyped, loopVars
<1>5. CASE RafSchedule
  BY <1>1, <1>5 DEF RafSchedule, RunTyped, loopVars, ghostVars
<1>6. ASSUME NEW id \in Frames, RafCancel(id) PROVE RunTyped'
  BY <1>1, <1>6 DEF RafCancel, RunTyped, loopVars, ghostVars
<1>7. CASE Start
  BY <1>1, <1>7 DEF Start, RunTyped
<1>8. CASE Threw \/ Evaluated \/ Exhausted
  BY <1>1, <1>8 DEF Threw, Evaluated, Exhausted, RunTyped, ghostVars
<1>9. CASE FireFrame
  BY <1>1, <1>9 DEF FireFrame, GoesOn, RunTyped, ghostVars
<1>10. CASE NextInFrame
  BY <1>1, <1>10 DEF NextInFrame, RunTyped, ghostVars
<1>11. CASE FrameDone
  BY <1>1, <1>11 DEF FrameDone, RunTyped, ghostVars
<1>12. CASE Fire
  <2>1. task' \in Keys
    BY <1>12 DEF Fire, DueTimers, DueKeys, TimersInv, Tidy
  <2>2. QED
    BY <1>1, <1>12, <2>1 DEF Fire, GoesOn, RunTyped, ghostVars
<1>13. CASE Fired
  BY <1>1, <1>13 DEF Fired, RunTyped, ghostVars
<1>14. CASE Nothing
  BY <1>1, <1>14 DEF Nothing, RunTyped, ghostVars
<1>15. CASE UNCHANGED vars
  BY <1>1, <1>15 DEF RunTyped, vars, loopVars, ghostVars
<1>16. QED
  BY <1>2, <1>3, <1>4, <1>5, <1>6, <1>7, <1>8, <1>9, <1>10, <1>11, <1>12, <1>13, <1>14, <1>15
     DEF Next, Script, Loop

(* What pends in two sequences that are apart pends once in both. *)
LEMMA PendsOnce == FramesPend => FramePendsOnce
<1> SUFFICES ASSUME FramesPend PROVE FramePendsOnce
  OBVIOUS
<1> DEFINE s == batch
           t == raf.cbs
           u == batch \o raf.cbs
<1>1. s \in Seq(Frames) /\ t \in Seq(Frames)
  BY DEF FramesPend
<1>2. /\ DOMAIN s = 1 .. Len(s) /\ DOMAIN t = 1 .. Len(t)
      /\ Len(s) \in Nat /\ Len(t) \in Nat
  BY <1>1, LenProperties
<1>3. /\ DOMAIN u = 1 .. Len(s) + Len(t)
      /\ \A i \in 1 .. Len(s) + Len(t) : u[i] = IF i <= Len(s) THEN s[i] ELSE t[i - Len(s)]
  BY <1>1, ConcatProperties, LenProperties
<1> HIDE DEF u
<1>4. ASSUME NEW i \in DOMAIN u, NEW j \in DOMAIN u, u[i] = u[j] PROVE i = j
  <2>1. CASE i <= Len(s) /\ j <= Len(s)
    BY <1>2, <1>3, <1>4, <2>1 DEF FramesPend, Once
  <2>2. CASE i <= Len(s) /\ ~(j <= Len(s))
    BY <1>2, <1>3, <1>4, <2>2 DEF FramesPend, Apart
  <2>3. CASE ~(i <= Len(s)) /\ j <= Len(s)
    <3>1. i - Len(s) \in DOMAIN t /\ j \in DOMAIN s /\ t[i - Len(s)] = s[j]
      BY <1>2, <1>3, <1>4, <2>3
    <3>2. QED
      BY <3>1 DEF FramesPend, Apart
  <2>4. CASE ~(i <= Len(s)) /\ ~(j <= Len(s))
    <3>1. i - Len(s) \in DOMAIN t /\ j - Len(s) \in DOMAIN t /\ t[i - Len(s)] = t[j - Len(s)]
      BY <1>2, <1>3, <1>4, <2>4
    <3>2. i - Len(s) = j - Len(s)
      BY <3>1 DEF FramesPend, Once
    <3>3. QED
      BY <1>2, <1>3, <3>2
  <2>5. QED
    BY <2>1, <2>2, <2>3, <2>4
<1>5. QED
  BY <1>4 DEF FramePendsOnce, u

-----------------------------------------------------------------------------
(* From Tidy, the key of an armed timer is the only one of its id. *)
LEMMA KeysMatch == TimersInv => EachHasItsKey
<1> SUFFICES ASSUME TimersInv PROVE EachHasItsKey
  OBVIOUS
<1>1. ASSUME NEW id \in q.tails PROVE Cardinality({k \in q.heap : k.id = id}) = 1
  <2>1. PICK k \in q.heap : k.id = id
    BY DEF TimersInv, Tidy
  <2>2. {j \in q.heap : j.id = id} = {k}
    BY <2>1 DEF TimersInv, Tidy
  <2>3. QED
    BY <2>2, FS_Singleton
<1>2. QED
  BY <1>1 DEF EachHasItsKey, TimersInv, Tidy

-----------------------------------------------------------------------------
(* The keys of the timers s at the time t, with the delays a: none is due  *)
(* later than a timer set now with its delay would be, and of two with one *)
(* that does not repeat set first, for no longer, that one comes first.    *)
InTime(s, a, t) ==
  \A k \in s.heap : k.seq <= s.seq /\ k.due <= t + a[k.id] /\ k.interval \in {0, a[k.id]}
InTurn(s, a) ==
  \A j, k \in s.heap : j.id < k.id /\ j.interval = 0 /\ a[j.id] <= a[k.id] => j.due <= k.due /\ j.seq < k.seq

AskedInv ==
  /\ InTime(q, asked, now) /\ InTurn(q, asked)
  /\ running = "timer" => task.interval \in {0, asked[task.id]}

LEMMA FewerInTime ==
  ASSUME NEW s, NEW r, NEW a, NEW t, InTime(s, a, t), InTurn(s, a), r.heap \subseteq s.heap, r.seq = s.seq
  PROVE  InTime(r, a, t) /\ InTurn(r, a)
BY DEF InTime, InTurn

(* A key made now is due no earlier than those asked for before it with no *)
(* longer delay, and has the last number.                                  *)
LEMMA PushedInTime ==
  ASSUME NEW s, NEW n \in Nat, Tidy(s, n), NEW a \in [Ids -> Nat], NEW t \in Nat, InTime(s, a, t), InTurn(s, a),
         NEW id \in Ids, NEW interval \in {0, a[id]}, \A k \in s.heap : k.id # id,
         interval # 0 \/ \A k \in s.heap : k.id < id
  PROVE  LET p == Pushed(s, t + a[id], id, interval)
         IN  InTime(p, a, t) /\ InTurn(p, a)
<1>1. CASE s.live >= TimerCap
  BY <1>1 DEF Pushed
<1>2. CASE ~(s.live >= TimerCap)
  <2> DEFINE key == KeyOf(t + a[id], s.seq + 1, id, interval)
             p == Pushed(s, t + a[id], id, interval)
  <2>1. /\ p.seq = s.seq + 1 /\ p.heap = Pruned(s) \cup {key} /\ Pruned(s) \subseteq s.heap
        /\ s.seq \in Nat /\ a[id] \in Nat
    BY <1>2 DEF Pushed, Pruned, Tidy
  <2>2. key.due = t + a[id] /\ key.seq = s.seq + 1 /\ key.id = id /\ key.interval = interval
    BY DEF KeyOf
  <2>3. \A k \in s.heap : k.due \in Nat /\ k.seq \in Nat /\ k.id \in Ids /\ a[k.id] \in Nat
    BY DEF Tidy, Keys
  <2> HIDE DEF key, p
  <2>4. InTime(p, a, t)
    BY <2>1, <2>2, <2>3 DEF InTime
  <2>5. ASSUME NEW j \in p.heap, NEW k \in p.heap, j.id < k.id, j.interval = 0, a[j.id] <= a[k.id]
        PROVE  j.due <= k.due /\ j.seq < k.seq
    <3>1. id \in Nat /\ ~(id < id)
      BY DEF Ids
    <3>2. CASE j \in s.heap /\ k \in s.heap
      BY <2>5, <3>2 DEF InTurn
    <3>3. CASE j \in s.heap /\ k = key
      <4>1. j.due <= t + a[j.id] /\ j.seq <= s.seq /\ a[j.id] <= a[id]
        BY <2>2, <2>5, <3>3 DEF InTime
      <4>2. QED
        BY <2>1, <2>2, <2>3, <3>3, <4>1
    <3>4. CASE j = key /\ k \in s.heap
      <4>1. k.id < id /\ id < k.id /\ k.id \in Nat
        BY <2>2, <2>3, <2>5, <3>4 DEF Ids
      <4>2. QED
        BY <3>1, <4>1
    <3>5. CASE j = key /\ k = key
      BY <2>2, <2>5, <3>1, <3>5
    <3>6. QED
      BY <2>1, <3>2, <3>3, <3>4, <3>5
  <2>6. QED
    BY <2>4, <2>5 DEF InTurn, p
<1>3. QED
  BY <1>1, <1>2

(* The next id has no key: its delay may be noted. *)
LEMMA ScheduledInTime ==
  ASSUME NEW s, Tidy(s, s.nextId), s.nextId \in Ids, now \in Nat, NEW a \in [Ids -> Nat],
         InTime(s, a, now), InTurn(s, a), NEW delay \in Nat, NEW interval \in {0, delay}
  PROVE  LET b == [a EXCEPT ![s.nextId] = delay]
             p == Scheduled(s, delay, interval)
         IN  b \in [Ids -> Nat] /\ InTime(p, b, now) /\ InTurn(p, b)
<1> DEFINE id == s.nextId
           b == [a EXCEPT ![id] = delay]
           p == Pushed(s, now + delay, id, interval)
<1>1. \A k \in s.heap : k.id \in Ids /\ k.id # id /\ k.id < id
  BY DEF Tidy, Keys, Ids
<1>2. b \in [Ids -> Nat] /\ b[id] = delay /\ \A k \in s.heap : b[k.id] = a[k.id]
  BY <1>1
<1>3. id \in Nat
  BY DEF Ids
<1> HIDE DEF b
<1>4. InTime(s, b, now) /\ InTurn(s, b)
  BY <1>2 DEF InTime, InTurn
<1>5. InTime(p, b, now) /\ InTurn(p, b)
  <2>1. interval \in {0, b[id]} /\ now + delay = now + b[id]
    BY <1>2
  <2>2. LET r == Pushed(s, now + b[id], id, interval) IN InTime(r, b, now) /\ InTurn(r, b)
    BY <1>1, <1>2, <1>3, <1>4, <2>1, PushedInTime
  <2>3. QED
    BY <1>2, <2>2
<1>6. p \in [nextId : Nat \ {0}, seq : Nat, live : Nat, heap : SUBSET Keys, tails : SUBSET Ids]
  <2>1. Tidy(s, id + 1)
    BY <1>3 DEF Tidy, Keys, Ids
  <2>2. now + delay \in Nat /\ interval \in Nat /\ id + 1 \in Nat /\ id < id + 1
    BY <1>3
  <2>3. Tidy(p, id + 1)
    BY <1>1, <1>3, <2>1, <2>2, PushedTidy
  <2>4. QED
    BY <2>3 DEF Tidy
<1>7. /\ Scheduled(s, delay, interval).heap = p.heap
      /\ Scheduled(s, delay, interval).seq = p.seq
  BY <1>6 DEF Scheduled
<1>8. QED
  BY <1>2, <1>5, <1>7 DEF b, InTime, InTurn

LEMMA AskedInit == Init => AskedInv
BY DEF Init, AskedInv, InTime, InTurn, NoTimers

LEMMA AskedStep ==
  ASSUME TimersInv, RunTyped, AskedInv, [Next]_vars
  PROVE  AskedInv'
<1>1. /\ now \in Nat /\ asked \in [Ids -> Nat] /\ Tidy(q, q.nextId) /\ q.nextId \in Nat
      /\ InTime(q, asked, now) /\ InTurn(q, asked)
      /\ running = "timer" => task.interval \in {0, asked[task.id]}
  BY DEF TimersInv, RunTyped, AskedInv, Tidy
<1>2. ASSUME UNCHANGED <<q, asked, now, task>>, running' = "timer" => running = "timer" PROVE AskedInv'
  BY <1>1, <1>2 DEF AskedInv, InTime, InTurn
<1>3. CASE Tick
  <2>1. now' = now + 1 /\ UNCHANGED <<q, asked, task, running>>
    BY <1>3 DEF Tick, loopVars, ghostVars
  <2>2. \A k \in q.heap : k.due \in Nat /\ asked[k.id] \in Nat
    BY <1>1 DEF Tidy, Keys
  <2>3. InTime(q, asked, now + 1)
    BY <1>1, <2>2 DEF InTime
  <2>4. QED
    BY <1>1, <2>1, <2>3 DEF AskedInv, InTime, InTurn
<1>4. ASSUME NEW d \in Delays, NEW repeats \in BOOLEAN, Schedule(d, repeats) PROVE AskedInv'
  <2> DEFINE i == IF repeats THEN d ELSE 0
  <2>1. /\ q' = Scheduled(q, d, i) /\ asked' = [asked EXCEPT ![q.nextId] = d]
        /\ UNCHANGED <<now, running, task>> /\ q.nextId \in Ids /\ d \in Nat /\ i \in {0, d}
    BY <1>1, <1>4, TimerAssumption DEF Schedule, loopVars, Ids, Tidy
  <2> HIDE DEF i
  <2>2. InTime(q', asked', now) /\ InTurn(q', asked')
    BY <1>1, <2>1, ScheduledInTime
  <2>3. running = "timer" => asked'[task.id] = asked[task.id]
    BY <1>1, <2>1 DEF TimersInv, OutWhileItRuns, Keys, Ids
  <2>4. QED
    BY <1>1, <2>1, <2>2, <2>3 DEF AskedInv, InTime, InTurn
<1>5. ASSUME NEW id \in Ids, Unschedule(id) PROVE AskedInv'
  <2>1. q'.heap = q.heap /\ q'.seq = q.seq /\ UNCHANGED <<now, running, task, asked>>
    BY <1>1, <1>5 DEF Unschedule, Removed, Tidy, loopVars
  <2>2. QED
    BY <1>1, <2>1 DEF AskedInv, InTime, InTurn
<1>6. CASE RafSchedule
  BY <1>2, <1>6 DEF RafSchedule, loopVars, ghostVars
<1>7. ASSUME NEW id \in Frames, RafCancel(id) PROVE AskedInv'
  BY <1>2, <1>7 DEF RafCancel, loopVars, ghostVars
<1>8. CASE Start
  BY <1>8 DEF Start, AskedInv, InTime, InTurn, NoTimers
<1>9. CASE Threw \/ Exhausted \/ FireFrame \/ NextInFrame \/ FrameDone
  BY <1>2, <1>9 DEF Threw, Exhausted, FireFrame, NextInFrame, FrameDone, ghostVars
<1>10. CASE Evaluated
  <2>1. CASE UNCHANGED <<q, asked>>
    BY <1>2, <1>10, <2>1 DEF Evaluated
  <2>2. CASE /\ q.nextId < MaxId /\ q' = Scheduled(Scheduled(q, 1, 0), 1, 0)
             /\ asked' = [asked EXCEPT ![q.nextId] = 1, ![q.nextId + 1] = 1]
    <3> DEFINE p == Scheduled(q, 1, 0)
               b == [asked EXCEPT ![q.nextId] = 1]
    <3>1. q.nextId \in Ids /\ q.nextId + 1 \in Ids
      BY <1>1, <2>2, TimerAssumption DEF Ids, Tidy
    <3>2. Tidy(p, p.nextId) /\ p.nextId = q.nextId + 1
      BY <1>1, <3>1, ScheduledTidy
    <3>3. b \in [Ids -> Nat] /\ InTime(p, b, now) /\ InTurn(p, b)
      BY <1>1, <3>1, ScheduledInTime
    <3>4. asked' = [b EXCEPT ![p.nextId] = 1] /\ q' = Scheduled(p, 1, 0)
      BY <2>2, <3>2
    <3> HIDE DEF p, b
    <3>5. InTime(q', asked', now) /\ InTurn(q', asked')
      BY <1>1, <3>1, <3>2, <3>3, <3>4, ScheduledInTime
    <3>6. QED
      BY <1>10, <3>5 DEF Evaluated, AskedInv, InTime, InTurn
  <2>3. QED
    BY <1>10, <2>1, <2>2 DEF Evaluated
<1>11. CASE Fire
  <2> PICK k \in DueTimers :
        /\ task' = k
        /\ q' = [q EXCEPT !.heap = @ \ {j \in DueKeys : j = k \/ Before(j, k)},
                          !.tails = @ \ {k.id}, !.live = @ - 1]
    BY <1>11 DEF Fire
  <2>1. q'.heap \subseteq q.heap /\ q'.seq = q.seq /\ now' = now /\ asked' = asked
    BY <1>1, <1>11 DEF Fire, ghostVars, Tidy
  <2>2. InTime(q', asked, now) /\ InTurn(q', asked)
    BY <1>1, <2>1, FewerInTime
  <2>3. task'.interval \in {0, asked[task'.id]}
    BY <1>1 DEF InTime, DueTimers, DueKeys
  <2>4. QED
    BY <2>1, <2>2, <2>3 DEF AskedInv, InTime, InTurn
<1>12. CASE Fired
  <2>1. running = "timer" /\ running' = "loop" /\ now' = now /\ asked' = asked
    BY <1>12 DEF Fired, ghostVars
  <2>2. CASE UNCHANGED q
    BY <1>1, <2>1, <2>2 DEF AskedInv, InTime, InTurn
  <2>3. CASE task.interval # 0 /\ q' = Pushed(q, now + task.interval, task.id, task.interval)
    <3>1. task.id \in Ids /\ task.interval = asked[task.id] /\ \A k \in q.heap : k.id # task.id
      BY <1>1, <2>1, <2>3 DEF TimersInv, OutWhileItRuns, Keys
    <3>2. InTime(q', asked, now) /\ InTurn(q', asked)
      BY <1>1, <2>3, <3>1, PushedInTime
    <3>3. QED
      BY <2>1, <3>2 DEF AskedInv, InTime, InTurn
  <2>4. QED
    BY <1>12, <2>2, <2>3 DEF Fired
<1>13. CASE Nothing
  <2>1. /\ q'.heap \subseteq q.heap /\ q'.seq = q.seq /\ UNCHANGED <<now, task, asked>>
        /\ running' # "timer"
    BY <1>1, <1>13 DEF Nothing, ghostVars, Tidy
  <2>2. InTime(q', asked, now) /\ InTurn(q', asked)
    BY <1>1, <2>1, FewerInTime
  <2>3. QED
    BY <2>1, <2>2 DEF AskedInv, InTime, InTurn
<1>14. CASE UNCHANGED vars
  BY <1>2, <1>14 DEF vars, loopVars, ghostVars
<1>15. QED
  BY <1>3, <1>4, <1>5, <1>6, <1>7, <1>8, <1>9, <1>10, <1>11, <1>12, <1>13, <1>14 DEF Next, Script, Loop

(* A timer set first, for no longer, does not fire after one set later:    *)
(* every key is made at its time with the last number, so that clearing,   *)
(* pruning, repeating and a late loop leave the two in their order         *)
(* (timer.rs:217-259, 407-424, 455).                                       *)
THEOREM TimersFireAsAsked == Spec => FiresAsAsked
<1> DEFINE InOrder == Fires => \A k \in q.heap :
                        k.id \in q.tails /\ k.interval = 0 /\ k.id < task'.id => asked[k.id] > asked[task'.id]
<1>1. TimersInv /\ RunTyped /\ AskedInv /\ [Next]_vars => [InOrder]_vars
  <2> SUFFICES ASSUME TimersInv, RunTyped, AskedInv, Next, Fires,
                      NEW j \in q.heap, j.id \in q.tails, j.interval = 0, j.id < task'.id
               PROVE  asked[j.id] > asked[task'.id]
    OBVIOUS
  <2>1. Fire
    BY DEF Next, Script, Loop, Tick, Schedule, Unschedule, RafSchedule, RafCancel, Start, Threw, Evaluated,
           Exhausted, FireFrame, NextInFrame, FrameDone, Fired, Nothing, Fires, loopVars
  <2>2. PICK k \in DueTimers : task' = k /\ \A i \in DueTimers : i = k \/ Before(k, i)
    BY <2>1 DEF Fire
  <2>3. k \in q.heap /\ k.due <= now /\ now \in Nat /\ j \in Keys /\ k \in Keys
    BY <2>2 DEF DueTimers, DueKeys, TimersInv, Tidy
  <2>4. asked[j.id] \in Nat /\ asked[k.id] \in Nat
    BY <2>3 DEF RunTyped, Keys
  <2>5. ASSUME asked[j.id] <= asked[k.id] PROVE FALSE
    <3>1. j.due <= k.due /\ j.seq < k.seq
      BY <2>2, <2>3, <2>5 DEF AskedInv, InTurn
    <3>2. j \in DueTimers
      BY <2>3, <3>1 DEF DueTimers, DueKeys, Keys
    <3>3. QED
      BY <2>2, <2>3, <3>1, <3>2 DEF Before, Keys
  <2>6. QED
    BY <2>2, <2>4, <2>5
<1>2. Init => TimersInv /\ RunTyped /\ AskedInv
  BY TimersInit, FramesInit, AskedInit
<1>3. TimersInv /\ RunTyped /\ AskedInv /\ [Next]_vars => (TimersInv /\ RunTyped /\ AskedInv)'
  BY TimersStep, RunStep, AskedStep
<1>4. QED
  BY <1>1, <1>2, <1>3, PTL DEF Spec, FiresAsAsked

(* What anything but its own callback cleared does not fire, however many  *)
(* keys the heap keeps of it (clear_timer, run_loop).                      *)
THEOREM ClearedStaysQuiet == Spec => ClearedByOthers
<1>1. TimersInv /\ [Next]_vars => [Fires => task'.id \notin quiet]_vars
  <2> SUFFICES ASSUME TimersInv, Next, Fires PROVE task'.id \notin quiet
    OBVIOUS
  <2>1. Fire
    BY DEF Next, Script, Loop, Tick, Schedule, Unschedule, RafSchedule, RafCancel, Start, Threw, Evaluated,
           Exhausted, FireFrame, NextInFrame, FrameDone, Fired, Nothing, Fires, loopVars
  <2>2. task'.id \in q.tails
    BY <2>1 DEF Fire, DueTimers
  <2>3. QED
    BY <2>2 DEF TimersInv
<1>2. QED
  BY <1>1, TimersInit, TimersStep, PTL DEF Spec, ClearedByOthers

(* All that holds of the timers and frames of one environment: they are    *)
(* well typed and within their caps, each armed timer has its key, and no  *)
(* frame's entry pends twice (timer.rs, push_timer, raf_schedule,          *)
(* fire_raf_batch).                                                        *)
THEOREM TimersStayArmed == Spec => []Armed
<1>1. ArmedInv => Armed
  <2> SUFFICES ASSUME ArmedInv PROVE Armed
    OBVIOUS
  <2>1. EachHasItsKey
    BY KeysMatch DEF ArmedInv
  <2>2. FramePendsOnce
    BY PendsOnce DEF ArmedInv
  <2>3. q \in [nextId : 1 .. MaxId + 1, seq : Nat, live : 0 .. TimerCap, heap : SUBSET Keys, tails : SUBSET Ids]
    <3>1. /\ q \in [nextId : Nat \ {0}, seq : Nat, live : Nat, heap : SUBSET Keys, tails : SUBSET Ids]
          /\ q.nextId \in 1 .. MaxId + 1 /\ q.live <= TimerCap /\ TimerCap \in Nat
      BY TimerAssumption DEF ArmedInv, TimersInv, Tidy, RunTyped
    <3>2. q.live \in 0 .. TimerCap
      BY <3>1
    <3>3. QED
      BY <3>1, <3>2
  <2>4. TypeOK
    BY <2>3 DEF ArmedInv, FramesPend, RunTyped, TypeOK
  <2>5. QED
    BY <2>1, <2>2, <2>4 DEF Armed
<1>2. Init => ArmedInv
  BY TimersInit, FramesInit DEF ArmedInv
<1>3. ArmedInv /\ [Next]_vars => ArmedInv'
  BY TimersStep, FramesStep, RunStep DEF ArmedInv
<1>4. QED
  BY <1>1, <1>2, <1>3, PTL DEF Spec
=============================================================================
