---------------------------- MODULE DeadlineWatch ----------------------------
(***************************************************************************)
(* What the solves of a process share (challenge-solver/src/lib.rs and     *)
(* scan.rs): one static watch - a deadline, an active flag and an abort    *)
(* flag - that solve_until arms and disarms, and that every caller polls   *)
(* while it waits, those of a plain solve too; and one static pool of      *)
(* threads, to which each call hands its tasks down a bounded channel.     *)
(* Callers run at once, one in each worker thread.                         *)
(*                                                                         *)
(* A call hands over all its tasks first, blocking where the channel is    *)
(* full, then its jobs to the tasks, blocking again, and only when it has  *)
(* closed the job channel does it look at the watch.  A task keeps its     *)
(* thread until the job channel is closed and empty, or it is told to      *)
(* stop.  Which job is whose, and what is found, are ScanSolve's: here a   *)
(* task takes a job and scans it in one step, and may have found a nonce.  *)
(*                                                                         *)
(* There are two clocks: deadlines are Instants (now), the watch compares  *)
(* readings of the wall clock, which is somewhere else, can be before the  *)
(* epoch, and can be set.                                                  *)
(***************************************************************************)
EXTENDS Integers, Sequences, FiniteSets

CONSTANTS Callers,
          Kinds,             \* of "until" and "plain": the calls that are made
          Patience,          \* time a call of solve_until is given
          Threads, PoolCap,  \* the scan pool and the bound of its channel
          Tasks,             \* of a call
          Jobs, JobCap,      \* of a call, and the bound of its job channel
          Ahead,             \* how far the wall clock may be ahead of now
          Calls, LastTick, Settings     \* bounds

WatchAssumption == /\ IsFiniteSet(Callers) /\ Kinds \subseteq {"until", "plain"}
                   /\ Ahead \subseteq Int
                   /\ {Patience, Calls, Settings} \subseteq Nat
                   /\ {Threads, PoolCap, Tasks, Jobs, JobCap, LastTick} \subseteq Nat \ {0}

VARIABLES now, ahead, settings,        \* the clocks, and how often the wall clock was set
          crew, scans,                 \* who calls at all; whether a job ever ends (fixed)
          active, abort, deadline,     \* WATCH
          queue, free, pool,           \* SCAN_POOL: its channel, how many threads have no task,
                                       \* how many have one of the call
          at,
          kind,     \* what was called
          due,      \* when the call is over, as its caller sees it
          stamp,    \* the reading of the wall clock that it adds its time to
          steady,   \* the wall clock was not set since the call began
          sent, taken,     \* of its jobs
          found,    \* the search has found its nonce
          aborted,  \* the call's own abort flag
          ret,      \* what the last call returned
          calls

clocks == <<now, ahead, settings>>
fixed == <<crew, scans>>
watch == <<active, abort, deadline>>
scanPool == <<queue, free, pool>>
terms == <<kind, due, stamp, steady>>
search == <<sent, taken, found>>
outcome == <<aborted, ret, calls>>
vars == <<clocks, fixed, watch, scanPool, at, terms, search, outcome>>

AllTasks == Callers \X (1 .. Calls)
Quiet == /\ active = FALSE /\ abort = FALSE /\ deadline = 0
         /\ queue = <<>> /\ free = Threads /\ pool = [t \in AllTasks |-> 0]
         /\ at = [c \in Callers |-> "idle"]
         /\ kind = [c \in Callers |-> "plain"]
         /\ due = [c \in Callers |-> 0]
         /\ stamp = [c \in Callers |-> 0]
         /\ steady = [c \in Callers |-> TRUE]
         /\ sent = [c \in Callers |-> 0]
         /\ taken = [c \in Callers |-> 0]
         /\ found = [c \in Callers |-> FALSE]
         /\ aborted = [c \in Callers |-> FALSE]
         /\ ret = [c \in Callers |-> "nothing"]
         /\ calls = [c \in Callers |-> 0]
Init == /\ now \in 1 .. LastTick /\ ahead \in Ahead /\ settings = 0
        /\ crew \in SUBSET Callers /\ scans \in BOOLEAN /\ Quiet

Goes(c, from, to) == at[c] = from /\ at' = [at EXCEPT ![c] = to]

(* The milliseconds since the epoch, none before it. *)
Wall == now + ahead
Millis(t) == IF t < 0 THEN 0 ELSE t

-----------------------------------------------------------------------------
(* solve_until reads the wall clock, adds the time that is left to it and  *)
(* arms the watch in three steps; solve has nothing to arm.                *)

Call(c) == /\ calls[c] < Calls
           /\ now + Patience <= LastTick
           /\ calls' = [calls EXCEPT ![c] = @ + 1]
           /\ \E k \in Kinds :
                /\ kind' = [kind EXCEPT ![c] = k]
                /\ Goes(c, "idle", IF k = "until" THEN "read" ELSE "spawn")
           /\ due' = [due EXCEPT ![c] = now + Patience]
           /\ steady' = [steady EXCEPT ![c] = TRUE]
           /\ sent' = [sent EXCEPT ![c] = 0] /\ taken' = [taken EXCEPT ![c] = 0]
           /\ found' = [found EXCEPT ![c] = FALSE]
           /\ aborted' = [aborted EXCEPT ![c] = FALSE]
           /\ ret' = [ret EXCEPT ![c] = "nothing"]
           /\ UNCHANGED <<clocks, fixed, watch, scanPool, stamp>>

ReadWall(c) == /\ Goes(c, "read", "arm")
               /\ stamp' = [stamp EXCEPT ![c] = Wall]
               /\ UNCHANGED <<clocks, fixed, watch, scanPool, kind, due, steady, search, outcome>>

(* The time that is left is what it is at the second clock's reading: so   *)
(* much time as passes between the two is taken off the call's.            *)
Left(c) == IF due[c] < now THEN 0 ELSE due[c] - now
ArmDeadline(c) == /\ Goes(c, "arm", "clear")
                  /\ deadline' = Millis(stamp[c] + Left(c))
                  /\ due' = [due EXCEPT ![c] = @ - (Wall - stamp[c])]
                  /\ UNCHANGED <<clocks, fixed, active, abort, scanPool, kind, stamp, steady, search, outcome>>

(* Mutant: the flag of the call before stays. *)
ArmOnly(c) == /\ Goes(c, "clear", "activate")
              /\ UNCHANGED <<clocks, fixed, watch, scanPool, terms, search, outcome>>

ArmClear(c) == /\ Goes(c, "clear", "activate")
               /\ abort' = FALSE
               /\ UNCHANGED <<clocks, fixed, active, deadline, scanPool, terms, search, outcome>>

ArmActive(c) == /\ Goes(c, "activate", "spawn")
                /\ active' = TRUE
                /\ UNCHANGED <<clocks, fixed, abort, deadline, scanPool, terms, search, outcome>>

-----------------------------------------------------------------------------
(* The tasks of a call are handed to the pool, one by one. *)

Task(c) == <<c, calls[c]>>
(* Those of the call that have not come to their end: spawned less done. *)
Pending(c) == Cardinality({i \in DOMAIN queue : queue[i] = Task(c)})
              + (IF calls[c] = 0 THEN 0 ELSE pool[Task(c)])

Spawn(c) == /\ at[c] = "spawn" /\ Pending(c) < Tasks
            /\ Len(queue) < PoolCap
            /\ queue' = Append(queue, Task(c))
            /\ UNCHANGED <<clocks, fixed, watch, free, pool, at, terms, search, outcome>>

Spawned(c) == /\ Pending(c) = Tasks
              /\ Goes(c, "spawn", "send")
              /\ UNCHANGED <<clocks, fixed, watch, scanPool, terms, search, outcome>>

-----------------------------------------------------------------------------
(* Then the jobs are handed to the tasks.  Nobody looks at the watch here. *)

CheckFound(c) == /\ sent[c] < Jobs
                 /\ Goes(c, "send", IF found[c] THEN "wait" ELSE "put")
                 /\ UNCHANGED <<clocks, fixed, watch, scanPool, terms, search, outcome>>

Put(c) == /\ Goes(c, "put", "send")
          /\ sent[c] - taken[c] < JobCap
          /\ sent' = [sent EXCEPT ![c] = @ + 1]
          /\ UNCHANGED <<clocks, fixed, watch, scanPool, terms, taken, found, outcome>>

Close(c) == /\ sent[c] = Jobs
            /\ Goes(c, "send", "wait")
            /\ UNCHANGED <<clocks, fixed, watch, scanPool, terms, search, outcome>>

-----------------------------------------------------------------------------
(* The threads of the pool and the tasks on them *)

Closed(c) == at[c] \notin {"spawn", "send", "put"}
(* Told to stop: the caller timed out, or left its jobs unsent. *)
Stopped(c) == aborted[c] \/ (Closed(c) /\ sent[c] < Jobs)

(* A thread takes the next task, whoever's it is. *)
Begin == /\ free > 0 /\ queue # <<>>
         /\ free' = free - 1
         /\ pool' = [pool EXCEPT ![Head(queue)] = @ + 1]
         /\ queue' = Tail(queue)
         /\ UNCHANGED <<clocks, fixed, watch, at, terms, search, outcome>>

(* A task takes a job and scans it. *)
Scan(c) == /\ pool[Task(c)] > 0 /\ ~Stopped(c) /\ taken[c] < sent[c]
           /\ taken' = [taken EXCEPT ![c] = @ + 1]
           /\ \E f \in {found[c], TRUE} : found' = [found EXCEPT ![c] = f]
           /\ UNCHANGED <<clocks, fixed, watch, scanPool, at, terms, sent, outcome>>

(* Mutant: the job channel stays open. *)
OverWhenStopped(c) == Closed(c) /\ Stopped(c)

(* The task of a call that has returned, one that was told to stop, or one *)
(* that finds the job channel closed and empty.                            *)
Over(c) == Closed(c) /\ (Stopped(c) \/ taken[c] = sent[c])

End(c, n) == /\ pool[<<c, n>>] > 0
             /\ n = calls[c] => Over(c)
             /\ pool' = [pool EXCEPT ![<<c, n>>] = @ - 1]
             /\ free' = free + 1
             /\ UNCHANGED <<clocks, fixed, watch, queue, at, terms, search, outcome>>

-----------------------------------------------------------------------------
(* The wait for the tasks, and watch_fired in its steps *)

Leave(c) == /\ Pending(c) = 0
            /\ Goes(c, "wait", "drop")
            /\ UNCHANGED <<clocks, fixed, watch, scanPool, terms, search, outcome>>

Poll(c) == /\ Pending(c) # 0
           /\ \/ Goes(c, "wait", "compare") /\ active
              \/ Goes(c, "wait", "look") /\ ~active
           /\ UNCHANGED <<clocks, fixed, watch, scanPool, terms, search, outcome>>

(* Mutant: the watch never fires. *)
CompareNever(c) == /\ Goes(c, "compare", "look")
                   /\ UNCHANGED <<clocks, fixed, watch, scanPool, terms, search, outcome>>

Reached == deadline # 0 /\ Millis(Wall) >= deadline
Compare(c) == /\ Goes(c, "compare", IF Reached THEN "fire" ELSE "look")
              /\ UNCHANGED <<clocks, fixed, watch, scanPool, terms, search, outcome>>

Fire(c) == /\ Goes(c, "fire", "disarm")
           /\ abort' = TRUE
           /\ UNCHANGED <<clocks, fixed, active, deadline, scanPool, terms, search, outcome>>

Disarm(c) == /\ Goes(c, "disarm", "look")
             /\ active' = FALSE
             /\ UNCHANGED <<clocks, fixed, abort, deadline, scanPool, terms, search, outcome>>

(* A search that was told to stop returns what it has. *)
Look(c) == /\ \/ Goes(c, "look", "drop") /\ abort /\ aborted' = [aborted EXCEPT ![c] = TRUE]
              \/ Goes(c, "look", "wait") /\ ~abort /\ UNCHANGED aborted
           /\ UNCHANGED <<clocks, fixed, watch, scanPool, terms, search, ret, calls>>

-----------------------------------------------------------------------------
(* The guard is dropped, then the flags are looked at: a plain solve has   *)
(* neither and returns what its search did.                                *)

Result(c) == IF found[c] THEN "solution" ELSE "none"

Return(c) == /\ kind[c] = "plain"
             /\ Goes(c, "drop", "idle")
             /\ ret' = [ret EXCEPT ![c] = Result(c)]
             /\ UNCHANGED <<clocks, fixed, watch, scanPool, terms, search, aborted, calls>>

Drop(c) == /\ kind[c] = "until"
           /\ Goes(c, "drop", "judge")
           /\ active' = FALSE
           /\ UNCHANGED <<clocks, fixed, abort, deadline, scanPool, terms, search, outcome>>

Judge(c) == /\ Goes(c, "judge", "idle")
            /\ ret' = [ret EXCEPT ![c] = IF aborted[c] \/ abort THEN "none" ELSE Result(c)]
            /\ UNCHANGED <<clocks, fixed, watch, scanPool, terms, search, aborted, calls>>

Step(c) == \/ ReadWall(c) \/ ArmDeadline(c) \/ ArmClear(c) \/ ArmActive(c)
           \/ Spawn(c) \/ Spawned(c) \/ CheckFound(c) \/ Put(c) \/ Close(c)
           \/ Leave(c) \/ Poll(c) \/ Compare(c) \/ Fire(c) \/ Disarm(c) \/ Look(c)
           \/ Return(c) \/ Drop(c) \/ Judge(c)
Work(c) == (calls[c] > 0 /\ Scan(c)) \/ \E n \in 1 .. Calls : End(c, n)

Advance == /\ now < LastTick
           /\ now' = now + 1
           /\ UNCHANGED <<ahead, settings, fixed, watch, scanPool, at, terms, search, outcome>>

(* Somebody sets the wall clock. *)
SetClock == /\ settings < Settings
            /\ settings' = settings + 1
            /\ ahead' \in Ahead \ {ahead}
            /\ steady' = [c \in Callers |-> FALSE]
            /\ UNCHANGED <<now, fixed, watch, scanPool, at, kind, due, stamp, search, outcome>>

Next == \/ Advance \/ SetClock
        \/ \E c \in crew : Call(c) \/ Step(c)
        \/ Begin \/ \E c \in crew : Work(c)

Spec == Init /\ [][Next]_vars

(* A running thread takes its steps, and time passes.  That a job ever     *)
(* ends is assumed only where scans says so.                               *)
Fairness == /\ WF_vars(Advance)
            /\ \A c \in Callers : WF_vars(c \in crew /\ Step(c))
            /\ WF_vars(Begin) /\ \A c \in Callers : WF_vars(scans /\ c \in crew /\ Work(c))
FairSpec == Spec /\ Fairness

-----------------------------------------------------------------------------
Places == {"idle", "read", "arm", "clear", "activate", "spawn", "send", "put", "wait",
           "compare", "fire", "disarm", "look", "drop", "judge"}

TypeOK == /\ now \in 1 .. LastTick /\ ahead \in Int
          /\ crew \subseteq Callers
          /\ at \in [Callers -> Places]
          /\ kind \in [Callers -> {"until", "plain"}]
          /\ ret \in [Callers -> {"nothing", "solution", "none"}]
          /\ deadline \in Nat /\ {active, abort} \subseteq BOOLEAN

(* What a call returns is true: a solution was found and, for a caller     *)
(* that has the watch to itself while nobody sets the wall clock, nothing  *)
(* is returned only when the time was over, or when every job was scanned  *)
(* and none had a nonce: solve_until is not cut short by what an earlier   *)
(* call left behind in the watch or in the pool (lib.rs:106-154).          *)
Alone == Cardinality(crew) = 1
Exhausted(c) == taken[c] = Jobs /\ ~found[c]
ReturnIsTrue ==
  /\ TypeOK
  /\ \A c \in Callers :
       /\ ret[c] = "solution" => found[c]
       /\ Alone /\ steady[c] /\ kind[c] = "until" /\ ret[c] = "none" => now >= due[c] \/ Exhausted(c)

(* A call of solve_until that has the watch to itself and waits ends, even *)
(* if none of its jobs ever does: unless its time was over by the epoch,   *)
(* which arms no deadline, or the clock is set (lib.rs:123-127, 168-203,   *)
(* scan.rs:425-438).  While it hands over its jobs nothing of the kind     *)
(* holds: it does not look at the watch there (scan.rs:402-422).           *)
Waiting(c) == at[c] \in {"wait", "compare", "fire", "disarm", "look"}
Timed(c) == Waiting(c) /\ kind[c] = "until" /\ deadline # 0 /\ steady[c]
UntilEnds == (Alone /\ \E c \in crew : Timed(c)) ~> \A c \in crew : ~Timed(c)

(* Every call ends, whatever is found and whatever time it is, where jobs  *)
(* do and the callers are too few to fill the threads with tasks that wait *)
(* for the next ones to be handed over (scan.rs:370-400): the channel      *)
(* moves on as long as one thread has a task whose caller is past that.    *)
Few == (Cardinality(crew) - 1) * (Tasks - 1) < Threads
Runs(c) == scans /\ Few /\ at[c] # "idle"
CallsEnd == \A c \in Callers : Runs(c) ~> at[c] = "idle"
=============================================================================
