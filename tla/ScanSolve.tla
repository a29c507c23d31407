------------------------------ MODULE ScanSolve ------------------------------
(***************************************************************************)
(* One call of width_solve_until (challenge-solver/src/scan.rs): the nonce *)
(* range is cut into jobs in ascending order; the caller sends them down a *)
(* bounded channel to its workers until one of them has found a nonce,     *)
(* then waits for the workers to leave, or for the deadline watch to fire, *)
(* and returns the least nonce that was sent back.                         *)
(*                                                                         *)
(* A worker is a task that was handed to the one pool of the process and   *)
(* begins when a thread of the pool takes it, after the tasks of whatever  *)
(* other calls there are: when, or whether it does, is not this module's   *)
(* to say (DeadlineWatch has the pool).  The call begins here when all its *)
(* tasks are handed over.                                                  *)
(*                                                                         *)
(* A job stands for its chunk of nonces, and for the first nonce of the    *)
(* chunk that passes the test when it has one: the chunks are disjoint and *)
(* ascending, so jobs compare as their nonces do.  hits is the set of the  *)
(* jobs that have one; every set is an initial state.                      *)
(***************************************************************************)
EXTENDS Naturals, Sequences, FiniteSets, FiniteSetsExt

CONSTANTS NJobs,       \* jobs of all widths together
          Workers,     \* as many as the pool has threads
          ChanCap,     \* bound of the job channel: four jobs a worker
          WatchFires   \* whether the deadline watch may fire

ASSUME ScanAssumption == /\ NJobs \in Nat \ {0}
                         /\ IsFiniteSet(Workers) /\ Workers # {}
                         /\ ChanCap \in Nat \ {0}
                         /\ WatchFires \in BOOLEAN

VARIABLES hits,     \* the jobs that contain a solution (fixed)
          crew,     \* the workers the call is given (fixed)
          phase,    \* of the caller: "check", "send", "wait", "done"
          next,     \* the job it sends next
          chan,     \* the job channel
          found,    \* the atomic minimum, u64::MAX when nothing is found
          stop,
          abort,
          at,       \* at[w]: where the worker is
          job,      \* job[w]: the job in its hands
          results,  \* the nonces sent back
          done,     \* the workers that have left
          ret       \* what the caller returned

callerVars == <<phase, next, abort, ret>>
workerVars == <<at, job>>
given == <<hits, crew>>
vars == <<given, callerVars, chan, found, stop, workerVars, results, done>>

Jobs == 1 .. NJobs
NoNonce == NJobs + 1      \* u64::MAX
None == 0

Init == /\ hits \in SUBSET Jobs
        /\ crew \in (SUBSET Workers) \ {{}}
        /\ phase = "check"
        /\ next = 1
        /\ chan = <<>>
        /\ found = NoNonce
        /\ stop = FALSE
        /\ abort = FALSE
        /\ at = [w \in Workers |-> "queued"]
        /\ job = [w \in Workers |-> None]
        /\ results = {}
        /\ done = 0
        /\ ret = None

-----------------------------------------------------------------------------
(* The caller.  abort is its own flag: nobody but its wait loop sets it    *)
(* (DeadlineWatch::arm ignores the one it is given).                       *)

CheckFound == /\ phase = "check"
              /\ next <= NJobs
              /\ IF found # NoNonce
                 THEN stop' = TRUE /\ phase' = "wait"
                 ELSE phase' = "send" /\ UNCHANGED stop
              /\ UNCHANGED <<given, next, abort, ret, chan, found, workerVars, results, done>>

(* All jobs are sent: the channel is closed. *)
Close == /\ phase = "check"
         /\ next > NJobs
         /\ phase' = "wait"
         /\ UNCHANGED <<given, next, abort, ret, chan, found, stop, workerVars, results, done>>

Send == /\ phase = "send"
        /\ Len(chan) < ChanCap
        /\ chan' = Append(chan, next)
        /\ next' = next + 1
        /\ phase' = "check"
        /\ UNCHANGED <<given, abort, ret, found, stop, workerVars, results, done>>

Best == IF results = {} THEN None ELSE Min(results)

Collect == /\ phase = "wait"
           /\ done = Cardinality(crew)
           /\ phase' = "done"
           /\ ret' = Best
           /\ UNCHANGED <<given, next, abort, chan, found, stop, workerVars, results, done>>

TimeOut == /\ phase = "wait"
           /\ WatchFires
           /\ stop' = TRUE
           /\ abort' = TRUE
           /\ phase' = "done"
           /\ ret' = Best
           /\ UNCHANGED <<given, next, chan, found, workerVars, results, done>>

-----------------------------------------------------------------------------
(* A worker *)

Goto(w, from, to) == at[w] = from /\ at' = [at EXCEPT ![w] = to]

(* A thread of the pool takes the task. *)
Begin(w) == /\ Goto(w, "queued", "recv")
            /\ UNCHANGED <<given, callerVars, job, chan, found, stop, results, done>>

Take(w) == /\ Goto(w, "recv", "took")
           /\ chan # <<>>
           /\ job' = [job EXCEPT ![w] = Head(chan)]
           /\ chan' = Tail(chan)
           /\ UNCHANGED <<given, callerVars, found, stop, results, done>>

(* The channel is empty and closed. *)
Closed == phase \in {"wait", "done"} /\ chan = <<>>
Drained(w) == /\ Goto(w, "recv", "left")
              /\ Closed
              /\ UNCHANGED <<given, callerVars, job, chan, found, stop, results, done>>

(* Stopped, the worker leaves with the job it has just received. *)
CheckStop(w) == /\ Goto(w, "took", IF stop THEN "left" ELSE "kept")
                /\ UNCHANGED <<given, callerVars, job, chan, found, stop, results, done>>

(* A chunk above what is found is skipped. *)
CheckBase(w) ==
  /\ Goto(w, "kept", IF found # NoNonce /\ job[w] > found THEN "recv" ELSE "scan")
  /\ UNCHANGED <<given, callerVars, job, chan, found, stop, results, done>>

(* The scan finds the first nonce of its chunk that passes, if any. *)
Hit(j) == j \in hits

(* The scan, and the look at found after it. *)
Scan(w) == /\ Goto(w, "scan", IF Hit(job[w]) /\ job[w] < found THEN "hit" ELSE "recv")
           /\ UNCHANGED <<given, callerVars, job, chan, found, stop, results, done>>

(* Mutant: a plain store instead of fetch_min. *)
StoreFound(w) == /\ Goto(w, "hit", "publish")
                 /\ found' = job[w]
                 /\ UNCHANGED <<given, callerVars, job, chan, stop, results, done>>

FetchMin(w) == /\ Goto(w, "hit", "publish")
               /\ found' = Min({found, job[w]})
               /\ UNCHANGED <<given, callerVars, job, chan, stop, results, done>>

Publish(w) == /\ Goto(w, "publish", "recv")
              /\ results' = results \cup {job[w]}
              /\ UNCHANGED <<given, callerVars, job, chan, found, stop, done>>

Leave(w) == /\ Goto(w, "left", "gone")
            /\ done' = done + 1
            /\ UNCHANGED <<given, callerVars, job, chan, found, stop, results>>

-----------------------------------------------------------------------------
Caller == CheckFound \/ Close \/ Send \/ Collect
Worker(w) == \/ Begin(w) \/ Take(w) \/ Drained(w) \/ CheckStop(w) \/ CheckBase(w)
             \/ Scan(w) \/ FetchMin(w) \/ Publish(w) \/ Leave(w)

Next == Caller \/ TimeOut \/ \E w \in crew : Worker(w)

Spec == Init /\ [][Next]_vars

-----------------------------------------------------------------------------
TypeOK == /\ hits \subseteq Jobs
          /\ crew \subseteq Workers /\ crew # {}
          /\ phase \in {"check", "send", "wait", "done"}
          /\ next \in 1 .. NJobs + 1
          /\ chan \in Seq(Jobs) /\ Len(chan) <= ChanCap
          /\ found \in 1 .. NoNonce
          /\ stop \in BOOLEAN /\ abort \in BOOLEAN
          /\ at \in [Workers -> {"queued", "recv", "took", "kept", "scan", "hit", "publish", "left", "gone"}]
          /\ job \in [Workers -> Jobs \cup {None}]
          /\ results \subseteq Jobs
          /\ done \in 0 .. Cardinality(Workers)
          /\ ret \in Jobs \cup {None}

(* A call that no deadline cut short returns a nonce whenever there is     *)
(* one, and it is the least any worker found: what stop and the skipped    *)
(* chunks lose is never the only one, and nothing is still on its way when *)
(* the results are collected (scan.rs:378-391, 426-445).  The nonce        *)
(* returned need not be the least, since the workers that see stop drop    *)
(* the job in their hands, but each of the others misses at most one.      *)
Finished == phase = "done" /\ ~abort
Missed == {j \in hits : j < ret}
ReturnsFound ==
  /\ TypeOK
  /\ Finished => /\ IF hits = {} THEN ret = None ELSE ret = found /\ ret \in hits
                 /\ Cardinality(Missed) < Cardinality(crew)

(* The nonce does not depend on the number of workers: it is the least.    *)
LeastNonce == Finished /\ hits # {} => ret = Min(hits)
=============================================================================
