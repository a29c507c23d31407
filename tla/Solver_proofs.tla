---------------------------- MODULE Solver_proofs ----------------------------
(***************************************************************************)
(* The challenge solver and what stands around it once in a process, for   *)
(* every value of the constants.                                           *)
(*                                                                         *)
(* One scan (ScanSolve): a call that no deadline cut short returns a nonce *)
(* whenever there is one, the least that any worker found, and fewer       *)
(* nonces are missed than there are workers.                               *)
(*                                                                         *)
(* The statics (MCSolverStatics), which share no variable with a scan nor  *)
(* with each other: the bridge, the deadline watch, the answer cache and   *)
(* the watch over builds, each with an invariant of its own that all steps *)
(* of StaticsSpec keep, whoever's they are.                                *)
(***************************************************************************)
EXTENDS ScanSolve, MCSolverStatics, FiniteSetTheorems, SequenceTheorems, WellFoundedInduction, TLAPS

-----------------------------------------------------------------------------
(* One scan *)

(* The jobs go down the channel in order: those below FirstLeft have been  *)
(* taken, by one worker each, and no other.                                *)
FirstLeft == next - Len(chan)

InOrder == /\ FirstLeft \in Nat
           /\ \A i \in 1 .. Len(chan) : chan[i] = FirstLeft + i - 1
           /\ \A w \in crew : job[w] < FirstLeft
           /\ \A w \in crew : at[w] \notin {"queued", "recv", "left", "gone"} => job[w] \in Jobs
           /\ \A w \in crew : at[w] \in {"hit", "publish"} => job[w] \in hits

(* The caller stops sending when something was found, when all is sent, or *)
(* at the deadline; a worker leaves when it is told to stop or when        *)
(* nothing is left.                                                        *)
StopsForAReason ==
  /\ phase = "send" => next <= NJobs
  /\ stop => found # NoNonce \/ abort
  /\ abort => phase = "done"
  /\ phase \in {"wait", "done"} /\ ~stop => next = NJobs + 1
  /\ \A w \in crew : at[w] \in {"left", "gone"} => stop \/ Closed

(* What was found was sent back or is about to be, and nothing below it;   *)
(* and the worker that found it holds no job below it since.               *)
FoundIsSent ==
  /\ results \subseteq hits
  /\ \A j \in results : found <= j
  /\ \A w \in crew : at[w] = "publish" => found <= job[w]
  /\ found # NoNonce =>
       /\ found \in hits /\ found < FirstLeft
       /\ found \in results \/ \E w \in crew : at[w] = "publish" /\ job[w] = found
       /\ \E w \in crew : found <= job[w]

(* A nonce below what was found is still to come, in some worker's hands,  *)
(* or was dropped by a worker that was told to stop with it in its hands.  *)
Holds(w) == \/ at[w] \in {"took", "kept", "scan", "hit"}
            \/ stop /\ at[w] \in {"left", "gone"}
NoneForgotten ==
  \A j \in hits : j < found => j >= FirstLeft \/ \E w \in crew : job[w] = j /\ Holds(w)

(* The workers that have left are counted, and the caller returns on its   *)
(* own after all of them.                                                  *)
Gone == {w \in crew : at[w] = "gone"}
ReturnsLast ==
  /\ done = Cardinality(Gone)
  /\ Finished => Gone = crew /\ ret = Best

ScanInv == TypeOK /\ InOrder /\ StopsForAReason /\ FoundIsSent /\ NoneForgotten /\ ReturnsLast

-----------------------------------------------------------------------------
LEMMA LeastExists ==
  ASSUME NEW S \in SUBSET Nat, S # {}
  PROVE  \E x \in S : \A y \in S : x <= y
<1> DEFINE R == OpToRel(<, Nat)
<1>1. \E x \in S : \A y \in S : <<y, x>> \notin R
  <2> HIDE DEF R
  <2>1. IsWellFoundedOn(R, Nat)
    BY NatLessThanWellFounded DEF R
  <2>2. QED
    BY <2>1, WFMin
<1>2. \A x, y \in Nat : y < x => <<y, x>> \in R
  BY DEF OpToRel
<1> HIDE DEF R
<1>3. PICK x \in S : \A y \in S : <<y, x>> \notin R
  BY <1>1
<1>4. \A y \in S : y \in Nat /\ x \in Nat /\ ~(y < x)
  BY <1>2, <1>3
<1>5. QED
  BY <1>4

LEMMA MinIsLeast ==
  ASSUME NEW S \in SUBSET Nat, NEW x \in S, \A y \in S : x <= y
  PROVE  Min(S) = x
<1>1. \A y \in S : y \in Nat
  OBVIOUS
<1>2. ASSUME NEW z \in S, \A y \in S : z <= y PROVE z = x
  BY <1>1, <1>2
<1>3. QED
  BY <1>2 DEF Min

LEMMA MinOfTwo ==
  ASSUME NEW x \in Nat, NEW y \in Nat
  PROVE  Min({x, y}) = IF x <= y THEN x ELSE y
<1>1. CASE x <= y
  BY <1>1, MinIsLeast
<1>2. CASE ~(x <= y)
  BY <1>2, MinIsLeast
<1>3. QED
  BY <1>1, <1>2

LEMMA Finite == IsFiniteSet(Workers) /\ NJobs \in Nat \ {0} /\ ChanCap \in Nat \ {0} /\ WatchFires \in BOOLEAN
BY ScanAssumption

(* Where nobody is gone, nobody is counted. *)
LEMMA ScanInit == Init => ScanInv
<1> SUFFICES ASSUME Init PROVE ScanInv
  OBVIOUS
<1>1. TypeOK
  <2>1. Cardinality(Workers) \in Nat
    BY Finite, FS_CardinalityType
  <2>2. chan \in Seq(Jobs) /\ Len(chan) = 0
    BY EmptySeq DEF Init
  <2>3. at \in [Workers -> {"queued", "recv", "took", "kept", "scan", "hit", "publish", "left", "gone"}]
    BY DEF Init
  <2>4. job \in [Workers -> Jobs \cup {None}]
    BY DEF Init
  <2>5. crew \subseteq Workers /\ crew # {} /\ hits \subseteq Jobs
    <3>1. crew \in SUBSET Workers /\ crew \notin {{}}
      BY DEF Init
    <3>2. hits \in SUBSET Jobs
      BY DEF Init
    <3>3. QED
      BY <3>1, <3>2
  <2>6. next \in 1 .. NJobs + 1 /\ found \in 1 .. NoNonce /\ done \in 0 .. Cardinality(Workers) /\ Len(chan) <= ChanCap
    BY <2>1, <2>2, Finite DEF Init, NoNonce
  <2>7. QED
    BY <2>2, <2>3, <2>4, <2>5, <2>6 DEF Init, TypeOK
<1>2. InOrder
  BY Finite, EmptySeq DEF Init, InOrder, FirstLeft, None
<1>3. StopsForAReason /\ FoundIsSent
  BY Finite DEF Init, StopsForAReason, FoundIsSent, NoNonce
<1>4. NoneForgotten
  BY Finite, EmptySeq DEF Init, NoneForgotten, FirstLeft, Jobs
<1>5. ReturnsLast
  <2>1. Gone = {}
    BY DEF Init, Gone
  <2>2. QED
    BY <2>1, FS_EmptySet DEF Init, ReturnsLast, Finished
<1>6. QED
  BY <1>1, <1>2, <1>3, <1>4, <1>5 DEF ScanInv

(* A step after which everybody has left that had left before. *)
LEMMA GoneStays ==
  ASSUME ScanInv, UNCHANGED <<crew, done>>, Gone' = Gone, ~Finished'
  PROVE  ReturnsLast'
BY DEF ScanInv, ReturnsLast

(* While the call is not done, it is not finished. *)
LEMMA CheckFoundStep ==
  ASSUME ScanInv, CheckFound
  PROVE  ScanInv'
<1> USE DEF CheckFound, given, workerVars
<1>1. TypeOK'
  BY DEF ScanInv, TypeOK
<1>2. InOrder'
  BY DEF ScanInv, InOrder, FirstLeft
<1>3. StopsForAReason'
  BY DEF ScanInv, StopsForAReason, Closed
<1>4. FoundIsSent'
  BY DEF ScanInv, FoundIsSent, FirstLeft
<1>5. NoneForgotten'
  BY DEF ScanInv, NoneForgotten, FirstLeft, Holds
<1>6. ReturnsLast'
  BY GoneStays DEF Gone, Finished
<1>7. QED
  BY <1>1, <1>2, <1>3, <1>4, <1>5, <1>6 DEF ScanInv

LEMMA CloseStep ==
  ASSUME ScanInv, Close
  PROVE  ScanInv'
<1> USE DEF Close, given, workerVars
<1>1. TypeOK'
  BY DEF ScanInv, TypeOK
<1>2. InOrder'
  BY DEF ScanInv, InOrder, FirstLeft
<1>3. StopsForAReason'
  BY Finite DEF ScanInv, TypeOK, StopsForAReason, Closed
<1>4. FoundIsSent'
  BY DEF ScanInv, FoundIsSent, FirstLeft
<1>5. NoneForgotten'
  BY DEF ScanInv, NoneForgotten, FirstLeft, Holds
<1>6. ReturnsLast'
  BY GoneStays DEF Gone, Finished
<1>7. QED
  BY <1>1, <1>2, <1>3, <1>4, <1>5, <1>6 DEF ScanInv

(* The job that is sent goes behind those that are left. *)
LEMMA SendStep ==
  ASSUME ScanInv, Send
  PROVE  ScanInv'
<1> USE DEF Send, given, workerVars
<1>1. /\ chan \in Seq(Jobs) /\ next \in Jobs /\ Len(chan) \in Nat /\ next \in Nat
      /\ chan' = Append(chan, next) /\ next' = next + 1
  BY Finite, LenProperties DEF ScanInv, TypeOK, StopsForAReason, Jobs
<1>2. /\ chan' \in Seq(Jobs) /\ Len(chan') = Len(chan) + 1
      /\ \A i \in 1 .. Len(chan) : chan'[i] = chan[i]
      /\ chan'[Len(chan) + 1] = next
  BY <1>1, AppendProperties
<1>3. FirstLeft' = FirstLeft
  BY <1>1, <1>2 DEF FirstLeft
<1>4. TypeOK'
  <2>1. next' \in 1 .. NJobs + 1
    BY <1>1, Finite DEF Jobs
  <2>2. Len(chan') <= ChanCap
    BY <1>1, <1>2, Finite
  <2>3. QED
    BY <1>2, <2>1, <2>2 DEF ScanInv, TypeOK
<1>5. InOrder'
  <2>1. /\ FirstLeft \in Nat /\ \A i \in 1 .. Len(chan) : chan[i] = FirstLeft + i - 1
    BY DEF ScanInv, InOrder
  <2>2. \A i \in 1 .. Len(chan') : chan'[i] = FirstLeft' + i - 1
    BY <1>1, <1>2, <1>3, <2>1 DEF FirstLeft
  <2>3. QED
    BY <1>3, <2>1, <2>2 DEF ScanInv, InOrder
<1>6. StopsForAReason'
  BY DEF ScanInv, StopsForAReason, Closed
<1>7. FoundIsSent'
  BY <1>3 DEF ScanInv, FoundIsSent
<1>8. NoneForgotten'
  BY <1>3 DEF ScanInv, NoneForgotten, Holds
<1>9. ReturnsLast'
  BY GoneStays DEF Gone, Finished
<1>10. QED
  BY <1>4, <1>5, <1>6, <1>7, <1>8, <1>9 DEF ScanInv

(* Best is none of the jobs, or one that was sent back. *)
LEMMA BestTyped ==
  ASSUME TypeOK
  PROVE  Best \in Jobs \cup {None}
<1>1. CASE results = {}
  BY <1>1 DEF Best
<1>2. CASE results # {}
  <2>1. results \in SUBSET Nat /\ IsFiniteSet(results)
    <3>1. IsFiniteSet(Jobs)
      BY Finite, FS_Interval DEF Jobs
    <3>2. results \in SUBSET Jobs
      BY DEF TypeOK
    <3>3. IsFiniteSet(results)
      BY <3>1, <3>2, FS_Subset
    <3>4. QED
      BY <3>2, <3>3 DEF Jobs
  <2>2. PICK x \in results : \A y \in results : x <= y
    BY <1>2, <2>1, LeastExists
  <2>3. Min(results) = x
    BY <2>1, <2>2, MinIsLeast
  <2>4. QED
    BY <1>2, <2>2, <2>3 DEF Best, TypeOK
<1>3. QED
  BY <1>1, <1>2

(* All have left: what was found was sent back, and if nothing was found   *)
(* nothing was sent back.                                                  *)
LEMMA CollectStep ==
  ASSUME ScanInv, Collect
  PROVE  ScanInv'
<1> USE DEF Collect, given, workerVars
<1>1. Gone = crew
  <2>1. IsFiniteSet(crew) /\ Gone \in SUBSET crew
    BY Finite, FS_Subset DEF ScanInv, TypeOK, Gone
  <2>2. Cardinality(Gone) = Cardinality(crew)
    BY DEF ScanInv, ReturnsLast
  <2>3. QED
    BY <2>1, <2>2, FS_Subset
<1>2. TypeOK'
  <2>1. Best \in Jobs \cup {None}
    BY BestTyped DEF ScanInv
  <2>2. QED
    BY <2>1 DEF ScanInv, TypeOK
<1>3. InOrder'
  BY DEF ScanInv, InOrder, FirstLeft
<1>4. StopsForAReason'
  BY DEF ScanInv, StopsForAReason, Closed
<1>5. FoundIsSent'
  BY DEF ScanInv, FoundIsSent, FirstLeft
<1>6. NoneForgotten'
  BY DEF ScanInv, NoneForgotten, FirstLeft, Holds
<1>7. ReturnsLast'
  BY <1>1 DEF ScanInv, ReturnsLast, Gone, Finished, Best
<1>8. QED
  BY <1>2, <1>3, <1>4, <1>5, <1>6, <1>7 DEF ScanInv

LEMMA TimeOutStep ==
  ASSUME ScanInv, TimeOut
  PROVE  ScanInv'
<1> USE DEF TimeOut, given, workerVars
<1>1. TypeOK'
  <2>1. Best \in Jobs \cup {None}
    BY BestTyped DEF ScanInv
  <2>2. QED
    BY <2>1 DEF ScanInv, TypeOK
<1>2. InOrder'
  BY DEF ScanInv, InOrder, FirstLeft
<1>3. StopsForAReason'
  BY DEF ScanInv, StopsForAReason, Closed
<1>4. FoundIsSent'
  BY DEF ScanInv, FoundIsSent, FirstLeft
<1>5. NoneForgotten'
  BY DEF ScanInv, NoneForgotten, FirstLeft, Holds
<1>6. ReturnsLast'
  BY GoneStays DEF Gone, Finished
<1>7. QED
  BY <1>1, <1>2, <1>3, <1>4, <1>5, <1>6 DEF ScanInv

-----------------------------------------------------------------------------
(* The workers *)

(* Where a worker goes, it alone goes. *)
LEMMA GotoMoves ==
  ASSUME TypeOK, NEW w \in crew, NEW a, NEW b, Goto(w, a, b),
         b \in {"queued", "recv", "took", "kept", "scan", "hit", "publish", "left", "gone"}
  PROVE  /\ at[w] = a /\ at'[w] = b
         /\ \A v \in crew \ {w} : at'[v] = at[v]
         /\ at' \in [Workers -> {"queued", "recv", "took", "kept", "scan", "hit", "publish", "left", "gone"}]
BY DEF Goto, TypeOK

(* A worker that is not gone and does not go: nobody returns meanwhile.    *)
LEMMA WorkerReturnsLast ==
  ASSUME ScanInv, NEW w \in crew, at[w] # "gone", at'[w] # "gone",
         \A v \in crew \ {w} : at'[v] = at[v], UNCHANGED <<crew, done, phase, abort>>
  PROVE  ReturnsLast'
<1>1. Gone' = Gone
  BY DEF Gone
<1>2. ~Finished
  BY DEF ScanInv, ReturnsLast, Gone
<1>3. ~Finished'
  BY <1>2 DEF Finished
<1>4. QED
  BY <1>1, <1>3, GoneStays

(* The next job is above everything that was taken, or found, before. *)
LEMMA TakeStep ==
  ASSUME ScanInv, NEW w \in crew, Take(w)
  PROVE  ScanInv'
<1> USE DEF Take, given, callerVars
<1>1. /\ chan \in Seq(Jobs) /\ chan # <<>> /\ Len(chan) \in Nat /\ Len(chan) > 0
      /\ next \in Nat /\ FirstLeft \in Nat /\ chan' = Tail(chan) /\ next' = next
  <2>1. Len(chan) \in Nat /\ Len(chan) > 0
    BY LenProperties, EmptySeq DEF ScanInv, TypeOK
  <2>2. QED
    BY <2>1, Finite DEF ScanInv, TypeOK, InOrder
<1>2. /\ Head(chan) = FirstLeft /\ Head(chan) \in Jobs
      /\ chan' \in Seq(Jobs) /\ Len(chan') = Len(chan) - 1
      /\ \A i \in 1 .. Len(chan') : chan'[i] = chan[i + 1]
  <2>1. /\ chan' \in Seq(Jobs) /\ Len(chan') = Len(chan) - 1 /\ Head(chan) \in Jobs
        /\ \A i \in 1 .. Len(chan') : chan'[i] = chan[i + 1]
    BY <1>1, HeadTailProperties
  <2>2. Head(chan) = chan[1] /\ chan[1] = FirstLeft + 1 - 1
    <3>1. \A i \in 1 .. Len(chan) : chan[i] = FirstLeft + i - 1
      BY DEF ScanInv, InOrder
    <3>2. Len(chan) \in Nat \ {0} /\ Head(chan) = chan[1]
      BY <1>1
    <3>3. QED
      BY <3>1, <3>2
  <2>3. QED
    BY <1>1, <2>1, <2>2
<1>3. FirstLeft' = FirstLeft + 1
  BY <1>1, <1>2 DEF FirstLeft
<1>4. /\ at[w] = "recv" /\ at'[w] = "took" /\ \A v \in crew \ {w} : at'[v] = at[v]
      /\ at' \in [Workers -> {"queued", "recv", "took", "kept", "scan", "hit", "publish", "left", "gone"}]
  BY GotoMoves DEF ScanInv
<1>5. /\ job' \in [Workers -> Jobs \cup {None}]
      /\ job'[w] = FirstLeft /\ \A v \in crew \ {w} : job'[v] = job[v]
  BY <1>2 DEF ScanInv, TypeOK
<1>6. \A v \in crew : job[v] \in Nat
  BY Finite DEF ScanInv, TypeOK, Jobs, None
<1>7. TypeOK'
  BY <1>1, <1>2, <1>4, <1>5, Finite DEF ScanInv, TypeOK
<1>8. InOrder'
  <2>1. ASSUME NEW i \in 1 .. Len(chan') PROVE chan'[i] = FirstLeft' + i - 1
    <3>1. i \in Nat /\ i + 1 \in 1 .. Len(chan) /\ chan'[i] = chan[i + 1]
      BY <1>1, <1>2
    <3>2. chan[i + 1] = FirstLeft + (i + 1) - 1
      BY <3>1 DEF ScanInv, InOrder
    <3>3. QED
      BY <1>1, <1>3, <3>1, <3>2
  <2>2. \A v \in crew : job'[v] < FirstLeft'
    BY <1>1, <1>3, <1>5, <1>6 DEF ScanInv, InOrder
  <2>3. \A v \in crew : at'[v] \notin {"queued", "recv", "left", "gone"} => job'[v] \in Jobs
    BY <1>2, <1>4, <1>5 DEF ScanInv, InOrder
  <2>4. \A v \in crew : at'[v] \in {"hit", "publish"} => job'[v] \in hits
    BY <1>4, <1>5 DEF ScanInv, InOrder
  <2>5. FirstLeft' \in Nat
    BY <1>1, <1>3
  <2>6. QED
    BY <2>1, <2>2, <2>3, <2>4, <2>5 DEF InOrder
<1>9. StopsForAReason'
  BY <1>1, <1>4 DEF ScanInv, StopsForAReason, Closed
<1>10. found \in Nat
  BY Finite DEF ScanInv, TypeOK, NoNonce
<1>11. FoundIsSent'
  <2>1. found # NoNonce => found < FirstLeft' /\ \E v \in crew : found <= job'[v]
    BY <1>1, <1>3, <1>5, <1>10 DEF ScanInv, FoundIsSent
  <2>2. found # NoNonce => found \in results \/ \E v \in crew : at'[v] = "publish" /\ job'[v] = found
    BY <1>4, <1>5 DEF ScanInv, FoundIsSent
  <2>3. \A v \in crew : at'[v] = "publish" => found <= job'[v]
    BY <1>4, <1>5 DEF ScanInv, FoundIsSent
  <2>4. QED
    BY <2>1, <2>2, <2>3 DEF ScanInv, FoundIsSent
<1>12. NoneForgotten'
  <2> SUFFICES ASSUME NEW j \in hits, j < found
               PROVE  j >= FirstLeft' \/ \E v \in crew : job'[v] = j /\ Holds(v)'
    BY DEF NoneForgotten
  <2>1. j \in Nat
    BY DEF ScanInv, TypeOK, Jobs
  <2>2. CASE j >= FirstLeft
    BY <1>1, <1>3, <1>4, <1>5, <2>1, <2>2 DEF Holds
  <2>3. CASE \E v \in crew : job[v] = j /\ Holds(v)
    BY <1>4, <1>5, <2>3 DEF Holds
  <2>4. QED
    BY <2>2, <2>3 DEF ScanInv, NoneForgotten
<1>13. ReturnsLast'
  BY <1>4, WorkerReturnsLast
<1>14. QED
  BY <1>7, <1>8, <1>9, <1>11, <1>12, <1>13 DEF ScanInv

(* A step of a worker that takes nothing, finds nothing and sends nothing. *)
LEMMA WorkerMoves ==
  ASSUME ScanInv, NEW w \in crew, NEW a, NEW b, Goto(w, a, b),
         b \in {"recv", "kept", "scan", "hit", "left"}, a # "publish", a # "gone",
         UNCHANGED <<given, callerVars, job, chan, found, stop, results, done>>,
         b \in {"kept", "scan", "hit"} => a \in {"took", "kept", "scan"},
         b = "hit" => job[w] \in hits,
         b = "left" => stop \/ Closed,
         Holds(w) => Holds(w)' \/ job[w] \notin hits \/ job[w] >= found
  PROVE  ScanInv'
<1> USE DEF given, callerVars
<1>1. /\ at[w] = a /\ at'[w] = b /\ \A v \in crew \ {w} : at'[v] = at[v]
      /\ at' \in [Workers -> {"queued", "recv", "took", "kept", "scan", "hit", "publish", "left", "gone"}]
  BY GotoMoves DEF ScanInv
<1>2. TypeOK'
  BY <1>1 DEF ScanInv, TypeOK
<1>3. InOrder'
  <2>1. b \notin {"queued", "recv", "left", "gone"} => job[w] \in Jobs
    BY <1>1 DEF ScanInv, InOrder
  <2>2. QED
    BY <1>1, <2>1 DEF ScanInv, InOrder, FirstLeft
<1>4. StopsForAReason'
  BY <1>1 DEF ScanInv, StopsForAReason, Closed
<1>5. FoundIsSent'
  BY <1>1 DEF ScanInv, FoundIsSent, FirstLeft
<1>6. NoneForgotten'
  <2> SUFFICES ASSUME NEW j \in hits, j < found, ~(j >= FirstLeft)
               PROVE  \E v \in crew : job[v] = j /\ Holds(v)'
    BY DEF NoneForgotten, FirstLeft
  <2>1. PICK v \in crew : job[v] = j /\ Holds(v)
    BY DEF ScanInv, NoneForgotten
  <2>2. j \in Nat /\ found \in Nat
    BY Finite DEF ScanInv, TypeOK, Jobs, NoNonce
  <2>3. CASE v = w
    BY <2>1, <2>2, <2>3
  <2>4. CASE v # w
    BY <1>1, <2>1, <2>4 DEF Holds
  <2>5. QED
    BY <2>3, <2>4
<1>7. ReturnsLast'
  BY <1>1, WorkerReturnsLast
<1>8. QED
  BY <1>2, <1>3, <1>4, <1>5, <1>6, <1>7 DEF ScanInv

LEMMA BeginStep ==
  ASSUME ScanInv, NEW w \in crew, Begin(w)
  PROVE  ScanInv'
<1>1. Goto(w, "queued", "recv") /\ ~Holds(w)
  BY DEF Begin, Goto, Holds
<1>2. QED
  BY <1>1, WorkerMoves DEF Begin

LEMMA DrainedStep ==
  ASSUME ScanInv, NEW w \in crew, Drained(w)
  PROVE  ScanInv'
<1>1. Goto(w, "recv", "left") /\ Closed /\ ~Holds(w)
  BY DEF Drained, Goto, Holds
<1>2. QED
  BY <1>1, WorkerMoves DEF Drained

LEMMA CheckStopStep ==
  ASSUME ScanInv, NEW w \in crew, CheckStop(w)
  PROVE  ScanInv'
<1> DEFINE b == IF stop THEN "left" ELSE "kept"
<1>1. Goto(w, "took", b) /\ b \in {"left", "kept"} /\ (b = "left" => stop)
  BY DEF CheckStop
<1>2. Holds(w)'
  BY GotoMoves DEF CheckStop, Holds, ScanInv
<1>3. QED
  BY <1>1, <1>2, WorkerMoves DEF CheckStop

LEMMA CheckBaseStep ==
  ASSUME ScanInv, NEW w \in crew, CheckBase(w)
  PROVE  ScanInv'
<1> DEFINE b == IF found # NoNonce /\ job[w] > found THEN "recv" ELSE "scan"
<1>1. Goto(w, "kept", b) /\ b \in {"recv", "scan"} /\ at'[w] = b
  BY GotoMoves DEF CheckBase, ScanInv
<1>2. job[w] \in Nat /\ found \in Nat
  BY Finite DEF ScanInv, TypeOK, Jobs, None, NoNonce
<1>3. Holds(w)' \/ job[w] >= found
  BY <1>1, <1>2 DEF Holds
<1>4. QED
  BY <1>1, <1>3, WorkerMoves DEF CheckBase

LEMMA ScanStep ==
  ASSUME ScanInv, NEW w \in crew, Scan(w)
  PROVE  ScanInv'
<1> DEFINE b == IF Hit(job[w]) /\ job[w] < found THEN "hit" ELSE "recv"
<1>1. Goto(w, "scan", b) /\ b \in {"recv", "hit"} /\ at'[w] = b
  BY GotoMoves DEF Scan, ScanInv
<1>2. job[w] \in Nat /\ found \in Nat
  BY Finite DEF ScanInv, TypeOK, Jobs, None, NoNonce
<1>3. b = "hit" => job[w] \in hits
  BY DEF Hit
<1>4. Holds(w)' \/ job[w] \notin hits \/ job[w] >= found
  BY <1>1, <1>2 DEF Holds, Hit
<1>5. QED
  BY <1>1, <1>3, <1>4, WorkerMoves DEF Scan

(* fetch_min: the worker that lowers the minimum is the one to send it. *)
LEMMA FetchMinStep ==
  ASSUME ScanInv, NEW w \in crew, FetchMin(w)
  PROVE  ScanInv'
<1> USE DEF FetchMin, given, callerVars
<1>1. /\ at[w] = "hit" /\ at'[w] = "publish" /\ \A v \in crew \ {w} : at'[v] = at[v]
      /\ at' \in [Workers -> {"queued", "recv", "took", "kept", "scan", "hit", "publish", "left", "gone"}]
  BY GotoMoves DEF ScanInv
<1>2. job[w] \in hits /\ job[w] \in Jobs /\ job[w] \in Nat /\ found \in Nat /\ job[w] < FirstLeft
  BY <1>1, Finite DEF ScanInv, TypeOK, InOrder, Jobs, NoNonce
<1>3. /\ found' = IF found <= job[w] THEN found ELSE job[w]
      /\ found' \in Nat /\ found' <= found /\ found' <= job[w]
  BY <1>2, MinOfTwo
<1>4. TypeOK'
  <2>1. found' \in 1 .. NoNonce
    <3>1. found \in 1 .. NJobs + 1 /\ job[w] \in 1 .. NJobs
      BY <1>2 DEF ScanInv, TypeOK, Jobs, NoNonce
    <3>2. QED
      BY <1>3, <3>1, Finite DEF NoNonce
  <2>2. QED
    BY <1>1, <2>1 DEF ScanInv, TypeOK
<1>5. InOrder'
  BY <1>1, <1>2 DEF ScanInv, InOrder, FirstLeft
<1>6. found' # NoNonce
  BY <1>2, <1>3, Finite DEF Jobs, NoNonce
<1>7. StopsForAReason'
  BY <1>1, <1>6 DEF ScanInv, StopsForAReason, Closed
<1>8. FoundIsSent'
  <2>1. \A v \in crew : job[v] \in Nat
    BY Finite DEF ScanInv, TypeOK, Jobs, None
  <2>2. \A j \in results : j \in Nat
    BY DEF ScanInv, TypeOK, Jobs
  <2>3. \A j \in results : found' <= j
    BY <1>2, <1>3, <2>2 DEF ScanInv, FoundIsSent
  <2>4. \A v \in crew : at'[v] = "publish" => found' <= job[v]
    BY <1>1, <1>2, <1>3, <2>1 DEF ScanInv, FoundIsSent
  <2>5. CASE found' = job[w]
    BY <1>1, <1>2, <2>3, <2>4, <2>5 DEF ScanInv, FoundIsSent, FirstLeft
  <2>6. CASE found' = found /\ found # NoNonce
    <3>1. found \in results \/ \E v \in crew : at'[v] = "publish" /\ job[v] = found
      BY <1>1, <2>6 DEF ScanInv, FoundIsSent
    <3>2. QED
      BY <2>3, <2>4, <2>6, <3>1 DEF ScanInv, FoundIsSent, FirstLeft
  <2>7. QED
    BY <1>3, <1>6, <2>5, <2>6
<1>9. NoneForgotten'
  <2> SUFFICES ASSUME NEW j \in hits, j < found', ~(j >= FirstLeft)
               PROVE  \E v \in crew : job[v] = j /\ Holds(v)'
    BY DEF NoneForgotten, FirstLeft
  <2>1. j \in Nat
    BY DEF ScanInv, TypeOK, Jobs
  <2>2. j < found /\ j # job[w]
    BY <1>2, <1>3, <2>1
  <2>3. PICK v \in crew : job[v] = j /\ Holds(v)
    BY <2>2 DEF ScanInv, NoneForgotten
  <2>4. QED
    BY <1>1, <2>2, <2>3 DEF Holds
<1>10. ReturnsLast'
  BY <1>1, WorkerReturnsLast
<1>11. QED
  BY <1>4, <1>5, <1>7, <1>8, <1>9, <1>10 DEF ScanInv

LEMMA PublishStep ==
  ASSUME ScanInv, NEW w \in crew, Publish(w)
  PROVE  ScanInv'
<1> USE DEF Publish, given, callerVars
<1>1. /\ at[w] = "publish" /\ at'[w] = "recv" /\ \A v \in crew \ {w} : at'[v] = at[v]
      /\ at' \in [Workers -> {"queued", "recv", "took", "kept", "scan", "hit", "publish", "left", "gone"}]
  BY GotoMoves DEF ScanInv
<1>2. job[w] \in hits /\ job[w] \in Jobs /\ found <= job[w]
  BY <1>1 DEF ScanInv, TypeOK, InOrder, FoundIsSent
<1>3. TypeOK'
  BY <1>1, <1>2 DEF ScanInv, TypeOK
<1>4. InOrder'
  BY <1>1 DEF ScanInv, InOrder, FirstLeft
<1>5. StopsForAReason'
  BY <1>1 DEF ScanInv, StopsForAReason, Closed
<1>6. FoundIsSent'
  BY <1>1, <1>2 DEF ScanInv, FoundIsSent, FirstLeft
<1>7. NoneForgotten'
  BY <1>1 DEF ScanInv, NoneForgotten, Holds, FirstLeft
<1>8. ReturnsLast'
  BY <1>1, WorkerReturnsLast
<1>9. QED
  BY <1>3, <1>4, <1>5, <1>6, <1>7, <1>8 DEF ScanInv

LEMMA LeaveStep ==
  ASSUME ScanInv, NEW w \in crew, Leave(w)
  PROVE  ScanInv'
<1> USE DEF Leave, given, callerVars
<1>1. /\ at[w] = "left" /\ at'[w] = "gone" /\ \A v \in crew \ {w} : at'[v] = at[v]
      /\ at' \in [Workers -> {"queued", "recv", "took", "kept", "scan", "hit", "publish", "left", "gone"}]
  BY GotoMoves DEF ScanInv
<1>2. /\ Gone' = Gone \cup {w} /\ w \notin Gone /\ ~Finished
      /\ Gone' \in SUBSET Workers /\ IsFiniteSet(Gone)
  BY <1>1, Finite, FS_Subset DEF ScanInv, TypeOK, ReturnsLast, Gone
<1>3. done' = Cardinality(Gone')
  BY <1>2, FS_AddElement DEF ScanInv, ReturnsLast
<1>4. done' \in 0 .. Cardinality(Workers)
  <2>1. IsFiniteSet(Gone') /\ Cardinality(Gone') <= Cardinality(Workers)
    BY <1>2, Finite, FS_Subset
  <2>2. Cardinality(Gone') \in Nat /\ Cardinality(Workers) \in Nat
    BY <2>1, Finite, FS_CardinalityType
  <2>3. QED
    BY <1>3, <2>1, <2>2
<1>5. TypeOK'
  BY <1>1, <1>4 DEF ScanInv, TypeOK
<1>6. InOrder'
  BY <1>1 DEF ScanInv, InOrder, FirstLeft
<1>7. StopsForAReason'
  BY <1>1 DEF ScanInv, StopsForAReason, Closed
<1>8. FoundIsSent'
  BY <1>1 DEF ScanInv, FoundIsSent, FirstLeft
<1>9. NoneForgotten'
  BY <1>1 DEF ScanInv, NoneForgotten, Holds, FirstLeft
<1>10. ReturnsLast'
  BY <1>2, <1>3 DEF ReturnsLast, Finished
<1>11. QED
  BY <1>5, <1>6, <1>7, <1>8, <1>9, <1>10 DEF ScanInv

LEMMA ScanStays == ScanInv /\ [Next]_vars => ScanInv'
<1> SUFFICES ASSUME ScanInv, [Next]_vars PROVE ScanInv'
  OBVIOUS
<1>1. CASE Caller \/ TimeOut
  BY <1>1, CheckFoundStep, CloseStep, SendStep, CollectStep, TimeOutStep DEF Caller
<1>2. ASSUME NEW w \in crew, Worker(w) PROVE ScanInv'
  BY <1>2, BeginStep, TakeStep, DrainedStep, CheckStopStep, CheckBaseStep, ScanStep, FetchMinStep, PublishStep, LeaveStep
     DEF Worker
<1>3. CASE UNCHANGED vars
  <2> USE <1>3 DEF vars, given, callerVars, workerVars
  <2>1. TypeOK' /\ InOrder'
    BY DEF ScanInv, TypeOK, InOrder, FirstLeft
  <2>2. StopsForAReason' /\ FoundIsSent'
    BY DEF ScanInv, StopsForAReason, Closed, FoundIsSent, FirstLeft
  <2>3. NoneForgotten' /\ ReturnsLast'
    BY DEF ScanInv, NoneForgotten, Holds, FirstLeft, ReturnsLast, Gone, Finished, Best
  <2>4. QED
    BY <2>1, <2>2, <2>3 DEF ScanInv
<1>4. QED
  BY <1>1, <1>2, <1>3 DEF Next

-----------------------------------------------------------------------------
(* Each worker but the one that found the nonce dropped one job at most. *)
LEMMA FewMissed ==
  ASSUME ScanInv, Gone = crew, found # NoNonce
  PROVE  Cardinality({j \in hits : j < found}) < Cardinality(crew)
<1> DEFINE M == {j \in hits : j < found}
<1>1. PICK finder \in crew : found <= job[finder]
  BY DEF ScanInv, FoundIsSent
<1> DEFINE V == {w \in crew \ {finder} : job[w] \in M}
           f == [w \in V |-> job[w]]
<1>2. \A j \in hits : j \in Nat
  BY DEF ScanInv, TypeOK, Jobs
<1>3. found \in Nat /\ FirstLeft \in Nat /\ found < FirstLeft
  BY Finite DEF ScanInv, TypeOK, InOrder, FoundIsSent, NoNonce
<1>4. \A w \in crew : job[w] \in Nat
  BY Finite DEF ScanInv, TypeOK, Jobs, None
<1>5. ASSUME NEW j \in M PROVE \E w \in V : job[w] = j
  <2>1. \E w \in crew : job[w] = j
    BY <1>2, <1>3 DEF ScanInv, NoneForgotten
  <2>2. job[finder] # j
    BY <1>1, <1>2, <1>3, <1>4
  <2>3. QED
    BY <2>1, <2>2
<1>6. f \in Surjection(V, M)
  BY <1>5 DEF Surjection
<1>7. IsFiniteSet(crew)
  BY Finite, FS_Subset DEF ScanInv, TypeOK
<1>8. /\ IsFiniteSet(crew \ {finder})
      /\ Cardinality(crew \ {finder}) = Cardinality(crew) - 1
  BY <1>7, FS_RemoveElement
<1>9. IsFiniteSet(V) /\ Cardinality(V) <= Cardinality(crew \ {finder})
  BY <1>8, FS_Subset
<1> HIDE DEF V, f, M
<1>10. IsFiniteSet(M) /\ Cardinality(M) <= Cardinality(V)
  BY <1>6, <1>9, FS_Surjection
<1>11. /\ Cardinality(M) \in Nat /\ Cardinality(V) \in Nat
       /\ Cardinality(crew) \in Nat /\ Cardinality(crew \ {finder}) \in Nat
  BY <1>7, <1>8, <1>9, <1>10, FS_CardinalityType
<1>12. Cardinality(M) < Cardinality(crew)
  BY <1>8, <1>9, <1>10, <1>11
<1>13. QED
  BY <1>12 DEF M

(* Nothing found, nobody told to stop: every job was taken and given up on *)
(* its merits.                                                             *)
LEMMA NothingFoundNothingThere ==
  ASSUME ScanInv, Gone = crew, phase = "done", ~abort, found = NoNonce
  PROVE  hits = {} /\ results = {}
<1>1. ~stop /\ next = NJobs + 1
  BY DEF ScanInv, StopsForAReason
<1>2. chan = <<>>
  <2>1. PICK w \in crew : TRUE
    BY DEF ScanInv, TypeOK
  <2>2. at[w] = "gone"
    BY DEF Gone
  <2>3. QED
    BY <1>1, <2>2 DEF ScanInv, StopsForAReason, Closed
<1>3. FirstLeft = NJobs + 1
  BY <1>1, <1>2, Finite, EmptySeq DEF FirstLeft
<1>4. \A w \in crew : ~Holds(w)
  BY <1>1 DEF Holds, Gone
<1>5. ASSUME NEW j \in hits PROVE FALSE
  <2>1. j \in 1 .. NJobs /\ NJobs \in Nat
    BY Finite DEF ScanInv, TypeOK, Jobs
  <2>2. j < found /\ ~(j >= FirstLeft)
    BY <1>3, <2>1 DEF NoNonce
  <2>3. QED
    BY <1>4, <2>2 DEF ScanInv, NoneForgotten
<1>6. QED
  BY <1>5 DEF ScanInv, FoundIsSent

(* A call that no deadline cut short returns the least nonce that any      *)
(* worker found, none only where there is none, and misses fewer smaller   *)
(* ones than it has workers (scan.rs, width_solve_until).                  *)
THEOREM ReturnsWhatIsFound == Spec => []ReturnsFound
<1>1. ScanInv => ReturnsFound
  <2> SUFFICES ASSUME ScanInv PROVE ReturnsFound
    OBVIOUS
  <2>1. TypeOK
    BY DEF ScanInv
  <2>2. ASSUME Finished
        PROVE  /\ IF hits = {} THEN ret = None ELSE ret = found /\ ret \in hits
               /\ Cardinality(Missed) < Cardinality(crew)
    <3>1. Gone = crew /\ ret = Best /\ phase = "done" /\ ~abort
      BY <2>2 DEF ScanInv, ReturnsLast, Finished
    <3>2. CASE found = NoNonce
      <4>1. hits = {} /\ results = {}
        BY <3>1, <3>2, NothingFoundNothingThere
      <4>2. ret = None /\ Missed = {}
        BY <3>1, <4>1 DEF Best, Missed
      <4>3. IsFiniteSet(crew) /\ crew # {}
        BY Finite, FS_Subset DEF ScanInv, TypeOK
      <4>4. Cardinality(Missed) < Cardinality(crew)
        BY <4>2, <4>3, FS_EmptySet, FS_CardinalityType
      <4>5. QED
        BY <4>1, <4>2, <4>4
    <3>3. CASE found # NoNonce
      <4>1. found \in results /\ found \in hits
        BY <3>1, <3>3 DEF ScanInv, FoundIsSent, Gone
      <4>2. \A j \in results : found <= j
        BY DEF ScanInv, FoundIsSent
      <4>3. results \in SUBSET Nat
        BY DEF ScanInv, TypeOK, Jobs
      <4>4. ret = found
        BY <3>1, <4>1, <4>2, <4>3, MinIsLeast DEF Best
      <4>5. Cardinality(Missed) < Cardinality(crew)
        BY <3>1, <3>3, <4>4, FewMissed DEF Missed
      <4>6. QED
        BY <4>1, <4>4, <4>5
    <3>4. QED
      BY <3>2, <3>3
  <2>3. QED
    BY <2>1, <2>2 DEF ReturnsFound
<1>2. QED
  BY <1>1, ScanInit, ScanStays, PTL DEF Spec

-----------------------------------------------------------------------------
(* The bridge (FetchBridge) *)

(* Who is in the bridge has one request on its way, and a reply that is    *)
(* kept is for somebody who waits for it.                                  *)
BridgeInv == /\ stand \in [Scripts -> {"idle", "offering", "waiting"}]
             /\ DOMAIN request = Scripts /\ DOMAIN result = Scripts
             /\ Bridge!RepliesOwned

LEMMA BridgeInitially == Bridge!Init => BridgeInv
BY DEF Bridge!Init, BridgeInv, Bridge!RepliesOwned, Bridge!None

LEMMA BridgeStep ==
  ASSUME BridgeInv, [Bridge!Next]_bridgeVars
  PROVE  BridgeInv'
<1> USE DEF BridgeInv, Bridge!RepliesOwned
<1>1. CASE Bridge!Install
  BY <1>1 DEF Bridge!Install
<1>2. CASE Bridge!DaemonFails
  BY <1>2 DEF Bridge!DaemonFails
<1>3. CASE Bridge!Take
  BY <1>3 DEF Bridge!Take
<1>4. ASSUME NEW w \in Scripts, Bridge!Dispatch(w) PROVE BridgeInv'
  BY <1>4 DEF Bridge!Dispatch
<1>5. ASSUME NEW w \in Scripts, Bridge!Offer(w) PROVE BridgeInv'
  BY <1>5 DEF Bridge!Offer, Bridge!Return
<1>6. ASSUME NEW w \in Scripts, Bridge!Receive(w) PROVE BridgeInv'
  BY <1>6 DEF Bridge!Receive, Bridge!Return
<1>7. ASSUME NEW w \in Scripts, Bridge!GiveUp(w) PROVE BridgeInv'
  BY <1>7 DEF Bridge!GiveUp, Bridge!Return
<1>8. ASSUME NEW j \in tasks, Bridge!Finish(j) PROVE BridgeInv'
  BY <1>8 DEF Bridge!Finish
<1>9. CASE UNCHANGED bridgeVars
  BY <1>9 DEF bridgeVars
<1>10. QED
  BY <1>1, <1>2, <1>3, <1>4, <1>5, <1>6, <1>7, <1>8, <1>9 DEF Bridge!Next

(* Over all interleavings of workers and daemon: a reply finds the worker  *)
(* that asked, or nobody (task.rs:361-389, bridge.rs:58-89).               *)
THEOREM RepliesReachTheirWorker == StaticsSpec => []RepliesOwned
<1>1. StaticsInit => BridgeInv
  BY BridgeInitially DEF StaticsInit
<1>2. BridgeInv /\ [StaticsNext]_staticVars => BridgeInv'
  <2> SUFFICES ASSUME BridgeInv, [StaticsNext]_staticVars PROVE BridgeInv'
    OBVIOUS
  <2>1. [Bridge!Next]_bridgeVars
    BY DEF StaticsNext, staticVars
  <2>2. QED
    BY <2>1, BridgeStep
<1>3. BridgeInv => RepliesOwned
  BY DEF BridgeInv, RepliesOwned
<1>4. QED
  BY <1>1, <1>2, <1>3, PTL DEF StaticsSpec

-----------------------------------------------------------------------------
(* The deadline watch (DeadlineWatch) *)

(* Each part counts its sets alike. *)
LEMMA SameCardinality ==
  \A S : /\ Watch!Cardinality(S) = Cardinality(S)
         /\ Cache!Cardinality(S) = Cardinality(S)
         /\ Monitor!Cardinality(S) = Cardinality(S)
BY DEF Watch!Cardinality, Cache!Cardinality, Monitor!Cardinality, Cardinality

(* A task of the call is in the pool, waiting or on a thread. *)
HasTask(c) == \/ \E i \in DOMAIN lane : lane[i] = <<c, calls[c]>>
              \/ held[<<c, calls[c]>>] > 0

(* Who has the watch to itself finds in it what it armed: the abort flag,  *)
(* once cleared, is raised when the call's own time is over, if nobody set *)
(* the clock meanwhile.                                                    *)
OnTime(c) ==
  kind[c] = "until" /\ steady[c] =>
    /\ step[c] \notin {"idle", "read", "arm"} => deadline >= due[c] + ahead
    /\ step[c] = "fire" => now >= due[c]
    /\ step[c] \notin {"idle", "read", "arm", "clear"} /\ aborting => now >= due[c]
    /\ aborted[c] => now >= due[c]
    /\ answer[c] = "none" => now >= due[c] \/ (taken[c] = CallJobs /\ ~solved[c])

WatchTyped ==
  /\ now \in 1 .. WatchTicks /\ ahead \in Int /\ callers \in SUBSET Callers
  /\ step \in [Callers -> Watch!Places] /\ kind \in [Callers -> {"until", "plain"}]
  /\ answer \in [Callers -> {"nothing", "solution", "none"}]
  /\ deadline \in Nat /\ active \in BOOLEAN /\ aborting \in BOOLEAN
  /\ due \in [Callers -> Int] /\ stamp \in [Callers -> Int] /\ steady \in [Callers -> BOOLEAN]
  /\ sent \in [Callers -> Nat] /\ taken \in [Callers -> Nat] /\ calls \in [Callers -> Nat]
  /\ solved \in [Callers -> BOOLEAN] /\ aborted \in [Callers -> BOOLEAN]
  /\ lane \in Seq(Watch!AllTasks) /\ held \in [Watch!AllTasks -> Nat]

(* A caller that still hands over jobs has a task; one that waits has too, *)
(* or what there was to scan is scanned or need not be; and one that is    *)
(* past the wait was cut short, or found a nonce, or scanned everything.   *)
Waits == {"wait", "compare", "fire", "disarm", "look"}
PlaceSound(c) ==
  /\ c \notin callers => kind[c] = "plain" /\ step[c] = "idle"
  /\ step[c] # "idle" => calls[c] \in 1 .. WatchCalls /\ answer[c] = "nothing"
  /\ taken[c] <= sent[c] /\ sent[c] <= CallJobs
  /\ aborted[c] => step[c] \in {"drop", "judge", "idle"}
  /\ step[c] \in {"send", "put"} => HasTask(c)
  /\ step[c] = "put" => sent[c] < CallJobs
  /\ step[c] \in Waits => /\ sent[c] < CallJobs => solved[c]
                          /\ HasTask(c) \/ sent[c] < CallJobs \/ taken[c] = sent[c]
  /\ step[c] \in {"drop", "judge"} => aborted[c] \/ solved[c] \/ taken[c] = CallJobs
  /\ answer[c] = "solution" => solved[c]

WatchInv ==
  /\ WatchTyped
  /\ \A c \in Callers : PlaceSound(c)
  /\ \A c \in callers : callers = {c} => OnTime(c)

LEMMA WatchConstants ==
  /\ IsFiniteSet(Callers) /\ Kinds \subseteq {"until", "plain"} /\ Ahead \subseteq Int
  /\ Patience \in Nat /\ WatchTicks \in Nat \ {0} /\ WatchCalls \in Nat
  /\ CallTasks \in Nat \ {0} /\ CallJobs \in Nat \ {0}
BY StaticsAssumption DEF Watch!WatchAssumption, Watch!IsFiniteSet, IsFiniteSet

LEMMA WatchInitially ==
  ASSUME Watch!Quiet, callers \subseteq Callers, now \in 1 .. WatchTicks, ahead \in Int
  PROVE  WatchInv
<1>1. WatchTyped
  <2>1. lane \in Seq(Watch!AllTasks) /\ held \in [Watch!AllTasks -> Nat]
    BY EmptySeq DEF Watch!Quiet, Watch!AllTasks
  <2>2. step \in [Callers -> Watch!Places] /\ kind \in [Callers -> {"until", "plain"}]
    BY DEF Watch!Quiet, Watch!Places
  <2>3. /\ answer \in [Callers -> {"nothing", "solution", "none"}]
        /\ deadline \in Nat /\ active \in BOOLEAN /\ aborting \in BOOLEAN
    BY DEF Watch!Quiet
  <2>4. /\ sent \in [Callers -> Nat] /\ taken \in [Callers -> Nat] /\ calls \in [Callers -> Nat]
        /\ solved \in [Callers -> BOOLEAN] /\ aborted \in [Callers -> BOOLEAN]
    BY DEF Watch!Quiet
  <2>5. due \in [Callers -> Int] /\ stamp \in [Callers -> Int]
    BY DEF Watch!Quiet
  <2>6. steady \in [Callers -> BOOLEAN]
    BY DEF Watch!Quiet
  <2>7. QED
    BY <2>1, <2>2, <2>3, <2>4, <2>5, <2>6 DEF WatchTyped
<1>2. QED
  BY <1>1, WatchConstants DEF Watch!Quiet, WatchInv, PlaceSound, OnTime, Waits

LEMMA TasksKept ==
  ASSUME UNCHANGED <<lane, held, calls>>
  PROVE  \A d \in Callers : HasTask(d)' <=> HasTask(d)
BY DEF HasTask

(* A step of one caller leaves the others what they have, and none of them *)
(* has the watch to itself.                                                *)
LEMMA WatchOthers ==
  ASSUME WatchInv, WatchTyped', NEW c \in callers, callers' = callers,
         \A d \in Callers \ {c} : /\ step'[d] = step[d] /\ kind'[d] = kind[d] /\ calls'[d] = calls[d]
                                 /\ sent'[d] = sent[d] /\ taken'[d] = taken[d]
                                 /\ solved'[d] = solved[d] /\ aborted'[d] = aborted[d] /\ answer'[d] = answer[d],
         \A d \in Callers \ {c} : HasTask(d) => HasTask(d)',
         PlaceSound(c)', callers = {c} => OnTime(c)'
  PROVE  WatchInv'
<1>1. ASSUME NEW d \in Callers \ {c} PROVE PlaceSound(d)'
  <2>1. PlaceSound(d) /\ (HasTask(d) => HasTask(d)')
    BY DEF WatchInv
  <2>2. /\ step'[d] = step[d] /\ kind'[d] = kind[d] /\ calls'[d] = calls[d]
        /\ sent'[d] = sent[d] /\ taken'[d] = taken[d]
        /\ solved'[d] = solved[d] /\ aborted'[d] = aborted[d] /\ answer'[d] = answer[d]
    OBVIOUS
  <2>3. QED
    BY <2>1, <2>2 DEF PlaceSound
<1>2. \A d \in callers' : callers' = {d} => d = c
  OBVIOUS
<1>3. QED
  BY <1>1, <1>2 DEF WatchInv

(* Whose tasks are all to come has some, whose tasks have ended has none.  *)
LEMMA TasksOfACall ==
  ASSUME WatchTyped, NEW c \in Callers, calls[c] \in 1 .. WatchCalls
  PROVE  /\ Watch!Pending(c) = 0 => ~HasTask(c)
         /\ Watch!Pending(c) = CallTasks => HasTask(c)
<1> DEFINE here == {i \in DOMAIN lane : lane[i] = <<c, calls[c]>>}
<1>1. Watch!Pending(c) = Cardinality(here) + held[<<c, calls[c]>>]
  BY SameCardinality DEF Watch!Pending, Watch!Task, WatchTyped
<1>2. <<c, calls[c]>> \in Watch!AllTasks
  BY DEF Watch!AllTasks
<1>3. held[<<c, calls[c]>>] \in Nat
  BY <1>2 DEF WatchTyped
<1>4. IsFiniteSet(here) /\ Cardinality(here) \in Nat
  <2>1. Len(lane) \in Nat /\ DOMAIN lane = 1 .. Len(lane)
    BY DEF WatchTyped
  <2>2. QED
    <3>1. here \subseteq 1 .. Len(lane) /\ IsFiniteSet(1 .. Len(lane))
      BY <2>1, FS_Interval
    <3>2. QED
      BY <3>1, FS_Subset, FS_CardinalityType
<1>5. Cardinality(here) = 0 <=> here = {}
  BY <1>4, FS_EmptySet
<1>6. HasTask(c) <=> here # {} \/ held[<<c, calls[c]>>] > 0
  BY DEF HasTask
<1> HIDE DEF here
<1>7. QED
  BY <1>1, <1>3, <1>4, <1>5, <1>6, WatchConstants

(* The steps that leave the pool as it is. *)
LEMMA CallerStep ==
  ASSUME WatchInv, NEW c \in callers,
         \/ Watch!ReadWall(c) \/ Watch!ArmDeadline(c) \/ Watch!ArmClear(c) \/ Watch!ArmActive(c) \/ Watch!Spawned(c) \/ Watch!CheckFound(c)
         \/ Watch!Put(c) \/ Watch!Close(c) \/ Watch!Leave(c) \/ Watch!Poll(c) \/ Watch!Compare(c) \/ Watch!Fire(c)
         \/ Watch!Disarm(c) \/ Watch!Look(c) \/ Watch!Return(c) \/ Watch!Drop(c) \/ Watch!Judge(c)
  PROVE  WatchInv'
<1> c \in Callers
  BY DEF WatchInv, WatchTyped
<1> USE WatchConstants DEF WatchInv, WatchTyped, PlaceSound, OnTime, Waits, Watch!Places, Watch!Goes, Watch!Result,
        Watch!clocks, Watch!fixed, Watch!watch, Watch!scanPool, Watch!terms, Watch!search, Watch!outcome
<1>1. CASE Watch!ReadWall(c)
  <2>1. WatchTyped'
    BY <1>1 DEF Watch!ReadWall, Watch!Wall
  <2>2. \A d \in Callers : HasTask(d)' <=> HasTask(d)
    BY <1>1, TasksKept DEF Watch!ReadWall
  <2>3. PlaceSound(c)' /\ (callers = {c} => OnTime(c)')
    BY <1>1, <2>2 DEF Watch!ReadWall, Watch!Wall
  <2>4. QED
    BY <1>1, <2>1, <2>2, <2>3, WatchOthers DEF Watch!ReadWall
<1>2. CASE Watch!ArmDeadline(c)
  <2>1. WatchTyped'
    <3>1. /\ Watch!Millis(stamp[c] + Watch!Left(c)) \in Nat /\ due[c] - (Watch!Wall - stamp[c]) \in Int
          /\ "clear" \in Watch!Places
      BY DEF Watch!Left, Watch!Millis, Watch!Wall
    <3>2. /\ step' = [step EXCEPT ![c] = "clear"] /\ deadline' = Watch!Millis(stamp[c] + Watch!Left(c))
          /\ due' = [due EXCEPT ![c] = due[c] - (Watch!Wall - stamp[c])]
          /\ UNCHANGED <<now, ahead, callers, active, aborting, lane, held, kind, stamp, steady, sent, taken,
                         solved, aborted, answer, calls>>
      BY <1>2 DEF Watch!ArmDeadline
    <3>3. deadline' \in Nat /\ due' \in [Callers -> Int] /\ step' \in [Callers -> Watch!Places]
      BY <3>1, <3>2 DEF WatchTyped
    <3>4. QED
      BY <3>2, <3>3 DEF WatchTyped
  <2>2. \A d \in Callers : HasTask(d)' <=> HasTask(d)
    BY <1>2, TasksKept DEF Watch!ArmDeadline
  <2>3. PlaceSound(c)' /\ (callers = {c} => OnTime(c)')
    <3>1. PlaceSound(c)'
      BY <1>2, <2>2 DEF Watch!ArmDeadline
    <3>2. callers = {c} => OnTime(c)'
      <4>1. /\ due'[c] = due[c] - (now + ahead - stamp[c]) /\ ahead' = ahead
            /\ deadline' = Watch!Millis(stamp[c] + Watch!Left(c))
            /\ {due[c], stamp[c], now, ahead} \subseteq Int
        BY <1>2 DEF Watch!ArmDeadline, Watch!Wall
      <4>2. deadline' >= due'[c] + ahead'
        BY <4>1 DEF Watch!Left, Watch!Millis
      <4>3. step[c] = "arm" /\ step'[c] = "clear" /\ UNCHANGED <<aborted, answer>>
        BY <1>2 DEF Watch!ArmDeadline
      <4>4. ~aborted[c] /\ answer[c] = "nothing"
        BY <4>3
      <4>5. QED
        BY <4>2, <4>3, <4>4
    <3>3. QED
      BY <3>1, <3>2
  <2>4. QED
    <3>1. /\ callers' = callers
          /\ \A d \in Callers \ {c} : /\ step'[d] = step[d] /\ kind'[d] = kind[d] /\ calls'[d] = calls[d]
                                  /\ sent'[d] = sent[d] /\ taken'[d] = taken[d]
                                  /\ solved'[d] = solved[d] /\ aborted'[d] = aborted[d] /\ answer'[d] = answer[d]
      BY <1>2 DEF Watch!ArmDeadline
    <3>2. QED
      BY <2>1, <2>2, <2>3, <3>1, WatchOthers
<1>3. CASE Watch!ArmClear(c)
  <2>1. WatchTyped'
    BY <1>3 DEF Watch!ArmClear
  <2>2. \A d \in Callers : HasTask(d)' <=> HasTask(d)
    BY <1>3, TasksKept DEF Watch!ArmClear
  <2>3. PlaceSound(c)' /\ (callers = {c} => OnTime(c)')
    BY <1>3, <2>2 DEF Watch!ArmClear
  <2>4. QED
    BY <1>3, <2>1, <2>2, <2>3, WatchOthers DEF Watch!ArmClear
<1>4. CASE Watch!ArmActive(c)
  <2>1. WatchTyped'
    BY <1>4 DEF Watch!ArmActive
  <2>2. \A d \in Callers : HasTask(d)' <=> HasTask(d)
    BY <1>4, TasksKept DEF Watch!ArmActive
  <2>3. PlaceSound(c)' /\ (callers = {c} => OnTime(c)')
    BY <1>4, <2>2 DEF Watch!ArmActive
  <2>4. QED
    BY <1>4, <2>1, <2>2, <2>3, WatchOthers DEF Watch!ArmActive
<1>5. CASE Watch!Spawned(c)
  <2>1. WatchTyped'
    BY <1>5 DEF Watch!Spawned
  <2>2. \A d \in Callers : HasTask(d)' <=> HasTask(d)
    BY <1>5, TasksKept DEF Watch!Spawned
  <2>3. PlaceSound(c)' /\ (callers = {c} => OnTime(c)')
    BY <1>5, <2>2, TasksOfACall DEF Watch!Spawned
  <2>4. QED
    BY <1>5, <2>1, <2>2, <2>3, WatchOthers DEF Watch!Spawned
<1>6. CASE Watch!CheckFound(c)
  <2>1. WatchTyped'
    BY <1>6 DEF Watch!CheckFound
  <2>2. \A d \in Callers : HasTask(d)' <=> HasTask(d)
    BY <1>6, TasksKept DEF Watch!CheckFound
  <2>3. PlaceSound(c)' /\ (callers = {c} => OnTime(c)')
    BY <1>6, <2>2 DEF Watch!CheckFound
  <2>4. QED
    BY <1>6, <2>1, <2>2, <2>3, WatchOthers DEF Watch!CheckFound
<1>7. CASE Watch!Put(c)
  <2>1. WatchTyped'
    BY <1>7 DEF Watch!Put
  <2>2. \A d \in Callers : HasTask(d)' <=> HasTask(d)
    BY <1>7, TasksKept DEF Watch!Put
  <2>3. PlaceSound(c)' /\ (callers = {c} => OnTime(c)')
    <3>1. /\ step'[c] = "send" /\ sent'[c] = sent[c] + 1 /\ sent[c] < CallJobs /\ HasTask(c)'
          /\ {sent[c], taken[c]} \subseteq Nat /\ UNCHANGED <<taken, aborted, answer, calls, kind, solved, callers>>
      BY <1>7, <2>2 DEF Watch!Put
    <3>3. PlaceSound(c)'
      <4>1. /\ calls[c] \in 1 .. WatchCalls /\ answer[c] = "nothing" /\ taken[c] <= sent[c]
            /\ ~aborted[c]
        BY <1>7 DEF Watch!Put
      <4>2. taken'[c] <= sent'[c] /\ sent'[c] <= CallJobs
        BY <3>1, <4>1
      <4>3. QED
        BY <3>1, <4>1, <4>2
    <3>2. callers = {c} => OnTime(c)'
      BY <1>7 DEF Watch!Put
    <3>4. QED
      BY <3>3, <3>2
  <2>4. QED
    BY <1>7, <2>1, <2>2, <2>3, WatchOthers DEF Watch!Put
<1>8. CASE Watch!Close(c)
  <2>1. WatchTyped'
    BY <1>8 DEF Watch!Close
  <2>2. \A d \in Callers : HasTask(d)' <=> HasTask(d)
    BY <1>8, TasksKept DEF Watch!Close
  <2>3. PlaceSound(c)' /\ (callers = {c} => OnTime(c)')
    <3>1. /\ step[c] = "send" /\ step'[c] = "wait" /\ sent[c] = CallJobs /\ HasTask(c)'
          /\ UNCHANGED <<sent, taken, aborted, answer, calls, kind, solved, callers>>
      BY <1>8, <2>2 DEF Watch!Close
    <3>3. PlaceSound(c)'
      <4>1. /\ calls[c] \in 1 .. WatchCalls /\ answer[c] = "nothing" /\ taken[c] <= sent[c]
            /\ ~aborted[c] /\ c \in callers
        BY <3>1
      <4>2. sent'[c] = CallJobs /\ taken'[c] <= sent'[c] /\ sent'[c] <= CallJobs /\ ~(sent'[c] < CallJobs)
        BY <3>1, <4>1
      <4>3. QED
        BY <3>1, <4>1, <4>2
    <3>2. callers = {c} => OnTime(c)'
      BY <1>8 DEF Watch!Close
    <3>4. QED
      BY <3>3, <3>2
  <2>4. QED
    BY <1>8, <2>1, <2>2, <2>3, WatchOthers DEF Watch!Close
<1>9. CASE Watch!Leave(c)
  <2>1. WatchTyped'
    BY <1>9 DEF Watch!Leave
  <2>2. \A d \in Callers : HasTask(d)' <=> HasTask(d)
    BY <1>9, TasksKept DEF Watch!Leave
  <2>3. PlaceSound(c)' /\ (callers = {c} => OnTime(c)')
    <3>1. step[c] = "wait" /\ step'[c] = "drop" /\ ~HasTask(c)
      BY <1>9, TasksOfACall DEF Watch!Leave
    <3>2. PlaceSound(c)'
      BY <1>9, <3>1 DEF Watch!Leave
    <3>3. callers = {c} => OnTime(c)'
      BY <1>9 DEF Watch!Leave
    <3>4. QED
      BY <3>2, <3>3
  <2>4. QED
    BY <1>9, <2>1, <2>2, <2>3, WatchOthers DEF Watch!Leave
<1>10. CASE Watch!Poll(c)
  <2>1. WatchTyped'
    BY <1>10 DEF Watch!Poll
  <2>2. \A d \in Callers : HasTask(d)' <=> HasTask(d)
    BY <1>10, TasksKept DEF Watch!Poll
  <2>3. PlaceSound(c)' /\ (callers = {c} => OnTime(c)')
    BY <1>10, <2>2 DEF Watch!Poll
  <2>4. QED
    <3>1. /\ callers' = callers
          /\ \A d \in Callers \ {c} : /\ step'[d] = step[d] /\ kind'[d] = kind[d] /\ calls'[d] = calls[d]
                                  /\ sent'[d] = sent[d] /\ taken'[d] = taken[d]
                                  /\ solved'[d] = solved[d] /\ aborted'[d] = aborted[d] /\ answer'[d] = answer[d]
      BY <1>10 DEF Watch!Poll
    <3>2. QED
      BY <2>1, <2>2, <2>3, <3>1, WatchOthers
<1>11. CASE Watch!Compare(c)
  <2>1. WatchTyped'
    BY <1>11 DEF Watch!Compare, Watch!Reached, Watch!Millis, Watch!Wall
  <2>2. \A d \in Callers : HasTask(d)' <=> HasTask(d)
    BY <1>11, TasksKept DEF Watch!Compare
  <2>3. PlaceSound(c)' /\ (callers = {c} => OnTime(c)')
    <3>1. PlaceSound(c)'
      BY <1>11, <2>2 DEF Watch!Compare
    <3>2. callers = {c} => OnTime(c)'
      BY <1>11 DEF Watch!Compare, Watch!Reached, Watch!Millis, Watch!Wall
    <3>3. QED
      BY <3>1, <3>2
  <2>4. QED
    BY <1>11, <2>1, <2>2, <2>3, WatchOthers DEF Watch!Compare
<1>12. CASE Watch!Fire(c)
  <2>1. WatchTyped'
    BY <1>12 DEF Watch!Fire
  <2>2. \A d \in Callers : HasTask(d)' <=> HasTask(d)
    BY <1>12, TasksKept DEF Watch!Fire
  <2>3. PlaceSound(c)' /\ (callers = {c} => OnTime(c)')
    BY <1>12, <2>2 DEF Watch!Fire
  <2>4. QED
    BY <1>12, <2>1, <2>2, <2>3, WatchOthers DEF Watch!Fire
<1>13. CASE Watch!Disarm(c)
  <2>1. WatchTyped'
    BY <1>13 DEF Watch!Disarm
  <2>2. \A d \in Callers : HasTask(d)' <=> HasTask(d)
    BY <1>13, TasksKept DEF Watch!Disarm
  <2>3. PlaceSound(c)' /\ (callers = {c} => OnTime(c)')
    BY <1>13, <2>2 DEF Watch!Disarm
  <2>4. QED
    BY <1>13, <2>1, <2>2, <2>3, WatchOthers DEF Watch!Disarm
<1>14. CASE Watch!Look(c)
  <2>1. WatchTyped'
    BY <1>14 DEF Watch!Look
  <2>2. \A d \in Callers : HasTask(d)' <=> HasTask(d)
    BY <1>14, TasksKept DEF Watch!Look
  <2>3. PlaceSound(c)' /\ (callers = {c} => OnTime(c)')
    <3>1. PlaceSound(c)'
      BY <1>14, <2>2 DEF Watch!Look
    <3>2. callers = {c} => OnTime(c)'
      BY <1>14 DEF Watch!Look
    <3>3. QED
      BY <3>1, <3>2
  <2>4. QED
    <3>1. /\ callers' = callers
          /\ \A d \in Callers \ {c} : /\ step'[d] = step[d] /\ kind'[d] = kind[d] /\ calls'[d] = calls[d]
                                  /\ sent'[d] = sent[d] /\ taken'[d] = taken[d]
                                  /\ solved'[d] = solved[d] /\ aborted'[d] = aborted[d] /\ answer'[d] = answer[d]
      BY <1>14 DEF Watch!Look
    <3>2. QED
      BY <2>1, <2>2, <2>3, <3>1, WatchOthers
<1>15. CASE Watch!Return(c)
  <2>1. WatchTyped'
    BY <1>15 DEF Watch!Return
  <2>2. \A d \in Callers : HasTask(d)' <=> HasTask(d)
    BY <1>15, TasksKept DEF Watch!Return
  <2>3. PlaceSound(c)' /\ (callers = {c} => OnTime(c)')
    BY <1>15, <2>2 DEF Watch!Return
  <2>4. QED
    BY <1>15, <2>1, <2>2, <2>3, WatchOthers DEF Watch!Return
<1>16. CASE Watch!Drop(c)
  <2>1. WatchTyped'
    BY <1>16 DEF Watch!Drop
  <2>2. \A d \in Callers : HasTask(d)' <=> HasTask(d)
    BY <1>16, TasksKept DEF Watch!Drop
  <2>3. PlaceSound(c)' /\ (callers = {c} => OnTime(c)')
    BY <1>16, <2>2 DEF Watch!Drop
  <2>4. QED
    BY <1>16, <2>1, <2>2, <2>3, WatchOthers DEF Watch!Drop
<1>17. CASE Watch!Judge(c)
  <2>1. WatchTyped'
    BY <1>17 DEF Watch!Judge
  <2>2. \A d \in Callers : HasTask(d)' <=> HasTask(d)
    BY <1>17, TasksKept DEF Watch!Judge
  <2>3. PlaceSound(c)' /\ (callers = {c} => OnTime(c)')
    BY <1>17, <2>2 DEF Watch!Judge
  <2>4. QED
    BY <1>17, <2>1, <2>2, <2>3, WatchOthers DEF Watch!Judge
<1>18. QED
  BY <1>1, <1>2, <1>3, <1>4, <1>5, <1>6, <1>7, <1>8, <1>9, <1>10, <1>11, <1>12, <1>13, <1>14, <1>15, <1>16, <1>17

LEMMA PoolStep ==
  ASSUME WatchInv, Watch!Begin
  PROVE  WatchInv'
<1> USE DEF Watch!Begin, Watch!clocks, Watch!fixed, Watch!watch, Watch!terms, Watch!search, Watch!outcome
<1>1. /\ lane \in Seq(Watch!AllTasks) /\ lane # <<>> /\ held \in [Watch!AllTasks -> Nat]
      /\ lane' = Tail(lane) /\ held' = [held EXCEPT ![Head(lane)] = held[Head(lane)] + 1]
  BY DEF WatchInv, WatchTyped
<1>2. /\ Head(lane) \in Watch!AllTasks /\ Head(lane) = lane[1]
      /\ lane' \in Seq(Watch!AllTasks) /\ Len(lane') = Len(lane) - 1
      /\ \A i \in 1 .. Len(lane') : lane'[i] = lane[i + 1]
  BY <1>1, HeadTailProperties
<1>3. WatchTyped'
  BY <1>1, <1>2 DEF WatchInv, WatchTyped
<1>4. ASSUME NEW d \in Callers, HasTask(d), <<d, calls[d]>> \in Watch!AllTasks
      PROVE  HasTask(d)'
  <2>1. calls' = calls
    OBVIOUS
  <2>2. held'[<<d, calls[d]>>] >= held[<<d, calls[d]>>]
    <3>1. held[<<d, calls[d]>>] \in Nat
      BY <1>1, <1>4
    <3>2. held'[<<d, calls[d]>>] \in {held[<<d, calls[d]>>], held[<<d, calls[d]>>] + 1}
      BY <1>1, <1>2, <1>4
    <3>3. QED
      BY <3>1, <3>2
  <2>3. CASE held[<<d, calls[d]>>] > 0
    <3>1. held[<<d, calls[d]>>] \in Nat /\ held'[<<d, calls[d]>>] \in Nat
      BY <1>1, <1>2, <1>4
    <3>2. QED
      BY <2>1, <2>2, <2>3, <3>1 DEF HasTask
  <2>4. ASSUME NEW i \in DOMAIN lane, lane[i] = <<d, calls[d]>> PROVE HasTask(d)'
    <3>1. CASE i = 1
      <4>1. held'[<<d, calls[d]>>] = held[<<d, calls[d]>>] + 1 /\ held[<<d, calls[d]>>] \in Nat
        BY <1>1, <1>2, <1>4, <2>4, <3>1
      <4>2. QED
        BY <2>1, <4>1 DEF HasTask
    <3>2. CASE i # 1
      <4>1. i \in 2 .. Len(lane) /\ Len(lane) \in Nat
        BY <1>1, <3>2
      <4>2. i - 1 \in 1 .. Len(lane') /\ i - 1 + 1 = i
        BY <1>2, <4>1
      <4>3. lane'[i - 1] = lane[i] /\ i - 1 \in DOMAIN lane'
        BY <1>2, <4>2
      <4>4. QED
        BY <2>1, <2>4, <4>3 DEF HasTask
    <3>3. QED
      BY <3>1, <3>2
  <2>5. QED
    BY <1>4, <2>3, <2>4 DEF HasTask
<1>5. ASSUME NEW d \in Callers PROVE PlaceSound(d)'
  <2>1. step[d] # "idle" => <<d, calls[d]>> \in Watch!AllTasks
    BY DEF WatchInv, PlaceSound, Watch!AllTasks
  <2>2. step[d] # "idle" /\ HasTask(d) => HasTask(d)'
    BY <1>4, <2>1
  <2>3. QED
    BY <2>2 DEF WatchInv, PlaceSound, Waits
<1>6. QED
  BY <1>3, <1>5 DEF WatchInv, OnTime

LEMMA WorkStep ==
  ASSUME WatchInv, NEW c \in callers, Watch!Work(c)
  PROVE  WatchInv'
<1> c \in Callers
  BY DEF WatchInv, WatchTyped
<1> USE DEF Watch!clocks, Watch!fixed, Watch!watch, Watch!scanPool, Watch!terms, Watch!search, Watch!outcome
<1>1. CASE calls[c] > 0 /\ Watch!Scan(c)
  <2>1. WatchTyped'
    <3>1. PICK f \in {solved[c], TRUE} : solved' = [solved EXCEPT ![c] = f]
      BY <1>1 DEF Watch!Scan
    <3>2. f \in BOOLEAN
      BY <3>1 DEF WatchInv, WatchTyped
    <3>3. QED
      BY <1>1, <3>1, <3>2 DEF Watch!Scan, WatchInv, WatchTyped
  <2>2. \A d \in Callers : HasTask(d)' <=> HasTask(d)
    BY <1>1, TasksKept DEF Watch!Scan
  <2>3. PlaceSound(c)' /\ (callers = {c} => OnTime(c)')
    <3>1. PICK f \in {solved[c], TRUE} : solved' = [solved EXCEPT ![c] = f]
      BY <1>1 DEF Watch!Scan
    <3>2. /\ solved'[c] = f /\ (solved[c] => f) /\ f \in BOOLEAN
          /\ taken[c] < sent[c] /\ taken'[c] = taken[c] + 1 /\ taken[c] \in Nat /\ sent[c] \in Nat
      BY <1>1, <3>1 DEF Watch!Scan, WatchInv, WatchTyped
    <3>3. PlaceSound(c)'
      BY <1>1, <2>2, <3>2, WatchConstants DEF Watch!Scan, WatchInv, WatchTyped, PlaceSound, Waits, Watch!Stopped, Watch!Closed
    <3>4. callers = {c} => OnTime(c)'
      BY <1>1, <3>2, WatchConstants DEF Watch!Scan, WatchInv, PlaceSound, OnTime
    <3>5. QED
      BY <3>3, <3>4
  <2>4. QED
    BY <1>1, <2>1, <2>2, <2>3, WatchOthers DEF Watch!Scan, WatchInv, WatchTyped
<1>2. ASSUME NEW n \in 1 .. WatchCalls, Watch!End(c, n) PROVE WatchInv'
  <2>1. /\ <<c, n>> \in Watch!AllTasks /\ held[<<c, n>>] > 0 /\ held[<<c, n>>] \in Nat
        /\ held' = [held EXCEPT ![<<c, n>>] = held[<<c, n>>] - 1] /\ lane' = lane
    BY <1>2 DEF Watch!End, Watch!AllTasks, WatchInv, WatchTyped
  <2>2. WatchTyped'
    <3>1. held' \in [Watch!AllTasks -> Nat]
      <4>1. held[<<c, n>>] - 1 \in Nat /\ held \in [Watch!AllTasks -> Nat]
        BY <2>1 DEF WatchInv, WatchTyped
      <4>2. QED
        BY <2>1, <4>1
    <3>2. UNCHANGED <<now, ahead, callers, step, kind, answer, deadline, active, aborting, due, stamp, steady,
                     sent, taken, calls, solved, aborted, lane>>
      BY <1>2 DEF Watch!End
    <3>3. QED
      BY <3>1, <3>2 DEF WatchInv, WatchTyped
  <2>3. ASSUME NEW d \in Callers, <<d, calls[d]>> # <<c, n>>, HasTask(d), <<d, calls[d]>> \in Watch!AllTasks PROVE HasTask(d)'
    <3>1. held'[<<d, calls[d]>>] = held[<<d, calls[d]>>] /\ calls' = calls
      BY <1>2, <2>1, <2>3 DEF Watch!End, WatchInv, WatchTyped
    <3>2. QED
      BY <2>1, <2>3, <3>1 DEF HasTask
  <2>4. ASSUME NEW d \in Callers PROVE PlaceSound(d)'
    <3>1. UNCHANGED <<callers, step, kind, sent, taken, solved, aborted, answer, calls>>
      BY <1>2 DEF Watch!End
    <3>2. CASE <<d, calls[d]>> # <<c, n>>
      <4>1. step[d] # "idle" => <<d, calls[d]>> \in Watch!AllTasks
        BY DEF WatchInv, PlaceSound, Watch!AllTasks
      <4>2. step[d] # "idle" /\ HasTask(d) => HasTask(d)'
        BY <2>3, <3>2, <4>1
      <4>3. QED
        BY <3>1, <4>2 DEF WatchInv, PlaceSound, Waits
    <3>3. CASE <<d, calls[d]>> = <<c, n>>
      <4>1. d = c /\ n = calls[c]
        BY <3>3
      <4>2. Watch!Over(c)
        BY <1>2, <4>1 DEF Watch!End
      <4>3. /\ step[c] \notin {"spawn", "send", "put"}
            /\ aborted[c] \/ sent[c] < CallJobs \/ taken[c] = sent[c]
        BY <4>2 DEF Watch!Over, Watch!Closed, Watch!Stopped
      <4>4. QED
        BY <3>1, <4>1, <4>3 DEF WatchInv, PlaceSound, Waits
    <3>4. QED
      BY <3>2, <3>3
  <2>5. QED
    BY <1>2, <2>2, <2>4 DEF Watch!End, WatchInv, OnTime
<1>3. QED
  BY <1>1, <1>2 DEF Watch!Work

LEMMA SpawnStep ==
  ASSUME WatchInv, NEW c \in callers, Watch!Spawn(c)
  PROVE  WatchInv'
<1> c \in Callers
  BY DEF WatchInv, WatchTyped
<1> USE DEF Watch!Spawn, Watch!clocks, Watch!fixed, Watch!watch, Watch!terms, Watch!search, Watch!outcome
<1>1. <<c, calls[c]>> \in Watch!AllTasks /\ lane' = Append(lane, <<c, calls[c]>>) /\ lane \in Seq(Watch!AllTasks)
  BY DEF WatchInv, WatchTyped, PlaceSound, Watch!AllTasks, Watch!Task
<1>2. /\ lane' \in Seq(Watch!AllTasks) /\ Len(lane') = Len(lane) + 1 /\ Len(lane) \in Nat
      /\ \A i \in 1 .. Len(lane) : lane'[i] = lane[i]
  BY <1>1, AppendProperties
<1>3. WatchTyped'
  BY <1>2 DEF WatchInv, WatchTyped
<1>4. ASSUME NEW d \in Callers, HasTask(d) PROVE HasTask(d)'
  <2>1. \A i \in DOMAIN lane : i \in DOMAIN lane' /\ lane'[i] = lane[i]
    BY <1>1, <1>2
  <2>2. QED
    BY <1>4, <2>1 DEF HasTask
<1>5. ASSUME NEW d \in Callers PROVE PlaceSound(d)'
  BY <1>4 DEF WatchInv, PlaceSound, Waits
<1>6. QED
  BY <1>3, <1>5 DEF WatchInv, OnTime

LEMMA CallsStep ==
  ASSUME WatchInv, NEW c \in callers, Watch!Call(c)
  PROVE  WatchInv'
<1> c \in Callers
  BY DEF WatchInv, WatchTyped
<1> USE DEF Watch!Call, Watch!Goes, Watch!clocks, Watch!fixed, Watch!watch, Watch!scanPool
<1>1. WatchTyped'
  BY WatchConstants DEF WatchInv, WatchTyped, Watch!Places
<1>2. PlaceSound(c)' /\ (callers = {c} => OnTime(c)')
  BY WatchConstants DEF WatchInv, WatchTyped, PlaceSound, OnTime, Waits
<1>3. ASSUME NEW d \in Callers \ {c} PROVE calls'[d] = calls[d] /\ (HasTask(d) => HasTask(d)')
  BY <1>3 DEF HasTask, WatchInv, WatchTyped
<1>4. QED
  BY <1>1, <1>2, <1>3, WatchOthers DEF WatchInv, WatchTyped

LEMMA WatchStep ==
  ASSUME WatchInv, [Watch!Next]_watchVars
  PROVE  WatchInv'
<1> USE DEF Watch!clocks, Watch!fixed, Watch!watch, Watch!scanPool, Watch!terms, Watch!search, Watch!outcome
<1>1. CASE Watch!Advance \/ UNCHANGED watchVars
  <2>1. \A d \in Callers : HasTask(d)' <=> HasTask(d)
    BY <1>1, TasksKept DEF Watch!Advance, watchVars
  <2>2. WatchTyped'
    BY <1>1, WatchConstants DEF Watch!Advance, watchVars, WatchInv, WatchTyped
  <2>3. QED
    <3>1. \A c \in Callers : PlaceSound(c)'
      BY <1>1, <2>1 DEF Watch!Advance, watchVars, WatchInv, PlaceSound, Waits
    <3>2. now' >= now /\ now \in Nat /\ now' \in Nat /\ \A c \in Callers : due[c] \in Int
      BY <1>1, WatchConstants DEF Watch!Advance, watchVars, WatchInv, WatchTyped
    <3>3. UNCHANGED <<callers, kind, steady, step, deadline, due, ahead, aborting, aborted, answer, taken, solved>>
      BY <1>1 DEF Watch!Advance, watchVars
    <3>4. ASSUME NEW c \in callers, callers = {c} PROVE OnTime(c)'
      BY <3>2, <3>3, <3>4 DEF WatchInv, WatchTyped, OnTime
    <3>5. QED
      BY <2>2, <3>1, <3>3, <3>4 DEF WatchInv
<1>2. CASE Watch!SetClock
  <2>1. \A d \in Callers : HasTask(d)' <=> HasTask(d)
    BY <1>2, TasksKept DEF Watch!SetClock
  <2>2. WatchTyped'
    BY <1>2, WatchConstants DEF Watch!SetClock, WatchInv, WatchTyped
  <2>3. QED
    BY <1>2, <2>1, <2>2 DEF Watch!SetClock, WatchInv, WatchTyped, PlaceSound, OnTime, Waits
<1>3. QED
  BY <1>1, <1>2, CallerStep, PoolStep, WorkStep, SpawnStep, CallsStep DEF Watch!Next, Watch!Step

(* For any number of callers, whatever they call and whenever time passes, *)
(* what a call returns is true: a solution was found, and a solve_until    *)
(* that has the watch to itself returns nothing only when its time is over *)
(* or all its jobs were scanned in vain, unless somebody set the wall      *)
(* clock (lib.rs:106-154, 168-203).                                        *)
THEOREM ReturnsAreTrue == StaticsSpec => []ReturnIsTrue
<1>1. StaticsInit => WatchInv
  <2> SUFFICES ASSUME StaticsInit PROVE WatchInv
    OBVIOUS
  <2>1. /\ Watch!Quiet /\ callers \subseteq Callers
        /\ now \in 1 .. WatchTicks /\ ahead \in Ahead \cup {0}
    BY WatchConstants DEF StaticsInit, NoWatch, Watch!Init
  <2>2. QED
    BY <2>1, WatchInitially, WatchConstants
<1>2. WatchInv /\ [StaticsNext]_staticVars => WatchInv'
  <2> SUFFICES ASSUME WatchInv, [StaticsNext]_staticVars PROVE WatchInv'
    OBVIOUS
  <2>1. [Watch!Next]_watchVars
    BY DEF StaticsNext, staticVars
  <2>2. QED
    BY <2>1, WatchStep
<1>3. WatchInv => ReturnIsTrue
  <2> SUFFICES ASSUME WatchInv PROVE ReturnIsTrue
    OBVIOUS
  <2>1. ASSUME Watch!Alone PROVE \E c \in callers : callers = {c}
    <3>1. IsFiniteSet(callers)
      BY WatchConstants, FS_Subset DEF WatchInv, WatchTyped
    <3>2. QED
      BY <2>1, <3>1, FS_Singleton, SameCardinality DEF Watch!Alone
  <2>2. QED
    BY <2>1 DEF WatchInv, WatchTyped, PlaceSound, OnTime, ReturnIsTrue, Watch!ReturnIsTrue, Watch!TypeOK, Watch!Exhausted
<1>4. QED
  BY <1>1, <1>2, <1>3, PTL DEF StaticsSpec

-----------------------------------------------------------------------------
(* The answer cache (AnswerCache) *)

LEMMA CacheConstants ==
  /\ IsFiniteSet(Clients) /\ IsFiniteSet(Keys) /\ IsFiniteSet(Slots)
  /\ 0 \notin Keys /\ \A k \in Keys : SlotOf(k) \in Slots
  /\ CacheCalls \in Nat
BY StaticsAssumption DEF Cache!CacheAssumption, Cache!IsFiniteSet, IsFiniteSet, Cache!Empty

CacheTyped ==
  /\ may \in [Clients -> SUBSET Keys]
  /\ key \in [Slots -> Keys \cup {0}]
  /\ xy \in [Slots -> Keys \cup {0}]
  /\ client \in [Clients -> Cache!Places]
  /\ asked \in [Clients -> Keys \cup {0}]
  /\ got \in [Clients -> [hit : BOOLEAN, answer : Keys \cup {0}]]
  /\ served \in [Clients -> 0 .. CacheCalls]
  /\ len \in Nat

(* A slot has its answer before its key, and neither is ever taken back. *)
RingSound ==
  /\ \A s \in Slots : /\ xy[s] # 0 => SlotOf(xy[s]) = s
                      /\ key[s] # 0 => xy[s] # 0
  /\ \A c \in Clients :
       /\ client[c] # "idle" => asked[c] \in may[c]
       /\ client[c] = "publish" => xy[Cache!Slot(c)] # 0
       /\ client[c] = "read" => key[Cache!Slot(c)] # 0
       /\ got[c].hit => /\ client[c] = "idle"
                        /\ got[c].answer # 0 /\ SlotOf(got[c].answer) = Cache!Slot(c)

(* Where one client alone has payloads, it finds what it left. *)
Comes(c, s) == \E k \in may[c] : SlotOf(k) = s
Unshared(s) == \A c, d \in Clients : Comes(c, s) /\ Comes(d, s) => c = d
Fits(s) == key[s] \in {0, xy[s]} \/ \E c \in Clients : client[c] = "publish" /\ Cache!Slot(c) = s
FindsItsOwn(c) == /\ client[c] = "publish" => xy[Cache!Slot(c)] = asked[c]
                  /\ client[c] = "read" => key[Cache!Slot(c)] = asked[c]
                  /\ client[c] = "count" => key[Cache!Slot(c)] = 0
                  /\ got[c].hit => got[c].answer = asked[c]
OwnSlots == /\ \A s \in Slots : Unshared(s) => Fits(s)
            /\ \A c \in Clients : Unshared(Cache!Slot(c)) => FindsItsOwn(c)

(* A slot is counted before it is used; a call counts at most once, before *)
(* it writes.                                                              *)
Reserved == Cache!InUse \cup {Cache!Slot(c) : c \in {d \in Clients : client[d] \in {"write", "publish"}}}
Counted(c) == IF client[c] \in {"lookup", "read", "solve", "record", "count"} THEN served[c] - 1 ELSE served[c]
CountedCalls == {p \in Clients \X (1 .. CacheCalls) : p[2] <= Counted(p[1])}
CountSound ==
  /\ \A c \in Clients : client[c] # "idle" => served[c] # 0
  /\ len <= Cardinality(CountedCalls)
  /\ Cardinality(Reserved) <= len
  /\ (\A s \in Slots : Unshared(s)) => len = Cardinality(Cache!InUse) + Cardinality(Cache!Counting)

CacheInv == CacheTyped /\ RingSound /\ OwnSlots /\ CountSound

-----------------------------------------------------------------------------
(* The slots are finitely many, and so are those who write. *)
LEMMA CacheFinite ==
  ASSUME CacheTyped, \A c \in Clients : client[c] # "idle" => asked[c] \in may[c]
  PROVE  /\ IsFiniteSet(Cache!InUse) /\ IsFiniteSet(Cache!Counting) /\ IsFiniteSet(Reserved)
         /\ IsFiniteSet(CountedCalls)
         /\ Cardinality(CountedCalls) <= Cardinality(Clients) * CacheCalls
         /\ {Cardinality(Cache!InUse), Cardinality(Cache!Counting), Cardinality(Reserved),
             Cardinality(CountedCalls), Cardinality(Clients)} \subseteq Nat
<1>1. IsFiniteSet(Cache!InUse)
  BY CacheConstants, FS_Subset DEF Cache!InUse
<1>2. IsFiniteSet(Cache!Counting)
  BY CacheConstants, FS_Subset DEF Cache!Counting
<1>3. IsFiniteSet(Reserved)
  <2>1. \A c \in Clients : client[c] \in {"write", "publish"} => Cache!Slot(c) \in Slots
    BY CacheConstants DEF CacheTyped, Cache!Slot
  <2>2. Reserved \in SUBSET Slots
    BY <2>1 DEF Reserved, Cache!InUse
  <2>3. QED
    BY <2>2, CacheConstants, FS_Subset
<1>4. IsFiniteSet(CountedCalls) /\ Cardinality(CountedCalls) <= Cardinality(Clients) * CacheCalls
  <2>1. IsFiniteSet(1 .. CacheCalls) /\ Cardinality(1 .. CacheCalls) = CacheCalls
    BY CacheConstants, FS_Interval
  <2>2. /\ IsFiniteSet(Clients \X (1 .. CacheCalls))
        /\ Cardinality(Clients \X (1 .. CacheCalls)) = Cardinality(Clients) * CacheCalls
    BY <2>1, CacheConstants, FS_Product
  <2>3. CountedCalls \in SUBSET (Clients \X (1 .. CacheCalls))
    BY DEF CountedCalls
  <2>4. QED
    BY <2>2, <2>3, FS_Subset
<1>5. QED
  BY <1>1, <1>2, <1>3, <1>4, CacheConstants, FS_CardinalityType

LEMMA CacheInitially == Cache!Init => CacheInv
<1> SUFFICES ASSUME Cache!Init PROVE CacheInv
  OBVIOUS
<1> USE DEF Cache!Init, Cache!Empty, Cache!Nothing, Cache!Places
<1>1. CacheTyped
  BY CacheConstants DEF CacheTyped
<1>2. RingSound /\ OwnSlots
  BY DEF RingSound, OwnSlots, Fits, FindsItsOwn
<1>3. CountSound
  <2>1. Cache!InUse = {} /\ Cache!Counting = {} /\ Reserved = {} 
    BY DEF Cache!InUse, Cache!Counting, Reserved
  <2>2. Cardinality(CountedCalls) \in Nat
    BY <1>1, CacheFinite
  <2>3. QED
    BY <2>1, <2>2, FS_EmptySet DEF CountSound
<1>4. QED
  BY <1>1, <1>2, <1>3 DEF CacheInv

-----------------------------------------------------------------------------
(* A step that counts nothing and lets no slot into use or out of it. *)
LEMMA CountKept ==
  ASSUME CacheInv, CacheTyped', RingSound', UNCHANGED <<may, len>>,
         Reserved' = Reserved, Cache!InUse' = Cache!InUse, Cache!Counting' = Cache!Counting,
         \A c \in Clients : client'[c] # "idle" => served'[c] # 0,
         \A c \in Clients : Counted(c)' \in Int /\ Counted(c) \in Int /\ Counted(c) <= Counted(c)'
  PROVE  CountSound'
<1>1. CountedCalls \in SUBSET (CountedCalls')
  BY CacheConstants DEF CountedCalls
<1>2. IsFiniteSet(CountedCalls')
  <2>1. IsFiniteSet(Clients \X (1 .. CacheCalls))
    <3>1. IsFiniteSet(1 .. CacheCalls)
      BY CacheConstants, FS_Interval
    <3>2. QED
      BY <3>1, CacheConstants, FS_Product
  <2>2. CountedCalls' \in SUBSET (Clients \X (1 .. CacheCalls))
    BY DEF CountedCalls
  <2>3. QED
    BY <2>1, <2>2, FS_Subset
<1>3. Cardinality(CountedCalls) <= Cardinality(CountedCalls')
  BY <1>1, <1>2, FS_Subset
<1>4. Cardinality(CountedCalls) \in Nat /\ Cardinality(CountedCalls') \in Nat
  BY <1>1, <1>2, FS_Subset, FS_CardinalityType
<1>5. len <= Cardinality(CountedCalls')
  BY <1>3, <1>4 DEF CacheInv, CacheTyped, CountSound
<1>6. QED
  BY <1>5 DEF CacheInv, CountSound, Unshared, Comes

(* The client whose step it is moves alone. *)
LEMMA CacheMoves ==
  ASSUME CacheTyped, NEW c \in Clients, NEW a, NEW b \in Cache!Places, Cache!Goes(c, a, b)
  PROVE  /\ client[c] = a /\ client'[c] = b /\ client' \in [Clients -> Cache!Places]
         /\ \A d \in Clients \ {c} : client'[d] = client[d]
BY DEF CacheTyped, Cache!Goes

(* A step that changes no slot: what the client knows is its own affair. *)
LEMMA OwnKept ==
  ASSUME CacheInv, NEW c \in Clients, UNCHANGED <<may, key, xy>>,
         client[c] # "publish", client'[c] # "publish",
         \A d \in Clients \ {c} : client'[d] = client[d] /\ asked'[d] = asked[d] /\ got'[d] = got[d],
         Unshared(Cache!Slot(c)') => FindsItsOwn(c)'
  PROVE  OwnSlots'
<1>1. ASSUME NEW s \in Slots, Unshared(s)' PROVE Fits(s)'
  BY <1>1 DEF CacheInv, OwnSlots, Fits, Unshared, Comes, Cache!Slot
<1>2. ASSUME NEW d \in Clients \ {c}, Unshared(Cache!Slot(d))' PROVE FindsItsOwn(d)'
  BY <1>2 DEF CacheInv, OwnSlots, FindsItsOwn, Unshared, Comes, Cache!Slot
<1>3. ASSUME Unshared(Cache!Slot(c))' PROVE FindsItsOwn(c)'
  BY <1>3 DEF Unshared, Comes
<1>4. QED
  BY <1>1, <1>2, <1>3 DEF OwnSlots

LEMMA CallStep ==
  ASSUME CacheInv, NEW c \in Clients, Cache!Call(c)
  PROVE  CacheInv'
<1>1. /\ client' \in [Clients -> Cache!Places] /\ \A d \in Clients \ {c} : client'[d] = client[d]
      /\ UNCHANGED <<may, key, xy, len>>
      /\ client[c] = "idle" /\ client'[c] = "lookup"
      /\ served[c] < CacheCalls /\ served' = [served EXCEPT ![c] = @ + 1]
      /\ \E k \in may[c] : asked' = [asked EXCEPT ![c] = k]
      /\ got' = [got EXCEPT ![c] = [hit |-> FALSE, answer |-> 0]]
  <2>1. /\ client' \in [Clients -> Cache!Places] /\ \A d \in Clients \ {c} : client'[d] = client[d]
        /\ client[c] = "idle" /\ client'[c] = "lookup"
    BY CacheMoves DEF CacheInv, Cache!Places, Cache!Call
  <2>2. QED
    BY <2>1, Zenon DEF Cache!Call, Cache!Nothing, Cache!Empty
<1>2. CacheTyped'
  BY <1>1, CacheConstants DEF CacheInv, CacheTyped
<1>3. RingSound'
  BY <1>1, CacheConstants DEF CacheInv, CacheTyped, RingSound, Cache!Slot
<1>4. OwnSlots'
  <2>1. Unshared(Cache!Slot(c)') => FindsItsOwn(c)'
    BY <1>1 DEF CacheInv, CacheTyped, RingSound, OwnSlots, FindsItsOwn, Unshared, Comes, Cache!Slot
  <2>2. QED
    BY <1>1, <2>1, OwnKept
<1>5. CountSound'
  <2>1. Reserved' = Reserved /\ Cache!InUse' = Cache!InUse /\ Cache!Counting' = Cache!Counting
    BY <1>1 DEF Reserved, Cache!InUse, Cache!Counting, Cache!Slot
  <2>2. \A d \in Clients : /\ client'[d] # "idle" => served'[d] # 0
                           /\ Counted(d)' \in Int /\ Counted(d) \in Int /\ Counted(d) <= Counted(d)'
    BY <1>1, CacheConstants DEF CacheInv, CacheTyped, CountSound, Counted
  <2>3. QED
    BY <1>1, <1>2, <1>3, <2>1, <2>2, CountKept
<1>6. QED
  BY <1>2, <1>3, <1>4, <1>5 DEF CacheInv

LEMMA ReadKeyStep ==
  ASSUME CacheInv, NEW c \in Clients, Cache!ReadKey(c)
  PROVE  CacheInv'
<1>1. /\ client' \in [Clients -> Cache!Places] /\ \A d \in Clients \ {c} : client'[d] = client[d]
      /\ UNCHANGED <<may, key, xy, len, asked, got, served>>
      /\ client[c] = "lookup" /\ client'[c] \in {"read", "solve"}
      /\ client'[c] = "read" => key[Cache!Slot(c)] = asked[c]
  BY CacheMoves DEF CacheInv, CacheTyped, Cache!Places, Cache!ReadKey
<1>2. CacheTyped'
  BY <1>1, CacheConstants DEF CacheInv, CacheTyped
<1>3. RingSound'
  BY <1>1, CacheConstants DEF CacheInv, CacheTyped, RingSound, Cache!Slot
<1>4. OwnSlots'
  <2>1. Unshared(Cache!Slot(c)') => FindsItsOwn(c)'
    BY <1>1 DEF CacheInv, CacheTyped, RingSound, OwnSlots, FindsItsOwn, Unshared, Comes, Cache!Slot
  <2>2. QED
    BY <1>1, <2>1, OwnKept
<1>5. CountSound'
  <2>1. Reserved' = Reserved /\ Cache!InUse' = Cache!InUse /\ Cache!Counting' = Cache!Counting
    BY <1>1 DEF Reserved, Cache!InUse, Cache!Counting, Cache!Slot
  <2>2. \A d \in Clients : /\ client'[d] # "idle" => served'[d] # 0
                           /\ Counted(d)' \in Int /\ Counted(d) \in Int /\ Counted(d) <= Counted(d)'
    BY <1>1, CacheConstants DEF CacheInv, CacheTyped, CountSound, Counted
  <2>3. QED
    BY <1>1, <1>2, <1>3, <2>1, <2>2, CountKept
<1>6. QED
  BY <1>2, <1>3, <1>4, <1>5 DEF CacheInv

LEMMA ReadAnswerStep ==
  ASSUME CacheInv, NEW c \in Clients, Cache!ReadAnswer(c)
  PROVE  CacheInv'
<1>1. /\ client' \in [Clients -> Cache!Places] /\ \A d \in Clients \ {c} : client'[d] = client[d]
      /\ UNCHANGED <<may, key, xy, len, asked, served>>
      /\ client[c] = "read" /\ client'[c] = "idle"
      /\ got' = [got EXCEPT ![c] = [hit |-> TRUE, answer |-> xy[Cache!Slot(c)]]]
  BY CacheMoves DEF CacheInv, CacheTyped, Cache!Places, Cache!ReadAnswer
<1>2. CacheTyped'
  BY <1>1, CacheConstants DEF CacheInv, CacheTyped, RingSound, Cache!Slot
<1>3. RingSound'
  BY <1>1, CacheConstants DEF CacheInv, CacheTyped, RingSound, Cache!Slot
<1>4. OwnSlots'
  <2>1. Unshared(Cache!Slot(c)') => FindsItsOwn(c)'
    <3> SUFFICES ASSUME Unshared(Cache!Slot(c)) PROVE FindsItsOwn(c)'
      BY <1>1 DEF Unshared, Comes, Cache!Slot
    <3>1. Cache!Slot(c) \in Slots /\ key[Cache!Slot(c)] # 0 /\ Comes(c, Cache!Slot(c))
      BY <1>1, CacheConstants DEF CacheInv, CacheTyped, RingSound, Cache!Slot, Comes
    <3>2. key[Cache!Slot(c)] = asked[c]
      BY <1>1 DEF CacheInv, OwnSlots, FindsItsOwn
    <3>3. \A d \in Clients : ~(client[d] = "publish" /\ Cache!Slot(d) = Cache!Slot(c))
      BY <1>1, <3>1 DEF CacheInv, RingSound, Unshared, Comes, Cache!Slot
    <3>4. xy[Cache!Slot(c)] = asked[c]
      BY <3>1, <3>2, <3>3 DEF CacheInv, OwnSlots, Fits
    <3>5. QED
      BY <1>1, <3>4 DEF CacheInv, CacheTyped, FindsItsOwn
  <2>2. QED
    BY <1>1, <2>1, OwnKept
<1>5. CountSound'
  <2>1. Reserved' = Reserved /\ Cache!InUse' = Cache!InUse /\ Cache!Counting' = Cache!Counting
    BY <1>1 DEF Reserved, Cache!InUse, Cache!Counting, Cache!Slot
  <2>2. \A d \in Clients : /\ client'[d] # "idle" => served'[d] # 0
                           /\ Counted(d)' \in Int /\ Counted(d) \in Int /\ Counted(d) <= Counted(d)'
    BY <1>1, CacheConstants DEF CacheInv, CacheTyped, CountSound, Counted
  <2>3. QED
    BY <1>1, <1>2, <1>3, <2>1, <2>2, CountKept
<1>6. QED
  BY <1>2, <1>3, <1>4, <1>5 DEF CacheInv

LEMMA SolveStep ==
  ASSUME CacheInv, NEW c \in Clients, Cache!Solve(c)
  PROVE  CacheInv'
<1>1. /\ client' \in [Clients -> Cache!Places] /\ \A d \in Clients \ {c} : client'[d] = client[d]
      /\ UNCHANGED <<may, key, xy, len, asked, served>>
      /\ client[c] = "solve" /\ client'[c] \in {"record", "idle"}
      /\ got' \in {got, [got EXCEPT ![c].answer = asked[c]]}
      /\ \A d \in Clients \ {c} : got'[d] = got[d]
  BY CacheMoves DEF CacheInv, CacheTyped, Cache!Places, Cache!Solve
<1>2. CacheTyped'
  BY <1>1, CacheConstants DEF CacheInv, CacheTyped
<1>3. RingSound'
  BY <1>1, CacheConstants DEF CacheInv, CacheTyped, RingSound, Cache!Slot
<1>4. OwnSlots'
  <2>1. Unshared(Cache!Slot(c)') => FindsItsOwn(c)'
    BY <1>1 DEF CacheInv, CacheTyped, RingSound, OwnSlots, FindsItsOwn, Unshared, Comes, Cache!Slot
  <2>2. QED
    BY <1>1, <2>1, OwnKept
<1>5. CountSound'
  <2>1. Reserved' = Reserved /\ Cache!InUse' = Cache!InUse /\ Cache!Counting' = Cache!Counting
    BY <1>1 DEF Reserved, Cache!InUse, Cache!Counting, Cache!Slot
  <2>2. \A d \in Clients : /\ client'[d] # "idle" => served'[d] # 0
                           /\ Counted(d)' \in Int /\ Counted(d) \in Int /\ Counted(d) <= Counted(d)'
    BY <1>1, CacheConstants DEF CacheInv, CacheTyped, CountSound, Counted
  <2>3. QED
    BY <1>1, <1>2, <1>3, <2>1, <2>2, CountKept
<1>6. QED
  BY <1>2, <1>3, <1>4, <1>5 DEF CacheInv

LEMMA ReadOldStep ==
  ASSUME CacheInv, NEW c \in Clients, Cache!ReadOld(c)
  PROVE  CacheInv'
<1>1. /\ client' \in [Clients -> Cache!Places] /\ \A d \in Clients \ {c} : client'[d] = client[d]
      /\ UNCHANGED <<may, key, xy, len, asked, got, served>>
      /\ client[c] = "record" /\ client'[c] \in {"idle", "count", "write"}
      /\ client'[c] = "count" => key[Cache!Slot(c)] = 0
      /\ client'[c] = "write" => key[Cache!Slot(c)] # 0
  BY CacheMoves DEF CacheInv, CacheTyped, Cache!Places, Cache!ReadOld, Cache!Empty
<1>2. CacheTyped'
  BY <1>1, CacheConstants DEF CacheInv, CacheTyped
<1>3. RingSound'
  BY <1>1, CacheConstants DEF CacheInv, CacheTyped, RingSound, Cache!Slot
<1>4. OwnSlots'
  <2>1. Unshared(Cache!Slot(c)') => FindsItsOwn(c)'
    BY <1>1 DEF CacheInv, CacheTyped, RingSound, OwnSlots, FindsItsOwn, Unshared, Comes, Cache!Slot
  <2>2. QED
    BY <1>1, <2>1, OwnKept
<1>5. CountSound'
  <2>1. Reserved' = Reserved /\ Cache!InUse' = Cache!InUse /\ Cache!Counting' = Cache!Counting
    BY <1>1, CacheConstants DEF CacheInv, CacheTyped, RingSound, Reserved, Cache!InUse, Cache!Counting, Cache!Slot, Cache!Empty
  <2>2. \A d \in Clients : /\ client'[d] # "idle" => served'[d] # 0
                           /\ Counted(d)' \in Int /\ Counted(d) \in Int /\ Counted(d) <= Counted(d)'
    BY <1>1, CacheConstants DEF CacheInv, CacheTyped, CountSound, Counted
  <2>3. QED
    BY <1>1, <1>2, <1>3, <2>1, <2>2, CountKept
<1>6. QED
  BY <1>2, <1>3, <1>4, <1>5 DEF CacheInv

(* The slot that is counted was reserved by nobody, and is from now on. *)
LEMMA CountStep ==
  ASSUME CacheInv, NEW c \in Clients, Cache!Count(c)
  PROVE  CacheInv'
<1>1. /\ client' \in [Clients -> Cache!Places] /\ \A d \in Clients \ {c} : client'[d] = client[d]
      /\ UNCHANGED <<may, key, xy, asked, got, served>>
      /\ client[c] = "count" /\ client'[c] = "write" /\ len' = len + 1
  BY CacheMoves DEF CacheInv, Cache!Places, Cache!Count
<1>2. CacheTyped'
  BY <1>1 DEF CacheInv, CacheTyped
<1>3. RingSound'
  BY <1>1 DEF CacheInv, CacheTyped, RingSound, Cache!Slot
<1>4. OwnSlots'
  <2>1. Unshared(Cache!Slot(c)') => FindsItsOwn(c)'
    BY <1>1 DEF CacheInv, RingSound, OwnSlots, FindsItsOwn, Unshared, Comes, Cache!Slot
  <2>2. QED
    BY <1>1, <2>1, OwnKept
<1>5. CountSound'
  <2>1. /\ IsFiniteSet(CountedCalls) /\ IsFiniteSet(Reserved) /\ IsFiniteSet(Cache!Counting)
        /\ {Cardinality(Cache!InUse), Cardinality(Cache!Counting), Cardinality(Reserved)} \subseteq Nat
    BY CacheFinite DEF CacheInv, RingSound
  <2>2. Cardinality(Reserved') <= len'
    <3>1. Reserved' = Reserved \cup {Cache!Slot(c)}
      BY <1>1 DEF Reserved, Cache!InUse, Cache!Slot, CacheInv, CacheTyped
    <3>2. Cardinality(Reserved') \in {Cardinality(Reserved), Cardinality(Reserved) + 1}
      BY <2>1, <3>1, FS_AddElement
    <3>3. QED
      BY <1>1, <2>1, <3>2 DEF CacheInv, CacheTyped, CountSound
  <2>3. len' <= Cardinality(CountedCalls')
    <3>1. \A d \in Clients : Counted(d) \in Int /\ Counted(d)' = IF d = c THEN Counted(d) + 1 ELSE Counted(d)
      BY <1>1, CacheConstants DEF CacheInv, CacheTyped, Counted
    <3>2. Counted(c) + 1 \in 1 .. CacheCalls
      BY <1>1, CacheConstants DEF CacheInv, CacheTyped, CountSound, Counted
    <3>3. CountedCalls' = CountedCalls \cup {<<c, Counted(c) + 1>>}
      BY <3>1, <3>2, CacheConstants DEF CountedCalls
    <3>4. <<c, Counted(c) + 1>> \notin CountedCalls
      BY <3>1 DEF CountedCalls
    <3>5. Cardinality(CountedCalls') = Cardinality(CountedCalls) + 1
      BY <2>1, <3>3, <3>4, FS_AddElement
    <3>6. QED
      BY <1>1, <2>1, <3>5, FS_CardinalityType DEF CacheInv, CacheTyped, CountSound
  <2>4. (\A s \in Slots : Unshared(s)') => len' = Cardinality(Cache!InUse') + Cardinality(Cache!Counting')
    <3> SUFFICES ASSUME \A s \in Slots : Unshared(s)
                 PROVE  len' = Cardinality(Cache!InUse') + Cardinality(Cache!Counting')
      BY <1>1 DEF Unshared, Comes
    <3>1. Cache!Slot(c) \in Slots
      BY <1>1, CacheConstants DEF CacheInv, CacheTyped, RingSound, Cache!Slot
    <3>2. key[Cache!Slot(c)] = 0
      BY <1>1, <3>1 DEF CacheInv, OwnSlots, FindsItsOwn
    <3>3. Cache!Counting' = Cache!Counting \cup {c} /\ c \notin Cache!Counting
      BY <1>1, <3>2 DEF Cache!Counting, Cache!Slot, Cache!Empty
    <3>4. Cardinality(Cache!Counting') = Cardinality(Cache!Counting) + 1
      BY <2>1, <3>3, FS_AddElement
    <3>5. Cache!InUse' = Cache!InUse
      BY <1>1 DEF Cache!InUse
    <3>6. QED
      BY <1>1, <2>1, <3>4, <3>5 DEF CacheInv, CountSound
  <2>5. QED
    BY <1>1, <2>2, <2>3, <2>4 DEF CacheInv, CountSound
<1>6. QED
  BY <1>2, <1>3, <1>4, <1>5 DEF CacheInv

(* The answer is there before the key, and the slot stays reserved. *)
LEMMA WriteAnswerStep ==
  ASSUME CacheInv, NEW c \in Clients, Cache!WriteAnswer(c)
  PROVE  CacheInv'
<1>1. /\ client' \in [Clients -> Cache!Places] /\ \A d \in Clients \ {c} : client'[d] = client[d]
      /\ UNCHANGED <<may, key, len, asked, got, served>>
      /\ client[c] = "write" /\ client'[c] = "publish"
      /\ xy' = [xy EXCEPT ![Cache!Slot(c)] = asked[c]]
  BY CacheMoves DEF CacheInv, Cache!Places, Cache!WriteAnswer
<1>2. CacheTyped'
  BY <1>1 DEF CacheInv, CacheTyped
<1>3. asked[c] \in may[c] /\ asked[c] \in Keys /\ asked[c] # 0 /\ Cache!Slot(c) \in Slots /\ Cache!Slot(c) = SlotOf(asked[c])
  BY <1>1, CacheConstants DEF CacheInv, CacheTyped, RingSound, Cache!Slot
<1>4. RingSound'
  BY <1>1, <1>3 DEF CacheInv, CacheTyped, RingSound, Cache!Slot
<1>5. OwnSlots'
  <2>1. ASSUME NEW s \in Slots, Unshared(s) PROVE Fits(s)'
    BY <1>1, <1>3, <2>1 DEF CacheInv, CacheTyped, OwnSlots, Fits, Cache!Slot
  <2>2. ASSUME NEW d \in Clients, Unshared(Cache!Slot(d)), client[d] # "idle", d # c PROVE Cache!Slot(d) # Cache!Slot(c)
    BY <1>1, <1>3, <2>2 DEF CacheInv, RingSound, Unshared, Comes, Cache!Slot
  <2>3. ASSUME NEW d \in Clients, Unshared(Cache!Slot(d)) PROVE FindsItsOwn(d)'
    BY <1>1, <1>3, <2>2, <2>3 DEF CacheInv, CacheTyped, RingSound, OwnSlots, FindsItsOwn, Cache!Slot
  <2>4. QED
    BY <1>1, <2>1, <2>3 DEF OwnSlots, Unshared, Comes, Cache!Slot
<1>6. CountSound'
  <2>1. Reserved' = Reserved /\ Cache!InUse' = Cache!InUse /\ Cache!Counting' = Cache!Counting
    BY <1>1 DEF Reserved, Cache!InUse, Cache!Counting, Cache!Slot
  <2>2. \A d \in Clients : /\ client'[d] # "idle" => served'[d] # 0
                           /\ Counted(d)' \in Int /\ Counted(d) \in Int /\ Counted(d) <= Counted(d)'
    BY <1>1, CacheConstants DEF CacheInv, CacheTyped, CountSound, Counted
  <2>3. QED
    BY <1>1, <1>2, <1>4, <2>1, <2>2, CountKept
<1>7. QED
  BY <1>2, <1>4, <1>5, <1>6 DEF CacheInv

(* The slot comes into use that its client had reserved. *)
LEMMA CachePublishStep ==
  ASSUME CacheInv, NEW c \in Clients, Cache!Publish(c)
  PROVE  CacheInv'
<1>1. /\ client' \in [Clients -> Cache!Places] /\ \A d \in Clients \ {c} : client'[d] = client[d]
      /\ UNCHANGED <<may, xy, len, asked, got, served>>
      /\ client[c] = "publish" /\ client'[c] = "idle"
      /\ key' = [key EXCEPT ![Cache!Slot(c)] = asked[c]]
  BY CacheMoves DEF CacheInv, Cache!Places, Cache!Publish
<1>2. CacheTyped'
  BY <1>1 DEF CacheInv, CacheTyped
<1>3. asked[c] \in may[c] /\ asked[c] \in Keys /\ asked[c] # 0 /\ Cache!Slot(c) \in Slots /\ Cache!Slot(c) = SlotOf(asked[c])
  BY <1>1, CacheConstants DEF CacheInv, CacheTyped, RingSound, Cache!Slot
<1>4. RingSound'
  BY <1>1, <1>3 DEF CacheInv, CacheTyped, RingSound, Cache!Slot
<1>5. OwnSlots'
  <2>1. ASSUME NEW s \in Slots, Unshared(s) PROVE Fits(s)'
    <3>1. CASE s = Cache!Slot(c)
      BY <1>1, <1>3, <2>1, <3>1 DEF CacheInv, CacheTyped, OwnSlots, FindsItsOwn, Fits
    <3>2. CASE s # Cache!Slot(c)
      BY <1>1, <1>3, <2>1, <3>2 DEF CacheInv, CacheTyped, OwnSlots, Fits, Cache!Slot
    <3>3. QED
      BY <3>1, <3>2
  <2>2. ASSUME NEW d \in Clients, Unshared(Cache!Slot(d)), client[d] # "idle", d # c PROVE Cache!Slot(d) # Cache!Slot(c)
    BY <1>1, <1>3, <2>2 DEF CacheInv, RingSound, Unshared, Comes, Cache!Slot
  <2>3. ASSUME NEW d \in Clients, Unshared(Cache!Slot(d)) PROVE FindsItsOwn(d)'
    BY <1>1, <1>3, <2>2, <2>3 DEF CacheInv, CacheTyped, RingSound, OwnSlots, FindsItsOwn, Cache!Slot
  <2>4. QED
    BY <1>1, <2>1, <2>3 DEF OwnSlots, Unshared, Comes, Cache!Slot
<1>6. CountSound'
  <2>1. /\ IsFiniteSet(Cache!InUse) /\ IsFiniteSet(Cache!Counting)
        /\ {Cardinality(Cache!InUse), Cardinality(Cache!Counting)} \subseteq Nat
    BY CacheFinite DEF CacheInv, RingSound
  <2>2. Reserved' = Reserved /\ Cache!InUse' = Cache!InUse \cup {Cache!Slot(c)}
    BY <1>1, <1>3 DEF CacheInv, CacheTyped, Reserved, Cache!InUse, Cache!Slot, Cache!Empty
  <2>3. CountedCalls' = CountedCalls
    BY <1>1 DEF CountedCalls, Counted
  <2>4. (\A s \in Slots : Unshared(s)) => len = Cardinality(Cache!InUse') + Cardinality(Cache!Counting')
    <3> SUFFICES ASSUME \A s \in Slots : Unshared(s)
                 PROVE  len = Cardinality(Cache!InUse') + Cardinality(Cache!Counting')
      OBVIOUS
    <3>1. \A d \in Clients : client[d] \in {"write", "publish"} /\ d # c => Cache!Slot(d) # Cache!Slot(c)
      BY <1>1, <1>3 DEF CacheInv, RingSound, Unshared, Comes, Cache!Slot
    <3>2. Cache!Counting' = Cache!Counting \ {c}
      BY <1>1, <1>3, <3>1 DEF CacheInv, CacheTyped, Cache!Counting, Cache!Slot, Cache!Empty
    <3>3. c \in Cache!Counting <=> Cache!Slot(c) \notin Cache!InUse
      BY <1>1, <1>3 DEF Cache!Counting, Cache!InUse, Cache!Empty
    <3>4. Cardinality(Cache!InUse') = IF c \in Cache!Counting THEN Cardinality(Cache!InUse) + 1 ELSE Cardinality(Cache!InUse)
      BY <2>1, <2>2, <3>3, FS_AddElement
    <3>5. Cardinality(Cache!Counting') = IF c \in Cache!Counting THEN Cardinality(Cache!Counting) - 1 ELSE Cardinality(Cache!Counting)
      BY <2>1, <3>2, FS_RemoveElement
    <3>6. QED
      BY <2>1, <3>4, <3>5 DEF CacheInv, CountSound
  <2>5. QED
    BY <1>1, <2>2, <2>3, <2>4 DEF CacheInv, CountSound, Unshared, Comes
<1>7. QED
  BY <1>2, <1>4, <1>5, <1>6 DEF CacheInv

LEMMA CacheStep ==
  ASSUME CacheInv, [Cache!Next]_cacheVars
  PROVE  CacheInv'
<1>1. CASE UNCHANGED cacheVars
  BY <1>1 DEF cacheVars, CacheInv, CacheTyped, RingSound, OwnSlots, Fits, FindsItsOwn, CountSound, Unshared, Comes,
              Reserved, CountedCalls, Counted, Cache!InUse, Cache!Counting, Cache!Slot
<1>2. QED
  BY <1>1, CallStep, ReadKeyStep, ReadAnswerStep, SolveStep, ReadOldStep, CountStep, WriteAnswerStep, CachePublishStep
     DEF Cache!Next

(* A slot that is not raced for has payloads of one client only. *)
LEMMA UnracedIsUnshared ==
  ASSUME NEW s, ~Cache!Raced(s)
  PROVE  Unshared(s)
<1> SUFFICES ASSUME NEW c \in Clients, NEW d \in Clients, Comes(c, s), Comes(d, s), c # d PROVE FALSE
  BY DEF Unshared
<1>1. {c, d} \in SUBSET Cache!Within(s) /\ IsFiniteSet(Cache!Within(s))
  BY CacheConstants, FS_Subset DEF Cache!Within, Comes
<1>2. Cardinality({c, d}) = 2
  <2>1. IsFiniteSet({c}) /\ Cardinality({c}) = 1
    BY FS_Singleton
  <2>2. Cardinality({c} \cup {d}) = 2
    BY <2>1, FS_AddElement
  <2>3. {c} \cup {d} = {c, d}
    OBVIOUS
  <2>4. QED
    BY <2>2, <2>3
<1>3. Cardinality(Cache!Within(s)) \in Nat /\ Cardinality({c, d}) <= Cardinality(Cache!Within(s))
  BY <1>1, FS_Subset, FS_CardinalityType
<1>4. QED
  BY <1>2, <1>3, SameCardinality DEF Cache!Raced

LEMMA CacheSound == CacheInv => Cache!HitsAreOfTheSlot /\ Cache!SlotsCounted
<1> SUFFICES ASSUME CacheInv PROVE Cache!HitsAreOfTheSlot /\ Cache!SlotsCounted
  OBVIOUS
<1>1. Cache!HitsAreOfTheSlot
  BY UnracedIsUnshared DEF CacheInv, RingSound, OwnSlots, FindsItsOwn, Cache!HitsAreOfTheSlot, Cache!Empty
<1>2. /\ IsFiniteSet(Reserved) /\ Cardinality(CountedCalls) <= Cardinality(Clients) * CacheCalls
      /\ {Cardinality(Cache!InUse), Cardinality(Reserved), Cardinality(CountedCalls), Cardinality(Clients)} \subseteq Nat
  BY CacheFinite DEF CacheInv, RingSound
<1>3. len \in 0 .. Cardinality(Clients) * CacheCalls
  <2>1. Cardinality(Clients) * CacheCalls \in Nat
    BY <1>2, CacheConstants
  <2>2. QED
    BY <1>2, <2>1 DEF CacheInv, CacheTyped, CountSound
<1>4. Cache!TypeOK
  BY <1>3, SameCardinality DEF CacheInv, CacheTyped, Cache!TypeOK, Cache!Empty
<1>5. len >= Cardinality(Cache!InUse)
  <2>1. Cache!InUse \in SUBSET Reserved
    BY DEF Reserved
  <2>2. Cardinality(Cache!InUse) <= Cardinality(Reserved)
    BY <1>2, <2>1, FS_Subset
  <2>3. QED
    BY <1>2, <2>2 DEF CacheInv, CacheTyped, CountSound
<1>6. QED
  BY <1>1, <1>4, <1>5, UnracedIsUnshared, SameCardinality DEF CacheInv, CountSound, Cache!SlotsCounted

-----------------------------------------------------------------------------
(* The watch over builds (BuildWatch) *)

MonitorPlaces == {"idle", "probe", "check", "keep", "warn", "put", "len", "age", "drop", "room", "count", "pick", "cut"}

(* An actor between visits has nothing in its hands, one that brings a     *)
(* build has it until it is over, and only the daemon's own round ages the *)
(* list with empty hands.                                                  *)
MonitorTyped ==
  /\ first \in [Urls -> Builds \cup {0}]
  /\ listed \in [Urls -> [build : Builds \cup {0}, seen : Int]]
  /\ clock \in Nat
  /\ where \in [Monitor!Actors -> MonitorPlaces]
  /\ has \in [Monitor!Actors -> [url : Urls \cup {0}, build : Builds \cup {0}]]
  /\ victims \in [Monitor!Actors -> SUBSET Urls]
  /\ excess \in [Monitor!Actors -> Nat]
  /\ probes \subseteq Urls
  /\ \A a \in Monitor!Actors :
       /\ where[a] \in {"idle", "probe"} => has[a].build = 0
       /\ where[a] \notin {"idle", "probe", "age", "drop"} => has[a].build # 0
       /\ has[a].build # 0 => has[a].url \in Urls

(* What is put was noticed before, and the first build of an address is    *)
(* never replaced.                                                         *)
Noticed(u, b) == first[u] # 0 /\ (first[u] = b \/ <<u, b>> \in reported)
NoticedSound ==
  /\ \A u \in Monitor!Listed \ Pages : Noticed(u, listed[u].build)
  /\ \A a \in Monitor!Actors :
       /\ where[a] = "put" /\ has[a].url \notin Pages => Noticed(has[a].url, has[a].build)
       /\ where[a] = "warn" => first[has[a].url] # 0

(* Of any of the actors that are making room, one will make enough of it   *)
(* for the list to be as long as the others allow.                         *)
Sweepers == {a \in Monitor!Putting : where[a] \in {"pick", "cut"}}
Takes(a) == IF where[a] = "pick" THEN excess[a] ELSE Cardinality(victims[a] \cap Monitor!Listed)
RoomComes ==
  /\ Cardinality(Monitor!Listed) <= ListCap + Cardinality(Monitor!Putting)
  /\ \A S \in SUBSET Sweepers : S # {} =>
       \E a \in S : Cardinality(Monitor!Listed) <= ListCap + Cardinality(Monitor!Putting \ S) + Takes(a)

MonitorInv == MonitorTyped /\ NoticedSound /\ RoomComes

-----------------------------------------------------------------------------
LEMMA MonitorConstants ==
  /\ IsFiniteSet(Urls) /\ IsFiniteSet(Visitors) /\ Monitor!Daemon \notin Visitors
  /\ Pages \subseteq Urls /\ 0 \notin Builds /\ ListCap \in Nat
  /\ Usize \in Nat /\ Cardinality(Urls) < Usize
BY StaticsAssumption, SameCardinality DEF Monitor!WatchAssumption, Monitor!IsFiniteSet, IsFiniteSet, Monitor!Unknown

LEMMA UrlsCount == \A X \in SUBSET Urls : IsFiniteSet(X) /\ Cardinality(X) \in Nat
BY MonitorConstants, FS_Subset, FS_CardinalityType

LEMMA ActorsCount == \A X \in SUBSET Monitor!Actors : IsFiniteSet(X) /\ Cardinality(X) \in Nat
<1>1. IsFiniteSet(Visitors \cup {Monitor!Daemon})
  BY MonitorConstants, FS_AddElement
<1>2. QED
  BY <1>1, FS_Subset, FS_CardinalityType DEF Monitor!Actors

LEMMA MonitorInitially == Monitor!Init => MonitorInv
<1> SUFFICES ASSUME Monitor!Init PROVE MonitorInv
  OBVIOUS
<1> USE DEF Monitor!Init, Monitor!Unknown, Monitor!Absent, Monitor!Nothing
<1>1. MonitorTyped
  BY DEF MonitorTyped, MonitorPlaces
<1>2. Monitor!Listed = {} /\ Monitor!Putting = {} /\ Sweepers = {}
  BY DEF Monitor!Listed, Monitor!Putting, Sweepers
<1>3. NoticedSound
  BY <1>2 DEF NoticedSound
<1>4. RoomComes
  BY <1>2, MonitorConstants, FS_EmptySet DEF RoomComes
<1>5. QED
  BY <1>1, <1>3, <1>4 DEF MonitorInv

(* The actor whose step it is moves alone. *)
LEMMA MonitorMoves ==
  ASSUME MonitorTyped, NEW a \in Monitor!Actors, NEW b, NEW p \in MonitorPlaces, Monitor!Goes(a, b, p)
  PROVE  /\ where[a] = b /\ where'[a] = p /\ where' \in [Monitor!Actors -> MonitorPlaces]
         /\ \A d \in Monitor!Actors \ {a} : where'[d] = where[d]
BY DEF MonitorTyped, Monitor!Goes

(* A step that leaves the list and those who make room for it as they are. *)
LEMMA RoomKept ==
  ASSUME MonitorInv, Monitor!Listed' = Monitor!Listed, Monitor!Putting' = Monitor!Putting,
         Sweepers' = Sweepers, \A a \in Sweepers : Takes(a)' = Takes(a)
  PROVE  RoomComes'
BY DEF MonitorInv, RoomComes

(* Where the list fits, it needs nobody to make room. *)
LEMMA RoomEnough ==
  ASSUME MonitorInv, MonitorTyped', Monitor!Listed' = Monitor!Listed, Cardinality(Monitor!Listed) <= ListCap
  PROVE  RoomComes'
<1>1. Cardinality(Monitor!Listed) \in Nat
  BY UrlsCount DEF Monitor!Listed
<1>2. \A a \in Monitor!Actors : Takes(a)' \in Nat
  BY UrlsCount DEF MonitorTyped, Takes
<1>3. Cardinality(Monitor!Putting') \in Nat /\ \A S : Cardinality(Monitor!Putting' \ S) \in Nat
  BY ActorsCount DEF Monitor!Putting
<1>4. Sweepers' \subseteq Monitor!Actors
  BY DEF Sweepers, Monitor!Putting
<1>5. Cardinality(Monitor!Listed') <= ListCap + Cardinality(Monitor!Putting')
  BY <1>1, <1>3, MonitorConstants
<1>6. ASSUME NEW S \in SUBSET Sweepers', S # {}
      PROVE  \E a \in S : Cardinality(Monitor!Listed') <= ListCap + Cardinality(Monitor!Putting' \ S) + Takes(a)'
  <2>1. PICK a \in S : a \in Monitor!Actors
    BY <1>4, <1>6
  <2>2. Takes(a)' \in Nat /\ Cardinality(Monitor!Putting' \ S) \in Nat
    BY <1>2, <1>3, <2>1
  <2>3. QED
    BY <1>1, <2>1, <2>2, MonitorConstants
<1>7. QED
  BY <1>5, <1>6 DEF RoomComes

LEMMA VisitStep ==
  ASSUME MonitorInv, NEW a \in Visitors, Monitor!Visit(a)
  PROVE  MonitorInv'
<1>1. /\ a \in Monitor!Actors /\ where' \in [Monitor!Actors -> MonitorPlaces]
      /\ \A d \in Monitor!Actors \ {a} : where'[d] = where[d]
      /\ UNCHANGED <<first, listed, reported, clock, victims, excess, probes>>
      /\ where[a] = "idle" /\ where'[a] \in {"put", "check"}
      /\ has'[a].url \in Urls /\ has'[a].build \in Builds
      /\ where'[a] = "put" => has'[a].url \in Pages
      /\ has' \in [Monitor!Actors -> [url : Urls \cup {0}, build : Builds \cup {0}]]
      /\ \A d \in Monitor!Actors \ {a} : has'[d] = has[d]
  BY MonitorMoves DEF MonitorInv, MonitorTyped, MonitorPlaces, Monitor!Actors, Monitor!gcVars, Monitor!Visit
<1>2. MonitorTyped'
  BY <1>1, MonitorConstants DEF MonitorInv, MonitorTyped, MonitorPlaces
<1>3. NoticedSound'
  BY <1>1, MonitorConstants DEF MonitorInv, MonitorTyped, NoticedSound, Noticed, Monitor!Listed
<1>4. RoomComes'
  <2>1. Monitor!Listed' = Monitor!Listed /\ Monitor!Putting' = Monitor!Putting /\ Sweepers' = Sweepers
    BY <1>1 DEF MonitorInv, MonitorTyped, Monitor!Listed, Monitor!Putting, Monitor!Unknown, Sweepers
  <2>2. \A d \in Sweepers : Takes(d)' = Takes(d)
    BY <1>1, <2>1 DEF MonitorTyped, Takes, Sweepers, Monitor!Putting
  <2>3. QED
    BY <2>1, <2>2, RoomKept
<1>5. QED
  BY <1>2, <1>3, <1>4 DEF MonitorInv

LEMMA AwakeStep ==
  ASSUME MonitorInv, Monitor!Awake
  PROVE  MonitorInv'
<1>1. /\ Monitor!Daemon \in Monitor!Actors /\ where' \in [Monitor!Actors -> MonitorPlaces]
      /\ \A d \in Monitor!Actors \ {Monitor!Daemon} : where'[d] = where[d]
      /\ UNCHANGED <<first, listed, reported, clock, has, victims, excess, probes>>
      /\ where[Monitor!Daemon] = "idle" /\ where'[Monitor!Daemon] = "age"
  BY MonitorMoves DEF MonitorInv, MonitorTyped, MonitorPlaces, Monitor!Actors, Monitor!gcVars, Monitor!Awake
<1>2. MonitorTyped'
  BY <1>1, MonitorConstants DEF MonitorInv, MonitorTyped, MonitorPlaces
<1>3. NoticedSound'
  BY <1>1, MonitorConstants DEF MonitorInv, MonitorTyped, NoticedSound, Noticed, Monitor!Listed
<1>4. RoomComes'
  <2>1. Monitor!Listed' = Monitor!Listed /\ Monitor!Putting' = Monitor!Putting /\ Sweepers' = Sweepers
    BY <1>1 DEF MonitorInv, MonitorTyped, Monitor!Listed, Monitor!Putting, Monitor!Unknown, Sweepers
  <2>2. \A d \in Sweepers : Takes(d)' = Takes(d)
    BY <1>1, <2>1 DEF MonitorTyped, Takes, Sweepers, Monitor!Putting
  <2>3. QED
    BY <2>1, <2>2, RoomKept
<1>5. QED
  BY <1>2, <1>3, <1>4 DEF MonitorInv

LEMMA ProbedStep ==
  ASSUME MonitorInv, Monitor!Probed
  PROVE  MonitorInv'
<1>1. /\ Monitor!Daemon \in Monitor!Actors /\ where' \in [Monitor!Actors -> MonitorPlaces]
      /\ \A d \in Monitor!Actors \ {Monitor!Daemon} : where'[d] = where[d]
      /\ UNCHANGED <<first, listed, reported, clock, has, victims, excess, probes, runs>>
      /\ where[Monitor!Daemon] = "probe" /\ where'[Monitor!Daemon] = "idle"
  BY MonitorMoves DEF MonitorInv, MonitorTyped, MonitorPlaces, Monitor!Actors, Monitor!gcVars, Monitor!Probed
<1>2. MonitorTyped'
  BY <1>1, MonitorConstants DEF MonitorInv, MonitorTyped, MonitorPlaces
<1>3. NoticedSound'
  BY <1>1, MonitorConstants DEF MonitorInv, MonitorTyped, NoticedSound, Noticed, Monitor!Listed
<1>4. RoomComes'
  <2>1. Monitor!Listed' = Monitor!Listed /\ Monitor!Putting' = Monitor!Putting /\ Sweepers' = Sweepers
    BY <1>1 DEF MonitorInv, MonitorTyped, Monitor!Listed, Monitor!Putting, Monitor!Unknown, Sweepers
  <2>2. \A d \in Sweepers : Takes(d)' = Takes(d)
    BY <1>1, <2>1 DEF MonitorTyped, Takes, Sweepers, Monitor!Putting
  <2>3. QED
    BY <2>1, <2>2, RoomKept
<1>5. QED
  BY <1>2, <1>3, <1>4 DEF MonitorInv

LEMMA ProbeStep ==
  ASSUME MonitorInv, Monitor!Probe
  PROVE  MonitorInv'
<1>1. /\ Monitor!Daemon \in Monitor!Actors /\ where' \in [Monitor!Actors -> MonitorPlaces]
      /\ \A d \in Monitor!Actors \ {Monitor!Daemon} : where'[d] = where[d]
      /\ UNCHANGED <<first, listed, reported, clock, victims, excess, runs>>
      /\ probes' \subseteq Urls
      /\ where[Monitor!Daemon] = "probe" /\ where'[Monitor!Daemon] \in {"probe", "check"}
      /\ has' \in [Monitor!Actors -> [url : Urls \cup {0}, build : Builds \cup {0}]]
      /\ \A d \in Monitor!Actors \ {Monitor!Daemon} : has'[d] = has[d]
      /\ where'[Monitor!Daemon] = "probe" => has' = has
      /\ where'[Monitor!Daemon] = "check" => has'[Monitor!Daemon].build \in Builds /\ has'[Monitor!Daemon].url \in Urls
  <2>1. /\ Monitor!Daemon \in Monitor!Actors /\ UNCHANGED <<first, listed, reported, clock, victims, excess, runs>>
    BY DEF Monitor!Actors, Monitor!Probe, Monitor!gcVars
  <2>2. PICK u \in probes :
          \/ /\ Monitor!Goes(Monitor!Daemon, "probe", "check")
             /\ \E b \in Builds : has' = [has EXCEPT ![Monitor!Daemon] = [url |-> u, build |-> b]]
          \/ where[Monitor!Daemon] = "probe" /\ UNCHANGED <<where, has>>
    BY DEF Monitor!Probe
  <2>3. PICK p \in SUBSET Urls : probes' = p
    BY DEF Monitor!Probe, MonitorInv, MonitorTyped
  <2>4. CASE where[Monitor!Daemon] = "probe" /\ UNCHANGED <<where, has>>
    BY <2>1, <2>3, <2>4 DEF MonitorInv, MonitorTyped
  <2>5. CASE /\ Monitor!Goes(Monitor!Daemon, "probe", "check")
             /\ \E b \in Builds : has' = [has EXCEPT ![Monitor!Daemon] = [url |-> u, build |-> b]]
    <3>1. PICK b \in Builds : has' = [has EXCEPT ![Monitor!Daemon] = [url |-> u, build |-> b]]
      BY <2>5
    <3>2. QED
      BY <2>1, <2>3, <2>5, <3>1, MonitorMoves DEF MonitorInv, MonitorTyped, MonitorPlaces
  <2>6. QED
    BY <2>2, <2>4, <2>5
<1>2. MonitorTyped'
  BY <1>1, MonitorConstants DEF MonitorInv, MonitorTyped, MonitorPlaces
<1>3. NoticedSound'
  BY <1>1, MonitorConstants DEF MonitorInv, MonitorTyped, NoticedSound, Noticed, Monitor!Listed
<1>4. RoomComes'
  <2>1. Monitor!Listed' = Monitor!Listed /\ Monitor!Putting' = Monitor!Putting /\ Sweepers' = Sweepers
    BY <1>1 DEF MonitorInv, MonitorTyped, Monitor!Listed, Monitor!Putting, Monitor!Unknown, Sweepers
  <2>2. \A d \in Sweepers : Takes(d)' = Takes(d)
    BY <1>1, <2>1 DEF MonitorTyped, Takes, Sweepers, Monitor!Putting
  <2>3. QED
    BY <2>1, <2>2, RoomKept
<1>5. QED
  BY <1>2, <1>3, <1>4 DEF MonitorInv

LEMMA CheckStep ==
  ASSUME MonitorInv, NEW a \in Monitor!Actors, Monitor!Check(a)
  PROVE  MonitorInv'
<1>1. /\ a \in Monitor!Actors /\ where' \in [Monitor!Actors -> MonitorPlaces]
      /\ \A d \in Monitor!Actors \ {a} : where'[d] = where[d]
      /\ UNCHANGED <<first, listed, reported, clock, victims, excess, probes, runs>>
      /\ where[a] = "check" /\ where'[a] \in {"keep", "put", "probe"}
      /\ where'[a] = "put" => first[has[a].url] = has[a].build
      /\ has' = IF where'[a] = "probe" THEN [has EXCEPT ![a] = [url |-> 0, build |-> 0]] ELSE has
  BY MonitorMoves DEF MonitorInv, MonitorTyped, MonitorPlaces, Monitor!Actors, Monitor!gcVars, Monitor!Check, Monitor!Over, Monitor!Changed, Monitor!Nothing, Monitor!Unknown
<1>2. MonitorTyped'
  BY <1>1, MonitorConstants DEF MonitorInv, MonitorTyped, MonitorPlaces
<1>3. NoticedSound'
  BY <1>1, MonitorConstants DEF MonitorInv, MonitorTyped, NoticedSound, Noticed, Monitor!Listed
<1>4. RoomComes'
  <2>1. Monitor!Listed' = Monitor!Listed /\ Monitor!Putting' = Monitor!Putting /\ Sweepers' = Sweepers
    BY <1>1 DEF MonitorInv, MonitorTyped, Monitor!Listed, Monitor!Putting, Monitor!Unknown, Sweepers
  <2>2. \A d \in Sweepers : Takes(d)' = Takes(d)
    BY <1>1, <2>1 DEF MonitorTyped, Takes, Sweepers, Monitor!Putting
  <2>3. QED
    BY <2>1, <2>2, RoomKept
<1>5. QED
  BY <1>2, <1>3, <1>4 DEF MonitorInv

LEMMA KeepStep ==
  ASSUME MonitorInv, NEW a \in Monitor!Actors, Monitor!Keep(a)
  PROVE  MonitorInv'
<1>1. /\ a \in Monitor!Actors /\ where' \in [Monitor!Actors -> MonitorPlaces]
      /\ \A d \in Monitor!Actors \ {a} : where'[d] = where[d]
      /\ UNCHANGED <<listed, reported, clock, has, victims, excess, probes, runs>>
      /\ where[a] = "keep" /\ where'[a] = "warn"
      /\ first' = [first EXCEPT ![has[a].url] = IF first[has[a].url] = 0 THEN has[a].build ELSE first[has[a].url]]
  BY MonitorMoves DEF MonitorInv, MonitorTyped, MonitorPlaces, Monitor!Actors, Monitor!gcVars, Monitor!Keep, Monitor!Unknown
<1>2. MonitorTyped'
  BY <1>1, MonitorConstants DEF MonitorInv, MonitorTyped, MonitorPlaces
<1>3. NoticedSound'
  BY <1>1, MonitorConstants DEF MonitorInv, MonitorTyped, NoticedSound, Noticed, Monitor!Listed
<1>4. RoomComes'
  <2>1. Monitor!Listed' = Monitor!Listed /\ Monitor!Putting' = Monitor!Putting /\ Sweepers' = Sweepers
    BY <1>1 DEF MonitorInv, MonitorTyped, Monitor!Listed, Monitor!Putting, Monitor!Unknown, Sweepers
  <2>2. \A d \in Sweepers : Takes(d)' = Takes(d)
    BY <1>1, <2>1 DEF MonitorTyped, Takes, Sweepers, Monitor!Putting
  <2>3. QED
    BY <2>1, <2>2, RoomKept
<1>5. QED
  BY <1>2, <1>3, <1>4 DEF MonitorInv

LEMMA WarnStep ==
  ASSUME MonitorInv, NEW a \in Monitor!Actors, Monitor!Warn(a)
  PROVE  MonitorInv'
<1>1. /\ a \in Monitor!Actors /\ where' \in [Monitor!Actors -> MonitorPlaces]
      /\ \A d \in Monitor!Actors \ {a} : where'[d] = where[d]
      /\ UNCHANGED <<first, listed, clock, has, victims, excess, probes, runs>>
      /\ where[a] = "warn" /\ where'[a] = "put"
      /\ reported' = reported \cup {<<has[a].url, has[a].build>>}
  BY MonitorMoves DEF MonitorInv, MonitorTyped, MonitorPlaces, Monitor!Actors, Monitor!gcVars, Monitor!Warn
<1>2. MonitorTyped'
  BY <1>1, MonitorConstants DEF MonitorInv, MonitorTyped, MonitorPlaces
<1>3. NoticedSound'
  BY <1>1, MonitorConstants DEF MonitorInv, MonitorTyped, NoticedSound, Noticed, Monitor!Listed
<1>4. RoomComes'
  <2>1. Monitor!Listed' = Monitor!Listed /\ Monitor!Putting' = Monitor!Putting /\ Sweepers' = Sweepers
    BY <1>1 DEF MonitorInv, MonitorTyped, Monitor!Listed, Monitor!Putting, Monitor!Unknown, Sweepers
  <2>2. \A d \in Sweepers : Takes(d)' = Takes(d)
    BY <1>1, <2>1 DEF MonitorTyped, Takes, Sweepers, Monitor!Putting
  <2>3. QED
    BY <2>1, <2>2, RoomKept
<1>5. QED
  BY <1>2, <1>3, <1>4 DEF MonitorInv

LEMMA LookStep ==
  ASSUME MonitorInv, NEW a \in Monitor!Actors, Monitor!Look(a)
  PROVE  MonitorInv'
<1>1. /\ a \in Monitor!Actors /\ where' \in [Monitor!Actors -> MonitorPlaces]
      /\ \A d \in Monitor!Actors \ {a} : where'[d] = where[d]
      /\ UNCHANGED <<first, listed, reported, clock, victims, excess, probes, runs>>
      /\ where[a] = "len" /\ where'[a] \in {"idle", "probe", "age"}
      /\ where'[a] = "age" => has' = has
      /\ where'[a] # "age" => /\ has' = [has EXCEPT ![a] = [url |-> 0, build |-> 0]]
                              /\ Cardinality(Monitor!Listed) <= ListCap
  BY MonitorMoves, SameCardinality DEF MonitorInv, MonitorTyped, MonitorPlaces, Monitor!Actors, Monitor!gcVars, Monitor!Look, Monitor!Over, Monitor!Fits, Monitor!Nothing, Monitor!Unknown
<1>2. MonitorTyped'
  <2>1. has' \in [Monitor!Actors -> [url : Urls \cup {0}, build : Builds \cup {0}]]
    BY <1>1 DEF MonitorInv, MonitorTyped
  <2>2. ASSUME NEW d \in Monitor!Actors
        PROVE  /\ where'[d] \in {"idle", "probe"} => has'[d].build = 0
               /\ where'[d] \notin {"idle", "probe", "age", "drop"} => has'[d].build # 0
               /\ has'[d].build # 0 => has'[d].url \in Urls
    <3>1. CASE d = a
      BY <1>1, <3>1 DEF MonitorInv, MonitorTyped
    <3>2. CASE d # a
      BY <1>1, <3>2 DEF MonitorInv, MonitorTyped
    <3>3. QED
      BY <3>1, <3>2
  <2>3. QED
    BY <1>1, <2>1, <2>2 DEF MonitorInv, MonitorTyped
<1>3. NoticedSound'
  BY <1>1, MonitorConstants DEF MonitorInv, MonitorTyped, NoticedSound, Noticed, Monitor!Listed
<1>4. RoomComes'
  <2>1. CASE where'[a] = "age"
    <3>1. Monitor!Listed' = Monitor!Listed /\ Monitor!Putting' = Monitor!Putting /\ Sweepers' = Sweepers
      BY <1>1, <2>1 DEF MonitorInv, MonitorTyped, Monitor!Listed, Monitor!Putting, Monitor!Unknown, Sweepers
    <3>2. \A d \in Sweepers : Takes(d)' = Takes(d)
      BY <1>1, <2>1, <3>1 DEF Takes, Sweepers, Monitor!Putting
    <3>3. QED
      BY <3>1, <3>2, RoomKept
  <2>2. CASE where'[a] # "age"
    BY <1>1, <1>2, <2>2, RoomEnough DEF Monitor!Listed
  <2>3. QED
    BY <2>1, <2>2
<1>5. QED
  BY <1>2, <1>3, <1>4 DEF MonitorInv

LEMMA AgeStep ==
  ASSUME MonitorInv, NEW a \in Monitor!Actors, Monitor!Age(a)
  PROVE  MonitorInv'
<1>1. /\ a \in Monitor!Actors /\ where' \in [Monitor!Actors -> MonitorPlaces]
      /\ \A d \in Monitor!Actors \ {a} : where'[d] = where[d]
      /\ UNCHANGED <<first, listed, reported, clock, has, excess, probes, runs>>
      /\ where[a] = "age" /\ where'[a] = "drop"
      /\ victims' \in [Monitor!Actors -> SUBSET Urls]
      /\ \A d \in Monitor!Actors \ {a} : victims'[d] = victims[d]
  BY MonitorMoves DEF MonitorInv, MonitorTyped, MonitorPlaces, Monitor!Actors, Monitor!gcVars, Monitor!Age, Monitor!Listed
<1>2. MonitorTyped'
  BY <1>1, MonitorConstants DEF MonitorInv, MonitorTyped, MonitorPlaces
<1>3. NoticedSound'
  BY <1>1, MonitorConstants DEF MonitorInv, MonitorTyped, NoticedSound, Noticed, Monitor!Listed
<1>4. RoomComes'
  <2>1. Monitor!Listed' = Monitor!Listed /\ Monitor!Putting' = Monitor!Putting /\ Sweepers' = Sweepers
    BY <1>1 DEF MonitorInv, MonitorTyped, Monitor!Listed, Monitor!Putting, Monitor!Unknown, Sweepers
  <2>2. \A d \in Sweepers : Takes(d)' = Takes(d)
    BY <1>1, <2>1 DEF MonitorTyped, Takes, Sweepers, Monitor!Putting
  <2>3. QED
    BY <2>1, <2>2, RoomKept
<1>5. QED
  BY <1>2, <1>3, <1>4 DEF MonitorInv

LEMMA DroppedStep ==
  ASSUME MonitorInv, NEW a \in Monitor!Actors, Monitor!Dropped(a)
  PROVE  MonitorInv'
<1>1. /\ a \in Monitor!Actors /\ where' \in [Monitor!Actors -> MonitorPlaces]
      /\ \A d \in Monitor!Actors \ {a} : where'[d] = where[d]
      /\ UNCHANGED <<first, listed, reported, clock, has, victims, excess, runs>>
      /\ probes' \subseteq Urls
      /\ where[a] = "drop" /\ where'[a] = IF has[a].build = 0 THEN "probe" ELSE "room"
  BY MonitorMoves DEF MonitorInv, MonitorTyped, MonitorPlaces, Monitor!Actors, Monitor!gcVars, Monitor!Dropped, Monitor!Unknown, Monitor!Listed
<1>2. MonitorTyped'
  BY <1>1, MonitorConstants DEF MonitorInv, MonitorTyped, MonitorPlaces
<1>3. NoticedSound'
  BY <1>1, MonitorConstants DEF MonitorInv, MonitorTyped, NoticedSound, Noticed, Monitor!Listed
<1>4. RoomComes'
  <2>1. Monitor!Listed' = Monitor!Listed /\ Monitor!Putting' = Monitor!Putting /\ Sweepers' = Sweepers
    BY <1>1 DEF MonitorInv, MonitorTyped, Monitor!Listed, Monitor!Putting, Monitor!Unknown, Sweepers
  <2>2. \A d \in Sweepers : Takes(d)' = Takes(d)
    BY <1>1, <2>1 DEF MonitorTyped, Takes, Sweepers, Monitor!Putting
  <2>3. QED
    BY <2>1, <2>2, RoomKept
<1>5. QED
  BY <1>2, <1>3, <1>4 DEF MonitorInv

LEMMA TickStep ==
  ASSUME MonitorInv, Monitor!Tick
  PROVE  MonitorInv'
<1> USE DEF Monitor!Tick, Monitor!gcVars
<1>1. MonitorTyped'
  BY DEF MonitorInv, MonitorTyped
<1>2. NoticedSound'
  BY DEF MonitorInv, NoticedSound, Noticed, Monitor!Listed
<1>3. RoomComes'
  BY RoomKept DEF Monitor!Listed, Monitor!Putting, Sweepers, Takes
<1>4. QED
  BY <1>1, <1>2, <1>3 DEF MonitorInv

(* One more record at most, and one more actor that may make room for it. *)
LEMMA PutStep ==
  ASSUME MonitorInv, NEW a \in Monitor!Actors, Monitor!Put(a)
  PROVE  MonitorInv'
<1>1. /\ a \in Monitor!Actors /\ where' \in [Monitor!Actors -> MonitorPlaces]
      /\ \A d \in Monitor!Actors \ {a} : where'[d] = where[d]
      /\ UNCHANGED <<first, reported, clock, has, victims, excess, probes, runs>>
      /\ where[a] = "put" /\ where'[a] = "len" /\ has[a].url \in Urls /\ has[a].build \in Builds
      /\ listed' = [listed EXCEPT ![has[a].url] = IF listed[has[a].url] = [build |-> 0, seen |-> -1]
                                                THEN [build |-> has[a].build, seen |-> clock]
                                                ELSE listed[has[a].url]]
  BY MonitorMoves DEF MonitorInv, MonitorTyped, MonitorPlaces, Monitor!Actors, Monitor!gcVars, Monitor!Put, Monitor!Absent, Monitor!Unknown
<1>2. MonitorTyped'
  <2>1. listed' \in [Urls -> [build : Builds \cup {0}, seen : Int]]
    BY <1>1 DEF MonitorInv, MonitorTyped
  <2>2. QED
    BY <1>1, <2>1 DEF MonitorInv, MonitorTyped
<1>3. NoticedSound'
  BY <1>1, MonitorConstants DEF MonitorInv, MonitorTyped, NoticedSound, Noticed, Monitor!Listed, Monitor!Absent, Monitor!Unknown
<1>4. RoomComes'
  <2>1. /\ Monitor!Listed' = Monitor!Listed \cup {has[a].url}
        /\ Monitor!Putting' = Monitor!Putting \cup {a} /\ a \notin Monitor!Putting
        /\ Sweepers' = Sweepers
    BY <1>1, MonitorConstants DEF MonitorInv, MonitorTyped, Monitor!Listed, Monitor!Putting, Sweepers, Monitor!Absent, Monitor!Unknown
  <2>2. /\ Monitor!Listed \in SUBSET Urls /\ Monitor!Listed' \in SUBSET Urls
        /\ Monitor!Putting \in SUBSET Monitor!Actors /\ Monitor!Putting' \in SUBSET Monitor!Actors
        /\ Sweepers \in SUBSET Monitor!Putting
    BY DEF Monitor!Listed, Monitor!Putting, Sweepers
  <2>3. Cardinality(Monitor!Listed') \in {Cardinality(Monitor!Listed), Cardinality(Monitor!Listed) + 1}
    BY <2>1, <2>2, UrlsCount, FS_AddElement
  <2>4. ASSUME NEW S \in SUBSET Sweepers
        PROVE  Cardinality(Monitor!Putting' \ S) = Cardinality(Monitor!Putting \ S) + 1
    <3>1. Monitor!Putting' \ S = (Monitor!Putting \ S) \cup {a} /\ a \notin Monitor!Putting \ S
      BY <2>1, <2>2
    <3>2. IsFiniteSet(Monitor!Putting \ S)
      BY <2>2, ActorsCount
    <3>3. QED
      BY <3>1, <3>2, FS_AddElement
  <2>5. ASSUME NEW d \in Sweepers PROVE Takes(d) \in Nat /\ Takes(d)' \in Nat /\ Takes(d) <= Takes(d)'
    <3>1. victims[d] \cap Monitor!Listed \in SUBSET (victims[d] \cap Monitor!Listed') /\ d \in Monitor!Actors
      BY <2>1, <2>2
    <3>2. Cardinality(victims[d] \cap Monitor!Listed) <= Cardinality(victims[d] \cap Monitor!Listed')
      BY <2>2, <3>1, UrlsCount, FS_Subset
    <3>3. Cardinality(victims[d] \cap Monitor!Listed) \in Nat /\ Cardinality(victims[d] \cap Monitor!Listed') \in Nat
      BY <2>2, UrlsCount
    <3>4. QED
      BY <1>1, <2>1, <3>1, <3>2, <3>3 DEF MonitorInv, MonitorTyped, Takes, Sweepers
  <2>6. Cardinality(Monitor!Listed') <= ListCap + Cardinality(Monitor!Putting')
    <3>1. Cardinality(Monitor!Putting') = Cardinality(Monitor!Putting) + 1
      BY <2>1, <2>2, ActorsCount, FS_AddElement
    <3>2. Cardinality(Monitor!Listed) \in Nat /\ Cardinality(Monitor!Putting) \in Nat
      BY <2>2, UrlsCount, ActorsCount
    <3>3. QED
      BY <2>3, <3>1, <3>2, MonitorConstants DEF MonitorInv, RoomComes
  <2>7. ASSUME NEW S \in SUBSET Sweepers, S # {}
        PROVE  \E d \in S : Cardinality(Monitor!Listed') <= ListCap + Cardinality(Monitor!Putting' \ S) + Takes(d)'
    <3>1. PICK d \in S : Cardinality(Monitor!Listed) <= ListCap + Cardinality(Monitor!Putting \ S) + Takes(d)
      BY <2>7 DEF MonitorInv, RoomComes
    <3>2. Takes(d) \in Nat /\ Takes(d)' \in Nat /\ Takes(d) <= Takes(d)'
      BY <2>5, <3>1
    <3>3. /\ Cardinality(Monitor!Listed) \in Nat /\ Cardinality(Monitor!Putting \ S) \in Nat
          /\ Cardinality(Monitor!Putting' \ S) = Cardinality(Monitor!Putting \ S) + 1
      BY <2>2, <2>4, UrlsCount, ActorsCount
    <3>4. QED
      BY <2>3, <3>1, <3>2, <3>3, MonitorConstants
  <2>8. QED
    BY <2>1, <2>6, <2>7 DEF RoomComes
<1>5. QED
  BY <1>2, <1>3, <1>4 DEF MonitorInv

(* What goes is one of the victims of whoever still meant to take it. *)
LEMMA DropStep ==
  ASSUME MonitorInv, NEW a \in Monitor!Actors, Monitor!Drop(a)
  PROVE  MonitorInv'
<1>1. PICK u \in victims[a] : /\ listed' = [listed EXCEPT ![u] = [build |-> 0, seen |-> -1]]
                              /\ victims' = [victims EXCEPT ![a] = victims[a] \ {u}]
  BY DEF Monitor!Drop, Monitor!Absent, Monitor!Unknown
<1>2. UNCHANGED <<first, reported, clock, where, has, excess, probes, runs>> /\ where[a] \in {"drop", "cut"} /\ u \in Urls
  BY <1>1 DEF Monitor!Drop, MonitorInv, MonitorTyped
<1>3. Monitor!Listed' = Monitor!Listed \ {u} /\ Monitor!Putting' = Monitor!Putting /\ Sweepers' = Sweepers
  BY <1>1, <1>2 DEF MonitorInv, MonitorTyped, Monitor!Listed, Monitor!Putting, Sweepers, Monitor!Absent, Monitor!Unknown
<1>4. MonitorTyped'
  BY <1>1, <1>2 DEF MonitorInv, MonitorTyped
<1>5. NoticedSound'
  BY <1>1, <1>2, <1>3 DEF MonitorInv, MonitorTyped, NoticedSound, Noticed, Monitor!Listed
<1>6. RoomComes'
  <2>1. /\ Monitor!Listed \in SUBSET Urls /\ IsFiniteSet(Monitor!Listed)
        /\ Cardinality(Monitor!Listed) \in Nat /\ Cardinality(Monitor!Listed') \in Nat
        /\ Sweepers \in SUBSET Monitor!Putting /\ Monitor!Putting \in SUBSET Monitor!Actors
    BY <1>3, UrlsCount DEF Monitor!Listed, Monitor!Putting, Sweepers
  <2>2. Cardinality(Monitor!Listed') = IF u \in Monitor!Listed THEN Cardinality(Monitor!Listed) - 1 ELSE Cardinality(Monitor!Listed)
    BY <1>3, <2>1, FS_RemoveElement
  <2>3. ASSUME NEW d \in Sweepers
        PROVE  /\ Takes(d) \in Nat /\ Takes(d)' \in Nat
               /\ Cardinality(Monitor!Listed') + Takes(d) <= Cardinality(Monitor!Listed) + Takes(d)'
    <3> DEFINE old == victims[d] \cap Monitor!Listed
               new == victims'[d] \cap Monitor!Listed'
    <3>1. d \in Monitor!Actors /\ where[d] \in {"pick", "cut"} /\ where'[d] = where[d] /\ excess'[d] = excess[d] /\ excess[d] \in Nat
      BY <1>2, <2>1 DEF Sweepers, MonitorInv, MonitorTyped
    <3>2. new = old \ {u}
      BY <1>1, <1>2, <1>3, <3>1 DEF MonitorInv, MonitorTyped
    <3>3. IsFiniteSet(old) /\ Cardinality(old) \in Nat /\ Cardinality(new) \in Nat
      BY <2>1, <3>2, UrlsCount
    <3>4. Cardinality(new) = IF u \in old THEN Cardinality(old) - 1 ELSE Cardinality(old)
      BY <3>2, <3>3, FS_RemoveElement
    <3>5. u \in old => u \in Monitor!Listed
      OBVIOUS
    <3>6. Takes(d) = (IF where[d] = "pick" THEN excess[d] ELSE Cardinality(old))
          /\ Takes(d)' = (IF where[d] = "pick" THEN excess[d] ELSE Cardinality(new))
      BY <3>1 DEF Takes
    <3> HIDE DEF old, new
    <3>7. QED
      BY <2>1, <2>2, <3>1, <3>3, <3>4, <3>5, <3>6
  <2>4. Cardinality(Monitor!Listed') <= ListCap + Cardinality(Monitor!Putting')
    <3>1. Cardinality(Monitor!Putting) \in Nat
      BY <2>1, ActorsCount
    <3>2. QED
      BY <1>3, <2>1, <2>2, <3>1, MonitorConstants DEF MonitorInv, RoomComes
  <2>5. ASSUME NEW S \in SUBSET Sweepers, S # {}
        PROVE  \E d \in S : Cardinality(Monitor!Listed') <= ListCap + Cardinality(Monitor!Putting' \ S) + Takes(d)'
    <3>1. PICK d \in S : Cardinality(Monitor!Listed) <= ListCap + Cardinality(Monitor!Putting \ S) + Takes(d)
      BY <2>5 DEF MonitorInv, RoomComes
    <3>2. /\ Takes(d) \in Nat /\ Takes(d)' \in Nat
          /\ Cardinality(Monitor!Listed') + Takes(d) <= Cardinality(Monitor!Listed) + Takes(d)'
      BY <2>3, <3>1
    <3>3. Cardinality(Monitor!Putting \ S) \in Nat /\ Monitor!Putting' = Monitor!Putting
      BY <1>3, <2>1, ActorsCount
    <3>4. QED
      BY <2>1, <3>1, <3>2, <3>3, MonitorConstants
  <2>6. QED
    BY <1>3, <2>4, <2>5 DEF RoomComes
<1>7. QED
  BY <1>4, <1>5, <1>6 DEF MonitorInv

(* Who finds the list too long goes on to count what it has too much. *)
LEMMA RoomStep ==
  ASSUME MonitorInv, NEW a \in Monitor!Actors, Monitor!Room(a)
  PROVE  MonitorInv'
<1>1. /\ a \in Monitor!Actors /\ where' \in [Monitor!Actors -> MonitorPlaces]
      /\ \A d \in Monitor!Actors \ {a} : where'[d] = where[d]
      /\ UNCHANGED <<first, listed, reported, clock, victims, excess, probes, runs>>
      /\ where[a] = "room" /\ where'[a] \in {"idle", "probe", "count"}
      /\ where'[a] # "count" => /\ has' = [has EXCEPT ![a] = [url |-> 0, build |-> 0]]
                                /\ Cardinality(Monitor!Listed) <= ListCap
      /\ where'[a] = "count" => has' = has
  BY MonitorMoves, SameCardinality DEF MonitorInv, MonitorTyped, MonitorPlaces, Monitor!Actors, Monitor!gcVars, Monitor!Room, Monitor!Over, Monitor!Fits, Monitor!Nothing, Monitor!Unknown
<1>2. MonitorTyped'
  <2>1. has' \in [Monitor!Actors -> [url : Urls \cup {0}, build : Builds \cup {0}]]
    <3>1. has' \in {has, [has EXCEPT ![a] = [url |-> 0, build |-> 0]]}
      BY <1>1
    <3>2. QED
      BY <3>1 DEF MonitorInv, MonitorTyped
  <2>2. ASSUME NEW d \in Monitor!Actors
        PROVE  /\ where'[d] \in {"idle", "probe"} => has'[d].build = 0
               /\ where'[d] \notin {"idle", "probe", "age", "drop"} => has'[d].build # 0
               /\ has'[d].build # 0 => has'[d].url \in Urls
    <3>1. CASE d = a
      BY <1>1, <3>1 DEF MonitorInv, MonitorTyped
    <3>2. CASE d # a
      BY <1>1, <3>2 DEF MonitorInv, MonitorTyped
    <3>3. QED
      BY <3>1, <3>2
  <2>3. QED
    BY <1>1, <2>1, <2>2 DEF MonitorInv, MonitorTyped
<1>3. NoticedSound'
  BY <1>1, MonitorConstants DEF MonitorInv, MonitorTyped, NoticedSound, Noticed, Monitor!Listed
<1>4. RoomComes'
  <2>1. CASE where'[a] # "count"
    BY <1>1, <1>2, <2>1, RoomEnough DEF Monitor!Listed
  <2>2. CASE where'[a] = "count"
    <3>1. Monitor!Listed' = Monitor!Listed /\ Monitor!Putting' = Monitor!Putting /\ Sweepers' = Sweepers
      BY <1>1, <2>2 DEF MonitorInv, MonitorTyped, Monitor!Listed, Monitor!Putting, Monitor!Unknown, Sweepers
    <3>2. \A d \in Sweepers : Takes(d)' = Takes(d)
      BY <1>1, <2>2, <3>1 DEF MonitorInv, MonitorTyped, Takes, Sweepers, Monitor!Putting
    <3>3. QED
      BY <3>1, <3>2, RoomKept
  <2>3. QED
    BY <2>1, <2>2
<1>5. QED
  BY <1>2, <1>3, <1>4 DEF MonitorInv

(* Who counts takes the excess down; where the list fits by now, whatever  *)
(* number it takes is enough.                                              *)
LEMMA CountsStep ==
  ASSUME MonitorInv, NEW a \in Monitor!Actors, Monitor!Count(a)
  PROVE  MonitorInv'
<1> DEFINE excessive == (Cardinality(Monitor!Listed) - ListCap) % Usize
<1>1. /\ a \in Monitor!Actors /\ where' \in [Monitor!Actors -> MonitorPlaces]
      /\ \A d \in Monitor!Actors \ {a} : where'[d] = where[d]
      /\ UNCHANGED <<first, listed, reported, clock, has, victims, probes, runs>>
      /\ where[a] = "count" /\ where'[a] = "pick"
      /\ excess' = [excess EXCEPT ![a] = excessive]
  BY MonitorMoves, SameCardinality DEF MonitorInv, MonitorTyped, MonitorPlaces, Monitor!Count
<1>2. /\ Cardinality(Monitor!Listed) \in Nat /\ excessive \in Nat
      /\ Cardinality(Monitor!Listed) > ListCap => excessive = Cardinality(Monitor!Listed) - ListCap
  <2>1. Cardinality(Monitor!Listed) \in Nat /\ Cardinality(Monitor!Listed) <= Cardinality(Urls)
        /\ Cardinality(Urls) \in Nat
    BY MonitorConstants, UrlsCount, FS_Subset DEF Monitor!Listed
  <2>2. Usize \in Nat \ {0} /\ ListCap \in Nat /\ Cardinality(Monitor!Listed) < Usize
    BY <2>1, MonitorConstants
  <2>3. \A d \in Int : d % Usize \in Nat
    BY <2>2
  <2>4. \A d \in Nat : d < Usize => d % Usize = d
    BY <2>2
  <2>5. QED
    BY <2>1, <2>2, <2>3, <2>4
<1> HIDE DEF excessive
<1>3. MonitorTyped'
  BY <1>1, <1>2 DEF MonitorInv, MonitorTyped
<1>4. NoticedSound'
  BY <1>1, MonitorConstants DEF MonitorInv, MonitorTyped, NoticedSound, Noticed, Monitor!Listed
<1>5. RoomComes'
  <2>1. CASE Cardinality(Monitor!Listed) <= ListCap
    BY <1>1, <1>3, <2>1, RoomEnough DEF Monitor!Listed
  <2>2. CASE Cardinality(Monitor!Listed) > ListCap
    <3>1. /\ Monitor!Listed' = Monitor!Listed /\ Monitor!Putting' = Monitor!Putting
          /\ Sweepers' = Sweepers \cup {a} /\ a \notin Sweepers
      BY <1>1 DEF MonitorInv, MonitorTyped, Monitor!Listed, Monitor!Putting, Monitor!Unknown, Sweepers
    <3>2. Takes(a)' = Cardinality(Monitor!Listed) - ListCap
      BY <1>1, <1>2, <2>2 DEF MonitorInv, MonitorTyped, Takes
    <3>3. \A d \in Sweepers : Takes(d)' = Takes(d)
      BY <1>1, <3>1 DEF MonitorInv, MonitorTyped, Takes, Sweepers, Monitor!Putting
    <3>4. ASSUME NEW S \in SUBSET Sweepers', S # {}
          PROVE  \E d \in S : Cardinality(Monitor!Listed') <= ListCap + Cardinality(Monitor!Putting' \ S) + Takes(d)'
      <4>1. CASE a \in S
        <5>1. Cardinality(Monitor!Putting' \ S) \in Nat
          BY ActorsCount DEF Monitor!Putting
        <5>2. QED
          BY <1>2, <3>1, <3>2, <4>1, <5>1, MonitorConstants
      <4>2. CASE a \notin S
        <5>1. S \in SUBSET Sweepers
          BY <3>1, <4>2
        <5>2. QED
          BY <3>1, <3>3, <3>4, <5>1 DEF MonitorInv, RoomComes
      <4>3. QED
        BY <4>1, <4>2
    <3>5. QED
      BY <3>1, <3>4 DEF MonitorInv, RoomComes
  <2>3. QED
    BY <1>2, <2>1, <2>2, MonitorConstants
<1>6. QED
  BY <1>3, <1>4, <1>5 DEF MonitorInv

(* Who picks takes the excess, or all there is. *)
LEMMA PickStep ==
  ASSUME MonitorInv, NEW a \in Monitor!Actors, Monitor!Pick(a)
  PROVE  MonitorInv'
<1>1. /\ a \in Monitor!Actors /\ where' \in [Monitor!Actors -> MonitorPlaces]
      /\ \A d \in Monitor!Actors \ {a} : where'[d] = where[d]
      /\ UNCHANGED <<first, listed, reported, clock, has, probes, runs>>
      /\ where[a] = "pick" /\ where'[a] = "cut" /\ excess' = [excess EXCEPT ![a] = 0]
      /\ \E vs \in SUBSET Monitor!Listed : /\ Cardinality(vs) = excess[a] \/ vs = Monitor!Listed
                                          /\ victims' = [victims EXCEPT ![a] = vs]
  BY MonitorMoves, SameCardinality DEF MonitorInv, MonitorTyped, MonitorPlaces, Monitor!Actors, Monitor!gcVars, Monitor!Pick
<1>2. MonitorTyped'
  <2>1. MonitorTyped /\ Monitor!Listed \subseteq Urls
    BY DEF MonitorInv, Monitor!Listed
  <2>2. victims' \in [Monitor!Actors -> SUBSET Urls] /\ excess' \in [Monitor!Actors -> Nat]
    BY <1>1, <2>1 DEF MonitorTyped
  <2>3. QED
    BY <1>1, <2>1, <2>2 DEF MonitorTyped
<1>3. NoticedSound'
  BY <1>1, MonitorConstants DEF MonitorInv, MonitorTyped, NoticedSound, Noticed, Monitor!Listed
<1>4. RoomComes'
  <2>1. /\ Monitor!Listed' = Monitor!Listed /\ Monitor!Putting' = Monitor!Putting /\ Sweepers' = Sweepers
        /\ Sweepers \in SUBSET Monitor!Putting /\ Monitor!Putting \in SUBSET Monitor!Actors
    BY <1>1 DEF MonitorInv, MonitorTyped, Monitor!Listed, Monitor!Putting, Monitor!Unknown, Sweepers
  <2>2. \A d \in Sweepers \ {a} : Takes(d)' = Takes(d)
    BY <1>1, <2>1 DEF MonitorInv, MonitorTyped, Takes, Sweepers, Monitor!Putting
  <2>3. Takes(a)' = Takes(a) \/ Takes(a)' = Cardinality(Monitor!Listed)
    <3>1. PICK vs \in SUBSET Monitor!Listed : /\ Cardinality(vs) = excess[a] \/ vs = Monitor!Listed
                                             /\ victims' = [victims EXCEPT ![a] = vs]
      BY <1>1
    <3>2. victims'[a] \cap Monitor!Listed' = vs
      BY <1>1, <2>1, <3>1 DEF MonitorInv, MonitorTyped
    <3>3. QED
      BY <1>1, <3>1, <3>2 DEF Takes
  <2>4. ASSUME NEW S \in SUBSET Sweepers, S # {}
        PROVE  \E d \in S : Cardinality(Monitor!Listed') <= ListCap + Cardinality(Monitor!Putting' \ S) + Takes(d)'
    <3>1. PICK d \in S : Cardinality(Monitor!Listed) <= ListCap + Cardinality(Monitor!Putting \ S) + Takes(d)
      BY <2>4 DEF MonitorInv, RoomComes
    <3>2. Cardinality(Monitor!Listed) \in Nat /\ Cardinality(Monitor!Putting \ S) \in Nat
      BY <2>1, UrlsCount, ActorsCount DEF Monitor!Listed
    <3>3. CASE Takes(d)' = Takes(d)
      BY <2>1, <3>1, <3>3
    <3>4. CASE Takes(d)' = Cardinality(Monitor!Listed)
      BY <2>1, <3>2, <3>4, MonitorConstants
    <3>5. QED
      BY <2>2, <2>3, <3>3, <3>4
  <2>5. QED
    BY <2>1, <2>4 DEF MonitorInv, RoomComes
<1>5. QED
  BY <1>2, <1>3, <1>4 DEF MonitorInv

(* Who has nothing left to take leaves the others enough. *)
LEMMA CutStep ==
  ASSUME MonitorInv, NEW a \in Monitor!Actors, Monitor!Cut(a)
  PROVE  MonitorInv'
<1>1. /\ a \in Monitor!Actors /\ where' \in [Monitor!Actors -> MonitorPlaces]
      /\ \A d \in Monitor!Actors \ {a} : where'[d] = where[d]
      /\ UNCHANGED <<first, listed, reported, clock, victims, excess, probes, runs>>
      /\ where[a] = "cut" /\ where'[a] \in {"idle", "probe"} /\ victims[a] = {}
      /\ has' = [has EXCEPT ![a] = [url |-> 0, build |-> 0]]
  BY MonitorMoves DEF MonitorInv, MonitorTyped, MonitorPlaces, Monitor!Actors, Monitor!gcVars, Monitor!Cut, Monitor!Over, Monitor!Nothing, Monitor!Unknown
<1>2. MonitorTyped'
  BY <1>1, MonitorConstants DEF MonitorInv, MonitorTyped, MonitorPlaces
<1>3. NoticedSound'
  BY <1>1, MonitorConstants DEF MonitorInv, MonitorTyped, NoticedSound, Noticed, Monitor!Listed
<1>4. RoomComes'
  <2>1. /\ Monitor!Listed' = Monitor!Listed /\ Monitor!Putting' = Monitor!Putting \ {a}
        /\ Sweepers' = Sweepers \ {a} /\ a \in Sweepers
        /\ Sweepers \in SUBSET Monitor!Putting /\ Monitor!Putting \in SUBSET Monitor!Actors
    BY <1>1 DEF MonitorInv, MonitorTyped, Monitor!Listed, Monitor!Putting, Monitor!Unknown, Sweepers
  <2>2. Takes(a) = 0
    <3>1. victims[a] \cap Monitor!Listed = {}
      BY <1>1
    <3>2. QED
      BY <1>1, <3>1, FS_EmptySet DEF Takes
  <2>3. \A d \in Sweepers' : Takes(d)' = Takes(d) /\ Takes(d) \in Nat
    BY <1>1, <2>1, UrlsCount DEF MonitorInv, MonitorTyped, Takes
  <2>4. /\ Cardinality(Monitor!Listed) \in Nat
        /\ \A S : Cardinality(Monitor!Putting' \ S) \in Nat
    BY <2>1, UrlsCount, ActorsCount DEF Monitor!Listed
  <2>5. Cardinality(Monitor!Listed') <= ListCap + Cardinality(Monitor!Putting')
    <3>1. Cardinality(Monitor!Listed) <= ListCap + Cardinality(Monitor!Putting \ {a}) + Takes(a)
      <4>1. {a} \in SUBSET Sweepers /\ {a} # {}
        BY <2>1
      <4>2. PICK d \in {a} : Cardinality(Monitor!Listed) <= ListCap + Cardinality(Monitor!Putting \ {a}) + Takes(d)
        BY <4>1 DEF MonitorInv, RoomComes
      <4>3. QED
        BY <4>2
    <3>2. Cardinality(Monitor!Putting \ {a}) \in Nat
      BY <2>1, ActorsCount
    <3>3. QED
      BY <2>1, <2>2, <3>1, <3>2, MonitorConstants
  <2>6. ASSUME NEW S \in SUBSET Sweepers', S # {}
        PROVE  \E d \in S : Cardinality(Monitor!Listed') <= ListCap + Cardinality(Monitor!Putting' \ S) + Takes(d)'
    <3>1. S \cup {a} \in SUBSET Sweepers /\ Monitor!Putting \ (S \cup {a}) = Monitor!Putting' \ S
      BY <2>1
    <3>2. PICK d \in S \cup {a} : Cardinality(Monitor!Listed) <= ListCap + Cardinality(Monitor!Putting' \ S) + Takes(d)
      <4>1. \E d \in S \cup {a} : Cardinality(Monitor!Listed) <= ListCap + Cardinality(Monitor!Putting \ (S \cup {a})) + Takes(d)
        BY <3>1 DEF MonitorInv, RoomComes
      <4>2. QED
        BY <3>1, <4>1
    <3>3. CASE d \in S
      BY <2>1, <2>3, <3>2, <3>3
    <3>4. CASE d = a
      <4>1. PICK e \in S : Takes(e)' \in Nat
        BY <2>3, <2>6
      <4>2. Cardinality(Monitor!Putting' \ S) \in Nat
        BY <2>4
      <4>3. QED
        BY <2>1, <2>2, <2>4, <3>2, <3>4, <4>1, <4>2, MonitorConstants
    <3>5. QED
      BY <3>3, <3>4
  <2>7. QED
    BY <2>5, <2>6 DEF RoomComes
<1>5. QED
  BY <1>2, <1>3, <1>4 DEF MonitorInv

LEMMA MonitorStep ==
  ASSUME MonitorInv, [Monitor!Next]_buildVars
  PROVE  MonitorInv'
<1>1. CASE UNCHANGED buildVars
  <2>1. MonitorTyped' /\ NoticedSound'
    BY <1>1 DEF buildVars, MonitorInv, MonitorTyped, NoticedSound, Noticed, Monitor!Listed
  <2>2. RoomComes'
    BY <1>1, RoomKept DEF buildVars, Monitor!Listed, Monitor!Putting, Sweepers, Takes
  <2>3. QED
    BY <2>1, <2>2 DEF MonitorInv
<1>2. ASSUME NEW a \in Monitor!Actors, Monitor!Step(a) PROVE MonitorInv'
  BY <1>2, CheckStep, KeepStep, WarnStep, PutStep, LookStep, AgeStep, DropStep, DroppedStep, RoomStep, CountsStep, PickStep, CutStep
     DEF Monitor!Step
<1>3. QED
  BY <1>1, <1>2, VisitStep, AwakeStep, ProbeStep, ProbedStep, TickStep DEF Monitor!Next

LEMMA MonitorSound == MonitorInv => Monitor!CapKept /\ Monitor!NoneUnnoticed
BY SameCardinality DEF MonitorInv, RoomComes, NoticedSound, Noticed, Monitor!CapKept, Monitor!NoneUnnoticed, Monitor!Unknown

-----------------------------------------------------------------------------
(* Over all interleavings of clients that look up, solve and record: a hit *)
(* is an answer of its slot, the client's own where it is alone, and every *)
(* slot in use is counted (cache.rs:30-62).  Over all interleavings of     *)
(* visits and the daemon: two sweeps at once leave the list within its cap *)
(* but for those still to look, and no build gets on it unnoticed          *)
(* (watch.rs:65-125, lib.rs:37-48).                                        *)
THEOREM StaticsStaySound == StaticsSpec => []StaticsSound
<1>1. StaticsInit => CacheInv /\ MonitorInv
  BY CacheInitially, MonitorInitially DEF StaticsInit, NoCache
<1>2. CacheInv /\ MonitorInv /\ [StaticsNext]_staticVars => CacheInv' /\ MonitorInv'
  <2> SUFFICES ASSUME CacheInv, MonitorInv, [StaticsNext]_staticVars PROVE CacheInv' /\ MonitorInv'
    OBVIOUS
  <2>1. [Cache!Next]_cacheVars /\ [Monitor!Next]_buildVars
    BY DEF StaticsNext, staticVars
  <2>2. QED
    BY <2>1, CacheStep, MonitorStep
<1>3. CacheInv /\ MonitorInv => StaticsSound
  BY CacheSound, MonitorSound DEF StaticsSound
<1>4. QED
  BY <1>1, <1>2, <1>3, PTL DEF StaticsSpec
=============================================================================
