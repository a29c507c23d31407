--------------------------- MODULE ExecPool_proofs ---------------------------
(***************************************************************************)
(* For any requests, workers, lane capacities and script budget: a task is *)
(* in one place and its bytes are charged as long as it is there, no       *)
(* script runs in a broken environment, and no caller is left behind.      *)
(***************************************************************************)
EXTENDS ExecPool, SequenceTheorems

In(s) == {s[i] : i \in 1 .. Len(s)}
Distinct(s) == \A i, j \in 1 .. Len(s) : s[i] = s[j] => i = j

LEMMA NoLane ==
  <<>> \in Seq(Requests) /\ Distinct(<<>>) /\ In(<<>>) = {}
BY EmptySeq DEF Distinct, In

(* A lane that takes one more task it does not have. *)
LEMMA LaneGrows ==
  ASSUME NEW s \in Seq(Requests), NEW r \in Requests, Distinct(s), r \notin In(s)
  PROVE  /\ Append(s, r) \in Seq(Requests) /\ Distinct(Append(s, r))
         /\ In(Append(s, r)) = In(s) \cup {r}
<1> DEFINE t == Append(s, r)
<1>1. /\ t \in Seq(Requests) /\ Len(t) = Len(s) + 1 /\ Len(s) \in Nat
      /\ \A i \in 1 .. Len(s) : t[i] = s[i]
      /\ t[Len(s) + 1] = r
  BY AppendProperties, LenProperties
<1> HIDE DEF t
<1>2. 1 .. Len(t) = (1 .. Len(s)) \cup {Len(s) + 1}
  BY <1>1
<1>3. In(t) = In(s) \cup {r}
  BY <1>1, <1>2 DEF In
<1>4. Distinct(t)
  BY <1>1, <1>2 DEF Distinct, In
<1>5. QED
  BY <1>1, <1>3, <1>4 DEF t

(* A lane that gives up its first task. *)
LEMMA LaneShrinks ==
  ASSUME NEW s \in Seq(Requests), s # <<>>, Distinct(s)
  PROVE  /\ Head(s) \in Requests /\ Head(s) \in In(s)
         /\ Tail(s) \in Seq(Requests) /\ Distinct(Tail(s)) /\ In(Tail(s)) = In(s) \ {Head(s)}
<1> DEFINE t == Tail(s)
<1>1. /\ t \in Seq(Requests) /\ Len(t) = Len(s) - 1 /\ Len(s) \in Nat \ {0}
      /\ \A i \in 1 .. Len(t) : t[i] = s[i + 1]
      /\ Head(s) \in Requests
  BY HeadTailProperties, LenProperties, EmptySeq
<1>2. Head(s) = s[1]
  OBVIOUS
<1> HIDE DEF t
<1>3. Distinct(t)
  BY <1>1 DEF Distinct
<1>4. \A i \in 1 .. Len(t) : t[i] \in In(s) \ {s[1]}
  BY <1>1 DEF In, Distinct
<1>5. \A i \in 1 .. Len(s) : i # 1 => i - 1 \in 1 .. Len(t) /\ t[i - 1] = s[i]
  BY <1>1
<1>6. In(t) = In(s) \ {s[1]}
  <2>1. ASSUME NEW x \in In(s) \ {s[1]} PROVE x \in In(t)
    <3>1. PICK i \in 1 .. Len(s) : x = s[i]
      BY DEF In
    <3>2. i - 1 \in 1 .. Len(t) /\ t[i - 1] = x
      BY <2>1, <3>1, <1>5
    <3>3. QED
      BY <3>2 DEF In
  <2>2. QED
    BY <1>4, <2>1 DEF In
<1>7. s[1] \in In(s)
  BY <1>1 DEF In
<1>8. QED
  BY <1>1, <1>2, <1>3, <1>6, <1>7 DEF t

-----------------------------------------------------------------------------
Apart ==
  /\ Distinct(critical) /\ Distinct(bulk) /\ In(critical) \cap In(bulk) = {}
  /\ \A w \in Workers : task[w] \notin In(critical) \cup In(bulk)
  /\ \A v, w \in Workers : task[v] = task[w] /\ task[v] # None => v = w

Alive(r) == r \in In(critical) \cup In(bulk) \/ \E w \in Workers : task[w] = r

Charging == \A r \in Requests : r \in charged <=> caller[r] \in {"send", "overflow"} \/ Alive(r)

Unsent == \A r \in Requests : caller[r] \in {"new", "send", "overflow"} => ~Alive(r) /\ reply[r] = None

(* A worker holds a task from its receipt to its drop, has answered it     *)
(* when it lets go of it, and has a broken environment only on the way to  *)
(* mending it or to its exit.                                              *)
WorkerOK(w) ==
  /\ phase[w] \in {"recv", "gone"} => task[w] = None
  /\ phase[w] \in {"got", "run", "retry", "reply", "rebuild", "drop"} => task[w] \in Requests
  /\ phase[w] = "reply" => result[w] \in {Ok, "Timeout", "Oom", "Panic"}
  /\ phase[w] \in {"rebuild", "drop", "exit"} /\ task[w] # None => reply[task[w]] # None
  /\ env[w] = "broken" => phase[w] \in {"rebuild", "exit"} \/ (phase[w] = "reply" /\ NeedsRebuild(result[w]))

Heard ==
  /\ ~Receivable => critical = <<>> /\ bulk = <<>>
  /\ \A r \in Requests : /\ caller[r] = "waiting" /\ reply[r] = None => Alive(r)
                         /\ caller[r] = "waiting" /\ reply[r] = "closed" => ~Receivable
                         /\ reply[r] # "Shutdown"
                         /\ outcome[r] = "Shutdown" => ~Receivable

Budgeted == IsFiniteSet(Atoms(Bytes, charged)) /\ Total(Bytes, charged) <= ScriptBytes

PoolInv == TypeOK /\ Apart /\ Charging /\ Unsent /\ (\A w \in Workers : WorkerOK(w)) /\ Heard /\ Budgeted

LEMMA PoolInit == Init => PoolInv
<1> SUFFICES ASSUME Init PROVE PoolInv
  OBVIOUS
<1> USE DEF Init
<1>1. TypeOK
  BY NoLane DEF TypeOK, CallerPhases, WorkerPhases
<1>2. Apart /\ \A r \in Requests : ~Alive(r)
  BY NoLane, PoolAssumption DEF Apart, Alive
<1>3. Budgeted
  BY TotalOfNone, PoolAssumption DEF Budgeted
<1>4. Receivable
  BY PoolAssumption DEF Receivable
<1>5. QED
  BY <1>1, <1>2, <1>3, <1>4 DEF PoolInv, Charging, Unsent, WorkerOK, Heard, None, Ok

LEMMA TypeStep == TypeOK /\ [Next]_vars => TypeOK'
<1> SUFFICES ASSUME TypeOK, [Next]_vars PROVE TypeOK'
  OBVIOUS
<1> USE DEF TypeOK
<1>1. ASSUME NEW r \in Requests, Expire(r) \/ Call(r) \/ DropFuture(r) PROVE TypeOK'
  BY <1>1 DEF Expire, Call, DropFuture, Fail, CallerPhases, Outcomes, callerVars, laneVars, workerVars
<1>2. ASSUME NEW r \in Requests, TrySend(r) \/ TryOverflow(r) PROVE TypeOK'
  <2>1. critical' \in Seq(Requests) /\ bulk' \in Seq(Requests)
    <3>1. Append(critical, r) \in Seq(Requests) /\ Append(bulk, r) \in Seq(Requests)
      BY AppendProperties
    <3>2. QED
      BY <1>2, <3>1 DEF TrySend, TryOverflow, Reject, Accept, laneVars
  <2>2. QED
    BY <1>2, <2>1 DEF TrySend, TryOverflow, Reject, Accept, Fail, CallerPhases, Outcomes, laneVars, workerVars
<1>3. ASSUME NEW r \in Requests, Receive(r) \/ SeeClosed(r) \/ TimeOut(r) PROVE TypeOK'
  BY <1>3 DEF Receive, SeeClosed, TimeOut, Resolve, Fail, CallerPhases, Outcomes, laneVars, workerVars
<1>4. CASE DropPool
  BY <1>4 DEF DropPool, callerVars, laneVars, workerVars
<1>5. ASSUME NEW w \in Workers, Recv(w) PROVE TypeOK'
  <2>1. /\ critical' \in Seq(Requests) /\ bulk' \in Seq(Requests)
        /\ task' \in [Workers -> Requests \cup {None}]
    <3>1. critical # <<>> => Head(critical) \in Requests /\ Tail(critical) \in Seq(Requests)
      BY HeadTailProperties
    <3>2. bulk # <<>> => Head(bulk) \in Requests /\ Tail(bulk) \in Seq(Requests)
      BY HeadTailProperties
    <3>3. QED
      BY <1>5, <3>1, <3>2 DEF Recv
  <2>2. QED
    BY <1>5, <2>1 DEF Recv, At, WorkerPhases, callerVars
<1>6. ASSUME NEW w \in Workers, RecvNone(w) \/ Rebuild(w) \/ RebuildFails(w) \/ MakeEnv(w) \/ HaveEnv(w) \/ RunLifts(w)
      PROVE  TypeOK'
  BY <1>6 DEF RecvNone, Rebuild, RebuildFails, MakeEnv, HaveEnv, RunLifts, At, WorkerPhases, callerVars, laneVars
<1>7. ASSUME NEW w \in Workers, SkipStopped(w) \/ MakeEnvFails(w) \/ RunEnds(w) \/ RunPanics(w) \/ RunOutOfMemory(w)
      PROVE  TypeOK'
  BY <1>7 DEF SkipStopped, MakeEnvFails, RunEnds, RunPanics, RunOutOfMemory, Conclude, At, WorkerPhases, Outcomes, callerVars, laneVars
<1>8. ASSUME NEW w \in Workers, Reply(w) PROVE TypeOK'
  BY <1>8 DEF Reply, At, WorkerPhases, callerVars, laneVars
<1>9. ASSUME NEW w \in Workers, DropTask(w) PROVE TypeOK'
  BY <1>9 DEF DropTask, At, WorkerPhases, callerVars, laneVars
<1>10. ASSUME NEW w \in Workers, Exit(w) PROVE TypeOK'
  BY <1>10, NoLane DEF Exit, At, WorkerPhases, callerVars
<1>11. CASE UNCHANGED vars
  BY <1>11 DEF vars, callerVars, laneVars, workerVars
<1>12. QED
  BY <1>1, <1>2, <1>3, <1>4, <1>5, <1>6, <1>7, <1>8, <1>9, <1>10, <1>11 DEF Next, CallerStep, WorkerStep

-----------------------------------------------------------------------------
(* Steps of a caller that leave the tasks alone: it resolves, is dropped,  *)
(* or fails before it has a task.                                          *)
LEMMA CallerMoves ==
  ASSUME PoolInv, TypeOK', NEW r \in Requests, NEW to \in {"returned", "dropped"},
         caller[r] \in {"new", "waiting"}, caller' = [caller EXCEPT ![r] = to],
         outcome'[r] = "Shutdown" => ~Receivable,
         \A q \in Requests \ {r} : outcome'[q] = outcome[q],
         UNCHANGED <<reply, laneVars, charged, phase, task, result, env>>
  PROVE  PoolInv'
<1>1. /\ \A q \in Requests : Alive(q)' <=> Alive(q)
      /\ Receivable' <=> Receivable
      /\ Apart'
  BY DEF PoolInv, Alive, Receivable, Apart, laneVars
<1>2. \A q \in Requests : caller'[q] = IF q = r THEN to ELSE caller[q]
  BY DEF PoolInv, TypeOK
<1>3. Charging'
  BY <1>1, <1>2 DEF PoolInv, Charging
<1>4. Unsent'
  BY <1>1, <1>2 DEF PoolInv, Unsent
<1>5. \A w \in Workers : WorkerOK(w)'
  BY DEF PoolInv, WorkerOK
<1>6. Heard'
  BY <1>1, <1>2 DEF PoolInv, Heard, laneVars
<1>7. Budgeted'
  BY DEF PoolInv, Budgeted
<1>8. QED
  BY <1>1, <1>3, <1>4, <1>5, <1>6, <1>7 DEF PoolInv

(* Steps of a worker between its receipt and its drop of a task.           *)
LEMMA WorkerMoves ==
  ASSUME PoolInv, TypeOK', NEW w \in Workers, NEW to \in WorkerPhases \ {"gone"},
         phase[w] # "gone", phase' = [phase EXCEPT ![w] = to],
         \A v \in Workers \ {w} : result'[v] = result[v] /\ env'[v] = env[v],
         UNCHANGED <<callerVars, reply, laneVars, charged, task>>,
         WorkerOK(w)'
  PROVE  PoolInv'
<1>1. \A v \in Workers : phase'[v] = IF v = w THEN to ELSE phase[v]
  BY DEF PoolInv, TypeOK
<1>2. /\ \A q \in Requests : Alive(q)' <=> Alive(q)
      /\ Receivable' /\ Receivable
      /\ Apart'
  BY <1>1 DEF PoolInv, Alive, Receivable, Apart, laneVars
<1>3. \A v \in Workers : WorkerOK(v)'
  BY <1>1 DEF PoolInv, WorkerOK
<1>4. Charging' /\ Unsent' /\ Heard' /\ Budgeted'
  BY <1>2 DEF PoolInv, Charging, Unsent, Heard, Budgeted, callerVars, laneVars
<1>5. QED
  BY <1>2, <1>3, <1>4 DEF PoolInv

LEMMA ExpireStep ==
  ASSUME PoolInv, TypeOK', NEW r \in Requests, Expire(r)
  PROVE  PoolInv'
<1>1. UNCHANGED <<callerVars, reply, laneVars, charged, phase, task, result, env>>
  BY DEF Expire, workerVars
<1>2. /\ \A q \in Requests : Alive(q)' <=> Alive(q)
      /\ Receivable' <=> Receivable
      /\ Apart' /\ Charging' /\ Unsent' /\ Heard' /\ Budgeted'
      /\ \A w \in Workers : WorkerOK(w)'
  BY <1>1 DEF PoolInv, Alive, Receivable, Apart, Charging, Unsent, Heard, Budgeted, WorkerOK, callerVars, laneVars
<1>3. QED
  BY <1>2 DEF PoolInv

LEMMA PoolDrops ==
  ASSUME PoolInv, TypeOK', DropPool
  PROVE  PoolInv'
<1>1. UNCHANGED <<callerVars, reply, laneVars, charged, phase, task, result, env>>
  BY DEF DropPool, workerVars
<1>2. /\ Apart' /\ Charging' /\ Unsent' /\ Heard' /\ Budgeted'
      /\ \A w \in Workers : WorkerOK(w)'
  BY <1>1 DEF PoolInv, Alive, Receivable, Apart, Charging, Unsent, Heard, Budgeted, WorkerOK, callerVars, laneVars
<1>3. QED
  BY <1>2 DEF PoolInv

LEMMA ResolveStep ==
  ASSUME PoolInv, TypeOK', NEW r \in Requests, Receive(r) \/ SeeClosed(r) \/ TimeOut(r) \/ DropFuture(r)
  PROVE  PoolInv'
<1>1. UNCHANGED <<reply, laneVars, charged, phase, task, result, env>> /\ caller[r] \in {"new", "waiting"}
  BY DEF Receive, SeeClosed, TimeOut, DropFuture, Resolve, workerVars
<1>2. CASE DropFuture(r)
  <2>1. caller' = [caller EXCEPT ![r] = "dropped"] /\ outcome' = outcome
    BY <1>2 DEF DropFuture
  <2>2. outcome'[r] = "Shutdown" => ~Receivable
    BY <2>1 DEF PoolInv, Heard
  <2>3. QED
    BY <1>1, <2>1, <2>2, CallerMoves
<1>3. CASE Receive(r) \/ SeeClosed(r) \/ TimeOut(r)
  <2>1. /\ caller' = [caller EXCEPT ![r] = "returned"]
        /\ caller[r] = "waiting"
        /\ \/ reply[r] \in Outcomes /\ outcome' = [outcome EXCEPT ![r] = reply[r]]
           \/ reply[r] = "closed" /\ outcome' = [outcome EXCEPT ![r] = "Shutdown"]
           \/ outcome' = [outcome EXCEPT ![r] = "Timeout"]
    BY <1>3 DEF Receive, SeeClosed, TimeOut, Resolve, Fail
  <2>2. /\ outcome'[r] = "Shutdown" => ~Receivable
        /\ \A q \in Requests \ {r} : outcome'[q] = outcome[q]
    BY <2>1 DEF PoolInv, Heard, TypeOK
  <2>3. QED
    BY <1>1, <2>1, <2>2, CallerMoves
<1>4. QED
  BY <1>2, <1>3

LEMMA CallStep ==
  ASSUME PoolInv, TypeOK', NEW r \in Requests, Call(r)
  PROVE  PoolInv'
<1>1. UNCHANGED <<reply, laneVars, phase, task, result, env>> /\ caller[r] = "new"
  BY DEF Call, workerVars
<1>2. CASE Fail(r, "Timeout") /\ UNCHANGED charged
  <2>1. /\ outcome'[r] # "Shutdown"
        /\ \A q \in Requests \ {r} : outcome'[q] = outcome[q]
    BY <1>2 DEF Fail, PoolInv, TypeOK
  <2>2. QED
    BY <1>1, <1>2, <2>1, CallerMoves DEF Fail
<1>3. CASE Fail(r, "Backpressure") /\ UNCHANGED charged
  <2>1. /\ outcome'[r] # "Shutdown"
        /\ \A q \in Requests \ {r} : outcome'[q] = outcome[q]
    BY <1>3 DEF Fail, PoolInv, TypeOK
  <2>2. QED
    BY <1>1, <1>3, <2>1, CallerMoves DEF Fail
<1>4. CASE /\ Reserves(r) /\ charged' = charged \cup {r}
           /\ caller' = [caller EXCEPT ![r] = "send"] /\ UNCHANGED outcome
  <2>1. \A q \in Requests : caller'[q] = IF q = r THEN "send" ELSE caller[q]
    BY <1>4 DEF PoolInv, TypeOK
  <2>2. /\ \A q \in Requests : Alive(q)' <=> Alive(q)
        /\ Receivable' <=> Receivable
        /\ Apart'
    BY <1>1 DEF PoolInv, Alive, Receivable, Apart, laneVars
  <2>3. r \notin charged
    BY <1>1 DEF PoolInv, Charging, Unsent
  <2>4. Charging' /\ Unsent' /\ Heard'
    BY <1>1, <1>4, <2>1, <2>2 DEF PoolInv, Charging, Unsent, Heard, laneVars
  <2>5. \A w \in Workers : WorkerOK(w)'
    BY <1>1 DEF PoolInv, WorkerOK
  <2>6. Budgeted'
    <3>1. IsFiniteSet(Atoms(Bytes, charged)) /\ Bytes[r] \in Nat
      BY PoolAssumption DEF PoolInv, Budgeted
    <3>2. IsFiniteSet(Atoms(Bytes, charged \cup {r}))
      BY <2>3, <3>1, TotalGrows
    <3>3. QED
      BY <1>4, <3>2 DEF Budgeted, Reserves
  <2>7. QED
    BY <2>2, <2>4, <2>5, <2>6 DEF PoolInv
<1>5. QED
  BY <1>2, <1>3, <1>4 DEF Call

(* A task that is given up, whether or not anything of it is left.         *)
LEMMA ChargeShrinks ==
  ASSUME Budgeted, NEW gone, charged' = charged \ gone
  PROVE  Budgeted'
<1>1. charged \ gone \in SUBSET charged
  OBVIOUS
<1>2. /\ IsFiniteSet(Atoms(Bytes, charged \ gone))
      /\ Total(Bytes, charged \ gone) \in Nat /\ Total(Bytes, charged) \in Nat
      /\ Total(Bytes, charged \ gone) <= Total(Bytes, charged)
  BY <1>1, TotalOfPart DEF Budgeted
<1>3. Total(Bytes, charged \ gone) <= ScriptBytes
  BY <1>2, PoolAssumption DEF Budgeted
<1>4. QED
  BY <1>2, <1>3 DEF Budgeted

LEMMA RejectStep ==
  ASSUME PoolInv, TypeOK', NEW r \in Requests, NEW err \in {"Shutdown", "Backpressure"},
         caller[r] \in {"send", "overflow"}, Reject(r, err), err = "Shutdown" => ~Receivable,
         UNCHANGED <<reply, phase, task, result, env>>
  PROVE  PoolInv'
<1>1. /\ \A q \in Requests : caller'[q] = IF q = r THEN "returned" ELSE caller[q]
      /\ \A q \in Requests : outcome'[q] = IF q = r THEN err ELSE outcome[q]
      /\ charged' = charged \ {r} /\ UNCHANGED laneVars
  BY DEF Reject, Fail, PoolInv, TypeOK
<1>2. /\ \A q \in Requests : Alive(q)' <=> Alive(q)
      /\ Receivable' <=> Receivable
      /\ Apart'
  BY <1>1 DEF PoolInv, Alive, Receivable, Apart, laneVars
<1>3. ~Alive(r)
  BY DEF PoolInv, Unsent
<1>4. Charging' /\ Unsent' /\ Heard'
  BY <1>1, <1>2, <1>3 DEF PoolInv, Charging, Unsent, Heard, laneVars
<1>5. \A w \in Workers : WorkerOK(w)'
  BY DEF PoolInv, WorkerOK
<1>6. Budgeted'
  BY <1>1, ChargeShrinks DEF PoolInv
<1>7. QED
  BY <1>2, <1>4, <1>5, <1>6 DEF PoolInv

(* A task reaches one of the lanes. *)
LEMMA QueueStep ==
  ASSUME PoolInv, TypeOK', NEW r \in Requests,
         caller[r] \in {"send", "overflow"}, Receivable, Accept(r),
         \/ critical' = Append(critical, r) /\ UNCHANGED bulk
         \/ bulk' = Append(bulk, r) /\ UNCHANGED critical,
         UNCHANGED <<reply, phase, task, result, env>>
  PROVE  PoolInv'
<1>1. /\ \A q \in Requests : caller'[q] = IF q = r THEN "waiting" ELSE caller[q]
      /\ outcome' = outcome /\ charged' = charged
  BY DEF Accept, PoolInv, TypeOK
<1>2. ~Alive(r) /\ reply[r] = None /\ r \in charged
  BY DEF PoolInv, Unsent, Charging
<1>3. /\ critical \in Seq(Requests) /\ bulk \in Seq(Requests) /\ Distinct(critical) /\ Distinct(bulk)
      /\ r \notin In(critical) /\ r \notin In(bulk)
  BY <1>2 DEF PoolInv, TypeOK, Apart, Alive
<1>4. /\ Distinct(critical') /\ Distinct(bulk') /\ In(critical') \cap In(bulk') = {}
      /\ In(critical') \cup In(bulk') = In(critical) \cup In(bulk) \cup {r}
  <2>1. CASE critical' = Append(critical, r) /\ UNCHANGED bulk
    BY <1>3, <2>1, LaneGrows DEF PoolInv, Apart
  <2>2. CASE bulk' = Append(bulk, r) /\ UNCHANGED critical
    BY <1>3, <2>2, LaneGrows DEF PoolInv, Apart
  <2>3. QED
    BY <2>1, <2>2
<1>5. Apart'
  BY <1>2, <1>4 DEF PoolInv, Apart, Alive
<1>6. Receivable' /\ \A q \in Requests : Alive(q)' <=> Alive(q) \/ q = r
  BY <1>4 DEF Alive, Receivable
<1>7. Charging' /\ Unsent'
  BY <1>1, <1>2, <1>6 DEF PoolInv, Charging, Unsent
<1>8. Heard'
  BY <1>1, <1>2, <1>6 DEF PoolInv, Heard, None
<1>9. (\A w \in Workers : WorkerOK(w)') /\ Budgeted'
  BY <1>1 DEF PoolInv, WorkerOK, Budgeted
<1>10. QED
  BY <1>5, <1>7, <1>8, <1>9 DEF PoolInv

LEMMA SendStep ==
  ASSUME PoolInv, TypeOK', NEW r \in Requests, TrySend(r) \/ TryOverflow(r)
  PROVE  PoolInv'
<1>1. UNCHANGED <<reply, phase, task, result, env>> /\ caller[r] \in {"send", "overflow"}
  BY DEF TrySend, TryOverflow, workerVars
<1>2. CASE ~Receivable /\ Reject(r, "Shutdown")
  BY <1>1, <1>2, RejectStep
<1>3. CASE Reject(r, "Backpressure")
  BY <1>1, <1>3, RejectStep
<1>4. CASE /\ Receivable /\ Accept(r)
           /\ \/ critical' = Append(critical, r) /\ UNCHANGED bulk
              \/ bulk' = Append(bulk, r) /\ UNCHANGED critical
  BY <1>1, <1>4, QueueStep
<1>5. CASE /\ caller[r] = "send" /\ caller' = [caller EXCEPT ![r] = "overflow"]
           /\ UNCHANGED <<outcome, charged, laneVars>>
  <2>1. \A q \in Requests : caller'[q] = IF q = r THEN "overflow" ELSE caller[q]
    BY <1>5 DEF PoolInv, TypeOK
  <2>2. /\ \A q \in Requests : Alive(q)' <=> Alive(q)
        /\ Receivable' <=> Receivable
        /\ Apart'
    BY <1>1, <1>5 DEF PoolInv, Alive, Receivable, Apart, laneVars
  <2>3. Charging' /\ Unsent' /\ Heard' /\ Budgeted'
    BY <1>1, <1>5, <2>1, <2>2 DEF PoolInv, Charging, Unsent, Heard, Budgeted, laneVars
  <2>4. \A w \in Workers : WorkerOK(w)'
    BY <1>1 DEF PoolInv, WorkerOK
  <2>5. QED
    BY <2>2, <2>3, <2>4 DEF PoolInv
<1>6. QED
  BY <1>2, <1>3, <1>4, <1>5 DEF TrySend, TryOverflow

-----------------------------------------------------------------------------
LEMMA RecvStep ==
  ASSUME PoolInv, TypeOK', NEW w \in Workers, Recv(w)
  PROVE  PoolInv'
<1>1. PICK r \in Requests :
        /\ task' = [task EXCEPT ![w] = r] /\ r \in In(critical) \cup In(bulk)
        /\ Distinct(critical') /\ Distinct(bulk') /\ In(critical') \cap In(bulk') = {}
        /\ In(critical') \cup In(bulk') = (In(critical) \cup In(bulk)) \ {r}
  <2>1. /\ critical \in Seq(Requests) /\ bulk \in Seq(Requests) /\ Distinct(critical) /\ Distinct(bulk)
        /\ In(critical) \cap In(bulk) = {}
    BY DEF PoolInv, TypeOK, Apart
  <2>2. CASE critical # <<>> /\ task' = [task EXCEPT ![w] = Head(critical)] /\ critical' = Tail(critical) /\ UNCHANGED bulk
    <3>1. /\ Head(critical) \in Requests /\ Head(critical) \in In(critical)
          /\ Distinct(Tail(critical)) /\ In(Tail(critical)) = In(critical) \ {Head(critical)}
      BY <2>1, <2>2, LaneShrinks
    <3> DEFINE r == Head(critical)
    <3>2. /\ task' = [task EXCEPT ![w] = r] /\ r \in In(critical) \cup In(bulk)
          /\ Distinct(critical') /\ Distinct(bulk') /\ In(critical') \cap In(bulk') = {}
          /\ In(critical') \cup In(bulk') = (In(critical) \cup In(bulk)) \ {r}
      BY <2>1, <2>2, <3>1
    <3>3. QED
      BY <3>1, <3>2
  <2>3. CASE bulk # <<>> /\ task' = [task EXCEPT ![w] = Head(bulk)] /\ bulk' = Tail(bulk) /\ UNCHANGED critical
    <3>1. /\ Head(bulk) \in Requests /\ Head(bulk) \in In(bulk)
          /\ Distinct(Tail(bulk)) /\ In(Tail(bulk)) = In(bulk) \ {Head(bulk)}
      BY <2>1, <2>3, LaneShrinks
    <3> DEFINE r == Head(bulk)
    <3>2. /\ task' = [task EXCEPT ![w] = r] /\ r \in In(critical) \cup In(bulk)
          /\ Distinct(critical') /\ Distinct(bulk') /\ In(critical') \cap In(bulk') = {}
          /\ In(critical') \cup In(bulk') = (In(critical) \cup In(bulk)) \ {r}
      BY <2>1, <2>3, <3>1
    <3>3. QED
      BY <3>1, <3>2
  <2>4. QED
    BY <2>2, <2>3 DEF Recv
<1>2. /\ phase[w] = "recv" /\ task[w] = None
      /\ \A v \in Workers : phase'[v] = IF v = w THEN "got" ELSE phase[v]
      /\ \A v \in Workers : task'[v] = IF v = w THEN r ELSE task[v]
      /\ UNCHANGED <<callerVars, reply, charged, result, env>>
  BY <1>1 DEF Recv, At, PoolInv, TypeOK, WorkerOK
<1>3. r # None /\ \A v \in Workers : task[v] # r
  BY <1>1, PoolAssumption DEF PoolInv, Apart
<1>4. Apart'
  BY <1>1, <1>2, <1>3 DEF PoolInv, Apart
<1>5. \A q \in Requests : Alive(q)' <=> Alive(q)
  BY <1>1, <1>2, PoolAssumption DEF Alive
<1>6. Receivable' /\ Receivable
  BY <1>2 DEF Receivable
<1>7. \A v \in Workers : WorkerOK(v)'
  BY <1>2 DEF PoolInv, WorkerOK
<1>8. Charging' /\ Unsent' /\ Heard' /\ Budgeted'
  BY <1>2, <1>5, <1>6 DEF PoolInv, Charging, Unsent, Heard, Budgeted, callerVars
<1>9. QED
  BY <1>4, <1>7, <1>8 DEF PoolInv

LEMMA QuietWorkerStep ==
  ASSUME PoolInv, TypeOK', NEW w \in Workers,
         \/ RecvNone(w) \/ MakeEnv(w) \/ HaveEnv(w) \/ RunLifts(w) \/ Rebuild(w) \/ RebuildFails(w)
         \/ SkipStopped(w) \/ MakeEnvFails(w) \/ RunEnds(w) \/ RunPanics(w) \/ RunOutOfMemory(w)
  PROVE  PoolInv'
<1>1. UNCHANGED <<callerVars, reply, laneVars, charged, task>>
  BY DEF RecvNone, MakeEnv, HaveEnv, RunLifts, Rebuild, RebuildFails, SkipStopped, MakeEnvFails, RunEnds, RunPanics,
         RunOutOfMemory, Conclude
<1>2. /\ phase[w] # "gone"
      /\ \A v \in Workers \ {w} : result'[v] = result[v] /\ env'[v] = env[v]
  BY DEF RecvNone, MakeEnv, HaveEnv, RunLifts, Rebuild, RebuildFails, SkipStopped, MakeEnvFails, RunEnds, RunPanics,
         RunOutOfMemory, Conclude, At, PoolInv, TypeOK
<1>3. \E to \in WorkerPhases \ {"gone"} : phase' = [phase EXCEPT ![w] = to]
  BY DEF RecvNone, MakeEnv, HaveEnv, RunLifts, Rebuild, RebuildFails, SkipStopped, MakeEnvFails, RunEnds, RunPanics,
         RunOutOfMemory, At, WorkerPhases
<1>4. WorkerOK(w)'
  <2>1. WorkerOK(w) /\ TypeOK
    BY DEF PoolInv
  <2>2. CASE RecvNone(w) \/ MakeEnv(w) \/ HaveEnv(w) \/ RunLifts(w) \/ Rebuild(w) \/ RebuildFails(w)
    BY <1>1, <2>1, <2>2 DEF RecvNone, MakeEnv, HaveEnv, RunLifts, Rebuild, RebuildFails, At, WorkerOK, TypeOK
  <2>3. CASE SkipStopped(w) \/ MakeEnvFails(w) \/ RunEnds(w) \/ RunPanics(w) \/ RunOutOfMemory(w)
    BY <1>1, <2>1, <2>3 DEF SkipStopped, MakeEnvFails, RunEnds, RunPanics, RunOutOfMemory, Conclude, At, WorkerOK, TypeOK,
                            NeedsRebuild, Ok
  <2>4. QED
    BY <2>2, <2>3
<1>5. QED
  BY <1>1, <1>2, <1>3, <1>4, WorkerMoves

LEMMA ReplyStep ==
  ASSUME PoolInv, TypeOK', NEW w \in Workers, Reply(w)
  PROVE  PoolInv'
<1> DEFINE to == IF NeedsRebuild(result[w]) THEN "rebuild" ELSE "drop"
           word == IF caller[task[w]] = "waiting" THEN result[w] ELSE "closed"
<1>1. /\ phase[w] = "reply" /\ task[w] \in Requests /\ result[w] \in {Ok, "Timeout", "Oom", "Panic"}
      /\ \A v \in Workers : phase'[v] = IF v = w THEN to ELSE phase[v]
      /\ \A q \in Requests : reply'[q] = IF q = task[w] THEN word ELSE reply[q]
      /\ UNCHANGED <<callerVars, laneVars, charged, task, result, env>>
  BY DEF Reply, At, PoolInv, TypeOK, WorkerOK
<1>2. word \notin {None, "Shutdown"} /\ (caller[task[w]] = "waiting" => word # "closed")
  BY <1>1 DEF None, Ok
<1>3. /\ \A q \in Requests : Alive(q)' <=> Alive(q)
      /\ Receivable' /\ Receivable
      /\ Apart'
  BY <1>1 DEF PoolInv, Alive, Receivable, Apart, laneVars
<1>4. Alive(task[w])
  BY DEF Alive
<1>5. Charging' /\ Unsent' /\ Budgeted'
  BY <1>1, <1>3, <1>4 DEF PoolInv, Charging, Unsent, Budgeted, callerVars
<1> HIDE DEF word
<1>6. Heard'
  BY <1>1, <1>2, <1>3 DEF PoolInv, Heard, callerVars, laneVars
<1>7. \A v \in Workers : WorkerOK(v)'
  <2>1. ASSUME NEW v \in Workers PROVE WorkerOK(v)'
    <3>1. WorkerOK(v) /\ task[v] \in Requests \cup {None}
      BY DEF PoolInv, TypeOK
    <3>2. task[v] # None /\ reply[task[v]] # None => reply'[task[v]] # None
      BY <1>1, <1>2, <3>1
    <3>3. v = w => reply'[task[v]] # None
      BY <1>1, <1>2
    <3>4. QED
      BY <1>1, <3>1, <3>2, <3>3 DEF WorkerOK
  <2>2. QED
    BY <2>1
<1>8. QED
  BY <1>3, <1>5, <1>6, <1>7 DEF PoolInv

LEMMA DropStep ==
  ASSUME PoolInv, TypeOK', NEW w \in Workers, DropTask(w)
  PROVE  PoolInv'
<1>1. /\ phase[w] = "drop" /\ task[w] \in Requests /\ task[w] # None /\ reply[task[w]] # None
      /\ \A v \in Workers : phase'[v] = IF v = w THEN "recv" ELSE phase[v]
      /\ \A v \in Workers : task'[v] = IF v = w THEN None ELSE task[v]
      /\ charged' = charged \ {task[w]}
      /\ \A v \in Workers \ {w} : result'[v] = result[v]
      /\ UNCHANGED <<callerVars, reply, laneVars, env>>
  BY PoolAssumption DEF DropTask, At, Holds, PoolInv, TypeOK, WorkerOK
<1>2. None \notin In(critical) \cup In(bulk)
  BY PoolAssumption, LenProperties DEF PoolInv, TypeOK, In
<1>3. Apart'
  BY <1>1, <1>2 DEF PoolInv, Apart, laneVars
<1>4. \A q \in Requests : Alive(q)' <=> Alive(q) /\ q # task[w]
  BY <1>1, PoolAssumption DEF PoolInv, Apart, Alive, laneVars
<1>5. Receivable' /\ Receivable
  BY <1>1 DEF Receivable
<1>6. caller[task[w]] \notin {"new", "send", "overflow"}
  BY <1>1 DEF PoolInv, Unsent, Alive
<1>7. Charging' /\ Unsent' /\ Heard'
  BY <1>1, <1>4, <1>5, <1>6 DEF PoolInv, Charging, Unsent, Heard, callerVars, laneVars
<1>8. \A v \in Workers : WorkerOK(v)'
  BY <1>1 DEF PoolInv, WorkerOK
<1>9. Budgeted'
  BY <1>1, ChargeShrinks DEF PoolInv
<1>10. QED
  BY <1>3, <1>7, <1>8, <1>9 DEF PoolInv

(* The last worker to go takes what the lanes hold with it. *)
LEMMA ExitStep ==
  ASSUME PoolInv, TypeOK', NEW w \in Workers, Exit(w)
  PROVE  PoolInv'
<1> DEFINE last == \A v \in Workers \ {w} : phase[v] = "gone"
           lost == IF last THEN Queued ELSE {}
           left == Holds(w) \cup lost
<1>1. Queued = In(critical) \cup In(bulk) /\ Queued \subseteq Requests
  BY LenProperties DEF Queued, In, PoolInv, TypeOK
<1>2. /\ phase[w] = "exit" /\ Receivable
      /\ \A v \in Workers : phase'[v] = IF v = w THEN "gone" ELSE phase[v]
      /\ \A v \in Workers : task'[v] = IF v = w THEN None ELSE task[v]
      /\ \A v \in Workers : env'[v] = IF v = w THEN "absent" ELSE env[v]
      /\ \A v \in Workers \ {w} : result'[v] = result[v]
      /\ charged' = charged \ left
      /\ \A q \in Requests : reply'[q] = IF q \in lost THEN "closed" ELSE reply[q]
      /\ IF last THEN critical' = <<>> /\ bulk' = <<>> ELSE UNCHANGED laneVars
      /\ UNCHANGED callerVars
  BY DEF Exit, At, PoolInv, TypeOK, Receivable, laneVars, callerVars
<1>3. Receivable' <=> ~last
  BY <1>2 DEF Receivable
<1>4. None \notin Queued
  BY <1>1, PoolAssumption
<1>5. In(critical') \cup In(bulk') = IF last THEN {} ELSE Queued
  BY <1>1, <1>2, NoLane DEF laneVars
<1>6. Apart'
  <2>1. Distinct(critical') /\ Distinct(bulk') /\ In(critical') \cap In(bulk') = {}
    BY <1>2, NoLane DEF PoolInv, Apart, laneVars
  <2>2. QED
    BY <1>1, <1>2, <1>4, <1>5, <2>1 DEF PoolInv, Apart
<1>7. \A q \in Requests : Alive(q)' <=> Alive(q) /\ q \notin left
  <2>1. ASSUME NEW q \in Requests PROVE Alive(q)' <=> Alive(q) /\ q \notin left
    <3>1. Alive(q)' <=> (q \in Queued /\ ~last) \/ \E v \in Workers \ {w} : task[v] = q
      BY <1>2, <1>5, PoolAssumption DEF Alive
    <3>2. Alive(q) <=> q \in Queued \/ \E v \in Workers : task[v] = q
      BY <1>1 DEF Alive
    <3>3. task[w] = q => q \notin Queued /\ \A v \in Workers \ {w} : task[v] # q
      BY <1>1, PoolAssumption DEF PoolInv, Apart
    <3>4. q \in Queued => \A v \in Workers : task[v] # q
      BY <1>1 DEF PoolInv, Apart
    <3>5. q \in left <=> task[w] = q \/ (last /\ q \in Queued)
      BY DEF Holds
    <3>6. QED
      BY <3>1, <3>2, <3>3, <3>4, <3>5
  <2>2. QED
    BY <2>1
<1>8. \A q \in Requests : q \in left => Alive(q)
  BY <1>1 DEF Alive, Holds
<1>9. Charging'
  BY <1>2, <1>7, <1>8 DEF PoolInv, Charging, Unsent, callerVars
<1>10. Unsent'
  BY <1>2, <1>7, <1>8 DEF PoolInv, Unsent, callerVars
<1>11. \A q \in Requests : task[w] = q => reply[q] # None
  BY <1>2, PoolAssumption DEF PoolInv, WorkerOK
<1>12. Heard'
  <2>1. ASSUME NEW q \in Requests
        PROVE  /\ caller[q] = "waiting" /\ reply'[q] = None => Alive(q)'
               /\ caller[q] = "waiting" /\ reply'[q] = "closed" => ~Receivable'
               /\ reply'[q] # "Shutdown"
    <3>1. /\ caller[q] = "waiting" /\ reply[q] = None => Alive(q)
          /\ caller[q] = "waiting" => reply[q] # "closed"
          /\ reply[q] # "Shutdown"
      BY <1>2 DEF PoolInv, Heard
    <3>2. q \in lost => last
      OBVIOUS
    <3>3. q \in left => q \in lost \/ task[w] = q
      BY DEF Holds
    <3>4. reply'[q] = None => reply[q] = None /\ q \notin lost
      BY <1>2 DEF None
    <3>5. QED
      BY <1>2, <1>3, <1>7, <1>11, <3>1, <3>2, <3>3, <3>4
  <2>2. \A q \in Requests : outcome'[q] # "Shutdown"
    BY <1>2 DEF PoolInv, Heard, callerVars
  <2>3. ~Receivable' => critical' = <<>> /\ bulk' = <<>>
    BY <1>2, <1>3
  <2>4. caller' = caller
    BY <1>2 DEF callerVars
  <2>5. QED
    BY <2>1, <2>2, <2>3, <2>4 DEF Heard
<1>13. \A v \in Workers : WorkerOK(v)'
  <2>1. ASSUME NEW v \in Workers PROVE WorkerOK(v)'
    <3>1. WorkerOK(v) /\ task[v] \in Requests \cup {None}
      BY DEF PoolInv, TypeOK
    <3>2. CASE v = w
      BY <1>2, <3>2 DEF WorkerOK
    <3>3. CASE v # w
      <4>1. task[v] # None /\ reply[task[v]] # None => reply'[task[v]] # None
        BY <1>2, <3>1 DEF None
      <4>2. QED
        BY <1>2, <3>1, <3>3, <4>1 DEF WorkerOK
    <3>4. QED
      BY <3>2, <3>3
  <2>2. QED
    BY <2>1
<1>14. Budgeted'
  BY <1>2, ChargeShrinks DEF PoolInv
<1>15. QED
  BY <1>6, <1>9, <1>10, <1>12, <1>13, <1>14 DEF PoolInv

LEMMA PoolStep == PoolInv /\ [Next]_vars => PoolInv'
<1> SUFFICES ASSUME PoolInv, [Next]_vars PROVE PoolInv'
  OBVIOUS
<1>1. TypeOK'
  BY TypeStep DEF PoolInv
<1>2. ASSUME NEW r \in Requests, Expire(r) \/ Call(r) \/ CallerStep(r) \/ DropFuture(r) PROVE PoolInv'
  BY <1>1, <1>2, ExpireStep, CallStep, SendStep, ResolveStep DEF CallerStep
<1>3. CASE DropPool
  BY <1>1, <1>3, PoolDrops
<1>4. ASSUME NEW w \in Workers, WorkerStep(w) PROVE PoolInv'
  BY <1>1, <1>4, RecvStep, QuietWorkerStep, ReplyStep, DropStep, ExitStep DEF WorkerStep
<1>5. CASE UNCHANGED vars
  <2>1. UNCHANGED <<callerVars, reply, laneVars, charged, phase, task, result, env>>
    BY <1>5 DEF vars, workerVars
  <2>2. /\ Apart' /\ Charging' /\ Unsent' /\ Heard' /\ Budgeted'
        /\ \A w \in Workers : WorkerOK(w)'
    BY <2>1 DEF PoolInv, Alive, Receivable, Apart, Charging, Unsent, Heard, Budgeted, WorkerOK, callerVars, laneVars
  <2>3. QED
    BY <1>1, <2>2 DEF PoolInv
<1>6. QED
  BY <1>2, <1>3, <1>4, <1>5 DEF Next

-----------------------------------------------------------------------------
(* A task is at one place in the lanes or with one worker, its bytes are   *)
(* charged exactly as long as it exists, and what is charged stays within  *)
(* the budget (task.rs, ExecTask; pool.rs, exec; worker.rs, worker_main).  *)
THEOREM TasksStayAccounted == Spec => []TasksAccounted
<1>1. PoolInv => TasksAccounted
  <2> SUFFICES ASSUME PoolInv PROVE TasksAccounted
    OBVIOUS
  <2>1. /\ DOMAIN critical = 1 .. Len(critical) /\ DOMAIN bulk = 1 .. Len(bulk)
    BY LenProperties DEF PoolInv, TypeOK
  <2>2. ASSUME NEW r \in Requests PROVE Alive(r) <=> Places(r) # {}
    <3> DEFINE crit == {<<"critical", i>> : i \in {j \in 1 .. Len(critical) : critical[j] = r}}
               other == {<<"bulk", i>> : i \in {j \in 1 .. Len(bulk) : bulk[j] = r}}
               held == {<<"worker", w>> : w \in {v \in Workers : task[v] = r}}
    <3>1. Places(r) = crit \cup other \cup held
      BY <2>1 DEF Places
    <3>2. r \in In(critical) <=> crit # {}
      BY DEF In
    <3>3. r \in In(bulk) <=> other # {}
      BY DEF In
    <3>4. (\E w \in Workers : task[w] = r) <=> held # {}
      OBVIOUS
    <3>5. Alive(r) <=> crit # {} \/ other # {} \/ held # {}
      BY <3>2, <3>3, <3>4 DEF Alive
    <3> HIDE DEF crit, other, held
    <3>6. QED
      BY <3>1, <3>5
  <2>3. ASSUME NEW r \in Requests, NEW p \in Places(r), NEW q \in Places(r) PROVE p = q
    <3> DEFINE InCritical(x) == \E i \in 1 .. Len(critical) : x = <<"critical", i>> /\ critical[i] = r
               InBulk(x) == \E i \in 1 .. Len(bulk) : x = <<"bulk", i>> /\ bulk[i] = r
               AtWorker(x) == \E w \in Workers : x = <<"worker", w>> /\ task[w] = r
    <3>1. \A x \in Places(r) : InCritical(x) \/ InBulk(x) \/ AtWorker(x)
      BY <2>1 DEF Places
    <3>2. InCritical(p) /\ InCritical(q) => p = q
      BY DEF PoolInv, Apart, Distinct
    <3>3. InBulk(p) /\ InBulk(q) => p = q
      BY DEF PoolInv, Apart, Distinct
    <3>4. AtWorker(p) /\ AtWorker(q) => p = q
      BY PoolAssumption DEF PoolInv, Apart
    <3>5. \A x : InCritical(x) => r \in In(critical)
      BY DEF In
    <3>6. \A x : InBulk(x) => r \in In(bulk)
      BY DEF In
    <3>7. \A x : AtWorker(x) => r \notin In(critical) /\ r \notin In(bulk)
      BY DEF PoolInv, Apart
    <3>8. r \in In(critical) => r \notin In(bulk)
      BY DEF PoolInv, Apart
    <3> HIDE DEF InCritical, InBulk, AtWorker
    <3>9. QED
      BY <3>1, <3>2, <3>3, <3>4, <3>5, <3>6, <3>7, <3>8
  <2>4. QED
    BY <2>2, <2>3 DEF PoolInv, TasksAccounted, OnePlace, ChargedIsAlive, Charging, Budgeted
<1>2. QED
  BY <1>1, PoolInit, PoolStep, PTL DEF Spec

(* No worker takes or runs a script in an environment that an earlier one  *)
(* left broken (worker.rs, worker_main and rebuild_env).                   *)
THEOREM EnvironmentsStayUsable == Spec => []EnvUsable
<1>1. PoolInv => EnvUsable
  BY DEF PoolInv, WorkerOK, EnvUsable
<1>2. QED
  BY <1>1, PoolInit, PoolStep, PTL DEF Spec

(* A caller that waits has its answer or a worker that will come to it,    *)
(* and is told that the pool is down only when it is (worker.rs,           *)
(* worker_main; task.rs, exec).                                            *)
THEOREM CallersAreAnswered == Spec => []Answered
<1>1. PoolInv => Answered
  <2> SUFFICES ASSUME PoolInv PROVE Answered
    OBVIOUS
  <2>1. Queued = In(critical) \cup In(bulk)
    BY LenProperties DEF Queued, In, PoolInv, TypeOK
  <2>2. ASSUME NEW r \in Requests, caller[r] = "waiting", reply[r] = None
        PROVE  \E w \in Workers : phase[w] # "gone" /\ (task[w] = r \/ r \in Queued)
    <3>1. Alive(r)
      BY <2>2 DEF PoolInv, Heard
    <3>2. CASE r \in Queued
      <4>1. Receivable
        BY <2>1, <3>2, NoLane DEF PoolInv, Heard
      <4>2. QED
        BY <3>2, <4>1 DEF Receivable
    <3>3. CASE r \notin Queued
      <4>1. PICK w \in Workers : task[w] = r
        BY <2>1, <3>1, <3>3 DEF Alive
      <4>2. phase[w] # "gone"
        BY <4>1, PoolAssumption DEF PoolInv, WorkerOK
      <4>3. QED
        BY <4>1, <4>2
    <3>4. QED
      BY <3>2, <3>3
  <2>3. ShutdownMeansDown
    BY DEF PoolInv, Heard, ShutdownMeansDown
  <2>4. QED
    BY <2>2, <2>3 DEF Answered
<1>2. QED
  BY <1>1, PoolInit, PoolStep, PTL DEF Spec
=============================================================================
