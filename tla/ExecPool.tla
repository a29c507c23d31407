------------------------------- MODULE ExecPool -------------------------------
(***************************************************************************)
(* The script execution pool of runtime-exec (pool.rs, task.rs and         *)
(* worker_main of worker.rs).  A caller reserves the bytes of its script,  *)
(* puts a task on one of two bounded lanes and awaits a oneshot reply      *)
(* until its deadline; a worker thread takes a task from any lane that has *)
(* one, runs it in its own engine environment, replies, and rebuilds the   *)
(* environment after a panic or an unrecovered out-of-memory.  Dropping    *)
(* the caller's future cancels the task; dropping the pool disconnects the *)
(* lanes from the sending side, and the exit of the last worker from the   *)
(* receiving side.                                                         *)
(*                                                                         *)
(* reserve() is one step here (module Budget shows that it may be).  What  *)
(* a script computes is a choice among the kinds of result run() can give. *)
(* catch_unwind catches: the build unwinds, as the tests do.               *)
(***************************************************************************)
EXTENDS Naturals, Sequences, FiniteSets, Totals

CONSTANTS Requests,     \* the calls of WorkerPool::exec, each made once
          Workers,      \* the worker threads
          Kind,         \* Kind[r]: "Anubis", "Js" or "Wasm"
          Bytes,        \* Bytes[r]: the length of the script
          ScriptBytes,  \* WorkerPoolLimits.script_bytes
          QueueCap      \* WorkerPoolLimits.queue_capacity

None == "none"

ASSUME PoolAssumption ==
  /\ Workers # {} /\ None \notin Requests
  /\ Kind \in [Requests -> {"Anubis", "Js", "Wasm"}]
  /\ Bytes \in [Requests -> Nat]
  /\ ScriptBytes \in Nat \ {0}
  /\ QueueCap \in Nat \ {0}

VARIABLES caller,       \* caller[r]: where the caller of r is
          outcome,      \* outcome[r]: what its future resolved to
          reply,        \* reply[r]: the oneshot channel
          critical,     \* the lane for Anubis and Js
          bulk,         \* the lane for Wasm
          cancelled,    \* requests whose ExecControl.cancelled is set
          expired,      \* requests whose deadline has passed
          charged,      \* requests whose script bytes are reserved
          phase,        \* phase[w]: where worker w is in its loop
          task,         \* task[w]: the task it holds
          result,       \* result[w]: what run() gave for it
          env,          \* env[w]: its engine environment
          open          \* the WorkerPool, the only sender, still exists

callerVars == <<caller, outcome>>
laneVars == <<critical, bulk>>
workerVars == <<phase, task, result, env>>
vars == <<callerVars, reply, laneVars, cancelled, expired, charged, workerVars, open>>

Ok == "Ok"
(* The results that need no further distinction are Ok (a token or a       *)
(* script error) and the ones the loop of worker_main looks at.            *)
Outcomes == {Ok, "Timeout", "Backpressure", "Shutdown", "Oom", "Panic"}

CallerPhases == {"new", "send", "overflow", "waiting", "returned", "dropped"}
WorkerPhases == {"recv", "got", "run", "retry", "reply", "rebuild", "drop", "exit", "gone"}

Init == /\ caller = [r \in Requests |-> "new"]
        /\ outcome = [r \in Requests |-> None]
        /\ reply = [r \in Requests |-> None]
        /\ critical = <<>>
        /\ bulk = <<>>
        /\ cancelled = {}
        /\ expired = {}
        /\ charged = {}
        /\ phase = [w \in Workers |-> "recv"]
        /\ task = [w \in Workers |-> None]
        /\ result = [w \in Workers |-> None]
        /\ env = [w \in Workers |-> "absent"]
        /\ open = TRUE

(* ExecControl::stopped *)
Stopped(r) == r \in cancelled \cup expired

(* The deadline is fixed when the call is made; a zero timeout has expired *)
(* before the first check.                                                 *)
Expire(r) == /\ r \notin expired
             /\ caller[r] \in {"new", "waiting"}
             /\ expired' = expired \cup {r}
             /\ UNCHANGED <<callerVars, reply, laneVars, cancelled, charged, workerVars, open>>

-----------------------------------------------------------------------------
(* WorkerPool::exec, up to the future it returns *)

Receivable == \E w \in Workers : phase[w] # "gone"

CriticalCap == QueueCap \div 4 + 1
IsCritical(r) == Kind[r] # "Wasm"

(* The future resolves at its first poll, and its CancelOnDrop is dropped. *)
Fail(r, err) == /\ caller' = [caller EXCEPT ![r] = "returned"]
                /\ outcome' = [outcome EXCEPT ![r] = err]
                /\ cancelled' = cancelled \cup {r}

(* reserve(1, len): the charge of r fits next to those already taken *)
Reserves(r) == Total(Bytes, charged \cup {r}) <= ScriptBytes

Call(r) ==
  /\ open
  /\ caller[r] = "new"
  /\ \/ /\ Stopped(r)
        /\ Fail(r, "Timeout")
        /\ UNCHANGED charged
     \/ /\ ~Stopped(r)
        /\ ~Reserves(r)
        /\ Fail(r, "Backpressure")
        /\ UNCHANGED charged
     \/ /\ ~Stopped(r)
        /\ Reserves(r)
        /\ charged' = charged \cup {r}
        /\ caller' = [caller EXCEPT ![r] = "send"]
        /\ UNCHANGED <<outcome, cancelled>>
  /\ UNCHANGED <<reply, laneVars, expired, workerVars, open>>

(* A task that could not be sent is dropped, and its charge with it.       *)
Reject(r, err) == /\ Fail(r, err)
                  /\ charged' = charged \ {r}
                  /\ UNCHANGED laneVars

Accept(r) == /\ caller' = [caller EXCEPT ![r] = "waiting"]
             /\ UNCHANGED <<outcome, cancelled, charged>>

(* ExecQueueTx::try_send, on the lane of the task's priority *)
TrySend(r) ==
  /\ caller[r] = "send"
  /\ \/ /\ ~Receivable
        /\ Reject(r, "Shutdown")
     \/ /\ Receivable
        /\ IsCritical(r)
        /\ \/ /\ Len(critical) < CriticalCap
              /\ critical' = Append(critical, r)
              /\ Accept(r)
              /\ UNCHANGED bulk
           \/ /\ Len(critical) = CriticalCap
              /\ Reject(r, "Backpressure")
     \/ /\ Receivable
        /\ ~IsCritical(r)
        /\ \/ /\ Len(bulk) < QueueCap
              /\ bulk' = Append(bulk, r)
              /\ Accept(r)
              /\ UNCHANGED critical
           \/ /\ Len(bulk) = QueueCap
              /\ caller' = [caller EXCEPT ![r] = "overflow"]
              /\ UNCHANGED <<outcome, cancelled, charged, laneVars>>
  /\ UNCHANGED <<reply, expired, workerVars, open>>

(* A bulk task whose lane is full tries the critical lane. *)
TryOverflow(r) ==
  /\ caller[r] = "overflow"
  /\ \/ /\ ~Receivable
        /\ Reject(r, "Shutdown")
     \/ /\ Receivable
        /\ Len(critical) < CriticalCap
        /\ critical' = Append(critical, r)
        /\ Accept(r)
        /\ UNCHANGED bulk
     \/ /\ Receivable
        /\ Len(critical) = CriticalCap
        /\ Reject(r, "Backpressure")
  /\ UNCHANGED <<reply, expired, workerVars, open>>

-----------------------------------------------------------------------------
(* The future of exec: timeout_at polls the reply before the deadline.  A  *)
(* sender dropped without a reply closes the channel.                      *)

Resolve(r, out) == /\ caller[r] = "waiting"
                   /\ Fail(r, out)
                   /\ UNCHANGED <<reply, laneVars, expired, charged, workerVars, open>>

Receive(r) == reply[r] \in Outcomes /\ Resolve(r, reply[r])
SeeClosed(r) == reply[r] = "closed" /\ Resolve(r, "Shutdown")
TimeOut(r) == reply[r] = None /\ r \in expired /\ Resolve(r, "Timeout")

(* The future is dropped, polled or not. *)
DropFuture(r) ==
  /\ caller[r] = "waiting"
  /\ caller' = [caller EXCEPT ![r] = "dropped"]
  /\ cancelled' = cancelled \cup {r}
  /\ UNCHANGED <<outcome, reply, laneVars, expired, charged, workerVars, open>>

(* The last handle on the pool goes, which no call under way outlives. *)
DropPool == /\ open
            /\ \A r \in Requests : caller[r] \notin {"send", "overflow"}
            /\ open' = FALSE
            /\ UNCHANGED <<callerVars, reply, laneVars, cancelled, expired, charged, workerVars>>

-----------------------------------------------------------------------------
(* worker_main *)

At(w, from, to) == phase[w] = from /\ phase' = [phase EXCEPT ![w] = to]

(* Mutant: the bulk lane is peeked at, not popped. *)
RecvPeeks(w) ==
  /\ At(w, "recv", "got")
  /\ \/ /\ critical # <<>>
        /\ task' = [task EXCEPT ![w] = Head(critical)]
        /\ critical' = Tail(critical)
     \/ /\ bulk # <<>>
        /\ task' = [task EXCEPT ![w] = Head(bulk)]
        /\ UNCHANGED critical
  /\ UNCHANGED <<callerVars, reply, bulk, cancelled, expired, charged, result, env, open>>

(* ExecQueueRx::recv: select! takes any lane that is ready. *)
Recv(w) ==
  /\ At(w, "recv", "got")
  /\ \/ /\ critical # <<>>
        /\ task' = [task EXCEPT ![w] = Head(critical)]
        /\ critical' = Tail(critical)
        /\ UNCHANGED bulk
     \/ /\ bulk # <<>>
        /\ task' = [task EXCEPT ![w] = Head(bulk)]
        /\ bulk' = Tail(bulk)
        /\ UNCHANGED critical
  /\ UNCHANGED <<callerVars, reply, cancelled, expired, charged, result, env, open>>

(* A lane that is empty and has no sender is ready as well, with an error; *)
(* the other lane may still hold tasks.                                    *)
RecvNone(w) ==
  /\ At(w, "recv", "exit")
  /\ ~open
  /\ critical = <<>> \/ bulk = <<>>
  /\ UNCHANGED <<callerVars, reply, laneVars, cancelled, expired, charged, task, result, env, open>>

Conclude(w, out) == /\ result' = [result EXCEPT ![w] = out]
                    /\ UNCHANGED <<callerVars, reply, laneVars, cancelled, expired, charged, task, open>>

SkipStopped(w) == /\ At(w, "got", "reply")
                  /\ Stopped(task[w])
                  /\ Conclude(w, "Timeout")
                  /\ UNCHANGED env

(* The environment is made for the first task that needs one, and again    *)
(* for the next one when that failed.                                      *)
MakeEnv(w) == /\ At(w, "got", "run")
              /\ ~Stopped(task[w])
              /\ env[w] = "absent"
              /\ env' = [env EXCEPT ![w] = "fresh"]
              /\ UNCHANGED <<callerVars, reply, laneVars, cancelled, expired, charged, task, result, open>>

MakeEnvFails(w) == /\ At(w, "got", "reply")
                   /\ ~Stopped(task[w])
                   /\ env[w] = "absent"
                   /\ Conclude(w, "Timeout")
                   /\ UNCHANGED env

HaveEnv(w) == /\ At(w, "got", "run")
              /\ ~Stopped(task[w])
              /\ env[w] # "absent"
              /\ UNCHANGED <<callerVars, reply, laneVars, cancelled, expired, charged, task, result, env, open>>

(* Worker::run ends without an out-of-memory, and with a Timeout whenever  *)
(* the task was stopped meanwhile.                                         *)
RunEnds(w) == /\ \/ At(w, "run", "reply")
                 \/ At(w, "retry", "reply")
              /\ \/ Conclude(w, "Timeout")
                 \/ ~Stopped(task[w]) /\ Conclude(w, Ok)
              /\ UNCHANGED env

(* catch_unwind turns a panic anywhere in run() into an outcome. *)
RunPanics(w) == /\ \/ At(w, "run", "reply")
                   \/ At(w, "retry", "reply")
                /\ Conclude(w, "Panic")
                /\ env' = [env EXCEPT ![w] = "broken"]

(* The first out-of-memory of an environment lifts its memory limit for    *)
(* one more try; gc_and_maybe_lift grants that once.                       *)
RunLifts(w) == /\ At(w, "run", "retry")
               /\ Kind[task[w]] = "Js"
               /\ env[w] = "fresh"
               /\ env' = [env EXCEPT ![w] = "lifted"]
               /\ UNCHANGED <<callerVars, reply, laneVars, cancelled, expired, charged, task, result, open>>

(* Any other out-of-memory is the outcome, past the deadline or not. *)
RunOutOfMemory(w) ==
  /\ \/ At(w, "run", "reply") /\ Kind[task[w]] = "Js" /\ env[w] = "lifted"
     \/ At(w, "retry", "reply")
  /\ Conclude(w, "Oom")
  /\ env' = [env EXCEPT ![w] = "broken"]

(* Mutant: an out-of-memory keeps the environment. *)
NeedsRebuildPanicOnly(out) == out = "Panic"

NeedsRebuild(out) == out \in {"Oom", "Panic"}

(* task.reply.send: lost when the caller has stopped listening *)
Reply(w) == /\ At(w, "reply", IF NeedsRebuild(result[w]) THEN "rebuild" ELSE "drop")
            /\ reply' = [reply EXCEPT ![task[w]] =
                           IF caller[task[w]] = "waiting" THEN result[w] ELSE "closed"]
            /\ UNCHANGED <<callerVars, laneVars, cancelled, expired, charged, task, result, env, open>>

Rebuild(w) == /\ At(w, "rebuild", "drop")
              /\ env' = [env EXCEPT ![w] = "fresh"]
              /\ UNCHANGED <<callerVars, reply, laneVars, cancelled, expired, charged, task, result, open>>

(* The worker gives up its thread for good. *)
RebuildFails(w) == /\ At(w, "rebuild", "exit")
                   /\ UNCHANGED <<callerVars, reply, laneVars, cancelled, expired, charged, task, result, env, open>>

Holds(w) == {r \in Requests : task[w] = r}

(* The task, and with it its charge, is dropped at the end of the pass. *)
DropTask(w) == /\ At(w, "drop", "recv")
               /\ charged' = charged \ Holds(w)
               /\ task' = [task EXCEPT ![w] = None]
               /\ result' = [result EXCEPT ![w] = None]
               /\ UNCHANGED <<callerVars, reply, laneVars, cancelled, expired, env, open>>

Queued == {critical[i] : i \in DOMAIN critical} \cup {bulk[i] : i \in DOMAIN bulk}

(* Mutant: what the lanes hold outlives the last worker. *)
ExitKeepsLanes(w) ==
  /\ At(w, "exit", "gone")
  /\ task' = [task EXCEPT ![w] = None]
  /\ result' = [result EXCEPT ![w] = None]
  /\ env' = [env EXCEPT ![w] = "absent"]
  /\ charged' = charged \ Holds(w)
  /\ UNCHANGED <<callerVars, reply, laneVars, cancelled, expired, open>>

(* The worker's receivers go with it.  The last one to go discards what    *)
(* the lanes still hold: each discarded task closes its reply channel and  *)
(* releases its charge.                                                    *)
Exit(w) ==
  /\ At(w, "exit", "gone")
  /\ task' = [task EXCEPT ![w] = None]
  /\ result' = [result EXCEPT ![w] = None]
  /\ env' = [env EXCEPT ![w] = "absent"]
  /\ LET last == \A v \in Workers \ {w} : phase[v] = "gone"
         lost == IF last THEN Queued ELSE {}
     IN  /\ charged' = charged \ (Holds(w) \cup lost)
         /\ reply' = [r \in Requests |-> IF r \in lost THEN "closed" ELSE reply[r]]
         /\ critical' = IF last THEN <<>> ELSE critical
         /\ bulk' = IF last THEN <<>> ELSE bulk
  /\ UNCHANGED <<callerVars, cancelled, expired, open>>

-----------------------------------------------------------------------------
CallerStep(r) == TrySend(r) \/ TryOverflow(r) \/ Receive(r) \/ SeeClosed(r) \/ TimeOut(r)

WorkerStep(w) ==
  \/ Recv(w) \/ RecvNone(w)
  \/ SkipStopped(w) \/ MakeEnv(w) \/ MakeEnvFails(w) \/ HaveEnv(w)
  \/ RunEnds(w) \/ RunPanics(w) \/ RunLifts(w) \/ RunOutOfMemory(w)
  \/ Reply(w) \/ Rebuild(w) \/ RebuildFails(w) \/ DropTask(w) \/ Exit(w)

Next == \/ \E r \in Requests : Expire(r) \/ Call(r) \/ CallerStep(r) \/ DropFuture(r)
        \/ DropPool
        \/ \E w \in Workers : WorkerStep(w)

Spec == Init /\ [][Next]_vars

-----------------------------------------------------------------------------
TypeOK == /\ caller \in [Requests -> CallerPhases]
          /\ outcome \in [Requests -> Outcomes \cup {None}]
          /\ reply \in [Requests -> Outcomes \cup {None, "closed"}]
          /\ critical \in Seq(Requests)
          /\ bulk \in Seq(Requests)
          /\ cancelled \subseteq Requests
          /\ expired \subseteq Requests
          /\ charged \subseteq Requests
          /\ phase \in [Workers -> WorkerPhases]
          /\ task \in [Workers -> Requests \cup {None}]
          /\ result \in [Workers -> Outcomes \cup {None}]
          /\ env \in [Workers -> {"absent", "fresh", "lifted", "broken"}]
          /\ open \in BOOLEAN

(* A task is in one place: at most once in one lane, or with one worker    *)
(* that took it out, so a script runs at most once.  The script budget is  *)
(* charged for exactly the tasks that exist: being sent, queued, or with a *)
(* worker.  No way out of the pool - refused, skipped, timed out,          *)
(* panicked, discarded with the last worker - keeps a charge or gives it   *)
(* back early (task.rs:144-174, pool.rs:101-119, worker.rs:2200-2229).     *)
Places(r) == {<<"critical", i>> : i \in {j \in DOMAIN critical : critical[j] = r}}
             \cup {<<"bulk", i>> : i \in {j \in DOMAIN bulk : bulk[j] = r}}
             \cup {<<"worker", w>> : w \in {v \in Workers : task[v] = r}}

OnePlace == \A r \in Requests : \A p, q \in Places(r) : p = q

ChargedIsAlive ==
  \A r \in Requests :
    r \in charged <=> caller[r] \in {"send", "overflow"} \/ Places(r) # {}

TasksAccounted == TypeOK /\ OnePlace /\ ChargedIsAlive /\ Total(Bytes, charged) <= ScriptBytes

(* No script ever runs in an environment that an earlier one left broken,  *)
(* and no environment is lifted twice (worker.rs:2221-2228).               *)
EnvUsable == \A w \in Workers : phase[w] \in {"recv", "run", "got"} => env[w] # "broken"

(* A caller that waits has its answer in the channel, or its task is where *)
(* a worker that still runs has it or will find it: nothing is left behind *)
(* in the lanes when workers exit one by one (worker.rs:2200-2242).  And   *)
(* "pool down" is said only when no worker is left to take a task: a       *)
(* worker that dropped a reply sender unused would break this.             *)
ShutdownMeansDown == (\E r \in Requests : outcome[r] = "Shutdown") => ~Receivable
Answered ==
  /\ \A r \in Requests : caller[r] = "waiting" =>
       \/ reply[r] # None
       \/ \E w \in Workers : phase[w] # "gone" /\ (task[w] = r \/ r \in Queued)
  /\ ShutdownMeansDown
=============================================================================
