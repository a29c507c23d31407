----------------------------- MODULE TaskRegistry -----------------------------
(***************************************************************************)
(* The task service of supervisor/src/api.rs and task.rs.  create_task     *)
(* takes an admission permit, registers a record and queues a job; the     *)
(* dispatcher takes the jobs in order, waits for a worker permit for each  *)
(* and spawns its execution; the execution looks the record up, runs until *)
(* its deadline and stores first the result, then the state; the janitor   *)
(* removes records past their deadline; get_result reads the outcome and   *)
(* then, in a second look at the registry, the body that the first         *)
(* terminal answer was encoded to.                                         *)
(*                                                                         *)
(* The record lives as long as the registry or its execution refers to it, *)
(* and so does the admission permit inside it.                             *)
(***************************************************************************)
EXTENDS Naturals, Sequences, FiniteSets

CONSTANTS Tasks,        \* the calls of create_task, by the id they get
          Clients,      \* the concurrent calls of get_result
          WorkerCap,    \* permits of AppState.sem
          AdmissionCap, \* TASK_QUEUE_CAP: of AppState.admission, and of the queue
          Ttl,          \* VisitCtx.timeout, in ticks
          LastTick      \* bound: the clock stops here

None == "none"

ASSUME RegistryAssumption ==
  /\ WorkerCap \in Nat \ {0}
  /\ AdmissionCap \in Nat \ {0}
  /\ Ttl \in Nat
  /\ LastTick \in Nat
  /\ None \notin Tasks

VARIABLES now,          \* the monotonic clock
          create,       \* create[t]: where create_task is
          registry,     \* the ids AppState.registry holds
          deadline,     \* deadline[t], of the record
          state,        \* state[t]
          result,       \* result[t]: the OnceLock with the value or the error
          encoded,      \* encoded[t]: the OnceLock with the encoded answer
          admission,    \* free permits of AppState.admission
          queue,        \* the jobs the channel holds
          hand,         \* the job the dispatcher has received
          permits,      \* free permits of AppState.sem
          run,          \* run[t]: where the execution is
          poll,         \* poll[c]: the task and the outcome a client has read
          told          \* told[t]: the terminal answers given while t was registered

recVars == <<deadline, state, result, encoded>>
queueVars == <<queue, hand>>
clientVars == <<poll, told>>
vars == <<now, create, registry, recVars, admission, queueVars, permits, run, clientVars>>

States == {"QUEUED", "PROCESSING", "READY", "FAILED"}
Results == {"value", "error", "deadline exceeded"}
Bodies == {"value", "error", "deadline exceeded", "expired"}

(* The phases in which the execution refers to the record, and those in    *)
(* which it holds a worker permit.                                         *)
Referring == {"found", "exec", "set", "stored"}
Permitted == Referring \cup {"spawned"}

Init == /\ now = 0
        /\ create = [t \in Tasks |-> "new"]
        /\ registry = {}
        /\ deadline = [t \in Tasks |-> 0]
        /\ state = [t \in Tasks |-> "QUEUED"]
        /\ result = [t \in Tasks |-> None]
        /\ encoded = [t \in Tasks |-> None]
        /\ admission = AdmissionCap
        /\ queue = <<>>
        /\ hand = None
        /\ permits = WorkerCap
        /\ run = [t \in Tasks |-> "none"]
        /\ poll = [c \in Clients |-> [task |-> None, outcome |-> None]]
        /\ told = [t \in Tasks |-> {}]

Tick == /\ now < LastTick
        /\ now' = now + 1
        /\ UNCHANGED <<create, registry, recVars, admission, queueVars, permits, run, clientVars>>

Alive(t) == now < deadline[t]

(* The record, and the permit inside it, goes with its last reference:     *)
(* `refers` says whether the registry, and whether the execution, keeps t. *)
Referred(t) == t \in registry \/ run[t] \in Referring
Released(t, refers) == IF Referred(t) /\ ~refers THEN admission + 1 ELSE admission

-----------------------------------------------------------------------------
(* create_task *)

Admit(t) == /\ create[t] = "new"
            /\ now + Ttl <= LastTick
            /\ IF admission = 0
               THEN /\ create' = [create EXCEPT ![t] = "refused"]
                    /\ UNCHANGED <<registry, deadline, admission>>
               ELSE /\ create' = [create EXCEPT ![t] = "registered"]
                    /\ admission' = admission - 1
                    /\ registry' = registry \cup {t}
                    /\ deadline' = [deadline EXCEPT ![t] = now + Ttl]
            /\ UNCHANGED <<now, state, result, encoded, queueVars, permits, run, clientVars>>

(* The queue may be full although a permit was free: the janitor frees the *)
(* permit of a job that is still queued.                                   *)
Enqueue(t) ==
  /\ create[t] = "registered"
  /\ IF Len(queue) < AdmissionCap
     THEN /\ create' = [create EXCEPT ![t] = "created"]
          /\ queue' = Append(queue, t)
          /\ UNCHANGED <<registry, admission>>
     ELSE /\ create' = [create EXCEPT ![t] = "refused"]
          /\ registry' = registry \ {t}
          /\ admission' = Released(t, FALSE)
          /\ UNCHANGED queue
  /\ UNCHANGED <<now, recVars, hand, permits, run, clientVars>>

-----------------------------------------------------------------------------
(* The dispatcher and the executions it spawns *)

(* Mutant: the job stays in the channel. *)
ReceivePeeks == /\ hand = None
                /\ queue # <<>>
                /\ hand' = Head(queue)
                /\ UNCHANGED <<now, create, registry, recVars, admission, queue, permits, run, clientVars>>

Receive == /\ hand = None
           /\ queue # <<>>
           /\ hand' = Head(queue)
           /\ queue' = Tail(queue)
           /\ UNCHANGED <<now, create, registry, recVars, admission, permits, run, clientVars>>

Spawn == /\ hand \in Tasks
         /\ permits > 0
         /\ permits' = permits - 1
         /\ run' = [run EXCEPT ![hand] = "spawned"]
         /\ hand' = None
         /\ UNCHANGED <<now, create, registry, recVars, admission, queue, clientVars>>

Goto(t, from, to) == run[t] = from /\ run' = [run EXCEPT ![t] = to]

(* The execution finds its record, still alive. *)
Find(t) == /\ Goto(t, "spawned", "found")
           /\ t \in registry
           /\ Alive(t)
           /\ UNCHANGED <<now, create, registry, recVars, admission, queueVars, permits, clientVars>>

(* Or it finds none, or one too late, and gives its permit back. *)
Skip(t) == /\ Goto(t, "spawned", "ended")
           /\ t \notin registry \/ ~Alive(t)
           /\ permits' = permits + 1
           /\ UNCHANGED <<now, create, registry, recVars, admission, queueVars, clientVars>>

Process(t) == /\ Goto(t, "found", "exec")
              /\ state' = [state EXCEPT ![t] = "PROCESSING"]
              /\ UNCHANGED <<now, create, registry, deadline, result, encoded, admission,
                             queueVars, permits, clientVars>>

(* timeout_at polls the work before the clock: a result that is there past *)
(* the deadline counts, and the deadline ends only what is not.            *)
Finish(t) ==
  /\ Goto(t, "exec", "set")
  /\ \/ \E v \in {"value", "error"} : result' = [result EXCEPT ![t] = v]
     \/ ~Alive(t) /\ result' = [result EXCEPT ![t] = "deadline exceeded"]
  /\ UNCHANGED <<now, create, registry, deadline, state, encoded, admission,
                 queueVars, permits, clientVars>>

Store(t) ==
  /\ Goto(t, "set", "stored")
  /\ state' = [state EXCEPT ![t] = IF result[t] = "value" THEN "READY" ELSE "FAILED"]
  /\ UNCHANGED <<now, create, registry, deadline, result, encoded, admission,
                 queueVars, permits, clientVars>>

(* Mutant: the worker permit is returned, the last reference is not. *)
LeaveLeaks(t) == /\ Goto(t, "stored", "ended")
                 /\ permits' = permits + 1
                 /\ UNCHANGED <<now, create, registry, recVars, admission, queueVars, clientVars>>

(* Mutant: the worker permit outlives the execution. *)
LeaveKeepsPermit(t) == /\ Goto(t, "stored", "ended")
                       /\ admission' = Released(t, t \in registry)
                       /\ UNCHANGED <<now, create, registry, recVars, queueVars, permits, clientVars>>

(* The execution drops its reference and its worker permit. *)
Leave(t) == /\ Goto(t, "stored", "ended")
            /\ permits' = permits + 1
            /\ admission' = Released(t, t \in registry)
            /\ UNCHANGED <<now, create, registry, recVars, queueVars, clientVars>>

(* Mutant: the janitor returns the permit under a running execution. *)
SweepReleases(t) == /\ t \in registry
                    /\ ~Alive(t)
                    /\ registry' = registry \ {t}
                    /\ admission' = Released(t, FALSE)
                    /\ UNCHANGED <<now, create, recVars, queueVars, permits, run, clientVars>>

(* The janitor's retain visits the records one by one. *)
Sweep(t) == /\ t \in registry
            /\ ~Alive(t)
            /\ registry' = registry \ {t}
            /\ admission' = Released(t, run[t] \in Referring)
            /\ UNCHANGED <<now, create, recVars, queueVars, permits, run, clientVars>>

-----------------------------------------------------------------------------
(* get_result *)

(* Mutant: the deadline is rounded down by a tick. *)
OutcomeEarly(t) ==
  CASE state[t] \in {"QUEUED", "PROCESSING"} ->
         IF now + 1 < deadline[t] THEN "processing" ELSE "expired"
    [] state[t] = "FAILED" -> result[t]
    [] state[t] = "READY" -> IF now > deadline[t] THEN "expired" ELSE result[t]

(* TaskRec::outcome: the answer the record gives right now *)
Outcome(t) ==
  CASE state[t] \in {"QUEUED", "PROCESSING"} -> IF Alive(t) THEN "processing" ELSE "expired"
    [] state[t] = "FAILED" -> result[t]
    [] state[t] = "READY" -> IF now > deadline[t] THEN "expired" ELSE result[t]

Ask(c, t) == /\ poll[c].task = None
             /\ create[t] = "created"
             /\ t \in registry
             /\ Outcome(t) # "processing"
             /\ poll' = [poll EXCEPT ![c] = [task |-> t, outcome |-> Outcome(t)]]
             /\ UNCHANGED <<now, create, registry, recVars, admission, queueVars, permits, run, told>>

(* OnceLock::get_or_init: the first terminal answer is the one that stays. *)
Encode(t, out) == IF encoded[t] = None THEN out ELSE encoded[t]

(* The record may be gone by the second look; the answer is then made up   *)
(* from the outcome alone (or is the 500 of a Ready without a body).       *)
Answer(c) ==
  /\ poll[c].task # None
  /\ LET t == poll[c].task
     IN  IF t \in registry
         THEN /\ encoded' = [encoded EXCEPT ![t] = Encode(t, poll[c].outcome)]
              /\ told' = [told EXCEPT ![t] = @ \cup {encoded'[t]}]
         ELSE UNCHANGED <<encoded, told>>
  /\ poll' = [poll EXCEPT ![c] = [task |-> None, outcome |-> None]]
  /\ UNCHANGED <<now, create, registry, deadline, state, result, admission, queueVars, permits, run>>

-----------------------------------------------------------------------------
RunStep(t) == Find(t) \/ Skip(t) \/ Process(t) \/ Finish(t) \/ Store(t) \/ Leave(t)

Next == \/ Tick
        \/ Receive \/ Spawn
        \/ \E t \in Tasks : Admit(t) \/ Enqueue(t) \/ RunStep(t) \/ Sweep(t)
        \/ \E c \in Clients : Answer(c) \/ \E t \in Tasks : Ask(c, t)

Spec == Init /\ [][Next]_vars

(* The executor polls what is ready: a create_task under way, the          *)
(* dispatcher, the executions (each bounded by its deadline) and the       *)
(* janitor.  Time passes only as far as the bound.                         *)
Fairness == /\ \A t \in Tasks : WF_vars(Enqueue(t)) /\ WF_vars(RunStep(t)) /\ WF_vars(Sweep(t))
            /\ WF_vars(Receive) /\ WF_vars(Spawn)

FairSpec == Spec /\ Fairness

-----------------------------------------------------------------------------
TypeOK ==
  /\ now \in Nat
  /\ create \in [Tasks -> {"new", "registered", "created", "refused"}]
  /\ registry \subseteq Tasks
  /\ deadline \in [Tasks -> Nat]
  /\ state \in [Tasks -> States]
  /\ result \in [Tasks -> Results \cup {None}]
  /\ encoded \in [Tasks -> Bodies \cup {None}]
  /\ admission \in 0 .. AdmissionCap
  /\ queue \in Seq(Tasks)
  /\ hand \in Tasks \cup {None}
  /\ permits \in 0 .. WorkerCap
  /\ run \in [Tasks -> Permitted \cup {"none", "ended"}]
  /\ poll \in [Clients -> [task : Tasks \cup {None}, outcome : Bodies \cup {None}]]
  /\ told \in [Tasks -> SUBSET Bodies]

(* Every admission permit is free or inside exactly one living record:     *)
(* janitor, failed enqueue and execution may drop the last reference in    *)
(* any order, and none of them leaks the permit or returns it twice        *)
(* (task.rs:74, api.rs:126-173).                                           *)
Living == {t \in Tasks : Referred(t)}
AdmissionAccounted == admission + Cardinality(Living) = AdmissionCap

(* Every worker permit is free or held by one execution under way, so at   *)
(* most WorkerCap tasks execute at once (api.rs:93-98).                    *)
Executing == {t \in Tasks : run[t] \in Permitted}
PermitsAccounted == permits + Cardinality(Executing) = WorkerCap

(* Both semaphores are accounted for, and no permit comes from nowhere.    *)
Accounted == TypeOK /\ AdmissionAccounted /\ PermitsAccounted

(* A job is queued once, in the dispatcher's hand, or was spawned: no task *)
(* executes twice, and none executes that create_task refused.             *)
Once == /\ \A i, j \in DOMAIN queue : queue[i] = queue[j] => i = j
        /\ \A i \in DOMAIN queue : queue[i] # hand
        /\ \A t \in Tasks :
             run[t] # "none" => t # hand /\ \A i \in DOMAIN queue : queue[i] # t
        /\ \A t \in Tasks :
             create[t] # "created" => run[t] = "none" /\ t # hand
                                      /\ \A i \in DOMAIN queue : queue[i] # t

(* Every terminal answer given while the record is registered is the same  *)
(* one, although the outcome itself goes from Ready to expired at the      *)
(* deadline and two polls may straddle it (task.rs:103-130, api.rs:625).   *)
OneAnswer == \A t \in Tasks : Cardinality(told[t]) <= 1

(* An answer the clients saw is the truth about the execution: a value     *)
(* only of an execution that produced it, an expiry only past the deadline *)
(* (the state is stored after the result it announces).                    *)
AnswersTrue ==
  \A t \in Tasks, b \in Bodies :
    b \in told[t] => IF b = "expired" THEN ~Alive(t) ELSE result[t] = b

(* All answers about a registered task are one and the same true answer.   *)
OneTrueAnswer == OneAnswer /\ AnswersTrue

(* A queued task is executed or reaches its deadline: no job is lost       *)
(* between queue, dispatcher and execution, and worker permits come back.  *)
Accepted(t) == create[t] = "created" /\ state[t] = "QUEUED" /\ Alive(t)
NoJobLost == \A t \in Tasks : Accepted(t) ~> ~Accepted(t)

(* Every admission permit comes back if the clock runs on past the last    *)
(* deadline, so a full registry never stays full (task.rs:74, api.rs:126). *)
AdmissionComesBack == <>(now = LastTick) => <>[](admission = AdmissionCap)
=============================================================================
