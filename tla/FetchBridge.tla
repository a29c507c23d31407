----------------------------- MODULE FetchBridge -----------------------------
(* Scripts run on worker threads outside the async runtime.  Their requests *)
(* cross a bounded channel to one daemon thread, which starts a task for    *)
(* each; the worker waits on a channel of the request's own for as long as  *)
(* its budget lasts.                                                        *)
EXTENDS Naturals, Sequences

CONSTANTS Workers,
          Cap,    \* room of the channel to the daemon
          Calls   \* requests made in one behaviour

BridgeAssumption == Cap \in Nat \ {0} /\ Calls \in Nat

VARIABLES daemon,   \* "absent", "up", or "gone" when it could not start its runtime
          at,       \* each worker: "idle", "offering" its request or "waiting" for the reply
          job,      \* its last request, by number
          calls,
          queue,    \* requests in the channel
          tasks,    \* requests the daemon works on
          replied,  \* requests whose reply is in their own channel
          result    \* what the worker's last dispatch returned: a request's reply or none
vars == <<daemon, at, job, calls, queue, tasks, replied, result>>

None == 0

Init == /\ daemon = "absent"
        /\ at = [w \in Workers |-> "idle"] /\ job = [w \in Workers |-> None]
        /\ calls = 0 /\ queue = <<>> /\ tasks = {} /\ replied = {}
        /\ result = [w \in Workers |-> None]

\* spawn_fetch_daemon: once per process; the channel is installed before the thread starts
Install == /\ daemon = "absent" /\ daemon' = "up"
           /\ UNCHANGED <<at, job, calls, queue, tasks, replied, result>>

\* the receiving end goes with the thread, and with it what was queued
DaemonFails == /\ daemon = "up" /\ tasks = {} /\ daemon' = "gone"
               /\ queue' = <<>>
               /\ UNCHANGED <<at, job, calls, tasks, replied, result>>

Dispatch(w) == /\ at[w] = "idle" /\ daemon # "absent" /\ calls < Calls
               /\ calls' = calls + 1
               /\ job' = [job EXCEPT ![w] = calls']
               /\ at' = [at EXCEPT ![w] = "offering"]
               /\ UNCHANGED <<daemon, queue, tasks, replied, result>>

Return(w, r) == at' = [at EXCEPT ![w] = "idle"] /\ result' = [result EXCEPT ![w] = r]

\* Mutant: the channel of a daemon that is gone stays open.
OfferStuck(w) ==
  /\ at[w] = "offering" /\ Len(queue) < Cap /\ daemon # "gone"
  /\ queue' = Append(queue, job[w])
  /\ at' = [at EXCEPT ![w] = "waiting"]
  /\ UNCHANGED <<daemon, job, calls, tasks, replied, result>>

\* Sender::send blocks without a limit while the channel is full
Offer(w) ==
  /\ at[w] = "offering"
  /\ IF daemon = "gone" THEN Return(w, None) /\ UNCHANGED queue
     ELSE /\ Len(queue) < Cap
          /\ queue' = Append(queue, job[w])
          /\ at' = [at EXCEPT ![w] = "waiting"]
          /\ UNCHANGED result
  /\ UNCHANGED <<daemon, job, calls, tasks, replied>>

Take == /\ daemon = "up" /\ queue # <<>>
        /\ tasks' = tasks \cup {Head(queue)} /\ queue' = Tail(queue)
        /\ UNCHANGED <<daemon, at, job, calls, replied, result>>

\* Mutant: one channel for all replies, which keeps what nobody waits for.
FinishKept(j) == /\ j \in tasks /\ tasks' = tasks \ {j}
                 /\ replied' = replied \cup {j}
                 /\ UNCHANGED <<daemon, at, job, calls, queue, result>>

\* a refused address and a failed request are replies too; a task that panics replies nothing
Finish(j) == /\ j \in tasks /\ tasks' = tasks \ {j}
             /\ \/ replied' = IF \E w \in Workers : at[w] = "waiting" /\ job[w] = j THEN replied \cup {j} ELSE replied
                \/ UNCHANGED replied
             /\ UNCHANGED <<daemon, at, job, calls, queue, result>>

Receive(w) == /\ at[w] = "waiting" /\ job[w] \in replied
              /\ Return(w, job[w]) /\ replied' = replied \ {job[w]}
              /\ UNCHANGED <<daemon, job, calls, queue, tasks>>

\* recv_timeout: the budget is over, or nobody is left who could reply
GiveUp(w) == /\ at[w] = "waiting"
             /\ Return(w, None) /\ replied' = replied \ {job[w]}
             /\ UNCHANGED <<daemon, job, calls, queue, tasks>>

Next == \/ Install \/ DaemonFails \/ Take
        \/ \E w \in Workers : Dispatch(w) \/ Offer(w) \/ Receive(w) \/ GiveUp(w)
        \/ \E j \in tasks : Finish(j)

Fairness == WF_vars(Take) /\ \A w \in Workers : SF_vars(Offer(w)) /\ WF_vars(GiveUp(w))

Spec == Init /\ [][Next]_vars /\ Fairness
----------------------------------------------------------------------------
(* A worker that asked for a page gets out of the bridge, whatever the     *)
(* network and the daemon do: the channel in front of a daemon that starts *)
(* a task per request never stays full, and the wait behind it is bounded. *)
WorkersReturn == \A w \in Workers : at[w] # "idle" ~> at[w] = "idle"

(* A reply that is late finds nobody: no reply is kept for a request its   *)
(* worker has given up, and a worker's result is of its own last request.  *)
RepliesOwned ==
  /\ \A j \in replied : \E w \in Workers : at[w] = "waiting" /\ job[w] = j
  /\ \A w \in Workers : at[w] = "idle" => result[w] \in {None, job[w]}
=============================================================================
