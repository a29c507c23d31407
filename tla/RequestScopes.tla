---------------------------- MODULE RequestScopes ----------------------------
(* A worker thread serves one request after another on one engine and keeps *)
(* what a request needs in thread-locals: the page, its tree, registries of *)
(* objects, timers, cookies to send back.  Each is cleared somewhere else:  *)
(* when the request's scope is entered or left, when its script is set up,  *)
(* or only with the engine.  The stores do not depend on each other, so a   *)
(* behaviour follows one of them, any one, through everything that happens. *)
EXTENDS Naturals

CONSTANTS Requests, Engines    \* bounds: requests served, engines made

ScopesAssumption == {Requests, Engines} \subseteq Nat \ {0}

VARIABLES slot,       \* the store that is followed
          held,       \* what is in it: nothing, or who put it there
          at,         \* where the worker is
          req, try,   \* the request it serves, and which run of its script
          env,        \* the engine, None before there is one
          made,       \* engines made
          lift,       \* oom_lift
          err,        \* how the request ended, for the worker
          control,    \* CONTROL: the request it belongs to
          cancelled,  \* CANCELLED: the request whose flag interrupts the engine
          sent        \* what the last outcome took out of the store
vars == <<slot, held, at, req, try, env, made, lift, err, control, cancelled, sent>>

None == 0
Empty == [req |-> None, try |-> None, env |-> None]
By(t) == [req |-> req, try |-> t, env |-> env]
Mine == By(try)
Is(S) == slot \in S

\* clear_scope_state
ScopeState == {"doc", "canvas", "network", "observers", "formatters", "battery", "collections", "current script"}
\* clear_request_state
RequestState == ScopeState \cup {"timers", "cookies", "navigation"}
\* webidl::reset_request
TreeState == {"tree", "handles", "listeners"}
\* the clear_thunks of each module, stackfmt::clear, webidl::clear and what drain_env_locals sets to None
EngineState == {"timer thunks", "stack thunk", "canvas thunk", "realm", "error thunks", "layout",
                "prototypes", "connection", "profile object", "memory object", "thunks"} \cup TreeState
\* what the first lines of exec clear, and what they write anew
Reset == {"timers", "cookies", "navigation", "profile object", "input"}
Renewed == {"profile", "clock", "ready", "rng"}

Stores == RequestState \cup EngineState \cup Reset \cup Renewed \cup {"net slot", "touches"}

FromEngine == {"thunks", "timer thunks", "canvas thunk", "error thunks", "prototypes"}
\* made when a script first asks for it, and kept with the engine
OfEngine == {"stack thunk", "realm", "connection", "memory object"}
\* values of the engine: of no use to another one
Values == FromEngine \cup {"stack thunk", "connection", "memory object", "profile object", "handles", "listeners",
           "canvas", "network", "observers", "formatters", "battery", "collections", "timers"}
ByScript == Stores \ (FromEngine \cup {"doc", "current script", "net slot", "profile", "input"})

Init == /\ slot \in Stores
        /\ held = Empty /\ at = "idle" /\ req = None /\ try = None /\ env = None
        /\ made = None /\ lift = 0 /\ err = "none" /\ control = None /\ cancelled = None
        /\ sent = Empty

Clears(S) == held' = IF slot \in S THEN Empty ELSE held
Goes(from, to) == at = from /\ at' = to
----------------------------------------------------------------------------
\* a task that was stopped in the queue is answered without a scope
Take == /\ req < Requests /\ req' = req + 1 /\ try' = None /\ err' = "none" /\ sent' = Empty
        /\ \/ at = "idle" /\ at' = IF env = None THEN "make" ELSE "enter"
           \/ at = "idle" /\ UNCHANGED at
        /\ UNCHANGED <<slot, held, env, made, lift, control, cancelled>>

Drained == RequestState \cup EngineState

\* JsEnv::new: its first thunks are in their stores when a later step fails; drain_env_locals takes them out
Engine(broken) ==
  /\ made < Engines /\ made' = made + 1 /\ lift' = 0
  /\ \/ /\ env' = made + 1
        /\ at' = IF at = "make" THEN "enter" ELSE "idle"
        /\ held' = IF Is(FromEngine) THEN [Empty EXCEPT !.env = made + 1]
                   ELSE IF Is(Drained) THEN Empty ELSE held
     \/ env' = None /\ at' = broken /\ Clears(Drained)

Make == /\ at = "make" /\ Engine("idle")
        /\ UNCHANGED <<slot, req, try, err, control, cancelled, sent>>

\* RequestScope::enter
Enter == /\ Goes("enter", "run")
         /\ Clears(ScopeState \cup TreeState \cup {"layout", "net slot"})
         /\ control' = req /\ cancelled' = req
         /\ UNCHANGED <<slot, req, try, env, made, lift, err, sent>>

\* Worker::run up to the script: a module and a proof of work report at once, and so does what does not parse
Run == /\ at = "run"
       /\ \/ at' = "leave" /\ UNCHANGED held
          \/ at' \in {"exec", "report"}
             /\ held' = IF Is({"doc", "current script", "net slot"}) THEN Mine
                        ELSE IF Is({"touches", "handles"}) THEN Empty ELSE held
       /\ UNCHANGED <<slot, req, try, env, made, lift, err, control, cancelled, sent>>

\* JsEnv::exec up to the call; then the page's input, if it came with any
Exec == /\ Goes("exec", "script") /\ try' = try + 1
        /\ \/ held' = IF Is(Renewed) THEN By(try') ELSE IF Is(Reset) THEN Empty ELSE held
           \/ Is({"input"}) /\ held' = By(try')
        /\ UNCHANGED <<slot, req, env, made, lift, err, control, cancelled, sent>>

Write == /\ at = "script" /\ Is(ByScript)
         /\ held' = Mine
         /\ UNCHANGED <<slot, at, req, try, env, made, lift, err, control, cancelled, sent>>

\* an engine out of memory is collected and, once in its life, runs the script again
End == /\ \/ Goes("script", "exec") /\ lift = 0 /\ lift' = 1 /\ UNCHANGED err
          \/ Goes("script", "report") /\ err' \in {"none", "oom"} /\ UNCHANGED lift
          \/ Goes("script", "leave") /\ UNCHANGED <<lift, err>>       \* stopped meanwhile
       /\ UNCHANGED <<slot, held, req, try, env, made, control, cancelled, sent>>

Panic == /\ at \in {"run", "exec", "script", "report"} /\ at' = "leave" /\ err' = "panic"
         /\ UNCHANGED <<slot, held, req, try, env, made, lift, control, cancelled, sent>>

\* outcome_now: navigation is taken, cookies are read
Report == /\ Goes("report", "leave")
          /\ sent' = IF Is({"cookies", "navigation", "touches"}) THEN held ELSE Empty
          /\ Clears({"navigation"})
          /\ UNCHANGED <<slot, req, try, env, made, lift, err, control, cancelled>>

\* Mutant: the cookies are left to the next script to clear.
LeaveCookies == /\ at = "leave" /\ at' = IF err = "none" THEN "idle" ELSE "rebuild"
                /\ Clears(ScopeState \cup {"timers", "navigation"})
                /\ control' = None
                /\ UNCHANGED <<slot, req, try, env, made, lift, err, cancelled, sent>>

\* the scope is dropped, the outcome is sent; CANCELLED is left as it is
Leave == /\ at = "leave" /\ at' = IF err = "none" THEN "idle" ELSE "rebuild"
         /\ Clears(RequestState)
         /\ control' = None
         /\ UNCHANGED <<slot, req, try, env, made, lift, err, cancelled, sent>>

\* rebuild_env; a worker that cannot have an engine ends
Rebuild == /\ at = "rebuild" /\ Engine("gone") /\ control' = None /\ cancelled' = None
           /\ UNCHANGED <<slot, req, try, err, sent>>

\* Worker::new drains nothing before it: the rest of worker_main, when the queue is closed
Close == /\ Goes("idle", "gone") /\ env # None
         /\ Clears(Drained) /\ control' = None
         /\ UNCHANGED <<slot, req, try, env, made, lift, err, cancelled, sent>>

Next == \/ Take \/ Make \/ Enter \/ Run \/ Exec \/ Write \/ End \/ Panic \/ Report \/ Leave \/ Rebuild \/ Close

Spec == Init /\ [][Next]_vars
----------------------------------------------------------------------------
TypeOK == /\ slot \in Stores
          /\ held \in [req : 0 .. Requests, try : 0 .. 2, env : 0 .. Engines]
          /\ at \in {"idle", "make", "enter", "run", "exec", "script", "report", "leave", "rebuild", "gone"}
          /\ {req, control, cancelled} \subseteq 0 .. Requests /\ try \in 0 .. 2 /\ {env, made} \subseteq 0 .. Engines
          /\ lift \in 0 .. 1 /\ err \in {"none", "oom", "panic"}

(* A script starts with nothing of an earlier request in the worker's own  *)
(* stores, on whichever way that request ended, and what its outcome takes *)
(* with it was put there by the last run of its script: the first, when    *)
(* memory ran out, reports nothing (worker.rs:221-264, 1774-1790).         *)
NothingCarriedOver ==
  /\ at = "script" /\ ~Is(FromEngine \cup OfEngine) /\ held # Empty => held.req = req
  /\ Is({"cookies", "navigation"}) /\ sent # Empty => sent.req = req /\ sent.try = try

(* No value of an engine that is gone is kept for the next one, and what   *)
(* the engine was set up with is there for every request (2167-2183).      *)
OwnEngine ==
  /\ at # "rebuild" /\ Is(Values) /\ held # Empty => held.env = env
  /\ at = "script" /\ Is(FromEngine) => held # Empty

(* A running script is interrupted by its own request's flag and by no     *)
(* other (1504-1525); between requests there is no control to speak of.    *)
SignalsOwn == /\ at \in {"run", "exec", "script"} => control = req /\ cancelled = req
              /\ at \in {"idle", "make"} => control = None
=============================================================================
