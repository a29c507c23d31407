----------------------------- MODULE XhrObjects -----------------------------
(* XMLHttpRequest objects.  send fetches before it returns; what it fires  *)
(* is deferred, and finds its object again by the id it was sent with.     *)
(* Handlers run in the middle of a firing and may use any object.  What is *)
(* deferred is a timer: it is not kept when there are too many, and may be *)
(* cleared.                                                                *)
EXTENDS RegVec, Integers

CONSTANTS Opens,  \* opens of one behaviour; each is a request of its own
          Jobs    \* firings kept at once

\* generations come round after 2^28 entries: here an id is given out once
XhrAssumption == RegAssumption /\ Allocs < Gens /\ {Opens, Jobs} \subseteq Nat

VARIABLES st,       \* XhrState of each entry
          opens,    \* requests opened so far
          jobs,     \* deferred: who, and the firing or that it was cleared
          firing,   \* the events still to come of the firing that runs
          due       \* loadend events each entry is still to see, of the firings that are kept
xhrVars == <<vars, st, opens, jobs, firing, due>>

Fresh == [ready |-> 0, sent |-> FALSE, aborted |-> FALSE, completed |-> FALSE, url |-> 0, of |-> 0, reply |-> "none"]
Idle == [xhr |-> 0, events |-> <<>>]

XhrInit == Init /\ st = <<>> /\ opens = 0 /\ jobs = <<>> /\ firing = Idle /\ due = <<>>

\* with_xhr: nothing happens to an object whose entry is gone
With(k, s) == IF Resolve(ids[k]) = None THEN st ELSE [st EXCEPT ![Resolve(ids[k])] = s]
State(k) == st[Resolve(ids[k])]
Gone(k) == Resolve(ids[k]) = None

New == /\ Alloc
       /\ st' = Append(st, Fresh) /\ due' = Append(due, 0)
       /\ UNCHANGED <<opens, jobs, firing>>

\* the address may be empty: send finds that out
Open(k, blank) == /\ opens < Opens /\ opens' = opens + 1
                  /\ st' = With(k, [Fresh EXCEPT !.ready = 1, !.url = IF blank THEN 0 ELSE opens'])
                  /\ UNCHANGED <<vars, jobs, firing, due>>

\* push_timer keeps the firing or, out of room for timers, drops it without a word
Defer(k, what) == \/ /\ Len(jobs) < Jobs
                     /\ jobs' = Append(jobs, [xhr |-> k, what |-> what])
                     /\ due' = [due EXCEPT ![k] = @ + 1]
                  \/ UNCHANGED <<jobs, due>>

\* without an entry send finds readyState 0 and throws
Send(k, reply) ==
  /\ ~Gone(k) /\ State(k).ready # 0 /\ ~State(k).sent
  /\ LET s == State(k)
     IN IF s.url = 0
        THEN /\ st' = With(k, [s EXCEPT !.sent = TRUE])
             /\ UNCHANGED <<jobs, due>>
        ELSE /\ st' = With(k, [s EXCEPT !.sent = TRUE, !.url = 0, !.reply = reply, !.of = s.url,
                                        !.completed = (reply # "none")])
             /\ Defer(k, IF reply = "none" THEN "failure" ELSE "completion")
  /\ UNCHANGED <<vars, opens, firing>>

\* an object that was not sent gives its entry back
Abort(k) ==
  /\ ~Gone(k)
  /\ LET s == State(k)
         t == IF s.aborted THEN s
              ELSE [s EXCEPT !.aborted = TRUE, !.reply = "none", !.completed = FALSE, !.ready = 0]
     IN /\ st' = With(k, t)
        /\ IF s.sent THEN Defer(k, "abort") /\ UNCHANGED vars
           ELSE Drop(ids[k]) /\ UNCHANGED <<jobs, due>>
  /\ UNCHANGED <<opens, firing>>

\* fire_completion, fire_failure, fire_abort
RunDeferred ==
  /\ jobs # <<>> /\ firing = Idle /\ Head(jobs).what # "cleared"
  /\ LET k == Head(jobs).xhr   what == Head(jobs).what
     IN /\ IF Gone(k) THEN UNCHANGED st
           ELSE st' = With(k, CASE what = "completion" -> [State(k) EXCEPT !.ready = 4]
                                [] what = "failure" -> [State(k) EXCEPT !.ready = 4, !.completed = FALSE]
                                [] OTHER -> [State(k) EXCEPT !.ready = 0])
        /\ firing' = [xhr |-> k,
                      events |-> IF what = "abort" THEN <<"abort", "loadend">>
                                 ELSE <<"readystatechange",
                                        IF what = "completion" /\ ~Gone(k) /\ State(k).reply = "ok"
                                        THEN "load" ELSE "error", "loadend">>]
  /\ jobs' = Tail(jobs)
  /\ UNCHANGED <<vars, opens, due>>

\* what was cleared is found gone when its turn comes
SkipCleared == /\ jobs # <<>> /\ firing = Idle /\ Head(jobs).what = "cleared"
               /\ jobs' = Tail(jobs)
               /\ UNCHANGED <<vars, st, opens, firing, due>>

Waiting(k) == Cardinality({n \in DOMAIN jobs : jobs[n].xhr = k /\ jobs[n].what # "cleared"})

\* before a script runs again the timers go; the objects stay (only after a run out of memory; here between any two
\* firings)
ClearTimers == /\ firing = Idle /\ jobs' = <<>>
               /\ due' = [k \in DOMAIN due |-> IF Gone(k) THEN due[k] ELSE due[k] - Waiting(k)]
               /\ UNCHANGED <<vars, st, opens, firing>>

\* clearTimeout by a script that guesses the id
ClearTimer(n) == /\ jobs[n].what # "cleared"
                 /\ jobs' = [jobs EXCEPT ![n].what = "cleared"]
                 /\ due' = IF Gone(jobs[n].xhr) THEN due ELSE [due EXCEPT ![jobs[n].xhr] = @ - 1]
                 /\ UNCHANGED <<vars, st, opens, firing>>

\* call_all: the entry is looked up anew for each event
Fire == /\ firing # Idle
        /\ LET k == Resolve(ids[firing.xhr])
           IN due' = IF k # None /\ Head(firing.events) = "loadend" THEN [due EXCEPT ![k] = @ - 1] ELSE due
        /\ firing' = IF Len(firing.events) = 1 THEN Idle ELSE [firing EXCEPT !.events = Tail(@)]
        /\ UNCHANGED <<vars, st, opens, jobs>>

XhrNext == \/ New
           \/ \E k \in DOMAIN ids, blank \in BOOLEAN : Open(k, blank)
           \/ \E k \in DOMAIN ids : Abort(k)
           \/ \E k \in DOMAIN ids, reply \in {"ok", "bad", "none"} : Send(k, reply)
           \/ RunDeferred \/ SkipCleared
           \/ ClearTimers \/ \E n \in DOMAIN jobs : ClearTimer(n)
           \/ Fire

XhrSpec == XhrInit /\ [][XhrNext]_xhrVars
----------------------------------------------------------------------------
Coming(k) == Waiting(k) + (IF firing.xhr = k THEN 1 ELSE 0)

(* What a request shows as its reply is the reply to what was opened last  *)
(* on that object, and each object sees one loadend for everything it sent *)
(* or aborted, but for what the timers dropped or a script cleared,        *)
(* whatever its handlers did meanwhile and whoever got its slot in the     *)
(* registry after it.                                                      *)
XhrSound ==
  \A k \in DOMAIN st :
    /\ st[k].completed => st[k].reply # "none" /\ st[k].of # 0 /\ st[k].url = 0
    /\ st[k].reply # "none" => st[k].sent /\ ~st[k].aborted
    /\ ~Gone(k) => due[k] = Coming(k)
    /\ due[k] >= 0
=============================================================================
