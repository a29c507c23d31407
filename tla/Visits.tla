------------------------------- MODULE Visits -------------------------------
(***************************************************************************)
(* Visits (supervisor/src/flow.rs): each follows a page and the            *)
(* navigations its scripts ask for, asks the robots.txt of every host      *)
(* before it fetches there, and passes the check of a page that has one.   *)
(* Visits run side by side and share the cache of robots.txt.              *)
(*                                                                         *)
(* The network and the scripts are nondeterministic: a fetch fails or      *)
(* answers, a page has a check or a script or none, a script navigates or  *)
(* does not.                                                               *)
(***************************************************************************)
EXTENDS Robots

CONSTANTS Tasks,        \* the visits
          Hosts, Paths,
          Bodies,       \* what robots.txt of a host may say
          NavHopMax     \* NAV_HOP_MAX

VisitAssumption == NavHopMax \in Nat /\ <<>> \in Bodies

Urls == Hosts \X Paths

VARIABLES site,         \* site[h]: the robots.txt of h (fixed)
          robotsOn,     \* ROBOTS_ON (fixed)
          cache,        \* RobotsCache: what was stored for a host
          at, url, depth,
          text,         \* the robots.txt a visit just fetched
          hops          \* the hops it completed: their URLs

shared == <<site, robotsOn>>
vars == <<shared, cache, at, url, depth, text, hops>>

Init == /\ site \in [Hosts -> Bodies] /\ robotsOn \in BOOLEAN
        /\ cache = [h \in {} |-> <<>>]
        /\ at = [v \in Tasks |-> "hop"]
        /\ url \in [Tasks -> Urls]
        /\ depth = [v \in Tasks |-> 0]
        /\ text = [v \in Tasks |-> <<>>]
        /\ hops = [v \in Tasks |-> <<>>]

Goes(v, from, to) == at[v] = from /\ at' = [at EXCEPT ![v] = to]
Host(v) == url[v][1]
Path(v) == url[v][2]

-----------------------------------------------------------------------------
(* The start of a hop: too deep, no profile for it (a proxy that is not    *)
(* bound), or on to robots.txt.                                            *)
Hop(v) == /\ \/ Goes(v, "hop", "failed")
             \/ /\ depth[v] <= NavHopMax
                /\ Goes(v, "hop", IF robotsOn THEN "robots" ELSE "fetch")
          /\ UNCHANGED <<shared, cache, url, depth, text, hops>>

(* robots_allows: is the host cached?  If not its robots.txt is fetched,   *)
(* and a failure counts as an empty one.                                   *)
LookUp(v) == /\ Goes(v, "robots", IF Host(v) \in DOMAIN cache THEN "check" ELSE "ask")
             /\ UNCHANGED <<shared, cache, url, depth, text, hops>>

AskRobots(v) == /\ Goes(v, "ask", "store")
                /\ \E body \in {site[Host(v)], <<>>} : text' = [text EXCEPT ![v] = body]
                /\ UNCHANGED <<shared, cache, url, depth, hops>>

(* parse_and_store, store_empty: insert_sync keeps what is there. *)
Store(v) == /\ Goes(v, "store", "check")
            /\ cache' = [h \in DOMAIN cache \cup {Host(v)} |->
                           IF h \in DOMAIN cache THEN cache[h] ELSE text[v]]
            /\ UNCHANGED <<shared, url, depth, text, hops>>

CheckRobots(v) == /\ at[v] = "check"
                  /\ Goes(v, "check", IF IsAllowed(ParseRobots(cache[Host(v)]), Path(v))
                                      THEN "fetch" ELSE "failed")
                  /\ UNCHANGED <<shared, cache, url, depth, text, hops>>

-----------------------------------------------------------------------------
(* fetch_counted fails, or brings a page with a check or without one. *)
Fetch(v) == /\ \E to \in {"failed", "solve", "script"} : Goes(v, "fetch", to)
            /\ UNCHANGED <<shared, cache, url, depth, text, hops>>

(* anubis_page_flow: the check is solved and passed and the page fetched   *)
(* again, or some of this fails, which the hop only records.  A page whose *)
(* check is passed and that has no script runs none.                       *)
Solve(v) == /\ \/ Goes(v, "solve", "script") /\ UNCHANGED hops
               \/ Goes(v, "solve", "end") /\ hops' = [hops EXCEPT ![v] = Append(@, url[v])]
            /\ UNCHANGED <<shared, cache, url, depth, text>>

(* run_challenge, and the end of the hop: the script navigates, or there   *)
(* is none, or it does not.                                                *)
Script(v) == /\ hops' = [hops EXCEPT ![v] = Append(@, url[v])]
             /\ \/ Goes(v, "script", "end") /\ UNCHANGED <<url, depth>>
                \/ /\ Goes(v, "script", "hop")
                   /\ \E target \in Urls : url' = [url EXCEPT ![v] = target]
                   /\ depth' = [depth EXCEPT ![v] = @ + 1]
             /\ UNCHANGED <<shared, cache, text>>

Next == \E v \in Tasks : \/ Hop(v) \/ LookUp(v) \/ AskRobots(v) \/ Store(v) \/ CheckRobots(v)
                         \/ Fetch(v) \/ Solve(v) \/ Script(v)

Spec == Init /\ [][Next]_vars

-----------------------------------------------------------------------------
TypeOK == /\ DOMAIN cache \subseteq Hosts
          /\ at \in [Tasks -> {"hop", "robots", "ask", "store", "check", "fetch", "solve", "script", "end", "failed"}]
          /\ url \in [Tasks -> Urls] /\ depth \in [Tasks -> 0 .. NavHopMax + 1]

(* With robots.txt on, every page a visit has fetched, and the one it is   *)
(* about to, is one that the file kept for its host permits, as the file   *)
(* means it: what one visit was told stays what all are told, although     *)
(* several may fetch the file at once and one of them fail                 *)
(* (flow.rs:390-418, robots.rs:22-54; net-client/tests/robots_unit.rs).    *)
(* No visit goes on past its limit of hops (flow.rs:445).                  *)
Visited(v) == ToSet(hops[v]) \cup (IF at[v] \in {"fetch", "solve", "script"} THEN {url[v]} ELSE {})
RobotsObeyed ==
  /\ TypeOK
  /\ robotsOn => \A v \in Tasks : \A u \in Visited(v) : u[1] \in DOMAIN cache /\ Permits(cache[u[1]], u[2])
  /\ \A v \in Tasks : Len(hops[v]) <= NavHopMax + 1
=============================================================================
