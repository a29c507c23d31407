------------------------------ MODULE RtcPeers ------------------------------
(* RTCPeerConnection objects: an offer defers the trickling of its          *)
(* candidates, a closed peer gives its entry back.  What is deferred is a   *)
(* timer, dropped when there are too many, or cleared.                      *)
EXTENDS RegVec

CONSTANTS Offers   \* offers that wait to be trickled at once

RtcAssumption == RegAssumption /\ Allocs < Gens /\ Offers \in Nat

VARIABLES st,       \* RtcState of each entry
          pending,  \* deferred trickles, by the entry they were asked for; None once cleared
          trickle,  \* the one that runs: for whom, and how many of its two events went out
          closed    \* entries whose peer was closed
rtcVars == <<vars, st, pending, trickle, closed>>

Fresh == [sdp |-> "none", ice |-> "new", connection |-> "new", signaling |-> "stable", handler |-> FALSE, heard |-> FALSE]
Idle == [peer |-> 0, sent |-> 0]

RtcInit == Init /\ st = <<>> /\ pending = <<>> /\ trickle = Idle /\ closed = {}

Gone(k) == Resolve(ids[k]) = None
With(k, f(_)) == IF Gone(k) THEN st ELSE [st EXCEPT ![Resolve(ids[k])] = f(@)]

New == /\ Alloc /\ st' = Append(st, Fresh)
       /\ UNCHANGED <<pending, trickle, closed>>

SetHandler(k, on) == /\ st' = With(k, LAMBDA s : [s EXCEPT !.handler = on])
                     /\ UNCHANGED <<vars, pending, trickle, closed>>

CreateOffer(k) == /\ \/ Len(pending) < Offers /\ pending' = Append(pending, k)
                     \/ UNCHANGED pending    \* no room for the timer
                  /\ st' = With(k, LAMBDA s : [s EXCEPT !.sdp = "offer", !.signaling = "have-local-offer"])
                  /\ UNCHANGED <<vars, trickle, closed>>

CreateAnswer(k) == /\ st' = With(k, LAMBDA s : [s EXCEPT !.sdp = "answer"])
                   /\ UNCHANGED <<vars, pending, trickle, closed>>

SetLocalDescription(k) ==
  /\ st' = With(k, LAMBDA s : [s EXCEPT !.connection = "connecting", !.ice = "checking"])
  /\ UNCHANGED <<vars, pending, trickle, closed>>

\* the states it sets go with the entry
Close(k) == /\ Drop(ids[k])
            /\ st' = With(k, LAMBDA s : [s EXCEPT !.connection = "closed", !.ice = "closed", !.signaling = "closed"])
            /\ closed' = closed \cup {k}
            /\ UNCHANGED <<pending, trickle>>

\* trickle_ice: without a handler nothing happens, not even the change of state
StartTrickle ==
  /\ pending # <<>> /\ trickle = Idle
  /\ pending' = Tail(pending)
  /\ trickle' = IF Head(pending) = None \/ Gone(Head(pending)) \/ ~st[Resolve(ids[Head(pending)])].handler THEN Idle
                ELSE [peer |-> Head(pending), sent |-> 0]
  /\ UNCHANGED <<vars, st, closed>>

\* before a script runs again, and clearTimeout by a script that guesses the id
ClearTimers == trickle = Idle /\ pending' = <<>> /\ UNCHANGED <<vars, st, trickle, closed>>
ClearTimer(n) == pending' = [pending EXCEPT ![n] = None] /\ UNCHANGED <<vars, st, trickle, closed>>

\* the handler that was found is called twice, whatever it does
Candidate == /\ trickle # Idle /\ trickle.sent < 2
             /\ trickle' = [trickle EXCEPT !.sent = @ + 1]
             /\ st' = With(trickle.peer, LAMBDA s : [s EXCEPT !.heard = TRUE])
             /\ UNCHANGED <<vars, pending, closed>>

Connected == /\ trickle # Idle /\ trickle.sent = 2
             /\ trickle' = Idle
             /\ st' = With(trickle.peer, LAMBDA s : [s EXCEPT !.ice = "connected", !.connection = "connected"])
             /\ UNCHANGED <<vars, pending, closed>>

RtcNext == \/ New
           \/ \E k \in DOMAIN ids : CreateOffer(k) \/ CreateAnswer(k) \/ SetLocalDescription(k) \/ Close(k)
           \/ \E k \in DOMAIN ids, on \in BOOLEAN : SetHandler(k, on)
           \/ StartTrickle \/ Candidate \/ Connected
           \/ ClearTimers \/ \E n \in DOMAIN pending : ClearTimer(n)

RtcSpec == RtcInit /\ [][RtcNext]_rtcVars
----------------------------------------------------------------------------
(* A trickle that was deferred finds the peer that made the offer or none: *)
(* a peer that got a closed one's slot is never connected, nor hears of    *)
(* candidates, without an offer of its own, and a closed peer stays        *)
(* closed; the two states move together.                                   *)
PeersApart ==
  \A k \in DOMAIN st :
    /\ k \in closed => st[k].connection = "closed"
    /\ st[k].heard \/ st[k].connection = "connected" => st[k].signaling # "stable"
    /\ <<st[k].ice, st[k].connection>> \in
         {<<"new", "new">>, <<"checking", "connecting">>, <<"connected", "connected">>, <<"closed", "closed">>}
=============================================================================
