------------------------------ MODULE InputHub ------------------------------
(***************************************************************************)
(* One input hub used directly: sites come and go, tabs are opened, closed *)
(* and reused, their drivers are replaced at any time, and tick drives     *)
(* what is due, one step at a time up to a limit.                          *)
(***************************************************************************)
EXTENDS Hubs

CONSTANTS StepLimit,  \* 256
          MaxTabs, MaxSites, MaxGen, LastTick   \* bounds

InputHubAssumption == {StepLimit, MaxTabs, MaxSites, MaxGen, LastTick} \subseteq Nat

VARIABLES now,
          hub,
          steps      \* steps of the tick under way; Idle between ticks

vars == <<now, hub, steps>>

Idle == StepLimit + 1

Init == /\ now = 0
        /\ hub = NewHub
        /\ steps = Idle

Advance == /\ steps = Idle
           /\ now < LastTick
           /\ now' = now + 1
           /\ UNCHANGED <<hub, steps>>

(* register_site: a free number, or the next. *)
Register == /\ steps = Idle
            /\ FreeSite(hub) <= MaxSites
            /\ hub' = RegisterShared(TakeSite(hub), FreeSite(hub))
            /\ UNCHANGED <<now, steps>>

Unregister(s) == /\ steps = Idle
                 /\ hub' = UnregisterSite(hub, s)
                 /\ UNCHANGED <<now, steps>>

NewTab(s) == /\ steps = Idle
             /\ s \in DOMAIN hub.sites /\ hub.sites[s]
             /\ NextTab(hub) <= MaxTabs
             /\ hub' = OpenTab(hub, s)
             /\ UNCHANGED <<now, steps>>

Close(t) == /\ steps = Idle
            /\ t \in DOMAIN hub.tabs
            /\ hub.tabs[t].gen < MaxGen
            /\ hub' = CloseTab(hub, t)
            /\ UNCHANGED <<now, steps>>

Replace(t, due) == /\ steps = Idle
                   /\ t \in DOMAIN hub.tabs
                   /\ hub.tabs[t].gen < MaxGen
                   /\ hub' = SetInput(hub, t, due)
                   /\ UNCHANGED <<now, steps>>

-----------------------------------------------------------------------------
(* tick *)

TickBegins == /\ steps = Idle
              /\ steps' = 0
              /\ UNCHANGED <<now, hub>>

Goes == steps < StepLimit /\ DueKeys(hub, now) # {}
Earliest(k) == \A j \in hub.heap : k.due <= j.due

TickDrives == /\ Goes
              /\ \E k \in DueKeys(hub, now) :
                   /\ Earliest(k)
                   /\ Fresh(hub, k)
                   /\ \/ \E due \in now .. now + 1 : hub' = Stepped(hub, k, due)
                      \/ hub' = Done(hub, k)
              /\ steps' = steps + 1
              /\ UNCHANGED now

TickSkips == /\ Goes
             /\ \E k \in DueKeys(hub, now) :
                  /\ Earliest(k)
                  /\ ~Fresh(hub, k)
                  /\ hub' = Discarded(hub, k)
             /\ UNCHANGED <<now, steps>>

TickEnds == /\ steps # Idle
            /\ ~Goes
            /\ hub' = Tidied(hub)
            /\ steps' = Idle
            /\ UNCHANGED now

Next == \/ Advance \/ Register
        \/ \E s \in 1 .. MaxSites : Unregister(s) \/ NewTab(s)
        \/ \E t \in 1 .. MaxTabs : Close(t) \/ \E due \in now .. now + 1 : Replace(t, due)
        \/ TickBegins \/ TickDrives \/ TickSkips \/ TickEnds

Spec == Init /\ [][Next]_vars

-----------------------------------------------------------------------------
TypeOK == now \in 0 .. LastTick /\ HubType(hub) /\ steps \in 0 .. Idle /\ Len(hub.tabs) <= MaxTabs

(* Every driver has one fresh key and a closed tab has none: replacing,    *)
(* closing, reusing and compacting lose no driver and double none.  A slot *)
(* is handed out again only after it was closed, and once; a site that a   *)
(* tab uses keeps its calibration, and a free site number belongs to no    *)
(* site (scheduler.rs:143-224, 246-302).                                   *)
SitesKept == /\ \A t \in Open(hub) : hub.sites[hub.tabs[t].site]
             /\ \A i, j \in DOMAIN hub.freeSites :
                  /\ ~hub.sites[hub.freeSites[i]]
                  /\ hub.freeSites[i] = hub.freeSites[j] => i = j
HubSound == TypeOK /\ Driven(hub) /\ FreeIsClosed(hub) /\ SitesKept
=============================================================================
