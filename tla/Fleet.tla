-------------------------------- MODULE Fleet --------------------------------
(***************************************************************************)
(* The telemetry fleet (supervisor/src/fleet.rs): one daemon task that     *)
(* attaches tabs to pages, lets the input hubs drive them, gathers their   *)
(* events into batches, has every batch pushed by a task of its own and    *)
(* applies the answers that come back, while tabs expire and their slots,  *)
(* hub tabs and sites are used again.                                      *)
(*                                                                         *)
(* The daemon is one task: it handles one message and then, if an input    *)
(* was due, pumps.  The loop of expire is unrolled, one entry a step.      *)
(***************************************************************************)
EXTENDS Hubs, Totals

CONSTANTS Lanes,       \* number of hubs
          Keys,        \* site keys (hashes of origins)
          MaxTabs, MaxHandle, Ttl, BatchCap, Interval, DoneCap,
          MaxEvents, LastAttach, LastTick    \* bounds

ASSUME FleetAssumption ==
  /\ Lanes \in Nat \ {0}
  /\ {MaxTabs, MaxHandle, Ttl, BatchCap, Interval, MaxEvents, LastAttach, LastTick} \subseteq Nat
  /\ DoneCap \in Nat \ {0}

VARIABLES fleet,
          now,
          at,        \* what the daemon is at: wait, attaching, pumping or stopped
          want,      \* the key of the page being attached, if any
          late,      \* was an input due when the daemon last waited
          jobs,      \* pushes under way
          answers,   \* answers in the channel back
          owed       \* events handed to pushes and not reported yet

vars == <<fleet, now, at, want, late, jobs, answers, owed>>

NoSlot == [handle |-> MaxHandle]
Live(F) == {i \in DOMAIN F.slots : F.slots[i] # NoSlot}

(* A tab's number tells its lane and its place in the hub. *)
Encoded(lane, t) == lane + t * Lanes
LaneOf(tab) == tab % Lanes
LocalOf(tab) == tab \div Lanes

NewFleet ==
  [hubs |-> [l \in 0 .. Lanes - 1 |-> NewHub],
   slots |-> <<>>, handles |-> {}, tabs |-> {}, free |-> <<>>,
   hot |-> [i \in 1 .. MaxTabs |-> 0],      \* how often each slot is mentioned
   sites |-> {},
   calib |-> {},      \* whose tabs gave a verdict, under which site
   expiry |-> {}, next |-> 0, live |-> 0]

Init == /\ fleet = NewFleet
        /\ now = Interval      \* so that the first batch of a tab is not held back
        /\ at = "wait" /\ want = {} /\ late = FALSE
        /\ jobs = {} /\ answers = <<>>
        /\ owed = 0

NextDue(F) == UNION {{k.due : k \in F.hubs[l].heap} : l \in DOMAIN F.hubs}
InputDue(F) == \E due \in NextDue(F) : due <= now

-----------------------------------------------------------------------------
(* Sites: an entry counts the tabs of its key. *)

SiteOf(F, key) == {e \in F.sites : e.key = key}

(* Mutant: a site number that is used again keeps the calibration it had. *)
KeepCalibration(F, key) ==
  IF SiteOf(F, key) # {}
  THEN [F EXCEPT !.sites = {IF e.key = key THEN [e EXCEPT !.tabs = @ + 1] ELSE e : e \in @}]
  ELSE LET s == FreeSite(F.hubs[0])
       IN  [F EXCEPT !.hubs = [l \in DOMAIN @ |-> RegisterShared(IF l = 0 THEN TakeSite(@[0]) ELSE @[l], s)],
                     !.sites = @ \cup {[key |-> key, site |-> s, tabs |-> 1]}]

(* The number comes from the first hub, and every hub gets the site. *)
WithSite(F, key) ==
  IF SiteOf(F, key) # {}
  THEN [F EXCEPT !.sites = {IF e.key = key THEN [e EXCEPT !.tabs = @ + 1] ELSE e : e \in @}]
  ELSE LET s == FreeSite(F.hubs[0])
       IN  [F EXCEPT !.hubs = [l \in DOMAIN @ |-> RegisterShared(IF l = 0 THEN TakeSite(@[0]) ELSE @[l], s)],
                     !.sites = @ \cup {[key |-> key, site |-> s, tabs |-> 1]},
                     !.calib = {v \in @ : v.site # s}]

WithoutSite(F, key) ==
  LET gone == {e \in F.sites : e.key = key /\ e.tabs = 1}
  IN  [F EXCEPT !.sites = {[e EXCEPT !.tabs = IF e.key = key THEN @ - 1 ELSE @] : e \in @ \ gone},
                !.hubs = IF gone = {} THEN @
                         ELSE [l \in DOMAIN @ |-> UnregisterSite(@[l], (CHOOSE e \in gone : TRUE).site)]]

-----------------------------------------------------------------------------
(* attach *)

LiveTabs(F, l) == Cardinality(Open(F.hubs[l]))
LeastLoaded(F) == CHOOSE l \in DOMAIN F.hubs : \A m \in DOMAIN F.hubs :
                    LiveTabs(F, l) < LiveTabs(F, m) \/ (LiveTabs(F, l) = LiveTabs(F, m) /\ l <= m)

Refuses(F) == F.live >= MaxTabs \/ F.next = MaxHandle \/ Ttl = 0

NewHandle(F) == F.next

Tracked(F, i, h) == F.expiry \cup {[at |-> now + Ttl, idx |-> i, handle |-> h]}

SlotToUse(F) == IF F.free # <<>> THEN Top(F.free) ELSE Len(F.slots) + 1

(* A tab of the key is opened in the hub of the lane and given a slot.  It *)
(* is due at once: TabSession starts with next_due_us = now.               *)
Entered(F, key, site, lane) ==
  LET h == NewHandle(F)
      t == NextTab(F.hubs[lane])
      i == SlotToUse(F)
      slot == [handle |-> h, key |-> key, site |-> site, tab |-> Encoded(lane, t),
               scratch |-> 0, started |-> 0, events |-> 0, sent |-> 0, batches |-> 0, jar |-> {}]
  IN  [F EXCEPT !.hubs[lane] = SetInput(OpenTab(@, site), t, now),
                !.slots = IF F.free # <<>> THEN [@ EXCEPT ![i] = slot] ELSE Append(@, slot),
                !.free = IF @ # <<>> THEN Popped(@) ELSE @,
                !.tabs = @ \cup {[tab |-> slot.tab, idx |-> i]},
                !.handles = @ \cup {[handle |-> h, idx |-> i]},
                !.expiry = Tracked(F, i, h),
                !.live = @ + 1,
                !.next = @ + 1]

Attached(F0, key) ==
  LET F == WithSite(F0, key)
  IN  Entered(F, key, (CHOOSE e \in SiteOf(F, key) : TRUE).site, LeastLoaded(F))

-----------------------------------------------------------------------------
(* detach, expire and retire *)

Index(F, h) == {e.idx : e \in {d \in F.handles : d.handle = h}}

(* Mutant: the tab stays open in its hub. *)
RetireKeepsTab(F, i) ==
  LET slot == F.slots[i]
      G == [F EXCEPT !.slots[i] = NoSlot,
                     !.handles = {e \in @ : e.handle # slot.handle},
                     !.tabs = {e \in @ : e.tab # slot.tab},
                     !.hot[i] = IF @ > 0 THEN @ - 1 ELSE 0,
                     !.free = Append(@, i),
                     !.live = @ - 1]
  IN  WithoutSite(G, slot.key)

(* The slot of index i is given up.  One mention of it in hot goes; others *)
(* may stay.                                                               *)
Retired(F, i) ==
  LET slot == F.slots[i]
      G == [F EXCEPT !.slots[i] = NoSlot,
                     !.handles = {e \in @ : e.handle # slot.handle},
                     !.tabs = {e \in @ : e.tab # slot.tab},
                     !.hubs[LaneOf(slot.tab)] = CloseTab(@, LocalOf(slot.tab)),
                     !.hot[i] = IF @ > 0 THEN @ - 1 ELSE 0,
                     !.free = Append(@, i),
                     !.live = @ - 1]
  IN  WithoutSite(G, slot.key)

Detached(F, h) == IF Index(F, h) = {} THEN F ELSE Retired(F, CHOOSE i \in Index(F, h) : TRUE)

Overdue(F) == {e \in F.expiry : e.at <= now}
Sooner(e, f) == \/ e.at < f.at
                \/ e.at = f.at /\ (e.idx < f.idx \/ (e.idx = f.idx /\ e.handle <= f.handle))

(* Mutant: whoever has the slot now expires. *)
ExpiresAnyone(F, e) == F.slots[e.idx] # NoSlot
Expires(F, e) == F.slots[e.idx].handle = e.handle

ExpireOne == /\ at \in {"attaching", "pumping"}
             /\ \E e \in Overdue(fleet) :
                  /\ \A f \in Overdue(fleet) : Sooner(e, f)
                  /\ fleet' = LET F == [fleet EXCEPT !.expiry = @ \ {e}]
                              IN  IF Expires(F, e) THEN Retired(F, e.idx) ELSE F
             /\ UNCHANGED <<now, at, want, late, jobs, answers, owed>>

-----------------------------------------------------------------------------
(* The daemon's messages *)

(* What the daemon does when it has handled a message that it began to     *)
(* wait for with the given next input due or not.                          *)
Afterwards(due) == IF due THEN "pumping" ELSE "wait"

Receive == /\ at = "wait"
           /\ now <= LastAttach
           /\ \E key \in Keys : want' = {key}
           /\ at' = "attaching"
           /\ late' = InputDue(fleet)
           /\ UNCHANGED <<fleet, now, jobs, answers, owed>>

Attach == /\ at = "attaching"
          /\ Overdue(fleet) = {}
          /\ \/ Refuses(fleet) /\ UNCHANGED fleet
             \/ /\ ~Refuses(fleet)
                /\ \E key \in want : fleet' = Attached(fleet, key)
             \/ /\ ~Refuses(fleet)      \* nobody waits for the reply any more
                /\ \E key \in want : fleet' = Detached(Attached(fleet, key), NewHandle(fleet))
          /\ at' = Afterwards(late)
          /\ want' = {} /\ late' = FALSE
          /\ UNCHANGED <<now, jobs, answers, owed>>

(* PushDone: the events are reported, the cookies and the verdict go to    *)
(* the tab of the handle, if it still lives.                               *)
Answered(F, a) ==
  LET idx == Index(F, a.handle)
  IN  IF idx = {} THEN F
      ELSE LET i == CHOOSE j \in idx : TRUE
           IN  [F EXCEPT !.slots[i].jar = @ \cup {a.handle : c \in a.cookies},
                         !.calib = @ \cup {[site |-> F.slots[i].site, key |-> a.key]}]

Answer == /\ at = "wait"
          /\ answers # <<>>
          /\ owed' = owed - Head(answers).events
          /\ fleet' = Answered(fleet, Head(answers))
          /\ answers' = Tail(answers)
          /\ at' = Afterwards(InputDue(fleet))
          /\ UNCHANGED <<now, want, late, jobs>>

(* The time to wait is over, or a Stats message was answered. *)
Wake == /\ at = "wait"
        /\ InputDue(fleet)
        /\ at' = "pumping"
        /\ UNCHANGED <<fleet, now, want, late, jobs, answers, owed>>

(* Every sender of messages is gone: the fleet is dropped, and the answers *)
(* of the pushes under way go nowhere.                                     *)
Stop == /\ at = "wait"
        /\ at' = "stopped"
        /\ fleet' = NewFleet
        /\ jobs' = {} /\ answers' = <<>>
        /\ owed' = 0
        /\ UNCHANGED <<now, want, late>>

-----------------------------------------------------------------------------
(* pump *)

DueTabs(F) == UNION {{[lane |-> l, key |-> k] : k \in {j \in DueKeys(F.hubs[l], now) : Fresh(F.hubs[l], j)}} :
                     l \in DOMAIN F.hubs}

(* tick of one hub: every key in due is stepped and due again as it says. *)
Ticked(hub, l, due) ==
  LET mine == {d \in DOMAIN due : d.lane = l}
      Again(t) == (CHOOSE d \in mine : d.key.tab = t)
  IN  Tidied([hub EXCEPT
        !.heap = (@ \ {d.key : d \in mine}) \cup {Key(due[d], d.key.tab, d.key.gen) : d \in mine},
        !.tabs = [t \in DOMAIN @ |-> IF t \in {d.key.tab : d \in mine}
                                     THEN [@[t] EXCEPT !.input = Driver(due[Again(t)])] ELSE @[t]]])

(* absorb_run for each tab with an event. *)
WithEvent(slot) == [slot EXCEPT !.scratch = @ + 1, !.events = @ + 1]
Absorbed(F, tabs) ==
  LET idx == {e.idx : e \in {d \in F.tabs : d.tab \in tabs}}
  IN  [F EXCEPT !.slots = [i \in DOMAIN @ |-> IF i \in idx /\ @[i] # NoSlot
                                              THEN WithEvent(@[i]) ELSE @[i]],
                !.hot = [i \in DOMAIN @ |-> IF i \in idx THEN @[i] + 1 ELSE @[i]]]

Ready(slot) == \/ slot.scratch >= BatchCap
               \/ slot.scratch > 0 /\ now - slot.started >= Interval

Ripe(F) == {i \in Live(F) : F.hot[i] > 0 /\ Ready(F.slots[i]) /\ F.slots[i].scratch > 0}

(* Mutant: the events that were shipped stay in the scratch. *)
ShippedAgain(F) ==
  [F EXCEPT !.slots = [i \in DOMAIN @ |-> IF i \in Ripe(F)
                         THEN [@[i] EXCEPT !.started = now, !.batches = @ + 1,
                                        !.sent = @ + F.slots[i].scratch] ELSE @[i]],
            !.hot = [i \in DOMAIN @ |-> IF i \notin Live(F) THEN 0
                                        ELSE IF i \in Ripe(F) THEN @[i] - 1 ELSE @[i]]]

(* The ripe slots lose their events and one mention in hot; the mentions   *)
(* of empty slots go.                                                      *)
Emptied(slot) == [slot EXCEPT !.scratch = 0, !.started = now, !.batches = @ + 1,
                              !.sent = @ + slot.scratch]
Shipped(F) ==
  [F EXCEPT !.slots = [i \in DOMAIN @ |-> IF i \in Ripe(F) THEN Emptied(@[i]) ELSE @[i]],
            !.hot = [i \in DOMAIN @ |-> IF i \notin Live(F) THEN 0
                                        ELSE IF i \in Ripe(F) THEN @[i] - 1 ELSE @[i]]]

JobOf(slot) == [handle |-> slot.handle, batch |-> slot.batches + 1,
                events |-> slot.scratch, key |-> slot.key]
EventsOf(set) == Total([j \in set |-> j.events], set)

Pump == /\ at = "pumping"
        /\ Overdue(fleet) = {}
        /\ \E due \in [DueTabs(fleet) -> {now, now + 1}],
              active \in SUBSET DueTabs(fleet) :
             LET Tab(d) == Encoded(d.lane, d.key.tab)
                 T == [fleet EXCEPT !.hubs = [l \in DOMAIN @ |-> Ticked(@[l], l, due)]]
                 F == Absorbed(T, {Tab(d) : d \in active})
                 new == {JobOf(F.slots[i]) : i \in Ripe(F)}
             IN  /\ \A i \in Live(F) : F.slots[i].events <= MaxEvents
                 /\ fleet' = Shipped(F)
                 /\ jobs' = jobs \cup new
                 /\ owed' = owed + EventsOf(new)
        /\ at' = "wait"
        /\ UNCHANGED <<now, want, late, answers>>

-----------------------------------------------------------------------------
(* Outside the daemon: the push of a job ends, by an answer with or        *)
(* without cookies, by an error or by the time limit; time passes.         *)

PushEnds(j) == /\ j \in jobs
               /\ Len(answers) < DoneCap
               /\ jobs' = jobs \ {j}
               /\ \E cookies \in {{}, {"line"}} :
                    answers' = Append(answers, [handle |-> j.handle, events |-> j.events,
                                                key |-> j.key, cookies |-> cookies])
               /\ UNCHANGED <<fleet, now, at, want, late, owed>>

Advance == /\ at = "wait"
           /\ now < LastTick
           /\ now' = now + 1
           /\ UNCHANGED <<fleet, at, want, late, jobs, answers, owed>>

Next == \/ Receive \/ Attach \/ ExpireOne \/ Answer \/ Wake \/ Stop \/ Pump
        \/ \E j \in jobs : PushEnds(j)
        \/ Advance

Spec == Init /\ [][Next]_vars

-----------------------------------------------------------------------------
TypeOK == /\ \A l \in DOMAIN fleet.hubs : HubType(fleet.hubs[l])
          /\ fleet.live \in 0 .. MaxTabs
          /\ fleet.next \in 0 .. MaxHandle
          /\ Len(fleet.slots) <= MaxTabs
          /\ at \in {"wait", "attaching", "pumping", "stopped"}

(* A handle, a hub tab and a slot belong to one another, and the hub tab   *)
(* is open for the slot's site: nothing of a tab that is gone resolves,    *)
(* though its slot is used again (fleet.rs:187-244; the test               *)
(* closed_handles_do_not_resolve_after_slot_reuse).                        *)
Resolves ==
  LET F == fleet IN
  /\ F.handles = {[handle |-> F.slots[i].handle, idx |-> i] : i \in Live(F)}
  /\ F.tabs = {[tab |-> F.slots[i].tab, idx |-> i] : i \in Live(F)}
  /\ \A i, j \in Live(F) : i # j => /\ F.slots[i].handle # F.slots[j].handle
                                    /\ F.slots[i].tab # F.slots[j].tab
  /\ {F.free[n] : n \in DOMAIN F.free} = DOMAIN F.slots \ Live(F)

(* The tabs that count against the limit are the slots in use and the tabs *)
(* open in the hubs: none stays open behind a slot that was given up       *)
(* (fleet.rs:115, 188, 220-229).                                           *)
LiveCounted ==
  LET F == fleet IN
  /\ F.live = Cardinality(Live(F))
  /\ \A l \in DOMAIN F.hubs :
       Open(F.hubs[l]) = {LocalOf(F.slots[i].tab) : i \in {j \in Live(F) : LaneOf(F.slots[j].tab) = l}}
  /\ \A i \in Live(F) : F.hubs[LaneOf(F.slots[i].tab)].tabs[LocalOf(F.slots[i].tab)].site = F.slots[i].site

(* A site counts its tabs, and is registered in every hub exactly while it *)
(* has some (fleet.rs:123-144, 230-243).                                   *)
SitesCounted ==
  LET F == fleet IN
  /\ \A e \in F.sites : e.tabs > 0 /\ e.tabs = Cardinality({i \in Live(F) : F.slots[i].key = e.key})
  /\ \A i \in Live(F) : \E e \in F.sites : e.key = F.slots[i].key /\ e.site = F.slots[i].site
  /\ \A d, e \in F.sites : d # e => d.key # e.key /\ d.site # e.site
  /\ \A l \in DOMAIN F.hubs :
       {s \in DOMAIN F.hubs[l].sites : F.hubs[l].sites[s]} = {e.site : e \in F.sites}

(* Every tab has its expiry pending, though the slot was used before: none *)
(* stays for ever (fleet.rs:189-190, 247-268).                             *)
ExpiryCovers ==
  /\ \A i \in Live(fleet) : \E e \in fleet.expiry : e.idx = i /\ e.handle = fleet.slots[i].handle
  /\ \A e \in fleet.expiry : e.at <= now + Ttl

(* Only its own expiry ends a tab that was attached, never that of the tab *)
(* that had its slot before (fleet.rs:247-268).                            *)
LivesItsTime ==
  [][\A i \in Live(fleet) :
       (i \notin Live(fleet') \/ fleet'.slots[i].handle # fleet.slots[i].handle)
         => at' = "stopped" \/ \E e \in fleet.expiry : e.handle = fleet.slots[i].handle /\ e.at <= now]_vars

(* Events that wait for a batch are found by the next pump: a slot with    *)
(* some is in hot, and every driver keeps its one key in its hub           *)
(* (fleet.rs:316-353, 370).                                                *)
HotCovers ==
  /\ \A i \in Live(fleet) : fleet.slots[i].scratch > 0 => fleet.hot[i] > 0
  /\ \A l \in DOMAIN fleet.hubs : Driven(fleet.hubs[l])

(* A tab is in the same slot, hub and site by every table, and neither the *)
(* tab, nor its events, nor its driver is forgotten.                       *)
TablesAgree == /\ TypeOK
               /\ Resolves /\ LiveCounted /\ SitesCounted
               /\ ExpiryCovers /\ HotCovers

(* The cookies and the verdict of a push reach the tab and the site it was *)
(* made for or nobody, however late they come (fleet.rs:274-287, 391-411). *)
AnswersLandHome ==
  /\ \A i \in Live(fleet) : fleet.slots[i].jar \subseteq {fleet.slots[i].handle}
  /\ \A e \in fleet.sites, v \in fleet.calib : v.site = e.site => v.key = e.key

(* An event that left its tab is in one push, in one answer or in the      *)
(* count of touches, once, and an event of a live tab waits or was sent    *)
(* (fleet.rs:331-371, 494-497).                                            *)
ReportedOnce ==
  /\ owed = EventsOf(jobs)
            + Total([n \in DOMAIN answers |-> answers[n].events], DOMAIN answers)
  /\ \A i \in Live(fleet) : fleet.slots[i].events = fleet.slots[i].scratch + fleet.slots[i].sent

=============================================================================
