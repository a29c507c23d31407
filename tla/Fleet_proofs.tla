---------------------------- MODULE Fleet_proofs ----------------------------
(***************************************************************************)
(* Proofs about the telemetry fleet, and about the jar its tabs copy.      *)
(***************************************************************************)
EXTENDS MCFleet, SequenceTheorems, WellFoundedInduction

-----------------------------------------------------------------------------
(* The types, field by field. *)

HandleNumbers == {h \in Nat : h < MaxHandle}
InputRec == [due : Nat, some : BOOLEAN]
TabRec == [site : Nat, gen : Nat, input : InputRec]
KeyRec == [due : Nat, tab : Nat, gen : Nat]
HubRec == [tabs : Seq(TabRec), free : Seq(Nat), heap : SUBSET KeyRec,
           sites : Seq(BOOLEAN), freeSites : Seq(Nat)]
SlotRec == [handle : HandleNumbers, key : Keys, site : Nat, tab : Nat, scratch : Nat,
            started : Nat, events : Nat, sent : Nat, batches : Nat, jar : SUBSET Nat]
FleetRec == [hubs : [0 .. Lanes - 1 -> HubRec],
             slots : Seq(SlotRec \cup {NoSlot}),
             handles : SUBSET [handle : Nat, idx : Nat],
             tabs : SUBSET [tab : Nat, idx : Nat],
             free : Seq(Nat),
             hot : [1 .. MaxTabs -> Nat],
             sites : SUBSET [key : Keys, site : Nat, tabs : Nat],
             calib : SUBSET [site : Nat, key : Keys],
             expiry : SUBSET [at : Nat, idx : Nat, handle : HandleNumbers],
             next : Nat, live : Nat]
JobRec == [handle : Nat, batch : Nat, events : Nat, key : Keys]
AnswerRec == [handle : Nat, events : Nat, key : Keys, cookies : SUBSET {"line"}]

RestTyped == /\ now \in Nat
             /\ at \in {"wait", "attaching", "pumping", "stopped"}
             /\ want \in SUBSET Keys
             /\ late \in BOOLEAN
             /\ jobs \in SUBSET JobRec
             /\ answers \in Seq(AnswerRec)

(* A hub whose drivers are never replaced: its heap is exactly the keys of *)
(* its open tabs, all of which have one.                                   *)
HubGood(h) == /\ h \in HubRec
              /\ FreeIsClosed(h)
              /\ \A t \in Open(h) : h.tabs[t].input.some
              /\ h.heap = {KeyOfTab(h, t) : t \in Open(h)}

HubsGood(F) == \A l \in DOMAIN F.hubs : HubGood(F.hubs[l])

(* The tables of the daemon name the same tabs. *)
SlotsAgree(F) ==
  /\ F.next <= MaxHandle
  /\ F.handles = {[handle |-> F.slots[i].handle, idx |-> i] : i \in Live(F)}
  /\ F.tabs = {[tab |-> F.slots[i].tab, idx |-> i] : i \in Live(F)}
  /\ \A i \in Live(F) : F.slots[i].handle < F.next
  /\ \A i, j \in Live(F) : i # j => /\ F.slots[i].handle # F.slots[j].handle
                                    /\ F.slots[i].tab # F.slots[j].tab

(* The free slots are the empty ones, each once, and no more slots were    *)
(* ever made than there may be tabs.                                       *)
SlotsTile(F) ==
  /\ {F.free[n] : n \in DOMAIN F.free} = DOMAIN F.slots \ Live(F)
  /\ \A m, n \in DOMAIN F.free : F.free[m] = F.free[n] => m = n
  /\ F.live = Cardinality(Live(F))
  /\ F.live <= MaxTabs
  /\ Len(F.slots) <= MaxTabs

(* The tabs open in a hub are those of the slots, at the slot's site. *)
HubsAgree(F) ==
  /\ \A l \in DOMAIN F.hubs :
       Open(F.hubs[l]) = {LocalOf(F.slots[i].tab) : i \in {j \in Live(F) : LaneOf(F.slots[j].tab) = l}}
  /\ \A i \in Live(F) : F.hubs[LaneOf(F.slots[i].tab)].tabs[LocalOf(F.slots[i].tab)].site = F.slots[i].site

(* Sites count their tabs; in the middle of attach and of retire one tab   *)
(* of a key of K is counted that has no slot.                              *)
OfKey(F, key) == {i \in Live(F) : F.slots[i].key = key}
Used(h) == {s \in DOMAIN h.sites : h.sites[s]}
SitesAgree(F, K) ==
  /\ \A e \in F.sites : /\ e.tabs > 0 /\ e.site > 0
                        /\ e.tabs = Cardinality(OfKey(F, e.key)) + (IF e.key \in K THEN 1 ELSE 0)
  /\ \A key \in K : \E e \in F.sites : e.key = key
  /\ \A i \in Live(F) : \E e \in F.sites : e.key = F.slots[i].key /\ e.site = F.slots[i].site
  /\ \A d, e \in F.sites : d # e => d.key # e.key /\ d.site # e.site
  /\ \A l \in DOMAIN F.hubs : Used(F.hubs[l]) = {e.site : e \in F.sites}

(* The first hub hands out the site numbers: those that are not in use. *)
SitesTile(h) ==
  /\ {h.freeSites[n] : n \in DOMAIN h.freeSites} = DOMAIN h.sites \ Used(h)
  /\ \A m, n \in DOMAIN h.freeSites : h.freeSites[m] = h.freeSites[n] => m = n

ExpiryAgrees(F) ==
  /\ \A i \in Live(F) : \E e \in F.expiry : e.idx = i /\ e.handle = F.slots[i].handle
  /\ \A e \in F.expiry : e.at <= now + Ttl /\ e.idx \in DOMAIN F.slots

HotAgrees(F) == \A i \in Live(F) : F.slots[i].scratch > 0 => F.hot[i] > 0

JarsHome(F) == \A i \in Live(F) : F.slots[i].jar \subseteq {F.slots[i].handle}
VerdictsHome(F) == \A e \in F.sites, v \in F.calib : v.site = e.site => v.key = e.key

(* A push, or the answer to it, was made for a tab of its key. *)
MadeFor(F, j) == /\ j.handle < F.next
                 /\ \A i \in Live(F) : F.slots[i].handle = j.handle => F.slots[i].key = j.key

(* A batch that is under way has a number its tab has used. *)
Numbered(F, j) == \A i \in Live(F) : F.slots[i].handle = j.handle => j.batch <= F.slots[i].batches

Sent(F) == \A i \in Live(F) : F.slots[i].events = F.slots[i].scratch + F.slots[i].sent

TablesInv(F) == /\ F \in FleetRec
                /\ HubsGood(F)
                /\ SlotsAgree(F) /\ SlotsTile(F) /\ HubsAgree(F)
                /\ SitesAgree(F, {}) /\ SitesTile(F.hubs[0])
                /\ HotAgrees(F)

PushesFit(F) == /\ \A j \in jobs : MadeFor(F, j) /\ Numbered(F, j)
                /\ \A n \in DOMAIN answers : MadeFor(F, answers[n])

PushesInv(F) == JarsHome(F) /\ VerdictsHome(F) /\ Sent(F) /\ PushesFit(F)

FleetInv == RestTyped /\ TablesInv(fleet) /\ ExpiryAgrees(fleet) /\ PushesInv(fleet)

-----------------------------------------------------------------------------
(* A tab's number: lane and place are found again. *)
LEMMA EncodedIsFound ==
  ASSUME NEW lane \in 0 .. Lanes - 1, NEW t \in Nat
  PROVE  /\ Encoded(lane, t) \in Nat
         /\ LaneOf(Encoded(lane, t)) = lane
         /\ LocalOf(Encoded(lane, t)) = t
<1>1. Lanes \in Nat \ {0}
  BY FleetAssumption
<1>2. (lane + t * Lanes) % Lanes = lane /\ (lane + t * Lanes) \div Lanes = t
  BY <1>1
<1>3. lane + t * Lanes \in Nat
  BY <1>1
<1>4. QED
  BY <1>2, <1>3 DEF Encoded, LaneOf, LocalOf

LEMMA EncodedIsOne ==
  ASSUME NEW number \in Nat
  PROVE  /\ LaneOf(number) \in 0 .. Lanes - 1 /\ LocalOf(number) \in Nat
         /\ number = Encoded(LaneOf(number), LocalOf(number))
<1>1. Lanes \in Nat \ {0}
  BY FleetAssumption
<1>2. number % Lanes \in 0 .. Lanes - 1 /\ number \div Lanes \in Nat
  BY <1>1
<1>3. number = (number % Lanes) + (number \div Lanes) * Lanes
  BY <1>1
<1>4. QED
  BY <1>2, <1>3 DEF Encoded, LaneOf, LocalOf

-----------------------------------------------------------------------------
(* A table in which one entry is written. *)
LEMMA UpdatedAt ==
  ASSUME NEW f, NEW x \in DOMAIN f, NEW v, NEW g, g = [f EXCEPT ![x] = v]
  PROVE  /\ DOMAIN g = DOMAIN f /\ g[x] = v
         /\ \A y \in DOMAIN f : y # x => g[y] = f[y]
  OBVIOUS

(* Stacks of numbers, each of which is in there once. *)
Members(s) == {s[n] : n \in DOMAIN s}
Once(s) == \A m, n \in DOMAIN s : s[m] = s[n] => m = n

LEMMA PopOnce ==
  ASSUME NEW S, NEW s \in Seq(S), s # <<>>
  PROVE  /\ Popped(s) \in Seq(S)
         /\ Top(s) \in S /\ Top(s) \in Members(s)
         /\ Once(s) => Once(Popped(s)) /\ Members(Popped(s)) = Members(s) \ {Top(s)}
<1>1. Len(s) \in Nat \ {0} /\ DOMAIN s = 1 .. Len(s)
  BY EmptySeq
<1>2. /\ Popped(s) \in Seq(S) /\ Len(Popped(s)) = Len(s) - 1
      /\ \A n \in 1 .. Len(s) - 1 : Popped(s)[n] = s[n]
  BY <1>1, SubSeqProperties DEF Popped
<1>3. DOMAIN Popped(s) = 1 .. Len(s) - 1
  BY <1>1, <1>2
<1>4. Len(s) \in DOMAIN s /\ Top(s) = s[Len(s)]
  BY <1>1 DEF Top
<1>5. Top(s) \in S
  BY <1>1, <1>4, ElementOfSeq
<1>6. ASSUME Once(s)
      PROVE  Once(Popped(s)) /\ Members(Popped(s)) = Members(s) \ {Top(s)}
  <2>1. Once(Popped(s))
    BY <1>1, <1>2, <1>3, <1>6 DEF Once
  <2>2. ASSUME NEW n \in 1 .. Len(s) - 1
        PROVE  s[n] # Top(s)
    BY <1>1, <1>4, <1>6, <2>2 DEF Once
  <2>3. \A n \in DOMAIN s : n = Len(s) \/ n \in 1 .. Len(s) - 1
    BY <1>1
  <2>4. QED
    BY <1>1, <1>2, <1>3, <1>4, <2>1, <2>2, <2>3 DEF Members
<1>7. QED
  BY <1>2, <1>4, <1>5, <1>6 DEF Members

LEMMA PushOnce ==
  ASSUME NEW S, NEW s \in Seq(S), NEW x \in S
  PROVE  /\ Append(s, x) \in Seq(S)
         /\ Members(Append(s, x)) = Members(s) \cup {x}
         /\ Once(s) /\ x \notin Members(s) => Once(Append(s, x))
<1>1. /\ Append(s, x) \in Seq(S)
      /\ Len(Append(s, x)) = Len(s) + 1
      /\ \A n \in 1 .. Len(s) : Append(s, x)[n] = s[n]
      /\ Append(s, x)[Len(s) + 1] = x
  BY AppendProperties
<1>2. /\ Len(s) \in Nat /\ DOMAIN s = 1 .. Len(s)
      /\ DOMAIN Append(s, x) = 1 .. Len(s) + 1
      /\ 1 .. Len(s) + 1 = (1 .. Len(s)) \cup {Len(s) + 1}
      /\ Len(s) + 1 \notin 1 .. Len(s)
  BY <1>1
<1>3. Members(Append(s, x)) = Members(s) \cup {x}
  BY <1>1, <1>2 DEF Members
<1>4. ASSUME Once(s), x \notin Members(s)
      PROVE  Once(Append(s, x))
  BY <1>1, <1>2, <1>4 DEF Once, Members
<1>5. QED
  BY <1>1, <1>3, <1>4

-----------------------------------------------------------------------------
(* What each operation of a hub does to a good one. *)

SameSites(g, h) == g.sites = h.sites /\ g.freeSites = h.freeSites
SameTabs(g, h) == g.tabs = h.tabs /\ g.free = h.free /\ g.heap = h.heap

(* A tab that is opened: a free slot, or a new one. *)
NewTabOf(s) == [site |-> s, gen |-> 0, input |-> NoInput]

LEMMA TabOpened ==
  ASSUME NEW h \in HubRec, FreeIsClosed(h), NEW s \in Nat \ {0}
  PROVE  LET t == NextTab(h)
             o == OpenTab(h, s)
         IN  /\ o \in HubRec /\ SameSites(o, h) /\ o.heap = h.heap
             /\ t \in Nat /\ t \notin Open(h)
             /\ DOMAIN o.tabs = DOMAIN h.tabs \cup {t} /\ o.tabs[t] = NewTabOf(s)
             /\ \A u \in DOMAIN h.tabs : u # t => o.tabs[u] = h.tabs[u]
             /\ Members(o.free) = (DOMAIN h.tabs \ Open(h)) \ {t} /\ Once(o.free)
             /\ Open(o) = Open(h) \cup {t}
<1> DEFINE t == NextTab(h)
           newTab == NewTabOf(s)
           o == OpenTab(h, s)
<1>1. /\ h \in HubRec /\ h.tabs \in Seq(TabRec) /\ h.free \in Seq(Nat)
      /\ Members(h.free) = DOMAIN h.tabs \ Open(h) /\ Once(h.free)
  BY DEF HubRec, FreeIsClosed, Members, Once
<1>2. Len(h.tabs) \in Nat /\ DOMAIN h.tabs = 1 .. Len(h.tabs) /\ Open(h) \subseteq DOMAIN h.tabs
  BY <1>1 DEF Open
<1>3. newTab \in TabRec
  BY DEF TabRec, InputRec, NoInput, NewTabOf
<1>4. /\ o \in HubRec /\ SameSites(o, h) /\ o.heap = h.heap
      /\ t \in Nat /\ t \notin Open(h)
      /\ DOMAIN o.tabs = DOMAIN h.tabs \cup {t} /\ o.tabs[t] = newTab
      /\ \A u \in DOMAIN h.tabs : u # t => o.tabs[u] = h.tabs[u]
      /\ Members(o.free) = (DOMAIN h.tabs \ Open(h)) \ {t} /\ Once(o.free)
  <2>1. CASE h.free # <<>>
    <3>1. t = Top(h.free) /\ t \in DOMAIN h.tabs /\ t \notin Open(h)
      BY <1>1, <2>1, PopOnce DEF NextTab
    <3>2. o = [h EXCEPT !.tabs = [h.tabs EXCEPT ![t] = newTab], !.free = Popped(h.free)]
      BY <2>1, <3>1 DEF OpenTab, NewTabOf
    <3>3. [h.tabs EXCEPT ![t] = newTab] \in Seq(TabRec)
      BY <1>1, <1>3, <3>1, ExceptSeq
    <3>4. Popped(h.free) \in Seq(Nat) /\ Once(Popped(h.free)) /\ Members(Popped(h.free)) = Members(h.free) \ {t}
      BY <1>1, <2>1, <3>1, PopOnce
    <3> HIDE DEF t, newTab, o
    <3>5. /\ o.tabs = [h.tabs EXCEPT ![t] = newTab] /\ o.free = Popped(h.free)
          /\ o.heap = h.heap /\ o.sites = h.sites /\ o.freeSites = h.freeSites /\ o \in HubRec
      BY <1>1, <3>2, <3>3, <3>4 DEF HubRec
    <3>6. QED
      BY <1>1, <1>2, <3>1, <3>4, <3>5 DEF SameSites
  <2>2. CASE h.free = <<>>
    <3>1. t = Len(h.tabs) + 1
      BY <2>2 DEF NextTab
    <3>2. o = [h EXCEPT !.tabs = Append(h.tabs, newTab)]
      BY <2>2 DEF OpenTab, NewTabOf
    <3>3. Members(h.free) = {}
      BY <2>2 DEF Members
    <3> HIDE DEF t, newTab, o
    <3>4. /\ Append(h.tabs, newTab) \in Seq(TabRec)
          /\ Len(Append(h.tabs, newTab)) = Len(h.tabs) + 1
          /\ \A u \in 1 .. Len(h.tabs) : Append(h.tabs, newTab)[u] = h.tabs[u]
          /\ Append(h.tabs, newTab)[Len(h.tabs) + 1] = newTab
      BY <1>1, <1>3, AppendProperties
    <3>5. /\ o.tabs = Append(h.tabs, newTab) /\ o.free = h.free
          /\ o.heap = h.heap /\ o.sites = h.sites /\ o.freeSites = h.freeSites /\ o \in HubRec
      BY <1>1, <3>2, <3>4 DEF HubRec
    <3>6. DOMAIN o.tabs = 1 .. Len(h.tabs) + 1
      BY <3>4, <3>5
    <3>7. QED
      BY <1>1, <1>2, <3>1, <3>3, <3>4, <3>5, <3>6 DEF SameSites
  <2>3. QED
    BY <2>1, <2>2
<1> HIDE DEF o, t
<1>5. newTab.site # NoSite
  BY DEF NoSite, NewTabOf
<1> HIDE DEF newTab
<1>6. Open(o) = Open(h) \cup {t}
  BY <1>2, <1>4, <1>5 DEF Open
<1>7. QED
  BY <1>4, <1>6 DEF o, t, newTab

(* A tab that is given a driver: its generation goes up, and the key of    *)
(* the driver it had, if it had one, stays in the heap.                    *)
LEMMA InputSet ==
  ASSUME NEW h \in HubRec, NEW t \in Open(h), NEW due \in Nat
  PROVE  LET g == SetInput(h, t, due)
             gen == h.tabs[t].gen + 1
         IN  /\ g \in HubRec /\ SameSites(g, h) /\ g.free = h.free
             /\ gen \in Nat /\ g.heap = h.heap \cup {Key(due, t, gen)}
             /\ DOMAIN g.tabs = DOMAIN h.tabs
             /\ g.tabs[t].site = h.tabs[t].site /\ g.tabs[t].gen = gen /\ g.tabs[t].input = Driver(due)
             /\ \A u \in DOMAIN h.tabs : u # t => g.tabs[u] = h.tabs[u]
             /\ Open(g) = Open(h)
<1> DEFINE gen == h.tabs[t].gen + 1
           new == [h.tabs[t] EXCEPT !.gen = gen, !.input = Driver(due)]
           tabs == [h.tabs EXCEPT ![t] = new]
           g == SetInput(h, t, due)
<1>1. /\ h.tabs \in Seq(TabRec) /\ Len(h.tabs) \in Nat /\ DOMAIN h.tabs = 1 .. Len(h.tabs)
      /\ Open(h) \subseteq DOMAIN h.tabs /\ t \in DOMAIN h.tabs /\ t \in Nat
  BY DEF HubRec, Open
<1>2. h.tabs[t] \in TabRec
  BY <1>1, ElementOfSeq
<1>3. gen \in Nat /\ Driver(due) \in InputRec
  BY <1>2 DEF TabRec, Driver, InputRec
<1>4. g = [h EXCEPT !.tabs = tabs, !.heap = h.heap \cup {Key(due, t, gen)}]
  <2>1. tabs = [h.tabs EXCEPT ![t].gen = @ + 1, ![t].input = Driver(due)]
    OBVIOUS
  <2>2. g = [h EXCEPT !.tabs = [h.tabs EXCEPT ![t].gen = @ + 1, ![t].input = Driver(due)],
                      !.heap = h.heap \cup {Key(due, t, gen)}]
    BY ZenonT(40) DEF SetInput
  <2> HIDE DEF tabs, g, gen
  <2>3. QED
    BY <2>1, <2>2
<1> HIDE DEF g, gen
<1>5. new \in TabRec /\ new.site = h.tabs[t].site /\ new.gen = gen /\ new.input = Driver(due)
  BY <1>2, <1>3 DEF TabRec
<1> HIDE DEF new
<1>6. tabs \in Seq(TabRec)
  BY <1>1, <1>5, ExceptSeq
<1>7. /\ DOMAIN tabs = DOMAIN h.tabs /\ tabs[t] = new
      /\ \A u \in DOMAIN h.tabs : u # t => tabs[u] = h.tabs[u]
  BY <1>1, UpdatedAt
<1>8. Key(due, t, gen) \in KeyRec
  BY <1>1, <1>3 DEF Key, KeyRec
<1> HIDE DEF tabs
<1>9. /\ g.tabs = tabs /\ g.heap = h.heap \cup {Key(due, t, gen)}
      /\ g.free = h.free /\ SameSites(g, h) /\ g \in HubRec
  BY <1>4, <1>6, <1>8 DEF HubRec, SameSites
<1>10. Open(g) = Open(h)
  <2>1. \A u \in DOMAIN h.tabs : tabs[u].site = h.tabs[u].site
    BY <1>5, <1>7
  <2>2. QED
    BY <1>7, <1>9, <2>1 DEF Open
<1>11. QED
  BY <1>3, <1>5, <1>7, <1>9, <1>10 DEF g, gen

(* A tab that is opened and given a driver. *)
OpensAs(h, g, t, s) ==
  /\ HubGood(g) /\ SameSites(g, h)
  /\ t \in Nat /\ t \notin Open(h)
  /\ Open(g) = Open(h) \cup {t}
  /\ g.tabs[t].site = s
  /\ \A u \in Open(h) : g.tabs[u].site = h.tabs[u].site

LEMMA HubOpens ==
  ASSUME NEW h, HubGood(h), NEW s \in Nat \ {0}, NEW due \in Nat
  PROVE  OpensAs(h, SetInput(OpenTab(h, s), NextTab(h), due), NextTab(h), s)
<1> DEFINE t == NextTab(h)
           o == OpenTab(h, s)
           g == SetInput(o, t, due)
<1>1. /\ h \in HubRec /\ FreeIsClosed(h)
      /\ Open(h) \subseteq DOMAIN h.tabs
      /\ h.heap = {KeyOfTab(h, u) : u \in Open(h)}
      /\ \A u \in Open(h) : h.tabs[u].input.some
  BY DEF HubGood, Open
<1>2. /\ o \in HubRec /\ SameSites(o, h) /\ o.heap = h.heap
      /\ t \in Nat /\ t \notin Open(h)
      /\ DOMAIN o.tabs = DOMAIN h.tabs \cup {t} /\ o.tabs[t] = NewTabOf(s)
      /\ \A u \in DOMAIN h.tabs : u # t => o.tabs[u] = h.tabs[u]
      /\ Members(o.free) = (DOMAIN h.tabs \ Open(h)) \ {t} /\ Once(o.free)
      /\ Open(o) = Open(h) \cup {t}
  BY <1>1, TabOpened
<1>3. o.tabs[t].site = s /\ o.tabs[t].gen = 0
  BY <1>2 DEF NewTabOf
<1> HIDE DEF o, t
<1>4. /\ g \in HubRec /\ SameSites(g, o) /\ g.free = o.free
      /\ g.heap = o.heap \cup {Key(due, t, 1)}
      /\ DOMAIN g.tabs = DOMAIN o.tabs
      /\ g.tabs[t].site = s /\ g.tabs[t].gen = 1 /\ g.tabs[t].input = Driver(due)
      /\ \A u \in DOMAIN o.tabs : u # t => g.tabs[u] = o.tabs[u]
      /\ Open(g) = Open(o)
  <2>1. t \in Open(o) /\ o.tabs[t].gen + 1 = 1
    BY <1>2, <1>3
  <2>2. o \in HubRec
    BY <1>2
  <2> HIDE DEF g
  <2>3. LET gen == o.tabs[t].gen + 1
        IN  /\ g \in HubRec /\ SameSites(g, o) /\ g.free = o.free
            /\ gen \in Nat /\ g.heap = o.heap \cup {Key(due, t, gen)}
            /\ DOMAIN g.tabs = DOMAIN o.tabs
            /\ g.tabs[t].site = o.tabs[t].site /\ g.tabs[t].gen = gen /\ g.tabs[t].input = Driver(due)
            /\ \A u \in DOMAIN o.tabs : u # t => g.tabs[u] = o.tabs[u]
            /\ Open(g) = Open(o)
    BY <2>1, <2>2, InputSet DEF g
  <2>4. QED
    BY <1>3, <2>1, <2>3
<1> HIDE DEF g
<1>5. \A u \in Open(h) : u # t /\ g.tabs[u] = h.tabs[u]
  BY <1>1, <1>2, <1>4
<1>6. KeyOfTab(g, t) = Key(due, t, 1) /\ \A u \in Open(h) : KeyOfTab(g, u) = KeyOfTab(h, u)
  BY <1>4, <1>5 DEF KeyOfTab, Driver
<1>7. HubGood(g)
  <2>1. g.heap = {KeyOfTab(g, u) : u \in Open(g)}
    BY <1>1, <1>2, <1>4, <1>6
  <2>2. \A u \in Open(g) : g.tabs[u].input.some
    BY <1>1, <1>2, <1>4, <1>5 DEF Driver
  <2>3. Members(g.free) = DOMAIN g.tabs \ Open(g) /\ Once(g.free)
    BY <1>1, <1>2, <1>4
  <2>4. QED
    BY <1>4, <2>1, <2>2, <2>3 DEF HubGood, FreeIsClosed, Members, Once
<1>8. OpensAs(h, g, t, s)
  BY <1>2, <1>4, <1>5, <1>7 DEF OpensAs, SameSites
<1>9. QED
  BY <1>8 DEF g, t, o

(* A tab that is closed: all its keys go, and its slot is free again. *)
LEMMA TabClosed ==
  ASSUME NEW h \in HubRec, FreeIsClosed(h), NEW t \in Open(h)
  PROVE  LET g == CloseTab(h, t)
         IN  /\ g \in HubRec /\ SameSites(g, h) /\ FreeIsClosed(g)
             /\ g.heap = {k \in h.heap : k.tab # t}
             /\ DOMAIN g.tabs = DOMAIN h.tabs /\ g.tabs[t].site = NoSite
             /\ \A u \in DOMAIN h.tabs : u # t => g.tabs[u] = h.tabs[u]
             /\ Open(g) = Open(h) \ {t}
<1> DEFINE g == CloseTab(h, t)
           old == h.tabs[t]
           new == [site |-> NoSite, gen |-> old.gen + 1, input |-> NoInput]
<1>1. /\ h.tabs \in Seq(TabRec) /\ h.free \in Seq(Nat) /\ h.heap \subseteq KeyRec
      /\ Members(h.free) = DOMAIN h.tabs \ Open(h) /\ Once(h.free)
  BY DEF HubRec, FreeIsClosed, Members, Once
<1>2. /\ Len(h.tabs) \in Nat /\ DOMAIN h.tabs = 1 .. Len(h.tabs) /\ Open(h) \subseteq DOMAIN h.tabs
      /\ t \in DOMAIN h.tabs /\ t \in Nat
  BY <1>1 DEF Open
<1>3. new \in TabRec
  <2>1. old \in TabRec
    BY <1>1, <1>2, ElementOfSeq
  <2>2. NoInput \in InputRec /\ NoSite \in Nat /\ old.gen + 1 \in Nat
    BY <2>1 DEF InputRec, NoInput, NoSite, TabRec
  <2> HIDE DEF old
  <2>3. QED
    BY <2>2 DEF TabRec
<1>4. g = [h EXCEPT !.tabs = [h.tabs EXCEPT ![t] = new], !.heap = {k \in h.heap : k.tab # t},
                    !.free = Append(h.free, t)]
  BY <1>1 DEF CloseTab
<1>5. [h.tabs EXCEPT ![t] = new] \in Seq(TabRec)
  BY <1>1, <1>2, <1>3, ExceptSeq
<1>6. /\ Append(h.free, t) \in Seq(Nat) /\ Once(Append(h.free, t))
      /\ Members(Append(h.free, t)) = Members(h.free) \cup {t}
  BY <1>1, <1>2, PushOnce
<1>7. new.site = NoSite
  OBVIOUS
<1> HIDE DEF g, new
<1>8. /\ g.tabs = [h.tabs EXCEPT ![t] = new] /\ g.heap = {k \in h.heap : k.tab # t}
      /\ g.free = Append(h.free, t) /\ SameSites(g, h) /\ g \in HubRec
  <2> DEFINE heap == {k \in h.heap : k.tab # t}
  <2>1. heap \in SUBSET KeyRec
    BY <1>1
  <2> HIDE DEF heap
  <2>2. g = [h EXCEPT !.tabs = [h.tabs EXCEPT ![t] = new], !.heap = heap, !.free = Append(h.free, t)]
    BY <1>4 DEF heap
  <2>3. /\ g.tabs = [h.tabs EXCEPT ![t] = new] /\ g.heap = heap
        /\ g.free = Append(h.free, t) /\ g.sites = h.sites /\ g.freeSites = h.freeSites
        /\ g \in HubRec
    BY <1>5, <1>6, <2>1, <2>2 DEF HubRec
  <2>4. QED
    BY <2>3 DEF SameSites, heap
<1>9. /\ DOMAIN g.tabs = DOMAIN h.tabs /\ g.tabs[t] = new
      /\ \A u \in DOMAIN h.tabs : u # t => g.tabs[u] = h.tabs[u]
  BY <1>2, <1>8, UpdatedAt
<1>10. Open(g) = Open(h) \ {t}
  BY <1>2, <1>7, <1>9 DEF Open
<1>11. Members(g.free) = DOMAIN g.tabs \ Open(g) /\ Once(g.free)
  <2>1. DOMAIN h.tabs \ (Open(h) \ {t}) = (DOMAIN h.tabs \ Open(h)) \cup {t}
    BY <1>2
  <2>2. QED
    BY <1>1, <1>6, <1>8, <1>9, <1>10, <2>1
<1>12. QED
  BY <1>7, <1>8, <1>9, <1>10, <1>11 DEF g, FreeIsClosed, Members, Once

(* A tab that is closed takes its key along. *)
LEMMA HubCloses ==
  ASSUME NEW h, HubGood(h), NEW t \in Open(h)
  PROVE  LET g == CloseTab(h, t)
         IN  /\ HubGood(g) /\ SameSites(g, h)
             /\ Open(g) = Open(h) \ {t}
             /\ \A u \in DOMAIN g.tabs : g.tabs[u].site = IF u = t THEN NoSite ELSE h.tabs[u].site
             /\ DOMAIN g.tabs = DOMAIN h.tabs
<1> DEFINE g == CloseTab(h, t)
<1>1. /\ h \in HubRec /\ FreeIsClosed(h) /\ Open(h) \subseteq DOMAIN h.tabs
      /\ h.heap = {KeyOfTab(h, u) : u \in Open(h)}
      /\ \A u \in Open(h) : h.tabs[u].input.some
  BY DEF HubGood, Open
<1>2. /\ g \in HubRec /\ SameSites(g, h) /\ FreeIsClosed(g)
      /\ g.heap = {k \in h.heap : k.tab # t}
      /\ DOMAIN g.tabs = DOMAIN h.tabs /\ g.tabs[t].site = NoSite
      /\ \A u \in DOMAIN h.tabs : u # t => g.tabs[u] = h.tabs[u]
      /\ Open(g) = Open(h) \ {t}
  BY <1>1, TabClosed
<1> HIDE DEF g
<1>3. \A u \in Open(g) : KeyOfTab(g, u) = KeyOfTab(h, u) /\ g.tabs[u] = h.tabs[u]
  BY <1>1, <1>2 DEF KeyOfTab
<1>4. \A u \in Open(h) : KeyOfTab(h, u).tab = u
  BY DEF KeyOfTab, Key
<1>5. g.heap = {KeyOfTab(g, u) : u \in Open(g)}
  BY <1>1, <1>2, <1>3, <1>4
<1>6. \A u \in Open(g) : g.tabs[u].input.some
  BY <1>1, <1>2, <1>3
<1>7. QED
  BY <1>2, <1>5, <1>6 DEF HubGood, g

(* A hub with the same tabs is as good. *)
LEMMA SameTabsSameHub ==
  ASSUME NEW h, NEW g \in HubRec, SameTabs(g, h)
  PROVE  /\ Open(g) = Open(h) /\ \A t : KeyOfTab(g, t) = KeyOfTab(h, t)
         /\ FreeIsClosed(h) => FreeIsClosed(g)
         /\ HubGood(h) => HubGood(g)
  BY DEF HubGood, SameTabs, FreeIsClosed, Open, KeyOfTab

(* A site is registered under a number. *)
LEMMA HubRegisters ==
  ASSUME NEW h \in HubRec, NEW s \in Nat \ {0}
  PROVE  LET g == RegisterShared(h, s)
         IN  /\ g \in HubRec /\ SameTabs(g, h) /\ g.freeSites = h.freeSites
             /\ Used(g) = Used(h) \cup {s}
             /\ DOMAIN g.sites = 1 .. (IF s > Len(h.sites) THEN s ELSE Len(h.sites))
<1> DEFINE n == IF s > Len(h.sites) THEN s ELSE Len(h.sites)
           kept == [i \in 1 .. n |-> i = s \/ (i <= Len(h.sites) /\ h.sites[i])]
           g == RegisterShared(h, s)
<1>1. h \in HubRec /\ h.sites \in Seq(BOOLEAN) /\ Len(h.sites) \in Nat /\ DOMAIN h.sites = 1 .. Len(h.sites)
  BY DEF HubRec
<1>2. n \in Nat /\ n >= s /\ n >= Len(h.sites)
  BY <1>1
<1>3. g = [h EXCEPT !.sites = kept]
  BY DEF RegisterShared
<1> HIDE DEF n
<1>4. kept \in Seq(BOOLEAN)
  <2>1. \A i \in 1 .. n : (i = s \/ (i <= Len(h.sites) /\ h.sites[i])) \in BOOLEAN
    OBVIOUS
  <2>2. kept \in [1 .. n -> BOOLEAN]
    BY <2>1
  <2>3. QED
    BY <1>2, <2>2, SeqDef
<1>5. {i \in 1 .. n : kept[i]} = Used(h) \cup {s}
  <2>1. \A i \in 1 .. n : kept[i] = (i = s \/ (i <= Len(h.sites) /\ h.sites[i]))
    OBVIOUS
  <2>2. \A i \in 1 .. n : i <= Len(h.sites) <=> i \in DOMAIN h.sites
    BY <1>1, <1>2
  <2>3. s \in 1 .. n /\ DOMAIN h.sites \subseteq 1 .. n
    BY <1>1, <1>2
  <2> HIDE DEF kept
  <2>4. \A i \in 1 .. n : kept[i] <=> i = s \/ (i \in DOMAIN h.sites /\ h.sites[i])
    BY <2>1, <2>2, Zenon
  <2>5. QED
    BY <2>3, <2>4, Zenon DEF Used
<1> HIDE DEF kept, g
<1>6. g.sites = kept /\ SameTabs(g, h) /\ g.freeSites = h.freeSites /\ g \in HubRec
  BY <1>1, <1>3, <1>4 DEF HubRec, SameTabs
<1>7. DOMAIN g.sites = 1 .. n
  BY <1>6 DEF kept
<1>8. QED
  BY <1>5, <1>6, <1>7 DEF g, n, Used

(* The first hub gives out a number that no site has. *)
LEMMA HubHandsOut ==
  ASSUME NEW h \in HubRec, SitesTile(h)
  PROVE  LET s == FreeSite(h)
             g == RegisterShared(TakeSite(h), s)
         IN  /\ s \in Nat \ {0} /\ s \notin Used(h)
             /\ g \in HubRec /\ SameTabs(g, h)
             /\ Used(g) = Used(h) \cup {s}
             /\ SitesTile(g)
<1> DEFINE s == FreeSite(h)
           o == TakeSite(h)
           g == RegisterShared(o, s)
<1>1. /\ h \in HubRec /\ h.sites \in Seq(BOOLEAN) /\ h.freeSites \in Seq(Nat)
      /\ Len(h.sites) \in Nat /\ DOMAIN h.sites = 1 .. Len(h.sites) /\ Used(h) \subseteq DOMAIN h.sites
      /\ Members(h.freeSites) = DOMAIN h.sites \ Used(h) /\ Once(h.freeSites)
  BY DEF HubRec, SitesTile, Members, Once, Used
<1>2. /\ o \in HubRec /\ SameTabs(o, h) /\ o.sites = h.sites
      /\ s \in Nat \ {0} /\ s \notin Used(h)
      /\ Members(o.freeSites) = (DOMAIN h.sites \ Used(h)) \ {s} /\ Once(o.freeSites)
      /\ s > Len(h.sites) => s = Len(h.sites) + 1
  <2>1. CASE h.freeSites # <<>>
    <3>1. s = Top(h.freeSites) /\ o = [h EXCEPT !.freeSites = Popped(h.freeSites)]
      BY <2>1 DEF FreeSite, TakeSite
    <3>2. /\ Popped(h.freeSites) \in Seq(Nat) /\ Top(h.freeSites) \in Members(h.freeSites)
          /\ Once(Popped(h.freeSites))
          /\ Members(Popped(h.freeSites)) = Members(h.freeSites) \ {Top(h.freeSites)}
      BY <1>1, <2>1, PopOnce
    <3> HIDE DEF s, o
    <3>3. o.freeSites = Popped(h.freeSites) /\ SameTabs(o, h) /\ o.sites = h.sites /\ o \in HubRec
      BY <1>1, <3>1, <3>2 DEF HubRec, SameTabs
    <3>4. QED
      BY <1>1, <3>1, <3>2, <3>3
  <2>2. CASE h.freeSites = <<>>
    <3>1. s = Len(h.sites) + 1 /\ o = h
      BY <2>2 DEF FreeSite, TakeSite
    <3>2. Members(h.freeSites) = {}
      BY <2>2 DEF Members
    <3> HIDE DEF s, o
    <3>3. QED
      BY <1>1, <3>1, <3>2 DEF SameTabs
  <2>3. QED
    BY <2>1, <2>2
<1> HIDE DEF s, o
<1>3. /\ g \in HubRec /\ SameTabs(g, h) /\ g.freeSites = o.freeSites
      /\ Used(g) = Used(o) \cup {s}
      /\ DOMAIN g.sites = 1 .. (IF s > Len(o.sites) THEN s ELSE Len(o.sites))
  BY <1>2, HubRegisters DEF SameTabs
<1> HIDE DEF g
<1>4. Used(o) = Used(h)
  BY <1>2 DEF Used
<1>5. DOMAIN g.sites = DOMAIN h.sites \cup {s}
  <2>1. CASE s > Len(h.sites)
    BY <1>1, <1>2, <1>3, <2>1
  <2>2. CASE ~(s > Len(h.sites))
    BY <1>1, <1>2, <1>3, <2>2
  <2>3. QED
    BY <2>1, <2>2
<1>6. Members(g.freeSites) = DOMAIN g.sites \ Used(g) /\ Once(g.freeSites)
  BY <1>1, <1>2, <1>3, <1>4, <1>5
<1>7. QED
  BY <1>2, <1>3, <1>4, <1>6 DEF SitesTile, Members, Once, g, o, s

(* A site that no tab uses any more is struck off. *)
LEMMA HubUnregisters ==
  ASSUME NEW h \in HubRec, NEW s \in Used(h), \A t \in DOMAIN h.tabs : h.tabs[t].site # s
  PROVE  LET g == UnregisterSite(h, s)
         IN  /\ g \in HubRec /\ SameTabs(g, h)
             /\ Used(g) = Used(h) \ {s}
             /\ SitesTile(h) => SitesTile(g)
<1> DEFINE g == UnregisterSite(h, s)
<1>1. /\ h \in HubRec /\ h.sites \in Seq(BOOLEAN) /\ h.freeSites \in Seq(Nat)
      /\ DOMAIN h.sites = 1 .. Len(h.sites) /\ s \in DOMAIN h.sites /\ h.sites[s] /\ s \in Nat
  BY DEF HubRec, Used
<1>2. g = [h EXCEPT !.sites = [h.sites EXCEPT ![s] = FALSE], !.freeSites = Append(h.freeSites, s)]
  BY <1>1 DEF UnregisterSite
<1>3. [h.sites EXCEPT ![s] = FALSE] \in Seq(BOOLEAN)
  BY <1>1, ExceptSeq
<1>4. /\ Append(h.freeSites, s) \in Seq(Nat)
      /\ Members(Append(h.freeSites, s)) = Members(h.freeSites) \cup {s}
      /\ Once(h.freeSites) /\ s \notin Members(h.freeSites) => Once(Append(h.freeSites, s))
  BY <1>1, PushOnce
<1> HIDE DEF g
<1>5. /\ g.sites = [h.sites EXCEPT ![s] = FALSE] /\ g.freeSites = Append(h.freeSites, s)
      /\ SameTabs(g, h) /\ g \in HubRec
  BY <1>1, <1>2, <1>3, <1>4 DEF HubRec, SameTabs
<1>6. DOMAIN g.sites = DOMAIN h.sites /\ Used(g) = Used(h) \ {s}
  BY <1>1, <1>5 DEF Used
<1>7. SitesTile(h) => SitesTile(g)
  <2> SUFFICES ASSUME SitesTile(h)
               PROVE  SitesTile(g)
    OBVIOUS
  <2>1. Members(h.freeSites) = DOMAIN h.sites \ Used(h) /\ Once(h.freeSites)
    BY DEF SitesTile, Members, Once
  <2>2. Once(g.freeSites)
    BY <1>4, <1>5, <2>1
  <2>3. Members(g.freeSites) = DOMAIN g.sites \ Used(g)
    BY <1>1, <1>4, <1>5, <1>6, <2>1
  <2>4. QED
    BY <2>2, <2>3 DEF SitesTile, Members, Once
<1>8. QED
  BY <1>5, <1>6, <1>7 DEF g

(* A tick: the keys of some tabs are due again, at times of their own. *)
LEMMA HubTicks ==
  ASSUME NEW h, HubGood(h), NEW l, NEW D, NEW due \in [D -> Nat],
         \A d \in D : d.lane = l => d.key \in h.heap,
         \A d, e \in D : d.lane = l /\ e.lane = l /\ d.key = e.key => d = e
  PROVE  LET g == Ticked(h, l, due)
         IN  /\ HubGood(g) /\ SameSites(g, h)
             /\ Open(g) = Open(h) /\ DOMAIN g.tabs = DOMAIN h.tabs
             /\ \A t \in DOMAIN h.tabs : g.tabs[t].site = h.tabs[t].site
<1> DEFINE mine == {d \in DOMAIN due : d.lane = l}
           stepped == {d.key.tab : d \in mine}
           Again(t) == CHOOSE d \in mine : d.key.tab = t
           heap == (h.heap \ {d.key : d \in mine}) \cup {Key(due[d], d.key.tab, d.key.gen) : d \in mine}
           tabs == [t \in DOMAIN h.tabs |-> IF t \in stepped
                                            THEN [h.tabs[t] EXCEPT !.input = Driver(due[Again(t)])]
                                            ELSE h.tabs[t]]
           g == [h EXCEPT !.heap = heap, !.tabs = tabs]
<1>1. /\ h \in HubRec /\ h.tabs \in Seq(TabRec)
      /\ Members(h.free) = DOMAIN h.tabs \ Open(h) /\ Once(h.free)
      /\ h.heap = {KeyOfTab(h, u) : u \in Open(h)}
      /\ \A u \in Open(h) : h.tabs[u].input.some
  BY DEF HubGood, HubRec, FreeIsClosed, Members, Once
<1>2. /\ Len(h.tabs) \in Nat /\ DOMAIN h.tabs = 1 .. Len(h.tabs) /\ Open(h) \subseteq DOMAIN h.tabs
      /\ \A u \in DOMAIN h.tabs : h.tabs[u] \in TabRec /\ u \in Nat
  BY <1>1, ElementOfSeq DEF Open
<1>3. mine = {d \in D : d.lane = l}
  OBVIOUS
<1>4. \A u \in Open(h) : KeyOfTab(h, u).tab = u /\ KeyOfTab(h, u).gen = h.tabs[u].gen
  BY DEF KeyOfTab, Key
<1>5. \A d \in mine : d.key.tab \in Open(h) /\ d.key = KeyOfTab(h, d.key.tab) /\ due[d] \in Nat
  BY <1>1, <1>3, <1>4
<1>6. stepped \subseteq Open(h)
  BY <1>5
<1>7. \A t \in stepped : Again(t) \in mine /\ Again(t).key.tab = t
  OBVIOUS
<1>8. \A d \in mine : Again(d.key.tab) = d
  <2> TAKE d \in mine
  <2>1. Again(d.key.tab) \in mine /\ Again(d.key.tab).key.tab = d.key.tab
    BY <1>7
  <2>2. Again(d.key.tab).key = d.key
    BY <1>5, <2>1
  <2> HIDE DEF Again
  <2>3. QED
    BY <1>3, <2>1, <2>2
<1> HIDE DEF Again, stepped
<1>9. \A t \in stepped : /\ [h.tabs[t] EXCEPT !.input = Driver(due[Again(t)])] \in TabRec
                         /\ due[Again(t)] \in Nat
  <2> TAKE t \in stepped
  <2>1. due[Again(t)] \in Nat /\ h.tabs[t] \in TabRec
    BY <1>2, <1>5, <1>6, <1>7
  <2>2. Driver(due[Again(t)]) \in InputRec
    BY <2>1 DEF Driver, InputRec
  <2>3. QED
    BY <2>1, <2>2 DEF TabRec
<1>10. tabs \in Seq(TabRec)
  <2>1. tabs \in [1 .. Len(h.tabs) -> TabRec]
    BY <1>2, <1>9
  <2>2. QED
    BY <1>2, <2>1, SeqDef
<1>11. heap \subseteq KeyRec
  <2>1. h.heap \subseteq KeyRec
    BY <1>1 DEF HubRec
  <2>2. ASSUME NEW d \in mine
        PROVE  Key(due[d], d.key.tab, d.key.gen) \in KeyRec
    <3>1. d.key \in KeyRec /\ due[d] \in Nat
      BY <1>1, <1>5, <2>1
    <3>2. QED
      BY <3>1 DEF Key, KeyRec
  <2> HIDE DEF mine
  <2>3. QED
    BY <2>1, <2>2
<1>12. /\ \A t \in stepped : /\ tabs[t].site = h.tabs[t].site /\ tabs[t].gen = h.tabs[t].gen
                             /\ tabs[t].input = Driver(due[Again(t)])
       /\ \A t \in DOMAIN h.tabs \ stepped : tabs[t] = h.tabs[t]
       /\ DOMAIN tabs = DOMAIN h.tabs
  BY <1>2, <1>6 DEF TabRec
<1>13. \A t \in DOMAIN h.tabs : tabs[t].site = h.tabs[t].site
  BY <1>12
<1> DEFINE KeyNow(t) == Key(tabs[t].input.due, t, tabs[t].gen)
<1>14. heap = {KeyNow(t) : t \in Open(h)}
  <2>1. \A t \in Open(h) \ stepped : KeyNow(t) = KeyOfTab(h, t) /\ KeyNow(t) \notin {d.key : d \in mine}
    <3>1. \A t \in Open(h) \ stepped : KeyNow(t) = KeyOfTab(h, t)
      BY <1>2, <1>12 DEF KeyOfTab
    <3>2. \A t \in Open(h) \ stepped, d \in mine : d.key.tab # t
      BY DEF stepped
    <3> HIDE DEF KeyNow, mine
    <3>3. QED
      BY <1>4, <3>1, <3>2
  <2>2. \A d \in mine : KeyNow(d.key.tab) = Key(due[d], d.key.tab, d.key.gen) /\ d.key.tab \in stepped
    <3> TAKE d \in mine
    <3>1. d.key.tab \in stepped
      BY DEF stepped
    <3>2. d.key.gen = h.tabs[d.key.tab].gen
      BY <1>4, <1>5
    <3>3. Driver(due[d]).due = due[d]
      BY DEF Driver
    <3> HIDE DEF tabs
    <3>4. QED
      BY <1>8, <1>12, <3>1, <3>2, <3>3
  <2>3. \A t \in stepped : \E d \in mine : d.key.tab = t
    BY <1>7
  <2>4. \A k \in h.heap : k \notin {d.key : d \in mine} => \E t \in Open(h) \ stepped : k = KeyOfTab(h, t)
    <3> TAKE k \in h.heap
    <3> HAVE k \notin {d.key : d \in mine}
    <3>1. PICK t \in Open(h) : k = KeyOfTab(h, t)
      BY <1>1
    <3>2. ASSUME t \in stepped
          PROVE  FALSE
      BY <1>5, <1>7, <3>1, <3>2
    <3>3. QED
      BY <3>1, <3>2
  <2> HIDE DEF KeyNow, mine, tabs
  <2>5. ASSUME NEW k \in heap
        PROVE  \E t \in Open(h) : k = KeyNow(t)
    <3>1. CASE k \in h.heap \ {d.key : d \in mine}
      BY <2>1, <2>4, <3>1
    <3>2. CASE k \in {Key(due[d], d.key.tab, d.key.gen) : d \in mine}
      BY <1>6, <2>2, <3>2
    <3>3. QED
      BY <2>5, <3>1, <3>2
  <2>6. ASSUME NEW t \in Open(h)
        PROVE  KeyNow(t) \in heap
    <3>1. CASE t \in stepped
      BY <2>2, <2>3, <3>1
    <3>2. CASE t \notin stepped
      BY <1>1, <2>1, <3>2
    <3>3. QED
      BY <3>1, <3>2
  <2> HIDE DEF heap
  <2>7. QED
    BY <2>5, <2>6
<1>15. \A t \in Open(h) : tabs[t].input.some
  BY <1>1, <1>2, <1>12 DEF Driver
<1> HIDE DEF heap, tabs, mine
<1>16. g.heap = heap /\ g.tabs = tabs /\ g.free = h.free /\ SameSites(g, h) /\ g \in HubRec
  BY <1>1, <1>10, <1>11 DEF HubRec, SameSites
<1> HIDE DEF g
<1>17. Open(g) = Open(h)
  BY <1>12, <1>13, <1>16 DEF Open
<1>18. g.heap = {KeyOfTab(g, t) : t \in Open(g)}
  BY <1>14, <1>16, <1>17 DEF KeyOfTab
<1>19. HubGood(g)
  <2>1. Members(g.free) = DOMAIN g.tabs \ Open(g) /\ Once(g.free)
    BY <1>1, <1>12, <1>16, <1>17
  <2>2. \A t \in Open(g) : g.tabs[t].input.some
    BY <1>15, <1>16, <1>17
  <2>3. QED
    BY <1>16, <1>18, <2>1, <2>2 DEF HubGood, FreeIsClosed, Members, Once
<1>20. Compacted(g) = g
  <2>1. {t \in Open(g) : g.tabs[t].input.some} = Open(g)
    BY <1>15, <1>16, <1>17
  <2>2. Compacted(g) = [g EXCEPT !.heap = g.heap]
    BY <1>18, <2>1 DEF Compacted
  <2>3. QED
    BY <1>16, <2>2 DEF HubRec
<1>21. Tidied(g) = g
  BY <1>20 DEF Tidied
<1>22. Ticked(h, l, due) = g
  BY <1>21 DEF Ticked, g, heap, tabs, mine, stepped, Again
<1>23. QED
  BY <1>12, <1>13, <1>16, <1>17, <1>19, <1>22

-----------------------------------------------------------------------------
(* The slots of a fleet, empty and in use. *)
LEMMA SlotFacts ==
  ASSUME NEW F, F \in FleetRec
  PROVE  /\ Len(F.slots) \in Nat /\ DOMAIN F.slots = 1 .. Len(F.slots)
         /\ Live(F) \subseteq DOMAIN F.slots
         /\ \A i \in Live(F) : F.slots[i] \in SlotRec /\ i \in Nat
         /\ \A i \in DOMAIN F.slots : i \notin Live(F) => F.slots[i] = NoSlot
         /\ IsFiniteSet(Live(F)) /\ Cardinality(Live(F)) \in Nat
         /\ \A S \in SUBSET Live(F) : IsFiniteSet(S) /\ Cardinality(S) \in Nat
<1>1. F.slots \in Seq(SlotRec \cup {NoSlot})
  BY DEF FleetRec
<1>2. Len(F.slots) \in Nat /\ DOMAIN F.slots = 1 .. Len(F.slots)
  BY <1>1
<1>3. \A i \in DOMAIN F.slots : F.slots[i] \in SlotRec \cup {NoSlot} /\ i \in Nat
  BY <1>1, <1>2, ElementOfSeq
<1>4. Live(F) \subseteq DOMAIN F.slots
  BY DEF Live
<1>5. \A i \in Live(F) : F.slots[i] \in SlotRec /\ i \in Nat
  BY <1>3 DEF Live
<1>6. \A i \in DOMAIN F.slots : i \notin Live(F) => F.slots[i] = NoSlot
  BY DEF Live
<1>7. IsFiniteSet(1 .. Len(F.slots))
  BY <1>2, FS_Interval
<1>8. \A S \in SUBSET Live(F) : IsFiniteSet(S) /\ Cardinality(S) \in Nat
  BY <1>2, <1>4, <1>7, FS_Subset, FS_CardinalityType
<1>9. QED
  BY <1>2, <1>4, <1>5, <1>6, <1>8

LEMMA EmptySlot ==
  /\ NoSlot \notin SlotRec /\ NoSlot.handle = MaxHandle /\ MaxHandle \in Nat
  /\ \A s \in SlotRec : s.handle \in Nat /\ s.handle < MaxHandle /\ s # NoSlot
<1>1. MaxHandle \in Nat
  BY FleetAssumption
<1>2. NoSlot.handle = MaxHandle
  BY DEF NoSlot
<1>3. \A s \in SlotRec : s.handle \in Nat /\ s.handle < MaxHandle
  BY DEF SlotRec, HandleNumbers
<1>4. QED
  BY <1>1, <1>2, <1>3

(* When only the sites change, what is said of the slots stays true. *)
SameSlots(G, F) ==
  /\ G.slots = F.slots /\ G.handles = F.handles /\ G.tabs = F.tabs /\ G.free = F.free
  /\ G.hot = F.hot /\ G.expiry = F.expiry /\ G.next = F.next /\ G.live = F.live
  /\ DOMAIN G.hubs = DOMAIN F.hubs
  /\ \A l \in DOMAIN F.hubs : SameTabs(G.hubs[l], F.hubs[l])

SitesWrittenIn(F, hubs, sites, calib) == [F EXCEPT !.hubs = hubs, !.sites = sites, !.calib = calib]

LEMMA SitesWritten ==
  ASSUME NEW F \in FleetRec, NEW hubs \in [0 .. Lanes - 1 -> HubRec],
         \A l \in 0 .. Lanes - 1 : SameTabs(hubs[l], F.hubs[l]),
         NEW sites \in SUBSET [key : Keys, site : Nat, tabs : Nat],
         NEW calib \in SUBSET [site : Nat, key : Keys]
  PROVE  LET G == SitesWrittenIn(F, hubs, sites, calib)
         IN  /\ G \in FleetRec /\ G.sites = sites /\ G.hubs = hubs /\ G.calib = calib
             /\ SameSlots(G, F)
<1> DEFINE G == SitesWrittenIn(F, hubs, sites, calib)
<1>1. G \in FleetRec /\ G.sites = sites /\ G.hubs = hubs /\ G.calib = calib
  BY DEF FleetRec, SitesWrittenIn
<1>2. /\ G.slots = F.slots /\ G.handles = F.handles /\ G.tabs = F.tabs /\ G.free = F.free
      /\ G.hot = F.hot /\ G.expiry = F.expiry /\ G.next = F.next /\ G.live = F.live
  BY DEF FleetRec, SitesWrittenIn
<1>3. DOMAIN F.hubs = 0 .. Lanes - 1 /\ DOMAIN hubs = 0 .. Lanes - 1
  BY DEF FleetRec
<1> HIDE DEF G
<1>4. /\ G \in FleetRec /\ G.sites = sites /\ G.hubs = hubs /\ G.calib = calib
      /\ SameSlots(G, F)
  BY <1>1, <1>2, <1>3 DEF SameSlots
<1>5. QED
  BY <1>4 DEF G

LEMMA SameSlotsKeep ==
  ASSUME NEW F, F \in FleetRec, NEW G, SameSlots(G, F)
  PROVE  /\ Live(G) = Live(F)
         /\ \A key : OfKey(G, key) = OfKey(F, key)
         /\ SlotsAgree(F) => SlotsAgree(G)
         /\ SlotsTile(F) => SlotsTile(G)
         /\ HubsAgree(F) => HubsAgree(G)
         /\ ExpiryAgrees(F) => ExpiryAgrees(G)
         /\ HotAgrees(F) => HotAgrees(G)
         /\ Sent(F) => Sent(G)
         /\ \A j : MadeFor(F, j) => MadeFor(G, j)
         /\ \A j : Numbered(F, j) => Numbered(G, j)
<1>1. Live(G) = Live(F)
  BY DEF Live, SameSlots
<1>2. \A key : OfKey(G, key) = OfKey(F, key)
  BY <1>1 DEF OfKey, SameSlots
<1>3. SlotsAgree(F) => SlotsAgree(G)
  BY <1>1 DEF SlotsAgree, SameSlots
<1>4. SlotsTile(F) => SlotsTile(G)
  BY <1>1 DEF SlotsTile, SameSlots
<1>5. ASSUME HubsAgree(F) PROVE HubsAgree(G)
  <2>1. \A l \in DOMAIN F.hubs : Open(G.hubs[l]) = Open(F.hubs[l]) /\ G.hubs[l].tabs = F.hubs[l].tabs
    BY DEF SameSlots, SameTabs, Open
  <2>2. \A i \in Live(F) : LaneOf(F.slots[i].tab) \in DOMAIN F.hubs
    <3> TAKE i \in Live(F)
    <3>1. F.slots[i].tab \in Nat
      BY SlotFacts DEF SlotRec
    <3>2. QED
      BY <3>1, EncodedIsOne DEF FleetRec
  <2>3. G.slots = F.slots /\ DOMAIN G.hubs = DOMAIN F.hubs
    BY DEF SameSlots
  <2>4. \A l \in DOMAIN G.hubs :
          Open(G.hubs[l]) = {LocalOf(G.slots[i].tab) : i \in {j \in Live(G) : LaneOf(G.slots[j].tab) = l}}
    BY <1>1, <1>5, <2>1, <2>3 DEF HubsAgree
  <2>5. \A i \in Live(G) : G.hubs[LaneOf(G.slots[i].tab)].tabs[LocalOf(G.slots[i].tab)].site = G.slots[i].site
    BY <1>1, <1>5, <2>1, <2>2, <2>3 DEF HubsAgree
  <2>6. QED
    BY <2>4, <2>5 DEF HubsAgree
<1>6. ExpiryAgrees(F) => ExpiryAgrees(G)
  BY <1>1 DEF ExpiryAgrees, SameSlots
<1>7. (HotAgrees(F) => HotAgrees(G)) /\ (Sent(F) => Sent(G))
  BY <1>1 DEF HotAgrees, Sent, SameSlots
<1>8. \A j : (MadeFor(F, j) => MadeFor(G, j)) /\ (Numbered(F, j) => Numbered(G, j))
  BY <1>1 DEF MadeFor, Numbered, SameSlots
<1>9. QED
  BY <1>1, <1>2, <1>3, <1>4, <1>5, <1>6, <1>7, <1>8

-----------------------------------------------------------------------------
(* A tab that is still to come joins the site of its key. *)
LEMMA WithSiteStep ==
  ASSUME NEW F, F \in FleetRec, HubsGood(F), SitesAgree(F, {}), SitesTile(F.hubs[0]),
         VerdictsHome(F), NEW key \in Keys
  PROVE  LET G == WithSite(F, key)
         IN  /\ G \in FleetRec /\ HubsGood(G) /\ SameSlots(G, F)
             /\ SitesAgree(G, {key}) /\ SitesTile(G.hubs[0])
             /\ VerdictsHome(G)
<1> DEFINE G == WithSite(F, key)
<1>1. /\ F.hubs \in [0 .. Lanes - 1 -> HubRec] /\ DOMAIN F.hubs = 0 .. Lanes - 1 /\ 0 \in DOMAIN F.hubs
      /\ F.sites \subseteq [key : Keys, site : Nat, tabs : Nat]
      /\ F.calib \subseteq [site : Nat, key : Keys]
  BY FleetAssumption DEF FleetRec
<1>2. /\ \A e \in F.sites : e.tabs > 0 /\ e.site > 0 /\ e.tabs = Cardinality(OfKey(F, e.key))
      /\ \A i \in Live(F) : \E e \in F.sites : e.key = F.slots[i].key /\ e.site = F.slots[i].site
      /\ \A d, e \in F.sites : d # e => d.key # e.key /\ d.site # e.site
      /\ \A l \in DOMAIN F.hubs : Used(F.hubs[l]) = {e.site : e \in F.sites}
  <2>1. \A k \in Keys : Cardinality(OfKey(F, k)) \in Nat
    BY SlotFacts DEF OfKey
  <2>2. \A e \in F.sites : e.tabs = Cardinality(OfKey(F, e.key)) + 0
    BY DEF SitesAgree
  <2>3. \A e \in F.sites : e.tabs = Cardinality(OfKey(F, e.key))
    BY <1>1, <2>1, <2>2
  <2>4. QED
    BY <2>3 DEF SitesAgree
<1>3. \A k \in Keys : Cardinality(OfKey(F, k)) \in Nat
  BY SlotFacts DEF OfKey
<1>4. CASE SiteOf(F, key) # {}
  <2> DEFINE One(e) == IF e.key = key THEN [e EXCEPT !.tabs = @ + 1] ELSE e
             sites == {One(e) : e \in F.sites}
  <2>1. G = [F EXCEPT !.sites = sites]
    BY <1>4 DEF WithSite
  <2>2. \A e \in F.sites :
          /\ One(e) \in [key : Keys, site : Nat, tabs : Nat]
          /\ One(e).key = e.key /\ One(e).site = e.site
          /\ One(e).tabs = e.tabs + (IF e.key = key THEN 1 ELSE 0)
    <3> TAKE e \in F.sites
    <3>1. e \in [key : Keys, site : Nat, tabs : Nat] /\ e.tabs + 1 \in Nat
      BY <1>1
    <3>2. CASE e.key = key
      <4>1. One(e) = [e EXCEPT !.tabs = e.tabs + 1]
        BY <3>2
      <4> HIDE DEF One
      <4>2. QED
        BY <3>1, <3>2, <4>1
    <3>3. CASE e.key # key
      <4>1. One(e) = e /\ e.tabs + 0 = e.tabs
        BY <3>1, <3>3
      <4> HIDE DEF One
      <4>2. QED
        BY <3>1, <3>3, <4>1
    <3>4. QED
      BY <3>2, <3>3
  <2> HIDE DEF One, G
  <2>3. sites \subseteq [key : Keys, site : Nat, tabs : Nat]
    BY <2>2
  <2> HIDE DEF sites
  <2>4. /\ G \in FleetRec /\ G.sites = sites /\ G.hubs = F.hubs /\ G.calib = F.calib /\ SameSlots(G, F)
    BY <2>1, <2>3 DEF FleetRec, SameSlots, SameTabs
  <2>5. Live(G) = Live(F) /\ G.slots = F.slots /\ \A k : OfKey(G, k) = OfKey(F, k)
    BY <2>4, SameSlotsKeep DEF SameSlots
  <2>6. \A f \in sites : \E e \in F.sites : /\ f.key = e.key /\ f.site = e.site /\ f = One(e)
                                            /\ f.tabs = e.tabs + (IF e.key = key THEN 1 ELSE 0)
    BY <2>2 DEF sites
  <2>7. \A e \in F.sites : \E f \in sites : f.key = e.key /\ f.site = e.site
    BY <2>2 DEF sites
  <2>8. SitesAgree(G, {key})
    <3>1. \A f \in sites :
            /\ f.tabs > 0 /\ f.site > 0
            /\ f.tabs = Cardinality(OfKey(F, f.key)) + (IF f.key \in {key} THEN 1 ELSE 0)
      BY <1>1, <1>2, <1>3, <2>6
    <3>2. \E f \in sites : f.key = key
      BY <1>4, <2>7 DEF SiteOf
    <3>3. \A i \in Live(G) : \E f \in sites : f.key = G.slots[i].key /\ f.site = G.slots[i].site
      BY <1>2, <2>5, <2>7
    <3>4. \A c, d \in sites : c # d => c.key # d.key /\ c.site # d.site
      BY <1>2, <2>6
    <3>5. {f.site : f \in sites} = {e.site : e \in F.sites}
      BY <2>6, <2>7
    <3>6. QED
      BY <1>2, <2>4, <2>5, <3>1, <3>2, <3>3, <3>4, <3>5 DEF SitesAgree
  <2>9. VerdictsHome(G)
    BY <2>4, <2>6 DEF VerdictsHome
  <2>10. QED
    BY <2>4, <2>8, <2>9 DEF HubsGood, G
<1>5. CASE SiteOf(F, key) = {}
  <2> DEFINE s == FreeSite(F.hubs[0])
             hubs == [l \in DOMAIN F.hubs |-> RegisterShared(IF l = 0 THEN TakeSite(F.hubs[0]) ELSE F.hubs[l], s)]
             new == [key |-> key, site |-> s, tabs |-> 1]
             calib == {v \in F.calib : v.site # s}
  <2>1. G = [F EXCEPT !.hubs = hubs, !.sites = F.sites \cup {new}, !.calib = calib]
    BY <1>5 DEF WithSite
  <2>2. /\ s \in Nat \ {0} /\ s \notin Used(F.hubs[0])
        /\ HubGood(hubs[0]) /\ SameTabs(hubs[0], F.hubs[0])
        /\ Used(hubs[0]) = Used(F.hubs[0]) \cup {s}
        /\ SitesTile(hubs[0])
    <3>1. HubGood(F.hubs[0]) /\ F.hubs[0] \in HubRec
      BY <1>1 DEF HubsGood, HubGood
    <3>2. hubs[0] = RegisterShared(TakeSite(F.hubs[0]), s)
      BY <1>1
    <3> HIDE DEF hubs
    <3>3. /\ s \in Nat \ {0} /\ s \notin Used(F.hubs[0])
          /\ hubs[0] \in HubRec /\ SameTabs(hubs[0], F.hubs[0])
          /\ Used(hubs[0]) = Used(F.hubs[0]) \cup {s}
          /\ SitesTile(hubs[0])
      BY <1>1, <3>1, <3>2, HubHandsOut
    <3>4. QED
      BY <3>1, <3>3, SameTabsSameHub
  <2> HIDE DEF s
  <2>3. \A l \in DOMAIN F.hubs : /\ HubGood(hubs[l]) /\ SameTabs(hubs[l], F.hubs[l])
                                 /\ Used(hubs[l]) = Used(F.hubs[l]) \cup {s}
    <3> TAKE l \in DOMAIN F.hubs
    <3>1. CASE l = 0
      BY <2>2, <3>1
    <3>2. CASE l # 0
      <4>1. /\ HubGood(F.hubs[l]) /\ F.hubs[l] \in HubRec
            /\ hubs[l] = RegisterShared(F.hubs[l], s)
        BY <3>2 DEF HubsGood, HubGood
      <4> HIDE DEF hubs
      <4>2. QED
        BY <2>2, <4>1, HubRegisters, SameTabsSameHub
    <3>3. QED
      BY <3>1, <3>2
  <2>4. DOMAIN hubs = DOMAIN F.hubs /\ \A l \in DOMAIN F.hubs : hubs[l] \in HubRec
    BY <2>3 DEF HubGood
  <2>5. hubs \in [0 .. Lanes - 1 -> HubRec]
    BY <1>1, <2>4
  <2>6. new \in [key : Keys, site : Nat, tabs : Nat] /\ new.key = key /\ new.site = s /\ new.tabs = 1
    BY <2>2
  <2> HIDE DEF hubs, new, G
  <2>7. /\ G \in FleetRec /\ G.sites = F.sites \cup {new} /\ G.hubs = hubs /\ G.calib = calib
        /\ SameSlots(G, F)
    <3> DEFINE sites == F.sites \cup {new}
    <3>1. calib \in SUBSET [site : Nat, key : Keys]
      BY <1>1 DEF FleetRec
    <3>2. sites \in SUBSET [key : Keys, site : Nat, tabs : Nat]
      BY <1>1, <2>6 DEF FleetRec
    <3>3. G = SitesWrittenIn(F, hubs, sites, calib)
      BY <2>1 DEF SitesWrittenIn
    <3> HIDE DEF calib, sites
    <3>4. /\ G \in FleetRec /\ G.sites = sites /\ G.hubs = hubs /\ G.calib = calib
          /\ SameSlots(G, F)
      <4>1. F \in FleetRec /\ \A l \in 0 .. Lanes - 1 : SameTabs(hubs[l], F.hubs[l])
        BY <1>1, <2>3
      <4>2. LET H == SitesWrittenIn(F, hubs, sites, calib)
            IN  /\ H \in FleetRec /\ H.sites = sites /\ H.hubs = hubs /\ H.calib = calib
                /\ SameSlots(H, F)
        BY <2>5, <3>1, <3>2, <4>1, SitesWritten, Zenon
      <4>3. QED
        BY <3>3, <4>2
    <3>5. QED
      BY <3>4 DEF sites
  <2>8. Live(G) = Live(F) /\ G.slots = F.slots /\ \A k : OfKey(G, k) = OfKey(F, k)
    BY <2>7, SameSlotsKeep DEF SameSlots
  <2>9. \A e \in F.sites : e.key # key /\ e.site # s
    <3>1. \A e \in F.sites : e.key # key
      BY <1>5 DEF SiteOf
    <3>2. \A e \in F.sites : e.site \in Used(F.hubs[0])
      BY <1>1, <1>2
    <3>3. QED
      BY <2>2, <3>1, <3>2
  <2>10. OfKey(F, key) = {} /\ Cardinality(OfKey(F, key)) = 0
    <3>1. OfKey(F, key) = {}
      BY <1>2, <2>9 DEF OfKey
    <3>2. QED
      BY <3>1, FS_EmptySet
  <2>11. SitesAgree(G, {key})
    <3>1. \A f \in F.sites \cup {new} :
            /\ f.tabs > 0 /\ f.site > 0
            /\ f.tabs = Cardinality(OfKey(F, f.key)) + (IF f.key \in {key} THEN 1 ELSE 0)
      <4>1. ASSUME NEW f \in F.sites
            PROVE  /\ f.tabs > 0 /\ f.site > 0 /\ f.key \notin {key}
                   /\ f.tabs = Cardinality(OfKey(F, f.key)) + 0
        BY <1>1, <1>2, <1>3, <2>9
      <4>2. new.tabs > 0 /\ new.site > 0 /\ new.tabs = Cardinality(OfKey(F, new.key)) + 1
        BY <2>2, <2>6, <2>10
      <4>3. QED
        BY <2>6, <4>1, <4>2
    <3>2. \A c, d \in F.sites \cup {new} : c # d => c.key # d.key /\ c.site # d.site
      BY <1>2, <2>6, <2>9
    <3>3. \A l \in DOMAIN G.hubs : Used(G.hubs[l]) = {f.site : f \in G.sites}
      BY <1>2, <2>3, <2>4, <2>6, <2>7
    <3>4. QED
      BY <1>2, <2>6, <2>7, <2>8, <3>1, <3>2, <3>3 DEF SitesAgree
  <2>12. VerdictsHome(G)
    BY <2>6, <2>7 DEF VerdictsHome
  <2>13. QED
    BY <2>2, <2>3, <2>4, <2>7, <2>11, <2>12 DEF HubsGood, G
<1>6. QED
  BY <1>4, <1>5

(* A tab that has lost its slot leaves the site of its key. *)
LEMMA WithoutSiteStep ==
  ASSUME NEW F, F \in FleetRec, HubsGood(F), HubsAgree(F), NEW key \in Keys,
         SitesAgree(F, {key}), SitesTile(F.hubs[0]), VerdictsHome(F)
  PROVE  LET G == WithoutSite(F, key)
         IN  /\ G \in FleetRec /\ HubsGood(G) /\ SameSlots(G, F)
             /\ SitesAgree(G, {}) /\ SitesTile(G.hubs[0])
             /\ VerdictsHome(G)
<1> DEFINE SiteRec == [key : Keys, site : Nat, tabs : Nat]
           gone == {e \in F.sites : e.key = key /\ e.tabs = 1}
           One(e) == [e EXCEPT !.tabs = IF e.key = key THEN @ - 1 ELSE @]
           sites == {One(e) : e \in F.sites \ gone}
           s == (CHOOSE e \in gone : TRUE).site
           hubs == IF gone = {} THEN F.hubs ELSE [l \in DOMAIN F.hubs |-> UnregisterSite(F.hubs[l], s)]
           G == WithoutSite(F, key)
<1>1. /\ F.hubs \in [0 .. Lanes - 1 -> HubRec] /\ DOMAIN F.hubs = 0 .. Lanes - 1 /\ 0 \in DOMAIN F.hubs
      /\ F.sites \subseteq SiteRec
      /\ F.calib \subseteq [site : Nat, key : Keys]
  BY FleetAssumption DEF FleetRec
<1>2. /\ \A e \in F.sites : /\ e.tabs > 0 /\ e.site > 0
                            /\ e.tabs = Cardinality(OfKey(F, e.key)) + (IF e.key = key THEN 1 ELSE 0)
      /\ \E e \in F.sites : e.key = key
      /\ \A i \in Live(F) : \E e \in F.sites : e.key = F.slots[i].key /\ e.site = F.slots[i].site
      /\ \A d, e \in F.sites : d # e => d.key # e.key /\ d.site # e.site
      /\ \A l \in DOMAIN F.hubs : Used(F.hubs[l]) = {e.site : e \in F.sites}
  BY DEF SitesAgree
<1>3. \A k \in Keys : OfKey(F, k) \in SUBSET Live(F) /\ Cardinality(OfKey(F, k)) \in Nat
  BY SlotFacts DEF OfKey
<1>4. G = [F EXCEPT !.sites = sites, !.hubs = hubs]
  BY DEF WithoutSite
<1> HIDE DEF G
<1>5. \A e \in F.sites \ gone :
        /\ One(e) \in SiteRec /\ One(e).key = e.key /\ One(e).site = e.site
        /\ One(e).tabs > 0 /\ One(e).tabs = Cardinality(OfKey(F, e.key))
  <2> TAKE e \in F.sites \ gone
  <2>1. e \in SiteRec /\ e.tabs > 0 /\ Cardinality(OfKey(F, e.key)) \in Nat
    BY <1>1, <1>2, <1>3
  <2>2. CASE e.key = key
    <3>1. e.tabs # 1 /\ e.tabs - 1 \in Nat /\ e.tabs - 1 > 0 /\ e.tabs - 1 = Cardinality(OfKey(F, e.key))
      BY <1>2, <2>1, <2>2
    <3>2. One(e) = [e EXCEPT !.tabs = e.tabs - 1]
      BY <2>2
    <3> HIDE DEF One
    <3>3. QED
      BY <2>1, <3>1, <3>2
  <2>3. CASE e.key # key
    <3>1. One(e) = [e EXCEPT !.tabs = e.tabs]
      BY <2>3
    <3>2. e.tabs = Cardinality(OfKey(F, e.key))
      BY <1>2, <2>1, <2>3
    <3> HIDE DEF One
    <3>3. QED
      BY <2>1, <3>1, <3>2
  <2>4. QED
    BY <2>2, <2>3
<1> HIDE DEF One
<1>6. sites \subseteq SiteRec
  BY <1>5
<1>7. \A l \in DOMAIN F.hubs : /\ HubGood(hubs[l]) /\ SameTabs(hubs[l], F.hubs[l])
                               /\ Used(hubs[l]) = {e.site : e \in F.sites \ gone}
                               /\ SitesTile(F.hubs[l]) => SitesTile(hubs[l])
  <2>1. CASE gone = {}
    BY <1>2, <2>1 DEF HubsGood, SameTabs
  <2>2. CASE gone # {}
    <3>1. PICK e \in gone : s = e.site
      BY <2>2
    <3>2. e \in F.sites /\ e.key = key /\ e.tabs = 1 /\ s > 0 /\ s \in Nat
      BY <1>1, <1>2, <3>1
    <3>3. gone = {e}
      BY <1>2, <3>2
    <3>4. OfKey(F, key) = {}
      <4>1. Cardinality(OfKey(F, key)) = 0 /\ IsFiniteSet(OfKey(F, key))
        BY <1>2, <1>3, <3>2, SlotFacts
      <4>2. QED
        BY <4>1, FS_EmptySet
    <3>5. ASSUME NEW l \in DOMAIN F.hubs, NEW t \in DOMAIN F.hubs[l].tabs
          PROVE  F.hubs[l].tabs[t].site # s
      <4>1. CASE t \notin Open(F.hubs[l])
        BY <3>2, <4>1 DEF Open, NoSite
      <4>2. CASE t \in Open(F.hubs[l])
        <5>1. PICK i \in Live(F) : LaneOf(F.slots[i].tab) = l /\ t = LocalOf(F.slots[i].tab)
          BY <4>2 DEF HubsAgree
        <5>2. F.hubs[l].tabs[t].site = F.slots[i].site
          BY <5>1 DEF HubsAgree
        <5>3. F.slots[i].key # key
          BY <3>4 DEF OfKey
        <5>4. PICK f \in F.sites : f.key = F.slots[i].key /\ f.site = F.slots[i].site
          BY <1>2
        <5>5. QED
          BY <1>2, <3>1, <3>2, <5>2, <5>3, <5>4
      <4>3. QED
        BY <4>1, <4>2
    <3>6. \A l \in DOMAIN F.hubs : /\ HubGood(F.hubs[l]) /\ F.hubs[l] \in HubRec
                                   /\ s \in Used(F.hubs[l])
      BY ZenonT(40), <1>2, <3>1, <3>2 DEF HubsGood, HubGood
    <3>7. \A l \in DOMAIN F.hubs : hubs[l] = UnregisterSite(F.hubs[l], s)
      BY <2>2
    <3> HIDE DEF hubs, s
    <3>8. \A l \in DOMAIN F.hubs : /\ HubGood(hubs[l]) /\ SameTabs(hubs[l], F.hubs[l])
                                   /\ Used(hubs[l]) = Used(F.hubs[l]) \ {s}
                                   /\ SitesTile(F.hubs[l]) => SitesTile(hubs[l])
      BY <3>5, <3>6, <3>7, HubUnregisters, SameTabsSameHub
    <3>9. {f.site : f \in F.sites} \ {s} = {f.site : f \in F.sites \ gone}
      BY <1>2, <3>1, <3>2, <3>3
    <3>10. QED
      BY <1>2, <3>8, <3>9
  <2>3. QED
    BY <2>1, <2>2
<1>8. DOMAIN hubs = DOMAIN F.hubs /\ \A l \in DOMAIN F.hubs : hubs[l] \in HubRec
  BY <1>7 DEF HubGood
<1>9. hubs \in [0 .. Lanes - 1 -> HubRec]
  <2>1. hubs = [l \in DOMAIN F.hubs |-> hubs[l]]
    BY <1>1
  <2>2. QED
    BY <1>1, <1>8, <2>1
<1> HIDE DEF hubs, sites
<1>10. /\ G \in FleetRec /\ G.sites = sites /\ G.hubs = hubs /\ G.calib = F.calib /\ SameSlots(G, F)
  BY <1>4, <1>6, <1>7, <1>8, <1>9 DEF FleetRec, SameSlots
<1>11. Live(G) = Live(F) /\ G.slots = F.slots /\ \A k : OfKey(G, k) = OfKey(F, k)
  BY <1>10, SameSlotsKeep DEF SameSlots
<1>12. \A f \in sites : \E e \in F.sites \ gone : /\ f = One(e) /\ f.key = e.key /\ f.site = e.site
                                                  /\ f.tabs > 0 /\ f.tabs = Cardinality(OfKey(F, e.key))
  BY <1>5 DEF sites
<1>13. \A e \in F.sites \ gone : \E f \in sites : f.key = e.key /\ f.site = e.site
  BY <1>5 DEF sites
<1>14. SitesAgree(G, {})
  <2>1. \A f \in sites : /\ f.tabs > 0 /\ f.site > 0
                         /\ f.tabs = Cardinality(OfKey(G, f.key)) + (IF f.key \in {} THEN 1 ELSE 0)
    <3> TAKE f \in sites
    <3>1. f.tabs > 0 /\ f.site > 0 /\ f.tabs = Cardinality(OfKey(G, f.key)) /\ f.key \in Keys
      BY <1>1, <1>2, <1>11, <1>12
    <3>2. Cardinality(OfKey(G, f.key)) \in Nat
      BY <1>3, <1>11, <3>1
    <3>3. QED
      BY <3>1, <3>2
  <2>2. \A i \in Live(G) : \E f \in sites : f.key = G.slots[i].key /\ f.site = G.slots[i].site
    <3> TAKE i \in Live(G)
    <3>1. PICK e \in F.sites : e.key = F.slots[i].key /\ e.site = F.slots[i].site
      BY <1>2, <1>11
    <3>2. e \notin gone
      <4>1. ASSUME e \in gone
            PROVE  FALSE
        <5>1. i \in OfKey(F, key) /\ Cardinality(OfKey(F, key)) = 0
          BY <1>2, <1>3, <1>11, <3>1, <4>1 DEF OfKey
        <5>2. IsFiniteSet(OfKey(F, key))
          BY <1>3, SlotFacts
        <5>3. QED
          BY <5>1, <5>2, FS_EmptySet
      <4>2. QED
        BY <4>1
    <3>3. QED
      BY <1>11, <1>13, <3>1, <3>2
  <2>3. \A c, d \in sites : c # d => c.key # d.key /\ c.site # d.site
    BY <1>2, <1>12
  <2>4. {f.site : f \in sites} = {e.site : e \in F.sites \ gone}
    BY <1>12, <1>13
  <2>5. \A l \in DOMAIN G.hubs : Used(G.hubs[l]) = {f.site : f \in G.sites}
    BY <1>7, <1>8, <1>10, <2>4
  <2>6. QED
    BY <1>10, <2>1, <2>2, <2>3, <2>5 DEF SitesAgree
<1>15. VerdictsHome(G)
  BY <1>10, <1>12 DEF VerdictsHome
<1>16. HubsGood(G) /\ SitesTile(G.hubs[0])
  BY <1>1, <1>7, <1>8, <1>10 DEF HubsGood
<1>17. QED
  BY <1>10, <1>14, <1>15, <1>16 DEF G

-----------------------------------------------------------------------------
(* A tab is entered: what becomes of each field. *)
Fits(F) == F.live < MaxTabs /\ F.next < MaxHandle

EntersAs(F, G, key, site, lane) ==
  LET i == SlotToUse(F)
      t == NextTab(F.hubs[lane])
  IN  /\ G \in FleetRec /\ HubsGood(G)
      /\ i \in 1 .. MaxTabs /\ i \notin Live(F)
      /\ t \in Nat /\ t \notin Open(F.hubs[lane])
      /\ DOMAIN G.slots = DOMAIN F.slots \cup {i} /\ Len(G.slots) <= MaxTabs
      /\ G.slots[i] \in SlotRec
      /\ G.slots[i].handle = F.next /\ G.slots[i].key = key /\ G.slots[i].site = site
      /\ G.slots[i].tab = Encoded(lane, t)
      /\ G.slots[i].scratch = 0 /\ G.slots[i].events = 0 /\ G.slots[i].sent = 0
      /\ G.slots[i].batches = 0 /\ G.slots[i].jar = {}
      /\ \A j \in DOMAIN F.slots : j # i => G.slots[j] = F.slots[j]
      /\ Members(G.free) = Members(F.free) \ {i} /\ Once(G.free)
      /\ G.tabs = F.tabs \cup {[tab |-> Encoded(lane, t), idx |-> i]}
      /\ G.handles = F.handles \cup {[handle |-> F.next, idx |-> i]}
      /\ G.expiry = F.expiry \cup {[at |-> now + Ttl, idx |-> i, handle |-> F.next]}
      /\ G.live = F.live + 1 /\ G.next = F.next + 1
      /\ G.hot = F.hot /\ G.sites = F.sites /\ G.calib = F.calib
      /\ DOMAIN G.hubs = DOMAIN F.hubs
      /\ Open(G.hubs[lane]) = Open(F.hubs[lane]) \cup {t}
      /\ G.hubs[lane].tabs[t].site = site
      /\ \A u \in Open(F.hubs[lane]) : G.hubs[lane].tabs[u].site = F.hubs[lane].tabs[u].site
      /\ \A l \in DOMAIN F.hubs : SameSites(G.hubs[l], F.hubs[l])
      /\ \A l \in DOMAIN F.hubs : l # lane => G.hubs[l] = F.hubs[l]

LEMMA EnteredFields ==
  ASSUME NEW F, F \in FleetRec, HubsGood(F), SlotsAgree(F), SlotsTile(F), Fits(F), now \in Nat,
         NEW key \in Keys, NEW site \in Nat \ {0}, NEW lane \in DOMAIN F.hubs
  PROVE  EntersAs(F, Entered(F, key, site, lane), key, site, lane)
<1> DEFINE h == F.next
           t == NextTab(F.hubs[lane])
           i == SlotToUse(F)
           slot == [handle |-> h, key |-> key, site |-> site, tab |-> Encoded(lane, t),
                    scratch |-> 0, started |-> 0, events |-> 0, sent |-> 0, batches |-> 0, jar |-> {}]
           laneHub == SetInput(OpenTab(F.hubs[lane], site), t, now)
           hubs == [F.hubs EXCEPT ![lane] = laneHub]
           slots == IF F.free # <<>> THEN [F.slots EXCEPT ![i] = slot] ELSE Append(F.slots, slot)
           free == IF F.free # <<>> THEN Popped(F.free) ELSE F.free
           AllSlots == SlotRec \cup {NoSlot}
           G == Entered(F, key, site, lane)
<1>1. /\ F.slots \in Seq(AllSlots) /\ F.free \in Seq(Nat) /\ F.next \in Nat /\ F.live \in Nat
      /\ F.hubs \in [0 .. Lanes - 1 -> HubRec] /\ lane \in 0 .. Lanes - 1 /\ MaxTabs \in Nat
      /\ F.handles \subseteq [handle : Nat, idx : Nat] /\ F.tabs \subseteq [tab : Nat, idx : Nat]
      /\ F.expiry \subseteq [at : Nat, idx : Nat, handle : HandleNumbers]
      /\ now + Ttl \in Nat /\ h \in HandleNumbers
  <2>1. MaxTabs \in Nat /\ Ttl \in Nat
    BY FleetAssumption
  <2>2. /\ F.slots \in Seq(AllSlots) /\ F.free \in Seq(Nat) /\ F.next \in Nat /\ F.live \in Nat
        /\ F.hubs \in [0 .. Lanes - 1 -> HubRec]
        /\ F.handles \subseteq [handle : Nat, idx : Nat] /\ F.tabs \subseteq [tab : Nat, idx : Nat]
        /\ F.expiry \subseteq [at : Nat, idx : Nat, handle : HandleNumbers]
    BY DEF FleetRec
  <2>3. h \in HandleNumbers
    BY <2>2 DEF Fits, HandleNumbers
  <2>4. lane \in 0 .. Lanes - 1
    BY DEF FleetRec
  <2>5. now + Ttl \in Nat
    BY <2>1
  <2> HIDE DEF AllSlots
  <2>6. QED
    BY <2>1, <2>2, <2>3, <2>4, <2>5
<1>2. /\ Len(F.slots) \in Nat /\ DOMAIN F.slots = 1 .. Len(F.slots) /\ Live(F) \subseteq DOMAIN F.slots
      /\ Members(F.free) = DOMAIN F.slots \ Live(F) /\ Once(F.free)
      /\ F.live = Cardinality(Live(F)) /\ Len(F.slots) <= MaxTabs
  BY SlotFacts DEF SlotsTile, Members, Once
<1>3. /\ HubGood(laneHub) /\ SameSites(laneHub, F.hubs[lane])
      /\ t \in Nat /\ t \notin Open(F.hubs[lane])
      /\ Open(laneHub) = Open(F.hubs[lane]) \cup {t}
      /\ laneHub.tabs[t].site = site
      /\ \A u \in Open(F.hubs[lane]) : laneHub.tabs[u].site = F.hubs[lane].tabs[u].site
  <2> DEFINE old == F.hubs[lane]
  <2>1. HubGood(old)
    BY DEF HubsGood
  <2> HIDE DEF old
  <2> DEFINE new == SetInput(OpenTab(old, site), NextTab(old), now)
  <2>2. OpensAs(old, new, NextTab(old), site)
    BY <2>1, HubOpens
  <2>3. laneHub = new /\ t = NextTab(old)
    BY DEF old
  <2> HIDE DEF new
  <2>4. QED
    BY <2>2, <2>3 DEF OpensAs, old
<1>4. G = [F EXCEPT !.hubs = hubs, !.slots = slots, !.free = free,
                    !.tabs = F.tabs \cup {[tab |-> slot.tab, idx |-> i]},
                    !.handles = F.handles \cup {[handle |-> h, idx |-> i]},
                    !.expiry = F.expiry \cup {[at |-> now + Ttl, idx |-> i, handle |-> h]},
                    !.live = F.live + 1,
                    !.next = F.next + 1]
  BY DEF Entered, NewHandle, Tracked
<1> HIDE DEF t, i, laneHub
<1>5. /\ slot.handle = h /\ slot.key = key /\ slot.site = site /\ slot.tab = Encoded(lane, t)
      /\ slot.scratch = 0 /\ slot.events = 0 /\ slot.sent = 0
      /\ slot.batches = 0 /\ slot.jar = {} /\ slot \in SlotRec
  BY <1>1, <1>3, EncodedIsFound DEF SlotRec
<1> HIDE DEF slot
<1>6. /\ slots \in Seq(AllSlots) /\ free \in Seq(Nat)
      /\ i \in 1 .. MaxTabs /\ i \notin Live(F)
      /\ DOMAIN slots = DOMAIN F.slots \cup {i} /\ Len(slots) <= MaxTabs
      /\ slots[i] = slot /\ \A j \in DOMAIN F.slots : j # i => slots[j] = F.slots[j]
      /\ Members(free) = Members(F.free) \ {i} /\ Once(free)
  <2>1. CASE F.free # <<>>
    <3>1. i = Top(F.free) /\ i \in DOMAIN F.slots /\ i \notin Live(F)
      BY <1>1, <1>2, <2>1, PopOnce DEF SlotToUse, i
    <3>2. Popped(F.free) \in Seq(Nat) /\ Once(Popped(F.free)) /\ Members(Popped(F.free)) = Members(F.free) \ {i}
      BY <1>1, <1>2, <2>1, <3>1, PopOnce
    <3>3. slots = [F.slots EXCEPT ![i] = slot] /\ free = Popped(F.free)
      BY <2>1
    <3>4. slots \in Seq(AllSlots) /\ Len(slots) = Len(F.slots)
      <4>1. slot \in AllSlots
        BY <1>5
      <4> HIDE DEF AllSlots
      <4>2. QED
        BY <1>1, <3>1, <3>3, <4>1, ExceptSeq
    <3>5. /\ DOMAIN slots = DOMAIN F.slots /\ slots[i] = slot
          /\ \A j \in DOMAIN F.slots : j # i => slots[j] = F.slots[j]
      BY <3>1, <3>3, UpdatedAt
    <3> HIDE DEF slots, free, slot
    <3>6. Len(slots) <= MaxTabs /\ DOMAIN slots = DOMAIN F.slots \cup {i}
      BY <1>2, <3>1, <3>4, <3>5
    <3>7. i \in 1 .. MaxTabs
      BY <1>1, <1>2, <3>1
    <3>8. QED
      BY <3>1, <3>2, <3>3, <3>4, <3>5, <3>6, <3>7
  <2>2. CASE F.free = <<>>
    <3>1. i = Len(F.slots) + 1 /\ slots = Append(F.slots, slot) /\ free = F.free
      BY <2>2 DEF SlotToUse, i
    <3>2. Members(F.free) = {}
      BY <2>2 DEF Members
    <3>3. Live(F) = 1 .. Len(F.slots)
      BY <1>2, <3>2
    <3>4. Cardinality(1 .. Len(F.slots)) = Len(F.slots)
      <4>1. Len(F.slots) \in Nat
        BY <1>2
      <4>2. QED
        BY <4>1, FS_Interval
    <3>5. Len(F.slots) + 1 <= MaxTabs
      BY <1>1, <1>2, <3>3, <3>4 DEF Fits
    <3> HIDE DEF slots, free
    <3>6. /\ slots \in Seq(AllSlots) /\ Len(slots) = Len(F.slots) + 1
          /\ \A j \in 1 .. Len(F.slots) : slots[j] = F.slots[j]
          /\ slots[Len(F.slots) + 1] = slot
      BY <1>1, <1>5, <3>1, AppendProperties
    <3>7. DOMAIN slots = 1 .. Len(F.slots) + 1
      BY <3>6
    <3>8. QED
      BY <1>1, <1>2, <3>1, <3>2, <3>3, <3>5, <3>6, <3>7
  <2>3. QED
    BY <2>1, <2>2
<1>7. hubs \in [0 .. Lanes - 1 -> HubRec]
  BY <1>1, <1>3 DEF HubGood
<1>8. /\ DOMAIN hubs = DOMAIN F.hubs /\ hubs[lane] = laneHub
      /\ \A l \in DOMAIN F.hubs : l # lane => hubs[l] = F.hubs[l]
  BY <1>1
<1>9. i \in Nat /\ Encoded(lane, t) \in Nat
  BY <1>1, <1>3, <1>6, EncodedIsFound
<1> HIDE DEF hubs, slots, free, G
<1>10. /\ G.hubs = hubs /\ G.slots = slots /\ G.free = free
       /\ G.tabs = F.tabs \cup {[tab |-> slot.tab, idx |-> i]}
       /\ G.handles = F.handles \cup {[handle |-> h, idx |-> i]}
       /\ G.expiry = F.expiry \cup {[at |-> now + Ttl, idx |-> i, handle |-> h]}
       /\ G.live = F.live + 1 /\ G.next = F.next + 1
       /\ G.hot = F.hot /\ G.sites = F.sites /\ G.calib = F.calib
  BY <1>4 DEF FleetRec
<1>11. G \in FleetRec
  <2>1. slot.tab \in Nat /\ h \in Nat
    BY <1>1, <1>5, <1>9 DEF HandleNumbers
  <2>2. F.tabs \cup {[tab |-> slot.tab, idx |-> i]} \subseteq [tab : Nat, idx : Nat]
    BY <1>1, <1>9, <2>1
  <2>3. F.handles \cup {[handle |-> h, idx |-> i]} \subseteq [handle : Nat, idx : Nat]
    BY <1>1, <1>9, <2>1
  <2>4. F.expiry \cup {[at |-> now + Ttl, idx |-> i, handle |-> h]}
          \subseteq [at : Nat, idx : Nat, handle : HandleNumbers]
    BY <1>1, <1>9
  <2>5. F.live + 1 \in Nat /\ F.next + 1 \in Nat
    BY <1>1
  <2>6. QED
    BY <1>4, <1>6, <1>7, <2>2, <2>3, <2>4, <2>5 DEF FleetRec
<1>12. HubsGood(G)
  BY <1>3, <1>8, <1>10 DEF HubsGood
<1>13. \A l \in DOMAIN F.hubs : SameSites(G.hubs[l], F.hubs[l])
  BY <1>3, <1>8, <1>10 DEF SameSites
<1>14. QED
  BY <1>3, <1>5, <1>6, <1>8, <1>10, <1>11, <1>12, <1>13 DEF G, i, t, EntersAs

LEMMA EnteredTables ==
  ASSUME NEW F, F \in FleetRec, HubsGood(F), SlotsAgree(F), SlotsTile(F), HubsAgree(F),
         Fits(F), now \in Nat,
         NEW key \in Keys, NEW e \in F.sites, e.key = key, SitesAgree(F, {key}), SitesTile(F.hubs[0]),
         ExpiryAgrees(F), HotAgrees(F), NEW lane \in DOMAIN F.hubs
  PROVE  LET G == Entered(F, key, e.site, lane)
         IN  TablesInv(G) /\ ExpiryAgrees(G) /\ Live(G) = Live(F) \cup {SlotToUse(F)}
<1> DEFINE site == e.site
           G == Entered(F, key, site, lane)
           i == SlotToUse(F)
           t == NextTab(F.hubs[lane])
           number == Encoded(lane, t)
<1>1. site \in Nat \ {0}
  BY DEF FleetRec, SitesAgree
<1>2. /\ G \in FleetRec /\ HubsGood(G)
      /\ i \in 1 .. MaxTabs /\ i \notin Live(F)
      /\ t \in Nat /\ t \notin Open(F.hubs[lane])
      /\ DOMAIN G.slots = DOMAIN F.slots \cup {i} /\ Len(G.slots) <= MaxTabs
      /\ G.slots[i] \in SlotRec
      /\ G.slots[i].handle = F.next /\ G.slots[i].key = key /\ G.slots[i].site = site
      /\ G.slots[i].tab = number
      /\ G.slots[i].scratch = 0
      /\ \A j \in DOMAIN F.slots : j # i => G.slots[j] = F.slots[j]
      /\ Members(G.free) = Members(F.free) \ {i} /\ Once(G.free)
      /\ G.tabs = F.tabs \cup {[tab |-> number, idx |-> i]}
      /\ G.handles = F.handles \cup {[handle |-> F.next, idx |-> i]}
      /\ G.expiry = F.expiry \cup {[at |-> now + Ttl, idx |-> i, handle |-> F.next]}
      /\ G.live = F.live + 1 /\ G.next = F.next + 1
      /\ G.hot = F.hot /\ G.sites = F.sites /\ G.calib = F.calib
      /\ DOMAIN G.hubs = DOMAIN F.hubs
      /\ Open(G.hubs[lane]) = Open(F.hubs[lane]) \cup {t}
      /\ G.hubs[lane].tabs[t].site = site
      /\ \A u \in Open(F.hubs[lane]) : G.hubs[lane].tabs[u].site = F.hubs[lane].tabs[u].site
      /\ \A l \in DOMAIN F.hubs : SameSites(G.hubs[l], F.hubs[l])
      /\ \A l \in DOMAIN F.hubs : l # lane => G.hubs[l] = F.hubs[l]
  <2>1. EntersAs(F, G, key, site, lane)
    BY <1>1, EnteredFields
  <2> HIDE DEF G
  <2>2. QED
    BY <2>1 DEF EntersAs
<1> HIDE DEF G, i, t, number, site
<1>3. /\ Len(F.slots) \in Nat /\ DOMAIN F.slots = 1 .. Len(F.slots) /\ Live(F) \subseteq DOMAIN F.slots
      /\ IsFiniteSet(Live(F)) /\ Cardinality(Live(F)) \in Nat
      /\ \A j \in Live(F) : F.slots[j] \in SlotRec
      /\ \A S \in SUBSET Live(F) : IsFiniteSet(S) /\ Cardinality(S) \in Nat
  BY SlotFacts
<1>4. Live(G) = Live(F) \cup {i}
  BY <1>2, <1>3, EmptySlot DEF Live
<1>5. \A j \in Live(F) : j # i /\ G.slots[j] = F.slots[j]
  BY <1>2, <1>3
<1>6. lane \in 0 .. Lanes - 1 /\ DOMAIN F.hubs = 0 .. Lanes - 1 /\ F.next \in Nat /\ F.live \in Nat
  BY DEF FleetRec
<1>7. LaneOf(number) = lane /\ LocalOf(number) = t /\ number \in Nat
  BY <1>2, <1>6, EncodedIsFound DEF number
<1>8. \A j \in Live(F) : F.slots[j].tab \in Nat /\ F.slots[j].tab # number
  <2> TAKE j \in Live(F)
  <2>1. F.slots[j].tab \in Nat
    BY <1>3 DEF SlotRec
  <2>2. ASSUME F.slots[j].tab = number
        PROVE  t \in Open(F.hubs[lane])
    BY <1>7, <2>2 DEF HubsAgree
  <2>3. QED
    BY <1>2, <2>1, <2>2
<1>9. SlotsAgree(G)
  <2>1. /\ F.handles = {[handle |-> F.slots[j].handle, idx |-> j] : j \in Live(F)}
        /\ F.tabs = {[tab |-> F.slots[j].tab, idx |-> j] : j \in Live(F)}
        /\ \A j \in Live(F) : F.slots[j].handle < F.next
        /\ \A j, k \in Live(F) : j # k => /\ F.slots[j].handle # F.slots[k].handle
                                          /\ F.slots[j].tab # F.slots[k].tab
    BY DEF SlotsAgree
  <2>2. \A j \in Live(F) : F.slots[j].handle \in Nat
    BY <1>3 DEF SlotRec, HandleNumbers
  <2>3. G.handles = {[handle |-> G.slots[j].handle, idx |-> j] : j \in Live(G)}
    BY <1>2, <1>4, <1>5, <2>1
  <2>4. G.tabs = {[tab |-> G.slots[j].tab, idx |-> j] : j \in Live(G)}
    BY <1>2, <1>4, <1>5, <2>1
  <2>5. \A j \in Live(G) : G.slots[j].handle < G.next
    BY <1>2, <1>4, <1>5, <1>6, <2>1, <2>2
  <2>6. \A j \in Live(F) : F.slots[j].handle # F.next
    BY <1>6, <2>1, <2>2
  <2>7. \A j, k \in Live(G) : j # k => /\ G.slots[j].handle # G.slots[k].handle
                                       /\ G.slots[j].tab # G.slots[k].tab
    BY <1>2, <1>4, <1>5, <1>8, <2>1, <2>6
  <2>8. G.next <= MaxHandle
    BY <1>2, <1>6, FleetAssumption DEF Fits
  <2>9. QED
    BY <2>3, <2>4, <2>5, <2>7, <2>8 DEF SlotsAgree
<1>10. SlotsTile(G)
  <2>1. Members(F.free) = DOMAIN F.slots \ Live(F) /\ F.live = Cardinality(Live(F))
    BY DEF SlotsTile, Members
  <2>2. Cardinality(Live(G)) = Cardinality(Live(F)) + 1
    <3>1. i \notin Live(F)
      BY <1>2
    <3>2. Cardinality(Live(F) \cup {i}) = Cardinality(Live(F)) + 1
      BY <1>3, <3>1, FS_AddElement
    <3>3. QED
      BY <1>4, <3>2
  <2>3. Members(G.free) = DOMAIN G.slots \ Live(G)
    BY <1>2, <1>4, <2>1
  <2>4. G.live <= MaxTabs
    BY <1>2, <1>6, FleetAssumption DEF Fits
  <2>5. QED
    BY <1>2, <2>1, <2>2, <2>3, <2>4 DEF SlotsTile, Members, Once
<1>11. HubsAgree(G)
  <2>1. ASSUME NEW l \in DOMAIN F.hubs
        PROVE  Open(G.hubs[l]) = {LocalOf(G.slots[j].tab) : j \in {k \in Live(G) : LaneOf(G.slots[k].tab) = l}}
    <3>1. Open(F.hubs[l]) = {LocalOf(F.slots[j].tab) : j \in {k \in Live(F) : LaneOf(F.slots[k].tab) = l}}
      BY DEF HubsAgree
    <3>2. CASE l = lane
      <4>1. {k \in Live(G) : LaneOf(G.slots[k].tab) = l} = {k \in Live(F) : LaneOf(F.slots[k].tab) = l} \cup {i}
        BY <1>2, <1>4, <1>5, <1>7, <3>2
      <4>2. LocalOf(G.slots[i].tab) = t
        BY <1>2, <1>7
      <4>3. QED
        BY <1>2, <1>5, <3>1, <3>2, <4>1, <4>2
    <3>3. CASE l # lane
      <4>1. {k \in Live(G) : LaneOf(G.slots[k].tab) = l} = {k \in Live(F) : LaneOf(F.slots[k].tab) = l}
        BY <1>2, <1>4, <1>5, <1>7, <3>3
      <4>2. QED
        BY <1>2, <1>5, <3>1, <3>3, <4>1
    <3>4. QED
      BY <3>2, <3>3
  <2>2. ASSUME NEW j \in Live(G)
        PROVE  G.hubs[LaneOf(G.slots[j].tab)].tabs[LocalOf(G.slots[j].tab)].site = G.slots[j].site
    <3>1. CASE j = i
      BY <1>2, <1>7, <3>1
    <3>2. CASE j \in Live(F)
      <4>1. F.hubs[LaneOf(F.slots[j].tab)].tabs[LocalOf(F.slots[j].tab)].site = F.slots[j].site
        BY <3>2 DEF HubsAgree
      <4> DEFINE l == LaneOf(F.slots[j].tab)
                 u == LocalOf(F.slots[j].tab)
      <4>2. l \in DOMAIN F.hubs
        BY <1>6, <1>8, <3>2, EncodedIsOne
      <4>3. u \in Open(F.hubs[l])
        BY <3>2, <4>2 DEF HubsAgree
      <4>4. G.hubs[l].tabs[u].site = F.hubs[l].tabs[u].site
        <5> HIDE DEF l, u
        <5>1. QED
          BY <1>2, <4>2, <4>3
      <4>5. G.slots[j] = F.slots[j]
        BY <1>5, <3>2
      <4>6. QED
        BY <4>1, <4>4, <4>5
    <3>3. QED
      BY <1>4, <3>1, <3>2
  <2>3. DOMAIN G.hubs = DOMAIN F.hubs
    BY <1>2
  <2>4. QED
    BY <2>1, <2>2, <2>3 DEF HubsAgree
<1>12. SitesAgree(G, {})
  <2>1. OfKey(G, key) = OfKey(F, key) \cup {i} /\ i \notin OfKey(F, key)
    BY <1>2, <1>4, <1>5 DEF OfKey
  <2>2. \A k \in Keys : k # key => OfKey(G, k) = OfKey(F, k)
    BY <1>2, <1>4, <1>5 DEF OfKey
  <2>3. \A k \in Keys : IsFiniteSet(OfKey(F, k)) /\ Cardinality(OfKey(F, k)) \in Nat
    BY <1>3 DEF OfKey
  <2>4. Cardinality(OfKey(G, key)) = Cardinality(OfKey(F, key)) + 1
    BY <2>1, <2>3, FS_AddElement
  <2>5. \A f \in F.sites : f.key \in Keys /\ f.tabs \in Nat
    BY DEF FleetRec
  <2>6. \A f \in F.sites : f.tabs > 0 /\ f.site > 0 /\ f.tabs = Cardinality(OfKey(G, f.key)) + 0
    <3> TAKE f \in F.sites
    <3>1. /\ f.tabs > 0 /\ f.site > 0
          /\ f.tabs = Cardinality(OfKey(F, f.key)) + (IF f.key \in {key} THEN 1 ELSE 0)
      BY DEF SitesAgree
    <3>2. QED
      BY <2>2, <2>3, <2>4, <2>5, <3>1
  <2>7. \A j \in Live(G) : \E f \in F.sites : f.key = G.slots[j].key /\ f.site = G.slots[j].site
    BY <1>2, <1>4, <1>5 DEF SitesAgree, site
  <2>8. \A l \in DOMAIN G.hubs : Used(G.hubs[l]) = {f.site : f \in G.sites}
    BY <1>2 DEF SitesAgree, Used, SameSites
  <2>9. \A c, d \in F.sites : c # d => c.key # d.key /\ c.site # d.site
    BY DEF SitesAgree
  <2>10. G.sites = F.sites
    BY <1>2
  <2>11. \A f \in G.sites : /\ f.tabs > 0 /\ f.site > 0
                             /\ f.tabs = Cardinality(OfKey(G, f.key)) + (IF f.key \in {} THEN 1 ELSE 0)
    BY <2>6, <2>10
  <2>12. QED
    BY <2>7, <2>8, <2>9, <2>10, <2>11 DEF SitesAgree
<1>13. SitesTile(G.hubs[0])
  <2>1. 0 \in DOMAIN F.hubs
    BY <1>6, FleetAssumption
  <2>2. SameSites(G.hubs[0], F.hubs[0])
    BY <1>2, <2>1
  <2>3. QED
    BY <2>2 DEF SitesTile, SameSites, Used
<1>14. ExpiryAgrees(G)
  <2>1. \A j \in Live(G) : \E x \in G.expiry : x.idx = j /\ x.handle = G.slots[j].handle
    <3>1. ASSUME NEW j \in Live(F)
          PROVE  \E x \in G.expiry : x.idx = j /\ x.handle = G.slots[j].handle
      BY <1>2, <1>5 DEF ExpiryAgrees
    <3>2. \E x \in G.expiry : x.idx = i /\ x.handle = G.slots[i].handle
      <4> DEFINE x == [at |-> now + Ttl, idx |-> i, handle |-> F.next]
      <4>1. x \in G.expiry /\ x.idx = i /\ x.handle = G.slots[i].handle
        BY <1>2
      <4>2. QED
        BY <4>1
    <3>3. QED
      BY <1>4, <3>1, <3>2
  <2>2. now + Ttl <= now + Ttl
    BY FleetAssumption
  <2>3. \A x \in G.expiry : x.at <= now + Ttl /\ x.idx \in DOMAIN G.slots
    BY <1>2, <2>2 DEF ExpiryAgrees
  <2>4. QED
    BY <2>1, <2>3 DEF ExpiryAgrees
<1>15. HotAgrees(G)
  BY <1>2, <1>4, <1>5 DEF HotAgrees
<1>16. QED
  BY <1>2, <1>4, <1>9, <1>10, <1>11, <1>12, <1>13, <1>14, <1>15 DEF TablesInv, G, i, site

LEMMA EnteredPushes ==
  ASSUME NEW F, F \in FleetRec, HubsGood(F), SlotsAgree(F), SlotsTile(F), Fits(F), RestTyped,
         PushesInv(F), NEW key \in Keys, NEW site \in Nat \ {0}, NEW lane \in DOMAIN F.hubs
  PROVE  LET G == Entered(F, key, site, lane)
             i == SlotToUse(F)
         IN  /\ PushesInv(G)
             /\ i \notin Live(F) /\ Live(G) = Live(F) \cup {i} /\ G.slots[i].handle = F.next
             /\ \A j \in Live(F) : G.slots[j] = F.slots[j]
             /\ G.handles = F.handles \cup {[handle |-> F.next, idx |-> i]}
<1> DEFINE G == Entered(F, key, site, lane)
           i == SlotToUse(F)
<1>1. EntersAs(F, G, key, site, lane)
  BY EnteredFields DEF RestTyped
<1> HIDE DEF G
<1>2. /\ i \notin Live(F) /\ G.slots[i] \in SlotRec /\ G.slots[i].handle = F.next
      /\ DOMAIN G.slots = DOMAIN F.slots \cup {i}
      /\ G.slots[i].scratch = 0 /\ G.slots[i].events = 0 /\ G.slots[i].sent = 0
      /\ G.slots[i].batches = 0 /\ G.slots[i].jar = {}
      /\ G.next = F.next + 1 /\ G.sites = F.sites /\ G.calib = F.calib
      /\ \A j \in DOMAIN F.slots : j # i => G.slots[j] = F.slots[j]
      /\ G.handles = F.handles \cup {[handle |-> F.next, idx |-> i]}
  BY <1>1 DEF EntersAs
<1> HIDE DEF i
<1>3. Live(F) \subseteq DOMAIN F.slots /\ \A j \in Live(F) : F.slots[j] \in SlotRec
  BY SlotFacts
<1>4. \A j \in Live(F) : j # i /\ G.slots[j] = F.slots[j]
  BY <1>2, <1>3
<1>5. Live(G) = Live(F) \cup {i}
  BY <1>2, <1>3, EmptySlot DEF Live
<1>6. F.next \in Nat
  BY DEF FleetRec
<1>7. JarsHome(G)
  BY <1>2, <1>4, <1>5 DEF JarsHome, PushesInv
<1>8. VerdictsHome(G)
  BY <1>2 DEF VerdictsHome, PushesInv
<1>9. Sent(G)
  BY <1>2, <1>4, <1>5 DEF Sent, PushesInv
<1>10. ASSUME NEW j, j.handle \in Nat, MadeFor(F, j)
       PROVE  /\ MadeFor(G, j)
              /\ Numbered(F, j) => Numbered(G, j)
  <2>1. j.handle < F.next /\ j.handle < G.next /\ j.handle # G.slots[i].handle
    BY <1>2, <1>6, <1>10 DEF MadeFor
  <2>2. QED
    BY <1>4, <1>5, <1>10, <2>1 DEF MadeFor, Numbered
<1>11. PushesFit(G)
  <2>1. \A j \in jobs : j.handle \in Nat
    BY DEF RestTyped, JobRec
  <2>2. \A n \in DOMAIN answers : answers[n].handle \in Nat
    <3>1. answers \in Seq(AnswerRec)
      BY DEF RestTyped
    <3>2. \A n \in DOMAIN answers : answers[n] \in AnswerRec
      BY <3>1, ElementOfSeq
    <3>3. QED
      BY <3>2 DEF AnswerRec
  <2>3. QED
    BY <1>10, <2>1, <2>2 DEF PushesFit, PushesInv
<1>12. QED
  BY <1>2, <1>4, <1>5, <1>7, <1>8, <1>9, <1>11 DEF PushesInv, G, i

(* Numbers have a least. *)
LEMMA LeastExists ==
  ASSUME NEW S \in SUBSET Nat, S # {}
  PROVE  \E m \in S : \A n \in S : m <= n
<1> DEFINE R == OpToRel(<, Nat)
<1>1. IsWellFoundedOn(R, Nat)
  BY NatLessThanWellFounded
<1>2. \A m, n \in Nat : m < n => <<m, n>> \in R
  BY DEF OpToRel
<1> HIDE DEF R
<1>3. PICK m \in S : \A n \in S : <<n, m>> \notin R
  BY <1>1, WFMin
<1>4. \A n \in S : n \in Nat /\ m \in Nat /\ ~(n < m)
  BY <1>2, <1>3
<1>5. QED
  BY <1>4

(* Some hub has the fewest tabs. *)
LEMMA LeastLane ==
  ASSUME NEW F, F \in FleetRec, HubsGood(F)
  PROVE  LeastLoaded(F) \in DOMAIN F.hubs
<1> DEFINE Lane == DOMAIN F.hubs
           loads == {LiveTabs(F, l) : l \in Lane}
<1>1. Lane = 0 .. Lanes - 1 /\ Lane # {} /\ Lane \subseteq Nat
  <2>1. DOMAIN F.hubs = 0 .. Lanes - 1
    BY DEF FleetRec
  <2>2. Lanes \in Nat /\ 0 \in 0 .. Lanes - 1
    BY FleetAssumption
  <2> HIDE DEF Lane
  <2>3. QED
    BY <2>1, <2>2 DEF Lane
<1>2. \A l \in Lane : LiveTabs(F, l) \in Nat
  <2> TAKE l \in Lane
  <2>1. F.hubs[l].tabs \in Seq(TabRec)
    BY DEF HubsGood, HubGood, HubRec
  <2>2. IsFiniteSet(1 .. Len(F.hubs[l].tabs)) /\ Open(F.hubs[l]) \subseteq 1 .. Len(F.hubs[l].tabs)
    BY <2>1, FS_Interval DEF Open
  <2>3. QED
    BY <2>2, FS_Subset, FS_CardinalityType DEF LiveTabs
<1> HIDE DEF Lane
<1>3. PICK m \in loads : \A n \in loads : m <= n
  <2>1. loads \in SUBSET Nat /\ loads # {}
    BY <1>1, <1>2
  <2> HIDE DEF loads
  <2>2. QED
    BY <2>1, LeastExists
<1>4. m \in Nat /\ \A l \in Lane : m <= LiveTabs(F, l)
  BY <1>2, <1>3
<1> DEFINE least == {l \in Lane : LiveTabs(F, l) = m}
<1>5. PICK l \in least : \A k \in least : l <= k
  <2>1. least # {} /\ least \in SUBSET Nat
    BY <1>1, <1>3
  <2> HIDE DEF least
  <2>2. QED
    BY <2>1, LeastExists
<1>6. \A k \in Lane : \/ LiveTabs(F, l) < LiveTabs(F, k)
                      \/ LiveTabs(F, l) = LiveTabs(F, k) /\ l <= k
  <2> TAKE k \in Lane
  <2>1. LiveTabs(F, k) \in Nat /\ m <= LiveTabs(F, k) /\ LiveTabs(F, l) = m
    BY <1>2, <1>4, <1>5
  <2>2. LiveTabs(F, k) = m => l <= k
    BY <1>5
  <2>3. QED
    BY <1>4, <2>1, <2>2
<1>7. QED
  BY <1>5, <1>6 DEF LeastLoaded, Lane

-----------------------------------------------------------------------------
(* A page is attached. *)
LEMMA AttachedStep ==
  ASSUME NEW F, TablesInv(F), ExpiryAgrees(F), PushesInv(F), RestTyped, Fits(F), NEW key \in Keys
  PROVE  LET G == Attached(F, key)
         IN  /\ TablesInv(G) /\ ExpiryAgrees(G) /\ PushesInv(G)
             /\ \E i : /\ i \notin Live(F) /\ Live(G) = Live(F) \cup {i}
                       /\ G.slots[i].handle = F.next
                       /\ Index(G, F.next) = {i}
             /\ \A j \in Live(F) : G.slots[j] = F.slots[j]
<1> DEFINE W == WithSite(F, key)
           site == (CHOOSE e \in SiteOf(W, key) : TRUE).site
           lane == LeastLoaded(W)
           i == SlotToUse(W)
           G == Entered(W, key, site, lane)
<1>1. /\ W \in FleetRec /\ HubsGood(W) /\ SameSlots(W, F)
      /\ SitesAgree(W, {key}) /\ SitesTile(W.hubs[0]) /\ VerdictsHome(W)
  BY WithSiteStep DEF TablesInv, PushesInv
<1> HIDE DEF W
<1>2. /\ Live(W) = Live(F) /\ SlotsAgree(W) /\ SlotsTile(W) /\ HubsAgree(W)
      /\ ExpiryAgrees(W) /\ HotAgrees(W) /\ Sent(W)
      /\ \A j : MadeFor(F, j) => MadeFor(W, j)
      /\ \A j : Numbered(F, j) => Numbered(W, j)
  BY <1>1, SameSlotsKeep DEF TablesInv, PushesInv
<1>3. W.slots = F.slots /\ W.next = F.next /\ W.live = F.live /\ W.handles = F.handles
  BY <1>1 DEF SameSlots
<1>4. PushesInv(W) /\ Fits(W)
  BY <1>1, <1>2, <1>3 DEF PushesInv, JarsHome, PushesFit, Fits
<1>5. PICK e \in W.sites : e.key = key /\ e.site = site
  BY <1>1 DEF SitesAgree, SiteOf
<1>6. site \in Nat \ {0}
  BY <1>1, <1>5 DEF FleetRec, SitesAgree
<1>7. lane \in DOMAIN W.hubs
  BY <1>1, LeastLane
<1> HIDE DEF site, lane
<1>8. TablesInv(G) /\ ExpiryAgrees(G)
  <2>1. now \in Nat
    BY DEF RestTyped
  <2>2. QED
    BY <1>1, <1>2, <1>4, <1>5, <1>7, <2>1, EnteredTables
<1>9. /\ PushesInv(G)
      /\ i \notin Live(W) /\ Live(G) = Live(W) \cup {i} /\ G.slots[i].handle = W.next
      /\ \A j \in Live(W) : G.slots[j] = W.slots[j]
      /\ G.handles = W.handles \cup {[handle |-> W.next, idx |-> i]}
  BY <1>1, <1>2, <1>4, <1>6, <1>7, EnteredPushes
<1>10. G = Attached(F, key)
  BY DEF Attached, W, site, lane
<1> HIDE DEF G, i
<1>11. Index(G, F.next) = {i}
  <2>1. \A h \in F.handles : h.handle # F.next
    <3>1. \A j \in Live(F) : F.slots[j].handle \in Nat /\ F.slots[j].handle < F.next
      <4>1. F \in FleetRec /\ \A j \in Live(F) : F.slots[j].handle < F.next
        BY DEF TablesInv, SlotsAgree
      <4>2. QED
        BY <4>1, SlotFacts, EmptySlot
    <3>2. F.handles = {[handle |-> F.slots[j].handle, idx |-> j] : j \in Live(F)}
      BY DEF TablesInv, SlotsAgree
    <3>3. F.next \in Nat
      BY DEF TablesInv, FleetRec
    <3>4. QED
      BY <3>1, <3>2, <3>3
  <2>2. {h \in G.handles : h.handle = F.next} = {[handle |-> F.next, idx |-> i]}
    BY <1>3, <1>9, <2>1
  <2> DEFINE x == [handle |-> F.next, idx |-> i]
             named == {h \in G.handles : h.handle = F.next}
  <2>3. named = {x} /\ x.idx = i
    BY <2>2
  <2>4. Index(G, F.next) = {h.idx : h \in named}
    BY DEF Index
  <2> HIDE DEF x, named
  <2>5. QED
    BY <2>3, <2>4
<1>12. QED
  BY <1>2, <1>3, <1>8, <1>9, <1>10, <1>11

-----------------------------------------------------------------------------
(* A slot is given up. *)
LEMMA RetiredStep ==
  ASSUME NEW F, TablesInv(F), PushesInv(F), NEW i \in Live(F)
  PROVE  LET G == Retired(F, i)
         IN  /\ TablesInv(G) /\ PushesInv(G)
             /\ Live(G) = Live(F) \ {i}
             /\ \A j \in Live(G) : G.slots[j] = F.slots[j]
             /\ DOMAIN G.slots = DOMAIN F.slots /\ G.expiry = F.expiry
<1> DEFINE slot == F.slots[i]
           key == slot.key
           lane == LaneOf(slot.tab)
           t == LocalOf(slot.tab)
           laneHub == CloseTab(F.hubs[lane], t)
           hubs == [F.hubs EXCEPT ![lane] = laneHub]
           slots == [F.slots EXCEPT ![i] = NoSlot]
           handles == {e \in F.handles : e.handle # slot.handle}
           tabs == {e \in F.tabs : e.tab # slot.tab}
           hot == [F.hot EXCEPT ![i] = IF @ > 0 THEN @ - 1 ELSE 0]
           AllSlots == SlotRec \cup {NoSlot}
           G == [F EXCEPT !.slots = slots, !.handles = handles, !.tabs = tabs, !.hubs = hubs,
                          !.hot = hot, !.free = Append(F.free, i), !.live = F.live - 1]
<1>1. /\ F \in FleetRec /\ HubsGood(F) /\ SlotsAgree(F) /\ SlotsTile(F) /\ HubsAgree(F)
      /\ SitesAgree(F, {}) /\ SitesTile(F.hubs[0]) /\ HotAgrees(F)
      /\ JarsHome(F) /\ VerdictsHome(F) /\ Sent(F) /\ PushesFit(F)
  BY DEF TablesInv, PushesInv
<1>2. /\ Len(F.slots) \in Nat /\ DOMAIN F.slots = 1 .. Len(F.slots) /\ Live(F) \subseteq DOMAIN F.slots
      /\ IsFiniteSet(Live(F)) /\ Cardinality(Live(F)) \in Nat
      /\ \A j \in Live(F) : F.slots[j] \in SlotRec
      /\ \A j \in DOMAIN F.slots : j \notin Live(F) => F.slots[j] = NoSlot
      /\ \A S \in SUBSET Live(F) : IsFiniteSet(S) /\ Cardinality(S) \in Nat
  BY <1>1, SlotFacts
<1>3. /\ F.slots \in Seq(AllSlots) /\ F.free \in Seq(Nat) /\ F.live \in Nat
      /\ F.hubs \in [0 .. Lanes - 1 -> HubRec]
      /\ F.hot \in [1 .. MaxTabs -> Nat]
  BY <1>1 DEF FleetRec
<1>4. /\ Members(F.free) = DOMAIN F.slots \ Live(F) /\ Once(F.free)
      /\ F.live = Cardinality(Live(F)) /\ F.live <= MaxTabs /\ Len(F.slots) <= MaxTabs
  BY <1>1 DEF SlotsTile, Members, Once
<1>5. slot \in SlotRec /\ slot.tab \in Nat /\ key \in Keys /\ i \in DOMAIN F.slots /\ i \in Nat
  <2>1. slot \in SlotRec /\ i \in DOMAIN F.slots /\ i \in Nat
    BY <1>2
  <2>2. QED
    BY <2>1 DEF SlotRec
<1>6. i \in 1 .. MaxTabs
  BY <1>2, <1>4, <1>5, FleetAssumption
<1>7. lane \in DOMAIN F.hubs /\ lane \in 0 .. Lanes - 1 /\ t \in Open(F.hubs[lane])
  <2>1. lane \in 0 .. Lanes - 1
    BY <1>5, EncodedIsOne
  <2>2. lane \in DOMAIN F.hubs
    BY <1>3, <2>1
  <2>3. Open(F.hubs[lane]) = {LocalOf(F.slots[j].tab) : j \in {k \in Live(F) : LaneOf(F.slots[k].tab) = lane}}
    BY <1>1, <2>2 DEF HubsAgree
  <2>4. i \in {k \in Live(F) : LaneOf(F.slots[k].tab) = lane}
    OBVIOUS
  <2> HIDE DEF lane
  <2>5. QED
    BY <2>1, <2>2, <2>3, <2>4
<1>8. Retired(F, i) = WithoutSite(G, key)
  BY DEF Retired
<1> HIDE DEF key, lane, t, slot
<1>9. /\ HubGood(laneHub) /\ SameSites(laneHub, F.hubs[lane])
      /\ Open(laneHub) = Open(F.hubs[lane]) \ {t}
      /\ \A u \in DOMAIN laneHub.tabs : laneHub.tabs[u].site = IF u = t THEN NoSite ELSE F.hubs[lane].tabs[u].site
      /\ DOMAIN laneHub.tabs = DOMAIN F.hubs[lane].tabs
  BY <1>1, <1>7, HubCloses DEF HubsGood
<1> HIDE DEF laneHub
<1>10. /\ hubs \in [0 .. Lanes - 1 -> HubRec] /\ DOMAIN hubs = DOMAIN F.hubs
       /\ hubs[lane] = laneHub /\ \A l \in DOMAIN F.hubs : l # lane => hubs[l] = F.hubs[l]
  BY <1>3, <1>7, <1>9 DEF HubGood
<1>11. /\ slots \in Seq(AllSlots) /\ Len(slots) = Len(F.slots) /\ DOMAIN slots = DOMAIN F.slots
       /\ slots[i] = NoSlot /\ \A j \in DOMAIN F.slots : j # i => slots[j] = F.slots[j]
  <2>1. NoSlot \in AllSlots
    OBVIOUS
  <2> HIDE DEF AllSlots
  <2>2. slots \in Seq(AllSlots) /\ Len(slots) = Len(F.slots)
    BY <1>2, <1>3, <1>5, <2>1, ExceptSeq
  <2>3. QED
    BY <1>2, <1>3, <1>5, <2>2
<1>12. hot \in [1 .. MaxTabs -> Nat] /\ \A j \in 1 .. MaxTabs : j # i => hot[j] = F.hot[j]
  <2>1. F.hot[i] \in Nat
    BY <1>3, <1>6
  <2>2. \A n \in Nat : (IF n > 0 THEN n - 1 ELSE 0) \in Nat
    OBVIOUS
  <2>3. (IF F.hot[i] > 0 THEN F.hot[i] - 1 ELSE 0) \in Nat
    BY <2>1, <2>2
  <2>4. QED
    BY <1>3, <1>6, <2>3
<1>13. /\ Append(F.free, i) \in Seq(Nat) /\ Once(Append(F.free, i))
       /\ Members(Append(F.free, i)) = Members(F.free) \cup {i}
  BY <1>3, <1>4, <1>5, PushOnce
<1>14. F.live - 1 \in Nat /\ Cardinality(Live(F) \ {i}) = F.live - 1
  <2>1. IsFiniteSet(Live(F) \ {i}) /\ Cardinality(Live(F) \ {i}) = Cardinality(Live(F)) - 1
    BY <1>2, FS_RemoveElement
  <2>2. Cardinality(Live(F) \ {i}) \in Nat
    BY <2>1, FS_CardinalityType
  <2>3. QED
    BY <1>4, <2>1, <2>2
<1> HIDE DEF hubs, slots, hot, G, AllSlots, handles, tabs
<1>15. /\ G.hubs = hubs /\ G.slots = slots /\ G.handles = handles /\ G.tabs = tabs
       /\ G.hot = hot /\ G.free = Append(F.free, i) /\ G.live = F.live - 1
       /\ G.sites = F.sites /\ G.calib = F.calib /\ G.expiry = F.expiry /\ G.next = F.next
  BY <1>1 DEF FleetRec, G
<1>16. G \in FleetRec
  <2>1. handles \subseteq [handle : Nat, idx : Nat] /\ tabs \subseteq [tab : Nat, idx : Nat]
    BY <1>1 DEF FleetRec, handles, tabs
  <2>2. QED
    BY <1>1, <1>10, <1>11, <1>12, <1>13, <1>14, <2>1 DEF FleetRec, G, AllSlots
<1>17. Live(G) = Live(F) \ {i}
  BY <1>2, <1>11, <1>15 DEF Live
<1>18. \A j \in Live(G) : j \in Live(F) /\ j # i /\ G.slots[j] = F.slots[j]
  BY <1>2, <1>11, <1>15, <1>17
<1>19. HubsGood(G)
  BY <1>1, <1>9, <1>10, <1>15 DEF HubsGood
<1>20. SlotsAgree(G)
  <2>1. /\ F.next <= MaxHandle
        /\ F.handles = {[handle |-> F.slots[j].handle, idx |-> j] : j \in Live(F)}
        /\ F.tabs = {[tab |-> F.slots[j].tab, idx |-> j] : j \in Live(F)}
        /\ \A j \in Live(F) : F.slots[j].handle < F.next
        /\ \A j, k \in Live(F) : j # k => /\ F.slots[j].handle # F.slots[k].handle
                                          /\ F.slots[j].tab # F.slots[k].tab
    BY <1>1 DEF SlotsAgree
  <2>2. G.handles = {[handle |-> G.slots[j].handle, idx |-> j] : j \in Live(G)}
    BY <1>15, <1>17, <1>18, <2>1 DEF handles, slot
  <2>3. G.tabs = {[tab |-> G.slots[j].tab, idx |-> j] : j \in Live(G)}
    BY <1>15, <1>17, <1>18, <2>1 DEF tabs, slot
  <2>4. QED
    BY <1>15, <1>18, <2>1, <2>2, <2>3 DEF SlotsAgree
<1>21. SlotsTile(G)
  <2>1. Members(G.free) = DOMAIN G.slots \ Live(G)
    BY <1>4, <1>5, <1>11, <1>13, <1>15, <1>17
  <2>2. G.live = Cardinality(Live(G)) /\ G.live <= MaxTabs /\ Len(G.slots) <= MaxTabs
    BY <1>3, <1>4, <1>11, <1>14, <1>15, <1>17, FleetAssumption
  <2>3. Once(G.free)
    BY <1>13, <1>15
  <2>4. QED
    BY <2>1, <2>2, <2>3 DEF SlotsTile, Members, Once
<1>22. \A j \in Live(G) : LaneOf(F.slots[j].tab) = lane => LocalOf(F.slots[j].tab) # t
  <2> SUFFICES ASSUME NEW j \in Live(G), LaneOf(F.slots[j].tab) = lane, LocalOf(F.slots[j].tab) = t
               PROVE  FALSE
    OBVIOUS
  <2>1. F.slots[j].tab \in Nat /\ slot.tab \in Nat
    BY <1>2, <1>5, <1>18 DEF SlotRec
  <2>2. F.slots[j].tab = Encoded(lane, t) /\ slot.tab = Encoded(lane, t)
    BY <2>1, EncodedIsOne DEF lane, t
  <2>3. QED
    BY <1>1, <1>18, <2>2 DEF SlotsAgree, slot
<1>23. HubsAgree(G)
  <2>1. ASSUME NEW l \in DOMAIN F.hubs
        PROVE  Open(G.hubs[l]) = {LocalOf(G.slots[j].tab) : j \in {k \in Live(G) : LaneOf(G.slots[k].tab) = l}}
    <3>1. Open(F.hubs[l]) = {LocalOf(F.slots[j].tab) : j \in {k \in Live(F) : LaneOf(F.slots[k].tab) = l}}
      BY <1>1 DEF HubsAgree
    <3>2. CASE l = lane
      <4>1. Open(G.hubs[l]) = Open(F.hubs[l]) \ {t}
        BY <1>9, <1>10, <1>15, <3>2
      <4>2. LocalOf(F.slots[i].tab) = t
        BY DEF t, slot
      <4>3. \A u \in Open(F.hubs[l]) \ {t} : \E j \in Live(G) : LaneOf(G.slots[j].tab) = l /\ u = LocalOf(G.slots[j].tab)
        BY <1>17, <1>18, <3>1, <4>2
      <4>4. \A j \in Live(G) : LaneOf(G.slots[j].tab) = l => LocalOf(G.slots[j].tab) \in Open(F.hubs[l]) \ {t}
        BY <1>18, <1>22, <3>1, <3>2
      <4>5. QED
        BY <4>1, <4>3, <4>4
    <3>3. CASE l # lane
      <4>1. LaneOf(F.slots[i].tab) = lane
        BY DEF lane, slot
      <4>2. {k \in Live(G) : LaneOf(G.slots[k].tab) = l} = {k \in Live(F) : LaneOf(F.slots[k].tab) = l}
        BY <1>17, <1>18, <3>3, <4>1
      <4>3. G.hubs[l] = F.hubs[l]
        BY <1>10, <1>15, <3>3
      <4>4. QED
        BY <1>18, <3>1, <4>2, <4>3
    <3>4. QED
      BY <3>2, <3>3
  <2>2. ASSUME NEW j \in Live(G)
        PROVE  G.hubs[LaneOf(G.slots[j].tab)].tabs[LocalOf(G.slots[j].tab)].site = G.slots[j].site
    <3> DEFINE l == LaneOf(F.slots[j].tab)
               u == LocalOf(F.slots[j].tab)
    <3>1. F.hubs[l].tabs[u].site = F.slots[j].site /\ G.slots[j] = F.slots[j] /\ j \in Live(F)
      BY <1>1, <1>18 DEF HubsAgree
    <3>2. l \in DOMAIN F.hubs /\ u \in Open(F.hubs[l])
      <4>1. F.slots[j].tab \in Nat
        BY <1>2, <3>1 DEF SlotRec
      <4>2. l \in DOMAIN F.hubs
        BY <1>3, <4>1, EncodedIsOne
      <4>3. QED
        BY <1>1, <3>1, <4>2 DEF HubsAgree
    <3>3. l = lane => u # t
      BY <1>22
    <3> HIDE DEF l, u
    <3>4. u \in DOMAIN F.hubs[l].tabs
      BY <3>2 DEF Open
    <3>5. G.hubs[l].tabs[u].site = F.hubs[l].tabs[u].site
      BY <1>9, <1>10, <1>15, <3>2, <3>3, <3>4
    <3>6. QED
      BY <3>1, <3>5 DEF l, u
  <2>3. DOMAIN G.hubs = DOMAIN F.hubs
    BY <1>10, <1>15
  <2>4. QED
    BY <2>1, <2>2, <2>3 DEF HubsAgree
<1>24. SitesAgree(G, {key})
  <2>1. OfKey(G, key) = OfKey(F, key) \ {i} /\ i \in OfKey(F, key)
    BY <1>17, <1>18 DEF OfKey, key, slot
  <2>2. \A k \in Keys : k # key => OfKey(G, k) = OfKey(F, k)
    BY <1>17, <1>18 DEF OfKey, key, slot
  <2>3. \A k \in Keys : IsFiniteSet(OfKey(F, k)) /\ Cardinality(OfKey(F, k)) \in Nat
    BY <1>2 DEF OfKey
  <2>4. Cardinality(OfKey(G, key)) = Cardinality(OfKey(F, key)) - 1
    <3>1. IsFiniteSet(OfKey(F, key))
      BY <1>5, <2>3
    <3>2. Cardinality(OfKey(F, key) \ {i}) = Cardinality(OfKey(F, key)) - 1
      BY <2>1, <3>1, FS_RemoveElement
    <3>3. QED
      BY <2>1, <3>2
  <2>5. \A f \in F.sites : f.key \in Keys /\ f.tabs \in Nat
    BY <1>1 DEF FleetRec
  <2>6. \A f \in F.sites : /\ f.tabs > 0 /\ f.site > 0
                           /\ f.tabs = Cardinality(OfKey(G, f.key)) + (IF f.key \in {key} THEN 1 ELSE 0)
    <3> TAKE f \in F.sites
    <3>1. f.tabs > 0 /\ f.site > 0 /\ f.tabs = Cardinality(OfKey(F, f.key)) + 0
      BY <1>1 DEF SitesAgree
    <3>2. QED
      BY <2>2, <2>3, <2>4, <2>5, <3>1
  <2>7. \A j \in Live(G) : \E f \in F.sites : f.key = G.slots[j].key /\ f.site = G.slots[j].site
    BY <1>1, <1>18 DEF SitesAgree
  <2>8. \E f \in F.sites : f.key = key
    BY <1>1 DEF SitesAgree, key, slot
  <2>9. \A l \in DOMAIN G.hubs : Used(G.hubs[l]) = {f.site : f \in G.sites}
    <3>1. \A l \in DOMAIN F.hubs : Used(hubs[l]) = Used(F.hubs[l])
      BY <1>9, <1>10 DEF Used, SameSites
    <3>2. QED
      BY <1>1, <1>10, <1>15, <3>1 DEF SitesAgree
  <2>10. \A c, d \in F.sites : c # d => c.key # d.key /\ c.site # d.site
    BY <1>1 DEF SitesAgree
  <2>11. QED
    BY <1>15, <2>6, <2>7, <2>8, <2>9, <2>10 DEF SitesAgree
<1>25. SitesTile(G.hubs[0])
  <2>1. 0 \in DOMAIN F.hubs
    BY <1>3, FleetAssumption
  <2>2. SameSites(G.hubs[0], F.hubs[0])
    BY <1>9, <1>10, <1>15, <2>1 DEF SameSites
  <2>3. QED
    BY <1>1, <2>2 DEF SitesTile, SameSites, Used
<1>26. HotAgrees(G) /\ JarsHome(G) /\ VerdictsHome(G) /\ Sent(G)
  <2>1. \A j \in Live(G) : j \in 1 .. MaxTabs /\ G.hot[j] = F.hot[j]
    BY <1>2, <1>4, <1>12, <1>15, <1>18, FleetAssumption
  <2>2. QED
    BY <1>1, <1>15, <1>18, <2>1 DEF HotAgrees, JarsHome, VerdictsHome, Sent
<1>27. PushesFit(G)
  BY <1>1, <1>15, <1>18 DEF PushesFit, MadeFor, Numbered
<1> DEFINE R == WithoutSite(G, key)
<1>28. /\ R \in FleetRec /\ HubsGood(R) /\ SameSlots(R, G)
       /\ SitesAgree(R, {}) /\ SitesTile(R.hubs[0]) /\ VerdictsHome(R)
  BY <1>5, <1>16, <1>19, <1>23, <1>24, <1>25, <1>26, WithoutSiteStep
<1> HIDE DEF R
<1>29. /\ Live(R) = Live(G) /\ SlotsAgree(R) /\ SlotsTile(R) /\ HubsAgree(R)
       /\ HotAgrees(R) /\ Sent(R)
       /\ \A j : MadeFor(G, j) => MadeFor(R, j)
       /\ \A j : Numbered(G, j) => Numbered(R, j)
  BY <1>16, <1>20, <1>21, <1>23, <1>26, <1>28, SameSlotsKeep
<1>30. R.slots = G.slots /\ R.expiry = G.expiry
  BY <1>28 DEF SameSlots
<1>31. JarsHome(R) /\ PushesFit(R)
  BY <1>26, <1>27, <1>29, <1>30 DEF JarsHome, PushesFit
<1>32. QED
  BY <1>8, <1>11, <1>15, <1>17, <1>18, <1>28, <1>29, <1>30, <1>31 DEF TablesInv, PushesInv, R

(* A tab that was attached for nobody is given up at once. *)
LEMMA DetachedStep ==
  ASSUME NEW F, TablesInv(F), ExpiryAgrees(F), PushesInv(F), RestTyped, Fits(F), NEW key \in Keys
  PROVE  LET G == Detached(Attached(F, key), NewHandle(F))
         IN  /\ TablesInv(G) /\ ExpiryAgrees(G) /\ PushesInv(G)
             /\ Live(G) = Live(F)
             /\ \A j \in Live(F) : G.slots[j] = F.slots[j]
<1> DEFINE A == Attached(F, key)
<1>1. /\ TablesInv(A) /\ ExpiryAgrees(A) /\ PushesInv(A)
      /\ \A j \in Live(F) : A.slots[j] = F.slots[j]
  BY AttachedStep
<1>2. PICK i : /\ i \notin Live(F) /\ Live(A) = Live(F) \cup {i}
               /\ Index(A, F.next) = {i}
  BY AttachedStep
<1> HIDE DEF A
<1> DEFINE G == Retired(A, i)
<1>3. /\ TablesInv(G) /\ PushesInv(G)
      /\ Live(G) = Live(A) \ {i}
      /\ \A j \in Live(G) : G.slots[j] = A.slots[j]
      /\ DOMAIN G.slots = DOMAIN A.slots /\ G.expiry = A.expiry
  BY <1>1, <1>2, RetiredStep
<1>4. Detached(A, NewHandle(F)) = G
  BY <1>2 DEF Detached, NewHandle
<1> HIDE DEF G
<1>5. ExpiryAgrees(G)
  BY <1>1, <1>3 DEF ExpiryAgrees
<1>6. Live(G) = Live(F)
  BY <1>2, <1>3
<1>7. QED
  BY <1>1, <1>3, <1>4, <1>5, <1>6 DEF A

-----------------------------------------------------------------------------
(* When slots, hubs and tables keep who is where, what they agree on stays *)
(* true.                                                                   *)
SamePlaces(G, F) ==
  /\ DOMAIN G.slots = DOMAIN F.slots
  /\ \A i \in DOMAIN F.slots : G.slots[i] = NoSlot <=> F.slots[i] = NoSlot
  /\ \A i \in Live(F) : /\ G.slots[i].handle = F.slots[i].handle
                        /\ G.slots[i].key = F.slots[i].key
                        /\ G.slots[i].site = F.slots[i].site
                        /\ G.slots[i].tab = F.slots[i].tab
  /\ G.handles = F.handles /\ G.tabs = F.tabs /\ G.free = F.free
  /\ G.sites = F.sites /\ G.next = F.next /\ G.live = F.live
  /\ DOMAIN G.hubs = DOMAIN F.hubs
  /\ \A l \in DOMAIN F.hubs :
       /\ SameSites(G.hubs[l], F.hubs[l])
       /\ Open(G.hubs[l]) = Open(F.hubs[l])
       /\ \A t \in Open(F.hubs[l]) : G.hubs[l].tabs[t].site = F.hubs[l].tabs[t].site

LEMMA SamePlacesKeep ==
  ASSUME NEW F, TablesInv(F), NEW G, G \in FleetRec, HubsGood(G), HotAgrees(G), SamePlaces(G, F)
  PROVE  /\ TablesInv(G)
         /\ Live(G) = Live(F)
         /\ \A j : MadeFor(F, j) => MadeFor(G, j)
         /\ ExpiryAgrees(F) /\ G.expiry = F.expiry => ExpiryAgrees(G)
         /\ VerdictsHome(F) /\ G.calib = F.calib => VerdictsHome(G)
<1>1. /\ F \in FleetRec /\ SlotsAgree(F) /\ SlotsTile(F) /\ HubsAgree(F)
      /\ SitesAgree(F, {}) /\ SitesTile(F.hubs[0])
  BY DEF TablesInv
<1>2. Live(G) = Live(F)
  BY DEF Live, SamePlaces
<1>3. \A i \in Live(F) : /\ G.slots[i].handle = F.slots[i].handle
                         /\ G.slots[i].key = F.slots[i].key
                         /\ G.slots[i].site = F.slots[i].site
                         /\ G.slots[i].tab = F.slots[i].tab
  BY DEF SamePlaces
<1>4. /\ DOMAIN G.slots = DOMAIN F.slots
      /\ G.handles = F.handles /\ G.tabs = F.tabs /\ G.free = F.free
      /\ G.sites = F.sites /\ G.next = F.next /\ G.live = F.live
      /\ DOMAIN G.hubs = DOMAIN F.hubs
  BY DEF SamePlaces
<1>5. \A l \in DOMAIN F.hubs :
        /\ SameSites(G.hubs[l], F.hubs[l])
        /\ Open(G.hubs[l]) = Open(F.hubs[l])
        /\ \A t \in Open(F.hubs[l]) : G.hubs[l].tabs[t].site = F.hubs[l].tabs[t].site
  BY DEF SamePlaces
<1>6. SlotsAgree(G)
  <2>1. F.handles = {[handle |-> G.slots[i].handle, idx |-> i] : i \in Live(F)}
    BY <1>1, <1>3 DEF SlotsAgree
  <2>2. F.tabs = {[tab |-> G.slots[i].tab, idx |-> i] : i \in Live(F)}
    BY <1>1, <1>3 DEF SlotsAgree
  <2>3. QED
    BY <1>1, <1>2, <1>3, <1>4, <2>1, <2>2 DEF SlotsAgree
<1>7. SlotsTile(G)
  <2>1. Len(G.slots) = Len(F.slots)
    BY <1>1, <1>4 DEF FleetRec
  <2>2. QED
    BY <1>1, <1>2, <1>4, <2>1 DEF SlotsTile
<1>8. HubsAgree(G)
  <2>1. ASSUME NEW l \in DOMAIN F.hubs
        PROVE  Open(G.hubs[l]) = {LocalOf(G.slots[i].tab) : i \in {j \in Live(G) : LaneOf(G.slots[j].tab) = l}}
    <3>1. Open(F.hubs[l]) = {LocalOf(F.slots[i].tab) : i \in {j \in Live(F) : LaneOf(F.slots[j].tab) = l}}
      BY <1>1 DEF HubsAgree
    <3>2. QED
      BY <1>2, <1>3, <1>5, <3>1
  <2>2. ASSUME NEW j \in Live(F)
        PROVE  G.hubs[LaneOf(F.slots[j].tab)].tabs[LocalOf(F.slots[j].tab)].site = F.slots[j].site
    <3> DEFINE l == LaneOf(F.slots[j].tab)
               u == LocalOf(F.slots[j].tab)
    <3>1. F.hubs[l].tabs[u].site = F.slots[j].site
      BY <1>1 DEF HubsAgree
    <3>2. l \in DOMAIN F.hubs
      <4>1. F.slots[j].tab \in Nat
        BY <1>1, SlotFacts DEF SlotRec
      <4>2. QED
        BY <1>1, <4>1, EncodedIsOne DEF FleetRec
    <3>3. u \in Open(F.hubs[l])
      BY <1>1, <3>2 DEF HubsAgree
    <3> HIDE DEF l, u
    <3>4. G.hubs[l].tabs[u].site = F.hubs[l].tabs[u].site
      BY <1>5, <3>2, <3>3
    <3>5. QED
      BY <3>1, <3>4 DEF l, u
  <2>3. QED
    BY <1>2, <1>3, <1>4, <2>1, <2>2 DEF HubsAgree
<1>9. SitesAgree(G, {})
  <2>1. \A k : OfKey(G, k) = OfKey(F, k)
    BY <1>2, <1>3 DEF OfKey
  <2>2. \A l \in DOMAIN G.hubs : Used(G.hubs[l]) = {f.site : f \in F.sites}
    BY <1>1, <1>4, <1>5 DEF SitesAgree, Used, SameSites
  <2>3. \A i \in Live(F) : \E e \in F.sites : e.key = G.slots[i].key /\ e.site = G.slots[i].site
    BY <1>1, <1>3 DEF SitesAgree
  <2>4. QED
    BY <1>1, <1>2, <1>4, <2>1, <2>2, <2>3 DEF SitesAgree
<1>10. SitesTile(G.hubs[0])
  <2>1. 0 \in DOMAIN F.hubs
    BY <1>1, FleetAssumption DEF FleetRec
  <2>2. QED
    BY <1>1, <1>5, <2>1 DEF SitesTile, SameSites, Used
<1>11. \A j : MadeFor(F, j) => MadeFor(G, j)
  BY <1>2, <1>3, <1>4 DEF MadeFor
<1>12. ExpiryAgrees(F) /\ G.expiry = F.expiry => ExpiryAgrees(G)
  BY <1>2, <1>3, <1>4 DEF ExpiryAgrees
<1>13. VerdictsHome(F) /\ G.calib = F.calib => VerdictsHome(G)
  BY <1>4 DEF VerdictsHome
<1>14. QED
  BY <1>2, <1>6, <1>7, <1>8, <1>9, <1>10, <1>11, <1>12, <1>13 DEF TablesInv

-----------------------------------------------------------------------------
(* The steps.  A step keeps a tab when the slot goes on to hold it. *)
Keeps(F, G) == \A i \in Live(F) : i \in Live(G) /\ G.slots[i].handle = F.slots[i].handle

(* What the tables agree on does not depend on the other variables. *)
LEMMA TablesPrimed ==
  ASSUME TablesInv(fleet')
  PROVE  TablesInv(fleet)'
BY DEF TablesInv, HubsGood, SlotsAgree, SlotsTile, HubsAgree, SitesAgree, SitesTile, HotAgrees

(* Nothing happens to the fleet, though time may pass. *)
LEMMA QuietStep ==
  ASSUME FleetInv, UNCHANGED <<fleet, jobs, answers>>, now' \in Nat, now' >= now,
         at' \in {"wait", "attaching", "pumping", "stopped"}, want' \in SUBSET Keys, late' \in BOOLEAN
  PROVE  FleetInv' /\ Keeps(fleet, fleet')
<1>1. RestTyped'
  BY DEF FleetInv, RestTyped
<1>2. TablesInv(fleet)'
  <2>1. TablesInv(fleet')
    BY DEF FleetInv
  <2>2. QED
    BY <2>1, TablesPrimed
<1>3. ExpiryAgrees(fleet)'
  <2>1. \A e \in fleet.expiry : e.at \in Nat /\ e.at <= now + Ttl
    BY DEF FleetInv, ExpiryAgrees, TablesInv, FleetRec
  <2>2. now \in Nat /\ Ttl \in Nat
    BY FleetAssumption DEF FleetInv, RestTyped
  <2>3. \A e \in fleet.expiry : e.at <= now' + Ttl
    BY <2>1, <2>2
  <2>4. QED
    BY <2>3 DEF FleetInv, ExpiryAgrees, Live
<1>4. PushesInv(fleet)'
  BY DEF FleetInv, PushesInv, JarsHome, VerdictsHome, Sent, PushesFit, MadeFor, Numbered, Live
<1>5. QED
  BY <1>1, <1>2, <1>3, <1>4 DEF FleetInv, Keeps

(* Only the fleet changes. *)
LEMMA FleetStep ==
  ASSUME FleetInv, UNCHANGED <<now, jobs, answers>>,
         at' \in {"wait", "attaching", "pumping", "stopped"}, want' \in SUBSET Keys, late' \in BOOLEAN,
         TablesInv(fleet'), ExpiryAgrees(fleet'), PushesInv(fleet')
  PROVE  FleetInv'
<1>1. RestTyped'
  BY DEF FleetInv, RestTyped
<1>2. TablesInv(fleet)'
  BY TablesPrimed
<1>3. ExpiryAgrees(fleet)'
  BY DEF ExpiryAgrees
<1>4. PushesInv(fleet)'
  BY DEF PushesInv, JarsHome, VerdictsHome, Sent, PushesFit, MadeFor, Numbered
<1>5. QED
  BY <1>1, <1>2, <1>3, <1>4 DEF FleetInv

LEMMA AttachKeepsInv ==
  ASSUME FleetInv, Attach
  PROVE  FleetInv' /\ Keeps(fleet, fleet')
<1>1. /\ UNCHANGED <<now, jobs, answers>> /\ at' \in {"wait", "attaching", "pumping", "stopped"}
      /\ want' \in SUBSET Keys /\ late' \in BOOLEAN
  BY DEF Attach, Afterwards
<1>2. TablesInv(fleet) /\ ExpiryAgrees(fleet) /\ PushesInv(fleet) /\ RestTyped
  BY DEF FleetInv
<1>3. CASE Refuses(fleet) /\ UNCHANGED fleet
  <2>1. now \in Nat /\ now' = now
    BY <1>1, <1>2 DEF RestTyped
  <2>2. now' \in Nat /\ now' >= now
    BY <2>1
  <2>3. QED
    BY <1>1, <1>3, <2>2, QuietStep
<1>4. ASSUME ~Refuses(fleet)
      PROVE  Fits(fleet)
  BY <1>2, <1>4, FleetAssumption DEF Fits, Refuses, TablesInv, SlotsAgree, FleetRec
<1>5. ASSUME ~Refuses(fleet), NEW key \in want, fleet' = Attached(fleet, key)
      PROVE  FleetInv' /\ Keeps(fleet, fleet')
  <2> DEFINE G == Attached(fleet, key)
  <2>1. key \in Keys /\ Fits(fleet)
    BY <1>2, <1>4, <1>5 DEF RestTyped
  <2>2. /\ TablesInv(G) /\ ExpiryAgrees(G) /\ PushesInv(G)
        /\ \A j \in Live(fleet) : G.slots[j] = fleet.slots[j]
    BY <1>2, <2>1, AttachedStep
  <2>3. \E i : Live(G) = Live(fleet) \cup {i}
    BY <1>2, <2>1, AttachedStep
  <2> HIDE DEF G
  <2>4. FleetInv'
    BY <1>1, <1>5, <2>2, FleetStep DEF G
  <2>5. QED
    BY <1>5, <2>2, <2>3, <2>4 DEF Keeps, G
<1>6. ASSUME ~Refuses(fleet), NEW key \in want,
             fleet' = Detached(Attached(fleet, key), NewHandle(fleet))
      PROVE  FleetInv' /\ Keeps(fleet, fleet')
  <2> DEFINE G == Detached(Attached(fleet, key), NewHandle(fleet))
  <2>1. key \in Keys /\ Fits(fleet)
    BY <1>2, <1>4, <1>6 DEF RestTyped
  <2>2. /\ TablesInv(G) /\ ExpiryAgrees(G) /\ PushesInv(G)
        /\ Live(G) = Live(fleet)
        /\ \A j \in Live(fleet) : G.slots[j] = fleet.slots[j]
    BY <1>2, <2>1, DetachedStep
  <2> HIDE DEF G
  <2>3. FleetInv'
    BY <1>1, <1>6, <2>2, FleetStep DEF G
  <2>4. QED
    BY <1>6, <2>2, <2>3 DEF Keeps, G
<1>7. QED
  BY <1>3, <1>5, <1>6 DEF Attach

(* An entry of the expiry table is used up; it ends the tab it names, or   *)
(* nobody.                                                                 *)
LEMMA ExpireKeepsInv ==
  ASSUME FleetInv, ExpireOne
  PROVE  /\ FleetInv'
         /\ \A i \in Live(fleet) :
              \/ i \in Live(fleet') /\ fleet'.slots[i].handle = fleet.slots[i].handle
              \/ \E e \in fleet.expiry : e.handle = fleet.slots[i].handle /\ e.at <= now
<1>1. PICK e \in Overdue(fleet) :
        fleet' = LET F == [fleet EXCEPT !.expiry = @ \ {e}]
                 IN  IF Expires(F, e) THEN Retired(F, e.idx) ELSE F
  BY DEF ExpireOne
<1> DEFINE F == [fleet EXCEPT !.expiry = fleet.expiry \ {e}]
<1>2. TablesInv(fleet) /\ ExpiryAgrees(fleet) /\ PushesInv(fleet) /\ RestTyped
  BY DEF FleetInv
<1>3. e \in fleet.expiry /\ e.at <= now /\ e.idx \in DOMAIN fleet.slots /\ e.handle \in HandleNumbers
  BY <1>1, <1>2 DEF Overdue, ExpiryAgrees, TablesInv, FleetRec
<1>4. fleet' = IF Expires(F, e) THEN Retired(F, e.idx) ELSE F
  BY <1>1
<1>5. fleet \in FleetRec
  BY <1>2 DEF TablesInv
<1>6. /\ F.hubs = fleet.hubs /\ F.slots = fleet.slots /\ F.handles = fleet.handles
      /\ F.tabs = fleet.tabs /\ F.free = fleet.free /\ F.hot = fleet.hot /\ F.sites = fleet.sites
      /\ F.calib = fleet.calib /\ F.next = fleet.next /\ F.live = fleet.live
      /\ F.expiry = fleet.expiry \ {e}
  BY <1>5 DEF FleetRec
<1>7. F \in FleetRec
  BY <1>5 DEF FleetRec
<1> HIDE DEF F
<1>8. /\ TablesInv(F) /\ Live(F) = Live(fleet) /\ PushesInv(F)
  <2>1. SamePlaces(F, fleet) /\ HubsGood(F) /\ HotAgrees(F)
    BY <1>2, <1>6 DEF SamePlaces, SameSites, HubsGood, HotAgrees, Live, TablesInv
  <2>2. TablesInv(F) /\ Live(F) = Live(fleet)
    BY <1>2, <1>7, <2>1, SamePlacesKeep
  <2>3. PushesInv(F)
    BY <1>2, <1>6, <2>2 DEF PushesInv, JarsHome, VerdictsHome, Sent, PushesFit, MadeFor, Numbered
  <2>4. QED
    BY <2>2, <2>3
<1>9. /\ UNCHANGED <<now, jobs, answers>> /\ at' \in {"wait", "attaching", "pumping", "stopped"}
      /\ want' \in SUBSET Keys /\ late' \in BOOLEAN
  BY <1>2 DEF ExpireOne, RestTyped
<1>10. \A x \in F.expiry : x \in fleet.expiry /\ x # e /\ x.at <= now + Ttl /\ x.idx \in DOMAIN F.slots
  BY <1>2, <1>6 DEF ExpiryAgrees
<1>11. \A i \in Live(F) : \E x \in fleet.expiry : x.idx = i /\ x.handle = F.slots[i].handle
  BY <1>2, <1>6, <1>8 DEF ExpiryAgrees
<1>12. CASE Expires(F, e)
  <2> DEFINE G == Retired(F, e.idx)
  <2>1. e.idx \in Live(F)
    BY <1>3, <1>6, <1>12, EmptySlot DEF Expires, Live, HandleNumbers
  <2>2. /\ TablesInv(G) /\ PushesInv(G)
        /\ Live(G) = Live(F) \ {e.idx}
        /\ \A j \in Live(G) : G.slots[j] = F.slots[j]
        /\ DOMAIN G.slots = DOMAIN F.slots /\ G.expiry = F.expiry
    BY <1>8, <2>1, RetiredStep
  <2> HIDE DEF G
  <2>3. ExpiryAgrees(G)
    BY <1>6, <1>10, <1>11, <2>2 DEF ExpiryAgrees
  <2>4. fleet' = G
    BY <1>4, <1>12 DEF G
  <2>5. FleetInv'
    BY <1>9, <2>2, <2>3, <2>4, FleetStep
  <2>6. \A i \in Live(fleet) : i = e.idx \/ (i \in Live(G) /\ G.slots[i].handle = fleet.slots[i].handle)
    BY <1>6, <1>8, <2>2
  <2>7. fleet.slots[e.idx].handle = e.handle
    BY <1>6, <1>12 DEF Expires
  <2>8. QED
    BY <1>3, <2>4, <2>5, <2>6, <2>7
<1>13. CASE ~Expires(F, e)
  <2>1. \A i \in Live(F) : \E x \in F.expiry : x.idx = i /\ x.handle = F.slots[i].handle
    BY <1>6, <1>11, <1>13 DEF Expires
  <2>2. ExpiryAgrees(F)
    BY <1>10, <2>1 DEF ExpiryAgrees
  <2>3. fleet' = F
    BY <1>4, <1>13
  <2>4. FleetInv'
    BY <1>8, <1>9, <2>2, <2>3, FleetStep
  <2>5. QED
    BY <1>6, <1>8, <2>3, <2>4
<1>14. QED
  BY <1>12, <1>13

(* A fleet that starts is in order. *)
LEMMA NewFleetGood ==
  /\ TablesInv(NewFleet) /\ Live(NewFleet) = {}
  /\ NewFleet.expiry = {} /\ NewFleet.sites = {}
<1> DEFINE F == NewFleet
           hot == [i \in 1 .. MaxTabs |-> 0]
           hubs == [l \in 0 .. Lanes - 1 |-> NewHub]
<1>1. /\ F.hubs = hubs /\ F.slots = <<>> /\ F.handles = {} /\ F.tabs = {} /\ F.free = <<>>
      /\ F.hot = hot /\ F.sites = {} /\ F.calib = {} /\ F.expiry = {} /\ F.next = 0 /\ F.live = 0
  BY DEF NewFleet
<1>2. NewHub \in HubRec /\ NewHub.sites = <<>> /\ NewHub.freeSites = <<>> /\ NewHub.tabs = <<>>
      /\ NewHub.free = <<>> /\ NewHub.heap = {}
  BY DEF NewHub, HubRec
<1>3. Open(NewHub) = {} /\ Used(NewHub) = {}
  BY <1>2 DEF Open, Used
<1>4. HubGood(NewHub)
  BY <1>2, <1>3 DEF HubGood, FreeIsClosed
<1>5. SitesTile(NewHub)
  BY <1>2, <1>3 DEF SitesTile
<1>6. 0 \in 0 .. Lanes - 1 /\ hot \in [1 .. MaxTabs -> Nat] /\ hubs \in [0 .. Lanes - 1 -> HubRec]
  BY <1>2, FleetAssumption
<1>7. Live(F) = {}
  BY <1>1 DEF Live
<1>8. F \in FleetRec
  BY <1>6 DEF NewFleet, FleetRec
<1>9. MaxTabs \in Nat /\ MaxHandle \in Nat
  BY FleetAssumption
<1> HIDE DEF F, hot
<1>10. /\ HubsGood(F) /\ SlotsAgree(F) /\ HubsAgree(F)
       /\ SitesAgree(F, {}) /\ SitesTile(F.hubs[0]) /\ HotAgrees(F)
  BY <1>1, <1>3, <1>4, <1>5, <1>6, <1>7, <1>9 DEF HubsGood, SlotsAgree, HubsAgree, SitesAgree, HotAgrees
<1>11. SlotsTile(F)
  <2>1. Cardinality({}) = 0
    BY FS_EmptySet
  <2>2. QED
    BY <1>1, <1>7, <1>9, <2>1 DEF SlotsTile
<1>12. QED
  BY <1>1, <1>7, <1>8, <1>10, <1>11 DEF TablesInv, F

(* No push is under way when the fleet is new. *)
LEMMA NewFleetInv ==
  ASSUME fleet = NewFleet, RestTyped, jobs = {}, answers = <<>>
  PROVE  FleetInv
<1>1. ExpiryAgrees(fleet)
  BY NewFleetGood DEF ExpiryAgrees
<1>2. PushesInv(fleet)
  BY NewFleetGood DEF PushesInv, JarsHome, VerdictsHome, Sent, PushesFit
<1>3. QED
  BY <1>1, <1>2, NewFleetGood DEF FleetInv

LEMMA StopKeepsInv ==
  ASSUME FleetInv, Stop
  PROVE  FleetInv'
<1>1. fleet' = NewFleet /\ jobs' = {} /\ answers' = <<>> /\ at' = "stopped" /\ UNCHANGED <<now, want, late>>
  BY DEF Stop
<1>2. RestTyped'
  BY <1>1 DEF FleetInv, RestTyped
<1>3. TablesInv(fleet)'
  <2>1. TablesInv(fleet')
    BY <1>1, NewFleetGood
  <2>2. QED
    BY <2>1, TablesPrimed
<1>4. ExpiryAgrees(fleet)' /\ PushesInv(fleet)'
  BY <1>1, NewFleetGood DEF ExpiryAgrees, PushesInv, JarsHome, VerdictsHome, Sent, PushesFit
<1>5. QED
  BY <1>2, <1>3, <1>4 DEF FleetInv

LEMMA PushEndsKeepsInv ==
  ASSUME FleetInv, NEW j \in jobs, PushEnds(j)
  PROVE  FleetInv' /\ Keeps(fleet, fleet')
<1>1. PICK cookies \in {{}, {"line"}} :
        answers' = Append(answers, [handle |-> j.handle, events |-> j.events,
                                    key |-> j.key, cookies |-> cookies])
  BY DEF PushEnds
<1> DEFINE a == [handle |-> j.handle, events |-> j.events, key |-> j.key, cookies |-> cookies]
<1>2. jobs' = jobs \ {j} /\ UNCHANGED <<fleet, now, at, want, late>>
  BY DEF PushEnds
<1>3. RestTyped /\ TablesInv(fleet) /\ ExpiryAgrees(fleet) /\ PushesInv(fleet)
  BY DEF FleetInv
<1>4. j \in JobRec /\ answers \in Seq(AnswerRec)
  BY <1>3 DEF RestTyped
<1>5. a \in AnswerRec /\ a.handle = j.handle /\ a.key = j.key
  BY <1>4 DEF JobRec, AnswerRec
<1> HIDE DEF a
<1>6. /\ answers' \in Seq(AnswerRec) /\ DOMAIN answers' = DOMAIN answers \cup {Len(answers) + 1}
      /\ \A n \in DOMAIN answers : answers'[n] = answers[n]
      /\ answers'[Len(answers) + 1] = a
  BY <1>1, <1>4, <1>5, AppendProperties DEF a
<1>7. RestTyped'
  BY <1>2, <1>3, <1>6 DEF RestTyped
<1>8. MadeFor(fleet, a)
  BY <1>3, <1>5 DEF MadeFor, PushesInv, PushesFit
<1>9. PushesFit(fleet)'
  BY <1>2, <1>3, <1>6, <1>8 DEF PushesInv, PushesFit, MadeFor, Numbered
<1>10. PushesInv(fleet)'
  BY <1>2, <1>3, <1>9 DEF PushesInv, JarsHome, VerdictsHome, Sent
<1>11. TablesInv(fleet)' /\ ExpiryAgrees(fleet)'
  <2>1. TablesInv(fleet')
    BY <1>2, <1>3
  <2>2. TablesInv(fleet)'
    BY <2>1, TablesPrimed
  <2>3. QED
    BY <1>2, <1>3, <2>2 DEF ExpiryAgrees
<1>12. QED
  BY <1>2, <1>7, <1>10, <1>11 DEF FleetInv, Keeps

(* An answer that comes finds the tab it was made for, or none. *)
LEMMA AnsweredStep ==
  ASSUME NEW F, TablesInv(F), JarsHome(F), VerdictsHome(F), Sent(F),
         NEW a \in AnswerRec, MadeFor(F, a)
  PROVE  LET G == Answered(F, a)
         IN  /\ TablesInv(G) /\ Live(G) = Live(F)
             /\ JarsHome(G) /\ VerdictsHome(G) /\ Sent(G)
             /\ G.expiry = F.expiry /\ DOMAIN G.slots = DOMAIN F.slots
             /\ G.next = F.next
             /\ \A i \in Live(F) : /\ G.slots[i].handle = F.slots[i].handle
                                   /\ G.slots[i].key = F.slots[i].key
                                   /\ G.slots[i].batches = F.slots[i].batches
<1>1. CASE Index(F, a.handle) = {}
  BY <1>1 DEF Answered
<1>2. CASE Index(F, a.handle) # {}
  <2> DEFINE i == CHOOSE j \in Index(F, a.handle) : TRUE
             slot == F.slots[i]
             new == [slot EXCEPT !.jar = slot.jar \cup {a.handle : c \in a.cookies}]
             slots == [F.slots EXCEPT ![i] = new]
             v == [site |-> slot.site, key |-> a.key]
             AllSlots == SlotRec \cup {NoSlot}
             G == [F EXCEPT !.slots = slots, !.calib = F.calib \cup {v}]
  <2>1. Answered(F, a) = G
    BY <1>2 DEF Answered
  <2>2. F \in FleetRec /\ SlotsAgree(F) /\ SitesAgree(F, {}) /\ HubsGood(F) /\ HotAgrees(F)
    BY DEF TablesInv
  <2>3. i \in Live(F) /\ slot.handle = a.handle
    <3>1. i \in Index(F, a.handle)
      BY <1>2
    <3> HIDE DEF i
    <3>2. PICK e \in F.handles : e.handle = a.handle /\ e.idx = i
      BY <3>1 DEF Index
    <3>3. QED
      BY <2>2, <3>2 DEF SlotsAgree
  <2> HIDE DEF i
  <2>4. slot \in SlotRec /\ i \in DOMAIN F.slots /\ a.handle \in Nat /\ a.key \in Keys
    BY <2>2, <2>3, SlotFacts DEF AnswerRec
  <2>5. /\ new \in SlotRec /\ new # NoSlot
        /\ new.handle = slot.handle /\ new.key = slot.key /\ new.site = slot.site /\ new.tab = slot.tab
        /\ new.scratch = slot.scratch /\ new.events = slot.events /\ new.sent = slot.sent
        /\ new.batches = slot.batches
        /\ new.jar = slot.jar \cup {a.handle : c \in a.cookies}
    <3>1. new \in SlotRec
      BY <2>4 DEF SlotRec
    <3>2. new # NoSlot
      BY <3>1, EmptySlot
    <3>3. QED
      BY <2>4, <3>1, <3>2 DEF SlotRec
  <2>6. new.jar \subseteq {slot.handle}
    BY <2>3, <2>5 DEF JarsHome
  <2>7. v.site = slot.site /\ v.key = a.key /\ a.key = slot.key /\ v \in [site : Nat, key : Keys]
    BY <2>3, <2>4 DEF MadeFor, SlotRec
  <2> HIDE DEF new, v
  <2>8. /\ slots \in Seq(AllSlots) /\ DOMAIN slots = DOMAIN F.slots
        /\ slots[i] = new /\ \A j \in DOMAIN F.slots : j # i => slots[j] = F.slots[j]
    <3>1. F.slots \in Seq(AllSlots)
      BY <2>2 DEF FleetRec
    <3>2. new \in AllSlots
      BY <2>5
    <3> HIDE DEF AllSlots
    <3>3. QED
      BY <2>4, <3>1, <3>2, ExceptSeq
  <2> HIDE DEF slots
  <2>9. /\ G.slots = slots /\ G.calib = F.calib \cup {v}
        /\ G.hubs = F.hubs /\ G.handles = F.handles /\ G.tabs = F.tabs /\ G.free = F.free
        /\ G.hot = F.hot /\ G.sites = F.sites /\ G.expiry = F.expiry /\ G.next = F.next /\ G.live = F.live
    BY <2>2 DEF FleetRec
  <2>10. G \in FleetRec
    BY <2>2, <2>7, <2>8 DEF FleetRec
  <2> HIDE DEF G
  <2>11. \A j \in Live(F) : /\ G.slots[j].handle = F.slots[j].handle
                            /\ G.slots[j].key = F.slots[j].key
                            /\ G.slots[j].site = F.slots[j].site
                            /\ G.slots[j].tab = F.slots[j].tab
                            /\ G.slots[j].scratch = F.slots[j].scratch
                            /\ G.slots[j].events = F.slots[j].events
                            /\ G.slots[j].sent = F.slots[j].sent
                            /\ G.slots[j].batches = F.slots[j].batches
    BY <2>5, <2>8, <2>9 DEF Live
  <2>12. \A j \in DOMAIN F.slots : G.slots[j] = NoSlot <=> F.slots[j] = NoSlot
    BY <2>3, <2>5, <2>8, <2>9 DEF Live
  <2>13. SamePlaces(G, F)
    BY <2>8, <2>9, <2>11, <2>12 DEF SamePlaces, SameSites
  <2>14. Live(G) = Live(F)
    BY <2>8, <2>9, <2>12 DEF Live
  <2>15. TablesInv(G)
    <3>1. HubsGood(G) /\ HotAgrees(G)
      BY <2>2, <2>9, <2>11, <2>14 DEF HubsGood, HotAgrees
    <3>2. QED
      BY <2>10, <2>13, <3>1, SamePlacesKeep
  <2>16. JarsHome(G)
    BY <2>5, <2>6, <2>8, <2>9, <2>14 DEF JarsHome, Live
  <2>17. VerdictsHome(G)
    <3>1. ASSUME NEW e \in F.sites, e.site = v.site
          PROVE  e.key = v.key
      <4>1. PICK f \in F.sites : f.key = slot.key /\ f.site = slot.site
        BY <2>2, <2>3 DEF SitesAgree
      <4>2. e = f
        BY <2>2, <2>7, <3>1, <4>1 DEF SitesAgree
      <4>3. QED
        BY <2>7, <4>1, <4>2
    <3>2. QED
      BY <2>9, <3>1 DEF VerdictsHome
  <2>18. Sent(G)
    BY <2>11, <2>14 DEF Sent
  <2>19. QED
    BY <2>1, <2>8, <2>9, <2>11, <2>14, <2>15, <2>16, <2>17, <2>18
<1>3. QED
  BY <1>1, <1>2

LEMMA AnswerKeepsInv ==
  ASSUME FleetInv, Answer
  PROVE  FleetInv' /\ Keeps(fleet, fleet')
<1> DEFINE a == Head(answers)
           G == Answered(fleet, a)
<1>1. RestTyped /\ TablesInv(fleet) /\ ExpiryAgrees(fleet) /\ PushesInv(fleet)
  BY DEF FleetInv
<1>2. answers \in Seq(AnswerRec) /\ answers # <<>>
  BY <1>1 DEF RestTyped, Answer
<1>3. /\ a = answers[1] /\ 1 \in DOMAIN answers /\ a \in AnswerRec
      /\ Tail(answers) \in Seq(AnswerRec)
      /\ DOMAIN Tail(answers) = 1 .. Len(answers) - 1
      /\ \A n \in DOMAIN Tail(answers) : n + 1 \in DOMAIN answers /\ Tail(answers)[n] = answers[n + 1]
  BY <1>2
<1>4. /\ UNCHANGED <<now, want, late, jobs>> /\ answers' = Tail(answers) /\ fleet' = G
      /\ at' \in {"wait", "attaching", "pumping", "stopped"}
  BY DEF Answer, Afterwards
<1>5. MadeFor(fleet, a)
  BY <1>1, <1>3 DEF PushesInv, PushesFit
<1> HIDE DEF a
<1>6. /\ TablesInv(G) /\ Live(G) = Live(fleet)
      /\ JarsHome(G) /\ VerdictsHome(G) /\ Sent(G)
      /\ G.expiry = fleet.expiry /\ DOMAIN G.slots = DOMAIN fleet.slots
      /\ G.next = fleet.next
      /\ \A i \in Live(fleet) : /\ G.slots[i].handle = fleet.slots[i].handle
                                /\ G.slots[i].key = fleet.slots[i].key
                                /\ G.slots[i].batches = fleet.slots[i].batches
  BY <1>1, <1>3, <1>5, AnsweredStep DEF PushesInv
<1> HIDE DEF G
<1>7. /\ \A j \in jobs : MadeFor(G, j) /\ Numbered(G, j)
      /\ \A n \in DOMAIN answers : MadeFor(G, answers[n])
  BY <1>1, <1>6 DEF PushesInv, PushesFit, MadeFor, Numbered
<1>8. RestTyped'
  BY <1>1, <1>3, <1>4 DEF RestTyped
<1>9. PushesFit(fleet)'
  BY <1>3, <1>4, <1>7 DEF PushesFit, MadeFor, Numbered
<1>10. PushesInv(fleet)'
  BY <1>4, <1>6, <1>9 DEF PushesInv, JarsHome, VerdictsHome, Sent
<1>11. TablesInv(fleet)'
  <2>1. TablesInv(fleet')
    BY <1>4, <1>6
  <2>2. QED
    BY <2>1, TablesPrimed
<1>12. ExpiryAgrees(fleet)'
  BY <1>1, <1>4, <1>6 DEF ExpiryAgrees
<1>13. QED
  BY <1>4, <1>6, <1>8, <1>10, <1>11, <1>12 DEF FleetInv, Keeps

-----------------------------------------------------------------------------
(* The hubs tick: the tabs that are due are due again. *)
LEMMA TickedStep ==
  ASSUME NEW F, TablesInv(F), NEW due \in [DueTabs(F) -> Nat]
  PROVE  LET G == [F EXCEPT !.hubs = [l \in DOMAIN @ |-> Ticked(@[l], l, due)]]
         IN  /\ TablesInv(G) /\ Live(G) = Live(F) /\ G.slots = F.slots
             /\ G.hot = F.hot /\ G.tabs = F.tabs
             /\ G.expiry = F.expiry /\ G.next = F.next /\ G.sites = F.sites /\ G.calib = F.calib
<1> DEFINE D == DueTabs(F)
           hubs == [l \in DOMAIN F.hubs |-> Ticked(F.hubs[l], l, due)]
           G == [F EXCEPT !.hubs = hubs]
<1>1. F \in FleetRec /\ HubsGood(F) /\ HotAgrees(F) /\ F.hubs \in [0 .. Lanes - 1 -> HubRec]
  BY DEF TablesInv, FleetRec
<1>2. \A d \in D : d.lane \in DOMAIN F.hubs /\ d.key \in F.hubs[d.lane].heap
                   /\ d = [lane |-> d.lane, key |-> d.key]
  BY DEF DueTabs, DueKeys
<1>3. due \in [D -> Nat]
  OBVIOUS
<1> HIDE DEF D
<1>4. ASSUME NEW l \in DOMAIN F.hubs
      PROVE  /\ HubGood(hubs[l]) /\ SameSites(hubs[l], F.hubs[l])
             /\ Open(hubs[l]) = Open(F.hubs[l])
             /\ \A t \in Open(F.hubs[l]) : hubs[l].tabs[t].site = F.hubs[l].tabs[t].site
  <2> DEFINE h == F.hubs[l]
             g == Ticked(h, l, due)
  <2>1. HubGood(h)
    BY <1>1 DEF HubsGood
  <2>2. \A d \in D : d.lane = l => d.key \in h.heap
    BY <1>2
  <2>3. \A d, e \in D : d.lane = l /\ e.lane = l /\ d.key = e.key => d = e
    BY <1>2
  <2> HIDE DEF h
  <2>4. /\ HubGood(g) /\ SameSites(g, h)
        /\ Open(g) = Open(h) /\ DOMAIN g.tabs = DOMAIN h.tabs
        /\ \A t \in DOMAIN h.tabs : g.tabs[t].site = h.tabs[t].site
    BY <1>3, <2>1, <2>2, <2>3, HubTicks
  <2> HIDE DEF g
  <2>5. \A t \in Open(h) : t \in DOMAIN h.tabs
    BY DEF Open
  <2>6. hubs[l] = g
    BY DEF g, h
  <2>7. QED
    BY <2>4, <2>5, <2>6 DEF h
<1>5. hubs \in [0 .. Lanes - 1 -> HubRec]
  BY <1>1, <1>4 DEF HubGood
<1>6. DOMAIN hubs = DOMAIN F.hubs
  OBVIOUS
<1> HIDE DEF hubs
<1>7. /\ G.hubs = hubs /\ G.slots = F.slots /\ G.handles = F.handles /\ G.tabs = F.tabs
      /\ G.free = F.free /\ G.hot = F.hot /\ G.sites = F.sites /\ G.calib = F.calib
      /\ G.expiry = F.expiry /\ G.next = F.next /\ G.live = F.live
  BY <1>1 DEF FleetRec
<1>8. G \in FleetRec
  BY <1>1, <1>5 DEF FleetRec
<1>9. G = [F EXCEPT !.hubs = [l \in DOMAIN @ |-> Ticked(@[l], l, due)]]
  BY DEF hubs
<1> HIDE DEF G
<1>10. SamePlaces(G, F)
  BY <1>4, <1>6, <1>7 DEF SamePlaces
<1>11. HubsGood(G)
  BY <1>4, <1>6, <1>7 DEF HubsGood
<1>12. Live(G) = Live(F)
  BY <1>7 DEF Live
<1>13. HotAgrees(G)
  BY <1>1, <1>7, <1>12 DEF HotAgrees
<1>14. TablesInv(G)
  BY <1>8, <1>10, <1>11, <1>13, SamePlacesKeep
<1>15. QED
  BY <1>7, <1>9, <1>12, <1>14

(* Only what is counted changes: the events of the tabs and the mentions. *)
Recounts(F, slots, hot) ==
  /\ hot \in [1 .. MaxTabs -> Nat]
  /\ slots = [i \in DOMAIN F.slots |-> slots[i]]
  /\ \A i \in DOMAIN F.slots : i \notin Live(F) => slots[i] = NoSlot
  /\ \A i \in Live(F) : /\ slots[i] \in SlotRec
                        /\ slots[i].handle = F.slots[i].handle /\ slots[i].key = F.slots[i].key
                        /\ slots[i].site = F.slots[i].site /\ slots[i].tab = F.slots[i].tab
                        /\ slots[i].jar = F.slots[i].jar
                        /\ slots[i].scratch > 0 => hot[i] > 0
                        /\ slots[i].events = slots[i].scratch + slots[i].sent

RecountedAs(F, G, slots) ==
  /\ TablesInv(G) /\ Live(G) = Live(F) /\ Sent(G)
  /\ JarsHome(F) => JarsHome(G)
  /\ G.slots = slots
  /\ G.expiry = F.expiry /\ G.next = F.next /\ G.sites = F.sites /\ G.calib = F.calib

LEMMA RecountedStep ==
  ASSUME NEW F, TablesInv(F), NEW slots, NEW hot, Recounts(F, slots, hot)
  PROVE  RecountedAs(F, [F EXCEPT !.slots = slots, !.hot = hot], slots)
<1> DEFINE G == [F EXCEPT !.slots = slots, !.hot = hot]
           AllSlots == SlotRec \cup {NoSlot}
<1>1. F \in FleetRec /\ HubsGood(F)
  BY DEF TablesInv
<1>2. /\ Len(F.slots) \in Nat /\ DOMAIN F.slots = 1 .. Len(F.slots) /\ Live(F) \subseteq DOMAIN F.slots
  BY <1>1, SlotFacts
<1>3. /\ hot \in [1 .. MaxTabs -> Nat]
      /\ slots = [i \in DOMAIN F.slots |-> slots[i]]
      /\ \A i \in DOMAIN F.slots : i \notin Live(F) => slots[i] = NoSlot
      /\ \A i \in Live(F) : /\ slots[i] \in SlotRec
                            /\ slots[i].handle = F.slots[i].handle /\ slots[i].key = F.slots[i].key
                            /\ slots[i].site = F.slots[i].site /\ slots[i].tab = F.slots[i].tab
                            /\ slots[i].jar = F.slots[i].jar
                            /\ slots[i].scratch > 0 => hot[i] > 0
                            /\ slots[i].events = slots[i].scratch + slots[i].sent
  BY DEF Recounts
<1>4. slots \in Seq(AllSlots) /\ DOMAIN slots = DOMAIN F.slots
  <2>1. \A i \in 1 .. Len(F.slots) : slots[i] \in AllSlots
    BY <1>2, <1>3
  <2> HIDE DEF AllSlots
  <2>2. slots \in [1 .. Len(F.slots) -> AllSlots]
    BY <1>2, <1>3, <2>1
  <2>3. QED
    BY <1>2, <2>2, SeqDef
<1>5. /\ G.hubs = F.hubs /\ G.slots = slots /\ G.handles = F.handles /\ G.tabs = F.tabs
      /\ G.free = F.free /\ G.hot = hot /\ G.sites = F.sites /\ G.calib = F.calib
      /\ G.expiry = F.expiry /\ G.next = F.next /\ G.live = F.live
  BY <1>1 DEF FleetRec
<1>6. G \in FleetRec
  BY <1>1, <1>3, <1>4 DEF FleetRec
<1> HIDE DEF G
<1>7. Live(G) = Live(F)
  BY <1>2, <1>3, <1>4, <1>5, EmptySlot DEF Live
<1>8. SamePlaces(G, F)
  <2>1. \A i \in DOMAIN F.slots : G.slots[i] = NoSlot <=> F.slots[i] = NoSlot
    BY <1>4, <1>5, <1>7 DEF Live
  <2>2. \A i \in Live(F) : /\ G.slots[i].handle = F.slots[i].handle
                           /\ G.slots[i].key = F.slots[i].key
                           /\ G.slots[i].site = F.slots[i].site
                           /\ G.slots[i].tab = F.slots[i].tab
    BY <1>3, <1>5
  <2>3. QED
    BY <1>4, <1>5, <2>1, <2>2 DEF SamePlaces, SameSites
<1>9. HubsGood(G) /\ HotAgrees(G)
  BY <1>1, <1>3, <1>5, <1>7 DEF HubsGood, HotAgrees
<1>10. TablesInv(G)
  BY <1>6, <1>8, <1>9, SamePlacesKeep
<1>11. Sent(G) /\ (JarsHome(F) => JarsHome(G))
  BY <1>3, <1>5, <1>7 DEF Sent, JarsHome
<1>12. QED
  BY <1>5, <1>7, <1>10, <1>11 DEF G, RecountedAs

(* Events come in for some of the tabs. *)
LEMMA AbsorbedStep ==
  ASSUME NEW F, TablesInv(F), Sent(F), NEW tabs
  PROVE  LET G == Absorbed(F, tabs)
         IN  /\ TablesInv(G) /\ Live(G) = Live(F) /\ Sent(G)
             /\ JarsHome(F) => JarsHome(G)
             /\ G.expiry = F.expiry /\ G.next = F.next /\ G.sites = F.sites /\ G.calib = F.calib
             /\ DOMAIN G.slots = DOMAIN F.slots
             /\ \A i \in Live(F) : /\ G.slots[i].handle = F.slots[i].handle
                                   /\ G.slots[i].key = F.slots[i].key
                                   /\ G.slots[i].batches = F.slots[i].batches
<1> DEFINE idx == {e.idx : e \in {d \in F.tabs : d.tab \in tabs}}
           slots == [i \in DOMAIN F.slots |-> IF i \in idx /\ F.slots[i] # NoSlot
                                              THEN WithEvent(F.slots[i]) ELSE F.slots[i]]
           H == [F EXCEPT !.slots = slots]
           hot == [i \in DOMAIN H.hot |-> IF i \in idx THEN H.hot[i] + 1 ELSE H.hot[i]]
           G == [H EXCEPT !.hot = hot]
<1>1. F \in FleetRec /\ HotAgrees(F) /\ SlotsTile(F)
  BY DEF TablesInv
<1>2. /\ Len(F.slots) \in Nat /\ DOMAIN F.slots = 1 .. Len(F.slots) /\ Live(F) \subseteq DOMAIN F.slots
      /\ \A i \in Live(F) : F.slots[i] \in SlotRec
      /\ \A i \in DOMAIN F.slots : i \notin Live(F) => F.slots[i] = NoSlot
  BY <1>1, SlotFacts
<1>3. F.hot \in [1 .. MaxTabs -> Nat] /\ H.hot = F.hot
  BY <1>1 DEF FleetRec
<1>4. \A i \in Live(F) : i \in 1 .. MaxTabs /\ F.hot[i] \in Nat
  BY <1>1, <1>2, <1>3, FleetAssumption DEF SlotsTile
<1>5. ASSUME NEW s \in SlotRec
      PROVE  /\ WithEvent(s) \in SlotRec
             /\ WithEvent(s).handle = s.handle /\ WithEvent(s).key = s.key /\ WithEvent(s).site = s.site
             /\ WithEvent(s).tab = s.tab /\ WithEvent(s).jar = s.jar /\ WithEvent(s).sent = s.sent
             /\ WithEvent(s).batches = s.batches
             /\ WithEvent(s).scratch = s.scratch + 1 /\ WithEvent(s).events = s.events + 1
  <2>1. s.scratch + 1 \in Nat /\ s.events + 1 \in Nat
    BY DEF SlotRec
  <2>2. QED
    BY <2>1 DEF SlotRec, WithEvent
<1>5a. Absorbed(F, tabs) = G
  BY DEF Absorbed
<1> HIDE DEF idx, slots, H
<1>6. hot \in [1 .. MaxTabs -> Nat]
  <2>1. \A n \in Nat : n + 1 \in Nat
    OBVIOUS
  <2>2. QED
    BY <1>3, <2>1
<1>7. \A i \in Live(F) : F.slots[i] # NoSlot
  BY DEF Live
<1>8. \A i \in Live(F) : /\ i \in idx => slots[i] = WithEvent(F.slots[i]) /\ hot[i] = F.hot[i] + 1
                         /\ i \notin idx => slots[i] = F.slots[i] /\ hot[i] = F.hot[i]
  BY <1>2, <1>3, <1>4, <1>7 DEF slots
<1>9. /\ slots = [i \in DOMAIN F.slots |-> slots[i]] /\ DOMAIN slots = DOMAIN F.slots
      /\ \A i \in DOMAIN F.slots : i \notin Live(F) => slots[i] = NoSlot
  BY <1>2 DEF slots
<1> HIDE DEF hot
<1>10. ASSUME NEW i \in Live(F)
       PROVE  /\ slots[i] \in SlotRec
              /\ slots[i].handle = F.slots[i].handle /\ slots[i].key = F.slots[i].key
              /\ slots[i].site = F.slots[i].site /\ slots[i].tab = F.slots[i].tab
              /\ slots[i].jar = F.slots[i].jar /\ slots[i].batches = F.slots[i].batches
              /\ slots[i].scratch > 0 => hot[i] > 0
              /\ slots[i].events = slots[i].scratch + slots[i].sent
  <2>1. F.slots[i] \in SlotRec /\ F.slots[i].events = F.slots[i].scratch + F.slots[i].sent
        /\ (F.slots[i].scratch > 0 => F.hot[i] > 0) /\ F.hot[i] \in Nat
    BY <1>1, <1>2, <1>4 DEF Sent, HotAgrees
  <2>2. F.slots[i].scratch \in Nat /\ F.slots[i].sent \in Nat
    BY <2>1 DEF SlotRec
  <2>3. CASE i \in idx
    BY <1>5, <1>8, <2>1, <2>2, <2>3
  <2>4. CASE i \notin idx
    BY <1>8, <2>1, <2>4
  <2>5. QED
    BY <2>3, <2>4
<1>11. Recounts(F, slots, hot)
  BY <1>6, <1>9, <1>10 DEF Recounts
<1>12. /\ TablesInv(G) /\ Live(G) = Live(F) /\ Sent(G)
       /\ JarsHome(F) => JarsHome(G)
       /\ G.slots = slots
       /\ G.expiry = F.expiry /\ G.next = F.next /\ G.sites = F.sites /\ G.calib = F.calib
  <2>1. G = [F EXCEPT !.slots = slots, !.hot = hot]
    BY DEF H
  <2> HIDE DEF G
  <2>2. RecountedAs(F, G, slots)
    BY <1>11, <2>1, RecountedStep
  <2>3. QED
    BY <2>2 DEF RecountedAs
<1> HIDE DEF G
<1>13. QED
  BY <1>9, <1>10, <1>12, <1>5a

(* The ripe slots give their events to a push. *)
LEMMA ShippedStep ==
  ASSUME NEW F, TablesInv(F), Sent(F), now \in Nat
  PROVE  LET G == Shipped(F)
         IN  /\ TablesInv(G) /\ Live(G) = Live(F) /\ Sent(G)
             /\ JarsHome(F) => JarsHome(G)
             /\ G.expiry = F.expiry /\ G.next = F.next /\ G.sites = F.sites /\ G.calib = F.calib
             /\ DOMAIN G.slots = DOMAIN F.slots
             /\ \A i \in Live(F) : /\ G.slots[i].handle = F.slots[i].handle
                                   /\ G.slots[i].key = F.slots[i].key
                                   /\ G.slots[i].batches >= F.slots[i].batches
                                   /\ i \in Ripe(F) => G.slots[i].batches = F.slots[i].batches + 1
<1> DEFINE slots == [i \in DOMAIN F.slots |-> IF i \in Ripe(F) THEN Emptied(F.slots[i]) ELSE F.slots[i]]
           H == [F EXCEPT !.slots = slots]
           hot == [i \in DOMAIN H.hot |-> IF i \notin Live(F) THEN 0
                                          ELSE IF i \in Ripe(F) THEN H.hot[i] - 1 ELSE H.hot[i]]
           G == [H EXCEPT !.hot = hot]
<1>1. F \in FleetRec /\ HotAgrees(F) /\ SlotsTile(F)
  BY DEF TablesInv
<1>2. /\ Len(F.slots) \in Nat /\ DOMAIN F.slots = 1 .. Len(F.slots) /\ Live(F) \subseteq DOMAIN F.slots
      /\ \A i \in Live(F) : F.slots[i] \in SlotRec
      /\ \A i \in DOMAIN F.slots : i \notin Live(F) => F.slots[i] = NoSlot
  BY <1>1, SlotFacts
<1>3. F.hot \in [1 .. MaxTabs -> Nat] /\ H.hot = F.hot
  BY <1>1 DEF FleetRec
<1>4. \A i \in Live(F) : i \in 1 .. MaxTabs /\ F.hot[i] \in Nat
  BY SMTT(20), <1>1, <1>2, <1>3, FleetAssumption DEF SlotsTile
<1>5. Ripe(F) \subseteq Live(F) /\ \A i \in Ripe(F) : F.hot[i] > 0
  BY DEF Ripe
<1> DEFINE ripe == Ripe(F)
<1>6. ASSUME NEW s \in SlotRec
      PROVE  /\ Emptied(s) \in SlotRec
             /\ Emptied(s).handle = s.handle /\ Emptied(s).key = s.key /\ Emptied(s).site = s.site
             /\ Emptied(s).tab = s.tab /\ Emptied(s).jar = s.jar /\ Emptied(s).sent = s.sent + s.scratch
             /\ Emptied(s).batches = s.batches + 1
             /\ Emptied(s).scratch = 0 /\ Emptied(s).events = s.events
  <2>1. s.batches + 1 \in Nat /\ s.sent + s.scratch \in Nat /\ 0 \in Nat
    BY DEF SlotRec
  <2>2. QED
    BY <2>1 DEF SlotRec, Emptied
<1>6a. Shipped(F) = G
  BY DEF Shipped
<1> HIDE DEF ripe, slots, H
<1>7. hot \in [1 .. MaxTabs -> Nat]
  <2>1. ASSUME NEW i \in 1 .. MaxTabs
        PROVE  (IF i \notin Live(F) THEN 0 ELSE IF i \in ripe THEN F.hot[i] - 1 ELSE F.hot[i]) \in Nat
    <3>1. F.hot[i] \in Nat /\ (i \in ripe => F.hot[i] > 0)
      BY <1>3, <1>5 DEF ripe
    <3>2. \A n \in Nat : n > 0 => n - 1 \in Nat
      OBVIOUS
    <3>3. QED
      BY <3>1, <3>2
  <2>2. QED
    BY <1>3, <2>1 DEF ripe
<1>8. \A i \in Live(F) : /\ i \in ripe => slots[i] = Emptied(F.slots[i])
                         /\ i \notin ripe => slots[i] = F.slots[i] /\ hot[i] = F.hot[i]
  BY <1>2, <1>3, <1>4 DEF ripe, slots
<1>9. /\ slots = [i \in DOMAIN F.slots |-> slots[i]] /\ DOMAIN slots = DOMAIN F.slots
      /\ \A i \in DOMAIN F.slots : i \notin Live(F) => slots[i] = NoSlot
  BY <1>2, <1>5 DEF slots
<1> HIDE DEF hot
<1>10. ASSUME NEW i \in Live(F)
       PROVE  /\ slots[i] \in SlotRec
              /\ slots[i].handle = F.slots[i].handle /\ slots[i].key = F.slots[i].key
              /\ slots[i].site = F.slots[i].site /\ slots[i].tab = F.slots[i].tab
              /\ slots[i].jar = F.slots[i].jar
              /\ slots[i].batches >= F.slots[i].batches
              /\ i \in ripe => slots[i].batches = F.slots[i].batches + 1
              /\ slots[i].scratch > 0 => hot[i] > 0
              /\ slots[i].events = slots[i].scratch + slots[i].sent
  <2>1. F.slots[i] \in SlotRec /\ F.slots[i].events = F.slots[i].scratch + F.slots[i].sent
        /\ (F.slots[i].scratch > 0 => F.hot[i] > 0)
    BY <1>1, <1>2 DEF Sent, HotAgrees
  <2>2. F.slots[i].scratch \in Nat /\ F.slots[i].sent \in Nat /\ F.slots[i].batches \in Nat
    BY <2>1 DEF SlotRec
  <2>3. CASE i \in ripe
    BY <1>6, <1>8, <2>1, <2>2, <2>3
  <2>4. CASE i \notin ripe
    BY <1>8, <2>1, <2>2, <2>4
  <2>5. QED
    BY <2>3, <2>4
<1>11. Recounts(F, slots, hot)
  BY <1>7, <1>9, <1>10 DEF Recounts
<1>12. /\ TablesInv(G) /\ Live(G) = Live(F) /\ Sent(G)
       /\ JarsHome(F) => JarsHome(G)
       /\ G.slots = slots
       /\ G.expiry = F.expiry /\ G.next = F.next /\ G.sites = F.sites /\ G.calib = F.calib
  <2>1. G = [F EXCEPT !.slots = slots, !.hot = hot]
    BY DEF H
  <2> HIDE DEF G
  <2>2. RecountedAs(F, G, slots)
    BY <1>11, <2>1, RecountedStep
  <2>3. QED
    BY <2>2 DEF RecountedAs
<1> HIDE DEF G
<1>13. QED
  BY <1>9, <1>10, <1>12, <1>6a DEF ripe

LEMMA PumpKeepsInv ==
  ASSUME FleetInv, Pump
  PROVE  /\ FleetInv' /\ Keeps(fleet, fleet')
         /\ \E new \in SUBSET JobRec :
              /\ jobs' = jobs \cup new /\ owed' = owed + EventsOf(new)
              /\ jobs \cap new = {}
              /\ IsFiniteSet(new) /\ \A j \in new : j.events <= MaxEvents
<1>1. PICK due \in [DueTabs(fleet) -> {now, now + 1}], active \in SUBSET DueTabs(fleet) :
        LET TabOf(d) == Encoded(d.lane, d.key.tab)
            T == [fleet EXCEPT !.hubs = [l \in DOMAIN @ |-> Ticked(@[l], l, due)]]
            F == Absorbed(T, {TabOf(d) : d \in active})
            new == {JobOf(F.slots[i]) : i \in Ripe(F)}
        IN  /\ \A i \in Live(F) : F.slots[i].events <= MaxEvents
            /\ fleet' = Shipped(F)
            /\ jobs' = jobs \cup new
            /\ owed' = owed + EventsOf(new)
  BY DEF Pump
<1> DEFINE tabs == {Encoded(d.lane, d.key.tab) : d \in active}
           T == [fleet EXCEPT !.hubs = [l \in DOMAIN @ |-> Ticked(@[l], l, due)]]
           F == Absorbed(T, tabs)
           S == Shipped(F)
           new == {JobOf(F.slots[i]) : i \in Ripe(F)}
<1>2. /\ fleet' = S /\ jobs' = jobs \cup new /\ owed' = owed + EventsOf(new)
      /\ \A i \in Live(F) : F.slots[i].events <= MaxEvents
  BY <1>1
<1>3. RestTyped /\ TablesInv(fleet) /\ ExpiryAgrees(fleet) /\ PushesInv(fleet)
  BY DEF FleetInv
<1>4. now \in Nat /\ due \in [DueTabs(fleet) -> Nat]
  BY <1>3 DEF RestTyped
<1>5. /\ TablesInv(T) /\ Live(T) = Live(fleet) /\ T.slots = fleet.slots
      /\ T.expiry = fleet.expiry /\ T.next = fleet.next /\ T.sites = fleet.sites /\ T.calib = fleet.calib
  BY <1>3, <1>4, TickedStep
<1> HIDE DEF T, tabs
<1>6. Sent(T) /\ JarsHome(T)
  BY <1>3, <1>5 DEF Sent, JarsHome, PushesInv
<1>7. /\ TablesInv(F) /\ Live(F) = Live(T) /\ Sent(F) /\ JarsHome(F)
      /\ F.expiry = T.expiry /\ F.next = T.next /\ F.sites = T.sites /\ F.calib = T.calib
      /\ DOMAIN F.slots = DOMAIN T.slots
      /\ \A i \in Live(T) : /\ F.slots[i].handle = T.slots[i].handle
                            /\ F.slots[i].key = T.slots[i].key
                            /\ F.slots[i].batches = T.slots[i].batches
  BY <1>5, <1>6, AbsorbedStep
<1> HIDE DEF F
<1>8. /\ TablesInv(S) /\ Live(S) = Live(F) /\ Sent(S) /\ JarsHome(S)
      /\ S.expiry = F.expiry /\ S.next = F.next /\ S.sites = F.sites /\ S.calib = F.calib
      /\ DOMAIN S.slots = DOMAIN F.slots
      /\ \A i \in Live(F) : /\ S.slots[i].handle = F.slots[i].handle
                            /\ S.slots[i].key = F.slots[i].key
                            /\ S.slots[i].batches >= F.slots[i].batches
                            /\ i \in Ripe(F) => S.slots[i].batches = F.slots[i].batches + 1
  BY <1>4, <1>7, ShippedStep
<1> HIDE DEF S
<1>9. /\ Live(S) = Live(fleet) /\ DOMAIN S.slots = DOMAIN fleet.slots
      /\ S.expiry = fleet.expiry /\ S.next = fleet.next /\ S.sites = fleet.sites /\ S.calib = fleet.calib
      /\ \A i \in Live(fleet) : /\ S.slots[i].handle = fleet.slots[i].handle
                                /\ S.slots[i].key = fleet.slots[i].key
                                /\ S.slots[i].batches >= fleet.slots[i].batches
  BY <1>5, <1>7, <1>8
<1>10. \A i \in Live(fleet) : /\ S.slots[i] \in SlotRec /\ fleet.slots[i] \in SlotRec
                              /\ S.slots[i].batches \in Nat /\ fleet.slots[i].batches \in Nat
  <2>1. \A i \in Live(fleet) : S.slots[i] \in SlotRec /\ fleet.slots[i] \in SlotRec
    BY <1>3, <1>8, <1>9, SlotFacts DEF TablesInv
  <2>2. QED
    BY <2>1 DEF SlotRec
<1>11. ASSUME NEW i \in Ripe(F)
       PROVE  /\ JobOf(F.slots[i]) \in JobRec /\ JobOf(F.slots[i]) \notin jobs
              /\ JobOf(F.slots[i]).events <= MaxEvents
              /\ MadeFor(S, JobOf(F.slots[i])) /\ Numbered(S, JobOf(F.slots[i]))
  <2> DEFINE job == JobOf(F.slots[i])
  <2>1. i \in Live(F) /\ F.slots[i] \in SlotRec
    BY <1>7, SlotFacts DEF Ripe, TablesInv
  <2>2. F.slots[i].batches + 1 \in Nat /\ F.slots[i].handle \in Nat
    BY <2>1 DEF SlotRec, HandleNumbers
  <2>3. /\ job \in JobRec /\ job.handle = F.slots[i].handle /\ job.key = F.slots[i].key
        /\ job.batch = F.slots[i].batches + 1 /\ job.events = F.slots[i].scratch
    BY <2>1, <2>2 DEF JobOf, JobRec, SlotRec
  <2> HIDE DEF job
  <2>4. i \in Live(S) /\ S.slots[i].handle = job.handle /\ S.slots[i].key = job.key /\ S.slots[i].batches = job.batch
    BY <1>8, <2>1, <2>3
  <2>5. /\ S.slots[i].handle < S.next
        /\ \A k \in Live(S) : k # i => S.slots[k].handle # S.slots[i].handle
    BY <1>8, <2>4 DEF TablesInv, SlotsAgree
  <2>6. S.slots[i].batches <= S.slots[i].batches
    BY <1>9, <1>10, <2>4
  <2>7. MadeFor(S, job) /\ Numbered(S, job)
    BY <2>4, <2>5, <2>6 DEF MadeFor, Numbered
  <2>8. ASSUME job \in jobs
        PROVE  FALSE
    <3>1. Numbered(fleet, job)
      BY <1>3, <2>8 DEF PushesInv, PushesFit
    <3>2. i \in Live(fleet) /\ fleet.slots[i].handle = job.handle /\ fleet.slots[i].batches = F.slots[i].batches
      BY <1>5, <1>7, <2>1, <2>3
    <3>3. job.batch <= F.slots[i].batches
      BY <3>1, <3>2 DEF Numbered
    <3>4. F.slots[i].batches \in Nat
      BY <2>1 DEF SlotRec
    <3>5. QED
      BY <2>3, <3>3, <3>4
  <2>9. job.events <= MaxEvents
    <3>1. /\ F.slots[i].scratch \in Nat /\ F.slots[i].sent \in Nat
          /\ F.slots[i].events = F.slots[i].scratch + F.slots[i].sent
          /\ F.slots[i].events <= MaxEvents /\ MaxEvents \in Nat
      BY <1>2, <1>7, <2>1, FleetAssumption DEF SlotRec, Sent
    <3>2. QED
      BY <2>3, <3>1
  <2>10. QED
    BY <2>3, <2>7, <2>8, <2>9 DEF job
<1>12. /\ new \subseteq JobRec /\ jobs \cap new = {}
       /\ \A j \in new : MadeFor(S, j) /\ Numbered(S, j) /\ j.events <= MaxEvents
  BY <1>11
<1>12a. IsFiniteSet(new)
  <2> DEFINE made == [i \in Ripe(F) |-> JobOf(F.slots[i])]
  <2>1. IsFiniteSet(Ripe(F))
    <3>1. F \in FleetRec
      BY <1>7 DEF TablesInv
    <3>2. Ripe(F) \subseteq Live(F)
      BY DEF Ripe
    <3>3. QED
      BY <3>1, <3>2, SlotFacts
  <2>2. made \in Surjection(Ripe(F), new)
    BY DEF Surjection
  <2> HIDE DEF made, new
  <2>3. QED
    BY <2>1, <2>2, FS_Surjection
<1> HIDE DEF new
<1>13. /\ \A j \in jobs : MadeFor(S, j) /\ Numbered(S, j)
       /\ \A n \in DOMAIN answers : MadeFor(S, answers[n])
  <2>1. \A j : MadeFor(fleet, j) => MadeFor(S, j)
    BY <1>9 DEF MadeFor
  <2>2. ASSUME NEW j \in jobs, Numbered(fleet, j)
        PROVE  Numbered(S, j)
    <3>1. j.batch \in Nat
      BY <1>3 DEF RestTyped, JobRec
    <3>2. QED
      BY <1>9, <1>10, <2>2, <3>1 DEF Numbered
  <2>3. QED
    BY <1>3, <2>1, <2>2 DEF PushesInv, PushesFit
<1>14. /\ UNCHANGED <<now, want, late, answers>> /\ at' = "wait"
  BY DEF Pump
<1>15. RestTyped'
  BY <1>2, <1>3, <1>12, <1>14 DEF RestTyped
<1>16. TablesInv(fleet)'
  <2>1. TablesInv(fleet')
    BY <1>2, <1>8
  <2>2. QED
    BY <2>1, TablesPrimed
<1>17. ExpiryAgrees(fleet)'
  BY <1>2, <1>3, <1>9, <1>14 DEF ExpiryAgrees
<1>18. PushesFit(fleet)'
  BY <1>2, <1>12, <1>13, <1>14 DEF PushesFit, MadeFor, Numbered
<1>19. PushesInv(fleet)'
  <2>1. VerdictsHome(S)
    BY <1>3, <1>9 DEF PushesInv, VerdictsHome
  <2>2. QED
    BY <1>2, <1>8, <1>18, <2>1 DEF PushesInv, JarsHome, VerdictsHome, Sent
<1>20. FleetInv' /\ Keeps(fleet, fleet')
  BY <1>2, <1>9, <1>15, <1>16, <1>17, <1>19 DEF FleetInv, Keeps
<1>21. QED
  BY <1>2, <1>12, <1>20, <1>12a

-----------------------------------------------------------------------------
(* Every step. *)

(* What LivesItsTime says of one step. *)
Lives == \A i \in Live(fleet) :
           (i \notin Live(fleet') \/ fleet'.slots[i].handle # fleet.slots[i].handle)
             => at' = "stopped" \/ \E e \in fleet.expiry : e.handle = fleet.slots[i].handle /\ e.at <= now

LEMMA InitInv == Init => FleetInv
<1> SUFFICES ASSUME Init
             PROVE  FleetInv
  OBVIOUS
<1>1. RestTyped
  <2>1. Interval \in Nat
    BY FleetAssumption
  <2>2. <<>> \in Seq(AnswerRec)
    OBVIOUS
  <2>3. QED
    BY <2>1, <2>2 DEF Init, RestTyped
<1>2. QED
  BY <1>1, NewFleetInv DEF Init

LEMMA NextInv ==
  ASSUME FleetInv, [Next]_vars
  PROVE  FleetInv' /\ Lives
<1>1. ASSUME FleetInv' /\ Keeps(fleet, fleet')
      PROVE  FleetInv' /\ Lives
  BY <1>1 DEF Keeps, Lives
<1>2. /\ now \in Nat /\ now + 1 \in Nat /\ now <= now /\ now <= now + 1
      /\ want \in SUBSET Keys /\ late \in BOOLEAN /\ at \in {"wait", "attaching", "pumping", "stopped"}
  BY DEF FleetInv, RestTyped
<1>3. CASE Receive
  <2>1. /\ UNCHANGED <<fleet, jobs, answers, now>> /\ at' = "attaching"
        /\ want' \in SUBSET Keys /\ late' \in BOOLEAN
    BY <1>3 DEF Receive, InputDue
  <2>2. QED
    BY <1>1, <1>2, <2>1, QuietStep
<1>4. CASE Attach
  BY <1>1, <1>4, AttachKeepsInv
<1>5. CASE ExpireOne
  <2>1. Lives
    BY <1>5, ExpireKeepsInv DEF Lives
  <2>2. QED
    BY <1>5, <2>1, ExpireKeepsInv
<1>6. CASE Answer
  BY <1>1, <1>6, AnswerKeepsInv
<1>7. CASE Wake
  <2>1. UNCHANGED <<fleet, jobs, answers, now, want, late>> /\ at' = "pumping"
    BY <1>7 DEF Wake
  <2>2. QED
    BY <1>1, <1>2, <2>1, QuietStep
<1>8. CASE Stop
  <2>1. Lives
    BY <1>8 DEF Stop, Lives
  <2>2. QED
    BY <1>8, <2>1, StopKeepsInv
<1>9. CASE Pump
  BY <1>1, <1>9, PumpKeepsInv
<1>10. CASE \E j \in jobs : PushEnds(j)
  BY <1>1, <1>10, PushEndsKeepsInv
<1>11. CASE Advance
  <2>1. UNCHANGED <<fleet, jobs, answers, at, want, late>> /\ now' = now + 1
    BY <1>11 DEF Advance
  <2>2. QED
    BY <1>1, <1>2, <2>1, QuietStep
<1>12. CASE UNCHANGED vars
  <2>1. UNCHANGED <<fleet, jobs, answers, now, at, want, late>>
    BY <1>12 DEF vars
  <2>2. QED
    BY <1>1, <1>2, <2>1, QuietStep
<1>13. QED
  BY <1>3, <1>4, <1>5, <1>6, <1>7, <1>8, <1>9, <1>10, <1>11, <1>12 DEF Next

(* What the tables, the slots and the hubs say of a tab, inductively. *)
THEOREM FleetSound == Spec => []FleetInv
<1>1. FleetInv /\ [Next]_vars => FleetInv'
  BY NextInv
<1>2. QED
  BY InitInv, <1>1, PTL DEF Spec

(* A tab is in the same slot, hub and site by every table, every live tab  *)
(* has its expiry pending, the free slots are the empty ones, sites count  *)
(* their tabs, and every driver keeps its one key in its hub               *)
(* (fleet.rs:115-144, 178-268, 316-353).                                   *)
THEOREM TablesAlwaysAgree == Spec => []TablesAgree
<1>1. FleetInv => TablesAgree
  <2> SUFFICES ASSUME FleetInv
               PROVE  TablesAgree
    OBVIOUS
  <2>1. /\ fleet \in FleetRec /\ HubsGood(fleet) /\ SlotsAgree(fleet) /\ SlotsTile(fleet)
        /\ HubsAgree(fleet) /\ SitesAgree(fleet, {}) /\ HotAgrees(fleet)
        /\ ExpiryAgrees(fleet) /\ RestTyped
    BY DEF FleetInv, TablesInv
  <2>2. TypeOK
    <3>1. \A l \in DOMAIN fleet.hubs : HubType(fleet.hubs[l])
      BY <2>1 DEF HubsGood, HubGood, HubRec, HubType, TabRec, InputRec, KeyRec
    <3>2. fleet.live \in 0 .. MaxTabs /\ fleet.next \in 0 .. MaxHandle
      BY <2>1, FleetAssumption DEF FleetRec, SlotsTile, SlotsAgree
    <3>3. QED
      BY <2>1, <3>1, <3>2 DEF TypeOK, SlotsTile, RestTyped
  <2>3. Resolves
    BY <2>1 DEF Resolves, SlotsAgree, SlotsTile
  <2>4. LiveCounted
    BY <2>1 DEF LiveCounted, SlotsTile, HubsAgree
  <2>5. SitesCounted
    <3>1. ASSUME NEW e \in fleet.sites
          PROVE  e.tabs > 0 /\ e.tabs = Cardinality({i \in Live(fleet) : fleet.slots[i].key = e.key})
      <4>1. e.tabs > 0 /\ e.tabs = Cardinality(OfKey(fleet, e.key)) + 0
        BY <2>1 DEF SitesAgree
      <4>2. Cardinality(OfKey(fleet, e.key)) \in Nat
        BY <2>1, SlotFacts DEF OfKey
      <4>3. QED
        BY <4>1, <4>2 DEF OfKey
    <3>2. QED
      BY <2>1, <3>1 DEF SitesCounted, SitesAgree, Used
  <2>6. ExpiryCovers
    BY <2>1 DEF ExpiryCovers, ExpiryAgrees
  <2>7. HotCovers
    <3>1. ASSUME NEW l \in DOMAIN fleet.hubs
          PROVE  Driven(fleet.hubs[l])
      <4> DEFINE h == fleet.hubs[l]
      <4>1. /\ \A t \in Open(h) : h.tabs[t].input.some
            /\ h.heap = {KeyOfTab(h, t) : t \in Open(h)}
        BY <2>1 DEF HubsGood, HubGood
      <4> HIDE DEF h
      <4>2. \A t : KeyOfTab(h, t).tab = t /\ KeyOfTab(h, t).gen = h.tabs[t].gen
        BY DEF KeyOfTab, Key
      <4>3. \A t \in Open(h) : {k \in h.heap : Fresh(h, k) /\ k.tab = t} = {KeyOfTab(h, t)}
        BY <4>1, <4>2 DEF Fresh
      <4>4. \A k \in h.heap : k.tab \in Open(h)
        BY <4>1, <4>2
      <4>5. QED
        BY <4>3, <4>4 DEF Driven, h
    <3>2. QED
      BY <2>1, <3>1 DEF HotCovers, HotAgrees
  <2>8. QED
    BY <2>2, <2>3, <2>4, <2>5, <2>6, <2>7 DEF TablesAgree
<1>2. QED
  BY FleetSound, <1>1, PTL

(* The cookies and the verdict of a push reach the tab and the site it was *)
(* made for or nobody, however late they come and whatever was attached    *)
(* and given up meanwhile (fleet.rs:274-287, 391-411).                     *)
THEOREM AnswersReachHome == Spec => []AnswersLandHome
<1>1. FleetInv => AnswersLandHome
  BY DEF FleetInv, PushesInv, JarsHome, VerdictsHome, AnswersLandHome
<1>2. QED
  BY FleetSound, <1>1, PTL

(* Only its own expiry ends a tab that was attached, never that of the tab *)
(* that had its slot before (fleet.rs:247-268).                            *)
THEOREM TabsLiveTheirTime == Spec => LivesItsTime
<1>1. FleetInv /\ [Next]_vars => FleetInv' /\ [Lives]_vars
  BY NextInv
<1>2. QED
  BY FleetSound, <1>1, PTL DEF Spec, LivesItsTime, Lives

-----------------------------------------------------------------------------
(* The events: every one that left its tab is in one push, in one answer   *)
(* or reported.                                                            *)
AllEvents == [j \in JobRec |-> j.events]
Waiting(s) == [n \in DOMAIN s |-> s[n].events]

CountInv == /\ owed = Total(AllEvents, jobs) + Total(Waiting(answers), DOMAIN answers)
            /\ IsFiniteSet(Atoms(AllEvents, jobs))
            /\ IsFiniteSet(Atoms(Waiting(answers), DOMAIN answers))

LEMMA EventsAre ==
  ASSUME NEW S \in SUBSET JobRec
  PROVE  EventsOf(S) = Total(AllEvents, S)
<1>1. \A j \in S : [k \in S |-> k.events][j] = AllEvents[j]
  BY DEF AllEvents
<1>2. QED
  BY <1>1, TotalOfSame DEF EventsOf

(* An answer joins the channel. *)
LEMMA WaitingGrows ==
  ASSUME NEW s \in Seq(AnswerRec), NEW a \in AnswerRec,
         IsFiniteSet(Atoms(Waiting(s), DOMAIN s))
  PROVE  LET g == Append(s, a)
         IN  /\ IsFiniteSet(Atoms(Waiting(g), DOMAIN g))
             /\ Total(Waiting(g), DOMAIN g) = Total(Waiting(s), DOMAIN s) + a.events
<1> DEFINE g == Append(s, a)
           m == Len(s) + 1
<1>1. /\ Len(s) \in Nat /\ DOMAIN s = 1 .. Len(s) /\ m \notin DOMAIN s
      /\ DOMAIN g = DOMAIN s \cup {m} /\ g[m] = a
      /\ \A n \in DOMAIN s : g[n] = s[n]
  <2>1. Len(s) \in Nat /\ DOMAIN s = 1 .. Len(s)
    OBVIOUS
  <2>2. Len(g) = Len(s) + 1 /\ DOMAIN g = 1 .. Len(s) + 1 /\ g[m] = a /\ \A n \in 1 .. Len(s) : g[n] = s[n]
    BY <2>1, AppendProperties
  <2>3. 1 .. Len(s) + 1 = (1 .. Len(s)) \cup {m} /\ m \notin 1 .. Len(s)
    BY <2>1
  <2>4. QED
    BY <2>1, <2>2, <2>3
<1> HIDE DEF g, m
<1>2. \A n \in DOMAIN s : Waiting(g)[n] = Waiting(s)[n]
  BY <1>1 DEF Waiting
<1>3. Atoms(Waiting(g), DOMAIN s) = Atoms(Waiting(s), DOMAIN s)
      /\ Total(Waiting(g), DOMAIN s) = Total(Waiting(s), DOMAIN s)
  BY <1>2, TotalOfSame
<1>4. Waiting(g)[m] = a.events /\ a.events \in Nat
  BY <1>1 DEF Waiting, AnswerRec
<1>5. /\ IsFiniteSet(Atoms(Waiting(g), DOMAIN s \cup {m}))
      /\ Total(Waiting(g), DOMAIN s \cup {m}) = Total(Waiting(g), DOMAIN s) + Waiting(g)[m]
  BY <1>1, <1>3, <1>4, TotalGrows
<1>6. QED
  BY <1>1, <1>3, <1>4, <1>5 DEF g

(* The first answer is taken. *)
LEMMA WaitingShrinks ==
  ASSUME NEW s \in Seq(AnswerRec), s # <<>>,
         IsFiniteSet(Atoms(Waiting(s), DOMAIN s))
  PROVE  LET g == Tail(s)
         IN  /\ IsFiniteSet(Atoms(Waiting(g), DOMAIN g))
             /\ Total(Waiting(g), DOMAIN g) = Total(Waiting(s), DOMAIN s) - Head(s).events
             /\ Total(Waiting(s), DOMAIN s) \in Nat
             /\ Head(s).events \in Nat
<1> DEFINE g == Tail(s)
           rest == DOMAIN s \ {1}
           r == [n \in rest |-> n - 1]
<1>1. /\ Len(s) \in Nat \ {0} /\ DOMAIN s = 1 .. Len(s) /\ 1 \in DOMAIN s
      /\ Head(s) = s[1] /\ s[1] \in AnswerRec
      /\ g \in Seq(AnswerRec) /\ DOMAIN g = 1 .. Len(s) - 1
      /\ \A n \in 1 .. Len(s) - 1 : g[n] = s[n + 1]
  BY EmptySeq, ElementOfSeq
<1> HIDE DEF g
<1>2. Waiting(s)[1] = Head(s).events /\ Head(s).events \in Nat
  BY <1>1 DEF Waiting, AnswerRec
<1>3. /\ IsFiniteSet(Atoms(Waiting(s), rest))
      /\ Total(Waiting(s), rest) = Total(Waiting(s), DOMAIN s) - Waiting(s)[1]
  BY <1>1, <1>2, TotalShrinks
<1>4. \A n \in rest : n \in Nat /\ n - 1 \in DOMAIN g /\ g[n - 1] = s[n]
  BY <1>1
<1>5. \A n \in DOMAIN g : n \in Nat /\ n + 1 \in rest /\ (n + 1) - 1 = n
  BY <1>1
<1>6. r \in [rest -> DOMAIN g]
  BY <1>4
<1>7. \A c, d \in rest : r[c] = r[d] => c = d
  BY <1>4
<1>8. \A e \in DOMAIN g : \E c \in rest : r[c] = e
  BY <1>5
<1>9. \A c \in rest : Waiting(g)[r[c]] = Waiting(s)[c]
  BY <1>4 DEF Waiting
<1> HIDE DEF r, rest
<1>10. Renames(r, Waiting(s), rest, Waiting(g), DOMAIN g)
  BY <1>6, <1>7, <1>8, <1>9 DEF Renames
<1>11. IsFiniteSet(Atoms(Waiting(g), DOMAIN g)) /\ Total(Waiting(g), DOMAIN g) = Total(Waiting(s), rest)
  BY <1>3, <1>10, TotalOfRenamed
<1>12. Total(Waiting(s), DOMAIN s) \in Nat
  BY TotalOfPart
<1>13. QED
  BY <1>2, <1>3, <1>11, <1>12 DEF g

LEMMA CountedWhenEmpty ==
  ASSUME jobs = {}, answers = <<>>, owed = 0
  PROVE  CountInv
<1>1. Total(AllEvents, jobs) = 0 /\ IsFiniteSet(Atoms(AllEvents, jobs))
  BY TotalOfNone
<1>2. DOMAIN answers = {}
  OBVIOUS
<1>3. Total(Waiting(answers), DOMAIN answers) = 0 /\ IsFiniteSet(Atoms(Waiting(answers), DOMAIN answers))
  BY <1>2, TotalOfNone
<1>4. QED
  BY <1>1, <1>3 DEF CountInv

LEMMA NextCounts ==
  ASSUME FleetInv, CountInv, [Next]_vars
  PROVE  CountInv'
<1> DEFINE inJobs == Total(AllEvents, jobs)
           inAnswers == Total(Waiting(answers), DOMAIN answers)
<1>1. /\ jobs \subseteq JobRec /\ answers \in Seq(AnswerRec)
      /\ owed = inJobs + inAnswers
      /\ IsFiniteSet(Atoms(AllEvents, jobs))
      /\ IsFiniteSet(Atoms(Waiting(answers), DOMAIN answers))
  BY DEF FleetInv, RestTyped, CountInv
<1>2. inJobs \in Nat /\ inAnswers \in Nat
  BY <1>1, TotalOfPart
<1>3. \A j \in jobs : AllEvents[j] = j.events /\ j.events \in Nat
  BY <1>1 DEF AllEvents, JobRec
<1>4. CountInv' <=> /\ owed' = Total(AllEvents, jobs') + Total(Waiting(answers'), DOMAIN answers')
                    /\ IsFiniteSet(Atoms(AllEvents, jobs'))
                    /\ IsFiniteSet(Atoms(Waiting(answers'), DOMAIN answers'))
  BY DEF CountInv, AllEvents, JobRec, Waiting
<1>5. CASE UNCHANGED <<jobs, answers, owed>>
  BY <1>1, <1>4, <1>5
<1>6. CASE Answer
  <2>1. jobs' = jobs /\ owed' = owed - Head(answers).events /\ answers' = Tail(answers) /\ answers # <<>>
    BY <1>6 DEF Answer
  <2> DEFINE g == Tail(answers)
  <2>2. /\ IsFiniteSet(Atoms(Waiting(g), DOMAIN g))
        /\ Total(Waiting(g), DOMAIN g) = inAnswers - Head(answers).events
        /\ Head(answers).events \in Nat
    BY <1>1, <2>1, WaitingShrinks
  <2> HIDE DEF g
  <2>3. owed - Head(answers).events = inJobs + Total(Waiting(g), DOMAIN g)
    <3> HIDE DEF inJobs, inAnswers
    <3>1. QED
      BY <1>1, <1>2, <2>2
  <2>4. QED
    BY <1>1, <1>4, <2>1, <2>2, <2>3 DEF g
<1>7. CASE Stop
  <2>1. jobs' = {} /\ answers' = <<>> /\ owed' = 0
    BY <1>7 DEF Stop
  <2>2. /\ Total(AllEvents, {}) = 0 /\ IsFiniteSet(Atoms(AllEvents, {}))
        /\ Total(Waiting(<<>>), {}) = 0 /\ IsFiniteSet(Atoms(Waiting(<<>>), {}))
    BY TotalOfNone
  <2>3. DOMAIN answers' = {}
    BY <2>1
  <2>4. QED
    BY <1>4, <2>1, <2>2, <2>3
<1>8. CASE Pump
  <2>1. PICK new \in SUBSET JobRec :
          /\ jobs' = jobs \cup new /\ owed' = owed + EventsOf(new)
          /\ jobs \cap new = {}
          /\ IsFiniteSet(new) /\ \A j \in new : j.events <= MaxEvents
    BY <1>8, PumpKeepsInv
  <2>2. answers' = answers
    BY <1>8 DEF Pump
  <2>3. IsFiniteSet(Atoms(AllEvents, new))
    <3>1. \A j \in new : AllEvents[j] \in Nat /\ AllEvents[j] <= MaxEvents
      BY <2>1 DEF AllEvents, JobRec
    <3>2. MaxEvents \in Nat
      BY FleetAssumption
    <3>3. QED
      BY <2>1, <3>1, <3>2, TotalOfBounded
  <2>4. /\ IsFiniteSet(Atoms(AllEvents, jobs'))
        /\ Total(AllEvents, jobs') = inJobs + Total(AllEvents, new)
    BY <1>1, <2>1, <2>3, TotalOfUnion
  <2>5. EventsOf(new) = Total(AllEvents, new)
    BY EventsAre
  <2>6. Total(AllEvents, new) \in Nat
    BY <2>3, TotalOfPart
  <2>7. owed' = Total(AllEvents, jobs') + inAnswers
    <3> HIDE DEF inJobs, inAnswers
    <3>1. QED
      BY <1>1, <1>2, <2>1, <2>4, <2>5, <2>6
  <2>8. QED
    BY <1>1, <1>4, <2>2, <2>4, <2>7
<1>9. CASE \E j \in jobs : PushEnds(j)
  <2>1. PICK j \in jobs : PushEnds(j)
    BY <1>9
  <2>2. PICK cookies \in {{}, {"line"}} :
          answers' = Append(answers, [handle |-> j.handle, events |-> j.events,
                                      key |-> j.key, cookies |-> cookies])
    BY <2>1 DEF PushEnds
  <2> DEFINE a == [handle |-> j.handle, events |-> j.events, key |-> j.key, cookies |-> cookies]
             g == Append(answers, a)
  <2>3. a \in AnswerRec /\ a.events = j.events
    BY <1>1 DEF JobRec, AnswerRec
  <2>4. jobs' = jobs \ {j} /\ owed' = owed /\ answers' = g
    BY <2>1, <2>2 DEF PushEnds
  <2> HIDE DEF a
  <2>5. /\ IsFiniteSet(Atoms(Waiting(g), DOMAIN g))
        /\ Total(Waiting(g), DOMAIN g) = inAnswers + a.events
    BY <1>1, <2>3, WaitingGrows
  <2> HIDE DEF g
  <2>6. /\ IsFiniteSet(Atoms(AllEvents, jobs \ {j}))
        /\ Total(AllEvents, jobs \ {j}) = inJobs - AllEvents[j]
    BY <1>1, <1>3, TotalShrinks
  <2>7. owed = Total(AllEvents, jobs \ {j}) + Total(Waiting(g), DOMAIN g)
    <3> HIDE DEF inJobs, inAnswers
    <3>1. QED
      BY <1>1, <1>2, <1>3, <2>3, <2>5, <2>6
  <2>8. QED
    BY <1>4, <2>4, <2>5, <2>6, <2>7
<1>10. QED
  BY <1>5, <1>6, <1>7, <1>8, <1>9 DEF Next, Receive, Attach, ExpireOne, Wake, Advance, vars

(* An event that left its tab is in one push, in one answer or in the      *)
(* count of touches, once, and an event of a live tab waits or was sent,   *)
(* however many pushes of a tab are under way (fleet.rs:331-371, 494-497). *)
THEOREM EveryEventIsReportedOnce == Spec => []ReportedOnce
<1>1. Init => CountInv
  BY CountedWhenEmpty DEF Init
<1>2. FleetInv /\ CountInv /\ [Next]_vars => CountInv'
  BY NextCounts
<1>3. FleetInv /\ CountInv => ReportedOnce
  <2> SUFFICES ASSUME FleetInv, CountInv
               PROVE  ReportedOnce
    OBVIOUS
  <2>1. EventsOf(jobs) = Total(AllEvents, jobs)
    BY EventsAre DEF FleetInv, RestTyped
  <2>2. Sent(fleet)
    BY DEF FleetInv, PushesInv
  <2>3. QED
    BY <2>1, <2>2 DEF CountInv, ReportedOnce, Sent, Waiting
<1>4. QED
  BY FleetSound, <1>1, <1>2, <1>3, PTL DEF Spec
-----------------------------------------------------------------------------
(* The hub that is used directly: drivers are replaced and done, so that   *)
(* its heap also holds keys of generations that are past.                  *)

KeysFit(h) ==
  /\ \A k \in h.heap : /\ k.tab \in Open(h) /\ k.gen <= h.tabs[k.tab].gen
                       /\ k.gen = h.tabs[k.tab].gen => /\ h.tabs[k.tab].input.some
                                                       /\ k = KeyOfTab(h, k.tab)
  /\ \A t \in Open(h) : h.tabs[t].input.some => KeyOfTab(h, t) \in h.heap

SitesUsed(h) == \A t \in Open(h) : h.tabs[t].site \in Used(h)

HubSane(h) == h \in HubRec /\ FreeIsClosed(h) /\ KeysFit(h) /\ SitesTile(h) /\ SitesUsed(h)

HubInv == /\ hubNow \in 0 .. LastHubTick
          /\ steps \in 0 .. StepLimit + 1
          /\ HubSane(hub)
          /\ \A t \in DOMAIN hub.tabs : t <= HubTabs

LEMMA HubConstants ==
  /\ LastHubTick \in Nat /\ StepLimit \in Nat /\ HubTabs \in Nat
  BY ScenesAssumption DEF Hub!InputHubAssumption

(* What holds of a hub is said of its tabs, its keys and its sites, which  *)
(* may change apart. *)
LEMMA SitesAsBefore ==
  ASSUME NEW h, SitesTile(h), NEW g, SameSites(g, h)
  PROVE  SitesTile(g) /\ Used(g) = Used(h)
  BY DEF SitesTile, SameSites, Used

LEMMA SaneOpens ==
  ASSUME NEW h, HubSane(h), NEW s \in Used(h)
  PROVE  LET o == OpenTab(h, s)
         IN  HubSane(o) /\ DOMAIN o.tabs = DOMAIN h.tabs \cup {NextTab(h)}
<1> DEFINE o == OpenTab(h, s)
           t == NextTab(h)
<1>1. h \in HubRec /\ FreeIsClosed(h) /\ KeysFit(h) /\ SitesTile(h) /\ SitesUsed(h)
  BY DEF HubSane
<1>2. s \in Nat \ {0}
  BY <1>1 DEF HubRec, Used
<1>3. /\ o \in HubRec /\ SameSites(o, h) /\ o.heap = h.heap
      /\ t \in Nat /\ t \notin Open(h)
      /\ DOMAIN o.tabs = DOMAIN h.tabs \cup {t} /\ o.tabs[t] = NewTabOf(s)
      /\ \A u \in DOMAIN h.tabs : u # t => o.tabs[u] = h.tabs[u]
      /\ Members(o.free) = (DOMAIN h.tabs \ Open(h)) \ {t} /\ Once(o.free)
      /\ Open(o) = Open(h) \cup {t}
  BY <1>1, <1>2, TabOpened
<1> HIDE DEF o, t
<1>4. Open(h) \subseteq DOMAIN h.tabs /\ \A u \in Open(h) : u # t /\ o.tabs[u] = h.tabs[u]
  BY <1>3 DEF Open
<1>5. o.tabs[t].site = s /\ o.tabs[t].input.some = FALSE
  BY <1>3 DEF NewTabOf, NoInput
<1>6. FreeIsClosed(o)
  <2>1. Members(o.free) = DOMAIN o.tabs \ Open(o)
    BY <1>3
  <2>2. QED
    BY <1>3, <2>1 DEF FreeIsClosed, Members, Once
<1>7. KeysFit(o)
  <2>1. \A u \in Open(h) : KeyOfTab(o, u) = KeyOfTab(h, u)
    BY <1>4 DEF KeyOfTab
  <2>2. \A k \in o.heap : /\ k.tab \in Open(h) /\ k.gen <= o.tabs[k.tab].gen
                          /\ k.gen = o.tabs[k.tab].gen => /\ o.tabs[k.tab].input.some
                                                          /\ k = KeyOfTab(o, k.tab)
    BY <1>1, <1>3, <1>4, <2>1 DEF KeysFit
  <2>3. \A u \in Open(o) : o.tabs[u].input.some => KeyOfTab(o, u) \in o.heap
    BY <1>1, <1>3, <1>4, <1>5, <2>1 DEF KeysFit
  <2>4. QED
    BY <1>3, <2>2, <2>3 DEF KeysFit
<1>8. SitesTile(o) /\ SitesUsed(o)
  <2>1. SitesTile(o) /\ Used(o) = Used(h)
    BY <1>1, <1>3, SitesAsBefore
  <2>2. QED
    BY <1>1, <1>3, <1>4, <1>5, <2>1 DEF SitesUsed
<1>9. QED
  BY <1>3, <1>6, <1>7, <1>8 DEF HubSane, o, t

LEMMA SaneCloses ==
  ASSUME NEW h, HubSane(h), NEW t
  PROVE  HubSane(CloseTab(h, t)) /\ DOMAIN CloseTab(h, t).tabs = DOMAIN h.tabs
<1>1. CASE t \notin Open(h)
  BY <1>1 DEF CloseTab
<1>2. CASE t \in Open(h)
  <2> DEFINE g == CloseTab(h, t)
  <2>1. h \in HubRec /\ FreeIsClosed(h) /\ KeysFit(h) /\ SitesTile(h) /\ SitesUsed(h)
    BY DEF HubSane
  <2>2. /\ g \in HubRec /\ SameSites(g, h) /\ FreeIsClosed(g)
        /\ g.heap = {k \in h.heap : k.tab # t}
        /\ DOMAIN g.tabs = DOMAIN h.tabs /\ g.tabs[t].site = NoSite
        /\ \A u \in DOMAIN h.tabs : u # t => g.tabs[u] = h.tabs[u]
        /\ Open(g) = Open(h) \ {t}
    BY <1>2, <2>1, TabClosed
  <2> HIDE DEF g
  <2>3. \A u \in Open(g) : u \in Open(h) /\ u # t /\ g.tabs[u] = h.tabs[u] /\ KeyOfTab(g, u) = KeyOfTab(h, u)
    BY <2>2 DEF Open, KeyOfTab
  <2>4. \A u : KeyOfTab(h, u).tab = u
    BY DEF KeyOfTab, Key
  <2>5. KeysFit(g)
    <3>1. \A k \in g.heap : k \in h.heap /\ k.tab \in Open(g)
      BY <2>1, <2>2 DEF KeysFit
    <3>2. \A k \in g.heap : /\ k.gen <= g.tabs[k.tab].gen
                            /\ k.gen = g.tabs[k.tab].gen => /\ g.tabs[k.tab].input.some
                                                            /\ k = KeyOfTab(g, k.tab)
      BY <2>1, <2>3, <3>1 DEF KeysFit
    <3>3. \A u \in Open(g) : g.tabs[u].input.some => KeyOfTab(g, u) \in g.heap
      BY <2>1, <2>2, <2>3, <2>4 DEF KeysFit
    <3>4. QED
      BY <3>1, <3>2, <3>3 DEF KeysFit
  <2>6. SitesTile(g) /\ SitesUsed(g)
    BY <2>1, <2>2, <2>3, SitesAsBefore DEF SitesUsed
  <2>7. QED
    BY <2>2, <2>5, <2>6 DEF HubSane, g
<1>3. QED
  BY <1>1, <1>2

(* The key of the driver that is replaced is of a generation that is past. *)
LEMMA SaneReplaces ==
  ASSUME NEW h, HubSane(h), NEW t, NEW due \in Nat
  PROVE  HubSane(SetInput(h, t, due)) /\ DOMAIN SetInput(h, t, due).tabs = DOMAIN h.tabs
<1>1. CASE t \notin Open(h)
  BY <1>1 DEF SetInput
<1>2. CASE t \in Open(h)
  <2> DEFINE g == SetInput(h, t, due)
             gen == h.tabs[t].gen + 1
  <2>1. h \in HubRec /\ FreeIsClosed(h) /\ KeysFit(h) /\ SitesTile(h) /\ SitesUsed(h)
    BY DEF HubSane
  <2>2. /\ g \in HubRec /\ SameSites(g, h) /\ g.free = h.free
        /\ gen \in Nat /\ g.heap = h.heap \cup {Key(due, t, gen)}
        /\ DOMAIN g.tabs = DOMAIN h.tabs
        /\ g.tabs[t].site = h.tabs[t].site /\ g.tabs[t].gen = gen /\ g.tabs[t].input = Driver(due)
        /\ \A u \in DOMAIN h.tabs : u # t => g.tabs[u] = h.tabs[u]
        /\ Open(g) = Open(h)
    BY <1>2, <2>1, InputSet
  <2>3. \A u \in Open(h) : u \in DOMAIN h.tabs /\ h.tabs[u].gen \in Nat
    <3> TAKE u \in Open(h)
    <3>1. h.tabs \in Seq(TabRec) /\ u \in DOMAIN h.tabs
      BY <2>1 DEF Open, HubRec
    <3>2. h.tabs[u] \in TabRec
      BY <3>1, ElementOfSeq
    <3>3. QED
      BY <3>1, <3>2 DEF TabRec
  <2>4. h.heap \subseteq KeyRec
    BY <2>1 DEF HubRec
  <2>5. gen = h.tabs[t].gen + 1
    OBVIOUS
  <2> HIDE DEF g, gen
  <2>6. \A u \in Open(h) : u # t => g.tabs[u] = h.tabs[u] /\ KeyOfTab(g, u) = KeyOfTab(h, u)
    BY <2>2, <2>3 DEF KeyOfTab
  <2>7. KeyOfTab(g, t) = Key(due, t, gen) /\ g.tabs[t].input.some
    BY <2>2 DEF KeyOfTab, Driver
  <2>8. ASSUME NEW k \in g.heap
        PROVE  /\ k.tab \in Open(g) /\ k.gen <= g.tabs[k.tab].gen
               /\ k.gen = g.tabs[k.tab].gen => /\ g.tabs[k.tab].input.some
                                               /\ k = KeyOfTab(g, k.tab)
    <3>1. CASE k = Key(due, t, gen)
      <4>1. k.tab = t /\ k.gen = gen
        BY <3>1 DEF Key
      <4>2. QED
        BY <1>2, <2>2, <2>7, <3>1, <4>1
    <3>2. CASE k \in h.heap /\ k.tab = t
      <4>1. k.gen \in Nat /\ k.gen <= h.tabs[t].gen
        BY <2>1, <2>4, <3>2 DEF KeysFit, KeyRec
      <4>2. k.gen < gen /\ g.tabs[t].gen = gen
        BY <1>2, <2>2, <2>3, <2>5, <4>1
      <4>3. QED
        BY <1>2, <2>2, <3>2, <4>1, <4>2
    <3>3. CASE k \in h.heap /\ k.tab # t
      BY <2>1, <2>2, <2>6, <3>3 DEF KeysFit
    <3>4. QED
      BY <2>2, <3>1, <3>2, <3>3
  <2>9. KeysFit(g)
    <3>1. \A u \in Open(g) : g.tabs[u].input.some => KeyOfTab(g, u) \in g.heap
      BY <2>1, <2>2, <2>6, <2>7 DEF KeysFit
    <3>2. QED
      BY <2>8, <3>1 DEF KeysFit
  <2>10. FreeIsClosed(g)
    BY <2>1, <2>2 DEF FreeIsClosed
  <2>11. SitesTile(g) /\ SitesUsed(g)
    <3>1. SitesTile(g) /\ Used(g) = Used(h)
      BY <2>1, <2>2, SitesAsBefore
    <3>2. QED
      BY <2>1, <2>2, <2>6, <3>1 DEF SitesUsed
  <2>12. QED
    BY <2>2, <2>9, <2>10, <2>11 DEF HubSane, g
<1>3. QED
  BY <1>1, <1>2

(* The driver of a fresh key steps: all other keys of its tab are of       *)
(* generations that are past, so its next one is the only fresh one.       *)
LEMMA FreshKey ==
  ASSUME NEW h, HubSane(h), NEW k \in h.heap
  PROVE  /\ k.tab \in Open(h) /\ k.tab \in DOMAIN h.tabs /\ k.tab \in Nat
         /\ k.gen \in Nat /\ h.tabs[k.tab] \in TabRec
         /\ Fresh(h, k) <=> k.gen = h.tabs[k.tab].gen
         /\ Fresh(h, k) => /\ h.tabs[k.tab].input.some /\ k = KeyOfTab(h, k.tab)
                           /\ \A j \in h.heap \ {k} : j.tab = k.tab => j.gen < k.gen
<1>1. h \in HubRec /\ KeysFit(h)
  BY DEF HubSane
<1>2. h.heap \subseteq KeyRec /\ h.tabs \in Seq(TabRec)
  BY <1>1 DEF HubRec
<1>3. /\ k.tab \in Open(h) /\ k.tab \in DOMAIN h.tabs /\ k.tab \in Nat /\ k.gen \in Nat
      /\ h.tabs[k.tab] \in TabRec
  BY <1>1, <1>2, ElementOfSeq DEF KeysFit, Open, KeyRec
<1>4. Fresh(h, k) <=> k.gen = h.tabs[k.tab].gen
  BY <1>1, <1>3 DEF KeysFit, Fresh
<1>5. ASSUME Fresh(h, k)
      PROVE  /\ h.tabs[k.tab].input.some /\ k = KeyOfTab(h, k.tab)
             /\ \A j \in h.heap \ {k} : j.tab = k.tab => j.gen < k.gen
  <2>1. k.gen = h.tabs[k.tab].gen /\ h.tabs[k.tab].input.some /\ k = KeyOfTab(h, k.tab)
    BY <1>1, <1>4, <1>5 DEF KeysFit
  <2>2. ASSUME NEW j \in h.heap \ {k}, j.tab = k.tab
        PROVE  j.gen < k.gen
    <3>1. j.gen \in Nat /\ j.gen <= k.gen
      BY <1>1, <1>2, <2>1, <2>2 DEF KeysFit, KeyRec
    <3>2. j.gen # k.gen
      BY <1>1, <2>1, <2>2 DEF KeysFit
    <3>3. QED
      BY <1>3, <3>1, <3>2
  <2>3. QED
    BY <2>1, <2>2
<1>6. QED
  BY <1>3, <1>4, <1>5

(* What a step of a tick writes: a driver, and keys of its tab. *)
DrivenAs(h, k, input, new) == [h EXCEPT !.heap = (h.heap \ {k}) \cup new, !.tabs[k.tab].input = input]

LEMMA SaneDriven ==
  ASSUME NEW h, HubSane(h), NEW k \in h.heap, Fresh(h, k),
         NEW input \in InputRec, NEW new \in SUBSET {Key(input.due, k.tab, k.gen)},
         input.some <=> new # {}
  PROVE  LET g == DrivenAs(h, k, input, new)
         IN  HubSane(g) /\ DOMAIN g.tabs = DOMAIN h.tabs
<1> DEFINE g == DrivenAs(h, k, input, new)
           t == k.tab
           old == h.tabs[t]
           entry == [old EXCEPT !.input = input]
           tabs == [h.tabs EXCEPT ![t] = entry]
           heap == (h.heap \ {k}) \cup new
<1>1. h \in HubRec /\ FreeIsClosed(h) /\ KeysFit(h) /\ SitesTile(h) /\ SitesUsed(h)
  BY DEF HubSane
<1>2. /\ t \in Open(h) /\ t \in DOMAIN h.tabs /\ t \in Nat /\ k.gen \in Nat /\ old \in TabRec
      /\ k.gen = old.gen
      /\ \A j \in h.heap \ {k} : j.tab = t => j.gen < k.gen
  BY FreshKey
<1>3. h.tabs \in Seq(TabRec) /\ h.heap \subseteq KeyRec /\ Open(h) \subseteq DOMAIN h.tabs
  BY <1>1 DEF HubRec, Open
<1>4. entry \in TabRec /\ entry.site = old.site /\ entry.gen = old.gen /\ entry.input = input
  BY <1>2 DEF TabRec
<1>5. g = [h EXCEPT !.heap = heap, !.tabs = tabs]
  BY <1>2, <1>3 DEF DrivenAs
<1> HIDE DEF g
<1>6. Key(input.due, t, k.gen) \in KeyRec
  BY <1>2 DEF Key, KeyRec, InputRec
<1> HIDE DEF entry
<1>7. tabs \in Seq(TabRec)
  BY <1>2, <1>3, <1>4, ExceptSeq
<1>8. heap \in SUBSET KeyRec
  BY <1>3, <1>6
<1>9. /\ DOMAIN tabs = DOMAIN h.tabs /\ tabs[t] = entry
      /\ \A u \in DOMAIN h.tabs : u # t => tabs[u] = h.tabs[u]
  BY <1>2, UpdatedAt
<1> HIDE DEF tabs, heap
<1>10. /\ g \in HubRec /\ g.tabs = tabs /\ g.heap = heap /\ g.free = h.free
       /\ g.sites = h.sites /\ g.freeSites = h.freeSites
  BY <1>1, <1>5, <1>7, <1>8 DEF HubRec
<1>11. /\ Open(g) = Open(h) /\ \A u \in DOMAIN h.tabs : g.tabs[u].site = h.tabs[u].site
  <2>1. \A u \in DOMAIN h.tabs : g.tabs[u].site = h.tabs[u].site
    BY <1>4, <1>9, <1>10
  <2>2. QED
    BY <1>9, <1>10, <2>1 DEF Open
<1>12. \A u \in Open(h) : u # t => g.tabs[u] = h.tabs[u] /\ KeyOfTab(g, u) = KeyOfTab(h, u)
  BY <1>3, <1>9, <1>10 DEF KeyOfTab
<1>13. g.tabs[t].input = input /\ g.tabs[t].gen = k.gen /\ KeyOfTab(g, t) = Key(input.due, t, k.gen)
  BY <1>2, <1>4, <1>9, <1>10 DEF KeyOfTab
<1>14. ASSUME NEW j \in g.heap
       PROVE  /\ j.tab \in Open(g) /\ j.gen <= g.tabs[j.tab].gen
              /\ j.gen = g.tabs[j.tab].gen => /\ g.tabs[j.tab].input.some
                                              /\ j = KeyOfTab(g, j.tab)
  <2>1. CASE j \in new
    <3>1. j = Key(input.due, t, k.gen) /\ j.tab = t /\ j.gen = k.gen /\ input.some
      BY <2>1 DEF Key
    <3>2. QED
      BY <1>2, <1>11, <1>13, <3>1
  <2>2. CASE j \in h.heap \ {k} /\ j.tab = t
    <3>1. j.gen \in Nat /\ j.gen < k.gen
      BY <1>2, <1>3, <2>2 DEF KeyRec
    <3>2. QED
      BY <1>2, <1>11, <1>13, <2>2, <3>1
  <2>3. CASE j \in h.heap \ {k} /\ j.tab # t
    BY <1>1, <1>11, <1>12, <2>3 DEF KeysFit
  <2>4. QED
    BY <1>10, <2>1, <2>2, <2>3 DEF heap
<1>15. ASSUME NEW u \in Open(g), g.tabs[u].input.some
       PROVE  KeyOfTab(g, u) \in g.heap
  <2>1. CASE u = t
    BY <1>10, <1>13, <1>15, <2>1 DEF heap
  <2>2. CASE u # t
    <3>1. KeyOfTab(g, u) \in h.heap /\ KeyOfTab(g, u).tab = u
      BY <1>1, <1>11, <1>12, <1>15, <2>2 DEF KeysFit, KeyOfTab, Key
    <3>2. QED
      BY <1>10, <2>2, <3>1 DEF heap
  <2>3. QED
    BY <2>1, <2>2
<1>16. KeysFit(g)
  BY <1>14, <1>15 DEF KeysFit
<1>17. FreeIsClosed(g)
  BY <1>1, <1>9, <1>10, <1>11 DEF FreeIsClosed
<1>18. SitesTile(g) /\ SitesUsed(g)
  <2>1. SitesTile(g) /\ Used(g) = Used(h)
    BY <1>1, <1>10, SitesAsBefore DEF SameSites
  <2>2. QED
    BY <1>1, <1>3, <1>11, <2>1 DEF SitesUsed
<1>19. QED
  BY <1>9, <1>10, <1>16, <1>17, <1>18 DEF HubSane, g

(* The heap alone changes: stale keys are dropped and no fresh one. *)
LEMMA SaneDrops ==
  ASSUME NEW h, HubSane(h), NEW heap \in SUBSET h.heap,
         \A t \in Open(h) : h.tabs[t].input.some => KeyOfTab(h, t) \in heap,
         NEW g, g = [h EXCEPT !.heap = heap]
  PROVE  HubSane(g) /\ g.tabs = h.tabs
<1>1. h \in HubRec /\ FreeIsClosed(h) /\ KeysFit(h) /\ SitesTile(h) /\ SitesUsed(h)
  BY DEF HubSane
<1>2. heap \in SUBSET KeyRec
  BY <1>1 DEF HubRec
<1>3. g \in HubRec /\ g.heap = heap /\ g.tabs = h.tabs /\ g.free = h.free /\ SameSites(g, h)
  BY <1>1, <1>2 DEF HubRec, SameSites
<1>4. Open(g) = Open(h) /\ \A t : KeyOfTab(g, t) = KeyOfTab(h, t)
  BY <1>3 DEF Open, KeyOfTab
<1>5. KeysFit(g) /\ FreeIsClosed(g)
  BY <1>1, <1>3, <1>4 DEF KeysFit, FreeIsClosed
<1>6. SitesTile(g) /\ SitesUsed(g)
  BY <1>1, <1>3, <1>4, SitesAsBefore DEF SitesUsed
<1>7. QED
  BY <1>3, <1>5, <1>6 DEF HubSane

(* Sites that come and go. *)
LEMMA SaneRegisters ==
  ASSUME NEW h, HubSane(h)
  PROVE  LET g == RegisterShared(TakeSite(h), FreeSite(h))
         IN  HubSane(g) /\ g.tabs = h.tabs
<1> DEFINE s == FreeSite(h)
           g == RegisterShared(TakeSite(h), s)
<1>1. h \in HubRec /\ FreeIsClosed(h) /\ KeysFit(h) /\ SitesTile(h) /\ SitesUsed(h)
  BY DEF HubSane
<1>2. g \in HubRec /\ SameTabs(g, h) /\ Used(g) = Used(h) \cup {s} /\ SitesTile(g)
  BY <1>1, HubHandsOut
<1> HIDE DEF g, s
<1>3. /\ Open(g) = Open(h) /\ FreeIsClosed(g) /\ \A t : KeyOfTab(g, t) = KeyOfTab(h, t)
      /\ g.tabs = h.tabs /\ g.heap = h.heap
  BY <1>1, <1>2, SameTabsSameHub DEF SameTabs
<1>4. KeysFit(g) /\ SitesUsed(g)
  BY <1>1, <1>2, <1>3 DEF KeysFit, SitesUsed
<1>5. QED
  BY <1>2, <1>3, <1>4 DEF HubSane, g, s

LEMMA SaneUnregisters ==
  ASSUME NEW h, HubSane(h), NEW s \in Nat \ {0}
  PROVE  HubSane(UnregisterSite(h, s)) /\ UnregisterSite(h, s).tabs = h.tabs
<1> DEFINE g == UnregisterSite(h, s)
<1>1. h \in HubRec /\ FreeIsClosed(h) /\ KeysFit(h) /\ SitesTile(h) /\ SitesUsed(h)
  BY DEF HubSane
<1>2. CASE ~(s \in Used(h) /\ \A t \in DOMAIN h.tabs : h.tabs[t].site # s)
  BY <1>2 DEF UnregisterSite, Used
<1>3. CASE s \in Used(h) /\ \A t \in DOMAIN h.tabs : h.tabs[t].site # s
  <2>1. g \in HubRec /\ SameTabs(g, h) /\ Used(g) = Used(h) \ {s} /\ SitesTile(g)
    BY <1>1, <1>3, HubUnregisters
  <2> HIDE DEF g
  <2>2. /\ Open(g) = Open(h) /\ FreeIsClosed(g) /\ \A t : KeyOfTab(g, t) = KeyOfTab(h, t)
        /\ g.tabs = h.tabs /\ g.heap = h.heap
    BY <1>1, <2>1, SameTabsSameHub DEF SameTabs
  <2>3. Open(h) \subseteq DOMAIN h.tabs
    BY DEF Open
  <2>4. KeysFit(g) /\ SitesUsed(g)
    BY <1>1, <1>3, <2>1, <2>2, <2>3 DEF KeysFit, SitesUsed
  <2>5. QED
    BY <2>1, <2>2, <2>4 DEF HubSane, g
<1>4. QED
  BY <1>2, <1>3

LEMMA SaneAtFirst ==
  HubSane(NewHub) /\ NewHub.tabs = <<>>
<1>1. <<>> \in Seq(TabRec) /\ <<>> \in Seq(Nat) /\ <<>> \in Seq(BOOLEAN)
  OBVIOUS
<1>2. NewHub \in HubRec
  BY <1>1 DEF NewHub, HubRec
<1>3. DOMAIN NewHub.tabs = {} /\ NewHub.heap = {} /\ DOMAIN NewHub.free = {}
      /\ DOMAIN NewHub.sites = {} /\ DOMAIN NewHub.freeSites = {}
  BY DEF NewHub
<1>4. Open(NewHub) = {} /\ Used(NewHub) = {}
  BY <1>3 DEF Open, Used
<1>5. QED
  BY <1>2, <1>3, <1>4 DEF HubSane, FreeIsClosed, KeysFit, SitesTile, SitesUsed, NewHub

(* The operations of the scene are those of the fleet's hubs. *)
LEMMA HubOperations ==
  ASSUME NEW h
  PROVE  /\ Hub!NewHub = NewHub
         /\ Hub!Open(h) = Open(h) /\ Hub!NextTab(h) = NextTab(h)
         /\ Hub!FreeSite(h) = FreeSite(h) /\ Hub!TakeSite(h) = TakeSite(h)
         /\ \A s : /\ Hub!RegisterShared(h, s) = RegisterShared(h, s)
                   /\ Hub!UnregisterSite(h, s) = UnregisterSite(h, s)
                   /\ Hub!OpenTab(h, s) = OpenTab(h, s)
         /\ \A t : /\ Hub!CloseTab(h, t) = CloseTab(h, t)
                   /\ Hub!KeyOfTab(h, t) = KeyOfTab(h, t)
                   /\ \A due : Hub!SetInput(h, t, due) = SetInput(h, t, due)
         /\ \A k : Hub!Fresh(h, k) <=> Fresh(h, k)
<1>1. /\ Hub!NewHub = NewHub /\ Hub!NoSite = NoSite /\ Hub!NoInput = NoInput
      /\ \A s : Hub!Popped(s) = Popped(s) /\ Hub!Top(s) = Top(s)
      /\ \A due, t, gen : Hub!Key(due, t, gen) = Key(due, t, gen)
      /\ \A due : Hub!Driver(due) = Driver(due)
  BY DEF Hub!NewHub, NewHub, Hub!NoSite, NoSite, Hub!NoInput, NoInput, Hub!Popped, Popped,
         Hub!Top, Top, Hub!Key, Key, Hub!Driver, Driver
<1>2. Hub!Open(h) = Open(h)
  BY <1>1 DEF Hub!Open, Open
<1>3. Hub!NextTab(h) = NextTab(h) /\ Hub!FreeSite(h) = FreeSite(h) /\ Hub!TakeSite(h) = TakeSite(h)
  BY <1>1 DEF Hub!NextTab, NextTab, Hub!FreeSite, FreeSite, Hub!TakeSite, TakeSite
<1>4. \A s : /\ Hub!RegisterShared(h, s) = RegisterShared(h, s)
             /\ Hub!UnregisterSite(h, s) = UnregisterSite(h, s)
  BY DEF Hub!RegisterShared, RegisterShared, Hub!UnregisterSite, UnregisterSite
<1>5. \A s : Hub!OpenTab(h, s) = OpenTab(h, s)
  BY DEF Hub!OpenTab, OpenTab, Hub!NoInput, NoInput, Hub!Popped, Popped, Hub!Top, Top
<1>6. \A t : Hub!CloseTab(h, t) = CloseTab(h, t)
  BY DEF Hub!CloseTab, CloseTab, Hub!Open, Open, Hub!NoSite, NoSite, Hub!NoInput, NoInput
<1>7. \A t : Hub!KeyOfTab(h, t) = KeyOfTab(h, t)
  BY <1>1 DEF Hub!KeyOfTab, KeyOfTab
<1>8. \A t, due : Hub!SetInput(h, t, due) = SetInput(h, t, due)
  BY DEF Hub!SetInput, SetInput, Hub!Open, Open, Hub!NoSite, NoSite, Hub!Driver, Driver, Hub!Key, Key
<1>9. \A k : Hub!Fresh(h, k) <=> Fresh(h, k)
  BY <1>2 DEF Hub!Fresh, Fresh
<1>10. QED
  BY <1>1, <1>2, <1>3, <1>4, <1>5, <1>6, <1>7, <1>8, <1>9

LEMMA HubStepKeepsInv ==
  ASSUME HubInv, [Hub!Next]_hubVars
  PROVE  HubInv'
<1> USE HubConstants
<1>1. /\ hubNow \in 0 .. LastHubTick /\ steps \in 0 .. StepLimit + 1
      /\ HubSane(hub) /\ \A t \in DOMAIN hub.tabs : t <= HubTabs
  BY DEF HubInv
<1>2. ASSUME HubSane(hub'), DOMAIN hub'.tabs = DOMAIN hub.tabs,
             hubNow' \in 0 .. LastHubTick, steps' \in 0 .. StepLimit + 1
      PROVE  HubInv'
  BY <1>1, <1>2 DEF HubInv, HubSane, FreeIsClosed, KeysFit, SitesTile, SitesUsed, Open, Used, KeyOfTab
<1>3. CASE UNCHANGED hubVars
  BY <1>1, <1>2, <1>3 DEF hubVars
<1>4. CASE Hub!Advance
  <2>1. hub' = hub /\ steps' = steps /\ hubNow' = hubNow + 1 /\ hubNow < LastHubTick
    BY <1>4 DEF Hub!Advance
  <2>2. QED
    BY <1>1, <1>2, <2>1
<1>5. CASE Hub!Register
  <2>1. hub' = RegisterShared(TakeSite(hub), FreeSite(hub)) /\ hubNow' = hubNow /\ steps' = steps
    BY <1>5, HubOperations DEF Hub!Register
  <2>2. QED
    BY <1>1, <1>2, <2>1, SaneRegisters
<1>6. ASSUME NEW s \in 1 .. MaxSites, Hub!Unregister(s)
      PROVE  HubInv'
  <2>1. hub' = UnregisterSite(hub, s) /\ hubNow' = hubNow /\ steps' = steps /\ s \in Nat \ {0}
    BY <1>6, HubOperations DEF Hub!Unregister
  <2>2. QED
    BY <1>1, <1>2, <2>1, SaneUnregisters
<1>7. ASSUME NEW s \in 1 .. MaxSites, Hub!NewTab(s)
      PROVE  HubInv'
  <2>1. /\ hub' = OpenTab(hub, s) /\ hubNow' = hubNow /\ steps' = steps
        /\ s \in Used(hub) /\ NextTab(hub) <= HubTabs
    BY <1>7, HubOperations DEF Hub!NewTab, Used
  <2>2. HubSane(hub') /\ DOMAIN hub'.tabs = DOMAIN hub.tabs \cup {NextTab(hub)}
    BY <1>1, <2>1, SaneOpens
  <2>3. QED
    BY <1>1, <2>1, <2>2 DEF HubInv, HubSane, FreeIsClosed, KeysFit, SitesTile, SitesUsed, Open, Used, KeyOfTab
<1>8. ASSUME NEW t \in 1 .. HubTabs, Hub!Close(t)
      PROVE  HubInv'
  <2>1. hub' = CloseTab(hub, t) /\ hubNow' = hubNow /\ steps' = steps
    BY <1>8, HubOperations DEF Hub!Close
  <2>2. QED
    BY <1>1, <1>2, <2>1, SaneCloses
<1>9. ASSUME NEW t \in 1 .. HubTabs, NEW due \in hubNow .. hubNow + 1, Hub!Replace(t, due)
      PROVE  HubInv'
  <2>1. hub' = Hub!SetInput(hub, t, due) /\ hubNow' = hubNow /\ steps' = steps /\ due \in Nat
    BY <1>1, <1>9 DEF Hub!Replace
  <2>2. Hub!SetInput(hub, t, due) = SetInput(hub, t, due)
    BY HubOperations
  <2>3. HubSane(hub') /\ DOMAIN hub'.tabs = DOMAIN hub.tabs
    BY <1>1, <2>1, <2>2, SaneReplaces
  <2>4. QED
    BY <1>1, <1>2, <2>1, <2>3
<1>10. CASE Hub!TickBegins
  <2>1. hub' = hub /\ hubNow' = hubNow /\ steps' = 0
    BY <1>10 DEF Hub!TickBegins
  <2>2. QED
    BY <1>1, <1>2, <2>1
<1>11. CASE Hub!TickDrives
  <2>1. PICK k \in hub.heap : /\ Fresh(hub, k)
                              /\ \/ \E due \in hubNow .. hubNow + 1 : hub' = Hub!Stepped(hub, k, due)
                                 \/ hub' = Hub!Done(hub, k)
    BY <1>11, HubOperations DEF Hub!TickDrives, Hub!DueKeys
  <2>2. hubNow' = hubNow /\ steps' = steps + 1 /\ steps' \in 0 .. StepLimit + 1
    BY <1>1, <1>11 DEF Hub!TickDrives, Hub!Goes
  <2>3. CASE \E due \in hubNow .. hubNow + 1 : hub' = Hub!Stepped(hub, k, due)
    <3>1. PICK due \in hubNow .. hubNow + 1 : hub' = Hub!Stepped(hub, k, due)
      BY <2>3
    <3> DEFINE input == Driver(due)
               new == {Key(due, k.tab, k.gen)}
    <3>2. hub' = DrivenAs(hub, k, input, new)
      BY <3>1 DEF DrivenAs, Hub!Stepped, Hub!Key, Hub!Driver, Key, Driver
    <3>3. /\ input \in InputRec /\ input.some /\ input.due = due
          /\ new # {} /\ new \in SUBSET {Key(due, k.tab, k.gen)}
      BY <1>1 DEF InputRec, Driver
    <3> HIDE DEF input, new
    <3>4. HubSane(hub') /\ DOMAIN hub'.tabs = DOMAIN hub.tabs
      BY <1>1, <2>1, <3>2, <3>3, SaneDriven
    <3>5. QED
      BY <1>1, <1>2, <2>2, <3>4
  <2>4. CASE hub' = Hub!Done(hub, k)
    <3> DEFINE input == NoInput
               new == {}
    <3>1. hub' = DrivenAs(hub, k, input, new)
      BY <2>4 DEF DrivenAs, Hub!Done, Hub!NoInput, NoInput
    <3>2. /\ input \in InputRec /\ input.some = FALSE
          /\ new = {} /\ new \in SUBSET {Key(input.due, k.tab, k.gen)}
      BY DEF InputRec, NoInput
    <3> HIDE DEF input, new
    <3>3. HubSane(hub') /\ DOMAIN hub'.tabs = DOMAIN hub.tabs
      BY <1>1, <2>1, <3>1, <3>2, SaneDriven
    <3>4. QED
      BY <1>1, <1>2, <2>2, <3>3
  <2>5. QED
    BY <2>1, <2>3, <2>4
<1>12. CASE Hub!TickSkips
  <2>1. PICK k \in hub.heap : /\ ~Fresh(hub, k)
                              /\ hub' = Hub!Discarded(hub, k)
    BY <1>12, HubOperations DEF Hub!TickSkips, Hub!DueKeys
  <2>2. hub' = [hub EXCEPT !.heap = hub.heap \ {k}] /\ hubNow' = hubNow /\ steps' = steps
    BY <1>12, <2>1 DEF Hub!TickSkips, Hub!Discarded
  <2>3. KeysFit(hub) /\ k.gen # hub.tabs[k.tab].gen
    BY <1>1, <2>1, FreshKey DEF HubSane
  <2>4. \A t \in Open(hub) : hub.tabs[t].input.some => KeyOfTab(hub, t) \in hub.heap \ {k}
    BY <2>3 DEF KeysFit, KeyOfTab, Key
  <2>5. HubSane(hub') /\ hub'.tabs = hub.tabs
    BY <1>1, <2>2, <2>4, SaneDrops
  <2>6. QED
    BY <1>1, <1>2, <2>2, <2>5
<1>13. CASE Hub!TickEnds
  <2>1. hub' = Hub!Tidied(hub) /\ hubNow' = hubNow /\ steps' = StepLimit + 1
    BY <1>13 DEF Hub!TickEnds, Hub!Idle
  <2>2. CASE hub' = hub
    BY <1>1, <1>2, <2>1, <2>2
  <2>3. CASE hub' = Hub!Compacted(hub)
    <3> DEFINE heap == {KeyOfTab(hub, t) : t \in {u \in Open(hub) : hub.tabs[u].input.some}}
    <3>1. hub' = [hub EXCEPT !.heap = heap]
      BY <2>3, HubOperations DEF Hub!Compacted
    <3>2. heap \in SUBSET hub.heap
      BY <1>1 DEF HubSane, KeysFit
    <3>3. \A t \in Open(hub) : hub.tabs[t].input.some => KeyOfTab(hub, t) \in heap
      OBVIOUS
    <3> HIDE DEF heap
    <3>4. HubSane(hub') /\ hub'.tabs = hub.tabs
      BY <1>1, <3>1, <3>2, <3>3, SaneDrops
    <3>5. QED
      BY <1>1, <1>2, <2>1, <3>4
  <2>4. QED
    BY <2>1, <2>2, <2>3 DEF Hub!Tidied
<1>14. QED
  BY <1>3, <1>4, <1>5, <1>6, <1>7, <1>8, <1>9, <1>10, <1>11, <1>12, <1>13 DEF Hub!Next

LEMMA HubInvSays ==
  ASSUME HubInv
  PROVE  HubSound
<1> USE HubConstants
<1>1. /\ hubNow \in 0 .. LastHubTick /\ steps \in 0 .. StepLimit + 1
      /\ hub \in HubRec /\ FreeIsClosed(hub) /\ KeysFit(hub) /\ SitesTile(hub) /\ SitesUsed(hub)
      /\ \A t \in DOMAIN hub.tabs : t <= HubTabs
  BY DEF HubInv, HubSane
<1>2. Hub!Open(hub) = Open(hub) /\ \A t : Hub!KeyOfTab(hub, t) = KeyOfTab(hub, t)
  BY HubOperations
<1>3. Hub!TypeOK
  <2>1. Len(hub.tabs) \in Nat /\ DOMAIN hub.tabs = 1 .. Len(hub.tabs)
    BY <1>1 DEF HubRec
  <2>2. Len(hub.tabs) <= HubTabs
    <3>1. CASE Len(hub.tabs) = 0
      BY <3>1
    <3>2. CASE Len(hub.tabs) # 0
      BY <1>1, <2>1, <3>2
    <3>3. QED
      BY <3>1, <3>2
  <2>3. Hub!HubType(hub)
    BY <1>1 DEF Hub!HubType, HubRec, TabRec, InputRec, KeyRec
  <2>4. QED
    BY <1>1, <2>2, <2>3 DEF Hub!TypeOK, Hub!Idle
<1>4. Hub!Driven(hub)
  <2>1. \A k \in hub.heap : Hub!Fresh(hub, k) <=> Fresh(hub, k)
    BY HubOperations
  <2>2. ASSUME NEW t \in Open(hub), hub.tabs[t].input.some
        PROVE  {k \in hub.heap : Fresh(hub, k) /\ k.tab = t} = {KeyOfTab(hub, t)}
    <3>1. KeyOfTab(hub, t) \in hub.heap
      BY <1>1, <2>2 DEF KeysFit
    <3>2. KeyOfTab(hub, t).tab = t /\ Fresh(hub, KeyOfTab(hub, t))
      BY <2>2 DEF KeyOfTab, Key, Fresh
    <3>3. \A k \in hub.heap : Fresh(hub, k) /\ k.tab = t => k = KeyOfTab(hub, t)
      BY <1>1 DEF KeysFit, Fresh
    <3>4. QED
      BY <3>1, <3>2, <3>3
  <2>3. \A k \in hub.heap : k.tab \in Open(hub)
    BY <1>1 DEF KeysFit
  <2>4. \A t \in Open(hub) : {k \in hub.heap : Hub!Fresh(hub, k) /\ k.tab = t}
                             = {k \in hub.heap : Fresh(hub, k) /\ k.tab = t}
    BY <2>1
  <2>5. QED
    BY <1>2, <2>2, <2>3, <2>4 DEF Hub!Driven
<1>5. Hub!FreeIsClosed(hub)
  BY <1>1, <1>2 DEF Hub!FreeIsClosed, FreeIsClosed
<1>6. Hub!SitesKept
  BY <1>1, <1>2 DEF Hub!SitesKept, SitesTile, SitesUsed, Used
<1>7. QED
  BY <1>3, <1>4, <1>5, <1>6 DEF HubSound, Hub!HubSound

(* A hub that is used directly, in whatever order sites and tabs come and  *)
(* go, drivers are replaced and ticks are cut short or compact the heap:   *)
(* each driver has one fresh key, at the time it is due, a closed tab has  *)
(* none and is free for reuse once, and the site of an open tab keeps its  *)
(* calibration (scheduler.rs:143-224, 246-302).                            *)
THEOREM EveryDriverIsDue == MCSpec => []HubSound
<1>1. MCInit => HubInv
  <2> SUFFICES ASSUME MCInit
               PROVE  HubInv
    OBVIOUS
  <2>1. hubNow = 0 /\ hub = NewHub /\ steps = StepLimit + 1
    BY HubOperations DEF MCInit, Hub!Init, Hub!Idle
  <2>2. HubSane(hub) /\ DOMAIN hub.tabs = {}
    BY <2>1, SaneAtFirst
  <2>3. QED
    BY <2>1, <2>2, HubConstants DEF HubInv
<1>2. HubInv /\ [MCNext]_mcVars => HubInv'
  <2> SUFFICES ASSUME HubInv, [MCNext]_mcVars
               PROVE  HubInv'
    OBVIOUS
  <2>1. [Hub!Next]_hubVars
    BY DEF MCNext, mcVars
  <2>2. QED
    BY <2>1, HubStepKeepsInv
<1>3. HubInv => HubSound
  BY HubInvSays
<1>4. QED
  BY <1>1, <1>2, <1>3, PTL DEF MCSpec
-----------------------------------------------------------------------------
(* The tab: what its cursor and the page that gets the events agree on.    *)

Char == STRING \ {"none", "backspace"}
PageRec == [held : {"none", "left", "right"}, key : Char \cup {"none", "backspace"},
            focused : BOOLEAN, typed : Seq(Char), wheel : Nat,
            hidden : BOOLEAN, wellFormed : BOOLEAN, odd : SUBSET {"back", "unchanged"}]
ClockRec == [now : Nat, cycle : Nat, late : BOOLEAN]

MoveCur == [kind : {"Move"}, at : {"Reacting", "Moving", "Dwelling", "Done"}]
FocusCur == [kind : {"Focus"}, at : {"FocusIn", "Dwell", "FocusOut", "Done"}]
ClickCur == [kind : {"Click"}, at : {"Press", "Hold", "Release", "Done"},
             button : {"left", "right"}, double : BOOLEAN, second : BOOLEAN]
TypeCur == [kind : {"Type"}, chars : Seq(Char), idx : Nat,
            at : {"Down", "Up", "BackDown", "BackUp", "Last", "Done"}]
ScrollCur == [kind : {"Scroll"}, at : {"Going", "Done"}, left : Nat, velocity : Nat, y : Nat]
Cursors == MoveCur \cup FocusCur \cup ClickCur \cup TypeCur \cup ScrollCur \cup {Tab!NoCursor}
IdleRec == [hop : MoveCur \cup {Tab!NoCursor}, hidden : BOOLEAN, flipped : Int, bump : BOOLEAN]
Phases == {"Approach", "Click", "Typing", "Reading", "Idle", "Move", "Focus", "Over"}
TabState == [use : {"session", "inbound"}, phase : Phases, active : Cursors,
             text : Seq(Char \cup {"none"}), total : Nat, parity : Nat, idle : IdleRec,
             asked : Seq(Char \cup {"none"}), cut : SUBSET Phases]

(* A page nobody holds anything down on, and that is there to be seen. *)
HandsOff(p) == p \in PageRec /\ p.wellFormed /\ p.held = "none" /\ p.key = "none" /\ ~p.hidden

MoveFits(c, p) == c \in MoveCur /\ HandsOff(p)
FocusFits(c, p) == c \in FocusCur /\ HandsOff(p) /\ (p.focused <=> c.at = "Dwell")
ClickFits(c, p) ==
  /\ c \in ClickCur /\ p \in PageRec /\ p.wellFormed /\ p.key = "none" /\ ~p.hidden
  /\ p.held = IF c.at = "Hold" THEN c.button ELSE "none"

(* Of what there is to type, so much stands there. *)
Stands(c, p, n) == p.typed = SubSeq(c.chars, 1, n)
TypeFits(c, p) ==
  /\ c \in TypeCur /\ p \in PageRec /\ p.wellFormed /\ p.held = "none" /\ ~p.hidden
  /\ c.at \in {"Down", "Up", "BackDown", "BackUp"} => c.idx < Len(c.chars)
  /\ c.at = "Down" => p.key = "none" /\ Stands(c, p, c.idx)
  /\ c.at = "Up" => p.key = c.chars[c.idx + 1] /\ Stands(c, p, c.idx + 1)
  /\ c.at = "BackDown" => p.key = "none" /\ Stands(c, p, c.idx + 1)
  /\ c.at = "BackUp" => p.key = "backspace" /\ Stands(c, p, c.idx)
  /\ c.at \in {"Last", "Done"} => p.key = "none" /\ p.typed = c.chars

ScrollFits(c, p) ==
  /\ c \in ScrollCur /\ HandsOff(p) /\ p.wheel = c.y
  /\ c.at = "Done" => c.left = 0

AskedOf(t) == IF t.asked = Tab!NoText THEN <<>> ELSE t.asked
Blank(p) == p.typed = <<>> /\ p.wheel = 0

IdleFits(t, p) ==
  /\ p.held = "none" /\ p.key = "none" /\ p.hidden = t.idle.hidden
  /\ t.idle.hop.at # "Done"

SessionFits(t, p) ==
  /\ t \in TabState /\ t.use = "session"
  /\ p \in PageRec /\ p.wellFormed /\ (t.phase # "Idle" => p.odd = {})
  /\ t.asked \in Texts \cup {Tab!NoText}
  /\ \/ /\ t.phase = "Approach" /\ t.text = t.asked /\ Blank(p)
        /\ (MoveFits(t.active, p) /\ ~p.focused) \/ FocusFits(t.active, p)
     \/ t.phase = "Click" /\ t.text = t.asked /\ Blank(p) /\ ClickFits(t.active, p) /\ ~p.focused
     \/ /\ t.phase = "Typing" /\ t.text = Tab!NoText /\ t.asked # Tab!NoText
        /\ TypeFits(t.active, p) /\ t.active.chars = t.asked /\ ~p.focused /\ p.wheel = 0
     \/ /\ t.phase = "Reading" /\ p.typed = AskedOf(t) /\ ~p.focused
        /\ ScrollFits(t.active, p) /\ t.active.y + t.active.left = t.total
     \/ /\ t.phase = "Idle" /\ t.active = Tab!NoCursor /\ p.typed = AskedOf(t) /\ ~p.focused
        /\ p.wheel \in {t.total} \cup Nudges /\ IdleFits(t, p)

InboundFits(t, p) ==
  /\ t \in TabState /\ t.use = "inbound" /\ p \in PageRec /\ p.wellFormed /\ p.odd = {}
  /\ \/ t.phase = "Move" /\ MoveFits(t.active, p) /\ ~p.focused
     \/ t.phase = "Focus" /\ FocusFits(t.active, p)
     \/ t.phase = "Click" /\ ClickFits(t.active, p) /\ (p.focused => "Focus" \in t.cut)
     \/ /\ t.phase = "Over" /\ t.active = Tab!NoCursor
        /\ p.held # "none" => "Click" \in t.cut
        /\ p.focused => "Focus" \in t.cut

TabInv == /\ clock \in ClockRec
          /\ \/ SessionFits(tab, page) /\ tab.active.at # "Done"
             \/ InboundFits(tab, page)

LEMMA SessionConstants ==
  /\ Texts \subseteq Seq(Char) /\ Distances \subseteq Nat \ {0}
  /\ Nudges \subseteq Nat \ {0} /\ NotchPx \in Nat \ {0} /\ LastCycle \in Nat /\ Delays \subseteq Nat \ {0}
  BY ScenesAssumption DEF Tab!SessionAssumption, Char

LEMMA GreaterOfTwo ==
  ASSUME NEW a \in Nat, NEW b \in Nat
  PROVE  Tab!Max({a, b}) \in Nat /\ Tab!Max({a, b}) >= a /\ Tab!Max({a, b}) >= b
<1> DEFINE P(x) == x \in {a, b} /\ \A y \in {a, b} : x >= y
<1>1. \E x : P(x)
  <2>1. CASE a >= b
    BY <2>1
  <2>2. CASE ~(a >= b)
    BY <2>2
  <2>3. QED
    BY <2>1, <2>2
<1>2. P(CHOOSE x : P(x))
  BY <1>1
<1>3. Tab!Max({a, b}) = CHOOSE x : P(x)
  BY DEF Tab!Max
<1>4. QED
  BY <1>2, <1>3

(* What the page makes of an event it could get. *)
WentBack(p, arg) == IF arg < p.wheel THEN {"back"} ELSE {}
Unchanged(p, arg) == IF arg = p.hidden THEN {"unchanged"} ELSE {}
PageAfter(p, kind, arg) ==
  CASE kind = "move"       -> p
    [] kind = "press"      -> [p EXCEPT !.held = arg]
    [] kind = "release"    -> [p EXCEPT !.held = "none"]
    [] kind = "keydown"    -> [p EXCEPT !.key = arg, !.typed = Tab!Typed(p.typed, arg)]
    [] kind = "keyup"      -> [p EXCEPT !.key = "none"]
    [] kind = "focus"      -> [p EXCEPT !.focused = TRUE]
    [] kind = "blur"       -> [p EXCEPT !.focused = FALSE]
    [] kind = "wheel"      -> [p EXCEPT !.wheel = arg, !.odd = p.odd \cup WentBack(p, arg)]
    [] kind = "visibility" -> [p EXCEPT !.hidden = arg, !.odd = p.odd \cup Unchanged(p, arg)]

LEMMA SeenWhenPossible ==
  ASSUME NEW p \in PageRec, p.wellFormed,
         NEW kind \in {"move", "press", "release", "keydown", "keyup", "focus", "blur", "wheel", "visibility"},
         NEW arg, Tab!Possible(p, Tab!Event(kind, arg))
  PROVE  Tab!Seen(p, Tab!Event(kind, arg)) = PageAfter(p, kind, arg)
<1> DEFINE ev == Tab!Event(kind, arg)
<1>1. ev.kind = kind /\ ev.arg = arg /\ Tab!None = "none"
  BY DEF Tab!Event, Tab!None
<1> HIDE DEF ev
<1> DEFINE r == [p EXCEPT !.wellFormed = p.wellFormed /\ Tab!Possible(p, ev), !.odd = p.odd \cup Tab!Odd(p, ev)]
<1>2. r = [p EXCEPT !.odd = p.odd \cup Tab!Odd(p, ev)]
  BY DEF PageRec, ev
<1>3. Tab!Seen(p, ev) = PageAfter(p, kind, arg)
  <2>1. CASE kind \notin {"wheel", "visibility"}
    <3>1. Tab!Odd(p, ev) = {}
      BY <1>1, <2>1 DEF Tab!Odd
    <3>2. r = p
      BY <1>2, <3>1 DEF PageRec
    <3> HIDE DEF r
    <3>3. QED
      BY <1>1, <2>1, <3>2 DEF Tab!Seen, PageAfter, r
  <2>2. CASE kind = "wheel"
    <3>1. Tab!Odd(p, ev) = WentBack(p, arg)
      BY <1>1, <2>2 DEF Tab!Odd, WentBack
    <3>2. Tab!Seen(p, ev) = [r EXCEPT !.wheel = arg]
      BY <1>1, <2>2 DEF Tab!Seen
    <3> HIDE DEF r
    <3>3. QED
      BY <1>2, <2>2, <3>1, <3>2 DEF PageAfter, PageRec
  <2>3. CASE kind = "visibility"
    <3>1. Tab!Odd(p, ev) = Unchanged(p, arg)
      BY <1>1, <2>3 DEF Tab!Odd, Unchanged
    <3>2. Tab!Seen(p, ev) = [r EXCEPT !.hidden = arg]
      BY <1>1, <2>3 DEF Tab!Seen
    <3> HIDE DEF r
    <3>3. QED
      BY <1>2, <2>3, <3>1, <3>2 DEF PageAfter, PageRec
  <2>4. QED
    BY <2>1, <2>2, <2>3
<1>4. QED
  BY <1>3 DEF ev

LEMMA NothingSeen ==
  ASSUME NEW p
  PROVE  Tab!Seen(p, Tab!NoEvent) = p
  BY DEF Tab!Seen, Tab!NoEvent, Tab!None

(* One step of each cursor. *)
LEMMA MoveStep ==
  ASSUME NEW c, NEW p, MoveFits(c, p), c.at # "Done", NEW s \in Tab!MoveSteps(c)
  PROVE  MoveFits(s[1], p) /\ Tab!Seen(p, s[2]) = p
<1>1. c \in MoveCur /\ p \in PageRec /\ p.wellFormed /\ p.held = "none" /\ p.key = "none" /\ ~p.hidden
  BY DEF MoveFits, HandsOff
<1>2. s[1] \in MoveCur /\ s[2] \in {Tab!NoEvent, Tab!Event("move", Tab!None)}
  BY <1>1 DEF Tab!MoveSteps, Tab!StepMoving, Tab!StepDwelling, MoveCur
<1>3. Tab!Seen(p, Tab!Event("move", Tab!None)) = p
  <2>1. Tab!Possible(p, Tab!Event("move", Tab!None))
    BY <1>1 DEF Tab!Possible, Tab!Event, Tab!None
  <2>2. Tab!Seen(p, Tab!Event("move", Tab!None)) = PageAfter(p, "move", Tab!None)
    BY <1>1, <2>1, SeenWhenPossible
  <2>3. QED
    BY <2>2 DEF PageAfter
<1>4. QED
  BY <1>1, <1>2, <1>3, NothingSeen DEF MoveFits, HandsOff

LEMMA FocusStep ==
  ASSUME NEW c, NEW p, FocusFits(c, p), c.at # "Done", NEW s \in Tab!FocusSteps(c)
  PROVE  LET q == Tab!Seen(p, s[2])
         IN  FocusFits(s[1], q) /\ q.typed = p.typed /\ q.wheel = p.wheel /\ q.odd = p.odd
<1> DEFINE q == Tab!Seen(p, s[2])
<1>1. /\ c \in FocusCur /\ p \in PageRec /\ p.wellFormed /\ p.held = "none" /\ p.key = "none" /\ ~p.hidden
      /\ p.focused <=> c.at = "Dwell"
  BY DEF FocusFits, HandsOff
<1>2. CASE c.at = "FocusIn"
  <2>1. s = <<[c EXCEPT !.at = "Dwell"], Tab!Event("focus", Tab!None)>>
    BY <1>2 DEF Tab!FocusSteps
  <2>2. Tab!Possible(p, Tab!Event("focus", Tab!None))
    BY <1>1, <1>2 DEF Tab!Possible, Tab!Event, Tab!None
  <2>3. q = [p EXCEPT !.focused = TRUE]
    <3>1. q = Tab!Seen(p, Tab!Event("focus", Tab!None))
      BY <2>1
    <3>2. q = PageAfter(p, "focus", Tab!None)
      BY <1>1, <2>2, <3>1, SeenWhenPossible
    <3>3. QED
      BY <3>2 DEF PageAfter
  <2>4. s[1] = [c EXCEPT !.at = "Dwell"]
    BY <2>1
  <2> HIDE DEF q
  <2>5. QED
    BY <1>1, <2>3, <2>4 DEF FocusFits, HandsOff, FocusCur, PageRec, q
<1>3. CASE c.at = "Dwell"
  <2>1. s = <<[c EXCEPT !.at = "FocusOut"], Tab!Event("blur", Tab!None)>>
    BY <1>3 DEF Tab!FocusSteps
  <2>2. Tab!Possible(p, Tab!Event("blur", Tab!None))
    BY <1>1, <1>3 DEF Tab!Possible, Tab!Event, Tab!None
  <2>3. q = [p EXCEPT !.focused = FALSE]
    <3>1. q = Tab!Seen(p, Tab!Event("blur", Tab!None))
      BY <2>1
    <3>2. q = PageAfter(p, "blur", Tab!None)
      BY <1>1, <2>2, <3>1, SeenWhenPossible
    <3>3. QED
      BY <3>2 DEF PageAfter
  <2>4. s[1] = [c EXCEPT !.at = "FocusOut"]
    BY <2>1
  <2> HIDE DEF q
  <2>5. QED
    BY <1>1, <2>3, <2>4 DEF FocusFits, HandsOff, FocusCur, PageRec, q
<1>4. CASE c.at = "FocusOut"
  <2>1. s = <<[c EXCEPT !.at = "Done"], Tab!NoEvent>>
    BY <1>4 DEF Tab!FocusSteps
  <2>2. q = p /\ s[1] = [c EXCEPT !.at = "Done"]
    BY <2>1, NothingSeen
  <2> HIDE DEF q
  <2>3. QED
    BY <1>1, <1>4, <2>2 DEF FocusFits, HandsOff, FocusCur, q
<1>5. QED
  BY <1>1, <1>2, <1>3, <1>4 DEF FocusCur

LEMMA ClickStep ==
  ASSUME NEW c, NEW p, ClickFits(c, p), c.at # "Done", NEW s \in Tab!ClickSteps(c)
  PROVE  LET q == Tab!Seen(p, s[2])
         IN  ClickFits(s[1], q) /\ q.typed = p.typed /\ q.wheel = p.wheel /\ q.odd = p.odd /\ q.focused = p.focused
<1> DEFINE q == Tab!Seen(p, s[2])
<1>1. /\ c \in ClickCur /\ p \in PageRec /\ p.wellFormed /\ p.key = "none" /\ ~p.hidden
      /\ p.held = IF c.at = "Hold" THEN c.button ELSE "none"
  BY DEF ClickFits
<1>2. CASE c.at = "Press"
  <2>1. s = <<[c EXCEPT !.at = "Hold"], Tab!Event("press", c.button)>>
    BY <1>2 DEF Tab!ClickSteps
  <2>2. Tab!Possible(p, Tab!Event("press", c.button))
    BY <1>1, <1>2 DEF Tab!Possible, Tab!Event, Tab!None
  <2>3. q = [p EXCEPT !.held = c.button]
    <3>1. q = Tab!Seen(p, Tab!Event("press", c.button))
      BY <2>1
    <3>2. q = PageAfter(p, "press", c.button)
      BY <1>1, <2>2, <3>1, SeenWhenPossible
    <3>3. QED
      BY <3>2 DEF PageAfter
  <2>4. s[1] = [c EXCEPT !.at = "Hold"]
    BY <2>1
  <2>5. s[1] \in ClickCur /\ s[1].at = "Hold" /\ s[1].button = c.button
    BY <1>1, <2>4 DEF ClickCur
  <2>6. c.button \in {"none", "left", "right"}
    BY <1>1 DEF ClickCur
  <2> HIDE DEF q
  <2>7. q \in PageRec /\ q.held = c.button /\ q.key = p.key /\ q.hidden = p.hidden
        /\ q.wellFormed = p.wellFormed /\ q.typed = p.typed /\ q.wheel = p.wheel /\ q.odd = p.odd /\ q.focused = p.focused
    BY <1>1, <2>3, <2>6 DEF PageRec
  <2>8. QED
    BY <1>1, <2>5, <2>7 DEF ClickFits, q
<1>3. CASE c.at = "Hold"
  <2>1. s = <<[c EXCEPT !.at = "Release"], Tab!Event("release", c.button)>>
    BY <1>3 DEF Tab!ClickSteps
  <2>2. Tab!Possible(p, Tab!Event("release", c.button))
    BY <1>1, <1>3 DEF Tab!Possible, Tab!Event, Tab!None, ClickCur
  <2>3. q = [p EXCEPT !.held = "none"]
    <3>1. q = Tab!Seen(p, Tab!Event("release", c.button))
      BY <2>1
    <3>2. q = PageAfter(p, "release", c.button)
      BY <1>1, <2>2, <3>1, SeenWhenPossible
    <3>3. QED
      BY <3>2 DEF PageAfter
  <2>4. s[1] = [c EXCEPT !.at = "Release"]
    BY <2>1
  <2> HIDE DEF q
  <2>5. QED
    BY <1>1, <2>3, <2>4 DEF ClickFits, ClickCur, PageRec, q
<1>4. CASE c.at = "Release"
  <2>1. /\ s[2] = Tab!NoEvent
        /\ s[1] = IF c.double /\ ~c.second THEN [c EXCEPT !.second = TRUE, !.at = "Press"]
                  ELSE [c EXCEPT !.at = "Done"]
    BY <1>4 DEF Tab!ClickSteps
  <2>2. q = p
    BY <2>1, NothingSeen
  <2>3. s[1] \in ClickCur /\ s[1].at \in {"Press", "Done"}
    BY <1>1, <2>1 DEF ClickCur
  <2> HIDE DEF q
  <2>4. QED
    BY <1>1, <1>4, <2>2, <2>3 DEF ClickFits, q
<1>5. QED
  BY <1>1, <1>2, <1>3, <1>4 DEF ClickCur

(* What stands there when a key went down, and when it was taken back. *)
LEMMA TypedKey ==
  ASSUME NEW chars \in Seq(Char), NEW i \in 0 .. Len(chars), i < Len(chars)
  PROVE  /\ chars[i + 1] \in Char
         /\ SubSeq(chars, 1, i) \in Seq(Char)
         /\ Tab!Typed(SubSeq(chars, 1, i), chars[i + 1]) = SubSeq(chars, 1, i + 1)
         /\ Tab!Typed(SubSeq(chars, 1, i + 1), "backspace") = SubSeq(chars, 1, i)
         /\ SubSeq(chars, 1, i + 1) \in Seq(Char) /\ SubSeq(chars, 1, i + 1) # <<>>
<1> DEFINE a == SubSeq(chars, 1, i)
           b == SubSeq(chars, 1, i + 1)
           x == chars[i + 1]
<1>1. Len(chars) \in Nat /\ i \in Nat /\ i + 1 \in 1 .. Len(chars) /\ DOMAIN chars = 1 .. Len(chars)
  OBVIOUS
<1>2. x \in Char
  BY <1>1, ElementOfSeq
<1>3. x # "backspace" /\ x # "none"
  BY <1>2 DEF Char
<1>4. /\ a \in Seq(Char) /\ Len(a) = i /\ \A n \in 1 .. i : a[n] = chars[n]
      /\ b \in Seq(Char) /\ Len(b) = i + 1 /\ \A n \in 1 .. i + 1 : b[n] = chars[n]
  BY <1>1, SubSeqProperties
<1>5. b # <<>>
  BY <1>1, <1>4, EmptySeq
<1> HIDE DEF a, b, x
<1>7. Append(a, x) = b
  <2>1. /\ Append(a, x) \in Seq(Char) /\ Len(Append(a, x)) = i + 1
        /\ \A n \in 1 .. i : Append(a, x)[n] = a[n]
        /\ Append(a, x)[i + 1] = x
    BY <1>1, <1>2, <1>4, AppendProperties
  <2>2. \A n \in 1 .. i + 1 : Append(a, x)[n] = b[n]
    BY <1>1, <1>4, <2>1 DEF x
  <2>3. QED
    BY <1>4, <2>1, <2>2, SeqEqual
<1>8. Tab!Front(b) = a
  <2>1. Tab!Front(b) = SubSeq(b, 1, i)
    BY <1>1, <1>4 DEF Tab!Front
  <2>2. /\ SubSeq(b, 1, i) \in Seq(Char) /\ Len(SubSeq(b, 1, i)) = i
        /\ \A n \in 1 .. i : SubSeq(b, 1, i)[n] = b[n]
    BY <1>1, <1>4, SubSeqProperties
  <2>3. \A n \in 1 .. i : SubSeq(b, 1, i)[n] = a[n]
    BY <1>1, <1>4, <2>2
  <2>4. QED
    BY <1>4, <2>1, <2>2, <2>3, SeqEqual
<1>9. Tab!Typed(a, x) = b /\ Tab!Typed(b, "backspace") = a
  BY <1>3, <1>5, <1>7, <1>8 DEF Tab!Typed
<1>10. QED
  BY <1>2, <1>4, <1>5, <1>9 DEF a, b, x

LEMMA AllTyped ==
  ASSUME NEW chars \in Seq(Char)
  PROVE  SubSeq(chars, 1, Len(chars)) = chars
<1>1. Len(chars) \in Nat /\ chars \in Seq(Char)
  OBVIOUS
<1>2. /\ SubSeq(chars, 1, Len(chars)) \in Seq(Char) /\ Len(SubSeq(chars, 1, Len(chars))) = Len(chars)
      /\ \A n \in 1 .. Len(chars) : SubSeq(chars, 1, Len(chars))[n] = chars[n]
  BY <1>1, SubSeqProperties
<1>3. QED
  BY <1>1, <1>2, SeqEqual

LEMMA TypeStep ==
  ASSUME NEW c, NEW p, TypeFits(c, p), c.at # "Done", NEW s \in Tab!TypeSteps(c)
  PROVE  LET q == Tab!Seen(p, s[2])
         IN  TypeFits(s[1], q) /\ s[1].chars = c.chars /\ q.wheel = p.wheel /\ q.odd = p.odd /\ q.focused = p.focused
<1> DEFINE q == Tab!Seen(p, s[2])
           i == c.idx
<1>1. /\ c \in TypeCur /\ p \in PageRec /\ p.wellFormed /\ p.held = "none" /\ ~p.hidden
      /\ c.chars \in Seq(Char) /\ i \in Nat /\ Len(c.chars) \in Nat
  BY DEF TypeFits, TypeCur
<1>2. CASE c.at = "Down"
  <2>1. s = <<[c EXCEPT !.at = "Up"], Tab!Event("keydown", c.chars[i + 1])>>
    BY <1>2 DEF Tab!TypeSteps
  <2>2. p.key = "none" /\ p.typed = SubSeq(c.chars, 1, i) /\ i < Len(c.chars)
    BY <1>2 DEF TypeFits, Stands
  <2>3. /\ c.chars[i + 1] \in Char /\ c.chars[i + 1] # "backspace"
        /\ Tab!Typed(p.typed, c.chars[i + 1]) = SubSeq(c.chars, 1, i + 1)
        /\ SubSeq(c.chars, 1, i + 1) \in Seq(Char)
    <3>1. i \in 0 .. Len(c.chars)
      BY <1>1, <2>2
    <3>2. /\ c.chars[i + 1] \in Char
          /\ Tab!Typed(SubSeq(c.chars, 1, i), c.chars[i + 1]) = SubSeq(c.chars, 1, i + 1)
          /\ SubSeq(c.chars, 1, i + 1) \in Seq(Char)
      BY <1>1, <2>2, <3>1, TypedKey
    <3>3. QED
      BY <2>2, <3>2 DEF Char
  <2>4. Tab!Possible(p, Tab!Event("keydown", c.chars[i + 1]))
    BY <1>1, <2>2, <2>3 DEF Tab!Possible, Tab!Event, Tab!None
  <2>5. q = PageAfter(p, "keydown", c.chars[i + 1])
    BY <1>1, <2>1, <2>4, SeenWhenPossible
  <2>6. q = [p EXCEPT !.key = c.chars[i + 1], !.typed = SubSeq(c.chars, 1, i + 1)]
    BY <2>3, <2>5 DEF PageAfter
  <2>7. s[1] = [c EXCEPT !.at = "Up"]
    BY <2>1
  <2> HIDE DEF q
  <2>8. /\ q \in PageRec /\ q.key = c.chars[i + 1] /\ q.typed = SubSeq(c.chars, 1, i + 1)
        /\ q.held = p.held /\ q.hidden = p.hidden /\ q.wellFormed = p.wellFormed
        /\ q.wheel = p.wheel /\ q.odd = p.odd /\ q.focused = p.focused
    BY <1>1, <2>3, <2>6 DEF PageRec
  <2>9. s[1] \in TypeCur /\ s[1].at = "Up" /\ s[1].idx = i /\ s[1].chars = c.chars
    BY <1>1, <2>7 DEF TypeCur
  <2>10. QED
    BY <1>1, <2>2, <2>8, <2>9 DEF TypeFits, Stands, q
<1>3. CASE c.at = "Up"
  <2>1. PICK d \in Tab!Advanced(c) : s = <<d, Tab!Event("keyup", c.chars[i + 1])>>
    BY <1>3 DEF Tab!TypeSteps
  <2>2. p.key = c.chars[i + 1] /\ p.typed = SubSeq(c.chars, 1, i + 1) /\ i < Len(c.chars)
    BY <1>3 DEF TypeFits, Stands
  <2>3. c.chars[i + 1] # "none"
    BY <1>1, <2>2, TypedKey DEF Char
  <2>4. Tab!Possible(p, Tab!Event("keyup", c.chars[i + 1]))
    BY <1>1, <2>2, <2>3 DEF Tab!Possible, Tab!Event, Tab!None
  <2>5. q = PageAfter(p, "keyup", c.chars[i + 1])
    BY <1>1, <2>1, <2>4, SeenWhenPossible
  <2>6. q = [p EXCEPT !.key = "none"] /\ s[1] = d
    BY <2>1, <2>5 DEF PageAfter
  <2> HIDE DEF q
  <2>7. /\ q \in PageRec /\ q.key = "none" /\ q.typed = SubSeq(c.chars, 1, i + 1)
        /\ q.held = p.held /\ q.hidden = p.hidden /\ q.wellFormed = p.wellFormed
        /\ q.wheel = p.wheel /\ q.odd = p.odd /\ q.focused = p.focused
    BY <1>1, <2>2, <2>6 DEF PageRec
  <2>8. CASE d = [c EXCEPT !.at = "BackDown"]
    <3>1. d \in TypeCur /\ d.at = "BackDown" /\ d.idx = i /\ d.chars = c.chars
      BY <1>1, <2>8 DEF TypeCur
    <3>2. QED
      BY <1>1, <2>2, <2>6, <2>7, <3>1 DEF TypeFits, Stands, q
  <2>9. CASE d = Tab!NextChar(c)
    <3>1. /\ d \in TypeCur /\ d.idx = i + 1 /\ d.chars = c.chars
          /\ d.at = IF i + 1 < Len(c.chars) THEN "Down" ELSE "Last"
      <4> DEFINE next == IF i + 1 < Len(c.chars) THEN "Down" ELSE "Last"
      <4>1. d = [c EXCEPT !.idx = i + 1, !.at = next]
        BY <2>9 DEF Tab!NextChar
      <4>2. next \in {"Down", "Up", "BackDown", "BackUp", "Last", "Done"} /\ i + 1 \in Nat
        BY <1>1
      <4> HIDE DEF next, i
      <4>3. d \in TypeCur /\ d.idx = i + 1 /\ d.chars = c.chars /\ d.at = next
        BY <1>1, <4>1, <4>2 DEF TypeCur
      <4>4. QED
        BY <4>3 DEF next
    <3>2. CASE i + 1 < Len(c.chars)
      BY <1>1, <2>6, <2>7, <3>1, <3>2 DEF TypeFits, Stands, q
    <3>3. CASE ~(i + 1 < Len(c.chars))
      <4>1. i + 1 = Len(c.chars) /\ d.at = "Last"
        BY <1>1, <2>2, <3>1, <3>3
      <4>2. q.typed = c.chars
        BY <1>1, <2>7, <4>1, AllTyped
      <4>3. QED
        BY <1>1, <2>6, <2>7, <3>1, <4>1, <4>2 DEF TypeFits, Stands, q
    <3>4. QED
      BY <3>2, <3>3
  <2>10. QED
    BY <2>8, <2>9 DEF Tab!Advanced
<1>4. CASE c.at = "BackDown"
  <2>1. s = <<[c EXCEPT !.at = "BackUp"], Tab!Event("keydown", "backspace")>>
    BY <1>4 DEF Tab!TypeSteps
  <2>2. p.key = "none" /\ p.typed = SubSeq(c.chars, 1, i + 1) /\ i < Len(c.chars)
    BY <1>4 DEF TypeFits, Stands
  <2>3. /\ Tab!Typed(p.typed, "backspace") = SubSeq(c.chars, 1, i)
        /\ SubSeq(c.chars, 1, i) \in Seq(Char) /\ p.typed # <<>>
    <3>1. c.chars \in Seq(Char) /\ i \in 0 .. Len(c.chars) /\ i < Len(c.chars)
      BY <1>1, <2>2
    <3> HIDE DEF i
    <3>2. /\ Tab!Typed(SubSeq(c.chars, 1, i + 1), "backspace") = SubSeq(c.chars, 1, i)
          /\ SubSeq(c.chars, 1, i) \in Seq(Char) /\ SubSeq(c.chars, 1, i + 1) # <<>>
      BY <3>1, TypedKey
    <3>3. QED
      BY <2>2, <3>2
  <2>4. Tab!Possible(p, Tab!Event("keydown", "backspace"))
    BY <1>1, <2>2, <2>3 DEF Tab!Possible, Tab!Event, Tab!None
  <2>5. q = PageAfter(p, "keydown", "backspace")
    BY <1>1, <2>1, <2>4, SeenWhenPossible
  <2>6. q = [p EXCEPT !.key = "backspace", !.typed = SubSeq(c.chars, 1, i)]
    BY <2>3, <2>5 DEF PageAfter
  <2>7. s[1] = [c EXCEPT !.at = "BackUp"]
    BY <2>1
  <2> HIDE DEF q
  <2>8. /\ q \in PageRec /\ q.key = "backspace" /\ q.typed = SubSeq(c.chars, 1, i)
        /\ q.held = p.held /\ q.hidden = p.hidden /\ q.wellFormed = p.wellFormed
        /\ q.wheel = p.wheel /\ q.odd = p.odd /\ q.focused = p.focused
    <3> DEFINE left == SubSeq(c.chars, 1, i)
               key == "backspace"
    <3>1. q = [p EXCEPT !.key = key, !.typed = left] /\ left \in Seq(Char) /\ key \in Char \cup {"none", "backspace"}
      BY <2>3, <2>6
    <3> HIDE DEF left, key
    <3>2. /\ q \in PageRec /\ q.key = key /\ q.typed = left
          /\ q.held = p.held /\ q.hidden = p.hidden /\ q.wellFormed = p.wellFormed
          /\ q.wheel = p.wheel /\ q.odd = p.odd /\ q.focused = p.focused
      BY <1>1, <3>1 DEF PageRec
    <3>3. QED
      BY <3>2 DEF left, key
  <2>9. s[1] \in TypeCur /\ s[1].at = "BackUp" /\ s[1].idx = i /\ s[1].chars = c.chars
    BY <1>1, <2>7 DEF TypeCur
  <2>10. QED
    BY <1>1, <2>2, <2>8, <2>9 DEF TypeFits, Stands, q
<1>5. CASE c.at = "BackUp"
  <2>1. s = <<[c EXCEPT !.at = "Down"], Tab!Event("keyup", "backspace")>>
    BY <1>5 DEF Tab!TypeSteps
  <2>2. p.key = "backspace" /\ p.typed = SubSeq(c.chars, 1, i) /\ i < Len(c.chars)
    BY <1>5 DEF TypeFits, Stands
  <2>3. Tab!Possible(p, Tab!Event("keyup", "backspace"))
    BY <1>1, <2>2 DEF Tab!Possible, Tab!Event, Tab!None
  <2>4. q = PageAfter(p, "keyup", "backspace")
    BY <1>1, <2>1, <2>3, SeenWhenPossible
  <2>5. q = [p EXCEPT !.key = "none"] /\ s[1] = [c EXCEPT !.at = "Down"]
    BY <2>1, <2>4 DEF PageAfter
  <2> HIDE DEF q
  <2>6. /\ q \in PageRec /\ q.key = "none" /\ q.typed = SubSeq(c.chars, 1, i)
        /\ q.held = p.held /\ q.hidden = p.hidden /\ q.wellFormed = p.wellFormed
        /\ q.wheel = p.wheel /\ q.odd = p.odd /\ q.focused = p.focused
    BY <1>1, <2>2, <2>5 DEF PageRec
  <2>7. s[1] \in TypeCur /\ s[1].at = "Down" /\ s[1].idx = i /\ s[1].chars = c.chars
    BY <1>1, <2>5 DEF TypeCur
  <2>8. QED
    BY <1>1, <2>2, <2>6, <2>7 DEF TypeFits, Stands, q
<1>6. CASE c.at = "Last"
  <2>1. s = <<[c EXCEPT !.at = "Done"], Tab!NoEvent>>
    BY <1>6 DEF Tab!TypeSteps
  <2>2. q = p /\ s[1] = [c EXCEPT !.at = "Done"]
    BY <2>1, NothingSeen
  <2>3. p.key = "none" /\ p.typed = c.chars
    BY <1>6 DEF TypeFits
  <2> HIDE DEF q
  <2>4. s[1] \in TypeCur /\ s[1].at = "Done" /\ s[1].chars = c.chars
    BY <1>1, <2>2 DEF TypeCur
  <2>5. QED
    BY <1>1, <2>2, <2>3, <2>4 DEF TypeFits, q
<1>7. QED
  BY <1>1, <1>2, <1>3, <1>4, <1>5, <1>6 DEF TypeCur

LEMMA ScrollStep ==
  ASSUME NEW c, NEW p, ScrollFits(c, p), c.at # "Done", NEW s \in Tab!ScrollSteps(c)
  PROVE  LET q == Tab!Seen(p, s[2])
         IN  /\ ScrollFits(s[1], q) /\ s[1].y + s[1].left = c.y + c.left
             /\ q.typed = p.typed /\ q.focused = p.focused /\ q.odd = p.odd
<1> DEFINE q == Tab!Seen(p, s[2])
<1>1. /\ c \in ScrollCur /\ p \in PageRec /\ p.wellFormed /\ p.held = "none" /\ p.key = "none" /\ ~p.hidden
      /\ p.wheel = c.y /\ c.left \in Nat /\ c.y \in Nat /\ c.velocity \in Nat
  BY DEF ScrollFits, HandsOff, ScrollCur
<1> DEFINE Step(n) == Tab!Friction(c.velocity + NotchPx * n)
           Lands(n) == c.left <= Tab!Max({Step(n), 1})
           At(n) == c.y + IF Lands(n) THEN c.left ELSE Step(n)
           Notched(n) == <<[c EXCEPT !.at = IF Lands(n) THEN "Done" ELSE @,
                                     !.left = IF Lands(n) THEN 0 ELSE @ - Step(n),
                                     !.velocity = IF Lands(n) THEN 0 ELSE Step(n), !.y = At(n)],
                           IF At(n) = c.y THEN Tab!NoEvent ELSE Tab!Event("wheel", At(n))>>
<1>2. PICK n \in 0 .. 3 : s = Notched(n)
  <2>1. s \in {Notched(n) : n \in IF c.y = 0 THEN 1 .. 3 ELSE 0 .. 3}
    BY DEF Tab!ScrollSteps
  <2> HIDE DEF Notched
  <2>2. PICK n \in (IF c.y = 0 THEN 1 .. 3 ELSE 0 .. 3) : s = Notched(n)
    BY <2>1
  <2>3. n \in 0 .. 3
    BY <2>2
  <2>4. QED
    BY <2>2, <2>3
<1> DEFINE v == c.velocity + NotchPx * n
           step == Step(n)
           lands == Lands(n)
           y == At(n)
<1>3. /\ s[1] = [c EXCEPT !.at = IF lands THEN "Done" ELSE c.at, !.left = IF lands THEN 0 ELSE c.left - step,
                          !.velocity = IF lands THEN 0 ELSE step, !.y = y]
      /\ s[2] = IF y = c.y THEN Tab!NoEvent ELSE Tab!Event("wheel", y)
  BY <1>2
<1> HIDE DEF Notched
<1>4. step \in Nat
  <2>1. v \in Nat
    BY <1>1, SessionConstants
  <2>3. step = Tab!Friction(v)
    OBVIOUS
  <2> HIDE DEF v, step
  <2>2. v \div 3 \in Nat /\ v \div 3 <= v
    BY <2>1
  <2>4. QED
    BY <2>1, <2>2, <2>3 DEF Tab!Friction
<1>5. Tab!Max({step, 1}) \in Nat /\ Tab!Max({step, 1}) >= step
  BY <1>4, GreaterOfTwo
<1>6. lands <=> c.left <= Tab!Max({step, 1})
  OBVIOUS
<1>7. y = c.y + IF lands THEN c.left ELSE step
  OBVIOUS
<1> HIDE DEF step, lands, y, Step, Lands, At
<1>a. ~lands => c.left - step \in Nat
  BY <1>1, <1>4, <1>5, <1>6
<1>b. y \in Nat /\ y >= c.y
  BY <1>1, <1>4, <1>7
<1>8. /\ s[1] \in ScrollCur /\ s[1].y = y /\ s[1].y + s[1].left = c.y + c.left
      /\ s[1].at = "Done" => s[1].left = 0
  <2> DEFINE then == IF lands THEN "Done" ELSE c.at
             left == IF lands THEN 0 ELSE c.left - step
             velocity == IF lands THEN 0 ELSE step
  <2>1. /\ then \in {"Going", "Done"} /\ left \in Nat /\ velocity \in Nat
        /\ then = "Done" => left = 0
    BY <1>1, <1>4, <1>a DEF ScrollCur
  <2>2. y + left = c.y + c.left
    BY <1>1, <1>4, <1>7
  <2>3. s[1] = [c EXCEPT !.at = then, !.left = left, !.velocity = velocity, !.y = y]
    BY <1>3
  <2> HIDE DEF then, left, velocity
  <2>4. s[1] \in ScrollCur /\ s[1].y = y /\ s[1].left = left /\ s[1].at = then
    BY <1>1, <1>b, <2>1, <2>3 DEF ScrollCur
  <2>5. QED
    BY <2>1, <2>2, <2>4
<1>9. q \in PageRec /\ q.wellFormed /\ q.wheel = y /\ q.held = p.held /\ q.key = p.key
      /\ q.hidden = p.hidden /\ q.typed = p.typed /\ q.focused = p.focused /\ q.odd = p.odd
  <2>1. CASE y = c.y
    <3>1. q = p
      BY <1>3, <2>1, NothingSeen
    <3>2. QED
      BY <1>1, <2>1, <3>1
  <2>2. CASE y # c.y
    <3>1. Tab!Possible(p, Tab!Event("wheel", y))
      BY <1>1, <1>b DEF Tab!Possible, Tab!Event, Tab!None
    <3>2. q = PageAfter(p, "wheel", y)
      BY <1>1, <1>3, <2>2, <3>1, SeenWhenPossible
    <3>3. q = [p EXCEPT !.wheel = y]
      <4>1. ~(y < p.wheel)
        BY <1>1, <1>b
      <4>2. p.odd \cup {} = p.odd
        OBVIOUS
      <4>3. [p EXCEPT !.wheel = y, !.odd = p.odd \cup {}] = [p EXCEPT !.wheel = y]
        BY <1>1, <4>2 DEF PageRec
      <4>4. QED
        BY <3>2, <4>1, <4>3 DEF PageAfter, WentBack
    <3> HIDE DEF q
    <3>4. QED
      BY <1>1, <1>b, <3>3 DEF PageRec
  <2>3. QED
    BY <2>1, <2>2
<1> HIDE DEF q
<1>10. QED
  BY <1>1, <1>8, <1>9 DEF ScrollFits, HandsOff, q

(* A tab that goes to another phase. *)
LEMMA Enters ==
  ASSUME NEW t \in TabState, NEW phase \in Phases, NEW c \in Cursors
  PROVE  LET u == Tab!Enter(t, phase, c)
         IN  /\ u \in TabState /\ u.phase = phase /\ u.active = c
             /\ u.use = t.use /\ u.text = t.text /\ u.asked = t.asked /\ u.total = t.total
             /\ u.cut = t.cut /\ u.idle = t.idle /\ u.parity = t.parity
  BY DEF Tab!Enter, TabState

LEMMA FirstCursors ==
  /\ Tab!MoveCursor \in MoveCur /\ Tab!MoveCursor.at # "Done"
  /\ Tab!FocusCursor \in FocusCur /\ Tab!FocusCursor.at = "FocusIn"
  /\ \A c \in Tab!ClickCursors : c \in ClickCur /\ c.at = "Press"
  /\ Tab!NoCursor.at = "none" /\ Tab!NoCursor.kind = "none"
  /\ Tab!NoIdle \in IdleRec /\ Tab!NoIdle.hop = Tab!NoCursor /\ ~Tab!NoIdle.hidden
<1>1. /\ Tab!MoveCursor \in MoveCur /\ Tab!MoveCursor.at # "Done"
      /\ Tab!FocusCursor \in FocusCur /\ Tab!FocusCursor.at = "FocusIn"
  BY DEF Tab!MoveCursor, MoveCur, Tab!FocusCursor, FocusCur
<1>2. \A c \in Tab!ClickCursors : c \in ClickCur /\ c.at = "Press"
  BY DEF Tab!ClickCursors, ClickCur
<1>3. Tab!NoCursor.at = "none" /\ Tab!NoCursor.kind = "none"
  BY DEF Tab!NoCursor, Tab!None
<1>4. Tab!NoIdle.hop = Tab!NoCursor /\ ~Tab!NoIdle.hidden
  BY DEF Tab!NoIdle
<1>5. Tab!NoIdle \in IdleRec
  <2>1. -1 \in Int
    OBVIOUS
  <2>2. QED
    BY <2>1 DEF Tab!NoIdle, IdleRec
<1>6. QED
  BY <1>1, <1>2, <1>3, <1>4, <1>5

LEMMA FirstTypeCursor ==
  ASSUME NEW chars \in Seq(Char)
  PROVE  LET c == Tab!TypeCursor(chars)
         IN  /\ c \in TypeCur /\ c.chars = chars /\ c.idx = 0
             /\ c.at = IF chars = <<>> THEN "Last" ELSE "Down"
  BY DEF Tab!TypeCursor, TypeCur

LEMMA FirstScrollCursor ==
  ASSUME NEW total \in Nat
  PROVE  LET c == Tab!ScrollCursor(total)
         IN  c \in ScrollCur /\ c.at = "Going" /\ c.left = total /\ c.y = 0
  BY DEF Tab!ScrollCursor, ScrollCur

(* The kind of its cursor is known from the phase. *)
LEMMA CursorOfPhase ==
  ASSUME NEW t, NEW p, SessionFits(t, p)
  PROVE  /\ t.active.kind \in {"Move", "Focus", "Click", "Type", "Scroll", "none"}
         /\ t.active.kind = "Move" => /\ t.phase = "Approach" /\ t.text = t.asked /\ Blank(p)
                                      /\ MoveFits(t.active, p) /\ ~p.focused
         /\ t.active.kind = "Focus" => /\ t.phase = "Approach" /\ t.text = t.asked /\ Blank(p)
                                       /\ FocusFits(t.active, p)
         /\ t.active.kind = "Click" => /\ t.phase = "Click" /\ t.text = t.asked /\ Blank(p)
                                       /\ ClickFits(t.active, p) /\ ~p.focused
         /\ t.active.kind = "Type" => /\ t.phase = "Typing" /\ t.text = Tab!NoText
                                      /\ t.asked # Tab!NoText /\ TypeFits(t.active, p)
                                      /\ t.active.chars = t.asked /\ ~p.focused /\ p.wheel = 0
         /\ t.active.kind = "Scroll" => /\ t.phase = "Reading" /\ p.typed = AskedOf(t) /\ ~p.focused
                                        /\ ScrollFits(t.active, p)
                                        /\ t.active.y + t.active.left = t.total
         /\ t.active.kind = "none" => /\ t.phase = "Idle" /\ t.active = Tab!NoCursor
                                      /\ p.typed = AskedOf(t) /\ ~p.focused
                                      /\ p.wheel \in {t.total} \cup Nudges /\ IdleFits(t, p)
<1>1. /\ MoveFits(t.active, p) => t.active.kind = "Move"
      /\ FocusFits(t.active, p) => t.active.kind = "Focus"
      /\ ClickFits(t.active, p) => t.active.kind = "Click"
      /\ TypeFits(t.active, p) => t.active.kind = "Type"
      /\ ScrollFits(t.active, p) => t.active.kind = "Scroll"
      /\ t.active = Tab!NoCursor => t.active.kind = "none"
  BY FirstCursors DEF MoveFits, FocusFits, ClickFits, TypeFits, ScrollFits,
                      MoveCur, FocusCur, ClickCur, TypeCur, ScrollCur
<1>2. QED
  BY <1>1 DEF SessionFits

(* A session whose cursor is done goes on to the next. *)
LEMMA SessionEnters ==
  ASSUME NEW t, NEW p, SessionFits(t, p), t.active.at = "Done", NEW u \in Tab!Entered(t)
  PROVE  SessionFits(u, p) /\ u.active.at # "Done"
<1>1. /\ t \in TabState /\ t.use = "session" /\ p \in PageRec /\ p.wellFormed
      /\ t.phase # "Idle" => p.odd = {}
      /\ t.asked \in Texts \cup {Tab!NoText}
  BY DEF SessionFits
<1>2. t.total \in Nat /\ t.active # Tab!NoCursor /\ t.active.kind # "none"
  <2>1. t.active # Tab!NoCursor
    BY FirstCursors
  <2>2. t.active.kind # "none"
    BY <2>1, CursorOfPhase
  <2>3. QED
    BY <1>1, <2>1, <2>2 DEF TabState
<1>3. CASE t.active.kind = "Move"
  <2>1. u = Tab!Enter(t, "Approach", Tab!FocusCursor)
    BY <1>3 DEF Tab!Entered
  <2>2. Tab!FocusCursor \in Cursors /\ "Approach" \in Phases
    BY FirstCursors DEF Cursors, Phases
  <2>3. /\ u \in TabState /\ u.phase = "Approach" /\ u.active = Tab!FocusCursor
        /\ u.use = t.use /\ u.text = t.text /\ u.asked = t.asked
    BY <1>1, <2>1, <2>2, Enters
  <2>4. FocusFits(u.active, p) /\ u.active.at # "Done"
    BY <1>3, <2>3, CursorOfPhase, FirstCursors DEF FocusFits, MoveFits
  <2>5. QED
    BY <1>1, <1>3, <2>3, <2>4, CursorOfPhase DEF SessionFits
<1>4. CASE t.active.kind = "Focus"
  <2>1. PICK c \in Tab!ClickCursors : u = Tab!Enter(t, "Click", c)
    BY <1>4 DEF Tab!Entered
  <2>2. c \in Cursors /\ "Click" \in Phases
    BY FirstCursors DEF Cursors, Phases
  <2>3. /\ u \in TabState /\ u.phase = "Click" /\ u.active = c
        /\ u.use = t.use /\ u.text = t.text /\ u.asked = t.asked
    BY <1>1, <2>1, <2>2, Enters
  <2>4. ClickFits(u.active, p) /\ u.active.at # "Done" /\ ~p.focused
    BY <1>4, <2>3, CursorOfPhase, FirstCursors DEF FocusFits, ClickFits, HandsOff
  <2>5. QED
    BY <1>1, <1>4, <2>3, <2>4, CursorOfPhase DEF SessionFits
<1>5. CASE t.active.kind = "Scroll"
  <2>1. u = [Tab!Enter(t, "Idle", Tab!NoCursor) EXCEPT !.idle = Tab!NoIdle]
    BY <1>5 DEF Tab!Entered, Tab!EnterIdle
  <2>2. Tab!NoCursor \in Cursors /\ "Idle" \in Phases
    BY DEF Cursors, Phases
  <2>3. /\ u \in TabState /\ u.phase = "Idle" /\ u.active = Tab!NoCursor
        /\ u.use = t.use /\ u.asked = t.asked /\ u.total = t.total /\ u.idle = Tab!NoIdle
    <3> DEFINE v == Tab!Enter(t, "Idle", Tab!NoCursor)
    <3>1. /\ v \in TabState /\ v.phase = "Idle" /\ v.active = Tab!NoCursor
          /\ v.use = t.use /\ v.asked = t.asked /\ v.total = t.total
      BY <1>1, <2>2, Enters
    <3> HIDE DEF v
    <3>2. QED
      BY <2>1, <3>1, FirstCursors DEF TabState, v
  <2>4. IdleFits(u, p)
    <3>1. p.held = "none" /\ p.key = "none" /\ ~p.hidden
      BY <1>5, CursorOfPhase DEF ScrollFits, HandsOff
    <3>2. ~u.idle.hidden /\ u.idle.hop.at = "none" /\ u.idle.hidden \in BOOLEAN /\ p.hidden \in BOOLEAN
      BY <1>1, <2>3, FirstCursors DEF IdleRec, PageRec
    <3>3. QED
      BY <3>1, <3>2 DEF IdleFits
  <2>5. p.wheel = u.total /\ p.typed = AskedOf(u) /\ ~p.focused
    <3>1. t.active.left = 0 /\ p.wheel = t.active.y /\ t.active.y + t.active.left = t.total /\ t.active.y \in Nat
      BY <1>5, CursorOfPhase DEF ScrollFits, ScrollCur
    <3>2. QED
      BY <1>5, <2>3, <3>1, CursorOfPhase DEF AskedOf
  <2>6. QED
    BY <1>1, <2>3, <2>4, <2>5, FirstCursors DEF SessionFits
<1>6. ASSUME t.phase # "Idle", u = Tab!EnterReading(t), HandsOff(p), p.wheel = 0, ~p.focused, p.typed = AskedOf(t)
      PROVE  SessionFits(u, p) /\ u.active.at # "Done"
  <2> DEFINE c == Tab!ScrollCursor(t.total)
  <2>1. c \in ScrollCur /\ c.at = "Going" /\ c.left = t.total /\ c.y = 0
    BY <1>2, FirstScrollCursor
  <2>2. u = Tab!Enter(t, "Reading", c)
    BY <1>6 DEF Tab!EnterReading
  <2> HIDE DEF c
  <2>3. c \in Cursors /\ "Reading" \in Phases
    BY <2>1 DEF Cursors, Phases
  <2>4. /\ u \in TabState /\ u.phase = "Reading" /\ u.active = c
        /\ u.use = t.use /\ u.asked = t.asked /\ u.total = t.total
    BY <1>1, <2>2, <2>3, Enters
  <2>5. ScrollFits(u.active, p) /\ u.active.y + u.active.left = u.total /\ u.active.at # "Done"
    BY <1>2, <1>6, <2>1, <2>4 DEF ScrollFits
  <2>6. p.typed = AskedOf(u)
    BY <1>6, <2>4 DEF AskedOf
  <2>7. QED
    BY <1>1, <1>6, <2>4, <2>5, <2>6 DEF SessionFits
<1>7. CASE t.active.kind = "Click" /\ t.text = Tab!NoText
  <2>1. u = Tab!EnterReading(t)
    BY <1>7, CursorOfPhase DEF Tab!Entered, Tab!EnterNext
  <2>2. t.phase # "Idle" /\ HandsOff(p) /\ p.wheel = 0 /\ ~p.focused /\ p.typed = AskedOf(t)
    BY <1>7, CursorOfPhase DEF ClickFits, HandsOff, Blank, AskedOf
  <2>3. QED
    BY <1>6, <2>1, <2>2
<1>8. CASE t.active.kind = "Click" /\ t.text # Tab!NoText
  <2> DEFINE c == Tab!TypeCursor(t.text)
             v == Tab!Enter(t, "Typing", c)
  <2>1. t.phase = "Click" /\ t.text = t.asked /\ Blank(p) /\ ClickFits(t.active, p) /\ ~p.focused
    BY <1>8, CursorOfPhase
  <2>2. u = [v EXCEPT !.text = Tab!NoText]
    BY <1>8, <2>1 DEF Tab!Entered, Tab!EnterNext
  <2>3. t.text \in Seq(Char)
    BY <1>1, <1>8, <2>1, SessionConstants
  <2>4. /\ c \in TypeCur /\ c.chars = t.text /\ c.idx = 0
        /\ c.at = IF t.text = <<>> THEN "Last" ELSE "Down"
    BY <2>3, FirstTypeCursor
  <2> HIDE DEF c
  <2>5. c \in Cursors /\ "Typing" \in Phases
    BY <2>4 DEF Cursors, Phases
  <2>6. /\ v \in TabState /\ v.phase = "Typing" /\ v.active = c
        /\ v.use = t.use /\ v.asked = t.asked /\ v.total = t.total
    BY <1>1, <2>5, Enters
  <2>7. Tab!NoText \in Seq(Char \cup {"none"})
    BY DEF Tab!NoText, Tab!None
  <2> HIDE DEF v
  <2>8. /\ u \in TabState /\ u.phase = "Typing" /\ u.active = c /\ u.text = Tab!NoText
        /\ u.use = t.use /\ u.asked = t.asked /\ u.total = t.total
    BY <2>2, <2>6, <2>7 DEF TabState
  <2>9. TypeFits(c, p) /\ c.at # "Done"
    <3>1. p.held = "none" /\ p.key = "none" /\ ~p.hidden /\ p.typed = <<>>
      BY <1>8, <2>1 DEF ClickFits, Blank
    <3>2. CASE t.text = <<>>
      BY <1>1, <2>4, <3>1, <3>2 DEF TypeFits
    <3>3. CASE t.text # <<>>
      <4>1. Len(t.text) > 0 /\ SubSeq(t.text, 1, 0) = <<>>
        BY <2>3, <3>3, EmptySeq
      <4>2. QED
        BY <1>1, <2>4, <3>1, <3>3, <4>1 DEF TypeFits, Stands
    <3>4. QED
      BY <3>2, <3>3
  <2>10. QED
    BY <1>1, <1>8, <2>1, <2>4, <2>8, <2>9 DEF SessionFits, Blank
<1>9. CASE t.active.kind = "Type"
  <2>1. u = Tab!EnterReading(t)
    BY <1>9, CursorOfPhase DEF Tab!Entered, Tab!EnterNext
  <2>2. t.phase # "Idle" /\ HandsOff(p) /\ p.wheel = 0 /\ ~p.focused /\ p.typed = AskedOf(t)
    BY <1>9, CursorOfPhase DEF TypeFits, HandsOff, AskedOf
  <2>3. QED
    BY <1>6, <2>1, <2>2
<1>10. QED
  BY <1>2, <1>3, <1>4, <1>5, <1>7, <1>8, <1>9, CursorOfPhase

(* A cursor that steps, whatever comes of it. *)
LEMMA SessionSteps ==
  ASSUME NEW t, NEW p, SessionFits(t, p), t.active.at # "Done", t.active # Tab!NoCursor,
         NEW s \in Tab!Steps(t.active)
  PROVE  SessionFits([t EXCEPT !.active = s[1]], Tab!Seen(p, s[2]))
<1> DEFINE u == [t EXCEPT !.active = s[1]]
           q == Tab!Seen(p, s[2])
           c == t.active
<1>1. /\ t \in TabState /\ t.use = "session" /\ t.asked \in Texts \cup {Tab!NoText}
  BY DEF SessionFits
<1>2. ASSUME s[1] \in Cursors
      PROVE  /\ u \in TabState /\ u.active = s[1] /\ u.use = t.use /\ u.phase = t.phase
             /\ u.text = t.text /\ u.asked = t.asked /\ u.total = t.total /\ AskedOf(u) = AskedOf(t)
  BY <1>1, <1>2 DEF TabState, AskedOf
<1> HIDE DEF u, q
<1>3. CASE c.kind = "Move"
  <2>1. MoveFits(c, p) /\ s \in Tab!MoveSteps(c)
    BY <1>3, CursorOfPhase DEF Tab!Steps
  <2>2. MoveFits(s[1], p) /\ q = p
    BY <2>1, MoveStep DEF q
  <2>3. s[1] \in Cursors
    BY <2>2 DEF MoveFits, Cursors
  <2>4. QED
    BY <1>1, <1>2, <1>3, <2>2, <2>3, CursorOfPhase DEF SessionFits, MoveFits, HandsOff, u, q
<1>4. CASE c.kind = "Focus"
  <2>1. FocusFits(c, p) /\ s \in Tab!FocusSteps(c)
    BY <1>4, CursorOfPhase DEF Tab!Steps
  <2>2. FocusFits(s[1], q) /\ q.typed = p.typed /\ q.wheel = p.wheel /\ q.odd = p.odd
    BY <2>1, FocusStep DEF q
  <2>3. s[1] \in Cursors /\ q \in PageRec /\ q.wellFormed
    BY <2>2 DEF FocusFits, HandsOff, Cursors
  <2>4. t.phase = "Approach" /\ t.text = t.asked /\ Blank(q)
    BY <1>4, <2>2, CursorOfPhase DEF Blank
  <2>5. SessionFits(u, q)
    BY <1>1, <1>2, <2>2, <2>3, <2>4 DEF SessionFits
  <2>6. QED
    BY <2>5 DEF u, q
<1>5. CASE c.kind = "Click"
  <2>1. ClickFits(c, p) /\ s \in Tab!ClickSteps(c)
    BY <1>5, CursorOfPhase DEF Tab!Steps
  <2>2. ClickFits(s[1], q) /\ q.typed = p.typed /\ q.wheel = p.wheel /\ q.odd = p.odd /\ q.focused = p.focused
    BY <2>1, ClickStep DEF q
  <2>3. s[1] \in Cursors /\ q \in PageRec /\ q.wellFormed
    BY <2>2 DEF ClickFits, Cursors
  <2>4. t.phase = "Click" /\ t.text = t.asked /\ Blank(q) /\ ~q.focused
    BY <1>5, <2>2, CursorOfPhase DEF Blank
  <2>5. SessionFits(u, q)
    BY <1>1, <1>2, <2>2, <2>3, <2>4 DEF SessionFits
  <2>6. QED
    BY <2>5 DEF u, q
<1>6. CASE c.kind = "Type"
  <2>1. TypeFits(c, p) /\ s \in Tab!TypeSteps(c)
    BY <1>6, CursorOfPhase DEF Tab!Steps
  <2>2. TypeFits(s[1], q) /\ s[1].chars = c.chars /\ q.wheel = p.wheel /\ q.odd = p.odd /\ q.focused = p.focused
    BY <2>1, TypeStep DEF q
  <2>3. s[1] \in Cursors /\ q \in PageRec /\ q.wellFormed
    BY <2>2 DEF TypeFits, Cursors
  <2>4. /\ t.phase = "Typing" /\ t.text = Tab!NoText /\ t.asked # Tab!NoText
        /\ s[1].chars = t.asked /\ ~q.focused /\ q.wheel = 0
    BY <1>6, <2>2, CursorOfPhase
  <2>5. SessionFits(u, q)
    BY <1>1, <1>2, <2>2, <2>3, <2>4 DEF SessionFits
  <2>6. QED
    BY <2>5 DEF u, q
<1>7. CASE c.kind = "Scroll"
  <2>1. ScrollFits(c, p) /\ s \in Tab!ScrollSteps(c)
    BY <1>7, CursorOfPhase DEF Tab!Steps
  <2>2. /\ ScrollFits(s[1], q) /\ s[1].y + s[1].left = c.y + c.left
        /\ q.typed = p.typed /\ q.focused = p.focused /\ q.odd = p.odd
    BY <2>1, ScrollStep DEF q
  <2>3. s[1] \in Cursors /\ q \in PageRec /\ q.wellFormed
    BY <2>2 DEF ScrollFits, HandsOff, Cursors
  <2>4. t.phase = "Reading" /\ q.typed = AskedOf(t) /\ ~q.focused /\ s[1].y + s[1].left = t.total
    BY <1>7, <2>2, CursorOfPhase
  <2>5. SessionFits(u, q)
    BY <1>1, <1>2, <2>2, <2>3, <2>4 DEF SessionFits
  <2>6. QED
    BY <2>5 DEF u, q
<1>8. c.kind # "none"
  BY CursorOfPhase
<1>9. QED
  BY <1>3, <1>4, <1>5, <1>6, <1>7, <1>8, CursorOfPhase

(* A hop of the idle pointer, and what it drifts. *)
Drift(p, q) ==
  /\ q \in PageRec /\ q.wellFormed /\ q.held = p.held /\ q.key = p.key /\ q.hidden = p.hidden
  /\ q.typed = p.typed /\ q.focused = p.focused /\ q.wheel \in {p.wheel} \cup Nudges

LEMMA Drifts ==
  ASSUME NEW p \in PageRec, p.wellFormed, p.held = "none", p.key = "none", ~p.hidden,
         NEW q \in Tab!Drifted(p)
  PROVE  Drift(p, q)
<1>1. Tab!Possible(p, Tab!Event("move", Tab!None)) /\ \A dy : Tab!Possible(p, Tab!Event("wheel", dy))
  BY DEF Tab!Possible, Tab!Event, Tab!None
<1>2. Tab!Seen(p, Tab!Event("move", Tab!None)) = p
  BY <1>1, SeenWhenPossible DEF PageAfter
<1>3. q = p \/ \E dy \in Nudges : q = Tab!Seen(p, Tab!Event("wheel", dy))
  BY <1>2 DEF Tab!Drifted
<1>4. ASSUME NEW dy \in Nudges
      PROVE  Drift(p, Tab!Seen(p, Tab!Event("wheel", dy)))
  <2> DEFINE u == Tab!Seen(p, Tab!Event("wheel", dy))
  <2>1. u = [p EXCEPT !.wheel = dy, !.odd = p.odd \cup WentBack(p, dy)]
    BY <1>1, SeenWhenPossible DEF PageAfter
  <2>2. dy \in Nat /\ p.odd \cup WentBack(p, dy) \in SUBSET {"back", "unchanged"}
    BY SessionConstants DEF WentBack, PageRec
  <2> HIDE DEF u
  <2>3. Drift(p, u)
    BY <2>1, <2>2 DEF Drift, PageRec
  <2>4. QED
    BY <2>3 DEF u
<1>5. QED
  BY <1>3, <1>4 DEF Drift

LEMMA IdleTicks ==
  ASSUME NEW idle \in IdleRec, idle.hop.at # "Done",
         NEW p \in PageRec, p.wellFormed, p.held = "none", p.key = "none", p.hidden = idle.hidden,
         NEW r \in Tab!Ticked(idle, p)
  PROVE  /\ r[1] \in IdleRec /\ r[1].hop.at # "Done" /\ r[1].hidden = idle.hidden
         /\ Drift(p, r[2])
<1>1. CASE idle.hidden
  <2>1. r = <<[idle EXCEPT !.hop = Tab!NoCursor], p>>
    BY <1>1 DEF Tab!Ticked
  <2>2. r[1] = [idle EXCEPT !.hop = Tab!NoCursor] /\ r[2] = p
    BY <2>1
  <2>3. QED
    BY <2>2, FirstCursors DEF IdleRec, Drift
<1>2. CASE ~idle.hidden /\ idle.hop = Tab!NoCursor
  <2>1. \/ r = <<[idle EXCEPT !.bump = TRUE, !.hop = Tab!MoveCursor], p>>
        \/ \E q \in Tab!Drifted(p) : r = <<idle, q>>
    BY <1>2 DEF Tab!Ticked
  <2>2. CASE r = <<[idle EXCEPT !.bump = TRUE, !.hop = Tab!MoveCursor], p>>
    <3>1. r[1] = [idle EXCEPT !.bump = TRUE, !.hop = Tab!MoveCursor] /\ r[2] = p
      BY <2>2
    <3>2. Tab!MoveCursor \in MoveCur /\ Tab!MoveCursor.at # "Done"
      BY FirstCursors
    <3>3. QED
      BY <3>1, <3>2 DEF IdleRec, Drift
  <2>3. CASE \E q \in Tab!Drifted(p) : r = <<idle, q>>
    <3>1. PICK q \in Tab!Drifted(p) : r = <<idle, q>>
      BY <2>3
    <3>2. Drift(p, q)
      BY <1>2, Drifts
    <3>3. QED
      BY <3>1, <3>2
  <2>4. QED
    BY <2>1, <2>2, <2>3
<1>3. CASE ~idle.hidden /\ idle.hop # Tab!NoCursor
  <2>1. idle.hop \in MoveCur
    BY <1>3 DEF IdleRec
  <2>2. MoveFits(idle.hop, p)
    BY <1>3, <2>1 DEF MoveFits, HandsOff
  <2>3. PICK s \in Tab!Steps(idle.hop) :
          \/ \E q \in Tab!Drifted(Tab!Seen(p, s[2])) :
               r = <<[idle EXCEPT !.bump = FALSE, !.hop = Tab!NoCursor], q>>
          \/ s[1].at # "Done" /\ r = <<[idle EXCEPT !.hop = s[1]], Tab!Seen(p, s[2])>>
    BY <1>3 DEF Tab!Ticked, Tab!Done
  <2>4. s \in Tab!MoveSteps(idle.hop)
    BY <2>1 DEF Tab!Steps, MoveCur
  <2>5. MoveFits(s[1], p) /\ Tab!Seen(p, s[2]) = p
    BY <2>2, <2>4, MoveStep
  <2>6. CASE \E q \in Tab!Drifted(Tab!Seen(p, s[2])) :
               r = <<[idle EXCEPT !.bump = FALSE, !.hop = Tab!NoCursor], q>>
    <3>1. PICK q \in Tab!Drifted(p) : r = <<[idle EXCEPT !.bump = FALSE, !.hop = Tab!NoCursor], q>>
      BY <2>5, <2>6
    <3>2. Drift(p, q)
      BY <1>3, Drifts
    <3>3. r[1] = [idle EXCEPT !.bump = FALSE, !.hop = Tab!NoCursor] /\ r[2] = q
      BY <3>1
    <3>4. r[1] \in IdleRec /\ r[1].hop.at # "Done" /\ r[1].hidden = idle.hidden
      BY <3>3, FirstCursors DEF IdleRec
    <3>5. QED
      BY <3>2, <3>3, <3>4
  <2>7. CASE s[1].at # "Done" /\ r = <<[idle EXCEPT !.hop = s[1]], Tab!Seen(p, s[2])>>
    <3>1. r[1] = [idle EXCEPT !.hop = s[1]] /\ r[2] = p /\ s[1] \in MoveCur /\ s[1].at # "Done"
      BY <2>5, <2>7 DEF MoveFits
    <3>2. QED
      BY <3>1 DEF IdleRec, Drift
  <2>8. QED
    BY <2>3, <2>6, <2>7
<1>4. QED
  BY <1>1, <1>2, <1>3

(* The idle tab is hidden and shown, and ticks. *)
LEMMA SessionIdles ==
  ASSUME TabInv, Tab!IdleTick
  PROVE  SessionFits(tab', page') /\ tab'.active.at # "Done" /\ clock' \in ClockRec
<1>1. /\ clock \in ClockRec /\ SessionFits(tab, page) /\ tab.active = Tab!NoCursor /\ clock' = clock
  BY DEF TabInv, InboundFits, Tab!IdleTick
<1>2. /\ tab \in TabState /\ tab.use = "session" /\ page \in PageRec /\ page.wellFormed
      /\ tab.asked \in Texts \cup {Tab!NoText}
      /\ tab.phase = "Idle" /\ page.typed = AskedOf(tab) /\ ~page.focused
      /\ page.wheel \in {tab.total} \cup Nudges /\ IdleFits(tab, page)
  BY <1>1, CursorOfPhase, FirstCursors DEF SessionFits
<1>3. tab.idle \in IdleRec /\ tab.idle.hop.at # "Done" /\ page.held = "none" /\ page.key = "none"
      /\ page.hidden = tab.idle.hidden
  BY <1>2 DEF TabState, IdleFits
<1> DEFINE i == Tab!Flipped(tab.idle)
           p == IF Tab!FlipDue THEN Tab!Seen(page, Tab!Event("visibility", Tab!Hides)) ELSE page
<1>4. PICK r \in Tab!Ticked(i, p) : tab' = [tab EXCEPT !.idle = r[1]] /\ page' = r[2]
  BY DEF Tab!IdleTick
<1>5. /\ i \in IdleRec /\ i.hop = tab.idle.hop
      /\ i.hidden = IF Tab!FlipDue THEN Tab!Hides ELSE tab.idle.hidden
  <2>1. clock.cycle \in Int /\ Tab!Hides \in BOOLEAN
    BY <1>1 DEF ClockRec, Tab!Hides
  <2>2. QED
    BY <1>3, <2>1 DEF Tab!Flipped, IdleRec
<1>6. /\ p \in PageRec /\ p.wellFormed /\ p.held = "none" /\ p.key = "none"
      /\ p.typed = page.typed /\ p.focused = page.focused /\ p.wheel = page.wheel
      /\ p.hidden = i.hidden
  <2>1. CASE ~Tab!FlipDue
    BY <1>2, <1>3, <1>5, <2>1
  <2>2. CASE Tab!FlipDue
    <3>1. Tab!Possible(page, Tab!Event("visibility", Tab!Hides))
      BY <1>3 DEF Tab!Possible, Tab!Event, Tab!None
    <3>2. p = PageAfter(page, "visibility", Tab!Hides)
      BY <1>2, <2>2, <3>1, SeenWhenPossible
    <3>3. /\ p = [page EXCEPT !.hidden = Tab!Hides, !.odd = page.odd \cup Unchanged(page, Tab!Hides)]
          /\ Tab!Hides \in BOOLEAN /\ page.odd \cup Unchanged(page, Tab!Hides) \in SUBSET {"back", "unchanged"}
      BY <1>2, <3>2 DEF PageAfter, Tab!Hides, PageRec, Unchanged
    <3> HIDE DEF p, i
    <3>4. QED
      BY <1>2, <1>3, <1>5, <2>2, <3>3 DEF PageRec
  <2>3. QED
    BY <2>1, <2>2
<1> HIDE DEF p, i
<1>7. r[1] \in IdleRec /\ r[1].hop.at # "Done" /\ r[1].hidden = i.hidden /\ Drift(p, r[2])
  BY <1>3, <1>5, <1>6, IdleTicks
<1>8. /\ tab' \in TabState /\ tab'.idle = r[1] /\ tab'.use = tab.use /\ tab'.phase = tab.phase
      /\ tab'.active = tab.active /\ tab'.asked = tab.asked /\ tab'.total = tab.total
  BY <1>2, <1>4, <1>7 DEF TabState
<1>9. IdleFits(tab', page') /\ AskedOf(tab') = AskedOf(tab)
  BY <1>4, <1>6, <1>7, <1>8 DEF IdleFits, AskedOf, Drift
<1>10. SessionFits(tab', page')
  <2>1. /\ page' \in PageRec /\ page'.wellFormed /\ page'.typed = page.typed /\ ~page'.focused
        /\ page'.wheel \in {tab.total} \cup Nudges
    BY <1>2, <1>4, <1>6, <1>7 DEF Drift
  <2>2. QED
    BY <1>1, <1>2, <1>8, <1>9, <2>1 DEF SessionFits
<1>11. QED
  BY <1>1, <1>4, <1>7, <1>8, <1>10, FirstCursors

(* The inbound page: its cursors are cut short by their deadlines. *)
LEMMA InboundSteps ==
  ASSUME NEW t, NEW p, InboundFits(t, p), t.active.at # "Done", t.active # Tab!NoCursor,
         NEW s \in Tab!Steps(t.active)
  PROVE  InboundFits([t EXCEPT !.active = s[1]], Tab!Seen(p, s[2]))
<1> DEFINE u == [t EXCEPT !.active = s[1]]
           q == Tab!Seen(p, s[2])
           c == t.active
<1>1. t \in TabState /\ t.use = "inbound" /\ p.odd = {}
  BY DEF InboundFits
<1>2. ASSUME s[1] \in Cursors
      PROVE  /\ u \in TabState /\ u.active = s[1] /\ u.use = t.use /\ u.phase = t.phase /\ u.cut = t.cut
  BY <1>1, <1>2 DEF TabState
<1> HIDE DEF u, q
<1>3. CASE t.phase = "Move"
  <2>1. MoveFits(c, p) /\ ~p.focused
    BY <1>3 DEF InboundFits
  <2>2. s \in Tab!MoveSteps(c)
    BY <2>1 DEF Tab!Steps, MoveFits, MoveCur
  <2>3. MoveFits(s[1], p) /\ q = p
    BY <2>1, <2>2, MoveStep DEF q
  <2>4. s[1] \in Cursors
    BY <2>3 DEF MoveFits, Cursors
  <2>5. InboundFits(u, q)
    BY <1>1, <1>2, <1>3, <2>1, <2>3, <2>4 DEF InboundFits
  <2>6. QED
    BY <2>5 DEF u, q
<1>4. CASE t.phase = "Focus"
  <2>1. FocusFits(c, p)
    BY <1>4 DEF InboundFits
  <2>2. s \in Tab!FocusSteps(c)
    BY <2>1 DEF Tab!Steps, FocusFits, FocusCur
  <2>3. FocusFits(s[1], q) /\ q.odd = p.odd
    BY <2>1, <2>2, FocusStep DEF q
  <2>4. s[1] \in Cursors /\ q \in PageRec /\ q.wellFormed
    BY <2>3 DEF FocusFits, HandsOff, Cursors
  <2>5. InboundFits(u, q)
    BY <1>1, <1>2, <1>4, <2>3, <2>4 DEF InboundFits
  <2>6. QED
    BY <2>5 DEF u, q
<1>5. CASE t.phase = "Click"
  <2>1. ClickFits(c, p) /\ (p.focused => "Focus" \in t.cut)
    BY <1>5 DEF InboundFits
  <2>2. s \in Tab!ClickSteps(c)
    BY <2>1 DEF Tab!Steps, ClickFits, ClickCur
  <2>3. ClickFits(s[1], q) /\ q.focused = p.focused /\ q.odd = p.odd
    BY <2>1, <2>2, ClickStep DEF q
  <2>4. s[1] \in Cursors /\ q \in PageRec /\ q.wellFormed
    BY <2>3 DEF ClickFits, Cursors
  <2>5. InboundFits(u, q)
    BY <1>1, <1>2, <1>5, <2>1, <2>3, <2>4 DEF InboundFits
  <2>6. QED
    BY <2>5 DEF u, q
<1>6. t.phase # "Over"
  BY DEF InboundFits
<1>7. QED
  BY <1>3, <1>4, <1>5, <1>6 DEF InboundFits

LEMMA InboundEnters ==
  ASSUME TabInv, Tab!Pumped
  PROVE  InboundFits(tab', page')
<1> DEFINE t == IF tab.active.at = "Done" THEN tab ELSE [tab EXCEPT !.cut = @ \cup {tab.phase}]
<1>1. InboundFits(tab, page) /\ tab.active # Tab!NoCursor /\ page' = page
  BY DEF TabInv, SessionFits, Tab!Pumped
<1>2. tab \in TabState /\ tab.use = "inbound" /\ tab.phase \in Phases
  BY <1>1 DEF InboundFits, TabState
<1>3. /\ t \in TabState /\ t.use = "inbound" /\ tab.cut \subseteq t.cut
      /\ tab.active.at # "Done" => tab.phase \in t.cut
  BY <1>2 DEF TabState
<1>4. /\ tab.phase = "Move" => tab' = Tab!Enter(t, "Focus", Tab!FocusCursor)
      /\ tab.phase = "Focus" => \E c \in Tab!ClickCursors : tab' = Tab!Enter(t, "Click", c)
      /\ tab.phase = "Click" => tab' = Tab!Enter(t, "Over", Tab!NoCursor)
  BY DEF Tab!Pumped, Tab!Done
<1> HIDE DEF t
<1>5. {"Focus", "Click", "Over"} \subseteq Phases
  BY DEF Phases
<1>6. CASE tab.phase = "Move"
  <2>1. MoveFits(tab.active, page) /\ ~page.focused
    BY <1>1, <1>6 DEF InboundFits
  <2>2. Tab!FocusCursor \in Cursors
    BY FirstCursors DEF Cursors
  <2>3. tab' \in TabState /\ tab'.phase = "Focus" /\ tab'.active = Tab!FocusCursor /\ tab'.use = t.use
    BY <1>3, <1>4, <1>5, <1>6, <2>2, Enters
  <2>4. FocusFits(tab'.active, page)
    BY <2>1, <2>3, FirstCursors DEF FocusFits, MoveFits
  <2>5. QED
    BY <1>1, <1>3, <2>3, <2>4 DEF InboundFits
<1>7. CASE tab.phase = "Focus"
  <2>1. FocusFits(tab.active, page)
    BY <1>1, <1>7 DEF InboundFits
  <2>2. PICK c \in Tab!ClickCursors : tab' = Tab!Enter(t, "Click", c)
    BY <1>4, <1>7
  <2>3. c \in Cursors
    BY FirstCursors DEF Cursors
  <2>4. /\ tab' \in TabState /\ tab'.phase = "Click" /\ tab'.active = c /\ tab'.use = t.use
        /\ tab'.cut = t.cut
    BY <1>3, <1>5, <2>2, <2>3, Enters
  <2>5. ClickFits(tab'.active, page)
    BY <2>1, <2>4, FirstCursors DEF FocusFits, ClickFits, HandsOff
  <2>6. page.focused => "Focus" \in tab'.cut
    BY <1>3, <1>7, <2>1, <2>4 DEF FocusFits
  <2>7. QED
    BY <1>1, <1>3, <2>4, <2>5, <2>6 DEF InboundFits
<1>8. CASE tab.phase = "Click"
  <2>1. ClickFits(tab.active, page) /\ (page.focused => "Focus" \in tab.cut)
    BY <1>1, <1>8 DEF InboundFits
  <2>2. Tab!NoCursor \in Cursors
    BY DEF Cursors
  <2>3. /\ tab' \in TabState /\ tab'.phase = "Over" /\ tab'.active = Tab!NoCursor /\ tab'.use = t.use
        /\ tab'.cut = t.cut
    BY <1>3, <1>4, <1>5, <1>8, <2>2, Enters
  <2>4. page \in PageRec /\ page.wellFormed /\ (page.held # "none" => "Click" \in tab'.cut)
    BY <1>3, <1>8, <2>1, <2>3 DEF ClickFits
  <2>5. page.focused => "Focus" \in tab'.cut
    BY <1>3, <2>1, <2>3
  <2>6. QED
    BY <1>1, <1>3, <2>3, <2>4, <2>5 DEF InboundFits
<1>9. QED
  BY <1>1, <1>6, <1>7, <1>8 DEF InboundFits

LEMMA TabStepKeepsInv ==
  ASSUME TabInv, [Tab!Next]_tabVars
  PROVE  TabInv'
<1>1. clock \in ClockRec /\ clock.now \in Nat /\ clock.cycle \in Nat
  BY DEF TabInv, ClockRec
<1>2. ASSUME SessionFits(tab', page'), tab'.active.at # "Done", clock' \in ClockRec
      PROVE  TabInv'
  BY <1>2 DEF TabInv, SessionFits, MoveFits, FocusFits, ClickFits, TypeFits, ScrollFits, HandsOff,
              Stands, Blank, AskedOf, IdleFits
<1>3. ASSUME InboundFits(tab', page'), clock' \in ClockRec
      PROVE  TabInv'
  BY <1>3 DEF TabInv, InboundFits, MoveFits, FocusFits, ClickFits, HandsOff
<1>4. CASE UNCHANGED tabVars
  <2>1. tab' = tab /\ page' = page /\ clock' = clock
    BY <1>4 DEF tabVars
  <2>2. QED
    BY <1>1, <1>2, <1>3, <2>1 DEF TabInv
<1>5. CASE Tab!Drive
  <2>1. SessionFits(tab, page) /\ tab.active.at # "Done" /\ tab.active # Tab!NoCursor /\ clock' = clock
    BY <1>5 DEF TabInv, InboundFits, Tab!Drive
  <2>2. PICK s \in Tab!Steps(tab.active) :
          /\ page' = Tab!Seen(page, s[2])
          /\ tab' \in IF Tab!Done(s[1]) THEN Tab!Entered([tab EXCEPT !.active = s[1]])
                      ELSE {[tab EXCEPT !.active = s[1]]}
    BY <1>5 DEF Tab!Drive
  <2> DEFINE t == [tab EXCEPT !.active = s[1]]
  <2>3. SessionFits(t, page') /\ t.active = s[1]
    <3>1. SessionFits(t, Tab!Seen(page, s[2]))
      BY <2>1, SessionSteps
    <3>2. tab \in TabState
      BY <2>1 DEF SessionFits
    <3>3. t.active = s[1]
      BY <3>2 DEF TabState
    <3>4. QED
      BY <2>2, <3>1, <3>3
  <2>4. tab' \in IF s[1].at = "Done" THEN Tab!Entered(t) ELSE {t}
    BY <2>2 DEF Tab!Done
  <2> HIDE DEF t
  <2>5. SessionFits(tab', page') /\ tab'.active.at # "Done"
    BY <2>3, <2>4, SessionEnters
  <2>6. QED
    BY <1>1, <1>2, <2>1, <2>5
<1>6. CASE Tab!IdleTick
  BY <1>2, <1>6, SessionIdles
<1>7. CASE Tab!HalfCycle
  <2>1. tab' = tab /\ page' = page
    BY <1>7 DEF Tab!HalfCycle
  <2>2. clock' \in ClockRec
    <3>1. clock.cycle + 1 \in Nat
      BY <1>1
    <3>2. QED
      BY <1>1, <1>7, <3>1 DEF Tab!HalfCycle, ClockRec
  <2>3. QED
    BY <1>2, <1>3, <2>1, <2>2 DEF TabInv
<1>8. CASE Tab!Pump
  <2>1. InboundFits(tab, page) /\ tab.active.at # "Done" /\ tab.active # Tab!NoCursor
    BY <1>8 DEF TabInv, SessionFits, Tab!Pump, Tab!Done
  <2>2. PICK s \in Tab!Steps(tab.active), d \in Delays :
          /\ tab' = [tab EXCEPT !.active = s[1]] /\ page' = Tab!Seen(page, s[2])
          /\ clock' = [clock EXCEPT !.now = @ + IF Tab!Done(s[1]) THEN 1 ELSE d]
    BY <1>8 DEF Tab!Pump
  <2>3. InboundFits(tab', page')
    BY <2>1, <2>2, InboundSteps
  <2>4. clock' \in ClockRec
    <3>1. clock.now + (IF Tab!Done(s[1]) THEN 1 ELSE d) \in Nat
      BY <1>1, SessionConstants
    <3>2. QED
      BY <1>1, <2>2, <3>1 DEF ClockRec
  <2>5. QED
    BY <1>3, <2>3, <2>4
<1>9. CASE Tab!Pumped
  <2>1. PICK d \in Delays : clock' = [clock EXCEPT !.now = @ + IF tab.phase = "Click" THEN 0 ELSE d]
    BY <1>9 DEF Tab!Pumped
  <2>2. clock' \in ClockRec
    <3>1. clock.now + (IF tab.phase = "Click" THEN 0 ELSE d) \in Nat
      BY <1>1, SessionConstants
    <3>2. QED
      BY <1>1, <2>1, <3>1 DEF ClockRec
  <2>3. QED
    BY <1>3, <1>9, <2>2, InboundEnters
<1>10. QED
  BY <1>4, <1>5, <1>6, <1>7, <1>8, <1>9 DEF Tab!Next

LEMMA TabStarts ==
  ASSUME MCInit
  PROVE  TabInv
<1>1. clock = [now |-> 0, cycle |-> 0, late |-> FALSE] /\ page = Tab!NewPage
      /\ \/ tab = Tab!StartInbound
         \/ \E text \in Texts \cup {Tab!NoText}, total \in Distances, parity \in {0, 1} :
              tab = Tab!StartSession(text, total, parity)
  BY DEF MCInit, NoTab, Tab!Init
<1>2. clock \in ClockRec
  BY <1>1 DEF ClockRec
<1>3. page \in PageRec /\ HandsOff(page) /\ Blank(page) /\ ~page.focused /\ page.odd = {}
  <2>1. <<>> \in Seq(Char)
    OBVIOUS
  <2>2. page.odd = {} /\ page.wellFormed /\ page \in PageRec
    BY <1>1, <2>1 DEF Tab!NewPage, Tab!None, PageRec
  <2>3. QED
    BY <1>1, <2>2 DEF Tab!NewPage, Tab!None, HandsOff, Blank
<1>4. Tab!NoText \in Seq(Char \cup {"none"})
  BY DEF Tab!NoText, Tab!None
<1>5. MoveFits(Tab!MoveCursor, page) /\ Tab!MoveCursor.at # "Done" /\ Tab!MoveCursor \in Cursors
  BY <1>3, FirstCursors DEF MoveFits, Cursors
<1>6. CASE tab = Tab!StartInbound
  <2>1. /\ tab \in TabState /\ tab.use = "inbound" /\ tab.phase = "Move"
        /\ tab.active = Tab!MoveCursor
    BY <1>4, <1>5, <1>6, FirstCursors DEF Tab!StartInbound, TabState, Phases
  <2>2. InboundFits(tab, page)
    BY <1>3, <1>5, <2>1 DEF InboundFits, HandsOff
  <2>3. QED
    BY <1>2, <2>2 DEF TabInv
<1>7. ASSUME NEW text \in Texts \cup {Tab!NoText}, NEW total \in Distances, NEW parity \in {0, 1},
             tab = Tab!StartSession(text, total, parity)
      PROVE  TabInv
  <2>1. text \in Seq(Char \cup {"none"})
    <3>1. Seq(Char) \subseteq Seq(Char \cup {"none"})
      BY SeqMonotonic
    <3>2. QED
      BY <1>4, <3>1, SessionConstants
  <2>2. total \in Nat /\ parity \in Nat
    BY SessionConstants
  <2>3. /\ tab \in TabState /\ tab.use = "session" /\ tab.phase = "Approach"
        /\ tab.active = Tab!MoveCursor /\ tab.text = text /\ tab.asked = text
    BY <1>5, <1>7, <2>1, <2>2, FirstCursors DEF Tab!StartSession, TabState, Phases
  <2>4. SessionFits(tab, page)
    BY <1>3, <1>5, <2>3 DEF SessionFits, HandsOff
  <2>5. QED
    BY <1>2, <1>5, <2>3, <2>4 DEF TabInv
<1>8. QED
  BY <1>1, <1>6, <1>7

LEMMA TabInvSays ==
  ASSUME TabInv
  PROVE  Tab!InputWellFormed
<1>1. Tab!Asked = AskedOf(tab) /\ Tab!None = "none"
  BY DEF Tab!Asked, AskedOf, Tab!None
<1>2. CASE SessionFits(tab, page)
  <2>1. /\ page.wellFormed /\ tab.phase # "Over"
        /\ tab.phase # "Idle" => page.odd = {}
    BY <1>2 DEF SessionFits
  <2>2. ASSUME tab.phase = "Reading"
        PROVE  Tab!Nothing(page) /\ page.typed = Tab!Asked
    BY <1>1, <1>2, <2>2 DEF SessionFits, ScrollFits, HandsOff, Tab!Nothing
  <2>3. ASSUME tab.phase = "Idle"
        PROVE  /\ Tab!Nothing(page) /\ page.typed = Tab!Asked
               /\ page.wheel \in {tab.total} \cup Nudges /\ page.hidden = tab.idle.hidden
    BY <1>1, <1>2, <2>3 DEF SessionFits, IdleFits, Tab!Nothing
  <2>4. QED
    BY <2>1, <2>2, <2>3 DEF Tab!InputWellFormed
<1>3. CASE InboundFits(tab, page)
  <2>1. page.wellFormed /\ page.odd = {} /\ tab.phase \notin {"Reading", "Idle"}
    BY <1>3 DEF InboundFits
  <2>2. tab.phase = "Over" => /\ page.held # "none" => "Click" \in tab.cut
                              /\ page.focused => "Focus" \in tab.cut
    BY <1>3 DEF InboundFits
  <2>3. QED
    BY <1>1, <2>1, <2>2 DEF Tab!InputWellFormed
<1>4. QED
  BY <1>2, <1>3 DEF TabInv

(* Whatever there is to type and however far to scroll, whichever mistakes *)
(* are made and wherever a deadline cuts an inbound page short: what a tab *)
(* emits could come from a user but for an idle tab's wheel, which tells   *)
(* how far it turned, and for a visibility that is none; the text stands   *)
(* there once and the page is scrolled as far as was asked, never back,    *)
(* before the tab idles, and only what was cut short is left held or       *)
(* focused (session.rs:118-218, 397-530).                                  *)
THEOREM TabsPassForUsers == MCSpec => []InputWellFormed
<1>1. MCInit => TabInv
  BY TabStarts
<1>2. TabInv /\ [MCNext]_mcVars => TabInv'
  <2> SUFFICES ASSUME TabInv, [MCNext]_mcVars
               PROVE  TabInv'
    OBVIOUS
  <2>1. [Tab!Next]_tabVars
    BY DEF MCNext, mcVars
  <2>2. QED
    BY <2>1, TabStepKeepsInv
<1>3. TabInv => InputWellFormed
  BY TabInvSays DEF InputWellFormed
<1>4. QED
  BY <1>1, <1>2, <1>3, PTL DEF MCSpec

-----------------------------------------------------------------------------
(* The jar.  What stands in an order: the rank of a member is how many are *)
(* not after it, and each rank is taken once.                              *)

Orders(R, S) ==
  /\ \A i \in S : <<i, i>> \in R
  /\ \A i, k \in S : <<i, k>> \in R \/ <<k, i>> \in R
  /\ \A i, k \in S : <<i, k>> \in R /\ <<k, i>> \in R => i = k
  /\ \A i, k, l \in S : <<i, k>> \in R /\ <<k, l>> \in R => <<i, l>> \in R
NotAfter(S, R, i) == {h \in S : <<h, i>> \in R}
Rank(S, R, i) == Cardinality(NotAfter(S, R, i))

LEMMA RankGrows ==
  ASSUME NEW S, IsFiniteSet(S), NEW R, Orders(R, S)
  PROVE  /\ Cardinality(S) \in Nat
         /\ \A i \in S : Rank(S, R, i) \in 1 .. Cardinality(S)
         /\ \A i, k \in S : <<i, k>> \in R /\ i # k => Rank(S, R, i) < Rank(S, R, k)
<1>1. ASSUME NEW i \in S
      PROVE  /\ IsFiniteSet(NotAfter(S, R, i)) /\ i \in NotAfter(S, R, i) /\ NotAfter(S, R, i) \in SUBSET S
             /\ Rank(S, R, i) \in Nat /\ Rank(S, R, i) <= Cardinality(S) /\ Rank(S, R, i) # 0
  <2>1. NotAfter(S, R, i) \in SUBSET S /\ i \in NotAfter(S, R, i)
    BY DEF NotAfter, Orders
  <2>2. IsFiniteSet(NotAfter(S, R, i)) /\ Cardinality(NotAfter(S, R, i)) <= Cardinality(S)
    BY <2>1, FS_Subset
  <2>3. Cardinality(NotAfter(S, R, i)) # 0
    BY <2>1, <2>2, FS_EmptySet
  <2>4. QED
    BY <2>1, <2>2, <2>3, FS_CardinalityType DEF Rank
<1>2. ASSUME NEW i \in S, NEW k \in S, <<i, k>> \in R, i # k
      PROVE  Rank(S, R, i) < Rank(S, R, k)
  <2>1. NotAfter(S, R, i) \in SUBSET NotAfter(S, R, k) /\ k \notin NotAfter(S, R, i)
    BY <1>2 DEF NotAfter, Orders
  <2>2. NotAfter(S, R, i) # NotAfter(S, R, k)
    BY <1>1, <2>1
  <2>3. Rank(S, R, i) <= Rank(S, R, k) /\ Rank(S, R, i) # Rank(S, R, k)
    BY <1>1, <2>1, <2>2, FS_Subset DEF Rank
  <2>4. QED
    BY <1>1, <2>3
<1>3. Cardinality(S) \in Nat
  BY FS_CardinalityType
<1>4. \A i \in S : Rank(S, R, i) \in 1 .. Cardinality(S)
  BY <1>1, <1>3
<1>5. QED
  BY <1>2, <1>3, <1>4

LEMMA RanksAreTaken ==
  ASSUME NEW S, IsFiniteSet(S), NEW R, Orders(R, S)
  PROVE  /\ \A i, k \in S : Rank(S, R, i) = Rank(S, R, k) => i = k
         /\ \A n \in 1 .. Cardinality(S) : \E i \in S : Rank(S, R, i) = n
<1> DEFINE m == Cardinality(S)
           rank == [i \in S |-> Rank(S, R, i)]
<1>1. \A i, k \in S : Rank(S, R, i) = Rank(S, R, k) => i = k
  <2>1. ASSUME NEW i \in S, NEW k \in S, i # k
        PROVE  Rank(S, R, i) < Rank(S, R, k) \/ Rank(S, R, k) < Rank(S, R, i)
    BY <2>1, RankGrows DEF Orders
  <2>2. \A i \in S : Rank(S, R, i) \in Nat
    BY RankGrows
  <2>3. QED
    BY <2>1, <2>2
<1>2. rank \in Injection(S, 1 .. m)
  BY <1>1, RankGrows DEF Injection, IsInjective
<1>3. m \in Nat /\ IsFiniteSet(1 .. m) /\ Cardinality(1 .. m) = m
  BY FS_CardinalityType, FS_Interval
<1>4. rank \in Surjection(S, 1 .. m)
  BY <1>2, <1>3, FS_Injection
<1>5. QED
  BY <1>1, <1>4 DEF Surjection

LEMMA RankedIs ==
  ASSUME NEW S, IsFiniteSet(S), NEW R, Orders(R, S)
  PROVE  /\ Jar!Ranked(S, R) \in [1 .. Cardinality(S) -> S]
         /\ \A k \in 1 .. Cardinality(S) : Rank(S, R, Jar!Ranked(S, R)[k]) = k
         /\ \A i \in S : Jar!Ranked(S, R)[Rank(S, R, i)] = i
         /\ \A k, l \in 1 .. Cardinality(S) :
              k < l => /\ <<Jar!Ranked(S, R)[k], Jar!Ranked(S, R)[l]>> \in R
                       /\ Jar!Ranked(S, R)[k] # Jar!Ranked(S, R)[l]
<1> DEFINE m == Cardinality(S)
           q == Jar!Ranked(S, R)
<1>1. q = [k \in 1 .. m |-> CHOOSE i \in S : Rank(S, R, i) = k]
  BY DEF Jar!Ranked, Rank, NotAfter, Jar!Cardinality, Cardinality
<1> HIDE DEF q
<1>2. ASSUME NEW k \in 1 .. m
      PROVE  q[k] \in S /\ Rank(S, R, q[k]) = k
  <2>1. \E i \in S : Rank(S, R, i) = k
    BY RanksAreTaken
  <2>2. q[k] = CHOOSE i \in S : Rank(S, R, i) = k
    BY <1>1
  <2>3. QED
    BY <2>1, <2>2
<1>3. q \in [1 .. m -> S]
  BY <1>1, <1>2
<1>4. \A i \in S : q[Rank(S, R, i)] = i
  BY <1>2, RankGrows, RanksAreTaken
<1>5. ASSUME NEW k \in 1 .. m, NEW l \in 1 .. m, k < l
      PROVE  <<q[k], q[l]>> \in R /\ q[k] # q[l]
  <2>1. /\ q[k] \in S /\ q[l] \in S /\ Rank(S, R, q[k]) = k /\ Rank(S, R, q[l]) = l
        /\ m \in Nat
    BY <1>2, FS_CardinalityType
  <2>2. q[k] # q[l]
    BY <1>5, <2>1
  <2>3. ~(<<q[l], q[k]>> \in R)
    <3>1. <<q[l], q[k]>> \in R => l < k
      BY <2>1, <2>2, RankGrows
    <3>2. QED
      BY <1>5, <2>1, <3>1
  <2>4. QED
    BY <2>1, <2>2, <2>3 DEF Orders
<1>6. QED
  BY <1>2, <1>3, <1>4, <1>5 DEF q

(* In ascending order.                                                     *)
Rising(S) == {p \in S \X S : p[1] <= p[2]}

LEMMA AscendingIs ==
  ASSUME NEW n \in Nat, NEW S \in SUBSET (1 .. n)
  PROVE  /\ IsFiniteSet(S) /\ Cardinality(S) \in 0 .. n /\ (Cardinality(S) = n => S = 1 .. n)
         /\ Orders(Rising(S), S)
         /\ Jar!Ascending(S) \in [1 .. Cardinality(S) -> S]
         /\ \A i \in S : \E k \in 1 .. Cardinality(S) : Jar!Ascending(S)[k] = i
         /\ \A k, l \in 1 .. Cardinality(S) : k < l => Jar!Ascending(S)[k] < Jar!Ascending(S)[l]
         /\ \A k \in 1 .. Cardinality(S) : k <= Jar!Ascending(S)[k]
<1> DEFINE m == Cardinality(S)
           q == Jar!Ascending(S)
<1>1. IsFiniteSet(1 .. n) /\ Cardinality(1 .. n) = n
  BY FS_Interval
<1>2. IsFiniteSet(S) /\ m \in 0 .. n /\ (m = n => S = 1 .. n)
  <2>1. IsFiniteSet(S) /\ m <= n /\ (n = m => 1 .. n = S)
    BY <1>1, FS_Subset
  <2>2. QED
    BY <2>1, FS_CardinalityType
<1>3. Orders(Rising(S), S)
  BY DEF Orders, Rising
<1>4. q = Jar!Ranked(S, Rising(S))
  BY DEF Jar!Ascending, Rising
<1> HIDE DEF q
<1>5. /\ q \in [1 .. m -> S]
      /\ \A k \in 1 .. m : Rank(S, Rising(S), q[k]) = k
      /\ \A i \in S : q[Rank(S, Rising(S), i)] = i /\ Rank(S, Rising(S), i) \in 1 .. m
      /\ \A k, l \in 1 .. m : k < l => <<q[k], q[l]>> \in Rising(S) /\ q[k] # q[l]
  BY <1>2, <1>3, <1>4, RankedIs, RankGrows
<1>6. \A i \in S : \E k \in 1 .. m : q[k] = i
  BY <1>5
<1>7. \A k, l \in 1 .. m : k < l => q[k] < q[l]
  <2>1. \A k, l \in 1 .. m : k < l => q[k] \in 1 .. n /\ q[l] \in 1 .. n /\ q[k] <= q[l] /\ q[k] # q[l]
    BY <1>5 DEF Rising
  <2>2. QED
    BY <2>1
<1>8. ASSUME NEW k \in 1 .. m
      PROVE  k <= q[k]
  <2>1. q[k] \in 1 .. n /\ q[k] \in S
    BY <1>5
  <2>2. NotAfter(S, Rising(S), q[k]) \in SUBSET (1 .. q[k])
    <3>1. \A h \in NotAfter(S, Rising(S), q[k]) : h \in 1 .. n /\ h <= q[k]
      BY DEF NotAfter, Rising
    <3>2. QED
      BY <2>1, <3>1
  <2>3. IsFiniteSet(1 .. q[k]) /\ Cardinality(1 .. q[k]) = q[k]
    BY <2>1, FS_Interval
  <2>4. Cardinality(NotAfter(S, Rising(S), q[k])) <= q[k]
    BY <2>2, <2>3, FS_Subset
  <2>5. QED
    BY <1>5, <2>4 DEF Rank
<1>9. QED
  BY <1>2, <1>3, <1>5, <1>6, <1>7, <1>8 DEF q

LEMMA AscendingGrows ==
  ASSUME NEW n \in Nat, NEW S \in SUBSET (1 .. n)
  PROVE  /\ Cardinality(S \cup {n + 1}) = Cardinality(S) + 1
         /\ Jar!Ascending(S \cup {n + 1})
              = [k \in 1 .. Cardinality(S) + 1 |->
                   IF k = Cardinality(S) + 1 THEN n + 1 ELSE Jar!Ascending(S)[k]]
<1> DEFINE m == Cardinality(S)
           T == S \cup {n + 1}
           q == Jar!Ascending(S)
           p == Jar!Ascending(T)
<1>1. T \in SUBSET (1 .. n + 1) /\ n + 1 \in Nat /\ n + 1 \notin S
  OBVIOUS
<1>2. /\ IsFiniteSet(S) /\ m \in Nat /\ Orders(Rising(S), S) /\ q = Jar!Ranked(S, Rising(S)) /\ q \in [1 .. m -> S]
      /\ IsFiniteSet(T) /\ Orders(Rising(T), T) /\ p = Jar!Ranked(T, Rising(T)) /\ p \in [1 .. Cardinality(T) -> T]
  <2>1. q = Jar!Ranked(S, Rising(S)) /\ p = Jar!Ranked(T, Rising(T))
    BY DEF Jar!Ascending, Rising
  <2> HIDE DEF q, p, T
  <2>2. IsFiniteSet(S) /\ m \in Nat /\ Orders(Rising(S), S) /\ q \in [1 .. m -> S]
    BY AscendingIs DEF q
  <2>3. IsFiniteSet(T) /\ Orders(Rising(T), T) /\ p \in [1 .. Cardinality(T) -> T]
    BY <1>1, AscendingIs DEF p
  <2>4. QED
    BY <2>1, <2>2, <2>3
<1>3. Cardinality(T) = m + 1
  BY <1>1, <1>2, FS_AddElement
<1>r. \A i \in T : p[Rank(T, Rising(T), i)] = i
  <2> HIDE DEF T, p, q
  <2>1. IsFiniteSet(T) /\ Orders(Rising(T), T) /\ p = Jar!Ranked(T, Rising(T))
    BY <1>2
  <2>2. \A i \in T : Jar!Ranked(T, Rising(T))[Rank(T, Rising(T), i)] = i
    BY <2>1, RankedIs
  <2>3. QED
    BY <2>1, <2>2
<1> HIDE DEF q, p
<1>4. ASSUME NEW k \in 1 .. m
      PROVE  p[k] = q[k]
  <2>1. q[k] \in S /\ Rank(S, Rising(S), q[k]) = k
    BY <1>2, RankedIs
  <2>2. NotAfter(T, Rising(T), q[k]) = NotAfter(S, Rising(S), q[k])
    BY <2>1 DEF NotAfter, Rising
  <2>3. q[k] \in T /\ Rank(T, Rising(T), q[k]) = k
    BY <2>1, <2>2 DEF Rank
  <2>4. QED
    BY <1>r, <2>3
<1>5. p[m + 1] = n + 1
  <2>1. NotAfter(T, Rising(T), n + 1) = T
    BY <1>1 DEF NotAfter, Rising
  <2>2. n + 1 \in T /\ Rank(T, Rising(T), n + 1) = m + 1
    BY <1>3, <2>1 DEF Rank
  <2>3. QED
    BY <1>r, <2>2
<1>6. p \in [1 .. m + 1 -> T]
  BY <1>2, <1>3
<1>7. p = [k \in 1 .. m + 1 |-> IF k = m + 1 THEN n + 1 ELSE q[k]]
  <2>1. \A k \in 1 .. m + 1 : k = m + 1 \/ k \in 1 .. m
    BY <1>2
  <2>2. \A k \in 1 .. m + 1 : p[k] = IF k = m + 1 THEN n + 1 ELSE q[k]
    BY <1>4, <1>5, <2>1
  <2>3. QED
    BY <1>6, <2>2
<1>8. QED
  BY <1>3, <1>7 DEF p, q

(* Cookies, at home where they were set, and the jar that holds them.      *)

WellSet(s) ==
  /\ s.cap \in Nat \ {0} /\ s.made \in Nat /\ s.lastTick \in Nat
  /\ "" \notin s.hosts /\ s.flags \subseteq BOOLEAN
  /\ \A p \in s.paths : p \in Seq({p[i] : i \in DOMAIN p}) /\ p # <<>>
Parts(s) == {""} \cup UNION {{p[i] : i \in DOMAIN p} : p \in s.paths}
CookieRec(s) ==
  [name : s.names, value : s.values, secure : BOOLEAN, expires : Nat, domain : s.hosts \cup {""},
   hostOnly : BOOLEAN, path : Seq(Parts(s)) \ {<<>>}, seq : Nat, from : s.hosts \cup {""}]
AtHome(s, e) == IF e.hostOnly THEN e.domain = e.from ELSE e.from = e.domain \/ <<e.from, e.domain>> \in s.within
Cookies(s) == {e \in CookieRec(s) : AtHome(s, e)}
InOrder(map, next) ==
  /\ \A i \in DOMAIN map : map[i].seq < next /\ i <= map[i].seq + 1
  /\ \A i, k \in DOMAIN map : i < k => map[i].seq < map[k].seq
  /\ \A i, k \in DOMAIN map : Jar!KeyOf(map[i]) = Jar!KeyOf(map[k]) => i = k
JarOf(s, map, next) == [map |-> map, byName |-> [n \in s.names |-> Jar!Indices(map, n)], next |-> next]
JarSound(s, j) ==
  /\ j = JarOf(s, j.map, j.next)
  /\ j.map \in Seq(Cookies(s)) /\ Len(j.map) <= s.cap
  /\ j.next \in Nat /\ InOrder(j.map, j.next)

LEMMA AppendIs ==
  ASSUME NEW T, NEW q \in Seq(T), NEW x \in T
  PROVE  /\ Append(q, x) \in Seq(T) /\ Len(q) \in Nat /\ Len(Append(q, x)) = Len(q) + 1
         /\ DOMAIN q = 1 .. Len(q) /\ DOMAIN Append(q, x) = 1 .. Len(q) + 1
         /\ Append(q, x) = [k \in 1 .. Len(q) + 1 |-> IF k = Len(q) + 1 THEN x ELSE q[k]]
<1>1. /\ Append(q, x) \in Seq(T) /\ Len(Append(q, x)) = Len(q) + 1
      /\ Append(q, x)[Len(q) + 1] = x /\ \A i \in 1 .. Len(q) : Append(q, x)[i] = q[i]
  BY AppendProperties
<1>2. Len(q) \in Nat /\ DOMAIN q = 1 .. Len(q)
  BY LenProperties
<1>3. Append(q, x) = [k \in 1 .. Len(q) + 1 |-> Append(q, x)[k]]
  <2>1. Append(q, x) \in [1 .. Len(q) + 1 -> T]
    BY <1>1, LenProperties
  <2>2. QED
    BY <2>1
<1>4. \A k \in 1 .. Len(q) + 1 : k = Len(q) + 1 \/ k \in 1 .. Len(q)
  BY <1>2
<1>5. QED
  BY <1>1, <1>2, <1>3, <1>4

LEMMA CookieAt ==
  ASSUME NEW s, NEW map \in Seq(Cookies(s))
  PROVE  /\ Len(map) \in Nat /\ DOMAIN map = 1 .. Len(map)
         /\ \A i \in DOMAIN map : map[i] \in Cookies(s) /\ map[i] \in CookieRec(s)
<1>1. Len(map) \in Nat /\ DOMAIN map = 1 .. Len(map) /\ \A i \in 1 .. Len(map) : map[i] \in Cookies(s)
  BY ElementOfSeq, LenProperties
<1>2. QED
  BY <1>1 DEF Cookies

(* Its place in the jar is no part of what a cookie is.                    *)
LEMMA Renumbered ==
  ASSUME NEW s, NEW e \in Cookies(s), NEW n \in Nat
  PROVE  LET d == [e EXCEPT !.seq = n]
         IN  /\ d \in Cookies(s) /\ d.seq = n /\ Jar!KeyOf(d) = Jar!KeyOf(e)
             /\ d.name = e.name /\ d.value = e.value /\ d.secure = e.secure /\ d.expires = e.expires
             /\ d.domain = e.domain /\ d.hostOnly = e.hostOnly /\ d.path = e.path /\ d.from = e.from
<1> DEFINE d == [e EXCEPT !.seq = n]
<1>1. e \in CookieRec(s) /\ AtHome(s, e)
  BY DEF Cookies
<1>2. /\ d \in CookieRec(s) /\ d.seq = n
      /\ d.name = e.name /\ d.value = e.value /\ d.secure = e.secure /\ d.expires = e.expires
      /\ d.domain = e.domain /\ d.hostOnly = e.hostOnly /\ d.path = e.path /\ d.from = e.from
  BY <1>1 DEF CookieRec
<1> HIDE DEF d
<1>3. AtHome(s, d) /\ Jar!KeyOf(d) = Jar!KeyOf(e)
  BY <1>1, <1>2 DEF AtHome, Jar!KeyOf
<1>4. QED
  BY <1>2, <1>3 DEF Cookies, d

Named(map, n) == {i \in DOMAIN map : map[i].name = n}

LEMMA IndicesGrow ==
  ASSUME NEW s, NEW map \in Seq(Cookies(s)), NEW e \in Cookies(s), NEW n
  PROVE  Jar!Indices(Append(map, e), n)
           = IF e.name = n THEN Append(Jar!Indices(map, n), Len(map) + 1) ELSE Jar!Indices(map, n)
<1> DEFINE l == Len(map)
           S == Named(map, n)
           q == Jar!Ascending(S)
<1>1. l \in Nat /\ DOMAIN map = 1 .. l /\ DOMAIN Append(map, e) = 1 .. l + 1
  BY AppendIs
<1>2. /\ Append(map, e)[l + 1] = e /\ \A i \in 1 .. l : Append(map, e)[i] = map[i]
  BY AppendProperties
<1>3. Jar!Indices(map, n) = q /\ Jar!Indices(Append(map, e), n) = Jar!Ascending(Named(Append(map, e), n))
  BY DEF Jar!Indices, Named
<1>4. S \in SUBSET (1 .. l)
  BY <1>1 DEF Named
<1>5. CASE e.name # n
  <2>1. Named(Append(map, e), n) = S
    <3>1. \A i \in 1 .. l + 1 : i = l + 1 \/ i \in 1 .. l
      BY <1>1
    <3>2. \A i \in 1 .. l : i \in 1 .. l + 1
      BY <1>1
    <3>3. QED
      BY <1>1, <1>2, <1>5, <3>1, <3>2 DEF Named
  <2>2. QED
    BY <1>3, <1>5, <2>1
<1>6. CASE e.name = n
  <2>1. Named(Append(map, e), n) = S \cup {l + 1}
    <3>1. \A i : i \in 1 .. l + 1 <=> (i = l + 1 \/ i \in 1 .. l)
      BY <1>1
    <3>2. \A i \in 1 .. l : i # l + 1
      BY <1>1
    <3>3. QED
      BY <1>1, <1>2, <1>6, <3>1, <3>2 DEF Named
  <2>2. q \in [1 .. Cardinality(S) -> S] /\ Cardinality(S) \in Nat
    BY <1>1, <1>4, AscendingIs
  <2>3. q \in Seq(Nat) /\ Len(q) = Cardinality(S)
    <3>1. q \in [1 .. Cardinality(S) -> Nat]
      BY <1>4, <2>2
    <3>2. QED
      BY <2>2, <3>1, SeqDef, LenProperties
  <2>4. Append(q, l + 1) = [k \in 1 .. Cardinality(S) + 1 |-> IF k = Cardinality(S) + 1 THEN l + 1 ELSE q[k]]
    BY <1>1, <2>3, AppendIs
  <2>5. Jar!Ascending(S \cup {l + 1}) = [k \in 1 .. Cardinality(S) + 1 |-> IF k = Cardinality(S) + 1 THEN l + 1 ELSE q[k]]
    BY <1>1, <1>4, AscendingGrows
  <2>6. QED
    BY <1>3, <1>6, <2>1, <2>4, <2>5
<1>7. QED
  BY <1>5, <1>6

(* What an operation leaves of a jar.                                      *)

LEMMA JarParts ==
  ASSUME NEW s, NEW map, NEW next
  PROVE  /\ JarOf(s, map, next).map = map /\ JarOf(s, map, next).next = next
         /\ JarOf(s, map, next).byName = [n \in s.names |-> Jar!Indices(map, n)]
  BY DEF JarOf

LEMMA MapReplaced ==
  ASSUME NEW s, NEW j, j = JarOf(s, j.map, j.next), NEW map
  PROVE  [j EXCEPT !.map = map]
           = [map |-> map, byName |-> [n \in s.names |-> Jar!Indices(j.map, n)], next |-> j.next]
<1> DEFINE names == [n \in s.names |-> Jar!Indices(j.map, n)]
<1>1. j = [map |-> j.map, byName |-> names, next |-> j.next]
  BY DEF JarOf
<1> HIDE DEF names
<1>2. [j EXCEPT !.map = map] = [map |-> map, byName |-> names, next |-> j.next]
  BY <1>1
<1>3. QED
  BY <1>2 DEF names

LEMMA Rebuilds ==
  ASSUME JarSound(setting, jar), NEW map
  PROVE  Jar!Rebuilt([jar EXCEPT !.map = map]) = JarOf(setting, map, jar.next)
<1>1. jar = [map |-> jar.map, byName |-> jar.byName, next |-> jar.next]
  BY DEF JarSound, JarOf
<1> DEFINE j == [jar EXCEPT !.map = map]
<1>2. j = [map |-> map, byName |-> jar.byName, next |-> jar.next]
  BY <1>1
<1> HIDE DEF j
<1>3. Jar!Rebuilt(j) = [map |-> map, byName |-> [n \in setting.names |-> Jar!Indices(map, n)], next |-> jar.next]
  BY <1>2 DEF Jar!Rebuilt, Jar!Names
<1>4. QED
  BY <1>3 DEF j, JarOf

LEMMA KeptKeeps ==
  ASSUME NEW s, NEW map \in Seq(Cookies(s)), NEW next \in Nat, InOrder(map, next),
         NEW S \in SUBSET DOMAIN map
  PROVE  LET kept == Jar!Kept(map, S)
         IN  /\ kept \in Seq(Cookies(s)) /\ Len(kept) = Cardinality(S) /\ InOrder(kept, next)
             /\ Len(kept) <= Len(map) /\ (Len(kept) = Len(map) => S = DOMAIN map)
             /\ \A i \in S : \E k \in DOMAIN kept : kept[k] = map[i]
             /\ \A k \in DOMAIN kept : \E i \in S : kept[k] = map[i]
<1> DEFINE m == Cardinality(S)
           q == Jar!Ascending(S)
           kept == Jar!Kept(map, S)
<1>1. /\ Len(map) \in Nat /\ DOMAIN map = 1 .. Len(map)
      /\ \A i \in DOMAIN map : map[i] \in Cookies(s) /\ map[i] \in CookieRec(s)
  BY CookieAt
<1>2. /\ m \in 0 .. Len(map) /\ (m = Len(map) => S = 1 .. Len(map))
      /\ q \in [1 .. m -> S]
      /\ \A i \in S : \E k \in 1 .. m : q[k] = i
      /\ \A k, l \in 1 .. m : k < l => q[k] < q[l]
      /\ \A k \in 1 .. m : k <= q[k]
  BY <1>1, AscendingIs
<1>3. kept = [k \in 1 .. m |-> map[q[k]]]
  BY <1>2 DEF Jar!Kept
<1> HIDE DEF kept, q
<1>4. \A k \in 1 .. m : q[k] \in S /\ q[k] \in 1 .. Len(map) /\ kept[k] = map[q[k]] /\ kept[k] \in Cookies(s)
  BY <1>1, <1>2, <1>3
<1>5. kept \in Seq(Cookies(s)) /\ Len(kept) = m /\ DOMAIN kept = 1 .. m
  <2>1. kept \in [1 .. m -> Cookies(s)] /\ m \in Nat
    BY <1>2, <1>3, <1>4
  <2>2. QED
    BY <2>1, SeqDef, LenProperties
<1>6. InOrder(kept, next)
  <2>1. ASSUME NEW k \in 1 .. m
        PROVE  kept[k].seq < next /\ k <= kept[k].seq + 1
    <3>1. map[q[k]].seq < next /\ q[k] <= map[q[k]].seq + 1 /\ map[q[k]].seq \in Nat
      BY <1>1, <1>4 DEF InOrder, CookieRec
    <3>2. k <= q[k] /\ q[k] \in Nat /\ kept[k] = map[q[k]]
      BY <1>1, <1>2, <1>4
    <3>3. QED
      BY <3>1, <3>2
  <2>2. \A k, l \in 1 .. m : k < l => kept[k].seq < kept[l].seq
    BY <1>1, <1>2, <1>4 DEF InOrder
  <2>3. ASSUME NEW k \in 1 .. m, NEW l \in 1 .. m, Jar!KeyOf(kept[k]) = Jar!KeyOf(kept[l])
        PROVE  k = l
    <3>1. q[k] = q[l]
      BY <1>1, <1>4, <2>3 DEF InOrder
    <3>2. q[k] \in Nat
      BY <1>1, <1>4
    <3>3. QED
      BY <1>2, <3>1, <3>2
  <2>4. QED
    BY <1>5, <2>1, <2>2, <2>3 DEF InOrder
<1>7. \A i \in S : \E k \in DOMAIN kept : kept[k] = map[i]
  BY <1>2, <1>4, <1>5
<1>8. \A k \in DOMAIN kept : \E i \in S : kept[k] = map[i]
  BY <1>4, <1>5
<1>9. QED
  BY <1>1, <1>2, <1>5, <1>6, <1>7, <1>8 DEF kept

(* A jar takes a cookie of a new key as its youngest.                      *)
LEMMA TakesNew ==
  ASSUME NEW s, NEW j, JarSound(s, j), NEW e \in Cookies(s), Jar!Position(j, Jar!KeyOf(e)) = {}
  PROVE  Jar!Inserted(j, e) = JarOf(s, Append(j.map, [e EXCEPT !.seq = j.next]), j.next + 1)
<1> DEFINE d == [e EXCEPT !.seq = j.next]
           l == Len(j.map)
<1>1. /\ j.map \in Seq(Cookies(s)) /\ j.next \in Nat /\ l \in Nat
      /\ j.byName = [n \in s.names |-> Jar!Indices(j.map, n)]
  <2>1. j.map \in Seq(Cookies(s)) /\ j.next \in Nat /\ j = JarOf(s, j.map, j.next)
    BY DEF JarSound
  <2>2. JarOf(s, j.map, j.next).byName = [n \in s.names |-> Jar!Indices(j.map, n)]
    BY JarParts
  <2>3. QED
    BY <2>1, <2>2, LenProperties
<1>2. d \in Cookies(s) /\ d.name = e.name /\ e.name \in s.names
  <2>1. d \in Cookies(s) /\ d.name = e.name
    BY <1>1, Renumbered
  <2>2. e.name \in s.names
    BY DEF Cookies, CookieRec
  <2>3. QED
    BY <2>1, <2>2
<1> HIDE DEF d
<1>3. [j.byName EXCEPT ![e.name] = Append(@, l + 1)] = [n \in s.names |-> Jar!Indices(Append(j.map, d), n)]
  <2>1. \A n \in s.names : Jar!Indices(Append(j.map, d), n)
                            = IF e.name = n THEN Append(Jar!Indices(j.map, n), l + 1) ELSE Jar!Indices(j.map, n)
    <3>1. \A n : Jar!Indices(Append(j.map, d), n)
                 = IF d.name = n THEN Append(Jar!Indices(j.map, n), Len(j.map) + 1) ELSE Jar!Indices(j.map, n)
      BY <1>1, <1>2, IndicesGrow
    <3>2. QED
      BY <1>2, <3>1
  <2>2. [j.byName EXCEPT ![e.name] = Append(@, l + 1)]
          = [n \in s.names |-> IF e.name = n THEN Append(j.byName[n], l + 1) ELSE j.byName[n]]
    BY <1>1, <1>2
  <2>3. \A n \in s.names : j.byName[n] = Jar!Indices(j.map, n)
    BY <1>1
  <2>4. QED
    BY <2>1, <2>2, <2>3
<1>4. Jar!Inserted(j, e) = [map |-> Append(j.map, d), byName |-> [j.byName EXCEPT ![e.name] = Append(@, l + 1)],
                            next |-> j.next + 1]
  BY DEF Jar!Inserted, d
<1>5. QED
  BY <1>3, <1>4 DEF JarOf, d

LEMMA NewFits ==
  ASSUME NEW s, NEW j, JarSound(s, j), Len(j.map) < s.cap, s.cap \in Nat,
         NEW e \in Cookies(s), Jar!Position(j, Jar!KeyOf(e)) = {},
         NEW r, r = Jar!Inserted(j, e)
  PROVE  /\ JarSound(s, r) /\ r.next = j.next + 1
         /\ \A i \in DOMAIN j.map : i \in DOMAIN r.map /\ r.map[i] = j.map[i]
         /\ \E k \in DOMAIN r.map : r.map[k] = [e EXCEPT !.seq = r.map[k].seq]
<1> DEFINE d == [e EXCEPT !.seq = j.next]
           l == Len(j.map)
           map == Append(j.map, d)
<1>1. /\ j.map \in Seq(Cookies(s)) /\ j.next \in Nat /\ l \in Nat /\ InOrder(j.map, j.next)
      /\ DOMAIN j.map = 1 .. l /\ \A i \in DOMAIN j.map : j.map[i] \in Cookies(s) /\ j.map[i] \in CookieRec(s)
  <2>1. j.map \in Seq(Cookies(s)) /\ j.next \in Nat /\ InOrder(j.map, j.next)
    BY DEF JarSound
  <2>2. QED
    BY <2>1, CookieAt
<1>2. d \in Cookies(s) /\ d.seq = j.next /\ Jar!KeyOf(d) = Jar!KeyOf(e)
  BY <1>1, Renumbered
<1>3. r.map = map /\ r.next = j.next + 1 /\ r = JarOf(s, map, j.next + 1)
  <2>1. r = JarOf(s, map, j.next + 1)
    BY TakesNew
  <2>2. JarOf(s, map, j.next + 1).map = map /\ JarOf(s, map, j.next + 1).next = j.next + 1
    BY DEF JarOf
  <2>3. QED
    BY <2>1, <2>2
<1> HIDE DEF d
<1>4. /\ map \in Seq(Cookies(s)) /\ Len(map) = l + 1 /\ DOMAIN map = 1 .. l + 1
      /\ map = [k \in 1 .. l + 1 |-> IF k = l + 1 THEN d ELSE j.map[k]]
  BY <1>1, <1>2, AppendIs
<1> HIDE DEF map
<1>5. map[l + 1] = d /\ \A k \in 1 .. l : k \in 1 .. l + 1 /\ map[k] = j.map[k]
  <2>1. \A k \in 1 .. l : k # l + 1 /\ k \in 1 .. l + 1
    BY <1>1
  <2>2. l + 1 \in 1 .. l + 1
    BY <1>1
  <2>3. QED
    BY <1>4, <2>1, <2>2
<1>6. \A k \in 1 .. l + 1 : k = l + 1 \/ k \in 1 .. l
  BY <1>1
<1>7. InOrder(map, j.next + 1)
  <2>1. l <= j.next
    <3>1. CASE l = 0
      BY <1>1, <3>1
    <3>2. CASE l # 0
      <4>1. l \in DOMAIN j.map
        BY <1>1, <3>2
      <4>2. j.map[l].seq < j.next /\ l <= j.map[l].seq + 1 /\ j.map[l].seq \in Nat
        BY <1>1, <4>1 DEF InOrder, CookieRec
      <4>3. QED
        BY <1>1, <4>2
    <3>3. QED
      BY <3>1, <3>2
  <2>2. ASSUME NEW i \in 1 .. l
        PROVE  map[i].seq < j.next /\ map[i].seq \in Nat /\ i <= map[i].seq + 1 /\ Jar!KeyOf(map[i]) # Jar!KeyOf(d)
    <3>1. map[i].seq < j.next /\ map[i].seq \in Nat /\ i <= map[i].seq + 1
      BY <1>1, <1>5 DEF InOrder, CookieRec
    <3>2. Jar!KeyOf(j.map[i]) # Jar!KeyOf(e)
      BY <1>1 DEF Jar!Position
    <3>3. QED
      BY <1>2, <1>5, <3>1, <3>2
  <2>3. \A i \in 1 .. l + 1 : map[i].seq < j.next + 1 /\ i <= map[i].seq + 1
    <3>1. map[l + 1].seq < j.next + 1 /\ l + 1 <= map[l + 1].seq + 1
      BY <1>1, <1>2, <1>5, <2>1
    <3>2. \A i \in 1 .. l : map[i].seq < j.next + 1 /\ i <= map[i].seq + 1
      BY <1>1, <2>2
    <3>3. QED
      BY <1>6, <3>1, <3>2
  <2>4. ASSUME NEW i \in 1 .. l + 1, NEW k \in 1 .. l + 1, i < k
        PROVE  map[i].seq < map[k].seq
    <3>1. i \in 1 .. l
      BY <1>1, <2>4
    <3>2. CASE k = l + 1
      BY <1>2, <1>5, <2>2, <3>1, <3>2
    <3>3. CASE k \in 1 .. l
      BY <1>1, <1>5, <2>4, <3>1, <3>3 DEF InOrder
    <3>4. QED
      BY <1>6, <3>2, <3>3
  <2>5. ASSUME NEW i \in 1 .. l + 1, NEW k \in 1 .. l + 1, Jar!KeyOf(map[i]) = Jar!KeyOf(map[k])
        PROVE  i = k
    <3>1. CASE i \in 1 .. l /\ k \in 1 .. l
      BY <1>1, <1>5, <2>5, <3>1 DEF InOrder
    <3>2. CASE i = l + 1 \/ k = l + 1
      BY <1>5, <1>6, <2>2, <2>5, <3>2
    <3>3. QED
      BY <1>6, <3>1, <3>2
  <2>6. QED
    BY <1>4, <2>3, <2>4, <2>5 DEF InOrder
<1>8. JarSound(s, r)
  <2>1. Len(map) <= s.cap /\ j.next + 1 \in Nat
    BY <1>1, <1>4
  <2>2. QED
    BY <1>3, <1>4, <1>7, <2>1 DEF JarSound
<1>9. \E k \in DOMAIN r.map : r.map[k] = [e EXCEPT !.seq = r.map[k].seq]
  <2>1. l + 1 \in DOMAIN r.map /\ r.map[l + 1] = d /\ d = [e EXCEPT !.seq = d.seq]
    BY <1>1, <1>2, <1>3, <1>4, <1>5 DEF d
  <2>2. QED
    BY <2>1
<1>10. QED
  BY <1>1, <1>3, <1>4, <1>5, <1>8, <1>9

(* A cookie that is set again keeps its place.                             *)
LEMMA AgainFits ==
  ASSUME NEW s, NEW j, JarSound(s, j), NEW e \in Cookies(s), NEW p \in Jar!Position(j, Jar!KeyOf(e)),
         NEW r, r = Jar!Inserted(j, e)
  PROVE  /\ JarSound(s, r) /\ r.next = j.next
         /\ \A i \in DOMAIN j.map : i \in DOMAIN r.map /\ Jar!KeyOf(r.map[i]) = Jar!KeyOf(j.map[i])
         /\ \E k \in DOMAIN r.map : r.map[k] = [e EXCEPT !.seq = r.map[k].seq]
<1> DEFINE l == Len(j.map)
           d == [e EXCEPT !.seq = j.map[p].seq]
           map == [i \in 1 .. l |-> IF i = p THEN d ELSE j.map[i]]
<1>1. /\ j.map \in Seq(Cookies(s)) /\ j.next \in Nat /\ l \in Nat /\ InOrder(j.map, j.next) /\ l <= s.cap
      /\ DOMAIN j.map = 1 .. l /\ \A i \in DOMAIN j.map : j.map[i] \in Cookies(s) /\ j.map[i] \in CookieRec(s)
      /\ j = JarOf(s, j.map, j.next)
  <2>1. /\ j.map \in Seq(Cookies(s)) /\ j.next \in Nat /\ InOrder(j.map, j.next) /\ l <= s.cap
        /\ j = JarOf(s, j.map, j.next)
    BY DEF JarSound
  <2>2. QED
    BY <2>1, CookieAt
<1>2. Jar!Position(j, Jar!KeyOf(e)) = {p} /\ p \in 1 .. l /\ Jar!KeyOf(j.map[p]) = Jar!KeyOf(e)
  BY <1>1 DEF Jar!Position, InOrder
<1>3. j.map[p].seq \in Nat
  BY <1>1, <1>2 DEF CookieRec
<1>4. d \in Cookies(s) /\ d.seq = j.map[p].seq /\ Jar!KeyOf(d) = Jar!KeyOf(e) /\ d.name = e.name
  BY <1>3, Renumbered
<1>5. r = JarOf(s, map, j.next)
  <2>1. r = [j EXCEPT !.map = map]
    <3>1. r = [j EXCEPT !.map = [i \in DOMAIN @ |-> IF i \in {p} THEN [e EXCEPT !.seq = j.map[i].seq] ELSE @[i]]]
      BY <1>2 DEF Jar!Inserted
    <3>2. [i \in DOMAIN j.map |-> IF i \in {p} THEN [e EXCEPT !.seq = j.map[i].seq] ELSE j.map[i]] = map
      BY <1>1
    <3>3. QED
      BY <3>1, <3>2
  <2>2. r = [map |-> map, byName |-> [n \in s.names |-> Jar!Indices(j.map, n)], next |-> j.next]
    <3>1. j = JarOf(s, j.map, j.next)
      BY <1>1
    <3>2. \A m : [j EXCEPT !.map = m]
                 = [map |-> m, byName |-> [n \in s.names |-> Jar!Indices(j.map, n)], next |-> j.next]
      BY <3>1, MapReplaced
    <3> HIDE DEF map
    <3>3. QED
      BY <2>1, <3>2
  <2>3. ASSUME NEW n \in s.names
        PROVE  Jar!Indices(map, n) = Jar!Indices(j.map, n)
    <3>1. \A i \in 1 .. l : map[i].name = j.map[i].name
      BY <1>2, <1>4 DEF Jar!KeyOf
    <3>2. DOMAIN map = DOMAIN j.map
      BY <1>1
    <3>3. {i \in DOMAIN map : map[i].name = n} = {i \in DOMAIN j.map : j.map[i].name = n}
      BY <1>1, <3>1, <3>2
    <3>4. QED
      BY <3>3 DEF Jar!Indices
  <2>4. QED
    BY <2>2, <2>3 DEF JarOf
<1>6. r.map = map /\ r.next = j.next
  <2>1. JarOf(s, map, j.next).map = map /\ JarOf(s, map, j.next).next = j.next
    BY DEF JarOf
  <2>2. QED
    BY <1>5, <2>1
<1> HIDE DEF d
<1>7. \A i \in 1 .. l : /\ map[i] \in Cookies(s) /\ map[i].seq = j.map[i].seq
                        /\ Jar!KeyOf(map[i]) = Jar!KeyOf(j.map[i])
  BY <1>1, <1>2, <1>4
<1>8. map \in Seq(Cookies(s)) /\ Len(map) = l /\ DOMAIN map = 1 .. l
  <2>1. map \in [1 .. l -> Cookies(s)]
    BY <1>7
  <2>2. QED
    BY <1>1, <2>1, SeqDef, LenProperties
<1>9. map[p] = [e EXCEPT !.seq = map[p].seq]
  <2>1. map[p] = d
    BY <1>2
  <2>2. d = [e EXCEPT !.seq = d.seq]
    BY <1>4 DEF d
  <2>3. QED
    BY <2>1, <2>2
<1> HIDE DEF map
<1>10. InOrder(map, j.next)
  BY <1>1, <1>7, <1>8 DEF InOrder
<1>11. JarSound(s, r)
  BY <1>1, <1>5, <1>6, <1>8, <1>10 DEF JarSound
<1>12. QED
  BY <1>1, <1>2, <1>6, <1>7, <1>8, <1>9, <1>11

LEMMA Inserts ==
  ASSUME NEW s, NEW j, JarSound(s, j), Len(j.map) < s.cap, s.cap \in Nat, NEW e \in Cookies(s),
         NEW r, r = Jar!Inserted(j, e)
  PROVE  /\ JarSound(s, r) /\ r.next \in {j.next, j.next + 1}
         /\ \A i \in DOMAIN j.map : i \in DOMAIN r.map /\ Jar!KeyOf(r.map[i]) = Jar!KeyOf(j.map[i])
         /\ \E k \in DOMAIN r.map : r.map[k] = [e EXCEPT !.seq = r.map[k].seq]
<1>1. CASE Jar!Position(j, Jar!KeyOf(e)) = {}
  <2>1. /\ JarSound(s, r) /\ r.next = j.next + 1
        /\ \A i \in DOMAIN j.map : i \in DOMAIN r.map /\ r.map[i] = j.map[i]
        /\ \E k \in DOMAIN r.map : r.map[k] = [e EXCEPT !.seq = r.map[k].seq]
    BY <1>1, NewFits
  <2>2. QED
    BY <2>1
<1>2. CASE Jar!Position(j, Jar!KeyOf(e)) # {}
  <2>1. PICK p \in Jar!Position(j, Jar!KeyOf(e)) : TRUE
    BY <1>2
  <2>2. QED
    BY <2>1, AgainFits
<1>3. QED
  BY <1>1, <1>2

(* Room is made of what is over, or of the cookie that ends soonest.       *)
LEMMA SoonestExists ==
  ASSUME NEW s, NEW map \in Seq(Cookies(s)), map # <<>>, NEW next, InOrder(map, next)
  PROVE  Jar!Victim(map) \in DOMAIN map
<1>1. /\ Len(map) \in Nat /\ DOMAIN map = 1 .. Len(map) /\ DOMAIN map # {}
      /\ \A i \in DOMAIN map : map[i].expires \in Nat /\ map[i].seq \in Nat
  <2>1. Len(map) \in Nat /\ DOMAIN map = 1 .. Len(map)
        /\ \A i \in DOMAIN map : map[i] \in CookieRec(s)
    BY CookieAt
  <2>2. Len(map) # 0
    BY EmptySeq
  <2>3. \A i \in DOMAIN map : map[i].expires \in Nat /\ map[i].seq \in Nat
    BY <2>1 DEF CookieRec
  <2>4. 1 \in 1 .. Len(map)
    BY <2>1, <2>2
  <2>5. QED
    BY <2>1, <2>3, <2>4
<1> DEFINE ends == {map[i].expires : i \in DOMAIN map}
<1>2. PICK t \in ends : \A u \in ends : t <= u
  <2>1. ends \in SUBSET Nat /\ ends # {}
    BY <1>1
  <2> HIDE DEF ends
  <2>2. QED
    BY <2>1, LeastExists
<1> DEFINE first == {i \in DOMAIN map : map[i].expires = t}
<1>3. PICK i \in first : \A k \in first : i <= k
  <2>1. first \in SUBSET Nat /\ first # {}
    BY <1>1, <1>2
  <2> HIDE DEF first
  <2>2. QED
    BY <2>1, LeastExists
<1>4. ASSUME NEW k \in DOMAIN map
      PROVE  Jar!Sooner(map[i], map[k])
  <2>1. t <= map[k].expires /\ map[i].expires = t /\ i \in DOMAIN map
    BY <1>2, <1>3
  <2>2. CASE map[k].expires = t
    <3>1. i <= k
      BY <1>3, <2>2
    <3>2. map[i].seq <= map[k].seq
      <4>1. i = k \/ i < k
        BY <1>1, <2>1, <3>1
      <4>2. i < k => map[i].seq < map[k].seq
        BY <2>1 DEF InOrder
      <4>3. map[i].seq \in Nat /\ map[k].seq \in Nat
        BY <1>1, <2>1
      <4>4. QED
        BY <4>1, <4>2, <4>3
    <3>3. QED
      BY <2>1, <2>2, <3>2 DEF Jar!Sooner
  <2>3. CASE map[k].expires # t
    <3>1. t < map[k].expires
      BY <1>1, <2>1, <2>3
    <3>2. QED
      BY <2>1, <3>1 DEF Jar!Sooner
  <2>4. QED
    BY <2>2, <2>3
<1>5. \E v \in DOMAIN map : \A k \in DOMAIN map : Jar!Sooner(map[v], map[k])
  BY <1>3, <1>4
<1>6. QED
  BY <1>5 DEF Jar!Victim

LEMMA MakesRoom ==
  ASSUME WellSet(setting), JarSound(setting, jar), jarNow \in Nat
  PROVE  /\ JarSound(setting, Jar!Room(jar)) /\ Len(Jar!Room(jar).map) < setting.cap
         /\ Jar!Room(jar).next = jar.next
         /\ \A i \in DOMAIN jar.map : jar.map[i].expires > jarNow =>
              \/ \E k \in DOMAIN Jar!Room(jar).map : Jar!Room(jar).map[k] = jar.map[i]
              \/ Len(jar.map) = setting.cap /\ ~Jar!Expired(jar) /\ i = Jar!Victim(jar.map)
<1> DEFINE map == jar.map
           l == Len(jar.map)
           room == Jar!Room(jar)
           cap == setting.cap
<1>1. /\ map \in Seq(Cookies(setting)) /\ l \in Nat /\ DOMAIN map = 1 .. l /\ l <= cap /\ cap \in Nat \ {0}
      /\ jar.next \in Nat /\ InOrder(map, jar.next) /\ Jar!JarCap = cap
  <2>1. map \in Seq(Cookies(setting)) /\ l <= cap /\ jar.next \in Nat /\ InOrder(map, jar.next)
    BY DEF JarSound
  <2>2. QED
    BY <2>1, LenProperties DEF WellSet, Jar!JarCap
\* what stays at the positions S of a jar that is full
<1>2. ASSUME NEW S \in SUBSET (1 .. l), S # 1 .. l, l = cap,
             room = JarOf(setting, Jar!Kept(map, S), jar.next)
      PROVE  /\ JarSound(setting, room) /\ Len(room.map) < cap /\ room.next = jar.next
             /\ \A i \in S : \E k \in DOMAIN room.map : room.map[k] = map[i]
  <2> DEFINE kept == Jar!Kept(map, S)
  <2>1. /\ kept \in Seq(Cookies(setting)) /\ InOrder(kept, jar.next) /\ Len(kept) <= l
        /\ Len(kept) = l => S = DOMAIN map
        /\ \A i \in S : \E k \in DOMAIN kept : kept[k] = map[i]
    <3>1. map \in Seq(Cookies(setting)) /\ jar.next \in Nat /\ InOrder(map, jar.next) /\ S \in SUBSET DOMAIN map
      BY <1>1
    <3>2. QED
      BY <3>1, KeptKeeps
  <2> HIDE DEF kept, room
  <2>2. room = JarOf(setting, kept, jar.next)
    BY <1>2 DEF kept
  <2>3. room.map = kept /\ room.next = jar.next
    BY <2>2 DEF JarOf
  <2>4. Len(kept) \in Nat /\ Len(kept) < cap
    BY <1>1, <1>2, <2>1, LenProperties
  <2>5. JarSound(setting, room)
    BY <1>1, <2>1, <2>2, <2>3, <2>4 DEF JarSound
  <2>6. QED
    BY <2>1, <2>3, <2>4, <2>5
<1>3. CASE l < cap
  <2>1. room = jar
    BY <1>1, <1>3 DEF Jar!Room
  <2>2. QED
    BY <1>1, <1>3, <2>1
<1> DEFINE live == {i \in DOMAIN map : map[i].expires > jarNow}
<1>4. CASE l = cap /\ Jar!Expired(jar)
  <2>1. live \in SUBSET (1 .. l) /\ live # 1 .. l
    <3>1. \A i \in DOMAIN map : map[i].expires \in Nat
      BY <1>1, CookieAt DEF CookieRec
    <3>2. PICK i \in DOMAIN map : map[i].expires <= jarNow
      BY <1>4 DEF Jar!Expired
    <3>3. i \notin live
      BY <3>1, <3>2
    <3>4. QED
      BY <1>1, <3>2, <3>3
  <2>2. Jar!Purged(jar) = JarOf(setting, Jar!Kept(map, live), jar.next)
    <3>1. Jar!Purged(jar) = Jar!Rebuilt([jar EXCEPT !.map = Jar!Kept(map, live)])
      BY <1>4 DEF Jar!Purged
    <3>2. QED
      BY <3>1, Rebuilds
  <2>3. Len(Jar!Kept(map, live)) < cap
    <3>1. Len(Jar!Kept(map, live)) <= l /\ Len(Jar!Kept(map, live)) # l /\ Jar!Kept(map, live) \in Seq(Cookies(setting))
      <4>1. live \in SUBSET DOMAIN map /\ live # DOMAIN map
        BY <1>1, <2>1
      <4> HIDE DEF live
      <4>2. QED
        BY <1>1, <4>1, KeptKeeps
    <3>2. QED
      BY <1>1, <1>4, <3>1, LenProperties
  <2>4. room = JarOf(setting, Jar!Kept(map, live), jar.next)
    <3>1. Jar!Purged(jar).map = Jar!Kept(map, live)
      BY <2>2 DEF JarOf
    <3>2. ~(l < Jar!JarCap) /\ Len(Jar!Purged(jar).map) < Jar!JarCap
      <4>1. ~(l < Jar!JarCap)
        BY <1>1, <1>4
      <4>2. Len(Jar!Purged(jar).map) < Jar!JarCap
        BY <1>1, <2>3, <3>1
      <4>3. QED
        BY <4>1, <4>2
    <3>3. room = Jar!Purged(jar)
      BY <3>2 DEF Jar!Room
    <3>4. QED
      BY <2>2, <3>3
  <2>5. /\ JarSound(setting, room) /\ Len(room.map) < cap /\ room.next = jar.next
        /\ \A i \in live : \E k \in DOMAIN room.map : room.map[k] = map[i]
    BY <1>2, <1>4, <2>1, <2>4
  <2>6. QED
    BY <2>5
<1>5. CASE l = cap /\ ~Jar!Expired(jar)
  <2> DEFINE v == Jar!Victim(map)
             S == (1 .. l) \ {v}
  <2>1. v \in 1 .. l
    <3>1. map # <<>>
      BY <1>1, <1>5
    <3>2. QED
      BY <1>1, <3>1, SoonestExists
  <2>2. room = JarOf(setting, Jar!Kept(map, S), jar.next)
    <3>1. Jar!Purged(jar) = jar
      BY <1>5 DEF Jar!Purged
    <3>2. room = Jar!Rebuilt([jar EXCEPT !.map = Jar!Kept(map, S)])
      <4>1. ~(l < Jar!JarCap)
        BY <1>1, <1>5
      <4>2. room = Jar!Rebuilt([jar EXCEPT !.map = Jar!Kept(@, DOMAIN @ \ {Jar!Victim(@)})])
        BY <3>1, <4>1 DEF Jar!Room
      <4>3. QED
        BY <1>1, <4>2
    <3>3. QED
      BY <3>2, Rebuilds
  <2>3. /\ JarSound(setting, room) /\ Len(room.map) < cap /\ room.next = jar.next
        /\ \A i \in S : \E k \in DOMAIN room.map : room.map[k] = map[i]
    BY <1>2, <1>5, <2>1, <2>2
  <2>4. QED
    BY <1>1, <1>5, <2>3
<1>6. QED
  BY <1>1, <1>3, <1>4, <1>5

-----------------------------------------------------------------------------
(* What is set fits the jar.                                               *)

LEMMA OneIs ==
  ASSUME NEW S, NEW x \in S
  PROVE  <<x>> \in Seq(S) /\ <<x>> # <<>>
<1>1. <<x>> \in Seq(S) /\ Len(<<x>>) = 1
  OBVIOUS
<1>2. QED
  BY <1>1, EmptySeq

LEMMA EntryFits ==
  ASSUME WellSet(setting), NEW url \in Jar!Urls \cup {Jar!Flat}, NEW line,
         NEW paths \in SUBSET (setting.paths \cup {<<>>}), NEW ends \in SUBSET Nat,
         line \in Jar!LinesOf(paths, ends)
  PROVE  Jar!Entry(url, line) \in Cookies(setting)
<1> DEFINE e == Jar!Entry(url, line)
           taken == Jar!DomainTaken(url, line)
<1>1. /\ line.name \in setting.names /\ line.value \in setting.values /\ line.secure \in BOOLEAN
      /\ line.expires \in Nat /\ line.domain \in setting.hosts \cup {""}
      /\ line.path \in setting.paths \cup {<<>>}
  BY DEF WellSet, Jar!LinesOf, Jar!Names, Jar!Hosts, Jar!NoHost, Jar!Flags
<1>2. url.host \in setting.hosts \cup {""} /\ url.path \in setting.paths \cup {<<>>}
  <2>1. CASE url \in Jar!Urls
    BY <2>1 DEF Jar!Urls, Jar!Hosts, Jar!Paths
  <2>2. CASE url = Jar!Flat
    BY <2>2 DEF Jar!Flat, Jar!NoHost, Jar!NoPath
  <2>3. QED
    BY <2>1, <2>2
<1>3. <<"">> \in Seq(Parts(setting)) \ {<<>>}
  <2>1. "" \in Parts(setting)
    BY DEF Parts
  <2>2. QED
    BY <2>1, OneIs
<1>p. \A p \in setting.paths : p \in Seq(Parts(setting)) /\ p # <<>>
  <2>1. ASSUME NEW p \in setting.paths
        PROVE  p \in Seq(Parts(setting)) /\ p # <<>>
    <3>1. p \in Seq({p[i] : i \in DOMAIN p}) /\ p # <<>>
      BY DEF WellSet
    <3>2. {p[i] : i \in DOMAIN p} \in SUBSET Parts(setting)
      <4>1. \A i \in DOMAIN p : p[i] \in UNION {{r[k] : k \in DOMAIN r} : r \in setting.paths}
        OBVIOUS
      <4>2. QED
        BY <4>1 DEF Parts
    <3>3. QED
      BY <3>1, <3>2
  <2>2. QED
    BY <2>1
<1>4. \A p \in setting.paths : Jar!ParentPath(p) \in Seq(Parts(setting)) \ {<<>>}
  <2>1. ASSUME NEW p \in setting.paths
        PROVE  Jar!ParentPath(p) \in Seq(Parts(setting)) \ {<<>>}
    <3>1. p \in Seq(Parts(setting))
      BY <1>p
    <3>n. Len(p) \in Nat
      BY <3>1, LenProperties
    <3>2. CASE Len(p) <= 1
      BY <1>3, <3>2 DEF Jar!ParentPath, Jar!Root
    <3>3. CASE ~(Len(p) <= 1)
      <4>1. Jar!ParentPath(p) = SubSeq(p, 1, Len(p) - 1)
        BY <3>3 DEF Jar!ParentPath, Jar!Front
      <4>2. /\ SubSeq(p, 1, Len(p) - 1) \in Seq(Parts(setting))
            /\ Len(SubSeq(p, 1, Len(p) - 1)) = Len(p) - 1
        BY <3>1, <3>3, <3>n, SubSeqProperties
      <4>3. SubSeq(p, 1, Len(p) - 1) # <<>>
        <5> DEFINE front == SubSeq(p, 1, Len(p) - 1)
        <5>1. front \in Seq(Parts(setting)) /\ Len(front) # 0
          <6>1. Len(p) - 1 # 0
            <7>1. \A n \in Nat : ~(n <= 1) => n - 1 # 0
              OBVIOUS
            <7>2. QED
              BY <3>3, <3>n, <7>1
          <6>2. QED
            BY <4>2, <6>1
        <5> HIDE DEF front
        <5>2. front # <<>>
          BY <5>1, EmptySeq
        <5>3. QED
          BY <5>2 DEF front
      <4>4. QED
        BY <4>1, <4>2, <4>3
    <3>4. QED
      BY <3>2, <3>3
  <2>2. QED
    BY <2>1
<1>5. Jar!PathTaken(url, line) \in Seq(Parts(setting)) \ {<<>>}
  <2>1. CASE line.path # <<>>
    BY <1>1, <1>p, <2>1 DEF Jar!PathTaken, Jar!NoPath
  <2>2. CASE line.path = <<>> /\ url.path = <<>>
    BY <1>3, <2>2 DEF Jar!PathTaken, Jar!NoPath, Jar!Root
  <2>3. CASE line.path = <<>> /\ url.path # <<>>
    BY <1>2, <1>4, <2>3 DEF Jar!PathTaken, Jar!NoPath
  <2>4. QED
    BY <2>1, <2>2, <2>3
<1>6. e = [name |-> line.name, value |-> line.value, secure |-> line.secure, expires |-> line.expires,
           domain |-> IF taken THEN line.domain ELSE url.host, hostOnly |-> ~taken,
           path |-> Jar!PathTaken(url, line), seq |-> 0, from |-> url.host]
  BY DEF Jar!Entry
<1>7. taken \in BOOLEAN /\ (taken => line.domain = url.host \/ <<url.host, line.domain>> \in setting.within)
  BY DEF Jar!DomainTaken, Jar!DomainMatches, Jar!Within
<1> HIDE DEF taken, e
<1>8. e \in CookieRec(setting)
  <2>1. (IF taken THEN line.domain ELSE url.host) \in setting.hosts \cup {""}
    BY <1>1, <1>2
  <2>2. (~taken) \in BOOLEAN
    OBVIOUS
  <2>3. QED
    BY <1>1, <1>2, <1>5, <1>6, <2>1, <2>2 DEF CookieRec
<1>9. AtHome(setting, e)
  <2>1. /\ e.hostOnly = ~taken /\ e.from = url.host
        /\ e.domain = IF taken THEN line.domain ELSE url.host
    BY <1>6
  <2>2. QED
    BY <1>7, <2>1 DEF AtHome
<1>10. QED
  BY <1>8, <1>9 DEF Cookies, e

(* Two sets in the same order stand in the same order.                     *)
LEMMA SameOrder ==
  ASSUME NEW S, IsFiniteSet(S), NEW R, Orders(R, S),
         NEW T, IsFiniteSet(T), NEW Q, Orders(Q, T),
         NEW q \in Bijection(T, S), \A i, k \in T : <<i, k>> \in Q <=> <<q[i], q[k]>> \in R
  PROVE  /\ Cardinality(T) = Cardinality(S)
         /\ \A k \in 1 .. Cardinality(S) : Jar!Ranked(S, R)[k] = q[Jar!Ranked(T, Q)[k]]
<1>1. /\ q \in [T -> S] /\ \A i, k \in T : q[i] = q[k] => i = k
      /\ \A x \in S : \E i \in T : q[i] = x
  BY DEF Bijection, Injection, Surjection, IsInjective
<1>2. Cardinality(T) = Cardinality(S)
  BY FS_Bijection DEF ExistsBijection
<1>3. ASSUME NEW i \in T
      PROVE  Rank(T, Q, i) = Rank(S, R, q[i])
  <2> DEFINE f == [h \in NotAfter(T, Q, i) |-> q[h]]
  <2>1. \A h \in T : h \in NotAfter(T, Q, i) <=> q[h] \in NotAfter(S, R, q[i])
    BY <1>1 DEF NotAfter
  <2>2. f \in [NotAfter(T, Q, i) -> NotAfter(S, R, q[i])]
    BY <2>1 DEF NotAfter
  <2>3. \A h, g \in NotAfter(T, Q, i) : f[h] = f[g] => h = g
    BY <1>1 DEF NotAfter
  <2>4. \A x \in NotAfter(S, R, q[i]) : \E h \in NotAfter(T, Q, i) : f[h] = x
    <3>1. ASSUME NEW x \in NotAfter(S, R, q[i])
          PROVE  \E h \in NotAfter(T, Q, i) : f[h] = x
      <4>1. x \in S
        BY DEF NotAfter
      <4>2. PICK h \in T : q[h] = x
        BY <1>1, <4>1
      <4>3. h \in NotAfter(T, Q, i)
        BY <2>1, <4>2
      <4>4. QED
        BY <4>2, <4>3
    <3>2. QED
      BY <3>1
  <2> HIDE DEF f
  <2>5. f \in Bijection(NotAfter(T, Q, i), NotAfter(S, R, q[i]))
    BY <2>2, <2>3, <2>4 DEF Bijection, Injection, Surjection, IsInjective
  <2>6. IsFiniteSet(NotAfter(T, Q, i))
    <3>1. NotAfter(T, Q, i) \in SUBSET T
      BY DEF NotAfter
    <3>2. QED
      BY <3>1, FS_Subset
  <2>7. ExistsBijection(NotAfter(T, Q, i), NotAfter(S, R, q[i]))
    BY <2>5 DEF ExistsBijection
  <2>8. QED
    BY <2>6, <2>7, FS_Bijection DEF Rank
<1>4. ASSUME NEW k \in 1 .. Cardinality(S)
      PROVE  Jar!Ranked(S, R)[k] = q[Jar!Ranked(T, Q)[k]]
  <2> DEFINE i == Jar!Ranked(T, Q)[k]
  <2>1. i \in T /\ Rank(T, Q, i) = k
    <3>1. k \in 1 .. Cardinality(T)
      BY <1>2
    <3>2. /\ Jar!Ranked(T, Q) \in [1 .. Cardinality(T) -> T]
          /\ \A n \in 1 .. Cardinality(T) : Rank(T, Q, Jar!Ranked(T, Q)[n]) = n
      BY RankedIs
    <3>3. QED
      BY <3>1, <3>2
  <2> HIDE DEF i
  <2>2. q[i] \in S /\ Rank(S, R, q[i]) = k
    BY <1>1, <1>3, <2>1
  <2>3. Jar!Ranked(S, R)[Rank(S, R, q[i])] = q[i]
    BY <2>2, RankedIs
  <2>4. QED
    BY <2>2, <2>3 DEF i
<1>5. QED
  BY <1>2, <1>4

-----------------------------------------------------------------------------
(* The copy of a jar: what it holds after the first k cookies.             *)
Matched(url, k) == {i \in 1 .. k : Jar!Matches(jar.map[i], url, jarNow)}
Carried(url, k) == [i \in 1 .. Cardinality(Matched(url, k)) |->
                   [jar.map[Jar!Ascending(Matched(url, k))[i]] EXCEPT !.seq = i - 1]]
CopyOf(url, k) == JarOf(setting, Carried(url, k), Cardinality(Matched(url, k)))

LEMMA CopyIs ==
  ASSUME JarSound(setting, jar), setting.cap \in Nat, NEW url, NEW k \in 0 .. Len(jar.map)
  PROVE  LET S == Matched(url, k)
             m == Cardinality(S)
             q == Jar!Ascending(S)
         IN  /\ S \in SUBSET (1 .. k) /\ m \in 0 .. k /\ q \in [1 .. m -> S]
             /\ \A i, n \in 1 .. m : i < n => q[i] < q[n]
             /\ \A i \in S : \E n \in 1 .. m : q[n] = i
             /\ Carried(url, k) \in Seq(Cookies(setting)) /\ Len(Carried(url, k)) = m /\ DOMAIN Carried(url, k) = 1 .. m
             /\ \A i \in 1 .. m : /\ Carried(url, k)[i] = [jar.map[q[i]] EXCEPT !.seq = i - 1]
                                  /\ q[i] \in DOMAIN jar.map /\ Carried(url, k)[i].seq = i - 1
                                  /\ Jar!KeyOf(Carried(url, k)[i]) = Jar!KeyOf(jar.map[q[i]])
             /\ JarSound(setting, CopyOf(url, k))
             /\ CopyOf(url, k).map = Carried(url, k) /\ CopyOf(url, k).next = m
<1> DEFINE S == Matched(url, k)
           m == Cardinality(S)
           q == Jar!Ascending(S)
           map == Carried(url, k)
           l == Len(jar.map)
<1>1. /\ jar.map \in Seq(Cookies(setting)) /\ l \in Nat /\ l <= setting.cap
      /\ DOMAIN jar.map = 1 .. l /\ \A i \in DOMAIN jar.map : jar.map[i] \in Cookies(setting)
      /\ InOrder(jar.map, jar.next)
  <2>1. jar.map \in Seq(Cookies(setting)) /\ l <= setting.cap /\ InOrder(jar.map, jar.next)
    BY DEF JarSound
  <2>2. QED
    BY <2>1, CookieAt
<1>2. S \in SUBSET (1 .. k) /\ k \in Nat
  BY <1>1 DEF Matched
<1>3. /\ m \in 0 .. k /\ q \in [1 .. m -> S]
      /\ \A i, n \in 1 .. m : i < n => q[i] < q[n]
      /\ \A i \in S : \E n \in 1 .. m : q[n] = i
  BY <1>2, AscendingIs
<1>4. map = [i \in 1 .. m |-> [jar.map[q[i]] EXCEPT !.seq = i - 1]]
  BY DEF Carried
<1> HIDE DEF S, q, map
<1>5. ASSUME NEW i \in 1 .. m
      PROVE  /\ q[i] \in DOMAIN jar.map /\ q[i] \in Nat /\ map[i] = [jar.map[q[i]] EXCEPT !.seq = i - 1]
             /\ map[i] \in Cookies(setting) /\ map[i].seq = i - 1 /\ Jar!KeyOf(map[i]) = Jar!KeyOf(jar.map[q[i]])
  <2>1. q[i] \in 1 .. k
    BY <1>2, <1>3
  <2>2. q[i] \in DOMAIN jar.map /\ q[i] \in Nat
    BY <1>1, <2>1
  <2>3. jar.map[q[i]] \in Cookies(setting)
    BY <1>1, <2>2
  <2>4. i - 1 \in Nat
    BY <1>3
  <2>5. LET d == [jar.map[q[i]] EXCEPT !.seq = i - 1]
        IN  d \in Cookies(setting) /\ d.seq = i - 1 /\ Jar!KeyOf(d) = Jar!KeyOf(jar.map[q[i]])
    BY <2>3, <2>4, Renumbered
  <2>6. map[i] = [jar.map[q[i]] EXCEPT !.seq = i - 1]
    BY <1>4
  <2>7. QED
    BY <2>2, <2>5, <2>6
<1>6. map \in Seq(Cookies(setting)) /\ Len(map) = m /\ DOMAIN map = 1 .. m
  <2>1. map \in [1 .. m -> Cookies(setting)] /\ m \in Nat
    BY <1>3, <1>4, <1>5
  <2>2. QED
    BY <2>1, SeqDef, LenProperties
<1>7. InOrder(map, m)
  <2>s. m \in Nat /\ \A i \in 1 .. m : map[i].seq = i - 1
    <3>1. m \in Nat
      BY <1>2, <1>3
    <3>2. QED
      BY <1>5, <3>1
  <2>1. \A i \in 1 .. m : map[i].seq < m /\ i <= map[i].seq + 1
    BY <2>s
  <2>2. \A i, n \in 1 .. m : i < n => map[i].seq < map[n].seq
    BY <2>s
  <2>3. ASSUME NEW i \in 1 .. m, NEW n \in 1 .. m, Jar!KeyOf(map[i]) = Jar!KeyOf(map[n])
        PROVE  i = n
    <3>1. q[i] = q[n]
      BY <1>1, <1>5, <2>3 DEF InOrder
    <3>2. q[i] \in Nat
      BY <1>5
    <3>3. QED
      BY <1>3, <3>1, <3>2
  <2>4. QED
    BY <1>6, <2>1, <2>2, <2>3 DEF InOrder
<1>8. CopyOf(url, k).map = map /\ CopyOf(url, k).next = m /\ CopyOf(url, k) = JarOf(setting, map, m)
  <2>1. CopyOf(url, k) = JarOf(setting, map, m)
    BY DEF CopyOf, map, S
  <2>2. JarOf(setting, map, m).map = map /\ JarOf(setting, map, m).next = m
    BY DEF JarOf
  <2>3. QED
    BY <2>1, <2>2
<1>9. JarSound(setting, CopyOf(url, k))
  <2>1. Len(map) <= setting.cap /\ m \in Nat
    <3>2. m <= l /\ m \in Nat
      BY <1>1, <1>3
    <3>3. QED
      BY <1>1, <1>6, <3>2
  <2>2. QED
    BY <1>6, <1>7, <1>8, <2>1 DEF JarSound
<1>10. QED
  BY <1>2, <1>3, <1>5, <1>6, <1>8, <1>9 DEF S, q, map
(* The copy of the first k cookies is the copy of those before, with the   *)
(* last one when it is sent.                                               *)
LEMMA CopyGrows ==
  ASSUME JarSound(setting, jar), setting.cap \in Nat, NEW url, NEW k \in 1 .. Len(jar.map)
  PROVE  CopyOf(url, k) = IF Jar!Matches(jar.map[k], url, jarNow)
                          THEN Jar!Inserted(CopyOf(url, k - 1), jar.map[k])
                          ELSE CopyOf(url, k - 1)
<1> DEFINE n == k - 1
           S == Matched(url, n)
           m == Cardinality(S)
           q == Jar!Ascending(S)
           e == jar.map[k]
           old == Carried(url, n)
<1>1. /\ jar.map \in Seq(Cookies(setting)) /\ Len(jar.map) \in Nat /\ DOMAIN jar.map = 1 .. Len(jar.map)
      /\ \A i \in DOMAIN jar.map : jar.map[i] \in Cookies(setting)
      /\ InOrder(jar.map, jar.next)
  <2>1. jar.map \in Seq(Cookies(setting)) /\ InOrder(jar.map, jar.next)
    BY DEF JarSound
  <2>2. QED
    BY <2>1, CookieAt
<1>2. n \in Nat /\ n \in 0 .. Len(jar.map) /\ k = n + 1 /\ e \in Cookies(setting)
  BY <1>1
<1>3. /\ S \in SUBSET (1 .. n) /\ m \in 0 .. n /\ q \in [1 .. m -> S]
      /\ old \in Seq(Cookies(setting)) /\ Len(old) = m /\ DOMAIN old = 1 .. m
      /\ \A i \in 1 .. m : /\ old[i] = [jar.map[q[i]] EXCEPT !.seq = i - 1] /\ q[i] \in DOMAIN jar.map
                           /\ Jar!KeyOf(old[i]) = Jar!KeyOf(jar.map[q[i]])
      /\ JarSound(setting, CopyOf(url, n)) /\ CopyOf(url, n).map = old /\ CopyOf(url, n).next = m
  <2> HIDE DEF n
  <2>1. S \in SUBSET (1 .. n) /\ m \in 0 .. n /\ q \in [1 .. m -> S]
    BY <1>2, CopyIs
  <2>2. old \in Seq(Cookies(setting)) /\ Len(old) = m /\ DOMAIN old = 1 .. m
    BY <1>2, CopyIs
  <2>3. \A i \in 1 .. m : /\ old[i] = [jar.map[q[i]] EXCEPT !.seq = i - 1] /\ q[i] \in DOMAIN jar.map
                         /\ Jar!KeyOf(old[i]) = Jar!KeyOf(jar.map[q[i]])
    <3>1. \A i \in 1 .. m : old[i] = [jar.map[q[i]] EXCEPT !.seq = i - 1]
      BY DEF Carried
    <3>2. \A i \in 1 .. m : q[i] \in DOMAIN jar.map
      BY <1>2, CopyIs
    <3>3. ASSUME NEW i \in 1 .. m
          PROVE  Jar!KeyOf(old[i]) = Jar!KeyOf(jar.map[q[i]])
      <4>1. jar.map[q[i]] \in Cookies(setting) /\ i - 1 \in Nat
        BY <1>1, <1>2, <2>1, <3>2
      <4> DEFINE e0 == jar.map[q[i]]
      <4>2. old[i] = [e0 EXCEPT !.seq = i - 1]
        BY <3>1
      <4> HIDE DEF e0, old, q
      <4>3. Jar!KeyOf([e0 EXCEPT !.seq = i - 1]) = Jar!KeyOf(e0)
        BY <4>1, Renumbered DEF e0
      <4>4. QED
        BY <4>2, <4>3 DEF e0
    <3>4. QED
      BY <3>1, <3>2, <3>3
  <2>4. JarSound(setting, CopyOf(url, n)) /\ CopyOf(url, n).map = old /\ CopyOf(url, n).next = m
    BY <1>2, CopyIs
  <2>5. QED
    BY <2>1, <2>2, <2>3, <2>4
<1>4. \A i : i \in 1 .. k <=> (i = k \/ i \in 1 .. n)
  BY <1>2
<1>5. CASE ~Jar!Matches(e, url, jarNow)
  <2>1. Matched(url, k) = S
    BY <1>4, <1>5 DEF Matched
  <2>2. CopyOf(url, k) = CopyOf(url, n)
    BY <2>1 DEF CopyOf, Carried
  <2>3. QED
    BY <1>5, <2>2
<1>6. CASE Jar!Matches(e, url, jarNow)
  <2>1. Matched(url, k) = S \cup {k}
    BY <1>4, <1>6 DEF Matched
  <2> HIDE DEF n, S, q, old
  <2>2. /\ Cardinality(Matched(url, k)) = m + 1
        /\ Jar!Ascending(Matched(url, k)) = [i \in 1 .. m + 1 |-> IF i = m + 1 THEN k ELSE q[i]]
    <3>1. /\ Cardinality(S \cup {n + 1}) = m + 1
          /\ Jar!Ascending(S \cup {n + 1}) = [i \in 1 .. m + 1 |-> IF i = m + 1 THEN n + 1 ELSE q[i]]
      BY <1>2, <1>3, AscendingGrows DEF q
    <3>2. QED
      BY <1>2, <2>1, <3>1
  <2>3. Jar!Position(CopyOf(url, n), Jar!KeyOf(e)) = {}
    <3>1. ASSUME NEW i \in 1 .. m
          PROVE  Jar!KeyOf(old[i]) # Jar!KeyOf(e)
      <4>1. q[i] \in 1 .. n /\ q[i] # k
        BY <1>2, <1>3
      <4>2. Jar!KeyOf(jar.map[q[i]]) # Jar!KeyOf(jar.map[k])
        BY <1>1, <1>3, <4>1 DEF InOrder
      <4>3. QED
        BY <1>3, <4>2
    <3>2. QED
      BY <1>3, <3>1 DEF Jar!Position
  <2>4. Jar!Inserted(CopyOf(url, n), e) = JarOf(setting, Append(old, [e EXCEPT !.seq = m]), m + 1)
    <3> DEFINE c == CopyOf(url, n)
    <3>1. JarSound(setting, c) /\ e \in Cookies(setting) /\ Jar!Position(c, Jar!KeyOf(e)) = {}
      BY <1>2, <1>3, <2>3
    <3>2. c.map = old /\ c.next = m
      BY <1>3
    <3> HIDE DEF c, e
    <3>3. Jar!Inserted(c, e) = JarOf(setting, Append(c.map, [e EXCEPT !.seq = c.next]), c.next + 1)
      BY <3>1, TakesNew
    <3>4. QED
      BY <3>2, <3>3 DEF c, e
  <2>5. Append(old, [e EXCEPT !.seq = m]) = Carried(url, k)
    <3> DEFINE d == [e EXCEPT !.seq = m]
    <3>1. m \in Nat /\ d \in Cookies(setting)
      BY <1>2, <1>3, Renumbered
    <3> HIDE DEF d
    <3>2. Append(old, d) = [i \in 1 .. m + 1 |-> IF i = m + 1 THEN d ELSE old[i]]
      BY <1>3, <3>1, AppendIs
    <3>3. Carried(url, k) = [i \in 1 .. m + 1 |->
                               [jar.map[IF i = m + 1 THEN k ELSE q[i]] EXCEPT !.seq = i - 1]]
      BY <2>2 DEF Carried
    <3>4. ASSUME NEW i \in 1 .. m + 1
          PROVE  (IF i = m + 1 THEN d ELSE old[i]) = [jar.map[IF i = m + 1 THEN k ELSE q[i]] EXCEPT !.seq = i - 1]
      <4>1. CASE i = m + 1
        <5>1. i - 1 = m
          BY <3>1, <4>1
        <5>2. QED
          BY <4>1, <5>1 DEF d
      <4>2. CASE i # m + 1
        <5>1. i \in 1 .. m
          BY <3>1, <4>2
        <5>2. QED
          BY <1>3, <4>2, <5>1
      <4>3. QED
        BY <4>1, <4>2
    <3>5. QED
      BY <3>2, <3>3, <3>4 DEF d
  <2>6. CopyOf(url, k) = Jar!Inserted(CopyOf(url, n), e)
    BY <2>2, <2>4, <2>5 DEF CopyOf
  <2>7. QED
    BY <1>6, <2>6 DEF n
<1>7. QED
  BY <1>5, <1>6

LEMMA NoneIs ==
  ASSUME NEW f, f = [i \in 1 .. 0 |-> f[i]]
  PROVE  f = <<>>
<1>1. f \in [1 .. 0 -> {}]
  BY \A i \in 1 .. 0 : FALSE
<1>2. f \in Seq({}) /\ Len(f) = 0
  BY <1>1, SeqDef, LenProperties
<1>3. QED
  BY <1>2, EmptySeq

LEMMA CopyStarts ==
  ASSUME NEW url
  PROVE  CopyOf(url, 0) = Jar!NewJar
<1>1. Matched(url, 0) = {}
  BY DEF Matched
<1>2. Cardinality({}) = 0
  BY FS_EmptySet
<1>3. Carried(url, 0) = <<>>
  <2>1. Carried(url, 0) = [i \in 1 .. 0 |-> [jar.map[Jar!Ascending({})[i]] EXCEPT !.seq = i - 1]]
    BY <1>1, <1>2 DEF Carried
  <2>2. Carried(url, 0) = [i \in 1 .. 0 |-> Carried(url, 0)[i]]
    BY <2>1
  <2>3. QED
    BY <2>2, NoneIs
<1>4. \A n : Jar!Indices(<<>>, n) = <<>>
  <2>1. ASSUME NEW n
        PROVE  Jar!Indices(<<>>, n) = <<>>
    <3>1. {i \in DOMAIN <<>> : <<>>[i].name = n} = {}
      OBVIOUS
    <3>2. Jar!Ascending({}) \in [1 .. 0 -> {}]
      <4>1. 0 \in Nat /\ {} \in SUBSET (1 .. 0)
        OBVIOUS
      <4>2. QED
        BY <1>2, <4>1, AscendingIs
    <3>3. Jar!Ascending({}) = <<>>
      BY <3>2, NoneIs
    <3>4. QED
      BY <3>1, <3>3 DEF Jar!Indices
  <2>2. QED
    BY <2>1
<1>5. CopyOf(url, 0) = JarOf(setting, <<>>, 0)
  BY <1>1, <1>2, <1>3 DEF CopyOf
<1>6. QED
  BY <1>4, <1>5 DEF JarOf, Jar!NewJar, Jar!Names

LEMMA CopiedIs ==
  ASSUME JarSound(setting, jar), setting.cap \in Nat, NEW url
  PROVE  Jar!Copied(jar, url) = CopyOf(url, Len(jar.map))
<1> DEFINE l == Len(jar.map)
           Step(f, k) == IF k = 0 THEN Jar!NewJar
                         ELSE IF Jar!Matches(jar.map[k], url, jarNow)
                              THEN Jar!Inserted(f[k - 1], jar.map[k]) ELSE f[k - 1]
           Holds(f) == f = [k \in 0 .. l |-> Step(f, k)]
           g == [k \in 0 .. l |-> CopyOf(url, k)]
           c == Jar!Copies(jar, url)
<1>1. l \in Nat
  <2>1. jar.map \in Seq(Cookies(setting))
    BY DEF JarSound
  <2>2. QED
    BY <2>1, LenProperties
<1>2. Holds(g)
  <2>1. ASSUME NEW k \in 0 .. l
        PROVE  CopyOf(url, k) = Step(g, k)
    <3>1. CASE k = 0
      BY <3>1, CopyStarts
    <3>2. CASE k # 0
      <4>1. k \in 1 .. l /\ k - 1 \in 0 .. l
        BY <1>1, <3>2
      <4>2. g[k - 1] = CopyOf(url, k - 1)
        BY <4>1
      <4> HIDE DEF g
      <4>3. QED
        BY <3>2, <4>1, <4>2, CopyGrows
    <3>3. QED
      BY <3>1, <3>2
  <2> HIDE DEF Step
  <2>2. QED
    BY <2>1
<1>3. Holds(c)
  <2>1. c = CHOOSE f : Holds(f)
    BY DEF Jar!Copies
  <2> HIDE DEF Holds, c, g
  <2>2. QED
    BY <1>2, <2>1
<1> HIDE DEF c
<1>4. \A k \in 0 .. l : c[k] = Step(c, k)
  <2> HIDE DEF Step
  <2>1. c = [k \in 0 .. l |-> Step(c, k)]
    BY <1>3
  <2>2. QED
    BY <2>1
<1> DEFINE bad == {k \in 0 .. l : c[k] # CopyOf(url, k)}
<1>5. ASSUME bad # {}
      PROVE  FALSE
  <2>1. PICK k \in bad : \A n \in bad : k <= n
    <3>1. bad \in SUBSET Nat
      BY <1>1
    <3> HIDE DEF bad
    <3>2. QED
      BY <1>5, <3>1, LeastExists
  <2>2. k \in 0 .. l /\ c[k] # CopyOf(url, k)
    BY <2>1
  <2>3. k # 0
    BY <1>4, <2>2, CopyStarts
  <2>4. k \in 1 .. l /\ k - 1 \in 0 .. l /\ k - 1 \notin bad
    <3>1. k \in 1 .. l /\ k - 1 \in 0 .. l /\ ~(k <= k - 1)
      BY <1>1, <2>2, <2>3
    <3> HIDE DEF bad
    <3>2. QED
      BY <2>1, <3>1
  <2>5. c[k - 1] = CopyOf(url, k - 1)
    BY <2>4
  <2>6. c[k] = CopyOf(url, k)
    BY <1>4, <2>2, <2>3, <2>4, <2>5, CopyGrows
  <2>7. QED
    BY <2>2, <2>6
<1>6. l \in 0 .. l
  BY <1>1
<1>7. c[l] = CopyOf(url, l)
  BY <1>5, <1>6
<1>8. QED
  BY <1>7 DEF Jar!Copied, c

-----------------------------------------------------------------------------
(* What a request carries stands in an order of its own.                   *)
Carries(j, url) == {i \in DOMAIN j.map : Jar!Matches(j.map[i], url, jarNow)}
Sending(j, url) == {p \in Carries(j, url) \X Carries(j, url) : Jar!Before(j.map[p[1]], j.map[p[2]])}

LEMMA SendsInOrder ==
  ASSUME NEW s, NEW j, JarSound(s, j), NEW url
  PROVE  LET S == Carries(j, url)
             R == Sending(j, url)
             q == Jar!Ranked(S, R)
         IN  /\ IsFiniteSet(S) /\ S \in SUBSET DOMAIN j.map /\ Orders(R, S)
             /\ Jar!Header(j, url, jarNow)
                  = [k \in 1 .. Cardinality(S) |-> [name |-> j.map[q[k]].name, value |-> j.map[q[k]].value]]
<1> DEFINE S == Carries(j, url)
           R == Sending(j, url)
           q == Jar!Ranked(S, R)
           length(i) == Jar!PathLength(j.map[i].path)
<1>1. /\ Len(j.map) \in Nat /\ DOMAIN j.map = 1 .. Len(j.map) /\ InOrder(j.map, j.next)
      /\ \A i \in DOMAIN j.map : j.map[i] \in CookieRec(s)
  <2>1. j.map \in Seq(Cookies(s)) /\ InOrder(j.map, j.next)
    BY DEF JarSound
  <2>2. QED
    BY <2>1, CookieAt
<1>2. S \in SUBSET DOMAIN j.map
  BY DEF Carries
<1>3. IsFiniteSet(S)
  <2>1. IsFiniteSet(DOMAIN j.map)
    <3>1. Len(j.map) \in Int /\ 1 \in Int /\ DOMAIN j.map = 1 .. Len(j.map)
      BY <1>1
    <3>2. QED
      BY <3>1, FS_Interval
  <2> HIDE DEF S
  <2>2. QED
    BY <1>2, <2>1, FS_Subset
<1>4. \A i \in S : length(i) \in Int /\ j.map[i].seq \in Nat
  <2>1. ASSUME NEW i \in S
        PROVE  length(i) \in Int /\ j.map[i].seq \in Nat
    <3>1. j.map[i].path \in Seq(Parts(s)) /\ j.map[i].seq \in Nat
      BY <1>1, <1>2 DEF CookieRec
    <3>2. Len(j.map[i].path) \in Nat
      BY <3>1, LenProperties
    <3>3. QED
      BY <3>1, <3>2 DEF Jar!PathLength
  <2>2. QED
    BY <2>1
<1> HIDE DEF length
<1>5. ASSUME NEW i \in S, NEW k \in S
      PROVE  <<i, k>> \in R <=> \/ length(i) > length(k)
                                \/ length(i) = length(k) /\ j.map[i].seq <= j.map[k].seq
  BY DEF Sending, Jar!Before, length
<1>6. ASSUME NEW i \in S, NEW k \in S, j.map[i].seq = j.map[k].seq
      PROVE  i = k
  <2>1. i \in 1 .. Len(j.map) /\ k \in 1 .. Len(j.map)
    BY <1>1, <1>2
  <2>2. i < k => j.map[i].seq < j.map[k].seq
    BY <1>1, <2>1 DEF InOrder
  <2>3. k < i => j.map[k].seq < j.map[i].seq
    BY <1>1, <2>1 DEF InOrder
  <2>4. i < k \/ k < i \/ i = k
    BY <1>1, <2>1
  <2>5. QED
    BY <1>4, <1>6, <2>2, <2>3, <2>4
<1> HIDE DEF S, R
<1>7. Orders(R, S)
  <2>1. \A i \in S : <<i, i>> \in R
    BY <1>4, <1>5
  <2>2. \A i, k \in S : <<i, k>> \in R \/ <<k, i>> \in R
    <3>1. ASSUME NEW i \in S, NEW k \in S
          PROVE  <<i, k>> \in R \/ <<k, i>> \in R
      <4>1. length(i) \in Int /\ length(k) \in Int /\ j.map[i].seq \in Nat /\ j.map[k].seq \in Nat
        BY <1>4
      <4>2. \/ length(i) > length(k) \/ (length(i) = length(k) /\ j.map[i].seq <= j.map[k].seq)
            \/ length(k) > length(i) \/ (length(k) = length(i) /\ j.map[k].seq <= j.map[i].seq)
        BY <4>1
      <4>3. QED
        BY <1>5, <4>2
    <3>2. QED
      BY <3>1
  <2>3. \A i, k \in S : <<i, k>> \in R /\ <<k, i>> \in R => i = k
    <3>1. ASSUME NEW i \in S, NEW k \in S, <<i, k>> \in R, <<k, i>> \in R
          PROVE  j.map[i].seq = j.map[k].seq
      BY <1>4, <1>5, <3>1
    <3>2. QED
      BY <1>6, <3>1
  <2>4. \A i, k, l \in S : <<i, k>> \in R /\ <<k, l>> \in R => <<i, l>> \in R
    <3>1. ASSUME NEW i \in S, NEW k \in S, NEW l \in S, <<i, k>> \in R, <<k, l>> \in R
          PROVE  <<i, l>> \in R
      <4>1. /\ length(i) \in Int /\ length(k) \in Int /\ length(l) \in Int
            /\ j.map[i].seq \in Nat /\ j.map[k].seq \in Nat /\ j.map[l].seq \in Nat
        BY <1>4
      <4>2. /\ length(i) > length(k) \/ (length(i) = length(k) /\ j.map[i].seq <= j.map[k].seq)
            /\ length(k) > length(l) \/ (length(k) = length(l) /\ j.map[k].seq <= j.map[l].seq)
        BY <1>5, <3>1
      <4>3. length(i) > length(l) \/ (length(i) = length(l) /\ j.map[i].seq <= j.map[l].seq)
        BY <4>1, <4>2
      <4>4. QED
        BY <1>5, <4>3
    <3>2. QED
      BY <3>1
  <2>5. QED
    BY <2>1, <2>2, <2>3, <2>4 DEF Orders
<1>8. Jar!Header(j, url, jarNow)
        = [k \in 1 .. Cardinality(S) |-> [name |-> j.map[q[k]].name, value |-> j.map[q[k]].value]]
  <2>1. DOMAIN q = 1 .. Cardinality(S)
    BY <1>3, <1>7, RankedIs
  <2>2. Jar!Header(j, url, jarNow)
          = [k \in DOMAIN q |-> [name |-> j.map[q[k]].name, value |-> j.map[q[k]].value]]
    BY DEF Jar!Header, S, R, Carries, Sending
  <2> HIDE DEF q
  <2>3. QED
    BY <2>1, <2>2
<1>9. QED
  BY <1>2, <1>3, <1>7, <1>8 DEF S, R

LEMMA CopySends ==
  ASSUME JarSound(setting, jar), setting.cap \in Nat, NEW url
  PROVE  Jar!Header(CopyOf(url, Len(jar.map)), url, jarNow) = Jar!Header(jar, url, jarNow)
<1> DEFINE l == Len(jar.map)
           c == CopyOf(url, l)
           S == Carries(jar, url)
           R == Sending(jar, url)
           T == Carries(c, url)
           Q == Sending(c, url)
           m == Cardinality(S)
           q == Jar!Ascending(S)
<1>1. /\ l \in Nat /\ l \in 0 .. l /\ DOMAIN jar.map = 1 .. l /\ InOrder(jar.map, jar.next)
      /\ \A i \in DOMAIN jar.map : jar.map[i] \in Cookies(setting) /\ jar.map[i] \in CookieRec(setting)
  <2>1. jar.map \in Seq(Cookies(setting)) /\ InOrder(jar.map, jar.next)
    BY DEF JarSound
  <2>2. QED
    BY <2>1, CookieAt
<1>2. S = Matched(url, l)
  BY <1>1 DEF Carries, Matched
<1>3. /\ S \in SUBSET (1 .. l) /\ m \in 0 .. l /\ q \in [1 .. m -> S]
      /\ \A i, n \in 1 .. m : i < n => q[i] < q[n]
      /\ \A i \in S : \E n \in 1 .. m : q[n] = i
  BY <1>1, <1>2, CopyIs
<1>4. JarSound(setting, c) /\ c.map = Carried(url, l) /\ DOMAIN c.map = 1 .. m
  BY <1>1, <1>2, CopyIs
<1>5. \A i \in 1 .. m : c.map[i] = [jar.map[q[i]] EXCEPT !.seq = i - 1]
  BY <1>2, <1>4 DEF Carried
<1>6. Jar!Ascending(Matched(url, l)) = q
  BY <1>2
<1> HIDE DEF c, S, q
<1>7. ASSUME NEW i \in 1 .. m
      PROVE  /\ q[i] \in S /\ q[i] \in DOMAIN jar.map /\ c.map[i].seq = i - 1
             /\ c.map[i].name = jar.map[q[i]].name /\ c.map[i].value = jar.map[q[i]].value
             /\ c.map[i].secure = jar.map[q[i]].secure /\ c.map[i].expires = jar.map[q[i]].expires
             /\ c.map[i].domain = jar.map[q[i]].domain /\ c.map[i].hostOnly = jar.map[q[i]].hostOnly
             /\ c.map[i].path = jar.map[q[i]].path
  <2> DEFINE e == jar.map[q[i]]
  <2>1. q[i] \in S /\ q[i] \in DOMAIN jar.map /\ e \in Cookies(setting) /\ i - 1 \in Nat
    <3>1. q[i] \in S /\ q[i] \in DOMAIN jar.map
      BY <1>1, <1>3
    <3>2. i - 1 \in Nat
      BY <1>1, <1>3
    <3>3. QED
      BY <1>1, <3>1, <3>2
  <2>2. c.map[i] = [e EXCEPT !.seq = i - 1]
    BY <1>5
  <2> HIDE DEF e
  <2>3. LET d == [e EXCEPT !.seq = i - 1]
        IN  /\ d.seq = i - 1 /\ d.name = e.name /\ d.value = e.value /\ d.secure = e.secure
            /\ d.expires = e.expires /\ d.domain = e.domain /\ d.hostOnly = e.hostOnly /\ d.path = e.path
    BY <2>1, Renumbered
  <2>4. QED
    BY <2>1, <2>2, <2>3 DEF e
<1>8. \A i \in S : Jar!Matches(jar.map[i], url, jarNow)
  BY DEF S, Carries
<1>9. T = 1 .. m
  <2>1. \A i \in 1 .. m : Jar!Matches(c.map[i], url, jarNow)
    <3>1. ASSUME NEW i \in 1 .. m
          PROVE  Jar!Matches(c.map[i], url, jarNow)
      <4>1. Jar!Matches(jar.map[q[i]], url, jarNow)
        BY <1>7, <1>8
      <4>2. QED
        BY <1>7, <4>1 DEF Jar!Matches
    <3>2. QED
      BY <3>1
  <2>2. QED
    BY <1>4, <2>1 DEF Carries
<1>10. ASSUME NEW i \in 1 .. m, NEW k \in 1 .. m
       PROVE  <<i, k>> \in Q <=> <<q[i], q[k]>> \in R
  <2>1. c.map[i].seq <= c.map[k].seq <=> jar.map[q[i]].seq <= jar.map[q[k]].seq
    <3>1. jar.map[q[i]].seq \in Nat /\ jar.map[q[k]].seq \in Nat
      BY <1>1, <1>7 DEF CookieRec
    <3>2. i < k => jar.map[q[i]].seq < jar.map[q[k]].seq
      BY <1>1, <1>3, <1>7 DEF InOrder
    <3>3. k < i => jar.map[q[k]].seq < jar.map[q[i]].seq
      BY <1>1, <1>3, <1>7 DEF InOrder
    <3>4. c.map[i].seq = i - 1 /\ c.map[k].seq = k - 1 /\ i \in Int /\ k \in Int
      BY <1>7
    <3>5. i = k => q[i] = q[k]
      OBVIOUS
    <3>6. QED
      BY <3>1, <3>2, <3>3, <3>4, <3>5
  <2>2. Jar!Before(c.map[i], c.map[k]) <=> Jar!Before(jar.map[q[i]], jar.map[q[k]])
    BY <1>7, <2>1 DEF Jar!Before
  <2>3. <<i, k>> \in Q <=> Jar!Before(c.map[i], c.map[k])
    BY <1>9 DEF Sending
  <2>4. <<q[i], q[k]>> \in R <=> Jar!Before(jar.map[q[i]], jar.map[q[k]])
    BY <1>7 DEF Sending, S
  <2>5. QED
    BY <2>2, <2>3, <2>4
<1>11. q \in Bijection(T, S)
  <2>1. \A i, k \in T : q[i] = q[k] => i = k
    <3>1. ASSUME NEW i \in 1 .. m, NEW k \in 1 .. m, q[i] = q[k]
          PROVE  i = k
      <4>1. q[i] \in Nat /\ q[k] \in Nat
        BY <1>1, <1>7
      <4>2. i < k => q[i] < q[k]
        BY <1>3
      <4>3. k < i => q[k] < q[i]
        BY <1>3
      <4>4. QED
        BY <3>1, <4>1, <4>2, <4>3
    <3>2. QED
      BY <1>9, <3>1
  <2> HIDE DEF T
  <2>2. QED
    BY <1>3, <1>9, <2>1 DEF Bijection, Injection, Surjection, IsInjective
<1>12. /\ IsFiniteSet(S) /\ Orders(R, S) /\ IsFiniteSet(T) /\ Orders(Q, T)
       /\ Jar!Header(jar, url, jarNow)
            = [k \in 1 .. m |-> [name |-> jar.map[Jar!Ranked(S, R)[k]].name,
                                 value |-> jar.map[Jar!Ranked(S, R)[k]].value]]
       /\ Jar!Header(c, url, jarNow)
            = [k \in 1 .. Cardinality(T) |-> [name |-> c.map[Jar!Ranked(T, Q)[k]].name,
                                              value |-> c.map[Jar!Ranked(T, Q)[k]].value]]
  <2>1. IsFiniteSet(S) /\ Orders(R, S)
    BY SendsInOrder DEF S
  <2>2. IsFiniteSet(T) /\ Orders(Q, T)
    BY <1>4, SendsInOrder
  <2>3. Jar!Header(jar, url, jarNow)
            = [k \in 1 .. m |-> [name |-> jar.map[Jar!Ranked(S, R)[k]].name,
                                 value |-> jar.map[Jar!Ranked(S, R)[k]].value]]
    BY SendsInOrder DEF S
  <2>4. Jar!Header(c, url, jarNow)
            = [k \in 1 .. Cardinality(T) |-> [name |-> c.map[Jar!Ranked(T, Q)[k]].name,
                                              value |-> c.map[Jar!Ranked(T, Q)[k]].value]]
    BY <1>4, SendsInOrder
  <2>5. QED
    BY <2>1, <2>2, <2>3, <2>4
<1> HIDE DEF R, Q, T
<1>13. Cardinality(T) = m /\ \A k \in 1 .. m : Jar!Ranked(S, R)[k] = q[Jar!Ranked(T, Q)[k]]
  <2>1. \A i, k \in T : <<i, k>> \in Q <=> <<q[i], q[k]>> \in R
    BY <1>9, <1>10
  <2>2. QED
    BY <1>11, <1>12, <2>1, SameOrder
<1>14. \A k \in 1 .. m : Jar!Ranked(T, Q)[k] \in 1 .. m
  <2>1. Jar!Ranked(T, Q) \in [1 .. Cardinality(T) -> T]
    BY <1>12, RankedIs
  <2>2. QED
    BY <1>9, <1>13, <2>1
<1>15. ASSUME NEW k \in 1 .. m
       PROVE  /\ c.map[Jar!Ranked(T, Q)[k]].name = jar.map[Jar!Ranked(S, R)[k]].name
              /\ c.map[Jar!Ranked(T, Q)[k]].value = jar.map[Jar!Ranked(S, R)[k]].value
  BY <1>7, <1>13, <1>14
<1>16. QED
  BY <1>12, <1>13, <1>15 DEF c

-----------------------------------------------------------------------------
(* The jar of a session, whatever is set, copied or over.                  *)
JarInv ==
  /\ setting \in Settings
  /\ jarNow \in Nat /\ jarNow <= setting.lastTick + 1
  /\ JarSound(setting, jar) /\ jar.next <= setting.made

LEMMA SettingFits ==
  ASSUME setting \in Settings
  PROVE  WellSet(setting) /\ setting.cap \in Nat
BY ScenesAssumption DEF Jar!JarAssumption, Jar!NoHost, Jar!NoPath, WellSet, Jar!Range, Range

LEMMA EmptyJar ==
  ASSUME Jar!Init
  PROVE  JarInv
<1>1. setting \in Settings /\ jar = Jar!NewJar /\ jarNow = 1
  BY DEF Jar!Init
<1>2. WellSet(setting) /\ setting.cap \in Nat
  BY <1>1, SettingFits
<1>3. jar = JarOf(setting, <<>>, 0)
  <2>1. CopyOf(jarNow, 0) = Jar!NewJar /\ Matched(jarNow, 0) = {}
    BY CopyStarts DEF Matched
  <2>2. Carried(jarNow, 0) = <<>>
    <3>1. CopyOf(jarNow, 0).map = Carried(jarNow, 0) /\ Jar!NewJar.map = <<>>
      BY DEF CopyOf, JarOf, Jar!NewJar
    <3>2. QED
      BY <2>1, <3>1
  <2>3. Cardinality({}) = 0
    BY FS_EmptySet
  <2>4. QED
    BY <1>1, <2>1, <2>2, <2>3 DEF CopyOf
<1>4. jar.map = <<>> /\ jar.next = 0
  BY <1>3 DEF JarOf
<1>5. <<>> \in Seq(Cookies(setting)) /\ Len(<<>>) = 0 /\ DOMAIN <<>> = {}
  BY EmptySeq
<1>6. InOrder(<<>>, 0)
  BY <1>5 DEF InOrder
<1>7. JarSound(setting, jar)
  <2>1. jar = JarOf(setting, jar.map, jar.next)
    BY <1>3, <1>4
  <2>2. jar.map \in Seq(Cookies(setting)) /\ Len(jar.map) = 0
    BY <1>4, <1>5
  <2>3. Len(jar.map) <= setting.cap /\ jar.next \in Nat
    BY <1>2, <1>4, <2>2
  <2>4. InOrder(jar.map, jar.next)
    BY <1>4, <1>6
  <2>5. QED
    BY <2>1, <2>2, <2>3, <2>4 DEF JarSound
<1>8. setting.lastTick \in Nat /\ setting.made \in Nat
  BY <1>2 DEF WellSet
<1>9. 1 <= setting.lastTick + 1 /\ 0 <= setting.made
  BY <1>8
<1>10. QED
  BY <1>1, <1>4, <1>7, <1>9 DEF JarInv

LEMMA LineFits ==
  ASSUME JarInv, NEW url \in Jar!Urls \cup {Jar!Flat},
         NEW line \in Jar!Lines \cup Jar!LinesOf({Jar!NoPath}, {jarNow + 1, Jar!Forever})
  PROVE  Jar!Entry(url, line) \in Cookies(setting)
<1>1. WellSet(setting) /\ jarNow \in Nat /\ setting.lastTick \in Nat
  BY SettingFits DEF JarInv, WellSet
<1>2. {0, jarNow + 1, Jar!Forever} \in SUBSET Nat /\ {jarNow + 1, Jar!Forever} \in SUBSET Nat
  BY <1>1 DEF Jar!Forever, Jar!LastNow
<1>3. setting.paths \cup {<<>>} \in SUBSET (setting.paths \cup {<<>>}) /\ {<<>>} \in SUBSET (setting.paths \cup {<<>>})
  OBVIOUS
<1>4. \/ line \in Jar!LinesOf(setting.paths \cup {<<>>}, {0, jarNow + 1, Jar!Forever})
      \/ line \in Jar!LinesOf({<<>>}, {jarNow + 1, Jar!Forever})
  BY DEF Jar!Lines, Jar!Paths, Jar!NoPath
<1>5. QED
  BY <1>1, <1>2, <1>3, <1>4, EntryFits

(* What a line makes of the jar.                                           *)
LEMMA TakesLine ==
  ASSUME JarInv, NEW e \in Cookies(setting), NEW r, r = Jar!Inserted(Jar!Room(jar), e)
  PROVE  /\ JarSound(setting, r) /\ r.next \in {jar.next, jar.next + 1}
         /\ \A i \in DOMAIN Jar!Room(jar).map :
              i \in DOMAIN r.map /\ Jar!KeyOf(r.map[i]) = Jar!KeyOf(Jar!Room(jar).map[i])
         /\ \E k \in DOMAIN r.map : r.map[k] = [e EXCEPT !.seq = r.map[k].seq]
<1>1. WellSet(setting) /\ setting.cap \in Nat /\ JarSound(setting, jar) /\ jarNow \in Nat
  BY SettingFits DEF JarInv
<1> DEFINE room == Jar!Room(jar)
<1>2. JarSound(setting, room) /\ Len(room.map) < setting.cap /\ room.next = jar.next
  BY <1>1, MakesRoom
<1> HIDE DEF room
<1>3. r = Jar!Inserted(room, e)
  BY DEF room
<1>4. /\ JarSound(setting, r) /\ r.next \in {room.next, room.next + 1}
      /\ \A i \in DOMAIN room.map : i \in DOMAIN r.map /\ Jar!KeyOf(r.map[i]) = Jar!KeyOf(room.map[i])
      /\ \E k \in DOMAIN r.map : r.map[k] = [e EXCEPT !.seq = r.map[k].seq]
  BY <1>1, <1>2, <1>3, Inserts
<1>5. QED
  BY <1>2, <1>4 DEF room

LEMMA JarSteps ==
  ASSUME JarInv, [Jar!Next]_jarVars
  PROVE  JarInv'
<1> USE DEF JarInv
<1>1. ASSUME NEW url \in Jar!Urls \cup {Jar!Flat}, NEW line \in Jar!Lines, Jar!Ingest(url, line)
      PROVE  JarInv'
  <2> DEFINE e == Jar!Entry(url, line)
             r == Jar!Inserted(Jar!Room(jar), e)
  <2>1. jar.next < setting.made /\ jar' = r /\ setting' = setting /\ jarNow' = jarNow
    BY <1>1 DEF Jar!Ingest, Jar!Ingested, Jar!MaxSeq
  <2>2. e \in Cookies(setting)
    BY LineFits
  <2> HIDE DEF e
  <2>3. JarSound(setting, r) /\ r.next \in {jar.next, jar.next + 1}
    BY <2>2, TakesLine
  <2>4. jar.next \in Nat /\ setting.made \in Nat
    BY SettingFits DEF JarSound, WellSet
  <2> HIDE DEF r
  <2>5. QED
    BY <2>1, <2>3, <2>4
<1>2. ASSUME NEW url \in Jar!Urls, Jar!Copy(url)
      PROVE  JarInv'
  <2> DEFINE l == Len(jar.map)
             c == CopyOf(url, l)
  <2>1. jar' = Jar!Copied(jar, url) /\ setting' = setting /\ jarNow' = jarNow
    BY <1>2 DEF Jar!Copy
  <2>2. WellSet(setting) /\ setting.cap \in Nat /\ jar.map \in Seq(Cookies(setting)) /\ jar.next \in Nat
        /\ InOrder(jar.map, jar.next)
    BY SettingFits DEF JarSound
  <2>3. l \in Nat /\ l \in 0 .. l /\ DOMAIN jar.map = 1 .. l /\ \A i \in 1 .. l : jar.map[i].seq \in Nat
    <3>1. l \in Nat /\ DOMAIN jar.map = 1 .. l /\ \A i \in DOMAIN jar.map : jar.map[i] \in CookieRec(setting)
      BY <2>2, CookieAt
    <3>2. \A i \in 1 .. l : jar.map[i].seq \in Nat
      BY <3>1 DEF CookieRec
    <3>3. QED
      BY <3>1, <3>2
  <2>4. jar' = c
    BY <2>1, <2>2, CopiedIs
  <2>5. JarSound(setting, c) /\ c.next \in 0 .. l
    <3>1. JarSound(setting, c) /\ Cardinality(Matched(url, l)) \in 0 .. l
      BY <2>2, <2>3, CopyIs
    <3>2. c.next = Cardinality(Matched(url, l))
      BY DEF CopyOf, JarOf
    <3>3. QED
      BY <3>1, <3>2
  <2>6. l <= jar.next
    <3>1. CASE l = 0
      BY <2>2, <3>1
    <3>2. CASE l # 0
      <4>1. l \in 1 .. l
        BY <2>3, <3>2
      <4>2. jar.map[l].seq < jar.next /\ l <= jar.map[l].seq + 1 /\ jar.map[l].seq \in Nat
        BY <2>2, <2>3, <4>1 DEF InOrder
      <4>3. QED
        BY <2>2, <2>3, <4>2
    <3>3. QED
      BY <3>1, <3>2
  <2>7. setting.made \in Nat
    BY <2>2 DEF WellSet
  <2> HIDE DEF c
  <2>8. c.next <= setting.made
    BY <2>2, <2>3, <2>5, <2>6, <2>7
  <2>9. QED
    BY <2>1, <2>4, <2>5, <2>8
<1>3. ASSUME Jar!Advance
      PROVE  JarInv'
  <2>1. jarNow < setting.lastTick /\ jarNow' = jarNow + 1 /\ setting' = setting /\ jar' = jar
    BY <1>3 DEF Jar!Advance, Jar!LastNow
  <2>2. setting.lastTick \in Nat
    BY SettingFits DEF WellSet
  <2>3. QED
    BY <2>1, <2>2
<1>4. CASE UNCHANGED jarVars
  BY <1>4 DEF jarVars
<1>5. QED
  BY <1>1, <1>2, <1>3, <1>4 DEF Jar!Next

-----------------------------------------------------------------------------
LEMMA LeaksNot ==
  ASSUME JarInv
  PROVE  Jar!NoLeak
<1>1. /\ \A i \in DOMAIN jar.map : jar.map[i] \in CookieRec(setting) /\ AtHome(setting, jar.map[i])
      /\ WellSet(setting)
  <2>1. jar.map \in Seq(Cookies(setting))
    BY DEF JarInv, JarSound
  <2>2. QED
    BY <2>1, CookieAt, SettingFits DEF JarInv, Cookies
<1>2. ASSUME NEW i \in DOMAIN jar.map, NEW url \in Jar!Urls, Jar!Matches(jar.map[i], url, jarNow)
      PROVE  LET e == jar.map[i]
                 Inside(h) == h = e.domain \/ Jar!Within(h, e.domain)
             IN  /\ e.from = url.host \/ (~e.hostOnly /\ Inside(e.from) /\ Inside(url.host))
                 /\ e.secure => url.secure
  <2> DEFINE e == jar.map[i]
  <2>1. AtHome(setting, e) /\ e.hostOnly \in BOOLEAN
    BY <1>1 DEF CookieRec
  <2>2. url.host # ""
    BY <1>1 DEF Jar!Urls, Jar!Hosts, WellSet
  <2>3. Jar!DomainMatches(url.host, e.domain, e.hostOnly) /\ (e.secure => url.secure)
    BY <1>2, <2>2 DEF Jar!Matches, Jar!NoHost
  <2> HIDE DEF e
  <2>4. CASE e.hostOnly
    BY <2>1, <2>3, <2>4 DEF AtHome, Jar!DomainMatches, e
  <2>5. CASE ~e.hostOnly
    <3>1. e.from = e.domain \/ Jar!Within(e.from, e.domain)
      BY <2>1, <2>5 DEF AtHome, Jar!Within
    <3>2. url.host = e.domain \/ Jar!Within(url.host, e.domain)
      BY <2>3 DEF Jar!DomainMatches
    <3>3. QED
      BY <2>3, <2>5, <3>1, <3>2 DEF e
  <2>6. QED
    BY <2>1, <2>4, <2>5
<1>3. QED
  BY <1>2 DEF Jar!NoLeak

LEMMA SentIsFound ==
  ASSUME NEW s, NEW j, JarSound(s, j), NEW url, NEW k \in DOMAIN j.map, Jar!Matches(j.map[k], url, jarNow)
  PROVE  \E i \in DOMAIN Jar!Header(j, url, jarNow) :
            Jar!Header(j, url, jarNow)[i] = [name |-> j.map[k].name, value |-> j.map[k].value]
<1> DEFINE S == Carries(j, url)
           R == Sending(j, url)
           q == Jar!Ranked(S, R)
           m == Cardinality(S)
           i == Rank(S, R, k)
<1>1. k \in S
  BY DEF Carries
<1>2. IsFiniteSet(S) /\ Orders(R, S)
  BY SendsInOrder
<1>3. Jar!Header(j, url, jarNow)
        = [n \in 1 .. m |-> [name |-> j.map[q[n]].name, value |-> j.map[q[n]].value]]
  BY SendsInOrder
<1> HIDE DEF S, R
<1>4. i \in 1 .. m /\ q[i] = k
  BY <1>1, <1>2, RankGrows, RankedIs
<1> HIDE DEF q, i, m
<1>5. QED
  BY <1>3, <1>4

LEMMA CookieComesBack ==
  ASSUME JarInv
  PROVE  Jar!ComesBack
<1>1. ASSUME NEW url \in Jar!Urls, NEW line \in Jar!LinesOf({Jar!NoPath}, {jarNow + 1, Jar!Forever}),
             line.secure => url.secure
      PROVE  \E i \in DOMAIN Jar!Header(Jar!Ingested(jar, url, line), url, jarNow) :
               Jar!Header(Jar!Ingested(jar, url, line), url, jarNow)[i] = [name |-> line.name, value |-> line.value]
  <2> DEFINE e == Jar!Entry(url, line)
             r == Jar!Inserted(Jar!Room(jar), e)
  <2>1. e \in Cookies(setting)
    BY LineFits
  <2>2. WellSet(setting) /\ jarNow \in Nat /\ jarNow <= setting.lastTick + 1 /\ setting.lastTick \in Nat
    BY SettingFits DEF JarInv, WellSet
  <2>3. /\ line.path = <<>> /\ line.expires \in {jarNow + 1, Jar!Forever}
        /\ url.host \in setting.hosts /\ url.path \in setting.paths /\ url.path # <<>> /\ url.host # ""
    BY <2>2 DEF Jar!LinesOf, Jar!Urls, Jar!Hosts, Jar!Paths, Jar!NoPath, WellSet
  <2>4. /\ e.name = line.name /\ e.value = line.value /\ e.secure = line.secure /\ e.expires = line.expires
        /\ e.domain = IF Jar!DomainTaken(url, line) THEN line.domain ELSE url.host
        /\ e.hostOnly = ~Jar!DomainTaken(url, line)
        /\ e.path = Jar!ParentPath(url.path)
    BY <2>3 DEF Jar!Entry, Jar!PathTaken, Jar!NoPath
  <2>5. e.expires > jarNow
    <3>1. jarNow + 1 > jarNow /\ setting.lastTick + 10 > jarNow
      BY <2>2
    <3>2. line.expires \in {jarNow + 1, setting.lastTick + 10}
      BY <2>3 DEF Jar!Forever, Jar!LastNow
    <3> HIDE DEF e
    <3>3. QED
      BY <2>4, <3>1, <3>2
  <2>6. Jar!DomainMatches(url.host, e.domain, e.hostOnly)
    <3>1. CASE Jar!DomainTaken(url, line)
      BY <2>4, <3>1 DEF Jar!DomainTaken, Jar!DomainMatches
    <3>2. CASE ~Jar!DomainTaken(url, line)
      BY <2>4, <3>2 DEF Jar!DomainMatches
    <3>3. QED
      BY <3>1, <3>2
  <2>7. Jar!PathMatches(Jar!ParentPath(url.path), e.path)
    BY <2>4 DEF Jar!PathMatches
  <2> HIDE DEF e
  <2>8. Jar!Matches(e, url, jarNow)
    BY <1>1, <2>3, <2>4, <2>5, <2>6, <2>7 DEF Jar!Matches, Jar!NoHost
  <2>9. JarSound(setting, r) /\ \E k \in DOMAIN r.map : r.map[k] = [e EXCEPT !.seq = r.map[k].seq]
    BY <2>1, TakesLine
  <2> HIDE DEF r
  <2>10. PICK k \in DOMAIN r.map : r.map[k] = [e EXCEPT !.seq = r.map[k].seq]
    BY <2>9
  <2>11. r.map[k].seq \in Nat
    <3>1. r.map \in Seq(Cookies(setting))
      BY <2>9 DEF JarSound
    <3>2. QED
      BY <3>1, CookieAt DEF CookieRec
  <2> DEFINE n == r.map[k].seq
  <2>12. LET d == [e EXCEPT !.seq = n]
         IN  /\ d.name = e.name /\ d.value = e.value /\ d.secure = e.secure /\ d.expires = e.expires
             /\ d.domain = e.domain /\ d.hostOnly = e.hostOnly /\ d.path = e.path
    BY <2>1, <2>11, Renumbered
  <2>13. /\ r.map[k].name = e.name /\ r.map[k].value = e.value /\ r.map[k].secure = e.secure
         /\ r.map[k].expires = e.expires /\ r.map[k].domain = e.domain
         /\ r.map[k].hostOnly = e.hostOnly /\ r.map[k].path = e.path
    BY <2>10, <2>12
  <2>14. Jar!Matches(r.map[k], url, jarNow)
    BY <2>8, <2>13 DEF Jar!Matches
  <2>15. \E i \in DOMAIN Jar!Header(r, url, jarNow) :
           Jar!Header(r, url, jarNow)[i] = [name |-> r.map[k].name, value |-> r.map[k].value]
    BY <2>9, <2>14, SentIsFound
  <2>16. r = Jar!Ingested(jar, url, line)
    BY DEF Jar!Ingested, r, e
  <2>17. QED
    BY <2>4, <2>13, <2>15, <2>16
<1>2. QED
  BY <1>1 DEF Jar!ComesBack

LEMMA CopySendsTheSame ==
  ASSUME JarInv
  PROVE  Jar!CopySendsSame
<1>1. JarSound(setting, jar) /\ setting.cap \in Nat
  BY SettingFits DEF JarInv
<1>2. \A url : Jar!Header(Jar!Copied(jar, url), url, jarNow) = Jar!Header(jar, url, jarNow)
  BY <1>1, CopiedIs, CopySends
<1>3. QED
  BY <1>2 DEF Jar!CopySendsSame

LEMMA IndexFollows ==
  ASSUME JarInv
  PROVE  Jar!IndexAgrees
<1>1. /\ jar = JarOf(setting, jar.map, jar.next) /\ Len(jar.map) <= setting.cap
      /\ jar.next \in Nat /\ InOrder(jar.map, jar.next) /\ jar.next <= setting.made /\ setting.made \in Nat
  BY SettingFits DEF JarInv, JarSound, WellSet
<1>2. jar.byName = [n \in setting.names |-> Jar!Indices(jar.map, n)]
  BY <1>1, JarParts
<1>3. Jar!TypeOK
  BY <1>1, <1>2 DEF Jar!TypeOK, InOrder, Jar!MaxSeq, Jar!JarCap, Jar!Names
<1>4. QED
  BY <1>1, <1>2, <1>3 DEF Jar!IndexAgrees, InOrder, Jar!Names

LEMMA SoonestIsLeft ==
  ASSUME JarInv
  PROVE  Jar!EvictsSoonest
<1> DEFINE room == Jar!Room(jar)
<1>1. /\ WellSet(setting) /\ JarSound(setting, jar) /\ jarNow \in Nat /\ Jar!JarCap = setting.cap
  BY SettingFits DEF JarInv, Jar!JarCap
<1>2. \A i \in DOMAIN jar.map : jar.map[i].expires > jarNow =>
              \/ \E k \in DOMAIN room.map : room.map[k] = jar.map[i]
              \/ Len(jar.map) = setting.cap /\ ~Jar!Expired(jar) /\ i = Jar!Victim(jar.map)
  BY <1>1, MakesRoom
<1>3. ASSUME NEW url \in Jar!Urls \cup {Jar!Flat}, NEW line \in Jar!Lines, NEW i \in DOMAIN jar.map,
             jar.map[i].expires > jarNow,
             \A k \in DOMAIN Jar!Inserted(room, Jar!Entry(url, line)).map :
               Jar!KeyOf(Jar!Inserted(room, Jar!Entry(url, line)).map[k]) # Jar!KeyOf(jar.map[i])
      PROVE  Len(jar.map) = setting.cap /\ ~Jar!Expired(jar) /\ i = Jar!Victim(jar.map)
  <2> DEFINE e == Jar!Entry(url, line)
             r == Jar!Inserted(room, e)
  <2>1. e \in Cookies(setting)
    BY LineFits
  <2> HIDE DEF e
  <2>2. \A k \in DOMAIN room.map : k \in DOMAIN r.map /\ Jar!KeyOf(r.map[k]) = Jar!KeyOf(room.map[k])
    BY <2>1, TakesLine
  <2>3. \A k \in DOMAIN r.map : Jar!KeyOf(r.map[k]) # Jar!KeyOf(jar.map[i])
    BY <1>3 DEF e
  <2> HIDE DEF r, room
  <2>4. ~ \E k \in DOMAIN room.map : room.map[k] = jar.map[i]
    BY <2>2, <2>3
  <2>5. QED
    BY <1>2, <1>3, <2>4
<1>4. QED
  BY <1>1, <1>3 DEF Jar!EvictsSoonest

-----------------------------------------------------------------------------
LEMMA JarStays == MCSpec => []JarInv
<1>1. MCInit => JarInv
  BY EmptyJar DEF MCInit
<1>2. JarInv /\ [MCNext]_mcVars => JarInv'
  <2>1. [MCNext]_mcVars => [Jar!Next]_jarVars
    BY DEF MCNext, mcVars
  <2>2. QED
    BY <2>1, JarSteps
<1>3. QED
  BY <1>1, <1>2, PTL DEF MCSpec

THEOREM CookiesComeHome == MCSpec => []CookiesHome
<1>1. JarInv => CookiesHome
  BY LeaksNot, CookieComesBack, CopySendsTheSame DEF CookiesHome
<1>2. QED
  BY <1>1, JarStays, PTL

THEOREM TheSoonestGoes == MCSpec => []EvictsSoonest
<1>1. JarInv => EvictsSoonest
  BY IndexFollows, SoonestIsLeft DEF EvictsSoonest
<1>2. QED
  BY <1>1, JarStays, PTL
=============================================================================
