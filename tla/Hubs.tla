-------------------------------- MODULE Hubs --------------------------------
(***************************************************************************)
(* The operations of one input hub (payload-gen/src/input/scheduler.rs) on *)
(* the hub they are called on: a table of tabs whose slots are reused, a   *)
(* heap of keys <<when due, tab, generation>> that may be stale, and a     *)
(* table of sites.  A driver is when it is due next; what it emits is the  *)
(* business of whoever steps it.  Rank only orders drivers that are due    *)
(* together: here any of them may come first.                              *)
(***************************************************************************)
EXTENDS Naturals, Sequences, FiniteSets

CONSTANTS CompactFactor, CompactSlack   \* the 4 and the 64 of tick

ASSUME HubAssumption == {CompactFactor, CompactSlack} \subseteq Nat

NoSite == 0    \* the site u32::MAX of a closed tab
NoInput == [due |-> 0, some |-> FALSE]
Driver(due) == [due |-> due, some |-> TRUE]

NewHub == [tabs |-> <<>>, free |-> <<>>, heap |-> {}, sites |-> <<>>, freeSites |-> <<>>]

Open(h) == {t \in DOMAIN h.tabs : h.tabs[t].site # NoSite}
Key(due, t, gen) == [due |-> due, tab |-> t, gen |-> gen]
KeyOfTab(h, t) == Key(h.tabs[t].input.due, t, h.tabs[t].gen)

Popped(s) == SubSeq(s, 1, Len(s) - 1)
Top(s) == s[Len(s)]

-----------------------------------------------------------------------------
(* Sites *)

FreeSite(h) == IF h.freeSites # <<>> THEN Top(h.freeSites) ELSE Len(h.sites) + 1

(* site_free_slot: the number is no longer free. *)
TakeSite(h) == IF h.freeSites # <<>> THEN [h EXCEPT !.freeSites = Popped(@)] ELSE h

(* register_site_shared: the table grows to hold s. *)
RegisterShared(h, s) ==
  [h EXCEPT !.sites = [i \in 1 .. (IF s > Len(@) THEN s ELSE Len(@)) |->
                         i = s \/ (i <= Len(@) /\ @[i])]]

UnregisterSite(h, s) ==
  IF /\ \A t \in DOMAIN h.tabs : h.tabs[t].site # s
     /\ s \in DOMAIN h.sites
     /\ h.sites[s]
  THEN [h EXCEPT !.sites[s] = FALSE, !.freeSites = Append(@, s)]
  ELSE h

-----------------------------------------------------------------------------
(* Tabs *)

NextTab(h) == IF h.free # <<>> THEN Top(h.free) ELSE Len(h.tabs) + 1

(* A reused slot starts over, at generation 0. *)
OpenTab(h, s) ==
  LET tab == [site |-> s, gen |-> 0, input |-> NoInput]
  IN  IF h.free # <<>>
      THEN [h EXCEPT !.tabs[Top(h.free)] = tab, !.free = Popped(@)]
      ELSE [h EXCEPT !.tabs = Append(@, tab)]

CloseTab(h, t) ==
  IF t \in Open(h)
  THEN [h EXCEPT !.tabs[t] = [site |-> NoSite, gen |-> @.gen + 1, input |-> NoInput],
                 !.heap = {k \in @ : k.tab # t},
                 !.free = Append(@, t)]
  ELSE h

(* Mutant: the driver that is replaced keeps its generation. *)
SetSameGen(h, t, due) ==
  IF t \in Open(h)
  THEN [h EXCEPT !.tabs[t].input = Driver(due),
                 !.heap = @ \cup {Key(due, t, h.tabs[t].gen)}]
  ELSE h

(* The key of the driver that is replaced stays in the heap, stale. *)
SetInput(h, t, due) ==
  IF t \in Open(h)
  THEN [h EXCEPT !.tabs[t].gen = @ + 1,
                 !.tabs[t].input = Driver(due),
                 !.heap = @ \cup {Key(due, t, h.tabs[t].gen + 1)}]
  ELSE h

-----------------------------------------------------------------------------
(* The steps of tick *)

DueKeys(h, now) == {k \in h.heap : k.due <= now}
Fresh(h, k) == /\ k.tab \in Open(h)
               /\ h.tabs[k.tab].gen = k.gen
               /\ h.tabs[k.tab].input.some

Discarded(h, k) == [h EXCEPT !.heap = @ \ {k}]

(* The driver of a fresh key has stepped, and is due again or is done. *)
Stepped(h, k, due) ==
  [h EXCEPT !.heap = (@ \ {k}) \cup {Key(due, k.tab, k.gen)},
            !.tabs[k.tab].input = Driver(due)]
Done(h, k) == [h EXCEPT !.heap = @ \ {k}, !.tabs[k.tab].input = NoInput]

Compacted(h) ==
  [h EXCEPT !.heap = {KeyOfTab(h, t) : t \in {u \in Open(h) : h.tabs[u].input.some}}]

Tidied(h) == IF Cardinality(h.heap) > CompactFactor * Cardinality(Open(h)) + CompactSlack
             THEN Compacted(h) ELSE h

-----------------------------------------------------------------------------
(* What holds of every hub. *)

HubType(h) ==
  /\ h.tabs \in Seq([site : Nat, gen : Nat, input : [due : Nat, some : BOOLEAN]])
  /\ h.free \in Seq(Nat) /\ h.freeSites \in Seq(Nat)
  /\ h.heap \subseteq [due : Nat, tab : Nat, gen : Nat]
  /\ h.sites \in Seq(BOOLEAN)

(* A driver has exactly one fresh key, at the time it is due: it is        *)
(* neither forgotten nor driven twice, whatever was replaced, closed,      *)
(* reused or compacted before.                                             *)
Driven(h) ==
  /\ \A t \in Open(h) : h.tabs[t].input.some =>
       {k \in h.heap : Fresh(h, k) /\ k.tab = t} = {KeyOfTab(h, t)}
  /\ \A k \in h.heap : k.tab \in Open(h)

(* The free slots are the closed tabs, each once. *)
FreeIsClosed(h) ==
  /\ {h.free[i] : i \in DOMAIN h.free} = DOMAIN h.tabs \ Open(h)
  /\ \A i, j \in DOMAIN h.free : h.free[i] = h.free[j] => i = j
=============================================================================
