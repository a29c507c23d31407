----------------------------- MODULE AttrChains -----------------------------
(* Attributes in an arena of linked entries: each node made by the script  *)
(* has a chain of its own, each page node a chain that overrides what the  *)
(* page says, with tombstones for what the script removed.  The values of  *)
(* "id" are indexed besides.                                               *)
EXTENDS Naturals, SequencesExt

CONSTANTS Mine,    \* nodes the script makes
          Theirs,  \* nodes of the page
          Own,     \* what the page says of them
          Names, Values,
          Lists,   \* the attributes an element can be parsed with
          Room     \* entries the arena may grow to

AttrAssumption ==
  /\ Mine \cap Theirs = {} /\ "id" \in Names /\ Room \in Nat
  /\ Own \in [Theirs -> [Names -> Values \cup {"absent"}]] /\ "absent" \notin Values
  /\ Lists \subseteq Seq(Names \X Values)

Node == Mine \cup Theirs
End == 0

VARIABLES arena,  \* attrs and attr_free
          chain,  \* attr_head and attr_tail of each node
          index,  \* id_index and base_id_index, by node and value: kept as a list of nodes
          made,   \* nodes of the script that exist
          want    \* what the script was told it has: last set, removed, or the page's
vars == <<arena, chain, index, made, want>>

Init == /\ arena = [attrs |-> <<>>, free |-> <<>>]
        /\ chain = [n \in Node |-> [head |-> End, tail |-> End]]
        /\ index = [v \in Values |-> [mine |-> <<>>, theirs |-> <<>>]]
        /\ made = {}
        /\ want = [n \in Node |-> IF n \in Theirs THEN Own[n] ELSE [m \in Names |-> "absent"]]

----------------------------------------------------------------------------
(* The arena *)
Along(a, head) ==
  LET at[k \in 0 .. Room] == IF k = 0 THEN head ELSE IF at[k - 1] = End THEN End ELSE a.attrs[at[k - 1]].next
  IN SelectSeq([k \in 1 .. Room + 1 |-> at[k - 1]], LAMBDA i : i # End)

FindAt(a, head, name) ==
  LET hits == SelectSeq(Along(a, head), LAMBDA i : a.attrs[i].name = name)
  IN IF hits = <<>> THEN End ELSE Head(hits)

ChainTail(a, head) == IF head = End THEN End ELSE Last(Along(a, head))

\* arena_append: where the entry lands, and the arena with it
Slot(a) == IF a.free = <<>> THEN Len(a.attrs) + 1 ELSE Last(a.free)
ArenaAppend(a, tail, name, value, tomb) ==
  LET i == Slot(a)
      ent == [name |-> name, value |-> value, tomb |-> tomb, next |-> End]
      placed == IF a.free = <<>> THEN [a EXCEPT !.attrs = Append(@, ent)]
                ELSE [attrs |-> [a.attrs EXCEPT ![i] = ent], free |-> Front(a.free)]
  IN IF tail = End THEN placed ELSE [placed EXCEPT !.attrs[tail].next = i]

\* arena_unlink: the new head, and the arena without the entry
HeadWithout(a, head, i) == IF head = i THEN a.attrs[i].next ELSE head
ArenaUnlink(a, head, i) ==
  LET before == SelectSeq(Along(a, head), LAMBDA j : a.attrs[j].next = i)
  IN [attrs |-> IF before = <<>> THEN a.attrs ELSE [a.attrs EXCEPT ![Head(before)].next = a.attrs[i].next],
      free |-> Append(a.free, i)]

----------------------------------------------------------------------------
(* Reading *)
View(n, name) ==
  LET i == FindAt(arena, chain[n].head, name)
  IN CASE i # End -> IF arena.attrs[i].tomb THEN "absent" ELSE arena.attrs[i].value
       [] i = End /\ n \in Theirs -> Own[n][name]
       [] OTHER -> "absent"

\* view_attrs_list: the page's attributes as overridden, then the others
AttrsList(n) ==
  LET page == IF n \in Theirs THEN SelectSeq(SetToSeq(Names), LAMBDA m : Own[n][m] # "absent") ELSE <<>>
      first == SelectSeq([k \in DOMAIN page |-> <<page[k], View(n, page[k])>>], LAMBDA p : p[2] # "absent")
      live == SelectSeq(Along(arena, chain[n].head), LAMBDA i : ~arena.attrs[i].tomb)
      rest == SelectSeq([k \in DOMAIN live |-> <<arena.attrs[live[k]].name, arena.attrs[live[k]].value>>],
                        LAMBDA p : \A k \in DOMAIN first : first[k][1] # p[1])
  IN first \o rest

\* find_by_id_view, with every node in the tree; the page's own index never changes
FindById(v) ==
  LET page == {n \in Theirs : Own[n]["id"] = v}
  IN CASE index[v].mine # <<>> -> {Head(index[v].mine)}
       [] index[v].mine = <<>> /\ index[v].theirs # <<>> -> {Head(index[v].theirs)}
       [] OTHER -> page

----------------------------------------------------------------------------
(* Writing *)
\* attr_set: replaced in place, or appended after the tail; what was there is returned too
AttrSet(a, c, name, value) ==
  LET i == FindAt(a, c.head, name)
      tail == IF c.tail # End THEN c.tail ELSE ChainTail(a, c.head)
  IN IF i # End THEN [a |-> [a EXCEPT !.attrs[i].value = value], c |-> c, old |-> a.attrs[i].value]
     ELSE [a |-> ArenaAppend(a, tail, name, value, FALSE), old |-> "absent",
           c |-> [head |-> IF c.head = End THEN Slot(a) ELSE c.head, tail |-> Slot(a)]]

\* Mutant: the tail is left where it was.
AttrRemoveHead(a, c, name) ==
  LET i == FindAt(a, c.head, name)
  IN IF i = End THEN [a |-> a, c |-> c]
     ELSE [a |-> ArenaUnlink(a, c.head, i), c |-> [c EXCEPT !.head = HeadWithout(a, c.head, i)]]

AttrRemove(a, c, name) ==
  LET i == FindAt(a, c.head, name)
      b == ArenaUnlink(a, c.head, i)
      head == HeadWithout(a, c.head, i)
  IN IF i = End THEN [a |-> a, c |-> c] ELSE [a |-> b, c |-> [head |-> head, tail |-> ChainTail(b, head)]]

\* base_attr_set: a tombstone is taken out and a fresh entry goes behind the rest,
\* but the head is not moved to it when nothing else is left
BaseAttrSet(a, c, name, value) ==
  LET i == FindAt(a, c.head, name)
      b == ArenaUnlink(a, c.head, i)
      head == HeadWithout(a, c.head, i)
  IN IF i = End \/ ~a.attrs[i].tomb THEN AttrSet(a, c, name, value)
     ELSE [a |-> ArenaAppend(b, ChainTail(b, head), name, value, FALSE), old |-> "absent",
           c |-> [head |-> head, tail |-> Slot(b)]]

BaseAttrRemove(a, c, name) ==
  LET i == FindAt(a, c.head, name)
      tail == IF c.tail # End THEN c.tail ELSE ChainTail(a, c.head)
  IN CASE i = End -> [a |-> ArenaAppend(a, tail, name, "absent", TRUE), old |-> "absent",
                      c |-> [head |-> IF c.head = End THEN Slot(a) ELSE c.head, tail |-> Slot(a)]]
       [] i # End /\ a.attrs[i].tomb -> [a |-> a, c |-> c, old |-> "absent"]
       [] OTHER -> [a |-> [a EXCEPT !.attrs[i].tomb = TRUE, !.attrs[i].value = "absent"], c |-> c,
                    old |-> a.attrs[i].value]

IndexRemove(ix, kind, v, n) ==
  IF v = "absent" THEN ix ELSE [ix EXCEPT ![v] = [@ EXCEPT ![kind] = SelectSeq(@, LAMBDA m : m # n)]]
IndexAdd(ix, kind, v, n) == [ix EXCEPT ![v] = [@ EXCEPT ![kind] = Append(@, n)]]
IdIndexSet(ix, kind, n, old, v) == IndexAdd(IndexRemove(ix, kind, old, n), kind, v, n)

SetAttr(n, name, v) ==
  /\ n \in made \cup Theirs
  /\ LET r == IF n \in Mine THEN AttrSet(arena, chain[n], name, v) ELSE BaseAttrSet(arena, chain[n], name, v)
         old == IF n \in Theirs /\ r.old = "absent" THEN Own[n][name] ELSE r.old
     IN /\ Len(r.a.attrs) <= Room
        /\ arena' = r.a /\ chain' = [chain EXCEPT ![n] = r.c]
        /\ index' = IF name # "id" THEN index
                    ELSE IdIndexSet(index, IF n \in Mine THEN "mine" ELSE "theirs", n, old, v)
  /\ want' = [want EXCEPT ![n][name] = v]
  /\ UNCHANGED made

RemoveMine(n, name) ==
  LET r == AttrRemove(arena, chain[n], name)
  IN /\ n \in made
     /\ arena' = r.a /\ chain' = [chain EXCEPT ![n] = r.c]
     /\ index' = IF name = "id" THEN IndexRemove(index, "mine", View(n, "id"), n) ELSE index
     /\ want' = [want EXCEPT ![n][name] = "absent"]
     /\ UNCHANGED made

RemoveTheirs(n, name) ==
  LET r == BaseAttrRemove(arena, chain[n], name)
  IN /\ Len(r.a.attrs) <= Room
     /\ arena' = r.a /\ chain' = [chain EXCEPT ![n] = r.c]
     /\ index' = IF name = "id" THEN IndexRemove(index, "theirs", r.old, n) ELSE index
     /\ want' = [want EXCEPT ![n][name] = "absent"]
     /\ UNCHANGED made

\* alloc_element_under_raw: every "id" of the list is indexed, the last one stays
Make(n, list) ==
  /\ n \notin made /\ made' = made \cup {n}
  /\ LET r == FoldLeft(LAMBDA s, p : AttrSet(s.a, s.c, p[1], p[2]),
                       [a |-> arena, c |-> chain[n], old |-> "absent"], list)
     IN /\ Len(r.a.attrs) <= Room
        /\ arena' = r.a /\ chain' = [chain EXCEPT ![n] = r.c]
  /\ index' = FoldLeft(LAMBDA ix, p : IF p[1] = "id" THEN IndexAdd(ix, "mine", p[2], n) ELSE ix, index, list)
  /\ want' = [want EXCEPT ![n] = FoldLeft(LAMBDA w, p : [w EXCEPT ![p[1]] = p[2]], @, list)]

Next == \/ \E n \in Node, name \in Names, v \in Values : SetAttr(n, name, v)
        \/ \E n \in Mine, name \in Names : RemoveMine(n, name)
        \/ \E n \in Theirs, name \in Names : RemoveTheirs(n, name)
        \/ \E n \in Mine, list \in Lists : Make(n, list)

Spec == Init /\ [][Next]_vars
----------------------------------------------------------------------------
Linked == UNION {ToSet(Along(arena, chain[n].head)) : n \in Node}
Lost == (DOMAIN arena.attrs \ ToSet(arena.free)) \ Linked

(* getAttribute returns what setAttribute stored last, and nothing after   *)
(* removeAttribute, on the page's elements as on the script's.             *)
ReadsBack == \A n \in Node, m \in Names : View(n, m) = want[n][m]

(* Nodes share one arena and reuse each other's freed entries: no entry is *)
(* in two chains or in a chain and free, and each chain ends at its tail.  *)
(* As long as no entry is lost (the case ReadsBack shows), every attribute *)
(* reads as it was written, is listed once, and an id that some node has   *)
(* leads to a node that has it.                                            *)
AttrsAgree ==
  /\ IsInjective(arena.free) /\ ToSet(arena.free) \cap Linked = {}
  /\ \A n \in Node :
       LET entries == Along(arena, chain[n].head)
       IN /\ IsInjective(entries) /\ Len(entries) <= Room
          /\ \A m \in Node \ {n} : ToSet(entries) \cap ToSet(Along(arena, chain[m].head)) = {}
          /\ n \in Mine => chain[n].tail = ChainTail(arena, chain[n].head)
  /\ Lost = {} =>
       /\ ReadsBack
       /\ \A n \in Node : LET list == AttrsList(n)
                          IN /\ IsInjective(list)
                             /\ ToSet(list) = {<<m, want[n][m]>> : m \in {m \in Names : want[n][m] # "absent"}}
       /\ \A v \in Values : (\E n \in Node : want[n]["id"] = v) => \E n \in FindById(v) : want[n]["id"] = v
=============================================================================
