------------------------------- MODULE DomTree -------------------------------
(***************************************************************************)
(* The tree of a parsed page (parser-pipeline/src/dom.rs): nodes in arrays *)
(* that link each to its parent, its first and last child and its          *)
(* siblings, indexes by kind beside them, and two orders from which        *)
(* is_descendant answers.  It grows while the page is parsed, is numbered  *)
(* once, and may then lose subtrees; an id carries the generation of its   *)
(* slot.                                                                   *)
(***************************************************************************)
EXTENDS Integers, FiniteSetsExt, SequencesExt

CONSTANTS Room,       \* MAX_NODES
          Opens       \* bound: elements the page tries to open

TreeAssumption == Room \in Nat \ {0} /\ Opens \in Nat

Nil == -1                     \* u32::MAX
Slots == 0 .. Room - 1
Links == Slots \cup {Nil}

VARIABLES used,               \* slots that were ever taken: 0 .. used - 1
          parent, first, last, next, prev,
          live,               \* flags # 0
          gen, free,
          scripts,            \* the index by kind, in document order
          pre, post,          \* the two orders, of the slots there are
          attached,           \* parsed to the end: attach_name_tables
          opens, truncated,
          old                 \* ids of nodes that were removed (history)

links == <<parent, first, last, next, prev>>
vars == <<used, links, live, gen, free, scripts, pre, post, attached, opens, truncated, old>>

(* first and last of Nil are roots_head and roots_tail. *)
Init == /\ used = 0
        /\ parent = [i \in Slots |-> Nil]
        /\ first = [i \in Links |-> Nil] /\ last = [i \in Links |-> Nil]
        /\ next = [i \in Slots |-> Nil] /\ prev = [i \in Slots |-> Nil]
        /\ live = {} /\ gen = [i \in Slots |-> 0] /\ free = <<>> /\ scripts = <<>>
        /\ pre = <<>> /\ post = <<>>
        /\ attached = FALSE /\ opens = 0 /\ truncated = FALSE /\ old = {}

-----------------------------------------------------------------------------
(* open_element: a slot, linked in as the last child. *)

OpenElement(p, script) ==
  /\ ~attached /\ opens < Opens /\ opens' = opens + 1
  /\ p \in live \cup {Nil}
  /\ IF used = Room
     THEN /\ truncated' = TRUE
          /\ UNCHANGED <<used, links, live, scripts>>
     ELSE /\ used' = used + 1
          /\ live' = live \cup {used}
          /\ parent' = [parent EXCEPT ![used] = p]
          /\ IF last[p] = Nil
             THEN first' = [first EXCEPT ![p] = used] /\ UNCHANGED <<next, prev>>
             ELSE /\ next' = [next EXCEPT ![last[p]] = used]
                  /\ prev' = [prev EXCEPT ![used] = last[p]]
                  /\ UNCHANGED first
          /\ last' = [last EXCEPT ![p] = used]
          /\ scripts' = IF script THEN Append(scripts, used) ELSE scripts
          /\ UNCHANGED truncated
  /\ UNCHANGED <<gen, free, pre, post, attached, old>>

-----------------------------------------------------------------------------
(* compute_orders: a walk with an explicit stack; a node is met on its way *)
(* in and again on its way out, and each meeting takes a number.           *)

RECURSIVE Siblings(_, _)
Siblings(nx, i) == IF i = Nil THEN <<>> ELSE <<i>> \o Siblings(nx, nx[i])

Unnumbered == [i \in 0 .. used - 1 |-> Nil]
RECURSIVE Walk(_, _, _, _)
Walk(fst, nx, stack, done) ==
  LET node == Head(stack)[1]
      in == [done EXCEPT !.pre[node] = done.tick, !.tick = @ + 1]
      out == [done EXCEPT !.post[node] = done.tick, !.tick = @ + 1]
      kids == Siblings(nx, fst[node])
  IN  IF stack = <<>> THEN done
      ELSE IF Head(stack)[2] THEN Walk(fst, nx, Tail(stack), out)
      ELSE Walk(fst, nx, [k \in DOMAIN kids |-> <<kids[k], FALSE>>] \o <<<<node, TRUE>>>> \o Tail(stack), in)

Orders(fst, nx) ==
  LET roots == Siblings(nx, fst[Nil])
  IN  Walk(fst, nx, [k \in DOMAIN roots |-> <<roots[k], FALSE>>],
           [pre |-> Unnumbered, post |-> Unnumbered, tick |-> 0])

Attach == /\ ~attached /\ attached' = TRUE
          /\ pre' = Orders(first, next).pre /\ post' = Orders(first, next).post
          /\ UNCHANGED <<used, links, live, gen, free, scripts, opens, truncated, old>>

-----------------------------------------------------------------------------
(* remove_node *)

(* The order in which the loop frees a subtree: down by first children,    *)
(* then to the next sibling or, past the last one, up.                     *)
RECURSIVE Freed(_, _, _)
Freed(node, root, descend) ==
  IF descend /\ first[node] # Nil THEN Freed(first[node], root, TRUE)
  ELSE IF node = root THEN <<node>>
  ELSE <<node>> \o (IF next[node] # Nil THEN Freed(next[node], root, TRUE)
                    ELSE Freed(parent[node], root, FALSE))

IsValid(i, g) == i \in live /\ gen[i] = g

(* unlink: what the neighbours of i point to without it. *)
FirstWithout(i) == IF prev[i] = Nil THEN [first EXCEPT ![parent[i]] = next[i]] ELSE first
NextWithout(i) == IF prev[i] # Nil THEN [next EXCEPT ![prev[i]] = next[i]] ELSE next
PrevWithout(i) == IF next[i] # Nil THEN [prev EXCEPT ![next[i]] = prev[i]] ELSE prev

(* Mutant: the tail is left where it was. *)
LastAsBefore(i) == last

LastWithout(i) == IF next[i] = Nil THEN [last EXCEPT ![parent[i]] = prev[i]] ELSE last

RemoveNode(i) ==
  /\ attached /\ i \in live
  /\ LET freed == Freed(i, i, TRUE)
         gone == ToSet(freed)
         clear(f) == [k \in DOMAIN f |-> IF k \in gone THEN Nil ELSE f[k]]
     IN  /\ live' = live \ gone
         /\ gen' = [k \in Slots |-> IF k \in gone THEN gen[k] + 1 ELSE gen[k]]
         /\ free' = free \o freed
         /\ first' = clear(FirstWithout(i)) /\ last' = clear(LastWithout(i))
         /\ next' = clear(NextWithout(i)) /\ prev' = clear(PrevWithout(i))
         /\ parent' = clear(parent)
         /\ scripts' = SelectSeq(scripts, LAMBDA s : s \notin gone)
         /\ pre' = Orders(first', next').pre /\ post' = Orders(first', next').post
         /\ old' = old \cup {<<k, gen[k]>> : k \in gone}
  /\ UNCHANGED <<used, attached, opens, truncated>>

Next == \/ \E p \in Links, script \in BOOLEAN : OpenElement(p, script)
        \/ Attach
        \/ \E i \in Slots : RemoveNode(i)

Spec == Init /\ [][Next]_vars

-----------------------------------------------------------------------------
TypeOK == /\ used \in 0 .. Room /\ live \subseteq 0 .. used - 1
          /\ parent \in [Slots -> Links] /\ next \in [Slots -> Links] /\ prev \in [Slots -> Links]
          /\ first \in [Links -> Links] /\ last \in [Links -> Links]
          /\ gen \in [Slots -> Nat] /\ opens \in 0 .. Opens

(* The nodes above i by the links. *)
RECURSIVE Above(_)
Above(i) == IF parent[i] = Nil THEN {} ELSE {parent[i]} \cup Above(parent[i])

IsDescendant(i, r) == \/ i = r
                      \/ i \in live /\ r \in live /\ pre[r] <= pre[i] /\ post[i] <= post[r]

(* The arrays are one tree, before and after any removals: the children of *)
(* a node, read forwards or backwards, are the live nodes that name it as  *)
(* their parent; every removed id is dead for good and its slot free; the  *)
(* index holds live nodes in their order; and the two orders answer        *)
(* is_descendant as the links do (dom.rs:334-344, 452-560, 672-742;        *)
(* parser-pipeline/tests/regressions.rs:57-114).                           *)
Children(p) == Siblings(next, first[p])
TreeSound ==
  /\ TypeOK
  /\ \A p \in live \cup {Nil} :
       LET kids == Children(p) IN
       /\ ToSet(kids) = {i \in live : parent[i] = p} /\ IsInjective(kids)
       /\ last[p] = IF kids = <<>> THEN Nil ELSE Last(kids)
       /\ \A k \in DOMAIN kids : prev[kids[k]] = IF k = 1 THEN Nil ELSE kids[k - 1]
  /\ \A i \in live : parent[i] \in live \cup {Nil} /\ parent[i] < i
  /\ IsInjective(free) /\ ToSet(free) = (0 .. used - 1) \ live
  /\ \A id \in old : ~IsValid(id[1], id[2])
  /\ \A s, t \in DOMAIN scripts : scripts[s] \in live /\ (s < t => scripts[s] < scripts[t])
  /\ attached => \A i, r \in live : IsDescendant(i, r) <=> i = r \/ r \in Above(i)
=============================================================================
