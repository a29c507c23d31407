----------------------------- MODULE OverlayDom -----------------------------
(* What a script makes of a page's tree: nodes of its own (the overlay) and *)
(* what it did to the nodes of the page (BaseOvr).  A page node lists the   *)
(* page nodes it adopted, then the overlay nodes put under it, then its own *)
(* children that are still there.                                           *)
EXTENDS Integers, SequencesExt, FiniteSets

CONSTANTS Pages,      \* how many nodes the page has: they are 1 .. Pages
          PageUp,     \* the parent of each of them, 0 for the root
          PageKids,   \* their children, in order
          Room,       \* how many nodes the script may make
          Fragments   \* the markup it may assign to innerHTML

OverlayAssumption ==
  /\ Pages \in Nat \ {0} /\ Room \in Nat
  /\ PageUp \in [1 .. Pages -> 0 .. Pages] /\ PageKids \in [1 .. Pages -> Seq(1 .. Pages)]
  /\ Fragments \subseteq Seq({"open", "close", "void", "text"})

None == 0
InPage == -1
Off == -2
Base == 1 .. Pages
Overlay == Pages + 1 .. Pages + Room
Node == Base \cup Overlay

VARIABLES dom,     \* the overlay: links, places, adopted children
          dead,    \* an index out of range ended the script's realm
          looped,  \* a node was inserted before itself
          wrote    \* the last innerHTML or textContent written, while nothing came after it
vars == <<dom, dead, looped, wrote>>

Here(d) == 1 .. Pages + d.made

Init == /\ dom = [made |-> 0, texts |-> {}, ovr |-> {},
                  up |-> [n \in Overlay |-> None],
                  next |-> [n \in Overlay |-> None], prev |-> [n \in Overlay |-> None],
                  first |-> [n \in Node |-> None], last |-> [n \in Node |-> None],
                  place |-> [n \in Base |-> InPage], adopted |-> [n \in Base |-> <<>>]]
        /\ dead = FALSE /\ looped = FALSE /\ wrote = <<>>

----------------------------------------------------------------------------
(* MutDom *)
Alloc(d, text) == LET n == Pages + d.made + 1
                  IN [d EXCEPT !.made = @ + 1, !.texts = IF text THEN @ \cup {n} ELSE @]

Link(d, p, c) ==
  LET last == d.last[p]
  IN [d EXCEPT !.up[c] = p, !.last[p] = c,
               !.first[p] = IF last = None THEN c ELSE @,
               !.prev[c] = IF last = None THEN @ ELSE last,
               !.next = IF last = None THEN @ ELSE [@ EXCEPT ![last] = c],
               !.ovr = @ \cup ({p} \cap Base)]

\* Mutant: the node behind keeps its link to the one taken out.
UnlinkOneWay(d, c) ==
  LET p == d.up[c]   before == d.prev[c]   after == d.next[c]
  IN IF p = None THEN d
     ELSE [d EXCEPT !.first[p] = IF @ = c THEN after ELSE @,
                    !.last[p] = IF @ = c THEN before ELSE @,
                    !.next = [n \in Overlay |-> IF n = c THEN None ELSE IF n = before THEN after ELSE @[n]],
                    !.prev[c] = None,
                    !.up[c] = None]

Unlink(d, c) ==
  LET p == d.up[c]   before == d.prev[c]   after == d.next[c]
  IN IF p = None THEN d
     ELSE [d EXCEPT !.first[p] = IF @ = c THEN after ELSE @,
                    !.last[p] = IF @ = c THEN before ELSE @,
                    !.next = [n \in Overlay |-> IF n = c THEN None ELSE IF n = before THEN after ELSE @[n]],
                    !.prev = [n \in Overlay |-> IF n = c THEN None ELSE IF n = after THEN before ELSE @[n]],
                    !.up[c] = None]

Disown(d, p, c) == [d EXCEPT !.adopted = [@ EXCEPT ![p] = SelectSeq(@, LAMBDA n : n # c)]]

ParentStep(d, n) == CASE n \in Overlay -> d.up[n]
                      [] d.place[n] = InPage -> PageUp[n]
                      [] d.place[n] = Off -> None
                      [] OTHER -> d.place[n]

LiveKids(d, p) == SelectSeq(PageKids[p], LAMBDA c : d.place[c] = InPage)

\* the overlay nodes from n on along next or prev; one too many when they never end
Chain(way, n) ==
  LET at[k \in 0 .. Room] == IF k = 0 THEN n ELSE IF at[k - 1] = None THEN None ELSE way[at[k - 1]]
  IN SelectSeq([k \in 1 .. Room + 1 |-> at[k - 1]], LAMBDA m : m # None)

----------------------------------------------------------------------------
(* What the script sees *)
Children(d, p) == IF p \in Overlay THEN Chain(d.next, d.first[p])
                  ELSE d.adopted[p] \o Chain(d.next, d.first[p]) \o LiveKids(d, p)

FirstOf(s) == IF s = <<>> THEN None ELSE Head(s)
LastOf(s) == IF s = <<>> THEN None ELSE Last(s)
Either(n, m) == IF n # None THEN n ELSE m

ViewFirst(d, p) == IF p \in Overlay THEN d.first[p]
                   ELSE Either(FirstOf(d.adopted[p]), Either(d.first[p], FirstOf(LiveKids(d, p))))
ViewLast(d, p) == IF p \in Overlay THEN d.last[p]
                  ELSE Either(LastOf(LiveKids(d, p)), Either(d.last[p], LastOf(d.adopted[p])))

AfterAdopted(d, p, n) ==
  LET i == SelectInSeq(d.adopted[p], LAMBDA m : m = n)
  IN CASE i = 0 -> None
       [] i > 0 /\ i < Len(d.adopted[p]) -> d.adopted[p][i + 1]
       [] OTHER -> Either(d.first[p], FirstOf(LiveKids(d, p)))
BeforeAdopted(d, p, n) ==
  LET i == SelectInSeq(d.adopted[p], LAMBDA m : m = n) IN IF i > 1 THEN d.adopted[p][i - 1] ELSE None

\* live_base_sibling
Beside(d, p, n, step) ==
  LET at == SelectInSeq(PageKids[p], LAMBDA m : m = n)
      far == {i \in DOMAIN PageKids[p] : (i - at) * step > 0 /\ d.place[PageKids[p][i]] = InPage}
  IN IF far = {} THEN None
     ELSE PageKids[p][CHOOSE i \in far : \A j \in far : (j - i) * step >= 0]

ViewNext(d, n) ==
  LET p == ParentStep(d, n)
  IN IF n \in Overlay
     THEN Either(d.next[n], IF p \in Base THEN FirstOf(LiveKids(d, p)) ELSE None)
     ELSE CASE p \notin Base -> None
            [] p \in Base /\ d.place[n] = InPage -> Beside(d, p, n, 1)
            [] OTHER -> AfterAdopted(d, p, n)
ViewPrev(d, n) ==
  LET p == ParentStep(d, n)
  IN IF n \in Overlay
     THEN Either(d.prev[n], IF p \in Base THEN LastOf(d.adopted[p]) ELSE None)
     ELSE CASE p \notin Base -> None
            [] p \in Base /\ d.place[n] = InPage ->
                 Either(Beside(d, p, n, -1), Either(d.last[p], LastOf(d.adopted[p])))
            [] OTHER -> BeforeAdopted(d, p, n)

\* inner_html_into_raw, as tokens: a void element is written like any other
InnerHtml(d, node) ==
  LET deep[k \in 0 .. Room, n \in Node] ==
        IF k = 0 THEN <<>>
        ELSE FlattenSeq([i \in DOMAIN Children(d, n) |->
                           LET c == Children(d, n)[i]
                           IN IF c \in d.texts THEN <<"text">>
                              ELSE <<"open">> \o deep[k - 1, c] \o <<"close">>])
  IN deep[Room, node]

\* walk_nodes_into and text_content_of: the nodes under a node, in document order
Walk(d, node) ==
  LET deep[k \in 0 .. Pages + Room, n \in Node] ==
        IF k = 0 THEN <<>>
        ELSE LET kids == Children(d, n)
             IN FlattenSeq([i \in DOMAIN kids |-> <<kids[i]>> \o deep[k - 1, kids[i]]])
  IN deep[Pages + Room, node]
Elements(d, node) == SelectSeq(Walk(d, node), LAMBDA n : n \notin d.texts)
TextContent(d, node) == IF node \in d.texts THEN <<node>> ELSE SelectSeq(Walk(d, node), LAMBDA n : n \in d.texts)

----------------------------------------------------------------------------
(* What the script does *)
Still == UNCHANGED <<dead, looped>> /\ wrote' = <<>>

CreateElement == dom.made < Room /\ dom' = Alloc(dom, FALSE) /\ Still

AppendChild(p, c) ==
  /\ dom' = IF c \in Overlay THEN Link(Unlink(dom, c), p, c)
            ELSE LET d == [dom EXCEPT !.place[c] = p, !.ovr = @ \cup {c}]
                 IN IF p \notin d.ovr THEN d
                    ELSE LET e == Disown(d, p, c) IN [e EXCEPT !.adopted[p] = Append(@, c)]
  /\ Still

\* a canvas object has no node: each time, an element of its own is made for it
AppendCanvas(p) == /\ dom.made < Room /\ dom' = Link(Alloc(dom, FALSE), p, Pages + dom.made + 1)
                   /\ Still

Detach(d, c) == IF c \in Overlay THEN Unlink(d, c) ELSE [d EXCEPT !.place[c] = Off, !.ovr = @ \cup {c}]
DetachFrom(d, p, c) == LET e == Detach(d, c) IN IF p \in e.ovr THEN Disown(e, p, c) ELSE e

RemoveChild(p, c) == /\ ParentStep(dom, c) = p
                     /\ dom' = DetachFrom(dom, p, c)
                     /\ Still

RemoveSelf(n) == /\ dom' = IF ParentStep(dom, n) = None THEN Detach(dom, n)
                           ELSE DetachFrom(dom, ParentStep(dom, n), n)
                 /\ Still

\* a page node has no slot to unlink or to link to: indexing it panics
InsertBefore(p, c, r) ==
  /\ ParentStep(dom, r) = p
  /\ IF c \in Base \/ r \in Base
     THEN dead' = TRUE /\ UNCHANGED <<dom, looped, wrote>>
     ELSE LET d == Unlink(dom, c)   before == d.prev[r]   q == d.up[r]
          IN /\ dom' = [d EXCEPT !.next = IF before = None THEN [@ EXCEPT ![c] = r]
                                          ELSE [[@ EXCEPT ![before] = c] EXCEPT ![c] = r],
                                 !.first = IF before = None /\ q # None THEN [@ EXCEPT ![q] = c] ELSE @,
                                 !.prev = [[@ EXCEPT ![r] = c] EXCEPT ![c] = before],
                                 !.up[c] = q]
             /\ looped' = (looped \/ c = r)
             /\ wrote' = <<>> /\ UNCHANGED dead

ClearChildren(d, p) == FoldLeft(LAMBDA e, n : IF n \in Overlay THEN Unlink(e, n) ELSE e, d, Children(d, p))
Endless(d, p) == Len(Chain(d.next, d.first[p])) > Room

SetText(n, empty) ==
  /\ ~Endless(dom, n) /\ n \notin dom.texts
  /\ empty \/ dom.made < Room
  /\ LET d == ClearChildren(dom, n)
     IN dom' = IF empty THEN d ELSE Link(Alloc(d, TRUE), n, Pages + d.made + 1)
  /\ wrote' = <<n, IF empty THEN <<>> ELSE <<"text">>>> /\ UNCHANGED <<dead, looped>>

\* parse_fragment: s is the overlay and the elements that are open
Token(s, t) ==
  LET p == Last(s.open)   n == Pages + s.d.made + 1
      made == Link(Alloc(s.d, t = "text"), p, n)
  IN CASE t = "close" -> IF Len(s.open) > 1 THEN [s EXCEPT !.open = Front(@)] ELSE s
       [] t = "open" -> [d |-> made, open |-> Append(s.open, n)]
       [] OTHER -> [s EXCEPT !.d = made]

SetInnerHtml(n, html) ==
  /\ ~Endless(dom, n)
  /\ dom.made + Len(SelectSeq(html, LAMBDA t : t # "close")) <= Room
  /\ dom' = FoldLeft(Token, [d |-> ClearChildren(dom, n), open |-> <<n>>], html).d
  /\ wrote' = <<n, html>> /\ UNCHANGED <<dead, looped>>

Next == /\ ~dead
        /\ \/ CreateElement
           \/ \E p, c \in Here(dom) : AppendChild(p, c) \/ RemoveChild(p, c)
           \/ \E p, c, r \in Here(dom) : InsertBefore(p, c, r)
           \/ \E n \in Here(dom) : RemoveSelf(n) \/ AppendCanvas(n)
           \/ \E n \in Here(dom), empty \in BOOLEAN : SetText(n, empty)
           \/ \E n \in Here(dom), html \in Fragments : SetInnerHtml(n, html)

Spec == Init /\ [][Next]_vars
----------------------------------------------------------------------------
(* Whatever the script did, moves into a node's own subtree included, the  *)
(* overlay nodes under a parent are one list that reads the same in both   *)
(* directions and ends, and a node without a parent has no siblings; only  *)
(* a node inserted before itself breaks this.  link, unlink and            *)
(* insert_before each mend four links by hand.                             *)
LinksAgree ==
  looped \/
  /\ \A p \in Node : LET list == Chain(dom.next, dom.first[p])
                     IN /\ Len(list) <= Room
                        /\ ToSet(list) = {n \in Overlay : dom.up[n] = p}
                        /\ Chain(dom.prev, dom.last[p]) = Reverse(list)
  /\ \A n \in Overlay : dom.up[n] = None => dom.next[n] = None /\ dom.prev[n] = None

\* every page node that was moved is in the list of its new parent, and in no other
MovesListed == \A b \in Base :
  /\ dom.place[b] > 0 => dom.place[b] \in Base
  /\ \A p \in Base : (dom.place[b] = p) <=> (b \in ToSet(dom.adopted[p]))

(* firstChild, lastChild, nextSibling, previousSibling and parentNode are  *)
(* five functions with their own cases for adopted, added and original     *)
(* children; they must walk the list that childNodes shows, as long as the *)
(* page nodes the script moved are listed where they went.                 *)
ViewsAgree ==
  looped \/ ~MovesListed \/
  \A p \in Here(dom) :
    LET kids == Children(dom, p)
    IN /\ ViewFirst(dom, p) = FirstOf(kids) /\ ViewLast(dom, p) = LastOf(kids)
       /\ \A i \in DOMAIN kids :
            /\ ParentStep(dom, kids[i]) = p
            /\ ViewNext(dom, kids[i]) = IF i < Len(kids) THEN kids[i + 1] ELSE None
            /\ ViewPrev(dom, kids[i]) = IF i > 1 THEN kids[i - 1] ELSE None

Plain(html) == FlattenSeq([i \in DOMAIN html |-> IF html[i] = "void" THEN <<"open", "close">> ELSE <<html[i]>>])

(* Markup whose tags are balanced, and text, read back as they were        *)
(* written when the node has no children of the page left.                 *)
RoundTrip ==
  wrote # <<>> /\ ~looped =>
    LET n == wrote[1]
        odd == \E k \in 1 .. Len(wrote[2]) :
                 LET opened == Len(SelectSeq(SubSeq(wrote[2], 1, k), LAMBDA t : t = "open"))
                     closed == Len(SelectSeq(SubSeq(wrote[2], 1, k), LAMBDA t : t = "close"))
                 IN closed > opened \/ (k = Len(wrote[2]) /\ closed < opened)
    IN odd \/ (n \in Base /\ (dom.adopted[n] # <<>> \/ LiveKids(dom, n) # <<>>))
       \/ /\ InnerHtml(dom, n) = Plain(wrote[2])
          /\ Len(Elements(dom, n)) = Len(SelectSeq(Plain(wrote[2]), LAMBDA t : t = "open"))
          /\ Len(TextContent(dom, n)) = Len(SelectSeq(wrote[2], LAMBDA t : t = "text"))
=============================================================================
