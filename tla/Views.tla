-------------------------------- MODULE Views --------------------------------
(* What a script finds in the tree it changes, selectors, collections and   *)
(* boxes, and what it hears from it.  Three caches stand in front of the    *)
(* tree, each valid for one number, the view_epoch, that every noted change *)
(* moves.                                                                   *)
EXTENDS OverlayDom

CONSTANTS PageTag,    \* the tag of each page node
          PageAttr,   \* the value of its one attribute, "absent" when it has none
          PageHidden, \* the page nodes the parser flagged as hidden
          PageOwn,    \* the page's own list of its scripts, kept by the parser
          Tags, Values, \* the tags and the values a script uses
          Queries,    \* the selectors it asks for, as segments
          Shift,      \* how far the request's number is shifted above the changes (20)
          Cap,        \* results of a selector (256)
          ElemCap,    \* elements of a walk (4096)
          Edits,      \* bound: the changes of one request
          Gens,       \* bound: the requests
          Types, Fns, \* the events and the functions that listen, on one node
          Steps       \* bound: what is done with them

EpochOf(t, c) == t + c
ViewsAssumption ==
  /\ OverlayAssumption /\ PageUp[1] = 0 /\ \A b \in 2 .. Pages : PageUp[b] # 0
  /\ DOMAIN PageTag = 1 .. Pages /\ DOMAIN PageAttr = 1 .. Pages /\ PageHidden \subseteq 1 .. Pages
  /\ Cap \in Nat \ {0} /\ ElemCap \in Nat \ {0} /\ Gens \in Nat
  /\ EpochOf(1, 1) + Edits < 2 ^ Shift

VARIABLES tag,     \* the tags of the nodes the script made
          attr,    \* their attribute, or a text's data; what the script did to a page node's
          tree,    \* tree_epoch
          chars,   \* dom_epoch
          gen,     \* DOC_GENERATION
          elems,   \* ALL_ELEMS
          cols,    \* COLS
          boxes,   \* LAYOUT
          ears,    \* the node's listeners, in order
          running, \* the dispatches under way, the last one on top, with what is left to call
          log      \* what was done with the listeners
earVars == <<ears, running, log>>
viewVars == <<vars, tag, attr, tree, chars, gen, elems, cols, boxes, earVars>>

Epoch == EpochOf(tree, chars)
Key == gen * 2 ^ Shift + Epoch
Nothing == [key |-> 0, list |-> <<>>]

ViewsInit == /\ Init /\ tree = 1 /\ chars = 1 /\ gen = 1
             /\ tag = [n \in Overlay |-> "#text"]
             /\ attr = [n \in Node |-> "absent"]
             /\ elems = Nothing /\ boxes = Nothing
             /\ cols = [kind \in {"scripts", "links"} |-> Nothing]
             /\ ears = <<>> /\ running = <<>> /\ log = <<>>

----------------------------------------------------------------------------
(* What a node is *)
TagOf(n) == IF n \in Base THEN PageTag[n] ELSE tag[n]
IsElement(n) == TagOf(n) # "#text"
\* view_attr_with: the script's value, its tombstone, or the page's
AttrOf(n) == CASE attr[n] = "tomb" -> "absent"
               [] attr[n] = "absent" /\ n \in Base -> PageAttr[n]
               [] OTHER -> attr[n]
Hidden(n) == n \in PageHidden \/ AttrOf(n) # "absent"

Roots == IF dom.place[1] = InPage THEN <<1>> ELSE <<>>
FirstFew(s, k) == IF Len(s) > k THEN SubSeq(s, 1, k) ELSE s
InOrder(root) == SelectSeq(Walk(dom, root), IsElement)
Tree == IF Roots = <<>> THEN <<>> ELSE SelectSeq(Roots, IsElement) \o InOrder(1)

\* overlay_all_elements_into: every element the script made that has a parent, wherever that is
Made == SelectSeq([i \in 1 .. dom.made |-> Pages + i], LAMBDA n : IsElement(n) /\ dom.up[n] # None)
AllElements == LET walked == FirstFew(Tree, ElemCap)
               IN walked \o FirstFew(Made, ElemCap - Len(walked))
UnderView(root) == FirstFew(InOrder(root), ElemCap)

----------------------------------------------------------------------------
(* Selectors: a query is a sequence of segments, a compound or a ">" *)
\* parse_selector: the compounds, each with how it hangs on the one before; <<>> when refused
ParseSelector(q) ==
  LET step(s, seg) ==
        CASE s.bad \/ seg.kind = "odd" -> [s EXCEPT !.bad = TRUE]
          [] seg.kind = "child" -> IF s.chain = <<>> THEN [s EXCEPT !.bad = TRUE] ELSE [s EXCEPT !.direct = TRUE]
          [] OTHER -> [s EXCEPT !.chain = Append(@, [parts |-> seg.parts, direct |-> s.direct]), !.direct = FALSE]
      read == FoldLeft(step, [chain |-> <<>>, direct |-> FALSE, bad |-> FALSE], q)
  IN IF read.bad THEN <<>> ELSE read.chain

MatchCompound(n, parts) == \A p \in parts : CASE p.part = "tag" -> TagOf(n) = p.name
                                              [] p.part = "has" -> AttrOf(n) # "absent"
                                              [] OTHER -> AttrOf(n) = p.name

Up(n) == ParentStep(dom, n)
\* the nodes above a node, nearest first; one too many when they go round
Above(n) == LET at[k \in 0 .. Pages + Room] == IF k = 0 THEN n
                                            ELSE LET m == at[k - 1] IN IF m = None THEN None ELSE Up(m)
            IN SelectSeq([k \in 1 .. Pages + Room |-> at[k]], LAMBDA m : m # None)

ChainOk(n, sel) ==
  LET ok[k \in DOMAIN sel, m \in Node] ==
        /\ MatchCompound(m, sel[k].parts)
        /\ k > 1 => IF sel[k].direct THEN Up(m) # None /\ ok[k - 1, Up(m)]
                    ELSE \E a \in ToSet(Above(m)) : ok[k - 1, a]
  IN ok[Len(sel), n]

CollectMatches(all, q) == LET sel == ParseSelector(q)
                          IN IF sel = <<>> THEN <<>> ELSE FirstFew(SelectSeq(all, LAMBDA n : ChainOk(n, sel)), Cap)

----------------------------------------------------------------------------
(* Collections and boxes *)
OfTag(all, t) == SelectSeq(all, LAMBDA n : TagOf(n) = t)
ColFetch(kind, all) ==
  IF kind = "scripts" THEN FirstFew(PageOwn \o OfTag(Made, "script"), IF Len(PageOwn) > Cap THEN Len(PageOwn) ELSE Cap)
  ELSE FirstFew(OfTag(all, "a"), Cap)

\* documentElement, body: overlay_first_tag stands in when the walk was cut short
FirstByTag(all, t) == LET hit == OfTag(all, t) \o OfTag(Made, t) IN IF hit = <<>> THEN None ELSE Head(hit)

StyleFor(n) == CASE ~IsElement(n) -> "text" [] IsElement(n) /\ Hidden(n) -> "none"
                 [] OTHER -> IF TagOf(n) = "a" THEN "inline" ELSE "block"
\* build_node over the whole tree; what a box is made of: the node, its style, its parent, its text
BuildNodes == LET nodes == IF Roots = <<>> THEN <<>> ELSE <<1>> \o Walk(dom, 1)
              IN [i \in DOMAIN nodes |-> [node |-> nodes[i], style |-> StyleFor(nodes[i]), up |-> Up(nodes[i]),
                                          text |-> IF IsElement(nodes[i]) THEN "" ELSE AttrOf(nodes[i])]]
\* the layout library gives what is not displayed, and all below it, a box of no size
Sized(table) == {n \in Node : \E i \in DOMAIN table :
                   table[i].node = n /\ \A j \in DOMAIN table :
                                          table[j].style = "none" => table[j].node # n /\ table[j].node \notin ToSet(Above(n))}
\* element_from_point: what it may return, over all points
ElementsAtPoints(table) == {n \in Sized(table) : n \in Overlay \/ (IsElement(n) /\ n \notin PageHidden)}

\* Mutant: the request's number is not looked at.
EnsuredAnyRequest(kept, fresh) == IF kept.key % 2 ^ Shift = Epoch THEN kept ELSE [key |-> Key, list |-> fresh]

\* the three ensure()s: what is kept is used as long as its number is the tree's
Ensured(kept, fresh) == IF kept.key = Key THEN kept ELSE [key |-> Key, list |-> fresh]
KeptElements == Ensured(elems, AllElements).list

----------------------------------------------------------------------------
(* What the script does *)
Keeps == UNCHANGED <<gen, elems, cols, boxes, earVars>>
\* bound: no node is put below itself, which the code does not refuse and no walk up would end
Fits(p, c) == c # p /\ c \notin ToSet(Above(p))
Noted(n) == tree' = tree + n /\ UNCHANGED chars

\* the tags of the nodes an action made
Named(t) == tag' = [n \in Overlay |-> IF n > Pages + dom.made /\ n <= Pages + dom'.made /\ n \notin dom'.texts THEN t ELSE tag[n]]

Edit(A, notes) == A /\ Noted(notes) /\ Keeps /\ ~dead' /\ ~looped'

MakeElement(t) == Edit(CreateElement, 0) /\ Named(t) /\ UNCHANGED attr

Move == /\ UNCHANGED <<tag, attr>>
        /\ \/ \E p, c \in Here(dom) : (Fits(p, c) /\ Edit(AppendChild(p, c), 1)) \/ Edit(RemoveChild(p, c), 1)
           \/ \E p, c, r \in Here(dom) : c \notin Base \cup {r} /\ r \notin Base /\ Fits(p, c) /\ Edit(InsertBefore(p, c, r), 1)
           \* a node without a parent is detached without a note
           \/ \E n \in Here(dom) : Edit(RemoveSelf(n), IF Up(n) = None THEN 0 ELSE 1)

Write == /\ UNCHANGED attr
         /\ \/ \E n \in Here(dom), empty \in BOOLEAN : Edit(SetText(n, empty), 1) /\ Named("#text")
            \/ \E n \in Here(dom), html \in Fragments, t \in Tags :
                 Edit(SetInnerHtml(n, html), 1 + dom'.made - dom.made) /\ Named(t)

\* base_attr_set on a chain of one: a value put after its tombstone is reached from nowhere
SetAttr(n, v) == attr' = [attr EXCEPT ![n] = IF n \in Base /\ @ = "tomb" THEN "absent" ELSE v]
RemoveAttr(n) == attr' = [attr EXCEPT ![n] = IF n \in Base THEN "tomb" ELSE "absent"]

Change == /\ \E n \in Here(dom) \ dom.texts : (\E v \in Values : SetAttr(n, v)) \/ RemoveAttr(n)
          /\ chars' = chars + 1 /\ Keeps /\ UNCHANGED <<vars, tag, tree>>
SetData == /\ \E n \in dom.texts, v \in Values : attr' = [attr EXCEPT ![n] = v]
           /\ chars' = chars + 1 /\ Keeps /\ UNCHANGED <<vars, tag, tree>>

AskElements == elems' = Ensured(elems, AllElements) /\ UNCHANGED <<vars, tag, attr, tree, chars, gen, cols, boxes, earVars>>
AskCollection(kind) ==
  /\ cols[kind].key # Key
  /\ elems' = IF kind = "scripts" THEN elems ELSE Ensured(elems, AllElements)
  /\ cols' = [cols EXCEPT ![kind] = [key |-> Key, list |-> ColFetch(kind, KeptElements)]]
  /\ UNCHANGED <<vars, tag, attr, tree, chars, gen, boxes, earVars>>
AskBoxes == boxes' = Ensured(boxes, BuildNodes) /\ UNCHANGED <<vars, tag, attr, tree, chars, gen, elems, cols, earVars>>

\* RequestScope::enter: the tree and two of the caches start afresh, the list of elements does not
NewRequest ==
  /\ gen < Gens /\ gen' = gen + 1 /\ running = <<>>
  /\ Epoch > EpochOf(1, 1)
  /\ dom' = [made |-> 0, texts |-> {}, ovr |-> {},
             up |-> [n \in Overlay |-> None], next |-> [n \in Overlay |-> None], prev |-> [n \in Overlay |-> None],
             first |-> [n \in Node |-> None], last |-> [n \in Node |-> None],
             place |-> [n \in Base |-> InPage], adopted |-> [n \in Base |-> <<>>]]
  /\ dead' = FALSE /\ looped' = FALSE /\ wrote' = <<>> /\ tree' = 1 /\ chars' = 1
  /\ tag' = [n \in Overlay |-> "#text"] /\ attr' = [n \in Node |-> "absent"]
  /\ cols' = [kind \in DOMAIN cols |-> Nothing] /\ boxes' = Nothing /\ UNCHANGED elems
  /\ ears' = <<>> /\ log' = <<>> /\ UNCHANGED running

----------------------------------------------------------------------------
(* Listeners: a dispatch calls what was listening when it began, and what  *)
(* it calls may add, remove and dispatch                                   *)
Done(what, t, f, of) == log' = Append(log, [what |-> what, type |-> t, fn |-> f, of |-> of])

ListenAdd(t, f) == ears' = Append(ears, <<t, f>>) /\ Done("add", t, f, 0) /\ UNCHANGED running

Without(t, f) == SelectSeq(ears, LAMBDA e : e # <<t, f>>)
ListenRemove(t, f) == ears' = Without(t, f) /\ Done("remove", t, f, 0) /\ UNCHANGED running

ListenDispatch(t) == /\ Done("dispatch", t, None, 0)
                     /\ running' = Append(running, [of |-> Len(log) + 1, left |-> SelectSeq(ears, LAMBDA e : e[1] = t)])
                     /\ UNCHANGED ears
CallNext == /\ running # <<>>
            /\ LET top == Last(running)
               IN IF top.left = <<>> THEN running' = Front(running) /\ UNCHANGED log
                  ELSE /\ running' = [running EXCEPT ![Len(running)].left = Tail(@)]
                       /\ Done("call", Head(top.left)[1], Head(top.left)[2], top.of)
            /\ UNCHANGED ears
Listen == /\ \/ /\ Len(log) < Steps
                /\ \E t \in Types : ListenDispatch(t) \/ \E f \in Fns : ListenAdd(t, f) \/ ListenRemove(t, f)
             \/ CallNext
          /\ UNCHANGED <<vars, tag, attr, tree, chars, gen, elems, cols, boxes>>

ViewsNext == \/ /\ EpochOf(tree, chars) < EpochOf(1, 1) + Edits
                /\ (\E t \in Tags : MakeElement(t)) \/ Move \/ Write \/ Change \/ SetData
             \/ AskElements \/ AskBoxes \/ \E kind \in DOMAIN cols : AskCollection(kind)
             \/ NewRequest
             \/ Listen
ViewsSpec == ViewsInit /\ [][ViewsNext]_viewVars
----------------------------------------------------------------------------
(* What is kept under the tree's number is what would be found now, after  *)
(* moves, new attributes and texts, and the next request.  Only a root     *)
(* that removes itself is not noted.                                       *)
CachesFresh == dom.place[1] # Off =>
  /\ elems.key = Key => elems.list = AllElements
  /\ boxes.key = Key => boxes.list = BuildNodes
  /\ \A kind \in DOMAIN cols : cols[kind].key = Key => cols[kind].list = ColFetch(kind, AllElements)

\* what a query means: its compounds lie on the way down to the node in their order, next to each other where ">" says so
Means(n, q) ==
  LET at == SetToSortSeq({i \in DOMAIN q : q[i].kind = "compound"}, LAMBDA i, j : i < j)
      path == Reverse(<<n>> \o Above(n))
  IN \E f \in [DOMAIN at -> DOMAIN path] :
       /\ f[Len(at)] = Len(path)
       /\ \A i \in DOMAIN at : MatchCompound(path[f[i]], q[at[i]].parts)
       /\ \A i \in 2 .. Len(at) : f[i - 1] < f[i] /\ (at[i] > at[i - 1] + 1 => f[i] = f[i - 1] + 1)
Valid(q) == q # <<>> /\ q[1].kind # "child" /\ \A i \in DOMAIN q : q[i].kind # "odd"

(* querySelectorAll of an element lists what its selector means, in the    *)
(* order of the document, each once, up to the cap; the document's lists   *)
(* what is in the document first, and after it elements of the script's    *)
(* own that have a parent.                                                 *)
SelectsRight == elems.key = Key /\ dom.place[1] # Off /\ MovesListed => \A q \in Queries :
  LET want(all) == IF Valid(q) THEN SelectSeq(all, LAMBDA n : Means(n, q)) ELSE <<>>
      found == CollectMatches(elems.list, q)
      inTree == FirstFew(want(FirstFew(Tree, ElemCap)), Cap)
  IN /\ \A n \in Here(dom) : CollectMatches(UnderView(n), q) = FirstFew(want(UnderView(n)), Cap)
     /\ FirstFew(found, Len(inTree)) = inTree
     /\ \A i \in Len(inTree) + 1 .. Len(found) : found[i] \in ToSet(want(Made))
     /\ \A t \in {TagOf(n) : n \in ToSet(Tree)} \ {"#text"} : FirstByTag(elems.list, t) = Head(OfTag(Tree, t))

(* No point of the page has an element that was taken out of the tree or   *)
(* lies in something hidden, by the page or by the script.                 *)
HiddenHaveNoBox ==
  boxes.key = Key /\ dom.place[1] # Off /\ MovesListed =>
    \A n \in ElementsAtPoints(boxes.list) :
      LET line == {n} \cup ToSet(Above(n)) IN 1 \in line /\ \A m \in line : IsElement(m) => ~Hidden(m)

(* A dispatch calls each function once for every time it was added and not *)
(* removed since when the dispatch began, in that order, whatever the      *)
(* functions it calls add, remove or dispatch themselves.                  *)
ListenersHeard == \A d \in DOMAIN log : log[d].what = "dispatch" =>
  LET open(i) == /\ i < d /\ log[i].what = "add" /\ log[i].type = log[d].type
                 /\ \A k \in i .. d : log[k].what = "remove" => log[k].type # log[i].type \/ log[k].fn # log[i].fn
      due == SetToSortSeq({i \in DOMAIN log : open(i)}, LAMBDA i, j : i < j)
      calls == SelectSeq(log, LAMBDA e : e.what = "call" /\ e.of = d)
  IN /\ Len(calls) <= Len(due) /\ \A i \in DOMAIN calls : calls[i].fn = log[due[i]].fn
     /\ (\A i \in DOMAIN running : running[i].of # d) => Len(calls) = Len(due)

ViewsSound == ListenersHeard /\ CachesFresh /\ SelectsRight /\ HiddenHaveNoBox
=============================================================================
