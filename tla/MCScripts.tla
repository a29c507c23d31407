------------------------------ MODULE MCScripts ------------------------------
(* What a script runs on, as scenes of one run that share nothing: what    *)
(* its worker and its objects keep and who observes it (MCWorkers), the    *)
(* tree it changes, its attributes, and its clock.                         *)
EXTENDS MCWorkers, TLAPS

VARIABLES dom, dead, looped, wrote,                                           \* OverlayDom
          arena, chain, index, born, want,                                    \* AttrChains
          rule, last,                                                         \* Zones
          tag, attr, tree, chars, gen, elems, cols, boxes, ears, running, log \* Views
domVars == <<dom, dead, looped, wrote>>
attrVars == <<arena, chain, index, born, want>>
zoneVars == <<rule, last>>
viewVars == <<tag, attr, tree, chars, gen, elems, cols, boxes, ears, running, log>>
mcVars == <<scene, workerVars, domVars, attrVars, zoneVars, viewVars>>

----------------------------------------------------------------------------
Markup == {<<"open", "text", "close">>, <<"text", "void">>, <<"close", "text", "open">>}
Lone == INSTANCE OverlayDom WITH
          Pages <- 1, PageUp <- <<0>>, PageKids <- <<<<>>>>, Room <- 3, Fragments <- Markup
Pair == INSTANCE OverlayDom WITH
          Pages <- 2, PageUp <- <<0, 1>>, PageKids <- <<<<2>>, <<>>>>, Room <- 2, Fragments <- {<<"text", "void">>}
Family == INSTANCE OverlayDom WITH
            Pages <- 3, PageUp <- <<0, 1, 1>>, PageKids <- <<<<2, 3>>, <<>>, <<>>>>, Room <- 1, Fragments <- {<<"text">>}

Attrs == INSTANCE AttrChains WITH
           made <- born, Mine <- {"m"}, Theirs <- {"p"}, Names <- {"id", "x"}, Values <- {"u", "v"}, Room <- 3,
           Own <- [n \in {"p"} |-> [m \in {"id", "x"} |-> IF m = "id" THEN "u" ELSE "absent"]],
           Lists <- {<<>>, <<<<"x", "u">>, <<"id", "v">>>>}

Clock == INSTANCE Zones WITH
           Years <- {2024, 2026}, Steps <- 5,
           Asked <- {"berlin", "newYork", "havana", "nuuk", "sydney", "chatham", "troll", "beirut", "athens", "jerusalem",
                     "azores", "lisbon", "lordHowe", "kolkata", "cairo", "casablanca", "nowhere"}

Of(t) == [part |-> "tag", name |-> t]
Is(parts) == [kind |-> "compound", parts |-> parts]
Within == [kind |-> "child"]
Selectors == {<<Is({Of("a")})>>, <<Is({Of("b")}), Within, Is({Of("div")}), Is({Of("a")})>>,
              <<Is({Of("div")}), Is({[part |-> "has", name |-> ""]})>>,
              <<Is({Of("div")}), Within, Is({[part |-> "is", name |-> "on"]}), Within>>,
              <<Within, Is({Of("a")})>>, <<Is({Of("a")}), [kind |-> "odd"]>>}
Deep == INSTANCE Views WITH
          Pages <- 4, PageUp <- <<0, 1, 2, 3>>, PageKids <- <<<<2>>, <<3>>, <<4>>, <<>>>>, Room <- 1, Fragments <- {<<"open", "text">>},
          PageTag <- <<"b", "div", "div", "a">>, PageAttr <- <<"absent", "absent", "absent", "on">>, PageHidden <- {}, PageOwn <- <<>>,
          Tags <- {"a"}, Values <- {"on"}, Queries <- Selectors, Shift <- 3, Cap <- 2, ElemCap <- 4, Edits <- 2, Gens <- 2,
          Types <- {}, Fns <- {}, Steps <- 0
Nested == INSTANCE Views WITH
            Pages <- 2, PageUp <- <<0, 1>>, PageKids <- <<<<2>>, <<>>>>, Room <- 1, Fragments <- {<<"open">>},
            PageTag <- <<"div", "script">>, PageAttr <- <<"absent", "on">>, PageHidden <- {2}, PageOwn <- <<2>>,
            Tags <- {"script"}, Values <- {"on"}, Queries <- Selectors, Shift <- 3, Cap <- 2, ElemCap <- 4, Edits <- 3, Gens <- 1,
            Types <- {}, Fns <- {}, Steps <- 0
Ears == INSTANCE Views WITH
          Pages <- 1, PageUp <- <<0>>, PageKids <- <<<<>>>>, Room <- 0, Fragments <- {},
          PageTag <- <<"div">>, PageAttr <- <<"absent">>, PageHidden <- {}, PageOwn <- <<>>,
          Tags <- {}, Values <- {}, Queries <- {}, Shift <- 2, Cap <- 1, ElemCap <- 1, Edits <- 0, Gens <- 0,
          Types <- {"click", "load"}, Fns <- {"f", "g"}, Steps <- 4

ASSUME ScenesAssumption ==
  /\ Lone!OverlayAssumption /\ Pair!OverlayAssumption /\ Family!OverlayAssumption
  /\ Attrs!AttrAssumption /\ Clock!ZonesAssumption
  /\ Deep!ViewsAssumption /\ Nested!ViewsAssumption /\ Ears!ViewsAssumption

----------------------------------------------------------------------------
NoDom == Lone!Init

NoViews == tag = <<>> /\ attr = <<>> /\ tree = 1 /\ chars = 1 /\ gen = 1 /\ elems = 0 /\ cols = 0 /\ boxes = 0
           /\ ears = <<>> /\ running = <<>> /\ log = <<>>

MCInit ==
  /\ scene \in WorkerScenes \cup {"lone", "pair", "family", "attrs", "zones",
                               "deep", "nested", "ears"}
  /\ WorkerInit
  /\ \/ scene = "pair" /\ Pair!Init
     \/ scene = "family" /\ Family!Init
     \/ scene = "deep" /\ Deep!ViewsInit
     \/ scene = "nested" /\ Nested!ViewsInit
     \/ scene = "ears" /\ Ears!ViewsInit
     \/ scene \notin {"pair", "family", "deep", "nested", "ears"} /\ NoDom
  /\ scene \notin {"deep", "nested", "ears"} => NoViews
  /\ Attrs!Init
  /\ Clock!Init

\* how far the trees are followed: to the first node inserted before itself, or the end of the realm in a page of more
\* than one node, with one adopted node for each parent,
\* and, of two and three page nodes, to the first that is lost from its parent's list
Straight == ~looped
OneEach == \A p \in DOMAIN dom'.adopted : Len(dom'.adopted[p]) <= 1

\* how far the views are followed: one of the caches is kept in a request, and a request follows one that kept elements
Kept(cache) == cache.key # 0
OneKept == /\ ~(Kept(elems') /\ Kept(boxes'))
           /\ ~(Kept(elems') /\ Kept(cols'["scripts"])) /\ ~(Kept(boxes') /\ Kept(cols'["scripts"]))
AfterKeeping == gen' # gen => Kept(elems)

\* how far the clock is followed: every question comes first, or after one that kept a year of this zone
AskedAgain == last.kind = "none" => rule.zone \in {"none", "lordHowe"}

DomNext == \/ scene = "lone" /\ Lone!Next /\ ~looped' /\ ~dead'
           \/ scene = "pair" /\ Straight /\ Pair!Next /\ OneEach /\ Pair!MovesListed
           \/ scene = "family" /\ Straight /\ Family!Next /\ OneEach /\ Family!MovesListed
ViewNext == /\ \/ scene = "deep" /\ Deep!ViewsNext
               \/ scene = "nested" /\ Nested!ViewsNext
               \/ scene = "ears" /\ Ears!Listen
            /\ OneKept /\ OneEach /\ AfterKeeping

MCNext ==
  /\ UNCHANGED scene
  /\ \/ WorkerNext /\ UNCHANGED <<domVars, attrVars, zoneVars, viewVars>>
     \/ ViewNext /\ UNCHANGED <<workerVars, attrVars, zoneVars>>
     \/ DomNext /\ UNCHANGED <<workerVars, attrVars, zoneVars, viewVars>>
     \/ scene = "attrs" /\ Attrs!Next
        /\ UNCHANGED <<workerVars, domVars, zoneVars, viewVars>>
     \/ scene = "zones" /\ AskedAgain /\ Clock!Next
        /\ UNCHANGED <<workerVars, domVars, attrVars, viewVars>>

MCSpec == MCInit /\ [][MCNext]_mcVars

----------------------------------------------------------------------------
(* The tree a script made out of the page's is one tree to every getter,   *)
(* for three shapes of the page (webidl.rs, MutDom).                       *)
OverlaySound == /\ scene = "lone" => Lone!LinksAgree /\ Lone!ViewsAgree /\ Lone!RoundTrip
                /\ scene = "pair" => Pair!LinksAgree /\ Pair!ViewsAgree /\ Pair!RoundTrip
                /\ scene = "family" => Family!LinksAgree /\ Family!ViewsAgree /\ Family!RoundTrip

(* What a script set is what it reads, on the page's elements too.         *)
ReadsBack == scene = "attrs" => Attrs!ReadsBack

AttrsAgree == scene = "attrs" => Attrs!AttrsAgree

(* What is kept for later is what would be made now: a year of a zone      *)
(* (tz.rs), and what was found in the tree and who listens there           *)
(* (query.rs, layout.rs, webidl.rs).                                       *)
KeptIsFresh == /\ scene = "zones" => Clock!ClockSound
               /\ scene = "deep" => Deep!ViewsSound
               /\ scene = "nested" => Nested!ViewsSound
               /\ scene = "ears" => Ears!ListenersHeard

----------------------------------------------------------------------------
(* What a worker keeps moves as MCWorkers says, in every scene: what is    *)
(* proved of WorkerSpec holds of the run.                                  *)
THEOREM WorkersMove == MCSpec => WorkerSpec
<1>1. MCInit => WorkerInit
  BY DEF MCInit
<1>2. [MCNext]_mcVars => [WorkerNext]_<<scene, workerVars>>
  <2> SUFFICES ASSUME [MCNext]_mcVars PROVE WorkerNext \/ UNCHANGED <<scene, workerVars>>
    OBVIOUS
  <2>1. CASE UNCHANGED mcVars
    BY <2>1 DEF mcVars
  <2>2. CASE MCNext
    BY <2>2 DEF MCNext
  <2>3. QED
    BY <2>1, <2>2
<1>3. QED
  BY <1>1, <1>2, PTL DEF MCSpec, WorkerSpec
=============================================================================
