------------------------------ MODULE Collector ------------------------------
(***************************************************************************)
(* What is kept of a page (parser-pipeline: pipeline.rs, scratch.rs,       *)
(* collector.rs, dom.rs): the handlers of the parser write events into an  *)
(* arena of fixed size, which is drained into the collector after every    *)
(* chunk.  The collector keeps only some elements; a stack of flags says   *)
(* of every open one whether it was kept, and a stack of nodes is what the *)
(* next one is hung under.                                                 *)
(*                                                                         *)
(* A text stands for the element it is written in.  Every element but a    *)
(* void one has its end tag: what the parser (lol_html, external) reports  *)
(* for an omitted one is not modelled.                                     *)
(***************************************************************************)
EXTENDS Integers, SequencesExt, FiniteSetsExt

CONSTANTS EvCap, PoolCap,                \* EV_CAP, POOL_CAP, in texts
          Room, OpenCap,                 \* MAX_NODES, the 512 of OpenStack::push
          ScriptCap, TitleCap, FieldCap, \* SCRIPT_CAP, 256, the cap of an extract: in texts
          MaxForms, MaxFields, MaxTokens, SrcCap, MarkerCap,
          Kinds,                         \* bound: the elements a page is made of
          Tags                           \* bound: start tags and texts of a page

CollectorAssumption ==
  /\ {EvCap, PoolCap, Room, OpenCap, ScriptCap, TitleCap, FieldCap, MaxForms, MaxFields, MaxTokens, SrcCap, MarkerCap, Tags} \subseteq Nat
  /\ Kinds \subseteq {"div", "box", "item", "link", "br", "script", "solver", "next", "lib", "hcaptcha", "geetest",
                      "form", "field", "token", "title"}

VARIABLES made,   \* the elements of the page: kind and the element around (history)
          els,    \* the open ones
          scr,    \* EvScratch: events, texts in the pool, overflow
          c,      \* Collector
          stage   \* "reading", "done"
collectorVars == <<made, els, scr, c, stage>>

-----------------------------------------------------------------------------
(* Tags, and what makes an element worth keeping: its tag, or an id, a     *)
(* class or a data attribute.                                              *)

Kind(tag, marked, named, void) == [tag |-> tag, marked |-> marked, named |-> named, void |-> void]
Info(k) == CASE k = "div" -> Kind("div", FALSE, FALSE, FALSE)
             [] k = "box" -> Kind("div", TRUE, TRUE, FALSE)
             [] k = "item" -> Kind("li", TRUE, TRUE, FALSE)
             [] k = "link" -> Kind("a", TRUE, FALSE, FALSE)
             [] k = "br" -> Kind("br", FALSE, FALSE, TRUE)
             [] k \in {"field", "token"} -> Kind("input", TRUE, FALSE, TRUE)
             [] k \in {"form", "title"} -> Kind(k, TRUE, FALSE, FALSE)
             [] OTHER -> Kind("script", TRUE, FALSE, FALSE)

Sources == {"lib", "hcaptcha", "geetest"}  \* scripts with a src
Priority == <<"hcaptcha", "geetest">>      \* PRIORITY, of the families here
Needles == {"hcaptcha"}                    \* the rows that are a challenge and have a route

SiblingCloses(opening, top) == opening = "li" /\ top = "li"

-----------------------------------------------------------------------------
(* The scratch arena, of one chunk. *)

EmptyScratch == [evs |-> <<>>, pool |-> 0, over |-> FALSE]

(* push_str: a text without room is empty, and told. *)
PushStr(s) == IF s.pool = PoolCap THEN [s EXCEPT !.over = TRUE] ELSE [s EXCEPT !.pool = @ + 1]
TextOf(s, n) == IF s.pool = PoolCap THEN 0 ELSE n

Emit(s, e) == IF Len(s.evs) = EvCap THEN [s EXCEPT !.over = TRUE] ELSE [s EXCEPT !.evs = Append(@, e)]
EmitAll(s, es) == FoldLeft(Emit, s, es)

-----------------------------------------------------------------------------
NoScript == [kind |-> "none", texts |-> <<>>, over |-> FALSE, node |-> 0]

Empty == [nodes |-> <<>>, open |-> <<>>, skip |-> <<>>, script |-> NoScript, titleOpen |-> FALSE, title |-> <<>>,
          full |-> FALSE, forms |-> <<>>, form |-> 0, tokens |-> <<>>, srcs |-> <<>>, markers |-> <<>>, inline |-> 0,
          challenge |-> <<>>, challengeNode |-> 0, next |-> FALSE, extract |-> <<>>, errors |-> 0,
          truncated |-> FALSE, implied |-> FALSE, deep |-> FALSE]
\* implied and deep are history: a start tag closed an element, an element went deeper than the stack

Init == made = <<>> /\ els = <<>> /\ scr = EmptyScratch /\ c = Empty /\ stage = "reading"

Top(x) == IF x.open = <<>> THEN 0 ELSE Last(x.open)
TagOf(x, n) == x.nodes[n].tag
Named(x, n) == x.nodes[n].named

(* push_slot *)
PushSlot(x, node) == IF Len(x.nodes) = Room THEN [x EXCEPT !.truncated = TRUE] ELSE [x EXCEPT !.nodes = Append(@, node)]

(* imply_close *)
Implied(x, tag) ==
  LET stay == {i \in 0 .. Len(x.open) : i = 0 \/ ~SiblingCloses(tag, TagOf(x, x.open[i]))}
      depth == Max(stay)
  IN  [x EXCEPT !.open = SubSeq(@, 1, depth), !.implied = @ \/ depth < Len(x.open)]

Push(x, n) == IF Len(x.open) < OpenCap THEN [x EXCEPT !.open = Append(@, n)] ELSE [x EXCEPT !.deep = TRUE]

(* Mutant: the flag of an element is only noted when it is kept. *)
SkipNoted(x, marked) == IF marked THEN [x EXCEPT !.skip = Append(@, FALSE)] ELSE x

Noted(x, marked) == [x EXCEPT !.skip = Append(@, ~marked)]

DomOpen(x, e) ==
  LET k == Info(e.kind)
      y == Implied(x, k.tag)
      z == PushSlot(y, [src |-> e.src, tag |-> k.tag, parent |-> Top(y), named |-> k.named, texts |-> <<>>])
      added == Len(z.nodes) > Len(y.nodes)
      kept == IF added /\ ~k.void THEN Push(z, Len(z.nodes)) ELSE z
      opened == IF k.marked THEN kept ELSE x
  IN  IF k.void THEN opened ELSE Noted(opened, k.marked)

(* A text goes to the innermost kept element, if that is of a kind whose   *)
(* text is kept; one that follows a text extends it.                       *)
DomText(x, e) ==
  LET top == Top(x)
      end == Len(x.nodes)
  IN  IF top = 0 \/ ~(TagOf(x, top) = "a" \/ (TagOf(x, top) # "script" /\ Named(x, top))) THEN x
      ELSE IF x.nodes[end].tag = "#text" /\ x.nodes[end].parent = top
           THEN [x EXCEPT !.nodes[end].texts = Append(@, e.text)]
           ELSE PushSlot(x, [src |-> 0, tag |-> "#text", parent |-> top, named |-> FALSE, texts |-> <<e.text>>])

DomClose(x, e) ==
  LET y == [x EXCEPT !.skip = IF @ = <<>> THEN @ ELSE Front(@)]
      same == {i \in DOMAIN x.open : TagOf(x, x.open[i]) = Info(e.kind).tag}
  IN  IF x.skip # <<>> /\ Last(x.skip) THEN y
      ELSE IF same = {} THEN y
      ELSE [y EXCEPT !.open = SubSeq(@, 1, Max(same) - 1)]

-----------------------------------------------------------------------------
FinalizeScript(x) ==
  LET s == x.script
      y == [x EXCEPT !.script = NoScript]
  IN  CASE s.kind = "none" -> x
        [] s.kind = "next" -> IF s.over \/ s.texts = <<>> THEN [y EXCEPT !.errors = @ + 1] ELSE [y EXCEPT !.next = TRUE]
        [] OTHER -> IF ~s.over /\ s.texts # <<>> /\ s.kind = "solver"
                    THEN [y EXCEPT !.challenge = s.texts, !.challengeNode = s.node]
                    ELSE [y EXCEPT !.inline = @ + 1]

(* last_script_node *)
LastScript(x) == LET all == {n \in DOMAIN x.nodes : TagOf(x, n) = "script"} IN IF all = {} THEN 0 ELSE Max(all)

Script(x, e) ==
  LET y == FinalizeScript(x)
  IN  IF e.kind \in Sources THEN IF Len(y.srcs) < SrcCap THEN [y EXCEPT !.srcs = Append(@, e.kind)] ELSE y
      ELSE [y EXCEPT !.script = [NoScript EXCEPT !.kind = e.kind, !.node = LastScript(y)]]

ScriptText(x, e) ==
  LET full == Len(x.script.texts) = ScriptCap
      y == IF e.text = 0 THEN x
           ELSE IF full THEN [x EXCEPT !.script.over = TRUE]
           ELSE [x EXCEPT !.script.texts = Append(@, e.text)]
  IN  IF x.script.kind = "none" THEN x ELSE IF e.last THEN FinalizeScript(y) ELSE y

TitleText(x, e) ==
  LET y == IF e.text = 0 \/ x.full THEN x
           ELSE IF Len(x.title) = TitleCap THEN [x EXCEPT !.full = TRUE]
           ELSE [x EXCEPT !.title = Append(@, e.text), !.full = Len(x.title) + 1 = TitleCap]
  IN  IF ~x.titleOpen THEN x ELSE [y EXCEPT !.titleOpen = ~e.last]

Form(x, e) == IF Len(x.forms) >= MaxForms THEN [x EXCEPT !.form = 0]
              ELSE [x EXCEPT !.forms = Append(@, [src |-> e.src, fields |-> <<>>]), !.form = Len(x.forms) + 1]

Field(x, e) ==
  LET y == IF e.kind = "token" /\ Len(x.tokens) < MaxTokens THEN [x EXCEPT !.tokens = Append(@, e.src)] ELSE x
  IN  IF x.form = 0 \/ Len(x.forms[x.form].fields) >= MaxFields THEN y
      ELSE [y EXCEPT !.forms[x.form].fields = Append(@, e.src)]

(* push_extract, of the one selector there is: links. *)
Extract(x, e) == IF Len(x.extract) >= FieldCap THEN x ELSE [x EXCEPT !.extract = Append(@, e.text)]

ChallengeDetected(x, e) == IF Len(x.markers) < MarkerCap THEN [x EXCEPT !.markers = Append(@, e.kind)] ELSE x

Apply(x, e) == CASE e.ev = "DomOpen" -> DomOpen(x, e)
                 [] e.ev = "DomText" -> DomText(x, e)
                 [] e.ev = "DomClose" -> DomClose(x, e)
                 [] e.ev = "Script" -> Script(x, e)
                 [] e.ev = "ScriptText" -> ScriptText(x, e)
                 [] e.ev = "TitleOpen" -> [x EXCEPT !.titleOpen = TRUE]
                 [] e.ev = "TitleText" -> TitleText(x, e)
                 [] e.ev = "Form" -> Form(x, e)
                 [] e.ev = "Field" -> Field(x, e)
                 [] e.ev = "Extract" -> Extract(x, e)
                 [] e.ev = "ChallengeDetected" -> ChallengeDetected(x, e)

(* drain_into: an overflow counts as one error. *)
Drained(s, x) == LET y == FoldLeft(Apply, x, s.evs) IN IF s.over THEN [y EXCEPT !.errors = @ + 1] ELSE y

-----------------------------------------------------------------------------
(* The handlers, in the order they were registered in (build). *)

Event(ev, k, n) == [ev |-> ev, kind |-> k, src |-> n]

Handled(k, n) ==
  <<Event("DomOpen", k, n)>>
  \o (IF k \in Needles THEN <<Event("ChallengeDetected", k, n)>> ELSE <<>>)
  \o CASE Info(k).tag = "script" -> <<Event("Script", k, n)>>
       [] k = "form" -> <<Event("Form", k, n)>>
       [] Info(k).tag = "input" -> <<Event("Field", k, n)>>
       [] k = "title" -> <<Event("TitleOpen", k, n)>>
       [] OTHER -> <<>>

Around == IF els = <<>> THEN 0 ELSE Last(els)
Raw(n) == n # 0 /\ Info(made[n].kind).tag \in {"script", "title"}

StartTag(k) ==
  LET n == Len(made) + 1
  IN  /\ stage = "reading" /\ n <= Tags /\ ~Raw(Around)
      /\ made' = Append(made, [kind |-> k, above |-> Around])
      /\ els' = IF Info(k).void THEN els ELSE Append(els, n)
      /\ scr' = EmitAll(scr, Handled(k, n))
      /\ UNCHANGED <<c, stage>>

EndTag == /\ stage = "reading" /\ els # <<>>
          /\ els' = Front(els)
          /\ scr' = Emit(scr, Event("DomClose", made[Around].kind, Around))
          /\ UNCHANGED <<made, c, stage>>

(* Each handler of a text takes the text for itself. *)
Text(last) ==
  LET n == Around
      tag == Info(made[n].kind).tag
      heard == (IF tag = "script" THEN <<"ScriptText">> ELSE IF tag = "title" THEN <<"TitleText">> ELSE <<>>)
               \o <<"DomText">> \o (IF \E i \in ToSet(els) : made[i].kind = "link" THEN <<"Extract">> ELSE <<>>)
      tell(s, ev) == Emit(PushStr(s), [ev |-> ev, text |-> TextOf(s, n), last |-> last])
  IN  /\ stage = "reading" /\ n # 0 /\ Len(made) < Tags
      /\ made' = Append(made, [kind |-> "#text", above |-> n])
      /\ scr' = FoldLeft(tell, scr, heard)
      /\ UNCHANGED <<els, c, stage>>

(* push: the chunk is parsed, its events are drained. *)
EndChunk == /\ stage = "reading" /\ scr # EmptyScratch
            /\ c' = Drained(scr, c) /\ scr' = EmptyScratch
            /\ UNCHANGED <<made, els, stage>>

(* finish, into_page: what is pending is settled. *)
Finish == /\ stage = "reading" /\ stage' = "done"
          /\ c' = [FinalizeScript([Drained(scr, c) EXCEPT !.titleOpen = FALSE]) EXCEPT !.form = 0]
          /\ scr' = EmptyScratch
          /\ UNCHANGED <<made, els>>

(* detect_widget and detect_route, over what was collected. *)
Best(urls) == LET hits == {i \in DOMAIN Priority : \E j \in DOMAIN urls : urls[j] = Priority[i]}
              IN  IF hits = {} THEN "none" ELSE Priority[Min(hits)]
Widget == Best(c.markers \o c.srcs)
Route == LET routed == SelectSeq(c.srcs, LAMBDA s : s \in Needles)
         IN  IF routed # <<>> THEN Best(routed) ELSE IF c.challenge # <<>> THEN "inHouse" ELSE "none"

Next == \/ \E k \in Kinds : StartTag(k)
        \/ EndTag
        \/ \E last \in BOOLEAN : Text(last)
        \/ EndChunk
        \/ Finish
Spec == Init /\ [][Next]_collectorVars

-----------------------------------------------------------------------------
Elements == {n \in DOMAIN made : made[n].kind # "#text"}
Marked(n) == Info(made[n].kind).marked

(* The innermost element around n, or n itself, that is worth keeping. *)
Keeper[n \in 0 .. Tags] == IF n = 0 THEN 0 ELSE IF Marked(n) THEN n ELSE Keeper[made[n].above]

SrcOf(n) == IF n = 0 THEN 0 ELSE c.nodes[n].src

(* Nothing went past a limit, and no start tag closed an element. *)
Whole == ~scr.over /\ c.errors = 0 /\ ~c.truncated /\ ~c.implied /\ ~c.deep

TypeOK == /\ stage \in {"reading", "done"} /\ Len(scr.evs) <= EvCap /\ scr.pool <= PoolCap
          /\ Len(c.nodes) <= Room /\ Len(c.open) <= OpenCap

(* On a page that met no limit an element hangs under the innermost kept   *)
(* element around it, a text stays in the element it is written in, and    *)
(* the stacks hold the elements that are open (collector.rs, apply;        *)
(* tests/stream.rs, adaptive_filter_keeps_only_target_tree).               *)
TreeKept ==
  Whole =>
    /\ \A n \in DOMAIN c.nodes :
         IF c.nodes[n].tag = "#text"
         THEN \A t \in ToSet(c.nodes[n].texts) : Keeper[t] = SrcOf(c.nodes[n].parent)
         ELSE SrcOf(c.nodes[n].parent) = Keeper[made[c.nodes[n].src].above]
    /\ scr.evs = <<>> /\ stage = "reading" =>
         /\ [i \in DOMAIN c.open |-> SrcOf(c.open[i])] = SelectSeq(els, Marked)
         /\ c.skip = [i \in DOMAIN els |-> ~Marked(els[i])]
    /\ stage = "done" => {n \in Elements : Marked(n)} = {c.nodes[n].src : n \in DOMAIN c.nodes} \ {0}

(* What is captured of a script is the text of that script, all of it, and *)
(* a challenge is tied to its own element (challenge_node).                *)
ScriptsApart ==
  LET texts == c.script.texts
  IN  scr.over \/ c.errors > 0 \/ c.truncated
      \/ /\ \A i \in DOMAIN texts : texts[i] = SrcOf(c.script.node)
         /\ c.script.kind # "none" => made[SrcOf(c.script.node)].kind = c.script.kind
         /\ c.challenge # <<>> => /\ ToSet(c.challenge) = {SrcOf(c.challengeNode)}
                                  /\ made[SrcOf(c.challengeNode)].kind = "solver"

(* A field is recorded with the last form that started before it, and with *)
(* none when that one was past the limit.                                  *)
FieldsHome ==
  scr.over \/ c.errors > 0
  \/ \A i \in DOMAIN c.forms : \A f \in ToSet(c.forms[i].fields) :
       c.forms[i].src = Max({n \in Elements : made[n].kind = "form" /\ n < f})

(* Events and texts lost for want of room are told as errors, and nodes as *)
(* a truncated tree (tests/scratch_unit.rs, scratch_pool_overflow).        *)
LossesTold ==
  stage = "done" /\ c.errors = 0 /\ ~c.truncated =>
    /\ \A n \in Elements : Marked(n) => \E i \in DOMAIN c.nodes : c.nodes[i].src = n
    /\ Len(c.srcs) = Min({SrcCap, Cardinality({n \in Elements : made[n].kind \in Sources})})
    /\ Len(c.tokens) = Min({MaxTokens, Cardinality({n \in Elements : made[n].kind = "token"})})

(* The widget is the strongest of the families the page loads, wherever on *)
(* the page it is (tests/detector.rs, detect_widget_routes_by_priority).   *)
StrongestWins ==
  stage = "done" /\ c.errors = 0 /\ Cardinality({n \in Elements : made[n].kind \in Sources}) <= SrcCap =>
    /\ \A n \in Elements : made[n].kind = "hcaptcha" => Widget = "hcaptcha" /\ Route = "hcaptcha"
    /\ Widget = "geetest" => \A n \in Elements : made[n].kind # "hcaptcha"

PageSound == TypeOK /\ TreeKept /\ ScriptsApart /\ FieldsHome /\ LossesTold /\ StrongestWins
=============================================================================
