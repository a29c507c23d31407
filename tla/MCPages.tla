------------------------------- MODULE MCPages -------------------------------
(* A page's way in, as scenes of one run that share nothing: its bytes     *)
(* into the parser, its tree, what is collected of it (boxes and texts,    *)
(* scripts, forms), one visit under every small robots.txt, and two visits *)
(* under a few.                                                            *)
EXTENDS Naturals, SequencesExt

VARIABLES scene,
          doc, foreign, declared, memory, quiet, stage, pos, head,
          stopped, cut, transportErr, pipe, page,                        \* PageStream
          used, parent, first, last, next, prev, live, gen, free,
          scripts, pre, post, attached, opens, truncated, old,           \* DomTree
          site, robotsOn, cache, at, url, depth, text, hops,             \* Visits
          made, els, scr, kept, phase                                    \* Collector
streamVars == <<doc, foreign, declared, memory, quiet, stage, pos, head, stopped, cut, transportErr, pipe, page>>
treeVars == <<used, parent, first, last, next, prev, live, gen, free, scripts, pre, post, attached, opens, truncated, old>>
visitVars == <<site, robotsOn, cache, at, url, depth, text, hops>>
collectorVars == <<made, els, scr, kept, phase>>
mcVars == <<scene, streamVars, treeVars, visitVars, collectorVars>>

Stream == INSTANCE PageStream WITH
            at <- stage, truncated <- cut,
            DocLen <- 5, Brake <- 4, RawCap <- 4, HeadWindow <- 2, Room <- 2, JoinWidth <- 4, Memory <- {2, 10}

Tree == INSTANCE DomTree WITH Room <- 5, Opens <- 6

R == INSTANCE Robots
Other == [key |-> "crawl-delay", value |-> "x"]
Groups == BoundedSeq({R!Agent("*"), R!Agent("us"), R!Agent("them"), Other,
                      R!Rule("allow", <<"a", "b">>), R!Rule("disallow", <<"a">>)}, 4)
Globs == {<<R!Agent("*"), R!Rule("disallow", g)>> : g \in BoundedSeq({"a", "b", "*", "$"}, 3)}
Pairs == {<<R!Agent("*"), R!Rule("allow", g), R!Rule("disallow", h)>> : g, h \in BoundedSeq({"a", "*", "$"}, 2)}

Rules == INSTANCE Visits WITH
           Tasks <- {"v"}, Hosts <- {"h"}, NavHopMax <- 0, Bodies <- Groups \cup Globs \cup Pairs,
           Paths <- {<<"a">>, <<"b">>, <<"a", "b">>, <<"a", "b", "a">>}

Race == INSTANCE Visits WITH
          Tasks <- {"v", "w"}, Hosts <- {"h", "i"}, NavHopMax <- 1,
          Bodies <- {<<>>, <<R!Agent("*"), R!Rule("disallow", <<"a", "b">>)>>}, Paths <- {<<"a">>, <<"a", "b">>}

OfBoxes == {"div", "box", "item", "link", "br"}
OfScripts == {"script", "solver", "hcaptcha", "geetest", "link"}
OfForms == {"form", "field", "token", "title", "next", "lib"}
Boxes == INSTANCE Collector WITH
           c <- kept, stage <- phase, Tags <- 4, Kinds <- OfBoxes,
           EvCap <- 6, PoolCap <- 5, Room <- 5, OpenCap <- 3, ScriptCap <- 1, TitleCap <- 1, FieldCap <- 1,
           MaxForms <- 1, MaxFields <- 1, MaxTokens <- 1, SrcCap <- 2, MarkerCap <- 1
Loaded == INSTANCE Collector WITH
            c <- kept, stage <- phase, Tags <- 4, Kinds <- OfScripts,
            EvCap <- 6, PoolCap <- 5, Room <- 5, OpenCap <- 3, ScriptCap <- 1, TitleCap <- 1, FieldCap <- 1,
            MaxForms <- 1, MaxFields <- 1, MaxTokens <- 1, SrcCap <- 2, MarkerCap <- 1
Asked == INSTANCE Collector WITH
           c <- kept, stage <- phase, Tags <- 4, Kinds <- OfForms,
           EvCap <- 6, PoolCap <- 5, Room <- 5, OpenCap <- 3, ScriptCap <- 1, TitleCap <- 1, FieldCap <- 1,
           MaxForms <- 1, MaxFields <- 1, MaxTokens <- 1, SrcCap <- 2, MarkerCap <- 1

ASSUME /\ Stream!StreamAssumption /\ Tree!TreeAssumption
       /\ Rules!VisitAssumption /\ Race!VisitAssumption
       /\ Boxes!CollectorAssumption /\ Loaded!CollectorAssumption /\ Asked!CollectorAssumption

NoStream == doc = <<>> /\ foreign = FALSE /\ declared = FALSE /\ memory = 2 /\ quiet = FALSE /\ Stream!Init
NoVisit == robotsOn = FALSE /\ site = [h \in {"h"} |-> <<>>] /\ url = [v \in {"v"} |-> <<"h", <<"a">>>>] /\ Rules!Init

\* starts that differ in nothing a run can show: a parser is quiet about a limit it meets, another encoding knows
\* ASCII and the rest, no robots.txt counts where none is asked, and hosts have no other names
SameStream == /\ quiet => memory = 2
              /\ foreign => ToSet(doc) \subseteq {"ascii", "cont"}
SameRace == /\ robotsOn \/ site = [h \in {"h", "i"} |-> <<>>]
            /\ url["v"][1] = "h"

MCInit == /\ scene \in {"stream", "tree", "rules", "race", "boxes", "loaded", "asked"}
          /\ IF scene = "stream" THEN Stream!Init /\ SameStream ELSE NoStream
          /\ \/ scene = "rules" /\ robotsOn = TRUE /\ Rules!Init
             \/ scene = "race" /\ Race!Init /\ SameRace
             \/ scene \notin {"rules", "race"} /\ NoVisit
          /\ Tree!Init /\ Boxes!Init

CollectorNext == \/ scene = "boxes" /\ Boxes!Next
                 \/ scene = "loaded" /\ Loaded!Next
                 \/ scene = "asked" /\ Asked!Next

MCNext == /\ UNCHANGED scene
          /\ \/ scene = "stream" /\ Stream!Next /\ UNCHANGED <<treeVars, visitVars, collectorVars>>
             \/ scene = "tree" /\ Tree!Next /\ UNCHANGED <<streamVars, visitVars, collectorVars>>
             \/ scene = "rules" /\ Rules!Next /\ UNCHANGED <<streamVars, treeVars, collectorVars>>
             \/ scene = "race" /\ Race!Next /\ UNCHANGED <<streamVars, treeVars, collectorVars>>
             \/ CollectorNext /\ UNCHANGED <<streamVars, treeVars, visitVars>>

MCSpec == MCInit /\ [][MCNext]_mcVars

LossTold == scene = "stream" => Stream!LossTold
TreeSound == scene = "tree" => Tree!TreeSound

(* What is kept of a page is where the page has it, and what is not is     *)
(* told (collector.rs, scratch.rs).                                        *)
PageKept == /\ scene = "boxes" => Boxes!PageSound
            /\ scene = "loaded" => Loaded!PageSound
            /\ scene = "asked" => Asked!PageSound

RobotsObeyed == /\ scene = "rules" => Rules!RobotsObeyed
                /\ scene = "race" => Race!RobotsObeyed
=============================================================================
