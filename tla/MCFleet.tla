------------------------------- MODULE MCFleet -------------------------------
(* Four scenes in one run: the fleet over two hubs; one hub that is used   *)
(* directly, with every operation in any order, a compaction that comes    *)
(* early and ticks cut short; one tab, with what it sends; and the cookies *)
(* a tab starts from - what is sent where, for a domain and its hosts, and *)
(* what goes when the jar is full.  They share no state.                   *)
EXTENDS Fleet, TLC

CONSTANTS HubFactor, HubSlack, StepLimit, HubTabs, MaxSites, MaxGen, LastHubTick,   \* InputHub
          Texts, Distances, NotchPx, Nudges, Delays, Deadlines, LastCycle,       \* TabSession
          Settings                                                               \* CookieJar

VARIABLES scene,
          hub, hubNow, steps,
          tab, clock, page,
          setting, jar, jarNow
hubVars == <<hub, hubNow, steps>>
tabVars == <<tab, clock, page>>
jarVars == <<setting, jar, jarNow>>
mcVars == <<vars, scene, hubVars, tabVars, jarVars>>

Hub == INSTANCE InputHub WITH
         now <- hubNow, CompactFactor <- HubFactor, CompactSlack <- HubSlack,
         MaxTabs <- HubTabs, LastTick <- LastHubTick

Tab == INSTANCE TabSession WITH Totals <- Distances

Jar == INSTANCE CookieJar WITH now <- jarNow

ASSUME ScenesAssumption == /\ Hub!InputHubAssumption /\ Hub!HubAssumption /\ Tab!SessionAssumption
                           /\ Jar!JarAssumption

NoTab == /\ tab = Tab!StartInbound /\ page = Tab!NewPage
         /\ clock = [now |-> 0, cycle |-> 0, late |-> FALSE]

MCInit == /\ Init /\ Hub!Init
          /\ \/ scene \in {"fleet", "hub", "jar"} /\ NoTab
             \/ scene = "tab" /\ Tab!Init
          /\ Jar!Init /\ (scene # "jar" => setting = CHOOSE s \in Settings : TRUE)

MCNext == /\ UNCHANGED scene
          /\ \/ scene = "fleet" /\ Next /\ UNCHANGED <<hubVars, tabVars, jarVars>>
             \/ scene = "hub" /\ Hub!Next /\ UNCHANGED <<vars, tabVars, jarVars>>
             \/ scene = "tab" /\ Tab!Next /\ UNCHANGED <<vars, hubVars, jarVars>>
             \/ scene = "jar" /\ Jar!Next /\ UNCHANGED <<vars, hubVars, tabVars>>

MCSpec == MCInit /\ [][MCNext]_mcVars

HubSound == Hub!HubSound
InputWellFormed == scene = "tab" => Tab!InputWellFormed

(* A cookie comes back to where it was set, goes nowhere else, and a tab's *)
(* copy of the jar sends the same (session.rs, header_for_url_into).       *)
CookiesHome == scene = "jar" => Jar!NoLeak /\ Jar!ComesBack /\ Jar!CopySendsSame

(* A full jar gives up the cookie that ends soonest and no other, and its  *)
(* index by name follows (session.rs, ingest_scoped).                      *)
EvictsSoonest == scene = "jar" => Jar!IndexAgrees /\ Jar!EvictsSoonest

-----------------------------------------------------------------------------
MCTexts == {<<>>, <<"a">>, <<"a", "b", "a">>}
MCDeadlines == [Move |-> 5, Focus |-> 9, Click |-> 14]
\* two jars: a domain and two of its hosts; and two names for what does not fit
MCSettings == {
  [names |-> {"n"}, hosts |-> {"e", "a.e", "b.e"}, values |-> {1},
   within |-> {<<"a.e", "e">>, <<"b.e", "e">>}, paths |-> {<<"x", "">>, <<"x", "y">>},
   flags |-> BOOLEAN, cap |-> 2, made |-> 2, lastTick |-> 1],
  [names |-> {"n", "m"}, hosts |-> {"e"}, values |-> {1}, within |-> {}, paths |-> {<<"">>},
   flags |-> {FALSE}, cap |-> 3, made |-> 4, lastTick |-> 2]}

CONSTANTS k1, k2
MCSymmetry == Permutations({k1, k2})
=============================================================================
