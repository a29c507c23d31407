--------------------------- MODULE MCSolverStatics ---------------------------
(* What a process has once and all its threads share, as four scenes of    *)
(* one run that share nothing with each other: the answer cache and the    *)
(* deadline watch of the challenge solver, the bridge to the network, and  *)
(* the watch over challenge builds.                                        *)
EXTENDS Integers, Sequences

CONSTANTS Clients, Keys, Slots, SlotOf(_), CacheCalls,              \* AnswerCache
          Callers, Kinds, Patience, Threads, PoolCap, CallTasks, CallJobs, JobCap,
          Ahead, WatchCalls, WatchTicks, Settings,                  \* DeadlineWatch
          Scripts, BridgeCap, BridgeCalls,                          \* FetchBridge
          Urls, Pages, Builds, Visitors, ListCap, ListTtl, Usize, Visits, Rounds, ListTicks \* BuildWatch

VARIABLES scene,
          may, key, xy, len, client, asked, got, served,                 \* AnswerCache
          now, ahead, settings, callers, scans, active, aborting, deadline, lane, free, held, step,
          kind, due, stamp, steady, sent, taken, solved, aborted, answer, calls,    \* DeadlineWatch
          daemon, stand, request, asks, queue, tasks, replied, result,   \* FetchBridge
          first, listed, reported, clock, where, has, victims, excess, probes, runs \* BuildWatch
cacheVars == <<may, key, xy, len, client, asked, got, served>>
watchVars == <<now, ahead, settings, callers, scans, active, aborting, deadline, lane, free, held, step,
               kind, due, stamp, steady, sent, taken, solved, aborted, answer, calls>>
bridgeVars == <<daemon, stand, request, asks, queue, tasks, replied, result>>
buildVars == <<first, listed, reported, clock, where, has, victims, excess, probes, runs>>
staticVars == <<scene, cacheVars, watchVars, bridgeVars, buildVars>>

Cache == INSTANCE AnswerCache WITH at <- client, calls <- served, Calls <- CacheCalls

Watch == INSTANCE DeadlineWatch WITH
           crew <- callers, abort <- aborting, queue <- lane, pool <- held, at <- step,
           found <- solved, ret <- answer, Tasks <- CallTasks, Jobs <- CallJobs, Calls <- WatchCalls, LastTick <- WatchTicks

Bridge == INSTANCE FetchBridge WITH
            at <- stand, job <- request, calls <- asks,
            Workers <- Scripts, Cap <- BridgeCap, Calls <- BridgeCalls

Monitor == INSTANCE BuildWatch WITH
             at <- where, Cap <- ListCap, Ttl <- ListTtl, LastTick <- ListTicks

ASSUME StaticsAssumption == /\ Cache!CacheAssumption /\ Watch!WatchAssumption
                            /\ Bridge!BridgeAssumption /\ Monitor!WatchAssumption

----------------------------------------------------------------------------
\* the clock at its end: fairness would have it go on in the other scenes
NoWatch == Watch!Quiet /\ callers = {} /\ scans = FALSE /\ now = WatchTicks /\ ahead = 0 /\ settings = 0
NoCache == Cache!Init /\ may = [c \in Clients |-> {}]

StaticsInit == /\ Bridge!Init /\ Monitor!Init
               /\ \/ scene = "cache" /\ Cache!Init /\ NoWatch
                  \/ scene = "watch" /\ Watch!Init /\ NoCache
                  \/ scene \in {"bridge", "builds"} /\ NoCache /\ NoWatch

StaticsNext ==
  /\ UNCHANGED scene
  /\ \/ scene = "cache" /\ Cache!Next /\ UNCHANGED <<watchVars, bridgeVars, buildVars>>
     \/ scene = "watch" /\ Watch!Next /\ UNCHANGED <<cacheVars, bridgeVars, buildVars>>
     \/ scene = "bridge" /\ Bridge!Next /\ UNCHANGED <<cacheVars, watchVars, buildVars>>
     \/ scene = "builds" /\ Monitor!Next /\ UNCHANGED <<cacheVars, watchVars, bridgeVars>>

StaticsSpec == StaticsInit /\ [][StaticsNext]_staticVars

\* builds have no other names: the one that this visitor, who has one visit, meets is not the other
CONSTANTS Someone, Other
NotTheOther == has'[Someone].build # Other

\* several callers call once each, just before the last tick, the first without a deadline, and
\* nobody sets the wall clock, and their jobs end; a caller alone starts with the clock
CONSTANT First
Crowd == callers # {First}
MCInit == /\ StaticsInit
          /\ scene = "watch" => IF Crowd THEN callers = Callers /\ scans /\ now + 1 = WatchTicks /\ ahead = 0
                                ELSE now = 1
CrowdCalls == Crowd => settings' = 0 /\ kind'[First] = "plain" /\ \A c \in callers : calls'[c] <= 1

MCSpec == /\ MCInit
          /\ [][StaticsNext /\ NotTheOther /\ CrowdCalls]_staticVars
          /\ Watch!Fairness /\ Bridge!Fairness

----------------------------------------------------------------------------
StaticsSound == /\ Cache!HitsAreOfTheSlot /\ Cache!SlotsCounted
                /\ Monitor!CapKept /\ Monitor!NoneUnnoticed
ReturnIsTrue == Watch!ReturnIsTrue
UntilEnds == Watch!UntilEnds
CallsEnd == Watch!CallsEnd
RepliesOwned == Bridge!RepliesOwned
WorkersReturn == Bridge!WorkersReturn

LowBit(k) == k % 2
Clocks == {-2, 0}
=============================================================================
