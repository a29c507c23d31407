------------------------------ MODULE MCWorkers ------------------------------
(* What a worker keeps for its scripts, as scenes that share nothing: the  *)
(* caches in front of the engine, the registries of the objects a script   *)
(* makes, what is cleared between two scripts, who observes what they      *)
(* change, formatters, and a canvas.  MCScripts adds the tree they change. *)
EXTENDS Naturals, Sequences, TLC

CONSTANTS SharedCache, FunctionCache,        \* of a cache: its workers, scripts, normal forms and limits
          RegBounds, XhrBounds, RtcBounds,   \* of a registry: its limits, and how far its objects are followed
          ScopeBounds,                       \* requests served and engines made
          WatchBounds,                       \* observers and targets, and how far they are followed
          FormatBounds, CanvasBounds         \* what scripts ask of Intl; sizes of a canvas, and how far it is drawn on

VARIABLES scene,
          used, cached, now, nextSweep, at, script, cut, todo, cur, prev, recent,         \* ScriptCache
          slots, gens, free, live, made, ids,                                             \* RegVec
          st, opens, jobs, firing, due,                                                   \* XhrObjects, RtcPeers
          slot, held, place, req, try, env, engines, lift, err, control, cancelled, sent, \* RequestScopes
          observers, recs, batch, alive, changes, got,                                    \* ScriptObservers
          kind, targets, scheduled, frames, told, missed,                                 \* ScriptObservers
          profile, request, inst, count, realm, ring, cell, shown,                        \* Formatters
          area, epoch, ctx, picture, reads                                                \* CanvasFrames
cacheVars == <<used, cached, now, nextSweep, at, script, cut, todo, cur, prev, recent>>
regVars == <<slots, gens, free, live, made, ids>>
objectVars == <<st, opens, jobs, firing, due>>
scopeVars == <<slot, held, place, req, try, env, engines, lift, err, control, cancelled, sent>>
recordVars == <<observers, recs, batch, alive, changes, got>>
frameVars == <<kind, targets, scheduled, frames, told, missed>>
formatVars == <<profile, request, inst, count, realm, ring, cell, shown>>
canvasVars == <<area, epoch, ctx, picture, reads>>
workerVars == <<cacheVars, regVars, objectVars, scopeVars, recordVars, frameVars, formatVars, canvasVars>>

----------------------------------------------------------------------------
SharedForm(s) == SharedCache.formOf[s]
Shared == INSTANCE ScriptCache WITH
            entries <- cached, Workers <- SharedCache.workers,
            Scripts <- SharedCache.scripts, Skels <- SharedCache.forms, SkelOf <- SharedForm,
            Room <- SharedCache.room, MaxAge <- SharedCache.maxAge, SweepGap <- SharedCache.sweepGap,
            FnCap <- SharedCache.fnCap, LastTick <- SharedCache.lastTick
MCShared == [workers |-> {"u", "w"}, scripts |-> {2, 3}, forms |-> {1}, formOf |-> [s \in {2, 3} |-> 1],
             room |-> 2, maxAge |-> 1, sweepGap |-> 1, fnCap |-> 1, lastTick |-> 1]

FunctionForm(s) == FunctionCache.formOf[s]
Functions == INSTANCE ScriptCache WITH
               entries <- cached, Workers <- FunctionCache.workers,
               Scripts <- FunctionCache.scripts, Skels <- FunctionCache.forms, SkelOf <- FunctionForm,
               Room <- FunctionCache.room, MaxAge <- FunctionCache.maxAge, SweepGap <- FunctionCache.sweepGap,
               FnCap <- FunctionCache.fnCap, LastTick <- FunctionCache.lastTick
MCFunctions == [workers |-> {"u"}, scripts |-> 1 .. 5, forms |-> 1 .. 5, formOf |-> [s \in 1 .. 5 |-> s],
                room |-> 1, maxAge |-> 1, sweepGap |-> 1, fnCap |-> 2, lastTick |-> 0]

Reg == INSTANCE RegVec WITH Cap <- RegBounds.cap, Gens <- RegBounds.gens, Allocs <- RegBounds.allocs
MCReg == [cap |-> 2, gens |-> 4, allocs |-> 5]

Xhr == INSTANCE XhrObjects WITH
         Cap <- XhrBounds.cap, Gens <- XhrBounds.gens, Allocs <- XhrBounds.allocs,
         Opens <- XhrBounds.opens, Jobs <- XhrBounds.jobs
MCXhr == [cap |-> 2, gens |-> 5, allocs |-> 3, opens |-> 2, jobs |-> 2]

Rtc == INSTANCE RtcPeers WITH
         pending <- jobs, trickle <- firing, closed <- due,
         Cap <- RtcBounds.cap, Gens <- RtcBounds.gens, Allocs <- RtcBounds.allocs, Offers <- RtcBounds.offers
MCRtc == [cap |-> 1, gens |-> 5, allocs |-> 2, offers |-> 2]

Scopes == INSTANCE RequestScopes WITH
            at <- place, made <- engines, Requests <- ScopeBounds.requests, Engines <- ScopeBounds.engines
MCScopes == [requests |-> 3, engines |-> 3]

Watchers == INSTANCE ScriptObservers WITH
              Observers <- WatchBounds.observers, Targets <- WatchBounds.targets, Below <- WatchBounds.below,
              Changes <- WatchBounds.changes, Regs <- WatchBounds.regs,
              TargetCap <- WatchBounds.targetCap, Frames <- WatchBounds.frames
MCWatch == [observers |-> {"o", "q"}, targets |-> {"t", "u"},
            below |-> {<<"t", "t">>, <<"u", "u">>, <<"u", "t">>},
            changes |-> 2, regs |-> 2, targetCap |-> 2, frames |-> 3]

Formats == INSTANCE Formatters WITH
             born <- count, Asks <- FormatBounds.asks, Tags <- FormatBounds.tags, Zones <- FormatBounds.zones,
             Likely <- FormatBounds.likely, Profiles <- FormatBounds.profiles, Units <- FormatBounds.units,
             Cap <- FormatBounds.cap, RealmCap <- FormatBounds.realmCap,
             Ids <- FormatBounds.ids, Requests <- FormatBounds.requests
Ask(c, t, o) == [class |-> c, tag |-> t, opt |-> o]
MCFormats == [asks |-> {Ask("NumberFormat", "en", [style |-> "currency", currency |-> "EUR"]),
                        Ask("NumberFormat", "en", [style |-> "currency", currency |-> "USD"]),
                        Ask("NumberFormat", "", [style |-> "odd"]), Ask("NumberFormat", "", <<>>),
                        Ask("DateTimeFormat", "en", [hour |-> "numeric", hour12 |-> "yes", timeZone |-> "Z"]),
                        Ask("RelativeTimeFormat", "en", [style |-> "short"]), Ask("DisplayNames", "en", <<>>),
                        Ask("Locale", "en", <<>>)},
              tags |-> {"en", "en-Latn-US", "de"}, zones |-> {"Z"}, units |-> {"day", "year"},
              likely |-> [t \in {"en", "en-Latn-US", "de"} |-> IF t = "en" THEN "en-Latn-US" ELSE t],
              profiles |-> {[locale |-> "en", zone |-> "Z"], [locale |-> "de", zone |-> "Z"]},
              cap |-> 2, realmCap |-> 2, ids |-> 3, requests |-> 2]

Canvas == INSTANCE CanvasFrames WITH
            size <- area, Sizes <- CanvasBounds.sizes,
            Ops <- CanvasBounds.ops, Resizes <- CanvasBounds.resizes, Reads <- CanvasBounds.reads
MCCanvas == [sizes |-> {1, 2}, ops |-> 3, resizes |-> 1, reads |-> 2]

ASSUME WorkersAssumption ==
  /\ Shared!CacheAssumption /\ Functions!CacheAssumption
  /\ Reg!RegAssumption /\ Xhr!XhrAssumption /\ Rtc!RtcAssumption /\ Scopes!ScopesAssumption
  /\ Watchers!ObserversAssumption /\ Formats!FormattersAssumption /\ Canvas!CanvasAssumption

----------------------------------------------------------------------------
WorkerScenes == {"shared", "functions", "registry", "xhr", "rtc", "requests", "records", "frames", "formats", "canvas"}

\* what a scene does not move stays as it begins
WorkerInit ==
  /\ IF scene = "shared" THEN Shared!Init ELSE Functions!Init
  /\ IF scene = "rtc" THEN Rtc!RtcInit /\ opens = 0 ELSE Xhr!XhrInit
  /\ Scopes!Init /\ (scene # "requests" => slot = "doc")
  /\ Watchers!Init /\ Watchers!FrameInit /\ (scene # "frames" => kind = "resize")
  /\ Formats!Init /\ (scene # "formats" => profile = CHOOSE p \in FormatBounds.profiles : TRUE)
  /\ Canvas!Init /\ (scene # "canvas" => area = CHOOSE s \in CanvasBounds.sizes : TRUE)

WorkerNext ==
  /\ UNCHANGED scene
  /\ \/ /\ \/ scene = "shared" /\ Shared!Next
           \/ scene = "functions" /\ Functions!Next
        /\ UNCHANGED <<regVars, objectVars, scopeVars, recordVars, frameVars, formatVars, canvasVars>>
     \/ /\ \/ scene = "registry" /\ Reg!Next /\ UNCHANGED objectVars
           \/ scene = "xhr" /\ Xhr!XhrNext
           \/ scene = "rtc" /\ Rtc!RtcNext /\ UNCHANGED opens
        /\ UNCHANGED <<cacheVars, scopeVars, recordVars, frameVars, formatVars, canvasVars>>
     \/ /\ scene = "requests" /\ Scopes!Next
        /\ UNCHANGED <<cacheVars, regVars, objectVars, recordVars, frameVars, formatVars, canvasVars>>
     \/ /\ \/ scene = "records" /\ Watchers!Next /\ UNCHANGED frameVars
           \/ scene = "frames" /\ Watchers!FrameNext /\ UNCHANGED recordVars
        /\ UNCHANGED <<cacheVars, regVars, objectVars, scopeVars, formatVars, canvasVars>>
     \/ /\ \/ scene = "formats" /\ Formats!Next /\ UNCHANGED canvasVars
           \/ scene = "canvas" /\ Canvas!Next /\ UNCHANGED formatVars
        /\ UNCHANGED <<cacheVars, regVars, objectVars, scopeVars, recordVars, frameVars>>

WorkerSpec == WorkerInit /\ [][WorkerNext]_<<scene, workerVars>>

----------------------------------------------------------------------------
(* What a worker keeps is worth keeping and fits its room: the budgets of  *)
(* the script cache count what its maps hold, with workers that put the    *)
(* same scripts at once (cache.rs:61-133); the functions used last are     *)
(* still compiled (worker.rs:1345-1363); a shared formatter is what the    *)
(* options call for (intl.rs:259-327), and a painted frame is what the     *)
(* commands paint now (canvas2d.rs:66-78).                                 *)
CachesSound == /\ scene = "shared" => Shared!RoomKept
               /\ scene = "functions" => Functions!KeepsRecent
               /\ scene = "formats" => Formats!FormattersSound
               /\ scene = "canvas" => Canvas!CanvasSound

(* An id of a script's object never leads to the object of another: of the *)
(* registry itself, and of the requests and peers whose deferred events    *)
(* look their object up again, when they are not dropped or cleared        *)
(* (webidl.rs, RegVec; netapi.rs; timer.rs, push_timer and clear_all).     *)
ObjectsApart == /\ scene = "registry" => Reg!IdsHold
                /\ scene = "xhr" => Xhr!XhrSound
                /\ scene = "rtc" => Rtc!PeersApart

(* A script finds nothing of the request before it, no value of an engine  *)
(* that is gone, and is stopped by its own request's flag only (worker.rs).*)
RequestsApart == scene = "requests" => Scopes!NothingCarriedOver /\ Scopes!OwnEngine /\ Scopes!SignalsOwn

(* Observers are told: records of changes stay whole and in order, and a   *)
(* target nobody was told about has a frame on the way, unless its frame   *)
(* was dropped or cleared or found a resize observer with nothing to say   *)
(* (webidl.rs, fanout and flush_mutations; observers.rs, reserve_target).  *)
ObserversTold == /\ scene = "records" => Watchers!RecordsKept
                 /\ scene = "frames" => Watchers!FrameOnTheWay
=============================================================================
