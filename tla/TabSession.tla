------------------------------ MODULE TabSession ------------------------------
(* What one tab pretends its user does: a machine of phases, each of which *)
(* drives a cursor - a machine of its own that gives at most one event a   *)
(* step.  A telemetry tab runs through all phases and idles for ever; an   *)
(* inbound page pumps three cursors against deadlines.  Where the pointer  *)
(* is and how long a step takes are left out, but for the deadlines.       *)
EXTENDS Integers, SequencesExt, FiniteSetsExt

CONSTANTS Texts,      \* what a session may have to type
          Totals,     \* how far a session may have to scroll, overscroll included
          NotchPx,    \* what one notch of the wheel adds to the velocity
          Nudges,     \* what an idle user may turn the wheel by (1 to 4 pixels)
          Delays,     \* time until a cursor of an inbound page is due again
          Deadlines,  \* of an inbound page's move, focus and click
          LastCycle   \* cycles of visibility

SessionAssumption ==
  /\ Texts \subseteq Seq(STRING \ {"none", "backspace"})
  /\ Totals \subseteq Nat \ {0} /\ Nudges \subseteq Nat \ {0} /\ NotchPx \in Nat \ {0} /\ LastCycle \in Nat
  /\ Delays \subseteq Nat \ {0} /\ DOMAIN Deadlines = {"Move", "Focus", "Click"}

VARIABLES tab,     \* its phase, cursor, text to type, way to scroll and idle motor
          clock,   \* the half of the cycle of visibility; of an inbound page the time
          page     \* what the page that gets the events makes of them
vars == <<tab, clock, page>>

None == "none"
NoText == <<None>>
NoCursor == [kind |-> None, at |-> None]
NoEvent == [kind |-> None, arg |-> None]
Event(kind, arg) == [kind |-> kind, arg |-> arg]

----------------------------------------------------------------------------
(* The cursors.  Steps(c) is what a step of c that is due may lead to: the *)
(* cursor as it is then, and the event.                                    *)

MoveCursor == [kind |-> "Move", at |-> "Reacting"]

\* step_moving, integrate, arrived: an event need not be due, or shows nothing new
StepMoving(c) == {<<[c EXCEPT !.at = "Dwelling"], NoEvent>>}
                 \cup {<<[c EXCEPT !.at = "Moving"], ev>> : ev \in {NoEvent, Event("move", None)}}

StepDwelling(c) == {<<[c EXCEPT !.at = "Done"], NoEvent>>}
                   \cup {<<c, ev>> : ev \in {NoEvent, Event("move", None)}}

MoveSteps(c) == IF c.at = "Dwelling" THEN StepDwelling(c) ELSE StepMoving(c)

FocusCursor == [kind |-> "Focus", at |-> "FocusIn"]

FocusSteps(c) ==
  CASE c.at = "FocusIn"  -> {<<[c EXCEPT !.at = "Dwell"], Event("focus", None)>>}
    [] c.at = "Dwell"    -> {<<[c EXCEPT !.at = "FocusOut"], Event("blur", None)>>}
    [] c.at = "FocusOut" -> {<<[c EXCEPT !.at = "Done"], NoEvent>>}

\* plan: a right click is never double
ClickCursors == {c \in [kind : {"Click"}, at : {"Press"}, button : {"left", "right"}, double : BOOLEAN, second : {FALSE}] :
                   c.double => c.button = "left"}

ClickSteps(c) ==
  CASE c.at = "Press"   -> {<<[c EXCEPT !.at = "Hold"], Event("press", c.button)>>}
    [] c.at = "Hold"    -> {<<[c EXCEPT !.at = "Release"], Event("release", c.button)>>}
    [] c.at = "Release" -> {<<IF c.double /\ ~c.second THEN [c EXCEPT !.second = TRUE, !.at = "Press"]
                              ELSE [c EXCEPT !.at = "Done"], NoEvent>>}

TypeCursor(text) == [kind |-> "Type", chars |-> text, idx |-> 0, at |-> IF text = <<>> THEN "Last" ELSE "Down"]

NextChar(c) == [c EXCEPT !.idx = @ + 1, !.at = IF c.idx + 1 < Len(c.chars) THEN "Down" ELSE "Last"]

\* Mutant: a character that is taken back counts as typed.
AdvancedPast(c) == {NextChar(c)} \cup {[NextChar(c) EXCEPT !.at = "BackDown"] : i \in {c.idx} \ {0, Len(c.chars) - 1}}

\* the key is up: the next character or, but for the first, a mistake to take back
Advanced(c) == {NextChar(c)} \cup {[c EXCEPT !.at = "BackDown"] : i \in {c.idx} \ {0}}

TypeSteps(c) ==
  CASE c.at = "Down"     -> {<<[c EXCEPT !.at = "Up"], Event("keydown", c.chars[c.idx + 1])>>}
    [] c.at = "Up"       -> {<<d, Event("keyup", c.chars[c.idx + 1])>> : d \in Advanced(c)}
    [] c.at = "BackDown" -> {<<[c EXCEPT !.at = "BackUp"], Event("keydown", "backspace")>>}
    [] c.at = "BackUp"   -> {<<[c EXCEPT !.at = "Down"], Event("keyup", "backspace")>>}
    [] c.at = "Last"     -> {<<[c EXCEPT !.at = "Done"], NoEvent>>}

ScrollCursor(total) == [kind |-> "Scroll", at |-> "Going", left |-> total, velocity |-> 0, y |-> 0]

Friction(v) == v - v \div 3

\* a notch is due at the first frame and now and then; the event tells where the page is
ScrollSteps(c) ==
  {LET step == Friction(c.velocity + NotchPx * notches)
       lands == c.left <= Max({step, 1})
       y == c.y + IF lands THEN c.left ELSE step
   IN  <<[c EXCEPT !.at = IF lands THEN "Done" ELSE @, !.left = IF lands THEN 0 ELSE @ - step,
                   !.velocity = IF lands THEN 0 ELSE step, !.y = y],
         IF y = c.y THEN NoEvent ELSE Event("wheel", y)>>
   : notches \in IF c.y = 0 THEN 1 .. 3 ELSE 0 .. 3}

Steps(c) == CASE c.kind = "Move"   -> MoveSteps(c)
              [] c.kind = "Focus"  -> FocusSteps(c)
              [] c.kind = "Click"  -> ClickSteps(c)
              [] c.kind = "Type"   -> TypeSteps(c)
              [] c.kind = "Scroll" -> ScrollSteps(c)

Done(c) == c.at = "Done"

----------------------------------------------------------------------------
(* The page: what is held down, open, typed, scrolled and hidden, whether  *)
(* it ever got an event it could not get from a user, and what else it got *)
(* that was odd: a wheel that went back, a visibility it had.              *)

NewPage == [held |-> None, key |-> None, focused |-> FALSE, typed |-> <<>>, wheel |-> 0,
            hidden |-> FALSE, wellFormed |-> TRUE, odd |-> {}]

Possible(p, ev) ==
  /\ p.hidden => ev.kind = "visibility"
  /\ p.held # None => ev.kind = "release" /\ ev.arg = p.held
  /\ p.key # None => ev.kind = "keyup" /\ ev.arg = p.key
  /\ ev.kind = "release" => p.held # None
  /\ ev.kind = "keyup" => p.key # None
  /\ ev.kind = "focus" => ~p.focused
  /\ ev.kind = "blur" => p.focused
  /\ ev.kind = "keydown" /\ ev.arg = "backspace" => p.typed # <<>>

Odd(p, ev) == CASE ev.kind = "wheel" /\ ev.arg < p.wheel       -> {"back"}
                [] ev.kind = "visibility" /\ ev.arg = p.hidden -> {"unchanged"}
                [] OTHER                                       -> {}

Typed(typed, key) == IF key # "backspace" THEN Append(typed, key) ELSE IF typed = <<>> THEN <<>> ELSE Front(typed)

Seen(p, ev) ==
  LET q == [p EXCEPT !.wellFormed = @ /\ Possible(p, ev), !.odd = @ \cup Odd(p, ev)]
  IN  CASE ev.kind = "press"      -> [q EXCEPT !.held = ev.arg]
        [] ev.kind = "release"    -> [q EXCEPT !.held = None]
        [] ev.kind = "keydown"    -> [q EXCEPT !.key = ev.arg, !.typed = Typed(@, ev.arg)]
        [] ev.kind = "keyup"      -> [q EXCEPT !.key = None]
        [] ev.kind = "focus"      -> [q EXCEPT !.focused = TRUE]
        [] ev.kind = "blur"       -> [q EXCEPT !.focused = FALSE]
        [] ev.kind = "wheel"      -> [q EXCEPT !.wheel = ev.arg]
        [] ev.kind = "visibility" -> [q EXCEPT !.hidden = ev.arg]
        [] ev.kind = None       -> p
        [] OTHER                  -> q

----------------------------------------------------------------------------
(* A telemetry tab *)

NoIdle == [hop |-> NoCursor, hidden |-> FALSE, flipped |-> -1, bump |-> FALSE]

\* TabSession::start
StartSession(text, total, parity) ==
  [use |-> "session", phase |-> "Approach", active |-> MoveCursor,
   text |-> text, total |-> total, parity |-> parity, idle |-> NoIdle, asked |-> text, cut |-> {}]

Enter(t, phase, c) == [t EXCEPT !.phase = phase, !.active = c]

EnterReading(t) == Enter(t, "Reading", ScrollCursor(t.total))

EnterIdle(t) == [Enter(t, "Idle", NoCursor) EXCEPT !.idle = NoIdle]

\* the text is taken: it is typed once
EnterNext(t) ==
  IF t.phase = "Click" /\ t.text # NoText
  THEN [Enter(t, "Typing", TypeCursor(t.text)) EXCEPT !.text = NoText]
  ELSE IF t.phase \in {"Click", "Typing"} THEN EnterReading(t) ELSE EnterIdle(t)

Entered(t) == CASE t.active.kind = "Move"              -> {Enter(t, "Approach", FocusCursor)}
                [] t.active.kind = "Focus"             -> {Enter(t, "Click", c) : c \in ClickCursors}
                [] t.active.kind \in {"Click", "Type"} -> {EnterNext(t)}
                [] t.active.kind = "Scroll"            -> {EnterIdle(t)}

Drive == /\ tab.use = "session" /\ tab.active # NoCursor
         /\ \E s \in Steps(tab.active) :
              /\ page' = Seen(page, s[2])
              /\ LET t == [tab EXCEPT !.active = s[1]]
                 IN  tab' \in IF Done(s[1]) THEN Entered(t) ELSE {t}
         /\ UNCHANGED clock

\* visibility_flip: in each cycle once, some time after it began, this way and that by turns
FlipDue == clock.late /\ clock.cycle # tab.idle.flipped
Hides == (tab.parity + clock.cycle) % 2 = 0

Flipped(idle) == IF FlipDue THEN [idle EXCEPT !.flipped = clock.cycle, !.hidden = Hides] ELSE idle

\* drift: may move, and may turn the wheel: by so much, where reading told how far it is
Drifted(p) == LET moved == {p, Seen(p, Event("move", None))}
              IN  moved \cup {Seen(q, Event("wheel", dy)) : q \in moved, dy \in Nudges}

\* IdleMotor::tick: a hop goes on; one that ends is put off and the pointer drifts; one may begin
Ticked(idle, p) ==
  IF idle.hidden THEN {<<[idle EXCEPT !.hop = NoCursor], p>>}
  ELSE IF idle.hop = NoCursor
  THEN {<<[idle EXCEPT !.bump = TRUE, !.hop = MoveCursor], p>>}
       \cup IF idle.bump THEN {} ELSE {<<idle, q>> : q \in Drifted(p)}
  ELSE UNION {IF Done(s[1]) THEN {<<[idle EXCEPT !.bump = FALSE, !.hop = NoCursor], q>> : q \in Drifted(Seen(p, s[2]))}
              ELSE {<<[idle EXCEPT !.hop = s[1]], Seen(p, s[2])>>} : s \in Steps(idle.hop)}

IdleTick ==
  /\ tab.use = "session" /\ tab.active = NoCursor
  /\ LET p == IF FlipDue THEN Seen(page, Event("visibility", Hides)) ELSE page
     IN  \E r \in Ticked(Flipped(tab.idle), p) : tab' = [tab EXCEPT !.idle = r[1]] /\ page' = r[2]
  /\ UNCHANGED clock

\* half a cycle goes by, whether or not the tab was driven meanwhile
HalfCycle == /\ tab.use = "session"
             /\ ~clock.late \/ clock.cycle < LastCycle
             /\ clock' = IF clock.late THEN [clock EXCEPT !.cycle = @ + 1, !.late = FALSE]
                         ELSE [clock EXCEPT !.late = TRUE]
             /\ UNCHANGED <<tab, page>>

----------------------------------------------------------------------------
(* An inbound page: interaction_events_for *)

StartInbound == [use |-> "inbound", phase |-> "Move", active |-> MoveCursor,
                 text |-> NoText, total |-> 0, parity |-> 0, idle |-> NoIdle, asked |-> NoText, cut |-> {}]

\* one turn of pump's loop: the event, and on to when the cursor is due again
Pump == /\ tab.use = "inbound" /\ tab.active # NoCursor
        /\ ~Done(tab.active) /\ clock.now < Deadlines[tab.phase]
        /\ \E s \in Steps(tab.active), d \in Delays :
             /\ tab' = [tab EXCEPT !.active = s[1]] /\ page' = Seen(page, s[2])
             /\ clock' = [clock EXCEPT !.now = @ + IF Done(s[1]) THEN 1 ELSE d]

\* the next cursor is not due at once
Pumped == /\ tab.use = "inbound" /\ tab.active # NoCursor
          /\ Done(tab.active) \/ clock.now >= Deadlines[tab.phase]
          /\ LET t == IF Done(tab.active) THEN tab ELSE [tab EXCEPT !.cut = @ \cup {tab.phase}]
             IN  tab' \in CASE tab.phase = "Move"  -> {Enter(t, "Focus", FocusCursor)}
                            [] tab.phase = "Focus" -> {Enter(t, "Click", c) : c \in ClickCursors}
                            [] tab.phase = "Click" -> {Enter(t, "Over", NoCursor)}
          /\ \E d \in Delays : clock' = [clock EXCEPT !.now = @ + IF tab.phase = "Click" THEN 0 ELSE d]
          /\ UNCHANGED page

----------------------------------------------------------------------------
Init == /\ clock = [now |-> 0, cycle |-> 0, late |-> FALSE] /\ page = NewPage
        /\ \/ \E text \in Texts \cup {NoText}, total \in Totals, parity \in {0, 1} : tab = StartSession(text, total, parity)
           \/ tab = StartInbound

Next == Drive \/ IdleTick \/ HalfCycle \/ Pump \/ Pumped

Spec == Init /\ [][Next]_vars
----------------------------------------------------------------------------
(* What the page gets could come from a user, through every cursor, every  *)
(* phase and every cycle of visibility: nothing happens while a button or  *)
(* a key is down but that it goes up, nothing while the tab is hidden, and *)
(* what is taken back was typed (event.rs, typing.rs, session.rs:118-170). *)
(* The mistakes taken back, the text is typed once, and the page is        *)
(* scrolled as far as was asked, without a step back (session.rs:397-426,  *)
(* event.rs:240-285).  Of an idle tab it is not so: its wheel tells how    *)
(* far it turned and not where the page is (session.rs:212-216), and it    *)
(* may be shown without having been hidden, or the same twice when a cycle *)
(* went by (event.rs:401-421).                                             *)
(* What an inbound page leaves held or focused, its deadline cut short     *)
(* (session.rs:484-530).                                                   *)
Asked == IF tab.asked = NoText THEN <<>> ELSE tab.asked
Nothing(p) == p.held = None /\ p.key = None /\ ~p.focused

InputWellFormed ==
  /\ page.wellFormed
  /\ tab.phase # "Idle" => page.odd = {}
  /\ tab.phase = "Reading" => Nothing(page) /\ page.typed = Asked
  /\ tab.phase = "Idle" => /\ Nothing(page) /\ page.typed = Asked
                           /\ page.wheel \in {tab.total} \cup Nudges
                           /\ page.hidden = tab.idle.hidden
  /\ tab.phase = "Over" => /\ page.held # None => "Click" \in tab.cut
                           /\ page.focused => "Focus" \in tab.cut
=============================================================================
