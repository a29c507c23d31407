-------------------------------- MODULE Zones --------------------------------
(***************************************************************************)
(* The clock a script sees (core-utils/tz.rs, the civil calendar of        *)
(* math.rs, and the Date of intl.rs): the offset of a zone at an instant,  *)
(* from a table of changes or from a rule whose two changes of one year a  *)
(* thread keeps for the next question, the constructor that turns local    *)
(* fields into an instant by asking for the offset twice, and the getters  *)
(* that turn the instant back.                                             *)
(*                                                                         *)
(* Instants are minutes since 1970; seconds and below are left out.        *)
(***************************************************************************)
EXTENDS Integers, Sequences, FiniteSets

CONSTANTS Asked,  \* bound: the zones a thread is asked about
          Years,  \* bound: the years
          Steps   \* bound: how many half hours around a change of the clocks

VARIABLES rule,  \* RULE_CACHE, of the thread
          last   \* the last question and its answer
zoneVars == <<rule, last>>

Day == 1440
Floor(n, lo) == IF n < lo THEN lo ELSE n
Ceil(n, hi) == IF n > hi THEN hi ELSE n

-----------------------------------------------------------------------------
(* The calendar, in years that begin in March and eras of 400 of them.     *)

DaysFromCivil(y, m, d) ==
  LET y2 == IF m <= 2 THEN y - 1 ELSE y
      era == y2 \div 400
      yoe == y2 - era * 400
      doy == (153 * ((m + 9) % 12) + 2) \div 5 + d - 1
      doe == yoe * 365 + yoe \div 4 - yoe \div 100 + doy
  IN  era * 146097 + doe - 719468

CivilFromDays(days) ==
  LET z == days + 719468
      era == z \div 146097
      doe == z - era * 146097
      yoe == (doe - doe \div 1460 + doe \div 36524 - doe \div 146096) \div 365
      doy == doe - (365 * yoe + yoe \div 4 - yoe \div 100)
      mp == (5 * doy + 2) \div 153
      d == doy - (153 * mp + 2) \div 5 + 1
      m == IF mp < 10 THEN mp + 3 ELSE mp - 9
      y == yoe + era * 400
  IN  <<IF m <= 2 THEN y + 1 ELSE y, m, d>>

YearFromDays(days) == CivilFromDays(days)[1]
DowFromDays(days) == (days + 4) % 7
Leap(y) == (y % 4 = 0 /\ y % 100 # 0) \/ y % 400 = 0
DaysInMonth(y, m) == CASE m \in {4, 6, 9, 11} -> 30
                       [] m = 2 -> IF Leap(y) THEN 29 ELSE 28
                       [] OTHER -> 31

(* civil_of *)
CivilOf(t, off) == LET local == t + off
                       day == CivilFromDays(local \div Day)
                   IN  [year |-> day[1], month |-> day[2], day |-> day[3],
                        hour |-> (local % Day) \div 60, minute |-> local % 60]

-----------------------------------------------------------------------------
(* The tables: one zone of each rule, one without, and two tables cut to   *)
(* their first changes (minutes, from the seconds of the source).          *)

Turn(month, week, weekday, hour) == [month |-> month, week |-> week, weekday |-> weekday, hour |-> hour]
Rule(add, start, end) == [add |-> add, start |-> start, end |-> end]

Rules == <<Rule(60, Turn(3, -1, 0, 2), Turn(10, -1, 0, 3)),
           Rule(60, Turn(3, 2, 0, 2), Turn(11, 1, 0, 2)),
           Rule(60, Turn(3, 2, 0, 0), Turn(11, 1, 0, 1)),
           Rule(60, Turn(3, -2, 6, 23), Turn(10, -1, 0, 0)),
           Rule(60, Turn(10, 1, 0, 2), Turn(4, 1, 0, 3)),
           Rule(60, Turn(9, -1, 0, 2), Turn(4, 1, 0, 3)),
           Rule(120, Turn(3, -1, 0, 1), Turn(10, -1, 0, 3)),
           Rule(60, Turn(3, -1, 0, 0), Turn(10, -1, 0, 0)),
           Rule(60, Turn(3, -1, 0, 3), Turn(10, -1, 0, 4)),
           Rule(60, Turn(3, -2, 5, 2), Turn(10, -1, 0, 2)),
           Rule(60, Turn(3, -1, 0, 0), Turn(10, -1, 0, 1)),
           Rule(60, Turn(3, -1, 0, 1), Turn(10, -1, 0, 2)),
           Rule(30, Turn(10, 1, 0, 2), Turn(4, 1, 0, 2))>>

EmbTables == <<[ts |-> <<28043880, 28305900, 28568040, 28840140>>, off |-> <<180, 120, 180, 120>>],
               [ts |-> <<23793240, 23904120, 23954520, 24095640>>, off |-> <<60, 0, 60, 0>>]>>

Zone(std, r, emb, pre) == [std |-> std, rule |-> r, emb |-> emb, pre |-> pre]

(* zone_of: a name the table does not hold has no zone. *)
Cores == [berlin |-> Zone(60, 1, 0, 60), newYork |-> Zone(-300, 2, 0, -300), havana |-> Zone(-300, 3, 0, -300),
          nuuk |-> Zone(-120, 4, 0, -120), sydney |-> Zone(600, 5, 0, 600), chatham |-> Zone(765, 6, 0, 765),
          troll |-> Zone(0, 7, 0, 0), beirut |-> Zone(120, 8, 0, 120), athens |-> Zone(120, 9, 0, 120),
          jerusalem |-> Zone(120, 10, 0, 120), azores |-> Zone(-60, 11, 0, -60), lisbon |-> Zone(0, 12, 0, 0),
          lordHowe |-> Zone(630, 13, 0, 630), kolkata |-> Zone(330, 0, 0, 330), cairo |-> Zone(120, 0, 1, 120),
          casablanca |-> Zone(60, 0, 2, 60)]
Known == DOMAIN Cores

ZonesAssumption == /\ Asked \subseteq Known \cup {"nowhere"}
                   /\ Years \subseteq Nat /\ Years # {}
                   /\ Steps \in Nat

-----------------------------------------------------------------------------
(* The changes of a rule in a year. *)

(* A week counts from the month's first such weekday, or back from its     *)
(* last; a fifth one the month has not is the fourth.                      *)
NthWeekdayOfMonth(y, m, week, weekday) ==
  LET first == DaysFromCivil(y, m, 1)
      dim == DaysInMonth(y, m)
      ahead == ((weekday + 7 - DowFromDays(first)) % 7) + (week - 1) * 7
      back == ((DowFromDays(first + dim - 1) + 7 - weekday) % 7) + (-week - 1) * 7
  IN  first + IF week < 1 THEN dim - 1 - back
              ELSE IF 1 + ahead > dim THEN ahead - 7 ELSE ahead

TransitionUtc(y, turn, frame) == NthWeekdayOfMonth(y, turn.month, turn.week, turn.weekday) * Day + turn.hour * 60 - frame

(* The end of summer is read on the summer's clock. *)
YearOfRule(zone, y) ==
  LET core == Cores[zone]
      r == Rules[core.rule]
  IN  [zone |-> zone, year |-> y, dst |-> core.std + r.add,
       on |-> TransitionUtc(y, r.start, core.std), off |-> TransitionUtc(y, r.end, core.std + r.add)]

EmbOffset(table, t) == table.off[Cardinality({i \in DOMAIN table.ts : table.ts[i] <= t})]

InDst(year, t) == IF year.on <= year.off THEN year.on <= t /\ t < year.off
                                          ELSE year.on <= t \/ t < year.off

-----------------------------------------------------------------------------
(* tz_offset_min, given the year the thread keeps: the year it keeps after *)
(* the question, and the answer.                                           *)

Kept(kept, zone, y) == IF kept.zone = zone /\ kept.year = y THEN kept ELSE YearOfRule(zone, y)

HasRule(zone) == zone \in Known /\ Cores[zone].emb = 0 /\ Cores[zone].rule # 0

RuleAfter(kept, zone, t) == IF HasRule(zone) THEN Kept(kept, zone, YearFromDays(t \div Day)) ELSE kept

OffsetAt(kept, zone, t) ==
  IF zone \notin Known THEN 0
  ELSE LET core == Cores[zone]
           table == EmbTables[core.emb]
           year == RuleAfter(kept, zone, t)
       IN  IF core.emb # 0 THEN IF t < table.ts[1] THEN core.pre ELSE EmbOffset(table, t)
           ELSE IF core.rule # 0 /\ InDst(year, t) THEN year.dst ELSE core.std

-----------------------------------------------------------------------------
(* What a printed date calls the clock (zone_label_zone): an abbreviation  *)
(* of the zone, or its name written out, or the offset where the table has *)
(* no letters. "nowhere" is UTC.                                           *)

Display == [berlin |-> <<"CET", "CEST">>, newYork |-> <<"EST", "EDT">>, havana |-> <<"CST", "CDT">>,
            nuuk |-> <<"", "">>, sydney |-> <<"AEST", "AEDT">>, chatham |-> <<"", "">>, troll |-> <<"", "">>,
            beirut |-> <<"EET", "EEST">>, athens |-> <<"EET", "EEST">>, jerusalem |-> <<"IST", "IDT">>,
            azores |-> <<"", "">>, lisbon |-> <<"WET", "WEST">>, lordHowe |-> <<"", "">>, kolkata |-> <<"IST", "IST">>,
            cairo |-> <<"EET", "EEST">>, casablanca |-> <<"", "">>]
Spelled == {"CET", "CEST", "EST", "EDT", "CST", "CDT", "AEST", "AEDT", "EET", "EEST", "IST", "WET", "WEST"}

Label(zone, off, long) ==
  IF zone \notin Known THEN <<"short", "UTC">>
  ELSE LET abbr == Display[zone][IF off # Cores[zone].std THEN 2 ELSE 1]
       IN  IF abbr = "" THEN <<"offset", off>> ELSE <<IF long /\ abbr \in Spelled THEN "name" ELSE "short", abbr>>

-----------------------------------------------------------------------------
(* Date: a year of two digits is of the twentieth century, and a month or  *)
(* a day outside its range is the nearest inside (install_date_time_zone). *)

Placed(guess, off1, off2) == IF off2 = off1 THEN guess - off1 ELSE guess - off2

Clamped(y, mo, d) ==
  LET year == IF y \in 0 .. 99 THEN y + 1900 ELSE y
      month == Ceil(Floor(mo + 1, 1), 12)
  IN  <<year, month, Ceil(Floor(d, 1), DaysInMonth(year, month))>>

Utc(day, minutes) == DaysFromCivil(day[1], day[2], day[3]) * Day + minutes

Blank == [zone |-> "none", year |-> 0, on |-> 0, off |-> 0, dst |-> 0]

Init == /\ rule = Blank
        /\ last = [kind |-> "none"]

(* getTimezoneOffset and every getter *)
Ask(zone, t) == /\ rule' = RuleAfter(rule, zone, t)
                /\ last' = [kind |-> "offset", zone |-> zone, at |-> t, off |-> OffsetAt(rule, zone, t)]

(* toString: the fields, and what it calls the clock (date_part_of). *)
PrintDate(zone, t, windows) ==
  LET off == OffsetAt(rule, zone, t)
  IN  /\ rule' = RuleAfter(rule, zone, t)
      /\ last' = [kind |-> "printed", zone |-> zone, off |-> off, fields |-> CivilOf(t, off),
                  windows |-> windows, label |-> Label(zone, off, windows)]

(* new Date(y, mo, d, h, mi); with only a year and a month it is no date.  *)
Construct(zone, y, mo, d, minutes) ==
  LET day == Clamped(y, mo, d)
      guess == Utc(day, minutes)
      off1 == OffsetAt(rule, zone, guess)
      t1 == guess - off1
      kept == RuleAfter(rule, zone, guess)
      off2 == OffsetAt(kept, zone, t1)
  IN  /\ rule' = RuleAfter(kept, zone, t1)
      /\ last' = [kind |-> "date", zone |-> zone, local |-> guess, at |-> Placed(guess, off1, off2)]

ConstructNoDay(zone) == /\ rule' = RuleAfter(RuleAfter(rule, zone, 0), zone, 0)
                        /\ last' = [kind |-> "invalid", zone |-> zone]

Changes(zone) == IF HasRule(zone) THEN UNION {{YearOfRule(zone, y).on, YearOfRule(zone, y).off} : y \in Years}
                 ELSE IF zone \in Known /\ Cores[zone].emb # 0 THEN {EmbTables[Cores[zone].emb].ts[i] : i \in 1 .. 3}
                 ELSE {}
NewYears == {DaysFromCivil(y, 1, 1) * Day : y \in Years}
Around(instants) == {t + k * 30 : t \in instants, k \in -Steps .. Steps}

AskOffset == \E zone \in Asked, t \in {0} \cup Around(NewYears) : Ask(zone, t)

PrintChange == \E zone \in Asked, windows \in BOOLEAN : \E t \in Changes(zone) : PrintDate(zone, t, windows)

(* Local times around a change, and fields out of their range. *)
ConstructDate == \E zone \in Asked :
  \/ \E l \in Around(Changes(zone)) :
       LET c == CivilOf(l, IF zone \in Known THEN Cores[zone].std ELSE 0)
       IN  Construct(zone, c.year, c.month - 1, c.day, c.hour * 60 + c.minute)
  \/ \E y \in Years, mo \in {-1, 1, 12}, d \in {0, 31} : Construct(zone, y, mo, d, 0)
  \/ \E mo \in {2, 11} : Construct(zone, 70, mo, 31, 0)
  \/ ConstructNoDay(zone)

Taken == last.kind # "none" /\ last' = [kind |-> "none"] /\ UNCHANGED rule

Next == \/ last.kind = "none" /\ (AskOffset \/ PrintChange \/ ConstructDate)
        \/ Taken
Spec == Init /\ [][Next]_zoneVars

-----------------------------------------------------------------------------
(* What the zone's clock says, asked by a thread that never asked before.  *)
Fresh(zone, t) == OffsetAt(Blank, zone, t)

TypeOK == /\ rule.zone \in Known \cup {"none"}
          /\ {rule.year, rule.on, rule.off, rule.dst} \subseteq Int
          /\ last.kind \in {"none", "offset", "date", "invalid", "printed"}

(* An offset does not depend on the zones and years the thread was asked   *)
(* about before (tz_offset_min, RULE_CACHE).                               *)
AsIfFirst == last.kind = "offset" => last.off = Fresh(last.zone, last.at)

(* The fields a date was made of are the fields its getters give, but for  *)
(* the local times the zone skips when summer begins.                      *)
Offsets(zone) == IF zone \notin Known THEN {0}
                 ELSE LET core == Cores[zone]
                      IN  {core.std} \cup (IF core.emb # 0 THEN {EmbTables[core.emb].off[i] : i \in 1 .. 4} ELSE {})
                                     \cup (IF HasRule(zone) THEN {core.std + Rules[core.rule].add} ELSE {})
Skipped(zone, local) == \A off \in Offsets(zone) : Fresh(zone, local - off) # off
FieldsReadBack == last.kind = "date" =>
                    \/ CivilOf(last.at, Fresh(last.zone, last.at)) = CivilOf(last.local, 0)
                    \/ Skipped(last.zone, last.local)

(* The day a rule names is a day of its month, of its weekday, and the one *)
(* counted from the end it is counted from, and the clock that is about to *)
(* change shows the hour it names (nth_weekday_of_month, transition_ms_utc).*)
DaysOfMonth(y, m, weekday) == {n \in 1 .. DaysInMonth(y, m) : DowFromDays(DaysFromCivil(y, m, n)) = weekday}
Named(y, turn) ==
  LET c == CivilFromDays(NthWeekdayOfMonth(y, turn.month, turn.week, turn.weekday))
      days == DaysOfMonth(y, turn.month, turn.weekday)
      rest == IF turn.week >= 1 THEN {n \in days : n <= c[3]} ELSE {n \in days : n >= c[3]}
  IN  /\ c[1] = y /\ c[2] = turn.month /\ c[3] \in days
      /\ Cardinality(rest) = IF turn.week >= 1 THEN turn.week ELSE -turn.week
ChangesNamed == HasRule(rule.zone) =>
                  LET r == Rules[Cores[rule.zone].rule]
                  IN  /\ Named(rule.year, r.start) /\ Named(rule.year, r.end)
                      /\ CivilOf(rule.on, rule.dst - r.add).hour = r.start.hour
                      /\ CivilOf(rule.off, rule.dst).hour = r.end.hour

(* Where summer and winter differ, so does what a date calls them.         *)
LabelsApart == last.kind = "printed" =>
                 \A off \in Offsets(last.zone) \ {last.off} : Label(last.zone, off, last.windows) # last.label

ClockSound == AsIfFirst /\ FieldsReadBack /\ ChangesNamed /\ LabelsApart
=============================================================================
