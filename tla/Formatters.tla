----------------------------- MODULE Formatters -----------------------------
(* The Intl objects of a worker: what their constructors keep of the       *)
(* options, the formatter an object builds when it is first used and then  *)
(* shares, by a signature of its options, with every other object of the   *)
(* engine, and the one formatter behind toLocaleString.  A formatter is    *)
(* here the list of what its builder reads; a segmenter reads nothing, so  *)
(* the two there are need no signature and are left out.                   *)
EXTENDS Naturals, Sequences, FiniteSets, Functions

CONSTANTS Asks,        \* what scripts ask for: [class, tag, opt]
          Tags,        \* tags that are locales
          Zones,       \* zones with rules
          Likely,      \* tag -> tag with its likely script and region
          Profiles,    \* [locale, zone]
          Units,       \* of relative times
          Cap,         \* REG_CAP
          RealmCap,    \* REALM_CAP
          Ids, Requests   \* bounds: objects made, requests served

FormattersAssumption ==
  /\ \A a \in Asks : a.class \in {"DateTimeFormat", "NumberFormat", "Collator", "ListFormat", "PluralRules",
                                   "RelativeTimeFormat", "DisplayNames", "Segmenter", "Locale"}
  /\ Profiles \subseteq [locale : Tags, zone : Zones]
  /\ {Cap, RealmCap, Ids, Requests} \subseteq Nat \ {0}

VARIABLES profile, request,
          inst,      \* REG: id -> [st, own], own holding what was built for it
          born,      \* ids given so far
          realm, ring,   \* RealmStore: key -> formatter, and the keys, oldest first
          cell,      \* LOCALE_DTF
          shown      \* what toLocaleString printed with: [by, locale, zone, parts]
vars == <<profile, request, inst, born, realm, ring, cell, shown>>

None == [none |-> TRUE]
Error == [error |-> TRUE]
Has(o, k) == k \in DOMAIN o
One(o, k, known, default) == IF Has(o, k) /\ o[k] \in known THEN o[k] ELSE default
Flag(o, k) == Has(o, k) /\ o[k] = "yes"

----------------------------------------------------------------------------
(* The constructors: what is kept of the options, or an error.             *)
Blank(kind, tag) ==
  [kind |-> kind, locale |-> tag, calendar |-> "gregory", numbering |-> "latn", currency |-> "", fields |-> {},
   cycle |-> "none", style |-> "long", sub |-> "first", display |-> "symbol", grouping |-> TRUE, order |-> {},
   zone |-> "UTC"]

Dates == {"weekday", "era", "year", "month", "day"}
Times == {"hour", "minute", "second"}
Widths == {"2-digit", "numeric", "narrow", "short", "long"}
Ymd == {<<"year", "numeric">>, <<"month", "numeric">>, <<"day", "numeric">>}
Hms == {<<"hour", "numeric">>, <<"minute", "numeric">>, <<"second", "numeric">>}

ParseOpts(tag, o) ==
  LET given == (Dates \cup Times) \cap DOMAIN o
      Width(p) == IF p \in {"weekday", "era"} THEN One(o, p, {"long", "narrow"}, "short")
                  ELSE IF p = "month" THEN One(o, p, Widths, "none") ELSE One(o, p, {"2-digit"}, "numeric")
  IN  [Blank("DateTimeFormat", tag) EXCEPT
         !.fields = IF given = {} THEN Ymd ELSE {f \in {<<p, Width(p)>> : p \in given} : f[2] # "none"},
         !.cycle = IF Has(o, "hour12") THEN IF Flag(o, "hour12") THEN "h12" ELSE "h23"
                   ELSE IF Has(o, "hourCycle") THEN One(o, "hourCycle", {"h11", "h23", "h24"}, "h12") ELSE "none",
         !.calendar = IF Has(o, "calendar") THEN o.calendar ELSE @]

DateTimeFormat(tag, o) ==
  LET zone == IF Has(o, "timeZone") THEN o.timeZone ELSE profile.zone
  IN  IF zone \notin Zones \cup {"UTC"} THEN Error
      ELSE [ParseOpts(tag, o) EXCEPT !.zone = zone, !.numbering = IF Has(o, "numbering") THEN o.numbering ELSE @]

NumberFormat(tag, o) ==
  LET style == IF Has(o, "style") THEN o.style ELSE "decimal"
  IN  IF \/ style \notin {"decimal", "percent", "currency"}
         \/ style = "currency" /\ ~Has(o, "currency")
         \/ Has(o, "notation") /\ o.notation # "standard"
      THEN Error
      ELSE [Blank("NumberFormat", tag) EXCEPT
              !.style = style, !.currency = IF style = "currency" THEN o.currency ELSE "",
              !.display = IF style = "currency" THEN One(o, "display", {"name", "code", "narrow"}, "symbol") ELSE @,
              !.grouping = ~(Has(o, "useGrouping") /\ o.useGrouping = "no"),
              !.numbering = IF Has(o, "numbering") THEN o.numbering ELSE @]

Collator(tag, o) ==
  [Blank("Collator", tag) EXCEPT
     !.sub = One(o, "sensitivity", {"base", "accent", "case"}, "variant"),
     !.order = {f \in {"ignorePunctuation", "numeric"} : Flag(o, f)} \cup {One(o, "caseFirst", {"lower", "upper"}, "auto")}]

ListFormat(tag, o) ==
  [Blank("ListFormat", tag) EXCEPT !.sub = One(o, "type", {"disjunction"}, "conjunction"),
                                   !.style = One(o, "style", {"short", "narrow"}, "long")]

PluralRules(tag, o) == [Blank("PluralRules", tag) EXCEPT !.sub = One(o, "type", {"ordinal"}, "cardinal")]

RelativeTimeFormat(tag, o) ==
  [Blank("RelativeTimeFormat", tag) EXCEPT !.sub = One(o, "numeric", {"auto"}, "always"),
                                           !.style = One(o, "style", {"short", "narrow"}, "long")]

DisplayNames(tag, o) ==
  LET type == One(o, "type", {"language", "region", "script", "calendar", "dateTimeField"}, "none")
  IN  IF type = "none" THEN Error ELSE [Blank("DisplayNames", tag) EXCEPT !.sub = type]

Segmenter(tag, o) ==
  LET grain == IF Has(o, "granularity") THEN o.granularity ELSE "grapheme"
  IN  IF grain \notin {"grapheme", "word"} THEN Error ELSE [Blank("Segmenter", tag) EXCEPT !.sub = grain]

Constructed(a) ==
  LET tag == IF a.tag = "" THEN profile.locale ELSE a.tag
  IN  IF tag \notin Tags \/ (a.class = "Locale" /\ a.tag = "") THEN Error
      ELSE CASE a.class = "DateTimeFormat" -> DateTimeFormat(tag, a.opt)
             [] a.class = "NumberFormat" -> NumberFormat(tag, a.opt)
             [] a.class = "Collator" -> Collator(tag, a.opt)
             [] a.class = "ListFormat" -> ListFormat(tag, a.opt)
             [] a.class = "PluralRules" -> PluralRules(tag, a.opt)
             [] a.class = "RelativeTimeFormat" -> RelativeTimeFormat(tag, a.opt)
             [] a.class = "DisplayNames" -> DisplayNames(tag, a.opt)
             [] a.class = "Segmenter" -> Segmenter(tag, a.opt)
             [] a.class = "Locale" -> Blank("Locale", tag)

----------------------------------------------------------------------------
(* The builders, by what they read of an object's state.                   *)
LocaleOf(st, cycle) == <<st.locale, st.calendar, st.numbering, cycle>>

BuildDec(st) == <<"decimal", LocaleOf(st, "none"), st.grouping>>
BuildCur(st) == <<"currency", LocaleOf(st, "none"), st.currency, IF st.display = "name" THEN "code" ELSE st.display>>
BuildPct(st) == <<"percent", LocaleOf(st, "none")>>
BuildColl(st) == <<"collator", LocaleOf(st, "none"), st.sub, st.order>>
BuildPr(st) == <<"plural", LocaleOf(st, "none"), st.sub>>
BuildLf(st) == <<"list", LocaleOf(st, "none"), st.style, st.sub>>
BuildRtf(st, unit) == <<"relative", LocaleOf(st, "none"), st.style, st.sub, unit>>
BuildDn(st) == <<"names", LocaleOf(st, "none"), st.sub>>

\* dtf_fieldset: which parts, one length for all of them, how the year is written and how precise the time is
Fieldset(st) ==
  LET Width(p) == {f \in st.fields : f[1] = p}
      long == \/ <<"month", "long">> \in st.fields
              \/ <<"weekday", "long">> \in st.fields /\ <<"month", "short">> \in st.fields
      medium == Width("weekday") # {} \/ <<"month", "narrow">> \in st.fields \/ <<"month", "short">> \in st.fields
      given == {f[1] : f \in st.fields}
      year == IF "era" \in given THEN "era" ELSE IF <<"year", "numeric">> \in st.fields THEN "full" ELSE "auto"
      precision == IF "hour" \notin given THEN "none"
                   ELSE IF "second" \in given THEN "second" ELSE IF "minute" \in given THEN "minute" ELSE "hour"
  IN  <<IF given = {} THEN {"year", "month", "day"} ELSE given,
        IF long THEN "long" ELSE IF medium THEN "medium" ELSE "short", year, precision>>
BuildDtf(st) == <<"date", LocaleOf(st, st.cycle), Fieldset(st)>>

\* what a use of an object is printed with
Formatter(st, unit) ==
  CASE st.kind = "DateTimeFormat" -> BuildDtf(st)
    [] st.kind = "NumberFormat" -> IF st.style = "currency" THEN BuildCur(st)
                                   ELSE IF st.style = "percent" THEN BuildPct(st) ELSE BuildDec(st)
    [] st.kind = "Collator" -> BuildColl(st)
    [] st.kind = "ListFormat" -> BuildLf(st)
    [] st.kind = "PluralRules" -> BuildPr(st)
    [] st.kind = "RelativeTimeFormat" -> BuildRtf(st, unit)
    [] st.kind = "DisplayNames" -> BuildDn(st)

\* Mutant: the signature leaves the currency out.
SigSansCurrency(st) == [f \in DOMAIN st \ {"zone", "currency"} |-> st[f]]

\* sig: everything but the zone
Sig(st) == [f \in DOMAIN st \ {"zone"} |-> st[f]]
Key(st, unit) == IF st.kind = "RelativeTimeFormat" THEN <<Sig(st), unit>> ELSE <<Sig(st)>>

----------------------------------------------------------------------------
With(f, k, v) == [x \in DOMAIN f \cup {k} |-> IF x = k THEN v ELSE f[x]]

Init == /\ profile \in Profiles /\ request = 1
        /\ inst = <<>> /\ born = 0
        /\ realm = <<>> /\ ring = <<>>
        /\ cell = None /\ shown = None

\* make_instance: ids are not used twice, and no object is ever given back before its request ends
MakeInstance(st) == /\ Cardinality(DOMAIN inst) < Cap /\ born < Ids
                    /\ born' = born + 1
                    /\ inst' = With(inst, born + 1, [st |-> st, own |-> <<>>])

New == /\ \E a \in Asks : Constructed(a) # Error /\ MakeInstance(Constructed(a))
       /\ shown' = None
       /\ UNCHANGED <<profile, request, realm, ring, cell>>

\* Intl.Locale: maximize, minimize
Expand == /\ \E i \in DOMAIN inst, maximize \in BOOLEAN :
               LET tag == inst[i].st.locale
                   least == {t \in Tags : Likely[t] = Likely[tag]}
               IN  /\ inst[i].st.kind = "Locale"
                   /\ MakeInstance(Blank("Locale", IF maximize THEN Likely[tag] ELSE CHOOSE t \in least : Likely[t] # t \/ least = {t}))
          /\ shown' = None
          /\ UNCHANGED <<profile, request, realm, ring, cell>>

Evicted == IF Len(ring) < RealmCap THEN ring ELSE Tail(ring)
InsertRealm(k, f) == /\ ring' = Append(Evicted, k)
                     /\ realm' = With(Restrict(realm, IF Len(ring) < RealmCap THEN DOMAIN realm ELSE DOMAIN realm \ {Head(ring)}), k, f)

\* lazy_state, rtf_format: an object's own formatter, that of the realm, or a new one
Use == /\ \E i \in DOMAIN inst, unit \in Units :
            LET st == inst[i].st
                k == Key(st, unit)
                slot == IF st.kind = "RelativeTimeFormat" THEN unit ELSE "own"
            IN  /\ st.kind \notin {"Locale", "Segmenter"} /\ st.sub \notin {"calendar", "dateTimeField"}
                /\ slot \notin DOMAIN inst[i].own
                /\ IF k \in DOMAIN realm THEN UNCHANGED <<realm, ring>> ELSE InsertRealm(k, Formatter(st, unit))
                /\ inst' = [inst EXCEPT ![i].own = With(@, slot, realm'[k])]
       /\ shown' = None
       /\ UNCHANGED <<profile, request, born, cell>>

\* toLocaleString and its two sisters
LocaleState(parts) == [Blank("DateTimeFormat", profile.locale) EXCEPT !.fields = parts, !.zone = profile.zone]
LocaleDateString == /\ \E parts \in {Ymd, Hms, Ymd \cup Hms} :
                         LET hit == /\ cell # None
                                    /\ cell.locale = profile.locale /\ cell.parts = parts /\ cell.zone = profile.zone
                         IN  cell' = IF hit THEN cell
                                     ELSE [by |-> BuildDtf(LocaleState(parts)), locale |-> profile.locale,
                                           zone |-> profile.zone, parts |-> parts]
                    /\ shown' = cell'
                    /\ UNCHANGED <<profile, request, inst, born, realm, ring>>

\* clear_registry; the next request may be another's
NextRequest == /\ request < Requests /\ request' = request + 1
               /\ profile' \in Profiles
               /\ inst' = <<>> /\ shown' = None
               /\ UNCHANGED <<born, realm, ring, cell>>

\* clear_thunks, clear_registry: another engine
NextEngine == /\ request < Requests /\ request' = request + 1
              /\ profile' \in Profiles
              /\ inst' = <<>> /\ shown' = None
              /\ realm' = <<>> /\ ring' = <<>> /\ cell' = None
              /\ UNCHANGED born

Next == New \/ Expand \/ Use \/ LocaleDateString \/ NextRequest \/ NextEngine
Spec == Init /\ [][Next]_vars
----------------------------------------------------------------------------
TypeOK == /\ profile \in Profiles /\ request \in 1 .. Requests /\ born \in 0 .. Ids
          /\ DOMAIN inst \subseteq 1 .. born /\ Cardinality(DOMAIN inst) <= Cap
          /\ Len(ring) <= RealmCap
          /\ shown # None => shown = cell

(* What an object prints with is what its own options call for, whoever    *)
(* built it first: the signature tells apart all that the builders read    *)
(* (intl.rs:259-271, 273-287).                                             *)
OwnOptions ==
  \A i \in DOMAIN inst : \A slot \in DOMAIN inst[i].own : inst[i].own[slot] = Formatter(inst[i].st, slot)

(* The realm holds exactly the formatters on its ring: none is kept        *)
(* forever, none is dropped while it is young (intl.rs:289-317).           *)
RingIsRealm == Range(ring) = DOMAIN realm /\ Cardinality(DOMAIN realm) = Len(ring)

(* A date is printed as the profile of this request would have it, though  *)
(* the one formatter was built for another (intl.rs:1490-1529).            *)
ShownForProfile ==
  shown # None => shown.by = BuildDtf(LocaleState(shown.parts)) /\ shown.zone = profile.zone

FormattersSound == OwnOptions /\ RingIsRealm /\ ShownForProfile
=============================================================================
