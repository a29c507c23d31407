------------------------------- MODULE Robots -------------------------------
(***************************************************************************)
(* What a robots.txt says of a path (net-client/src/robots.rs), as the     *)
(* code finds it, and as the file means it.  A body is a sequence of       *)
(* lines, a path or a pattern a sequence of characters; "*" in a pattern   *)
(* stands for any characters and "$" at its end for the end of the path.   *)
(***************************************************************************)
EXTENDS Integers, FiniteSetsExt, SequencesExt

Agent(who) == [key |-> "user-agent", value |-> who]     \* who: "*", "us", "them"
Rule(kind, pattern) == [key |-> kind, value |-> pattern]
IsRule(line) == line.key \in {"allow", "disallow"} /\ line.value # <<>>

-----------------------------------------------------------------------------
(* parse_section and parse_robots_txt *)

Section == [matches |-> FALSE, agentBefore |-> FALSE, specific |-> FALSE, rules |-> <<>>]

(* Mutant: a second agent line begins a group of its own. *)
ReadLineAlone(specificOnly, s, line) ==
  IF line.key = "user-agent"
  THEN [s EXCEPT !.matches = line.value = "us" \/ (line.value = "*" /\ ~specificOnly),
                 !.specific = @ \/ line.value = "us"]
  ELSE [s EXCEPT !.rules = IF s.matches /\ IsRule(line) THEN Append(@, line) ELSE @]

ReadLine(specificOnly, s, line) ==
  IF line.key = "user-agent"
  THEN [s EXCEPT !.matches = \/ s.agentBefore /\ @
                             \/ line.value = "us"
                             \/ line.value = "*" /\ ~specificOnly,
                 !.specific = @ \/ line.value = "us",
                 !.agentBefore = TRUE]
  ELSE [s EXCEPT !.rules = IF s.matches /\ IsRule(line) THEN Append(@, line) ELSE @,
                 !.agentBefore = FALSE]

ParseSection(body, specificOnly) ==
  FoldLeft(LAMBDA s, line : ReadLine(specificOnly, s, line), Section, body)

ParseRobots(body) == IF ParseSection(body, TRUE).specific
                     THEN ParseSection(body, TRUE).rules
                     ELSE ParseSection(body, FALSE).rules

-----------------------------------------------------------------------------
(* path_matches: after the literal start, each piece between stars is      *)
(* taken at the first place it is found.                                   *)

Cut(s, k) == SubSeq(s, k + 1, Len(s))
Pieces(pattern) ==
  FoldLeft(LAMBDA ps, c : IF c = "*" THEN Append(ps, <<>>)
                          ELSE [ps EXCEPT ![Len(ps)] = Append(@, c)],
           <<<<>>>>, pattern)

Found(rest, piece) == {k \in 0 .. Len(rest) - Len(piece) : IsPrefix(piece, Cut(rest, k))}
RECURSIVE Skip(_, _)
Skip(rest, pieces) ==          \* what follows the pieces, or {}
  IF pieces = <<>> THEN {rest}
  ELSE IF Found(rest, Head(pieces)) = {} THEN {}
  ELSE Skip(Cut(rest, Min(Found(rest, Head(pieces))) + Len(Head(pieces))), Tail(pieces))

PathMatches(path, pattern) ==
  LET anchored == pattern # <<>> /\ Last(pattern) = "$"
      pieces == Pieces(IF anchored THEN Front(pattern) ELSE pattern)
      rest == Cut(path, Len(pieces[1]))
      mids == Tail(pieces)
  IN  \/ pattern = <<>>
      \/ /\ IsPrefix(pieces[1], path)
         /\ IF ~anchored THEN Skip(rest, mids) # {}
            ELSE IF mids = <<>> THEN rest = <<>>
            ELSE \E r \in Skip(rest, Front(mids)) : IsSuffix(Last(mids), r)

(* is_allowed: the longest pattern that matches; allowed come first, and   *)
(* only a longer one replaces what was found.                              *)
IsAllowed(rules, path) ==
  LET Longest(kind) == Max({-1} \cup {Len(rules[k].value) : k \in
                            {j \in DOMAIN rules : rules[j].key = kind /\ PathMatches(path, rules[j].value)}})
  IN  Longest("disallow") <= Longest("allow")

-----------------------------------------------------------------------------
(* The meaning of the file, for reference. *)

RECURSIVE Glob(_, _)
Glob(path, pattern) ==
  IF pattern = <<>> THEN TRUE
  ELSE IF pattern = <<"$">> THEN path = <<>>
  ELSE IF Head(pattern) = "*" THEN \E k \in 0 .. Len(path) : Glob(Cut(path, k), Tail(pattern))
  ELSE path # <<>> /\ Head(path) = Head(pattern) /\ Glob(Tail(path), Tail(pattern))

(* The agents of the group that line k of the body stands in: the unbroken *)
(* run of agent lines that ends last before it.                            *)
Heads(body, k) ==
  LET before == {j \in 1 .. k - 1 : body[j].key = "user-agent"}
  IN  {body[j].value : j \in {i \in before : \A n \in i .. Max(before) : n \in before}}

(* The rules for us: those of the groups that name us or, when none does,  *)
(* those of the groups for everybody.                                      *)
Ours(body) == LET named == \E k \in DOMAIN body : body[k] = Agent("us")
              IN  {k \in DOMAIN body : IsRule(body[k]) /\ (IF named THEN "us" ELSE "*") \in Heads(body, k)}

Permits(body, path) ==
  LET hits == {k \in Ours(body) : Glob(path, body[k].value)}
  IN  \A k \in hits : body[k].key = "disallow" =>
        \E j \in hits : body[j].key = "allow" /\ Len(body[j].value) >= Len(body[k].value)
=============================================================================
