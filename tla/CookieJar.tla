------------------------------ MODULE CookieJar ------------------------------
(***************************************************************************)
(* The cookie jar of a session (session-state/src/session.rs): cookies     *)
(* keyed by name, domain and path, kept in the order they were made, with  *)
(* an index from names to positions; a limit with eviction; the cookies a  *)
(* request carries; and the copy a telemetry tab starts from.              *)
(*                                                                         *)
(* A path is the sequence of what stands between its slashes: "/" is       *)
(* <<"">>, "/a" is <<"a">>, "/a/" is <<"a", "">>.                          *)
(***************************************************************************)
EXTENDS Naturals, FiniteSets, SequencesExt

CONSTANT Settings   \* bounds: names, hosts, what is properly within what, and limits

NoHost == ""                 \* ingest, header_into: neither host nor path
NoPath == <<>>

JarAssumption == \A s \in Settings : /\ s.cap \in Nat \ {0} /\ {s.made, s.lastTick} \subseteq Nat
                                     /\ NoHost \notin s.hosts /\ s.flags \subseteq BOOLEAN
                                     /\ \A p \in s.paths : p \in Seq(Range(p)) /\ p # NoPath

VARIABLES setting,     \* one of Settings (fixed)
          jar, now
vars == <<setting, jar, now>>

Names == setting.names
Hosts == setting.hosts
Within(host, domain) == <<host, domain>> \in setting.within
Paths == setting.paths
Flags == setting.flags       \* the values of secure to try
JarCap == setting.cap
MaxSeq == setting.made       \* bounds
LastNow == setting.lastTick

Forever == LastNow + 10     \* the u64::MAX of a cookie without an end
Root == <<"">>

Urls == [host : Hosts, path : Paths, secure : Flags]
Flat == [host |-> NoHost, path |-> NoPath, secure |-> TRUE]

NewJar == [map |-> <<>>, byName |-> [n \in Names |-> <<>>], next |-> 0]
KeyOf(e) == <<e.name, e.domain, e.path>>

(* The members of S from first to last, as a total order has them: each is *)
(* where as many are not after it.                                         *)
Ranked(S, order) == [k \in 1 .. Cardinality(S) |-> CHOOSE i \in S : Cardinality({h \in S : <<h, i>> \in order}) = k]
Ascending(S) == Ranked(S, {p \in S \X S : p[1] <= p[2]})

(* What retain and shift_remove_index leave at the positions S. *)
Kept(map, S) == LET at == Ascending(S) IN [k \in DOMAIN at |-> map[at[k]]]

-----------------------------------------------------------------------------
(* Matching *)

DomainMatches(host, domain, hostOnly) ==
  host = domain \/ (~hostOnly /\ domain # NoHost /\ host # NoHost /\ Within(host, domain))

PathMatches(request, path) ==
  \/ request = path
  \/ IsStrictPrefix(path, request)
  \/ Last(path) = "" /\ Len(request) >= Len(path) /\ IsPrefix(Front(path), request)

(* parent_path: what comes before the last slash, or "/". *)
ParentPath(path) == IF Len(path) <= 1 THEN Root ELSE Front(path)

(* The characters of a path whose parts are one letter long. *)
PathLength(path) == 2 * Len(path) - (IF Last(path) = "" THEN 1 ELSE 0)

Matches(e, url, t) ==
  /\ e.expires > t
  /\ e.secure => url.secure
  /\ IF url.host # NoHost THEN DomainMatches(url.host, e.domain, e.hostOnly)
     ELSE e.domain = NoHost \/ ~e.hostOnly
  /\ url.path # NoPath => PathMatches(ParentPath(url.path), e.path)

(* header_for_into: longest path first, then oldest first. *)
Before(e, f) == \/ PathLength(e.path) > PathLength(f.path)
                \/ PathLength(e.path) = PathLength(f.path) /\ e.seq <= f.seq
Header(j, url, t) ==
  LET S == {i \in DOMAIN j.map : Matches(j.map[i], url, t)}
      sent == Ranked(S, {p \in S \X S : Before(j.map[p[1]], j.map[p[2]])})
  IN  [k \in DOMAIN sent |-> [name |-> j.map[sent[k]].name, value |-> j.map[sent[k]].value]]

-----------------------------------------------------------------------------
(* The index of names *)

Indices(map, n) == Ascending({i \in DOMAIN map : map[i].name = n})
Rebuilt(j) == [j EXCEPT !.byName = [n \in Names |-> Indices(j.map, n)]]

-----------------------------------------------------------------------------
(* Insertion *)

Position(j, key) == {i \in DOMAIN j.map : KeyOf(j.map[i]) = key}

(* A cookie that is set again keeps its place and its age. *)
Inserted(j, e) ==
  LET at == Position(j, KeyOf(e))
  IN  IF at # {}
      THEN [j EXCEPT !.map = [i \in DOMAIN @ |-> IF i \in at THEN [e EXCEPT !.seq = j.map[i].seq] ELSE @[i]]]
      ELSE [map |-> Append(j.map, [e EXCEPT !.seq = j.next]),
            byName |-> [j.byName EXCEPT ![e.name] = Append(@, Len(j.map) + 1)],
            next |-> j.next + 1]

Expired(j) == \E i \in DOMAIN j.map : j.map[i].expires <= now
Purged(j) == IF Expired(j)
             THEN Rebuilt([j EXCEPT !.map = Kept(@, {i \in DOMAIN @ : @[i].expires > now})])
             ELSE j

Sooner(e, f) == e.expires < f.expires \/ (e.expires = f.expires /\ e.seq <= f.seq)
Victim(map) == CHOOSE i \in DOMAIN map : \A k \in DOMAIN map : Sooner(map[i], map[k])

(* Mutant: what ends soonest makes room, and what is over stays. *)
RoomUnpurged(j) ==
  IF Len(j.map) < JarCap THEN j
  ELSE LET live == {i \in DOMAIN j.map : j.map[i].expires > now}
       IN  IF live = {} THEN Purged(j)
           ELSE Rebuilt([j EXCEPT !.map = Kept(@, DOMAIN @ \ {CHOOSE i \in live :
                                                     \A k \in live : Sooner(j.map[i], j.map[k])})])

(* At the limit what is over goes, and if nothing is, what ends soonest:   *)
(* even when the cookie that is set is in the jar already.                 *)
Room(j) ==
  IF Len(j.map) < JarCap THEN j
  ELSE LET p == Purged(j)
       IN  IF Len(p.map) < JarCap THEN p
           ELSE Rebuilt([p EXCEPT !.map = Kept(@, DOMAIN @ \ {Victim(@)})])

-----------------------------------------------------------------------------
(* ingest_scoped: a line with a name, a value and attributes, from a URL.  *)
(* Lines without a name, or with one too long, change nothing.             *)

LinesOf(paths, ends) == [name : Names, value : setting.values, domain : Hosts \cup {NoHost},
                         path : paths, expires : ends, secure : Flags]
Lines == LinesOf(Paths \cup {NoPath}, {0, now + 1, Forever})

DomainTaken(url, line) ==
  line.domain # NoHost /\ url.host # NoHost /\ DomainMatches(url.host, line.domain, FALSE)

(* Mutant: without an attribute the path of the URL itself is taken. *)
PathItself(url, line) ==
  IF line.path # NoPath THEN line.path ELSE IF url.path = NoPath THEN Root ELSE url.path
PathTaken(url, line) ==
  IF line.path # NoPath THEN line.path
  ELSE IF url.path = NoPath THEN Root ELSE ParentPath(url.path)

Entry(url, line) ==
  [name |-> line.name, value |-> line.value, secure |-> line.secure, expires |-> line.expires,
   domain |-> IF DomainTaken(url, line) THEN line.domain ELSE url.host,
   hostOnly |-> ~DomainTaken(url, line),
   path |-> PathTaken(url, line), seq |-> 0,
   from |-> url.host]      \* not in the code: who set it

Ingested(j, url, line) == Inserted(Room(j), Entry(url, line))

(* copy_matching into a jar that is new: what it holds after k cookies. *)
Copies(j, url) ==
  LET copies[k \in 0 .. Len(j.map)] ==
        IF k = 0 THEN NewJar
        ELSE IF Matches(j.map[k], url, now) THEN Inserted(copies[k - 1], j.map[k]) ELSE copies[k - 1]
  IN  copies
Copied(j, url) == Copies(j, url)[Len(j.map)]

-----------------------------------------------------------------------------
Init == setting \in Settings /\ jar = NewJar /\ now = 1

Ingest(url, line) == /\ jar.next < MaxSeq
                     /\ jar' = Ingested(jar, url, line)
                     /\ UNCHANGED <<setting, now>>

(* A telemetry tab goes on with the cookies of its page. *)
Copy(url) == jar' = Copied(jar, url) /\ UNCHANGED <<setting, now>>

Advance == now < LastNow /\ now' = now + 1 /\ UNCHANGED <<setting, jar>>

Next == \/ \E url \in Urls \cup {Flat}, line \in Lines : Ingest(url, line)
        \/ \E url \in Urls : Copy(url)
        \/ Advance

Spec == Init /\ [][Next]_vars

-----------------------------------------------------------------------------
TypeOK == /\ jar.next \in 0 .. MaxSeq
          /\ Len(jar.map) <= JarCap
          /\ \A i \in DOMAIN jar.map : jar.map[i].seq < jar.next
          /\ DOMAIN jar.byName = Names

(* The positions the index gives for a name are those of its cookies,      *)
(* oldest first, whatever was evicted before (session.rs:170-182, 322-342, *)
(* 360-372): get never answers with another name's value.                  *)
(* A key occurs once, and the positions are in the order of age: what get  *)
(* finds first is the oldest.                                              *)
IndexAgrees ==
  /\ TypeOK
  /\ \A n \in Names : jar.byName[n] = Indices(jar.map, n)
  /\ \A i, k \in DOMAIN jar.map : i < k => jar.map[i].seq < jar.map[k].seq
  /\ \A i, k \in DOMAIN jar.map : KeyOf(jar.map[i]) = KeyOf(jar.map[k]) => i = k

(* A request carries a cookie only to the host that set it or, when that   *)
(* host named a domain of its own, within that domain; and one for https   *)
(* only there (session.rs:110-118, 294-299, 452; the tests                 *)
(* host_only_cookie_never_leaks_to_subdomain and                           *)
(* domain_attr_from_foreign_host_ignored).                                 *)
NoLeak ==
  \A i \in DOMAIN jar.map, url \in Urls :
    LET e == jar.map[i]
        Inside(h) == h = e.domain \/ Within(h, e.domain)
    IN  Matches(e, url, now) =>
          /\ e.from = url.host \/ (~e.hostOnly /\ Inside(e.from) /\ Inside(url.host))
          /\ e.secure => url.secure

(* The copy a tab starts from sends what the page's own jar would, in the  *)
(* same order (session.rs:191-246, 439-480).                               *)
CopySendsSame == \A url \in Urls : Header(Copied(jar, url), url, now) = Header(jar, url, now)

(* A cookie that is set without a path, is not over and may be sent comes  *)
(* back with the next request to the same URL.                             *)
ComesBack ==
  \A url \in Urls, line \in LinesOf({NoPath}, {now + 1, Forever}) :
    (line.secure => url.secure) =>
      LET sent == Header(Ingested(jar, url, line), url, now)
      IN  \E i \in DOMAIN sent : sent[i] = [name |-> line.name, value |-> line.value]

(* Whatever is set next: a cookie that is not over is evicted only from a  *)
(* full jar in which none is over, and then the one that ends soonest, and *)
(* only that one (session.rs:322-342).                                     *)
EvictsSoonest ==
  LET room == Room(jar) IN
  \A url \in Urls \cup {Flat}, line \in Lines :
    LET left == Inserted(room, Entry(url, line)).map
        Gone(i) == \A k \in DOMAIN left : KeyOf(left[k]) # KeyOf(jar.map[i])
    IN  \A i \in DOMAIN jar.map :
          (jar.map[i].expires > now /\ Gone(i)) =>
            /\ Len(jar.map) = JarCap
            /\ ~Expired(jar)
            /\ i = Victim(jar.map)
=============================================================================
