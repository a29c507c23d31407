----------------------------- MODULE PageStream -----------------------------
(***************************************************************************)
(* How a page gets from the network into the parser: the loop of           *)
(* fetch_page_sel (net-client/src/fetch.rs), with the window it holds back *)
(* to find the encoding, and the StreamPipeline it feeds                   *)
(* (parser-pipeline/src/pipeline.rs), with its byte brake, its check of    *)
(* UTF-8 across chunks and the scratch area its handlers write to.         *)
(*                                                                         *)
(* A document is a sequence of byte classes: an ASCII byte, the first byte *)
(* of a character of two or of three bytes, a continuation.  The parser    *)
(* itself (lol_html, external) is one that emits one event per byte; at    *)
(* its memory limit it fails, or goes quiet, and the code handles both.    *)
(***************************************************************************)
EXTENDS Integers, FiniteSetsExt, SequencesExt

CONSTANTS DocLen,      \* bound: bytes of a document
          Brake,       \* BYTE_BRAKE
          RawCap,      \* RAW_CAP
          HeadWindow,  \* HEAD_WINDOW
          Room,        \* EV_CAP: events of one push
          JoinWidth,   \* how much check() joins to the tail (8)
          Memory       \* bound: where the parser's memory may end

StreamAssumption == /\ {DocLen, Brake, RawCap, HeadWindow, Room, JoinWidth} \subseteq Nat \ {0}
                    /\ Memory \subseteq Nat /\ JoinWidth > 3

Lead == {"ascii", "two", "three"}
Bytes == Lead \cup {"cont"}

VARIABLES doc, foreign, declared, memory, quiet,   \* fixed: the answer of the server, and the parser's limit
          at,         \* "body", "flush", "done"
          pos,        \* bytes the network delivered
          head,       \* head_buf
          stopped, truncated, transportErr,
          pipe,       \* the feed and its pipeline
          page        \* what the caller gets

answer == <<doc, foreign, declared, memory, quiet>>
vars == <<answer, at, pos, head, stopped, truncated, transportErr, pipe, page>>

-----------------------------------------------------------------------------
(* Utf8StreamState *)

(* The characters s begins with: whole[k], the first k bytes are whole     *)
(* characters.                                                             *)
Whole(s) ==
  LET whole[k \in 0 .. Len(s)] ==
        \/ k = 0
        \/ k > 0 /\ s[k] = "ascii" /\ whole[k - 1]
        \/ k > 1 /\ s[k] = "cont" /\ s[k - 1] = "two" /\ whole[k - 2]
        \/ k > 2 /\ s[k] = "cont" /\ s[k - 1] = "cont" /\ s[k - 2] = "three" /\ whole[k - 3]
  IN  Max({k \in 0 .. Len(s) : whole[k]})

(* Utf8Error (external): valid_up_to, and error_len, 0 for an end that is  *)
(* merely cut short.                                                       *)
Begun == {<<"two">>, <<"three">>, <<"three", "cont">>}
Utf8Error(s) == LET up == Whole(s)
                    rest == SubSeq(s, up + 1, Len(s))
                IN  [upTo |-> up,
                     len |-> IF rest \in Begun THEN 0
                             ELSE IF Len(rest) > 1 /\ SubSeq(rest, 1, 2) = <<"three", "cont">> THEN 2 ELSE 1]
From(s, k) == SubSeq(s, k + 1, Len(s))

(* check(): is the chunk fine, and the tail it leaves. *)
RECURSIVE Check(_, _, _)
Check(tail, chunk, ok) ==
  LET take == Min({Len(chunk), JoinWidth - Len(tail)})
      seen == IF tail = <<>> THEN chunk ELSE tail \o SubSeq(chunk, 1, take)
      err == Utf8Error(seen)
      skip == err.upTo + err.len
      left == IF tail = <<>> THEN <<>> ELSE From(chunk, take)
  IN  IF chunk = <<>> THEN [ok |-> ok, tail |-> tail]
      ELSE IF err.upTo = Len(seen) THEN Check(<<>>, left, ok)
      ELSE IF err.len = 0 THEN Check(From(seen, err.upTo), left, ok)
      ELSE IF skip < Len(tail) THEN Check(<<>>, chunk, FALSE)
      ELSE Check(<<>>, From(chunk, IF tail = <<>> THEN skip ELSE Max({skip - Len(tail), 1})), FALSE)

-----------------------------------------------------------------------------
(* StreamPipeline, in the BodyFeed that may decode first *)

NoPipe == [open |-> FALSE, rewriter |-> TRUE, braked |-> FALSE, fed |-> 0, bad |-> 0, tail |-> <<>>,
           kept |-> <<>>, errors |-> 0, text |-> <<>>, stop |-> FALSE]

(* The events of one push, and drain_into: past its room the scratch area  *)
(* drops them, and the collector notes it.                                 *)
Drain(p, bytes) == [p EXCEPT !.kept = @ \o SubSeq(bytes, 1, Min({Room, Len(bytes)})),
                             !.errors = IF Len(bytes) > Room THEN @ + 1 ELSE @]

(* Mutant: each chunk is checked by itself. *)
PushUnjoined(p, chunk) ==
  LET bytes == SubSeq(chunk, 1, Min({Brake - p.fed, Len(chunk)}))
      utf8 == Check(<<>>, bytes, TRUE)
  IN  IF ~p.rewriter \/ p.fed >= Brake THEN [p EXCEPT !.stop = TRUE]
      ELSE [Drain(p, bytes) EXCEPT !.fed = p.fed + Len(bytes),
                                   !.bad = IF utf8.ok THEN @ ELSE @ + 1,
                                   !.stop = p.fed + Len(bytes) >= Brake]

Push(p, chunk) ==
  LET bytes == SubSeq(chunk, 1, Min({Brake - p.fed, Len(chunk)}))
      fed == p.fed + Len(bytes)
      utf8 == Check(p.tail, bytes, TRUE)
      parsed == SubSeq(bytes, 1, Max({Min({memory - p.fed, Len(bytes)}), 0}))
      fails == fed > memory /\ ~quiet
  IN  IF ~p.rewriter \/ p.fed >= Brake THEN [p EXCEPT !.stop = TRUE]
      ELSE [Drain(p, parsed) EXCEPT !.fed = fed, !.tail = utf8.tail,
                                    !.bad = IF utf8.ok THEN @ ELSE @ + 1,
                                    !.rewriter = ~fails, !.braked = fails,
                                    !.stop = fails \/ fed >= Brake]

(* A single-byte encoding (external): what is not ASCII takes two bytes. *)
Decoded(s) == FlattenSeq([i \in DOMAIN s |-> IF s[i] = "ascii" THEN <<"ascii">> ELSE <<"two", "cont">>])

Transcode(p, s) == LET text == p.text \o Decoded(s)
                       q == Push(p, text)
                   IN  IF text = <<>> THEN [p EXCEPT !.stop = FALSE]
                       ELSE [q EXCEPT !.text = IF q.stop THEN text ELSE <<>>]

Feed(p, s) == IF foreign THEN Transcode(p, s) ELSE Push(p, s)
Flush(p) == IF foreign THEN Transcode(p, <<>>) ELSE [p EXCEPT !.stop = FALSE]

-----------------------------------------------------------------------------
(* fetch_page_sel *)

Init == /\ doc \in BoundedSeq(Bytes, DocLen)
        /\ foreign \in BOOLEAN /\ declared \in BOOLEAN
        /\ memory \in Memory /\ quiet \in BOOLEAN
        /\ truncated = (declared /\ Len(doc) > Brake)
        /\ at = IF truncated THEN "page" ELSE "body"
        /\ pos = 0 /\ head = <<>> /\ stopped = FALSE /\ transportErr = FALSE
        /\ pipe = NoPipe
        /\ page = [kept |-> <<>>, bad |-> 0, errors |-> 0, truncated |-> FALSE]

(* A chunk: the head takes what it wants of it, the pipeline the rest. *)
Chunk(n) ==
  LET chunk == SubSeq(doc, pos + 1, pos + n)
      take == Min({n, HeadWindow - Len(head)})
      grown == head \o SubSeq(chunk, 1, take)
      rest == From(chunk, take)
      opened == IF ~pipe.open /\ Len(grown) = HeadWindow
                THEN Feed([pipe EXCEPT !.open = TRUE], grown) ELSE pipe
      p == IF opened.open /\ rest # <<>> THEN Feed(opened, rest) ELSE opened
  IN  /\ at = "body" /\ ~stopped /\ pos + n <= Len(doc)
      /\ pos' = pos + n
      /\ IF pos' > RawCap
         THEN at' = "flush" /\ truncated' = TRUE /\ UNCHANGED <<head, pipe, stopped>>
         ELSE at' = at /\ head' = grown /\ pipe' = p /\ stopped' = (p.open /\ p.stop) /\ UNCHANGED truncated
      /\ UNCHANGED <<answer, transportErr, page>>

(* The body ends, breaks off, or is wanted no longer. *)
EndOfBody == /\ at = "body" /\ at' = "flush"
             /\ \/ (stopped \/ pos = Len(doc)) /\ UNCHANGED transportErr
                \/ ~stopped /\ transportErr' = TRUE
             /\ UNCHANGED <<answer, pos, head, stopped, truncated, pipe, page>>

FlushFeed == /\ at = "flush" /\ at' = "page"
             /\ pipe' = IF pipe.open THEN Flush(pipe)
                        ELSE IF head # <<>> THEN Flush(Feed([pipe EXCEPT !.open = TRUE], head)) ELSE pipe
             /\ stopped' = (stopped \/ (pipe'.open /\ pipe'.stop))
             /\ UNCHANGED <<answer, pos, head, truncated, transportErr, page>>

Finish == /\ at = "page" /\ at' = "done"
          /\ page' = [kept |-> pipe.kept, bad |-> pipe.bad, errors |-> pipe.errors,
                      truncated |-> \/ truncated \/ transportErr
                                    \/ ~pipe.open \/ pipe.braked \/ pipe.fed >= Brake]
          /\ UNCHANGED <<answer, pos, head, stopped, truncated, transportErr, pipe>>

Next == (\E n \in 1 .. DocLen : Chunk(n)) \/ EndOfBody \/ FlushFeed \/ Finish

Spec == Init /\ [][Next]_vars

-----------------------------------------------------------------------------
TypeOK == /\ doc \in BoundedSeq(Bytes, DocLen) /\ head \in BoundedSeq(Bytes, HeadWindow)
          /\ at \in {"body", "flush", "page", "done"} /\ pos \in 0 .. Len(doc)
          /\ pipe.fed \in 0 .. Brake /\ pipe.errors \in Nat /\ pipe.bad \in Nat

Text == IF foreign THEN Decoded(doc) ELSE doc
Parsed == SubSeq(Text, 1, pipe.fed)

(* Bad UTF-8 is noted if and only if the text has some, wherever the       *)
(* chunks cut its characters (pipeline.rs:53-111;                          *)
(* parser-pipeline/tests/regressions.rs:138-154).  A character that the    *)
(* end of the text cuts short is not counted.                              *)
Broken(s) == Whole(s) < Len(s) /\ From(s, Whole(s)) \notin Begun
Utf8Told == at = "done" => (page.bad > 0 <=> Broken(Parsed))

(* However the network cuts the body, the parser sees its bytes once and   *)
(* in order, and a page that is not made of all of them says so: it is     *)
(* truncated or has a parse error (fetch.rs:421-502, pipeline.rs:339-353;  *)
(* parser-pipeline/tests/scratch_unit.rs:14-17).  Only a parser that goes  *)
(* quiet at its memory limit can cut a page short unseen.                  *)
LossTold ==
  /\ TypeOK
  /\ pipe.errors = 0 => IsPrefix(pipe.kept, Parsed)
  /\ at = "done" /\ page.kept # Text =>
       page.truncated \/ page.errors > 0 \/ (quiet /\ pipe.fed > memory)
  /\ Utf8Told
=============================================================================
