----------------------------- MODULE StreamText -----------------------------
(***************************************************************************)
(* What stream_with_telemetry makes of the text of an answer: the lines    *)
(* it joins from chunks that cut them anywhere, the translation between    *)
(* the two protocols, the thinking tags it takes out, and the tokens it    *)
(* records at the end or when the client leaves.                           *)
(*                                                                         *)
(* An upstream answer is a sequence of lines.  A chunk brings the rest of  *)
(* a line, whole lines and the beginning of one: up to its middle, or all  *)
(* of it but the line feed.  A letter stands for itself or for the rest of *)
(* a tag: <t> is <think>, </t> is </think>.                                *)
(*                                                                         *)
(* Lines, in either protocol:                                              *)
(*   event    announces the next line (Anthropic upstreams only)           *)
(*   delta    a piece of the text                                          *)
(*   thought  a piece the upstream itself calls reasoning                  *)
(*   usage    token counts; those left out, or 0, are not reported         *)
(*   body     a whole answer in one line; pretty: in several               *)
(*   end      anything without text or counts                              *)
(***************************************************************************)
EXTENDS Integers, Sequences, FiniteSets

CONSTANT Upstreams  \* the answers there may be, see Upstream

Line ==
  [kind : {"event", "delta", "thought", "end"}, text : Seq(STRING), reports : {FALSE}]
  \cup [kind : {"usage"}, text : {<<>>}, reports : {TRUE}, p : Nat, c : Nat, final : BOOLEAN]
  \cup [kind : {"body", "pretty"}, text : Seq(STRING), reports : BOOLEAN, p : Nat, c : Nat]

\* sse: the content type is that of an event stream, as it is not for a whole
\* answer and for Ollama's lines; feed: the last line ends in a line feed.
Upstream ==
  [format : {"openai", "anthropic", "ollama"}, lines : Seq(Line), sse : BOOLEAN, feed : BOOLEAN]

\* Servers keep to their protocol: an answer in several lines has no others, and
\* of a stream of events none is a whole answer; Anthropic's are announced; the
\* completion tokens do not fall, and Anthropic's last event has them.
KeepsProtocol(u) ==
  LET L == u.lines
      Usage == {i \in DOMAIN L : L[i].kind = "usage"}
  IN /\ \A i \in DOMAIN L : /\ L[i].kind = "pretty" => Len(L) = 1
                            /\ u.sse => L[i].kind \notin {"body", "pretty"}
     /\ u.sse => \A i, j \in Usage : i < j => L[i].c <= L[j].c
     /\ u.sse /\ u.format = "anthropic" =>
          /\ \A i \in DOMAIN L : L[i].kind = "delta" \/ (i \in Usage /\ L[i].final) =>
                                   i > 1 /\ L[i - 1].kind = "event"
          /\ \A i \in Usage : L[i].c > 0 => \E j \in Usage : i <= j /\ L[j].final

ASSUME StreamAssumption == \A u \in Upstreams : u \in Upstream /\ KeepsProtocol(u)

VARIABLES
  stream,   \* the answer
  mode,     \* translation_mode: "none", "anthropic_to_openai" or "openai_to_anthropic"
  norm,     \* normalize_thinking
  came,     \* how many lines the upstream has sent
  half,     \* of the next it sent "none", half ("mid"), or all but the feed ("eol")
  due,      \* what a translation has still to yield
  count,    \* completion_tokens of anthropic_to_openai.translate_stream
  closed,   \* a translation has come to its last lines
  parser,   \* ThinkTagParser: in_thinking and buffer, and what it is used for
  scan,     \* _StreamScan: the usage, usage_seen and delta_count
  got,      \* the letters the client was given, as text and as reasoning
  cut,      \* a translation found a chunk's end inside an event
  state,    \* "open", "ended" or "left"
  recorded  \* the figures that were recorded

upstreamVars == <<stream, mode, norm, came, half>>
readVars == <<due, count, closed, cut>>
textVars == <<parser, scan, got>>
endVars == <<state, recorded>>
streamVars == <<upstreamVars, readVars, textVars, endVars>>

\* A line that reports counts.
Counts(p, c) == [kind |-> "usage", p |-> p, c |-> c, reports |-> TRUE, text |-> <<>>, final |-> TRUE]

\* The translation an answer's format calls for, if any.
ModeOf(format) == IF format = "anthropic" THEN "openai_to_anthropic" ELSE "anthropic_to_openai"

Lines == stream.lines
Size == Len(Lines)

\* The thinking parser is only made for an event stream.
Parsing == norm /\ stream.sse

\* What the client speaks.
ClientFormat == CASE mode = "none" -> stream.format
                  [] mode = "anthropic_to_openai" -> "anthropic"
                  [] OTHER -> "openai"

NoFigures == [p |-> 0, c |-> 0, seen |-> FALSE, deltas |-> 0]

\* Before the first chunk; one translation yields a first event by itself.
StreamBegins ==
  /\ came = 0 /\ half = "none"
  /\ due = IF mode = "anthropic_to_openai" THEN <<Counts(0, 0)>> ELSE <<>>
  /\ count = 0 /\ closed = (mode = "none") /\ cut = FALSE
  /\ parser = [for |-> IF Parsing THEN ClientFormat ELSE "nobody", inside |-> FALSE, buffer |-> <<>>]
  /\ scan = NoFigures
  /\ got = [text |-> <<>>, thought |-> <<>>]
  /\ state = "open"
  /\ recorded = [p |-> 0, c |-> 0]

StreamInit ==
  /\ stream \in Upstreams
  /\ norm \in BOOLEAN
  /\ mode \in {"none"} \cup IF stream.sse THEN {ModeOf(stream.format)} ELSE {}
  /\ StreamBegins

-----------------------------------------------------------------------------
(* ThinkTagParser.                                                         *)

Opening == <<"<", "t", ">">>
Closing == <<"<", "/", "t", ">">>

At(s, tag, i) == i + Len(tag) - 1 <= Len(s) /\ SubSeq(s, i, i + Len(tag) - 1) = tag

\* str.find: the first place of a tag, or 0.
Find(s, tag) ==
  LET places == {i \in 1..Len(s) : At(s, tag, i)}
  IN IF places = {} THEN 0 ELSE CHOOSE i \in places : \A j \in places : i <= j

\* Bug: a tag that is cut at the end of a piece is not held back.
HoldNothing(s, tag) == 0

\* How many letters at the end of s may be the beginning of a tag.
Held(s, tag) ==
  LET sizes == {n \in 0..(Len(tag) - 1) : n <= Len(s) /\ SubSeq(s, Len(s) - n + 1, Len(s)) = SubSeq(tag, 1, n)}
  IN CHOOSE n \in sizes : \A k \in sizes : k <= n

\* The loop of feed once, while anything is left: past the next tag, or to the
\* end but for what may be the beginning of one.
Turn(a, x) ==
  LET tag == IF a.inside THEN Closing ELSE Opening
      i == Find(a.rest, tag)
      kept == Len(a.rest) - Held(a.rest, tag)
      end == IF i > 0 THEN i - 1 ELSE kept
      piece == SubSeq(a.rest, 1, end)
      past == [a EXCEPT !.text = IF a.inside THEN @ ELSE @ \o piece,
                        !.thought = IF a.inside THEN @ \o piece ELSE @]
  IN IF a.rest = <<>> THEN a
     ELSE IF i > 0 THEN [past EXCEPT !.rest = SubSeq(@, i + Len(tag), Len(@)), !.inside = ~@]
     ELSE [past EXCEPT !.rest = <<>>, !.buffer = SubSeq(a.rest, kept + 1, Len(a.rest))]

\* It turns at most once for each letter.
Loop == INSTANCE Folding WITH Step <- Turn

\* feed; of nothing, it gives nothing, the buffer included.
Feed(p, s) ==
  LET all == p.buffer \o s
  IN Loop!Fold([rest |-> all, inside |-> p.inside, buffer |-> <<>>, text |-> <<>>, thought |-> <<>>], all)

-----------------------------------------------------------------------------
(* Lines that are complete.                                                *)

HasUsage(l) == l.kind \in {"usage", "body"}

\* Usage.merge: later counts that are not 0 win.
Merge(u, l) ==
  [u EXCEPT !.p = IF l.p # 0 THEN l.p ELSE @, !.c = IF l.c # 0 THEN l.c ELSE @, !.seen = TRUE]

\* _StreamScan.line.
Scanned(u, l) ==
  LET m == IF HasUsage(l) /\ l.reports THEN Merge(u, l) ELSE u
  IN IF l.kind \in {"delta", "thought"} /\ l.text # <<>> THEN [m EXCEPT !.deltas = @ + 1] ELSE m

Scans == INSTANCE Folding WITH Step <- Scanned

\* A line as the client gets it: as it is, or, for the parser, with the thinking
\* as reasoning in OpenAI's format and without it in Anthropic's.
Given(acc, l) ==
  LET fed == Feed(acc.parser, l.text)
      thought == IF acc.parser.for = "openai" THEN fed.thought ELSE <<>>
  IN IF l.kind = "delta" /\ acc.parser.for # "nobody"
       THEN [parser |-> [acc.parser EXCEPT !.inside = fed.inside, !.buffer = fed.buffer],
             got |-> [text |-> acc.got.text \o fed.text, thought |-> acc.got.thought \o thought]]
     ELSE IF l.kind \in {"delta", "body", "pretty"} THEN [acc EXCEPT !.got.text = @ \o l.text]
     ELSE IF l.kind = "thought" THEN [acc EXCEPT !.got.thought = @ \o l.text]
     ELSE acc

Gives == INSTANCE Folding WITH Step <- Given

\* The loop of stream_with_telemetry over the lines of one chunk.
Pass(ls) ==
  LET g == Gives!Fold([parser |-> parser, got |-> got], ls)
  IN /\ scan' = Scans!Fold(scan, ls)
     /\ parser' = g.parser
     /\ got' = g.got

-----------------------------------------------------------------------------
(* Chunks.                                                                 *)

Sizes == {"none", "mid", "eol"}

\* A chunk brings n line feeds and then part of a line, if there is one.
Possible(n, h) ==
  LET left == Size - came - n
  IN /\ left >= IF h = "none" THEN 0 ELSE 1
     /\ n = 0 => <<half, h>> \in {<<"none", "mid">>, <<"none", "eol">>, <<"mid", "eol">>}
     /\ ~stream.feed => left >= 1

\* Both translations split each chunk into lines by itself: a line is understood
\* only if one chunk has all of it.
Understood(n, h) ==
  LET first == came + IF half = "none" THEN 1 ELSE 2
      end == came + n + IF h = "eol" /\ (n > 0 \/ half = "none") THEN 1 ELSE 0
  IN SubSeq(Lines, first, end)

\* anthropic_to_openai.translate_stream: pieces of text are passed on, and of
\* the counts the last ones kept for its end.
KeepPiece(out, l) == IF l.kind = "delta" /\ l.text # <<>> THEN Append(out, l) ELSE out
Pieces == INSTANCE Folding WITH Step <- KeepPiece
Counted(c, l) == IF l.kind = "usage" THEN l.c ELSE c
LastCount == INSTANCE Folding WITH Step <- Counted

\* openai_to_anthropic.translate_stream: a line is what the event line before it,
\* in the same chunk, says; of the counts those of the last event are passed on.
OnEvent(a, l) ==
  [announced |-> l.kind = "event",
   out |-> IF a.announced /\ (l.kind = "delta" \/ (l.kind = "usage" /\ l.final))
             THEN Append(a.out, l) ELSE a.out]
Events == INSTANCE Folding WITH Step <- OnEvent
FromAnthropic(ls) == Events!Fold([announced |-> FALSE, out |-> <<>>], ls).out

\* The chunk ends within a line, or between an event line and the line it announces.
CutsEvent(n, h) ==
  LET end == came + n + IF h = "eol" THEN 1 ELSE 0
  IN h = "mid" \/ (end > 0 /\ Lines[end].kind = "event")

Read(n, h) ==
  /\ state = "open" /\ due = <<>>
  /\ Possible(n, h)
  /\ came' = came + n
  /\ half' = h
  /\ IF mode = "none"
       THEN Pass(SubSeq(Lines, came + 1, came + n)) /\ UNCHANGED readVars
       ELSE LET ls == Understood(n, h)
            IN /\ IF mode = "anthropic_to_openai"
                    THEN due' = Pieces!Fold(<<>>, ls) /\ count' = LastCount!Fold(count, ls)
                    ELSE due' = FromAnthropic(ls) /\ UNCHANGED count
               /\ cut' = (cut \/ CutsEvent(n, h))
               /\ UNCHANGED <<closed, textVars>>
  /\ UNCHANGED <<stream, mode, norm, endVars>>

\* A line of a translation goes through the loop as a chunk of its own.
HandOn ==
  /\ state = "open" /\ due # <<>>
  /\ Pass(<<Head(due)>>)
  /\ due' = Tail(due)
  /\ UNCHANGED <<upstreamVars, count, closed, cut, endVars>>

Over == came = Size \/ (came = Size - 1 /\ half = "eol" /\ ~stream.feed)

CloseTranslation ==
  /\ state = "open" /\ Over /\ due = <<>> /\ ~closed
  /\ due' = IF mode = "anthropic_to_openai" THEN <<Counts(0, count)>> ELSE <<>>
  /\ closed' = TRUE
  /\ UNCHANGED <<upstreamVars, count, cut, textVars, endVars>>

-----------------------------------------------------------------------------
(* The end.                                                                *)

\* What of the lines has arrived whole, and nothing beside.
Arrived == came + IF half = "eol" THEN 1 ELSE 0
OneDocument == Arrived = 1 /\ half # "mid"

\* usage_from_body and the estimate by length.
Reported(u, l) == IF l.reports THEN Merge(u, l) ELSE u
Reports == INSTANCE Folding WITH Step <- Reported
Body(u) ==
  LET said == Reports!Fold(u, SubSeq(Lines, 1, Arrived))
      text == IF OneDocument THEN Lines[1].text ELSE <<>>
  IN IF said.p # 0 \/ said.c # 0 THEN [p |-> said.p, c |-> said.c]
     ELSE [p |-> 0, c |-> IF text = <<>> THEN 0 ELSE IF Len(text) < 8 THEN 1 ELSE Len(text) \div 4]

\* Bug: an event stream that has reported any counts is taken at its word.
FiguresAsReported(u) ==
  IF ~u.seen /\ ~stream.sse /\ Arrived > 0 THEN Body(u)
  ELSE [p |-> u.p, c |-> IF ~u.seen THEN u.deltas ELSE u.c]

\* _figures.
Figures(u) ==
  IF ~u.seen /\ ~stream.sse /\ (Arrived > 0 \/ half # "none") THEN Body(u)
  ELSE [p |-> u.p, c |-> IF ~u.seen \/ (u.c = 0 /\ u.deltas > 0) THEN u.deltas ELSE u.c]

\* A last line without a line feed is still in the buffer.
LastLine == IF mode = "none" /\ half = "eol" THEN <<Lines[Size]>> ELSE <<>>

\* It is read for its counts, and given to the client as it is.
End ==
  LET rest == LastLine
      u == Scans!Fold(scan, rest)
  IN /\ state = "open" /\ Over /\ due = <<>> /\ closed
     /\ scan' = u
     /\ got' = Gives!Fold([parser |-> [parser EXCEPT !.for = "nobody"], got |-> got], rest).got
     /\ recorded' = Figures(u)
     /\ state' = "ended"
     /\ UNCHANGED <<upstreamVars, readVars, parser>>

Leave ==
  /\ state = "open"
  /\ recorded' = Figures(scan)
  /\ state' = "left"
  /\ UNCHANGED <<upstreamVars, readVars, textVars>>

StreamNext ==
  \/ \E n \in 0..(Size - came), h \in Sizes : Read(n, h)
  \/ HandOn
  \/ CloseTranslation
  \/ End
  \/ Leave

StreamSpec == StreamInit /\ [][StreamNext]_streamVars

-----------------------------------------------------------------------------
(* Properties.                                                             *)

\* Letter by letter: the number of letters of the awaited tag that are matched
\* are neither text nor thinking until the next letter says so.
Split(a, x) ==
  LET tag == IF a.inside THEN Closing ELSE Opening
      Add(s) == IF a.inside THEN [a EXCEPT !.thought = @ \o s] ELSE [a EXCEPT !.text = @ \o s]
      seen == SubSeq(tag, 1, a.matched)
  IN IF x = tag[a.matched + 1]
       THEN IF a.matched + 1 = Len(tag)
              THEN [a EXCEPT !.inside = ~@, !.matched = 0]
              ELSE [a EXCEPT !.matched = @ + 1]
       ELSE IF x = tag[1]
              THEN [Add(seen) EXCEPT !.matched = 1]
              ELSE [Add(Append(seen, x)) EXCEPT !.matched = 0]

Splits == INSTANCE Folding WITH Step <- Split
SplitLine(a, l) ==
  CASE l.kind = "delta" -> Splits!Fold(a, l.text)
    [] l.kind = "thought" -> [a EXCEPT !.thought = @ \o l.text]
    [] OTHER -> a
Talk == INSTANCE Folding WITH Step <- SplitLine
NothingSaid == [inside |-> FALSE, matched |-> 0, text |-> <<>>, thought |-> <<>>]

Joined(s, l) == IF l.kind \in {"delta", "body", "pretty"} THEN s \o l.text ELSE s
AllText == INSTANCE Folding WITH Step <- Joined

\* A translation found every event in one chunk.
Uncut == mode = "none" \/ ~cut

\* stream_with_telemetry, ThinkTagParser.feed and the two translations: wherever
\* chunks cut the lines, and pieces the tags, the client of a stream that ended
\* has all of the text in its order, the thinking in its own place, and nothing
\* twice; but the beginning of a tag that the text ends with is lost.  Of a
\* translation this is so unless a chunk ended inside an event.
Delivered ==
  state = "ended" /\ Uncut =>
    LET whole == Talk!Fold(NothingSaid, Lines)
    IN IF Parsing /\ (mode # "none" \/ half = "none")
         THEN /\ got.text = whole.text
              /\ ClientFormat = "openai" /\ mode = "none" => got.thought = whole.thought
         ELSE Parsing \/ got.text = AllText!Fold(<<>>, Lines)

\* usage.py and _figures: a stream that ended is recorded with the completion
\* tokens its server reported last, and one that reported none with its number
\* of pieces, however it was cut; and its prompt tokens, unless it was translated.
UsageRecorded ==
  state = "ended" /\ Uncut =>
    LET said == Reports!Fold(NoFigures, Lines)
        pieces == {i \in DOMAIN Lines : Lines[i].text # <<>> /\
                     (Lines[i].kind = "delta" \/ (Lines[i].kind = "thought" /\ mode = "none"))}
    IN /\ said.c > 0 => recorded.c = said.c
       /\ said.c = 0 /\ stream.sse => recorded.c = Cardinality(pieces)
       /\ mode = "none" => recorded.p = said.p

\* stream_with_telemetry: a client that leaves an event stream after it was given
\* text is recorded with completion tokens.
WorkCharged == state = "left" /\ stream.sse /\ got.text # <<>> => recorded.c > 0

\* What a stream is recorded with, ended or left, is what it cost.
WorkRecorded == UsageRecorded /\ WorkCharged

\* "Client disconnected or the task was cancelled: still account for the work done"
\* (streaming.py:459), of any answer.
WorkAccounted == state = "left" /\ Len(got.text) > 1 => recorded.c > 0
=============================================================================
