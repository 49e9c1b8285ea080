------------------------------ MODULE MCContent ------------------------------
(* Small instances of what lies between a request and its answer.  A        *)
(* behaviour is about one subject, the rows that readers find in a cache,   *)
(* the answers a cache gives, the text of one answer, or the translation of *)
(* one body: the others keep their first state.                             *)
EXTENDS ReadThroughCache, ResponseCache, StreamText, Translation

CONSTANTS r1, r2, x1, x2, w1, w2, p1, p2

VARIABLE subject

mcVars == <<subject, vars, answerVars, streamVars, translationVars>>

MCReader == {r1, r2}
MCWriter == {x1, x2}
MCWorker == {w1, w2}
MCProcess == {p1, p2}
MCSym == Permutations(MCReader) \cup Permutations(MCWriter) \cup Permutations(MCWorker)
           \cup Permutations(MCProcess)

(* What is asked: the prompts "a" and "b" are alike to 90 %.                *)
Asked(path, model, text, temperature, streamed) ==
  [path |-> path, model |-> model, text |-> text, temperature |-> temperature,
   max |-> 0, stream |-> streamed]
MCRequests ==
  {Asked("chat", "m", "a", "0", FALSE), Asked("completion", "m", "b", "absent", FALSE),
   Asked("chat", "n", "a", "0", FALSE), Asked("chat", "m", "a", "0", TRUE)}
MCPrompts == {Asked("completion", "m", "a", "0", FALSE), Asked("completion", "m", "b", "0", FALSE)}
MCSimilarity == [pq \in {"a", "b"} \X {"a", "b"} |-> IF pq[1] = pq[2] THEN 100 ELSE 90]

(* Answers: texts cut into pieces anywhere, with and without counts.        *)
L(kind, text) == [kind |-> kind, text |-> text, reports |-> FALSE]
Piece(s) == L("delta", s)
Count(p, c, last) == [kind |-> "usage", text |-> <<>>, reports |-> TRUE, p |-> p, c |-> c, final |-> last]
Whole(kind, reports) == [kind |-> kind, text |-> <<"x", "y">>, reports |-> reports, p |-> 2, c |-> 6]
Of(format, lines, sse, feed) == [format |-> format, lines |-> lines, sse |-> sse, feed |-> feed]
Tagged == <<"x", "<", "t", ">", "y", "<", "/", "t", ">", "z">>
Texts == {Tagged, <<"<", "<", "t", ">", "<", "<", "/", "t">>,
          <<"/", "t", ">", "<", "t", "<", "t", ">", "w", "<", "/", "<", "/", "t", ">", "<">>}
InTwo(t) == {<<Piece(SubSeq(t, 1, i)), Piece(SubSeq(t, i + 1, Len(t)))>> : i \in 1..(Len(t) - 1)}
InThree(t) ==
  {<<Piece(SubSeq(t, 1, ij[1])), Piece(SubSeq(t, ij[1] + 1, ij[2])), Piece(SubSeq(t, ij[2] + 1, Len(t)))>> :
     ij \in {ab \in (1..(Len(t) - 1)) \X (1..(Len(t) - 1)) : ab[1] < ab[2]}}
Event == L("event", <<>>)
Done == L("end", <<>>)
OpenAI ==
  UNION {{Of("openai", ls \o rest, TRUE, TRUE) : ls \in InThree(t), rest \in {<<Done>>, <<Count(3, 5, TRUE), Done>>}} :
           t \in Texts}
Anthropic ==
  UNION {{Of("anthropic", <<Event, Count(3, 1, FALSE), Event, ls[1], Event, ls[2], Event, Count(0, 7, TRUE)>>, TRUE, TRUE),
          Of("anthropic", <<Event, Count(3, 0, FALSE), Event, ls[1], Event, ls[2]>>, TRUE, TRUE)} :
           ls \in InTwo(Tagged)}
Other ==
  UNION {{Of("ollama", <<Piece(<<"x">>), Piece(<<"y">>), Count(2, 4, TRUE)>>, FALSE, feed),
          Of("openai", <<L("thought", <<"m">>), Piece(<<"x">>), Count(0, 6, TRUE)>>, TRUE, feed)}
         \cup {Of("openai", <<Whole(kind, reports)>>, FALSE, feed) :
                 kind \in {"body", "pretty"}, reports \in BOOLEAN} : feed \in BOOLEAN}
MCUpstreams == OpenAI \cup Anthropic \cup Other

(* Bodies.                                                                  *)
Part(type, v) == [type |-> type, value |-> v]
Str(v) == Text(<<Part("text", v)>>)
Parts(ps) == [list |-> TRUE, parts |-> ps]
Turns(roles, contents) == [i \in DOMAIN roles |-> [role |-> roles[i], content |-> contents[i]]]
Chosen == {<<<<>>, "unset">>} \cup {<<<<"f">>, c>> : c \in {"unset", "auto", "any", "f", "none"}}
AnthropicBodies ==
  {[format |-> "anthropic", model |-> "m", temperature |-> "unset", max |-> 1, system |-> s,
    messages |-> Turns(<<"user", "assistant">>, <<c, d>>), tools |-> t[1], choice |-> t[2]] :
     s \in {Text(<<>>), Str("s"), Parts(<<Part("text", "s"), Part("text", "q")>>)},
     c \in {Str("x"), Parts(<<Part("text", "x"), Part("image", "i"), Part("text", "y")>>)},
     d \in {Str("x"), Parts(<<Part("tool_result", "r")>>)},
     t \in Chosen}
OpenAIBodies ==
  {[format |-> "openai", model |-> "m", temperature |-> "0", max |-> k,
    messages |-> Turns(<<q, "user", r>>, <<Str("s"), c, d>>), tools |-> t[1], choice |-> t[2]] :
     q \in {"system", "user"}, r \in {"system", "assistant", "tool"}, k \in {0, 1},
     c \in {Str("x"), Parts(<<Part("text", "x"), Part("remote", "u"), Part("image", "i")>>)},
     d \in {Str("y"), Parts(<<Part("text", "y")>>)},
     t \in Chosen}
MCBodies == AnthropicBodies \cup OpenAIBodies

MCInit ==
  /\ subject \in {"rows", "answers", "stream", "body"}
  /\ subject # "rows" => /\ apiKey = FALSE
                         /\ home = [a \in Reader \cup Writer |-> w1]
                         /\ order = [a \in Writer |-> "never"]
  /\ subject # "answers" => exactOn = FALSE /\ similarOn = FALSE /\ threshold = 95
  /\ subject # "stream" => /\ stream = Of("openai", <<Done>>, TRUE, TRUE)
                           /\ norm = FALSE /\ mode = "none"
  /\ subject # "body" => sent = [format |-> "openai", model |-> "m", temperature |-> "unset", max |-> 0,
                                   messages |-> <<>>, tools |-> <<>>, choice |-> "unset"]
  /\ Init
  /\ ResponseCacheInit
  /\ IF subject = "stream" THEN StreamInit ELSE StreamBegins
  /\ IF subject = "body" THEN TranslationInit ELSE body = sent /\ hops = 0

MCNext ==
  \/ subject = "rows" /\ Next /\ UNCHANGED <<subject, answerVars, streamVars, translationVars>>
  \/ subject = "answers" /\ ResponseCacheNext /\ UNCHANGED <<subject, vars, streamVars, translationVars>>
  \/ subject = "stream" /\ StreamNext /\ UNCHANGED <<subject, vars, answerVars, translationVars>>
  \/ subject = "body" /\ Translate /\ UNCHANGED <<subject, vars, answerVars, streamVars>>

MCSpec == MCInit /\ [][MCNext]_mcVars
=============================================================================
