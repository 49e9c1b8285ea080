----------------------------- MODULE Translation -----------------------------
(***************************************************************************)
(* The translation of request bodies between the two protocols             *)
(* (translation/), as pure functions.                                      *)
(*                                                                         *)
(* A content is a string or a list of parts; a string is its lines, none   *)
(* when it is empty.  A part has a type and a value; an image is "image"   *)
(* when its data is in the body, and "remote" when it is an address.  An   *)
(* option that is not given is "unset".                                    *)
(***************************************************************************)
EXTENDS Integers, Sequences, Functions

CONSTANT Bodies  \* the bodies that clients send, see AnthropicBody and OpenAIBody

IsSequence(s) == s \in Seq(Range(s))

\* A string has only text.
IsContent(c) ==
  /\ c.list \in BOOLEAN /\ IsSequence(c.parts)
  /\ c.list \/ \A i \in DOMAIN c.parts : c.parts[i].type = "text"

IsMessage(m, Roles) == m.role \in Roles /\ IsContent(m.content) /\ DOMAIN m = {"role", "content"}

\* system is a content, tools the names of tools, choice "unset", "auto", "any"
\* ("required" of OpenAI), "none", or the name of a tool; max is 0 when not given.
AnthropicBody(b) ==
  /\ b.format = "anthropic" /\ IsContent(b.system) /\ IsSequence(b.messages)
  /\ \A i \in DOMAIN b.messages : IsMessage(b.messages[i], {"user", "assistant"})
OpenAIBody(b) ==
  /\ b.format = "openai" /\ IsSequence(b.messages)
  /\ \A i \in DOMAIN b.messages : IsMessage(b.messages[i], {"system", "user", "assistant", "tool"})

ASSUME BodiesAssumption == \A b \in Bodies : AnthropicBody(b) \/ OpenAIBody(b)

VARIABLES
  sent,  \* the body a client sent
  body,  \* what became of it
  hops   \* how often it was translated

translationVars == <<sent, body, hops>>

TranslationInit == sent \in Bodies /\ body = sent /\ hops = 0

Text(lines) == [list |-> FALSE, parts |-> lines]

KeepText(out, p) == IF p.type = "text" THEN Append(out, p) ELSE out
TextParts == INSTANCE Folding WITH Step <- KeepText
KeepKnown(out, p) == IF p.type \in {"text", "image"} THEN Append(out, p) ELSE out
KnownParts == INSTANCE Folding WITH Step <- KeepKnown

\* "parts if parts else ''", of the parts a translation knows.
Content(c) ==
  LET known == KnownParts!Fold(<<>>, c.parts)
  IN IF c.list /\ known # <<>> THEN [list |-> TRUE, parts |-> known]
     ELSE IF c.list THEN Text(<<>>) ELSE c

KeepSystem(out, m) == IF m.role = "system" THEN Append(out, m) ELSE out
SystemTurns == INSTANCE Folding WITH Step <- KeepSystem
KeepSpoken(out, m) == IF m.role # "system" THEN Append(out, m) ELSE out
SpokenTurns == INSTANCE Folding WITH Step <- KeepSpoken

\* Bug: of a system prompt that is a list only the first part is kept.
SystemFirst(c) ==
  LET text == TextParts!Fold(<<>>, c.parts)
  IN IF text # <<>> THEN <<[role |-> "system", content |-> Text(<<Head(text)>>)]>> ELSE <<>>

\* The system prompt as a first message: its text, joined.
System(c) ==
  LET text == TextParts!Fold(<<>>, c.parts)
  IN IF text # <<>> THEN <<[role |-> "system", content |-> Text(text)]>> ELSE <<>>

\* anthropic_to_openai.translate_request.  A choice of "none" is left out.
ToOpenAI(b) ==
  [format |-> "openai", model |-> b.model, temperature |-> b.temperature, max |-> b.max,
   messages |-> System(b.system) \o
     [i \in 1..Len(b.messages) |-> [b.messages[i] EXCEPT !.content = Content(@)]],
   tools |-> b.tools,
   choice |-> IF b.tools = <<>> \/ b.choice = "none" THEN "unset" ELSE b.choice]

\* The maximum, which Anthropic requires, when none is given.
DefaultMax == 4096

\* A system prompt as it is written, which shows the brackets of a list.
AddWritten(out, m) ==
  out \o IF m.content.list THEN <<[type |-> "text", value |-> <<"list", m.content.parts>>]>> ELSE m.content.parts
Written == INSTANCE Folding WITH Step <- AddWritten

\* openai_to_anthropic.translate_request: system prompts are joined, wherever they
\* stand; other roles become the user's.
ToAnthropic(b) ==
  LET turns == SpokenTurns!Fold(<<>>, b.messages)
  IN [format |-> "anthropic", model |-> b.model, temperature |-> b.temperature,
      max |-> IF b.max = 0 THEN DefaultMax ELSE b.max,
      system |-> Text(Written!Fold(<<>>, SystemTurns!Fold(<<>>, b.messages))),
      messages |-> [i \in 1..Len(turns) |->
        [role |-> IF turns[i].role = "assistant" THEN "assistant" ELSE "user",
         content |-> Content(turns[i].content)]],
      tools |-> b.tools,
      choice |-> IF b.tools = <<>> \/ b.choice = "none" THEN "unset" ELSE b.choice]

\* translate_request_body; a gateway behind a gateway may translate it back.
Translate ==
  /\ hops < 2
  /\ body' = IF body.format = "anthropic" THEN ToOpenAI(body) ELSE ToAnthropic(body)
  /\ hops' = hops + 1
  /\ UNCHANGED sent

TranslationSpec == TranslationInit /\ [][Translate]_translationVars

-----------------------------------------------------------------------------
(* Properties.                                                             *)

\* What the parties said: for each turn who spoke, and the texts and the images.
Said(b) ==
  LET turns == SpokenTurns!Fold(<<>>, b.messages)
  IN [i \in 1..Len(turns) |->
       <<IF turns[i].role = "assistant" THEN "assistant" ELSE "user",
         KnownParts!Fold(<<>>, turns[i].content.parts)>>]

AddParts(out, m) == out \o m.content.parts
AllParts == INSTANCE Folding WITH Step <- AddParts

\* What the model was told beforehand.
Told(b) ==
  IF b.format = "anthropic" THEN TextParts!Fold(<<>>, b.system.parts)
  ELSE AllParts!Fold(<<>>, SystemTurns!Fold(<<>>, b.messages))

\* translate_request, either way and there and back again: the same turns with
\* the same texts and images, the same system prompt unless it was a list of an
\* OpenAI message, the same tools, and the same choice among them.
SameTalk ==
  /\ Said(body) = Said(sent)
  /\ (\A i \in DOMAIN sent.messages : sent.messages[i].role = "system" => ~sent.messages[i].content.list)
       => Told(body) = Told(sent)
  /\ body.tools = sent.tools
  /\ body.tools # <<>> /\ sent.choice # "none" => body.choice = sent.choice
  /\ sent.max # 0 => body.max = sent.max
=============================================================================
