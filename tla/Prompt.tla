------------------------------- MODULE Prompt -------------------------------
(***************************************************************************)
(* What a chat template makes of a transcript: rust/rustcore/src/chat.rs,  *)
(* the built-in ChatML renderer, which mirrors the shipped template.       *)
(*                                                                         *)
(* A text is a sequence of signs: a user's and a system message are one    *)
(* each, and so is each mark of the format and each token the model may    *)
(* say, which stands for the text it decodes to.  A tokenizer makes tokens *)
(* of a text, and they need not be the ones the text was decoded from.     *)
(***************************************************************************)
EXTENDS Naturals, Sequences, SequencesExt, FiniteSetsExt

CONSTANTS
  Systems,   \* system prompts
  Users,     \* what a user may say
  Words,     \* what the model may say
  Blanks,    \* signs that are white space
  Tokens,    \* the vocabulary
  Encode(_), \* the tokens of a text, or something else if it has none
  Options    \* enable_thinking, reasoning_effort and preserve_thinking of a turn

\* JarvisParams, the sampling aside.
Params == [think : BOOLEAN, effort : {"low", "medium", "xhigh"}, keep : BOOLEAN]

Marks == {"system", "user", "assistant", "end", "<think>", "</think>", "low", "xhigh",
          "<tool_response>", "</tool_response>"}
Said  == Words \union {"</think>"}   \* what is sampled, the end of the turn aside
Signs == Systems \union Users \union Words \union Marks

ASSUME OptionsAreParams == Options \subseteq Params
ASSUME SaidInVocabulary == Said \subseteq Tokens

\* The engine refuses an empty prompt, and the tokenizer may refuse any.
Encodes(text) == Encode(text) \in Seq(Tokens) \ {<<>>}

Solid(text) == {i \in 1 .. Len(text) : text[i] \notin Blanks}
Trim(text)  == IF Solid(text) = {} THEN <<>> ELSE SubSeq(text, Min(Solid(text)), Max(Solid(text)))

Roles   == {"system", "user", "assistant", "tool"}
Message == [role : Roles, thought : Seq(Signs), text : Seq(Signs)]

System(s) == [role |-> "system", thought |-> <<>>, text |-> <<s>>]
User(u)   == [role |-> "user", thought |-> <<>>, text |-> <<u>>]

HasSystem(messages) == messages # <<>> /\ messages[1].role = "system"

\* The system block carries the reasoning preamble, which a medium effort has none of;
\* there is none if it would be empty.
SystemBlock(messages, o) ==
  LET preamble == IF o.think /\ o.effort # "medium" THEN <<o.effort>> ELSE <<>>
      content  == IF HasSystem(messages) THEN Trim(messages[1].text) ELSE <<>>
  IN IF preamble \o content = <<>> THEN <<>>
     ELSE <<"system">> \o preamble \o content \o <<"end">>

\* A past turn: a system message out of place is ignored.
Block(m, keep) ==
  LET content == Trim(m.text) IN
  CASE m.role = "system"    -> <<>>
    [] m.role = "user"      -> <<"user">> \o content \o <<"end">>
    [] m.role = "assistant" ->
         <<"assistant">>
           \o (IF keep THEN <<"<think>">> \o Trim(m.thought) \o <<"</think>">> ELSE <<>>)
           \o content \o <<"end">>
    [] m.role = "tool"      ->
         <<"user", "<tool_response>">> \o content \o <<"</tool_response>", "end">>

\* The last message of a user, or else the first that is not the system's.
LastUser(messages) == Max({i \in DOMAIN messages : messages[i].role = "user"}
                            \union {IF HasSystem(messages) THEN 2 ELSE 1})

\* The answer's block is left open for the model, inside the reasoning if it is to think.
Opening(think) == <<"assistant", "<think>">> \o (IF think THEN <<>> ELSE <<"</think>">>)

\* The blocks of all the messages, one after the other; reasoning from before the last
\* user's message is dropped unless it is to be kept.
Body(messages, keep) ==
  LET body[n \in 0 .. Len(messages)] ==
        IF n = 0 THEN <<>>
        ELSE body[n - 1] \o Block(messages[n], keep \/ n > LastUser(messages))
  IN body[Len(messages)]

Render(messages, o) ==
  SystemBlock(messages, o) \o Body(messages, o.keep) \o Opening(o.think)

\* The message a reply becomes: what comes before the end of the reasoning is thought.
Assistant(out, think) ==
  LET close == IF think THEN SelectInSeq(out, LAMBDA t : t = "</think>") ELSE 0
  IN [role    |-> "assistant",
      thought |-> IF ~think THEN <<>> ELSE Trim(IF close = 0 THEN out ELSE SubSeq(out, 1, close - 1)),
      text    |-> IF ~think THEN Trim(out)
                  ELSE IF close = 0 THEN <<>> ELSE Trim(SubSeq(out, close + 1, Len(out)))]
=============================================================================
