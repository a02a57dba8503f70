------------------------------- MODULE Stream -------------------------------
(***************************************************************************)
(* From the model's tokens to what a reader sees and what is kept: the     *)
(* detokenizer that holds back half a glyph (rust/rustcore/src/             *)
(* tokenizer.rs, StreamDecoder), the splitter that holds back what may be  *)
(* `</think>` (rust/rustcore/src/engine.rs, ThinkingSplitter), the end of  *)
(* the engine's generate (rust/rustmlx/src/engine.rs), and for a robot's   *)
(* turn the on-device brain, which shows no tool calls and takes them out  *)
(* of the text in the end (rust/rustagent/src/ondevice.rs).                *)
(*                                                                         *)
(* Text is a sequence of symbols: two halves "h" make a glyph, "n" is a    *)
(* line's end, and the tags are shortened to a letter each.  Left out:     *)
(* `<function=`, which stands inside a `<tool_call>` and pairs up there;   *)
(* statistics; what the model reads (module Session).                      *)
(***************************************************************************)
EXTENDS Naturals, Sequences, SequencesExt, FiniteSetsExt

CONSTANTS
  Thoughts,  \* what a token decodes to, for a reader of a session that thinks
  Calls,     \* and for a reader of a robot's turn, which does not
  MaxTokens  \* max_tokens of a reply

ASSUME TokensAreText == \A p \in Thoughts \union Calls : p \in Seq(ToSet(p)) \ {<<>>}
ASSUME BoundIsNat    == MaxTokens \in Nat

VARIABLES
  reader,   \* "session", or "turn"
  tokens,   \* tokens sampled
  text,     \* what they decode to
  emitted,  \* how much of it the detokenizer has let go
  split,    \* the splitter: whether inside the reasoning, what is held back, and both parts
  heard,    \* what the reader was handed
  shown,    \* the stretches of the text that a turn's reader was shown, as pairs of ends
  state,    \* "runs", "stopped" by the reader, or "done"
  late,     \* history: something was handed over after the reader said stop
  kept      \* the completion

Readers == {"session", "turn"}

vars == <<reader, tokens, text, emitted, split, heard, shown, state, late, kept>>

EndThink  == <<"<", "/", "t", ">">>
OpenCall  == <<"<", "c", ">">>
CloseCall == <<"<", "/", "c", ">">>

---------------------------------------------------------------------------
(* Text.                                                                   *)

From(t, i)     == SubSeq(t, i, Len(t))
Ends(t, s)     == Len(s) <= Len(t) /\ From(t, Len(t) - Len(s) + 1) = s
Places(t, tag) == {i \in 1 .. Len(t) : IsPrefix(tag, From(t, i))}
Find(t, tag)   == IF Places(t, tag) = {} THEN 0 ELSE Min(Places(t, tag))

\* trim, and trim_start of line ends.
Solid(t)   == {i \in 1 .. Len(t) : t[i] # "n"}
TrimStart(t) == IF Solid(t) = {} THEN <<>> ELSE From(t, Min(Solid(t)))
Trim(t)      == IF Solid(t) = {} THEN <<>> ELSE SubSeq(t, Min(Solid(t)), Max(Solid(t)))

---------------------------------------------------------------------------
(* The detokenizer.                                                        *)

\* A text that ends in half a glyph.
HalfDone(t) == LET run == Len(t) - Max({0} \union {i \in 1 .. Len(t) : t[i] # "h"}) IN run % 2 = 1

\* Mutant of Chunk: the whole glyphs go out, and only the half is kept.
ChunkGlyphs(t) == SubSeq(t, emitted + 1, IF HalfDone(t) THEN Len(t) - 1 ELSE Len(t))

\* StreamDecoder::push: what is new, unless it ends within a glyph.
Chunk(t) == IF HalfDone(t) THEN <<>> ELSE From(t, emitted + 1)

---------------------------------------------------------------------------
(* The splitter.                                                           *)

\* Mutants of Hold: everything is held back; the shortest is.
HoldAll(t) == Len(t)
HoldOne(t) == IF Ends(t, <<"<">>) THEN 1 ELSE 0

\* longest_prefix_suffix.
Hold(t) == Max({0} \union {n \in 1 .. Len(EndThink) - 1 : Ends(t, SubSeq(EndThink, 1, n))})

\* What a push hands on: a piece of the reasoning and one of the answer, whether the
\* reasoning has just been closed, and the splitter after it.
Push(s, chunk) ==
  LET all == s.pending \o chunk
      at  == Find(all, EndThink)
      out(r, a, closed, p, in) ==
        [reasoning |-> r, answer |-> a, closed |-> closed,
         split |-> [in |-> in, pending |-> p, reasoning |-> s.reasoning \o r, answer |-> s.answer \o a]]
  IN CASE ~s.in   -> out(<<>>, chunk, FALSE, <<>>, FALSE)
       [] s.in /\ at # 0 ->
            out(SubSeq(all, 1, at - 1), TrimStart(From(all, at + Len(EndThink))), TRUE, <<>>, FALSE)
       [] s.in /\ at = 0 ->
            out(SubSeq(all, 1, Len(all) - Hold(all)), <<>>, FALSE, From(all, Len(all) - Hold(all) + 1), TRUE)

\* Mutant of Flushed: what was held back is dropped.
FlushedNot(s) == [s EXCEPT !.pending = <<>>]

\* finish: what was held back was no tag.
Flushed(s) == [s EXCEPT !.pending = <<>>, !.reasoning = IF s.in THEN @ \o s.pending ELSE @]

---------------------------------------------------------------------------
(* Tool calls.                                                             *)

\* Mutant of InCall: a tag that is being typed is shown.
InCallWhole(t) == Cardinality(Places(t, OpenCall)) > Cardinality(Places(t, CloseCall))

\* in_tool_call: a block is open, or its tag is being typed, more than the "<" of it.
InCall(t) ==
  \/ Cardinality(Places(t, OpenCall)) > Cardinality(Places(t, CloseCall))
  \/ \E n \in 2 .. Len(OpenCall) - 1 : Ends(t, SubSeq(OpenCall, 1, n))

\* Either format of a call, which anything else is not.
Parses(inner) == Trim(inner) = <<"x">>

\* The first block of a text: where it starts, what is between its tags, and where it
\* stops, which is 0 if there is none.
Block(t) ==
  LET start == Find(t, OpenCall)
      end   == IF start = 0 THEN 0 ELSE Find(From(t, start), CloseCall)
  IN IF end = 0 THEN [start |-> 0, inner |-> <<>>, stop |-> 0]
     ELSE [start |-> start, inner |-> SubSeq(t, start + Len(OpenCall), start + end - 2),
           stop  |-> start + end + Len(CloseCall) - 2]

\* parse_tool_calls: the text without the blocks that are calls, and how many those are;
\* parsed[i] is that of the text from i on.
ParseCalls(t) ==
  LET parsed[i \in 1 .. Len(t) + 1] ==
        LET s    == From(t, i)
            b    == Block(s)
            call == Parses(b.inner)
            rest == parsed[i + b.stop]
        IN IF b.stop = 0
             THEN [clean |-> s, calls |-> 0]
             ELSE [clean |-> SubSeq(s, 1, IF call THEN b.start - 1 ELSE b.stop) \o rest.clean,
                   calls |-> rest.calls + (IF call THEN 1 ELSE 0)]
  IN parsed[1]

---------------------------------------------------------------------------
(* Generation.                                                             *)

Vocab == IF reader = "session" THEN Thoughts ELSE Calls

\* The events of a push, in their order; on-device, what is part of a call is none.
Hidden(t) == reader = "turn" /\ InCall(t)
Events(p, t) ==
  (IF p.reasoning # <<>> THEN <<"reasoning">> ELSE <<>>)
    \o (IF p.closed THEN <<"closed">> ELSE <<>>)
    \o (IF p.answer # <<>> /\ ~Hidden(t) THEN <<"token">> ELSE <<>>)

\* The reader takes the first n of them.
Hand(p, t, n) ==
  LET taken == ToSet(SubSeq(Events(p, t), 1, n)) IN
  /\ heard' = [reasoning |-> heard.reasoning \o (IF "reasoning" \in taken THEN p.reasoning ELSE <<>>),
               answer    |-> heard.answer \o (IF "token" \in taken THEN p.answer ELSE <<>>)]
  /\ shown' = IF reader = "turn" /\ "token" \in taken THEN shown \union {<<emitted + 1, Len(t)>>} ELSE shown
  /\ late' = (late \/ (state = "stopped" /\ taken # {}))

\* A token, and its events; the reader may say stop at any of them, after which
\* there are no more.
Say(piece) ==
  /\ state = "runs" /\ tokens < MaxTokens
  /\ tokens' = tokens + 1
  /\ text' = text \o piece
  /\ IF Chunk(text') = <<>>
       THEN UNCHANGED <<emitted, split, heard, shown, state, late>>
       ELSE LET p == Push(split, Chunk(text'))
                n == Len(Events(p, text'))
            IN /\ emitted' = emitted + Len(Chunk(text'))
               /\ split' = p.split
               /\ \/ Hand(p, text', n) /\ UNCHANGED state
                  \/ \E k \in 1 .. n : Hand(p, text', k) /\ state' = "stopped"
  /\ UNCHANGED <<reader, kept>>

\* A robot's turn takes the calls out of the answer, and has no use for the reasoning.
Reply(end) ==
  LET parsed == ParseCalls(Trim(end.answer))
  IN [reasoning |-> <<>>, answer |-> Trim(parsed.clean), calls |-> parsed.calls]

\* The reply is over: the model has ended it, it is as long as it may be, or it was
\* stopped.  What the detokenizer still holds goes out, what the splitter holds does
\* not; that it closes the reasoning is not told.
Finish ==
  /\ state # "done"
  /\ LET tail == From(text, emitted + 1)
         p    == [Push(split, tail) EXCEPT !.closed = FALSE]
         end  == Flushed(IF tail = <<>> THEN split ELSE p.split)
     IN /\ IF tail = <<>> THEN UNCHANGED <<heard, shown, late>> ELSE Hand(p, text, Len(Events(p, text)))
        /\ split' = end
        /\ kept' = IF reader = "session"
                     THEN [reasoning |-> Trim(end.reasoning), answer |-> Trim(end.answer), calls |-> 0]
                     ELSE Reply(end)
  /\ emitted' = Len(text)
  /\ state' = "done"
  /\ UNCHANGED <<reader, tokens, text>>

Init ==
  /\ reader \in Readers
  /\ tokens = 0 /\ text = <<>> /\ emitted = 0
  /\ split = [in |-> reader = "session", pending |-> <<>>, reasoning |-> <<>>, answer |-> <<>>]
  /\ heard = [reasoning |-> <<>>, answer |-> <<>>] /\ shown = {}
  /\ state = "runs" /\ late = FALSE
  /\ kept = [reasoning |-> <<>>, answer |-> <<>>, calls |-> 0]

Next == (\E piece \in Vocab : Say(piece)) \/ Finish

Spec == Init /\ [][Next]_vars

---------------------------------------------------------------------------
(* Properties.                                                             *)

Symbols == UNION {ToSet(p) : p \in Thoughts \union Calls}
Text    == Seq(Symbols)

Splitter == [in : BOOLEAN, pending : Text, reasoning : Text, answer : Text]

TypeOK ==
  /\ reader \in Readers /\ tokens \in 0 .. MaxTokens /\ text \in Text
  /\ emitted \in 0 .. Len(text)
  /\ split \in Splitter
  /\ Len(split.pending) < Len(EndThink)
  /\ heard \in [reasoning : Text, answer : Text]
  /\ shown \subseteq (1 .. Len(text)) \X (1 .. Len(text))
  /\ state \in {"runs", "stopped", "done"} /\ late \in BOOLEAN
  /\ kept \in [reasoning : Text, answer : Text, calls : Nat]

\* engine.rs:152-153, "tolerating the tag arriving across several chunks": what is kept
\* of a reply is what the whole text says, however its tokens cut it.
ChunksDoNotMatter ==
  state = "done" /\ reader = "session" =>
    LET at == Find(text, EndThink) IN
    kept = [reasoning |-> Trim(IF at = 0 THEN text ELSE SubSeq(text, 1, at - 1)),
            answer    |-> IF at = 0 THEN <<>> ELSE Trim(From(text, at + Len(EndThink))),
            calls     |-> 0]

\* engine.rs:157-159: as it is written, the reader of the reasoning has had all of it but
\* what could still become the tag, and nothing of the tag or of what comes after.
HeldJustEnough ==
  state # "done" /\ reader = "session" =>
    LET out == SubSeq(text, 1, emitted)
        at  == Find(out, EndThink)
    IN IF at # 0 THEN heard.reasoning = SubSeq(out, 1, at - 1)
       ELSE \E n \in 0 .. Len(EndThink) - 1 :
              /\ out = heard.reasoning \o SubSeq(EndThink, 1, n)
              /\ \A m \in n + 1 .. Len(EndThink) - 1 : ~Ends(out, SubSeq(EndThink, 1, m))

\* jarvis.h:127, "non-zero to stop": a reader that has said stop is not handed
\* anything more, what the detokenizer was still holding included.
NothingAfterStop == ~late

\* ondevice.rs:321-324, "the operator should never watch a raw `<tool_call>` block type
\* itself out": of a call that is run, the reader of a turn sees at most the "<" it
\* begins with and the token it ends with, as long as no closing tag stood alone before.
CallsAreHidden ==
  state = "done" /\ kept.calls > 0 =>
    \A b \in Places(text, OpenCall) :
      LET before == SubSeq(text, 1, b - 1)
          size   == Find(From(text, b), CloseCall) + Len(CloseCall) - 1   \* of the block
          inner  == SubSeq(text, b + Len(OpenCall), b + size - Len(CloseCall) - 1)
      IN (/\ Find(From(text, b), CloseCall) # 0 /\ Parses(inner)
          /\ Cardinality(Places(before, CloseCall)) <= Cardinality(Places(before, OpenCall)))
         => \A s \in shown : s[1] > b + size - 1 \/ s[2] <= b \/ s[2] >= b + size - 1
=============================================================================
