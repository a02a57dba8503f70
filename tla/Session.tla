------------------------------ MODULE Session ------------------------------
(***************************************************************************)
(* A session of the C library on the MLX engine: jarvis_send and its       *)
(* neighbours (rust/rustffi/src/session.rs), the engine's generate         *)
(* (rust/rustmlx/src/engine.rs) with its prefill in chunks and its state   *)
(* per layer (model.rs, cache.rs), and the flag that refuses a call from   *)
(* inside a callback (rust/rustffi/src/abi.rs).                            *)
(*                                                                         *)
(* A session belongs to one thread.  A turn hands control back to the      *)
(* caller in every event, and the caller may call in again from there; a   *)
(* pass of the model may fail after any number of its layers have taken    *)
(* its tokens in; a panic is caught at the boundary.  What a layer holds   *)
(* is the tokens it has taken in, logits what each layer held when they    *)
(* were made.  Left out: the text of events, what the splitter holds back  *)
(* (module Stream), sampling, statistics, and errors before a turn begins, *)
(* which change nothing.                                                   *)
(***************************************************************************)
EXTENDS Prompt, FiniteSets

CONSTANTS
  Saved,       \* transcripts a caller may load
  Raw,         \* prompts a caller may template itself
  MaxTokens,   \* max_tokens of a turn
  Layers,      \* layers of the model
  Chunk,       \* PREFILL_CHUNK: tokens of a pass of the prefill
  MaxMessages  \* bound: messages of a transcript a turn is begun on

ASSUME LayersAreSome == Layers \in Nat \ {0} /\ Chunk \in Nat \ {0}
ASSUME BoundsAreNat  == MaxTokens \in Nat /\ MaxMessages \in Nat
ASSUME RawAreTexts   == Raw \subseteq Seq(Signs)
ASSUME SavedAreMessages == Saved \subseteq Seq(Message)

VARIABLES
  messages,  \* the transcript
  last,      \* the last completion
  outcome,   \* how the last call that could change something ended
  busy,      \* the handle is inside a call that may hand control back
  pc,        \* "idle", or where generate is: "feed", "fed", "sample", "said", "decode"
  turn,      \* the locals of generate
  fed,       \* tokens the caches are taken to hold
  cache,     \* cache[l]: tokens layer l has taken in
  broken     \* history: a pass has failed and no cache has been reset since

session == <<messages, last, outcome>>
engine  == <<fed, cache, broken>>
vars    == <<messages, last, outcome, busy, pc, turn, fed, cache, broken>>

NoLast == [kind |-> "none"]

L == 1 .. Layers

\* What each layer holds: keys and values of the tokens it has taken in, or a state
\* they have gone into.
Cache == [L -> Seq(Tokens)]

Empty == [l \in L |-> <<>>]

\* `pos` counts the tokens of the prompt that are in; `logits` is what each layer held
\* when the logits were made, `given` the logits each token said was sampled from.
NoTurn == [kind |-> "none", opts |-> [think |-> FALSE, effort |-> "low", keep |-> FALSE], ids |-> <<>>,
           pos |-> 0, logits |-> Empty, out |-> <<>>, given |-> <<>>]

---------------------------------------------------------------------------
(* The engine.                                                             *)

ResetEngine == fed' = <<>> /\ cache' = Empty /\ broken' = FALSE

\* Mutant of Reuses: whatever the prompt is.
ReusesAny(ids) == fed # <<>>

\* The cache is kept for a prompt that strictly extends what it holds.
Reuses(ids) == fed # <<>> /\ IsStrictPrefix(fed, ids)

\* A pass: every layer takes the tokens in and there are logits, or it breaks off
\* when the first k of them have.
Pass(tokens) ==
  /\ cache' = [l \in L |-> cache[l] \o tokens]
  /\ turn' = [turn EXCEPT !.pos = IF pc = "feed" THEN @ + Len(tokens) ELSE @, !.logits = cache']
  /\ UNCHANGED broken

PassBreaks(tokens) ==
  /\ \E k \in 0 .. Layers : cache' = [l \in L |-> IF l <= k THEN cache[l] \o tokens ELSE cache[l]]
  /\ broken' = TRUE
  /\ UNCHANGED fed

---------------------------------------------------------------------------
(* Turns.                                                                  *)

\* Handle::borrow: not from inside a call on this handle.
Borrowed == ~busy

\* The caller's code runs between calls and in the events of one.
CallersTurn == pc \in {"idle", "fed", "said"}

Claim == busy' = TRUE

\* generate up to its prefill.
Begin(kind, o, ids) ==
  /\ Claim
  /\ turn' = [NoTurn EXCEPT !.kind = kind, !.opts = o, !.ids = ids,
                            !.pos = IF Reuses(ids) THEN Len(fed) ELSE 0]
  /\ IF Reuses(ids) THEN UNCHANGED engine ELSE ResetEngine
  /\ pc' = "feed"
  /\ UNCHANGED <<last, outcome>>

Asked(u, o) == Render(Append(messages, User(u)), o)

Send(u, o) ==
  /\ CallersTurn /\ Borrowed
  /\ Len(messages) <= MaxMessages
  /\ Encodes(Asked(u, o))
  /\ messages' = Append(messages, User(u))
  /\ Begin("send", o, Encode(Asked(u, o)))

Generate(p, o) ==
  /\ CallersTurn /\ Borrowed
  /\ Encodes(p)
  /\ UNCHANGED messages
  /\ Begin("raw", o, Encode(p))

\* There are no tokens to begin with: the question, if there was one, is taken back.
Refuse ==
  /\ CallersTurn /\ Borrowed
  /\ \/ \E u \in Users, o \in Options : Len(messages) <= MaxMessages /\ ~Encodes(Asked(u, o))
     \/ \E p \in Raw : ~Encodes(p)
  /\ outcome' = "error"
  /\ UNCHANGED <<messages, last, busy, pc, turn, engine>>

\* The turn is over; the flag falls with the frame that set it.
Over == pc' = "idle" /\ turn' = NoTurn /\ busy' = FALSE

\* The tokens of the next pass of the prefill.
Todo == SubSeq(turn.ids, turn.pos + 1, IF turn.pos + Chunk <= Len(turn.ids) THEN turn.pos + Chunk
                                                                      ELSE Len(turn.ids))

\* A chunk of the prompt, and the event that tells of it, whose answer is ignored.
Feed ==
  /\ pc = "feed"
  /\ Pass(Todo)
  /\ pc' = "fed"
  /\ UNCHANGED <<session, busy, fed>>

\* The caller is back from the event; after the last one the prompt is in.
Fed ==
  /\ pc = "fed"
  /\ IF turn.pos = Len(turn.ids) THEN fed' = turn.ids /\ pc' = "sample"
                                 ELSE UNCHANGED fed /\ pc' = "feed"
  /\ UNCHANGED <<session, busy, turn, cache, broken>>

\* The completion, and the reply in the transcript if there is one to keep.
Finish(t) ==
  /\ last' = [kind |-> t.kind, opts |-> t.opts, out |-> t.out, given |-> t.given]
  /\ messages' = IF t.kind = "send" THEN Append(messages, Assistant(t.out, t.opts.think)) ELSE messages
  /\ outcome' = "ok"
  /\ Over

\* max_tokens of none, or the model ends its turn, ...
End ==
  /\ pc = "sample"
  /\ Finish(turn)
  /\ UNCHANGED engine

\* ... or says a word more, which is an event.
Say(w) ==
  /\ pc = "sample" /\ Len(turn.out) < MaxTokens
  /\ turn' = [turn EXCEPT !.out = Append(@, w), !.given = Append(@, turn.logits)]
  /\ pc' = "said"
  /\ UNCHANGED <<session, busy, engine>>

\* The caller stops the turn, or the last token it may have has been said: that one
\* is not read back by the model.
Stop ==
  /\ pc = "said"
  /\ Finish(turn)
  /\ UNCHANGED engine

GoOn ==
  /\ pc = "said" /\ Len(turn.out) < MaxTokens
  /\ pc' = "decode"
  /\ UNCHANGED <<session, busy, turn, engine>>

\* Mutant of Decode: the word is booked without a pass.
DecodeUnread ==
  /\ pc = "decode"
  /\ fed' = Append(fed, Last(turn.out))
  /\ pc' = "sample"
  /\ UNCHANGED <<session, busy, turn, cache, broken>>

Decode ==
  /\ pc = "decode"
  /\ Pass(<<Last(turn.out)>>)
  /\ fed' = Append(fed, Last(turn.out))
  /\ pc' = "sample"
  /\ UNCHANGED <<session, busy>>

\* Mutant of Pop: the question stays.
PopNot == messages
Pop == IF turn.kind = "send" THEN Front(messages) ELSE messages

\* A pass breaks, and the turn with it; fed is as it was.  (Bound: one such until a
\* cache is reset.)  Or there are no logits to sample from, or no text for a token or
\* for what the detokenizer still holds: the turn ends, and nothing has gone wrong in
\* the caches.
Break ==
  /\ \/ /\ pc \in {"feed", "decode"} /\ ~broken
        /\ PassBreaks(IF pc = "feed" THEN Todo ELSE <<Last(turn.out)>>)
     \/ pc \in {"sample", "said"} /\ UNCHANGED engine
  /\ Over
  /\ UNCHANGED last

\* An error takes the question back ...
Fail == /\ Break
        /\ messages' = Pop
        /\ outcome' = "error"

\* ... a panic does not.
Panic == /\ Break
         /\ UNCHANGED messages
         /\ outcome' = "panic"

---------------------------------------------------------------------------
(* The other calls.                                                        *)

Between == /\ CallersTurn /\ Borrowed
           /\ ResetEngine
           /\ outcome' = "ok"
           /\ UNCHANGED <<busy, pc, turn>>

SetSystem(s) ==
  /\ Between
  /\ messages' = IF HasSystem(messages) THEN [messages EXCEPT ![1] = System(s)]
                                        ELSE <<System(s)>> \o messages
  /\ UNCHANGED last

DropSystem ==
  /\ HasSystem(messages)
  /\ Between
  /\ messages' = Tail(messages)
  /\ UNCHANGED last

Reset ==
  /\ Between
  /\ messages' = IF HasSystem(messages) THEN <<messages[1]>> ELSE <<>>
  /\ last' = NoLast

Load(m) ==
  /\ Between
  /\ messages' = m
  /\ last' = NoLast

---------------------------------------------------------------------------
Init ==
  /\ messages = <<>> /\ last = NoLast /\ outcome = "ok"
  /\ busy = FALSE /\ pc = "idle" /\ turn = NoTurn
  /\ fed = <<>> /\ cache = Empty /\ broken = FALSE

Next ==
  \/ \E u \in Users, o \in Options : Send(u, o)
  \/ \E p \in Raw, o \in Options : Generate(p, o)
  \/ Refuse
  \/ Feed \/ Fed \/ End \/ Stop \/ GoOn \/ Decode \/ Fail \/ Panic
  \/ \E w \in Said : Say(w)
  \/ \E s \in Systems : SetSystem(s)
  \/ DropSystem \/ Reset
  \/ \E m \in Saved : Load(m)

Spec == Init /\ [][Next]_vars

---------------------------------------------------------------------------
(* Properties.                                                             *)

Completion == [kind : {"send", "raw"}, opts : Options, out : Seq(Said),
               given : Seq(Cache)]

TypeOK ==
  /\ messages \in Seq(Message)
  /\ last \in Completion \union {NoLast}
  /\ outcome \in {"ok", "error", "panic"} /\ busy \in BOOLEAN /\ broken \in BOOLEAN
  /\ pc \in {"idle", "feed", "fed", "sample", "said", "decode"}
  /\ turn \in [kind : {"none", "send", "raw"}, opts : Params, ids : Seq(Tokens), pos : Nat,
               logits : Cache, out : Seq(Said), given : Seq(Cache)]
  /\ fed \in Seq(Tokens) /\ cache \in Cache
  /\ Len(turn.out) <= MaxTokens /\ turn.pos <= Len(turn.ids)

\* engine.rs:27, "token ids already pushed through `cache`": whatever was said, stopped,
\* raw or re-entered before, between turns every layer has taken in exactly the tokens
\* in `fed`, unless a pass has failed.
CacheIsFed == pc = "idle" /\ ~broken => \A l \in L : cache[l] = fed

\* session.rs:265-266, "leaving the transcript unchanged if the turn could not be
\* taken", and engine.rs:147-149: a session, with its cache, its chunks and its events
\* and the calls made in them, is one that takes its turns whole and reads the
\* whole prompt for each.
Heard(g) == IF \A l \in L : g[l] = g[1] THEN g[1] ELSE <<>>

Whole == INSTANCE Chat WITH
  messages <- IF turn.kind = "send" THEN Front(messages) ELSE messages,
  last     <- IF last = NoLast THEN NoLast
              ELSE [last EXCEPT !.given = [i \in DOMAIN @ |-> Heard(@[i])]]

TakesWholeTurns == Whole!Spec
=============================================================================
