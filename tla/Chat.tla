-------------------------------- MODULE Chat --------------------------------
(***************************************************************************)
(* What a session promises its caller (rust/rustffi/src/session.rs,        *)
(* include/jarvis.h): a transcript that changes only by whole turns and by *)
(* what the caller does to it between them, and a model that reads the     *)
(* whole prompt before each token it says.  There is no cache here, no     *)
(* chunk, no callback and no turn under way.                               *)
(*                                                                         *)
(* `broken` is where the promise ends: a pass of the model has failed and  *)
(* nothing has been read afresh since.                                     *)
(***************************************************************************)
EXTENDS Prompt

CONSTANTS
  Saved,    \* transcripts a caller may load
  Raw,      \* prompts a caller may template itself
  MaxTokens \* bound: max_tokens of a turn

VARIABLES
  messages,  \* the transcript
  last,      \* the last completion
  outcome,   \* how the last call that could change something ended
  broken

vars == <<messages, last, outcome, broken>>

Outs == UNION {[1 .. n -> Said] : n \in 0 .. MaxTokens}

NoLast == [kind |-> "none"]

\* What each token of a reply is said after.
Given(ids, out) == [i \in 1 .. Len(out) |-> ids \o SubSeq(out, 1, i - 1)]

\* The completion: a reply, ...
Completes(kind, o, out) ==
  /\ outcome' = "ok"
  /\ last'.kind = kind /\ last'.opts = o /\ last'.out = out

\* ... and what its tokens were said after.
Reads(ids, out) == broken \/ last'.given = Given(ids, out)

Init == messages = <<>> /\ last = NoLast /\ outcome = "ok" /\ broken = FALSE

Send(u, o, out) ==
  /\ Completes("send", o, out)
  /\ messages' = messages \o <<User(u), Assistant(out, o.think)>>
  /\ Reads(Encode(Render(Append(messages, User(u)), o)), out)
  /\ UNCHANGED broken

Generate(prompt, o, out) ==
  /\ Completes("raw", o, out)
  /\ Reads(Encode(prompt), out)
  /\ UNCHANGED <<messages, broken>>

WithSystem(s) == <<System(s)>> \o (IF HasSystem(messages) THEN Tail(messages) ELSE messages)

SetSystem(s) == /\ messages' = WithSystem(s)
                /\ outcome' = "ok" /\ broken' = FALSE /\ UNCHANGED last

DropSystem == /\ HasSystem(messages)
              /\ messages' = Tail(messages)
              /\ outcome' = "ok" /\ broken' = FALSE /\ UNCHANGED last

Reset == /\ messages' = IF HasSystem(messages) THEN <<messages[1]>> ELSE <<>>
         /\ last' = NoLast /\ outcome' = "ok" /\ broken' = FALSE

Load(m) == messages' = m /\ last' = NoLast /\ outcome' = "ok" /\ broken' = FALSE

\* A turn that fails leaves no trace; one that panics may leave its question.  It need
\* not be a pass that has failed.
Fail  == outcome' = "error" /\ broken' \in {broken, TRUE} /\ UNCHANGED <<messages, last>>
Panic == /\ outcome' = "panic" /\ broken' \in {broken, TRUE}
         /\ messages' = messages \/ \E u \in Users : messages' = Append(messages, User(u))
         /\ UNCHANGED last

\* A turn begins that reads its prompt afresh.
Refresh == broken' = FALSE /\ UNCHANGED <<messages, last, outcome>>

Next ==
  \/ \E u \in Users, o \in Options, out \in Outs : Send(u, o, out)
  \/ \E p \in Raw, o \in Options, out \in Outs : Generate(p, o, out)
  \/ \E s \in Systems : SetSystem(s)
  \/ DropSystem \/ Reset
  \/ \E m \in Saved : Load(m)
  \/ Fail \/ Panic \/ Refresh

Spec == Init /\ [][Next]_vars
=============================================================================
