------------------------------ MODULE Library ------------------------------
(***************************************************************************)
(* The C library as a whole (rust/rustffi/src): the table of handles with  *)
(* its tokens and its busy flags (abi.rs), downloads behind a handle that  *)
(* is polled (model.rs), and the one robot backend of the process behind   *)
(* its lock (agent.rs), with panics caught on the way out (error.rs).      *)
(*                                                                         *)
(* Threads call in; a turn, of a session or of the backend, calls back, and *)
(* the caller may call in again from there, so a thread has a stack of     *)
(* calls.  The rules of jarvis.h hold: a handle is used by the thread that *)
(* opened it, and no callback of the backend calls the backend.  Handles   *)
(* that were freed, or are of another kind, may be passed in at any time.  *)
(* Left out: what a turn does (modules Session, Brain, Turn), strings, and *)
(* the text of errors; calls that take no time and change nothing here,    *)
(* whether refused or not, are no steps.                                   *)
(***************************************************************************)
EXTENDS Naturals, Sequences, SequencesExt, FiniteSets

CONSTANTS
  Threads,
  Nobody,
  MaxTokens,  \* bound: handles ever given out
  MaxDepth    \* bound: calls of a thread within one another

ASSUME NobodyIsNone == Nobody \notin Threads
ASSUME BoundsAreNat == MaxTokens \in Nat /\ MaxDepth \in Nat

VARIABLES
  next,     \* NEXT_TOKEN
  live,     \* LIVE: what the tokens that are not freed stand for
  stack,    \* stack[t]: the calls t is in that take time, the innermost last
  holder,   \* who holds the lock of AGENT
  poisoned, \* whether a panic has been in there
  slot,     \* whether AGENT holds a backend
  built,    \* backends there are, AGENT's and those between making and keeping
  worker,   \* worker[h]: how the thread of download h is doing
  told      \* history: what polls of h have said

table == <<next, live>>
agent == <<holder, poisoned, slot, built>>
pull  == <<worker, told>>
vars  == <<next, live, stack, holder, poisoned, slot, built, worker, told>>

Handles == 1 .. MaxTokens
Kinds   == {"session", "pull"}   \* a JarvisConfig is a handle that nothing is busy with
Entry   == [kind : Kinds, owner : Threads, busy : BOOLEAN, outcome : {"none", "ok", "bad"}]

\* A call that takes time: which, on what handle, and how far it is.
Frame == [call : {"send", "free", "open", "call", "close"}, h : 0 .. MaxTokens,
          at : {"turn", "join", "wait", "drop", "build", "keep"}]

Given   == 1 .. next - 1
Live    == DOMAIN live

---------------------------------------------------------------------------
(* Calls.                                                                  *)

Calls(t)  == {stack[t][i].call : i \in 1 .. Len(stack[t])}
Top(t)    == Last(stack[t])
In(t, c)  == stack[t] # <<>> /\ Top(t).call = c
At(t, c, at) == In(t, c) /\ Top(t).at = at

\* The caller's code runs in t: outside every call, or in an event of a turn.
CallersTurn(t) ==
  /\ stack[t] = <<>> \/ In(t, "send") \/ At(t, "call", "turn")
  /\ Len(stack[t]) < MaxDepth

\* A call that takes time begins, comes further, and returns: with a result, an
\* error or a panic, which the guard catches.
Enters(t, c, h, at) == stack' = [stack EXCEPT ![t] = Append(@, [call |-> c, h |-> h, at |-> at])]
Moves(t, at)        == stack' = [stack EXCEPT ![t][Len(stack[t])].at = at]
Leaves(t)           == stack' = [stack EXCEPT ![t] = Front(@)]

---------------------------------------------------------------------------
(* Handles.                                                                *)

\* Mutant of Token: the first that is free.
TokenFree == CHOOSE h \in Handles : h \notin Live /\ \A g \in Handles \ Live : h <= g
Token == next

\* into_handle: a token that was never given out before.
Open(t, kind) ==
  /\ CallersTurn(t) /\ next <= MaxTokens
  /\ live' = [h \in Live \union {Token} |->
               IF h = Token THEN [kind |-> kind, owner |-> t, busy |-> FALSE, outcome |-> "none"]
                            ELSE live[h]]
  /\ next' = next + 1
  /\ worker' = IF kind = "pull" THEN [worker EXCEPT ![Token] = "running"] ELSE worker
  /\ UNCHANGED <<stack, agent, told>>

\* Mutant of Borrows: busy or not.
BorrowsBusy(h, kind) == h \in Live /\ live[h].kind = kind

\* borrow: a live token, of the kind that is asked for, that is not inside a call.
Borrows(h, kind) == h \in Live /\ live[h].kind = kind /\ ~live[h].busy

\* A handle t may pass in: its own, or one that is long freed.
Has(t, h) == h \in Given /\ (h \in Live => live[h].owner = t)

\* send and generate: the handle is busy for as long as the turn lasts.
Send(t, h) ==
  /\ CallersTurn(t) /\ Has(t, h) /\ Borrows(h, "session")
  /\ Enters(t, "send", h, "turn")
  /\ live' = [live EXCEPT ![h].busy = TRUE]
  /\ UNCHANGED <<next, agent, pull>>

SendEnds(t) ==
  /\ In(t, "send")
  /\ live' = [h \in Live |-> IF h = Top(t).h THEN [live[h] EXCEPT !.busy = FALSE] ELSE live[h]]
  /\ Leaves(t)
  /\ UNCHANGED <<next, agent, pull>>

Frees(h, kind) == Borrows(h, kind)

\* drop_handle: the token is retired first; one that is inside a call is left alone,
\* one that is dead is passed over.  A download under way is waited for.
Close(t, h, kind) ==
  /\ CallersTurn(t) /\ Has(t, h) /\ Frees(h, kind)
  /\ live' = [g \in Live \ {h} |-> live[g]]
  /\ IF kind = "pull" THEN Enters(t, "free", h, "join") ELSE UNCHANGED stack
  /\ UNCHANGED <<next, agent, pull>>

FreeEnds(t) ==
  /\ In(t, "free") /\ worker[Top(t).h] # "running"
  /\ Leaves(t)
  /\ UNCHANGED <<table, agent, pull>>

---------------------------------------------------------------------------
(* Downloads.                                                              *)

\* The download thread is done, has failed, or has panicked.
WorkerEnds(h) ==
  /\ worker[h] = "running"
  /\ \E how \in {"ok", "bad"} : worker' = [worker EXCEPT ![h] = how]
  /\ UNCHANGED <<table, stack, agent, told>>

\* Mutant of Outcome: how it went is told once.
OutcomeOnce(h) == IF live[h].outcome = "none" THEN worker[h] ELSE "ok"
\* How it went is kept when the thread is joined.
Outcome(h) == IF live[h].outcome = "none" THEN worker[h] ELSE live[h].outcome

\* 1, and nothing has changed, as long as the thread runs; then 0 or -1.
Poll(t, h) ==
  /\ CallersTurn(t) /\ Has(t, h) /\ Borrows(h, "pull") /\ Outcome(h) # "running"
  /\ live' = [live EXCEPT ![h].outcome = Outcome(h)]
  /\ told' = [told EXCEPT ![h] = @ \union {Outcome(h)}]
  /\ UNCHANGED <<next, stack, agent, worker>>

---------------------------------------------------------------------------
(* The backend.                                                            *)

\* jarvis_agent_open, _call, _close; _is_open and _root wait for the lock as _call does, and
\* are over at once.
Ask(t, c) ==
  /\ c \in {"open", "call", "close"}
  /\ CallersTurn(t) /\ Calls(t) \intersect {"open", "call", "close"} = {}
  /\ Enters(t, c, 0, "wait")
  /\ UNCHANGED <<table, agent, pull>>

Waits(t) == stack[t] # <<>> /\ Top(t).at = "wait"

\* open_space: a lock that was poisoned is an error, for whichever call it is.
Lock(t) ==
  /\ Waits(t) /\ holder = Nobody
  /\ IF poisoned \/ (Top(t).call = "call" /\ ~slot)
       THEN Leaves(t) /\ UNCHANGED holder
       ELSE Moves(t, IF Top(t).call = "call" THEN "turn" ELSE "drop") /\ holder' = t
  /\ UNCHANGED <<table, poisoned, slot, built, pull>>

\* Mutant of Unlock: a panic does not let go.
UnlockNot(panic) == IF panic THEN holder ELSE Nobody
Unlock(panic)    == Nobody

\* A panic in a call poisons the lock as it is let go.
Returns(t, panic) ==
  /\ Leaves(t)
  /\ holder' = Unlock(panic)
  /\ poisoned' = (poisoned \/ panic)

\* Mutant of Drop: the old backend goes when the new one takes its place.
DropLater(t) ==
  /\ \/ At(t, "open", "drop") /\ Moves(t, "build") /\ UNCHANGED <<holder, poisoned, slot, built>>
     \/ At(t, "close", "drop") /\ slot' = FALSE /\ built' = 0 /\ Returns(t, FALSE)
  /\ UNCHANGED <<table, pull>>

\* *slot = None, which is all there is to close.
Drop(t) ==
  /\ slot' = FALSE
  /\ built' = IF slot THEN built - 1 ELSE built
  /\ \/ At(t, "open", "drop") /\ Moves(t, "build") /\ UNCHANGED <<holder, poisoned>>
     \/ At(t, "close", "drop") /\ Returns(t, FALSE)
  /\ UNCHANGED <<table, pull>>

\* The new backend is there, before it is kept; or making it failed, or panicked.
Build(t) ==
  /\ At(t, "open", "build")
  /\ \/ Moves(t, "keep") /\ built' = built + 1 /\ UNCHANGED <<holder, poisoned>>
     \/ \E panic \in BOOLEAN : Returns(t, panic) /\ UNCHANGED built
  /\ UNCHANGED <<table, slot, pull>>

Keep(t) ==
  /\ At(t, "open", "keep")
  /\ slot' = TRUE
  /\ built' = IF slot THEN built - 1 ELSE built
  /\ Returns(t, FALSE)
  /\ UNCHANGED <<table, pull>>

\* A reply, whatever it says; or a panic.
CallEnds(t) ==
  /\ At(t, "call", "turn")
  /\ \E panic \in BOOLEAN : Returns(t, panic)
  /\ UNCHANGED <<table, slot, built, pull>>

---------------------------------------------------------------------------
Init ==
  /\ next = 1 /\ live = [h \in {} |-> 0]
  /\ stack = [t \in Threads |-> <<>>]
  /\ holder = Nobody /\ poisoned = FALSE /\ slot = FALSE /\ built = 0
  /\ worker = [h \in Handles |-> "none"]
  /\ told = [h \in Handles |-> {}]

Backend(t) == Drop(t) \/ Build(t) \/ Keep(t)
Ends(t)    == SendEnds(t) \/ CallEnds(t)

Next ==
  \/ \E t \in Threads :
       \/ \E k \in Kinds : Open(t, k)
       \/ \E h \in Handles : Send(t, h) \/ Poll(t, h)
       \/ \E h \in Handles, k \in Kinds : Close(t, h, k)
       \/ \E c \in {"open", "call", "close"} : Ask(t, c)
       \/ Lock(t) \/ Backend(t) \/ Ends(t) \/ FreeEnds(t)
  \/ \E h \in Handles : WorkerEnds(h)

Spec == Init /\ [][Next]_vars

\* A turn ends however often it is called back from (a limit on tokens, of time, of
\* steps); a lock that is free again and again is had in the end; a download ends,
\* for the connection has a timeout.
FairSpec ==
  /\ Spec
  /\ \A t \in Threads : WF_vars(Backend(t)) /\ SF_vars(Lock(t)) /\ WF_vars(FreeEnds(t))
  /\ \A t \in Threads, n \in 1 .. MaxDepth : SF_vars(Ends(t) /\ Len(stack[t]) = n)
  /\ \A h \in Handles : WF_vars(WorkerEnds(h))

---------------------------------------------------------------------------
(* Properties.                                                             *)

TypeOK ==
  /\ next \in 1 .. MaxTokens + 1 /\ Live \subseteq Given
  /\ \A h \in Live : live[h] \in Entry
  /\ stack \in [Threads -> Seq(Frame)]
  /\ holder \in Threads \union {Nobody} /\ poisoned \in BOOLEAN /\ slot \in BOOLEAN /\ built \in Nat
  /\ worker \in [Handles -> {"none", "running", "ok", "bad"}]
  /\ told \in [Handles -> SUBSET {"ok", "bad"}]

\* abi.rs:217-224: whatever is called from inside an event, an object a turn has a
\* reference to is referred to by that turn only, and is not freed under it.
NoAlias ==
  \A t \in Threads : \A i \in 1 .. Len(stack[t]) : stack[t][i].call = "send" =>
    /\ stack[t][i].h \in Live
    /\ \A u \in Threads : \A j \in 1 .. Len(stack[u]) :
         stack[u][j].call = "send" /\ stack[u][j].h = stack[t][i].h => u = t /\ j = i

\* jarvis.h:19-20: a handle that has been freed is refused by every later call.
FreedStaysRefused == [][\A h \in Given : h \notin Live => h \notin DOMAIN live']_live

\* agent.rs:92-93: two backends never hold the same database, or two copies of the
\* model; and what a call in its turn works on is not taken away.
OneBackend ==
  /\ built <= 1
  /\ \A t \in Threads : "call" \in Calls(t) /\ holder = t => slot

\* jarvis.h:110: a download that has been said to be there is not said to have failed
\* later, nor the other way round.
PollIsFinal == \A h \in Handles : Cardinality(told[h]) <= 1

\* Every call returns: nobody waits for a lock that is not let go, panic or not.
EveryCallReturns == \A t \in Threads : stack[t] # <<>> ~> stack[t] = <<>>
=============================================================================
