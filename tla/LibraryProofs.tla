--------------------------- MODULE LibraryProofs ---------------------------
(***************************************************************************)
(* Of module Library, for any number of threads, any depth of calls within *)
(* calls and any number of handles: the types, NoAlias, OneBackend,        *)
(* PollIsFinal and FreedStaysRefused.  NoAlias rests on the busy flag      *)
(* being up for exactly the turns that are on, OneBackend on a thread      *)
(* being inside the lock with one call only, at a place that says what     *)
(* AGENT holds by then.                                                    *)
(***************************************************************************)
EXTENDS Library, FiniteSetTheorems, TLAPS

---------------------------------------------------------------------------
(* The inductive invariant.                                                *)

AgentCalls == {"open", "call", "close"}

\* A call inside the lock.
Inside(f) == f.at \in {"drop", "build", "keep"} \/ (f.call = "call" /\ f.at = "turn")

\* The place a call is at is one of its own.
Fits(f) ==
  /\ f.call = "send" => f.at = "turn"
  /\ f.call = "free" => f.at = "join"
  /\ f.call = "open" => f.at \in {"wait", "drop", "build", "keep"}
  /\ f.call = "call" => f.at \in {"wait", "turn"}
  /\ f.call = "close" => f.at \in {"wait", "drop"}

\* Where the calls of t are in its stack.
Places(t) == 1 .. Len(stack[t])

FramesFit == \A t \in Threads : \A i \in Places(t) : Fits(stack[t][i])

\* The handle of a turn that is on is live and marked as busy, and it is that turn's only.
SendsBusy == \A t \in Threads : \A i \in Places(t) : stack[t][i].call = "send" =>
               stack[t][i].h \in Live /\ live[stack[t][i].h].busy
SendsApart ==
  \A t \in Threads : \A i \in Places(t) : stack[t][i].call = "send" =>
    \A u \in Threads : \A j \in Places(u) :
      stack[u][j].call = "send" /\ stack[u][j].h = stack[t][i].h => u = t /\ j = i

\* A poll has said what the handle remembers; one that was never given out, nothing.
PollFits(h) ==
  /\ h \notin Given => told[h] = {}
  /\ h \in Live => /\ live[h].kind = "pull" => worker[h] # "none"
                   /\ live[h].outcome = "none" => told[h] = {}
                   /\ live[h].outcome # "none" => told[h] = {live[h].outcome}
  /\ told[h] = {} \/ \E x \in {"ok", "bad"} : told[h] = {x}
PollsFit == \A h \in Handles : PollFits(h)

HandlesFit == FramesFit /\ SendsBusy /\ SendsApart /\ PollsFit

\* A thread has one call of the backend at most, and is the holder when that is inside.
OneAsk == \A t \in Threads : \A i, j \in Places(t) :
            stack[t][i].call \in AgentCalls /\ stack[t][j].call \in AgentCalls => i = j
Held   == \A t \in Threads :
            holder = t <=> \E i \in Places(t) : Inside(stack[t][i])

\* What AGENT holds, by the place of the call that is inside.
SlotFits ==
  /\ \A t \in Threads : \A i \in Places(t) :
       /\ stack[t][i].at = "build" => ~slot
       /\ stack[t][i].at = "keep" => ~slot /\ built = 1
       /\ stack[t][i].call = "call" /\ stack[t][i].at = "turn" => slot
  /\ (\A t \in Threads : \A i \in Places(t) : stack[t][i].at # "keep") => built = IF slot THEN 1 ELSE 0

AgentFits == OneAsk /\ Held /\ SlotFits

IInv == TypeOK /\ HandlesFit /\ AgentFits

---------------------------------------------------------------------------
(* Stacks.                                                                 *)

\* A call that begins adds one frame to the top of its thread's stack.
LEMMA Entered ==
  ASSUME TypeOK, NEW t \in Threads, NEW c, NEW h, NEW at,
         [call |-> c, h |-> h, at |-> at] \in Frame, Enters(t, c, h, at)
  PROVE  /\ stack' \in [Threads -> Seq(Frame)]
         /\ \A u \in Threads : u # t => stack'[u] = stack[u]
         /\ Len(stack'[t]) = Len(stack[t]) + 1 /\ Len(stack[t]) \in Nat
         /\ \A i \in 1 .. Len(stack[t]) : stack'[t][i] = stack[t][i]
         /\ stack'[t][Len(stack[t]) + 1] = [call |-> c, h |-> h, at |-> at]
<1>1. stack[t] \in Seq(Frame)
  BY DEF TypeOK
<1>2. stack'[t] = Append(stack[t], [call |-> c, h |-> h, at |-> at])
  BY DEF TypeOK, Enters
<1>3. stack' \in [Threads -> Seq(Frame)] /\ \A u \in Threads : u # t => stack'[u] = stack[u]
  BY <1>1 DEF TypeOK, Enters
<1> QED BY <1>1, <1>2, <1>3

\* A call that returns takes one frame off the top of its thread's stack.
LEMMA Left ==
  ASSUME TypeOK, NEW t \in Threads, stack[t] # <<>>, Leaves(t)
  PROVE  /\ stack' \in [Threads -> Seq(Frame)]
         /\ \A u \in Threads : u # t => stack'[u] = stack[u]
         /\ Len(stack'[t]) = Len(stack[t]) - 1 /\ Len(stack[t]) \in Nat \ {0}
         /\ \A i \in 1 .. Len(stack[t]) - 1 : stack'[t][i] = stack[t][i]
<1>1. stack[t] \in Seq(Frame) /\ Len(stack[t]) \in Nat \ {0}
  BY DEF TypeOK
<1>2. stack'[t] = SubSeq(stack[t], 1, Len(stack[t]) - 1)
  BY DEF TypeOK, Leaves, Front
<1>3. stack'[t] \in Seq(Frame)
  BY <1>1, <1>2
<1>4. stack' \in [Threads -> Seq(Frame)] /\ \A u \in Threads : u # t => stack'[u] = stack[u]
  BY <1>1, <1>2, <1>3 DEF TypeOK, Leaves
<1> QED BY <1>1, <1>2, <1>4

\* A call that moves on changes the place in its own frame and nothing else.
LEMMA MovedTo ==
  ASSUME TypeOK, NEW t \in Threads, stack[t] # <<>>,
         NEW at \in {"turn", "drop", "build", "keep"}, Moves(t, at)
  PROVE  /\ stack' \in [Threads -> Seq(Frame)]
         /\ \A u \in Threads : u # t => stack'[u] = stack[u]
         /\ Len(stack'[t]) = Len(stack[t]) /\ Len(stack[t]) \in Nat \ {0}
         /\ \A i \in 1 .. Len(stack[t]) - 1 : stack'[t][i] = stack[t][i]
         /\ stack'[t][Len(stack[t])] = [Top(t) EXCEPT !.at = at]
         /\ Top(t) = stack[t][Len(stack[t])] /\ Top(t) \in Frame
<1> DEFINE n == Len(stack[t])
<1>1. stack[t] \in Seq(Frame) /\ n \in Nat \ {0} /\ stack[t][n] \in Frame
  BY DEF TypeOK
<1>2. stack'[t] = [stack[t] EXCEPT ![n] = [stack[t][n] EXCEPT !.at = at]]
  BY DEF TypeOK, Moves
<1>3. [stack[t][n] EXCEPT !.at = at] \in Frame
  BY <1>1 DEF Frame
<1>4. stack'[t] \in Seq(Frame) /\ Len(stack'[t]) = n
  BY <1>1, <1>2, <1>3
<1>5. stack' \in [Threads -> Seq(Frame)] /\ \A u \in Threads : u # t => stack'[u] = stack[u]
  BY <1>1, <1>4 DEF TypeOK, Moves
<1>6. Top(t) = stack[t][n]
  BY DEF Top, Last
<1> QED BY <1>1, <1>2, <1>4, <1>5, <1>6

\* A turn that is on stays as it is, or ends; other calls may come and move.
LEMMA NoNewSends ==
  ASSUME HandlesFit,
         \A u \in Threads : \A i \in 1 .. Len(stack'[u]) :
           \/ i \in Places(u) /\ stack'[u][i] = stack[u][i]
           \/ stack'[u][i].call # "send" /\ Fits(stack'[u][i])
  PROVE  FramesFit' /\ SendsApart'
<1>1. FramesFit'
  BY DEF HandlesFit, FramesFit, Places, Fits
<1>2. SendsApart'
  <2> SUFFICES ASSUME NEW u \in Threads, NEW i \in 1 .. Len(stack'[u]), stack'[u][i].call = "send",
                      NEW v \in Threads, NEW j \in 1 .. Len(stack'[v]),
                      stack'[v][j].call = "send", stack'[v][j].h = stack'[u][i].h
               PROVE  v = u /\ j = i
    BY DEF SendsApart, Places
  <2>1. i \in Places(u) /\ stack'[u][i] = stack[u][i] /\ j \in Places(v) /\ stack'[v][j] = stack[v][j]
    OBVIOUS
  <2> QED BY <2>1 DEF HandlesFit, SendsApart
<1> QED BY <1>1, <1>2

\* A step that touches no turn's frame and no entry leaves the turns fitting their sessions.
LEMMA SameSends ==
  ASSUME HandlesFit, NEW t \in Threads, live' = live,
         \A u \in Threads : u # t => stack'[u] = stack[u],
         \A i \in 1 .. Len(stack'[t]) :
           \/ i \in Places(t) /\ stack'[t][i] = stack[t][i]
           \/ stack'[t][i].call # "send" /\ Fits(stack'[t][i])
  PROVE  FramesFit' /\ SendsBusy' /\ SendsApart'
<1>1. \A u \in Threads : \A i \in 1 .. Len(stack'[u]) :
        \/ i \in Places(u) /\ stack'[u][i] = stack[u][i]
        \/ stack'[u][i].call # "send" /\ Fits(stack'[u][i])
  BY DEF Places
<1>2. FramesFit' /\ SendsApart'
  BY <1>1, NoNewSends
<1>3. SendsBusy'
  BY <1>1 DEF HandlesFit, SendsBusy, Places, Live
<1> QED BY <1>2, <1>3

\* The calls inside the lock are the same, and so is what they are about.
LEMMA SameInside ==
  ASSUME AgentFits, NEW t \in Threads, UNCHANGED agent,
         \A u \in Threads : u # t => stack'[u] = stack[u],
         \A i \in 1 .. Len(stack'[t]) :
           \/ i \in Places(t) /\ stack'[t][i] = stack[t][i]
           \/ /\ ~Inside(stack'[t][i])
              /\ stack'[t][i].call \in AgentCalls =>
                   \A j \in 1 .. Len(stack'[t]) : stack'[t][j].call \in AgentCalls => j = i,
         \A i \in Places(t) : Inside(stack[t][i]) =>
           i \in 1 .. Len(stack'[t]) /\ stack'[t][i] = stack[t][i]
  PROVE  AgentFits'
<1>1. OneAsk'
  BY DEF AgentFits, OneAsk, Places
<1>2. \A u \in Threads : (\E i \in Places(u) : Inside(stack[u][i]))
                          <=> \E i \in 1 .. Len(stack'[u]) : Inside(stack'[u][i])
  <2>1. ASSUME NEW i \in Places(t), Inside(stack[t][i])
        PROVE  i \in 1 .. Len(stack'[t]) /\ Inside(stack'[t][i])
    BY <2>1
  <2>2. ASSUME NEW i \in 1 .. Len(stack'[t]), Inside(stack'[t][i])
        PROVE  i \in Places(t) /\ Inside(stack[t][i])
    BY <2>2
  <2> QED BY <2>1, <2>2 DEF Places
<1>3. Held'
  BY <1>2 DEF AgentFits, Held, Places, agent, Inside
<1>4. SlotFits'
  <2>1. \A u \in Threads : \A i \in 1 .. Len(stack'[u]) : Inside(stack'[u][i]) =>
          i \in Places(u) /\ stack'[u][i] = stack[u][i]
    BY DEF Places
  <2>2. \A u \in Threads : \A i \in Places(u) : Inside(stack[u][i]) =>
          i \in 1 .. Len(stack'[u]) /\ stack'[u][i] = stack[u][i]
    BY DEF Places
  <2> QED BY <2>1, <2>2 DEF AgentFits, SlotFits, Places, agent, Inside
<1> QED BY <1>1, <1>3, <1>4 DEF AgentFits

---------------------------------------------------------------------------
(* The table of handles and the downloads.                                 *)

\* A new handle has a token nobody was ever given.
LEMMA OpenKeeps ==
  ASSUME IInv, NEW t \in Threads, NEW k \in Kinds, Open(t, k)
  PROVE  IInv'
<1>1. /\ next \in Nat /\ next <= MaxTokens /\ next \in Handles /\ next \notin Live
      /\ next' = next + 1 /\ stack' = stack /\ told' = told
      /\ DOMAIN live' = Live \union {next}
      /\ \A h \in Live : live'[h] = live[h]
      /\ live'[next] = [kind |-> k, owner |-> t, busy |-> FALSE, outcome |-> "none"]
  BY BoundsAreNat DEF IInv, TypeOK, Open, Token, Live, Given, Handles
<1>2. /\ \A h \in Handles : h # next => worker'[h] = worker[h]
      /\ k = "pull" => worker'[next] = "running"
      /\ worker' \in [Handles -> {"none", "running", "ok", "bad"}]
  BY <1>1 DEF IInv, TypeOK, Open, Token
<1>3. TypeOK'
  BY <1>1, <1>2, BoundsAreNat DEF IInv, TypeOK, Open, agent, Live, Given, Entry
<1>4. FramesFit' /\ SendsBusy' /\ SendsApart'
  BY <1>1 DEF IInv, HandlesFit, FramesFit, SendsBusy, SendsApart, Places, Live, Fits
<1>5. PollsFit'
  <2> SUFFICES ASSUME NEW g \in Handles PROVE PollFits(g)'
    BY DEF PollsFit
  <2>1. PollFits(g)
    BY DEF IInv, HandlesFit, PollsFit
  <2>2. CASE g = next
    BY <1>1, <1>2, <2>1, <2>2 DEF PollFits, Live, Given
  <2>3. CASE g # next
    BY <1>1, <1>2, <2>1, <2>3 DEF PollFits, Live, Given, Handles
  <2> QED BY <2>2, <2>3
<1>6. AgentFits'
  BY <1>1 DEF IInv, AgentFits, OneAsk, Held, SlotFits, Places, Inside, Open, agent
<1> QED BY <1>3, <1>4, <1>5, <1>6 DEF IInv, HandlesFit

\* A poll repeats what was kept, or keeps what the thread ended with.
LEMMA PollKeeps ==
  ASSUME IInv, NEW t \in Threads, NEW h \in Handles, Poll(t, h)
  PROVE  IInv'
<1>1. /\ h \in Live /\ h \in Given /\ live[h].kind = "pull" /\ live[h] \in Entry
      /\ Outcome(h) \in {"ok", "bad"}
  BY DEF IInv, TypeOK, Poll, Borrows, Outcome, Entry, HandlesFit, PollsFit, PollFits
<1>2. /\ DOMAIN live' = Live /\ stack' = stack /\ worker' = worker /\ next' = next
      /\ \A g \in Live : g # h => live'[g] = live[g]
      /\ live'[h] = [live[h] EXCEPT !.outcome = Outcome(h)]
      /\ \A g \in Handles : told'[g] = IF g = h THEN told[h] \union {Outcome(h)} ELSE told[g]
      /\ told' \in [Handles -> SUBSET {"ok", "bad"}]
  BY <1>1 DEF IInv, TypeOK, Poll, Live
<1>3. live'[h] \in Entry /\ live'[h].kind = live[h].kind /\ live'[h].busy = live[h].busy
      /\ live'[h].outcome = Outcome(h)
  BY <1>1, <1>2 DEF Entry
<1>4. TypeOK'
  BY <1>2, <1>3 DEF IInv, TypeOK, Poll, agent, Live, Given
<1>5. FramesFit' /\ SendsBusy' /\ SendsApart'
  <2>1. FramesFit' /\ SendsApart'
    BY <1>2 DEF IInv, HandlesFit, FramesFit, SendsApart, Places, Fits
  <2>2. \A g \in Live : live'[g].busy = live[g].busy
    BY <1>2, <1>3
  <2>3. SendsBusy'
    BY <1>2, <2>2 DEF IInv, HandlesFit, SendsBusy, Places, Live
  <2> QED BY <2>1, <2>3
<1>6. told'[h] = {Outcome(h)}
  BY <1>1, <1>2 DEF IInv, HandlesFit, PollsFit, PollFits, Outcome
<1>7. PollsFit'
  <2> SUFFICES ASSUME NEW g \in Handles PROVE PollFits(g)'
    BY DEF PollsFit
  <2>1. PollFits(g)
    BY DEF IInv, HandlesFit, PollsFit
  <2>2. CASE g = h
    BY <1>1, <1>2, <1>3, <1>6, <2>1, <2>2 DEF PollFits, Live, Given
  <2>3. CASE g # h
    BY <1>2, <2>1, <2>3 DEF PollFits, Live, Given
  <2> QED BY <2>2, <2>3
<1>8. AgentFits'
  BY <1>2 DEF IInv, AgentFits, OneAsk, Held, SlotFits, Places, Inside, Poll, agent
<1> QED BY <1>4, <1>5, <1>7, <1>8 DEF IInv, HandlesFit

\* A thread that ends changes what a later poll will find, not what polls have said.
LEMMA WorkerEndsKeeps ==
  ASSUME IInv, NEW h \in Handles, WorkerEnds(h)
  PROVE  IInv'
<1>1. /\ live' = live /\ next' = next /\ stack' = stack /\ told' = told
      /\ \A g \in Handles : worker[g] # "none" => worker'[g] # "none"
      /\ worker' \in [Handles -> {"none", "running", "ok", "bad"}]
  BY DEF IInv, TypeOK, WorkerEnds, table
<1>2. TypeOK'
  BY <1>1 DEF IInv, TypeOK, WorkerEnds, agent, Live, Given
<1>3. HandlesFit'
  BY <1>1 DEF IInv, HandlesFit, FramesFit, SendsBusy, SendsApart, PollsFit, PollFits, Places, Live, Given, Fits
<1>4. AgentFits'
  BY <1>1 DEF IInv, AgentFits, OneAsk, Held, SlotFits, Places, Inside, WorkerEnds, agent
<1> QED BY <1>2, <1>3, <1>4 DEF IInv

\* What the table says of downloads, when only a busy flag of it may have changed.
LEMMA PollsStay ==
  ASSUME PollsFit, UNCHANGED <<next, worker, told>>,
         \A h \in DOMAIN live' : h \in Live /\ live'[h].kind = live[h].kind
                                            /\ live'[h].outcome = live[h].outcome
  PROVE  PollsFit'
<1> SUFFICES ASSUME NEW h \in Handles PROVE PollFits(h)'
  BY DEF PollsFit
<1>1. PollFits(h)
  BY DEF PollsFit
<1> QED BY <1>1 DEF PollFits, Live, Given

\* A turn begins only on a session that is live and not busy.
LEMMA SendKeeps ==
  ASSUME IInv, NEW t \in Threads, NEW h \in Handles, Send(t, h)
  PROVE  IInv'
<1> DEFINE n == Len(stack[t])
           f == [call |-> "send", h |-> h, at |-> "turn"]
<1>1. h \in Live /\ live[h].kind = "session" /\ ~live[h].busy /\ live[h] \in Entry
  BY DEF IInv, TypeOK, Send, Borrows
<1>2. f \in Frame /\ Enters(t, "send", h, "turn")
  BY DEF Frame, Send, Handles
<1>3. /\ stack' \in [Threads -> Seq(Frame)]
      /\ \A u \in Threads : u # t => stack'[u] = stack[u]
      /\ Len(stack'[t]) = n + 1 /\ n \in Nat
      /\ \A i \in 1 .. n : stack'[t][i] = stack[t][i]
      /\ stack'[t][n + 1] = f
  BY <1>2, Entered DEF IInv
<1>4. /\ DOMAIN live' = Live
      /\ \A g \in Live : g # h => live'[g] = live[g]
      /\ live'[h] = [live[h] EXCEPT !.busy = TRUE]
  BY <1>1 DEF Send, Live
<1>5. /\ live'[h] \in Entry /\ live'[h].busy
      /\ live'[h].kind = live[h].kind /\ live'[h].outcome = live[h].outcome
  BY <1>1, <1>4 DEF Entry
<1>6. TypeOK'
  BY <1>3, <1>4, <1>5 DEF IInv, TypeOK, Send, agent, pull, Live, Given
<1>7. \A u \in Threads : \A i \in 1 .. Len(stack'[u]) :
        \/ i \in Places(u) /\ stack'[u][i] = stack[u][i]
        \/ u = t /\ i = n + 1 /\ stack'[u][i] = f
  BY <1>3 DEF Places
<1>8. FramesFit'
  BY <1>7 DEF IInv, HandlesFit, FramesFit, Places, Fits
<1>9. SendsBusy'
  <2> SUFFICES ASSUME NEW u \in Threads, NEW i \in 1 .. Len(stack'[u]), stack'[u][i].call = "send"
               PROVE  stack'[u][i].h \in Live /\ live'[stack'[u][i].h].busy
    BY <1>4 DEF SendsBusy, Places, Live
  <2>1. CASE i \in Places(u) /\ stack'[u][i] = stack[u][i]
    <3>1. stack[u][i].h \in Live /\ live[stack[u][i].h].busy
      BY <2>1 DEF IInv, HandlesFit, SendsBusy
    <3> QED BY <1>4, <1>5, <2>1, <3>1
  <2>2. CASE stack'[u][i] = f
    BY <1>1, <1>5, <2>2
  <2> QED BY <1>7, <2>1, <2>2
<1>10. SendsApart'
  <2> SUFFICES ASSUME NEW u \in Threads, NEW i \in 1 .. Len(stack'[u]), stack'[u][i].call = "send",
                      NEW v \in Threads, NEW j \in 1 .. Len(stack'[v]),
                      stack'[v][j].call = "send", stack'[v][j].h = stack'[u][i].h
               PROVE  v = u /\ j = i
    BY DEF SendsApart, Places
  <2>1. \A w \in Threads : \A k \in Places(w) : stack[w][k].call = "send" => stack[w][k].h # h
    BY <1>1 DEF IInv, HandlesFit, SendsBusy
  <2> QED BY <1>7, <2>1 DEF IInv, HandlesFit, SendsApart
<1>11. PollsFit'
  BY <1>4, <1>5, PollsStay DEF IInv, HandlesFit, Send, pull, Live
<1>12. AgentFits'
  BY <1>3, SameInside DEF IInv, Inside, AgentCalls, Places, Send
<1> QED BY <1>6, <1>8, <1>9, <1>10, <1>11, <1>12 DEF IInv, HandlesFit

\* The end of a turn frees the session it was the only turn of.
LEMMA SendEndsKeeps ==
  ASSUME IInv, NEW t \in Threads, SendEnds(t)
  PROVE  IInv'
<1> DEFINE n == Len(stack[t])
           h == Top(t).h
<1>1. stack[t] # <<>> /\ Leaves(t) /\ Top(t) = stack[t][n] /\ stack[t][n].call = "send"
  BY DEF SendEnds, In, Top, Last
<1>2. /\ stack' \in [Threads -> Seq(Frame)]
      /\ \A u \in Threads : u # t => stack'[u] = stack[u]
      /\ Len(stack'[t]) = n - 1 /\ n \in Nat \ {0}
      /\ \A i \in 1 .. n - 1 : stack'[t][i] = stack[t][i]
  BY <1>1, Left DEF IInv
<1>3. /\ DOMAIN live' = Live
      /\ \A g \in Live : live'[g] = IF g = h THEN [live[g] EXCEPT !.busy = FALSE] ELSE live[g]
  BY DEF SendEnds, Live
<1>4. \A g \in Live : /\ live'[g] \in Entry /\ (g # h => live'[g].busy = live[g].busy)
                      /\ live'[g].kind = live[g].kind /\ live'[g].outcome = live[g].outcome
  <2> SUFFICES ASSUME NEW g \in Live
               PROVE  /\ live'[g] \in Entry /\ (g # h => live'[g].busy = live[g].busy)
                      /\ live'[g].kind = live[g].kind /\ live'[g].outcome = live[g].outcome
    OBVIOUS
  <2>1. live[g] \in Entry
    BY DEF IInv, TypeOK
  <2>2. CASE g = h
    <3>1. live'[g] = [live[g] EXCEPT !.busy = FALSE]
      BY <1>3, <2>2
    <3> QED BY <2>1, <2>2, <3>1 DEF Entry
  <2>3. CASE g # h
    BY <1>3, <2>1, <2>3
  <2> QED BY <2>2, <2>3
<1>5. TypeOK'
  BY <1>2, <1>3, <1>4 DEF IInv, TypeOK, SendEnds, agent, pull, Live, Given
<1>6. \A u \in Threads : \A i \in 1 .. Len(stack'[u]) :
        i \in Places(u) /\ stack'[u][i] = stack[u][i] /\ (u = t => i # n)
  BY <1>2 DEF Places
<1>7. FramesFit' /\ SendsApart'
  BY <1>6, NoNewSends DEF IInv
<1>8. SendsBusy'
  <2> SUFFICES ASSUME NEW u \in Threads, NEW i \in 1 .. Len(stack'[u]), stack'[u][i].call = "send"
               PROVE  stack'[u][i].h \in Live /\ live'[stack'[u][i].h].busy
    BY <1>3 DEF SendsBusy, Places, Live
  <2>1. n \in Places(t) /\ stack[t][n].h = h
    BY <1>1, <1>2 DEF Places
  <2>2. stack'[u][i].h # h
    BY <1>1, <1>6, <2>1 DEF IInv, HandlesFit, SendsApart
  <2> QED BY <1>4, <1>6, <2>2 DEF IInv, HandlesFit, SendsBusy
<1>9. PollsFit'
  BY <1>3, <1>4, PollsStay DEF IInv, HandlesFit, SendEnds, pull, Live
<1>10. AgentFits'
  <2>1. ~Inside(stack[t][n])
    BY <1>1, <1>2 DEF IInv, HandlesFit, FramesFit, Fits, Inside, Places
  <2> QED BY <1>1, <1>2, <2>1, SameInside DEF IInv, Places, SendEnds
<1> QED BY <1>5, <1>7, <1>8, <1>9, <1>10 DEF IInv, HandlesFit

\* Closing takes away no session a turn is running on.
LEMMA CloseKeeps ==
  ASSUME IInv, NEW t \in Threads, NEW h \in Handles, NEW k \in Kinds, Close(t, h, k)
  PROVE  IInv'
<1> DEFINE n == Len(stack[t])
           f == [call |-> "free", h |-> h, at |-> "join"]
<1>1. h \in Live /\ ~live[h].busy
  BY DEF Close, Frees, Borrows
<1>2. /\ DOMAIN live' = Live \ {h}
      /\ \A g \in Live \ {h} : live'[g] = live[g]
  BY DEF Close, Live
<1>3. /\ stack' \in [Threads -> Seq(Frame)]
      /\ \A u \in Threads : u # t => stack'[u] = stack[u]
      /\ \A i \in 1 .. n : i \in 1 .. Len(stack'[t]) /\ stack'[t][i] = stack[t][i]
      /\ \A i \in 1 .. Len(stack'[t]) : i \notin 1 .. n => stack'[t][i] = f
  <2>1. CASE k = "pull"
    <3>1. f \in Frame /\ Enters(t, "free", h, "join")
      BY <2>1 DEF Frame, Close, Handles
    <3> QED BY <3>1, Entered DEF IInv
  <2>2. CASE k # "pull"
    BY <2>2 DEF Close, IInv, TypeOK
  <2> QED BY <2>1, <2>2
<1>4. TypeOK'
  BY <1>2, <1>3 DEF IInv, TypeOK, Close, agent, pull, Live, Given
<1>5. \A u \in Threads : \A i \in 1 .. Len(stack'[u]) :
        \/ i \in Places(u) /\ stack'[u][i] = stack[u][i]
        \/ stack'[u][i] = f
  BY <1>3 DEF Places
<1>6. FramesFit' /\ SendsApart'
  BY <1>5, NoNewSends DEF IInv, Fits
<1>7. SendsBusy'
  <2> SUFFICES ASSUME NEW u \in Threads, NEW i \in 1 .. Len(stack'[u]), stack'[u][i].call = "send"
               PROVE  stack'[u][i].h \in Live \ {h} /\ live'[stack'[u][i].h].busy
    BY <1>2 DEF SendsBusy, Places, Live
  <2> QED BY <1>1, <1>2, <1>5 DEF IInv, HandlesFit, SendsBusy
<1>8. PollsFit'
  BY <1>2, PollsStay DEF IInv, HandlesFit, Close, pull, Live
<1>9. AgentFits'
  <2>1. ~Inside(f) /\ f.call \notin AgentCalls
    BY DEF Inside, AgentCalls
  <2>2. UNCHANGED agent
    BY DEF Close
  <2> QED BY <1>3, <2>1, <2>2, SameInside DEF IInv, Places
<1> QED BY <1>4, <1>6, <1>7, <1>8, <1>9 DEF IInv, HandlesFit

\* The end of a free is of no session and no call on the backend.
LEMMA FreeEndsKeeps ==
  ASSUME IInv, NEW t \in Threads, FreeEnds(t)
  PROVE  IInv'
<1> DEFINE n == Len(stack[t])
<1>1. stack[t] # <<>> /\ Leaves(t) /\ Top(t) = stack[t][n] /\ stack[t][n].call = "free"
  BY DEF FreeEnds, In, Top, Last
<1>2. /\ stack' \in [Threads -> Seq(Frame)]
      /\ \A u \in Threads : u # t => stack'[u] = stack[u]
      /\ Len(stack'[t]) = n - 1 /\ n \in Nat \ {0}
      /\ \A i \in 1 .. n - 1 : stack'[t][i] = stack[t][i]
  BY <1>1, Left DEF IInv
<1>3. TypeOK'
  BY <1>2 DEF IInv, TypeOK, FreeEnds, table, agent, pull, Live, Given
<1>4. FramesFit' /\ SendsBusy' /\ SendsApart'
  BY <1>2, SameSends DEF IInv, FreeEnds, table, Places
<1>5. PollsFit'
  BY PollsStay DEF IInv, HandlesFit, FreeEnds, table, pull, Live
<1>6. AgentFits'
  <2>1. ~Inside(stack[t][n])
    BY <1>1, <1>2 DEF IInv, HandlesFit, FramesFit, Fits, Inside, Places
  <2> QED BY <1>1, <1>2, <2>1, SameInside DEF IInv, Places, FreeEnds
<1> QED BY <1>3, <1>4, <1>5, <1>6 DEF IInv, HandlesFit

---------------------------------------------------------------------------
(* The backend.                                                            *)

\* A step that leaves the table of handles and the downloads alone.
LEMMA TableStays ==
  ASSUME IInv, UNCHANGED <<table, pull>>, FramesFit', SendsBusy', SendsApart'
  PROVE  HandlesFit'
BY PollsStay DEF IInv, HandlesFit, table, pull, Live

\* A step of t in a call of the backend that stays or returns.
LEMMA AgentStep ==
  ASSUME IInv, NEW t \in Threads, stack[t] # <<>>, Top(t).call \in AgentCalls,
         UNCHANGED <<table, pull>>,
         holder' \in Threads \union {Nobody}, poisoned' \in BOOLEAN, slot' \in BOOLEAN, built' \in Nat,
         \/ Leaves(t)
         \/ \E at \in {"turn", "drop", "build", "keep"} : Moves(t, at) /\ Fits([Top(t) EXCEPT !.at = at])
  PROVE  TypeOK' /\ HandlesFit'
<1> DEFINE n == Len(stack[t])
<1>1. n \in Nat \ {0} /\ Top(t) = stack[t][n] /\ stack[t][n] \in Frame
  BY DEF IInv, TypeOK, Top, Last
<1>2. /\ stack' \in [Threads -> Seq(Frame)]
      /\ \A u \in Threads : u # t => stack'[u] = stack[u]
      /\ \A i \in 1 .. Len(stack'[t]) :
           \/ i \in Places(t) /\ stack'[t][i] = stack[t][i]
           \/ stack'[t][i].call # "send" /\ Fits(stack'[t][i])
  <2>1. CASE Leaves(t)
    BY <2>1, Left DEF IInv, Places
  <2>2. ASSUME NEW at \in {"turn", "drop", "build", "keep"}, Moves(t, at), Fits([Top(t) EXCEPT !.at = at])
        PROVE  /\ stack' \in [Threads -> Seq(Frame)]
               /\ \A u \in Threads : u # t => stack'[u] = stack[u]
               /\ \A i \in 1 .. Len(stack'[t]) :
                    \/ i \in Places(t) /\ stack'[t][i] = stack[t][i]
                    \/ stack'[t][i].call # "send" /\ Fits(stack'[t][i])
    <3>1. [Top(t) EXCEPT !.at = at].call # "send"
      BY <1>1 DEF Frame, AgentCalls
    <3>2. /\ stack' \in [Threads -> Seq(Frame)]
          /\ \A u \in Threads : u # t => stack'[u] = stack[u]
          /\ Len(stack'[t]) = n
          /\ \A i \in 1 .. n - 1 : stack'[t][i] = stack[t][i]
          /\ stack'[t][n] = [Top(t) EXCEPT !.at = at]
      BY <2>2, MovedTo DEF IInv
    <3>3. \A i \in 1 .. Len(stack'[t]) : i \in 1 .. n - 1 \/ i = n
      BY <1>1, <3>2
    <3> QED BY <1>1, <2>2, <3>1, <3>2, <3>3 DEF Places
  <2> QED BY <2>1, <2>2
<1>3. TypeOK'
  BY <1>2 DEF IInv, TypeOK, table, pull, Live, Given
<1>4. FramesFit' /\ SendsBusy' /\ SendsApart'
  BY <1>2, SameSends DEF IInv, table
<1> QED BY <1>3, <1>4, TableStays

\* The one call inside the lock is the innermost of the thread that holds it.
LEMMA InsideIsTop ==
  ASSUME IInv, NEW t \in Threads, stack[t] # <<>>, Inside(Top(t))
  PROVE  /\ holder = t
         /\ \A u \in Threads : \A i \in Places(u) :
              Inside(stack[u][i]) => u = t /\ i = Len(stack[t])
<1>1. Len(stack[t]) \in Places(t) /\ Top(t) = stack[t][Len(stack[t])]
  BY DEF IInv, TypeOK, Top, Last, Places
<1>2. holder = t
  BY <1>1 DEF IInv, AgentFits, Held
<1>3. \A u \in Threads : \A i \in Places(u) : Inside(stack[u][i]) => stack[u][i].call \in AgentCalls
  <2> SUFFICES ASSUME NEW u \in Threads, NEW i \in Places(u), Inside(stack[u][i])
               PROVE  stack[u][i].call \in AgentCalls
    OBVIOUS
  <2>1. stack[u][i] \in Frame /\ Fits(stack[u][i])
    BY DEF IInv, TypeOK, HandlesFit, FramesFit, Places
  <2> QED BY <2>1 DEF Frame, Fits, Inside, AgentCalls
<1> QED BY <1>1, <1>2, <1>3 DEF IInv, AgentFits, Held, OneAsk

\* The call inside the lock is over, and the lock let go.
LEMMA ReturnFits ==
  ASSUME IInv, NEW t \in Threads, stack[t] # <<>>, Inside(Top(t)), Leaves(t), holder' = Nobody,
         built' = IF slot' THEN 1 ELSE 0
  PROVE  AgentFits'
<1> DEFINE n == Len(stack[t])
<1>1. /\ \A u \in Threads : u # t => stack'[u] = stack[u]
      /\ Len(stack'[t]) = n - 1 /\ n \in Nat \ {0}
      /\ \A i \in 1 .. n - 1 : stack'[t][i] = stack[t][i]
  BY Left DEF IInv
<1>2. \A u \in Threads : \A i \in 1 .. Len(stack'[u]) :
        i \in Places(u) /\ stack'[u][i] = stack[u][i] /\ ~Inside(stack'[u][i])
  BY <1>1, InsideIsTop DEF Places
<1>3. OneAsk'
  BY <1>2 DEF IInv, AgentFits, OneAsk, Places
<1>4. Held'
  BY <1>2, NobodyIsNone DEF Held, Places, Inside
<1>5. SlotFits'
  BY <1>2 DEF SlotFits, Places, Inside
<1> QED BY <1>3, <1>4, <1>5 DEF AgentFits

\* The call goes on inside the lock, which t holds by then.
LEMMA MoveFits ==
  ASSUME IInv, NEW t \in Threads, stack[t] # <<>>, Top(t).call \in AgentCalls,
         NEW at \in {"turn", "drop", "build", "keep"}, Moves(t, at), Inside([Top(t) EXCEPT !.at = at]),
         holder \in {t, Nobody}, holder' = t,
         at = "build" => ~slot', at = "keep" => ~slot' /\ built' = 1, at = "turn" => slot',
         at # "keep" => built' = IF slot' THEN 1 ELSE 0
  PROVE  AgentFits'
<1> DEFINE n == Len(stack[t])
           f == [Top(t) EXCEPT !.at = at]
<1>1. /\ \A u \in Threads : u # t => stack'[u] = stack[u]
      /\ Len(stack'[t]) = n /\ n \in Nat \ {0}
      /\ \A i \in 1 .. n - 1 : stack'[t][i] = stack[t][i]
      /\ stack'[t][n] = f
      /\ Top(t) = stack[t][n] /\ Top(t) \in Frame
  BY MovedTo DEF IInv
<1>2. f.at = at /\ f.call = Top(t).call
  BY <1>1 DEF Frame
<1>3. \A u \in Threads : \A i \in Places(u) : Inside(stack[u][i]) => u = t /\ i = n
  <2> SUFFICES ASSUME NEW u \in Threads, NEW i \in Places(u), Inside(stack[u][i])
               PROVE  u = t /\ i = n
    OBVIOUS
  <2>1. holder = u
    BY DEF IInv, AgentFits, Held
  <2>2. u = t
    BY <2>1, NobodyIsNone
  <2>3. stack[u][i] \in Frame /\ Fits(stack[u][i])
    BY DEF IInv, TypeOK, HandlesFit, FramesFit, Places
  <2>4. stack[u][i].call \in AgentCalls
    BY <2>3 DEF Frame, Fits, Inside, AgentCalls
  <2>5. n \in Places(t)
    BY <1>1 DEF Places
  <2> QED BY <1>1, <2>2, <2>4, <2>5 DEF IInv, AgentFits, OneAsk
<1>4. \A u \in Threads : \A i \in 1 .. Len(stack'[u]) :
        \/ i \in Places(u) /\ stack'[u][i] = stack[u][i] /\ ~Inside(stack'[u][i]) /\ (u = t => i # n)
        \/ u = t /\ i = n /\ stack'[u][i] = f
  BY <1>1, <1>3 DEF Places
<1>5. OneAsk'
  <2> SUFFICES ASSUME NEW u \in Threads, NEW i \in 1 .. Len(stack'[u]), NEW j \in 1 .. Len(stack'[u]),
                      stack'[u][i].call \in AgentCalls, stack'[u][j].call \in AgentCalls
               PROVE  i = j
    BY DEF OneAsk, Places
  <2>1. i \in Places(u) /\ j \in Places(u) /\ stack[u][i].call \in AgentCalls /\ stack[u][j].call \in AgentCalls
    BY <1>1, <1>2, <1>4 DEF Places
  <2> QED BY <2>1 DEF IInv, AgentFits, OneAsk
<1>6. Held'
  <2>1. \A u \in Threads : (\E i \in 1 .. Len(stack'[u]) : Inside(stack'[u][i])) => u = t
    BY <1>4
  <2>2. n \in 1 .. Len(stack'[t]) /\ Inside(stack'[t][n])
    BY <1>1
  <2> QED BY <2>1, <2>2 DEF Held, Places, Inside
<1>7. SlotFits'
  <2>1. \A u \in Threads : \A i \in 1 .. Len(stack'[u]) :
          /\ stack'[u][i].at = "build" => ~slot'
          /\ stack'[u][i].at = "keep" => ~slot' /\ built' = 1
          /\ stack'[u][i].call = "call" /\ stack'[u][i].at = "turn" => slot'
    BY <1>2, <1>4 DEF Inside
  <2>2. n \in 1 .. Len(stack'[t]) /\ stack'[t][n].at = at
    BY <1>1, <1>2
  <2> QED BY <2>1, <2>2 DEF SlotFits, Places
<1> QED BY <1>5, <1>6, <1>7 DEF AgentFits

\* A call on the backend begins before the lock, on a thread that is in none.
LEMMA AskKeeps ==
  ASSUME IInv, NEW t \in Threads, NEW c \in AgentCalls, Ask(t, c)
  PROVE  IInv'
<1> DEFINE n == Len(stack[t])
           f == [call |-> c, h |-> 0, at |-> "wait"]
<1>1. f \in Frame /\ Enters(t, c, 0, "wait")
  BY BoundsAreNat DEF Frame, Ask, AgentCalls
<1>2. /\ stack' \in [Threads -> Seq(Frame)]
      /\ \A u \in Threads : u # t => stack'[u] = stack[u]
      /\ Len(stack'[t]) = n + 1 /\ n \in Nat
      /\ \A i \in 1 .. n : stack'[t][i] = stack[t][i]
      /\ stack'[t][n + 1] = f
  BY <1>1, Entered DEF IInv
<1>3. \A i \in 1 .. Len(stack'[t]) :
        (i \in Places(t) /\ stack'[t][i] = stack[t][i]) \/ (i = n + 1 /\ stack'[t][i] = f)
  <2>1. \A i \in 1 .. Len(stack'[t]) : i \in 1 .. n \/ i = n + 1
    BY <1>2
  <2> QED BY <1>2, <2>1 DEF Places
<1>4. f.call # "send" /\ Fits(f) /\ ~Inside(f)
  BY DEF AgentCalls, Fits, Inside
<1>5. \A i \in Places(t) : stack[t][i].call \notin AgentCalls
  BY DEF Ask, Calls, AgentCalls, Places
<1>6. UNCHANGED <<table, agent, pull>>
  BY DEF Ask
<1>7. TypeOK'
  BY <1>2, <1>6 DEF IInv, TypeOK, table, agent, pull, Live, Given
<1>8. FramesFit' /\ SendsBusy' /\ SendsApart'
  BY <1>2, <1>3, <1>4, <1>6, SameSends DEF IInv, table
<1>9. HandlesFit'
  BY <1>6, <1>8, TableStays
<1>10. \A i \in 1 .. Len(stack'[t]) : stack'[t][i].call \in AgentCalls => i = n + 1
  BY <1>3, <1>5
<1>11. \A i \in Places(t) : i \in 1 .. Len(stack'[t]) /\ stack'[t][i] = stack[t][i]
  BY <1>2 DEF Places
<1>12. AgentFits'
  BY <1>2, <1>3, <1>4, <1>6, <1>10, <1>11, SameInside DEF IInv
<1> QED BY <1>7, <1>9, <1>12 DEF IInv

\* The lock is taken when nobody has it.
LEMMA LockKeeps ==
  ASSUME IInv, NEW t \in Threads, Lock(t)
  PROVE  IInv'
<1> DEFINE n == Len(stack[t])
<1>1. /\ stack[t] # <<>> /\ Top(t).at = "wait" /\ holder = Nobody
      /\ UNCHANGED <<table, poisoned, slot, built, pull>>
  BY DEF Lock, Waits
<1>2. n \in Nat \ {0} /\ n \in Places(t) /\ Top(t) = stack[t][n] /\ Top(t) \in Frame /\ Fits(Top(t))
  BY <1>1 DEF IInv, TypeOK, HandlesFit, FramesFit, Top, Last, Places
<1>3. Top(t).call \in AgentCalls /\ ~Inside(Top(t))
  BY <1>1, <1>2 DEF Frame, Fits, AgentCalls, Inside
<1>4. /\ holder \in Threads \union {Nobody} /\ poisoned \in BOOLEAN /\ slot \in BOOLEAN /\ built \in Nat
      /\ holder' \in Threads \union {Nobody}
      /\ poisoned' = poisoned /\ slot' = slot /\ built' = built
  BY <1>1 DEF IInv, TypeOK, Lock
<1>5. CASE poisoned \/ (Top(t).call = "call" /\ ~slot)
  <2>1. Leaves(t) /\ UNCHANGED agent
    BY <1>1, <1>5 DEF Lock, agent
  <2>2. TypeOK' /\ HandlesFit'
    BY <1>1, <1>3, <1>4, <2>1, AgentStep
  <2>3. /\ \A u \in Threads : u # t => stack'[u] = stack[u]
        /\ Len(stack'[t]) = n - 1
        /\ \A i \in 1 .. n - 1 : stack'[t][i] = stack[t][i]
    BY <1>1, <2>1, Left DEF IInv
  <2>4. \A i \in 1 .. Len(stack'[t]) : i \in Places(t) /\ stack'[t][i] = stack[t][i]
    BY <1>2, <2>3 DEF Places
  <2>5. \A i \in Places(t) : Inside(stack[t][i]) => i \in 1 .. Len(stack'[t]) /\ stack'[t][i] = stack[t][i]
    BY <1>2, <1>3, <2>3 DEF Places
  <2>6. AgentFits'
    BY <2>1, <2>3, <2>4, <2>5, SameInside DEF IInv
  <2> QED BY <2>2, <2>6 DEF IInv
<1>6. CASE ~(poisoned \/ (Top(t).call = "call" /\ ~slot))
  <2>1. \A u \in Threads : \A i \in Places(u) : ~Inside(stack[u][i])
    BY <1>1, NobodyIsNone DEF IInv, AgentFits, Held
  <2>2. built = IF slot THEN 1 ELSE 0
    BY <2>1 DEF IInv, AgentFits, SlotFits, Inside
  <2>3. PICK at \in {"turn", "drop"} :
          /\ Moves(t, at) /\ holder' = t
          /\ at = "turn" <=> Top(t).call = "call"
          /\ at = "turn" => slot
    BY <1>6 DEF Lock
  <2>4. Fits([Top(t) EXCEPT !.at = at]) /\ Inside([Top(t) EXCEPT !.at = at])
    BY <1>2, <1>3, <2>3 DEF Frame, Fits, Inside, AgentCalls
  <2>5. TypeOK' /\ HandlesFit'
    BY <1>1, <1>3, <1>4, <2>3, <2>4, AgentStep
  <2>6. AgentFits'
    <3>1. /\ at \in {"turn", "drop", "build", "keep"} /\ at # "build" /\ at # "keep" /\ holder \in {t, Nobody}
          /\ at = "turn" => slot'
          /\ built' = IF slot' THEN 1 ELSE 0
      BY <1>1, <2>2, <2>3
    <3> QED BY <1>1, <1>3, <2>3, <2>4, <3>1, MoveFits
  <2> QED BY <2>5, <2>6 DEF IInv
<1> QED BY <1>5, <1>6

\* What holds at a step of a call that is inside the lock.
LEMMA AtInside ==
  ASSUME IInv, NEW t \in Threads, NEW c \in AgentCalls, NEW at, At(t, c, at), at # "wait"
  PROVE  /\ stack[t] # <<>> /\ Top(t) \in Frame /\ Top(t).call = c /\ Top(t).at = at
         /\ Inside(Top(t)) /\ holder = t
         /\ at = "build" => ~slot
         /\ at = "keep" => ~slot /\ built = 1
         /\ c = "call" => slot
         /\ at # "keep" => built = IF slot THEN 1 ELSE 0
<1> DEFINE n == Len(stack[t])
<1>1. stack[t] # <<>> /\ Top(t).call = c /\ Top(t).at = at
  BY DEF At, In
<1>2. n \in Places(t) /\ Top(t) = stack[t][n] /\ Top(t) \in Frame /\ Fits(Top(t))
  BY <1>1 DEF IInv, TypeOK, HandlesFit, FramesFit, Top, Last, Places
<1>3. Inside(Top(t)) /\ (c = "call" => at = "turn")
  BY <1>1, <1>2 DEF Frame, Fits, Inside, AgentCalls
<1>4. /\ holder = t
      /\ \A u \in Threads : \A i \in Places(u) : Inside(stack[u][i]) => u = t /\ i = n
  BY <1>1, <1>3, InsideIsTop
<1>5. at # "keep" => \A u \in Threads : \A i \in Places(u) : stack[u][i].at # "keep"
  BY <1>1, <1>2, <1>4 DEF Inside
<1> QED BY <1>1, <1>2, <1>3, <1>4, <1>5 DEF IInv, AgentFits, SlotFits

\* What is done under the lock, done by its holder, counts the backends right.
LEMMA BackendKeeps ==
  ASSUME IInv, NEW t \in Threads, Drop(t) \/ Build(t) \/ Keep(t) \/ CallEnds(t)
  PROVE  IInv'
<1>1. poisoned \in BOOLEAN /\ slot \in BOOLEAN /\ built \in Nat
  BY DEF IInv, TypeOK
<1>2. CASE Drop(t)
  <2>1. slot' = FALSE /\ built' = (IF slot THEN built - 1 ELSE built) /\ UNCHANGED <<table, pull>>
    BY <1>2 DEF Drop
  <2>2. CASE At(t, "open", "drop") /\ Moves(t, "build") /\ UNCHANGED <<holder, poisoned>>
    <3>1. /\ stack[t] # <<>> /\ Top(t) \in Frame /\ Top(t).call = "open" /\ holder = t
          /\ built = IF slot THEN 1 ELSE 0
      BY <2>2, AtInside DEF AgentCalls
    <3>2. Fits([Top(t) EXCEPT !.at = "build"]) /\ Inside([Top(t) EXCEPT !.at = "build"])
      BY <3>1 DEF Frame, Fits, Inside
    <3>3. Top(t).call \in AgentCalls /\ built' = 0
      BY <1>1, <2>1, <3>1 DEF AgentCalls
    <3>4. holder' \in Threads \union {Nobody} /\ poisoned' \in BOOLEAN /\ slot' \in BOOLEAN /\ built' \in Nat
      <4>1. holder' \in Threads \union {Nobody}
        BY <2>2, <3>1
      <4>2. poisoned' \in BOOLEAN
        BY <1>1, <2>2
      <4>3. slot' \in BOOLEAN
        BY <2>1
      <4>4. built' \in Nat
        BY <3>3
      <4> QED BY <4>1, <4>2, <4>3, <4>4
    <3>5. TypeOK' /\ HandlesFit'
      BY <2>1, <2>2, <3>1, <3>2, <3>3, <3>4, AgentStep
    <3>6. AgentFits'
      BY <2>1, <2>2, <3>1, <3>2, <3>3, MoveFits
    <3> QED BY <3>5, <3>6 DEF IInv
  <2>3. CASE At(t, "close", "drop") /\ Returns(t, FALSE)
    <3>1. /\ stack[t] # <<>> /\ Top(t).call = "close" /\ Inside(Top(t))
          /\ built = IF slot THEN 1 ELSE 0
      BY <2>3, AtInside DEF AgentCalls
    <3>2. Leaves(t) /\ holder' = Nobody /\ poisoned' = poisoned
      BY <1>1, <2>3 DEF Returns, Unlock
    <3>3. Top(t).call \in AgentCalls /\ built' = 0
      BY <1>1, <2>1, <3>1 DEF AgentCalls
    <3>4. holder' \in Threads \union {Nobody} /\ poisoned' \in BOOLEAN /\ slot' \in BOOLEAN /\ built' \in Nat
      <4>1. holder' \in Threads \union {Nobody}
        BY <3>2
      <4>2. poisoned' \in BOOLEAN
        BY <1>1, <3>2
      <4>3. slot' \in BOOLEAN
        BY <2>1
      <4>4. built' \in Nat
        BY <3>3
      <4> QED BY <4>1, <4>2, <4>3, <4>4
    <3>5. TypeOK' /\ HandlesFit'
      BY <2>1, <3>1, <3>2, <3>3, <3>4, AgentStep
    <3>6. AgentFits'
      BY <2>1, <3>1, <3>2, <3>3, ReturnFits
    <3> QED BY <3>5, <3>6 DEF IInv
  <2> QED BY <1>2, <2>2, <2>3 DEF Drop
<1>3. CASE Build(t)
  <2>1. /\ stack[t] # <<>> /\ Top(t) \in Frame /\ Top(t).call = "open" /\ Inside(Top(t)) /\ holder = t
        /\ ~slot /\ built = 0 /\ slot' = FALSE /\ UNCHANGED <<table, pull>>
    BY <1>1, <1>3, AtInside DEF Build, AgentCalls
  <2>2. Top(t).call \in AgentCalls
    BY <2>1 DEF AgentCalls
  <2>3. CASE Moves(t, "keep") /\ built' = built + 1 /\ UNCHANGED <<holder, poisoned>>
    <3>1. Fits([Top(t) EXCEPT !.at = "keep"]) /\ Inside([Top(t) EXCEPT !.at = "keep"])
      BY <2>1 DEF Frame, Fits, Inside
    <3>2. holder' \in Threads \union {Nobody} /\ poisoned' \in BOOLEAN /\ slot' \in BOOLEAN /\ built' \in Nat
      <4>1. holder' \in Threads \union {Nobody}
        BY <2>1, <2>3
      <4>2. poisoned' \in BOOLEAN
        BY <1>1, <2>3
      <4>3. slot' \in BOOLEAN
        BY <2>1
      <4>4. built' \in Nat
        BY <2>1, <2>3
      <4> QED BY <4>1, <4>2, <4>3, <4>4
    <3>3. TypeOK' /\ HandlesFit'
      BY <2>1, <2>2, <2>3, <3>1, <3>2, AgentStep
    <3>4. AgentFits'
      BY <2>1, <2>2, <2>3, <3>1, MoveFits
    <3> QED BY <3>3, <3>4 DEF IInv
  <2>4. ASSUME NEW panic \in BOOLEAN, Returns(t, panic), UNCHANGED built
        PROVE  IInv'
    <3>1. Leaves(t) /\ holder' = Nobody /\ poisoned' \in BOOLEAN
      BY <1>1, <2>4 DEF Returns, Unlock
    <3>2. TypeOK' /\ HandlesFit'
      BY <1>1, <2>1, <2>2, <2>4, <3>1, AgentStep
    <3>3. AgentFits'
      BY <2>1, <2>4, <3>1, ReturnFits
    <3> QED BY <3>2, <3>3 DEF IInv
  <2> QED BY <1>3, <2>3, <2>4 DEF Build
<1>4. CASE Keep(t)
  <2>1. /\ stack[t] # <<>> /\ Top(t).call = "open" /\ Inside(Top(t))
        /\ ~slot /\ built = 1
        /\ slot' = TRUE /\ Returns(t, FALSE) /\ UNCHANGED <<table, pull>>
        /\ built' = IF slot THEN built - 1 ELSE built
    BY <1>4, AtInside DEF Keep, AgentCalls
  <2>2. Leaves(t) /\ holder' = Nobody /\ poisoned' = poisoned
    BY <1>1, <2>1 DEF Returns, Unlock
  <2>3. Top(t).call \in AgentCalls /\ built' = 1
    BY <2>1 DEF AgentCalls
  <2>4. TypeOK' /\ HandlesFit'
    BY <1>1, <2>1, <2>2, <2>3, AgentStep
  <2>5. AgentFits'
    BY <2>1, <2>2, <2>3, ReturnFits
  <2> QED BY <2>4, <2>5 DEF IInv
<1>5. CASE CallEnds(t)
  <2>1. /\ stack[t] # <<>> /\ Top(t).call = "call" /\ Inside(Top(t))
        /\ slot /\ built = 1 /\ UNCHANGED <<table, slot, built, pull>>
    BY <1>5, AtInside DEF CallEnds, AgentCalls
  <2>2. PICK panic \in BOOLEAN : Returns(t, panic)
    BY <1>5 DEF CallEnds
  <2>3. Leaves(t) /\ holder' = Nobody /\ poisoned' \in BOOLEAN
    BY <1>1, <2>2 DEF Returns, Unlock
  <2>4. Top(t).call \in AgentCalls
    BY <2>1 DEF AgentCalls
  <2>5. TypeOK' /\ HandlesFit'
    BY <1>1, <2>1, <2>3, <2>4, AgentStep
  <2>6. AgentFits'
    BY <2>1, <2>3, ReturnFits
  <2> QED BY <2>5, <2>6 DEF IInv
<1> QED BY <1>2, <1>3, <1>4, <1>5

---------------------------------------------------------------------------
(* The invariant is one.                                                   *)

\* The library starts with the invariant.
LEMMA InitFits == Init => IInv
<1> SUFFICES ASSUME Init PROVE IInv
  OBVIOUS
<1>1. Live = {} /\ Given = {} /\ \A t \in Threads : Places(t) = {}
  BY DEF Init, Live, Given, Places
<1>2. TypeOK
  <2>1. next \in 1 .. MaxTokens + 1 /\ built \in Nat
    BY BoundsAreNat DEF Init
  <2>2. holder \in Threads \union {Nobody} /\ poisoned \in BOOLEAN /\ slot \in BOOLEAN
    BY DEF Init
  <2>3. stack \in [Threads -> Seq(Frame)]
    BY DEF Init
  <2>4. worker \in [Handles -> {"none", "running", "ok", "bad"}] /\ told \in [Handles -> SUBSET {"ok", "bad"}]
    BY DEF Init
  <2> QED BY <1>1, <2>1, <2>2, <2>3, <2>4 DEF TypeOK
<1>3. HandlesFit
  BY <1>1 DEF Init, HandlesFit, FramesFit, SendsBusy, SendsApart, PollsFit, PollFits
<1>4. AgentFits
  BY <1>1, NobodyIsNone DEF Init, AgentFits, OneAsk, Held, SlotFits
<1> QED BY <1>2, <1>3, <1>4 DEF IInv

\* The invariant speaks of the variables only.
LEMMA StutterKeeps ==
  ASSUME IInv, UNCHANGED vars
  PROVE  IInv'
<1>1. TypeOK'
  BY DEF IInv, TypeOK, vars, Live, Given
<1>2. HandlesFit'
  BY DEF IInv, HandlesFit, FramesFit, SendsBusy, SendsApart, PollsFit, PollFits, Places, Fits, vars, Live, Given
<1>3. AgentFits'
  BY DEF IInv, AgentFits, OneAsk, Held, SlotFits, Places, Inside, vars
<1> QED BY <1>1, <1>2, <1>3 DEF IInv

\* Every step keeps the invariant.
LEMMA NextFits == IInv /\ [Next]_vars => IInv'
<1> SUFFICES ASSUME IInv, [Next]_vars PROVE IInv'
  OBVIOUS
<1>1. CASE UNCHANGED vars
  BY <1>1, StutterKeeps
<1>2. ASSUME NEW h \in Handles, WorkerEnds(h) PROVE IInv'
  BY <1>2, WorkerEndsKeeps
<1>3. ASSUME NEW t \in Threads, NEW k \in Kinds, Open(t, k) PROVE IInv'
  BY <1>3, OpenKeeps
<1>4. ASSUME NEW t \in Threads, NEW h \in Handles, Send(t, h) \/ Poll(t, h) PROVE IInv'
  BY <1>4, SendKeeps, PollKeeps
<1>5. ASSUME NEW t \in Threads, NEW h \in Handles, NEW k \in Kinds, Close(t, h, k) PROVE IInv'
  BY <1>5, CloseKeeps
<1>6. ASSUME NEW t \in Threads, NEW c \in {"open", "call", "close"}, Ask(t, c) PROVE IInv'
  BY <1>6, AskKeeps DEF AgentCalls
<1>7. ASSUME NEW t \in Threads, Lock(t) \/ Backend(t) \/ Ends(t) \/ FreeEnds(t) PROVE IInv'
  BY <1>7, LockKeeps, BackendKeeps, SendEndsKeeps, FreeEndsKeeps DEF Backend, Ends
<1> QED BY <1>1, <1>2, <1>3, <1>4, <1>5, <1>6, <1>7 DEF Next

\* The invariant holds throughout.
LEMMA Invariant == Spec => []IInv
BY InitFits, NextFits, PTL DEF Spec

---------------------------------------------------------------------------
(* What follows.                                                           *)

\* The stacks, the table, the lock and the polls have their types (abi.rs, agent.rs, model.rs).
THEOREM LibraryTypeOK == Spec => []TypeOK
<1>1. IInv => TypeOK
  BY DEF IInv
<1> QED BY <1>1, Invariant, PTL

\* The object of a turn is no other turn's and is not freed while it is on, whatever the
\* caller calls from inside its events: borrow and the busy flag (abi.rs:217-260).
THEOREM LibraryNoAlias == Spec => []NoAlias
<1>1. IInv => NoAlias
  BY DEF IInv, HandlesFit, SendsBusy, SendsApart, NoAlias, Places
<1> QED BY <1>1, Invariant, PTL

\* There is one backend at most, also between dropping the old and keeping the new, and a
\* call works on one that stays: the slot behind the lock (agent.rs:60-110).
THEOREM LibraryOneBackend == Spec => []OneBackend
<1>1. IInv => OneBackend
  <2> SUFFICES ASSUME IInv PROVE OneBackend
    OBVIOUS
  <2>1. built <= 1
    <3>1. CASE \A t \in Threads : \A i \in Places(t) : stack[t][i].at # "keep"
      BY <3>1 DEF IInv, AgentFits, SlotFits
    <3>2. CASE \E t \in Threads : \E i \in Places(t) : stack[t][i].at = "keep"
      BY <3>2 DEF IInv, AgentFits, SlotFits
    <3> QED BY <3>1, <3>2
  <2>2. ASSUME NEW t \in Threads, "call" \in Calls(t), holder = t
        PROVE  slot
    <3>1. PICK i \in Places(t) : stack[t][i].call = "call"
      BY <2>2 DEF Calls, Places
    <3>2. PICK j \in Places(t) : Inside(stack[t][j])
      BY <2>2 DEF IInv, AgentFits, Held
    <3>3. stack[t][j] \in Frame /\ Fits(stack[t][j]) /\ Fits(stack[t][i])
      BY DEF IInv, TypeOK, HandlesFit, FramesFit, Places
    <3>4. stack[t][j].call \in AgentCalls
      BY <3>2, <3>3 DEF Frame, Fits, Inside, AgentCalls
    <3>5. i = j
      BY <3>1, <3>4 DEF IInv, AgentFits, OneAsk, AgentCalls
    <3> QED BY <3>1, <3>2, <3>3, <3>5 DEF IInv, AgentFits, SlotFits, Fits, Inside
  <2> QED BY <2>1, <2>2 DEF OneBackend
<1> QED BY <1>1, Invariant, PTL

\* What the polls of a download say at its end they say for ever: the outcome is kept when
\* the thread is joined (model.rs).
THEOREM LibraryPollIsFinal == Spec => []PollIsFinal
<1>1. IInv => PollIsFinal
  <2> SUFFICES ASSUME IInv, NEW h \in Handles PROVE Cardinality(told[h]) <= 1
    BY DEF PollIsFinal
  <2>1. told[h] = {} \/ \E x \in {"ok", "bad"} : told[h] = {x}
    BY DEF IInv, HandlesFit, PollsFit, PollFits
  <2>2. CASE told[h] = {}
    <3>1. Cardinality(told[h]) = 0
      BY <2>2, FS_EmptySet
    <3> QED BY <3>1
  <2>3. ASSUME NEW x, told[h] = {x} PROVE Cardinality(told[h]) <= 1
    <3>1. Cardinality({x}) = 1
      BY FS_Singleton
    <3>2. Cardinality(told[h]) = 1
      BY <2>3, <3>1
    <3> QED BY <3>2
  <2> QED BY <2>1, <2>2, <2>3
<1> QED BY <1>1, Invariant, PTL

\* A token that was freed is never one that is live again: numbers are given out once
\* (abi.rs: NEXT_TOKEN).
THEOREM LibraryFreedStaysRefused == Spec => FreedStaysRefused
<1>1. IInv /\ [Next]_vars => [\A h \in Given : h \notin Live => h \notin DOMAIN live']_live
  <2> SUFFICES ASSUME IInv, Next, NEW h \in Given, h \notin Live
               PROVE  h \notin DOMAIN live' \/ live' = live
    BY DEF vars
  <2>1. h # next
    BY DEF IInv, TypeOK, Given
  <2>2. ASSUME NEW t \in Threads, NEW k \in Kinds, Open(t, k) PROVE h \notin DOMAIN live'
    BY <2>1, <2>2 DEF Open, Token
  <2>3. ASSUME NEW t \in Threads, NEW g \in Handles, Send(t, g) \/ Poll(t, g)
        PROVE  h \notin DOMAIN live'
    BY <2>3 DEF Send, Poll, Live
  <2>4. ASSUME NEW t \in Threads, NEW g \in Handles, NEW k \in Kinds, Close(t, g, k)
        PROVE  h \notin DOMAIN live'
    BY <2>4 DEF Close
  <2>5. ASSUME NEW t \in Threads, SendEnds(t) PROVE h \notin DOMAIN live'
    BY <2>5 DEF SendEnds
  <2>6. ASSUME NEW t \in Threads, Lock(t) \/ Backend(t) \/ CallEnds(t) \/ FreeEnds(t)
        PROVE  live' = live
    BY <2>6 DEF Lock, Backend, Drop, Build, Keep, CallEnds, FreeEnds, table
  <2>7. ASSUME NEW t \in Threads, NEW c \in {"open", "call", "close"}, Ask(t, c) PROVE live' = live
    BY <2>7 DEF Ask, table
  <2>8. ASSUME NEW g \in Handles, WorkerEnds(g) PROVE live' = live
    BY <2>8 DEF WorkerEnds, table
  <2> QED BY <2>2, <2>3, <2>4, <2>5, <2>6, <2>7, <2>8 DEF Next, Ends
<1> QED BY <1>1, Invariant, PTL DEF Spec, FreedStaysRefused
=============================================================================
