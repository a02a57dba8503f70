------------------------------- MODULE Server -------------------------------
(***************************************************************************)
(* rust/rustagent/src/server.rs and http.rs: one process, one thread for   *)
(* each connection and one dispatcher thread, which owns the backend and   *)
(* answers in arrival order.  The threads share the job queue, and for a   *)
(* WebSocket the channel of outgoing frames, the map of the connection's   *)
(* turns and each turn's cancel flag.  A step is what a thread does up to  *)
(* the next point where another thread can see or change shared state.     *)
(*                                                                         *)
(* Left out: the payload of requests and replies, the handshake and the    *)
(* sniffing of the wire, plain HTTP (a line session of one request), and   *)
(* frames that are not JSON (answered at once, changing nothing).          *)
(***************************************************************************)
EXTENDS Naturals, Sequences

CONSTANTS
  Conns,      \* connections a client opens
  Wire,       \* Wire[c]: what connection c speaks, "ws", "line" or "sse"
  Ids,        \* ids a WebSocket client numbers its requests with
  NoId,       \* a request sent without an id
  CanPanic,   \* whether the backend may panic while it handles a request
  MaxAsk,     \* bound: requests sent in all
  MaxChunks   \* bound: pieces a turn streams to a client that keeps listening

ASSUME WireIsKnown == Wire \in [Conns -> {"ws", "line", "sse"}]
ASSUME NoIdIsNoId  == NoId \notin Ids
ASSUME SwitchesAndBounds ==
  /\ CanPanic \in BOOLEAN
  /\ MaxAsk \in Nat /\ MaxChunks \in Nat

\* Requests are numbered in the order clients send them; 0 is no request.
Reqs    == 1 .. MaxAsk
ChatOps == {"chat"}                          \* streams on ws and sse
WorkOps == {"call", "daemon.stop"}           \* one reply
AllOps  == ChatOps \union WorkOps \union {"stop"}
Request == [conn: Conns, id: Ids \union {NoId}, op: AllOps]
Frame   == [req: Reqs, last: BOOLEAN]        \* a piece of the turn, or its reply

VARIABLES
  asked,   \* the requests clients sent, in order
  sock,    \* sock[c]: the client's end, "open" or "gone"
  inbox,   \* inbox[c]: requests on the wire to the server, unread
  got,     \* got[c]: frames written to the client, in order
  at,      \* at[c]: where c's thread is, "drain" or "read", or "end"
  frames,  \* frames[c]: the channel from the dispatcher to a ws thread
  turns,   \* turns[c]: by id, the request whose cancel flag the map holds, or 0
  cancel,  \* requests whose cancel flag is set
  queue,   \* jobs sent to the dispatcher, oldest first
  job,     \* the request the dispatcher is on, or 0
  pc,      \* where the dispatcher is in it, "idle", or "dead" after a panic
  chunks,  \* pieces the running turn has sent
  acked,   \* the reply to daemon.stop has left the ws thread
  exited   \* the process has ended

threads == <<sock, inbox, got, at, frames, turns, cancel>>
disp    == <<queue, job, pc, chunks, acked, exited>>
vars    == <<asked, threads, disp>>

DispatcherAlive == pc # "dead"
Listening(c) == at[c] # "end"        \* the receiving end of frames[c] exists
Conn(r) == asked[r].conn
Id(r)   == asked[r].id
Op(r)   == asked[r].op

\* A frame to the client of c.
Write(c, r, last) == got' = [got EXCEPT ![c] = Append(@, [req |-> r, last |-> last])]

Up(c) == ~exited /\ Listening(c)

\* Mutant of Queued: the newest job first.
Pushed(r) == <<r>> \o queue

\* The dispatcher's queue with one more job.
Queued(r) == Append(queue, r)

---------------------------------------------------------------------------
(* The client.                                                             *)

Ask(c, op, id) ==
  /\ ~exited /\ sock[c] = "open" /\ Len(asked) < MaxAsk
  /\ op = "stop" => Wire[c] = "ws"
  /\ Wire[c] # "ws" => id = NoId
  /\ Wire[c] = "sse" => op = "chat" /\ \A r \in 1 .. Len(asked) : Conn(r) # c
  /\ asked' = Append(asked, [conn |-> c, id |-> id, op |-> op])
  /\ inbox' = [inbox EXCEPT ![c] = Append(@, Len(asked) + 1)]
  /\ UNCHANGED <<sock, got, at, frames, turns, cancel, disp>>

\* A close lets the server read what was sent before it; a reset loses it.
HangUp(c) ==
  /\ sock[c] = "open"
  /\ sock' = [sock EXCEPT ![c] = "gone"]
  /\ inbox' \in {inbox, [inbox EXCEPT ![c] = <<>>]}
  /\ UNCHANGED <<asked, got, at, frames, turns, cancel, disp>>

---------------------------------------------------------------------------
(* A WebSocket thread: write what is queued, then read for one tick.       *)

\* The session is over: its channel's receiver goes, with what is in it.
EndThread(c) == /\ at' = [at EXCEPT ![c] = "end"]
                /\ frames' = [frames EXCEPT ![c] = <<>>]

\* One queued frame.  To a client that has gone a write may still be taken by
\* the system and lost, or fail, and then the session ends.  The reply to
\* daemon.stop is acknowledged either way.
WsWrite(c) ==
  /\ Up(c) /\ at[c] = "drain" /\ frames[c] # <<>>
  /\ LET f == Head(frames[c]) IN
       /\ \/ /\ sock[c] = "open"
             /\ Write(c, f.req, f.last)
             /\ frames' = [frames EXCEPT ![c] = Tail(@)]
             /\ UNCHANGED at
          \/ /\ sock[c] = "gone"
             /\ frames' = [frames EXCEPT ![c] = Tail(@)]
             /\ UNCHANGED <<got, at>>
          \/ /\ sock[c] = "gone"
             /\ EndThread(c)
             /\ UNCHANGED got
       /\ acked' = (acked \/ (f.last /\ Op(f.req) = "daemon.stop"))
  /\ UNCHANGED <<asked, sock, inbox, turns, cancel, queue, job, pc, chunks, exited>>

WsDrained(c) ==
  /\ Up(c) /\ Wire[c] = "ws" /\ at[c] = "drain" /\ frames[c] = <<>>
  /\ at' = [at EXCEPT ![c] = "read"]
  /\ UNCHANGED <<asked, sock, inbox, got, frames, turns, cancel, disp>>

\* Mutant of WsTick: the thread reads on, and does not look at its channel.
WsReadOn(c) ==
  /\ Up(c) /\ at[c] = "read" /\ inbox[c] = <<>> /\ sock[c] = "open"
  /\ UNCHANGED vars

\* The read comes back on its timeout.
WsTick(c) ==
  /\ Up(c) /\ at[c] = "read" /\ inbox[c] = <<>> /\ sock[c] = "open"
  /\ at' = [at EXCEPT ![c] = "drain"]
  /\ UNCHANGED <<asked, sock, inbox, got, frames, turns, cancel, disp>>

\* Mutant of AnswerHere: nothing is written.
AnswerNot(c, r) ==
  at' = [at EXCEPT ![c] = "drain"] /\ UNCHANGED <<got, frames>>

\* A frame this thread answers itself; if the client has gone the write may fail.
AnswerHere(c, r) ==
  \/ sock[c] = "open" /\ Write(c, r, TRUE) /\ at' = [at EXCEPT ![c] = "drain"] /\ UNCHANGED frames
  \/ sock[c] = "gone" /\ UNCHANGED <<got, frames>> /\ at' = [at EXCEPT ![c] = "drain"]
  \/ sock[c] = "gone" /\ UNCHANGED got /\ EndThread(c)

\* Mutant of Stopped: an id finds them all.
StoppedAll(c, id) == {turns[c][i] : i \in Ids} \ {0}

\* The requests whose flags a stop sets: the one under its id, or all the map has.
Stopped(c, id) == {turns[c][i] : i \in IF id = NoId THEN Ids ELSE {id}} \ {0}

WsStop(c) ==
  /\ Up(c) /\ at[c] = "read" /\ inbox[c] # <<>>
  /\ LET r == Head(inbox[c]) IN
       /\ Op(r) = "stop"
       /\ cancel' = cancel \union Stopped(c, Id(r))
       /\ AnswerHere(c, r)
  /\ inbox' = [inbox EXCEPT ![c] = Tail(@)]
  /\ UNCHANGED <<asked, sock, turns, disp>>

\* Anything else is registered under its id, if it has one, and queued; with the
\* dispatcher gone it is refused here, and stays registered.
WsRequest(c) ==
  /\ Up(c) /\ at[c] = "read" /\ inbox[c] # <<>>
  /\ LET r == Head(inbox[c]) IN
       /\ Op(r) # "stop"
       /\ turns' = IF Id(r) = NoId THEN turns ELSE [turns EXCEPT ![c][Id(r)] = r]
       /\ IF DispatcherAlive
            THEN /\ queue' = Queued(r)
                 /\ at' = [at EXCEPT ![c] = "drain"]
                 /\ UNCHANGED <<got, frames>>
            ELSE AnswerHere(c, r) /\ UNCHANGED queue
  /\ inbox' = [inbox EXCEPT ![c] = Tail(@)]
  /\ UNCHANGED <<asked, sock, cancel, job, pc, chunks, acked, exited>>

\* A close or an error on the read: the flags of every registered turn are set.
WsClosed(c) ==
  /\ Up(c) /\ at[c] = "read" /\ inbox[c] = <<>> /\ sock[c] = "gone"
  /\ cancel' = cancel \union Stopped(c, NoId)
  /\ EndThread(c)
  /\ UNCHANGED <<asked, sock, inbox, got, turns, disp>>

---------------------------------------------------------------------------
(* The thread of a line session, and of an HTTP request.                   *)

LineRequest(c) ==
  /\ Up(c) /\ Wire[c] = "line" /\ inbox[c] # <<>>
  /\ IF DispatcherAlive
       THEN queue' = Queued(Head(inbox[c])) /\ UNCHANGED <<at, frames>>
       ELSE EndThread(c) /\ UNCHANGED queue
  /\ inbox' = [inbox EXCEPT ![c] = Tail(@)]
  /\ UNCHANGED <<asked, sock, got, turns, cancel, job, pc, chunks, acked, exited>>

LineClosed(c) ==
  /\ Up(c) /\ Wire[c] = "line" /\ inbox[c] = <<>> /\ sock[c] = "gone"
  /\ EndThread(c)
  /\ UNCHANGED <<asked, sock, inbox, got, turns, cancel, disp>>

\* The socket goes with the job, and the thread is done.
HttpRequest(c) ==
  /\ Up(c) /\ Wire[c] = "sse" /\ inbox[c] # <<>>
  /\ IF DispatcherAlive
       THEN queue' = Queued(Head(inbox[c])) /\ UNCHANGED got
       ELSE /\ IF sock[c] = "open" THEN Write(c, Head(inbox[c]), TRUE) ELSE UNCHANGED got
            /\ UNCHANGED queue
  /\ EndThread(c)
  /\ inbox' = [inbox EXCEPT ![c] = Tail(@)]
  /\ UNCHANGED <<asked, sock, turns, cancel, job, pc, chunks, acked, exited>>

---------------------------------------------------------------------------
(* The dispatcher.                                                         *)

Streams(r) == Op(r) = "chat" /\ Wire[Conn(r)] \in {"ws", "sse"}

Running(l) == ~exited /\ pc = l

\* A piece sent there may be found to go nowhere.
Lost(c) == IF Wire[c] = "ws" THEN ~Listening(c) ELSE sock[c] = "gone"

\* Mutant of NotRun: a turn told to stop while it was queued is passed over.
NotRunStopped(r) == r \in cancel

\* An event stream whose headers cannot be written is not run.
NotRun(r) == Wire[Conn(r)] = "sse" /\ sock[Conn(r)] = "gone"

\* The next job.
Take ==
  /\ Running("idle") /\ queue # <<>>
  /\ LET r == Head(queue) IN
       \/ /\ job' = r /\ chunks' = 0
          /\ pc' = IF Streams(r) THEN "turn" ELSE "work"
       \/ NotRun(r) /\ UNCHANGED <<job, chunks, pc>>
  /\ queue' = Tail(queue)
  /\ UNCHANGED <<asked, threads, acked, exited>>

\* Mutant of SinkRefuses: the flag is looked at before the first piece only.
RefusesFirst ==
  /\ Running("turn") /\ job \in cancel /\ chunks = 0
  /\ pc' = "over"
  /\ UNCHANGED <<asked, threads, queue, job, chunks, acked, exited>>

\* The sink is handed a piece: a set flag refuses it, and that ends the turn ...
SinkRefuses ==
  /\ Running("turn") /\ job \in cancel
  /\ pc' = "over"
  /\ UNCHANGED <<asked, threads, queue, job, chunks, acked, exited>>

\* ... else it goes on to send it.
SinkTakes ==
  /\ Running("turn") /\ job \notin cancel
  /\ chunks < MaxChunks \/ Lost(Conn(job))
  /\ pc' = "send"
  /\ UNCHANGED <<asked, threads, queue, job, chunks, acked, exited>>

\* Down the channel, whose closed end is what tells of a client that hung up; or
\* straight on to the socket of an event stream.
SendChunk ==
  LET c == Conn(job) IN
  /\ Running("send")
  /\ \/ /\ Wire[c] = "ws" /\ Listening(c)
        /\ frames' = [frames EXCEPT ![c] = Append(@, [req |-> job, last |-> FALSE])]
        /\ chunks' = chunks + 1
        /\ pc' = "turn"
        /\ UNCHANGED got
     \/ /\ Wire[c] = "sse" /\ sock[c] = "open"
        /\ Write(c, job, FALSE)
        /\ chunks' = chunks + 1
        /\ pc' = "turn"
        /\ UNCHANGED frames
     \/ /\ Wire[c] = "sse" /\ sock[c] = "gone" /\ chunks < MaxChunks  \* taken, and lost
        /\ chunks' = chunks + 1
        /\ pc' = "turn"
        /\ UNCHANGED <<got, frames>>
     \/ /\ Lost(c)
        /\ pc' = "over"
        /\ UNCHANGED <<got, frames, chunks>>
  /\ UNCHANGED <<asked, sock, inbox, at, turns, cancel, queue, job, acked, exited>>

\* The brain is done with the turn, or the backend with the op.
Finish ==
  /\ ~exited /\ pc \in {"turn", "work"}
  /\ pc' = "over"
  /\ UNCHANGED <<asked, threads, queue, job, chunks, acked, exited>>

\* Mutant of Without: the id stays on the map.
Kept(r) == turns

\* The map once r is over: its id is off, whichever request is under it by now.
Without(r) ==
  IF Wire[Conn(r)] = "ws" /\ Id(r) # NoId THEN [turns EXCEPT ![Conn(r)][Id(r)] = 0] ELSE turns

Forget ==
  /\ Running("over")
  /\ turns' = Without(job)
  /\ pc' = "reply"
  /\ UNCHANGED <<asked, sock, inbox, got, at, frames, cancel, queue, job, chunks, acked, exited>>

\* The reply, last.  After one to daemon.stop the process ends, for a WebSocket
\* once the frame has left its thread.
Reply ==
  LET c    == Conn(job)
      stop == Op(job) = "daemon.stop" IN
  /\ Running("reply")
  /\ \/ /\ Wire[c] = "ws"
        /\ frames' = IF Listening(c)
                       THEN [frames EXCEPT ![c] = Append(@, [req |-> job, last |-> TRUE])]
                       ELSE frames
        /\ pc' = IF stop THEN "ack" ELSE "idle"
        /\ job' = IF stop THEN job ELSE 0
        /\ UNCHANGED <<got, exited>>
     \/ /\ Wire[c] # "ws"
        /\ IF sock[c] = "open" THEN Write(c, job, TRUE) ELSE UNCHANGED got
        /\ pc' = "idle" /\ job' = 0
        /\ exited' = stop
        /\ UNCHANGED frames
  /\ UNCHANGED <<asked, sock, inbox, at, turns, cancel, queue, chunks, acked>>

\* The wait for that runs out, after two seconds with the thread stuck in a write.
WaitRunsOut ==
  /\ Running("ack")
  /\ pc' = "late"
  /\ UNCHANGED <<asked, threads, queue, job, chunks, acked, exited>>

\* Mutant of Exit: no wait.
ExitAtOnce ==
  /\ ~exited /\ pc \in {"ack", "late"}
  /\ exited' = TRUE
  /\ UNCHANGED <<asked, threads, queue, job, pc, chunks, acked>>

\* The wait is over when the thread says so, or when it is gone, or late.
Exit ==
  /\ ~exited
  /\ \/ pc = "ack" /\ (acked \/ ~Listening(Conn(job)))
     \/ pc = "late"
  /\ exited' = TRUE
  /\ UNCHANGED <<asked, threads, queue, job, pc, chunks, acked>>

\* A panic in the backend ends the dispatcher thread, and the queue with it; the
\* process and its other threads go on.
Panic ==
  /\ CanPanic /\ ~exited /\ pc \in {"turn", "work"}
  /\ pc' = "dead" /\ job' = 0 /\ queue' = <<>>
  /\ UNCHANGED <<asked, threads, chunks, acked, exited>>

---------------------------------------------------------------------------
Init ==
  /\ asked = <<>>
  /\ sock   = [c \in Conns |-> "open"]
  /\ inbox  = [c \in Conns |-> <<>>]
  /\ got    = [c \in Conns |-> <<>>]
  /\ at     = [c \in Conns |-> "drain"]
  /\ frames = [c \in Conns |-> <<>>]
  /\ turns  = [c \in Conns |-> [i \in Ids |-> 0]]
  /\ cancel = {}
  /\ queue = <<>> /\ job = 0 /\ pc = "idle" /\ chunks = 0
  /\ acked = FALSE /\ exited = FALSE

Client(c) ==
  \/ \E op \in AllOps, id \in Ids \union {NoId} : Ask(c, op, id)
  \/ HangUp(c)

Thread(c) ==
  \/ WsWrite(c) \/ WsDrained(c) \/ WsTick(c) \/ WsStop(c) \/ WsRequest(c) \/ WsClosed(c)
  \/ LineRequest(c) \/ LineClosed(c) \/ HttpRequest(c)

\* What the dispatcher does on its own, whatever the brain does.
Serve == Take \/ SinkRefuses \/ SendChunk \/ Forget \/ Reply \/ Exit

Next ==
  \/ \E c \in Conns : Client(c) \/ Thread(c)
  \/ Serve \/ SinkTakes \/ Finish \/ WaitRunsOut \/ Panic

\* Threads are scheduled, clients are not obliged to do anything, and a brain goes
\* on handing pieces to its sink; nothing says it ever comes to an end.
Fairness ==
  /\ WF_vars(Serve)
  /\ WF_vars(SinkTakes)
  /\ \A c \in Conns : WF_vars(Thread(c))

Spec     == Init /\ [][Next]_vars
FairSpec == Spec /\ Fairness

---------------------------------------------------------------------------
(* Properties.                                                             *)

TypeOK ==
  /\ asked \in Seq(Request) /\ Len(asked) <= MaxAsk
  /\ sock   \in [Conns -> {"open", "gone"}]
  /\ inbox  \in [Conns -> Seq(Reqs)]
  /\ got    \in [Conns -> Seq(Frame)]
  /\ at     \in [Conns -> {"drain", "read", "end"}]
  /\ frames \in [Conns -> Seq(Frame)]
  /\ turns  \in [Conns -> [Ids -> Reqs \union {0}]]
  /\ cancel \subseteq Reqs
  /\ queue  \in Seq(Reqs)
  /\ job    \in Reqs \union {0}
  /\ pc     \in {"idle", "turn", "send", "work", "over", "reply", "ack", "late", "dead"}
  /\ chunks \in 0 .. MaxChunks
  /\ acked \in BOOLEAN /\ exited \in BOOLEAN

\* server.rs:36-46: the reply to a request is the last thing a client is sent for it,
\* after every piece of the turn, and comes once; and what a client is sent comes in
\* the order of its requests, but for the stops, which its own thread answers at once,
\* and for the refusals after a panic, which overtake frames still in the channel.
FramesInOrder ==
  \A c \in Conns : \A i, j \in 1 .. Len(got[c]) : i < j =>
    LET first == got[c][i]
        then  == got[c][j]
    IN /\ first.last => then.req # first.req
       /\ DispatcherAlive /\ Op(first.req) # "stop" /\ Op(then.req) # "stop"
            => first.req <= then.req

\* A job of connection c a stop should find: queued, or run and not yet over.
Pending(c) ==
  {r \in 1 .. Len(asked) :
     /\ Conn(r) = c
     /\ \/ \E i \in 1 .. Len(queue) : queue[i] = r
        \/ job = r /\ pc \in {"turn", "send", "work", "over"}}

\* A client numbers its requests apart, as the frames' ids are meant.
NumbersApart(c) ==
  \A r, q \in 1 .. Len(asked) :
    (Conn(r) = c /\ Conn(q) = c /\ Id(r) = Id(q) /\ Id(r) # NoId
       /\ Op(r) # "stop" /\ Op(q) # "stop") => r = q

\* server.rs:33, 105-107: whatever ids a client uses again, the map of turns never holds
\* a turn that is over, so a stop does not count one; and if the client numbers its
\* requests apart the map holds all that is pending under an id, so a stop finds the
\* turn it means.
TurnsArePending ==
  DispatcherAlive /\ ~exited =>
    \A c \in Conns : Wire[c] = "ws" =>
      LET found == {turns[c][i] : i \in Ids} \ {0}
          meant == {r \in Pending(c) : Id(r) # NoId}
      IN found \subseteq meant /\ (NumbersApart(c) => found = meant)

\* server.rs:33, 359-361: a turn is told to stop only if its client hung up, or sent
\* after it a stop that names its id or none; never by a stop of another
\* connection's, of another id, or of before it was asked.
StopsAreMeant ==
  \A r \in cancel :
    \/ sock[Conn(r)] = "gone"
    \/ \E q \in r + 1 .. Len(asked) :
         Conn(q) = Conn(r) /\ Op(q) = "stop" /\ Id(q) \in {NoId, Id(r)}

\* server.rs:180-182: the process does not end with the reply to daemon.stop still
\* in a channel, unless the client that asked has gone or the wait ran out.
StopIsAnsweredFirst ==
  [][exited' /\ ~exited /\ pc # "late" =>
       \/ Wire[Conn(job)] # "ws"
       \/ sock[Conn(job)] = "gone"
       \/ \E i \in 1 .. Len(got[Conn(job)]) : got[Conn(job)][i] = [req |-> job, last |-> TRUE]]_vars

\* server.rs:36-46, 52-53: seen from its clients, what the threads, the channels and
\* the dispatcher do is serve each connection's requests in turn, passing none over.
Clients == INSTANCE Service WITH
  there <- [c \in Conns |-> sock[c] = "open"],
  told  <- got,
  up    <- DispatcherAlive

ServesInTurn == Clients!Spec

\* server.rs:33, 47-49: a turn told to stop ends, and so does one whose client hung up,
\* however long the brain would go on, so the dispatcher is free for the others.
UnwantedTurnsEnd ==
  \A r \in Reqs :
    (job = r /\ Streams(r) /\ (r \in cancel \/ sock[Conn(r)] = "gone")) ~> (job # r \/ exited)

Replied(r) == \E c \in Conns : \E i \in 1 .. Len(got[c]) : got[c][i] = [req |-> r, last |-> TRUE]

\* server.rs:16-26: as long as no request occupies the backend for ever, every
\* request is answered if its client stays, unless the process was told to stop or
\* the backend panicked.
EveryoneAnswered ==
  WF_vars(Finish) =>
    \A r \in Reqs :
      (r <= Len(asked)) ~>
        (Replied(r) \/ exited \/ pc = "dead" \/ (r <= Len(asked) /\ sock[Conn(r)] = "gone"))

Unread(r) == r \in 1 .. Len(asked) /\ \E i \in 1 .. Len(inbox[Conn(r)]) : inbox[Conn(r)][i] = r

\* server.rs:293-302, 437-453: a panic in the backend leaves the process accepting, and then
\* nobody is left waiting whose request it reads: it is refused, or its connection is
\* closed.
RefusedAfterPanic ==
  \A r \in Reqs :
    (pc = "dead" /\ Unread(r)) ~>
      (Replied(r) \/ (r \in 1 .. Len(asked) /\ ~Listening(Conn(r))))

=============================================================================
