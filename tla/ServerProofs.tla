---------------------------- MODULE ServerProofs ----------------------------
(***************************************************************************)
(* The safety properties of module Server, for any connections, ids and    *)
(* bounds: order of frames, what the map of turns holds, who is told to    *)
(* stop, and the answer to daemon.stop.  None is inductive.  All of them   *)
(* rest on where a request is: in the inbox, the queue, at the dispatcher, *)
(* or in frames; on requests of one connection never overtaking each       *)
(* other on that way; and on two threads writing to one connection without *)
(* ever writing for the same request.  With no request lost on that way,   *)
(* Server implements module Service.                                       *)
(***************************************************************************)
EXTENDS Server, SequenceTheorems, TLAPS

Items(s) == {s[i] : i \in 1 .. Len(s)}
Known    == 1 .. Len(asked)

\* What a connection's client has been sent, or will be.
Sent(c) == Items(got[c]) \union Items(frames[c])

\* Requests, frames and turns are at the connection they belong to; what is queued or
\* run is no stop.
Belongs ==
  /\ \A c \in Conns : /\ \A r \in Items(inbox[c]) : r \in Known /\ Conn(r) = c
                      /\ \A f \in Sent(c) : f.req \in Known /\ Conn(f.req) = c
                      /\ \A i \in Ids : turns[c][i] # 0 =>
                           /\ turns[c][i] \in Known /\ Conn(turns[c][i]) = c
                           /\ Id(turns[c][i]) = i
  /\ \A r \in Items(queue) : r \in Known /\ Op(r) # "stop"
  /\ job # 0 => job \in Known /\ Op(job) # "stop"
  /\ cancel \subseteq Known

\* What each wire is used for, and that a WebSocket's thread only ends once its client
\* has gone.
Wires ==
  /\ \A r \in Known : Op(r) = "stop" => Wire[Conn(r)] = "ws"
  /\ \A c \in Conns : /\ Wire[c] # "ws" => frames[c] = <<>> /\ at[c] # "read"
                      /\ Wire[c] = "ws" /\ at[c] = "end" => sock[c] = "gone"

\* What the place the dispatcher is at says of its job.
JobFits ==
  /\ job = 0 <=> pc \in {"idle", "dead"}
  /\ pc \in {"turn", "send"} => Streams(job)
  /\ pc = "send" => chunks < MaxChunks \/ Lost(Conn(job))
  /\ pc \in {"ack", "late"} => Op(job) = "daemon.stop" /\ Wire[Conn(job)] = "ws"
  /\ pc = "dead" => queue = <<>>

Increasing(s) == \A i, j \in 1 .. Len(s) : i < j => s[i] < s[j]

InLine(s) == \A i, j \in 1 .. Len(s) : i < j /\ Conn(s[i]) = Conn(s[j]) => s[i] < s[j]

\* Requests of a connection keep their order on the way to the dispatcher, and what is
\* still to be read comes after everything else.
Lined ==
  /\ \A c \in Conns : Increasing(inbox[c])
  /\ InLine(queue)
  /\ job # 0 => \A q \in Items(queue) : Conn(q) = Conn(job) => job < q
  /\ \A c \in Conns : \A r \in Items(inbox[c]) :
       /\ \A q \in Items(queue) : Conn(q) = c => q < r
       /\ job # 0 /\ Conn(job) = c => job < r
       /\ \A i \in Ids : turns[c][i] < r
       /\ \A f \in Sent(c) : f.req < r

\* What FramesInOrder says of two frames, the first of them before the other.
Fits(f, g) ==
  /\ f.last => g.req # f.req
  /\ DispatcherAlive /\ Op(f.req) # "stop" /\ Op(g.req) # "stop" => f.req <= g.req

InOrder(s) == \A i, j \in 1 .. Len(s) : i < j => Fits(s[i], s[j])

\* Frames are in order, also those still in a channel; and what has been sent for is
\* behind what is to be run, its reply a sign that it is over.
Delivery ==
  \A c \in Conns :
    /\ InOrder(got[c]) /\ InOrder(frames[c])
    /\ \A f \in Items(got[c]), g \in Items(frames[c]) : Fits(f, g)
    /\ \A g \in Items(frames[c]) : Op(g.req) # "stop"
    /\ \A f \in Sent(c) : Op(f.req) # "stop" =>
         /\ \A q \in Items(queue) : Conn(q) = c => f.req < q
         /\ job # 0 /\ Conn(job) = c =>
              f.req <= job /\ (f.last /\ f.req = job => pc \in {"ack", "late"})

\* A reply to daemon.stop in a channel is the one waited for, and once one has left it,
\* its client has it or has gone.
Acks ==
  /\ \A c \in Conns : \A g \in Items(frames[c]) :
       g.last /\ Op(g.req) = "daemon.stop" => g.req = job /\ pc \in {"ack", "late"}
  /\ acked => /\ pc \in {"ack", "late"}
              /\ \/ sock[Conn(job)] = "gone"
                 \/ [req |-> job, last |-> TRUE] \in Items(got[Conn(job)])

\* As long as the dispatcher lives, a request of a client that is there is on its way,
\* or its reply is.
NoneLost ==
  DispatcherAlive => \A r \in Known : sock[Conn(r)] = "open" =>
    \/ r \in Items(inbox[Conn(r)]) \/ r \in Items(queue) \/ r = job
    \/ [req |-> r, last |-> TRUE] \in Sent(Conn(r))

\* Only turns have pieces.
PiecesOfTurns == \A c \in Conns : \A f \in Sent(c) : ~f.last => Op(f.req) = "chat"

Base == TypeOK /\ Belongs /\ Wires /\ JobFits
IInv == Base /\ Lined /\ Delivery /\ Acks /\ StopsAreMeant /\ TurnsArePending

---------------------------------------------------------------------------
(* Sequences and what is in them.                                          *)

\* Nothing is in the empty sequence.
LEMMA ItemsEmpty == Items(<<>>) = {}
BY DEF Items

\* What is in a sequence is of its type.
LEMMA ItemsTyped ==
  ASSUME NEW S, NEW s \in Seq(S) PROVE Items(s) \subseteq S
BY DEF Items

\* Requests are numbers, in the order they were sent.
LEMMA ReqsAreNat == ASSUME NEW s \in Seq(Reqs) PROVE s \in Seq(Nat)
<1>1. Reqs \subseteq Nat
  BY SwitchesAndBounds DEF Reqs
<1> QED BY <1>1, SeqMonotonic

\* Appending adds one item.
LEMMA ItemsAppend ==
  ASSUME NEW S, NEW s \in Seq(S), NEW x \in S
  PROVE  Append(s, x) \in Seq(S) /\ Items(Append(s, x)) = Items(s) \union {x}
<1> DEFINE t == Append(s, x)
<1>1. /\ t \in Seq(S) /\ Len(t) = Len(s) + 1 /\ t[Len(s) + 1] = x /\ Len(s) \in Nat
      /\ \A i \in 1 .. Len(s) : t[i] = s[i]
  OBVIOUS
<1>2. ASSUME NEW i \in 1 .. Len(t) PROVE t[i] \in Items(s) \union {x}
  <2>1. CASE i \in 1 .. Len(s)
    BY <1>1, <2>1 DEF Items
  <2>2. CASE i = Len(s) + 1
    BY <1>1, <2>2
  <2> QED BY <1>1, <2>1, <2>2
<1>3. ASSUME NEW y \in Items(s) PROVE y \in Items(t)
  <2>1. PICK i \in 1 .. Len(s) : y = s[i]
    BY DEF Items
  <2>2. i \in 1 .. Len(t) /\ t[i] = y
    BY <1>1, <2>1
  <2> QED BY <2>2 DEF Items
<1>4. x \in Items(t)
  BY <1>1 DEF Items
<1>5. Items(t) \subseteq Items(s) \union {x}
  BY <1>2 DEF Items
<1> QED BY <1>1, <1>3, <1>4, <1>5

\* Where the items of a sequence are once its head is off.
LEMMA TailAt ==
  ASSUME NEW S, NEW s \in Seq(S), s # <<>>
  PROVE  /\ Head(s) = s[1] /\ Head(s) \in S /\ Tail(s) \in Seq(S)
         /\ Len(s) \in Nat /\ Len(s) > 0 /\ Len(Tail(s)) = Len(s) - 1
         /\ \A i \in 1 .. Len(Tail(s)) : Tail(s)[i] = s[i + 1] /\ i + 1 \in 1 .. Len(s)
OBVIOUS

\* Taking the head off leaves items that were there.
LEMMA ItemsTail ==
  ASSUME NEW S, NEW s \in Seq(S), s # <<>>
  PROVE  Head(s) \in Items(s) /\ Items(Tail(s)) \subseteq Items(s)
<1>1. Head(s) \in Items(s)
  BY TailAt DEF Items
<1>2. ASSUME NEW i \in 1 .. Len(Tail(s)) PROVE Tail(s)[i] \in Items(s)
  BY TailAt DEF Items
<1> QED BY <1>1, <1>2 DEF Items

\* A sequence that increases still does without its head, which is the least.
LEMMA IncreasingTail ==
  ASSUME NEW s \in Seq(Nat), s # <<>>, Increasing(s)
  PROVE  Increasing(Tail(s)) /\ \A r \in Items(Tail(s)) : Head(s) < r
<1>1. Increasing(Tail(s))
  BY TailAt DEF Increasing
<1>2. ASSUME NEW i \in 1 .. Len(Tail(s)) PROVE Head(s) < Tail(s)[i]
  BY TailAt DEF Increasing
<1> QED BY <1>1, <1>2 DEF Items

\* A sequence that increases takes something greater than all of it.
LEMMA IncreasingAppend ==
  ASSUME NEW s \in Seq(Nat), NEW x \in Nat, Increasing(s), \A r \in Items(s) : r < x
  PROVE  Increasing(Append(s, x))
<1> DEFINE t == Append(s, x)
<1>1. /\ Len(t) = Len(s) + 1 /\ t[Len(s) + 1] = x /\ Len(s) \in Nat
      /\ \A i \in 1 .. Len(s) : t[i] = s[i]
  OBVIOUS
<1> SUFFICES ASSUME NEW i \in 1 .. Len(t), NEW j \in 1 .. Len(t), i < j PROVE t[i] < t[j]
  BY DEF Increasing
<1>2. i \in 1 .. Len(s)
  BY <1>1
<1>3. CASE j \in 1 .. Len(s)
  BY <1>1, <1>2, <1>3 DEF Increasing
<1>4. CASE j = Len(s) + 1
  BY <1>1, <1>2, <1>4 DEF Items
<1> QED BY <1>1, <1>3, <1>4

\* A queue in which no connection's requests overtake each other.
LEMMA InLineTail ==
  ASSUME NEW s \in Seq(Nat), s # <<>>, InLine(s)
  PROVE  InLine(Tail(s)) /\ \A r \in Items(Tail(s)) : Conn(r) = Conn(Head(s)) => Head(s) < r
<1>1. InLine(Tail(s))
  BY TailAt DEF InLine
<1>2. ASSUME NEW i \in 1 .. Len(Tail(s)), Conn(Tail(s)[i]) = Conn(Head(s))
      PROVE  Head(s) < Tail(s)[i]
  BY <1>2, TailAt DEF InLine
<1> QED BY <1>1, <1>2 DEF Items

\* The queue takes a request that is later than all of its connection's in it.
LEMMA InLineAppend ==
  ASSUME NEW s \in Seq(Nat), NEW x \in Nat, InLine(s),
         \A r \in Items(s) : Conn(r) = Conn(x) => r < x
  PROVE  InLine(Append(s, x))
<1> DEFINE t == Append(s, x)
<1>1. /\ Len(t) = Len(s) + 1 /\ t[Len(s) + 1] = x /\ Len(s) \in Nat
      /\ \A i \in 1 .. Len(s) : t[i] = s[i]
  OBVIOUS
<1> SUFFICES ASSUME NEW i \in 1 .. Len(t), NEW j \in 1 .. Len(t), i < j, Conn(t[i]) = Conn(t[j])
             PROVE  t[i] < t[j]
  BY DEF InLine
<1>2. i \in 1 .. Len(s)
  BY <1>1
<1>3. CASE j \in 1 .. Len(s)
  BY <1>1, <1>2, <1>3 DEF InLine
<1>4. CASE j = Len(s) + 1
  BY <1>1, <1>2, <1>4 DEF Items
<1> QED BY <1>1, <1>3, <1>4

\* Frames in order.
LEMMA InOrderTail ==
  ASSUME NEW s \in Seq(Frame), s # <<>>, InOrder(s)
  PROVE  InOrder(Tail(s)) /\ \A f \in Items(Tail(s)) : Fits(Head(s), f)
<1>1. InOrder(Tail(s))
  BY TailAt DEF InOrder
<1>2. ASSUME NEW i \in 1 .. Len(Tail(s)) PROVE Fits(Head(s), Tail(s)[i])
  BY TailAt DEF InOrder
<1> QED BY <1>1, <1>2 DEF Items

\* Frames stay in order with one that fits behind each of them.
LEMMA InOrderAppend ==
  ASSUME NEW s \in Seq(Frame), NEW x \in Frame, InOrder(s), \A f \in Items(s) : Fits(f, x)
  PROVE  InOrder(Append(s, x))
<1> DEFINE t == Append(s, x)
<1>1. /\ Len(t) = Len(s) + 1 /\ t[Len(s) + 1] = x /\ Len(s) \in Nat
      /\ \A i \in 1 .. Len(s) : t[i] = s[i]
  OBVIOUS
<1> SUFFICES ASSUME NEW i \in 1 .. Len(t), NEW j \in 1 .. Len(t), i < j PROVE Fits(t[i], t[j])
  BY DEF InOrder
<1>2. i \in 1 .. Len(s)
  BY <1>1
<1>3. CASE j \in 1 .. Len(s)
  BY <1>1, <1>2, <1>3 DEF InOrder
<1>4. CASE j = Len(s) + 1
  BY <1>1, <1>2, <1>4 DEF Items
<1> QED BY <1>1, <1>3, <1>4

---------------------------------------------------------------------------
(* The first states.                                                       *)

\* The daemon starts with the types.
LEMMA InitTyped == Init => TypeOK
<1> SUFFICES ASSUME Init PROVE TypeOK
  OBVIOUS
<1>1. /\ asked \in Seq(Request) /\ Len(asked) = 0 /\ queue \in Seq(Reqs)
      /\ inbox \in [Conns -> Seq(Reqs)] /\ got \in [Conns -> Seq(Frame)]
      /\ frames \in [Conns -> Seq(Frame)]
  BY DEF Init
<1>2. turns \in [Conns -> [Ids -> Reqs \union {0}]]
  BY DEF Init
<1>3. Len(asked) <= MaxAsk /\ chunks \in 0 .. MaxChunks
  BY <1>1, SwitchesAndBounds DEF Init
<1>4. /\ sock \in [Conns -> {"open", "gone"}] /\ at \in [Conns -> {"drain", "read", "end"}]
      /\ cancel \subseteq Reqs /\ job \in Reqs \union {0}
  BY DEF Init
<1>5. /\ pc \in {"idle", "turn", "send", "work", "over", "reply", "ack", "late", "dead"}
      /\ acked \in BOOLEAN /\ exited \in BOOLEAN
  BY DEF Init
<1> QED BY <1>1, <1>2, <1>3, <1>4, <1>5, Zenon DEF TypeOK

\* The daemon starts with the invariant.
LEMMA InitInv == Init => IInv
<1> SUFFICES ASSUME Init PROVE IInv
  OBVIOUS
<1>1. /\ Len(asked) = 0 /\ Known = {} /\ Items(queue) = {} /\ Len(queue) = 0
      /\ \A c \in Conns : /\ Len(inbox[c]) = 0 /\ Len(got[c]) = 0 /\ Len(frames[c]) = 0
                          /\ Items(inbox[c]) = {} /\ Items(got[c]) = {} /\ Items(frames[c]) = {}
                          /\ Sent(c) = {}
  BY ItemsEmpty DEF Init, Known, Sent
<1>2. Belongs
  BY <1>1 DEF Init, Belongs
<1>3. Wires
  BY <1>1 DEF Init, Wires
<1>4. JobFits
  BY DEF Init, JobFits
<1>5. Lined
  BY <1>1 DEF Init, Lined, Increasing, InLine
<1>6. Delivery
  <2>1. ASSUME NEW c \in Conns PROVE InOrder(got[c]) /\ InOrder(frames[c])
    BY <1>1 DEF InOrder
  <2> QED BY <1>1, <2>1, Zenon DEF Delivery
<1>7. Acks
  BY <1>1 DEF Init, Acks
<1>8. StopsAreMeant
  BY DEF Init, StopsAreMeant
<1>9. TurnsArePending
  <2>1. ASSUME NEW c \in Conns PROVE {turns[c][i] : i \in Ids} \ {0} = {} /\ Pending(c) = {}
    BY <1>1 DEF Init, Pending, Known
  <2> QED BY <2>1 DEF TurnsArePending
<1> QED BY <1>2, <1>3, <1>4, <1>5, <1>6, <1>7, <1>8, <1>9, InitTyped DEF IInv, Base

---------------------------------------------------------------------------
(* What a step finds.                                                      *)

\* What a request that has been sent says.
LEMMA KnownTyped ==
  ASSUME TypeOK, NEW r \in Known
  PROVE  r \in Reqs /\ r \in Nat /\ r > 0 /\ Conn(r) \in Conns /\ Id(r) \in Ids \union {NoId}
           /\ Op(r) \in AllOps
<1>1. Len(asked) \in Nat /\ Len(asked) <= MaxAsk /\ asked[r] \in Request
  BY DEF TypeOK, Known
<1> QED BY <1>1, SwitchesAndBounds DEF Known, Reqs, Request, Conn, Id, Op

\* The request at the head of a socket is one that was sent on it.
LEMMA InboxHead ==
  ASSUME TypeOK, Belongs, NEW c \in Conns, inbox[c] # <<>>
  PROVE  /\ Head(inbox[c]) \in Known /\ Head(inbox[c]) \in Reqs /\ Conn(Head(inbox[c])) = c
         /\ Head(inbox[c]) \in Items(inbox[c]) /\ Tail(inbox[c]) \in Seq(Reqs)
         /\ Items(Tail(inbox[c])) \subseteq Items(inbox[c])
<1>1. inbox[c] \in Seq(Reqs)
  BY DEF TypeOK
<1> QED BY <1>1, ItemsTail, TailAt, KnownTyped DEF Belongs

\* The frame at the head of a channel is for a request of that connection.
LEMMA FramesHead ==
  ASSUME TypeOK, Belongs, NEW c \in Conns, frames[c] # <<>>
  PROVE  /\ Head(frames[c]) \in Frame /\ Head(frames[c]).req \in Known
         /\ Conn(Head(frames[c]).req) = c /\ Head(frames[c]) \in Items(frames[c])
         /\ Tail(frames[c]) \in Seq(Frame) /\ Items(Tail(frames[c])) \subseteq Items(frames[c])
<1>1. frames[c] \in Seq(Frame)
  BY DEF TypeOK
<1> QED BY <1>1, ItemsTail, TailAt DEF Belongs, Sent

\* The request at the head of the queue was sent, and is no stop.
LEMMA QueueHead ==
  ASSUME TypeOK, Belongs, queue # <<>>
  PROVE  /\ Head(queue) \in Known /\ Head(queue) \in Reqs /\ Head(queue) \in Items(queue)
         /\ Op(Head(queue)) # "stop"
         /\ Tail(queue) \in Seq(Reqs) /\ Items(Tail(queue)) \subseteq Items(queue)
<1>1. queue \in Seq(Reqs)
  BY DEF TypeOK
<1> QED BY <1>1, ItemsTail, TailAt, KnownTyped DEF Belongs

\* Queueing adds the one request.
LEMMA QueuedTyped ==
  ASSUME TypeOK, NEW r \in Reqs
  PROVE  Queued(r) \in Seq(Reqs) /\ Items(Queued(r)) = Items(queue) \union {r}
BY ItemsAppend DEF TypeOK, Queued

\* A frame put at the end of what one connection has been given.
LEMMA FrameAppended ==
  ASSUME NEW G \in [Conns -> Seq(Frame)], NEW c \in Conns, NEW f \in Frame,
         NEW H, H = [G EXCEPT ![c] = Append(@, f)]
  PROVE  /\ H \in [Conns -> Seq(Frame)] /\ H[c] = Append(G[c], f)
         /\ Items(H[c]) = Items(G[c]) \union {f}
         /\ \A d \in Conns : d # c => H[d] = G[d]
<1>1. G[c] \in Seq(Frame)
  OBVIOUS
<1>2. Append(G[c], f) \in Seq(Frame) /\ Items(Append(G[c], f)) = Items(G[c]) \union {f}
  BY <1>1, ItemsAppend
<1> QED BY <1>2

\* A request answered by the thread that read it.
LEMMA Answered ==
  ASSUME TypeOK, NEW c \in Conns, NEW r \in Reqs, AnswerHere(c, r)
  PROVE  /\ at' \in [Conns -> {"drain", "read", "end"}]
         /\ \A d \in Conns : d # c => at'[d] = at[d]
         /\ at'[c] # "read" /\ (at'[c] = "end" => sock[c] = "gone")
         /\ got' \in [Conns -> Seq(Frame)] /\ frames' \in [Conns -> Seq(Frame)]
         /\ \/ got' = [got EXCEPT ![c] = Append(@, [req |-> r, last |-> TRUE])] /\ frames' = frames
            \/ got' = got /\ frames' = frames
            \/ got' = got /\ frames' = [frames EXCEPT ![c] = <<>>]
<1>1. [req |-> r, last |-> TRUE] \in Frame
  BY DEF Frame
<1>2. CASE sock[c] = "open" /\ Write(c, r, TRUE) /\ at' = [at EXCEPT ![c] = "drain"] /\ UNCHANGED frames
  BY <1>1, <1>2, FrameAppended DEF Write, TypeOK
<1>3. CASE sock[c] = "gone" /\ UNCHANGED <<got, frames>> /\ at' = [at EXCEPT ![c] = "drain"]
  BY <1>3 DEF TypeOK
<1>4. CASE sock[c] = "gone" /\ UNCHANGED got /\ EndThread(c)
  BY <1>4 DEF EndThread, TypeOK
<1> QED BY <1>2, <1>3, <1>4 DEF AnswerHere

---------------------------------------------------------------------------
(* Every action keeps the type of what it changes.                         *)

\* What a client does keeps the types.
LEMMA ClientTyped ==
  ASSUME Base, NEW c \in Conns, Client(c) PROVE TypeOK'
<1> USE DEF Base
<1>1. ASSUME NEW op \in AllOps, NEW id \in Ids \union {NoId}, Ask(c, op, id) PROVE TypeOK'
  <2>1. /\ asked \in Seq(Request) /\ Len(asked) < MaxAsk /\ inbox[c] \in Seq(Reqs)
        /\ asked' = Append(asked, [conn |-> c, id |-> id, op |-> op])
        /\ inbox' = [inbox EXCEPT ![c] = Append(@, Len(asked) + 1)]
        /\ UNCHANGED <<sock, got, at, frames, turns, cancel, disp>>
    BY <1>1 DEF Ask, TypeOK
  <2>2. asked' \in Seq(Request) /\ Len(asked') = Len(asked) + 1 /\ Len(asked) \in Nat
    <3>1. [conn |-> c, id |-> id, op |-> op] \in Request
      BY DEF Request
    <3> QED BY <2>1, <3>1
  <2>3. Len(asked) + 1 \in Reqs /\ Len(asked') <= MaxAsk
    BY <2>1, <2>2, SwitchesAndBounds DEF Reqs
  <2>4. Append(inbox[c], Len(asked) + 1) \in Seq(Reqs)
    BY <2>1, <2>3
  <2>5. inbox' \in [Conns -> Seq(Reqs)]
    BY <2>1, <2>4 DEF TypeOK
  <2> QED BY <2>1, <2>2, <2>3, <2>5 DEF TypeOK, disp
<1>2. CASE HangUp(c)
  <2>1. inbox' \in [Conns -> Seq(Reqs)]
    <3>1. <<>> \in Seq(Reqs)
      OBVIOUS
    <3>2. [inbox EXCEPT ![c] = <<>>] \in [Conns -> Seq(Reqs)]
      BY <3>1 DEF TypeOK
    <3> QED BY <1>2, <3>2 DEF HangUp, TypeOK
  <2> QED BY <1>2, <2>1 DEF HangUp, TypeOK, disp
<1> QED BY <1>1, <1>2 DEF Client

\* What a connection's thread does keeps the types.
LEMMA ThreadTyped ==
  ASSUME Base, NEW c \in Conns, Thread(c) PROVE TypeOK'
<1> USE DEF Base
<1>0. ASSUME inbox[c] # <<>>, NEW ib, ib = [inbox EXCEPT ![c] = Tail(@)]
      PROVE  ib \in [Conns -> Seq(Reqs)]
  BY <1>0, InboxHead DEF TypeOK
<1>00. [frames EXCEPT ![c] = <<>>] \in [Conns -> Seq(Frame)]
  BY DEF TypeOK
<1>1. CASE WsWrite(c)
  <2>1. frames[c] # <<>>
    BY <1>1 DEF WsWrite
  <2>2. /\ Head(frames[c]) \in Frame
        /\ Head(frames[c]) = [req |-> Head(frames[c]).req, last |-> Head(frames[c]).last]
        /\ [frames EXCEPT ![c] = Tail(@)] \in [Conns -> Seq(Frame)]
    BY <2>1, FramesHead DEF TypeOK, Frame
  <2>3. frames' \in [Conns -> Seq(Frame)] /\ at' \in [Conns -> {"drain", "read", "end"}]
    BY <1>1, <1>00, <2>2 DEF WsWrite, EndThread, TypeOK
  <2>4. got' \in [Conns -> Seq(Frame)]
    <3>1. CASE Write(c, Head(frames[c]).req, Head(frames[c]).last)
      BY <2>2, <3>1, FrameAppended DEF Write, TypeOK
    <3> QED BY <1>1, <3>1 DEF WsWrite, TypeOK
  <2>5. acked' \in BOOLEAN
    BY <1>1 DEF WsWrite
  <2> QED BY <1>1, <2>3, <2>4, <2>5 DEF WsWrite, TypeOK
<1>2. CASE WsDrained(c) \/ WsTick(c)
  BY <1>2 DEF WsDrained, WsTick, TypeOK, disp
<1>3. CASE WsStop(c)
  <2>1. inbox[c] # <<>> /\ inbox' = [inbox EXCEPT ![c] = Tail(@)]
    BY <1>3 DEF WsStop
  <2>2. Head(inbox[c]) \in Reqs /\ AnswerHere(c, Head(inbox[c]))
    BY <1>3, <2>1, InboxHead DEF WsStop
  <2>3. cancel' \subseteq Reqs
    <3>1. Stopped(c, Id(Head(inbox[c]))) \subseteq Reqs
      <4>1. (IF Id(Head(inbox[c])) = NoId THEN Ids ELSE {Id(Head(inbox[c]))}) \subseteq Ids
        BY <2>1, InboxHead, KnownTyped
      <4> QED BY <4>1 DEF Stopped, TypeOK
    <3> QED BY <1>3, <3>1 DEF WsStop, TypeOK
  <2> QED BY <1>0, <1>3, <2>1, <2>2, <2>3, Answered DEF WsStop, TypeOK, disp
<1>4. CASE WsRequest(c)
  <2>1. inbox[c] # <<>> /\ inbox' = [inbox EXCEPT ![c] = Tail(@)]
    BY <1>4 DEF WsRequest
  <2>2. Head(inbox[c]) \in Reqs /\ Id(Head(inbox[c])) \in Ids \union {NoId}
    BY <2>1, InboxHead, KnownTyped
  <2>3. turns' \in [Conns -> [Ids -> Reqs \union {0}]]
    BY <1>4, <2>2 DEF WsRequest, TypeOK
  <2>4. /\ queue' \in Seq(Reqs) /\ at' \in [Conns -> {"drain", "read", "end"}]
        /\ got' \in [Conns -> Seq(Frame)] /\ frames' \in [Conns -> Seq(Frame)]
    <3>1. CASE DispatcherAlive
      BY <1>4, <2>2, <3>1, QueuedTyped DEF WsRequest, TypeOK
    <3>2. CASE ~DispatcherAlive
      BY <1>4, <2>2, <3>2, Answered DEF WsRequest, TypeOK
    <3> QED BY <3>1, <3>2
  <2> QED BY <1>0, <1>4, <2>1, <2>3, <2>4 DEF WsRequest, TypeOK
<1>5. CASE WsClosed(c)
  <2>1. cancel' \subseteq Reqs
    BY <1>5 DEF WsClosed, Stopped, TypeOK
  <2> QED BY <1>5, <1>00, <2>1 DEF WsClosed, EndThread, TypeOK, disp
<1>6. CASE LineRequest(c)
  <2>1. inbox[c] # <<>> /\ inbox' = [inbox EXCEPT ![c] = Tail(@)]
    BY <1>6 DEF LineRequest
  <2>2. /\ queue' \in Seq(Reqs) /\ at' \in [Conns -> {"drain", "read", "end"}]
        /\ frames' \in [Conns -> Seq(Frame)]
    <3>1. Queued(Head(inbox[c])) \in Seq(Reqs)
      BY <2>1, InboxHead, QueuedTyped
    <3>2. CASE queue' = Queued(Head(inbox[c])) /\ UNCHANGED <<at, frames>>
      BY <3>1, <3>2 DEF TypeOK
    <3>3. CASE EndThread(c) /\ UNCHANGED queue
      BY <1>00, <3>3 DEF EndThread, TypeOK
    <3> QED BY <1>6, <3>2, <3>3 DEF LineRequest
  <2> QED BY <1>0, <1>6, <2>1, <2>2 DEF LineRequest, TypeOK
<1>7. CASE LineClosed(c)
  BY <1>7, <1>00 DEF LineClosed, EndThread, TypeOK, disp
<1>8. CASE HttpRequest(c)
  <2>1. inbox[c] # <<>> /\ inbox' = [inbox EXCEPT ![c] = Tail(@)]
    BY <1>8 DEF HttpRequest
  <2>2. /\ at' \in [Conns -> {"drain", "read", "end"}]
        /\ frames' \in [Conns -> Seq(Frame)]
    BY <1>8, <1>00 DEF HttpRequest, EndThread, TypeOK
  <2>3. queue' \in Seq(Reqs) /\ got' \in [Conns -> Seq(Frame)]
    <3>1. [req |-> Head(inbox[c]), last |-> TRUE] \in Frame
      BY <2>1, InboxHead DEF Frame
    <3>2. CASE Write(c, Head(inbox[c]), TRUE) /\ UNCHANGED queue
      BY <3>1, <3>2, FrameAppended DEF Write, TypeOK
    <3>3. CASE UNCHANGED got
      BY <1>8, <2>1, <3>3, InboxHead, QueuedTyped DEF HttpRequest, TypeOK
    <3> QED BY <1>8, <3>2, <3>3 DEF HttpRequest
  <2> QED BY <1>0, <1>8, <2>1, <2>2, <2>3 DEF HttpRequest, TypeOK
<1> QED BY <1>1, <1>2, <1>3, <1>4, <1>5, <1>6, <1>7, <1>8 DEF Thread

\* The dispatcher has a request, unless it is idle or dead.
LEMMA JobKnown ==
  ASSUME Base, pc \notin {"idle", "dead"}
  PROVE  job \in Known /\ job \in Reqs /\ job > 0 /\ Conn(job) \in Conns /\ Op(job) # "stop"
BY KnownTyped DEF Base, JobFits, Belongs

\* A frame it sends for it.
LEMMA JobsFrame ==
  ASSUME Base, pc \notin {"idle", "dead"}, NEW last \in BOOLEAN
  PROVE  [req |-> job, last |-> last] \in Frame
BY JobKnown DEF Frame

\* What the dispatcher does keeps the types.
LEMMA DispatcherTyped ==
  ASSUME Base, Serve \/ SinkTakes \/ Finish \/ WaitRunsOut \/ Panic PROVE TypeOK'
<1> USE DEF Base
<1>1. CASE Take
  <2>1. queue # <<>>
    BY <1>1 DEF Take
  <2>2. Head(queue) \in Reqs /\ queue' \in Seq(Reqs)
    BY <1>1, <2>1, QueueHead DEF Take
  <2>3. /\ job' \in Reqs \union {0} /\ chunks' \in 0 .. MaxChunks
        /\ pc' \in {"idle", "turn", "send", "work", "over", "reply", "ack", "late", "dead"}
    BY <1>1, <2>2, SwitchesAndBounds DEF Take, TypeOK
  <2> QED BY <1>1, <2>2, <2>3 DEF Take, TypeOK, threads
<1>2. CASE SinkRefuses \/ SinkTakes \/ Finish \/ WaitRunsOut \/ Exit
  BY <1>2 DEF SinkRefuses, SinkTakes, Finish, WaitRunsOut, Exit, TypeOK, threads
<1>3. CASE SendChunk
  <2>1. pc = "send" /\ [req |-> job, last |-> FALSE] \in Frame
    BY <1>3, JobsFrame DEF SendChunk, Running
  <2>2. got' \in [Conns -> Seq(Frame)] /\ frames' \in [Conns -> Seq(Frame)]
    <3>1. CASE Write(Conn(job), job, FALSE) /\ UNCHANGED frames
      BY <2>1, <3>1, JobKnown, FrameAppended DEF Write, TypeOK
    <3>2. CASE /\ frames' = [frames EXCEPT ![Conn(job)] = Append(@, [req |-> job, last |-> FALSE])]
               /\ UNCHANGED got
      BY <2>1, <3>2, JobKnown, FrameAppended DEF TypeOK
    <3>3. CASE UNCHANGED <<got, frames>>
      BY <3>3 DEF TypeOK
    <3> QED BY <1>3, <3>1, <3>2, <3>3 DEF SendChunk
  <2>3. chunks' \in 0 .. MaxChunks /\ pc' \in {"turn", "over"}
    <3>1. chunks < MaxChunks \/ Lost(Conn(job))
      BY <2>1 DEF JobFits
    <3>2. CASE Lost(Conn(job)) /\ pc' = "over" /\ UNCHANGED chunks
      BY <3>2 DEF TypeOK
    <3>3. CASE chunks' = chunks + 1 /\ pc' = "turn" /\ chunks < MaxChunks
      BY <3>3, SwitchesAndBounds DEF TypeOK
    <3>4. CASE chunks' = chunks + 1 /\ pc' = "turn" /\ ~Lost(Conn(job))
      BY <3>1, <3>3, <3>4
    <3> QED BY <1>3, <3>2, <3>3, <3>4, JobKnown DEF SendChunk, Lost, TypeOK
  <2> QED BY <1>3, <2>2, <2>3 DEF SendChunk, TypeOK
<1>4. CASE Forget
  <2>1. pc = "over"
    BY <1>4 DEF Forget, Running
  <2>2. turns' \in [Conns -> [Ids -> Reqs \union {0}]]
    BY <1>4, <2>1, JobKnown, KnownTyped DEF Forget, Without, TypeOK
  <2> QED BY <1>4, <2>2 DEF Forget, TypeOK
<1>5. CASE Reply
  <2>1. pc = "reply" /\ [req |-> job, last |-> TRUE] \in Frame
    BY <1>5, JobsFrame DEF Reply, Running
  <2>2. got' \in [Conns -> Seq(Frame)] /\ frames' \in [Conns -> Seq(Frame)]
    <3>1. CASE Write(Conn(job), job, TRUE) /\ UNCHANGED frames
      BY <2>1, <3>1, JobKnown, FrameAppended DEF Write, TypeOK
    <3>2. CASE /\ frames' = [frames EXCEPT ![Conn(job)] = Append(@, [req |-> job, last |-> TRUE])]
               /\ UNCHANGED got
      BY <2>1, <3>2, JobKnown, FrameAppended DEF TypeOK
    <3>3. CASE UNCHANGED <<got, frames>>
      BY <3>3 DEF TypeOK
    <3> QED BY <1>5, <3>1, <3>2, <3>3 DEF Reply
  <2>3. pc' \in {"ack", "idle"} /\ job' \in Reqs \union {0}
    BY <1>5, <2>1, JobKnown DEF Reply
  <2>4. exited' \in BOOLEAN
    BY <1>5 DEF Reply, TypeOK
  <2> QED BY <1>5, <2>2, <2>3, <2>4 DEF Reply, TypeOK
<1>6. CASE Panic
  BY <1>6 DEF Panic, TypeOK, threads
<1> QED BY <1>1, <1>2, <1>3, <1>4, <1>5, <1>6 DEF Serve

\* Every step keeps the types.
LEMMA NextTyped == Base /\ [Next]_vars => TypeOK'
<1>1. CASE UNCHANGED vars
  BY <1>1 DEF Base, vars, threads, disp, TypeOK
<1> QED BY <1>1, ClientTyped, ThreadTyped, DispatcherTyped DEF Next

---------------------------------------------------------------------------
(* What a step does to each place a request or a frame may be in.          *)

\* The thread of c takes the next request off its socket.
Reads(c) == inbox[c] # <<>> /\ inbox' = [inbox EXCEPT ![c] = Tail(@)] /\ asked' = asked

\* The dispatcher sends a frame for its job.
Sends(last) ==
  /\ pc = (IF last THEN "reply" ELSE "send")
  /\ pc' = (IF ~last THEN "turn" ELSE IF Op(job) = "daemon.stop" /\ Wire[Conn(job)] = "ws"
                                        THEN "ack" ELSE "idle")
  /\ job' = (IF pc' = "idle" THEN 0 ELSE job)
  /\ UNCHANGED <<asked, inbox, queue>>

\* Clients only add requests: what was asked stays as it was.
LEMMA Remembered ==
  ASSUME TypeOK, [Next]_vars
  PROVE  \A r \in Known : r \in Known' /\ Conn(r)' = Conn(r) /\ Id(r)' = Id(r) /\ Op(r)' = Op(r)
<1>1. CASE asked' = asked
  BY <1>1 DEF Known, Conn, Id, Op
<1>2. ASSUME NEW c \in Conns, NEW op \in AllOps, NEW id \in Ids \union {NoId}, Ask(c, op, id)
      PROVE  \A r \in Known : r \in Known' /\ Conn(r)' = Conn(r) /\ Id(r)' = Id(r) /\ Op(r)' = Op(r)
  <2>1. [conn |-> c, id |-> id, op |-> op] \in Request /\ asked \in Seq(Request)
    BY DEF Request, TypeOK
  <2>2. asked' = Append(asked, [conn |-> c, id |-> id, op |-> op])
    BY <1>2 DEF Ask
  <2>3. Len(asked') = Len(asked) + 1 /\ Len(asked) \in Nat
        /\ \A r \in 1 .. Len(asked) : asked'[r] = asked[r]
    BY <2>1, <2>2
  <2> QED BY <2>3 DEF Known, Conn, Id, Op
<1> QED BY <1>1, <1>2 DEF Next, Client, HangUp, Thread, WsWrite, WsDrained, WsTick, WsStop, WsRequest,
           WsClosed, LineRequest, LineClosed, HttpRequest, Serve, Take, SinkRefuses, SendChunk, Forget,
           Reply, Exit, SinkTakes, Finish, WaitRunsOut, Panic, vars

\* A socket loses its head, or all, or takes the newest request.
LEMMA InboxStep ==
  ASSUME Base, [Next]_vars, NEW c \in Conns
  PROVE  \/ inbox'[c] = inbox[c]
         \/ inbox'[c] = <<>>
         \/ inbox[c] # <<>> /\ inbox'[c] = Tail(inbox[c])
         \/ /\ inbox'[c] = Append(inbox[c], Len(asked) + 1)
            /\ Len(asked) + 1 \in Known' /\ asked'[Len(asked) + 1].conn = c
            /\ UNCHANGED <<got, frames, turns, cancel, queue, job, pc>>
<1> USE DEF Base
<1>1. ASSUME NEW d \in Conns, NEW op \in AllOps, NEW id \in Ids \union {NoId}, Ask(d, op, id)
      PROVE  \/ inbox'[c] = inbox[c]
             \/ /\ inbox'[c] = Append(inbox[c], Len(asked) + 1)
                /\ Len(asked) + 1 \in Known' /\ asked'[Len(asked) + 1].conn = c
                /\ UNCHANGED <<got, frames, turns, cancel, queue, job, pc>>
  <2>1. [conn |-> d, id |-> id, op |-> op] \in Request /\ asked \in Seq(Request)
    BY DEF Request, TypeOK
  <2>2. asked' = Append(asked, [conn |-> d, id |-> id, op |-> op])
    BY <1>1 DEF Ask
  <2>3. Len(asked') = Len(asked) + 1 /\ Len(asked) \in Nat
        /\ asked'[Len(asked) + 1] = [conn |-> d, id |-> id, op |-> op]
    BY <2>1, <2>2
  <2>4. Len(asked) + 1 \in Known' /\ asked'[Len(asked) + 1].conn = d
    BY <2>3 DEF Known
  <2> QED BY <1>1, <2>4 DEF Ask, TypeOK, disp
<1>2. ASSUME NEW d \in Conns, HangUp(d)
      PROVE  inbox'[c] = inbox[c] \/ inbox'[c] = <<>>
  BY <1>2 DEF HangUp, TypeOK
<1>3. ASSUME NEW d \in Conns, Reads(d)
      PROVE  inbox'[c] = inbox[c] \/ (inbox[c] # <<>> /\ inbox'[c] = Tail(inbox[c]))
  <2>1. inbox \in [Conns -> Seq(Reqs)]
    BY DEF TypeOK
  <2>2. inbox[d] # <<>> /\ inbox' = [inbox EXCEPT ![d] = Tail(inbox[d])]
    BY <1>3 DEF Reads
  <2>3. CASE c = d
    BY <2>1, <2>2, <2>3
  <2>4. CASE c # d
    BY <2>1, <2>2, <2>4
  <2> QED BY <2>3, <2>4
<1>4. CASE UNCHANGED inbox
  BY <1>4
<1> QED BY <1>1, <1>2, <1>3, <1>4 DEF Reads, Next, Client, Thread, WsWrite, WsDrained, WsTick, WsStop,
           WsRequest, WsClosed, LineRequest, LineClosed, HttpRequest, Serve, Take, SinkRefuses,
           SendChunk, Forget, Reply, Exit, SinkTakes, Finish, WaitRunsOut, Panic, vars, threads

\* The queue loses its head to the dispatcher, or all of it, or takes what a thread has read.
LEMMA QueueStep ==
  ASSUME Base, [Next]_vars
  PROVE  \/ queue' = queue
         \/ queue' = <<>>
         \/ /\ queue # <<>> /\ queue' = Tail(queue)
            /\ UNCHANGED <<asked, inbox, got, frames, turns>>
         \/ \E c \in Conns :
              /\ Reads(c) /\ queue' = Queued(Head(inbox[c])) /\ Op(Head(inbox[c])) # "stop"
              /\ pc # "dead" /\ UNCHANGED <<job, pc>>
<1> USE DEF Base
<1>1. ASSUME NEW c \in Conns, WsRequest(c), pc # "dead"
      PROVE  /\ Reads(c) /\ queue' = Queued(Head(inbox[c])) /\ Op(Head(inbox[c])) # "stop"
             /\ UNCHANGED <<job, pc>>
  BY <1>1 DEF WsRequest, Reads, DispatcherAlive
<1>2. ASSUME NEW c \in Conns, LineRequest(c) \/ HttpRequest(c), pc # "dead"
      PROVE  /\ Reads(c) /\ queue' = Queued(Head(inbox[c])) /\ Op(Head(inbox[c])) # "stop"
             /\ UNCHANGED <<job, pc>>
  <2>1. inbox[c] # <<>> /\ Wire[c] # "ws"
    BY <1>2 DEF LineRequest, HttpRequest
  <2>2. Head(inbox[c]) \in Known /\ Conn(Head(inbox[c])) = c
    BY <2>1, InboxHead
  <2>3. Op(Head(inbox[c])) # "stop"
    BY <2>1, <2>2 DEF Wires
  <2> QED BY <1>2, <2>3 DEF LineRequest, HttpRequest, Reads, DispatcherAlive
<1>3. ASSUME NEW c \in Conns, WsRequest(c) \/ LineRequest(c) \/ HttpRequest(c), pc = "dead"
      PROVE  queue' = queue
  BY <1>3 DEF WsRequest, LineRequest, HttpRequest, DispatcherAlive
<1>4. CASE Take
  BY <1>4 DEF Take, threads
<1>5. CASE Panic
  BY <1>5 DEF Panic
<1>6. CASE UNCHANGED queue
  BY <1>6
<1> QED BY <1>1, <1>2, <1>3, <1>4, <1>5, <1>6 DEF Next, Client, Ask, HangUp, Thread, WsWrite, WsDrained,
           WsTick, WsStop, WsClosed, LineClosed, Serve, SinkRefuses, SendChunk, Forget,
           Reply, Exit, SinkTakes, Finish, WaitRunsOut, vars, disp

\* The dispatcher's job is over, or is what was at the head of the queue.
LEMMA JobStep ==
  ASSUME Base, [Next]_vars
  PROVE  \/ job' = job
         \/ job' = 0
         \/ /\ queue # <<>> /\ job' = Head(queue) /\ queue' = Tail(queue) /\ pc = "idle"
            /\ pc' \notin {"ack", "late"}
            /\ UNCHANGED <<asked, inbox, got, frames, turns>>
BY DEF Next, Client, Ask, HangUp, Thread, WsWrite, WsDrained, WsTick, WsStop, WsRequest, WsClosed,
       LineRequest, LineClosed, HttpRequest, Serve, Take, SinkRefuses, SendChunk, Forget, Reply, Exit,
       SinkTakes, Finish, WaitRunsOut, Panic, vars, disp, threads, Running

\* A dispatcher that waits for the answer to daemon.stop to leave does nothing else, and
\* a dead one nothing at all.
LEMMA PcStep ==
  ASSUME Base, [Next]_vars
  PROVE  /\ pc \in {"ack", "late"} => pc' \in {"ack", "late"} /\ job' = job
         /\ pc = "dead" => pc' = "dead" /\ job' = job /\ queue' = queue
         /\ pc' = "dead" /\ pc # "dead" => UNCHANGED <<asked, got, frames, inbox, turns>>
BY DEF Next, Client, Ask, HangUp, Thread, WsWrite, WsDrained, WsTick, WsStop, WsRequest, WsClosed,
       LineRequest, LineClosed, HttpRequest, Serve, Take, SinkRefuses, SendChunk, Forget, Reply, Exit,
       SinkTakes, Finish, WaitRunsOut, Panic, vars, disp, threads, Running, Base, JobFits, DispatcherAlive

\* What a client has been sent, and what is in its channel.
LEMMA FramesStep ==
  ASSUME Base, [Next]_vars, NEW c \in Conns
  PROVE  \/ /\ got'[c] = got[c]
            /\ \/ frames'[c] = frames[c]
               \/ frames'[c] = <<>>
               \/ frames[c] # <<>> /\ frames'[c] = Tail(frames[c])
         \/ /\ frames[c] # <<>> /\ frames'[c] = Tail(frames[c])
            /\ got'[c] = Append(got[c], Head(frames[c]))
            /\ UNCHANGED <<inbox, queue, job, pc>>
         \/ /\ Reads(c) /\ got'[c] = Append(got[c], [req |-> Head(inbox[c]), last |-> TRUE])
            /\ frames'[c] = frames[c] \/ frames'[c] = <<>>
            /\ Op(Head(inbox[c])) = "stop" \/ pc = "dead"
            /\ UNCHANGED <<queue, job, pc>>
         \/ \E last \in BOOLEAN :
              /\ c = Conn(job) /\ Sends(last)
              /\ \/ /\ got'[c] = Append(got[c], [req |-> job, last |-> last])
                    /\ frames'[c] = frames[c] /\ Wire[c] # "ws"
                 \/ /\ frames'[c] = Append(frames[c], [req |-> job, last |-> last])
                    /\ got'[c] = got[c] /\ Wire[c] = "ws"
<1> USE DEF Base
<1> DEFINE
      Fewer == /\ got'[c] = got[c]
               /\ \/ frames'[c] = frames[c]
                  \/ frames'[c] = <<>>
                  \/ frames[c] # <<>> /\ frames'[c] = Tail(frames[c])
      Moved == /\ frames[c] # <<>> /\ frames'[c] = Tail(frames[c])
               /\ got'[c] = Append(got[c], Head(frames[c]))
               /\ UNCHANGED <<inbox, queue, job, pc>>
      Told  == /\ Reads(c) /\ got'[c] = Append(got[c], [req |-> Head(inbox[c]), last |-> TRUE])
               /\ frames'[c] = frames[c] \/ frames'[c] = <<>>
               /\ Op(Head(inbox[c])) = "stop" \/ pc = "dead"
               /\ UNCHANGED <<queue, job, pc>>
      Run   == \E last \in BOOLEAN :
                 /\ c = Conn(job) /\ Sends(last)
                 /\ \/ /\ got'[c] = Append(got[c], [req |-> job, last |-> last])
                       /\ frames'[c] = frames[c] /\ Wire[c] # "ws"
                    \/ /\ frames'[c] = Append(frames[c], [req |-> job, last |-> last])
                       /\ got'[c] = got[c] /\ Wire[c] = "ws"
<1>0. got \in [Conns -> Seq(Frame)] /\ frames \in [Conns -> Seq(Frame)]
  BY DEF TypeOK
<1>1. ASSUME NEW d \in Conns, WsWrite(d) PROVE Fewer \/ Moved
  <2>1. /\ frames[d] # <<>> /\ UNCHANGED <<inbox, queue, job, pc>>
        /\ \/ /\ got' = [got EXCEPT ![d] = Append(@, Head(frames[d]))]
              /\ frames' = [frames EXCEPT ![d] = Tail(@)]
           \/ got' = got /\ frames' = [frames EXCEPT ![d] = Tail(@)]
           \/ got' = got /\ frames' = [frames EXCEPT ![d] = <<>>]
    <3>1. frames[d] # <<>>
      BY <1>1 DEF WsWrite
    <3>2. Head(frames[d]) = [req |-> Head(frames[d]).req, last |-> Head(frames[d]).last]
      BY <3>1, FramesHead DEF Frame
    <3> QED BY <1>1, <3>1, <3>2 DEF WsWrite, Write, EndThread
  <2>2. CASE c = d
    BY <1>0, <2>1, <2>2
  <2>3. CASE c # d
    BY <1>0, <2>1, <2>3
  <2> QED BY <2>2, <2>3
<1>2. ASSUME NEW d \in Conns, NEW r, r = Head(inbox[d]), Reads(d), AnswerHere(d, r),
             Op(r) = "stop" \/ pc = "dead", UNCHANGED <<queue, job, pc>>
      PROVE  Fewer \/ Told
  <2>1. r \in Reqs
    BY <1>2, InboxHead DEF Reads
  <2>2. \/ got' = [got EXCEPT ![d] = Append(@, [req |-> r, last |-> TRUE])] /\ frames' = frames
        \/ got' = got /\ frames' = frames
        \/ got' = got /\ frames' = [frames EXCEPT ![d] = <<>>]
    BY <1>2, <2>1, Answered
  <2>3. CASE c = d
    BY <1>0, <1>2, <2>2, <2>3
  <2>4. CASE c # d
    BY <1>0, <2>2, <2>4
  <2> QED BY <2>3, <2>4
<1>3. ASSUME NEW d \in Conns, WsStop(d) PROVE Fewer \/ Told
  BY <1>2, <1>3 DEF WsStop, Reads, disp
<1>4. ASSUME NEW d \in Conns, WsRequest(d) PROVE Fewer \/ Told
  <2>1. CASE DispatcherAlive
    BY <1>4, <2>1 DEF WsRequest
  <2>2. CASE ~DispatcherAlive
    BY <1>2, <1>4, <2>2 DEF WsRequest, Reads, DispatcherAlive
  <2> QED BY <2>1, <2>2
<1>5. ASSUME NEW d \in Conns, WsClosed(d) \/ LineClosed(d) \/ LineRequest(d) PROVE Fewer
  BY <1>0, <1>5 DEF WsClosed, LineClosed, LineRequest, EndThread
<1>6. ASSUME NEW d \in Conns, HttpRequest(d) PROVE Fewer \/ Told
  <2>1. Reads(d) /\ frames' = [frames EXCEPT ![d] = <<>>] /\ UNCHANGED <<job, pc>>
    BY <1>6 DEF HttpRequest, Reads, EndThread
  <2>2. CASE got' = got
    BY <1>0, <2>1, <2>2
  <2>3. CASE /\ got' = [got EXCEPT ![d] = Append(@, [req |-> Head(inbox[d]), last |-> TRUE])]
             /\ queue' = queue /\ pc = "dead"
    <3>1. CASE c = d
      BY <1>0, <2>1, <2>3, <3>1
    <3>2. CASE c # d
      BY <1>0, <2>1, <2>3, <3>2
    <3> QED BY <3>1, <3>2
  <2> QED BY <1>6, <2>2, <2>3 DEF HttpRequest, Write, DispatcherAlive
<1>7. CASE SendChunk
  <2>1. pc = "send" /\ job \in Known /\ Conn(job) \in Conns
    BY <1>7, JobKnown DEF SendChunk, Running
  <2>2. CASE UNCHANGED <<got, frames>>
    BY <2>2
  <2>3. CASE pc' = "turn" /\ ~UNCHANGED <<got, frames>>
    <3>1. Sends(FALSE)
      BY <1>7, <2>1, <2>3 DEF SendChunk, Sends
    <3>2. \/ /\ Wire[Conn(job)] = "ws" /\ got' = got
             /\ frames' = [frames EXCEPT ![Conn(job)] = Append(@, [req |-> job, last |-> FALSE])]
          \/ /\ Wire[Conn(job)] # "ws" /\ frames' = frames
             /\ got' = [got EXCEPT ![Conn(job)] = Append(@, [req |-> job, last |-> FALSE])]
      BY <1>7, <2>3 DEF SendChunk, Write
    <3>3. CASE c = Conn(job)
      <4>1. Run
        BY <1>0, <3>1, <3>2, <3>3
      <4> QED BY <4>1
    <3>4. CASE c # Conn(job)
      BY <1>0, <3>2, <3>4
    <3> QED BY <3>3, <3>4
  <2> QED BY <1>7, <2>2, <2>3 DEF SendChunk
<1>8. CASE Reply
  <2>1. pc = "reply" /\ job \in Known /\ Conn(job) \in Conns
    BY <1>8, JobKnown DEF Reply, Running
  <2>2. CASE UNCHANGED <<got, frames>>
    BY <2>2
  <2>3. CASE ~UNCHANGED <<got, frames>>
    <3>1. Sends(TRUE)
      BY <1>8, <2>1 DEF Reply, Sends
    <3>2. \/ /\ Wire[Conn(job)] = "ws" /\ got' = got
             /\ frames' = [frames EXCEPT ![Conn(job)] = Append(@, [req |-> job, last |-> TRUE])]
          \/ /\ Wire[Conn(job)] # "ws" /\ frames' = frames
             /\ got' = [got EXCEPT ![Conn(job)] = Append(@, [req |-> job, last |-> TRUE])]
      BY <1>8, <2>3 DEF Reply, Write
    <3>3. CASE c = Conn(job)
      <4>1. Run
        BY <1>0, <3>1, <3>2, <3>3
      <4> QED BY <4>1
    <3>4. CASE c # Conn(job)
      BY <1>0, <3>2, <3>4
    <3> QED BY <3>3, <3>4
  <2> QED BY <2>2, <2>3
<1>9. CASE UNCHANGED <<got, frames>>
  BY <1>9
<1> QED BY <1>1, <1>3, <1>4, <1>5, <1>6, <1>7, <1>8, <1>9 DEF Next, Client, Ask, HangUp, Thread,
           WsDrained, WsTick, Serve, Take, SinkRefuses, Forget, Exit, SinkTakes, Finish,
           WaitRunsOut, Panic, vars, threads

\* What the map holds under an id, and which flags are set.
LEMMA TurnsStep ==
  ASSUME Base, [Next]_vars, NEW c \in Conns, NEW i \in Ids
  PROVE  \/ turns'[c][i] = turns[c][i]
         \/ turns'[c][i] = 0
         \/ /\ Reads(c) /\ turns'[c][i] = Head(inbox[c]) /\ Id(Head(inbox[c])) = i
            /\ Op(Head(inbox[c])) # "stop"
<1> USE DEF Base
<1>0. turns \in [Conns -> [Ids -> Reqs \union {0}]]
  BY DEF TypeOK
<1>1. ASSUME NEW d \in Conns, WsRequest(d)
      PROVE  \/ turns'[c][i] = turns[c][i]
             \/ /\ Reads(c) /\ turns'[c][i] = Head(inbox[c]) /\ Id(Head(inbox[c])) = i
                /\ Op(Head(inbox[c])) # "stop"
  <2>1. /\ Reads(d) /\ Op(Head(inbox[d])) # "stop"
        /\ turns' = IF Id(Head(inbox[d])) = NoId THEN turns
                    ELSE [turns EXCEPT ![d][Id(Head(inbox[d]))] = Head(inbox[d])]
    BY <1>1 DEF WsRequest, Reads
  <2> QED BY <1>0, <2>1
<1>2. CASE Forget
  <2>1. turns' = turns \/ turns' = [turns EXCEPT ![Conn(job)][Id(job)] = 0]
    BY <1>2 DEF Forget, Without
  <2> QED BY <1>0, <2>1
<1>3. CASE UNCHANGED turns
  BY <1>3
<1> QED BY <1>1, <1>2, <1>3 DEF Next, Client, Ask, HangUp, Thread, WsWrite, WsDrained, WsTick, WsStop,
           WsClosed, LineRequest, LineClosed, HttpRequest, Serve, Take, SinkRefuses, SendChunk,
           Reply, Exit, SinkTakes, Finish, WaitRunsOut, Panic, vars, threads

\* A turn is told to stop as its client goes or as a stop of its connection is read.
LEMMA CancelStep ==
  ASSUME Base, [Next]_vars, NEW r \in cancel' \ cancel
  PROVE  \E c \in Conns, i \in Ids :
           /\ r = turns[c][i] /\ r # 0 /\ asked' = asked /\ sock' = sock
           /\ \/ sock[c] = "gone"
              \/ /\ inbox[c] # <<>> /\ Op(Head(inbox[c])) = "stop"
                 /\ Id(Head(inbox[c])) \in {NoId, i}
<1> USE DEF Base
<1>1. ASSUME NEW c \in Conns, WsStop(c)
      PROVE  \E i \in Ids :
           /\ r = turns[c][i] /\ r # 0 /\ asked' = asked /\ sock' = sock
           /\ \/ sock[c] = "gone"
              \/ /\ inbox[c] # <<>> /\ Op(Head(inbox[c])) = "stop"
                 /\ Id(Head(inbox[c])) \in {NoId, i}
  <2>1. inbox[c] # <<>> /\ Op(Head(inbox[c])) = "stop" /\ asked' = asked /\ sock' = sock
        /\ r \in Stopped(c, Id(Head(inbox[c])))
    BY <1>1 DEF WsStop
  <2>2. Id(Head(inbox[c])) \in Ids \union {NoId}
    BY <2>1, InboxHead, KnownTyped
  <2>3. PICK i \in (IF Id(Head(inbox[c])) = NoId THEN Ids ELSE {Id(Head(inbox[c]))}) :
          r = turns[c][i] /\ r # 0
    BY <2>1 DEF Stopped
  <2>4. i \in Ids /\ Id(Head(inbox[c])) \in {NoId, i}
    BY <2>2, <2>3
  <2> QED BY <2>1, <2>3, <2>4
<1>2. ASSUME NEW c \in Conns, WsClosed(c)
      PROVE  \E i \in Ids : r = turns[c][i] /\ r # 0 /\ asked' = asked /\ sock' = sock /\ sock[c] = "gone"
  BY <1>2 DEF WsClosed, Stopped
<1>3. cancel' # cancel
  OBVIOUS
<1>4. (\E c \in Conns : WsStop(c)) \/ (\E c \in Conns : WsClosed(c))
  BY <1>3 DEF Next, Client, Ask, HangUp, Thread, WsWrite, WsDrained, WsTick, WsRequest,
           LineRequest, LineClosed, HttpRequest, Serve, Take, SinkRefuses, SendChunk, Forget,
           Reply, Exit, SinkTakes, Finish, WaitRunsOut, Panic, vars, threads
<1> QED BY <1>1, <1>2, <1>4

---------------------------------------------------------------------------
(* Where requests and frames come from.                                    *)

\* What is on a socket was there or has just been sent.
LEMMA InboxFrom ==
  ASSUME Base, [Next]_vars, NEW c \in Conns, NEW r \in Items(inbox'[c])
  PROVE  \/ r \in Items(inbox[c])
         \/ /\ r = Len(asked) + 1 /\ r \in Known' /\ Conn(r)' = c
            /\ UNCHANGED <<got, frames, turns, cancel, queue, job, pc>>
<1>1. inbox[c] \in Seq(Reqs) /\ Len(asked) \in Nat
  BY DEF Base, TypeOK
<1>2. CASE inbox'[c] = inbox[c] \/ inbox'[c] = <<>>
  BY <1>2, ItemsEmpty
<1>3. CASE inbox[c] # <<>> /\ inbox'[c] = Tail(inbox[c])
  BY <1>1, <1>3, ItemsTail
<1>4. CASE /\ inbox'[c] = Append(inbox[c], Len(asked) + 1)
           /\ Len(asked) + 1 \in Known' /\ asked'[Len(asked) + 1].conn = c
           /\ UNCHANGED <<got, frames, turns, cancel, queue, job, pc>>
  <2>1. inbox[c] \in Seq(Nat) /\ Len(asked) + 1 \in Nat
    BY <1>1, ReqsAreNat
  <2>2. r \in Items(inbox[c]) \/ r = Len(asked) + 1
    BY <1>4, <2>1, ItemsAppend
  <2>3. r = Len(asked) + 1 => Conn(r)' = c
    BY <1>4 DEF Conn
  <2> QED BY <1>4, <2>2, <2>3
<1> QED BY <1>2, <1>3, <1>4, InboxStep

\* What is in the queue was there or has just been read off a socket.
LEMMA QueueFrom ==
  ASSUME Base, [Next]_vars, NEW q \in Items(queue')
  PROVE  \/ q \in Items(queue)
         \/ \E c \in Conns : /\ Reads(c) /\ q = Head(inbox[c]) /\ Op(q) # "stop"
                             /\ pc # "dead" /\ UNCHANGED <<job, pc>>
<1>1. queue \in Seq(Reqs)
  BY DEF Base, TypeOK
<1>2. CASE queue' = queue \/ queue' = <<>>
  BY <1>2, ItemsEmpty
<1>3. CASE queue # <<>> /\ queue' = Tail(queue)
  BY <1>1, <1>3, ItemsTail
<1>4. ASSUME NEW c \in Conns, Reads(c), queue' = Queued(Head(inbox[c]))
      PROVE  q \in Items(queue) \/ q = Head(inbox[c])
  BY <1>4, InboxHead, QueuedTyped DEF Reads, Base
<1> QED BY <1>2, <1>3, <1>4, QueueStep

\* A frame was there, or is a thread's own answer to what it read, or the dispatcher's for its job.
LEMMA SentFrom ==
  ASSUME Base, [Next]_vars, NEW c \in Conns, NEW f \in Sent(c)'
  PROVE  \/ f \in Sent(c)
         \/ /\ Reads(c) /\ f = [req |-> Head(inbox[c]), last |-> TRUE]
            /\ Op(Head(inbox[c])) = "stop" \/ pc = "dead"
            /\ UNCHANGED <<queue, job, pc>>
         \/ \E last \in BOOLEAN :
              /\ c = Conn(job) /\ Sends(last) /\ f = [req |-> job, last |-> last]
<1> USE DEF Base
<1>0. got[c] \in Seq(Frame) /\ frames[c] \in Seq(Frame)
  BY DEF TypeOK
<1>1. f \in Items(got'[c]) \union Items(frames'[c])
  BY DEF Sent, Items
<1>2. CASE /\ got'[c] = got[c]
           /\ \/ frames'[c] = frames[c]
              \/ frames'[c] = <<>>
              \/ frames[c] # <<>> /\ frames'[c] = Tail(frames[c])
  BY <1>0, <1>1, <1>2, ItemsEmpty, ItemsTail DEF Sent
<1>3. CASE /\ frames[c] # <<>> /\ frames'[c] = Tail(frames[c])
           /\ got'[c] = Append(got[c], Head(frames[c]))
  BY <1>0, <1>1, <1>3, ItemsTail, ItemsAppend, FramesHead DEF Sent
<1>4. CASE /\ Reads(c) /\ got'[c] = Append(got[c], [req |-> Head(inbox[c]), last |-> TRUE])
           /\ frames'[c] = frames[c] \/ frames'[c] = <<>>
           /\ Op(Head(inbox[c])) = "stop" \/ pc = "dead"
           /\ UNCHANGED <<queue, job, pc>>
  <2>1. [req |-> Head(inbox[c]), last |-> TRUE] \in Frame
    BY <1>4, InboxHead DEF Reads, Frame
  <2> QED BY <1>0, <1>1, <1>4, <2>1, ItemsEmpty, ItemsAppend DEF Sent
<1>5. ASSUME NEW last \in BOOLEAN, c = Conn(job), Sends(last),
             \/ got'[c] = Append(got[c], [req |-> job, last |-> last]) /\ frames'[c] = frames[c]
             \/ frames'[c] = Append(frames[c], [req |-> job, last |-> last]) /\ got'[c] = got[c]
      PROVE  f \in Sent(c) \/ f = [req |-> job, last |-> last]
  <2>1. [req |-> job, last |-> last] \in Frame
    BY <1>5, JobsFrame DEF Sends
  <2>2. CASE got'[c] = Append(got[c], [req |-> job, last |-> last]) /\ frames'[c] = frames[c]
    BY <1>0, <1>1, <2>1, <2>2, ItemsAppend DEF Sent
  <2>3. CASE frames'[c] = Append(frames[c], [req |-> job, last |-> last]) /\ got'[c] = got[c]
    BY <1>0, <1>1, <2>1, <2>3, ItemsAppend DEF Sent
  <2> QED BY <1>5, <2>2, <2>3
<1> QED BY <1>2, <1>3, <1>4, <1>5, FramesStep

\* A request was known or has just been sent.
LEMMA KnownFrom ==
  ASSUME Base, [Next]_vars, NEW r \in Known'
  PROVE  \/ r \in Known
         \/ /\ r = Len(asked) + 1 /\ Conn(r)' \in Conns
            /\ Op(r)' = "stop" => Wire[Conn(r)'] = "ws"
            /\ UNCHANGED <<got, frames, turns, cancel, queue, job, pc, exited>>
<1>1. CASE asked' = asked
  BY <1>1 DEF Known
<1>2. ASSUME NEW c \in Conns, NEW op \in AllOps, NEW id \in Ids \union {NoId}, Ask(c, op, id)
      PROVE  \/ r \in Known
             \/ /\ r = Len(asked) + 1 /\ Conn(r)' \in Conns
                /\ Op(r)' = "stop" => Wire[Conn(r)'] = "ws"
                /\ UNCHANGED <<got, frames, turns, cancel, queue, job, pc, exited>>
  <2>1. [conn |-> c, id |-> id, op |-> op] \in Request /\ asked \in Seq(Request)
    BY DEF Request, Base, TypeOK
  <2>2. /\ asked' = Append(asked, [conn |-> c, id |-> id, op |-> op])
        /\ op = "stop" => Wire[c] = "ws"
        /\ UNCHANGED <<got, frames, turns, cancel, queue, job, pc, exited>>
    BY <1>2 DEF Ask, disp
  <2>3. Len(asked') = Len(asked) + 1 /\ Len(asked) \in Nat
        /\ asked'[Len(asked) + 1] = [conn |-> c, id |-> id, op |-> op]
    BY <2>1, <2>2
  <2> QED BY <2>2, <2>3 DEF Known, Conn, Op
<1> QED BY <1>1, <1>2 DEF Next, Client, HangUp, Thread, WsWrite, WsDrained, WsTick, WsStop, WsRequest,
           WsClosed, LineRequest, LineClosed, HttpRequest, Serve, Take, SinkRefuses, SendChunk, Forget,
           Reply, Exit, SinkTakes, Finish, WaitRunsOut, Panic, vars

\* Where a connection's thread is; a client that has gone stays gone.
LEMMA AtStep ==
  ASSUME Base, [Next]_vars, NEW c \in Conns
  PROVE  /\ \/ at'[c] = at[c]
            \/ at'[c] = "drain"
            \/ at'[c] = "read" /\ Wire[c] = "ws"
            \/ at'[c] = "end" /\ (Wire[c] # "ws" \/ sock[c] = "gone")
         /\ at[c] = "end" => at'[c] = "end"
         /\ sock[c] = "gone" => sock'[c] = "gone"
<1> USE DEF Base
<1> DEFINE
      Here == /\ \/ at'[c] = at[c]
                 \/ at'[c] = "drain"
                 \/ at'[c] = "read" /\ Wire[c] = "ws"
                 \/ at'[c] = "end" /\ (Wire[c] # "ws" \/ sock[c] = "gone")
              /\ at[c] = "end" => at'[c] = "end"
              /\ sock[c] = "gone" => sock'[c] = "gone"
<1>0. at \in [Conns -> {"drain", "read", "end"}] /\ sock \in [Conns -> {"open", "gone"}]
  BY DEF TypeOK
<1>1. ASSUME NEW d \in Conns, HangUp(d) PROVE Here
  BY <1>0, <1>1 DEF HangUp
<1>2. ASSUME NEW d \in Conns,
             WsWrite(d) \/ WsDrained(d) \/ WsTick(d) \/ WsClosed(d)
      PROVE  Here
  BY <1>0, <1>2 DEF WsWrite, WsDrained, WsTick, WsClosed, EndThread, Up, Listening
<1>3. ASSUME NEW d \in Conns, LineRequest(d) \/ LineClosed(d) \/ HttpRequest(d) PROVE Here
  BY <1>0, <1>3 DEF LineRequest, LineClosed, HttpRequest, EndThread, Up, Listening
<1>4. ASSUME NEW d \in Conns, NEW r, AnswerHere(d, r), at[d] = "read", sock' = sock PROVE Here
  BY <1>0, <1>4 DEF AnswerHere, EndThread
<1>5. ASSUME NEW d \in Conns, WsStop(d) PROVE Here
  BY <1>4, <1>5 DEF WsStop
<1>6. ASSUME NEW d \in Conns, WsRequest(d) PROVE Here
  <2>1. CASE DispatcherAlive
    BY <1>0, <1>6, <2>1 DEF WsRequest
  <2>2. CASE ~DispatcherAlive
    BY <1>4, <1>6, <2>2 DEF WsRequest
  <2> QED BY <2>1, <2>2
<1>7. CASE UNCHANGED <<at, sock>>
  BY <1>7
<1> QED BY <1>1, <1>2, <1>3, <1>5, <1>6, <1>7 DEF Next, Client, Ask, Thread, Serve, Take, SinkRefuses,
           SendChunk, Forget, Reply, Exit, SinkTakes, Finish, WaitRunsOut, Panic, vars, threads

---------------------------------------------------------------------------
(* Each part of the invariant is kept.                                     *)

\* Every step keeps requests, frames and turns at their connection.
LEMMA NextBelongs == Base /\ [Next]_vars => Belongs'
<1> SUFFICES ASSUME Base, [Next]_vars PROVE Belongs'
  OBVIOUS
<1> USE DEF Base
<1>0. \A r \in Known : r \in Known' /\ Conn(r)' = Conn(r) /\ Id(r)' = Id(r) /\ Op(r)' = Op(r)
  BY Remembered
<1>1. ASSUME NEW c \in Conns, NEW r \in Items(inbox'[c]) PROVE r \in Known' /\ Conn(r)' = c
  BY <1>0, <1>1, InboxFrom DEF Belongs
<1>2. ASSUME NEW c \in Conns, NEW f \in Sent(c)' PROVE f.req \in Known' /\ Conn(f.req)' = c
  <2>1. f.req \in Known /\ Conn(f.req) = c
    <3>1. CASE f \in Sent(c)
      BY <3>1 DEF Belongs
    <3>2. CASE Reads(c) /\ f = [req |-> Head(inbox[c]), last |-> TRUE]
      BY <3>2, InboxHead DEF Reads
    <3>3. CASE \E last \in BOOLEAN : c = Conn(job) /\ Sends(last) /\ f = [req |-> job, last |-> last]
      BY <3>3, JobKnown DEF Sends
    <3> QED BY <3>1, <3>2, <3>3, SentFrom
  <2> QED BY <1>0, <2>1
<1>3. ASSUME NEW c \in Conns, NEW i \in Ids, turns'[c][i] # 0
      PROVE  /\ turns'[c][i] \in Known' /\ asked'[turns'[c][i]].conn = c
             /\ asked'[turns'[c][i]].id = i
  <2> DEFINE r == turns'[c][i]
  <2>1. r \in Known /\ Conn(r) = c /\ Id(r) = i
    BY <1>3, TurnsStep, InboxHead DEF Belongs, Reads
  <2> QED BY <1>0, <2>1 DEF Conn, Id
<1>4. ASSUME NEW q \in Items(queue') PROVE q \in Known' /\ Op(q)' # "stop"
  <2>1. q \in Known /\ Op(q) # "stop"
    BY QueueFrom, InboxHead DEF Belongs, Reads
  <2> QED BY <1>0, <2>1
<1>5. job' # 0 => job' \in Known' /\ asked'[job'].op # "stop"
  <2>1. job' # 0 => job' \in Known /\ Op(job') # "stop"
    BY JobStep, QueueHead DEF Belongs
  <2> QED BY <1>0, <2>1 DEF Op
<1>6. cancel' \subseteq Known'
  <2>1. ASSUME NEW r \in cancel' PROVE r \in Known
    BY CancelStep DEF Belongs
  <2> QED BY <1>0, <2>1
<1> QED BY <1>1, <1>2, <1>3, <1>4, <1>5, <1>6 DEF Belongs, Items, Conn, Id, Op

\* Every step keeps the wires to their use.
LEMMA NextWires == Base /\ [Next]_vars => Wires'
<1> SUFFICES ASSUME Base, [Next]_vars PROVE Wires'
  OBVIOUS
<1> USE DEF Base
<1>1. ASSUME NEW r \in Known', Op(r)' = "stop" PROVE Wire[Conn(r)'] = "ws"
  BY <1>1, KnownFrom, Remembered DEF Wires
<1>2. ASSUME NEW c \in Conns
      PROVE  /\ Wire[c] # "ws" => frames'[c] = <<>> /\ at'[c] # "read"
             /\ Wire[c] = "ws" /\ at'[c] = "end" => sock'[c] = "gone"
  <2>1. Wire[c] # "ws" => frames'[c] = <<>>
    BY FramesStep DEF Wires
  <2> QED BY <2>1, AtStep DEF Wires
<1> QED BY <1>1, <1>2 DEF Wires

\* Every step keeps the dispatcher's place and its job fitting.
LEMMA NextJobFits == Base /\ [Next]_vars => JobFits'
<1> SUFFICES ASSUME Base, [Next]_vars PROVE JobFits'
  OBVIOUS
<1> USE DEF Base
<1>0. \A r \in Known : r \in Known' /\ Conn(r)' = Conn(r) /\ Op(r)' = Op(r)
  BY Remembered
<1>1. job' # 0 => job' \in Known /\ asked'[job'] .conn = asked[job'].conn
                   /\ asked'[job'].op = asked[job'].op /\ asked[job'].conn \in Conns
  <2>1. job' # 0 => job' \in Known
    BY JobStep, QueueHead DEF Belongs
  <2> QED BY <1>0, <2>1, KnownTyped DEF Conn, Op
<1>3. job' = 0 <=> pc' \in {"idle", "dead"}
  <2>1. CASE Take
    BY <2>1, QueueHead, KnownTyped DEF Take, Running, JobFits
  <2>2. CASE Reply
    <3>1. pc = "reply" /\ job # 0
      BY <2>2, JobKnown DEF Reply, Running
    <3> QED BY <2>2, <3>1 DEF Reply
  <2>3. CASE UNCHANGED <<job, pc>>
    BY <2>3 DEF JobFits
  <2>4. CASE /\ job' = job /\ pc \notin {"idle", "dead"} /\ pc' \notin {"idle", "dead"}
    BY <2>4, JobKnown
  <2>5. CASE Panic
    BY <2>5 DEF Panic
  <2> QED BY <2>1, <2>2, <2>3, <2>4, <2>5 DEF Next, Client, Ask, HangUp, Thread, WsWrite, WsDrained,
           WsTick, WsStop, WsRequest, WsClosed, LineRequest, LineClosed, HttpRequest, Serve,
           SinkRefuses, SendChunk, Forget, Exit, SinkTakes, Finish, WaitRunsOut, vars, disp, Running
<1>4. pc' \in {"turn", "send"} => Streams(job)'
  <2>1. CASE Take
    <3>1. pc' \in {"turn", "send"} => Streams(job') /\ job' # 0
      BY <2>1, QueueHead, KnownTyped DEF Take, Running
    <3> QED BY <1>1, <3>1 DEF Streams, Conn, Op
  <2>2. CASE pc \in {"turn", "send"} /\ job' = job
    <3>1. Streams(job) /\ job' # 0
      BY <2>2, JobKnown DEF JobFits
    <3> QED BY <1>1, <2>2, <3>1 DEF Streams, Conn, Op
  <2>3. CASE pc' \notin {"turn", "send"}
    BY <2>3
  <2>4. Take \/ (pc \in {"turn", "send"} /\ job' = job) \/ pc' \notin {"turn", "send"}
    BY DEF Next, Client, Ask, HangUp, Thread, WsWrite, WsDrained, WsTick,
           WsStop, WsRequest, WsClosed, LineRequest, LineClosed, HttpRequest, Serve, SinkRefuses,
           SendChunk, Forget, Reply, Exit, SinkTakes, Finish, WaitRunsOut, Panic, vars, disp, threads,
           Running
  <2> QED BY <2>1, <2>2, <2>3, <2>4
<1>5. pc' = "send" => chunks' < MaxChunks \/ Lost(Conn(job))'
  <2>1. ASSUME pc' = "send"
        PROVE  chunks' = chunks /\ job' = job /\ pc \in {"turn", "send"}
                 /\ (chunks < MaxChunks \/ Lost(Conn(job)))
    <3>1. CASE SinkTakes
      BY <3>1 DEF SinkTakes, Running
    <3>2. CASE UNCHANGED <<job, pc, chunks>>
      BY <2>1, <3>2 DEF JobFits
    <3>3. ~SendChunk /\ ~Take /\ ~Reply
      BY <2>1, QueueHead DEF SendChunk, Take, Reply, Running
    <3> QED BY <2>1, <3>1, <3>2, <3>3 DEF Next, Client, Ask, HangUp, Thread, WsWrite, WsDrained, WsTick,
           WsStop, WsRequest, WsClosed, LineRequest, LineClosed, HttpRequest, Serve, SinkRefuses,
           Forget, Exit, Finish, WaitRunsOut, Panic, vars, disp
  <2>2. ASSUME pc' = "send", Lost(Conn(job)) PROVE Lost(Conn(job))'
    <3>1. job \in Known /\ job' = job
      BY <2>1, <2>2, JobKnown
    <3>2. Lost(Conn(job))' <=> (IF Wire[Conn(job)] = "ws" THEN at'[Conn(job)] = "end"
                                ELSE sock'[Conn(job)] = "gone")
      BY <1>0, <3>1 DEF Lost, Listening, Conn
    <3>3. Conn(job) \in Conns
      BY <3>1, KnownTyped
    <3> QED BY <2>2, <3>2, <3>3, AtStep DEF Lost, Listening
  <2> QED BY <2>1, <2>2
<1>6. pc' \in {"ack", "late"} => Op(job)' = "daemon.stop" /\ Wire[Conn(job)'] = "ws"
  <2>1. CASE pc \in {"ack", "late"} /\ job' = job
    BY <1>1, <2>1, JobKnown DEF JobFits, Conn, Op
  <2>2. CASE /\ pc = "reply" /\ job' = job /\ Op(job) = "daemon.stop" /\ Wire[Conn(job)] = "ws"
    BY <1>1, <2>2, JobKnown DEF Conn, Op
  <2>3. \/ pc' \notin {"ack", "late"}
        \/ pc \in {"ack", "late"} /\ job' = job
        \/ pc = "reply" /\ job' = job /\ Op(job) = "daemon.stop" /\ Wire[Conn(job)] = "ws"
    BY DEF Next, Client, Ask, HangUp, Thread, WsWrite, WsDrained, WsTick,
           WsStop, WsRequest, WsClosed, LineRequest, LineClosed, HttpRequest, Serve, Take, SinkRefuses,
           SendChunk, Forget, Reply, Exit, SinkTakes, Finish, WaitRunsOut, Panic, vars, disp, Running
  <2> QED BY <2>1, <2>2, <2>3
<1>7. pc' = "dead" => queue' = <<>>
  BY DEF JobFits, DispatcherAlive, Next, Client, Ask, HangUp, Thread, WsWrite, WsDrained, WsTick,
           WsStop, WsRequest, WsClosed, LineRequest, LineClosed, HttpRequest, Serve, Take, SinkRefuses,
           SendChunk, Forget, Reply, Exit, SinkTakes, Finish, WaitRunsOut, Panic, vars, disp, Running
<1> QED BY <1>3, <1>4, <1>5, <1>6, <1>7 DEF JobFits

\* The part of the invariant every other part rests on is inductive.
LEMMA NextBase == Base /\ [Next]_vars => Base'
BY NextTyped, NextBelongs, NextWires, NextJobFits DEF Base

\* What a thread has just read came before what it will read.
LEMMA ReadBefore ==
  ASSUME Base, Lined, NEW c \in Conns, Reads(c), NEW r \in Items(inbox'[c])
  PROVE  Head(inbox[c]) < r
<1>1. inbox[c] \in Seq(Nat) /\ inbox[c] # <<>> /\ Increasing(inbox[c])
  BY ReqsAreNat DEF Base, TypeOK, Reads, Lined
<1>2. inbox'[c] = Tail(inbox[c])
  BY DEF Base, TypeOK, Reads
<1> QED BY <1>1, <1>2, IncreasingTail

\* No request overtakes another of its connection.
LEMMA NextLined == Base /\ Lined /\ [Next]_vars => Lined'
<1> SUFFICES ASSUME Base, Lined, [Next]_vars PROVE Lined'
  OBVIOUS
<1> USE DEF Base
<1>0. /\ \A r \in Known : r \in Known' /\ Conn(r)' = Conn(r)
      /\ \A r \in Known : r \in Nat /\ r > 0 /\ r < Len(asked) + 1
      /\ Len(asked) \in Nat
  BY Remembered, KnownTyped DEF Known, TypeOK
<1>1. ASSUME NEW c \in Conns PROVE Increasing(inbox'[c])
  <2>1. inbox[c] \in Seq(Nat) /\ Increasing(inbox[c]) /\ \A r \in Items(inbox[c]) : r \in Known
    BY ReqsAreNat DEF TypeOK, Lined, Belongs
  <2>2. CASE inbox'[c] = <<>>
    BY <2>2 DEF Increasing
  <2>3. CASE inbox'[c] = Append(inbox[c], Len(asked) + 1)
    BY <1>0, <2>1, <2>3, IncreasingAppend
  <2> QED BY <2>1, <2>2, <2>3, InboxStep, IncreasingTail
<1>2. /\ \A q \in Items(queue') : q \in Known
      /\ job' # 0 => job' \in Known
  BY QueueFrom, JobStep, QueueHead, InboxHead DEF Belongs, Reads
<1>3. InLine(queue)'
  <2>1. queue \in Seq(Nat) /\ InLine(queue)
    BY ReqsAreNat DEF TypeOK, Lined
  <2>2. InLine(queue')
    <3>1. CASE queue' = <<>>
      BY <3>1 DEF InLine
    <3>2. ASSUME NEW c \in Conns, Reads(c), queue' = Queued(Head(inbox[c])) PROVE InLine(queue')
      <4>1. Head(inbox[c]) \in Nat /\ Conn(Head(inbox[c])) = c
            /\ \A q \in Items(queue) : Conn(q) = c => q < Head(inbox[c])
        BY <1>0, <3>2, InboxHead DEF Reads, Lined
      <4> QED BY <2>1, <3>2, <4>1, InLineAppend DEF Queued
    <3> QED BY <2>1, <3>1, <3>2, QueueStep, InLineTail
  <2>3. \A i \in 1 .. Len(queue') : asked'[queue'[i]].conn = asked[queue'[i]].conn
    BY <1>0, <1>2 DEF Items, Conn
  <2> QED BY <2>2, <2>3 DEF InLine, Conn
<1>4. ASSUME job' # 0, NEW q \in Items(queue'), Conn(q) = Conn(job') PROVE job' < q
  <2>1. CASE job' = job
    <3>1. CASE q \in Items(queue)
      BY <1>4, <2>1, <3>1 DEF Lined
    <3>2. ASSUME NEW c \in Conns, Reads(c), q = Head(inbox[c]) PROVE job < q
      BY <1>4, <2>1, <3>2, InboxHead DEF Reads, Lined
    <3> QED BY <2>1, <3>1, <3>2, QueueFrom
  <2>2. CASE queue # <<>> /\ job' = Head(queue) /\ queue' = Tail(queue)
    <3>1. queue \in Seq(Nat) /\ InLine(queue)
      BY ReqsAreNat DEF TypeOK, Lined
    <3> QED BY <1>4, <2>2, <3>1, InLineTail
  <2> QED BY <1>4, <2>1, <2>2, JobStep
<1>5. ASSUME NEW c \in Conns, NEW r \in Items(inbox'[c]),
             r = Len(asked) + 1, UNCHANGED <<got, frames, turns, cancel, queue, job, pc>>
      PROVE  /\ \A q \in Items(queue') : q < r
             /\ job' # 0 => job' < r
             /\ \A i \in Ids : turns'[c][i] < r
             /\ \A f \in Sent(c)' : f.req < r
  <2>1. \A i \in Ids : turns[c][i] \in Known \/ turns[c][i] = 0
    BY DEF Belongs
  <2>2. \A f \in Sent(c)' : f.req \in Known
    BY <1>5 DEF Belongs, Sent, Items
  <2>3. \A q \in Known : q < r
    BY <1>0, <1>5
  <2>4. \A i \in Ids : turns'[c][i] < r
    BY <1>0, <1>5, <2>1, <2>3
  <2> QED BY <1>2, <2>2, <2>3, <2>4
<1>6. ASSUME NEW c \in Conns, NEW r \in Items(inbox'[c]), r \in Items(inbox[c])
      PROVE  /\ \A q \in Items(queue') : Conn(q) = c => q < r
             /\ job' # 0 /\ Conn(job') = c => job' < r
             /\ \A i \in Ids : turns'[c][i] < r
             /\ \A f \in Sent(c)' : f.req < r
  <2>0. Reads(c) => Head(inbox[c]) < r
    BY ReadBefore
  <2>1. ASSUME NEW q \in Items(queue'), Conn(q) = c PROVE q < r
    <3>1. CASE q \in Items(queue)
      BY <1>6, <2>1, <3>1 DEF Lined
    <3>2. ASSUME NEW d \in Conns, Reads(d), q = Head(inbox[d]) PROVE q < r
      BY <2>0, <2>1, <3>2, InboxHead DEF Reads
    <3> QED BY <3>1, <3>2, QueueFrom
  <2>2. job' # 0 /\ Conn(job') = c => job' < r
    BY <1>6, JobStep, QueueHead DEF Lined
  <2>3. ASSUME NEW i \in Ids PROVE turns'[c][i] < r
    <3>1. turns[c][i] < r /\ 0 < r
      BY <1>0, <1>6 DEF Lined, Belongs
    <3> QED BY <2>0, <3>1, TurnsStep
  <2>4. ASSUME NEW f \in Sent(c)' PROVE f.req < r
    <3>1. CASE f \in Sent(c)
      BY <1>6, <3>1 DEF Lined
    <3>2. CASE Reads(c) /\ f = [req |-> Head(inbox[c]), last |-> TRUE]
      BY <2>0, <3>2
    <3>3. ASSUME NEW last \in BOOLEAN, c = Conn(job), Sends(last), f = [req |-> job, last |-> last]
          PROVE  f.req < r
      <4>1. job # 0
        BY <3>3, JobKnown DEF Sends
      <4> QED BY <1>6, <3>3, <4>1 DEF Lined
    <3> QED BY <3>1, <3>2, <3>3, SentFrom
  <2> QED BY <2>1, <2>2, <2>3, <2>4
<1>7. ASSUME NEW c \in Conns, NEW r \in Items(inbox'[c])
      PROVE  /\ \A q \in Items(queue') : Conn(q) = c => q < r
             /\ job' # 0 /\ Conn(job') = c => job' < r
             /\ \A i \in Ids : turns'[c][i] < r
             /\ \A f \in Sent(c)' : f.req < r
  BY <1>5, <1>6, InboxFrom
<1>8. \A q \in Items(queue') \union ({job'} \ {0}) : Conn(q)' = Conn(q)
  BY <1>0, <1>2
<1> QED
  <2>1. job' # 0 => \A q \in Items(queue') : asked'[q].conn = asked'[job'].conn => job' < q
    BY <1>4, <1>8 DEF Conn
  <2>2. ASSUME NEW c \in Conns, NEW r \in Items(inbox'[c])
        PROVE  /\ \A q \in Items(queue') : asked'[q].conn = c => q < r
               /\ job' # 0 /\ asked'[job'].conn = c => job' < r
               /\ \A i \in Ids : turns'[c][i] < r
               /\ \A f \in Sent(c)' : f.req < r
    BY <1>7, <1>8 DEF Conn
  <2> QED BY <1>1, <1>3, <2>1, <2>2 DEF Lined, Items, Increasing, Conn

\* What Fits says of two frames already sent, it goes on saying.
LEMMA FitsStays ==
  ASSUME Base, [Next]_vars, NEW f, NEW g, f.req \in Known, g.req \in Known, Fits(f, g)
  PROVE  Fits(f, g)'
<1>1. pc = "dead" => pc' = "dead"
  BY PcStep
<1>2. Op(f.req)' = Op(f.req) /\ Op(g.req)' = Op(g.req)
  BY Remembered DEF Base
<1> QED BY <1>1, <1>2 DEF Fits, DispatcherAlive

\* What a step leaves in got and frames of one connection is in order.
LEMMA FramesStayInOrder ==
  ASSUME Base, Lined, Delivery, [Next]_vars, NEW c \in Conns
  PROVE  /\ InOrder(got'[c]) /\ InOrder(frames'[c])
         /\ \A f \in Items(got'[c]), g \in Items(frames'[c]) : Fits(f, g)
         /\ \A g \in Items(frames'[c]) : Op(g.req) # "stop"
<1> USE DEF Base
<1> DEFINE
      Goal == /\ InOrder(got'[c]) /\ InOrder(frames'[c])
              /\ \A f \in Items(got'[c]), g \in Items(frames'[c]) : Fits(f, g)
              /\ \A g \in Items(frames'[c]) : Op(g.req) # "stop"
<1>1. /\ got[c] \in Seq(Frame) /\ frames[c] \in Seq(Frame)
      /\ InOrder(got[c]) /\ InOrder(frames[c])
      /\ \A f \in Items(got[c]), g \in Items(frames[c]) : Fits(f, g)
      /\ \A g \in Items(frames[c]) : Op(g.req) # "stop"
  BY DEF TypeOK, Delivery
<1>2. CASE /\ got'[c] = got[c]
           /\ \/ frames'[c] = frames[c]
              \/ frames'[c] = <<>>
              \/ frames[c] # <<>> /\ frames'[c] = Tail(frames[c])
  <2>1. InOrder(frames'[c]) /\ Items(frames'[c]) \subseteq Items(frames[c])
    <3>1. InOrder(<<>>) /\ Items(<<>>) = {}
      BY ItemsEmpty DEF InOrder
    <3> QED BY <1>1, <1>2, <3>1, InOrderTail, ItemsTail
  <2> QED BY <1>1, <1>2, <2>1
<1>3. CASE /\ frames[c] # <<>> /\ frames'[c] = Tail(frames[c])
           /\ got'[c] = Append(got[c], Head(frames[c]))
  <2>1. /\ InOrder(frames'[c]) /\ Items(frames'[c]) \subseteq Items(frames[c])
        /\ \A g \in Items(frames'[c]) : Fits(Head(frames[c]), g)
        /\ Head(frames[c]) \in Items(frames[c]) /\ Head(frames[c]) \in Frame
    BY <1>1, <1>3, InOrderTail, ItemsTail, TailAt
  <2>2. /\ Items(got'[c]) = Items(got[c]) \union {Head(frames[c])} /\ InOrder(got'[c])
    BY <1>1, <1>3, <2>1, InOrderAppend, ItemsAppend
  <2> QED BY <1>1, <2>1, <2>2
<1>4. CASE /\ Reads(c) /\ got'[c] = Append(got[c], [req |-> Head(inbox[c]), last |-> TRUE])
           /\ frames'[c] = frames[c] \/ frames'[c] = <<>>
           /\ Op(Head(inbox[c])) = "stop" \/ pc = "dead"
  <2> DEFINE x == [req |-> Head(inbox[c]), last |-> TRUE]
  <2>1. /\ x \in Frame /\ x.req = Head(inbox[c]) /\ x.req \in Nat
        /\ \A f \in Sent(c) : f.req < x.req /\ f.req \in Nat
    BY <1>4, InboxHead, KnownTyped DEF Reads, Frame, Lined, Belongs
  <2>2. ASSUME NEW f \in Sent(c) PROVE Fits(f, x) /\ Fits(x, f)
    <3>1. f.req < x.req /\ f.req \in Nat /\ x.req \in Nat
      BY <2>1
    <3>2. DispatcherAlive => Op(x.req) = "stop"
      BY <1>4, <2>1 DEF DispatcherAlive
    <3> HIDE DEF x
    <3>3. f.req # x.req /\ f.req <= x.req
      BY <3>1
    <3> QED BY <3>2, <3>3, Zenon DEF Fits
  <2>3. Items(got'[c]) = Items(got[c]) \union {x} /\ InOrder(got'[c])
    <3>1. \A f \in Items(got[c]) : Fits(f, x)
      BY <2>2 DEF Sent
    <3>2. got'[c] = Append(got[c], x) /\ x \in Frame
      BY <1>4, <2>1
    <3> HIDE DEF x
    <3> QED BY <1>1, <3>1, <3>2, InOrderAppend, ItemsAppend
  <2>4. InOrder(frames'[c]) /\ Items(frames'[c]) \subseteq Items(frames[c])
    <3>1. InOrder(<<>>) /\ Items(<<>>) = {}
      BY ItemsEmpty DEF InOrder
    <3> QED BY <1>1, <1>4, <3>1
  <2> QED BY <1>1, <2>2, <2>3, <2>4 DEF Sent
<1>5. ASSUME NEW last \in BOOLEAN, c = Conn(job), Sends(last),
             \/ /\ got'[c] = Append(got[c], [req |-> job, last |-> last])
                /\ frames'[c] = frames[c] /\ Wire[c] # "ws"
             \/ /\ frames'[c] = Append(frames[c], [req |-> job, last |-> last])
                /\ got'[c] = got[c]
      PROVE  Goal
  <2> DEFINE y == [req |-> job, last |-> last]
  <2>1. /\ y \in Frame /\ y.req = job /\ job \in Nat /\ job # 0 /\ Op(job) # "stop"
        /\ pc \notin {"ack", "late"}
    BY <1>5, JobsFrame, JobKnown, KnownTyped DEF Sends
  <2>2. ASSUME NEW f \in Sent(c) PROVE Fits(f, y)
    <3>1. f.last /\ Op(f.req) # "stop" => f.req # job
      BY <1>5, <2>1 DEF Delivery
    <3>2. Op(f.req) # "stop" => f.req <= job
      BY <1>5, <2>1 DEF Delivery
    <3> QED BY <2>1, <3>1, <3>2 DEF Fits
  <2>3. CASE got'[c] = Append(got[c], y) /\ frames'[c] = frames[c] /\ Wire[c] # "ws"
    <3>1. Items(frames'[c]) = {}
      BY <2>3, ItemsEmpty DEF Wires
    <3>2. InOrder(got'[c])
      BY <1>1, <2>1, <2>2, <2>3, InOrderAppend DEF Sent
    <3> QED BY <1>1, <2>3, <3>1, <3>2
  <2>4. CASE frames'[c] = Append(frames[c], y) /\ got'[c] = got[c]
    <3>1. InOrder(frames'[c]) /\ Items(frames'[c]) = Items(frames[c]) \union {y}
      BY <1>1, <2>1, <2>2, <2>4, InOrderAppend, ItemsAppend DEF Sent
    <3> QED BY <1>1, <2>1, <2>2, <2>4, <3>1 DEF Sent
  <2> QED BY <1>5, <2>3, <2>4
<1> HIDE DEF Goal
<1>6. Goal
  BY <1>2, <1>3, <1>4, <1>5, FramesStep DEF Goal
<1> QED BY <1>6 DEF Goal

\* Frames come behind those of earlier requests, and after the last of a request comes none.
LEMMA NextDelivery == Base /\ Lined /\ Delivery /\ [Next]_vars => Delivery'
<1> SUFFICES ASSUME Base, Lined, Delivery, [Next]_vars PROVE Delivery'
  OBVIOUS
<1> USE DEF Base
<1>0. /\ \A r \in Known : Conn(r)' = Conn(r) /\ Op(r)' = Op(r) /\ r \in Nat /\ r > 0
      /\ \A q \in Items(queue') : q \in Known
      /\ job' # 0 => job' \in Known
  BY Remembered, KnownTyped, QueueFrom, JobStep, QueueHead, InboxHead DEF Belongs, Reads
<1>1. ASSUME NEW c \in Conns, NEW f \in Sent(c)' PROVE f.req \in Known
  <2>1. CASE f \in Sent(c)
    BY <2>1 DEF Belongs
  <2>2. CASE Reads(c) /\ f = [req |-> Head(inbox[c]), last |-> TRUE]
    BY <2>2, InboxHead DEF Reads
  <2>3. ASSUME NEW last \in BOOLEAN, Sends(last), f = [req |-> job, last |-> last] PROVE f.req \in Known
    BY <2>3, JobKnown DEF Sends
  <2> QED BY <2>1, <2>2, <2>3, SentFrom
<1>2. ASSUME NEW c \in Conns, NEW s, InOrder(s), Items(s) \subseteq Sent(c)' PROVE InOrder(s)'
  <2> SUFFICES ASSUME NEW i \in 1 .. Len(s), NEW j \in 1 .. Len(s), i < j
               PROVE  Fits(s[i], s[j])'
    BY DEF InOrder
  <2>1. Fits(s[i], s[j])
    BY <1>2 DEF InOrder
  <2>2. s[i] \in Sent(c)' /\ s[j] \in Sent(c)'
    BY <1>2 DEF Items
  <2> QED BY <1>1, <2>1, <2>2, FitsStays
<1>3. ASSUME NEW c \in Conns PROVE (InOrder(got[c]) /\ InOrder(frames[c]))'
  <2>1. Items(got'[c]) \subseteq Sent(c)' /\ Items(frames'[c]) \subseteq Sent(c)'
    BY DEF Sent, Items
  <2>2. \A s : InOrder(s) /\ Items(s) \subseteq Sent(c)' => InOrder(s)'
    BY <1>2
  <2>3. InOrder(got'[c]) /\ InOrder(frames'[c])
    BY FramesStayInOrder
  <2> QED BY <2>1, <2>2, <2>3 DEF InOrder, Fits, DispatcherAlive, Op
<1>4. ASSUME NEW c \in Conns
      PROVE  /\ \A f \in Items(got'[c]), g \in Items(frames'[c]) : Fits(f, g)'
             /\ \A g \in Items(frames'[c]) : Op(g.req)' # "stop"
  <2>1. Items(got'[c]) \subseteq Sent(c)' /\ Items(frames'[c]) \subseteq Sent(c)'
    BY DEF Sent, Items
  <2> QED BY <1>0, <1>1, <2>1, FramesStayInOrder, FitsStays
<1>5. ASSUME NEW c \in Conns, NEW f \in Sent(c)', Op(f.req) # "stop"
      PROVE  /\ \A q \in Items(queue') : Conn(q) = c => f.req < q
             /\ job' # 0 /\ Conn(job') = c =>
                  f.req <= job' /\ (f.last /\ f.req = job' => pc' \in {"ack", "late"})
  <2>1. CASE f \in Sent(c)
    <3>1. ASSUME NEW q \in Items(queue'), Conn(q) = c PROVE f.req < q
      <4>1. CASE q \in Items(queue)
        BY <1>5, <2>1, <3>1, <4>1 DEF Delivery
      <4>2. ASSUME NEW d \in Conns, Reads(d), q = Head(inbox[d]) PROVE f.req < q
        BY <2>1, <3>1, <4>2, InboxHead DEF Lined, Reads
      <4> QED BY <4>1, <4>2, QueueFrom
    <3>2. CASE job' = job
      BY <1>5, <2>1, <3>1, <3>2, PcStep DEF Delivery
    <3>3. CASE queue # <<>> /\ job' = Head(queue)
      <4>1. Conn(job') = c => f.req < job'
        BY <1>5, <2>1, <3>3, QueueHead DEF Delivery
      <4> QED BY <1>0, <1>1, <3>1, <4>1
    <3> QED BY <3>1, <3>2, <3>3, JobStep
  <2>2. CASE pc = "dead" /\ UNCHANGED <<queue, job, pc>>
    BY <2>2, ItemsEmpty DEF JobFits
  <2>3. ASSUME NEW last \in BOOLEAN, c = Conn(job), Sends(last), f = [req |-> job, last |-> last]
        PROVE  /\ \A q \in Items(queue') : Conn(q) = c => f.req < q
               /\ job' # 0 /\ Conn(job') = c =>
                    f.req <= job' /\ (f.last /\ f.req = job' => pc' \in {"ack", "late"})
    <3>1. job # 0 /\ job \in Nat /\ queue' = queue
      BY <2>3, JobKnown, KnownTyped DEF Sends
    <3>2. \A q \in Items(queue') : Conn(q) = c => f.req < q
      BY <2>3, <3>1 DEF Lined
    <3>3. job' # 0 => job' = job /\ (last => pc' = "ack")
      BY <2>3 DEF Sends
    <3> QED BY <2>3, <3>1, <3>2, <3>3
  <2> QED BY <1>5, <2>1, <2>2, <2>3, SentFrom
<1> QED
  <2>1. ASSUME NEW c \in Conns, NEW f \in Sent(c)', Op(f.req)' # "stop"
        PROVE  /\ \A q \in Items(queue') : asked'[q].conn = c => f.req < q
               /\ job' # 0 /\ asked'[job'].conn = c =>
                    f.req <= job' /\ (f.last /\ f.req = job' => pc' \in {"ack", "late"})
    <3>1. Op(f.req) # "stop"
      BY <1>0, <1>1, <2>1
    <3> QED BY <1>0, <1>5, <3>1 DEF Conn
  <2> QED BY <1>3, <1>4, <2>1 DEF Delivery, Items, Conn

\* A frame in a channel was there or is the dispatcher's for its job, to a WebSocket.
LEMMA FramesFrom ==
  ASSUME Base, [Next]_vars, NEW c \in Conns, NEW g \in Items(frames'[c])
  PROVE  \/ g \in Items(frames[c])
         \/ \E last \in BOOLEAN :
              c = Conn(job) /\ Sends(last) /\ g = [req |-> job, last |-> last] /\ Wire[c] = "ws"
<1> USE DEF Base
<1>0. frames[c] \in Seq(Frame)
  BY DEF TypeOK
<1>1. CASE frames'[c] = frames[c] \/ frames'[c] = <<>>
  BY <1>1, ItemsEmpty
<1>2. CASE frames[c] # <<>> /\ frames'[c] = Tail(frames[c])
  BY <1>0, <1>2, ItemsTail
<1>3. ASSUME NEW last \in BOOLEAN, c = Conn(job), Sends(last), Wire[c] = "ws",
             frames'[c] = Append(frames[c], [req |-> job, last |-> last])
      PROVE  g \in Items(frames[c]) \/ g = [req |-> job, last |-> last]
  <2>1. [req |-> job, last |-> last] \in Frame
    BY <1>3, JobsFrame DEF Sends
  <2> QED BY <1>0, <1>3, <2>1, ItemsAppend
<1> QED BY <1>1, <1>2, <1>3, FramesStep

\* What a client was sent it has.
LEMMA GotStays ==
  ASSUME Base, [Next]_vars, NEW c \in Conns PROVE Items(got[c]) \subseteq Items(got'[c])
<1> USE DEF Base
<1>0. got[c] \in Seq(Frame)
  BY DEF TypeOK
<1>1. ASSUME NEW f \in Frame, got'[c] = Append(got[c], f) PROVE Items(got[c]) \subseteq Items(got'[c])
  BY <1>0, <1>1, ItemsAppend
<1>2. frames[c] # <<>> => Head(frames[c]) \in Frame
  BY FramesHead
<1>3. Reads(c) => [req |-> Head(inbox[c]), last |-> TRUE] \in Frame
  BY InboxHead DEF Reads, Frame
<1>4. \A last \in BOOLEAN : Sends(last) => [req |-> job, last |-> last] \in Frame
  BY JobsFrame DEF Sends
<1> QED BY <1>1, <1>2, <1>3, <1>4, FramesStep

\* The stop is acknowledged as the last frame for daemon.stop is taken out of its channel.
LEMMA AckedStep ==
  ASSUME Base, [Next]_vars, acked', ~acked
  PROVE  \E c \in Conns :
           /\ frames[c] # <<>> /\ Head(frames[c]).last /\ Op(Head(frames[c]).req) = "daemon.stop"
           /\ (sock' = sock /\ sock[c] = "gone") \/ got'[c] = Append(got[c], Head(frames[c]))
<1> USE DEF Base
<1>1. ASSUME NEW c \in Conns, WsWrite(c)
      PROVE  /\ frames[c] # <<>> /\ Head(frames[c]).last /\ Op(Head(frames[c]).req) = "daemon.stop"
             /\ (sock' = sock /\ sock[c] = "gone") \/ got'[c] = Append(got[c], Head(frames[c]))
  <2>1. frames[c] # <<>> /\ Head(frames[c]).last /\ Op(Head(frames[c]).req) = "daemon.stop"
    BY <1>1 DEF WsWrite, TypeOK
  <2>2. Head(frames[c]) = [req |-> Head(frames[c]).req, last |-> Head(frames[c]).last]
    BY <2>1, FramesHead DEF Frame
  <2> QED BY <1>1, <2>1, <2>2 DEF WsWrite, Write, TypeOK
<1>2. ~UNCHANGED acked
  OBVIOUS
<1>3. \E c \in Conns : WsWrite(c)
  BY <1>2 DEF Next, Client, Ask, HangUp, Thread, WsDrained, WsTick, WsStop, WsRequest, WsClosed,
           LineRequest, LineClosed, HttpRequest, Serve, Take, SinkRefuses, SendChunk, Forget,
           Reply, Exit, SinkTakes, Finish, WaitRunsOut, Panic, vars, disp
<1> QED BY <1>1, <1>3

\* An acknowledged stop has been delivered, or its client has gone.
LEMMA NextAcks == Base /\ Acks /\ [Next]_vars => Acks'
<1> SUFFICES ASSUME Base, Acks, [Next]_vars PROVE Acks'
  OBVIOUS
<1> USE DEF Base
<1>0. \A r \in Known : Conn(r)' = Conn(r) /\ Op(r)' = Op(r)
  BY Remembered
<1>1. ASSUME NEW c \in Conns, NEW g \in Items(frames'[c]), g.last, Op(g.req)' = "daemon.stop"
      PROVE  g.req = job' /\ pc' \in {"ack", "late"}
  <2>1. CASE g \in Items(frames[c])
    <3>1. Op(g.req) = "daemon.stop"
      BY <1>0, <1>1, <2>1 DEF Belongs, Sent
    <3> QED BY <1>1, <2>1, <3>1, PcStep DEF Acks
  <2>2. ASSUME NEW last \in BOOLEAN, c = Conn(job), Sends(last), g = [req |-> job, last |-> last],
               Wire[c] = "ws"
        PROVE  g.req = job' /\ pc' \in {"ack", "late"}
    <3>1. last /\ Op(job) = "daemon.stop"
      BY <1>0, <1>1, <2>2, JobKnown DEF Sends
    <3> QED BY <2>2, <3>1 DEF Sends
  <2> QED BY <2>1, <2>2, FramesFrom
<1>2. ASSUME pc \in {"ack", "late"}, sock[Conn(job)] = "gone" \/ [req |-> job, last |-> TRUE] \in Items(got[Conn(job)])
      PROVE  /\ pc' \in {"ack", "late"} /\ job' = job
             /\ sock'[Conn(job)] = "gone" \/ [req |-> job, last |-> TRUE] \in Items(got'[Conn(job)])
  BY <1>2, PcStep, JobKnown, AtStep, GotStays
<1>3. ASSUME acked', ~acked
      PROVE  /\ pc' \in {"ack", "late"} /\ job' = job
             /\ sock'[Conn(job)] = "gone" \/ [req |-> job, last |-> TRUE] \in Items(got'[Conn(job)])
  <2>1. PICK c \in Conns :
           /\ frames[c] # <<>> /\ Head(frames[c]).last /\ Op(Head(frames[c]).req) = "daemon.stop"
           /\ (sock' = sock /\ sock[c] = "gone") \/ got'[c] = Append(got[c], Head(frames[c]))
    BY <1>3, AckedStep
  <2>2. /\ Head(frames[c]) \in Frame /\ Conn(Head(frames[c]).req) = c
        /\ Head(frames[c]) \in Items(frames[c])
    BY <2>1, FramesHead
  <2>3. Head(frames[c]).req = job /\ pc \in {"ack", "late"}
    BY <2>1, <2>2 DEF Acks
  <2>4. Head(frames[c]) = [req |-> job, last |-> TRUE] /\ Conn(job) = c
    BY <2>1, <2>2, <2>3 DEF Frame
  <2>5. CASE got'[c] = Append(got[c], Head(frames[c]))
    <3>1. Head(frames[c]) \in Items(got'[c])
      BY <2>2, <2>5, ItemsAppend DEF TypeOK
    <3> QED BY <2>3, <2>4, <3>1, PcStep
  <2> QED BY <2>1, <2>3, <2>4, <2>5, PcStep
<1>4. ASSUME acked'
      PROVE  /\ pc' \in {"ack", "late"} /\ job' = job
             /\ sock'[Conn(job)] = "gone" \/ [req |-> job, last |-> TRUE] \in Items(got'[Conn(job)])
  BY <1>2, <1>3, <1>4 DEF Acks
<1>5. acked' => asked'[job'].conn = asked[job].conn
  BY <1>0, <1>4, PcStep, NextJobFits, Remembered DEF Conn, JobFits, Belongs
<1> QED BY <1>1, <1>4, <1>5 DEF Acks, Items, Conn, Op

\* Every step that tells a turn to stop was asked for by its client.
LEMMA NextStopsAreMeant == Base /\ Lined /\ StopsAreMeant /\ [Next]_vars => StopsAreMeant'
<1> SUFFICES ASSUME Base, Lined, StopsAreMeant, [Next]_vars, NEW r \in cancel'
             PROVE  \/ sock'[Conn(r)'] = "gone"
                    \/ \E q \in r + 1 .. Len(asked') :
                         Conn(q)' = Conn(r)' /\ Op(q)' = "stop" /\ Id(q)' \in {NoId, Id(r)'}
  BY DEF StopsAreMeant, Conn, Op, Id
<1> USE DEF Base
<1>0. \A q \in Known : /\ q \in Known' /\ Conn(q)' = Conn(q) /\ Op(q)' = Op(q) /\ Id(q)' = Id(q)
                       /\ q \in Nat /\ Conn(q) \in Conns
  BY Remembered, KnownTyped
<1>1. /\ r \in Known
      /\ \/ sock[Conn(r)] = "gone"
         \/ \E q \in Known : r < q /\ Conn(q) = Conn(r) /\ Op(q) = "stop" /\ Id(q) \in {NoId, Id(r)}
  <2>1. CASE r \in cancel
    <3>1. r \in Known /\ r \in Nat
      BY <1>0, <2>1 DEF Belongs
    <3>2. ASSUME NEW q \in r + 1 .. Len(asked) PROVE q \in Known /\ r < q
      BY <3>1 DEF Known, TypeOK
    <3> QED BY <2>1, <3>1, <3>2 DEF StopsAreMeant
  <2>2. CASE r \notin cancel
    <3>1. PICK c \in Conns, i \in Ids :
           /\ r = turns[c][i] /\ r # 0
           /\ \/ sock[c] = "gone"
              \/ /\ inbox[c] # <<>> /\ Op(Head(inbox[c])) = "stop"
                 /\ Id(Head(inbox[c])) \in {NoId, i}
      BY <2>2, CancelStep
    <3>2. r \in Known /\ Conn(r) = c /\ Id(r) = i
      BY <3>1 DEF Belongs
    <3>3. inbox[c] # <<>> => /\ Head(inbox[c]) \in Known /\ Conn(Head(inbox[c])) = c
                             /\ r < Head(inbox[c])
      BY <3>1, InboxHead DEF Lined
    <3> QED BY <3>1, <3>2, <3>3
  <2> QED BY <2>1, <2>2
<1>2. CASE sock[Conn(r)] = "gone"
  BY <1>0, <1>1, <1>2, AtStep
<1>3. ASSUME NEW q \in Known, r < q, Conn(q) = Conn(r), Op(q) = "stop", Id(q) \in {NoId, Id(r)}
      PROVE  /\ q \in r + 1 .. Len(asked')
             /\ Conn(q)' = Conn(r)' /\ Op(q)' = "stop" /\ Id(q)' \in {NoId, Id(r)'}
  BY <1>0, <1>1, <1>3, NextTyped DEF Known, TypeOK
<1> QED BY <1>1, <1>2, <1>3

---------------------------------------------------------------------------
(* The map of turns is what is pending.                                    *)

Busy      == {"turn", "send", "work", "over"}
Mapped(c) == {turns[c][i] : i \in Ids} \ {0}
Waits(c)  == {r \in Known : /\ Conn(r) = c /\ Id(r) # NoId
                            /\ r \in Items(queue) \/ (job = r /\ pc \in Busy)}

\* What TurnsArePending asks for is what is waited for and has an id.
LEMMA PendingWaits ==
  ASSUME NEW c
  PROVE  /\ {r \in Pending(c) : Id(r) # NoId} = Waits(c)
         /\ {r \in Pending(c)' : Id(r)' # NoId} = Waits(c)'
<1>1. {r \in Pending(c) : Id(r) # NoId} = Waits(c)
  BY DEF Pending, Waits, Known, Items, Busy
<1>2. {r \in Pending(c)' : Id(r)' # NoId} = Waits(c)'
  BY DEF Pending, Waits, Known, Items, Busy
<1> QED BY <1>1, <1>2

\* What will be pending, said of the requests there are.
LEMMA WaitsNow ==
  ASSUME Base, [Next]_vars, NEW c \in Conns, NEW r
  PROVE  r \in Waits(c)' <=>
           /\ r \in Known /\ Conn(r) = c /\ Id(r) # NoId
           /\ r \in Items(queue') \/ (job' = r /\ pc' \in Busy)
<1> USE DEF Base
<1>0. \A q \in Known : q \in Known' /\ Conn(q)' = Conn(q) /\ Id(q)' = Id(q)
  BY Remembered
<1>1. r \in Items(queue') => r \in Known
  BY QueueFrom, InboxHead DEF Belongs, Reads
<1>2. job' = r /\ pc' \in Busy => r \in Known
  <2>1. pc' \in Busy => job' # 0
    BY NextJobFits DEF JobFits, Busy
  <2> QED BY <2>1, JobStep, QueueHead DEF Belongs
<1>3. Items(queue)' = Items(queue')
  BY DEF Items
<1> QED BY <1>0, <1>1, <1>2, <1>3 DEF Waits

\* The process does not come back.
LEMMA ExitStep == ASSUME [Next]_vars, exited PROVE exited'
BY DEF Next, Client, Ask, HangUp, Thread, WsWrite, WsDrained, WsTick, WsStop, WsRequest, WsClosed,
       LineRequest, LineClosed, HttpRequest, Serve, Take, SinkRefuses, SendChunk, Forget, Reply, Exit,
       SinkTakes, Finish, WaitRunsOut, Panic, vars, disp, threads, Running, Up

\* Ids that are apart after a step were so before: requests are only added.
LEMMA NumbersStayApart ==
  ASSUME Base, [Next]_vars, NEW c \in Conns, NumbersApart(c)'
  PROVE  NumbersApart(c)
<1> SUFFICES ASSUME NEW r \in Known, NEW q \in Known,
                    Conn(r) = c, Conn(q) = c, Id(r) = Id(q), Id(r) # NoId,
                    Op(r) # "stop", Op(q) # "stop"
             PROVE  r = q
  BY DEF NumbersApart, Known
<1>1. /\ r \in Known' /\ Conn(r)' = Conn(r) /\ Id(r)' = Id(r) /\ Op(r)' = Op(r)
      /\ q \in Known' /\ Conn(q)' = Conn(q) /\ Id(q)' = Id(q) /\ Op(q)' = Op(q)
  BY Remembered DEF Base
<1> QED BY <1>1 DEF NumbersApart, Known

\* A sequence is its head and its tail.
LEMMA ItemsSplit ==
  ASSUME NEW S, NEW s \in Seq(S), s # <<>> PROVE Items(s) = Items(Tail(s)) \union {Head(s)}
<1>1. ASSUME NEW i \in 1 .. Len(s) PROVE s[i] \in Items(Tail(s)) \union {Head(s)}
  <2>1. CASE i = 1
    BY <2>1, TailAt
  <2>2. CASE i # 1
    <3>1. i - 1 \in 1 .. Len(Tail(s)) /\ (i - 1) + 1 = i
      BY <2>2, TailAt
    <3>2. Tail(s)[i - 1] = s[i]
      BY <3>1, TailAt
    <3> QED BY <3>1, <3>2 DEF Items
  <2> QED BY <2>1, <2>2
<1>2. Items(s) \subseteq Items(Tail(s)) \union {Head(s)}
  BY <1>1 DEF Items
<1> QED BY <1>2, ItemsTail

\* A request registered and queued: in the map under its own id, and with no other of
\* that id before it, if the client numbers its requests apart.
LEMMA RequestKeepsTurns ==
  ASSUME Base, Lined, [Next]_vars, NEW c \in Conns, Wire[c] = "ws", NumbersApart(c),
         Mapped(c) = Waits(c), NEW d \in Conns, WsRequest(d), DispatcherAlive
  PROVE  Mapped(c)' = Waits(c)'
<1> USE DEF Base
<1> DEFINE r == Head(inbox[d])
<1>1. /\ r \in Known /\ Conn(r) = d /\ Op(r) # "stop" /\ r \in Reqs /\ r # 0
      /\ Id(r) \in Ids \union {NoId}
      /\ turns' = IF Id(r) = NoId THEN turns ELSE [turns EXCEPT ![d][Id(r)] = r]
      /\ Items(queue') = Items(queue) \union {r} /\ UNCHANGED <<job, pc>>
  BY InboxHead, KnownTyped, QueuedTyped DEF WsRequest
<1> HIDE DEF r
<1>2. turns \in [Conns -> [Ids -> Reqs \union {0}]]
  BY DEF TypeOK
<1>3. \A q : q \in Waits(c)' <=> q \in Waits(c) \/ (q = r /\ d = c /\ Id(r) # NoId)
  BY <1>1, WaitsNow DEF Waits
<1>4. CASE d # c \/ Id(r) = NoId
  <2>1. turns'[c] = turns[c]
    BY <1>1, <1>2, <1>4
  <2> QED BY <1>3, <1>4, <2>1 DEF Mapped
<1>5. CASE d = c /\ Id(r) # NoId
  <2>1. turns[c][Id(r)] = 0
    <3> DEFINE q == turns[c][Id(r)]
    <3> SUFFICES ASSUME q # 0 PROVE FALSE
      OBVIOUS
    <3>1. Id(r) \in Ids
      BY <1>1, <1>5
    <3>2. q \in Known /\ Conn(q) = c /\ Id(q) = Id(r) /\ q \in Mapped(c)
      BY <3>1 DEF Belongs, Mapped
    <3>3. Op(q) # "stop"
      <4>1. q \in Items(queue) \/ (job = q /\ pc \in Busy)
        BY <3>2 DEF Waits
      <4> QED BY <4>1, <3>2, JobKnown DEF Belongs, Busy
    <3>4. q < r
      BY <1>1, <1>5, <3>1, InboxHead DEF Lined, WsRequest, r
    <3>5. q = r
      BY <1>1, <1>5, <3>2, <3>3 DEF NumbersApart, Known
    <3>6. r \in Nat
      BY <1>1, KnownTyped
    <3> HIDE DEF q
    <3> QED BY <3>4, <3>5, <3>6
  <2>2. /\ turns'[c][Id(r)] = r /\ Id(r) \in Ids
        /\ \A i \in Ids : i # Id(r) => turns'[c][i] = turns[c][i]
    BY <1>1, <1>2, <1>5
  <2>3. \A q : q \in Mapped(c)' <=> q \in Mapped(c) \/ q = r
    BY <1>1, <2>1, <2>2 DEF Mapped
  <2>4. \A q : q \in Mapped(c)' <=> q \in Waits(c)'
    BY <1>3, <1>5, <2>3
  <2> QED BY <2>4 DEF Mapped, Waits
<1> QED BY <1>4, <1>5

\* A turn that is over: its id holds it, and no other id does.
LEMMA ForgetKeepsTurns ==
  ASSUME Base, Lined, [Next]_vars, NEW c \in Conns, Wire[c] = "ws",
         Mapped(c) = Waits(c), Forget
  PROVE  Mapped(c)' = Waits(c)'
<1> USE DEF Base
<1>1. /\ pc = "over" /\ pc' = "reply" /\ UNCHANGED <<queue, job>> /\ turns' = Without(job)
      /\ job \in Known /\ Conn(job) \in Conns /\ Id(job) \in Ids \union {NoId} /\ job # 0
  BY JobKnown, KnownTyped DEF Forget, Running
<1>2. turns \in [Conns -> [Ids -> Reqs \union {0}]]
  BY DEF TypeOK
<1>3. job \notin Items(queue)
  <2>1. job \in Items(queue) => job < job
    BY <1>1 DEF Lined
  <2> QED BY <1>1, <2>1, KnownTyped
<1>4. \A q : q \in Waits(c)' <=> q \in Waits(c) /\ q # job
  BY <1>1, <1>3, WaitsNow DEF Waits, Busy
<1>5. CASE Conn(job) # c \/ Id(job) = NoId
  <2>1. turns'[c] = turns[c]
    BY <1>1, <1>2, <1>5 DEF Without
  <2>2. job \notin Waits(c)
    BY <1>5 DEF Waits
  <2> QED BY <1>4, <2>1, <2>2 DEF Mapped
<1>6. CASE Conn(job) = c /\ Id(job) # NoId
  <2>1. /\ turns'[c][Id(job)] = 0 /\ Id(job) \in Ids
        /\ \A i \in Ids : i # Id(job) => turns'[c][i] = turns[c][i]
    BY <1>1, <1>2, <1>6 DEF Without
  <2>2. \A i \in Ids : turns[c][i] = job => i = Id(job)
    BY <1>1 DEF Belongs
  <2>3. job \in Mapped(c)
    BY <1>1, <1>6 DEF Waits, Busy
  <2>4. turns[c][Id(job)] = job
    BY <2>2, <2>3 DEF Mapped
  <2>5. \A q : q \in Mapped(c)' <=> q \in Mapped(c) /\ q # job
    BY <2>1, <2>2, <2>4 DEF Mapped
  <2> QED BY <1>4, <2>5
<1> QED BY <1>5, <1>6

\* A turn that goes from the queue to the dispatcher stays in the map.
LEMMA TakeKeepsTurns ==
  ASSUME Base, [Next]_vars, NEW c \in Conns, Wire[c] = "ws", Mapped(c) = Waits(c), Take
  PROVE  Mapped(c)' = Waits(c)'
<1> USE DEF Base
<1>1. /\ turns' = turns /\ pc = "idle" /\ queue # <<>> /\ queue' = Tail(queue)
      /\ \/ job' = Head(queue) /\ pc' \in Busy
         \/ Wire[Conn(Head(queue))] # "ws" /\ job' = job /\ pc' = pc
  BY DEF Take, NotRun, Running, threads, Busy
<1>2. Items(queue) = Items(queue') \union {Head(queue)}
  BY <1>1, ItemsSplit DEF TypeOK
<1>3. \A q : q \in Waits(c)' <=> q \in Waits(c)
  BY <1>1, <1>2, WaitsNow DEF Waits, Busy
<1> QED BY <1>1, <1>3 DEF Mapped

\* Every other step leaves alone what is pending of a WebSocket's.
LEMMA RestKeepsTurns ==
  ASSUME Base, [Next]_vars, NEW c \in Conns, Mapped(c) = Waits(c),
         turns' = turns,
         \A q \in Known : Conn(q) = c => (q \in Items(queue') <=> q \in Items(queue)),
         (job' = job /\ (pc \in Busy <=> pc' \in Busy)) \/ (pc \notin Busy /\ pc' \notin Busy)
  PROVE  Mapped(c)' = Waits(c)'
<1>1. \A q : q \in Waits(c)' <=> q \in Waits(c)
  BY WaitsNow DEF Waits
<1> QED BY <1>1 DEF Mapped

\* Whatever ids are used again, what the map holds is waited for: an id's entry is
\* taken over by a request that is queued, and goes with the turn that is over.
LEMMA MapStaysWaited ==
  ASSUME Base, Lined, [Next]_vars, pc' # "dead", NEW c \in Conns, Wire[c] = "ws",
         Mapped(c) \subseteq Waits(c)
  PROVE  Mapped(c)' \subseteq Waits(c)'
<1> USE DEF Base
<1>0. pc # "dead" /\ turns \in [Conns -> [Ids -> Reqs \union {0}]]
  BY PcStep DEF TypeOK
<1>1. ASSUME NEW d \in Conns, WsRequest(d) PROVE Mapped(c)' \subseteq Waits(c)'
  <2> DEFINE r == Head(inbox[d])
  <2>1. /\ r \in Known /\ Conn(r) = d /\ Id(r) \in Ids \union {NoId}
        /\ turns' = IF Id(r) = NoId THEN turns ELSE [turns EXCEPT ![d][Id(r)] = r]
        /\ Items(queue') = Items(queue) \union {r} /\ UNCHANGED <<job, pc>>
    BY <1>0, <1>1, InboxHead, KnownTyped, QueuedTyped DEF WsRequest, DispatcherAlive
  <2> HIDE DEF r
  <2>2. \A q : q \in Waits(c)' <=> q \in Waits(c) \/ (q = r /\ d = c /\ Id(r) # NoId)
    BY <2>1, WaitsNow DEF Waits
  <2>3. \A i \in Ids : turns'[c][i] = turns[c][i] \/ (d = c /\ Id(r) # NoId /\ turns'[c][i] = r)
    BY <1>0, <2>1
  <2>4. \A q : q \in Mapped(c)' => q \in Mapped(c) \/ (q = r /\ d = c /\ Id(r) # NoId)
    BY <2>3 DEF Mapped
  <2> QED BY <2>2, <2>4
<1>2. CASE Forget
  <2>1. /\ pc = "over" /\ UNCHANGED <<queue, job>> /\ turns' = Without(job)
        /\ job \in Known /\ Conn(job) \in Conns /\ Id(job) \in Ids \union {NoId} /\ job # 0
    BY <1>2, JobKnown, KnownTyped DEF Forget, Running
  <2>2. \A i \in Ids : turns'[c][i] = turns[c][i] \/ turns'[c][i] = 0
    BY <1>0, <2>1 DEF Without
  <2>3. \A i \in Ids : turns[c][i] = job => turns'[c][i] = 0
    <3> SUFFICES ASSUME NEW i \in Ids, turns[c][i] = job PROVE turns'[c][i] = 0
      OBVIOUS
    <3>1. Conn(job) = c /\ Id(job) = i
      BY <2>1 DEF Belongs
    <3>2. i # NoId
      BY NoIdIsNoId
    <3> QED BY <1>0, <2>1, <3>1, <3>2 DEF Without
  <2>4. \A q : q \in Mapped(c)' => q \in Mapped(c) /\ q # job
    BY <2>1, <2>2, <2>3 DEF Mapped
  <2>5. \A q : q \in Waits(c) /\ q # job => q \in Waits(c)'
    BY <2>1, WaitsNow DEF Waits
  <2> QED BY <2>4, <2>5
<1>3. CASE Take
  <2>1. /\ turns' = turns /\ pc = "idle" /\ queue # <<>> /\ queue' = Tail(queue)
        /\ \/ job' = Head(queue) /\ pc' \in Busy
           \/ Wire[Conn(Head(queue))] # "ws" /\ job' = job /\ pc' = pc
    BY <1>3 DEF Take, NotRun, Running, threads, Busy
  <2>2. Items(queue) = Items(queue') \union {Head(queue)}
    BY <2>1, ItemsSplit DEF TypeOK
  <2>3. \A q : q \in Waits(c) => q \in Waits(c)'
    BY <2>1, <2>2, WaitsNow DEF Waits, Busy
  <2> QED BY <2>1, <2>3 DEF Mapped
<1>4. ASSUME NEW d \in Conns, LineRequest(d) \/ HttpRequest(d) PROVE Mapped(c)' \subseteq Waits(c)'
  <2>1. /\ turns' = turns /\ job' = job /\ pc' = pc /\ queue' = Queued(Head(inbox[d]))
        /\ inbox[d] # <<>>
    BY <1>0, <1>4 DEF LineRequest, HttpRequest, DispatcherAlive
  <2>2. Items(queue') = Items(queue) \union {Head(inbox[d])}
    BY <2>1, InboxHead, QueuedTyped
  <2>3. \A q : q \in Waits(c) => q \in Waits(c)'
    BY <2>1, <2>2, WaitsNow DEF Waits
  <2> QED BY <2>1, <2>3 DEF Mapped
<1>5. CASE /\ UNCHANGED <<turns, queue>>
           /\ \/ job' = job /\ (pc \in Busy => pc' \in Busy)
              \/ pc \notin Busy
  <2>1. \A q : q \in Waits(c) => q \in Waits(c)'
    BY <1>5, WaitsNow DEF Waits
  <2> QED BY <1>5, <2>1 DEF Mapped
<1>6. CASE SinkRefuses \/ SinkTakes \/ SendChunk \/ Finish \/ WaitRunsOut \/ Reply \/ Exit
  <2>1. /\ UNCHANGED <<turns, queue>>
        /\ \/ job' = job /\ (pc \in Busy => pc' \in Busy)
           \/ pc \notin Busy
    BY <1>6 DEF SinkRefuses, SinkTakes, SendChunk, Finish, WaitRunsOut, Reply, Exit, Running, Busy, threads
  <2> QED BY <1>5, <2>1
<1>7. CASE UNCHANGED <<turns, queue, job, pc>>
  BY <1>5, <1>7
<1>8. ~Panic
  BY DEF Panic
<1> QED BY <1>1, <1>2, <1>3, <1>4, <1>6, <1>7, <1>8
        DEF Next, Client, Ask, HangUp, Thread, WsWrite, WsDrained, WsTick, WsStop, WsClosed,
            LineClosed, Serve, vars, disp, threads

\* Every step keeps the map of turns to what is queued or run.
LEMMA NextTurnsArePending ==
  Base /\ Lined /\ TurnsArePending /\ [Next]_vars => TurnsArePending'
<1> SUFFICES ASSUME Base, Lined, TurnsArePending, [Next]_vars, pc' # "dead", ~exited',
                    NEW c \in Conns, Wire[c] = "ws"
             PROVE  /\ Mapped(c)' \subseteq Waits(c)'
                    /\ NumbersApart(c)' => Mapped(c)' = Waits(c)'
  BY PendingWaits DEF TurnsArePending, DispatcherAlive, Mapped
<1>0. /\ pc # "dead" /\ ~exited
      /\ Mapped(c) \subseteq Waits(c)
      /\ NumbersApart(c) => Mapped(c) = Waits(c)
  <2>1. pc # "dead" /\ ~exited
    BY PcStep, ExitStep DEF Base
  <2> QED BY <2>1, PendingWaits DEF TurnsArePending, DispatcherAlive, Mapped
<1>s. Mapped(c)' \subseteq Waits(c)'
  BY <1>0, MapStaysWaited
<1> SUFFICES ASSUME NumbersApart(c)' PROVE Mapped(c)' = Waits(c)'
  BY <1>s
<1> USE DEF Base
<1>1. pc # "dead" /\ ~exited /\ NumbersApart(c)
  BY <1>0, NumbersStayApart
<1>2. Mapped(c) = Waits(c)
  BY <1>0, <1>1
<1>3. ASSUME NEW d \in Conns, WsRequest(d) PROVE Mapped(c)' = Waits(c)'
  BY <1>1, <1>2, <1>3, RequestKeepsTurns DEF DispatcherAlive
<1>4. ASSUME NEW d \in Conns, LineRequest(d) \/ HttpRequest(d) PROVE Mapped(c)' = Waits(c)'
  <2>1. /\ turns' = turns /\ job' = job /\ pc' = pc /\ queue' = Queued(Head(inbox[d]))
        /\ inbox[d] # <<>> /\ Wire[d] # "ws"
    BY <1>1, <1>4 DEF LineRequest, HttpRequest, DispatcherAlive
  <2>2. Head(inbox[d]) \in Reqs /\ Conn(Head(inbox[d])) # c
    BY <2>1, InboxHead
  <2>3. Items(queue') = Items(queue) \union {Head(inbox[d])}
    BY <2>1, <2>2, QueuedTyped
  <2> QED BY <1>2, <2>1, <2>2, <2>3, RestKeepsTurns
<1>5. CASE /\ UNCHANGED <<turns, queue>>
           /\ \/ job' = job /\ (pc \in Busy <=> pc' \in Busy)
              \/ pc \notin Busy /\ pc' \notin Busy
  BY <1>2, <1>5, RestKeepsTurns
<1>6. CASE SinkRefuses \/ SinkTakes \/ SendChunk \/ Finish \/ WaitRunsOut \/ Reply \/ Exit
  <2>1. /\ UNCHANGED <<turns, queue>>
        /\ \/ job' = job /\ (pc \in Busy <=> pc' \in Busy)
           \/ pc \notin Busy /\ pc' \notin Busy
    BY <1>6 DEF SinkRefuses, SinkTakes, SendChunk, Finish, WaitRunsOut, Reply, Exit, Running, Busy, threads
  <2> QED BY <1>5, <2>1
<1>7. CASE UNCHANGED <<turns, queue, job, pc>>
  BY <1>5, <1>7
<1>8. ~Panic
  BY DEF Panic
<1> QED BY <1>1, <1>2, <1>3, <1>4, <1>6, <1>7, <1>8, TakeKeepsTurns, ForgetKeepsTurns
        DEF Next, Client, Ask, HangUp, Thread, WsWrite, WsDrained, WsTick, WsStop, WsClosed,
            LineClosed, Serve, vars, disp, threads

---------------------------------------------------------------------------

\* Every step keeps the invariant.
LEMMA NextInv == IInv /\ [Next]_vars => IInv'
BY NextBase, NextLined, NextDelivery, NextAcks, NextStopsAreMeant, NextTurnsArePending DEF IInv

\* The invariant holds throughout.
LEMMA Invariance == Spec => []IInv
<1>1. Init => IInv
  BY InitInv
<1>2. IInv /\ [Next]_vars => IInv'
  BY NextInv
<1> QED BY <1>1, <1>2, PTL DEF Spec

\* Every variable keeps its type: the queue holds requests there are, and no turn sends
\* a piece past the bound.
THEOREM ServerTypeOK == Spec => []TypeOK
<1>1. IInv => TypeOK
  BY DEF IInv, Base
<1> QED BY <1>1, Invariance, PTL

\* What a client has read is a part of what was in order on the way to it.
LEMMA DeliveredInOrder == IInv => FramesInOrder
<1> SUFFICES ASSUME IInv, NEW c \in Conns, NEW i \in 1 .. Len(got[c]), NEW j \in 1 .. Len(got[c]), i < j
             PROVE  Fits(got[c][i], got[c][j])
  BY DEF FramesInOrder, Fits
<1>1. InOrder(got[c])
  BY DEF IInv, Delivery
<1> QED BY <1>1 DEF InOrder

\* server.rs:36-46: whatever the threads of the connections and the dispatcher do, a
\* reply is the last frame for its request and comes once, and a client is sent what
\* concerns its requests in the order it made them.
THEOREM ServerFramesInOrder == Spec => []FramesInOrder
BY Invariance, DeliveredInOrder, PTL

\* server.rs:33, 105-107: the map of a connection's turns holds nothing but what is
\* queued or run under an id, and all of that if the client numbers its requests apart.
THEOREM ServerTurnsArePending == Spec => []TurnsArePending
<1>1. IInv => TurnsArePending
  BY DEF IInv
<1> QED BY <1>1, Invariance, PTL

\* server.rs:33, 359-361: no turn is told to stop by another connection's stop, by one
\* for another id, or by one from before it was asked.
THEOREM ServerStopsAreMeant == Spec => []StopsAreMeant
<1>1. IInv => StopsAreMeant
  BY DEF IInv
<1> QED BY <1>1, Invariance, PTL

\* What the end of the process finds: the reply written, or its client gone.
LEMMA EndIsAnswered ==
  ASSUME IInv, [Next]_vars, exited', ~exited, pc # "late", Wire[Conn(job)] = "ws"
  PROVE  \/ sock[Conn(job)] = "gone"
         \/ \E i \in 1 .. Len(got[Conn(job)]) : got[Conn(job)][i] = [req |-> job, last |-> TRUE]
<1> USE DEF IInv, Base
<1>1. pc = "ack" /\ (acked \/ ~Listening(Conn(job)))
  BY DEF Next, Client, Ask, HangUp, Thread, WsWrite, WsDrained, WsTick, WsStop, WsRequest, WsClosed,
         LineRequest, LineClosed, HttpRequest, Serve, Take, SinkRefuses, SendChunk, Forget, Reply, Exit,
         SinkTakes, Finish, WaitRunsOut, Panic, vars, disp, threads
<1>2. Conn(job) \in Conns
  BY <1>1, JobKnown
<1>3. ~Listening(Conn(job)) => sock[Conn(job)] = "gone"
  BY <1>2 DEF Listening, Wires
<1>4. acked => \/ sock[Conn(job)] = "gone"
               \/ [req |-> job, last |-> TRUE] \in Items(got[Conn(job)])
  BY DEF Acks
<1> QED BY <1>1, <1>3, <1>4 DEF Items

\* server.rs:180-182: however the ws thread's write and the dispatcher's wait interleave,
\* the process does not end before the reply to daemon.stop is with its client, unless
\* that has gone or the wait ran out.
THEOREM ServerStopIsAnsweredFirst == Spec => StopIsAnsweredFirst
<1>1. IInv /\ [Next]_vars =>
        [exited' /\ ~exited /\ pc # "late" =>
           \/ Wire[Conn(job)] # "ws"
           \/ sock[Conn(job)] = "gone"
           \/ \E i \in 1 .. Len(got[Conn(job)]) : got[Conn(job)][i] = [req |-> job, last |-> TRUE]]_vars
  BY EndIsAnswered
<1> QED BY <1>1, Invariance, PTL DEF Spec, StopIsAnsweredFirst
---------------------------------------------------------------------------
(* The service seen from its clients.                                      *)

\* What a client that is there has been sent, or will be, is not taken back.
LEMMA SentStays ==
  ASSUME Base, [Next]_vars, NEW c \in Conns, sock[c] = "open"
  PROVE  Sent(c) \subseteq Sent(c)'
<1> USE DEF Base
<1> DEFINE Same == got'[c] = got[c] /\ frames'[c] = frames[c]
           More == \E f \in Frame :
                     \/ got'[c] = Append(got[c], f) /\ frames'[c] = frames[c]
                     \/ got'[c] = got[c] /\ frames'[c] = Append(frames[c], f)
           Stays == Sent(c) \subseteq Sent(c)'
<1>0. /\ got \in [Conns -> Seq(Frame)] /\ frames \in [Conns -> Seq(Frame)]
      /\ got[c] \in Seq(Frame) /\ frames[c] \in Seq(Frame)
  BY DEF TypeOK
<1>1. Sent(c)' = Items(got'[c]) \union Items(frames'[c])
  BY DEF Sent, Items
<1>2. CASE Same
  BY <1>1, <1>2 DEF Sent
<1>3. CASE More
  <2>1. PICK f \in Frame :
          \/ got'[c] = Append(got[c], f) /\ frames'[c] = frames[c]
          \/ got'[c] = got[c] /\ frames'[c] = Append(frames[c], f)
    BY <1>3
  <2>2. /\ Items(Append(got[c], f)) = Items(got[c]) \union {f}
        /\ Items(Append(frames[c], f)) = Items(frames[c]) \union {f}
    BY <1>0, ItemsAppend
  <2> QED BY <1>1, <2>1, <2>2 DEF Sent
<1>4. ASSUME NEW d \in Conns, WsWrite(d) PROVE Same \/ Stays
  <2>1. CASE c # d
    BY <1>0, <1>4, <2>1 DEF WsWrite, Write, EndThread
  <2>2. CASE c = d
    <3> DEFINE f == Head(frames[c])
    <3>1. frames[c] # <<>> /\ f \in Frame
      BY <1>4, <2>2, FramesHead DEF WsWrite
    <3>2. f = [req |-> f.req, last |-> f.last]
      BY <3>1 DEF Frame
    <3>3. got'[c] = Append(got[c], f) /\ frames'[c] = Tail(frames[c])
      BY <1>0, <1>4, <2>2, <3>2 DEF WsWrite, Write
    <3> HIDE DEF f
    <3>4. Items(got'[c]) = Items(got[c]) \union {f}
      BY <1>0, <3>1, <3>3, ItemsAppend
    <3>5. Items(frames[c]) = Items(frames'[c]) \union {f}
      BY <1>0, <3>1, <3>3, ItemsSplit DEF f
    <3> QED BY <1>1, <3>4, <3>5 DEF Sent
  <2> QED BY <2>1, <2>2
<1>5. ASSUME NEW d \in Conns, NEW r \in Reqs, AnswerHere(d, r) PROVE Same \/ More
  <2>1. [req |-> r, last |-> TRUE] \in Frame
    BY DEF Frame
  <2>2. CASE c # d
    BY <1>0, <1>5, <2>2 DEF AnswerHere, Write, EndThread
  <2>3. CASE c = d
    <3>1. got'[c] = Append(got[c], [req |-> r, last |-> TRUE]) /\ frames'[c] = frames[c]
      BY <1>0, <1>5, <2>3 DEF AnswerHere, Write
    <3> QED BY <2>1, <3>1
  <2> QED BY <2>2, <2>3
<1>6. ASSUME NEW d \in Conns, WsStop(d) \/ WsRequest(d) PROVE Same \/ More
  <2>1. Head(inbox[d]) \in Reqs
    BY <1>6, InboxHead DEF WsStop, WsRequest
  <2> QED BY <1>5, <1>6, <2>1 DEF WsStop, WsRequest
<1>7. ASSUME NEW d \in Conns, WsClosed(d) \/ LineClosed(d) PROVE Same
  <2>1. c # d
    BY <1>7 DEF WsClosed, LineClosed
  <2> QED BY <1>0, <1>7, <2>1 DEF WsClosed, LineClosed, EndThread
<1>8. ASSUME NEW d \in Conns, LineRequest(d) PROVE Same
  <2>1. Wire[d] # "ws" /\ frames[d] = <<>>
    BY <1>8 DEF LineRequest, Wires
  <2> QED BY <1>0, <1>8, <2>1 DEF LineRequest, EndThread
<1>9. ASSUME NEW d \in Conns, HttpRequest(d) PROVE Same \/ More
  <2>1. Wire[d] # "ws" /\ frames[d] = <<>> /\ inbox[d] # <<>>
    BY <1>9 DEF HttpRequest, Wires
  <2>2. [req |-> Head(inbox[d]), last |-> TRUE] \in Frame
    BY <2>1, InboxHead DEF Frame
  <2>3. frames'[c] = frames[c]
    BY <1>0, <1>9, <2>1 DEF HttpRequest, EndThread
  <2>4. \/ got' = got
        \/ got' = [got EXCEPT ![d] = Append(@, [req |-> Head(inbox[d]), last |-> TRUE])]
    BY <1>9 DEF HttpRequest, Write
  <2>5. got'[c] = got[c] \/ got'[c] = Append(got[c], [req |-> Head(inbox[d]), last |-> TRUE])
    BY <1>0, <2>4
  <2> QED BY <2>2, <2>3, <2>5
<1>10. ASSUME SendChunk \/ Reply PROVE Same \/ More
  <2>1. /\ Conn(job) \in Conns
        /\ \A last \in BOOLEAN : [req |-> job, last |-> last] \in Frame
    BY <1>10, JobKnown, JobsFrame DEF SendChunk, Reply, Running
  <2>2. \E last \in BOOLEAN :
          \/ UNCHANGED <<got, frames>>
          \/ got' = [got EXCEPT ![Conn(job)] = Append(@, [req |-> job, last |-> last])] /\ frames' = frames
          \/ got' = got /\ frames' = [frames EXCEPT ![Conn(job)] = Append(@, [req |-> job, last |-> last])]
    BY <1>10 DEF SendChunk, Reply, Write
  <2>3. PICK last \in BOOLEAN :
          \/ UNCHANGED <<got, frames>>
          \/ got' = [got EXCEPT ![Conn(job)] = Append(@, [req |-> job, last |-> last])] /\ frames' = frames
          \/ got' = got /\ frames' = [frames EXCEPT ![Conn(job)] = Append(@, [req |-> job, last |-> last])]
    BY <2>2
  <2>4. \/ got'[c] = got[c] /\ frames'[c] = frames[c]
        \/ got'[c] = Append(got[c], [req |-> job, last |-> last]) /\ frames'[c] = frames[c]
        \/ got'[c] = got[c] /\ frames'[c] = Append(frames[c], [req |-> job, last |-> last])
    BY <1>0, <2>1, <2>3
  <2> QED BY <2>1, <2>4
<1>11. ASSUME UNCHANGED <<got, frames>> PROVE Same
  BY <1>11
<1> HIDE DEF Same, More, Stays
<1>12. Same \/ More \/ Stays
  BY <1>4, <1>6, <1>7, <1>8, <1>9, <1>10, <1>11 DEF Next, Client, Ask, HangUp, Thread,
     WsDrained, WsTick, Serve, Take, SinkRefuses, Forget, Exit, SinkTakes, Finish,
     WaitRunsOut, Panic, vars, threads
<1> QED BY <1>2, <1>3, <1>12 DEF Stays

\* Whose request the dispatcher is done with has its reply under way, or is gone.
LEMMA JobIsAnswered ==
  ASSUME Base, [Next]_vars, job # 0, job' # job, pc' # "dead",
         NEW c \in Conns, c = Conn(job), sock[c] = "open"
  PROVE  [req |-> job, last |-> TRUE] \in Items(got'[c]) \union Items(frames'[c])
<1> USE DEF Base
<1>1. Reply
  BY DEF Next, Client, Ask, HangUp, Thread, WsWrite, WsDrained, WsTick, WsStop, WsRequest, WsClosed,
         LineRequest, LineClosed, HttpRequest, Serve, Take, SinkRefuses, SendChunk, Forget, Exit,
         SinkTakes, Finish, WaitRunsOut, Panic, vars, disp, threads, JobFits, Running
<1> DEFINE f == [req |-> job, last |-> TRUE]
<1>2. f \in Frame
  BY <1>1, JobsFrame DEF Reply, Running
<1>3. /\ got \in [Conns -> Seq(Frame)] /\ frames \in [Conns -> Seq(Frame)]
      /\ got[c] \in Seq(Frame) /\ frames[c] \in Seq(Frame)
  BY <1>2 DEF TypeOK
<1>4. \/ got' = [got EXCEPT ![c] = Append(@, f)]
      \/ frames' = [frames EXCEPT ![c] = Append(@, f)]
  <2>1. CASE Wire[c] = "ws"
    <3>1. Listening(c)
      BY <1>2, <2>1 DEF Wires, Listening, TypeOK
    <3> QED BY <1>1, <2>1, <3>1 DEF Reply
  <2>2. CASE Wire[c] # "ws"
    BY <1>1, <2>2 DEF Reply, Write
  <2> QED BY <2>1, <2>2
<1> HIDE DEF f
<1>5. got'[c] = Append(got[c], f) \/ frames'[c] = Append(frames[c], f)
  BY <1>3, <1>4
<1>6. f \in Items(Append(got[c], f)) /\ f \in Items(Append(frames[c], f))
  BY <1>2, <1>3, ItemsAppend
<1> QED BY <1>5, <1>6 DEF f

\* What the dispatcher takes off the queue becomes its job, unless its client is gone.
LEMMA QueuedStays ==
  ASSUME Base, [Next]_vars, NEW r \in Items(queue), pc' # "dead", sock[Conn(r)] = "open"
  PROVE  r \in Items(queue') \/ r = job'
<1> USE DEF Base
<1>0. queue \in Seq(Reqs)
  BY DEF TypeOK
<1>1. CASE Take
  <2>1. queue # <<>> /\ queue' = Tail(queue)
    BY <1>1 DEF Take
  <2>2. Items(queue) = Items(queue') \union {Head(queue)}
    BY <1>0, <2>1, ItemsSplit
  <2> QED BY <1>1, <2>2 DEF Take, NotRun
<1>2. ASSUME NEW c \in Conns, WsRequest(c) \/ LineRequest(c) \/ HttpRequest(c)
      PROVE  r \in Items(queue')
  <2>1. Head(inbox[c]) \in Reqs
    BY <1>2, InboxHead DEF WsRequest, LineRequest, HttpRequest
  <2>2. Items(Queued(Head(inbox[c]))) = Items(queue) \union {Head(inbox[c])}
    BY <2>1, QueuedTyped
  <2> QED BY <1>2, <2>2 DEF WsRequest, LineRequest, HttpRequest
<1>3. CASE UNCHANGED queue
  BY <1>3
<1>4. ~Panic
  BY DEF Panic
<1> QED BY <1>1, <1>2, <1>3, <1>4 DEF Next, Client, Ask, HangUp, Thread, WsWrite, WsDrained,
           WsTick, WsStop, WsClosed, LineClosed, Serve, SinkRefuses, SendChunk, Forget,
           Reply, Exit, SinkTakes, Finish, WaitRunsOut, vars, disp

\* What is read off a socket is queued, or answered at once; only a client that hangs up
\* may lose what it has sent.
LEMMA InboxStays ==
  ASSUME Base, [Next]_vars, NEW c \in Conns, NEW r \in Items(inbox[c]), pc' # "dead", sock'[c] = "open"
  PROVE  \/ r \in Items(inbox'[c]) \/ r \in Items(queue')
         \/ [req |-> r, last |-> TRUE] \in Items(got'[c])
<1> USE DEF Base
<1> DEFINE h == Head(inbox[c])
<1>0. /\ inbox \in [Conns -> Seq(Reqs)] /\ inbox[c] \in Seq(Reqs)
      /\ got \in [Conns -> Seq(Frame)] /\ got[c] \in Seq(Frame)
      /\ sock \in [Conns -> {"open", "gone"}]
  BY DEF TypeOK
<1>1. pc # "dead"
  BY PcStep
<1>2. inbox[c] # <<>>
  BY ItemsEmpty
<1>3. h \in Reqs /\ Items(inbox[c]) = Items(Tail(inbox[c])) \union {h}
  BY <1>0, <1>2, InboxHead, ItemsSplit
<1>4. ASSUME NEW d \in Conns, NEW op \in AllOps, NEW id \in Ids \union {NoId}, Ask(d, op, id)
      PROVE  r \in Items(inbox'[c])
  <2>1. inbox' = [inbox EXCEPT ![d] = Append(@, Len(asked) + 1)] /\ Len(asked) \in Nat
    BY <1>4 DEF Ask, TypeOK
  <2>2. inbox[c] \in Seq(Nat) /\ Len(asked) + 1 \in Nat
    BY <1>0, <2>1, ReqsAreNat
  <2>3. Items(Append(inbox[c], Len(asked) + 1)) = Items(inbox[c]) \union {Len(asked) + 1}
    BY <2>2, ItemsAppend
  <2>4. inbox'[c] = inbox[c] \/ inbox'[c] = Append(inbox[c], Len(asked) + 1)
    BY <1>0, <2>1
  <2> QED BY <2>3, <2>4
<1>5. ASSUME NEW d \in Conns, HangUp(d) PROVE r \in Items(inbox'[c])
  <2>1. d # c
    BY <1>0, <1>5 DEF HangUp
  <2> QED BY <1>0, <1>5, <2>1 DEF HangUp
<1>6. ASSUME NEW d \in Conns, d # c, inbox' = [inbox EXCEPT ![d] = Tail(@)] PROVE r \in Items(inbox'[c])
  BY <1>0, <1>6
<1>7. ASSUME inbox' = [inbox EXCEPT ![c] = Tail(@)], r # h PROVE r \in Items(inbox'[c])
  BY <1>0, <1>3, <1>7
<1>8. CASE WsStop(c)
  <2>1. sock[c] = "open"
    BY <1>8 DEF WsStop
  <2>2. got'[c] = Append(got[c], [req |-> h, last |-> TRUE])
    BY <1>0, <1>8, <2>1 DEF WsStop, AnswerHere, Write
  <2>3. [req |-> h, last |-> TRUE] \in Frame
    BY <1>3 DEF Frame
  <2>4. [req |-> h, last |-> TRUE] \in Items(got'[c])
    BY <1>0, <2>2, <2>3, ItemsAppend
  <2> QED BY <1>7, <1>8, <2>4 DEF WsStop
<1>9. CASE WsRequest(c) \/ LineRequest(c) \/ HttpRequest(c)
  <2>1. queue' = Queued(h) /\ inbox' = [inbox EXCEPT ![c] = Tail(@)]
    BY <1>1, <1>9 DEF WsRequest, LineRequest, HttpRequest, DispatcherAlive
  <2>2. h \in Items(queue')
    BY <1>3, <2>1, QueuedTyped
  <2> QED BY <1>7, <2>1, <2>2
<1>10. CASE UNCHANGED inbox
  BY <1>10
<1> HIDE DEF h
<1> QED BY <1>4, <1>5, <1>6, <1>8, <1>9, <1>10 DEF Next, Client, Thread, WsWrite, WsDrained, WsTick,
           WsStop, WsRequest, WsClosed, LineRequest, LineClosed, HttpRequest, Serve, Take,
           SinkRefuses, SendChunk, Forget, Reply, Exit, SinkTakes, Finish, WaitRunsOut, Panic,
           vars, threads

\* No request of a client that is there gets lost.
LEMMA NextNoneLost == Base /\ NoneLost /\ [Next]_vars => NoneLost'
<1> SUFFICES ASSUME Base, NoneLost, [Next]_vars, pc' # "dead",
                    NEW r \in Known', sock'[Conn(r)'] = "open"
             PROVE  \/ r \in Items(inbox'[Conn(r)']) \/ r \in Items(queue') \/ r = job'
                    \/ [req |-> r, last |-> TRUE] \in Items(got'[Conn(r)']) \union Items(frames'[Conn(r)'])
  BY DEF NoneLost, DispatcherAlive, Sent, Items, Known, Conn
<1> USE DEF Base
<1>1. pc # "dead"
  BY PcStep
<1>2. CASE r \notin Known
  <2>1. PICK c \in Conns, op \in AllOps, id \in Ids \union {NoId} : Ask(c, op, id)
    BY <1>2 DEF Known, Next, Client, HangUp, Thread, WsWrite, WsDrained, WsTick, WsStop, WsRequest,
       WsClosed, LineRequest, LineClosed, HttpRequest, Serve, Take, SinkRefuses, SendChunk, Forget,
       Reply, Exit, SinkTakes, Finish, WaitRunsOut, Panic, vars
  <2>2. [conn |-> c, id |-> id, op |-> op] \in Request /\ asked \in Seq(Request)
    BY DEF Request, TypeOK
  <2>3. asked' = Append(asked, [conn |-> c, id |-> id, op |-> op])
    BY <2>1 DEF Ask
  <2>4. Len(asked') = Len(asked) + 1 /\ Len(asked) \in Nat /\ asked'[Len(asked) + 1].conn = c
    BY <2>2, <2>3
  <2>5. r = Len(asked) + 1 /\ Conn(r)' = c
    BY <1>2, <2>4 DEF Known, Conn
  <2>6. inbox[c] \in Seq(Nat) /\ Len(asked) + 1 \in Nat
    <3>1. inbox[c] \in Seq(Reqs)
      BY DEF TypeOK
    <3> QED BY <2>4, <3>1, ReqsAreNat
  <2>7. inbox'[c] = Append(inbox[c], Len(asked) + 1)
    BY <2>1 DEF Ask, TypeOK
  <2>8. r \in Items(inbox'[c])
    BY <2>5, <2>6, <2>7, ItemsAppend
  <2> QED BY <2>5, <2>8
<1>3. CASE r \in Known
  <2>0. PICK c \in Conns : c = Conn(r) /\ r > 0
    BY <1>3, KnownTyped
  <2>1. Conn(r)' = c
    BY <1>3, <2>0, Remembered
  <2>2. sock[c] = "open"
    BY <2>1, AtStep DEF TypeOK
  <2>3. \/ r \in Items(inbox[c]) \/ r \in Items(queue) \/ r = job
        \/ [req |-> r, last |-> TRUE] \in Sent(c)
    BY <1>1, <1>3, <2>0, <2>2 DEF NoneLost, DispatcherAlive
  <2>4. Sent(c)' = Items(got'[c]) \union Items(frames'[c])
    BY DEF Sent, Items
  <2>5. CASE r \in Items(inbox[c])
    BY <2>1, <2>4, <2>5, InboxStays
  <2>6. CASE r \in Items(queue)
    BY <2>0, <2>2, <2>6, QueuedStays
  <2>7. CASE r = job
    <3>1. CASE job' = job
      BY <2>7, <3>1
    <3>2. CASE job' # job
      <4>1. [req |-> r, last |-> TRUE] \in Items(got'[c]) \union Items(frames'[c])
        <5>1. job # 0 /\ c = Conn(job)
          BY <2>0, <2>7
        <5>2. [req |-> job, last |-> TRUE] \in Items(got'[c]) \union Items(frames'[c])
          BY <5>1, <2>2, <3>2, JobIsAnswered
        <5> QED BY <2>7, <5>2
      <4> QED BY <2>1, <4>1
    <3> QED BY <3>1, <3>2
  <2>8. CASE [req |-> r, last |-> TRUE] \in Sent(c)
    BY <2>1, <2>2, <2>4, <2>8, SentStays
  <2> QED BY <2>3, <2>5, <2>6, <2>7, <2>8
<1> QED BY <1>2, <1>3

\* Only a turn has pieces, and what it was asked for stays as it was.
LEMMA NextPieces == Base /\ PiecesOfTurns /\ [Next]_vars => PiecesOfTurns'
<1> SUFFICES ASSUME Base, PiecesOfTurns, [Next]_vars, NEW c \in Conns, NEW f \in Sent(c)', ~f.last
             PROVE  Op(f.req)' = "chat"
  BY DEF PiecesOfTurns, Sent, Items
<1> USE DEF Base
<1>1. CASE f \in Sent(c)
  <2>1. f.req \in Known /\ Op(f.req) = "chat"
    BY <1>1 DEF Belongs, PiecesOfTurns
  <2> QED BY <2>1, Remembered
<1>2. CASE c = Conn(job) /\ Sends(FALSE) /\ f = [req |-> job, last |-> FALSE]
  <2>1. pc = "send" /\ asked' = asked
    BY <1>2 DEF Sends
  <2>2. Op(job) = "chat"
    BY <2>1 DEF JobFits, Streams
  <2> QED BY <1>2, <2>1, <2>2 DEF Op
<1>3. \A last \in BOOLEAN : f = [req |-> job, last |-> last] => last = FALSE
  OBVIOUS
<1>4. f # [req |-> Head(inbox[c]), last |-> TRUE]
  OBVIOUS
<1> QED BY <1>1, <1>2, <1>3, <1>4, SentFrom

\* What a client sees of the daemon: every request that is there is followed.
Followed == IInv /\ NoneLost /\ PiecesOfTurns

\* Every reachable state has the invariant, loses no request and sends pieces of turns only.
LEMMA FollowedAlways == Spec => []Followed
<1>1. Init => Followed
  <2> SUFFICES ASSUME Init PROVE Followed
    OBVIOUS
  <2>1. Known = {} /\ \A c \in Conns : Sent(c) = {}
    BY ItemsEmpty DEF Init, Known, Sent
  <2>2. NoneLost /\ PiecesOfTurns
    BY <2>1 DEF NoneLost, PiecesOfTurns
  <2> QED BY <2>2, InitInv DEF Followed
<1>2. Followed /\ [Next]_vars => Followed'
  BY NextInv, NextNoneLost, NextPieces DEF Followed, IInv
<1> QED BY <1>1, <1>2, PTL DEF Spec

\* The abstract specification's state and operators in terms of this one's.
LEMMA ClientsAre ==
  /\ Clients!Init <=> /\ asked = <<>> /\ DispatcherAlive = TRUE
                      /\ [c \in Conns |-> sock[c] = "open"] = [c \in Conns |-> TRUE]
                      /\ got = [c \in Conns |-> <<>>]
  /\ \A r : Clients!Conn(r) = Conn(r) /\ Clients!Op(r) = Op(r)
  /\ \A r : Clients!Answered(r) <=> [req |-> r, last |-> TRUE] \in Items(got[Conn(r)])
<1>1. \A r : Clients!Conn(r) = Conn(r) /\ Clients!Op(r) = Op(r)
  BY DEF Clients!Conn, Clients!Op, Conn, Op
<1>2. \A r : Clients!Answered(r) <=> [req |-> r, last |-> TRUE] \in Items(got[Conn(r)])
  BY <1>1 DEF Clients!Answered, Items
<1> QED BY <1>1, <1>2 DEF Clients!Init

\* A frame written to a client that is there is a piece or an answer, if its request has
\* none yet, and none of those before it that is no stop waits for one.
LEMMA Told ==
  ASSUME TypeOK, NEW r \in Known, NEW c \in Conns, c = Conn(r), NEW last \in BOOLEAN,
         Write(c, r, last), sock[c] = "open", UNCHANGED <<asked, sock, DispatcherAlive>>,
         [req |-> r, last |-> TRUE] \notin Items(got[c]),
         ~last => Op(r) = "chat",
         \/ Op(r) = "stop" /\ last
         \/ DispatcherAlive =>
              \A q \in Known : Conn(q) = c /\ q < r /\ Op(q) # "stop"
                                 => [req |-> q, last |-> TRUE] \in Items(got[c])
  PROVE  Clients!Next
<1>1. Clients!Tell(r, last)
  <2>1. [d \in Conns |-> sock[d] = "open"][Clients!Conn(r)]
    BY ClientsAre
  <2>2. got' = [got EXCEPT ![Clients!Conn(r)] = Append(@, [req |-> r, last |-> last])]
    BY ClientsAre DEF Write
  <2>3. ~Clients!Answered(r)
    BY ClientsAre
  <2>4. UNCHANGED <<asked, [d \in Conns |-> sock[d] = "open"], DispatcherAlive>>
    OBVIOUS
  <2> QED BY <2>1, <2>2, <2>3, <2>4 DEF Clients!Tell
<1>2. ASSUME DispatcherAlive =>
               \A q \in Known : Conn(q) = c /\ q < r /\ Op(q) # "stop"
                                  => [req |-> q, last |-> TRUE] \in Items(got[c])
      PROVE  Clients!Due(r)
  <2> SUFFICES ASSUME DispatcherAlive, NEW q \in Clients!Waiting(Clients!Conn(r)), q < r
               PROVE  Clients!Op(q) = "stop"
    BY DEF Clients!Due
  <2>1. q \in Known /\ Conn(q) = c /\ [req |-> q, last |-> TRUE] \notin Items(got[c])
    BY ClientsAre DEF Clients!Waiting, Known
  <2> QED BY <1>2, <2>1, ClientsAre
<1>3. CASE last
  <2>1. Clients!Answer(r)
    BY <1>1, <1>2, <1>3, ClientsAre DEF Clients!Answer
  <2> QED BY <2>1 DEF Clients!Next, Known
<1>4. CASE ~last
  <2>1. Clients!Piece(r)
    BY <1>1, <1>2, <1>4, ClientsAre DEF Clients!Piece
  <2> QED BY <2>1 DEF Clients!Next, Known
<1> QED BY <1>3, <1>4

\* What comes out of a channel is for a request that has no reply yet, and whose
\* forerunners have theirs.
LEMMA ChannelHeadIsDue ==
  ASSUME Followed, NEW c \in Conns, frames[c] # <<>>, sock[c] = "open", NEW r, r = Head(frames[c]).req
  PROVE  /\ [req |-> r, last |-> TRUE] \notin Items(got[c])
         /\ DispatcherAlive =>
              \A q \in Known : Conn(q) = c /\ q < r /\ Op(q) # "stop"
                                 => [req |-> q, last |-> TRUE] \in Items(got[c])
<1> USE DEF Followed, IInv, Base
<1> DEFINE f == Head(frames[c])
<1>1. /\ frames[c] \in Seq(Frame) /\ f \in Items(frames[c]) /\ f \in Sent(c)
      /\ r \in Known /\ Conn(r) = c /\ Op(r) # "stop" /\ r \in Nat
  <2>1. frames[c] \in Seq(Frame) /\ f \in Items(frames[c]) /\ f \in Sent(c)
    BY ItemsTail DEF TypeOK, Sent
  <2>2. r \in Known /\ Conn(r) = c /\ Op(r) # "stop"
    BY <2>1 DEF Belongs, Delivery
  <2> QED BY <2>1, <2>2, KnownTyped
<1> HIDE DEF f
<1>2. ASSUME [req |-> r, last |-> TRUE] \in Items(got[c]) PROVE FALSE
  <2>1. Fits([req |-> r, last |-> TRUE], f)
    BY <1>1, <1>2 DEF Delivery
  <2> QED BY <2>1 DEF Fits, f
<1>3. ASSUME DispatcherAlive, NEW q \in Known, Conn(q) = c, q < r, Op(q) # "stop"
      PROVE  [req |-> q, last |-> TRUE] \in Items(got[c])
  <2>1. q \in Nat /\ q > 0
    BY KnownTyped
  <2>2. q \notin Items(inbox[c])
    <3>1. \A x \in Items(inbox[c]) : f.req < x
      BY <1>1 DEF Lined
    <3> QED BY <1>1, <1>3, <2>1, <3>1 DEF f
  <2>3. q \notin Items(queue) /\ q # job
    BY <1>1, <1>3, <2>1 DEF Delivery, f
  <2>4. [req |-> q, last |-> TRUE] \in Sent(c)
    BY <1>3, <2>2, <2>3 DEF NoneLost
  <2>5. ASSUME [req |-> q, last |-> TRUE] \in Items(frames[c]) PROVE FALSE
    <3>1. [req |-> q, last |-> TRUE] # f
      BY <1>3, <2>1, <1>1 DEF f
    <3>2. [req |-> q, last |-> TRUE] \in Items(Tail(frames[c]))
      BY <1>1, <2>5, <3>1, ItemsSplit DEF f
    <3>3. Fits(f, [req |-> q, last |-> TRUE])
      BY <1>1, <3>2, InOrderTail DEF Delivery, f
    <3>4. f.req <= q
      BY <1>1, <1>3, <3>3 DEF Fits, f
    <3> QED BY <1>1, <1>3, <2>1, <3>4 DEF f
  <2> QED BY <2>4, <2>5 DEF Sent
<1> QED BY <1>2, <1>3

\* Where nothing is in a channel, what the dispatcher is at has no reply yet, and its
\* forerunners have theirs.
LEMMA JobIsDue ==
  ASSUME Followed, NEW c \in Conns, c = Conn(job), frames[c] = <<>>, sock[c] = "open", pc \in {"send", "reply"}
  PROVE  /\ [req |-> job, last |-> TRUE] \notin Items(got[c])
         /\ \A q \in Known : Conn(q) = c /\ q < job /\ Op(q) # "stop"
                               => [req |-> q, last |-> TRUE] \in Items(got[c])
<1> USE DEF Followed, IInv, Base
<1>1. job \in Known /\ Op(job) # "stop" /\ job \in Nat /\ job > 0
  BY JobKnown, KnownTyped
<1>2. ASSUME [req |-> job, last |-> TRUE] \in Items(got[c]) PROVE FALSE
  BY <1>1, <1>2 DEF Delivery, Sent
<1>3. ASSUME NEW q \in Known, Conn(q) = c, q < job, Op(q) # "stop"
      PROVE  [req |-> q, last |-> TRUE] \in Items(got[c])
  <2>1. q \in Nat /\ q > 0
    BY KnownTyped
  <2>2. q \notin Items(inbox[c]) /\ q \notin Items(queue)
    <3>1. \A x \in Items(inbox[c]) : job < x
      BY <1>1 DEF Lined
    <3>2. \A x \in Items(queue) : Conn(x) = c => job < x
      BY <1>1 DEF Lined
    <3> QED BY <1>1, <1>3, <2>1, <3>1, <3>2
  <2>3. [req |-> q, last |-> TRUE] \in Sent(c)
    BY <1>3, <2>1, <2>2 DEF NoneLost, DispatcherAlive
  <2> QED BY <2>3, ItemsEmpty DEF Sent
<1> QED BY <1>2, <1>3

\* What is read off a socket has no reply yet.
LEMMA UnreadIsUnanswered ==
  ASSUME Followed, NEW c \in Conns, inbox[c] # <<>>
  PROVE  [req |-> Head(inbox[c]), last |-> TRUE] \notin Items(got[c])
<1> USE DEF Followed, IInv, Base
<1>1. Head(inbox[c]) \in Items(inbox[c]) /\ Head(inbox[c]) \in Nat
  BY InboxHead, KnownTyped
<1> QED BY <1>1 DEF Lined, Sent

\* Each thing a client is sent is a piece or an answer of the service.
LEMMA WriteStep ==
  ASSUME Followed, Next, got' # got PROVE Clients!Next
<1> USE DEF Followed, IInv, Base
<1>1. ASSUME NEW c \in Conns, WsWrite(c) PROVE Clients!Next
  <2> DEFINE f == Head(frames[c])
  <2>1. /\ frames[c] # <<>> /\ sock[c] = "open" /\ Write(c, f.req, f.last)
        /\ UNCHANGED <<asked, sock, DispatcherAlive>>
    BY <1>1 DEF WsWrite, DispatcherAlive
  <2>2. f \in Sent(c) /\ f.last \in BOOLEAN
    <3>1. frames[c] \in Seq(Frame)
      BY DEF TypeOK
    <3>2. f \in Items(frames[c]) /\ f \in Frame
      BY <2>1, <3>1, ItemsTail, TailAt
    <3> QED BY <3>2 DEF Sent, Frame
  <2>3. f.req \in Known /\ Conn(f.req) = c /\ (~f.last => Op(f.req) = "chat")
    BY <2>2 DEF Belongs, PiecesOfTurns
  <2>4. /\ [req |-> f.req, last |-> TRUE] \notin Items(got[c])
        /\ DispatcherAlive =>
             \A q \in Known : Conn(q) = c /\ q < f.req /\ Op(q) # "stop"
                                => [req |-> q, last |-> TRUE] \in Items(got[c])
    BY <2>1, ChannelHeadIsDue
  <2> HIDE DEF f
  <2> QED BY <2>1, <2>2, <2>3, <2>4, Told
<1>2. ASSUME NEW c \in Conns, WsStop(c) \/ WsRequest(c) \/ HttpRequest(c) PROVE Clients!Next
  <2> DEFINE r == Head(inbox[c])
  <2>1. /\ inbox[c] # <<>> /\ sock[c] = "open" /\ Write(c, r, TRUE)
        /\ UNCHANGED <<asked, sock, DispatcherAlive>>
        /\ Op(r) = "stop" \/ ~DispatcherAlive
    BY <1>2 DEF WsStop, WsRequest, HttpRequest, AnswerHere, disp, DispatcherAlive
  <2>2. r \in Known /\ Conn(r) = c
    BY <2>1, InboxHead
  <2>3. [req |-> r, last |-> TRUE] \notin Items(got[c])
    BY <2>1, UnreadIsUnanswered
  <2> HIDE DEF r
  <2> QED BY <2>1, <2>2, <2>3, Told
<1>3. ASSUME SendChunk \/ Reply PROVE Clients!Next
  <2>1. PICK c \in Conns : c = Conn(job)
    BY <1>3, JobKnown DEF SendChunk, Reply, Running
  <2>2. PICK last \in BOOLEAN :
          /\ pc = (IF last THEN "reply" ELSE "send") /\ Wire[c] # "ws" /\ sock[c] = "open"
          /\ Write(c, job, last) /\ UNCHANGED <<asked, sock>>
          /\ pc' # "dead"
    BY <1>3, <2>1 DEF SendChunk, Reply, Running
  <2>3. job \in Known /\ frames[c] = <<>>
    BY <2>2, JobKnown DEF Wires
  <2>4. ~last => Op(job) = "chat"
    BY <2>2 DEF JobFits, Streams
  <2>5. /\ [req |-> job, last |-> TRUE] \notin Items(got[c])
        /\ \A q \in Known : Conn(q) = c /\ q < job /\ Op(q) # "stop"
                              => [req |-> q, last |-> TRUE] \in Items(got[c])
    BY <2>1, <2>2, <2>3, JobIsDue
  <2>6. DispatcherAlive' = DispatcherAlive
    BY <2>2 DEF DispatcherAlive
  <2> QED BY <2>1, <2>2, <2>3, <2>4, <2>5, <2>6, Told
<1> QED BY <1>1, <1>2, <1>3 DEF Next, Client, Ask, HangUp, Thread, WsDrained, WsTick, WsClosed,
           LineRequest, LineClosed, Serve, Take, SinkRefuses, Forget, Exit, SinkTakes, Finish,
           WaitRunsOut, Panic, threads

\* A step that sends a client nothing is a step of the service's, or leaves it as it is.
LEMMA QuietStep ==
  ASSUME Followed, Next, got' = got PROVE Clients!Next \/ UNCHANGED Clients!vars
<1> USE DEF Followed, IInv, Base
<1> DEFINE Open == [d \in Conns |-> sock[d] = "open"]
<1>1. ASSUME NEW c \in Conns, NEW op \in AllOps, NEW id \in Ids \union {NoId}, Ask(c, op, id)
      PROVE  Clients!Next
  <2> DEFINE q == [conn |-> c, id |-> id, op |-> op]
  <2>1. q \in Request /\ q.conn = c
    BY DEF Request
  <2>2. /\ sock[c] = "open" /\ asked' = Append(asked, q)
        /\ UNCHANGED <<sock, got, pc>>
    BY <1>1 DEF Ask, disp
  <2>3. Open[q.conn]
    BY <2>1, <2>2
  <2>4. UNCHANGED <<Open, got, DispatcherAlive>>
    BY <2>2 DEF DispatcherAlive
  <2> HIDE DEF q
  <2>5. Clients!Ask(q)
    BY <2>2, <2>3, <2>4 DEF Clients!Ask
  <2> QED BY <2>1, <2>5 DEF Clients!Next
<1>2. ASSUME NEW c \in Conns, HangUp(c) PROVE Clients!Next
  <2>1. sock[c] = "open" /\ sock' = [sock EXCEPT ![c] = "gone"] /\ UNCHANGED <<asked, got, pc>>
    BY <1>2 DEF HangUp, disp
  <2>2. Open' = [Open EXCEPT ![c] = FALSE]
    <3>1. ASSUME NEW d \in Conns PROVE Open'[d] = [Open EXCEPT ![c] = FALSE][d]
      BY <2>1 DEF TypeOK
    <3> QED BY <3>1
  <2>3. Open[c] /\ UNCHANGED <<asked, got, DispatcherAlive>>
    BY <2>1 DEF DispatcherAlive
  <2>4. Clients!HangUp(c)
    BY <2>2, <2>3 DEF Clients!HangUp
  <2> QED BY <2>4 DEF Clients!Next
<1>3. ASSUME Panic PROVE Clients!Next
  <2>1. DispatcherAlive /\ DispatcherAlive' = FALSE /\ UNCHANGED <<asked, sock, got>>
    BY <1>3 DEF Panic, DispatcherAlive, threads
  <2>2. UNCHANGED <<asked, Open, got>>
    BY <2>1
  <2>3. Clients!Panic
    BY <2>1, <2>2 DEF Clients!Panic
  <2> QED BY <2>3 DEF Clients!Next
<1>4. ASSUME UNCHANGED <<asked, sock>>, pc = "dead" <=> pc' = "dead" PROVE UNCHANGED Clients!vars
  BY <1>4 DEF Clients!vars, DispatcherAlive
<1>5. \/ UNCHANGED <<asked, sock>> /\ (pc = "dead" <=> pc' = "dead")
      \/ \E c \in Conns : \/ \E op \in AllOps, id \in Ids \union {NoId} : Ask(c, op, id)
                          \/ HangUp(c)
      \/ Panic
  BY DEF Next, Client, Thread, WsWrite, WsDrained, WsTick, WsStop, WsRequest, WsClosed,
     LineRequest, LineClosed, HttpRequest, Serve, Take, SinkRefuses, SendChunk, Forget, Reply, Exit,
     SinkTakes, Finish, WaitRunsOut, threads, disp, Running
<1> QED BY <1>1, <1>2, <1>3, <1>4, <1>5

\* server.rs:36-46, 52-53: the threads of the connections, the channels, the queue and
\* the dispatcher implement module Service, in which the requests of a client are answered
\* one after the other and none is passed over: whatever the order in which the threads
\* come to run, and whoever hangs up.
THEOREM ServerServesInTurn == Spec => ServesInTurn
<1>1. Init => Clients!Init
  BY ClientsAre DEF Init, DispatcherAlive
<1>2. Followed /\ [Next]_vars => [Clients!Next]_Clients!vars
  <2>1. CASE Next
    BY <2>1, WriteStep, QuietStep
  <2>2. CASE UNCHANGED vars
    BY <2>2 DEF vars, threads, disp, Clients!vars, DispatcherAlive
  <2> QED BY <2>1, <2>2
<1> QED BY <1>1, <1>2, FollowedAlways, PTL DEF Spec, Clients!Spec, ServesInTurn

=============================================================================
