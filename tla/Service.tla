------------------------------ MODULE Service ------------------------------
(***************************************************************************)
(* What a daemon promises its clients (rust/rustagent/src/server.rs): the  *)
(* requests of a connection are answered one after the other, in the order *)
(* its client sent them, each with the pieces of its turn and then one     *)
(* reply; a stop may be answered at any time.  None is passed over: while  *)
(* a client is there, nothing is sent to it for a request as long as one   *)
(* before it has no reply.  There are no threads here, no channels, no     *)
(* queue and no map of turns.                                              *)
(*                                                                         *)
(* `up` is where the promise ends: once the backend has panicked, requests *)
(* are refused as they come, and some are never answered.                  *)
(***************************************************************************)
EXTENDS Naturals, Sequences

CONSTANTS
  Conns,    \* connections a client opens
  Request   \* what may be asked: records with a connection and an op

VARIABLES
  asked,    \* the requests clients sent, in order
  there,    \* there[c]: the client of c has not hung up
  told,     \* told[c]: what it was sent, in order
  up        \* the backend has not panicked

vars == <<asked, there, told, up>>

Conn(r) == asked[r].conn
Op(r)   == asked[r].op

Answered(r) == \E i \in 1 .. Len(told[Conn(r)]) : told[Conn(r)][i] = [req |-> r, last |-> TRUE]

\* What the client of c waits for an answer to.
Waiting(c) == {r \in 1 .. Len(asked) : Conn(r) = c /\ ~Answered(r)}

\* Nothing its client has asked before waits, but for stops.
Due(r) == up => \A q \in Waiting(Conn(r)) : q < r => Op(q) = "stop"

Ask(q) ==
  /\ there[q.conn]
  /\ asked' = Append(asked, q)
  /\ UNCHANGED <<there, told, up>>

HangUp(c) ==
  /\ there[c]
  /\ there' = [there EXCEPT ![c] = FALSE]
  /\ UNCHANGED <<asked, told, up>>

Tell(r, last) ==
  /\ there[Conn(r)]
  /\ told' = [told EXCEPT ![Conn(r)] = Append(@, [req |-> r, last |-> last])]
  /\ ~Answered(r)
  /\ UNCHANGED <<asked, there, up>>

\* A piece of a turn.
Piece(r) == Op(r) = "chat" /\ Tell(r, FALSE) /\ Due(r)

\* The reply.
Answer(r) == Tell(r, TRUE) /\ (Op(r) = "stop" \/ Due(r))

Panic == up /\ up' = FALSE /\ UNCHANGED <<asked, there, told>>

Init ==
  /\ asked = <<>> /\ up = TRUE
  /\ there = [c \in Conns |-> TRUE]
  /\ told  = [c \in Conns |-> <<>>]

Next ==
  \/ \E q \in Request : Ask(q)
  \/ \E c \in Conns : HangUp(c)
  \/ \E r \in 1 .. Len(asked) : Piece(r) \/ Answer(r)
  \/ Panic

Spec == Init /\ [][Next]_vars
=============================================================================
