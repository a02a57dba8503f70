---------------------------- MODULE ListenProofs ----------------------------
(***************************************************************************)
(* OneAtATime of module Listen, for any number of daemons and clients.  On *)
(* its own it is not inductive: that a daemon which comes up is alone rests *)
(* on what its check saw some steps before, and on nobody having come up   *)
(* since, which is what not having raced says.                             *)
(***************************************************************************)
EXTENDS Listen, TLAPS

\* The windows of the daemons and of the clients.
Open(d)    == pc[d] \in {"bind", "port", "pid", "unport", "unpid"}
Looking(c) == cl[c] = "unlink"

\* While nobody has raced, at most one party is in its window.
NoOverlap == ~raced => \A x, y \in Busy : x = y

\* A daemon that accepts is alone, and the files it has written still name it.
Alone ==
  ~raced => /\ \A d, e \in Daemons : Accepting(d) /\ Accepting(e) => d = e
            /\ \A d \in Daemons : pc[d] \in {"pid", "serve", "unport"} => portFile = d
            /\ \A d \in Daemons : pc[d] = "serve" => pidFile = d

\* Whoever has found that nobody answers finds it still so.
NobodyElse ==
  ~raced => /\ \A d, e \in Daemons : pc[d] \in {"bind", "port"} /\ Accepting(e) => d = e
            /\ \A c \in Clients, d \in Daemons : Looking(c) => ~Accepting(d)
            /\ \A d \in Daemons : make = "rm" => ~Accepting(d)

IInv == TypeOK /\ NoOverlap /\ Alone /\ NobodyElse

\* Init gives every file, daemon and client its type.
LEMMA InitTyped == Init => TypeOK
<1> SUFFICES ASSUME Init PROVE TypeOK
  OBVIOUS
<1>1. left \in 0 .. MaxUpsets
  BY UpsetsAreNat DEF Init
<1> QED BY <1>1 DEF Init, TypeOK

\* Every action, of whoever it is, keeps the type of what it changes.
LEMMA NextTyped == TypeOK /\ [Next]_vars => TypeOK'
<1> SUFFICES ASSUME TypeOK, [Next]_vars PROVE TypeOK'
  OBVIOUS
<1>0. left' \in 0 .. MaxUpsets
  <2>1. left \in 0 .. MaxUpsets
    BY DEF TypeOK
  <2>2. \/ left' = left
        \/ left > 0 /\ left' = left - 1
    BY DEF Next, vars
  <2> QED BY <2>1, <2>2, UpsetsAreNat
<1> USE <1>0 DEF TypeOK, files, clients, Goto, Move
<1>1. CASE UNCHANGED vars
  BY <1>1 DEF vars
<1>2. ASSUME NEW d \in Daemons, Daemon(d) \/ Die(d) \/ Launch(d), Mark PROVE TypeOK'
  BY <1>2 DEF Daemon, TakeStop, Check, Bind, WritePort, WritePid, RemovePort, RemovePid, Die, Launch, Mark
<1>3. ASSUME NEW c \in Clients, Client(c) \/ GiveUp(c), Mark PROVE TypeOK'
  <2>1. raced' \in BOOLEAN
    BY <1>3 DEF Mark
  <2>2. CASE Look(c) \/ Poll(c)
    BY <2>1, <2>2 DEF Look, Poll, Answers
  <2>3. CASE Unlink(c) \/ Lost(c) \/ GiveUp(c)
    BY <2>1, <2>3 DEF Unlink, Lost, GiveUp
  <2>4. CASE Spawn(c)
    BY <2>1, <2>4 DEF Spawn
  <2> QED BY <1>3, <2>2, <2>3, <2>4 DEF Client
<1>4. ASSUME NEW c \in Clients, Quit(c), Mark PROVE TypeOK'
  BY <1>4 DEF Quit, Mark, Target, Answers
<1>5. ASSUME Kill \/ Remove, Mark PROVE TypeOK'
  BY <1>5 DEF Kill, Remove, Mark
<1> QED BY <1>1, <1>2, <1>3, <1>4, <1>5 DEF Next, Upset

\* An overlap of windows is noted in the step that makes it.
LEMMA MarkNoOverlap == NoOverlap /\ Mark => NoOverlap'
BY DEF NoOverlap, Mark

\* What it means for a step that ends unraced: before it nobody had raced, and
\* after it at most one daemon, client or make is in its window.
LEMMA Windows ==
  ASSUME TypeOK, Mark, ~raced'
  PROVE  /\ ~raced
         /\ \A d, e \in Daemons : Open(d)' /\ Open(e)' => d = e
         /\ \A c \in Clients, d \in Daemons : ~(Looking(c)' /\ Open(d)')
         /\ \A d \in Daemons : ~(make' = "rm" /\ Open(d)')
         /\ \A c \in Clients : ~(make' = "rm" /\ Looking(c)')
<1>1. ~raced /\ \A x, y \in Busy' : x = y
  BY DEF Mark
<1>2. /\ \A d \in Daemons : Open(d)' => d \in Busy'
      /\ \A c \in Clients : Looking(c)' => c \in Busy'
      /\ make' = "rm" => "make" \in Busy'
  BY DEF Busy, Open, Looking
<1> QED BY <1>1, <1>2, AllApart

\* A daemon's own step: only one that nobody answers goes on past its check, and
\* it meets nobody else until it has written its files or removed them.
LEMMA DaemonStep ==
  ASSUME IInv, NEW d \in Daemons, Daemon(d) \/ Die(d) \/ Launch(d), Mark
  PROVE  Alone' /\ NobodyElse'
<1> SUFFICES ASSUME ~raced' PROVE Alone' /\ NobodyElse'
  BY DEF Alone, NobodyElse
<1> USE DEF IInv, TypeOK, Alone, NobodyElse, Accepting, Open, Looking, files, clients, Goto
<1>0. TypeOK
  OBVIOUS
<1>1. CASE Launch(d) \/ Die(d)
  BY <1>0, <1>1, Windows DEF Launch, Die
<1>2. CASE Check(d)
  BY <1>0, <1>2, Windows, AllApart DEF Check, Answers
<1>3. CASE Bind(d)
  BY <1>0, <1>3, Windows DEF Bind
<1>4. CASE WritePort(d)
  BY <1>0, <1>4, Windows DEF WritePort
<1>5. CASE WritePid(d)
  BY <1>0, <1>5, Windows DEF WritePid
<1>6. CASE RemovePort(d)
  BY <1>0, <1>6, Windows DEF RemovePort
<1>7. CASE RemovePid(d)
  BY <1>0, <1>7, Windows DEF RemovePid
<1>8. CASE TakeStop(d)
  BY <1>0, <1>8, Windows DEF TakeStop
<1> QED BY <1>1, <1>2, <1>3, <1>4, <1>5, <1>6, <1>7, <1>8 DEF Daemon

\* A client that finds an answer changes nothing; one that finds none is alone
\* until it has removed the port file, which by then names nobody who accepts.
LEMMA ClientStep ==
  ASSUME IInv, NEW c \in Clients, Client(c) \/ GiveUp(c) \/ Quit(c), Mark
  PROVE  Alone' /\ NobodyElse'
<1> SUFFICES ASSUME ~raced' PROVE Alone' /\ NobodyElse'
  BY DEF Alone, NobodyElse
<1> USE DEF IInv, TypeOK, Alone, NobodyElse, Accepting, Open, Looking, files, clients, Goto, Move
<1>0. TypeOK
  OBVIOUS
<1>1. CASE Look(c)
  BY <1>0, <1>1, Windows, AllApart DEF Look, Answers
<1>2. CASE Unlink(c)
  BY <1>0, <1>2, Windows DEF Unlink
<1>3. CASE Spawn(c)
  BY <1>0, <1>3, Windows DEF Spawn
<1>4. CASE Poll(c) \/ GiveUp(c) \/ Lost(c)
  BY <1>0, <1>4, Windows DEF Poll, GiveUp, Lost
<1>5. CASE Quit(c)
  BY <1>0, <1>5, Windows DEF Quit
<1> QED BY <1>1, <1>2, <1>3, <1>4, <1>5 DEF Client

\* make stop kills the daemon there is, if there is one, and only then removes
\* what it left.
LEMMA MakeStep ==
  ASSUME IInv, Kill \/ Remove, Mark
  PROVE  Alone' /\ NobodyElse'
<1> SUFFICES ASSUME ~raced' PROVE Alone' /\ NobodyElse'
  BY DEF Alone, NobodyElse
<1> USE DEF IInv, TypeOK, Alone, NobodyElse, Accepting, Open, Looking, files, clients
<1>0. TypeOK
  OBVIOUS
<1>1. CASE Kill
  BY <1>0, <1>1, Windows DEF Kill
<1>2. CASE Remove
  BY <1>0, <1>2, Windows DEF Remove
<1> QED BY <1>1, <1>2

\* The strengthened invariant holds at the start and is kept by every step.
LEMMA Inductive == Spec => []IInv
<1>1. Init => IInv
  <2> SUFFICES ASSUME Init PROVE IInv
    OBVIOUS
  <2>1. TypeOK
    BY InitTyped
  <2>2. Busy = {}
    BY DEF Init, Busy
  <2>3. NoOverlap /\ Alone /\ NobodyElse
    BY <2>2 DEF Init, NoOverlap, Alone, NobodyElse, Accepting, Looking
  <2> QED BY <2>1, <2>3 DEF IInv
<1>2. IInv /\ [Next]_vars => IInv'
  <2> SUFFICES ASSUME IInv, [Next]_vars PROVE IInv'
    OBVIOUS
  <2>1. TypeOK'
    BY NextTyped DEF IInv
  <2>2. CASE UNCHANGED vars
    BY <2>1, <2>2 DEF IInv, NoOverlap, Alone, NobodyElse, Accepting, Looking, Busy, vars
  <2>3. CASE Next
    <3>1. Mark
      BY <2>3 DEF Next
    <3>2. NoOverlap'
      BY <3>1, MarkNoOverlap DEF IInv
    <3>3. Alone' /\ NobodyElse'
      BY <2>3, <3>1, DaemonStep, ClientStep, MakeStep DEF Next, Upset
    <3> QED BY <2>1, <3>2, <3>3 DEF IInv
  <2> QED BY <2>2, <2>3
<1> QED BY <1>1, <1>2, PTL DEF Spec

\* Every variable keeps its type.
THEOREM ListenTypeOK == Spec => []TypeOK
<1>1. IInv => TypeOK
  BY DEF IInv
<1> QED BY <1>1, Inductive, PTL

\* server.rs:112-115, for any number of daemons and clients and through any number
\* of crashes, stops and stale files: while no two starts, stops and clean-ups have
\* overlapped there is at most one daemon, and the port file names it.
THEOREM ListenOneAtATime == Spec => []OneAtATime
<1>1. IInv => OneAtATime
  BY DEF IInv, Alone, OneAtATime
<1> QED BY <1>1, Inductive, PTL
=============================================================================
