------------------------------- MODULE Listen -------------------------------
(***************************************************************************)
(* One daemon per space: `agentd listen` (rust/rustagent/src/server.rs),   *)
(* the clients that look for it by the port file and start it when nobody  *)
(* answers (robots/src/backend_worker.lua, rust/rustcli/src/client.rs,     *)
(* lua/jarvis/client.lua), and `make stop`.  They share two files of the   *)
(* space, agentd.port and agentd.pid, with no lock around either.          *)
(*                                                                         *)
(* A daemon binds an ephemeral port, which nobody else ever has: a process *)
(* of Daemons stands for its port and its pid too.  Left out: supervisord, *)
(* a pinned port, and the library the worker may use in place of a daemon. *)
(***************************************************************************)

EXTENDS Naturals, FiniteSets

CONSTANTS
  Daemons,    \* processes that may be started as daemons of the space
  Clients,
  Owners,     \* clients that stop at quit a daemon they started
  Nobody,
  MaxUpsets   \* bound: daemons that die, and starts, stops, quits and waits given up

ASSUME OwnersAreClients == Owners \subseteq Clients
ASSUME AllApart         == /\ Daemons \intersect Clients = {}
                           /\ {Nobody, "make"} \intersect (Daemons \union Clients) = {}
                           /\ Nobody # "make"
ASSUME UpsetsAreNat     == MaxUpsets \in Nat

VARIABLES
  pc,        \* pc[d]: where daemon d is in listen
  by,        \* by[d]: the client that started d, or Nobody for the operator
  portFile,  \* the daemon agentd.port names, or Nobody
  pidFile,   \* the daemon agentd.pid names, or Nobody
  cl,        \* cl[c]: where client c is
  conn,      \* conn[c]: the daemon c is connected to, or Nobody
  spawned,   \* spawned[c]: c has started a daemon at some time
  told,      \* the daemons sent a daemon.stop they have not taken yet
  make,      \* "idle", or "rm" between make stop's kill and its rm
  raced,     \* history: two parties were in their windows at once
  left       \* upsets still to come

files   == <<portFile, pidFile>>
clients == <<cl, conn, spawned, told>>
vars    == <<pc, by, portFile, pidFile, cl, conn, spawned, told, make, raced, left>>

Accepting(d) == pc[d] \in {"port", "pid", "serve", "unport", "unpid"}

\* The daemon the port file leads to, if it names one that accepts.
Answers == portFile # Nobody /\ Accepting(portFile)

\* The windows: between a party's look at the files or its decision to go and its
\* last write to them.
Busy == {d \in Daemons : pc[d] \in {"bind", "port", "pid", "unport", "unpid"}}
          \union {c \in Clients : cl[c] = "unlink"}
          \union {m \in {"make"} : make = "rm"}

Mark == raced' = (raced \/ \E x, y \in Busy' : x # y)

---------------------------------------------------------------------------
(* The daemon.                                                             *)

Goto(d, l) == pc' = [pc EXCEPT ![d] = l]

\* make start, or a shell.
Launch(d) ==
  /\ pc[d] = "new"
  /\ Goto(d, "check")
  /\ UNCHANGED <<by, files, clients, make>>

\* Mutant of Check: no look at the port file.
CheckNothing(d) ==
  /\ pc[d] = "check"
  /\ Goto(d, "bind")
  /\ UNCHANGED <<by, files, clients, make>>

\* already_listening: another daemon answers, so this one is not needed.
Check(d) ==
  /\ pc[d] = "check"
  /\ Goto(d, IF Answers THEN "gone" ELSE "bind")
  /\ UNCHANGED <<by, files, clients, make>>

Bind(d) ==
  /\ pc[d] = "bind"
  /\ Goto(d, "port")
  /\ UNCHANGED <<by, files, clients, make>>

WritePort(d) ==
  /\ pc[d] = "port"
  /\ portFile' = d
  /\ Goto(d, "pid")
  /\ UNCHANGED <<by, pidFile, clients, make>>

WritePid(d) ==
  /\ pc[d] = "pid"
  /\ pidFile' = d
  /\ Goto(d, "serve")
  /\ UNCHANGED <<by, portFile, clients, make>>

\* A daemon.stop waits in the backlog of the socket until the daemon serves; then it
\* is answered ...
TakeStop(d) ==
  /\ pc[d] = "serve" /\ d \in told
  /\ told' = told \ {d}
  /\ Goto(d, "unport")
  /\ UNCHANGED <<by, files, cl, conn, spawned, make>>

\* ... and cleanup removes both files, whoever they name, and the process ends.
RemovePort(d) ==
  /\ pc[d] = "unport"
  /\ portFile' = Nobody
  /\ Goto(d, "unpid")
  /\ UNCHANGED <<by, pidFile, clients, make>>

RemovePid(d) ==
  /\ pc[d] = "unpid"
  /\ pidFile' = Nobody
  /\ Goto(d, "gone")
  /\ UNCHANGED <<by, portFile, clients, make>>

\* A crash or a signal: nothing is cleaned up.
Die(d) ==
  /\ pc[d] \notin {"new", "gone"}
  /\ Goto(d, "gone")
  /\ UNCHANGED <<by, files, clients, make>>

---------------------------------------------------------------------------
(* make stop: a kill by the pid file, then both files go.                  *)

Kill ==
  /\ make = "idle" /\ pidFile # Nobody
  /\ pc' = [pc EXCEPT ![pidFile] = "gone"]
  /\ make' = "rm"
  /\ UNCHANGED <<by, files, clients>>

Remove ==
  /\ make = "rm"
  /\ portFile' = Nobody /\ pidFile' = Nobody
  /\ make' = "idle"
  /\ UNCHANGED <<pc, by, clients>>

---------------------------------------------------------------------------
(* A client with something to ask.                                         *)

Move(c, l) == cl' = [cl EXCEPT ![c] = l]

\* The daemon of the port file, if it accepts; else one has to be started ...
Look(c) ==
  /\ cl[c] = "look"
  /\ IF Answers
       THEN Move(c, "on") /\ conn' = [conn EXCEPT ![c] = portFile]
       ELSE Move(c, "unlink") /\ UNCHANGED conn
  /\ UNCHANGED <<pc, by, files, spawned, told, make>>

\* ... after the port file, taken for a corpse's, has been removed.
Unlink(c) ==
  /\ cl[c] = "unlink"
  /\ portFile' = Nobody
  /\ Move(c, "spawn")
  /\ UNCHANGED <<pc, by, pidFile, conn, spawned, told, make>>

Spawn(c) ==
  /\ cl[c] = "spawn"
  /\ \E d \in Daemons :
       /\ pc[d] = "new"
       /\ Goto(d, "check")
       /\ by' = [by EXCEPT ![d] = c]
  /\ spawned' = [spawned EXCEPT ![c] = TRUE]
  /\ Move(c, "wait")
  /\ UNCHANGED <<files, conn, told, make>>

\* Mutant of Poll: only the daemon it started itself will do.
PollOwn(c) ==
  /\ cl[c] = "wait" /\ Answers /\ by[portFile] = c
  /\ Move(c, "on")
  /\ conn' = [conn EXCEPT ![c] = portFile]
  /\ UNCHANGED <<pc, by, files, spawned, told, make>>

\* Every 0.15 s, for 20 seconds.
Poll(c) ==
  /\ cl[c] = "wait" /\ Answers
  /\ Move(c, "on")
  /\ conn' = [conn EXCEPT ![c] = portFile]
  /\ UNCHANGED <<pc, by, files, spawned, told, make>>

\* The job fails, and the next one starts over.
GiveUp(c) ==
  /\ cl[c] = "wait"
  /\ Move(c, "look")
  /\ UNCHANGED <<pc, by, files, conn, spawned, told, make>>

\* The connection closes with its daemon; the next request looks again.
Lost(c) ==
  /\ cl[c] = "on" /\ pc[conn[c]] = "gone"
  /\ Move(c, "look")
  /\ conn' = [conn EXCEPT ![c] = Nobody]
  /\ UNCHANGED <<pc, by, files, spawned, told, make>>

\* The daemon an owner sends daemon.stop to as it quits: the one it is connected
\* to, or else the one the port file leads to.
Target(c) == IF cl[c] = "on" /\ pc[conn[c]] # "gone" THEN conn[c]
             ELSE IF Answers THEN portFile ELSE Nobody

Quit(c) ==
  /\ cl[c] \in {"look", "on"}
  /\ told' = told \union {d \in {Target(c)} : /\ c \in Owners /\ spawned[c] /\ d # Nobody
                                             /\ pc[d] \in {"port", "pid", "serve"}}
  /\ Move(c, "quit")
  /\ conn' = [conn EXCEPT ![c] = Nobody]
  /\ UNCHANGED <<pc, by, files, spawned, make>>

---------------------------------------------------------------------------
Init ==
  /\ pc = [d \in Daemons |-> "new"]
  /\ by = [d \in Daemons |-> Nobody]
  /\ portFile = Nobody /\ pidFile = Nobody
  /\ cl = [c \in Clients |-> "look"]
  /\ conn = [c \in Clients |-> Nobody]
  /\ spawned = [c \in Clients |-> FALSE]
  /\ told = {}
  /\ make = "idle" /\ raced = FALSE /\ left \in {0, MaxUpsets}

Daemon(d) == \/ Check(d) \/ Bind(d) \/ WritePort(d) \/ WritePid(d)
             \/ TakeStop(d) \/ RemovePort(d) \/ RemovePid(d)
Client(c) == Look(c) \/ Unlink(c) \/ Spawn(c) \/ Poll(c) \/ Lost(c)

Upset == \/ \E d \in Daemons : Die(d) \/ Launch(d)
         \/ \E c \in Clients : GiveUp(c) \/ Quit(c)
         \/ Kill

Next ==
  /\ \/ /\ (\E d \in Daemons : Daemon(d)) \/ (\E c \in Clients : Client(c)) \/ Remove
        /\ UNCHANGED left
     \/ /\ Upset
        /\ left > 0 /\ left' = left - 1
  /\ Mark

Spec == Init /\ [][Next]_vars

\* Processes run; `make stop` goes on to its rm.
FairSpec ==
  /\ Spec
  /\ \A d \in Daemons : WF_vars(Daemon(d) /\ UNCHANGED left /\ Mark)
  /\ \A c \in Clients : WF_vars(Client(c) /\ UNCHANGED left /\ Mark)

---------------------------------------------------------------------------
(* Properties.                                                             *)

TypeOK ==
  /\ pc \in [Daemons -> {"new", "check", "bind", "port", "pid", "serve", "unport", "unpid", "gone"}]
  /\ by \in [Daemons -> Clients \union {Nobody}]
  /\ portFile \in Daemons \union {Nobody} /\ pidFile \in Daemons \union {Nobody}
  /\ cl \in [Clients -> {"look", "unlink", "spawn", "wait", "on", "quit"}]
  /\ conn \in [Clients -> Daemons \union {Nobody}]
  /\ spawned \in [Clients -> BOOLEAN]
  /\ told \subseteq Daemons
  /\ make \in {"idle", "rm"} /\ raced \in BOOLEAN /\ left \in 0 .. MaxUpsets

\* server.rs:112-115: as long as no two starts, stops and clean-ups of a space
\* overlap, through every crash and stale file there is at most one daemon, and the
\* port file its clients read is its own.
OneAtATime ==
  ~raced => /\ \A d, e \in Daemons : Accepting(d) /\ Accepting(e) => d = e
            /\ \A d \in Daemons : pc[d] = "serve" => portFile = d

\* Nothing more goes wrong, nobody is on the way up or down, and there are processes
\* enough to start; what came before may have left any port file behind.
Calm == /\ left = 0 /\ make = "idle"
        /\ \A d \in Daemons : pc[d] \in {"new", "serve", "gone"}
        /\ \A d \in told : pc[d] # "serve"
        /\ \A c \in Clients : cl[c] \in {"look", "on", "quit"}
        /\ Cardinality({d \in Daemons : pc[d] = "new"}) >= Cardinality({c \in Clients : cl[c] # "quit"})

\* backend_worker.lua:93-116, client.rs:129-153: however many clients find no daemon
\* at once, unlink each other's port file and start one each, and whatever crash or
\* stop left behind, every one of them comes to be connected once that is over.
EveryClientConnects == \A c \in Clients : Calm /\ cl[c] = "look" ~> cl[c] = "on"
=============================================================================
