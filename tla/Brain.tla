------------------------------- MODULE Brain -------------------------------
(***************************************************************************)
(* Which brain answers a turn: rust/rustagent/src/proto.rs (the lock-held  *)
(* `Ai` and everything that reads it), provider.rs and the parts of        *)
(* setup.rs, ondevice.rs and ollama.rs they ask.  The operator's wishes    *)
(* are settings in the space, which any process of the space may write;    *)
(* the clients built from them live in this process, with the last answer  *)
(* of the local ollama daemon, trusted for PROBE_TTL.  One thread runs all *)
(* of it; what moves between its steps is the world: time, the daemon, the *)
(* files of the model, another process's settings.                         *)
(*                                                                         *)
(* Left out: what the environment pins over the space's settings, what is  *)
(* generated, and the embedder (module Embedding).                         *)
(***************************************************************************)
EXTENDS Naturals

CONSTANT HasEngine   \* whether this build carries the MLX engine

ASSUME HasEngineIsBoolean == HasEngine \in BOOLEAN

Choices == {"auto", "ondevice", "cloud"}             \* provider
Engines == {"auto", "mlx", "ollama", "off"}          \* ondevice.engine
\* `near`: ondevice.host is on this machine; `keyed`: the cloud can be dialled.
Setup   == [engine : Engines, near : BOOLEAN, keyed : BOOLEAN]
Keys    == {"engine", "near", "keyed"}
Probes  == {"none", "up", "down"}

VARIABLES
  choice,   \* the provider setting of the space
  stored,   \* the other settings of the space
  weights,  \* the model's files are on disk
  daemon,   \* the local ollama is up and has the model
  setup,    \* the setup this process last resolved
  probe,    \* the daemon's last answer to this process
  fresh,    \* that answer is younger than PROBE_TTL
  pc,       \* "idle", "engine", "run", "set", "rewire", or "dead" after a panic
  turn,     \* the turn: the choice it read, what effective() said, its engine
  todo,     \* what is left of a config.set to write
  behind    \* history: settings were written that this process has not resolved

space == <<choice, stored>>
world == <<weights, daemon>>
ai    == <<setup, probe, fresh>>
vars  == <<choice, stored, weights, daemon, setup, probe, fresh, pc, turn, todo, behind>>

NoTurn == [choice |-> "auto", eff |-> "offline", engine |-> "off"]
NoTodo == [keys |-> {}, to |-> [engine |-> "auto", near |-> TRUE, keyed |-> FALSE]]

---------------------------------------------------------------------------
(* The checks.                                                             *)

\* Is there a client for the local daemon?
Local(s) == s.engine \in {"auto", "ollama"} /\ s.near

MlxOk == HasEngine /\ weights

\* daemon_ok's answer: the cached one while it is fresh, else a new probe's.
DaemonOk == Local(setup) /\ IF fresh /\ probe # "none" THEN probe = "up" ELSE daemon

\* pick_engine, "off" for an error.
PickEngine ==
  CASE setup.engine = "off"    -> "off"
    [] setup.engine = "mlx"    -> IF MlxOk THEN "mlx" ELSE "off"
    [] setup.engine = "ollama" -> IF DaemonOk THEN "ollama" ELSE "off"
    [] setup.engine = "auto"   -> IF MlxOk THEN "mlx" ELSE IF DaemonOk THEN "ollama" ELSE "off"

\* Mutants of Effective: the choice itself is the answer; what cannot be had on
\* device is had from the cloud, whatever was chosen.
AsChosen(c, on, cloud) == c
AnyCloud(c, on, cloud) ==
  IF on /\ c # "cloud" THEN "ondevice" ELSE IF cloud THEN "cloud" ELSE "offline"

\* effective(): the outcome of a choice, given the two checks.
Effective(c, on, cloud) ==
  CASE c = "ondevice" -> IF on THEN "ondevice" ELSE "offline"
    [] c = "cloud"    -> IF cloud THEN "cloud" ELSE "offline"
    [] c = "auto"     -> IF on THEN "ondevice" ELSE IF cloud THEN "cloud" ELSE "offline"

\* daemon_ok dials a local daemon unless its last answer is fresh, and keeps the
\* new one.
Dial ==
  IF Local(setup) /\ ~(fresh /\ probe # "none")
    THEN /\ probe' = IF daemon THEN "up" ELSE "down"
         /\ fresh' = TRUE
    ELSE UNCHANGED <<probe, fresh>>

\* pick_engine asks it only if the setting lets it and MLX cannot answer.
AskDaemon == IF setup.engine = "ollama" \/ ~MlxOk THEN Dial ELSE UNCHANGED <<probe, fresh>>

---------------------------------------------------------------------------
(* A turn, a raw model call, or prepare.                                   *)

\* effective(), of the choice in the space and the clients of this process.
Resolved == Effective(choice, PickEngine # "off", setup.keyed)

\* effective() is asked ...
Begin ==
  /\ pc = "idle"
  /\ turn' = [choice |-> choice, eff |-> Resolved, engine |-> "off"]
  /\ pc' = IF Resolved = "ondevice" THEN "engine" ELSE "run"
  /\ AskDaemon
  /\ UNCHANGED <<space, world, setup, todo, behind>>

\* ... and, for an on-device answer, ondevice_engine() once more: a refusal now
\* is the arm marked unreachable!, and the thread panics.
PickAgain ==
  /\ pc = "engine"
  /\ turn' = [turn EXCEPT !.engine = PickEngine]
  /\ pc' = IF PickEngine = "off" THEN "dead" ELSE "run"
  /\ AskDaemon
  /\ UNCHANGED <<space, world, setup, todo, behind>>

\* Whatever comes of it, answer or error, the turn is over.
Answer ==
  /\ pc = "run"
  /\ pc' = "idle" /\ turn' = NoTurn
  /\ UNCHANGED <<space, world, ai, todo, behind>>

\* health, provider and config only look, and provider_info asks daemon_ok whether
\* or not an engine has been found.
Look ==
  /\ pc = "idle"
  /\ Dial
  /\ UNCHANGED <<space, world, setup, pc, turn, todo, behind>>

---------------------------------------------------------------------------
(* The settings.                                                           *)

SetProvider(c) ==
  /\ pc = "idle"
  /\ choice' = c
  /\ Dial               \* the reply is provider_info
  /\ UNCHANGED <<stored, world, setup, pc, turn, todo, behind>>

\* config.set has checked every pair before it writes the first.
SetConfig(keys, to) ==
  /\ pc = "idle" /\ keys # {}
  /\ \A k \in Keys \ keys : to[k] = NoTodo.to[k]
  /\ todo' = [keys |-> keys, to |-> to]
  /\ pc' = "set"
  /\ UNCHANGED <<space, world, ai, turn, behind>>

WriteKey ==
  /\ pc = "set"
  /\ \E k \in todo.keys :
       /\ stored' = [stored EXCEPT ![k] = todo.to[k]]
       /\ todo'   = [todo EXCEPT !.keys = @ \ {k}]
       /\ pc'     = IF todo.keys = {k} THEN "rewire" ELSE "set"
  /\ behind' = TRUE
  /\ UNCHANGED <<choice, world, ai, turn>>

\* A write fails: what was written stays, and nothing is rebuilt.
WriteFails ==
  /\ pc = "set"
  /\ pc' = "idle" /\ todo' = NoTodo
  /\ UNCHANGED <<space, world, ai, turn, behind>>

\* Ai::build, from the space as it is now; a local client is probed at once.
Build ==
  /\ setup' = stored
  /\ probe' = IF ~Local(stored) THEN "none" ELSE IF daemon THEN "up" ELSE "down"
  /\ fresh' = TRUE
  /\ behind' = FALSE

Reconfigure ==
  /\ pc = "rewire"
  /\ Build
  /\ pc' = "idle" /\ todo' = NoTodo
  /\ UNCHANGED <<space, world, turn>>

---------------------------------------------------------------------------
(* The world.                                                              *)

\* The process ends, whatever it was at, and another takes its place.
Restart ==
  /\ Build
  /\ pc' = "idle" /\ turn' = NoTurn /\ todo' = NoTodo
  /\ UNCHANGED <<space, world>>

\* Mutant of Expire: a daemon once found down is never asked again.
ExpireGood ==
  /\ fresh /\ probe # "down"
  /\ fresh' = FALSE
  /\ UNCHANGED <<space, world, setup, probe, pc, turn, todo, behind>>

\* PROBE_TTL goes by.
Expire ==
  /\ fresh
  /\ fresh' = FALSE
  /\ UNCHANGED <<space, world, setup, probe, pc, turn, todo, behind>>

DaemonComesOrGoes ==
  /\ daemon' = ~daemon
  /\ UNCHANGED <<space, weights, ai, pc, turn, todo, behind>>

\* A build without the engine never looks.
WeightsComeOrGo ==
  /\ HasEngine
  /\ weights' = ~weights
  /\ UNCHANGED <<space, daemon, ai, pc, turn, todo, behind>>

\* A one-shot agentd on the same space sets the provider or one other setting.
OtherProcess ==
  /\ \/ choice' \in Choices /\ UNCHANGED <<stored, behind>>
     \/ /\ stored' \in {[stored EXCEPT !.engine = e] : e \in Engines}
                        \union {[stored EXCEPT !.near = ~@], [stored EXCEPT !.keyed = ~@]}
        /\ behind' = TRUE
        /\ UNCHANGED choice
  /\ UNCHANGED <<world, ai, pc, turn, todo>>

---------------------------------------------------------------------------
Init ==
  /\ choice = "auto"
  /\ stored = [engine |-> "auto", near |-> TRUE, keyed |-> FALSE]
  /\ weights \in {FALSE, HasEngine} /\ daemon \in BOOLEAN
  /\ setup = stored
  /\ probe = IF daemon THEN "up" ELSE "down"
  /\ fresh = TRUE
  /\ pc = "idle" /\ turn = NoTurn /\ todo = NoTodo /\ behind = FALSE

Ask ==
  \/ Begin \/ Look
  \/ \E c \in Choices : SetProvider(c)
  \/ \E keys \in SUBSET Keys, to \in Setup : SetConfig(keys, to)

Work == PickAgain \/ Answer \/ WriteKey \/ Reconfigure

Next == Ask \/ Work \/ WriteFails \/ Restart \/ Expire \/ DaemonComesOrGoes
          \/ WeightsComeOrGo \/ OtherProcess

Spec == Init /\ [][Next]_vars

\* Time passes, and a request that was taken is worked on; nobody has to ask.
FairSpec == Spec /\ WF_vars(Expire) /\ WF_vars(Work)

---------------------------------------------------------------------------
(* Properties.                                                             *)

TypeOK ==
  /\ choice \in Choices /\ stored \in Setup /\ setup \in Setup
  /\ weights \in BOOLEAN /\ daemon \in BOOLEAN
  /\ probe \in Probes /\ fresh \in BOOLEAN
  /\ pc \in {"idle", "engine", "run", "set", "rewire", "dead"}
  /\ turn \in [choice : Choices, eff : {"ondevice", "cloud", "offline"}, engine : Engines]
  /\ todo \in [keys : SUBSET Keys, to : Setup]
  /\ behind \in BOOLEAN

\* What the space's settings let a turn run on, if its choice was c.
Allowed(c, with) ==
  CASE with = "mlx"     -> c # "cloud" /\ stored.engine \in {"auto", "mlx"}
    [] with = "ollama"  -> c # "cloud" /\ stored.engine \in {"auto", "ollama"} /\ stored.near
    [] with = "cloud"   -> c # "ondevice" /\ stored.keyed
    [] with = "offline" -> TRUE

RunsWith == IF turn.eff = "ondevice" THEN turn.engine ELSE turn.eff

\* provider.rs:13-16 ("how on-device quietly becomes a cloud call") and
\* proto.rs:276-278: what a turn runs on is what the operator's settings in the
\* space allow, in a process that has resolved them all.
RunsAsSet == pc = "run" /\ ~behind => Allowed(turn.choice, RunsWith)

\* proto.rs:85-87: a daemon that comes up and stays is found without a restart: from
\* then on, in a process that has resolved settings that want it, no turn is sent to
\* the cloud or refused.
DaemonIsFound ==
  <>[](daemon /\ choice = "auto" /\ setup.engine \in {"auto", "ollama"} /\ setup.near)
    => <>[](pc = "run" => turn.eff = "ondevice")

---------------------------------------------------------------------------
(* What a comment says and a run refutes.                                  *)

\* proto.rs:763, "Never panics; every failure comes back as ok:false".
NeverPanics == pc # "dead"
============================================================================
