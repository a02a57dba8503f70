------------------------------ MODULE AiProofs ------------------------------
(***************************************************************************)
(* The two halves of `Ai` (proto.rs), which one Ai::build makes: RunsAsSet *)
(* of module Brain, for a build with the MLX engine and for one without,   *)
(* and SameGeometry of module Embedding, for any rows, any chunk and any   *)
(* number of rebuilds.  Neither is inductive.                              *)
(*                                                                         *)
(* RunsAsSet compares a turn with the settings in the space, and the turn  *)
(* was resolved, some steps before, from the setup of the process, by      *)
(* checks whose answers may have changed since.  In SameGeometry what a    *)
(* search compares rests on what every vector so far was filed under, some *)
(* of them half-way through a reindex in which the fallback latched, and   *)
(* on the query's model still being the live one when the table is read.   *)
(***************************************************************************)
EXTENDS Brain, Embedding, TLAPS

\* What this process works with is what is in the space, unless that was written to
\* since.
InStep == ~behind => setup = stored

\* What a turn runs on is allowed by the setup it was resolved from, which stays until
\* the turn is over.
Sound(t) ==
  /\ t.eff = "ondevice" => t.choice # "cloud"
  /\ t.eff = "cloud" => t.choice # "ondevice" /\ setup.keyed

Engaged(t) ==
  t.eff = "ondevice" =>
    \/ t.engine = "mlx" /\ setup.engine \in {"auto", "mlx"}
    \/ t.engine = "ollama" /\ Local(setup)

TurnIsSound ==
  /\ pc \in {"engine", "run"} => Sound(turn)
  /\ pc = "engine" => turn.eff = "ondevice"
  /\ pc = "run" => Engaged(turn)

BrainInv == TypeOK /\ InStep /\ TurnIsSound

---------------------------------------------------------------------------
(* The checks.                                                             *)

Effects == {"ondevice", "cloud", "offline"}

\* What effective() answers is what the choice permits and the checks found: on
\* device only if that can be had, the cloud only if it was not ruled out.
LEMMA EffectiveIsSound ==
  ASSUME NEW c \in Choices, NEW on \in BOOLEAN, NEW cloud \in BOOLEAN
  PROVE  /\ Effective(c, on, cloud) \in Effects
         /\ Effective(c, on, cloud) = "ondevice" => on /\ c # "cloud"
         /\ Effective(c, on, cloud) = "cloud" => cloud /\ c # "ondevice"
<1>1. CASE c = "ondevice"
  BY <1>1 DEF Effective, Effects
<1>2. CASE c = "cloud"
  BY <1>2 DEF Effective, Effects
<1>3. CASE c = "auto"
  BY <1>3 DEF Effective, Effects
<1> QED BY <1>1, <1>2, <1>3 DEF Choices

\* pick_engine names an engine the setup lets it name.
LEMMA PickedIsSet ==
  ASSUME setup \in Setup
  PROVE  /\ PickEngine \in Engines \ {"auto"}
         /\ PickEngine = "mlx" => setup.engine \in {"auto", "mlx"}
         /\ PickEngine = "ollama" => Local(setup)
<1>1. setup.engine \in Engines
  BY DEF Setup
<1>2. CASE setup.engine = "off"
  BY <1>2 DEF PickEngine, Engines
<1>3. CASE setup.engine = "mlx"
  BY <1>3 DEF PickEngine, Engines
<1>4. CASE setup.engine = "ollama"
  BY <1>4 DEF PickEngine, Engines, DaemonOk
<1>5. CASE setup.engine = "auto"
  BY <1>5 DEF PickEngine, Engines, DaemonOk
<1> QED BY <1>1, <1>2, <1>3, <1>4, <1>5 DEF Engines

\* Asking whether the daemon is up answers something, whether or not the cache is used.
LEMMA AskDaemonTyped ==
  ASSUME TypeOK, Dial \/ AskDaemon PROVE probe' \in Probes /\ fresh' \in BOOLEAN
<1>1. CASE UNCHANGED <<probe, fresh>>
  BY <1>1 DEF TypeOK
<1>2. CASE probe' = (IF daemon THEN "up" ELSE "down") /\ fresh' = TRUE
  BY <1>2 DEF Probes
<1> QED BY <1>1, <1>2 DEF AskDaemon, Dial

---------------------------------------------------------------------------
(* The invariant of the brain.                                             *)

\* The process starts with no turn and nothing to write.
LEMMA StartIsTyped == NoTurn \in [choice : Choices, eff : Effects, engine : Engines]
                        /\ NoTodo \in [keys : SUBSET Keys, to : Setup]
BY DEF NoTurn, NoTodo, Choices, Effects, Engines, Setup

\* A process that has just started has the invariant.
LEMMA BrainInitInv == Init => BrainInv
<1> SUFFICES ASSUME Init PROVE BrainInv
  OBVIOUS
<1>1. stored \in Setup
  BY DEF Init, Setup, Engines
<1>2. weights \in BOOLEAN
  BY HasEngineIsBoolean DEF Init
<1>3. probe \in Probes /\ daemon \in BOOLEAN
  BY DEF Init, Probes
<1>4. choice \in Choices
  BY DEF Init, Choices
<1>5. TypeOK
  BY <1>1, <1>2, <1>3, <1>4, StartIsTyped DEF Init, TypeOK, Effects
<1> QED BY <1>5 DEF Init, BrainInv, InStep, TurnIsSound

\* The rebuild, at boot and after config.set.
LEMMA BuildInStep ==
  ASSUME TypeOK, Build, UNCHANGED stored
  PROVE  /\ setup' \in Setup /\ probe' \in Probes /\ fresh' \in BOOLEAN /\ behind' \in BOOLEAN
         /\ InStep'
<1>1. probe' \in Probes
  BY Zenon DEF Build, Probes
<1> QED BY <1>1 DEF Build, TypeOK, InStep

\* Every step keeps the types.
LEMMA BrainNextTyped == TypeOK /\ [Next]_vars => TypeOK'
<1> SUFFICES ASSUME TypeOK, [Next]_vars PROVE TypeOK'
  OBVIOUS
<1> USE DEF TypeOK, space, world, ai
<1>1. CASE Begin
  <2>1. Resolved \in Effects
    BY EffectiveIsSound DEF Resolved, Setup
  <2>2. turn' \in [choice : Choices, eff : Effects, engine : Engines]
    BY <1>1, <2>1 DEF Begin, Engines
  <2> QED BY <1>1, <2>2, AskDaemonTyped DEF Begin, Effects
<1>2. CASE PickAgain
  <2>1. turn' \in [choice : Choices, eff : Effects, engine : Engines]
    BY <1>2, PickedIsSet DEF PickAgain, Effects
  <2> QED BY <1>2, <2>1, AskDaemonTyped DEF PickAgain, Effects
<1>3. CASE Answer
  BY <1>3, StartIsTyped DEF Answer, Effects
<1>4. CASE Look
  BY <1>4, AskDaemonTyped DEF Look
<1>5. ASSUME NEW c \in Choices, SetProvider(c) PROVE TypeOK'
  BY <1>5, AskDaemonTyped DEF SetProvider
<1>6. ASSUME NEW keys \in SUBSET Keys, NEW to \in Setup, SetConfig(keys, to) PROVE TypeOK'
  BY <1>6 DEF SetConfig
<1>7. CASE WriteKey
  <2>1. PICK k \in todo.keys :
          /\ stored' = [stored EXCEPT ![k] = todo.to[k]]
          /\ todo'   = [todo EXCEPT !.keys = @ \ {k}]
          /\ pc'     = IF todo.keys = {k} THEN "rewire" ELSE "set"
    BY <1>7 DEF WriteKey
  <2>2. k \in Keys
    OBVIOUS
  <2>3. stored' \in Setup
    BY <2>1, <2>2 DEF Keys, Setup
  <2>4. todo' \in [keys : SUBSET Keys, to : Setup]
    BY <2>1
  <2> QED BY <1>7, <2>1, <2>3, <2>4 DEF WriteKey
<1>8. CASE WriteFails
  BY <1>8, StartIsTyped DEF WriteFails
<1>9. CASE Reconfigure
  BY <1>9, StartIsTyped, BuildInStep DEF Reconfigure
<1>10. CASE Restart
  BY <1>10, StartIsTyped, BuildInStep DEF Restart, Effects
<1>11. CASE Expire
  BY <1>11 DEF Expire
<1>12. CASE DaemonComesOrGoes
  BY <1>12 DEF DaemonComesOrGoes
<1>13. CASE WeightsComeOrGo
  BY <1>13 DEF WeightsComeOrGo
<1>14. CASE OtherProcess
  <2>1. CASE choice' \in Choices /\ UNCHANGED <<stored, behind>>
    BY <1>14, <2>1 DEF OtherProcess
  <2>2. CASE behind' = TRUE /\ UNCHANGED choice
                /\ stored' \in {[stored EXCEPT !.engine = e] : e \in Engines}
                        \union {[stored EXCEPT !.near = ~@], [stored EXCEPT !.keyed = ~@]}
    <3>1. ASSUME NEW e \in Engines PROVE [stored EXCEPT !.engine = e] \in Setup
      BY DEF Setup
    <3>2. [stored EXCEPT !.near = ~@] \in Setup /\ [stored EXCEPT !.keyed = ~@] \in Setup
      BY DEF Setup
    <3>3. stored' \in Setup
      BY <2>2, <3>1, <3>2
    <3> QED BY <1>14, <2>2, <3>3 DEF OtherProcess
  <2> QED BY <1>14, <2>1, <2>2 DEF OtherProcess
<1>15. CASE UNCHANGED vars
  BY <1>15 DEF vars
<1> QED BY <1>1, <1>2, <1>3, <1>4, <1>5, <1>6, <1>7, <1>8, <1>9, <1>10, <1>11, <1>12, <1>13,
           <1>14, <1>15 DEF Next, Ask, Work

\* Only a write by somebody else sets what is stored apart from what is worked with.
LEMMA NextInStep == TypeOK /\ InStep /\ [Next]_vars => InStep'
<1> SUFFICES ASSUME TypeOK, InStep, [Next]_vars PROVE InStep'
  OBVIOUS
<1>1. CASE Reconfigure \/ Restart
  BY <1>1, BuildInStep DEF Reconfigure, Restart, space
<1>2. CASE behind' = TRUE
  BY <1>2 DEF InStep
<1>3. CASE UNCHANGED <<setup, stored, behind>>
  BY <1>3 DEF InStep
<1> QED BY <1>1, <1>2, <1>3 DEF Next, Ask, Work, Begin, PickAgain, Answer, Look, SetProvider,
           SetConfig, WriteKey, WriteFails, Expire, DaemonComesOrGoes, WeightsComeOrGo,
           OtherProcess, vars, space, world, ai

\* No step makes a turn unsound: neither a probe that changes nor a setup that is read again.
LEMMA NextSound == TypeOK /\ TurnIsSound /\ [Next]_vars => TurnIsSound'
<1> SUFFICES ASSUME TypeOK, TurnIsSound, [Next]_vars PROVE TurnIsSound'
  OBVIOUS
<1>1. CASE Begin
  <2>1. setup.keyed \in BOOLEAN /\ choice \in Choices /\ UNCHANGED setup
    BY <1>1 DEF TypeOK, Setup, Begin
  <2>2. /\ Resolved = "ondevice" => choice # "cloud"
        /\ Resolved = "cloud" => setup.keyed /\ choice # "ondevice"
    BY <2>1, EffectiveIsSound DEF Resolved
  <2>3. /\ turn' = [choice |-> choice, eff |-> Resolved, engine |-> "off"]
        /\ pc' = IF Resolved = "ondevice" THEN "engine" ELSE "run"
    BY <1>1 DEF Begin
  <2> QED BY <2>1, <2>2, <2>3 DEF TurnIsSound, Sound, Engaged
<1>2. CASE PickAgain
  <2>1. /\ pc = "engine" /\ UNCHANGED setup
        /\ turn' = [turn EXCEPT !.engine = PickEngine]
        /\ pc' = IF PickEngine = "off" THEN "dead" ELSE "run"
    BY <1>2 DEF PickAgain
  <2>2. Sound(turn) /\ turn.eff = "ondevice"
    BY <2>1 DEF TurnIsSound
  <2>3. turn'.choice = turn.choice /\ turn'.eff = turn.eff /\ turn'.engine = PickEngine
    BY <2>1 DEF TypeOK
  <2>4. PickEngine # "off" => \/ PickEngine = "mlx" /\ setup.engine \in {"auto", "mlx"}
                              \/ PickEngine = "ollama" /\ Local(setup)
    BY PickedIsSet DEF TypeOK, Engines
  <2> QED BY <2>1, <2>2, <2>3, <2>4 DEF TurnIsSound, Sound, Engaged, Local
<1>3. CASE pc' \notin {"engine", "run"}
  BY <1>3 DEF TurnIsSound
<1>4. CASE UNCHANGED <<pc, turn, setup>>
  BY <1>4 DEF TurnIsSound, Sound, Engaged, Local
<1> QED BY <1>1, <1>2, <1>3, <1>4 DEF Next, Ask, Work, Answer, Look, SetProvider, SetConfig,
           WriteKey, WriteFails, Reconfigure, Restart, Expire, DaemonComesOrGoes,
           WeightsComeOrGo, OtherProcess, vars, space, world, ai

\* The invariant holds throughout.
LEMMA BrainInvariance == Spec => []BrainInv
<1>1. BrainInv /\ [Next]_vars => BrainInv'
  BY BrainNextTyped, NextInStep, NextSound DEF BrainInv
<1> QED BY <1>1, BrainInitInv, PTL DEF Spec

---------------------------------------------------------------------------
\* Every variable of Brain keeps its type.
THEOREM BrainTypeOK == Spec => []TypeOK
<1>1. BrainInv => TypeOK
  BY DEF BrainInv
<1> QED BY <1>1, BrainInvariance, PTL

\* provider.rs:13-16, proto.rs:276-278: no turn runs on what the settings in the space
\* rule out, in a process that has resolved them all.
THEOREM BrainRunsAsSet == Spec => []RunsAsSet
<1>1. BrainInv => RunsAsSet
  <2> SUFFICES ASSUME BrainInv, pc = "run", ~behind PROVE Allowed(turn.choice, RunsWith)
    BY DEF RunsAsSet
  <2>1. setup = stored /\ Sound(turn) /\ Engaged(turn) /\ turn.eff \in Effects
    BY DEF BrainInv, InStep, TurnIsSound, TypeOK, Effects
  <2>2. CASE turn.eff = "ondevice"
    BY <2>1, <2>2 DEF Allowed, RunsWith, Sound, Engaged, Local
  <2>3. CASE turn.eff = "cloud"
    BY <2>1, <2>3 DEF Allowed, RunsWith, Sound
  <2>4. CASE turn.eff = "offline"
    BY <2>4 DEF Allowed, RunsWith
  <2> QED BY <2>1, <2>2, <2>3, <2>4 DEF Effects
<1> QED BY <1>1, BrainInvariance, PTL

---------------------------------------------------------------------------
(* The index: its invariant.                                               *)

\* Every vector is under the name of the model that made it.
TagsAreTrue == \A v \in vecs : v.by = v.tag

\* A search has embedded its query with what is live when it ranks.
QueryIsLive == phase = "rank" => query = Live

IndexInv == IndexTypeOK /\ TagsAreTrue /\ QueryIsLive

---------------------------------------------------------------------------
(* The embedder and the table.                                             *)

\* Fallback::embed answers with one of the models, and whoever answered is live
\* afterwards: this is why the name is asked for after the embedding.
LEMMA EmbedIsLive ==
  ASSUME IndexTypeOK, NEW by \in Models, Embed(by)
  PROVE  by = LiveNow /\ degraded' \in BOOLEAN
<1>1. CASE degraded
  BY <1>1, Zenon DEF Embed, LiveNow, IndexTypeOK
<1>2. CASE ~degraded /\ by = primary /\ UNCHANGED degraded
  BY <1>2, Zenon DEF LiveNow, IndexTypeOK
<1>3. CASE ~degraded /\ by = "hash" /\ degraded' = TRUE
  BY <1>3, Zenon DEF LiveNow
<1> QED BY <1>1, <1>2, <1>3, Zenon DEF IndexTypeOK, Embed

\* Vectors put into the table are in place of older ones, and no other is touched.
LEMMA PutIsOldOrNew ==
  ASSUME NEW V PROVE Put(V) \subseteq vecs \union V
BY DEF Put

\* A batch of vectors of one model, filed under its name.
LEMMA BatchIsTyped ==
  ASSUME IndexTypeOK, TagsAreTrue, NEW C \in SUBSET Rows, NEW by \in Models,
         NEW V, V = Put({[row |-> r, tag |-> by, by |-> by] : r \in C})
  PROVE  V \subseteq Vector /\ \A v \in V : v.by = v.tag
<1> DEFINE new == {[row |-> r, tag |-> by, by |-> by] : r \in C}
<1>1. new \subseteq Vector /\ \A v \in new : v.by = v.tag
  BY DEF Vector
<1>2. V \subseteq vecs \union new
  BY PutIsOldOrNew
<1> QED BY <1>1, <1>2 DEF IndexTypeOK, TagsAreTrue

\* The batch of a reindex, whole or cut.
LEMMA IndexKeepsTags ==
  ASSUME IndexInv, NEW C \in SUBSET missing, Index(C), UNCHANGED <<primary, rows>>
  PROVE  vecs' \subseteq Vector /\ TagsAreTrue' /\ degraded' \in BOOLEAN
<1>1. PICK by \in Models :
        /\ Embed(by)
        /\ vecs' = Put({[row |-> r, tag |-> LiveNow, by |-> by] : r \in C})
  BY DEF Index
<1>2. by = LiveNow /\ degraded' \in BOOLEAN
  BY <1>1, EmbedIsLive DEF IndexInv
<1>3. C \in SUBSET Rows
  BY DEF IndexInv, IndexTypeOK
<1>4. vecs' = Put({[row |-> r, tag |-> by, by |-> by] : r \in C})
  BY <1>1, <1>2
<1> QED BY <1>2, <1>3, <1>4, BatchIsTyped DEF IndexInv, TagsAreTrue

---------------------------------------------------------------------------
(* The invariant of the index.                                             *)

\* An index that has just been opened has the invariant.
LEMMA IndexInitInv == IndexInit => IndexInv
<1> SUFFICES ASSUME IndexInit PROVE IndexInv
  OBVIOUS
<1>1. builds \in 0 .. MaxBuilds
  BY ChunkIsPositive DEF IndexInit
<1>2. primary \in Models /\ "hash" \in Models
  BY DEF IndexInit, Models, Remotes
<1> QED BY <1>1, <1>2 DEF IndexInit, IndexInv, IndexTypeOK, TagsAreTrue, QueryIsLive

\* Every step keeps the invariant, a fallback that latches half-way included.
LEMMA IndexNextInv == IndexInv /\ [IndexNext]_indexVars => IndexInv'
<1> SUFFICES ASSUME IndexInv, [IndexNext]_indexVars PROVE IndexInv'
  OBVIOUS
<1> USE DEF IndexInv
<1>1. ASSUME NEW r \in Rows, AddRow(r) PROVE IndexInv'
  <2>1. PICK by \in Models :
          /\ Embed(by)
          /\ vecs' = Put({[row |-> r, tag |-> LiveNow, by |-> by]}) \/ UNCHANGED vecs
    BY <1>1 DEF AddRow
  <2>2. by = LiveNow /\ degraded' \in BOOLEAN
    BY <2>1, EmbedIsLive
  <2>3. {[row |-> r, tag |-> by, by |-> by]} = {[row |-> q, tag |-> by, by |-> by] : q \in {r}}
    OBVIOUS
  <2>4. vecs' \subseteq Vector /\ TagsAreTrue'
    <3>1. CASE UNCHANGED vecs
      BY <3>1 DEF IndexTypeOK, TagsAreTrue
    <3>2. CASE vecs' = Put({[row |-> q, tag |-> by, by |-> by] : q \in {r}})
      BY <3>2, BatchIsTyped DEF TagsAreTrue
    <3> QED BY <2>1, <2>2, <2>3, <3>1, <3>2
  <2>5. IndexTypeOK'
    BY <1>1, <2>2, <2>4 DEF IndexTypeOK, AddRow
  <2> QED BY <1>1, <2>4, <2>5 DEF AddRow, QueryIsLive
<1>2. ASSUME NEW r \in Rows, AddMessage(r) PROVE IndexInv'
  BY <1>2 DEF AddMessage, IndexTypeOK, TagsAreTrue, QueryIsLive
<1>3. CASE Reindex
  BY <1>3 DEF Reindex, Unembedded, IndexTypeOK, TagsAreTrue, QueryIsLive
<1>4. CASE IndexChunk
  <2>1. PICK C \in SUBSET missing : /\ Index(C)
                                 /\ missing' = missing \ C
                                 /\ phase' = IF missing = C THEN "idle" ELSE "index"
    BY <1>4 DEF IndexChunk
  <2>2. UNCHANGED <<primary, served, builds, rows, query>>
    BY <1>4 DEF IndexChunk
  <2>3. vecs' \subseteq Vector /\ TagsAreTrue' /\ degraded' \in BOOLEAN
    BY <2>1, <2>2, IndexKeepsTags
  <2> QED BY <2>1, <2>2, <2>3 DEF IndexTypeOK, QueryIsLive
<1>5. CASE IndexFails
  <2>1. PICK C \in SUBSET missing : Index(C)
    BY <1>5 DEF IndexFails
  <2>2. /\ UNCHANGED <<primary, served, builds, rows, query>>
        /\ phase' = "idle" /\ missing' = {}
    BY <1>5 DEF IndexFails
  <2>3. vecs' \subseteq Vector /\ TagsAreTrue' /\ degraded' \in BOOLEAN
    BY <2>1, <2>2, IndexKeepsTags
  <2> QED BY <2>2, <2>3 DEF IndexTypeOK, QueryIsLive
<1>6. CASE Search
  <2>1. PICK by \in Models : Embed(by) /\ query' = by
    BY <1>6 DEF Search
  <2>2. by = LiveNow /\ degraded' \in BOOLEAN
    BY <2>1, EmbedIsLive
  <2>3. Live' = LiveNow
    BY <1>6 DEF Search, Live, LiveNow
  <2> QED BY <1>6, <2>1, <2>2, <2>3 DEF Search, IndexTypeOK, TagsAreTrue, QueryIsLive
<1>7. CASE Rank
  BY <1>7 DEF Rank, IndexTypeOK, TagsAreTrue, QueryIsLive, Models
<1>8. CASE BuildEmbedder
  <2>1. builds' \in 0 .. MaxBuilds
    BY <1>8, ChunkIsPositive DEF BuildEmbedder, IndexTypeOK
  <2> QED BY <1>8, <2>1 DEF BuildEmbedder, IndexTypeOK, TagsAreTrue, QueryIsLive, Models, Remotes
<1>9. CASE ModelComesOrGoes
  BY <1>9 DEF ModelComesOrGoes, IndexTypeOK, TagsAreTrue, QueryIsLive, Live
<1>10. CASE UNCHANGED indexVars
  BY <1>10 DEF indexVars, IndexTypeOK, TagsAreTrue, QueryIsLive, Live
<1> QED BY <1>1, <1>2, <1>3, <1>4, <1>5, <1>6, <1>7, <1>8, <1>9, <1>10 DEF IndexNext, Add

\* The invariant holds throughout.
LEMMA IndexInvariance == IndexSpec => []IndexInv
BY IndexInitInv, IndexNextInv, PTL DEF IndexSpec

---------------------------------------------------------------------------
\* Every variable of Embedding keeps its type: what is indexed and embedded is a row
\* that was filed, whatever fails on the way.
THEOREM EmbeddingTypeOK == IndexSpec => []IndexTypeOK
<1>1. IndexInv => IndexTypeOK
  BY DEF IndexInv
<1> QED BY <1>1, IndexInvariance, PTL

\* search.rs:200-201, embed.rs:194-197: a search compares its query only with vectors
\* the query's model made, for any rows, chunks and rebuilds.
THEOREM EmbeddingSameGeometry == IndexSpec => []SameGeometry
<1>1. IndexInv => SameGeometry
  BY DEF IndexInv, TagsAreTrue, QueryIsLive, SameGeometry, Compared
<1> QED BY <1>1, IndexInvariance, PTL
=============================================================================
