----------------------------- MODULE Embedding -----------------------------
(***************************************************************************)
(* Vectors and the model that made them: embed.rs (Fallback), search.rs    *)
(* (reindex, semantic), the embedder Ai::build picks (proto.rs) and the    *)
(* two callers that give a new row its vector (item.add, write_note).  A   *)
(* cosine between two models' vectors is noise, so every vector is stored  *)
(* under the name of a model.  The first failure of the real embedder      *)
(* latches, and from then on the local hashing one answers.                *)
(*                                                                         *)
(* One robot's rows in one database; its second copy is Archive's matter.  *)
(***************************************************************************)
EXTENDS Naturals, FiniteSets

CONSTANTS
  Rows,       \* rows that get filed
  Chunk,      \* how many texts go to the embedder at once (32 in the code)
  MaxBuilds   \* bound: how often the clients are rebuilt

ASSUME ChunkIsPositive == Chunk \in Nat \ {0} /\ MaxBuilds \in Nat

Remotes == {"daemon", "cloud"}          \* embedding models behind a Fallback
Models  == Remotes \union {"hash"}
Vector  == [row : Rows, tag : Models, by : Models]   \* stored under tag, made by `by`

VARIABLES
  primary,   \* the embedder Ai::build picked, "hash" for one without a fallback
  degraded,  \* the fallback has latched
  served,    \* the local ollama is up and serves its embedding model
  builds,    \* rebuilds so far
  rows,      \* rows filed
  vecs,      \* the embeddings table
  phase,     \* "idle", "index" between the chunks of a reindex, "rank" in a search
  missing,   \* rows the reindex found without a vector and has not come to
  query      \* the model that made the query's vector, in a search

indexVars == <<primary, degraded, served, builds, rows, vecs, phase, missing, query>>

\* Fallback::model: the name of whichever is live.
Live == IF degraded THEN "hash" ELSE primary

Put(V)       == {w \in vecs : \A v \in V : w.row # v.row \/ w.tag # v.tag} \union V
Tagged(m)    == {v.row : v \in {w \in vecs : w.tag = m}}

\* Mutants of Unembedded: the query looks beyond what is filed; another model's
\* vector will do.
AnyRows      == Rows \ Tagged(Live)
WithoutAny   == rows \ {v.row : v \in vecs}

Unembedded   == rows \ Tagged(Live)

\* May the primary answer now?  The daemon must be up; a cloud host may have no
\* embedding model at all, and the hashing embedder always answers.
MayAnswer == primary = "daemon" => served
MayFail   == primary # "hash"

\* Fallback::embed: who makes the vectors, and whether it latches.
Embed(by) ==
  \/ ~degraded /\ MayAnswer /\ by = primary /\ UNCHANGED degraded
  \/ ~degraded /\ MayFail /\ by = "hash" /\ degraded' = TRUE
  \/ degraded /\ by = "hash" /\ UNCHANGED degraded

\* Mutant of LiveNow: the name is read before the embedding.
LiveBefore == Live

\* The name that is live once the embedding is done.
LiveNow == IF degraded' THEN "hash" ELSE primary

---------------------------------------------------------------------------
\* item.add and write_note: file the row, embed its text, then ask the embedder
\* its name and store the vector under it; a vector that cannot be had or stored
\* is let go.
AddRow(r) ==
  /\ phase = "idle" /\ r \notin rows
  /\ rows' = rows \union {r}
  /\ \E by \in Models :
       /\ Embed(by)
       /\ vecs' = Put({[row |-> r, tag |-> LiveNow, by |-> by]}) \/ UNCHANGED vecs
  /\ UNCHANGED <<primary, served, builds, phase, missing, query>>

\* A message of the transcript is filed with no vector.
AddMessage(r) ==
  /\ phase = "idle" /\ r \notin rows
  /\ rows' = rows \union {r}
  /\ UNCHANGED <<primary, degraded, served, builds, vecs, phase, missing, query>>

\* reindex asks what the model that is live now is missing ...
Reindex ==
  /\ phase = "idle" /\ Unembedded # {}
  /\ missing' = Unembedded
  /\ phase' = "index"
  /\ UNCHANGED <<primary, degraded, served, builds, rows, vecs, query>>

ThisChunk == IF Cardinality(missing) < Chunk THEN Cardinality(missing) ELSE Chunk

\* The rows C of a chunk get the vectors their texts were given.
Index(C) == \E by \in Models :
              /\ Embed(by)
              /\ vecs' = Put({[row |-> r, tag |-> LiveNow, by |-> by] : r \in C})

\* ... and gives it chunk by chunk, each under the name that is live by then.
IndexChunk ==
  /\ phase = "index"
  /\ \E C \in SUBSET missing :
       /\ Cardinality(C) = ThisChunk
       /\ Index(C)
       /\ missing' = missing \ C
       /\ phase' = IF missing = C THEN "idle" ELSE "index"
  /\ UNCHANGED <<primary, served, builds, rows, query>>

\* A write in a chunk fails, and the rest of the reindex is dropped.
IndexFails ==
  /\ phase = "index"
  /\ \E C \in SUBSET missing : Cardinality(C) < ThisChunk /\ Index(C)
  /\ phase' = "idle" /\ missing' = {}
  /\ UNCHANGED <<primary, served, builds, rows, query>>

\* semantic embeds the query ...
Search ==
  /\ phase = "idle" /\ rows # {}
  /\ \E by \in Models : Embed(by) /\ query' = by
  /\ phase' = "rank"
  /\ UNCHANGED <<primary, served, builds, rows, vecs, missing>>

\* ... and compares it with what is stored under the name that is live after that.
Compared == {v \in vecs : v.tag = Live}

Rank ==
  /\ phase = "rank"
  /\ phase' = "idle" /\ query' = "hash"
  /\ UNCHANGED <<primary, degraded, served, builds, rows, vecs, missing>>

---------------------------------------------------------------------------
\* Ai::build, at boot and after every config.set: the daemon if it answers, the
\* cloud if only that can be dialled, else the hashing embedder; no latch yet.
BuildEmbedder ==
  /\ phase = "idle" /\ builds < MaxBuilds
  /\ primary' \in IF served THEN Models ELSE {"cloud", "hash"}
  /\ degraded' = FALSE
  /\ builds' = builds + 1
  /\ UNCHANGED <<served, rows, vecs, phase, missing, query>>

ModelComesOrGoes ==
  /\ served' = ~served
  /\ UNCHANGED <<primary, degraded, builds, rows, vecs, phase, missing, query>>

IndexInit ==
  /\ served \in BOOLEAN
  /\ primary \in IF served THEN Models ELSE {"cloud", "hash"}
  /\ degraded = FALSE /\ builds = 0
  /\ rows = {} /\ vecs = {} /\ phase = "idle" /\ missing = {} /\ query = "hash"

Add == \E r \in Rows : AddRow(r) \/ AddMessage(r)

IndexNext == Add \/ Reindex \/ IndexChunk \/ IndexFails \/ Search \/ Rank
               \/ BuildEmbedder \/ ModelComesOrGoes

IndexSpec == IndexInit /\ [][IndexNext]_indexVars

\* Every turn ends with a reindex, and its writes do not fail for ever.
FairIndexSpec == /\ IndexSpec
                 /\ SF_indexVars(Reindex) /\ SF_indexVars(IndexChunk)
                 /\ WF_indexVars(Rank)

---------------------------------------------------------------------------
(* Properties.                                                             *)

IndexTypeOK ==
  /\ primary \in Models /\ degraded \in BOOLEAN /\ served \in BOOLEAN
  /\ builds \in 0 .. MaxBuilds
  /\ rows \subseteq Rows /\ vecs \subseteq Vector
  /\ phase \in {"idle", "index", "rank"} /\ missing \subseteq rows /\ query \in Models

\* search.rs:200-201, embed.rs:194-197: whatever failed and latched on the way, a
\* search compares its query only with vectors the query's model made.
SameGeometry == phase = "rank" => \A v \in Compared : v.by = query

\* store.rs:839-844, search.rs:351-352: however often the embedder changes or falls
\* back, also half-way through a reindex, every row comes to have a vector of the
\* model that is live, and keeps one.
EveryRowIsFound == \A r \in Rows : r \in rows ~> [](r \in Tagged(Live))
============================================================================
