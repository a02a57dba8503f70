-------------------------------- MODULE Turn --------------------------------
(***************************************************************************)
(* One turn of a robot: rust/rustagent/src/harness.rs, with the router,    *)
(* the tools, the retrieval and the ollama client it calls.  A turn picks  *)
(* a robot, files the question, retrieves, asks the model, runs the tools  *)
(* it calls for and asks again, and files the answer.  It holds no         *)
(* transaction over all that: between two of its statements another        *)
(* process with the space open (a one-shot `agentd` beside the daemon) may *)
(* file, delete, clear a transcript, forget or make a robot, or be in a    *)
(* turn of its own.                                                        *)
(*                                                                         *)
(* Abstracted: words.  A search finds some of what is in its scope, and    *)
(* how well an archive matches, which bm25 works out from all the rows     *)
(* there are, is any of some weights; a prompt may use the one word that   *)
(* keywords claim, and may name a robot.                                   *)
(* A statement on the table is one step: the steps inside a filing or a    *)
(* deletion are module Archive's, of which what a failure leaves in a      *)
(* robot's own database is kept here, as that is what a robot searches;    *)
(* vectors and the reindex that ends a turn are module Embedding's, which  *)
(* brain answers is module Brain's.  Left out: the text of answers and of  *)
(* tools' results.                                                         *)
(***************************************************************************)
EXTENDS Naturals, Sequences, FiniteSets

CONSTANTS
  Robots,    \* the GUIDs a robot may have, numbered in the order they are made and of slugs
  Shipped,   \* robots there at the start
  Claims,    \* robots whose keywords claim the word
  General,   \* the robot of kind "general"
  Nobody,    \* no robot: the global space
  Weights,   \* what a robot's archive may weigh in a route, in hundredths of the best
  Procs,     \* processes that may be in a turn
  MaxSteps,  \* MAX_STEPS: rounds of tools in a turn (4 in the code)
  MaxCalls,  \* bound: tool calls in one reply
  History,   \* HISTORY: messages of the transcript that go back (12 in the code)
  MaxBorn,   \* bound: how many rows are ever filed
  MaxLag     \* bound: by how many rows the robots' own databases differ from the archive

ASSUME RobotsAreFew  == Robots \subseteq 1 .. 3
ASSUME ProcsAreFinite == IsFiniteSet(Procs)
ASSUME RobotsAreSome == Shipped \subseteq Robots /\ Claims \subseteq Robots /\ General \in Robots
ASSUME WeightsAreSome == Weights \subseteq 0 .. 100 /\ {0, 100} \subseteq Weights
ASSUME NobodyIsNone  == Nobody \notin Robots
ASSUME BoundsAreNat  == MaxSteps \in Nat /\ MaxCalls \in Nat /\ History \in Nat /\ MaxBorn \in Nat

Spaces == Robots \union {Nobody}
Kinds  == {"user", "assistant", "filed"}   \* the first two are kind "message"
Vias   == {"context", "history", "search", "all", "list", "read"}

\* `born` says which filing a row is from, as ids are used again; `turn` is the
\* question the row answers or was written for, 0 if none.
Row   == [id: 1 .. MaxBorn, born: 1 .. MaxBorn, space: Spaces, kind: Kinds,
          turn: 0 .. MaxBorn]
Shown == [born: 1 .. MaxBorn, space: Spaces, via: Vias]
PCs   == {"idle", "route", "store", "retrieve", "history", "call", "tools", "answer"}

\* The locals of a turn: `roster` is the one the router is given; `user` is the id of the
\* question's row, `question` which filing it was; `calls` counts the reply's calls left
\* to run; which tool each names is settled as it is run.
Job   == [space: Spaces, roster: SUBSET Robots, user: 0 .. MaxBorn,
          question: 0 .. MaxBorn, step: 0 .. MaxSteps, calls: 0 .. MaxCalls]
NoJob == [space |-> Nobody, roster |-> {}, user |-> 0, question |-> 0, step |-> 0, calls |-> 0]

VARIABLES
  rows,    \* items of the archive
  own,     \* items of the robots' own databases
  roster,  \* agents of the archive
  made,    \* robots made so far; a GUID is never used again
  born,    \* rows filed so far
  pc,      \* pc[p]: where p's turn is, or "idle"
  job,     \* job[p]: the locals of the turn
  shown    \* shown[p]: the rows p's last step puts before the model, and how

table == <<rows, own, roster, made, born>>
vars  == <<rows, own, roster, made, born, pc, job, shown>>

---------------------------------------------------------------------------
(* The archive.                                                            *)

In(s)      == {r \in rows : r.space = s}
OwnOf(a)   == {r \in own : r.space = a}
Message(r) == r.kind # "filed"
NextId(i) == /\ i \in 1 .. MaxBorn
             /\ \A r \in rows : r.id < i
             /\ i = 1 \/ \E r \in rows : r.id = i - 1
Exists(s) == s \in roster \union {Nobody}

\* What is in the archive or a robot's own database and not in both.
Lag == {r \in rows : r.space # Nobody /\ r \notin own} \union (own \ rows)

Without(r) == {q \in own : q.space # r.space \/ q.id # r.id}

\* Store::add, for a space that exists; the caller has seen to that.  In the robot's own
\* database the row takes the place of what has its id, unless that fails half way.
Insert(i, s, kind, turn) ==
  LET new == [id |-> i, born |-> born + 1, space |-> s, kind |-> kind, turn |-> turn]
  IN /\ NextId(i)
     /\ rows' = rows \union {new}
     /\ own' \in IF s = Nobody THEN {own} ELSE {Without(new) \union {new}, Without(new), own}
     /\ Cardinality(Lag') <= MaxLag
     /\ born' = born + 1
     /\ UNCHANGED <<roster, made>>

\* Mutant of Scope: a robot's search is everybody's.
ScopeAll(s) == rows

\* Scope::of: a robot's turn sees its own database, nobody's turn every archive.
Scope(s) == IF s = Nobody THEN rows ELSE OwnOf(s)

\* What a search finds: the rows of the scope with the words in them, and others too, as
\* far as it goes, if the embedder answers, whose ranking has no floor; nothing on an error.
Finds(s) == SUBSET Scope(s)

As(via, R) == {[born |-> r.born, space |-> r.space, via |-> via] : r \in R}

\* Store::messages: the last n of a space's transcript.
Messages(s, n) ==
  {r \in In(s) : Message(r)
     /\ Cardinality({q \in In(s) : Message(q) /\ q.id > r.id}) < n}

---------------------------------------------------------------------------
(* The router.                                                             *)

\* 100 * ln(1 + n / d): the weight of a word d of n robots claim.
Idf == << <<69>>, <<110, 69>>, <<139, 92, 69>> >>

MinScore      == 160
NameBonus     == 800
ArchiveWeight == 4     \* for a hundredth of the best archive's weight

\* archive_evidence: the robots with a filed row that matches, each against the best of
\* them.  How they compare is bm25's to say, whose statistics count every row there is,
\* the transcripts' too; a search that fails is no evidence.
Evidence ==
  {ev \in [Robots -> Weights] : \A a \in Robots : ev[a] # 0 =>
     /\ \E r \in In(a) : ~Message(r)
     /\ \E best \in Robots : ev[best] = 100}

Score(a, about, named, R, ev) ==
  (IF about /\ a \in Claims THEN Idf[Cardinality(R)][Cardinality(R \intersect Claims)] ELSE 0)
    + ArchiveWeight * ev[a] + (IF named = a THEN NameBonus ELSE 0)

\* route_with_archive, of the roster R: the best score, the first slug among equals; the
\* general robot, or the first of the roster, if that is not enough.
Routed(s, about, named, R, ev) ==
  LET score(a) == Score(a, about, named, R, ev) IN
  \/ R = {} /\ s = Nobody
  \/ /\ s \in R /\ score(s) >= MinScore
     /\ \A b \in R : score(s) > score(b) \/ (score(s) = score(b) /\ s <= b)
  \/ /\ s \in R /\ \A a \in R : score(a) < MinScore
     /\ IF General \in R THEN s = General ELSE \A b \in R : s <= b

---------------------------------------------------------------------------
(* A turn.                                                                 *)

Goto(p, l)   == pc' = [pc EXCEPT ![p] = l]
Put(p, j)    == job' = [job EXCEPT ![p] = j]
Show(p, via, R) == shown' = [shown EXCEPT ![p] = As(via, R)]
ShowNone(p) == Show(p, "context", {})

\* The turn is over, answered or failed.
End(p) == /\ Goto(p, "idle")
          /\ Put(p, NoJob)
          /\ ShowNone(p)

\* The bound on rows leaves every turn that has begun room for what it must file.
Owed == Cardinality({p \in Procs : pc[p] \in {"route", "store"}})
          + Cardinality({p \in Procs : pc[p] # "idle"})
Room(n) == born + Owed + n <= MaxBorn

\* resolve_agent: a robot asked for by name is the one, or an error before anything is
\* filed if it is not there.  With nobody asked for, the roster is read for the router ...
Ask(p) ==
  /\ pc[p] = "idle" /\ Room(2)
  /\ \/ (\E a \in roster : Put(p, [NoJob EXCEPT !.space = a])) /\ Goto(p, "store")
     \/ Put(p, [NoJob EXCEPT !.roster = roster]) /\ Goto(p, "route")
  /\ UNCHANGED <<table, shown>>

\* ... and then the archives are, for their evidence.
Route(p) ==
  /\ pc[p] = "route"
  /\ \E s \in Spaces, about \in BOOLEAN, named \in job[p].roster \union {Nobody}, ev \in Evidence :
       /\ Routed(s, about, named, job[p].roster, ev)
       /\ Put(p, [job[p] EXCEPT !.space = s, !.roster = {}])
  /\ Goto(p, "store")
  /\ UNCHANGED <<table, shown>>

\* The question is filed before anything can fail; if the robot is gone, that fails, and
\* if its own database has not taken the row, what was filed stays without a turn.
StoreQuestion(p) ==
  /\ pc[p] = "store"
  /\ IF Exists(job[p].space)
       THEN \E i \in 1 .. MaxBorn :
              /\ Insert(i, job[p].space, "user", born + 1)
              /\ \/ /\ job[p].space # Nobody => \E r \in own' : r.born = born + 1
                    /\ Put(p, [job[p] EXCEPT !.user = i, !.question = born + 1])
                    /\ Goto(p, "retrieve")
                    /\ UNCHANGED shown
                 \/ End(p)
       ELSE End(p) /\ UNCHANGED table

\* Mutant of NotIts: the hits and the history are taken as they come.
Any(p, R) == R
NotIts(p, R) == {r \in R : r.id # job[p].user}

\* An error of the search is an empty context.
Retrieve(p) ==
  /\ pc[p] = "retrieve"
  /\ \E hits \in Finds(job[p].space) : Show(p, "context", NotIts(p, hits))
  /\ Goto(p, "history")
  /\ UNCHANGED <<table, job>>

Recall(p) ==
  /\ pc[p] = "history"
  /\ Show(p, "history", NotIts(p, Messages(job[p].space, History)))
  /\ Goto(p, "call")
  /\ UNCHANGED <<table, job>>

\* Of the n calls a model makes, those the reply has: a reply that is streamed comes in
\* frames, and has the calls of the last frame that had any.
Handed(n) == 1 .. n

\* The model has replied, with n calls.  Without any, or after MAX_STEPS rounds of them,
\* the text is the answer.
Reply(p) ==
  /\ pc[p] = "call"
  /\ \E n \in 0 .. MaxCalls :
       IF n = 0 \/ job[p].step = MaxSteps
         THEN Goto(p, "answer") /\ UNCHANGED job
         ELSE /\ \E k \in Handed(n) : Put(p, [job[p] EXCEPT !.calls = k])
              /\ Goto(p, "tools")
  /\ ShowNone(p)
  /\ UNCHANGED table

\* LocalBrain: the whole archive is searched, whoever is asked; no tools.
ReplyOffline(p) ==
  /\ pc[p] = "call" /\ job[p].step = 0
  /\ \E hits \in Finds(Nobody) : Show(p, "all", hits)
  /\ Goto(p, "answer")
  /\ UNCHANGED <<table, job>>

\* The model cannot be reached, or breaks off: the turn fails, the question stays.
ModelFails(p) ==
  /\ pc[p] = "call"
  /\ End(p)
  /\ UNCHANGED table

---------------------------------------------------------------------------
(* The tools; what goes wrong in one is a line for the model.              *)

Readable(p, r)    == r.space = job[p].space

SearchContext(p) == \E hits \in Finds(job[p].space) : Show(p, "search", hits)
SearchAll(p)     == Show(p, "all", rows)

\* One kind, the transcript's too, or all but that.
ListContext(p) == \E talk \in BOOLEAN :
                    Show(p, "list", {r \in In(job[p].space) : Message(r) <=> talk})

\* By any id: one it was shown, or made up.
ReadItem(p) == \E r \in rows : Show(p, "read", IF Readable(p, r) THEN {r} ELSE {})

WriteNote(p) ==
  IF Exists(job[p].space)
    THEN Room(1) /\ \E i \in 1 .. MaxBorn : Insert(i, job[p].space, "filed", job[p].question)
    ELSE UNCHANGED table

\* Mutant of Done: the rounds are not counted.
DoneNoCount(p) ==
  /\ Put(p, [job[p] EXCEPT !.calls = @ - 1])
  /\ Goto(p, IF job[p].calls = 1 THEN "call" ELSE "tools")

\* The call is done; after the last one the model is asked again.
Done(p) ==
  /\ Put(p, [job[p] EXCEPT !.calls = @ - 1,
                           !.step = IF job[p].calls = 1 THEN @ + 1 ELSE @])
  /\ Goto(p, IF job[p].calls = 1 THEN "call" ELSE "tools")

\* The last kind: list_robots, get_time, an unknown tool, a call refused for its
\* arguments or cut short by an error.
RunTool(p) ==
  /\ pc[p] = "tools"
  /\ \/ /\ SearchContext(p) \/ SearchAll(p) \/ ListContext(p) \/ ReadItem(p)
        /\ UNCHANGED table
     \/ WriteNote(p) /\ ShowNone(p)
     \/ ShowNone(p) /\ UNCHANGED table
  /\ Done(p)

\* Mutant of StoreAnswer: the robot is picked anew.
StoreRouted(p) ==
  /\ pc[p] = "answer"
  /\ \E i \in 1 .. MaxBorn, s \in Spaces, ev \in Evidence :
       /\ Routed(s, FALSE, Nobody, roster, ev)
       /\ Insert(i, s, "assistant", job[p].question)
  /\ End(p)

\* The answer is filed with the robot that was asked; if it is gone, the turn fails.
StoreAnswer(p) ==
  /\ pc[p] = "answer"
  /\ IF Exists(job[p].space)
       THEN \E i \in 1 .. MaxBorn :
              Insert(i, job[p].space, "assistant", job[p].question)
       ELSE UNCHANGED table
  /\ End(p)

\* The process ends, or the turn panics, wherever it is.
Abandon(p) ==
  /\ pc[p] # "idle"
  /\ End(p)
  /\ UNCHANGED table

---------------------------------------------------------------------------
(* The operator, and other processes.                                      *)

FileItem ==
  /\ Room(1)
  /\ \E i \in 1 .. MaxBorn, s \in roster \union {Nobody} : Insert(i, s, "filed", 0)
  /\ UNCHANGED <<pc, job, shown>>

\* What goes from the archive goes from its robot's own database next, if that works.
Delete(R, O) == /\ rows' = rows \ R
                /\ own' \in {own, own \ O}
                /\ Cardinality(Lag') <= MaxLag
                /\ UNCHANGED <<roster, made, born, pc, job, shown>>

DeleteItem       == \E r \in rows : Delete({r}, own \ Without(r))
ClearMessages(s) == Delete({r \in In(s) : Message(r)}, {r \in OwnOf(s) : Message(r)})

\* Its rows go with it, and nobody reads its own database again.
DeleteAgent(a) ==
  /\ a \in roster
  /\ roster' = roster \ {a}
  /\ rows' = {r \in rows : r.space # a}
  /\ own'  = {r \in own : r.space # a}
  /\ UNCHANGED <<made, born, pc, job, shown>>

\* agent.create, or a boot that misses a robot of the shipped roster.
CreateAgent(a) ==
  /\ a \in Robots \ made /\ \A b \in Robots \ made : a <= b
  /\ roster' = roster \union {a} /\ made' = made \union {a}
  /\ UNCHANGED <<rows, own, born, pc, job, shown>>

---------------------------------------------------------------------------
Init ==
  /\ rows = {} /\ own = {} /\ born = 0
  /\ roster = Shipped /\ made = Shipped
  /\ pc = [p \in Procs |-> "idle"]
  /\ job = [p \in Procs |-> NoJob]
  /\ shown = [p \in Procs |-> {}]

Step(p) == \/ Route(p) \/ StoreQuestion(p) \/ Retrieve(p) \/ Recall(p)
           \/ Reply(p) \/ ReplyOffline(p) \/ ModelFails(p)
           \/ RunTool(p) \/ StoreAnswer(p)

Others == \/ FileItem \/ DeleteItem
          \/ \E s \in Spaces : ClearMessages(s)
          \/ \E a \in Robots : DeleteAgent(a) \/ CreateAgent(a)

Next == (\E p \in Procs : Ask(p) \/ Step(p) \/ Abandon(p)) \/ Others

Spec == Init /\ [][Next]_vars

\* A turn that has begun is worked on, and every call of the model returns: the
\* HTTP clients have a timeout, generation a token limit.
FairSpec == Spec /\ \A p \in Procs : WF_vars(Step(p))

---------------------------------------------------------------------------
(* Properties.                                                             *)

TypeOK ==
  /\ rows \subseteq Row /\ own \subseteq Row
  /\ roster \subseteq made /\ made \subseteq Robots /\ born \in 0 .. MaxBorn
  /\ pc \in [Procs -> PCs] /\ job \in [Procs -> Job] /\ shown \in [Procs -> SUBSET Shown]

\* tools.rs:349, "a tool must not be a way out of the robot it belongs to", and
\* search.rs:55-60: whatever ids are used again and whoever files and deletes
\* meanwhile, the model of a robot's turn is shown rows of that robot only, but for
\* what it asks of every archive by name.
StaysInItsArchive ==
  \A p \in Procs : \A x \in shown[p] :
    x.via # "all" => \/ x.space = job[p].space
                     \/ job[p].space = Nobody /\ x.via \in {"context", "search"}

\* harness.rs:259: the question is not context or history for itself.
NotItsOwnContext ==
  \A p \in Procs : \A x \in shown[p] :
    x.via \in {"context", "history"} => x.born # job[p].question

\* harness.rs:235-239, 336-341: nothing a turn files comes before its question, or
\* after a question that could not be filed; an answer is in its question's
\* transcript, below it, and is the only one, as far as the two are still there.
AnswersHaveQuestions ==
  \A r \in rows : r.kind = "assistant" =>
    /\ r.turn # 0
    /\ \A q \in rows : q.born = r.turn => q.kind = "user" /\ q.space = r.space /\ q.id < r.id
    /\ \A s \in rows : s.kind = "assistant" /\ s.turn = r.turn => s = r

\* A turn ends, however often the model calls for tools.
TurnsEnd == \A p \in Procs : []<>(pc[p] = "idle")
=============================================================================
