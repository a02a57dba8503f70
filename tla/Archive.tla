------------------------------ MODULE Archive ------------------------------
(***************************************************************************)
(* The archive of rust/rustagent: `robots.db` (every row), each robot's    *)
(* own `agent.db` (the same rows, that robot's only), the text mirrors     *)
(* beside it, and the shelves of files.  No operation of store.rs is one   *)
(* write: each is a chain of commits and file writes that can be cut by an *)
(* error (`?`) or by the process ending, and that another process with the *)
(* same space open (a one-shot `agentd` beside the daemon) can interleave  *)
(* with.  An action is the stretch of an operation up to its next write.   *)
(*                                                                         *)
(* Left out: the text of rows, the FTS index (triggers keep it inside the  *)
(* same commit), settings, and changes to the roster, which is fixed here. *)
(* items.csv has steps but no variable: the program never reads it, and    *)
(* what it should hold nothing says but that an add appends to it.         *)
(***************************************************************************)
EXTENDS Naturals, FiniteSets

CONSTANTS
  Robots,    \* the robots of the roster; each has a folder with an own database
  Global,    \* the space for what is filed with nobody chosen; no own database
  Procs,     \* processes that open this space
  MaxBorn,   \* bound: how many rows are ever filed
  MaxClock,  \* bound: the last second of the clock
  NoPage     \* a folder with no agent.md

ASSUME GlobalIsNoRobot == Global \notin Robots
ASSUME BoundsAreNat    == MaxBorn \in Nat \ {0} /\ MaxClock \in Nat

Spaces == Robots \union {Global}

\* What is filed: a message of the transcript, a note (text in the row only),
\* or a document, whose bytes live in a file on a shelf of the space.
Kinds  == {"message", "note", "document"}
NoName == 0
Names  == 1 .. MaxBorn     \* <stem>.<ext>, <stem>-1.<ext>, ... in the order tried
Borns  == 1 .. MaxBorn     \* which filing a row, a file or a vector came from

Row    == [id: Borns, born: Borns, space: Spaces, kind: Kinds,
           name: Names \union {NoName}, at: 0 .. MaxClock]
Vector == [id: Borns, born: Borns]
File   == [space: Spaces, name: Names, born: Borns]

VARIABLES
  rows,    \* items of robots.db
  vec,     \* embeddings of robots.db (one model)
  own,     \* own[a]: items of robot a's agent.db
  ownVec,  \* ownVec[a]: embeddings of a's agent.db
  log,     \* log[s]: what replaying s's items.jsonl gives
  page,    \* page[s]: the rows agent.md shows, or NoPage
  shelf,   \* files on the shelves of all spaces
  born,    \* rows filed so far
  clock,   \* now(), in seconds
  pc,      \* pc[p]: where process p is in its operation
  job,     \* job[p]: the locals of that operation
  hurt     \* history: spaces with an operation cut short and no export since

stores == <<rows, vec, own, ownVec, log, page, shelf>>
vars   == <<rows, vec, own, ownVec, log, page, shelf, born, clock, pc, job, hurt>>

---------------------------------------------------------------------------
(* Reading the tables.                                                     *)

\* Mutant of In: the query has lost its WHERE.
InAll(s) == rows
In(s)   == {r \in rows : r.space = s}
Ids(R)  == {r.id : r \in R}
Keys(R) == {<<r.id, r.at>> : r \in R}
Less(R, ids) == {r \in R : r.id \notin ids}      \* DELETE ... WHERE id IN ids
Put(R, r)    == Less(R, {r.id}) \union {r}       \* INSERT or UPDATE of one key
Messages(R)  == {r \in R : r.kind = "message"}
VectorsOf(R) == {v \in vec : v.id \in Ids(R)}
Unembedded(s) == {r \in In(s) : r.id \notin Ids(vec)}

\* The rowid SQLite gives a new row of a table without AUTOINCREMENT: one more
\* than the largest present, so the id of a deleted last row is used again.
NextRowid(i) == /\ \A r \in rows : r.id < i
                /\ i = 1 \/ \E r \in rows : r.id = i - 1

OnShelf(s, n) == \E f \in shelf : f.space = s /\ f.name = n

\* Mutant of FreeName: the name is taken as it comes.
FirstName(s, n) == n = 1

\* The candidate the naming loop of intake and put_text stops at.
FreeName(s, n) == ~OnShelf(s, n) /\ \A m \in 1 .. n - 1 : OnShelf(s, m)

---------------------------------------------------------------------------
(* The control of one process.                                             *)

PCs == {"down", "idle", "copy", "insert", "delete", "own", "owninsert", "log",
        "csv", "read", "write", "vec", "ownvec", "load", "loadvecs", "rebuild",
        "truncate", "replay", "sync", "compare"}
Ops == {"add", "delete", "clear", "export", "reindex"}

Job == [op: Ops, space: Spaces, row: Row, batch: SUBSET Row,
        vecs: SUBSET Vector, left: SUBSET Robots, boot: BOOLEAN]

\* The rest of an operation's steps when `at` is reached and the space is s.
OwnOrLog(s) == IF s \in Robots THEN "own" ELSE "log"
Goto(p, l)  == pc' = [pc EXCEPT ![p] = l]

AnyRow == [id |-> 1, born |-> 1, space |-> Global, kind |-> "note",
           name |-> NoName, at |-> 0]
NoJob  == [op |-> "export", space |-> Global, row |-> AnyRow, batch |-> {},
           vecs |-> {}, left |-> {}, boot |-> FALSE]

\* The operation returns: to the boot it was part of, or to its caller.
Done(p) == /\ Goto(p, IF job[p].boot THEN "sync" ELSE "idle")
           /\ job' = [job EXCEPT ![p] = [NoJob EXCEPT !.left = job[p].left, !.boot = job[p].boot]]

\* Once past this point and before its last write, an operation that stops
\* leaves the space's folder and the global database different.
HalfDone(p) == \/ pc[p] \in {"own", "owninsert", "log", "csv", "read", "write",
                             "truncate", "replay"}
               \/ pc[p] = "ownvec" /\ job[p].space \in Robots

---------------------------------------------------------------------------
(* add: the file first, then the row, then the folder, then the vector.    *)

\* A new document: the shelf's next free name is looked up ...
AddDocument(p, s) ==
  /\ pc[p] = "idle" /\ born < MaxBorn
  /\ \E n \in Names :
       /\ FreeName(s, n)
       /\ job' = [job EXCEPT ![p] =
            [@ EXCEPT !.op = "add", !.space = s,
             !.row = [id |-> born + 1, born |-> born + 1, space |-> s,
                      kind |-> "document", name |-> n, at |-> clock]]]
  /\ born' = born + 1
  /\ Goto(p, "copy")
  /\ UNCHANGED <<stores, clock, hurt>>

\* Mutant of CopyFile: an error of the copy is ignored.
CopyNothing(p) ==
  /\ pc[p] = "copy"
  /\ Goto(p, "insert")
  /\ UNCHANGED <<stores, born, clock, job, hurt>>

\* ... and only then written under that name, over whatever is there by now.
CopyFile(p) ==
  /\ pc[p] = "copy"
  /\ LET r == job[p].row IN
       shelf' = {f \in shelf : f.space # r.space \/ f.name # r.name}
                  \union {[space |-> r.space, name |-> r.name, born |-> r.born]}
  /\ Goto(p, "insert")
  /\ UNCHANGED <<rows, vec, own, ownVec, log, page, born, clock, job, hurt>>

\* A note or a message has no file: straight to the row.
AddText(p, s, k) ==
  /\ pc[p] = "idle" /\ born < MaxBorn
  /\ job' = [job EXCEPT ![p] =
       [@ EXCEPT !.op = "add", !.space = s,
        !.row = [id |-> born + 1, born |-> born + 1, space |-> s, kind |-> k,
                 name |-> NoName, at |-> clock]]]
  /\ born' = born + 1
  /\ Goto(p, "insert")
  /\ UNCHANGED <<stores, clock, hurt>>

\* The unique index on path, over the rows R of r's space.
PathTaken(R, r) == r.name # NoName /\ \E q \in R : q.name = r.name

\* INSERT INTO items.
InsertRow(p) ==
  /\ pc[p] = "insert"
  /\ \E i \in Borns :
       LET r == [job[p].row EXCEPT !.id = i, !.at = clock] IN
         /\ NextRowid(i)
         /\ ~PathTaken(In(r.space), r)
         /\ rows' = rows \union {r}
         /\ job' = [job EXCEPT ![p] = [@ EXCEPT !.row = r]]
  /\ Goto(p, OwnOrLog(job[p].space))
  /\ UNCHANGED <<vec, own, ownVec, log, page, shelf, born, clock, hurt>>

---------------------------------------------------------------------------
(* delete_item and clear_messages begin with the global rows.              *)

\* Mutant of Cascade: foreign keys are off.
NoCascade(ids) == UNCHANGED vec

\* The rows' embeddings go in the same statement.
Cascade(ids) == vec' = Less(vec, ids)

\* delete_item reads the row, for the space it is in ...
FindRow(p) ==
  /\ pc[p] = "idle"
  /\ \E r \in rows :
       job' = [job EXCEPT ![p] = [@ EXCEPT !.op = "delete", !.space = r.space, !.row = r]]
  /\ Goto(p, "delete")
  /\ UNCHANGED <<stores, born, clock, hurt>>

\* ... and deletes what has its id by now, if anything has.
DeleteRow(p) ==
  LET id == job[p].row.id IN
  /\ pc[p] = "delete"
  /\ rows' = Less(rows, {id})
  /\ Cascade({id})
  /\ IF id \in Ids(rows) THEN Goto(p, OwnOrLog(job[p].space)) /\ UNCHANGED job
                         ELSE Done(p)
  /\ UNCHANGED <<own, ownVec, log, page, shelf, born, clock, hurt>>

ClearRows(p, s) ==
  /\ pc[p] = "idle"
  /\ rows' = Less(rows, Ids(Messages(In(s))))
  /\ Cascade(Ids(Messages(In(s))))
  /\ job'  = [job EXCEPT ![p] = [@ EXCEPT !.op = "clear", !.space = s]]
  /\ Goto(p, OwnOrLog(s))
  /\ UNCHANGED <<own, ownVec, log, page, shelf, born, clock, hurt>>

---------------------------------------------------------------------------
(* The folder's share of add, delete and clear.                            *)

\* Mutant of Takes: a clear leaves the folder alone.
TakesNone(j, R) == IF j.op = "clear" THEN {} ELSE {j.row.id}

\* What the operation takes out of a table of its space's rows.
Takes(j, R) == IF j.op = "clear" THEN Ids(Messages(R)) ELSE {j.row.id}

Applied(j, R) == Less(R, Takes(j, R)) \union (IF j.op = "add" THEN {j.row} ELSE {})

\* The DELETE on the own database, vectors cascading: all there is of a delete
\* or a clear, and the first statement of own_insert ...
DeleteOwn(p) ==
  LET j == job[p] IN
  /\ pc[p] = "own"
  /\ own'    = [own EXCEPT ![j.space] = Less(@, Takes(j, @))]
  /\ ownVec' = [ownVec EXCEPT ![j.space] = Less(@, Takes(j, own[j.space]))]
  /\ Goto(p, IF j.op = "add" THEN "owninsert" ELSE "log")
  /\ UNCHANGED <<rows, vec, log, page, shelf, born, clock, job, hurt>>

\* ... whose second is a commit of its own, under the same key and index.
InsertOwn(p) ==
  LET j == job[p] IN
  /\ pc[p] = "owninsert"
  /\ j.row.id \notin Ids(own[j.space]) /\ ~PathTaken(own[j.space], j.row)
  /\ own' = [own EXCEPT ![j.space] = @ \union {j.row}]
  /\ Goto(p, "log")
  /\ UNCHANGED <<rows, vec, ownVec, log, page, shelf, born, clock, job, hurt>>

\* One event appended to items.jsonl ...
AppendLog(p) ==
  LET j == job[p] IN
  /\ pc[p] = "log"
  /\ log' = [log EXCEPT ![j.space] = Applied(j, @)]
  /\ Goto(p, IF j.op = "add" THEN "csv" ELSE "read")
  /\ UNCHANGED <<rows, vec, own, ownVec, page, shelf, born, clock, job, hurt>>

\* ... and, for an add, one line to items.csv.
AppendCsv(p) ==
  /\ pc[p] = "csv"
  /\ Goto(p, "read")
  /\ UNCHANGED <<stores, born, clock, job, hurt>>

\* write_markdown reads the page and the transcript ...
ReadPage(p) ==
  /\ pc[p] = "read"
  /\ job' = [job EXCEPT ![p] = [@ EXCEPT !.batch = In(job[p].space)]]
  /\ Goto(p, "write")
  /\ UNCHANGED <<stores, born, clock, hurt>>

\* ... and writes agent.md whole.  item.add and write_note then ask the embedder
\* for the row's vector, and go on without one if it has none.
WritePage(p) ==
  LET j == job[p] IN
  /\ pc[p] = "write"
  /\ page' = [page EXCEPT ![j.space] = j.batch]
  /\ \/ /\ j.op = "add" /\ j.row.kind # "message"
        /\ job' = [job EXCEPT ![p] = [@ EXCEPT !.batch = {j.row}]]
        /\ Goto(p, "vec")
     \/ Done(p)
  /\ hurt' = IF j.op = "export" THEN hurt \ {j.space} ELSE hurt
  /\ UNCHANGED <<rows, vec, own, ownVec, log, shelf, born, clock>>

---------------------------------------------------------------------------
(* put_embedding, for the row just added or for each row reindex found.    *)

Reindex(p, s) ==
  /\ pc[p] = "idle"
  /\ Unembedded(s) # {}
  /\ job' = [job EXCEPT ![p] = [@ EXCEPT !.op = "reindex", !.space = s,
                                         !.batch = Unembedded(s)]]
  /\ Goto(p, "vec")
  /\ UNCHANGED <<stores, born, clock, hurt>>

\* The vector of the text read earlier goes in under the row's id, provided the
\* global database still has a row of that id (foreign key).
PutVector(p) ==
  /\ pc[p] = "vec"
  /\ \E r \in job[p].batch :
       /\ r.id \in Ids(rows)
       /\ vec' = Put(vec, [id |-> r.id, born |-> r.born])
       /\ job' = [job EXCEPT ![p] = [@ EXCEPT !.row = r, !.batch = job[p].batch \ {r}]]
  /\ Goto(p, "ownvec")
  /\ UNCHANGED <<rows, own, ownVec, log, page, shelf, born, clock, hurt>>

\* Then into the owner's database, if its row is there (foreign key again).
PutOwnVector(p) ==
  LET r == job[p].row IN
  /\ pc[p] = "ownvec"
  /\ \/ \E q \in rows : /\ q.id = r.id /\ q.space \in Robots
                        /\ r.id \in Ids(own[q.space])
                        /\ ownVec' = [ownVec EXCEPT ![q.space] =
                                        Put(@, [id |-> r.id, born |-> r.born])]
     \/ /\ \A q \in rows : q.id = r.id => q.space = Global
        /\ UNCHANGED ownVec
  /\ IF job[p].batch = {} THEN Done(p) ELSE Goto(p, "vec") /\ UNCHANGED job
  /\ UNCHANGED <<rows, vec, own, log, page, shelf, born, clock, hurt>>

---------------------------------------------------------------------------
(* export: the folder again from the global database.                      *)

Export(p, s) ==
  /\ pc[p] = "idle"
  /\ job' = [job EXCEPT ![p] = [@ EXCEPT !.op = "export", !.space = s]]
  /\ Goto(p, "load")
  /\ UNCHANGED <<stores, born, clock, hurt>>

\* The rows are read first, and for a robot ...
LoadRows(p) ==
  LET s == job[p].space IN
  /\ pc[p] = "load"
  /\ job' = [job EXCEPT ![p] = [@ EXCEPT !.batch = In(s)]]
  /\ Goto(p, IF s \in Robots THEN "loadvecs" ELSE "truncate")
  /\ UNCHANGED <<stores, born, clock, hurt>>

\* ... the vectors in a second read, of the rows there are by then.
LoadVectors(p) ==
  /\ pc[p] = "loadvecs"
  /\ job' = [job EXCEPT ![p] = [@ EXCEPT !.vecs = VectorsOf(In(job[p].space))]]
  /\ Goto(p, "rebuild")
  /\ UNCHANGED <<stores, born, clock, hurt>>

\* One transaction on the own database, rolled back on a vector whose row was
\* not in the first read (foreign key).
RebuildOwn(p) ==
  LET j == job[p] IN
  /\ pc[p] = "rebuild"
  /\ Ids(j.vecs) \subseteq Ids(j.batch)
  /\ own'    = [own EXCEPT ![j.space] = j.batch]
  /\ ownVec' = [ownVec EXCEPT ![j.space] = j.vecs]
  /\ Goto(p, "truncate")
  /\ UNCHANGED <<rows, vec, log, page, shelf, born, clock, job, hurt>>

TruncateLogs(p) ==
  LET j == job[p] IN
  /\ pc[p] = "truncate"
  /\ log' = [log EXCEPT ![j.space] = {}]
  /\ Goto(p, IF j.batch = {} THEN "read" ELSE "replay")
  /\ UNCHANGED <<rows, vec, own, ownVec, page, shelf, born, clock, job, hurt>>

\* The rows are appended oldest first, one line each.
ReplayRow(p) ==
  LET j == job[p] IN
  /\ pc[p] = "replay"
  /\ \E r \in j.batch :
       /\ \A q \in j.batch : r.id <= q.id
       /\ log' = [log EXCEPT ![j.space] = Put(@, r)]
       /\ job' = [job EXCEPT ![p] = [@ EXCEPT !.batch = j.batch \ {r}]]
       /\ Goto(p, IF j.batch = {r} THEN "read" ELSE "replay")
  /\ UNCHANGED <<rows, vec, own, ownVec, page, shelf, born, clock, hurt>>

---------------------------------------------------------------------------
(* boot: open the space and sync every folder.                             *)

Boot(p) ==
  /\ pc[p] = "down"
  /\ job' = [job EXCEPT ![p] = [@ EXCEPT !.op = "export", !.left = Robots, !.boot = TRUE]]
  /\ Goto(p, "sync")
  /\ UNCHANGED <<stores, born, clock, hurt>>

\* sync reads what a robot's own database should hold ...
SyncWant(p) ==
  /\ pc[p] = "sync"
  /\ \E a \in job[p].left :
       job' = [job EXCEPT ![p] = [@ EXCEPT !.space = a, !.batch = In(a), !.left = job[p].left \ {a}]]
  /\ Goto(p, "compare")
  /\ UNCHANGED <<stores, born, clock, hurt>>

\* Mutant of Differs: sync counts rows.
CountDiffers(a, want) == Cardinality(want) # Cardinality(own[a]) \/ page[a] = NoPage

\* ... compares ids and times with what it holds, and exports if they differ.
Differs(a, want) == Keys(want) # Keys(own[a]) \/ page[a] = NoPage

SyncCompare(p) ==
  LET a == job[p].space IN
  /\ pc[p] = "compare"
  /\ IF Differs(a, job[p].batch)
       THEN Goto(p, "load") /\ UNCHANGED job
       ELSE Done(p)
  /\ UNCHANGED <<stores, born, clock, hurt>>

\* The global folder last, looked at only for a missing page.
SyncGlobal(p) ==
  /\ pc[p] = "sync" /\ job[p].left = {} /\ page[Global] = NoPage
  /\ job' = [job EXCEPT ![p] = [@ EXCEPT !.space = Global]]
  /\ Goto(p, "load")
  /\ UNCHANGED <<stores, born, clock, hurt>>

Booted(p) ==
  /\ pc[p] = "sync" /\ job[p].left = {} /\ page[Global] # NoPage
  /\ job' = [job EXCEPT ![p] = NoJob]
  /\ Goto(p, "idle")
  /\ UNCHANGED <<stores, born, clock, hurt>>

---------------------------------------------------------------------------
(* What interrupts.                                                        *)

Cut(p) == hurt' = IF HalfDone(p) THEN hurt \union {job[p].space} ELSE hurt

\* Any write or read may return an error, and every operation passes it up with
\* `?`; at boot main then exits.
Fail(p) ==
  /\ pc[p] \notin {"down", "idle"}
  /\ Goto(p, IF job[p].boot THEN "down" ELSE "idle")
  /\ job' = [job EXCEPT ![p] = NoJob]
  /\ Cut(p)
  /\ UNCHANGED <<stores, born, clock>>

\* The process ends, between any two writes.
Crash(p) ==
  /\ pc[p] # "down"
  /\ Goto(p, "down")
  /\ job' = [job EXCEPT ![p] = NoJob]
  /\ Cut(p)
  /\ UNCHANGED <<stores, born, clock>>

\* Somebody empties a robot's folder while no process runs; the shelves stay.
EmptyFolder(a) ==
  /\ \A p \in Procs : pc[p] = "down"
  /\ own'    = [own EXCEPT ![a] = {}]
  /\ ownVec' = [ownVec EXCEPT ![a] = {}]
  /\ log'    = [log EXCEPT ![a] = {}]
  /\ page'   = [page EXCEPT ![a] = NoPage]
  /\ hurt'   = hurt \union {a}
  /\ UNCHANGED <<rows, vec, shelf, born, clock, pc, job>>

Tick ==
  /\ clock < MaxClock
  /\ clock' = clock + 1
  /\ UNCHANGED <<stores, born, pc, job, hurt>>

---------------------------------------------------------------------------
(* The specification.                                                      *)

\* The roster has been made: every robot has an empty own database and a page,
\* the global folder has no page yet.

Init ==
  /\ rows = {} /\ vec = {} /\ shelf = {}
  /\ own    = [a \in Robots |-> {}]
  /\ ownVec = [a \in Robots |-> {}]
  /\ log    = [s \in Spaces |-> {}]
  /\ page   = [s \in Spaces |-> IF s \in Robots THEN {} ELSE NoPage]
  /\ born = 0 /\ clock = 0
  /\ pc  = [p \in Procs |-> "down"]
  /\ job = [p \in Procs |-> NoJob]
  /\ hurt = {}

\* What a client asks of an idle process.
Ask(p) ==
  \/ \E s \in Spaces : \/ AddDocument(p, s)
                       \/ AddText(p, s, "note")
                       \/ AddText(p, s, "message")
                       \/ ClearRows(p, s)
                       \/ Export(p, s)
                       \/ Reindex(p, s)
  \/ FindRow(p)

\* The next write of the operation a process is in.
Go(p) ==
  \/ CopyFile(p) \/ InsertRow(p) \/ DeleteRow(p)
  \/ DeleteOwn(p) \/ InsertOwn(p) \/ AppendLog(p) \/ AppendCsv(p)
  \/ ReadPage(p) \/ WritePage(p)
  \/ PutVector(p) \/ PutOwnVector(p)
  \/ LoadRows(p) \/ LoadVectors(p) \/ RebuildOwn(p) \/ TruncateLogs(p) \/ ReplayRow(p)
  \/ SyncWant(p) \/ SyncCompare(p) \/ SyncGlobal(p) \/ Booted(p)

Next ==
  \/ \E p \in Procs : Ask(p) \/ Go(p) \/ Boot(p) \/ Fail(p) \/ Crash(p)
  \/ \E a \in Robots : EmptyFolder(a)
  \/ Tick

Spec == Init /\ [][Next]_vars

---------------------------------------------------------------------------
(* Properties.                                                             *)

TypeOK ==
  /\ rows \subseteq Row /\ vec \subseteq Vector /\ shelf \subseteq File
  /\ own    \in [Robots -> SUBSET Row]
  /\ ownVec \in [Robots -> SUBSET Vector]
  /\ log    \in [Spaces -> SUBSET Row]
  /\ page   \in [Spaces -> (SUBSET Row) \union {NoPage}]
  /\ born \in 0 .. MaxBorn /\ clock \in 0 .. MaxClock
  /\ pc  \in [Procs -> PCs]
  /\ job \in [Procs -> Job]
  /\ hurt \subseteq Spaces

\* store.rs:6-7, "a row can never point at a file that was never copied":
\* whatever is cut short or interleaved, every row that names a file finds a
\* file of that name on its space's shelf, and no two rows name the same one.
RowsHaveFiles ==
  \A r \in rows : r.name # NoName =>
    /\ OnShelf(r.space, r.name)
    /\ \A q \in rows : q.space = r.space /\ q.name = r.name => q = r

\* space.rs:151, "two photos called IMG_0001.png from two different cameras
\* both survive": the file a row names holds the bytes that row was filed with.
RowsKeepTheirBytes ==
  \A r \in rows, f \in shelf :
    r.space = f.space /\ r.name = f.name => r.born = f.born

\* A folder agrees with the global database in everything it holds.
InStep(s) ==
  /\ log[s] = In(s)
  /\ page[s] # NoPage => page[s] = In(s)
  /\ page[s] = NoPage => In(s) = {}
  /\ s \in Robots => own[s] = In(s) /\ ownVec[s] = VectorsOf(In(s))

Quiet == \A p \in Procs : pc[p] \in {"down", "idle"}

\* store.rs:10-19, "writes go to all of them in one call": between operations
\* every folder none of whose operations was cut short shows exactly the global
\* database's rows for it, in its own database, its log and its page; and a
\* finished export brings a folder that was cut short back to that.
FoldersInStep == Quiet => \A s \in Spaces \ hurt : InStep(s)

\* store.rs:281-285: when boot is over every robot's own database has, row by
\* row, the ids and times of the global one, whatever was cut short before.
BootRepairsOwn ==
  [][\A p \in Procs : pc[p] = "sync" /\ pc'[p] = "idle" =>
       \A a \in Robots : Keys(own'[a]) = Keys({r \in rows' : r.space = a})]_vars

\* put_embedding keys a vector by rowid, and rowids are used again: no vector of
\* the global database was computed from another row's text.
VectorsFitRows ==
  \A v \in vec, r \in rows : v.id = r.id => v.born = r.born

\* A robot's own database never holds another space's row, nor a vector of a
\* row it does not hold.
OwnIsOwn ==
  \A a \in Robots : /\ \A r \in own[a] : r.space = a
                    /\ Ids(ownVec[a]) \subseteq Ids(own[a])
============================================================================
