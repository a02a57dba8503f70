--------------------------- MODULE ArchiveProofs ---------------------------
(***************************************************************************)
(* Of module Archive.  For any roster, any number of processes on the space *)
(* and any bounds: the types, RowsHaveFiles and OwnIsOwn.  For one process, *)
(* any roster and any bounds: RowsKeepTheirBytes, VectorsFitRows,           *)
(* FoldersInStep and BootRepairsOwn.  All but the first are about tables,   *)
(* and not inductive: an operation reads or writes a thing some steps       *)
(* before the write that needs it, so what it carries in its locals in      *)
(* between has to be part of the invariant.                                 *)
(***************************************************************************)
EXTENDS Archive, TLAPS

---------------------------------------------------------------------------
(* The inductive invariant.                                                *)

\* A document about to be copied has a name, and a row on its way to the folder
\* belongs to the space the operation is about; so does what an export loaded.
Fits(p) ==
  LET j == job[p] IN
  /\ pc[p] = "copy" => j.row.name # NoName
  /\ pc[p] \in {"copy", "insert"} => j.op = "add"
  /\ pc[p] = "delete" => j.op = "delete"
  /\ pc[p] = "owninsert" => j.op = "add"
  /\ pc[p] \in {"own", "owninsert"} => j.space \in Robots
  /\ pc[p] \in {"copy", "insert", "own", "owninsert"} /\ j.op = "add" => j.row.space = j.space
  /\ pc[p] \in {"loadvecs", "rebuild"} => \A r \in j.batch : r.space = j.space
JobFits == \A p \in Procs : Fits(p)

\* Before a row that names a file goes in, a file of that name is on the shelf.
FileFirst ==
  \A p \in Procs : pc[p] = "insert" /\ job[p].row.name # NoName =>
    OnShelf(job[p].row.space, job[p].row.name)

IInv == TypeOK /\ JobFits /\ FileFirst /\ RowsHaveFiles /\ OwnIsOwn

---------------------------------------------------------------------------
(* The types.                                                              *)

\* The empty locals are a job, also with a boot to go back to.
LEMMA NoJobIsJob ==
  /\ AnyRow \in Row /\ NoJob \in Job
  /\ \A left \in SUBSET Robots, boot \in BOOLEAN :
       [NoJob EXCEPT !.left = left, !.boot = boot] \in Job
<1>1. AnyRow \in Row
  BY BoundsAreNat DEF AnyRow, Row, Borns, Spaces, Kinds
<1>2. NoJob \in Job
  BY <1>1 DEF NoJob, Job, Ops, Spaces
<1> QED BY <1>1, <1>2 DEF Job

\* An operation that returns leaves every process a place and locals.
LEMMA DoneTyped ==
  ASSUME TypeOK, NEW p \in Procs, Done(p)
  PROVE  pc' \in [Procs -> PCs] /\ job' \in [Procs -> Job]
<1>1. job[p].left \in SUBSET Robots /\ job[p].boot \in BOOLEAN
  BY DEF TypeOK, Job
<1>2. [NoJob EXCEPT !.left = job[p].left, !.boot = job[p].boot] \in Job
  BY <1>1, NoJobIsJob
<1> QED BY <1>2 DEF Done, TypeOK, Goto, PCs

\* The same of an operation that goes on.
LEMMA GotoTyped ==
  ASSUME TypeOK, NEW p \in Procs, NEW l \in PCs, Goto(p, l)
  PROVE  pc' \in [Procs -> PCs]
BY DEF TypeOK, Goto

\* The empty archive has the types.
LEMMA InitTyped == Init => TypeOK
<1> SUFFICES ASSUME Init PROVE TypeOK
  OBVIOUS
<1>1. job \in [Procs -> Job]
  BY NoJobIsJob DEF Init
<1> QED BY <1>1, BoundsAreNat DEF Init, TypeOK, Spaces, PCs

\* What a client asks of a process gives it well-typed locals.
LEMMA AskTyped ==
  ASSUME TypeOK, NEW p \in Procs, Ask(p)
  PROVE  TypeOK'
<1> USE DEF TypeOK, stores, PCs
<1>0. job[p] \in Job
  OBVIOUS
<1>1. ASSUME NEW s \in Spaces, AddDocument(p, s) PROVE TypeOK'
  <2>1. PICK n \in Names : job' = [job EXCEPT ![p] =
            [@ EXCEPT !.op = "add", !.space = s,
             !.row = [id |-> born + 1, born |-> born + 1, space |-> s,
                      kind |-> "document", name |-> n, at |-> clock]]]
    BY <1>1 DEF AddDocument
  <2>2. born + 1 \in Borns
    BY <1>1, BoundsAreNat DEF AddDocument, Borns
  <2>3. [id |-> born + 1, born |-> born + 1, space |-> s,
         kind |-> "document", name |-> n, at |-> clock] \in Row
    BY <2>2 DEF Row, Kinds
  <2>4. job' \in [Procs -> Job]
    BY <1>0, <2>1, <2>3 DEF Job, Ops
  <2> QED BY <1>1, <2>2, <2>4, GotoTyped DEF AddDocument, Borns
<1>2. ASSUME NEW s \in Spaces, NEW k \in {"note", "message"}, AddText(p, s, k) PROVE TypeOK'
  <2>1. born + 1 \in Borns
    BY <1>2, BoundsAreNat DEF AddText, Borns
  <2>2. [id |-> born + 1, born |-> born + 1, space |-> s, kind |-> k,
         name |-> NoName, at |-> clock] \in Row
    BY <2>1 DEF Row, Kinds
  <2>3. job' \in [Procs -> Job]
    BY <1>0, <1>2, <2>2 DEF AddText, Job, Ops
  <2> QED BY <1>2, <2>1, <2>3, GotoTyped DEF AddText, Borns
<1>3. ASSUME NEW s \in Spaces, ClearRows(p, s) PROVE TypeOK'
  <2>1. job' \in [Procs -> Job]
    BY <1>0, <1>3 DEF ClearRows, Job, Ops
  <2> QED BY <1>3, <2>1, GotoTyped DEF ClearRows, Cascade, Less, OwnOrLog
<1>4. ASSUME NEW s \in Spaces, Export(p, s) PROVE TypeOK'
  <2>1. job' \in [Procs -> Job]
    BY <1>0, <1>4 DEF Export, Job, Ops
  <2> QED BY <1>4, <2>1, GotoTyped DEF Export
<1>5. ASSUME NEW s \in Spaces, Reindex(p, s) PROVE TypeOK'
  <2>1. Unembedded(s) \in SUBSET Row
    BY DEF Unembedded, In
  <2>2. job' \in [Procs -> Job]
    BY <1>0, <1>5, <2>1 DEF Reindex, Job, Ops
  <2> QED BY <1>5, <2>2, GotoTyped DEF Reindex
<1>6. CASE FindRow(p)
  <2>1. PICK r \in rows :
          job' = [job EXCEPT ![p] = [@ EXCEPT !.op = "delete", !.space = r.space, !.row = r]]
    BY <1>6 DEF FindRow
  <2>2. r \in Row /\ r.space \in Spaces
    BY DEF Row
  <2>3. job' \in [Procs -> Job]
    BY <1>0, <2>1, <2>2 DEF Job, Ops
  <2> QED BY <1>6, <2>3, GotoTyped DEF FindRow
<1> QED BY <1>1, <1>2, <1>3, <1>4, <1>5, <1>6 DEF Ask

\* The steps of add, delete, clear and reindex keep the types.
LEMMA WriteTyped ==
  ASSUME TypeOK, JobFits, NEW p \in Procs,
         \/ CopyFile(p) \/ InsertRow(p) \/ DeleteRow(p) \/ DeleteOwn(p) \/ InsertOwn(p)
         \/ AppendLog(p) \/ AppendCsv(p) \/ ReadPage(p) \/ WritePage(p)
         \/ PutVector(p) \/ PutOwnVector(p)
  PROVE  TypeOK'
<1> USE DEF TypeOK, stores, PCs
<1>0. job[p] \in Job /\ job[p].row \in Row /\ job[p].space \in Spaces /\ job[p].batch \in SUBSET Row
  BY DEF Job
<1>1. CASE CopyFile(p)
  <2>1. job[p].row.name \in Names
    BY <1>0, <1>1 DEF CopyFile, JobFits, Fits, Row
  <2>2. [space |-> job[p].row.space, name |-> job[p].row.name,
         born |-> job[p].row.born] \in File
    BY <1>0, <2>1 DEF Row, File
  <2> QED BY <1>1, <2>2, GotoTyped DEF CopyFile
<1>2. CASE InsertRow(p)
  <2>1. PICK i \in Borns :
          LET r == [job[p].row EXCEPT !.id = i, !.at = clock] IN
            /\ rows' = rows \union {r}
            /\ job' = [job EXCEPT ![p] = [@ EXCEPT !.row = r]]
    BY <1>2 DEF InsertRow
  <2>2. [job[p].row EXCEPT !.id = i, !.at = clock] \in Row
    BY <1>0 DEF Row
  <2>3. job' \in [Procs -> Job]
    BY <1>0, <2>1, <2>2 DEF Job
  <2> QED BY <1>2, <2>1, <2>2, <2>3, GotoTyped DEF InsertRow, OwnOrLog
<1>3. ASSUME NEW R \in SUBSET Row PROVE Applied(job[p], R) \in SUBSET Row
  BY <1>0 DEF Applied, Less
<1>4. CASE DeleteOwn(p) \/ InsertOwn(p)
  BY <1>0, <1>4, GotoTyped DEF DeleteOwn, InsertOwn, Less
<1>5. CASE AppendLog(p) \/ AppendCsv(p)
  BY <1>0, <1>3, <1>5, GotoTyped DEF AppendLog, AppendCsv
<1>10. CASE DeleteRow(p)
  <2>1. pc' \in [Procs -> PCs] /\ job' \in [Procs -> Job]
    BY <1>10, DoneTyped, GotoTyped DEF DeleteRow, OwnOrLog
  <2> QED BY <1>10, <2>1 DEF DeleteRow, Cascade, Less
<1>6. CASE ReadPage(p)
  <2>1. In(job[p].space) \in SUBSET Row
    BY DEF In
  <2>2. job' \in [Procs -> Job]
    BY <1>0, <1>6, <2>1 DEF ReadPage, Job
  <2> QED BY <1>6, <2>2, GotoTyped DEF ReadPage
<1>7. CASE WritePage(p)
  <2>1. pc' \in [Procs -> PCs] /\ job' \in [Procs -> Job]
    <3>1. CASE Done(p)
      BY <3>1, DoneTyped
    <3>2. CASE job' = [job EXCEPT ![p] = [@ EXCEPT !.batch = {job[p].row}]] /\ Goto(p, "vec")
      <4>1. job' \in [Procs -> Job]
        BY <1>0, <3>2 DEF Job
      <4> QED BY <3>2, <4>1, GotoTyped
    <3> QED BY <1>7, <3>1, <3>2 DEF WritePage
  <2>2. page' \in [Spaces -> (SUBSET Row) \union {NoPage}] /\ hurt' \subseteq Spaces
    BY <1>0, <1>7 DEF WritePage
  <2> QED BY <1>7, <2>1, <2>2 DEF WritePage
<1>8. CASE PutVector(p)
  <2>1. PICK r \in job[p].batch :
          /\ vec' = Put(vec, [id |-> r.id, born |-> r.born])
          /\ job' = [job EXCEPT ![p] = [@ EXCEPT !.row = r, !.batch = job[p].batch \ {r}]]
    BY <1>8 DEF PutVector
  <2>2. r \in Row /\ [id |-> r.id, born |-> r.born] \in Vector
    BY <1>0 DEF Row, Vector
  <2>3. job' \in [Procs -> Job]
    <3>1. job[p].batch \ {r} \in SUBSET Row
      BY <1>0
    <3> QED BY <1>0, <2>1, <2>2, <3>1 DEF Job
  <2> QED BY <1>8, <2>1, <2>2, <2>3, GotoTyped DEF PutVector, Put, Less
<1>9. CASE PutOwnVector(p)
  <2>1. pc' \in [Procs -> PCs] /\ job' \in [Procs -> Job]
    BY <1>9, DoneTyped, GotoTyped DEF PutOwnVector
  <2>2. [id |-> job[p].row.id, born |-> job[p].row.born] \in Vector
    BY <1>0 DEF Row, Vector
  <2>3. ownVec' \in [Robots -> SUBSET Vector]
    BY <1>9, <2>2 DEF PutOwnVector, Put, Less
  <2> QED BY <1>9, <2>1, <2>3 DEF PutOwnVector
<1> QED BY <1>1, <1>2, <1>4, <1>5, <1>6, <1>7, <1>8, <1>9, <1>10

\* The steps of an export and of a boot keep the types.
LEMMA ExportTyped ==
  ASSUME TypeOK, NEW p \in Procs,
         \/ LoadRows(p) \/ LoadVectors(p) \/ RebuildOwn(p) \/ TruncateLogs(p) \/ ReplayRow(p)
         \/ Boot(p) \/ SyncWant(p) \/ SyncCompare(p) \/ SyncGlobal(p) \/ Booted(p)
  PROVE  TypeOK'
<1> USE DEF TypeOK, stores, PCs
<1>0. job[p] \in Job /\ job[p].space \in Spaces /\ job[p].batch \in SUBSET Row
      /\ job[p].vecs \in SUBSET Vector /\ job[p].left \in SUBSET Robots
  BY DEF Job
<1>1. CASE LoadRows(p) \/ LoadVectors(p)
  <2>1. In(job[p].space) \in SUBSET Row /\ VectorsOf(In(job[p].space)) \in SUBSET Vector
    BY DEF In, VectorsOf
  <2>2. job' \in [Procs -> Job]
    BY <1>0, <1>1, <2>1 DEF LoadRows, LoadVectors, Job
  <2> QED BY <1>1, <2>2, GotoTyped DEF LoadRows, LoadVectors
<1>2. CASE RebuildOwn(p)
  BY <1>0, <1>2, GotoTyped DEF RebuildOwn
<1>3. CASE TruncateLogs(p)
  BY <1>0, <1>3, GotoTyped DEF TruncateLogs
<1>4. CASE ReplayRow(p)
  <2>1. PICK r \in job[p].batch :
          /\ log' = [log EXCEPT ![job[p].space] = Put(@, r)]
          /\ job' = [job EXCEPT ![p] = [@ EXCEPT !.batch = job[p].batch \ {r}]]
          /\ Goto(p, IF job[p].batch = {r} THEN "read" ELSE "replay")
    BY <1>4 DEF ReplayRow
  <2>2. r \in Row
    BY <1>0
  <2>3. log' \in [Spaces -> SUBSET Row]
    BY <1>0, <2>1, <2>2 DEF Put, Less
  <2>4. job' \in [Procs -> Job]
    <3>1. job[p].batch \ {r} \in SUBSET Row
      BY <1>0
    <3> QED BY <1>0, <2>1, <3>1 DEF Job
  <2> QED BY <1>4, <2>1, <2>3, <2>4, GotoTyped DEF ReplayRow
<1>5. CASE Boot(p)
  <2>1. job' \in [Procs -> Job]
    BY <1>0, <1>5 DEF Boot, Job, Ops
  <2> QED BY <1>5, <2>1, GotoTyped DEF Boot
<1>6. CASE SyncWant(p)
  <2>1. PICK a \in job[p].left : job' = [job EXCEPT ![p] =
          [@ EXCEPT !.space = a, !.batch = In(a), !.left = job[p].left \ {a}]]
    BY <1>6 DEF SyncWant
  <2>2. a \in Spaces /\ In(a) \in SUBSET Row
    BY <1>0 DEF Spaces, In
  <2>3. job' \in [Procs -> Job]
    <3>1. job[p].left \ {a} \in SUBSET Robots
      BY <1>0
    <3> QED BY <1>0, <2>1, <2>2, <3>1 DEF Job
  <2> QED BY <1>6, <2>3, GotoTyped DEF SyncWant
<1>7. CASE SyncCompare(p)
  BY <1>7, DoneTyped, GotoTyped DEF SyncCompare
<1>8. CASE SyncGlobal(p)
  <2>1. job' \in [Procs -> Job]
    BY <1>0, <1>8 DEF SyncGlobal, Job, Spaces
  <2> QED BY <1>8, <2>1, GotoTyped DEF SyncGlobal
<1>9. CASE Booted(p)
  <2>1. job' \in [Procs -> Job]
    BY <1>9, NoJobIsJob DEF Booted
  <2> QED BY <1>9, <2>1, GotoTyped DEF Booted
<1> QED BY <1>1, <1>2, <1>3, <1>4, <1>5, <1>6, <1>7, <1>8, <1>9

\* What interrupts keeps the types, and so does a step of nothing.
LEMMA WorldTyped ==
  ASSUME TypeOK,
         \/ \E p \in Procs : Fail(p) \/ Crash(p)
         \/ \E a \in Robots : EmptyFolder(a)
         \/ Tick \/ UNCHANGED vars
  PROVE  TypeOK'
<1> USE DEF TypeOK, stores, PCs
<1>1. ASSUME NEW p \in Procs, Fail(p) \/ Crash(p) PROVE TypeOK'
  <2>1. job[p].space \in Spaces
    BY DEF Job
  <2>2. job' \in [Procs -> Job] /\ hurt' \subseteq Spaces
    BY <1>1, <2>1, NoJobIsJob DEF Fail, Crash, Cut
  <2> QED BY <1>1, <2>2, GotoTyped DEF Fail, Crash
<1>2. ASSUME NEW a \in Robots, EmptyFolder(a) PROVE TypeOK'
  BY <1>2 DEF EmptyFolder, Spaces
<1>3. CASE Tick
  BY <1>3, BoundsAreNat DEF Tick
<1>4. CASE UNCHANGED vars
  BY <1>4 DEF vars
<1> QED BY <1>1, <1>2, <1>3, <1>4

\* Hence every step of the specification.
LEMMA NextTyped == TypeOK /\ JobFits /\ [Next]_vars => TypeOK'
BY AskTyped, WriteTyped, ExportTyped, WorldTyped DEF Next, Go

---------------------------------------------------------------------------
(* What an operation carries between its steps.                            *)

\* Whose locals fit after a step of p: p's, and those of the others as before.
LEMMA StepFits ==
  ASSUME TypeOK, JobFits, NEW p \in Procs, NEW l, Goto(p, l),
         \A q \in Procs \ {p} : job'[q] = job[q],
         l \in {"copy", "insert", "delete", "own", "owninsert", "loadvecs", "rebuild"} => Fits(p)'
  PROVE  JobFits'
<1>1. pc'[p] = l /\ \A q \in Procs \ {p} : pc'[q] = pc[q]
  BY DEF TypeOK, Goto
<1>2. Fits(p)'
  BY <1>1 DEF Fits
<1>3. ASSUME NEW q \in Procs \ {p} PROVE Fits(q)'
  BY <1>1, <1>3 DEF JobFits, Fits, Ids
<1> QED BY <1>2, <1>3 DEF JobFits

\* An operation that is over leaves the others' locals as they were, and itself none.
LEMMA DoneFits ==
  ASSUME TypeOK, JobFits, NEW p \in Procs, Done(p)
  PROVE  JobFits'
<1>1. \A q \in Procs \ {p} : job'[q] = job[q]
  BY DEF Done, TypeOK
<1> QED BY <1>1, StepFits DEF Done

\* Only at seven places does Fits say something of a process's locals; whoever
\* comes to one of them brings locals that fit.
LEMMA FitsKept == IInv /\ [Next]_vars => JobFits'
<1> SUFFICES ASSUME IInv, [Next]_vars PROVE JobFits'
  OBVIOUS
<1> USE DEF IInv
<1>0. \A p \in Procs : job[p] \in Job /\ job[p].row \in Row
  BY DEF TypeOK, Job
<1>1. ASSUME NEW p \in Procs, Ask(p) PROVE JobFits'
  <2>0. \A q \in Procs \ {p} : job'[q] = job[q]
    BY <1>1 DEF Ask, AddDocument, AddText, ClearRows, Export, Reindex, FindRow, TypeOK
  <2>1. ASSUME NEW s \in Spaces, AddDocument(p, s) PROVE JobFits'
    <3>1. PICK n \in Names : job' = [job EXCEPT ![p] =
            [@ EXCEPT !.op = "add", !.space = s,
             !.row = [id |-> born + 1, born |-> born + 1, space |-> s,
                      kind |-> "document", name |-> n, at |-> clock]]]
      BY <2>1 DEF AddDocument
    <3>2. job'[p].op = "add" /\ job'[p].row.space = job'[p].space
          /\ job'[p].row.name # NoName /\ pc'[p] = "copy"
      BY <1>0, <2>1, <3>1 DEF AddDocument, Goto, Job, Names, NoName, TypeOK
    <3> QED BY <2>0, <2>1, <3>2, StepFits DEF AddDocument, Fits
  <2>2. ASSUME NEW s \in Spaces, NEW k \in Kinds, AddText(p, s, k) PROVE JobFits'
    <3>1. job'[p].op = "add" /\ job'[p].row.space = job'[p].space /\ pc'[p] = "insert"
      BY <1>0, <2>2 DEF AddText, Goto, Job, TypeOK
    <3> QED BY <2>0, <2>2, <3>1, StepFits DEF AddText, Fits
  <2>3. ASSUME NEW s \in Spaces, ClearRows(p, s) PROVE JobFits'
    <3>1. job'[p].op = "clear" /\ job'[p].space = s /\ pc'[p] = OwnOrLog(s)
      BY <1>0, <2>3 DEF ClearRows, Goto, Job, TypeOK
    <3> QED BY <2>0, <2>3, <3>1, StepFits DEF ClearRows, Fits, OwnOrLog
  <2>4. ASSUME NEW s \in Spaces, Export(p, s) \/ Reindex(p, s) PROVE JobFits'
    BY <2>0, <2>4, StepFits DEF Export, Reindex
  <2>5. CASE FindRow(p)
    <3>1. job'[p].op = "delete" /\ pc'[p] = "delete"
      BY <1>0, <2>5 DEF FindRow, Goto, Job, TypeOK
    <3> QED BY <2>0, <2>5, <3>1, StepFits DEF FindRow, Fits
  <2> QED BY <1>1, <2>1, <2>2, <2>3, <2>4, <2>5 DEF Ask, Kinds
<1>2. ASSUME NEW p \in Procs, CopyFile(p) PROVE JobFits'
  <2>1. Fits(p)'
    BY <1>2 DEF CopyFile, Goto, JobFits, Fits, TypeOK
  <2> QED BY <1>2, <2>1, StepFits DEF CopyFile
<1>3. ASSUME NEW p \in Procs, InsertRow(p) PROVE JobFits'
  <2>1. PICK i \in Borns : job' = [job EXCEPT ![p] =
          [@ EXCEPT !.row = [job[p].row EXCEPT !.id = i, !.at = clock]]]
    BY <1>3 DEF InsertRow
  <2>2. /\ job'[p].op = job[p].op /\ job'[p].space = job[p].space
        /\ job'[p].row.space = job[p].row.space
        /\ pc'[p] = OwnOrLog(job[p].space)
        /\ \A q \in Procs \ {p} : job'[q] = job[q]
    BY <1>0, <1>3, <2>1 DEF InsertRow, Goto, Job, Row, TypeOK
  <2>3. Fits(p)'
    BY <1>3, <2>2 DEF InsertRow, JobFits, Fits, OwnOrLog
  <2> QED BY <1>3, <2>2, <2>3, StepFits DEF InsertRow
<1>4. ASSUME NEW p \in Procs, LoadRows(p) PROVE JobFits'
  <2>1. /\ job'[p].batch = In(job[p].space) /\ job'[p].space = job[p].space
        /\ pc'[p] \in {"loadvecs", "truncate"}
        /\ \A q \in Procs \ {p} : job'[q] = job[q]
    BY <1>0, <1>4 DEF LoadRows, Goto, Job, TypeOK
  <2>2. Fits(p)'
    BY <2>1 DEF Fits, In
  <2> QED BY <1>4, <2>1, <2>2, StepFits DEF LoadRows
<1>11. ASSUME NEW p \in Procs, LoadVectors(p) PROVE JobFits'
  <2>1. /\ job'[p].batch = job[p].batch /\ job'[p].space = job[p].space
        /\ pc[p] = "loadvecs" /\ pc'[p] = "rebuild"
        /\ \A q \in Procs \ {p} : job'[q] = job[q]
    BY <1>0, <1>11 DEF LoadVectors, Goto, Job, TypeOK
  <2>2. Fits(p)'
    BY <2>1 DEF JobFits, Fits
  <2> QED BY <1>11, <2>1, <2>2, StepFits DEF LoadVectors
<1>12. ASSUME NEW p \in Procs, DeleteOwn(p) PROVE JobFits'
  <2>1. job' = job /\ pc[p] = "own" /\ pc'[p] = IF job[p].op = "add" THEN "owninsert" ELSE "log"
    BY <1>12 DEF DeleteOwn, Goto, TypeOK
  <2>2. Fits(p)'
    BY <2>1 DEF JobFits, Fits
  <2> QED BY <1>12, <2>1, <2>2, StepFits DEF DeleteOwn
<1>13. ASSUME NEW p \in Procs, DeleteRow(p) PROVE JobFits'
  <2>1. CASE Done(p)
    BY <2>1, DoneFits
  <2>2. CASE Goto(p, OwnOrLog(job[p].space)) /\ UNCHANGED job
    <3>1. pc[p] = "delete" /\ job' = job
      BY <1>13, <2>2 DEF DeleteRow
    <3>2. job[p].op # "add"
      BY <3>1 DEF JobFits, Fits
    <3>3. Fits(p)'
      BY <2>2, <3>1, <3>2 DEF Fits, Goto, TypeOK, OwnOrLog
    <3> QED BY <2>2, <3>1, <3>3, StepFits
  <2> QED BY <1>13, <2>1, <2>2 DEF DeleteRow
<1>5. ASSUME NEW p \in Procs, InsertOwn(p) \/ AppendLog(p) \/ AppendCsv(p) \/ ReadPage(p)
      PROVE  JobFits'
  <2>1. \A q \in Procs \ {p} : job'[q] = job[q]
    BY <1>5 DEF InsertOwn, AppendLog, AppendCsv, ReadPage, TypeOK
  <2> QED BY <1>5, <2>1, StepFits DEF InsertOwn, AppendLog, AppendCsv, ReadPage
<1>6. ASSUME NEW p \in Procs, WritePage(p) \/ PutVector(p) \/ PutOwnVector(p) PROVE JobFits'
  <2>1. \A q \in Procs \ {p} : job'[q] = job[q]
    BY <1>6 DEF WritePage, PutVector, PutOwnVector, Done, TypeOK
  <2> QED BY <1>6, <2>1, StepFits, DoneFits DEF WritePage, PutVector, PutOwnVector
<1>7. ASSUME NEW p \in Procs, RebuildOwn(p) \/ TruncateLogs(p) \/ ReplayRow(p) PROVE JobFits'
  <2>1. \A q \in Procs \ {p} : job'[q] = job[q]
    BY <1>7 DEF RebuildOwn, TruncateLogs, ReplayRow, TypeOK
  <2> QED BY <1>7, <2>1, StepFits DEF RebuildOwn, TruncateLogs, ReplayRow
<1>8. ASSUME NEW p \in Procs,
             Boot(p) \/ SyncWant(p) \/ SyncCompare(p) \/ SyncGlobal(p) \/ Booted(p)
      PROVE  JobFits'
  <2>1. \A q \in Procs \ {p} : job'[q] = job[q]
    BY <1>8 DEF Boot, SyncWant, SyncCompare, SyncGlobal, Booted, Done, TypeOK
  <2> QED BY <1>8, <2>1, StepFits, DoneFits DEF Boot, SyncWant, SyncCompare, SyncGlobal, Booted
<1>9. ASSUME NEW p \in Procs, Fail(p) \/ Crash(p) PROVE JobFits'
  <2>1. \A q \in Procs \ {p} : job'[q] = job[q]
    BY <1>9 DEF Fail, Crash, TypeOK
  <2> QED BY <1>9, <2>1, StepFits DEF Fail, Crash
<1>10. CASE (\E a \in Robots : EmptyFolder(a)) \/ Tick \/ UNCHANGED vars
  BY <1>10 DEF EmptyFolder, Tick, vars, JobFits, Fits, Ids
<1> QED BY <1>1, <1>2, <1>3, <1>4, <1>5, <1>6, <1>7, <1>8, <1>9, <1>10, <1>11, <1>12, <1>13
    DEF Next, Go

---------------------------------------------------------------------------
(* Files.                                                                  *)

\* No step takes a name off a shelf: CopyFile writes over one or adds one.
LEMMA ShelvesGrow ==
  ASSUME IInv, [Next]_vars, NEW s, NEW n, OnShelf(s, n)
  PROVE  OnShelf(s, n)'
<1>1. ASSUME NEW p \in Procs, CopyFile(p) PROVE OnShelf(s, n)'
  <2>1. PICK f \in shelf : f.space = s /\ f.name = n
    BY DEF OnShelf
  <2> DEFINE new == [space |-> job[p].row.space, name |-> job[p].row.name, born |-> job[p].row.born]
  <2>2. new \in shelf'
    BY <1>1 DEF CopyFile
  <2>3. new.space = job[p].row.space /\ new.name = job[p].row.name
    OBVIOUS
  <2>4. f \in shelf' \/ (f.space = job[p].row.space /\ f.name = job[p].row.name)
    BY <1>1 DEF CopyFile
  <2> HIDE DEF new
  <2> QED BY <2>1, <2>2, <2>3, <2>4 DEF OnShelf
<1>2. CASE UNCHANGED shelf
  BY <1>2 DEF OnShelf
<1>3. ASSUME NEW p \in Procs, Ask(p) PROVE UNCHANGED shelf
  BY <1>3 DEF Ask, AddDocument, AddText, ClearRows, Export, Reindex, FindRow, stores
<1>4. ASSUME NEW p \in Procs, Go(p) PROVE CopyFile(p) \/ UNCHANGED shelf
  BY <1>4 DEF Go, InsertRow, DeleteRow, DeleteOwn, InsertOwn, AppendLog, AppendCsv,
     ReadPage, WritePage, PutVector, PutOwnVector, LoadRows, LoadVectors, RebuildOwn, TruncateLogs, ReplayRow, SyncWant, SyncCompare,
     SyncGlobal, Booted, stores
<1>5. ASSUME NEW p \in Procs, Boot(p) \/ Fail(p) \/ Crash(p) PROVE UNCHANGED shelf
  BY <1>5 DEF Boot, Fail, Crash, stores
<1>6. CASE (\E a \in Robots : EmptyFolder(a)) \/ Tick \/ UNCHANGED vars
  BY <1>2, <1>6 DEF EmptyFolder, Tick, stores, vars
<1> QED BY <1>1, <1>2, <1>3, <1>4, <1>5, <1>6 DEF Next

\* A step of p leaves the places and locals of the others alone, and comes to
\* "insert" from CopyFile or AddText only.
LEMMA OneMoves ==
  ASSUME TypeOK, NEW p \in Procs, Ask(p) \/ Go(p) \/ Boot(p) \/ Fail(p) \/ Crash(p)
  PROVE  /\ \A q \in Procs \ {p} : pc'[q] = pc[q] /\ job'[q] = job[q]
         /\ pc'[p] = "insert" =>
              CopyFile(p) \/ \E s \in Spaces, k \in Kinds : AddText(p, s, k)
<1> USE DEF TypeOK, Goto, Done
<1>1. CASE Ask(p)
  BY <1>1 DEF Ask, AddDocument, AddText, ClearRows, Export, Reindex, FindRow, OwnOrLog, Kinds
<1>2. CASE CopyFile(p) \/ InsertRow(p) \/ DeleteRow(p) \/ DeleteOwn(p) \/ InsertOwn(p)
           \/ AppendLog(p) \/ AppendCsv(p) \/ ReadPage(p) \/ WritePage(p)
  BY <1>2 DEF CopyFile, InsertRow, DeleteRow, DeleteOwn, InsertOwn, AppendLog, AppendCsv,
     ReadPage, WritePage, OwnOrLog
<1>3. CASE PutVector(p) \/ PutOwnVector(p) \/ LoadRows(p) \/ LoadVectors(p) \/ RebuildOwn(p)
           \/ TruncateLogs(p) \/ ReplayRow(p)
  BY <1>3 DEF PutVector, PutOwnVector, LoadRows, LoadVectors, RebuildOwn, TruncateLogs, ReplayRow
<1>4. CASE SyncWant(p) \/ SyncCompare(p) \/ SyncGlobal(p) \/ Booted(p) \/ Boot(p) \/ Fail(p) \/ Crash(p)
  BY <1>4 DEF SyncWant, SyncCompare, SyncGlobal, Booted, Boot, Fail, Crash
<1> QED BY <1>1, <1>2, <1>3, <1>4 DEF Go

\* A process comes to "insert" from CopyFile, which has put the file there, or
\* from AddText, with no name.
LEMMA FileFirstKept == IInv /\ [Next]_vars => FileFirst'
<1> SUFFICES ASSUME IInv, [Next]_vars, NEW p \in Procs, pc'[p] = "insert",
                    NEW s, s = job'[p].row.space,
                    NEW n, n = job'[p].row.name, n # NoName
             PROVE  OnShelf(s, n)'
  BY DEF FileFirst, OnShelf
<1>0. TypeOK /\ job[p] \in Job /\ job \in [Procs -> Job]
  BY DEF IInv, TypeOK
<1>1. CASE pc'[p] = pc[p] /\ job'[p] = job[p]
  <2>1. OnShelf(s, n)
    BY <1>1 DEF IInv, FileFirst
  <2> QED BY <2>1, ShelvesGrow
<1>2. CASE CopyFile(p)
  <2>1. [space |-> s, name |-> n, born |-> job[p].row.born] \in shelf'
    BY <1>2 DEF CopyFile
  <2> QED BY <2>1 DEF OnShelf
<1>3. ASSUME NEW t \in Spaces, NEW k \in Kinds, AddText(p, t, k) PROVE FALSE
  BY <1>0, <1>3 DEF AddText, Job
<1>4. ASSUME NEW q \in Procs, Ask(q) \/ Go(q) \/ Boot(q) \/ Fail(q) \/ Crash(q)
      PROVE  OnShelf(s, n)'
  <2>1. CASE q = p
    BY <1>0, <1>2, <1>3, <1>4, <2>1, OneMoves
  <2>2. CASE q # p
    BY <1>0, <1>1, <1>4, <2>2, OneMoves
  <2> QED BY <2>1, <2>2
<1>5. CASE (\E a \in Robots : EmptyFolder(a)) \/ Tick \/ UNCHANGED vars
  BY <1>1, <1>5 DEF EmptyFolder, Tick, vars
<1> QED BY <1>4, <1>5 DEF Next

\* Rows come in through InsertRow only, which has the file by FileFirst and the
\* name to itself by the unique index.
LEMMA RowsHaveFilesKept == IInv /\ [Next]_vars => RowsHaveFiles'
<1> SUFFICES ASSUME IInv, [Next]_vars PROVE RowsHaveFiles'
  OBVIOUS
<1>1. ASSUME NEW p \in Procs, InsertRow(p) PROVE RowsHaveFiles'
  <2>1. PICK i \in Borns :
          LET r == [job[p].row EXCEPT !.id = i, !.at = clock] IN
            /\ ~PathTaken(In(r.space), r)
            /\ rows' = rows \union {r}
    BY <1>1 DEF InsertRow
  <2> DEFINE r == [job[p].row EXCEPT !.id = i, !.at = clock]
  <2>2. r.name = job[p].row.name /\ r.space = job[p].row.space
    BY DEF IInv, TypeOK, Job, Row
  <2>3. r.name # NoName => OnShelf(r.space, r.name)
    BY <1>1, <2>2 DEF IInv, FileFirst, InsertRow
  <2>4. UNCHANGED shelf
    BY <1>1 DEF InsertRow
  <2>5. rows' = rows \union {r} /\ ~PathTaken(In(r.space), r)
    BY <2>1
  <2> HIDE DEF r
  <2> QED BY <2>3, <2>4, <2>5 DEF IInv, RowsHaveFiles, PathTaken, OnShelf, In
<1>2. CASE rows' \subseteq rows
  BY <1>2, ShelvesGrow DEF IInv, RowsHaveFiles, OnShelf
<1>3. ASSUME NEW p \in Procs, Ask(p) PROVE rows' \subseteq rows
  BY <1>3 DEF Ask, AddDocument, AddText, ClearRows, Export, Reindex, FindRow, Less, stores
<1>4. ASSUME NEW p \in Procs, Go(p) PROVE InsertRow(p) \/ rows' \subseteq rows
  BY <1>4 DEF Go, CopyFile, DeleteRow, DeleteOwn, InsertOwn, AppendLog, AppendCsv, ReadPage,
     WritePage, PutVector, PutOwnVector, LoadRows, LoadVectors, RebuildOwn, TruncateLogs,
     ReplayRow, SyncWant, SyncCompare, SyncGlobal, Booted, Less, stores
<1>5. ASSUME NEW p \in Procs, Boot(p) \/ Fail(p) \/ Crash(p) PROVE UNCHANGED rows
  BY <1>5 DEF Boot, Fail, Crash, stores
<1>6. CASE (\E a \in Robots : EmptyFolder(a)) \/ Tick \/ UNCHANGED vars
  BY <1>2, <1>6 DEF EmptyFolder, Tick, stores, vars
<1> QED BY <1>1, <1>2, <1>3, <1>4, <1>5, <1>6 DEF Next

---------------------------------------------------------------------------
(* The robots' own databases.                                              *)

\* What OwnIsOwn says of one robot's database.
Owned(a, R, V) == (\A r \in R : r.space = a) /\ Ids(V) \subseteq Ids(R)

\* Deleting rows with their vectors keeps it; so does putting in a row of the
\* robot's, and a vector of a row that is there.
LEMMA OwnedLess ==
  ASSUME NEW a, NEW R, NEW V, NEW T, Owned(a, R, V)
  PROVE  Owned(a, Less(R, T), Less(V, T))
<1>1. ASSUME NEW v \in Less(V, T) PROVE v.id \in Ids(Less(R, T))
  <2>1. v \in V /\ v.id \notin T
    BY DEF Less
  <2>2. PICK r \in R : v.id = r.id
    BY <2>1 DEF Owned, Ids
  <2> QED BY <2>1, <2>2 DEF Less, Ids
<1>2. \A r \in Less(R, T) : r.space = a
  BY DEF Owned, Less
<1> QED BY <1>1, <1>2 DEF Owned, Ids

\* A row of the robot's, or a vector of one of its rows, may go to an own database.
LEMMA OwnedPut ==
  ASSUME NEW a, NEW R, NEW V, NEW r, NEW v, Owned(a, R, V)
  PROVE  /\ r.space = a => Owned(a, R \union {r}, V)
         /\ v.id \in Ids(R) => Owned(a, R, Put(V, v))
BY DEF Owned, Put, Less, Ids

\* The steps that write one each take it from Owned to Owned: a row comes in with
\* its own space, from an add or an export; a row that goes takes its vector along;
\* and a vector goes in only where its row is.
LEMMA OwnIsOwnKept == IInv /\ [Next]_vars => OwnIsOwn'
<1> SUFFICES ASSUME IInv, [Next]_vars PROVE OwnIsOwn'
  OBVIOUS
<1>0. /\ own \in [Robots -> SUBSET Row] /\ ownVec \in [Robots -> SUBSET Vector]
      /\ \A a \in Robots : Owned(a, own[a], ownVec[a])
  BY DEF IInv, TypeOK, OwnIsOwn, Owned
<1>1. ASSUME NEW p \in Procs, DeleteOwn(p) PROVE OwnIsOwn'
  <2>1. ASSUME NEW a \in Robots PROVE Owned(a, own'[a], ownVec'[a])
    <3> DEFINE T == Takes(job[p], own[a])
    <3>1. CASE a = job[p].space
      <4>1. own'[a] = Less(own[a], T) /\ ownVec'[a] = Less(ownVec[a], T)
        BY <1>0, <1>1, <3>1 DEF DeleteOwn
      <4> HIDE DEF T
      <4> QED BY <1>0, <4>1, OwnedLess
    <3>2. CASE a # job[p].space
      <4>1. own'[a] = own[a] /\ ownVec'[a] = ownVec[a]
        BY <1>0, <1>1, <3>2 DEF DeleteOwn
      <4> QED BY <1>0, <4>1
    <3> QED BY <3>1, <3>2
  <2> QED BY <2>1 DEF OwnIsOwn, Owned, Ids
<1>10. ASSUME NEW p \in Procs, InsertOwn(p) PROVE OwnIsOwn'
  <2>1. ASSUME NEW a \in Robots PROVE Owned(a, own'[a], ownVec'[a])
    <3>1. CASE a = job[p].space
      <4>1. own'[a] = own[a] \union {job[p].row} /\ ownVec'[a] = ownVec[a]
        BY <1>0, <1>10, <3>1 DEF InsertOwn
      <4>2. job[p].row.space = a
        BY <1>10, <3>1 DEF InsertOwn, IInv, JobFits, Fits
      <4> QED BY <1>0, <4>1, <4>2, OwnedPut
    <3>2. CASE a # job[p].space
      <4>1. own'[a] = own[a] /\ ownVec'[a] = ownVec[a]
        BY <1>0, <1>10, <3>2 DEF InsertOwn
      <4> QED BY <1>0, <4>1
    <3> QED BY <3>1, <3>2
  <2> QED BY <2>1 DEF OwnIsOwn, Owned, Ids
<1>2. ASSUME NEW p \in Procs, PutOwnVector(p) PROVE OwnIsOwn'
  <2> DEFINE v == [id |-> job[p].row.id, born |-> job[p].row.born]
  <2>1. ASSUME NEW b \in Robots, v.id \in Ids(own[b]),
               ownVec' = [ownVec EXCEPT ![b] = Put(@, v)],
               NEW a \in Robots
        PROVE  Owned(a, own'[a], ownVec'[a])
    <3>1. own' = own
      BY <1>2 DEF PutOwnVector
    <3>2. ownVec'[a] = IF a = b THEN Put(ownVec[a], v) ELSE ownVec[a]
      BY <1>0, <2>1
    <3> HIDE DEF v
    <3> QED BY <1>0, <2>1, <3>1, <3>2, OwnedPut
  <2>2. ASSUME UNCHANGED ownVec, NEW a \in Robots
        PROVE  Owned(a, own'[a], ownVec'[a])
    BY <1>0, <1>2, <2>2 DEF PutOwnVector
  <2>3. \/ UNCHANGED ownVec
        \/ \E b \in Robots : v.id \in Ids(own[b]) /\ ownVec' = [ownVec EXCEPT ![b] = Put(@, v)]
    BY <1>2 DEF PutOwnVector
  <2> HIDE DEF v
  <2> QED BY <2>1, <2>2, <2>3 DEF OwnIsOwn, Owned, Ids
<1>3. ASSUME NEW p \in Procs, RebuildOwn(p) PROVE OwnIsOwn'
  <2>1. Owned(job[p].space, job[p].batch, job[p].vecs)
    BY <1>3 DEF RebuildOwn, IInv, JobFits, Fits, Owned
  <2>2. ASSUME NEW a \in Robots PROVE Owned(a, own'[a], ownVec'[a])
    <3>1. CASE a = job[p].space
      <4>1. own'[a] = job[p].batch /\ ownVec'[a] = job[p].vecs
        BY <1>0, <1>3, <3>1 DEF RebuildOwn
      <4> QED BY <2>1, <3>1, <4>1
    <3>2. CASE a # job[p].space
      <4>1. own'[a] = own[a] /\ ownVec'[a] = ownVec[a]
        BY <1>0, <1>3, <3>2 DEF RebuildOwn
      <4> QED BY <1>0, <4>1
    <3> QED BY <3>1, <3>2
  <2> QED BY <2>2 DEF OwnIsOwn, Owned, Ids
<1>4. CASE UNCHANGED <<own, ownVec>>
  BY <1>0, <1>4 DEF OwnIsOwn, Owned, Ids
<1>5. ASSUME NEW a \in Robots, EmptyFolder(a) PROVE OwnIsOwn'
  BY <1>0, <1>5 DEF EmptyFolder, OwnIsOwn, Owned, Ids
<1>6. ASSUME NEW p \in Procs, Ask(p) PROVE UNCHANGED <<own, ownVec>>
  BY <1>6 DEF Ask, AddDocument, AddText, ClearRows, Export, Reindex, FindRow, stores
<1>7. ASSUME NEW p \in Procs, Go(p)
      PROVE  \/ DeleteOwn(p) \/ InsertOwn(p) \/ PutOwnVector(p) \/ RebuildOwn(p)
             \/ UNCHANGED <<own, ownVec>>
  BY <1>7 DEF Go, CopyFile, InsertRow, DeleteRow, AppendLog, AppendCsv, ReadPage, WritePage,
     PutVector, LoadRows, LoadVectors, TruncateLogs, ReplayRow, SyncWant, SyncCompare,
     SyncGlobal, Booted, stores
<1>8. ASSUME NEW p \in Procs, Boot(p) \/ Fail(p) \/ Crash(p) PROVE UNCHANGED <<own, ownVec>>
  BY <1>8 DEF Boot, Fail, Crash, stores
<1>9. CASE Tick \/ UNCHANGED vars
  BY <1>4, <1>9 DEF Tick, stores, vars
<1> QED BY <1>1, <1>2, <1>3, <1>4, <1>5, <1>6, <1>7, <1>8, <1>9, <1>10 DEF Next

---------------------------------------------------------------------------
(* The theorems.                                                           *)

\* The archive starts with the invariant.
LEMMA InitIInv == Init => IInv
BY InitTyped DEF Init, IInv, JobFits, Fits, FileFirst, RowsHaveFiles, OwnIsOwn, Ids

\* Any number of processes keep the invariant, whatever is cut off.
LEMMA IInvHolds == Spec => []IInv
<1>1. IInv /\ [Next]_vars => IInv'
  BY NextTyped, FitsKept, FileFirstKept, RowsHaveFilesKept, OwnIsOwnKept DEF IInv
<1> QED BY <1>1, InitIInv, PTL DEF Spec

\* Every variable keeps its type; a file is never written under no name.
THEOREM ArchiveTypeOK == Spec => []TypeOK
BY IInvHolds, PTL DEF IInv

\* store.rs:6-7: no row names a file that is not on its shelf, and no two rows the
\* same file, however many processes write at once and wherever one is cut short.
THEOREM ArchiveRowsHaveFiles == Spec => []RowsHaveFiles
BY IInvHolds, PTL DEF IInv

\* A robot's own database never shows a row of somebody else's, nor a vector of a
\* row it does not have, whatever is cut short and whoever writes at once.
THEOREM ArchiveOwnIsOwn == Spec => []OwnIsOwn
BY IInvHolds, PTL DEF IInv
---------------------------------------------------------------------------
(* One process.                                                            *)
(*                                                                         *)
(* What follows is true of one process on the space only: an operation uses *)
(* at one write what it read or wrote some writes before, and another one's *)
(* writes in between would make that stale.  The hypothesis that NoPage is  *)
(* no set of rows says that a folder without an agent.md can be told from   *)
(* one with an empty page.                                                  *)

\* A rowid names one row, and a vector is some row's: the primary key and the
\* cascade.
IdsUnique    == \A r, q \in rows : r.id = q.id => r = q
VecsHaveRows == Ids(vec) \subseteq Ids(rows)

\* What an operation carries is still so when it is used, as nobody else writes:
\* the name it chose is free, the file under it is its own, the row it is to delete
\* is there, and so are those it has a vector to put in for, in its space.
Carries(p) ==
  LET j == job[p] IN
  /\ pc[p] = "copy" => ~OnShelf(j.row.space, j.row.name)
  /\ pc[p] = "insert" =>
       \A f \in shelf : f.space = j.row.space /\ f.name = j.row.name => f.born = j.row.born
  /\ pc[p] = "delete" => j.row \in In(j.space)
  /\ pc[p] \in {"own", "owninsert", "log", "csv", "read", "write"} /\ j.op = "add" =>
       j.row \in In(j.space)
  /\ pc[p] \in {"vec", "ownvec"} => j.batch \subseteq In(j.space)
  /\ pc[p] = "ownvec" => j.row \in In(j.space)

\* A boot does nothing but exports, and an export is no other operation.
Booting(p) ==
  LET j == job[p] IN
  /\ pc[p] \in {"sync", "compare"} => j.boot
  /\ j.boot => pc[p] \in {"sync", "compare", "load", "loadvecs", "rebuild", "truncate",
                          "replay", "read", "write"}
  /\ j.boot \/ pc[p] \in {"load", "loadvecs", "rebuild", "truncate", "replay"} => j.op = "export"
  /\ pc[p] \in {"own", "owninsert", "log", "csv"} => j.op # "export"

\* The folder's two halves: its own database, and what is read in it.
OwnInStep(s)   == s \in Robots => own[s] = In(s) /\ ownVec[s] = VectorsOf(In(s))
ShownInStep(s) == /\ log[s] = In(s)
                  /\ page[s] # NoPage => page[s] = In(s)
                  /\ page[s] = NoPage => In(s) = {}

\* How far the folder an operation is about has come, at each of its writes: the
\* operation's own share is what is missing.  An export owes this to every folder,
\* the others to one that was in step before.
Caught(p) ==
  LET j == job[p]
      s == j.space
  IN
  /\ pc[p] = "own" /\ s \notin hurt =>
       Applied(j, own[s]) = In(s) /\ Less(ownVec[s], Takes(j, own[s])) = VectorsOf(In(s))
  /\ pc[p] = "owninsert" /\ s \notin hurt =>
       own[s] \union {j.row} = In(s) /\ ownVec[s] = VectorsOf(In(s))
  /\ pc[p] \in {"own", "owninsert", "log"} /\ s \notin hurt => Applied(j, log[s]) = In(s)
  /\ pc[p] = "log" /\ s \notin hurt => OwnInStep(s)
  /\ pc[p] \in {"compare", "loadvecs", "rebuild", "truncate", "write"} => j.batch = In(s)
  /\ pc[p] = "rebuild" => j.vecs = VectorsOf(In(s))
  /\ pc[p] \in {"truncate", "replay"} => OwnInStep(s)
  /\ pc[p] = "replay" => j.batch # {} /\ j.batch \subseteq In(s) /\ log[s] = In(s) \ j.batch
  /\ pc[p] \in {"csv", "read", "write"} /\ (s \notin hurt \/ j.op = "export") =>
       OwnInStep(s) /\ log[s] = In(s)
  /\ pc[p] = "ownvec" /\ s \in Robots \ hurt =>
       /\ ShownInStep(s) /\ own[s] = In(s)
       /\ Put(ownVec[s], [id |-> j.row.id, born |-> j.row.born]) = VectorsOf(In(s))

\* Every other folder that was not cut short is in step.
OthersInStep ==
  \A s \in Spaces \ hurt :
    (\A p \in Procs : HalfDone(p) => job[p].space # s) => InStep(s)

\* A boot has repaired the robots it has done with.
Repaired(p) ==
  LET j == job[p] IN
  j.boot => \A a \in Robots \ j.left :
              (pc[p] \in {"compare", "load", "loadvecs", "rebuild"} => a # j.space) =>
                Keys(own[a]) = Keys(In(a))

\* The inductive invariant for one process.
Sole ==
  /\ IdsUnique /\ VecsHaveRows /\ RowsKeepTheirBytes /\ VectorsFitRows /\ OthersInStep
  /\ \A p \in Procs : Carries(p) /\ Booting(p) /\ Caught(p) /\ Repaired(p)

SInv == IInv /\ Sole

\* What Sole says when the process is called me.
LEMMA SoleOf ==
  ASSUME NEW me, Procs = {me}, SInv
  PROVE  /\ TypeOK /\ job[me] \in Job /\ pc[me] \in PCs /\ Fits(me) /\ RowsHaveFiles
         /\ IdsUnique /\ VecsHaveRows /\ RowsKeepTheirBytes /\ VectorsFitRows
         /\ Carries(me) /\ Booting(me) /\ Caught(me) /\ Repaired(me)
         /\ \A s \in Spaces \ hurt : (HalfDone(me) => job[me].space # s) => InStep(s)
BY DEF SInv, IInv, Sole, OthersInStep, TypeOK, JobFits

\* And what it takes to say it.
LEMMA ToSole ==
  ASSUME NEW me, Procs = {me},
         IdsUnique', VecsHaveRows', RowsKeepTheirBytes', VectorsFitRows',
         Carries(me)', Booting(me)', Caught(me)', Repaired(me)',
         \A s \in Spaces \ hurt' : (HalfDone(me)' => job'[me].space # s) => InStep(s)'
  PROVE  Sole'
BY DEF Sole, OthersInStep

\* A step that leaves the tables alone leaves what is read in them alone.
LEMMA SameRows ==
  ASSUME UNCHANGED <<rows, vec>>
  PROVE  /\ \A s : In(s)' = In(s)
         /\ \A s : VectorsOf(In(s))' = VectorsOf(In(s))
         /\ IdsUnique => IdsUnique'
         /\ VecsHaveRows => VecsHaveRows'
         /\ VectorsFitRows => VectorsFitRows'
<1>1. \A s : In(s)' = In(s)
  BY DEF In
<1>2. \A s : VectorsOf(In(s))' = VectorsOf(In(s))
  BY <1>1 DEF VectorsOf, Ids
<1> QED BY <1>1, <1>2 DEF IdsUnique, VecsHaveRows, VectorsFitRows, Ids

\* The same of a step that writes nothing.
LEMMA SameStores ==
  ASSUME UNCHANGED stores
  PROVE  /\ UNCHANGED <<rows, vec>>
         /\ \A s : InStep(s)' <=> InStep(s)
         /\ \A s : OwnInStep(s)' <=> OwnInStep(s)
         /\ \A s : ShownInStep(s)' <=> ShownInStep(s)
         /\ \A s, n : OnShelf(s, n)' <=> OnShelf(s, n)
         /\ RowsKeepTheirBytes => RowsKeepTheirBytes'
<1>1. UNCHANGED <<rows, vec, own, ownVec, log, page, shelf>>
  BY DEF stores
<1>2. (\A s : In(s)' = In(s)) /\ \A s : VectorsOf(In(s))' = VectorsOf(In(s))
  BY <1>1, SameRows
<1> QED BY <1>1, <1>2 DEF InStep, OwnInStep, ShownInStep, OnShelf, RowsKeepTheirBytes

---------------------------------------------------------------------------
(* The steps that only read.                                               *)

\* An operation begins: every folder is in step, and there is no boot.
LEMMA AskKeeps ==
  ASSUME NEW me, Procs = {me}, SInv, NEW s \in Spaces,
         \/ AddDocument(me, s) \/ AddText(me, s, "note") \/ AddText(me, s, "message")
         \/ Export(me, s) \/ Reindex(me, s) \/ FindRow(me)
  PROVE  Sole'
<1> USE SoleOf
<1>0. /\ UNCHANGED stores /\ hurt' = hurt /\ pc[me] = "idle"
      /\ pc'[me] \in {"copy", "insert", "load", "vec", "delete"}
  BY DEF AddDocument, AddText, Export, Reindex, FindRow, TypeOK, Goto
<1>1. job'[me].boot = FALSE
  <2>1. job'[me].boot = job[me].boot
    BY DEF AddDocument, AddText, Export, Reindex, FindRow, Job, TypeOK
  <2> QED BY <1>0, <2>1 DEF Booting, Job
<1>2. Carries(me)'
  <2>1. CASE AddDocument(me, s)
    <3>1. PICK n \in Names :
            /\ FreeName(s, n)
            /\ job' = [job EXCEPT ![me] =
                 [@ EXCEPT !.op = "add", !.space = s,
                  !.row = [id |-> born + 1, born |-> born + 1, space |-> s,
                           kind |-> "document", name |-> n, at |-> clock]]]
      BY <2>1 DEF AddDocument
    <3>2. job'[me].row.space = s /\ job'[me].row.name = n /\ pc'[me] = "copy"
      BY <2>1, <3>1 DEF Job, TypeOK, AddDocument, Goto
    <3>3. ~OnShelf(s, n)'
      BY <1>0, <3>1, SameStores DEF FreeName
    <3> QED BY <3>2, <3>3 DEF Carries, OnShelf
  <2>2. ASSUME NEW k \in Kinds, AddText(me, s, k) PROVE Carries(me)'
    <3>1. job'[me].row.name = NoName /\ pc'[me] = "insert"
      BY <2>2 DEF Job, TypeOK, AddText, Goto
    <3>2. \A f \in shelf' : f.name # NoName
      BY <1>0 DEF stores, TypeOK, File, Names, NoName
    <3> QED BY <3>1, <3>2 DEF Carries
  <2>3. CASE Export(me, s)
    BY <2>3 DEF Carries, Export, Goto, TypeOK
  <2>4. CASE Reindex(me, s)
    <3>1. job'[me].batch = Unembedded(s) /\ job'[me].space = s /\ pc'[me] = "vec"
      BY <2>4 DEF Job, TypeOK, Reindex, Goto
    <3>2. Unembedded(s) \subseteq In(s)'
      BY <1>0, SameStores, SameRows DEF Unembedded
    <3> QED BY <3>1, <3>2 DEF Carries
  <2>5. CASE FindRow(me)
    <3>1. PICK r \in rows :
            job' = [job EXCEPT ![me] = [@ EXCEPT !.op = "delete", !.space = r.space, !.row = r]]
      BY <2>5 DEF FindRow
    <3>2. job'[me].row = r /\ job'[me].space = r.space /\ pc'[me] = "delete"
      BY <2>5, <3>1 DEF Job, TypeOK, FindRow, Goto
    <3>3. r \in In(r.space)'
      BY <1>0 DEF In, stores
    <3> QED BY <3>2, <3>3 DEF Carries
  <2> QED BY <2>1, <2>2, <2>3, <2>4, <2>5 DEF Kinds
<1>3. Booting(me)'
  <2>1. pc'[me] = "load" => job'[me].op = "export"
    BY DEF AddDocument, AddText, Export, Reindex, FindRow, Goto, Job, TypeOK
  <2> QED BY <1>0, <1>1, <2>1 DEF Booting
<1>4. Caught(me)' /\ Repaired(me)' /\ ~HalfDone(me)' /\ ~HalfDone(me)
  BY <1>0, <1>1 DEF Caught, Repaired, HalfDone
<1>5. \A t \in Spaces \ hurt' : InStep(t)'
  BY <1>0, <1>4, SameStores
<1> HIDE SoleOf
<1> QED BY <1>0, <1>2, <1>3, <1>4, <1>5, SoleOf, SameStores, SameRows, ToSole

\* The steps of a boot between its exports.
LEMMA BootKeeps ==
  ASSUME NEW me, Procs = {me}, SInv,
         Boot(me) \/ SyncWant(me) \/ SyncGlobal(me) \/ Booted(me)
  PROVE  Sole'
<1> USE SoleOf
<1>0. /\ UNCHANGED stores /\ hurt' = hurt /\ pc[me] \in {"down", "sync"}
      /\ pc'[me] \in {"sync", "compare", "load", "idle"}
  BY DEF Boot, SyncWant, SyncGlobal, Booted, TypeOK, Goto
<1>1. ~HalfDone(me) /\ ~HalfDone(me)'
  BY <1>0 DEF HalfDone
<1>2. \A t \in Spaces \ hurt' : InStep(t)'
  BY <1>0, <1>1, SameStores
<1>3. Carries(me)'
  BY <1>0 DEF Carries
<1>4. Booting(me)' /\ Caught(me)' /\ Repaired(me)'
  <2>0. \A s : In(s)' = In(s) /\ own'[s] = own[s]
    BY <1>0, SameStores, SameRows DEF stores
  <2>1. CASE Boot(me)
    <3>1. pc'[me] = "sync" /\ job'[me].op = "export" /\ job'[me].left = Robots /\ job'[me].boot
      BY <2>1 DEF Boot, Goto, TypeOK, Job
    <3> QED BY <3>1 DEF Booting, Caught, Repaired
  <2>2. CASE SyncWant(me)
    <3>1. PICK a \in job[me].left : job' = [job EXCEPT ![me] =
            [@ EXCEPT !.space = a, !.batch = In(a), !.left = job[me].left \ {a}]]
      BY <2>2 DEF SyncWant
    <3>2. /\ job'[me].space = a /\ job'[me].batch = In(a) /\ job'[me].left = job[me].left \ {a}
          /\ job'[me].op = job[me].op /\ job'[me].boot = job[me].boot
          /\ pc[me] = "sync" /\ pc'[me] = "compare"
      BY <2>2, <3>1 DEF SyncWant, Goto, TypeOK, Job
    <3>3. Booting(me)' /\ Caught(me)'
      BY <2>0, <3>2 DEF Booting, Caught
    <3>4. \A b \in Robots \ job[me].left : Keys(own[b]) = Keys(In(b))
      BY <3>2 DEF Booting, Repaired
    <3>5. \A b \in Robots \ job'[me].left : b = a \/ b \in Robots \ job[me].left
      BY <3>2
    <3>6. Repaired(me)'
      BY <2>0, <3>2, <3>4, <3>5 DEF Repaired, Keys
    <3> QED BY <3>3, <3>6
  <2>3. CASE SyncGlobal(me)
    <3>1. /\ job'[me].space = Global /\ job'[me].left = job[me].left
          /\ job'[me].op = job[me].op /\ job'[me].boot = job[me].boot
          /\ pc[me] = "sync" /\ pc'[me] = "load"
      BY <2>3 DEF SyncGlobal, Goto, TypeOK, Job
    <3> QED BY <2>0, <3>1 DEF Booting, Caught, Repaired, Keys
  <2>4. CASE Booted(me)
    <3>1. job'[me] = NoJob /\ pc'[me] = "idle"
      BY <2>4 DEF Booted, Goto, TypeOK
    <3> QED BY <3>1 DEF NoJob, Booting, Caught, Repaired
  <2> QED BY <2>1, <2>2, <2>3, <2>4
<1> HIDE SoleOf
<1> QED BY <1>0, <1>1, <1>2, <1>3, <1>4, SoleOf, SameStores, SameRows, ToSole

\* An operation returns, its folder in step and, in a boot, repaired.
LEMMA DoneSole ==
  ASSUME NEW me, Procs = {me}, SInv, Done(me),
         job[me].boot => \A a \in Robots \ job[me].left : Keys(own'[a]) = Keys(In(a)')
  PROVE  /\ ~HalfDone(me)' /\ Carries(me)' /\ Booting(me)' /\ Caught(me)' /\ Repaired(me)'
<1>1. job[me] \in Job
  BY SoleOf
<1>2. /\ pc'[me] = IF job[me].boot THEN "sync" ELSE "idle"
      /\ job'[me].boot = job[me].boot /\ job'[me].left = job[me].left
      /\ job'[me].op = "export"
  BY <1>1, SoleOf DEF Done, Goto, TypeOK, NoJob, Job
<1>3. job[me].boot \in BOOLEAN
  BY <1>1 DEF Job
<1>4. Repaired(me)'
  BY <1>2 DEF Repaired, Keys, In
<1> QED BY <1>2, <1>3, <1>4 DEF HalfDone, Carries, Booting, Caught

\* sync's comparison: a folder that differs is exported, another one is repaired.
LEMMA CompareKeeps ==
  ASSUME NEW me, Procs = {me}, SInv, SyncCompare(me)
  PROVE  Sole'
<1> USE SoleOf
<1>0. UNCHANGED stores /\ hurt' = hurt /\ pc[me] = "compare"
  BY DEF SyncCompare
<1>1. (\A s : In(s)' = In(s)) /\ own' = own
  BY <1>0, SameStores, SameRows DEF stores
<1>2. /\ job[me].boot /\ job[me].op = "export" /\ job[me].batch = In(job[me].space)
      /\ \A a \in Robots \ job[me].left : a # job[me].space => Keys(own[a]) = Keys(In(a))
  BY <1>0 DEF Booting, Caught, Repaired
<1>3. ~HalfDone(me)' /\ Carries(me)' /\ Booting(me)' /\ Caught(me)' /\ Repaired(me)'
  <2>1. CASE Differs(job[me].space, job[me].batch)
    <3>1. pc'[me] = "load" /\ job' = job
      BY <2>1 DEF SyncCompare, Goto, TypeOK
    <3> QED BY <1>1, <1>2, <3>1 DEF HalfDone, Carries, Booting, Caught, Repaired, Keys
  <2>2. CASE ~Differs(job[me].space, job[me].batch)
    <3>1. Done(me)
      BY <2>2 DEF SyncCompare
    <3>2. Keys(own[job[me].space]) = Keys(In(job[me].space))
      BY <1>2, <2>2 DEF Differs
    <3>3. \A a \in Robots \ job[me].left : Keys(own'[a]) = Keys(In(a)')
      BY <1>1, <1>2, <3>2
    <3> HIDE SoleOf
    <3> QED BY <3>1, <3>3, DoneSole
  <2> QED BY <2>1, <2>2
<1>4. \A t \in Spaces \ hurt' : InStep(t)'
  BY <1>0, SameStores DEF HalfDone
<1> HIDE SoleOf
<1> QED BY <1>0, <1>3, <1>4, SoleOf, SameStores, SameRows, ToSole

\* An export reads what it will write; write_markdown what it will show.
LEMMA LoadKeeps ==
  ASSUME NEW me, Procs = {me}, SInv, LoadRows(me) \/ LoadVectors(me) \/ ReadPage(me)
  PROVE  Sole'
<1> USE SoleOf
<1> DEFINE s == job[me].space
<1>0. UNCHANGED stores /\ hurt' = hurt
  BY DEF LoadRows, LoadVectors, ReadPage
<1>1. /\ job'[me].space = s /\ job'[me].op = job[me].op /\ job'[me].row = job[me].row
      /\ job'[me].left = job[me].left /\ job'[me].boot = job[me].boot
      /\ job'[me].batch = In(s)
  <2>1. CASE LoadRows(me)
    <3>1. job' = [job EXCEPT ![me] = [@ EXCEPT !.batch = In(s)]]
      BY <2>1 DEF LoadRows
    <3> QED BY <3>1 DEF TypeOK, Job
  <2>3. CASE LoadVectors(me)
    <3>1. job' = [job EXCEPT ![me] = [@ EXCEPT !.vecs = VectorsOf(In(s))]]
      BY <2>3 DEF LoadVectors
    <3>2. job[me].batch = In(s)
      BY <2>3 DEF LoadVectors, Caught
    <3> QED BY <3>1, <3>2 DEF TypeOK, Job
  <2>2. CASE ReadPage(me)
    <3>1. job' = [job EXCEPT ![me] = [@ EXCEPT !.batch = In(s)]]
      BY <2>2 DEF ReadPage
    <3> QED BY <3>1 DEF TypeOK, Job
  <2> QED BY <2>1, <2>2, <2>3
<1>2. /\ \A t : In(t)' = In(t)
      /\ \A t : VectorsOf(In(t))' = VectorsOf(In(t))
      /\ \A t : OwnInStep(t)' <=> OwnInStep(t)
      /\ own' = own /\ log' = log
  BY <1>0, SameStores, SameRows DEF stores
<1>5. CASE LoadVectors(me)
  <2>1. /\ pc[me] = "loadvecs" /\ pc'[me] = "rebuild"
        /\ job'[me].vecs = VectorsOf(In(s)) /\ job[me].op = "export"
    BY <1>5 DEF LoadVectors, Goto, TypeOK, Job, Booting
  <2>2. Carries(me)' /\ Booting(me)'
    BY <1>1, <2>1 DEF Carries, Booting
  <2>3. Caught(me)'
    BY <1>1, <1>2, <2>1 DEF Caught
  <2>4. Repaired(me)'
    BY <1>1, <1>2, <2>1 DEF Repaired, Keys
  <2>5. \A t \in Spaces \ hurt' : InStep(t)'
    BY <1>0, <2>1, SameStores DEF HalfDone
  <2> HIDE SoleOf
  <2> QED BY <1>0, <2>2, <2>3, <2>4, <2>5, SoleOf, SameStores, SameRows, ToSole
<1>3. CASE LoadRows(me)
  <2>1. /\ pc[me] = "load" /\ pc'[me] = IF s \in Robots THEN "loadvecs" ELSE "truncate"
        /\ job[me].op = "export"
    BY <1>3 DEF LoadRows, Goto, TypeOK, Job, Booting
  <2>2. Carries(me)' /\ Booting(me)'
    BY <1>1, <2>1 DEF Carries, Booting
  <2>3. Caught(me)'
    BY <1>1, <1>2, <2>1 DEF Caught, OwnInStep
  <2>4. Repaired(me)'
    BY <1>1, <1>2, <2>1 DEF Repaired, Keys
  <2>5. \A t \in Spaces \ hurt' : InStep(t)'
    BY <1>0, <2>1, SameStores DEF HalfDone
  <2> HIDE SoleOf
  <2> QED BY <1>0, <2>2, <2>3, <2>4, <2>5, SoleOf, SameStores, SameRows, ToSole
<1>4. CASE ReadPage(me)
  <2>1. pc[me] = "read" /\ pc'[me] = "write"
    BY <1>4 DEF ReadPage, Goto, TypeOK
  <2>2. Carries(me)' /\ Booting(me)'
    BY <1>1, <1>2, <2>1 DEF Carries, Booting
  <2>3. Caught(me)'
    BY <1>0, <1>1, <1>2, <2>1 DEF Caught
  <2>4. Repaired(me)'
    BY <1>1, <1>2, <2>1 DEF Repaired, Keys
  <2>5. \A t \in Spaces \ hurt' : (HalfDone(me)' => job'[me].space # t) => InStep(t)'
    BY <1>0, <1>1, <2>1, SameStores DEF HalfDone
  <2> HIDE SoleOf
  <2> QED BY <1>0, <2>2, <2>3, <2>4, <2>5, SoleOf, SameStores, SameRows, ToSole
<1> QED BY <1>3, <1>4, <1>5

\* Cut short, an operation answers for its folder by marking it.
LEMMA CutKeeps ==
  ASSUME NEW me, Procs = {me}, SInv, Fail(me) \/ Crash(me)
  PROVE  Sole'
<1> USE SoleOf
<1>0. UNCHANGED stores /\ pc'[me] \in {"down", "idle"} /\ job'[me] = NoJob /\ Cut(me)
  BY DEF Fail, Crash, Goto, TypeOK
<1>1. ~HalfDone(me)' /\ Carries(me)' /\ Booting(me)' /\ Caught(me)' /\ Repaired(me)'
  BY <1>0 DEF HalfDone, Carries, Booting, Caught, Repaired, NoJob
<1>2. \A t \in Spaces \ hurt' : t \notin hurt /\ (HalfDone(me) => job[me].space # t)
  BY <1>0 DEF Cut
<1>3. \A t \in Spaces \ hurt' : InStep(t)'
  BY <1>0, <1>2, SameStores
<1> HIDE SoleOf
<1> QED BY <1>0, <1>1, <1>3, SoleOf, SameStores, SameRows, ToSole

\* The rest of the world: a folder emptied, the clock, nothing.
LEMMA WorldKeeps ==
  ASSUME NEW me, Procs = {me}, SInv,
         (\E a \in Robots : EmptyFolder(a)) \/ Tick \/ UNCHANGED vars
  PROVE  Sole'
<1> USE SoleOf
<1>1. CASE Tick \/ UNCHANGED vars
  <2>1. UNCHANGED <<stores, pc, job, hurt>>
    BY <1>1 DEF Tick, vars, stores
  <2>2. /\ \A t : In(t)' = In(t)
        /\ \A t : VectorsOf(In(t))' = VectorsOf(In(t))
    BY <2>1, SameStores, SameRows
  <2>3. UNCHANGED <<rows, vec, own, ownVec, log, page, shelf>>
    BY <2>1 DEF stores
  <2>4. Carries(me)' /\ Booting(me)' /\ Caught(me)' /\ Repaired(me)' /\ HalfDone(me)' = HalfDone(me)
    <3>1. Carries(me)' /\ Booting(me)'
      BY <2>1, <2>2, <2>3 DEF Carries, Booting, OnShelf
    <3>2. Caught(me)'
      <4> DEFINE j == job[me]
      <4>1. /\ \A t : OwnInStep(t)' <=> OwnInStep(t)
            /\ \A t : ShownInStep(t)' <=> ShownInStep(t)
        BY <2>1, SameStores
      <4>2. /\ \A t : own'[t] = own[t] /\ ownVec'[t] = ownVec[t] /\ log'[t] = log[t]
            /\ pc' = pc /\ hurt' = hurt /\ job'[me] = j
        BY <2>1, <2>3
      <4>3. /\ Applied(j, own[j.space])' = Applied(j, own[j.space])
            /\ (own[j.space] \union {j.row})' = own[j.space] \union {j.row}
            /\ Applied(j, log[j.space])' = Applied(j, log[j.space])
            /\ Less(ownVec[j.space], Takes(j, own[j.space]))' = Less(ownVec[j.space], Takes(j, own[j.space]))
            /\ Put(ownVec[j.space], [id |-> j.row.id, born |-> j.row.born])'
                 = Put(ownVec[j.space], [id |-> j.row.id, born |-> j.row.born])
        BY <2>1, <2>3 DEF Applied, Takes, Less, Put, Ids, Messages
      <4> QED BY <2>2, <4>1, <4>2, <4>3 DEF Caught
    <3>3. Repaired(me)' /\ HalfDone(me)' = HalfDone(me)
      BY <2>1, <2>2, <2>3 DEF Repaired, Keys, HalfDone
    <3> QED BY <3>1, <3>2, <3>3
  <2>5. \A t \in Spaces \ hurt' : (HalfDone(me)' => job'[me].space # t) => InStep(t)'
    BY <2>1, <2>4, SameStores
  <2> HIDE SoleOf
  <2> QED BY <2>1, <2>4, <2>5, SoleOf, SameStores, SameRows, ToSole
<1>2. ASSUME NEW a \in Robots, EmptyFolder(a) PROVE Sole'
  <2>1. /\ UNCHANGED <<rows, vec, shelf, pc, job>> /\ pc[me] = "down" /\ hurt' = hurt \union {a}
        /\ \A t \in Spaces \ {a} : log'[t] = log[t] /\ page'[t] = page[t]
        /\ \A t \in Robots \ {a} : own'[t] = own[t] /\ ownVec'[t] = ownVec[t]
    BY <1>2 DEF EmptyFolder, TypeOK
  <2>2. /\ \A t : In(t)' = In(t)
        /\ \A t : VectorsOf(In(t))' = VectorsOf(In(t))
    BY <2>1, SameRows
  <2>3. Carries(me)' /\ Booting(me)' /\ Caught(me)' /\ Repaired(me)' /\ ~HalfDone(me)
    BY <2>1 DEF Carries, Booting, Caught, Repaired, HalfDone
  <2>4. \A t \in Spaces \ hurt' : InStep(t)'
    BY <2>1, <2>2, <2>3 DEF InStep
  <2>5. RowsKeepTheirBytes'
    BY <2>1 DEF RowsKeepTheirBytes
  <2> HIDE SoleOf
  <2> QED BY <2>1, <2>3, <2>4, <2>5, SoleOf, SameRows, ToSole
<1> QED BY <1>1, <1>2

---------------------------------------------------------------------------
(* The steps that write.                                                   *)

\* The file goes where there was none, so no row's bytes change.
LEMMA CopyKeeps ==
  ASSUME NEW me, Procs = {me}, SInv, CopyFile(me)
  PROVE  Sole'
<1> USE SoleOf
<1> DEFINE r == job[me].row
           f0 == [space |-> r.space, name |-> r.name, born |-> r.born]
<1>0. /\ UNCHANGED <<rows, vec, own, ownVec, log, page, job, hurt>>
      /\ pc[me] = "copy" /\ pc'[me] = "insert"
      /\ shelf' = {f \in shelf : f.space # r.space \/ f.name # r.name} \union {f0}
  BY DEF CopyFile, Goto, TypeOK
<1>1. f0.space = r.space /\ f0.name = r.name /\ f0.born = r.born
  OBVIOUS
<1>2. /\ r.name # NoName /\ ~OnShelf(r.space, r.name) /\ ~job[me].boot
  BY <1>0 DEF Fits, Carries, Booting
<1> HIDE DEF f0
<1>3. Carries(me)' /\ Booting(me)' /\ Caught(me)' /\ Repaired(me)'
  <2>1. Carries(me)'
    BY <1>0, <1>1 DEF Carries
  <2>2. Booting(me)' /\ Caught(me)' /\ Repaired(me)'
    BY <1>0, <1>2 DEF Booting, Caught, Repaired
  <2> QED BY <2>1, <2>2
<1>4. RowsKeepTheirBytes'
  <2>1. \A q \in rows : ~(q.space = r.space /\ q.name = r.name)
    BY <1>2 DEF RowsHaveFiles
  <2> QED BY <1>0, <1>1, <2>1 DEF RowsKeepTheirBytes
<1>5. \A t \in Spaces \ hurt' : InStep(t)'
  <2>1. (\A t : In(t)' = In(t)) /\ \A t : VectorsOf(In(t))' = VectorsOf(In(t))
    BY <1>0, SameRows
  <2>2. \A t \in Spaces \ hurt : InStep(t)
    BY <1>0 DEF HalfDone
  <2> QED BY <1>0, <2>1, <2>2 DEF InStep
<1> HIDE SoleOf
<1> QED BY <1>0, <1>3, <1>4, <1>5, SoleOf, SameRows, ToSole

\* A new row has an id above every other and no vector yet; it is what its folder
\* lacks from here on.
LEMMA InsertKeeps ==
  ASSUME NEW me, Procs = {me}, SInv, InsertRow(me)
  PROVE  Sole'
<1> USE SoleOf
<1>1. PICK i \in Borns :
        LET r == [job[me].row EXCEPT !.id = i, !.at = clock] IN
          /\ NextRowid(i)
          /\ ~PathTaken(In(r.space), r)
          /\ rows' = rows \union {r}
          /\ job' = [job EXCEPT ![me] = [@ EXCEPT !.row = r]]
  BY DEF InsertRow
<1> DEFINE r == [job[me].row EXCEPT !.id = i, !.at = clock]
<1> PICK s \in Spaces : s = job[me].space
  BY DEF Job
<1>2. /\ r \in Row /\ r.id = i /\ r.space = job[me].row.space /\ r.name = job[me].row.name
      /\ r.born = job[me].row.born
  BY DEF TypeOK, Job, Row
<1>3. /\ rows' = rows \union {r} /\ NextRowid(i)
      /\ job'[me].row = r /\ job'[me].space = s /\ job'[me].op = job[me].op
      /\ job'[me].boot = job[me].boot /\ pc[me] = "insert" /\ pc'[me] = OwnOrLog(s)
      /\ UNCHANGED <<vec, own, ownVec, log, page, shelf, hurt>>
  BY <1>1 DEF InsertRow, Goto, TypeOK, Job
<1> HIDE DEF r
<1>4. job[me].op = "add" /\ r.space = s /\ ~job[me].boot
  BY <1>2, <1>3 DEF Fits, Booting
<1>5. \A q \in rows : q.id \in Nat /\ q.id < i /\ q.id # i
  BY <1>3 DEF NextRowid, TypeOK, Row, Borns
<1>6. \A v \in vec : v.id # i
  BY <1>5 DEF VecsHaveRows, Ids
<1>7. IdsUnique' /\ VecsHaveRows' /\ VectorsFitRows'
  BY <1>2, <1>3, <1>5, <1>6 DEF IdsUnique, VecsHaveRows, VectorsFitRows, Ids
<1>8. RowsKeepTheirBytes'
  BY <1>2, <1>3 DEF Carries, RowsKeepTheirBytes
<1>9. /\ In(s)' = In(s) \union {r}
      /\ \A t : t # s => In(t)' = In(t)
  BY <1>3, <1>4 DEF In
<1>10. \A t : VectorsOf(In(t))' = VectorsOf(In(t))
  <2>1. \A t : \A v \in vec : v.id \in Ids(In(t)') <=> v.id \in Ids(In(t))
    BY <1>2, <1>3, <1>6 DEF Ids, In
  <2> QED BY <1>3, <2>1 DEF VectorsOf
<1>11. \A t \in Spaces \ hurt : InStep(t)
  BY <1>3 DEF HalfDone
<1>12. s \in Spaces \ hurt =>
         /\ Applied(job'[me], own'[s]) = In(s)' \/ s \notin Robots
         /\ Less(ownVec'[s], Takes(job'[me], own'[s])) = VectorsOf(In(s))' \/ s \notin Robots
         /\ Applied(job'[me], log'[s]) = In(s)'
  <2> SUFFICES ASSUME s \in Spaces \ hurt
               PROVE  /\ Applied(job'[me], own'[s]) = In(s)' \/ s \notin Robots
                      /\ Less(ownVec'[s], Takes(job'[me], own'[s])) = VectorsOf(In(s))' \/ s \notin Robots
                      /\ Applied(job'[me], log'[s]) = In(s)'
    OBVIOUS
  <2>1. Less(In(s), {i}) \union {r} = In(s)'
    BY <1>5, <1>9 DEF Less, In
  <2>2. Less(VectorsOf(In(s)), {i}) = VectorsOf(In(s))'
    <3>1. VectorsOf(In(s))' = VectorsOf(In(s))
      BY <1>10
    <3>2. \A v \in VectorsOf(In(s)) : v.id # i
      BY <1>6 DEF VectorsOf
    <3> QED BY <3>1, <3>2 DEF Less
  <2>3. \A R : Takes(job'[me], R) = {i} /\ Applied(job'[me], R) = Less(R, {i}) \union {r}
    BY <1>2, <1>3, <1>4 DEF Takes, Applied
  <2>4. /\ log'[s] = In(s)
        /\ s \in Robots => own'[s] = In(s) /\ ownVec'[s] = VectorsOf(In(s))
    BY <1>3, <1>11 DEF InStep
  <2> QED BY <2>1, <2>2, <2>3, <2>4
<1>13. Carries(me)' /\ Booting(me)' /\ Caught(me)' /\ Repaired(me)'
  <2>1. \/ pc'[me] = "own" /\ s \in Robots
        \/ pc'[me] = "log" /\ s \notin Robots
    BY <1>3 DEF OwnOrLog
  <2>2. Carries(me)'
    BY <1>3, <1>9, <2>1 DEF Carries
  <2>3. Booting(me)' /\ Repaired(me)'
    BY <1>3, <1>4, <2>1 DEF Booting, Repaired
  <2>4. Caught(me)'
    <3>1. job[me].space \in Spaces
      BY DEF Job
    <3> QED BY <1>3, <1>12, <2>1, <3>1 DEF Caught, OwnInStep
  <2> QED BY <2>2, <2>3, <2>4
<1>14. \A t \in Spaces \ hurt' : (HalfDone(me)' => job'[me].space # t) => InStep(t)'
  <2>1. HalfDone(me)'
    BY <1>3 DEF HalfDone, OwnOrLog
  <2>2. ASSUME NEW t \in Spaces \ hurt, t # s PROVE InStep(t)'
    BY <1>3, <1>9, <1>10, <1>11, <2>2 DEF InStep
  <2> QED BY <1>3, <2>1, <2>2
<1> HIDE SoleOf
<1> QED BY <1>7, <1>8, <1>13, <1>14, ToSole

\* Rows of one space go with their vectors, and no other folder's are touched,
\* because an id is one row's.
LEMMA TakenOut ==
  ASSUME NEW s, NEW T, T \subseteq Ids(In(s)), IdsUnique,
         rows' = Less(rows, T), vec' = Less(vec, T)
  PROVE  /\ In(s)' = Less(In(s), T)
         /\ \A t : t # s => In(t)' = In(t)
         /\ VectorsOf(In(s))' = Less(VectorsOf(In(s)), T)
         /\ \A t : t # s => VectorsOf(In(t))' = VectorsOf(In(t))
         /\ IdsUnique'
         /\ VecsHaveRows => VecsHaveRows'
         /\ VectorsFitRows => VectorsFitRows'
<1>1. In(s)' = Less(In(s), T)
  BY DEF In, Less
<1>2. ASSUME NEW t, t # s PROVE In(t)' = In(t) /\ VectorsOf(In(t))' = VectorsOf(In(t))
  <2>1. \A r \in In(t) : r.id \notin T
    BY <1>2 DEF In, Ids, IdsUnique
  <2>2. In(t)' = In(t)
    BY <2>1 DEF In, Less
  <2>3. \A v \in vec : v.id \in Ids(In(t)) => v.id \notin T
    BY <2>1 DEF Ids
  <2>4. VectorsOf(In(t))' = {v \in vec' : v.id \in Ids(In(t))}
    BY <2>2 DEF VectorsOf, Ids
  <2> QED BY <2>2, <2>3, <2>4 DEF VectorsOf, Less
<1>3. VectorsOf(In(s))' = Less(VectorsOf(In(s)), T)
  <2>1. VectorsOf(In(s))' = {v \in vec' : v.id \in Ids(Less(In(s), T))}
    BY <1>1 DEF VectorsOf, Ids
  <2>2. \A v : v.id \in Ids(Less(In(s), T)) <=> v.id \in Ids(In(s)) /\ v.id \notin T
    BY DEF Less, Ids
  <2> QED BY <2>1, <2>2 DEF VectorsOf, Less
<1>4. IdsUnique' /\ (VecsHaveRows => VecsHaveRows') /\ (VectorsFitRows => VectorsFitRows')
  BY DEF IdsUnique, VecsHaveRows, VectorsFitRows, Less, Ids
<1> QED BY <1>1, <1>2, <1>3, <1>4

\* The rows are gone from robots.db; the same ids are what the folder is to lose.
LEMMA RemovalKeeps ==
  ASSUME NEW me, Procs = {me}, SInv, DeleteRow(me) \/ \E s \in Spaces : ClearRows(me, s)
  PROVE  Sole'
<1> USE SoleOf
<1>1. PICK s, T :
        /\ s \in Spaces /\ T \in SUBSET Ids(In(s))
        /\ rows' = Less(rows, T) /\ vec' = Less(vec, T)
        /\ job'[me].space = s /\ job'[me].op \in {"delete", "clear"}
        /\ job'[me].boot = job[me].boot /\ pc'[me] = OwnOrLog(s)
        /\ Takes(job'[me], In(s)) = T
  <2>1. ASSUME DeleteRow(me), NEW r, r = job[me].row, NEW t, t = job[me].space
        PROVE  /\ t \in Spaces /\ {r.id} \in SUBSET Ids(In(t))
               /\ rows' = Less(rows, {r.id}) /\ vec' = Less(vec, {r.id})
               /\ job'[me].space = t /\ job'[me].op \in {"delete", "clear"}
               /\ job'[me].boot = job[me].boot /\ pc'[me] = OwnOrLog(t)
               /\ Takes(job'[me], In(t)) = {r.id}
    <3>1. t \in Spaces /\ r \in In(t) /\ job[me].op = "delete"
      BY <2>1 DEF Job, DeleteRow, Carries, Fits
    <3>2. r.id \in Ids(rows) /\ r.id \in Ids(In(t))
      BY <3>1 DEF Ids, In
    <3>3. /\ rows' = Less(rows, {r.id}) /\ vec' = Less(vec, {r.id})
          /\ job' = job /\ pc'[me] = OwnOrLog(t)
      BY <2>1, <3>2 DEF DeleteRow, Cascade, Goto, TypeOK
    <3>4. Takes(job'[me], In(t)) = {r.id}
      BY <2>1, <3>1, <3>3 DEF Takes
    <3> QED BY <2>1, <3>1, <3>2, <3>3, <3>4
  <2>2. ASSUME NEW t \in Spaces, ClearRows(me, t)
        PROVE  /\ Ids(Messages(In(t))) \in SUBSET Ids(In(t))
               /\ rows' = Less(rows, Ids(Messages(In(t))))
               /\ vec' = Less(vec, Ids(Messages(In(t))))
               /\ job'[me].space = t /\ job'[me].op \in {"delete", "clear"}
               /\ job'[me].boot = job[me].boot /\ pc'[me] = OwnOrLog(t)
               /\ Takes(job'[me], In(t)) = Ids(Messages(In(t)))
    <3>1. /\ job'[me].space = t /\ job'[me].op = "clear"
          /\ job'[me].boot = job[me].boot /\ pc'[me] = OwnOrLog(t)
      BY <2>2 DEF ClearRows, TypeOK, Job, Goto
    <3>2. Ids(Messages(In(t))) \in SUBSET Ids(In(t))
      BY DEF Ids, Messages
    <3>3. Takes(job'[me], In(t)) = Ids(Messages(In(t)))
      BY <3>1 DEF Takes
    <3> QED BY <2>2, <3>1, <3>2, <3>3 DEF ClearRows, Cascade
  <2>3. CASE DeleteRow(me)
    BY <2>1, <2>3
  <2>4. ASSUME NEW t \in Spaces, ClearRows(me, t)
        PROVE  \E s, T :
                 /\ s \in Spaces /\ T \in SUBSET Ids(In(s))
                 /\ rows' = Less(rows, T) /\ vec' = Less(vec, T)
                 /\ job'[me].space = s /\ job'[me].op \in {"delete", "clear"}
                 /\ job'[me].boot = job[me].boot /\ pc'[me] = OwnOrLog(s)
                 /\ Takes(job'[me], In(s)) = T
    BY <2>2, <2>4
  <2> QED BY <2>3, <2>4
<1>2. /\ UNCHANGED <<own, ownVec, log, page, shelf, hurt>> /\ pc[me] \in {"idle", "delete"}
      /\ ~job[me].boot
  BY DEF DeleteRow, ClearRows, Booting
<1>3. /\ In(s)' = Less(In(s), T)
      /\ \A t : t # s => In(t)' = In(t)
      /\ VectorsOf(In(s))' = Less(VectorsOf(In(s)), T)
      /\ \A t : t # s => VectorsOf(In(t))' = VectorsOf(In(t))
      /\ IdsUnique' /\ VecsHaveRows' /\ VectorsFitRows'
  BY <1>1, TakenOut
<1>4. RowsKeepTheirBytes'
  BY <1>1, <1>2 DEF RowsKeepTheirBytes, Less
<1>5. \A t \in Spaces \ hurt : InStep(t)
  BY <1>2 DEF HalfDone
<1>6. Carries(me)' /\ Booting(me)' /\ Repaired(me)'
  BY <1>1, <1>2 DEF Carries, Booting, Repaired, OwnOrLog
<1>7. Caught(me)'
  <2>1. \A R : Applied(job'[me], R) = Less(R, Takes(job'[me], R))
    BY <1>1 DEF Applied
  <2>2. s \notin hurt => /\ log[s] = In(s)
                         /\ s \in Robots => own[s] = In(s) /\ ownVec[s] = VectorsOf(In(s))
    BY <1>1, <1>5 DEF InStep
  <2>3. \/ pc'[me] = "own" /\ s \in Robots
        \/ pc'[me] = "log" /\ s \notin Robots
    BY <1>1 DEF OwnOrLog
  <2>4. s \notin hurt => Applied(job'[me], log'[s]) = In(s)'
    BY <1>1, <1>2, <1>3, <2>1, <2>2
  <2>5. s \in Robots \ hurt => /\ Applied(job'[me], own'[s]) = In(s)'
                               /\ Less(ownVec'[s], Takes(job'[me], own'[s])) = VectorsOf(In(s))'
    BY <1>1, <1>2, <1>3, <2>1, <2>2
  <2> QED BY <1>1, <1>2, <2>3, <2>4, <2>5 DEF Caught, OwnInStep
<1>8. \A t \in Spaces \ hurt' : (HalfDone(me)' => job'[me].space # t) => InStep(t)'
  <2>1. HalfDone(me)'
    BY <1>1 DEF HalfDone, OwnOrLog
  <2>2. ASSUME NEW t \in Spaces \ hurt, t # s PROVE InStep(t)'
    BY <1>2, <1>3, <1>5, <2>2 DEF InStep
  <2> QED BY <1>1, <1>2, <2>1, <2>2
<1> HIDE SoleOf
<1> QED BY <1>3, <1>4, <1>6, <1>7, <1>8, ToSole

\* The own database, then the log, take the operation's share.
LEMMA FolderKeeps ==
  ASSUME NEW me, Procs = {me}, SInv,
         DeleteOwn(me) \/ InsertOwn(me) \/ AppendLog(me) \/ AppendCsv(me)
  PROVE  Sole'
<1> USE SoleOf
<1>0. PICK s \in Spaces : s = job[me].space
  BY DEF Job
<1>1. /\ UNCHANGED <<rows, vec, page, shelf, job, hurt>>
      /\ pc[me] \in {"own", "owninsert", "log", "csv"}
      /\ pc'[me] \in {"owninsert", "log", "csv", "read"}
  BY DEF DeleteOwn, InsertOwn, AppendLog, AppendCsv, Goto, TypeOK, stores
<1>2. /\ \A t : In(t)' = In(t)
      /\ \A t : VectorsOf(In(t))' = VectorsOf(In(t))
  BY <1>1, SameRows
<1>3. job[me].op # "export" /\ ~job[me].boot
  BY <1>1 DEF Booting
<1>4. Carries(me)' /\ Booting(me)' /\ Repaired(me)' /\ HalfDone(me) /\ HalfDone(me)'
  BY <1>1, <1>2, <1>3 DEF Carries, Booting, Repaired, HalfDone
<1>5. RowsKeepTheirBytes'
  BY <1>1 DEF RowsKeepTheirBytes
<1>6. CASE DeleteOwn(me) \/ InsertOwn(me)
  <2>1. /\ pc[me] \in {"own", "owninsert"} /\ pc'[me] \in {"owninsert", "log"} /\ log' = log
        /\ \A t \in Robots \ {s} : own'[t] = own[t] /\ ownVec'[t] = ownVec[t]
        /\ s \in Robots
    BY <1>0, <1>6 DEF DeleteOwn, InsertOwn, Goto, TypeOK, Fits
  <2>3. s \notin hurt => Applied(job[me], log[s]) = In(s)
    BY <1>0, <2>1 DEF Caught
  <2>4. s \notin hurt =>
          /\ pc'[me] = "log" => OwnInStep(s)'
          /\ pc'[me] = "owninsert" =>
               own'[s] \union {job[me].row} = In(s) /\ ownVec'[s] = VectorsOf(In(s))
    <3>1. CASE DeleteOwn(me)
      <4>1. s \notin hurt => /\ Applied(job[me], own[s]) = In(s)
                             /\ Less(ownVec[s], Takes(job[me], own[s])) = VectorsOf(In(s))
        BY <1>0, <3>1 DEF DeleteOwn, Caught
      <4>2. /\ own'[s] = Less(own[s], Takes(job[me], own[s]))
            /\ ownVec'[s] = Less(ownVec[s], Takes(job[me], own[s]))
            /\ pc'[me] = IF job[me].op = "add" THEN "owninsert" ELSE "log"
        BY <1>0, <2>1, <3>1 DEF DeleteOwn, Goto, TypeOK
      <4> QED BY <1>2, <4>1, <4>2 DEF OwnInStep, Applied
    <3>2. CASE InsertOwn(me)
      <4>1. s \notin hurt => /\ own[s] \union {job[me].row} = In(s)
                             /\ ownVec[s] = VectorsOf(In(s))
        BY <1>0, <3>2 DEF InsertOwn, Caught
      <4>2. own'[s] = own[s] \union {job[me].row} /\ ownVec' = ownVec /\ pc'[me] = "log"
        BY <1>0, <2>1, <3>2 DEF InsertOwn, Goto, TypeOK
      <4> QED BY <1>2, <4>1, <4>2 DEF OwnInStep
    <3> QED BY <1>6, <3>1, <3>2
  <2>5. Applied(job'[me], log'[s]) = Applied(job[me], log[s])
    BY <1>1, <2>1
  <2>6. Caught(me)'
    BY <1>0, <1>1, <1>2, <2>1, <2>3, <2>4, <2>5 DEF Caught
  <2>7. \A t \in Spaces \ hurt : s # t => InStep(t)'
    BY <1>0, <1>1, <1>2, <1>4, <2>1 DEF InStep
  <2> HIDE SoleOf
  <2> QED BY <1>0, <1>1, <1>4, <1>5, <2>6, <2>7, SoleOf, SameRows, ToSole
<1>7. CASE AppendLog(me)
  <2>1. /\ pc[me] = "log" /\ pc'[me] \in {"csv", "read"} /\ own' = own /\ ownVec' = ownVec
        /\ log'[s] = Applied(job[me], log[s])
        /\ \A t \in Spaces \ {s} : log'[t] = log[t]
    BY <1>0, <1>7 DEF AppendLog, Goto, TypeOK
  <2>2. s \notin hurt => OwnInStep(s)' /\ log'[s] = In(s)
    <3>1. s \notin hurt => OwnInStep(s) /\ Applied(job[me], log[s]) = In(s)
      BY <1>0, <2>1 DEF Caught
    <3> QED BY <1>2, <2>1, <3>1 DEF OwnInStep
  <2>3. Caught(me)'
    BY <1>0, <1>1, <1>2, <1>3, <2>1, <2>2 DEF Caught
  <2>4. \A t \in Spaces \ hurt : s # t => InStep(t)'
    BY <1>0, <1>1, <1>2, <1>4, <2>1 DEF InStep
  <2> HIDE SoleOf
  <2> QED BY <1>0, <1>1, <1>4, <1>5, <2>3, <2>4, SoleOf, SameRows, ToSole
<1>8. CASE AppendCsv(me)
  <2>1. pc[me] = "csv" /\ pc'[me] = "read" /\ UNCHANGED stores
    BY <1>8 DEF AppendCsv, Goto, TypeOK
  <2>2. log' = log /\ own' = own /\ ownVec' = ownVec
    BY <2>1 DEF stores
  <2>3. s \notin hurt => OwnInStep(s)' /\ log'[s] = In(s)
    <3>1. s \notin hurt => OwnInStep(s) /\ log[s] = In(s)
      BY <1>0, <2>1 DEF Caught
    <3> QED BY <1>2, <2>2, <3>1 DEF OwnInStep
  <2>4. Caught(me)'
    BY <1>0, <1>1, <1>2, <1>3, <2>1, <2>3 DEF Caught
  <2>5. \A t \in Spaces \ hurt : s # t => InStep(t)'
    BY <1>0, <1>4, <2>1, SameStores
  <2> HIDE SoleOf
  <2> QED BY <1>0, <1>1, <1>4, <1>5, <2>4, <2>5, SoleOf, SameRows, ToSole
<1> QED BY <1>6, <1>7, <1>8

\* An export's writes bring the folder in step, whatever it was before.
LEMMA ExportKeeps ==
  ASSUME NEW me, Procs = {me}, SInv,
         RebuildOwn(me) \/ TruncateLogs(me) \/ ReplayRow(me)
  PROVE  Sole'
<1> USE SoleOf
<1>0. PICK s \in Spaces : s = job[me].space
  BY DEF Job
<1>1. /\ UNCHANGED <<rows, vec, page, shelf, hurt>>
      /\ pc[me] \in {"rebuild", "truncate", "replay"} /\ pc'[me] \in {"truncate", "replay", "read"}
  BY DEF RebuildOwn, TruncateLogs, ReplayRow, Goto, TypeOK
<1>2. /\ \A t : In(t)' = In(t)
      /\ \A t : VectorsOf(In(t))' = VectorsOf(In(t))
  BY <1>1, SameRows
<1>3. /\ job[me].op = "export" /\ job'[me].op = "export" /\ job'[me].space = s
      /\ job'[me].boot = job[me].boot /\ job'[me].left = job[me].left
  <2>1. job[me].op = "export"
    BY <1>1 DEF Booting
  <2>2. CASE ReplayRow(me)
    <3>1. PICK r : job' = [job EXCEPT ![me] = [@ EXCEPT !.batch = job[me].batch \ {r}]]
      BY <2>2 DEF ReplayRow
    <3> QED BY <1>0, <2>1, <3>1 DEF TypeOK, Job
  <2>3. CASE job' = job
    BY <1>0, <2>1, <2>3
  <2> QED BY <2>2, <2>3 DEF RebuildOwn, TruncateLogs
<1>4. Carries(me)' /\ Booting(me)' /\ HalfDone(me)'
  BY <1>1, <1>3 DEF Carries, Booting, HalfDone
<1>5. RowsKeepTheirBytes'
  BY <1>1 DEF RowsKeepTheirBytes
<1>6. CASE RebuildOwn(me)
  <2>1. /\ pc[me] = "rebuild" /\ pc'[me] = "truncate" /\ log' = log /\ job' = job
        /\ \A t \in Robots \ {s} : own'[t] = own[t] /\ ownVec'[t] = ownVec[t]
        /\ s \in Robots => own'[s] = job[me].batch /\ ownVec'[s] = job[me].vecs
    BY <1>0, <1>6 DEF RebuildOwn, Goto, TypeOK
  <2>2. job[me].batch = In(s) /\ job[me].vecs = VectorsOf(In(s))
    BY <1>0, <2>1 DEF Caught
  <2>3. OwnInStep(s)'
    BY <1>2, <2>1, <2>2 DEF OwnInStep
  <2>4. Caught(me)'
    BY <1>0, <1>1, <1>2, <2>1, <2>2, <2>3 DEF Caught
  <2>5. Repaired(me)'
    <3> SUFFICES ASSUME job[me].boot, NEW a \in Robots \ job[me].left
                 PROVE  Keys(own'[a]) = Keys(In(a)')
      BY <1>3, <2>1 DEF Repaired, Keys
    <3>1. CASE a = s
      BY <1>2, <2>1, <2>2, <3>1
    <3>2. CASE a # s
      BY <1>0, <1>2, <2>1, <3>2 DEF Repaired
    <3> QED BY <3>1, <3>2
  <2>6. \A t \in Spaces \ hurt : s # t => InStep(t)'
    BY <1>1, <1>2, <2>1 DEF InStep, HalfDone
  <2> HIDE SoleOf
  <2> QED BY <1>1, <1>3, <1>4, <1>5, <2>4, <2>5, <2>6, SoleOf, SameRows, ToSole
<1>7. CASE TruncateLogs(me) \/ ReplayRow(me)
  <2>0. /\ own' = own /\ ownVec' = ownVec /\ pc[me] \in {"truncate", "replay"}
        /\ \A t \in Spaces \ {s} : log'[t] = log[t]
    BY <1>0, <1>7 DEF TruncateLogs, ReplayRow, TypeOK
  <2>1. OwnInStep(s)'
    <3>1. OwnInStep(s)
      BY <1>0, <2>0 DEF Caught
    <3> QED BY <1>2, <2>0, <3>1 DEF OwnInStep
  <2>2. Repaired(me)'
    BY <1>1, <1>2, <1>3, <2>0 DEF Repaired, Keys
  <2>3. \A t \in Spaces \ hurt : s # t => InStep(t)'
    BY <1>0, <1>1, <1>2, <2>0 DEF InStep, HalfDone
  <2>4. \/ pc'[me] = "read" /\ log'[s] = In(s)
        \/ /\ pc'[me] = "replay" /\ job'[me].batch # {} /\ job'[me].batch \subseteq In(s)
           /\ log'[s] = In(s) \ job'[me].batch
    <3>1. CASE TruncateLogs(me)
      <4>1. /\ log'[s] = {} /\ job' = job
            /\ pc'[me] = IF job[me].batch = {} THEN "read" ELSE "replay"
        BY <1>0, <3>1 DEF TruncateLogs, Goto, TypeOK
      <4>2. job[me].batch = In(s)
        BY <1>0, <3>1 DEF TruncateLogs, Caught
      <4> QED BY <4>1, <4>2
    <3>2. CASE ReplayRow(me)
      <4>1. PICK r \in job[me].batch :
              /\ log' = [log EXCEPT ![job[me].space] = Put(@, r)]
              /\ job' = [job EXCEPT ![me] = [@ EXCEPT !.batch = job[me].batch \ {r}]]
              /\ Goto(me, IF job[me].batch = {r} THEN "read" ELSE "replay")
        BY <3>2 DEF ReplayRow
      <4>2. /\ log'[s] = Put(log[s], r) /\ job'[me].batch = job[me].batch \ {r}
            /\ pc'[me] = IF job[me].batch = {r} THEN "read" ELSE "replay"
        BY <1>0, <4>1 DEF Goto, TypeOK, Job
      <4>3. job[me].batch \subseteq In(s) /\ log[s] = In(s) \ job[me].batch
        BY <1>0, <3>2 DEF ReplayRow, Caught
      <4>4. \A q \in log[s] : q.id # r.id
        BY <4>3 DEF IdsUnique, In
      <4>5. log'[s] = In(s) \ (job[me].batch \ {r})
        BY <4>2, <4>3, <4>4 DEF Put, Less
      <4> QED BY <4>2, <4>3, <4>5
    <3> QED BY <1>7, <3>1, <3>2
  <2>5. Caught(me)'
    BY <1>2, <1>3, <2>1, <2>4 DEF Caught
  <2> HIDE SoleOf
  <2> QED BY <1>1, <1>3, <1>4, <1>5, <2>2, <2>3, <2>5, SoleOf, SameRows, ToSole
<1> QED BY <1>6, <1>7

\* The page is the last to come in step.
LEMMA PageKeeps ==
  ASSUME NEW me, Procs = {me}, NoPage \notin SUBSET Row, SInv, WritePage(me)
  PROVE  Sole'
<1> USE SoleOf
<1>0. PICK s \in Spaces : s = job[me].space
  BY DEF Job
<1>1. /\ UNCHANGED <<rows, vec, own, ownVec, log, shelf>> /\ pc[me] = "write"
      /\ page'[s] = job[me].batch /\ \A t \in Spaces \ {s} : page'[t] = page[t]
      /\ hurt' = IF job[me].op = "export" THEN hurt \ {s} ELSE hurt
  BY <1>0 DEF WritePage, TypeOK
<1>2. /\ \A t : In(t)' = In(t)
      /\ \A t : VectorsOf(In(t))' = VectorsOf(In(t))
  BY <1>1, SameRows
<1>3. RowsKeepTheirBytes'
  BY <1>1 DEF RowsKeepTheirBytes
<1>4. \A t \in Spaces \ hurt' : InStep(t)'
  <2>1. job[me].batch = In(s) /\ In(s) # NoPage
    BY <1>0, <1>1 DEF Caught, TypeOK, In
  <2>2. ASSUME s \notin hurt' PROVE InStep(s)'
    <3>1. OwnInStep(s) /\ log[s] = In(s)
      BY <1>0, <1>1, <2>2 DEF Caught
    <3> QED BY <1>1, <1>2, <2>1, <3>1 DEF InStep, OwnInStep
  <2>3. ASSUME NEW t \in Spaces \ hurt', t # s PROVE InStep(t)'
    <3>1. InStep(t)
      BY <1>0, <1>1, <2>3
    <3> QED BY <1>1, <1>2, <2>3, <3>1 DEF InStep
  <2> QED BY <2>2, <2>3
<1>5. CASE Done(me)
  <2>1. job[me].boot => \A a \in Robots \ job[me].left : Keys(own'[a]) = Keys(In(a)')
    BY <1>1, <1>2 DEF Repaired
  <2> HIDE SoleOf
  <2> QED BY <1>1, <1>3, <1>4, <1>5, <2>1, DoneSole, SoleOf, SameRows, ToSole
<1>6. CASE /\ job[me].op = "add"
           /\ job' = [job EXCEPT ![me] = [@ EXCEPT !.batch = {job[me].row}]]
           /\ Goto(me, "vec")
  <2>1. /\ pc'[me] = "vec" /\ job'[me].batch = {job[me].row} /\ job'[me].space = s
        /\ job'[me].boot = job[me].boot
    BY <1>0, <1>6 DEF Goto, TypeOK, Job
  <2>2. ~job[me].boot /\ job[me].row \in In(s)
    BY <1>0, <1>1, <1>6 DEF Booting, Carries
  <2>3. Carries(me)' /\ Booting(me)' /\ Caught(me)' /\ Repaired(me)'
    <3>1. {job[me].row} \subseteq In(s)'
      BY <1>2, <2>2
    <3> QED BY <2>1, <2>2, <3>1 DEF Carries, Booting, Caught, Repaired
  <2> HIDE SoleOf
  <2> QED BY <1>1, <1>3, <1>4, <2>3, SoleOf, SameRows, ToSole
<1> QED BY <1>5, <1>6 DEF WritePage

\* A vector goes in under its own row's id.
LEMMA VectorKeeps ==
  ASSUME NEW me, Procs = {me}, SInv, PutVector(me)
  PROVE  Sole'
<1> USE SoleOf
<1>0. PICK s \in Spaces : s = job[me].space
  BY DEF Job
<1>1. PICK r \in job[me].batch :
        /\ vec' = Put(vec, [id |-> r.id, born |-> r.born])
        /\ job' = [job EXCEPT ![me] = [@ EXCEPT !.row = r, !.batch = job[me].batch \ {r}]]
  BY DEF PutVector
<1> DEFINE v == [id |-> r.id, born |-> r.born]
<1>2. /\ UNCHANGED <<rows, own, ownVec, log, page, shelf, hurt>>
      /\ pc[me] = "vec" /\ pc'[me] = "ownvec"
      /\ job'[me].row = r /\ job'[me].batch = job[me].batch \ {r}
      /\ job'[me].space = s /\ job'[me].boot = job[me].boot
  BY <1>0, <1>1 DEF PutVector, Goto, TypeOK, Job
<1>3. /\ ~job[me].boot /\ job[me].batch \subseteq In(s) /\ r \in In(s) /\ r \in rows /\ r.space = s
  <2>1. ~job[me].boot /\ job[me].batch \subseteq In(s)
    BY <1>0, <1>2 DEF Booting, Carries
  <2> QED BY <1>1, <2>1 DEF In
<1>4. v.id = r.id /\ v.born = r.born /\ vec' = Less(vec, {v.id}) \union {v}
  BY <1>1 DEF Put
<1> HIDE DEF v
<1>5. IdsUnique' /\ VecsHaveRows' /\ VectorsFitRows'
  BY <1>2, <1>3, <1>4 DEF IdsUnique, VecsHaveRows, VectorsFitRows, Ids, Less
<1>6. RowsKeepTheirBytes'
  BY <1>2 DEF RowsKeepTheirBytes
<1>7. \A t : In(t)' = In(t)
  BY <1>2 DEF In
<1>8. /\ VectorsOf(In(s))' = Put(VectorsOf(In(s)), v)
      /\ \A t : t # s => VectorsOf(In(t))' = VectorsOf(In(t))
  <2>1. \A t : VectorsOf(In(t))' = {w \in vec' : w.id \in Ids(In(t))}
    BY <1>7 DEF VectorsOf, Ids
  <2>2. v.id \in Ids(In(s))
    BY <1>3, <1>4 DEF Ids
  <2>3. \A t : t # s => v.id \notin Ids(In(t))
    BY <1>3, <1>4 DEF Ids, In, IdsUnique
  <2>4. VectorsOf(In(s))' = Put(VectorsOf(In(s)), v)
    BY <1>4, <2>1, <2>2 DEF VectorsOf, Put, Less
  <2>5. ASSUME NEW t, t # s PROVE VectorsOf(In(t))' = VectorsOf(In(t))
    <3>1. v.id \notin Ids(In(t))
      BY <2>3, <2>5
    <3> QED BY <1>4, <2>1, <3>1 DEF VectorsOf, Less
  <2> QED BY <2>4, <2>5
<1>9. \A t \in Spaces \ hurt : InStep(t)
  BY <1>2 DEF HalfDone
<1>10. \A t \in Spaces \ hurt' : (HalfDone(me)' => job'[me].space # t) => InStep(t)'
  <2>1. HalfDone(me)' <=> s \in Robots
    BY <1>2 DEF HalfDone
  <2>2. ASSUME NEW t \in Spaces \ hurt, t # s \/ s \notin Robots PROVE InStep(t)'
    BY <1>2, <1>7, <1>8, <1>9, <2>2 DEF InStep
  <2> QED BY <1>2, <2>1, <2>2
<1>11. Carries(me)' /\ Booting(me)' /\ Repaired(me)'
  BY <1>2, <1>3, <1>7 DEF Carries, Booting, Repaired
<1>12. Caught(me)'
  <2>1. ASSUME s \in Robots \ hurt
        PROVE  ShownInStep(s)' /\ own'[s] = In(s)' /\ Put(ownVec'[s], v) = VectorsOf(In(s))'
    BY <1>2, <1>7, <1>8, <1>9, <2>1 DEF InStep, ShownInStep
  <2> QED BY <1>2, <2>1 DEF Caught, v
<1> HIDE SoleOf
<1> QED BY <1>5, <1>6, <1>10, <1>11, <1>12, ToSole

\* The vector in the own database is the last of it.
LEMMA OwnVectorKeeps ==
  ASSUME NEW me, Procs = {me}, SInv, PutOwnVector(me)
  PROVE  Sole'
<1> USE SoleOf
<1>0. PICK s \in Spaces : s = job[me].space
  BY DEF Job
<1>1. PICK r \in In(s) : r = job[me].row
  BY <1>0 DEF PutOwnVector, Carries
<1> DEFINE v == [id |-> r.id, born |-> r.born]
<1>2. /\ UNCHANGED <<rows, vec, own, log, page, shelf, hurt>> /\ pc[me] = "ownvec"
      /\ ~job[me].boot
  BY DEF PutOwnVector, Booting
<1>3. /\ \A t : In(t)' = In(t)
      /\ \A t : VectorsOf(In(t))' = VectorsOf(In(t))
  BY <1>2, SameRows
<1>4. \A t \in Robots \ {s} : ownVec'[t] = ownVec[t]
  BY <1>1 DEF PutOwnVector, TypeOK, In, IdsUnique
<1>5. s \in Robots => ownVec'[s] = Put(ownVec[s], v)
  BY <1>1, GlobalIsNoRobot DEF PutOwnVector, TypeOK, In, IdsUnique
<1>6. RowsKeepTheirBytes'
  BY <1>2 DEF RowsKeepTheirBytes
<1>7. \A t \in Spaces \ hurt' : InStep(t)'
  <2>1. ASSUME s \in Robots \ hurt PROVE InStep(s)'
    <3>1. ShownInStep(s) /\ own[s] = In(s) /\ Put(ownVec[s], v) = VectorsOf(In(s))
      BY <1>0, <1>1, <1>2, <2>1 DEF Caught
    <3> QED BY <1>2, <1>3, <1>5, <2>1, <3>1 DEF InStep, ShownInStep
  <2>2. ASSUME NEW t \in Spaces \ hurt, t # s \/ s \notin Robots PROVE InStep(t)'
    <3>1. InStep(t)
      BY <1>0, <1>2, <2>2 DEF HalfDone
    <3> QED BY <1>2, <1>3, <1>4, <2>2, <3>1 DEF InStep
  <2> QED BY <1>2, <2>1, <2>2
<1>8. CASE Done(me)
  BY <1>2, <1>3, <1>6, <1>7, <1>8, DoneSole, SoleOf, SameRows, ToSole
<1>9. CASE Goto(me, "vec") /\ UNCHANGED job
  <2>1. pc'[me] = "vec" /\ job' = job
    BY <1>9 DEF Goto, TypeOK
  <2>2. Carries(me)' /\ Booting(me)' /\ Caught(me)' /\ Repaired(me)'
    BY <1>2, <1>3, <2>1 DEF Carries, Booting, Caught, Repaired
  <2> HIDE SoleOf
  <2> QED BY <1>2, <1>6, <1>7, <2>2, SoleOf, SameRows, ToSole
<1> QED BY <1>8, <1>9 DEF PutOwnVector

---------------------------------------------------------------------------
(* One process: the theorems.                                              *)

\* It holds at the start, every step keeps it, so it always holds.
LEMMA InitSole == NoPage \notin SUBSET Row => (Init => SInv)
<1> SUFFICES ASSUME NoPage \notin SUBSET Row, Init PROVE SInv
  OBVIOUS
<1>1. \A s : In(s) = {} /\ VectorsOf(In(s)) = {}
  BY DEF Init, In, VectorsOf
<1>2. OthersInStep
  BY <1>1, GlobalIsNoRobot DEF Init, OthersInStep, InStep, Spaces
<1>3. \A p \in Procs : Carries(p) /\ Booting(p) /\ Caught(p) /\ Repaired(p)
  BY DEF Init, Carries, Booting, Caught, Repaired, NoJob
<1> QED BY <1>2, <1>3, InitIInv
        DEF Init, SInv, Sole, IdsUnique, VecsHaveRows, RowsKeepTheirBytes, VectorsFitRows, Ids

\* One process keeps the stronger invariant with every step it can take.
LEMMA SoleKept ==
  ASSUME NEW me, Procs = {me}, NoPage \notin SUBSET Row
  PROVE  SInv /\ [Next]_vars => SInv'
<1> SUFFICES ASSUME SInv, [Next]_vars PROVE SInv'
  OBVIOUS
<1>1. IInv'
  BY NextTyped, FitsKept, FileFirstKept, RowsHaveFilesKept, OwnIsOwnKept DEF IInv, SInv
<1>2. ASSUME Ask(me) PROVE Sole'
  <2>1. CASE FindRow(me)
    <3>1. PICK s \in Spaces : s = Global
      BY DEF Spaces
    <3> QED BY <2>1, <3>1, AskKeeps
  <2> QED BY <1>2, <2>1, AskKeeps, RemovalKeeps DEF Ask
<1>3. ASSUME Go(me) PROVE Sole'
  BY <1>3, CopyKeeps, InsertKeeps, RemovalKeeps, FolderKeeps, LoadKeeps, PageKeeps, VectorKeeps,
     OwnVectorKeeps, ExportKeeps, BootKeeps, CompareKeeps DEF Go
<1>4. ASSUME Boot(me) \/ Fail(me) \/ Crash(me) PROVE Sole'
  BY <1>4, BootKeeps, CutKeeps
<1>5. ASSUME (\E a \in Robots : EmptyFolder(a)) \/ Tick \/ UNCHANGED vars PROVE Sole'
  BY <1>5, WorldKeeps
<1>6. Sole'
  BY <1>2, <1>3, <1>4, <1>5 DEF Next
<1> QED BY <1>1, <1>6 DEF SInv

\* With one process the stronger invariant holds throughout.
LEMMA SoleHolds ==
  ASSUME NEW me, Procs = {me}, NoPage \notin SUBSET Row
  PROVE  Spec => []SInv
<1>1. Init => SInv
  BY InitSole
<1>2. SInv /\ [Next]_vars => SInv'
  BY SoleKept
<1> QED BY <1>1, <1>2, PTL DEF Spec

\* space.rs:151, of one process: the file a row names holds the bytes the row was
\* filed with, whatever fails and whenever the process ends.  (Two processes may
\* take one name: the run ArchiveTwoCopies.)
THEOREM ArchiveRowsKeepTheirBytes ==
  ASSUME NEW me, Procs = {me}, NoPage \notin SUBSET Row
  PROVE  Spec => []RowsKeepTheirBytes
<1>1. SInv => RowsKeepTheirBytes
  BY DEF SInv, Sole
<1> QED BY <1>1, SoleHolds, PTL

\* Of one process: no vector of robots.db was computed from another row's text,
\* though rowids are used again.
THEOREM ArchiveVectorsFitRows ==
  ASSUME NEW me, Procs = {me}, NoPage \notin SUBSET Row
  PROVE  Spec => []VectorsFitRows
<1>1. SInv => VectorsFitRows
  BY DEF SInv, Sole
<1> QED BY <1>1, SoleHolds, PTL

\* store.rs:10-19, of one process: between operations every folder that no
\* operation was cut short in shows the rows of robots.db in all its copies.
THEOREM ArchiveFoldersInStep ==
  ASSUME NEW me, Procs = {me}, NoPage \notin SUBSET Row
  PROVE  Spec => []FoldersInStep
<1>1. SInv => FoldersInStep
  BY DEF SInv, Sole, OthersInStep, FoldersInStep, Quiet, HalfDone
<1> QED BY <1>1, SoleHolds, PTL

\* store.rs:281-285, of one process: when boot is over, every robot's own database
\* has the ids and times of its rows in robots.db.
THEOREM ArchiveBootRepairsOwn ==
  ASSUME NEW me, Procs = {me}, NoPage \notin SUBSET Row
  PROVE  Spec => BootRepairsOwn
<1> DEFINE Over == \A p \in Procs : pc[p] = "sync" /\ pc'[p] = "idle" =>
                     \A a \in Robots : Keys(own'[a]) = Keys({r \in rows' : r.space = a})
<1>1. SInv /\ [Next]_vars => [Over]_vars
  <2> SUFFICES ASSUME SInv, Next, pc[me] = "sync", pc'[me] = "idle", NEW a \in Robots
               PROVE  Keys(own'[a]) = Keys({r \in rows' : r.space = a})
    OBVIOUS
  <2> USE SoleOf
  <2>1. job[me].boot
    BY DEF Booting
  <2>2. Booted(me)
    <3>1. ~Ask(me) /\ ~Boot(me)
      BY DEF Ask, Boot, AddDocument, AddText, ClearRows, Export, Reindex, FindRow
    <3>2. ~Fail(me) /\ ~Crash(me)
      BY <2>1 DEF Fail, Crash, Goto, TypeOK
    <3>3. ~(\E b \in Robots : EmptyFolder(b)) /\ ~Tick
      BY DEF EmptyFolder, Tick
    <3>4. ~SyncWant(me) /\ ~SyncGlobal(me)
      BY DEF SyncWant, SyncGlobal, Goto, TypeOK
    <3>5. Go(me)
      BY <3>1, <3>2, <3>3 DEF Next
    <3> QED BY <3>4, <3>5 DEF Go, CopyFile, InsertRow, DeleteRow, DeleteOwn, InsertOwn,
            AppendLog, AppendCsv, ReadPage, WritePage, PutVector, PutOwnVector, LoadRows,
            LoadVectors, RebuildOwn, TruncateLogs, ReplayRow, SyncCompare
  <2>3. Keys(own[a]) = Keys(In(a))
    BY <2>1, <2>2 DEF Booted, Repaired
  <2>4. own' = own /\ rows' = rows
    BY <2>2 DEF Booted, stores
  <2> QED BY <2>3, <2>4 DEF In
<1> QED BY <1>1, SoleHolds, PTL DEF Spec, BootRepairsOwn
=============================================================================
