----------------------------- MODULE TurnProofs -----------------------------
(***************************************************************************)
(* Of module Turn, for any roster, any number of processes in a turn and   *)
(* any bounds: the types, StaysInItsArchive, NotItsOwnContext and          *)
(* AnswersHaveQuestions.  A turn looks at the table again at every         *)
(* statement, ids are used again, and a robot's own database may not have  *)
(* what the archive has, so what a turn's locals say of the rows that are  *)
(* there by then has to be part of the invariant.                          *)
(***************************************************************************)
EXTENDS Turn, FiniteSetTheorems, TLAPS

---------------------------------------------------------------------------
(* The inductive invariant.                                                *)

\* What a turn that is at l still has to file.
Owes(l) == IF l = "idle" THEN 0 ELSE IF l \in {"route", "store"} THEN 2 ELSE 1

Enough == born + Owed <= MaxBorn

\* What the place a turn is at says of its locals: it has shown nothing before its
\* question is filed, and a tool is run only while a round of them is left.
Fits(p) ==
  /\ pc[p] \in {"idle", "route", "store"} => shown[p] = {} /\ job[p].question = 0
  /\ pc[p] \notin {"idle", "route", "store"} => job[p].question # 0
  /\ pc[p] = "tools" => job[p].calls # 0 /\ job[p].step < MaxSteps
JobsFit == \A p \in Procs : Fits(p)

\* Nothing in the table or in a turn is newer than the last filing.
Past == /\ \A r \in rows \union own : r.born <= born /\ r.turn <= born
        /\ \A p \in Procs : job[p].question <= born

\* The row a turn takes for its question is its question, or is gone.
ItsQuestion ==
  \A p \in Procs : \A r \in rows \union own : r.born = job[p].question =>
    r.id = job[p].user /\ r.kind = "user" /\ r.space = job[p].space

\* No two turns have one question, and none that goes on is answered.
OneTurnEach ==
  /\ \A p, q \in Procs : p # q /\ job[p].question # 0 => job[p].question # job[q].question
  /\ \A p \in Procs : \A r \in rows :
       r.kind = "assistant" /\ job[p].question # 0 => r.turn # job[p].question

Base == TypeOK /\ Enough /\ JobsFit /\ Past

Rest  == ItsQuestion /\ OneTurnEach /\ AnswersHaveQuestions
Sight == StaysInItsArchive /\ NotItsOwnContext

IInv == Base /\ Rest /\ Sight

---------------------------------------------------------------------------
(* What the turns that are on still owe the table.                         *)

\* What the turns under way must still file is a number.
LEMMA OwedIsNat == ASSUME TypeOK PROVE Owed \in Nat
<1>1. IsFiniteSet({p \in Procs : pc[p] \in {"route", "store"}}) /\ IsFiniteSet({p \in Procs : pc[p] # "idle"})
  BY FS_Subset, ProcsAreFinite
<1> QED BY <1>1, FS_CardinalityType DEF Owed

\* It is part of what is owed.
LEMMA OwesOfOwed == ASSUME TypeOK, NEW p \in Procs PROVE Owes(pc[p]) <= Owed
<1> DEFINE S == {q \in Procs : pc[q] \in {"route", "store"}}
           B == {q \in Procs : pc[q] # "idle"}
<1>1. IsFiniteSet(S) /\ IsFiniteSet(B)
  BY FS_Subset, ProcsAreFinite
<1>2. /\ Cardinality(S) \in Nat /\ (Cardinality(S) = 0 <=> S = {})
      /\ Cardinality(B) \in Nat /\ (Cardinality(B) = 0 <=> B = {})
  BY <1>1, FS_CardinalityType, FS_EmptySet
<1>3. (pc[p] \in {"route", "store"} => S # {} /\ B # {}) /\ (pc[p] # "idle" => B # {})
  OBVIOUS
<1>4. Owed = Cardinality(S) + Cardinality(B)
  BY DEF Owed
<1> HIDE DEF S, B
<1> QED BY <1>2, <1>3, <1>4 DEF Owes

\* A set with one element more or less.
LEMMA OneMoreOrLess ==
  ASSUME NEW S, NEW T, NEW x, NEW in \in BOOLEAN, IsFiniteSet(S),
         T = IF in THEN S \union {x} ELSE S \ {x}
  PROVE  Cardinality(T) = Cardinality(S) + (IF in THEN 1 ELSE 0) - (IF x \in S THEN 1 ELSE 0)
<1>1. Cardinality(S) \in Nat
  BY FS_CardinalityType
<1>2. Cardinality(S \union {x}) = IF x \in S THEN Cardinality(S) ELSE Cardinality(S) + 1
  BY FS_AddElement
<1>3. Cardinality(S \ {x}) = IF x \in S THEN Cardinality(S) - 1 ELSE Cardinality(S)
  BY FS_RemoveElement
<1>4. CASE in
  BY <1>1, <1>2, <1>4
<1>5. CASE ~in
  BY <1>1, <1>3, <1>5
<1> QED BY <1>4, <1>5

\* A turn that moves from one place to another owes what it owes there.
LEMMA OwedMoves ==
  ASSUME TypeOK, NEW p \in Procs, NEW l \in PCs, Goto(p, l)
  PROVE  Owed' = Owed + Owes(l) - Owes(pc[p])
<1> DEFINE S == {q \in Procs : pc[q] \in {"route", "store"}}
           B == {q \in Procs : pc[q] # "idle"}
           T == {q \in Procs : pc'[q] \in {"route", "store"}}
           C == {q \in Procs : pc'[q] # "idle"}
<1>1. IsFiniteSet(S) /\ IsFiniteSet(B)
  BY FS_Subset, ProcsAreFinite
<1>2. Cardinality(S) \in Nat /\ Cardinality(B) \in Nat
  BY <1>1, FS_CardinalityType
<1>3. \A q \in Procs : pc'[q] = IF q = p THEN l ELSE pc[q]
  BY DEF Goto, TypeOK
<1>4. /\ T = IF l \in {"route", "store"} THEN S \union {p} ELSE S \ {p}
      /\ C = IF l # "idle" THEN B \union {p} ELSE B \ {p}
  BY <1>3
<1>5. /\ p \in S <=> pc[p] \in {"route", "store"}
      /\ p \in B <=> pc[p] # "idle"
  OBVIOUS
<1>6. Owed = Cardinality(S) + Cardinality(B) /\ Owed' = Cardinality(T) + Cardinality(C)
  BY DEF Owed
<1> HIDE DEF S, B, T, C
<1>7. Cardinality(T) = Cardinality(S) + (IF l \in {"route", "store"} THEN 1 ELSE 0)
                                          - (IF pc[p] \in {"route", "store"} THEN 1 ELSE 0)
  BY <1>1, <1>4, <1>5, OneMoreOrLess
<1>8. Cardinality(C) = Cardinality(B) + (IF l # "idle" THEN 1 ELSE 0) - (IF pc[p] # "idle" THEN 1 ELSE 0)
  BY <1>1, <1>4, <1>5, OneMoreOrLess
<1> QED BY <1>2, <1>6, <1>7, <1>8 DEF Owes

---------------------------------------------------------------------------
(* What the parts of an action do to the variables.                        *)

\* No job has the type of one.
LEMMA NoJobIsJob == NoJob \in Job
BY BoundsAreNat DEF NoJob, Job, Spaces

\* One process's place, locals and shown rows change, the others' stay.
LEMMA Moved ==
  ASSUME TypeOK, NEW p \in Procs, NEW l \in PCs, Goto(p, l)
  PROVE  pc' \in [Procs -> PCs] /\ \A q \in Procs : pc'[q] = IF q = p THEN l ELSE pc[q]
BY DEF Goto, TypeOK

\* Putting a job down changes one process's.
LEMMA PutIn ==
  ASSUME TypeOK, NEW p \in Procs, NEW j \in Job, Put(p, j)
  PROVE  job' \in [Procs -> Job] /\ \A q \in Procs : job'[q] = IF q = p THEN j ELSE job[q]
BY DEF Put, TypeOK

\* Showing rows changes what one turn is shown.
LEMMA ShowsRows ==
  ASSUME TypeOK, NEW p \in Procs, NEW via \in Vias, NEW R \in SUBSET (rows \union own), Show(p, via, R)
  PROVE  /\ shown' \in [Procs -> SUBSET Shown]
         /\ \A q \in Procs : shown'[q] = IF q = p THEN As(via, R) ELSE shown[q]
<1>1. As(via, R) \subseteq Shown
  BY DEF TypeOK, As, Row, Shown
<1> QED BY <1>1 DEF Show, TypeOK

\* Showing nothing changes what one turn is shown.
LEMMA ShowsNone ==
  ASSUME TypeOK, NEW p \in Procs, ShowNone(p)
  PROVE  /\ shown' \in [Procs -> SUBSET Shown]
         /\ \A q \in Procs : shown'[q] = IF q = p THEN {} ELSE shown[q]
BY DEF ShowNone, Show, As, TypeOK

\* A turn that ends leaves nothing and owes nothing.
LEMMA Ended ==
  ASSUME TypeOK, NEW p \in Procs, End(p)
  PROVE  /\ pc' \in [Procs -> PCs] /\ job' \in [Procs -> Job] /\ shown' \in [Procs -> SUBSET Shown]
         /\ \A q \in Procs : /\ pc'[q] = IF q = p THEN "idle" ELSE pc[q]
                             /\ job'[q] = IF q = p THEN NoJob ELSE job[q]
                             /\ shown'[q] = IF q = p THEN {} ELSE shown[q]
         /\ Owed' = Owed - Owes(pc[p])
<1>1. "idle" \in PCs /\ Owes("idle") = 0 /\ Owes(pc[p]) \in Nat
  BY DEF PCs, Owes
<1>2. Owed' = Owed + Owes("idle") - Owes(pc[p])
  BY <1>1, OwedMoves DEF End
<1>3. Owed' = Owed - Owes(pc[p])
  BY <1>1, <1>2, OwedIsNat
<1> QED BY <1>1, <1>3, NoJobIsJob, Moved, PutIn, ShowsNone DEF End

\* A filing adds one row, newer than any, to the archive and maybe to its robot's own
\* database.
LEMMA Inserted ==
  ASSUME TypeOK, Past, NEW s \in Spaces, NEW kind \in Kinds,
         NEW turn \in 0 .. MaxBorn, turn <= born + 1, born + 1 <= MaxBorn,
         NEW i, Insert(i, s, kind, turn)
  PROVE  /\ rows' \subseteq Row /\ own' \subseteq Row /\ born' = born + 1 /\ born' \in 0 .. MaxBorn
         /\ roster' = roster /\ made' = made
         /\ \A r \in rows' \union own' : r.born <= born' /\ r.turn <= born'
<1> DEFINE new == [id |-> i, born |-> born + 1, space |-> s, kind |-> kind, turn |-> turn]
<1>1. born \in Nat /\ born + 1 \in 1 .. MaxBorn /\ born' = born + 1 /\ i \in 1 .. MaxBorn
  BY BoundsAreNat DEF TypeOK, Insert, NextId
<1>2. new \in Row
  BY <1>1 DEF Row
<1>3. rows' = rows \union {new} /\ own' \subseteq own \union {new}
  BY DEF Insert, Without
<1>4. \A r \in rows \union own : r.born \in Nat /\ r.turn \in Nat /\ r.born <= born /\ r.turn <= born
  BY DEF TypeOK, Past, Row
<1>5. new.born = born + 1 /\ new.turn = turn
  OBVIOUS
<1> HIDE DEF new
<1>6. \A r \in rows' \union own' : r.born <= born + 1 /\ r.turn <= born + 1
  BY <1>1, <1>3, <1>4, <1>5
<1> QED BY <1>1, <1>2, <1>3, <1>6 DEF TypeOK, Insert

---------------------------------------------------------------------------
(* The types, and what the locals and the table say by themselves.         *)

\* A step of one turn, whatever it does to the table.
LEMMA OneTurnSteps ==
  ASSUME Base, NEW p \in Procs, NEW l \in PCs, NEW j \in Job, Goto(p, l), Put(p, j),
         shown' \in [Procs -> SUBSET Shown],
         \A q \in Procs : q # p => shown'[q] = shown[q],
         rows' \subseteq Row, own' \subseteq Row, roster' = roster, made' = made,
         born' \in 0 .. MaxBorn, born <= born', j.question <= born',
         \A r \in rows' \union own' : r.born <= born' /\ r.turn <= born',
         born' + Owed + Owes(l) - Owes(pc[p]) <= MaxBorn,
         Fits(p)'
  PROVE  Base'
<1> USE DEF Base
<1>1. /\ pc' \in [Procs -> PCs] /\ \A q \in Procs : q # p => pc'[q] = pc[q]
      /\ job' \in [Procs -> Job] /\ \A q \in Procs : job'[q] = IF q = p THEN j ELSE job[q]
  BY Moved, PutIn
<1>2. TypeOK'
  BY <1>1 DEF TypeOK
<1>3. Enough'
  <2>1. Owed' = Owed + Owes(l) - Owes(pc[p])
    BY OwedMoves
  <2>2. Owed \in Nat /\ Owes(l) \in Nat /\ Owes(pc[p]) \in Nat /\ born' \in Nat /\ MaxBorn \in Nat
    BY OwedIsNat, BoundsAreNat DEF Owes
  <2>3. born' + Owed' <= MaxBorn
    BY <2>1, <2>2
  <2> QED BY <2>3 DEF Enough
<1>4. JobsFit'
  <2> SUFFICES ASSUME NEW q \in Procs PROVE Fits(q)'
    BY DEF JobsFit
  <2> QED BY <1>1 DEF JobsFit, Fits
<1>5. Past'
  <2>1. \A q \in Procs : job'[q].question <= born'
    <3> SUFFICES ASSUME NEW q \in Procs, q # p PROVE job'[q].question <= born'
      BY <1>1
    <3>1. job[q].question <= born /\ job[q].question \in Nat /\ born \in Nat /\ born' \in Nat
      BY DEF Past, TypeOK, Job
    <3> QED BY <1>1, <3>1
  <2> QED BY <2>1 DEF Past
<1> QED BY <1>2, <1>3, <1>4, <1>5

\* A step of a turn that leaves the table alone, for a place that owes no more.
LEMMA OneTurnLooks ==
  ASSUME Base, NEW p \in Procs, NEW l \in PCs, NEW j \in Job, Goto(p, l), Put(p, j),
         shown' \in [Procs -> SUBSET Shown],
         \A q \in Procs : q # p => shown'[q] = shown[q],
         UNCHANGED table, Owes(l) <= Owes(pc[p]), j.question <= born, Fits(p)'
  PROVE  Base'
<1> USE DEF Base
<1>1. /\ Owed \in Nat /\ Owes(l) \in Nat /\ Owes(pc[p]) \in Nat /\ born \in 0 .. MaxBorn /\ MaxBorn \in Nat
      /\ born + Owed <= MaxBorn
  BY OwedIsNat, BoundsAreNat DEF Owes, Enough, TypeOK
<1>2. born' = born /\ born <= born' /\ born' + Owed + Owes(l) - Owes(pc[p]) <= MaxBorn
  BY <1>1 DEF table
<1>3. \A r \in rows' \union own' : r.born <= born' /\ r.turn <= born'
  BY DEF Past, table
<1>4. rows' \subseteq Row /\ own' \subseteq Row /\ roster' = roster /\ made' = made /\ born' \in 0 .. MaxBorn
  BY DEF TypeOK, table
<1> QED BY <1>2, <1>3, <1>4, OneTurnSteps

\* A turn that ends, having filed or not.
LEMMA OneTurnEnds ==
  ASSUME Base, NEW p \in Procs, End(p),
         rows' \subseteq Row, own' \subseteq Row, roster' = roster, made' = made,
         born' \in 0 .. MaxBorn, born <= born',
         \A r \in rows' \union own' : r.born <= born' /\ r.turn <= born',
         born' + Owed - Owes(pc[p]) <= MaxBorn
  PROVE  Base'
<1> USE DEF Base
<1>1. "idle" \in PCs /\ NoJob \in Job /\ NoJob.question = 0 /\ Owes("idle") = 0
  BY NoJobIsJob DEF PCs, NoJob, Owes
<1>2. /\ shown' \in [Procs -> SUBSET Shown] /\ \A q \in Procs : q # p => shown'[q] = shown[q]
      /\ pc'[p] = "idle" /\ job'[p] = NoJob /\ shown'[p] = {}
  BY Ended
<1>3. Fits(p)'
  BY <1>1, <1>2 DEF Fits
<1>4. /\ NoJob.question <= born' /\ Owed \in Nat /\ Owes(pc[p]) \in Nat
      /\ born' + Owed + Owes("idle") - Owes(pc[p]) <= MaxBorn
  BY <1>1, OwedIsNat DEF Owes
<1> QED BY <1>1, <1>2, <1>3, <1>4, OneTurnSteps DEF End

\* A turn starts only if there is room for what it will file.
LEMMA AskKeepsBase == ASSUME Base, NEW p \in Procs, Ask(p) PROVE Base'
<1> USE DEF Base
<1>1. PICK j \in Job, l \in {"route", "store"} : Put(p, j) /\ Goto(p, l) /\ j.question = 0
  <2>1. CASE \E a \in roster : Put(p, [NoJob EXCEPT !.space = a]) /\ Goto(p, "store")
    <3>1. PICK a \in roster : Put(p, [NoJob EXCEPT !.space = a]) /\ Goto(p, "store")
      BY <2>1
    <3>2. [NoJob EXCEPT !.space = a] \in Job /\ [NoJob EXCEPT !.space = a].question = 0
      BY NoJobIsJob DEF Job, NoJob, TypeOK, Spaces
    <3> QED BY <3>1, <3>2
  <2>2. CASE Put(p, [NoJob EXCEPT !.roster = roster]) /\ Goto(p, "route")
    <3>1. [NoJob EXCEPT !.roster = roster] \in Job /\ [NoJob EXCEPT !.roster = roster].question = 0
      BY NoJobIsJob DEF Job, NoJob, TypeOK
    <3> QED BY <2>2, <3>1
  <2> QED BY <2>1, <2>2 DEF Ask
<1>2. l \in PCs /\ pc[p] = "idle" /\ Room(2) /\ UNCHANGED <<table, shown>> /\ Owes(l) = 2
  BY DEF Ask, PCs, Owes
<1>3. Fits(p)'
  <2>1. shown'[p] = {} /\ pc'[p] = l /\ job'[p] = j
    BY <1>1, <1>2, Moved, PutIn DEF JobsFit, Fits
  <2> QED BY <1>1, <2>1 DEF Fits
<1>4. born' + Owed + Owes(l) - Owes(pc[p]) <= MaxBorn
  BY <1>2, OwedIsNat, BoundsAreNat DEF Room, Owes, table, TypeOK
<1>5. /\ rows' \subseteq Row /\ own' \subseteq Row /\ roster' = roster /\ made' = made
      /\ born' \in 0 .. MaxBorn /\ born <= born'
      /\ shown' \in [Procs -> SUBSET Shown] /\ \A q \in Procs : q # p => shown'[q] = shown[q]
      /\ \A r \in rows' \union own' : r.born <= born' /\ r.turn <= born'
  BY <1>2 DEF TypeOK, table, Past
<1>6. j.question <= born'
  BY <1>1, <1>5
<1> QED BY <1>1, <1>2, <1>3, <1>4, <1>5, <1>6, OneTurnSteps

\* A route settles whose turn it is, and nothing else.
LEMMA RouteKeepsBase == ASSUME Base, NEW p \in Procs, Route(p) PROVE Base'
<1> USE DEF Base
<1>1. PICK s \in Spaces : Put(p, [job[p] EXCEPT !.space = s, !.roster = {}])
  BY DEF Route
<1> DEFINE j == [job[p] EXCEPT !.space = s, !.roster = {}]
<1>2. j \in Job /\ j.question = job[p].question /\ job[p].question = 0 /\ shown[p] = {}
  BY DEF TypeOK, Job, Route, JobsFit, Fits
<1>3. Put(p, j) /\ Goto(p, "store") /\ "store" \in PCs /\ UNCHANGED <<table, shown>>
  BY <1>1 DEF Route, PCs
<1> HIDE DEF j
<1>4. Fits(p)'
  <2>1. shown'[p] = {} /\ pc'[p] = "store" /\ job'[p] = j
    BY <1>2, <1>3, Moved, PutIn
  <2> QED BY <1>2, <2>1 DEF Fits
<1>5. Owes("store") <= Owes(pc[p]) /\ j.question <= born
  BY <1>2 DEF Owes, Route, TypeOK
<1>6. shown' \in [Procs -> SUBSET Shown] /\ \A q \in Procs : q # p => shown'[q] = shown[q]
  BY <1>3 DEF TypeOK
<1> QED BY <1>2, <1>3, <1>4, <1>5, <1>6, OneTurnLooks

\* Filing the question pays for one of the filings owed.
LEMMA StoreQuestionKeepsBase == ASSUME Base, NEW p \in Procs, StoreQuestion(p) PROVE Base'
<1> USE DEF Base
<1>1. /\ pc[p] = "store" /\ Owes(pc[p]) = 2 /\ Owes(pc[p]) <= Owed /\ Owed \in Nat
      /\ born \in Nat /\ MaxBorn \in Nat /\ born + 1 \in 0 .. MaxBorn /\ job[p] \in Job
      /\ born + Owed <= MaxBorn
  <2>1. pc[p] = "store"
    BY DEF StoreQuestion
  <2>2. Owes(pc[p]) = 2
    BY <2>1 DEF Owes
  <2>3. Owes(pc[p]) <= Owed /\ Owed \in Nat
    BY OwesOfOwed, OwedIsNat
  <2>4. born \in Nat /\ MaxBorn \in Nat /\ born + Owed <= MaxBorn /\ job[p] \in Job
    BY BoundsAreNat DEF TypeOK, Enough
  <2> QED BY <2>1, <2>2, <2>3, <2>4
<1>2. CASE Exists(job[p].space)
  <2>1. PICK i \in 1 .. MaxBorn :
          /\ Insert(i, job[p].space, "user", born + 1)
          /\ \/ /\ Put(p, [job[p] EXCEPT !.user = i, !.question = born + 1])
                /\ Goto(p, "retrieve") /\ UNCHANGED shown
             \/ End(p)
    BY <1>2 DEF StoreQuestion
  <2>2. /\ rows' \subseteq Row /\ own' \subseteq Row /\ roster' = roster /\ made' = made
        /\ born' = born + 1 /\ born' \in 0 .. MaxBorn
        /\ \A r \in rows' \union own' : r.born <= born' /\ r.turn <= born'
    <3>1. job[p].space \in Spaces /\ "user" \in Kinds
      BY <1>1 DEF Job, Kinds
    <3>2. born + 1 <= born + 1 /\ born + 1 <= MaxBorn
      BY <1>1
    <3> QED BY <1>1, <2>1, <3>1, <3>2, Inserted
  <2>3. CASE /\ Put(p, [job[p] EXCEPT !.user = i, !.question = born + 1])
             /\ Goto(p, "retrieve") /\ UNCHANGED shown
    <3> DEFINE j == [job[p] EXCEPT !.user = i, !.question = born + 1]
    <3>1. j \in Job /\ j.question = born + 1
      <4>1. i \in 0 .. MaxBorn
        BY <1>1
      <4> QED BY <1>1, <4>1 DEF Job
    <3>2. "retrieve" \in PCs /\ Put(p, j) /\ Goto(p, "retrieve")
      BY <2>3 DEF PCs
    <3>3. Owes("retrieve") = 1 /\ born' + Owed + Owes("retrieve") - Owes(pc[p]) <= MaxBorn
      BY <1>1, <2>2 DEF Owes
    <3> HIDE DEF j
    <3>4. Fits(p)'
      <4>1. pc'[p] = "retrieve" /\ job'[p] = j
        BY <3>1, <3>2, Moved, PutIn
      <4> QED BY <1>1, <3>1, <4>1 DEF Fits
    <3>5. shown' \in [Procs -> SUBSET Shown] /\ \A q \in Procs : q # p => shown'[q] = shown[q]
      BY <2>3 DEF TypeOK
    <3>6. born <= born' /\ j.question <= born'
      BY <1>1, <2>2, <3>1
    <3> QED BY <2>2, <3>1, <3>2, <3>3, <3>4, <3>5, <3>6, OneTurnSteps
  <2>4. CASE End(p)
    <3>1. born <= born' /\ born' + Owed - Owes(pc[p]) <= MaxBorn
      BY <1>1, <2>2
    <3> QED BY <2>2, <2>4, <3>1, OneTurnEnds
  <2> QED BY <2>1, <2>3, <2>4
<1>3. CASE ~Exists(job[p].space)
  <2>1. End(p) /\ UNCHANGED table
    BY <1>3 DEF StoreQuestion
  <2> QED BY <1>1, <2>1, OneTurnEnds DEF table, TypeOK, Past
<1> QED BY <1>2, <1>3

\* The places in between owe one row each.
LEMMA OneRowOwed ==
  /\ {"retrieve", "history", "call", "tools", "answer"} \subseteq PCs \ {"idle", "route", "store"}
  /\ \A l \in PCs \ {"idle", "route", "store"} : Owes(l) = 1
BY DEF PCs, Owes

\* What is retrieved is of rows there are, in the archive or the robot's own database.
LEMMA RetrieveKeepsBase == ASSUME Base, NEW p \in Procs, Retrieve(p) PROVE Base'
<1> USE DEF Base
<1>1. PICK hits \in Finds(job[p].space) : Show(p, "context", NotIts(p, hits))
  BY DEF Retrieve
<1>2. NotIts(p, hits) \in SUBSET (rows \union own) /\ "context" \in Vias
  BY DEF Finds, Scope, OwnOf, NotIts, Vias
<1>3. /\ pc[p] = "retrieve" /\ Goto(p, "history") /\ UNCHANGED <<table, job>>
      /\ job[p] \in Job /\ Put(p, job[p])
  BY DEF Retrieve, TypeOK, Put
<1>4. /\ shown' \in [Procs -> SUBSET Shown] /\ \A q \in Procs : q # p => shown'[q] = shown[q]
      /\ pc'[p] = "history" /\ job'[p] = job[p]
  BY <1>1, <1>2, <1>3, OneRowOwed, Moved, ShowsRows
<1>5. Fits(p)'
  BY <1>3, <1>4 DEF Fits, JobsFit
<1>6. Owes("history") <= Owes(pc[p]) /\ job[p].question <= born
  BY <1>3, OneRowOwed DEF Past
<1> QED BY <1>3, <1>4, <1>5, <1>6, OneRowOwed, OneTurnLooks

\* What is recalled is of rows there are.
LEMMA RecallKeepsBase == ASSUME Base, NEW p \in Procs, Recall(p) PROVE Base'
<1> USE DEF Base
<1>1. NotIts(p, Messages(job[p].space, History)) \in SUBSET (rows \union own) /\ "history" \in Vias
  BY DEF Messages, In, NotIts, Vias
<1>2. /\ pc[p] = "history" /\ Goto(p, "call") /\ UNCHANGED <<table, job>>
      /\ job[p] \in Job /\ Put(p, job[p])
      /\ Show(p, "history", NotIts(p, Messages(job[p].space, History)))
  BY DEF Recall, TypeOK, Put
<1>3. /\ shown' \in [Procs -> SUBSET Shown] /\ \A q \in Procs : q # p => shown'[q] = shown[q]
      /\ pc'[p] = "call" /\ job'[p] = job[p]
  BY <1>1, <1>2, OneRowOwed, Moved, ShowsRows
<1>4. Fits(p)'
  BY <1>2, <1>3 DEF Fits, JobsFit
<1>5. Owes("call") <= Owes(pc[p]) /\ job[p].question <= born
  BY <1>2, OneRowOwed DEF Past
<1> QED BY <1>2, <1>3, <1>4, <1>5, OneRowOwed, OneTurnLooks

\* A reply leads to a tool only while a round is left.
LEMMA ReplyKeepsBase == ASSUME Base, NEW p \in Procs, Reply(p) PROVE Base'
<1> USE DEF Base
<1>1. pc[p] = "call" /\ ShowNone(p) /\ UNCHANGED table /\ job[p] \in Job
  BY DEF Reply, TypeOK
<1>2. /\ shown' \in [Procs -> SUBSET Shown] /\ \A q \in Procs : q # p => shown'[q] = shown[q]
      /\ job[p].question # 0 /\ job[p].question <= born
  BY <1>1, ShowsNone DEF JobsFit, Fits, Past
<1>3. PICK n \in 0 .. MaxCalls :
        IF n = 0 \/ job[p].step = MaxSteps
          THEN Goto(p, "answer") /\ UNCHANGED job
          ELSE /\ \E k \in Handed(n) : Put(p, [job[p] EXCEPT !.calls = k])
               /\ Goto(p, "tools")
  BY DEF Reply
<1>4. CASE n = 0 \/ job[p].step = MaxSteps
  <2>1. Goto(p, "answer") /\ Put(p, job[p]) /\ job' = job
    BY <1>3, <1>4 DEF Put, TypeOK
  <2>2. pc'[p] = "answer"
    BY <2>1, OneRowOwed, Moved
  <2>3. Fits(p)'
    BY <1>2, <2>1, <2>2 DEF Fits
  <2>4. Owes("answer") <= Owes(pc[p])
    BY <1>1, OneRowOwed
  <2> QED BY <1>1, <1>2, <2>1, <2>3, <2>4, OneRowOwed, OneTurnLooks
<1>5. CASE ~(n = 0 \/ job[p].step = MaxSteps)
  <2>1. PICK k \in 1 .. n : Put(p, [job[p] EXCEPT !.calls = k])
    BY <1>3, <1>5 DEF Handed
  <2> DEFINE j == [job[p] EXCEPT !.calls = k]
  <2>2. k \in 0 .. MaxCalls /\ k # 0
    BY BoundsAreNat
  <2>3. j \in Job /\ j.question = job[p].question /\ j.calls # 0 /\ j.step < MaxSteps
    BY <1>1, <1>5, <2>2, BoundsAreNat DEF Job
  <2>4. Goto(p, "tools") /\ Put(p, j)
    BY <1>3, <1>5, <2>1
  <2> HIDE DEF j
  <2>5. pc'[p] = "tools" /\ job'[p] = j
    BY <2>3, <2>4, OneRowOwed, Moved, PutIn
  <2>6. Fits(p)'
    BY <1>2, <2>3, <2>5 DEF Fits
  <2>7. Owes("tools") <= Owes(pc[p]) /\ j.question <= born
    BY <1>1, <1>2, <2>3, OneRowOwed
  <2> QED BY <1>1, <1>2, <2>3, <2>4, <2>6, <2>7, OneRowOwed, OneTurnLooks
<1> QED BY <1>4, <1>5

\* An answer made offline still has to be filed.
LEMMA ReplyOfflineKeepsBase == ASSUME Base, NEW p \in Procs, ReplyOffline(p) PROVE Base'
<1> USE DEF Base
<1>1. PICK hits \in Finds(Nobody) : Show(p, "all", hits)
  BY DEF ReplyOffline
<1>2. hits \in SUBSET (rows \union own) /\ "all" \in Vias
  BY DEF Finds, Scope, Vias
<1>3. /\ pc[p] = "call" /\ Goto(p, "answer") /\ UNCHANGED <<table, job>>
      /\ job[p] \in Job /\ Put(p, job[p])
  BY DEF ReplyOffline, TypeOK, Put
<1>4. /\ shown' \in [Procs -> SUBSET Shown] /\ \A q \in Procs : q # p => shown'[q] = shown[q]
      /\ pc'[p] = "answer" /\ job'[p] = job[p]
  BY <1>1, <1>2, <1>3, OneRowOwed, Moved, ShowsRows
<1>5. Fits(p)'
  BY <1>3, <1>4 DEF Fits, JobsFit
<1>6. Owes("answer") <= Owes(pc[p]) /\ job[p].question <= born
  BY <1>3, OneRowOwed DEF Past
<1> QED BY <1>3, <1>4, <1>5, <1>6, OneRowOwed, OneTurnLooks

\* A turn that fails or is cut short, with nothing filed.
LEMMA EndKeepsBase == ASSUME Base, NEW p \in Procs, End(p), UNCHANGED table PROVE Base'
<1> USE DEF Base
<1>1. /\ Owed \in Nat /\ Owes(pc[p]) \in Nat /\ born \in Nat /\ MaxBorn \in Nat /\ born + Owed <= MaxBorn
  BY OwedIsNat, BoundsAreNat DEF Owes, TypeOK, Enough
<1>2. born' = born /\ born' + Owed - Owes(pc[p]) <= MaxBorn
  BY <1>1 DEF table
<1>3. /\ rows' \subseteq Row /\ own' \subseteq Row /\ roster' = roster /\ made' = made
      /\ born' \in 0 .. MaxBorn /\ born <= born'
      /\ \A r \in rows' \union own' : r.born <= born' /\ r.turn <= born'
  BY <1>1 DEF TypeOK, Past, table
<1> QED BY <1>2, <1>3, OneTurnEnds

\* What a tool shows: of another archive only what was asked of all by name.
LEMMA ToolShows ==
  ASSUME TypeOK, NEW p \in Procs, RunTool(p)
  PROVE  /\ shown' \in [Procs -> SUBSET Shown] /\ \A q \in Procs : q # p => shown'[q] = shown[q]
         /\ \A x \in shown'[p] :
              /\ x.via \notin {"context", "history"}
              /\ x.via # "all" => \/ x.space = job[p].space
                                  \/ job[p].space = Nobody /\ x.via = "search"
<1> USE DEF Vias
<1>1. CASE SearchContext(p)
  <2>2. PICK hits \in Finds(job[p].space) : Show(p, "search", hits)
    BY <1>1 DEF SearchContext
  <2>3. /\ hits \in SUBSET (rows \union own)
        /\ job[p].space # Nobody => \A r \in hits : r.space = job[p].space
    BY DEF Finds, Scope, OwnOf
  <2>4. \A x \in As("search", hits) : x.via = "search" /\ \E r \in hits : x.space = r.space
    BY DEF As
  <2>5. \A x \in As("search", hits) : x.via = "search" /\ (job[p].space # Nobody => x.space = job[p].space)
    BY <2>3, <2>4
  <2>6. /\ shown' \in [Procs -> SUBSET Shown] /\ \A q \in Procs : q # p => shown'[q] = shown[q]
        /\ shown'[p] = As("search", hits)
    BY <2>2, <2>3, ShowsRows
  <2> QED BY <2>5, <2>6
<1>2. CASE SearchAll(p)
  <2>1. \A x \in As("all", rows) : x.via = "all"
    BY DEF As
  <2>2. /\ shown' \in [Procs -> SUBSET Shown] /\ \A q \in Procs : q # p => shown'[q] = shown[q]
        /\ shown'[p] = As("all", rows)
    BY <1>2, ShowsRows DEF SearchAll
  <2> QED BY <2>1, <2>2
<1>3. CASE ListContext(p)
  <2>1. PICK R \in SUBSET (rows \union own) :
          (\A r \in R : r.space = job[p].space) /\ Show(p, "list", R)
    BY <1>3 DEF ListContext, In
  <2>2. \A x \in As("list", R) : x.via = "list" /\ x.space = job[p].space
    BY <2>1 DEF As
  <2>3. /\ shown' \in [Procs -> SUBSET Shown] /\ \A q \in Procs : q # p => shown'[q] = shown[q]
        /\ shown'[p] = As("list", R)
    BY <2>1, ShowsRows
  <2>4. \A x \in shown'[p] : x.via = "list" /\ x.space = job[p].space
    BY <2>2, <2>3
  <2> QED BY <2>3, <2>4
<1>4. CASE ReadItem(p)
  <2>1. PICK r \in rows : Show(p, "read", IF Readable(p, r) THEN {r} ELSE {})
    BY <1>4 DEF ReadItem
  <2> DEFINE R == IF Readable(p, r) THEN {r} ELSE {}
  <2>2. R \in SUBSET (rows \union own) /\ (\A y \in R : y.space = job[p].space) /\ Show(p, "read", R)
    BY <2>1 DEF Readable
  <2> HIDE DEF R
  <2>3. \A x \in As("read", R) : x.via = "read" /\ x.space = job[p].space
    BY <2>2 DEF As
  <2>4. /\ shown' \in [Procs -> SUBSET Shown] /\ \A q \in Procs : q # p => shown'[q] = shown[q]
        /\ shown'[p] = As("read", R)
    BY <2>2, ShowsRows
  <2>5. \A x \in shown'[p] : x.via = "read" /\ x.space = job[p].space
    BY <2>3, <2>4
  <2> QED BY <2>4, <2>5
<1>5. CASE ShowNone(p)
  BY <1>5, ShowsNone
<1> QED BY <1>1, <1>2, <1>3, <1>4, <1>5 DEF RunTool

\* Where a turn is after a tool: the round goes on, or the model is asked again.
LEMMA ToolDone ==
  ASSUME Base, NEW p \in Procs, RunTool(p)
  PROVE  \E l \in {"call", "tools"}, j \in Job :
           /\ Goto(p, l) /\ Put(p, j)
           /\ j.space = job[p].space /\ j.user = job[p].user /\ j.question = job[p].question
           /\ l = "tools" => j.calls # 0 /\ j.step < MaxSteps
<1> USE DEF Base
<1> DEFINE l == IF job[p].calls = 1 THEN "call" ELSE "tools"
           j == [job[p] EXCEPT !.calls = @ - 1, !.step = IF job[p].calls = 1 THEN @ + 1 ELSE @]
<1>1. Goto(p, l) /\ Put(p, j)
  BY DEF RunTool, Done
<1>2. /\ job[p] \in Job /\ job[p].calls \in 1 .. MaxCalls /\ job[p].step \in 0 .. MaxSteps
      /\ job[p].step < MaxSteps /\ MaxSteps \in Nat /\ MaxCalls \in Nat
  BY BoundsAreNat DEF RunTool, TypeOK, Job, JobsFit, Fits
<1>3. /\ job[p].calls - 1 \in 0 .. MaxCalls /\ job[p].step + 1 \in 0 .. MaxSteps
      /\ job[p].calls # 1 => job[p].calls - 1 # 0
  BY <1>2
<1>4. j \in Job /\ j.space = job[p].space /\ j.user = job[p].user /\ j.question = job[p].question
  BY <1>2, <1>3 DEF Job
<1>5. l = "tools" => j.calls # 0 /\ j.step < MaxSteps
  BY <1>2, <1>3 DEF Job
<1>6. l \in {"call", "tools"}
  OBVIOUS
<1> HIDE DEF l, j
<1> QED BY <1>1, <1>4, <1>5, <1>6

\* A tool takes one round, and what it files leaves room for the rest.
LEMMA RunToolKeepsBase == ASSUME Base, NEW p \in Procs, RunTool(p) PROVE Base'
<1> USE DEF Base
<1>1. PICK l \in {"call", "tools"}, j \in Job :
        /\ Goto(p, l) /\ Put(p, j)
        /\ j.space = job[p].space /\ j.user = job[p].user /\ j.question = job[p].question
        /\ l = "tools" => j.calls # 0 /\ j.step < MaxSteps
  BY ToolDone
<1>2. shown' \in [Procs -> SUBSET Shown] /\ \A q \in Procs : q # p => shown'[q] = shown[q]
  BY ToolShows
<1>3. /\ pc[p] = "tools" /\ l \in PCs /\ Owes(l) = 1 /\ Owes(pc[p]) = 1
      /\ job[p].question # 0 /\ job[p].question <= born /\ job[p] \in Job
      /\ job[p].question \in 0 .. MaxBorn
  BY <1>1, OneRowOwed DEF RunTool, JobsFit, Fits, Past, TypeOK, Job
<1>4. pc'[p] = l /\ job'[p] = j
  BY <1>1, <1>3, Moved, PutIn
<1>5. Fits(p)'
  BY <1>1, <1>3, <1>4 DEF Fits
<1>6. CASE UNCHANGED table
  <2>1. Owes(l) <= Owes(pc[p]) /\ j.question <= born
    BY <1>1, <1>3
  <2> QED BY <1>1, <1>2, <1>3, <1>5, <1>6, <2>1, OneTurnLooks
<1>7. CASE WriteNote(p) /\ ~UNCHANGED table
  <2>1. PICK i \in 1 .. MaxBorn :
          Insert(i, job[p].space, "filed", job[p].question)
    BY <1>7 DEF WriteNote
  <2>2. Room(1)
    BY <1>7 DEF WriteNote
  <2>3. /\ born \in Nat /\ Owed \in Nat /\ MaxBorn \in Nat /\ born + Owed + 1 <= MaxBorn
        /\ job[p].question <= born + 1 /\ born + 1 <= MaxBorn
    BY <1>3, <2>2, OwedIsNat, BoundsAreNat DEF Room, TypeOK
  <2>4. "filed" \in Kinds /\ job[p].space \in Spaces
    BY <1>3 DEF Kinds, Job
  <2>5. /\ rows' \subseteq Row /\ own' \subseteq Row /\ roster' = roster /\ made' = made
        /\ born' = born + 1 /\ born' \in 0 .. MaxBorn
        /\ \A r \in rows' \union own' : r.born <= born' /\ r.turn <= born'
    BY <1>3, <2>1, <2>3, <2>4, Inserted
  <2>6. born <= born' /\ j.question <= born' /\ born' + Owed + Owes(l) - Owes(pc[p]) <= MaxBorn
    BY <1>1, <1>3, <2>3, <2>5
  <2> QED BY <1>1, <1>2, <1>3, <1>5, <2>5, <2>6, OneTurnSteps
<1> QED BY <1>6, <1>7 DEF RunTool

\* Filing the answer pays for the last of the filings owed.
LEMMA StoreAnswerKeepsBase == ASSUME Base, NEW p \in Procs, StoreAnswer(p) PROVE Base'
<1> USE DEF Base
<1>1. CASE Exists(job[p].space)
  <2>1. PICK i \in 1 .. MaxBorn :
          Insert(i, job[p].space, "assistant", job[p].question)
    BY <1>1 DEF StoreAnswer
  <2>2. /\ pc[p] = "answer" /\ End(p) /\ Owes(pc[p]) = 1 /\ Owes(pc[p]) <= Owed
        /\ job[p] \in Job /\ job[p].question <= born /\ job[p].question \in 0 .. MaxBorn
    BY OneRowOwed, OwesOfOwed DEF StoreAnswer, Past, TypeOK, Job
  <2>3. /\ born \in Nat /\ Owed \in Nat /\ MaxBorn \in Nat /\ born + Owed <= MaxBorn
    BY OwedIsNat, BoundsAreNat DEF TypeOK, Enough
  <2>4. job[p].question <= born + 1 /\ born + 1 <= MaxBorn
    BY <2>2, <2>3
  <2>5. job[p].space \in Spaces /\ "assistant" \in Kinds
    BY <2>2 DEF Job, Kinds
  <2>6. /\ rows' \subseteq Row /\ own' \subseteq Row /\ roster' = roster /\ made' = made
        /\ born' = born + 1 /\ born' \in 0 .. MaxBorn
        /\ \A r \in rows' \union own' : r.born <= born' /\ r.turn <= born'
    BY <2>1, <2>2, <2>4, <2>5, Inserted
  <2>7. born <= born' /\ born' + Owed - Owes(pc[p]) <= MaxBorn
    BY <2>2, <2>3, <2>6
  <2> QED BY <2>2, <2>6, <2>7, OneTurnEnds
<1>2. CASE ~Exists(job[p].space)
  BY <1>2, EndKeepsBase DEF StoreAnswer
<1> QED BY <1>1, <1>2

\* Filing, deleting and hiring beside the turns keep the bounds.
LEMMA OthersKeepBase == ASSUME Base, Others PROVE Base'
<1> USE DEF Base
<1>1. pc' = pc /\ job' = job /\ shown' = shown
  BY DEF Others, FileItem, DeleteItem, ClearMessages, DeleteAgent, CreateAgent, Delete
<1>2. Owed' = Owed
  BY <1>1 DEF Owed
<1>3. JobsFit'
  BY <1>1 DEF JobsFit, Fits
<1>4. CASE FileItem
  <2>1. PICK i \in 1 .. MaxBorn, s \in roster \union {Nobody} :
          Insert(i, s, "filed", 0)
    BY <1>4 DEF FileItem
  <2>2. /\ born \in Nat /\ Owed \in Nat /\ MaxBorn \in Nat /\ born + Owed + 1 <= MaxBorn
    BY <1>4, OwedIsNat, BoundsAreNat DEF FileItem, Room, TypeOK
  <2>3. /\ s \in Spaces /\ "filed" \in Kinds /\ 0 \in 0 .. MaxBorn /\ 0 <= born + 1 /\ born + 1 <= MaxBorn
    BY <2>2 DEF TypeOK, Spaces, Kinds
  <2>4. /\ rows' \subseteq Row /\ own' \subseteq Row /\ roster' = roster /\ made' = made
        /\ born' = born + 1 /\ born' \in 0 .. MaxBorn
        /\ \A r \in rows' \union own' : r.born <= born' /\ r.turn <= born'
    BY <2>1, <2>3, Inserted
  <2>5. Enough'
    BY <1>2, <2>2, <2>4 DEF Enough
  <2>6. TypeOK'
    BY <1>1, <2>4 DEF TypeOK
  <2>7. \A p \in Procs : job'[p].question <= born'
    <3> SUFFICES ASSUME NEW p \in Procs PROVE job'[p].question <= born'
      OBVIOUS
    <3>1. job[p].question \in Nat /\ job[p].question <= born
      BY DEF Past, TypeOK, Job
    <3> QED BY <1>1, <2>2, <2>4, <3>1
  <2> QED BY <1>3, <2>4, <2>5, <2>6, <2>7 DEF Past
<1>5. CASE ~FileItem
  <2>1. /\ born' = born /\ rows' \subseteq rows /\ own' \subseteq own
        /\ roster' \subseteq made' /\ made' \subseteq Robots
    BY <1>5 DEF Others, DeleteItem, ClearMessages, DeleteAgent, CreateAgent, Delete, TypeOK
  <2>2. TypeOK'
    BY <1>1, <2>1 DEF TypeOK
  <2> QED BY <1>1, <1>2, <1>3, <2>1, <2>2 DEF Enough, Past
<1> QED BY <1>4, <1>5

\* An empty archive with no turn has the types.
LEMMA InitHasBase == Init => Base
<1> SUFFICES ASSUME Init PROVE Base
  OBVIOUS
<1>1. TypeOK
  BY NoJobIsJob, BoundsAreNat, RobotsAreSome DEF Init, TypeOK, PCs
<1>2. Owed = 0
  <2>1. {p \in Procs : pc[p] \in {"route", "store"}} = {} /\ {p \in Procs : pc[p] # "idle"} = {}
    BY DEF Init
  <2> QED BY <2>1, FS_EmptySet DEF Owed
<1>3. Enough
  BY <1>2, BoundsAreNat DEF Enough, Init
<1>4. JobsFit /\ Past
  BY DEF Init, JobsFit, Fits, Past, NoJob
<1> QED BY <1>1, <1>3, <1>4 DEF Base

\* Every step keeps the types.
LEMMA NextKeepsBase == Base /\ [Next]_vars => Base'
<1> SUFFICES ASSUME Base, [Next]_vars PROVE Base'
  OBVIOUS
<1>1. ASSUME NEW p \in Procs, Ask(p) PROVE Base'
  BY <1>1, AskKeepsBase
<1>2. ASSUME NEW p \in Procs, Step(p) PROVE Base'
  <2>1. CASE ModelFails(p)
    BY <2>1, EndKeepsBase DEF ModelFails
  <2> QED BY <1>2, <2>1, RouteKeepsBase, StoreQuestionKeepsBase, RetrieveKeepsBase, RecallKeepsBase, ReplyKeepsBase,
             ReplyOfflineKeepsBase, RunToolKeepsBase, StoreAnswerKeepsBase DEF Step
<1>3. ASSUME NEW p \in Procs, Abandon(p) PROVE Base'
  BY <1>3, EndKeepsBase DEF Abandon
<1>4. CASE Others
  BY <1>4, OthersKeepBase
<1>5. CASE UNCHANGED vars
  BY <1>5 DEF vars, Base, TypeOK, Enough, Owed, JobsFit, Fits, Past
<1> QED BY <1>1, <1>2, <1>3, <1>4, <1>5 DEF Next

---------------------------------------------------------------------------
(* Questions and answers.                                                  *)

\* A turn stays what it is about, or is over.
Same(q) == /\ job'[q].space = job[q].space /\ job'[q].user = job[q].user
           /\ job'[q].question = job[q].question
Over(q) == job'[q].question = 0

\* Rows that go, with turns that stay or end, break no link of question and answer.
LEMMA FewerRows ==
  ASSUME Base, Rest, rows' \subseteq rows, own' \subseteq own, \A q \in Procs : Same(q) \/ Over(q)
  PROVE  Rest'
<1>1. \A r \in rows \union own : r.born # 0
  BY DEF Base, TypeOK, Row
<1>2. ItsQuestion'
  BY <1>1 DEF Rest, ItsQuestion, Same, Over
<1>3. OneTurnEach'
  <2>1. \A q \in Procs : job'[q].question # 0 => job'[q].question = job[q].question
    BY DEF Same, Over
  <2> QED BY <2>1 DEF Rest, OneTurnEach
<1>4. AnswersHaveQuestions'
  BY DEF Rest, AnswersHaveQuestions
<1> QED BY <1>2, <1>3, <1>4 DEF Rest

\* What every new row has: an id above all, and it is in nobody's question's place.
LEMMA NewRow ==
  ASSUME Base, NEW i, NEW s, NEW kind, NEW turn, Insert(i, s, kind, turn)
  PROVE  LET new == [id |-> i, born |-> born + 1, space |-> s, kind |-> kind, turn |-> turn]
         IN /\ rows' = rows \union {new} /\ own' \subseteq own \union {new}
            /\ new.id = i /\ new.born = born + 1 /\ new.space = s /\ new.kind = kind /\ new.turn = turn
            /\ \A r \in rows : r.id < i
            /\ \A r \in rows \union own : r.born # born + 1 /\ r.born # 0 /\ r.turn # born + 1
            /\ \A q \in Procs : job[q].question # born + 1
            /\ born + 1 # 0
<1>1. born \in Nat
  BY DEF Base, TypeOK
<1>2. \A r \in rows \union own : r.born \in Nat /\ r.born # 0 /\ r.turn \in Nat
  BY DEF Base, TypeOK, Row
<1>3. \A q \in Procs : job[q].question \in Nat
  BY DEF Base, TypeOK, Job
<1>4. /\ \A r \in rows \union own : r.born # born + 1 /\ r.turn # born + 1
      /\ \A q \in Procs : job[q].question # born + 1
  BY <1>1, <1>2, <1>3 DEF Base, Past
<1> QED BY <1>1, <1>2, <1>4 DEF Insert, NextId, Without

\* A filed row is nobody's question and nobody's answer.
LEMMA FiledRow ==
  ASSUME Base, Rest, NEW i, NEW s, NEW turn, Insert(i, s, "filed", turn),
         \A q \in Procs : Same(q)
  PROVE  Rest'
<1> DEFINE new == [id |-> i, born |-> born + 1, space |-> s, kind |-> "filed",
                   turn |-> turn]
<1>1. /\ rows' = rows \union {new} /\ own' \subseteq own \union {new}
      /\ new.kind = "filed" /\ new.born = born + 1
      /\ \A r \in rows : r.turn # born + 1
      /\ \A q \in Procs : job[q].question # born + 1
  BY NewRow
<1> HIDE DEF new
<1>2. ItsQuestion'
  BY <1>1 DEF Rest, ItsQuestion, Same
<1>3. OneTurnEach'
  BY <1>1 DEF Rest, OneTurnEach, Same
<1>4. AnswersHaveQuestions'
  BY <1>1 DEF Rest, AnswersHaveQuestions
<1> QED BY <1>2, <1>3, <1>4 DEF Rest

\* A question is filed by a turn that had none.
LEMMA QuestionRow ==
  ASSUME Base, Rest, NEW p \in Procs, NEW i,
         Insert(i, job[p].space, "user", born + 1),
         \A q \in Procs : q # p => Same(q),
         job'[p].space = job[p].space, job'[p].user = i, job'[p].question = born + 1
  PROVE  Rest'
<1> DEFINE new == [id |-> i, born |-> born + 1, space |-> job[p].space, kind |-> "user",
                   turn |-> born + 1]
<1>1. /\ rows' = rows \union {new} /\ own' \subseteq own \union {new}
      /\ new.kind = "user" /\ new.born = born + 1 /\ new.id = i /\ new.space = job[p].space
      /\ \A r \in rows \union own : r.born # born + 1 /\ r.turn # born + 1
      /\ \A q \in Procs : job[q].question # born + 1
  BY NewRow
<1> HIDE DEF new
<1>2. ItsQuestion'
  <2> SUFFICES ASSUME NEW q \in Procs, NEW r \in rows' \union own', r.born = job'[q].question
               PROVE  r.id = job'[q].user /\ r.kind = "user" /\ r.space = job'[q].space
    BY DEF ItsQuestion
  <2>1. CASE q = p
    BY <1>1, <2>1
  <2>2. CASE q # p
    BY <1>1, <2>2 DEF Rest, ItsQuestion, Same
  <2> QED BY <2>1, <2>2
<1>3. OneTurnEach'
  <2>1. \A q, o \in Procs : q # o /\ job'[q].question # 0 => job'[q].question # job'[o].question
    BY <1>1 DEF Rest, OneTurnEach, Same
  <2>2. \A q \in Procs : \A r \in rows' :
          r.kind = "assistant" /\ job'[q].question # 0 => r.turn # job'[q].question
    BY <1>1 DEF Rest, OneTurnEach, Same
  <2> QED BY <2>1, <2>2 DEF OneTurnEach
<1>4. AnswersHaveQuestions'
  BY <1>1 DEF Rest, AnswersHaveQuestions
<1> QED BY <1>2, <1>3, <1>4 DEF Rest

\* A question whose turn ends in its filing is a row like any other.
LEMMA LostRow ==
  ASSUME Base, Rest, NEW p \in Procs, NEW i, NEW s, Insert(i, s, "user", born + 1),
         \A q \in Procs : q # p => Same(q), Over(p)
  PROVE  Rest'
<1> DEFINE new == [id |-> i, born |-> born + 1, space |-> s, kind |-> "user",
                   turn |-> born + 1]
<1>1. /\ rows' = rows \union {new} /\ own' \subseteq own \union {new}
      /\ new.kind = "user" /\ new.born = born + 1
      /\ \A r \in rows \union own : r.born # 0 /\ r.turn # born + 1
      /\ \A q \in Procs : job[q].question # born + 1
      /\ born + 1 # 0
  BY NewRow
<1> HIDE DEF new
<1>2. ItsQuestion'
  <2> SUFFICES ASSUME NEW q \in Procs, NEW r \in rows' \union own', r.born = job'[q].question
               PROVE  r.id = job'[q].user /\ r.kind = "user" /\ r.space = job'[q].space
    BY DEF ItsQuestion
  <2>1. q # p
    BY <1>1 DEF Over
  <2> QED BY <1>1, <2>1 DEF Rest, ItsQuestion, Same
<1>3. OneTurnEach'
  <2>1. \A q \in Procs : job'[q].question # 0 => q # p /\ job'[q].question = job[q].question
    BY DEF Same, Over
  <2> QED BY <1>1, <2>1 DEF Rest, OneTurnEach
<1>4. AnswersHaveQuestions'
  BY <1>1 DEF Rest, AnswersHaveQuestions
<1> QED BY <1>2, <1>3, <1>4 DEF Rest

\* An answer is filed by a turn that ends with it, to its own question.
LEMMA AnswerRow ==
  ASSUME Base, Rest, NEW p \in Procs, NEW i,
         Insert(i, job[p].space, "assistant", job[p].question),
         \A q \in Procs : q # p => Same(q), Over(p), job[p].question # 0
  PROVE  Rest'
<1> DEFINE new == [id |-> i, born |-> born + 1, space |-> job[p].space, kind |-> "assistant",
                   turn |-> job[p].question]
<1>1. /\ rows' = rows \union {new} /\ own' \subseteq own \union {new}
      /\ new.kind = "assistant" /\ new.born = born + 1 /\ new.id = i /\ new.space = job[p].space
      /\ new.turn = job[p].question
      /\ \A r \in rows : r.id < i
      /\ \A r \in rows \union own : r.born # 0 /\ r.turn # born + 1
      /\ \A q \in Procs : job[q].question # born + 1
      /\ born + 1 # 0
  BY NewRow
<1> HIDE DEF new
<1>2. ItsQuestion'
  <2> SUFFICES ASSUME NEW q \in Procs, NEW r \in rows' \union own', r.born = job'[q].question
               PROVE  r.id = job'[q].user /\ r.kind = "user" /\ r.space = job'[q].space
    BY DEF ItsQuestion
  <2>1. q # p
    BY <1>1 DEF Over
  <2> QED BY <1>1, <2>1 DEF Rest, ItsQuestion, Same
<1>3. OneTurnEach'
  <2>1. \A q \in Procs : job'[q].question # 0 => q # p /\ job'[q].question = job[q].question
    BY DEF Same, Over
  <2>2. \A q \in Procs : q # p => job[q].question # job[p].question
    BY DEF Rest, OneTurnEach
  <2> QED BY <1>1, <2>1, <2>2 DEF Rest, OneTurnEach
<1>4. AnswersHaveQuestions'
  <2> SUFFICES ASSUME NEW r \in rows', r.kind = "assistant"
               PROVE  /\ r.turn # 0
                      /\ \A q \in rows' : q.born = r.turn => q.kind = "user" /\ q.space = r.space /\ q.id < r.id
                      /\ \A s \in rows' : s.kind = "assistant" /\ s.turn = r.turn => s = r
    BY DEF AnswersHaveQuestions
  <2>1. \A s \in rows : s.kind = "assistant" => s.turn # job[p].question
    BY DEF Rest, OneTurnEach
  <2>2. CASE r \in rows
    <3>1. new.born # r.turn /\ new.turn # r.turn
      BY <1>1, <2>1, <2>2
    <3> QED BY <1>1, <2>2, <3>1 DEF Rest, AnswersHaveQuestions
  <2>3. CASE r = new
    <3>1. \A q \in rows : q.born = job[p].question => q.kind = "user" /\ q.space = job[p].space
      BY DEF Rest, ItsQuestion
    <3> QED BY <1>1, <2>1, <2>3, <3>1
  <2> QED BY <1>1, <2>2, <2>3
<1> QED BY <1>2, <1>3, <1>4 DEF Rest

\* A turn that ends without an answer.
LEMMA EndKeepsRest == ASSUME Base, Rest, NEW p \in Procs, End(p), UNCHANGED table PROVE Rest'
<1>1. \A q \in Procs : Same(q) \/ Over(q)
  BY Ended DEF Base, Same, Over, NoJob
<1> QED BY <1>1, FewerRows DEF table

\* Every step of a turn keeps question and answer linked.
LEMMA StepKeepsRest == ASSUME Base, Rest, NEW p \in Procs, Ask(p) \/ Step(p) PROVE Rest'
<1>0. TypeOK /\ job[p] \in Job
  BY DEF Base, TypeOK
<1>1. CASE Ask(p) \/ Route(p)
  <2>1. rows' = rows /\ own' = own
    BY <1>1 DEF Ask, Route, table
  <2>2. \A q \in Procs : q # p => Same(q)
    BY <1>0, <1>1 DEF Ask, Route, Put, TypeOK, Same
  <2>3. job'[p].question = 0
    <3>1. CASE Ask(p)
      BY <1>0, <3>1 DEF Ask, Put, NoJob, TypeOK
    <3>2. CASE Route(p)
      <4>1. job[p].question = 0
        BY <3>2 DEF Route, Base, JobsFit, Fits
      <4> QED BY <1>0, <3>2, <4>1 DEF Route, Put, TypeOK, Job
    <3> QED BY <1>1, <3>1, <3>2
  <2>4. \A q \in Procs : Same(q) \/ Over(q)
    BY <2>2, <2>3 DEF Over
  <2> QED BY <2>1, <2>4, FewerRows
<1>2. CASE StoreQuestion(p)
  <2>1. CASE Exists(job[p].space)
    <3>1. PICK i \in 1 .. MaxBorn :
            /\ Insert(i, job[p].space, "user", born + 1)
            /\ Put(p, [job[p] EXCEPT !.user = i, !.question = born + 1]) \/ End(p)
      BY <1>2, <2>1 DEF StoreQuestion
    <3>2. CASE Put(p, [job[p] EXCEPT !.user = i, !.question = born + 1])
      <4>1. /\ \A q \in Procs : q # p => Same(q)
            /\ job'[p].space = job[p].space /\ job'[p].user = i /\ job'[p].question = born + 1
        BY <1>0, <3>2 DEF Put, TypeOK, Job, Same
      <4> QED BY <3>1, <4>1, QuestionRow
    <3>3. CASE End(p)
      <4>1. (\A q \in Procs : q # p => Same(q)) /\ Over(p)
        BY <1>0, <3>3, Ended DEF Same, Over, NoJob
      <4> QED BY <3>1, <4>1, LostRow
    <3> QED BY <3>1, <3>2, <3>3
  <2>2. CASE ~Exists(job[p].space)
    BY <1>2, <2>2, EndKeepsRest DEF StoreQuestion
  <2> QED BY <2>1, <2>2
<1>3. CASE Retrieve(p) \/ Recall(p) \/ ReplyOffline(p)
  <2>1. rows' = rows /\ own' = own /\ job' = job
    BY <1>3 DEF Retrieve, Recall, ReplyOffline, table
  <2>2. \A q \in Procs : Same(q)
    BY <2>1 DEF Same
  <2> QED BY <2>1, <2>2, FewerRows
<1>4. CASE Reply(p)
  <2>1. job' = job \/ \E k \in 1 .. MaxCalls : Put(p, [job[p] EXCEPT !.calls = k])
    BY <1>4, BoundsAreNat DEF Reply, Handed
  <2>2. \A q \in Procs : Same(q)
    BY <1>0, <2>1 DEF Put, TypeOK, Job, Same
  <2> QED BY <1>4, <2>2, FewerRows DEF Reply, table
<1>5. CASE ModelFails(p)
  BY <1>5, EndKeepsRest DEF ModelFails
<1>6. CASE RunTool(p)
  <2>1. PICK l \in {"call", "tools"}, j \in Job :
          /\ Put(p, j)
          /\ j.space = job[p].space /\ j.user = job[p].user /\ j.question = job[p].question
    BY <1>6, ToolDone
  <2>2. \A q \in Procs : Same(q)
    BY <1>0, <2>1, PutIn DEF Same
  <2>3. CASE UNCHANGED table
    BY <2>2, <2>3, FewerRows DEF table
  <2>4. CASE WriteNote(p) /\ ~UNCHANGED table
    <3>1. PICK i \in 1 .. MaxBorn :
            Insert(i, job[p].space, "filed", job[p].question)
      BY <2>4 DEF WriteNote
    <3> QED BY <2>2, <3>1, FiledRow
  <2> QED BY <1>6, <2>3, <2>4 DEF RunTool
<1>7. CASE StoreAnswer(p)
  <2>1. CASE Exists(job[p].space)
    <3>1. PICK i \in 1 .. MaxBorn :
            Insert(i, job[p].space, "assistant", job[p].question)
      BY <1>7, <2>1 DEF StoreAnswer
    <3>2. (\A q \in Procs : q # p => Same(q)) /\ Over(p)
      BY <1>0, <1>7, Ended DEF StoreAnswer, Same, Over, NoJob
    <3>3. job[p].question # 0
      BY <1>7 DEF StoreAnswer, Base, JobsFit, Fits
    <3> QED BY <3>1, <3>2, <3>3, AnswerRow
  <2>2. CASE ~Exists(job[p].space)
    BY <1>7, <2>2, EndKeepsRest DEF StoreAnswer
  <2> QED BY <2>1, <2>2
<1> QED BY <1>1, <1>2, <1>3, <1>4, <1>5, <1>6, <1>7 DEF Step

\* What happens beside the turns keeps question and answer linked.
LEMMA OthersKeepRest == ASSUME Base, Rest, Others PROVE Rest'
<1>1. \A q \in Procs : Same(q)
  BY DEF Others, FileItem, DeleteItem, ClearMessages, DeleteAgent, CreateAgent, Delete, Same
<1>2. CASE FileItem
  <2>1. PICK i \in 1 .. MaxBorn, s \in roster \union {Nobody} :
          Insert(i, s, "filed", 0)
    BY <1>2 DEF FileItem
  <2> QED BY <1>1, <2>1, FiledRow
<1>3. CASE ~FileItem
  <2>1. rows' \subseteq rows /\ own' \subseteq own
    BY <1>3 DEF Others, DeleteItem, ClearMessages, DeleteAgent, CreateAgent, Delete
  <2> QED BY <1>1, <2>1, FewerRows
<1> QED BY <1>2, <1>3

---------------------------------------------------------------------------
(* What the model is shown.                                                *)

\* What p's step shows is p's to see.
Seen(p) ==
  /\ \A x \in shown[p] :
       x.via # "all" => \/ x.space = job[p].space
                        \/ job[p].space = Nobody /\ x.via \in {"context", "search"}
  /\ \A x \in shown[p] : x.via \in {"context", "history"} => x.born # job[p].question

\* What is said of all that is shown, said turn by turn.
LEMMA SightIsSeen == Sight <=> \A p \in Procs : Seen(p)
BY DEF Sight, Seen, StaysInItsArchive, NotItsOwnContext

\* A step of one turn shows the others nothing new.
LEMMA OneTurnSees ==
  ASSUME Sight, NEW p \in Procs, Seen(p)',
         \A q \in Procs : q # p => shown'[q] = shown[q] /\ job'[q] = job[q]
  PROVE  Sight'
<1>1. \A q \in Procs : q # p => Seen(q)'
  BY SightIsSeen DEF Seen
<1>2. \A q \in Procs : Seen(q)'
  BY <1>1
<1> QED BY <1>2 DEF Sight, Seen, StaysInItsArchive, NotItsOwnContext

\* The question's row is left out of a turn's context and history, whatever the rows
\* and ids are by then.
LEMMA NotItsQuestion ==
  ASSUME Rest, NEW p \in Procs, NEW via, NEW R \in SUBSET (rows \union own)
  PROVE  \A x \in As(via, NotIts(p, R)) :
           /\ x.via = via /\ x.born # job[p].question
           /\ \E r \in R : x.space = r.space
BY DEF As, NotIts, Rest, ItsQuestion

\* A step that shows nothing.
LEMMA OneTurnSeesNothing ==
  ASSUME Sight, NEW p \in Procs, shown'[p] = {},
         \A q \in Procs : q # p => shown'[q] = shown[q] /\ job'[q] = job[q]
  PROVE  Sight'
BY OneTurnSees DEF Seen

\* A turn that ends is shown nothing.
LEMMA EndKeepsSight == ASSUME Base, Sight, NEW p \in Procs, End(p) PROVE Sight'
<1>1. /\ shown'[p] = {}
      /\ \A q \in Procs : q # p => shown'[q] = shown[q] /\ job'[q] = job[q]
  BY Ended DEF Base
<1> QED BY <1>1, OneTurnSeesNothing

\* Every step of a turn shows it what it may be shown.
LEMMA StepKeepsSight == ASSUME Base, Rest, Sight, NEW p \in Procs, Ask(p) \/ Step(p) PROVE Sight'
<1>0. TypeOK /\ job[p] \in Job
  BY DEF Base, TypeOK
<1>1. CASE Ask(p) \/ Route(p)
  <2>1. shown' = shown /\ shown[p] = {}
    BY <1>1 DEF Ask, Route, Base, JobsFit, Fits
  <2>2. \A q \in Procs : q # p => job'[q] = job[q]
    BY <1>0, <1>1 DEF Ask, Route, Put, TypeOK
  <2> QED BY <2>1, <2>2, OneTurnSeesNothing
<1>2. CASE StoreQuestion(p)
  <2>1. CASE End(p)
    BY <2>1, EndKeepsSight
  <2>2. CASE ~End(p)
    <3>1. shown' = shown /\ shown[p] = {}
      BY <1>2, <2>2 DEF StoreQuestion, Base, JobsFit, Fits
    <3>2. \A q \in Procs : q # p => job'[q] = job[q]
      BY <1>0, <1>2, <2>2 DEF StoreQuestion, Put, TypeOK
    <3> QED BY <3>1, <3>2, OneTurnSeesNothing
  <2> QED BY <2>1, <2>2
<1>3. CASE Retrieve(p)
  <2>1. PICK hits \in Finds(job[p].space) : Show(p, "context", NotIts(p, hits))
    BY <1>3 DEF Retrieve
  <2>2. /\ hits \in SUBSET (rows \union own)
        /\ job[p].space # Nobody => \A r \in hits : r.space = job[p].space
    BY DEF Finds, Scope, OwnOf
  <2>3. NotIts(p, hits) \in SUBSET (rows \union own) /\ "context" \in Vias /\ job' = job
    BY <1>3, <2>2 DEF NotIts, Vias, Retrieve
  <2>4. /\ shown'[p] = As("context", NotIts(p, hits))
        /\ \A q \in Procs : q # p => shown'[q] = shown[q]
    BY <1>0, <2>1, <2>3, ShowsRows
  <2>5. \A x \in shown'[p] : x.via = "context" /\ x.born # job[p].question
                             /\ (job[p].space # Nobody => x.space = job[p].space)
    BY <2>2, <2>4, NotItsQuestion
  <2>6. Seen(p)'
    BY <2>3, <2>5 DEF Seen
  <2> QED BY <2>3, <2>4, <2>6, OneTurnSees
<1>4. CASE Recall(p)
  <2> DEFINE R == Messages(job[p].space, History)
  <2>1. /\ R \in SUBSET (rows \union own) /\ \A r \in R : r.space = job[p].space
        /\ Show(p, "history", NotIts(p, R))
    BY <1>4 DEF Recall, Messages, In
  <2> HIDE DEF R
  <2>2. NotIts(p, R) \in SUBSET (rows \union own) /\ "history" \in Vias /\ job' = job
    BY <1>4, <2>1 DEF NotIts, Vias, Recall
  <2>3. /\ shown'[p] = As("history", NotIts(p, R))
        /\ \A q \in Procs : q # p => shown'[q] = shown[q]
    BY <1>0, <2>1, <2>2, ShowsRows
  <2>4. \A x \in shown'[p] : x.born # job[p].question /\ x.space = job[p].space
    BY <2>1, <2>3, NotItsQuestion
  <2>5. Seen(p)'
    BY <2>2, <2>4 DEF Seen
  <2> QED BY <2>2, <2>3, <2>5, OneTurnSees
<1>5. CASE Reply(p)
  <2>1. job' = job \/ \E k \in 1 .. MaxCalls : Put(p, [job[p] EXCEPT !.calls = k])
    BY <1>5, BoundsAreNat DEF Reply, Handed
  <2>2. \A q \in Procs : q # p => job'[q] = job[q]
    BY <1>0, <2>1 DEF Put, TypeOK
  <2>3. shown'[p] = {} /\ \A q \in Procs : q # p => shown'[q] = shown[q]
    BY <1>0, <1>5, ShowsNone DEF Reply
  <2> QED BY <2>2, <2>3, OneTurnSeesNothing
<1>6. CASE ReplyOffline(p)
  <2>1. PICK hits \in Finds(Nobody) : Show(p, "all", hits)
    BY <1>6 DEF ReplyOffline
  <2>2. hits \in SUBSET (rows \union own) /\ "all" \in Vias /\ job' = job
    BY <1>6 DEF Finds, Scope, Vias, ReplyOffline
  <2>3. /\ shown'[p] = As("all", hits)
        /\ \A q \in Procs : q # p => shown'[q] = shown[q]
    BY <1>0, <2>1, <2>2, ShowsRows
  <2>4. \A x \in shown'[p] : x.via = "all"
    BY <2>3 DEF As
  <2>5. Seen(p)'
    BY <2>4 DEF Seen
  <2> QED BY <2>2, <2>3, <2>5, OneTurnSees
<1>7. CASE RunTool(p)
  <2>1. PICK l \in {"call", "tools"}, j \in Job : Put(p, j) /\ j.space = job[p].space
    BY <1>7, ToolDone
  <2>2. job'[p].space = job[p].space /\ \A q \in Procs : q # p => job'[q] = job[q]
    BY <1>0, <2>1, PutIn
  <2>3. Seen(p)'
    BY <1>0, <1>7, <2>2, ToolShows DEF Seen
  <2> QED BY <1>0, <1>7, <2>2, <2>3, ToolShows, OneTurnSees
<1>8. CASE ModelFails(p) \/ StoreAnswer(p)
  BY <1>8, EndKeepsSight DEF ModelFails, StoreAnswer
<1> QED BY <1>1, <1>2, <1>3, <1>4, <1>5, <1>6, <1>7, <1>8 DEF Step

\* An empty archive with no turn has the invariant.
LEMMA InitHasIInv == Init => IInv
<1> SUFFICES ASSUME Init PROVE IInv
  OBVIOUS
<1>1. Rest
  BY DEF Init, Rest, ItsQuestion, OneTurnEach, AnswersHaveQuestions, NoJob
<1>2. Sight
  BY DEF Init, Sight, StaysInItsArchive, NotItsOwnContext
<1> QED BY <1>1, <1>2, InitHasBase DEF IInv

\* Every step keeps the invariant.
LEMMA NextKeepsIInv == IInv /\ [Next]_vars => IInv'
<1> SUFFICES ASSUME IInv, [Next]_vars PROVE IInv'
  OBVIOUS
<1> USE DEF IInv
<1>1. Base'
  BY NextKeepsBase
<1>2. ASSUME NEW p \in Procs, Ask(p) \/ Step(p) PROVE Rest' /\ Sight'
  BY <1>2, StepKeepsRest, StepKeepsSight
<1>3. ASSUME NEW p \in Procs, Abandon(p) PROVE Rest' /\ Sight'
  BY <1>3, EndKeepsRest, EndKeepsSight DEF Abandon
<1>4. ASSUME Others PROVE Rest' /\ Sight'
  <2>1. shown' = shown /\ job' = job
    BY <1>4 DEF Others, FileItem, DeleteItem, ClearMessages, DeleteAgent, CreateAgent, Delete
  <2>2. Sight'
    BY <2>1 DEF Sight, StaysInItsArchive, NotItsOwnContext
  <2> QED BY <1>4, <2>2, OthersKeepRest
<1>5. ASSUME UNCHANGED vars PROVE Rest' /\ Sight'
  BY <1>5 DEF vars, Rest, Sight, ItsQuestion, OneTurnEach, AnswersHaveQuestions,
              StaysInItsArchive, NotItsOwnContext
<1> QED BY <1>1, <1>2, <1>3, <1>4, <1>5 DEF Next

\* The invariant holds throughout.
LEMMA TurnIInv == Spec => []IInv
BY InitHasIInv, NextKeepsIInv, PTL DEF Spec

---------------------------------------------------------------------------
(* The theorems.                                                           *)

\* What a turn keeps in its locals, and what is in the table, has its type; the
\* rows it must still file fit.
THEOREM TurnTypeOK == Spec => []TypeOK
<1>1. IInv => TypeOK
  BY DEF IInv, Base
<1> QED BY <1>1, TurnIInv, PTL

\* However tables change between its statements, the model of a robot's turn is shown
\* that robot's rows only, but for what it asks of every archive by name.
THEOREM TurnStaysInItsArchive == Spec => []StaysInItsArchive
<1>1. IInv => StaysInItsArchive
  BY DEF IInv, Sight
<1> QED BY <1>1, TurnIInv, PTL

\* The question is not context or history for itself, though a turn tells its row by an
\* id that may have been used again.
THEOREM TurnNotItsOwnContext == Spec => []NotItsOwnContext
<1>1. IInv => NotItsOwnContext
  BY DEF IInv, Sight
<1> QED BY <1>1, TurnIInv, PTL

\* An answer is in its question's transcript, below it, and is the only one.
THEOREM TurnAnswersHaveQuestions == Spec => []AnswersHaveQuestions
<1>1. IInv => AnswersHaveQuestions
  BY DEF IInv, Rest
<1> QED BY <1>1, TurnIInv, PTL
=============================================================================
