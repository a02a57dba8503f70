---------------------------- MODULE SessionProofs ----------------------------
(***************************************************************************)
(* The properties of module Session, for any transcripts, prompts,         *)
(* tokenizer, layers, chunk and bounds: that between turns the caches hold *)
(* what they are taken to hold, and that a session implements module Chat. *)
(***************************************************************************)
EXTENDS Session, SequenceTheorems, WellFoundedInduction, TLAPS

\* The least number principle.
LEMMA Least ==
  ASSUME NEW T, T \subseteq Nat, T # {}
  PROVE  \E n \in T : \A m \in T : n <= m
<1> DEFINE R == {ss \in Nat \X Nat : ss[1] < ss[2]}
<1>1. IsWellFoundedOn(R, Nat)
  BY NatLessThanWellFounded DEF OpToRel
<1> HIDE DEF R
<1>2. PICK n \in T : \A m \in T : <<m, n>> \notin R
  BY <1>1, WFMin
<1>3. \A m \in T : ~(m < n)
  BY <1>2 DEF R
<1> QED BY <1>3

---------------------------------------------------------------------------
(* Prompts and messages.                                                   *)

\* What the options of a turn are.
LEMMA OptionsTyped == ASSUME NEW o \in Options PROVE o.think \in BOOLEAN
BY OptionsAreParams DEF Params

\* A system's and a user's words are messages.
LEMMA PiecesTyped ==
  /\ \A s \in Systems : System(s) \in Message
  /\ \A u \in Users : User(u) \in Message
<1>1. \A s \in Systems : System(s) \in Message
  <2> TAKE s \in Systems
  <2>1. <<s>> \in Seq(Signs) /\ <<>> \in Seq(Signs)
    BY DEF Signs
  <2> QED BY <2>1 DEF System, Message, Roles
<1>2. \A u \in Users : User(u) \in Message
  <2> TAKE u \in Users
  <2>1. <<u>> \in Seq(Signs) /\ <<>> \in Seq(Signs)
    BY DEF Signs
  <2> QED BY <2>1 DEF User, Message, Roles
<1> QED BY <1>1, <1>2

\* A piece of a sequence is of its type.
LEMMA PieceTyped ==
  ASSUME NEW S, NEW s \in Seq(S), NEW i \in Nat \ {0}, NEW j \in 0 .. Len(s)
  PROVE  SubSeq(s, i, j) \in Seq(S)
<1>1. \A k \in i .. j : s[k] \in S
  <2> TAKE k \in i .. j
  <2>1. k \in 1 .. Len(s)
    BY LenProperties
  <2> QED BY <2>1, ElementOfSeq
<1>2. i \in Int /\ j \in Int
  OBVIOUS
<1> QED BY <1>1, <1>2, SubSeqProperties

\* A text without the blanks around it is a text.
LEMMA TrimTyped ==
  ASSUME NEW S, NEW s \in Seq(S)
  PROVE  Trim(s) \in Seq(S)
<1> DEFINE I == Solid(s)
<1>0. Len(s) \in Nat
  BY LenProperties
<1>1. I \subseteq 1 .. Len(s)
  BY DEF Solid
<1>2. CASE I = {}
  <2>1. Trim(s) = <<>>
    BY <1>2 DEF Trim
  <2> QED BY <2>1
<1>3. CASE I # {}
  <2>1. Min(I) \in I
    <3>1. I \subseteq Nat
      BY <1>0, <1>1
    <3> HIDE DEF I
    <3>2. \E n \in I : \A m \in I : n <= m
      BY <1>3, <3>1, Least
    <3> QED BY <3>2, Zenon DEF Min
  <2>2. Max(I) \in I
    <3> DEFINE J == {n \in Nat : \E m \in I : n = Len(s) - m}
    <3>1. J # {} /\ J \subseteq Nat
      <4>1. PICK m \in I : TRUE
        BY <1>3
      <4>2. Len(s) - m \in Nat
        BY <1>0, <1>1, <4>1
      <4> QED BY <4>1, <4>2
    <3> HIDE DEF J
    <3>2. PICK n \in J : \A m \in J : n <= m
      BY <3>1, Least
    <3>3. PICK x \in I : n = Len(s) - x
      BY <3>2 DEF J
    <3>4. \A y \in I : y <= x
      <4> TAKE y \in I
      <4>1. Len(s) - y \in J /\ x \in 1 .. Len(s) /\ y \in 1 .. Len(s)
        BY <1>0, <1>1, <3>3 DEF J
      <4>2. n <= Len(s) - y
        BY <3>2, <4>1
      <4> QED BY <1>0, <3>3, <4>1, <4>2
    <3> HIDE DEF I
    <3>5. \E n_1 \in I : \A m \in I : n_1 >= m
      <4>1. \A m \in I : x >= m
        BY <3>4
      <4> QED BY <3>3, <4>1
    <3> QED BY <3>5, Zenon DEF Max
  <2>3. Trim(s) = SubSeq(s, Min(I), Max(I))
    BY <1>3 DEF Trim
  <2>4. Min(I) \in Nat \ {0} /\ Max(I) \in 0 .. Len(s)
    BY <1>0, <1>1, <2>1, <2>2
  <2> HIDE DEF I
  <2> QED BY <2>3, <2>4, PieceTyped
<1> QED BY <1>2, <1>3

\* Where the reasoning ends, or 0.
Close(out) == SelectInSeq(out, LAMBDA t : t = "</think>")

\* Where the reasoning of a reply ends, it ends.
LEMMA CloseAt ==
  ASSUME NEW S, NEW out \in Seq(S)
  PROVE  \/ Close(out) = 0
         \/ Close(out) \in 1 .. Len(out) /\ out[Close(out)] = "</think>"
<1> DEFINE I == {i \in 1 .. Len(out) : out[i] = "</think>"}
<1>1. Close(out) = IF I # {} THEN Min(I) ELSE 0
  BY DEF Close, SelectInSeq
<1>2. I # {} => Min(I) \in I
  <2> SUFFICES ASSUME I # {} PROVE Min(I) \in I
    OBVIOUS
  <2>1. I \subseteq Nat
    OBVIOUS
  <2> HIDE DEF I
  <2>2. \E n \in I : \A m \in I : n <= m
    BY <2>1, Least
  <2> QED BY <2>2, Zenon DEF Min
<1> QED BY <1>1, <1>2

\* The message a reply becomes, whether or not it comes to the end of its reasoning.
LEMMA AssistantTyped ==
  ASSUME NEW out \in Seq(Said), NEW think \in BOOLEAN
  PROVE  Assistant(out, think) \in Message
<1> DEFINE k == Close(out)
           th == IF ~think THEN <<>> ELSE Trim(IF k = 0 THEN out ELSE SubSeq(out, 1, k - 1))
           tx == IF ~think THEN Trim(out)
                 ELSE IF k = 0 THEN <<>> ELSE Trim(SubSeq(out, k + 1, Len(out)))
<1>1. out \in Seq(Signs)
  <2>1. Said \subseteq Signs
    BY DEF Said, Signs, Marks
  <2> QED BY <2>1, SeqMonotonic
<1>2. Assistant(out, think) = [role |-> "assistant", thought |-> th, text |-> tx]
  BY Zenon DEF Assistant, Close
<1>3. Len(out) \in Nat /\ <<>> \in Seq(Signs) /\ Trim(out) \in Seq(Signs)
  BY <1>1, TrimTyped, LenProperties
<1>4. ASSUME k # 0 PROVE SubSeq(out, 1, k - 1) \in Seq(Signs) /\ SubSeq(out, k + 1, Len(out)) \in Seq(Signs)
  <2>1. k \in 1 .. Len(out)
    BY <1>4, CloseAt
  <2> HIDE DEF k
  <2>2. 1 \in Nat \ {0} /\ k - 1 \in 0 .. Len(out) /\ k + 1 \in Nat \ {0} /\ Len(out) \in 0 .. Len(out)
    BY <1>3, <2>1
  <2> QED BY <1>1, <2>2, PieceTyped
<1> HIDE DEF k
<1>5. th \in Seq(Signs) /\ tx \in Seq(Signs)
  BY <1>1, <1>3, <1>4, TrimTyped
<1> HIDE DEF th, tx
<1> QED BY <1>2, <1>5 DEF Message, Roles

\* Named, so that the provers take the instance that is asked for.
Assocs(s, t, u) == (s \o t) \o u = s \o (t \o u)

\* Concatenation of tokens, in the form the provers take.
LEMMA Algebra == \A s, t, u \in Seq(Tokens) : Assocs(s, t, u)
BY ConcatAssociative, Z3T(30) DEF Assocs

---------------------------------------------------------------------------
(* Parts of a sequence.                                                    *)

\* A piece of a sequence and what is before it.
LEMMA Parts ==
  ASSUME NEW S, NEW s \in Seq(S), NEW i \in 0 .. Len(s), NEW j \in i .. Len(s)
  PROVE  /\ SubSeq(s, i + 1, j) \in Seq(S) /\ Len(SubSeq(s, i + 1, j)) = j - i
         /\ SubSeq(s, 1, i) \in Seq(S) /\ Len(SubSeq(s, 1, i)) = i
         /\ SubSeq(s, 1, i) \o SubSeq(s, i + 1, j) = SubSeq(s, 1, j)
         /\ SubSeq(s, 1, 0) = <<>> /\ SubSeq(s, 1, Len(s)) = s
<1>0. Len(s) \in Nat /\ i \in Nat /\ j \in Nat /\ i <= j /\ j <= Len(s) /\ \A k \in 1 .. Len(s) : s[k] \in S
  BY LenProperties, ElementOfSeq
<1>1. SubSeq(s, i + 1, j) \in Seq(S) /\ Len(SubSeq(s, i + 1, j)) = j - i
  <2>1. i + 1 \in Int /\ j \in Int /\ \A k \in i + 1 .. j : s[k] \in S
    BY <1>0
  <2>2. SubSeq(s, i + 1, j) \in Seq(S) /\ Len(SubSeq(s, i + 1, j)) = IF i + 1 <= j THEN j - (i + 1) + 1 ELSE 0
    BY <2>1, SubSeqProperties
  <2> QED BY <1>0, <2>2
<1>2. SubSeq(s, 1, i) \in Seq(S) /\ Len(SubSeq(s, 1, i)) = i
  <2>1. 1 \in Int /\ i \in Int /\ \A k \in 1 .. i : s[k] \in S
    BY <1>0
  <2>2. SubSeq(s, 1, i) \in Seq(S) /\ Len(SubSeq(s, 1, i)) = IF 1 <= i THEN i - 1 + 1 ELSE 0
    BY <2>1, SubSeqProperties
  <2> QED BY <1>0, <2>2
<1>3. SubSeq(s, 1, i) \o SubSeq(s, i + 1, j) = SubSeq(s, 1, j)
  <2>1. 1 \in 1 .. Len(s) + 1 /\ i \in 1 - 1 .. Len(s) /\ j \in i .. Len(s)
    BY <1>0
  <2> QED BY <2>1, ConcatAdjacentSubSeq
<1>4. SubSeq(s, 1, 0) = <<>>
  BY SubSeqEmpty
<1>5. SubSeq(s, 1, Len(s)) = s
  BY SubSeqFull
<1> QED BY <1>1, <1>2, <1>3, <1>4, <1>5

\* A sequence with one thing more, and what is in front of that.
LEMMA Ends ==
  ASSUME NEW S, NEW s \in Seq(S), NEW x \in S
  PROVE  /\ Append(s, x) \in Seq(S) /\ Append(s, x) # <<>> /\ Len(Append(s, x)) = Len(s) + 1
         /\ Front(Append(s, x)) = s /\ Last(Append(s, x)) = x
         /\ \A n \in 0 .. Len(s) : SubSeq(Append(s, x), 1, n) = SubSeq(s, 1, n)
<1> DEFINE a == Append(s, x)
<1>1. /\ a \in Seq(S) /\ a # <<>> /\ Len(a) = Len(s) + 1 /\ Len(s) \in Nat
      /\ \A i \in 1 .. Len(s) : a[i] = s[i]
      /\ a[Len(s) + 1] = x
  BY AppendProperties, LenProperties
<1> HIDE DEF a
<1>2. ASSUME NEW n \in 0 .. Len(s) PROVE SubSeq(a, 1, n) = SubSeq(s, 1, n)
  <2>1. /\ n \in Nat /\ 1 \in Int /\ n \in Int
        /\ \A i \in 1 .. n : s[i] \in S /\ a[i] \in S /\ a[i] = s[i]
    BY <1>1, ElementOfSeq
  <2>2. /\ SubSeq(a, 1, n) \in Seq(S) /\ Len(SubSeq(a, 1, n)) = n
        /\ \A i \in 1 .. n : SubSeq(a, 1, n)[i] = a[i]
    BY <2>1, SubSeqProperties
  <2>3. /\ SubSeq(s, 1, n) \in Seq(S) /\ Len(SubSeq(s, 1, n)) = n
        /\ \A i \in 1 .. n : SubSeq(s, 1, n)[i] = s[i]
    BY <2>1, SubSeqProperties
  <2> QED BY <2>1, <2>2, <2>3, SeqEqual
<1>3. Front(a) = s
  <2>1. SubSeq(a, 1, Len(s)) = SubSeq(s, 1, Len(s))
    BY <1>1, <1>2
  <2>2. SubSeq(s, 1, Len(s)) = s
    BY SubSeqFull
  <2>3. Len(a) - 1 = Len(s)
    BY <1>1
  <2> QED BY <2>1, <2>2, <2>3 DEF Front
<1>4. Last(a) = x
  BY <1>1 DEF Last
<1> QED BY <1>1, <1>2, <1>3, <1>4 DEF a

\* A sequence is its front and its last.
LEMMA FrontAndLast ==
  ASSUME NEW S, NEW s \in Seq(S), s # <<>>
  PROVE  /\ Front(s) \in Seq(S) /\ Last(s) \in S /\ Len(Front(s)) = Len(s) - 1
         /\ Front(s) \o <<Last(s)>> = s /\ Append(Front(s), Last(s)) = s
         /\ Len(s) \in Nat \ {0}
<1>1. PICK f \in Seq(S), x \in S : s = Append(f, x)
  BY SequenceEmptyOrAppend
<1>2. Front(s) = f /\ Last(s) = x /\ Len(s) = Len(f) + 1 /\ Len(f) \in Nat
  BY <1>1, Ends, LenProperties
<1>3. s = f \o <<x>>
  BY <1>1, AppendIsConcat
<1> QED BY <1>1, <1>2, <1>3

\* What is in front is of the same type.
LEMMA FrontTyped == ASSUME NEW S, NEW s \in Seq(S) PROVE Front(s) \in Seq(S)
<1>1. CASE s # <<>>
  BY <1>1, FrontAndLast
<1>2. CASE s = <<>>
  <2>1. Len(s) = 0
    BY <1>2
  <2>2. Front(s) = SubSeq(s, 1, 0 - 1)
    BY <2>1 DEF Front
  <2>3. SubSeq(s, 1, 0 - 1) = <<>>
    BY SubSeqEmpty
  <2> QED BY <2>2, <2>3
<1> QED BY <1>1, <1>2

---------------------------------------------------------------------------
(* The inductive invariant.                                                *)

\* The flag is up exactly while a turn is under way, and a turn that has said nothing
\* has nothing to read back.
Control ==
  /\ busy <=> pc # "idle"
  /\ pc = "idle" => turn = NoTurn
  /\ pc # "idle" => turn.kind # "none" /\ turn.opts \in Options
  /\ pc \in {"feed", "fed"} => turn.out = <<>> /\ turn.given = <<>>
  /\ pc \in {"said", "decode"} => turn.out # <<>>

\* What a turn reads is the transcript with its question, and the question is still the
\* last of it.
Asks ==
  /\ turn.kind = "raw" => \E p \in Raw : turn.ids = Encode(p)
  /\ turn.kind = "send" => /\ turn.ids = Encode(Render(messages, turn.opts))
                          /\ \E u \in Users : messages = Append(Front(messages), User(u))

\* What the turn has had the model read so far.
Read == CASE pc = "idle"             -> fed
          [] pc \in {"feed", "fed"}  -> SubSeq(turn.ids, 1, turn.pos)
          [] pc = "sample"           -> turn.ids \o turn.out
          [] pc \in {"said", "decode"} -> turn.ids \o Front(turn.out)

\* Until a pass fails every layer holds that, fed says so, and the logits are of it.
Holds ==
  ~broken =>
    /\ \A l \in L : cache[l] = Read
    /\ pc \in {"sample", "said", "decode"} => fed = Read
    /\ pc \in {"fed", "sample"} => turn.logits = cache

\* Each token was sampled after the whole prompt and all the tokens before it.
GivenAll ==
  /\ Len(turn.given) = Len(turn.out)
  /\ ~broken => \A i \in 1 .. Len(turn.out), l \in L :
                   turn.given[i][l] = turn.ids \o SubSeq(turn.out, 1, i - 1)

IInv == TypeOK /\ Control /\ Asks /\ Holds /\ GivenAll

---------------------------------------------------------------------------
(* Types.                                                                  *)

TurnType == [kind : {"none", "send", "raw"}, opts : Params, ids : Seq(Tokens), pos : Nat,
             logits : Cache, out : Seq(Said), given : Seq(Cache)]

\* What the model says is tokens.
LEMMA SaidAreTokens == Said \subseteq Tokens /\ \A s \in Seq(Said) : s \in Seq(Tokens)
BY SaidInVocabulary, SeqMonotonic

\* A session with no turn and an engine with nothing read have the types.
LEMMA NoTurnTyped == NoTurn \in TurnType /\ Empty \in Cache
<1>1. Empty \in Cache
  BY DEF Empty, Cache
<1>2. <<>> \in Seq(Tokens) /\ <<>> \in Seq(Said) /\ <<>> \in Seq(Cache)
  OBVIOUS
<1> QED BY <1>1, <1>2 DEF NoTurn, TurnType, Params

\* What a turn starts from.
LEMMA Begins ==
  ASSUME TypeOK, NEW kind \in {"send", "raw"}, NEW o \in Options, NEW ids \in Seq(Tokens),
         Begin(kind, o, ids)
  PROVE  /\ turn' \in TurnType /\ turn'.kind = kind /\ turn'.opts = o /\ turn'.ids = ids
         /\ turn'.out = <<>> /\ turn'.given = <<>> /\ turn'.pos <= Len(ids)
         /\ fed' \in Seq(Tokens) /\ cache' \in Cache /\ broken' \in BOOLEAN
         /\ \/ Reuses(ids) /\ turn'.pos = Len(fed) /\ UNCHANGED engine
            \/ turn'.pos = 0 /\ ResetEngine
<1>1. NoTurn \in TurnType /\ Empty \in Cache /\ o \in Params
  BY NoTurnTyped, OptionsAreParams
<1>2. fed \in Seq(Tokens) /\ cache \in Cache /\ broken \in BOOLEAN /\ Len(fed) \in Nat /\ Len(ids) \in Nat
  BY LenProperties DEF TypeOK
<1>3. turn' = [NoTurn EXCEPT !.kind = kind, !.opts = o, !.ids = ids,
                             !.pos = IF Reuses(ids) THEN Len(fed) ELSE 0]
  BY DEF Begin
<1>4. turn' \in TurnType /\ turn'.kind = kind /\ turn'.opts = o /\ turn'.ids = ids
  BY <1>1, <1>2, <1>3 DEF TurnType
<1>p. turn'.pos = IF Reuses(ids) THEN Len(fed) ELSE 0
  BY <1>1, <1>3 DEF TurnType
<1>5. turn'.out = <<>> /\ turn'.given = <<>>
  BY <1>3 DEF NoTurn
<1>6. CASE Reuses(ids)
  <2>1. Len(fed) <= Len(ids)
    BY <1>6 DEF Reuses, IsStrictPrefix, IsPrefix
  <2>2. UNCHANGED engine
    BY <1>6 DEF Begin
  <2>3. turn'.pos = Len(fed) /\ turn'.pos <= Len(ids)
    BY <1>p, <1>6, <2>1
  <2>4. fed' \in Seq(Tokens) /\ cache' \in Cache /\ broken' \in BOOLEAN
    BY <1>2, <2>2 DEF engine
  <2> QED BY <1>4, <1>5, <1>6, <2>2, <2>3, <2>4, Zenon
<1>7. CASE ~Reuses(ids)
  <2>1. ResetEngine
    BY <1>7 DEF Begin
  <2>2. turn'.pos = 0 /\ turn'.pos <= Len(ids)
    BY <1>p, <1>2, <1>7
  <2>4. <<>> \in Seq(Tokens)
    OBVIOUS
  <2>3. fed' \in Seq(Tokens) /\ cache' \in Cache /\ broken' \in BOOLEAN
    BY <1>1, <2>1, <2>4 DEF ResetEngine
  <2> QED BY <1>4, <1>5, <2>1, <2>2, <2>3, Zenon
<1> QED BY <1>6, <1>7

\* The chunk there is to do.
LEMMA Chunks ==
  ASSUME NEW ids \in Seq(Tokens), NEW pos \in Nat, pos <= Len(ids), turn.ids = ids, turn.pos = pos
  PROVE  /\ Todo \in Seq(Tokens) /\ pos + Len(Todo) \in Nat /\ pos + Len(Todo) <= Len(ids)
         /\ SubSeq(ids, 1, pos) \o Todo = SubSeq(ids, 1, pos + Len(Todo))
<1> DEFINE j == IF pos + Chunk <= Len(ids) THEN pos + Chunk ELSE Len(ids)
<1>1. Len(ids) \in Nat
  BY LenProperties
<1>2. pos \in 0 .. Len(ids) /\ j \in pos .. Len(ids)
  BY <1>1, LayersAreSome
<1>3. Todo = SubSeq(ids, pos + 1, j)
  BY DEF Todo
<1> HIDE DEF j
<1>4. /\ Todo \in Seq(Tokens) /\ Len(Todo) = j - pos
      /\ SubSeq(ids, 1, pos) \o Todo = SubSeq(ids, 1, j)
  BY <1>2, <1>3, Parts
<1>5. pos + Len(Todo) = j
  BY <1>1, <1>2, <1>4
<1> QED BY <1>1, <1>2, <1>4, <1>5

\* A pass, and one that breaks off, leave tokens in every layer.
LEMMA PassTyped ==
  ASSUME TypeOK, NEW tokens \in Seq(Tokens),
         Pass(tokens) \/ PassBreaks(tokens)
  PROVE  cache' \in Cache
<1>1. cache \in Cache
  BY DEF TypeOK
<1>2. \A l \in L : cache[l] \in Seq(Tokens)
  BY <1>1 DEF Cache
<1>3. \A l \in L : cache[l] \o tokens \in Seq(Tokens)
  BY <1>2, ConcatProperties
<1>4. CASE Pass(tokens)
  BY <1>3, <1>4 DEF Pass, Cache
<1>5. CASE PassBreaks(tokens)
  BY <1>2, <1>3, <1>5 DEF PassBreaks, Cache
<1> QED BY <1>4, <1>5

\* The token to be read back.
LEMMA LastSaid ==
  ASSUME TypeOK, turn.out # <<>>
  PROVE  /\ turn.out \in Seq(Tokens) /\ Front(turn.out) \in Seq(Tokens)
         /\ Last(turn.out) \in Said /\ Last(turn.out) \in Tokens /\ <<Last(turn.out)>> \in Seq(Tokens)
         /\ Front(turn.out) \o <<Last(turn.out)>> = turn.out
<1>1. turn.out \in Seq(Said)
  BY DEF TypeOK
<1>2. Last(turn.out) \in Said
  BY <1>1, FrontAndLast
<1>3. turn.out \in Seq(Tokens)
  BY <1>1, SaidAreTokens
<1>4. /\ Front(turn.out) \in Seq(Tokens) /\ Last(turn.out) \in Tokens
      /\ Front(turn.out) \o <<Last(turn.out)>> = turn.out
  BY <1>3, FrontAndLast
<1>5. <<Last(turn.out)>> \in Seq(Tokens)
  BY <1>4
<1> QED BY <1>2, <1>3, <1>4, <1>5

\* What is in the transcript, and what becomes of it.
LEMMA Transcripts ==
  ASSUME NEW ms \in Seq(Message)
  PROVE  /\ \A u \in Users : Append(ms, User(u)) \in Seq(Message)
         /\ \A out \in Seq(Said), think \in BOOLEAN : Append(ms, Assistant(out, think)) \in Seq(Message)
         /\ Front(ms) \in Seq(Message)
         /\ HasSystem(ms) => Tail(ms) \in Seq(Message) /\ <<ms[1]>> \in Seq(Message)
         /\ \A s \in Systems : /\ <<System(s)>> \o ms \in Seq(Message)
                               /\ HasSystem(ms) => [ms EXCEPT ![1] = System(s)] \in Seq(Message)
<1>1. \A u \in Users : Append(ms, User(u)) \in Seq(Message)
  BY PiecesTyped, AppendProperties
<1>2. \A out \in Seq(Said), think \in BOOLEAN : Append(ms, Assistant(out, think)) \in Seq(Message)
  BY AssistantTyped, AppendProperties
<1>3. Front(ms) \in Seq(Message)
  BY FrontTyped
<1>4. HasSystem(ms) => ms # <<>> /\ 1 \in 1 .. Len(ms) /\ ms[1] \in Message
  BY EmptySeq, ElementOfSeq, LenProperties DEF HasSystem
<1>5. HasSystem(ms) => Tail(ms) \in Seq(Message) /\ <<ms[1]>> \in Seq(Message)
  BY <1>4, HeadTailProperties
<1>6. ASSUME NEW s \in Systems
      PROVE  /\ <<System(s)>> \o ms \in Seq(Message)
             /\ HasSystem(ms) => [ms EXCEPT ![1] = System(s)] \in Seq(Message)
  <2>1. System(s) \in Message
    BY PiecesTyped
  <2>2. <<System(s)>> \in Seq(Message)
    BY <2>1
  <2>3. <<System(s)>> \o ms \in Seq(Message)
    BY <2>2, ConcatProperties
  <2>4. HasSystem(ms) => [ms EXCEPT ![1] = System(s)] \in Seq(Message)
    BY <1>4, <2>1, ExceptSeq
  <2> QED BY <2>3, <2>4
<1> QED BY <1>1, <1>2, <1>3, <1>5, <1>6

\* The end of a turn.
LEMMA FinishTyped ==
  ASSUME TypeOK, Control, pc # "idle", Finish(turn)
  PROVE  /\ messages' \in Seq(Message) /\ last' \in Completion /\ outcome' = "ok"
         /\ turn' = NoTurn /\ busy' = FALSE /\ pc' = "idle"
<1>1. turn \in TurnType /\ turn.kind \in {"send", "raw"} /\ turn.opts \in Options
  BY DEF TypeOK, Control, TurnType
<1>2. last' = [kind |-> turn.kind, opts |-> turn.opts, out |-> turn.out, given |-> turn.given]
  BY DEF Finish
<1>3. last' \in Completion
  BY <1>1, <1>2 DEF Completion, TurnType
<1>4. messages' \in Seq(Message)
  <2>1. messages \in Seq(Message) /\ turn.out \in Seq(Said) /\ turn.opts.think \in BOOLEAN
    BY <1>1, OptionsTyped DEF TypeOK, TurnType
  <2>2. Append(messages, Assistant(turn.out, turn.opts.think)) \in Seq(Message)
    BY <2>1, Transcripts
  <2> QED BY <2>1, <2>2 DEF Finish
<1> QED BY <1>3, <1>4 DEF Finish, Over

\* A call of another kind comes between turns.
LEMMA BetweenTurns ==
  ASSUME TypeOK, Control, Between
  PROVE  /\ pc = "idle" /\ pc' = "idle" /\ busy' = FALSE /\ turn' = NoTurn /\ turn = NoTurn
         /\ outcome' = "ok" /\ fed' = <<>> /\ cache' = Empty /\ broken' = FALSE
BY DEF TypeOK, Control, Between, Borrowed, ResetEngine

\* A session that has just been opened has the types.
LEMMA TypeInit == ASSUME Init PROVE TypeOK
<1>1. NoTurn \in TurnType /\ Empty \in Cache
  BY NoTurnTyped
<1>2. <<>> \in Seq(Message) /\ <<>> \in Seq(Tokens)
  OBVIOUS
<1>3. Len(NoTurn.out) <= MaxTokens /\ NoTurn.pos <= Len(NoTurn.ids)
  BY BoundsAreNat DEF NoTurn
<1> QED BY <1>1, <1>2, <1>3 DEF Init, TypeOK, TurnType

\* What stays when the session or the engine does.
LEMMA Same ==
  /\ UNCHANGED session => messages' = messages /\ last' = last /\ outcome' = outcome
  /\ UNCHANGED engine => fed' = fed /\ cache' = cache /\ broken' = broken
BY DEF session, engine

\* Every step keeps the types.
LEMMA TypeStep == ASSUME TypeOK, Control, Next PROVE TypeOK'
<1>0. /\ messages \in Seq(Message)
      /\ last \in Completion \union {NoLast}
      /\ outcome \in {"ok", "error", "panic"} /\ busy \in BOOLEAN /\ broken \in BOOLEAN
      /\ pc \in {"idle", "feed", "fed", "sample", "said", "decode"}
      /\ turn \in TurnType /\ fed \in Seq(Tokens) /\ cache \in Cache
      /\ Len(turn.out) <= MaxTokens /\ turn.pos <= Len(turn.ids)
  BY DEF TypeOK, TurnType
<1>n. /\ NoTurn \in TurnType /\ Empty \in Cache /\ <<>> \in Seq(Tokens) /\ <<>> \in Seq(Message)
      /\ Len(NoTurn.out) <= MaxTokens /\ NoTurn.pos <= Len(NoTurn.ids)
  BY NoTurnTyped, BoundsAreNat DEF NoTurn
<1> DEFINE T == /\ messages' \in Seq(Message)
                /\ last' \in Completion \union {NoLast}
                /\ outcome' \in {"ok", "error", "panic"} /\ busy' \in BOOLEAN /\ broken' \in BOOLEAN
                /\ pc' \in {"idle", "feed", "fed", "sample", "said", "decode"}
                /\ turn' \in TurnType /\ fed' \in Seq(Tokens) /\ cache' \in Cache
                /\ Len(turn'.out) <= MaxTokens /\ turn'.pos <= Len(turn'.ids)
<1>t. SUFFICES T
  BY DEF TypeOK, TurnType
<1>1. ASSUME NEW u \in Users, NEW o \in Options, Send(u, o) PROVE T
  <2>1. messages' \in Seq(Message)
    BY <1>0, <1>1, Transcripts DEF Send
  <2> DEFINE ids == Encode(Asked(u, o))
  <2>2. ids \in Seq(Tokens) /\ Begin("send", o, ids)
    BY <1>1 DEF Send, Encodes
  <2> HIDE DEF ids
  <2>3. /\ turn' \in TurnType /\ turn'.ids = ids
        /\ turn'.out = <<>> /\ turn'.pos <= Len(ids)
        /\ fed' \in Seq(Tokens) /\ cache' \in Cache /\ broken' \in BOOLEAN
    BY <2>2, Begins
  <2>4. UNCHANGED <<last, outcome>> /\ busy' = TRUE /\ pc' = "feed"
    BY <2>2 DEF Begin, Claim
  <2> QED BY <1>0, <2>1, <2>3, <2>4, BoundsAreNat
<1>2. ASSUME NEW p \in Raw, NEW o \in Options, Generate(p, o) PROVE T
  <2> DEFINE ids == Encode(p)
  <2>1. ids \in Seq(Tokens) /\ Begin("raw", o, ids) /\ UNCHANGED messages
    BY <1>2 DEF Generate, Encodes
  <2> HIDE DEF ids
  <2>2. /\ turn' \in TurnType /\ turn'.ids = ids /\ turn'.out = <<>> /\ turn'.pos <= Len(ids)
        /\ fed' \in Seq(Tokens) /\ cache' \in Cache /\ broken' \in BOOLEAN
    BY <2>1, Begins
  <2>3. UNCHANGED <<last, outcome>> /\ busy' = TRUE /\ pc' = "feed"
    BY <2>1 DEF Begin, Claim
  <2> QED BY <1>0, <2>1, <2>2, <2>3, BoundsAreNat
<1>3. CASE Feed
  <2>1. /\ turn.ids \in Seq(Tokens) /\ turn.pos \in Nat /\ turn.pos <= Len(turn.ids)
    BY <1>0 DEF TurnType
  <2>2. Todo \in Seq(Tokens) /\ turn.pos + Len(Todo) \in Nat /\ turn.pos + Len(Todo) <= Len(turn.ids)
    BY <2>1, Chunks
  <2>3. Pass(Todo) /\ pc = "feed"
    BY <1>3 DEF Feed
  <2>4. cache' \in Cache
    BY <2>2, <2>3, PassTyped
  <2>5. turn' = [turn EXCEPT !.pos = turn.pos + Len(Todo), !.logits = cache']
    BY <2>3 DEF Pass
  <2>6. /\ turn' \in TurnType /\ turn'.out = turn.out /\ turn'.ids = turn.ids
        /\ turn'.pos = turn.pos + Len(Todo)
    BY <1>0, <2>2, <2>4, <2>5 DEF TurnType
  <2>7. UNCHANGED <<session, busy, fed>> /\ pc' = "fed" /\ broken' = broken
    BY <1>3, <2>3 DEF Feed, Pass
  <2> QED BY <1>0, <2>2, <2>4, <2>6, <2>7, Same
<1>4. CASE Fed
  <2>1. turn.ids \in Seq(Tokens)
    BY <1>0 DEF TurnType
  <2>2. /\ UNCHANGED session /\ UNCHANGED <<busy, turn, cache, broken>>
        /\ fed' \in {fed, turn.ids} /\ pc' \in {"sample", "feed"}
    BY <1>4 DEF Fed
  <2> QED BY <1>0, <2>1, <2>2, Same
<1>5. CASE End
  <2>1. pc # "idle" /\ Finish(turn) /\ UNCHANGED engine
    BY <1>5 DEF End
  <2> QED BY <1>0, <1>n, <2>1, FinishTyped, Same
<1>6. CASE Stop
  <2>1. pc # "idle" /\ Finish(turn) /\ UNCHANGED engine
    BY <1>6 DEF Stop
  <2> QED BY <1>0, <1>n, <2>1, FinishTyped, Same
<1>7. CASE GoOn
  <2>1. UNCHANGED session /\ UNCHANGED <<busy, turn>> /\ UNCHANGED engine /\ pc' = "decode"
    BY <1>7 DEF GoOn
  <2> QED BY <1>0, <2>1, Same
<1>8. CASE Decode
  <2>1. turn.out # <<>> /\ pc = "decode" /\ Pass(<<Last(turn.out)>>)
    BY <1>8 DEF Decode, Control
  <2>2. Last(turn.out) \in Tokens /\ <<Last(turn.out)>> \in Seq(Tokens)
    BY <2>1, LastSaid
  <2>3. cache' \in Cache
    BY <2>1, <2>2, PassTyped
  <2>4. turn' = [turn EXCEPT !.pos = @, !.logits = cache']
    BY <2>1 DEF Pass
  <2>5. /\ turn' \in TurnType /\ turn'.out = turn.out /\ turn'.ids = turn.ids
        /\ turn'.pos = turn.pos
    BY <1>0, <2>3, <2>4 DEF TurnType
  <2>6. fed' \in Seq(Tokens)
    BY <1>0, <1>8, <2>2, AppendProperties DEF Decode
  <2>7. UNCHANGED session /\ busy' = busy /\ pc' = "sample" /\ broken' = broken
    BY <1>8 DEF Decode, Pass
  <2> QED BY <1>0, <2>3, <2>5, <2>6, <2>7, Same
<1>r. CASE Refuse
  <2>1. outcome' = "error" /\ UNCHANGED <<messages, last, busy, pc, turn>> /\ UNCHANGED engine
    BY <1>r DEF Refuse
  <2> QED BY <1>0, <2>1, Same
<1>i. ASSUME Break, messages' \in {messages, Pop}, outcome' \in {"error", "panic"}, UNCHANGED engine
      PROVE  T
  <2>1. Over /\ last' = last
    BY <1>i DEF Break
  <2>2. messages' \in Seq(Message)
    BY <1>0, <1>i, Transcripts DEF Pop
  <2> QED BY <1>0, <1>n, <1>i, <2>1, <2>2, Same DEF Over
<1>b. ASSUME Break, messages' \in {messages, Pop}, outcome' \in {"error", "panic"}, ~UNCHANGED engine
      PROVE  T
  <2> DEFINE tokens == IF pc = "feed" THEN Todo ELSE <<Last(turn.out)>>
  <2>1. tokens \in Seq(Tokens)
    <3>1. CASE pc = "feed"
      <4>1. turn.ids \in Seq(Tokens) /\ turn.pos \in Nat /\ turn.pos <= Len(turn.ids)
        BY <1>0 DEF TurnType
      <4> QED BY <3>1, <4>1, Chunks
    <3>2. CASE pc = "decode"
      <4>1. turn.out # <<>>
        BY <3>2 DEF Control
      <4> QED BY <3>2, <4>1, LastSaid
    <3> QED BY <1>b, <3>1, <3>2 DEF Break
  <2>2. PassBreaks(tokens) /\ Over /\ UNCHANGED last
    BY <1>b DEF Break
  <2> HIDE DEF tokens
  <2>3. cache' \in Cache
    BY <2>1, <2>2, PassTyped
  <2>4. messages' \in Seq(Message)
    BY <1>0, <1>b, Transcripts DEF Pop
  <2> QED BY <1>0, <1>n, <1>b, <2>2, <2>3, <2>4 DEF PassBreaks, Over
<1> HIDE DEF T
<1>9. CASE Fail
  <2>1. Break /\ messages' = Pop /\ outcome' = "error"
    BY <1>9 DEF Fail
  <2> QED BY <1>b, <1>i, <2>1
<1>10. CASE Panic
  <2>1. Break /\ messages' = messages /\ outcome' = "panic"
    BY <1>10 DEF Panic
  <2> QED BY <1>b, <1>i, <2>1
<1>11. ASSUME NEW w \in Said, Say(w) PROVE T
  <2>1. turn' = [turn EXCEPT !.out = Append(@, w), !.given = Append(@, turn.logits)]
    BY <1>11 DEF Say
  <2>2. /\ Append(turn.out, w) \in Seq(Said) /\ Append(turn.given, turn.logits) \in Seq(Cache)
        /\ Len(Append(turn.out, w)) = Len(turn.out) + 1 /\ Len(turn.out) \in Nat
    BY <1>0, AppendProperties, LenProperties DEF TurnType
  <2>3. /\ turn' \in TurnType /\ turn'.out = Append(turn.out, w) /\ turn'.ids = turn.ids
        /\ turn'.pos = turn.pos
    BY <1>0, <2>1, <2>2 DEF TurnType
  <2>4. Len(turn'.out) <= MaxTokens
    BY <1>11, <2>2, <2>3, BoundsAreNat DEF Say
  <2>5. UNCHANGED session /\ busy' = busy /\ pc' = "said" /\ UNCHANGED engine
    BY <1>11 DEF Say
  <2> QED BY <1>0, <2>3, <2>4, <2>5, Same DEF T
<1>a. ASSUME Between, messages' \in Seq(Message), last' \in {last, NoLast} PROVE T
  BY <1>0, <1>n, <1>a, BetweenTurns DEF T
<1>12. ASSUME NEW s \in Systems, SetSystem(s) PROVE T
  <2>1. Between /\ messages' \in Seq(Message) /\ last' = last
    BY <1>0, <1>12, Transcripts DEF SetSystem
  <2> QED BY <1>a, <2>1
<1>13. CASE DropSystem
  <2>1. Between /\ messages' \in Seq(Message) /\ last' = last
    BY <1>0, <1>13, Transcripts DEF DropSystem
  <2> QED BY <1>a, <2>1
<1>14. CASE Reset
  <2>1. Between /\ messages' \in Seq(Message) /\ last' = NoLast
    BY <1>0, <1>n, <1>14, Transcripts DEF Reset
  <2> QED BY <1>a, <2>1
<1>15. ASSUME NEW m \in Saved, Load(m) PROVE T
  <2>1. Between /\ messages' \in Seq(Message) /\ last' = NoLast
    BY <1>15, SavedAreMessages DEF Load
  <2> QED BY <1>a, <2>1
<1> QED BY <1>1, <1>2, <1>3, <1>4, <1>5, <1>6, <1>7, <1>8, <1>9, <1>10, <1>11, <1>12, <1>13,
           <1>14, <1>15, <1>r DEF Next

---------------------------------------------------------------------------
(* What the steps within a turn do to it.                                  *)

\* What a chunk of the prompt does: every layer takes it in.
LEMMA Feeds ==
  ASSUME TypeOK, Feed
  PROVE  /\ turn'.kind = turn.kind /\ turn'.opts = turn.opts /\ turn'.ids = turn.ids
         /\ turn'.out = turn.out /\ turn'.given = turn.given
         /\ turn'.pos = turn.pos + Len(Todo) /\ turn'.logits = cache'
         /\ cache' = [l \in L |-> cache[l] \o Todo] /\ broken' = broken
         /\ messages' = messages /\ last' = last /\ outcome' = outcome /\ busy' = busy /\ fed' = fed
         /\ pc = "feed" /\ pc' = "fed"
<1>1. turn \in TurnType
  BY DEF TypeOK, TurnType
<1>2. /\ pc = "feed" /\ pc' = "fed" /\ Pass(Todo) /\ UNCHANGED session /\ busy' = busy /\ fed' = fed
  BY DEF Feed
<1>3. /\ turn' = [turn EXCEPT !.pos = turn.pos + Len(Todo), !.logits = cache']
      /\ cache' = [l \in L |-> cache[l] \o Todo] /\ broken' = broken
  BY <1>2 DEF Pass
<1>4. /\ turn'.kind = turn.kind /\ turn'.opts = turn.opts /\ turn'.ids = turn.ids
      /\ turn'.out = turn.out /\ turn'.given = turn.given
      /\ turn'.pos = turn.pos + Len(Todo) /\ turn'.logits = cache'
  BY <1>1, <1>3 DEF TurnType
<1> QED BY <1>2, <1>3, <1>4, Same

\* What reading a token back does: every layer takes it in, and fed.
LEMMA Decodes ==
  ASSUME TypeOK, Decode
  PROVE  /\ turn'.kind = turn.kind /\ turn'.opts = turn.opts /\ turn'.ids = turn.ids
         /\ turn'.out = turn.out /\ turn'.given = turn.given
         /\ turn'.pos = turn.pos /\ turn'.logits = cache'
         /\ cache' = [l \in L |-> cache[l] \o <<Last(turn.out)>>] /\ broken' = broken
         /\ messages' = messages /\ last' = last /\ outcome' = outcome /\ busy' = busy
         /\ fed' = Append(fed, Last(turn.out))
         /\ pc = "decode" /\ pc' = "sample"
<1>1. turn \in TurnType
  BY DEF TypeOK, TurnType
<1>2. /\ pc = "decode" /\ pc' = "sample" /\ Pass(<<Last(turn.out)>>) /\ UNCHANGED session /\ busy' = busy
      /\ fed' = Append(fed, Last(turn.out))
  BY DEF Decode
<1>3. /\ turn' = [turn EXCEPT !.pos = @, !.logits = cache']
      /\ cache' = [l \in L |-> cache[l] \o <<Last(turn.out)>>] /\ broken' = broken
  BY <1>2 DEF Pass
<1>4. /\ turn'.kind = turn.kind /\ turn'.opts = turn.opts /\ turn'.ids = turn.ids
      /\ turn'.out = turn.out /\ turn'.given = turn.given
      /\ turn'.pos = turn.pos /\ turn'.logits = cache'
  BY <1>1, <1>3 DEF TurnType
<1> QED BY <1>2, <1>3, <1>4, Same

\* What sampling does: the token is noted with the logits it came from.
LEMMA Says ==
  ASSUME TypeOK, NEW w \in Said, Say(w)
  PROVE  /\ turn'.kind = turn.kind /\ turn'.opts = turn.opts /\ turn'.ids = turn.ids
         /\ turn'.out = Append(turn.out, w) /\ turn'.given = Append(turn.given, turn.logits)
         /\ cache' = cache /\ broken' = broken /\ fed' = fed
         /\ messages' = messages /\ last' = last /\ outcome' = outcome /\ busy' = busy
         /\ pc = "sample" /\ pc' = "said"
<1>1. turn \in TurnType
  BY DEF TypeOK, TurnType
<1>2. /\ pc = "sample" /\ pc' = "said" /\ UNCHANGED session /\ UNCHANGED engine /\ busy' = busy
      /\ turn' = [turn EXCEPT !.out = Append(@, w), !.given = Append(@, turn.logits)]
  BY DEF Say
<1>3. /\ turn'.kind = turn.kind /\ turn'.opts = turn.opts /\ turn'.ids = turn.ids
      /\ turn'.out = Append(turn.out, w) /\ turn'.given = Append(turn.given, turn.logits)
  BY <1>1, <1>2 DEF TurnType
<1> QED BY <1>2, <1>3, Same

\* Every other step is one of these: a turn begins, the caller is back, the turn goes on
\* or is over, or it is between turns.
LEMMA FedTo ==
  ASSUME Fed
  PROVE  /\ turn' = turn /\ cache' = cache /\ broken' = broken /\ messages' = messages
         /\ last' = last /\ outcome' = outcome /\ busy' = busy /\ pc = "fed"
         /\ \/ turn.pos = Len(turn.ids) /\ fed' = turn.ids /\ pc' = "sample"
            \/ fed' = fed /\ pc' = "feed"
BY Same DEF Fed

\* Going on after a token changes the place only.
LEMMA GoesOn ==
  ASSUME GoOn
  PROVE  /\ turn' = turn /\ cache' = cache /\ broken' = broken /\ messages' = messages /\ fed' = fed
         /\ last' = last /\ outcome' = outcome /\ busy' = busy /\ pc = "said" /\ pc' = "decode"
BY Same DEF GoOn

\* How a turn starts: a prompt, and a cache that is kept or emptied.
LEMMA Starts ==
  ASSUME TypeOK, Control,
         \/ \E u \in Users, o \in Options : Send(u, o)
         \/ \E p \in Raw, o \in Options : Generate(p, o)
  PROVE  /\ pc = "idle" /\ turn = NoTurn /\ busy' = TRUE /\ pc' = "feed" /\ last' = last /\ outcome' = outcome
         /\ \E ids \in Seq(Tokens), o \in Options :
              /\ turn'.kind \in {"send", "raw"} /\ turn'.opts = o /\ turn'.ids = ids
              /\ turn'.out = <<>> /\ turn'.given = <<>>
              /\ \/ Reuses(ids) /\ turn'.pos = Len(fed) /\ UNCHANGED engine
                 \/ turn'.pos = 0 /\ ResetEngine
              /\ \/ \E u \in Users : /\ turn'.kind = "send" /\ messages' = Append(messages, User(u))
                                     /\ ids = Encode(Render(messages', o))
                 \/ turn'.kind = "raw" /\ (\E p \in Raw : ids = Encode(p)) /\ messages' = messages
<1>1. ASSUME CallersTurn, Borrowed PROVE pc = "idle" /\ turn = NoTurn
  BY <1>1 DEF CallersTurn, Borrowed, Control
<1>2. ASSUME NEW kind, NEW o, NEW ids, Begin(kind, o, ids)
      PROVE  busy' = TRUE /\ pc' = "feed" /\ last' = last /\ outcome' = outcome
  BY <1>2 DEF Begin, Claim
<1>3. ASSUME NEW u \in Users, NEW o \in Options, Send(u, o)
      PROVE  \E ids \in Seq(Tokens) :
             /\ turn'.kind = "send" /\ turn'.opts = o /\ turn'.ids = ids
             /\ turn'.out = <<>> /\ turn'.given = <<>>
             /\ \/ Reuses(ids) /\ turn'.pos = Len(fed) /\ UNCHANGED engine
                \/ turn'.pos = 0 /\ ResetEngine
             /\ messages' = Append(messages, User(u)) /\ ids = Encode(Render(messages', o))
             /\ Begin("send", o, ids) /\ CallersTurn /\ Borrowed
  <2> DEFINE ids == Encode(Asked(u, o))
  <2>1. /\ messages' = Append(messages, User(u)) /\ Begin("send", o, ids) /\ ids \in Seq(Tokens)
        /\ CallersTurn /\ Borrowed
    BY <1>3 DEF Send, Encodes
  <2>2. ids = Encode(Render(messages', o))
    BY <2>1 DEF Asked
  <2> HIDE DEF ids
  <2> QED BY <2>1, <2>2, Begins
<1>4. ASSUME NEW p \in Raw, NEW o \in Options, Generate(p, o)
      PROVE  \E ids \in Seq(Tokens) :
             /\ turn'.kind = "raw" /\ turn'.opts = o /\ turn'.ids = ids
             /\ turn'.out = <<>> /\ turn'.given = <<>>
             /\ \/ Reuses(ids) /\ turn'.pos = Len(fed) /\ UNCHANGED engine
                \/ turn'.pos = 0 /\ ResetEngine
             /\ messages' = messages /\ ids = Encode(p)
             /\ Begin("raw", o, ids) /\ CallersTurn /\ Borrowed
  <2> DEFINE ids == Encode(p)
  <2>1. messages' = messages /\ Begin("raw", o, ids) /\ ids \in Seq(Tokens) /\ CallersTurn /\ Borrowed
    BY <1>4 DEF Generate, Encodes
  <2> HIDE DEF ids
  <2>2. ids = Encode(p)
    BY DEF ids
  <2> QED BY <2>1, <2>2, Begins
<1>5. CASE \E u \in Users, o \in Options : Send(u, o)
  <2>1. PICK u \in Users, o \in Options : Send(u, o)
    BY <1>5
  <2>2. pc = "idle" /\ turn = NoTurn /\ busy' = TRUE /\ pc' = "feed" /\ last' = last /\ outcome' = outcome
    BY <1>1, <1>2, <1>3, <2>1
  <2> QED BY <1>3, <2>1, <2>2
<1>6. CASE \E p \in Raw, o \in Options : Generate(p, o)
  <2>1. PICK p \in Raw, o \in Options : Generate(p, o)
    BY <1>6
  <2>2. pc = "idle" /\ turn = NoTurn /\ busy' = TRUE /\ pc' = "feed" /\ last' = last /\ outcome' = outcome
    BY <1>1, <1>2, <1>4, <2>1
  <2> QED BY <1>4, <2>1, <2>2
<1> QED BY <1>5, <1>6

\* Next, in those terms.
LEMMA Steps ==
  ASSUME Next
  PROVE  \/ \/ \E u \in Users, o \in Options : Send(u, o)
            \/ \E p \in Raw, o \in Options : Generate(p, o)
         \/ Feed \/ Fed \/ GoOn \/ Decode
         \/ \E w \in Said : Say(w)
         \/ End \/ Stop
         \/ Break
         \/ Between
         \/ Refuse
BY DEF Next, Fail, Panic, SetSystem, DropSystem, Reset, Load

\* How a turn ends in which a pass failed, or something else did.
LEMMA Breaks ==
  ASSUME Break
  PROVE  /\ pc' = "idle" /\ turn' = NoTurn /\ busy' = FALSE /\ last' = last /\ pc # "idle"
         /\ broken' \in {broken, TRUE}
         /\ \/ broken' = TRUE
            \/ pc \in {"sample", "said"} /\ fed' = fed /\ cache' = cache /\ broken' = broken
BY Same DEF Break, PassBreaks, Over

\* A call that is refused for its prompt changes its outcome only.
LEMMA Refuses ==
  ASSUME Refuse
  PROVE  /\ outcome' = "error" /\ messages' = messages /\ last' = last /\ busy' = busy /\ pc' = pc
         /\ turn' = turn /\ fed' = fed /\ cache' = cache /\ broken' = broken
BY Same DEF Refuse

\* How a turn ends that was not cut off.
LEMMA Finishes ==
  ASSUME End \/ Stop
  PROVE  /\ Finish(turn) /\ pc' = "idle" /\ turn' = NoTurn /\ busy' = FALSE
         /\ fed' = fed /\ cache' = cache /\ broken' = broken
         /\ pc \in {"sample", "said"}
<1>1. Finish(turn) /\ UNCHANGED engine /\ pc \in {"sample", "said"}
  BY DEF End, Stop
<1> QED BY <1>1, Same DEF Finish, Over

\* There is nothing in no turn.
LEMMA NoTurnIs ==
  /\ NoTurn.kind = "none" /\ NoTurn.out = <<>> /\ NoTurn.given = <<>> /\ NoTurn.ids = <<>>
BY DEF NoTurn

---------------------------------------------------------------------------
(* The invariant is kept.                                                  *)

\* Every step keeps the flag and the places.
LEMMA ControlStep == ASSUME TypeOK, Control, Next PROVE Control'
<1>1. CASE \/ \E u \in Users, o \in Options : Send(u, o)
           \/ \E p \in Raw, o \in Options : Generate(p, o)
  BY <1>1, Starts DEF Control
<1>2. CASE Feed
  BY <1>2, Feeds DEF Control
<1>3. CASE Fed
  BY <1>3, FedTo DEF Control
<1>4. CASE GoOn
  BY <1>4, GoesOn DEF Control
<1>5. CASE Decode
  BY <1>5, Decodes DEF Control
<1>6. ASSUME NEW w \in Said, Say(w) PROVE Control'
  <2>1. turn.out \in Seq(Said)
    BY DEF TypeOK
  <2>2. Append(turn.out, w) # <<>>
    BY <2>1, Ends
  <2> QED BY <1>6, <2>2, Says DEF Control
<1>7. CASE End \/ Stop
  BY <1>7, Finishes DEF Control
<1>8. CASE Break
  BY <1>8, Breaks DEF Control
<1>9. CASE Between
  BY <1>9, BetweenTurns DEF Control
<1>10. CASE Refuse
  BY <1>10, Refuses DEF Control
<1> QED BY <1>1, <1>2, <1>3, <1>4, <1>5, <1>6, <1>7, <1>8, <1>9, <1>10, Steps

\* Every step keeps what a turn reads to the transcript it is of.
LEMMA AsksStep == ASSUME TypeOK, Control, Asks, Next PROVE Asks'
<1>0. messages \in Seq(Message)
  BY DEF TypeOK
<1>s. ASSUME turn'.kind = turn.kind, turn'.ids = turn.ids, turn'.opts = turn.opts, messages' = messages
      PROVE  Asks'
  BY <1>s DEF Asks
<1>e. ASSUME turn' = NoTurn PROVE Asks'
  BY <1>e, NoTurnIs DEF Asks
<1>1. CASE \/ \E u \in Users, o \in Options : Send(u, o)
           \/ \E p \in Raw, o \in Options : Generate(p, o)
  <2>1. CASE turn'.kind = "send"
    <3>1. PICK o \in Options, u \in Users :
                 /\ turn'.opts = o /\ turn'.ids = Encode(Render(messages', o))
                 /\ messages' = Append(messages, User(u))
      BY <1>1, <2>1, Starts
    <3>2. Front(messages') = messages
      <4>1. User(u) \in Message
        BY PiecesTyped
      <4> QED BY <1>0, <3>1, <4>1, Ends
    <3> QED BY <2>1, <3>1, <3>2 DEF Asks
  <2>2. CASE turn'.kind = "raw"
    BY <1>1, <2>2, Starts DEF Asks
  <2> QED BY <1>1, <2>1, <2>2, Starts
<1>2. CASE Feed
  BY <1>2, <1>s, Feeds
<1>3. CASE Fed
  BY <1>3, <1>s, FedTo
<1>4. CASE GoOn
  BY <1>4, <1>s, GoesOn
<1>5. CASE Decode
  BY <1>5, <1>s, Decodes
<1>6. ASSUME NEW w \in Said, Say(w) PROVE Asks'
  BY <1>6, <1>s, Says
<1>7. CASE End \/ Stop
  BY <1>7, <1>e, Finishes
<1>8. CASE Break
  BY <1>8, <1>e, Breaks
<1>9. CASE Between
  BY <1>9, <1>e, BetweenTurns
<1>10. CASE Refuse
  BY <1>10, <1>s, Refuses
<1> QED BY <1>1, <1>2, <1>3, <1>4, <1>5, <1>6, <1>7, <1>8, <1>9, <1>10, Steps

\* What has been read, by where the turn is.
LEMMA ReadIs ==
  /\ pc = "idle" => Read = fed
  /\ pc \in {"feed", "fed"} => Read = SubSeq(turn.ids, 1, turn.pos)
  /\ pc = "sample" => Read = turn.ids \o turn.out
  /\ pc \in {"said", "decode"} => Read = turn.ids \o Front(turn.out)
BY DEF Read

\* What has been read, after a step.
LEMMA ReadIsNext ==
  /\ pc' = "idle" => Read' = fed'
  /\ pc' \in {"feed", "fed"} => Read' = SubSeq(turn'.ids, 1, turn'.pos)
  /\ pc' = "sample" => Read' = turn'.ids \o turn'.out
  /\ pc' \in {"said", "decode"} => Read' = turn'.ids \o Front(turn'.out)
BY DEF Read

\* Every step keeps what every layer holds to what has been read.
LEMMA HoldsStep == ASSUME TypeOK, Control, Holds, Next PROVE Holds'
<1>0. /\ turn.ids \in Seq(Tokens) /\ turn.out \in Seq(Said) /\ turn.out \in Seq(Tokens)
      /\ turn.pos \in Nat /\ turn.pos <= Len(turn.ids)
      /\ fed \in Seq(Tokens) /\ cache \in [L -> Seq(Tokens)]
  BY SaidAreTokens DEF TypeOK, Cache
<1> USE DEF Holds
<1>1. CASE \/ \E u \in Users, o \in Options : Send(u, o)
           \/ \E p \in Raw, o \in Options : Generate(p, o)
  <2>1. PICK ids \in Seq(Tokens) :
               /\ turn'.ids = ids
               /\ \/ Reuses(ids) /\ turn'.pos = Len(fed) /\ UNCHANGED engine
                  \/ turn'.pos = 0 /\ ResetEngine
    BY <1>1, Starts
  <2>2. pc = "idle" /\ pc' = "feed"
    BY <1>1, Starts
  <2>3. CASE Reuses(ids) /\ turn'.pos = Len(fed) /\ UNCHANGED engine
    <3>1. SubSeq(ids, 1, Len(fed)) = fed
      <4>1. SubSeq(fed, 1, Len(fed)) = SubSeq(ids, 1, Len(fed))
        BY <2>3 DEF Reuses, IsStrictPrefix, IsPrefix
      <4>2. SubSeq(fed, 1, Len(fed)) = fed
        BY <1>0, SubSeqFull
      <4> QED BY <4>1, <4>2
    <3>2. Read' = fed
      BY <2>1, <2>2, <2>3, <3>1, ReadIsNext
    <3>3. ~broken => \A l \in L : cache[l] = fed
      BY <2>2, ReadIs
    <3> QED BY <2>2, <2>3, <3>2, <3>3, Same
  <2>4. CASE turn'.pos = 0 /\ ResetEngine
    <3>1. Read' = <<>>
      <4>1. SubSeq(ids, 1, 0) = <<>>
        BY SubSeqEmpty
      <4> QED BY <2>1, <2>2, <2>4, <4>1, ReadIsNext
    <3>2. \A l \in L : cache'[l] = <<>>
      BY <2>4 DEF ResetEngine, Empty
    <3> QED BY <2>2, <3>1, <3>2
  <2> QED BY <2>1, <2>3, <2>4
<1>2. CASE Feed
  <2>1. SubSeq(turn.ids, 1, turn.pos) \o Todo = SubSeq(turn.ids, 1, turn.pos + Len(Todo))
    BY <1>0, Chunks
  <2>2. Read' = Read \o Todo
    BY <1>2, <2>1, Feeds, ReadIs, ReadIsNext
  <2>3. ASSUME ~broken, NEW l \in L PROVE cache'[l] = Read'
    BY <1>2, <2>2, <2>3, Feeds
  <2> QED BY <1>2, <2>3, Feeds
<1>3. CASE Fed
  <2>1. CASE turn.pos = Len(turn.ids) /\ fed' = turn.ids /\ pc' = "sample"
    <3>1. turn.out = <<>>
      BY <1>3, FedTo DEF Control
    <3>2. SubSeq(turn.ids, 1, Len(turn.ids)) = turn.ids /\ turn.ids \o <<>> = turn.ids
      BY <1>0, SubSeqFull, ConcatEmptySeq
    <3>3. Read = turn.ids
      BY <1>3, <2>1, <3>2, FedTo, ReadIs
    <3>4. Read' = turn.ids
      BY <1>3, <2>1, <3>1, <3>2, FedTo, ReadIsNext
    <3> QED BY <1>3, <2>1, <3>3, <3>4, FedTo
  <2>2. CASE fed' = fed /\ pc' = "feed"
    <3>1. Read' = Read
      BY <1>3, <2>2, FedTo, ReadIs, ReadIsNext
    <3> QED BY <1>3, <2>2, <3>1, FedTo
  <2> QED BY <1>3, <2>1, <2>2, FedTo
<1>4. CASE GoOn
  <2>1. Read' = Read
    BY <1>4, GoesOn, ReadIs, ReadIsNext
  <2> QED BY <1>4, <2>1, GoesOn
<1>5. CASE Decode
  <2>1. turn.out # <<>>
    BY <1>5, Decodes DEF Control
  <2>2. /\ Last(turn.out) \in Tokens /\ <<Last(turn.out)>> \in Seq(Tokens)
        /\ Front(turn.out) \in Seq(Tokens)
        /\ Front(turn.out) \o <<Last(turn.out)>> = turn.out
    BY <2>1, LastSaid
  <2>3. Assocs(turn.ids, Front(turn.out), <<Last(turn.out)>>)
    BY <1>0, <2>2, Algebra
  <2>4. Read \o <<Last(turn.out)>> = turn.ids \o turn.out
    <3>1. Read = turn.ids \o Front(turn.out)
      BY <1>5, Decodes, ReadIs
    <3> QED BY <2>2, <2>3, <3>1, Zenon DEF Assocs
  <2>5. Read' = Read \o <<Last(turn.out)>>
    BY <1>5, <2>4, Decodes, ReadIsNext
  <2>6. Append(fed, Last(turn.out)) = fed \o <<Last(turn.out)>>
    BY <1>0, <2>2, AppendIsConcat
  <2>7. ASSUME ~broken PROVE fed' = Read' /\ \A l \in L : cache'[l] = Read'
    BY <1>5, <2>5, <2>6, <2>7, Decodes
  <2> QED BY <1>5, <2>7, Decodes
<1>6. ASSUME NEW w \in Said, Say(w) PROVE Holds'
  <2>1. Front(Append(turn.out, w)) = turn.out
    BY <1>0, Ends
  <2>2. Read' = Read
    BY <1>6, <2>1, Says, ReadIs, ReadIsNext
  <2> QED BY <1>6, <2>2, Says
<1>7. CASE End \/ Stop
  <2>1. Read' = fed
    BY <1>7, Finishes, ReadIsNext
  <2>2. ~broken => fed = Read /\ \A l \in L : cache[l] = Read
    BY <1>7, Finishes
  <2> QED BY <1>7, <2>1, <2>2, Finishes
<1>8. CASE Break
  <2>1. SUFFICES ASSUME broken' # TRUE PROVE Holds'
    OBVIOUS
  <2>2. pc \in {"sample", "said"} /\ fed' = fed /\ cache' = cache /\ broken' = broken /\ pc' = "idle"
    BY <1>8, <2>1, Breaks
  <2>3. Read' = fed
    BY <2>2, ReadIsNext
  <2>4. ~broken => fed = Read /\ \A l \in L : cache[l] = Read
    BY <2>2
  <2> QED BY <2>2, <2>3, <2>4
<1>9. CASE Between
  <2>1. Read' = <<>>
    BY <1>9, BetweenTurns, ReadIsNext
  <2>2. \A l \in L : cache'[l] = <<>>
    BY <1>9, BetweenTurns DEF Empty
  <2> QED BY <1>9, <2>1, <2>2, BetweenTurns
<1>10. CASE Refuse
  <2>1. Read' = Read
    BY <1>10, Refuses DEF Read
  <2> QED BY <1>10, <2>1, Refuses
<1> QED BY <1>1, <1>2, <1>3, <1>4, <1>5, <1>6, <1>7, <1>8, <1>9, <1>10, Steps

\* Every step keeps the tokens to what they were sampled after.
LEMMA GivenStep == ASSUME TypeOK, Control, Holds, GivenAll, Next PROVE GivenAll'
<1>0. turn.out \in Seq(Said) /\ turn.given \in Seq(Cache) /\ turn.logits \in Cache
  BY DEF TypeOK
<1>s. ASSUME turn'.out = turn.out, turn'.given = turn.given, turn'.ids = turn.ids, broken' = broken
      PROVE  GivenAll'
  BY <1>s DEF GivenAll
<1>e. ASSUME turn'.out = <<>>, turn'.given = <<>> PROVE GivenAll'
  <2>1. Len(turn'.out) = 0 /\ Len(turn'.given) = 0
    BY <1>e
  <2> QED BY <2>1 DEF GivenAll
<1>1. CASE \/ \E u \in Users, o \in Options : Send(u, o)
           \/ \E p \in Raw, o \in Options : Generate(p, o)
  BY <1>1, <1>e, Starts
<1>2. CASE Feed
  BY <1>2, <1>s, Feeds
<1>3. CASE Fed
  BY <1>3, <1>s, FedTo
<1>4. CASE GoOn
  BY <1>4, <1>s, GoesOn
<1>5. CASE Decode
  BY <1>5, <1>s, Decodes
<1>6. ASSUME NEW w \in Said, Say(w) PROVE GivenAll'
  <2> DEFINE out == turn.out
             k == Len(out)
  <2>1. /\ turn'.out = Append(out, w) /\ turn'.given = Append(turn.given, turn.logits)
        /\ turn'.ids = turn.ids /\ broken' = broken /\ pc = "sample"
    BY <1>6, Says
  <2>2. k \in Nat /\ Len(turn.given) = k
    BY <1>0, LenProperties DEF GivenAll
  <2>3. /\ Len(turn'.given) = k + 1 /\ turn'.given[k + 1] = turn.logits
        /\ \A i \in 1 .. k : turn'.given[i] = turn.given[i]
    BY <1>0, <2>1, <2>2, AppendProperties
  <2>4. /\ Len(turn'.out) = k + 1
        /\ \A n \in 0 .. k : SubSeq(turn'.out, 1, n) = SubSeq(out, 1, n)
    BY <1>0, <2>1, Ends
  <2>5. SubSeq(out, 1, k) = out
    BY <1>0, SubSeqFull
  <2>6. ASSUME ~broken, NEW i \in 1 .. k + 1, NEW l \in L
        PROVE  turn'.given[i][l] = turn.ids \o SubSeq(turn'.out, 1, i - 1)
    <3>1. CASE i = k + 1
      <4>1. turn.logits[l] = turn.ids \o out
        <5>1. turn.logits = cache /\ cache[l] = Read
          BY <2>1, <2>6 DEF Holds
        <5> QED BY <2>1, <5>1, ReadIs
      <4>2. i - 1 = k /\ k \in 0 .. k
        BY <2>2, <3>1
      <4>3. SubSeq(turn'.out, 1, i - 1) = out
        BY <2>4, <2>5, <4>2
      <4> HIDE DEF out, k
      <4> QED BY <2>3, <3>1, <4>1, <4>3
    <3>2. CASE i # k + 1
      <4>1. i \in 1 .. k /\ i - 1 \in 0 .. k
        BY <2>2, <2>6, <3>2
      <4>2. turn.given[i][l] = turn.ids \o SubSeq(out, 1, i - 1)
        BY <2>6, <4>1 DEF GivenAll
      <4>3. turn'.given[i] = turn.given[i] /\ SubSeq(turn'.out, 1, i - 1) = SubSeq(out, 1, i - 1)
        BY <2>3, <2>4, <4>1
      <4> HIDE DEF out, k
      <4> QED BY <4>2, <4>3
    <3> QED BY <3>1, <3>2
  <2> HIDE DEF out, k
  <2> QED BY <2>1, <2>3, <2>4, <2>6 DEF GivenAll
<1>7. CASE End \/ Stop
  BY <1>7, <1>e, Finishes, NoTurnIs
<1>8. CASE Break
  BY <1>8, <1>e, Breaks, NoTurnIs
<1>9. CASE Between
  BY <1>9, <1>e, BetweenTurns, NoTurnIs
<1>10. CASE Refuse
  BY <1>10, <1>s, Refuses
<1> QED BY <1>1, <1>2, <1>3, <1>4, <1>5, <1>6, <1>7, <1>8, <1>9, <1>10, Steps

\* A session that has just been opened has the invariant.
LEMMA InvInit == ASSUME Init PROVE IInv
<1>1. TypeOK
  BY TypeInit
<1>2. Control /\ Asks
  BY NoTurnIs DEF Init, Control, Asks
<1>3. Holds
  BY ReadIs DEF Init, Holds, Empty
<1>4. GivenAll
  <2>1. turn.out = <<>> /\ turn.given = <<>>
    BY NoTurnIs DEF Init
  <2>2. Len(turn.out) = 0 /\ Len(turn.given) = 0
    BY <2>1
  <2> QED BY <2>2 DEF GivenAll
<1> QED BY <1>1, <1>2, <1>3, <1>4 DEF IInv

\* Every step keeps the invariant.
LEMMA InvNext == ASSUME IInv, [Next]_vars PROVE IInv'
<1> USE DEF IInv
<1>1. CASE Next
  BY <1>1, TypeStep, ControlStep, AsksStep, HoldsStep, GivenStep
<1>2. CASE UNCHANGED vars
  <2>1. /\ messages' = messages /\ last' = last /\ outcome' = outcome /\ busy' = busy /\ pc' = pc
        /\ turn' = turn /\ fed' = fed /\ cache' = cache /\ broken' = broken
    BY <1>2 DEF vars
  <2>2. TypeOK'
    BY <2>1 DEF TypeOK
  <2>3. Control' /\ Asks'
    BY <2>1 DEF Control, Asks
  <2>4. Read' = Read
    BY <2>1 DEF Read
  <2>5. Holds' /\ GivenAll'
    BY <2>1, <2>4 DEF Holds, GivenAll
  <2> QED BY <2>2, <2>3, <2>5
<1> QED BY <1>1, <1>2

\* The invariant holds throughout: between turns and in them.
THEOREM Inductive == Spec => []IInv
<1>1. Init => IInv
  BY InvInit
<1>2. IInv /\ [Next]_vars => IInv'
  BY InvNext
<1> QED BY <1>1, <1>2, PTL DEF Spec

---------------------------------------------------------------------------
(* The theorems.                                                           *)

\* Every variable keeps its type: what a turn and a transcript are made of stays tokens
\* and messages whatever is said, loaded, stopped or broken off (session.rs, engine.rs).
THEOREM SessionTypeOK == Spec => []TypeOK
<1>1. IInv => TypeOK
  BY DEF IInv
<1> QED BY <1>1, Inductive, PTL

\* engine.rs:27: between turns, while no pass has failed, every layer has taken in exactly
\* the tokens `fed` says, for any number of layers, chunk, transcripts and replies.
THEOREM SessionCacheIsFed == Spec => []CacheIsFed
<1>1. IInv => CacheIsFed
  BY ReadIs DEF IInv, Holds, CacheIsFed
<1> QED BY <1>1, Inductive, PTL

---------------------------------------------------------------------------
(* A session implements module Chat.                                       *)

\* What Chat makes of a transcript is what Session does: both are module Prompt's.
LEMMA SamePrompts ==
  /\ \A ms, o : Whole!Render(ms, o) = Render(ms, o)
  /\ \A out, think : Whole!Assistant(out, think) = Assistant(out, think)
  /\ \A u : Whole!User(u) = User(u)
  /\ \A s : Whole!System(s) = System(s)
  /\ \A ms : Whole!HasSystem(ms) <=> HasSystem(ms)
  /\ Whole!Said = Said /\ Whole!NoLast = NoLast
<1>1. \A ms : Whole!HasSystem(ms) <=> HasSystem(ms)
  BY DEF Whole!HasSystem, HasSystem
<1>2. /\ \A S : Whole!Max(S) = Max(S)
      /\ \A S : Whole!Min(S) = Min(S)
  BY DEF Whole!Max, Max, Whole!Min, Min
<1>3. \A t : Whole!Solid(t) = Solid(t)
  BY DEF Whole!Solid, Solid
<1>4. \A t : Whole!Trim(t) = Trim(t)
  BY <1>2, <1>3, Zenon DEF Whole!Trim, Trim
<1>5. \A ms, o : Whole!SystemBlock(ms, o) = SystemBlock(ms, o)
  BY <1>1, <1>4, Zenon DEF Whole!SystemBlock, SystemBlock
<1>6. \A ms : Whole!LastUser(ms) = LastUser(ms)
  BY <1>1, <1>2, Zenon DEF Whole!LastUser, LastUser
<1>7. \A m, keep : Whole!Block(m, keep) = Block(m, keep)
  BY <1>4, Zenon DEF Whole!Block, Block
<1>8. \A ms, keep : Whole!Body(ms, keep) = Body(ms, keep)
  BY <1>6, <1>7, Zenon DEF Whole!Body, Body
<1>9. \A think : Whole!Opening(think) = Opening(think)
  BY Zenon DEF Whole!Opening, Opening
<1>10. \A ms, o : Whole!Render(ms, o) = Render(ms, o)
  BY <1>5, <1>8, <1>9, Zenon DEF Whole!Render, Render
<1>11. \A out, think : Whole!Assistant(out, think) = Assistant(out, think)
  BY <1>2, <1>4, Zenon DEF Whole!Assistant, Assistant, SelectInSeq, Whole!SelectInSeq
<1>12. /\ \A u : Whole!User(u) = User(u)
       /\ \A s : Whole!System(s) = System(s)
       /\ Whole!Said = Said /\ Whole!NoLast = NoLast
  BY DEF Whole!User, User, Whole!System, System, Whole!Said, Said, Whole!NoLast, NoLast
<1> QED BY <1>1, <1>10, <1>11, <1>12

\* What Chat sees of a session: the transcript without the question of a turn under way,
\* and of a completion what every layer had taken in before each token.
Transcript == IF turn.kind = "send" THEN Front(messages) ELSE messages

Reply == IF last = NoLast THEN NoLast
         ELSE [last EXCEPT !.given = [i \in DOMAIN @ |-> Heard(@[i])]]

\* Chat's actions, in those terms.
LEMMA WholeIs ==
  /\ Whole!Init <=> Transcript = <<>> /\ Reply = NoLast /\ outcome = "ok" /\ broken = FALSE
  /\ UNCHANGED Whole!vars <=> /\ Transcript' = Transcript /\ Reply' = Reply
                              /\ outcome' = outcome /\ broken' = broken
  /\ Whole!Refresh <=> /\ broken' = FALSE
                       /\ Transcript' = Transcript /\ Reply' = Reply /\ outcome' = outcome
  /\ Whole!Fail <=> /\ outcome' = "error" /\ broken' \in {broken, TRUE}
                    /\ Transcript' = Transcript /\ Reply' = Reply
  /\ Whole!Reset <=> /\ Transcript' = IF HasSystem(Transcript) THEN <<Transcript[1]>> ELSE <<>>
                     /\ Reply' = NoLast /\ outcome' = "ok" /\ broken' = FALSE
  /\ Whole!DropSystem <=> /\ HasSystem(Transcript) /\ Transcript' = Tail(Transcript)
                          /\ outcome' = "ok" /\ broken' = FALSE /\ Reply' = Reply
<1>1. Whole!NoLast = NoLast /\ \A ms : Whole!HasSystem(ms) <=> HasSystem(ms)
  BY SamePrompts
<1>2. Whole!Init <=> Transcript = <<>> /\ Reply = NoLast /\ outcome = "ok" /\ broken = FALSE
  BY <1>1 DEF Whole!Init, Transcript, Reply
<1>3. UNCHANGED Whole!vars <=> /\ Transcript' = Transcript /\ Reply' = Reply
                               /\ outcome' = outcome /\ broken' = broken
  BY DEF Whole!vars, Transcript, Reply
<1>4. Whole!Refresh <=> /\ broken' = FALSE
                        /\ Transcript' = Transcript /\ Reply' = Reply /\ outcome' = outcome
  BY DEF Whole!Refresh, Transcript, Reply
<1>5. Whole!Fail <=> /\ outcome' = "error" /\ broken' \in {broken, TRUE}
                     /\ Transcript' = Transcript /\ Reply' = Reply
  BY DEF Whole!Fail, Transcript, Reply
<1>6. Whole!Reset <=> /\ Transcript' = IF HasSystem(Transcript) THEN <<Transcript[1]>> ELSE <<>>
                      /\ Reply' = NoLast /\ outcome' = "ok" /\ broken' = FALSE
  BY <1>1, Zenon DEF Whole!Reset, Transcript, Reply
<1>7. Whole!DropSystem <=> /\ HasSystem(Transcript) /\ Transcript' = Tail(Transcript)
                           /\ outcome' = "ok" /\ broken' = FALSE /\ Reply' = Reply
  BY <1>1, Zenon DEF Whole!DropSystem, Transcript, Reply
<1> QED BY <1>2, <1>3, <1>4, <1>5, <1>6, <1>7

\* What Chat's actions without a reply are in terms of a session.
LEMMA WholeTurnsAre ==
  /\ Whole!Panic <=> /\ outcome' = "panic" /\ broken' \in {broken, TRUE}
                     /\ \/ Transcript' = Transcript
                        \/ \E u \in Users : Transcript' = Append(Transcript, User(u))
                     /\ Reply' = Reply
  /\ \A s : Whole!SetSystem(s) <=>
       /\ Transcript' = <<System(s)>> \o (IF HasSystem(Transcript) THEN Tail(Transcript) ELSE Transcript)
       /\ outcome' = "ok" /\ broken' = FALSE /\ Reply' = Reply
  /\ \A m : Whole!Load(m) <=> /\ Transcript' = m /\ Reply' = NoLast
                              /\ outcome' = "ok" /\ broken' = FALSE
<1>1. /\ Whole!NoLast = NoLast /\ \A ms : Whole!HasSystem(ms) <=> HasSystem(ms)
      /\ \A s : Whole!System(s) = System(s)
      /\ \A u : Whole!User(u) = User(u)
  BY SamePrompts
<1>2. Whole!Panic <=> /\ outcome' = "panic" /\ broken' \in {broken, TRUE}
                      /\ \/ Transcript' = Transcript
                         \/ \E u \in Users : Transcript' = Append(Transcript, User(u))
                      /\ Reply' = Reply
  BY <1>1 DEF Whole!Panic, Transcript, Reply
<1>3. ASSUME NEW s
      PROVE  Whole!SetSystem(s) <=>
               /\ Transcript' = <<System(s)>> \o (IF HasSystem(Transcript) THEN Tail(Transcript) ELSE Transcript)
               /\ outcome' = "ok" /\ broken' = FALSE /\ Reply' = Reply
  BY <1>1, Zenon DEF Whole!SetSystem, Whole!WithSystem, Transcript, Reply
<1>4. ASSUME NEW m
      PROVE  Whole!Load(m) <=> /\ Transcript' = m /\ Reply' = NoLast
                               /\ outcome' = "ok" /\ broken' = FALSE
  BY <1>1, Zenon DEF Whole!Load, Transcript, Reply
<1> QED BY <1>2, <1>3, <1>4

\* What a whole turn of Chat is in terms of a session.
LEMMA WholeSends ==
  ASSUME NEW u, NEW o, NEW out
  PROVE  Whole!Send(u, o, out) <=>
           /\ Transcript' = Transcript \o <<User(u), Assistant(out, o.think)>>
           /\ outcome' = "ok" /\ Reply'.kind = "send" /\ Reply'.opts = o /\ Reply'.out = out
           /\ \/ broken
              \/ Reply'.given = [i \in 1 .. Len(out) |->
                                   Encode(Render(Append(Transcript, User(u)), o)) \o SubSeq(out, 1, i - 1)]
           /\ broken' = broken
<1>1. /\ \A ms : Whole!Render(ms, o) = Render(ms, o)
      /\ Whole!Assistant(out, o.think) = Assistant(out, o.think) /\ Whole!User(u) = User(u)
  BY SamePrompts, Zenon
<1> QED BY <1>1, Zenon DEF Whole!Send, Whole!Completes, Whole!Reads, Whole!Given, Transcript, Reply

\* What a whole completion of Chat is in terms of a session.
LEMMA WholeGenerates ==
  ASSUME NEW p, NEW o, NEW out
  PROVE  Whole!Generate(p, o, out) <=>
           /\ outcome' = "ok" /\ Reply'.kind = "raw" /\ Reply'.opts = o /\ Reply'.out = out
           /\ \/ broken
              \/ Reply'.given = [i \in 1 .. Len(out) |-> Encode(p) \o SubSeq(out, 1, i - 1)]
           /\ Transcript' = Transcript /\ broken' = broken
BY Zenon DEF Whole!Generate, Whole!Completes, Whole!Reads, Whole!Given, Transcript, Reply

\* The completion of a turn, as Chat has it.
LEMMA Replies ==
  ASSUME TypeOK, Control, GivenAll, pc # "idle", Finish(turn)
  PROVE  /\ Reply'.kind = turn.kind /\ Reply'.opts = turn.opts /\ Reply'.out = turn.out
         /\ \/ broken
            \/ Reply'.given = [i \in 1 .. Len(turn.out) |-> turn.ids \o SubSeq(turn.out, 1, i - 1)]
<1> DEFINE done == [kind |-> turn.kind, opts |-> turn.opts, out |-> turn.out, given |-> turn.given]
           heard == [i \in DOMAIN turn.given |-> Heard(turn.given[i])]
<1>1. last' = done /\ done # NoLast
  BY DEF Finish, NoLast
<1>2. Reply' = [done EXCEPT !.given = heard]
  BY <1>1, Zenon DEF Reply, Heard
<1>3. Reply'.kind = turn.kind /\ Reply'.opts = turn.opts /\ Reply'.out = turn.out /\ Reply'.given = heard
  <2> HIDE DEF heard
  <2> QED BY <1>2
<1>4. ASSUME ~broken
      PROVE  heard = [i \in 1 .. Len(turn.out) |-> turn.ids \o SubSeq(turn.out, 1, i - 1)]
  <2>1. turn.given \in Seq(Cache) /\ turn.out \in Seq(Said)
    BY DEF TypeOK
  <2>2. DOMAIN turn.given = 1 .. Len(turn.out)
    BY <2>1 DEF GivenAll
  <2>3. ASSUME NEW i \in 1 .. Len(turn.out)
        PROVE  Heard(turn.given[i]) = turn.ids \o SubSeq(turn.out, 1, i - 1)
    <3>1. \A l \in L : turn.given[i][l] = turn.ids \o SubSeq(turn.out, 1, i - 1)
      BY <1>4, <2>3 DEF GivenAll
    <3>2. 1 \in L
      BY LayersAreSome DEF L
    <3>3. \A l \in L : turn.given[i][l] = turn.given[i][1]
      BY <3>1, <3>2, Zenon
    <3> QED BY <3>1, <3>2, <3>3, Zenon DEF Heard
  <2> QED BY <2>2, <2>3, Zenon
<1> HIDE DEF heard
<1> QED BY <1>3, <1>4

\* What a turn has said is a reply Chat allows.
LEMMA OutsHas ==
  ASSUME TypeOK
  PROVE  turn.out \in Whole!Outs
<1>1. turn.out \in Seq(Said) /\ Len(turn.out) <= MaxTokens
  BY DEF TypeOK
<1>2. Len(turn.out) \in Nat
  BY <1>1, LenProperties
<1>3. Len(turn.out) \in 0 .. MaxTokens
  BY <1>1, <1>2, BoundsAreNat
<1>4. turn.out \in [1 .. Len(turn.out) -> Said]
  BY <1>1, LenProperties
<1>5. Whole!Said = Said
  BY SamePrompts
<1>6. Whole!Outs = UNION {[1 .. n -> Said] : n \in 0 .. MaxTokens}
  BY <1>5 DEF Whole!Outs
<1> QED BY <1>3, <1>4, <1>6, Zenon

\* The system message in its place, by EXCEPT or by what is around it.
LEMMA SystemSet ==
  ASSUME NEW ms \in Seq(Message), HasSystem(ms), NEW m \in Message
  PROVE  [ms EXCEPT ![1] = m] = <<m>> \o Tail(ms)
<1>1. ms # <<>> /\ 1 \in 1 .. Len(ms) /\ Len(ms) \in Nat
  BY EmptySeq, LenProperties DEF HasSystem
<1> DEFINE a == [ms EXCEPT ![1] = m]
           t == Tail(ms)
           b == <<m>> \o t
<1>2. /\ a \in Seq(Message) /\ Len(a) = Len(ms) /\ a[1] = m
      /\ \A i \in 2 .. Len(ms) : a[i] = ms[i]
  BY <1>1, ExceptSeq
<1>3. /\ t \in Seq(Message) /\ Len(t) = Len(ms) - 1 /\ \A i \in 1 .. Len(t) : t[i] = ms[i + 1]
  BY <1>1, HeadTailProperties
<1> HIDE DEF a, t
<1>4. <<m>> \in Seq(Message) /\ Len(<<m>>) = 1 /\ <<m>>[1] = m
  OBVIOUS
<1>5. /\ b \in Seq(Message) /\ Len(b) = 1 + Len(t)
      /\ \A i \in 1 .. 1 + Len(t) : b[i] = IF i <= 1 THEN <<m>>[i] ELSE t[i - 1]
  BY <1>3, <1>4, ConcatProperties
<1> HIDE DEF b
<1>6. Len(a) = Len(b)
  BY <1>1, <1>2, <1>3, <1>5
<1>7. ASSUME NEW i \in 1 .. Len(a) PROVE a[i] = b[i]
  <2>1. CASE i = 1
    <3>1. 1 \in 1 .. 1 + Len(t) /\ 1 <= 1
      BY <1>1, <1>3
    <3>2. b[1] = <<m>>[1]
      BY <1>5, <3>1
    <3> QED BY <1>2, <1>4, <2>1, <3>2
  <2>2. CASE i # 1
    <3>1. i \in 2 .. Len(ms) /\ i \in 1 .. 1 + Len(t) /\ ~(i <= 1) /\ i - 1 \in 1 .. Len(t) /\ (i - 1) + 1 = i
      BY <1>1, <1>2, <1>3, <1>7, <2>2
    <3>2. b[i] = t[i - 1]
      BY <1>5, <3>1
    <3>3. t[i - 1] = ms[(i - 1) + 1]
      BY <1>3, <3>1
    <3> QED BY <1>2, <3>1, <3>2, <3>3
  <2> QED BY <2>1, <2>2
<1>8. a = b
  BY <1>2, <1>5, <1>6, <1>7, SeqEqual
<1> QED BY <1>8 DEF a, b, t

\* A step of a session is a step of Chat or none.
LEMMA WholeStep ==
  ASSUME IInv, Next
  PROVE  Whole!Next \/ UNCHANGED Whole!vars
<1>0. TypeOK /\ Control /\ Asks /\ GivenAll
  BY DEF IInv
<1>m. messages \in Seq(Message)
  BY <1>0 DEF TypeOK
<1>s. ASSUME messages' = messages, turn'.kind = turn.kind, last' = last, outcome' = outcome,
             broken' = broken
      PROVE  UNCHANGED Whole!vars
  BY <1>s, WholeIs DEF Transcript, Reply
<1>n. turn = NoTurn => Transcript = messages
  BY NoTurnIs DEF Transcript
<1>n2. turn' = NoTurn => Transcript' = messages'
  BY NoTurnIs DEF Transcript
<1>l. last' = last => Reply' = Reply
  BY DEF Reply
<1>ln. last' = NoLast => Reply' = NoLast
  BY DEF Reply
<1>1. CASE \/ \E u \in Users, o \in Options : Send(u, o)
           \/ \E p \in Raw, o \in Options : Generate(p, o)
  <2>1. /\ turn = NoTurn /\ last' = last /\ outcome' = outcome
        /\ broken' = broken \/ broken' = FALSE
    BY <1>0, <1>1, Starts, Same DEF ResetEngine
  <2>2. Transcript' = messages
    <3>1. CASE turn'.kind = "send"
      <4>1. PICK u \in Users : messages' = Append(messages, User(u))
        BY <1>0, <1>1, <3>1, Starts
      <4>2. User(u) \in Message
        BY PiecesTyped
      <4>3. Front(messages') = messages
        BY <1>m, <4>1, <4>2, Ends
      <4> QED BY <3>1, <4>3 DEF Transcript
    <3>2. CASE turn'.kind = "raw"
      <4>1. messages' = messages
        BY <1>0, <1>1, <3>2, Starts
      <4> QED BY <3>2, <4>1 DEF Transcript
    <3> QED BY <1>0, <1>1, <3>1, <3>2, Starts
  <2>3. Whole!Refresh \/ UNCHANGED Whole!vars
    BY <1>n, <1>l, <2>1, <2>2, WholeIs
  <2> QED BY <2>3 DEF Whole!Next
<1>2. CASE Feed
  BY <1>0, <1>2, <1>s, Feeds
<1>3. CASE Fed
  BY <1>3, <1>s, FedTo
<1>4. CASE GoOn
  BY <1>4, <1>s, GoesOn
<1>5. CASE Decode
  BY <1>0, <1>5, <1>s, Decodes
<1>6. ASSUME NEW w \in Said, Say(w) PROVE UNCHANGED Whole!vars
  BY <1>0, <1>6, <1>s, Says
<1>7. CASE End \/ Stop
  <2>1. /\ Finish(turn) /\ turn' = NoTurn /\ broken' = broken /\ pc # "idle"
        /\ turn.kind \in {"send", "raw"} /\ turn.opts \in Options /\ outcome' = "ok"
    BY <1>0, <1>7, Finishes DEF TypeOK, Control, Finish
  <2>2. /\ Reply'.kind = turn.kind /\ Reply'.opts = turn.opts /\ Reply'.out = turn.out
        /\ \/ broken
           \/ Reply'.given = [i \in 1 .. Len(turn.out) |-> turn.ids \o SubSeq(turn.out, 1, i - 1)]
    BY <1>0, <2>1, Replies
  <2>3. turn.out \in Whole!Outs
    BY <1>0, OutsHas
  <2>4. CASE turn.kind = "raw"
    <3>1. PICK p \in Raw : turn.ids = Encode(p)
      BY <1>0, <2>4 DEF Asks
    <3>2. Transcript = messages /\ Transcript' = messages
      BY <1>n2, <2>1, <2>4 DEF Transcript, Finish
    <3>3. Whole!Generate(p, turn.opts, turn.out)
      BY <2>1, <2>2, <2>4, <3>1, <3>2, WholeGenerates
    <3> QED BY <2>1, <2>3, <3>1, <3>3, Zenon DEF Whole!Next
  <2>5. CASE turn.kind = "send"
    <3> DEFINE a == Assistant(turn.out, turn.opts.think)
               F == Front(messages)
    <3>1. PICK u \in Users : messages = Append(F, User(u))
      BY <1>0, <2>5 DEF Asks
    <3>2. turn.ids = Encode(Render(messages, turn.opts))
      BY <1>0, <2>5 DEF Asks
    <3>3. Transcript = F
      BY <2>5 DEF Transcript
    <3>4. Transcript' = Append(messages, a)
      BY <1>n2, <2>1, <2>5 DEF Finish
    <3>5. a \in Message /\ User(u) \in Message /\ F \in Seq(Message)
      <4>1. turn.out \in Seq(Said)
        BY <1>0 DEF TypeOK
      <4> QED BY <1>m, <2>1, <4>1, OptionsTyped, AssistantTyped, PiecesTyped, FrontTyped
    <3> HIDE DEF a, F
    <3>6. Append(Append(F, User(u)), a) = F \o <<User(u), a>>
      BY <3>5
    <3>7. Whole!Send(u, turn.opts, turn.out)
      <4>1. Transcript' = Transcript \o <<User(u), a>>
        BY <3>1, <3>3, <3>4, <3>6, Zenon
      <4>2. Encode(Render(Append(Transcript, User(u)), turn.opts)) = turn.ids
        BY <3>1, <3>2, <3>3
      <4> QED BY <2>1, <2>2, <2>5, <4>1, <4>2, WholeSends, Zenon DEF a
    <3> QED BY <2>1, <2>3, <3>7, Zenon DEF Whole!Next
  <2> QED BY <2>1, <2>4, <2>5
<1>8. CASE Break /\ messages' = Pop /\ outcome' = "error"
  <2>1. turn' = NoTurn /\ broken' \in {broken, TRUE} /\ last' = last
    BY <1>8, Breaks
  <2>2. Transcript' = Transcript
    BY <1>8, <1>n2, <2>1 DEF Transcript, Pop
  <2>3. Whole!Fail
    BY <1>8, <1>l, <2>1, <2>2, WholeIs
  <2> QED BY <2>3 DEF Whole!Next
<1>9. CASE Break /\ messages' = messages /\ outcome' = "panic"
  <2>1. turn' = NoTurn /\ broken' \in {broken, TRUE} /\ last' = last
    BY <1>9, Breaks
  <2>2. Transcript' = Transcript \/ \E u \in Users : Transcript' = Append(Transcript, User(u))
    <3>1. CASE turn.kind = "send"
      BY <1>0, <1>9, <1>n2, <2>1, <3>1 DEF Transcript, Asks
    <3>2. CASE turn.kind # "send"
      BY <1>9, <1>n2, <2>1, <3>2 DEF Transcript
    <3> QED BY <3>1, <3>2
  <2>3. Whole!Panic
    BY <1>9, <1>l, <2>1, <2>2, WholeTurnsAre
  <2> QED BY <2>3 DEF Whole!Next
<1>10. ASSUME NEW s \in Systems, SetSystem(s) PROVE Whole!Next
  <2>1. /\ Between /\ last' = last
        /\ messages' = IF HasSystem(messages) THEN [messages EXCEPT ![1] = System(s)]
                                              ELSE <<System(s)>> \o messages
    BY <1>10 DEF SetSystem
  <2>2. turn = NoTurn /\ turn' = NoTurn /\ outcome' = "ok" /\ broken' = FALSE
    BY <1>0, <2>1, BetweenTurns
  <2>3. System(s) \in Message
    BY PiecesTyped
  <2>4. messages' = <<System(s)>> \o (IF HasSystem(messages) THEN Tail(messages) ELSE messages)
    <3>1. CASE HasSystem(messages)
      BY <1>m, <2>1, <2>3, <3>1, SystemSet
    <3>2. CASE ~HasSystem(messages)
      BY <2>1, <3>2
    <3> QED BY <3>1, <3>2
  <2>5. Transcript = messages /\ Transcript' = messages' /\ Reply' = Reply
    BY <1>n, <1>n2, <1>l, <2>1, <2>2
  <2>6. Whole!SetSystem(s)
    BY <2>2, <2>4, <2>5, WholeTurnsAre, Zenon
  <2> QED BY <2>6 DEF Whole!Next
<1>11. CASE DropSystem
  <2>1. Between /\ last' = last /\ HasSystem(messages) /\ messages' = Tail(messages)
    BY <1>11 DEF DropSystem
  <2>2. turn = NoTurn /\ turn' = NoTurn /\ outcome' = "ok" /\ broken' = FALSE
    BY <1>0, <2>1, BetweenTurns
  <2>3. Whole!DropSystem
    BY <1>n, <1>n2, <1>l, <2>1, <2>2, WholeIs
  <2> QED BY <2>3 DEF Whole!Next
<1>12. CASE Reset
  <2>1. /\ Between /\ last' = NoLast
        /\ messages' = IF HasSystem(messages) THEN <<messages[1]>> ELSE <<>>
    BY <1>12 DEF Reset
  <2>2. turn = NoTurn /\ turn' = NoTurn /\ outcome' = "ok" /\ broken' = FALSE
    BY <1>0, <2>1, BetweenTurns
  <2>3. Whole!Reset
    BY <1>n, <1>n2, <1>ln, <2>1, <2>2, WholeIs
  <2> QED BY <2>3 DEF Whole!Next
<1>13. ASSUME NEW m \in Saved, Load(m) PROVE Whole!Next
  <2>1. Between /\ last' = NoLast /\ messages' = m
    BY <1>13 DEF Load
  <2>2. turn = NoTurn /\ turn' = NoTurn /\ outcome' = "ok" /\ broken' = FALSE
    BY <1>0, <2>1, BetweenTurns
  <2>3. Whole!Load(m)
    BY <1>n2, <1>ln, <2>1, <2>2, WholeTurnsAre
  <2> QED BY <2>3 DEF Whole!Next
<1>14. CASE Refuse
  <2>1. Transcript' = Transcript /\ Reply' = Reply
    BY <1>14, Refuses DEF Transcript, Reply
  <2>2. Whole!Fail
    BY <1>14, <2>1, Refuses, WholeIs
  <2> QED BY <2>2 DEF Whole!Next
<1> QED BY <1>1, <1>2, <1>3, <1>4, <1>5, <1>6, <1>7, <1>8, <1>9, <1>10, <1>11, <1>12, <1>13, <1>14
        DEF Next, Fail, Panic

\* session.rs:265-266 and engine.rs:147-149: a session implements module Chat, in which a
\* turn is one step that leaves the transcript as it was or extends it by the question and
\* the answer, and each token of a reply is said after the whole of the prompt and of the
\* reply so far: whatever the cache kept, the chunks, the callbacks and the calls in them.
THEOREM SessionTakesWholeTurns == Spec => TakesWholeTurns
<1>1. Init => Whole!Init
  BY NoTurnIs, WholeIs DEF Init, Transcript, Reply
<1>2. IInv /\ [Next]_vars => [Whole!Next]_Whole!vars
  <2>1. CASE Next
    BY <2>1, WholeStep
  <2>2. ASSUME UNCHANGED vars PROVE UNCHANGED Whole!vars
    <3>1. messages' = messages /\ turn' = turn /\ last' = last /\ outcome' = outcome /\ broken' = broken
      BY <2>2 DEF vars
    <3> QED BY <3>1, WholeIs DEF Transcript, Reply
  <2> QED BY <2>1, <2>2
<1> QED BY <1>1, <1>2, Inductive, PTL DEF Spec, Whole!Spec, TakesWholeTurns

=============================================================================
