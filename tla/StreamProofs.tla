---------------------------- MODULE StreamProofs ----------------------------
(***************************************************************************)
(* The properties of module Stream, for any tokens and any number of them. *)
(* That chunks do not matter is no invariant of the reply's end alone: it  *)
(* rests on what the splitter holds at each token, which is as much of the *)
(* text as could still become the tag and no more, so that the tag is      *)
(* found where it is in the whole text.                                    *)
(***************************************************************************)
EXTENDS Stream, SequenceTheorems, FiniteSetTheorems, WellFoundedInduction, TLAPS

\* What the detokenizer has let go.
Out == SubSeq(text, 1, emitted)

\* Inside the reasoning nothing but the longest beginning of the tag is held back.
Open(out, s) ==
  /\ Places(out, EndThink) = {}
  /\ out = s.reasoning \o s.pending /\ s.answer = <<>>
  /\ s.pending = SubSeq(EndThink, 1, Len(s.pending))
  /\ \A n \in Len(s.pending) + 1 .. Len(EndThink) - 1 : ~Ends(out, SubSeq(EndThink, 1, n))

\* a is t but for line ends before it.
Tailed(a, t) ==
  /\ Len(a) <= Len(t)
  /\ \A k \in 1 .. Len(a) : a[k] = t[Len(t) - Len(a) + k]
  /\ \A k \in 1 .. Len(t) - Len(a) : t[k] = "n"

\* After it, the reasoning is what is before the first tag, and the answer what is after.
Closed(out, s) ==
  /\ Find(out, EndThink) # 0
  /\ s.pending = <<>>
  /\ s.reasoning = SubSeq(out, 1, Find(out, EndThink) - 1)
  /\ Tailed(s.answer, From(out, Find(out, EndThink) + Len(EndThink)))

Splits ==
  /\ reader = "turn" => ~split.in
  /\ reader = "session" /\ state # "done" =>
       /\ split.in  => Open(Out, split) /\ heard.reasoning = split.reasoning
       /\ ~split.in => Closed(Out, split) /\ heard.reasoning = split.reasoning

\* Once a reader has said stop there is nothing left to hand over.
Quiet == ~late /\ (state = "stopped" => emitted = Len(text))

\* What a turn's reader was shown did not end within a call.
ShownInTheOpen ==
  \A s \in shown : reader = "turn" /\ ~InCall(SubSeq(text, 1, s[2]))

IInv == TypeOK /\ Splits /\ Quiet /\ ShownInTheOpen /\ ChunksDoNotMatter

---------------------------------------------------------------------------
(* Pieces of text, place by place.                                         *)

\* Texts, and the tags looked for in them.
Signs == Symbols \union {"<", "/", "t", "c", ">"}

\* The least number principle.
LEMMA Least ==
  ASSUME NEW T, T \subseteq Nat, T # {}
  PROVE  \E n \in T : \A m \in T : n <= m
<1> DEFINE R == {ss \in Nat \X Nat : ss[1] < ss[2]}
<1>1. IsWellFoundedOn(R, Nat)
  BY NatLessThanWellFounded DEF OpToRel
<1> HIDE DEF R
<1>2. PICK n \in T : \A m \in T : <<m, n>> \notin R
  BY <1>1, WFMin
<1>3. \A m \in T : ~(m < n)
  BY <1>2 DEF R
<1> QED BY <1>3

\* Places of a text have a first.
LEMMA MinIs ==
  ASSUME NEW T, T \subseteq Nat, T # {}
  PROVE  Min(T) \in T /\ \A m \in T : Min(T) <= m
BY Least DEF Min

\* The last of them.
LEMMA MaxIs ==
  ASSUME NEW n \in Nat, NEW T, T \subseteq 0 .. n, T # {}
  PROVE  Max(T) \in T /\ \A m \in T : m <= Max(T)
<1> DEFINE D == {n - m : m \in T}
<1>0. \A m \in T : n - m \in Nat
  OBVIOUS
<1>1. D \subseteq Nat /\ D # {}
  BY <1>0, Zenon
<1>2. PICK d \in D : \A e \in D : d <= e
  <2> HIDE DEF D
  <2> QED BY <1>1, Least
<1>3. PICK x \in T : d = n - x
  BY <1>2
<1>4. \A m \in T : x >= m
  <2> TAKE m \in T
  <2>1. d <= n - m
    BY <1>2
  <2> QED BY <1>3, <2>1
<1>5. Max(T) \in T /\ \A m \in T : Max(T) >= m
  <2> HIDE DEF D
  <2>1. \E y \in T : \A m \in T : y >= m
    BY <1>4
  <2> QED BY <2>1 DEF Max
<1>6. T \subseteq Int
  OBVIOUS
<1> QED BY <1>5, <1>6

\* A piece of a text.
LEMMA Piece ==
  ASSUME NEW S, NEW t \in Seq(S), NEW i \in 1 .. Len(t) + 1, NEW j \in i - 1 .. Len(t)
  PROVE  /\ SubSeq(t, i, j) \in Seq(S) /\ Len(SubSeq(t, i, j)) = j - i + 1
         /\ \A k \in 1 .. j - i + 1 : SubSeq(t, i, j)[k] = t[i + k - 1]
<1>1. Len(t) \in Nat /\ i \in Int /\ j \in Int /\ \A k \in i .. j : t[k] \in S
  OBVIOUS
<1>2. /\ SubSeq(t, i, j) \in Seq(S)
      /\ Len(SubSeq(t, i, j)) = IF i <= j THEN j - i + 1 ELSE 0
      /\ \A k \in 1 .. j - i + 1 : SubSeq(t, i, j)[k] = t[i + k - 1]
  BY <1>1, SubSeqProperties
<1> QED BY <1>1, <1>2

\* The rest of a text.
LEMMA Rest ==
  ASSUME NEW S, NEW t \in Seq(S), NEW i \in 1 .. Len(t) + 1
  PROVE  /\ From(t, i) \in Seq(S) /\ Len(From(t, i)) = Len(t) - i + 1
         /\ \A k \in 1 .. Len(t) - i + 1 : From(t, i)[k] = t[i + k - 1]
BY Piece DEF From

\* Two texts with the same signs are the same.
LEMMA Equal ==
  ASSUME NEW S, NEW s \in Seq(S), NEW t \in Seq(S), Len(s) = Len(t),
         \A k \in 1 .. Len(s) : s[k] = t[k]
  PROVE  s = t
BY SeqEqual

\* The tags, sign by sign.
LEMMA TagsAre ==
  /\ EndThink \in Seq(Signs) /\ Len(EndThink) = 4
  /\ EndThink[1] = "<" /\ EndThink[2] = "/" /\ EndThink[3] = "t" /\ EndThink[4] = ">"
  /\ OpenCall \in Seq(Signs) /\ Len(OpenCall) = 3
  /\ OpenCall[1] = "<" /\ OpenCall[2] = "c" /\ OpenCall[3] = ">"
  /\ CloseCall \in Seq(Signs) /\ Len(CloseCall) = 4
  /\ CloseCall[1] = "<" /\ CloseCall[2] = "/" /\ CloseCall[3] = "c" /\ CloseCall[4] = ">"
<1>1. \A c \in {"<", "/", "t", ">", "c"} : c \in Signs
  BY DEF Signs
<1>2. EndThink \in Seq(Signs) /\ OpenCall \in Seq(Signs) /\ CloseCall \in Seq(Signs)
  BY <1>1 DEF EndThink, OpenCall, CloseCall
<1>3. /\ Len(EndThink) = 4 /\ Len(OpenCall) = 3 /\ Len(CloseCall) = 4
  BY DEF EndThink, OpenCall, CloseCall
<1> QED BY <1>2, <1>3 DEF EndThink, OpenCall, CloseCall

\* Where a tag is in a text.
LEMMA PlacesAre ==
  ASSUME NEW t \in Seq(Signs), NEW tag \in Seq(Signs), tag # <<>>
  PROVE  \A i : i \in Places(t, tag) <=>
           /\ i \in 1 .. Len(t) /\ i + Len(tag) - 1 <= Len(t)
           /\ \A k \in 1 .. Len(tag) : t[i + k - 1] = tag[k]
<1>1. Len(t) \in Nat /\ Len(tag) \in Nat \ {0}
  BY EmptySeq
<1>2. SubSeq(tag, 1, Len(tag)) = tag
  BY SubSeqFull
<1>3. ASSUME NEW i \in 1 .. Len(t)
      PROVE  IsPrefix(tag, From(t, i)) <=>
               /\ i + Len(tag) - 1 <= Len(t)
               /\ \A k \in 1 .. Len(tag) : t[i + k - 1] = tag[k]
  <2>1. /\ From(t, i) \in Seq(Signs) /\ Len(From(t, i)) = Len(t) - i + 1
        /\ \A k \in 1 .. Len(t) - i + 1 : From(t, i)[k] = t[i + k - 1]
    BY <1>1, <1>3, Rest
  <2>2. Len(tag) <= Len(From(t, i)) <=> i + Len(tag) - 1 <= Len(t)
    BY <1>1, <2>1
  <2>3. CASE Len(tag) <= Len(From(t, i))
    <3> DEFINE p == SubSeq(From(t, i), 1, Len(tag))
    <3>1. /\ p \in Seq(Signs) /\ Len(p) = Len(tag)
          /\ \A k \in 1 .. Len(tag) : p[k] = From(t, i)[1 + k - 1]
      <4>1. Len(tag) \in 1 - 1 .. Len(From(t, i)) /\ 1 \in 1 .. Len(From(t, i)) + 1
        BY <1>1, <2>1, <2>3
      <4> QED BY <1>1, <2>1, <4>1, Piece
    <3>2. \A k \in 1 .. Len(tag) : p[k] = t[i + k - 1]
      BY <1>1, <2>1, <2>3, <3>1
    <3> HIDE DEF p
    <3>3. tag = p <=> \A k \in 1 .. Len(tag) : p[k] = tag[k]
      BY <3>1, Equal
    <3> QED BY <1>2, <2>2, <2>3, <3>2, <3>3 DEF IsPrefix, p
  <2> QED BY <2>2, <2>3 DEF IsPrefix
<1> QED BY <1>3 DEF Places

\* What a text ends with.
LEMMA EndsAre ==
  ASSUME NEW t \in Seq(Signs), NEW s \in Seq(Signs)
  PROVE  Ends(t, s) <=> /\ Len(s) <= Len(t)
                        /\ \A k \in 1 .. Len(s) : t[Len(t) - Len(s) + k] = s[k]
<1>1. Len(t) \in Nat /\ Len(s) \in Nat
  OBVIOUS
<1>2. CASE Len(s) <= Len(t)
  <2> DEFINE i == Len(t) - Len(s) + 1
             p == From(t, i)
  <2>1. i \in 1 .. Len(t) + 1
    BY <1>1, <1>2
  <2>2. /\ p \in Seq(Signs) /\ Len(p) = Len(t) - i + 1
        /\ \A k \in 1 .. Len(t) - i + 1 : p[k] = t[i + k - 1]
    BY <2>1, Rest
  <2>3. Len(p) = Len(s) /\ \A k \in 1 .. Len(s) : p[k] = t[Len(t) - Len(s) + k]
    BY <1>1, <2>2
  <2> HIDE DEF p
  <2>4. p = s <=> \A k \in 1 .. Len(s) : p[k] = s[k]
    BY <2>2, <2>3, Equal
  <2> QED BY <1>2, <2>3, <2>4 DEF Ends, p
<1> QED BY <1>2 DEF Ends

\* find: the first place of a tag, if it has any.
LEMMA FindIs ==
  ASSUME NEW t \in Seq(Signs), NEW tag
  PROVE  /\ Find(t, tag) = 0 <=> Places(t, tag) = {}
         /\ Places(t, tag) # {} => /\ Find(t, tag) \in Places(t, tag)
                                   /\ \A i \in Places(t, tag) : Find(t, tag) <= i
         /\ Find(t, tag) \in 0 .. Len(t)
<1>1. Places(t, tag) \subseteq 1 .. Len(t) /\ Len(t) \in Nat
  BY DEF Places
<1>2. Places(t, tag) # {} => /\ Min(Places(t, tag)) \in Places(t, tag)
                             /\ \A i \in Places(t, tag) : Min(Places(t, tag)) <= i
  <2>1. Places(t, tag) \subseteq Nat
    BY <1>1
  <2> QED BY <2>1, MinIs
<1>3. Places(t, tag) # {} => Min(Places(t, tag)) \in 1 .. Len(t)
  BY <1>1, <1>2
<1> QED BY <1>1, <1>2, <1>3 DEF Find

---------------------------------------------------------------------------
(* The splitter.                                                           *)

\* The last n signs of a text are the first n of the tag.
Typed(t, n) == n <= Len(t) /\ \A k \in 1 .. n : t[Len(t) - n + k] = EndThink[k]

\* A beginning of the tag.
LEMMA Beginning ==
  ASSUME NEW n \in 0 .. 3
  PROVE  /\ SubSeq(EndThink, 1, n) \in Seq(Signs) /\ Len(SubSeq(EndThink, 1, n)) = n
         /\ \A k \in 1 .. n : SubSeq(EndThink, 1, n)[k] = EndThink[k]
<1>1. n \in 1 - 1 .. Len(EndThink) /\ 1 \in 1 .. Len(EndThink) + 1 /\ n \in Nat
  BY TagsAre
<1>2. /\ SubSeq(EndThink, 1, n) \in Seq(Signs) /\ Len(SubSeq(EndThink, 1, n)) = n - 1 + 1
      /\ \A k \in 1 .. n - 1 + 1 : SubSeq(EndThink, 1, n)[k] = EndThink[1 + k - 1]
  BY <1>1, TagsAre, Piece
<1> QED BY <1>1, <1>2

\* To end with a beginning of the tag, one way and the other.
LEMMA TypedIs ==
  ASSUME NEW t \in Seq(Signs), NEW n \in 0 .. 3
  PROVE  Ends(t, SubSeq(EndThink, 1, n)) <=> Typed(t, n)
<1> DEFINE b == SubSeq(EndThink, 1, n)
<1>1. b \in Seq(Signs) /\ Len(b) = n /\ \A k \in 1 .. n : b[k] = EndThink[k]
  BY Beginning
<1> HIDE DEF b
<1>2. Ends(t, b) <=> Len(b) <= Len(t) /\ \A k \in 1 .. Len(b) : t[Len(t) - Len(b) + k] = b[k]
  BY <1>1, EndsAre
<1>3. Ends(t, b) <=> Typed(t, n)
  BY <1>1, <1>2 DEF Typed
<1> QED BY <1>3 DEF b

\* longest_prefix_suffix: the longest beginning of the tag the text ends with.
LEMMA HoldIs ==
  ASSUME NEW t \in Seq(Signs)
  PROVE  /\ Hold(t) \in 0 .. 3 /\ Typed(t, Hold(t))
         /\ \A n \in Hold(t) + 1 .. 3 : ~Typed(t, n)
<1> DEFINE T == {0} \union {n \in 1 .. 3 : Ends(t, SubSeq(EndThink, 1, n))}
<1>1. T \subseteq 0 .. 3 /\ 0 \in T /\ T # {} /\ 3 \in Nat
  OBVIOUS
<1>2. Hold(t) = Max(T)
  BY TagsAre DEF Hold
<1>3. \A n \in 1 .. 3 : n \in T <=> Typed(t, n)
  BY TypedIs
<1>4. Typed(t, 0)
  BY DEF Typed
<1> HIDE DEF T
<1>5. Max(T) \in T /\ \A m \in T : m <= Max(T)
  BY <1>1, MaxIs
<1>6. \A n \in Max(T) + 1 .. 3 : ~Typed(t, n)
  <2> TAKE n \in Max(T) + 1 .. 3
  <2>1. Max(T) \in 0 .. 3
    BY <1>1, <1>5
  <2>2. n \in 1 .. 3 /\ ~(n <= Max(T))
    BY <2>1
  <2> QED BY <1>3, <1>5, <2>2
<1>7. Max(T) \in 0 .. 3
  BY <1>1, <1>5
<1> QED BY <1>2, <1>3, <1>4, <1>5, <1>6, <1>7

\* Two texts, one after the other.
LEMMA Joined ==
  ASSUME NEW S, NEW r \in Seq(S), NEW a \in Seq(S)
  PROVE  /\ r \o a \in Seq(S) /\ Len(r \o a) = Len(r) + Len(a)
         /\ Len(r) \in Nat /\ Len(a) \in Nat /\ Len(r \o a) \in Nat
         /\ \A k \in 1 .. Len(r) : (r \o a)[k] = r[k]
         /\ \A k \in 1 .. Len(a) : (r \o a)[Len(r) + k] = a[k]
<1>1. Len(r) \in Nat /\ Len(a) \in Nat
  OBVIOUS
<1>2. /\ r \o a \in Seq(S) /\ Len(r \o a) = Len(r) + Len(a)
      /\ \A i \in 1 .. Len(r) + Len(a) :
           (r \o a)[i] = IF i <= Len(r) THEN r[i] ELSE a[i - Len(r)]
  BY ConcatProperties
<1> QED BY <1>1, <1>2

\* Where a tag of n signs is.
LEMMA TagPlaces ==
  ASSUME NEW t \in Seq(Signs), NEW tag \in Seq(Signs), NEW n \in Nat, n >= 1, Len(tag) = n
  PROVE  \A i : i \in Places(t, tag) <=>
           /\ i \in 1 .. Len(t) /\ i + (n - 1) <= Len(t)
           /\ \A k \in 1 .. n : t[i + k - 1] = tag[k]
<1>1. tag # <<>>
  BY EmptySeq
<1>2. \A i : i \in Places(t, tag) <=>
           /\ i \in 1 .. Len(t) /\ i + Len(tag) - 1 <= Len(t)
           /\ \A k \in 1 .. Len(tag) : t[i + k - 1] = tag[k]
  BY <1>1, PlacesAre
<1>3. Len(t) \in Nat /\ \A i \in 1 .. Len(t) : i + Len(tag) - 1 = i + (n - 1)
  OBVIOUS
<1> TAKE i
<1>4. CASE i \in 1 .. Len(t)
  BY <1>2, <1>3, <1>4
<1>5. CASE i \notin 1 .. Len(t)
  BY <1>2, <1>5
<1> QED BY <1>4, <1>5

\* Where the tag of the reasoning is.
LEMMA ThinkPlaces ==
  ASSUME NEW t \in Seq(Signs)
  PROVE  \A i : i \in Places(t, EndThink) <=>
           i \in 1 .. Len(t) /\ i + 3 <= Len(t) /\ \A k \in 1 .. 4 : t[i + k - 1] = EndThink[k]
<1> DEFINE tag == EndThink
           n == 4
<1>1. tag \in Seq(Signs) /\ Len(tag) = n /\ n \in Nat /\ n >= 1
  BY TagsAre
<1> HIDE DEF tag, n
<1>2. \A i : i \in Places(t, tag) <=>
           i \in 1 .. Len(t) /\ i + (n - 1) <= Len(t) /\ \A k \in 1 .. n : t[i + k - 1] = tag[k]
  BY <1>1, TagPlaces
<1>3. n - 1 = 3
  BY DEF n
<1> QED BY <1>2, <1>3 DEF tag, n

\* And those of a call: the one that opens it,
LEMMA OpenPlaces ==
  ASSUME NEW t \in Seq(Signs)
  PROVE  \A i : i \in Places(t, OpenCall) <=>
           i \in 1 .. Len(t) /\ i + 2 <= Len(t) /\ \A k \in 1 .. 3 : t[i + k - 1] = OpenCall[k]
<1> DEFINE tag == OpenCall
           n == 3
<1>1. tag \in Seq(Signs) /\ Len(tag) = n /\ n \in Nat /\ n >= 1
  BY TagsAre
<1> HIDE DEF tag, n
<1>2. \A i : i \in Places(t, tag) <=>
           i \in 1 .. Len(t) /\ i + (n - 1) <= Len(t) /\ \A k \in 1 .. n : t[i + k - 1] = tag[k]
  BY <1>1, TagPlaces
<1>3. n - 1 = 2
  BY DEF n
<1> QED BY <1>2, <1>3 DEF tag, n

\* and the one that closes it.
LEMMA ClosePlaces ==
  ASSUME NEW t \in Seq(Signs)
  PROVE  \A i : i \in Places(t, CloseCall) <=>
           i \in 1 .. Len(t) /\ i + 3 <= Len(t) /\ \A k \in 1 .. 4 : t[i + k - 1] = CloseCall[k]
<1> DEFINE tag == CloseCall
           n == 4
<1>1. tag \in Seq(Signs) /\ Len(tag) = n /\ n \in Nat /\ n >= 1
  BY TagsAre
<1> HIDE DEF tag, n
<1>2. \A i : i \in Places(t, tag) <=>
           i \in 1 .. Len(t) /\ i + (n - 1) <= Len(t) /\ \A k \in 1 .. n : t[i + k - 1] = tag[k]
  BY <1>1, TagPlaces
<1>3. n - 1 = 3
  BY DEF n
<1> QED BY <1>2, <1>3 DEF tag, n

\* A tag is found in what was held back and the next chunk as it is in the whole text:
\* none begins before what was held back.
LEMMA TagIsAhead ==
  ASSUME NEW r \in Seq(Signs), NEW p \in Seq(Signs), NEW c \in Seq(Signs),
         Places(r \o p, EndThink) = {},
         \A n \in Len(p) + 1 .. 3 : ~Typed(r \o p, n)
  PROVE  /\ \A j \in Places(r \o (p \o c), EndThink) : j > Len(r)
         /\ \A i \in Nat : Len(r) + i \in Places(r \o (p \o c), EndThink)
                             <=> i \in Places(p \o c, EndThink)
         /\ \A n \in Len(p \o c) + 1 .. 3 : ~Typed(r \o (p \o c), n)
         /\ \A n \in 0 .. Len(p \o c) : Typed(r \o (p \o c), n) <=> Typed(p \o c, n)
<1> DEFINE out == r \o p
           all == p \o c
           w   == r \o all
<1>1. /\ out \in Seq(Signs) /\ Len(out) = Len(r) + Len(p)
      /\ Len(r) \in Nat /\ Len(p) \in Nat /\ Len(out) \in Nat
      /\ \A k \in 1 .. Len(r) : out[k] = r[k]
      /\ \A k \in 1 .. Len(p) : out[Len(r) + k] = p[k]
  BY Joined
<1>2. /\ all \in Seq(Signs) /\ Len(all) = Len(p) + Len(c)
      /\ Len(c) \in Nat /\ Len(all) \in Nat
      /\ \A k \in 1 .. Len(p) : all[k] = p[k]
  BY Joined
<1>3. /\ w \in Seq(Signs) /\ Len(w) = Len(r) + Len(all) /\ Len(w) \in Nat
      /\ \A k \in 1 .. Len(r) : w[k] = r[k]
      /\ \A k \in 1 .. Len(all) : w[Len(r) + k] = all[k]
  BY <1>2, Joined
<1>4. Places(out, EndThink) = {} /\ \A n \in Len(p) + 1 .. 3 : ~Typed(out, n)
  OBVIOUS
<1> HIDE DEF out, all, w
<1>5. \A k \in 1 .. Len(out) : w[k] = out[k]
  <2> TAKE k \in 1 .. Len(out)
  <2>1. CASE k <= Len(r)
    <3>1. k \in 1 .. Len(r)
      BY <1>1, <2>1
    <3> QED BY <1>1, <1>3, <3>1
  <2>2. CASE k > Len(r)
    <3>1. k - Len(r) \in 1 .. Len(p) /\ k - Len(r) \in 1 .. Len(all) /\ Len(r) + (k - Len(r)) = k
      BY <1>1, <1>2, <2>2
    <3>2. w[Len(r) + (k - Len(r))] = out[Len(r) + (k - Len(r))]
      BY <1>1, <1>2, <1>3, <3>1
    <3> QED BY <3>1, <3>2
  <2> QED BY <1>1, <2>1, <2>2
<1>6. \A i : i \in Places(out, EndThink) <=>
               i \in 1 .. Len(out) /\ i + 3 <= Len(out) /\ \A k \in 1 .. 4 : out[i + k - 1] = EndThink[k]
  BY <1>1, ThinkPlaces
<1>7. \A i : i \in Places(w, EndThink) <=>
               i \in 1 .. Len(w) /\ i + 3 <= Len(w) /\ \A k \in 1 .. 4 : w[i + k - 1] = EndThink[k]
  BY <1>3, ThinkPlaces
<1>8. \A i : i \in Places(all, EndThink) <=>
               i \in 1 .. Len(all) /\ i + 3 <= Len(all) /\ \A k \in 1 .. 4 : all[i + k - 1] = EndThink[k]
  BY <1>2, ThinkPlaces
\* Something of the tag that begins before what was held back was there in full, or
\* would have been held back.
<1>9. ASSUME NEW j \in 1 .. Len(r), NEW m \in 1 .. 4, j + m - 1 > Len(out) \/ m = 4,
             \A k \in 1 .. m : j + k - 1 <= Len(out) => w[j + k - 1] = EndThink[k]
      PROVE  FALSE
  <2>1. CASE j + 3 <= Len(out)
    <3>1. m = 4
      BY <1>1, <1>9, <2>1
    <3>2. \A k \in 1 .. 4 : out[j + k - 1] = EndThink[k]
      <4> TAKE k \in 1 .. 4
      <4>1. j + k - 1 \in 1 .. Len(out)
        BY <1>1, <2>1
      <4> QED BY <1>1, <1>5, <1>9, <3>1, <4>1
    <3>3. j \in 1 .. Len(out)
      BY <1>1
    <3> QED BY <1>4, <1>6, <2>1, <3>2, <3>3
  <2>2. CASE j + 3 > Len(out)
    <3> DEFINE n == Len(out) - j + 1
    <3>1. n \in Len(p) + 1 .. 3 /\ n <= Len(out) /\ n \in Nat
      BY <1>1, <2>2
    <3>2. \A k \in 1 .. n : out[Len(out) - n + k] = EndThink[k]
      <4> TAKE k \in 1 .. n
      <4>1. k \in 1 .. m /\ j + k - 1 \in 1 .. Len(out) /\ Len(out) - n + k = j + k - 1
        BY <1>1, <1>9, <2>2
      <4>2. w[j + k - 1] = EndThink[k]
        BY <1>9, <4>1
      <4> QED BY <1>5, <4>1, <4>2
    <3> QED BY <1>4, <3>1, <3>2 DEF Typed
  <2> QED BY <1>1, <2>1, <2>2
<1>10. \A j \in Places(w, EndThink) : j > Len(r)
  <2> SUFFICES ASSUME NEW j \in Places(w, EndThink), ~(j > Len(r)) PROVE FALSE
    OBVIOUS
  <2>1. j \in 1 .. Len(r) /\ \A k \in 1 .. 4 : w[j + k - 1] = EndThink[k]
    BY <1>1, <1>3, <1>7
  <2> QED BY <1>9, <2>1
<1>11. \A i \in Nat : Len(r) + i \in Places(w, EndThink) <=> i \in Places(all, EndThink)
  <2> TAKE i \in Nat
  <2>1. ASSUME Len(r) + i \in Places(w, EndThink) PROVE i \in Places(all, EndThink)
    <3>1. Len(r) + i > Len(r) /\ Len(r) + i + 3 <= Len(w)
          /\ \A k \in 1 .. 4 : w[Len(r) + i + k - 1] = EndThink[k]
      BY <1>7, <1>10, <2>1
    <3>2. i \in 1 .. Len(all) /\ i + 3 <= Len(all)
      BY <1>1, <1>2, <1>3, <3>1
    <3>3. \A k \in 1 .. 4 : all[i + k - 1] = EndThink[k]
      <4> TAKE k \in 1 .. 4
      <4>1. i + k - 1 \in 1 .. Len(all) /\ Len(r) + (i + k - 1) = Len(r) + i + k - 1
        BY <1>1, <1>2, <3>2
      <4> QED BY <1>3, <3>1, <4>1
    <3> QED BY <1>8, <3>2, <3>3
  <2>2. ASSUME i \in Places(all, EndThink) PROVE Len(r) + i \in Places(w, EndThink)
    <3>1. i \in 1 .. Len(all) /\ i + 3 <= Len(all) /\ \A k \in 1 .. 4 : all[i + k - 1] = EndThink[k]
      BY <1>8, <2>2
    <3>2. Len(r) + i \in 1 .. Len(w) /\ Len(r) + i + 3 <= Len(w)
      BY <1>1, <1>2, <1>3, <3>1
    <3>3. \A k \in 1 .. 4 : w[Len(r) + i + k - 1] = EndThink[k]
      <4> TAKE k \in 1 .. 4
      <4>1. i + k - 1 \in 1 .. Len(all) /\ Len(r) + (i + k - 1) = Len(r) + i + k - 1
        BY <1>1, <1>2, <3>1
      <4> QED BY <1>3, <3>1, <4>1
    <3> QED BY <1>7, <3>2, <3>3
  <2> QED BY <2>1, <2>2
<1>12. \A n \in Len(all) + 1 .. 3 : ~Typed(w, n)
  <2> SUFFICES ASSUME NEW n \in Len(all) + 1 .. 3, Typed(w, n) PROVE FALSE
    OBVIOUS
  <2> DEFINE j == Len(w) - n + 1
  <2>1. n <= Len(w) /\ \A k \in 1 .. n : w[Len(w) - n + k] = EndThink[k]
    BY DEF Typed
  <2>2. j \in 1 .. Len(r) /\ n + 1 \in 1 .. 4 /\ n \in Nat
    BY <1>1, <1>2, <1>3, <2>1
  <2>3. \A k \in 1 .. n : w[j + k - 1] = EndThink[k]
    <3> TAKE k \in 1 .. n
    <3>1. j + k - 1 = Len(w) - n + k
      BY <1>3, <2>2
    <3> QED BY <2>1, <3>1
  <2>4. j + (n + 1) - 1 > Len(out)
    BY <1>1, <1>2, <1>3, <2>2
  <2>5. \A k \in 1 .. n + 1 : j + k - 1 <= Len(out) => w[j + k - 1] = EndThink[k]
    <3> TAKE k \in 1 .. n + 1
    <3>1. j + k - 1 <= Len(out) => k \in 1 .. n
      BY <1>1, <1>2, <1>3, <2>2
    <3> QED BY <2>3, <3>1
  <2> HIDE DEF j
  <2> QED BY <1>9, <2>2, <2>4, <2>5
<1>13. \A n \in 0 .. Len(all) : Typed(w, n) <=> Typed(all, n)
  <2> TAKE n \in 0 .. Len(all)
  <2>1. n <= Len(w) /\ n <= Len(all)
    BY <1>1, <1>2, <1>3
  <2>2. \A k \in 1 .. n : w[Len(w) - n + k] = all[Len(all) - n + k]
    <3> TAKE k \in 1 .. n
    <3>1. Len(all) - n + k \in 1 .. Len(all) /\ Len(r) + (Len(all) - n + k) = Len(w) - n + k
      BY <1>1, <1>2, <1>3
    <3> QED BY <1>3, <3>1
  <2> QED BY <2>1, <2>2 DEF Typed
<1> QED BY <1>10, <1>11, <1>12, <1>13 DEF w, all

---------------------------------------------------------------------------
(* Trimming.                                                               *)

\* What is left of a text without the line ends before it, or around it.
LEMMA TrimIs ==
  ASSUME NEW S, NEW t \in Seq(S)
  PROVE  /\ Solid(t) \subseteq 1 .. Len(t) /\ Len(t) \in Nat
         /\ Solid(t) # {} =>
              /\ Min(Solid(t)) \in Solid(t) /\ \A i \in Solid(t) : Min(Solid(t)) <= i
              /\ Max(Solid(t)) \in Solid(t) /\ \A i \in Solid(t) : i <= Max(Solid(t))
         /\ Trim(t) \in Seq(S) /\ TrimStart(t) \in Seq(S)
<1>1. Solid(t) \subseteq 1 .. Len(t) /\ Len(t) \in Nat
  BY DEF Solid
<1>2. ASSUME Solid(t) # {}
      PROVE  /\ Min(Solid(t)) \in Solid(t) /\ \A i \in Solid(t) : Min(Solid(t)) <= i
             /\ Max(Solid(t)) \in Solid(t) /\ \A i \in Solid(t) : i <= Max(Solid(t))
  <2>1. Solid(t) \subseteq Nat /\ Solid(t) \subseteq 0 .. Len(t)
    BY <1>1
  <2> QED BY <1>1, <1>2, <2>1, MinIs, MaxIs
<1>3. ASSUME Solid(t) # {} PROVE Trim(t) \in Seq(S) /\ TrimStart(t) \in Seq(S)
  <2>1. /\ Min(Solid(t)) \in 1 .. Len(t) + 1
        /\ Max(Solid(t)) \in Min(Solid(t)) - 1 .. Len(t)
    BY <1>1, <1>2, <1>3
  <2>2. SubSeq(t, Min(Solid(t)), Max(Solid(t))) \in Seq(S) /\ From(t, Min(Solid(t))) \in Seq(S)
    BY <2>1, Piece, Rest
  <2> QED BY <1>3, <2>2 DEF Trim, TrimStart
<1>4. Solid(t) = {} => Trim(t) \in Seq(S) /\ TrimStart(t) \in Seq(S)
  BY DEF Trim, TrimStart
<1> QED BY <1>1, <1>2, <1>3, <1>4

\* Line ends before a text are trimmed off anyway.
LEMMA TrimTailed ==
  ASSUME NEW S, NEW a \in Seq(S), NEW t \in Seq(S), Tailed(a, t)
  PROVE  Trim(a) = Trim(t)
<1> DEFINE d == Len(t) - Len(a)
<1>1. Len(a) \in Nat /\ Len(t) \in Nat /\ d \in Nat
  BY DEF Tailed
<1>2. \A i \in 1 .. Len(a) : t[i + d] = a[i]
  BY <1>1 DEF Tailed
<1>3. \A i \in 1 .. d : t[i] = "n"
  BY <1>1 DEF Tailed
<1> HIDE DEF d
<1>4. /\ Solid(a) \subseteq 1 .. Len(a) /\ Solid(t) \subseteq 1 .. Len(t)
      /\ Len(t) = Len(a) + d
  BY <1>1 DEF Solid, d
<1>5. \A i \in Solid(a) : i + d \in Solid(t)
  BY <1>1, <1>2, <1>4 DEF Solid
<1>6. \A i \in Solid(t) : i - d \in Solid(a)
  <2> TAKE i \in Solid(t)
  <2>1. i \in 1 .. Len(t) /\ t[i] # "n"
    BY DEF Solid
  <2>2. i - d \in 1 .. Len(a) /\ (i - d) + d = i
    BY <1>1, <1>3, <1>4, <2>1
  <2>3. a[i - d] # "n"
    BY <1>2, <2>1, <2>2
  <2> QED BY <2>2, <2>3 DEF Solid
<1>7. CASE Solid(a) = {}
  <2>1. Solid(t) = {}
    BY <1>6, <1>7
  <2> QED BY <1>7, <2>1 DEF Trim
<1>8. CASE Solid(a) # {}
  <2> DEFINE x == Min(Solid(a))
             y == Max(Solid(a))
             u == Min(Solid(t))
             v == Max(Solid(t))
  <2>1. Solid(t) # {}
    BY <1>5, <1>8
  <2>2. /\ x \in Solid(a) /\ (\A i \in Solid(a) : x <= i) /\ y \in Solid(a) /\ (\A i \in Solid(a) : i <= y)
        /\ u \in Solid(t) /\ (\A i \in Solid(t) : u <= i) /\ v \in Solid(t) /\ (\A i \in Solid(t) : i <= v)
    BY <1>8, <2>1, TrimIs
  <2>3. Trim(a) = SubSeq(a, x, y) /\ Trim(t) = SubSeq(t, u, v)
    BY <1>8, <2>1 DEF Trim
  <2> HIDE DEF x, y, u, v
  <2>4. u = x + d /\ v = y + d
    <3>1. u <= x + d /\ x <= u - d /\ y + d <= v /\ v - d <= y
      BY <1>5, <1>6, <2>2
    <3>2. u \in Int /\ v \in Int /\ x \in Int /\ y \in Int /\ d \in Int
      BY <1>1, <1>4, <2>2
    <3> QED BY <3>1, <3>2
  <2>5. x \in 1 .. Len(a) + 1 /\ y \in x - 1 .. Len(a) /\ u \in 1 .. Len(t) + 1 /\ v \in u - 1 .. Len(t)
    BY <1>1, <1>4, <2>2
  <2>6. /\ SubSeq(a, x, y) \in Seq(S) /\ Len(SubSeq(a, x, y)) = y - x + 1
        /\ \A k \in 1 .. y - x + 1 : SubSeq(a, x, y)[k] = a[x + k - 1]
    BY <2>5, Piece
  <2>7. /\ SubSeq(t, u, v) \in Seq(S) /\ Len(SubSeq(t, u, v)) = v - u + 1
        /\ \A k \in 1 .. v - u + 1 : SubSeq(t, u, v)[k] = t[u + k - 1]
    BY <2>5, Piece
  <2>8. v - u + 1 = y - x + 1
    BY <1>1, <2>4, <2>5
  <2>9. \A k \in 1 .. y - x + 1 : t[u + k - 1] = a[x + k - 1]
    <3> TAKE k \in 1 .. y - x + 1
    <3>1. x + k - 1 \in 1 .. Len(a) /\ (x + k - 1) + d = u + k - 1
      BY <1>1, <2>4, <2>5
    <3> QED BY <1>2, <3>1
  <2> DEFINE A == SubSeq(a, x, y)
             T == SubSeq(t, u, v)
  <2>10. /\ A \in Seq(S) /\ T \in Seq(S) /\ Len(A) = y - x + 1 /\ Len(T) = y - x + 1
         /\ \A k \in 1 .. y - x + 1 : A[k] = a[x + k - 1]
         /\ \A k \in 1 .. y - x + 1 : T[k] = t[u + k - 1]
    BY <2>6, <2>7, <2>8
  <2> HIDE DEF A, T
  <2>11. \A k \in 1 .. Len(A) : A[k] = T[k]
    BY <2>9, <2>10
  <2>12. A = T
    BY <2>10, <2>11, Equal
  <2> QED BY <2>3, <2>12 DEF A, T
<1> QED BY <1>7, <1>8

\* trim_start takes line ends off, and only those.
LEMMA TrimStartTails ==
  ASSUME NEW S, NEW t \in Seq(S)
  PROVE  Tailed(TrimStart(t), t)
<1>1. Len(t) \in Nat /\ Solid(t) \subseteq 1 .. Len(t)
  BY DEF Solid
<1>2. CASE Solid(t) = {}
  <2>1. \A k \in 1 .. Len(t) : t[k] = "n"
    BY <1>2 DEF Solid
  <2>2. TrimStart(t) = <<>> /\ Len(<<>>) = 0
    BY <1>2 DEF TrimStart
  <2> QED BY <1>1, <2>1, <2>2 DEF Tailed
<1>3. CASE Solid(t) # {}
  <2> DEFINE x == Min(Solid(t))
             a == TrimStart(t)
  <2>1. x \in Solid(t) /\ \A i \in Solid(t) : x <= i
    BY <1>3, TrimIs
  <2>2. a = From(t, x)
    BY <1>3 DEF TrimStart
  <2> HIDE DEF x, a
  <2>3. x \in 1 .. Len(t) + 1
    BY <1>1, <2>1
  <2>4. Len(a) = Len(t) - x + 1 /\ \A k \in 1 .. Len(t) - x + 1 : a[k] = t[x + k - 1]
    BY <2>2, <2>3, Rest
  <2>5. \A k \in 1 .. x - 1 : t[k] = "n"
    <3> TAKE k \in 1 .. x - 1
    <3>1. k \in 1 .. Len(t) /\ k \notin Solid(t)
      BY <1>1, <2>1, <2>3
    <3> QED BY <3>1 DEF Solid
  <2>6. Len(a) <= Len(t) /\ Len(t) - Len(a) = x - 1
    BY <1>1, <2>3, <2>4
  <2>7. \A k \in 1 .. Len(a) : Len(t) - Len(a) + k = x + k - 1
    BY <1>1, <2>3, <2>4
  <2>8. \A k \in 1 .. Len(a) : a[k] = t[Len(t) - Len(a) + k]
    BY <2>4, <2>7
  <2>9. Tailed(a, t)
    BY <2>5, <2>6, <2>8 DEF Tailed
  <2> QED BY <2>9 DEF a
<1> QED BY <1>2, <1>3

\* What comes after both changes nothing.
LEMMA TailedGrows ==
  ASSUME NEW S, NEW a \in Seq(S), NEW t \in Seq(S), NEW c \in Seq(S), Tailed(a, t)
  PROVE  Tailed(a \o c, t \o c)
<1> DEFINE ac == a \o c
           tc == t \o c
<1>1. /\ Len(ac) = Len(a) + Len(c) /\ Len(a) \in Nat /\ Len(c) \in Nat
      /\ \A k \in 1 .. Len(a) : ac[k] = a[k]
      /\ \A k \in 1 .. Len(c) : ac[Len(a) + k] = c[k]
  BY Joined
<1>2. /\ Len(tc) = Len(t) + Len(c) /\ Len(t) \in Nat
      /\ \A k \in 1 .. Len(t) : tc[k] = t[k]
      /\ \A k \in 1 .. Len(c) : tc[Len(t) + k] = c[k]
  BY Joined
<1> HIDE DEF ac, tc
<1>3. /\ Len(a) <= Len(t)
      /\ \A k \in 1 .. Len(a) : a[k] = t[Len(t) - Len(a) + k]
      /\ \A k \in 1 .. Len(t) - Len(a) : t[k] = "n"
  BY DEF Tailed
<1>4. Len(ac) <= Len(tc) /\ Len(tc) - Len(ac) = Len(t) - Len(a)
  BY <1>1, <1>2, <1>3
<1>5. \A k \in 1 .. Len(tc) - Len(ac) : tc[k] = "n"
  <2> TAKE k \in 1 .. Len(tc) - Len(ac)
  <2>1. k \in 1 .. Len(t) - Len(a) /\ k \in 1 .. Len(t)
    BY <1>1, <1>2, <1>4
  <2> QED BY <1>2, <1>3, <2>1
<1>6. \A k \in 1 .. Len(ac) : ac[k] = tc[Len(tc) - Len(ac) + k]
  <2> TAKE k \in 1 .. Len(ac)
  <2>1. CASE k <= Len(a)
    <3>1. k \in 1 .. Len(a) /\ Len(t) - Len(a) + k \in 1 .. Len(t)
      BY <1>1, <1>2, <1>3, <2>1
    <3> QED BY <1>1, <1>2, <1>3, <1>4, <3>1
  <2>2. CASE k > Len(a)
    <3> DEFINE i == k - Len(a)
    <3>1. i \in 1 .. Len(c) /\ Len(a) + i = k /\ Len(t) + i = Len(tc) - Len(ac) + k
      BY <1>1, <1>2, <1>4, <2>2
    <3>2. ac[Len(a) + i] = tc[Len(t) + i]
      BY <1>1, <1>2, <3>1
    <3> QED BY <3>1, <3>2
  <2> QED BY <1>1, <2>1, <2>2
<1>7. Tailed(ac, tc)
  BY <1>4, <1>5, <1>6 DEF Tailed
<1> QED BY <1>7 DEF ac, tc

---------------------------------------------------------------------------
(* A push.                                                                 *)

\* What is said is made of signs.
LEMMA TextIsSigns == \A t \in Text : t \in Seq(Signs)
<1>1. Symbols \subseteq Signs
  BY DEF Signs
<1> QED BY <1>1, SeqMonotonic DEF Text

\* What was held back and the next chunk, where the tag is in it, and how much is let go
\* if it is not.
All(s, c) == s.pending \o c
At(s, c)  == Find(All(s, c), EndThink)
Cut(s, c) == Len(All(s, c)) - Hold(All(s, c))

\* What a push hands on and keeps, by whether the splitter is in the reasoning and the
\* tag is there.
LEMMA PushIs ==
  ASSUME NEW s \in Splitter, NEW c \in Text
  PROVE  /\ Push(s, c).split.reasoning = s.reasoning \o Push(s, c).reasoning
         /\ Push(s, c).split.answer = s.answer \o Push(s, c).answer
         /\ Push(s, c).split =
              [in |-> Push(s, c).split.in, pending |-> Push(s, c).split.pending,
               reasoning |-> s.reasoning \o Push(s, c).reasoning,
               answer |-> s.answer \o Push(s, c).answer]
         /\ Push(s, c).split.in \in BOOLEAN
         /\ ~s.in => /\ Push(s, c).reasoning = <<>> /\ Push(s, c).answer = c
                     /\ Push(s, c).split.in = FALSE /\ Push(s, c).split.pending = <<>>
         /\ s.in /\ At(s, c) # 0 =>
              /\ Push(s, c).reasoning = SubSeq(All(s, c), 1, At(s, c) - 1)
              /\ Push(s, c).answer = TrimStart(From(All(s, c), At(s, c) + 4))
              /\ Push(s, c).split.in = FALSE /\ Push(s, c).split.pending = <<>>
         /\ s.in /\ At(s, c) = 0 =>
              /\ Push(s, c).reasoning = SubSeq(All(s, c), 1, Cut(s, c)) /\ Push(s, c).answer = <<>>
              /\ Push(s, c).split.in = TRUE
              /\ Push(s, c).split.pending = From(All(s, c), Cut(s, c) + 1)
<1> DEFINE p == Push(s, c)
           r == SubSeq(All(s, c), 1, At(s, c) - 1)
           a == TrimStart(From(All(s, c), At(s, c) + 4))
           t == SubSeq(All(s, c), 1, Cut(s, c))
           q == From(All(s, c), Cut(s, c) + 1)
           e == <<>>
<1>0. s.in \in BOOLEAN
  BY DEF Splitter
<1>1. ~s.in => p = [reasoning |-> e, answer |-> c, closed |-> FALSE,
                    split |-> [in |-> FALSE, pending |-> e, reasoning |-> s.reasoning \o e,
                               answer |-> s.answer \o c]]
  BY DEF Push
<1>2. s.in /\ At(s, c) # 0 =>
        p = [reasoning |-> r, answer |-> a, closed |-> TRUE,
             split |-> [in |-> FALSE, pending |-> e, reasoning |-> s.reasoning \o r,
                        answer |-> s.answer \o a]]
  BY TagsAre DEF Push, All, At
<1>3. s.in /\ At(s, c) = 0 =>
        p = [reasoning |-> t, answer |-> e, closed |-> FALSE,
             split |-> [in |-> TRUE, pending |-> q, reasoning |-> s.reasoning \o t,
                        answer |-> s.answer \o e]]
  BY DEF Push, All, At, Cut
<1> HIDE DEF p, r, a, t, q, e
<1>4. ~s.in => p.reasoning = e /\ p.answer = c /\ p.split.in = FALSE /\ p.split.pending = e
  BY <1>1
<1>5. s.in /\ At(s, c) # 0 =>
        p.reasoning = r /\ p.answer = a /\ p.split.in = FALSE /\ p.split.pending = e
  BY <1>2
<1>6. s.in /\ At(s, c) = 0 =>
        p.reasoning = t /\ p.answer = e /\ p.split.in = TRUE /\ p.split.pending = q
  BY <1>3
<1>7. /\ p.split.reasoning = s.reasoning \o p.reasoning
      /\ p.split.answer = s.answer \o p.answer
      /\ p.split = [in |-> p.split.in, pending |-> p.split.pending,
                    reasoning |-> s.reasoning \o p.reasoning, answer |-> s.answer \o p.answer]
  <2>1. CASE ~s.in
    <3>1. p.reasoning = e /\ p.answer = c
      BY <1>4, <2>1
    <3>0. p = [reasoning |-> e, answer |-> c, closed |-> FALSE,
               split |-> [in |-> FALSE, pending |-> e, reasoning |-> s.reasoning \o e,
                          answer |-> s.answer \o c]]
      BY <1>1, <2>1
    <3>2. p.split = [in |-> FALSE, pending |-> e, reasoning |-> s.reasoning \o e,
                     answer |-> s.answer \o c]
      BY <3>0
    <3>3. p.split.reasoning = s.reasoning \o p.reasoning /\ p.split.answer = s.answer \o p.answer
      BY <3>1, <3>2
    <3>4. p.split.in = FALSE /\ p.split.pending = e
      BY <3>2
    <3> QED BY <3>1, <3>2, <3>3, <3>4
  <2>2. CASE s.in /\ At(s, c) # 0
    BY <1>2, <2>2
  <2>3. CASE s.in /\ At(s, c) = 0
    BY <1>3, <2>3
  <2> QED BY <1>0, <2>1, <2>2, <2>3
<1>8. p.split.in \in BOOLEAN
  BY <1>0, <1>4, <1>5, <1>6
<1> QED BY <1>4, <1>5, <1>6, <1>7, <1>8 DEF p, r, a, t, q, e

\* A push told without the end of the reasoning is otherwise the same push.
LEMMA PushUntold ==
  ASSUME NEW s \in Splitter, NEW c \in Text
  PROVE  LET q == [Push(s, c) EXCEPT !.closed = FALSE] IN
         q.reasoning = Push(s, c).reasoning /\ q.answer = Push(s, c).answer /\ q.split = Push(s, c).split
<1> DEFINE p == Push(s, c)
           Is(r, a, b, x) == p = [reasoning |-> r, answer |-> a, closed |-> b, split |-> x]
           r1 == SubSeq(All(s, c), 1, At(s, c) - 1)
           a1 == TrimStart(From(All(s, c), At(s, c) + 4))
           t1 == SubSeq(All(s, c), 1, Cut(s, c))
           q1 == From(All(s, c), Cut(s, c) + 1)
           e  == <<>>
<1>1. s.in \in BOOLEAN
  BY DEF Splitter
<1>2. \E r, a, b, x : Is(r, a, b, x)
  <2>1. CASE ~s.in
    <3>1. Is(e, c, FALSE, [in |-> FALSE, pending |-> e, reasoning |-> s.reasoning \o e,
                           answer |-> s.answer \o c])
      BY <2>1 DEF Push
    <3> HIDE DEF Is
    <3> QED BY <3>1
  <2>2. CASE s.in /\ At(s, c) # 0
    <3>1. Is(r1, a1, TRUE, [in |-> FALSE, pending |-> e, reasoning |-> s.reasoning \o r1,
                            answer |-> s.answer \o a1])
      BY <2>2, TagsAre DEF Push, All, At
    <3> HIDE DEF Is
    <3> QED BY <3>1
  <2>3. CASE s.in /\ At(s, c) = 0
    <3>1. Is(t1, e, FALSE, [in |-> TRUE, pending |-> q1, reasoning |-> s.reasoning \o t1,
                            answer |-> s.answer \o e])
      BY <2>3 DEF Push, All, At, Cut
    <3> HIDE DEF Is
    <3> QED BY <3>1
  <2> HIDE DEF Is
  <2> QED BY <1>1, <2>1, <2>2, <2>3
<1>3. PICK r, a, b, x : Is(r, a, b, x)
  BY <1>2
<1>4. p = [reasoning |-> r, answer |-> a, closed |-> b, split |-> x]
  BY <1>3
<1> HIDE DEF p
<1>5. p.reasoning = r /\ p.answer = a /\ p.split = x
  BY <1>4
<1>6. [p EXCEPT !.closed = FALSE].reasoning = r
  BY <1>4
<1>7. [p EXCEPT !.closed = FALSE].answer = a
  BY <1>4
<1>8. [p EXCEPT !.closed = FALSE].split = x
  BY <1>4
<1> QED BY <1>5, <1>6, <1>7, <1>8 DEF p

\* Types of what a push hands on and of the splitter after it.
LEMMA PushTyped ==
  ASSUME NEW s \in Splitter, NEW c \in Text
  PROVE  /\ Push(s, c).reasoning \in Text /\ Push(s, c).answer \in Text
         /\ Push(s, c).split \in Splitter /\ Len(Push(s, c).split.pending) < 4
<1> DEFINE all == All(s, c)
           at == At(s, c)
           cut == Cut(s, c)
           h == Hold(all)
           r == Push(s, c).reasoning
           a == Push(s, c).answer
           in == Push(s, c).split.in
           q == Push(s, c).split.pending
           x == Push(s, c).split
<1>0. /\ x.reasoning = s.reasoning \o r /\ x.answer = s.answer \o a
      /\ x = [in |-> in, pending |-> q, reasoning |-> s.reasoning \o r, answer |-> s.answer \o a]
      /\ in \in BOOLEAN
      /\ ~s.in => r = <<>> /\ a = c /\ in = FALSE /\ q = <<>>
      /\ s.in /\ at # 0 =>
           /\ r = SubSeq(all, 1, at - 1) /\ a = TrimStart(From(all, at + 4))
           /\ in = FALSE /\ q = <<>>
      /\ s.in /\ at = 0 =>
           r = SubSeq(all, 1, cut) /\ a = <<>> /\ in = TRUE /\ q = From(all, cut + 1)
  BY PushIs
<1>1. /\ s.in \in BOOLEAN /\ s.pending \in Text /\ s.reasoning \in Text /\ s.answer \in Text
      /\ <<>> \in Text /\ Len(<<>>) = 0
  BY DEF Splitter, Text
<1> HIDE DEF r, a, in, q, x
<1>2. all \in Text /\ all \in Seq(Signs) /\ Len(all) \in Nat
  BY <1>1, Joined, TextIsSigns DEF Text, All
<1>3. h \in 0 .. 3 /\ h <= Len(all) /\ cut = Len(all) - h
  BY <1>2, HoldIs DEF Typed, Cut
<1>4. at # 0 => at \in 1 .. Len(all) /\ at + 3 <= Len(all)
  BY <1>2, FindIs, ThinkPlaces DEF At
<1> HIDE DEF all, at, h, cut
<1>5. s.in /\ at # 0 => SubSeq(all, 1, at - 1) \in Text /\ TrimStart(From(all, at + 4)) \in Text
  <2> SUFFICES ASSUME at # 0
               PROVE  SubSeq(all, 1, at - 1) \in Text /\ TrimStart(From(all, at + 4)) \in Text
    OBVIOUS
  <2>1. at - 1 \in 1 - 1 .. Len(all) /\ 1 \in 1 .. Len(all) + 1 /\ at + 4 \in 1 .. Len(all) + 1
    BY <1>2, <1>4
  <2>2. SubSeq(all, 1, at - 1) \in Text /\ From(all, at + 4) \in Text
    BY <1>2, <2>1, Piece, Rest DEF Text
  <2> QED BY <2>2, TrimIs DEF Text
<1>6. /\ SubSeq(all, 1, cut) \in Text /\ From(all, cut + 1) \in Text
      /\ Len(From(all, cut + 1)) < 4
  <2>1. cut \in 1 - 1 .. Len(all) /\ 1 \in 1 .. Len(all) + 1 /\ cut + 1 \in 1 .. Len(all) + 1
    BY <1>2, <1>3
  <2>2. /\ SubSeq(all, 1, cut) \in Text /\ From(all, cut + 1) \in Text
        /\ Len(From(all, cut + 1)) = Len(all) - (cut + 1) + 1
    BY <1>2, <2>1, Piece, Rest DEF Text
  <2> QED BY <1>2, <1>3, <2>2
<1>8. r \in Text /\ a \in Text /\ in \in BOOLEAN /\ q \in Text /\ Len(q) < 4
  <2>1. CASE ~s.in
    BY <1>1, <1>0, <2>1
  <2>2. CASE s.in /\ at # 0
    <3>1. r \in Text /\ a \in Text
      BY <1>5, <1>0, <2>2
    <3>2. in \in BOOLEAN /\ q = <<>>
      BY <1>0, <2>2
    <3> QED BY <1>1, <3>1, <3>2
  <2>3. CASE s.in /\ at = 0
    BY <1>1, <1>6, <1>0, <2>3
  <2> QED BY <1>1, <2>1, <2>2, <2>3
<1>9. s.reasoning \o r \in Text /\ s.answer \o a \in Text
  BY <1>1, <1>8, Joined DEF Text
<1>10. x \in Splitter
  BY <1>0, <1>8, <1>9 DEF Splitter
<1> QED BY <1>8, <1>10 DEF r, a, q, x

\* The tag that was found stays the first.
LEMMA FindStays ==
  ASSUME NEW t \in Seq(Signs), NEW c \in Seq(Signs), Find(t, EndThink) # 0
  PROVE  Find(t \o c, EndThink) = Find(t, EndThink)
<1> DEFINE at == Find(t, EndThink)
           tc == t \o c
           to == Find(tc, EndThink)
<1>1. /\ tc \in Seq(Signs) /\ Len(tc) = Len(t) + Len(c) /\ Len(t) \in Nat /\ Len(c) \in Nat
      /\ \A k \in 1 .. Len(t) : tc[k] = t[k]
  BY Joined
<1>2. at \in Places(t, EndThink) /\ \A i \in Places(t, EndThink) : at <= i
  BY FindIs
<1>3. /\ at \in 1 .. Len(t) /\ at + 3 <= Len(t)
      /\ \A k \in 1 .. 4 : t[at + k - 1] = EndThink[k]
  BY <1>2, ThinkPlaces
<1> HIDE DEF tc, at
<1>4. at \in Places(tc, EndThink)
  <2>1. \A k \in 1 .. 4 : tc[at + k - 1] = EndThink[k]
    <3> TAKE k \in 1 .. 4
    <3>1. at + k - 1 \in 1 .. Len(t)
      BY <1>1, <1>3
    <3> QED BY <1>1, <1>3, <3>1
  <2>2. at \in 1 .. Len(tc) /\ at + 3 <= Len(tc)
    BY <1>1, <1>3
  <2> QED BY <1>1, <2>1, <2>2, ThinkPlaces
<1>5. to \in Places(tc, EndThink) /\ to <= at
  BY <1>1, <1>4, FindIs
<1> HIDE DEF to
<1>6. /\ to \in 1 .. Len(tc) /\ \A k \in 1 .. 4 : tc[to + k - 1] = EndThink[k]
  BY <1>1, <1>5, ThinkPlaces
<1>7. to \in Places(t, EndThink)
  <2>1. to \in 1 .. Len(t) /\ to + 3 <= Len(t)
    BY <1>1, <1>3, <1>5, <1>6
  <2>2. \A k \in 1 .. 4 : t[to + k - 1] = EndThink[k]
    <3> TAKE k \in 1 .. 4
    <3>1. to + k - 1 \in 1 .. Len(t)
      BY <1>1, <2>1
    <3> QED BY <1>1, <1>6, <3>1
  <2> QED BY <2>1, <2>2, ThinkPlaces
<1>8. to = at
  BY <1>1, <1>2, <1>3, <1>5, <1>6, <1>7
<1> QED BY <1>8 DEF to, at, tc

\* The beginning of two texts that ends within the second.
LEMMA PieceAfter ==
  ASSUME NEW S, NEW t \in Seq(S), NEW c \in Seq(S), NEW n \in 0 .. Len(c)
  PROVE  SubSeq(t \o c, 1, Len(t) + n) = t \o SubSeq(c, 1, n)
<1> DEFINE w == t \o c
<1>0. /\ w \in Seq(S) /\ Len(w) = Len(t) + Len(c)
      /\ Len(t) \in Nat /\ Len(c) \in Nat /\ Len(w) \in Nat
      /\ \A k \in 1 .. Len(t) : w[k] = t[k]
      /\ \A k \in 1 .. Len(c) : w[Len(t) + k] = c[k]
  BY Joined
<1> HIDE DEF w
<1> DEFINE b == SubSeq(c, 1, n)
           a == SubSeq(w, 1, Len(t) + n)
           d == t \o b
<1>1. /\ 1 \in 1 .. Len(w) + 1 /\ Len(t) + n \in 1 - 1 .. Len(w)
      /\ 1 \in 1 .. Len(c) + 1 /\ n \in 1 - 1 .. Len(c)
  BY <1>0
<1>2. /\ a \in Seq(S) /\ Len(a) = Len(t) + n - 1 + 1
      /\ \A k \in 1 .. Len(t) + n - 1 + 1 : a[k] = w[1 + k - 1]
  BY <1>0, <1>1, Piece
<1>3. /\ b \in Seq(S) /\ Len(b) = n - 1 + 1 /\ \A k \in 1 .. n - 1 + 1 : b[k] = c[1 + k - 1]
  BY <1>1, Piece
<1> HIDE DEF a, b
<1>4. /\ d \in Seq(S) /\ Len(d) = Len(t) + Len(b)
      /\ \A k \in 1 .. Len(t) : d[k] = t[k]
      /\ \A k \in 1 .. Len(b) : d[Len(t) + k] = b[k]
  <2>1. b \in Seq(S)
    BY <1>3
  <2> QED BY <2>1, Joined
<1> HIDE DEF d
<1>5. \A k \in 1 .. Len(a) : a[k] = d[k]
  <2> TAKE k \in 1 .. Len(a)
  <2>1. k \in 1 .. Len(t) + n - 1 + 1 /\ 1 + k - 1 = k
    BY <1>0, <1>2
  <2>2. CASE k <= Len(t)
    BY <1>0, <1>2, <1>4, <2>1, <2>2
  <2>3. CASE k > Len(t)
    <3> DEFINE m == k - Len(t)
    <3>1. m \in 1 .. n /\ m \in 1 .. Len(c) /\ Len(t) + m = k /\ 1 + m - 1 = m /\ m \in 1 .. Len(b)
      BY <1>0, <1>3, <2>1, <2>3
    <3>2. d[Len(t) + m] = c[m] /\ w[Len(t) + m] = c[m]
      BY <1>0, <1>3, <1>4, <3>1
    <3> QED BY <1>2, <2>1, <3>1, <3>2
  <2> QED BY <1>0, <2>1, <2>2, <2>3
<1>6. Len(a) = Len(d)
  BY <1>0, <1>2, <1>3, <1>4
<1>7. a = d
  BY <1>2, <1>4, <1>5, <1>6, Equal
<1> QED BY <1>7 DEF a, b, d, w

\* Pieces of two texts, one after the other.
LEMMA Pieces ==
  ASSUME NEW S, NEW t \in Seq(S), NEW c \in Seq(S)
  PROVE  /\ \A n \in 0 .. Len(t) : SubSeq(t \o c, 1, n) = SubSeq(t, 1, n)
         /\ \A i \in 1 .. Len(t) + 1 : From(t \o c, i) = From(t, i) \o c
         /\ \A i \in 1 .. Len(c) + 1 : From(t \o c, Len(t) + i) = From(c, i)
         /\ \A n \in 0 .. Len(t) : SubSeq(t, 1, n) \o From(t, n + 1) = t
<1> DEFINE w == t \o c
<1>1. /\ w \in Seq(S) /\ Len(w) = Len(t) + Len(c)
      /\ Len(t) \in Nat /\ Len(c) \in Nat /\ Len(w) \in Nat
      /\ \A k \in 1 .. Len(t) : w[k] = t[k]
      /\ \A k \in 1 .. Len(c) : w[Len(t) + k] = c[k]
  BY Joined
<1> HIDE DEF w
<1>2. ASSUME NEW n \in 0 .. Len(t) PROVE SubSeq(w, 1, n) = SubSeq(t, 1, n)
  <2> DEFINE a == SubSeq(w, 1, n)
             b == SubSeq(t, 1, n)
  <2>1. /\ 1 \in 1 .. Len(w) + 1 /\ n \in 1 - 1 .. Len(w)
        /\ 1 \in 1 .. Len(t) + 1 /\ n \in 1 - 1 .. Len(t)
    BY <1>1
  <2>2. /\ a \in Seq(S) /\ Len(a) = n - 1 + 1 /\ \A k \in 1 .. n - 1 + 1 : a[k] = w[1 + k - 1]
    BY <1>1, <2>1, Piece
  <2>3. /\ b \in Seq(S) /\ Len(b) = n - 1 + 1 /\ \A k \in 1 .. n - 1 + 1 : b[k] = t[1 + k - 1]
    BY <2>1, Piece
  <2> HIDE DEF a, b
  <2>4. \A k \in 1 .. Len(a) : a[k] = b[k]
    <3> TAKE k \in 1 .. Len(a)
    <3>1. k \in 1 .. n - 1 + 1 /\ k \in 1 .. Len(t) /\ 1 + k - 1 = k
      BY <1>1, <2>2
    <3> QED BY <1>1, <2>2, <2>3, <3>1
  <2>5. a = b
    BY <2>2, <2>3, <2>4, Equal
  <2> QED BY <2>5 DEF a, b
<1>4. ASSUME NEW i \in 1 .. Len(t) + 1 PROVE From(w, i) = From(t, i) \o c
  <2> DEFINE b == From(t, i)
             a == From(w, i)
             d == b \o c
  <2>1. i \in 1 .. Len(w) + 1
    BY <1>1
  <2>2. a \in Seq(S) /\ Len(a) = Len(w) - i + 1 /\ \A k \in 1 .. Len(w) - i + 1 : a[k] = w[i + k - 1]
    BY <1>1, <2>1, Rest
  <2>3. b \in Seq(S) /\ Len(b) = Len(t) - i + 1 /\ \A k \in 1 .. Len(t) - i + 1 : b[k] = t[i + k - 1]
    BY Rest
  <2> HIDE DEF a, b
  <2>0. b \in Seq(S)
    BY <2>3
  <2>4. /\ d \in Seq(S) /\ Len(d) = Len(b) + Len(c)
        /\ \A k \in 1 .. Len(b) : d[k] = b[k]
        /\ \A k \in 1 .. Len(c) : d[Len(b) + k] = c[k]
    BY <2>0, Joined
  <2> HIDE DEF d
  <2>5. \A k \in 1 .. Len(a) : a[k] = d[k]
    <3> TAKE k \in 1 .. Len(a)
    <3>1. k \in 1 .. Len(w) - i + 1
      BY <1>1, <2>2
    <3>2. CASE k <= Len(b)
      <4>1. k \in 1 .. Len(b) /\ k \in 1 .. Len(t) - i + 1 /\ i + k - 1 \in 1 .. Len(t)
        BY <1>1, <2>3, <3>1, <3>2
      <4> QED BY <1>1, <2>2, <2>3, <2>4, <3>1, <4>1
    <3>3. CASE k > Len(b)
      <4> DEFINE m == k - Len(b)
      <4>1. m \in 1 .. Len(c) /\ Len(b) + m = k /\ Len(t) + m = i + k - 1
        BY <1>1, <2>3, <3>1, <3>3
      <4>2. d[Len(b) + m] = c[m] /\ w[Len(t) + m] = c[m]
        BY <1>1, <2>4, <4>1
      <4> QED BY <2>2, <3>1, <4>1, <4>2
    <3> QED BY <1>1, <2>3, <3>1, <3>2, <3>3
  <2>6. Len(a) = Len(d)
    BY <1>1, <2>2, <2>3, <2>4
  <2>7. a = d
    BY <2>2, <2>4, <2>5, <2>6, Equal
  <2> QED BY <2>7 DEF a, b, d
<1>5. ASSUME NEW i \in 1 .. Len(c) + 1 PROVE From(w, Len(t) + i) = From(c, i)
  <2> DEFINE a == From(w, Len(t) + i)
             b == From(c, i)
  <2>1. Len(t) + i \in 1 .. Len(w) + 1
    BY <1>1
  <2>2. /\ a \in Seq(S) /\ Len(a) = Len(w) - (Len(t) + i) + 1
        /\ \A k \in 1 .. Len(w) - (Len(t) + i) + 1 : a[k] = w[Len(t) + i + k - 1]
    BY <1>1, <2>1, Rest
  <2>3. b \in Seq(S) /\ Len(b) = Len(c) - i + 1 /\ \A k \in 1 .. Len(c) - i + 1 : b[k] = c[i + k - 1]
    BY Rest
  <2> HIDE DEF a, b
  <2>4. \A k \in 1 .. Len(a) : a[k] = b[k]
    <3> TAKE k \in 1 .. Len(a)
    <3> DEFINE m == i + k - 1
    <3>1. /\ k \in 1 .. Len(w) - (Len(t) + i) + 1 /\ k \in 1 .. Len(c) - i + 1
          /\ m \in 1 .. Len(c) /\ Len(t) + i + k - 1 = Len(t) + m
      BY <1>1, <2>2
    <3>2. w[Len(t) + m] = c[m]
      BY <1>1, <3>1
    <3> QED BY <2>2, <2>3, <3>1, <3>2
  <2>5. Len(a) = Len(b)
    BY <1>1, <2>2, <2>3
  <2>6. a = b
    BY <2>2, <2>3, <2>4, <2>5, Equal
  <2> QED BY <2>6 DEF a, b
<1>6. ASSUME NEW n \in 0 .. Len(t) PROVE SubSeq(t, 1, n) \o From(t, n + 1) = t
  <2> DEFINE a == SubSeq(t, 1, n)
             b == From(t, n + 1)
             d == a \o b
  <2>1. 1 \in 1 .. Len(t) + 1 /\ n \in 1 - 1 .. Len(t) /\ n + 1 \in 1 .. Len(t) + 1
    BY <1>1
  <2>2. /\ a \in Seq(S) /\ Len(a) = n - 1 + 1 /\ \A k \in 1 .. n - 1 + 1 : a[k] = t[1 + k - 1]
    BY <2>1, Piece
  <2>3. /\ b \in Seq(S) /\ Len(b) = Len(t) - (n + 1) + 1
        /\ \A k \in 1 .. Len(t) - (n + 1) + 1 : b[k] = t[n + 1 + k - 1]
    BY <2>1, Rest
  <2> HIDE DEF a, b
  <2>0. a \in Seq(S) /\ b \in Seq(S)
    BY <2>2, <2>3
  <2>4. /\ d \in Seq(S) /\ Len(d) = Len(a) + Len(b)
        /\ \A k \in 1 .. Len(a) : d[k] = a[k]
        /\ \A k \in 1 .. Len(b) : d[Len(a) + k] = b[k]
    BY <2>0, Joined
  <2> HIDE DEF d
  <2>5. \A k \in 1 .. Len(d) : d[k] = t[k]
    <3> TAKE k \in 1 .. Len(d)
    <3>1. CASE k <= n
      <4>1. k \in 1 .. n - 1 + 1 /\ k \in 1 .. Len(a) /\ 1 + k - 1 = k
        BY <1>1, <2>2, <3>1
      <4> QED BY <2>2, <2>4, <4>1
    <3>2. CASE k > n
      <4> DEFINE m == k - n
      <4>1. m \in 1 .. Len(b) /\ m \in 1 .. Len(t) - (n + 1) + 1 /\ Len(a) + m = k /\ n + 1 + m - 1 = k
        BY <1>1, <2>2, <2>3, <2>4, <3>2
      <4>2. d[Len(a) + m] = b[m] /\ b[m] = t[n + 1 + m - 1]
        BY <2>3, <2>4, <4>1
      <4> QED BY <4>1, <4>2
    <3> QED BY <1>1, <3>1, <3>2
  <2>6. Len(d) = Len(t)
    BY <1>1, <2>2, <2>3, <2>4
  <2>7. d = t
    BY <2>4, <2>5, <2>6, Equal
  <2> QED BY <2>7 DEF a, b, d
<1> QED BY <1>2, <1>4, <1>5, <1>6 DEF w

\* Inside the reasoning, a push finds the tag where it is in the whole text.
LEMMA PushFinds ==
  ASSUME NEW s \in Splitter, NEW c \in Text, NEW out \in Text, s.in, Open(out, s)
  PROVE  /\ out \o c = s.reasoning \o All(s, c)
         /\ At(s, c) = 0 => Places(out \o c, EndThink) = {}
         /\ At(s, c) # 0 => Find(out \o c, EndThink) = Len(s.reasoning) + At(s, c)
         /\ \A n \in Hold(All(s, c)) + 1 .. 3 : ~Typed(out \o c, n)
<1> DEFINE r == s.reasoning
           p == s.pending
           all == All(s, c)
           w == out \o c
           at == At(s, c)
           h == Hold(all)
<1>1. r \in Seq(Signs) /\ p \in Seq(Signs) /\ c \in Seq(Signs) /\ out \in Seq(Signs)
  <2>1. r \in Text /\ p \in Text
    BY DEF Splitter
  <2> QED BY <2>1, TextIsSigns
<1>2. out = r \o p /\ Places(out, EndThink) = {}
  BY DEF Open
<1>3. \A n \in Len(p) + 1 .. 3 : ~Typed(out, n)
  <2> TAKE n \in Len(p) + 1 .. 3
  <2>1. n \in 0 .. 3
    BY <1>1
  <2>2. ~Ends(out, SubSeq(EndThink, 1, n))
    BY TagsAre DEF Open
  <2> QED BY <1>1, <2>1, <2>2, TypedIs
<1> HIDE DEF r, p
<1>4. w = r \o (p \o c) /\ all = p \o c
  <2>1. (r \o p) \o c = r \o (p \o c)
    BY <1>1, ConcatAssociative
  <2> QED BY <1>2, <2>1 DEF All, p
<1>5. all \in Seq(Signs) /\ w \in Seq(Signs) /\ Len(r) \in Nat /\ Len(all) \in Nat
  BY <1>1, <1>4, Joined
<1> HIDE DEF all, w
<1>6. /\ \A j \in Places(w, EndThink) : j > Len(r)
      /\ \A i \in Nat : Len(r) + i \in Places(w, EndThink) <=> i \in Places(all, EndThink)
      /\ \A n \in Len(all) + 1 .. 3 : ~Typed(w, n)
      /\ \A n \in 0 .. Len(all) : Typed(w, n) <=> Typed(all, n)
  BY <1>1, <1>2, <1>3, <1>4, TagIsAhead
<1>7. /\ at = 0 <=> Places(all, EndThink) = {}
      /\ at # 0 => at \in Places(all, EndThink) /\ \A i \in Places(all, EndThink) : at <= i
      /\ at \in 0 .. Len(all)
  BY <1>5, FindIs DEF At, all
<1>8. Places(w, EndThink) \subseteq Nat
  BY <1>5, ThinkPlaces
<1> HIDE DEF at
<1>9. \A j \in Places(w, EndThink) : j - Len(r) \in Places(all, EndThink)
  <2> TAKE j \in Places(w, EndThink)
  <2>0. j \in Nat /\ Len(r) \in Nat /\ j > Len(r)
    BY <1>5, <1>6, <1>8
  <2>1. j - Len(r) \in Nat /\ Len(r) + (j - Len(r)) = j
    BY <2>0
  <2> QED BY <1>6, <2>1
<1>10. at = 0 => Places(w, EndThink) = {}
  BY <1>7, <1>9
<1>11. at # 0 => Find(w, EndThink) = Len(r) + at
  <2> SUFFICES ASSUME at # 0 PROVE Find(w, EndThink) = Len(r) + at
    OBVIOUS
  <2> DEFINE f == Find(w, EndThink)
  <2>1. Len(r) + at \in Places(w, EndThink)
    BY <1>5, <1>6, <1>7
  <2>2. f \in Places(w, EndThink) /\ f <= Len(r) + at
    BY <1>5, <2>1, FindIs
  <2> HIDE DEF f
  <2>3. at <= f - Len(r) /\ f \in Nat
    BY <1>7, <1>8, <1>9, <2>2
  <2>4. f = Len(r) + at
    BY <1>5, <1>7, <2>2, <2>3
  <2> QED BY <2>4 DEF f
<1>12. \A n \in h + 1 .. 3 : ~Typed(w, n)
  <2>1. h \in 0 .. 3 /\ \A n \in h + 1 .. 3 : ~Typed(all, n)
    BY <1>5, HoldIs
  <2> HIDE DEF h
  <2> TAKE n \in h + 1 .. 3
  <2>2. n \in 0 .. Len(all) \/ n \in Len(all) + 1 .. 3
    BY <1>5, <2>1
  <2> QED BY <1>6, <2>1, <2>2
<1> QED BY <1>4, <1>10, <1>11, <1>12 DEF w, all, at, r, p

\* What a splitter holds after a push is what the text let go by then says.
LEMMA PushSplits ==
  ASSUME NEW s \in Splitter, NEW c \in Text, NEW out \in Text,
         s.in => Open(out, s), ~s.in => Closed(out, s)
  PROVE  /\ Push(s, c).split.in  => Open(out \o c, Push(s, c).split)
         /\ ~Push(s, c).split.in => Closed(out \o c, Push(s, c).split)
<1> DEFINE all == All(s, c)
           at == At(s, c)
           cut == Cut(s, c)
           h == Hold(all)
           r == Push(s, c).reasoning
           a == Push(s, c).answer
           in == Push(s, c).split.in
           q == Push(s, c).split.pending
           x == Push(s, c).split
           sr == s.reasoning
           w == out \o c
           f == Find(w, EndThink)
<1>0. /\ x.reasoning = sr \o r /\ x.answer = s.answer \o a
      /\ x = [in |-> in, pending |-> q, reasoning |-> sr \o r, answer |-> s.answer \o a]
      /\ in \in BOOLEAN
      /\ ~s.in => r = <<>> /\ a = c /\ in = FALSE /\ q = <<>>
      /\ s.in /\ at # 0 =>
           /\ r = SubSeq(all, 1, at - 1) /\ a = TrimStart(From(all, at + 4))
           /\ in = FALSE /\ q = <<>>
      /\ s.in /\ at = 0 =>
           r = SubSeq(all, 1, cut) /\ a = <<>> /\ in = TRUE /\ q = From(all, cut + 1)
  BY PushIs
<1>1. x.pending = q
  OBVIOUS
<1> HIDE DEF r, a, in, q, x
<1>2. /\ s.in \in BOOLEAN /\ s.pending \in Text /\ sr \in Text /\ s.answer \in Text
      /\ <<>> \in Text /\ Len(<<>>) = 0
  BY DEF Splitter, Text
<1>3. /\ all \in Text /\ all \in Seq(Signs) /\ Len(all) \in Nat
      /\ w \in Text /\ w \in Seq(Signs) /\ out \in Seq(Signs) /\ c \in Seq(Signs)
  BY <1>2, Joined, TextIsSigns DEF Text, All
<1>4. h \in 0 .. 3 /\ h <= Len(all) /\ cut = Len(all) - h
  BY <1>3, HoldIs DEF Typed, Cut
<1>5. at # 0 => at \in 1 .. Len(all) /\ at + 3 <= Len(all)
  BY <1>3, FindIs, ThinkPlaces DEF At
<1>6. s.in => /\ w = sr \o all
              /\ at = 0 => Places(w, EndThink) = {}
              /\ at # 0 => f = Len(sr) + at
              /\ \A n \in h + 1 .. 3 : ~Typed(w, n)
  BY PushFinds
<1> HIDE DEF all, at, h, cut, w, f, sr
<1>7. CASE ~s.in
  <2> DEFINE g == Find(out, EndThink)
             t == From(out, g + 4)
  <2>1. /\ g # 0 /\ sr = SubSeq(out, 1, g - 1)
        /\ Tailed(s.answer, t)
    BY <1>7, TagsAre DEF Closed, sr
  <2>2. f = g
    BY <1>3, <2>1, FindStays DEF f, w
  <2>3. g \in 1 .. Len(out) /\ g + 3 <= Len(out) /\ Len(out) \in Nat
    BY <1>3, <2>1, FindIs, ThinkPlaces
  <2> HIDE DEF g
  <2>4. g - 1 \in 0 .. Len(out) /\ g + 4 \in 1 .. Len(out) + 1
    BY <2>3
  <2>5. SubSeq(w, 1, g - 1) = SubSeq(out, 1, g - 1) /\ From(w, g + 4) = t \o c
    BY <1>3, <2>4, Pieces DEF w
  <2>6. t \in Text
    BY <1>3, <2>4, Rest DEF Text
  <2> HIDE DEF t
  <2>7. Tailed(s.answer \o c, t \o c)
    BY <1>2, <2>1, <2>6, TailedGrows DEF Text
  <2>8. x.reasoning = SubSeq(w, 1, g - 1)
    BY <1>0, <1>2, <1>7, <2>1, <2>5, ConcatEmptySeq DEF Text
  <2>9. x.answer = s.answer \o c /\ x.pending = <<>>
    BY <1>0, <1>7, <1>1
  <2>10. Closed(w, x)
    BY <2>1, <2>2, <2>5, <2>7, <2>8, <2>9, TagsAre DEF Closed, f
  <2> QED BY <1>0, <1>7, <2>10 DEF w, x, in
<1>8. CASE s.in /\ at # 0
  <2> DEFINE n == Len(sr)
  <2>1. n \in Nat /\ s.answer = <<>> /\ w = sr \o all /\ f = n + at
    BY <1>2, <1>6, <1>8 DEF Open, Text
  <2>2. at - 1 \in 0 .. Len(all) /\ at + 4 \in 1 .. Len(all) + 1
    BY <1>3, <1>5, <1>8
  <2>3. /\ SubSeq(w, 1, n + (at - 1)) = sr \o SubSeq(all, 1, at - 1)
        /\ From(w, n + (at + 4)) = From(all, at + 4)
    <3>1. sr \in Seq(Symbols) /\ all \in Seq(Symbols)
      BY <1>2, <1>3 DEF Text
    <3>2. /\ SubSeq(sr \o all, 1, n + (at - 1)) = sr \o SubSeq(all, 1, at - 1)
          /\ From(sr \o all, n + (at + 4)) = From(all, at + 4)
      <4> DEFINE m == at - 1
                 i == at + 4
      <4>1. m \in 0 .. Len(all) /\ i \in 1 .. Len(all) + 1
        BY <2>2
      <4> HIDE DEF m, i
      <4>2. SubSeq(sr \o all, 1, n + m) = sr \o SubSeq(all, 1, m)
        BY <3>1, <4>1, PieceAfter
      <4>3. From(sr \o all, n + i) = From(all, i)
        BY <3>1, <4>1, Pieces
      <4> QED BY <4>2, <4>3 DEF m, i
    <3> QED BY <2>1, <3>2
  <2>4. n + (at - 1) = f - 1 /\ n + (at + 4) = f + 4 /\ f # 0
    BY <1>3, <1>5, <1>8, <2>1
  <2>5. From(all, at + 4) \in Text
    BY <1>3, <2>2, Rest DEF Text
  <2>6. Tailed(a, From(all, at + 4)) /\ a \in Text
    BY <1>0, <1>8, <2>5, TrimStartTails, TrimIs DEF Text
  <2>7. x.answer = a
    BY <1>0, <2>1, <2>6, ConcatEmptySeq DEF Text
  <2>8. x.reasoning = SubSeq(w, 1, f - 1) /\ x.pending = <<>>
    BY <1>0, <1>8, <1>1, <2>3, <2>4
  <2>9. Tailed(x.answer, From(w, f + 4))
    BY <2>3, <2>4, <2>6, <2>7
  <2>10. Closed(w, x)
    BY <2>4, <2>8, <2>9, TagsAre DEF Closed, f
  <2> QED BY <1>0, <1>8, <2>10 DEF w, x, in
<1>9. CASE s.in /\ at = 0
  <2>1. s.answer = <<>> /\ w = sr \o all /\ Places(w, EndThink) = {}
    BY <1>6, <1>9 DEF Open
  <2>2. cut \in 0 .. Len(all) /\ cut + 1 \in 1 .. Len(all) + 1 /\ cut \in 1 - 1 .. Len(all) /\ 1 \in 1 .. Len(all) + 1
    BY <1>3, <1>4
  <2>3. r \o q = all
    <3>1. SubSeq(all, 1, cut) \o From(all, cut + 1) = all
      BY <1>3, <2>2, Pieces
    <3> QED BY <1>0, <1>9, <3>1
  <2>4. r \in Text /\ q \in Text /\ Len(q) = h
    <3>1. /\ SubSeq(all, 1, cut) \in Text /\ From(all, cut + 1) \in Text
          /\ Len(From(all, cut + 1)) = Len(all) - (cut + 1) + 1
      BY <1>3, <2>2, Piece, Rest DEF Text
    <3>2. Len(all) - (cut + 1) + 1 = h
      BY <1>3, <1>4
    <3> QED BY <1>0, <1>9, <3>1, <3>2
  <2>5. w = x.reasoning \o x.pending
    <3>1. sr \o (r \o q) = (sr \o r) \o q
      <4>1. sr \in Seq(Symbols) /\ r \in Seq(Symbols) /\ q \in Seq(Symbols)
        BY <1>2, <2>4 DEF Text
      <4> QED BY <4>1, ConcatAssociative
    <3>2. x.reasoning = sr \o r /\ x.pending = q
      BY <1>0, <1>1
    <3> QED BY <2>1, <2>3, <3>1, <3>2
  <2>6. x.answer = <<>>
    BY <1>0, <1>2, <1>9, <2>1, ConcatEmptySeq DEF Text
  <2>7. \A n \in Len(x.pending) + 1 .. Len(EndThink) - 1 : ~Ends(w, SubSeq(EndThink, 1, n))
    <3>1. Len(x.pending) = h /\ Len(EndThink) - 1 = 3
      BY <1>1, <2>4, TagsAre
    <3>2. \A n \in h + 1 .. 3 : n \in 0 .. 3
      BY <1>4
    <3>3. \A n \in h + 1 .. 3 : ~Ends(w, SubSeq(EndThink, 1, n))
      BY <1>3, <1>6, <1>9, <3>2, TypedIs
    <3> QED BY <3>1, <3>3
  <2>8. q = SubSeq(EndThink, 1, h)
    <3> DEFINE b == SubSeq(EndThink, 1, h)
    <3>1. b \in Seq(Signs) /\ Len(b) = h /\ \A k \in 1 .. h : b[k] = EndThink[k]
      BY <1>4, Beginning
    <3>2. \A k \in 1 .. h : all[Len(all) - h + k] = EndThink[k]
      BY <1>3, HoldIs DEF Typed, h
    <3>3. q = From(all, cut + 1) /\ q \in Seq(Signs)
      BY <1>0, <1>9, <2>4, TextIsSigns
    <3>4. \A k \in 1 .. Len(all) - (cut + 1) + 1 : q[k] = all[cut + 1 + k - 1]
      BY <1>3, <2>2, <3>3, Rest
    <3>5. \A k \in 1 .. h : q[k] = EndThink[k]
      <4> TAKE k \in 1 .. h
      <4>1. k \in 1 .. Len(all) - (cut + 1) + 1 /\ cut + 1 + k - 1 = Len(all) - h + k
        BY <1>3, <1>4
      <4> QED BY <3>2, <3>4, <4>1
    <3> HIDE DEF b
    <3>6. q = b
      BY <2>4, <3>1, <3>3, <3>5, Equal
    <3> QED BY <3>6 DEF b
  <2>9. x.pending = SubSeq(EndThink, 1, Len(x.pending))
    BY <1>1, <2>4, <2>8
  <2>10. Open(w, x)
    BY <2>1, <2>5, <2>6, <2>7, <2>9 DEF Open
  <2> QED BY <1>0, <1>9, <2>10 DEF w, x, in
<1> QED BY <1>2, <1>7, <1>8, <1>9

---------------------------------------------------------------------------
(* Taking the calls out of a text.                                         *)

\* Where a block of a text starts and stops.
LEMMA BlockIs ==
  ASSUME NEW s \in Text
  PROVE  /\ Block(s).stop \in 0 .. Len(s)
         /\ Block(s).stop # 0 => Block(s).start \in 1 .. Len(s)
<1> DEFINE start == Find(s, OpenCall)
           t == From(s, start)
           end == IF start = 0 THEN 0 ELSE Find(t, CloseCall)
<1>1. /\ start \in 0 .. Len(s) /\ Len(s) \in Nat /\ s \in Seq(Signs)
  BY TextIsSigns, FindIs
<1>2. CASE end = 0
  BY <1>1, <1>2 DEF Block
<1>3. CASE end # 0
  <2>1. start # 0 /\ end = Find(t, CloseCall)
    BY <1>3
  <2>2. Block(s).start = start /\ Block(s).stop = start + end + 4 - 2
    BY <1>3, TagsAre DEF Block
  <2>3. start \in 1 .. Len(s) + 1
    BY <1>1, <2>1
  <2> HIDE DEF start
  <2>4. t \in Seq(Signs) /\ Len(t) = Len(s) - start + 1
    BY <1>1, <2>3, Rest
  <2> HIDE DEF t, end
  <2>5. end \in Places(t, CloseCall)
    BY <1>3, <2>1, <2>4, FindIs
  <2>6. CloseCall \in Seq(Signs) /\ CloseCall # <<>> /\ Len(CloseCall) = 4
    BY TagsAre
  <2>7. end \in 1 .. Len(t) /\ end + 4 - 1 <= Len(t)
    BY <2>4, <2>5, <2>6, PlacesAre
  <2>8. start + end + 4 - 2 \in 0 .. Len(s) /\ start \in 1 .. Len(s)
    BY <1>1, <2>1, <2>3, <2>4, <2>7
  <2> QED BY <2>2, <2>8
<1> QED BY <1>2, <1>3

\* Where the first block of the text from i on stops, and what parsing from there says,
\* if what comes after the block says rest.
Stop(t, i) == Block(From(t, i)).stop
Parse(t, i, rest) ==
  LET s == From(t, i)
      b == Block(s)
      call == Parses(b.inner)
  IN IF b.stop = 0
       THEN [clean |-> s, calls |-> 0]
       ELSE [clean |-> SubSeq(s, 1, IF call THEN b.start - 1 ELSE b.stop) \o rest.clean,
             calls |-> rest.calls + (IF call THEN 1 ELSE 0)]
Parsing(f, t) == f = [i \in 1 .. Len(t) + 1 |-> Parse(t, i, f[i + Stop(t, i)])]
Said == [clean : Text, calls : Nat]

\* parse_tool_calls is what any function says that unfolds its recursion.
LEMMA ParseCallsIs ==
  ASSUME NEW t
  PROVE  ParseCalls(t) = (CHOOSE f : Parsing(f, t))[1]
BY DEF ParseCalls, Parsing, Parse, Stop

\* A step of the parser looks only ahead, and says a text and a number.
LEMMA ParseIs ==
  ASSUME NEW t \in Text, NEW i \in 1 .. Len(t) + 1
  PROVE  /\ i + Stop(t, i) \in i .. Len(t) + 1
         /\ Stop(t, i) = 0 => \A x, y : Parse(t, i, x) = Parse(t, i, y)
         /\ Stop(t, i) = 0 => \A x : Parse(t, i, x) \in Said
         /\ \A x \in Said : Parse(t, i, x) \in Said
<1> DEFINE s == From(t, i)
           b == Block(s)
           call == Parses(b.inner)
           cut == IF call THEN b.start - 1 ELSE b.stop
<1>1. s \in Text /\ Len(s) = Len(t) - i + 1 /\ Len(t) \in Nat
  BY Rest DEF Text
<1> HIDE DEF s
<1>2. /\ b.stop \in 0 .. Len(s)
      /\ b.stop # 0 => b.start \in 1 .. Len(s)
  BY <1>1, BlockIs
<1>3. Stop(t, i) = b.stop
  BY DEF Stop, s
<1>4. b.stop = 0 => \A x : Parse(t, i, x) = [clean |-> s, calls |-> 0]
  BY DEF Parse, s
<1>5. b.stop # 0 => \A x : Parse(t, i, x) = [clean |-> SubSeq(s, 1, cut) \o x.clean,
                                             calls |-> x.calls + (IF call THEN 1 ELSE 0)]
  BY DEF Parse, s
<1>6. [clean |-> s, calls |-> 0] \in Said
  BY <1>1 DEF Said
<1> HIDE DEF b
<1>7. ASSUME b.stop # 0, NEW x \in Said PROVE Parse(t, i, x) \in Said
  <2>1. cut \in 0 .. Len(s) /\ cut \in 1 - 1 .. Len(s) /\ 1 \in 1 .. Len(s) + 1
    BY <1>1, <1>2, <1>7
  <2> HIDE DEF cut
  <2>2. SubSeq(s, 1, cut) \in Text /\ x.clean \in Text /\ x.calls \in Nat
    BY <1>1, <2>1, Piece DEF Said, Text
  <2>3. SubSeq(s, 1, cut) \o x.clean \in Text
    BY <2>2, Joined DEF Text
  <2>4. x.calls + (IF call THEN 1 ELSE 0) \in Nat
    BY <2>2
  <2> DEFINE clean == SubSeq(s, 1, cut) \o x.clean
             calls == x.calls + (IF call THEN 1 ELSE 0)
  <2>5. Parse(t, i, x) = [clean |-> clean, calls |-> calls]
    BY <1>5, <1>7 DEF cut
  <2>6. clean \in Text /\ calls \in Nat
    BY <2>3, <2>4
  <2> HIDE DEF clean, calls
  <2> QED BY <2>5, <2>6 DEF Said
<1>8. i + b.stop \in i .. Len(t) + 1
  BY <1>1, <1>2
<1> QED BY <1>3, <1>4, <1>6, <1>7, <1>8

\* The parser gets through: from the last place on to the first, there is an answer.
LEMMA ParsingExists ==
  ASSUME NEW t \in Text
  PROVE  \E f : Parsing(f, t)
<1> DEFINE N == Len(t) + 1
           Up(k, f) == f = [i \in N - k .. N |-> Parse(t, i, f[i + Stop(t, i)])]
           Stuck == {k \in 0 .. N - 1 : ~ \E f : Up(k, f)}
<1>0. N \in Nat \ {0}
  BY DEF Text
<1> HIDE DEF N
<1>1. Stuck = {}
  <2> SUFFICES ASSUME Stuck # {} PROVE FALSE
    OBVIOUS
  <2>1. PICK k \in Stuck : \A j \in Stuck : k <= j
    <3> Stuck \subseteq Nat
      BY <1>0
    <3> HIDE DEF Stuck
    <3> QED BY Least
  <2>2. k \in 0 .. N - 1 /\ ~ \E f : Up(k, f)
    BY <2>1
  <2> DEFINE i == N - k
  <2>3. i \in 1 .. Len(t) + 1 /\ i \in 1 .. N
    BY <1>0, <2>2 DEF N
  <2>4. i + Stop(t, i) \in i .. N
    BY <2>3, ParseIs DEF N
  <2>5. PICK f : k = 0 \/ Up(k - 1, f)
    <3>1. CASE k = 0
      BY <3>1
    <3>2. CASE k # 0
      <4>1. k - 1 \in 0 .. N - 1 /\ ~(k <= k - 1)
        BY <1>0, <2>2, <3>2
      <4>2. k - 1 \notin Stuck
        <5> HIDE DEF Stuck
        <5> QED BY <2>1, <4>1
      <4> QED BY <4>1, <4>2
    <3> QED BY <3>1, <3>2
  <2> DEFINE g == [j \in i .. N |-> IF j = i THEN Parse(t, i, f[i + Stop(t, i)]) ELSE f[j]]
  <2>6. \A j \in i + 1 .. N : f[j] = Parse(t, j, f[j + Stop(t, j)])
    <3> SUFFICES ASSUME NEW j \in i + 1 .. N PROVE f[j] = Parse(t, j, f[j + Stop(t, j)])
      OBVIOUS
    <3>1. k # 0 /\ N - (k - 1) = i + 1
      BY <1>0, <2>2
    <3>2. f = [m \in i + 1 .. N |-> Parse(t, m, f[m + Stop(t, m)])]
      BY <2>5, <3>1
    <3> QED BY <3>2
  <2>7. \A j \in i .. N : g[j] = Parse(t, j, g[j + Stop(t, j)])
    <3> TAKE j \in i .. N
    <3>1. j \in 1 .. Len(t) + 1 /\ Len(t) \in Nat
      BY <1>0, <2>3 DEF N, Text
    <3>2. j + Stop(t, j) \in j .. N /\ (Stop(t, j) = 0 => \A x, y : Parse(t, j, x) = Parse(t, j, y))
      BY <3>1, ParseIs DEF N
    <3>3. g[j] = Parse(t, j, f[j + Stop(t, j)])
      <4>1. CASE j = i
        BY <4>1
      <4>2. CASE j # i
        <5>1. j \in i + 1 .. N /\ g[j] = f[j]
          BY <1>0, <2>3, <4>2
        <5> HIDE DEF g
        <5> QED BY <2>6, <5>1
      <4> QED BY <4>1, <4>2
    <3>4. CASE Stop(t, j) = 0
      <4> HIDE DEF g
      <4> QED BY <3>2, <3>3, <3>4
    <3>5. CASE Stop(t, j) # 0
      <4> DEFINE m == j + Stop(t, j)
      <4>0. Stop(t, j) \in Int
        <5>1. Block(From(t, j)).stop \in Int
          BY <3>1, Rest, BlockIs DEF Text
        <5> QED BY <5>1 DEF Stop
      <4>1. m \in i .. N /\ m # i
        BY <2>3, <3>2, <3>5, <4>0
      <4> HIDE DEF m
      <4>2. g[m] = f[m]
        BY <4>1
      <4> HIDE DEF g
      <4> QED BY <3>3, <4>2 DEF m
    <3> QED BY <3>4, <3>5
  <2>8. g = [j \in N - k .. N |-> Parse(t, j, g[j + Stop(t, j)])]
    BY <2>7
  <2>9. Up(k, g)
    <3> HIDE DEF g
    <3> QED BY <2>8
  <2> QED BY <2>2, <2>9
<1>2. N - 1 \in 0 .. N - 1 /\ N - (N - 1) = 1
  BY <1>0
<1>3. \E f : Up(N - 1, f)
  BY <1>1, <1>2
<1> QED BY <1>2, <1>3 DEF Parsing, N

\* parse_tool_calls says a text and a number of calls.
LEMMA ParseCallsTyped ==
  ASSUME NEW t \in Text
  PROVE  ParseCalls(t) \in Said
<1> DEFINE f == CHOOSE g : Parsing(g, t)
           N == Len(t) + 1
           Odd == {k \in 0 .. N - 1 : f[N - k] \notin Said}
<1>0. N \in Nat \ {0}
  BY DEF Text
<1>1. Parsing(f, t)
  BY ParsingExists, Zenon
<1>2. ParseCalls(t) = f[1]
  BY ParseCallsIs
<1> HIDE DEF f
<1>3. \A i \in 1 .. N : f[i] = Parse(t, i, f[i + Stop(t, i)])
  BY <1>1 DEF Parsing
<1>4. Odd = {}
  <2> SUFFICES ASSUME Odd # {} PROVE FALSE
    OBVIOUS
  <2>1. PICK k \in Odd : \A j \in Odd : k <= j
    <3> Odd \subseteq Nat
      BY <1>0
    <3> HIDE DEF Odd
    <3> QED BY Least
  <2> DEFINE i == N - k
             m == i + Stop(t, i)
  <2>2. i \in 1 .. N /\ f[i] \notin Said /\ k \in Nat
    BY <1>0, <2>1
  <2>3. m \in i .. N
    BY <2>2, ParseIs
  <2>4. Stop(t, i) # 0
    BY <1>3, <2>2, ParseIs
  <2>5. Stop(t, i) \in Int
    <3>1. Block(From(t, i)).stop \in Int
      BY <2>2, Rest, BlockIs DEF Text
    <3> QED BY <3>1 DEF Stop
  <2>6. N - m \in 0 .. N - 1 /\ ~(k <= N - m) /\ N - (N - m) = m
    BY <1>0, <2>2, <2>3, <2>4, <2>5
  <2> HIDE DEF m
  <2>7. N - m \notin Odd
    <3> HIDE DEF Odd
    <3> QED BY <2>1, <2>6
  <2>8. f[m] \in Said
    BY <2>6, <2>7
  <2> QED BY <1>3, <2>2, <2>8, ParseIs DEF m
<1>5. f[1] \in Said
  <2>1. N - 1 \in 0 .. N - 1 /\ N - (N - 1) = 1
    BY <1>0
  <2> QED BY <1>4, <2>1
<1> QED BY <1>2, <1>5

---------------------------------------------------------------------------
(* The invariant.                                                          *)

\* A token is a text, and says something.
LEMMA PieceIsText ==
  ASSUME NEW piece \in Vocab
  PROVE  piece \in Text /\ piece # <<>>
<1>1. piece \in Thoughts \union Calls
  BY DEF Vocab
<1>2. piece \in Seq(ToSet(piece)) /\ piece # <<>>
  BY <1>1, TokensAreText
<1>3. ToSet(piece) \subseteq Symbols
  BY <1>1 DEF Symbols
<1> QED BY <1>2, <1>3, SeqMonotonic DEF Text

\* What the detokenizer has let go, and what it still holds, is the text.
LEMMA OutAndRest ==
  ASSUME TypeOK
  PROVE  /\ Out \in Text /\ Len(Out) = emitted
         /\ From(text, emitted + 1) \in Text
         /\ Len(From(text, emitted + 1)) = Len(text) - emitted
         /\ Out \o From(text, emitted + 1) = text
<1>1. text \in Seq(Symbols) /\ Len(text) \in Nat /\ emitted \in 0 .. Len(text)
  BY DEF TypeOK, Text
<1>2. 1 \in 1 .. Len(text) + 1 /\ emitted \in 1 - 1 .. Len(text) /\ emitted + 1 \in 1 .. Len(text) + 1
  BY <1>1
<1>3. /\ SubSeq(text, 1, emitted) \in Seq(Symbols) /\ Len(SubSeq(text, 1, emitted)) = emitted - 1 + 1
  BY <1>1, <1>2, Piece
<1>4. /\ From(text, emitted + 1) \in Seq(Symbols)
      /\ Len(From(text, emitted + 1)) = Len(text) - (emitted + 1) + 1
  BY <1>1, <1>2, Rest
<1>5. SubSeq(text, 1, emitted) \o From(text, emitted + 1) = text
  BY <1>1, Pieces
<1>6. emitted - 1 + 1 = emitted /\ Len(text) - (emitted + 1) + 1 = Len(text) - emitted
  BY <1>1
<1>7. Out \in Text /\ Len(Out) = emitted
  BY <1>3, <1>6 DEF Out, Text
<1>8. /\ From(text, emitted + 1) \in Text /\ Len(From(text, emitted + 1)) = Len(text) - emitted
  BY <1>4, <1>6 DEF Text
<1> QED BY <1>5, <1>7, <1>8 DEF Out

\* The events of a push: the reasoning comes first, and an answer only if there is one and
\* it is shown.
LEMMA EventsAre ==
  ASSUME NEW p, NEW t
  PROVE  /\ Events(p, t) \in Seq({"reasoning", "closed", "token"})
         /\ p.reasoning # <<>> => Len(Events(p, t)) >= 1 /\ Events(p, t)[1] = "reasoning"
         /\ \A k \in 1 .. Len(Events(p, t)) :
              /\ Events(p, t)[k] = "token" => p.answer # <<>> /\ ~Hidden(t)
              /\ Events(p, t)[k] = "reasoning" => p.reasoning # <<>>
<1> DEFINE K == {"reasoning", "closed", "token"}
           a == IF p.reasoning # <<>> THEN <<"reasoning">> ELSE <<>>
           b == IF p.closed THEN <<"closed">> ELSE <<>>
           c == IF p.answer # <<>> /\ ~Hidden(t) THEN <<"token">> ELSE <<>>
           ab == a \o b
           E == ab \o c
<1>1. /\ a \in Seq(K) /\ Len(a) \in Nat
      /\ p.reasoning # <<>> => Len(a) = 1 /\ a[1] = "reasoning"
      /\ \A k \in 1 .. Len(a) : a[k] = "reasoning" /\ p.reasoning # <<>>
  <2>1. CASE p.reasoning # <<>>
    <3>1. a = <<"reasoning">>
      BY <2>1
    <3> HIDE DEF a
    <3> QED BY <2>1, <3>1
  <2>2. CASE p.reasoning = <<>>
    <3>1. a = <<>>
      BY <2>2
    <3> HIDE DEF a
    <3> QED BY <2>2, <3>1
  <2> QED BY <2>1, <2>2
<1>2. b \in Seq(K) /\ Len(b) \in Nat /\ \A k \in 1 .. Len(b) : b[k] = "closed"
  <2>1. b = <<"closed">> \/ b = <<>>
    OBVIOUS
  <2> HIDE DEF b
  <2>2. CASE b = <<"closed">>
    BY <2>2
  <2>3. CASE b = <<>>
    BY <2>3
  <2> QED BY <2>1, <2>2, <2>3
<1>3. c \in Seq(K) /\ Len(c) \in Nat /\ \A k \in 1 .. Len(c) : c[k] = "token" /\ p.answer # <<>> /\ ~Hidden(t)
  <2>1. (c = <<"token">> /\ p.answer # <<>> /\ ~Hidden(t)) \/ c = <<>>
    OBVIOUS
  <2> HIDE DEF c
  <2>2. CASE c = <<"token">> /\ p.answer # <<>> /\ ~Hidden(t)
    BY <2>2
  <2>3. CASE c = <<>>
    BY <2>3
  <2> QED BY <2>1, <2>2, <2>3
<1>4. Events(p, t) = E
  BY DEF Events
<1> HIDE DEF a, b, c
<1>5. /\ ab \in Seq(K) /\ Len(ab) = Len(a) + Len(b)
      /\ \A k \in 1 .. Len(a) : ab[k] = a[k]
      /\ \A k \in 1 .. Len(b) : ab[Len(a) + k] = b[k]
  BY <1>1, <1>2, Joined
<1> HIDE DEF ab
<1>6. /\ E \in Seq(K) /\ Len(E) = Len(ab) + Len(c)
      /\ \A k \in 1 .. Len(ab) : E[k] = ab[k]
      /\ \A k \in 1 .. Len(c) : E[Len(ab) + k] = c[k]
  <2>1. ab \in Seq(K) /\ c \in Seq(K)
    BY <1>3, <1>5
  <2> QED BY <2>1, Joined
<1> HIDE DEF E
<1>7. \A k \in 1 .. Len(E) :
        /\ E[k] = "token" => p.answer # <<>> /\ ~Hidden(t)
        /\ E[k] = "reasoning" => p.reasoning # <<>>
  <2> TAKE k \in 1 .. Len(E)
  <2>1. CASE k <= Len(a)
    <3>1. k \in 1 .. Len(a) /\ k \in 1 .. Len(ab)
      BY <1>1, <1>2, <1>5, <2>1
    <3>2. E[k] = "reasoning" /\ p.reasoning # <<>>
      BY <1>1, <1>5, <1>6, <3>1
    <3> QED BY <3>2
  <2>2. CASE k > Len(a) /\ k <= Len(ab)
    <3> DEFINE m == k - Len(a)
    <3>1. m \in 1 .. Len(b) /\ k \in 1 .. Len(ab) /\ Len(a) + m = k
      BY <1>1, <1>2, <1>5, <2>2
    <3>2. E[k] = ab[Len(a) + m] /\ ab[Len(a) + m] = b[m]
      BY <1>5, <1>6, <3>1
    <3>3. E[k] = "closed"
      BY <1>2, <3>1, <3>2
    <3> QED BY <3>3
  <2>3. CASE k > Len(ab)
    <3> DEFINE m == k - Len(ab)
    <3>1. m \in 1 .. Len(c) /\ Len(ab) + m = k
      BY <1>1, <1>2, <1>3, <1>5, <1>6, <2>3
    <3>2. E[k] = c[m]
      BY <1>6, <3>1
    <3>3. E[k] = "token" /\ p.answer # <<>> /\ ~Hidden(t)
      BY <1>3, <3>1, <3>2
    <3> QED BY <3>3
  <2> QED BY <1>1, <1>2, <1>5, <1>6, <2>1, <2>2, <2>3
<1>8. p.reasoning # <<>> => Len(E) >= 1 /\ E[1] = "reasoning"
  <2> SUFFICES ASSUME p.reasoning # <<>> PROVE Len(E) >= 1 /\ E[1] = "reasoning"
    OBVIOUS
  <2>1. Len(a) = 1 /\ a[1] = "reasoning"
    BY <1>1
  <2>2. 1 \in 1 .. Len(ab) /\ Len(E) >= 1 /\ 1 \in 1 .. Len(a)
    BY <1>2, <1>3, <1>5, <1>6, <2>1
  <2> QED BY <1>5, <1>6, <2>1, <2>2
<1> QED BY <1>4, <1>6, <1>7, <1>8

\* Whatever number of the events a reader takes, it has all the reasoning of the push.
LEMMA HandIs ==
  ASSUME NEW p, p.reasoning \in Text, p.answer \in Text, NEW t, NEW n \in Nat, n <= Len(Events(p, t)),
         n = Len(Events(p, t)) \/ n >= 1, late \in BOOLEAN,
         heard \in [reasoning : Text, answer : Text], Hand(p, t, n)
  PROVE  /\ heard' \in [reasoning : Text, answer : Text]
         /\ heard'.reasoning = heard.reasoning \o p.reasoning
         /\ \/ shown' = shown
            \/ reader = "turn" /\ ~InCall(t) /\ shown' = shown \union {<<emitted + 1, Len(t)>>}
         /\ state # "stopped" => late' = late
<1> DEFINE E == Events(p, t)
           T == SubSeq(E, 1, n)
           taken == ToSet(T)
           r == IF "reasoning" \in taken THEN p.reasoning ELSE <<>>
           a == IF "token" \in taken THEN p.answer ELSE <<>>
           K == {"reasoning", "closed", "token"}
<1>1. /\ E \in Seq(K)
      /\ p.reasoning # <<>> => Len(E) >= 1 /\ E[1] = "reasoning"
      /\ \A k \in 1 .. Len(E) : /\ E[k] = "token" => p.answer # <<>> /\ ~Hidden(t)
                                /\ E[k] = "reasoning" => p.reasoning # <<>>
  BY EventsAre
<1>2. /\ heard' = [reasoning |-> heard.reasoning \o r, answer |-> heard.answer \o a]
      /\ shown' = IF reader = "turn" /\ "token" \in taken
                    THEN shown \union {<<emitted + 1, Len(t)>>} ELSE shown
      /\ late' = (late \/ (state = "stopped" /\ taken # {}))
  BY DEF Hand
<1>3. n \in 0 .. Len(E) /\ (n = Len(E) \/ n >= 1) /\ Len(E) \in Nat
  BY <1>1
<1> HIDE DEF E
<1>4. T \in Seq(K) /\ Len(T) = n - 1 + 1 /\ \A k \in 1 .. n - 1 + 1 : T[k] = E[1 + k - 1]
  <2>1. n \in 1 - 1 .. Len(E) /\ 1 \in 1 .. Len(E) + 1
    BY <1>3
  <2> QED BY <1>1, <2>1, Piece
<1> HIDE DEF T
<1>5. Len(T) = n /\ \A k \in 1 .. n : T[k] = E[k]
  BY <1>3, <1>4
<1>6. \A e : e \in taken <=> \E k \in 1 .. n : e = E[k]
  <2>1. DOMAIN T = 1 .. n
    BY <1>4, <1>5
  <2> QED BY <1>5, <2>1 DEF ToSet
<1> HIDE DEF taken
<1>7. "token" \in taken => ~Hidden(t)
  BY <1>1, <1>3, <1>6
<1>8. r = p.reasoning
  <2>1. CASE p.reasoning = <<>>
    BY <2>1
  <2>2. CASE p.reasoning # <<>>
    <3>1. 1 \in 1 .. n /\ E[1] = "reasoning"
      BY <1>1, <1>3, <2>2
    <3> QED BY <1>6, <3>1
  <2> QED BY <2>1, <2>2
<1>9. a \in Text
  BY DEF Text
<1> HIDE DEF r, a
<1>10. heard.reasoning \o p.reasoning \in Text /\ heard.answer \o a \in Text
  <2>1. heard.reasoning \in Text /\ heard.answer \in Text
    OBVIOUS
  <2> QED BY <1>9, <2>1, Joined DEF Text
<1>11. heard' \in [reasoning : Text, answer : Text] /\ heard'.reasoning = heard.reasoning \o p.reasoning
  BY <1>2, <1>8, <1>10
<1>12. \/ shown' = shown
       \/ reader = "turn" /\ ~InCall(t) /\ shown' = shown \union {<<emitted + 1, Len(t)>>}
  BY <1>2, <1>7 DEF Hidden
<1>13. state # "stopped" => late' = late
  BY <1>2
<1> QED BY <1>11, <1>12, <1>13

\* finish: the reasoning gets what was held back of it.
LEMMA FlushedIs ==
  ASSUME NEW s \in Splitter
  PROVE  /\ Flushed(s) \in Splitter /\ Flushed(s).pending = <<>> /\ Flushed(s).in = s.in
         /\ Flushed(s).answer = s.answer
         /\ s.in => Flushed(s).reasoning = s.reasoning \o s.pending
         /\ ~s.in => Flushed(s).reasoning = s.reasoning
<1> DEFINE r == IF s.in THEN s.reasoning \o s.pending ELSE s.reasoning
<1>1. /\ s.in \in BOOLEAN /\ s.pending \in Text /\ s.reasoning \in Text /\ s.answer \in Text
      /\ <<>> \in Text
  BY DEF Splitter, Text
<1>2. s.reasoning \o s.pending \in Text
  BY <1>1, Joined DEF Text
<1>3. r \in Text
  BY <1>1, <1>2
<1>4. Flushed(s) = [in |-> s.in, pending |-> <<>>, reasoning |-> r, answer |-> s.answer]
  <2>1. Flushed(s) = [s EXCEPT !.pending = <<>>, !.reasoning = r]
    BY DEF Flushed
  <2> HIDE DEF r
  <2> QED BY <2>1 DEF Splitter
<1> HIDE DEF r
<1>5. /\ Flushed(s) \in Splitter /\ Flushed(s).pending = <<>> /\ Flushed(s).in = s.in
      /\ Flushed(s).answer = s.answer /\ Flushed(s).reasoning = r
  <2> DEFINE x == Flushed(s)
             i == s.in
             a == s.answer
  <2>1. x = [in |-> i, pending |-> <<>>, reasoning |-> r, answer |-> a]
    BY <1>4
  <2>2. i \in BOOLEAN /\ a \in Text /\ <<>> \in Text
    BY <1>1
  <2> HIDE DEF x, i, a
  <2>3. x \in Splitter
    BY <1>3, <2>1, <2>2 DEF Splitter
  <2>4. x.pending = <<>> /\ x.answer = a /\ x.reasoning = r /\ x.in = i
    BY <2>1
  <2> QED BY <2>3, <2>4 DEF x, i, a
<1> QED BY <1>5 DEF r

\* At first nothing is said, and nothing held back.
LEMMA InitIInv ==
  ASSUME Init
  PROVE  IInv
<1>1. <<>> \in Text /\ Len(<<>>) = 0 /\ 0 \in 0 .. MaxTokens
  BY BoundIsNat DEF Text
<1>2. TypeOK
  <2>1. split \in Splitter /\ split.pending = <<>>
    <3> DEFINE i == reader = "session"
    <3>1. split = [in |-> i, pending |-> <<>>, reasoning |-> <<>>, answer |-> <<>>] /\ i \in BOOLEAN
      BY DEF Init
    <3> HIDE DEF i
    <3> QED BY <1>1, <3>1 DEF Splitter
  <2>2. heard \in [reasoning : Text, answer : Text] /\ kept \in [reasoning : Text, answer : Text, calls : Nat]
    BY <1>1 DEF Init
  <2>3. tokens \in 0 .. MaxTokens /\ text \in Text /\ emitted \in 0 .. Len(text)
    BY <1>1 DEF Init
  <2>4. Len(split.pending) < Len(EndThink)
    BY <1>1, <2>1, TagsAre
  <2>5. /\ reader \in Readers /\ state \in {"runs", "stopped", "done"} /\ late \in BOOLEAN
        /\ shown \subseteq (1 .. Len(text)) \X (1 .. Len(text))
    BY DEF Init
  <2> QED BY <2>1, <2>2, <2>3, <2>4, <2>5 DEF TypeOK
<1>3. reader = "session" => Open(Out, split) /\ heard.reasoning = split.reasoning
  <2>1. Out = <<>> /\ text = <<>>
    BY DEF Init, Out
  <2>2. Places(<<>>, EndThink) = {}
    BY DEF Places
  <2>3. split.pending = <<>> /\ split.reasoning = <<>> /\ split.answer = <<>> /\ heard.reasoning = <<>>
    BY DEF Init
  <2>4. SubSeq(EndThink, 1, 0) = <<>>
    <3>1. 0 \in 0 .. 3
      OBVIOUS
    <3> QED BY <3>1, Beginning, EmptySeq
  <2>5. <<>> \o <<>> = <<>>
    OBVIOUS
  <2>6. \A n \in 0 + 1 .. Len(EndThink) - 1 : ~Ends(<<>>, SubSeq(EndThink, 1, n))
    <3> TAKE n \in 0 + 1 .. Len(EndThink) - 1
    <3>1. n \in 0 .. 3 /\ n >= 1
      BY TagsAre
    <3>2. Len(SubSeq(EndThink, 1, n)) = n
      BY <3>1, Beginning
    <3> QED BY <1>1, <3>1, <3>2 DEF Ends
  <2> QED BY <1>1, <2>1, <2>2, <2>3, <2>4, <2>5, <2>6 DEF Open
<1>4. Splits
  BY <1>3 DEF Init, Splits
<1>5. Quiet /\ ShownInTheOpen /\ ChunksDoNotMatter
  BY DEF Init, Quiet, ShownInTheOpen, ChunksDoNotMatter
<1> QED BY <1>2, <1>4, <1>5 DEF IInv

\* What a step that lets go of a chunk leaves behind: the splitter and what the reader has
\* go by what has been let go of the text, whether or not the end of the reasoning is told.
LEMMA LetGo ==
  ASSUME TypeOK, Splits, state # "done", NEW c \in Text, NEW n \in Nat,
         NEW q, q.reasoning = Push(split, c).reasoning, q.answer = Push(split, c).answer,
         n <= Len(Events(q, text')),
         n = Len(Events(q, text')) \/ n >= 1,
         Hand(q, text', n)
  PROVE  /\ Push(split, c).split \in Splitter
         /\ Len(Push(split, c).split.pending) < Len(EndThink)
         /\ heard' \in [reasoning : Text, answer : Text]
         /\ \/ shown' = shown
            \/ reader = "turn" /\ ~InCall(text') /\ shown' = shown \union {<<emitted + 1, Len(text')>>}
         /\ state # "stopped" => late' = late
         /\ reader = "turn" => ~Push(split, c).split.in
         /\ reader = "session" =>
              /\ Push(split, c).split.in  => Open(Out \o c, Push(split, c).split)
              /\ ~Push(split, c).split.in => Closed(Out \o c, Push(split, c).split)
              /\ heard'.reasoning = Push(split, c).split.reasoning
<1> DEFINE p == Push(split, c)
<1>1. /\ split \in Splitter /\ heard \in [reasoning : Text, answer : Text] /\ late \in BOOLEAN
      /\ Out \in Text
  BY OutAndRest DEF TypeOK
<1>2. p.reasoning \in Text /\ p.answer \in Text /\ p.split \in Splitter /\ Len(p.split.pending) < 4
  BY <1>1, PushTyped
<1>3. p.split.reasoning = split.reasoning \o p.reasoning /\ (~split.in => p.split.in = FALSE)
  BY <1>1, PushIs
<1>4. reader = "session" =>
        /\ p.split.in  => Open(Out \o c, p.split)
        /\ ~p.split.in => Closed(Out \o c, p.split)
        /\ heard.reasoning = split.reasoning
  BY <1>1, PushSplits DEF Splits
<1>5. /\ n \in Nat /\ n <= Len(Events(q, text')) /\ (n = Len(Events(q, text')) \/ n >= 1)
      /\ Hand(q, text', n) /\ q.reasoning = p.reasoning /\ q.answer = p.answer
  OBVIOUS
<1> HIDE DEF p
<1>6. /\ heard' \in [reasoning : Text, answer : Text]
      /\ heard'.reasoning = heard.reasoning \o p.reasoning
      /\ \/ shown' = shown
         \/ reader = "turn" /\ ~InCall(text') /\ shown' = shown \union {<<emitted + 1, Len(text')>>}
      /\ state # "stopped" => late' = late
  BY <1>1, <1>2, <1>5, HandIs
<1>7. reader = "turn" => ~p.split.in
  BY <1>3 DEF Splits
<1>8. reader = "session" => heard'.reasoning = p.split.reasoning
  BY <1>3, <1>4, <1>6
<1> QED BY <1>2, <1>4, <1>6, <1>7, <1>8, TagsAre DEF p

\* A token leaves everything as it should be, however much of its events is taken.
LEMMA SayIInv ==
  ASSUME IInv, NEW piece \in Vocab, Say(piece)
  PROVE  IInv'
<1> DEFINE c == Chunk(text')
           rest == From(text', emitted + 1)
<1>1. /\ TypeOK /\ Splits /\ Quiet /\ ShownInTheOpen
      /\ state = "runs" /\ tokens < MaxTokens /\ tokens' = tokens + 1 /\ text' = text \o piece
      /\ reader' = reader /\ kept' = kept
  BY DEF IInv, Say
<1>2. /\ text \in Seq(Symbols) /\ Len(text) \in Nat /\ emitted \in 0 .. Len(text)
      /\ tokens \in 0 .. MaxTokens /\ reader \in Readers /\ late \in BOOLEAN
      /\ kept \in [reasoning : Text, answer : Text, calls : Nat]
      /\ split \in Splitter /\ Len(split.pending) < Len(EndThink)
      /\ heard \in [reasoning : Text, answer : Text]
      /\ shown \subseteq (1 .. Len(text)) \X (1 .. Len(text))
  BY <1>1 DEF TypeOK, Text
<1>3. piece \in Seq(Symbols)
  BY PieceIsText DEF Text
<1>4. /\ text' \in Text /\ text' \in Seq(Symbols) /\ Len(text') = Len(text) + Len(piece)
      /\ Len(piece) \in Nat /\ Len(text') \in Nat
  BY <1>1, <1>2, <1>3, Joined DEF Text
<1>5. \A i \in 0 .. Len(text) : SubSeq(text', 1, i) = SubSeq(text, 1, i)
  BY <1>1, <1>2, <1>3, Pieces
<1>6. SubSeq(text', 1, emitted) = Out
  BY <1>2, <1>5 DEF Out
<1>7. rest \in Text /\ Len(rest) = Len(text') - emitted
  <2>1. emitted + 1 \in 1 .. Len(text') + 1
    BY <1>2, <1>4
  <2>2. /\ From(text', emitted + 1) \in Seq(Symbols)
        /\ Len(From(text', emitted + 1)) = Len(text') - (emitted + 1) + 1
    BY <1>4, <2>1, Rest
  <2>3. Len(text') - (emitted + 1) + 1 = Len(text') - emitted
    BY <1>2, <1>4
  <2> QED BY <2>2, <2>3 DEF Text
<1>8. Out \o rest = text'
  <2>1. emitted \in 0 .. Len(text')
    BY <1>2, <1>4
  <2> QED BY <1>4, <1>6, <2>1, Pieces
<1>9. c = <<>> \/ c = rest
  BY DEF Chunk
<1>10. SubSeq(text', 1, Len(text')) = text'
  BY <1>4, SubSeqFull
<1>11. IF c = <<>>
         THEN UNCHANGED <<emitted, split, heard, shown, state, late>>
         ELSE /\ emitted' = emitted + Len(c)
              /\ split' = Push(split, c).split
              /\ \/ Hand(Push(split, c), text', Len(Events(Push(split, c), text'))) /\ UNCHANGED state
                 \/ \E k \in 1 .. Len(Events(Push(split, c), text')) :
                      Hand(Push(split, c), text', k) /\ state' = "stopped"
  BY DEF Say
<1>12. tokens' \in 0 .. MaxTokens
  BY <1>1, <1>2, BoundIsNat
<1>13. \A s \in shown : s[2] \in 0 .. Len(text) /\ reader = "turn" /\ ~InCall(SubSeq(text', 1, s[2]))
  <2> TAKE s \in shown
  <2>1. s[2] \in 1 .. Len(text)
    BY <1>2
  <2>2. reader = "turn" /\ ~InCall(SubSeq(text, 1, s[2]))
    BY <1>1 DEF ShownInTheOpen
  <2>3. s[2] \in 0 .. Len(text)
    BY <1>2, <2>1
  <2>4. SubSeq(text', 1, s[2]) = SubSeq(text, 1, s[2])
    BY <1>5, <2>3
  <2> QED BY <2>2, <2>3, <2>4
<1>14. shown \subseteq (1 .. Len(text')) \X (1 .. Len(text'))
  BY <1>2, <1>4
<1> HIDE DEF c, rest
<1>15. CASE c = <<>>
  <2>1. /\ emitted' = emitted /\ split' = split /\ heard' = heard /\ shown' = shown
        /\ state' = state /\ late' = late
    BY <1>11, <1>15
  <2>2. emitted' \in 0 .. Len(text')
    BY <1>2, <1>4, <2>1
  <2>3. TypeOK'
    BY <1>1, <1>2, <1>4, <1>12, <1>14, <2>1, <2>2 DEF TypeOK
  <2>4. Out' = Out
    BY <1>6, <2>1 DEF Out
  <2>5. Splits'
    BY <1>1, <2>1, <2>4 DEF Splits
  <2>6. Quiet'
    BY <1>1, <2>1 DEF Quiet
  <2>7. ShownInTheOpen'
    BY <1>1, <1>13, <2>1 DEF ShownInTheOpen
  <2>8. ChunksDoNotMatter'
    BY <1>1, <2>1 DEF ChunksDoNotMatter
  <2> QED BY <2>3, <2>5, <2>6, <2>7, <2>8 DEF IInv
<1>16. CASE c # <<>>
  <2> DEFINE p == Push(split, c)
  <2>1. c = rest /\ c \in Text /\ Len(c) # 0
    BY <1>7, <1>9, <1>16, EmptySeq DEF Text
  <2>2. /\ emitted' = Len(text') /\ emitted + 1 \in 1 .. Len(text') /\ Len(text') \in 1 .. Len(text')
    BY <1>2, <1>4, <1>7, <1>11, <1>16, <2>1
  <2>3. Out' = Out \o c
    BY <1>8, <1>10, <2>1, <2>2 DEF Out
  <2>4. split' = p.split
    BY <1>11, <1>16
  <2>5. PICK n \in Nat :
          /\ n <= Len(Events(p, text')) /\ (n = Len(Events(p, text')) \/ n >= 1)
          /\ Hand(p, text', n) /\ state' \in {"runs", "stopped"}
    <3>1. Len(Events(p, text')) \in Nat
      BY EventsAre
    <3> HIDE DEF p
    <3> QED BY <1>1, <1>11, <1>16, <3>1 DEF p
  <2>6. /\ p.split \in Splitter /\ Len(p.split.pending) < Len(EndThink)
        /\ heard' \in [reasoning : Text, answer : Text]
        /\ \/ shown' = shown
           \/ reader = "turn" /\ ~InCall(text') /\ shown' = shown \union {<<emitted + 1, Len(text')>>}
        /\ late' = late
        /\ reader = "turn" => ~p.split.in
        /\ reader = "session" =>
             /\ p.split.in  => Open(Out \o c, p.split)
             /\ ~p.split.in => Closed(Out \o c, p.split)
             /\ heard'.reasoning = p.split.reasoning
    BY <1>1, <2>1, <2>5, LetGo
  <2> HIDE DEF p
  <2>7. shown' \subseteq (1 .. Len(text')) \X (1 .. Len(text'))
    BY <1>14, <2>2, <2>6
  <2>8. TypeOK'
    <3>1. emitted' \in 0 .. Len(text')
      BY <1>4, <2>2
    <3>2. split' \in Splitter /\ Len(split'.pending) < Len(EndThink)
      BY <2>4, <2>6
    <3>3. state' \in {"runs", "stopped", "done"} /\ late' \in BOOLEAN
      BY <1>2, <2>5, <2>6
    <3> QED BY <1>1, <1>2, <1>4, <1>12, <2>6, <2>7, <3>1, <3>2, <3>3 DEF TypeOK
  <2>9. Splits'
    BY <1>1, <2>3, <2>4, <2>6 DEF Splits
  <2>10. Quiet'
    BY <1>1, <2>2, <2>6 DEF Quiet
  <2>11. ShownInTheOpen'
    <3>1. \A s \in shown' : reader = "turn" /\ ~InCall(SubSeq(text', 1, s[2]))
      <4> TAKE s \in shown'
      <4>1. CASE s \in shown
        BY <1>13, <4>1
      <4>2. CASE s \notin shown
        <5>1. reader = "turn" /\ ~InCall(text') /\ s = <<emitted + 1, Len(text')>>
          BY <2>6, <4>2
        <5>2. SubSeq(text', 1, s[2]) = text'
          BY <1>10, <5>1
        <5> QED BY <5>1, <5>2
      <4> QED BY <4>1, <4>2
    <3> QED BY <1>1, <3>1 DEF ShownInTheOpen
  <2>12. ChunksDoNotMatter'
    BY <2>5 DEF ChunksDoNotMatter
  <2> QED BY <2>8, <2>9, <2>10, <2>11, <2>12 DEF IInv
<1> QED BY <1>15, <1>16

\* What a session keeps of a splitter that has seen all of a text, once it is flushed, is
\* what the text says.
LEMMA KeptIs ==
  ASSUME NEW t \in Text, NEW e \in Splitter, e.in => Open(t, e), ~e.in => Closed(t, e)
  PROVE  /\ Flushed(e).reasoning =
              IF Find(t, EndThink) = 0 THEN t ELSE SubSeq(t, 1, Find(t, EndThink) - 1)
         /\ Trim(Flushed(e).answer) =
              IF Find(t, EndThink) = 0 THEN <<>> ELSE Trim(From(t, Find(t, EndThink) + Len(EndThink)))
<1> DEFINE at == Find(t, EndThink)
           r == Flushed(e).reasoning
           a == Flushed(e).answer
<1>1. /\ a = e.answer /\ (e.in => r = e.reasoning \o e.pending) /\ (~e.in => r = e.reasoning)
      /\ e.in \in BOOLEAN /\ e.answer \in Text
  BY FlushedIs DEF Splitter
<1>2. t \in Seq(Signs)
  BY TextIsSigns
<1> HIDE DEF r, a
<1>3. CASE e.in
  <2>1. at = 0 /\ r = t /\ a = <<>>
    BY <1>1, <1>2, <1>3, FindIs DEF Open
  <2>2. Trim(<<>>) = <<>>
    BY DEF Trim, Solid
  <2> QED BY <2>1, <2>2 DEF r, a
<1>4. CASE ~e.in
  <2>1. /\ at # 0 /\ r = SubSeq(t, 1, at - 1)
        /\ Tailed(a, From(t, at + 4))
    BY <1>1, <1>4, TagsAre DEF Closed
  <2>2. at \in 1 .. Len(t) /\ at + 3 <= Len(t) /\ Len(t) \in Nat
    BY <1>2, <2>1, FindIs, ThinkPlaces
  <2> HIDE DEF at
  <2>3. at + 4 \in 1 .. Len(t) + 1
    BY <2>2
  <2>4. From(t, at + 4) \in Seq(Symbols) /\ a \in Seq(Symbols)
    BY <1>1, <2>3, Rest DEF Text
  <2>5. Trim(a) = Trim(From(t, at + 4))
    BY <2>1, <2>4, TrimTailed
  <2> QED BY <2>1, <2>5, TagsAre DEF at, r, a
<1> QED BY <1>1, <1>3, <1>4

\* What a robot's turn keeps is a text and a number of calls.
LEMMA ReplyTyped ==
  ASSUME NEW e, e.answer \in Text
  PROVE  Reply(e) \in [reasoning : Text, answer : Text, calls : Nat]
<1> DEFINE q == ParseCalls(Trim(e.answer))
<1>1. Trim(e.answer) \in Text
  BY TrimIs DEF Text
<1>2. q \in Said
  BY <1>1, ParseCallsTyped
<1>3. Reply(e) = [reasoning |-> <<>>, answer |-> Trim(q.clean), calls |-> q.calls]
  BY DEF Reply
<1> HIDE DEF q
<1>4. q.clean \in Text /\ q.calls \in Nat /\ <<>> \in Text
  BY <1>2 DEF Said, Text
<1>5. Trim(q.clean) \in Text
  BY <1>4, TrimIs DEF Text
<1> QED BY <1>3, <1>4, <1>5

\* The end of a reply leaves everything as it should be.
LEMMA FinishIInv ==
  ASSUME IInv, Finish
  PROVE  IInv'
<1> DEFINE tail == From(text, emitted + 1)
           p == Push(split, tail)
           q == [p EXCEPT !.closed = FALSE]
           e == IF tail = <<>> THEN split ELSE p.split
           end == Flushed(e)
           N == Len(Events(q, text))
<1>1. /\ TypeOK /\ Splits /\ Quiet /\ ShownInTheOpen
      /\ state # "done" /\ state' = "done" /\ emitted' = Len(text)
      /\ reader' = reader /\ tokens' = tokens /\ text' = text
  BY DEF IInv, Finish
<1>2. /\ text \in Text /\ Len(text) \in Nat /\ emitted \in 0 .. Len(text)
      /\ tokens \in 0 .. MaxTokens /\ reader \in Readers /\ late \in BOOLEAN
      /\ split \in Splitter /\ Len(split.pending) < Len(EndThink)
      /\ heard \in [reasoning : Text, answer : Text]
      /\ shown \subseteq (1 .. Len(text)) \X (1 .. Len(text))
  BY <1>1 DEF TypeOK, Text
<1>3. tail \in Text /\ Len(tail) = Len(text) - emitted /\ Out \o tail = text /\ Out \in Text
  BY <1>1, OutAndRest
<1>4. SubSeq(text, 1, Len(text)) = text
  BY <1>2, SubSeqFull DEF Text
<1>q. q.reasoning = p.reasoning /\ q.answer = p.answer /\ q.split = p.split
  BY <1>1, <1>3, PushUntold DEF TypeOK
<1>5. IF tail = <<>> THEN UNCHANGED <<heard, shown, late>> ELSE Hand(q, text, N)
  BY DEF Finish
<1>6. /\ split' = end
      /\ kept' = IF reader = "session"
                   THEN [reasoning |-> Trim(end.reasoning), answer |-> Trim(end.answer), calls |-> 0]
                   ELSE Reply(end)
  BY <1>q DEF Finish
<1>7. /\ e \in Splitter /\ heard' \in [reasoning : Text, answer : Text]
      /\ \/ shown' = shown
         \/ /\ reader = "turn" /\ ~InCall(text) /\ shown' = shown \union {<<emitted + 1, Len(text)>>}
            /\ emitted + 1 \in 1 .. Len(text) /\ Len(text) \in 1 .. Len(text)
      /\ late' = late
      /\ reader = "turn" => ~e.in
      /\ reader = "session" => (e.in => Open(text, e)) /\ (~e.in => Closed(text, e))
  <2>1. CASE tail = <<>>
    <3>1. emitted = Len(text) /\ Out = text /\ e = split
      <4>1. Len(tail) = 0
        BY <2>1
      <4> HIDE DEF tail
      <4> QED BY <1>2, <1>3, <1>4, <2>1, <4>1 DEF Out
    <3>2. heard' = heard /\ shown' = shown /\ late' = late
      BY <1>5, <2>1
    <3> HIDE DEF e
    <3> QED BY <1>1, <1>2, <3>1, <3>2 DEF Splits
  <2>2. CASE tail # <<>>
    <3>1. e = p.split
      BY <2>2
    <3>2. Len(tail) # 0
      BY <1>3, <2>2, EmptySeq DEF Text
    <3>3. emitted + 1 \in 1 .. Len(text) /\ Len(text) \in 1 .. Len(text) /\ emitted # Len(text)
      BY <1>2, <1>3, <3>2
    <3>4. state # "stopped"
      BY <1>1, <3>3 DEF Quiet
    <3>5. /\ N \in Nat /\ N <= Len(Events(q, text')) /\ N = Len(Events(q, text'))
          /\ Hand(q, text', N)
      BY <1>1, <1>5, <2>2, EventsAre
    <3> HIDE DEF tail, N, q
    <3>6. /\ p.split \in Splitter
          /\ heard' \in [reasoning : Text, answer : Text]
          /\ \/ shown' = shown
             \/ reader = "turn" /\ ~InCall(text') /\ shown' = shown \union {<<emitted + 1, Len(text')>>}
          /\ late' = late
          /\ reader = "turn" => ~p.split.in
          /\ reader = "session" =>
               /\ p.split.in  => Open(Out \o tail, p.split)
               /\ ~p.split.in => Closed(Out \o tail, p.split)
      BY <1>1, <1>3, <1>q, <3>4, <3>5, LetGo
    <3> HIDE DEF p, e
    <3> QED BY <1>1, <1>3, <3>1, <3>3, <3>6
  <2> QED BY <2>1, <2>2
<1> HIDE DEF tail, p, e
<1>8. end \in Splitter /\ end.pending = <<>> /\ end.in = e.in
  BY <1>7, FlushedIs
<1>9. end.reasoning \in Text /\ end.answer \in Text
  BY <1>8 DEF Splitter
<1>10. reader = "session" =>
         LET at == Find(text, EndThink) IN
         /\ end.reasoning = IF at = 0 THEN text ELSE SubSeq(text, 1, at - 1)
         /\ Trim(end.answer) = IF at = 0 THEN <<>> ELSE Trim(From(text, at + Len(EndThink)))
  BY <1>2, <1>7, KeptIs
<1> HIDE DEF end
<1>11. kept' \in [reasoning : Text, answer : Text, calls : Nat]
  <2>1. Trim(end.reasoning) \in Text /\ Trim(end.answer) \in Text
    BY <1>9, TrimIs DEF Text
  <2>2. Reply(end) \in [reasoning : Text, answer : Text, calls : Nat]
    BY <1>9, ReplyTyped
  <2>3. CASE reader = "session"
    BY <1>6, <2>1, <2>3
  <2>4. CASE reader # "session"
    BY <1>6, <2>2, <2>4
  <2> QED BY <2>3, <2>4
<1>12. shown' \subseteq (1 .. Len(text)) \X (1 .. Len(text))
  BY <1>2, <1>7
<1>13. TypeOK'
  <2>1. emitted' \in 0 .. Len(text') /\ state' \in {"runs", "stopped", "done"} /\ late' \in BOOLEAN
    BY <1>1, <1>2, <1>7
  <2>2. split' \in Splitter /\ Len(split'.pending) < Len(EndThink)
    BY <1>6, <1>8, TagsAre
  <2> QED BY <1>1, <1>2, <1>7, <1>11, <1>12, <2>1, <2>2 DEF TypeOK
<1>14. Splits'
  BY <1>1, <1>6, <1>7, <1>8 DEF Splits
<1>15. Quiet'
  BY <1>1, <1>7 DEF Quiet
<1>16. ShownInTheOpen'
  <2>1. \A s \in shown' : reader = "turn" /\ ~InCall(SubSeq(text, 1, s[2]))
    <3> TAKE s \in shown'
    <3>1. CASE s \in shown
      BY <1>1, <3>1 DEF ShownInTheOpen
    <3>2. CASE s \notin shown
      <4>1. reader = "turn" /\ ~InCall(text) /\ s = <<emitted + 1, Len(text)>>
        BY <1>7, <3>2
      <4>2. SubSeq(text, 1, s[2]) = text
        BY <1>4, <4>1
      <4> QED BY <4>1, <4>2
    <3> QED BY <3>1, <3>2
  <2> QED BY <1>1, <2>1 DEF ShownInTheOpen
<1>17. ChunksDoNotMatter'
  <2> SUFFICES ASSUME reader = "session"
               PROVE  LET at == Find(text, EndThink) IN
                      kept' = [reasoning |-> Trim(IF at = 0 THEN text ELSE SubSeq(text, 1, at - 1)),
                               answer    |-> IF at = 0 THEN <<>> ELSE Trim(From(text, at + Len(EndThink))),
                               calls     |-> 0]
    BY <1>1 DEF ChunksDoNotMatter
  <2> QED BY <1>6, <1>10
<1> QED BY <1>13, <1>14, <1>15, <1>16, <1>17 DEF IInv

\* No step breaks the invariant.
LEMMA Inductive ==
  ASSUME IInv, [Next]_vars
  PROVE  IInv'
<1>1. CASE \E piece \in Vocab : Say(piece)
  BY <1>1, SayIInv
<1>2. CASE Finish
  BY <1>2, FinishIInv
<1>3. CASE UNCHANGED vars
  <2>1. /\ reader' = reader /\ tokens' = tokens /\ text' = text /\ emitted' = emitted
        /\ split' = split /\ heard' = heard /\ shown' = shown /\ state' = state
        /\ late' = late /\ kept' = kept
    BY <1>3 DEF vars
  <2>2. Out' = Out
    BY <2>1 DEF Out
  <2>3. TypeOK' /\ Splits'
    BY <2>1, <2>2 DEF IInv, TypeOK, Splits
  <2>4. Quiet' /\ ShownInTheOpen' /\ ChunksDoNotMatter'
    BY <2>1 DEF IInv, Quiet, ShownInTheOpen, ChunksDoNotMatter
  <2> QED BY <2>3, <2>4 DEF IInv
<1> QED BY <1>1, <1>2, <1>3 DEF Next

\* The invariant holds in every state of every reply.
THEOREM StreamInvariant == Spec => []IInv
<1>1. Init => IInv
  BY InitIInv
<1>2. IInv /\ [Next]_vars => IInv'
  BY Inductive
<1> QED BY <1>1, <1>2, PTL DEF Spec

\* What the detokenizer, the splitter and the reader hold is text, the splitter never more
\* than a tag's beginning (tokenizer.rs, engine.rs).
THEOREM StreamTypeOK == Spec => []TypeOK
<1>1. IInv => TypeOK
  BY DEF IInv
<1> QED BY <1>1, StreamInvariant, PTL

\* What a session keeps of a reply is what the whole text says, however its tokens cut it
\* (engine.rs, ThinkingSplitter).
THEOREM StreamChunksDoNotMatter == Spec => []ChunksDoNotMatter
<1>1. IInv => ChunksDoNotMatter
  BY DEF IInv
<1> QED BY <1>1, StreamInvariant, PTL

\* A reader that has said stop is handed nothing more, at the end of the reply included
\* (rustmlx engine.rs, generate).
THEOREM StreamNothingAfterStop == Spec => []NothingAfterStop
<1>1. IInv => NothingAfterStop
  BY DEF IInv, Quiet, NothingAfterStop
<1> QED BY <1>1, StreamInvariant, PTL

\* At each token the reader of the reasoning has all of it but what could still become the
\* tag, and nothing of the tag or of what comes after it (engine.rs, ThinkingSplitter).
THEOREM StreamHeldJustEnough == Spec => []HeldJustEnough
<1>1. ASSUME IInv PROVE HeldJustEnough
  <2> SUFFICES ASSUME state # "done", reader = "session"
               PROVE  LET at == Find(Out, EndThink)
                      IN IF at # 0 THEN heard.reasoning = SubSeq(Out, 1, at - 1)
                         ELSE \E n \in 0 .. Len(EndThink) - 1 :
                                /\ Out = heard.reasoning \o SubSeq(EndThink, 1, n)
                                /\ \A m \in n + 1 .. Len(EndThink) - 1 : ~Ends(Out, SubSeq(EndThink, 1, m))
    BY DEF HeldJustEnough, Out
  <2>1. /\ split.in \in BOOLEAN /\ Len(split.pending) \in Nat /\ Len(split.pending) < Len(EndThink)
        /\ Out \in Seq(Signs)
    BY <1>1, OutAndRest, TextIsSigns DEF IInv, TypeOK, Splitter, Text
  <2>2. CASE split.in
    <3>1. Open(Out, split) /\ heard.reasoning = split.reasoning
      BY <1>1, <2>2 DEF IInv, Splits
    <3>2. Find(Out, EndThink) = 0
      BY <2>1, <3>1, FindIs DEF Open
    <3> DEFINE n == Len(split.pending)
    <3>3. /\ Out = heard.reasoning \o SubSeq(EndThink, 1, n)
          /\ \A m \in n + 1 .. Len(EndThink) - 1 : ~Ends(Out, SubSeq(EndThink, 1, m))
      BY <3>1 DEF Open
    <3>4. n \in 0 .. Len(EndThink) - 1
      <4>1. Len(EndThink) = 4
        BY TagsAre
      <4>2. n \in Nat /\ n < 4
        BY <2>1, <4>1
      <4> HIDE DEF n
      <4> QED BY <4>1, <4>2
    <3> HIDE DEF n
    <3> QED BY <3>2, <3>3, <3>4
  <2>3. CASE ~split.in
    <3>1. Closed(Out, split) /\ heard.reasoning = split.reasoning
      BY <1>1, <2>3 DEF IInv, Splits
    <3> QED BY <3>1 DEF Closed
  <2> QED BY <2>1, <2>2, <2>3
<1> QED BY <1>1, StreamInvariant, PTL

---------------------------------------------------------------------------
(* Tool calls that are not shown.                                          *)

\* A text that ends within a block whose opening tag has begun, and before which no closing
\* tag stood alone, ends within a call.
LEMMA WithinACall ==
  ASSUME NEW t \in Text, NEW b \in Places(t, OpenCall),
         Find(From(t, b), CloseCall) # 0,
         Cardinality(Places(SubSeq(t, 1, b - 1), CloseCall))
           <= Cardinality(Places(SubSeq(t, 1, b - 1), OpenCall)),
         NEW m \in b + 1 .. b + Find(From(t, b), CloseCall) + 1, m <= Len(t)
  PROVE  InCall(SubSeq(t, 1, m))
<1> DEFINE u == SubSeq(t, 1, m)
           v == SubSeq(t, 1, b - 1)
           w == From(t, b)
           f == Find(w, CloseCall)
<1>0. OpenCall \in Seq(Signs) /\ Len(OpenCall) = 3 /\ OpenCall[1] = "<" /\ OpenCall[2] = "c"
  BY TagsAre
<1>1. t \in Seq(Signs) /\ Len(t) \in Nat
  BY TextIsSigns DEF Text
<1>2. /\ b \in 1 .. Len(t) /\ b + 2 <= Len(t)
      /\ \A k \in 1 .. 3 : t[b + k - 1] = OpenCall[k]
      /\ t[b] = "<" /\ t[b + 1] = "c"
  <2>1. /\ b \in 1 .. Len(t) /\ b + 2 <= Len(t)
        /\ \A k \in 1 .. 3 : t[b + k - 1] = OpenCall[k]
    BY <1>1, OpenPlaces
  <2>2. 1 \in 1 .. 3 /\ b + 1 - 1 = b /\ 2 \in 1 .. 3 /\ b + 2 - 1 = b + 1
    BY <2>1
  <2>3. t[b + 1 - 1] = "<" /\ t[b + 2 - 1] = "c"
    BY <1>0, <2>1, <2>2
  <2> QED BY <2>1, <2>2, <2>3
<1>3. w \in Seq(Signs) /\ Len(w) = Len(t) - b + 1 /\ \A k \in 1 .. Len(t) - b + 1 : w[k] = t[b + k - 1]
  <2>1. b \in 1 .. Len(t) + 1
    BY <1>1, <1>2
  <2> QED BY <1>1, <2>1, Rest
<1> HIDE DEF w
<1>4. f \in Places(w, CloseCall) /\ \A i \in Places(w, CloseCall) : f <= i
  BY <1>3, FindIs DEF w
<1>5. f \in 1 .. Len(w) /\ f + 3 <= Len(w)
  BY <1>3, <1>4, ClosePlaces
<1>6. m \in b + 1 .. b + f + 1 /\ m \in 1 .. Len(t)
  BY <1>1, <1>2, <1>5 DEF w
<1> HIDE DEF f
<1>7. u \in Seq(Signs) /\ Len(u) = m /\ \A k \in 1 .. m : u[k] = t[k]
  <2>1. 1 \in 1 .. Len(t) + 1 /\ m \in 1 - 1 .. Len(t)
    BY <1>1, <1>6
  <2>2. u \in Seq(Signs) /\ Len(u) = m - 1 + 1 /\ \A k \in 1 .. m - 1 + 1 : u[k] = t[1 + k - 1]
    BY <1>1, <2>1, Piece
  <2>3. m - 1 + 1 = m /\ \A k \in 1 .. m : 1 + k - 1 = k
    BY <1>6
  <2> HIDE DEF u
  <2> QED BY <2>2, <2>3
<1>8. v \in Seq(Signs) /\ Len(v) = b - 1 /\ \A k \in 1 .. b - 1 : v[k] = t[k]
  <2>1. 1 \in 1 .. Len(t) + 1 /\ b - 1 \in 1 - 1 .. Len(t)
    BY <1>1, <1>2
  <2>2. v \in Seq(Signs) /\ Len(v) = b - 1 - 1 + 1 /\ \A k \in 1 .. b - 1 - 1 + 1 : v[k] = t[1 + k - 1]
    BY <1>1, <2>1, Piece
  <2>3. b - 1 - 1 + 1 = b - 1 /\ \A k \in 1 .. b - 1 : 1 + k - 1 = k
    BY <1>2
  <2> HIDE DEF v
  <2> QED BY <2>2, <2>3
<1>9. Cardinality(Places(v, CloseCall)) <= Cardinality(Places(v, OpenCall))
  OBVIOUS
<1> HIDE DEF u, v
<1>10. CASE m = b + 1
  <2> DEFINE tag == SubSeq(OpenCall, 1, 2)
  <2>1. tag \in Seq(Signs) /\ Len(tag) = 2 /\ tag[1] = "<" /\ tag[2] = "c"
    <3>1. 1 \in 1 .. Len(OpenCall) + 1 /\ 2 \in 1 - 1 .. Len(OpenCall)
      BY <1>0
    <3>2. tag \in Seq(Signs) /\ Len(tag) = 2 - 1 + 1 /\ \A k \in 1 .. 2 - 1 + 1 : tag[k] = OpenCall[1 + k - 1]
      BY <1>0, <3>1, Piece
    <3>3. 1 \in 1 .. 2 - 1 + 1 /\ 2 \in 1 .. 2 - 1 + 1
      OBVIOUS
    <3> HIDE DEF tag
    <3>4. tag[1] = OpenCall[1 + 1 - 1] /\ tag[2] = OpenCall[1 + 2 - 1]
      BY <3>2, <3>3
    <3> QED BY <3>2, <3>4, TagsAre
  <2> HIDE DEF tag
  <2>2. \A k \in 1 .. Len(tag) : u[Len(u) - Len(tag) + k] = tag[k]
    <3>1. u[b] = "<" /\ u[b + 1] = "c"
      BY <1>2, <1>6, <1>7, <1>10
    <3> TAKE k \in 1 .. Len(tag)
    <3>2. (k = 1 /\ Len(u) - Len(tag) + k = b) \/ (k = 2 /\ Len(u) - Len(tag) + k = b + 1)
      BY <1>2, <1>7, <1>10, <2>1
    <3> QED BY <2>1, <3>1, <3>2
  <2>3. Ends(u, tag)
    <3>1. Len(tag) <= Len(u)
      BY <1>2, <1>7, <1>10, <2>1
    <3> QED BY <1>7, <2>1, <2>2, <3>1, EndsAre
  <2>4. 2 \in 2 .. Len(OpenCall) - 1
    BY <1>0
  <2> QED BY <2>3, <2>4 DEF InCall, tag, u
<1>11. CASE m # b + 1
  <2> DEFINE UO == Places(u, OpenCall)
             UC == Places(u, CloseCall)
             VO == Places(v, OpenCall)
             VC == Places(v, CloseCall)
  <2>1. \A i : i \in UO <=> i \in 1 .. Len(u) /\ i + 2 <= Len(u) /\ \A k \in 1 .. 3 : u[i + k - 1] = OpenCall[k]
    BY <1>7, OpenPlaces
  <2>2. \A i : i \in VO <=> i \in 1 .. Len(v) /\ i + 2 <= Len(v) /\ \A k \in 1 .. 3 : v[i + k - 1] = OpenCall[k]
    BY <1>8, OpenPlaces
  <2>3. \A i : i \in UC <=> i \in 1 .. Len(u) /\ i + 3 <= Len(u) /\ \A k \in 1 .. 4 : u[i + k - 1] = CloseCall[k]
    BY <1>7, ClosePlaces
  <2>4. \A i : i \in VC <=> i \in 1 .. Len(v) /\ i + 3 <= Len(v) /\ \A k \in 1 .. 4 : v[i + k - 1] = CloseCall[k]
    BY <1>8, ClosePlaces
  <2>5. \A i : i \in Places(w, CloseCall) <=>
          i \in 1 .. Len(w) /\ i + 3 <= Len(w) /\ \A k \in 1 .. 4 : w[i + k - 1] = CloseCall[k]
    BY <1>3, ClosePlaces
  <2> HIDE DEF UO, UC, VO, VC
  <2>6. b \in UO /\ b \notin VO /\ VO \subseteq UO
    <3>1. b \in 1 .. Len(u) /\ b + 2 <= Len(u)
      BY <1>2, <1>6, <1>7, <1>11
    <3>2. \A k \in 1 .. 3 : u[b + k - 1] = OpenCall[k]
      <4> TAKE k \in 1 .. 3
      <4>1. b + k - 1 \in 1 .. m
        BY <1>2, <1>7, <3>1
      <4> QED BY <1>2, <1>7, <4>1
    <3>3. ~(b <= Len(v))
      BY <1>2, <1>8
    <3>4. ASSUME NEW i \in VO PROVE i \in UO
      <4>1. /\ i \in 1 .. Len(v) /\ i + 2 <= Len(v)
            /\ \A k \in 1 .. 3 : v[i + k - 1] = OpenCall[k]
        BY <2>2, <3>4
      <4>2. i \in 1 .. Len(u) /\ i + 2 <= Len(u)
        BY <1>2, <1>6, <1>7, <1>8, <4>1
      <4>3. \A k \in 1 .. 3 : u[i + k - 1] = OpenCall[k]
        <5> TAKE k \in 1 .. 3
        <5>1. i + k - 1 \in 1 .. b - 1 /\ i + k - 1 \in 1 .. m
          BY <1>2, <1>6, <1>8, <4>1
        <5> QED BY <1>7, <1>8, <4>1, <5>1
      <4> QED BY <2>1, <4>2, <4>3
    <3>5. b \in UO
      BY <2>1, <3>1, <3>2
    <3>6. b \notin VO
      BY <1>8, <2>2, <3>3
    <3>7. VO \subseteq UO
      BY <3>4
    <3> QED BY <3>5, <3>6, <3>7
  <2>7. UC \subseteq VC
    <3> SUFFICES ASSUME NEW j \in UC PROVE j \in VC
      OBVIOUS
    <3>1. /\ j \in 1 .. m /\ j + 3 <= m
          /\ \A k \in 1 .. 4 : u[j + k - 1] = CloseCall[k]
      BY <1>7, <2>3
    <3>2. \A k \in 1 .. 4 : j + k - 1 \in 1 .. m /\ t[j + k - 1] = CloseCall[k]
      <4> TAKE k \in 1 .. 4
      <4>1. j + k - 1 \in 1 .. m
        BY <1>6, <3>1
      <4> QED BY <1>7, <3>1, <4>1
    <3>3. j < b
      <4> SUFFICES ASSUME j >= b PROVE FALSE
        BY <1>2, <3>1
      <4> DEFINE i == j - b + 1
      <4>1. i \in 1 .. Len(w) /\ i + 3 <= Len(w)
        BY <1>1, <1>2, <1>3, <1>6, <3>1
      <4>2. \A k \in 1 .. 4 : w[i + k - 1] = CloseCall[k]
        <5> TAKE k \in 1 .. 4
        <5>1. i + k - 1 \in 1 .. Len(t) - b + 1 /\ b + (i + k - 1) - 1 = j + k - 1
          BY <1>1, <1>2, <1>3, <3>1, <4>1
        <5> QED BY <1>3, <3>2, <5>1
      <4>3. f <= i
        BY <1>4, <2>5, <4>1, <4>2
      <4> QED BY <1>2, <1>5, <1>6, <3>1, <4>3
    <3>4. j + 3 < b
      <4> SUFFICES ASSUME j + 3 >= b PROVE FALSE
        BY <1>2, <3>1
      <4> DEFINE k == b - j + 1
      <4>1. k \in 2 .. 4 /\ j + k - 1 = b
        BY <1>2, <3>1, <3>3
      <4> HIDE DEF k
      <4>2. t[b] = CloseCall[k]
        BY <3>2, <4>1
      <4>3. t[b] = "<"
        BY <1>2
      <4>4. CloseCall[k] \in {"/", "c", ">"}
        <5>1. k = 2 \/ k = 3 \/ k = 4
          BY <4>1
        <5> QED BY <5>1, TagsAre
      <4> QED BY <4>2, <4>3, <4>4
    <3>5. j \in 1 .. Len(v) /\ j + 3 <= Len(v)
      BY <1>2, <1>8, <3>1, <3>4
    <3>6. \A k \in 1 .. 4 : v[j + k - 1] = CloseCall[k]
      <4> TAKE k \in 1 .. 4
      <4>1. j + k - 1 \in 1 .. b - 1
        BY <1>2, <3>1, <3>4
      <4> QED BY <1>8, <3>2, <4>1
    <3> QED BY <2>4, <3>5, <3>6
  <2>8. IsFiniteSet(UO) /\ IsFiniteSet(VO) /\ IsFiniteSet(VC)
    <3>1. UO \subseteq 1 .. Len(t) /\ VO \subseteq 1 .. Len(t) /\ VC \subseteq 1 .. Len(t)
      BY <1>1, <1>2, <1>6, <1>7, <1>8, <2>1, <2>2, <2>4
    <3>2. IsFiniteSet(1 .. Len(t))
      BY <1>1, FS_Interval
    <3> QED BY <3>1, <3>2, FS_Subset
  <2>9. Cardinality(UC) <= Cardinality(VC)
    BY <2>7, <2>8, FS_Subset
  <2>10. Cardinality(VO \union {b}) = Cardinality(VO) + 1
    BY <2>6, <2>8, FS_AddElement
  <2>11. Cardinality(VO \union {b}) <= Cardinality(UO)
    <3>1. VO \union {b} \subseteq UO
      BY <2>6
    <3> QED BY <2>8, <3>1, FS_Subset
  <2>12. /\ Cardinality(UO) \in Nat /\ Cardinality(VO) \in Nat /\ Cardinality(VC) \in Nat
         /\ Cardinality(UC) \in Nat
    <3>1. IsFiniteSet(UC)
      BY <2>7, <2>8, FS_Subset
    <3> QED BY <2>8, <3>1, FS_CardinalityType
  <2>13. Cardinality(VC) <= Cardinality(VO)
    BY <1>9 DEF VC, VO
  <2>14. Cardinality(UO) > Cardinality(UC)
    BY <2>9, <2>10, <2>11, <2>12, <2>13
  <2> QED BY <2>14 DEF InCall, UO, UC, u
<1> QED BY <1>10, <1>11

\* Of a call that is run, the reader of a turn sees at most the "<" it begins with and the
\* token it ends with, as long as no closing tag stood alone before (ondevice.rs,
\* in_tool_call).
THEOREM StreamCallsAreHidden == Spec => []CallsAreHidden
<1>1. ASSUME IInv PROVE CallsAreHidden
  <2> SUFFICES ASSUME NEW b \in Places(text, OpenCall),
                      Find(From(text, b), CloseCall) # 0,
                      Cardinality(Places(SubSeq(text, 1, b - 1), CloseCall))
                        <= Cardinality(Places(SubSeq(text, 1, b - 1), OpenCall)),
                      NEW s \in shown
               PROVE  \/ s[1] > b + (Find(From(text, b), CloseCall) + Len(CloseCall) - 1) - 1
                      \/ s[2] <= b
                      \/ s[2] >= b + (Find(From(text, b), CloseCall) + Len(CloseCall) - 1) - 1
    BY DEF CallsAreHidden
  <2> DEFINE f == Find(From(text, b), CloseCall)
  <2>1. text \in Text /\ text \in Seq(Signs) /\ Len(text) \in Nat /\ s[2] \in 1 .. Len(text)
    BY <1>1, TextIsSigns DEF IInv, TypeOK, Text
  <2>2. ~InCall(SubSeq(text, 1, s[2]))
    BY <1>1 DEF IInv, ShownInTheOpen
  <2>3. b \in 1 .. Len(text) /\ b \in 1 .. Len(text) + 1
    BY <2>1, OpenPlaces
  <2>4. From(text, b) \in Seq(Signs)
    BY <2>1, <2>3, Rest
  <2>5. f \in Nat
    BY <2>4, FindIs
  <2>6. s[2] \notin b + 1 .. b + f + 1
    BY <2>1, <2>2, WithinACall
  <2>7. s[2] <= b \/ s[2] >= b + f + 2
    <3> HIDE DEF f
    <3> QED BY <2>1, <2>3, <2>5, <2>6
  <2>8. b + f + 2 = b + (f + 4 - 1) - 1
    <3> HIDE DEF f
    <3> QED BY <2>3, <2>5
  <2> QED BY <2>7, <2>8, TagsAre
<1> QED BY <1>1, StreamInvariant, PTL
=============================================================================
