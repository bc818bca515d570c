----------------------------- MODULE StreamLemmas -----------------------------
(***************************************************************************)
(* Lemmas about streams that the proofs of several components use: what a  *)
(* write and a read do to the type of a stream, how a chain of streams     *)
(* changes when an element moves along it, and what can be read of a       *)
(* stream whose chunks are cut from segments.                              *)
(***************************************************************************)
EXTENDS Streams, SequenceTheorems, WellFoundedInduction, TLAPS

\* What writes and reads do to the type of a stream.
LEMMA QueueOps ==
  ASSUME NEW S, NEW q \in Seq(S)
  PROVE  /\ \A x \in S : Append(q, x) \in Seq(S)
         /\ q # << >> => Head(q) \in S /\ Tail(q) \in Seq(S)
  OBVIOUS

\* The head of the second stream moves to the end of the first.
LEMMA ShiftHead ==
  ASSUME NEW S, NEW a \in Seq(S), NEW b \in Seq(S), b # << >>
  PROVE  Append(a, Head(b)) \o Tail(b) = a \o b
<1>1. /\ Append(a, Head(b)) \in Seq(S) /\ Tail(b) \in Seq(S)
      /\ Len(Append(a, Head(b))) = Len(a) + 1 /\ Len(Tail(b)) = Len(b) - 1
      /\ Len(a) \in Nat /\ Len(b) \in Nat
  OBVIOUS
<1>2. /\ Append(a, Head(b)) \o Tail(b) \in Seq(S) /\ a \o b \in Seq(S)
      /\ Len(Append(a, Head(b)) \o Tail(b)) = Len(a \o b)
      /\ Len(a \o b) = Len(a) + Len(b)
  BY <1>1
<1>3. ASSUME NEW i \in 1..Len(a \o b)
      PROVE  (Append(a, Head(b)) \o Tail(b))[i] = (a \o b)[i]
  <2>1. CASE i <= Len(a)
    BY <1>1, <1>2, <1>3, <2>1
  <2>2. CASE i = Len(a) + 1
    BY <1>1, <1>2, <1>3, <2>2
  <2>3. CASE i > Len(a) + 1
    BY <1>1, <1>2, <1>3, <2>3
  <2>4. QED
    BY <1>1, <2>1, <2>2, <2>3
<1>4. QED
  BY <1>2, <1>3, SeqEqual

\* An element is written to the second stream.
LEMMA ConcatAppend ==
  ASSUME NEW S, NEW a \in Seq(S), NEW b \in Seq(S), NEW x \in S
  PROVE  a \o Append(b, x) = Append(a \o b, x)
<1>1. /\ a \o Append(b, x) \in Seq(S) /\ Append(a \o b, x) \in Seq(S)
      /\ Len(a \o Append(b, x)) = Len(Append(a \o b, x))
      /\ Len(a) \in Nat /\ Len(b) \in Nat
      /\ Len(Append(a \o b, x)) = Len(a) + Len(b) + 1
  OBVIOUS
<1>2. ASSUME NEW i \in 1..Len(Append(a \o b, x))
      PROVE  (a \o Append(b, x))[i] = Append(a \o b, x)[i]
  BY <1>1
<1>3. QED
  BY <1>1, <1>2, SeqEqual

\* An element is read from the first stream.
LEMMA HeadTailConcat ==
  ASSUME NEW S, NEW a \in Seq(S), NEW b \in Seq(S), a # << >>
  PROVE  /\ a \o b # << >>
         /\ Head(a \o b) = Head(a)
         /\ Tail(a \o b) = Tail(a) \o b
<1>1. /\ a \o b \in Seq(S) /\ Len(a \o b) = Len(a) + Len(b)
      /\ Len(a) \in Nat /\ Len(b) \in Nat /\ Len(a) > 0
      /\ Tail(a) \in Seq(S) /\ Len(Tail(a)) = Len(a) - 1
  OBVIOUS
<1>2. a \o b # << >> /\ Head(a \o b) = Head(a)
  BY <1>1
<1>3. /\ Tail(a \o b) \in Seq(S) /\ Tail(a) \o b \in Seq(S)
      /\ Len(Tail(a \o b)) = Len(Tail(a) \o b)
      /\ Len(Tail(a \o b)) = Len(a) + Len(b) - 1
  BY <1>1, <1>2
<1>4. ASSUME NEW i \in 1..Len(Tail(a \o b))
      PROVE  Tail(a \o b)[i] = (Tail(a) \o b)[i]
  BY <1>1, <1>2, <1>3
<1>5. QED
  BY <1>2, <1>3, <1>4, SeqEqual

\* An element is written behind one that stands in front.
LEMMA PrependAppend ==
  ASSUME NEW S, NEW x \in S, NEW s \in Seq(S), NEW y \in S
  PROVE  << x >> \o Append(s, y) = Append(<< x >> \o s, y)
<1>1. << x >> \in Seq(S)
  OBVIOUS
<1> QED BY <1>1, ConcatAppend

\* What a stream is after a write, when it is read.
LEMMA AppendReads ==
  ASSUME NEW S, NEW q \in Seq(S), NEW c \in S
  PROVE  /\ Append(q, c) # << >>
         /\ q # << >> => Head(Append(q, c)) = Head(q) /\ Tail(Append(q, c)) = Append(Tail(q), c)
         /\ q = << >> => Head(Append(q, c)) = c /\ Tail(Append(q, c)) = << >>
         /\ Len(Append(q, c)) = Len(q) + 1
<1>1. << c >> \in Seq(S) /\ Append(q, c) = q \o << c >>
  OBVIOUS
<1>2. CASE q # << >>
  <2>1. /\ Append(q, c) # << >> /\ Head(Append(q, c)) = Head(q)
        /\ Tail(Append(q, c)) = Tail(q) \o << c >>
    BY <1>1, <1>2, HeadTailConcat
  <2>2. Tail(q) \in Seq(S)
    BY <1>2
  <2>3. Tail(q) \o << c >> = Append(Tail(q), c)
    BY <2>2
  <2> QED BY <1>2, <2>1, <2>3
<1>3. CASE q = << >>
  BY <1>3
<1> QED BY <1>2, <1>3

-----------------------------------------------------------------------------
(* Induction over the natural numbers, of sets: the library states it of an *)
(* operator, which a proof cannot instantiate, and well-foundedness of sets.*)

\* A set of natural numbers that is not empty has a least element.
LEMMA LeastNat ==
  ASSUME NEW S \in SUBSET Nat, S # {}
  PROVE  \E m \in S : \A k \in S : m <= k
<1> DEFINE R == OpToRel(<, Nat)
<1>1. IsWellFoundedOn(R, Nat)
  BY NatLessThanWellFounded
<1>2. \A x, y \in S : << y, x >> \in R <=> y < x
  BY DEF OpToRel
<1> HIDE DEF R
<1>3. PICK x \in S : \A y \in S : ~(<< y, x >> \in R)
  BY <1>1, WFMin
<1>4. \A y \in S : y \in Nat
  OBVIOUS
<1>5. ASSUME NEW y \in S PROVE x <= y
  <2>1. ~(<< y, x >> \in R)
    BY <1>3
  <2>2. << y, x >> \in R <=> y < x
    BY <1>2
  <2>3. x \in Nat /\ y \in Nat
    BY <1>4
  <2> QED BY <2>1, <2>2, <2>3
<1> QED BY <1>5

LEMMA NatSetInduction ==
  ASSUME NEW S \in SUBSET Nat, 0 \in S, \A n \in S : n + 1 \in S
  PROVE  S = Nat
<1> SUFFICES ASSUME S # Nat PROVE FALSE
  OBVIOUS
<1>1. PICK m \in Nat \ S : \A k \in Nat \ S : m <= k
  BY LeastNat
<1>2. m # 0
  OBVIOUS
<1>3. m - 1 \in S
  BY <1>1, <1>2
<1>4. (m - 1) + 1 = m
  OBVIOUS
<1> QED BY <1>3, <1>4

-----------------------------------------------------------------------------
(* A stream of chunks that carries segments.  An element of S is what is    *)
(* left of a segment: chunk[s] is the chunk to cut from it, and rest[s]     *)
(* what is left then, or none.  The stream is known by its chunks q, by the *)
(* segments segs they are cut from, of which the first one may have lost    *)
(* chunks that were read, and by due, what of the last one is to be written.*)

SegStates(C, S, none) == Seq(C) \X Seq(S) \X (S \cup {none})

\* R has the empty stream, and the one where a segment is announced after the
\* last chunk of the one before, and the one where the next chunk is written.
SegClosed(C, S, none, chunk, rest, R) ==
  /\ << << >>, << >>, none >> \in R
  /\ \A q \in Seq(C), segs \in Seq(S), s \in S :
       << q, segs, none >> \in R => << q, Append(segs, s), s >> \in R
  /\ \A q \in Seq(C), segs \in Seq(S), due \in S :
       << q, segs, due >> \in R => << Append(q, chunk[due]), segs, rest[due] >> \in R

\* The streams that are built by these steps: the least such relation.
SegStream(C, S, none, chunk, rest, q, segs, due) ==
  /\ << q, segs, due >> \in SegStates(C, S, none)
  /\ \A R \in SUBSET SegStates(C, S, none) :
       SegClosed(C, S, none, chunk, rest, R) => << q, segs, due >> \in R

SegRules(C, S, none, chunk, rest) ==
  none \notin S /\ chunk \in [S -> C] /\ rest \in [S -> S \cup {none}]

LEMMA SegEmpty ==
  ASSUME NEW C, NEW S, NEW none, NEW chunk, NEW rest
  PROVE  SegStream(C, S, none, chunk, rest, << >>, << >>, none)
<1>1. << << >>, << >>, none >> \in SegStates(C, S, none)
  <2>1. << >> \in Seq(C) /\ << >> \in Seq(S)
    OBVIOUS
  <2> QED BY <2>1 DEF SegStates
<1> QED BY <1>1 DEF SegStream, SegClosed

LEMMA SegNew ==
  ASSUME NEW C, NEW S, NEW none, NEW chunk, NEW rest, NEW q, NEW segs, NEW s \in S,
         SegStream(C, S, none, chunk, rest, q, segs, none)
  PROVE  SegStream(C, S, none, chunk, rest, q, Append(segs, s), s)
<1>1. q \in Seq(C) /\ segs \in Seq(S)
  BY DEF SegStream, SegStates
<1>2. << q, Append(segs, s), s >> \in SegStates(C, S, none)
  BY <1>1, QueueOps DEF SegStates
<1>3. ASSUME NEW R \in SUBSET SegStates(C, S, none), SegClosed(C, S, none, chunk, rest, R)
      PROVE  << q, Append(segs, s), s >> \in R
  BY <1>1, <1>3 DEF SegStream, SegClosed
<1> QED BY <1>2, <1>3 DEF SegStream

LEMMA SegWrite ==
  ASSUME NEW C, NEW S, NEW none, NEW chunk, NEW rest, SegRules(C, S, none, chunk, rest),
         NEW q, NEW segs, NEW due \in S, SegStream(C, S, none, chunk, rest, q, segs, due)
  PROVE  SegStream(C, S, none, chunk, rest, Append(q, chunk[due]), segs, rest[due])
<1>1. q \in Seq(C) /\ segs \in Seq(S)
  BY DEF SegStream, SegStates
<1>2. chunk[due] \in C /\ rest[due] \in S \cup {none}
  BY DEF SegRules
<1>3. << Append(q, chunk[due]), segs, rest[due] >> \in SegStates(C, S, none)
  BY <1>1, <1>2, QueueOps DEF SegStates
<1>4. ASSUME NEW R \in SUBSET SegStates(C, S, none), SegClosed(C, S, none, chunk, rest, R)
      PROVE  << Append(q, chunk[due]), segs, rest[due] >> \in R
  BY <1>1, <1>4 DEF SegStream, SegClosed
<1> QED BY <1>3, <1>4 DEF SegStream

\* The segments behind the chunk at the head of a stream.
SegsBehind(none, rest, segs) ==
  IF rest[Head(segs)] = none THEN Tail(segs) ELSE << rest[Head(segs)] >> \o Tail(segs)

LEMMA SegsBehindAppend ==
  ASSUME NEW S, NEW none, NEW rest \in [S -> S \cup {none}], NEW segs \in Seq(S),
         segs # << >>, NEW s \in S
  PROVE  /\ SegsBehind(none, rest, segs) \in Seq(S)
         /\ SegsBehind(none, rest, Append(segs, s)) = Append(SegsBehind(none, rest, segs), s)
<1>1. Head(segs) \in S /\ Tail(segs) \in Seq(S)
  BY QueueOps
<1>2. Head(Append(segs, s)) = Head(segs) /\ Tail(Append(segs, s)) = Append(Tail(segs), s)
  BY AppendReads
<1>3. CASE rest[Head(segs)] = none
  BY <1>1, <1>2, <1>3 DEF SegsBehind
<1>4. CASE rest[Head(segs)] # none
  <2>1. PICK left \in S : left = rest[Head(segs)]
    BY <1>1, <1>4
  <2>2. << left >> \o Tail(segs) \in Seq(S)
    BY <1>1
  <2>3. << left >> \o Append(Tail(segs), s) = Append(<< left >> \o Tail(segs), s)
    BY <1>1, PrependAppend
  <2> QED BY <1>2, <1>4, <2>1, <2>2, <2>3 DEF SegsBehind
<1> QED BY <1>3, <1>4

\* What is read of such a stream, and what it is then.
SegReadable(C, S, none, chunk, rest, q, segs, due) ==
  /\ q = << >> => segs = IF due = none THEN << >> ELSE << due >>
  /\ q # << >> =>
       /\ segs # << >>
       /\ Head(q) = chunk[Head(segs)]
       /\ SegStream(C, S, none, chunk, rest, Tail(q), SegsBehind(none, rest, segs), due)

LEMMA SegRead ==
  ASSUME NEW C, NEW S, NEW none, NEW chunk, NEW rest, SegRules(C, S, none, chunk, rest),
         NEW q, NEW segs, NEW due, SegStream(C, S, none, chunk, rest, q, segs, due)
  PROVE  /\ q \in Seq(C) /\ segs \in Seq(S) /\ due \in S \cup {none}
         /\ SegReadable(C, S, none, chunk, rest, q, segs, due)
<1> DEFINE Cut(p, t, d) == SegStream(C, S, none, chunk, rest, p, t, d)
           Readable(p, t, d) == SegReadable(C, S, none, chunk, rest, p, t, d)
           R == {x \in SegStates(C, S, none) : Cut(x[1], x[2], x[3]) /\ Readable(x[1], x[2], x[3])}
<1>1. none \notin S /\ chunk \in [S -> C] /\ rest \in [S -> S \cup {none}]
  BY DEF SegRules
<1>2. << << >>, << >>, none >> \in R
  <2>1. Cut(<< >>, << >>, none)
    BY SegEmpty
  <2>2. << << >>, << >>, none >> \in SegStates(C, S, none)
    BY <2>1 DEF SegStream
  <2>3. Readable(<< >>, << >>, none)
    BY DEF SegReadable
  <2> QED BY <2>1, <2>2, <2>3
<1>3. ASSUME NEW p \in Seq(C), NEW t \in Seq(S), NEW s \in S, << p, t, none >> \in R
      PROVE  << p, Append(t, s), s >> \in R
  <2>1. Cut(p, t, none) /\ Readable(p, t, none)
    BY <1>3
  <2>2. Cut(p, Append(t, s), s)
    BY <2>1, SegNew
  <2>3. << p, Append(t, s), s >> \in SegStates(C, S, none)
    BY <2>2 DEF SegStream
  <2>4. CASE p = << >>
    <3>1. t = << >> /\ Append(t, s) = << s >> /\ s # none
      BY <1>1, <2>1, <2>4 DEF SegReadable
    <3> QED BY <2>2, <2>3, <2>4, <3>1 DEF SegReadable
  <2>5. CASE p # << >>
    <3>1. t # << >> /\ Append(t, s) # << >> /\ Head(Append(t, s)) = Head(t)
      BY <2>1, <2>5, AppendReads DEF SegReadable
    <3>2. Cut(Tail(p), SegsBehind(none, rest, t), none)
      BY <2>1, <2>5 DEF SegReadable
    <3>3. Cut(Tail(p), Append(SegsBehind(none, rest, t), s), s)
      BY <3>2, SegNew
    <3>4. SegsBehind(none, rest, Append(t, s)) = Append(SegsBehind(none, rest, t), s)
      BY <1>1, <3>1, SegsBehindAppend
    <3>5. Readable(p, Append(t, s), s)
      BY <2>1, <2>5, <3>1, <3>3, <3>4 DEF SegReadable
    <3> QED BY <2>2, <2>3, <3>5
  <2> QED BY <2>4, <2>5
<1>4. ASSUME NEW p \in Seq(C), NEW t \in Seq(S), NEW d \in S, << p, t, d >> \in R
      PROVE  << Append(p, chunk[d]), t, rest[d] >> \in R
  <2> DEFINE more == Append(p, chunk[d])
  <2>1. Cut(p, t, d) /\ Readable(p, t, d)
    BY <1>4
  <2>2. Cut(more, t, rest[d])
    BY <2>1, SegWrite
  <2>3. << more, t, rest[d] >> \in SegStates(C, S, none)
    BY <2>2 DEF SegStream
  <2>4. chunk[d] \in C
    BY <1>1
  <2>5. /\ more # << >>
        /\ p # << >> => Head(more) = Head(p) /\ Tail(more) = Append(Tail(p), chunk[d])
        /\ p = << >> => Head(more) = chunk[d] /\ Tail(more) = << >>
    BY <2>4, AppendReads
  <2>6. CASE p = << >>
    <3>1. t = << d >> /\ t # << >> /\ Head(t) = d /\ Tail(t) = << >>
      <4>1. d # none /\ t = << d >>
        BY <1>1, <2>1, <2>6 DEF SegReadable
      <4> QED BY <4>1
    <3>2. Cut(<< >>, << >>, none)
      BY SegEmpty
    <3>3. CASE rest[d] = none
      <4>1. SegsBehind(none, rest, t) = << >>
        BY <3>1, <3>3 DEF SegsBehind
      <4> QED BY <2>2, <2>3, <2>5, <2>6, <3>1, <3>2, <3>3, <4>1 DEF SegReadable
    <3>4. CASE rest[d] # none
      <4>1. PICK left \in S : left = rest[d]
        BY <1>1, <3>4
      <4>2. SegsBehind(none, rest, t) = << left >> \o << >>
        BY <3>1, <3>4, <4>1 DEF SegsBehind
      <4>3. << left >> \o << >> = Append(<< >>, left)
        OBVIOUS
      <4>4. Cut(<< >>, Append(<< >>, left), left)
        BY <3>2, SegNew
      <4>5. Readable(more, t, rest[d])
        BY <2>5, <2>6, <3>1, <4>1, <4>2, <4>3, <4>4 DEF SegReadable
      <4> QED BY <2>2, <2>3, <4>5
    <3> QED BY <3>3, <3>4
  <2>7. CASE p # << >>
    <3>1. Cut(Tail(p), SegsBehind(none, rest, t), d)
      BY <2>1, <2>7 DEF SegReadable
    <3>2. Cut(Append(Tail(p), chunk[d]), SegsBehind(none, rest, t), rest[d])
      BY <3>1, SegWrite
    <3>3. Readable(more, t, rest[d])
      BY <2>1, <2>5, <2>7, <3>2 DEF SegReadable
    <3> QED BY <2>2, <2>3, <3>3
  <2> QED BY <2>6, <2>7
<1>5. SegClosed(C, S, none, chunk, rest, R)
  BY <1>2, <1>3, <1>4 DEF SegClosed
<1>6. R \in SUBSET SegStates(C, S, none)
  OBVIOUS
<1>7. << q, segs, due >> \in R
  BY <1>5, <1>6 DEF SegStream
<1>8. SegReadable(C, S, none, chunk, rest, q, segs, due)
  BY <1>7
<1>9. << q, segs, due >> \in SegStates(C, S, none)
  BY DEF SegStream
<1> QED BY <1>8, <1>9 DEF SegStates

-----------------------------------------------------------------------------
(* The same, with the first segment apart: m is what is left of the segment *)
(* the reader is in the middle of, or none, and segs are those behind it.   *)

WithFront(none, m, segs) == IF m = none THEN segs ELSE << m >> \o segs

\* The chunk at the head is that of the segment in front.
LEMMA SegTake ==
  ASSUME NEW C, NEW S, NEW none, NEW chunk, NEW rest, SegRules(C, S, none, chunk, rest),
         NEW q, NEW segs \in Seq(S), NEW m \in S, NEW due, q # << >>,
         SegStream(C, S, none, chunk, rest, q, WithFront(none, m, segs), due)
  PROVE  /\ Head(q) = chunk[m]
         /\ SegStream(C, S, none, chunk, rest, Tail(q), WithFront(none, rest[m], segs), due)
<1>1. SegReadable(C, S, none, chunk, rest, q, WithFront(none, m, segs), due)
  BY SegRead
<1>2. m # none
  BY DEF SegRules
<1>3. /\ WithFront(none, m, segs) = << m >> \o segs
      /\ Head(<< m >> \o segs) = m /\ Tail(<< m >> \o segs) = segs
  BY <1>2 DEF WithFront
<1>4. SegsBehind(none, rest, WithFront(none, m, segs)) = WithFront(none, rest[m], segs)
  BY <1>3 DEF SegsBehind, WithFront
<1> QED BY <1>1, <1>3, <1>4 DEF SegReadable

\* A segment is announced behind the others.
LEMMA SegAnnounce ==
  ASSUME NEW C, NEW S, NEW none, NEW chunk, NEW rest,
         NEW q, NEW segs \in Seq(S), NEW m \in S \cup {none}, NEW s \in S,
         SegStream(C, S, none, chunk, rest, q, WithFront(none, m, segs), none)
  PROVE  SegStream(C, S, none, chunk, rest, q, WithFront(none, m, Append(segs, s)), s)
<1>1. SegStream(C, S, none, chunk, rest, q, Append(WithFront(none, m, segs), s), s)
  BY SegNew
<1>2. Append(WithFront(none, m, segs), s) = WithFront(none, m, Append(segs, s))
  BY PrependAppend DEF WithFront
<1> QED BY <1>1, <1>2

\* The reader begins the next segment.
LEMMA SegBegin ==
  ASSUME NEW S, NEW none, none \notin S, NEW segs \in Seq(S), segs # << >>
  PROVE  /\ WithFront(none, none, segs) = WithFront(none, Head(segs), Tail(segs))
         /\ Head(segs) \in S /\ Tail(segs) \in Seq(S)
<1>1. Head(segs) \in S /\ Tail(segs) \in Seq(S) /\ segs = << Head(segs) >> \o Tail(segs)
  BY ShiftHead
<1> QED BY <1>1 DEF WithFront

\* Without a segment there is no chunk.
LEMMA SegNone ==
  ASSUME NEW C, NEW S, NEW none, NEW chunk, NEW rest, SegRules(C, S, none, chunk, rest),
         NEW q, SegStream(C, S, none, chunk, rest, q, WithFront(none, none, << >>), none)
  PROVE  q = << >>
<1>1. WithFront(none, none, << >>) = << >>
  BY DEF WithFront
<1>2. SegReadable(C, S, none, chunk, rest, q, << >>, none)
  BY <1>1, SegRead
<1> QED BY <1>2 DEF SegReadable

-----------------------------------------------------------------------------
(* A segment that is written as a whole: w are its chunks, and t[i] is what *)
(* is left of it when w[i] is cut.                                          *)

SegChunks(S, none, chunk, rest, w, t) ==
  /\ t \in [1..Len(w) -> S]
  /\ \A i \in 1..Len(w) :
       /\ w[i] = chunk[t[i]]
       /\ rest[t[i]] = IF i = Len(w) THEN none ELSE t[i + 1]

LEMMA SegWhole ==
  ASSUME NEW C, NEW S, NEW none, NEW chunk, NEW rest, SegRules(C, S, none, chunk, rest),
         NEW q, NEW segs, SegStream(C, S, none, chunk, rest, q, segs, none),
         NEW w \in Seq(C), w # << >>, NEW t, SegChunks(S, none, chunk, rest, w, t)
  PROVE  SegStream(C, S, none, chunk, rest, q \o w, Append(segs, t[1]), none)
<1> DEFINE Due(k) == IF k = Len(w) THEN none ELSE t[k + 1]
           Cut(k) == SegStream(C, S, none, chunk, rest, q \o SubSeq(w, 1, k),
                               Append(segs, t[1]), Due(k))
           K == {k \in Nat : k <= Len(w) => Cut(k)}
<1>1. /\ Len(w) \in Nat /\ Len(w) > 0 /\ q \in Seq(C)
      /\ \A i \in 1..Len(w) : t[i] \in S /\ w[i] \in C
      /\ \A k \in 1..Len(w) : SubSeq(w, 1, k - 1) \in Seq(C)
  BY DEF SegChunks, SegStream, SegStates
<1>2. 0 \in K
  <2>1. SubSeq(w, 1, 0) = << >> /\ q \o << >> = q
    BY <1>1
  <2>2. SegStream(C, S, none, chunk, rest, q, Append(segs, t[1]), t[1])
    BY <1>1, SegNew
  <2>3. 0 # Len(w) /\ 0 + 1 = 1
    BY <1>1
  <2> QED BY <2>1, <2>2, <2>3
<1>3. ASSUME NEW k \in K PROVE k + 1 \in K
  <2> SUFFICES ASSUME k + 1 <= Len(w) PROVE Cut(k + 1)
    OBVIOUS
  <2>1. k \in Nat /\ k # Len(w) /\ k + 1 \in 1..Len(w) /\ Cut(k)
    BY <1>1
  <2>2. SegStream(C, S, none, chunk, rest, q \o SubSeq(w, 1, k), Append(segs, t[1]), t[k + 1])
    BY <2>1
  <2>3. SegStream(C, S, none, chunk, rest, Append(q \o SubSeq(w, 1, k), chunk[t[k + 1]]),
                  Append(segs, t[1]), rest[t[k + 1]])
    BY <1>1, <2>1, <2>2, SegWrite
  <2>4. chunk[t[k + 1]] = w[k + 1] /\ rest[t[k + 1]] = Due(k + 1)
    BY <2>1 DEF SegChunks
  <2>5. Append(q \o SubSeq(w, 1, k), w[k + 1]) = q \o SubSeq(w, 1, k + 1)
    <3>1. SubSeq(w, 1, k) \in Seq(C) /\ w[k + 1] \in C
      BY <1>1, <2>1
    <3>2. SubSeq(w, 1, k + 1) = Append(SubSeq(w, 1, k), w[k + 1])
      BY <1>1, <2>1, <3>1
    <3>3. q \o Append(SubSeq(w, 1, k), w[k + 1]) = Append(q \o SubSeq(w, 1, k), w[k + 1])
      BY <1>1, <3>1, ConcatAppend
    <3> QED BY <3>2, <3>3
  <2> HIDE DEF Due
  <2> QED BY <2>3, <2>4, <2>5
<1>4. Len(w) \in K
  <2> HIDE DEF K
  <2>1. K \in SUBSET Nat
    BY DEF K
  <2> QED BY <1>1, <1>2, <1>3, <2>1, NatSetInduction
<1>5. SubSeq(w, 1, Len(w)) = w
  BY <1>1
<1>6. Cut(Len(w))
  BY <1>1, <1>4
<1> QED BY <1>5, <1>6

-----------------------------------------------------------------------------
(* A stream that holds what f makes of the elements of a sequence.          *)

Image(f, s) == [i \in 1..Len(s) |-> f[s[i]]]

LEMMA ImageOps ==
  ASSUME NEW S, NEW f, NEW s \in Seq(S)
  PROVE  /\ Len(Image(f, s)) = Len(s)
         /\ Image(f, s) = << >> <=> s = << >>
         /\ \A x \in S : Image(f, Append(s, x)) = Append(Image(f, s), f[x])
         /\ s # << >> => /\ Head(Image(f, s)) = f[Head(s)]
                         /\ Tail(Image(f, s)) = Image(f, Tail(s))
<1>0. PICK T : \A x \in S : f[x] \in T
  <2>1. \A x \in S : f[x] \in {f[y] : y \in S}
    OBVIOUS
  <2> QED BY <2>1
<1>1. /\ Image(f, s) \in Seq(T) /\ Len(Image(f, s)) = Len(s) /\ Len(s) \in Nat
      /\ \A i \in 1..Len(s) : Image(f, s)[i] = f[s[i]] /\ s[i] \in S
  BY <1>0 DEF Image
<1>2. Image(f, s) = << >> <=> s = << >>
  BY <1>1
<1>3. ASSUME NEW x \in S PROVE Image(f, Append(s, x)) = Append(Image(f, s), f[x])
  <2>1. /\ Append(s, x) \in Seq(S) /\ Len(Append(s, x)) = Len(s) + 1
        /\ \A i \in 1..(Len(s) + 1) : Append(s, x)[i] = IF i <= Len(s) THEN s[i] ELSE x
    OBVIOUS
  <2>2. /\ Append(Image(f, s), f[x]) \in Seq(T) /\ Len(Append(Image(f, s), f[x])) = Len(s) + 1
        /\ \A i \in 1..(Len(s) + 1) : Append(Image(f, s), f[x])[i] = IF i <= Len(s) THEN f[s[i]] ELSE f[x]
    <3>1. f[x] \in T
      BY <1>0
    <3> QED BY <1>1, <3>1
  <2>3. /\ Image(f, Append(s, x)) \in Seq(T) /\ Len(Image(f, Append(s, x))) = Len(s) + 1
        /\ \A i \in 1..(Len(s) + 1) : Image(f, Append(s, x))[i] = f[Append(s, x)[i]]
    BY <1>0, <2>1 DEF Image
  <2>4. \A i \in 1..(Len(s) + 1) : Image(f, Append(s, x))[i] = Append(Image(f, s), f[x])[i]
    BY <2>1, <2>2, <2>3
  <2> QED BY <2>2, <2>3, <2>4, SeqEqual
<1>4. ASSUME s # << >>
      PROVE  Head(Image(f, s)) = f[Head(s)] /\ Tail(Image(f, s)) = Image(f, Tail(s))
  <2>1. /\ Len(s) > 0 /\ Tail(s) \in Seq(S) /\ Len(Tail(s)) = Len(s) - 1 /\ Head(s) = s[1]
        /\ \A i \in 1..(Len(s) - 1) : Tail(s)[i] = s[i + 1]
    BY <1>4
  <2>2. Head(Image(f, s)) = f[Head(s)]
    BY <1>1, <2>1
  <2>3. /\ Tail(Image(f, s)) \in Seq(T) /\ Len(Tail(Image(f, s))) = Len(s) - 1
        /\ \A i \in 1..(Len(s) - 1) : Tail(Image(f, s))[i] = f[s[i + 1]]
    BY <1>1, <2>1
  <2>4. /\ Image(f, Tail(s)) \in Seq(T) /\ Len(Image(f, Tail(s))) = Len(s) - 1
        /\ \A i \in 1..(Len(s) - 1) : Image(f, Tail(s))[i] = f[s[i + 1]]
    BY <1>0, <2>1 DEF Image
  <2>5. Tail(Image(f, s)) = Image(f, Tail(s))
    BY <2>3, <2>4, SeqEqual
  <2> QED BY <2>2, <2>5
<1> QED BY <1>1, <1>2, <1>3, <1>4
=============================================================================
