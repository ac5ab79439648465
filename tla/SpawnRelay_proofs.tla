------------------------- MODULE SpawnRelay_proofs -------------------------
(***************************************************************************)
(* Proofs about SpawnRelay: however the two hosts interleave, whatever is  *)
(* cut, killed or signalled, both directions of the relay deliver in       *)
(* order, and their ends mean what they say.                               *)
(*                                                                         *)
(* Each direction is taken as one queue, from the pump that fills it to    *)
(* the reader at its other end (Down, Up), so that the bridge between the  *)
(* two streams moves nothing.  A step then does one of four things to a    *)
(* queue: nothing, adds at its end, drops from its front, or cuts its end  *)
(* off.  The lemmas about queues say what each of these keeps; one lemma   *)
(* per action says which of them it does.  The types and the bounds of the *)
(* buffers rest on both directions: a chunk on its way up is one that was  *)
(* typed, and a body is read only behind its header.                       *)
(***************************************************************************)
EXTENDS SpawnRelay, SequenceTheorems, TLAPS

----------------------------------------------------------------------------
(* Sequences, element by element.                                          *)

LEMMA AppendAt ==
  ASSUME NEW S, NEW w \in Seq(S), NEW e \in S
  PROVE  /\ Append(w, e) \in Seq(S) /\ Len(Append(w, e)) = Len(w) + 1
         /\ \A i \in 1..Len(w) : Append(w, e)[i] = w[i]
         /\ Append(w, e)[Len(w) + 1] = e
  OBVIOUS

LEMMA TailAt ==
  ASSUME NEW S, NEW w \in Seq(S), w # <<>>
  PROVE  /\ Len(w) \in Nat \ {0} /\ Head(w) = w[1] /\ w[1] \in S
         /\ Tail(w) \in Seq(S) /\ Len(Tail(w)) = Len(w) - 1
         /\ \A i \in 1..Len(w) - 1 : Tail(w)[i] = w[i + 1]
  OBVIOUS

LEMMA PrefixAt ==
  ASSUME NEW S, NEW w \in Seq(S), NEW k \in 0..Len(w)
  PROVE  /\ SubSeq(w, 1, k) \in Seq(S) /\ Len(SubSeq(w, 1, k)) = k
         /\ \A i \in 1..k : SubSeq(w, 1, k)[i] = w[i]
  OBVIOUS

LEMMA ConcatAt ==
  ASSUME NEW S, NEW u \in Seq(S), NEW v \in Seq(S)
  PROVE  /\ u \o v \in Seq(S) /\ Len(u \o v) = Len(u) + Len(v)
         /\ Len(u) \in Nat /\ Len(v) \in Nat
         /\ \A i \in 1..Len(u) : (u \o v)[i] = u[i]
         /\ \A i \in 1..Len(v) : (u \o v)[Len(u) + i] = v[i]
<1>1. /\ u \o v \in Seq(S) /\ Len(u \o v) = Len(u) + Len(v)
      /\ Len(u) \in Nat /\ Len(v) \in Nat
      /\ \A i \in 1..Len(u) + Len(v) :
            (u \o v)[i] = IF i <= Len(u) THEN u[i] ELSE v[i - Len(u)]
  BY ConcatProperties
<1>2. \A i \in 1..Len(u) : (u \o v)[i] = u[i]
  BY <1>1
<1>3. \A i \in 1..Len(v) : (u \o v)[Len(u) + i] = v[i]
  <2> SUFFICES ASSUME NEW i \in 1..Len(v)
               PROVE  (u \o v)[Len(u) + i] = v[i]
    OBVIOUS
  <2>1. Len(u) + i \in 1..Len(u) + Len(v) /\ ~(Len(u) + i <= Len(u)) /\ Len(u) + i - Len(u) = i
    BY <1>1
  <2> QED
    BY <1>1, <2>1
<1> QED
  BY <1>1, <1>2, <1>3

----------------------------------------------------------------------------
(* One direction of the relay as one queue, whatever leg a token is on, and *)
(* what a step does to it.                                                  *)

Token == [tag : {"spawn", "signal", "stdin", "stdout", "stderr", "exit", "data"},
          part : {"header", "body", "whole"}, n : Int]

LEMMA TokenAt ==
  ASSUME NEW q \in Seq(Token), NEW i \in 1..Len(q)
  PROVE  /\ q[i] \in Token /\ q[i].n \in Int
         /\ q[i].part \in {"header", "body", "whole"}
<1>1. q[i] \in Token
  OBVIOUS
<1> QED
  BY <1>1 DEF Token

Same(q, r)     == Len(r) = Len(q) /\ \A i \in 1..Len(q) : r[i] = q[i]
Adds(q, r, e)  == /\ Len(r) = Len(q) + 1 /\ r[Len(q) + 1] = e
                  /\ \A i \in 1..Len(q) : r[i] = q[i]
Drops(q, r, k) == /\ k <= Len(q) /\ Len(r) = Len(q) - k
                  /\ \A i \in 1..Len(q) - k : r[i] = q[i + k]
Cuts(q, r)     == Len(r) <= Len(q) /\ \A i \in 1..Len(r) : r[i] = q[i]

\* A copy moves the first token of the far leg to the near one.
LEMMA MoveEffect ==
  ASSUME NEW S, NEW u \in Seq(S), NEW v \in Seq(S), v # <<>>
  PROVE  /\ Append(u, Head(v)) \in Seq(S) /\ Tail(v) \in Seq(S)
         /\ Same(u \o v, Append(u, Head(v)) \o Tail(v))
<1> DEFINE x == Append(u, Head(v))
           y == Tail(v)
<1>1. /\ y \in Seq(S) /\ Len(v) \in Nat \ {0} /\ Len(y) = Len(v) - 1
      /\ Head(v) = v[1] /\ v[1] \in S
      /\ \A i \in 1..Len(v) - 1 : y[i] = v[i + 1]
  BY TailAt
<1>2. /\ x \in Seq(S) /\ Len(x) = Len(u) + 1
      /\ (\A i \in 1..Len(u) : x[i] = u[i]) /\ x[Len(u) + 1] = v[1]
  BY <1>1, AppendAt
<1>3. /\ Len(u \o v) = Len(u) + Len(v) /\ Len(u) \in Nat
      /\ \A i \in 1..Len(u) : (u \o v)[i] = u[i]
      /\ \A i \in 1..Len(v) : (u \o v)[Len(u) + i] = v[i]
  BY ConcatAt
<1>4. /\ Len(x \o y) = Len(x) + Len(y)
      /\ \A i \in 1..Len(x) : (x \o y)[i] = x[i]
      /\ \A i \in 1..Len(y) : (x \o y)[Len(x) + i] = y[i]
  BY <1>1, <1>2, ConcatAt
<1> HIDE DEF x, y
<1>5. ASSUME NEW i \in 1..Len(u \o v)
      PROVE  (x \o y)[i] = (u \o v)[i]
  <2>1. CASE i <= Len(u)
    BY <1>2, <1>3, <1>4, <2>1
  <2>2. CASE i = Len(u) + 1
    <3>1. (x \o y)[i] = v[1]
      BY <1>2, <1>3, <1>4, <2>2
    <3>2. 1 \in 1..Len(v)
      BY <1>1
    <3> QED
      BY <1>3, <2>2, <3>1, <3>2
  <2>3. CASE i > Len(u) + 1
    <3> DEFINE j == i - Len(u) - 1
    <3>1. /\ j \in 1..Len(y) /\ j + 1 \in 1..Len(v) /\ i = Len(x) + j
          /\ i = Len(u) + (j + 1)
      BY <1>1, <1>2, <1>3, <2>3
    <3> HIDE DEF j
    <3>2. (x \o y)[i] = y[j] /\ y[j] = v[j + 1] /\ (u \o v)[i] = v[j + 1]
      BY <1>1, <1>3, <1>4, <3>1
    <3> QED
      BY <3>2
  <2>4. Len(u) \in Nat /\ i \in Int
    BY <1>3
  <2>5. i <= Len(u) \/ i = Len(u) + 1 \/ i > Len(u) + 1
    BY <2>4
  <2> QED
    BY <2>1, <2>2, <2>3, <2>5
<1> QED
  BY <1>1, <1>2, <1>3, <1>4, <1>5 DEF Same, x, y

LEMMA AddEffect ==
  ASSUME NEW S, NEW u \in Seq(S), NEW v \in Seq(S), NEW e \in S
  PROVE  Append(v, e) \in Seq(S) /\ Adds(u \o v, u \o Append(v, e), e)
<1> DEFINE y == Append(v, e)
<1>1. /\ y \in Seq(S) /\ Len(y) = Len(v) + 1
      /\ (\A i \in 1..Len(v) : y[i] = v[i]) /\ y[Len(v) + 1] = e
  BY AppendAt
<1>2. /\ Len(u \o v) = Len(u) + Len(v) /\ Len(u) \in Nat /\ Len(v) \in Nat
      /\ \A i \in 1..Len(u) : (u \o v)[i] = u[i]
      /\ \A i \in 1..Len(v) : (u \o v)[Len(u) + i] = v[i]
  BY ConcatAt
<1>3. /\ Len(u \o y) = Len(u) + Len(y)
      /\ \A i \in 1..Len(u) : (u \o y)[i] = u[i]
      /\ \A i \in 1..Len(y) : (u \o y)[Len(u) + i] = y[i]
  BY <1>1, ConcatAt
<1> HIDE DEF y
<1>4. ASSUME NEW i \in 1..Len(u \o v)
      PROVE  (u \o y)[i] = (u \o v)[i]
  <2>1. CASE i <= Len(u)
    BY <1>2, <1>3, <2>1
  <2>2. CASE i > Len(u)
    <3> DEFINE j == i - Len(u)
    <3>1. j \in 1..Len(v) /\ j \in 1..Len(y) /\ i = Len(u) + j
      BY <1>1, <1>2, <2>2
    <3> HIDE DEF j
    <3> QED
      BY <1>1, <1>2, <1>3, <3>1
  <2>3. Len(u) \in Nat /\ i \in Int
    BY <1>2
  <2>4. i <= Len(u) \/ i > Len(u)
    BY <2>3
  <2> QED
    BY <2>1, <2>2, <2>4
<1>5. (u \o y)[Len(u \o v) + 1] = e
  <2>1. Len(v) + 1 \in 1..Len(y) /\ Len(u \o v) + 1 = Len(u) + (Len(v) + 1)
    BY <1>1, <1>2
  <2> QED
    BY <1>1, <1>3, <2>1
<1> QED
  BY <1>1, <1>2, <1>3, <1>4, <1>5 DEF Adds, y

\* The near leg loses its first tokens.
LEMMA DropEffect ==
  ASSUME NEW u \in Seq(Token), NEW v \in Seq(Token), NEW x \in Seq(Token),
         NEW k \in 1..2, Drops(u, x, k)
  PROVE  Drops(u \o v, x \o v, k)
<1>1. /\ Len(u \o v) = Len(u) + Len(v) /\ Len(u) \in Nat /\ Len(v) \in Nat
      /\ \A i \in 1..Len(u) : (u \o v)[i] = u[i]
      /\ \A i \in 1..Len(v) : (u \o v)[Len(u) + i] = v[i]
  BY ConcatAt
<1>2. /\ Len(x \o v) = Len(x) + Len(v) /\ Len(x) \in Nat
      /\ \A i \in 1..Len(x) : (x \o v)[i] = x[i]
      /\ \A i \in 1..Len(v) : (x \o v)[Len(x) + i] = v[i]
  BY ConcatAt
<1>3. k <= Len(u) /\ Len(x) = Len(u) - k /\ \A i \in 1..Len(u) - k : x[i] = u[i + k]
  BY DEF Drops
<1>4. ASSUME NEW i \in 1..Len(u \o v) - k
      PROVE  (x \o v)[i] = (u \o v)[i + k]
  <2>1. CASE i <= Len(u) - k
    <3>1. i \in 1..Len(x) /\ i + k \in 1..Len(u)
      BY <1>1, <1>2, <1>3, <2>1
    <3> QED
      BY <1>1, <1>2, <1>3, <3>1
  <2>2. CASE i > Len(u) - k
    <3> DEFINE j == i - Len(x)
    <3>1. j \in 1..Len(v) /\ i = Len(x) + j /\ i + k = Len(u) + j
      BY <1>1, <1>2, <1>3, <2>2
    <3> HIDE DEF j
    <3> QED
      BY <1>1, <1>2, <3>1
  <2>3. Len(u) - k \in Int /\ i \in Int
    BY <1>1
  <2>4. i <= Len(u) - k \/ i > Len(u) - k
    BY <2>3
  <2> QED
    BY <2>1, <2>2, <2>4
<1> QED
  BY <1>1, <1>2, <1>3, <1>4 DEF Drops

\* A broken transport keeps a prefix of the far leg.
LEMMA CutEffect ==
  ASSUME NEW u \in Seq(Token), NEW v \in Seq(Token), NEW k \in 0..Len(v)
  PROVE  SubSeq(v, 1, k) \in Seq(Token) /\ Cuts(u \o v, u \o SubSeq(v, 1, k))
<1> DEFINE y == SubSeq(v, 1, k)
<1>1. y \in Seq(Token) /\ Len(y) = k /\ \A i \in 1..k : y[i] = v[i]
  BY PrefixAt
<1>2. /\ Len(u \o v) = Len(u) + Len(v) /\ Len(u) \in Nat /\ Len(v) \in Nat
      /\ \A i \in 1..Len(u) : (u \o v)[i] = u[i]
      /\ \A i \in 1..Len(v) : (u \o v)[Len(u) + i] = v[i]
  BY ConcatAt
<1>3. /\ Len(u \o y) = Len(u) + Len(y)
      /\ \A i \in 1..Len(u) : (u \o y)[i] = u[i]
      /\ \A i \in 1..Len(y) : (u \o y)[Len(u) + i] = y[i]
  BY <1>1, ConcatAt
<1> HIDE DEF y
<1>4. ASSUME NEW i \in 1..Len(u \o y)
      PROVE  (u \o y)[i] = (u \o v)[i]
  <2>1. CASE i <= Len(u)
    BY <1>2, <1>3, <2>1
  <2>2. CASE i > Len(u)
    <3> DEFINE j == i - Len(u)
    <3>1. j \in 1..Len(y) /\ j \in 1..Len(v) /\ i = Len(u) + j
      BY <1>1, <1>2, <1>3, <2>2
    <3> HIDE DEF j
    <3> QED
      BY <1>1, <1>2, <1>3, <3>1
  <2>3. Len(u) \in Nat /\ i \in Int
    BY <1>2
  <2>4. i <= Len(u) \/ i > Len(u)
    BY <2>3
  <2> QED
    BY <2>1, <2>2, <2>4
<1> QED
  BY <1>1, <1>2, <1>3, <1>4 DEF Cuts, y

\* Reading a frame takes one token, or a header and what follows it.
LEMMA FrameEffect ==
  ASSUME NEW w \in Seq(Token), HasFrame(w)
  PROVE  /\ Len(w) \in Nat \ {0} /\ Rest(w) \in Seq(Token)
         /\ \/ w[1].part = "whole" /\ Frame(w) = w[1] /\ Drops(w, Rest(w), 1)
            \/ /\ w[1].part # "whole" /\ Len(w) > 1 /\ Drops(w, Rest(w), 2)
               /\ Frame(w).tag = w[1].tag
               /\ w[2].part = "body" => Frame(w).n = w[2].n
<1>1. w # <<>> /\ (Head(w).part = "whole" \/ Len(w) > 1)
  BY DEF HasFrame
<1>2. /\ Len(w) \in Nat \ {0} /\ Head(w) = w[1] /\ Tail(w) \in Seq(Token)
      /\ Len(Tail(w)) = Len(w) - 1 /\ \A i \in 1..Len(w) - 1 : Tail(w)[i] = w[i + 1]
  BY <1>1, TailAt
<1>3. CASE Head(w).part = "whole"
  <2>1. Frame(w) = w[1] /\ Rest(w) = Tail(w)
    BY <1>2, <1>3 DEF Frame, Rest
  <2>2. 1 <= Len(w)
    BY <1>2
  <2>3. Drops(w, Rest(w), 1)
    BY ONLY <1>2, <2>1, <2>2 DEF Drops
  <2> QED
    BY <1>2, <1>3, <2>1, <2>3
<1>4. CASE Head(w).part # "whole"
  <2>1. Len(w) > 1 /\ Len(Tail(w)) # 0
    BY <1>1, <1>2, <1>4
  <2>2. Tail(w) # <<>>
    BY <1>2, <2>1
  <2> DEFINE t == Tail(w)
  <2> HIDE DEF t
  <2>3. /\ t \in Seq(Token) /\ t # <<>> /\ Len(t) = Len(w) - 1
        /\ \A i \in 1..Len(w) - 1 : t[i] = w[i + 1]
    BY <1>2, <2>2 DEF t
  <2>4. /\ Tail(t) \in Seq(Token) /\ Len(Tail(t)) = Len(t) - 1
        /\ \A i \in 1..Len(t) - 1 : Tail(t)[i] = t[i + 1]
    BY <2>3, TailAt
  <2>5. Rest(w) = Tail(t)
    BY <1>4 DEF Rest, t
  <2>6. ASSUME NEW i \in 1..Len(w) - 2
        PROVE  Tail(t)[i] = w[i + 2]
    <3>1. i \in 1..Len(t) - 1 /\ i + 1 \in 1..Len(w) - 1 /\ i + 1 + 1 = i + 2
      BY <1>2, <2>3
    <3> QED
      BY <2>3, <2>4, <3>1
  <2>7. Drops(w, Rest(w), 2)
    <3>a. Len(w) \in Nat /\ Len(w) > 1 /\ Len(t) = Len(w) - 1
          /\ Len(Rest(w)) = Len(t) - 1
      BY <1>2, <2>1, <2>3, <2>4, <2>5
    <3>1. 2 <= Len(w) /\ Len(Rest(w)) = Len(w) - 2
      BY ONLY <3>a
    <3>2. \A i \in 1..Len(w) - 2 : Rest(w)[i] = w[i + 2]
      BY <2>5, <2>6
    <3> QED
      BY ONLY <3>1, <3>2 DEF Drops
  <2>8. Frame(w).tag = w[1].tag /\ (w[2].part = "body" => Frame(w).n = w[2].n)
    BY <1>2, <1>4 DEF Frame, Whole
  <2> QED
    BY <1>2, <1>4, <2>1, <2>4, <2>5, <2>7, <2>8
<1> QED
  BY <1>3, <1>4
----------------------------------------------------------------------------
(* What such a queue holds: frames, and the numbered chunks of a stream of  *)
(* which the reader has had g and the writer has sent m.                   *)

\* A header and its body are neighbours; only the last header may lack one.
Framed(q) ==
  /\ Len(q) > 0 => q[1].part # "body"
  /\ \A i \in 1..Len(q) - 1 : q[i].part = "header" <=> q[i + 1].part = "body"

EndsInHeader(q) == Len(q) > 0 /\ q[Len(q)].part = "header"

\* The i-th token is a chunk of stream s.
BodyOf(q, s, i) == i \in 2..Len(q) /\ q[i].part = "body" /\ q[i - 1].tag = s

\* The chunks of s follow g without a gap, in order, and do not exceed m.
Numbered(q, s, g, m) ==
  /\ g <= m
  /\ \A i \in 2..Len(q) : BodyOf(q, s, i) =>
        /\ g < q[i].n /\ q[i].n <= m
        /\ q[i].n = g + 1 \/ \E j \in 2..i - 1 : BodyOf(q, s, j) /\ q[j].n = q[i].n - 1
        /\ \A j \in 2..i - 1 : BodyOf(q, s, j) => q[j].n < q[i].n

\* They go on to the m-th.
Reaches(q, s, g, m) == g = m \/ \E i \in 2..Len(q) : BodyOf(q, s, i) /\ q[i].n = m

LEMMA FramedAdds ==
  ASSUME NEW q \in Seq(Token), NEW r \in Seq(Token), NEW e \in Token, Adds(q, r, e),
         Framed(q), e.part = "body" <=> EndsInHeader(q)
  PROVE  Framed(r)
<1>1. /\ Len(q) \in Nat /\ Len(r) = Len(q) + 1 /\ r[Len(q) + 1] = e
      /\ \A i \in 1..Len(q) : r[i] = q[i]
  BY DEF Adds
<1>2. r[1].part # "body"
  <2>1. CASE Len(q) = 0
    BY <1>1, <2>1 DEF EndsInHeader
  <2>2. CASE Len(q) # 0
    BY <1>1, <2>2 DEF Framed
  <2> QED
    BY <2>1, <2>2
<1>3. ASSUME NEW i \in 1..Len(r) - 1
      PROVE  r[i].part = "header" <=> r[i + 1].part = "body"
  <2>1. CASE i = Len(q)
    BY <1>1, <2>1 DEF EndsInHeader
  <2>2. CASE i # Len(q)
    <3>1. i \in 1..Len(q) - 1 /\ i \in 1..Len(q) /\ i + 1 \in 1..Len(q)
      BY <1>1, <2>2
    <3> QED
      BY <1>1, <3>1 DEF Framed
  <2> QED
    BY <2>1, <2>2
<1> QED
  BY <1>2, <1>3 DEF Framed

LEMMA FramedCuts ==
  ASSUME NEW q \in Seq(Token), NEW r \in Seq(Token), Cuts(q, r), Framed(q)
  PROVE  Framed(r)
<1>1. /\ Len(q) \in Nat /\ Len(r) \in Nat /\ Len(r) <= Len(q)
      /\ \A i \in 1..Len(r) : r[i] = q[i]
  BY DEF Cuts
<1>2. Len(r) > 0 => r[1].part # "body"
  BY <1>1 DEF Framed
<1>3. ASSUME NEW i \in 1..Len(r) - 1
      PROVE  r[i].part = "header" <=> r[i + 1].part = "body"
  <2>1. i \in 1..Len(q) - 1 /\ i \in 1..Len(r) /\ i + 1 \in 1..Len(r)
    BY <1>1
  <2> QED
    BY <1>1, <2>1 DEF Framed
<1> QED
  BY <1>2, <1>3 DEF Framed

\* A frame read at the front: a whole one, or a header and its body.
LEMMA FramedDrops ==
  ASSUME NEW q \in Seq(Token), NEW r \in Seq(Token), NEW k \in 1..2, Drops(q, r, k),
         Framed(q), k = 1 <=> q[1].part = "whole"
  PROVE  Framed(r) /\ (k = 2 => q[1].part = "header" /\ q[2].part = "body")
<1>1. /\ Len(q) \in Nat /\ k <= Len(q) /\ Len(r) = Len(q) - k
      /\ \A i \in 1..Len(q) - k : r[i] = q[i + k]
  BY DEF Drops
<1>2. q[1] \in Token
  BY <1>1
<1>3. q[1].part # "body" /\ q[1].part \in {"header", "body", "whole"}
  BY <1>1, <1>2 DEF Framed, Token
<1>4. k = 2 => q[1].part = "header"
  BY <1>3
<1>5. k = 2 => q[2].part = "body"
  <2> SUFFICES ASSUME k = 2 PROVE q[2].part = "body"
    OBVIOUS
  <2>1. 1 \in 1..Len(q) - 1 /\ 1 + 1 = 2
    BY <1>1
  <2> QED
    BY <1>4, <2>1 DEF Framed
<1>6. q[k].part # "header"
  BY <1>5
<1>7. Len(r) > 0 => r[1].part # "body"
  <2> SUFFICES ASSUME Len(r) > 0 PROVE r[1].part # "body"
    OBVIOUS
  <2>1. k \in 1..Len(q) - 1 /\ 1 \in 1..Len(q) - k /\ 1 + k = k + 1
    BY <1>1
  <2>2. r[1] = q[k + 1]
    BY <1>1, <2>1
  <2> QED
    BY <1>6, <2>1, <2>2 DEF Framed
<1>8. ASSUME NEW i \in 1..Len(r) - 1
      PROVE  r[i].part = "header" <=> r[i + 1].part = "body"
  <2>1. /\ i + k \in 1..Len(q) - 1 /\ i \in 1..Len(q) - k /\ i + 1 \in 1..Len(q) - k
        /\ (i + 1) + k = (i + k) + 1
    BY <1>1
  <2> QED
    BY <1>1, <2>1 DEF Framed
<1> QED
  BY <1>4, <1>5, <1>7, <1>8 DEF Framed

\* A token of r is the same chunk in q.
LEMMA BodyCuts ==
  ASSUME NEW q \in Seq(Token), NEW r \in Seq(Token), Cuts(q, r), NEW s,
         NEW i \in 2..Len(r)
  PROVE  i \in 2..Len(q) /\ r[i] = q[i] /\ (BodyOf(r, s, i) <=> BodyOf(q, s, i))
<1>1. /\ Len(q) \in Nat /\ Len(r) \in Nat /\ Len(r) <= Len(q)
      /\ \A j \in 1..Len(r) : r[j] = q[j]
  BY DEF Cuts
<1>2. i \in 2..Len(q) /\ i \in 1..Len(r) /\ i - 1 \in 1..Len(r)
  BY <1>1
<1>3. r[i] = q[i] /\ r[i - 1] = q[i - 1]
  BY <1>1, <1>2
<1> QED
  BY <1>2, <1>3 DEF BodyOf

LEMMA NumberedCuts ==
  ASSUME NEW q \in Seq(Token), NEW r \in Seq(Token), Cuts(q, r), NEW s,
         NEW g \in Int, NEW m \in Int, Numbered(q, s, g, m)
  PROVE  Numbered(r, s, g, m)
<1>1. Len(r) \in Nat
  OBVIOUS
<1>2. ASSUME NEW i \in 2..Len(r), BodyOf(r, s, i)
      PROVE  /\ g < r[i].n /\ r[i].n <= m
             /\ r[i].n = g + 1 \/ \E j \in 2..i - 1 : BodyOf(r, s, j) /\ r[j].n = r[i].n - 1
             /\ \A j \in 2..i - 1 : BodyOf(r, s, j) => r[j].n < r[i].n
  <2>1. i \in 2..Len(q) /\ r[i] = q[i] /\ BodyOf(q, s, i)
    BY <1>2, BodyCuts
  <2>2. /\ g < q[i].n /\ q[i].n <= m
        /\ q[i].n = g + 1 \/ \E j \in 2..i - 1 : BodyOf(q, s, j) /\ q[j].n = q[i].n - 1
        /\ \A j \in 2..i - 1 : BodyOf(q, s, j) => q[j].n < q[i].n
    BY <2>1 DEF Numbered
  <2>3. ASSUME NEW j \in 2..i - 1
        PROVE  r[j] = q[j] /\ (BodyOf(r, s, j) <=> BodyOf(q, s, j))
    <3>1. j \in 2..Len(r)
      BY <1>1
    <3> QED
      BY <3>1, BodyCuts
  <2> QED
    BY <2>1, <2>2, <2>3
<1>3. g <= m
  BY DEF Numbered
<1> QED
  BY ONLY <1>2, <1>3 DEF Numbered

LEMMA AddsCuts ==
  ASSUME NEW q \in Seq(Token), NEW r \in Seq(Token), NEW e, Adds(q, r, e)
  PROVE  Cuts(r, q)
<1>1. /\ Len(q) \in Nat /\ Len(r) = Len(q) + 1 /\ \A i \in 1..Len(q) : r[i] = q[i]
  BY DEF Adds
<1> QED
  BY <1>1 DEF Cuts

\* A token that is no chunk of s is added.
LEMMA NumberedAdds ==
  ASSUME NEW q \in Seq(Token), NEW r \in Seq(Token), NEW e \in Token, Adds(q, r, e), NEW s,
         NEW g \in Int, NEW m \in Int, Numbered(q, s, g, m),
         e.part # "body" \/ (Len(q) > 0 => q[Len(q)].tag # s)
  PROVE  Numbered(r, s, g, m) /\ (Reaches(q, s, g, m) => Reaches(r, s, g, m))
<1>1. /\ Len(q) \in Nat /\ Len(r) = Len(q) + 1 /\ r[Len(q) + 1] = e
      /\ \A i \in 1..Len(q) : r[i] = q[i]
  BY DEF Adds
<1>2. Cuts(r, q)
  BY AddsCuts
<1>3. ASSUME NEW i \in 2..Len(r), BodyOf(r, s, i)
      PROVE  i \in 2..Len(q) /\ q[i] = r[i] /\ BodyOf(q, s, i)
  <2>1. i # Len(q) + 1
    <3> SUFFICES ASSUME i = Len(q) + 1 PROVE FALSE
      OBVIOUS
    <3>1. Len(q) > 0 /\ i - 1 = Len(q) /\ Len(q) \in 1..Len(q)
      BY <1>1
    <3>2. r[i] = e /\ r[i - 1] = q[Len(q)]
      BY <1>1, <3>1
    <3> QED
      BY <1>3, <3>1, <3>2 DEF BodyOf
  <2>2. i \in 2..Len(q)
    BY <1>1, <2>1
  <2> QED
    BY <1>2, <1>3, <2>2, BodyCuts
<1>4. ASSUME NEW j \in 2..Len(q)
      PROVE  j \in 2..Len(r) /\ q[j] = r[j] /\ (BodyOf(q, s, j) <=> BodyOf(r, s, j))
  BY <1>2, BodyCuts
<1>5. ASSUME NEW i \in 2..Len(r), BodyOf(r, s, i)
      PROVE  /\ g < r[i].n /\ r[i].n <= m
             /\ r[i].n = g + 1 \/ \E j \in 2..i - 1 : BodyOf(r, s, j) /\ r[j].n = r[i].n - 1
             /\ \A j \in 2..i - 1 : BodyOf(r, s, j) => r[j].n < r[i].n
  <2>1. i \in 2..Len(q) /\ q[i] = r[i] /\ BodyOf(q, s, i)
    BY <1>3, <1>5
  <2>2. /\ g < q[i].n /\ q[i].n <= m
        /\ q[i].n = g + 1 \/ \E j \in 2..i - 1 : BodyOf(q, s, j) /\ q[j].n = q[i].n - 1
        /\ \A j \in 2..i - 1 : BodyOf(q, s, j) => q[j].n < q[i].n
    BY <2>1 DEF Numbered
  <2>3. ASSUME NEW j \in 2..i - 1
        PROVE  q[j] = r[j] /\ (BodyOf(q, s, j) <=> BodyOf(r, s, j))
    <3>1. j \in 2..Len(q)
      BY <1>1, <2>1
    <3> QED
      BY <1>4, <3>1
  <2> QED
    BY <2>1, <2>2, <2>3
<1>6. Numbered(r, s, g, m)
  <2>1. g <= m
    BY DEF Numbered
  <2> QED
    BY ONLY <1>5, <2>1 DEF Numbered
<1>7. Reaches(q, s, g, m) => Reaches(r, s, g, m)
  BY <1>4 DEF Reaches
<1> QED
  BY <1>6, <1>7

\* The next chunk of s is added after its header.
LEMMA NumberedAddsBody ==
  ASSUME NEW q \in Seq(Token), NEW r \in Seq(Token), NEW s, NEW g \in Int, NEW m \in Int,
         Adds(q, r, Body(m + 1)), Body(m + 1) \in Token,
         Numbered(q, s, g, m), Reaches(q, s, g, m), Len(q) > 0, q[Len(q)].tag = s
  PROVE  Numbered(r, s, g, m + 1) /\ Reaches(r, s, g, m + 1)
<1> DEFINE e == Body(m + 1)
<1>0. e.part = "body" /\ e.n = m + 1
  BY DEF Body
<1> HIDE DEF e
<1>1. /\ Len(q) \in Nat /\ Len(r) = Len(q) + 1 /\ r[Len(q) + 1] = e
      /\ \A i \in 1..Len(q) : r[i] = q[i]
  BY DEF Adds, e
<1>2. Cuts(r, q)
  BY AddsCuts
<1>3. ASSUME NEW j \in 2..Len(q)
      PROVE  j \in 2..Len(r) /\ q[j] = r[j] /\ (BodyOf(q, s, j) <=> BodyOf(r, s, j))
  BY <1>2, BodyCuts
<1>4. /\ g <= m
      /\ \A i \in 2..Len(q) : BodyOf(q, s, i) =>
            /\ q[i].n \in Int /\ g < q[i].n /\ q[i].n <= m
            /\ q[i].n = g + 1 \/ \E j \in 2..i - 1 : BodyOf(q, s, j) /\ q[j].n = q[i].n - 1
            /\ \A j \in 2..i - 1 : BodyOf(q, s, j) => q[j].n < q[i].n
  <2>1. \A i \in 2..Len(q) : q[i].n \in Int
    BY <1>1, TokenAt
  <2> QED
    BY <2>1 DEF Numbered
<1>5. /\ Len(q) + 1 \in 2..Len(r) /\ BodyOf(r, s, Len(q) + 1)
  <2>1. Len(q) + 1 \in 2..Len(r) /\ (Len(q) + 1) - 1 = Len(q) /\ Len(q) \in 1..Len(q)
    BY <1>1
  <2>2. r[Len(q) + 1] = e /\ r[(Len(q) + 1) - 1] = q[Len(q)]
    BY <1>1, <2>1
  <2> QED
    BY <1>0, <2>1, <2>2 DEF BodyOf
<1>6. Reaches(r, s, g, m + 1)
  BY <1>0, <1>1, <1>5 DEF Reaches
<1>7. ASSUME NEW i \in 2..Len(r), BodyOf(r, s, i)
      PROVE  /\ g < r[i].n /\ r[i].n <= m + 1
             /\ r[i].n = g + 1 \/ \E j \in 2..i - 1 : BodyOf(r, s, j) /\ r[j].n = r[i].n - 1
             /\ \A j \in 2..i - 1 : BodyOf(r, s, j) => r[j].n < r[i].n
  <2>1. CASE i \in 2..Len(q)
    <3>1. q[i] = r[i] /\ BodyOf(q, s, i)
      BY <1>3, <1>7, <2>1
    <3>2. ASSUME NEW j \in 2..i - 1
          PROVE  q[j] = r[j] /\ (BodyOf(q, s, j) <=> BodyOf(r, s, j))
      <4>1. j \in 2..Len(q)
        BY <1>1, <2>1
      <4> QED
        BY <1>3, <4>1
    <3>3. r[i].n <= m + 1
      BY <1>4, <2>1, <3>1
    <3> QED
      BY <1>4, <2>1, <3>1, <3>2, <3>3
  <2>2. CASE i = Len(q) + 1
    <3>1. r[i] = e
      BY <1>1, <2>2
    <3>2. g < r[i].n /\ r[i].n <= m + 1
      BY <1>0, <1>4, <3>1
    <3>3. \A j \in 2..i - 1 : j \in 2..Len(q)
      BY <1>1, <2>2
    <3>4. \A j \in 2..i - 1 : BodyOf(r, s, j) => r[j].n < r[i].n
      <4> SUFFICES ASSUME NEW j \in 2..i - 1, BodyOf(r, s, j)
                   PROVE  r[j].n < r[i].n
        OBVIOUS
      <4>1. j \in 2..Len(q) /\ q[j] = r[j] /\ BodyOf(q, s, j)
        BY <1>3, <3>3
      <4>2. q[j].n \in Int /\ q[j].n <= m
        BY <1>4, <4>1
      <4> QED
        BY <1>0, <3>1, <4>1, <4>2
    <3>5. r[i].n = g + 1 \/ \E j \in 2..i - 1 : BodyOf(r, s, j) /\ r[j].n = r[i].n - 1
      <4>1. CASE g = m
        BY <1>0, <3>1, <4>1
      <4>2. CASE g # m
        <5>1. PICK j \in 2..Len(q) : BodyOf(q, s, j) /\ q[j].n = m
          BY <4>2 DEF Reaches
        <5>2. j \in 2..i - 1 /\ BodyOf(r, s, j) /\ r[j].n = r[i].n - 1
          BY <1>0, <1>1, <1>3, <2>2, <3>1, <5>1
        <5> QED
          BY <5>2
      <4> QED
        BY <4>1, <4>2
    <3> QED
      BY <3>2, <3>4, <3>5
  <2>3. i \in 2..Len(q) \/ i = Len(q) + 1
    BY <1>1
  <2> QED
    BY <2>1, <2>2, <2>3
<1>8. g <= m + 1
  BY <1>4
<1>9. Numbered(r, s, g, m + 1)
  BY ONLY <1>7, <1>8 DEF Numbered
<1> QED
  BY <1>6, <1>9

\* A chunk is written to a stream nobody reads any more.
LEMMA NumberedGrows ==
  ASSUME NEW q \in Seq(Token), NEW s, NEW g \in Int, NEW m \in Int,
         Numbered(q, s, g, m)
  PROVE  Numbered(q, s, g, m + 1)
<1>1. g <= m + 1
  BY DEF Numbered
<1>2. \A i \in 2..Len(q) : q[i].n \in Int
  BY TokenAt
<1>3. \A i \in 2..Len(q) : BodyOf(q, s, i) => q[i].n <= m + 1
  BY <1>2 DEF Numbered
<1> QED
  BY <1>1, <1>3 DEF Numbered

\* The chunks that stay when k tokens are read.
LEMMA BodyDrops ==
  ASSUME NEW q \in Seq(Token), NEW r \in Seq(Token), NEW k \in 1..2, Drops(q, r, k),
         NEW s, NEW i \in 2..Len(r)
  PROVE  i + k \in 2..Len(q) /\ r[i] = q[i + k] /\ (BodyOf(r, s, i) <=> BodyOf(q, s, i + k))
<1>1. /\ Len(q) \in Nat /\ k <= Len(q) /\ Len(r) = Len(q) - k
      /\ \A j \in 1..Len(q) - k : r[j] = q[j + k]
  BY DEF Drops
<1>2. /\ i + k \in 2..Len(q) /\ i \in 1..Len(q) - k /\ i - 1 \in 1..Len(q) - k
      /\ (i - 1) + k = (i + k) - 1
  BY <1>1
<1>3. r[i] = q[i + k] /\ r[i - 1] = q[(i + k) - 1]
  BY <1>1, <1>2
<1> QED
  BY <1>2, <1>3 DEF BodyOf

\* What is read is no chunk of s.
LEMMA NumberedDrops ==
  ASSUME NEW q \in Seq(Token), NEW r \in Seq(Token), NEW k \in 1..2, Drops(q, r, k), NEW s,
         NEW g \in Int, NEW m \in Int, Numbered(q, s, g, m), Framed(q),
         k = 1 => q[1].part = "whole",
         k = 2 => q[1].part # "whole" /\ q[1].tag # s
  PROVE  Numbered(r, s, g, m) /\ (Reaches(q, s, g, m) => Reaches(r, s, g, m))
<1>1. /\ Len(q) \in Nat /\ k <= Len(q) /\ Len(r) = Len(q) - k
      /\ \A i \in 1..Len(q) - k : r[i] = q[i + k]
  BY DEF Drops
<1>2. q[k].part # "header"
  <2>1. k = 1 <=> q[1].part = "whole"
    OBVIOUS
  <2>2. k = 2 => q[2].part = "body"
    BY <2>1, FramedDrops
  <2> QED
    BY <2>2
<1>3. ASSUME NEW j \in 2..Len(q), BodyOf(q, s, j)
      PROVE  j > k + 1
  <2>1. q[j].part = "body" /\ q[j - 1].tag = s
    BY <1>3 DEF BodyOf
  <2>2. j # k + 1
    <3> SUFFICES ASSUME j = k + 1 PROVE FALSE
      OBVIOUS
    <3>1. k \in 1..Len(q) - 1
      BY <1>1
    <3> QED
      BY <1>2, <2>1, <3>1 DEF Framed
  <2>3. ~(k = 2 /\ j = 2)
    BY <2>1
  <2> QED
    BY <2>2, <2>3
<1>4. ASSUME NEW i \in 2..Len(r)
      PROVE  i + k \in 2..Len(q) /\ r[i] = q[i + k] /\ (BodyOf(r, s, i) <=> BodyOf(q, s, i + k))
  BY BodyDrops
<1>5. ASSUME NEW j \in 2..Len(q), BodyOf(q, s, j)
      PROVE  j - k \in 2..Len(r) /\ r[j - k] = q[j] /\ BodyOf(r, s, j - k)
  <2>1. j > k + 1
    BY <1>3, <1>5
  <2>2. j - k \in 2..Len(r) /\ (j - k) + k = j
    BY <1>1, <2>1
  <2> QED
    BY <1>4, <1>5, <2>2
<1>6. ASSUME NEW i \in 2..Len(r), BodyOf(r, s, i)
      PROVE  /\ g < r[i].n /\ r[i].n <= m
             /\ r[i].n = g + 1 \/ \E j \in 2..i - 1 : BodyOf(r, s, j) /\ r[j].n = r[i].n - 1
             /\ \A j \in 2..i - 1 : BodyOf(r, s, j) => r[j].n < r[i].n
  <2>1. i + k \in 2..Len(q) /\ r[i] = q[i + k] /\ BodyOf(q, s, i + k)
    BY <1>4, <1>6
  <2>2. /\ g < q[i + k].n /\ q[i + k].n <= m
        /\ \/ q[i + k].n = g + 1
           \/ \E j \in 2..i + k - 1 : BodyOf(q, s, j) /\ q[j].n = q[i + k].n - 1
        /\ \A j \in 2..i + k - 1 : BodyOf(q, s, j) => q[j].n < q[i + k].n
    BY <2>1 DEF Numbered
  <2>3. \A j \in 2..i - 1 : BodyOf(r, s, j) => r[j].n < r[i].n
    <3> SUFFICES ASSUME NEW j \in 2..i - 1, BodyOf(r, s, j)
                 PROVE  r[j].n < r[i].n
      OBVIOUS
    <3>1. j \in 2..Len(r) /\ j + k \in 2..i + k - 1
      BY <1>1
    <3>2. BodyOf(q, s, j + k) /\ r[j] = q[j + k]
      BY <1>4, <3>1
    <3> QED
      BY <2>1, <2>2, <3>1, <3>2
  <2>4. ASSUME NEW j \in 2..i + k - 1, BodyOf(q, s, j), q[j].n = q[i + k].n - 1
        PROVE  \E h \in 2..i - 1 : BodyOf(r, s, h) /\ r[h].n = r[i].n - 1
    <3>1. j \in 2..Len(q)
      BY <1>1, <2>1
    <3>2. j - k \in 2..Len(r) /\ r[j - k] = q[j] /\ BodyOf(r, s, j - k)
      BY <1>5, <2>4, <3>1
    <3>3. j - k \in 2..i - 1
      BY <1>1, <3>2
    <3> QED
      BY <2>1, <2>4, <3>2, <3>3
  <2> QED
    BY <2>1, <2>2, <2>3, <2>4
<1>7. Numbered(r, s, g, m)
  <2>1. g <= m
    BY DEF Numbered
  <2> QED
    BY ONLY <1>6, <2>1 DEF Numbered
<1>8. Reaches(q, s, g, m) => Reaches(r, s, g, m)
  <2> SUFFICES ASSUME NEW j \in 2..Len(q), BodyOf(q, s, j), q[j].n = m
               PROVE  Reaches(r, s, g, m)
    BY DEF Reaches
  <2>1. j - k \in 2..Len(r) /\ r[j - k] = q[j] /\ BodyOf(r, s, j - k)
    BY <1>5
  <2> QED
    BY <2>1 DEF Reaches
<1> QED
  BY <1>7, <1>8

\* A chunk of s is read: it is the one after g.
LEMMA NumberedReads ==
  ASSUME NEW q \in Seq(Token), NEW r \in Seq(Token), Drops(q, r, 2), NEW s,
         NEW g \in Int, NEW m \in Int, Numbered(q, s, g, m), Framed(q),
         q[1].part # "whole", q[1].tag = s
  PROVE  /\ q[2].part = "body" /\ q[2].n = g + 1
         /\ Numbered(r, s, g + 1, m) /\ (Reaches(q, s, g, m) => Reaches(r, s, g + 1, m))
<1>1. /\ Len(q) \in Nat /\ 2 <= Len(q) /\ Len(r) = Len(q) - 2
      /\ \A i \in 1..Len(q) - 2 : r[i] = q[i + 2]
  BY DEF Drops
<1>2. q[2].part = "body"
  BY FramedDrops
<1>3. 2 \in 2..Len(q) /\ BodyOf(q, s, 2)
  BY <1>1, <1>2 DEF BodyOf
<1>4. \A i \in 2..Len(q) : BodyOf(q, s, i) =>
         /\ q[i].n \in Int /\ g < q[i].n /\ q[i].n <= m
         /\ q[i].n = g + 1 \/ \E j \in 2..i - 1 : BodyOf(q, s, j) /\ q[j].n = q[i].n - 1
         /\ \A j \in 2..i - 1 : BodyOf(q, s, j) => q[j].n < q[i].n
  <2>1. \A i \in 2..Len(q) : q[i].n \in Int
    BY <1>1, TokenAt
  <2> QED
    BY <2>1 DEF Numbered
<1>5. q[2].n = g + 1 /\ g + 1 <= m
  BY <1>3, <1>4
<1>6. ASSUME NEW j \in 2..Len(q), BodyOf(q, s, j), j # 2
      PROVE  j > 3 /\ q[j].n > g + 1
  <2>1. q[j].part = "body"
    BY <1>6 DEF BodyOf
  <2>2. j # 3
    <3> SUFFICES ASSUME j = 3 PROVE FALSE
      OBVIOUS
    <3>1. 2 \in 1..Len(q) - 1 /\ 2 + 1 = 3
      BY <1>1
    <3> QED
      BY <1>2, <2>1, <3>1 DEF Framed
  <2>3. j > 3 /\ 2 \in 2..j - 1
    BY <1>6, <2>2
  <2> QED
    BY <1>3, <1>4, <1>5, <1>6, <2>3
<1>7. ASSUME NEW i \in 2..Len(r)
      PROVE  i + 2 \in 2..Len(q) /\ r[i] = q[i + 2] /\ (BodyOf(r, s, i) <=> BodyOf(q, s, i + 2))
  BY BodyDrops
<1>8. ASSUME NEW j \in 2..Len(q), BodyOf(q, s, j), j # 2
      PROVE  j - 2 \in 2..Len(r) /\ r[j - 2] = q[j] /\ BodyOf(r, s, j - 2)
  <2>1. j > 3
    BY <1>6, <1>8
  <2>2. j - 2 \in 2..Len(r) /\ (j - 2) + 2 = j
    BY <1>1, <2>1
  <2> QED
    BY <1>7, <1>8, <2>2
<1>9. ASSUME NEW i \in 2..Len(r), BodyOf(r, s, i)
      PROVE  /\ g + 1 < r[i].n /\ r[i].n <= m
             /\ r[i].n = g + 2 \/ \E j \in 2..i - 1 : BodyOf(r, s, j) /\ r[j].n = r[i].n - 1
             /\ \A j \in 2..i - 1 : BodyOf(r, s, j) => r[j].n < r[i].n
  <2>1. i + 2 \in 2..Len(q) /\ r[i] = q[i + 2] /\ BodyOf(q, s, i + 2) /\ i + 2 # 2
    BY <1>7, <1>9
  <2>2. /\ q[i + 2].n > g + 1 /\ q[i + 2].n <= m /\ q[i + 2].n \in Int
        /\ \/ q[i + 2].n = g + 1
           \/ \E j \in 2..i + 1 : BodyOf(q, s, j) /\ q[j].n = q[i + 2].n - 1
        /\ \A j \in 2..i + 1 : BodyOf(q, s, j) => q[j].n < q[i + 2].n
    <3>1. (i + 2) - 1 = i + 1
      OBVIOUS
    <3> QED
      BY <1>4, <1>6, <2>1, <3>1
  <2>3. \A j \in 2..i - 1 : BodyOf(r, s, j) => r[j].n < r[i].n
    <3> SUFFICES ASSUME NEW j \in 2..i - 1, BodyOf(r, s, j)
                 PROVE  r[j].n < r[i].n
      OBVIOUS
    <3>1. j \in 2..Len(r) /\ j + 2 \in 2..i + 1
      BY <1>1
    <3>2. BodyOf(q, s, j + 2) /\ r[j] = q[j + 2]
      BY <1>7, <3>1
    <3> QED
      BY <2>1, <2>2, <3>1, <3>2
  <2>4. ASSUME NEW j \in 2..i + 1, BodyOf(q, s, j), q[j].n = q[i + 2].n - 1
        PROVE  r[i].n = g + 2 \/ \E h \in 2..i - 1 : BodyOf(r, s, h) /\ r[h].n = r[i].n - 1
    <3>1. CASE j = 2
      BY <1>5, <2>1, <2>2, <2>4, <3>1
    <3>2. CASE j # 2
      <4>1. j \in 2..Len(q)
        BY <1>1, <2>1
      <4>2. j - 2 \in 2..Len(r) /\ r[j - 2] = q[j] /\ BodyOf(r, s, j - 2)
        BY <1>8, <2>4, <3>2, <4>1
      <4>3. j - 2 \in 2..i - 1
        BY <1>1, <4>2
      <4> QED
        BY <2>1, <2>4, <4>2, <4>3
    <3> QED
      BY <3>1, <3>2
  <2>5. r[i].n = g + 2 \/ \E j \in 2..i - 1 : BodyOf(r, s, j) /\ r[j].n = r[i].n - 1
    BY <2>2, <2>4
  <2> QED
    BY <2>1, <2>2, <2>3, <2>5
<1>10. Numbered(r, s, g + 1, m)
  <2>1. g + 1 + 1 = g + 2
    OBVIOUS
  <2> QED
    BY <1>5, <1>9, <2>1 DEF Numbered
<1>11. Reaches(q, s, g, m) => Reaches(r, s, g + 1, m)
  <2> SUFFICES ASSUME NEW j \in 2..Len(q), BodyOf(q, s, j), q[j].n = m
               PROVE  Reaches(r, s, g + 1, m)
    BY <1>5 DEF Reaches
  <2>1. CASE j = 2
    BY <1>5, <2>1 DEF Reaches
  <2>2. CASE j # 2
    BY <1>8, <2>2 DEF Reaches
  <2> QED
    BY <2>1, <2>2
<1> QED
  BY <1>2, <1>5, <1>10, <1>11
----------------------------------------------------------------------------
(* The executor, its pumps and the group, whatever the streams carry.       *)

Stage ==
  /\ pump \in [Outputs -> {"none", "read", "body", "done"}]
  /\ pumped \in [Outputs -> Nat] /\ wrote \in [Outputs -> Nat]
  /\ proc \in [Procs -> {"none", "run", "dead"}]
  /\ \A s \in Outputs :
        /\ pumped[s] <= wrote[s] /\ (pump[s] = "body" => pumped[s] > 0)
        /\ pump[s] = "done" => GroupEnded /\ pumped[s] = wrote[s]
        /\ proc["leader"] = "none" <=> pump[s] = "none"
        /\ pump[s] = "none" => wrote[s] = 0
        /\ \A t \in Outputs : pump[s] = "body" /\ pump[t] = "body" => s = t
  /\ proc["leader"] = "none" => proc["heir"] = "none"
  /\ IF proc["leader"] = "dead" THEN code \in Codes \cup {-1} ELSE code = None
  /\ exe \in {"none", "header"} => proc["leader"] = "none"
  /\ exe = "pumping" => proc["leader"] # "none"
  /\ exe = "exiting" => proc["leader"] = "dead" /\ PumpsDone
  /\ exe = "closed" => proc["leader"] = "none" \/ (proc["leader"] = "dead" /\ PumpsDone)
  /\ exe \in {"none", "header", "pumping", "exiting", "closed"}

stageVars == <<exe, pump, pumped, wrote, proc, code>>

LEMMA StageInit == Init => Stage
<1> USE DEF Init, Stage, Outputs, Procs, GroupEnded, Running, PumpsDone
<1> QED
  OBVIOUS

LEMMA StageSame == Stage /\ UNCHANGED stageVars => Stage'
BY DEF stageVars, Stage, GroupEnded, Running, PumpsDone

\* Members of the group die, and the group ends.
LEMMA GroupFacts ==
  ASSUME Stage
  PROVE  /\ GroupEnded <=> proc["leader"] # "run" /\ proc["heir"] # "run"
         /\ proc["leader"] \in {"none", "run", "dead"} /\ proc["heir"] \in {"none", "run", "dead"}
BY DEF Stage, GroupEnded, Running, Procs

\* Once they stop running they do not start again.
LEMMA StageDeaths ==
  ASSUME Stage, UNCHANGED <<exe, pump, pumped, wrote>>,
         proc' \in [Procs -> {"none", "run", "dead"}],
         \A p \in Procs : proc'[p] = proc[p] \/ (proc[p] = "run" /\ proc'[p] = "dead"),
         IF proc["leader"] # proc'["leader"] THEN code' \in Codes \cup {-1} ELSE code' = code
  PROVE  Stage'
<1>1. "leader" \in Procs /\ "heir" \in Procs
  BY DEF Procs
<1>2. GroupEnded => GroupEnded'
  BY DEF GroupEnded, Running
<1>3. /\ proc'["leader"] = "none" <=> proc["leader"] = "none"
      /\ proc'["heir"] = "none" <=> proc["heir"] = "none"
      /\ proc["leader"] = "dead" => proc'["leader"] = "dead"
  BY <1>1
<1>4. IF proc'["leader"] = "dead" THEN code' \in Codes \cup {-1} ELSE code' = None
  BY <1>1 DEF Stage
<1>5. PumpsDone' <=> PumpsDone
  BY DEF PumpsDone
<1> QED
  BY <1>2, <1>3, <1>4, <1>5 DEF Stage

\* The executor has a stream once the bridge has dialled it.
Opened ==
  /\ prx = "dial" => brg = "none"
  /\ brg \in {"none", "dial"} => exe = "none" /\ link = "none"

LEMMA OpenedStep ==
  ASSUME Opened, [Next]_vars
  PROVE  Opened'
<1> USE DEF vars, parentVars, proxyVars, bridgeVars, execVars, childVars, Opened
<1>1. CASE UNCHANGED <<prx, brg, exe, link>>
  BY <1>1
<1>2. CASE Signal \/ KillProxy \/ Dial \/ SendSpawn \/ Notify \/ MainFrame \/ MainEof
  BY <1>2 DEF Signal, KillProxy, Dial, SendSpawn, Notify, MainFrame, MainEof, ProxyExits
<1>3. CASE BridgeDial \/ BridgeCloses \/ Cut
  BY <1>3 DEF BridgeDial, BridgeCloses, Cut
<1>4. CASE ReadSpawn \/ ReadSpawnFails \/ Reap \/ SendExit
  BY <1>4 DEF ReadSpawn, ReadSpawnFails, Reap, SendExit
<1>5. CASE Type \/ CloseStdin \/ ForwardSignal \/ StdinStep \/ UpStep \/ DownStep
  BY <1>5, <1>1 DEF Type, CloseStdin, ForwardSignal, StdinStep, PumpStdin, PumpStdinBody,
    UpStep, CopyUp, CopyUpEnds, DownStep, CopyDown, CopyDownEnds
<1>6. CASE ControlStep \/ ChildReads \/ Fork \/ UNCHANGED vars
  BY <1>6, <1>1 DEF ControlStep, Control, WriteStdin, ControlEnds, ChildReads, Fork
<1>7. CASE \E s \in Outputs : PumpStep(s) \/ ChildWrites(s)
  BY <1>7, <1>1 DEF PumpStep, PumpOut, PumpBody, PumpEnds, ChildWrites
<1>8. CASE \E p \in Procs : ProcExits(p)
  BY <1>8, <1>1 DEF ProcExits
<1> QED
  BY <1>2, <1>3, <1>4, <1>5, <1>6, <1>7, <1>8 DEF Next, ProxyStep, BridgeStep, ExecStep

LEMMA StageStep ==
  ASSUME BoundsAssumption, Stage, Opened, [Next]_vars
  PROVE  Stage'
<1> USE DEF vars, parentVars, proxyVars, bridgeVars, execVars, childVars
<1>1. CASE UNCHANGED stageVars
  BY <1>1, StageSame
<1>2. CASE BridgeDial
  <2>1. CASE exe' = exe
    BY <1>1, <1>2, <2>1 DEF BridgeDial, stageVars
  <2>2. CASE exe' = "header"
    BY <1>2, <2>2 DEF BridgeDial, Opened, Stage, GroupEnded, Running, PumpsDone
  <2> QED
    BY <1>2, <2>1, <2>2 DEF BridgeDial
<1>3. CASE ReadSpawn
  <2>1. /\ exe = "header" /\ UNCHANGED <<pumped, code, wrote>>
        /\ \/ exe' = "pumping" /\ pump' = [s \in Outputs |-> "read"]
              /\ proc' = [proc EXCEPT !["leader"] = "run"]
           \/ exe' = "closed" /\ UNCHANGED <<pump, proc>>
    BY <1>3 DEF ReadSpawn
  <2>2. CASE exe' = "closed" /\ UNCHANGED <<pump, proc>>
    BY <2>1, <2>2 DEF Stage, GroupEnded, Running, PumpsDone
  <2>3. CASE /\ exe' = "pumping" /\ pump' = [s \in Outputs |-> "read"]
             /\ proc' = [proc EXCEPT !["leader"] = "run"]
    <3>1. /\ proc' \in [Procs -> {"none", "run", "dead"}] /\ proc'["leader"] = "run"
          /\ pump' \in [Outputs -> {"none", "read", "body", "done"}]
          /\ \A s \in Outputs : pump'[s] = "read"
      BY <2>3 DEF Stage, Procs
    <3>2. code' = None
      BY <2>1 DEF Stage
    <3> QED
      BY <2>1, <2>3, <3>1, <3>2 DEF Stage
  <2> QED
    BY <2>1, <2>2, <2>3
<1>4. CASE ReadSpawnFails
  BY <1>4 DEF ReadSpawnFails, Stage, GroupEnded, Running, PumpsDone
<1>5. CASE Control
  <2>1. CASE UNCHANGED <<proc, code>>
    BY <1>1, <1>5, <2>1 DEF Control, stageVars
  <2>2. CASE /\ proc' = [p \in Procs |-> IF p \in Group \ Stubborn /\ Running(p)
                                           THEN "dead" ELSE proc[p]]
             /\ code' = IF Running("leader") /\ proc'["leader"] = "dead" THEN -1 ELSE code
    <3>1. /\ proc' \in [Procs -> {"none", "run", "dead"}]
          /\ \A p \in Procs : proc'[p] = proc[p] \/ (proc[p] = "run" /\ proc'[p] = "dead")
      BY <2>2 DEF Stage, Running
    <3>2. IF proc["leader"] # proc'["leader"] THEN code' \in Codes \cup {-1} ELSE code' = code
      <4>1. "leader" \in Procs
        BY DEF Procs
      <4> QED
        BY <2>2, <3>1, <4>1 DEF Running
    <3>3. UNCHANGED <<exe, pump, pumped, wrote>>
      BY <1>5 DEF Control
    <3> QED
      BY <3>1, <3>2, <3>3, StageDeaths
  <2> QED
    BY <1>5, <2>1, <2>2 DEF Control
<1>6. ASSUME NEW s \in Outputs, PumpOut(s)
      PROVE  Stage'
  <2>1. /\ pump[s] = "read" /\ pumped[s] < wrote[s] /\ (\A t \in Outputs : pump[t] # "body")
        /\ pumped' = [pumped EXCEPT ![s] = @ + 1] /\ pump' = [pump EXCEPT ![s] = "body"]
        /\ UNCHANGED <<exe, wrote, proc, code>>
    BY <1>6 DEF PumpOut, HasOutput, ExecUnlocked
  <2>2. /\ pump' \in [Outputs -> {"none", "read", "body", "done"}]
        /\ pumped' \in [Outputs -> Nat] /\ wrote' \in [Outputs -> Nat]
        /\ pumped'[s] = pumped[s] + 1 /\ pump'[s] = "body"
        /\ \A t \in Outputs : t # s => pumped'[t] = pumped[t] /\ pump'[t] = pump[t]
    BY <2>1 DEF Stage
  <2>3. GroupEnded' = GroupEnded
    BY <2>1 DEF GroupEnded, Running
  <2>4. ~PumpsDone
    BY <2>1 DEF PumpsDone
  <2>5. pumped[s] \in Nat /\ wrote[s] \in Nat
    BY DEF Stage
  <2>6. \A t \in Outputs :
           /\ pumped'[t] <= wrote'[t] /\ (pump'[t] = "body" => pumped'[t] > 0)
           /\ pump'[t] = "done" => GroupEnded' /\ pumped'[t] = wrote'[t]
           /\ proc'["leader"] = "none" <=> pump'[t] = "none"
           /\ pump'[t] = "none" => wrote'[t] = 0
           /\ \A u \in Outputs : pump'[t] = "body" /\ pump'[u] = "body" => t = u
    BY <2>1, <2>2, <2>3, <2>5 DEF Stage
  <2> QED
    BY <2>1, <2>2, <2>4, <2>6 DEF Stage
<1>7. ASSUME NEW s \in Outputs, NEW x \in {"read", "done"},
             pump[s] \in {"read", "body"}, x = "done" => GroupEnded /\ pumped[s] = wrote[s],
             pump' = [pump EXCEPT ![s] = x], UNCHANGED <<exe, pumped, wrote, proc, code>>
      PROVE  Stage'
  <2>1. /\ pump' \in [Outputs -> {"none", "read", "body", "done"}] /\ pump'[s] = x
        /\ \A t \in Outputs : t # s => pump'[t] = pump[t]
    BY <1>7 DEF Stage
  <2>2. GroupEnded' = GroupEnded
    BY <1>7 DEF GroupEnded, Running
  <2>3. ~PumpsDone
    BY <1>7 DEF PumpsDone
  <2>4. \A t \in Outputs :
           /\ pumped'[t] <= wrote'[t] /\ (pump'[t] = "body" => pumped'[t] > 0)
           /\ pump'[t] = "done" => GroupEnded' /\ pumped'[t] = wrote'[t]
           /\ proc'["leader"] = "none" <=> pump'[t] = "none"
           /\ pump'[t] = "none" => wrote'[t] = 0
           /\ \A u \in Outputs : pump'[t] = "body" /\ pump'[u] = "body" => t = u
    BY <1>7, <2>1, <2>2 DEF Stage
  <2> QED
    BY <1>7, <2>1, <2>3, <2>4 DEF Stage
<1>8. ASSUME NEW s \in Outputs, PumpBody(s) \/ PumpEnds(s)
      PROVE  Stage'
  <2>1. CASE PumpBody(s)
    BY <1>7, <2>1 DEF PumpBody
  <2>2. CASE PumpEnds(s)
    BY <1>7, <2>2 DEF PumpEnds
  <2> QED
    BY <1>8, <2>1, <2>2
<1>9. CASE Reap \/ SendExit
  BY <1>9 DEF Reap, SendExit, Stage, GroupEnded, Running, PumpsDone
<1>10. ASSUME NEW s \in Outputs, ChildWrites(s)
       PROVE  Stage'
  <2>1. /\ ~GroupEnded /\ wrote' = [wrote EXCEPT ![s] = @ + 1]
        /\ UNCHANGED <<exe, pump, pumped, proc, code>>
    BY <1>10 DEF ChildWrites
  <2>2. /\ wrote' \in [Outputs -> Nat] /\ wrote'[s] = wrote[s] + 1
        /\ \A t \in Outputs : t # s => wrote'[t] = wrote[t]
    BY <2>1 DEF Stage
  <2>3. proc["leader"] # "none"
    BY <2>1, GroupFacts DEF Stage
  <2>4. \A t \in Outputs : pumped[t] \in Nat /\ wrote[t] \in Nat
    BY DEF Stage
  <2>5. (\A t \in Outputs : pumped'[t] <= wrote'[t]) /\ GroupEnded' = GroupEnded
        /\ PumpsDone' = PumpsDone
    BY <2>1, <2>2, <2>4 DEF Stage, GroupEnded, Running, PumpsDone
  <2> QED
    BY <2>1, <2>2, <2>3, <2>5 DEF Stage
<1>11. CASE Fork
  <2>1. /\ proc["leader"] = "run" /\ proc' = [proc EXCEPT !["heir"] = "run"]
        /\ UNCHANGED <<exe, pump, pumped, wrote, code>>
    BY <1>11 DEF Fork, Running
  <2>2. /\ proc' \in [Procs -> {"none", "run", "dead"}] /\ proc'["leader"] = "run"
    BY <2>1 DEF Stage, Procs
  <2>3. ~GroupEnded /\ ~GroupEnded'
    BY <2>1, <2>2 DEF GroupEnded, Running, Procs
  <2> QED
    BY <2>1, <2>2, <2>3 DEF Stage, PumpsDone
<1>12. ASSUME NEW p \in Procs, ProcExits(p)
       PROVE  Stage'
  <2>1. /\ proc[p] = "run" /\ proc' = [proc EXCEPT ![p] = "dead"]
        /\ IF p = "leader" THEN code' \in Codes ELSE code' = code
        /\ UNCHANGED <<exe, pump, pumped, wrote>>
    BY <1>12 DEF ProcExits, Running
  <2>2. /\ proc' \in [Procs -> {"none", "run", "dead"}]
        /\ \A q \in Procs : proc'[q] = proc[q] \/ (proc[q] = "run" /\ proc'[q] = "dead")
        /\ IF proc["leader"] # proc'["leader"] THEN code' \in Codes \cup {-1} ELSE code' = code
    BY <2>1 DEF Stage, Procs
  <2> QED
    BY <2>1, <2>2, StageDeaths
<1>13. CASE Type \/ CloseStdin \/ Signal \/ KillProxy \/ ProxyStep \/ ForwardSignal
            \/ StdinStep \/ BridgeCloses \/ UpStep \/ DownStep \/ Cut \/ WriteStdin
            \/ ControlEnds \/ ChildReads \/ UNCHANGED vars
  <2>1. CASE Type \/ CloseStdin \/ Signal \/ KillProxy \/ Dial \/ SendSpawn \/ Notify
             \/ MainFrame \/ MainEof \/ ForwardSignal
    BY <1>1, <2>1 DEF Type, CloseStdin, Signal, KillProxy, Dial, SendSpawn, Notify, MainFrame,
      MainEof, ForwardSignal, stageVars
  <2>2. CASE StdinStep \/ BridgeCloses \/ UpStep \/ DownStep \/ Cut \/ WriteStdin
             \/ ControlEnds \/ ChildReads \/ UNCHANGED vars
    BY <1>1, <2>2 DEF StdinStep, PumpStdin, PumpStdinBody, BridgeCloses, UpStep, CopyUp,
      CopyUpEnds, DownStep, CopyDown, CopyDownEnds, Cut, WriteStdin, ControlEnds, ChildReads,
      stageVars
  <2> QED
    BY <1>13, <2>1, <2>2 DEF ProxyStep
<1> QED
  BY <1>2, <1>3, <1>4, <1>5, <1>6, <1>8, <1>9, <1>10, <1>11, <1>12, <1>13
     DEF Next, BridgeStep, ExecStep, ControlStep, PumpStep
----------------------------------------------------------------------------
(* The way down: output chunks, then the exit frame.                       *)

DnShape(q) ==
  \A i \in 1..Len(q) :
     /\ q[i].part = "header" => q[i].tag \in Outputs
     /\ q[i].part = "whole" => q[i].tag = "exit" /\ i = Len(q)

ExitIn(q) == Len(q) > 0 /\ q[Len(q)].part = "whole"

\* g[s] is what the proxy has output of s, m[s] how many chunks the pump has sent.
Flow(q, g, m) ==
  /\ Framed(q) /\ DnShape(q)
  /\ \A s \in Outputs : Counted(g[s]) /\ Numbered(q, s, Len(g[s]), m[s])

Full(q, g, m) == \A s \in Outputs : Reaches(q, s, Len(g[s]), m[s])

Gots  == [Outputs -> Seq(Int)]
Sents == [Outputs -> Int]

LEMMA LensAreInts ==
  ASSUME NEW g \in Gots, NEW m \in Sents, NEW s \in Outputs
  PROVE  g[s] \in Seq(Int) /\ Len(g[s]) \in Int /\ Len(g[s]) \in Nat /\ m[s] \in Int
BY DEF Gots, Sents

LEMMA FlowCuts ==
  ASSUME NEW q \in Seq(Token), NEW r \in Seq(Token), Cuts(q, r),
         NEW g \in Gots, NEW m \in Sents, Flow(q, g, m)
  PROVE  Flow(r, g, m) /\ (ExitIn(r) => Len(r) = Len(q) /\ r[Len(r)] = q[Len(q)])
<1>1. /\ Len(q) \in Nat /\ Len(r) \in Nat /\ Len(r) <= Len(q)
      /\ \A i \in 1..Len(r) : r[i] = q[i]
  BY DEF Cuts
<1>2. Framed(r)
  BY FramedCuts DEF Flow
<1>3. DnShape(r) /\ (ExitIn(r) => Len(r) = Len(q))
  <2>1. ASSUME NEW i \in 1..Len(r), r[i].part = "whole"
        PROVE  r[i].tag = "exit" /\ i = Len(r) /\ Len(r) = Len(q)
    <3>1. i \in 1..Len(q) /\ q[i] = r[i]
      BY <1>1
    <3>2. q[i].tag = "exit" /\ i = Len(q)
      BY <2>1, <3>1 DEF Flow, DnShape
    <3> QED
      BY <1>1, <3>1, <3>2
  <2>2. ASSUME NEW i \in 1..Len(r), r[i].part = "header"
        PROVE  r[i].tag \in Outputs
    <3>1. i \in 1..Len(q) /\ q[i] = r[i]
      BY <1>1
    <3> QED
      BY <2>2, <3>1 DEF Flow, DnShape
  <2>3. ASSUME ExitIn(r)
        PROVE  Len(r) = Len(q)
    <3>1. Len(r) \in 1..Len(r) /\ r[Len(r)].part = "whole"
      BY <1>1, <2>3 DEF ExitIn
    <3> QED
      BY <2>1, <3>1
  <2> QED
    BY <2>1, <2>2, <2>3 DEF DnShape
<1>4. ASSUME NEW s \in Outputs
      PROVE  Counted(g[s]) /\ Numbered(r, s, Len(g[s]), m[s])
  BY LensAreInts, NumberedCuts DEF Flow
<1>5. ExitIn(r) => r[Len(r)] = q[Len(q)]
  BY <1>1, <1>3 DEF ExitIn
<1> QED
  BY <1>2, <1>3, <1>4, <1>5 DEF Flow

LEMMA ReachesSame ==
  ASSUME NEW q \in Seq(Token), NEW r \in Seq(Token), Same(q, r), NEW s, NEW g, NEW m,
         Reaches(q, s, g, m)
  PROVE  Reaches(r, s, g, m)
<1>1. Cuts(r, q) /\ Len(r) = Len(q)
  BY DEF Same, Cuts
<1>2. \A i \in 2..Len(q) : i \in 2..Len(r) /\ q[i] = r[i] /\ (BodyOf(q, s, i) <=> BodyOf(r, s, i))
  BY <1>1, BodyCuts
<1> QED
  BY <1>2 DEF Reaches

LEMMA FlowSame ==
  ASSUME NEW q \in Seq(Token), NEW r \in Seq(Token), Same(q, r),
         NEW g \in Gots, NEW m \in Sents, Flow(q, g, m)
  PROVE  /\ Flow(r, g, m) /\ (Full(q, g, m) => Full(r, g, m))
         /\ Len(r) = Len(q) /\ (Len(q) > 0 => r[Len(r)] = q[Len(q)])
<1>1. Len(q) \in Nat /\ Len(r) = Len(q) /\ \A i \in 1..Len(q) : r[i] = q[i]
  BY DEF Same
<1>2. Flow(r, g, m)
  BY <1>1, FlowCuts DEF Cuts
<1>3. Full(q, g, m) => Full(r, g, m)
  BY ReachesSame DEF Full
<1> QED
  BY <1>1, <1>2, <1>3

\* A header or the exit frame is added behind a complete frame.
LEMMA FlowAdds ==
  ASSUME NEW q \in Seq(Token), NEW r \in Seq(Token), NEW e \in Token, Adds(q, r, e),
         NEW g \in Gots, NEW m \in Sents, Flow(q, g, m), ~EndsInHeader(q), ~ExitIn(q),
         (e.part = "header" /\ e.tag \in Outputs) \/ (e.part = "whole" /\ e.tag = "exit")
  PROVE  /\ Flow(r, g, m) /\ (Full(q, g, m) => Full(r, g, m))
         /\ Len(r) > 0 /\ r[Len(r)] = e
<1>1. /\ Len(q) \in Nat /\ Len(r) = Len(q) + 1 /\ r[Len(q) + 1] = e
      /\ \A i \in 1..Len(q) : r[i] = q[i]
  BY DEF Adds
<1>2. Framed(r)
  BY FramedAdds DEF Flow
<1>3. DnShape(r)
  <2>1. ASSUME NEW i \in 1..Len(r), i # Len(r)
        PROVE  r[i].part # "whole" /\ (r[i].part = "header" => r[i].tag \in Outputs)
    <3>1. i \in 1..Len(q) /\ r[i] = q[i]
      BY <1>1, <2>1
    <3>2. q[i].part = "whole" => i = Len(q)
      BY <3>1 DEF Flow, DnShape
    <3>3. q[i].part # "whole"
      BY <1>1, <3>1, <3>2 DEF ExitIn
    <3> QED
      BY <3>1, <3>3 DEF Flow, DnShape
  <2> QED
    BY <1>1, <2>1 DEF DnShape
<1>4. ASSUME NEW s \in Outputs
      PROVE  /\ Counted(g[s]) /\ Numbered(r, s, Len(g[s]), m[s])
             /\ Reaches(q, s, Len(g[s]), m[s]) => Reaches(r, s, Len(g[s]), m[s])
  <2>1. e.part # "body"
    OBVIOUS
  <2> QED
    BY <2>1, LensAreInts, NumberedAdds DEF Flow
<1> QED
  BY <1>1, <1>2, <1>3, <1>4 DEF Flow, Full

\* The body of the last header is added.
LEMMA FlowAddsBody ==
  ASSUME NEW q \in Seq(Token), NEW r \in Seq(Token), NEW s \in Outputs,
         NEW g \in Gots, NEW m \in Sents, NEW mm \in Sents,
         Adds(q, r, Body(mm[s])), Flow(q, g, m), Full(q, g, m),
         EndsInHeader(q), q[Len(q)].tag = s,
         mm[s] = m[s] + 1, \A t \in Outputs : t # s => mm[t] = m[t]
  PROVE  /\ Flow(r, g, mm) /\ Full(r, g, mm)
         /\ Len(r) > 0 /\ r[Len(r)] = Body(mm[s])
<1> DEFINE e == Body(mm[s])
<1>0. e \in Token /\ e.part = "body" /\ e.tag = "data"
  BY DEF Body, Token, Sents
<1>1. /\ Len(q) \in Nat /\ Len(r) = Len(q) + 1 /\ r[Len(q) + 1] = e
      /\ \A i \in 1..Len(q) : r[i] = q[i]
  BY DEF Adds
<1>2. Framed(r)
  BY <1>0, FramedAdds DEF Flow
<1> HIDE DEF e
<1>3. DnShape(r)
  <2>1. ASSUME NEW i \in 1..Len(r), i # Len(r)
        PROVE  r[i].part # "whole" /\ (r[i].part = "header" => r[i].tag \in Outputs)
    <3>1. i \in 1..Len(q) /\ r[i] = q[i]
      BY <1>1, <2>1
    <3>2. q[i].part = "whole" => i = Len(q)
      BY <3>1 DEF Flow, DnShape
    <3>3. q[i].part # "whole"
      BY <1>1, <3>1, <3>2 DEF EndsInHeader
    <3> QED
      BY <3>1, <3>3 DEF Flow, DnShape
  <2> QED
    BY <1>0, <1>1, <2>1 DEF DnShape
<1>4. ASSUME NEW t \in Outputs
      PROVE  /\ Numbered(r, t, Len(g[t]), mm[t]) /\ Reaches(r, t, Len(g[t]), mm[t])
  <2>1. /\ Numbered(q, t, Len(g[t]), m[t]) /\ Reaches(q, t, Len(g[t]), m[t])
        /\ Len(g[t]) \in Int /\ m[t] \in Int
    BY LensAreInts DEF Flow, Full
  <2>2. CASE t = s
    <3>1. Adds(q, r, Body(m[s] + 1)) /\ Body(m[s] + 1) \in Token
      BY <1>0 DEF e
    <3>2. Len(q) > 0
      BY DEF EndsInHeader
    <3>3. Numbered(r, s, Len(g[s]), m[s] + 1) /\ Reaches(r, s, Len(g[s]), m[s] + 1)
      BY <2>1, <2>2, <3>1, <3>2, NumberedAddsBody
    <3> QED
      BY <2>2, <3>3
  <2>3. CASE t # s
    <3>1. Adds(q, r, e) /\ (Len(q) > 0 => q[Len(q)].tag # t) /\ mm[t] = m[t]
      BY <2>3 DEF e
    <3> QED
      BY <1>0, <2>1, <3>1, NumberedAdds
  <2> QED
    BY <2>2, <2>3
<1>5. \A t \in Outputs : Counted(g[t])
  BY DEF Flow
<1>6. Len(r) > 0 /\ r[Len(r)] = Body(mm[s])
  BY <1>1 DEF e
<1> QED
  BY <1>2, <1>3, <1>4, <1>5, <1>6 DEF Flow, Full

\* A pump writes a chunk to a stream that has gone.
LEMMA FlowGrows ==
  ASSUME NEW q \in Seq(Token), NEW s \in Outputs,
         NEW g \in Gots, NEW m \in Sents, NEW mm \in Sents, Flow(q, g, m),
         mm[s] = m[s] + 1, \A t \in Outputs : t # s => mm[t] = m[t]
  PROVE  Flow(q, g, mm)
<1>1. ASSUME NEW t \in Outputs
      PROVE  Numbered(q, t, Len(g[t]), mm[t])
  <2>1. Numbered(q, t, Len(g[t]), m[t]) /\ Len(g[t]) \in Int /\ m[t] \in Int
    BY LensAreInts DEF Flow
  <2>2. CASE t = s
    BY <2>1, <2>2, NumberedGrows
  <2>3. CASE t # s
    BY <2>1, <2>3
  <2> QED
    BY <2>2, <2>3
<1> QED
  BY <1>1 DEF Flow

\* The exit frame is read: it was alone.
LEMMA FlowDropsExit ==
  ASSUME NEW q \in Seq(Token), NEW r \in Seq(Token), Drops(q, r, 1), q[1].part = "whole",
         NEW g \in Gots, NEW m \in Sents, Flow(q, g, m)
  PROVE  /\ Len(q) = 1 /\ ExitIn(q) /\ q[1].tag = "exit"
         /\ Flow(r, g, m) /\ Len(r) = 0
         /\ Full(q, g, m) => \A s \in Outputs : Len(g[s]) = m[s]
<1>1. /\ Len(q) \in Nat /\ 1 <= Len(q) /\ Len(r) = Len(q) - 1 /\ 1 \in 1..Len(q)
  BY DEF Drops
<1>2. q[1].tag = "exit" /\ 1 = Len(q)
  BY <1>1 DEF Flow, DnShape
<1>3. Len(r) = 0 /\ ExitIn(q)
  BY <1>1, <1>2 DEF ExitIn
<1>4. Flow(r, g, m)
  <2>1. ASSUME NEW i \in 1..Len(r) PROVE FALSE
    BY <1>3
  <2>2. Len(r) <= Len(q)
    BY <1>2, <1>3
  <2>3. Cuts(q, r)
    BY <2>1, <2>2 DEF Cuts
  <2> QED
    BY <2>3, FlowCuts
<1>5. Full(q, g, m) => \A s \in Outputs : Len(g[s]) = m[s]
  <2>1. ASSUME NEW i \in 2..Len(q) PROVE FALSE
    <3>1. Len(q) = 1 /\ i \in Int /\ 2 <= i /\ i <= Len(q)
      BY <1>2
    <3> QED
      BY ONLY <3>1
  <2> QED
    BY <2>1 DEF Full, Reaches
<1> QED
  BY <1>2, <1>3, <1>4, <1>5

\* A chunk is read: it is the next one of its stream.
LEMMA FlowDropsChunk ==
  ASSUME NEW q \in Seq(Token), NEW r \in Seq(Token), Drops(q, r, 2), q[1].part # "whole",
         NEW g \in Gots, NEW m \in Sents, Flow(q, g, m),
         NEW gg, gg = [g EXCEPT ![q[1].tag] = Append(@, q[2].n)]
  PROVE  /\ q[1].tag \in Outputs /\ q[2].part = "body" /\ gg \in Gots
         /\ Flow(r, gg, m) /\ (Full(q, g, m) => Full(r, gg, m))
         /\ EndsInHeader(r) <=> EndsInHeader(q)
         /\ ExitIn(r) <=> ExitIn(q)
         /\ Len(r) > 0 => r[Len(r)] = q[Len(q)]
         /\ EndsInHeader(q) => Len(r) > 0
<1>1. /\ Len(q) \in Nat /\ 2 <= Len(q) /\ Len(r) = Len(q) - 2
      /\ \A i \in 1..Len(q) - 2 : r[i] = q[i + 2]
  BY DEF Drops
<1>2. Framed(r) /\ q[1].part = "header" /\ q[2].part = "body"
  BY FramedDrops DEF Flow
<1>3. 1 \in 1..Len(q) /\ 2 \in 1..Len(q) /\ q[1].tag \in Outputs /\ q[2].n \in Int
  BY <1>1, <1>2, TokenAt DEF Flow, DnShape
<1> DEFINE s == q[1].tag
           n == q[2].n
<1>4. /\ s \in Outputs /\ n \in Int /\ q[1].tag = s /\ q[2].n = n
      /\ gg = [g EXCEPT ![s] = Append(@, n)]
  BY <1>3
<1> HIDE DEF s, n
<1>5. /\ gg \in Gots /\ gg[s] = Append(g[s], n) /\ (\A t \in Outputs : t # s => gg[t] = g[t])
      /\ g[s] \in Seq(Int)
  BY <1>4 DEF Gots
<1>6. /\ Len(gg[s]) = Len(g[s]) + 1 /\ gg[s][Len(g[s]) + 1] = n /\ Len(g[s]) \in Nat
      /\ \A i \in 1..Len(g[s]) : gg[s][i] = g[s][i]
  BY <1>4, <1>5, AppendAt
<1>7. /\ Numbered(q, s, Len(g[s]), m[s]) /\ Len(g[s]) \in Int /\ m[s] \in Int /\ Counted(g[s])
  BY <1>4, LensAreInts DEF Flow
<1>8. /\ n = Len(g[s]) + 1 /\ Numbered(r, s, Len(g[s]) + 1, m[s])
      /\ Reaches(q, s, Len(g[s]), m[s]) => Reaches(r, s, Len(g[s]) + 1, m[s])
  BY <1>4, <1>7, NumberedReads DEF Flow
<1>9. Counted(gg[s])
  <2>1. DOMAIN gg[s] = 1..Len(g[s]) + 1 /\ DOMAIN g[s] = 1..Len(g[s])
    BY <1>4, <1>5, <1>6
  <2> QED
    BY <1>6, <1>7, <1>8, <2>1 DEF Counted
<1>10. ASSUME NEW t \in Outputs
       PROVE  /\ Counted(gg[t]) /\ Numbered(r, t, Len(gg[t]), m[t])
              /\ Reaches(q, t, Len(g[t]), m[t]) => Reaches(r, t, Len(gg[t]), m[t])
  <2>1. CASE t = s
    BY <1>6, <1>8, <1>9, <2>1
  <2>2. CASE t # s
    <3>1. /\ Numbered(q, t, Len(g[t]), m[t]) /\ Len(g[t]) \in Int /\ m[t] \in Int
          /\ Counted(g[t]) /\ gg[t] = g[t] /\ q[1].tag # t /\ Framed(q)
      BY <1>4, <1>5, <2>2, LensAreInts DEF Flow
    <3> QED
      BY <3>1, NumberedDrops
  <2> QED
    BY <2>1, <2>2
<1>11. DnShape(r)
  <2> SUFFICES ASSUME NEW i \in 1..Len(r)
               PROVE  /\ r[i].part = "header" => r[i].tag \in Outputs
                      /\ r[i].part = "whole" => r[i].tag = "exit" /\ i = Len(r)
    BY DEF DnShape
  <2>1. i + 2 \in 1..Len(q) /\ r[i] = q[i + 2] /\ (i + 2 = Len(q) => i = Len(r))
    BY <1>1
  <2> QED
    BY <2>1 DEF Flow, DnShape
<1>12. Flow(r, gg, m) /\ (Full(q, g, m) => Full(r, gg, m))
  BY <1>2, <1>10, <1>11 DEF Flow, Full
<1>13. /\ Len(r) > 0 => r[Len(r)] = q[Len(q)]
       /\ q[Len(q)].part # "body" => Len(r) > 0
  <2>1. Len(r) > 0 => Len(r) \in 1..Len(q) - 2 /\ Len(r) + 2 = Len(q)
    BY <1>1
  <2>2. Len(r) = 0 => Len(q) = 2
    BY <1>1
  <2>3. Len(r) \in Nat
    OBVIOUS
  <2> QED
    BY <1>1, <1>2, <2>1, <2>2, <2>3
<1> QED
  BY <1>1, <1>2, <1>3, <1>5, <1>12, <1>13 DEF EndsInHeader, ExitIn
----------------------------------------------------------------------------
(* The invariant of the way down.                                          *)

Down == dn1 \o dn2

\* How many chunks of each stream have been written whole, or into nothing.
Sent == [s \in Outputs |-> IF pump[s] = "body" THEN pumped[s] - 1 ELSE pumped[s]]

CanSend   == link # "cut" /\ brg # "done"
StatusNow == IF code = None THEN 127 ELSE StatusOf(code)

DownInv ==
  /\ dn1 \in Seq(Token) /\ dn2 \in Seq(Token) /\ got \in Gots
  /\ Flow(Down, got, Sent)
  /\ CanSend => \A s \in Outputs :
                   pump[s] = "body" <=> EndsInHeader(Down) /\ Down[Len(Down)].tag = s
  /\ CanSend \/ ExitIn(Down) => Full(Down, got, Sent)
  /\ ExitIn(Down) => exe = "closed" /\ Down[Len(Down)].n % 256 = StatusNow

StatusInv ==
  /\ status # None => prx = "exited"
  /\ status # None /\ status.by = "exit" =>
        /\ exe = "closed" /\ status.code = StatusNow
        /\ \A s \in Outputs : Len(got[s]) = wrote[s]

LEMMA SentType ==
  ASSUME Stage
  PROVE  Sent \in Sents /\ \A s \in Outputs : Sent[s] <= pumped[s]
BY DEF Stage, Sent, Sents

LEMMA DownType ==
  ASSUME DownInv
  PROVE  Down \in Seq(Token) /\ got \in Gots
BY ConcatAt DEF Down, DownInv

LEMMA DownInit == Init => DownInv /\ StatusInv
<1> SUFFICES ASSUME Init PROVE DownInv /\ StatusInv
  OBVIOUS
<1>1. /\ dn1 = <<>> /\ dn2 = <<>> /\ status = None /\ exe = "none"
      /\ pump = [s \in Outputs |-> "none"] /\ pumped = [s \in Outputs |-> 0]
      /\ got = [s \in Outputs |-> <<>>]
  BY DEF Init
<1>2. dn1 \in Seq(Token) /\ dn2 \in Seq(Token) /\ got \in Gots
  BY <1>1 DEF Gots
<1>3. Down \in Seq(Token) /\ Len(Down) = 0
  BY <1>1, <1>2, ConcatAt DEF Down
<1>4. \A s \in Outputs : got[s] = <<>> /\ Len(got[s]) = 0 /\ Sent[s] = 0 /\ pump[s] = "none"
  BY <1>1 DEF Sent
<1>5. ~EndsInHeader(Down) /\ ~ExitIn(Down)
  BY <1>3 DEF EndsInHeader, ExitIn
<1>6. (\A i \in 1..Len(Down) : FALSE) /\ (\A i \in 2..Len(Down) : FALSE)
      /\ \A i \in 1..Len(Down) - 1 : FALSE
  BY <1>3
<1>7. Framed(Down) /\ DnShape(Down)
  BY <1>3, <1>6 DEF Framed, DnShape
<1>8. ASSUME NEW s \in Outputs
      PROVE  Counted(got[s]) /\ Numbered(Down, s, Len(got[s]), Sent[s])
             /\ Reaches(Down, s, Len(got[s]), Sent[s])
  BY <1>4, <1>6 DEF Counted, Numbered, Reaches
<1> QED
  BY <1>1, <1>2, <1>4, <1>5, <1>7, <1>8 DEF DownInv, StatusInv, Flow, Full

\* Once serveExec has returned, the group and all it wrote are accounted for.
LEMMA ClosedFacts ==
  ASSUME Stage, exe = "closed"
  PROVE  /\ GroupEnded
         /\ \A s \in Outputs : /\ pump[s] \in {"none", "done"} /\ pumped[s] = wrote[s]
                               /\ Sent[s] = wrote[s]
<1>1. "stdout" \in Outputs
  BY DEF Outputs
<1>2. CASE proc["leader"] = "none"
  <2>1. GroupEnded
    BY <1>2, GroupFacts DEF Stage
  <2>2. \A s \in Outputs : pump[s] = "none" /\ wrote[s] = 0 /\ pumped[s] \in Nat
                           /\ pumped[s] <= wrote[s]
    BY <1>2 DEF Stage
  <2> QED
    BY <2>1, <2>2 DEF Sent
<1>3. CASE proc["leader"] = "dead" /\ PumpsDone
  <2>1. \A s \in Outputs : pump[s] = "done"
    BY <1>3 DEF PumpsDone
  <2>2. GroupEnded /\ \A s \in Outputs : pumped[s] = wrote[s]
    BY <1>1, <2>1 DEF Stage
  <2> QED
    BY <2>1, <2>2 DEF Sent
<1> QED
  BY <1>2, <1>3 DEF Stage

LEMMA ClosedStays ==
  ASSUME Stage, Opened, [Next]_vars, exe = "closed"
  PROVE  exe' = "closed" /\ StatusNow' = StatusNow /\ wrote' = wrote
<1> USE DEF vars, parentVars, proxyVars, bridgeVars, execVars, childVars
<1>1. GroupEnded /\ proc["leader"] # "run" /\ \A p \in Procs : proc[p] # "run"
  BY ClosedFacts, GroupFacts DEF GroupEnded, Running
<1> SUFFICES exe' = "closed" /\ code' = code /\ wrote' = wrote
  BY DEF StatusNow, StatusOf
<1>2. CASE UNCHANGED <<exe, code, wrote>>
  BY <1>2
<1>3. CASE BridgeStep
  BY <1>3 DEF BridgeStep, BridgeDial, BridgeCloses, Opened
<1>4. CASE ExecStep
  BY <1>4 DEF ExecStep, ReadSpawn, ReadSpawnFails, Reap, SendExit
<1>5. CASE ControlStep
  BY <1>1, <1>5 DEF ControlStep, Control, WriteStdin, ControlEnds, Running
<1>6. CASE \E s \in Outputs : PumpStep(s) \/ ChildWrites(s)
  BY <1>1, <1>6 DEF PumpStep, PumpOut, PumpBody, PumpEnds, ChildWrites
<1>7. CASE Fork \/ ChildReads \/ \E p \in Procs : ProcExits(p)
  BY <1>1, <1>7 DEF Fork, ChildReads, ProcExits, Running
<1>8. CASE Type \/ CloseStdin \/ Signal \/ KillProxy \/ ProxyStep \/ ForwardSignal
           \/ StdinStep \/ UpStep \/ DownStep \/ Cut \/ UNCHANGED vars
  BY <1>2, <1>8 DEF Type, CloseStdin, Signal, KillProxy, ProxyStep, Dial, SendSpawn, Notify,
    MainFrame, MainEof, ForwardSignal, StdinStep, PumpStdin, PumpStdinBody, UpStep, CopyUp,
    CopyUpEnds, DownStep, CopyDown, CopyDownEnds, Cut
<1> QED
  BY <1>3, <1>4, <1>5, <1>6, <1>7, <1>8 DEF Next

\* Nothing enters the queue or leaves it.
LEMMA DownQuiet ==
  ASSUME Stage, DownInv, exe = "closed" => exe' = "closed" /\ StatusNow' = StatusNow,
         dn1' \in Seq(Token), dn2' \in Seq(Token), Same(Down, Down'), got' = got, Sent' = Sent,
         CanSend' => CanSend /\ \A s \in Outputs : pump'[s] = "body" <=> pump[s] = "body"
  PROVE  DownInv'
<1>1. Down \in Seq(Token) /\ Down' \in Seq(Token) /\ got \in Gots /\ Sent \in Sents
  BY ConcatAt, DownType, SentType DEF Down
<1>2. /\ Flow(Down', got, Sent) /\ (Full(Down, got, Sent) => Full(Down', got, Sent))
      /\ Len(Down') = Len(Down) /\ (Len(Down) > 0 => Down'[Len(Down')] = Down[Len(Down)])
  BY <1>1, FlowSame DEF DownInv
<1>3. /\ EndsInHeader(Down') <=> EndsInHeader(Down)
      /\ ExitIn(Down') <=> ExitIn(Down)
  BY <1>2 DEF EndsInHeader, ExitIn
<1>4. CanSend' => \A s \in Outputs :
         pump'[s] = "body" <=> EndsInHeader(Down') /\ Down'[Len(Down')].tag = s
  BY <1>2, <1>3 DEF DownInv, EndsInHeader
<1>5. CanSend' \/ ExitIn(Down') => Full(Down', got, Sent)
  BY <1>2, <1>3 DEF DownInv
<1>6. ExitIn(Down') => exe' = "closed" /\ Down'[Len(Down')].n % 256 = StatusNow'
  BY <1>2, <1>3 DEF DownInv, ExitIn
<1> QED
  BY <1>1, <1>2, <1>4, <1>5, <1>6 DEF DownInv

LEMMA DownStays ==
  ASSUME Stage, DownInv, exe = "closed" => exe' = "closed" /\ StatusNow' = StatusNow,
         UNCHANGED <<dn1, dn2, got>>, Sent' = Sent,
         CanSend' => CanSend /\ \A s \in Outputs : pump'[s] = "body" <=> pump[s] = "body"
  PROVE  DownInv'
<1>1. Down' = Down /\ dn1' \in Seq(Token) /\ dn2' \in Seq(Token)
  BY DEF Down, DownInv
<1>2. Same(Down, Down')
  BY <1>1 DEF Same
<1> QED
  BY <1>1, <1>2, DownQuiet

\* A write: the token is added, or nothing happens because the stream is gone.
LEMMA StreamWriteEffect ==
  ASSUME DownInv, NEW e \in Token, StreamWrite(e), dn1' = dn1
  PROVE  /\ dn1' \in Seq(Token) /\ dn2' \in Seq(Token) /\ Down' \in Seq(Token)
         /\ IF CanSend THEN Adds(Down, Down', e) ELSE dn2' = dn2
<1>1. CASE CanSend
  <2>1. dn2' = Append(dn2, e)
    BY <1>1 DEF CanSend, StreamWrite
  <2>2. dn2' \in Seq(Token) /\ Adds(Down, Down', e)
    BY <2>1, AddEffect DEF Down, DownInv
  <2> QED
    BY <1>1, <2>2, ConcatAt DEF Down, DownInv
<1>2. CASE ~CanSend
  BY <1>2, ConcatAt DEF Down, DownInv, CanSend, StreamWrite
<1> QED
  BY <1>1, <1>2

LEMMA TokenTypes ==
  /\ \A s \in Outputs : Hdr(s) \in Token
  /\ \A n \in Int : Body(n) \in Token /\ Whole("exit", n) \in Token
BY DEF Token, Hdr, Body, Whole, Outputs

LEMMA DownCopyDown ==
  ASSUME Stage, DownInv, Opened, CopyDown
  PROVE  DownInv'
<1>1. /\ dn2 # <<>> /\ dn1' = Append(dn1, Head(dn2)) /\ dn2' = Tail(dn2)
      /\ UNCHANGED <<got, exe, code, pump, pumped, link, brg>>
  BY DEF CopyDown, parentVars, proxyVars, bridgeVars, execVars, childVars
<1>2. dn1' \in Seq(Token) /\ dn2' \in Seq(Token) /\ Same(Down, Down')
  BY <1>1, MoveEffect DEF Down, DownInv
<1>3. Sent' = Sent /\ CanSend' = CanSend /\ StatusNow' = StatusNow
  BY <1>1 DEF Sent, CanSend, StatusNow, StatusOf
<1> QED
  BY <1>1, <1>2, <1>3, DownQuiet

LEMMA DownBreaks ==
  ASSUME Stage, DownInv, Opened, Cut
  PROVE  DownInv'
<1>1. /\ dn1' = dn1 /\ link' = "cut"
      /\ UNCHANGED <<got, exe, code, pump, pumped>>
  BY DEF Cut, parentVars, proxyVars, bridgeVars, execVars, childVars
<1>2. PICK k \in 0..Len(dn2) : dn2' = SubSeq(dn2, 1, k)
  BY DEF Cut
<1>3. dn1' \in Seq(Token) /\ dn2' \in Seq(Token) /\ Cuts(Down, Down')
  BY <1>1, <1>2, CutEffect DEF Down, DownInv
<1>4. Sent' = Sent /\ ~CanSend' /\ StatusNow' = StatusNow
  BY <1>1 DEF Sent, CanSend, StatusNow, StatusOf
<1>5. Down \in Seq(Token) /\ Down' \in Seq(Token) /\ got \in Gots /\ Sent \in Sents
  BY <1>3, ConcatAt, DownType, SentType DEF Down
<1>6. /\ Flow(Down', got, Sent)
      /\ ExitIn(Down') => Len(Down') = Len(Down) /\ Down'[Len(Down')] = Down[Len(Down)]
  BY <1>3, <1>5, FlowCuts DEF DownInv
<1>7. ExitIn(Down') => ExitIn(Down)
  BY <1>6 DEF ExitIn
<1>8. ExitIn(Down') => exe' = "closed" /\ Down'[Len(Down')].n % 256 = StatusNow'
  BY <1>1, <1>4, <1>6, <1>7 DEF DownInv
<1>9. ExitIn(Down') => Full(Down', got, Sent)
  <2> SUFFICES ASSUME ExitIn(Down') PROVE Full(Down', got, Sent)
    OBVIOUS
  <2>1. Same(Down, Down')
    BY <1>3, <1>6 DEF Cuts, Same
  <2> QED
    BY <1>5, <1>7, <2>1, FlowSame DEF DownInv
<1> QED
  BY <1>1, <1>3, <1>4, <1>5, <1>6, <1>8, <1>9 DEF DownInv

LEMMA DownPumpOut ==
  ASSUME Stage, Stage', DownInv, Opened, NEW s \in Outputs, PumpOut(s)
  PROVE  DownInv'
<1>1. /\ pump[s] = "read" /\ (\A t \in Outputs : pump[t] # "body") /\ StreamWrite(Hdr(s))
      /\ pumped' = [pumped EXCEPT ![s] = @ + 1] /\ pump' = [pump EXCEPT ![s] = "body"]
      /\ UNCHANGED <<got, dn1, exe, code, link, brg>>
  BY DEF PumpOut, ExecUnlocked, parentVars, proxyVars, bridgeVars, childVars
<1>2. /\ pump'[s] = "body" /\ pumped'[s] = pumped[s] + 1 /\ pumped[s] \in Int
      /\ \A t \in Outputs : t # s => pump'[t] = pump[t] /\ pumped'[t] = pumped[t]
  BY <1>1 DEF Stage
<1>3. Sent' = Sent
  <2>1. \A t \in Outputs : (IF pump'[t] = "body" THEN pumped'[t] - 1 ELSE pumped'[t])
                           = (IF pump[t] = "body" THEN pumped[t] - 1 ELSE pumped[t])
    BY <1>1, <1>2
  <2> QED
    BY <2>1 DEF Sent
<1>4. exe # "closed" /\ exe' # "closed"
  BY <1>1, ClosedFacts
<1>5. /\ dn1' \in Seq(Token) /\ dn2' \in Seq(Token) /\ Down' \in Seq(Token) /\ Hdr(s) \in Token
      /\ IF CanSend THEN Adds(Down, Down', Hdr(s)) ELSE dn2' = dn2
  BY <1>1, TokenTypes, StreamWriteEffect
<1>6. CanSend' = CanSend
  BY <1>1 DEF CanSend
<1>7. CASE ~CanSend
  BY <1>1, <1>3, <1>4, <1>5, <1>6, <1>7, DownStays
<1>8. CASE CanSend
  <2>1. Down \in Seq(Token) /\ got \in Gots /\ Sent \in Sents
    BY DownType, SentType
  <2>2. ~EndsInHeader(Down)
    <3> SUFFICES ASSUME EndsInHeader(Down) PROVE FALSE
      OBVIOUS
    <3>1. Len(Down) \in 1..Len(Down) /\ Down[Len(Down)].part = "header"
      BY <2>1 DEF EndsInHeader
    <3>2. Down[Len(Down)].tag \in Outputs
      BY <3>1 DEF DownInv, Flow, DnShape
    <3> QED
      BY <1>1, <1>8, <3>2 DEF DownInv
  <2>3. ~ExitIn(Down)
    BY <1>4 DEF DownInv
  <2>4. Hdr(s).part = "header" /\ Hdr(s).tag = s
    BY DEF Hdr
  <2>5. /\ Flow(Down', got, Sent) /\ (Full(Down, got, Sent) => Full(Down', got, Sent))
        /\ Len(Down') > 0 /\ Down'[Len(Down')] = Hdr(s)
    BY <1>5, <1>8, <2>1, <2>2, <2>3, <2>4, FlowAdds DEF DownInv
  <2>6. Full(Down', got, Sent)
    BY <1>8, <2>5 DEF DownInv
  <2>7. EndsInHeader(Down') /\ ~ExitIn(Down')
    BY <2>4, <2>5 DEF EndsInHeader, ExitIn
  <2>8. \A t \in Outputs : pump'[t] = "body" <=> Down'[Len(Down')].tag = t
    BY <1>1, <1>2, <2>4, <2>5
  <2> QED
    BY <1>1, <1>3, <1>5, <2>1, <2>5, <2>6, <2>7, <2>8 DEF DownInv
<1> QED
  BY <1>7, <1>8

LEMMA DownPumpBody ==
  ASSUME Stage, Stage', DownInv, Opened, NEW s \in Outputs, PumpBody(s)
  PROVE  DownInv'
<1>1. /\ pump[s] = "body" /\ StreamWrite(Body(pumped[s]))
      /\ pump' = [pump EXCEPT ![s] = "read"]
      /\ UNCHANGED <<got, dn1, exe, code, link, brg, pumped>>
  BY DEF PumpBody, parentVars, proxyVars, bridgeVars, childVars
<1>2. /\ pump'[s] = "read" /\ pumped[s] \in Int
      /\ (\A t \in Outputs : t # s => pump'[t] = pump[t] /\ pump[t] # "body")
  BY <1>1 DEF Stage
<1>3. /\ Sent'[s] = pumped[s] /\ Sent'[s] = Sent[s] + 1
      /\ \A t \in Outputs : t # s => Sent'[t] = Sent[t]
  BY <1>1, <1>2 DEF Sent
<1>4. exe # "closed" /\ exe' # "closed"
  BY <1>1, ClosedFacts
<1>5. /\ dn1' \in Seq(Token) /\ dn2' \in Seq(Token) /\ Down' \in Seq(Token)
      /\ IF CanSend THEN Adds(Down, Down', Body(pumped[s])) ELSE dn2' = dn2
  BY <1>1, <1>2, TokenTypes, StreamWriteEffect
<1>6. CanSend' = CanSend /\ ~ExitIn(Down)
  BY <1>1, <1>4 DEF CanSend, DownInv
<1>7. Down \in Seq(Token) /\ got \in Gots /\ Sent \in Sents /\ Sent' \in Sents
  <2>1. Sent' \in Sents
    BY DEF Stage, Sent, Sents
  <2> QED
    BY <2>1, DownType, SentType
<1>8. CASE ~CanSend
  <2>1. Down' = Down
    BY <1>1, <1>5, <1>8 DEF Down
  <2>2. Flow(Down, got, Sent')
    BY <1>3, <1>7, FlowGrows DEF DownInv
  <2> QED
    BY <1>1, <1>5, <1>6, <1>7, <1>8, <2>1, <2>2 DEF DownInv
<1>9. CASE CanSend
  <2>1. EndsInHeader(Down) /\ Down[Len(Down)].tag = s /\ Full(Down, got, Sent)
    BY <1>1, <1>9 DEF DownInv
  <2>2. Adds(Down, Down', Body(Sent'[s])) /\ Flow(Down, got, Sent)
    BY <1>3, <1>5, <1>9 DEF DownInv
  <2>3. /\ Flow(Down', got, Sent') /\ Full(Down', got, Sent')
        /\ Len(Down') > 0 /\ Down'[Len(Down')] = Body(Sent'[s])
    BY <1>3, <1>5, <1>7, <2>1, <2>2, FlowAddsBody
  <2>4. ~EndsInHeader(Down') /\ ~ExitIn(Down')
    BY <2>3 DEF EndsInHeader, ExitIn, Body
  <2>5. \A t \in Outputs : pump'[t] # "body"
    BY <1>2
  <2> QED
    BY <1>1, <1>5, <1>7, <2>3, <2>4, <2>5 DEF DownInv
<1> QED
  BY <1>8, <1>9

\* The exit frame is written: by SendExit, or by ReadSpawn when nothing starts.
LEMMA DownExit ==
  ASSUME Stage, DownInv, NEW n \in Int, StreamWrite(Whole("exit", n)), n % 256 = StatusNow,
         \A s \in Outputs : pump[s] # "body",
         exe # "closed", exe' = "closed", UNCHANGED <<got, dn1, code, link, brg, pump, pumped>>
  PROVE  DownInv'
<1>1. Sent' = Sent /\ CanSend' = CanSend /\ StatusNow' = StatusNow
  BY DEF Sent, CanSend, StatusNow, StatusOf
<1> DEFINE e == Whole("exit", n)
<1>2. e \in Token /\ e.part = "whole" /\ e.tag = "exit" /\ e.n = n
  BY TokenTypes DEF Whole
<1> HIDE DEF e
<1>3. /\ dn1' \in Seq(Token) /\ dn2' \in Seq(Token) /\ Down' \in Seq(Token)
      /\ IF CanSend THEN Adds(Down, Down', e) ELSE dn2' = dn2
  BY <1>2, StreamWriteEffect DEF e
<1>4. CASE ~CanSend
  BY <1>1, <1>3, <1>4, DownStays
<1>5. CASE CanSend
  <2>1. Down \in Seq(Token) /\ got \in Gots /\ Sent \in Sents
    BY DownType, SentType
  <2>2. ~EndsInHeader(Down)
    <3> SUFFICES ASSUME EndsInHeader(Down) PROVE FALSE
      OBVIOUS
    <3>1. Len(Down) \in 1..Len(Down) /\ Down[Len(Down)].part = "header"
      BY <2>1 DEF EndsInHeader
    <3>2. Down[Len(Down)].tag \in Outputs
      BY <3>1 DEF DownInv, Flow, DnShape
    <3> QED
      BY <1>5, <3>2 DEF DownInv
  <2>3. ~ExitIn(Down)
    BY DEF DownInv
  <2>4. /\ Flow(Down', got, Sent) /\ (Full(Down, got, Sent) => Full(Down', got, Sent))
        /\ Len(Down') > 0 /\ Down'[Len(Down')] = e
    BY <1>2, <1>3, <1>5, <2>1, <2>2, <2>3, FlowAdds DEF DownInv
  <2>5. Full(Down', got, Sent)
    BY <1>5, <2>4 DEF DownInv
  <2>6. ~EndsInHeader(Down')
    BY <1>2, <2>4 DEF EndsInHeader
  <2>7. Down'[Len(Down')].n % 256 = StatusNow'
    BY <1>1, <1>2, <2>4
  <2> QED
    BY <1>1, <1>3, <2>1, <2>4, <2>5, <2>6, <2>7 DEF DownInv
<1> QED
  BY <1>4, <1>5

LEMMA DownMainFrame ==
  ASSUME Stage, DownInv, StatusInv, MainFrame
  PROVE  DownInv' /\ StatusInv'
<1> DEFINE f == Frame(dn1)
<1>1. /\ prx = "run" /\ HasFrame(dn1) /\ dn1' = Rest(dn1)
      /\ got' = IF f.tag \in Outputs THEN [got EXCEPT ![f.tag] = Append(@, f.n)] ELSE got
      /\ IF f.tag = "exit" THEN prx' = "exited" /\ status' = [by |-> "exit", code |-> f.n % 256]
                           ELSE UNCHANGED <<prx, status>>
      /\ UNCHANGED <<dn2, exe, code, link, brg, pump, pumped, wrote>>
  BY DEF MainFrame, ProxyExits, ExitStatus, parentVars, bridgeVars, execVars, childVars
<1>2. dn1 \in Seq(Token) /\ dn2 \in Seq(Token) /\ dn2' \in Seq(Token)
  BY <1>1 DEF DownInv
<1>3. /\ Len(dn1) \in Nat \ {0} /\ dn1' \in Seq(Token)
      /\ \/ dn1[1].part = "whole" /\ f = dn1[1] /\ Drops(dn1, dn1', 1)
         \/ /\ dn1[1].part # "whole" /\ Len(dn1) > 1 /\ Drops(dn1, dn1', 2)
            /\ f.tag = dn1[1].tag
            /\ dn1[2].part = "body" => f.n = dn1[2].n
  BY <1>1, <1>2, FrameEffect
<1> HIDE DEF f
<1>4. Sent' = Sent /\ CanSend' = CanSend /\ StatusNow' = StatusNow
  BY <1>1 DEF Sent, CanSend, StatusNow, StatusOf
<1>5. Down \in Seq(Token) /\ Down' \in Seq(Token) /\ got \in Gots /\ Sent \in Sents
  BY <1>2, <1>3, ConcatAt, DownType, SentType DEF Down
<1>6. Down[1] = dn1[1] /\ (Len(dn1) > 1 => Down[2] = dn1[2])
  <2>1. 1 \in 1..Len(dn1) /\ (Len(dn1) > 1 => 2 \in 1..Len(dn1))
    BY <1>3
  <2> QED
    BY <1>2, <2>1, ConcatAt DEF Down
<1>7. \A k \in 1..2 : Drops(dn1, dn1', k) => Drops(Down, Down', k)
  BY <1>1, <1>2, <1>3, DropEffect DEF Down
<1>8. Flow(Down, got, Sent)
  BY DEF DownInv
<1>9. CASE dn1[1].part = "whole" /\ f = dn1[1] /\ Drops(dn1, dn1', 1)
  <2>1. Drops(Down, Down', 1) /\ Down[1].part = "whole"
    BY <1>6, <1>7, <1>9
  <2>2. /\ Len(Down) = 1 /\ ExitIn(Down) /\ Down[1].tag = "exit"
        /\ Flow(Down', got, Sent) /\ Len(Down') = 0
        /\ Full(Down, got, Sent) => \A s \in Outputs : Len(got[s]) = Sent[s]
    BY <1>5, <1>8, <2>1, FlowDropsExit
  <2>3. /\ exe = "closed" /\ Down[1].n % 256 = StatusNow
        /\ \A s \in Outputs : Len(got[s]) = Sent[s]
    BY <2>2 DEF DownInv
  <2>4. f.tag = "exit" /\ f.n = Down[1].n
    BY <1>6, <1>9, <2>2
  <2>5. got' = got /\ status' = [by |-> "exit", code |-> f.n % 256] /\ prx' = "exited"
    BY <1>1, <2>4 DEF Outputs
  <2>6. \A s \in Outputs : pump'[s] # "body" /\ Sent[s] = wrote[s]
    BY <1>1, <2>3, ClosedFacts
  <2>7. ~EndsInHeader(Down') /\ ~ExitIn(Down')
    BY <2>2 DEF EndsInHeader, ExitIn
  <2>8. Full(Down', got', Sent')
    BY <1>4, <2>3, <2>5 DEF Full, Reaches
  <2>9. DownInv'
    BY <1>2, <1>3, <1>4, <1>5, <2>2, <2>5, <2>6, <2>7, <2>8 DEF DownInv
  <2>10. StatusInv'
    BY <1>1, <1>4, <2>3, <2>4, <2>5, <2>6 DEF StatusInv
  <2> QED
    BY <2>9, <2>10
<1>10. CASE /\ dn1[1].part # "whole" /\ Len(dn1) > 1 /\ Drops(dn1, dn1', 2)
            /\ f.tag = dn1[1].tag /\ (dn1[2].part = "body" => f.n = dn1[2].n)
  <2>1. Drops(Down, Down', 2) /\ Down[1].part # "whole" /\ f.tag = Down[1].tag
        /\ (Down[2].part = "body" => f.n = Down[2].n)
    BY <1>6, <1>7, <1>10
  <2> DEFINE gg == [got EXCEPT ![Down[1].tag] = Append(@, Down[2].n)]
  <2>2. /\ Down[1].tag \in Outputs /\ Down[2].part = "body" /\ gg \in Gots
        /\ Flow(Down', gg, Sent) /\ (Full(Down, got, Sent) => Full(Down', gg, Sent))
        /\ EndsInHeader(Down') <=> EndsInHeader(Down)
        /\ ExitIn(Down') <=> ExitIn(Down)
        /\ Len(Down') > 0 => Down'[Len(Down')] = Down[Len(Down)]
        /\ EndsInHeader(Down) => Len(Down') > 0
    BY <1>5, <1>8, <2>1, FlowDropsChunk
  <2>3. got' = gg /\ f.tag # "exit"
    BY <1>1, <2>1, <2>2 DEF Outputs
  <2> HIDE DEF gg
  <2>4. ExitIn(Down') => Len(Down') > 0
    BY DEF ExitIn
  <2>5. CanSend' => \A s \in Outputs :
           pump'[s] = "body" <=> EndsInHeader(Down') /\ Down'[Len(Down')].tag = s
    BY <1>1, <1>4, <2>2 DEF DownInv
  <2>6. CanSend' \/ ExitIn(Down') => Full(Down', got', Sent')
    BY <1>4, <2>2, <2>3 DEF DownInv
  <2>7. ExitIn(Down') => exe' = "closed" /\ Down'[Len(Down')].n % 256 = StatusNow'
    BY <1>1, <1>4, <2>2, <2>4 DEF DownInv
  <2>8. DownInv'
    BY <1>2, <1>3, <1>4, <2>2, <2>3, <2>5, <2>6, <2>7 DEF DownInv
  <2>9. StatusInv'
    BY <1>1, <2>3 DEF StatusInv
  <2> QED
    BY <2>8, <2>9
<1> QED
  BY <1>3, <1>9, <1>10

\* What no step but MainFrame does: the proxy's exit by an exit frame.
LEMMA StatusStep ==
  ASSUME Stage, Opened, StatusInv, [Next]_vars, ~MainFrame
  PROVE  StatusInv'
<1> USE DEF vars, parentVars, proxyVars, bridgeVars, execVars, childVars
<1>1. exe = "closed" => exe' = "closed" /\ StatusNow' = StatusNow /\ wrote' = wrote
  BY ClosedStays
<1>2. CASE UNCHANGED <<prx, status, got>>
  BY <1>1, <1>2 DEF StatusInv
<1>3. CASE got' = got /\ prx # "exited" /\ prx' = "exited" /\ status'.by # "exit"
  BY <1>3 DEF StatusInv
<1>4. CASE Signal \/ KillProxy
  <2>1. \A b, n : ProxyExits(b, n) => prx' = "exited" /\ status'.by = b
    BY DEF ProxyExits
  <2> QED
    BY <1>2, <1>3, <1>4, <2>1 DEF Signal, KillProxy
<1>5. CASE Dial \/ SendSpawn \/ Notify \/ MainEof
  <2>1. \A b, n : ProxyExits(b, n) => prx' = "exited" /\ status'.by = b
    BY DEF ProxyExits
  <2>2. CASE Dial
    BY <1>3, <2>1, <2>2 DEF Dial, StatusInv
  <2>3. CASE SendSpawn
    BY <1>3, <2>1, <2>3 DEF SendSpawn, StatusInv
  <2>4. CASE Notify
    BY <2>4 DEF Notify, StatusInv
  <2>5. CASE MainEof
    BY <1>3, <2>1, <2>5 DEF MainEof
  <2> QED
    BY <1>5, <2>2, <2>3, <2>4, <2>5
<1>6. CASE Type \/ CloseStdin \/ ForwardSignal \/ StdinStep \/ BridgeStep \/ UpStep \/ DownStep
           \/ Cut \/ ExecStep \/ ControlStep
  BY <1>2, <1>6 DEF Type, CloseStdin, ForwardSignal, StdinStep, PumpStdin, PumpStdinBody,
    BridgeStep, BridgeDial, BridgeCloses, UpStep, CopyUp, CopyUpEnds, DownStep, CopyDown,
    CopyDownEnds, Cut, ExecStep, ReadSpawn, ReadSpawnFails, Reap, SendExit, ControlStep,
    Control, WriteStdin, ControlEnds
<1>7. CASE ChildReads \/ Fork \/ (\E s \in Outputs : PumpStep(s) \/ ChildWrites(s))
           \/ (\E p \in Procs : ProcExits(p)) \/ UNCHANGED vars
  BY <1>2, <1>7 DEF ChildReads, Fork, PumpStep, PumpOut, PumpBody, PumpEnds, ChildWrites,
    ProcExits
<1> QED
  BY <1>4, <1>5, <1>6, <1>7 DEF Next, ProxyStep

\* The code of a leader that a signal killed, as the proxy's status.
LEMMA MinusOne == ASSUME NEW c \in Int, c + 1 = 0 PROVE c % 256 = 255
OBVIOUS

LEMMA DownInvStep ==
  ASSUME BoundsAssumption, Stage, Stage', Opened, DownInv, [Next]_vars, ~MainFrame
  PROVE  DownInv'
<1> USE DEF vars, parentVars, proxyVars, bridgeVars, execVars, childVars
<1>1. exe = "closed" => exe' = "closed" /\ StatusNow' = StatusNow
  BY ClosedStays
<1>3. ASSUME UNCHANGED <<dn1, dn2, got, pump, pumped>>, CanSend' => CanSend
      PROVE  DownInv'
  <2>1. Sent' = Sent /\ \A s \in Outputs : pump'[s] = "body" <=> pump[s] = "body"
    BY <1>3 DEF Sent
  <2> QED
    BY <1>1, <1>3, <2>1, DownStays
<1>4. CASE CopyDown \/ Cut
  BY <1>4, DownCopyDown, DownBreaks
<1>5. ASSUME NEW s \in Outputs, PumpStep(s)
      PROVE  DownInv'
  <2>1. CASE PumpEnds(s)
    <3>1. /\ pump[s] = "read" /\ pump' = [pump EXCEPT ![s] = "done"]
          /\ UNCHANGED <<pumped, dn1, dn2, got, link, brg>>
      BY <2>1 DEF PumpEnds
    <3>2. \A t \in Outputs : pump'[t] = "body" <=> pump[t] = "body"
      BY <3>1 DEF Stage
    <3>3. Sent' = Sent /\ CanSend' = CanSend
      BY <3>1, <3>2 DEF Sent, CanSend
    <3> QED
      BY <1>1, <3>1, <3>2, <3>3, DownStays
  <2> QED
    BY <1>5, <2>1, DownPumpOut, DownPumpBody DEF PumpStep
<1>6. CASE ReadSpawn
  <2>1. /\ exe = "header" /\ UNCHANGED <<got, dn1, link, brg, pumped, code>>
        /\ \/ pump' = [s \in Outputs |-> "read"] /\ UNCHANGED dn2
           \/ exe' = "closed" /\ UNCHANGED pump /\ StreamWrite(Whole("exit", 127))
    BY <1>6 DEF ReadSpawn
  <2>2. /\ \A s \in Outputs : pump[s] = "none"
        /\ code = None
    BY <2>1 DEF Stage
  <2>3. CASE pump' = [s \in Outputs |-> "read"] /\ UNCHANGED dn2
    <3>1. Sent' = Sent /\ CanSend' = CanSend
          /\ \A s \in Outputs : pump'[s] = "body" <=> pump[s] = "body"
      BY <2>1, <2>2, <2>3 DEF Sent, CanSend
    <3> QED
      BY <1>1, <2>1, <2>3, <3>1, DownStays
  <2>4. CASE exe' = "closed" /\ UNCHANGED pump /\ StreamWrite(Whole("exit", 127))
    <3>1. 127 \in Int /\ 127 % 256 = StatusNow
      BY <2>2 DEF StatusNow
    <3> QED
      BY <2>1, <2>2, <2>4, <3>1, DownExit
  <2> QED
    BY <2>1, <2>3, <2>4
<1>7. CASE SendExit
  <2>1. /\ exe = "exiting" /\ exe' = "closed" /\ StreamWrite(Whole("exit", code))
        /\ UNCHANGED <<got, dn1, link, brg, pump, pumped, code>>
        /\ \A s \in Outputs : pump[s] # "body"
    BY <1>7 DEF SendExit, ExecUnlocked
  <2>2. code \in Codes \cup {-1}
    BY <2>1 DEF Stage
  <2>3. code \in Int /\ code % 256 = StatusNow
    <3>1. code # None /\ (code \in 0..255 \/ code = -1)
      BY <2>2 DEF BoundsAssumption
    <3>2. StatusNow = IF code = -1 THEN 255 ELSE code
      BY <3>1 DEF StatusNow, StatusOf
    <3>2a. CASE code = -1
      <4>1. code \in Int /\ code + 1 = 0
        BY <3>2a
      <4>2. code % 256 = 255
        BY <4>1, MinusOne
      <4> QED
        BY <3>2, <3>2a, <4>1, <4>2
    <3>2b. CASE code \in 0..255
      BY <3>2, <3>2b
    <3> QED
      BY <3>1, <3>2a, <3>2b
  <2> QED
    BY <2>1, <2>3, DownExit
<1>8. CASE BridgeStep \/ Dial \/ SendSpawn \/ Notify \/ MainEof
  <2>1. UNCHANGED <<dn1, dn2, got, pump, pumped>>
    BY <1>8 DEF BridgeStep, BridgeDial, BridgeCloses, Dial, SendSpawn, Notify, MainEof
  <2>2. CanSend' => CanSend
    BY <1>8 DEF BridgeStep, BridgeDial, BridgeCloses, Dial, SendSpawn, Notify, MainEof,
      CanSend, Opened
  <2> QED
    BY <1>3, <2>1, <2>2
<1>9. ASSUME UNCHANGED <<dn1, dn2, got, pump, pumped, link, brg>>
      PROVE  DownInv'
  BY <1>3, <1>9 DEF CanSend
<1>10. CASE Type \/ CloseStdin \/ Signal \/ KillProxy \/ ForwardSignal \/ StdinStep \/ UpStep
            \/ CopyDownEnds
  BY <1>9, <1>10 DEF Type, CloseStdin, Signal, KillProxy, ForwardSignal, StdinStep, PumpStdin,
    PumpStdinBody, UpStep, CopyUp, CopyUpEnds, CopyDownEnds
<1>11. CASE ReadSpawnFails \/ Reap \/ ControlStep \/ ChildReads \/ Fork
            \/ (\E s \in Outputs : ChildWrites(s)) \/ (\E p \in Procs : ProcExits(p))
            \/ UNCHANGED vars
  BY <1>9, <1>11 DEF ReadSpawnFails, Reap, ControlStep, Control, WriteStdin, ControlEnds,
    ChildReads, Fork, ChildWrites, ProcExits
<1> QED
  BY <1>4, <1>5, <1>6, <1>7, <1>8, <1>10, <1>11 DEF Next, ProxyStep, DownStep, ExecStep

LEMMA DownInvariant == Spec => [](Stage /\ Opened /\ DownInv /\ StatusInv)
<1>1. Init => Stage /\ Opened /\ DownInv /\ StatusInv
  <2>1. Init => Opened
    BY DEF Init, Opened
  <2> QED
    BY <2>1, StageInit, DownInit
<1>2. ASSUME Stage, Opened, DownInv, StatusInv, [Next]_vars
      PROVE  Stage' /\ Opened' /\ DownInv' /\ StatusInv'
  <2>1. Stage' /\ Opened'
    BY <1>2, BoundsAssumption, StageStep, OpenedStep
  <2>2. CASE MainFrame
    BY <1>2, <2>1, <2>2, DownMainFrame
  <2>3. CASE ~MainFrame
    BY <1>2, <2>1, <2>3, BoundsAssumption, DownInvStep, StatusStep
  <2> QED
    BY <2>1, <2>2, <2>3
<1> QED
  BY <1>1, <1>2, PTL DEF Spec

\* The exit frame is the last word (serveExec, cmdSpawnProxy): a proxy ended by
\* it has output everything the group wrote, the group is gone, and its status
\* is the leader's.
THEOREM ExitIsTheLast == Spec => []ExitIsLast
<1>1. Stage /\ StatusInv => ExitIsLast
  <2> SUFFICES ASSUME Stage, StatusInv, status # None, status.by = "exit"
               PROVE  /\ GroupEnded
                      /\ \A s \in Outputs : Len(got[s]) = wrote[s]
                      /\ status.code = IF code = None THEN 127 ELSE StatusOf(code)
    BY DEF ExitIsLast
  <2>1. /\ exe = "closed" /\ status.code = StatusNow
        /\ \A s \in Outputs : Len(got[s]) = wrote[s]
    BY DEF StatusInv
  <2> QED
    BY <2>1, ClosedFacts DEF StatusNow
<1> QED
  BY <1>1, DownInvariant, PTL

\* Both output streams reach the parent as a prefix of what was written (the
\* executor's wmu, the two writes of WriteChunk, splice).
OutputInOrder == \A s \in Outputs : Counted(got[s]) /\ Len(got[s]) <= wrote[s]

LEMMA OutputOrder == Stage /\ DownInv => OutputInOrder
<1> SUFFICES ASSUME Stage, DownInv, NEW s \in Outputs
             PROVE  Counted(got[s]) /\ Len(got[s]) <= wrote[s]
  BY DEF OutputInOrder
<1>1. Counted(got[s]) /\ Len(got[s]) <= Sent[s]
  BY DEF DownInv, Flow, Numbered
<1>2. Sent[s] <= pumped[s] /\ pumped[s] <= wrote[s] /\ Sent[s] \in Int
      /\ pumped[s] \in Int /\ wrote[s] \in Int /\ Len(got[s]) \in Int
  BY SentType, DownType, LensAreInts DEF Stage, Sents
<1> QED
  BY <1>1, <1>2
----------------------------------------------------------------------------
(* The way up: the request, then input chunks, their end and signals.       *)

Signals(t)  == t.part = "whole" /\ t.tag = "signal"
EofToken(t) == t.part = "whole" /\ t.tag = "stdin"
EofIn(q)    == \E i \in 1..Len(q) : EofToken(q[i])
First(q)    == Len(q) > 0 /\ q[1].part = "whole" /\ q[1].tag = "spawn"

\* All chunks are input, an empty one ends it, and only signals follow.
UpFlow(q) ==
  /\ Framed(q)
  /\ \A i \in 1..Len(q) :
        /\ q[i].part = "header" => q[i].tag = "stdin"
        /\ EofToken(q[i]) => q[i].n = 0 /\ \A j \in i + 1..Len(q) : Signals(q[j])

LEMMA UpCuts ==
  ASSUME NEW q \in Seq(Token), NEW r \in Seq(Token), Cuts(q, r), UpFlow(q)
  PROVE  UpFlow(r) /\ (EofIn(r) => EofIn(q)) /\ (First(q) => First(r) \/ Len(r) = 0)
<1>1. /\ Len(q) \in Nat /\ Len(r) \in Nat /\ Len(r) <= Len(q)
      /\ \A i \in 1..Len(r) : i \in 1..Len(q) /\ r[i] = q[i]
  BY DEF Cuts
<1>2. Framed(r)
  BY FramedCuts DEF UpFlow
<1>3. ASSUME NEW i \in 1..Len(r)
      PROVE  /\ r[i].part = "header" => r[i].tag = "stdin"
             /\ EofToken(r[i]) => r[i].n = 0 /\ \A j \in i + 1..Len(r) : Signals(r[j])
  <2>1. \A j \in i + 1..Len(r) : j \in i + 1..Len(q) /\ r[j] = q[j]
    BY <1>1
  <2> QED
    BY <1>1, <2>1 DEF UpFlow
<1>4. EofIn(r) => EofIn(q)
  BY <1>1 DEF EofIn
<1>5. First(q) => First(r) \/ Len(r) = 0
  <2>1. Len(r) > 0 => 1 \in 1..Len(r)
    BY <1>1
  <2> QED
    BY <1>1, <2>1 DEF First
<1> QED
  BY <1>2, <1>3, <1>4, <1>5 DEF UpFlow

LEMMA UpSame ==
  ASSUME NEW q \in Seq(Token), NEW r \in Seq(Token), Same(q, r), UpFlow(q)
  PROVE  /\ UpFlow(r) /\ (EofIn(r) => EofIn(q)) /\ Len(r) = Len(q)
         /\ (First(q) => First(r)) /\ (EndsInHeader(r) <=> EndsInHeader(q))
<1>1. Len(q) \in Nat /\ Len(r) = Len(q) /\ \A i \in 1..Len(q) : r[i] = q[i]
  BY DEF Same
<1>2. Cuts(q, r)
  BY <1>1 DEF Cuts
<1>3. EndsInHeader(r) <=> EndsInHeader(q)
  BY <1>1 DEF EndsInHeader
<1> QED
  BY <1>1, <1>2, <1>3, UpCuts DEF First

LEMMA UpAdds ==
  ASSUME NEW q \in Seq(Token), NEW r \in Seq(Token), NEW e \in Token, Adds(q, r, e), UpFlow(q),
         e.part = "body" <=> EndsInHeader(q), e.part = "header" => e.tag = "stdin",
         EofToken(e) => e.n = 0, EofIn(q) => Signals(e)
  PROVE  /\ UpFlow(r) /\ (EofIn(r) => EofIn(q) \/ EofToken(e)) /\ (First(q) => First(r))
         /\ Len(r) > 0 /\ (EndsInHeader(r) <=> e.part = "header")
         /\ Len(q) = 0 => r[1] = e
<1>1. /\ Len(q) \in Nat /\ Len(r) = Len(q) + 1 /\ r[Len(q) + 1] = e
      /\ \A i \in 1..Len(q) : r[i] = q[i]
  BY DEF Adds
<1>2. Framed(r)
  BY FramedAdds DEF UpFlow
<1>3. ASSUME NEW i \in 1..Len(r)
      PROVE  /\ r[i].part = "header" => r[i].tag = "stdin"
             /\ EofToken(r[i]) => r[i].n = 0 /\ \A j \in i + 1..Len(r) : Signals(r[j])
  <2>1. CASE i = Len(r)
    <3>1. r[i] = e
      BY <1>1, <2>1
    <3>2. \A j \in i + 1..Len(r) : FALSE
      BY <1>1, <2>1
    <3> QED
      BY <3>1, <3>2
  <2>2. CASE i # Len(r)
    <3>1. i \in 1..Len(q) /\ r[i] = q[i]
      BY <1>1, <2>2
    <3>2. \A j \in i + 1..Len(r) : (j \in i + 1..Len(q) /\ r[j] = q[j]) \/ r[j] = e
      BY <1>1, <3>1
    <3>3. EofToken(q[i]) => Signals(e)
      BY <3>1 DEF EofIn
    <3> QED
      BY <3>1, <3>2, <3>3 DEF UpFlow
  <2> QED
    BY <2>1, <2>2
<1>4. EofIn(r) => EofIn(q) \/ EofToken(e)
  <2>1. \A i \in 1..Len(r) : (i \in 1..Len(q) /\ r[i] = q[i]) \/ r[i] = e
    BY <1>1
  <2> QED
    BY <2>1 DEF EofIn
<1>5. First(q) => First(r)
  <2>1. Len(q) > 0 => 1 \in 1..Len(q)
    BY <1>1
  <2> QED
    BY <1>1, <2>1 DEF First
<1>6. Len(r) > 0 /\ (EndsInHeader(r) <=> e.part = "header")
  BY <1>1 DEF EndsInHeader
<1> QED
  BY <1>1, <1>2, <1>3, <1>4, <1>5, <1>6 DEF UpFlow

LEMMA UpDrops ==
  ASSUME NEW q \in Seq(Token), NEW r \in Seq(Token), NEW k \in 1..2, Drops(q, r, k), UpFlow(q),
         k = 1 <=> q[1].part = "whole"
  PROVE  /\ UpFlow(r) /\ (EofIn(r) => EofIn(q))
         /\ EndsInHeader(r) <=> EndsInHeader(q)
         /\ k = 2 => q[1].tag = "stdin" /\ q[2].part = "body"
         /\ k = 1 /\ EofToken(q[1]) => q[1].n = 0 /\ EofIn(q)
<1>1. /\ Len(q) \in Nat /\ k <= Len(q) /\ Len(r) = Len(q) - k /\ Len(r) \in Nat
      /\ \A i \in 1..Len(q) - k : r[i] = q[i + k]
  BY DEF Drops
<1>2. Framed(r) /\ (k = 2 => q[1].part = "header" /\ q[2].part = "body")
  BY FramedDrops DEF UpFlow
<1>3. ASSUME NEW i \in 1..Len(r)
      PROVE  i + k \in 1..Len(q) /\ r[i] = q[i + k]
  BY <1>1
<1>4. ASSUME NEW i \in 1..Len(r)
      PROVE  /\ r[i].part = "header" => r[i].tag = "stdin"
             /\ EofToken(r[i]) => r[i].n = 0 /\ \A j \in i + 1..Len(r) : Signals(r[j])
  <2>1. \A j \in i + 1..Len(r) : j + k \in i + k + 1..Len(q) /\ r[j] = q[j + k]
    BY <1>1
  <2> QED
    BY <1>3, <2>1 DEF UpFlow
<1>5. EofIn(r) => EofIn(q)
  BY <1>3 DEF EofIn
<1>6. EndsInHeader(r) <=> EndsInHeader(q)
  <2>1. CASE Len(r) > 0
    <3>1. Len(r) \in 1..Len(r) /\ Len(r) + k = Len(q)
      BY <1>1, <2>1
    <3>2. r[Len(r)] = q[Len(q)]
      BY <1>3, <3>1
    <3> QED
      BY <1>1, <2>1, <3>2 DEF EndsInHeader
  <2>2. CASE Len(r) = 0
    <3>1. Len(q) = k
      BY <1>1, <2>2
    <3>2. q[k].part # "header"
      BY <1>2
    <3> QED
      BY <2>2, <3>1, <3>2 DEF EndsInHeader
  <2> QED
    BY <1>1, <2>1, <2>2
<1>7. 1 \in 1..Len(q)
  BY <1>1
<1>8. k = 2 => q[1].tag = "stdin" /\ q[2].part = "body"
  BY <1>2, <1>7 DEF UpFlow
<1>9. k = 1 /\ EofToken(q[1]) => q[1].n = 0 /\ EofIn(q)
  BY <1>7 DEF UpFlow, EofIn
<1> QED
  BY <1>2, <1>4, <1>5, <1>6, <1>8, <1>9 DEF UpFlow

\* When the end of the input is next, no chunk is left behind it.
LEMMA EofLast ==
  ASSUME NEW q \in Seq(Token), Len(q) > 0, UpFlow(q), EofToken(q[1]), NEW g, NEW m,
         Reaches(q, "stdin", g, m)
  PROVE  g = m
<1>1. Len(q) \in Nat /\ 1 \in 1..Len(q)
  OBVIOUS
<1>2. \A j \in 1 + 1..Len(q) : Signals(q[j])
  BY <1>1 DEF UpFlow
<1>3. \A j \in 2..Len(q) : q[j].part # "body"
  BY <1>2 DEF Signals
<1> QED
  BY <1>3 DEF Reaches, BodyOf
----------------------------------------------------------------------------
(* The invariant of the way up.                                            *)

\* Once the transport is cut, what is still on the proxy's leg goes nowhere.
Up == IF link = "cut" THEN up2 ELSE up2 \o up1

SentIn  == IF inPump = "body" THEN taken - 1 ELSE taken
Fed     == Len(eaten) + Len(tty) + (IF ctl = "write" THEN 1 ELSE 0)
Waiting == exe \in {"none", "header"}
Feeding == Waiting \/ (stdinOpen /\ ~GroupEnded)

UpTypes ==
  /\ up1 \in Seq(Token) /\ up2 \in Seq(Token) /\ eaten \in Seq(Int) /\ tty \in Seq(Int)
  /\ held \in Int /\ typed \in Nat /\ taken \in 0..typed
  /\ inPump \in {"read", "body", "done"} /\ ctl \in {"none", "read", "write", "done"}

UpQueue ==
  /\ UpFlow(Up)
  /\ CanSend => (inPump = "body" <=> EndsInHeader(Up))
  /\ EofIn(Up) => inPump = "done"
  /\ Feeding => Numbered(Up, "stdin", Fed, SentIn)
  /\ Feeding /\ CanSend => Reaches(Up, "stdin", Fed, SentIn)
  /\ Waiting => First(Up) \/ (Len(Up) = 0 /\ (prx \notin {"sent", "run"} \/ ~CanSend))
  /\ prx \in {"dial", "dialled"} => Len(up1) = 0 /\ Len(up2) = 0

LEMMA UpIsSeq ==
  ASSUME UpTypes
  PROVE  /\ Up \in Seq(Token) /\ Fed \in Int /\ SentIn \in Int
         /\ Len(eaten) \in Nat /\ Len(tty) \in Nat
<1>1. Up \in Seq(Token)
  BY ConcatAt DEF Up, UpTypes
<1>2. Len(eaten) \in Nat /\ Len(tty) \in Nat
  BY DEF UpTypes
<1> QED
  BY <1>1, <1>2 DEF Fed, SentIn, UpTypes

\* Nobody feeds a group that was not fed before.
LEMMA FeedingStays ==
  ASSUME Stage, Opened, [Next]_vars
  PROVE  (Waiting' => Waiting) /\ (Feeding' => Feeding)
<1> USE DEF vars, parentVars, proxyVars, bridgeVars, execVars, childVars
<1>1. CASE UNCHANGED <<exe, stdinOpen, proc>>
  BY <1>1 DEF Waiting, Feeding, GroupEnded, Running
<1>2. CASE BridgeStep
  BY <1>2 DEF BridgeStep, BridgeDial, BridgeCloses, Opened, Waiting, Feeding, GroupEnded, Running
<1>3. CASE ExecStep
  BY <1>3 DEF ExecStep, ReadSpawn, ReadSpawnFails, Reap, SendExit, Waiting, Feeding,
    GroupEnded, Running
<1>4. ASSUME UNCHANGED exe, stdinOpen' => stdinOpen, GroupEnded => GroupEnded'
      PROVE  (Waiting' => Waiting) /\ (Feeding' => Feeding)
  BY <1>4 DEF Waiting, Feeding
<1>5. CASE ControlStep
  BY <1>4, <1>5 DEF ControlStep, Control, WriteStdin, ControlEnds, GroupEnded, Running
<1>6. CASE Fork \/ \E p \in Procs : ProcExits(p)
  <2>1. GroupEnded => GroupEnded'
    BY <1>6, GroupFacts DEF Fork, ProcExits, GroupEnded, Running
  <2> QED
    BY <1>4, <1>6, <2>1 DEF Fork, ProcExits
<1>7. CASE Type \/ CloseStdin \/ Signal \/ KillProxy \/ ProxyStep \/ ForwardSignal \/ StdinStep
           \/ UpStep \/ DownStep \/ Cut
  BY <1>1, <1>7 DEF Type, CloseStdin, Signal, KillProxy, ProxyStep, Dial, SendSpawn, Notify,
    MainFrame, MainEof, ForwardSignal, StdinStep, PumpStdin, PumpStdinBody, UpStep, CopyUp,
    CopyUpEnds, DownStep, CopyDown, CopyDownEnds, Cut
<1>8. CASE ChildReads \/ (\E s \in Outputs : PumpStep(s) \/ ChildWrites(s)) \/ UNCHANGED vars
  BY <1>1, <1>8 DEF ChildReads, PumpStep, PumpOut, PumpBody, PumpEnds, ChildWrites
<1> QED
  BY <1>2, <1>3, <1>5, <1>6, <1>7, <1>8 DEF Next

\* Nothing enters the queue or leaves it.
LEMMA UpQuiet ==
  ASSUME UpTypes, UpTypes', UpQueue, Same(Up, Up'),
         UNCHANGED <<inPump, taken>>, CanSend' => CanSend, Waiting' => Waiting,
         Feeding' => Feeding /\ Fed' = Fed,
         prx' \in {"sent", "run"} => prx \in {"sent", "run"},
         prx' \in {"dial", "dialled"} => Len(up1') = 0 /\ Len(up2') = 0
  PROVE  UpQueue'
<1>1. Up \in Seq(Token) /\ Up' \in Seq(Token) /\ Fed \in Int /\ SentIn \in Int
  BY UpIsSeq, ConcatAt DEF Up, UpTypes
<1>2. SentIn' = SentIn
  BY DEF SentIn
<1>3. /\ UpFlow(Up') /\ (EofIn(Up') => EofIn(Up)) /\ Len(Up') = Len(Up)
      /\ (First(Up) => First(Up')) /\ (EndsInHeader(Up') <=> EndsInHeader(Up))
  BY <1>1, UpSame DEF UpQueue
<1>4. Cuts(Up, Up')
  BY DEF Same, Cuts
<1>5. Feeding' => Numbered(Up', "stdin", Fed', SentIn')
  BY <1>1, <1>2, <1>4, NumberedCuts DEF UpQueue
<1>6. Feeding' /\ CanSend' => Reaches(Up', "stdin", Fed', SentIn')
  BY <1>1, <1>2, ReachesSame DEF UpQueue
<1>7. CanSend' => (inPump' = "body" <=> EndsInHeader(Up'))
  BY <1>3 DEF UpQueue
<1>8. Waiting' => First(Up') \/ (Len(Up') = 0 /\ (prx' \notin {"sent", "run"} \/ ~CanSend'))
  BY <1>3 DEF UpQueue
<1> QED
  BY <1>3, <1>5, <1>6, <1>7, <1>8 DEF UpQueue

\* The parts of it that a step which leaves the queue alone must not disturb.
LEMMA UpStays ==
  ASSUME UpTypes, UpTypes', UpQueue, UNCHANGED <<up1, up2, inPump, taken>>,
         link' = "cut" <=> link = "cut", CanSend' => CanSend, Waiting' => Waiting,
         Feeding' => Feeding /\ Fed' = Fed,
         prx' \in {"sent", "run"} => prx \in {"sent", "run"},
         prx' \in {"dial", "dialled"} => prx \in {"dial", "dialled"}
  PROVE  UpQueue'
<1>1. Up' = Up
  BY DEF Up
<1>2. Same(Up, Up')
  BY <1>1 DEF Same
<1> QED
  BY <1>2, UpQuiet DEF UpQueue

\* A write of the proxy.
LEMMA ProxyWriteEffect ==
  ASSUME UpTypes, NEW e \in Token, ProxyWrite(e), UNCHANGED <<up2, link, brg>>
  PROVE  /\ up1' \in Seq(Token) /\ Up' \in Seq(Token) /\ CanSend' = CanSend
         /\ IF CanSend THEN Adds(Up, Up', e) ELSE Up' = Up
<1>1. CanSend' = CanSend
  BY DEF CanSend
<1>2. CASE brg = "done"
  BY <1>1, <1>2, ConcatAt DEF ProxyWrite, Up, UpTypes, CanSend
<1>3. CASE brg # "done"
  <2>1. up1' = Append(up1, e)
    BY <1>3 DEF ProxyWrite
  <2>2. up1' \in Seq(Token) /\ Adds(up2 \o up1, up2 \o up1', e)
    BY <2>1, AddEffect DEF UpTypes
  <2>3. CASE link = "cut"
    BY <1>1, <2>2, <2>3 DEF Up, UpTypes, CanSend
  <2>4. CASE link # "cut"
    BY <1>1, <1>3, <2>2, <2>4, ConcatAt DEF Up, UpTypes, CanSend
  <2> QED
    BY <2>3, <2>4
<1> QED
  BY <1>2, <1>3

\* A token that is no chunk of input is written: a signal, a header, the end.
LEMMA UpAddsOther ==
  ASSUME UpTypes, UpTypes', UpQueue, NEW e \in Token, ProxyWrite(e), UNCHANGED <<up2, link, brg>>,
         prx = "run", prx' = "run", inPump # "body", e.part # "body",
         e.part = "header" => e.tag = "stdin", EofToken(e) => e.n = 0,
         Signals(e) \/ inPump # "done",
         EofToken(e) => inPump' = "done", inPump = "done" => inPump' = "done",
         inPump' = "body" <=> e.part = "header", SentIn' = SentIn,
         Waiting' => Waiting, Feeding' => Feeding /\ Fed' = Fed
  PROVE  UpQueue'
<1>1. Up \in Seq(Token) /\ Up' \in Seq(Token) /\ Fed \in Int /\ SentIn \in Int
  BY UpIsSeq, ProxyWriteEffect
<1>2. CanSend' = CanSend /\ IF CanSend THEN Adds(Up, Up', e) ELSE Up' = Up
  BY ProxyWriteEffect
<1>3. CASE ~CanSend
  BY <1>2, <1>3 DEF UpQueue
<1>4. CASE CanSend
  <2>1. ~EndsInHeader(Up) /\ (EofIn(Up) => Signals(e)) /\ UpFlow(Up) /\ Adds(Up, Up', e)
    BY <1>2, <1>4 DEF UpQueue
  <2>2. /\ UpFlow(Up') /\ (EofIn(Up') => EofIn(Up) \/ EofToken(e)) /\ (First(Up) => First(Up'))
        /\ (EndsInHeader(Up') <=> e.part = "header")
    BY <1>1, <2>1, UpAdds
  <2>3. Feeding => /\ Numbered(Up', "stdin", Fed, SentIn)
                   /\ Reaches(Up', "stdin", Fed, SentIn)
    BY <1>1, <1>4, <2>1, NumberedAdds DEF UpQueue
  <2>4. Waiting' => First(Up')
    BY <1>4, <2>2 DEF UpQueue
  <2> QED
    BY <1>2, <2>2, <2>3, <2>4 DEF UpQueue
<1> QED
  BY <1>3, <1>4

LEMMA UpTokens ==
  /\ Hdr("stdin") \in Token /\ Whole("spawn", 0) \in Token /\ Whole("signal", 0) \in Token
  /\ Whole("stdin", 0) \in Token /\ \A n \in Int : Body(n) \in Token
BY DEF Token, Hdr, Body, Whole

LEMMA UpForwardSignal ==
  ASSUME UpTypes, UpTypes', UpQueue, ForwardSignal, Waiting' => Waiting, Feeding' => Feeding
  PROVE  UpQueue'
<1> DEFINE e == Whole("signal", 0)
<1>1. /\ prx = "run" /\ inPump # "body" /\ ProxyWrite(e)
      /\ UNCHANGED <<prx, inPump, taken, brg, link, up2, ctl, eaten, tty>>
  BY DEF ForwardSignal, ProxyUnlocked, bridgeVars, execVars, childVars
<1>2. e \in Token /\ e.part = "whole" /\ e.tag = "signal"
  BY UpTokens DEF Whole
<1> HIDE DEF e
<1>3. SentIn' = SentIn /\ Fed' = Fed
  BY <1>1 DEF SentIn, Fed
<1> QED
  BY <1>1, <1>2, <1>3, UpAddsOther DEF Signals, EofToken

LEMMA UpPumpStdin ==
  ASSUME UpTypes, UpTypes', UpQueue, PumpStdin, Waiting' => Waiting, Feeding' => Feeding
  PROVE  UpQueue'
<1>1. /\ prx = "run" /\ inPump = "read"
      /\ UNCHANGED <<prx, brg, link, up2, ctl, eaten, tty>>
  BY DEF PumpStdin, parentVars, bridgeVars, execVars, childVars
<1>2. Fed' = Fed
  BY <1>1 DEF Fed
<1>3. CASE taken' = taken + 1 /\ ProxyWrite(Hdr("stdin")) /\ inPump' = "body"
  <2>1. SentIn' = SentIn
    BY <1>1, <1>3 DEF SentIn, UpTypes
  <2>2. Hdr("stdin") \in Token /\ Hdr("stdin").part = "header" /\ Hdr("stdin").tag = "stdin"
    BY UpTokens DEF Hdr
  <2> QED
    BY <1>1, <1>2, <1>3, <2>1, <2>2, UpAddsOther DEF Signals, EofToken
<1>4. CASE ProxyWrite(Whole("stdin", 0)) /\ inPump' = "done" /\ UNCHANGED taken
  <2>1. SentIn' = SentIn
    BY <1>1, <1>4 DEF SentIn
  <2>2. /\ Whole("stdin", 0) \in Token /\ Whole("stdin", 0).part = "whole"
        /\ Whole("stdin", 0).n = 0
    BY UpTokens DEF Whole
  <2> QED
    BY <1>1, <1>2, <1>4, <2>1, <2>2, UpAddsOther DEF Signals, EofToken
<1> QED
  BY <1>3, <1>4 DEF PumpStdin

LEMMA UpPumpBody ==
  ASSUME UpTypes, UpTypes', UpQueue, PumpStdinBody, Waiting' => Waiting, Feeding' => Feeding
  PROVE  UpQueue'
<1>1. /\ prx = "run" /\ inPump = "body" /\ inPump' = "read" /\ ProxyWrite(Body(taken))
      /\ UNCHANGED <<prx, brg, link, up2, ctl, eaten, tty, taken>>
  BY DEF PumpStdinBody, bridgeVars, execVars, childVars
<1>2. Fed' = Fed /\ SentIn' = taken /\ SentIn' = SentIn + 1 /\ taken \in Int
  BY <1>1 DEF Fed, SentIn, UpTypes
<1> DEFINE e == Body(taken)
<1>3. e \in Token /\ e.part = "body"
  BY <1>2, UpTokens DEF Body
<1>4. /\ Up \in Seq(Token) /\ Up' \in Seq(Token) /\ Fed \in Int /\ SentIn \in Int
      /\ CanSend' = CanSend /\ IF CanSend THEN Adds(Up, Up', e) ELSE Up' = Up
  BY <1>1, <1>3, UpIsSeq, ProxyWriteEffect
<1>5. ~EofIn(Up)
  BY <1>1 DEF UpQueue
<1>6. CASE ~CanSend
  <2>1. Feeding' => Numbered(Up', "stdin", Fed', SentIn')
    <3>1. Feeding' => Numbered(Up, "stdin", Fed, SentIn + 1)
      BY <1>4, NumberedGrows DEF UpQueue
    <3> QED
      BY <1>2, <1>4, <1>6, <3>1
  <2> QED
    BY <1>1, <1>4, <1>5, <1>6, <2>1 DEF UpQueue
<1>7. CASE CanSend
  <2>1. EndsInHeader(Up) /\ UpFlow(Up) /\ Adds(Up, Up', e)
    BY <1>1, <1>4, <1>7 DEF UpQueue
  <2>2. Len(Up) > 0 /\ Up[Len(Up)].tag = "stdin"
    <3>1. Len(Up) \in 1..Len(Up) /\ Up[Len(Up)].part = "header"
      BY <1>4, <2>1 DEF EndsInHeader
    <3> QED
      BY <2>1, <3>1 DEF UpFlow
  <2>3. ~EofToken(e)
    BY <1>3 DEF EofToken
  <2>4. /\ UpFlow(Up') /\ ~EofIn(Up') /\ (First(Up) => First(Up')) /\ ~EndsInHeader(Up')
    BY <1>3, <1>4, <1>5, <2>1, <2>3, UpAdds
  <2>5. Adds(Up, Up', Body(SentIn + 1)) /\ Body(SentIn + 1) \in Token
    BY <1>2, <1>3, <2>1
  <2>6. Feeding => /\ Numbered(Up', "stdin", Fed, SentIn + 1)
                   /\ Reaches(Up', "stdin", Fed, SentIn + 1)
    BY <1>4, <1>7, <2>2, <2>5, NumberedAddsBody DEF UpQueue
  <2>7. Waiting' => First(Up')
    BY <1>1, <1>7, <2>2, <2>4 DEF UpQueue
  <2> QED
    BY <1>1, <1>2, <2>4, <2>6, <2>7 DEF UpQueue
<1> QED
  BY <1>6, <1>7

LEMMA UpCopyUp ==
  ASSUME UpTypes, UpTypes', UpQueue, CopyUp, Waiting' => Waiting, Feeding' => Feeding
  PROVE  UpQueue'
<1>1. /\ up1 # <<>> /\ link = "up" /\ up2' = Append(up2, Head(up1)) /\ up1' = Tail(up1)
      /\ UNCHANGED <<prx, inPump, taken, brg, link, ctl, eaten, tty>>
  BY DEF CopyUp, proxyVars, bridgeVars, execVars, childVars
<1>2. Same(Up, Up')
  <2>1. Same(up2 \o up1, up2' \o up1')
    BY <1>1, MoveEffect DEF UpTypes
  <2> QED
    BY <1>1, <2>1 DEF Up
<1>3. Fed' = Fed /\ CanSend' = CanSend
  BY <1>1 DEF Fed, CanSend
<1>4. prx \notin {"dial", "dialled"}
  <2>1. Len(up1) # 0
    BY <1>1 DEF UpTypes
  <2> QED
    BY <2>1 DEF UpQueue
<1> QED
  BY <1>1, <1>2, <1>3, <1>4, UpQuiet

LEMMA UpBreaks ==
  ASSUME UpTypes, UpTypes', UpQueue, Cut, Waiting' => Waiting, Feeding' => Feeding
  PROVE  UpQueue'
<1>1. /\ link = "up" /\ link' = "cut" /\ up1' = up1
      /\ UNCHANGED <<prx, inPump, taken, brg, ctl, eaten, tty>>
  BY DEF Cut, parentVars, proxyVars, execVars, childVars
<1>2. PICK k \in 0..Len(up2) : up2' = SubSeq(up2, 1, k)
  BY DEF Cut
<1>3. /\ up2' \in Seq(Token) /\ Len(up2') = k /\ (\A i \in 1..k : up2'[i] = up2[i])
      /\ Len(up2) \in Nat /\ k \in Nat /\ k <= Len(up2)
  BY <1>2, PrefixAt DEF UpTypes
<1>4. /\ Up = up2 \o up1 /\ Up' = up2' /\ Len(Up) = Len(up2) + Len(up1) /\ Len(up1) \in Nat
      /\ \A i \in 1..Len(up2) : Up[i] = up2[i]
  BY <1>1, ConcatAt DEF Up, UpTypes
<1>5. Cuts(Up, Up')
  BY <1>3, <1>4 DEF Cuts
<1>6. Up \in Seq(Token) /\ Up' \in Seq(Token) /\ Fed \in Int /\ SentIn \in Int
  BY <1>3, <1>4, UpIsSeq
<1>7. UpFlow(Up') /\ (EofIn(Up') => EofIn(Up)) /\ (First(Up) => First(Up') \/ Len(Up') = 0)
  BY <1>5, <1>6, UpCuts DEF UpQueue
<1>8. Fed' = Fed /\ SentIn' = SentIn /\ ~CanSend'
  BY <1>1 DEF Fed, SentIn, CanSend
<1>9. Feeding' => Numbered(Up', "stdin", Fed', SentIn')
  BY <1>5, <1>6, <1>8, NumberedCuts DEF UpQueue
<1>10. Len(Up) = 0 => Len(Up') = 0
  BY <1>3, <1>4
<1>11. Waiting' => First(Up') \/ Len(Up') = 0
  BY <1>7, <1>10 DEF UpQueue
<1>12. prx' \in {"dial", "dialled"} => Len(up1') = 0 /\ Len(up2') = 0
  BY <1>1, <1>3 DEF UpQueue
<1> QED
  BY <1>1, <1>7, <1>8, <1>9, <1>11, <1>12 DEF UpQueue

LEMMA UpSendSpawn ==
  ASSUME UpTypes, UpTypes', UpQueue, SendSpawn, Waiting' => Waiting, Feeding' => Feeding
  PROVE  UpQueue'
<1>1. /\ prx = "dialled" /\ UNCHANGED <<inPump, taken, brg, link, up2, ctl, eaten, tty>>
      /\ IF brg = "done" THEN prx' = "exited" /\ up1' = up1
         ELSE prx' = "sent" /\ up1' = Append(up1, Whole("spawn", 0))
  BY DEF SendSpawn, ProxyExits, bridgeVars, execVars, childVars
<1>2. Fed' = Fed /\ SentIn' = SentIn /\ CanSend' = CanSend
  BY <1>1 DEF Fed, SentIn, CanSend
<1>3. CASE brg = "done"
  BY <1>1, <1>2, <1>3, UpStays
<1>4. CASE brg # "done"
  <2> DEFINE e == Whole("spawn", 0)
  <2>1. e \in Token /\ e.part = "whole" /\ e.tag = "spawn"
    BY UpTokens DEF Whole
  <2>2. up1' = Append(up1, e) /\ prx' = "sent"
    BY <1>1, <1>4
  <2> HIDE DEF e
  <2>3. CASE link = "cut"
    <3>1. Up' = Up /\ ~CanSend'
      BY <1>1, <2>3 DEF Up, CanSend
    <3> QED
      BY <1>1, <1>2, <2>2, <3>1 DEF UpQueue
  <2>4. CASE link # "cut"
    <3>1. /\ Up = up2 \o up1 /\ Up' = up2 \o up1' /\ CanSend
          /\ Len(Up) = Len(up2) + Len(up1)
      BY <1>1, <1>4, <2>4, ConcatAt DEF Up, CanSend, UpTypes
    <3>2. Adds(Up, Up', e)
      BY <2>1, <2>2, <3>1, AddEffect DEF UpTypes
    <3>3. Len(Up) = 0
      BY <1>1, <3>1 DEF UpQueue
    <3>4. ~EndsInHeader(Up) /\ ~EofIn(Up) /\ ~EofToken(e)
      BY <2>1, <3>3 DEF EndsInHeader, EofIn, EofToken
    <3>5. Up \in Seq(Token) /\ Up' \in Seq(Token) /\ Fed \in Int /\ SentIn \in Int
      BY <2>1, <2>2, <3>1, UpIsSeq, ConcatAt DEF UpTypes
    <3>6. UpFlow(Up') /\ ~EofIn(Up') /\ Len(Up') > 0 /\ ~EndsInHeader(Up') /\ Up'[1] = e
      BY <2>1, <3>2, <3>3, <3>4, <3>5, UpAdds DEF UpQueue
    <3>7. First(Up')
      BY <2>1, <3>6 DEF First
    <3>8. Feeding => /\ Numbered(Up', "stdin", Fed, SentIn)
                     /\ Reaches(Up', "stdin", Fed, SentIn)
      BY <2>1, <3>1, <3>2, <3>5, NumberedAdds DEF UpQueue
    <3>9. inPump' # "body"
      BY <1>1, <3>1, <3>4 DEF UpQueue
    <3> QED
      BY <1>1, <1>2, <2>2, <3>6, <3>7, <3>8, <3>9 DEF UpQueue
  <2> QED
    BY <2>3, <2>4
<1> QED
  BY <1>3, <1>4

\* The executor reads a frame.
LEMMA UpReads ==
  ASSUME UpTypes, HasFrame(up2), up2' = Rest(up2), UNCHANGED <<up1, link>>
  PROVE  /\ Up' \in Seq(Token) /\ up2' \in Seq(Token) /\ Len(Up) > 0 /\ Len(up2) # 0
         /\ \/ Up[1].part = "whole" /\ Frame(up2) = Up[1] /\ Drops(Up, Up', 1)
            \/ /\ Up[1].part # "whole" /\ Drops(Up, Up', 2) /\ Frame(up2).tag = Up[1].tag
               /\ Up[2].part = "body" => Frame(up2).n = Up[2].n
<1>1. up2 \in Seq(Token) /\ up1 \in Seq(Token)
  BY DEF UpTypes
<1>2. /\ Len(up2) \in Nat \ {0} /\ up2' \in Seq(Token)
      /\ \/ up2[1].part = "whole" /\ Frame(up2) = up2[1] /\ Drops(up2, up2', 1)
         \/ /\ up2[1].part # "whole" /\ Len(up2) > 1 /\ Drops(up2, up2', 2)
            /\ Frame(up2).tag = up2[1].tag
            /\ up2[2].part = "body" => Frame(up2).n = up2[2].n
  BY <1>1, FrameEffect
<1>3. CASE link = "cut"
  BY <1>1, <1>2, <1>3 DEF Up
<1>4. CASE link # "cut"
  <2>1. Up = up2 \o up1 /\ Up' = up2' \o up1 /\ Up' \in Seq(Token)
    BY <1>1, <1>2, <1>4, ConcatAt DEF Up
  <2>2. \A k \in 1..2 : Drops(up2, up2', k) => Drops(Up, Up', k)
    BY <1>1, <1>2, <2>1, DropEffect
  <2>3. /\ Len(Up) > 0 /\ Up[1] = up2[1] /\ (Len(up2) > 1 => Up[2] = up2[2])
    <3>1. 1 \in 1..Len(up2) /\ (Len(up2) > 1 => 2 \in 1..Len(up2))
      BY <1>2
    <3>2. Len(Up) = Len(up2) + Len(up1) /\ Len(up1) \in Nat
      BY <1>1, <2>1, ConcatAt
    <3> QED
      BY <1>1, <1>2, <2>1, <3>1, <3>2, ConcatAt
  <2> QED
    BY <1>2, <2>1, <2>2, <2>3
<1> QED
  BY <1>3, <1>4

\* What is left in the queue once a frame that is no chunk was read.
LEMMA UpDropsOther ==
  ASSUME UpTypes, UpTypes', UpQueue, Up' \in Seq(Token), Drops(Up, Up', 1), Up[1].part = "whole",
         UNCHANGED <<prx, inPump, taken, brg, link>>, ~Waiting', Feeding' => Feeding /\ Fed' = Fed,
         prx \notin {"dial", "dialled"}
  PROVE  UpQueue'
<1>1. Up \in Seq(Token) /\ Fed \in Int /\ SentIn \in Int
  BY UpIsSeq
<1>2. /\ UpFlow(Up') /\ (EofIn(Up') => EofIn(Up)) /\ (EndsInHeader(Up') <=> EndsInHeader(Up))
  BY <1>1, UpDrops DEF UpQueue
<1>3. CanSend' = CanSend /\ SentIn' = SentIn
  BY DEF CanSend, SentIn
<1>4. Feeding => /\ Numbered(Up', "stdin", Fed, SentIn)
                 /\ Reaches(Up, "stdin", Fed, SentIn) => Reaches(Up', "stdin", Fed, SentIn)
  <2>1. Framed(Up)
    BY DEF UpQueue, UpFlow
  <2> QED
    BY <1>1, <2>1, NumberedDrops DEF UpQueue
<1> QED
  BY <1>2, <1>3, <1>4 DEF UpQueue

LEMMA UpReadSpawn ==
  ASSUME UpTypes, UpTypes', UpQueue, Stage, Opened, ReadSpawn, Waiting => ctl = "none"
  PROVE  UpQueue'
<1>1. /\ exe = "header" /\ HasFrame(up2) /\ up2' = Rest(up2) /\ exe' \in {"pumping", "closed"}
      /\ ctl' \in {"read", ctl}
      /\ UNCHANGED <<prx, inPump, taken, brg, link, up1, eaten, tty>>
  BY DEF ReadSpawn, parentVars, proxyVars, bridgeVars
<1>2. Waiting /\ ~Waiting' /\ Feeding /\ Fed' = Fed
  BY <1>1 DEF Waiting, Feeding, Fed
<1>3. /\ Up' \in Seq(Token) /\ Len(Up) > 0 /\ Len(up2) # 0
      /\ (Up[1].part = "whole" /\ Drops(Up, Up', 1)) \/ Up[1].part # "whole"
  BY <1>1, UpReads
<1>4. First(Up) /\ prx \notin {"dial", "dialled"}
  BY <1>2, <1>3 DEF UpQueue
<1> QED
  BY <1>1, <1>2, <1>3, <1>4, UpDropsOther DEF First

LEMMA UpControl ==
  ASSUME UpTypes, UpTypes', UpQueue, Control, ~Waiting, Feeding' => Feeding
  PROVE  /\ UpQueue'
         /\ Feeding /\ ctl' = "write" => held' = Len(eaten) + Len(tty) + 1
         /\ stdinOpen' # stdinOpen /\ Feeding /\ CanSend
              => inPump = "done" /\ Len(eaten) + Len(tty) = SentIn
<1> DEFINE f == Frame(up2)
<1>1. /\ ctl = "read" /\ HasFrame(up2) /\ up2' = Rest(up2)
      /\ \/ f.tag = "signal" /\ UNCHANGED <<ctl, held, stdinOpen>>
         \/ f.tag = "stdin" /\ f.n = 0 /\ UNCHANGED <<ctl, held>>
         \/ f.tag = "stdin" /\ f.n # 0 /\ ctl' = "write" /\ held' = f.n /\ UNCHANGED stdinOpen
      /\ UNCHANGED <<prx, inPump, taken, brg, link, up1, eaten, tty, exe>>
  BY DEF Control, parentVars, proxyVars, bridgeVars
<1>2. /\ Up' \in Seq(Token) /\ Len(Up) > 0 /\ Len(up2) # 0
      /\ \/ Up[1].part = "whole" /\ f = Up[1] /\ Drops(Up, Up', 1)
         \/ /\ Up[1].part # "whole" /\ Drops(Up, Up', 2) /\ f.tag = Up[1].tag
            /\ Up[2].part = "body" => f.n = Up[2].n
  BY <1>1, UpReads
<1> HIDE DEF f
<1>3. /\ Up \in Seq(Token) /\ Fed \in Int /\ SentIn \in Int
      /\ Len(eaten) \in Nat /\ Len(tty) \in Nat
  BY UpIsSeq
<1>4. ~Waiting' /\ prx \notin {"dial", "dialled"}
  BY <1>1, <1>2 DEF Waiting, UpQueue
<1>5. Fed = Len(eaten) + Len(tty)
  BY <1>1, <1>3 DEF Fed
<1>6. CASE Up[1].part = "whole" /\ f = Up[1] /\ Drops(Up, Up', 1)
  <2>1. EofToken(Up[1]) => Up[1].n = 0 /\ EofIn(Up)
    BY <1>2, <1>3, <1>6, UpDrops DEF UpQueue
  <2>2. ctl' = "read" /\ (stdinOpen' # stdinOpen => EofToken(Up[1]))
    BY <1>1, <1>6, <2>1 DEF EofToken
  <2>3. Fed' = Fed
    BY <1>1, <2>2 DEF Fed
  <2>4. UpQueue'
    BY <1>1, <1>2, <1>4, <1>6, <2>3, UpDropsOther
  <2>5. ASSUME EofToken(Up[1]), Feeding, CanSend
        PROVE  inPump = "done" /\ Fed = SentIn
    <3>1. inPump = "done"
      BY <2>1, <2>5 DEF UpQueue
    <3>2. Reaches(Up, "stdin", Fed, SentIn)
      BY <2>5 DEF UpQueue
    <3> QED
      BY <1>2, <1>3, <2>5, <3>1, <3>2, EofLast DEF UpQueue
  <2> QED
    BY <1>5, <2>2, <2>4, <2>5
<1>7. CASE /\ Up[1].part # "whole" /\ Drops(Up, Up', 2) /\ f.tag = Up[1].tag
           /\ Up[2].part = "body" => f.n = Up[2].n
  <2>1. /\ UpFlow(Up') /\ (EofIn(Up') => EofIn(Up)) /\ (EndsInHeader(Up') <=> EndsInHeader(Up))
        /\ Up[1].tag = "stdin" /\ Up[2].part = "body"
    BY <1>3, <1>2, <1>7, UpDrops DEF UpQueue
  <2>2. f.tag = "stdin" /\ f.n = Up[2].n
    BY <1>7, <2>1
  <2>3. CanSend' = CanSend /\ SentIn' = SentIn
    BY <1>1 DEF CanSend, SentIn
  <2>4. Feeding => /\ f.n = Fed + 1 /\ Numbered(Up', "stdin", Fed + 1, SentIn)
                   /\ Reaches(Up, "stdin", Fed, SentIn) => Reaches(Up', "stdin", Fed + 1, SentIn)
    <3>1. Framed(Up)
      BY DEF UpQueue, UpFlow
    <3>2. ASSUME Feeding
          PROVE  /\ Up[2].n = Fed + 1 /\ Numbered(Up', "stdin", Fed + 1, SentIn)
                 /\ Reaches(Up, "stdin", Fed, SentIn)
                      => Reaches(Up', "stdin", Fed + 1, SentIn)
      <4>1. Numbered(Up, "stdin", Fed, SentIn)
        BY <3>2 DEF UpQueue
      <4> QED
        BY <1>2, <1>3, <1>7, <2>1, <3>1, <4>1, NumberedReads
    <3> QED
      BY <2>2, <3>2
  <2>5. Feeding => /\ f.n # 0 /\ ctl' = "write" /\ held' = f.n /\ stdinOpen' = stdinOpen
    BY <1>1, <1>3, <1>5, <2>2, <2>4
  <2>6. Feeding => Fed' = Fed + 1
    BY <1>1, <1>3, <1>5, <2>5 DEF Fed
  <2>7. UpQueue'
    BY <1>1, <1>4, <2>1, <2>3, <2>4, <2>6 DEF UpQueue
  <2> QED
    BY <1>5, <2>4, <2>5, <2>7
<1> QED
  BY <1>2, <1>6, <1>7
----------------------------------------------------------------------------
(* The parts of the invariant that say what closes what.                    *)

\* The stdin pump is done once the parent has closed its end and all is taken.
InputEnd == inPump = "done" => inClosed /\ taken = typed

\* A copy up that ended, and a bridge that closed, have their reason.
CopyEnd ==
  /\ upCopy = "done" \/ brg = "done" => prx = "exited" \/ link # "up" \/ exe = "closed"
  /\ brg \in {"none", "dial"} => upCopy = "copy"

EofSeen ==
  /\ Waiting => ctl = "none" /\ ~sawEof
  /\ sawEof => ~stdinOpen /\ Len(tty) = 0

\* While the relay holds, only the end of the input closes the child's stdin.
InputOver ==
  ~stdinOpen /\ Intact /\ exe = "pumping" /\ ~GroupEnded =>
    inClosed /\ taken = typed /\ Len(eaten) + Len(tty) = typed

Chunks ==
  /\ Counted(eaten \o tty)
  /\ Feeding /\ ctl = "write" => held = Len(eaten) + Len(tty) + 1

LEMMA FrameInt ==
  ASSUME NEW w \in Seq(Token), HasFrame(w)
  PROVE  Frame(w).n \in Int
<1>1. w # <<>> /\ (Head(w).part = "whole" \/ Len(w) > 1)
  BY DEF HasFrame
<1>2. Head(w) = w[1] /\ 1 \in 1..Len(w) /\ (Head(w).part # "whole" => 2 \in 1..Len(w))
  BY <1>1, TailAt
<1>3. Head(w).n \in Int /\ (Head(w).part # "whole" => w[2].n \in Int)
  BY <1>2, TokenAt
<1> QED
  BY <1>3 DEF Frame, Whole

LEMMA UpTypesStep ==
  ASSUME UpTypes, [Next]_vars
  PROVE  UpTypes'
<1> USE DEF vars, parentVars, proxyVars, bridgeVars, execVars, childVars
<1>1. CASE UNCHANGED <<up1, up2, eaten, tty, held, typed, taken, inPump, ctl>>
  BY <1>1 DEF UpTypes
<1>2. \A e \in Token : ProxyWrite(e) => up1' \in Seq(Token)
  BY AppendAt DEF ProxyWrite, UpTypes
<1>3. CASE Type
  BY <1>3 DEF Type, UpTypes
<1>4. CASE SendSpawn \/ ForwardSignal
  <2>1. up1' \in Seq(Token)
    BY <1>2, <1>4, UpTokens, AppendAt DEF SendSpawn, ForwardSignal, UpTypes
  <2> QED
    BY <1>4, <2>1 DEF SendSpawn, ForwardSignal, UpTypes
<1>5. CASE StdinStep
  <2>0. taken \in Int
    BY DEF UpTypes
  <2>1. up1' \in Seq(Token)
    BY <1>2, <1>5, <2>0, UpTokens DEF StdinStep, PumpStdin, PumpStdinBody
  <2>2. taken' \in 0..typed' /\ inPump' \in {"read", "body", "done"}
    BY <1>5 DEF StdinStep, PumpStdin, PumpStdinBody, UpTypes
  <2> QED
    BY <1>5, <2>1, <2>2 DEF StdinStep, PumpStdin, PumpStdinBody, UpTypes
<1>6. CASE UpStep
  <2>1. CASE CopyUp
    <3>1. up1' \in Seq(Token) /\ up2' \in Seq(Token)
      BY <2>1, MoveEffect DEF CopyUp, UpTypes
    <3> QED
      BY <2>1, <3>1 DEF CopyUp, UpTypes
  <2>2. CASE CopyUpEnds
    BY <1>1, <2>2 DEF CopyUpEnds
  <2> QED
    BY <1>6, <2>1, <2>2 DEF UpStep
<1>7. CASE Cut
  <2>1. PICK k \in 0..Len(up2) : up2' = SubSeq(up2, 1, k)
    BY <1>7 DEF Cut
  <2>2. up2' \in Seq(Token)
    BY <2>1, PrefixAt DEF UpTypes
  <2> QED
    BY <1>7, <2>2 DEF Cut, UpTypes
<1>8. CASE ReadSpawn \/ Control
  <2>1. HasFrame(up2) /\ up2' = Rest(up2)
    BY <1>8 DEF ReadSpawn, Control
  <2>2. up2' \in Seq(Token) /\ Frame(up2).n \in Int
    BY <2>1, FrameEffect, FrameInt DEF UpTypes
  <2>3. CASE ReadSpawn
    BY <2>2, <2>3 DEF ReadSpawn, UpTypes
  <2>4. CASE Control
    BY <2>2, <2>4 DEF Control, UpTypes
  <2> QED
    BY <1>8, <2>3, <2>4
<1>9. CASE WriteStdin
  <2>1. tty' \in Seq(Int)
    BY <1>9, AppendAt DEF WriteStdin, UpTypes
  <2> QED
    BY <1>9, <2>1 DEF WriteStdin, UpTypes
<1>10. CASE ChildReads
  <2>1. eaten' \in Seq(Int) /\ tty' \in Seq(Int)
    BY <1>10, MoveEffect DEF ChildReads, UpTypes
  <2> QED
    BY <1>10, <2>1 DEF ChildReads, UpTypes
<1>11. CASE ControlEnds
  BY <1>11 DEF ControlEnds, UpTypes
<1>12. CASE CloseStdin \/ Signal \/ KillProxy \/ Dial \/ Notify \/ MainFrame \/ MainEof
            \/ BridgeStep \/ DownStep
  BY <1>1, <1>12 DEF CloseStdin, Signal, KillProxy, Dial, Notify, MainFrame, MainEof,
    BridgeStep, BridgeDial, BridgeCloses, DownStep, CopyDown, CopyDownEnds
<1>13. CASE ReadSpawnFails \/ Reap \/ SendExit \/ Fork \/ (\E p \in Procs : ProcExits(p))
            \/ (\E s \in Outputs : PumpStep(s) \/ ChildWrites(s)) \/ UNCHANGED vars
  BY <1>1, <1>13 DEF ReadSpawnFails, Reap, SendExit, Fork, ProcExits, PumpStep, PumpOut,
    PumpBody, PumpEnds, ChildWrites
<1> QED
  BY <1>3, <1>4, <1>5, <1>6, <1>7, <1>8, <1>9, <1>10, <1>11, <1>12, <1>13
     DEF Next, ProxyStep, ExecStep, ControlStep

LEMMA InputEndStep ==
  ASSUME UpTypes, InputEnd, [Next]_vars
  PROVE  InputEnd'
<1> USE DEF vars, parentVars, proxyVars, bridgeVars, execVars, childVars, InputEnd
<1>1. CASE UNCHANGED <<inPump, inClosed, taken, typed>>
  BY <1>1
<1>2. CASE Type \/ CloseStdin \/ StdinStep
  BY <1>2 DEF Type, CloseStdin, StdinStep, PumpStdin, PumpStdinBody, InputEnded
<1>3. CASE Signal \/ KillProxy \/ ProxyStep \/ ForwardSignal \/ BridgeStep \/ UpStep
           \/ DownStep \/ Cut
  BY <1>1, <1>3 DEF Signal, KillProxy, ProxyStep, Dial, SendSpawn, Notify, MainFrame, MainEof,
    ForwardSignal, BridgeStep, BridgeDial, BridgeCloses, UpStep, CopyUp, CopyUpEnds,
    DownStep, CopyDown, CopyDownEnds, Cut
<1>4. CASE ExecStep \/ ControlStep \/ ChildReads \/ Fork \/ (\E p \in Procs : ProcExits(p))
           \/ (\E s \in Outputs : PumpStep(s) \/ ChildWrites(s)) \/ UNCHANGED vars
  BY <1>1, <1>4 DEF ExecStep, ReadSpawn, ReadSpawnFails, Reap, SendExit, ControlStep, Control,
    WriteStdin, ControlEnds, ChildReads, Fork, ProcExits, PumpStep, PumpOut, PumpBody,
    PumpEnds, ChildWrites
<1> QED
  BY <1>2, <1>3, <1>4 DEF Next

LEMMA CopyEndStep ==
  ASSUME Stage, Opened, CopyEnd, [Next]_vars
  PROVE  CopyEnd'
<1> USE DEF vars, parentVars, proxyVars, bridgeVars, execVars, childVars, CopyEnd
<1>1. CASE UNCHANGED <<upCopy, brg, link, exe>> /\ (prx = "exited" => prx' = "exited")
  BY <1>1
<1>2. CASE Signal \/ KillProxy \/ Dial \/ SendSpawn \/ Notify \/ MainFrame \/ MainEof
  BY <1>2 DEF Signal, KillProxy, Dial, SendSpawn, Notify, MainFrame, MainEof, Opened
<1>3. CASE BridgeStep \/ Cut
  BY <1>3 DEF BridgeStep, BridgeDial, BridgeCloses, Cut, Opened
<1>4. CASE UpStep
  BY <1>4 DEF UpStep, CopyUp, CopyUpEnds
<1>5. CASE ExecStep
  BY <1>5 DEF ExecStep, ReadSpawn, ReadSpawnFails, Reap, SendExit
<1>6. CASE Type \/ CloseStdin \/ StdinStep \/ ForwardSignal \/ DownStep
  BY <1>1, <1>6 DEF Type, CloseStdin, StdinStep, PumpStdin, PumpStdinBody, ForwardSignal,
    DownStep, CopyDown, CopyDownEnds
<1>7. CASE ControlStep \/ ChildReads \/ Fork \/ (\E p \in Procs : ProcExits(p))
           \/ (\E s \in Outputs : PumpStep(s) \/ ChildWrites(s)) \/ UNCHANGED vars
  BY <1>1, <1>7 DEF ControlStep, Control, WriteStdin, ControlEnds, ChildReads, Fork, ProcExits,
    PumpStep, PumpOut, PumpBody, PumpEnds, ChildWrites
<1> QED
  BY <1>2, <1>3, <1>4, <1>5, <1>6, <1>7 DEF Next, ProxyStep

LEMMA EofSeenStep ==
  ASSUME UpTypes, Stage, Opened, EofSeen, [Next]_vars
  PROVE  EofSeen'
<1> USE DEF vars, parentVars, proxyVars, bridgeVars, execVars, childVars
<1>0. Waiting' => Waiting
  BY FeedingStays
<1>1. CASE UNCHANGED <<ctl, sawEof, stdinOpen, tty>>
  BY <1>0, <1>1 DEF EofSeen
<1>2. CASE ReadSpawn
  <2>1. Waiting /\ ~Waiting' /\ sawEof' = sawEof
    BY <1>2 DEF ReadSpawn, Waiting
  <2> QED
    BY <2>1 DEF EofSeen
<1>3. CASE Reap
  BY <1>0, <1>3 DEF Reap, EofSeen
<1>4. CASE Control \/ ControlEnds
  BY <1>0, <1>4 DEF Control, ControlEnds, EofSeen
<1>5. CASE WriteStdin
  <2>1. ctl = "write" /\ sawEof' = sawEof /\ stdinOpen' = stdinOpen
        /\ (sawEof => tty' = tty)
    BY <1>5 DEF WriteStdin, EofSeen
  <2> QED
    BY <1>0, <2>1 DEF EofSeen
<1>6. CASE ChildReads
  <2>1. ~GroupEnded /\ ctl' = ctl /\ stdinOpen' = stdinOpen
        /\ \/ tty # <<>> /\ sawEof' = sawEof
           \/ tty = <<>> /\ ~stdinOpen /\ tty' = tty
    BY <1>6 DEF ChildReads
  <2>2. ~Waiting
    <3>1. Waiting => proc["leader"] = "none"
      BY DEF Waiting, Stage
    <3> QED
      BY <2>1, <3>1, GroupFacts DEF Stage
  <2>3. tty # <<>> => Len(tty) # 0
    BY DEF UpTypes
  <2>4. tty = <<>> => Len(tty) = 0
    OBVIOUS
  <2> QED
    BY <1>0, <2>1, <2>2, <2>3, <2>4 DEF EofSeen
<1>7. CASE Type \/ CloseStdin \/ Signal \/ KillProxy \/ ProxyStep \/ ForwardSignal \/ StdinStep
           \/ UpStep \/ DownStep \/ Cut \/ BridgeStep
  BY <1>1, <1>7 DEF Type, CloseStdin, Signal, KillProxy, ProxyStep, Dial, SendSpawn, Notify,
    MainFrame, MainEof, ForwardSignal, StdinStep, PumpStdin, PumpStdinBody, UpStep, CopyUp,
    CopyUpEnds, DownStep, CopyDown, CopyDownEnds, Cut, BridgeStep, BridgeDial, BridgeCloses
<1>8. CASE ReadSpawnFails \/ SendExit \/ Fork \/ (\E p \in Procs : ProcExits(p))
           \/ (\E s \in Outputs : PumpStep(s) \/ ChildWrites(s)) \/ UNCHANGED vars
  BY <1>1, <1>8 DEF ReadSpawnFails, SendExit, Fork, ProcExits, PumpStep, PumpOut, PumpBody,
    PumpEnds, ChildWrites
<1> QED
  BY <1>2, <1>3, <1>4, <1>5, <1>6, <1>7, <1>8 DEF Next, ExecStep, ControlStep

LEMMA InputOverStep ==
  ASSUME UpTypes, UpTypes', Stage, Opened, UpQueue, InputEnd, CopyEnd, EofSeen, InputOver,
         [Next]_vars
  PROVE  InputOver'
<1> USE DEF vars, parentVars, proxyVars, bridgeVars, execVars, childVars
<1>0. Feeding' => Feeding
  BY FeedingStays
<1>1. ASSUME UNCHANGED <<typed, taken, eaten, tty, stdinOpen, exe>>, inClosed => inClosed',
             Intact' => Intact, GroupEnded => GroupEnded'
      PROVE  InputOver'
  BY <1>1 DEF InputOver
<1>2. ASSUME UNCHANGED <<typed, taken, eaten, tty, stdinOpen, exe, proc>>, inClosed => inClosed',
             Intact' => Intact
      PROVE  InputOver'
  <2>1. GroupEnded' = GroupEnded
    BY <1>2 DEF GroupEnded, Running
  <2> QED
    BY <1>1, <1>2, <2>1
<1>3. CASE Type
  BY <1>3 DEF Type, InputOver, Intact, GroupEnded, Running
<1>4. CASE CloseStdin \/ Signal \/ KillProxy \/ ProxyStep \/ ForwardSignal
  BY <1>2, <1>4 DEF CloseStdin, Signal, KillProxy, ProxyStep, Dial, SendSpawn, Notify,
    MainFrame, MainEof, ForwardSignal, ProxyExits, Intact
<1>5. CASE StdinStep
  <2>1. CASE PumpStdinBody
    BY <1>2, <2>1 DEF PumpStdinBody, Intact
  <2>2. CASE PumpStdin
    <3>1. /\ UNCHANGED <<prx, link, exe, proc, stdinOpen, inClosed, typed, eaten, tty>>
          /\ taken < typed \/ taken' = taken
      BY <2>2 DEF PumpStdin
    <3>2. GroupEnded' = GroupEnded /\ Intact' = Intact
      BY <3>1 DEF GroupEnded, Running, Intact
    <3>3. taken \in Nat /\ typed \in Nat
      BY DEF UpTypes
    <3> QED
      BY <3>1, <3>2, <3>3 DEF InputOver
  <2> QED
    BY <1>5, <2>1, <2>2 DEF StdinStep
<1>6. CASE BridgeStep \/ Cut
  BY <1>2, <1>6 DEF BridgeStep, BridgeDial, BridgeCloses, Cut, Intact, InputOver, Opened
<1>7. CASE UpStep \/ DownStep
  BY <1>2, <1>7 DEF UpStep, CopyUp, CopyUpEnds, DownStep, CopyDown, CopyDownEnds, Intact
<1>8. CASE ExecStep
  BY <1>8 DEF ExecStep, ReadSpawn, ReadSpawnFails, Reap, SendExit, InputOver
<1>9. CASE Control
  <2>1. /\ UNCHANGED <<prx, link, exe, inClosed, typed, taken, eaten, tty>>
        /\ (UNCHANGED stdinOpen \/ UNCHANGED proc)
        /\ ctl = "read"
    BY <1>9 DEF Control
  <2>2. ~Waiting
    BY <2>1 DEF EofSeen
  <2>3. Intact' = Intact
    BY <2>1 DEF Intact
  <2>4. GroupEnded => GroupEnded'
    BY <1>9 DEF Control, GroupEnded, Running
  <2>5. CASE stdinOpen' = stdinOpen
    BY <1>1, <2>1, <2>3, <2>4, <2>5
  <2>6. CASE stdinOpen' # stdinOpen
    <3> SUFFICES ASSUME Intact, exe = "pumping", ~GroupEnded, ~stdinOpen'
                 PROVE  inClosed /\ taken = typed /\ Len(eaten) + Len(tty) = typed
      BY <2>1, <2>3, <2>4 DEF InputOver
    <3>1. CASE ~stdinOpen
      BY <3>1 DEF InputOver
    <3>2. CASE stdinOpen
      <4>1. Feeding /\ CanSend
        BY <3>2 DEF Feeding, CanSend, Intact, CopyEnd
      <4>2. inPump = "done" /\ Len(eaten) + Len(tty) = SentIn
        BY <1>0, <1>9, <2>2, <2>6, <4>1, UpControl
      <4> QED
        BY <4>2 DEF InputEnd, SentIn
    <3> QED
      BY <3>1, <3>2 DEF UpTypes
  <2> QED
    BY <2>5, <2>6
<1>10. CASE WriteStdin
  <2>1. /\ UNCHANGED <<prx, link, exe, proc, inClosed, typed, taken, eaten, stdinOpen>>
        /\ ~stdinOpen => tty' = tty
    BY <1>10 DEF WriteStdin
  <2>2. GroupEnded' = GroupEnded /\ Intact' = Intact
    BY <2>1 DEF GroupEnded, Running, Intact
  <2> QED
    BY <2>1, <2>2 DEF InputOver
<1>11. CASE ControlEnds
  <2>1. /\ UNCHANGED <<prx, link, exe>>
        /\ exe = "closed" \/ upCopy = "done" \/ link = "cut"
    BY <1>11 DEF ControlEnds
  <2> QED
    BY <2>1 DEF CopyEnd, InputOver, Intact
<1>12. CASE ChildReads
  <2>1. /\ UNCHANGED <<prx, link, exe, proc, inClosed, typed, taken, stdinOpen>>
        /\ \/ tty # <<>> /\ eaten' = Append(eaten, Head(tty)) /\ tty' = Tail(tty)
           \/ UNCHANGED <<eaten, tty>>
    BY <1>12 DEF ChildReads
  <2>2. GroupEnded' = GroupEnded /\ Intact' = Intact
    BY <2>1 DEF GroupEnded, Running, Intact
  <2>3. Len(eaten') + Len(tty') = Len(eaten) + Len(tty)
    <3>1. CASE UNCHANGED <<eaten, tty>>
      BY <3>1
    <3>2. CASE tty # <<>> /\ eaten' = Append(eaten, Head(tty)) /\ tty' = Tail(tty)
      <4>1. /\ Len(eaten) \in Nat /\ Len(tty) \in Nat
            /\ Len(eaten') = Len(eaten) + 1 /\ Len(tty') = Len(tty) - 1
        BY <3>2, TailAt, AppendAt DEF UpTypes
      <4> QED
        BY <4>1
    <3> QED
      BY <2>1, <3>1, <3>2
  <2> QED
    BY <2>1, <2>2, <2>3 DEF InputOver
<1>13. CASE Fork \/ \E p \in Procs : ProcExits(p)
  <2>1. GroupEnded => GroupEnded'
    BY <1>13, GroupFacts DEF Fork, ProcExits, GroupEnded, Running
  <2> QED
    BY <1>1, <1>13, <2>1 DEF Fork, ProcExits, Intact
<1>14. CASE (\E s \in Outputs : PumpStep(s) \/ ChildWrites(s)) \/ UNCHANGED vars
  BY <1>2, <1>14 DEF PumpStep, PumpOut, PumpBody, PumpEnds, ChildWrites, Intact
<1> QED
  BY <1>3, <1>4, <1>5, <1>6, <1>7, <1>8, <1>9, <1>10, <1>11, <1>12, <1>13, <1>14
     DEF Next, ControlStep

LEMMA ChunksStep ==
  ASSUME UpTypes, UpTypes', Stage, Opened, UpQueue, EofSeen, Chunks, [Next]_vars
  PROVE  Chunks'
<1> USE DEF vars, parentVars, proxyVars, bridgeVars, execVars, childVars
<1>0. (Feeding' => Feeding) /\ eaten \in Seq(Int) /\ tty \in Seq(Int)
  BY FeedingStays DEF UpTypes
<1>1. ASSUME UNCHANGED <<eaten, tty>>, ctl' = "write" => ctl = "write" /\ held' = held
      PROVE  Chunks'
  BY <1>0, <1>1 DEF Chunks
<1>2. CASE Control
  <2>1. ctl = "read" /\ UNCHANGED <<eaten, tty>>
    BY <1>2 DEF Control
  <2>2. ~Waiting
    BY <2>1 DEF EofSeen
  <2>3. Feeding /\ ctl' = "write" => held' = Len(eaten) + Len(tty) + 1
    BY <1>0, <1>2, <2>2, UpControl
  <2> QED
    BY <1>0, <2>1, <2>3 DEF Chunks
<1>3. CASE WriteStdin
  <2>1. ctl = "write" /\ ctl' = "read" /\ eaten' = eaten
        /\ (tty' = tty \/ (Feeding /\ tty' = Append(tty, held)))
    BY <1>3 DEF WriteStdin, Feeding
  <2>2. CASE tty' = tty
    BY <1>1, <2>1, <2>2
  <2>3. CASE Feeding /\ tty' = Append(tty, held)
    <3>1. held = Len(eaten) + Len(tty) + 1 /\ Counted(eaten \o tty) /\ held \in Int
      BY <2>1, <2>3 DEF Chunks, UpTypes
    <3> DEFINE q == eaten \o tty
               r == eaten \o tty'
    <3>2. /\ q \in Seq(Int) /\ Len(q) = Len(eaten) + Len(tty) /\ Len(eaten) \in Nat
          /\ Len(tty) \in Nat /\ r \in Seq(Int)
      BY <1>0, <2>3, <3>1, ConcatAt, AppendAt
    <3>3. Adds(q, r, held)
      BY <1>0, <2>3, <3>1, AddEffect
    <3> HIDE DEF q, r
    <3>4. /\ Len(r) = Len(q) + 1 /\ r[Len(q) + 1] = held /\ \A i \in 1..Len(q) : r[i] = q[i]
      BY <3>3 DEF Adds
    <3>5. DOMAIN r = 1..Len(q) + 1 /\ DOMAIN q = 1..Len(q) /\ Len(q) \in Nat
      BY <3>2, <3>4
    <3>6. held = Len(q) + 1
      BY <3>1, <3>2
    <3>7. \A i \in 1..Len(q) : q[i] = i
      BY <3>1, <3>5 DEF Counted, q
    <3>8. Counted(r)
      BY <3>4, <3>5, <3>6, <3>7 DEF Counted
    <3> QED
      BY <2>1, <3>8 DEF Chunks, r
  <2> QED
    BY <2>1, <2>2, <2>3
<1>4. CASE ChildReads
  <2>1. /\ UNCHANGED <<ctl, held>>
        /\ \/ tty # <<>> /\ eaten' = Append(eaten, Head(tty)) /\ tty' = Tail(tty)
           \/ UNCHANGED <<eaten, tty>>
    BY <1>4 DEF ChildReads
  <2>2. CASE UNCHANGED <<eaten, tty>>
    BY <1>1, <2>1, <2>2
  <2>3. CASE tty # <<>> /\ eaten' = Append(eaten, Head(tty)) /\ tty' = Tail(tty)
    <3> DEFINE q == eaten \o tty
               r == eaten' \o tty'
    <3>1. Same(q, r)
      BY <1>0, <2>3, MoveEffect
    <3>2. /\ q \in Seq(Int) /\ r \in Seq(Int)
          /\ Len(q) = Len(eaten) + Len(tty) /\ Len(r) = Len(eaten') + Len(tty')
      BY <1>0, ConcatAt DEF UpTypes
    <3>3. Counted(q)
      BY DEF Chunks
    <3> HIDE DEF q, r
    <3>4. Len(r) = Len(q) /\ (\A i \in 1..Len(q) : r[i] = q[i])
      BY <3>1 DEF Same
    <3>5. DOMAIN r = 1..Len(r) /\ DOMAIN q = 1..Len(q)
      BY <3>2
    <3>6. Counted(r)
      BY <3>3, <3>4, <3>5 DEF Counted
    <3>7. Len(eaten') + Len(tty') = Len(eaten) + Len(tty)
      BY <3>2, <3>4
    <3> QED
      BY <1>0, <2>1, <3>6, <3>7 DEF Chunks, r
  <2> QED
    BY <2>1, <2>2, <2>3
<1>5. CASE ReadSpawn \/ ControlEnds
  BY <1>1, <1>5 DEF ReadSpawn, ControlEnds
<1>6. CASE Type \/ CloseStdin \/ Signal \/ KillProxy \/ ProxyStep \/ ForwardSignal \/ StdinStep
           \/ UpStep \/ DownStep \/ Cut \/ BridgeStep
  BY <1>1, <1>6 DEF Type, CloseStdin, Signal, KillProxy, ProxyStep, Dial, SendSpawn, Notify,
    MainFrame, MainEof, ForwardSignal, StdinStep, PumpStdin, PumpStdinBody, UpStep, CopyUp,
    CopyUpEnds, DownStep, CopyDown, CopyDownEnds, Cut, BridgeStep, BridgeDial, BridgeCloses
<1>7. CASE ReadSpawnFails \/ Reap \/ SendExit \/ Fork \/ (\E p \in Procs : ProcExits(p))
           \/ (\E s \in Outputs : PumpStep(s) \/ ChildWrites(s)) \/ UNCHANGED vars
  BY <1>1, <1>7 DEF ReadSpawnFails, Reap, SendExit, Fork, ProcExits, PumpStep, PumpOut,
    PumpBody, PumpEnds, ChildWrites
<1> QED
  BY <1>2, <1>3, <1>4, <1>5, <1>6, <1>7 DEF Next, ExecStep, ControlStep

LEMMA UpQueueStep ==
  ASSUME UpTypes, UpTypes', Stage, Opened, UpQueue, EofSeen, Chunks, [Next]_vars
  PROVE  UpQueue'
<1> USE DEF vars, parentVars, proxyVars, bridgeVars, execVars, childVars
<1>0. (Feeding' => Feeding) /\ (Waiting' => Waiting)
  BY FeedingStays
<1>1. ASSUME UNCHANGED <<up1, up2, inPump, taken, prx>>, link' = "cut" <=> link = "cut",
             CanSend' => CanSend, Feeding' => Fed' = Fed
      PROVE  UpQueue'
  BY <1>0, <1>1, UpStays
<1>2. ASSUME UNCHANGED <<up1, up2, inPump, taken, link, eaten, tty, ctl, prx>>,
             CanSend' => CanSend
      PROVE  UpQueue'
  BY <1>1, <1>2 DEF Fed
<1>3. ASSUME UNCHANGED <<up1, up2, inPump, taken, link, brg, eaten, tty, ctl>>,
             prx' \in {"sent", "run"} => prx \in {"sent", "run"},
             prx' \in {"dial", "dialled"} => prx \in {"dial", "dialled"}
      PROVE  UpQueue'
  <2>1. CanSend' = CanSend /\ Fed' = Fed
    BY <1>3 DEF CanSend, Fed
  <2> QED
    BY <1>0, <1>3, <2>1, UpStays
<1>4. CASE Dial
  <2>1. /\ UNCHANGED <<up1, up2, inPump, taken, link, eaten, tty, ctl>> /\ prx = "dial"
        /\ prx' \in {"dialled", "exited"} /\ brg = "none"
    BY <1>4 DEF Dial, ProxyExits, Opened
  <2>2. (CanSend' => CanSend) /\ Fed' = Fed
    BY <2>1 DEF CanSend, Fed
  <2> QED
    BY <1>0, <2>1, <2>2, UpStays
<1>5. CASE Signal \/ KillProxy \/ Notify \/ MainFrame \/ MainEof
  BY <1>3, <1>5 DEF Signal, KillProxy, Notify, MainFrame, MainEof, ProxyExits
<1>6. CASE SendSpawn
  BY <1>0, <1>6, UpSendSpawn
<1>7. CASE ForwardSignal \/ StdinStep \/ CopyUp \/ Cut
  BY <1>0, <1>7, UpForwardSignal, UpPumpStdin, UpPumpBody, UpCopyUp, UpBreaks DEF StdinStep
<1>8. CASE BridgeStep
  <2>1. /\ UNCHANGED <<up1, up2, inPump, taken, eaten, tty, ctl, prx>>
        /\ link' = "cut" <=> link = "cut"
    BY <1>8 DEF BridgeStep, BridgeDial, BridgeCloses, Opened
  <2>2. (CanSend' => CanSend) /\ Fed' = Fed
    BY <1>8, <2>1 DEF BridgeStep, BridgeDial, BridgeCloses, CanSend, Fed
  <2> QED
    BY <1>1, <2>1, <2>2
<1>9. CASE ReadSpawn
  BY <1>9, UpReadSpawn DEF EofSeen
<1>10. CASE Control
  <2>1. ~Waiting
    BY <1>10 DEF Control, EofSeen
  <2> QED
    BY <1>0, <1>10, <2>1, UpControl
<1>11. CASE WriteStdin
  <2>1. /\ ctl = "write" /\ ctl' = "read"
        /\ UNCHANGED <<up1, up2, inPump, taken, link, brg, eaten, prx, exe, stdinOpen, proc>>
        /\ (stdinOpen /\ ~GroupEnded) => tty' = Append(tty, held)
    BY <1>11 DEF WriteStdin
  <2>2. ~Waiting
    BY <2>1 DEF EofSeen
  <2>3. Feeding => Len(tty') = Len(tty) + 1
    BY <2>1, <2>2, AppendAt DEF Feeding, UpTypes
  <2>4. Feeding => Fed' = Fed
    <3>1. Len(eaten) \in Nat /\ Len(tty) \in Nat
      BY UpIsSeq
    <3> QED
      BY <2>1, <2>3, <3>1 DEF Fed
  <2>5. CanSend' = CanSend
    BY <2>1 DEF CanSend
  <2> QED
    BY <1>0, <1>1, <2>1, <2>4, <2>5
<1>12. CASE ControlEnds
  <2>1. /\ UNCHANGED <<up1, up2, inPump, taken, link, brg, eaten, tty, prx>>
        /\ ctl = "read" /\ ctl' = "done"
    BY <1>12 DEF ControlEnds
  <2>2. CanSend' = CanSend /\ Fed' = Fed
    BY <2>1 DEF CanSend, Fed
  <2> QED
    BY <1>1, <2>1, <2>2
<1>13. CASE ChildReads
  <2>1. /\ UNCHANGED <<up1, up2, inPump, taken, link, brg, ctl, prx>>
        /\ \/ tty # <<>> /\ eaten' = Append(eaten, Head(tty)) /\ tty' = Tail(tty)
           \/ UNCHANGED <<eaten, tty>>
    BY <1>13 DEF ChildReads
  <2>2. Len(eaten') + Len(tty') = Len(eaten) + Len(tty)
    <3>1. CASE UNCHANGED <<eaten, tty>>
      BY <3>1
    <3>2. CASE tty # <<>> /\ eaten' = Append(eaten, Head(tty)) /\ tty' = Tail(tty)
      <4>1. /\ Len(eaten) \in Nat /\ Len(tty) \in Nat
            /\ Len(eaten') = Len(eaten) + 1 /\ Len(tty') = Len(tty) - 1
        BY <3>2, TailAt, AppendAt DEF UpTypes
      <4> QED
        BY <4>1
    <3> QED
      BY <2>1, <3>1, <3>2
  <2>3. CanSend' = CanSend /\ Fed' = Fed
    BY <2>1, <2>2 DEF CanSend, Fed
  <2> QED
    BY <1>1, <2>1, <2>3
<1>14. ASSUME UNCHANGED <<up1, up2, inPump, taken, link, brg, eaten, tty, ctl, prx>>
       PROVE  UpQueue'
  BY <1>3, <1>14
<1>15. CASE Type \/ CloseStdin \/ CopyUpEnds \/ DownStep
  BY <1>14, <1>15 DEF Type, CloseStdin, CopyUpEnds, DownStep, CopyDown, CopyDownEnds
<1>16. CASE ReadSpawnFails \/ Reap \/ SendExit \/ Fork \/ (\E p \in Procs : ProcExits(p))
            \/ (\E s \in Outputs : PumpStep(s) \/ ChildWrites(s)) \/ UNCHANGED vars
  BY <1>14, <1>16 DEF ReadSpawnFails, Reap, SendExit, Fork, ProcExits, PumpStep, PumpOut,
    PumpBody, PumpEnds, ChildWrites
<1> QED
  BY <1>4, <1>5, <1>6, <1>7, <1>8, <1>9, <1>10, <1>11, <1>12, <1>13, <1>15, <1>16
     DEF Next, ProxyStep, UpStep, ExecStep, ControlStep

UpInv == UpTypes /\ UpQueue /\ InputEnd /\ CopyEnd /\ EofSeen /\ InputOver /\ Chunks

LEMMA UpInit == Init => UpInv
<1> SUFFICES ASSUME Init PROVE UpInv
  OBVIOUS
<1>1. /\ up1 = <<>> /\ up2 = <<>> /\ eaten = <<>> /\ tty = <<>> /\ held = 0 /\ typed = 0
      /\ taken = 0 /\ inPump = "read" /\ ctl = "none" /\ exe = "none" /\ prx = "dial"
      /\ upCopy = "copy" /\ brg = "none" /\ link = "none" /\ ~sawEof /\ ~stdinOpen
  BY DEF Init
<1>2. UpTypes
  BY <1>1 DEF UpTypes
<1>3. /\ Up = <<>> \o <<>> /\ Up \in Seq(Token) /\ Len(Up) = 0 /\ Fed = 0 /\ SentIn = 0
      /\ Len(up1) = 0 /\ Len(up2) = 0
  <2>1. Up = up2 \o up1 /\ up1 \in Seq(Token) /\ up2 \in Seq(Token)
    BY <1>1 DEF Up
  <2>2. Up \in Seq(Token) /\ Len(Up) = Len(up2) + Len(up1)
    BY <2>1, ConcatAt
  <2> QED
    BY <1>1, <2>1, <2>2 DEF Fed, SentIn
<1>4. (\A i \in 1..Len(Up) : FALSE) /\ (\A i \in 2..Len(Up) : FALSE)
      /\ \A i \in 1..Len(Up) - 1 : FALSE
  BY <1>3
<1>5. UpFlow(Up) /\ ~EofIn(Up) /\ ~EndsInHeader(Up)
  BY <1>3, <1>4 DEF UpFlow, Framed, EofIn, EndsInHeader
<1>6. Numbered(Up, "stdin", Fed, SentIn) /\ Reaches(Up, "stdin", Fed, SentIn)
  BY <1>3, <1>4 DEF Numbered, Reaches
<1>7. UpQueue
  BY <1>1, <1>3, <1>5, <1>6 DEF UpQueue
<1>8. Counted(eaten \o tty)
  <2>1. eaten \o tty \in Seq(Int) /\ Len(eaten \o tty) = Len(eaten) + Len(tty)
    BY <1>2, ConcatAt DEF UpTypes
  <2>2. Len(eaten) = 0 /\ Len(tty) = 0
    BY <1>1
  <2>3. DOMAIN (eaten \o tty) = 1..0
    BY <2>1, <2>2
  <2> QED
    BY <2>3 DEF Counted
<1>9. InputEnd /\ CopyEnd /\ EofSeen /\ InputOver /\ Chunks
  BY <1>1, <1>8 DEF InputEnd, CopyEnd, EofSeen, InputOver, Chunks, Intact
<1> QED
  BY <1>2, <1>7, <1>9 DEF UpInv

LEMMA UpInvariant == Spec => [](Stage /\ UpInv)
<1>1. ASSUME Stage, Opened, UpInv, [Next]_vars
      PROVE  UpInv'
  <2>1. UpTypes'
    BY <1>1, UpTypesStep DEF UpInv
  <2>2. UpQueue' /\ Chunks'
    BY <1>1, <2>1, UpQueueStep, ChunksStep DEF UpInv
  <2>3. InputEnd' /\ CopyEnd' /\ EofSeen'
    BY <1>1, InputEndStep, CopyEndStep, EofSeenStep DEF UpInv
  <2>4. InputOver'
    BY <1>1, <2>1, InputOverStep DEF UpInv
  <2> QED
    BY <2>1, <2>2, <2>3, <2>4 DEF UpInv
<1> QED
  BY <1>1, UpInit, DownInvariant, PTL DEF Spec

\* Nothing that flows either way is lost, repeated, reordered or mixed with
\* another frame (the two wmu, the two writes of WriteChunk, splice): the proxy
\* has output a prefix of what the group wrote, and the group is given a prefix
\* of what was typed, whatever is killed, cut or signalled meanwhile.
THEOREM StreamsInOrder == Spec => []InOrder
<1>1. Stage /\ DownInv /\ UpInv => InOrder
  BY OutputOrder DEF InOrder, OutputInOrder, UpInv, Chunks
<1> QED
  BY <1>1, DownInvariant, UpInvariant, PTL

\* While the relay holds, the group sees the end of its input only after the
\* parent closed it and all of it was read (stdinPump, WriteChunk, the control
\* reader of serveExec).
THEOREM EofComesLast == Spec => []EofAfterInput
<1>1. Stage /\ UpInv => EofAfterInput
  <2> SUFFICES ASSUME Stage, UpInv, sawEof, Intact, exe \in {"pumping", "exiting"}, ~GroupEnded
               PROVE  inClosed /\ Len(eaten) = typed
    BY DEF EofAfterInput
  <2>1. exe = "pumping"
    <3> SUFFICES ASSUME exe = "exiting" PROVE FALSE
      OBVIOUS
    <3>1. "stdout" \in Outputs /\ PumpsDone
      BY DEF Stage, Outputs
    <3> QED
      BY <3>1 DEF PumpsDone, Stage
  <2>2. ~stdinOpen /\ Len(tty) = 0
    BY DEF UpInv, EofSeen
  <2>3. inClosed /\ Len(eaten) + Len(tty) = typed
    BY <2>1, <2>2 DEF UpInv, InputOver
  <2>4. Len(eaten) \in Nat
    BY DEF UpInv, UpTypes
  <2> QED
    BY <2>2, <2>3, <2>4
<1> QED
  BY <1>1, UpInvariant, PTL
----------------------------------------------------------------------------
(* Types, and the bounds of the buffers.                                    *)

Ends == [by : {"exit", "eof", "error", "killed"}, code : 0..255]

\* What the ends of a subprocess are about, and who has reached which.
Modes ==
  /\ load \in Loads /\ inClosed \in BOOLEAN /\ stdinOpen \in BOOLEAN /\ sawEof \in BOOLEAN
  /\ typed <= load.in /\ sigSent \in 0..load.signals /\ sigc \in 0..sigSent
  /\ prx \in {"dial", "dialled", "sent", "run", "exited"}
  /\ status = None \/ status \in Ends
  /\ brg \in {"none", "dial", "splice", "done"}
  /\ upCopy \in {"copy", "done"} /\ dnCopy \in {"copy", "done"}
  /\ link \in {"none", "up", "cut"}
  /\ \A s \in Outputs : wrote[s] <= load.out[s]

\* No leg of the relay holds more than its buffer does.
Legs ==
  /\ Len(up1) <= WireCap /\ Len(up2) <= WireCap
  /\ Len(dn1) <= WireCap /\ Len(dn2) <= WireCap

\* On the way up a body is a chunk that was typed, and nothing else has a number.
Typed(t)     == IF t.part = "body" THEN t.n \in 1..load.in ELSE t.n = 0
AllTyped(q)  == \A i \in 1..Len(q) : Typed(q[i])

Inputs ==
  /\ AllTyped(up1) /\ AllTyped(up2) /\ (inPump = "body" => taken # 0)
  /\ held \in 0..load.in /\ (ctl = "write" => held # 0)
  /\ tty \in Seq(1..load.in) /\ Len(tty) <= PipeCap /\ eaten \in Seq(1..load.in)

\* What the load and the capacities are.
LEMMA LoadFacts ==
  ASSUME BoundsAssumption, load \in Loads
  PROVE  /\ load.in \in Nat /\ load.signals \in Nat /\ \A s \in Outputs : load.out[s] \in Nat
         /\ WireCap \in Nat /\ WireCap >= 2 /\ PipeCap \in Nat /\ PipeCap >= 1
<1>1. load \in [in : Nat, out : [Outputs -> Nat], signals : 0..4]
  BY DEF BoundsAssumption
<1>2. WireCap \in Nat \ {0, 1} /\ PipeCap \in Nat \ {0}
  BY DEF BoundsAssumption
<1> QED
  BY <1>1, <1>2

\* No step sizes the load anew.
LEMMA LoadSame ==
  ASSUME [Next]_vars
  PROVE  load' = load
<1> USE DEF vars, parentVars, proxyVars, bridgeVars, execVars, childVars
<1>1. CASE Type \/ CloseStdin \/ Signal \/ KillProxy \/ ProxyStep \/ ForwardSignal \/ StdinStep
  BY <1>1 DEF Type, CloseStdin, Signal, KillProxy, ProxyStep, Dial, SendSpawn, Notify,
    MainFrame, MainEof, ForwardSignal, StdinStep, PumpStdin, PumpStdinBody
<1>2. CASE BridgeStep \/ UpStep \/ DownStep \/ Cut
  BY <1>2 DEF BridgeStep, BridgeDial, BridgeCloses, UpStep, CopyUp, CopyUpEnds, DownStep,
    CopyDown, CopyDownEnds, Cut
<1>3. CASE ExecStep \/ ControlStep \/ ChildReads \/ Fork
  BY <1>3 DEF ExecStep, ReadSpawn, ReadSpawnFails, Reap, SendExit, ControlStep, Control,
    WriteStdin, ControlEnds, ChildReads, Fork
<1>4. CASE (\E s \in Outputs : PumpStep(s) \/ ChildWrites(s)) \/ (\E p \in Procs : ProcExits(p))
  BY <1>4 DEF PumpStep, PumpOut, PumpBody, PumpEnds, ChildWrites, ProcExits
<1> QED
  BY <1>1, <1>2, <1>3, <1>4 DEF Next

LEMMA ModesStep ==
  ASSUME BoundsAssumption, Stage, DownInv, UpTypes, Modes, [Next]_vars
  PROVE  Modes'
<1> USE DEF vars, parentVars, proxyVars, bridgeVars, execVars, childVars
<1>1. /\ load' = load /\ load.in \in Nat /\ load.signals \in Nat
      /\ \A s \in Outputs : load.out[s] \in Nat
  BY LoadSame, LoadFacts DEF Modes
<1>2. CASE UNCHANGED <<inClosed, stdinOpen, sawEof, typed, sigSent, sigc, prx, status, brg,
                       upCopy, dnCopy, link, wrote>>
  BY <1>1, <1>2 DEF Modes
<1>3. CASE Type
  <2>1. typed' = typed + 1 /\ typed < load.in /\ typed \in Nat
    BY <1>3 DEF Type, UpTypes
  <2>2. typed' <= load.in
    BY <1>1, <2>1
  <2> QED
    BY <1>1, <1>3, <2>2 DEF Type, Modes
<1>4. ASSUME NEW x \in {"exit", "eof", "error", "killed"}, NEW n \in 0..255, ProxyExits(x, n)
      PROVE  /\ prx' \in {"dial", "dialled", "sent", "run", "exited"}
             /\ status' \in Ends
  BY <1>4 DEF ProxyExits, Ends
<1>a. ProxyExits("killed", 0) \/ ProxyExits("error", 127) \/ ProxyExits("eof", 0) =>
         prx' = "exited" /\ status' \in Ends
  BY DEF ProxyExits, Ends
<1>5. CASE Signal
  <2>1. /\ sigSent' \in 0..load.signals /\ sigc' \in 0..sigSent'
    BY <1>1, <1>5 DEF Signal, Modes
  <2>2. /\ prx' \in {"dial", "dialled", "sent", "run", "exited"}
        /\ status' = None \/ status' \in Ends
    BY <1>a, <1>5 DEF Signal, Modes
  <2> QED
    BY <1>1, <1>5, <2>1, <2>2 DEF Signal, Modes
<1>6. CASE KillProxy \/ Dial \/ SendSpawn \/ MainEof
  <2>1. /\ prx' \in {"dial", "dialled", "sent", "run", "exited"}
        /\ status' = None \/ status' \in Ends
    BY <1>a, <1>6 DEF KillProxy, Dial, SendSpawn, MainEof, Modes
  <2>2. brg' = brg \/ brg' = "dial"
    BY <1>6 DEF KillProxy, Dial, SendSpawn, MainEof
  <2>3. UNCHANGED <<inClosed, stdinOpen, sawEof, typed, sigSent, sigc, upCopy, dnCopy, link, wrote>>
    BY <1>6 DEF KillProxy, Dial, SendSpawn, MainEof
  <2> QED
    BY <1>1, <2>1, <2>2, <2>3 DEF Modes
<1>7. CASE MainFrame
  <2>1. Frame(dn1).n \in Int
    BY <1>7, FrameInt DEF MainFrame, DownInv
  <2>2. ExitStatus(Frame(dn1)) \in 0..255
    BY <2>1 DEF ExitStatus
  <2>3. /\ prx' \in {"dial", "dialled", "sent", "run", "exited"}
        /\ status' = None \/ status' \in Ends
    BY <1>4, <1>7, <2>2 DEF MainFrame, Modes
  <2> QED
    BY <1>1, <1>7, <2>3 DEF MainFrame, Modes
<1>8. CASE ForwardSignal
  <2>1. sigc' \in 0..sigSent
    BY <1>1, <1>8 DEF ForwardSignal, Modes
  <2> QED
    BY <1>1, <1>8, <2>1 DEF ForwardSignal, Modes
<1>9. CASE CloseStdin \/ Notify \/ BridgeStep \/ CopyUpEnds \/ CopyDownEnds \/ Cut
  <2>1. CASE CloseStdin \/ Notify
    <3>1. /\ inClosed' \in BOOLEAN /\ prx' \in {"dial", "dialled", "sent", "run", "exited"}
          /\ UNCHANGED <<stdinOpen, sawEof, typed, sigSent, sigc, status, brg, upCopy, dnCopy,
                         link, wrote>>
      BY <2>1 DEF CloseStdin, Notify, Modes
    <3> QED
      BY <1>1, <3>1 DEF Modes
  <2>2. CASE BridgeStep
    BY <1>1, <2>2 DEF BridgeStep, BridgeDial, BridgeCloses, Modes
  <2>3. CASE CopyUpEnds \/ CopyDownEnds \/ Cut
    BY <1>1, <2>3 DEF CopyUpEnds, CopyDownEnds, Cut, Modes
  <2> QED
    BY <1>9, <2>1, <2>2, <2>3
<1>10. CASE ReadSpawn \/ Reap \/ ControlEnds \/ ChildReads \/ Control
  <2>1. stdinOpen' \in BOOLEAN /\ sawEof' \in BOOLEAN
    BY <1>10 DEF ReadSpawn, Reap, ControlEnds, ChildReads, Control, Modes
  <2>2. UNCHANGED <<inClosed, typed, sigSent, sigc, prx, status, brg, upCopy, dnCopy, link, wrote>>
    BY <1>10 DEF ReadSpawn, Reap, ControlEnds, ChildReads, Control
  <2> QED
    BY <1>1, <2>1, <2>2 DEF Modes
<1>11. ASSUME NEW s \in Outputs, ChildWrites(s)
       PROVE  Modes'
  <2>1. wrote' = [wrote EXCEPT ![s] = @ + 1] /\ wrote[s] < load.out[s] /\ wrote \in [Outputs -> Nat]
    BY <1>11 DEF ChildWrites, Stage
  <2>2. \A t \in Outputs : wrote'[t] <= load.out[t]
    BY <1>1, <2>1 DEF Modes
  <2> QED
    BY <1>1, <1>11, <2>2 DEF ChildWrites, Modes
<1>12. CASE StdinStep \/ CopyUp \/ CopyDown \/ WriteStdin
  BY <1>2, <1>12 DEF StdinStep, PumpStdin, PumpStdinBody, CopyUp, CopyDown, WriteStdin
<1>13. CASE ReadSpawnFails \/ SendExit \/ Fork \/ (\E p \in Procs : ProcExits(p))
            \/ (\E s \in Outputs : PumpStep(s)) \/ UNCHANGED vars
  BY <1>2, <1>13 DEF ReadSpawnFails, SendExit, Fork, ProcExits, PumpStep, PumpOut, PumpBody,
    PumpEnds
<1> QED
  BY <1>3, <1>5, <1>6, <1>7, <1>8, <1>9, <1>10, <1>11, <1>12, <1>13
     DEF Next, ProxyStep, UpStep, DownStep, ExecStep, ControlStep

\* What the four operations on a leg do to its length.
LEMMA LegSizes ==
  ASSUME BoundsAssumption, NEW w \in Seq(Token), Len(w) <= WireCap
  PROVE  /\ Len(w) \in Nat
         /\ w # <<>> => Len(Tail(w)) <= WireCap
         /\ HasFrame(w) => Len(Rest(w)) <= WireCap
         /\ \A e \in Token : Room(w) => Len(Append(w, e)) <= WireCap
         /\ \A k \in 0..Len(w) : Len(SubSeq(w, 1, k)) <= WireCap
<1>1. Len(w) \in Nat /\ WireCap \in Nat
  BY DEF BoundsAssumption
<1>2. w # <<>> => Len(Tail(w)) <= WireCap
  BY <1>1, TailAt
<1>3. ASSUME HasFrame(w)
      PROVE  Len(Rest(w)) <= WireCap
  <2>1. Len(Rest(w)) = Len(w) - 1 \/ Len(Rest(w)) = Len(w) - 2
    BY <1>3, FrameEffect DEF Drops
  <2> QED
    BY <1>1, <2>1
<1>4. \A e \in Token : Room(w) => Len(Append(w, e)) <= WireCap
  BY <1>1, AppendAt DEF Room
<1>5. \A k \in 0..Len(w) : Len(SubSeq(w, 1, k)) <= WireCap
  BY <1>1, PrefixAt
<1> QED
  BY <1>1, <1>2, <1>3, <1>4, <1>5

LEMMA LegsStep ==
  ASSUME BoundsAssumption, Stage, DownInv, UpTypes, UpQueue, Legs, [Next]_vars
  PROVE  Legs'
<1> USE DEF vars, parentVars, proxyVars, bridgeVars, execVars, childVars
<1>1. up1 \in Seq(Token) /\ up2 \in Seq(Token) /\ dn1 \in Seq(Token) /\ dn2 \in Seq(Token)
  BY DEF UpTypes, DownInv
<1>2. CASE UNCHANGED <<up1, up2, dn1, dn2>>
  BY <1>2 DEF Legs
<1>3. \A e \in Token : ProxyWrite(e) => Len(up1') <= WireCap
  BY <1>1, LegSizes DEF ProxyWrite, Legs
<1>4. \A e \in Token : StreamWrite(e) => Len(dn2') <= WireCap
  BY <1>1, LegSizes DEF StreamWrite, Legs
<1>6. CASE SendSpawn
  <2>1. Len(up1) = 0 /\ WireCap \in Nat \ {0, 1}
    BY <1>6 DEF SendSpawn, UpQueue, BoundsAssumption
  <2>2. \A e \in Token : Len(Append(up1, e)) = 1
    BY <1>1, <2>1, AppendAt
  <2>3. up1' = up1 \/ up1' = Append(up1, Whole("spawn", 0))
    BY <1>6 DEF SendSpawn
  <2>4. Len(up1') = 0 \/ Len(up1') = 1
    BY <2>1, <2>2, <2>3, UpTokens
  <2>5. 0 <= WireCap /\ 1 <= WireCap
    BY <2>1
  <2>6. Len(up1') <= WireCap
    BY <2>4, <2>5
  <2> QED
    BY <1>6, <2>6 DEF SendSpawn, Legs
<1>7. CASE ForwardSignal
  BY <1>3, <1>7, UpTokens DEF ForwardSignal, Legs
<1>8. CASE StdinStep
  <2>1. taken \in Int
    BY DEF UpTypes
  <2>2. Len(up1') <= WireCap
    BY <1>3, <1>8, <2>1, UpTokens DEF StdinStep, PumpStdin, PumpStdinBody
  <2> QED
    BY <1>8, <2>2 DEF StdinStep, PumpStdin, PumpStdinBody, Legs
<1>9. CASE MainFrame
  <2>1. Len(dn1') <= WireCap
    BY <1>1, <1>9, LegSizes DEF MainFrame, Legs
  <2> QED
    BY <1>9, <2>1 DEF MainFrame, Legs
<1>10. CASE CopyUp
  <2>1. Head(up1) \in Token /\ Len(up1') <= WireCap
    BY <1>1, <1>10, TailAt, LegSizes DEF CopyUp, Legs
  <2>2. Len(up2') <= WireCap
    BY <1>1, <1>10, <2>1, LegSizes DEF CopyUp, Legs
  <2> QED
    BY <1>10, <2>1, <2>2 DEF CopyUp, Legs
<1>11. CASE CopyDown
  <2>1. Head(dn2) \in Token /\ Len(dn2') <= WireCap
    BY <1>1, <1>11, TailAt, LegSizes DEF CopyDown, Legs
  <2>2. Len(dn1') <= WireCap
    BY <1>1, <1>11, <2>1, LegSizes DEF CopyDown, Legs
  <2> QED
    BY <1>11, <2>1, <2>2 DEF CopyDown, Legs
<1>12. CASE Cut
  <2>1. Len(up2') <= WireCap /\ Len(dn2') <= WireCap
    BY <1>1, <1>12, LegSizes DEF Cut, Legs
  <2> QED
    BY <1>12, <2>1 DEF Cut, Legs
<1>13. CASE ReadSpawn
  <2>1. Len(up2') <= WireCap
    BY <1>1, <1>13, LegSizes DEF ReadSpawn, Legs
  <2>2. Len(dn2') <= WireCap
    BY <1>4, <1>13, TokenTypes DEF ReadSpawn, Legs
  <2> QED
    BY <1>13, <2>1, <2>2 DEF ReadSpawn, Legs
<1>14. CASE Control
  <2>1. Len(up2') <= WireCap
    BY <1>1, <1>14, LegSizes DEF Control, Legs
  <2> QED
    BY <1>14, <2>1 DEF Control, Legs
<1>15. ASSUME NEW s \in Outputs, PumpStep(s)
       PROVE  Legs'
  <2>1. Hdr(s) \in Token /\ Body(pumped[s]) \in Token
    BY TokenTypes DEF Stage
  <2>2. StreamWrite(Hdr(s)) \/ StreamWrite(Body(pumped[s])) \/ dn2' = dn2
    BY <1>15 DEF PumpStep, PumpOut, PumpBody, PumpEnds
  <2>3. Len(dn2') <= WireCap
    BY <1>4, <2>1, <2>2 DEF Legs
  <2> QED
    BY <1>15, <2>3 DEF PumpStep, PumpOut, PumpBody, PumpEnds, Legs
<1>16. CASE SendExit
  <2>1. code \in Int
    <3>1. code \in Codes \cup {-1}
      BY <1>16 DEF SendExit, Stage
    <3>2. Codes \subseteq 0..255
      BY DEF BoundsAssumption
    <3> QED
      BY <3>1, <3>2
  <2>2. StreamWrite(Whole("exit", code)) /\ Whole("exit", code) \in Token
    BY <1>16, <2>1, TokenTypes DEF SendExit
  <2>3. Len(dn2') <= WireCap
    BY <1>4, <2>2
  <2> QED
    BY <1>16, <2>3 DEF SendExit, Legs
<1>17. CASE Type \/ CloseStdin \/ Signal \/ KillProxy \/ Dial \/ Notify \/ MainEof \/ BridgeStep
            \/ CopyUpEnds \/ CopyDownEnds
  BY <1>2, <1>17 DEF Type, CloseStdin, Signal, KillProxy, Dial, Notify, MainEof, BridgeStep,
    BridgeDial, BridgeCloses, CopyUpEnds, CopyDownEnds
<1>18. CASE ReadSpawnFails \/ Reap \/ WriteStdin \/ ControlEnds \/ ChildReads \/ Fork
            \/ (\E s \in Outputs : ChildWrites(s)) \/ (\E p \in Procs : ProcExits(p))
            \/ UNCHANGED vars
  BY <1>2, <1>18 DEF ReadSpawnFails, Reap, WriteStdin, ControlEnds, ChildReads, Fork,
    ChildWrites, ProcExits
<1> QED
  BY <1>6, <1>7, <1>8, <1>9, <1>10, <1>11, <1>12, <1>13, <1>14, <1>15, <1>16, <1>17, <1>18
     DEF Next, ProxyStep, UpStep, DownStep, ExecStep, ControlStep

\* What the four operations do to the chunks on a leg of the way up.
LEMMA TypedLegs ==
  ASSUME NEW w \in Seq(Token), AllTyped(w)
  PROVE  /\ w # <<>> => Typed(Head(w)) /\ Head(w) \in Token /\ AllTyped(Tail(w))
         /\ \A e \in Token : Typed(e) => AllTyped(Append(w, e))
         /\ \A k \in 0..Len(w) : AllTyped(SubSeq(w, 1, k))
         /\ HasFrame(w) => AllTyped(Rest(w))
<1>1. Len(w) \in Nat /\ \A i \in 1..Len(w) : Typed(w[i])
  BY DEF AllTyped
<1>2. ASSUME w # <<>>
      PROVE  Typed(Head(w)) /\ Head(w) \in Token /\ AllTyped(Tail(w))
  <2>1. /\ Len(w) \in Nat \ {0} /\ Head(w) = w[1] /\ w[1] \in Token /\ Len(Tail(w)) = Len(w) - 1
        /\ \A i \in 1..Len(w) - 1 : Tail(w)[i] = w[i + 1]
    BY <1>2, TailAt
  <2>2. ASSUME NEW i \in 1..Len(Tail(w))
        PROVE  Typed(Tail(w)[i])
    <3>1. i \in 1..Len(w) - 1 /\ i + 1 \in 1..Len(w)
      BY <2>1
    <3> QED
      BY <1>1, <2>1, <3>1
  <2>3. 1 \in 1..Len(w)
    BY <2>1
  <2> QED
    BY <1>1, <2>1, <2>2, <2>3 DEF AllTyped
<1>3. ASSUME NEW e \in Token, Typed(e)
      PROVE  AllTyped(Append(w, e))
  <2>1. /\ Len(Append(w, e)) = Len(w) + 1 /\ Append(w, e)[Len(w) + 1] = e
        /\ \A i \in 1..Len(w) : Append(w, e)[i] = w[i]
    BY AppendAt
  <2> QED
    BY <1>1, <1>3, <2>1 DEF AllTyped
<1>4. ASSUME NEW k \in 0..Len(w)
      PROVE  AllTyped(SubSeq(w, 1, k))
  BY <1>1, PrefixAt DEF AllTyped
<1>5. ASSUME HasFrame(w)
      PROVE  AllTyped(Rest(w))
  <2>1. PICK d \in 1..2 : Drops(w, Rest(w), d)
    BY <1>5, FrameEffect
  <2>2. /\ Len(Rest(w)) = Len(w) - d /\ d <= Len(w)
        /\ \A i \in 1..Len(w) - d : Rest(w)[i] = w[i + d]
    BY <2>1 DEF Drops
  <2>3. ASSUME NEW i \in 1..Len(Rest(w))
        PROVE  Typed(Rest(w)[i])
    <3>1. i \in 1..Len(w) - d /\ i + d \in 1..Len(w)
      BY <1>1, <2>2
    <3> QED
      BY <1>1, <2>2, <3>1
  <2> QED
    BY <2>3 DEF AllTyped
<1> QED
  BY <1>2, <1>3, <1>4, <1>5

\* A frame that the control reader takes is a chunk that was typed, or has none.
LEMMA TypedFrame ==
  ASSUME UpTypes, UpFlow(Up), AllTyped(up2), HasFrame(up2)
  PROVE  Frame(up2).n = 0 \/ Frame(up2).n \in 1..load.in
<1>1. /\ Len(up2) \in Nat \ {0}
      /\ \/ up2[1].part = "whole" /\ Frame(up2) = up2[1]
         \/ /\ up2[1].part # "whole" /\ Len(up2) > 1
            /\ up2[2].part = "body" => Frame(up2).n = up2[2].n
  BY FrameEffect DEF UpTypes
<1>2. /\ Len(Up) \in Nat /\ Len(Up) >= Len(up2)
      /\ \A i \in 1..Len(up2) : Up[i] = up2[i]
  <2>1. CASE link = "cut"
    BY <1>1, <2>1 DEF Up
  <2>2. CASE link # "cut"
    BY <1>1, <2>2, ConcatAt DEF Up, UpTypes
  <2> QED
    BY <2>1, <2>2
<1>3. CASE up2[1].part = "whole" /\ Frame(up2) = up2[1]
  BY <1>1, <1>3 DEF AllTyped, Typed
<1>4. CASE /\ up2[1].part # "whole" /\ Len(up2) > 1
           /\ up2[2].part = "body" => Frame(up2).n = up2[2].n
  <2>1. 1 \in 1..Len(up2) /\ 2 \in 1..Len(up2) /\ 1 \in 1..Len(Up) - 1 /\ Len(Up) > 0
    BY <1>1, <1>2, <1>4
  <2>2. up2[1].part = "header"
    <3>1. up2[1].part \in {"header", "body", "whole"}
      BY <2>1, TokenAt DEF UpTypes
    <3>2. up2[1].part # "body"
      BY <1>2, <2>1 DEF UpFlow, Framed
    <3> QED
      BY <1>4, <3>1, <3>2
  <2>3. up2[2].part = "body"
    <3>1. Up[1].part = "header" <=> Up[1 + 1].part = "body"
      BY <2>1 DEF UpFlow, Framed
    <3> QED
      BY <1>2, <2>1, <2>2, <3>1
  <2>4. Typed(up2[2])
    BY <2>1 DEF AllTyped
  <2> QED
    BY <1>4, <2>3, <2>4 DEF Typed
<1> QED
  BY <1>1, <1>3, <1>4

LEMMA InputsStep ==
  ASSUME BoundsAssumption, Stage, UpTypes, UpQueue, Modes, Inputs, [Next]_vars
  PROVE  Inputs'
<1> USE DEF vars, parentVars, proxyVars, bridgeVars, execVars, childVars
<1>1. load' = load /\ load.in \in Nat /\ PipeCap \in Nat /\ PipeCap >= 1
  BY LoadSame, LoadFacts DEF Modes
<1>2. up1 \in Seq(Token) /\ up2 \in Seq(Token) /\ AllTyped(up1) /\ AllTyped(up2)
  BY DEF UpTypes, Inputs
<1>3. AllTyped(up1') => AllTyped(up1)'
  BY <1>1 DEF AllTyped, Typed
<1>4. AllTyped(up2') => AllTyped(up2)'
  BY <1>1 DEF AllTyped, Typed
<1>5. ASSUME AllTyped(up1'), AllTyped(up2'), inPump' = "body" => taken' # 0,
             UNCHANGED <<held, ctl, tty, eaten>>
      PROVE  Inputs'
  BY <1>1, <1>3, <1>4, <1>5 DEF Inputs
<1>6. \A e \in Token : ProxyWrite(e) /\ Typed(e) => AllTyped(up1')
  BY <1>2, TypedLegs DEF ProxyWrite
<1>7. /\ Typed(Hdr("stdin")) /\ Typed(Whole("spawn", 0)) /\ Typed(Whole("signal", 0))
      /\ Typed(Whole("stdin", 0))
  BY DEF Typed, Hdr, Whole
<1>8. CASE UNCHANGED <<up1, up2, inPump, taken, held, ctl, tty, eaten>>
  BY <1>2, <1>5, <1>8 DEF Inputs
<1>9. CASE SendSpawn
  <2>1. AllTyped(up1')
    BY <1>2, <1>7, <1>9, TypedLegs, UpTokens DEF SendSpawn
  <2> QED
    BY <1>2, <1>5, <1>9, <2>1 DEF SendSpawn, Inputs
<1>10. CASE ForwardSignal
  <2>1. AllTyped(up1')
    BY <1>6, <1>7, <1>10, UpTokens DEF ForwardSignal
  <2> QED
    BY <1>2, <1>5, <1>10, <2>1 DEF ForwardSignal, Inputs
<1>11. CASE PumpStdin
  <2>1. AllTyped(up1')
    BY <1>6, <1>7, <1>11, UpTokens DEF PumpStdin
  <2>2. inPump' = "body" => taken' # 0
    BY <1>11 DEF PumpStdin, UpTypes
  <2> QED
    BY <1>2, <1>5, <1>11, <2>1, <2>2 DEF PumpStdin
<1>12. CASE PumpStdinBody
  <2>1. Body(taken) \in Token /\ ProxyWrite(Body(taken))
    BY <1>12, UpTokens DEF PumpStdinBody, UpTypes
  <2>2. taken \in 1..load.in
    BY <1>12 DEF PumpStdinBody, Modes, UpTypes, Inputs
  <2>3. AllTyped(up1')
    BY <1>6, <2>1, <2>2 DEF Typed, Body
  <2> QED
    BY <1>2, <1>5, <1>12, <2>3 DEF PumpStdinBody
<1>13. CASE CopyUp
  <2>1. AllTyped(up1') /\ AllTyped(up2')
    BY <1>2, <1>13, TypedLegs DEF CopyUp
  <2> QED
    BY <1>5, <1>13, <2>1 DEF CopyUp, Inputs
<1>14. CASE Cut
  <2>1. AllTyped(up2')
    BY <1>2, <1>14, TypedLegs DEF Cut
  <2> QED
    BY <1>2, <1>5, <1>14, <2>1 DEF Cut, Inputs
<1>15. CASE ReadSpawn
  <2>1. AllTyped(up2') /\ (ctl' = "write" => held' # 0)
        /\ UNCHANGED <<up1, inPump, taken, held, tty, eaten>>
    BY <1>2, <1>15, TypedLegs DEF ReadSpawn, Inputs
  <2> QED
    BY <1>1, <1>2, <1>3, <1>4, <2>1 DEF Inputs
<1>16. CASE Control
  <2>1. AllTyped(up2') /\ UNCHANGED <<up1, inPump, taken, tty, eaten>>
    BY <1>2, <1>16, TypedLegs DEF Control
  <2>2. Frame(up2).n = 0 \/ Frame(up2).n \in 1..load.in
    BY <1>2, <1>16, TypedFrame DEF Control, UpQueue
  <2>3. held' \in 0..load.in /\ (ctl' = "write" => held' # 0)
    BY <1>1, <1>16, <2>2 DEF Control, Inputs
  <2> QED
    BY <1>1, <1>2, <1>3, <1>4, <2>1, <2>3 DEF Inputs
<1>17. CASE WriteStdin
  <2>1. /\ UNCHANGED <<up1, up2, inPump, taken, eaten>>
        /\ held' = 0 /\ ctl' = "read" /\ held \in 1..load.in
    BY <1>1, <1>17 DEF WriteStdin, Inputs
  <2>2. tty' \in Seq(1..load.in) /\ Len(tty') <= PipeCap
    <3>a. Len(tty) \in Nat
      BY UpIsSeq
    <3>1. tty \in Seq(1..load.in) /\ Len(tty) <= PipeCap /\ Len(tty) \in Nat
      BY <3>a DEF Inputs
    <3>2. tty' = tty \/ (tty' = Append(tty, held) /\ Len(tty) < PipeCap)
      BY <1>17 DEF WriteStdin
    <3>3. Append(tty, held) \in Seq(1..load.in) /\ Len(Append(tty, held)) = Len(tty) + 1
      BY <2>1, <3>1, AppendAt
    <3>4. Len(tty) < PipeCap => Len(Append(tty, held)) <= PipeCap
      <4>1. Len(tty) < PipeCap => Len(tty) + 1 <= PipeCap
        BY <1>1, <3>a
      <4> QED
        BY <3>3, <4>1
    <3> QED
      BY <3>1, <3>2, <3>3, <3>4, Zenon
  <2> QED
    BY <1>1, <1>2, <1>3, <1>4, <2>1, <2>2 DEF Inputs
<1>18. CASE ControlEnds
  BY <1>1, <1>2, <1>3, <1>4, <1>18 DEF ControlEnds, Inputs
<1>19. CASE ChildReads
  <2>1. UNCHANGED <<up1, up2, inPump, taken, held, ctl>>
    BY <1>19 DEF ChildReads
  <2>2. /\ tty' \in Seq(1..load.in) /\ Len(tty') <= PipeCap
        /\ eaten' \in Seq(1..load.in)
    <3>1. tty \in Seq(1..load.in) /\ Len(tty) <= PipeCap /\ eaten \in Seq(1..load.in)
      BY DEF Inputs
    <3>2. CASE tty # <<>> /\ eaten' = Append(eaten, Head(tty)) /\ tty' = Tail(tty)
      <4>1. /\ Len(tty) \in Nat \ {0} /\ Head(tty) \in 1..load.in
            /\ tty' \in Seq(1..load.in) /\ Len(tty') = Len(tty) - 1
        <5> DEFINE S == 1..load.in
        <5>1. tty \in Seq(S) /\ tty # <<>>
          BY <3>1, <3>2
        <5> HIDE DEF S
        <5>2. /\ Len(tty) \in Nat \ {0} /\ Head(tty) \in S
              /\ Tail(tty) \in Seq(S) /\ Len(Tail(tty)) = Len(tty) - 1
          BY <5>1, TailAt
        <5> QED
          BY <3>2, <5>2 DEF S
      <4>2. Append(eaten, Head(tty)) \in Seq(1..load.in)
        BY <3>1, <4>1, AppendAt
      <4>3. Len(tty') <= PipeCap
        BY <1>1, <3>1, <4>1
      <4> QED
        BY <3>2, <4>1, <4>2, <4>3
    <3> QED
      BY <1>19, <3>1, <3>2 DEF ChildReads
  <2> QED
    BY <1>1, <1>2, <1>3, <1>4, <2>1, <2>2 DEF Inputs
<1>20. CASE Type \/ CloseStdin \/ Signal \/ KillProxy \/ Dial \/ Notify \/ MainFrame \/ MainEof
            \/ BridgeStep \/ CopyUpEnds \/ DownStep
  BY <1>8, <1>20 DEF Type, CloseStdin, Signal, KillProxy, Dial, Notify, MainFrame, MainEof,
    BridgeStep, BridgeDial, BridgeCloses, CopyUpEnds, DownStep, CopyDown, CopyDownEnds
<1>21. CASE ReadSpawnFails \/ Reap \/ SendExit \/ Fork \/ (\E p \in Procs : ProcExits(p))
            \/ (\E s \in Outputs : PumpStep(s) \/ ChildWrites(s)) \/ UNCHANGED vars
  BY <1>8, <1>21 DEF ReadSpawnFails, Reap, SendExit, Fork, ProcExits, PumpStep, PumpOut,
    PumpBody, PumpEnds, ChildWrites
<1> QED
  BY <1>9, <1>10, <1>11, <1>12, <1>13, <1>14, <1>15, <1>16, <1>17, <1>18, <1>19, <1>20, <1>21
     DEF Next, ProxyStep, StdinStep, UpStep, ExecStep, ControlStep

\* Every variable has its type: no buffer of the relay, the child's pipes or the
\* os/signal queue is filled beyond its size, and every chunk that reaches the
\* child was typed, whatever a cut leaves of the frames (ReadFrame, WriteChunk).
THEOREM TypesHold == Spec => []TypeOK
<1>1. Init => Modes /\ Legs /\ Inputs
  <2> SUFFICES ASSUME Init PROVE Modes /\ Legs /\ Inputs
    OBVIOUS
  <2>1. /\ load \in Loads /\ load.in \in Nat /\ load.signals \in Nat
        /\ \A s \in Outputs : load.out[s] \in Nat
        /\ WireCap \in Nat /\ PipeCap \in Nat
    BY BoundsAssumption, LoadFacts DEF Init
  <2>2. Modes
    <3>1. typed <= load.in /\ sigSent \in 0..load.signals /\ sigc \in 0..sigSent
      BY <2>1 DEF Init
    <3>2. \A s \in Outputs : wrote[s] <= load.out[s]
      BY <2>1 DEF Init
    <3> QED
      BY <2>1, <3>1, <3>2 DEF Init, Modes
  <2>3. 0 <= WireCap /\ 0 <= PipeCap /\ Len(<<>>) = 0 /\ \A i \in 1..0 : FALSE
    BY <2>1
  <2>4. Legs
    BY <2>1, <2>3 DEF Init, Legs
  <2>5. tty \in Seq(1..load.in) /\ eaten \in Seq(1..load.in) /\ AllTyped(<<>>)
    BY <2>3 DEF Init, AllTyped
  <2> QED
    BY <2>1, <2>2, <2>3, <2>4, <2>5 DEF Init, Inputs
<1>2. ASSUME Stage, DownInv, UpInv, Modes, Legs, Inputs, [Next]_vars
      PROVE  Modes' /\ Legs' /\ Inputs'
  BY <1>2, BoundsAssumption, ModesStep, LegsStep, InputsStep DEF UpInv
<1>3. ASSUME Stage, DownInv, UpInv, Modes, Legs, Inputs
      PROVE  TypeOK
  <2>1. got \in [Outputs -> Seq(Nat)]
    <3>1. got \in [Outputs -> Seq(Int)] /\ \A s \in Outputs : Counted(got[s])
      BY <1>3 DEF DownInv, Gots, Flow
    <3>2. ASSUME NEW s \in Outputs
          PROVE  got[s] \in Seq(Nat)
      BY <3>1 DEF Counted
    <3> QED
      BY <3>1, <3>2
  <2>2. \A w \in {up1, up2, dn1, dn2} : w \in Wire /\ Len(w) <= WireCap
    BY <1>3 DEF UpInv, UpTypes, DownInv, Legs, Wire, Token
  <2>3. /\ load \in Loads /\ inClosed \in BOOLEAN /\ stdinOpen \in BOOLEAN /\ sawEof \in BOOLEAN
        /\ typed \in 0..load.in /\ sigSent \in 0..load.signals /\ sigc \in 0..load.signals
        /\ prx \in {"dial", "dialled", "sent", "run", "exited"}
        /\ brg \in {"none", "dial", "splice", "done"}
        /\ upCopy \in {"copy", "done"} /\ dnCopy \in {"copy", "done"}
        /\ link \in {"none", "up", "cut"}
    <3>1. load.in \in Nat /\ load.signals \in Nat /\ typed \in Nat
      BY <1>3, BoundsAssumption, LoadFacts DEF Modes, UpInv, UpTypes
    <3> QED
      BY <1>3, <3>1 DEF Modes
  <2>4. status = None \/ status \in [by : {"exit", "eof", "error", "killed"}, code : 0..255]
    BY <1>3 DEF Modes, Ends
  <2>5. \A s \in Outputs : wrote[s] \in 0..load.out[s] /\ pumped[s] \in 0..wrote[s]
    <3> SUFFICES ASSUME NEW s \in Outputs
                 PROVE  wrote[s] \in 0..load.out[s] /\ pumped[s] \in 0..wrote[s]
      OBVIOUS
    <3>1. /\ wrote[s] \in Nat /\ pumped[s] \in Nat /\ pumped[s] <= wrote[s]
          /\ wrote[s] <= load.out[s]
      BY <1>3 DEF Stage, Modes
    <3>2. load.out[s] \in Nat
      BY <1>3, BoundsAssumption, LoadFacts DEF Modes
    <3> QED
      BY <3>1, <3>2
  <2>6. /\ exe \in {"none", "header", "pumping", "exiting", "closed"}
        /\ pump \in [Outputs -> {"none", "read", "body", "done"}]
        /\ proc \in [Procs -> {"none", "run", "dead"}]
        /\ code = None \/ code \in Codes \cup {-1}
    BY <1>3 DEF Stage
  <2>7. /\ inPump \in {"read", "body", "done"} /\ taken \in 0..typed
        /\ ctl \in {"none", "read", "write", "done"} /\ held \in 0..load.in
        /\ tty \in Seq(1..load.in) /\ Len(tty) <= PipeCap /\ eaten \in Seq(1..load.in)
    BY <1>3 DEF UpInv, UpTypes, Inputs
  <2> QED
    BY <2>1, <2>2, <2>3, <2>4, <2>5, <2>6, <2>7 DEF TypeOK
<1> QED
  BY <1>1, <1>2, <1>3, DownInvariant, UpInvariant, PTL DEF Spec
=============================================================================
