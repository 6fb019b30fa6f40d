----------------------- MODULE DockerLogDecoderProofs -----------------------
(***************************************************************************)
(* The decoder never writes outside its buffer, and its buffer with two    *)
(* offsets, compaction and growth implements the plain sequence of pending *)
(* bytes of FrameStream.  What is printed are the payloads of the frames   *)
(* that arrived, whole and in order; or the text that arrived, without the *)
(* characters that the end of a message runs through.  All of it for every *)
(* byte base, character width, capacity, output and cut into chunks.       *)
(*                                                                         *)
(* The first sections are about data alone: division, for the digits of a  *)
(* header; FlattenSeq, of which the library states nothing; prefixes of    *)
(* an output; and concatenation, also as a relation IsCat, which lets a    *)
(* step move the boundary between two parts by naming the parts.           *)
(***************************************************************************)
EXTENDS DockerLogDecoder, SequenceTheorems, WellFoundedInduction, TLAPS

-----------------------------------------------------------------------------
(* Division.                                                               *)

\* The quotient and the remainder of two numbers.
LEMMA Division ==
  ASSUME NEW n \in Nat, NEW d \in Nat \ {0}
  PROVE  /\ n \div d \in Nat /\ n % d \in Nat /\ n % d < d
         /\ n = (n \div d) * d + (n % d)
<1>1. n % d \in Nat /\ n % d < d
  OBVIOUS
<1>2. n \div d \in Int
  OBVIOUS
<1>3. n = d * (n \div d) + (n % d)
  OBVIOUS
<1>5. n \div d >= 0
  <2>1. SUFFICES ASSUME n \div d <= -1 PROVE FALSE
     BY <1>2
  <2>2. d * (n \div d) <= -d
    BY <1>2, <2>1
  <2> QED BY <1>1, <1>3, <2>2, <1>2
<1> QED  BY <1>1, <1>2, <1>3, <1>5

\* Multiplying keeps the order.
LEMMA ProductGrows ==
  ASSUME NEW a \in Nat, NEW b \in Nat, NEW c \in Nat, a <= b
  PROVE  a * c <= b * c /\ a * c \in Nat /\ b * c \in Nat
  OBVIOUS

\* A quotient is known by its remainder.
LEMMA Quotient ==
  ASSUME NEW n \in Nat, NEW d \in Nat \ {0}, NEW q \in Nat, NEW r \in Nat, r < d,
         n = q * d + r
  PROVE  n \div d = q /\ n % d = r
<1> DEFINE p == n \div d
           s == n % d
<1>1. p \in Nat /\ s \in Nat /\ s < d /\ n = p * d + s
  BY Division
<1> HIDE DEF p, s
<1>2. CASE p < q
  <2>1. (p + 1) * d <= q * d /\ (p + 1) * d = p * d + d
    BY <1>1, <1>2, ProductGrows
  <2> QED  BY <1>1, <2>1
<1>3. CASE q < p
  <2>1. (q + 1) * d <= p * d /\ (q + 1) * d = q * d + d
    BY <1>1, <1>3, ProductGrows
  <2> QED  BY <1>1, <2>1
<1>4. CASE p = q
  BY <1>1, <1>4 DEF p, s
<1> QED  BY <1>1, <1>2, <1>3, <1>4

\* Dividing twice is dividing by the product.
LEMMA QuotientOfQuotient ==
  ASSUME NEW n \in Nat, NEW a \in Nat \ {0}, NEW b \in Nat \ {0}
  PROVE  a * b \in Nat \ {0} /\ n \div (a * b) = (n \div a) \div b
<1> DEFINE p == n \div a
           r == n % a
           q == p \div b
           s == p % b
<1>1. p \in Nat /\ r \in Nat /\ r < a /\ n = p * a + r
  BY Division
<1>2. q \in Nat /\ s \in Nat /\ s < b /\ p = q * b + s
  BY <1>1, Division
<1> HIDE DEF p, r, q, s
<1>3. a * b \in Nat \ {0}
  OBVIOUS
<1>4. n = q * (a * b) + (s * a + r)
  BY <1>1, <1>2
<1>5. (s + 1) * a <= b * a /\ (s + 1) * a = s * a + a /\ s * a \in Nat
  BY <1>2, ProductGrows
<1>6. s * a + r \in Nat /\ s * a + r < a * b
  BY <1>1, <1>5
<1>7. n \div (a * b) = q
  BY <1>2, <1>3, <1>4, <1>6, Quotient
<1> QED  BY <1>3, <1>7 DEF q, p

\* Four digits of a number that has no more.
LEMMA Digits ==
  ASSUME NEW B \in Nat \ {0}, NEW n \in Nat, n < B * B * B * B
  PROVE  ((((n \div (B * B * B)) % B) * B + ((n \div (B * B)) % B)) * B
            + ((n \div B) % B)) * B + (n % B) = n
<1> DEFINE q1 == n \div B
           q2 == q1 \div B
           q3 == q2 \div B
<1>1. n \div (B * B) = q2 /\ B * B \in Nat \ {0}
  BY QuotientOfQuotient
<1>2. n \div (B * B * B) = q3 /\ B * B * B \in Nat \ {0}
  <2>1. ASSUME NEW C \in Nat \ {0}
        PROVE  n \div (C * B) = (n \div C) \div B /\ C * B \in Nat \ {0}
    BY QuotientOfQuotient
  <2> DEFINE C == B * B
  <2>2. C \in Nat \ {0}
    BY <1>1
  <2> HIDE DEF C
  <2>3. n \div (C * B) = (n \div C) \div B /\ C * B \in Nat \ {0}
    BY <2>1, <2>2, Zenon
  <2>4. n \div (C * B) = q3
    BY <1>1, <2>3, Zenon DEF C
  <2> QED  BY <2>3, <2>4 DEF C
<1>3. /\ q1 \in Nat /\ n % B \in Nat /\ n = q1 * B + (n % B)
      /\ q2 \in Nat /\ q1 % B \in Nat /\ q1 = q2 * B + (q1 % B)
      /\ q3 \in Nat /\ q2 % B \in Nat /\ q2 = q3 * B + (q2 % B)
  <2>1. q1 \in Nat /\ n % B \in Nat /\ n = q1 * B + (n % B)
    BY Division
  <2> HIDE DEF q1
  <2>2. q2 \in Nat /\ q1 % B \in Nat /\ q1 = q2 * B + (q1 % B)
    BY <2>1, Division
  <2> HIDE DEF q2
  <2>3. q3 \in Nat /\ q2 % B \in Nat /\ q2 = q3 * B + (q2 % B)
    BY <2>2, Division
  <2> QED  BY <2>1, <2>2, <2>3
<1>4. q3 < B
  <2>1. n = q3 * (B * B * B) + (n % (B * B * B)) /\ n % (B * B * B) \in Nat
    BY <1>2, Division
  <2> HIDE DEF q3
  <2> DEFINE C == B * B * B
  <2>2. C \in Nat \ {0} /\ n = q3 * C + (n % C) /\ n % C \in Nat /\ n < C * B
    BY <1>2, <2>1
  <2> HIDE DEF C
  <2>3. SUFFICES ASSUME B <= q3 PROVE FALSE
    BY <1>3
  <2>4. B * C <= q3 * C
    BY <1>3, <2>2, <2>3, ProductGrows
  <2> QED  BY <1>3, <2>2, <2>4
<1>5. q3 % B = q3
  <2> HIDE DEF q3
  <2>1. q3 = 0 * B + q3
    BY <1>3
  <2> QED  BY <1>3, <1>4, <2>1, Quotient
<1> HIDE DEF q1, q2, q3
<1> QED  BY <1>1, <1>2, <1>3, <1>5 DEF q1

-----------------------------------------------------------------------------
(* Flattening a sequence of sequences.                                     *)

\* A set of numbers that holds 0 and every successor holds them all: the least
\* element outside it would follow one inside.
LEMMA NatIsInductive ==
  ASSUME NEW T \in SUBSET Nat, 0 \in T, \A n \in T : n + 1 \in T
  PROVE  T = Nat
<1> DEFINE R == OpToRel(<, Nat)
           Rest == Nat \ T
<1>1. IsWellFoundedOn(R, Nat)
  BY NatLessThanWellFounded
<1>2. \A m, n \in Nat : m < n => <<m, n>> \in R
  BY Zenon DEF R, OpToRel
<1> HIDE DEF R
<1>3. SUFFICES ASSUME Rest # {} PROVE FALSE
  OBVIOUS
<1>4. PICK n \in Rest : \A m \in Rest : ~(<<m, n>> \in R)
  BY <1>1, <1>3, WFMin, Zenon
<1>5. n - 1 \in Nat /\ n - 1 < n /\ (n - 1) + 1 = n
  BY <1>4
<1>6. n - 1 \in T
  BY <1>2, <1>4, <1>5
<1> QED  BY <1>4, <1>5, <1>6

\* One step of the library's flattening.
FlatStep(s, f, i) == IF i = 1 THEN s[i] ELSE f[i - 1] \o s[i]

Flattens(s, f) == f = [i \in 1..Len(s) |-> FlatStep(s, f, i)]

LEMMA FlattenUnfolds ==
  ASSUME NEW s
  PROVE  FlattenSeq(s) = IF Len(s) = 0 THEN s
                         ELSE (CHOOSE f : Flattens(s, f))[Len(s)]
  BY Zenon DEF FlattenSeq, Flattens, FlatStep

\* The recursion has a solution, built up by the length of the prefix.
LEMMA FlattenExists ==
  ASSUME NEW S, NEW s \in Seq(Seq(S))
  PROVE  \E f \in [1..Len(s) -> Seq(S)] : Flattens(s, f)
<1> DEFINE P(n) == \E f \in [1..n -> Seq(S)] :
                     \A i \in 1..n : f[i] = FlatStep(s, f, i)
           T == {n \in Nat : n <= Len(s) => P(n)}
<1>0. Len(s) \in Nat /\ \A i \in 1..Len(s) : s[i] \in Seq(S)
  BY LenProperties, ElementOfSeq
<1>1. 0 \in T
  <2>1. P(0)
    <3> DEFINE f == [i \in 1..0 |-> <<>>]
    <3>1. f \in [1..0 -> Seq(S)] /\ \A i \in 1..0 : f[i] = FlatStep(s, f, i)
      OBVIOUS
    <3> HIDE DEF f
    <3> QED  BY <3>1
  <2> QED  BY <2>1
<1>2. ASSUME NEW n \in Nat, n + 1 <= Len(s), P(n) PROVE P(n + 1)
  <2>2. PICK f \in [1..n -> Seq(S)] : \A i \in 1..n : f[i] = FlatStep(s, f, i)
    BY <1>2
  <2> DEFINE g == [i \in 1..(n + 1) |-> IF i <= n THEN f[i] ELSE FlatStep(s, f, i)]
  <2>3. ASSUME NEW i \in 1..(n + 1)
        PROVE  FlatStep(s, f, i) \in Seq(S) /\ FlatStep(s, g, i) = FlatStep(s, f, i)
    <3>1. s[i] \in Seq(S)
      BY <1>0, <1>2
    <3>2. CASE i = 1
      BY <3>1, <3>2 DEF FlatStep
    <3>3. CASE i # 1
      <4>1. i - 1 \in 1..n /\ i - 1 \in 1..(n + 1) /\ i - 1 <= n
        BY <3>3
      <4>2. f[i - 1] \in Seq(S) /\ g[i - 1] = f[i - 1]
        BY <4>1
      <4> HIDE DEF g
      <4>3. f[i - 1] \o s[i] \in Seq(S)
        BY <3>1, <4>2, ConcatProperties
      <4> QED  BY <3>3, <4>2, <4>3 DEF FlatStep
    <3> QED  BY <3>2, <3>3
  <2>4. \A i \in 1..(n + 1) : g[i] = FlatStep(s, f, i)
    BY <2>2
  <2>5. g \in [1..(n + 1) -> Seq(S)]
    BY <2>3, <2>4
  <2> HIDE DEF g
  <2>6. \A i \in 1..(n + 1) : g[i] = FlatStep(s, g, i)
    BY <2>3, <2>4
  <2> QED  BY <2>5, <2>6
<1> HIDE DEF P
<1>3. T \in SUBSET Nat /\ \A n \in T : n + 1 \in T
  BY <1>0, <1>2
<1> HIDE DEF T
<1>4. T = Nat
  BY <1>1, <1>3, NatIsInductive
<1>p. P(Len(s))
  BY <1>0, <1>4 DEF T
<1>5. PICK f \in [1..Len(s) -> Seq(S)] :
             \A i \in 1..Len(s) : f[i] = FlatStep(s, f, i)
  BY <1>p, Zenon DEF P
<1> QED  BY <1>5 DEF Flattens

Agree(s, t, n) == \A i \in 1..n : s[i] = t[i]

Begins(s, t) ==
  /\ Len(s) \in Nat /\ Len(t) \in Nat /\ Len(s) <= Len(t)
  /\ Agree(s, t, Len(s))

\* Sequences that agree up to an index are flattened alike up to it.
LEMMA FlattensAgree ==
  ASSUME NEW s, NEW t, NEW f, NEW g, Begins(s, t), Flattens(s, f), Flattens(t, g)
  PROVE  Agree(f, g, Len(s))
<1>0. Len(s) \in Nat /\ Len(t) \in Nat /\ Len(s) <= Len(t) /\ Agree(s, t, Len(s))
  BY DEF Begins
<1> DEFINE n == Len(s)
           T == {m \in Nat : m \in 1..n => f[m] = g[m]}
<1>1. \A i \in 1..n : f[i] = FlatStep(s, f, i) /\ g[i] = FlatStep(t, g, i)
  <2>1. \A i \in 1..n : i \in 1..Len(s) /\ i \in 1..Len(t)
    BY <1>0
  <2> QED  BY <2>1 DEF Flattens
<1>2. ASSUME NEW m \in T PROVE m + 1 \in T
  <2>1. SUFFICES ASSUME m + 1 \in 1..n PROVE f[m + 1] = g[m + 1]
    OBVIOUS
  <2>2. CASE m = 0
    BY <1>0, <1>1, <2>1, <2>2 DEF FlatStep, Agree
  <2>3. CASE m # 0
    <3>1. m \in 1..n /\ m + 1 # 1 /\ (m + 1) - 1 = m
      BY <2>1, <2>3
    <3> QED  BY <1>0, <1>1, <2>1, <3>1 DEF FlatStep, Agree
  <2> QED  BY <2>2, <2>3
<1>3. 0 \in T /\ T \in SUBSET Nat
  OBVIOUS
<1> HIDE DEF T
<1>4. T = Nat
  BY <1>2, <1>3, NatIsInductive
<1> QED  BY <1>0, <1>4 DEF T, Agree

\* What FlattenSeq returns, by the index of the last element.
LEMMA Flattened ==
  ASSUME NEW S, NEW s \in Seq(Seq(S)), s # <<>>
  PROVE  \E f \in [1..Len(s) -> Seq(S)] :
           Flattens(s, f) /\ FlattenSeq(s) = f[Len(s)]
<1> DEFINE f == CHOOSE f : Flattens(s, f)
<1>1. PICK g \in [1..Len(s) -> Seq(S)] : Flattens(s, g)
  BY FlattenExists
<1>2. Flattens(s, f)
  BY <1>1, Zenon
<1> HIDE DEF f
<1>3. Len(s) \in Nat /\ Len(s) # 0
  BY EmptySeq
<1>4. \A i \in 1..Len(s) : f[i] = g[i]
  <2>1. Begins(s, s)
    BY <1>3 DEF Begins, Agree
  <2>2. Agree(f, g, Len(s))
    BY <1>1, <1>2, <2>1, FlattensAgree, Zenon
  <2> QED  BY <2>2 DEF Agree
<1>5. f \in [1..Len(s) -> Seq(S)]
  <2>1. f = [i \in 1..Len(s) |-> FlatStep(s, f, i)]
    BY <1>2 DEF Flattens
  <2>2. \A i \in 1..Len(s) : FlatStep(s, f, i) = f[i]
    BY <2>1
  <2>3. f = [i \in 1..Len(s) |-> f[i]]
    BY <2>1, <2>2, Zenon
  <2> QED  BY <1>4, <2>3
<1>6. FlattenSeq(s) = f[Len(s)]
  BY <1>3, FlattenUnfolds, Zenon DEF f
<1> QED  BY <1>2, <1>5, <1>6

\* Nothing to flatten.
LEMMA FlattenEmpty == FlattenSeq(<<>>) = <<>>
  BY DEF FlattenSeq

\* One element more.
LEMMA FlattenAppend ==
  ASSUME NEW S, NEW s \in Seq(Seq(S)), NEW x \in Seq(S)
  PROVE  /\ FlattenSeq(s) \in Seq(S)
         /\ FlattenSeq(Append(s, x)) = FlattenSeq(s) \o x
<1> DEFINE t == Append(s, x)
<1>0. PICK n \in Nat : n = Len(s)
  BY LenProperties
<1>1. /\ t \in Seq(Seq(S)) /\ t # <<>> /\ Len(t) = n + 1 /\ n \in Nat
      /\ \A i \in 1..n : t[i] = s[i]
      /\ t[n + 1] = x
  BY <1>0, AppendProperties
<1> HIDE DEF t
<1>2. PICK g \in [1..(n + 1) -> Seq(S)] :
             Flattens(t, g) /\ FlattenSeq(t) = g[n + 1]
  <2>1. \E g \in [1..Len(t) -> Seq(S)] :
          Flattens(t, g) /\ FlattenSeq(t) = g[Len(t)]
    BY <1>1, Flattened
  <2> QED  BY <1>1, <2>1
<1>3. \A i \in 1..(n + 1) : g[i] = FlatStep(t, g, i)
  BY <1>1, <1>2 DEF Flattens
<1>4. CASE s = <<>>
  <2>1. n = 0 /\ FlattenSeq(s) = <<>>
    BY <1>0, <1>4, FlattenEmpty
  <2>2. g[1] = x
    BY <1>1, <1>3, <2>1 DEF FlatStep
  <2>3. <<>> \o x = x /\ <<>> \in Seq(S)
    BY ConcatEmptySeq, EmptySeq
  <2> QED  BY <1>2, <2>1, <2>2, <2>3 DEF t
<1>5. CASE s # <<>>
  <2>1. PICK f \in [1..n -> Seq(S)] : Flattens(s, f) /\ FlattenSeq(s) = f[n]
    BY <1>0, <1>5, Flattened
  <2>2. n \in 1..n
    BY <1>0, <1>5, EmptySeq
  <2>3. n <= Len(s) /\ n <= Len(t) /\ Len(s) \in Nat /\ Len(t) \in Nat
        /\ n \in Nat /\ \A i \in 1..n : s[i] = t[i]
    BY <1>0, <1>1
  <2>4. \A i \in 1..n : f[i] = g[i]
    <3>1. Flattens(s, f) /\ Flattens(t, g)
      BY <1>2, <2>1
    <3>2. Begins(s, t)
      BY <1>0, <2>3 DEF Begins, Agree
    <3>3. Agree(f, g, Len(s))
      BY <3>1, <3>2, FlattensAgree, Zenon
    <3> QED  BY <1>0, <3>3 DEF Agree
  <2>5. n + 1 # 1 /\ n + 1 \in 1..(n + 1) /\ (n + 1) - 1 = n
    BY <1>1, <2>2
  <2>6. g[n + 1] = g[n] \o x
    BY <1>1, <1>3, <2>5 DEF FlatStep
  <2>7. f[n] = g[n] /\ f[n] \in Seq(S)
    BY <2>2, <2>4
  <2> QED  BY <1>2, <2>1, <2>6, <2>7 DEF t
<1> QED  BY <1>4, <1>5

-----------------------------------------------------------------------------
(* Sequences mapped element by element, and what a container prints.       *)

\* A sequence element by element.
Mapped(g, s) == [i \in 1..Len(s) |-> g[s[i]]]

IsMap(g, A, T) == g \in [A -> T]

\* One element more.
LEMMA MappedAppend ==
  ASSUME NEW A, NEW T, NEW g, IsMap(g, A, T), NEW s \in Seq(A), NEW a \in A
  PROVE  /\ Mapped(g, s) \in Seq(T)
         /\ Mapped(g, Append(s, a)) = Append(Mapped(g, s), g[a])
<1> DEFINE m == Mapped(g, s)
           t == Append(s, a)
           mt == Mapped(g, t)
<1>0. PICK n \in Nat : n = Len(s)
  BY LenProperties
<1>g. g \in [A -> T]
  BY DEF IsMap
<1>1. \A i \in 1..n : s[i] \in A
  BY <1>0, ElementOfSeq
<1>2. /\ t \in Seq(A) /\ Len(t) = n + 1 /\ t[n + 1] = a
      /\ \A i \in 1..n : t[i] = s[i]
  BY <1>0, AppendProperties
<1> HIDE DEF t
<1>3. /\ m = [i \in 1..n |-> g[s[i]]]
      /\ mt = [i \in 1..(n + 1) |-> g[t[i]]]
  BY <1>0, <1>2 DEF Mapped
<1> HIDE DEF m, mt
<1>4. m \in [1..n -> T]
  BY <1>1, <1>3, <1>g
<1>5. mt \in [1..(n + 1) -> T]
  <2>1. \A i \in 1..(n + 1) : t[i] \in A
    BY <1>2, ElementOfSeq
  <2> QED  BY <1>3, <1>g, <2>1
<1>6. m \in Seq(T) /\ mt \in Seq(T)
  BY <1>4, <1>5, SeqDef
<1>7. Len(m) = n /\ Len(mt) = n + 1
  BY <1>4, <1>5, <1>6, LenProperties
<1>8. g[a] \in T
  BY <1>g
<1>9. /\ Append(m, g[a]) \in Seq(T) /\ Len(Append(m, g[a])) = n + 1
      /\ \A i \in 1..n : Append(m, g[a])[i] = m[i]
      /\ Append(m, g[a])[n + 1] = g[a]
  BY <1>6, <1>7, <1>8, AppendProperties
<1>10. ASSUME NEW i \in 1..(n + 1) PROVE mt[i] = Append(m, g[a])[i]
  <2>1. CASE i = n + 1
    BY <1>2, <1>3, <1>9, <2>1
  <2>2. CASE i # n + 1
    <3>1. i \in 1..n
      BY <2>2
    <3> QED  BY <1>2, <1>3, <1>9, <3>1
  <2> QED  BY <2>1, <2>2
<1>11. mt = Append(m, g[a])
  BY <1>6, <1>7, <1>9, <1>10, SeqEqual
<1> QED  BY <1>6, <1>11 DEF m, mt, t

\* A prefix and the next element.
LEMMA PrefixGrows ==
  ASSUME NEW S, NEW s \in Seq(S)
  PROVE  /\ SubSeq(s, 1, 0) = <<>> /\ SubSeq(s, 1, Len(s)) = s
         /\ \A k \in 0..Len(s) : SubSeq(s, 1, k) \in Seq(S)
         /\ \A k \in 0..(Len(s) - 1) :
              s[k + 1] \in S
              /\ SubSeq(s, 1, k + 1) = Append(SubSeq(s, 1, k), s[k + 1])
<1>0. PICK n \in Nat : n = Len(s)
  BY LenProperties
<1>1. SubSeq(s, 1, 0) = <<>> /\ SubSeq(s, 1, Len(s)) = s
  BY SubSeqEmpty, SubSeqFull
<1>2. ASSUME NEW k \in 0..n
      PROVE  /\ SubSeq(s, 1, k) \in Seq(S) /\ Len(SubSeq(s, 1, k)) = k
             /\ \A i \in 1..k : SubSeq(s, 1, k)[i] = s[i]
  <2>1. \A i \in 1..k : s[i] \in S
    BY <1>0, ElementOfSeq
  <2>2. 1 \in Int /\ k \in Int
    OBVIOUS
  <2>3. /\ SubSeq(s, 1, k) \in Seq(S)
        /\ Len(SubSeq(s, 1, k)) = IF 1 <= k THEN k - 1 + 1 ELSE 0
        /\ \A i \in 1..(k - 1 + 1) : SubSeq(s, 1, k)[i] = s[1 + i - 1]
    BY <2>1, <2>2, SubSeqProperties
  <2> QED  BY <2>3
<1>3. ASSUME NEW k \in 0..(n - 1)
      PROVE  /\ s[k + 1] \in S
             /\ SubSeq(s, 1, k + 1) = Append(SubSeq(s, 1, k), s[k + 1])
  <2> DEFINE p == SubSeq(s, 1, k)
             q == SubSeq(s, 1, k + 1)
  <2>1. k \in 0..n /\ k + 1 \in 0..n /\ k + 1 \in 1..n
    OBVIOUS
  <2>2. s[k + 1] \in S
    BY <1>0, <2>1, ElementOfSeq
  <2>3. /\ p \in Seq(S) /\ Len(p) = k /\ \A i \in 1..k : p[i] = s[i]
        /\ q \in Seq(S) /\ Len(q) = k + 1 /\ \A i \in 1..(k + 1) : q[i] = s[i]
    BY <1>2, <2>1
  <2> HIDE DEF p, q
  <2>4. /\ Append(p, s[k + 1]) \in Seq(S) /\ Len(Append(p, s[k + 1])) = k + 1
        /\ \A i \in 1..k : Append(p, s[k + 1])[i] = p[i]
        /\ Append(p, s[k + 1])[k + 1] = s[k + 1]
    BY <2>2, <2>3, AppendProperties
  <2>5. \A i \in 1..(k + 1) : i = k + 1 \/ i \in 1..k
    OBVIOUS
  <2>6. \A i \in 1..(k + 1) : q[i] = Append(p, s[k + 1])[i]
    BY <2>3, <2>4, <2>5
  <2>7. q = Append(p, s[k + 1])
    BY <2>3, <2>4, <2>6, SeqEqual
  <2> QED  BY <2>2, <2>7 DEF p, q
<1> QED  BY <1>0, <1>1, <1>2, <1>3

-----------------------------------------------------------------------------
(* What a container prints, frame by frame.                                *)

Piece(s, f) == IF s.framed THEN Header(f) \o f.payload ELSE f.payload

\* A sequence of eight elements.
LEMMA EightElements ==
  ASSUME NEW S, NEW a \in S, NEW b \in S, NEW c \in S, NEW d \in S,
         NEW e \in S, NEW f \in S, NEW g \in S, NEW h \in S
  PROVE  <<a, b, c, d, e, f, g, h>> \in Seq(S)
         /\ Len(<<a, b, c, d, e, f, g, h>>) = 8
  OBVIOUS

\* The header of a frame is eight bytes.
LEMMA HeaderIsBytes ==
  ASSUME NEW f \in Frame
  PROVE  /\ Header(f) \in Seq(Byte) /\ Len(Header(f)) = 8
         /\ f.type \in {1, 2} /\ f.payload \in Seq(Byte)
<1>1. f.type \in {1, 2} /\ f.payload \in Seq(Byte) /\ Len(f.payload) \in Nat
  BY LenProperties DEF Frame
<1>2. \A m \in Nat : m % Base \in Byte
  BY DecoderAssumption, Division DEF Byte
<1>3. \A b \in Nat \ {0} : Len(f.payload) \div b \in Nat
  BY <1>1, Division
<1>4. Base \in Nat \ {0} /\ Base * Base \in Nat \ {0} /\ Base * Base * Base \in Nat \ {0}
  BY DecoderAssumption
<1>5. f.type \in Byte /\ 0 \in Byte
  BY <1>1, DecoderAssumption DEF Byte
<1> DEFINE n == Len(f.payload)
           d1 == (n \div (Base * Base * Base)) % Base
           d2 == (n \div (Base * Base)) % Base
           d3 == (n \div Base) % Base
           d4 == n % Base
<1>6. d1 \in Byte /\ d2 \in Byte /\ d3 \in Byte /\ d4 \in Byte
  BY <1>1, <1>2, <1>3, <1>4
<1>7. Header(f) = <<f.type, 0, 0, 0, d1, d2, d3, d4>>
  BY DEF Header
<1> HIDE DEF d1, d2, d3, d4
<1> QED  BY <1>1, <1>5, <1>6, <1>7, EightElements

\* A frame is printed as bytes.
LEMMA PieceIsBytes ==
  ASSUME NEW s, NEW f \in Frame PROVE Piece(s, f) \in Seq(Byte)
  BY HeaderIsBytes, ConcatProperties DEF Piece

\* No frames, no bytes.
LEMMA EncodeEmpty ==
  ASSUME NEW s PROVE Encode(s, <<>>) = <<>>
<1>1. [i \in 1..0 |-> Piece(s, <<>>[i])] = <<>>
  OBVIOUS
<1>2. [i \in 1..Len(<<>>) |-> Piece(s, <<>>[i])] = <<>>
  BY <1>1, EmptySeq
<1> QED  BY <1>2, FlattenEmpty DEF Encode, Piece

\* One frame more adds its bytes.
LEMMA EncodeGrows ==
  ASSUME NEW s, NEW fs \in Seq(Frame), NEW f \in Frame
  PROVE  /\ Encode(s, fs) \in Seq(Byte)
         /\ Encode(s, Append(fs, f)) = Encode(s, fs) \o Piece(s, f)
<1> DEFINE g == [h \in Frame |-> Piece(s, h)]
<1>0. fs \in Seq(Frame) /\ f \in Frame
  OBVIOUS
<1>1. IsMap(g, Frame, Seq(Byte))
  BY PieceIsBytes DEF IsMap
<1>2. ASSUME NEW hs \in Seq(Frame) PROVE Encode(s, hs) = FlattenSeq(Mapped(g, hs))
  <2>1. \A i \in 1..Len(hs) : hs[i] \in Frame
    BY ElementOfSeq
  <2>2. \A i \in 1..Len(hs) : g[hs[i]] = Piece(s, hs[i])
    BY <2>1
  <2>3. [i \in 1..Len(hs) |-> Piece(s, hs[i])] = Mapped(g, hs)
    BY <2>2, Zenon DEF Mapped
  <2>4. Encode(s, hs) = FlattenSeq([i \in 1..Len(hs) |-> Piece(s, hs[i])])
    BY Zenon DEF Encode, Piece
  <2> QED  BY <2>3, <2>4, Zenon
<1>3. g[f] = Piece(s, f)
  OBVIOUS
<1> HIDE DEF g
<1>4. /\ Mapped(g, fs) \in Seq(Seq(Byte))
      /\ Mapped(g, Append(fs, f)) = Append(Mapped(g, fs), Piece(s, f))
  <2>1. Mapped(g, fs) \in Seq(Seq(Byte))
    BY <1>0, <1>1, MappedAppend, Zenon
  <2>2. Mapped(g, Append(fs, f)) = Append(Mapped(g, fs), g[f])
    BY <1>0, <1>1, MappedAppend, SMT
  <2> QED  BY <1>3, <2>1, <2>2, Zenon
<1>5. Append(fs, f) \in Seq(Frame) /\ <<>> \in Seq(Frame)
  BY AppendProperties, EmptySeq
<1> QED  BY <1>2, <1>4, <1>5, FlattenAppend, PieceIsBytes, Zenon

\* Decoding keeps a place for each byte.
LEMMA Decoded ==
  ASSUME NEW m \in Seq(Byte)
  PROVE  /\ decode(m) \in Seq(Char) /\ Len(decode(m)) = Len(m)
         /\ decode(m) = <<>> <=> m = <<>>
<1>1. Len(m) \in Nat /\ \A i \in 1..Len(m) : m[i] \in Byte
  BY LenProperties, ElementOfSeq
<1>2. /\ DOMAIN decode(m) = 1..Len(m)
      /\ \A i \in 1..Len(m) : decode(m)[i] \in Char
  BY <1>1 DEF decode, Char
<1>3. decode(m) = [i \in 1..Len(m) |-> decode(m)[i]]
  BY Zenon DEF decode
<1> HIDE DEF decode
<1>4. decode(m) \in Seq(Char)
  BY <1>1, <1>2, <1>3, IsASeq
<1>5. Len(decode(m)) = Len(m)
  BY <1>1, <1>2, <1>4, LenProperties
<1> QED  BY <1>4, <1>5, EmptySeq

\* A message is printed as one line, or none.
LEMMA LinesOfBytes ==
  ASSUME NEW m \in Seq(Byte)
  PROVE  Lines(m) \in Seq(Seq(Char))
  BY Decoded, EmptySeq DEF Lines

\* No frames, no lines.
LEMMA PayloadsEmpty == Payloads(<<>>) = <<>>
<1>1. [i \in 1..0 |-> Lines(<<>>[i].payload)] = <<>>
  OBVIOUS
<1>2. [i \in 1..Len(<<>>) |-> Lines(<<>>[i].payload)] = <<>>
  BY <1>1, EmptySeq
<1> QED  BY <1>2, FlattenEmpty DEF Payloads

\* One frame more adds its payload.
LEMMA PayloadsGrow ==
  ASSUME NEW fs \in Seq(Frame), NEW f \in Frame
  PROVE  /\ Payloads(fs) \in Seq(Seq(Char))
         /\ Payloads(Append(fs, f)) = Payloads(fs) \o Lines(f.payload)
<1> DEFINE g == [h \in Frame |-> Lines(h.payload)]
<1>0. fs \in Seq(Frame) /\ f \in Frame
  OBVIOUS
<1>1. IsMap(g, Frame, Seq(Seq(Char)))
  BY LinesOfBytes DEF Frame, IsMap
<1>2. ASSUME NEW hs \in Seq(Frame) PROVE Payloads(hs) = FlattenSeq(Mapped(g, hs))
  <2>1. \A i \in 1..Len(hs) : hs[i] \in Frame
    BY ElementOfSeq
  <2>2. \A i \in 1..Len(hs) : g[hs[i]] = Lines(hs[i].payload)
    BY <2>1
  <2>3. [i \in 1..Len(hs) |-> Lines(hs[i].payload)] = Mapped(g, hs)
    BY <2>2, Zenon DEF Mapped
  <2> QED  BY <2>3, Zenon DEF Payloads
<1>3. g[f] = Lines(f.payload)
  OBVIOUS
<1> HIDE DEF g
<1>4. /\ Mapped(g, fs) \in Seq(Seq(Seq(Char)))
      /\ Mapped(g, Append(fs, f)) = Append(Mapped(g, fs), Lines(f.payload))
  <2>1. Mapped(g, fs) \in Seq(Seq(Seq(Char)))
    BY <1>0, <1>1, MappedAppend, Zenon
  <2>2. Mapped(g, Append(fs, f)) = Append(Mapped(g, fs), g[f])
    BY <1>0, <1>1, MappedAppend, SMT
  <2> QED  BY <1>3, <2>1, <2>2, Zenon
<1>5. Append(fs, f) \in Seq(Frame) /\ <<>> \in Seq(Frame)
  BY AppendProperties, EmptySeq
<1>7. Lines(f.payload) \in Seq(Seq(Char))
  BY LinesOfBytes DEF Frame
<1> QED  BY <1>2, <1>4, <1>5, <1>7, FlattenAppend, Zenon

\* All payloads of frames are printed as text.
LEMMA PayloadsAreBytes ==
  ASSUME NEW fs \in Seq(Frame) PROVE Payloads(fs) \in Seq(Seq(Char))
<1>1. PICK f \in Frame : TRUE
  <2>1. [type |-> 1, payload |-> <<>>] \in Frame
    BY EmptySeq DEF Frame
  <2> QED  BY <2>1
<1> QED  BY <1>1, PayloadsGrow

-----------------------------------------------------------------------------
(* Concatenation.                                                          *)

\* The part between two others.
LEMMA Middle ==
  ASSUME NEW S, NEW a \in Seq(S), NEW b \in Seq(S), NEW c \in Seq(S)
  PROVE  SubSeq(a \o (b \o c), Len(a) + 1, Len(a) + Len(b)) = b
<1> DEFINE w == a \o (b \o c)
           m == SubSeq(w, Len(a) + 1, Len(a) + Len(b))
<1>0. PICK j, k, l \in Nat : j = Len(a) /\ k = Len(b) /\ l = Len(c)
  BY LenProperties
<1>1. /\ b \o c \in Seq(S) /\ Len(b \o c) = k + l
      /\ \A i \in 1..k : (b \o c)[i] = b[i]
  BY <1>0, ConcatProperties
<1>2. /\ w \in Seq(S) /\ Len(w) = j + (k + l)
      /\ \A i \in 1..(j + (k + l)) :
           w[i] = IF i <= j THEN a[i] ELSE (b \o c)[i - j]
  BY <1>0, <1>1, ConcatProperties
<1> HIDE DEF w
<1>3. \A i \in 1..k : w[j + i] = b[i]
  <2>1. ASSUME NEW i \in 1..k
        PROVE  j + i \in 1..(j + (k + l)) /\ ~(j + i <= j) /\ (j + i) - j = i
    OBVIOUS
  <2> QED  BY <1>1, <1>2, <2>1
<1>4. /\ m \in Seq(S) /\ Len(m) = k /\ \A i \in 1..k : m[i] = w[j + i]
  <2>1. \A i \in (j + 1)..(j + k) : w[i] \in S
    BY <1>2, ElementOfSeq
  <2>2. j + 1 \in Int /\ j + k \in Int
    OBVIOUS
  <2>3. /\ SubSeq(w, j + 1, j + k) \in Seq(S)
        /\ Len(SubSeq(w, j + 1, j + k))
             = IF j + 1 <= j + k THEN (j + k) - (j + 1) + 1 ELSE 0
        /\ \A i \in 1..((j + k) - (j + 1) + 1) :
             SubSeq(w, j + 1, j + k)[i] = w[(j + 1) + i - 1]
    BY <2>1, <2>2, SubSeqProperties
  <2>4. m = SubSeq(w, j + 1, j + k)
    BY <1>0
  <2>6. \A i \in 1..k : SubSeq(w, j + 1, j + k)[i] = w[j + i]
    <3>1. TAKE i \in 1..k
    <3>2. i \in 1..((j + k) - (j + 1) + 1) /\ (j + 1) + i - 1 = j + i
      OBVIOUS
    <3>3. SubSeq(w, j + 1, j + k)[i] = w[(j + 1) + i - 1]
      BY <2>3, <3>2
    <3> QED  BY <3>2, <3>3
  <2>7. Len(SubSeq(w, j + 1, j + k)) = k
    BY <2>3
  <2> HIDE DEF m
  <2> QED  BY <2>3, <2>4, <2>6, <2>7
<1> HIDE DEF m
<1>5. m = b
  <2>1. \A i \in 1..k : m[i] = b[i]
    BY <1>3, <1>4
  <2> QED  BY <1>0, <1>4, <2>1, SeqEqual
<1> QED  BY <1>5 DEF m, w

\* Concatenation of byte sequences is associative.
LEMMA Regroup ==
  \A a, b, c \in Seq(Byte) :
    a \o b \in Seq(Byte) /\ (a \o b) \o c = a \o (b \o c)
<1> TAKE a, b, c \in Seq(Byte)
<1> QED  BY ConcatAssociative, ConcatProperties

\* The first elements are those of the first part.
LEMMA FrontAt ==
  ASSUME NEW S, NEW a \in Seq(S), NEW b \in Seq(S)
  PROVE  \A j \in 1..Len(a) : (a \o b)[j] = a[j]
<1>1. Len(a) \in Nat /\ Len(b) \in Nat
  BY LenProperties
<1>2. \A j \in 1..(Len(a) + Len(b)) :
        (a \o b)[j] = IF j <= Len(a) THEN a[j] ELSE b[j - Len(a)]
  BY ConcatProperties
<1>3. \A j \in 1..Len(a) : j \in 1..(Len(a) + Len(b)) /\ j <= Len(a)
  BY <1>1
<1> QED  BY <1>2, <1>3

SameCut(a, b, c, d) == a \o b = c \o d

\* Two sequences with the same first part.
LEMMA CancelLeft ==
  ASSUME NEW S, NEW a \in Seq(S), NEW b \in Seq(S), NEW d \in Seq(S),
         SameCut(a, b, a, d)
  PROVE  b = d
<1>1. a \o b = a \o d
  BY DEF SameCut
<1>2. \A T : \A s, t, v \in Seq(T) : s \o t = s \o v => t = v
  BY ConcatSimplifications, Zenon
<1>3. a \in Seq(S) /\ b \in Seq(S) /\ d \in Seq(S)
  OBVIOUS
<1> QED  BY <1>1, <1>2, <1>3, Zenon

\* Two cuts at the same place.
LEMMA SplitsEqual ==
  ASSUME NEW S, NEW a \in Seq(S), NEW b \in Seq(S), NEW c \in Seq(S), NEW d \in Seq(S),
         SameCut(a, b, c, d), Len(a) = Len(c)
  PROVE  a = c /\ b = d
<1>0. PICK n \in Nat : n = Len(a) /\ n = Len(c)
  BY LenProperties
<1>1. /\ \A i \in 1..n : (a \o b)[i] = a[i]
      /\ \A i \in 1..n : (a \o b)[i] = c[i]
  <2>1. \A i \in 1..Len(a) : (a \o b)[i] = a[i]
    BY FrontAt
  <2>2. \A i \in 1..Len(c) : (c \o d)[i] = c[i]
    BY FrontAt
  <2>3. a \o b = c \o d
    BY DEF SameCut
  <2> QED  BY <1>0, <2>1, <2>2, <2>3
<1>2. \A i \in 1..n : a[i] = c[i]
  BY <1>1
<1>3. a = c
  BY <1>0, <1>2, SeqEqual
<1>4. b = d
  <2>1. SameCut(a, b, a, d)
    BY <1>3
  <2> QED  BY <2>1, CancelLeft
<1> QED  BY <1>3, <1>4

-----------------------------------------------------------------------------
(* Concatenation as a relation, for the steps that only move a boundary.   *)

IsCat(w, a, b) == a \in Seq(Byte) /\ b \in Seq(Byte) /\ w = a \o b

\* Any two byte sequences have a concatenation.
LEMMA Cats ==
  ASSUME NEW a \in Seq(Byte), NEW b \in Seq(Byte)
  PROVE  \E w \in Seq(Byte) : IsCat(w, a, b)
<1>1. a \o b \in Seq(Byte)
  BY ConcatProperties
<1> QED  BY <1>1 DEF IsCat

\* A part in the middle belongs to either side.
LEMMA CatLeft ==
  ASSUME NEW a, NEW b, NEW c, NEW ab, NEW bc, NEW w,
         IsCat(ab, a, b), IsCat(bc, b, c)
  PROVE  IsCat(w, a, bc) <=> IsCat(w, ab, c)
<1>1. a \in Seq(Byte) /\ b \in Seq(Byte) /\ c \in Seq(Byte)
      /\ ab = a \o b /\ bc = b \o c
  BY DEF IsCat
<1>2. (a \o b) \o c = a \o (b \o c)
  BY <1>1, Regroup
<1>3. a \o b \in Seq(Byte) /\ b \o c \in Seq(Byte)
  BY <1>1, ConcatProperties
<1> QED  BY <1>1, <1>2, <1>3 DEF IsCat

\* What follows the same beginning is the same.
LEMMA CatCancel ==
  ASSUME NEW a, NEW b, NEW d, NEW w, IsCat(w, a, b), IsCat(w, a, d)
  PROVE  b = d
<1>1. SameCut(a, b, a, d) /\ a \in Seq(Byte) /\ b \in Seq(Byte) /\ d \in Seq(Byte)
  BY DEF IsCat, SameCut
<1> QED  BY <1>1, CancelLeft

\* What is cut at the same place has the same parts.
LEMMA CatSplit ==
  ASSUME NEW a, NEW b, NEW c, NEW d, NEW w,
         IsCat(w, a, b), IsCat(w, c, d), Len(a) = Len(c)
  PROVE  a = c /\ b = d
<1>1. /\ a \in Seq(Byte) /\ b \in Seq(Byte) /\ c \in Seq(Byte) /\ d \in Seq(Byte)
      /\ SameCut(a, b, c, d)
  BY DEF IsCat, SameCut
<1> QED  BY <1>1, SplitsEqual

\* The part in the middle, by its position.
LEMMA CatMiddle ==
  ASSUME NEW a, NEW b, NEW c, NEW bc, NEW w, IsCat(bc, b, c), IsCat(w, a, bc)
  PROVE  SubSeq(w, Len(a) + 1, Len(a) + Len(b)) = b
<1>1. /\ a \in Seq(Byte) /\ b \in Seq(Byte) /\ c \in Seq(Byte)
      /\ w = a \o (b \o c)
  BY DEF IsCat
<1>2. SubSeq(a \o (b \o c), Len(a) + 1, Len(a) + Len(b)) = b
  BY <1>1, Middle
<1> QED  BY <1>1, <1>2

\* The parts of a byte sequence and their lengths.
LEMMA CatParts ==
  ASSUME NEW a, NEW b, NEW w, IsCat(w, a, b)
  PROVE  /\ a \in Seq(Byte) /\ b \in Seq(Byte) /\ w \in Seq(Byte)
         /\ Len(a) \in Nat /\ Len(b) \in Nat /\ Len(w) = Len(a) + Len(b)
<1>1. a \in Seq(Byte) /\ b \in Seq(Byte) /\ w = a \o b
  BY DEF IsCat
<1>2. Len(a \o b) = Len(a) + Len(b) /\ a \o b \in Seq(Byte)
  BY <1>1, ConcatProperties
<1> QED  BY <1>1, <1>2, LenProperties

\* The first bytes are those of the first part.
LEMMA CatFront ==
  ASSUME NEW a, NEW b, NEW w, IsCat(w, a, b)
  PROVE  \A j \in 1..Len(a) : w[j] = a[j]
  BY FrontAt DEF IsCat

\* Three parts.
LEMMA CatTwice ==
  ASSUME NEW a \in Seq(Byte), NEW b \in Seq(Byte), NEW c \in Seq(Byte), NEW w
  PROVE  w = a \o (b \o c) <=> \E bc : IsCat(bc, b, c) /\ IsCat(w, a, bc)
<1>1. b \o c \in Seq(Byte)
  BY ConcatProperties
<1>2. ASSUME w = a \o (b \o c) PROVE IsCat(b \o c, b, c) /\ IsCat(w, a, b \o c)
  BY <1>1, <1>2 DEF IsCat
<1>3. ASSUME NEW bc, IsCat(bc, b, c), IsCat(w, a, bc) PROVE w = a \o (b \o c)
  BY <1>3 DEF IsCat
<1> QED  BY <1>2, <1>3

\* A sequence in two parts.
LEMMA Halves ==
  ASSUME NEW S, NEW s \in Seq(S), NEW k \in 0..Len(s)
  PROVE  /\ SubSeq(s, 1, k) \in Seq(S) /\ Len(SubSeq(s, 1, k)) = k
         /\ SubSeq(s, k + 1, Len(s)) \in Seq(S)
         /\ s = SubSeq(s, 1, k) \o SubSeq(s, k + 1, Len(s))
<1>0. PICK n \in Nat : n = Len(s)
  BY LenProperties
<1>1. \A i \in 1..n : s[i] \in S
  BY <1>0, ElementOfSeq
<1>2. SubSeq(s, 1, k) \in Seq(S) /\ Len(SubSeq(s, 1, k)) = k
  <2>1. \A i \in 1..k : s[i] \in S
    BY <1>0, <1>1
  <2>2. 1 \in Int /\ k \in Int
    OBVIOUS
  <2>3. /\ SubSeq(s, 1, k) \in Seq(S)
        /\ Len(SubSeq(s, 1, k)) = IF 1 <= k THEN k - 1 + 1 ELSE 0
    BY <2>1, <2>2, SubSeqProperties
  <2> QED  BY <1>0, <2>3
<1>3. SubSeq(s, k + 1, n) \in Seq(S)
  <2>1. \A i \in (k + 1)..n : s[i] \in S
    BY <1>0, <1>1
  <2>2. k + 1 \in Int /\ n \in Int
    BY <1>0
  <2> QED  BY <2>1, <2>2, SubSeqProperties
<1>4. s = SubSeq(s, 1, k) \o SubSeq(s, k + 1, n)
  <2>1. /\ 1 \in 1..(n + 1) /\ k \in (1 - 1)..n /\ n \in k..n
    BY <1>0
  <2>2. SubSeq(s, 1, k) \o SubSeq(s, k + 1, n) = SubSeq(s, 1, n)
    BY <1>0, <2>1, ConcatAdjacentSubSeq
  <2>3. SubSeq(s, 1, n) = s
    BY <1>0, SubSeqFull
  <2> QED  BY <2>2, <2>3
<1> QED  BY <1>0, <1>2, <1>3, <1>4

-----------------------------------------------------------------------------
(* The frames a container sends, and how a frame is read.                  *)

\* The first k frames of an output.
Sent(s, k) == Encode(s, SubSeq(s.frames, 1, k))

\* A payload whose length fits in a header.
IsShort(f) == Len(f.payload) < Base * Base * Base * Base

\* The first frames of an output, one by one: bytes, and one frame more each.
LEMMA SentGrows ==
  ASSUME NEW s \in Scripts
  PROVE  /\ Len(s.frames) \in Nat
         /\ Sent(s, 0) = <<>> /\ Sent(s, Len(s.frames)) = Encode(s, s.frames)
         /\ \A k \in 0..Len(s.frames) : Sent(s, k) \in Seq(Byte)
         /\ \A k \in 0..(Len(s.frames) - 1) :
              /\ s.frames[k + 1] \in Frame
              /\ IsShort(s.frames[k + 1])
              /\ Piece(s, s.frames[k + 1]) \in Seq(Byte)
              /\ Sent(s, k + 1) = Sent(s, k) \o Piece(s, s.frames[k + 1])
<1> DEFINE fs == s.frames
<1>1. fs \in Seq(Frame) /\ Len(fs) \in Nat
      /\ \A i \in 1..Len(fs) : IsShort(fs[i])
  BY ScriptsAreFrames, LenProperties DEF IsShort
<1> HIDE DEF fs
<1>2. /\ SubSeq(fs, 1, 0) = <<>> /\ SubSeq(fs, 1, Len(fs)) = fs
      /\ \A k \in 0..Len(fs) : SubSeq(fs, 1, k) \in Seq(Frame)
      /\ \A k \in 0..(Len(fs) - 1) :
           fs[k + 1] \in Frame
           /\ SubSeq(fs, 1, k + 1) = Append(SubSeq(fs, 1, k), fs[k + 1])
  BY <1>1, PrefixGrows
<1>3. ASSUME NEW k \in 0..Len(fs) PROVE Encode(s, SubSeq(fs, 1, k)) \in Seq(Byte)
  <2>1. CASE k = 0
    BY <1>2, <2>1, EncodeEmpty, EmptySeq
  <2>2. CASE k # 0
    <3>1. k - 1 \in 0..(Len(fs) - 1)
      BY <1>1, <2>2
    <3>2. fs[k - 1 + 1] \in Frame
      BY <1>2, <3>1
    <3>3. SubSeq(fs, 1, k) \in Seq(Frame)
      BY <1>2
    <3> QED  BY <3>2, <3>3, EncodeGrows
  <2> QED  BY <2>1, <2>2
<1>4. ASSUME NEW k \in 0..(Len(fs) - 1)
      PROVE  /\ fs[k + 1] \in Frame
             /\ IsShort(fs[k + 1])
             /\ Piece(s, fs[k + 1]) \in Seq(Byte)
             /\ Encode(s, SubSeq(fs, 1, k + 1))
                  = Encode(s, SubSeq(fs, 1, k)) \o Piece(s, fs[k + 1])
  <2>1. k \in 0..Len(fs) /\ k + 1 \in 1..Len(fs)
    BY <1>1
  <2>2. fs[k + 1] \in Frame /\ SubSeq(fs, 1, k) \in Seq(Frame)
    BY <1>2, <2>1
  <2>3. Encode(s, Append(SubSeq(fs, 1, k), fs[k + 1]))
          = Encode(s, SubSeq(fs, 1, k)) \o Piece(s, fs[k + 1])
    BY <2>2, EncodeGrows
  <2>4. SubSeq(fs, 1, k + 1) = Append(SubSeq(fs, 1, k), fs[k + 1])
    BY <1>2
  <2> QED  BY <1>1, <2>1, <2>2, <2>3, <2>4, PieceIsBytes
<1>5. Encode(s, <<>>) = <<>>
  BY EncodeEmpty
<1> QED  BY <1>1, <1>2, <1>3, <1>4, <1>5 DEF Sent, fs

\* The whole output.
LEMMA OutputIsBytes ==
  ASSUME NEW s \in Scripts
  PROVE  Encode(s, s.frames) \in Seq(Byte)
<1>1. Len(s.frames) \in 0..Len(s.frames)
  BY SentGrows
<1> QED  BY <1>1, SentGrows

\* Earlier frames are a prefix of what was sent later.
LEMMA SentBegins ==
  ASSUME NEW s \in Scripts, NEW k \in Nat, NEW m \in Nat, k <= m, m <= Len(s.frames)
  PROVE  \E rest \in Seq(Byte) : IsCat(Sent(s, m), Sent(s, k), rest)
<1> DEFINE P(d) == \E rest \in Seq(Byte) : IsCat(Sent(s, k + d), Sent(s, k), rest)
           T == {d \in Nat : k + d <= Len(s.frames) => P(d)}
<1>0. Len(s.frames) \in Nat /\ \A j \in 0..Len(s.frames) : Sent(s, j) \in Seq(Byte)
  BY SentGrows
<1>1. P(0)
  <2>1. k + 0 = k /\ k \in 0..Len(s.frames)
    BY <1>0
  <2>2. Sent(s, k) = Sent(s, k) \o <<>> /\ <<>> \in Seq(Byte) /\ Sent(s, k) \in Seq(Byte)
    BY <1>0, <2>1, ConcatEmptySeq, EmptySeq
  <2> QED  BY <2>1, <2>2 DEF IsCat
<1>2. ASSUME NEW d \in Nat, k + (d + 1) <= Len(s.frames), P(d) PROVE P(d + 1)
  <2>1. PICK rest \in Seq(Byte) : IsCat(Sent(s, k + d), Sent(s, k), rest)
    BY <1>2
  <2>2. k \in 0..Len(s.frames) /\ k + d \in 0..(Len(s.frames) - 1)
        /\ (k + d) + 1 = k + (d + 1)
    BY <1>0, <1>2
  <2> DEFINE piece == Piece(s, s.frames[k + d + 1])
  <2>3. piece \in Seq(Byte) /\ IsCat(Sent(s, k + (d + 1)), Sent(s, k + d), piece)
    <3>1. k + d \in 0..Len(s.frames)
      BY <2>2, <1>0
    <3>2. Sent(s, k + d) \in Seq(Byte) /\ piece \in Seq(Byte)
          /\ Sent(s, k + (d + 1)) = Sent(s, k + d) \o piece
      BY <2>2, <3>1, SentGrows
    <3> QED  BY <3>2 DEF IsCat
  <2> HIDE DEF piece
  <2>4. PICK all \in Seq(Byte) : IsCat(all, rest, piece)
    BY <2>3, Cats
  <2>5. IsCat(Sent(s, k + (d + 1)), Sent(s, k), all)
    BY <2>1, <2>3, <2>4, CatLeft
  <2> QED  BY <2>5
<1> HIDE DEF P
<1>3. 0 \in T /\ T \in SUBSET Nat
  BY <1>1
<1>4. ASSUME NEW d \in T PROVE d + 1 \in T
  <2>1. k + (d + 1) <= Len(s.frames) => k + d <= Len(s.frames)
    BY <1>0
  <2> QED  BY <1>2, <2>1
<1> HIDE DEF T
<1>5. T = Nat
  BY <1>3, <1>4, NatIsInductive
<1>6. m - k \in T /\ k + (m - k) = m
  BY <1>5
<1>7. P(m - k)
  BY <1>6 DEF T
<1> QED  BY <1>6, <1>7 DEF P

\* The first bytes of what arrives are those of its first frame.
LEMMA FirstEight ==
  ASSUME NEW h, NEW b, NEW hb, NEW rest, NEW p, NEW i, NEW c,
         IsCat(hb, h, b), IsCat(c, hb, rest), IsCat(c, p, i),
         Len(h) = 8, Len(p) >= 8
  PROVE  \A j \in 1..8 : p[j] = h[j]
<1>1. Len(hb) = 8 + Len(b) /\ Len(b) \in Nat
  BY CatParts
<1>2. Len(p) \in Nat
  BY CatParts
<1>3. \A j \in 1..Len(h) : hb[j] = h[j]
  <2>1. h \in Seq(Byte) /\ b \in Seq(Byte) /\ hb = h \o b
    BY DEF IsCat
  <2>2. \A j \in 1..Len(h) : (h \o b)[j] = h[j]
    BY <2>1, FrontAt
  <2> QED  BY <2>1, <2>2
<1>4. \A j \in 1..Len(hb) : c[j] = hb[j]
  BY CatFront
<1>5. \A j \in 1..Len(p) : c[j] = p[j]
  BY CatFront
<1>6. \A j \in 1..8 : j \in 1..Len(h) /\ j \in 1..Len(hb) /\ j \in 1..Len(p)
  BY <1>1, <1>2
<1>7. ASSUME NEW j \in 1..8 PROVE p[j] = h[j]
  <2>1. hb[j] = h[j]
    BY <1>3, <1>6
  <2>2. c[j] = hb[j]
    BY <1>4, <1>6
  <2>3. c[j] = p[j]
    BY <1>5, <1>6
  <2> QED  BY <2>1, <2>2, <2>3
<1> QED  BY <1>7

\* The decoder reads a frame from the bytes that begin with it.
LEMMA FrameRead ==
  ASSUME NEW f \in Frame, IsShort(f), NEW hb, NEW p, NEW i, NEW rest, NEW c,
         IsCat(hb, Header(f), f.payload), IsCat(c, hb, rest), IsCat(c, p, i),
         Len(p) >= HeaderLength
  PROVE  /\ Frames!IsHeader(p)
         /\ Frames!FrameLength(p) = HeaderLength + Len(f.payload)
<1> DEFINE n == Len(f.payload)
           h == Header(f)
<1>1. h \in Seq(Byte) /\ Len(h) = 8 /\ f.payload \in Seq(Byte) /\ f.type \in {1, 2}
      /\ n \in Nat
  BY HeaderIsBytes, LenProperties
<1>2. /\ h[1] = f.type /\ h[2] = 0 /\ h[3] = 0 /\ h[4] = 0
      /\ h[5] = (n \div (Base * Base * Base)) % Base
      /\ h[6] = (n \div (Base * Base)) % Base
      /\ h[7] = (n \div Base) % Base
      /\ h[8] = n % Base
  BY DEF Header
<1> HIDE DEF h
<1>3. \A j \in 1..8 : p[j] = h[j]
  <2>1. IsCat(hb, h, f.payload) /\ Len(p) >= 8
    BY DEF h, HeaderLength
  <2> QED  BY <1>1, <2>1, FirstEight
<1>4. /\ p[1] = h[1] /\ p[2] = h[2] /\ p[3] = h[3] /\ p[4] = h[4]
      /\ p[5] = h[5] /\ p[6] = h[6] /\ p[7] = h[7] /\ p[8] = h[8]
  BY <1>3
<1>5. Frames!IsHeader(p)
  BY <1>1, <1>2, <1>4 DEF Frames!IsHeader
<1>6. ((p[5] * Base + p[6]) * Base + p[7]) * Base + p[8] = n
  <2>1. Base \in Nat \ {0}
    BY DecoderAssumption
  <2> HIDE DEF n
  <2>2. ((((n \div (Base * Base * Base)) % Base) * Base
            + ((n \div (Base * Base)) % Base)) * Base
            + ((n \div Base) % Base)) * Base + (n % Base) = n
    BY <1>1, <2>1, Digits DEF n, IsShort
  <2> QED  BY <1>2, <1>4, <2>2
<1>7. Frames!FrameLength(p) = HeaderLength + n
  BY <1>6 DEF Frames!FrameLength
<1> QED  BY <1>5, <1>7

-----------------------------------------------------------------------------
(* The invariant of the buffer.                                            *)

\* A stream that is over has nothing pending, and only stop sets closing.
OverIsDrained ==
  stream # "flowing" => pc = "idle" /\ readOffset = writeOffset

ClosingIsOver ==
  /\ closing => stream # "flowing"
  /\ stream = "stopped" => closing

Inv ==
  /\ TypeOK
  /\ NeverOverruns
  /\ DrainedIsReleased
  /\ OverIsDrained
  /\ ClosingIsOver

-----------------------------------------------------------------------------
(* Windows of a byte buffer.                                               *)

\* A byte is a number, and 0 is a byte.
LEMMA Bytes == Byte \subseteq Nat /\ 0 \in Byte
BY DecoderAssumption DEF Byte

\* The part of a buffer between two offsets is a sequence of bytes.
LEMMA Window ==
  ASSUME NEW cap \in Nat, NEW b \in [0..(cap - 1) -> Byte],
         NEW from \in Nat, NEW to \in Nat, from <= to, to <= cap
  PROVE  /\ [i \in 1..(to - from) |-> b[from + i - 1]] \in Seq(Byte)
         /\ Len([i \in 1..(to - from) |-> b[from + i - 1]]) = to - from
         /\ \A k \in 1..(to - from) :
              [i \in 1..(to - from) |-> b[from + i - 1]][k] = b[from + k - 1]
<1> DEFINE s == [i \in 1..(to - from) |-> b[from + i - 1]]
           n == to - from
<1>1. n \in Nat
  OBVIOUS
<1>2. \A i \in 1..n : b[from + i - 1] \in Byte
  OBVIOUS
<1>3. s \in [1..n -> Byte]
  BY <1>2
<1> HIDE DEF s, n
<1>4. s \in Seq(Byte)
  BY <1>1, <1>3, SeqDef
<1>5. Len(s) = n
  BY <1>1, <1>3, <1>4, LenProperties
<1> QED
  BY <1>4, <1>5 DEF s, n

\* Subarray is such a window.
LEMMA SubarrayIsWindow ==
  ASSUME Inv, NEW from \in Nat, NEW to \in Nat, from <= to, to <= capacity
  PROVE  /\ Subarray(from, to) \in Seq(Byte)
         /\ Len(Subarray(from, to)) = to - from
         /\ \A k \in 1..(to - from) : Subarray(from, to)[k] = buffer[from + k - 1]
BY Window DEF Inv, TypeOK, Subarray

\* An empty window.
LEMMA NothingPending ==
  ASSUME NEW r \in Nat PROVE Subarray(r, r) = <<>>
BY DEF Subarray

\* Writing a chunk behind a window extends it by the chunk.
LEMMA Placed ==
  ASSUME NEW chunk \in Seq(Byte), NEW cap \in Nat,
         NEW contents \in [0..(cap - 1) -> Byte],
         NEW r \in Nat, NEW w \in Nat, r <= w,
         w + Len(chunk) <= cap,
         Place(chunk, cap, contents, r, w)
  PROVE  /\ capacity' = cap
         /\ buffer' \in [0..(cap - 1) -> Byte]
         /\ readOffset' = r
         /\ writeOffset' = w + Len(chunk)
         /\ pc' = "decoding"
         /\ Subarray(readOffset, writeOffset)'
              = [i \in 1..(w - r) |-> contents[r + i - 1]] \o chunk
<1> DEFINE n == Len(chunk)
           old == [i \in 1..(w - r) |-> contents[r + i - 1]]
           placed == [i \in 0..(cap - 1) |->
                        IF i \in w..(w + n - 1)
                        THEN chunk[i - w + 1] ELSE contents[i]]
           e == w + n
           new == [i \in 1..(e - r) |-> placed[r + i - 1]]
<1>1. n \in Nat /\ \A i \in 1..n : chunk[i] \in Byte
  BY LenProperties, ElementOfSeq
<1>2. /\ capacity' = cap /\ readOffset' = r
      /\ writeOffset' = e /\ pc' = "decoding"
      /\ buffer' = placed
  BY DEF Place
<1> HIDE DEF n
<1>3. ASSUME NEW i \in 0..(cap - 1)
      PROVE  (IF i \in w..(w + n - 1) THEN chunk[i - w + 1] ELSE contents[i])
               \in Byte
  <2>1. CASE i \in w..(w + n - 1)
    <3>1. i - w + 1 \in 1..n
      BY <1>1, <2>1
    <3> QED
      BY <1>1, <2>1, <3>1
  <2>2. CASE i \notin w..(w + n - 1)
    BY <2>2
  <2> QED
    BY <2>1, <2>2
<1>4. placed \in [0..(cap - 1) -> Byte]
  BY <1>3
<1>5. e <= cap /\ e \in Nat /\ r <= e /\ w <= cap
  BY <1>1 DEF n
<1> HIDE DEF placed, e
<1>6. /\ new \in Seq(Byte) /\ Len(new) = e - r
      /\ \A k \in 1..(e - r) : new[k] = placed[r + k - 1]
  BY <1>4, <1>5, Window
<1>7. /\ old \in Seq(Byte) /\ Len(old) = w - r
      /\ \A k \in 1..(w - r) : old[k] = contents[r + k - 1]
  BY <1>5, Window
<1>8. Subarray(readOffset, writeOffset)' = new
  BY <1>2, Zenon DEF Subarray
<1> HIDE DEF new, old
<1> DEFINE both == old \o chunk
<1>9. /\ both \in Seq(Byte)
      /\ Len(both) = Len(old) + Len(chunk)
      /\ \A i \in 1..(Len(old) + Len(chunk)) : both[i] =
           IF i <= Len(old) THEN old[i] ELSE chunk[i - Len(old)]
  <2>1. old \in Seq(Byte) /\ chunk \in Seq(Byte)
    BY <1>7
  <2> HIDE DEF old
  <2> QED
    BY <2>1, ConcatProperties
<1> HIDE DEF both
<1>10. /\ both \in Seq(Byte) /\ Len(both) = (w - r) + n
       /\ \A i \in 1..((w - r) + n) : both[i] =
            IF i <= w - r THEN old[i] ELSE chunk[i - (w - r)]
  <2>1. Len(old) = w - r /\ Len(chunk) = n
    BY <1>7 DEF n
  <2> QED
    BY <1>9, <2>1
<1>11. ASSUME NEW k \in 1..(e - r)
       PROVE  new[k] = both[k]
  <2>1. /\ r + k - 1 \in 0..(cap - 1) /\ k \in 1..((w - r) + n)
    BY <1>1, <1>5 DEF e
  <2>2. new[k] = IF r + k - 1 \in w..(w + n - 1)
                 THEN chunk[(r + k - 1) - w + 1] ELSE contents[r + k - 1]
    <3>1. new[k] = placed[r + k - 1]
      BY <1>6
    <3> QED
      BY <2>1, <3>1 DEF placed, e
  <2>3. CASE k <= w - r
    <3>1. r + k - 1 \notin w..(w + n - 1) /\ k \in 1..(w - r)
      BY <1>1, <2>3
    <3> QED
      BY <1>7, <1>10, <2>1, <2>2, <2>3, <3>1
  <2>4. CASE k > w - r
    <3>1. /\ r + k - 1 \in w..(w + n - 1)
          /\ (r + k - 1) - w + 1 = k - (w - r)
          /\ ~(k <= w - r)
      BY <1>1, <2>4 DEF e
    <3>2. both[k] = chunk[k - (w - r)]
      BY <1>10, <2>1, <3>1
    <3> QED
      BY <2>2, <3>1, <3>2
  <2> QED
    BY <2>3, <2>4
<1>12. Len(new) = Len(both)
  BY <1>1, <1>6, <1>10 DEF e
<1>13. new = both
  BY <1>6, <1>10, <1>11, <1>12, SeqEqual
<1> QED
  BY <1>2, <1>4, <1>8, <1>13 DEF old, n, e, placed, both

\* The three ways to make room all leave the pending bytes as they were, with
\* the chunk behind them.
LEMMA Appended ==
  ASSUME Inv, NEW chunk \in Seq(Byte),
         appendInPlace(chunk) \/ appendCompacted(chunk) \/ appendGrown(chunk)
  PROVE  /\ capacity' \in Nat
         /\ buffer' \in [0..(capacity' - 1) -> Byte]
         /\ readOffset' \in Nat /\ writeOffset' \in Nat
         /\ readOffset' <= writeOffset' /\ writeOffset' <= capacity'
         /\ pc' = "decoding"
         /\ Subarray(readOffset, writeOffset)'
              = Subarray(readOffset, writeOffset) \o chunk
<1> DEFINE u == writeOffset - readOffset
<1>1. /\ capacity \in Nat /\ readOffset \in Nat /\ writeOffset \in Nat
      /\ buffer \in [0..(capacity - 1) -> Byte]
      /\ readOffset <= writeOffset /\ writeOffset <= capacity
  BY DEF Inv, TypeOK, NeverOverruns
<1>2. Len(chunk) \in Nat /\ u \in Nat
  BY <1>1, LenProperties
<1>3. CASE appendInPlace(chunk)
  <2>1. /\ writeOffset + Len(chunk) <= capacity
        /\ Place(chunk, capacity, buffer, readOffset, writeOffset)
    BY <1>1, <1>2, <1>3 DEF appendInPlace, Fits
  <2>2. Subarray(readOffset, writeOffset)
          = [i \in 1..(writeOffset - readOffset) |-> buffer[readOffset + i - 1]]
    BY DEF Subarray
  <2>3. /\ capacity' = capacity
        /\ buffer' \in [0..(capacity - 1) -> Byte]
        /\ readOffset' = readOffset
        /\ writeOffset' = writeOffset + Len(chunk)
        /\ pc' = "decoding"
        /\ Subarray(readOffset, writeOffset)'
             = Subarray(readOffset, writeOffset) \o chunk
    BY <1>1, <2>1, <2>2, Placed
  <2> QED
    BY <1>1, <1>2, <2>1, <2>3
<1>4. ASSUME NEW cap \in Nat, NEW contents \in [0..(cap - 1) -> Byte],
             u <= cap, u + Len(chunk) <= cap,
             \A i \in 0..(u - 1) : contents[i] = buffer[readOffset + i],
             Place(chunk, cap, contents, 0, u)
      PROVE  /\ capacity' = cap
             /\ buffer' \in [0..(cap - 1) -> Byte]
             /\ readOffset' = 0 /\ writeOffset' = u + Len(chunk)
             /\ pc' = "decoding"
             /\ Subarray(readOffset, writeOffset)'
                  = Subarray(readOffset, writeOffset) \o chunk
  <2> DEFINE old == [i \in 1..(u - 0) |-> contents[0 + i - 1]]
  <2>1. old = [i \in 1..u |-> buffer[readOffset + i - 1]]
    <3>1. u - 0 = u /\ \A i \in 1..u : contents[0 + i - 1] = buffer[readOffset + i - 1]
      <4>1. ASSUME NEW i \in 1..u
            PROVE  contents[0 + i - 1] = buffer[readOffset + i - 1]
        <5>1. /\ 0 + i - 1 \in 0..(u - 1)
              /\ readOffset + (0 + i - 1) = readOffset + i - 1
          BY <1>1, <1>2
        <5> HIDE DEF u
        <5> QED
          BY <1>4, <5>1
      <4> QED
        BY <1>2, <4>1
    <3> HIDE DEF u
    <3> QED
      BY <3>1
  <2>2. old = Subarray(readOffset, writeOffset)
    BY <2>1 DEF Subarray
  <2> HIDE DEF u
  <2>3. /\ capacity' = cap
        /\ buffer' \in [0..(cap - 1) -> Byte]
        /\ readOffset' = 0
        /\ writeOffset' = u + Len(chunk)
        /\ pc' = "decoding"
        /\ Subarray(readOffset, writeOffset)' = old \o chunk
    <3>1. 0 \in Nat /\ 0 <= u
      BY <1>2
    <3> QED
      BY <1>2, <1>4, <3>1, Placed
  <2> QED
    BY <2>2, <2>3
<1>5. CASE appendCompacted(chunk)
  <2> DEFINE contents == [i \in 0..(capacity - 1) |->
                            buffer[IF i < unreadLength THEN readOffset + i ELSE i]]
  <2>1. /\ u + Len(chunk) <= capacity /\ u <= capacity
        /\ Place(chunk, capacity, contents, 0, u)
    BY <1>1, <1>2, <1>5 DEF appendCompacted, CanCompact, unreadLength
  <2>2. \A i \in 0..(u - 1) : contents[i] = buffer[readOffset + i]
    BY <1>1 DEF unreadLength
  <2>3. contents \in [0..(capacity - 1) -> Byte]
    BY <1>1 DEF unreadLength
  <2> HIDE DEF contents, u
  <2>4. /\ capacity' = capacity
        /\ buffer' \in [0..(capacity - 1) -> Byte]
        /\ readOffset' = 0 /\ writeOffset' = u + Len(chunk)
        /\ pc' = "decoding"
        /\ Subarray(readOffset, writeOffset)'
             = Subarray(readOffset, writeOffset) \o chunk
    BY <1>1, <1>4, <2>1, <2>2, <2>3
  <2> QED
    BY <1>1, <1>2, <2>1, <2>4
<1>6. CASE appendGrown(chunk)
  <2>1. PICK cap \in Grown(Len(chunk)) :
          Place(chunk, cap,
                [i \in 0..(cap - 1) |->
                   IF i < unreadLength THEN buffer[readOffset + i] ELSE 0],
                0, unreadLength)
    BY <1>6 DEF appendGrown
  <2> DEFINE contents == [i \in 0..(cap - 1) |->
                            IF i < unreadLength THEN buffer[readOffset + i] ELSE 0]
  <2>2. cap \in Nat /\ u + Len(chunk) <= cap /\ u <= cap
    BY <1>1, <1>2, DecoderAssumption DEF Grown, unreadLength
  <2>3. Place(chunk, cap, contents, 0, u)
    BY <2>1 DEF unreadLength
  <2>4. \A i \in 0..(u - 1) : contents[i] = buffer[readOffset + i]
    BY <1>1, <1>2, <2>2 DEF unreadLength
  <2>5. contents \in [0..(cap - 1) -> Byte]
    BY <1>1, <1>2, <2>2, Bytes DEF unreadLength
  <2> HIDE DEF contents, u
  <2>6. /\ capacity' = cap
        /\ buffer' \in [0..(cap - 1) -> Byte]
        /\ readOffset' = 0 /\ writeOffset' = u + Len(chunk)
        /\ pc' = "decoding"
        /\ Subarray(readOffset, writeOffset)'
             = Subarray(readOffset, writeOffset) \o chunk
    BY <1>4, <2>2, <2>3, <2>4, <2>5
  <2> QED
    BY <1>1, <1>2, <2>2, <2>6
<1> QED
  BY <1>3, <1>5, <1>6

-----------------------------------------------------------------------------
(* The invariant.                                                          *)

\* An empty decoder satisfies the invariant.
LEMMA Initially == Init => Inv
<1> SUFFICES ASSUME Init PROVE Inv
  OBVIOUS
<1>1. incoming \in Seq(Byte)
  BY OutputIsBytes DEF Init
<1>2. buffer \in [0..(capacity - 1) -> Byte]
  BY DEF Init
<1>3. messages \in Seq(Seq(Char))
  BY EmptySeq DEF Init
<1>4. TypeOK
  BY <1>1, <1>2, <1>3 DEF Init, TypeOK
<1> QED
  BY <1>4
  DEF Init, Inv, NeverOverruns, DrainedIsReleased, OverIsDrained, ClosingIsOver

\* A chunk and what remains to be delivered.
LEMMA Cut ==
  ASSUME Inv, NEW n \in 1..Len(incoming)
  PROVE  /\ SubSeq(incoming, 1, n) \in Seq(Byte)
         /\ SubSeq(incoming, n + 1, Len(incoming)) \in Seq(Byte)
<1>1. incoming \in Seq(Byte) /\ Len(incoming) \in Nat
  BY LenProperties DEF Inv, TypeOK
<1>2. \A i \in 1..Len(incoming) : incoming[i] \in Byte
  BY <1>1, ElementOfSeq
<1>3. /\ \A i \in 1..n : incoming[i] \in Byte
      /\ \A i \in (n + 1)..Len(incoming) : incoming[i] \in Byte
  BY <1>1, <1>2
<1>4. 1 \in Int /\ n \in Int /\ n + 1 \in Int /\ Len(incoming) \in Int
  BY <1>1
<1> QED
  BY <1>3, <1>4, SubSeqProperties

\* The length that eight header bytes announce is a number.
LEMMA PayloadLength ==
  ASSUME Inv, unreadLength >= HeaderLength
  PROVE  payloadLength \in Nat /\ frameLength \in Nat
<1>1. /\ capacity \in Nat /\ readOffset \in Nat /\ writeOffset \in Nat
      /\ buffer \in [0..(capacity - 1) -> Byte]
      /\ readOffset <= writeOffset /\ writeOffset <= capacity
  BY DEF Inv, TypeOK, NeverOverruns
<1>2. /\ buffer[readOffset + 4] \in Nat /\ buffer[readOffset + 5] \in Nat
      /\ buffer[readOffset + 6] \in Nat /\ buffer[readOffset + 7] \in Nat
  <2>1. \A i \in 4..7 : readOffset + i \in 0..(capacity - 1)
    BY <1>1 DEF unreadLength, HeaderLength
  <2>2. \A i \in 4..7 : buffer[readOffset + i] \in Byte
    BY <1>1, <2>1
  <2>3. \A i \in 4..7 : buffer[readOffset + i] \in Nat
    BY <2>2, Bytes
  <2> QED
    BY <2>3
<1>3. \A a \in Nat : a * Base \in Nat
  BY DecoderAssumption
<1>4. payloadLength \in Nat
  BY <1>2, <1>3 DEF payloadLength
<1> QED
  BY <1>4 DEF frameLength, HeaderLength

\* Printing keeps the messages a sequence of texts.
LEMMA Printed ==
  ASSUME Inv, NEW m \in Seq(Byte), logDecodedMessage(decode(m))
  PROVE  messages' \in Seq(Seq(Char))
<1>1. messages \in Seq(Seq(Char))
  BY DEF Inv, TypeOK
<1> QED
  BY <1>1, Decoded, AppendProperties DEF logDecodedMessage

\* What reset leaves is an empty decoder.
LEMMA ResetState ==
  ASSUME reset
  PROVE  /\ capacity' = 0 /\ readOffset' = 0 /\ writeOffset' = 0
         /\ buffer' \in [0..(capacity' - 1) -> Byte]
         /\ Subarray(readOffset, writeOffset)' = <<>>
<1>1. capacity' = 0 /\ readOffset' = 0 /\ writeOffset' = 0
  BY DEF reset
<1>2. buffer' \in [0..(0 - 1) -> Byte]
  BY DEF reset
<1>3. Subarray(readOffset, writeOffset)'
        = [i \in 1..(writeOffset' - readOffset') |-> buffer'[readOffset' + i - 1]]
  BY Zenon DEF Subarray
<1>4. [i \in 1..(0 - 0) |-> buffer'[0 + i - 1]] = <<>>
  OBVIOUS
<1> QED
  BY <1>1, <1>2, <1>3, <1>4

\* flush prints the pending bytes and empties the decoder.
LEMMA Flushed ==
  ASSUME Inv, flush
  PROVE  messages' \in Seq(Seq(Char)) /\ reset
<1>1. Subarray(readOffset, writeOffset) \in Seq(Byte)
  BY SubarrayIsWindow DEF Inv, TypeOK, NeverOverruns
<1> QED
  BY <1>1, Printed DEF flush

\* Every step keeps it.
LEMMA Step == Inv /\ [Next]_vars => Inv'
<1> SUFFICES ASSUME Inv, [Next]_vars PROVE Inv'
  OBVIOUS
<1> USE DEF OverIsDrained, ClosingIsOver, DrainedIsReleased, NeverOverruns
<1>1. ASSUME NEW n \in 1..Len(incoming), onData(n) PROVE Inv'
  <2> DEFINE chunk == SubSeq(incoming, 1, n)
  <2>1. chunk \in Seq(Byte) /\ SubSeq(incoming, n + 1, Len(incoming)) \in Seq(Byte)
    BY Cut
  <2>2. appendInPlace(chunk) \/ appendCompacted(chunk) \/ appendGrown(chunk)
    BY <1>1 DEF onData
  <2> HIDE DEF chunk
  <2>3. /\ capacity' \in Nat
        /\ buffer' \in [0..(capacity' - 1) -> Byte]
        /\ readOffset' \in Nat /\ writeOffset' \in Nat
        /\ readOffset' <= writeOffset' /\ writeOffset' <= capacity'
        /\ pc' = "decoding"
    BY <2>1, <2>2, Appended
  <2> QED
    BY <1>1, <2>1, <2>3 DEF onData, follower, Inv, TypeOK
<1>2. CASE decodeFrame
  <2>1. payloadLength \in Nat /\ frameLength \in Nat
    BY <1>2, PayloadLength DEF decodeFrame
  <2>2. /\ readOffset + HeaderLength \in Nat /\ readOffset + frameLength \in Nat
        /\ readOffset + HeaderLength <= readOffset + frameLength
        /\ readOffset + frameLength <= writeOffset
        /\ readOffset + frameLength <= capacity
    BY <1>2, <2>1
    DEF decodeFrame, frameLength, HeaderLength, unreadLength, Inv, TypeOK
  <2>3. Subarray(readOffset + HeaderLength, readOffset + frameLength) \in Seq(Byte)
    BY <2>2, SubarrayIsWindow
  <2>4. messages' \in Seq(Seq(Char))
    BY <1>2, <2>3, Printed DEF decodeFrame
  <2> QED
    BY <1>2, <2>2, <2>4 DEF decodeFrame, follower, Inv, TypeOK
<1>3. CASE decodeRaw
  <2>1. Subarray(readOffset, writeOffset) \in Seq(Byte)
    BY SubarrayIsWindow DEF Inv, TypeOK
  <2>2. messages' \in Seq(Seq(Char))
    BY <1>3, <2>1, Printed DEF decodeRaw
  <2> QED
    BY <1>3, <2>2, ResetState DEF decodeRaw, follower, Inv, TypeOK
<1>4. CASE decodeDone
  <2>1. CASE readOffset = writeOffset
    BY <1>4, <2>1, ResetState DEF decodeDone, follower, Inv, TypeOK
  <2>2. CASE readOffset # writeOffset
    BY <1>4, <2>2 DEF decodeDone, decoder, follower, Inv, TypeOK
  <2> QED
    BY <2>1, <2>2
<1>5. CASE onEnd
  <2>1. messages' \in Seq(Seq(Char)) /\ reset
    BY <1>5, Flushed DEF onEnd
  <2> QED
    BY <1>5, <2>1, ResetState DEF onEnd, Inv, TypeOK
<1>6. ASSUME NEW interrupted \in BOOLEAN, onError(interrupted) PROVE Inv'
  <2>1. CASE closing /\ interrupted
    BY <1>6, <2>1 DEF onError, decoder, Inv, TypeOK
  <2>2. CASE ~(closing /\ interrupted)
    <3>1. messages' \in Seq(Seq(Char)) /\ reset
      BY <1>6, <2>2, Flushed DEF onError
    <3>2. /\ UNCHANGED <<incoming, pc, closing>> /\ pc = "idle"
          /\ reported' = TRUE
          /\ stream' \in {"closed", "failed"}
      BY <1>6, <2>2 DEF onError
    <3> QED
      BY <3>1, <3>2, ResetState DEF Inv, TypeOK
  <2> QED
    BY <2>1, <2>2
<1>7. CASE stop
  <2>1. messages' \in Seq(Seq(Char)) /\ reset
    BY <1>7, Flushed DEF stop
  <2> QED
    BY <1>7, <2>1, ResetState DEF stop, Inv, TypeOK
<1>8. CASE UNCHANGED vars
  BY <1>8 DEF vars, decoder, follower, Inv, TypeOK
<1> QED
  BY <1>1, <1>2, <1>3, <1>4, <1>5, <1>6, <1>7, <1>8 DEF Next

\* Every run of the decoder satisfies the invariant.
LEMMA Invariance == Spec => []Inv
BY Initially, Step, PTL DEF Spec

\* The buffer is a byte array of the recorded length and everything printed is
\* a byte sequence, whatever arrives.
THEOREM TypeCorrect == Spec => []TypeOK
<1>1. Inv => TypeOK
  BY DEF Inv
<1> QED
  BY <1>1, Invariance, PTL

\* buffer.set never throws and the offsets never cross.
THEOREM NoOverrun == Spec => []NeverOverruns
<1>1. Inv => NeverOverruns
  BY DEF Inv
<1> QED
  BY <1>1, Invariance, PTL

\* A decoder with nothing pending holds no memory between events.
THEOREM ReleasesMemory == Spec => []DrainedIsReleased
<1>1. Inv => DrainedIsReleased
  BY DEF Inv
<1> QED
  BY <1>1, Invariance, PTL

\* Between two chunks the decoder's buffer is well formed, large enough and no
\* longer kept than needed (shared.ts:205-266), for every output.
THEOREM BufferStaysOK == Spec => []BufferOK
<1>1. TypeOK /\ NeverOverruns /\ DrainedIsReleased => BufferOK
  BY DEF BufferOK
<1> QED
  BY <1>1, TypeCorrect, NoOverrun, ReleasesMemory, PTL

-----------------------------------------------------------------------------
(* The refinement.  pending is the window Subarray(readOffset,             *)
(* writeOffset) of the buffer.                                             *)

\* An empty decoder is an empty stream.
LEMMA InitRefines == Init => Frames!Init
<1> SUFFICES ASSUME Init PROVE Frames!Init
  OBVIOUS
<1>1. Subarray(readOffset, writeOffset) = <<>>
  BY NothingPending DEF Init
<1>2. incoming \in Seq(0..(Base - 1))
  BY OutputIsBytes DEF Init, Byte
<1> QED
  BY <1>1, <1>2 DEF Init, over, Frames!Init, Frames!Byte

\* The header tests read the first bytes of the window.
LEMMA HeadersAgree ==
  ASSUME Inv, unreadLength >= HeaderLength
  PROVE  /\ Len(Subarray(readOffset, writeOffset)) = unreadLength
         /\ Frames!IsHeader(Subarray(readOffset, writeOffset)) <=> isHeader
         /\ Frames!FrameLength(Subarray(readOffset, writeOffset)) = frameLength
<1> DEFINE s == Subarray(readOffset, writeOffset)
<1>1. /\ capacity \in Nat /\ readOffset \in Nat /\ writeOffset \in Nat
      /\ readOffset <= writeOffset /\ writeOffset <= capacity
  BY DEF Inv, TypeOK, NeverOverruns
<1>2. /\ Len(s) = writeOffset - readOffset
      /\ \A k \in 1..(writeOffset - readOffset) : s[k] = buffer[readOffset + k - 1]
  BY <1>1, SubarrayIsWindow
<1> HIDE DEF s
<1>3. /\ s[1] = buffer[readOffset] /\ s[2] = buffer[readOffset + 1]
      /\ s[3] = buffer[readOffset + 2] /\ s[4] = buffer[readOffset + 3]
      /\ s[5] = buffer[readOffset + 4] /\ s[6] = buffer[readOffset + 5]
      /\ s[7] = buffer[readOffset + 6] /\ s[8] = buffer[readOffset + 7]
  <2>1. \A k \in 1..8 : k \in 1..(writeOffset - readOffset)
    BY <1>1 DEF unreadLength, HeaderLength
  <2>2. /\ readOffset + 1 - 1 = readOffset /\ readOffset + 2 - 1 = readOffset + 1
        /\ readOffset + 3 - 1 = readOffset + 2 /\ readOffset + 4 - 1 = readOffset + 3
        /\ readOffset + 5 - 1 = readOffset + 4 /\ readOffset + 6 - 1 = readOffset + 5
        /\ readOffset + 7 - 1 = readOffset + 6 /\ readOffset + 8 - 1 = readOffset + 7
    BY <1>1
  <2> QED
    BY <1>2, <2>1, <2>2
<1>4. Frames!IsHeader(s) <=> isHeader
  BY <1>3 DEF isHeader, Frames!IsHeader
<1>5. Frames!FrameLength(s) = frameLength
  BY <1>3 DEF frameLength, payloadLength, Frames!FrameLength
<1> QED
  BY <1>2, <1>4, <1>5 DEF s, unreadLength

\* A window of a window.
LEMMA Inner ==
  ASSUME Inv, NEW k \in 0..unreadLength, NEW m \in k..unreadLength
  PROVE  SubSeq(Subarray(readOffset, writeOffset), k + 1, m)
           = Subarray(readOffset + k, readOffset + m)
<1> DEFINE s == Subarray(readOffset, writeOffset)
           t == SubSeq(s, k + 1, m)
           w == Subarray(readOffset + k, readOffset + m)
<1>1. /\ capacity \in Nat /\ readOffset \in Nat /\ writeOffset \in Nat
      /\ readOffset <= writeOffset /\ writeOffset <= capacity
  BY DEF Inv, TypeOK, NeverOverruns
<1>2. /\ k \in Nat /\ m \in Nat /\ k <= m /\ m <= writeOffset - readOffset
  BY <1>1 DEF unreadLength
<1>3. /\ s \in Seq(Byte)
      /\ Len(s) = writeOffset - readOffset
      /\ \A i \in 1..(writeOffset - readOffset) : s[i] = buffer[readOffset + i - 1]
  BY <1>1, SubarrayIsWindow
<1>4. /\ w \in Seq(Byte)
      /\ Len(w) = (readOffset + m) - (readOffset + k)
      /\ \A i \in 1..((readOffset + m) - (readOffset + k)) :
           w[i] = buffer[(readOffset + k) + i - 1]
  <2>1. /\ readOffset + k \in Nat /\ readOffset + m \in Nat
        /\ readOffset + k <= readOffset + m /\ readOffset + m <= capacity
    BY <1>1, <1>2
  <2> QED
    BY <2>1, SubarrayIsWindow
<1> HIDE DEF s, w
<1>5. /\ t \in Seq(Byte)
      /\ Len(t) = IF k + 1 <= m THEN m - (k + 1) + 1 ELSE 0
      /\ \A i \in 1..(m - (k + 1) + 1) : t[i] = s[(k + 1) + i - 1]
  <2>1. \A i \in (k + 1)..m : s[i] \in Byte
    BY <1>2, <1>3, ElementOfSeq
  <2>2. k + 1 \in Int /\ m \in Int
    BY <1>2
  <2> QED
    BY <2>1, <2>2, SubSeqProperties
<1> HIDE DEF t
<1>6. (readOffset + m) - (readOffset + k) = m - k /\ m - (k + 1) + 1 = m - k
  BY <1>1, <1>2
<1>7. Len(t) = m - k /\ Len(w) = m - k
  BY <1>2, <1>4, <1>5, <1>6
<1>8. ASSUME NEW i \in 1..(m - k) PROVE t[i] = w[i]
  <2>1. /\ (k + 1) + i - 1 = k + i /\ k + i \in 1..(writeOffset - readOffset)
        /\ readOffset + (k + i) - 1 = (readOffset + k) + i - 1
    BY <1>1, <1>2
  <2>2. t[i] = s[k + i]
    BY <1>5, <1>6, <2>1
  <2>3. s[k + i] = buffer[(readOffset + k) + i - 1]
    BY <1>3, <2>1
  <2>4. w[i] = buffer[(readOffset + k) + i - 1]
    BY <1>4, <1>6
  <2> QED
    BY <2>2, <2>3, <2>4
<1>9. t = w
  BY <1>4, <1>5, <1>7, <1>8, SeqEqual
<1> QED
  BY <1>9 DEF s, t, w

\* What is logged for some bytes is what the stream emits for them.
LEMMA Logs ==
  ASSUME NEW m \in Seq(Byte), logDecodedMessage(decode(m))
  PROVE  messages' = Frames!Emitted(m)
<1>1. decode(m) = Frames!decode(m)
  BY Zenon DEF decode, Frames!decode, PartOf, Frames!PartOf, Character, Frames!Character
<1>2. decode(m) = <<>> <=> m = <<>>
  BY Decoded
<1> HIDE DEF decode
<1> QED  BY <1>1, <1>2, Zenon DEF logDecodedMessage, Frames!Emitted

\* Closing the abstract stream, or nothing when it is closed already.
LEMMA FlushRefines ==
  ASSUME Inv, flush, pc = "idle", UNCHANGED <<incoming, pc>>,
         over' \in {"ended", "failed", "stopped"},
         stream = "flowing" /\ over' = "ended" => incoming = <<>>,
         stream # "flowing" => over' = over
  PROVE  [Frames!Next]_Frames!vars
<1>1. /\ messages' = Frames!Emitted(Subarray(readOffset, writeOffset))
      /\ Subarray(readOffset, writeOffset)' = <<>>
  <2>1. Subarray(readOffset, writeOffset) \in Seq(Byte)
    BY SubarrayIsWindow DEF Inv, TypeOK, NeverOverruns
  <2> QED
    BY <2>1, Logs, ResetState DEF flush
<1>2. CASE stream = "flowing"
  <2>1. Frames!Close(over')
    BY <1>1, <1>2 DEF over, Frames!Close
  <2> QED
    BY <2>1 DEF Frames!Next
<1>3. CASE stream # "flowing"
  <2>1. Subarray(readOffset, writeOffset) = <<>>
    BY <1>3, NothingPending DEF Inv, TypeOK, OverIsDrained
  <2>2. messages' = messages
    BY <1>1, <2>1 DEF Frames!Emitted
  <2>3. UNCHANGED Frames!vars
    BY <1>1, <1>3, <2>1, <2>2 DEF Frames!vars, over
  <2> QED
    BY <2>3
<1> QED
  BY <1>2, <1>3

\* Every step of the decoder is a step of the stream, or none.
LEMMA StepRefines ==
  Inv /\ Inv' /\ [Next]_vars => [Frames!Next]_Frames!vars
<1> SUFFICES ASSUME Inv, Inv', [Next]_vars PROVE [Frames!Next]_Frames!vars
  OBVIOUS
<1> DEFINE pending == Subarray(readOffset, writeOffset)
<1>0. /\ capacity \in Nat /\ readOffset \in Nat /\ writeOffset \in Nat
      /\ readOffset <= writeOffset /\ writeOffset <= capacity
      /\ pending \in Seq(Byte) /\ Len(pending) = unreadLength
  <2>1. /\ capacity \in Nat /\ readOffset \in Nat /\ writeOffset \in Nat
        /\ readOffset <= writeOffset /\ writeOffset <= capacity
    BY DEF Inv, TypeOK, NeverOverruns
  <2> QED
    BY <2>1, SubarrayIsWindow DEF unreadLength
<1>1. ASSUME NEW n \in 1..Len(incoming), onData(n)
      PROVE  [Frames!Next]_Frames!vars
  <2> DEFINE chunk == SubSeq(incoming, 1, n)
  <2>1. /\ stream = "flowing" /\ pc = "idle" /\ stream' = stream
        /\ messages' = messages
        /\ incoming' = SubSeq(incoming, n + 1, Len(incoming))
        /\ appendInPlace(chunk) \/ appendCompacted(chunk) \/ appendGrown(chunk)
    BY <1>1 DEF onData, follower
  <2>2. chunk \in Seq(Byte)
    BY Cut
  <2> HIDE DEF chunk
  <2>3. pc' = "decoding" /\ pending' = pending \o chunk
    BY <2>1, <2>2, Appended
  <2> HIDE DEF pending
  <2>4. Frames!Deliver(n)
    BY <2>1, <2>3 DEF Frames!Deliver, Frames!Drop, over, chunk, pending
  <2> QED
    BY <2>4 DEF Frames!Next
<1>2. CASE decodeFrame
  <2>1. /\ pc = "decoding" /\ pc' = pc /\ stream' = stream
        /\ incoming' = incoming
        /\ buffer' = buffer /\ writeOffset' = writeOffset
        /\ readOffset' = readOffset + frameLength
        /\ unreadLength >= HeaderLength /\ isHeader /\ unreadLength >= frameLength
        /\ logDecodedMessage(decode(Subarray(readOffset + HeaderLength,
                                             readOffset + frameLength)))
    BY <1>2 DEF decodeFrame, follower
  <2>2. /\ payloadLength \in Nat /\ frameLength \in Nat
        /\ Frames!IsHeader(pending) /\ Frames!FrameLength(pending) = frameLength
    BY <2>1, PayloadLength, HeadersAgree
  <2>3. /\ HeaderLength \in 0..unreadLength
        /\ frameLength \in HeaderLength..unreadLength
        /\ frameLength \in 0..unreadLength
        /\ unreadLength \in frameLength..unreadLength
        /\ readOffset + unreadLength = writeOffset
    BY <1>0, <2>1, <2>2 DEF frameLength, HeaderLength, unreadLength
  <2>4. SubSeq(pending, HeaderLength + 1, frameLength)
          = Subarray(readOffset + HeaderLength, readOffset + frameLength)
    BY <2>3, Inner
  <2>5. SubSeq(pending, frameLength + 1, unreadLength)
          = Subarray(readOffset + frameLength, writeOffset)
    BY <2>3, Inner
  <2>6. pending' = Subarray(readOffset + frameLength, writeOffset)
    BY <2>1, Zenon DEF Subarray
  <2>7. pending' = SubSeq(pending, frameLength + 1, Len(pending))
    BY <1>0, <2>5, <2>6
  <2> DEFINE m == Subarray(readOffset + HeaderLength, readOffset + frameLength)
  <2>9. m \in Seq(Byte)
    <3>1. /\ readOffset + HeaderLength \in Nat /\ readOffset + frameLength \in Nat
          /\ readOffset + HeaderLength <= readOffset + frameLength
          /\ readOffset + frameLength <= capacity
      BY <1>0, <2>1, <2>2, <2>3 DEF HeaderLength, unreadLength
    <3> QED  BY <3>1, SubarrayIsWindow DEF Inv, TypeOK
  <2> HIDE DEF m
  <2>10. messages' = Frames!Emitted(m)
    BY <2>1, <2>9, Logs DEF m
  <2> HIDE DEF pending
  <2>8. Frames!TakeFrame
    BY <1>0, <2>1, <2>2, <2>4, <2>7, <2>10
    DEF Frames!TakeFrame, Frames!Drop, over, pending, m
  <2> QED
    BY <2>8 DEF Frames!Next
<1>3. CASE decodeRaw
  <2>1. /\ pc = "decoding" /\ pc' = "idle" /\ stream' = stream
        /\ incoming' = incoming
        /\ unreadLength >= HeaderLength /\ ~isHeader
        /\ logDecodedMessage(decode(pending))
        /\ reset
    BY <1>3 DEF decodeRaw, follower
  <2>2. pending' = <<>>
    BY <2>1, ResetState
  <2>3. ~Frames!IsHeader(pending)
    BY <2>1, HeadersAgree
  <2> HIDE DEF pending
  <2>5. messages' = Frames!Emitted(pending)
    BY <1>0, <2>1, Logs
  <2>4. Frames!TakeRaw
    BY <1>0, <2>1, <2>2, <2>3, <2>5 DEF Frames!TakeRaw, over, pending
  <2> QED
    BY <2>4 DEF Frames!Next
<1>4. CASE decodeDone
  <2>1. /\ pc = "decoding" /\ pc' = "idle" /\ stream' = stream
        /\ incoming' = incoming /\ messages' = messages
        /\ Incomplete
        /\ IF readOffset = writeOffset THEN reset ELSE UNCHANGED decoder
    BY <1>4 DEF decodeDone, follower
  <2>2. pending' = pending
    <3>1. CASE readOffset = writeOffset
      BY <1>0, <2>1, <3>1, ResetState, NothingPending
    <3>2. CASE readOffset # writeOffset
      BY <2>1, <3>2, Zenon DEF decoder, Subarray
    <3> QED
      BY <3>1, <3>2
  <2>3. Len(pending) >= HeaderLength =>
          Frames!IsHeader(pending) /\ Len(pending) < Frames!FrameLength(pending)
    BY <1>0, <2>1, HeadersAgree DEF Incomplete
  <2> HIDE DEF pending
  <2>4. Frames!AwaitMore
    BY <2>1, <2>2, <2>3 DEF Frames!AwaitMore, over, pending
  <2> QED
    BY <2>4 DEF Frames!Next
<1>5. CASE onEnd
  BY <1>5, FlushRefines DEF onEnd, over
<1>6. ASSUME NEW interrupted \in BOOLEAN, onError(interrupted)
      PROVE  [Frames!Next]_Frames!vars
  <2>1. CASE closing /\ interrupted
    <3>1. /\ stream = "stopped" /\ stream' = "closed"
          /\ UNCHANGED <<incoming, decoder, pc, messages>>
      BY <1>6, <2>1 DEF onError, Inv, ClosingIsOver
    <3>2. pending' = pending
      BY <3>1, Zenon DEF decoder, Subarray
    <3> QED
      BY <3>1, <3>2 DEF Frames!vars, over
  <2>2. CASE ~(closing /\ interrupted)
    <3>1. flush /\ pc = "idle" /\ UNCHANGED <<incoming, pc>>
      BY <1>6, <2>2 DEF onError
    <3>2. /\ stream = "flowing" => over' = "failed"
          /\ stream # "flowing" => over = "stopped" /\ over' = "stopped"
          /\ stream \in {"flowing", "stopped"}
      BY <1>6 DEF onError, over, Inv, ClosingIsOver
    <3> QED
      BY <3>1, <3>2, FlushRefines
  <2> QED
    BY <2>1, <2>2
<1>7. CASE stop
  <2>1. flush /\ pc = "idle" /\ UNCHANGED <<incoming, pc>>
    BY <1>7 DEF stop
  <2>2. /\ stream = "flowing" => over' = "stopped"
        /\ stream # "flowing" => over' = over
        /\ over' \in {"ended", "failed", "stopped"}
    BY <1>7 DEF stop, over, Inv, TypeOK
  <2> QED
    BY <2>1, <2>2, FlushRefines DEF Inv
<1>8. CASE UNCHANGED vars
  BY <1>8 DEF vars, decoder, follower, Subarray, over, Frames!vars
<1> QED
  BY <1>1, <1>2, <1>3, <1>4, <1>5, <1>6, <1>7, <1>8 DEF Next

\* Cutting, compaction and growth are invisible: the follower behaves as if it
\* kept the undecoded bytes in a plain sequence.
THEOREM Refinement == Spec => ImplementsFrameStream
<1>1. Init => Frames!Init
  BY InitRefines
<1>2. Inv /\ Inv' /\ [Next]_vars => [Frames!Next]_Frames!vars
  BY StepRefines
<1> QED
  BY <1>1, <1>2, Invariance, PTL DEF Spec, ImplementsFrameStream, Frames!Spec

-----------------------------------------------------------------------------
(* What a step does to the pending bytes.                                  *)

Pending == Subarray(readOffset, writeOffset)

\* What a step does to the bytes and the messages, whatever the buffer.
Delivers ==
  /\ stream = "flowing" /\ stream' = "flowing" /\ pc = "idle" /\ pc' = "decoding"
  /\ messages' = messages
  /\ \E chunk \in Seq(Byte) :
       Pending' = Pending \o chunk /\ incoming = chunk \o incoming'

TakesFrame ==
  /\ pc = "decoding" /\ pc' = "decoding"
  /\ incoming' = incoming /\ stream' = stream
  /\ HoldsFrame(Pending)
  /\ messages' =
       Frames!Emitted(SubSeq(Pending, HeaderLength + 1, Frames!FrameLength(Pending)))
  /\ Pending' = SubSeq(Pending, Frames!FrameLength(Pending) + 1, Len(Pending))

PrintsRaw ==
  /\ pc = "decoding" /\ pc' = "idle" /\ incoming' = incoming /\ stream' = stream
  /\ Len(Pending) >= HeaderLength /\ ~Frames!IsHeader(Pending)
  /\ messages' = Frames!Emitted(Pending)
  /\ Pending' = <<>>

Awaits ==
  /\ pc = "decoding" /\ pc' = "idle"
  /\ incoming' = incoming /\ stream' = stream
  /\ messages' = messages /\ Pending' = Pending
  /\ Len(Pending) >= HeaderLength =>
       Frames!IsHeader(Pending) /\ Len(Pending) < Frames!FrameLength(Pending)

Closes ==
  /\ stream = "flowing" /\ stream' # "flowing" /\ pc = "idle" /\ pc' = "idle"
  /\ incoming' = incoming
  /\ messages' = Frames!Emitted(Pending)
  /\ Pending' = <<>>

Idles ==
  /\ stream' = "flowing" <=> stream = "flowing"
  /\ pc' = pc /\ incoming' = incoming /\ messages' = messages
  /\ Pending' = Pending

\* The pending bytes are bytes, the messages text.
LEMMA ByteState ==
  ASSUME Inv
  PROVE  /\ Pending \in Seq(Byte) /\ incoming \in Seq(Byte)
         /\ messages \in Seq(Seq(Char)) /\ pc \in {"idle", "decoding"}
<1>1. Subarray(readOffset, writeOffset) \in Seq(Byte)
  BY SubarrayIsWindow DEF Inv, TypeOK, NeverOverruns
<1> QED  BY <1>1 DEF Pending, Inv, TypeOK, NeverOverruns

\* The container does not change.
LEMMA SameScript == [Next]_vars => script' = script
  BY DEF Next, vars, onData, decodeFrame, decodeRaw, decodeDone, onEnd, onError, stop

\* The six kinds of steps, read off the refinement.
LEMMA Moves ==
  ASSUME Inv, Inv', [Next]_vars
  PROVE  Delivers \/ TakesFrame \/ PrintsRaw \/ Awaits \/ Closes \/ Idles
<1>1. [Frames!Next]_Frames!vars
  BY StepRefines
<1>2. /\ pc \in {"idle", "decoding"} /\ pc' \in {"idle", "decoding"}
      /\ over = "flowing" <=> stream = "flowing"
      /\ (over = "flowing" <=> stream = "flowing")'
      /\ incoming \in Seq(Byte) /\ incoming' \in Seq(Byte)
      /\ pc = "decoding" => stream = "flowing"
  BY DEF Inv, TypeOK, NeverOverruns, OverIsDrained, over
<1>3. ASSUME NEW n \in 1..Len(incoming), Frames!Deliver(n) PROVE Delivers
  <2>1. n \in 0..Len(incoming) /\ SubSeq(incoming, 1, n) \in Seq(Byte)
    BY <1>2, Halves
  <2>2. incoming = SubSeq(incoming, 1, n) \o SubSeq(incoming, n + 1, Len(incoming))
    BY <1>2, <2>1, Halves
  <2>3. /\ Pending' = Pending \o SubSeq(incoming, 1, n)
        /\ incoming' = SubSeq(incoming, n + 1, Len(incoming))
        /\ stream = "flowing" /\ stream' = "flowing" /\ messages' = messages
        /\ pc = "idle" /\ pc' = "decoding"
    BY <1>2, <1>3 DEF Frames!Deliver, Frames!Drop, Pending
  <2> QED  BY <2>1, <2>2, <2>3 DEF Delivers
<1>4. CASE Frames!TakeFrame
  BY <1>2, <1>4 DEF Frames!TakeFrame, Frames!Drop, TakesFrame, Pending, HoldsFrame
<1>5. CASE Frames!TakeRaw
  BY <1>2, <1>5 DEF Frames!TakeRaw, PrintsRaw, Pending
<1>6. CASE Frames!AwaitMore
  BY <1>2, <1>6 DEF Frames!AwaitMore, Awaits, Pending
<1>7. ASSUME NEW how \in {"ended", "failed", "stopped"}, Frames!Close(how) PROVE Closes
  BY <1>2, <1>7 DEF Frames!Close, Closes, Pending
<1>8. CASE UNCHANGED Frames!vars
  BY <1>2, <1>8 DEF Frames!vars, Idles, Pending
<1> QED  BY <1>1, <1>3, <1>4, <1>5, <1>6, <1>7, <1>8 DEF Frames!Next

\* A message joins what was printed.  It ends where the bytes do.
LEMMA Prints ==
  ASSUME Inv, NEW m \in Seq(Byte), messages' = Frames!Emitted(m)
  PROVE  /\ messages' = messages \o Lines(m)
         /\ m = <<>> => messages' = messages
         /\ m # <<>> => messages' = Append(messages, decode(m))
<1>1. messages \in Seq(Seq(Char)) /\ decode(m) \in Seq(Char)
  BY ByteState, Decoded
<1>2. decode(m) = Frames!decode(m)
  BY Zenon DEF decode, Frames!decode, PartOf, Frames!PartOf, Character, Frames!Character
<1> HIDE DEF decode
<1>3. CASE m = <<>>
  <2>1. messages' = messages /\ Lines(m) = <<>>
    BY <1>3 DEF Frames!Emitted, Lines
  <2>2. messages \o <<>> = messages
    BY <1>1, ConcatEmptySeq
  <2> QED  BY <1>3, <2>1, <2>2
<1>4. CASE m # <<>>
  <2>1. messages' = Append(messages, decode(m)) /\ Lines(m) = <<decode(m)>>
    BY <1>2, <1>4 DEF Frames!Emitted, Lines
  <2>2. Append(messages, decode(m)) = messages \o <<decode(m)>>
    BY <1>1, AppendIsConcat
  <2> QED  BY <1>4, <2>1, <2>2
<1> QED  BY <1>3, <1>4

-----------------------------------------------------------------------------
(* Text.                                                                   *)

Output == Encode(script, script.frames)

\* The cuts of some messages.
CutsOf(ms) == {Len(FlattenSeq(SubSeq(ms, 1, k))) : k \in 1..Len(ms)}

\* A message more, a cut more, behind all it prints.
LEMMA CutsGrow ==
  ASSUME NEW ms \in Seq(Seq(Char)), NEW x \in Seq(Char)
  PROVE  CutsOf(Append(ms, x))
           = CutsOf(ms) \cup {Len(FlattenSeq(Append(ms, x)))}
<1> DEFINE t == Append(ms, x)
<1>1. PICK n \in Nat : n = Len(ms)
  BY LenProperties
<1>2. /\ t \in Seq(Seq(Char)) /\ Len(t) = n + 1
      /\ \A i \in 1..n : t[i] = ms[i]
  BY <1>1, AppendProperties
<1> HIDE DEF t
<1>3. ASSUME NEW k \in 1..n PROVE SubSeq(t, 1, k) = SubSeq(ms, 1, k)
  <2>1. \A i \in 1..k : ms[i] \in Seq(Char) /\ t[i] \in Seq(Char) /\ t[i] = ms[i]
    BY <1>1, <1>2, ElementOfSeq
  <2>2. 1 \in Int /\ k \in Int
    OBVIOUS
  <2> DEFINE a == SubSeq(t, 1, k)
             b == SubSeq(ms, 1, k)
  <2>3. /\ a \in Seq(Seq(Char)) /\ Len(a) = IF 1 <= k THEN k - 1 + 1 ELSE 0
        /\ \A i \in 1..(k - 1 + 1) : a[i] = t[1 + i - 1]
    BY <2>1, <2>2, SubSeqProperties
  <2>4. /\ b \in Seq(Seq(Char)) /\ Len(b) = IF 1 <= k THEN k - 1 + 1 ELSE 0
        /\ \A i \in 1..(k - 1 + 1) : b[i] = ms[1 + i - 1]
    BY <2>1, <2>2, SubSeqProperties
  <2> HIDE DEF a, b
  <2>5. Len(a) = k /\ Len(b) = k /\ \A i \in 1..k : a[i] = b[i]
    <3>1. \A i \in 1..k : 1 + i - 1 = i /\ i \in 1..(k - 1 + 1)
      OBVIOUS
    <3>2. \A i \in 1..k : a[i] = t[i] /\ b[i] = ms[i]
      BY <2>3, <2>4, <3>1
    <3>3. Len(a) = k /\ Len(b) = k
      BY <2>3, <2>4
    <3> QED  BY <2>1, <3>2, <3>3
  <2>6. a = b
    BY <2>3, <2>4, <2>5, SeqEqual
  <2> QED  BY <2>6 DEF a, b
<1>4. SubSeq(t, 1, n + 1) = t
  BY <1>2, SubSeqFull
<1>5. ASSUME NEW c PROVE c \in CutsOf(t) <=> c \in CutsOf(ms) \cup {Len(FlattenSeq(t))}
  <2>1. c \in CutsOf(t) <=> \E k \in 1..(n + 1) : c = Len(FlattenSeq(SubSeq(t, 1, k)))
    BY <1>2 DEF CutsOf
  <2>2. c \in CutsOf(ms) <=> \E k \in 1..n : c = Len(FlattenSeq(SubSeq(ms, 1, k)))
    BY <1>1 DEF CutsOf
  <2>3. \A k : k \in 1..(n + 1) <=> k \in 1..n \/ k = n + 1
    OBVIOUS
  <2> QED  BY <1>3, <1>4, <2>1, <2>2, <2>3, Zenon
<1>6. CutsOf(t) = CutsOf(ms) \cup {Len(FlattenSeq(t))}
  BY <1>5
<1> QED  BY <1>6 DEF t

\* A piece of a text begins where one cut is, and its end is the next cut.
PieceOf(text, cuts, n, p) ==
  /\ cuts \subseteq 0..n /\ (n > 0 => n \in cuts)
  /\ n + Len(p) <= Len(text)
  /\ \A i \in 1..Len(p) : p[i] = text[n + i]

\* The width of a character.
LEMMA Widths ==
  ASSUME NEW b \in Byte PROVE Width[b] \in 0..4
BY TextDecoderAssumption

\* Cutting behind a piece changes nothing before it.
LEMMA UncutBefore ==
  ASSUME NEW text \in Seq(Byte), NEW cuts, NEW n \in Nat, NEW p \in Seq(Byte),
         PieceOf(text, cuts, n, p), NEW i \in 1..n
  PROVE  Uncut(text, cuts \cup {n + Len(p)}, i) <=> Uncut(text, cuts, i)
<1>1. PICK m \in Nat : m = Len(p)
  BY LenProperties
<1>2. n \in cuts
  BY DEF PieceOf
<1>3. ASSUME NEW s \in 1..i, ~(s <= n /\ n < s + Width[text[s]] - 1)
      PROVE  ~(s <= n + m /\ n + m < s + Width[text[s]] - 1)
  <2>1. text[s] \in Byte
    <3>1. Len(text) \in Nat /\ n + m <= Len(text)
      BY <1>1, LenProperties DEF PieceOf
    <3>2. s \in 1..Len(text)
      BY <3>1
    <3> QED  BY <3>2, ElementOfSeq
  <2>2. PICK w \in 0..4 : w = Width[text[s]]
    BY <2>1, Widths
  <2> QED  BY <1>3, <2>2
<1>4. ASSUME Uncut(text, cuts, i) PROVE Uncut(text, cuts \cup {n + m}, i)
  <2>1. PICK s \in 1..i : /\ PartOf(text, s, i)
                          /\ \A c \in cuts : ~(s <= c /\ c < s + Width[text[s]] - 1)
    BY <1>4 DEF Uncut
  <2>2. \A c \in cuts \cup {n + m} : ~(s <= c /\ c < s + Width[text[s]] - 1)
    BY <1>2, <1>3, <2>1
  <2> QED  BY <2>1, <2>2 DEF Uncut
<1>5. ASSUME Uncut(text, cuts \cup {n + m}, i) PROVE Uncut(text, cuts, i)
  BY <1>5 DEF Uncut
<1> QED  BY <1>1, <1>4, <1>5

\* In the piece, the characters no cut runs through are those it has whole.
LEMMA UncutInside ==
  ASSUME NEW text \in Seq(Byte), NEW cuts, NEW n \in Nat, NEW p \in Seq(Byte),
         PieceOf(text, cuts, n, p), NEW j \in 1..Len(p)
  PROVE  Uncut(text, cuts \cup {n + Len(p)}, n + j) <=> \E s \in 1..j : PartOf(p, s, j)
<1>1. PICK m \in Nat : m = Len(p)
  BY LenProperties
<1>2. PICK l \in Nat : l = Len(text)
  BY LenProperties
<1>3. /\ n + m <= l /\ j \in 1..m /\ (n > 0 => n \in cuts) /\ cuts \subseteq 0..n
      /\ \A i \in 1..m : p[i] = text[n + i]
  BY <1>1, <1>2 DEF PieceOf
<1>4. ASSUME Uncut(text, cuts \cup {n + m}, n + j)
      PROVE  \E s \in 1..j : PartOf(p, s, j)
  <2>1. PICK s \in 1..(n + j) :
          /\ PartOf(text, s, n + j)
          /\ \A c \in cuts \cup {n + m} : ~(s <= c /\ c < s + Width[text[s]] - 1)
    BY <1>4 DEF Uncut
  <2>2. text[s] \in Byte
    <3>1. s \in 1..Len(text)
      BY <1>2, <1>3
    <3> QED  BY <3>1, ElementOfSeq
  <2>3. PICK w \in 0..4 : w = Width[text[s]]
    BY <2>2, Widths
  <2>4. /\ s + w - 1 <= l /\ s <= n + j /\ n + j < s + w
        /\ \A i \in (s + 1)..(s + w - 1) : text[i] \in Continuation
    BY <1>2, <2>1, <2>3 DEF PartOf, Character
  <2>5. s > n
    <3>1. SUFFICES ASSUME s <= n PROVE FALSE
      BY <1>3
    <3>2. n \in cuts
      BY <1>3, <3>1
    <3>3. ~(s <= n /\ n < s + w - 1)
      BY <2>1, <2>3, <3>2
    <3> QED  BY <1>3, <2>4, <3>1, <3>3
  <2>6. s + w - 1 <= n + m
    <3>1. ~(s <= n + m /\ n + m < s + w - 1)
      BY <2>1, <2>3
    <3> QED  BY <1>3, <2>4, <3>1
  <2>7. PICK r \in 1..j : s = n + r
    <3>1. s - n \in 1..j /\ s = n + (s - n)
      BY <1>3, <2>5
    <3> QED  BY <3>1
  <2>8. p[r] = text[s] /\ Width[p[r]] = w
    BY <1>3, <2>3, <2>7
  <2>9. \A i \in (r + 1)..(r + w - 1) : p[i] \in Continuation
    <3>1. ASSUME NEW i \in (r + 1)..(r + w - 1) PROVE p[i] \in Continuation
      <4>1. i \in 1..m /\ n + i \in (s + 1)..(s + w - 1)
        BY <1>3, <2>6, <2>7
      <4> QED  BY <1>3, <2>4, <4>1
    <3> QED  BY <3>1
  <2>10. r + w - 1 <= m /\ r <= j /\ j < r + w
    BY <1>3, <2>4, <2>6, <2>7
  <2>11. PartOf(p, r, j)
    BY <1>1, <2>8, <2>9, <2>10 DEF PartOf, Character
  <2> QED  BY <2>11
<1>5. ASSUME NEW r \in 1..j, PartOf(p, r, j)
      PROVE  Uncut(text, cuts \cup {n + m}, n + j)
  <2>1. p[r] = text[n + r] /\ p[r] \in Byte
    <3>1. r \in 1..m /\ r \in 1..Len(p)
      BY <1>1, <1>3
    <3> QED  BY <1>3, <3>1, ElementOfSeq
  <2>2. PICK w \in 0..4 : w = Width[p[r]]
    BY <2>1, Widths
  <2>3. /\ r + w - 1 <= m /\ r <= j /\ j < r + w
        /\ \A i \in (r + 1)..(r + w - 1) : p[i] \in Continuation
    BY <1>1, <1>5, <2>2 DEF PartOf, Character
  <2>4. PICK s \in 1..(n + j) : s = n + r
    BY <1>3
  <2>5. Width[text[s]] = w
    BY <2>1, <2>2, <2>4
  <2>6. \A i \in (s + 1)..(s + w - 1) : text[i] \in Continuation
    <3>1. ASSUME NEW i \in (s + 1)..(s + w - 1) PROVE text[i] \in Continuation
      <4>1. PICK k \in (r + 1)..(r + w - 1) : i = n + k
        <5>1. i - n \in (r + 1)..(r + w - 1) /\ i = n + (i - n)
          BY <1>3, <2>4
        <5> QED  BY <5>1
      <4>2. k \in 1..m
        BY <1>3, <2>3
      <4> QED  BY <1>3, <2>3, <4>1, <4>2
    <3> QED  BY <3>1
  <2>7. s + w - 1 <= l /\ s <= n + j /\ n + j < s + w
    BY <1>3, <2>3, <2>4
  <2>8. PartOf(text, s, n + j)
    BY <1>2, <2>5, <2>6, <2>7 DEF PartOf, Character
  <2>9. \A c \in cuts \cup {n + m} : ~(s <= c /\ c < s + w - 1)
    <3>1. ~(n + m < s + w - 1)
      BY <1>3, <2>3, <2>4
    <3>2. \A c \in cuts : ~(s <= c)
      BY <1>3, <2>4
    <3> QED  BY <3>1, <3>2
  <2> QED  BY <2>5, <2>8, <2>9 DEF Uncut
<1> QED  BY <1>1, <1>4, <1>5

\* The bytes p at the front of the output were printed: what no cut runs
\* through stands, marks stand for the rest.
ReadsAs(text, cuts, out, n) ==
  \A i \in 1..n : out[i] = IF Uncut(text, cuts, i) THEN text[i] ELSE Replacement

\* One more piece is read.
LEMMA PieceRead ==
  ASSUME NEW text \in Seq(Byte), NEW cuts, NEW n \in Nat, NEW p \in Seq(Byte),
         PieceOf(text, cuts, n, p), NEW out \in Seq(Char), Len(out) = n,
         ReadsAs(text, cuts, out, n)
  PROVE  ReadsAs(text, cuts \cup {n + Len(p)}, out \o decode(p), n + Len(p))
<1>1. PICK m \in Nat : m = Len(p)
  BY LenProperties
<1> DEFINE d == decode(p)
<1>2. d \in Seq(Char) /\ Len(d) = m
  BY <1>1, Decoded
<1>3. \A j \in 1..m : d[j] = IF \E s \in 1..j : PartOf(p, s, j) THEN p[j] ELSE Replacement
  BY <1>1 DEF decode
<1> HIDE DEF d
<1>4. \A i \in 1..(n + m) : (out \o d)[i] = IF i <= n THEN out[i] ELSE d[i - n]
  BY <1>2, ConcatProperties
<1>5. ASSUME NEW i \in 1..(n + m)
      PROVE  (out \o d)[i]
               = IF Uncut(text, cuts \cup {n + m}, i) THEN text[i] ELSE Replacement
  <2>1. CASE i \in 1..n
    <3>1. Uncut(text, cuts \cup {n + m}, i) <=> Uncut(text, cuts, i)
      BY <1>1, <2>1, UncutBefore
    <3>2. (out \o d)[i] = out[i]
      BY <1>4, <2>1
    <3> QED  BY <2>1, <3>1, <3>2 DEF ReadsAs
  <2>2. CASE i \notin 1..n
    <3>1. PICK j \in 1..m : i = n + j
      <4>1. i - n \in 1..m /\ i = n + (i - n)
        BY <2>2
      <4> QED  BY <4>1
    <3>2. Uncut(text, cuts \cup {n + m}, i) <=> \E s \in 1..j : PartOf(p, s, j)
      BY <1>1, <3>1, UncutInside
    <3>3. (out \o d)[i] = d[j]
      <4>1. ~(i <= n) /\ i - n = j
        BY <3>1
      <4>2. (out \o d)[i] = IF i <= n THEN out[i] ELSE d[i - n]
        BY <1>4
      <4> QED  BY <4>1, <4>2
    <3>4. p[j] = text[i]
      BY <1>1, <3>1 DEF PieceOf
    <3> QED  BY <1>3, <3>2, <3>3, <3>4
  <2> QED  BY <2>1, <2>2
<1> QED  BY <1>1, <1>5 DEF ReadsAs, d

\* What was printed accounts for the bytes a at the front of the output, and
\* the last cut is behind them.
Accounts(a) ==
  /\ a \o (Pending \o incoming) = Output
  /\ printed \in Seq(Char) /\ Len(printed) = Len(a)
  /\ Cuts \subseteq 0..Len(a) /\ (Len(a) > 0 => Len(a) \in Cuts)
  /\ ReadsAs(Output, Cuts, printed, Len(a))

RawKept == ~script.framed => \E a \in Seq(Byte) : Accounts(a)

\* Pending text is part of the output, so it is not taken for a frame.
LEMMA NoFrameInText ==
  ASSUME Inv, RawKept, script \in Scripts, ~script.framed
  PROVE  ~HoldsFrame(Pending)
<1>1. PICK a \in Seq(Byte) : Accounts(a)
  BY DEF RawKept
<1>2. PICK p \in Seq(Byte) : p = Pending
  BY ByteState
<1>3. PICK i \in Seq(Byte) : i = incoming
  BY ByteState
<1>4. Output = a \o (p \o i)
  BY <1>1, <1>2, <1>3 DEF Accounts
<1>5. SubSeq(a \o (p \o i), Len(a) + 1, Len(a) + Len(p)) = p
  BY Middle
<1>6. Len(a) \in 0..Len(Output) /\ Len(a) + Len(p) \in Len(a)..Len(Output)
  <2>1. Len(a) \in Nat /\ Len(p) \in Nat /\ Len(i) \in Nat
    BY LenProperties
  <2>2. p \o i \in Seq(Byte) /\ Len(p \o i) = Len(p) + Len(i)
    BY ConcatProperties
  <2>3. Len(a \o (p \o i)) = Len(a) + (Len(p) + Len(i))
    BY <2>2, ConcatProperties
  <2> QED  BY <1>4, <2>1, <2>3
<1>7. ~HoldsFrame(SubSeq(Output, Len(a) + 1, Len(a) + Len(p)))
  BY <1>6, TextHoldsNoFrame DEF Output
<1> QED  BY <1>2, <1>4, <1>5, <1>7

\* Printing the pending bytes accounts for them.
LEMMA TextPrinted ==
  ASSUME Inv, script \in Scripts, NEW a \in Seq(Byte), Accounts(a),
         messages' = Frames!Emitted(Pending), Pending' = <<>>,
         incoming' = incoming, script' = script
  PROVE  \E b \in Seq(Byte) : Accounts(b)'
<1>1. PICK p \in Seq(Byte) : p = Pending
  BY ByteState
<1>2. PICK r \in Seq(Byte) : r = incoming
  BY ByteState
<1>3. Output = a \o (p \o r) /\ Output' = Output
  BY <1>1, <1>2 DEF Accounts, Output
<1>4. PICK n \in Nat : n = Len(a)
  BY LenProperties
<1>5. PICK m \in Nat : m = Len(p)
  BY LenProperties
<1>6. PICK b \in Seq(Byte) : b = a \o p /\ Len(b) = n + m
  BY <1>4, <1>5, ConcatProperties
<1>7. b \o (Pending' \o incoming') = Output
  <2>1. Pending' \o incoming' = r
    BY <1>2, ConcatEmptySeq
  <2>2. (a \o p) \o r = a \o (p \o r)
    BY Regroup, SMTT(60)
  <2> QED  BY <1>3, <1>6, <2>1, <2>2
<1>8. messages \in Seq(Seq(Char)) /\ decode(p) \in Seq(Char) /\ Len(decode(p)) = m
  BY <1>5, ByteState, Decoded
<1>9. CASE p = <<>>
  <2>1. messages' = messages
    BY <1>1, <1>9, Prints
  <2>2. printed' = printed /\ Cuts' = Cuts
    BY <2>1 DEF printed, Cuts
  <2>3. b = a
    BY <1>6, <1>9, ConcatEmptySeq
  <2>4. Accounts(b)'
    BY <1>3, <1>7, <2>2, <2>3 DEF Accounts
  <2> QED  BY <2>4
<1>10. CASE p # <<>>
  <2>1. messages' = Append(messages, decode(p))
    BY <1>1, <1>10, Prints
  <2>2. printed' = printed \o decode(p)
    BY <1>8, <2>1, FlattenAppend DEF printed
  <2> DEFINE out == printed
             d == decode(p)
             cuts == Cuts
  <2>3. /\ out \in Seq(Char) /\ Len(out) = n
        /\ cuts \subseteq 0..n /\ (n > 0 => n \in cuts)
        /\ ReadsAs(Output, cuts, out, n)
    BY <1>4 DEF Accounts
  <2>4. d \in Seq(Char) /\ Len(d) = m
    BY <1>8
  <2>5. out \o d \in Seq(Char) /\ Len(out \o d) = n + m
    <3> HIDE DEF out, d
    <3> QED  BY <2>3, <2>4, ConcatProperties
  <2>6. Cuts' = cuts \cup {n + m}
    <3>1. Cuts' = CutsOf(messages')
      BY Zenon DEF Cuts, CutsOf
    <3>2. cuts = CutsOf(messages)
      BY Zenon DEF Cuts, CutsOf
    <3>3. CutsOf(Append(messages, d)) = cuts \cup {Len(FlattenSeq(Append(messages, d)))}
      BY <1>8, <3>2, CutsGrow
    <3>4. Len(FlattenSeq(Append(messages, d))) = n + m
      BY <2>1, <2>2, <2>5 DEF printed
    <3> QED  BY <2>1, <3>1, <3>3, <3>4
  <2>7. Output \in Seq(Byte)
    BY OutputIsBytes DEF Output
  <2>8. PieceOf(Output, cuts, n, p)
    <3>1. \A i \in 1..m : p[i] = Output[n + i]
      <4>1. p \o r \in Seq(Byte) /\ \A i \in 1..m : (p \o r)[i] = p[i]
        BY <1>5, ConcatProperties
      <4>2. PICK t \in Seq(Byte) : t = p \o r
        BY <4>1
      <4>3. Len(t) \in Nat /\ Len(t) = m + Len(r) /\ Len(r) \in Nat
        BY <1>5, <4>2, ConcatProperties, LenProperties
      <4>4. \A i \in 1..(n + Len(t)) : (a \o t)[i] = IF i <= n THEN a[i] ELSE t[i - n]
        BY <1>4, ConcatProperties
      <4>5. ASSUME NEW i \in 1..m PROVE p[i] = Output[n + i]
        <5>1. n + i \in 1..(n + Len(t)) /\ ~(n + i <= n) /\ (n + i) - n = i
          BY <4>3
        <5>2. (a \o t)[n + i] = t[i]
          BY <4>4, <5>1
        <5> QED  BY <1>3, <4>1, <4>2, <5>2
      <4> QED  BY <4>5
    <3>2. n + m <= Len(Output)
      <4>1. PICK t \in Seq(Byte) : t = p \o r /\ Len(t) = m + Len(r) /\ Len(r) \in Nat
        BY <1>5, ConcatProperties, LenProperties
      <4>2. Len(a \o t) = n + Len(t)
        BY <1>4, ConcatProperties
      <4> QED  BY <1>3, <4>1, <4>2
    <3> QED  BY <1>5, <2>3, <3>1, <3>2 DEF PieceOf
  <2> HIDE DEF out, d, cuts
  <2>9. ReadsAs(Output, cuts \cup {n + m}, out \o d, n + m)
    BY <1>5, <2>3, <2>7, <2>8, PieceRead DEF d
  <2>10. cuts \cup {n + m} \subseteq 0..(n + m)
    BY <2>3
  <2>11. printed' = out \o d
    BY <2>2 DEF out, d
  <2>12. Accounts(b)'
    BY <1>3, <1>6, <1>7, <2>5, <2>6, <2>9, <2>10, <2>11 DEF Accounts
  <2> QED  BY <2>12
<1> QED  BY <1>9, <1>10

\* Every step keeps account of the text.
LEMMA RawStep ==
  ASSUME Inv, Inv', [Next]_vars, RawKept, script \in Scripts
  PROVE  RawKept'
<1> SUFFICES ASSUME ~script.framed PROVE \E b \in Seq(Byte) : Accounts(b)'
  BY SameScript DEF RawKept
<1>0. PICK a \in Seq(Byte) : Accounts(a)
  BY DEF RawKept
<1>1. script' = script /\ Output' = Output
  BY SameScript DEF Output
<1>2. ASSUME messages' = messages, Pending' \o incoming' = Pending \o incoming
      PROVE  Accounts(a)'
  <2>1. printed' = printed /\ Cuts' = Cuts
    BY <1>2 DEF printed, Cuts
  <2> QED  BY <1>0, <1>1, <1>2, <2>1 DEF Accounts
<1>3. CASE Delivers
  <2>1. PICK chunk \in Seq(Byte) :
               Pending' = Pending \o chunk /\ incoming = chunk \o incoming'
    BY <1>3 DEF Delivers
  <2>2. PICK p, r \in Seq(Byte) : p = Pending /\ r = incoming'
    <3>1. (incoming \in Seq(Byte))'
      BY ByteState, PTL
    <3> QED  BY <3>1, ByteState
  <2>3. (p \o chunk) \o r = p \o (chunk \o r)
    BY Regroup, SMTT(60)
  <2>4. Pending' \o incoming' = Pending \o incoming
    BY <2>1, <2>2, <2>3
  <2> QED  BY <1>2, <1>3, <2>4 DEF Delivers
<1>4. CASE TakesFrame
  BY <1>4, NoFrameInText DEF TakesFrame
<1>5. CASE PrintsRaw \/ Closes
  <2>1. messages' = Frames!Emitted(Pending) /\ Pending' = <<>> /\ incoming' = incoming
    BY <1>5 DEF PrintsRaw, Closes
  <2> QED  BY <1>0, <1>1, <2>1, TextPrinted
<1>6. CASE Awaits \/ Idles
  BY <1>2, <1>6 DEF Awaits, Idles
<1> QED  BY <1>3, <1>4, <1>5, <1>6, Moves

\* What was printed and what is pending are the bytes that arrived.
LEMMA RawArrived ==
  ASSUME Inv, RawKept, script \in Scripts PROVE LosesOnlyCutCharacters
<1> SUFFICES ASSUME ~script.framed
             PROVE  /\ Len(printed) <= Delivered
                    /\ Pending = SubSeq(Output, Len(printed) + 1, Delivered)
                    /\ ReadsAs(Output, Cuts, printed, Len(printed))
  BY DEF LosesOnlyCutCharacters, Pending, Output, ReadsAs
<1>1. PICK a \in Seq(Byte) : Accounts(a)
  BY DEF RawKept
<1>2. PICK p \in Seq(Byte) : p = Pending
  BY ByteState
<1>3. PICK i \in Seq(Byte) : i = incoming
  BY ByteState
<1>4. Output = a \o (p \o i) /\ Len(printed) = Len(a)
      /\ ReadsAs(Output, Cuts, printed, Len(printed))
  BY <1>1, <1>2, <1>3 DEF Accounts
<1>5. SubSeq(a \o (p \o i), Len(a) + 1, Len(a) + Len(p)) = p
  BY Middle
<1>6. PICK t \in Seq(Byte) : t = p \o i /\ Len(t) = Len(p) + Len(i)
  BY ConcatProperties
<1>7. Len(a \o t) = Len(a) + Len(t)
      /\ Len(a) \in Nat /\ Len(p) \in Nat /\ Len(i) \in Nat
  BY ConcatProperties, LenProperties
<1>8. Delivered = Len(a) + Len(p)
  BY <1>3, <1>4, <1>6, <1>7 DEF Delivered, Output
<1> QED  BY <1>2, <1>4, <1>5, <1>7, <1>8

-----------------------------------------------------------------------------
(* Frames.                                                                 *)

\* After the first k frames, the bytes of the next one that have arrived: those
\* pending, or, when the stream is over, those it left behind.
CutAt(k, cut) ==
  /\ stream = "flowing" => cut = Pending
  /\ messages = Payloads(SubSeq(script.frames, 1, k))
                \o (IF stream = "flowing" THEN <<>> ELSE Lines(cut))
  /\ Sent(script, k) \o (cut \o incoming) = Output
  /\ pc = "idle" /\ k < Len(script.frames) =>
       Len(cut) < HeaderLength + Len(script.frames[k + 1].payload)

FramesKept ==
  script.framed =>
    \E k \in 0..Len(script.frames), cut \in Seq(Byte) : CutAt(k, cut)

\* The payloads of one frame more.
LEMMA PrefixPayloads ==
  ASSUME NEW s \in Scripts
  PROVE  /\ Payloads(SubSeq(s.frames, 1, 0)) = <<>>
         /\ \A k \in 0..Len(s.frames) :
              Payloads(SubSeq(s.frames, 1, k)) \in Seq(Seq(Char))
         /\ \A k \in 0..(Len(s.frames) - 1) :
              Payloads(SubSeq(s.frames, 1, k + 1))
                = Payloads(SubSeq(s.frames, 1, k)) \o Lines(s.frames[k + 1].payload)
<1> DEFINE fs == s.frames
<1>1. fs \in Seq(Frame) /\ Len(fs) \in Nat
  BY ScriptsAreFrames, LenProperties
<1> HIDE DEF fs
<1>2. /\ SubSeq(fs, 1, 0) = <<>>
      /\ \A k \in 0..Len(fs) : SubSeq(fs, 1, k) \in Seq(Frame)
      /\ \A k \in 0..(Len(fs) - 1) :
           fs[k + 1] \in Frame
           /\ SubSeq(fs, 1, k + 1) = Append(SubSeq(fs, 1, k), fs[k + 1])
  BY <1>1, PrefixGrows
<1>3. ASSUME NEW k \in 0..(Len(fs) - 1)
      PROVE  Payloads(SubSeq(fs, 1, k + 1))
               = Payloads(SubSeq(fs, 1, k)) \o Lines(fs[k + 1].payload)
  <2>1. k \in 0..Len(fs)
    BY <1>1
  <2>2. /\ fs[k + 1] \in Frame /\ SubSeq(fs, 1, k) \in Seq(Frame)
        /\ SubSeq(fs, 1, k + 1) = Append(SubSeq(fs, 1, k), fs[k + 1])
    BY <1>2, <2>1
  <2> QED  BY <2>2, PayloadsGrow
<1>4. ASSUME NEW k \in 0..Len(fs)
      PROVE  Payloads(SubSeq(fs, 1, k)) \in Seq(Seq(Char))
  BY <1>2, PayloadsAreBytes
<1>5. Payloads(SubSeq(fs, 1, 0)) = <<>>
  BY <1>2, PayloadsEmpty
<1> QED  BY <1>3, <1>4, <1>5 DEF fs

\* A frame that is not printed yet is next in what arrives.
Ahead(f, k, cut, piece, rest, c) ==
  /\ IsCat(piece, Header(f), f.payload)
  /\ IsCat(c, piece, rest) /\ IsCat(c, cut, incoming)
  /\ IsCat(Output, Sent(script, k), c)
  /\ IsCat(Sent(script, k + 1), Sent(script, k), piece)

LEMMA NextFrame ==
  ASSUME script \in Scripts, script.framed, NEW k \in 0..Len(script.frames),
         NEW cut \in Seq(Byte), incoming \in Seq(Byte),
         Sent(script, k) \o (cut \o incoming) = Output
  PROVE  /\ k = Len(script.frames) => cut = <<>>
         /\ k # Len(script.frames) =>
              \E piece, rest, c :
                Ahead(script.frames[k + 1], k, cut, piece, rest, c)
<1>1. PICK n \in Nat : n = Len(script.frames)
  BY SentGrows
<1>2. Sent(script, n) = Output /\ Sent(script, k) \in Seq(Byte)
  BY <1>1, SentGrows DEF Output
<1>3. PICK c : IsCat(c, cut, incoming) /\ IsCat(Output, Sent(script, k), c)
  BY <1>2, CatTwice
<1>4. CASE k = n
  <2>1. IsCat(Output, Output, c)
    BY <1>2, <1>3, <1>4
  <2>2. Len(Output) = Len(Output) + Len(c) /\ Len(Output) \in Nat /\ Len(c) \in Nat
    BY <2>1, CatParts
  <2>3. Len(c) = Len(cut) + Len(incoming) /\ Len(cut) \in Nat /\ Len(incoming) \in Nat
    BY <1>3, CatParts
  <2>4. Len(cut) = 0
    BY <2>2, <2>3
  <2>5. cut = <<>>
    BY <2>4, EmptySeq
  <2> QED  BY <1>1, <1>4, <2>5
<1>5. CASE k # n
  <2> DEFINE f == script.frames[k + 1]
  <2>1. k \in 0..(n - 1) /\ k + 1 \in 0..n
    BY <1>1, <1>5
  <2>2. f \in Frame /\ Sent(script, k + 1) = Sent(script, k) \o (Header(f) \o f.payload)
    BY <1>1, <2>1, SentGrows DEF Piece
  <2> HIDE DEF f
  <2>3. PICK piece : /\ IsCat(piece, Header(f), f.payload)
                     /\ IsCat(Sent(script, k + 1), Sent(script, k), piece)
    <3>1. Header(f) \in Seq(Byte) /\ f.payload \in Seq(Byte)
      BY <2>2, HeaderIsBytes
    <3>2. Header(f) \o f.payload \in Seq(Byte)
      BY <3>1, ConcatProperties
    <3> QED  BY <1>2, <2>2, <3>1, <3>2 DEF IsCat
  <2>4. PICK rest : IsCat(Output, Sent(script, k + 1), rest)
    <3>1. PICK m \in Nat : m = k + 1
      BY <2>1
    <3>2. m \in Nat /\ n \in Nat /\ m <= n /\ n <= Len(script.frames)
      BY <1>1, <2>1, <3>1
    <3>3. \E rest \in Seq(Byte) : IsCat(Sent(script, n), Sent(script, m), rest)
      BY <3>2, SentBegins, Zenon
    <3> QED  BY <1>2, <3>1, <3>3
  <2>5. PICK d : IsCat(d, piece, rest)
    BY <2>3, <2>4, CatParts, Cats
  <2>6. IsCat(Output, Sent(script, k), d)
    BY <2>3, <2>4, <2>5, CatLeft
  <2>7. c = d
    BY <1>3, <2>6, CatCancel
  <2>8. Ahead(f, k, cut, piece, rest, c)
    BY <1>3, <2>3, <2>5, <2>7 DEF Ahead
  <2> QED  BY <1>1, <1>5, <2>8 DEF f
<1> QED  BY <1>4, <1>5

\* Taking a frame from the pending bytes that begin with it.
LEMMA FrameTaken ==
  ASSUME NEW f \in Frame, IsShort(f), NEW piece, NEW p, NEW i, NEW rest, NEW c,
         IsCat(piece, Header(f), f.payload), IsCat(c, piece, rest), IsCat(c, p, i),
         HoldsFrame(p)
  PROVE  LET y == SubSeq(p, Frames!FrameLength(p) + 1, Len(p))
         IN  /\ SubSeq(p, HeaderLength + 1, Frames!FrameLength(p)) = f.payload
             /\ y \in Seq(Byte) /\ IsCat(rest, y, i)
<1>1. PICK h, b : h = Header(f) /\ b = f.payload
  OBVIOUS
<1>2. Len(h) = 8 /\ Len(b) \in Nat /\ IsCat(piece, h, b)
  BY <1>1, HeaderIsBytes, LenProperties
<1>3. PICK k \in Nat : k = Len(b)
  BY <1>2
<1>4. Len(piece) = 8 + k
  BY <1>2, <1>3, CatParts
<1>5. p \in Seq(Byte) /\ Len(p) \in Nat /\ i \in Seq(Byte)
  BY CatParts
<1>6. Frames!FrameLength(p) = 8 + k /\ 8 + k <= Len(p) /\ HeaderLength = 8
  <2>1. Len(p) >= HeaderLength /\ Len(p) >= Frames!FrameLength(p)
    BY DEF HoldsFrame
  <2>2. Frames!FrameLength(p) = HeaderLength + Len(f.payload)
    BY <2>1, FrameRead
  <2>3. Len(f.payload) = k
    BY <1>1, <1>3
  <2> QED  BY <1>5, <2>1, <2>2, <2>3 DEF HeaderLength
<1>7. PICK x, y : /\ Len(x) = 8 + k /\ IsCat(p, x, y)
                  /\ y = SubSeq(p, 8 + k + 1, Len(p))
  <2>1. 8 + k \in 0..Len(p)
    BY <1>5, <1>6
  <2>2. PICK j \in 0..Len(p) : j = 8 + k
    BY <2>1
  <2>3. /\ SubSeq(p, 1, j) \in Seq(Byte) /\ Len(SubSeq(p, 1, j)) = j
        /\ SubSeq(p, j + 1, Len(p)) \in Seq(Byte)
        /\ p = SubSeq(p, 1, j) \o SubSeq(p, j + 1, Len(p))
    BY <1>5, Halves
  <2>4. IsCat(p, SubSeq(p, 1, j), SubSeq(p, j + 1, Len(p)))
    BY <2>3 DEF IsCat
  <2> QED  BY <2>2, <2>3, <2>4
<1>8. PICK z : IsCat(z, y, i)
  BY <1>5, <1>7, CatParts, Cats
<1>9. IsCat(c, x, z)
  BY <1>7, <1>8, CatLeft
<1>10. x = piece /\ z = rest
  BY <1>4, <1>7, <1>9, CatSplit
<1>11. PICK t : IsCat(t, b, y) /\ IsCat(p, h, t)
  <2>1. PICK t : IsCat(t, b, y)
    BY <1>2, <1>7, CatParts, Cats
  <2>2. IsCat(p, piece, y)
    BY <1>7, <1>10
  <2> QED  BY <1>2, <2>1, <2>2, CatLeft
<1>12. SubSeq(p, 8 + 1, 8 + k) = b
  <2>1. SubSeq(p, Len(h) + 1, Len(h) + Len(b)) = b
    BY <1>11, CatMiddle
  <2> QED  BY <1>2, <1>3, <2>1
<1>13. SubSeq(p, HeaderLength + 1, Frames!FrameLength(p)) = f.payload
  BY <1>1, <1>6, <1>12
<1>14. SubSeq(p, Frames!FrameLength(p) + 1, Len(p)) = y
  BY <1>6, <1>7
<1>15. y \in Seq(Byte) /\ IsCat(rest, y, i)
  BY <1>8, <1>10, CatParts
<1> QED  BY <1>13, <1>14, <1>15

\* What CutAt says while the stream flows.
LEMMA CutState ==
  ASSUME Inv, script \in Scripts, NEW k \in 0..Len(script.frames), NEW cut \in Seq(Byte),
         CutAt(k, cut)
  PROVE  /\ Sent(script, k) \in Seq(Byte)
         /\ Payloads(SubSeq(script.frames, 1, k)) \in Seq(Seq(Char))
         /\ Pending \in Seq(Byte) /\ incoming \in Seq(Byte)
         /\ pc = "decoding" => stream = "flowing"
         /\ stream = "flowing" =>
              cut = Pending /\ messages = Payloads(SubSeq(script.frames, 1, k))
<1>1. Sent(script, k) \in Seq(Byte)
  BY SentGrows
<1>2. Payloads(SubSeq(script.frames, 1, k)) \in Seq(Seq(Char))
  BY PrefixPayloads
<1>3. Payloads(SubSeq(script.frames, 1, k)) \o <<>> = Payloads(SubSeq(script.frames, 1, k))
  BY <1>2, ConcatEmptySeq
<1>4. pc = "decoding" => stream = "flowing"
  BY DEF Inv, OverIsDrained
<1> QED  BY <1>1, <1>2, <1>3, <1>4, ByteState DEF CutAt

\* Every step keeps the frames: one is taken only when the pending bytes begin
\* with it, and no pending bytes are taken for text.
LEMMA FramesStep ==
  ASSUME Inv, Inv', [Next]_vars, FramesKept, script \in Scripts
  PROVE  FramesKept'
<1>0. script' = script
  BY SameScript
<1> SUFFICES ASSUME script.framed
             PROVE  \E k \in 0..Len(script.frames), cut \in Seq(Byte) : CutAt(k, cut)'
  BY <1>0 DEF FramesKept
<1>1. PICK k \in 0..Len(script.frames), cut \in Seq(Byte) : CutAt(k, cut)
  BY DEF FramesKept
<1> DEFINE n == Len(script.frames)
           f == script.frames[k + 1]
<1>2. /\ Sent(script, k) \in Seq(Byte)
      /\ Payloads(SubSeq(script.frames, 1, k)) \in Seq(Seq(Char))
      /\ Pending \in Seq(Byte) /\ incoming \in Seq(Byte)
      /\ pc = "decoding" => stream = "flowing"
      /\ stream = "flowing" =>
           cut = Pending /\ messages = Payloads(SubSeq(script.frames, 1, k))
  BY <1>1, CutState
<1>3. n \in Nat
  BY SentGrows
<1>4. Sent(script, k) \o (cut \o incoming) = Output
  BY <1>1 DEF CutAt
<1>5. pc = "idle" /\ k < n => Len(cut) < HeaderLength + Len(f.payload)
  BY <1>1 DEF CutAt
<1>6. /\ k = n => cut = <<>>
      /\ k # n => \E piece, rest, c : Ahead(f, k, cut, piece, rest, c)
  BY <1>2, <1>4, NextFrame
<1>7. k # n => k \in 0..(n - 1) /\ k + 1 \in 0..n /\ f \in Frame /\ IsShort(f)
  <2>1. k # n => k \in 0..(n - 1) /\ k + 1 \in 0..n
    BY <1>3
  <2> QED  BY <2>1, SentGrows
<1>8. (Pending \in Seq(Byte) /\ incoming \in Seq(Byte))'
  BY ByteState, PTL
\* A complete header is the header of the frame that is due.
<1>9. ASSUME Len(cut) >= HeaderLength
      PROVE  /\ k # n /\ Frames!IsHeader(cut)
             /\ Frames!FrameLength(cut) = HeaderLength + Len(f.payload)
  <2>1. k # n
    BY <1>6, <1>9, EmptySeq DEF HeaderLength
  <2>2. PICK piece, rest, c : Ahead(f, k, cut, piece, rest, c)
    BY <1>6, <2>1
  <2>3. f \in Frame /\ IsShort(f)
    BY <1>7, <2>1
  <2> HIDE DEF n, f
  <2>4. /\ Frames!IsHeader(cut)
        /\ Frames!FrameLength(cut) = HeaderLength + Len(f.payload)
    BY <1>9, <2>2, <2>3, FrameRead DEF Ahead
  <2> QED  BY <2>1, <2>4
<1> HIDE DEF n, f
<1>10. CASE Delivers
  <2>1. PICK chunk \in Seq(Byte) :
               Pending' = Pending \o chunk /\ incoming = chunk \o incoming'
    BY <1>10 DEF Delivers
  <2>2. PICK later \in Seq(Byte) : later = Pending'
    BY <1>8
  <2>3. later \o incoming' = cut \o incoming
    <3>1. PICK a, d \in Seq(Byte) : a = Pending /\ d = incoming'
      BY <1>2, <1>8
    <3>2. (a \o chunk) \o d = a \o (chunk \o d)
      BY Regroup, SMTT(60)
    <3> QED  BY <1>2, <1>10, <2>1, <2>2, <3>1, <3>2 DEF Delivers
  <2>4. messages' = Payloads(SubSeq(script.frames, 1, k)) \o <<>>
    BY <1>2, <1>10, ConcatEmptySeq DEF Delivers
  <2>5. CutAt(k, later)'
    BY <1>0, <1>4, <1>10, <2>2, <2>3, <2>4 DEF CutAt, Delivers, Output
  <2> QED  BY <2>5
<1>11. CASE TakesFrame
  <2>1. stream = "flowing" /\ stream' = "flowing" /\ cut = Pending /\ pc' = "decoding"
        /\ incoming' = incoming
    BY <1>2, <1>11 DEF TakesFrame
  <2>2. HoldsFrame(cut) /\ Len(cut) >= HeaderLength
    BY <1>11, <2>1 DEF TakesFrame, HoldsFrame
  <2>3. k # n
    BY <1>9, <2>2
  <2>4. PICK piece, rest, c : Ahead(f, k, cut, piece, rest, c)
    BY <1>6, <2>3
  <2> DEFINE y == SubSeq(cut, Frames!FrameLength(cut) + 1, Len(cut))
  <2>5. /\ SubSeq(cut, HeaderLength + 1, Frames!FrameLength(cut)) = f.payload
        /\ y \in Seq(Byte) /\ IsCat(rest, y, incoming)
    BY <1>7, <2>2, <2>3, <2>4, FrameTaken DEF Ahead
  <2>6. messages' = Frames!Emitted(f.payload) /\ Pending' = y
    BY <1>11, <2>1, <2>5 DEF TakesFrame
  <2> HIDE DEF y
  <2>7. messages' = messages \o Lines(f.payload)
    <3>1. f.payload \in Seq(Byte)
      BY <1>7, <2>3 DEF Frame
    <3> QED  BY <2>6, <3>1, Prints
  <2>8. /\ messages' = Payloads(SubSeq(script.frames, 1, k + 1))
        /\ Payloads(SubSeq(script.frames, 1, k + 1)) \in Seq(Seq(Char))
    BY <1>2, <1>3, <1>7, <2>1, <2>3, <2>7, PrefixPayloads DEF n, f
  <2>9. messages' = Payloads(SubSeq(script.frames, 1, k + 1)) \o <<>>
    BY <2>8, ConcatEmptySeq
  <2>10. Sent(script, k + 1) \o (y \o incoming) = Output
    <3>1. IsCat(Output, Sent(script, k + 1), rest)
      BY <2>4, CatLeft DEF Ahead
    <3> QED  BY <2>5, <3>1 DEF IsCat
  <2>11. CutAt(k + 1, y)'
    BY <1>0, <2>1, <2>6, <2>9, <2>10 DEF CutAt, Output
  <2> QED  BY <1>7, <2>3, <2>5, <2>11 DEF n
<1>12. CASE PrintsRaw
  BY <1>2, <1>9, <1>12 DEF PrintsRaw
<1>13. CASE Awaits
  <2>1. stream = "flowing" /\ stream' = "flowing" /\ cut = Pending /\ Pending' = cut
        /\ incoming' = incoming /\ messages' = messages
    BY <1>2, <1>13 DEF Awaits
  <2>2. k < n => Len(cut) < HeaderLength + Len(f.payload)
    <3>1. CASE Len(cut) >= HeaderLength
      BY <1>9, <1>13, <2>1, <3>1 DEF Awaits
    <3>2. CASE ~(Len(cut) >= HeaderLength)
      <4>1. Len(cut) \in Nat /\ (k < n => Len(f.payload) \in Nat)
        BY <1>3, <1>7, HeaderIsBytes, LenProperties
      <4> QED  BY <3>2, <4>1 DEF HeaderLength
    <3> QED  BY <3>1, <3>2
  <2>3. messages' = Payloads(SubSeq(script.frames, 1, k)) \o <<>>
    BY <1>2, <2>1, ConcatEmptySeq
  <2>4. CutAt(k, cut)'
    BY <1>0, <1>4, <2>1, <2>2, <2>3 DEF CutAt, Output, n, f
  <2> QED  BY <2>4
<1>14. CASE Closes
  <2>1. /\ stream' # "flowing" /\ pc = "idle" /\ incoming' = incoming /\ cut = Pending
        /\ messages = Payloads(SubSeq(script.frames, 1, k))
        /\ messages' = Frames!Emitted(cut)
    BY <1>2, <1>14 DEF Closes
  <2>2. messages' = Payloads(SubSeq(script.frames, 1, k)) \o Lines(cut)
    BY <2>1, Prints
  <2>3. CutAt(k, cut)'
    BY <1>0, <1>4, <1>5, <2>1, <2>2 DEF CutAt, Output, n, f
  <2> QED  BY <2>3
<1>15. CASE Idles
  <2>1. CutAt(k, cut)'
    BY <1>0, <1>1, <1>15 DEF CutAt, Idles, Output
  <2> QED  BY <2>1
<1> QED  BY <1>10, <1>11, <1>12, <1>13, <1>14, <1>15, Moves

\* Nothing has been printed at first.
LEMMA KeptInitially == Init => script \in Scripts /\ RawKept /\ FramesKept
<1> SUFFICES ASSUME Init PROVE script \in Scripts /\ RawKept /\ FramesKept
  OBVIOUS
<1>1. /\ script \in Scripts /\ incoming = Output /\ messages = <<>>
      /\ readOffset = 0 /\ writeOffset = 0
  BY DEF Init, Output
<1>2. Pending = <<>>
  BY <1>1, NothingPending DEF Pending
<1>3. Output \in Seq(Byte)
  BY <1>1, OutputIsBytes DEF Output
<1>4. <<>> \o Output = Output
  BY <1>3, ConcatEmptySeq
<1>5. <<>> \o (<<>> \o incoming) = Output
  BY <1>1, <1>4
<1>6. RawKept
  <2>1. printed = <<>> /\ Cuts = {} /\ Len(<<>>) = 0 /\ <<>> \in Seq(Char)
    BY <1>1, FlattenEmpty, EmptySeq DEF printed, Cuts
  <2>2. Accounts(<<>>)
    BY <1>1, <1>2, <1>5, <2>1 DEF Accounts, ReadsAs
  <2> QED  BY <2>2, EmptySeq DEF RawKept
<1>7. CutAt(0, <<>>)
  <2>1. /\ Sent(script, 0) = <<>> /\ Len(script.frames) \in Nat
        /\ Payloads(SubSeq(script.frames, 1, 0)) = <<>>
    BY <1>1, SentGrows, PrefixPayloads
  <2>2. 0 < Len(script.frames) => Len(script.frames[0 + 1].payload) \in Nat
    <3>1. 0 < Len(script.frames) => script.frames[0 + 1] \in Frame
      BY <1>1, <2>1, SentGrows
    <3> QED  BY <3>1, LenProperties DEF Frame
  <2>3. Len(<<>>) = 0
    BY EmptySeq
  <2>4. 0 < Len(script.frames) =>
          Len(<<>>) < HeaderLength + Len(script.frames[0 + 1].payload)
    BY <2>2, <2>3 DEF HeaderLength
  <2>5. <<>> \o (IF stream = "flowing" THEN <<>> ELSE Lines(<<>>)) = <<>>
    <3>1. (IF stream = "flowing" THEN <<>> ELSE Lines(<<>>)) = <<>>
      BY DEF Lines
    <3> QED  BY <3>1
  <2> QED  BY <1>1, <1>2, <1>5, <2>1, <2>4, <2>5 DEF CutAt
<1>8. 0 \in 0..Len(script.frames) /\ <<>> \in Seq(Byte)
  BY <1>1, SentGrows, EmptySeq
<1> QED  BY <1>1, <1>6, <1>7, <1>8 DEF FramesKept

\* Later frames need more bytes.
LEMMA SentLengthens ==
  ASSUME NEW s \in Scripts, s.framed, NEW k \in 0..Len(s.frames)
  PROVE  \A j \in 0..Len(s.frames) : k < j =>
           /\ Len(Sent(s, j)) \in Nat /\ Len(Sent(s, k)) \in Nat
           /\ Len(s.frames[k + 1].payload) \in Nat
           /\ Len(Sent(s, j))
                >= Len(Sent(s, k)) + (HeaderLength + Len(s.frames[k + 1].payload))
<1> SUFFICES ASSUME NEW j \in 0..Len(s.frames), k < j
             PROVE  /\ Len(Sent(s, j)) \in Nat /\ Len(Sent(s, k)) \in Nat
                    /\ Len(s.frames[k + 1].payload) \in Nat
                    /\ Len(Sent(s, j))
                         >= Len(Sent(s, k)) + (HeaderLength + Len(s.frames[k + 1].payload))
  OBVIOUS
<1>1. PICK n \in Nat : n = Len(s.frames)
  BY SentGrows
<1>2. PICK m \in Nat : m = k + 1
  BY <1>1
<1>3. PICK i \in Nat : i = j
  BY <1>1
<1>4. /\ k \in 0..(Len(s.frames) - 1) /\ m <= i /\ i <= Len(s.frames)
      /\ m \in 0..Len(s.frames)
  BY <1>1, <1>2, <1>3
<1>5. PICK f \in Frame : f = s.frames[k + 1]
  BY <1>4, SentGrows
<1>6. /\ Sent(s, m) = Sent(s, k) \o (Header(f) \o f.payload)
      /\ Sent(s, k) \in Seq(Byte)
  BY <1>2, <1>4, <1>5, SentGrows DEF Piece
<1>7. Header(f) \in Seq(Byte) /\ f.payload \in Seq(Byte) /\ Len(Header(f)) = 8
      /\ Len(f.payload) \in Nat
  BY HeaderIsBytes, LenProperties
<1>8. PICK piece : IsCat(piece, Header(f), f.payload) /\ IsCat(Sent(s, m), Sent(s, k), piece)
  <2>1. Header(f) \o f.payload \in Seq(Byte)
    BY <1>7, ConcatProperties
  <2> QED  BY <1>6, <1>7, <2>1 DEF IsCat
<1>9. Len(piece) = 8 + Len(f.payload)
  <2>1. Len(piece) = Len(Header(f)) + Len(f.payload)
    BY <1>8, CatParts
  <2> QED  BY <1>7, <2>1
<1>10. Len(Sent(s, m)) = Len(Sent(s, k)) + Len(piece) /\ Len(Sent(s, k)) \in Nat
  BY <1>8, CatParts
<1>11. \E rest \in Seq(Byte) : IsCat(Sent(s, i), Sent(s, m), rest)
  <2>1. m \in Nat /\ i \in Nat /\ m <= i /\ i <= Len(s.frames)
    BY <1>4
  <2> QED  BY <2>1, SentBegins, Zenon
<1>12. PICK rest : IsCat(Sent(s, i), Sent(s, m), rest)
  BY <1>11
<1>13. Len(Sent(s, i)) = Len(Sent(s, m)) + Len(rest) /\ Len(rest) \in Nat
  BY <1>12, CatParts
<1> QED  BY <1>3, <1>5, <1>7, <1>9, <1>10, <1>13 DEF HeaderLength

\* The frames that have arrived are those before the cut.
LEMMA FramesPrinted ==
  ASSUME Inv, FramesKept, script \in Scripts PROVE PrintsWholeFrames
<1> SUFFICES ASSUME script.framed, pc = "idle"
             PROVE  messages = Payloads(CompleteFrames)
                      \o (IF stream = "flowing" THEN <<>> ELSE Lines(CutFrame))
  BY DEF PrintsWholeFrames
<1>1. PICK k \in 0..Len(script.frames), cut \in Seq(Byte) : CutAt(k, cut)
  BY DEF FramesKept
<1>2. incoming \in Seq(Byte)
  BY ByteState
<1>3. PICK a \in Seq(Byte) : a = Sent(script, k)
  BY SentGrows
<1>4. Output = a \o (cut \o incoming)
  BY <1>1, <1>3 DEF CutAt
<1>5. PICK c : IsCat(c, cut, incoming) /\ IsCat(Output, a, c)
  BY <1>2, <1>4, CatTwice
<1>6. /\ Len(c) = Len(cut) + Len(incoming) /\ Len(cut) \in Nat /\ Len(incoming) \in Nat
      /\ Len(Output) = Len(a) + Len(c) /\ Len(a) \in Nat
  BY <1>5, CatParts
<1>7. Delivered = Len(a) + Len(cut)
  BY <1>6 DEF Delivered, Output
<1>8. SubSeq(Output, Len(a) + 1, Delivered) = cut
  BY <1>5, <1>7, CatMiddle
<1> DEFINE arrived == {j \in 0..Len(script.frames) : Len(Sent(script, j)) <= Delivered}
           last == CHOOSE j \in arrived : \A i \in arrived : i <= j
<1>9. k \in arrived
  BY <1>3, <1>6, <1>7
<1>10. \A j \in arrived : j <= k
  <2>0. PICK n \in Nat : n = Len(script.frames)
    BY SentGrows
  <2>1. SUFFICES ASSUME NEW j \in arrived, k < j PROVE FALSE
    BY <2>0
  <2>2. k < Len(script.frames)
    BY <2>0, <2>1
  <2>3. /\ Len(Sent(script, j)) \in Nat /\ Len(script.frames[k + 1].payload) \in Nat
        /\ Len(Sent(script, j))
             >= Len(Sent(script, k)) + (HeaderLength + Len(script.frames[k + 1].payload))
    BY <2>1, SentLengthens
  <2>4. Len(cut) < HeaderLength + Len(script.frames[k + 1].payload)
    BY <1>1, <2>2 DEF CutAt
  <2>5. Len(Sent(script, j)) <= Len(a) + Len(cut)
    BY <1>7
  <2> QED  BY <1>3, <1>6, <2>3, <2>4, <2>5 DEF HeaderLength
<1>11. last = k
  <2>1. last \in arrived /\ \A i \in arrived : i <= last
    BY <1>9, <1>10
  <2> HIDE DEF last
  <2>2. last <= k /\ k <= last /\ last \in Int /\ k \in Int
    BY <1>9, <1>10, <2>1
  <2> QED  BY <2>2
<1>12. CompleteFrames = SubSeq(script.frames, 1, k)
  <2>1. CompleteFrames = SubSeq(script.frames, 1, last)
    BY Zenon DEF CompleteFrames, Sent
  <2> QED  BY <1>11, <2>1
<1>13. CutFrame = cut
  BY <1>3, <1>8, <1>12 DEF CutFrame, Sent, Output
<1> QED  BY <1>1, <1>12, <1>13 DEF CutAt

-----------------------------------------------------------------------------

\* The inductive invariant: the text and the frames are accounted for.
Kept == Inv /\ script \in Scripts /\ RawKept /\ FramesKept

\* The strengthened invariant holds in every reachable state.
LEMMA KeptAlways == Spec => []Kept
<1>1. Init => Kept
  BY Initially, KeptInitially DEF Kept
<1>2. Kept /\ [Next]_vars => Kept'
  <2> SUFFICES ASSUME Kept, [Next]_vars PROVE Kept'
    OBVIOUS
  <2>1. Inv /\ Inv' /\ script \in Scripts /\ RawKept /\ FramesKept
    BY Step DEF Kept
  <2> QED  BY <2>1, RawStep, FramesStep, SameScript DEF Kept
<1> QED  BY <1>1, <1>2, PTL DEF Spec

\* A container with a terminal: its text is printed or pending, in order, once
\* and whole but for the characters that the end of a message runs through
\* (shared.ts:290-298, 326-337), if no part of it is a frame.
THEOREM OnlyCutCharactersAreLost == Spec => []LosesOnlyCutCharacters
<1>1. Kept => LosesOnlyCutCharacters
  BY RawArrived DEF Kept
<1> QED  BY <1>1, KeptAlways, PTL

\* A container without one: the payloads of the frames that arrived, each once
\* and in order, and the rest of a cut frame only when the stream is over
\* (shared.ts:205-210, 277-337).
THEOREM WholeFramesArePrinted == Spec => []PrintsWholeFrames
<1>1. Kept => PrintsWholeFrames
  BY FramesPrinted DEF Kept
<1> QED  BY <1>1, KeptAlways, PTL

=============================================================================
