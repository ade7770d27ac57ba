---------------------------- MODULE OneShotProofs ---------------------------
(***************************************************************************)
(* What is proved about header.py, combiner.py and the one-shot calls of   *)
(* encryption.py, for any number of calls, documents and key pairs, and    *)
(* for headers, names and ciphertexts of any length.                       *)
(*                                                                         *)
(* The codec: _parse() accepts just what to_bytes() writes (ParseSound,    *)
(* ParseComplete), and the HKDF info tells the components (InfoInjective). *)
(* The loops are recursive functions of the number of turns, and what they *)
(* compute is proved by the least turn at which it would be otherwise.     *)
(*                                                                         *)
(* The calls: OneShotInv says what each call holds at each of its steps,   *)
(* in terms of its arguments, of the bytes it was given and of the calls   *)
(* that have returned.  What carries it is that bytes made of those of     *)
(* calls that have ended are none that a call still to end will send       *)
(* (Early, Delivered): such bytes would begin with its header, and with    *)
(* its header come its random bytes.                                       *)
(***************************************************************************)
EXTENDS OneShot, WellFoundedInduction, SequenceTheorems, TLAPS
-----------------------------------------------------------------------------
\* Numbers, and functions defined over them.

\* The order of the numbers, as a relation.
Less == {ss \in Nat \X Nat : ss[1] < ss[2]}

\* Every set of numbers has a least one.
LEMMA Least ==
  ASSUME NEW T, T \subseteq Nat, T # {}
  PROVE  \E x \in T : \A y \in T : x <= y
<1>1. IsWellFoundedOn(Less, Nat)
  BY NatLessThanWellFounded DEF OpToRel, Less
<1>2. PICK x \in T : \A y \in T : ~(<<y, x>> \in Less)
  BY <1>1, WFMin
<1>3. x \in Nat
  BY <1>2
<1>4. ASSUME NEW y \in T PROVE x <= y
  <2>1. y \in Nat /\ ~(<<y, x>> \in Less)
    BY <1>2
  <2> QED
    BY <1>3, <2>1 DEF Less
<1> QED
  BY <1>4

\* Induction up to n, over the set of the numbers for which something is so.
LEMMA InductionTo ==
  ASSUME NEW n \in Nat, NEW T, 0 \in T, \A i \in 1..n : i - 1 \in T => i \in T
  PROVE  \A i \in 0..n : i \in T
<1> DEFINE B == {i \in 0..n : i \notin T}
<1>1. SUFFICES ASSUME B # {} PROVE FALSE
  OBVIOUS
<1>2. B \subseteq Nat
  OBVIOUS
<1> HIDE DEF B
<1>3. PICK x \in B : \A y \in B : x <= y
  BY <1>1, <1>2, Least
<1>4. x \in 0..n /\ x \notin T
  BY <1>3 DEF B
<1>5. x # 0
  BY <1>4
<1>6. x \in 1..n /\ x - 1 \in 0..n /\ x - 1 \notin T
  BY <1>4, <1>5
<1>7. x - 1 \in B
  BY <1>6 DEF B
<1> QED
  BY <1>3, <1>4, <1>5, <1>7

\* The functions that are s0 at 0 and go on by steps.
Iterations(n, S, s0, step) ==
  {f \in [0..n -> S] : f[0] = s0 /\ \A i \in 1..n : f[i] = step[<<i, f[i - 1]>>]}

\* The functions that put sequences end to end, one after the other.
Concatenations(n, A, ss) ==
  {f \in [0..n -> Seq(A)] : f[0] = <<>> /\ \A i \in 1..n : f[i] = f[i - 1] \o ss[i]}

\* A recursive definition over 0..n has a function.
LEMMA Recursion ==
  ASSUME NEW n \in Nat, NEW S, NEW s0 \in S, NEW step \in [(1..n) \X S -> S]
  PROVE  Iterations(n, S, s0, step) # {}
<1> DEFINE Upto(m) == {f \in [0..m -> S] :
                         f[0] = s0 /\ \A i \in 1..m : f[i] = step[<<i, f[i - 1]>>]}
           T == {m \in 0..n : Upto(m) # {}}
<1>1. 0 \in T
  <2>1. [i \in 0..0 |-> s0] \in Upto(0)
    OBVIOUS
  <2> QED
    BY <2>1
<1>2. ASSUME NEW m \in 1..n, m - 1 \in T PROVE m \in T
  <2>1. PICK f \in [0..(m - 1) -> S] :
              f[0] = s0 /\ \A i \in 1..(m - 1) : f[i] = step[<<i, f[i - 1]>>]
    BY <1>2
  <2> DEFINE g == [i \in 0..m |-> IF i = m THEN step[<<m, f[m - 1]>>] ELSE f[i]]
  <2>2. f[m - 1] \in S
    BY <2>1
  <2>3. step[<<m, f[m - 1]>>] \in S
    BY <2>2
  <2>4. g \in [0..m -> S] /\ g[0] = s0 /\ g[m] = step[<<m, f[m - 1]>>]
    BY <2>1, <2>3
  <2>5. \A i \in 0..(m - 1) : g[i] = f[i]
    OBVIOUS
  <2> HIDE DEF g
  <2>6. ASSUME NEW i \in 1..m PROVE g[i] = step[<<i, g[i - 1]>>]
    <3>1. i - 1 \in 0..(m - 1) /\ g[i - 1] = f[i - 1]
      BY <2>5
    <3>2. CASE i = m
      BY <3>1, <3>2, <2>4
    <3>3. CASE i # m
      <4>1. i \in 1..(m - 1) /\ i \in 0..(m - 1)
        BY <3>3
      <4> QED
        BY <4>1, <3>1, <2>1, <2>5
    <3> QED
      BY <3>2, <3>3
  <2>7. g \in Upto(m)
    BY <2>4, <2>6
  <2> QED
    BY <2>7
<1> HIDE DEF T
<1>3. n \in T
  BY <1>1, <1>2, InductionTo
<1> QED
  BY <1>3 DEF T, Iterations

\* Sequences, put end to end one after the other, have a function too.
LEMMA Concatenated ==
  ASSUME NEW A, NEW n \in Nat, NEW ss, \A i \in 1..n : ss[i] \in Seq(A)
  PROVE  Concatenations(n, A, ss) # {}
<1> DEFINE step == [x \in (1..n) \X Seq(A) |-> x[2] \o ss[x[1]]]
<1>1. ASSUME NEW i \in 1..n, NEW s \in Seq(A)
      PROVE  s \o ss[i] \in Seq(A) /\ step[<<i, s>>] = s \o ss[i]
  <2>1. s \o ss[i] \in Seq(A)
    BY ConcatProperties
  <2> QED
    BY <2>1
<1>2. step \in [(1..n) \X Seq(A) -> Seq(A)]
  BY <1>1
<1>3. <<>> \in Seq(A)
  BY EmptySeq
<1> HIDE DEF step
<1>4. PICK f \in [0..n -> Seq(A)] :
            f[0] = <<>> /\ \A i \in 1..n : f[i] = step[<<i, f[i - 1]>>]
  <2>1. Iterations(n, Seq(A), <<>>, step) # {}
    BY <1>2, <1>3, Recursion
  <2> QED
    BY <2>1 DEF Iterations
<1>5. ASSUME NEW i \in 1..n PROVE f[i] = f[i - 1] \o ss[i]
  <2>1. i - 1 \in 0..n
    OBVIOUS
  <2>2. f[i - 1] \in Seq(A)
    BY <2>1
  <2>3. f[i] = step[<<i, f[i - 1]>>]
    BY <1>4
  <2> QED
    BY <2>2, <2>3, <1>1
<1> QED
  BY <1>4, <1>5 DEF Concatenations

\* FlattenSeq() puts its sequences end to end, one after the other.
LEMMA Flattened ==
  ASSUME NEW A, NEW ss \in Seq(Seq(A))
  PROVE  \E f \in [0..Len(ss) -> Seq(A)] :
            /\ f[0] = <<>>
            /\ \A i \in 1..Len(ss) : f[i] = f[i - 1] \o ss[i]
            /\ FlattenSeq(ss) = f[Len(ss)]
<1>1. PICK n \in Nat : n = Len(ss)
  OBVIOUS
<1>2. \A i \in 1..n : ss[i] \in Seq(A)
  BY <1>1
<1>3. PICK f \in [0..n -> Seq(A)] :
            f[0] = <<>> /\ \A i \in 1..n : f[i] = f[i - 1] \o ss[i]
  <2>1. Concatenations(n, A, ss) # {}
    BY <1>2, Concatenated
  <2> QED
    BY <2>1 DEF Concatenations
<1>4. CASE n = 0
  <2>1. FlattenSeq(ss) = ss
    BY <1>1, <1>4 DEF FlattenSeq
  <2>2. ss = <<>>
    BY <1>1, <1>4, EmptySeq
  <2> QED
    BY <1>1, <1>3, <1>4, <2>1, <2>2
<1>5. CASE n # 0
  <2> DEFINE Eq(f_1) == f_1 = [i \in 1..n |-> IF i = 1 THEN ss[i] ELSE f_1[i - 1] \o ss[i]]
             h == [i \in 1..n |-> f[i]]
  <2>1. n >= 1 /\ 1 \in 1..n /\ 0 \in 0..n
    BY <1>5
  <2>2. f[1] = f[1 - 1] \o ss[1] /\ ss[1] \in Seq(A)
    BY <1>2, <1>3, <2>1
  <2>3. f[1] = ss[1]
    BY <1>3, <2>2, ConcatEmptySeq, 1 - 1 = 0
  <2>4. Eq(h)
    <3>1. ASSUME NEW i \in 1..n PROVE h[i] = IF i = 1 THEN ss[i] ELSE h[i - 1] \o ss[i]
      <4>1. CASE i = 1
        BY <4>1, <2>3
      <4>2. CASE i # 1
        <5>1. i - 1 \in 1..n
          BY <4>2
        <5>2. h[i] = f[i] /\ h[i - 1] = f[i - 1]
          BY <5>1
        <5>3. f[i] = f[i - 1] \o ss[i]
          BY <1>3
        <5> QED
          BY <4>2, <5>2, <5>3
      <4> QED
        BY <4>1, <4>2
    <3>2. h = [i \in 1..n |-> h[i]]
      OBVIOUS
    <3> HIDE DEF h
    <3> QED
      BY <3>1, <3>2
  <2>5. FlattenSeq(ss) = (CHOOSE g : Eq(g))[n]
    BY <1>1, <1>5 DEF FlattenSeq
  <2>6. PICK g : g = (CHOOSE u : Eq(u)) /\ Eq(g)
    BY <2>4
  <2>7. g[1] = ss[1]
    BY <2>1, <2>6
  <2>8. ASSUME NEW i \in 1..n, i # 1 PROVE g[i] = g[i - 1] \o ss[i]
    BY <2>6, <2>8
  <2> HIDE DEF Eq, h
  <2> DEFINE T == {i \in 0..n : i # 0 => g[i] = f[i]}
  <2>9. ASSUME NEW i \in 1..n, i - 1 \in T PROVE i \in T
    <3>1. CASE i = 1
      BY <3>1, <2>3, <2>7
    <3>2. CASE i # 1
      <4>1. g[i - 1] = f[i - 1]
        BY <3>2, <2>9
      <4>2. g[i] = g[i - 1] \o ss[i] /\ f[i] = f[i - 1] \o ss[i]
        BY <3>2, <2>8, <1>3
      <4>3. g[i] = f[i]
        BY <4>1, <4>2
      <4> QED
        BY <4>3
    <3> QED
      BY <3>1, <3>2
  <2>10. 0 \in T
    BY <2>1
  <2> HIDE DEF T
  <2>11. n \in T
    <3>1. \A i \in 0..n : i \in T
      BY <2>9, <2>10, InductionTo
    <3> QED
      BY <3>1
  <2>12. g[n] = f[n]
    BY <2>11, <1>5 DEF T
  <2>13. FlattenSeq(ss) = f[n]
    BY <2>12, <2>5, <2>6
  <2> QED
    BY <1>1, <1>3, <2>13
<1> QED
  BY <1>4, <1>5
-----------------------------------------------------------------------------
\* Sequences that begin with others.

\* A prefix is no longer than the sequence, and has its elements.
LEMMA PrefixElements ==
  ASSUME NEW A, NEW a \in Seq(A), NEW d \in Seq(A)
  PROVE  IsPrefix(a, d) <=> Len(a) <= Len(d) /\ \A i \in 1..Len(a) : a[i] = d[i]
<1>1. SubSeq(a, 1, Len(a)) = a
  BY SubSeqFull
<1>2. ASSUME Len(a) <= Len(d)
      PROVE  /\ SubSeq(d, 1, Len(a)) \in Seq(A)
             /\ Len(SubSeq(d, 1, Len(a))) = Len(a)
             /\ \A i \in 1..Len(a) : SubSeq(d, 1, Len(a))[i] = d[i]
  <2>1. 1 \in Int /\ Len(a) \in Int /\ Len(a) \in Nat
    BY LenProperties
  <2>2. \A i \in 1..Len(a) : d[i] \in A
    BY <1>2, <2>1, ElementOfSeq
  <2>3. /\ SubSeq(d, 1, Len(a)) \in Seq(A)
        /\ Len(SubSeq(d, 1, Len(a))) = IF 1 <= Len(a) THEN Len(a) - 1 + 1 ELSE 0
        /\ \A i \in 1..(Len(a) - 1 + 1) : SubSeq(d, 1, Len(a))[i] = d[1 + i - 1]
    BY <2>1, <2>2, SubSeqProperties
  <2> QED
    BY <2>1, <2>3
<1>3. ASSUME IsPrefix(a, d) PROVE Len(a) <= Len(d) /\ \A i \in 1..Len(a) : a[i] = d[i]
  <2>1. Len(a) <= Len(d) /\ a = SubSeq(d, 1, Len(a))
    BY <1>1, <1>3 DEF IsPrefix
  <2> QED
    BY <1>2, <2>1
<1>4. ASSUME Len(a) <= Len(d), \A i \in 1..Len(a) : a[i] = d[i] PROVE IsPrefix(a, d)
  <2>1. a = SubSeq(d, 1, Len(a))
    BY <1>2, <1>4, SeqEqual
  <2> QED
    BY <1>1, <1>4, <2>1 DEF IsPrefix
<1> QED
  BY <1>3, <1>4

\* A sequence that begins with two parts has the second after the first.
LEMMA Chop ==
  ASSUME NEW A, NEW a \in Seq(A), NEW b \in Seq(A), NEW d \in Seq(A), IsPrefix(a \o b, d)
  PROVE  /\ IsPrefix(a, d)
         /\ Len(a) + Len(b) <= Len(d)
         /\ SubSeq(d, Len(a) + 1, Len(a) + Len(b)) = b
         /\ \A i \in 1..Len(b) : d[Len(a) + i] = b[i]
<1>1. /\ a \o b \in Seq(A) /\ Len(a \o b) = Len(a) + Len(b)
      /\ \A i \in 1..(Len(a) + Len(b)) :
            (a \o b)[i] = IF i <= Len(a) THEN a[i] ELSE b[i - Len(a)]
  BY ConcatProperties
<1>2. Len(a) \in Nat /\ Len(b) \in Nat /\ Len(d) \in Nat
  BY LenProperties
<1>3. Len(a) + Len(b) <= Len(d) /\ \A i \in 1..(Len(a) + Len(b)) : (a \o b)[i] = d[i]
  <2> DEFINE c == a \o b
  <2>1. c \in Seq(A) /\ IsPrefix(c, d) /\ Len(c) = Len(a) + Len(b)
    BY <1>1
  <2> HIDE DEF c
  <2>2. Len(c) <= Len(d) /\ \A i \in 1..Len(c) : c[i] = d[i]
    BY <2>1, PrefixElements
  <2> QED
    BY <2>1, <2>2 DEF c
<1>4. ASSUME NEW i \in 1..Len(a) PROVE a[i] = d[i]
  <2>1. i \in 1..(Len(a) + Len(b)) /\ i <= Len(a)
    BY <1>2
  <2> QED
    BY <1>1, <1>3, <2>1
<1>5. ASSUME NEW i \in 1..Len(b) PROVE d[Len(a) + i] = b[i]
  <2>1. /\ Len(a) + i \in 1..(Len(a) + Len(b)) /\ ~(Len(a) + i <= Len(a))
        /\ Len(a) + i - Len(a) = i
    BY <1>2
  <2>2. (a \o b)[Len(a) + i] = b[Len(a) + i - Len(a)]
    BY <1>1, <2>1
  <2> QED
    BY <1>3, <2>1, <2>2
<1>6. IsPrefix(a, d)
  BY <1>2, <1>3, <1>4, PrefixElements
<1> DEFINE m == Len(a) + 1  n == Len(a) + Len(b)
<1>7. SubSeq(d, m, n) = b
  <2>1. m \in Int /\ n \in Int
    BY <1>2
  <2>2. \A i \in m..n : d[i] \in A
    <3>1. \A i \in m..n : i \in 1..Len(d)
      BY <1>2, <1>3
    <3> QED
      BY <3>1, ElementOfSeq
  <2>3. /\ n - m + 1 = Len(b)
        /\ (IF m <= n THEN n - m + 1 ELSE 0) = Len(b)
        /\ \A i \in 1..Len(b) : m + i - 1 = Len(a) + i
    BY <1>2
  <2> HIDE DEF m, n
  <2>4. /\ SubSeq(d, m, n) \in Seq(A)
        /\ Len(SubSeq(d, m, n)) = IF m <= n THEN n - m + 1 ELSE 0
        /\ \A i \in 1..(n - m + 1) : SubSeq(d, m, n)[i] = d[m + i - 1]
    BY <2>1, <2>2, SubSeqProperties
  <2>5. \A i \in 1..Len(b) : SubSeq(d, m, n)[i] = b[i]
    BY <2>3, <2>4, <1>5
  <2> QED
    BY <2>3, <2>4, <2>5, SeqEqual
<1> QED
  BY <1>3, <1>5, <1>6, <1>7

\* What a sequence begins with can be made longer, up to any place in it.
LEMMA Grow ==
  ASSUME NEW A, NEW a \in Seq(A), NEW d \in Seq(A), IsPrefix(a, d),
         NEW k, k = Len(a), NEW e \in k..Len(d)
  PROVE  /\ SubSeq(d, k + 1, e) \in Seq(A)
         /\ Len(SubSeq(d, k + 1, e)) = e - k
         /\ a \o SubSeq(d, k + 1, e) \in Seq(A)
         /\ Len(a \o SubSeq(d, k + 1, e)) = e
         /\ IsPrefix(a \o SubSeq(d, k + 1, e), d)
<1> DEFINE m == k + 1  b == SubSeq(d, m, e)
<1>1. k \in Nat /\ Len(d) \in Nat /\ e \in Nat /\ k <= e /\ e <= Len(d)
  BY LenProperties
<1>2. Len(a) <= Len(d) /\ \A i \in 1..Len(a) : a[i] = d[i]
  BY PrefixElements
<1>3. \A i \in m..e : d[i] \in A
  <2>1. \A i \in m..e : i \in 1..Len(d)
    BY <1>1
  <2> QED
    BY <2>1, ElementOfSeq
<1>4. /\ m \in Int /\ e \in Int
      /\ (IF m <= e THEN e - m + 1 ELSE 0) = e - k
      /\ e - m + 1 = e - k
      /\ \A i \in Nat : m + i - 1 = k + i
  BY <1>1
<1> HIDE DEF m
<1>5. /\ b \in Seq(A)
      /\ Len(b) = IF m <= e THEN e - m + 1 ELSE 0
      /\ \A i \in 1..(e - m + 1) : b[i] = d[m + i - 1]
  BY <1>3, <1>4, SubSeqProperties
<1>6. b \in Seq(A) /\ Len(b) = e - k /\ \A i \in 1..(e - k) : b[i] = d[k + i]
  BY <1>1, <1>4, <1>5
<1> HIDE DEF b
<1>7. /\ a \o b \in Seq(A) /\ Len(a \o b) = Len(a) + Len(b)
      /\ \A i \in 1..(Len(a) + Len(b)) :
            (a \o b)[i] = IF i <= Len(a) THEN a[i] ELSE b[i - Len(a)]
  BY <1>6, ConcatProperties
<1>8. Len(a \o b) = e
  BY <1>1, <1>6, <1>7
<1>9. ASSUME NEW i \in 1..Len(a \o b) PROVE (a \o b)[i] = d[i]
  <2>1. CASE i <= Len(a)
    BY <1>1, <1>2, <1>7, <1>8, <2>1
  <2>2. CASE ~(i <= Len(a))
    <3>1. i - k \in 1..(e - k) /\ k + (i - k) = i /\ i \in 1..(Len(a) + Len(b))
      BY <1>1, <1>6, <1>8, <2>2
    <3>2. (a \o b)[i] = b[i - k]
      BY <1>7, <2>2, <3>1
    <3>3. b[i - k] = d[k + (i - k)]
      BY <1>6, <3>1
    <3> QED
      BY <3>1, <3>2, <3>3
  <2> QED
    BY <2>1, <2>2
<1>10. IsPrefix(a \o b, d)
  BY <1>1, <1>7, <1>8, <1>9, PrefixElements
<1> QED
  BY <1>6, <1>7, <1>8, <1>10 DEF b, m

\* The same, by one element.
LEMMA GrowOne ==
  ASSUME NEW A, NEW a \in Seq(A), NEW d \in Seq(A), IsPrefix(a, d),
         NEW k, k = Len(a), k < Len(d)
  PROVE  /\ d[k + 1] \in A
         /\ a \o <<d[k + 1]>> \in Seq(A)
         /\ Len(a \o <<d[k + 1]>>) = k + 1
         /\ IsPrefix(a \o <<d[k + 1]>>, d)
<1> DEFINE e == k + 1
<1>1. k \in Nat /\ Len(d) \in Nat /\ e \in k..Len(d) /\ e \in 1..Len(d)
  BY LenProperties
<1>2. d[k + 1] \in A
  BY <1>1, ElementOfSeq
<1>3. SubSeq(d, k + 1, e) = <<d[k + 1]>>
  <2>1. /\ SubSeq(d, k + 1, e) \in Seq(A) /\ Len(SubSeq(d, k + 1, e)) = 1
        /\ SubSeq(d, k + 1, e)[1] = d[k + 1]
    BY <1>1
  <2>2. <<d[k + 1]>> \in Seq(A) /\ Len(<<d[k + 1]>>) = 1 /\ <<d[k + 1]>>[1] = d[k + 1]
    BY <1>2
  <2> DEFINE u == SubSeq(d, k + 1, e)  v == <<d[k + 1]>>
  <2>3. u \in Seq(A) /\ v \in Seq(A) /\ Len(u) = 1 /\ Len(v) = 1 /\ u[1] = v[1]
    BY <2>1, <2>2
  <2> HIDE DEF u, v
  <2>4. \A i \in 1..Len(u) : u[i] = v[i]
    BY <2>3
  <2>5. u = v
    BY <2>3, <2>4, SeqEqual
  <2> QED
    BY <2>5 DEF u, v
<1>4. /\ a \o SubSeq(d, k + 1, e) \in Seq(A)
      /\ Len(a \o SubSeq(d, k + 1, e)) = e
      /\ IsPrefix(a \o SubSeq(d, k + 1, e), d)
  <2> HIDE DEF e
  <2> QED
    BY <1>1, Grow
<1> QED
  BY <1>2, <1>3, <1>4

\* What FlattenSeq makes of one sequence more.
LEMMA FlattenAppend ==
  ASSUME NEW A, NEW ss \in Seq(Seq(A)), NEW s \in Seq(A)
  PROVE  /\ FlattenSeq(ss) \in Seq(A)
         /\ FlattenSeq(Append(ss, s)) = FlattenSeq(ss) \o s
<1> DEFINE tt == Append(ss, s)
<1>1. /\ tt \in Seq(Seq(A)) /\ Len(tt) = Len(ss) + 1 /\ tt[Len(ss) + 1] = s
      /\ \A i \in 1..Len(ss) : tt[i] = ss[i]
  BY AppendProperties
<1> HIDE DEF tt
<1>2. PICK f \in [0..Len(ss) -> Seq(A)] :
            /\ f[0] = <<>>
            /\ \A i \in 1..Len(ss) : f[i] = f[i - 1] \o ss[i]
            /\ FlattenSeq(ss) = f[Len(ss)]
  BY Flattened
<1>3. PICK g \in [0..Len(tt) -> Seq(A)] :
            /\ g[0] = <<>>
            /\ \A i \in 1..Len(tt) : g[i] = g[i - 1] \o tt[i]
            /\ FlattenSeq(tt) = g[Len(tt)]
  BY <1>1, Flattened
<1>4. PICK n \in Nat : n = Len(ss)
  BY LenProperties
<1> DEFINE T == {i \in 0..n : g[i] = f[i]}
<1>5. 0 \in T
  BY <1>2, <1>3
<1>6. ASSUME NEW i \in 1..n, i - 1 \in T PROVE i \in T
  <2>1. g[i - 1] = f[i - 1]
    BY <1>6
  <2>2. i \in 1..Len(ss) /\ i \in 1..Len(tt)
    BY <1>1, <1>4
  <2>3. f[i] = f[i - 1] \o ss[i]
    BY <1>2, <2>2
  <2>4. g[i] = g[i - 1] \o tt[i] /\ tt[i] = ss[i]
    BY <1>1, <1>3, <2>2
  <2>5. g[i] = f[i]
    BY <2>1, <2>3, <2>4
  <2> QED
    BY <2>5
<1> HIDE DEF T
<1>7. n \in T
  <2>1. \A i \in 0..n : i \in T
    BY <1>5, <1>6, InductionTo
  <2> QED
    BY <2>1
<1>8. g[n] = f[n]
  BY <1>7 DEF T
<1>9. PICK m \in Nat : m = n + 1
  OBVIOUS
<1>10. /\ m \in 1..Len(tt) /\ m - 1 = n /\ Len(tt) = m /\ n \in 0..Len(ss) /\ tt[m] = s
  BY <1>1, <1>4, <1>9
<1>11. FlattenSeq(tt) = f[n] \o s
  <2>1. g[m] = g[m - 1] \o tt[m]
    BY <1>3, <1>10
  <2> QED
    BY <1>3, <1>8, <1>10, <2>1
<1>12. FlattenSeq(ss) = f[n] /\ f[n] \in Seq(A)
  BY <1>2, <1>4, <1>10
<1> QED
  BY <1>11, <1>12 DEF tt
-----------------------------------------------------------------------------
\* Lengths.

\* A length is written in two bytes, and they are the length.
LEMMA Split ==
  ASSUME NEW n \in Nat, n < Wide
  PROVE  /\ n \div Base \in Byte /\ n % Base \in Byte
         /\ (n \div Base) * Base + (n % Base) = n
<1>1. Base \in Nat /\ Base > 2
  BY BaseAssumption DEF FormatVersion
<1>8. PICK q, r : q = n \div Base /\ r = n % Base
  OBVIOUS
<1>2. n = Base * q + r /\ r \in 0..(Base - 1) /\ q \in Nat
  BY <1>1, <1>8
<1>3. Wide = Base * Base
  BY DEF Wide
<1>4. q < Base
  <2>1. SUFFICES ASSUME q >= Base PROVE FALSE
    BY <1>1, <1>2
  <2>2. PICK k \in Nat : q = Base + k
    BY <1>1, <1>2, <2>1
  <2>3. Base * q = Base * Base + Base * k
    BY <1>1, <2>2
  <2>4. Base * k >= 0 /\ Base * k \in Nat /\ Base * Base \in Nat
    BY <1>1
  <2> QED
    BY <1>2, <1>3, <2>3, <2>4
<1>5. q * Base = Base * q
  BY <1>1, <1>2
<1>6. q \in Byte /\ r \in Byte
  BY <1>1, <1>2, <1>4 DEF Byte
<1>7. q * Base + r = n
  BY <1>1, <1>2, <1>5
<1> QED
  BY <1>6, <1>7, <1>8

\* Two bytes are one length, the one that is written so.
LEMMA Join ==
  ASSUME NEW x \in Byte, NEW y \in Byte
  PROVE  /\ x * Base + y \in Nat /\ x * Base + y < Wide
         /\ (x * Base + y) \div Base = x /\ (x * Base + y) % Base = y
<1>1. Base \in Nat /\ Base > 2 /\ x \in 0..(Base - 1) /\ y \in 0..(Base - 1)
  BY BaseAssumption DEF FormatVersion, Byte
<1>7. PICK n, q, r : n = x * Base + y /\ q = n \div Base /\ r = n % Base
  OBVIOUS
<1>2. n \in Nat
  BY <1>1, <1>7
<1>3. x * Base + y < Wide
  <2>1. PICK k \in Nat : Base = x + 1 + k
    BY <1>1
  <2>2. Base * Base = (x + 1 + k) * Base
    BY <1>1, <2>1
  <2>3. (x + 1 + k) * Base = x * Base + Base + k * Base
    BY <1>1
  <2>4. k * Base \in Nat /\ x * Base \in Nat
    BY <1>1
  <2> QED
    BY <1>1, <2>2, <2>3, <2>4 DEF Wide
<1>4. x * Base + y = Base * q + r /\ q \in Nat /\ r \in 0..(Base - 1)
  BY <1>1, <1>2, <1>7
<1>5. q = x
  <2>1. ASSUME q > x PROVE FALSE
    <3>1. PICK k \in Nat : q = x + 1 + k
      BY <1>1, <1>4, <2>1
    <3>2. Base * q = x * Base + Base + k * Base
      BY <1>1, <3>1
    <3>3. k * Base \in Nat /\ x * Base \in Nat
      BY <1>1
    <3> QED
      BY <1>1, <1>4, <3>2, <3>3
  <2>2. ASSUME q < x PROVE FALSE
    <3>1. PICK k \in Nat : x = q + 1 + k
      BY <1>1, <1>4, <2>2
    <3>2. x * Base = Base * q + Base + k * Base
      BY <1>1, <1>4, <3>1
    <3>3. k * Base \in Nat /\ Base * q \in Nat
      BY <1>1, <1>4
    <3> QED
      BY <1>1, <1>4, <3>2, <3>3
  <2> QED
    BY <1>1, <1>4, <2>1, <2>2
<1>6. r = y
  <2>1. Base * q = x * Base
    BY <1>1, <1>5
  <2>2. x * Base \in Nat
    BY <1>1
  <2> QED
    BY <1>1, <1>4, <2>1, <2>2
<1> QED
  BY <1>2, <1>3, <1>5, <1>6, <1>7
-----------------------------------------------------------------------------
\* What _parse() does with a component.

\* A component of a header, and what the loop of _parse() holds.
Component == [alg : Bytes, ct : Bytes]
State     == [ok : BOOLEAN, at : Nat, comps : Seq(Component)]

\* The bytes of a list of components.
Field(c)   == Short(c.alg) \o Long(c.ct)

\* The bytes of the components, one after the other.
Fields(cs) == [i \in 1..Len(cs) |-> Field(cs[i])]
Body(cs)   == FlattenSeq(Fields(cs))

\* A component whose two lengths can be written.
Fits(c) == c \in Component /\ Len(c.alg) < Base /\ Len(c.ct) < Wide

\* The two parts of a component's bytes are bytes.
LEMMA FieldType ==
  ASSUME NEW c, Fits(c)
  PROVE  /\ Short(c.alg) \in Bytes /\ Long(c.ct) \in Bytes /\ Field(c) \in Bytes
         /\ <<Len(c.alg)>> \in Bytes
         /\ <<Len(c.ct) \div Base, Len(c.ct) % Base>> \in Bytes
<1>1. c.alg \in Bytes /\ c.ct \in Bytes /\ Len(c.alg) \in Nat /\ Len(c.ct) \in Nat
  BY DEF Fits, Component, Bytes
<1>2. Base \in Nat /\ Base > 2
  BY BaseAssumption DEF FormatVersion
<1>3. Len(c.alg) \in Byte
  BY <1>1, <1>2 DEF Fits, Byte
<1>4. Len(c.ct) \div Base \in Byte /\ Len(c.ct) % Base \in Byte
  BY <1>1, Split DEF Fits
<1>5. /\ <<Len(c.alg)>> \in Seq(Byte)
      /\ <<Len(c.ct) \div Base, Len(c.ct) % Base>> \in Seq(Byte)
  BY <1>3, <1>4
<1>6. Short(c.alg) \in Seq(Byte) /\ Long(c.ct) \in Seq(Byte)
  BY <1>1, <1>5, ConcatProperties DEF Short, Long, Bytes
<1>7. Field(c) \in Seq(Byte)
  BY <1>6, ConcatProperties DEF Field
<1> QED
  BY <1>5, <1>6, <1>7 DEF Bytes

\* The components of a header are bytes.
LEMMA BodyType ==
  ASSUME NEW cs \in Seq(Component), \A i \in 1..Len(cs) : Fits(cs[i])
  PROVE  Fields(cs) \in Seq(Bytes) /\ Len(Fields(cs)) = Len(cs) /\ Body(cs) \in Bytes
<1>1. \A i \in 1..Len(cs) : Field(cs[i]) \in Bytes
  BY FieldType
<1>2. Fields(cs) \in Seq(Bytes) /\ Len(Fields(cs)) = Len(cs)
  BY <1>1 DEF Fields
<1>3. FlattenSeq(Fields(cs)) \in Seq(Byte)
  <2>1. <<>> \in Seq(Byte)
    BY EmptySeq
  <2> QED
    BY <1>2, <2>1, FlattenAppend DEF Bytes
<1> QED
  BY <1>2, <1>3 DEF Body, Bytes

\* The bytes of one component more come after the others'.
LEMMA BodyAppend ==
  ASSUME NEW cs \in Seq(Component), \A i \in 1..Len(cs) : Fits(cs[i]),
         NEW c, Fits(c)
  PROVE  Body(Append(cs, c)) = Body(cs) \o Field(c)
<1> DEFINE ds == Append(cs, c)
<1>1. c \in Component /\ Field(c) \in Seq(Byte) /\ Fields(cs) \in Seq(Seq(Byte))
  BY FieldType, BodyType DEF Fits, Bytes
<1>2. /\ ds \in Seq(Component) /\ Len(ds) = Len(cs) + 1 /\ ds[Len(cs) + 1] = c
      /\ \A i \in 1..Len(cs) : ds[i] = cs[i]
  BY <1>1, AppendProperties
<1> HIDE DEF ds
<1>3. Fields(ds) = Append(Fields(cs), Field(c))
  <2> DEFINE u == Fields(ds)  v == Append(Fields(cs), Field(c))
  <2>1. Len(Fields(cs)) = Len(cs) /\ Len(cs) \in Nat
    BY DEF Fields
  <2>2. /\ v \in Seq(Seq(Byte)) /\ Len(v) = Len(cs) + 1 /\ v[Len(cs) + 1] = Field(c)
        /\ \A i \in 1..Len(cs) : v[i] = Fields(cs)[i]
    BY <1>1, <2>1, AppendProperties
  <2>3. \A i \in 1..Len(cs) : Fields(cs)[i] = Field(cs[i])
    BY DEF Fields
  <2>4. Len(u) = Len(cs) + 1 /\ \A i \in 1..(Len(cs) + 1) : u[i] = Field(ds[i])
    BY <1>2, <2>1 DEF Fields
  <2> HIDE DEF v
  <2>5. ASSUME NEW i \in 1..(Len(cs) + 1) PROVE u[i] = v[i]
    <3>1. CASE i = Len(cs) + 1
      BY <3>1, <1>2, <2>2, <2>4
    <3>2. CASE i # Len(cs) + 1
      <4>1. i \in 1..Len(cs)
        BY <3>2, <2>1
      <4> QED
        BY <4>1, <1>2, <2>2, <2>3, <2>4
    <3> QED
      BY <3>1, <3>2
  <2>6. u \in Seq(Seq(Byte))
    <3>1. \A i \in 1..Len(ds) : Field(ds[i]) \in Seq(Byte)
      <4>1. \A i \in 1..(Len(cs) + 1) : u[i] \in Seq(Byte)
        BY <2>1, <2>2, <2>5, ElementOfSeq
      <4> QED
        BY <4>1, <2>4, <1>2
    <3> QED
      BY <3>1, <1>2, <2>1 DEF Fields
  <2> HIDE DEF u
  <2> QED
    BY <2>2, <2>4, <2>5, <2>6, SeqEqual DEF u, v
<1>4. FlattenSeq(Append(Fields(cs), Field(c))) = FlattenSeq(Fields(cs)) \o Field(c)
  BY <1>1, FlattenAppend
<1> QED
  BY <1>3, <1>4 DEF Body, ds

\* A turn of the loop that does not fail takes the bytes of one component.
Turn(data, st, algEnd, ctEnd, c) ==
  /\ st.ok
  /\ st.at < Len(data)
  /\ data[st.at + 1] \in Byte
  /\ algEnd = st.at + 1 + data[st.at + 1]
  /\ algEnd + 2 <= Len(data)
  /\ data[algEnd + 1] \in Byte /\ data[algEnd + 2] \in Byte
  /\ ctEnd = algEnd + 2 + (data[algEnd + 1] * Base + data[algEnd + 2])
  /\ ctEnd <= Len(data)
  /\ c.alg = SubSeq(data, st.at + 1 + 1, algEnd) /\ Len(c.alg) = data[st.at + 1]
  /\ c.ct = SubSeq(data, algEnd + 2 + 1, ctEnd)
  /\ Len(c.ct) = data[algEnd + 1] * Base + data[algEnd + 2]

\* A turn of _parse()'s loop that is accepted: where the two parts of the
\* component end, and what the turn leaves.
LEMMA ComponentTaken ==
  ASSUME NEW data \in Bytes, NEW st \in State, ParseComponent(data, st) # Failed
  PROVE  \E algEnd, ctEnd \in Nat, c \in Component :
            /\ Turn(data, st, algEnd, ctEnd, c)
            /\ Fits(c)
            /\ ParseComponent(data, st) =
                  [ok |-> TRUE, at |-> ctEnd, comps |-> Append(st.comps, c)]
            /\ ParseComponent(data, st) \in State
<1>1. PICK at : at = st.at
  OBVIOUS
<1>2. PICK algEnd : algEnd = at + 1 + data[at + 1]
  OBVIOUS
<1>3. PICK ctLen : ctLen = data[algEnd + 1] * Base + data[algEnd + 2]
  OBVIOUS
<1>4. PICK ctEnd : ctEnd = algEnd + 2 + data[algEnd + 1] * Base + data[algEnd + 2]
  OBVIOUS
<1>5. PICK alg, ct : /\ alg = Slice(data, at + 1, data[at + 1])
                     /\ ct  = Slice(data, algEnd + 2, ctEnd - algEnd - 2)
  OBVIOUS
<1>6. /\ st.ok /\ at < Len(data) /\ algEnd + 2 <= Len(data) /\ ctEnd <= Len(data)
      /\ ParseComponent(data, st) =
            [ok |-> TRUE, at |-> ctEnd, comps |-> Append(st.comps, [alg |-> alg, ct |-> ct])]
  BY <1>1, <1>2, <1>4, <1>5 DEF ParseComponent
<1>7. /\ at \in Nat /\ Len(data) \in Nat /\ Base \in Nat /\ data \in Seq(Byte)
      /\ st.comps \in Seq(Component)
  BY <1>1, BaseAssumption DEF State, Bytes
<1>8. \A i \in 1..Len(data) : data[i] \in Byte /\ data[i] \in Nat
  BY <1>7, ElementOfSeq DEF Byte
<1>9. data[at + 1] \in Byte /\ data[at + 1] \in Nat
  BY <1>6, <1>7, <1>8
<1>10. algEnd \in Nat /\ algEnd + 1 \in 1..Len(data) /\ algEnd + 2 \in 1..Len(data)
  <2>1. PICK n \in Nat : n = data[at + 1]
    BY <1>9
  <2>2. algEnd = at + 1 + n /\ at \in Nat /\ Len(data) \in Nat
    BY <1>2, <1>7, <2>1
  <2>3. algEnd + 2 <= Len(data)
    BY <1>6
  <2> QED
    BY <2>2, <2>3
<1>11. /\ data[algEnd + 1] \in Byte /\ data[algEnd + 2] \in Byte
       /\ data[algEnd + 1] \in Nat /\ data[algEnd + 2] \in Nat
  BY <1>8, <1>10
<1>12. ctLen \in Nat /\ ctLen < Wide
  BY <1>3, <1>11, Join
<1>13. ctEnd = algEnd + 2 + ctLen
  <2>1. PICK x, y : x = data[algEnd + 1] * Base /\ y = data[algEnd + 2]
    OBVIOUS
  <2>2. x \in Nat /\ y \in Nat
    BY <2>1, <1>7, <1>11
  <2> QED
    BY <2>1, <2>2, <1>3, <1>4, <1>10
<1>14. ctEnd \in Nat /\ algEnd + 2 <= ctEnd /\ ctEnd - algEnd - 2 = ctLen
  BY <1>10, <1>12, <1>13
<1>15. alg = SubSeq(data, at + 1 + 1, algEnd) /\ ct = SubSeq(data, algEnd + 2 + 1, ctEnd)
  <2>1. algEnd + 2 + (ctEnd - algEnd - 2) = ctEnd
    BY <1>10, <1>14
  <2> QED
    BY <1>2, <1>5, <2>1 DEF Slice
<1>16. alg \in Seq(Byte) /\ Len(alg) = data[at + 1]
  <2>1. PICK i, j, n : i = at + 1 + 1 /\ j = algEnd /\ n = data[at + 1]
    OBVIOUS
  <2>5. i \in Nat /\ j \in Nat /\ n \in Nat
    BY <1>7, <1>9, <1>10, <2>1
  <2>2. \A k \in i..j : data[k] \in Byte
    BY <1>7, <1>8, <1>10, <2>1, <2>5
  <2>3. (IF i <= j THEN j - i + 1 ELSE 0) = n
    BY <1>2, <1>7, <2>1, <2>5
  <2>4. SubSeq(data, i, j) \in Seq(Byte) /\ Len(SubSeq(data, i, j)) = n
    BY <2>2, <2>3, <2>5, SubSeqProperties
  <2> QED
    BY <1>15, <2>1, <2>4
<1>17. ct \in Seq(Byte) /\ Len(ct) = ctLen
  <2>1. PICK i, j \in Nat : i = algEnd + 2 + 1 /\ j = ctEnd
    BY <1>10, <1>14
  <2>2. \A k \in i..j : data[k] \in Byte
    BY <1>6, <1>7, <1>8, <1>10, <1>14, <2>1
  <2>3. (IF i <= j THEN j - i + 1 ELSE 0) = ctLen
    BY <1>10, <1>12, <1>13, <2>1
  <2>4. SubSeq(data, i, j) \in Seq(Byte) /\ Len(SubSeq(data, i, j)) = ctLen
    BY <2>2, <2>3, SubSeqProperties
  <2> QED
    BY <1>15, <2>1, <2>4
<1> DEFINE c == [alg |-> alg, ct |-> ct]
<1>18. c \in Component /\ c.alg = alg /\ c.ct = ct
  BY <1>16, <1>17 DEF Component, Bytes
<1>19. Fits(c)
  <2>1. Len(alg) < Base
    BY <1>7, <1>9, <1>16 DEF Byte
  <2> QED
    BY <2>1, <1>12, <1>17, <1>18 DEF Fits
<1> HIDE DEF c
<1>20. Turn(data, st, algEnd, ctEnd, c)
  BY <1>1, <1>2, <1>3, <1>6, <1>9, <1>11, <1>13, <1>15, <1>16, <1>17, <1>18 DEF Turn
<1>21. ParseComponent(data, st) =
          [ok |-> TRUE, at |-> ctEnd, comps |-> Append(st.comps, c)]
  BY <1>6 DEF c
<1>22. ParseComponent(data, st) \in State
  <2>1. Append(st.comps, c) \in Seq(Component)
    BY <1>7, <1>18, AppendProperties
  <2> QED
    BY <1>14, <1>21, <2>1 DEF State
<1> QED
  BY <1>10, <1>14, <1>18, <1>19, <1>20, <1>21, <1>22

\* A turn of the loop, accepted or refused, leaves what it holds.
LEMMA ComponentParsed ==
  ASSUME NEW data \in Bytes, NEW st \in State
  PROVE  ParseComponent(data, st) \in State
<1>1. Failed \in State
  BY EmptySeq DEF Failed, State
<1> QED
  BY <1>1, ComponentTaken

\* The loop over the components, turn by turn.
Turns(data, at, num) ==
  {f \in [0..num -> State] :
     /\ f[0] = [ok |-> TRUE, at |-> at, comps |-> <<>>]
     /\ \A i \in 1..num : f[i] = ParseComponent(data, f[i - 1])}

\* The loop is its turns, one after the other.
LEMMA ComponentsParsed ==
  ASSUME NEW data \in Bytes, NEW at \in Nat, NEW num \in Nat
  PROVE  \E f \in Turns(data, at, num) : ParseComponents(data, at, num) = f[num]
<1> DEFINE s0 == [ok |-> TRUE, at |-> at, comps |-> <<>>]
           step == [x \in (1..num) \X State |-> ParseComponent(data, x[2])]
           Eq(g) == g = [i \in 0..num |-> IF i = 0 THEN s0 ELSE ParseComponent(data, g[i - 1])]
<1>1. s0 \in State
  BY EmptySeq DEF State
<1>2. step \in [(1..num) \X State -> State]
  BY ComponentParsed
<1>3. ASSUME NEW i \in 1..num, NEW st \in State
      PROVE  step[<<i, st>>] = ParseComponent(data, st)
  OBVIOUS
<1>4. ParseComponents(data, at, num) = (CHOOSE g : Eq(g))[num]
  BY DEF ParseComponents
<1> HIDE DEF s0, step
<1>5. PICK f \in [0..num -> State] :
            f[0] = s0 /\ \A i \in 1..num : f[i] = step[<<i, f[i - 1]>>]
  <2>1. Iterations(num, State, s0, step) # {}
    BY <1>1, <1>2, Recursion
  <2> QED
    BY <2>1 DEF Iterations
<1>6. ASSUME NEW i \in 1..num PROVE f[i] = ParseComponent(data, f[i - 1])
  <2>1. i - 1 \in 0..num
    OBVIOUS
  <2>2. f[i - 1] \in State /\ f[i] = step[<<i, f[i - 1]>>]
    BY <2>1, <1>5
  <2> QED
    BY <2>2, <1>3
<1>7. Eq(f)
  <2>1. ASSUME NEW i \in 0..num
        PROVE  f[i] = IF i = 0 THEN s0 ELSE ParseComponent(data, f[i - 1])
    <3>1. CASE i = 0
      BY <3>1, <1>5
    <3>2. CASE i # 0
      <4>1. i \in 1..num
        BY <3>2
      <4> QED
        BY <3>2, <4>1, <1>6
    <3> QED
      BY <3>1, <3>2
  <2>2. f = [i \in 0..num |-> f[i]]
    OBVIOUS
  <2> QED
    BY <2>1, <2>2
<1>8. PICK g : g = (CHOOSE u : Eq(u)) /\ Eq(g)
  BY <1>7
<1>9. g[0] = s0
  <2>1. 0 \in 0..num
    OBVIOUS
  <2>2. g[0] = IF 0 = 0 THEN s0 ELSE ParseComponent(data, g[0 - 1])
    BY <2>1, <1>8, Zenon
  <2> QED
    BY <2>2
<1>10. ASSUME NEW i \in 1..num PROVE g[i] = ParseComponent(data, g[i - 1])
  <2>1. i \in 0..num /\ i # 0
    OBVIOUS
  <2> QED
    BY <2>1, <1>8
<1> HIDE DEF Eq
<1> DEFINE T == {i \in 0..num : g[i] = f[i]}
<1>11. 0 \in T
  BY <1>5, <1>9
<1>12. ASSUME NEW i \in 1..num, i - 1 \in T PROVE i \in T
  <2>1. g[i - 1] = f[i - 1]
    BY <1>12
  <2>2. g[i] = f[i]
    BY <2>1, <1>6, <1>10
  <2> QED
    BY <2>2
<1> HIDE DEF T
<1>13. num \in T
  <2>1. \A i \in 0..num : i \in T
    BY <1>11, <1>12, InductionTo
  <2> QED
    BY <2>1
<1>14. g[num] = f[num]
  BY <1>13 DEF T
<1>15. f \in Turns(data, at, num)
  BY <1>5, <1>6 DEF Turns, s0
<1> QED
  BY <1>4, <1>8, <1>14, <1>15
-----------------------------------------------------------------------------
\* What the loop of _parse() accepts.

\* What the lemmas on sequences say of bytes.
LEMMA BytesAre ==
  /\ <<>> \in Bytes /\ Len(<<>>) = 0
  /\ \A b \in Bytes : Len(b) \in Nat /\ \A i \in 1..Len(b) : b[i] \in Byte /\ b[i] \in Nat
  /\ \A x \in Byte : <<x>> \in Bytes /\ Len(<<x>>) = 1 /\ <<x>>[1] = x
  /\ \A x, y \in Byte : /\ <<x, y>> \in Bytes /\ Len(<<x, y>>) = 2
                        /\ <<x, y>>[1] = x /\ <<x, y>>[2] = y
                        /\ <<x, y>> = <<x>> \o <<y>>
<1>1. Base \in Nat
  BY BaseAssumption
<1>2. \A b \in Seq(Byte) : Len(b) \in Nat /\ \A i \in 1..Len(b) : b[i] \in Byte
  BY LenProperties, ElementOfSeq
<1>3. \A x \in Byte : x \in Nat
  BY <1>1 DEF Byte
<1>4. <<>> \in Seq(Byte) /\ Len(<<>>) = 0
  BY EmptySeq
<1>5. ASSUME NEW x \in Byte
      PROVE  <<x>> \in Seq(Byte) /\ Len(<<x>>) = 1 /\ <<x>>[1] = x
  OBVIOUS
<1>6. ASSUME NEW x \in Byte, NEW y \in Byte
      PROVE  /\ <<x, y>> \in Seq(Byte) /\ Len(<<x, y>>) = 2
             /\ <<x, y>>[1] = x /\ <<x, y>>[2] = y
             /\ <<x, y>> = <<x>> \o <<y>>
  <2>1. PICK u, v, w : u = <<x, y>> /\ v = <<x>> /\ w = <<y>>
    OBVIOUS
  <2>2. u \in Seq(Byte) /\ Len(u) = 2 /\ u[1] = x /\ u[2] = y
    BY <2>1
  <2>3. /\ v \in Seq(Byte) /\ Len(v) = 1 /\ v[1] = x
        /\ w \in Seq(Byte) /\ Len(w) = 1 /\ w[1] = y
    BY <2>1
  <2>4. /\ v \o w \in Seq(Byte) /\ Len(v \o w) = 1 + 1
        /\ \A i \in 1..(1 + 1) : (v \o w)[i] = IF i <= 1 THEN v[i] ELSE w[i - 1]
    BY <2>3, ConcatProperties
  <2>5. (v \o w)[1] = x /\ (v \o w)[2] = y
    BY <2>3, <2>4
  <2>6. \A i \in 1..2 : (v \o w)[i] = u[i]
    <3>1. \A i \in 1..2 : i = 1 \/ i = 2
      OBVIOUS
    <3> QED
      BY <2>2, <2>5, <3>1
  <2>7. v \o w = u
    BY <2>2, <2>4, <2>6, SeqEqual
  <2> QED
    BY <2>1, <2>2, <2>7
<1> QED
  BY <1>2, <1>3, <1>4, <1>5, <1>6 DEF Bytes

\* Bytes put end to end.
LEMMA Joined ==
  ASSUME NEW a \in Bytes, NEW b \in Bytes
  PROVE  /\ a \o b \in Bytes /\ Len(a \o b) = Len(a) + Len(b)
         /\ \A i \in 1..Len(a) : (a \o b)[i] = a[i]
         /\ \A i \in 1..Len(b) : (a \o b)[Len(a) + i] = b[i]
<1>1. /\ a \o b \in Bytes /\ Len(a \o b) = Len(a) + Len(b)
      /\ \A i \in 1..(Len(a) + Len(b)) :
            (a \o b)[i] = IF i <= Len(a) THEN a[i] ELSE b[i - Len(a)]
  BY ConcatProperties DEF Bytes
<1>2. Len(a) \in Nat /\ Len(b) \in Nat
  BY BytesAre
<1>3. ASSUME NEW i \in 1..Len(a) PROVE (a \o b)[i] = a[i]
  <2>1. i \in 1..(Len(a) + Len(b)) /\ i <= Len(a)
    BY <1>2
  <2> QED
    BY <1>1, <2>1
<1>4. ASSUME NEW i \in 1..Len(b) PROVE (a \o b)[Len(a) + i] = b[i]
  <2>1. PICK k : k = Len(a) + i
    OBVIOUS
  <2>2. k \in 1..(Len(a) + Len(b)) /\ ~(k <= Len(a)) /\ k - Len(a) = i
    BY <1>2, <2>1
  <2> QED
    BY <1>1, <2>1, <2>2
<1> QED
  BY <1>1, <1>3, <1>4

\* In which order they are put together makes no difference.
LEMMA Associative ==
  ASSUME NEW a \in Bytes, NEW b \in Bytes, NEW c \in Bytes
  PROVE  (a \o b) \o c = a \o (b \o c)
BY ConcatAssociative DEF Bytes

\* A prefix that goes on to byte e.
Grown(a, d, k, e) ==
  /\ SubSeq(d, k, e) \in Bytes
  /\ Len(SubSeq(d, k, e)) = e - Len(a)
  /\ a \o SubSeq(d, k, e) \in Bytes
  /\ Len(a \o SubSeq(d, k, e)) = e
  /\ IsPrefix(a \o SubSeq(d, k, e), d)

\* Grow, of bytes.
LEMMA GrowBytes ==
  ASSUME NEW a \in Bytes, NEW d \in Bytes, IsPrefix(a, d),
         NEW k, k = Len(a) + 1, NEW e \in Nat, Len(a) <= e, e <= Len(d)
  PROVE  Grown(a, d, k, e)
<1>1. Len(a) \in Nat /\ e \in Len(a)..Len(d)
  BY BytesAre
<1> QED
  BY <1>1, Grow DEF Grown, Bytes

\* GrowOne, of bytes.
LEMMA GrowByte ==
  ASSUME NEW a \in Bytes, NEW d \in Bytes, IsPrefix(a, d),
         NEW k, k = Len(a), k < Len(d)
  PROVE  /\ d[k + 1] \in Byte
         /\ a \o <<d[k + 1]>> \in Bytes
         /\ Len(a \o <<d[k + 1]>>) = k + 1
         /\ IsPrefix(a \o <<d[k + 1]>>, d)
BY GrowOne DEF Bytes

\* A prefix of two parts, a and then b.
Chopped(a, b, d) ==
  /\ IsPrefix(a, d)
  /\ Len(a) + Len(b) <= Len(d)
  /\ SubSeq(d, Len(a) + 1, Len(a) + Len(b)) = b
  /\ \A i \in 1..Len(b) : d[Len(a) + i] = b[i]

\* Chop, of bytes.
LEMMA ChopBytes ==
  ASSUME NEW a \in Bytes, NEW b \in Bytes, NEW d \in Bytes, IsPrefix(a \o b, d)
  PROVE  Chopped(a, b, d)
BY Chop DEF Chopped, Bytes

\* What begins with sequences put end to end begins with the first of them.
LEMMA Growing ==
  ASSUME NEW p \in Bytes, NEW data \in Bytes, NEW n \in Nat, NEW ss,
         NEW g \in [0..n -> Bytes],
         \A i \in 1..n : ss[i] \in Bytes /\ g[i] = g[i - 1] \o ss[i],
         IsPrefix(p \o g[n], data)
  PROVE  \A i \in 0..n : IsPrefix(p \o g[i], data)
<1> DEFINE T == {k \in 0..n : IsPrefix(p \o g[n - k], data)}
<1>1. 0 \in T
  <2>1. n - 0 = n /\ 0 \in 0..n
    OBVIOUS
  <2> QED
    BY <2>1
<1>2. ASSUME NEW k \in 1..n, k - 1 \in T PROVE k \in T
  <2>1. PICK i \in 1..n, j \in 0..n : i = n - (k - 1) /\ j = n - k /\ j = i - 1
    <3>1. n - (k - 1) \in 1..n /\ n - k \in 0..n /\ n - k = n - (k - 1) - 1
      OBVIOUS
    <3> QED
      BY <3>1
  <2>2. IsPrefix(p \o g[i], data)
    BY <1>2, <2>1
  <2>3. g[j] \in Bytes /\ ss[i] \in Bytes /\ g[i] = g[j] \o ss[i]
    BY <2>1
  <2>4. PICK u : u = p \o g[j]
    OBVIOUS
  <2>5. u \in Bytes /\ u \o ss[i] = p \o g[i]
    <3>1. u \in Bytes
      BY <2>3, <2>4, Joined
    <3>2. (p \o g[j]) \o ss[i] = p \o (g[j] \o ss[i])
      BY <2>3, Associative
    <3> QED
      BY <2>3, <2>4, <3>1, <3>2
  <2>6. IsPrefix(u, data)
    BY <2>2, <2>3, <2>5, ChopBytes DEF Chopped
  <2>7. IsPrefix(p \o g[n - k], data) /\ k \in 0..n
    BY <2>1, <2>4, <2>6
  <2> QED
    BY <2>7
<1> HIDE DEF T
<1>3. \A k \in 0..n : k \in T
  BY <1>1, <1>2, InductionTo
<1>4. ASSUME NEW i \in 0..n PROVE IsPrefix(p \o g[i], data)
  <2>1. n - i \in 0..n /\ n - (n - i) = i
    OBVIOUS
  <2>2. n - i \in T
    BY <1>3, <2>1
  <2> QED
    BY <2>1, <2>2 DEF T
<1> QED
  BY <1>4

\* A component is written in four pieces: a length of one byte and the
\* algorithm, a length of two bytes and the ciphertext.
LEMMA FieldPieces ==
  ASSUME NEW a \in Bytes, NEW c, Fits(c)
  PROVE  /\ a \o Field(c) =
              (((a \o <<Len(c.alg)>>) \o c.alg)
                 \o <<Len(c.ct) \div Base, Len(c.ct) % Base>>) \o c.ct
         /\ a \o <<Len(c.alg)>> \in Bytes
         /\ (a \o <<Len(c.alg)>>) \o c.alg \in Bytes
         /\ ((a \o <<Len(c.alg)>>) \o c.alg)
               \o <<Len(c.ct) \div Base, Len(c.ct) % Base>> \in Bytes
<1>1. PICK l, m : l = <<Len(c.alg)>> /\ m = <<Len(c.ct) \div Base, Len(c.ct) % Base>>
  OBVIOUS
<1>2. l \in Bytes /\ m \in Bytes /\ c.alg \in Bytes /\ c.ct \in Bytes
  BY <1>1, FieldType DEF Fits, Component
<1>3. Field(c) = (l \o c.alg) \o (m \o c.ct)
  BY <1>1 DEF Field, Short, Long
<1>4. PICK lalg, mct, al : lalg = l \o c.alg /\ mct = m \o c.ct /\ al = a \o l
  OBVIOUS
<1>5. lalg \in Bytes /\ mct \in Bytes /\ al \in Bytes /\ al \o c.alg \in Bytes
  BY <1>2, <1>4, Joined
<1>6. (al \o c.alg) \o m \in Bytes
  BY <1>2, <1>5, Joined
<1>7. a \o (lalg \o mct) = (a \o lalg) \o mct
  BY <1>5, Associative
<1>8. a \o lalg = al \o c.alg
  BY <1>2, <1>4, Associative
<1>9. (al \o c.alg) \o mct = ((al \o c.alg) \o m) \o c.ct
  <2>1. PICK u : u = al \o c.alg
    OBVIOUS
  <2>3. u \in Bytes
    BY <1>5, <2>1
  <2>2. (u \o m) \o c.ct = u \o (m \o c.ct)
    BY <1>2, <2>3, Associative
  <2> QED
    BY <1>4, <2>1, <2>2
<1> QED
  BY <1>1, <1>3, <1>4, <1>5, <1>6, <1>7, <1>8, <1>9

\* What a turn has read so far is written as just the bytes it read.
Taken(data, p, st) ==
  /\ st \in State
  /\ \A j \in 1..Len(st.comps) : Fits(st.comps[j])
  /\ IsPrefix(p \o Body(st.comps), data)
  /\ Len(p \o Body(st.comps)) = st.at

\* What a turn accepts is what to_bytes() writes of the component it takes.
LEMMA TurnSound ==
  ASSUME NEW data \in Bytes, NEW p \in Bytes, NEW st \in State, Taken(data, p, st),
         ParseComponent(data, st).ok
  PROVE  /\ st.ok
         /\ Taken(data, p, ParseComponent(data, st))
         /\ Len(ParseComponent(data, st).comps) = Len(st.comps) + 1
<1>1. ParseComponent(data, st) # Failed
  BY DEF Failed
<1>2. PICK algEnd \in Nat, ctEnd \in Nat, c \in Component :
            /\ Turn(data, st, algEnd, ctEnd, c)
            /\ Fits(c)
            /\ ParseComponent(data, st) =
                  [ok |-> TRUE, at |-> ctEnd, comps |-> Append(st.comps, c)]
            /\ ParseComponent(data, st) \in State
  BY <1>1, ComponentTaken
<1>3. PICK body : body = Body(st.comps)
  OBVIOUS
<1>4. PICK a : a = p \o body
  OBVIOUS
<1>5. st.comps \in Seq(Component) /\ st.at \in Nat
  BY DEF State
<1>6. body \in Bytes
  BY <1>3, <1>5, BodyType DEF Taken
<1>7. a \in Bytes /\ IsPrefix(a, data) /\ Len(a) = st.at
  BY <1>3, <1>4, <1>5, <1>6, Joined DEF Taken
<1>8. PICK l, q, r : l = data[st.at + 1] /\ q = data[algEnd + 1] /\ r = data[algEnd + 2]
  OBVIOUS
<1>9. PICK at \in Nat : at = st.at
  BY <1>5
<1>10. /\ at < Len(data) /\ l \in Byte /\ algEnd = at + 1 + l /\ algEnd + 2 <= Len(data)
       /\ q \in Byte /\ r \in Byte /\ ctEnd = algEnd + 2 + (q * Base + r)
       /\ ctEnd <= Len(data)
       /\ c.alg = SubSeq(data, at + 1 + 1, algEnd) /\ Len(c.alg) = l
       /\ c.ct = SubSeq(data, algEnd + 2 + 1, ctEnd) /\ Len(c.ct) = q * Base + r
  BY <1>2, <1>8, <1>9 DEF Turn
<1>11. Len(data) \in Nat /\ l \in Nat
  BY <1>10, BytesAre, BaseAssumption DEF Byte
<1>30. PICK n \in Nat : n = q * Base + r
  BY <1>10, Join
<1>12. PICK a1 : a1 = a \o <<l>>
  OBVIOUS
<1>13. a1 \in Bytes /\ Len(a1) = at + 1 /\ IsPrefix(a1, data)
  <2>1. at = Len(a) /\ at < Len(data) /\ l = data[at + 1]
    BY <1>7, <1>8, <1>9, <1>10
  <2> QED
    BY <1>7, <1>12, <2>1, GrowByte
<1>14. PICK a2 : a2 = a1 \o c.alg
  OBVIOUS
<1>15. a2 \in Bytes /\ Len(a2) = algEnd /\ IsPrefix(a2, data)
  <2>1. PICK k : k = at + 1 + 1
    OBVIOUS
  <2>2. k = Len(a1) + 1 /\ Len(a1) <= algEnd /\ algEnd <= Len(data)
    BY <1>10, <1>11, <1>13, <2>1
  <2>3. a2 = a1 \o SubSeq(data, k, algEnd)
    BY <1>10, <1>14, <2>1
  <2> QED
    <3>1. Grown(a1, data, k, algEnd)
      BY <1>13, <2>2, GrowBytes
    <3> QED
      BY <2>3, <3>1 DEF Grown
<1>16. PICK a3 : a3 = a2 \o <<q>>
  OBVIOUS
<1>17. a3 \in Bytes /\ Len(a3) = algEnd + 1 /\ IsPrefix(a3, data)
  <2>1. algEnd < Len(data)
    BY <1>10, <1>11
  <2> QED
    <3>1. /\ a2 \o <<data[algEnd + 1]>> \in Bytes
          /\ Len(a2 \o <<data[algEnd + 1]>>) = algEnd + 1
          /\ IsPrefix(a2 \o <<data[algEnd + 1]>>, data)
      BY <1>15, <2>1, GrowByte
    <3> QED
      BY <1>8, <1>16, <3>1
<1>18. PICK a4 : a4 = a3 \o <<r>>
  OBVIOUS
<1>19. a4 \in Bytes /\ Len(a4) = algEnd + 2 /\ IsPrefix(a4, data)
  <2>1. PICK k : k = algEnd + 1
    OBVIOUS
  <2>2. k = Len(a3) /\ k < Len(data) /\ k + 1 = algEnd + 2
    BY <1>10, <1>11, <1>17, <2>1
  <2>3. r = data[k + 1]
    BY <1>8, <2>2
  <2> QED
    BY <1>17, <2>3, <1>18, <2>2, GrowByte
<1>20. PICK a5 : a5 = a4 \o c.ct
  OBVIOUS
<1>21. a5 \in Bytes /\ Len(a5) = ctEnd /\ IsPrefix(a5, data)
  <2>1. PICK k : k = algEnd + 2 + 1
    OBVIOUS
  <2>2. k = Len(a4) + 1 /\ Len(a4) <= ctEnd /\ ctEnd <= Len(data)
    BY <1>10, <1>11, <1>30, <1>19, <2>1
  <2>3. a5 = a4 \o SubSeq(data, k, ctEnd)
    BY <1>10, <1>20, <2>1
  <2> QED
    <3>1. Grown(a4, data, k, ctEnd)
      BY <1>19, <2>2, GrowBytes
    <3> QED
      BY <2>3, <3>1 DEF Grown
<1>22. a4 = a2 \o <<q, r>>
  <2>1. <<q>> \in Bytes /\ <<r>> \in Bytes /\ <<q>> \o <<r>> = <<q, r>>
    BY <1>10, BytesAre
  <2>2. (a2 \o <<q>>) \o <<r>> = a2 \o (<<q>> \o <<r>>)
    BY <1>15, <2>1, Associative
  <2> QED
    BY <1>16, <1>18, <2>1, <2>2
<1>23. Len(c.ct) \div Base = q /\ Len(c.ct) % Base = r
  BY <1>10, Join
<1>24. a5 = a \o Field(c)
  BY <1>2, <1>7, <1>10, <1>12, <1>14, <1>20, <1>22, <1>23, FieldPieces
<1>25. p \o Body(Append(st.comps, c)) = a5
  <2>1. Body(Append(st.comps, c)) = body \o Field(c)
    BY <1>2, <1>3, <1>5, BodyAppend DEF Taken
  <2>2. Field(c) \in Bytes
    BY <1>2, FieldType
  <2> QED
    BY <1>4, <1>6, <1>24, <2>1, <2>2, Associative
<1>26. PICK new : new = ParseComponent(data, st)
  OBVIOUS
<1>27. new \in State /\ new.at = ctEnd /\ new.comps = Append(st.comps, c)
  BY <1>2, <1>26
<1>28. /\ Len(Append(st.comps, c)) = Len(st.comps) + 1
       /\ \A j \in 1..(Len(st.comps) + 1) : Fits(Append(st.comps, c)[j])
  <2>1. /\ Len(Append(st.comps, c)) = Len(st.comps) + 1
        /\ \A i \in 1..Len(st.comps) : Append(st.comps, c)[i] = st.comps[i]
        /\ Append(st.comps, c)[Len(st.comps) + 1] = c
    BY <1>5, AppendProperties
  <2>2. \A j \in 1..Len(st.comps) : Fits(st.comps[j])
    BY DEF Taken
  <2>3. \A j \in 1..(Len(st.comps) + 1) : j \in 1..Len(st.comps) \/ j = Len(st.comps) + 1
    BY <1>5
  <2> QED
    BY <1>2, <2>1, <2>2, <2>3
<1>29. Taken(data, p, new)
  BY <1>21, <1>25, <1>27, <1>28 DEF Taken
<1> QED
  BY <1>2, <1>26, <1>27, <1>28, <1>29 DEF Turn

\* What the loop accepts is what to_bytes() writes of the components it takes.
LEMMA ComponentsSound ==
  ASSUME NEW data \in Bytes, NEW p \in Bytes, IsPrefix(p, data), NEW num \in Nat,
         ParseComponents(data, Len(p), num).ok
  PROVE  /\ Taken(data, p, ParseComponents(data, Len(p), num))
         /\ Len(ParseComponents(data, Len(p), num).comps) = num
<1>1. Len(p) \in Nat
  BY BytesAre
<1>2. PICK f \in Turns(data, Len(p), num) : ParseComponents(data, Len(p), num) = f[num]
  BY <1>1, ComponentsParsed
<1>3. /\ f \in [0..num -> State]
      /\ f[0] = [ok |-> TRUE, at |-> Len(p), comps |-> <<>>]
      /\ \A i \in 1..num : f[i] = ParseComponent(data, f[i - 1])
  BY <1>2 DEF Turns
<1> DEFINE T == {i \in 0..num : f[i].ok => Taken(data, p, f[i]) /\ Len(f[i].comps) = i}
<1>4. 0 \in T
  <2>1. f[0] \in State /\ f[0].comps = <<>> /\ f[0].at = Len(p)
    <3>1. 0 \in 0..num /\ f \in [0..num -> State]
      BY <1>3
    <3>2. f[0] \in State
      BY <3>1
    <3> QED
      BY <1>3, <3>2
  <2>2. Body(<<>>) = <<>>
    <3>1. Len(Fields(<<>>)) = 0 /\ Fields(<<>>) = <<>>
      BY DEF Fields
    <3> QED
      BY <3>1 DEF Body, FlattenSeq
  <2>3. p \o Body(<<>>) = p
    BY <2>2, ConcatEmptySeq DEF Bytes
  <2>4. Taken(data, p, f[0]) /\ Len(f[0].comps) = 0
    <3>1. Len(<<>>) = 0 /\ IsPrefix(p, data)
      BY BytesAre
    <3>2. \A j \in 1..Len(<<>>) : Fits(<<>>[j])
      BY <3>1
    <3> QED
      BY <2>1, <2>3, <3>1, <3>2 DEF Taken
  <2> QED
    BY <2>4
<1>5. ASSUME NEW i \in 1..num, i - 1 \in T PROVE i \in T
  <2>1. i - 1 \in 0..num /\ f[i - 1] \in State
    <3>1. i - 1 \in 0..num /\ f \in [0..num -> State]
      BY <1>3
    <3> QED
      BY <3>1
  <2>2. f[i] = ParseComponent(data, f[i - 1])
    BY <1>3, Zenon
  <2>3. ASSUME f[i].ok PROVE Taken(data, p, f[i]) /\ Len(f[i].comps) = i
    <3>1. f[i - 1].ok
      <4>1. ParseComponent(data, f[i - 1]) # Failed
        BY <2>2, <2>3 DEF Failed
      <4> QED
        BY <4>1 DEF ParseComponent
    <3>2. Taken(data, p, f[i - 1]) /\ Len(f[i - 1].comps) = i - 1
      BY <1>5, <3>1
    <3>3. Taken(data, p, f[i]) /\ Len(f[i].comps) = Len(f[i - 1].comps) + 1
      BY <2>1, <2>2, <2>3, <3>2, TurnSound
    <3> QED
      BY <3>2, <3>3
  <2> QED
    BY <2>3
<1> HIDE DEF T
<1>6. num \in T
  <2>1. \A i \in 0..num : i \in T
    BY <1>4, <1>5, InductionTo
  <2> QED
    BY <2>1
<1> QED
  BY <1>2, <1>6 DEF T
-----------------------------------------------------------------------------
\* What the loop of _parse() takes.

\* Components that the parser accepts.
Acceptable(cs) ==
  /\ cs \in Seq(Component)
  /\ \A i \in 1..Len(cs) : Fits(cs[i]) /\ cs[i].alg # <<>> /\ Decodes(cs[i].alg)
  /\ \A i, j \in 1..Len(cs) : cs[i].alg = cs[j].alg => i = j

\* Where the ciphertext of a component begins and ends.
LEMMA Ends ==
  ASSUME NEW e \in Nat, NEW n \in Nat, NEW x, x = e + 2 + n
  PROVE  /\ x \in Nat /\ x = (e + 2) + n
         /\ e + 2 + (x - e - 2) = (e + 2) + n
         /\ \A len \in Nat : (e + 2) + n <= len => e <= len /\ e + 2 <= len /\ x <= len
  OBVIOUS

\* A turn takes the component that to_bytes() has written there.
LEMMA TurnComplete ==
  ASSUME NEW data \in Bytes, NEW a \in Bytes, NEW c, Fits(c), c.alg # <<>>, Decodes(c.alg),
         IsPrefix(a \o Field(c), data),
         NEW st \in State, st.ok, st.at = Len(a),
         \A i \in 1..Len(st.comps) : st.comps[i].alg # c.alg
  PROVE  /\ ParseComponent(data, st).ok
         /\ ParseComponent(data, st).at = Len(a \o Field(c))
         /\ ParseComponent(data, st).comps = Append(st.comps, c)
<1>1. PICK l, q, r, m : /\ l = Len(c.alg) /\ q = Len(c.ct) \div Base /\ r = Len(c.ct) % Base
                        /\ m = <<q, r>>
  OBVIOUS
<1>2. /\ c.alg \in Bytes /\ c.ct \in Bytes /\ l \in Byte /\ Len(c.ct) \in Nat
      /\ <<l>> \in Bytes /\ m \in Bytes
  <2>1. c.alg \in Bytes /\ c.ct \in Bytes
    BY DEF Fits, Component
  <2>2. Len(c.alg) \in Nat /\ Len(c.ct) \in Nat /\ Len(c.alg) < Base /\ Base \in Nat
    BY <2>1, BytesAre, BaseAssumption DEF Fits
  <2>3. l \in Byte
    BY <1>1, <2>2 DEF Byte
  <2>4. <<l>> \in Bytes /\ m \in Bytes
    BY <1>1, FieldType
  <2> QED
    BY <2>1, <2>2, <2>3, <2>4
<1>3. q \in Byte /\ r \in Byte /\ q * Base + r = Len(c.ct)
  BY <1>1, <1>2, Split DEF Fits
<1>4. PICK a1, a2, a3 : a1 = a \o <<l>> /\ a2 = a1 \o c.alg /\ a3 = a2 \o m
  OBVIOUS
<1>5. /\ a \o Field(c) = a3 \o c.ct
      /\ a1 \in Bytes /\ a2 \in Bytes /\ a3 \in Bytes
  BY <1>1, <1>4, FieldPieces
<1>6. Len(a1) = Len(a) + 1
  BY <1>2, <1>4, Joined, BytesAre
<1>7. Len(a2) = Len(a1) + l
  BY <1>1, <1>2, <1>4, <1>5, Joined
<1>8. Len(m) = 2 /\ m[1] = q /\ m[2] = r
  BY <1>1, <1>3, BytesAre
<1>9. Len(a3) = Len(a2) + 2
  <2>1. Len(a2 \o m) = Len(a2) + Len(m)
    BY <1>2, <1>5, Joined
  <2> QED
    BY <1>4, <1>8, <2>1
<1>10. PICK at \in Nat : at = Len(a)
  BY BytesAre
<1>11. Len(a3 \o c.ct) = Len(a3) + Len(c.ct)
  BY <1>2, <1>5, Joined
<1>12. /\ IsPrefix(a3, data) /\ Len(a3) + Len(c.ct) <= Len(data)
       /\ SubSeq(data, Len(a3) + 1, Len(a3) + Len(c.ct)) = c.ct
  <2>1. Chopped(a3, c.ct, data)
    BY <1>2, <1>5, ChopBytes
  <2> QED
    BY <2>1 DEF Chopped
<1>13. /\ IsPrefix(a2, data) /\ Len(a2) + 2 <= Len(data)
       /\ data[Len(a2) + 1] = q /\ data[Len(a2) + 2] = r
  <2>1. IsPrefix(a2 \o m, data)
    BY <1>4, <1>12
  <2>2. /\ IsPrefix(a2, data) /\ Len(a2) + Len(m) <= Len(data)
        /\ \A i \in 1..Len(m) : data[Len(a2) + i] = m[i]
    <3>1. Chopped(a2, m, data)
      BY <1>2, <1>5, <2>1, ChopBytes
    <3> QED
      BY <3>1 DEF Chopped
  <2>3. 1 \in 1..Len(m) /\ 2 \in 1..Len(m)
    BY <1>8
  <2> QED
    BY <1>8, <2>2, <2>3
<1>14. IsPrefix(a1, data) /\ SubSeq(data, Len(a1) + 1, Len(a1) + l) = c.alg
  <2>1. IsPrefix(a1 \o c.alg, data)
    BY <1>4, <1>13
  <2> QED
    <3>1. Chopped(a1, c.alg, data)
      BY <1>2, <1>5, <2>1, ChopBytes
    <3> QED
      BY <1>1, <3>1 DEF Chopped
<1>15. data[at + 1] = l /\ at + 1 <= Len(data)
  <2>1. IsPrefix(a \o <<l>>, data) /\ Len(<<l>>) = 1 /\ <<l>>[1] = l /\ 1 \in 1..1
    BY <1>2, <1>4, <1>14, BytesAre
  <2>2. /\ Len(a) + Len(<<l>>) <= Len(data)
        /\ \A i \in 1..Len(<<l>>) : data[Len(a) + i] = <<l>>[i]
    <3>1. Chopped(a, <<l>>, data)
      BY <1>2, <2>1, ChopBytes
    <3> QED
      BY <3>1 DEF Chopped
  <2>3. data[Len(a) + 1] = <<l>>[1]
    BY <2>1, <2>2
  <2> QED
    BY <1>10, <2>1, <2>2, <2>3
<1>16. PICK algEnd : algEnd = st.at + 1 + data[st.at + 1]
  OBVIOUS
<1>17. algEnd = at + 1 + l /\ algEnd = Len(a2) /\ Len(a1) + l = algEnd
  BY <1>6, <1>7, <1>10, <1>15, <1>16
<1>18. l \in Nat /\ algEnd \in Nat /\ Len(data) \in Nat
  BY <1>2, <1>5, <1>17, BytesAre
<1>19. PICK alg : alg = Slice(data, st.at + 1, data[st.at + 1])
  OBVIOUS
<1>20. alg = c.alg
  <2>1. alg = SubSeq(data, at + 1 + 1, at + 1 + l)
    BY <1>10, <1>15, <1>19 DEF Slice
  <2>2. Len(a1) + 1 = at + 1 + 1 /\ Len(a1) + l = at + 1 + l
    BY <1>6, <1>10
  <2> QED
    BY <1>14, <2>1, <2>2
<1>21. PICK ctEnd : ctEnd = algEnd + 2 + data[algEnd + 1] * Base + data[algEnd + 2]
  OBVIOUS
<1>22. ctEnd = algEnd + 2 + Len(c.ct)
  <2>1. PICK x : x = q * Base
    OBVIOUS
  <2>2. x \in Nat /\ r \in Nat /\ x + r = Len(c.ct)
    BY <1>3, <2>1, BaseAssumption DEF Byte
  <2>3. ctEnd = algEnd + 2 + x + r
    BY <1>13, <1>17, <1>21, <2>1
  <2> QED
    <3>1. PICK e, x2, r2 \in Nat : e = algEnd /\ x2 = x /\ r2 = r
      BY <1>18, <2>2
    <3>2. e + 2 + x2 + r2 = e + 2 + (x2 + r2)
      OBVIOUS
    <3> QED
      BY <2>2, <2>3, <3>1, <3>2
<1>23. PICK ct : ct = Slice(data, algEnd + 2, ctEnd - algEnd - 2)
  OBVIOUS
<1>24. ct = c.ct
  <2>1. /\ algEnd + 2 + (ctEnd - algEnd - 2) = Len(a3) + Len(c.ct)
        /\ algEnd + 2 + 1 = Len(a3) + 1
    <3>1. PICK e, n \in Nat : e = algEnd /\ n = Len(c.ct)
      BY <1>2, <1>18
    <3>2. ctEnd = e + 2 + n /\ Len(a3) = e + 2
      BY <1>9, <1>17, <1>22, <3>1
    <3>3. e + 2 + (ctEnd - e - 2) = (e + 2) + n
      BY <3>2, Ends
    <3>4. e + 2 + (ctEnd - e - 2) = Len(a3) + n /\ e + 2 + 1 = Len(a3) + 1
      BY <3>2, <3>3, Zenon
    <3> QED
      BY <3>1, <3>4, Zenon
  <2> QED
    BY <1>12, <1>23, <2>1 DEF Slice
<1>25. c = [alg |-> alg, ct |-> ct]
  BY <1>20, <1>24 DEF Fits, Component
<1>26. /\ st.at < Len(data) /\ algEnd <= Len(data) /\ algEnd + 2 <= Len(data)
       /\ ctEnd <= Len(data) /\ ctEnd = Len(a \o Field(c))
  <2>1. PICK e, n, len \in Nat : e = algEnd /\ n = Len(c.ct) /\ len = Len(data)
    BY <1>2, <1>18
  <2>2. ctEnd = e + 2 + n /\ Len(a3) = e + 2 /\ Len(a3) + n <= len
    BY <1>9, <1>12, <1>17, <1>22, <2>1
  <2>3. ctEnd = Len(a \o Field(c))
    BY <1>5, <1>11, <2>1, <2>2
  <2>4. st.at < Len(data)
    BY <1>10, <1>15, <1>18
  <2>5. e <= len /\ e + 2 <= len /\ ctEnd <= len
    <3>1. (e + 2) + n <= len
      BY <2>2
    <3> QED
      BY <2>2, <3>1, Ends
  <2> QED
    BY <2>1, <2>3, <2>4, <2>5, Zenon
<1>27. /\ Decodes(alg) /\ alg # <<>>
       /\ \A i \in 1..Len(st.comps) : st.comps[i].alg # alg
  BY <1>20
<1>28. ParseComponent(data, st) =
          [ok |-> TRUE, at |-> ctEnd, comps |-> Append(st.comps, [alg |-> alg, ct |-> ct])]
  BY <1>16, <1>19, <1>21, <1>23, <1>26, <1>27 DEF ParseComponent
<1> QED
  BY <1>25, <1>26, <1>28

\* The loop takes the components that to_bytes() has written.
LEMMA ComponentsComplete ==
  ASSUME NEW data \in Bytes, NEW p \in Bytes, NEW cs, Acceptable(cs),
         IsPrefix(p \o Body(cs), data)
  PROVE  /\ ParseComponents(data, Len(p), Len(cs)).ok
         /\ ParseComponents(data, Len(p), Len(cs)).at = Len(p \o Body(cs))
         /\ ParseComponents(data, Len(p), Len(cs)).comps = cs
<1>1. PICK n \in Nat : n = Len(cs)
  BY DEF Acceptable
<1>2. cs \in Seq(Component) /\ \A i \in 1..n : Fits(cs[i])
  BY <1>1 DEF Acceptable
<1>3. Fields(cs) \in Seq(Bytes) /\ Len(Fields(cs)) = n
  BY <1>1, <1>2, BodyType
<1>4. PICK g \in [0..n -> Bytes] :
            /\ g[0] = <<>>
            /\ \A i \in 1..n : g[i] = g[i - 1] \o Fields(cs)[i]
            /\ Body(cs) = g[n]
  BY <1>3, Flattened DEF Bytes, Body
<1>5. \A i \in 1..n : Fields(cs)[i] = Field(cs[i])
  BY <1>1 DEF Fields
<1>6. \A i \in 0..n : g[i] \in Bytes
  OBVIOUS
<1>7. ASSUME NEW i \in 1..n
      PROVE  /\ i - 1 \in 0..n /\ i \in 0..n
             /\ g[i - 1] \in Bytes /\ Field(cs[i]) \in Bytes
             /\ p \o g[i - 1] \in Bytes
             /\ p \o g[i] = (p \o g[i - 1]) \o Field(cs[i])
  <2>1. i - 1 \in 0..n /\ i \in 0..n
    OBVIOUS
  <2>2. g[i - 1] \in Bytes /\ Field(cs[i]) \in Bytes
    BY <1>2, <1>6, <2>1, FieldType
  <2>3. g[i] = g[i - 1] \o Field(cs[i])
    BY <1>4, <1>5
  <2>4. p \o g[i - 1] \in Bytes
    BY <2>2, Joined
  <2>5. (p \o g[i - 1]) \o Field(cs[i]) = p \o (g[i - 1] \o Field(cs[i]))
    BY <2>2, Associative
  <2> QED
    BY <2>1, <2>2, <2>3, <2>4, <2>5
<1>8. \A i \in 0..n : IsPrefix(p \o g[i], data)
  <2>1. IsPrefix(p \o g[n], data)
    BY <1>4
  <2>2. \A i \in 1..n : Field(cs[i]) \in Bytes /\ g[i] = g[i - 1] \o Field(cs[i])
    BY <1>4, <1>5, <1>7
  <2>3. PICK ss : ss = Fields(cs)
    OBVIOUS
  <2>4. \A i \in 1..n : ss[i] \in Bytes /\ g[i] = g[i - 1] \o ss[i]
    BY <1>5, <2>2, <2>3
  <2> QED
    BY <2>1, <2>4, Growing
<1>9. Len(p) \in Nat
  BY BytesAre
<1>10. PICK f \in Turns(data, Len(p), n) : ParseComponents(data, Len(p), n) = f[n]
  BY <1>9, ComponentsParsed
<1>11. /\ f \in [0..n -> State]
       /\ f[0] = [ok |-> TRUE, at |-> Len(p), comps |-> <<>>]
       /\ \A i \in 1..n : f[i] = ParseComponent(data, f[i - 1])
  BY <1>10 DEF Turns
<1> DEFINE T == {i \in 0..n : /\ f[i].ok
                              /\ f[i].at = Len(p \o g[i])
                              /\ f[i].comps = SubSeq(cs, 1, i)}
<1>12. 0 \in T
  <2>1. p \o g[0] = p
    BY <1>4, ConcatEmptySeq DEF Bytes
  <2>2. SubSeq(cs, 1, 0) = <<>>
    BY SubSeqEmpty
  <2>3. f[0].ok /\ f[0].at = Len(p) /\ f[0].comps = <<>>
    BY <1>11
  <2> QED
    <3>1. f[0].at = Len(p \o g[0]) /\ f[0].comps = SubSeq(cs, 1, 0) /\ 0 \in 0..n
      BY <2>1, <2>2, <2>3
    <3> QED
      BY <2>3, <3>1
<1>13. ASSUME NEW i \in 1..n, i - 1 \in T PROVE i \in T
  <2>1. PICK j \in 0..n : j = i - 1
    OBVIOUS
  <2>2. PICK st : st = f[j]
    OBVIOUS
  <2>3. st \in State /\ st.ok /\ st.at = Len(p \o g[j]) /\ st.comps = SubSeq(cs, 1, j)
    BY <1>11, <1>13, <2>1, <2>2
  <2>4. f[i] = ParseComponent(data, st)
    BY <1>11, <2>1, <2>2
  <2>5. PICK a, c : a = p \o g[j] /\ c = cs[i]
    OBVIOUS
  <2>6. a \in Bytes /\ p \o g[i] = a \o Field(c)
    BY <1>7, <2>1, <2>5
  <2>7. IsPrefix(a \o Field(c), data)
    <3>1. i \in 0..n
      OBVIOUS
    <3>2. IsPrefix(p \o g[i], data)
      BY <1>8, <3>1
    <3> QED
      BY <2>6, <3>2
  <2>8. Fits(c) /\ c.alg # <<>> /\ Decodes(c.alg)
    BY <1>1, <2>5 DEF Acceptable
  <2>9. /\ Len(SubSeq(cs, 1, j)) = j
        /\ \A k \in 1..j : SubSeq(cs, 1, j)[k] = cs[k]
    <3>1. \A k \in 1..j : k \in 1..Len(cs) /\ cs[k] \in Component
      BY <1>1, <1>2, <2>1, ElementOfSeq
    <3>2. /\ Len(SubSeq(cs, 1, j)) = IF 1 <= j THEN j - 1 + 1 ELSE 0
          /\ \A k \in 1..(j - 1 + 1) : SubSeq(cs, 1, j)[k] = cs[1 + k - 1]
      BY <3>1, SubSeqProperties
    <3> QED
      BY <3>2
  <2>10. \A k \in 1..Len(st.comps) : st.comps[k].alg # c.alg
    <3>1. \A k \in 1..j : k \in 1..n /\ k # i
      BY <2>1
    <3> QED
      BY <1>1, <2>3, <2>5, <2>9, <3>1 DEF Acceptable
  <2>11. f[i].ok /\ f[i].at = Len(a \o Field(c)) /\ f[i].comps = Append(st.comps, c)
    <3>1. st \in State /\ st.ok /\ st.at = Len(a)
      BY <2>3, <2>5
    <3> QED
      BY <2>4, <2>6, <2>7, <2>8, <2>10, <3>1, TurnComplete
  <2>12. Append(SubSeq(cs, 1, j), c) = SubSeq(cs, 1, i)
    <3>1. 1 \in 1..Len(cs) /\ i \in 1..Len(cs) /\ j = i - 1
      BY <1>1, <2>1
    <3>2. SubSeq(cs, 1, i) = SubSeq(cs, 1, i - 1) \o <<cs[i]>>
      BY <1>2, <3>1, SubSeqRecursiveSecond
    <3>3. SubSeq(cs, 1, j) \in Seq(Component) /\ c \in Component
      <4>1. \A k \in 1..j : cs[k] \in Component
        BY <1>1, <1>2, <2>1, ElementOfSeq
      <4> QED
        BY <1>2, <2>5, <3>1, <4>1, ElementOfSeq, SubSeqProperties
    <3>4. Append(SubSeq(cs, 1, j), c) = SubSeq(cs, 1, j) \o <<c>>
      BY <3>3, AppendIsConcat
    <3> QED
      BY <2>5, <3>1, <3>2, <3>4
  <2> QED
    <3>1. /\ f[i].ok /\ f[i].at = Len(p \o g[i]) /\ f[i].comps = SubSeq(cs, 1, i)
          /\ i \in 0..n
      BY <2>3, <2>6, <2>11, <2>12
    <3> QED
      BY <3>1
<1> HIDE DEF T
<1>14. n \in T
  <2>1. \A i \in 0..n : i \in T
    BY <1>12, <1>13, InductionTo
  <2> QED
    BY <2>1
<1>15. SubSeq(cs, 1, n) = cs
  BY <1>1, <1>2, SubSeqFull
<1> QED
  BY <1>1, <1>4, <1>10, <1>14, <1>15 DEF T
-----------------------------------------------------------------------------
\* Headers.

\* A header is written as an opening, its components and its nonce.
Opening(version, profile, num) == Magic \o <<version>> \o Short(profile) \o <<num>>

\* What comes after the components: the nonce, from version 2 on.
Ending(h) == IF h.version >= 2 THEN h.nonce ELSE <<>>

\* to_bytes() writes an opening, the components and the ending.
LEMMA Parts ==
  ASSUME NEW h
  PROVE  ToBytes(h) =
            (Opening(h.version, h.profile, Len(h.comps)) \o Body(h.comps)) \o Ending(h)
BY DEF ToBytes, Opening, Body, Fields, Field, Ending

\* The opening is the magic bytes, the version, the profile after its length,
\* and the number of the components.
LEMMA OpeningPieces ==
  ASSUME NEW v \in Byte, NEW b \in Bytes, Len(b) < Base, NEW num \in Byte
  PROVE  /\ Len(b) \in Byte
         /\ Magic \o <<v>> \in Bytes
         /\ (Magic \o <<v>>) \o <<Len(b)>> \in Bytes
         /\ ((Magic \o <<v>>) \o <<Len(b)>>) \o b \in Bytes
         /\ Opening(v, b, num) \in Bytes
         /\ Opening(v, b, num) = (((Magic \o <<v>>) \o <<Len(b)>>) \o b) \o <<num>>
         /\ Len(Magic \o <<v>>) = Len(Magic) + 1
         /\ Len((Magic \o <<v>>) \o <<Len(b)>>) = Len(Magic) + 2
         /\ Len(((Magic \o <<v>>) \o <<Len(b)>>) \o b) = Len(Magic) + 2 + Len(b)
         /\ Len(Opening(v, b, num)) = Len(Magic) + 2 + Len(b) + 1
<1>1. Magic \in Bytes /\ Len(Magic) \in Nat /\ Len(b) \in Nat
  BY LayoutAssumption, BytesAre
<1>2. Len(b) \in Byte
  BY <1>1, BaseAssumption DEF Byte
<1>3. PICK sv, sl, sn : sv = <<v>> /\ sl = <<Len(b)>> /\ sn = <<num>>
  OBVIOUS
<1>4. /\ sv \in Bytes /\ sl \in Bytes /\ sn \in Bytes
      /\ Len(sv) = 1 /\ Len(sl) = 1 /\ Len(sn) = 1
  BY <1>2, <1>3, BytesAre
<1>5. PICK a, c, d, e : /\ a = Magic \o sv /\ c = a \o sl /\ d = c \o b /\ e = d \o sn
  OBVIOUS
<1>6. a \in Bytes /\ Len(a) = Len(Magic) + 1
  <2>1. Magic \o sv \in Bytes /\ Len(Magic \o sv) = Len(Magic) + Len(sv)
    BY <1>1, <1>4, Joined
  <2> QED
    BY <1>4, <1>5, <2>1
<1>7. c \in Bytes /\ Len(c) = Len(a) + 1
  BY <1>4, <1>5, <1>6, Joined
<1>8. d \in Bytes /\ Len(d) = Len(c) + Len(b)
  BY <1>5, <1>7, Joined
<1>9. e \in Bytes /\ Len(e) = Len(d) + 1
  <2>1. d \o sn \in Bytes /\ Len(d \o sn) = Len(d) + Len(sn)
    BY <1>4, <1>8, Joined
  <2> QED
    BY <1>4, <1>5, <2>1
<1>10. Opening(v, b, num) = e
  <2>1. Opening(v, b, num) = (a \o (sl \o b)) \o sn
    BY <1>3, <1>5 DEF Opening, Short
  <2>2. a \o (sl \o b) = d
    BY <1>4, <1>5, <1>6, Associative
  <2> QED
    BY <1>5, <2>1, <2>2
<1>11. /\ Len(c) = Len(Magic) + 2 /\ Len(d) = Len(Magic) + 2 + Len(b)
       /\ Len(e) = Len(Magic) + 2 + Len(b) + 1
  BY <1>1, <1>6, <1>7, <1>8, <1>9
<1> QED
  BY <1>2, <1>3, <1>5, <1>6, <1>7, <1>8, <1>9, <1>10, <1>11

\* The parts of a header that to_bytes() can write.
LEMMA Written ==
  ASSUME NEW h \in Header, Encodable(h)
  PROVE  /\ h.comps \in Seq(Component)
         /\ \A i \in 1..Len(h.comps) : Fits(h.comps[i])
         /\ h.version \in Byte /\ Len(h.comps) \in Byte
         /\ h.profile \in Bytes /\ Len(h.profile) < Base
         /\ Body(h.comps) \in Bytes
         /\ Ending(h) \in Bytes
         /\ Len(Ending(h)) = IF h.version >= 2 THEN NonceLen ELSE 0
         /\ ToBytes(h) \in Bytes
<1>1. h.comps \in Seq(Component) /\ h.profile \in Bytes /\ h.version \in {1, 2}
  BY DEF Header, Component, SupportedVersions
<1>2. Base \in Nat /\ Base > 2 /\ Len(h.comps) \in Nat
  BY <1>1, BaseAssumption DEF FormatVersion
<1>3. h.version \in Byte /\ Len(h.comps) \in Byte /\ Len(h.profile) < Base
  BY <1>1, <1>2 DEF Encodable, Byte
<1>4. ASSUME NEW i \in 1..Len(h.comps) PROVE Fits(h.comps[i])
  <2>1. h.comps[i] \in Component
    BY <1>1, ElementOfSeq
  <2> QED
    BY <2>1 DEF Fits, Encodable
<1>5. Body(h.comps) \in Bytes
  BY <1>1, <1>4, BodyType
<1>6. Ending(h) \in Bytes /\ Len(Ending(h)) = IF h.version >= 2 THEN NonceLen ELSE 0
  <2>1. CASE h.version >= 2
    <3>1. h.nonce # None /\ Len(h.nonce) = NonceLen /\ h.nonce \in Bytes \cup {None}
      BY <2>1 DEF Encodable, Header
    <3> QED
      BY <2>1, <3>1 DEF Ending
  <2>2. CASE ~(h.version >= 2)
    BY <2>2, BytesAre DEF Ending
  <2> QED
    BY <2>1, <2>2
<1>7. Opening(h.version, h.profile, Len(h.comps)) \in Bytes
  BY <1>1, <1>3, OpeningPieces
<1>8. Opening(h.version, h.profile, Len(h.comps)) \o Body(h.comps) \in Bytes
  BY <1>5, <1>7, Joined
<1>9. ToBytes(h) \in Bytes
  BY <1>6, <1>8, Joined, Parts
<1> QED
  BY <1>1, <1>3, <1>4, <1>5, <1>6, <1>9

\* _parse() accepts nothing but what to_bytes() writes: the header it returns,
\* written again, is the bytes that it has consumed, for all bytes.
THEOREM ParseSound ==
  ASSUME NEW data \in Bytes, Parse(data).ok
  PROVE  /\ Parse(data).header \in Header
         /\ Encodable(Parse(data).header)
         /\ Parse(data).consumed \in 0..Len(data)
         /\ Len(ToBytes(Parse(data).header)) = Parse(data).consumed
         /\ IsPrefix(ToBytes(Parse(data).header), data)
<1>1. PICK at, version, profEnd, profile :
         /\ at = Len(Magic) + 2
         /\ version = data[at - 1]
         /\ profEnd = at + data[at]
         /\ profile = Slice(data, at, data[at])
  OBVIOUS
<1>2. PICK comps : comps = ParseComponents(data, profEnd + 1, data[profEnd + 1])
  OBVIOUS
<1>3. PICK end, nonce :
         /\ end = comps.at + (IF version >= 2 THEN NonceLen ELSE 0)
         /\ nonce = IF version >= 2 THEN Slice(data, comps.at, NonceLen) ELSE None
  OBVIOUS
<1>4. PICK h : h = [version |-> version, profile |-> profile, comps |-> comps.comps,
                    nonce |-> nonce]
  OBVIOUS
<1>5. /\ Len(data) >= at /\ SubSeq(data, 1, Len(Magic)) = Magic
      /\ version \in SupportedVersions
      /\ profEnd <= Len(data) /\ Decodes(profile) /\ profile # <<>>
      /\ profEnd < Len(data) /\ data[profEnd + 1] # 0
      /\ comps.ok /\ end <= Len(data)
      /\ Parse(data) = [ok |-> TRUE, consumed |-> end, header |-> h]
  BY <1>1, <1>2, <1>3, <1>4 DEF Parse, Refused
<1>6. PICK m \in Nat : m = Len(Magic)
  BY LayoutAssumption, BytesAre
<1>7. PICK len \in Nat : len = Len(data)
  BY BytesAre
<1>8. Magic \in Bytes /\ IsPrefix(Magic, data) /\ m + 2 <= len
  <2>1. m + 2 <= len
    BY <1>1, <1>5, <1>6, <1>7
  <2>2. SubSeq(Magic, 1, Len(Magic)) = Magic
    BY LayoutAssumption, SubSeqFull DEF Bytes
  <2>3. Len(Magic) <= Len(data)
    BY <1>6, <1>7, <2>1
  <2> QED
    BY <1>5, <2>1, <2>2, <2>3, LayoutAssumption DEF IsPrefix
<1>9. PICK a : a = Magic \o <<version>>
  OBVIOUS
<1>10. version \in Byte /\ a \in Bytes /\ Len(a) = m + 1 /\ IsPrefix(a, data)
  <2>1. m < Len(data) /\ version = data[m + 1]
    BY <1>1, <1>6, <1>7, <1>8
  <2> QED
    BY <1>6, <1>8, <1>9, <2>1, GrowByte
<1>11. PICK l, c : l = data[at] /\ c = a \o <<l>>
  OBVIOUS
<1>12. l \in Byte /\ c \in Bytes /\ Len(c) = m + 2 /\ IsPrefix(c, data)
  <2>1. PICK k : k = m + 1
    OBVIOUS
  <2>2. k = Len(a) /\ k < Len(data) /\ k + 1 = m + 2
    BY <1>7, <1>8, <1>10, <2>1
  <2>3. l = data[k + 1]
    BY <1>1, <1>6, <1>11, <2>2
  <2> QED
    <3>1. a \in Bytes /\ IsPrefix(a, data)
      BY <1>10
    <3>2. /\ data[k + 1] \in Byte /\ a \o <<data[k + 1]>> \in Bytes
          /\ Len(a \o <<data[k + 1]>>) = k + 1 /\ IsPrefix(a \o <<data[k + 1]>>, data)
      BY <2>2, <3>1, GrowByte
    <3> QED
      BY <1>11, <2>2, <2>3, <3>2
<1>13. l \in Nat /\ profEnd = m + 2 + l /\ profEnd \in Nat /\ at = m + 2 /\ l < Base
  BY <1>1, <1>6, <1>11, <1>12, BaseAssumption DEF Byte
<1>14. PICK d : d = c \o profile
  OBVIOUS
<1>15. /\ profile \in Bytes /\ Len(profile) = l
       /\ d \in Bytes /\ Len(d) = profEnd /\ IsPrefix(d, data)
  <2>1. PICK k : k = at + 1
    OBVIOUS
  <2>2. k = Len(c) + 1 /\ Len(c) <= profEnd /\ profEnd <= Len(data)
    BY <1>5, <1>12, <1>13, <2>1
  <2>3. Grown(c, data, k, profEnd)
    BY <1>12, <1>13, <2>2, GrowBytes
  <2>4. profile = SubSeq(data, k, profEnd)
    BY <1>1, <1>11, <2>1 DEF Slice
  <2>5. profEnd - Len(c) = l
    BY <1>12, <1>13
  <2> QED
    BY <1>14, <2>3, <2>4, <2>5 DEF Grown
<1>16. PICK num, p : num = data[profEnd + 1] /\ p = d \o <<num>>
  OBVIOUS
<1>17. /\ num \in Byte /\ num \in Nat
       /\ p \in Bytes /\ Len(p) = profEnd + 1 /\ IsPrefix(p, data)
  <2>1. profEnd < Len(data)
    BY <1>5
  <2>2. num \in Byte /\ p \in Bytes /\ Len(p) = profEnd + 1 /\ IsPrefix(p, data)
    BY <1>15, <1>16, <2>1, GrowByte
  <2> QED
    BY <2>2, BaseAssumption DEF Byte
<1>18. p = Opening(version, profile, num)
  <2>1. version \in Byte /\ profile \in Bytes /\ Len(profile) < Base /\ num \in Byte
    BY <1>10, <1>13, <1>15, <1>17
  <2>2. Opening(version, profile, num) =
           (((Magic \o <<version>>) \o <<Len(profile)>>) \o profile) \o <<num>>
    BY <2>1, OpeningPieces
  <2> QED
    BY <1>9, <1>11, <1>14, <1>15, <1>16, <2>2
<1>19. Taken(data, p, comps) /\ Len(comps.comps) = num
  <2>1. comps = ParseComponents(data, Len(p), num) /\ comps.ok
    BY <1>2, <1>5, <1>16, <1>17
  <2> QED
    BY <1>17, <2>1, ComponentsSound
<1>20. PICK body, q : body = Body(comps.comps) /\ q = p \o body
  OBVIOUS
<1>21. /\ comps.comps \in Seq(Component) /\ comps.at \in Nat
       /\ \A i \in 1..Len(comps.comps) : Fits(comps.comps[i])
       /\ IsPrefix(q, data) /\ Len(q) = comps.at
  BY <1>19, <1>20 DEF Taken, State
<1>22. body \in Bytes /\ q \in Bytes
  BY <1>17, <1>20, <1>21, BodyType, Joined
<1>23. PICK e : e = IF version >= 2 THEN nonce ELSE <<>>
  OBVIOUS
<1>24. /\ version >= 2 => nonce \in Bytes /\ Len(nonce) = NonceLen
       /\ q \o e \in Bytes /\ Len(q \o e) = end /\ IsPrefix(q \o e, data)
       /\ end \in Nat
  <2>1. CASE version >= 2
    <3>1. PICK k : k = comps.at + 1
      OBVIOUS
    <3>2. NonceLen \in Nat /\ end = comps.at + NonceLen /\ e = nonce
      BY <1>3, <1>23, <2>1, LayoutAssumption
    <3>3. /\ k = Len(q) + 1 /\ end \in Nat /\ Len(q) <= end /\ end <= Len(data)
          /\ end - Len(q) = NonceLen
      BY <1>5, <1>21, <3>1, <3>2
    <3>4. Grown(q, data, k, end)
      BY <1>21, <1>22, <3>3, GrowBytes
    <3>5. nonce = SubSeq(data, k, end)
      BY <1>3, <2>1, <3>1, <3>2 DEF Slice
    <3> QED
      BY <3>2, <3>3, <3>4, <3>5 DEF Grown
  <2>2. CASE ~(version >= 2)
    <3>1. e = <<>> /\ end = comps.at
      BY <1>3, <1>21, <1>23, <2>2
    <3>2. q \o <<>> = q
      BY <1>22, ConcatEmptySeq DEF Bytes
    <3> QED
      BY <1>21, <1>22, <2>2, <3>1, <3>2
  <2> QED
    BY <2>1, <2>2
<1>25. h \in Header
  <2>1. nonce \in Bytes \cup {None}
    BY <1>3, <1>24
  <2> QED
    BY <1>4, <1>5, <1>15, <1>21, <2>1 DEF Header, Component
<1>26. Encodable(h)
  <2>1. Len(h.comps) < Base
    BY <1>4, <1>17, <1>19, BaseAssumption DEF Byte
  <2>2. \A i \in 1..Len(h.comps) : Len(h.comps[i].alg) < Base /\ Len(h.comps[i].ct) < Wide
    BY <1>4, <1>21 DEF Fits
  <2>3. h.version >= 2 => h.nonce # None /\ Len(h.nonce) = NonceLen
    BY <1>4, <1>24, LayoutAssumption
  <2> QED
    BY <1>4, <1>5, <1>13, <1>15, <2>1, <2>2, <2>3 DEF Encodable
<1>27. ToBytes(h) = q \o e
  <2>1. ToBytes(h) = (Opening(h.version, h.profile, Len(h.comps)) \o Body(h.comps)) \o Ending(h)
    BY Parts
  <2>2. Opening(h.version, h.profile, Len(h.comps)) = p /\ Body(h.comps) = body
    BY <1>4, <1>18, <1>19, <1>20
  <2>3. Ending(h) = e
    BY <1>4, <1>23 DEF Ending
  <2> QED
    BY <1>20, <2>1, <2>2, <2>3
<1>28. end \in 0..Len(data)
  BY <1>5, <1>7, <1>24
<1> QED
  <2>1. Parse(data).header = h /\ Parse(data).consumed = end
    BY <1>5
  <2> QED
    BY <2>1, <1>24, <1>25, <1>26, <1>27, <1>28

\* Headers that the parser takes: what to_bytes() made of a profile's components.
Parsable(h) ==
  /\ h \in Header /\ Encodable(h)
  /\ h.profile # <<>> /\ Decodes(h.profile)
  /\ h.comps # <<>> /\ Acceptable(h.comps)
  /\ h.version = 1 => h.nonce = None

\* _parse() reads back every header that to_bytes() writes and the parser's own
\* rules allow, whatever comes after it, and consumes just its bytes.
THEOREM ParseComplete ==
  ASSUME NEW h, Parsable(h), NEW data \in Bytes, IsPrefix(ToBytes(h), data)
  PROVE  /\ Parse(data).ok
         /\ Parse(data).header = h
         /\ Parse(data).consumed = Len(ToBytes(h))
<1>1. PICK b, cs, v, num, l :
         b = h.profile /\ cs = h.comps /\ v = h.version /\ num = Len(cs) /\ l = Len(b)
  OBVIOUS
<1>2. /\ cs \in Seq(Component)
      /\ v \in Byte /\ num \in Byte /\ b \in Bytes /\ l < Base
      /\ Body(cs) \in Bytes /\ Ending(h) \in Bytes
      /\ Len(Ending(h)) = IF v >= 2 THEN NonceLen ELSE 0
      /\ ToBytes(h) \in Bytes
  BY <1>1, Written DEF Parsable
<1>3. PICK p : p = Opening(v, b, num)
  OBVIOUS
<1>4. PICK q : q = p \o Body(cs)
  OBVIOUS
<1>5. PICK a, c, d : a = Magic \o <<v>> /\ c = a \o <<l>> /\ d = c \o b
  OBVIOUS
<1>6. PICK m \in Nat : m = Len(Magic)
  BY LayoutAssumption, BytesAre
<1>7. PICK len \in Nat : len = Len(data)
  BY BytesAre
<1>8. /\ l \in Byte /\ l \in Nat
      /\ a \in Bytes /\ c \in Bytes /\ d \in Bytes /\ p \in Bytes
      /\ p = d \o <<num>>
      /\ Len(a) = m + 1 /\ Len(c) = m + 2 /\ Len(d) = m + 2 + l /\ Len(p) = m + 2 + l + 1
  <2>4. v \in Byte /\ num \in Byte /\ b \in Bytes /\ Len(b) < Base
    BY <1>1, <1>2
  <2>1. /\ Len(b) \in Byte
        /\ Magic \o <<v>> \in Bytes
        /\ (Magic \o <<v>>) \o <<Len(b)>> \in Bytes
        /\ ((Magic \o <<v>>) \o <<Len(b)>>) \o b \in Bytes
        /\ Opening(v, b, num) \in Bytes
        /\ Opening(v, b, num) = (((Magic \o <<v>>) \o <<Len(b)>>) \o b) \o <<num>>
    BY <2>4, OpeningPieces
  <2>2. /\ Len(Magic \o <<v>>) = Len(Magic) + 1
        /\ Len((Magic \o <<v>>) \o <<Len(b)>>) = Len(Magic) + 2
        /\ Len(((Magic \o <<v>>) \o <<Len(b)>>) \o b) = Len(Magic) + 2 + Len(b)
        /\ Len(Opening(v, b, num)) = Len(Magic) + 2 + Len(b) + 1
    BY <2>4, OpeningPieces
  <2>3. Len(b) \in Nat
    BY <1>2, BytesAre
  <2> QED
    BY <1>1, <1>3, <1>5, <1>6, <2>1, <2>2, <2>3
<1>9. ToBytes(h) = q \o Ending(h) /\ q \in Bytes
  BY <1>1, <1>2, <1>3, <1>4, <1>8, Parts, Joined
<1>10. /\ IsPrefix(q, data) /\ Len(q) + Len(Ending(h)) <= len
       /\ SubSeq(data, Len(q) + 1, Len(q) + Len(Ending(h))) = Ending(h)
  <2>1. Chopped(q, Ending(h), data)
    BY <1>2, <1>9, ChopBytes
  <2> QED
    BY <1>7, <2>1 DEF Chopped
<1>11. IsPrefix(p, data)
  BY <1>2, <1>4, <1>8, <1>10, ChopBytes DEF Chopped
<1>12. IsPrefix(d, data) /\ m + 2 + l + 1 <= len /\ data[m + 2 + l + 1] = num
  <2>1. <<num>> \in Bytes /\ Len(<<num>>) = 1 /\ <<num>>[1] = num /\ 1 \in 1..1
    BY <1>2, BytesAre
  <2>2. Chopped(d, <<num>>, data)
    BY <1>8, <1>11, <2>1, ChopBytes
  <2> QED
    BY <1>7, <1>8, <2>1, <2>2 DEF Chopped
<1>13. IsPrefix(c, data) /\ SubSeq(data, m + 2 + 1, m + 2 + l) = b
  <2>1. Chopped(c, b, data)
    BY <1>2, <1>5, <1>8, <1>12, ChopBytes
  <2> QED
    BY <1>1, <1>8, <2>1 DEF Chopped
<1>14. IsPrefix(a, data) /\ data[m + 2] = l
  <2>1. <<l>> \in Bytes /\ Len(<<l>>) = 1 /\ <<l>>[1] = l /\ 1 \in 1..1
    BY <1>8, BytesAre
  <2>2. Chopped(a, <<l>>, data)
    BY <1>5, <1>8, <1>13, <2>1, ChopBytes
  <2>3. data[Len(a) + 1] = l
    BY <2>1, <2>2 DEF Chopped
  <2>4. Len(a) + 1 = m + 2
    BY <1>8
  <2> QED
    BY <2>2, <2>3, <2>4 DEF Chopped
<1>15. IsPrefix(Magic, data) /\ data[m + 1] = v
  <2>1. <<v>> \in Bytes /\ Len(<<v>>) = 1 /\ <<v>>[1] = v /\ 1 \in 1..1
    BY <1>2, BytesAre
  <2>2. Chopped(Magic, <<v>>, data)
    BY <1>5, <1>14, <2>1, ChopBytes, LayoutAssumption
  <2> QED
    BY <1>6, <2>1, <2>2 DEF Chopped
<1>16. PICK at, version, profEnd, profile :
         /\ at = Len(Magic) + 2
         /\ version = data[at - 1]
         /\ profEnd = at + data[at]
         /\ profile = Slice(data, at, data[at])
  OBVIOUS
<1>17. /\ at = m + 2 /\ version = v /\ profEnd = m + 2 + l /\ profEnd + 1 = Len(p)
       /\ data[profEnd + 1] = num
  <2>1. at = m + 2 /\ at - 1 = m + 1
    BY <1>6, <1>16
  <2>2. version = v /\ profEnd = m + 2 + l
    BY <1>14, <1>15, <1>16, <2>1
  <2> QED
    BY <1>8, <1>12, <2>1, <2>2
<1>18. profile = b
  BY <1>13, <1>14, <1>16, <1>17 DEF Slice
<1>19. PICK comps : comps = ParseComponents(data, profEnd + 1, data[profEnd + 1])
  OBVIOUS
<1>20. comps.ok /\ comps.at = Len(q) /\ comps.comps = cs
  <2>1. Acceptable(cs) /\ IsPrefix(p \o Body(cs), data)
    BY <1>1, <1>4, <1>10 DEF Parsable
  <2>2. comps = ParseComponents(data, Len(p), Len(cs))
    BY <1>1, <1>17, <1>19
  <2> QED
    <3>1. /\ ParseComponents(data, Len(p), Len(cs)).ok
          /\ ParseComponents(data, Len(p), Len(cs)).at = Len(p \o Body(cs))
          /\ ParseComponents(data, Len(p), Len(cs)).comps = cs
      <4>1. p \in Bytes
        BY <1>8
      <4> QED
        BY <2>1, <4>1, ComponentsComplete
    <3> QED
      BY <1>4, <2>2, <3>1
<1>21. PICK end, nonce :
         /\ end = comps.at + (IF version >= 2 THEN NonceLen ELSE 0)
         /\ nonce = IF version >= 2 THEN Slice(data, comps.at, NonceLen) ELSE None
  OBVIOUS
<1>22. end = Len(q) + Len(Ending(h)) /\ end = Len(ToBytes(h))
  <2>1. Len(ToBytes(h)) = Len(q) + Len(Ending(h))
    BY <1>2, <1>9, Joined
  <2>2. end = Len(q) + Len(Ending(h))
    BY <1>2, <1>17, <1>20, <1>21
  <2> QED
    BY <2>1, <2>2
<1>23. nonce = h.nonce
  <2>1. CASE v >= 2
    <3>1. nonce = SubSeq(data, Len(q) + 1, Len(q) + NonceLen) /\ Len(Ending(h)) = NonceLen
      BY <1>2, <1>17, <1>20, <1>21, <2>1 DEF Slice
    <3>2. Ending(h) = h.nonce
      BY <1>1, <2>1 DEF Ending
    <3> QED
      BY <1>10, <3>1, <3>2
  <2>2. CASE ~(v >= 2)
    <3>1. v \in {1, 2}
      BY <1>1 DEF Parsable, Header, SupportedVersions
    <3>2. v = 1
      BY <2>2, <3>1
    <3> QED
      BY <1>1, <1>17, <1>21, <2>2, <3>2 DEF Parsable
  <2> QED
    BY <2>1, <2>2
<1>24. h = [version |-> version, profile |-> profile, comps |-> comps.comps, nonce |-> nonce]
  BY <1>1, <1>17, <1>18, <1>20, <1>23 DEF Parsable, Header
<1>25. /\ Len(data) >= at /\ version \in SupportedVersions
       /\ profEnd <= Len(data) /\ profEnd < Len(data) /\ end <= Len(data)
  <2>1. version \in SupportedVersions
    BY <1>1, <1>17 DEF Parsable, Header
  <2>2. m + 2 <= len /\ m + 2 + l <= len /\ m + 2 + l < len
    BY <1>8, <1>12
  <2>3. end <= len
    BY <1>10, <1>22
  <2> QED
    BY <1>7, <1>17, <2>1, <2>2, <2>3
<1>26. SubSeq(data, 1, Len(Magic)) = Magic
  <2>1. SubSeq(Magic, 1, Len(Magic)) = Magic
    BY LayoutAssumption, SubSeqFull DEF Bytes
  <2> QED
    BY <1>15, <2>1 DEF IsPrefix
<1>27. Decodes(profile) /\ profile # <<>> /\ data[profEnd + 1] # 0
  <2>1. num # 0
    <3>1. cs # <<>>
      BY <1>1 DEF Parsable
    <3> QED
      BY <1>1, <1>2, <3>1, EmptySeq
  <2> QED
    BY <1>1, <1>17, <1>18, <2>1 DEF Parsable
<1>28. Parse(data) = [ok |-> TRUE, consumed |-> end, header |-> h]
  BY <1>16, <1>19, <1>20, <1>21, <1>24, <1>25, <1>26, <1>27 DEF Parse
<1> QED
  BY <1>22, <1>28
-----------------------------------------------------------------------------
\* The HKDF info.

\* What _encode_info() writes of one component, and before the first of them.
Piece(c)    == Long4(Len(c.alg)) \o c.alg \o Long4(Len(c.ct)) \o c.ct
Pieces(cs)  == [i \in 1..Len(cs) |-> Piece(cs[i])]
Preamble    == Short2(SpecVersion) \o Long4(Len(Context)) \o Context

\* _encode_info() writes a preamble, the number of the components and the
\* components.
LEMMA InfoParts ==
  ASSUME NEW cs
  PROVE  EncodeInfo(cs) = (Preamble \o Short2(Len(cs))) \o FlattenSeq(Pieces(cs))
BY DEF EncodeInfo, Preamble, Pieces, Piece

\* A length is written in two bytes or in four,
LEMMA Lengths ==
  ASSUME NEW n \in Nat, n < Wide
  PROVE  /\ Short2(n) \in Bytes /\ Len(Short2(n)) = 2
         /\ Long4(n) \in Bytes /\ Len(Long4(n)) = 4
<1>1. PICK q, r \in Byte : q = n \div Base /\ r = n % Base
  BY Split
<1>2. 0 \in Byte
  BY BaseAssumption DEF Byte, FormatVersion
<1>3. <<q, r>> \in Seq(Byte) /\ Len(<<q, r>>) = 2
  OBVIOUS
<1>4. <<0, 0, q, r>> \in Seq(Byte) /\ Len(<<0, 0, q, r>>) = 4
  BY <1>2
<1>5. Short2(n) = <<q, r>> /\ Long4(n) = <<0, 0, q, r>>
  BY <1>1 DEF Short2, Long4
<1> QED
  BY <1>3, <1>4, <1>5 DEF Bytes

\* and no two lengths are written alike.
LEMMA LengthsDiffer ==
  ASSUME NEW n \in Nat, n < Wide, NEW m \in Nat, m < Wide,
         Short2(n) = Short2(m) \/ Long4(n) = Long4(m)
  PROVE  n = m
<1>1. PICK q, r : q = n \div Base /\ r = n % Base
  OBVIOUS
<1>2. PICK s, t : s = m \div Base /\ t = m % Base
  OBVIOUS
<1>3. q * Base + r = n /\ s * Base + t = m
  BY <1>1, <1>2, Split
<1>4. <<q, r>> = <<s, t>> \/ <<0, 0, q, r>> = <<0, 0, s, t>>
  BY <1>1, <1>2 DEF Short2, Long4
<1>5. q = s /\ r = t
  BY <1>4
<1> QED
  BY <1>3, <1>5

\* What _encode_info() writes of a component are four pieces.
LEMMA PieceParts ==
  ASSUME NEW a \in Bytes, NEW c, Fits(c)
  PROVE  LET L == Long4(Len(c.alg))  M == Long4(Len(c.ct)) IN
         /\ c.alg \in Bytes /\ c.ct \in Bytes
         /\ L \in Bytes /\ Len(L) = 4 /\ M \in Bytes /\ Len(M) = 4
         /\ Len(c.alg) \in Nat /\ Len(c.alg) < Wide /\ Len(c.ct) \in Nat /\ Len(c.ct) < Wide
         /\ Piece(c) \in Bytes
         /\ a \o L \in Bytes /\ (a \o L) \o c.alg \in Bytes
         /\ ((a \o L) \o c.alg) \o M \in Bytes
         /\ a \o Piece(c) = (((a \o L) \o c.alg) \o M) \o c.ct
<1>1. PICK L, M : L = Long4(Len(c.alg)) /\ M = Long4(Len(c.ct))
  OBVIOUS
<1>2. c.alg \in Bytes /\ c.ct \in Bytes /\ Len(c.alg) < Base /\ Len(c.ct) < Wide
  BY DEF Fits, Component
<1>3. Len(c.alg) \in Nat /\ Len(c.ct) \in Nat
  BY <1>2, BytesAre
<1>4. Len(c.alg) < Wide
  <2>1. PICK k \in Nat : Base = 1 + k
    BY BaseAssumption DEF FormatVersion
  <2>2. Base * Base = Base + k * Base
    BY <2>1
  <2>3. k * Base \in Nat
    BY <2>1
  <2> QED
    BY <1>2, <1>3, <2>1, <2>2, <2>3 DEF Wide
<1>5. L \in Bytes /\ Len(L) = 4 /\ M \in Bytes /\ Len(M) = 4
  BY <1>1, <1>2, <1>3, <1>4, Lengths
<1>6. PICK u, v, w, x, y :
        /\ u = L \o c.alg /\ v = u \o M
        /\ w = a \o L /\ x = w \o c.alg /\ y = x \o M
  OBVIOUS
<1>7. u \in Bytes /\ v \in Bytes /\ v \o c.ct \in Bytes
  BY <1>2, <1>5, <1>6, Joined
<1>8. w \in Bytes /\ x \in Bytes /\ y \in Bytes
  BY <1>2, <1>5, <1>6, Joined
<1>9. Piece(c) = v \o c.ct
  BY <1>1, <1>6 DEF Piece
<1>10. a \o (v \o c.ct) = (a \o v) \o c.ct
  BY <1>2, <1>7, Associative
<1>11. a \o v = (a \o u) \o M
  <2>1. (a \o u) \o M = a \o (u \o M)
    BY <1>5, <1>7, Associative
  <2> QED
    BY <1>6, <2>1
<1>12. a \o u = x
  BY <1>2, <1>5, <1>6, Associative
<1> QED
  BY <1>1, <1>2, <1>3, <1>4, <1>5, <1>6, <1>7, <1>8, <1>9, <1>10, <1>11, <1>12

\* What stands at one place, and is as long, is the same.
LEMMA Same ==
  ASSUME NEW a \in Bytes, NEW x \in Bytes, NEW y \in Bytes, NEW d \in Bytes,
         IsPrefix(a \o x, d), IsPrefix(a \o y, d), Len(x) = Len(y)
  PROVE  x = y
<1>1. Chopped(a, x, d) /\ Chopped(a, y, d)
  BY ChopBytes
<1> QED
  BY <1>1 DEF Chopped

\* From what is written of it, a component can be told.
LEMMA PieceRead ==
  ASSUME NEW a \in Bytes, NEW d \in Bytes, NEW b, NEW c, Fits(b), Fits(c),
         IsPrefix(a \o Piece(b), d), IsPrefix(a \o Piece(c), d)
  PROVE  b = c
<1> DEFINE L(e) == Long4(Len(e.alg))
           M(e) == Long4(Len(e.ct))
<1>1. ASSUME NEW e \in {b, c}
      PROVE  /\ IsPrefix(a \o L(e), d) /\ IsPrefix((a \o L(e)) \o e.alg, d)
             /\ IsPrefix(((a \o L(e)) \o e.alg) \o M(e), d)
             /\ IsPrefix((((a \o L(e)) \o e.alg) \o M(e)) \o e.ct, d)
             /\ L(e) \in Bytes /\ Len(L(e)) = 4 /\ M(e) \in Bytes /\ Len(M(e)) = 4
             /\ e.alg \in Bytes /\ e.ct \in Bytes
             /\ Len(e.alg) \in Nat /\ Len(e.alg) < Wide
             /\ Len(e.ct) \in Nat /\ Len(e.ct) < Wide
             /\ a \o L(e) \in Bytes /\ (a \o L(e)) \o e.alg \in Bytes
             /\ ((a \o L(e)) \o e.alg) \o M(e) \in Bytes
  <2>1. Fits(e) /\ IsPrefix(a \o Piece(e), d)
    BY <1>1
  <2>2. /\ e.alg \in Bytes /\ e.ct \in Bytes
        /\ L(e) \in Bytes /\ Len(L(e)) = 4 /\ M(e) \in Bytes /\ Len(M(e)) = 4
        /\ Len(e.alg) \in Nat /\ Len(e.alg) < Wide /\ Len(e.ct) \in Nat /\ Len(e.ct) < Wide
        /\ a \o L(e) \in Bytes /\ (a \o L(e)) \o e.alg \in Bytes
        /\ ((a \o L(e)) \o e.alg) \o M(e) \in Bytes
        /\ a \o Piece(e) = (((a \o L(e)) \o e.alg) \o M(e)) \o e.ct
    BY <2>1, PieceParts
  <2> HIDE DEF L, M
  <2>3. PICK u, v, w : u = a \o L(e) /\ v = u \o e.alg /\ w = v \o M(e)
    OBVIOUS
  <2>4. u \in Bytes /\ v \in Bytes /\ w \in Bytes /\ IsPrefix(w \o e.ct, d)
    BY <2>1, <2>2, <2>3
  <2>5. IsPrefix(w, d)
    BY <2>2, <2>4, ChopBytes DEF Chopped
  <2>6. IsPrefix(v, d)
    BY <2>2, <2>3, <2>4, <2>5, ChopBytes DEF Chopped
  <2>7. IsPrefix(u, d)
    BY <2>2, <2>3, <2>4, <2>6, ChopBytes DEF Chopped
  <2> QED
    BY <2>2, <2>3, <2>4, <2>5, <2>6, <2>7
<1>2. b \in {b, c} /\ c \in {b, c}
  OBVIOUS
<1> HIDE DEF L, M
<1>3. L(b) = L(c)
  BY <1>1, <1>2, Same
<1>4. Len(b.alg) = Len(c.alg)
  BY <1>1, <1>2, <1>3, LengthsDiffer DEF L
<1>5. PICK u : u = a \o L(b)
  OBVIOUS
<1>6. u \in Bytes /\ IsPrefix(u \o b.alg, d) /\ IsPrefix(u \o c.alg, d)
  BY <1>1, <1>2, <1>3, <1>5
<1>7. b.alg = c.alg
  BY <1>1, <1>2, <1>4, <1>6, Same
<1>8. PICK v : v = u \o b.alg
  OBVIOUS
<1>9. v \in Bytes /\ IsPrefix(v \o M(b), d) /\ IsPrefix(v \o M(c), d)
  BY <1>1, <1>2, <1>3, <1>5, <1>7, <1>8
<1>10. M(b) = M(c)
  BY <1>1, <1>2, <1>9, Same
<1>11. Len(b.ct) = Len(c.ct)
  BY <1>1, <1>2, <1>10, LengthsDiffer DEF M
<1>12. PICK w : w = v \o M(b)
  OBVIOUS
<1>13. w \in Bytes /\ IsPrefix(w \o b.ct, d) /\ IsPrefix(w \o c.ct, d)
  BY <1>1, <1>2, <1>3, <1>5, <1>7, <1>8, <1>10, <1>12
<1>14. b.ct = c.ct
  BY <1>1, <1>2, <1>11, <1>13, Same
<1> QED
  BY <1>7, <1>14 DEF Fits, Component

\* Lists that a header can have.
Listable(cs) ==
  cs \in Seq(Component) /\ Len(cs) < Base /\ \A i \in 1..Len(cs) : Fits(cs[i])

\* What _encode_info() writes are bytes.
LEMMA InfoType ==
  ASSUME NEW cs, Listable(cs)
  PROVE  /\ Preamble \in Bytes
         /\ Len(cs) \in Nat /\ Len(cs) < Wide
         /\ Preamble \o Short2(Len(cs)) \in Bytes
         /\ Pieces(cs) \in Seq(Bytes)
         /\ FlattenSeq(Pieces(cs)) \in Bytes
         /\ EncodeInfo(cs) \in Bytes
<1>1. cs \in Seq(Component) /\ Len(cs) \in Nat /\ Len(cs) < Base
  BY DEF Listable
<1>2. Base < Wide /\ SpecVersion \in Nat /\ SpecVersion < Wide
  <2>1. PICK k \in Nat : Base = 2 + k
    BY BaseAssumption DEF FormatVersion
  <2>2. Base * Base = Base + Base + k * Base
    BY <2>1
  <2>3. k * Base \in Nat /\ Base > 2
    BY <2>1, BaseAssumption DEF FormatVersion
  <2> QED
    BY <2>1, <2>2, <2>3 DEF Wide, SpecVersion
<1>3. Len(cs) < Wide
  BY <1>1, <1>2, BaseAssumption DEF Wide
<1>4. Context \in Bytes /\ Len(Context) \in Nat /\ Len(Context) < Wide
  BY ContextAssumption, BytesAre
<1>5. Preamble \in Bytes
  <2>1. PICK x, y : x = Short2(SpecVersion) /\ y = Long4(Len(Context))
    OBVIOUS
  <2>2. x \in Bytes /\ y \in Bytes
    BY <1>2, <1>4, <2>1, Lengths
  <2>3. x \o y \in Bytes
    BY <2>2, Joined
  <2>4. (x \o y) \o Context \in Bytes
    BY <1>4, <2>3, Joined
  <2> QED
    BY <2>1, <2>4 DEF Preamble
<1>6. Preamble \o Short2(Len(cs)) \in Bytes
  BY <1>1, <1>3, <1>5, Lengths, Joined
<1>7. Pieces(cs) \in Seq(Bytes)
  <2>1. \A i \in 1..Len(cs) : Piece(cs[i]) \in Bytes
    <3>1. ASSUME NEW i \in 1..Len(cs) PROVE Piece(cs[i]) \in Bytes
      <4>1. Fits(cs[i]) /\ <<>> \in Bytes
        BY BytesAre DEF Listable
      <4> QED
        BY <4>1, PieceParts
    <3> QED
      BY <3>1
  <2> QED
    BY <1>1, <2>1 DEF Pieces
<1>8. FlattenSeq(Pieces(cs)) \in Bytes
  <2>1. <<>> \in Seq(Byte)
    BY EmptySeq
  <2> QED
    BY <1>7, <2>1, FlattenAppend DEF Bytes
<1>9. EncodeInfo(cs) \in Bytes
  BY <1>6, <1>8, InfoParts, Joined
<1> QED
  BY <1>1, <1>3, <1>5, <1>6, <1>7, <1>8, <1>9

\* The HKDF info tells the components: no two lists of algorithms and
\* ciphertexts are encoded by _encode_info() as the same bytes.
THEOREM InfoInjective ==
  ASSUME NEW cs, Listable(cs), NEW ds, Listable(ds), EncodeInfo(cs) = EncodeInfo(ds)
  PROVE  cs = ds
<1>1. PICK data : data = EncodeInfo(cs) /\ data = EncodeInfo(ds)
  OBVIOUS
<1>2. data \in Bytes /\ IsPrefix(data, data)
  <2>1. data \in Bytes
    BY <1>1, InfoType
  <2> QED
    BY <2>1 DEF IsPrefix, Bytes
<1>3. ASSUME NEW es \in {cs, ds}
      PROVE  /\ Preamble \in Bytes /\ Short2(Len(es)) \in Bytes /\ Len(Short2(Len(es))) = 2
             /\ Len(es) \in Nat /\ Len(es) < Wide
             /\ Preamble \o Short2(Len(es)) \in Bytes
             /\ Pieces(es) \in Seq(Bytes) /\ FlattenSeq(Pieces(es)) \in Bytes
             /\ IsPrefix((Preamble \o Short2(Len(es))) \o FlattenSeq(Pieces(es)), data)
             /\ IsPrefix(Preamble \o Short2(Len(es)), data)
  <2>1. Listable(es) /\ data = EncodeInfo(es)
    BY <1>1, <1>3
  <2>2. /\ Preamble \in Bytes /\ Preamble \o Short2(Len(es)) \in Bytes
        /\ Len(es) \in Nat /\ Len(es) < Wide
        /\ Pieces(es) \in Seq(Bytes) /\ FlattenSeq(Pieces(es)) \in Bytes
    BY <2>1, InfoType
  <2>3. Short2(Len(es)) \in Bytes /\ Len(Short2(Len(es))) = 2
    BY <2>2, Lengths
  <2>4. IsPrefix((Preamble \o Short2(Len(es))) \o FlattenSeq(Pieces(es)), data)
    BY <1>2, <2>1, InfoParts
  <2>5. PICK u, v : u = Preamble \o Short2(Len(es)) /\ v = FlattenSeq(Pieces(es))
    OBVIOUS
  <2>6. IsPrefix(u, data)
    BY <1>2, <2>2, <2>4, <2>5, ChopBytes DEF Chopped
  <2> QED
    BY <2>2, <2>3, <2>4, <2>5, <2>6
<1>4. PICK n \in Nat : n = Len(cs)
  BY <1>3
<1>5. Len(ds) = n
  <2>1. PICK x, y : x = Short2(Len(cs)) /\ y = Short2(Len(ds))
    OBVIOUS
  <2>2. /\ x \in Bytes /\ y \in Bytes /\ Len(x) = Len(y) /\ Preamble \in Bytes
        /\ IsPrefix(Preamble \o x, data) /\ IsPrefix(Preamble \o y, data)
    BY <1>3, <2>1
  <2>3. x = y
    BY <1>2, <2>2, Same
  <2>4. Len(cs) \in Nat /\ Len(cs) < Wide /\ Len(ds) \in Nat /\ Len(ds) < Wide
    BY <1>3
  <2> QED
    BY <1>4, <2>1, <2>3, <2>4, LengthsDiffer
<1>6. PICK p : p = Preamble \o Short2(n)
  OBVIOUS
<1>7. ASSUME NEW es \in {cs, ds}
      PROVE  \E g \in [0..n -> Bytes] :
                /\ g[0] = <<>>
                /\ \A i \in 1..n : Fits(es[i]) /\ g[i] = g[i - 1] \o Piece(es[i])
                /\ \A i \in 0..n : IsPrefix(p \o g[i], data)
  <2>1. Len(es) = n /\ es \in Seq(Component) /\ \A i \in 1..n : Fits(es[i])
    BY <1>4, <1>5, <1>7 DEF Listable
  <2>2. PICK ss : ss = Pieces(es)
    OBVIOUS
  <2>3. /\ ss \in Seq(Bytes) /\ Len(ss) = n
        /\ \A i \in 1..n : ss[i] = Piece(es[i]) /\ ss[i] \in Bytes
    <3>1. ss \in Seq(Bytes)
      BY <1>3, <2>2
    <3>2. Len(ss) = n /\ \A i \in 1..n : ss[i] = Piece(es[i])
      BY <2>1, <2>2 DEF Pieces
    <3> QED
      BY <3>1, <3>2, ElementOfSeq
  <2>4. PICK g \in [0..n -> Bytes] :
              /\ g[0] = <<>>
              /\ \A i \in 1..n : g[i] = g[i - 1] \o ss[i]
              /\ FlattenSeq(ss) = g[n]
    BY <2>3, Flattened DEF Bytes
  <2>5. p \in Bytes /\ IsPrefix(p \o g[n], data)
    BY <1>3, <1>6, <2>1, <2>2, <2>4
  <2>6. \A i \in 0..n : IsPrefix(p \o g[i], data)
    <3>1. \A i \in 1..n : ss[i] \in Bytes /\ g[i] = g[i - 1] \o ss[i]
      BY <2>3, <2>4
    <3> QED
      BY <1>2, <2>5, <3>1, Growing
  <2>7. \A i \in 1..n : Fits(es[i]) /\ g[i] = g[i - 1] \o Piece(es[i])
    BY <2>1, <2>3, <2>4
  <2> QED
    BY <2>4, <2>6, <2>7
<1>8. PICK g \in [0..n -> Bytes] :
            /\ g[0] = <<>>
            /\ \A i \in 1..n : Fits(cs[i]) /\ g[i] = g[i - 1] \o Piece(cs[i])
            /\ \A i \in 0..n : IsPrefix(p \o g[i], data)
  BY <1>7
<1>9. PICK f \in [0..n -> Bytes] :
            /\ f[0] = <<>>
            /\ \A i \in 1..n : Fits(ds[i]) /\ f[i] = f[i - 1] \o Piece(ds[i])
            /\ \A i \in 0..n : IsPrefix(p \o f[i], data)
  BY <1>7
<1>10. p \in Bytes
  BY <1>3, <1>4, <1>6
<1> DEFINE T == {i \in 0..n : g[i] = f[i] /\ (i # 0 => cs[i] = ds[i])}
<1>11. 0 \in T
  BY <1>8, <1>9
<1>12. ASSUME NEW i \in 1..n, i - 1 \in T PROVE i \in T
  <2>1. PICK j \in 0..n : j = i - 1
    OBVIOUS
  <2>2. g[j] = f[j] /\ g[j] \in Bytes
    BY <1>12, <2>1
  <2>3. PICK b, c : b = cs[i] /\ c = ds[i]
    OBVIOUS
  <2>4. /\ Fits(b) /\ g[i] = g[j] \o Piece(b)
        /\ Fits(c) /\ f[i] = g[j] \o Piece(c)
    BY <1>8, <1>9, <2>1, <2>2, <2>3
  <2>5. i \in 0..n
    OBVIOUS
  <2>6. IsPrefix(p \o g[i], data) /\ IsPrefix(p \o f[i], data)
    BY <1>8, <1>9, <2>5
  <2>7. PICK a : a = p \o g[j]
    OBVIOUS
  <2>8. Piece(b) \in Bytes /\ Piece(c) \in Bytes
    BY <2>2, <2>4, PieceParts
  <2>9. a \in Bytes /\ a \o Piece(b) = p \o g[i] /\ a \o Piece(c) = p \o f[i]
    <3>1. a \in Bytes
      BY <1>10, <2>2, <2>7, Joined
    <3>2. /\ (p \o g[j]) \o Piece(b) = p \o (g[j] \o Piece(b))
          /\ (p \o g[j]) \o Piece(c) = p \o (g[j] \o Piece(c))
      BY <1>10, <2>2, <2>8, Associative
    <3> QED
      BY <2>4, <2>7, <3>1, <3>2
  <2>10. b = c
    BY <1>2, <2>4, <2>6, <2>9, PieceRead
  <2>11. g[i] = f[i] /\ cs[i] = ds[i]
    BY <2>3, <2>4, <2>10
  <2> QED
    BY <2>5, <2>11
<1> HIDE DEF T
<1>13. \A i \in 0..n : i \in T
  BY <1>11, <1>12, InductionTo
<1>14. \A i \in 1..n : cs[i] = ds[i]
  <2>1. \A i \in 1..n : i \in 0..n /\ i # 0
    OBVIOUS
  <2> QED
    BY <1>13, <2>1 DEF T
<1> QED
  BY <1>4, <1>5, <1>14, SeqEqual DEF Listable
-----------------------------------------------------------------------------
\* The one-shot calls: what is inductive.

\* What call q sends to bundle b, if it can.
Sendable(q, b) == b \in Bundle /\ WellFormed(b) /\ Encodable(NewHeader(q, b))
Letter(q, b)   == ToBytes(NewHeader(q, b)) \o <<Random[q]>>

\* The calls that send bytes, and those that are given bytes.
Senders   == {"encrypt", "ephemeral_encrypt", "migrate"}
Receivers == {"decrypt", "recover_root_key", "migrate"}

\* The calls that have returned a blob, and what each of them did.
Sealers    == {q \in Proc : pc[q] = "returned" /\ call[q].op \in Senders}
Out(q)     == [blob |-> Letter(q, call[q].bundle), bundle |-> call[q].bundle,
               pt |-> pt[q], key |-> NewKey(q, call[q].bundle)]
Sealing(q) == [key |-> NewKey(q, call[q].bundle), nonce |-> NewHeader(q, call[q].bundle).nonce,
               aad |-> ToBytes(NewHeader(q, call[q].bundle)), pt |-> pt[q], body |-> <<Random[q]>>]

\* The header in the bytes that call p was given, the key its handles make of
\* it, and what the call asks of it: Weaker and Admissible, whatever the header
\* the call holds by now.
Found(p)     == Parse(blob[p]).header
Derived(p)   == RecoveredKey(call[p].handles, Found(p))
TooWeak(c, h) ==
  /\ c.min \in ProfileId
  /\ Registered(h.profile)
  /\ Strength[ProfileOf(h.profile)] < Strength[c.min]
Granted(c, h) ==
  /\ ~TooWeak(c, h)
  /\ c.min # None => c.min \in ProfileId /\ Registered(h.profile)
  /\ c.op # "recover_root_key" => h.nonce # None
  /\ Recovers(c.handles, h)

\* Blob s is what call p was given, for the handles it has.
Meant(p, s) == s.blob = blob[p] /\ s.bundle.keys = call[p].handles

-----------------------------------------------------------------------------
\* The parts of the invariant that are about one call.
Types(p) ==
  /\ blob[p] \in Bytes
  /\ header[p] \in Header \cup {None}
  /\ buf[p] \in RootKeys \cup {None}
  /\ pt[p] \in Doc \cup {None}
  /\ key[p] \in RootKeys \cup {None}

\* Which call it is, and what it does.
Role(p) ==
  /\ IF pc[p] = "idle" THEN /\ call[p] = None /\ header[p] = None
                            /\ key[p] = None /\ pt[p] = None
                       ELSE call[p] \in Calls[p] /\ call[p] \in Call
  /\ pc[p] \in {"derive", "seal"} => call[p].op \in Senders
  /\ pc[p] \in {"parse", "check", "open", "DecryptionError", "DowngradeError"} =>
        call[p].op \in Receivers

\* Call p has been given bytes.
Receives(p) == pc[p] # "idle" /\ call[p].op \in Receivers

\* The header a receiver holds is the one in its bytes, until migrate() makes
\* its own.
Reading(p) ==
  Receives(p) =>
    /\ pc[p] = "parse" => header[p] = None
    /\ pc[p] \in {"check", "open", "derive", "DowngradeError"}
         \/ (header[p] # None /\ call[p].op # "migrate") =>
            Parse(blob[p]).ok /\ header[p] = Found(p)
    /\ pc[p] \in {"open", "derive", "seal", "returned", "raised"} =>
            /\ Parse(blob[p]).ok /\ Granted(call[p], Found(p))
            /\ call[p].op # "migrate" => header[p] = Found(p)

\* Where a root key is, and which one it is.
Holding(p) ==
  /\ pc[p] = "open" => buf[p] = Derived(p)
  /\ pc[p] \in {"idle", "parse", "check", "derive"} => buf[p] = None
  /\ pc[p] \in Ended /\ buf[p] # None =>
        /\ fault[p] = "construct" /\ call[p].op # "ephemeral_encrypt"
        /\ pc[p] = "raised"
  /\ Receives(p) /\ key[p] # None =>
        /\ pc[p] = "returned" /\ call[p].op = "recover_root_key" /\ key[p] = Derived(p)

\* What is sealed, and under which header and key.
Writing(p) ==
  /\ pc[p] \in {"derive", "seal"} \/ p \in Sealers => pt[p] \in Doc
  /\ pc[p] = "seal" \/ p \in Sealers => Sendable(p, call[p].bundle)
  /\ pc[p] = "seal" => /\ header[p] = NewHeader(p, call[p].bundle)
                       /\ buf[p] = NewKey(p, call[p].bundle)

\* A receiver's plaintext is that of a blob it was meant to open.
Reads(p) ==
  Receives(p) /\ pt[p] # None =>
    /\ pc[p] \in {"derive", "seal", "returned", "raised"}
    /\ \E s \in sent : Meant(p, s) /\ s.pt = pt[p]

\* A refusal has its reason, and it lasts.
Refusing(p) ==
  /\ pc[p] = "DowngradeError" => TooWeak(call[p], Found(p))
  /\ pc[p] = "DecryptionError" /\ fault[p] # "recover" =>
        \/ ~Parse(blob[p]).ok
        \/ ~Granted(call[p], Found(p))
        \/ \A s \in sent : ~Meant(p, s)

\* What a receiver was given is not what a call that has not ended may send.
Early(p) ==
  Receives(p) => \A q \in Proc : pc[q] \notin Ended =>
    \A b \in Bundle : Sendable(q, b) => blob[p] # Letter(q, b)

\* What is kept of call p.
Local(p) ==
  /\ Types(p) /\ Role(p) /\ Reading(p) /\ Holding(p) /\ Writing(p)
  /\ Reads(p) /\ Refusing(p) /\ Early(p)

\* The steps of the calls, and their faults.
Steps  == {"idle", "derive", "seal", "parse", "check", "open"} \cup Ended
Faults == {None, "source", "construct", "encrypt", "recover"}

\* Every variable of the calls is a function of them.
Domains ==
  /\ pc \in [Proc -> Steps] /\ fault \in [Proc -> Faults]
  /\ DOMAIN call = Proc /\ DOMAIN blob = Proc /\ DOMAIN header = Proc
  /\ DOMAIN buf = Proc /\ DOMAIN pt = Proc /\ DOMAIN key = Proc

\* The history, and the AEAD's, are just what the calls that returned did.
History == sent = {Out(q) : q \in Sealers} /\ sealed = {Sealing(q) : q \in Sealers}

\* What is inductive.
OneShotInv == Domains /\ History /\ \A p \in Proc : Local(p)

-----------------------------------------------------------------------------
\* The lists of sources are short, of different algorithms, and no two profiles
\* have one list.
LEMMA SourcesAre ==
  /\ \A x \in ProfileId :
        /\ Sources[x] \in Seq(Alg) /\ Len(Sources[x]) \in {1, 2}
        /\ \A i \in 1..Len(Sources[x]) : Sources[x][i] \in Alg
        /\ \A i, j \in 1..Len(Sources[x]) : Sources[x][i] = Sources[x][j] => i = j
  /\ \A x, y \in ProfileId :
        Len(Sources[x]) = Len(Sources[y])
          /\ (\A i \in 1..Len(Sources[x]) : Sources[x][i] = Sources[y][i]) => x = y
<1>1. /\ Sources["classical_only"] = <<"x25519">>
      /\ Sources["hybrid_standard"] = <<"x25519", "mlkem768">>
      /\ Sources["hybrid_high"] = <<"x25519", "mlkem1024">>
  BY DEF Sources
<1>2. Alg = {"x25519", "mlkem768", "mlkem1024"}
  BY DEF Alg, Pqc
<1>3. \A x \in ProfileId : x \in {"classical_only", "hybrid_standard", "hybrid_high"}
  BY DEF ProfileId
<1>4. ASSUME NEW x \in ProfileId
      PROVE  /\ Sources[x] \in Seq(Alg) /\ Len(Sources[x]) \in {1, 2}
             /\ \A i \in 1..Len(Sources[x]) : Sources[x][i] \in Alg
             /\ \A i, j \in 1..Len(Sources[x]) : Sources[x][i] = Sources[x][j] => i = j
  <2>1. CASE x = "classical_only"
    BY <2>1, <1>1, <1>2
  <2>2. CASE x = "hybrid_standard"
    BY <2>2, <1>1, <1>2
  <2>3. CASE x = "hybrid_high"
    BY <2>3, <1>1, <1>2
  <2> QED
    BY <2>1, <2>2, <2>3, <1>3
<1>5. ASSUME NEW x \in ProfileId, NEW y \in ProfileId, Len(Sources[x]) = Len(Sources[y]),
             \A i \in 1..Len(Sources[x]) : Sources[x][i] = Sources[y][i]
      PROVE  x = y
  BY <1>1, <1>3, <1>5
<1> QED
  BY <1>4, <1>5

\* A profile is found by its name.
LEMMA Named ==
  ASSUME NEW x \in ProfileId
  PROVE  Registered(Name[x]) /\ ProfileOf(Name[x]) = x
BY NamesAssumption DEF Registered, ProfileOf

\* Names are short, of valid bytes, and the algorithms have different ones.
LEMMA Names ==
  /\ \A x \in ProfileId \cup Alg :
        Name[x] \in Bytes /\ Name[x] # <<>> /\ Len(Name[x]) < Base /\ Decodes(Name[x])
  /\ \A x, y \in Alg : Name[x] = Name[y] => x = y
BY NamesAssumption

\* The random bytes of a call: its ephemeral ciphertexts and its nonce.
LEMMA Randoms ==
  ASSUME NEW q \in Proc
  PROVE  /\ Random[q] \in Byte
         /\ \A a \in Alg : /\ CtLen[a] \in Nat \ {0}
                           /\ Encapsulated(q, a) \in Bytes /\ Len(Encapsulated(q, a)) = CtLen[a]
         /\ NonceLen \in Nat \ {0}
         /\ [i \in 1..NonceLen |-> Random[q]] \in Bytes
         /\ Len([i \in 1..NonceLen |-> Random[q]]) = NonceLen
         /\ [i \in 1..NonceLen |-> Random[q]] # None
<1>1. Random[q] \in Byte /\ NonceLen \in Nat \ {0} /\ None \notin Bytes
  BY RandomAssumption, LayoutAssumption
<1>2. ASSUME NEW n \in Nat
      PROVE  [i \in 1..n |-> Random[q]] \in Seq(Byte) /\ Len([i \in 1..n |-> Random[q]]) = n
  BY <1>1
<1>3. \A a \in Alg : CtLen[a] \in Nat \ {0}
  BY LengthsAssumption
<1>4. \A a \in Alg : Encapsulated(q, a) \in Bytes /\ Len(Encapsulated(q, a)) = CtLen[a]
  BY <1>2, <1>3 DEF Encapsulated, Bytes
<1>5. /\ [i \in 1..NonceLen |-> Random[q]] \in Bytes
      /\ Len([i \in 1..NonceLen |-> Random[q]]) = NonceLen
  BY <1>1, <1>2 DEF Bytes
<1> QED
  BY <1>1, <1>3, <1>4, <1>5

\* The key pairs of a well-formed bundle are those of its profile.
LEMMA Keys ==
  ASSUME NEW b \in Bundle, WellFormed(b)
  PROVE  /\ b.profile \in ProfileId /\ b.keys \in Seq(KeyPair)
         /\ Len(b.keys) = Len(Sources[b.profile]) /\ Len(b.keys) \in {1, 2}
         /\ \A i \in 1..Len(b.keys) : /\ b.keys[i] \in KeyPair /\ b.keys[i].alg \in Alg
                                      /\ b.keys[i].alg = Sources[b.profile][i]
         /\ \A i, j \in 1..Len(b.keys) : b.keys[i].alg = b.keys[j].alg => i = j
<1>1. b.profile \in ProfileId /\ b.keys \in Seq(KeyPair)
  BY DEF Bundle
<1>2. /\ Len(b.keys) = Len(Sources[b.profile])
      /\ \A i \in 1..Len(b.keys) : b.keys[i].alg = Sources[b.profile][i]
  BY DEF WellFormed
<1>3. \A i \in 1..Len(b.keys) : b.keys[i] \in KeyPair
  BY <1>1, ElementOfSeq
<1>4. \A pair \in KeyPair : pair.alg \in Alg
  BY DEF KeyPair
<1> QED
  BY <1>1, <1>2, <1>3, <1>4, SourcesAre

\* The header that a call makes is one that the parser takes.
LEMMA HeaderMade ==
  ASSUME NEW q \in Proc, NEW b, Sendable(q, b)
  PROVE  /\ Parsable(NewHeader(q, b))
         /\ Listable(NewHeader(q, b).comps)
         /\ NewHeader(q, b).version = 2
         /\ NewHeader(q, b).profile = Name[b.profile]
         /\ NewHeader(q, b).nonce = [i \in 1..NonceLen |-> Random[q]]
         /\ Len(NewHeader(q, b).comps) = Len(b.keys)
         /\ \A i \in 1..Len(b.keys) : /\ NewHeader(q, b).comps[i].alg = Name[b.keys[i].alg]
                                      /\ NewHeader(q, b).comps[i].ct = Encapsulated(q, b.keys[i].alg)
<1> DEFINE h == NewHeader(q, b)
<1>1. b \in Bundle /\ WellFormed(b) /\ Encodable(h)
  BY DEF Sendable
<1>2. /\ b.profile \in ProfileId
      /\ Len(b.keys) \in {1, 2}
      /\ \A i \in 1..Len(b.keys) : b.keys[i].alg \in Alg
      /\ \A i, j \in 1..Len(b.keys) : b.keys[i].alg = b.keys[j].alg => i = j
  BY <1>1, Keys
<1>3. /\ h.version = 2
      /\ h.profile = Name[b.profile]
      /\ h.nonce = [i \in 1..NonceLen |-> Random[q]]
      /\ h.comps = [i \in 1..Len(b.keys) |->
                      [alg |-> Name[b.keys[i].alg], ct |-> Encapsulated(q, b.keys[i].alg)]]
      /\ h = [version |-> h.version, profile |-> h.profile, comps |-> h.comps, nonce |-> h.nonce]
  BY DEF NewHeader, FormatVersion
<1> HIDE DEF h
<1>4. \A i \in 1..Len(b.keys) : /\ Name[b.keys[i].alg] \in Bytes /\ Name[b.keys[i].alg] # <<>>
                                /\ Decodes(Name[b.keys[i].alg])
                                /\ Encapsulated(q, b.keys[i].alg) \in Bytes
  BY <1>2, Names, Randoms
<1>5. h.comps \in Seq(Component) /\ Len(h.comps) = Len(b.keys)
  BY <1>2, <1>3, <1>4 DEF Component
<1>6. \A i \in 1..Len(b.keys) : /\ h.comps[i].alg = Name[b.keys[i].alg]
                                /\ h.comps[i].ct = Encapsulated(q, b.keys[i].alg)
  BY <1>3
<1>7. h \in Header
  <2>1. h.version \in SupportedVersions
    BY <1>3 DEF SupportedVersions
  <2>2. h.profile \in Bytes
    BY <1>2, <1>3, Names
  <2>3. h.nonce \in Bytes \cup {None}
    BY <1>3, Randoms
  <2>4. h.comps \in Seq([alg : Bytes, ct : Bytes])
    BY <1>5 DEF Component
  <2> QED
    BY <2>1, <2>2, <2>3, <2>4, <1>3 DEF Header
<1>8. \A i \in 1..Len(h.comps) : Fits(h.comps[i])
  BY <1>1, <1>7, Written
<1>9. \A i, j \in 1..Len(h.comps) : h.comps[i].alg = h.comps[j].alg => i = j
  <2>1. ASSUME NEW i \in 1..Len(h.comps), NEW j \in 1..Len(h.comps),
               h.comps[i].alg = h.comps[j].alg
        PROVE  i = j
    <3>1. Name[b.keys[i].alg] = Name[b.keys[j].alg]
      BY <1>5, <1>6, <2>1
    <3>2. b.keys[i].alg = b.keys[j].alg
      BY <1>2, <1>5, <3>1, Names
    <3> QED
      BY <1>2, <1>5, <3>2
  <2> QED
    BY <2>1
<1>10. Acceptable(h.comps)
  BY <1>4, <1>5, <1>6, <1>8, <1>9 DEF Acceptable
<1>11. h.comps # <<>>
  <2>1. PICK n \in Nat : n = Len(b.keys) /\ n # 0
    BY <1>2
  <2>2. Len(h.comps) # 0
    BY <1>5, <2>1
  <2>3. Len(<<>>) = 0
    OBVIOUS
  <2> QED
    BY <2>2, <2>3
<1>12. h.profile # <<>> /\ Decodes(h.profile)
  BY <1>2, <1>3, Names
<1>13. Parsable(h)
  BY <1>1, <1>3, <1>7, <1>10, <1>11, <1>12 DEF Parsable
<1>14. Listable(h.comps)
  BY <1>1, <1>5, <1>8 DEF Listable, Encodable
<1> QED
  BY <1>3, <1>5, <1>6, <1>13, <1>14 DEF h
-----------------------------------------------------------------------------
\* Headers that calls send.

\* A sequence begins with itself, with its first part, and with what its first
\* part begins with.
LEMMA PrefixSelf ==
  ASSUME NEW a \in Bytes
  PROVE  IsPrefix(a, a)
<1>1. a \in Seq(Byte)
  BY DEF Bytes
<1>2. Len(a) <= Len(a) /\ \A i \in 1..Len(a) : a[i] = a[i]
  BY BytesAre
<1> QED
  BY <1>1, <1>2, PrefixElements

\* Bytes begin with their first part.
LEMMA PrefixPart ==
  ASSUME NEW a \in Bytes, NEW b \in Bytes
  PROVE  IsPrefix(a, a \o b)
<1>1. /\ a \o b \in Bytes /\ Len(a \o b) = Len(a) + Len(b)
      /\ \A i \in 1..Len(a) : (a \o b)[i] = a[i]
  BY Joined
<1>2. Len(a) \in Nat /\ Len(b) \in Nat
  BY BytesAre
<1>3. Len(a) <= Len(a \o b)
  BY <1>1, <1>2
<1>4. a \in Seq(Byte) /\ a \o b \in Seq(Byte)
  BY <1>1 DEF Bytes
<1> QED
  BY <1>1, <1>3, <1>4, PrefixElements

\* A prefix of a prefix is a prefix.
LEMMA PrefixOfPrefix ==
  ASSUME NEW a \in Bytes, NEW b \in Bytes, NEW c \in Bytes, IsPrefix(a, b), IsPrefix(b, c)
  PROVE  IsPrefix(a, c)
<1>1. Len(a) \in Nat /\ Len(b) \in Nat /\ Len(c) \in Nat
  BY BytesAre
<1>2. Len(a) <= Len(b) /\ \A i \in 1..Len(a) : a[i] = b[i]
  BY PrefixElements DEF Bytes
<1>3. Len(b) <= Len(c) /\ \A i \in 1..Len(b) : b[i] = c[i]
  BY PrefixElements DEF Bytes
<1>4. Len(a) <= Len(c) /\ \A i \in 1..Len(a) : a[i] = c[i]
  BY <1>1, <1>2, <1>3
<1> QED
  BY <1>4, PrefixElements DEF Bytes

\* The header of a version is its magic, its version and the rest.
LEMMA OpeningBegins ==
  ASSUME NEW v \in Byte, NEW b \in Bytes, Len(b) < Base, NEW num \in Byte
  PROVE  /\ Opening(v, b, num) \in Bytes
         /\ Len(Opening(v, b, num)) > Len(Magic) + 1
         /\ Magic \o <<v>> \in Bytes
         /\ IsPrefix(Magic \o <<v>>, Opening(v, b, num))
<1>1. PICK p, r, s, t :
         /\ p = Magic \o <<v>> /\ r = p \o <<Len(b)>> /\ s = r \o b /\ t = s \o <<num>>
  OBVIOUS
<1>2. /\ Len(b) \in Byte
      /\ p \in Bytes /\ r \in Bytes /\ s \in Bytes /\ t \in Bytes
      /\ Opening(v, b, num) = t
      /\ Len(t) = Len(Magic) + 2 + Len(b) + 1
  <2>1. /\ Len(b) \in Byte
        /\ Magic \o <<v>> \in Bytes
        /\ (Magic \o <<v>>) \o <<Len(b)>> \in Bytes
        /\ ((Magic \o <<v>>) \o <<Len(b)>>) \o b \in Bytes
        /\ Opening(v, b, num) \in Bytes
    BY OpeningPieces
  <2>2. Opening(v, b, num) = (((Magic \o <<v>>) \o <<Len(b)>>) \o b) \o <<num>>
    BY OpeningPieces
  <2>3. Len(Opening(v, b, num)) = Len(Magic) + 2 + Len(b) + 1
    BY OpeningPieces
  <2> QED
    BY <2>1, <2>2, <2>3, <1>1
<1>3. <<num>> \in Bytes /\ <<Len(b)>> \in Bytes /\ Len(Magic) \in Nat /\ Len(b) \in Nat
  BY <1>2, BytesAre, LayoutAssumption
<1>4. IsPrefix(p, r)
  BY <1>1, <1>2, <1>3, PrefixPart
<1>5. IsPrefix(r, s)
  BY <1>1, <1>2, PrefixPart
<1>6. IsPrefix(s, t)
  BY <1>1, <1>2, <1>3, PrefixPart
<1>7. IsPrefix(p, s)
  BY <1>2, <1>4, <1>5, PrefixOfPrefix
<1>8. IsPrefix(p, t)
  BY <1>2, <1>6, <1>7, PrefixOfPrefix
<1>9. Len(t) > Len(Magic) + 1
  BY <1>2, <1>3
<1> QED
  BY <1>1, <1>2, <1>8, <1>9

\* The bytes a call sends, and what the parser makes of all that begins as its
\* header does.
LEMMA HeaderSent ==
  ASSUME NEW q \in Proc, NEW b, Sendable(q, b)
  PROVE  /\ ToBytes(NewHeader(q, b)) \in Bytes
         /\ Len(Magic) \in Nat
         /\ Len(ToBytes(NewHeader(q, b))) \in Nat
         /\ Len(ToBytes(NewHeader(q, b))) > Len(Magic) + 1
         /\ ToBytes(NewHeader(q, b))[Len(Magic) + 1] = 2
         /\ \A data \in Bytes : IsPrefix(ToBytes(NewHeader(q, b)), data) =>
               /\ Parse(data).ok /\ Parse(data).header = NewHeader(q, b)
               /\ Parse(data).consumed = Len(ToBytes(NewHeader(q, b)))
<1> DEFINE h == NewHeader(q, b)
<1>1. Parsable(h) /\ h.version = 2
  BY HeaderMade
<1> HIDE DEF h
<1>2. h \in Header /\ Encodable(h)
  BY <1>1 DEF Parsable
<1>3. /\ h.version \in Byte /\ Len(h.comps) \in Byte
      /\ h.profile \in Bytes /\ Len(h.profile) < Base
      /\ Body(h.comps) \in Bytes /\ Ending(h) \in Bytes /\ ToBytes(h) \in Bytes
  BY <1>2, Written
<1>4. PICK o, v, l : /\ o = Opening(h.version, h.profile, Len(h.comps))
                     /\ v = <<h.version>> /\ l = ToBytes(h)
  OBVIOUS
<1>5. o \in Bytes /\ Len(o) > Len(Magic) + 1 /\ Magic \o v \in Bytes /\ IsPrefix(Magic \o v, o)
  BY <1>3, <1>4, OpeningBegins
<1>6. /\ Magic \in Bytes /\ Len(Magic) \in Nat
      /\ v \in Bytes /\ v[1] = h.version /\ Len(v) = 1
  BY <1>3, <1>4, BytesAre, LayoutAssumption
<1>7. l = (o \o Body(h.comps)) \o Ending(h) /\ l \in Bytes
  BY <1>3, <1>4, Parts
<1>8. o \o Body(h.comps) \in Bytes
  BY <1>3, <1>5, Joined
<1>9. IsPrefix(o, o \o Body(h.comps)) /\ IsPrefix(o \o Body(h.comps), l)
  <2>1. IsPrefix(o, o \o Body(h.comps))
    BY <1>3, <1>5, PrefixPart
  <2>2. IsPrefix(o \o Body(h.comps), l)
    BY <1>3, <1>7, <1>8, PrefixPart
  <2> QED
    BY <2>1, <2>2
<1>10. IsPrefix(o, l)
  BY <1>5, <1>7, <1>8, <1>9, PrefixOfPrefix
<1>11. IsPrefix(Magic \o v, l)
  BY <1>5, <1>7, <1>10, PrefixOfPrefix
<1>12. l[Len(Magic) + 1] = 2
  <2>1. Chopped(Magic, v, l)
    BY <1>6, <1>7, <1>11, ChopBytes
  <2>2. \A i \in 1..Len(v) : l[Len(Magic) + i] = v[i]
    BY <2>1 DEF Chopped
  <2>3. 1 \in 1..Len(v)
    BY <1>6
  <2> QED
    BY <2>2, <2>3, <1>6, <1>1
<1>13. Len(l) \in Nat /\ Len(l) > Len(Magic) + 1
  <2>1. Len(o) <= Len(l)
    BY <1>5, <1>7, <1>10, PrefixElements DEF Bytes
  <2>2. Len(o) \in Nat /\ Len(l) \in Nat
    BY <1>5, <1>7, BytesAre
  <2> QED
    BY <2>1, <2>2, <1>5, <1>6
<1>14. ASSUME NEW data \in Bytes, IsPrefix(ToBytes(h), data)
       PROVE  /\ Parse(data).ok /\ Parse(data).header = h
              /\ Parse(data).consumed = Len(ToBytes(h))
  BY <1>1, <1>14, ParseComplete
<1> QED
  BY <1>4, <1>6, <1>7, <1>12, <1>13, <1>14 DEF h

\* The parts of the blob that a call sends.
LEMMA LetterParts ==
  ASSUME NEW q \in Proc, NEW b, Sendable(q, b)
  PROVE  /\ Letter(q, b) \in Bytes
         /\ Len(Letter(q, b)) = Len(ToBytes(NewHeader(q, b))) + 1
         /\ Letter(q, b)[Len(Letter(q, b))] = Random[q]
         /\ IsPrefix(ToBytes(NewHeader(q, b)), Letter(q, b))
         /\ SubSeq(Letter(q, b), 1, Len(ToBytes(NewHeader(q, b)))) = ToBytes(NewHeader(q, b))
         /\ SubSeq(Letter(q, b), Len(ToBytes(NewHeader(q, b))) + 1, Len(Letter(q, b)))
               = <<Random[q]>>
<1>1. PICK a, r : a = ToBytes(NewHeader(q, b)) /\ r = Random[q]
  OBVIOUS
<1>2. a \in Bytes /\ r \in Byte /\ Len(a) \in Nat
  BY <1>1, HeaderSent, Randoms
<1>3. <<r>> \in Bytes /\ Len(<<r>>) = 1 /\ <<r>>[1] = r
  BY <1>2, BytesAre
<1>4. PICK l : l = a \o <<r>> /\ l = Letter(q, b)
  BY <1>1 DEF Letter
<1>5. /\ l \in Bytes /\ Len(l) = Len(a) + 1
      /\ \A i \in 1..Len(<<r>>) : l[Len(a) + i] = <<r>>[i]
  BY <1>2, <1>3, <1>4, Joined
<1>6. l[Len(a) + 1] = r
  <2>1. 1 \in 1..Len(<<r>>)
    BY <1>3
  <2> QED
    BY <2>1, <1>3, <1>5
<1>7. IsPrefix(a, l) /\ IsPrefix(l, l)
  BY <1>2, <1>3, <1>4, <1>5, PrefixPart, PrefixSelf
<1>8. Chopped(a, <<r>>, l)
  BY <1>2, <1>3, <1>4, <1>5, <1>7, ChopBytes
<1>9. SubSeq(l, Len(a) + 1, Len(a) + Len(<<r>>)) = <<r>>
  BY <1>8 DEF Chopped
<1>10. SubSeq(l, 1, Len(a)) = a
  <2>1. SubSeq(a, 1, Len(a)) = SubSeq(l, 1, Len(a))
    BY <1>7 DEF IsPrefix
  <2>2. a \in Seq(Byte)
    BY <1>2 DEF Bytes
  <2>3. SubSeq(a, 1, Len(a)) = a
    BY <2>2, SubSeqFull
  <2> QED
    BY <2>1, <2>3
<1> QED
  BY <1>1, <1>3, <1>4, <1>5, <1>6, <1>7, <1>9, <1>10

\* Two calls do not begin their blobs with one header.
LEMMA HeadersDiffer ==
  ASSUME NEW q \in Proc, NEW b, Sendable(q, b), NEW o \in Proc, NEW c, Sendable(o, c),
         NEW data \in Bytes,
         IsPrefix(ToBytes(NewHeader(q, b)), data), IsPrefix(ToBytes(NewHeader(o, c)), data)
  PROVE  q = o
<1>1. Parse(data).header = NewHeader(q, b) /\ Parse(data).header = NewHeader(o, c)
  BY HeaderSent
<1>2. [i \in 1..NonceLen |-> Random[q]] = [i \in 1..NonceLen |-> Random[o]]
  <2>1. NewHeader(q, b).nonce = [i \in 1..NonceLen |-> Random[q]]
    BY HeaderMade
  <2>2. NewHeader(o, c).nonce = [i \in 1..NonceLen |-> Random[o]]
    BY HeaderMade
  <2> QED
    BY <1>1, <2>1, <2>2
<1>3. NonceLen \in Nat \ {0}
  BY LayoutAssumption
<1>4. [i \in 1..NonceLen |-> Random[q]][1] = [i \in 1..NonceLen |-> Random[o]][1]
  BY <1>2
<1>5. Random[q] = Random[o]
  BY <1>3, <1>4
<1> QED
  BY <1>5, RandomAssumption
-----------------------------------------------------------------------------
\* Keys, and what they tell.

\* The secret of a key pair and a ciphertext.
LEMMA SecretType ==
  ASSUME NEW pair \in KeyPair, NEW ct \in Bytes
  PROVE  Secret(pair, ct) \in [pair : KeyPair, ct : Bytes] /\ Secret(pair, ct).pair = pair
<1>1. Masked(ct) \in Bytes
  <2>1. PICK m : m = Base \div 2
    OBVIOUS
  <2>2. m \in Nat /\ m > 0 /\ m < Base /\ Base \in Nat
    BY <2>1, BaseAssumption DEF FormatVersion
  <2>3. ASSUME NEW x \in Byte PROVE x % m \in Byte
    <3>1. x \in Nat
      BY <2>2 DEF Byte
    <3>2. x % m \in 0..(m - 1)
      BY <3>1, <2>2
    <3> QED
      BY <3>2, <2>2 DEF Byte
  <2>4. Masked(ct) = [ct EXCEPT ![Len(ct)] = ct[Len(ct)] % m]
    BY <2>1 DEF Masked
  <2>5. \A i \in 1..Len(ct) : ct[i] \in Byte
    BY BytesAre
  <2>6. ct \in Seq(Byte)
    BY DEF Bytes
  <2>7. [ct EXCEPT ![Len(ct)] = ct[Len(ct)] % m] \in Seq(Byte)
    <3>1. Len(ct) \in Nat /\ DOMAIN ct = 1..Len(ct)
      BY <2>6
    <3>2. [ct EXCEPT ![Len(ct)] = ct[Len(ct)] % m]
            = [i \in 1..Len(ct) |-> IF i = Len(ct) THEN ct[Len(ct)] % m ELSE ct[i]]
      BY <3>1
    <3>3. \A i \in 1..Len(ct) : (IF i = Len(ct) THEN ct[Len(ct)] % m ELSE ct[i]) \in Byte
      BY <2>3, <2>5
    <3>4. [i \in 1..Len(ct) |-> IF i = Len(ct) THEN ct[Len(ct)] % m ELSE ct[i]] \in Seq(Byte)
      <4>1. PICK f : f = [i \in 1..Len(ct) |-> IF i = Len(ct) THEN ct[Len(ct)] % m ELSE ct[i]]
        OBVIOUS
      <4>2. f \in [1..Len(ct) -> Byte]
        BY <3>3, <4>1
      <4> QED
        <5>1. PICK n \in Nat : n = Len(ct)
          BY <3>1
        <5>2. f \in [1..n -> Byte]
          BY <4>2, <5>1
        <5>3. f \in Seq(Byte)
          BY <5>2
        <5> QED
          BY <4>1, <5>3
    <3> QED
      BY <3>2, <3>4
  <2> QED
    BY <2>4, <2>7 DEF Bytes
<1> QED
  BY <1>1 DEF Secret

\* A root key is one, and the header it is derived from need only be encodable.
LEMMA KeyType ==
  ASSUME NEW ks \in Seq(KeyPair), NEW h, Listable(h.comps), Len(ks) = Len(h.comps)
  PROVE  RecoveredKey(ks, h) \in RootKeys
<1>1. h.comps \in Seq(Component) /\ Len(h.comps) \in Nat
  BY DEF Listable
<1>2. \A i \in 1..Len(ks) : ks[i] \in KeyPair /\ h.comps[i].ct \in Bytes
  <2>1. \A i \in 1..Len(h.comps) : h.comps[i] \in Component
    BY <1>1, ElementOfSeq
  <2>2. \A c \in Component : c.ct \in Bytes
    BY DEF Component
  <2>3. \A i \in 1..Len(ks) : ks[i] \in KeyPair
    BY ElementOfSeq
  <2> QED
    BY <2>1, <2>2, <2>3
<1>3. \A i \in 1..Len(ks) : Secret(ks[i], h.comps[i].ct) \in [pair : KeyPair, ct : Bytes]
  BY <1>2, SecretType
<1>4. [i \in 1..Len(ks) |-> Secret(ks[i], h.comps[i].ct)] \in Seq([pair : KeyPair, ct : Bytes])
  BY <1>3
<1>5. EncodeInfo(h.comps) \in Bytes
  BY InfoType
<1> QED
  BY <1>4, <1>5 DEF RecoveredKey, RootKey, RootKeys

\* A root key tells the key pairs and the components it was made of.
LEMMA KeyInjective ==
  ASSUME NEW ks \in Seq(KeyPair), NEW h, Listable(h.comps), Len(ks) = Len(h.comps),
         NEW ls \in Seq(KeyPair), NEW g, Listable(g.comps), Len(ls) = Len(g.comps),
         RecoveredKey(ks, h) = RecoveredKey(ls, g)
  PROVE  ks = ls /\ h.comps = g.comps
<1>1. PICK s, t : /\ s = [i \in 1..Len(ks) |-> Secret(ks[i], h.comps[i].ct)]
                  /\ t = [i \in 1..Len(ls) |-> Secret(ls[i], g.comps[i].ct)]
  OBVIOUS
<1>2. /\ [ikm |-> s, info |-> EncodeInfo(h.comps)] = RecoveredKey(ks, h)
      /\ [ikm |-> t, info |-> EncodeInfo(g.comps)] = RecoveredKey(ls, g)
  BY <1>1 DEF RecoveredKey, RootKey
<1>3. s = t /\ EncodeInfo(h.comps) = EncodeInfo(g.comps)
  <2>1. [ikm |-> s, info |-> EncodeInfo(h.comps)] = [ikm |-> t, info |-> EncodeInfo(g.comps)]
    BY <1>2
  <2>2. [ikm |-> s, info |-> EncodeInfo(h.comps)].ikm = [ikm |-> t, info |-> EncodeInfo(g.comps)].ikm
    BY <2>1
  <2>3. [ikm |-> s, info |-> EncodeInfo(h.comps)].info = [ikm |-> t, info |-> EncodeInfo(g.comps)].info
    BY <2>1
  <2> QED
    BY <2>2, <2>3
<1>4. h.comps = g.comps
  BY <1>3, InfoInjective
<1>5. Len(ks) = Len(ls)
  BY <1>4
<1>6. ASSUME NEW i \in 1..Len(ks) PROVE ks[i] = ls[i]
  <2>1. s[i] = Secret(ks[i], h.comps[i].ct) /\ t[i] = Secret(ls[i], g.comps[i].ct)
    BY <1>1, <1>5, <1>6
  <2>2. Secret(ks[i], h.comps[i].ct).pair = Secret(ls[i], g.comps[i].ct).pair
    BY <1>3, <2>1
  <2> QED
    BY <2>2 DEF Secret
<1>7. ks = ls
  BY <1>5, <1>6, SeqEqual
<1> QED
  BY <1>4, <1>7

\* The key a sender derives is the one its recipient recovers.
LEMMA KeyOfRecipient ==
  ASSUME NEW q \in Proc, NEW b, Sendable(q, b)
  PROVE  /\ b.keys \in Seq(KeyPair) /\ Len(b.keys) = Len(NewHeader(q, b).comps)
         /\ RecoveredKey(b.keys, NewHeader(q, b)) = NewKey(q, b)
         /\ NewKey(q, b) \in RootKeys
<1>1. b.keys \in Seq(KeyPair) /\ Len(b.keys) \in Nat
  BY Keys DEF Sendable
<1>2. /\ Listable(NewHeader(q, b).comps)
      /\ Len(NewHeader(q, b).comps) = Len(b.keys)
      /\ \A i \in 1..Len(b.keys) : NewHeader(q, b).comps[i].ct = Encapsulated(q, b.keys[i].alg)
  BY HeaderMade
<1>3. [i \in 1..Len(b.keys) |-> Secret(b.keys[i], NewHeader(q, b).comps[i].ct)]
        = [i \in 1..Len(b.keys) |-> Secret(b.keys[i], Encapsulated(q, b.keys[i].alg))]
  BY <1>2
<1>4. RecoveredKey(b.keys, NewHeader(q, b)) = NewKey(q, b)
  BY <1>3 DEF RecoveredKey, NewKey
<1>5. RecoveredKey(b.keys, NewHeader(q, b)) \in RootKeys
  BY <1>1, <1>2, KeyType
<1> QED
  BY <1>1, <1>2, <1>4, <1>5

\* Who recovers the key of what was sent has the components that were sent.
LEMMA KeyTells ==
  ASSUME NEW q \in Proc, NEW b, Sendable(q, b),
         NEW ks \in Seq(KeyPair), NEW h \in Header, Encodable(h), Recovers(ks, h),
         RecoveredKey(ks, h) = NewKey(q, b)
  PROVE  ks = b.keys /\ h.comps = NewHeader(q, b).comps
<1>1. Len(ks) = Len(h.comps)
  BY DEF Recovers
<1>2. Listable(h.comps)
  <2>1. h.comps \in Seq(Component) /\ \A i \in 1..Len(h.comps) : Fits(h.comps[i])
    BY Written
  <2>2. Len(h.comps) < Base
    BY DEF Encodable
  <2> QED
    BY <2>1, <2>2 DEF Listable
<1>3. PICK g, ls : g = NewHeader(q, b) /\ ls = b.keys
  OBVIOUS
<1>4. Listable(g.comps)
  BY <1>3, HeaderMade
<1>5. ls \in Seq(KeyPair) /\ Len(ls) = Len(g.comps) /\ RecoveredKey(ks, h) = RecoveredKey(ls, g)
  BY <1>3, KeyOfRecipient
<1>6. ks = ls /\ h.comps = g.comps
  BY <1>1, <1>2, <1>4, <1>5, KeyInjective
<1> QED
  BY <1>3, <1>6

\* The algorithms of a header tell its profile.
LEMMA ProfileTold ==
  ASSUME NEW q \in Proc, NEW b, Sendable(q, b), NEW ks, NEW h, Recovers(ks, h),
         h.comps = NewHeader(q, b).comps
  PROVE  Registered(h.profile) /\ ProfileOf(h.profile) = b.profile
<1>1. Registered(h.profile)
  BY DEF Recovers
<1>2. PICK x : x = ProfileOf(h.profile)
  OBVIOUS
<1>3. x \in ProfileId
  BY <1>1, <1>2 DEF Registered, ProfileOf
<1>4. /\ b.profile \in ProfileId
      /\ Len(b.keys) = Len(Sources[b.profile])
      /\ \A i \in 1..Len(b.keys) : b.keys[i].alg \in Alg /\ b.keys[i].alg = Sources[b.profile][i]
  BY Keys DEF Sendable
<1>5. /\ Len(h.comps) = Len(b.keys)
      /\ \A i \in 1..Len(b.keys) : h.comps[i].alg = Name[b.keys[i].alg]
  BY HeaderMade
<1>6. /\ Len(Sources[x]) = Len(h.comps)
      /\ \A i \in 1..Len(Sources[x]) : Name[Sources[x][i]] = h.comps[i].alg
  BY <1>2 DEF Recovers
<1>7. \A i \in 1..Len(Sources[x]) : Sources[x][i] \in Alg
  BY <1>3, SourcesAre
<1>8. \A i \in 1..Len(Sources[x]) : Sources[x][i] = Sources[b.profile][i]
  BY <1>4, <1>5, <1>6, <1>7, Names
<1>9. Len(Sources[x]) = Len(Sources[b.profile])
  BY <1>4, <1>5, <1>6
<1>10. x = b.profile
  BY <1>3, <1>4, <1>8, <1>9, SourcesAre
<1> QED
  BY <1>1, <1>2, <1>10

\* What was sent is granted to the handles it was meant for, when its profile
\* meets the minimum.
LEMMA GenuineGranted ==
  ASSUME NEW q \in Proc, NEW b, Sendable(q, b), NEW c, c.handles = b.keys,
         c.min # None => c.min \in ProfileId /\ Strength[b.profile] >= Strength[c.min]
  PROVE  Granted(c, NewHeader(q, b)) /\ ~TooWeak(c, NewHeader(q, b))
<1>1. PICK h : h = NewHeader(q, b)
  OBVIOUS
<1>2. /\ h.profile = Name[b.profile]
      /\ h.nonce = [i \in 1..NonceLen |-> Random[q]]
      /\ Len(h.comps) = Len(b.keys)
      /\ \A i \in 1..Len(b.keys) : /\ h.comps[i].alg = Name[b.keys[i].alg]
                                   /\ h.comps[i].ct = Encapsulated(q, b.keys[i].alg)
  <2>1. /\ NewHeader(q, b).profile = Name[b.profile]
        /\ NewHeader(q, b).nonce = [i \in 1..NonceLen |-> Random[q]]
        /\ Len(NewHeader(q, b).comps) = Len(b.keys)
    BY HeaderMade
  <2>2. \A i \in 1..Len(b.keys) :
           /\ NewHeader(q, b).comps[i].alg = Name[b.keys[i].alg]
           /\ NewHeader(q, b).comps[i].ct = Encapsulated(q, b.keys[i].alg)
    BY HeaderMade
  <2> QED
    BY <1>1, <2>1, <2>2
<1>3. /\ b.profile \in ProfileId
      /\ Len(b.keys) = Len(Sources[b.profile])
      /\ \A i \in 1..Len(b.keys) : b.keys[i].alg \in Alg /\ b.keys[i].alg = Sources[b.profile][i]
  BY Keys DEF Sendable
<1>4. Registered(h.profile) /\ ProfileOf(h.profile) = b.profile
  BY <1>2, <1>3, Named
<1>5. h.nonce # None
  BY <1>2, Randoms
<1>6. \A x \in ProfileId : Strength[x] \in Nat
  BY DEF Strength, ProfileId
<1>7. ~TooWeak(c, h)
  BY <1>3, <1>4, <1>6, NoneAssumption DEF TooWeak
<1>8. ASSUME NEW i \in 1..Len(b.keys)
      PROVE  CanDecapsulate(Sources[b.profile][i], b.keys[i], h.comps[i].ct)
  <2>1. Len(Encapsulated(q, b.keys[i].alg)) = CtLen[b.keys[i].alg]
    BY <1>3, <1>8, Randoms
  <2> QED
    BY <2>1, <1>2, <1>3, <1>8 DEF CanDecapsulate
<1>9. Recovers(c.handles, h)
  BY <1>2, <1>3, <1>4, <1>8 DEF Recovers
<1> QED
  BY <1>1, <1>4, <1>5, <1>7, <1>9 DEF Granted
-----------------------------------------------------------------------------
\* Bytes that are made of what was sent.

\* Bytes that no call outside Q can send.
Echo(d, Q) ==
  d \in Bytes /\ \A q \in Proc : \A e \in Bundle : Sendable(q, e) /\ d = Letter(q, e) => q \in Q

\* A part of bytes, from the first or up to the last.
LEMMA Cut ==
  ASSUME NEW b \in Bytes, NEW n \in 0..Len(b)
  PROVE  /\ SubSeq(b, 1, n) \in Bytes /\ Len(SubSeq(b, 1, n)) = n
         /\ \A i \in 1..n : SubSeq(b, 1, n)[i] = b[i]
         /\ IsPrefix(SubSeq(b, 1, n), b)
         /\ SubSeq(b, n + 1, Len(b)) \in Bytes /\ Len(SubSeq(b, n + 1, Len(b))) = Len(b) - n
         /\ \A i \in 1..(Len(b) - n) : SubSeq(b, n + 1, Len(b))[i] = b[n + i]
<1>1. Len(b) \in Nat /\ n \in Nat /\ n <= Len(b) /\ \A i \in 1..Len(b) : b[i] \in Byte
  BY BytesAre
<1>2. /\ SubSeq(b, 1, n) \in Seq(Byte) /\ Len(SubSeq(b, 1, n)) = n
      /\ \A i \in 1..n : SubSeq(b, 1, n)[i] = b[i]
  <2>1. 1 \in Int /\ n \in Int /\ \A i \in 1..n : b[i] \in Byte
    BY <1>1
  <2>2. /\ SubSeq(b, 1, n) \in Seq(Byte)
        /\ Len(SubSeq(b, 1, n)) = IF 1 <= n THEN n - 1 + 1 ELSE 0
        /\ \A i \in 1..(n - 1 + 1) : SubSeq(b, 1, n)[i] = b[1 + i - 1]
    BY <2>1, SubSeqProperties
  <2> QED
    BY <1>1, <2>2
<1>3. IsPrefix(SubSeq(b, 1, n), b)
  <2>1. b \in Seq(Byte)
    BY DEF Bytes
  <2>2. Len(SubSeq(b, 1, n)) <= Len(b)
    BY <1>1, <1>2
  <2>3. \A i \in 1..Len(SubSeq(b, 1, n)) : SubSeq(b, 1, n)[i] = b[i]
    BY <1>2
  <2> QED
    BY <1>2, <2>1, <2>2, <2>3, PrefixElements
<1>4. /\ SubSeq(b, n + 1, Len(b)) \in Seq(Byte) /\ Len(SubSeq(b, n + 1, Len(b))) = Len(b) - n
      /\ \A i \in 1..(Len(b) - n) : SubSeq(b, n + 1, Len(b))[i] = b[n + i]
  <2>1. PICK m, l : m = n + 1 /\ l = Len(b)
    OBVIOUS
  <2>2. m \in Int /\ l \in Int /\ \A i \in m..l : b[i] \in Byte
    BY <1>1, <2>1
  <2>3. /\ SubSeq(b, m, l) \in Seq(Byte)
        /\ Len(SubSeq(b, m, l)) = IF m <= l THEN l - m + 1 ELSE 0
        /\ \A i \in 1..(l - m + 1) : SubSeq(b, m, l)[i] = b[m + i - 1]
    BY <2>2, SubSeqProperties
  <2>4. /\ (IF m <= l THEN l - m + 1 ELSE 0) = l - n
        /\ l - m + 1 = l - n
        /\ \A i \in 1..(l - n) : m + i - 1 = n + i
    BY <1>1, <2>1
  <2>5. /\ Len(SubSeq(b, m, l)) = l - n
        /\ \A i \in 1..(l - n) : SubSeq(b, m, l)[i] = b[n + i]
    BY <2>3, <2>4
  <2> QED
    BY <2>1, <2>3, <2>5
<1> QED
  BY <1>2, <1>3, <1>4 DEF Bytes

\* One byte changed.
LEMMA Changed ==
  ASSUME NEW b \in Bytes, NEW i \in 1..Len(b), NEW x \in Byte
  PROVE  /\ [b EXCEPT ![i] = x] \in Bytes /\ Len([b EXCEPT ![i] = x]) = Len(b)
         /\ [b EXCEPT ![i] = x][i] = x
         /\ \A j \in 1..Len(b) : j # i => [b EXCEPT ![i] = x][j] = b[j]
<1>1. b \in Seq(Byte)
  BY DEF Bytes
<1>2. [b EXCEPT ![i] = x] \in Seq(Byte) /\ Len([b EXCEPT ![i] = x]) = Len(b)
  BY <1>1, ExceptSeq
<1>3. \A j \in 1..Len(b) : [b EXCEPT ![i] = x][j] = IF j = i THEN x ELSE b[j]
  BY <1>1
<1> QED
  BY <1>2, <1>3 DEF Bytes

-----------------------------------------------------------------------------
\* Whose a blob is: by its last byte, by what it begins, by what begins it.
LEMMA ByLast ==
  ASSUME NEW Q, NEW d \in Bytes, NEW o \in Proc, o \in Q, d[Len(d)] = Random[o]
  PROVE  Echo(d, Q)
<1>1. ASSUME NEW q \in Proc, NEW e \in Bundle, Sendable(q, e), d = Letter(q, e)
      PROVE  q \in Q
  <2>1. Letter(q, e)[Len(Letter(q, e))] = Random[q]
    BY <1>1, LetterParts
  <2>2. Random[q] = Random[o]
    BY <1>1, <2>1
  <2> QED
    BY <2>2, RandomAssumption
<1> QED
  BY <1>1 DEF Echo

\* No one outside Q can send a part of what a call of Q may send, nor the whole;
LEMMA ByWhole ==
  ASSUME NEW Q, NEW d \in Bytes, NEW o \in Proc, o \in Q, NEW c, Sendable(o, c),
         IsPrefix(d, Letter(o, c))
  PROVE  Echo(d, Q)
<1>1. ASSUME NEW q \in Proc, NEW e \in Bundle, Sendable(q, e), d = Letter(q, e)
      PROVE  q \in Q
  <2>1. ToBytes(NewHeader(q, e)) \in Bytes /\ IsPrefix(ToBytes(NewHeader(q, e)), Letter(q, e))
    BY <1>1, HeaderSent, LetterParts
  <2>2. Letter(o, c) \in Bytes /\ IsPrefix(ToBytes(NewHeader(o, c)), Letter(o, c))
    BY LetterParts
  <2>3. IsPrefix(ToBytes(NewHeader(q, e)), d)
    BY <1>1, <2>1
  <2>4. IsPrefix(ToBytes(NewHeader(q, e)), Letter(o, c))
    BY <2>1, <2>2, <2>3, PrefixOfPrefix
  <2>5. q = o
    BY <1>1, <2>2, <2>4, HeadersDiffer
  <2> QED
    BY <2>5
<1> QED
  BY <1>1 DEF Echo

\* nor anything that begins with the header of a call of Q.
LEMMA ByHeader ==
  ASSUME NEW Q, NEW d \in Bytes, NEW o \in Proc, o \in Q, NEW c, Sendable(o, c),
         IsPrefix(ToBytes(NewHeader(o, c)), d)
  PROVE  Echo(d, Q)
<1>1. ASSUME NEW q \in Proc, NEW e \in Bundle, Sendable(q, e), d = Letter(q, e)
      PROVE  q \in Q
  <2>1. IsPrefix(ToBytes(NewHeader(q, e)), Letter(q, e))
    BY <1>1, LetterParts
  <2>2. IsPrefix(ToBytes(NewHeader(q, e)), d)
    BY <1>1, <2>1
  <2>3. q = o
    BY <1>1, <2>2, HeadersDiffer
  <2> QED
    BY <2>3
<1> QED
  BY <1>1 DEF Echo

\* A blob has a magic and a version.
LEMMA LetterVersion ==
  ASSUME NEW q \in Proc, NEW e, Sendable(q, e)
  PROVE  /\ Len(Magic) + 1 \in 1..Len(Letter(q, e))
         /\ Letter(q, e)[Len(Magic) + 1] = 2
<1>1. PICK h, l, k : h = ToBytes(NewHeader(q, e)) /\ l = Letter(q, e) /\ k = Len(Magic) + 1
  OBVIOUS
<1>2. h \in Bytes /\ Len(Magic) \in Nat /\ Len(h) \in Nat /\ Len(h) > k /\ h[k] = 2
  BY <1>1, HeaderSent
<1>3. l \in Bytes /\ Len(l) = Len(h) + 1 /\ IsPrefix(h, l)
  BY <1>1, LetterParts
<1>4. \A i \in 1..Len(h) : h[i] = l[i]
  BY <1>2, <1>3, PrefixElements DEF Bytes
<1>5. k \in 1..Len(h) /\ k \in 1..Len(l)
  BY <1>1, <1>2, <1>3
<1> QED
  BY <1>1, <1>2, <1>4, <1>5

-----------------------------------------------------------------------------
\* What may become of the blobs o and r sent to c and g.
LEMMA Truncated ==
  ASSUME NEW Q, NEW o \in Proc, o \in Q, NEW c, Sendable(o, c), NEW n \in 0..Len(Letter(o, c))
  PROVE  Echo(SubSeq(Letter(o, c), 1, n), Q)
<1>1. Letter(o, c) \in Bytes
  BY LetterParts
<1>2. SubSeq(Letter(o, c), 1, n) \in Bytes /\ IsPrefix(SubSeq(Letter(o, c), 1, n), Letter(o, c))
  BY <1>1, Cut
<1> QED
  BY <1>2, ByWhole

\* One byte is another one.
LEMMA Altered ==
  ASSUME NEW Q, NEW o \in Proc, o \in Q, NEW c, Sendable(o, c),
         NEW i \in 1..Len(Letter(o, c)), NEW x \in Byte
  PROVE  Echo([Letter(o, c) EXCEPT ![i] = x], Q)
<1>1. PICK b, h, d : /\ b = Letter(o, c) /\ h = ToBytes(NewHeader(o, c))
                     /\ d = [b EXCEPT ![i] = x]
  OBVIOUS
<1>2. /\ b \in Bytes /\ h \in Bytes /\ Len(b) = Len(h) + 1 /\ b[Len(b)] = Random[o]
      /\ IsPrefix(h, b)
  BY <1>1, LetterParts, HeaderSent
<1>3. d \in Bytes /\ Len(d) = Len(b) /\ \A j \in 1..Len(b) : j # i => d[j] = b[j]
  <2>1. b \in Bytes /\ i \in 1..Len(b)
    BY <1>1, <1>2
  <2>2. [b EXCEPT ![i] = x] \in Bytes /\ Len([b EXCEPT ![i] = x]) = Len(b)
    BY <2>1, Changed
  <2>3. \A j \in 1..Len(b) : j # i => [b EXCEPT ![i] = x][j] = b[j]
    BY <2>1, Changed
  <2> QED
    BY <1>1, <2>2, <2>3
<1>4. Len(h) \in Nat /\ Len(b) \in Nat /\ i \in 1..Len(b)
  BY <1>1, <1>2, BytesAre
<1>5. CASE i # Len(b)
  <2>1. d[Len(d)] = Random[o]
    BY <1>2, <1>3, <1>4, <1>5
  <2> QED
    BY <1>1, <1>3, <2>1, ByLast
<1>6. CASE i = Len(b)
  <2>1. \A j \in 1..Len(h) : h[j] = b[j]
    BY <1>2, PrefixElements DEF Bytes
  <2>2. \A j \in 1..Len(h) : j \in 1..Len(b) /\ j # i
    BY <1>2, <1>4, <1>6
  <2>3. \A j \in 1..Len(h) : h[j] = d[j]
    BY <1>3, <2>1, <2>2
  <2>4. Len(h) <= Len(d)
    BY <1>2, <1>3, <1>4
  <2>5. IsPrefix(h, d)
    BY <1>2, <1>3, <2>3, <2>4, PrefixElements DEF Bytes
  <2> QED
    BY <1>1, <1>3, <2>5, ByHeader
<1> QED
  BY <1>5, <1>6

\* One byte more.
LEMMA Extended ==
  ASSUME NEW Q, NEW o \in Proc, o \in Q, NEW c, Sendable(o, c), NEW x \in Byte
  PROVE  Echo(Letter(o, c) \o <<x>>, Q)
<1>1. PICK b, h, d : b = Letter(o, c) /\ h = ToBytes(NewHeader(o, c)) /\ d = b \o <<x>>
  OBVIOUS
<1>2. b \in Bytes /\ h \in Bytes /\ IsPrefix(h, b) /\ <<x>> \in Bytes
  BY <1>1, LetterParts, HeaderSent, BytesAre
<1>3. d \in Bytes
  BY <1>1, <1>2, Joined
<1>4. IsPrefix(b, d)
  BY <1>1, <1>2, PrefixPart
<1>5. IsPrefix(h, d)
  BY <1>2, <1>3, <1>4, PrefixOfPrefix
<1> QED
  BY <1>1, <1>3, <1>5, ByHeader

\* The beginning of one call's bytes and the rest of another's.
LEMMA Spliced ==
  ASSUME NEW Q, NEW o \in Proc, o \in Q, NEW c, Sendable(o, c), NEW n \in 1..Len(Letter(o, c)),
         NEW r \in Proc, r \in Q, NEW g, Sendable(r, g)
  PROVE  Echo(SubSeq(Letter(o, c), 1, n)
                \o SubSeq(Letter(r, g), n + 1, Len(Letter(r, g))), Q)
<1>1. PICK b, e : b = Letter(o, c) /\ e = Letter(r, g)
  OBVIOUS
<1>2. b \in Bytes /\ e \in Bytes /\ e[Len(e)] = Random[r]
  BY <1>1, LetterParts
<1>3. Len(b) \in Nat /\ Len(e) \in Nat /\ n \in Nat /\ n >= 1 /\ n <= Len(b)
  BY <1>1, <1>2, BytesAre
<1>4. PICK s, t : s = SubSeq(b, 1, n) /\ t = SubSeq(e, n + 1, Len(e))
  OBVIOUS
<1>5. n \in 0..Len(b)
  BY <1>3
<1>6. s \in Bytes /\ Len(s) = n
  BY <1>2, <1>4, <1>5, Cut
<1>7. CASE n < Len(e)
  <2>1. n \in 0..Len(e)
    BY <1>3, <1>7
  <2>2. /\ t \in Bytes /\ Len(t) = Len(e) - n
        /\ \A i \in 1..(Len(e) - n) : t[i] = e[n + i]
    BY <1>2, <1>4, <2>1, Cut
  <2>3. Len(e) - n \in 1..(Len(e) - n) /\ n + (Len(e) - n) = Len(e)
    BY <1>3, <1>7
  <2>4. t[Len(t)] = e[Len(e)] /\ Len(t) \in 1..Len(t) /\ Len(t) \in Nat
    BY <1>3, <2>2, <2>3
  <2>5. /\ s \o t \in Bytes /\ Len(s \o t) = Len(s) + Len(t)
        /\ \A i \in 1..Len(t) : (s \o t)[Len(s) + i] = t[i]
    BY <1>6, <2>2, Joined
  <2>6. (s \o t)[Len(s \o t)] = Random[r]
    BY <1>2, <2>4, <2>5
  <2>7. Echo(s \o t, Q)
    BY <2>5, <2>6, ByLast
  <2> QED
    BY <1>1, <1>4, <2>7
<1>8. CASE n >= Len(e)
  <2>1. t = <<>>
    <3>1. n + 1 \in Int /\ Len(e) \in Int /\ Len(e) < n + 1
      BY <1>3, <1>8
    <3> QED
      BY <1>4, <3>1, SubSeqEmpty
  <2>2. s \o t = s
    BY <1>6, <2>1, ConcatEmptySeq DEF Bytes
  <2>3. Echo(s, Q)
    BY <1>1, <1>4, <1>5, Truncated
  <2> QED
    BY <1>1, <1>4, <2>2, <2>3
<1> QED
  BY <1>3, <1>7, <1>8

\* The version is made 1, as before there were nonces, and the rest is cut off.
LEMMA Outdated ==
  ASSUME NEW Q, NEW o \in Proc, o \in Q, NEW c, Sendable(o, c), NEW n \in 1..Len(Letter(o, c))
  PROVE  Echo(SubSeq([Letter(o, c) EXCEPT ![Len(Magic) + 1] = 1], 1, n), Q)
<1>1. PICK b, k, d : b = Letter(o, c) /\ k = Len(Magic) + 1 /\ d = [b EXCEPT ![k] = 1]
  OBVIOUS
<1>2. b \in Bytes /\ k \in 1..Len(b) /\ 1 \in Byte
  BY <1>1, LetterParts, LetterVersion, BaseAssumption DEF Byte, FormatVersion
<1>3. d \in Bytes /\ Len(d) = Len(b) /\ d[k] = 1
  <2>1. [b EXCEPT ![k] = 1] \in Bytes /\ Len([b EXCEPT ![k] = 1]) = Len(b)
    BY <1>2, Changed
  <2>2. [b EXCEPT ![k] = 1][k] = 1
    BY <1>2, Changed
  <2> QED
    BY <1>1, <2>1, <2>2
<1>4. n \in 0..Len(d) /\ n \in Nat
  BY <1>1, <1>3
<1>5. PICK s : s = SubSeq(d, 1, n)
  OBVIOUS
<1>6. s \in Bytes /\ Len(s) = n /\ \A i \in 1..n : s[i] = d[i]
  BY <1>3, <1>4, <1>5, Cut
<1>7. ASSUME NEW q \in Proc, NEW e \in Bundle, Sendable(q, e), s = Letter(q, e)
      PROVE  FALSE
  <2>1. k \in 1..Len(s) /\ s[k] = 2
    BY <1>1, <1>7, LetterVersion
  <2>2. s[k] = d[k]
    BY <1>6, <2>1
  <2> QED
    BY <1>3, <2>1, <2>2
<1>8. Echo(s, Q)
  BY <1>6, <1>7 DEF Echo
<1> QED
  BY <1>1, <1>5, <1>8
-----------------------------------------------------------------------------
\* What can be delivered to a call.

\* A function of 1..n is a sequence of n.
LEMMA FunctionSeq ==
  ASSUME NEW S, NEW n \in Nat, NEW f \in [1..n -> S]
  PROVE  f \in Seq(S) /\ Len(f) = n
OBVIOUS

\* A header with the profile and the algorithms of profile x.
Renamed(h, x) ==
  [h EXCEPT !.profile = Name[x],
            !.comps = [i \in 1..Len(h.comps) |->
                         [h.comps[i] EXCEPT !.alg = Name[Sources[x][i]]]]]

\* The header that a blob of call o is relabelled with can be written.
LEMMA RelabelledType ==
  ASSUME NEW o \in Proc, NEW c, Sendable(o, c), NEW x \in ProfileId, Len(Sources[x]) = 2,
         NEW h, h = NewHeader(o, c)
  PROVE  ToBytes(Renamed(h, x)) \in Bytes
<1> DEFINE g == Renamed(h, x)
<1>1. Parsable(h) /\ Len(h.comps) = Len(c.keys) /\ h.version = 2
  BY HeaderMade
<1>2. h \in Header /\ Encodable(h)
  BY <1>1 DEF Parsable
<1>3. Len(c.keys) \in {1, 2}
  BY Keys DEF Sendable
<1>4. /\ h.comps \in Seq(Component)
      /\ \A i \in 1..Len(h.comps) : Fits(h.comps[i])
  BY <1>2, Written
<1>5. PICK n \in Nat : n = Len(h.comps) /\ (n = 1 \/ n = 2)
  BY <1>1, <1>3
<1>6. \A i \in 1..n : Sources[x][i] \in Alg
  <2>1. \A i \in 1..2 : Sources[x][i] \in Alg
    BY SourcesAre
  <2>2. ASSUME NEW i \in 1..n PROVE i \in 1..2
    <3>1. n = 1 \/ n = 2
      BY <1>5
    <3> QED
      BY <3>1
  <2> QED
    BY <2>1, <2>2
<1>7. \A i \in 1..n : Name[Sources[x][i]] \in Bytes /\ Len(Name[Sources[x][i]]) < Base
  BY <1>6, Names
<1>8. \A i \in 1..n : h.comps[i] \in [alg : Bytes, ct : Bytes] /\ Len(h.comps[i].ct) < Wide
  BY <1>4, <1>5 DEF Fits, Component
<1>9. PICK cs : cs = [i \in 1..n |-> [h.comps[i] EXCEPT !.alg = Name[Sources[x][i]]]]
  OBVIOUS
<1>10. ASSUME NEW i \in 1..n
       PROVE  /\ cs[i] \in [alg : Bytes, ct : Bytes]
              /\ Len(cs[i].alg) < Base /\ Len(cs[i].ct) < Wide
  <2>1. cs[i] = [h.comps[i] EXCEPT !.alg = Name[Sources[x][i]]]
    BY <1>9, <1>10
  <2>2. cs[i] \in [alg : Bytes, ct : Bytes]
    BY <2>1, <1>7, <1>8
  <2>3. cs[i].alg = Name[Sources[x][i]] /\ cs[i].ct = h.comps[i].ct
    BY <2>1, <1>8
  <2> QED
    BY <2>2, <2>3, <1>7, <1>8
<1>11. cs \in Seq([alg : Bytes, ct : Bytes]) /\ Len(cs) = n
  <2>1. PICK S : S = [alg : Bytes, ct : Bytes]
    OBVIOUS
  <2>2. cs \in [1..n -> S]
    BY <1>9, <1>10, <2>1
  <2>3. cs \in Seq(S) /\ Len(cs) = n
    BY <2>2, FunctionSeq
  <2> QED
    BY <2>1, <2>3
<1>12. g = [h EXCEPT !.profile = Name[x], !.comps = cs]
  BY <1>5, <1>9 DEF Renamed
<1> HIDE DEF g
<1>13. /\ Name[x] \in Bytes /\ Len(Name[x]) < Base
  BY Names
<1>14. g \in Header /\ g.version = h.version /\ g.nonce = h.nonce
       /\ g.profile = Name[x] /\ g.comps = cs
  BY <1>2, <1>11, <1>12, <1>13 DEF Header
<1>15. Encodable(g)
  <2>1. /\ h.version \in SupportedVersions
        /\ Len(h.comps) < Base
        /\ h.version >= 2 => h.nonce # None /\ Len(h.nonce) = NonceLen
    BY <1>2 DEF Encodable
  <2> QED
    BY <2>1, <1>5, <1>10, <1>11, <1>13, <1>14 DEF Encodable
<1> QED
  BY <1>14, <1>15, Written DEF g

\* The name of the profile is that of another one.
LEMMA Relabelled ==
  ASSUME NEW Q, NEW o \in Proc, o \in Q, NEW c, Sendable(o, c),
         NEW x \in ProfileId, Len(Sources[x]) = 2
  PROVE  Echo(Relabel(Letter(o, c), x), Q)
<1>1. PICK b, h : b = Letter(o, c) /\ h = NewHeader(o, c)
  OBVIOUS
<1>2. /\ b \in Bytes /\ Len(b) = Len(ToBytes(h)) + 1
      /\ IsPrefix(ToBytes(h), b)
      /\ SubSeq(b, Len(ToBytes(h)) + 1, Len(b)) = <<Random[o]>>
  BY <1>1, LetterParts
<1>3. Parse(b).ok /\ Parse(b).header = h /\ Parse(b).consumed = Len(ToBytes(h))
  BY <1>1, <1>2, HeaderSent
<1>4. PICK g : g = Renamed(h, x)
  OBVIOUS
<1>5. Relabel(b, x) = ToBytes(g) \o <<Random[o]>>
  BY <1>2, <1>3, <1>4 DEF Relabel, Renamed
<1>6. ToBytes(g) \in Bytes
  BY <1>1, <1>4, RelabelledType
<1>7. <<Random[o]>> \in Bytes /\ Len(<<Random[o]>>) = 1 /\ <<Random[o]>>[1] = Random[o]
  BY Randoms, BytesAre
<1>8. PICK d, t : t = <<Random[o]>> /\ d = ToBytes(g) \o t
  OBVIOUS
<1>9. /\ d \in Bytes /\ Len(d) = Len(ToBytes(g)) + Len(t)
      /\ \A i \in 1..Len(t) : d[Len(ToBytes(g)) + i] = t[i]
  BY <1>6, <1>7, <1>8, Joined
<1>10. Len(ToBytes(g)) \in Nat
  BY <1>6, BytesAre
<1>11. d[Len(d)] = Random[o]
  BY <1>7, <1>8, <1>9, <1>10
<1>12. Echo(d, Q)
  BY <1>9, <1>11, ByLast
<1> QED
  BY <1>1, <1>5, <1>8, <1>12

\* What may be delivered is bytes that no call can send but one that has sent.
LEMMA Delivered ==
  ASSUME NEW Q, Q \subseteq Proc,
         \A s \in sent : \E o \in Q : \E c \in Bundle : Sendable(o, c) /\ s.blob = Letter(o, c),
         NEW d \in Deliverable
  PROVE  Echo(d, Q)
<1> DEFINE whole == {s.blob : s \in sent}
<1>1. \A b \in whole : \E o \in Q : \E c \in Bundle : Sendable(o, c) /\ b = Letter(o, c)
  OBVIOUS
<1> HIDE DEF whole
<1>2. \/ d \in whole
      \/ \E b \in whole : \E n \in 0..(Len(b) - 1) : d = SubSeq(b, 1, n)
      \/ \E b \in whole : \E i \in 1..Len(b), x \in Byte : d = [b EXCEPT ![i] = x]
      \/ \E b \in whole : \E x \in Byte : d = b \o <<x>>
      \/ \E b \in whole, e \in whole : \E n \in 1..Len(b) :
            d = SubSeq(b, 1, n) \o SubSeq(e, n + 1, Len(e))
      \/ \E b \in whole : \E n \in 1..Len(b) : d = SubSeq([b EXCEPT ![Len(Magic) + 1] = 1], 1, n)
      \/ \E b \in whole : \E x \in ProfileId : Len(Sources[x]) = 2 /\ d = Relabel(b, x)
  <2> DEFINE A == UNION {{SubSeq(b, 1, n) : n \in 0..(Len(b) - 1)} : b \in whole}
             B == UNION {{[b EXCEPT ![i] = x] : i \in 1..Len(b), x \in Byte} : b \in whole}
             C == UNION {{b \o <<x>> : x \in Byte} : b \in whole}
             D == UNION {{SubSeq(b, 1, n) \o SubSeq(c, n + 1, Len(c)) : n \in 1..Len(b)}
                          : b, c \in whole}
             E == UNION {{SubSeq([b EXCEPT ![Len(Magic) + 1] = 1], 1, n) : n \in 1..Len(b)}
                          : b \in whole}
             F == {Relabel(b, q) : b \in whole, q \in {r \in ProfileId : Len(Sources[r]) = 2}}
  <2>1. ASSUME d \in A
        PROVE  \E b \in whole : \E n \in 0..(Len(b) - 1) : d = SubSeq(b, 1, n)
    BY <2>1
  <2>2. ASSUME d \in B
        PROVE  \E b \in whole : \E i \in 1..Len(b), x \in Byte : d = [b EXCEPT ![i] = x]
    BY <2>2
  <2>3. ASSUME d \in C
        PROVE  \E b \in whole : \E x \in Byte : d = b \o <<x>>
    BY <2>3, Zenon
  <2>4. ASSUME d \in D
        PROVE  \E b \in whole, e \in whole : \E n \in 1..Len(b) :
                  d = SubSeq(b, 1, n) \o SubSeq(e, n + 1, Len(e))
    BY <2>4
  <2>5. ASSUME d \in E
        PROVE  \E b \in whole : \E n \in 1..Len(b) :
                  d = SubSeq([b EXCEPT ![Len(Magic) + 1] = 1], 1, n)
    BY <2>5
  <2>6. ASSUME d \in F
        PROVE  \E b \in whole : \E x \in ProfileId : Len(Sources[x]) = 2 /\ d = Relabel(b, x)
    BY <2>6
  <2>7. Deliverable = whole \cup A \cup B \cup C \cup D \cup E \cup F
    BY DEF Deliverable, whole
  <2> HIDE DEF A, B, C, D, E, F
  <2>8. d \in whole \/ d \in A \/ d \in B \/ d \in C \/ d \in D \/ d \in E \/ d \in F
    BY <2>7
  <2> QED
    BY <2>1, <2>2, <2>3, <2>4, <2>5, <2>6, <2>8, Zenon
<1>3. CASE d \in whole
  <2>1. PICK o \in Q : \E c \in Bundle : Sendable(o, c) /\ d = Letter(o, c)
    BY <1>1, <1>3
  <2>2. PICK c \in Bundle : Sendable(o, c) /\ d = Letter(o, c)
    BY <2>1
  <2>3. d \in Bytes /\ IsPrefix(d, Letter(o, c))
    BY <2>2, LetterParts, PrefixSelf
  <2> QED
    BY <2>2, <2>3, ByWhole
<1>4. CASE \E b \in whole : \E n \in 0..(Len(b) - 1) : d = SubSeq(b, 1, n)
  <2>1. PICK b \in whole : \E n \in 0..(Len(b) - 1) : d = SubSeq(b, 1, n)
    BY <1>4
  <2>2. PICK n \in 0..(Len(b) - 1) : d = SubSeq(b, 1, n)
    BY <2>1
  <2>3. PICK o \in Q : \E c \in Bundle : Sendable(o, c) /\ b = Letter(o, c)
    BY <1>1
  <2>4. PICK c \in Bundle : Sendable(o, c) /\ b = Letter(o, c)
    BY <2>3
  <2>5. Len(b) \in Nat
    BY <2>4, LetterParts, BytesAre
  <2>6. n \in 0..Len(b)
    BY <2>5
  <2>7. Echo(SubSeq(Letter(o, c), 1, n), Q)
    BY <2>4, <2>6, Truncated
  <2> QED
    BY <2>2, <2>4, <2>7
<1>5. CASE \E b \in whole : \E i \in 1..Len(b), x \in Byte : d = [b EXCEPT ![i] = x]
  <2>1. PICK b \in whole : \E i \in 1..Len(b), x \in Byte : d = [b EXCEPT ![i] = x]
    BY <1>5
  <2>2. PICK i \in 1..Len(b), x \in Byte : d = [b EXCEPT ![i] = x]
    BY <2>1
  <2>3. PICK o \in Q : \E c \in Bundle : Sendable(o, c) /\ b = Letter(o, c)
    BY <1>1
  <2>4. PICK c \in Bundle : Sendable(o, c) /\ b = Letter(o, c)
    BY <2>3
  <2>5. i \in 1..Len(Letter(o, c))
    BY <2>4
  <2>6. Echo([Letter(o, c) EXCEPT ![i] = x], Q)
    BY <2>4, <2>5, Altered
  <2> QED
    BY <2>2, <2>4, <2>6
<1>6. CASE \E b \in whole : \E x \in Byte : d = b \o <<x>>
  <2>1. PICK b \in whole : \E x \in Byte : d = b \o <<x>>
    BY <1>6
  <2>2. PICK x \in Byte : d = b \o <<x>>
    BY <2>1
  <2>3. PICK o \in Q : \E c \in Bundle : Sendable(o, c) /\ b = Letter(o, c)
    BY <1>1
  <2>4. PICK c \in Bundle : Sendable(o, c) /\ b = Letter(o, c)
    BY <2>3
  <2>5. Echo(Letter(o, c) \o <<x>>, Q)
    BY <2>4, Extended
  <2> QED
    BY <2>2, <2>4, <2>5
<1>7. CASE \E b \in whole, e \in whole : \E n \in 1..Len(b) :
              d = SubSeq(b, 1, n) \o SubSeq(e, n + 1, Len(e))
  <2>1. PICK b \in whole, e \in whole : \E n \in 1..Len(b) :
               d = SubSeq(b, 1, n) \o SubSeq(e, n + 1, Len(e))
    BY <1>7
  <2>2. PICK n \in 1..Len(b) : d = SubSeq(b, 1, n) \o SubSeq(e, n + 1, Len(e))
    BY <2>1
  <2>3. PICK o \in Q : \E c \in Bundle : Sendable(o, c) /\ b = Letter(o, c)
    BY <1>1
  <2>4. PICK c \in Bundle : Sendable(o, c) /\ b = Letter(o, c)
    BY <2>3
  <2>5. PICK r \in Q : \E g \in Bundle : Sendable(r, g) /\ e = Letter(r, g)
    BY <1>1
  <2>6. PICK g \in Bundle : Sendable(r, g) /\ e = Letter(r, g)
    BY <2>5
  <2>7. n \in 1..Len(Letter(o, c))
    BY <2>4
  <2>8. Echo(SubSeq(Letter(o, c), 1, n) \o SubSeq(Letter(r, g), n + 1, Len(Letter(r, g))), Q)
    BY <2>4, <2>6, <2>7, Spliced
  <2> QED
    BY <2>2, <2>4, <2>6, <2>8
<1>8. CASE \E b \in whole : \E n \in 1..Len(b) :
              d = SubSeq([b EXCEPT ![Len(Magic) + 1] = 1], 1, n)
  <2>1. PICK b \in whole : \E n \in 1..Len(b) :
              d = SubSeq([b EXCEPT ![Len(Magic) + 1] = 1], 1, n)
    BY <1>8
  <2>2. PICK n \in 1..Len(b) : d = SubSeq([b EXCEPT ![Len(Magic) + 1] = 1], 1, n)
    BY <2>1
  <2>3. PICK o \in Q : \E c \in Bundle : Sendable(o, c) /\ b = Letter(o, c)
    BY <1>1
  <2>4. PICK c \in Bundle : Sendable(o, c) /\ b = Letter(o, c)
    BY <2>3
  <2>5. n \in 1..Len(Letter(o, c))
    BY <2>4
  <2>6. Echo(SubSeq([Letter(o, c) EXCEPT ![Len(Magic) + 1] = 1], 1, n), Q)
    BY <2>4, <2>5, Outdated
  <2> QED
    BY <2>2, <2>4, <2>6
<1>9. CASE \E b \in whole : \E x \in ProfileId : Len(Sources[x]) = 2 /\ d = Relabel(b, x)
  <2>1. PICK b \in whole : \E x \in ProfileId : Len(Sources[x]) = 2 /\ d = Relabel(b, x)
    BY <1>9
  <2>2. PICK x \in ProfileId : Len(Sources[x]) = 2 /\ d = Relabel(b, x)
    BY <2>1
  <2>3. PICK o \in Q : \E c \in Bundle : Sendable(o, c) /\ b = Letter(o, c)
    BY <1>1
  <2>4. PICK c \in Bundle : Sendable(o, c) /\ b = Letter(o, c)
    BY <2>3
  <2>5. Echo(Relabel(Letter(o, c), x), Q)
    BY <2>2, <2>4, Relabelled
  <2> QED
    BY <2>2, <2>4, <2>5
<1> QED
  BY <1>2, <1>3, <1>4, <1>5, <1>6, <1>7, <1>8, <1>9
-----------------------------------------------------------------------------
\* What a step leaves as it is.

\* The arguments of a call.
LEMMA CallIs ==
  ASSUME NEW c \in Call
  PROVE  /\ c.op \in Senders \cup Receivers
         /\ c.op \in Senders => c.bundle \in Bundle
         /\ c.op \in {"encrypt", "ephemeral_encrypt"} => c.doc \in Doc
         /\ c.op \in Receivers => c.handles \in Seq(KeyPair)
<1>1. CASE c \in [op : {"encrypt", "ephemeral_encrypt"}, bundle : Bundle, doc : Doc]
  BY <1>1 DEF Senders, Receivers
<1>2. CASE c \in [op : {"decrypt", "recover_root_key"}, handles : Seq(KeyPair), min : Minimum]
  BY <1>2 DEF Senders, Receivers
<1>3. CASE c \in [op : {"migrate"}, handles : Seq(KeyPair), min : Minimum, bundle : Bundle]
  BY <1>3 DEF Senders, Receivers
<1> QED
  BY <1>1, <1>2, <1>3 DEF Call

\* Only call p moves.
Moves(p) ==
  \A q \in Proc : q # p =>
    /\ pc'[q] = pc[q] /\ call'[q] = call[q] /\ blob'[q] = blob[q] /\ header'[q] = header[q]
    /\ buf'[q] = buf[q] /\ pt'[q] = pt[q] /\ key'[q] = key[q] /\ fault'[q] = fault[q]

\* What is sent is what call p, which has not ended, sends now.
Adds(p) ==
  /\ pc[p] \notin Ended
  /\ sent \subseteq sent'
  /\ \A s \in sent' : s \in sent \/ \E b \in Bundle : Sendable(p, b) /\ s.blob = Letter(p, b)

\* What a call was given is still no blob of a call that has not ended.
LEMMA StaysEarly ==
  ASSUME NEW p \in Proc, Moves(p), pc[p] \notin Ended,
         NEW q \in Proc, Receives(q), Early(q), blob'[q] = blob[q]
  PROVE  Early(q)'
<1>1. \A r \in Proc : pc'[r] \notin Ended => pc[r] \notin Ended
  BY DEF Moves
<1>2. \A r \in Proc : pc[r] \notin Ended =>
         \A b \in Bundle : Sendable(r, b) => blob[q] # Letter(r, b)
  BY DEF Early
<1>3. \A r \in Proc : pc'[r] \notin Ended =>
         \A b \in Bundle : Sendable(r, b) => blob'[q] # Letter(r, b)
  BY <1>1, <1>2
<1> QED
  BY <1>3 DEF Early

\* The calls that do not move keep their part of the invariant.
LEMMA Others ==
  ASSUME NEW p \in Proc, Moves(p), Adds(p), NEW q \in Proc, q # p, Local(q)
  PROVE  Local(q)'
<1>1. /\ Types(q) /\ Role(q) /\ Reading(q) /\ Holding(q) /\ Writing(q)
      /\ Reads(q) /\ Refusing(q) /\ Early(q)
  BY DEF Local
<1>2. /\ pc'[q] = pc[q] /\ call'[q] = call[q] /\ blob'[q] = blob[q] /\ header'[q] = header[q]
      /\ buf'[q] = buf[q] /\ pt'[q] = pt[q] /\ key'[q] = key[q] /\ fault'[q] = fault[q]
  BY DEF Moves
<1>3. Types(q)'
  BY <1>1, <1>2 DEF Types
<1>4. Role(q)'
  BY <1>1, <1>2 DEF Role
<1>5. Receives(q)' <=> Receives(q)
  BY <1>2 DEF Receives
<1>6. Found(q)' = Found(q) /\ Derived(q)' = Derived(q)
  BY <1>2 DEF Found, Derived
<1>7. Reading(q)'
  BY <1>1, <1>2, <1>5, <1>6 DEF Reading
<1>8. Holding(q)'
  BY <1>1, <1>2, <1>5, <1>6 DEF Holding
<1>9. (q \in Sealers)' <=> q \in Sealers
  BY <1>2 DEF Sealers
<1>10. Writing(q)'
  BY <1>1, <1>2, <1>9 DEF Writing
<1>11. \A s : Meant(q, s)' <=> Meant(q, s)
  BY <1>2 DEF Meant
<1>12. Reads(q)'
  BY <1>1, <1>2, <1>5, <1>11 DEF Reads, Adds
<1>13. Refusing(q)'
  <2>1. ASSUME pc[q] = "DecryptionError", \A s \in sent : ~Meant(q, s),
               NEW s \in sent', Meant(q, s)
        PROVE  FALSE
    <3>1. s \notin sent
      BY <2>1
    <3>2. PICK b \in Bundle : Sendable(p, b) /\ s.blob = Letter(p, b)
      BY <3>1, <2>1 DEF Adds
    <3>3. Receives(q)
      BY <1>1, <2>1 DEF Role, Receives
    <3>4. blob[q] # Letter(p, b)
      BY <1>1, <3>2, <3>3 DEF Early, Adds
    <3> QED
      BY <2>1, <3>2, <3>4 DEF Meant
  <2>2. pc[q] = "DecryptionError" /\ (\A s \in sent : ~Meant(q, s))
           => \A s \in sent' : ~Meant(q, s)'
    BY <2>1, <1>11
  <2> QED
    BY <1>1, <1>2, <1>6, <2>2 DEF Refusing
<1>14. Early(q)'
  <2>1. CASE Receives(q)
    BY <1>1, <1>2, <2>1, StaysEarly DEF Adds
  <2>2. CASE ~Receives(q)
    BY <1>5, <2>2 DEF Early
  <2> QED
    BY <2>1, <2>2
<1> QED
  BY <1>3, <1>4, <1>7, <1>8, <1>10, <1>12, <1>13, <1>14 DEF Local

\* The history is what it was, when call p does not return a blob.
LEMMA HistoryKept ==
  ASSUME NEW p \in Proc, Moves(p), pc[p] \notin Ended, History,
         UNCHANGED <<sealed, sent>>,
         ~(pc'[p] = "returned" /\ call'[p].op \in Senders)
  PROVE  History' /\ Adds(p)
<1>1. Sealers' = Sealers
  BY DEF Sealers, Moves, Ended
<1>2. ASSUME NEW q \in Sealers PROVE Out(q)' = Out(q) /\ Sealing(q)' = Sealing(q)
  <2>1. q \in Proc /\ q # p
    BY DEF Sealers, Ended
  <2>2. call'[q] = call[q] /\ pt'[q] = pt[q]
    BY <2>1 DEF Moves
  <2> QED
    BY <2>2 DEF Out, Sealing
<1>3. {Out(q) : q \in Sealers}' = {Out(q) : q \in Sealers}
  BY <1>1, <1>2
<1>4. {Sealing(q) : q \in Sealers}' = {Sealing(q) : q \in Sealers}
  BY <1>1, <1>2
<1> QED
  BY <1>3, <1>4 DEF History, Adds

\* The steps that keep the invariant are those that keep its part of the call
\* that moves.
LEMMA Preserved ==
  ASSUME OneShotInv, NEW p \in Proc, Moves(p), Adds(p), Domains', History', Local(p)'
  PROVE  OneShotInv'
<1>1. \A q \in Proc : q # p => Local(q)'
  BY Others DEF OneShotInv
<1> QED
  BY <1>1 DEF OneShotInv

\* The blobs that have been sent, one for each call that returned one.
LEMMA SentIs ==
  ASSUME OneShotInv
  PROVE  /\ \A q \in Sealers : /\ q \in Proc /\ Sendable(q, call[q].bundle)
                               /\ call[q].bundle \in Bundle /\ pt[q] \in Doc
                               /\ Out(q) \in sent /\ Sealing(q) \in sealed
         /\ \A s \in sent : \E q \in Sealers : s = Out(q)
         /\ \A s \in sealed : \E q \in Sealers : s = Sealing(q)
<1>1. ASSUME NEW q \in Sealers
      PROVE  q \in Proc /\ Sendable(q, call[q].bundle) /\ pt[q] \in Doc
  <2>1. q \in Proc
    BY DEF Sealers
  <2>2. Writing(q)
    BY <2>1 DEF OneShotInv, Local
  <2> QED
    BY <2>1, <2>2 DEF Writing
<1> QED
  BY <1>1 DEF OneShotInv, History, Sendable
-----------------------------------------------------------------------------
\* The steps of the calls.

\* The part of call p.
LEMMA PartsOf ==
  ASSUME OneShotInv, NEW p \in Proc
  PROVE  /\ Types(p) /\ Role(p) /\ Reading(p) /\ Holding(p) /\ Writing(p)
         /\ Reads(p) /\ Refusing(p) /\ Early(p)
         /\ pc[p] \in Steps /\ fault[p] \in Faults
         /\ Domains /\ History
<1>1. Local(p) /\ Domains /\ History
  BY DEF OneShotInv
<1>2. pc[p] \in Steps /\ fault[p] \in Faults
  BY <1>1 DEF Domains
<1> QED
  BY <1>1, <1>2 DEF Local

\* The call that moves keeps its arguments, its bytes, and what goes with them.
LEMMA Kept ==
  ASSUME NEW p \in Proc, Moves(p), pc[p] \notin Ended, pc[p] # "idle", pc'[p] # "idle",
         call'[p] = call[p], blob'[p] = blob[p], Early(p)
  PROVE  /\ Early(p)' /\ Found(p)' = Found(p) /\ Derived(p)' = Derived(p)
         /\ Receives(p)' <=> Receives(p)
         /\ \A s : Meant(p, s)' <=> Meant(p, s)
<1>1. Receives(p)' <=> Receives(p)
  BY DEF Receives
<1>2. Early(p)'
  <2>1. CASE Receives(p)
    BY <2>1, StaysEarly
  <2>2. CASE ~Receives(p)
    BY <1>1, <2>2 DEF Early
  <2> QED
    BY <2>1, <2>2
<1>3. Found(p)' = Found(p) /\ Derived(p)' = Derived(p)
  BY DEF Found, Derived
<1>4. \A s : Meant(p, s)' <=> Meant(p, s)
  BY DEF Meant
<1> QED
  BY <1>1, <1>2, <1>3, <1>4

\* The calls begin: the arguments are checked, and a receiver is given bytes that
\* nobody who has not ended can send (Delivered).
LEMMA StartKeeps ==
  ASSUME OneShotInv, NEW p \in Proc, Start(p)
  PROVE  OneShotInv'
<1>1. /\ Types(p) /\ Role(p) /\ Holding(p) /\ fault[p] \in Faults /\ Domains /\ History
  BY PartsOf
<1>2. /\ pc[p] = "idle"
      /\ \A q \in Proc : pc[q] \in {"idle"} \cup Ended
      /\ UNCHANGED <<header, buf, key, sealed, sent, fault>>
  BY DEF Start
<1>3. PICK c \in Calls[p] :
         /\ call' = [call EXCEPT ![p] = c]
         /\ IF c.op \in {"encrypt", "ephemeral_encrypt"}
            THEN /\ pt' = [pt EXCEPT ![p] = c.doc]
                 /\ Goto(p, "derive")
                 /\ UNCHANGED blob
            ELSE /\ \E b \in Deliverable : blob' = [blob EXCEPT ![p] = b]
                 /\ Goto(p, "parse")
                 /\ UNCHANGED pt
  BY DEF Start
<1>4. c \in Call
  BY CallsAssumption
<1>5. /\ c.op \in Senders \cup Receivers
      /\ c.op \in {"encrypt", "ephemeral_encrypt"} => c.doc \in Doc
  BY <1>4, CallIs
<1>6. pc[p] \notin Ended /\ header[p] = None /\ key[p] = None /\ pt[p] = None /\ buf[p] = None
  BY <1>1, <1>2 DEF Role, Holding, Ended
<1>7. CASE c.op \in {"encrypt", "ephemeral_encrypt"}
  <2>1. /\ pc' = [pc EXCEPT ![p] = "derive"] /\ call' = [call EXCEPT ![p] = c]
        /\ pt' = [pt EXCEPT ![p] = c.doc] /\ UNCHANGED blob
    BY <1>3, <1>7 DEF Goto
  <2>2. Domains' /\ Moves(p) /\ pc'[p] = "derive" /\ call'[p] = c /\ pt'[p] = c.doc
    BY <1>1, <1>2, <2>1 DEF Domains, Moves, Steps
  <2>3. History' /\ Adds(p)
    BY <1>1, <1>2, <1>6, <2>2, HistoryKept
  <2>4. ~Receives(p)' /\ c.op \in Senders
    BY <1>7, <2>2 DEF Receives, Receivers, Senders
  <2>5. Types(p)'
    BY <1>1, <1>2, <1>5, <1>7, <2>1, <2>2 DEF Types
  <2>6. Role(p)'
    BY <1>4, <2>2, <2>4 DEF Role
  <2>7. Reading(p)' /\ Reads(p)' /\ Early(p)'
    BY <2>4 DEF Reading, Reads, Early
  <2>8. Holding(p)'
    BY <1>2, <1>6, <2>2, <2>4 DEF Holding, Ended
  <2>9. Writing(p)'
    BY <1>5, <1>7, <2>2 DEF Writing, Sealers
  <2>10. Refusing(p)'
    BY <2>2 DEF Refusing
  <2>11. Local(p)'
    BY <2>5, <2>6, <2>7, <2>8, <2>9, <2>10 DEF Local
  <2> QED
    BY <2>2, <2>3, <2>11, Preserved
<1>8. CASE c.op \notin {"encrypt", "ephemeral_encrypt"}
  <2>1. PICK b \in Deliverable : blob' = [blob EXCEPT ![p] = b]
    BY <1>3, <1>8
  <2>2. pc' = [pc EXCEPT ![p] = "parse"] /\ call' = [call EXCEPT ![p] = c] /\ UNCHANGED pt
    BY <1>3, <1>8 DEF Goto
  <2>3. Domains' /\ Moves(p) /\ pc'[p] = "parse" /\ call'[p] = c /\ blob'[p] = b
    BY <1>1, <1>2, <2>1, <2>2 DEF Domains, Moves, Steps
  <2>4. History' /\ Adds(p)
    BY <1>1, <1>2, <1>6, <2>3, HistoryKept
  <2>5. c.op \in Receivers
    BY <1>5, <1>8 DEF Receivers, Senders
  <2>6. Echo(b, Sealers)
    <3>1. \A s \in sent : \E o \in Sealers : \E e \in Bundle :
             Sendable(o, e) /\ s.blob = Letter(o, e)
      <4>1. ASSUME NEW s \in sent
            PROVE  \E o \in Sealers : \E e \in Bundle : Sendable(o, e) /\ s.blob = Letter(o, e)
        <5>1. PICK o \in Sealers : s = Out(o)
          BY SentIs
        <5>2. Sendable(o, call[o].bundle) /\ call[o].bundle \in Bundle
          BY SentIs
        <5>3. s.blob = Letter(o, call[o].bundle)
          BY <5>1 DEF Out
        <5> QED
          BY <5>2, <5>3
      <4> QED
        BY <4>1
    <3>2. Sealers \subseteq Proc
      BY DEF Sealers
    <3> QED
      BY <3>1, <3>2, Delivered
  <2>7. Types(p)'
    BY <1>1, <1>2, <2>2, <2>3, <2>6 DEF Types, Echo
  <2>8. Role(p)'
    BY <1>4, <2>3, <2>5 DEF Role
  <2>9. Reading(p)'
    BY <1>2, <1>6, <2>3 DEF Reading
  <2>10. Reads(p)' /\ Refusing(p)'
    BY <1>6, <2>2, <2>3 DEF Reads, Refusing
  <2>11. Holding(p)'
    BY <1>2, <1>6, <2>3 DEF Holding, Ended
  <2>12. Writing(p)'
    BY <2>3 DEF Writing, Sealers
  <2>13. Early(p)'
    <3>1. \A q \in Proc : pc'[q] \notin Ended => q \notin Sealers
      BY <1>6, <2>3 DEF Sealers, Moves, Ended
    <3>2. \A q \in Proc : \A e \in Bundle : Sendable(q, e) /\ blob'[p] = Letter(q, e) => q \in Sealers
      BY <2>3, <2>6 DEF Echo
    <3> QED
      BY <3>1, <3>2 DEF Early
  <2>14. Local(p)'
    BY <2>7, <2>8, <2>9, <2>10, <2>11, <2>12, <2>13 DEF Local
  <2> QED
    BY <2>3, <2>4, <2>14, Preserved
<1> QED
  BY <1>7, <1>8

\* A sender makes its header and its root key.
LEMMA DeriveKeeps ==
  ASSUME OneShotInv, NEW p \in Proc, Derive(p)
  PROVE  OneShotInv'
<1>1. /\ Types(p) /\ Role(p) /\ Reading(p) /\ Holding(p) /\ Writing(p) /\ Reads(p) /\ Early(p)
      /\ Domains /\ History
  BY PartsOf
<1>2. PICK b : b = call[p].bundle
  OBVIOUS
<1>3. /\ pc[p] = "derive" /\ WellFormed(b) /\ Encodable(NewHeader(p, b))
      /\ header' = [header EXCEPT ![p] = NewHeader(p, b)]
      /\ buf' = [buf EXCEPT ![p] = NewKey(p, b)]
      /\ pc' = [pc EXCEPT ![p] = "seal"]
      /\ UNCHANGED <<call, blob, pt, key, sealed, sent, fault>>
  BY <1>2 DEF Derive, Goto
<1>4. call[p] \in Call /\ call[p].op \in Senders
  BY <1>1, <1>3 DEF Role
<1>5. Sendable(p, b)
  <2>1. b \in Bundle
    BY <1>2, <1>4, CallIs
  <2> QED
    BY <1>3, <2>1 DEF Sendable
<1>6. /\ Domains' /\ Moves(p) /\ pc'[p] = "seal"
      /\ header'[p] = NewHeader(p, b) /\ buf'[p] = NewKey(p, b)
  BY <1>1, <1>3 DEF Domains, Moves, Steps
<1>7. pc[p] \notin Ended
  BY <1>3 DEF Ended
<1>8. History' /\ Adds(p)
  BY <1>1, <1>3, <1>6, <1>7, HistoryKept
<1>9. /\ Early(p)' /\ Found(p)' = Found(p) /\ Derived(p)' = Derived(p)
      /\ Receives(p)' <=> Receives(p)
      /\ \A s : Meant(p, s)' <=> Meant(p, s)
  BY <1>1, <1>3, <1>6, <1>7, Kept
<1>10. Types(p)'
  <2>1. NewHeader(p, b) \in Header
    BY <1>5, HeaderMade DEF Parsable
  <2>2. NewKey(p, b) \in RootKeys
    BY <1>5, KeyOfRecipient
  <2> QED
    BY <1>1, <1>3, <1>6, <2>1, <2>2 DEF Types
<1>11. Role(p)'
  BY <1>1, <1>3, <1>6 DEF Role
<1>12. Receives(p) => call[p].op = "migrate"
  BY <1>4 DEF Receives, Senders, Receivers
<1>13. Reading(p)'
  BY <1>1, <1>3, <1>6, <1>9, <1>12 DEF Reading
<1>14. Holding(p)'
  BY <1>1, <1>3, <1>6, <1>9 DEF Holding, Ended
<1>15. Writing(p)'
  BY <1>1, <1>2, <1>3, <1>5, <1>6 DEF Writing, Sealers
<1>16. Reads(p)'
  BY <1>1, <1>3, <1>6, <1>9 DEF Reads
<1>17. Refusing(p)'
  BY <1>6 DEF Refusing
<1>18. Local(p)'
  BY <1>9, <1>10, <1>11, <1>13, <1>14, <1>15, <1>16, <1>17 DEF Local
<1> QED
  BY <1>6, <1>8, <1>18, Preserved

\* A source fails, and nothing of the key is left.
LEMMA DeriveRaisesKeeps ==
  ASSUME OneShotInv, NEW p \in Proc, DeriveRaises(p)
  PROVE  OneShotInv'
<1>1. /\ Types(p) /\ Role(p) /\ Reading(p) /\ Holding(p) /\ Writing(p) /\ Reads(p) /\ Early(p)
      /\ Domains /\ History
  BY PartsOf
<1>2. /\ pc[p] = "derive"
      /\ fault' = [fault EXCEPT ![p] = "source"] \/ fault' = fault
      /\ pc' = [pc EXCEPT ![p] = "raised"]
      /\ UNCHANGED <<call, blob, header, buf, pt, key, sealed, sent>>
  BY DEF DeriveRaises, Goto
<1>3. Domains' /\ Moves(p) /\ pc'[p] = "raised"
  BY <1>1, <1>2 DEF Domains, Moves, Steps, Faults, Ended
<1>4. pc[p] \notin Ended
  BY <1>2 DEF Ended
<1>5. History' /\ Adds(p)
  BY <1>1, <1>2, <1>3, <1>4, HistoryKept
<1>6. /\ Early(p)' /\ Found(p)' = Found(p) /\ Derived(p)' = Derived(p)
      /\ Receives(p)' <=> Receives(p)
      /\ \A s : Meant(p, s)' <=> Meant(p, s)
  BY <1>1, <1>2, <1>3, <1>4, Kept
<1>7. call[p].op \in Senders
  BY <1>1, <1>2 DEF Role
<1>8. Types(p)' /\ Role(p)'
  BY <1>1, <1>2, <1>3 DEF Types, Role
<1>9. Receives(p) => call[p].op = "migrate"
  BY <1>7 DEF Receives, Senders, Receivers
<1>10. Reading(p)'
  BY <1>1, <1>2, <1>3, <1>6, <1>9 DEF Reading
<1>11. Holding(p)'
  BY <1>1, <1>2, <1>3, <1>6 DEF Holding
<1>12. Writing(p)'
  BY <1>3 DEF Writing, Sealers
<1>13. Reads(p)'
  BY <1>1, <1>2, <1>3, <1>6 DEF Reads
<1>14. Refusing(p)'
  BY <1>3 DEF Refusing
<1>15. Local(p)'
  BY <1>6, <1>8, <1>10, <1>11, <1>12, <1>13, <1>14 DEF Local
<1> QED
  BY <1>3, <1>5, <1>15, Preserved

\* The bytes are sent: the call joins the history, the AEAD's and its own.
LEMMA SealKeeps ==
  ASSUME OneShotInv, NEW p \in Proc, Seal(p)
  PROVE  OneShotInv'
<1>1. /\ Types(p) /\ Role(p) /\ Reading(p) /\ Holding(p) /\ Writing(p) /\ Reads(p) /\ Early(p)
      /\ Domains /\ History
  BY PartsOf
<1>2. PICK b : b = call[p].bundle
  OBVIOUS
<1>3. pc[p] = "seal"
  BY DEF Seal
<1>4. /\ Sendable(p, b) /\ pt[p] \in Doc
      /\ header[p] = NewHeader(p, b) /\ buf[p] = NewKey(p, b)
  BY <1>1, <1>2, <1>3 DEF Writing
<1>5. /\ sealed' = sealed \cup {Sealing(p)}
      /\ sent' = sent \cup {Out(p)}
      /\ buf' = [buf EXCEPT ![p] = None]
      /\ pc' = [pc EXCEPT ![p] = "returned"]
      /\ UNCHANGED <<call, blob, header, pt, key, fault>>
  BY <1>2, <1>4 DEF Seal, Goto, Sealing, Out, Letter
<1>6. Domains' /\ Moves(p) /\ pc'[p] = "returned" /\ buf'[p] = None
  BY <1>1, <1>5 DEF Domains, Moves, Steps, Ended
<1>7. pc[p] \notin Ended /\ p \notin Sealers
  BY <1>3 DEF Ended, Sealers
<1>8. call[p] \in Call /\ call[p].op \in Senders
  BY <1>1, <1>3 DEF Role
<1>9. Sealers' = Sealers \cup {p}
  BY <1>5, <1>6, <1>8 DEF Sealers, Moves
<1>10. \A q : Out(q)' = Out(q) /\ Sealing(q)' = Sealing(q)
  BY <1>5 DEF Out, Sealing
<1>11. History'
  <2>1. sent = {Out(q) : q \in Sealers} /\ sealed = {Sealing(q) : q \in Sealers}
    BY <1>1 DEF History
  <2>2. {Out(q) : q \in Sealers}' = {Out(q) : q \in Sealers} \cup {Out(p)}
    BY <1>9, <1>10
  <2>3. {Sealing(q) : q \in Sealers}' = {Sealing(q) : q \in Sealers} \cup {Sealing(p)}
    BY <1>9, <1>10
  <2> QED
    BY <1>5, <2>1, <2>2, <2>3 DEF History
<1>12. Adds(p)
  <2>1. Out(p).blob = Letter(p, b)
    BY <1>2 DEF Out
  <2>2. b \in Bundle
    BY <1>4 DEF Sendable
  <2> QED
    BY <1>4, <1>5, <1>7, <2>1, <2>2 DEF Adds
<1>13. /\ Early(p)' /\ Found(p)' = Found(p) /\ Derived(p)' = Derived(p)
       /\ Receives(p)' <=> Receives(p)
       /\ \A s : Meant(p, s)' <=> Meant(p, s)
  BY <1>1, <1>3, <1>5, <1>6, <1>7, Kept
<1>14. Types(p)' /\ Role(p)'
  BY <1>1, <1>3, <1>5, <1>6 DEF Types, Role
<1>15. Receives(p) => call[p].op = "migrate"
  BY <1>8 DEF Receives, Senders, Receivers
<1>16. Reading(p)'
  BY <1>1, <1>3, <1>5, <1>6, <1>13, <1>15 DEF Reading
<1>17. Holding(p)'
  BY <1>1, <1>3, <1>5, <1>6, <1>13 DEF Holding
<1>18. Writing(p)'
  BY <1>2, <1>4, <1>5, <1>6 DEF Writing
<1>19. Reads(p)'
  BY <1>1, <1>3, <1>5, <1>6, <1>13 DEF Reads
<1>20. Refusing(p)'
  BY <1>6 DEF Refusing
<1>21. Local(p)'
  BY <1>13, <1>14, <1>16, <1>17, <1>18, <1>19, <1>20 DEF Local
<1> QED
  BY <1>6, <1>11, <1>12, <1>21, Preserved

\* The cipher is not made, or does not encrypt.
LEMMA SealRaisesKeeps ==
  ASSUME OneShotInv, NEW p \in Proc, SealRaises(p)
  PROVE  OneShotInv'
<1>1. /\ Types(p) /\ Role(p) /\ Reading(p) /\ Holding(p) /\ Writing(p) /\ Reads(p) /\ Early(p)
      /\ Domains /\ History
  BY PartsOf
<1>2. PICK step \in {"construct", "encrypt"} :
        /\ fault' = [fault EXCEPT ![p] = step]
        /\ buf' = [buf EXCEPT ![p] =
             IF step = "construct" /\ call[p].op # "ephemeral_encrypt" THEN @ ELSE None]
  BY DEF SealRaises
<1>3. /\ pc[p] = "seal"
      /\ pc' = [pc EXCEPT ![p] = "raised"]
      /\ UNCHANGED <<call, blob, header, pt, key, sealed, sent>>
  BY DEF SealRaises, Goto
<1>4. /\ Domains' /\ Moves(p) /\ pc'[p] = "raised" /\ fault'[p] = step
      /\ buf'[p] = IF step = "construct" /\ call[p].op # "ephemeral_encrypt" THEN buf[p] ELSE None
  BY <1>1, <1>2, <1>3 DEF Domains, Moves, Steps, Faults, Ended
<1>5. pc[p] \notin Ended
  BY <1>3 DEF Ended
<1>6. History' /\ Adds(p)
  BY <1>1, <1>3, <1>4, <1>5, HistoryKept
<1>7. /\ Early(p)' /\ Found(p)' = Found(p) /\ Derived(p)' = Derived(p)
      /\ Receives(p)' <=> Receives(p)
      /\ \A s : Meant(p, s)' <=> Meant(p, s)
  BY <1>1, <1>3, <1>4, <1>5, Kept
<1>8. call[p].op \in Senders
  BY <1>1, <1>3 DEF Role
<1>9. Types(p)' /\ Role(p)'
  BY <1>1, <1>3, <1>4 DEF Types, Role
<1>10. Receives(p) => call[p].op = "migrate"
  BY <1>8 DEF Receives, Senders, Receivers
<1>11. Reading(p)'
  BY <1>1, <1>3, <1>4, <1>7, <1>10 DEF Reading
<1>12. Holding(p)'
  BY <1>1, <1>3, <1>4, <1>7 DEF Holding
<1>13. Writing(p)'
  BY <1>4 DEF Writing, Sealers
<1>14. Reads(p)'
  BY <1>1, <1>3, <1>4, <1>7 DEF Reads
<1>15. Refusing(p)'
  BY <1>4 DEF Refusing
<1>16. Local(p)'
  BY <1>7, <1>9, <1>11, <1>12, <1>13, <1>14, <1>15 DEF Local
<1> QED
  BY <1>4, <1>6, <1>16, Preserved

\* A receiver parses its bytes, or refuses them.
LEMMA ParseHeaderKeeps ==
  ASSUME OneShotInv, NEW p \in Proc, ParseHeader(p)
  PROVE  OneShotInv'
<1>1. /\ Types(p) /\ Role(p) /\ Reading(p) /\ Holding(p) /\ Writing(p) /\ Reads(p) /\ Early(p)
      /\ Domains /\ History
  BY PartsOf
<1>2. /\ pc[p] = "parse" /\ Parse(blob[p]).ok
      /\ header' = [header EXCEPT ![p] = Found(p)]
      /\ pc' = [pc EXCEPT ![p] = "check"]
      /\ UNCHANGED <<call, blob, buf, pt, key, sealed, sent, fault>>
  BY DEF ParseHeader, Goto, Found
<1>3. Domains' /\ Moves(p) /\ pc'[p] = "check" /\ header'[p] = Found(p)
  BY <1>1, <1>2 DEF Domains, Moves, Steps
<1>4. pc[p] \notin Ended
  BY <1>2 DEF Ended
<1>5. History' /\ Adds(p)
  BY <1>1, <1>2, <1>3, <1>4, HistoryKept
<1>6. /\ Early(p)' /\ Found(p)' = Found(p) /\ Derived(p)' = Derived(p)
      /\ Receives(p)' <=> Receives(p)
      /\ \A s : Meant(p, s)' <=> Meant(p, s)
  BY <1>1, <1>2, <1>3, <1>4, Kept
<1>7. Types(p)'
  <2>1. Found(p) \in Header
    BY <1>1, <1>2, ParseSound DEF Types, Found
  <2> QED
    BY <1>1, <1>2, <1>3, <2>1 DEF Types
<1>8. Role(p)'
  BY <1>1, <1>2, <1>3 DEF Role
<1>9. Reading(p)'
  BY <1>1, <1>2, <1>3, <1>6 DEF Reading
<1>10. Holding(p)'
  BY <1>1, <1>2, <1>3, <1>6 DEF Holding, Ended
<1>11. Writing(p)'
  BY <1>3 DEF Writing, Sealers
<1>12. Reads(p)'
  BY <1>1, <1>2, <1>3, <1>6 DEF Reads
<1>13. Refusing(p)'
  BY <1>3 DEF Refusing
<1>14. Local(p)'
  BY <1>6, <1>7, <1>8, <1>9, <1>10, <1>11, <1>12, <1>13 DEF Local
<1> QED
  BY <1>3, <1>5, <1>14, Preserved

\* A receiver compares the strength of the profile with the minimum.
LEMMA DowngradeKeeps ==
  ASSUME OneShotInv, NEW p \in Proc, Downgrade(p)
  PROVE  OneShotInv'
<1>1. /\ Types(p) /\ Role(p) /\ Reading(p) /\ Holding(p) /\ Writing(p) /\ Reads(p) /\ Early(p)
      /\ Domains /\ History
  BY PartsOf
<1>2. /\ pc[p] = "check" /\ Weaker(p)
      /\ pc' = [pc EXCEPT ![p] = "DowngradeError"]
      /\ UNCHANGED <<call, blob, header, buf, pt, key, sealed, sent, fault>>
  BY DEF Downgrade, Goto
<1>3. Domains' /\ Moves(p) /\ pc'[p] = "DowngradeError"
  BY <1>1, <1>2 DEF Domains, Moves, Steps, Ended
<1>4. pc[p] \notin Ended
  BY <1>2 DEF Ended
<1>5. History' /\ Adds(p)
  BY <1>1, <1>2, <1>3, <1>4, HistoryKept
<1>6. /\ Early(p)' /\ Found(p)' = Found(p) /\ Derived(p)' = Derived(p)
      /\ Receives(p)' <=> Receives(p)
      /\ \A s : Meant(p, s)' <=> Meant(p, s)
  BY <1>1, <1>2, <1>3, <1>4, Kept
<1>7. Types(p)' /\ Role(p)'
  BY <1>1, <1>2, <1>3 DEF Types, Role
<1>8. Receives(p)
  BY <1>1, <1>2 DEF Role, Receives
<1>9. header[p] = Found(p)
  BY <1>1, <1>2, <1>8 DEF Reading
<1>10. Reading(p)'
  BY <1>1, <1>2, <1>3, <1>6 DEF Reading
<1>11. Holding(p)'
  BY <1>1, <1>2, <1>3, <1>6 DEF Holding
<1>12. Writing(p)'
  BY <1>3 DEF Writing, Sealers
<1>13. Reads(p)'
  BY <1>1, <1>2, <1>3, <1>6 DEF Reads
<1>14. Refusing(p)'
  BY <1>2, <1>3, <1>6, <1>9 DEF Refusing, Weaker, TooWeak
<1>15. Local(p)'
  BY <1>6, <1>7, <1>10, <1>11, <1>12, <1>13, <1>14 DEF Local
<1> QED
  BY <1>3, <1>5, <1>15, Preserved

\* What the parser takes, and the handles fit, makes a root key.
LEMMA DerivedType ==
  ASSUME NEW data \in Bytes, Parse(data).ok, NEW ks \in Seq(KeyPair),
         Recovers(ks, Parse(data).header)
  PROVE  /\ Parse(data).header \in Header /\ Encodable(Parse(data).header)
         /\ RecoveredKey(ks, Parse(data).header) \in RootKeys
<1>1. PICK h : h = Parse(data).header
  OBVIOUS
<1>2. h \in Header /\ Encodable(h)
  BY <1>1, ParseSound
<1>3. h.comps \in Seq(Component) /\ \A i \in 1..Len(h.comps) : Fits(h.comps[i])
  BY <1>2, Written
<1>4. Listable(h.comps)
  BY <1>2, <1>3 DEF Listable, Encodable
<1>5. Len(ks) = Len(h.comps)
  BY <1>1 DEF Recovers
<1>6. RecoveredKey(ks, h) \in RootKeys
  BY <1>4, <1>5, KeyType
<1> QED
  BY <1>1, <1>2, <1>6

\* A receiver recovers the root key that its handles make of the header.
LEMMA RecoverKeeps ==
  ASSUME OneShotInv, NEW p \in Proc, Recover(p)
  PROVE  OneShotInv'
<1>1. /\ Types(p) /\ Role(p) /\ Reading(p) /\ Holding(p) /\ Writing(p) /\ Reads(p) /\ Early(p)
      /\ Domains /\ History
  BY PartsOf
<1>2. /\ pc[p] = "check" /\ Admissible(p) /\ Recovers(call[p].handles, header[p])
      /\ UNCHANGED <<call, blob, header, pt, sealed, sent, fault>>
  BY DEF Recover
<1>3. call[p] \in Call /\ call[p].op \in Receivers /\ Receives(p)
  BY <1>1, <1>2 DEF Role, Receives
<1>4. header[p] = Found(p) /\ Parse(blob[p]).ok
  BY <1>1, <1>2, <1>3 DEF Reading
<1>5. Granted(call[p], Found(p))
  BY <1>2, <1>4 DEF Granted, Admissible, Weaker, TooWeak
<1>6. Derived(p) \in RootKeys
  <2>1. call[p].handles \in Seq(KeyPair)
    BY <1>3, CallIs
  <2>2. blob[p] \in Bytes
    BY <1>1 DEF Types
  <2>3. Recovers(call[p].handles, Parse(blob[p]).header)
    BY <1>2, <1>4 DEF Found
  <2>4. RecoveredKey(call[p].handles, Parse(blob[p]).header) \in RootKeys
    BY <1>4, <2>1, <2>2, <2>3, DerivedType
  <2> QED
    BY <2>4 DEF Derived, Found
<1>7. pt[p] = None \/ pt[p] \in Doc
  BY <1>1 DEF Types
<1>8. /\ Domains' /\ Moves(p)
      /\ \/ /\ call[p].op = "recover_root_key"
            /\ key'[p] = Derived(p) /\ pc'[p] = "returned" /\ buf'[p] = buf[p]
         \/ /\ call[p].op # "recover_root_key"
            /\ buf'[p] = Derived(p) /\ pc'[p] = "open" /\ key'[p] = key[p]
  <2>1. RecoveredKey(call[p].handles, header[p]) = Derived(p)
    BY <1>4 DEF Derived
  <2>2. CASE call[p].op = "recover_root_key"
    <3>1. /\ key' = [key EXCEPT ![p] = Derived(p)] /\ pc' = [pc EXCEPT ![p] = "returned"]
          /\ UNCHANGED buf
      BY <2>1, <2>2 DEF Recover, Goto
    <3> QED
      BY <1>1, <1>2, <2>2, <3>1 DEF Domains, Moves, Steps, Ended
  <2>3. CASE call[p].op # "recover_root_key"
    <3>1. /\ buf' = [buf EXCEPT ![p] = Derived(p)] /\ pc' = [pc EXCEPT ![p] = "open"]
          /\ UNCHANGED key
      BY <2>1, <2>3 DEF Recover, Goto
    <3> QED
      BY <1>1, <1>2, <2>3, <3>1 DEF Domains, Moves, Steps
  <2> QED
    BY <2>2, <2>3
<1>9. pc[p] \notin Ended
  BY <1>2 DEF Ended
<1>10. ~(pc'[p] = "returned" /\ call'[p].op \in Senders)
  BY <1>2, <1>8 DEF Senders
<1>11. History' /\ Adds(p)
  BY <1>1, <1>2, <1>8, <1>9, <1>10, HistoryKept
<1>12. /\ Early(p)' /\ Found(p)' = Found(p) /\ Derived(p)' = Derived(p)
       /\ Receives(p)' <=> Receives(p)
       /\ \A s : Meant(p, s)' <=> Meant(p, s)
  BY <1>1, <1>2, <1>8, <1>9, Kept
<1>13. Types(p)'
  BY <1>1, <1>2, <1>6, <1>8 DEF Types
<1>14. Role(p)'
  BY <1>1, <1>2, <1>8 DEF Role
<1>15. Reading(p)'
  BY <1>1, <1>2, <1>4, <1>5, <1>8, <1>12 DEF Reading
<1>16. Holding(p)'
  BY <1>1, <1>2, <1>8, <1>12 DEF Holding, Ended
<1>17. Writing(p)'
  BY <1>8, <1>10 DEF Writing, Sealers
<1>18. Reads(p)'
  BY <1>1, <1>2, <1>8, <1>12 DEF Reads
<1>19. Refusing(p)'
  BY <1>8 DEF Refusing
<1>20. Local(p)'
  BY <1>12, <1>13, <1>14, <1>15, <1>16, <1>17, <1>18, <1>19 DEF Local
<1> QED
  BY <1>8, <1>11, <1>20, Preserved

\* Bytes are what comes before a place in them and what comes after it.
LEMMA Halves ==
  ASSUME NEW d \in Bytes, NEW n \in 0..Len(d)
  PROVE  SubSeq(d, 1, n) \o SubSeq(d, n + 1, Len(d)) = d
<1>1. d \in Seq(Byte) /\ Len(d) \in Nat
  BY BytesAre DEF Bytes
<1>2. 1 \in 1..(Len(d) + 1) /\ n \in (1 - 1)..Len(d) /\ Len(d) \in n..Len(d)
  BY <1>1
<1>3. SubSeq(d, 1, n) \o SubSeq(d, n + 1, Len(d)) = SubSeq(d, 1, Len(d))
  BY <1>1, <1>2, ConcatAdjacentSubSeq
<1>4. SubSeq(d, 1, Len(d)) = d
  BY <1>1, SubSeqFull
<1> QED
  BY <1>3, <1>4

\* The tag is found only in what was sealed for these handles.
LEMMA OpensMeant ==
  ASSUME OneShotInv, NEW p \in Proc, pc[p] = "open",
         NEW o \in Sealers, Opens(p, Sealing(o))
  PROVE  Meant(p, Out(o))
<1>1. /\ Types(p) /\ Role(p) /\ Reading(p) /\ Holding(p)
  BY PartsOf
<1>2. call[p] \in Call /\ call[p].op \in Receivers /\ Receives(p) /\ blob[p] \in Bytes
  BY <1>1 DEF Role, Receives, Types
<1>3. header[p] = Found(p) /\ Parse(blob[p]).ok /\ buf[p] = Derived(p)
      /\ Granted(call[p], Found(p))
  BY <1>1, <1>2 DEF Reading, Holding
<1>4. PICK b : b = call[o].bundle
  OBVIOUS
<1>5. o \in Proc /\ Sendable(o, b)
  BY <1>4, SentIs
<1>6. PICK n : n = Parse(blob[p]).consumed
  OBVIOUS
<1>7. /\ NewKey(o, b) = Derived(p)
      /\ ToBytes(NewHeader(o, b)) = SubSeq(blob[p], 1, n)
      /\ <<Random[o]>> = SubSeq(blob[p], n + 1, Len(blob[p]))
  BY <1>3, <1>4, <1>6 DEF Opens, Sealing
<1>8. n \in 0..Len(blob[p])
  BY <1>2, <1>3, <1>6, ParseSound
<1>9. Letter(o, b) = blob[p]
  BY <1>2, <1>7, <1>8, Halves DEF Letter
<1>10. call[p].handles = b.keys
  <2>1. call[p].handles \in Seq(KeyPair)
    BY <1>2, CallIs
  <2>2. Found(p) \in Header /\ Encodable(Found(p))
    BY <1>2, <1>3, ParseSound DEF Found
  <2>3. Recovers(call[p].handles, Found(p))
    BY <1>3 DEF Granted
  <2>4. RecoveredKey(call[p].handles, Found(p)) = NewKey(o, b)
    BY <1>7 DEF Derived
  <2> QED
    BY <1>5, <2>1, <2>2, <2>3, <2>4, KeyTells
<1> QED
  BY <1>4, <1>9, <1>10 DEF Meant, Out

\* What was sent for these handles is parsed, and has the key it was sealed
\* under.
LEMMA MeantFound ==
  ASSUME OneShotInv, NEW p \in Proc, NEW o \in Sealers, Meant(p, Out(o))
  PROVE  /\ Parse(blob[p]).ok /\ Found(p) = NewHeader(o, call[o].bundle)
         /\ Derived(p) = NewKey(o, call[o].bundle)
         /\ Parse(blob[p]).consumed = Len(ToBytes(NewHeader(o, call[o].bundle)))
         /\ call[p].handles = call[o].bundle.keys
<1>1. PICK b, h : b = call[o].bundle /\ h = NewHeader(o, b)
  OBVIOUS
<1>2. o \in Proc /\ Sendable(o, b)
  BY <1>1, SentIs
<1>3. blob[p] = Letter(o, b) /\ call[p].handles = b.keys
  BY <1>1 DEF Meant, Out
<1>4. blob[p] \in Bytes /\ IsPrefix(ToBytes(h), blob[p])
  BY <1>1, <1>2, <1>3, LetterParts
<1>5. Parse(blob[p]).ok /\ Parse(blob[p]).header = h
      /\ Parse(blob[p]).consumed = Len(ToBytes(h))
  BY <1>1, <1>2, <1>4, HeaderSent
<1>6. RecoveredKey(b.keys, h) = NewKey(o, b)
  BY <1>1, <1>2, KeyOfRecipient
<1> QED
  BY <1>1, <1>3, <1>5, <1>6 DEF Found, Derived

\* It opens.
LEMMA MeantOpens ==
  ASSUME OneShotInv, NEW p \in Proc, pc[p] = "open",
         NEW o \in Sealers, Meant(p, Out(o))
  PROVE  Opens(p, Sealing(o))
<1>1. PICK b : b = call[o].bundle
  OBVIOUS
<1>2. /\ Parse(blob[p]).ok /\ Found(p) = NewHeader(o, b) /\ Derived(p) = NewKey(o, b)
      /\ Parse(blob[p]).consumed = Len(ToBytes(NewHeader(o, b)))
  BY <1>1, MeantFound
<1>3. o \in Proc /\ Sendable(o, b)
  BY <1>1, SentIs
<1>4. blob[p] = Letter(o, b)
  BY <1>1 DEF Meant, Out
<1>5. /\ SubSeq(blob[p], 1, Len(ToBytes(NewHeader(o, b)))) = ToBytes(NewHeader(o, b))
      /\ SubSeq(blob[p], Len(ToBytes(NewHeader(o, b))) + 1, Len(blob[p])) = <<Random[o]>>
  BY <1>3, <1>4, LetterParts
<1>6. Role(p) /\ Reading(p) /\ Holding(p)
  BY PartsOf
<1>7. header[p] = Found(p) /\ buf[p] = Derived(p)
  BY <1>6 DEF Role, Receives, Reading, Holding
<1> QED
  BY <1>1, <1>2, <1>5, <1>7 DEF Opens, Sealing

\* A receiver opens what comes after the header: only a blob meant for it opens.
LEMMA OpenKeeps ==
  ASSUME OneShotInv, NEW p \in Proc, Open(p)
  PROVE  OneShotInv'
<1>1. /\ Types(p) /\ Role(p) /\ Reading(p) /\ Holding(p) /\ Writing(p) /\ Reads(p) /\ Early(p)
      /\ Domains /\ History
  BY PartsOf
<1>2. PICK s \in sealed : Opens(p, s) /\ pt' = [pt EXCEPT ![p] = s.pt]
  BY DEF Open
<1>3. /\ pc[p] = "open"
      /\ buf' = [buf EXCEPT ![p] = None]
      /\ pc' = [pc EXCEPT ![p] = IF call[p].op = "migrate" THEN "derive" ELSE "returned"]
      /\ UNCHANGED <<call, blob, header, key, sealed, sent, fault>>
  BY DEF Open, Goto
<1>4. PICK o \in Sealers : s = Sealing(o)
  BY SentIs
<1>5. Out(o) \in sent /\ pt[o] \in Doc
  BY SentIs
<1>6. Meant(p, Out(o))
  BY <1>2, <1>3, <1>4, OpensMeant
<1>7. /\ Domains' /\ Moves(p) /\ buf'[p] = None /\ pt'[p] = pt[o]
      /\ pc'[p] = IF call[p].op = "migrate" THEN "derive" ELSE "returned"
  <2>1. s.pt = pt[o]
    BY <1>4 DEF Sealing
  <2> QED
    BY <1>1, <1>2, <1>3, <2>1 DEF Domains, Moves, Steps, Ended
<1>8. pc[p] \notin Ended
  BY <1>3 DEF Ended
<1>9. call[p] \in Call /\ call[p].op \in Receivers /\ Receives(p)
  BY <1>1, <1>3 DEF Role, Receives
<1>10. ~(pc'[p] = "returned" /\ call'[p].op \in Senders)
  BY <1>3, <1>7, <1>9 DEF Senders, Receivers
<1>11. History' /\ Adds(p)
  BY <1>1, <1>3, <1>7, <1>8, <1>10, HistoryKept
<1>12. pc'[p] # "idle"
  BY <1>7
<1>13. /\ Early(p)' /\ Found(p)' = Found(p) /\ Derived(p)' = Derived(p)
       /\ Receives(p)' <=> Receives(p)
       /\ \A t : Meant(p, t)' <=> Meant(p, t)
  BY <1>1, <1>3, <1>7, <1>8, <1>12, Kept
<1>14. Types(p)'
  BY <1>1, <1>3, <1>5, <1>7 DEF Types
<1>15. Role(p)'
  BY <1>1, <1>3, <1>7 DEF Role, Senders
<1>16. Reading(p)'
  BY <1>1, <1>3, <1>7, <1>9, <1>13 DEF Reading
<1>17. Holding(p)'
  BY <1>1, <1>3, <1>7, <1>13 DEF Holding
<1>18. Writing(p)'
  BY <1>5, <1>7, <1>10 DEF Writing, Sealers
<1>19. Reads(p)'
  <2>1. Out(o).pt = pt[o]
    BY DEF Out
  <2> QED
    BY <1>3, <1>5, <1>6, <1>7, <1>13, <2>1 DEF Reads
<1>20. Refusing(p)'
  BY <1>7 DEF Refusing
<1>21. Local(p)'
  BY <1>13, <1>14, <1>15, <1>16, <1>17, <1>18, <1>19, <1>20 DEF Local
<1> QED
  BY <1>7, <1>11, <1>21, Preserved

\* A fault ends a call.
LEMMA FailKeeps ==
  ASSUME OneShotInv, NEW p \in Proc, Fail(p)
  PROVE  OneShotInv'
<1>1. /\ Types(p) /\ Role(p) /\ Reading(p) /\ Holding(p) /\ Writing(p) /\ Reads(p) /\ Early(p)
      /\ Domains /\ History
  BY PartsOf
<1>2. /\ pc[p] \in {"parse", "check", "open"}
      /\ pc[p] = "check" => ~Weaker(p)
      /\ fault' = fault \/ fault' = [fault EXCEPT ![p] = "recover"]
      /\ buf' = [buf EXCEPT ![p] = None]
      /\ pc' = [pc EXCEPT ![p] = "DecryptionError"]
      /\ UNCHANGED <<call, blob, header, pt, key, sealed, sent>>
  BY DEF Fail, Goto
<1>3. Domains' /\ Moves(p) /\ pc'[p] = "DecryptionError" /\ buf'[p] = None
  BY <1>1, <1>2 DEF Domains, Moves, Steps, Faults, Ended
<1>4. pc[p] \notin Ended
  BY <1>2 DEF Ended
<1>5. History' /\ Adds(p)
  BY <1>1, <1>2, <1>3, <1>4, HistoryKept
<1>6. pc[p] # "idle" /\ pc'[p] # "idle" /\ call'[p] = call[p] /\ blob'[p] = blob[p]
  BY <1>2, <1>3
<1>7. /\ Early(p)' /\ Found(p)' = Found(p) /\ Derived(p)' = Derived(p)
      /\ Receives(p)' <=> Receives(p)
      /\ \A s : Meant(p, s)' <=> Meant(p, s)
  BY <1>1, <1>3, <1>4, <1>6, Kept
<1>8. call[p].op \in Receivers /\ Receives(p)
  BY <1>1, <1>2 DEF Role, Receives
<1>9. Types(p)'
  BY <1>1, <1>2, <1>3 DEF Types
<1>10. Role(p)'
  BY <1>1, <1>2, <1>3 DEF Role
<1>11. Reading(p)'
  BY <1>1, <1>2, <1>3, <1>7 DEF Reading
<1>12. Holding(p)'
  BY <1>1, <1>2, <1>3, <1>7 DEF Holding
<1>13. Writing(p)'
  BY <1>3 DEF Writing, Sealers
<1>14. Reads(p)'
  BY <1>1, <1>2, <1>3, <1>7 DEF Reads
<1>15. fault'[p] # "recover" =>
         \/ ~Parse(blob[p]).ok
         \/ ~Granted(call[p], Found(p))
         \/ \A s \in sent : ~Meant(p, s)
  <2>1. SUFFICES ASSUME fault'[p] # "recover"
                 PROVE  \/ ~Parse(blob[p]).ok
                        \/ ~Granted(call[p], Found(p))
                        \/ \A s \in sent : ~Meant(p, s)
    OBVIOUS
  <2>2. /\ \/ pc[p] = "parse"
           \/ pc[p] = "check" /\ ~(Admissible(p) /\ Recovers(call[p].handles, header[p]))
           \/ pc[p] = "open" /\ \A s \in sealed : ~Opens(p, s)
        /\ pc[p] = "parse" => ~Parse(blob[p]).ok
    <3>1. p \in DOMAIN fault
      BY <1>1 DEF Domains
    <3> QED
      BY <2>1, <3>1 DEF Fail
  <2>3. CASE pc[p] = "parse"
    BY <2>2, <2>3
  <2>4. CASE pc[p] = "check"
    <3>1. header[p] = Found(p)
      BY <1>1, <1>8, <2>4 DEF Reading
    <3>2. ~(Admissible(p) /\ Recovers(call[p].handles, header[p]))
      BY <2>2, <2>4
    <3> QED
      BY <3>1, <3>2 DEF Granted, Admissible, Weaker, TooWeak
  <2>5. CASE pc[p] = "open"
    <3>1. \A s \in sealed : ~Opens(p, s)
      BY <2>2, <2>5
    <3>2. ASSUME NEW s \in sent, Meant(p, s)
          PROVE  FALSE
      <4>1. PICK o \in Sealers : s = Out(o)
        BY SentIs
      <4>2. Sealing(o) \in sealed
        BY SentIs
      <4>3. Opens(p, Sealing(o))
        BY <2>5, <3>2, <4>1, MeantOpens
      <4> QED
        BY <3>1, <4>2, <4>3
    <3> QED
      BY <3>2
  <2> QED
    BY <1>2, <2>3, <2>4, <2>5
<1>16. Refusing(p)'
  BY <1>2, <1>3, <1>7, <1>15 DEF Refusing
<1>17. Local(p)'
  BY <1>7, <1>9, <1>10, <1>11, <1>12, <1>13, <1>14, <1>16 DEF Local
<1> QED
  BY <1>3, <1>5, <1>17, Preserved

-----------------------------------------------------------------------------

\* No call has begun.
LEMMA InitInv ==
  ASSUME Init
  PROVE  OneShotInv
<1>1. Domains
  BY DEF Init, Domains, Steps, Faults
<1>2. Sealers = {}
  BY DEF Init, Sealers
<1>3. History
  BY <1>2 DEF Init, History
<1>4. ASSUME NEW p \in Proc PROVE Local(p)
  <2>1. /\ pc[p] = "idle" /\ call[p] = None /\ blob[p] = <<>> /\ header[p] = None
        /\ buf[p] = None /\ pt[p] = None /\ key[p] = None /\ fault[p] = None
        /\ sent = {}
    BY DEF Init
  <2>2. Types(p)
    BY <2>1, BytesAre DEF Types
  <2>3. Role(p) /\ ~Receives(p)
    BY <2>1 DEF Role, Receives
  <2>4. Reading(p) /\ Reads(p) /\ Early(p)
    BY <2>3 DEF Reading, Reads, Early
  <2>5. Holding(p)
    BY <2>1, <2>3 DEF Holding, Ended
  <2>6. Writing(p) /\ Refusing(p)
    BY <2>1 DEF Writing, Sealers, Refusing
  <2> QED
    BY <2>2, <2>3, <2>4, <2>5, <2>6 DEF Local
<1> QED
  BY <1>1, <1>3, <1>4 DEF OneShotInv

\* Every step of every call keeps the invariant.
LEMMA StepInv ==
  ASSUME OneShotInv, [Next]_vars
  PROVE  OneShotInv'
<1>1. CASE UNCHANGED vars
  <2>1. /\ pc' = pc /\ call' = call /\ blob' = blob /\ header' = header /\ buf' = buf
        /\ pt' = pt /\ key' = key /\ sealed' = sealed /\ sent' = sent /\ fault' = fault
    BY <1>1 DEF vars
  <2>2. Domains' /\ History'
    BY <2>1 DEF OneShotInv, Domains, History, Out, Sealing, Sealers
  <2>3. ASSUME NEW q \in Proc PROVE Local(q)'
    <3>1. Local(q)
      BY DEF OneShotInv
    <3> QED
      BY <2>1, <3>1 DEF Local, Types, Role, Reading, Holding, Writing, Reads, Refusing, Early,
                        Receives, Found, Derived, Meant, Sealers
  <2> QED
    BY <2>2, <2>3 DEF OneShotInv
<1>2. CASE Next
  <2>1. PICK p \in Proc :
          \/ Start(p) \/ Derive(p) \/ DeriveRaises(p) \/ Seal(p) \/ SealRaises(p)
          \/ ParseHeader(p) \/ Downgrade(p) \/ Recover(p) \/ Open(p) \/ Fail(p)
    BY <1>2 DEF Next
  <2>2. CASE Start(p)
    BY <2>2, StartKeeps
  <2>3. CASE Derive(p)
    BY <2>3, DeriveKeeps
  <2>4. CASE DeriveRaises(p)
    BY <2>4, DeriveRaisesKeeps
  <2>5. CASE Seal(p)
    BY <2>5, SealKeeps
  <2>6. CASE SealRaises(p)
    BY <2>6, SealRaisesKeeps
  <2>7. CASE ParseHeader(p)
    BY <2>7, ParseHeaderKeeps
  <2>8. CASE Downgrade(p)
    BY <2>8, DowngradeKeeps
  <2>9. CASE Recover(p)
    BY <2>9, RecoverKeeps
  <2>10. CASE Open(p)
    BY <2>10, OpenKeeps
  <2>11. CASE Fail(p)
    BY <2>11, FailKeeps
  <2> QED
    BY <2>1, <2>2, <2>3, <2>4, <2>5, <2>6, <2>7, <2>8, <2>9, <2>10, <2>11
<1> QED
  BY <1>1, <1>2

\* Spec keeps the invariant: what each call of encrypt(), decrypt(), migrate()
\* and recover_root_key() holds at each of its steps is what its arguments, its
\* bytes and the calls that have returned make of it, however the calls are
\* interleaved and whichever of them fail.
THEOREM OneShotInvariant == Spec => []OneShotInv
<1>1. Init => OneShotInv
  BY InitInv
<1>2. OneShotInv /\ [Next]_vars => OneShotInv'
  BY StepInv
<1> QED
  BY <1>1, <1>2, PTL DEF Spec
-----------------------------------------------------------------------------
\* What follows.

\* A call that receives bytes has been started.
LEMMA ReceivingIs ==
  ASSUME OneShotInv, NEW p \in Receiving
  PROVE  /\ p \in Proc /\ pc[p] # "idle" /\ Receives(p)
         /\ call[p] \in Call /\ call[p].handles \in Seq(KeyPair) /\ blob[p] \in Bytes
<1>1. p \in Proc /\ call[p] # None /\ call[p].op \in Receivers
  BY DEF Receiving, Receivers
<1>2. Types(p) /\ Role(p)
  BY <1>1, PartsOf
<1>3. pc[p] # "idle" /\ call[p] \in Call
  BY <1>1, <1>2 DEF Role
<1> QED
  BY <1>1, <1>2, <1>3, CallIs DEF Receives, Types

\* Whose handles make the key of what was sent have what was sent, and its
\* profile is granted.
LEMMA DerivedTells ==
  ASSUME OneShotInv, NEW p \in Receiving, NEW o \in Sealers,
         Parse(blob[p]).ok, Granted(call[p], Found(p)),
         Derived(p) = NewKey(o, call[o].bundle)
  PROVE  /\ call[p].handles = call[o].bundle.keys
         /\ Found(p).comps = NewHeader(o, call[o].bundle).comps
         /\ Registered(Found(p).profile)
         /\ ProfileOf(Found(p).profile) = call[o].bundle.profile
<1>1. PICK b, h, ks : b = call[o].bundle /\ h = Found(p) /\ ks = call[p].handles
  OBVIOUS
<1>2. o \in Proc /\ Sendable(o, b)
  BY <1>1, SentIs
<1>3. ks \in Seq(KeyPair) /\ blob[p] \in Bytes
  BY <1>1, ReceivingIs
<1>4. h \in Header /\ Encodable(h)
  BY <1>1, <1>3, ParseSound DEF Found
<1>5. Recovers(ks, h) /\ RecoveredKey(ks, h) = NewKey(o, b)
  BY <1>1 DEF Granted, Derived
<1>6. ks = b.keys /\ h.comps = NewHeader(o, b).comps
  BY <1>2, <1>3, <1>4, <1>5, KeyTells
<1>7. Registered(h.profile) /\ ProfileOf(h.profile) = b.profile
  BY <1>2, <1>5, <1>6, ProfileTold
<1> QED
  BY <1>1, <1>6, <1>7

\* A key that is returned, or is about to open something, and is that of a blob
\* that was sent.
LEMMA KeyHeld ==
  ASSUME OneShotInv, NEW p \in Receiving, NEW o \in Sealers,
         \/ NewKey(o, call[o].bundle) = key[p]
         \/ NewKey(o, call[o].bundle) = buf[p] /\ pc[p] \in {"open", "returned"}
  PROVE  /\ Derived(p) = NewKey(o, call[o].bundle)
         /\ Parse(blob[p]).ok /\ Granted(call[p], Found(p)) /\ header[p] = Found(p)
<1>1. p \in Proc /\ Receives(p)
  BY ReceivingIs
<1>2. Reading(p) /\ Holding(p)
  BY <1>1, PartsOf
<1>3. NewKey(o, call[o].bundle) \in RootKeys /\ NewKey(o, call[o].bundle) # None
  BY SentIs, KeyOfRecipient, NoneAssumption
<1>4. CASE NewKey(o, call[o].bundle) = key[p]
  <2>1. /\ pc[p] = "returned" /\ call[p].op = "recover_root_key" /\ key[p] = Derived(p)
    BY <1>1, <1>2, <1>3, <1>4 DEF Holding
  <2> QED
    BY <1>1, <1>2, <1>4, <2>1 DEF Reading
<1>5. CASE NewKey(o, call[o].bundle) = buf[p] /\ pc[p] \in {"open", "returned"}
  <2>1. pc[p] = "open" /\ buf[p] = Derived(p)
    BY <1>2, <1>3, <1>5 DEF Holding, Ended
  <2> QED
    BY <1>1, <1>2, <1>5, <2>1 DEF Reading
<1> QED
  BY <1>4, <1>5

\* What the invariant says of the types.
LEMMA TypesOfInv ==
  ASSUME OneShotInv
  PROVE  TypeOK
<1>1. pc \in [Proc -> {"idle", "derive", "seal", "parse", "check", "open"} \cup Ended]
      /\ fault \in [Proc -> {None, "source", "construct", "encrypt", "recover"}]
  BY DEF OneShotInv, Domains, Steps, Faults
<1>2. ASSUME NEW p \in Proc
      PROVE  /\ call[p] \in Calls[p] \cup {None}
             /\ blob[p] \in Bytes
             /\ header[p] \in Header \cup {None}
             /\ buf[p] \in RootKeys \cup {None}
             /\ pt[p] \in Doc \cup {None}
             /\ key[p] \in RootKeys \cup {None}
  <2>1. Types(p) /\ Role(p)
    BY PartsOf
  <2> QED
    BY <2>1 DEF Types, Role
<1>3. ASSUME NEW q \in Sealers
      PROVE  /\ Sealing(q).key \in RootKeys /\ Sealing(q).nonce \in Bytes /\ Sealing(q).aad \in Bytes
             /\ Out(q).blob \in Bytes /\ Out(q).bundle \in Bundle /\ Out(q).pt \in Doc
  <2>1. PICK b : b = call[q].bundle
    OBVIOUS
  <2>2. q \in Proc /\ Sendable(q, b) /\ b \in Bundle /\ pt[q] \in Doc
    BY <2>1, SentIs
  <2>3. NewKey(q, b) \in RootKeys
    BY <2>2, KeyOfRecipient
  <2>4. ToBytes(NewHeader(q, b)) \in Bytes
    BY <2>2, HeaderSent
  <2>5. Letter(q, b) \in Bytes
    BY <2>2, LetterParts
  <2>6. NewHeader(q, b).nonce \in Bytes
    <3>1. NewHeader(q, b).nonce = [i \in 1..NonceLen |-> Random[q]]
      BY <2>2, HeaderMade
    <3> QED
      BY <2>2, <3>1, Randoms
  <2> QED
    BY <2>1, <2>2, <2>3, <2>4, <2>5, <2>6 DEF Sealing, Out
<1>4. \A s \in sealed : s.key \in RootKeys /\ s.nonce \in Bytes /\ s.aad \in Bytes
  BY <1>3, SentIs
<1>5. \A s \in sent : s.blob \in Bytes /\ s.bundle \in Bundle /\ s.pt \in Doc
  BY <1>3, SentIs
<1> QED
  BY <1>1, <1>2, <1>4, <1>5 DEF TypeOK

\* TypeOK: the arguments, bytes, headers, root keys and plaintexts that the
\* one-shot calls hold are what they should be.
THEOREM TypeCorrect == Spec => []TypeOK
<1>1. OneShotInv => TypeOK
  BY TypesOfInv
<1> QED
  BY <1>1, OneShotInvariant, PTL

\* What it says of headers, by ParseSound and ParseComplete.
LEMMA CanonicalOfInv ==
  ASSUME OneShotInv
  PROVE  HeaderCanonical
<1>1. SUFFICES ASSUME NEW p \in Receiving, header[p] # None, call[p].op # "migrate"
               PROVE  LET n == Parse(blob[p]).consumed IN
                      /\ Encodable(header[p])
                      /\ ToBytes(header[p]) = SubSeq(blob[p], 1, n)
                      /\ \A s \in sent : header[p] = Parse(s.blob).header =>
                            SubSeq(s.blob, 1, n) = SubSeq(blob[p], 1, n)
  BY DEF HeaderCanonical
<1>2. p \in Proc /\ Receives(p) /\ blob[p] \in Bytes
  BY ReceivingIs
<1>3. Reading(p)
  BY <1>2, PartsOf
<1>4. Parse(blob[p]).ok /\ header[p] = Parse(blob[p]).header
  BY <1>1, <1>2, <1>3 DEF Reading, Found
<1>5. PICK n, h : n = Parse(blob[p]).consumed /\ h = header[p]
  OBVIOUS
<1>6. /\ h \in Header /\ Encodable(h) /\ Len(ToBytes(h)) = n
      /\ IsPrefix(ToBytes(h), blob[p])
  BY <1>2, <1>4, <1>5, ParseSound
<1>7. ToBytes(h) \in Seq(Byte)
  BY <1>6, Written DEF Bytes
<1>8. SubSeq(ToBytes(h), 1, n) = ToBytes(h)
  BY <1>6, <1>7, SubSeqFull
<1>9. ToBytes(h) = SubSeq(blob[p], 1, n)
  BY <1>6, <1>8 DEF IsPrefix
<1>10. ASSUME NEW s \in sent, h = Parse(s.blob).header
       PROVE  SubSeq(s.blob, 1, n) = SubSeq(blob[p], 1, n)
  <2>1. PICK o \in Sealers : s = Out(o)
    BY SentIs
  <2>2. PICK b : b = call[o].bundle
    OBVIOUS
  <2>3. o \in Proc /\ Sendable(o, b) /\ s.blob = Letter(o, b)
    BY <2>1, <2>2, SentIs DEF Out
  <2>4. s.blob \in Bytes /\ IsPrefix(ToBytes(NewHeader(o, b)), s.blob)
    BY <2>3, LetterParts
  <2>5. Parse(s.blob).ok
    BY <2>3, <2>4, HeaderSent
  <2>6. IsPrefix(ToBytes(Parse(s.blob).header), s.blob)
    BY <2>4, <2>5, ParseSound
  <2>7. IsPrefix(ToBytes(h), s.blob)
    BY <1>10, <2>6
  <2>8. SubSeq(s.blob, 1, n) = ToBytes(h)
    BY <1>6, <1>8, <2>7 DEF IsPrefix
  <2> QED
    BY <1>9, <2>8
<1> QED
  BY <1>5, <1>6, <1>9, <1>10

\* HeaderCanonical: the header that decrypt() or recover_root_key() holds, written
\* by to_bytes(), is the very bytes it was parsed from, so that the associated
\* data of the AEAD is what was received; two headers are equal only as bytes.
THEOREM CanonicalHeaders == Spec => []HeaderCanonical
<1>1. OneShotInv => HeaderCanonical
  BY CanonicalOfInv
<1> QED
  BY <1>1, OneShotInvariant, PTL

\* OpensOnlySealed: the plaintext that decrypt() returns, or migrate() goes on
\* with, is one that a call of encrypt() or migrate() has sealed for the same key
\* pairs, in the very bytes that were received.
THEOREM OpensOnlyWhatWasSealed == Spec => []OpensOnlySealed
<1>1. ASSUME OneShotInv PROVE OpensOnlySealed
  <2>1. ASSUME NEW p \in Receiving, pt[p] # None
        PROVE  \E s \in sent : s.blob = blob[p] /\ s.pt = pt[p] /\ s.bundle.keys = call[p].handles
    <3>1. p \in Proc /\ Receives(p)
      BY <1>1, ReceivingIs
    <3>2. Reads(p)
      BY <1>1, <3>1, PartsOf
    <3>3. PICK s \in sent : Meant(p, s) /\ s.pt = pt[p]
      BY <2>1, <3>1, <3>2 DEF Reads
    <3> QED
      BY <3>3 DEF Meant
  <2> QED
    BY <2>1 DEF OpensOnlySealed
<1>2. OneShotInv => OpensOnlySealed
  BY <1>1
<1> QED
  BY <1>2, OneShotInvariant, PTL

\* What it says of the minimum: the profile found is the sender's.
LEMMA MinimumOfInv ==
  ASSUME OneShotInv
  PROVE  MinimumMet
<1>1. SUFFICES ASSUME NEW p \in Receiving, call[p].min # None, NEW s \in sent,
                      s.key = key[p] \/ (pt[p] # None /\ s.blob = blob[p])
               PROVE  /\ call[p].min \in ProfileId
                      /\ Strength[s.bundle.profile] >= Strength[call[p].min]
  BY DEF MinimumMet
<1>2. PICK o \in Sealers : s = Out(o)
  BY SentIs
<1>3. PICK b : b = call[o].bundle
  OBVIOUS
<1>4. /\ o \in Proc /\ Sendable(o, b)
      /\ s.blob = Letter(o, b) /\ s.bundle = b /\ s.key = NewKey(o, b)
  BY <1>2, <1>3, SentIs DEF Out
<1>5. b.profile \in ProfileId
  BY <1>4, Keys DEF Sendable
<1>6. /\ Granted(call[p], Found(p))
      /\ Registered(Found(p).profile) /\ ProfileOf(Found(p).profile) = b.profile
  <2>1. CASE s.key = key[p]
    <3>1. Derived(p) = NewKey(o, b) /\ Parse(blob[p]).ok /\ Granted(call[p], Found(p))
      BY <1>3, <1>4, <2>1, KeyHeld
    <3>2. Registered(Found(p).profile) /\ ProfileOf(Found(p).profile) = b.profile
      BY <1>3, <3>1, DerivedTells
    <3> QED
      BY <3>1, <3>2
  <2>2. CASE pt[p] # None /\ s.blob = blob[p]
    <3>1. p \in Proc /\ Receives(p) /\ blob[p] \in Bytes
      BY ReceivingIs
    <3>2. Reading(p) /\ Reads(p)
      BY <3>1, PartsOf
    <3>3. Granted(call[p], Found(p))
      BY <2>2, <3>1, <3>2 DEF Reads, Reading
    <3>4. IsPrefix(ToBytes(NewHeader(o, b)), blob[p])
      BY <1>4, <2>2, LetterParts
    <3>5. Found(p) = NewHeader(o, b)
      BY <1>4, <3>1, <3>4, HeaderSent DEF Found
    <3>6. Found(p).profile = Name[b.profile]
      BY <1>4, <3>5, HeaderMade
    <3> QED
      BY <1>5, <3>3, <3>6, Named
  <2> QED
    BY <1>1, <2>1, <2>2
<1>7. call[p].min \in ProfileId /\ ~(Strength[b.profile] < Strength[call[p].min])
  BY <1>1, <1>6 DEF Granted, TooWeak
<1>8. \A x \in ProfileId : Strength[x] \in Nat
  BY DEF Strength, ProfileId
<1> QED
  BY <1>4, <1>5, <1>7, <1>8

\* MinimumMet: given a minimum profile, decrypt() and recover_root_key() give away
\* neither plaintext nor root key of what was sent under a weaker profile,
\* whatever was done to the header.
THEOREM MinimumIsMet == Spec => []MinimumMet
<1>1. OneShotInv => MinimumMet
  BY MinimumOfInv
<1> QED
  BY <1>1, OneShotInvariant, PTL

\* What it says of keys: equal keys have equal components and recipients.
LEMMA BindsOfInv ==
  ASSUME OneShotInv
  PROVE  KeyBinds
<1>1. SUFFICES ASSUME NEW p \in Receiving, NEW s \in sent,
                      s.key \in {key[p], buf[p]}, pc[p] \in {"open", "returned"}
               PROVE  /\ header[p].comps = Parse(s.blob).header.comps
                      /\ call[p].handles = s.bundle.keys
  BY DEF KeyBinds
<1>2. PICK o \in Sealers : s = Out(o)
  BY SentIs
<1>3. PICK b : b = call[o].bundle
  OBVIOUS
<1>4. /\ o \in Proc /\ Sendable(o, b)
      /\ s.blob = Letter(o, b) /\ s.bundle = b /\ s.key = NewKey(o, b)
  BY <1>2, <1>3, SentIs DEF Out
<1>5. /\ Derived(p) = NewKey(o, b)
      /\ Parse(blob[p]).ok /\ Granted(call[p], Found(p)) /\ header[p] = Found(p)
  BY <1>1, <1>3, <1>4, KeyHeld
<1>6. call[p].handles = b.keys /\ Found(p).comps = NewHeader(o, b).comps
  BY <1>3, <1>5, DerivedTells
<1>7. s.blob \in Bytes /\ IsPrefix(ToBytes(NewHeader(o, b)), s.blob)
  BY <1>4, LetterParts
<1>8. Parse(s.blob).header = NewHeader(o, b)
  BY <1>4, <1>7, HeaderSent
<1> QED
  BY <1>4, <1>5, <1>6, <1>8

\* KeyBinds: a receiver that holds the root key of a blob that was sent has found
\* the components of that blob in its header, byte for byte, and has the key
\* pairs it was sent to: the combiner binds the key to both.
THEOREM KeyBinding == Spec => []KeyBinds
<1>1. OneShotInv => KeyBinds
  BY BindsOfInv
<1> QED
  BY <1>1, OneShotInvariant, PTL

\* What it says of genuine bytes: no reason to refuse them is left.
LEMMA GenuineOfInv ==
  ASSUME OneShotInv
  PROVE  GenuineOpens
<1>1. SUFFICES ASSUME NEW p \in Receiving, NEW s \in sent,
                      s.blob = blob[p], s.bundle.keys = call[p].handles,
                      call[p].min # None => /\ call[p].min \in ProfileId
                                            /\ Strength[s.bundle.profile] >= Strength[call[p].min]
               PROVE  /\ pc[p] # "DowngradeError"
                      /\ pc[p] = "DecryptionError" => fault[p] = "recover"
                      /\ key[p] # None => key[p] = s.key
  BY DEF GenuineOpens
<1>2. PICK o \in Sealers : s = Out(o)
  BY SentIs
<1>3. PICK b : b = call[o].bundle
  OBVIOUS
<1>4. o \in Proc /\ Sendable(o, b) /\ s.bundle = b /\ s.key = NewKey(o, b)
  BY <1>2, <1>3, SentIs DEF Out
<1>5. p \in Proc /\ Receives(p)
  BY ReceivingIs
<1>6. Holding(p) /\ Refusing(p)
  BY <1>5, PartsOf
<1>7. Meant(p, s)
  BY <1>1 DEF Meant
<1>8. /\ Parse(blob[p]).ok /\ Found(p) = NewHeader(o, b) /\ Derived(p) = NewKey(o, b)
      /\ call[p].handles = b.keys
  BY <1>2, <1>3, <1>5, <1>7, MeantFound
<1>9. Granted(call[p], NewHeader(o, b)) /\ ~TooWeak(call[p], NewHeader(o, b))
  <2>1. call[p].min # None => /\ call[p].min \in ProfileId
                              /\ Strength[b.profile] >= Strength[call[p].min]
    BY <1>1, <1>4
  <2> QED
    BY <1>4, <1>8, <2>1, GenuineGranted
<1>10. pc[p] # "DowngradeError"
  BY <1>6, <1>8, <1>9 DEF Refusing
<1>11. pc[p] = "DecryptionError" => fault[p] = "recover"
  BY <1>6, <1>7, <1>8, <1>9 DEF Refusing
<1>12. key[p] # None => key[p] = s.key
  BY <1>4, <1>5, <1>6, <1>8 DEF Holding
<1> QED
  BY <1>10, <1>11, <1>12

\* GenuineOpens: decrypt(), migrate() and recover_root_key() do not refuse bytes
\* that were sent to their handles and meet their minimum, but when a source
\* fails.
THEOREM GenuineOpening == Spec => []GenuineOpens
<1>1. OneShotInv => GenuineOpens
  BY GenuineOfInv
<1> QED
  BY <1>1, OneShotInvariant, PTL

\* BuffersWiped: no call ends with its root key still in the buffer, but when the
\* cipher could not be constructed.
THEOREM BuffersAreWiped == Spec => []BuffersWiped
<1>1. ASSUME OneShotInv PROVE BuffersWiped
  <2>1. ASSUME NEW p \in Proc, pc[p] \in Ended, buf[p] # None
        PROVE  fault[p] = "construct" /\ call[p].op # "ephemeral_encrypt"
    <3>1. Holding(p)
      BY <1>1, PartsOf
    <3> QED
      BY <2>1, <3>1 DEF Holding
  <2> QED
    BY <2>1 DEF BuffersWiped
<1>2. OneShotInv => BuffersWiped
  BY <1>1
<1> QED
  BY <1>2, OneShotInvariant, PTL
=============================================================================
