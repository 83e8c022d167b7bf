--------------------------- MODULE DataInduction ---------------------------
(***************************************************************************)
(* Induction over numbers and lists, stated of sets and functions: what    *)
(* the recursive functions of the models compute, for lists of any length. *)
(***************************************************************************)
EXTENDS Integers, Sequences, SequencesExt, SequenceTheorems, WellFoundedInduction, TLAPS

\* A set of numbers with 0, and with the next one of each of its own, has all.
THEOREM SetInduction ==
    \A S : 0 \in S /\ (\A n \in Nat : n \in S => n + 1 \in S) => Nat \subseteq S
<1> SUFFICES ASSUME NEW S, 0 \in S, \A n \in Nat : n \in S => n + 1 \in S
    PROVE  Nat \subseteq S
  OBVIOUS
<1> DEFINE R == OpToRel(<, Nat)
           T == Nat \ S
<1>1. IsWellFoundedOn(R, Nat)
  BY NatLessThanWellFounded
<1>2. CASE T # {}
  <2> HIDE DEF R
  <2>1. \E x \in T : \A y \in T : ~(<<y, x>> \in R)
    BY <1>1, <1>2, WFMin
  <2>2. PICK x \in T : \A y \in T : ~(<<y, x>> \in R)
    BY <2>1
  <2>3. x \in Nat /\ x # 0
    OBVIOUS
  <2>4. x - 1 \in Nat /\ x - 1 < x /\ (x - 1) + 1 = x
    BY <2>3
  <2>5. <<x - 1, x>> \in R
    BY <2>3, <2>4 DEF R, OpToRel
  <2>6. x - 1 \in S
    BY <2>2, <2>4, <2>5
  <2> QED
    BY <2>2, <2>4, <2>6
<1> QED
  BY <1>2

\* A set of numbers that is not empty has a least one.
LEMMA Least == \A S \in SUBSET Nat : S # {} => \E x \in S : \A y \in S : x <= y
<1> SUFFICES ASSUME NEW S \in SUBSET Nat, S # {} PROVE \E x \in S : \A y \in S : x <= y
  OBVIOUS
<1> DEFINE R == OpToRel(<, Nat)
<1>1. IsWellFoundedOn(R, Nat)
  BY NatLessThanWellFounded
<1> HIDE DEF R
<1>2. PICK x \in S : \A y \in S : ~(<<y, x>> \in R)
  BY <1>1, WFMin
<1>3. \A y \in S : ~(y < x)
  BY <1>2 DEF R, OpToRel
<1> QED
  BY <1>2, <1>3

\* The same from 0 up to a number.
LEMMA UpTo ==
    \A S : \A N \in Nat :
        0 \in S /\ (\A n \in Nat : n < N /\ n \in S => n + 1 \in S) => 0 .. N \subseteq S
<1> SUFFICES ASSUME NEW S, NEW N \in Nat, 0 \in S, \A n \in Nat : n < N /\ n \in S => n + 1 \in S
    PROVE  0 .. N \subseteq S
  OBVIOUS
<1> DEFINE T == {n \in Nat : n <= N => n \in S}
<1>1. 0 \in T /\ \A n \in Nat : n \in T => n + 1 \in T
  OBVIOUS
<1> HIDE DEF T
<1>2. Nat \subseteq T
  BY <1>1, SetInduction
<1> QED
  BY <1>2 DEF T

\* What has the empty list, and each list of its own with one more element, has all
\* lists.
THEOREM ListInduction ==
    \A S, T : <<>> \in T /\ (\A s \in Seq(S) : s \in T => \A e \in S : Append(s, e) \in T) => Seq(S) \subseteq T
<1> SUFFICES ASSUME NEW S, NEW T, <<>> \in T, \A s \in Seq(S) : s \in T => \A e \in S : Append(s, e) \in T
    PROVE  Seq(S) \subseteq T
  OBVIOUS
<1> DEFINE A == {n \in Nat : \A s \in Seq(S) : Len(s) = n => s \in T}
<1>1. 0 \in A
  BY EmptySeq
<1>2. ASSUME NEW n \in Nat, n \in A PROVE n + 1 \in A
  <2>1. ASSUME NEW s \in Seq(S), Len(s) = n + 1 PROVE s \in T
    <3>1. s # <<>>
      BY <2>1
    <3>2. PICK t \in Seq(S), e \in S : s = Append(t, e)
      BY <3>1, SequenceEmptyOrAppend
    <3>3. Len(t) \in Nat /\ Len(s) = Len(t) + 1
      BY <3>2, AppendProperties
    <3>4. Len(t) = n
      BY <2>1, <3>3
    <3> QED
      BY <1>2, <3>2, <3>4
  <2> QED
    BY <2>1
<1> HIDE DEF A
<1>3. Nat \subseteq A
  BY <1>1, <1>2, SetInduction
<1>4. \A s \in Seq(S) : Len(s) \in Nat
  OBVIOUS
<1> QED
  BY <1>3, <1>4 DEF A

\* What is made of each number and of the value before it.
Steps(V) == [Nat \X V -> V]

\* f has b at 0 and, at each other number, what G makes of the value before.
Obeys(f, b, G, N) == f[0] = b /\ \A n \in 1 .. N : f[n] = G[<<n, f[n - 1]>>]

\* There is a function on 0 .. N for any first value and any steps.
THEOREM Recursion ==
    \A V : \A b \in V : \A G \in Steps(V) : \A N \in Nat :
        \E f \in [0 .. N -> V] : Obeys(f, b, G, N)
<1> SUFFICES ASSUME NEW V, NEW b \in V, NEW G \in [Nat \X V -> V]
    PROVE  \A N \in Nat : \E f \in [0 .. N -> V] : Obeys(f, b, G, N)
  BY DEF Steps
<1> USE DEF Obeys
<1> DEFINE Defined(f, N) == f[0] = b /\ \A n \in 1 .. N : f[n] = G[<<n, f[n - 1]>>]
           S == {N \in Nat : \E f \in [0 .. N -> V] : Defined(f, N)}
<1>1. 0 \in S
  <2> DEFINE f == [n \in 0 .. 0 |-> b]
  <2>1. f \in [0 .. 0 -> V] /\ Defined(f, 0)
    OBVIOUS
  <2> QED
    BY <2>1
<1>2. ASSUME NEW N \in Nat, N \in S PROVE N + 1 \in S
  <2>1. PICK f \in [0 .. N -> V] : Defined(f, N)
    BY <1>2
  <2> DEFINE g == [n \in 0 .. N + 1 |-> IF n = N + 1 THEN G[<<N + 1, f[N]>>] ELSE f[n]]
  <2>2. G[<<N + 1, f[N]>>] \in V
    OBVIOUS
  <2>3. g \in [0 .. N + 1 -> V]
    BY <2>2
  <2>4. g[0] = b
    BY <2>1
  <2>5. ASSUME NEW n \in 1 .. N + 1 PROVE g[n] = G[<<n, g[n - 1]>>]
    <3>1. CASE n = N + 1
      <4>1. n - 1 = N /\ N \in 0 .. N + 1 /\ N # N + 1 /\ n \in 0 .. N + 1
        BY <3>1
      <4>2. g[n] = G[<<N + 1, f[N]>>] /\ g[N] = f[N]
        BY <3>1, <4>1
      <4> HIDE DEF g
      <4> QED
        BY <3>1, <4>1, <4>2
    <3>2. CASE n # N + 1
      <4>1. n \in 1 .. N /\ g[n] = f[n] /\ g[n - 1] = f[n - 1]
        BY <3>2
      <4> QED
        BY <2>1, <4>1
    <3> QED
      BY <3>1, <3>2
  <2> HIDE DEF g
  <2> QED
    BY <2>3, <2>4, <2>5
<1> HIDE DEF S
<1>3. Nat \subseteq S
  BY <1>1, <1>2, SetInduction
<1> QED
  BY <1>3 DEF S

-----------------------------------------------------------------------------
(* Functions that refer to themselves at what ranks lower.                  *)

\* What is in S when all that ranks lower is, is all there is.
LEMMA RankInduction ==
    \A X, S : \A N \in Nat : \A rank \in [X -> 0 .. N] :
        (\A x \in X : (\A y \in X : rank[y] < rank[x] => y \in S) => x \in S) => X \subseteq S
<1> SUFFICES ASSUME NEW X, NEW S, NEW N \in Nat, NEW rank \in [X -> 0 .. N],
                    \A x \in X : (\A y \in X : rank[y] < rank[x] => y \in S) => x \in S
    PROVE  X \subseteq S
  OBVIOUS
<1> DEFINE T == {n \in 0 .. N : \A x \in X : rank[x] <= n => x \in S}
<1>1. 0 \in T
  <2>1. ASSUME NEW x \in X, rank[x] <= 0 PROVE x \in S
    <3>1. \A y \in X : rank[y] \in Nat /\ rank[x] = 0
      BY <2>1
    <3> QED
      BY <3>1
  <2> QED
    BY <2>1
<1>2. ASSUME NEW n \in Nat, n < N, n \in T PROVE n + 1 \in T
  <2>1. ASSUME NEW x \in X, rank[x] <= n + 1 PROVE x \in S
    <3>1. ASSUME NEW y \in X, rank[y] < rank[x] PROVE y \in S
      <4>1. rank[y] \in Nat /\ rank[x] \in Nat
        OBVIOUS
      <4>2. rank[y] <= n
        BY <2>1, <3>1, <4>1
      <4> QED
        BY <1>2, <4>2
    <3> QED
      BY <3>1
  <2> QED
    BY <1>2, <2>1
<1> HIDE DEF T
<1>3. 0 .. N \subseteq T
  BY <1>1, <1>2, UpTo
<1>4. N \in T
  BY <1>3
<1>5. \A x \in X : rank[x] <= N
  OBVIOUS
<1> QED
  BY <1>4, <1>5 DEF T

\* F makes a function of P of one of P, and what it makes of two of them at x is the
\* same when they agree at what ranks lower than x.
LooksDown(F, P, X, V, rank, N) ==
    /\ N \in Nat /\ P # {}
    /\ P \subseteq [X -> V] /\ rank \in [X -> 0 .. N] /\ F \in [P -> P]
    /\ \A f, g \in P : \A x \in X :
           (\A y \in X : rank[y] < rank[x] => f[y] = g[y]) => F[f][x] = F[g][x]

\* Then some function of P is what F makes of it.
THEOREM Fixpoint == \A F, P, X, V, rank, N : LooksDown(F, P, X, V, rank, N) => \E f \in P : F[f] = f
<1> SUFFICES ASSUME NEW F, NEW P, NEW X, NEW V, NEW rank, NEW N, LooksDown(F, P, X, V, rank, N)
    PROVE  \E f \in P : F[f] = f
  OBVIOUS
<1>0. /\ N \in Nat /\ P # {} /\ P \subseteq [X -> V] /\ rank \in [X -> 0 .. N] /\ F \in [P -> P]
      /\ \A f, g \in P : \A x \in X :
             (\A y \in X : rank[y] < rank[x] => f[y] = g[y]) => F[f][x] = F[g][x]
  BY DEF LooksDown
<1> USE <1>0
<1> DEFINE G == [p \in Nat \X P |-> F[p[2]]]
<1>1. PICK b \in P : TRUE
  OBVIOUS
<1>2. F \in [P -> P]
  BY DEF LooksDown
<1>3. G \in Steps(P) /\ \A n \in Nat, f \in P : G[<<n, f>>] = F[f]
  BY <1>2 DEF Steps
<1> HIDE DEF G
<1>4. N + 2 \in Nat
  OBVIOUS
<1>5. PICK h \in [0 .. N + 2 -> P] : Obeys(h, b, G, N + 2)
  BY <1>1, <1>3, <1>4, Recursion
<1>6. ASSUME NEW n \in 0 .. N + 1 PROVE h[n + 1] = F[h[n]] /\ h[n] \in P /\ h[n + 1] \in P
  <2>1. n + 1 \in 1 .. N + 2 /\ n \in 0 .. N + 2 /\ n + 1 \in 0 .. N + 2 /\ (n + 1) - 1 = n /\ n + 1 \in Nat
    OBVIOUS
  <2>2. h[n + 1] = G[<<n + 1, h[(n + 1) - 1]>>]
    BY <1>5, <2>1 DEF Obeys
  <2> QED
    BY <1>3, <2>1, <2>2
<1> DEFINE S == {n \in 0 .. N + 1 : \A x \in X : rank[x] < n => h[n + 1][x] = h[n][x]}
<1>7. 0 \in S
  <2>1. \A x \in X : rank[x] \in Nat
    OBVIOUS
  <2>2. \A x \in X : ~(rank[x] < 0)
    BY <2>1
  <2> QED
    BY <2>2
<1>8. ASSUME NEW n \in Nat, n < N + 1, n \in S PROVE n + 1 \in S
  <2>1. n + 1 \in 0 .. N + 1 /\ n \in 0 .. N + 1
    BY <1>8
  <2>2. ASSUME NEW x \in X, rank[x] < n + 1 PROVE h[(n + 1) + 1][x] = h[n + 1][x]
    <3>1. ASSUME NEW y \in X, rank[y] < rank[x] PROVE h[n + 1][y] = h[n][y]
      <4>1. rank[y] \in Nat /\ rank[x] \in Nat
        OBVIOUS
      <4>2. rank[y] < n
        BY <2>2, <3>1, <4>1
      <4> QED
        BY <1>8, <4>2
    <3>2. h[(n + 1) + 1] = F[h[n + 1]] /\ h[n + 1] = F[h[n]] /\ h[n] \in P /\ h[n + 1] \in P
      BY <1>6, <2>1
    <3>3. F[h[n + 1]][x] = F[h[n]][x]
      BY <3>1, <3>2 DEF LooksDown
    <3> QED
      BY <3>2, <3>3
  <2> QED
    BY <2>1, <2>2
<1> HIDE DEF S
<1>9. 0 .. N + 1 \subseteq S
  <2>1. N + 1 \in Nat
    OBVIOUS
  <2> QED
    BY <1>7, <1>8, <2>1, UpTo
<1>10. N + 1 \in S /\ N + 1 \in 0 .. N + 1
  BY <1>9
<1>11. \A x \in X : rank[x] < N + 1
  OBVIOUS
<1>12. \A x \in X : h[(N + 1) + 1][x] = h[N + 1][x]
  BY <1>10, <1>11 DEF S
<1>13. h[(N + 1) + 1] = F[h[N + 1]] /\ h[N + 1] \in P /\ h[(N + 1) + 1] \in P
  BY <1>6, <1>10
<1>14. h[N + 1] \in [X -> V] /\ h[(N + 1) + 1] \in [X -> V]
  BY <1>13
<1>15. h[(N + 1) + 1] = h[N + 1]
  <2> DEFINE u == h[N + 1]
             v == h[(N + 1) + 1]
  <2>1. u \in [X -> V] /\ v \in [X -> V] /\ \A x \in X : v[x] = u[x]
    BY <1>12, <1>14
  <2> HIDE DEF u, v
  <2>2. u = v
    BY <2>1
  <2> QED
    BY <2>2 DEF u, v
<1> QED
  BY <1>13, <1>15

-----------------------------------------------------------------------------
(* Lists of lists.                                                          *)

\* The lists put together so far.
Put(f, ss) == f[0] = <<>> /\ \A n \in 1 .. Len(ss) : f[n] = f[n - 1] \o ss[n]

\* FlattenSeq puts one list behind the other.
LEMMA FlattenIsPut ==
    \A S : \A ss \in Seq(Seq(S)) :
        \E f \in [0 .. Len(ss) -> Seq(S)] : Put(f, ss) /\ FlattenSeq(ss) = f[Len(ss)]
<1> SUFFICES ASSUME NEW S, NEW ss \in Seq(Seq(S))
    PROVE  \E f \in [0 .. Len(ss) -> Seq(S)] : Put(f, ss) /\ FlattenSeq(ss) = f[Len(ss)]
  OBVIOUS
<1> DEFINE N == Len(ss)
           At(n) == IF n \in 1 .. N THEN ss[n] ELSE <<>>
           G == [p \in Nat \X Seq(S) |-> p[2] \o At(p[1])]
<1>1. N \in Nat /\ N = Len(ss) /\ <<>> \in Seq(S) /\ \A n \in 1 .. N : ss[n] \in Seq(S)
  OBVIOUS
<1>2. \A n \in Nat : At(n) \in Seq(S)
  BY <1>1
<1>3. \A n \in 1 .. N : At(n) = ss[n]
  OBVIOUS
<1> HIDE DEF N, At
<1>4. G \in [Nat \X Seq(S) -> Seq(S)]
  <2>1. ASSUME NEW p \in Nat \X Seq(S) PROVE p[2] \o At(p[1]) \in Seq(S)
    <3>1. p[1] \in Nat /\ p[2] \in Seq(S)
      OBVIOUS
    <3>2. At(p[1]) \in Seq(S)
      BY <1>2, <3>1
    <3> QED
      BY <3>1, <3>2
  <2> QED
    BY <2>1
<1>5. PICK f \in [0 .. N -> Seq(S)] : Obeys(f, <<>>, G, N)
  <2>1. N \in Nat /\ <<>> \in Seq(S)
    BY <1>1
  <2>2. G \in Steps(Seq(S))
    BY <1>4 DEF Steps
  <2> HIDE DEF G
  <2> QED
    BY <2>1, <2>2, Recursion
<1>6. ASSUME NEW n \in 1 .. N PROVE f[n] = f[n - 1] \o ss[n]
  <2>1. n \in Nat /\ n - 1 \in 0 .. N
    BY <1>1
  <2>2. f[n - 1] \in Seq(S)
    BY <2>1
  <2>3. G[<<n, f[n - 1]>>] = f[n - 1] \o At(n)
    BY <2>1, <2>2
  <2> HIDE DEF G
  <2> QED
    BY <1>3, <1>5, <2>3 DEF Obeys
<1> HIDE DEF G
<1>7. Put(f, ss)
  BY <1>1, <1>5, <1>6 DEF Put, Obeys
<1>8. CASE N = 0
  <2>1. ss = <<>>
    BY <1>1, <1>8, EmptySeq
  <2>2. FlattenSeq(ss) = ss
    BY <1>1, <1>8 DEF FlattenSeq
  <2> QED
    BY <1>5, <1>7, <1>8, <2>1, <2>2
<1>9. CASE N # 0
  <2> DEFINE flatten == CHOOSE h : h = [i \in 1 .. Len(ss) |-> IF i = 1 THEN ss[i] ELSE h[i - 1] \o ss[i]]
             g == [i \in 1 .. Len(ss) |-> f[i]]
  <2>1. FlattenSeq(ss) = flatten[Len(ss)]
    BY <1>1, <1>9 DEF FlattenSeq
  <2>2. f[1] = ss[1]
    <3>1. 1 \in 1 .. N
      BY <1>1, <1>9
    <3>2. f[1] = f[1 - 1] \o ss[1] /\ ss[1] \in Seq(S)
      BY <1>1, <1>6, <3>1
    <3>3. 1 - 1 = 0
      OBVIOUS
    <3>4. f[1] = <<>> \o ss[1]
      BY <1>5, <3>2, <3>3 DEF Obeys
    <3>5. \A t \in Seq(S) : <<>> \o t = t
      BY ConcatEmptySeq
    <3> QED
      BY <3>2, <3>4, <3>5
  <2>3. g = [i \in 1 .. Len(ss) |-> IF i = 1 THEN ss[i] ELSE g[i - 1] \o ss[i]]
    <3>1. ASSUME NEW i \in 1 .. N
          PROVE  f[i] = IF i = 1 THEN ss[i] ELSE g[i - 1] \o ss[i]
      <4>1. CASE i = 1
        BY <2>2, <4>1
      <4>2. CASE i # 1
        <5>1. g[i - 1] = f[i - 1]
          BY <1>1, <4>2
        <5> HIDE DEF g
        <5> QED
          BY <1>6, <4>2, <5>1
      <4> QED
        BY <4>1, <4>2
    <3> QED
      BY <1>1, <3>1
  <2>4. flatten = [i \in 1 .. Len(ss) |-> IF i = 1 THEN ss[i] ELSE flatten[i - 1] \o ss[i]]
    <3> HIDE DEF g
    <3> QED
      BY <2>3
  <2> HIDE DEF flatten
  <2> DEFINE Agrees == {n \in 0 .. N : n # 0 => flatten[n] = f[n]}
  <2>5. 0 \in Agrees
    BY <1>1
  <2>6. ASSUME NEW n \in Nat, n < N, n \in Agrees PROVE n + 1 \in Agrees
    <3>1. n + 1 \in 1 .. N /\ n + 1 \in 0 .. N /\ (n + 1) - 1 = n
      BY <1>1, <2>6
    <3>2. CASE n = 0
      <4>1. flatten[1] = ss[1]
        BY <1>1, <2>4, <3>1, <3>2
      <4> QED
        BY <2>2, <3>1, <3>2, <4>1
    <3>3. CASE n # 0
      <4>1. flatten[n + 1] = flatten[n] \o ss[n + 1]
        <5>1. n + 1 \in 1 .. Len(ss) /\ n + 1 # 1
          BY <1>1, <3>1, <3>3
        <5> HIDE DEF g
        <5> QED
          BY <2>4, <3>1, <5>1
      <4>2. f[n + 1] = f[n] \o ss[n + 1]
        BY <1>6, <3>1
      <4>3. flatten[n] = f[n]
        BY <2>6, <3>3
      <4> QED
        BY <3>1, <4>1, <4>2, <4>3
    <3> QED
      BY <3>2, <3>3
  <2> HIDE DEF Agrees
  <2>7. 0 .. N \subseteq Agrees
    <3> HIDE DEF N
    <3> QED
      BY <1>1, <2>5, <2>6, UpTo
  <2>8. flatten[N] = f[N]
    BY <1>1, <1>9, <2>7 DEF Agrees
  <2> HIDE DEF g
  <2> QED
    BY <1>1, <1>7, <2>1, <2>8
<1> QED
  BY <1>8, <1>9

\* What is in two lists one behind the other.
LEMMA ConcatRange ==
    \A S : \A s, t \in Seq(S) : s \o t \in Seq(S) /\ ToSet(s \o t) = ToSet(s) \cup ToSet(t)
<1> SUFFICES ASSUME NEW S, NEW s \in Seq(S), NEW t \in Seq(S)
    PROVE  s \o t \in Seq(S) /\ ToSet(s \o t) = ToSet(s) \cup ToSet(t)
  OBVIOUS
<1> DEFINE m == Len(s)
           n == Len(t)
<1>1. m \in Nat /\ n \in Nat /\ DOMAIN s = 1 .. m /\ DOMAIN t = 1 .. n
  BY LenProperties
<1>2. /\ s \o t \in Seq(S) /\ Len(s \o t) = m + n
      /\ \A i \in 1 .. m + n : (s \o t)[i] = IF i <= m THEN s[i] ELSE t[i - m]
  BY ConcatProperties
<1>3. DOMAIN (s \o t) = 1 .. m + n
  BY <1>2, LenProperties
<1> DEFINE c == s \o t
<1> HIDE DEF m, n, c
<1>4. ASSUME NEW i \in 1 .. m + n PROVE c[i] \in ToSet(s) \cup ToSet(t)
  <2>1. CASE i <= m
    BY <1>1, <1>2, <2>1 DEF ToSet, c
  <2>2. CASE ~(i <= m)
    <3>1. i - m \in 1 .. n
      BY <1>1, <2>2
    <3> QED
      BY <1>1, <1>2, <2>2, <3>1 DEF ToSet, c
  <2> QED
    BY <2>1, <2>2
<1>5. ASSUME NEW i \in 1 .. m PROVE s[i] \in {c[j] : j \in 1 .. m + n}
  <2>1. i \in 1 .. m + n /\ i <= m
    BY <1>1
  <2> QED
    BY <1>2, <2>1 DEF c
<1>6. ASSUME NEW i \in 1 .. n PROVE t[i] \in {c[j] : j \in 1 .. m + n}
  <2>1. i + m \in 1 .. m + n /\ ~(i + m <= m) /\ (i + m) - m = i
    BY <1>1
  <2>2. c[i + m] = t[i]
    BY <1>2, <2>1 DEF c
  <2> QED
    BY <2>1, <2>2
<1>7. ToSet(c) = {c[j] : j \in 1 .. m + n}
  BY <1>3 DEF ToSet, c
<1>8. ToSet(s) = {s[i] : i \in 1 .. m} /\ ToSet(t) = {t[i] : i \in 1 .. n}
  BY <1>1 DEF ToSet
<1> QED
  BY <1>2, <1>4, <1>5, <1>6, <1>7, <1>8 DEF c

\* What is in a list that grew by one.
LEMMA AppendRange ==
    \A S : \A s \in Seq(S) : \A e \in S :
        Append(s, e) \in Seq(S) /\ ToSet(Append(s, e)) = ToSet(s) \cup {e}
<1> SUFFICES ASSUME NEW S, NEW s \in Seq(S), NEW e \in S
    PROVE  Append(s, e) \in Seq(S) /\ ToSet(Append(s, e)) = ToSet(s) \cup {e}
  OBVIOUS
<1>1. Append(s, e) = s \o <<e>>
  BY AppendIsConcat
<1>2. <<e>> \in Seq(S) /\ ToSet(<<e>>) = {e}
  BY DEF ToSet
<1>3. s \o <<e>> \in Seq(S) /\ ToSet(s \o <<e>>) = ToSet(s) \cup ToSet(<<e>>)
  BY <1>2, ConcatRange
<1> QED
  BY <1>1, <1>2, <1>3

\* What is in lists put together is what is in each of them.
LEMMA FlattenRange ==
    \A S : \A ss \in Seq(Seq(S)) :
        /\ FlattenSeq(ss) \in Seq(S)
        /\ ToSet(FlattenSeq(ss)) = UNION {ToSet(ss[i]) : i \in 1 .. Len(ss)}
<1> SUFFICES ASSUME NEW S, NEW ss \in Seq(Seq(S))
    PROVE  /\ FlattenSeq(ss) \in Seq(S)
           /\ ToSet(FlattenSeq(ss)) = UNION {ToSet(ss[i]) : i \in 1 .. Len(ss)}
  OBVIOUS
<1> DEFINE N == Len(ss)
<1>1. N \in Nat /\ \A i \in 1 .. N : ss[i] \in Seq(S)
  OBVIOUS
<1>2. PICK f \in [0 .. N -> Seq(S)] : Put(f, ss) /\ FlattenSeq(ss) = f[N]
  BY FlattenIsPut
<1> HIDE DEF N
<1> DEFINE Holds == {n \in 0 .. N : ToSet(f[n]) = UNION {ToSet(ss[i]) : i \in 1 .. n}}
<1>3. 0 \in Holds
  <2>1. f[0] = <<>> /\ ToSet(<<>>) = {} /\ 1 .. 0 = {}
    BY <1>2 DEF Put, ToSet
  <2> QED
    BY <1>1, <2>1
<1>4. ASSUME NEW n \in Nat, n < N, n \in Holds PROVE n + 1 \in Holds
  <2>1. n + 1 \in 1 .. N /\ n + 1 \in 0 .. N /\ n \in 0 .. N /\ (n + 1) - 1 = n
    BY <1>1, <1>4
  <2>2. f[n + 1] = f[n] \o ss[n + 1]
    BY <1>2, <2>1 DEF Put, N
  <2>3. ToSet(f[n + 1]) = ToSet(f[n]) \cup ToSet(ss[n + 1])
    BY <1>1, <2>1, <2>2, ConcatRange
  <2>4. 1 .. n + 1 = (1 .. n) \cup {n + 1}
    BY <2>1
  <2> QED
    BY <1>4, <2>1, <2>3, <2>4
<1> HIDE DEF Holds
<1>5. 0 .. N \subseteq Holds
  BY <1>1, <1>3, <1>4, UpTo
<1>6. N \in 0 .. N
  BY <1>1
<1> QED
  BY <1>2, <1>5, <1>6 DEF Holds, N

\* One more list comes behind the others.
LEMMA FlattenAppend ==
    \A S : \A ss \in Seq(Seq(S)) : \A s \in Seq(S) : FlattenSeq(Append(ss, s)) = FlattenSeq(ss) \o s
<1> SUFFICES ASSUME NEW S, NEW ss \in Seq(Seq(S)), NEW s \in Seq(S)
    PROVE  FlattenSeq(Append(ss, s)) = FlattenSeq(ss) \o s
  OBVIOUS
<1> DEFINE N == Len(ss)
           more == Append(ss, s)
<1>1. N \in Nat
  OBVIOUS
<1>2. /\ more \in Seq(Seq(S)) /\ Len(more) = N + 1 /\ more[N + 1] = s
      /\ \A i \in 1 .. N : more[i] = ss[i]
  BY AppendProperties
<1> HIDE DEF more
<1>3. PICK f \in [0 .. N -> Seq(S)] : Put(f, ss) /\ FlattenSeq(ss) = f[N]
  BY FlattenIsPut
<1>4. PICK g \in [0 .. N + 1 -> Seq(S)] : Put(g, more) /\ FlattenSeq(more) = g[N + 1]
  BY <1>2, FlattenIsPut
<1>5. f[0] = <<>> /\ \A n \in 1 .. N : f[n] = f[n - 1] \o ss[n]
  BY <1>3 DEF Put
<1>6. g[0] = <<>> /\ \A n \in 1 .. N + 1 : g[n] = g[n - 1] \o more[n]
  BY <1>2, <1>4 DEF Put
<1> HIDE DEF N
<1> DEFINE Agrees == {n \in 0 .. N : g[n] = f[n]}
<1>7. 0 \in Agrees
  BY <1>1, <1>5, <1>6
<1>8. ASSUME NEW n \in Nat, n < N, n \in Agrees PROVE n + 1 \in Agrees
  <2>1. n + 1 \in 1 .. N /\ n + 1 \in 1 .. N + 1 /\ n + 1 \in 0 .. N /\ (n + 1) - 1 = n
    BY <1>1, <1>8
  <2>2. g[n + 1] = g[n] \o more[n + 1] /\ f[n + 1] = f[n] \o ss[n + 1] /\ more[n + 1] = ss[n + 1]
    BY <1>2, <1>5, <1>6, <2>1
  <2> QED
    BY <1>8, <2>1, <2>2
<1> HIDE DEF Agrees
<1>9. 0 .. N \subseteq Agrees
  BY <1>1, <1>7, <1>8, UpTo
<1>10. g[N] = f[N]
  BY <1>1, <1>9 DEF Agrees
<1>11. N + 1 \in 1 .. N + 1 /\ (N + 1) - 1 = N
  BY <1>1
<1>12. g[N + 1] = f[N] \o s
  BY <1>2, <1>6, <1>10, <1>11
<1> QED
  BY <1>3, <1>4, <1>12 DEF more

\* A single list is all there is.
LEMMA FlattenOne == \A S : \A s \in Seq(S) : FlattenSeq(<<s>>) = s
<1> SUFFICES ASSUME NEW S, NEW s \in Seq(S) PROVE FlattenSeq(<<s>>) = s
  OBVIOUS
<1> DEFINE ss == <<s>>
<1>1. ss \in Seq(Seq(S)) /\ Len(ss) = 1 /\ ss[1] = s
  OBVIOUS
<1> HIDE DEF ss
<1>2. PICK f \in [0 .. Len(ss) -> Seq(S)] : Put(f, ss) /\ FlattenSeq(ss) = f[Len(ss)]
  BY <1>1, FlattenIsPut
<1>3. f[0] = <<>> /\ \A n \in 1 .. 1 : f[n] = f[n - 1] \o ss[n]
  BY <1>1, <1>2 DEF Put
<1>4. 1 \in 1 .. 1 /\ 1 - 1 = 0
  OBVIOUS
<1>5. f[1] = <<>> \o s
  BY <1>1, <1>3, <1>4
<1>6. <<>> \o s = s
  BY ConcatEmptySeq
<1> QED
  BY <1>1, <1>2, <1>5, <1>6 DEF ss

\* s \o t up to the i-th element of t.
Prefix(s, t, i) == [j \in 1 .. Len(s) + i |-> (s \o t)[j]]

\* From s to s \o t by one element after another.
LEMMA PrefixFacts ==
    \A S : \A s, t \in Seq(S) :
        /\ Prefix(s, t, 0) = s
        /\ Prefix(s, t, Len(t)) = s \o t
        /\ \A i \in 0 .. Len(t) : Prefix(s, t, i) \in Seq(S)
        /\ \A i \in 1 .. Len(t) : Prefix(s, t, i) = Append(Prefix(s, t, i - 1), t[i])
<1> SUFFICES ASSUME NEW S, NEW s \in Seq(S), NEW t \in Seq(S)
    PROVE  /\ Prefix(s, t, 0) = s
           /\ Prefix(s, t, Len(t)) = s \o t
           /\ \A i \in 0 .. Len(t) : Prefix(s, t, i) \in Seq(S)
           /\ \A i \in 1 .. Len(t) : Prefix(s, t, i) = Append(Prefix(s, t, i - 1), t[i])
  OBVIOUS
<1> DEFINE m == Len(s)
           n == Len(t)
           u == s \o t
<1>1. m \in Nat /\ n \in Nat /\ s \in [1 .. m -> S] /\ t \in [1 .. n -> S]
  BY LenProperties
<1>2. /\ u \in Seq(S) /\ Len(u) = m + n
      /\ \A i \in 1 .. m + n : u[i] = IF i <= m THEN s[i] ELSE t[i - m]
  BY ConcatProperties
<1>3. u \in [1 .. m + n -> S]
  BY <1>2, LenProperties
<1>4. \A i : Prefix(s, t, i) = [j \in 1 .. m + i |-> u[j]]
  BY DEF Prefix
<1> HIDE DEF m, n, u
<1>5. Prefix(s, t, 0) = s
  <2>1. \A j \in 1 .. m : u[j] = s[j]
    BY <1>1, <1>2
  <2>2. m + 0 = m
    BY <1>1
  <2> QED
    BY <1>1, <1>4, <2>1, <2>2
<1>6. Prefix(s, t, n) = u
  BY <1>1, <1>3, <1>4
<1>7. ASSUME NEW i \in 0 .. n
      PROVE  /\ Prefix(s, t, i) \in Seq(S) /\ Len(Prefix(s, t, i)) = m + i
             /\ \A j \in 1 .. m + i : Prefix(s, t, i)[j] = u[j]
  <2>1. m + i \in Nat /\ \A j \in 1 .. m + i : u[j] \in S
    BY <1>1, <1>3
  <2> DEFINE p == [j \in 1 .. m + i |-> u[j]]
  <2>2. p \in [1 .. m + i -> S] /\ DOMAIN p = 1 .. m + i /\ \A j \in 1 .. m + i : p[j] = u[j]
    BY <2>1
  <2>3. Prefix(s, t, i) = p
    BY <1>4
  <2> HIDE DEF p
  <2>4. p \in Seq(S) /\ Len(p) = m + i
    BY <2>1, <2>2
  <2> QED
    BY <2>2, <2>3, <2>4
<1>8. ASSUME NEW i \in 1 .. n PROVE Prefix(s, t, i) = Append(Prefix(s, t, i - 1), t[i])
  <2> DEFINE p == Prefix(s, t, i)
             q == Prefix(s, t, i - 1)
  <2>1. i - 1 \in 0 .. n /\ i \in 0 .. n /\ m + (i - 1) + 1 = m + i /\ m + i \in 1 .. m + n /\ ~(m + i <= m) /\ (m + i) - m = i
    BY <1>1
  <2>2. p \in Seq(S) /\ Len(p) = m + i /\ \A j \in 1 .. m + i : p[j] = u[j]
    BY <1>7, <2>1
  <2>3. q \in Seq(S) /\ Len(q) = m + (i - 1) /\ \A j \in 1 .. m + (i - 1) : q[j] = u[j]
    BY <1>7, <2>1
  <2>4. t[i] \in S /\ u[m + i] = t[i]
    BY <1>1, <1>2, <2>1
  <2> HIDE DEF p, q
  <2> DEFINE r == Append(q, t[i])
  <2>5. /\ r \in Seq(S) /\ Len(r) = m + i /\ r[m + i] = t[i]
        /\ \A j \in 1 .. m + (i - 1) : r[j] = q[j]
    BY <2>1, <2>3, <2>4, AppendProperties
  <2> HIDE DEF r
  <2>6. ASSUME NEW j \in 1 .. m + i PROVE p[j] = r[j]
    <3>1. j = m + i \/ j \in 1 .. m + (i - 1)
      BY <1>1
    <3> QED
      BY <2>2, <2>3, <2>4, <2>5, <3>1
  <2>7. p = r
    BY <2>2, <2>5, <2>6, SeqEqual
  <2> QED
    BY <2>7 DEF p, q, r
<1> QED
  BY <1>5, <1>6, <1>7, <1>8 DEF n, u
=============================================================================
