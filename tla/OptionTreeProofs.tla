-------------------------- MODULE OptionTreeProofs --------------------------
(***************************************************************************)
(* What the operators on option lists compute, for interfaces with any     *)
(* number of options of any depth and for lists of any length.             *)
(***************************************************************************)
EXTENDS OptionTree, DataInduction, FiniteSetTheorems

Kids(d, o) == AllChildren(d.option[o])

-----------------------------------------------------------------------------
(* Lists.                                                                   *)

\* A list is a sequence over any set that has what is in it.
LEMMA ListFacts ==
    \A s : IsList(s) => /\ Len(s) \in Nat
                        /\ DOMAIN s = 1 .. Len(s)
                        /\ \A i \in 1 .. Len(s) : s[i] \in ToSet(s)
                        /\ \A S : ToSet(s) \subseteq S => s \in Seq(S)
<1> SUFFICES ASSUME NEW s, IsList(s)
    PROVE  /\ Len(s) \in Nat
           /\ DOMAIN s = 1 .. Len(s)
           /\ \A i \in 1 .. Len(s) : s[i] \in ToSet(s)
           /\ \A S : ToSet(s) \subseteq S => s \in Seq(S)
  OBVIOUS
<1>1. s \in Seq(ToSet(s))
  BY DEF IsList
<1>2. Len(s) \in Nat /\ DOMAIN s = 1 .. Len(s)
  BY <1>1, LenProperties
<1>3. \A i \in 1 .. Len(s) : s[i] \in ToSet(s)
  BY <1>2 DEF ToSet
<1>4. ASSUME NEW S, ToSet(s) \subseteq S PROVE s \in Seq(S)
  BY <1>1, <1>4
<1> QED
  BY <1>2, <1>3, <1>4

\* A sequence is a list of what it is over.
LEMMA SeqIsList == \A S : \A s \in Seq(S) : IsList(s) /\ ToSet(s) \subseteq S
<1> SUFFICES ASSUME NEW S, NEW s \in Seq(S) PROVE IsList(s) /\ ToSet(s) \subseteq S
  OBVIOUS
<1>1. Len(s) \in Nat /\ DOMAIN s = 1 .. Len(s) /\ s = [i \in 1 .. Len(s) |-> s[i]]
  BY LenProperties
<1>2. \A i \in 1 .. Len(s) : s[i] \in ToSet(s) /\ s[i] \in S
  BY <1>1 DEF ToSet
<1>3. ToSet(s) \subseteq S
  BY <1>1, <1>2 DEF ToSet
<1>4. s \in Seq(ToSet(s))
  <2> DEFINE R == ToSet(s)
  <2> HIDE DEF R
  <2>1. \A i \in 1 .. Len(s) : s[i] \in R
    BY <1>2 DEF R
  <2>2. s \in [1 .. Len(s) -> R]
    BY <1>1, <2>1
  <2>3. s \in Seq(R)
    BY <1>1, <2>2
  <2> QED
    BY <2>3 DEF R
<1> QED
  BY <1>3, <1>4 DEF IsList

\* Two lists, one behind the other, and what is in them.
LEMMA ConcatLists ==
    \A s, t : IsList(s) /\ IsList(t) => IsList(s \o t) /\ ToSet(s \o t) = ToSet(s) \cup ToSet(t)
<1> SUFFICES ASSUME NEW s, NEW t, IsList(s), IsList(t)
    PROVE  IsList(s \o t) /\ ToSet(s \o t) = ToSet(s) \cup ToSet(t)
  OBVIOUS
<1> DEFINE S == ToSet(s) \cup ToSet(t)
<1>1. s \in Seq(S) /\ t \in Seq(S)
  BY ListFacts
<1>2. s \o t \in Seq(S) /\ ToSet(s \o t) = ToSet(s) \cup ToSet(t)
  <2> HIDE DEF S
  <2> QED
    BY <1>1, ConcatRange
<1>3. IsList(s \o t)
  <2> HIDE DEF S
  <2> QED
    BY <1>2, SeqIsList
<1> QED
  BY <1>2, <1>3
-----------------------------------------------------------------------------
(* Parts of a list.                                                         *)

\* What Only puts together: each element that is in V by itself, the others as nothing.
Pieces(s, V) == [i \in DOMAIN s |-> IF s[i] \in V THEN <<s[i]>> ELSE <<>>]

\* They are a list of lists.
LEMMA OnlyPieces ==
    \A S, V : \A s \in Seq(S) : Pieces(s, V) \in Seq(Seq(S)) /\ Len(Pieces(s, V)) = Len(s)
<1> SUFFICES ASSUME NEW S, NEW V, NEW s \in Seq(S)
    PROVE  Pieces(s, V) \in Seq(Seq(S)) /\ Len(Pieces(s, V)) = Len(s)
  OBVIOUS
<1> DEFINE piece(i) == IF s[i] \in V THEN <<s[i]>> ELSE <<>>
           ss == [i \in DOMAIN s |-> piece(i)]
<1>1. Len(s) \in Nat /\ DOMAIN s = 1 .. Len(s) /\ \A i \in 1 .. Len(s) : s[i] \in S
  BY LenProperties
<1>2. \A i \in 1 .. Len(s) : piece(i) \in Seq(S)
  BY <1>1
<1> HIDE DEF piece
<1>3. ss \in [1 .. Len(s) -> Seq(S)] /\ DOMAIN ss = 1 .. Len(s)
  BY <1>1, <1>2
<1> HIDE DEF ss
<1>4. ss \in Seq(Seq(S)) /\ Len(ss) = Len(s)
  BY <1>1, <1>3
<1>5. Pieces(s, V) = ss
  BY DEF Pieces, ss, piece
<1> QED
  BY <1>4, <1>5

\* Only of a list is a list of what is in both.
LEMMA OnlyRange ==
    \A S, V : \A s \in Seq(S) : Only(s, V) \in Seq(S) /\ ToSet(Only(s, V)) = ToSet(s) \cap V
<1> SUFFICES ASSUME NEW S, NEW V, NEW s \in Seq(S)
    PROVE  Only(s, V) \in Seq(S) /\ ToSet(Only(s, V)) = ToSet(s) \cap V
  OBVIOUS
<1> DEFINE ss == Pieces(s, V)
<1>1. Len(s) \in Nat /\ DOMAIN s = 1 .. Len(s) /\ \A i \in 1 .. Len(s) : s[i] \in S
  BY LenProperties
<1>2. ss \in Seq(Seq(S)) /\ Len(ss) = Len(s)
  BY OnlyPieces
<1>3. \A i \in 1 .. Len(s) : ss[i] = IF s[i] \in V THEN <<s[i]>> ELSE <<>>
  BY <1>1 DEF Pieces
<1>4. Only(s, V) = FlattenSeq(ss)
  BY DEF Only, Pieces
<1> HIDE DEF ss
<1>5. FlattenSeq(ss) \in Seq(S) /\ ToSet(FlattenSeq(ss)) = UNION {ToSet(ss[i]) : i \in 1 .. Len(ss)}
  BY <1>2, FlattenRange
<1>6. ASSUME NEW i \in 1 .. Len(s) PROVE ToSet(ss[i]) = IF s[i] \in V THEN {s[i]} ELSE {}
  <2>1. CASE s[i] \in V
    <3>1. ss[i] = <<s[i]>> /\ ToSet(<<s[i]>>) = {s[i]}
      BY <1>3, <2>1 DEF ToSet
    <3> QED
      BY <2>1, <3>1
  <2>2. CASE s[i] \notin V
    <3>1. ss[i] = <<>>
      BY <1>3, <2>2
    <3>2. ToSet(<<>>) = {}
      BY DEF ToSet
    <3> QED
      BY <2>2, <3>1, <3>2
  <2> QED
    BY <2>1, <2>2
<1>7. ToSet(s) = {s[i] : i \in 1 .. Len(s)}
  BY <1>1 DEF ToSet
<1>8. UNION {ToSet(ss[i]) : i \in 1 .. Len(ss)} = ToSet(s) \cap V
  BY <1>2, <1>6, <1>7
<1> QED
  BY <1>4, <1>5, <1>8

\* Only goes through a list from its front.
LEMMA OnlyAppend ==
    \A S, V : \A s \in Seq(S) : \A e \in S :
        Only(Append(s, e), V) = IF e \in V THEN Append(Only(s, V), e) ELSE Only(s, V)
<1> SUFFICES ASSUME NEW S, NEW V, NEW s \in Seq(S), NEW e \in S
    PROVE  Only(Append(s, e), V) = IF e \in V THEN Append(Only(s, V), e) ELSE Only(s, V)
  OBVIOUS
<1> DEFINE piece(x) == IF x \in V THEN <<x>> ELSE <<>>
           t == Append(s, e)
           ss == Pieces(s, V)
           tt == Pieces(t, V)
<1>1. Len(s) \in Nat /\ DOMAIN s = 1 .. Len(s)
  BY LenProperties
<1>2. /\ t \in Seq(S) /\ Len(t) = Len(s) + 1 /\ t[Len(s) + 1] = e
      /\ \A i \in 1 .. Len(s) : t[i] = s[i]
  BY AppendProperties
<1>3. DOMAIN t = 1 .. Len(s) + 1
  BY <1>2, LenProperties
<1>4. ss \in Seq(Seq(S)) /\ Len(ss) = Len(s) /\ tt \in Seq(Seq(S)) /\ Len(tt) = Len(s) + 1
  BY <1>2, OnlyPieces
<1>5. piece(e) \in Seq(S)
  OBVIOUS
<1>6. Only(s, V) = FlattenSeq(ss) /\ Only(t, V) = FlattenSeq(tt)
  BY DEF Only, Pieces
<1>7. tt = Append(ss, piece(e))
  <2> HIDE DEF t
  <2>1. \A i \in 1 .. Len(s) : ss[i] = piece(s[i])
    BY <1>1 DEF Pieces
  <2>2. \A i \in 1 .. Len(s) + 1 : tt[i] = piece(t[i])
    BY <1>3 DEF Pieces
  <2> HIDE DEF ss, tt, piece
  <2> DEFINE u == Append(ss, piece(e))
  <2>3. /\ u \in Seq(Seq(S)) /\ Len(u) = Len(s) + 1 /\ u[Len(s) + 1] = piece(e)
        /\ \A i \in 1 .. Len(s) : u[i] = ss[i]
    BY <1>4, <1>5, AppendProperties
  <2> HIDE DEF u
  <2>4. \A i \in 1 .. Len(s) + 1 : tt[i] = u[i]
    <3>1. ASSUME NEW i \in 1 .. Len(s) + 1 PROVE tt[i] = u[i]
      <4>1. CASE i = Len(s) + 1
        BY <1>2, <2>2, <2>3, <4>1
      <4>2. CASE i # Len(s) + 1
        <5>1. i \in 1 .. Len(s)
          BY <1>1, <4>2
        <5> QED
          BY <1>2, <2>1, <2>2, <2>3, <5>1
      <4> QED
        BY <4>1, <4>2
    <3> QED
      BY <3>1
  <2>5. tt = u
    BY <1>4, <2>3, <2>4, SeqEqual
  <2> QED
    BY <2>5 DEF u
<1> HIDE DEF ss, tt, t
<1>8. FlattenSeq(tt) = FlattenSeq(ss) \o piece(e)
  BY <1>4, <1>5, <1>7, FlattenAppend
<1>9. Only(s, V) \in Seq(S)
  BY OnlyRange
<1>10. CASE e \in V
  <2>1. Only(s, V) \o <<e>> = Append(Only(s, V), e)
    BY <1>9, AppendIsConcat
  <2> QED
    BY <1>6, <1>8, <1>10, <2>1 DEF t
<1>11. CASE e \notin V
  <2>1. Only(s, V) \o <<>> = Only(s, V)
    BY <1>9, ConcatEmptySeq
  <2> QED
    BY <1>6, <1>8, <1>11, <2>1 DEF t
<1> QED
  BY <1>10, <1>11

\* Only of nothing.
LEMMA OnlyEmpty == \A V : Only(<<>>, V) = <<>>
<1> SUFFICES ASSUME NEW V PROVE Only(<<>>, V) = <<>>
  OBVIOUS
<1> DEFINE s == Only(<<>>, V)
<1>1. s \in Seq({}) /\ Len(s) \in Nat
  <2>1. <<>> \in Seq({})
    BY EmptySeq
  <2> QED
    BY <2>1, OnlyRange, LenProperties
<1> HIDE DEF s
<1>2. s = <<>>
  BY <1>1
<1> QED
  BY <1>2 DEF s

\* Only of all that is there.
LEMMA OnlyAll == \A V : \A s \in Seq(V) : Only(s, V) = s
<1> SUFFICES ASSUME NEW V PROVE \A s \in Seq(V) : Only(s, V) = s
  OBVIOUS
<1> DEFINE T == {s \in Seq(V) : Only(s, V) = s}
<1>1. <<>> \in T
  BY OnlyEmpty, EmptySeq
<1>2. ASSUME NEW s \in Seq(V), s \in T, NEW e \in V PROVE Append(s, e) \in T
  BY <1>2, OnlyAppend, AppendProperties
<1> HIDE DEF T
<1>3. Seq(V) \subseteq T
  BY <1>1, <1>2, ListInduction
<1> QED
  BY <1>3 DEF T

\* Only of Only is what is in both.
LEMMA OnlyOnly == \A S, V, W : \A s \in Seq(S) : Only(Only(s, V), W) = Only(s, V \cap W)
<1> SUFFICES ASSUME NEW S, NEW V, NEW W PROVE \A s \in Seq(S) : Only(Only(s, V), W) = Only(s, V \cap W)
  OBVIOUS
<1> DEFINE T == {s \in Seq(S) : Only(Only(s, V), W) = Only(s, V \cap W)}
<1>1. <<>> \in T
  BY OnlyEmpty, EmptySeq
<1>2. ASSUME NEW s \in Seq(S), s \in T, NEW e \in S PROVE Append(s, e) \in T
  <2>1. Append(s, e) \in Seq(S)
    BY AppendProperties
  <2>2. Only(s, V) \in Seq(S)
    BY OnlyRange
  <2>3. Only(Append(s, e), V) = IF e \in V THEN Append(Only(s, V), e) ELSE Only(s, V)
    BY OnlyAppend
  <2>4. Only(Append(s, e), V \cap W) = IF e \in V \cap W THEN Append(Only(s, V \cap W), e) ELSE Only(s, V \cap W)
    BY OnlyAppend
  <2>5. Only(Append(Only(s, V), e), W) = IF e \in W THEN Append(Only(Only(s, V), W), e) ELSE Only(Only(s, V), W)
    BY <2>2, OnlyAppend
  <2>6. Only(Only(s, V), W) = Only(s, V \cap W)
    BY <1>2
  <2>7. CASE e \in V
    <3>1. Only(Append(s, e), V) = Append(Only(s, V), e)
      BY <2>3, <2>7
    <3>2. CASE e \in W
      BY <2>1, <2>4, <2>5, <2>6, <2>7, <3>1, <3>2
    <3>3. CASE e \notin W
      BY <2>1, <2>4, <2>5, <2>6, <2>7, <3>1, <3>3
    <3> QED
      BY <3>2, <3>3
  <2>8. CASE e \notin V
    BY <2>1, <2>3, <2>4, <2>6, <2>8
  <2> QED
    BY <2>7, <2>8
<1> HIDE DEF T
<1>3. Seq(S) \subseteq T
  BY <1>1, <1>2, ListInduction
<1> QED
  BY <1>3 DEF T

\* Only depends on whether each element is in V, and on those that are.
LEMMA OnlyAlike ==
    \A s, t, V, W :
        /\ DOMAIN s = DOMAIN t
        /\ \A i \in DOMAIN s : (s[i] \in V <=> t[i] \in W) /\ (s[i] \in V => t[i] = s[i])
        => Only(s, V) = Only(t, W)
<1> SUFFICES ASSUME NEW s, NEW t, NEW V, NEW W, DOMAIN s = DOMAIN t,
                    \A i \in DOMAIN s : (s[i] \in V <=> t[i] \in W) /\ (s[i] \in V => t[i] = s[i])
    PROVE  Only(s, V) = Only(t, W)
  OBVIOUS
<1>1. \A i \in DOMAIN s : (IF s[i] \in V THEN <<s[i]>> ELSE <<>>) = (IF t[i] \in W THEN <<t[i]>> ELSE <<>>)
  OBVIOUS
<1>2. [i \in DOMAIN s |-> IF s[i] \in V THEN <<s[i]>> ELSE <<>>] =
      [i \in DOMAIN t |-> IF t[i] \in W THEN <<t[i]>> ELSE <<>>]
  BY <1>1
<1> QED
  BY <1>2 DEF Only

-----------------------------------------------------------------------------
(* Names that are kept once.                                                *)

\* What WithNew makes of names for each further name of more.
Grows(k, names, more) ==
    /\ k[0] = names
    /\ \A i \in 1 .. Len(more) :
           k[i] = IF more[i] \in ToSet(k[i - 1]) THEN k[i - 1] ELSE Append(k[i - 1], more[i])

\* WithNew goes through the new names one by one.
LEMMA WithNewGrows ==
    \A S : \A names, more \in Seq(S) :
        \E k \in [0 .. Len(more) -> Seq(S)] : Grows(k, names, more) /\ WithNew(names, more) = k[Len(more)]
<1> SUFFICES ASSUME NEW S, NEW names \in Seq(S), NEW more \in Seq(S)
    PROVE  \E k \in [0 .. Len(more) -> Seq(S)] : Grows(k, names, more) /\ WithNew(names, more) = k[Len(more)]
  OBVIOUS
<1> DEFINE N == Len(more)
           Step(i, l) == IF more[i] \in ToSet(l) THEN l ELSE Append(l, more[i])
           G == [p \in Nat \X Seq(S) |-> IF p[1] \in 1 .. N THEN Step(p[1], p[2]) ELSE p[2]]
<1>1. N \in Nat /\ \A i \in 1 .. N : more[i] \in S
  OBVIOUS
<1>2. \A i \in 1 .. N : \A l \in Seq(S) : Step(i, l) \in Seq(S)
  BY <1>1
<1>3. G \in [Nat \X Seq(S) -> Seq(S)]
  <2>1. ASSUME NEW p \in Nat \X Seq(S)
        PROVE  (IF p[1] \in 1 .. N THEN Step(p[1], p[2]) ELSE p[2]) \in Seq(S)
    <3>1. p[2] \in Seq(S)
      OBVIOUS
    <3> HIDE DEF Step, N
    <3> QED
      BY <1>2, <3>1
  <2> HIDE DEF Step, N
  <2> QED
    BY <2>1
<1>4. PICK k \in [0 .. N -> Seq(S)] : Obeys(k, names, G, N)
  <2>1. G \in Steps(Seq(S))
    BY <1>3 DEF Steps
  <2> HIDE DEF G, N
  <2> QED
    BY <1>1, <2>1, Recursion
<1> HIDE DEF N
<1>5. k[0] = names /\ \A i \in 1 .. N : k[i] = Step(i, k[i - 1])
  <2>1. ASSUME NEW i \in 1 .. N PROVE k[i] = Step(i, k[i - 1])
    <3>1. i \in Nat /\ i - 1 \in 0 .. N
      BY <1>1
    <3>2. k[i - 1] \in Seq(S)
      BY <3>1
    <3>3. G[<<i, k[i - 1]>>] = Step(i, k[i - 1])
      <4> HIDE DEF Step
      <4> QED
        BY <3>1, <3>2
    <3> HIDE DEF Step, G
    <3> QED
      BY <1>4, <3>3 DEF Obeys
  <2> HIDE DEF Step, G
  <2> QED
    BY <1>4, <2>1 DEF Obeys
<1> HIDE DEF G
<1>6. Grows(k, names, more)
  BY <1>5 DEF Grows, N
<1> DEFINE kept == CHOOSE h : h = [i \in 0 .. Len(more) |->
                IF i = 0 THEN names
                ELSE IF more[i] \in ToSet(h[i - 1]) THEN h[i - 1] ELSE Append(h[i - 1], more[i])]
<1>7. WithNew(names, more) = kept[N]
  BY DEF WithNew, N
<1>8. kept = [i \in 0 .. N |-> IF i = 0 THEN names ELSE Step(i, kept[i - 1])]
  <2>1. k = [i \in 0 .. N |-> k[i]]
    OBVIOUS
  <2>2. k = [i \in 0 .. N |-> IF i = 0 THEN names ELSE Step(i, k[i - 1])]
    <3>1. \A i \in 0 .. N : k[i] = IF i = 0 THEN names ELSE Step(i, k[i - 1])
      <4> HIDE DEF Step
      <4> QED
        BY <1>1, <1>5
    <3> HIDE DEF Step
    <3> QED
      BY <2>1, <3>1
  <2> QED
    BY <2>2 DEF N
<1> HIDE DEF kept, Step
<1> DEFINE Agrees == {i \in 0 .. N : kept[i] = k[i]}
<1>9. 0 \in Agrees
  BY <1>1, <1>5, <1>8
<1>10. ASSUME NEW i \in Nat, i < N, i \in Agrees PROVE i + 1 \in Agrees
  <2>1. i + 1 \in 0 .. N /\ i + 1 \in 1 .. N /\ i + 1 # 0 /\ (i + 1) - 1 = i
    BY <1>1, <1>10
  <2>2. kept[i + 1] = Step(i + 1, kept[i])
    BY <1>8, <2>1
  <2>3. k[i + 1] = Step(i + 1, k[i])
    BY <1>5, <2>1
  <2> QED
    BY <1>10, <2>1, <2>2, <2>3
<1> HIDE DEF Agrees
<1>11. 0 .. N \subseteq Agrees
  BY <1>1, <1>9, <1>10, UpTo
<1>12. kept[N] = k[N]
  BY <1>1, <1>11 DEF Agrees
<1> QED
  BY <1>6, <1>7, <1>12 DEF N

\* What comes of two lists is a list.
LEMMA WithNewIsList == \A names, more : IsList(names) /\ IsList(more) => IsList(WithNew(names, more))
<1> SUFFICES ASSUME NEW names, NEW more, IsList(names), IsList(more)
    PROVE  IsList(WithNew(names, more))
  OBVIOUS
<1> DEFINE S == ToSet(names) \cup ToSet(more)
<1>1. names \in Seq(S) /\ more \in Seq(S)
  BY ListFacts
<1> HIDE DEF S
<1>2. PICK k \in [0 .. Len(more) -> Seq(S)] : WithNew(names, more) = k[Len(more)]
  BY <1>1, WithNewGrows
<1>3. k[Len(more)] \in Seq(S)
  BY <1>1, LenProperties
<1> QED
  BY <1>2, <1>3, SeqIsList

-----------------------------------------------------------------------------
(* What is below an option.                                                 *)

Closed(d) == \A o \in DOMAIN d.option : Kids(d, o) \subseteq DOMAIN d.option

\* The descendants of o down to one level after another.
Reaches(f, d, o) ==
    /\ f[0] = Kids(d, o)
    /\ \A n \in 1 .. Cardinality(DOMAIN d.option) : f[n] = f[n - 1] \cup UNION {Kids(d, c) : c \in f[n - 1]}

\* Descendants goes down as many levels as there are options.
LEMMA DescendantsReach ==
    \A d : IsOptions(d.option) /\ Closed(d) => \A o \in DOMAIN d.option :
        \E f \in [0 .. Cardinality(DOMAIN d.option) -> SUBSET DOMAIN d.option] :
            Reaches(f, d, o) /\ Descendants(d, o) = f[Cardinality(DOMAIN d.option)]
<1> SUFFICES ASSUME NEW d, IsOptions(d.option), Closed(d), NEW o \in DOMAIN d.option
    PROVE  \E f \in [0 .. Cardinality(DOMAIN d.option) -> SUBSET DOMAIN d.option] :
               Reaches(f, d, o) /\ Descendants(d, o) = f[Cardinality(DOMAIN d.option)]
  OBVIOUS
<1> DEFINE O == DOMAIN d.option
           N == Cardinality(O)
           V == SUBSET O
           Below(D) == D \cup UNION {Kids(d, c) : c \in D}
           G == [p \in Nat \X V |-> Below(p[2])]
<1>1. N \in Nat
  BY FS_CardinalityType DEF IsOptions
<1>2. \A D \in V : Below(D) \in V
  BY DEF Closed
<1>3. Kids(d, o) \in V
  BY DEF Closed
<1> DEFINE down == CHOOSE h : h = [n \in 0 .. Cardinality(DOMAIN d.option) |->
                IF n = 0 THEN AllChildren(d.option[o])
                ELSE h[n - 1] \cup UNION {AllChildren(d.option[c]) : c \in h[n - 1]}]
<1>4. Descendants(d, o) = down[N]
  BY DEF Descendants
<1>5. ASSUME NEW f, f = [n \in 0 .. N |-> IF n = 0 THEN Kids(d, o) ELSE Below(f[n - 1])]
      PROVE  down = [n \in 0 .. N |-> IF n = 0 THEN Kids(d, o) ELSE Below(down[n - 1])]
  BY <1>5 DEF Kids
<1> HIDE DEF O, N, V, down
<1>6. G \in [Nat \X V -> V]
  <2>1. ASSUME NEW p \in Nat \X V PROVE Below(p[2]) \in V
    <3>1. p[2] \in V
      OBVIOUS
    <3> QED
      BY <1>2, <3>1
  <2> HIDE DEF Below
  <2> QED
    BY <2>1
<1>7. PICK f \in [0 .. N -> V] : Obeys(f, Kids(d, o), G, N)
  <2>1. G \in Steps(V)
    BY <1>6 DEF Steps
  <2> HIDE DEF G
  <2> QED
    BY <1>1, <1>3, <2>1, Recursion
<1>8. f[0] = Kids(d, o) /\ \A n \in 1 .. N : f[n] = Below(f[n - 1])
  <2>1. ASSUME NEW n \in 1 .. N PROVE f[n] = Below(f[n - 1])
    <3>1. n \in Nat /\ n - 1 \in 0 .. N
      BY <1>1
    <3>2. f[n - 1] \in V
      BY <3>1
    <3>3. G[<<n, f[n - 1]>>] = Below(f[n - 1])
      <4> HIDE DEF Below
      <4> QED
        BY <3>1, <3>2
    <3> HIDE DEF Below, G
    <3> QED
      BY <1>7, <3>3 DEF Obeys
  <2> HIDE DEF Below, G
  <2> QED
    BY <1>7, <2>1 DEF Obeys
<1> HIDE DEF G
<1>9. f = [n \in 0 .. N |-> IF n = 0 THEN Kids(d, o) ELSE Below(f[n - 1])]
  <2> HIDE DEF Below
  <2>1. \A n \in 0 .. N : f[n] = IF n = 0 THEN Kids(d, o) ELSE Below(f[n - 1])
    BY <1>1, <1>8
  <2> QED
    BY <2>1
<1>10. down = [n \in 0 .. N |-> IF n = 0 THEN Kids(d, o) ELSE Below(down[n - 1])]
  <2> HIDE DEF Below
  <2> QED
    BY <1>5, <1>9
<1> DEFINE Agrees == {n \in 0 .. N : down[n] = f[n]}
<1>11. 0 \in Agrees
  <2> HIDE DEF Below
  <2> QED
    BY <1>1, <1>8, <1>10
<1>12. ASSUME NEW n \in Nat, n < N, n \in Agrees PROVE n + 1 \in Agrees
  <2> HIDE DEF Below
  <2>1. n + 1 \in 0 .. N /\ n + 1 \in 1 .. N /\ n + 1 # 0 /\ (n + 1) - 1 = n
    BY <1>1, <1>12
  <2>2. down[n + 1] = Below(down[n]) /\ f[n + 1] = Below(f[n])
    BY <1>8, <1>10, <2>1
  <2> QED
    BY <1>12, <2>1, <2>2
<1> HIDE DEF Agrees
<1>13. 0 .. N \subseteq Agrees
  BY <1>1, <1>11, <1>12, UpTo
<1>14. down[N] = f[N]
  BY <1>1, <1>13 DEF Agrees
<1>15. Reaches(f, d, o)
  BY <1>8 DEF Reaches, N, O
<1> QED
  BY <1>4, <1>14, <1>15 DEF N, O, V

\* Each descendant of o is a child of o or of another descendant.
LEMMA DescendantsHaveParents ==
    \A d : IsOptions(d.option) /\ Closed(d) => \A o \in DOMAIN d.option :
        /\ Descendants(d, o) \subseteq DOMAIN d.option
        /\ \A y \in Descendants(d, o) : \E p \in {o} \cup Descendants(d, o) : y \in Kids(d, p)
<1> SUFFICES ASSUME NEW d, IsOptions(d.option), Closed(d), NEW o \in DOMAIN d.option
    PROVE  /\ Descendants(d, o) \subseteq DOMAIN d.option
           /\ \A y \in Descendants(d, o) : \E p \in {o} \cup Descendants(d, o) : y \in Kids(d, p)
  OBVIOUS
<1> DEFINE N == Cardinality(DOMAIN d.option)
<1>1. N \in Nat
  BY FS_CardinalityType DEF IsOptions
<1>2. PICK f \in [0 .. N -> SUBSET DOMAIN d.option] : Reaches(f, d, o) /\ Descendants(d, o) = f[N]
  BY DescendantsReach
<1>3. f[0] = Kids(d, o) /\ \A n \in 1 .. N : f[n] = f[n - 1] \cup UNION {Kids(d, c) : c \in f[n - 1]}
  BY <1>2 DEF Reaches
<1> HIDE DEF N
<1> DEFINE S == {n \in 0 .. N : \A y \in f[n] : \E p \in {o} \cup f[n] : y \in Kids(d, p)}
<1>4. 0 \in S
  BY <1>1, <1>3
<1>5. ASSUME NEW n \in Nat, n < N, n \in S PROVE n + 1 \in S
  <2>1. n + 1 \in 0 .. N /\ n + 1 \in 1 .. N /\ (n + 1) - 1 = n
    BY <1>1, <1>5
  <2>2. f[n + 1] = f[n] \cup UNION {Kids(d, c) : c \in f[n]}
    BY <1>3, <2>1
  <2>3. ASSUME NEW y \in f[n + 1] PROVE \E p \in {o} \cup f[n + 1] : y \in Kids(d, p)
    <3>1. CASE y \in f[n]
      BY <1>5, <2>2, <3>1
    <3>2. CASE y \notin f[n]
      BY <2>2, <3>2
    <3> QED
      BY <3>1, <3>2
  <2> QED
    BY <2>1, <2>3
<1> HIDE DEF S
<1>6. 0 .. N \subseteq S
  BY <1>1, <1>4, <1>5, UpTo
<1>7. N \in 0 .. N
  BY <1>1
<1>8. f[N] \subseteq DOMAIN d.option
  BY <1>7
<1> QED
  BY <1>2, <1>6, <1>7, <1>8 DEF S

\* The child of a descendant is one, as long as there are levels left.
LEMMA DescendantsGoDown ==
    \A d : IsOptions(d.option) /\ Closed(d) => \A o \in DOMAIN d.option :
        \E f \in [0 .. Cardinality(DOMAIN d.option) -> SUBSET DOMAIN d.option] :
            /\ Kids(d, o) = f[0]
            /\ \A n \in 1 .. Cardinality(DOMAIN d.option) : \A c \in f[n - 1] : Kids(d, c) \subseteq f[n]
            /\ \A n \in 0 .. Cardinality(DOMAIN d.option) : f[n] \subseteq Descendants(d, o)
<1> SUFFICES ASSUME NEW d, IsOptions(d.option), Closed(d), NEW o \in DOMAIN d.option
    PROVE  \E f \in [0 .. Cardinality(DOMAIN d.option) -> SUBSET DOMAIN d.option] :
               /\ Kids(d, o) = f[0]
               /\ \A n \in 1 .. Cardinality(DOMAIN d.option) : \A c \in f[n - 1] : Kids(d, c) \subseteq f[n]
               /\ \A n \in 0 .. Cardinality(DOMAIN d.option) : f[n] \subseteq Descendants(d, o)
  OBVIOUS
<1> DEFINE N == Cardinality(DOMAIN d.option)
<1>1. N \in Nat
  BY FS_CardinalityType DEF IsOptions
<1>2. PICK f \in [0 .. N -> SUBSET DOMAIN d.option] : Reaches(f, d, o) /\ Descendants(d, o) = f[N]
  BY DescendantsReach
<1>3. f[0] = Kids(d, o) /\ \A n \in 1 .. N : f[n] = f[n - 1] \cup UNION {Kids(d, c) : c \in f[n - 1]}
  BY <1>2 DEF Reaches
<1> HIDE DEF N
<1> DEFINE S == {n \in 0 .. N : f[N - n] \subseteq f[N]}
<1>4. 0 \in S
  BY <1>1
<1>5. ASSUME NEW n \in Nat, n < N, n \in S PROVE n + 1 \in S
  <2>1. n + 1 \in 0 .. N /\ N - n \in 1 .. N /\ (N - n) - 1 = N - (n + 1)
    BY <1>1, <1>5
  <2>2. f[N - (n + 1)] \subseteq f[N - n]
    BY <1>3, <2>1
  <2> QED
    BY <1>5, <2>1, <2>2
<1> HIDE DEF S
<1>6. 0 .. N \subseteq S
  BY <1>1, <1>4, <1>5, UpTo
<1>7. ASSUME NEW n \in 0 .. N PROVE f[n] \subseteq f[N]
  <2>1. N - n \in 0 .. N /\ N - (N - n) = n
    BY <1>1
  <2> QED
    BY <1>6, <2>1 DEF S
<1>8. \A n \in 1 .. N : \A c \in f[n - 1] : Kids(d, c) \subseteq f[n]
  BY <1>3
<1> QED
  BY <1>2, <1>3, <1>7, <1>8 DEF N

\* A chain of parents s that ends in a child of its first option closes a cycle.
LEMMA CycleIsFound ==
    \A d : IsOptions(d.option) /\ Closed(d) => \A s \in Seq(DOMAIN d.option) :
        /\ \A i, j \in 1 .. Len(s) : s[i] = s[j] => i = j
        /\ \A i \in 1 .. Len(s) : i > 1 => s[i - 1] \in Kids(d, s[i])
        => \A k \in 1 .. Len(s) : s[k] \in Kids(d, s[1]) => s[k] \in Descendants(d, s[k])
<1> SUFFICES ASSUME NEW d, IsOptions(d.option), Closed(d), NEW s \in Seq(DOMAIN d.option),
                    \A i, j \in 1 .. Len(s) : s[i] = s[j] => i = j,
                    \A i \in 1 .. Len(s) : i > 1 => s[i - 1] \in Kids(d, s[i]),
                    NEW k \in 1 .. Len(s), s[k] \in Kids(d, s[1])
    PROVE  s[k] \in Descendants(d, s[k])
  OBVIOUS
<1> DEFINE N == Cardinality(DOMAIN d.option)
           M == Len(s)
<1>1. N \in Nat /\ M \in Nat /\ k \in 1 .. M
  BY FS_CardinalityType, LenProperties DEF IsOptions
<1>2. M <= N
  <2>1. s \in [1 .. M -> DOMAIN d.option]
    BY LenProperties
  <2>2. s \in Injection(1 .. M, DOMAIN d.option)
    BY <2>1 DEF Injection, IsInjective
  <2>3. IsFiniteSet(DOMAIN d.option)
    BY DEF IsOptions
  <2>4. Cardinality(1 .. M) <= N
    BY <2>2, <2>3, FS_Injection
  <2>5. Cardinality(1 .. M) = M
    <3>1. 1 \in Int /\ M \in Int /\ ~(1 > M) /\ M - 1 + 1 = M
      BY <1>1
    <3>2. Cardinality(1 .. M) = IF 1 > M THEN 0 ELSE M - 1 + 1
      <4> HIDE DEF M
      <4> QED
        BY <3>1, FS_Interval
    <3> QED
      BY <3>1, <3>2
  <2> QED
    BY <2>4, <2>5
<1>3. s[k] \in DOMAIN d.option
  BY LenProperties
<1>4. PICK f \in [0 .. N -> SUBSET DOMAIN d.option] :
          /\ Kids(d, s[k]) = f[0]
          /\ \A n \in 1 .. N : \A c \in f[n - 1] : Kids(d, c) \subseteq f[n]
          /\ \A n \in 0 .. N : f[n] \subseteq Descendants(d, s[k])
  BY <1>3, DescendantsGoDown
<1> HIDE DEF N, M
<1>5. CASE k = 1
  BY <1>1, <1>4, <1>5
<1>6. CASE k # 1
  <2>1. PICK p \in Nat : k = p + 2
    <3>1. k - 2 \in Nat /\ k = (k - 2) + 2
      BY <1>1, <1>6
    <3> QED
      BY <3>1
  <2>2. p + 2 \in 1 .. M /\ p + 1 \in 1 .. N /\ p \in 0 .. N
    BY <1>1, <1>2, <2>1
  <2> DEFINE S == {n \in 0 .. p : s[(p + 1) - n] \in f[n]}
  <2>3. 0 \in S
    <3>1. p + 2 \in 1 .. Len(s) /\ p + 2 > 1 /\ (p + 2) - 1 = p + 1 /\ (p + 1) - 0 = p + 1 /\ 0 \in 0 .. p
      BY <2>2 DEF M
    <3>2. s[(p + 2) - 1] \in Kids(d, s[p + 2])
      BY <3>1
    <3>3. s[p + 1] \in f[0]
      BY <1>4, <2>1, <3>1, <3>2
    <3> QED
      BY <3>1, <3>3
  <2>4. ASSUME NEW n \in Nat, n < p, n \in S PROVE n + 1 \in S
    <3>1. n + 1 \in 1 .. N /\ (n + 1) - 1 = n /\ n + 1 \in 0 .. p
      BY <1>1, <2>2, <2>4
    <3>2. (p + 1) - n \in 1 .. Len(s) /\ (p + 1) - n > 1 /\ ((p + 1) - n) - 1 = (p + 1) - (n + 1)
      BY <1>1, <2>2, <2>4 DEF M
    <3>3. s[(p + 1) - (n + 1)] \in Kids(d, s[(p + 1) - n])
      BY <3>2
    <3>4. s[(p + 1) - n] \in f[n]
      BY <2>4
    <3>5. Kids(d, s[(p + 1) - n]) \subseteq f[n + 1]
      BY <1>4, <3>1, <3>4
    <3> QED
      BY <3>1, <3>3, <3>5
  <2> HIDE DEF S
  <2>5. 0 .. p \subseteq S
    BY <2>3, <2>4, UpTo
  <2>6. p \in 0 .. p /\ (p + 1) - p = 1 /\ (p + 1) - 1 = p /\ p + 1 \in 0 .. N
    BY <2>2
  <2>7. s[1] \in f[p]
    BY <2>5, <2>6 DEF S
  <2>8. Kids(d, s[1]) \subseteq f[p + 1]
    BY <1>4, <2>2, <2>6, <2>7
  <2> QED
    BY <1>4, <2>6, <2>8
<1> QED
  BY <1>5, <1>6

\* Where every set of options has one without a parent in the set, none is below itself.
LEMMA FoundedEnds ==
    \A d : /\ IsOptions(d.option) /\ Closed(d)
           /\ \A X \in SUBSET DOMAIN d.option : X # {} => \E x \in X : \A y \in X : x \notin Kids(d, y)
           => EndsEverywhere(d)
<1> SUFFICES ASSUME NEW d, IsOptions(d.option), Closed(d),
                    \A X \in SUBSET DOMAIN d.option : X # {} => \E x \in X : \A y \in X : x \notin Kids(d, y),
                    NEW o \in DOMAIN d.option, o \in Descendants(d, o)
    PROVE  FALSE
  BY DEF EndsEverywhere, Closed, Kids
<1>1. /\ Descendants(d, o) \subseteq DOMAIN d.option
      /\ \A y \in Descendants(d, o) : \E p \in {o} \cup Descendants(d, o) : y \in Kids(d, p)
  BY DescendantsHaveParents
<1>2. PICK x \in Descendants(d, o) : \A y \in Descendants(d, o) : x \notin Kids(d, y)
  BY <1>1
<1> QED
  BY <1>1, <1>2

\* The children of a descendant are descendants: there are enough levels.
LEMMA DescendantsClosed ==
    \A d : IsOptions(d.option) /\ Closed(d) => \A o \in DOMAIN d.option :
        /\ Kids(d, o) \subseteq Descendants(d, o)
        /\ \A c \in Descendants(d, o) : Kids(d, c) \subseteq Descendants(d, o)
<1> SUFFICES ASSUME NEW d, IsOptions(d.option), Closed(d), NEW o \in DOMAIN d.option
    PROVE  /\ Kids(d, o) \subseteq Descendants(d, o)
           /\ \A c \in Descendants(d, o) : Kids(d, c) \subseteq Descendants(d, o)
  OBVIOUS
<1> DEFINE O == DOMAIN d.option
           N == Cardinality(O)
           Whole(D) == \A c \in D : Kids(d, c) \subseteq D
<1>1. IsFiniteSet(O)
  BY DEF IsOptions
<1>2. N \in Nat
  BY <1>1, FS_CardinalityType
<1>3. PICK f \in [0 .. N -> SUBSET O] : Reaches(f, d, o) /\ Descendants(d, o) = f[N]
  BY DescendantsReach
<1>4. f[0] = Kids(d, o) /\ \A n \in 1 .. N : f[n] = f[n - 1] \cup UNION {Kids(d, c) : c \in f[n - 1]}
  BY <1>3 DEF Reaches
<1>5. Whole(O)
  BY DEF Closed
<1> HIDE DEF N, O
<1> DEFINE S == {n \in 0 .. N : f[0] \subseteq f[n] /\ (Whole(f[n]) \/ Cardinality(f[n]) >= n)}
<1>6. \A n \in 0 .. N : IsFiniteSet(f[n]) /\ Cardinality(f[n]) \in Nat /\ f[n] \subseteq O
  BY <1>1, FS_Subset, FS_CardinalityType
<1>7. 0 \in S
  BY <1>2, <1>6
<1>8. ASSUME NEW n \in Nat, n < N, n \in S PROVE n + 1 \in S
  <2>1. n + 1 \in 0 .. N /\ n + 1 \in 1 .. N /\ (n + 1) - 1 = n /\ n \in 0 .. N
    BY <1>2, <1>8
  <2>2. f[n + 1] = f[n] \cup UNION {Kids(d, c) : c \in f[n]}
    BY <1>4, <2>1
  <2>3. CASE Whole(f[n])
    <3>1. f[n + 1] = f[n]
      BY <2>2, <2>3
    <3> QED
      BY <1>8, <2>1, <2>3, <3>1
  <2>4. CASE ~Whole(f[n])
    <3>1. f[n + 1] # f[n] /\ f[n] \subseteq f[n + 1]
      BY <2>2, <2>4
    <3> DEFINE x == Cardinality(f[n])
               y == Cardinality(f[n + 1])
    <3>2. x <= y /\ x # y
      BY <1>6, <2>1, <3>1, FS_Subset
    <3>3. x \in Nat /\ y \in Nat /\ x >= n
      BY <1>6, <1>8, <2>1, <2>4
    <3> HIDE DEF x, y
    <3>4. y >= n + 1
      BY <3>2, <3>3
    <3> QED
      BY <1>8, <2>1, <3>1, <3>4 DEF y
  <2> QED
    BY <2>3, <2>4
<1> HIDE DEF S
<1>9. 0 .. N \subseteq S
  BY <1>2, <1>7, <1>8, UpTo
<1>10. N \in 0 .. N
  BY <1>2
<1>11. f[0] \subseteq f[N] /\ (Whole(f[N]) \/ Cardinality(f[N]) >= N)
  BY <1>9, <1>10 DEF S
<1>12. CASE Cardinality(f[N]) >= N
  <2>1. f[N] \subseteq O /\ Cardinality(f[N]) \in Nat
    BY <1>6, <1>10
  <2>2. Cardinality(f[N]) <= N
    BY <1>1, <2>1, FS_Subset DEF N
  <2>3. Cardinality(f[N]) = N
    BY <1>2, <1>12, <2>1, <2>2
  <2>4. f[N] = O
    BY <1>1, <2>1, <2>3, FS_Subset DEF N
  <2> QED
    BY <1>3, <1>4, <1>5, <1>11, <2>4
<1> QED
  BY <1>3, <1>4, <1>11, <1>12

\* Each option ranks higher than its children.
Ranks(rank, d) == \A o \in DOMAIN d.option : \A c \in Kids(d, o) : c \in DOMAIN d.option /\ rank[c] < rank[o]

\* Where no option is below itself there are such ranks.
LEMMA RanksFall ==
    \A d : IsOptions(d.option) /\ EndsEverywhere(d) =>
        /\ Cardinality(DOMAIN d.option) \in Nat
        /\ \E rank \in [STRING -> 0 .. Cardinality(DOMAIN d.option)] : Ranks(rank, d)
<1> SUFFICES ASSUME NEW d, IsOptions(d.option), EndsEverywhere(d)
    PROVE  /\ Cardinality(DOMAIN d.option) \in Nat
           /\ \E rank \in [STRING -> 0 .. Cardinality(DOMAIN d.option)] : Ranks(rank, d)
  OBVIOUS
<1> DEFINE O == DOMAIN d.option
           N == Cardinality(O)
           D(o) == Descendants(d, o)
           rank == [o \in STRING |-> IF o \in O THEN Cardinality(D(o)) ELSE 0]
<1>1. IsFiniteSet(O)
  BY DEF IsOptions
<1>2. O \subseteq STRING
  BY DEF IsOptions
<1>3. N \in Nat
  BY <1>1, FS_CardinalityType
<1>4. Closed(d) /\ \A o \in O : o \notin D(o)
  BY DEF EndsEverywhere, Closed, Kids
<1>5. ASSUME NEW o \in O
      PROVE  /\ D(o) \subseteq O /\ Kids(d, o) \subseteq D(o)
             /\ \A c \in D(o) : Kids(d, c) \subseteq D(o)
  BY <1>4, DescendantsHaveParents, DescendantsClosed
<1> HIDE DEF D
<1>6. ASSUME NEW o \in O PROVE IsFiniteSet(D(o)) /\ Cardinality(D(o)) \in 0 .. N
  <2>1. D(o) \in SUBSET O
    BY <1>5
  <2>2. IsFiniteSet(D(o)) /\ Cardinality(D(o)) <= N
    BY <1>1, <2>1, FS_Subset
  <2>3. Cardinality(D(o)) \in Nat
    BY <2>2, FS_CardinalityType
  <2> QED
    BY <1>3, <2>2, <2>3
<1>7. ASSUME NEW o \in O, NEW c \in Kids(d, o) PROVE c \in O /\ Cardinality(D(c)) < Cardinality(D(o))
  <2>1. c \in O /\ c \in D(o) /\ c \notin D(c)
    BY <1>4, <1>5, <1>7
  <2>2. D(c) \subseteq D(o)
    <3>1. PICK f \in [0 .. N -> SUBSET O] : Reaches(f, d, c) /\ D(c) = f[N]
      BY <1>4, <2>1, DescendantsReach DEF D
    <3>2. f[0] = Kids(d, c) /\ \A n \in 1 .. N : f[n] = f[n - 1] \cup UNION {Kids(d, x) : x \in f[n - 1]}
      BY <3>1 DEF Reaches
    <3> HIDE DEF N
    <3> DEFINE S == {n \in 0 .. N : f[n] \subseteq D(o)}
    <3>3. 0 \in S
      BY <1>3, <1>5, <2>1, <3>2
    <3>4. ASSUME NEW n \in Nat, n < N, n \in S PROVE n + 1 \in S
      <4>1. n + 1 \in 0 .. N /\ n + 1 \in 1 .. N /\ (n + 1) - 1 = n
        BY <1>3, <3>4
      <4>2. f[n + 1] = f[n] \cup UNION {Kids(d, x) : x \in f[n]}
        BY <3>2, <4>1
      <4> QED
        BY <1>5, <3>4, <4>1, <4>2
    <3> HIDE DEF S
    <3>5. 0 .. N \subseteq S
      BY <1>3, <3>3, <3>4, UpTo
    <3> QED
      BY <1>3, <3>1, <3>5 DEF S
  <2>3. D(c) # D(o)
    BY <2>1
  <2> DEFINE x == Cardinality(D(c))
             y == Cardinality(D(o))
  <2>4. x <= y /\ x # y
    BY <1>6, <2>2, <2>3, FS_Subset
  <2>5. x \in Nat /\ y \in Nat
    <3>1. x \in 0 .. N /\ y \in 0 .. N
      BY <1>6, <2>1
    <3> QED
      BY <3>1
  <2> HIDE DEF x, y
  <2>6. x < y
    BY <2>4, <2>5
  <2> QED
    BY <2>1, <2>6 DEF x, y
<1>8. rank \in [STRING -> 0 .. N]
  <2>1. 0 \in 0 .. N
    BY <1>3
  <2> QED
    BY <1>6, <2>1
<1>9. \A o \in O : rank[o] = Cardinality(D(o))
  BY <1>2
<1> HIDE DEF rank
<1>10. Ranks(rank, d)
  BY <1>7, <1>9 DEF Ranks
<1> QED
  BY <1>3, <1>8, <1>10

-----------------------------------------------------------------------------
(* Forests.                                                                 *)

LEMMA JoinedAre ==
    \A A, B : \A l : l \in Joined(A, B) <=> \E done \in A : \E more \in B : l = done \o more
BY DEF Joined

\* A set of lists with nothing and with any two of them one behind the other.
Closes(T) == <<>> \in T /\ \A done, more \in T : done \o more \in T

\* The lists for the first names of a list of names.
Plants(f, tree, names) ==
    /\ f[0] = {<<>>}
    /\ \A n \in 1 .. Len(names) : f[n] = Joined(f[n - 1], tree[names[n]])

\* Those of them that are in T, and make up the forest.
Planted(f, T, tree, names) ==
    /\ f \in [0 .. Len(names) -> SUBSET T]
    /\ Plants(f, tree, names)
    /\ Forest(tree, names) = f[Len(names)]

\* Forest goes from name to name.
LEMMA ForestGoes ==
    \A T, tree, names :
        IsList(names) /\ Closes(T) /\ (\A o \in ToSet(names) : tree[o] \subseteq T) =>
            \E f : Planted(f, T, tree, names)
<1> SUFFICES ASSUME NEW T, NEW tree, NEW names, IsList(names), Closes(T), \A o \in ToSet(names) : tree[o] \subseteq T
    PROVE  \E f : Planted(f, T, tree, names)
  OBVIOUS
<1> DEFINE N == Len(names)
           V == SUBSET T
           At(n) == IF n \in 1 .. N THEN tree[names[n]] ELSE {}
           G == [p \in Nat \X V |-> Joined(p[2], At(p[1]))]
           lists == CHOOSE h : h = [n \in 0 .. Len(names) |->
                        IF n = 0 THEN {<<>>} ELSE Joined(h[n - 1], tree[names[n]])]
<1>1. N \in Nat /\ \A n \in 1 .. N : tree[names[n]] \in V
  BY ListFacts
<1>2. \A n \in Nat : At(n) \in V
  BY <1>1
<1>3. ASSUME NEW n \in Nat, NEW L \in V PROVE Joined(L, At(n)) \in V
  <2>1. At(n) \in V
    BY <1>2
  <2> DEFINE M == At(n)
  <2>2. L \subseteq T /\ M \subseteq T
    BY <2>1
  <2> HIDE DEF M
  <2>3. \A done, more \in T : done \o more \in T
    BY DEF Closes
  <2>4. ASSUME NEW l \in Joined(L, M) PROVE l \in T
    <3>1. PICK done \in L : \E more \in M : l = done \o more
      BY JoinedAre
    <3>2. PICK more \in M : l = done \o more
      BY <3>1
    <3> QED
      BY <2>2, <2>3, <3>2
  <2> QED
    BY <2>4 DEF M
<1>4. {<<>>} \in V
  BY DEF Closes
<1>5. Forest(tree, names) = lists[N]
  BY DEF Forest
<1>6. \A n \in 1 .. N : At(n) = tree[names[n]]
  OBVIOUS
<1> HIDE DEF At
<1> HIDE DEF lists, N, V
<1>8. G \in Steps(V)
  <2>1. ASSUME NEW p \in Nat \X V PROVE Joined(p[2], At(p[1])) \in V
    <3>1. p[1] \in Nat /\ p[2] \in V
      OBVIOUS
    <3> QED
      BY <1>3, <3>1
  <2>2. G \in [Nat \X V -> V]
    BY <2>1
  <2> QED
    BY <2>2 DEF Steps
<1> HIDE DEF G
<1>9. PICK f \in [0 .. N -> V] : Obeys(f, {<<>>}, G, N)
  BY <1>1, <1>4, <1>8, Recursion
<1>10. f[0] = {<<>>} /\ \A n \in 1 .. N : f[n] = Joined(f[n - 1], tree[names[n]])
  <2>1. ASSUME NEW n \in 1 .. N PROVE f[n] = Joined(f[n - 1], tree[names[n]])
    <3>1. n \in Nat /\ n - 1 \in 0 .. N
      BY <1>1
    <3>2. f[n - 1] \in V
      BY <3>1
    <3>3. G[<<n, f[n - 1]>>] = Joined(f[n - 1], At(n))
      BY <3>1, <3>2 DEF G
    <3>4. f[n] = Joined(f[n - 1], At(n))
      BY <1>9, <3>3 DEF Obeys
    <3> QED
      BY <1>6, <3>4
  <2> QED
    BY <1>9, <2>1 DEF Obeys
<1>11. f = [n \in 0 .. N |-> IF n = 0 THEN {<<>>} ELSE Joined(f[n - 1], tree[names[n]])]
  <2>1. \A n \in 0 .. N : f[n] = IF n = 0 THEN {<<>>} ELSE Joined(f[n - 1], tree[names[n]])
    BY <1>1, <1>10
  <2> QED
    BY <2>1
<1>12. lists = [n \in 0 .. N |-> IF n = 0 THEN {<<>>} ELSE Joined(lists[n - 1], tree[names[n]])]
  BY <1>11 DEF lists, N
<1> DEFINE Agrees == {n \in 0 .. N : lists[n] = f[n]}
<1>13. 0 \in Agrees
  BY <1>1, <1>10, <1>12
<1>14. ASSUME NEW n \in Nat, n < N, n \in Agrees PROVE n + 1 \in Agrees
  <2>1. n + 1 \in 0 .. N /\ n + 1 \in 1 .. N /\ n + 1 # 0 /\ (n + 1) - 1 = n
    BY <1>1, <1>14
  <2>2. lists[n + 1] = Joined(lists[n], tree[names[n + 1]])
    BY <1>12, <2>1
  <2>3. f[n + 1] = Joined(f[n], tree[names[n + 1]])
    BY <1>10, <2>1
  <2> QED
    BY <1>14, <2>1, <2>2, <2>3
<1> HIDE DEF Agrees
<1>15. 0 .. N \subseteq Agrees
  BY <1>1, <1>13, <1>14, UpTo
<1>16. lists[N] = f[N]
  BY <1>1, <1>15 DEF Agrees
<1>17. Plants(f, tree, names)
  BY <1>10 DEF Plants, N
<1> QED
  BY <1>5, <1>16, <1>17 DEF N, V, Planted

\* A forest holds what its trees hold, a tree of each name among it, and
\* depends on those only.
LEMMA ForestFacts ==
    \A T, tree, names :
        IsList(names) /\ Closes(T) /\ (\A o \in ToSet(names) : tree[o] \subseteq T) =>
            /\ Forest(tree, names) \subseteq T
            /\ \A other : (\A o \in ToSet(names) : other[o] = tree[o]) => Forest(other, names) = Forest(tree, names)
<1> SUFFICES ASSUME NEW T, NEW tree, NEW names, IsList(names), Closes(T), \A o \in ToSet(names) : tree[o] \subseteq T
    PROVE  /\ Forest(tree, names) \subseteq T
           /\ \A other : (\A o \in ToSet(names) : other[o] = tree[o]) => Forest(other, names) = Forest(tree, names)
  OBVIOUS
<1> DEFINE N == Len(names)
<1>1. N \in Nat /\ \A n \in 1 .. N : names[n] \in ToSet(names)
  BY ListFacts
<1>2. PICK f : Planted(f, T, tree, names)
  BY ForestGoes
<1>3. ASSUME NEW other, \A o \in ToSet(names) : other[o] = tree[o]
      PROVE  Forest(other, names) = Forest(tree, names)
  <2>1. \A o \in ToSet(names) : other[o] \subseteq T
    BY <1>3
  <2>2. PICK g : Planted(g, T, other, names)
    BY <2>1, ForestGoes
  <2>3. f[0] = {<<>>} /\ \A n \in 1 .. N : f[n] = Joined(f[n - 1], tree[names[n]])
    BY <1>2 DEF Planted, Plants
  <2>4. g[0] = {<<>>} /\ \A n \in 1 .. N : g[n] = Joined(g[n - 1], tree[names[n]])
    BY <1>1, <1>3, <2>2 DEF Planted, Plants
  <2>9. Forest(tree, names) = f[N] /\ Forest(other, names) = g[N]
    BY <1>2, <2>2 DEF Planted
  <2> HIDE DEF N
  <2> DEFINE Agrees == {n \in 0 .. N : g[n] = f[n]}
  <2>10. g[0] = f[0]
    BY <2>3, <2>4
  <2>5. 0 \in Agrees
    BY <1>1, <2>10
  <2>6. ASSUME NEW n \in Nat, n < N, n \in Agrees PROVE n + 1 \in Agrees
    <3>1. n + 1 \in 0 .. N /\ n + 1 \in 1 .. N /\ (n + 1) - 1 = n
      BY <1>1, <2>6
    <3>2. g[n + 1] = Joined(g[n], tree[names[n + 1]])
      BY <2>4, <3>1
    <3>3. f[n + 1] = Joined(f[n], tree[names[n + 1]])
      BY <2>3, <3>1
    <3> QED
      BY <2>6, <3>1, <3>2, <3>3
  <2> HIDE DEF Agrees
  <2>7. 0 .. N \subseteq Agrees
    BY <1>1, <2>5, <2>6, UpTo
  <2> QED
    BY <1>1, <2>7, <2>9 DEF Agrees
<1>4. Forest(tree, names) \subseteq T
  BY <1>1, <1>2 DEF Planted
<1> QED
  BY <1>3, <1>4

\* Forests of larger sets of lists are larger.
LEMMA ForestWithin ==
    \A S, tree, T, names :
        /\ IsList(names) /\ Closes(S)
        /\ \A o \in ToSet(names) : tree[o] \subseteq T[o] /\ T[o] \subseteq S
        => Forest(tree, names) \subseteq Forest(T, names)
<1> SUFFICES ASSUME NEW S, NEW tree, NEW T, NEW names, IsList(names), Closes(S),
                    \A o \in ToSet(names) : tree[o] \subseteq T[o] /\ T[o] \subseteq S
    PROVE  Forest(tree, names) \subseteq Forest(T, names)
  OBVIOUS
<1> DEFINE N == Len(names)
<1>1. N \in Nat /\ \A n \in 1 .. N : names[n] \in ToSet(names)
  BY ListFacts
<1>2. \A o \in ToSet(names) : tree[o] \subseteq S /\ T[o] \subseteq S
  OBVIOUS
<1>3. PICK f : Planted(f, S, tree, names)
  BY <1>2, ForestGoes
<1>4. PICK g : Planted(g, S, T, names)
  BY <1>2, ForestGoes
<1>5. f[0] = {<<>>} /\ (\A n \in 1 .. N : f[n] = Joined(f[n - 1], tree[names[n]])) /\ Forest(tree, names) = f[N]
  BY <1>3 DEF Planted, Plants
<1>6. g[0] = {<<>>} /\ (\A n \in 1 .. N : g[n] = Joined(g[n - 1], T[names[n]])) /\ Forest(T, names) = g[N]
  BY <1>4 DEF Planted, Plants
<1> HIDE DEF N
<1> DEFINE W == {n \in 0 .. N : f[n] \subseteq g[n]}
<1>7. 0 \in W
  BY <1>1, <1>5, <1>6
<1>8. ASSUME NEW n \in Nat, n < N, n \in W PROVE n + 1 \in W
  <2>1. n + 1 \in 0 .. N /\ n + 1 \in 1 .. N /\ (n + 1) - 1 = n
    BY <1>1, <1>8
  <2>2. f[n + 1] = Joined(f[n], tree[names[n + 1]]) /\ g[n + 1] = Joined(g[n], T[names[n + 1]])
    BY <1>5, <1>6, <2>1
  <2>3. f[n] \subseteq g[n] /\ tree[names[n + 1]] \subseteq T[names[n + 1]]
    BY <1>1, <1>8, <2>1
  <2>4. \A l \in f[n + 1] : l \in g[n + 1]
    BY <2>2, <2>3, JoinedAre
  <2> QED
    BY <2>1, <2>4
<1> HIDE DEF W
<1>9. 0 .. N \subseteq W
  BY <1>1, <1>7, <1>8, UpTo
<1>10. f[N] \subseteq g[N]
  BY <1>1, <1>9 DEF W
<1> QED
  BY <1>5, <1>6, <1>10

-----------------------------------------------------------------------------
(* Answers and the children they lead to.                                   *)

\* The entry selects cases that the option has.
Selects(opt, e) == Chosen(opt, e) \in Seq(ToSet(opt.cases))

\* The children are a list of children of the option.
LEMMA ChildrenAre ==
    \A I : IsOptions(I.option) => \A o \in DOMAIN I.option : \A e :
        Selects(I.option[o], e) =>
            /\ IsList(Children(I.option[o], e))
            /\ ToSet(Children(I.option[o], e)) \subseteq Kids(I, o)
<1> SUFFICES ASSUME NEW I, IsOptions(I.option), NEW o \in DOMAIN I.option, NEW e, Selects(I.option[o], e)
    PROVE  /\ IsList(Children(I.option[o], e))
           /\ ToSet(Children(I.option[o], e)) \subseteq Kids(I, o)
  OBVIOUS
<1> DEFINE opt == I.option[o]
           s == Chosen(opt, e)
           C == ToSet(opt.cases)
           K == Kids(I, o)
           ss == [i \in DOMAIN s |-> opt.child[s[i]]]
<1>1. \A c \in C : IsList(opt.child[c])
  BY DEF IsOptions
<1>2. K = UNION {ToSet(opt.child[c]) : c \in C}
  BY DEF Kids, AllChildren
<1>3. s \in Seq(C)
  BY DEF Selects
<1>4. Children(opt, e) = FlattenSeq(ss)
  BY DEF Children
<1> HIDE DEF opt, s, C, K
<1>5. \A c \in C : opt.child[c] \in Seq(K)
  <2>1. ASSUME NEW c \in C PROVE opt.child[c] \in Seq(K)
    <3>1. IsList(opt.child[c]) /\ ToSet(opt.child[c]) \subseteq K
      BY <1>1, <1>2
    <3> QED
      BY <3>1, ListFacts
  <2> QED
    BY <2>1
<1>6. Len(s) \in Nat /\ DOMAIN s = 1 .. Len(s) /\ \A i \in 1 .. Len(s) : s[i] \in C
  BY <1>3, LenProperties
<1>7. ss \in [1 .. Len(s) -> Seq(K)]
  BY <1>5, <1>6
<1> HIDE DEF ss
<1>8. ss \in Seq(Seq(K))
  BY <1>6, <1>7
<1>9. FlattenSeq(ss) \in Seq(K)
  BY <1>8, FlattenRange
<1>10. IsList(FlattenSeq(ss)) /\ ToSet(FlattenSeq(ss)) \subseteq K
  BY <1>9, SeqIsList
<1> QED
  BY <1>4, <1>10 DEF opt, K

\* The defaults of an option are cases it has.
LEMMA DefaultCasesAre == \A opt : IsList(opt.cases) => DefaultCases(opt) \in Seq(ToSet(opt.cases))
<1> SUFFICES ASSUME NEW opt, IsList(opt.cases) PROVE DefaultCases(opt) \in Seq(ToSet(opt.cases))
  OBVIOUS
<1>1. opt.cases \in Seq(ToSet(opt.cases))
  BY DEF IsList
<1>2. Only(opt.cases, ToSet(opt.default)) \in Seq(ToSet(opt.cases))
  BY <1>1, OnlyRange
<1>3. <<>> \in Seq(ToSet(opt.cases))
  BY EmptySeq
<1> QED
  BY <1>2, <1>3 DEF DefaultCases

LEMMA PickedCaseIs == \A opt, how : IsList(opt.cases) => PickCase(opt, how) \subseteq ToSet(opt.cases)
<1> SUFFICES ASSUME NEW opt, NEW how, IsList(opt.cases) PROVE PickCase(opt, how) \subseteq ToSet(opt.cases)
  OBVIOUS
<1>1. DefaultCases(opt) \in Seq(ToSet(opt.cases))
  BY DefaultCasesAre
<1>2. DefaultCases(opt) # <<>> => DefaultCases(opt)[1] \in ToSet(opt.cases)
  <2> DEFINE d == DefaultCases(opt)
             C == ToSet(opt.cases)
  <2>1. d \in Seq(C)
    BY <1>1
  <2> HIDE DEF d, C
  <2>2. d # <<>> => d[1] \in C
    BY <2>1
  <2> QED
    BY <2>2 DEF d, C
<1> QED
  BY <1>2 DEF PickCase

LEMMA PickedCasesAre == \A opt, how : IsList(opt.cases) => PickCases(opt, how) \subseteq Seq(ToSet(opt.cases))
<1> SUFFICES ASSUME NEW opt, NEW how, IsList(opt.cases), NEW values \in PickCases(opt, how)
    PROVE  values \in Seq(ToSet(opt.cases))
  OBVIOUS
<1> DEFINE C == ToSet(opt.cases)
<1>1. values = <<>> \/ values = DefaultCases(opt) \/ values \in SetToAllKPermutations(C)
  BY DEF PickCases
<1>2. CASE values = <<>>
  BY <1>2, EmptySeq
<1>3. CASE values = DefaultCases(opt)
  BY <1>3, DefaultCasesAre
<1>4. CASE values \in SetToAllKPermutations(C)
  <2>1. IsFiniteSet(C)
    <3>1. Len(opt.cases) \in Nat /\ C = {opt.cases[i] : i \in 1 .. Len(opt.cases)}
      BY ListFacts DEF ToSet
    <3>2. IsFiniteSet(1 .. Len(opt.cases))
      BY <3>1, FS_Interval
    <3> DEFINE f == [i \in 1 .. Len(opt.cases) |-> opt.cases[i]]
    <3>3. f \in [1 .. Len(opt.cases) -> C] /\ \A c \in C : \E i \in 1 .. Len(opt.cases) : f[i] = c
      BY <3>1
    <3> HIDE DEF f
    <3>4. f \in Surjection(1 .. Len(opt.cases), C)
      BY <3>3 DEF Surjection
    <3> QED
      BY <3>2, <3>4, FS_Surjection
  <2> HIDE DEF C
  <2>2. PICK S \in SUBSET C : values \in SetToSeqs(S)
    BY <1>4 DEF SetToAllKPermutations
  <2>3. Cardinality(S) \in Nat
    BY <2>1, FS_Subset, FS_CardinalityType
  <2>4. values \in [1 .. Cardinality(S) -> S]
    BY <2>2 DEF SetToSeqs
  <2>5. values \in Seq(S)
    BY <2>3, <2>4
  <2>6. values \in Seq(C)
    BY <2>5
  <2> QED
    BY <2>6 DEF C
<1> QED
  BY <1>1, <1>2, <1>3, <1>4

LEMMA EntryIsStored ==
    \A n, v, vs, ins : IsList(vs) => IsStored(Entry(n, v, vs, ins)) /\ Entry(n, v, vs, ins).name = n
BY DEF IsStored, Entry

LEMMA NothingIsList == IsList(<<>>)
BY EmptySeq DEF IsList

\* Every answer is an entry of its option and selects cases that are there.
LEMMA AnswersAre ==
    \A I, how : IsOptions(I.option) => \A o \in DOMAIN I.option : \A e \in Answers(I, o, how) :
        e.name = o /\ IsStored(e) /\ Selects(I.option[o], e)
<1> SUFFICES ASSUME NEW I, NEW how, IsOptions(I.option), NEW o \in DOMAIN I.option, NEW e \in Answers(I, o, how)
    PROVE  e.name = o /\ IsStored(e) /\ Selects(I.option[o], e)
  OBVIOUS
<1> DEFINE opt == I.option[o]
<1>1. IsList(opt.cases) /\ opt.kind \in {"select", "switch", "checkbox", "input"}
  BY DEF IsOptions
<1>2. CASE IsChoice(opt)
  <2>5. opt.kind # "checkbox" /\ opt.kind # "input"
    BY <1>2 DEF IsChoice
  <2>6. Answers(I, o, how) = {Entry(o, v, <<>>, NoInputs) : v \in PickCase(opt, how)}
    BY <1>2, <2>5 DEF Answers
  <2>1. PICK v \in PickCase(opt, how) : e = Entry(o, v, <<>>, NoInputs)
    BY <2>6
  <2>2. v \in ToSet(opt.cases)
    BY <1>1, PickedCaseIs
  <2>3. Chosen(opt, e) = <<v>>
    BY <1>2, <2>1, <2>5 DEF Chosen, Entry
  <2> HIDE DEF opt
  <2>4. <<v>> \in Seq(ToSet(opt.cases))
    BY <2>2
  <2> QED
    BY <2>1, <2>3, <2>4, NothingIsList, EntryIsStored DEF Selects, opt
<1>3. CASE opt.kind = "checkbox"
  <2>1. ~IsChoice(opt)
    BY <1>3 DEF IsChoice
  <2>2. PICK vs \in PickCases(opt, how) : e = Entry(o, NoValue, vs, NoInputs)
    BY <1>3, <2>1 DEF Answers
  <2>3. vs \in Seq(ToSet(opt.cases))
    BY <1>1, PickedCasesAre
  <2>4. Chosen(opt, e) = vs
    BY <1>3, <2>1, <2>2 DEF Chosen, Entry
  <2> HIDE DEF opt
  <2> QED
    BY <2>2, <2>3, <2>4, SeqIsList, EntryIsStored DEF Selects, opt
<1>4. CASE opt.kind = "input"
  <2>1. ~IsChoice(opt) /\ opt.kind # "checkbox"
    BY <1>4 DEF IsChoice
  <2>2. PICK ins \in TypeInputs(opt, how) : e = Entry(o, NoValue, <<>>, ins)
    BY <1>4, <2>1 DEF Answers
  <2>3. Chosen(opt, e) = <<>>
    BY <1>4, <2>1 DEF Chosen
  <2> HIDE DEF opt
  <2>4. <<>> \in Seq(ToSet(opt.cases))
    BY EmptySeq
  <2> QED
    BY <2>2, <2>3, <2>4, NothingIsList, EntryIsStored DEF Selects, opt
<1> QED
  BY <1>1, <1>2, <1>3, <1>4 DEF IsChoice

-----------------------------------------------------------------------------
(* Trees.                                                                   *)

AllAnswers(I, how) == UNION {Answers(I, o, how) : o \in DOMAIN I.option}

LEMMA SeqCloses == \A E : Closes(Seq(E))
BY EmptySeq, ConcatProperties DEF Closes

\* The lists for an option, when tree has those of its children.
Grown(tree, I, ctx, how, o) ==
    IF o \notin DOMAIN I.option THEN {}
    ELSE IF ~Fits(I.option[o], ctx) THEN {<<>>}
    ELSE UNION {{<<e>> \o rest : rest \in Forest(tree, Children(I.option[o], e))} : e \in Answers(I, o, how)}

\* The forest below an answer has the lists of the children.
LEMMA BelowAnswer ==
    \A I, how, T, tree : IsOptions(I.option) /\ Closes(T) => \A o \in DOMAIN I.option : \A e \in Answers(I, o, how) :
        (\A c \in Kids(I, o) : tree[c] \subseteq T) =>
            /\ Forest(tree, Children(I.option[o], e)) \subseteq T
            /\ \A other : (\A c \in Kids(I, o) : other[c] = tree[c]) =>
                   Forest(other, Children(I.option[o], e)) = Forest(tree, Children(I.option[o], e))
<1> SUFFICES ASSUME NEW I, NEW how, NEW T, NEW tree, IsOptions(I.option), Closes(T), NEW o \in DOMAIN I.option,
                    NEW e \in Answers(I, o, how), \A c \in Kids(I, o) : tree[c] \subseteq T
    PROVE  /\ Forest(tree, Children(I.option[o], e)) \subseteq T
           /\ \A other : (\A c \in Kids(I, o) : other[c] = tree[c]) =>
                  Forest(other, Children(I.option[o], e)) = Forest(tree, Children(I.option[o], e))
  OBVIOUS
<1> DEFINE names == Children(I.option[o], e)
<1>1. Selects(I.option[o], e)
  BY AnswersAre
<1>2. IsList(names) /\ ToSet(names) \subseteq Kids(I, o)
  BY <1>1, ChildrenAre
<1> HIDE DEF names
<1>3. \A c \in ToSet(names) : tree[c] \subseteq T
  BY <1>2
<1>4. /\ Forest(tree, names) \subseteq T
      /\ \A other : (\A c \in ToSet(names) : other[c] = tree[c]) => Forest(other, names) = Forest(tree, names)
  BY <1>2, <1>3, ForestFacts
<1> QED
  BY <1>2, <1>4 DEF names

LEMMA GrownIs ==
    \A I, ctx, how : IsOptions(I.option) => \A tree : \A o :
        (o \in DOMAIN I.option => \A c \in Kids(I, o) : tree[c] \subseteq Seq(AllAnswers(I, how))) =>
            /\ Grown(tree, I, ctx, how, o) \subseteq Seq(AllAnswers(I, how))
            /\ \A other : (o \in DOMAIN I.option => \A c \in Kids(I, o) : other[c] = tree[c]) =>
                   Grown(other, I, ctx, how, o) = Grown(tree, I, ctx, how, o)
<1> SUFFICES ASSUME NEW I, NEW ctx, NEW how, IsOptions(I.option), NEW tree, NEW o,
                    o \in DOMAIN I.option => \A c \in Kids(I, o) : tree[c] \subseteq Seq(AllAnswers(I, how))
    PROVE  /\ Grown(tree, I, ctx, how, o) \subseteq Seq(AllAnswers(I, how))
           /\ \A other : (o \in DOMAIN I.option => \A c \in Kids(I, o) : other[c] = tree[c]) =>
                  Grown(other, I, ctx, how, o) = Grown(tree, I, ctx, how, o)
  OBVIOUS
<1> DEFINE E == AllAnswers(I, how)
<1>1. CASE o \notin DOMAIN I.option
  BY <1>1 DEF Grown
<1>2. CASE o \in DOMAIN I.option /\ ~Fits(I.option[o], ctx)
  <2>1. Grown(tree, I, ctx, how, o) = {<<>>} /\ \A other : Grown(other, I, ctx, how, o) = {<<>>}
    BY <1>2 DEF Grown
  <2>2. <<>> \in Seq(E)
    BY EmptySeq
  <2> QED
    BY <2>1, <2>2
<1>3. CASE o \in DOMAIN I.option /\ Fits(I.option[o], ctx)
  <2> DEFINE A == Answers(I, o, how)
             F(t, e) == Forest(t, Children(I.option[o], e))
             From(e, rests) == {<<e>> \o rest : rest \in rests}
  <2>1. \A t : Grown(t, I, ctx, how, o) = UNION {From(e, F(t, e)) : e \in A}
    BY <1>3 DEF Grown
  <2>2. A \subseteq E
    BY <1>3 DEF AllAnswers
  <2>3. ASSUME NEW e \in A
        PROVE  /\ F(tree, e) \subseteq Seq(E)
               /\ \A other : (\A c \in Kids(I, o) : other[c] = tree[c]) => F(other, e) = F(tree, e)
    <3>1. Closes(Seq(E))
      BY SeqCloses
    <3> QED
      BY <1>3, <3>1, BelowAnswer
  <2>6. \A e, rests : \A l : l \in From(e, rests) <=> \E rest \in rests : l = <<e>> \o rest
    OBVIOUS
  <2> HIDE DEF A, F, E, From
  <2>4. ASSUME NEW l \in Grown(tree, I, ctx, how, o) PROVE l \in Seq(E)
    <3>1. PICK e \in A : l \in From(e, F(tree, e))
      BY <2>1
    <3>2. PICK rest \in F(tree, e) : l = <<e>> \o rest
      BY <2>6, <3>1
    <3>3. <<e>> \in Seq(E) /\ rest \in Seq(E)
      BY <2>2, <2>3
    <3> QED
      BY <3>2, <3>3, ConcatProperties
  <2>5. ASSUME NEW other, \A c \in Kids(I, o) : other[c] = tree[c]
        PROVE  Grown(other, I, ctx, how, o) = Grown(tree, I, ctx, how, o)
    <3>1. \A e \in A : F(other, e) = F(tree, e)
      BY <2>3, <2>5
    <3>2. \A e \in A : From(e, F(other, e)) = From(e, F(tree, e))
      BY <3>1
    <3>3. UNION {From(e, F(other, e)) : e \in A} = UNION {From(e, F(tree, e)) : e \in A}
      BY <3>2
    <3> QED
      BY <2>1, <3>3
  <2> QED
    BY <1>3, <2>4, <2>5 DEF E
<1> QED
  BY <1>1, <1>2, <1>3

\* Trees has, for every option, the lists that grow from those of its children.
LEMMA TreesGrow ==
    \A I, ctx, how : IsOptions(I.option) /\ EndsEverywhere(I) =>
        \A o \in STRING : Trees(I, ctx, how)[o] = Grown(Trees(I, ctx, how), I, ctx, how, o)
<1> SUFFICES ASSUME NEW I, NEW ctx, NEW how, IsOptions(I.option), EndsEverywhere(I)
    PROVE  \A o \in STRING : Trees(I, ctx, how)[o] = Grown(Trees(I, ctx, how), I, ctx, how, o)
  OBVIOUS
<1>0. ASSUME NEW t, NEW o, o \in DOMAIN I.option => \A c \in Kids(I, o) : t[c] \subseteq Seq(AllAnswers(I, how))
      PROVE  /\ Grown(t, I, ctx, how, o) \subseteq Seq(AllAnswers(I, how))
             /\ \A other : (o \in DOMAIN I.option => \A c \in Kids(I, o) : other[c] = t[c]) =>
                    Grown(other, I, ctx, how, o) = Grown(t, I, ctx, how, o)
  BY <1>0, GrownIs
<1> DEFINE E == AllAnswers(I, how)
           V == SUBSET Seq(E)
           P == [STRING -> V]
           N == Cardinality(DOMAIN I.option)
           Row(t) == [o \in STRING |-> Grown(t, I, ctx, how, o)]
           F == [t \in P |-> Row(t)]
<1>1. DOMAIN I.option \subseteq STRING
  BY DEF IsOptions
<1>2. N \in Nat
  BY RanksFall
<1>3. PICK rank \in [STRING -> 0 .. N] : Ranks(rank, I)
  BY RanksFall
<1>4. \A o \in DOMAIN I.option : Kids(I, o) \subseteq STRING
  BY <1>1 DEF EndsEverywhere, Kids
<1>5. ASSUME NEW t \in P, NEW o \in STRING
      PROVE  /\ Grown(t, I, ctx, how, o) \in V
             /\ \A other : (o \in DOMAIN I.option => \A c \in Kids(I, o) : other[c] = t[c]) =>
                    Grown(other, I, ctx, how, o) = Grown(t, I, ctx, how, o)
  <2>1. o \in DOMAIN I.option => \A c \in Kids(I, o) : t[c] \subseteq Seq(E)
    BY <1>4
  <2> QED
    BY <1>0, <2>1
<1>6. ASSUME NEW t \in P PROVE Row(t) \in P
  BY <1>5
<1> HIDE DEF V, N
<1>7. F \in [P -> P]
  <2> HIDE DEF P, Row
  <2> QED
    BY <1>6
<1>8. ASSUME NEW t \in P, NEW u \in P, NEW o \in STRING, \A c \in STRING : rank[c] < rank[o] => t[c] = u[c]
      PROVE  F[t][o] = F[u][o]
  <2>1. o \in DOMAIN I.option => \A c \in Kids(I, o) : t[c] = u[c]
    BY <1>3, <1>4, <1>8 DEF Ranks
  <2>2. Grown(t, I, ctx, how, o) = Grown(u, I, ctx, how, o)
    BY <1>5, <2>1
  <2> HIDE DEF P
  <2>3. F[t] = Row(t) /\ F[u] = Row(u)
    OBVIOUS
  <2> HIDE DEF F
  <2> QED
    BY <2>2, <2>3
<1>9. P # {}
  <2>1. {} \in V
    BY DEF V
  <2>2. [o \in STRING |-> {}] \in P
    BY <2>1
  <2> QED
    BY <2>2
<1>10. LooksDown(F, P, STRING, V, rank, N)
  <2>1. P \subseteq [STRING -> V]
    OBVIOUS
  <2> HIDE DEF F, P
  <2> QED
    BY <1>2, <1>7, <1>8, <1>9, <2>1 DEF LooksDown
<1>11. PICK t \in P : F[t] = t
  <2> HIDE DEF F, P
  <2> QED
    BY <1>10, Fixpoint
<1>12. t = Row(t)
  <2> HIDE DEF P, Row
  <2> QED
    BY <1>11
<1> DEFINE tree == Trees(I, ctx, how)
<1>13. tree = Row(tree)
  <2>1. t = [o \in STRING |->
                IF o \notin DOMAIN I.option THEN {}
                ELSE IF ~Fits(I.option[o], ctx) THEN {<<>>}
                ELSE UNION {{<<e>> \o rest : rest \in Forest(t, Children(I.option[o], e))} : e \in Answers(I, o, how)}]
    BY <1>12 DEF Grown
  <2>2. tree = [o \in STRING |->
                IF o \notin DOMAIN I.option THEN {}
                ELSE IF ~Fits(I.option[o], ctx) THEN {<<>>}
                ELSE UNION {{<<e>> \o rest : rest \in Forest(tree, Children(I.option[o], e))} : e \in Answers(I, o, how)}]
    BY <2>1 DEF Trees
  <2> QED
    BY <2>2 DEF Grown
<1> HIDE DEF tree
<1>14. \A o \in STRING : tree[o] = Grown(tree, I, ctx, how, o)
  BY <1>13
<1> QED
  BY <1>14 DEF tree

-----------------------------------------------------------------------------
(* What grows.                                                              *)

\* T has the lists over E that grow from the entries V gives the options:
\* nothing where one does not apply, else an entry and, behind it, the lists T
\* has for its children.
Bears(T, I, ctx, V, E) ==
    /\ T \in [STRING -> SUBSET Seq(E)]
    /\ \A o \in DOMAIN I.option :
           /\ ~Fits(I.option[o], ctx) => <<>> \in T[o]
           /\ Fits(I.option[o], ctx) =>
                  \A e \in V[o] : \A rest \in Forest(T, Children(I.option[o], e)) : <<e>> \o rest \in T[o]

\* Then it has the lists of process_option, when V has its answers: whatever
\* holds of nothing and is kept by putting an entry in front of the subtrees of
\* its cases holds of every list the menu makes.
LEMMA TreesBorne ==
    \A I, ctx, how, T, V, E :
        /\ IsOptions(I.option) /\ EndsEverywhere(I) /\ Bears(T, I, ctx, V, E)
        /\ \A o \in DOMAIN I.option : Answers(I, o, how) \subseteq V[o]
        => \A o \in STRING : Trees(I, ctx, how)[o] \subseteq T[o]
<1> SUFFICES ASSUME NEW I, NEW ctx, NEW how, NEW T, NEW V, NEW E,
                    IsOptions(I.option), EndsEverywhere(I), Bears(T, I, ctx, V, E),
                    \A o \in DOMAIN I.option : Answers(I, o, how) \subseteq V[o]
    PROVE  \A o \in STRING : Trees(I, ctx, how)[o] \subseteq T[o]
  OBVIOUS
<1> DEFINE tree == Trees(I, ctx, how)
           N == Cardinality(DOMAIN I.option)
           S == {o \in STRING : tree[o] \subseteq T[o]}
<1>1. \A o \in DOMAIN I.option : Kids(I, o) \subseteq STRING
  BY DEF IsOptions, EndsEverywhere, Kids
<1>2. N \in Nat
  BY RanksFall
<1>3. PICK rank \in [STRING -> 0 .. N] : Ranks(rank, I)
  BY RanksFall
<1>4. \A o \in STRING : tree[o] = Grown(tree, I, ctx, how, o)
  BY TreesGrow
<1>5. \A o \in STRING : T[o] \subseteq Seq(E)
  BY DEF Bears
<1> HIDE DEF tree, N
<1>6. ASSUME NEW o \in STRING, \A c \in STRING : rank[c] < rank[o] => c \in S PROVE o \in S
  <2>1. CASE o \notin DOMAIN I.option
    BY <1>4, <2>1 DEF Grown
  <2>2. CASE o \in DOMAIN I.option /\ ~Fits(I.option[o], ctx)
    BY <1>4, <2>2 DEF Grown, Bears
  <2>3. CASE o \in DOMAIN I.option /\ Fits(I.option[o], ctx)
    <3>1. \A c \in Kids(I, o) : tree[c] \subseteq T[c] /\ T[c] \subseteq Seq(E)
      BY <1>1, <1>3, <1>5, <1>6, <2>3 DEF Ranks
    <3>2. ASSUME NEW e \in Answers(I, o, how), NEW rest \in Forest(tree, Children(I.option[o], e))
          PROVE  <<e>> \o rest \in T[o]
      <4> DEFINE names == Children(I.option[o], e)
      <4>1. Selects(I.option[o], e)
        BY <2>3, AnswersAre
      <4>2. IsList(names) /\ ToSet(names) \subseteq Kids(I, o)
        BY <2>3, <4>1, ChildrenAre
      <4>3. e \in V[o] /\ rest \in Forest(tree, names)
        BY <2>3
      <4> HIDE DEF names
      <4>4. \A c \in ToSet(names) : tree[c] \subseteq T[c] /\ T[c] \subseteq Seq(E)
        BY <3>1, <4>2
      <4>5. Forest(tree, names) \subseteq Forest(T, names)
        BY <4>2, <4>4, SeqCloses, ForestWithin
      <4>6. rest \in Forest(T, Children(I.option[o], e))
        BY <4>3, <4>5 DEF names
      <4> QED
        BY <2>3, <4>3, <4>6 DEF Bears
    <3> DEFINE From(e) == {<<e>> \o rest : rest \in Forest(tree, Children(I.option[o], e))}
    <3>3. tree[o] = UNION {From(e) : e \in Answers(I, o, how)}
      BY <1>4, <2>3 DEF Grown
    <3>4. \A e \in Answers(I, o, how) : From(e) \subseteq T[o]
      BY <3>2
    <3> HIDE DEF From
    <3> QED
      BY <3>3, <3>4
  <2> QED
    BY <2>1, <2>2, <2>3
<1> HIDE DEF S
<1>7. STRING \subseteq S
  BY <1>2, <1>6, RankInduction
<1> QED
  BY <1>7 DEF S, tree

-----------------------------------------------------------------------------
(* Complete lists.                                                          *)

\* Each of the options, as far as it applies, has an entry in the list.
Meets(I, ctx, names, list) ==
    names \subseteq DOMAIN I.option /\ \A o \in names : Fits(I.option[o], ctx) => \E e \in ToSet(list) : e.name = o

\* So have the children of each entry, and it selects cases that are there.
IsComplete(I, ctx, list) ==
    \A e \in ToSet(list) :
        /\ e.name \in DOMAIN I.option /\ IsStored(e)
        /\ Selects(I.option[e.name], e)
        /\ Meets(I, ctx, ToSet(Children(I.option[e.name], e)), list)

CompleteLists(I, ctx, E, names) == {l \in Seq(E) : IsComplete(I, ctx, l) /\ Meets(I, ctx, names, l)}

LEMMA CompleteJoins ==
    \A I, ctx, E, A, B : \A s \in CompleteLists(I, ctx, E, A) : \A t \in CompleteLists(I, ctx, E, B) :
        s \o t \in CompleteLists(I, ctx, E, A \cup B)
<1> SUFFICES ASSUME NEW I, NEW ctx, NEW E, NEW A, NEW B,
                    NEW s \in CompleteLists(I, ctx, E, A), NEW t \in CompleteLists(I, ctx, E, B)
    PROVE  s \o t \in CompleteLists(I, ctx, E, A \cup B)
  OBVIOUS
<1> DEFINE u == s \o t
<1>1. /\ s \in Seq(E) /\ IsComplete(I, ctx, s) /\ Meets(I, ctx, A, s)
      /\ t \in Seq(E) /\ IsComplete(I, ctx, t) /\ Meets(I, ctx, B, t)
  BY DEF CompleteLists
<1>2. u \in Seq(E) /\ ToSet(u) = ToSet(s) \cup ToSet(t)
  BY <1>1, ConcatRange
<1> HIDE DEF u
<1>3. \A names : Meets(I, ctx, names, s) \/ Meets(I, ctx, names, t) => Meets(I, ctx, names, u)
  BY <1>2 DEF Meets
<1>4. Meets(I, ctx, A \cup B, u)
  BY <1>1, <1>2 DEF Meets
<1>5. IsComplete(I, ctx, u)
  BY <1>1, <1>2, <1>3 DEF IsComplete
<1> QED
  BY <1>2, <1>4, <1>5 DEF CompleteLists, u

LEMMA NothingCompletes == \A I, ctx, E : <<>> \in CompleteLists(I, ctx, E, {})
<1> SUFFICES ASSUME NEW I, NEW ctx, NEW E PROVE <<>> \in CompleteLists(I, ctx, E, {})
  OBVIOUS
<1>1. ToSet(<<>>) = {}
  BY DEF ToSet
<1>2. IsComplete(I, ctx, <<>>) /\ Meets(I, ctx, {}, <<>>)
  BY <1>1 DEF IsComplete, Meets
<1>3. <<>> \in Seq(E)
  BY EmptySeq
<1> QED
  BY <1>2, <1>3 DEF CompleteLists

\* A forest of complete trees is complete and has all of its options.
LEMMA ForestCompletes ==
    \A I, ctx, E, tree, names :
        IsList(names) /\ (\A o \in ToSet(names) : tree[o] \subseteq CompleteLists(I, ctx, E, {o})) =>
            Forest(tree, names) \subseteq CompleteLists(I, ctx, E, ToSet(names))
<1> SUFFICES ASSUME NEW I, NEW ctx, NEW E, NEW tree, NEW names, IsList(names),
                    \A o \in ToSet(names) : tree[o] \subseteq CompleteLists(I, ctx, E, {o})
    PROVE  Forest(tree, names) \subseteq CompleteLists(I, ctx, E, ToSet(names))
  OBVIOUS
<1> DEFINE N == Len(names)
<1>1. N \in Nat /\ DOMAIN names = 1 .. N /\ \A n \in 1 .. N : names[n] \in ToSet(names)
  BY ListFacts
<1>2. \A o \in ToSet(names) : tree[o] \subseteq Seq(E)
  BY DEF CompleteLists
<1>3. PICK f : Planted(f, Seq(E), tree, names)
  BY <1>2, SeqCloses, ForestGoes
<1>4. f[0] = {<<>>} /\ (\A n \in 1 .. N : f[n] = Joined(f[n - 1], tree[names[n]])) /\ Forest(tree, names) = f[N]
  BY <1>3 DEF Planted, Plants
<1> HIDE DEF N
<1> DEFINE Upto(n) == {names[i] : i \in 1 .. n}
           S == {n \in 0 .. N : f[n] \subseteq CompleteLists(I, ctx, E, Upto(n))}
<1>5. 0 \in S
  <2>1. Upto(0) = {}
    OBVIOUS
  <2>2. <<>> \in CompleteLists(I, ctx, E, Upto(0))
    BY <2>1, NothingCompletes
  <2> HIDE DEF Upto
  <2>3. \A l \in f[0] : l = <<>>
    BY <1>4
  <2>4. f[0] \subseteq CompleteLists(I, ctx, E, Upto(0))
    BY <2>2, <2>3
  <2> QED
    BY <1>1, <2>4
<1>6. ASSUME NEW n \in Nat, n < N, n \in S PROVE n + 1 \in S
  <2>1. n + 1 \in 0 .. N /\ n + 1 \in 1 .. N /\ (n + 1) - 1 = n
    BY <1>1, <1>6
  <2>2. f[n + 1] = Joined(f[n], tree[names[n + 1]])
    BY <1>4, <2>1
  <2>3. Upto(n + 1) = Upto(n) \cup {names[n + 1]}
    <3>1. 1 .. n + 1 = (1 .. n) \cup {n + 1}
      BY <2>1
    <3> QED
      BY <3>1
  <2> HIDE DEF Upto
  <2>4. f[n] \subseteq CompleteLists(I, ctx, E, Upto(n))
    BY <1>6
  <2>5. tree[names[n + 1]] \subseteq CompleteLists(I, ctx, E, {names[n + 1]})
    BY <1>1, <2>1
  <2>6. ASSUME NEW l \in f[n + 1] PROVE l \in CompleteLists(I, ctx, E, Upto(n + 1))
    <3>1. PICK done \in f[n] : \E more \in tree[names[n + 1]] : l = done \o more
      BY <2>2, JoinedAre
    <3>2. PICK more \in tree[names[n + 1]] : l = done \o more
      BY <3>1
    <3>3. done \in CompleteLists(I, ctx, E, Upto(n)) /\ more \in CompleteLists(I, ctx, E, {names[n + 1]})
      BY <2>4, <2>5
    <3>4. done \o more \in CompleteLists(I, ctx, E, Upto(n) \cup {names[n + 1]})
      BY <3>3, CompleteJoins
    <3> QED
      BY <2>3, <3>2, <3>4
  <2> QED
    BY <2>1, <2>6
<1> HIDE DEF S
<1>7. 0 .. N \subseteq S
  BY <1>1, <1>5, <1>6, UpTo
<1>8. Upto(N) = ToSet(names)
  BY <1>1 DEF ToSet
<1> HIDE DEF Upto
<1>9. f[N] \subseteq CompleteLists(I, ctx, E, Upto(N))
  BY <1>1, <1>7 DEF S
<1> QED
  BY <1>4, <1>8, <1>9

\* An entry in front of the lists of its children.
LEMMA EntryCompletes ==
    \A I, ctx, E : \A e \in E :
        e.name \in DOMAIN I.option /\ IsStored(e) /\ Selects(I.option[e.name], e) =>
            \A rest \in CompleteLists(I, ctx, E, ToSet(Children(I.option[e.name], e))) :
                <<e>> \o rest \in CompleteLists(I, ctx, E, {e.name})
<1> SUFFICES ASSUME NEW I, NEW ctx, NEW E, NEW e \in E, e.name \in DOMAIN I.option, IsStored(e),
                    Selects(I.option[e.name], e),
                    NEW rest \in CompleteLists(I, ctx, E, ToSet(Children(I.option[e.name], e)))
    PROVE  <<e>> \o rest \in CompleteLists(I, ctx, E, {e.name})
  OBVIOUS
<1> DEFINE K == ToSet(Children(I.option[e.name], e))
           u == <<e>> \o rest
<1>1. rest \in Seq(E) /\ IsComplete(I, ctx, rest) /\ Meets(I, ctx, K, rest)
  BY DEF CompleteLists
<1>2. <<e>> \in Seq(E) /\ ToSet(<<e>>) = {e}
  BY DEF ToSet
<1>3. u \in Seq(E) /\ ToSet(u) = {e} \cup ToSet(rest)
  <2> DEFINE s == <<e>>
  <2>1. s \in Seq(E) /\ ToSet(s) = {e}
    BY <1>2
  <2> HIDE DEF s
  <2>2. s \o rest \in Seq(E) /\ ToSet(s \o rest) = ToSet(s) \cup ToSet(rest)
    BY <1>1, <2>1, ConcatRange
  <2> QED
    BY <2>1, <2>2 DEF s
<1> HIDE DEF u
<1>4. \A names : Meets(I, ctx, names, rest) => Meets(I, ctx, names, u)
  BY <1>3 DEF Meets
<1>5. Meets(I, ctx, {e.name}, u)
  BY <1>3 DEF Meets
<1>6. IsComplete(I, ctx, u)
  BY <1>1, <1>3, <1>4 DEF IsComplete
<1> QED
  BY <1>3, <1>5, <1>6 DEF CompleteLists, u

\* Complete lists grow from entries that select cases of their option.
LEMMA CompleteBears ==
    \A I, ctx, V, E :
        /\ IsOptions(I.option) /\ EndsEverywhere(I)
        /\ \A o \in DOMAIN I.option : \A e \in V[o] :
               e \in E /\ e.name = o /\ IsStored(e) /\ Selects(I.option[o], e)
        => Bears([o \in STRING |-> CompleteLists(I, ctx, E, {o})], I, ctx, V, E)
<1> SUFFICES ASSUME NEW I, NEW ctx, NEW V, NEW E, IsOptions(I.option), EndsEverywhere(I),
                    \A o \in DOMAIN I.option : \A e \in V[o] :
                        e \in E /\ e.name = o /\ IsStored(e) /\ Selects(I.option[o], e)
    PROVE  Bears([o \in STRING |-> CompleteLists(I, ctx, E, {o})], I, ctx, V, E)
  OBVIOUS
<1> DEFINE T == [o \in STRING |-> CompleteLists(I, ctx, E, {o})]
<1>1. \A o \in STRING : CompleteLists(I, ctx, E, {o}) \subseteq Seq(E)
  BY DEF CompleteLists
<1>2. T \in [STRING -> SUBSET Seq(E)] /\ \A o \in STRING : T[o] = CompleteLists(I, ctx, E, {o})
  BY <1>1
<1> HIDE DEF T
<1>3. \A o \in DOMAIN I.option : Kids(I, o) \subseteq STRING /\ o \in STRING
  BY DEF IsOptions, EndsEverywhere, Kids
<1>4. ASSUME NEW o \in DOMAIN I.option, ~Fits(I.option[o], ctx) PROVE <<>> \in T[o]
  <2>1. Meets(I, ctx, {o}, <<>>)
    BY <1>4 DEF Meets
  <2>2. <<>> \in CompleteLists(I, ctx, E, {o})
    BY <2>1, NothingCompletes DEF CompleteLists
  <2> QED
    BY <1>2, <1>3, <2>2
<1>5. ASSUME NEW o \in DOMAIN I.option, NEW e \in V[o], NEW rest \in Forest(T, Children(I.option[o], e))
      PROVE  <<e>> \o rest \in T[o]
  <2> DEFINE names == Children(I.option[o], e)
  <2>1. e \in E /\ e.name = o /\ IsStored(e) /\ Selects(I.option[o], e)
    OBVIOUS
  <2>2. IsList(names) /\ ToSet(names) \subseteq Kids(I, o)
    BY <2>1, ChildrenAre
  <2> HIDE DEF names
  <2>3. \A c \in ToSet(names) : T[c] \subseteq CompleteLists(I, ctx, E, {c})
    BY <1>2, <1>3, <2>2
  <2>4. Forest(T, names) \subseteq CompleteLists(I, ctx, E, ToSet(names))
    BY <2>2, <2>3, ForestCompletes
  <2>5. rest \in CompleteLists(I, ctx, E, ToSet(Children(I.option[e.name], e)))
    BY <2>1, <2>4 DEF names
  <2>6. <<e>> \o rest \in CompleteLists(I, ctx, E, {e.name})
    BY <2>1, <2>5, EntryCompletes
  <2> QED
    BY <1>2, <1>3, <2>1, <2>6
<1>6. Bears(T, I, ctx, V, E)
  BY <1>2, <1>4, <1>5 DEF Bears
<1> QED
  BY <1>6 DEF T

\* What process_option appends for an option is complete: wherever an option was
\* answered, the children of the answer that apply were asked as well.
LEMMA TreesComplete ==
    \A I, ctx, how : IsOptions(I.option) /\ EndsEverywhere(I) =>
        \A o \in STRING : Trees(I, ctx, how)[o] \subseteq CompleteLists(I, ctx, AllAnswers(I, how), {o})
<1> SUFFICES ASSUME NEW I, NEW ctx, NEW how, IsOptions(I.option), EndsEverywhere(I)
    PROVE  \A o \in STRING : Trees(I, ctx, how)[o] \subseteq CompleteLists(I, ctx, AllAnswers(I, how), {o})
  OBVIOUS
<1> DEFINE E == AllAnswers(I, how)
           V == [o \in DOMAIN I.option |-> Answers(I, o, how)]
           T == [o \in STRING |-> CompleteLists(I, ctx, E, {o})]
<1>1. \A o \in DOMAIN I.option : V[o] = Answers(I, o, how) /\ V[o] \subseteq E
  BY DEF AllAnswers
<1>2. \A o \in STRING : T[o] = CompleteLists(I, ctx, E, {o})
  OBVIOUS
<1> HIDE DEF E, V
<1>3. \A o \in DOMAIN I.option : \A e \in V[o] :
          e \in E /\ e.name = o /\ IsStored(e) /\ Selects(I.option[o], e)
  BY <1>1, AnswersAre
<1>4. Bears(T, I, ctx, V, E)
  BY <1>3, CompleteBears
<1> HIDE DEF T
<1>5. \A o \in DOMAIN I.option : Answers(I, o, how) \subseteq V[o]
  BY <1>1
<1>6. IsOptions(I.option) /\ EndsEverywhere(I) /\ Bears(T, I, ctx, V, E)
  BY <1>4
<1>7. \A o \in STRING : Trees(I, ctx, how)[o] \subseteq T[o]
  BY ONLY <1>5, <1>6, TreesBorne
<1> QED
  BY <1>2, <1>7 DEF E

-----------------------------------------------------------------------------
(* What a pretask is given.                                                 *)

\* The first entry of an option that has one.
LEMMA FirstIs ==
    \A list : IsList(list) => \A o :
        Occurrences(list, o) # {} =>
            First(list, o) \in DOMAIN list /\ list[First(list, o)] \in ToSet(list) /\ list[First(list, o)].name = o
<1> SUFFICES ASSUME NEW list, IsList(list), NEW o, Occurrences(list, o) # {}
    PROVE  First(list, o) \in DOMAIN list /\ list[First(list, o)] \in ToSet(list) /\ list[First(list, o)].name = o
  OBVIOUS
<1> DEFINE S == Occurrences(list, o)
<1>1. DOMAIN list = 1 .. Len(list) /\ Len(list) \in Nat /\ \A i \in 1 .. Len(list) : list[i] \in ToSet(list)
  BY ListFacts
<1>2. \A i \in S : i \in DOMAIN list /\ list[i].name = o
  BY DEF Occurrences
<1>3. S \in SUBSET Nat /\ S # {}
  BY <1>1, <1>2
<1> HIDE DEF S
<1>4. \E i \in S : \A j \in S : i <= j
  BY <1>3, Least
<1>5. First(list, o) = CHOOSE i \in S : \A j \in S : i <= j
  BY DEF First, S
<1>6. First(list, o) \in S
  BY <1>4, <1>5
<1> QED
  BY <1>1, <1>2, <1>6

LEMMA OccursIn == \A list, o : Occurrences(list, o) # {} <=> \E e \in ToSet(list) : e.name = o
BY DEF Occurrences, ToSet

\* What is asked of the entry of an option.
CasesExist(opt, e) ==
    CASE IsChoice(opt)         -> e.value \in ToSet(opt.cases)
      [] opt.kind = "checkbox" -> ToSet(e.values) \subseteq ToSet(opt.cases)
      [] opt.kind = "input"    -> TRUE

\* An entry that selects cases of its option passes.
LEMMA SelectsExists ==
    \A opt, e : Selects(opt, e) /\ opt.kind \in {"select", "switch", "checkbox", "input"} => CasesExist(opt, e)
<1> SUFFICES ASSUME NEW opt, NEW e, Selects(opt, e), opt.kind \in {"select", "switch", "checkbox", "input"}
    PROVE  CasesExist(opt, e)
  OBVIOUS
<1> DEFINE C == ToSet(opt.cases)
<1>1. CASE IsChoice(opt)
  <2>1. opt.kind # "checkbox" /\ opt.kind # "input"
    BY <1>1 DEF IsChoice
  <2>2. <<e.value>> \in Seq(C)
    BY <1>1, <2>1 DEF Selects, Chosen
  <2> HIDE DEF C
  <2>3. e.value \in C
    <3> DEFINE s == <<e.value>>
    <3>1. s \in Seq(C) /\ Len(s) = 1 /\ s[1] = e.value
      BY <2>2
    <3> HIDE DEF s
    <3>2. s[1] \in C
      BY <3>1
    <3> QED
      BY <3>1, <3>2
  <2> QED
    BY <1>1, <2>1, <2>3 DEF C, CasesExist
<1>2. CASE opt.kind = "checkbox"
  <2>1. ~IsChoice(opt)
    BY <1>2 DEF IsChoice
  <2>2. e.values \in Seq(C)
    BY <1>2, <2>1 DEF Selects, Chosen
  <2>3. ToSet(e.values) \subseteq C
    <3> HIDE DEF C
    <3> QED
      BY <2>2, SeqIsList
  <2> QED
    BY <1>2, <2>1, <2>3 DEF CasesExist
<1>3. CASE opt.kind = "input"
  <2>1. ~IsChoice(opt) /\ opt.kind # "checkbox"
    BY <1>3 DEF IsChoice
  <2> QED
    BY <1>3, <2>1 DEF CasesExist
<1> QED
  BY <1>1, <1>2, <1>3 DEF IsChoice

\* What the walk asks of an option, when given has it for those of its children.
Passes(given, I, ctx, list, o) ==
    /\ o \in DOMAIN I.option
    /\ Fits(I.option[o], ctx) =>
           /\ Occurrences(list, o) # {}
           /\ CasesExist(I.option[o], list[First(list, o)])
           /\ \A c \in ToSet(Children(I.option[o], list[First(list, o)])) : given[c]

\* In a complete list only the children can be missing, and they are not.
LEMMA CompletePasses ==
    \A I, ctx, list : IsOptions(I.option) /\ IsList(list) /\ IsComplete(I, ctx, list) =>
        \A o : Meets(I, ctx, {o}, list) => \A given :
            (o \in DOMAIN I.option => \A c \in Kids(I, o) : Meets(I, ctx, {c}, list) => given[c]) =>
                Passes(given, I, ctx, list, o)
<1> SUFFICES ASSUME NEW I, NEW ctx, NEW list, IsOptions(I.option), IsList(list), IsComplete(I, ctx, list),
                    NEW o, Meets(I, ctx, {o}, list), NEW given,
                    o \in DOMAIN I.option => \A c \in Kids(I, o) : Meets(I, ctx, {c}, list) => given[c]
    PROVE  Passes(given, I, ctx, list, o)
  OBVIOUS
<1>1. o \in DOMAIN I.option
  BY DEF Meets
<1>2. CASE ~Fits(I.option[o], ctx)
  BY <1>1, <1>2 DEF Passes
<1>3. CASE Fits(I.option[o], ctx)
  <2> DEFINE e == list[First(list, o)]
  <2>1. Occurrences(list, o) # {}
    BY <1>3, OccursIn DEF Meets
  <2>2. e \in ToSet(list) /\ e.name = o
    BY <2>1, FirstIs
  <2> HIDE DEF e
  <2>3. Selects(I.option[o], e) /\ Meets(I, ctx, ToSet(Children(I.option[o], e)), list)
    BY <2>2 DEF IsComplete
  <2>4. I.option[o].kind \in {"select", "switch", "checkbox", "input"}
    BY <1>1 DEF IsOptions
  <2>5. CasesExist(I.option[o], e)
    BY <2>3, <2>4, SelectsExists
  <2>6. ToSet(Children(I.option[o], e)) \subseteq Kids(I, o)
    BY <1>1, <2>3, ChildrenAre
  <2>7. \A c \in ToSet(Children(I.option[o], e)) : given[c]
    BY <1>1, <2>3, <2>6 DEF Meets
  <2> QED
    BY <1>1, <2>1, <2>5, <2>7 DEF Passes, e
<1> QED
  BY <1>2, <1>3

\* A pretask is given the values of every option of a complete list that has its own.
LEMMA CompleteSerializes ==
    \A I, ctx, roots, list :
        /\ IsOptions(I.option) /\ EndsEverywhere(I)
        /\ IsList(list) /\ IsComplete(I, ctx, list) /\ Meets(I, ctx, ToSet(roots), list)
        => Serializable(I, ctx, roots, list)
<1> SUFFICES ASSUME NEW I, NEW ctx, NEW roots, NEW list, IsOptions(I.option), EndsEverywhere(I),
                    IsList(list), IsComplete(I, ctx, list), Meets(I, ctx, ToSet(roots), list)
    PROVE  Serializable(I, ctx, roots, list)
  OBVIOUS
<1> DEFINE given == CHOOSE g : g = [o \in STRING |-> Passes(g, I, ctx, list, o)]
           w == [o \in STRING |-> Meets(I, ctx, {o}, list)]
           N == Cardinality(DOMAIN I.option)
           S == {o \in STRING : Meets(I, ctx, {o}, list) => given[o]}
<1>1. DOMAIN I.option \subseteq STRING /\ \A o \in DOMAIN I.option : Kids(I, o) \subseteq DOMAIN I.option
  BY DEF IsOptions, EndsEverywhere, Kids
<1>2. N \in Nat
  BY RanksFall
<1>3. PICK rank \in [STRING -> 0 .. N] : Ranks(rank, I)
  BY RanksFall
<1>4. given = [o \in STRING |-> Passes(given, I, ctx, list, o)]
  <2>1. ASSUME NEW o \in STRING PROVE Meets(I, ctx, {o}, list) <=> Passes(w, I, ctx, list, o)
    <3>1. ASSUME Meets(I, ctx, {o}, list) PROVE Passes(w, I, ctx, list, o)
      <4>1. o \in DOMAIN I.option => \A c \in Kids(I, o) : Meets(I, ctx, {c}, list) => w[c]
        BY <1>1
      <4> HIDE DEF w
      <4> QED
        BY <3>1, <4>1, CompletePasses
    <3>2. ASSUME Passes(w, I, ctx, list, o) PROVE Meets(I, ctx, {o}, list)
      BY <3>2, OccursIn DEF Passes, Meets
    <3> QED
      BY <3>1, <3>2
  <2>2. w = [o \in STRING |-> Passes(w, I, ctx, list, o)]
    <3> DEFINE M(o) == Meets(I, ctx, {o}, list)
               Q(o) == Passes(w, I, ctx, list, o)
    <3>1. \A o \in STRING : M(o) = Q(o)
      <4>1. \A o \in STRING : M(o) \in BOOLEAN /\ Q(o) \in BOOLEAN
        BY DEF Meets, Passes
      <4> QED
        BY <2>1, <4>1
    <3> HIDE DEF M, Q, w
    <3>2. [o \in STRING |-> M(o)] = [o \in STRING |-> Q(o)]
      BY <3>1
    <3> QED
      BY <3>2 DEF M, Q, w
  <2> HIDE DEF w
  <2> QED
    BY <2>2
<1>5. Serializable(I, ctx, roots, list) = \A r \in ToSet(roots) : given[r]
  BY DEF Serializable, Passes, CasesExist
<1> HIDE DEF given, w, N
<1>6. ASSUME NEW o \in STRING, \A c \in STRING : rank[c] < rank[o] => c \in S PROVE o \in S
  <2>1. ASSUME Meets(I, ctx, {o}, list) PROVE given[o]
    <3>1. o \in DOMAIN I.option => \A c \in Kids(I, o) : Meets(I, ctx, {c}, list) => given[c]
      BY <1>1, <1>3, <1>6 DEF Ranks
    <3>2. Passes(given, I, ctx, list, o)
      BY <2>1, <3>1, CompletePasses
    <3> QED
      BY <1>4, <3>2
  <2> QED
    BY <2>1
<1> HIDE DEF S
<1>7. STRING \subseteq S
  BY <1>2, <1>6, RankInduction
<1>8. ASSUME NEW r \in ToSet(roots) PROVE given[r]
  <2>1. Meets(I, ctx, {r}, list) /\ r \in STRING
    BY <1>1 DEF Meets
  <2> QED
    BY <1>7, <2>1 DEF S
<1> QED
  BY <1>5, <1>8

-----------------------------------------------------------------------------
(* Walks.                                                                   *)

Progresses(E, D) == [out : Seq(E), gone : D, ok : BOOLEAN]

\* What comes after one of several progresses.
Further(ways, before) == UNION {After(ways, p) : p \in before}

LEMMA FurtherIs ==
    \A ways, before : \A q : q \in Further(ways, before) <=>
        \E p \in before : \/ p.ok /\ \E r \in ways[p.gone] : q = Progress(p.out \o r.out, r.gone, r.ok)
                          \/ ~p.ok /\ q = p
<1> SUFFICES ASSUME NEW ways, NEW before, NEW q
    PROVE  q \in Further(ways, before) <=>
               \E p \in before : \/ p.ok /\ \E r \in ways[p.gone] : q = Progress(p.out \o r.out, r.gone, r.ok)
                                 \/ ~p.ok /\ q = p
  OBVIOUS
<1>1. \A p : p.ok => (q \in After(ways, p) <=> \E r \in ways[p.gone] : q = Progress(p.out \o r.out, r.gone, r.ok))
  BY DEF After
<1>2. \A p : ~p.ok => (q \in After(ways, p) <=> q = p)
  BY DEF After
<1>3. q \in Further(ways, before) <=> \E p \in before : q \in After(ways, p)
  BY DEF Further
<1> QED
  BY <1>1, <1>2, <1>3

\* The options of names make progresses of those before them.
Leads(ways, names, E, D) == \A o \in ToSet(names) : \A g \in D : ways[o][g] \subseteq Progresses(E, D)

\* The progresses after the first names.
Walked(f, ways, start, names, E, D) ==
    /\ f \in [0 .. Len(names) -> SUBSET Progresses(E, D)]
    /\ f[0] = {start}
    /\ \A n \in 1 .. Len(names) : f[n] = Further(ways[names[n]], f[n - 1])
    /\ Walk(ways, start, names) = f[Len(names)]

LEMMA FurtherAre ==
    \A E, D, ways : \A before \in SUBSET Progresses(E, D) :
        (\A g \in D : ways[g] \subseteq Progresses(E, D)) => Further(ways, before) \subseteq Progresses(E, D)
<1> SUFFICES ASSUME NEW E, NEW D, NEW ways, NEW before \in SUBSET Progresses(E, D),
                    \A g \in D : ways[g] \subseteq Progresses(E, D),
                    NEW q \in Further(ways, before)
    PROVE  q \in Progresses(E, D)
  OBVIOUS
<1>1. PICK p \in before : \/ p.ok /\ \E r \in ways[p.gone] : q = Progress(p.out \o r.out, r.gone, r.ok)
                          \/ ~p.ok /\ q = p
  BY FurtherIs
<1>2. p \in Progresses(E, D)
  OBVIOUS
<1>3. p.out \in Seq(E) /\ p.gone \in D
  BY <1>2 DEF Progresses
<1>4. CASE p.ok
  <2>1. PICK r \in ways[p.gone] : q = Progress(p.out \o r.out, r.gone, r.ok)
    BY <1>1, <1>4
  <2>2. r \in Progresses(E, D)
    BY <1>3
  <2>3. r.out \in Seq(E) /\ r.gone \in D /\ r.ok \in BOOLEAN
    BY <2>2 DEF Progresses
  <2>4. p.out \o r.out \in Seq(E)
    BY <1>3, <2>3, ConcatProperties
  <2> QED
    BY <2>1, <2>3, <2>4 DEF Progress, Progresses
<1>5. CASE ~p.ok
  BY <1>1, <1>2, <1>5
<1> QED
  BY <1>4, <1>5

LEMMA WalkGoes ==
    \A E, D, ways, names, start : IsList(names) /\ Leads(ways, names, E, D) /\ start \in Progresses(E, D) =>
        \E f : Walked(f, ways, start, names, E, D)
<1> SUFFICES ASSUME NEW E, NEW D, NEW ways, NEW names, NEW start,
                    IsList(names), Leads(ways, names, E, D), start \in Progresses(E, D)
    PROVE  \E f : Walked(f, ways, start, names, E, D)
  OBVIOUS
<1> DEFINE N == Len(names)
           W == Progresses(E, D)
           V == SUBSET W
           Begin == {start}
           At(n) == IF n \in 1 .. N THEN ways[names[n]] ELSE [g \in D |-> {}]
           G == [p \in Nat \X V |-> Further(At(p[1]), p[2])]
           sofar == CHOOSE h : h = [n \in 0 .. Len(names) |->
                        IF n = 0 THEN {start} ELSE UNION {After(ways[names[n]], p) : p \in h[n - 1]}]
<1>1. N \in Nat /\ \A n \in 1 .. N : names[n] \in ToSet(names)
  BY ListFacts
<1>2. ASSUME NEW n \in Nat, NEW L \in V PROVE Further(At(n), L) \in V
  <2>1. \A g \in D : At(n)[g] \subseteq W
    BY <1>1 DEF Leads
  <2> HIDE DEF At
  <2> QED
    BY <2>1, FurtherAre
<1>3. Begin \in V
  OBVIOUS
<1>4. Walk(ways, start, names) = sofar[N]
  BY DEF Walk
<1>5. \A n \in 1 .. N : At(n) = ways[names[n]]
  OBVIOUS
<1>6. ASSUME NEW f, f = [n \in 0 .. N |-> IF n = 0 THEN Begin ELSE Further(ways[names[n]], f[n - 1])]
      PROVE  sofar = [n \in 0 .. N |-> IF n = 0 THEN Begin ELSE Further(ways[names[n]], sofar[n - 1])]
  BY <1>6 DEF Further
<1> HIDE DEF At, N, W, Begin, sofar
<1>7. G \in Steps(V)
  <2>1. ASSUME NEW p \in Nat \X V PROVE Further(At(p[1]), p[2]) \in V
    <3>1. p[1] \in Nat /\ p[2] \in V
      OBVIOUS
    <3> HIDE DEF V
    <3> QED
      BY <1>2, <3>1
  <2> HIDE DEF V
  <2>2. G \in [Nat \X V -> V]
    BY <2>1
  <2> QED
    BY <2>2 DEF Steps
<1> HIDE DEF G, V
<1>8. PICK f \in [0 .. N -> V] : Obeys(f, Begin, G, N)
  BY <1>1, <1>3, <1>7, Recursion
<1>9. f[0] = Begin /\ \A n \in 1 .. N : f[n] = Further(ways[names[n]], f[n - 1])
  <2>1. ASSUME NEW n \in 1 .. N PROVE f[n] = Further(ways[names[n]], f[n - 1])
    <3>1. n \in Nat /\ n - 1 \in 0 .. N
      BY <1>1
    <3>2. f[n - 1] \in V
      BY <3>1
    <3>3. G[<<n, f[n - 1]>>] = Further(At(n), f[n - 1])
      BY <3>1, <3>2 DEF G
    <3>4. f[n] = Further(At(n), f[n - 1])
      BY <1>8, <3>3 DEF Obeys
    <3> QED
      BY <1>5, <3>4
  <2> QED
    BY <1>8, <2>1 DEF Obeys
<1>10. f = [n \in 0 .. N |-> IF n = 0 THEN Begin ELSE Further(ways[names[n]], f[n - 1])]
  <2>1. \A n \in 0 .. N : f[n] = IF n = 0 THEN Begin ELSE Further(ways[names[n]], f[n - 1])
    BY <1>1, <1>9
  <2> QED
    BY <2>1
<1>11. sofar = [n \in 0 .. N |-> IF n = 0 THEN Begin ELSE Further(ways[names[n]], sofar[n - 1])]
  BY <1>6, <1>10
<1> DEFINE Agrees == {n \in 0 .. N : sofar[n] = f[n]}
<1>12. 0 \in Agrees
  BY <1>1, <1>9, <1>11
<1>13. ASSUME NEW n \in Nat, n < N, n \in Agrees PROVE n + 1 \in Agrees
  <2>1. n + 1 \in 0 .. N /\ n + 1 \in 1 .. N /\ n + 1 # 0 /\ (n + 1) - 1 = n
    BY <1>1, <1>13
  <2>2. sofar[n + 1] = Further(ways[names[n + 1]], sofar[n])
    BY <1>11, <2>1
  <2>3. f[n + 1] = Further(ways[names[n + 1]], f[n])
    BY <1>9, <2>1
  <2> QED
    BY <1>13, <2>1, <2>2, <2>3
<1> HIDE DEF Agrees
<1>14. 0 .. N \subseteq Agrees
  BY <1>1, <1>12, <1>13, UpTo
<1>15. sofar[N] = f[N]
  BY <1>1, <1>14 DEF Agrees
<1> QED
  BY <1>4, <1>8, <1>9, <1>15 DEF Walked, N, V, W, Begin

\* A walk makes progresses, and depends on the ways of its names only.
LEMMA WalkFacts ==
    \A E, D, ways, names, start : IsList(names) /\ Leads(ways, names, E, D) /\ start \in Progresses(E, D) =>
        /\ Walk(ways, start, names) \subseteq Progresses(E, D)
        /\ \A other : (\A o \in ToSet(names) : other[o] = ways[o]) => Walk(other, start, names) = Walk(ways, start, names)
<1> SUFFICES ASSUME NEW E, NEW D, NEW ways, NEW names, NEW start,
                    IsList(names), Leads(ways, names, E, D), start \in Progresses(E, D)
    PROVE  /\ Walk(ways, start, names) \subseteq Progresses(E, D)
           /\ \A other : (\A o \in ToSet(names) : other[o] = ways[o]) =>
                  Walk(other, start, names) = Walk(ways, start, names)
  OBVIOUS
<1> DEFINE N == Len(names)
<1>1. N \in Nat /\ \A n \in 1 .. N : names[n] \in ToSet(names)
  BY ListFacts
<1>2. PICK f : Walked(f, ways, start, names, E, D)
  BY WalkGoes
<1>3. ASSUME NEW other, \A o \in ToSet(names) : other[o] = ways[o]
      PROVE  Walk(other, start, names) = Walk(ways, start, names)
  <2>1. Leads(other, names, E, D)
    BY <1>3 DEF Leads
  <2>2. PICK h : Walked(h, other, start, names, E, D)
    BY <2>1, WalkGoes
  <2>3. f[0] = {start} /\ \A n \in 1 .. N : f[n] = Further(ways[names[n]], f[n - 1])
    BY <1>2 DEF Walked
  <2>4. h[0] = {start} /\ \A n \in 1 .. N : h[n] = Further(ways[names[n]], h[n - 1])
    BY <1>1, <1>3, <2>2 DEF Walked
  <2>5. Walk(ways, start, names) = f[N] /\ Walk(other, start, names) = h[N]
    BY <1>2, <2>2 DEF Walked
  <2> HIDE DEF N
  <2> DEFINE Agrees == {n \in 0 .. N : h[n] = f[n]}
  <2>6. h[0] = f[0]
    BY <2>3, <2>4
  <2>7. 0 \in Agrees
    BY <1>1, <2>6
  <2>8. ASSUME NEW n \in Nat, n < N, n \in Agrees PROVE n + 1 \in Agrees
    <3>1. n + 1 \in 0 .. N /\ n + 1 \in 1 .. N /\ (n + 1) - 1 = n
      BY <1>1, <2>8
    <3>2. h[n + 1] = Further(ways[names[n + 1]], h[n])
      BY <2>4, <3>1
    <3>3. f[n + 1] = Further(ways[names[n + 1]], f[n])
      BY <2>3, <3>1
    <3> QED
      BY <2>8, <3>1, <3>2, <3>3
  <2> HIDE DEF Agrees
  <2>9. 0 .. N \subseteq Agrees
    BY <1>1, <2>7, <2>8, UpTo
  <2> QED
    BY <1>1, <2>5, <2>9 DEF Agrees
<1>4. Walk(ways, start, names) \subseteq Progresses(E, D)
  BY <1>1, <1>2 DEF Walked
<1> QED
  BY <1>3, <1>4

\* Where an option succeeds T has its list.
LeadsTo(ways, names, T, E, D) ==
    \A o \in ToSet(names) :
        /\ T[o] \subseteq Seq(E)
        /\ \A g \in D : \A p \in ways[o][g] : p \in Progresses(E, D) /\ (p.ok => p.out \in T[o])

\* Lists join the same way whichever two are joined first.
LEMMA Associates == \A S : \A s, t, u \in Seq(S) : (s \o t) \o u = s \o (t \o u)
  BY ConcatAssociative

\* Then a walk that succeeds adds one list of T for each name.
LEMMA WalkBears ==
    \A T, E, D, ways, names, start :
        IsList(names) /\ LeadsTo(ways, names, T, E, D) /\ start \in Progresses(E, D) =>
            \A p \in Walk(ways, start, names) :
                p.ok => \E more \in Forest(T, names) : more \in Seq(E) /\ p.out = start.out \o more
<1> SUFFICES ASSUME NEW T, NEW E, NEW D, NEW ways, NEW names, NEW start,
                    IsList(names), LeadsTo(ways, names, T, E, D), start \in Progresses(E, D)
    PROVE  \A p \in Walk(ways, start, names) :
               p.ok => \E more \in Forest(T, names) : more \in Seq(E) /\ p.out = start.out \o more
  OBVIOUS
<1> DEFINE N == Len(names)
<1>1. N \in Nat /\ DOMAIN names = 1 .. N /\ \A n \in 1 .. N : names[n] \in ToSet(names)
  BY ListFacts
<1>2. Leads(ways, names, E, D)
  BY DEF Leads, LeadsTo
<1>3. PICK f : Walked(f, ways, start, names, E, D)
  BY <1>2, WalkGoes
<1>4. /\ f[0] = {start}
      /\ \A n \in 1 .. N : f[n] = Further(ways[names[n]], f[n - 1])
      /\ \A n \in 0 .. N : f[n] \subseteq Progresses(E, D)
      /\ Walk(ways, start, names) = f[N]
  BY <1>3 DEF Walked
<1>5. start.out \in Seq(E)
  BY DEF Progresses
<1>6. PICK h : Planted(h, Seq(E), T, names)
  <2>1. \A o \in ToSet(names) : T[o] \subseteq Seq(E)
    BY DEF LeadsTo
  <2> QED
    BY <2>1, SeqCloses, ForestGoes
<1>7. /\ h[0] = {<<>>}
      /\ \A n \in 1 .. N : h[n] = Joined(h[n - 1], T[names[n]])
      /\ \A n \in 0 .. N : h[n] \subseteq Seq(E)
      /\ Forest(T, names) = h[N]
  BY <1>6 DEF Planted, Plants
<1> DEFINE From(p, n) == p.ok => \E more \in h[n] : p.out = start.out \o more
<1> HIDE DEF N
<1> DEFINE S == {n \in 0 .. N : \A p \in f[n] : From(p, n)}
<1>8. 0 \in S
  <2>1. <<>> \in h[0] /\ start.out = start.out \o <<>>
    BY <1>5, <1>7, ConcatEmptySeq
  <2>2. From(start, 0)
    BY <2>1
  <2> HIDE DEF From
  <2> QED
    BY <1>1, <1>4, <2>2
<1>9. ASSUME NEW n \in Nat, n < N, n \in S PROVE n + 1 \in S
  <2>1. n + 1 \in 0 .. N /\ n + 1 \in 1 .. N /\ n \in 0 .. N /\ (n + 1) - 1 = n
    BY <1>1, <1>9
  <2> DEFINE o == names[n + 1]
  <2>2. f[n + 1] = Further(ways[o], f[n]) /\ h[n + 1] = Joined(h[n], T[o]) /\ o \in ToSet(names)
    BY <1>1, <1>4, <1>7, <2>1
  <2> HIDE DEF o
  <2>3. ASSUME NEW q \in f[n + 1], q.ok PROVE \E more \in h[n + 1] : q.out = start.out \o more
    <3>1. PICK p \in f[n] : \/ p.ok /\ \E r \in ways[o][p.gone] : q = Progress(p.out \o r.out, r.gone, r.ok)
                            \/ ~p.ok /\ q = p
      BY <2>2, FurtherIs
    <3>2. p.ok
      BY <2>3, <3>1
    <3>3. PICK r \in ways[o][p.gone] : q = Progress(p.out \o r.out, r.gone, r.ok)
      BY <3>1, <3>2
    <3>4. p \in Progresses(E, D)
      BY <1>4, <2>1
    <3>5. p.gone \in D
      BY <3>4 DEF Progresses
    <3>6. q.out = p.out \o r.out /\ r.ok
      BY <2>3, <3>3 DEF Progress
    <3>7. r.out \in T[o] /\ T[o] \subseteq Seq(E)
      BY <2>2, <3>5, <3>6 DEF LeadsTo
    <3>8. From(p, n)
      BY <1>9
    <3>9. PICK more \in h[n] : p.out = start.out \o more
      BY <3>2, <3>8
    <3>10. more \o r.out \in h[n + 1]
      <4>1. more \o r.out \in Joined(h[n], T[o])
        BY <3>7 DEF Joined
      <4> QED
        BY <2>2, <4>1
    <3>11. more \in Seq(E) /\ r.out \in Seq(E)
      BY <1>7, <2>1, <3>7
    <3>12. (start.out \o more) \o r.out = start.out \o (more \o r.out)
      <4>1. \A s, t, u \in Seq(E) : (s \o t) \o u = s \o (t \o u)
        BY Associates
      <4> QED
        BY <1>5, <3>11, <4>1
    <3> QED
      BY <3>6, <3>9, <3>10, <3>12
  <2> QED
    BY <2>1, <2>3
<1> HIDE DEF S
<1>10. 0 .. N \subseteq S
  BY <1>1, <1>8, <1>9, UpTo
<1>11. \A p \in f[N] : From(p, N)
  <2> HIDE DEF From
  <2> QED
    BY <1>1, <1>10 DEF S
<1>12. h[N] \subseteq Seq(E)
  BY <1>1, <1>7
<1> QED
  BY <1>4, <1>7, <1>11, <1>12

-----------------------------------------------------------------------------
(* Completed lists.                                                         *)

StoredList(list) == IsList(list) /\ \A e \in ToSet(list) : IsStored(e)

EntriesOf(list, o) == {e \in ToSet(list) : e.name = o}

\* The entries a completed list may have.
Entries(I, list, how) ==
    AllAnswers(I, how) \cup UNION {{WithDefaults(I.option[o], e) : e \in EntriesOf(list, o)} : o \in DOMAIN I.option}

\* The defaults leave the selection of an entry alone.
LEMMA DefaultsKeep ==
    \A opt : \A e : IsStored(e) =>
        /\ IsStored(WithDefaults(opt, e))
        /\ WithDefaults(opt, e).name = e.name
<1> SUFFICES ASSUME NEW opt, NEW e, IsStored(e)
    PROVE  IsStored(WithDefaults(opt, e)) /\ WithDefaults(opt, e).name = e.name
  OBVIOUS
<1> DEFINE ins == [f \in DOMAIN e.inputs \cup opt.inputs |-> IF f \in DOMAIN e.inputs THEN e.inputs[f] ELSE Default]
<1>1. e = Entry(e.name, e.value, e.values, e.inputs) /\ IsList(e.values)
  BY DEF IsStored
<1>2. WithDefaults(opt, e) = IF opt.kind = "input" THEN [e EXCEPT !.inputs = ins] ELSE e
  BY DEF WithDefaults
<1> HIDE DEF ins
<1>3. [e EXCEPT !.inputs = ins] = Entry(e.name, e.value, e.values, ins)
  BY <1>1 DEF Entry
<1>4. CASE opt.kind = "input"
  BY <1>1, <1>2, <1>3, <1>4, EntryIsStored
<1>5. CASE opt.kind # "input"
  BY <1>2, <1>5
<1> QED
  BY <1>4, <1>5

\* All of them are entries.
LEMMA EntriesAre ==
    \A I, list, how : IsOptions(I.option) /\ StoredList(list) => \A e \in Entries(I, list, how) : IsStored(e)
<1> SUFFICES ASSUME NEW I, NEW list, NEW how, IsOptions(I.option), StoredList(list), NEW e \in Entries(I, list, how)
    PROVE  IsStored(e)
  OBVIOUS
<1> DEFINE From(o) == {WithDefaults(I.option[o], f) : f \in EntriesOf(list, o)}
<1>1. CASE e \in AllAnswers(I, how)
  BY <1>1, AnswersAre DEF AllAnswers
<1>2. CASE \E o \in DOMAIN I.option : e \in From(o)
  <2>1. PICK o \in DOMAIN I.option, f \in ToSet(list) : e = WithDefaults(I.option[o], f)
    BY <1>2 DEF EntriesOf
  <2> QED
    BY <2>1, DefaultsKeep DEF StoredList
<1>3. e \in AllAnswers(I, how) \/ e \in UNION {From(o) : o \in DOMAIN I.option}
  BY DEF Entries
<1> HIDE DEF From
<1> QED
  BY <1>1, <1>2, <1>3

\* What an option of a completed list may be given: an answer, or an entry whose
\* choice is valid.
Given(I, o, list, how) ==
    Answers(I, o, how) \cup {e \in Entries(I, list, how) : e.name = o /\ ValidChoice(I.option[o], e)}

Gifts(I, list, how) == [o \in DOMAIN I.option |-> Given(I, o, list, how)]

\* An entry with a valid choice selects cases that are there.
LEMMA ValidSelects ==
    \A opt, e :
        /\ IsList(opt.cases) /\ opt.kind \in {"select", "switch", "checkbox", "input"}
        /\ IsStored(e) /\ ValidChoice(opt, e)
        => Selects(opt, e)
<1> SUFFICES ASSUME NEW opt, NEW e, IsList(opt.cases), opt.kind \in {"select", "switch", "checkbox", "input"},
                    IsStored(e), ValidChoice(opt, e)
    PROVE  Selects(opt, e)
  OBVIOUS
<1>1. CASE IsChoice(opt)
  <2>1. opt.kind # "checkbox" /\ opt.kind # "input"
    BY <1>1 DEF IsChoice
  <2>2. e.value \in ToSet(opt.cases)
    BY <1>1, <2>1 DEF ValidChoice
  <2>3. Chosen(opt, e) = <<e.value>>
    BY <1>1, <2>1 DEF Chosen
  <2> DEFINE v == e.value
  <2>4. v \in ToSet(opt.cases) /\ Chosen(opt, e) = <<v>>
    BY <2>2, <2>3
  <2> HIDE DEF v
  <2> QED
    BY <2>4 DEF Selects
<1>2. CASE opt.kind = "checkbox"
  <2>1. ~IsChoice(opt)
    BY <1>2 DEF IsChoice
  <2>2. ToSet(e.values) \subseteq ToSet(opt.cases)
    BY <1>2, <2>1 DEF ValidChoice
  <2>3. Chosen(opt, e) = e.values
    BY <1>2, <2>1 DEF Chosen
  <2>4. e.values \in Seq(ToSet(opt.cases))
    BY <2>2, ListFacts DEF IsStored
  <2> QED
    BY <2>3, <2>4 DEF Selects
<1>3. CASE opt.kind = "input"
  <2>1. ~IsChoice(opt) /\ opt.kind # "checkbox"
    BY <1>3 DEF IsChoice
  <2>2. Chosen(opt, e) = <<>>
    BY <1>3, <2>1 DEF Chosen
  <2> QED
    BY <2>2, EmptySeq DEF Selects
<1> QED
  BY <1>1, <1>2, <1>3 DEF IsChoice

\* Whatever an option is given is an entry of the list, and selects cases of it.
LEMMA GivenAre ==
    \A I, list, how : IsOptions(I.option) /\ StoredList(list) => \A o \in DOMAIN I.option :
        \A e \in Given(I, o, list, how) :
            e \in Entries(I, list, how) /\ e.name = o /\ IsStored(e) /\ Selects(I.option[o], e)
<1> SUFFICES ASSUME NEW I, NEW list, NEW how, IsOptions(I.option), StoredList(list), NEW o \in DOMAIN I.option,
                    NEW e \in Given(I, o, list, how)
    PROVE  e \in Entries(I, list, how) /\ e.name = o /\ IsStored(e) /\ Selects(I.option[o], e)
  OBVIOUS
<1>1. CASE e \in Answers(I, o, how)
  <2>1. e \in AllAnswers(I, how)
    BY <1>1 DEF AllAnswers
  <2>2. e \in Entries(I, list, how)
    BY <2>1 DEF Entries
  <2> QED
    BY <1>1, <2>2, AnswersAre
<1>2. CASE e \in Entries(I, list, how) /\ e.name = o /\ ValidChoice(I.option[o], e)
  <2>1. IsStored(e)
    BY <1>2, EntriesAre
  <2>2. IsList(I.option[o].cases) /\ I.option[o].kind \in {"select", "switch", "checkbox", "input"}
    BY DEF IsOptions
  <2> QED
    BY <1>2, <2>1, <2>2, ValidSelects
<1> QED
  BY <1>1, <1>2 DEF Given

\* What process_option makes for an option, whichever of its entries are gone.
Created(I, ctx, how, o, gone) ==
    IF Trees(I, ctx, how)[o] = {} THEN {Progress(<<>>, gone, FALSE)}
    ELSE {Progress(tree, gone, TRUE) : tree \in Trees(I, ctx, how)[o]}

\* What completing does at one option, when t has it for those of its children.
EnsuredAt(t, I, ctx, list, how, o, gone) ==
    LET opt == I.option[o]
        found == Occurrences(list, o) \ gone
        i == CHOOSE f \in found : \A g \in found : f <= g
        entry == WithDefaults(opt, list[i])
    IN IF o \notin DOMAIN I.option THEN {Progress(<<>>, gone, FALSE)}
       ELSE IF ~Fits(opt, ctx) THEN {Progress(<<>>, gone, TRUE)}
       ELSE IF found = {} THEN Created(I, ctx, how, o, gone)
       ELSE IF ~ValidChoice(opt, entry) THEN Created(I, ctx, how, o, gone \cup {i})
       ELSE Walk(t, Progress(<<entry>>, gone, TRUE), Children(opt, entry))

\* An option of the interface that applies is made anew, or has a stored entry
\* that stays.
Renews(I, ctx, list, how, o, gone, g) ==
    \A t : EnsuredAt(t, I, ctx, list, how, o, gone) = Created(I, ctx, how, o, g)

Retains(I, ctx, list, how, o, gone, e) ==
    /\ e.name = o /\ ValidChoice(I.option[o], e) /\ Selects(I.option[o], e)
    /\ \A t : EnsuredAt(t, I, ctx, list, how, o, gone)
                  = Walk(t, Progress(<<e>>, gone, TRUE), Children(I.option[o], e))

LEMMA RenewsOrRetains ==
    \A I, ctx, list, how : IsOptions(I.option) /\ StoredList(list) =>
        \A o \in DOMAIN I.option : Fits(I.option[o], ctx) => \A gone \in SUBSET DOMAIN list :
            \/ \E g \in SUBSET DOMAIN list : Renews(I, ctx, list, how, o, gone, g)
            \/ \E e \in Entries(I, list, how) : Retains(I, ctx, list, how, o, gone, e)
<1> SUFFICES ASSUME NEW I, NEW ctx, NEW list, NEW how, IsOptions(I.option), StoredList(list),
                    NEW o \in DOMAIN I.option, Fits(I.option[o], ctx), NEW gone \in SUBSET DOMAIN list
    PROVE  \/ \E g \in SUBSET DOMAIN list : Renews(I, ctx, list, how, o, gone, g)
           \/ \E e \in Entries(I, list, how) : Retains(I, ctx, list, how, o, gone, e)
  OBVIOUS
<1> DEFINE opt == I.option[o]
           found == Occurrences(list, o) \ gone
           i == CHOOSE f \in found : \A g \in found : f <= g
           entry == WithDefaults(opt, list[i])
<1>1. \A t : EnsuredAt(t, I, ctx, list, how, o, gone) =
                 IF found = {} THEN Created(I, ctx, how, o, gone)
                 ELSE IF ~ValidChoice(opt, entry) THEN Created(I, ctx, how, o, gone \cup {i})
                 ELSE Walk(t, Progress(<<entry>>, gone, TRUE), Children(opt, entry))
  BY DEF EnsuredAt
<1>2. CASE found = {}
  <2>1. Renews(I, ctx, list, how, o, gone, gone)
    BY <1>1, <1>2 DEF Renews
  <2> QED
    BY <2>1
<1>3. CASE found # {}
  <2>1. DOMAIN list = 1 .. Len(list) /\ Len(list) \in Nat /\ \A j \in 1 .. Len(list) : list[j] \in ToSet(list)
    BY ListFacts DEF StoredList
  <2>2. \A j \in found : j \in DOMAIN list /\ list[j].name = o
    BY DEF Occurrences
  <2> DEFINE least == \A f \in found : i <= f
  <2> HIDE DEF found
  <2>3. found \in SUBSET Nat
    BY <2>1, <2>2
  <2>4. \E f \in found : \A g \in found : f <= g
    BY <1>3, <2>3, Least
  <2>5. i \in found
    BY <2>4
  <2> HIDE DEF i
  <2> DEFINE e == list[i]
  <2>6. e \in ToSet(list) /\ e.name = o /\ i \in DOMAIN list
    BY <2>1, <2>2, <2>5
  <2>7. IsStored(entry) /\ entry.name = o
    BY <2>6, DefaultsKeep DEF StoredList
  <2>8. entry \in Entries(I, list, how)
    <3> HIDE DEF e
    <3>1. entry = WithDefaults(I.option[o], e)
      BY DEF e
    <3> HIDE DEF entry
    <3>2. entry \in {WithDefaults(I.option[o], f) : f \in EntriesOf(list, o)}
      BY <2>6, <3>1 DEF EntriesOf
    <3> QED
      BY <3>2 DEF Entries
  <2> HIDE DEF entry, e
  <2>9. CASE ~ValidChoice(opt, entry)
    <3>1. Renews(I, ctx, list, how, o, gone, gone \cup {i})
      BY <1>1, <1>3, <2>9 DEF Renews
    <3> QED
      BY <2>6, <3>1
  <2>10. CASE ValidChoice(opt, entry)
    <3>1. IsList(opt.cases) /\ opt.kind \in {"select", "switch", "checkbox", "input"}
      BY DEF IsOptions
    <3>2. Selects(opt, entry)
      BY <2>7, <2>10, <3>1, ValidSelects
    <3>3. Retains(I, ctx, list, how, o, gone, entry)
      BY <1>1, <1>3, <2>7, <2>10, <3>2 DEF Retains
    <3> QED
      BY <2>8, <3>3
  <2> QED
    BY <2>9, <2>10
<1> QED
  BY <1>2, <1>3

\* Elsewhere nothing is added.
LEMMA AtOthers ==
    \A I, ctx, list, how, o, gone : o \notin DOMAIN I.option \/ ~Fits(I.option[o], ctx) =>
        \E ok \in BOOLEAN :
            /\ ok = (o \in DOMAIN I.option)
            /\ \A t : EnsuredAt(t, I, ctx, list, how, o, gone) = {Progress(<<>>, gone, ok)}
<1> SUFFICES ASSUME NEW I, NEW ctx, NEW list, NEW how, NEW o, NEW gone,
                    o \notin DOMAIN I.option \/ ~Fits(I.option[o], ctx)
    PROVE  \E ok \in BOOLEAN :
               /\ ok = (o \in DOMAIN I.option)
               /\ \A t : EnsuredAt(t, I, ctx, list, how, o, gone) = {Progress(<<>>, gone, ok)}
  OBVIOUS
<1> DEFINE P(ok) == {Progress(<<>>, gone, ok)}
<1>1. CASE o \notin DOMAIN I.option
  <2>1. \A t : EnsuredAt(t, I, ctx, list, how, o, gone) = P(FALSE)
    BY <1>1 DEF EnsuredAt
  <2> HIDE DEF P
  <2>2. FALSE = (o \in DOMAIN I.option)
    BY <1>1
  <2> QED
    BY <2>1, <2>2 DEF P
<1>2. CASE o \in DOMAIN I.option /\ ~Fits(I.option[o], ctx)
  <2>1. \A t : EnsuredAt(t, I, ctx, list, how, o, gone) = P(TRUE)
    BY <1>2 DEF EnsuredAt
  <2> HIDE DEF P
  <2>2. TRUE = (o \in DOMAIN I.option)
    BY <1>2
  <2> QED
    BY <2>1, <2>2 DEF P
<1> QED
  BY <1>1, <1>2

\* T has what grows from the answers and from the entries whose choice is valid.
Provided(T, I, ctx, list, how, E) ==
    IsOptions(I.option) /\ EndsEverywhere(I) /\ Bears(T, I, ctx, Gifts(I, list, how), E)

\* So it has what is made anew.
LEMMA CreatedIs ==
    \A I, ctx, list, how, T, E, D : Provided(T, I, ctx, list, how, E) =>
        \A o \in STRING : \A g \in D : \A p \in Created(I, ctx, how, o, g) :
            /\ p \in Progresses(E, D)
            /\ p.ok => p.out \in T[o]
<1> SUFFICES ASSUME NEW I, NEW ctx, NEW list, NEW how, NEW T, NEW E, NEW D, Provided(T, I, ctx, list, how, E),
                    NEW o \in STRING, NEW g \in D, NEW p \in Created(I, ctx, how, o, g)
    PROVE  /\ p \in Progresses(E, D)
           /\ p.ok => p.out \in T[o]
  OBVIOUS
<1> DEFINE V == Gifts(I, list, how)
           tree == Trees(I, ctx, how)
<1>1. \A c \in DOMAIN I.option : Answers(I, c, how) \subseteq V[c]
  BY DEF Gifts, Given
<1>2. p = Progress(<<>>, g, FALSE) \/ \E l \in tree[o] : p = Progress(l, g, TRUE)
  BY DEF Created
<1>3. IsOptions(I.option) /\ EndsEverywhere(I) /\ Bears(T, I, ctx, V, E)
  BY DEF Provided
<1> HIDE DEF V
<1>4. \A c \in STRING : tree[c] \subseteq T[c]
  BY ONLY <1>1, <1>3, TreesBorne
<1>5. T[o] \subseteq Seq(E)
  BY <1>3 DEF Bears
<1> HIDE DEF tree
<1>6. CASE p = Progress(<<>>, g, FALSE)
  <2>1. <<>> \in Seq(E)
    BY EmptySeq
  <2> QED
    BY <1>6, <2>1 DEF Progress, Progresses
<1>7. CASE \E l \in tree[o] : p = Progress(l, g, TRUE)
  <2>1. PICK l \in tree[o] : p = Progress(l, g, TRUE)
    BY <1>7
  <2>2. l \in T[o] /\ l \in Seq(E)
    BY <1>4, <1>5
  <2> QED
    BY <2>1, <2>2 DEF Progress, Progresses
<1> QED
  BY <1>2, <1>6, <1>7

\* The function Ensured refers to.
Ensuring(I, ctx, list, how) ==
    CHOOSE ensure : ensure = [o \in STRING |-> [gone \in SUBSET DOMAIN list |->
                                  EnsuredAt(ensure, I, ctx, list, how, o, gone)]]

LEMMA EnsuredWalks ==
    \A I, ctx, roots, list, how :
        Ensured(I, ctx, roots, list, how) = Walk(Ensuring(I, ctx, list, how), Progress(<<>>, {}, TRUE), roots)
BY DEF Ensured, Ensuring, EnsuredAt, Created

\* Progresses T has the list of, unless they failed.
Finished(T, E, D, o) == {p \in Progresses(E, D) : p.ok => p.out \in T[o]}

\* A stored list of an interface, the entries it may get, those that may go, and
\* lists that grow from them.
Completing(I, ctx, list, how, E, D, T) ==
    /\ StoredList(list) /\ Provided(T, I, ctx, list, how, E)
    /\ E = Entries(I, list, how) /\ D = SUBSET DOMAIN list

\* What is done at an option depends on that of its children only, and is a
\* progress; T has its list if it has theirs.
Steady(t, I, ctx, list, how, E, D, T, o, gone) ==
    /\ EnsuredAt(t, I, ctx, list, how, o, gone) \subseteq Progresses(E, D)
    /\ \A other : (o \in DOMAIN I.option => \A c \in Kids(I, o) : other[c] = t[c]) =>
           EnsuredAt(other, I, ctx, list, how, o, gone) = EnsuredAt(t, I, ctx, list, how, o, gone)
    /\ (o \in DOMAIN I.option => \A c \in Kids(I, o) : \A g \in D : t[c][g] \subseteq Finished(T, E, D, c)) =>
           EnsuredAt(t, I, ctx, list, how, o, gone) \subseteq Finished(T, E, D, o)

LEMMA EnsuredAtIs ==
    \A I, ctx, list, how, E, D, T : Completing(I, ctx, list, how, E, D, T) =>
        \A t : \A o \in STRING : \A gone \in D :
            (o \in DOMAIN I.option => \A c \in Kids(I, o) : \A g \in D : t[c][g] \subseteq Progresses(E, D)) =>
                Steady(t, I, ctx, list, how, E, D, T, o, gone)
<1> SUFFICES ASSUME NEW I, NEW ctx, NEW list, NEW how, NEW E, NEW D, NEW T, Completing(I, ctx, list, how, E, D, T),
                    NEW t, NEW o \in STRING, NEW gone \in D,
                    o \in DOMAIN I.option => \A c \in Kids(I, o) : \A g \in D : t[c][g] \subseteq Progresses(E, D)
    PROVE  Steady(t, I, ctx, list, how, E, D, T, o, gone)
  OBVIOUS
<1>0. /\ IsOptions(I.option) /\ EndsEverywhere(I) /\ StoredList(list)
      /\ E = Entries(I, list, how) /\ D = SUBSET DOMAIN list
      /\ Provided(T, I, ctx, list, how, E) /\ Bears(T, I, ctx, Gifts(I, list, how), E)
  BY DEF Completing, Provided
<1> USE <1>0
<1> DEFINE At(u) == EnsuredAt(u, I, ctx, list, how, o, gone)
<1>1. CASE o \notin DOMAIN I.option \/ ~Fits(I.option[o], ctx)
  <2>1. PICK ok \in BOOLEAN : ok = (o \in DOMAIN I.option) /\ \A u : At(u) = {Progress(<<>>, gone, ok)}
    BY <1>1, AtOthers
  <2>2. <<>> \in Seq(E)
    BY EmptySeq
  <2>3. Progress(<<>>, gone, ok) \in Progresses(E, D)
    BY <2>2 DEF Progress, Progresses
  <2>4. ok => <<>> \in T[o]
    BY <1>1, <2>1 DEF Bears
  <2>5. Progress(<<>>, gone, ok) \in Finished(T, E, D, o)
    BY <2>3, <2>4 DEF Finished, Progress
  <2> QED
    BY <2>1, <2>3, <2>5 DEF Steady
<1>2. ASSUME o \in DOMAIN I.option, NEW g \in D, Renews(I, ctx, list, how, o, gone, g)
      PROVE  /\ At(t) \subseteq Finished(T, E, D, o)
             /\ \A other : At(other) = At(t)
  <2>1. \A u : At(u) = Created(I, ctx, how, o, g)
    BY <1>2 DEF Renews
  <2>2. \A p \in Created(I, ctx, how, o, g) : p \in Finished(T, E, D, o)
    BY CreatedIs DEF Finished
  <2> QED
    BY <2>1, <2>2
<1>3. ASSUME o \in DOMAIN I.option, Fits(I.option[o], ctx), NEW e \in E, Retains(I, ctx, list, how, o, gone, e)
      PROVE  /\ At(t) \subseteq Progresses(E, D)
             /\ \A other : (\A c \in Kids(I, o) : other[c] = t[c]) => At(other) = At(t)
             /\ (\A c \in Kids(I, o) : \A g \in D : t[c][g] \subseteq Finished(T, E, D, c)) =>
                    At(t) \subseteq Finished(T, E, D, o)
  <2> DEFINE names == Children(I.option[o], e)
             start == Progress(<<e>>, gone, TRUE)
  <2>1. e.name = o /\ ValidChoice(I.option[o], e) /\ Selects(I.option[o], e) /\ \A u : At(u) = Walk(u, start, names)
    BY <1>3 DEF Retains
  <2>2. IsList(names) /\ ToSet(names) \subseteq Kids(I, o)
    BY <1>3, <2>1, ChildrenAre
  <2>3. start \in Progresses(E, D) /\ start.ok /\ start.out = <<e>>
    <3>1. <<e>> \in Seq(E)
      OBVIOUS
    <3> QED
      BY <3>1 DEF Progress, Progresses
  <2> HIDE DEF start
  <2>4. Fits(I.option[o], ctx) => \A more \in Forest(T, names) : <<e>> \o more \in T[o]
    <3>1. e \in Gifts(I, list, how)[o]
      BY <1>3, <2>1 DEF Gifts, Given
    <3> QED
      BY <1>3, <3>1 DEF Bears
  <2>5. \A c \in ToSet(names) : T[c] \subseteq Seq(E)
    <3>1. \A c \in ToSet(names) : c \in STRING
      BY <1>3, <2>2 DEF IsOptions, EndsEverywhere, Kids
    <3> QED
      BY <3>1 DEF Bears
  <2> HIDE DEF names, At
  <2>6. Leads(t, names, E, D)
    BY <1>3, <2>2 DEF Leads
  <2>7. Walk(t, start, names) \subseteq Progresses(E, D)
    BY <2>2, <2>3, <2>6, WalkFacts
  <2>8. ASSUME NEW other, \A c \in Kids(I, o) : other[c] = t[c] PROVE Walk(other, start, names) = Walk(t, start, names)
    <3>1. \A c \in ToSet(names) : other[c] = t[c]
      BY <2>2, <2>8
    <3> QED
      BY <2>2, <2>3, <2>6, <3>1, WalkFacts
  <2>9. ASSUME \A c \in Kids(I, o) : \A g \in D : t[c][g] \subseteq Finished(T, E, D, c),
               NEW p \in Walk(t, start, names)
        PROVE  p \in Finished(T, E, D, o)
    <3>1. \A c \in ToSet(names) : \A g \in D : \A q \in t[c][g] : q \in Finished(T, E, D, c)
      BY <2>2, <2>9
    <3>2. LeadsTo(t, names, T, E, D)
      BY <2>5, <3>1 DEF LeadsTo, Finished
    <3>3. \A q \in Walk(t, start, names) :
              q.ok => \E more \in Forest(T, names) : more \in Seq(E) /\ q.out = start.out \o more
      <4>1. IsList(names) /\ LeadsTo(t, names, T, E, D) /\ start \in Progresses(E, D)
        BY <2>2, <2>3, <3>2
      <4> QED
        BY ONLY <4>1, WalkBears
    <3>4. p.ok => p.out \in T[o]
      BY <1>3, <2>3, <2>4, <3>3
    <3> QED
      BY <2>7, <3>4 DEF Finished
  <2> QED
    BY <2>1, <2>7, <2>8, <2>9
<1>4. Finished(T, E, D, o) \subseteq Progresses(E, D)
  BY DEF Finished
<1>5. CASE o \in DOMAIN I.option /\ Fits(I.option[o], ctx)
  <2>1. \/ \E g \in D : Renews(I, ctx, list, how, o, gone, g)
        \/ \E e \in E : Retains(I, ctx, list, how, o, gone, e)
    BY <1>5, RenewsOrRetains
  <2>2. CASE \E g \in D : Renews(I, ctx, list, how, o, gone, g)
    <3>1. PICK g \in D : Renews(I, ctx, list, how, o, gone, g)
      BY <2>2
    <3>2. At(t) \subseteq Finished(T, E, D, o) /\ \A other : At(other) = At(t)
      BY <1>2, <1>5, <3>1
    <3> QED
      BY <1>4, <3>2 DEF Steady
  <2>3. CASE \E e \in E : Retains(I, ctx, list, how, o, gone, e)
    <3>1. PICK e \in E : Retains(I, ctx, list, how, o, gone, e)
      BY <2>3
    <3>2. /\ At(t) \subseteq Progresses(E, D)
          /\ \A other : (\A c \in Kids(I, o) : other[c] = t[c]) => At(other) = At(t)
          /\ (\A c \in Kids(I, o) : \A g \in D : t[c][g] \subseteq Finished(T, E, D, c)) =>
                 At(t) \subseteq Finished(T, E, D, o)
      BY <1>3, <1>5, <3>1
    <3> QED
      BY <1>5, <3>2 DEF Steady
  <2> QED
    BY <2>1, <2>2, <2>3
<1> QED
  BY <1>1, <1>5

\* Completing has at every option what it does there.
LEMMA EnsuringGoes ==
    \A I, ctx, list, how, E, D, T : Completing(I, ctx, list, how, E, D, T) =>
        \A o \in STRING : \A gone \in D :
            Ensuring(I, ctx, list, how)[o][gone] =
                EnsuredAt(Ensuring(I, ctx, list, how), I, ctx, list, how, o, gone)
<1> SUFFICES ASSUME NEW I, NEW ctx, NEW list, NEW how, NEW E, NEW D, NEW T, Completing(I, ctx, list, how, E, D, T)
    PROVE  \A o \in STRING : \A gone \in D :
               Ensuring(I, ctx, list, how)[o][gone] =
                   EnsuredAt(Ensuring(I, ctx, list, how), I, ctx, list, how, o, gone)
  OBVIOUS
<1>0. ASSUME NEW t, NEW o \in STRING, NEW gone \in D,
             o \in DOMAIN I.option => \A c \in Kids(I, o) : \A g \in D : t[c][g] \subseteq Progresses(E, D)
      PROVE  Steady(t, I, ctx, list, how, E, D, T, o, gone)
  BY <1>0, EnsuredAtIs
<1>1. IsOptions(I.option) /\ EndsEverywhere(I) /\ D = SUBSET DOMAIN list
  BY DEF Completing, Provided
<1> DEFINE W == SUBSET Progresses(E, D)
           V == [D -> W]
           P == [STRING -> V]
           N == Cardinality(DOMAIN I.option)
           At(t, o, gone) == EnsuredAt(t, I, ctx, list, how, o, gone)
           Cell(t, o) == [gone \in D |-> At(t, o, gone)]
           Row(t) == [o \in STRING |-> Cell(t, o)]
           F == [t \in P |-> Row(t)]
<1>2. DOMAIN I.option \subseteq STRING
  BY <1>1 DEF IsOptions
<1>3. N \in Nat
  BY <1>1, RanksFall
<1>4. PICK rank \in [STRING -> 0 .. N] : Ranks(rank, I)
  BY <1>1, RanksFall
<1>5. \A o \in DOMAIN I.option : Kids(I, o) \subseteq STRING
  BY <1>1, <1>2 DEF EndsEverywhere, Kids
<1>6. ASSUME NEW t \in P, NEW o \in STRING, NEW gone \in D
      PROVE  /\ At(t, o, gone) \in W
             /\ \A other : (o \in DOMAIN I.option => \A c \in Kids(I, o) : other[c] = t[c]) =>
                    At(other, o, gone) = At(t, o, gone)
  <2>1. \A c \in STRING : \A g \in D : t[c][g] \in W
    <3>1. ASSUME NEW c \in STRING, NEW g \in D PROVE t[c][g] \in W
      <4>1. t[c] \in V
        OBVIOUS
      <4> QED
        BY <4>1
    <3> QED
      BY <3>1
  <2>2. o \in DOMAIN I.option => \A c \in Kids(I, o) : \A g \in D : t[c][g] \subseteq Progresses(E, D)
    BY <1>5, <2>1
  <2> HIDE DEF P
  <2>3. Steady(t, I, ctx, list, how, E, D, T, o, gone)
    BY <1>0, <2>2
  <2> QED
    BY <2>3 DEF Steady
<1> HIDE DEF At, W, N
<1>7. ASSUME NEW t \in P, NEW o \in STRING PROVE Cell(t, o) \in V
  <2> HIDE DEF P
  <2> QED
    BY <1>6
<1> HIDE DEF V
<1>8. ASSUME NEW t \in P PROVE Row(t) \in P
  <2> HIDE DEF Cell
  <2> QED
    BY <1>7
<1>9. F \in [P -> P]
  <2> HIDE DEF P, Row
  <2> QED
    BY <1>8
<1>10. ASSUME NEW t \in P, NEW u \in P, NEW o \in STRING, \A c \in STRING : rank[c] < rank[o] => t[c] = u[c]
      PROVE  F[t][o] = F[u][o]
  <2>1. o \in DOMAIN I.option => \A c \in Kids(I, o) : t[c] = u[c]
    BY <1>4, <1>5, <1>10 DEF Ranks
  <2> HIDE DEF P
  <2>2. \A gone \in D : At(t, o, gone) = At(u, o, gone)
    BY <1>6, <2>1
  <2>3. Cell(t, o) = Cell(u, o)
    BY <2>2
  <2> HIDE DEF Cell
  <2>4. F[t][o] = Cell(t, o) /\ F[u][o] = Cell(u, o)
    OBVIOUS
  <2> HIDE DEF F
  <2> QED
    BY <2>3, <2>4
<1>11. P # {}
  <2>1. {} \in W
    BY DEF W
  <2>2. [gone \in D |-> {}] \in V
    BY <2>1 DEF V
  <2> DEFINE none == [gone \in D |-> {}]
  <2> HIDE DEF none
  <2>3. [o \in STRING |-> none] \in P
    BY <2>2 DEF none
  <2> QED
    BY <2>3
<1>12. LooksDown(F, P, STRING, V, rank, N)
  <2>1. P \subseteq [STRING -> V]
    OBVIOUS
  <2> HIDE DEF F, P
  <2> QED
    BY <1>3, <1>9, <1>10, <1>11, <2>1 DEF LooksDown
<1>13. PICK t \in P : F[t] = t
  <2> HIDE DEF F, P
  <2> QED
    BY <1>12, Fixpoint
<1>14. t = Row(t)
  <2> HIDE DEF P, Row
  <2> QED
    BY <1>13
<1> DEFINE ensure == Ensuring(I, ctx, list, how)
<1>15. ensure = Row(ensure)
  <2>1. t = [o \in STRING |-> [gone \in SUBSET DOMAIN list |-> EnsuredAt(t, I, ctx, list, how, o, gone)]]
    BY <1>1, <1>14 DEF At
  <2>2. ensure = [o \in STRING |-> [gone \in SUBSET DOMAIN list |-> EnsuredAt(ensure, I, ctx, list, how, o, gone)]]
    BY <2>1 DEF Ensuring
  <2> QED
    BY <1>1, <2>2 DEF At
<1> HIDE DEF ensure
<1>16. ASSUME NEW o \in STRING, NEW gone \in D PROVE ensure[o][gone] = At(ensure, o, gone)
  <2>1. ensure[o] = Cell(ensure, o)
    <3> HIDE DEF Cell
    <3> QED
      BY <1>15
  <2> QED
    BY <2>1
<1> QED
  BY <1>16 DEF ensure, At

\* Completing an option ends in a list T has for it, or fails.
LEMMA EnsuringBears ==
    \A I, ctx, list, how, E, D, T : Completing(I, ctx, list, how, E, D, T) =>
        \A o \in STRING : \A gone \in D : Ensuring(I, ctx, list, how)[o][gone] \subseteq Finished(T, E, D, o)
<1> SUFFICES ASSUME NEW I, NEW ctx, NEW list, NEW how, NEW E, NEW D, NEW T, Completing(I, ctx, list, how, E, D, T)
    PROVE  \A o \in STRING : \A gone \in D : Ensuring(I, ctx, list, how)[o][gone] \subseteq Finished(T, E, D, o)
  OBVIOUS
<1> DEFINE ensure == Ensuring(I, ctx, list, how)
           N == Cardinality(DOMAIN I.option)
           S == {o \in STRING : \A gone \in D : ensure[o][gone] \subseteq Finished(T, E, D, o)}
<1>1. IsOptions(I.option) /\ EndsEverywhere(I)
  BY DEF Completing, Provided
<1>2. \A o \in DOMAIN I.option : Kids(I, o) \subseteq STRING
  BY <1>1 DEF EndsEverywhere, Kids, IsOptions
<1>3. N \in Nat
  BY <1>1, RanksFall
<1>4. PICK rank \in [STRING -> 0 .. N] : Ranks(rank, I)
  BY <1>1, RanksFall
<1>5. \A o \in STRING : \A gone \in D : ensure[o][gone] = EnsuredAt(ensure, I, ctx, list, how, o, gone)
  BY EnsuringGoes
<1> HIDE DEF ensure, N
<1>6. ASSUME NEW o \in STRING, \A c \in STRING : rank[c] < rank[o] => c \in S PROVE o \in S
  <2>1. o \in DOMAIN I.option => \A c \in Kids(I, o) : \A g \in D : ensure[c][g] \subseteq Finished(T, E, D, c)
    BY <1>2, <1>4, <1>6 DEF Ranks
  <2>2. \A c : Finished(T, E, D, c) \subseteq Progresses(E, D)
    BY DEF Finished
  <2>3. ASSUME NEW gone \in D PROVE ensure[o][gone] \subseteq Finished(T, E, D, o)
    <3>1. Steady(ensure, I, ctx, list, how, E, D, T, o, gone)
      BY <2>1, <2>2, EnsuredAtIs
    <3> QED
      BY <1>5, <2>1, <3>1 DEF Steady
  <2> QED
    BY <2>3
<1> HIDE DEF S
<1>7. STRING \subseteq S
  BY <1>3, <1>4, <1>6, RankInduction
<1> QED
  BY <1>7 DEF S, ensure

\* The list a walk through the declared tree leaves behind: T has it, when T has
\* what grows from the answers and from the valid ones among the stored entries.
LEMMA EnsuredBears ==
    \A I, ctx, roots, list, how, T :
        /\ StoredList(list) /\ Provided(T, I, ctx, list, how, Entries(I, list, how))
        /\ IsList(roots) /\ ToSet(roots) \subseteq STRING
        => \A p \in Ensured(I, ctx, roots, list, how) :
               /\ p.out \in Seq(Entries(I, list, how))
               /\ p.ok => p.out \in Forest(T, roots)
<1> SUFFICES ASSUME NEW I, NEW ctx, NEW roots, NEW list, NEW how, NEW T,
                    StoredList(list), Provided(T, I, ctx, list, how, Entries(I, list, how)),
                    IsList(roots), ToSet(roots) \subseteq STRING,
                    NEW p \in Ensured(I, ctx, roots, list, how)
    PROVE  /\ p.out \in Seq(Entries(I, list, how))
           /\ p.ok => p.out \in Forest(T, roots)
  OBVIOUS
<1> DEFINE E == Entries(I, list, how)
           D == SUBSET DOMAIN list
           ensure == Ensuring(I, ctx, list, how)
           start == Progress(<<>>, {}, TRUE)
<1>1. Completing(I, ctx, list, how, E, D, T)
  BY DEF Completing
<1>2. \A o \in ToSet(roots) : T[o] \subseteq Seq(E)
  BY DEF Provided, Bears
<1>3. p \in Walk(ensure, start, roots)
  BY EnsuredWalks
<1>4. {} \in D
  OBVIOUS
<1> HIDE DEF E, D
<1>5. \A o \in STRING : \A gone \in D : ensure[o][gone] \subseteq Finished(T, E, D, o)
  BY <1>1, EnsuringBears
<1> HIDE DEF ensure
<1>6. start \in Progresses(E, D) /\ start.out = <<>>
  BY <1>4, EmptySeq DEF Progress, Progresses
<1> HIDE DEF start
<1>7. \A o \in ToSet(roots) : \A gone \in D : \A q \in ensure[o][gone] : q \in Finished(T, E, D, o)
  BY <1>5
<1>8. LeadsTo(ensure, roots, T, E, D)
  BY <1>2, <1>7 DEF LeadsTo, Finished
<1>9. Leads(ensure, roots, E, D)
  BY <1>7 DEF Leads, Finished
<1>10. p \in Progresses(E, D)
  BY <1>3, <1>6, <1>9, WalkFacts
<1>11. p.out \in Seq(E)
  BY <1>10 DEF Progresses
<1>12. ASSUME p.ok PROVE p.out \in Forest(T, roots)
  <2>1. IsList(roots) /\ LeadsTo(ensure, roots, T, E, D) /\ start \in Progresses(E, D)
    BY <1>6, <1>8
  <2>2. \A q \in Walk(ensure, start, roots) :
            q.ok => \E more \in Forest(T, roots) : more \in Seq(E) /\ q.out = start.out \o more
    BY ONLY <2>1, WalkBears
  <2>3. PICK more \in Forest(T, roots) : more \in Seq(E) /\ p.out = start.out \o more
    BY <1>3, <1>12, <2>2
  <2>4. p.out = more
    BY <1>6, <2>3, ConcatEmptySeq
  <2> QED
    BY <2>4
<1> QED
  BY <1>11, <1>12 DEF E

\* Complete lists among them: every entry of what is left has what its cases
\* demand, and so have the options of the level.
LEMMA EnsuredCompletes ==
    \A I, ctx, roots, list, how :
        /\ IsOptions(I.option) /\ EndsEverywhere(I) /\ StoredList(list)
        /\ IsList(roots) /\ ToSet(roots) \subseteq STRING
        => \A p \in Ensured(I, ctx, roots, list, how) :
               /\ StoredList(p.out)
               /\ p.ok => IsComplete(I, ctx, p.out) /\ Meets(I, ctx, ToSet(roots), p.out)
<1> SUFFICES ASSUME NEW I, NEW ctx, NEW roots, NEW list, NEW how,
                    IsOptions(I.option), EndsEverywhere(I), StoredList(list), IsList(roots), ToSet(roots) \subseteq STRING,
                    NEW p \in Ensured(I, ctx, roots, list, how)
    PROVE  /\ StoredList(p.out)
           /\ p.ok => IsComplete(I, ctx, p.out) /\ Meets(I, ctx, ToSet(roots), p.out)
  OBVIOUS
<1> DEFINE E == Entries(I, list, how)
           V == Gifts(I, list, how)
           T == [o \in STRING |-> CompleteLists(I, ctx, E, {o})]
<1>1. \A o \in ToSet(roots) : T[o] \subseteq CompleteLists(I, ctx, E, {o})
  OBVIOUS
<1>2. \A e \in E : IsStored(e)
  BY EntriesAre
<1>3. \A o \in DOMAIN I.option : \A e \in V[o] :
          e \in E /\ e.name = o /\ IsStored(e) /\ Selects(I.option[o], e)
  BY GivenAre DEF Gifts
<1> HIDE DEF E, V
<1>4. Bears(T, I, ctx, V, E)
  BY <1>3, CompleteBears
<1> HIDE DEF T
<1>5. StoredList(list) /\ Provided(T, I, ctx, list, how, E) /\ IsList(roots) /\ ToSet(roots) \subseteq STRING
  BY <1>4 DEF Provided, V
<1>6. p.out \in Seq(E) /\ (p.ok => p.out \in Forest(T, roots))
  BY <1>5, EnsuredBears DEF E
<1>7. StoredList(p.out)
  BY <1>2, <1>6, SeqIsList DEF StoredList
<1>8. Forest(T, roots) \subseteq CompleteLists(I, ctx, E, ToSet(roots))
  BY <1>1, ForestCompletes
<1> QED
  BY <1>6, <1>7, <1>8 DEF CompleteLists

-----------------------------------------------------------------------------
(* The check of the lists that belong to no task.                           *)

\* What the check keeps of an entry is an entry.
LEMMA CleanedIsStored ==
    \A I, e : IsStored(e) =>
        /\ IsStored(Deduped(I, e))
        /\ \A ins : IsStored([e EXCEPT !.inputs = ins])
<1> SUFFICES ASSUME NEW I, NEW e, IsStored(e)
    PROVE  IsStored(Deduped(I, e)) /\ \A ins : IsStored([e EXCEPT !.inputs = ins])
  OBVIOUS
<1>1. e = Entry(e.name, e.value, e.values, e.inputs) /\ IsList(e.values)
  BY DEF IsStored
<1>2. ASSUME NEW ins PROVE IsStored([e EXCEPT !.inputs = ins])
  <2>1. [e EXCEPT !.inputs = ins] = Entry(e.name, e.value, e.values, ins)
    BY <1>1 DEF Entry
  <2> QED
    BY <1>1, <2>1, EntryIsStored
<1> DEFINE once == Unique(e.values)
<1>3. IsList(once)
  BY <1>1, NothingIsList, WithNewIsList DEF Unique
<1>4. Deduped(I, e) = e \/ Deduped(I, e) = [e EXCEPT !.values = once]
  BY DEF Deduped
<1> HIDE DEF once
<1>5. [e EXCEPT !.values = once] = Entry(e.name, e.value, once, e.inputs)
  BY <1>1 DEF Entry
<1> QED
  BY <1>2, <1>3, <1>4, <1>5, EntryIsStored

LEMMA CheckLevelStored == \A I, list : StoredList(list) => StoredList(CheckLevel(I, list))
<1> SUFFICES ASSUME NEW I, NEW list, StoredList(list) PROVE StoredList(CheckLevel(I, list))
  OBVIOUS
<1> DEFINE Known(e) == e.name \in DOMAIN I.option
           Valid(e) == \/ ValidChoice(I.option[e.name], e)
                       \/ IsChoice(I.option[e.name]) /\ e.value = NoValue
           Cleaned(e) ==
               IF I.option[e.name].kind = "input"
               THEN [e EXCEPT !.inputs = [f \in DOMAIN @ \cap I.option[e.name].inputs |-> @[f]]]
               ELSE Deduped(I, e)
           K == {e \in ToSet(list) : Known(e)}
           known == Only(list, K)
           cleaned == [i \in DOMAIN known |-> Cleaned(known[i])]
           V == {e \in ToSet(cleaned) : Valid(e)}
<1>1. CheckLevel(I, list) = Only(cleaned, V)
  BY DEF CheckLevel
<1>2. \A e : IsStored(e) => IsStored(Cleaned(e))
  BY CleanedIsStored
<1> HIDE DEF K, V, Cleaned
<1>3. known \in Seq(ToSet(list)) /\ \A e \in ToSet(list) : IsStored(e)
  BY OnlyRange DEF StoredList, IsList
<1> HIDE DEF known
<1>4. Len(known) \in Nat /\ DOMAIN known = 1 .. Len(known) /\ \A i \in 1 .. Len(known) : IsStored(known[i])
  BY <1>3, LenProperties
<1> DEFINE C == ToSet(cleaned)
<1>5. C = {Cleaned(known[i]) : i \in 1 .. Len(known)}
  BY <1>4 DEF ToSet
<1>6. cleaned \in [1 .. Len(known) -> C]
  BY <1>4, <1>5
<1> HIDE DEF cleaned
<1>7. cleaned \in Seq(C)
  BY <1>4, <1>6
<1>8. \A e \in C : IsStored(e)
  BY <1>2, <1>4, <1>5
<1> HIDE DEF C
<1>9. Only(cleaned, V) \in Seq(C)
  BY <1>7, OnlyRange
<1>10. IsList(Only(cleaned, V)) /\ ToSet(Only(cleaned, V)) \subseteq C
  BY <1>9, SeqIsList
<1> QED
  BY <1>1, <1>8, <1>10 DEF StoredList

LEMMA OnceAppend ==
    \A S : \A s \in Seq(S) : \A e \in S : IsInjective(Append(s, e)) <=> IsInjective(s) /\ e \notin ToSet(s)
<1> SUFFICES ASSUME NEW S, NEW s \in Seq(S), NEW e \in S
    PROVE  IsInjective(Append(s, e)) <=> IsInjective(s) /\ e \notin ToSet(s)
  OBVIOUS
<1> DEFINE t == Append(s, e)
           N == Len(s)
<1>1. N \in Nat /\ DOMAIN s = 1 .. N /\ ToSet(s) = {s[i] : i \in 1 .. N}
  BY LenProperties DEF ToSet
<1>2. t \in Seq(S) /\ Len(t) = N + 1 /\ t[N + 1] = e /\ \A i \in 1 .. N : t[i] = s[i]
  BY AppendProperties
<1>3. DOMAIN t = 1 .. N + 1
  BY <1>2, LenProperties
<1> HIDE DEF t, N
<1>4. ASSUME IsInjective(t) PROVE IsInjective(s) /\ e \notin ToSet(s)
  <2>1. \A i, j \in 1 .. N + 1 : t[i] = t[j] => i = j
    BY <1>3, <1>4 DEF IsInjective
  <2>2. \A i, j \in 1 .. N : s[i] = s[j] => i = j
    BY <1>1, <1>2, <2>1
  <2>3. \A i \in 1 .. N : s[i] # e
    BY <1>1, <1>2, <2>1
  <2> QED
    BY <1>1, <2>2, <2>3 DEF IsInjective
<1>5. ASSUME IsInjective(s), e \notin ToSet(s) PROVE IsInjective(t)
  <2>1. \A i \in 1 .. N : s[i] # e
    BY <1>1, <1>5
  <2>2. \A i, j \in 1 .. N : s[i] = s[j] => i = j
    BY <1>1, <1>5 DEF IsInjective
  <2>3. \A i \in 1 .. N + 1 : i = N + 1 \/ i \in 1 .. N
    BY <1>1
  <2>4. \A i, j \in 1 .. N + 1 : t[i] = t[j] => i = j
    BY <1>2, <2>1, <2>2, <2>3
  <2> QED
    BY <1>3, <2>4 DEF IsInjective
<1> QED
  BY <1>4, <1>5 DEF t

LEMMA OnceEmpty == IsInjective(<<>>)
BY DEF IsInjective

\* A part of such a list is one.
LEMMA OnlyOnce == \A S, V : \A s \in Seq(S) : IsInjective(s) => IsInjective(Only(s, V))
<1> SUFFICES ASSUME NEW S, NEW V PROVE \A s \in Seq(S) : IsInjective(s) => IsInjective(Only(s, V))
  OBVIOUS
<1> DEFINE T == {s \in Seq(S) : IsInjective(s) => IsInjective(Only(s, V))}
<1>1. <<>> \in T
  BY EmptySeq, OnlyEmpty, OnceEmpty
<1>2. ASSUME NEW s \in Seq(S), s \in T, NEW e \in S PROVE Append(s, e) \in T
  <2>1. Append(s, e) \in Seq(S)
    BY AppendProperties
  <2>2. IsInjective(Append(s, e)) <=> IsInjective(s) /\ e \notin ToSet(s)
    BY OnceAppend
  <2>3. Only(Append(s, e), V) = IF e \in V THEN Append(Only(s, V), e) ELSE Only(s, V)
    BY OnlyAppend
  <2>4. Only(s, V) \in Seq(S) /\ ToSet(Only(s, V)) = ToSet(s) \cap V
    BY OnlyRange
  <2>5. IsInjective(Append(Only(s, V), e)) <=> IsInjective(Only(s, V)) /\ e \notin ToSet(Only(s, V))
    BY <2>4, OnceAppend
  <2>6. IsInjective(s) => IsInjective(Only(s, V))
    BY <1>2
  <2>7. IsInjective(Append(s, e)) => IsInjective(Only(Append(s, e), V))
    BY <2>2, <2>3, <2>4, <2>5, <2>6
  <2> QED
    BY <2>1, <2>7
<1> HIDE DEF T
<1>3. Seq(S) \subseteq T
  BY <1>1, <1>2, ListInduction
<1> QED
  BY <1>3 DEF T

\* The first of equal names stays.
LEMMA WithNewOnce ==
    \A S : \A names, more \in Seq(S) : IsInjective(names) =>
        IsInjective(WithNew(names, more)) /\ ToSet(WithNew(names, more)) = ToSet(names) \cup ToSet(more)
<1> SUFFICES ASSUME NEW S, NEW names \in Seq(S), NEW more \in Seq(S), IsInjective(names)
    PROVE  IsInjective(WithNew(names, more)) /\ ToSet(WithNew(names, more)) = ToSet(names) \cup ToSet(more)
  OBVIOUS
<1>1. PICK k \in [0 .. Len(more) -> Seq(S)] : Grows(k, names, more) /\ WithNew(names, more) = k[Len(more)]
  BY WithNewGrows
<1> DEFINE N == Len(more)
           Upto(n) == {more[i] : i \in 1 .. n}
           W == {n \in 0 .. N : IsInjective(k[n]) /\ ToSet(k[n]) = ToSet(names) \cup Upto(n)}
<1>2. N \in Nat /\ DOMAIN more = 1 .. N /\ \A n \in 1 .. N : more[n] \in S
  BY LenProperties
<1>3. k[0] = names /\ \A i \in 1 .. N :
          k[i] = IF more[i] \in ToSet(k[i - 1]) THEN k[i - 1] ELSE Append(k[i - 1], more[i])
  BY <1>1 DEF Grows
<1> HIDE DEF N
<1>4. 0 \in W
  BY <1>2, <1>3
<1>5. ASSUME NEW n \in Nat, n < N, n \in W PROVE n + 1 \in W
  <2>1. n + 1 \in 0 .. N /\ n + 1 \in 1 .. N /\ n \in 0 .. N /\ (n + 1) - 1 = n
    BY <1>2, <1>5
  <2>2. Upto(n + 1) = Upto(n) \cup {more[n + 1]}
    <3>1. 1 .. n + 1 = (1 .. n) \cup {n + 1}
      BY <2>1
    <3> QED
      BY <3>1
  <2> HIDE DEF Upto
  <2> DEFINE e == more[n + 1]
             s == k[n]
  <2>3. s \in Seq(S) /\ e \in S
    BY <1>1, <1>2, <2>1 DEF N
  <2>4. k[n + 1] = IF e \in ToSet(s) THEN s ELSE Append(s, e)
    BY <1>3, <2>1
  <2>5. IsInjective(s) /\ ToSet(s) = ToSet(names) \cup Upto(n)
    BY <1>5
  <2>9. Upto(n + 1) = Upto(n) \cup {e}
    BY <2>2
  <2> HIDE DEF e, s
  <2>6. IsInjective(Append(s, e)) <=> IsInjective(s) /\ e \notin ToSet(s)
    BY <2>3, OnceAppend
  <2>7. ToSet(Append(s, e)) = ToSet(s) \cup {e}
    BY <2>3, AppendRange
  <2>8. IsInjective(k[n + 1]) /\ ToSet(k[n + 1]) = ToSet(names) \cup Upto(n + 1)
    BY <2>4, <2>5, <2>6, <2>7, <2>9
  <2> QED
    BY <2>1, <2>8
<1> HIDE DEF W
<1>6. 0 .. N \subseteq W
  BY <1>2, <1>4, <1>5, UpTo
<1>7. Upto(N) = ToSet(more)
  BY <1>2 DEF ToSet
<1> HIDE DEF Upto
<1> QED
  BY <1>1, <1>2, <1>6, <1>7 DEF W, N

\* Where nothing is there twice, nothing goes.
LEMMA UniqueOnce == \A S : \A s \in Seq(S) : IsInjective(s) => Unique(s) = s
<1> SUFFICES ASSUME NEW S, NEW s \in Seq(S), IsInjective(s) PROVE Unique(s) = s
  OBVIOUS
<1>1. <<>> \in Seq(S)
  BY EmptySeq
<1>2. PICK k \in [0 .. Len(s) -> Seq(S)] : Grows(k, <<>>, s) /\ WithNew(<<>>, s) = k[Len(s)]
  BY <1>1, WithNewGrows
<1> DEFINE N == Len(s)
           P(n) == Prefix(<<>>, s, n)
           W == {n \in 0 .. N : k[n] = P(n)}
<1>3. N \in Nat /\ DOMAIN s = 1 .. N /\ \A n \in 1 .. N : s[n] \in S
  BY LenProperties
<1>4. k[0] = <<>> /\ \A i \in 1 .. N :
          k[i] = IF s[i] \in ToSet(k[i - 1]) THEN k[i - 1] ELSE Append(k[i - 1], s[i])
  BY <1>2 DEF Grows
<1>5. /\ P(0) = <<>> /\ P(N) = <<>> \o s
      /\ \A i \in 0 .. N : P(i) \in Seq(S)
      /\ \A i \in 1 .. N : P(i) = Append(P(i - 1), s[i])
  <2> DEFINE none == <<>>
  <2>1. none \in Seq(S)
    BY <1>1
  <2> HIDE DEF none
  <2>2. /\ Prefix(none, s, 0) = none /\ Prefix(none, s, Len(s)) = none \o s
        /\ \A i \in 0 .. Len(s) : Prefix(none, s, i) \in Seq(S)
        /\ \A i \in 1 .. Len(s) : Prefix(none, s, i) = Append(Prefix(none, s, i - 1), s[i])
    BY <2>1, PrefixFacts
  <2> QED
    BY <2>2 DEF none
<1>6. <<>> \o s = s
  BY ConcatEmptySeq
<1>7. \A n \in 0 .. N : ToSet(P(n)) = {s[i] : i \in 1 .. n}
  <2>1. ASSUME NEW n \in 0 .. N PROVE ToSet(P(n)) = {s[i] : i \in 1 .. n}
    <3>1. Len(<<>>) = 0 /\ 0 + n = n
      BY <1>3
    <3>2. P(n) = [j \in 1 .. n |-> s[j]]
      BY <1>6, <3>1 DEF Prefix
    <3> QED
      BY <3>2 DEF ToSet
  <2> QED
    BY <2>1
<1> HIDE DEF N, P
<1>8. 0 \in W
  BY <1>3, <1>4, <1>5
<1>9. ASSUME NEW n \in Nat, n < N, n \in W PROVE n + 1 \in W
  <2>1. n + 1 \in 0 .. N /\ n + 1 \in 1 .. N /\ n \in 0 .. N /\ (n + 1) - 1 = n
    BY <1>3, <1>9
  <2>2. k[n] = P(n) /\ ToSet(P(n)) = {s[i] : i \in 1 .. n}
    BY <1>7, <1>9, <2>1
  <2>3. \A i \in 1 .. n : i \in DOMAIN s /\ i # n + 1
    BY <1>3, <2>1
  <2>4. s[n + 1] \notin ToSet(k[n])
    BY <1>3, <2>1, <2>2, <2>3 DEF IsInjective
  <2>5. k[n + 1] = Append(k[n], s[n + 1])
    BY <1>4, <2>1, <2>4
  <2>6. P(n + 1) = Append(P(n), s[n + 1])
    BY <1>5, <2>1
  <2> QED
    BY <2>1, <2>2, <2>5, <2>6
<1> HIDE DEF W
<1>10. 0 .. N \subseteq W
  BY <1>3, <1>8, <1>9, UpTo
<1>11. k[N] = P(N)
  BY <1>3, <1>10 DEF W
<1> QED
  BY <1>2, <1>5, <1>6, <1>11 DEF Unique, N

\* The ordered selections from a finite set are the lists without repetition.
LEMMA OncePermutes ==
    \A S : IsFiniteSet(S) =>
        /\ \A s \in Seq(S) : IsInjective(s) => s \in SetToAllKPermutations(S)
        /\ \A s \in SetToAllKPermutations(S) : IsInjective(s)
<1> SUFFICES ASSUME NEW S, IsFiniteSet(S)
    PROVE  /\ \A s \in Seq(S) : IsInjective(s) => s \in SetToAllKPermutations(S)
           /\ \A s \in SetToAllKPermutations(S) : IsInjective(s)
  OBVIOUS
<1>1. ASSUME NEW s \in Seq(S), IsInjective(s) PROVE s \in SetToAllKPermutations(S)
  <2> DEFINE R == ToSet(s)
             N == Len(s)
  <2>1. N \in Nat /\ DOMAIN s = 1 .. N /\ R = {s[i] : i \in 1 .. N} /\ R \in SUBSET S
    BY LenProperties DEF ToSet
  <2>2. s \in [1 .. N -> R] /\ (\A r \in R : \E i \in 1 .. N : s[i] = r) /\ \A i, j \in 1 .. N : s[i] = s[j] => i = j
    <3>1. s = [i \in 1 .. N |-> s[i]]
      BY <2>1
    <3> QED
      BY <1>1, <2>1, <3>1 DEF IsInjective
  <2> HIDE DEF R, N
  <2>3. s \in Bijection(1 .. N, R)
    BY <2>2 DEF Bijection, Injection, Surjection, IsInjective
  <2>4. IsFiniteSet(1 .. N) /\ Cardinality(1 .. N) = N
    BY <2>1, FS_Interval
  <2>5. ExistsBijection(1 .. N, R)
    BY <2>3 DEF ExistsBijection
  <2>6. Cardinality(R) = N
    BY <2>4, <2>5, FS_Bijection
  <2>7. s \in SetToSeqs(R)
    BY <2>2, <2>6 DEF SetToSeqs
  <2> QED
    BY <2>1, <2>7 DEF SetToAllKPermutations
<1>2. ASSUME NEW s \in SetToAllKPermutations(S) PROVE IsInjective(s)
  <2>1. PICK R \in SUBSET S : s \in SetToSeqs(R)
    BY DEF SetToAllKPermutations
  <2>2. DOMAIN s = 1 .. Cardinality(R) /\ \A i, j \in 1 .. Cardinality(R) : i # j => s[i] # s[j]
    BY <2>1 DEF SetToSeqs
  <2> QED
    BY <2>2 DEF IsInjective
<1> QED
  BY <1>1, <1>2

LEMMA RangeFinite == \A s : IsList(s) => IsFiniteSet(ToSet(s))
<1> SUFFICES ASSUME NEW s, IsList(s) PROVE IsFiniteSet(ToSet(s))
  OBVIOUS
<1> DEFINE C == ToSet(s)
           N == Len(s)
           f == [i \in 1 .. N |-> s[i]]
<1>1. N \in Nat /\ DOMAIN s = 1 .. N
  BY ListFacts
<1>2. C = {s[i] : i \in 1 .. N}
  BY <1>1 DEF ToSet
<1>3. IsFiniteSet(1 .. N)
  BY <1>1, FS_Interval
<1> HIDE DEF N, C
<1>4. f \in [1 .. N -> C] /\ \A c \in C : \E i \in 1 .. N : f[i] = c
  BY <1>2
<1> HIDE DEF f
<1>5. f \in Surjection(1 .. N, C)
  BY <1>4 DEF Surjection
<1> QED
  BY <1>3, <1>5, FS_Surjection DEF C

-----------------------------------------------------------------------------
(* Entries as the prompts leave them.                                       *)

LEMMA PicksAre ==
    \A opt, how :
        /\ IsList(opt.cases) /\ opt.min \in Nat /\ opt.max \in Nat \cup {Unlimited}
        /\ CanAsk(opt) /\ ValidCheckbox(opt)
        => \A vs \in PickCases(opt, how) :
               IsInjective(vs) /\ IsList(vs) /\ ToSet(vs) \subseteq ToSet(opt.cases) /\ CountFits(opt, Len(vs))
<1> SUFFICES ASSUME NEW opt, NEW how, IsList(opt.cases), opt.min \in Nat, opt.max \in Nat \cup {Unlimited},
                    CanAsk(opt), ValidCheckbox(opt), NEW vs \in PickCases(opt, how)
    PROVE  IsInjective(vs) /\ IsList(vs) /\ ToSet(vs) \subseteq ToSet(opt.cases) /\ CountFits(opt, Len(vs))
  OBVIOUS
<1> DEFINE C == ToSet(opt.cases)
<1>1. vs \in Seq(C)
  BY PickedCasesAre
<1>2. IsList(vs) /\ ToSet(vs) \subseteq C
  BY <1>1, SeqIsList
<1>3. IsInjective(opt.cases) /\ opt.cases \in Seq(C) /\ IsFiniteSet(C)
  BY RangeFinite DEF CanAsk, IsList
<1>4. CASE opt.max = 0
  <2>1. vs = <<>>
    BY <1>4 DEF PickCases
  <2>2. Len(vs) = 0 /\ IsInjective(vs)
    BY <2>1, OnceEmpty
  <2>3. opt.min <= opt.max
    BY <1>4 DEF ValidCheckbox, Unlimited
  <2>4. CountFits(opt, 0)
    BY <1>4, <2>3 DEF CountFits
  <2> QED
    BY <1>2, <2>2, <2>4
<1>5. CASE opt.max # 0
  <2>1. CountFits(opt, Len(vs)) /\ (vs = DefaultCases(opt) \/ vs \in SetToAllKPermutations(C))
    BY <1>5 DEF PickCases
  <2>2. IsInjective(DefaultCases(opt))
    <3>1. IsInjective(Only(opt.cases, ToSet(opt.default)))
      BY <1>3, OnlyOnce
    <3> QED
      BY <3>1, OnceEmpty DEF DefaultCases
  <2>3. IsInjective(vs)
    BY <1>3, <2>1, <2>2, OncePermutes
  <2> QED
    BY <1>2, <2>1, <2>3
<1> QED
  BY <1>4, <1>5

LEMMA NoInputsSound ==
    \A n, v \in STRING : \A vs : IsList(vs) /\ IsInjective(vs) /\ ToSet(vs) \subseteq STRING =>
        Sound(Entry(n, v, vs, NoInputs))
<1> SUFFICES ASSUME NEW n \in STRING, NEW v \in STRING, NEW vs, IsList(vs), IsInjective(vs), ToSet(vs) \subseteq STRING
    PROVE  Sound(Entry(n, v, vs, NoInputs))
  OBVIOUS
<1>1. IsStored(Entry(n, v, vs, NoInputs))
  BY EntryIsStored
<1>2. /\ Entry(n, v, vs, NoInputs).values = vs /\ Entry(n, v, vs, NoInputs).name = n
      /\ Entry(n, v, vs, NoInputs).value = v /\ DOMAIN Entry(n, v, vs, NoInputs).inputs = {}
  BY DEF Entry, NoInputs
<1> QED
  BY <1>1, <1>2 DEF Sound

\* The answers of a prompt are sound and pass the check.
LEMMA AnswersSound ==
    \A I, how : IsOptions(I.option) => \A o \in DOMAIN I.option : Asks(I.option[o]) =>
        \A e \in Answers(I, o, how) : Sound(e) /\ ValidChoice(I.option[o], e)
<1> SUFFICES ASSUME NEW I, NEW how, IsOptions(I.option), NEW o \in DOMAIN I.option, Asks(I.option[o]),
                    NEW e \in Answers(I, o, how)
    PROVE  Sound(e) /\ ValidChoice(I.option[o], e)
  OBVIOUS
<1> DEFINE opt == I.option[o]
<1>1. /\ IsList(opt.cases) /\ opt.kind \in {"select", "switch", "checkbox", "input"}
      /\ opt.min \in Nat /\ opt.max \in Nat \cup {Unlimited}
      /\ CanAsk(opt) /\ ValidCheckbox(opt)
  BY DEF IsOptions, Asks
<1>0. o \in STRING /\ ToSet(opt.cases) \subseteq STRING /\ NoValue \in STRING
  BY NoValueAssumption DEF IsOptions
<1>00. ToSet(<<>>) \subseteq STRING
  BY DEF ToSet
<1>2. CASE IsChoice(opt)
  <2>1. opt.kind # "checkbox" /\ opt.kind # "input"
    BY <1>2 DEF IsChoice
  <2>2. Answers(I, o, how) = {Entry(o, v, <<>>, NoInputs) : v \in PickCase(opt, how)}
    BY <1>2, <2>1 DEF Answers
  <2>3. PICK v \in PickCase(opt, how) : e = Entry(o, v, <<>>, NoInputs)
    BY <2>2
  <2>4. v \in ToSet(opt.cases)
    BY <1>1, PickedCaseIs
  <2>5. ValidChoice(opt, e)
    BY <1>2, <2>1, <2>3, <2>4 DEF ValidChoice, Entry
  <2>6. Sound(e)
    BY <1>0, <1>00, <2>3, <2>4, NoInputsSound, NothingIsList, OnceEmpty
  <2> QED
    BY <2>5, <2>6
<1>3. CASE opt.kind = "checkbox"
  <2>1. ~IsChoice(opt)
    BY <1>3 DEF IsChoice
  <2>2. PICK vs \in PickCases(opt, how) : e = Entry(o, NoValue, vs, NoInputs)
    BY <1>3, <2>1 DEF Answers
  <2>3. IsInjective(vs) /\ IsList(vs) /\ ToSet(vs) \subseteq ToSet(opt.cases) /\ CountFits(opt, Len(vs))
    <3> HIDE DEF opt
    <3> QED
      BY <1>1, <2>2, PicksAre
  <2>4. e.values = vs
    BY <2>2 DEF Entry
  <2>5. ValidChoice(opt, e)
    BY <1>3, <2>1, <2>3, <2>4 DEF ValidChoice
  <2>6. Sound(e)
    BY <1>0, <2>2, <2>3, NoInputsSound
  <2> QED
    BY <2>5, <2>6
<1>4. CASE opt.kind = "input"
  <2>1. ~IsChoice(opt) /\ opt.kind # "checkbox"
    BY <1>4 DEF IsChoice
  <2>2. PICK ins \in TypeInputs(opt, how) : e = Entry(o, NoValue, <<>>, ins)
    BY <1>4, <2>1 DEF Answers
  <2>3. ValidChoice(opt, e)
    BY <1>4, <2>1 DEF ValidChoice
  <2>4. e.name = o /\ e.value = NoValue /\ e.values = <<>> /\ e.inputs = ins /\ IsStored(e)
    BY <2>2, NothingIsList, EntryIsStored DEF Entry
  <2>5. \A f \in DOMAIN ins : ins[f] \in Texts \cup {Default}
    BY <2>2 DEF TypeInputs
  <2> QED
    BY <1>0, <1>00, <2>3, <2>4, <2>5, OnceEmpty DEF Sound
<1> QED
  BY <1>1, <1>2, <1>3, <1>4 DEF IsChoice

\* The defaults are sound too.
LEMMA DefaultsSound == \A opt, e : Sound(e) => Sound(WithDefaults(opt, e))
<1> SUFFICES ASSUME NEW opt, NEW e, Sound(e) PROVE Sound(WithDefaults(opt, e))
  OBVIOUS
<1> DEFINE ins == [f \in DOMAIN e.inputs \cup opt.inputs |-> IF f \in DOMAIN e.inputs THEN e.inputs[f] ELSE Default]
<1>1. /\ e = Entry(e.name, e.value, e.values, e.inputs) /\ IsList(e.values) /\ IsInjective(e.values)
      /\ e.name \in STRING /\ e.value \in STRING /\ ToSet(e.values) \subseteq STRING
  BY DEF Sound, IsStored
<1>2. WithDefaults(opt, e) = IF opt.kind = "input" THEN [e EXCEPT !.inputs = ins] ELSE e
  BY DEF WithDefaults
<1>3. \A f \in DOMAIN ins : ins[f] \in Texts \cup {Default}
  BY DEF Sound
<1> HIDE DEF ins
<1>4. [e EXCEPT !.inputs = ins] = Entry(e.name, e.value, e.values, ins)
  BY <1>1 DEF Entry
<1>5. CASE opt.kind = "input"
  <2>1. WithDefaults(opt, e) = Entry(e.name, e.value, e.values, ins)
    BY <1>2, <1>4, <1>5
  <2>2. /\ Entry(e.name, e.value, e.values, ins).values = e.values /\ Entry(e.name, e.value, e.values, ins).inputs = ins
        /\ Entry(e.name, e.value, e.values, ins).value = e.value
    BY DEF Entry
  <2>3. IsStored(Entry(e.name, e.value, e.values, ins)) /\ Entry(e.name, e.value, e.values, ins).name = e.name
    BY <1>1, EntryIsStored
  <2> QED
    BY <1>1, <1>3, <2>1, <2>2, <2>3 DEF Sound
<1>6. CASE opt.kind # "input"
  BY <1>2, <1>6
<1> QED
  BY <1>5, <1>6

\* Completing a sound list leaves a sound list.
LEMMA EntriesSound ==
    \A I, list, how : IsOptions(I.option) /\ AsksAll(I) /\ SoundList(list) => \A e \in Entries(I, list, how) : Sound(e)
<1> SUFFICES ASSUME NEW I, NEW list, NEW how, IsOptions(I.option), AsksAll(I), SoundList(list),
                    NEW e \in Entries(I, list, how)
    PROVE  Sound(e)
  OBVIOUS
<1> DEFINE From(o) == {WithDefaults(I.option[o], f) : f \in EntriesOf(list, o)}
<1>1. CASE e \in AllAnswers(I, how)
  BY <1>1, AnswersSound DEF AllAnswers, AsksAll
<1>2. CASE \E o \in DOMAIN I.option : e \in From(o)
  <2>1. PICK o \in DOMAIN I.option, f \in ToSet(list) : e = WithDefaults(I.option[o], f)
    BY <1>2 DEF EntriesOf
  <2> QED
    BY <2>1, DefaultsSound DEF SoundList
<1>3. e \in AllAnswers(I, how) \/ e \in UNION {From(o) : o \in DOMAIN I.option}
  BY DEF Entries
<1> HIDE DEF From
<1> QED
  BY <1>1, <1>2, <1>3

LEMMA SoundIsStored == \A list : SoundList(list) => StoredList(list)
BY DEF SoundList, StoredList, Sound

LEMMA OnlyConcat ==
    \A S, V : \A s, t \in Seq(S) : Only(s \o t, V) = Only(s, V) \o Only(t, V)
<1> SUFFICES ASSUME NEW S, NEW V, NEW s \in Seq(S)
    PROVE  \A t \in Seq(S) : Only(s \o t, V) = Only(s, V) \o Only(t, V)
  OBVIOUS
<1> DEFINE T == {t \in Seq(S) : Only(s \o t, V) = Only(s, V) \o Only(t, V)}
<1>0. Only(s, V) \in Seq(S)
  BY OnlyRange
<1>1. <<>> \in T
  BY <1>0, EmptySeq, OnlyEmpty, ConcatEmptySeq
<1>2. ASSUME NEW t \in Seq(S), t \in T, NEW e \in S PROVE Append(t, e) \in T
  <2> DEFINE a == Only(s, V)
             b == Only(t, V)
  <2>1. Append(t, e) \in Seq(S) /\ s \o t \in Seq(S) /\ a \in Seq(S) /\ b \in Seq(S) /\ <<e>> \in Seq(S)
    BY <1>0, AppendProperties, ConcatProperties, OnlyRange
  <2>2. Append(t, e) = t \o <<e>> /\ Append(s \o t, e) = (s \o t) \o <<e>>
    BY <2>1, AppendIsConcat
  <2>3. s \o Append(t, e) = Append(s \o t, e)
    BY <2>1, <2>2, ConcatAssociative
  <2>10. \A u \in Seq(S) : Only(Append(u, e), V) = IF e \in V THEN Append(Only(u, V), e) ELSE Only(u, V)
    BY OnlyAppend
  <2>4. Only(Append(s \o t, e), V) = IF e \in V THEN Append(Only(s \o t, V), e) ELSE Only(s \o t, V)
    BY <2>1, <2>10
  <2>5. Only(Append(t, e), V) = IF e \in V THEN Append(b, e) ELSE b
    BY OnlyAppend
  <2>6. Only(s \o t, V) = a \o b
    BY <1>2
  <2> HIDE DEF a, b
  <2>7. Append(b, e) = b \o <<e>> /\ Append(a \o b, e) = (a \o b) \o <<e>>
    BY <2>1, AppendIsConcat, ConcatProperties
  <2>8. a \o Append(b, e) = Append(a \o b, e)
    BY <2>1, <2>7, ConcatAssociative
  <2>9. Only(s \o Append(t, e), V) = a \o Only(Append(t, e), V)
    BY <2>3, <2>4, <2>5, <2>6, <2>8
  <2> QED
    BY <2>1, <2>9 DEF a
<1> HIDE DEF T
<1>3. Seq(S) \subseteq T
  BY <1>1, <1>2, ListInduction
<1> QED
  BY <1>3 DEF T

-----------------------------------------------------------------------------
(* What a run reads.                                                        *)

\* The entry is not passed over.
Uses(I, ctx, e) ==
    /\ e.name \in DOMAIN I.option
    /\ Fits(I.option[e.name], ctx)
    /\ IsChoice(I.option[e.name]) => e.value \in ToSet(I.option[e.name].cases)

Used(I, ctx, E) == {e \in E : Uses(I, ctx, e)}

Reading(I, e) == Read(I.option[e.name], e)

Readings(I, E) == {Reading(I, e) : e \in E}

EachRead(I, s) == [i \in DOMAIN s |-> Reading(I, s[i])]

LEMMA EachReadIs ==
    \A I, E : \A s \in Seq(E) :
        /\ EachRead(I, s) \in Seq(Readings(I, E))
        /\ Len(EachRead(I, s)) = Len(s)
        /\ \A i \in 1 .. Len(s) : EachRead(I, s)[i] = Reading(I, s[i])
<1> SUFFICES ASSUME NEW I, NEW E, NEW s \in Seq(E)
    PROVE  /\ EachRead(I, s) \in Seq(Readings(I, E))
           /\ Len(EachRead(I, s)) = Len(s)
           /\ \A i \in 1 .. Len(s) : EachRead(I, s)[i] = Reading(I, s[i])
  OBVIOUS
<1> DEFINE N == Len(s)
           R == Readings(I, E)
           r == EachRead(I, s)
<1>1. N \in Nat /\ DOMAIN s = 1 .. N /\ \A i \in 1 .. N : s[i] \in E
  BY LenProperties
<1>2. \A e \in E : Reading(I, e) \in R
  BY DEF Readings
<1> HIDE DEF R, N
<1>3. r \in [1 .. N -> R] /\ \A i \in 1 .. N : r[i] = Reading(I, s[i])
  BY <1>1, <1>2 DEF EachRead
<1> HIDE DEF r
<1>4. r \in Seq(R) /\ Len(r) = N
  BY <1>1, <1>3
<1> QED
  BY <1>3, <1>4 DEF R, r, N

LEMMA EachReadConcat ==
    \A I, E : \A s, t \in Seq(E) : EachRead(I, s \o t) = EachRead(I, s) \o EachRead(I, t)
<1> SUFFICES ASSUME NEW I, NEW E, NEW s \in Seq(E), NEW t \in Seq(E)
    PROVE  EachRead(I, s \o t) = EachRead(I, s) \o EachRead(I, t)
  OBVIOUS
<1> DEFINE u == s \o t
           R == Readings(I, E)
           a == EachRead(I, s)
           b == EachRead(I, t)
           c == EachRead(I, u)
           d == a \o b
<1>1. Len(s) \in Nat /\ Len(t) \in Nat
  BY LenProperties
<1>2. /\ u \in Seq(E) /\ Len(u) = Len(s) + Len(t)
      /\ \A i \in 1 .. Len(s) + Len(t) : u[i] = IF i <= Len(s) THEN s[i] ELSE t[i - Len(s)]
  BY ConcatProperties
<1>3. a \in Seq(R) /\ Len(a) = Len(s) /\ \A i \in 1 .. Len(s) : a[i] = Reading(I, s[i])
  BY EachReadIs
<1>4. b \in Seq(R) /\ Len(b) = Len(t) /\ \A i \in 1 .. Len(t) : b[i] = Reading(I, t[i])
  BY EachReadIs
<1> HIDE DEF u
<1>5. c \in Seq(R) /\ Len(c) = Len(u) /\ \A i \in 1 .. Len(u) : c[i] = Reading(I, u[i])
  BY <1>2, EachReadIs
<1> HIDE DEF a, b, c, R
<1>6. /\ d \in Seq(R) /\ Len(d) = Len(a) + Len(b)
      /\ \A i \in 1 .. Len(a) + Len(b) : d[i] = IF i <= Len(a) THEN a[i] ELSE b[i - Len(a)]
  <2>1. a \in Seq(R) /\ b \in Seq(R)
    BY <1>3, <1>4
  <2> QED
    BY ONLY <2>1, ConcatProperties DEF d
<1> HIDE DEF d
<1>7. ASSUME NEW i \in 1 .. Len(s) + Len(t) PROVE c[i] = d[i]
  <2>1. CASE i <= Len(s)
    <3>1. i \in 1 .. Len(s)
      BY <1>1, <2>1
    <3> QED
      BY <1>2, <1>3, <1>4, <1>5, <1>6, <2>1, <3>1
  <2>2. CASE ~(i <= Len(s))
    <3>1. i - Len(s) \in 1 .. Len(t)
      BY <1>1, <2>2
    <3> QED
      BY <1>2, <1>3, <1>4, <1>5, <1>6, <2>2, <3>1
  <2> QED
    BY <2>1, <2>2
<1>8. c = d
  BY <1>1, <1>2, <1>3, <1>4, <1>5, <1>6, <1>7, SeqEqual
<1> QED
  BY <1>8 DEF a, b, c, d, u

LEMMA EffectsAre ==
    \A I, ctx, E : \A s \in Seq(E) : Effects(I, ctx, s) = EachRead(I, Only(s, Used(I, ctx, E)))
<1> SUFFICES ASSUME NEW I, NEW ctx, NEW E, NEW s \in Seq(E)
    PROVE  Effects(I, ctx, s) = EachRead(I, Only(s, Used(I, ctx, E)))
  OBVIOUS
<1> DEFINE mine == Used(I, ctx, ToSet(s))
<1>1. \A i \in DOMAIN s : s[i] \in E /\ s[i] \in ToSet(s)
  BY DEF ToSet
<1>2. \A i \in DOMAIN s : s[i] \in mine <=> s[i] \in Used(I, ctx, E)
  BY <1>1 DEF Used
<1>4. mine = {e \in ToSet(s) : /\ e.name \in DOMAIN I.option
                               /\ Fits(I.option[e.name], ctx)
                               /\ IsChoice(I.option[e.name]) => e.value \in ToSet(I.option[e.name].cases)}
  BY DEF Used, Uses
<1> HIDE DEF mine
<1>3. Only(s, mine) = Only(s, Used(I, ctx, E))
  BY <1>2, OnlyAlike
<1>5. Effects(I, ctx, s) = EachRead(I, Only(s, mine))
  BY <1>4 DEF Effects, EachRead, Reading
<1> QED
  BY <1>3, <1>5

LEMMA EffectsEmpty == \A I, ctx : Effects(I, ctx, <<>>) = <<>>
<1> SUFFICES ASSUME NEW I, NEW ctx PROVE Effects(I, ctx, <<>>) = <<>>
  OBVIOUS
<1>1. <<>> \in Seq({})
  BY EmptySeq
<1>2. Effects(I, ctx, <<>>) = EachRead(I, <<>>)
  BY <1>1, EffectsAre, OnlyEmpty
<1> QED
  BY <1>2 DEF EachRead

\* A run reads two lists one behind the other.
LEMMA EffectsConcat ==
    \A I, ctx, E : \A s, t \in Seq(E) : Effects(I, ctx, s \o t) = Effects(I, ctx, s) \o Effects(I, ctx, t)
<1> SUFFICES ASSUME NEW I, NEW ctx, NEW E, NEW s \in Seq(E), NEW t \in Seq(E)
    PROVE  Effects(I, ctx, s \o t) = Effects(I, ctx, s) \o Effects(I, ctx, t)
  OBVIOUS
<1> DEFINE V == Used(I, ctx, E)
           u == s \o t
           a == Only(s, V)
           b == Only(t, V)
<1>1. u \in Seq(E)
  BY ConcatProperties
<1>2. Effects(I, ctx, u) = EachRead(I, Only(u, V))
  BY <1>1, EffectsAre
<1>3. Effects(I, ctx, s) = EachRead(I, a) /\ Effects(I, ctx, t) = EachRead(I, b)
  BY EffectsAre
<1>4. Only(u, V) = a \o b
  BY OnlyConcat
<1>5. a \in Seq(E) /\ b \in Seq(E)
  BY OnlyRange
<1> HIDE DEF a, b, V, u
<1>6. EachRead(I, a \o b) = EachRead(I, a) \o EachRead(I, b)
  BY <1>5, EachReadConcat
<1> QED
  BY <1>2, <1>3, <1>4, <1>6 DEF u

LEMMA EffectsOne == \A I, ctx, e : Uses(I, ctx, e) => Effects(I, ctx, <<e>>) = <<Reading(I, e)>>
<1> SUFFICES ASSUME NEW I, NEW ctx, NEW e, Uses(I, ctx, e) PROVE Effects(I, ctx, <<e>>) = <<Reading(I, e)>>
  OBVIOUS
<1> DEFINE E == {e}
           V == Used(I, ctx, E)
           s == <<e>>
<1>1. s \in Seq(E) /\ s \in Seq(V)
  BY DEF Used
<1>2. Effects(I, ctx, s) = EachRead(I, Only(s, V))
  BY <1>1, EffectsAre
<1>3. Only(s, V) = s
  BY <1>1, OnlyAll
<1>6. Len(s) = 1 /\ s[1] = e
  OBVIOUS
<1> HIDE DEF s, V, E
<1>7. /\ EachRead(I, s) \in Seq(Readings(I, E))
      /\ Len(EachRead(I, s)) = Len(s)
      /\ \A i \in 1 .. Len(s) : EachRead(I, s)[i] = Reading(I, s[i])
  BY <1>1, EachReadIs
<1>8. 1 \in 1 .. Len(s)
  BY <1>6
<1>4. EachRead(I, s) \in Seq(Readings(I, E)) /\ Len(EachRead(I, s)) = 1 /\ EachRead(I, s)[1] = Reading(I, e)
  BY <1>6, <1>7, <1>8
<1>5. EachRead(I, s) = <<Reading(I, e)>>
  BY <1>4
<1> QED
  BY <1>2, <1>3, <1>5 DEF s

\* An entry that passes the check is read as one of the answers to the prompt.
LEMMA EntryReads ==
    \A I : IsOptions(I.option) => \A o \in DOMAIN I.option : Asks(I.option[o]) => \A e :
        Sound(e) /\ e.name = o /\ ValidChoice(I.option[o], e) =>
            /\ Reading(I, e) \in Answers(I, o, "unverified")
            /\ Children(I.option[o], Reading(I, e)) = Children(I.option[o], e)
<1> SUFFICES ASSUME NEW I, IsOptions(I.option), NEW o \in DOMAIN I.option, Asks(I.option[o]), NEW e,
                    Sound(e), e.name = o, ValidChoice(I.option[o], e)
    PROVE  /\ Reading(I, e) \in Answers(I, o, "unverified")
           /\ Children(I.option[o], Reading(I, e)) = Children(I.option[o], e)
  OBVIOUS
<1> DEFINE opt == I.option[o]
           r == Reading(I, e)
<1>1. IsList(opt.cases) /\ opt.kind \in {"select", "switch", "checkbox", "input"} /\ CanAsk(opt)
      /\ opt.min \in Nat /\ opt.max \in Nat \cup {Unlimited}
  BY DEF IsOptions, Asks
<1>0. Len(opt.cases) \in Nat
  BY <1>1, ListFacts
<1>2. r = Read(opt, e)
  BY DEF Reading
<1>8. Chosen(opt, r) = Chosen(opt, e) => Children(opt, r) = Children(opt, e)
  <2> HIDE DEF opt, r
  <2> QED
    BY DEF Children
<1>3. CASE IsChoice(opt)
  <2>1. opt.kind # "checkbox" /\ opt.kind # "input"
    BY <1>3 DEF IsChoice
  <2>2. r = Entry(o, e.value, <<>>, NoInputs)
    BY <1>2, <1>3, <2>1 DEF Read
  <2>3. e.value \in ToSet(opt.cases)
    BY <1>3, <2>1 DEF ValidChoice
  <2>4. ~(Len(opt.cases) < (IF opt.kind = "switch" THEN 2 ELSE 1))
    BY <1>0, <1>1, <1>3 DEF CanAsk, IsChoice
  <2>5. e.value \in PickCase(opt, "unverified")
    BY <2>3, <2>4 DEF PickCase
  <2>6. r \in Answers(I, o, "unverified")
    BY <1>3, <2>1, <2>2, <2>5 DEF Answers
  <2>7. Chosen(opt, r) = Chosen(opt, e)
    BY <1>3, <2>1, <2>2 DEF Chosen, Entry
  <2> QED
    BY <1>8, <2>6, <2>7
<1>4. CASE opt.kind = "checkbox"
  <2>1. ~IsChoice(opt)
    BY <1>4 DEF IsChoice
  <2> DEFINE vs == e.values
             C == ToSet(opt.cases)
  <2>2. r = Entry(o, NoValue, vs, NoInputs)
    BY <1>2, <1>4, <2>1 DEF Read
  <2>3. ToSet(vs) \subseteq C /\ CountFits(opt, Len(vs))
    BY <1>4, <2>1 DEF ValidChoice
  <2>4. IsList(vs) /\ IsInjective(vs)
    BY DEF Sound, IsStored
  <2>5. opt.cases # <<>>
    <3>1. Len(opt.cases) >= 1
      BY <1>1, <1>4 DEF CanAsk
    <3> QED
      BY <3>1
  <2>6. vs \in Seq(C) /\ Len(vs) \in Nat
    BY <2>3, <2>4, ListFacts
  <2>7. vs \in PickCases(opt, "unverified")
    <3>1. CASE opt.max = 0
      <4>1. Len(vs) = 0
        BY <2>3, <2>6, <3>1 DEF CountFits, Unlimited
      <4>2. vs = <<>>
        BY <2>6, <4>1
      <4> QED
        BY <2>5, <3>1, <4>2 DEF PickCases
    <3>2. CASE opt.max # 0
      <4>1. IsFiniteSet(C)
        BY <1>1, RangeFinite
      <4>2. vs \in SetToAllKPermutations(C)
        BY <2>4, <2>6, <4>1, OncePermutes
      <4> QED
        BY <2>3, <2>5, <3>2, <4>2 DEF PickCases
    <3> QED
      BY <3>1, <3>2
  <2>8. r \in Answers(I, o, "unverified")
    BY <1>4, <2>1, <2>2, <2>7 DEF Answers
  <2>9. Chosen(opt, r) = Chosen(opt, e)
    BY <1>4, <2>1, <2>2 DEF Chosen, Entry
  <2> QED
    BY <1>8, <2>8, <2>9
<1>5. CASE opt.kind = "input"
  <2>1. ~IsChoice(opt) /\ opt.kind # "checkbox"
    BY <1>5 DEF IsChoice
  <2> DEFINE ins == [f \in opt.inputs |-> IF f \in DOMAIN e.inputs THEN e.inputs[f] ELSE Default]
  <2>2. r = Entry(o, NoValue, <<>>, ins)
    BY <1>2, <1>5, <2>1 DEF Read
  <2>3. ins \in TypeInputs(opt, "unverified")
    BY DEF Sound, TypeInputs
  <2> HIDE DEF ins
  <2>4. r \in Answers(I, o, "unverified")
    BY <1>5, <2>1, <2>2, <2>3 DEF Answers
  <2>5. Chosen(opt, r) = <<>> /\ Chosen(opt, e) = <<>>
    BY <1>5, <2>1 DEF Chosen
  <2> QED
    BY <1>8, <2>4, <2>5
<1> QED
  BY <1>1, <1>3, <1>4, <1>5 DEF IsChoice

\* The lists over E that a run reads as one of L.
Reads(I, ctx, E, L) == {l \in Seq(E) : Effects(I, ctx, l) \in L}

\* A run reads a forest of such lists as a forest.
LEMMA ForestReads ==
    \A I, ctx, E, S, tree, T, names :
        /\ IsList(names) /\ Closes(S)
        /\ \A o \in ToSet(names) : tree[o] \subseteq S /\ T[o] \subseteq Reads(I, ctx, E, tree[o])
        => Forest(T, names) \subseteq Reads(I, ctx, E, Forest(tree, names))
<1> SUFFICES ASSUME NEW I, NEW ctx, NEW E, NEW S, NEW tree, NEW T, NEW names, IsList(names), Closes(S),
                    \A o \in ToSet(names) : tree[o] \subseteq S /\ T[o] \subseteq Reads(I, ctx, E, tree[o])
    PROVE  Forest(T, names) \subseteq Reads(I, ctx, E, Forest(tree, names))
  OBVIOUS
<1> DEFINE N == Len(names)
           H(L) == Reads(I, ctx, E, L)
<1>1. N \in Nat /\ \A n \in 1 .. N : names[n] \in ToSet(names)
  BY ListFacts
<1>2. \A o \in ToSet(names) : tree[o] \subseteq S
  OBVIOUS
<1>3. PICK f : Planted(f, S, tree, names)
  BY <1>2, ForestGoes
<1>11. \A L : \A l : l \in H(L) <=> l \in Seq(E) /\ Effects(I, ctx, l) \in L
  BY DEF Reads
<1>12. \A o \in ToSet(names) : T[o] \subseteq Seq(E)
  BY <1>11
<1>13. Closes(Seq(E))
  BY SeqCloses
<1>4. PICK g : Planted(g, Seq(E), T, names)
  BY <1>12, <1>13, ForestGoes
<1>5. f[0] = {<<>>} /\ (\A n \in 1 .. N : f[n] = Joined(f[n - 1], tree[names[n]])) /\ Forest(tree, names) = f[N]
  BY <1>3 DEF Planted, Plants
<1>6. g[0] = {<<>>} /\ (\A n \in 1 .. N : g[n] = Joined(g[n - 1], T[names[n]])) /\ Forest(T, names) = g[N]
  BY <1>4 DEF Planted, Plants
<1>14. \A o \in ToSet(names) : T[o] \subseteq H(tree[o])
  OBVIOUS
<1> HIDE DEF N, H
<1> DEFINE W == {n \in 0 .. N : g[n] \subseteq H(f[n])}
<1>7. 0 \in W
  <2>1. <<>> \in Seq(E) /\ Effects(I, ctx, <<>>) \in f[0]
    BY <1>5, EmptySeq, EffectsEmpty
  <2>2. <<>> \in H(f[0])
    BY <1>11, <2>1
  <2> QED
    BY <1>1, <1>6, <2>2
<1>8. ASSUME NEW n \in Nat, n < N, n \in W PROVE n + 1 \in W
  <2>1. n + 1 \in 0 .. N /\ n + 1 \in 1 .. N /\ (n + 1) - 1 = n
    BY <1>1, <1>8
  <2>2. f[n + 1] = Joined(f[n], tree[names[n + 1]]) /\ g[n + 1] = Joined(g[n], T[names[n + 1]])
    BY <1>5, <1>6, <2>1
  <2>3. g[n] \subseteq H(f[n]) /\ T[names[n + 1]] \subseteq H(tree[names[n + 1]])
    BY <1>1, <1>8, <1>14, <2>1
  <2>5. \A l \in g[n + 1] : \E done \in g[n] : \E more \in T[names[n + 1]] : l = done \o more
    BY <2>2 DEF Joined
  <2>6. \A done \in f[n] : \A more \in tree[names[n + 1]] : done \o more \in f[n + 1]
    BY <2>2 DEF Joined
  <2>4. ASSUME NEW l \in g[n + 1] PROVE l \in H(f[n + 1])
    <3>1. PICK done \in g[n] : \E more \in T[names[n + 1]] : l = done \o more
      BY <2>5
    <3>2. PICK more \in T[names[n + 1]] : l = done \o more
      BY <3>1
    <3>3. done \in Seq(E) /\ Effects(I, ctx, done) \in f[n]
      BY <1>11, <2>3
    <3>4. more \in Seq(E) /\ Effects(I, ctx, more) \in tree[names[n + 1]]
      BY <1>11, <2>3
    <3>5. l \in Seq(E) /\ Effects(I, ctx, l) = Effects(I, ctx, done) \o Effects(I, ctx, more)
      BY <3>2, <3>3, <3>4, EffectsConcat, ConcatProperties
    <3>6. Effects(I, ctx, l) \in f[n + 1]
      BY <2>6, <3>3, <3>4, <3>5
    <3> QED
      BY <1>11, <3>5, <3>6
  <2> QED
    BY <2>1, <2>4
<1> HIDE DEF W
<1>9. 0 .. N \subseteq W
  BY <1>1, <1>7, <1>8, UpTo
<1>10. g[N] \subseteq H(f[N])
  BY <1>1, <1>9 DEF W
<1> QED
  BY <1>5, <1>6, <1>10 DEF H

\* Lists a run reads as the prompts' grow from entries it reads as answers.
LEMMA ReadsBear ==
    \A I, ctx, V, E :
        /\ IsOptions(I.option) /\ EndsEverywhere(I) /\ AsksAll(I)
        /\ \A o \in DOMAIN I.option : \A e \in V[o] :
               e \in E /\ e.name = o /\ Sound(e) /\ ValidChoice(I.option[o], e)
        => Bears([o \in STRING |-> Reads(I, ctx, E, Trees(I, ctx, "unverified")[o])], I, ctx, V, E)
<1> SUFFICES ASSUME NEW I, NEW ctx, NEW V, NEW E, IsOptions(I.option), EndsEverywhere(I), AsksAll(I),
                    \A o \in DOMAIN I.option : \A e \in V[o] :
                        e \in E /\ e.name = o /\ Sound(e) /\ ValidChoice(I.option[o], e)
    PROVE  Bears([o \in STRING |-> Reads(I, ctx, E, Trees(I, ctx, "unverified")[o])], I, ctx, V, E)
  OBVIOUS
<1> DEFINE tree == Trees(I, ctx, "unverified")
           T == [o \in STRING |-> Reads(I, ctx, E, tree[o])]
           S == Seq(AllAnswers(I, "unverified"))
<1>0. \A L : \A l : l \in Reads(I, ctx, E, L) <=> l \in Seq(E) /\ Effects(I, ctx, l) \in L
  BY DEF Reads
<1>1. T \in [STRING -> SUBSET Seq(E)]
  BY <1>0
<1>2. \A o \in STRING : tree[o] = Grown(tree, I, ctx, "unverified", o)
  <2>1. \A how : \A o \in STRING : Trees(I, ctx, how)[o] = Grown(Trees(I, ctx, how), I, ctx, how, o)
    BY TreesGrow
  <2> QED
    BY ONLY <2>1 DEF tree
<1>3. DOMAIN I.option \subseteq STRING /\ \A o \in DOMAIN I.option : Kids(I, o) \subseteq STRING
  BY DEF IsOptions, EndsEverywhere, Kids
<1>4. \A o \in STRING : tree[o] \subseteq S
  <2>1. \A o \in STRING : tree[o] \subseteq CompleteLists(I, ctx, AllAnswers(I, "unverified"), {o})
    BY TreesComplete
  <2> QED
    BY <2>1 DEF CompleteLists
<1>5. Closes(S)
  BY SeqCloses
<1>6. \A o \in STRING : T[o] = Reads(I, ctx, E, tree[o])
  OBVIOUS
<1> HIDE DEF tree, T, S
<1>7. ASSUME NEW o \in DOMAIN I.option, ~Fits(I.option[o], ctx) PROVE <<>> \in T[o]
  <2>1. tree[o] = {<<>>}
    BY <1>2, <1>3, <1>7 DEF Grown
  <2> DEFINE none == <<>>
  <2>2. none \in Seq(E) /\ Effects(I, ctx, none) \in tree[o]
    BY <2>1, EmptySeq, EffectsEmpty
  <2> HIDE DEF none
  <2>3. none \in Reads(I, ctx, E, tree[o])
    BY <1>0, <2>2
  <2>4. T[o] = Reads(I, ctx, E, tree[o])
    BY <1>3, <1>6
  <2> QED
    BY <2>3, <2>4 DEF none
<1>8. ASSUME NEW o \in DOMAIN I.option, Fits(I.option[o], ctx), NEW e \in V[o],
             NEW rest \in Forest(T, Children(I.option[o], e))
      PROVE  <<e>> \o rest \in T[o]
  <2> DEFINE names == Children(I.option[o], e)
             r == Reading(I, e)
             From(a, rests) == {<<a>> \o more : more \in rests}
             A == Answers(I, o, "unverified")
  <2>1. e \in E /\ e.name = o /\ Sound(e) /\ ValidChoice(I.option[o], e) /\ Asks(I.option[o])
    BY DEF AsksAll
  <2>2. r \in A /\ Children(I.option[o], r) = names
    BY <2>1, EntryReads
  <2>3. Selects(I.option[o], e)
    <3>1. /\ IsList(I.option[o].cases) /\ I.option[o].kind \in {"select", "switch", "checkbox", "input"}
          /\ IsStored(e) /\ ValidChoice(I.option[o], e)
      BY <2>1 DEF IsOptions, Sound
    <3> QED
      BY ONLY <3>1, ValidSelects
  <2>4. IsList(names) /\ ToSet(names) \subseteq Kids(I, o)
    BY <2>3, ChildrenAre
  <2>5. Uses(I, ctx, e)
    <3>1. ASSUME IsChoice(I.option[o]) PROVE e.value \in ToSet(I.option[o].cases)
      <4>1. I.option[o].kind # "checkbox" /\ I.option[o].kind # "input"
        BY <3>1 DEF IsChoice
      <4> QED
        BY <2>1, <3>1, <4>1 DEF ValidChoice
    <3> QED
      BY <1>8, <2>1, <3>1 DEF Uses
  <2>6. tree[o] = UNION {From(a, Forest(tree, Children(I.option[o], a))) : a \in A}
    BY <1>2, <1>3, <1>8 DEF Grown
  <2>7. \A a, rests : \A more \in rests : <<a>> \o more \in From(a, rests)
    OBVIOUS
  <2>9. rest \in Forest(T, names)
    OBVIOUS
  <2> HIDE DEF names, r, From, A
  <2>8. Forest(T, names) \subseteq Reads(I, ctx, E, Forest(tree, names))
    <3>1. \A c \in ToSet(names) : c \in STRING
      BY <1>3, <2>4
    <3>2. /\ IsList(names) /\ Closes(S)
          /\ \A c \in ToSet(names) : tree[c] \subseteq S /\ T[c] \subseteq Reads(I, ctx, E, tree[c])
      BY <1>4, <1>5, <1>6, <2>4, <3>1
    <3> QED
      BY ONLY <3>2, ForestReads
  <2>10. rest \in Seq(E) /\ Effects(I, ctx, rest) \in Forest(tree, names)
    BY <1>0, <2>8, <2>9
  <2>11. <<e>> \in Seq(E) /\ Effects(I, ctx, <<e>>) = <<r>>
    BY <2>1, <2>5, EffectsOne DEF r
  <2> DEFINE one == <<e>>
             both == one \o rest
             first == <<r>>
             after == Effects(I, ctx, rest)
  <2>16. one \in Seq(E) /\ Effects(I, ctx, one) = first /\ rest \in Seq(E) /\ after \in Forest(tree, names)
    BY <2>10, <2>11
  <2>17. first \o after \in From(r, Forest(tree, names))
    BY <2>7, <2>16
  <2> HIDE DEF one, first
  <2>18. \A s, t \in Seq(E) : Effects(I, ctx, s \o t) = Effects(I, ctx, s) \o Effects(I, ctx, t)
    BY EffectsConcat
  <2>12. Effects(I, ctx, both) = first \o after
    BY <2>16, <2>18
  <2>15. both \in Seq(E)
    BY <2>16, ConcatProperties
  <2> HIDE DEF both, after
  <2>14. Effects(I, ctx, both) \in tree[o]
    BY <2>2, <2>6, <2>12, <2>17
  <2>19. both \in Reads(I, ctx, E, tree[o])
    BY <1>0, <2>14, <2>15
  <2>20. T[o] = Reads(I, ctx, E, tree[o])
    BY <1>3, <1>6
  <2> QED
    BY <2>19, <2>20 DEF both, one
<1> QED
  BY <1>1, <1>7, <1>8 DEF Bears, T, tree

\* What completing a sound list leaves is sound, and a run reads it as one of
\* the lists the prompts make.
LEMMA EnsuredReads ==
    \A I, ctx, roots, list, how :
        /\ IsOptions(I.option) /\ EndsEverywhere(I) /\ AsksAll(I) /\ SoundList(list)
        /\ IsList(roots) /\ ToSet(roots) \subseteq STRING
        => \A p \in Ensured(I, ctx, roots, list, how) :
               /\ SoundList(p.out)
               /\ p.ok => Effects(I, ctx, p.out) \in Filled(I, ctx, roots, "unverified")
<1> SUFFICES ASSUME NEW I, NEW ctx, NEW roots, NEW list, NEW how,
                    IsOptions(I.option), EndsEverywhere(I), AsksAll(I), SoundList(list),
                    IsList(roots), ToSet(roots) \subseteq STRING,
                    NEW p \in Ensured(I, ctx, roots, list, how)
    PROVE  /\ SoundList(p.out)
           /\ p.ok => Effects(I, ctx, p.out) \in Filled(I, ctx, roots, "unverified")
  OBVIOUS
<1> DEFINE E == Entries(I, list, how)
           V == Gifts(I, list, how)
           tree == Trees(I, ctx, "unverified")
           T == [o \in STRING |-> Reads(I, ctx, E, tree[o])]
           S == Seq(AllAnswers(I, "unverified"))
<1>1. StoredList(list)
  BY SoundIsStored
<1>2. \A e \in E : Sound(e)
  BY EntriesSound
<1>3. ASSUME NEW o \in DOMAIN I.option, NEW e \in V[o]
      PROVE  e \in E /\ e.name = o /\ Sound(e) /\ ValidChoice(I.option[o], e)
  <2>1. e \in Given(I, o, list, how)
    BY DEF Gifts
  <2>4. \A x \in Given(I, o, list, how) : x \in E /\ x.name = o
    <3>1. IsOptions(I.option) /\ StoredList(list)
      BY <1>1
    <3>2. \A q \in DOMAIN I.option : \A x \in Given(I, q, list, how) :
              x \in Entries(I, list, how) /\ x.name = q /\ IsStored(x) /\ Selects(I.option[q], x)
      BY ONLY <3>1, GivenAre
    <3> QED
      BY <3>2
  <2>2. e \in E /\ e.name = o
    BY <2>1, <2>4
  <2>3. ValidChoice(I.option[o], e)
    <3>1. CASE e \in Answers(I, o, how)
      BY <3>1, AnswersSound DEF AsksAll
    <3>2. CASE e \notin Answers(I, o, how)
      BY <2>1, <3>2 DEF Given
    <3> QED
      BY <3>1, <3>2
  <2> QED
    BY <1>2, <2>2, <2>3
<1>4. \A o \in STRING : tree[o] \subseteq S
  <2>1. \A o \in STRING : tree[o] \subseteq CompleteLists(I, ctx, AllAnswers(I, "unverified"), {o})
    BY TreesComplete
  <2> QED
    BY <2>1 DEF CompleteLists
<1>5. Closes(S)
  BY SeqCloses
<1>6. \A o \in STRING : T[o] = Reads(I, ctx, E, tree[o])
  OBVIOUS
<1>7. Bears(T, I, ctx, V, E)
  <2> HIDE DEF E, V
  <2>1. \A o \in DOMAIN I.option : \A e \in V[o] :
            e \in E /\ e.name = o /\ Sound(e) /\ ValidChoice(I.option[o], e)
    BY <1>3
  <2> QED
    BY <2>1, ReadsBear
<1> HIDE DEF E, V, T, S, tree
<1>8. StoredList(list) /\ Provided(T, I, ctx, list, how, E) /\ IsList(roots) /\ ToSet(roots) \subseteq STRING
  BY <1>1, <1>7 DEF Provided, V
<1>9. p.out \in Seq(E) /\ (p.ok => p.out \in Forest(T, roots))
  BY <1>8, EnsuredBears DEF E
<1>10. SoundList(p.out)
  BY <1>2, <1>9, SeqIsList DEF SoundList
<1>11. Forest(T, roots) \subseteq Reads(I, ctx, E, Forest(tree, roots))
  <2>1. /\ IsList(roots) /\ Closes(S)
        /\ \A c \in ToSet(roots) : tree[c] \subseteq S /\ T[c] \subseteq Reads(I, ctx, E, tree[c])
    BY <1>4, <1>5, <1>6
  <2> QED
    BY ONLY <2>1, ForestReads
<1>12. Filled(I, ctx, roots, "unverified") = Forest(tree, roots)
  BY DEF Filled, tree
<1> QED
  BY <1>9, <1>10, <1>11, <1>12 DEF Reads

-----------------------------------------------------------------------------
(* What the checks at a start and the menu make of sound lists.             *)

LEMMA NothingIsSound == SoundList(<<>>)
<1>1. ToSet(<<>>) = {}
  BY DEF ToSet
<1> QED
  BY <1>1, NothingIsList DEF SoundList

\* A list over sound entries.
LEMMA SoundOver == \A E : (\A e \in E : Sound(e)) => \A s \in Seq(E) : SoundList(s)
<1> SUFFICES ASSUME NEW E, \A e \in E : Sound(e), NEW s \in Seq(E) PROVE SoundList(s)
  OBVIOUS
<1>1. IsList(s) /\ ToSet(s) \subseteq E
  BY SeqIsList
<1> QED
  BY <1>1 DEF SoundList

LEMMA SoundOnly == \A list, V : SoundList(list) => SoundList(Only(list, V))
<1> SUFFICES ASSUME NEW list, NEW V, SoundList(list) PROVE SoundList(Only(list, V))
  OBVIOUS
<1>1. list \in Seq(ToSet(list)) /\ \A e \in ToSet(list) : Sound(e)
  BY DEF SoundList, IsList
<1>2. Only(list, V) \in Seq(ToSet(list))
  BY <1>1, OnlyRange
<1> QED
  BY <1>1, <1>2, SoundOver

\* Each entry of a list is made another one.
LEMMA SoundEach ==
    \A list, to : IsList(list) /\ to = [i \in DOMAIN list |-> to[i]] /\ (\A i \in DOMAIN list : Sound(to[i])) =>
        SoundList(to)
<1> SUFFICES ASSUME NEW list, NEW to, IsList(list), to = [i \in DOMAIN list |-> to[i]],
                    \A i \in DOMAIN list : Sound(to[i])
    PROVE  SoundList(to)
  OBVIOUS
<1> DEFINE E == ToSet(to)
<1>1. Len(list) \in Nat /\ DOMAIN list = 1 .. Len(list)
  BY ListFacts
<1>2. DOMAIN to = 1 .. Len(list)
  BY <1>1
<1>3. E = {to[i] : i \in 1 .. Len(list)}
  BY <1>2 DEF ToSet
<1> HIDE DEF E
<1>4. to \in [1 .. Len(list) -> E]
  BY <1>1, <1>3
<1>5. to \in Seq(E) /\ \A e \in E : Sound(e)
  BY <1>1, <1>3, <1>4
<1> QED
  BY <1>5, SoundOver

\* What a check keeps of a sound entry is sound.
LEMMA CleanedIsSound ==
    \A I, e : Sound(e) =>
        /\ Sound(Deduped(I, e))
        /\ \A F : Sound([e EXCEPT !.inputs = [f \in DOMAIN @ \cap F |-> @[f]]])
<1> SUFFICES ASSUME NEW I, NEW e, Sound(e)
    PROVE  /\ Sound(Deduped(I, e))
           /\ \A F : Sound([e EXCEPT !.inputs = [f \in DOMAIN @ \cap F |-> @[f]]])
  OBVIOUS
<1>1. /\ e = Entry(e.name, e.value, e.values, e.inputs) /\ IsList(e.values) /\ IsInjective(e.values)
      /\ e.name \in STRING /\ e.value \in STRING /\ ToSet(e.values) \subseteq STRING
      /\ \A f \in DOMAIN e.inputs : e.inputs[f] \in Texts \cup {Default}
  BY DEF Sound, IsStored
<1>2. ASSUME NEW F PROVE Sound([e EXCEPT !.inputs = [f \in DOMAIN @ \cap F |-> @[f]]])
  <2> DEFINE ins == [f \in DOMAIN e.inputs \cap F |-> e.inputs[f]]
             d == [e EXCEPT !.inputs = ins]
  <2>1. \A f \in DOMAIN ins : ins[f] \in Texts \cup {Default}
    BY <1>1
  <2> HIDE DEF ins
  <2>2. d = Entry(e.name, e.value, e.values, ins)
    BY <1>1 DEF Entry
  <2>3. d.name = e.name /\ d.value = e.value /\ d.values = e.values /\ d.inputs = ins
    BY <2>2 DEF Entry
  <2>4. IsStored(d)
    BY <1>1, <2>2, EntryIsStored
  <2> HIDE DEF d
  <2>5. Sound(d)
    BY <1>1, <2>1, <2>3, <2>4 DEF Sound
  <2> QED
    BY <2>5 DEF d, ins
<1> DEFINE once == Unique(e.values)
<1>3. IsList(once) /\ IsInjective(once) /\ ToSet(once) = ToSet(e.values)
  <2> DEFINE none == <<>>
             S == ToSet(e.values)
  <2>1. none \in Seq(S) /\ IsInjective(none) /\ e.values \in Seq(S)
    BY <1>1, OnceEmpty DEF IsList
  <2> HIDE DEF none, S
  <2>2. IsInjective(WithNew(none, e.values)) /\ ToSet(WithNew(none, e.values)) = ToSet(none) \cup ToSet(e.values)
    BY <2>1, WithNewOnce
  <2>3. IsList(once)
    BY <1>1, NothingIsList, WithNewIsList DEF Unique
  <2>4. ToSet(none) = {}
    BY DEF none, ToSet
  <2> QED
    BY <2>2, <2>3, <2>4 DEF Unique, none
<1>4. Deduped(I, e) = e \/ Deduped(I, e) = [e EXCEPT !.values = once]
  BY DEF Deduped
<1> HIDE DEF once
<1> DEFINE d == [e EXCEPT !.values = once]
<1>5. d = Entry(e.name, e.value, once, e.inputs)
  BY <1>1 DEF Entry
<1>6. d.name = e.name /\ d.value = e.value /\ d.values = once /\ d.inputs = e.inputs
  BY <1>5 DEF Entry
<1>7. IsStored(d)
  BY <1>3, <1>5, EntryIsStored
<1>8. Sound(d)
  <2> HIDE DEF d
  <2> QED
    BY <1>1, <1>3, <1>6, <1>7 DEF Sound
<1> QED
  BY <1>2, <1>4, <1>8 DEF d

LEMMA CheckLevelSound == \A I, list : SoundList(list) => SoundList(CheckLevel(I, list))
<1> SUFFICES ASSUME NEW I, NEW list, SoundList(list) PROVE SoundList(CheckLevel(I, list))
  OBVIOUS
<1> DEFINE Known(e) == e.name \in DOMAIN I.option
           Valid(e) == \/ ValidChoice(I.option[e.name], e)
                       \/ IsChoice(I.option[e.name]) /\ e.value = NoValue
           Cleaned(e) ==
               IF I.option[e.name].kind = "input"
               THEN [e EXCEPT !.inputs = [f \in DOMAIN @ \cap I.option[e.name].inputs |-> @[f]]]
               ELSE Deduped(I, e)
           K == {e \in ToSet(list) : Known(e)}
           known == Only(list, K)
           cleaned == [i \in DOMAIN known |-> Cleaned(known[i])]
           V == {e \in ToSet(cleaned) : Valid(e)}
<1>1. CheckLevel(I, list) = Only(cleaned, V)
  BY DEF CheckLevel
<1>2. \A e : Sound(e) => Sound(Cleaned(e))
  BY CleanedIsSound
<1> HIDE DEF K, V, Cleaned
<1>3. SoundList(known)
  BY SoundOnly
<1> HIDE DEF known
<1>4. \A i \in DOMAIN known : Sound(known[i])
  BY <1>3 DEF SoundList, ToSet
<1>5. cleaned = [i \in DOMAIN known |-> cleaned[i]] /\ \A i \in DOMAIN known : Sound(cleaned[i])
  BY <1>2, <1>4
<1> HIDE DEF cleaned
<1>6. SoundList(cleaned)
  BY <1>3, <1>5, SoundEach DEF SoundList
<1> QED
  BY <1>1, <1>6, SoundOnly

\* What process_option makes.
LEMMA FilledSound ==
    \A I, ctx, how : IsOptions(I.option) /\ EndsEverywhere(I) /\ AsksAll(I) =>
        /\ \A o \in STRING : \A list \in Trees(I, ctx, how)[o] : SoundList(list)
        /\ \A roots : IsList(roots) /\ ToSet(roots) \subseteq STRING =>
               \A list \in Filled(I, ctx, roots, how) : SoundList(list)
<1> SUFFICES ASSUME NEW I, NEW ctx, NEW how, IsOptions(I.option), EndsEverywhere(I), AsksAll(I)
    PROVE  /\ \A o \in STRING : \A list \in Trees(I, ctx, how)[o] : SoundList(list)
           /\ \A roots : IsList(roots) /\ ToSet(roots) \subseteq STRING =>
                  \A list \in Filled(I, ctx, roots, how) : SoundList(list)
  OBVIOUS
<1> DEFINE E == AllAnswers(I, how)
           tree == Trees(I, ctx, how)
           S == Seq(E)
<1>1. \A o \in STRING : tree[o] \subseteq S
  <2>1. \A o \in STRING : tree[o] \subseteq CompleteLists(I, ctx, E, {o})
    BY TreesComplete
  <2> QED
    BY <2>1 DEF CompleteLists
<1>2. \A e \in E : Sound(e)
  BY AnswersSound DEF AllAnswers, AsksAll
<1>3. Closes(S)
  BY SeqCloses
<1>4. \A roots : Filled(I, ctx, roots, how) = Forest(tree, roots)
  BY DEF Filled
<1>5. \A s \in S : SoundList(s)
  BY <1>2, SoundOver
<1> HIDE DEF E, tree, S
<1>6. ASSUME NEW roots, IsList(roots), ToSet(roots) \subseteq STRING
      PROVE  \A list \in Filled(I, ctx, roots, how) : SoundList(list)
  <2>1. \A o \in ToSet(roots) : tree[o] \subseteq S
    BY <1>1, <1>6
  <2>2. Forest(tree, roots) \subseteq S
    BY <1>3, <1>6, <2>1, ForestFacts
  <2> QED
    BY <1>4, <1>5, <2>2
<1> QED
  BY <1>1, <1>5, <1>6 DEF tree

LEMMA SoundConcat == \A s, t : SoundList(s) /\ SoundList(t) => SoundList(s \o t)
<1> SUFFICES ASSUME NEW s, NEW t, SoundList(s), SoundList(t) PROVE SoundList(s \o t)
  OBVIOUS
<1>1. IsList(s \o t) /\ ToSet(s \o t) = ToSet(s) \cup ToSet(t)
  BY ConcatLists DEF SoundList
<1> QED
  BY <1>1 DEF SoundList

LEMMA SoundSub ==
    \A s : SoundList(s) => \A m \in 1 .. Len(s) + 1, n \in 0 .. Len(s) : SoundList(SubSeq(s, m, n))
<1> SUFFICES ASSUME NEW s, SoundList(s), NEW m \in 1 .. Len(s) + 1, NEW n \in 0 .. Len(s)
    PROVE  SoundList(SubSeq(s, m, n))
  OBVIOUS
<1>1. s \in Seq(ToSet(s)) /\ Len(s) \in Nat /\ \A e \in ToSet(s) : Sound(e)
  BY ListFacts DEF SoundList, IsList
<1>2. CASE m > n
  <2>1. SubSeq(s, m, n) = <<>>
    BY <1>1, <1>2, SubSeqEmpty
  <2> QED
    BY <2>1, NothingIsSound
<1>3. CASE m <= n
  <2>1. m \in 1 .. Len(s) /\ n \in m - 1 .. Len(s)
    BY <1>1, <1>3
  <2>2. SubSeq(s, m, n) \in Seq(ToSet(s))
    BY <1>1, <2>1, SubSeqProperties
  <2> QED
    BY <1>1, <2>2, SoundOver
<1> QED
  BY <1>1, <1>2, <1>3

\* Behind each place of a list there is a first stop, the end of the list at last.
LEMMA FirstStop ==
    \A N \in Nat : \A i \in 1 .. N : \A S :
        \E k \in i + 1 .. N + 1 : (k = N + 1 \/ k \in S) /\ \A j \in i + 1 .. k - 1 : j \notin S
<1> SUFFICES ASSUME NEW N \in Nat, NEW i \in 1 .. N, NEW S
    PROVE  \E k \in i + 1 .. N + 1 : (k = N + 1 \/ k \in S) /\ \A j \in i + 1 .. k - 1 : j \notin S
  OBVIOUS
<1> DEFINE stops == {k \in i + 1 .. N + 1 : k = N + 1 \/ k \in S}
<1>1. stops \in SUBSET Nat /\ N + 1 \in stops
  OBVIOUS
<1>2. PICK k \in stops : \A j \in stops : k <= j
  <2> HIDE DEF stops
  <2> QED
    BY <1>1, Least
<1>3. k \in i + 1 .. N + 1 /\ (k = N + 1 \/ k \in S)
  OBVIOUS
<1>4. ASSUME NEW j \in i + 1 .. k - 1 PROVE j \notin S
  <2>1. j \in i + 1 .. N + 1 /\ ~(k <= j)
    BY <1>3
  <2> QED
    BY <1>2, <2>1
<1> QED
  BY <1>3, <1>4

\* An edited list has what it had and what was answered.
LEMMA EditedSound ==
    \A I, ctx, list, new : SoundList(list) /\ SoundList(new) => \A i \in DOMAIN list :
        SoundList(Edited(I, ctx, list, i, new))
<1> SUFFICES ASSUME NEW I, NEW ctx, NEW list, NEW new, SoundList(list), SoundList(new), NEW i \in DOMAIN list
    PROVE  SoundList(Edited(I, ctx, list, i, new))
  OBVIOUS
<1> DEFINE N == Len(list)
           In(j) == \E k \in i .. j - 1 : list[j].name \in ActiveChildren(I, ctx, list[k].name, list)
           Stops(k) == (k = N + 1 \/ ~In(k)) /\ \A j \in i + 1 .. k - 1 : In(j)
           end == CHOOSE k \in i + 1 .. N + 1 : Stops(k)
           S == {j \in i + 1 .. N + 1 : ~In(j)}
<1>1. Edited(I, ctx, list, i, new) = SubSeq(list, 1, i - 1) \o new \o SubSeq(list, end, N)
  BY DEF Edited
<1>2. N \in Nat /\ DOMAIN list = 1 .. N
  BY ListFacts DEF SoundList
<1> HIDE DEF In
<1>3. \E k \in i + 1 .. N + 1 : Stops(k)
  <2>1. PICK k \in i + 1 .. N + 1 : (k = N + 1 \/ k \in S) /\ \A j \in i + 1 .. k - 1 : j \notin S
    <3> HIDE DEF N, S
    <3> QED
      BY <1>2, FirstStop
  <2>2. \A j \in i + 1 .. k - 1 : j \in i + 1 .. N + 1
    BY <1>2
  <2>3. Stops(k)
    BY <2>1, <2>2
  <2> QED
    BY <2>3
<1> HIDE DEF Stops
<1>4. end \in i + 1 .. N + 1
  BY <1>3
<1> HIDE DEF end
<1>5. 1 \in 1 .. N + 1 /\ i - 1 \in 0 .. N /\ end \in 1 .. N + 1 /\ N \in 0 .. N
  BY <1>2, <1>4
<1>6. SoundList(SubSeq(list, 1, i - 1)) /\ SoundList(SubSeq(list, end, N))
  BY <1>5, SoundSub
<1> HIDE DEF N
<1>7. SoundList(SubSeq(list, 1, i - 1) \o new)
  BY <1>6, SoundConcat
<1> QED
  BY <1>1, <1>6, <1>7, SoundConcat

-----------------------------------------------------------------------------
(* Where subtrees end.                                                      *)

\* Where a subtree goes on behind at when c is to come next, t being the ends.
FollowedTo(t, I, ctx, list, at, c) ==
    IF at = 0 \/ c \notin DOMAIN I.option THEN 0
    ELSE IF ~Fits(I.option[c], ctx) THEN at
    ELSE IF at \in DOMAIN list /\ list[at].name = c THEN t[at] ELSE 0

PastAll(t, I, ctx, list, i, names) ==
    LET past[n \in 0 .. Len(names)] ==
            IF n = 0 THEN i + 1 ELSE FollowedTo(t, I, ctx, list, past[n - 1], names[n])
    IN past[Len(names)]

\* A subtree ends behind its first entry or not at all.
Behind(list, i) == {0} \cup i + 1 .. Len(list) + 1

Ends(list) == {t \in [1 .. Len(list) -> 0 .. Len(list) + 1] : \A i \in 1 .. Len(list) : t[i] \in Behind(list, i)}

SameBehind(list, i, u, t) == \A j \in 1 .. Len(list) : i < j => u[j] = t[j]

\* What is followed from place to place.
Passing(f, t, I, ctx, list, i, names) ==
    /\ f[0] = i + 1
    /\ \A n \in 1 .. Len(names) : f[n] = FollowedTo(t, I, ctx, list, f[n - 1], names[n])

LEMMA FollowedIs ==
    \A I, ctx, list : IsList(list) => \A t \in Ends(list) : \A i \in 1 .. Len(list) : \A at \in Behind(list, i) : \A c :
        /\ FollowedTo(t, I, ctx, list, at, c) \in Behind(list, i)
        /\ \A u : SameBehind(list, i, u, t) =>
               FollowedTo(u, I, ctx, list, at, c) = FollowedTo(t, I, ctx, list, at, c)
<1> SUFFICES ASSUME NEW I, NEW ctx, NEW list, IsList(list), NEW t \in Ends(list), NEW i \in 1 .. Len(list),
                    NEW at \in Behind(list, i), NEW c
    PROVE  /\ FollowedTo(t, I, ctx, list, at, c) \in Behind(list, i)
           /\ \A u : SameBehind(list, i, u, t) =>
                  FollowedTo(u, I, ctx, list, at, c) = FollowedTo(t, I, ctx, list, at, c)
  OBVIOUS
<1>1. Len(list) \in Nat /\ DOMAIN list = 1 .. Len(list)
  BY ListFacts
<1>2. CASE at = 0 \/ c \notin DOMAIN I.option
  BY <1>2 DEF FollowedTo, Behind
<1>3. CASE at # 0 /\ c \in DOMAIN I.option
  <2>1. CASE at \in DOMAIN list
    <3>1. at \in 1 .. Len(list) /\ i < at
      BY <1>1, <1>3, <2>1 DEF Behind
    <3>2. t[at] \in Behind(list, at)
      BY <3>1 DEF Ends
    <3>3. t[at] \in Behind(list, i)
      BY <1>1, <3>1, <3>2 DEF Behind
    <3>4. at \in Behind(list, i) /\ 0 \in Behind(list, i)
      BY DEF Behind
    <3>5. ASSUME NEW u PROVE FollowedTo(u, I, ctx, list, at, c) =
              IF ~Fits(I.option[c], ctx) THEN at ELSE IF list[at].name = c THEN u[at] ELSE 0
      BY <2>1, <1>3 DEF FollowedTo
    <3>6. FollowedTo(t, I, ctx, list, at, c) \in Behind(list, i)
      BY <3>3, <3>4, <3>5
    <3>7. ASSUME NEW u, SameBehind(list, i, u, t)
          PROVE  FollowedTo(u, I, ctx, list, at, c) = FollowedTo(t, I, ctx, list, at, c)
      <4>1. u[at] = t[at]
        BY <3>1, <3>7 DEF SameBehind
      <4> QED
        BY <3>5, <4>1
    <3> QED
      BY <3>6, <3>7
  <2>2. CASE at \notin DOMAIN list
    <3>1. 0 \in Behind(list, i)
      BY DEF Behind
    <3> QED
      BY <3>1, <2>2, <1>3 DEF FollowedTo
  <2> QED
    BY <2>1, <2>2
<1> QED
  BY <1>2, <1>3

GoesPast(u, I, ctx, list, i, names) ==
    \E f \in [0 .. Len(names) -> Behind(list, i)] :
        Passing(f, u, I, ctx, list, i, names) /\ PastAll(u, I, ctx, list, i, names) = f[Len(names)]

LEMMA PastGoes ==
    \A I, ctx, list, names : IsList(list) /\ IsList(names) => \A t \in Ends(list) : \A i \in 1 .. Len(list) :
        \A u : SameBehind(list, i, u, t) => GoesPast(u, I, ctx, list, i, names)
<1> SUFFICES ASSUME NEW I, NEW ctx, NEW list, NEW names, IsList(list), IsList(names), NEW t \in Ends(list),
                    NEW i \in 1 .. Len(list), NEW u, SameBehind(list, i, u, t)
    PROVE  GoesPast(u, I, ctx, list, i, names)
  OBVIOUS
<1> DEFINE N == Len(names)
           V == Behind(list, i)
           To(at, n) == FollowedTo(u, I, ctx, list, at, names[n])
           G == [p \in Nat \X V |-> To(p[2], p[1])]
           past == CHOOSE h : h = [n \in 0 .. Len(names) |->
                       IF n = 0 THEN i + 1 ELSE FollowedTo(u, I, ctx, list, h[n - 1], names[n])]
<1>1. N \in Nat /\ Len(list) \in Nat
  BY ListFacts
<1>2. i + 1 \in V
  BY <1>1 DEF Behind
<1>3. \A at \in V : \A n : To(at, n) \in V
  <2>1. \A at \in Behind(list, i) : \A c :
            /\ FollowedTo(t, I, ctx, list, at, c) \in Behind(list, i)
            /\ \A w : SameBehind(list, i, w, t) =>
                   FollowedTo(w, I, ctx, list, at, c) = FollowedTo(t, I, ctx, list, at, c)
    BY FollowedIs
  <2>2. \A at \in Behind(list, i) : \A c : FollowedTo(u, I, ctx, list, at, c) \in Behind(list, i)
    BY <2>1
  <2> QED
    BY <2>2
<1>4. PastAll(u, I, ctx, list, i, names) = past[N]
  BY DEF PastAll
<1>5. \A f : f = [n \in 0 .. N |-> IF n = 0 THEN i + 1 ELSE To(f[n - 1], n)] =>
          past = [n \in 0 .. N |-> IF n = 0 THEN i + 1 ELSE To(past[n - 1], n)]
  OBVIOUS
<1> HIDE DEF past, N, V, To
<1>6. G \in Steps(V)
  <2>1. \A p \in Nat \X V : To(p[2], p[1]) \in V
    BY <1>3
  <2>2. G \in [Nat \X V -> V]
    BY <2>1
  <2> QED
    BY <2>2 DEF Steps
<1> HIDE DEF G
<1>7. PICK f \in [0 .. N -> V] : Obeys(f, i + 1, G, N)
  BY <1>1, <1>2, <1>6, Recursion
<1>8. f[0] = i + 1 /\ \A n \in 1 .. N : f[n] = To(f[n - 1], n)
  <2>1. ASSUME NEW n \in 1 .. N PROVE f[n] = To(f[n - 1], n)
    <3>1. n \in Nat /\ n - 1 \in 0 .. N
      BY <1>1
    <3>2. f[n - 1] \in V
      BY <3>1
    <3>3. G[<<n, f[n - 1]>>] = To(f[n - 1], n)
      BY <3>1, <3>2 DEF G
    <3> QED
      BY <1>7, <3>3 DEF Obeys
  <2> QED
    BY <1>7, <2>1 DEF Obeys
<1>9. f = [n \in 0 .. N |-> IF n = 0 THEN i + 1 ELSE To(f[n - 1], n)]
  <2>1. \A n \in 0 .. N : f[n] = IF n = 0 THEN i + 1 ELSE To(f[n - 1], n)
    BY <1>1, <1>8
  <2> QED
    BY <2>1
<1>10. past = [n \in 0 .. N |-> IF n = 0 THEN i + 1 ELSE To(past[n - 1], n)]
  BY <1>5, <1>9
<1> DEFINE Agrees == {n \in 0 .. N : past[n] = f[n]}
<1>11. 0 \in Agrees
  BY <1>1, <1>8, <1>10
<1>12. ASSUME NEW n \in Nat, n < N, n \in Agrees PROVE n + 1 \in Agrees
  <2>1. n + 1 \in 0 .. N /\ n + 1 \in 1 .. N /\ n + 1 # 0 /\ (n + 1) - 1 = n
    BY <1>1, <1>12
  <2>2. past[n + 1] = To(past[n], n + 1)
    BY <1>10, <2>1
  <2>3. f[n + 1] = To(f[n], n + 1)
    BY <1>8, <2>1
  <2> QED
    BY <1>12, <2>1, <2>2, <2>3
<1> HIDE DEF Agrees
<1>13. 0 .. N \subseteq Agrees
  BY <1>1, <1>11, <1>12, UpTo
<1>14. past[N] = f[N]
  BY <1>1, <1>13 DEF Agrees
<1>15. Passing(f, u, I, ctx, list, i, names)
  BY <1>8 DEF Passing, N, To
<1> QED
  BY <1>4, <1>14, <1>15 DEF N, V, GoesPast

\* What follows an entry depends on the ends behind it only.
LEMMA PastIs ==
    \A I, ctx, list, names : IsList(list) /\ IsList(names) => \A t \in Ends(list) : \A i \in 1 .. Len(list) :
        /\ PastAll(t, I, ctx, list, i, names) \in Behind(list, i)
        /\ \A u : SameBehind(list, i, u, t) =>
               PastAll(u, I, ctx, list, i, names) = PastAll(t, I, ctx, list, i, names)
<1> SUFFICES ASSUME NEW I, NEW ctx, NEW list, NEW names, IsList(list), IsList(names), NEW t \in Ends(list),
                    NEW i \in 1 .. Len(list)
    PROVE  /\ PastAll(t, I, ctx, list, i, names) \in Behind(list, i)
           /\ \A u : SameBehind(list, i, u, t) =>
                  PastAll(u, I, ctx, list, i, names) = PastAll(t, I, ctx, list, i, names)
  OBVIOUS
<1> DEFINE N == Len(names)
<1>1. N \in Nat
  BY ListFacts
<1>0. ASSUME NEW u, SameBehind(list, i, u, t)
      PROVE  \E f \in [0 .. N -> Behind(list, i)] :
                 Passing(f, u, I, ctx, list, i, names) /\ PastAll(u, I, ctx, list, i, names) = f[N]
  <2>1. IsList(list) /\ IsList(names) /\ t \in Ends(list) /\ i \in 1 .. Len(list) /\ SameBehind(list, i, u, t)
    BY <1>0
  <2>2. GoesPast(u, I, ctx, list, i, names)
    BY ONLY <2>1, PastGoes
  <2> QED
    BY <2>2 DEF GoesPast
<1>2. PICK f \in [0 .. N -> Behind(list, i)] :
          Passing(f, t, I, ctx, list, i, names) /\ PastAll(t, I, ctx, list, i, names) = f[N]
  BY <1>0 DEF SameBehind
<1>3. ASSUME NEW u, SameBehind(list, i, u, t)
      PROVE  PastAll(u, I, ctx, list, i, names) = PastAll(t, I, ctx, list, i, names)
  <2>1. PICK g \in [0 .. N -> Behind(list, i)] :
            Passing(g, u, I, ctx, list, i, names) /\ PastAll(u, I, ctx, list, i, names) = g[N]
    BY <1>0, <1>3
  <2>2. f[0] = i + 1 /\ \A n \in 1 .. N : f[n] = FollowedTo(t, I, ctx, list, f[n - 1], names[n])
    BY <1>2 DEF Passing
  <2>3. g[0] = i + 1 /\ \A n \in 1 .. N : g[n] = FollowedTo(u, I, ctx, list, g[n - 1], names[n])
    BY <2>1 DEF Passing
  <2> HIDE DEF N
  <2> DEFINE W == {n \in 0 .. N : g[n] = f[n]}
  <2>4. 0 \in W
    BY <1>1, <2>2, <2>3
  <2>5. ASSUME NEW n \in Nat, n < N, n \in W PROVE n + 1 \in W
    <3>1. n + 1 \in 0 .. N /\ n + 1 \in 1 .. N /\ (n + 1) - 1 = n /\ n \in 0 .. N
      BY <1>1, <2>5
    <3>2. g[n] = f[n] /\ f[n] \in Behind(list, i)
      BY <2>5, <3>1
    <3>3. \A c : FollowedTo(u, I, ctx, list, f[n], c) = FollowedTo(t, I, ctx, list, f[n], c)
      <4>0. IsList(list) /\ t \in Ends(list) /\ i \in 1 .. Len(list)
        OBVIOUS
      <4>1. \A at \in Behind(list, i) : \A c :
                /\ FollowedTo(t, I, ctx, list, at, c) \in Behind(list, i)
                /\ \A w : SameBehind(list, i, w, t) =>
                       FollowedTo(w, I, ctx, list, at, c) = FollowedTo(t, I, ctx, list, at, c)
        BY ONLY <4>0, FollowedIs
      <4>2. \A at \in Behind(list, i) : \A c : FollowedTo(u, I, ctx, list, at, c) = FollowedTo(t, I, ctx, list, at, c)
        BY <1>3, <4>1
      <4> QED
        BY <3>2, <4>2
    <3>4. g[n + 1] = f[n + 1]
      BY <2>2, <2>3, <3>1, <3>2, <3>3
    <3> QED
      BY <3>1, <3>4
  <2> HIDE DEF W
  <2>6. 0 .. N \subseteq W
    BY <1>1, <2>4, <2>5, UpTo
  <2>7. g[N] = f[N]
    BY <1>1, <2>6 DEF W
  <2> QED
    BY <1>2, <2>1, <2>7
<1>4. PastAll(t, I, ctx, list, i, names) \in Behind(list, i)
  BY <1>1, <1>2
<1> QED
  BY <1>3, <1>4

\* Where the subtree at i ends, t being the ends.
EndAt(t, I, ctx, list, i) ==
    IF /\ list[i].name \in DOMAIN I.option
       /\ Fits(I.option[list[i].name], ctx)
       /\ ValidChoice(I.option[list[i].name], list[i])
    THEN PastAll(t, I, ctx, list, i, Children(I.option[list[i].name], list[i]))
    ELSE 0

LEMMA EndAtIs ==
    \A I, ctx, list : IsOptions(I.option) /\ StoredList(list) => \A t \in Ends(list) : \A i \in 1 .. Len(list) :
        /\ EndAt(t, I, ctx, list, i) \in Behind(list, i)
        /\ \A u : SameBehind(list, i, u, t) =>
               EndAt(u, I, ctx, list, i) = EndAt(t, I, ctx, list, i)
<1> SUFFICES ASSUME NEW I, NEW ctx, NEW list, IsOptions(I.option), StoredList(list), NEW t \in Ends(list),
                    NEW i \in 1 .. Len(list)
    PROVE  /\ EndAt(t, I, ctx, list, i) \in Behind(list, i)
           /\ \A u : SameBehind(list, i, u, t) =>
                  EndAt(u, I, ctx, list, i) = EndAt(t, I, ctx, list, i)
  OBVIOUS
<1> DEFINE e == list[i]
           o == e.name
           opt == I.option[o]
           names == Children(opt, e)
           Valid == o \in DOMAIN I.option /\ Fits(opt, ctx) /\ ValidChoice(opt, e)
<1>1. IsList(list) /\ e \in ToSet(list) /\ IsStored(e)
  BY ListFacts DEF StoredList
<1>2. \A u : EndAt(u, I, ctx, list, i) = IF Valid THEN PastAll(u, I, ctx, list, i, names) ELSE 0
  BY DEF EndAt
<1>3. 0 \in Behind(list, i)
  BY DEF Behind
<1>4. ASSUME Valid PROVE IsList(names)
  <2>1. o \in DOMAIN I.option /\ ValidChoice(opt, e)
    BY <1>4
  <2>2. IsList(opt.cases) /\ opt.kind \in {"select", "switch", "checkbox", "input"}
    BY <2>1 DEF IsOptions
  <2> HIDE DEF e
  <2>3. Selects(opt, e)
    <3> HIDE DEF opt, o
    <3> QED
      BY <1>1, <2>1, <2>2, ValidSelects
  <2>4. Selects(I.option[o], e)
    BY <2>3
  <2> HIDE DEF o, opt
  <2>5. IsList(Children(I.option[o], e))
    BY <2>1, <2>4, ChildrenAre
  <2> QED
    BY <2>5 DEF opt
<1> HIDE DEF names, Valid
<1>5. CASE Valid
  <2>1. IsList(list) /\ IsList(names) /\ t \in Ends(list) /\ i \in 1 .. Len(list)
    BY <1>1, <1>4, <1>5
  <2>2. /\ PastAll(t, I, ctx, list, i, names) \in Behind(list, i)
        /\ \A u : SameBehind(list, i, u, t) =>
               PastAll(u, I, ctx, list, i, names) = PastAll(t, I, ctx, list, i, names)
    BY ONLY <2>1, PastIs
  <2> QED
    BY <1>2, <1>5, <2>2
<1>6. CASE ~Valid
  BY <1>2, <1>3, <1>6
<1> QED
  BY <1>5, <1>6

\* Each subtree that is found ends behind its first entry.
LEMMA SubtreesEnd ==
    \A I, ctx, list : IsOptions(I.option) /\ StoredList(list) =>
        /\ Subtrees(I, ctx, list) \in Ends(list)
        /\ \A i \in 1 .. Len(list) : Subtrees(I, ctx, list)[i] = EndAt(Subtrees(I, ctx, list), I, ctx, list, i)
<1> SUFFICES ASSUME NEW I, NEW ctx, NEW list, IsOptions(I.option), StoredList(list)
    PROVE  /\ Subtrees(I, ctx, list) \in Ends(list)
           /\ \A i \in 1 .. Len(list) : Subtrees(I, ctx, list)[i] = EndAt(Subtrees(I, ctx, list), I, ctx, list, i)
  OBVIOUS
<1> DEFINE N == Len(list)
           X == 1 .. N
           V == 0 .. N + 1
           P == Ends(list)
           Row(t) == [i \in X |-> EndAt(t, I, ctx, list, i)]
           F == [t \in P |-> Row(t)]
           rank == [i \in X |-> N - i]
           end == Subtrees(I, ctx, list)
<1>1. N \in Nat /\ DOMAIN list = 1 .. N
  BY ListFacts DEF StoredList
<1>2. \A i \in X : Behind(list, i) \subseteq V
  BY <1>1 DEF Behind
<1>3. \A t \in P : \A i \in X : EndAt(t, I, ctx, list, i) \in Behind(list, i)
  BY EndAtIs
<1>4. \A t : t \in P <=> t \in [X -> V] /\ \A i \in X : t[i] \in Behind(list, i)
  BY DEF Ends
<1> HIDE DEF P
<1>5. ASSUME NEW t \in P PROVE Row(t) \in P
  <2>1. Row(t) \in [X -> V]
    BY <1>2, <1>3
  <2>2. \A i \in X : Row(t)[i] \in Behind(list, i)
    BY <1>3
  <2> HIDE DEF Row
  <2> QED
    BY <1>4, <2>1, <2>2
<1>6. F \in [P -> P]
  <2> HIDE DEF Row
  <2> QED
    BY <1>5
<1>7. ASSUME NEW t \in P, NEW u \in P, NEW i \in X, \A j \in X : rank[j] < rank[i] => t[j] = u[j]
      PROVE  F[t][i] = F[u][i]
  <2>1. SameBehind(list, i, u, t)
    <3>1. ASSUME NEW j \in 1 .. N, i < j PROVE u[j] = t[j]
      <4>1. rank[j] = N - j /\ rank[i] = N - i
        OBVIOUS
      <4>2. N - j < N - i
        BY <1>1, <3>1
      <4> HIDE DEF rank
      <4> QED
        BY <1>7, <3>1, <4>1, <4>2
    <3> QED
      BY <3>1 DEF SameBehind
  <2>2. IsOptions(I.option) /\ StoredList(list) /\ t \in Ends(list) /\ u \in Ends(list) /\ i \in 1 .. Len(list)
    BY DEF P
  <2>3. EndAt(u, I, ctx, list, i) = EndAt(t, I, ctx, list, i)
    <3>1. /\ EndAt(t, I, ctx, list, i) \in Behind(list, i)
          /\ \A w : SameBehind(list, i, w, t) =>
                 EndAt(w, I, ctx, list, i) = EndAt(t, I, ctx, list, i)
      BY ONLY <2>2, EndAtIs
    <3> QED
      BY <2>1, <2>2, <3>1
  <2>4. F[t] = Row(t) /\ F[u] = Row(u)
    OBVIOUS
  <2> HIDE DEF F
  <2> QED
    BY <2>3, <2>4
<1>8. P # {}
  <2> DEFINE none == [i \in X |-> 0]
  <2>1. none \in [X -> V] /\ \A i \in X : none[i] \in Behind(list, i)
    BY <1>1 DEF Behind
  <2> HIDE DEF none
  <2> QED
    BY <1>4, <2>1
<1>9. rank \in [X -> 0 .. N]
  <2>1. \A i \in X : N - i \in 0 .. N
    BY <1>1
  <2> QED
    BY <2>1
<1>10. LooksDown(F, P, X, V, rank, N)
  <2>1. P \subseteq [X -> V]
    BY <1>4
  <2> HIDE DEF F, rank, X, V
  <2> QED
    BY <1>1, <1>6, <1>7, <1>8, <1>9, <2>1 DEF LooksDown
<1>11. PICK t \in P : F[t] = t
  <2> HIDE DEF F, rank, X, V
  <2> QED
    BY <1>10, Fixpoint
<1>12. t = Row(t)
  <2> HIDE DEF Row
  <2> QED
    BY <1>11
<1>13. end = Row(end)
  <2>1. t = [i \in DOMAIN list |-> EndAt(t, I, ctx, list, i)]
    BY <1>1, <1>12
  <2>2. end = [i \in DOMAIN list |-> EndAt(end, I, ctx, list, i)]
    BY <2>1 DEF Subtrees, EndAt, PastAll, FollowedTo
  <2> HIDE DEF end
  <2> QED
    BY <1>1, <2>2
<1> HIDE DEF end
<1>14. end \in P
  <2> DEFINE A == {i \in X : end[i] = t[i]}
  <2>1. ASSUME NEW i \in X, \A j \in X : rank[j] < rank[i] => j \in A PROVE i \in A
    <3>1. SameBehind(list, i, end, t)
      <4>1. ASSUME NEW j \in 1 .. N, i < j PROVE end[j] = t[j]
        <5>1. rank[j] = N - j /\ rank[i] = N - i
          OBVIOUS
        <5>2. N - j < N - i
          BY <1>1, <4>1
        <5> HIDE DEF rank
        <5> QED
          BY <2>1, <4>1, <5>1, <5>2
      <4> QED
        BY <4>1 DEF SameBehind
    <3>2. IsOptions(I.option) /\ StoredList(list) /\ t \in Ends(list) /\ i \in 1 .. Len(list)
      BY DEF P
    <3>3. /\ EndAt(t, I, ctx, list, i) \in Behind(list, i)
          /\ \A w : SameBehind(list, i, w, t) =>
                 EndAt(w, I, ctx, list, i) = EndAt(t, I, ctx, list, i)
      BY ONLY <3>2, EndAtIs
    <3>4. EndAt(end, I, ctx, list, i) = EndAt(t, I, ctx, list, i)
      BY <3>1, <3>3
    <3>5. end[i] = EndAt(end, I, ctx, list, i) /\ t[i] = EndAt(t, I, ctx, list, i)
      BY <1>12, <1>13
    <3> QED
      BY <3>4, <3>5
  <2>2. X \subseteq A
    <3> HIDE DEF A, X, rank
    <3> QED
      BY <1>1, <1>9, <2>1, RankInduction
  <2>3. end = t
    BY <1>12, <1>13, <2>2
  <2> QED
    BY <2>3
<1> QED
  BY <1>13, <1>14 DEF end, P

-----------------------------------------------------------------------------
(* What check_task keeps.                                                   *)

AtRoot(list, roots, i) == list[i].name \in roots

\* The next place at which an entry of the task's own options starts.
NextRoot(list, roots, i) ==
    CHOOSE j \in i + 1 .. Len(list) + 1 :
        /\ j = Len(list) + 1 \/ AtRoot(list, roots, j)
        /\ \A k \in i + 1 .. j - 1 : ~AtRoot(list, roots, k)

IsWhole(list, roots, end, i) ==
    AtRoot(list, roots, i) /\ end[i] # 0 /\ (end[i] > Len(list) \/ AtRoot(list, roots, end[i]))

KeptFrom(k, list, roots, end, i) ==
    IF i > Len(list) THEN <<>>
    ELSE IF IsWhole(list, roots, end, i) THEN SubSeq(list, i, end[i] - 1) \o k[end[i]]
    ELSE k[NextRoot(list, roots, i)]

LEMMA NextRootIs ==
    \A list, roots : IsList(list) => \A i \in 1 .. Len(list) :
        NextRoot(list, roots, i) \in 1 .. Len(list) + 1 /\ i < NextRoot(list, roots, i)
<1> SUFFICES ASSUME NEW list, NEW roots, IsList(list), NEW i \in 1 .. Len(list)
    PROVE  NextRoot(list, roots, i) \in 1 .. Len(list) + 1 /\ i < NextRoot(list, roots, i)
  OBVIOUS
<1> DEFINE N == Len(list)
           S == {j \in 1 .. N + 1 : AtRoot(list, roots, j)}
           Stops(j) == /\ j = N + 1 \/ AtRoot(list, roots, j)
                       /\ \A k \in i + 1 .. j - 1 : ~AtRoot(list, roots, k)
<1>1. N \in Nat
  BY ListFacts
<1>2. NextRoot(list, roots, i) = CHOOSE j \in i + 1 .. N + 1 : Stops(j)
  BY DEF NextRoot
<1>3. \E j \in i + 1 .. N + 1 : Stops(j)
  <2>1. PICK j \in i + 1 .. N + 1 : (j = N + 1 \/ j \in S) /\ \A k \in i + 1 .. j - 1 : k \notin S
    <3> HIDE DEF S
    <3>1. N \in Nat /\ i \in 1 .. N
      BY <1>1
    <3> HIDE DEF N
    <3>2. \A T : \E k \in i + 1 .. N + 1 : (k = N + 1 \/ k \in T) /\ \A j \in i + 1 .. k - 1 : j \notin T
      BY ONLY <3>1, FirstStop
    <3> QED
      BY <3>2
  <2>2. \A k \in i + 1 .. j - 1 : k \in 1 .. N + 1
    BY <1>1
  <2>3. Stops(j)
    BY <2>1, <2>2
  <2> QED
    BY <2>3
<1> HIDE DEF Stops
<1>4. NextRoot(list, roots, i) \in i + 1 .. N + 1
  BY <1>2, <1>3
<1> QED
  BY <1>1, <1>4

LEMMA KeptFromIs ==
    \A list, roots : IsList(list) => \A end \in Ends(list) : \A i \in 1 .. Len(list) + 1 :
        \A k \in [1 .. Len(list) + 1 -> Seq(ToSet(list))] :
            /\ KeptFrom(k, list, roots, end, i) \in Seq(ToSet(list))
            /\ \A u : (\A j \in 1 .. Len(list) + 1 : i < j => u[j] = k[j]) =>
                   KeptFrom(u, list, roots, end, i) = KeptFrom(k, list, roots, end, i)
<1> SUFFICES ASSUME NEW list, NEW roots, IsList(list), NEW end \in Ends(list), NEW i \in 1 .. Len(list) + 1,
                    NEW k \in [1 .. Len(list) + 1 -> Seq(ToSet(list))]
    PROVE  /\ KeptFrom(k, list, roots, end, i) \in Seq(ToSet(list))
           /\ \A u : (\A j \in 1 .. Len(list) + 1 : i < j => u[j] = k[j]) =>
                  KeptFrom(u, list, roots, end, i) = KeptFrom(k, list, roots, end, i)
  OBVIOUS
<1> DEFINE N == Len(list)
           S == ToSet(list)
<1>1. N \in Nat /\ list \in Seq(S)
  BY ListFacts DEF IsList
<1>2. CASE i > N
  <2>1. \A u : KeptFrom(u, list, roots, end, i) = <<>>
    BY <1>2 DEF KeptFrom
  <2>2. <<>> \in Seq(S)
    BY EmptySeq
  <2> QED
    BY <2>1, <2>2
<1>3. CASE ~(i > N) /\ IsWhole(list, roots, end, i)
  <2> DEFINE at == end[i]
  <2>1. i \in 1 .. N
    BY <1>1, <1>3
  <2>2. at \in Behind(list, i) /\ at # 0
    BY <1>3, <2>1 DEF Ends, IsWhole
  <2>3. at \in 1 .. N + 1 /\ i < at
    BY <1>1, <2>1, <2>2 DEF Behind
  <2>4. \A u : KeptFrom(u, list, roots, end, i) = SubSeq(list, i, at - 1) \o u[at]
    BY <1>3 DEF KeptFrom
  <2> HIDE DEF at
  <2>5. SubSeq(list, i, at - 1) \in Seq(S)
    <3>1. at - 1 \in i - 1 .. N /\ i \in 1 .. N
      BY <1>1, <2>1, <2>3
    <3> QED
      BY <1>1, <3>1, SubSeqProperties
  <2>6. k[at] \in Seq(S)
    BY <2>3
  <2>7. SubSeq(list, i, at - 1) \o k[at] \in Seq(S)
    <3> HIDE DEF S
    <3> QED
      BY <2>5, <2>6, ConcatProperties
  <2>8. \A u : (\A j \in 1 .. N + 1 : i < j => u[j] = k[j]) => u[at] = k[at]
    BY <2>3
  <2> QED
    BY <2>4, <2>7, <2>8
<1>4. CASE ~(i > N) /\ ~IsWhole(list, roots, end, i)
  <2> DEFINE at == NextRoot(list, roots, i)
  <2>1. i \in 1 .. N
    BY <1>1, <1>4
  <2>2. at \in 1 .. N + 1 /\ i < at
    BY <2>1, NextRootIs
  <2>3. \A u : KeptFrom(u, list, roots, end, i) = u[at]
    BY <1>4 DEF KeptFrom
  <2> HIDE DEF at
  <2>4. k[at] \in Seq(S)
    BY <2>2
  <2>5. \A u : (\A j \in 1 .. N + 1 : i < j => u[j] = k[j]) => u[at] = k[at]
    BY <2>2
  <2> QED
    BY <2>3, <2>4, <2>5
<1> QED
  BY <1>2, <1>3, <1>4

\* What is kept of the list from each entry on.
Keeping(k, list, roots, end) ==
    /\ k \in [1 .. Len(list) + 1 -> Seq(ToSet(list))]
    /\ \A i \in 1 .. Len(list) + 1 : k[i] = KeptFrom(k, list, roots, end, i)

\* It is found from the end of the list to its start.
LEMMA KeptGoes ==
    \A I, ctx, roots, list : IsOptions(I.option) /\ StoredList(list) =>
        \E k : Keeping(k, list, roots, Subtrees(I, ctx, list)) /\ Kept(I, ctx, roots, list) = k[1]
<1> SUFFICES ASSUME NEW I, NEW ctx, NEW roots, NEW list, IsOptions(I.option), StoredList(list)
    PROVE  \E k : Keeping(k, list, roots, Subtrees(I, ctx, list)) /\ Kept(I, ctx, roots, list) = k[1]
  OBVIOUS
<1> DEFINE N == Len(list)
           X == 1 .. N + 1
           S == ToSet(list)
           V == Seq(S)
           P == [X -> V]
           end == Subtrees(I, ctx, list)
           From(k, i) == KeptFrom(k, list, roots, end, i)
           Row(k) == [i \in X |-> From(k, i)]
           F == [k \in P |-> Row(k)]
           rank == [i \in X |-> N + 1 - i]
<1>1. N \in Nat /\ IsList(list)
  BY ListFacts DEF StoredList
<1>2. end \in Ends(list)
  BY SubtreesEnd
<1> HIDE DEF end
<1>3. \A i \in X : \A k \in P :
          /\ From(k, i) \in V
          /\ \A u : (\A j \in X : i < j => u[j] = k[j]) => From(u, i) = From(k, i)
  <2>1. \A i \in 1 .. Len(list) + 1 : \A k \in [1 .. Len(list) + 1 -> Seq(ToSet(list))] :
            /\ KeptFrom(k, list, roots, end, i) \in Seq(ToSet(list))
            /\ \A u : (\A j \in 1 .. Len(list) + 1 : i < j => u[j] = k[j]) =>
                   KeptFrom(u, list, roots, end, i) = KeptFrom(k, list, roots, end, i)
    BY ONLY <1>1, <1>2, KeptFromIs
  <2> QED
    BY <2>1
<1> DEFINE kept == CHOOSE h : h = [i \in 1 .. Len(list) + 1 |->
                       IF i > Len(list) THEN <<>>
                       ELSE IF AtRoot(list, roots, i) /\ end[i] # 0 /\ (end[i] > Len(list) \/ AtRoot(list, roots, end[i]))
                            THEN SubSeq(list, i, end[i] - 1) \o h[end[i]]
                            ELSE h[NextRoot(list, roots, i)]]
<1>4. Kept(I, ctx, roots, list) = kept[1]
  BY DEF Kept, end, AtRoot, NextRoot
<1>5. \A k : k = Row(k) => kept = Row(kept)
  BY DEF KeptFrom, IsWhole
<1> HIDE DEF kept, From, V
<1>6. \A k \in P : Row(k) \in P
  BY <1>3
<1>7. F \in [P -> P]
  <2> HIDE DEF P, Row
  <2> QED
    BY <1>6
<1>8. ASSUME NEW k, NEW u, NEW i \in X, \A j \in X : rank[j] < rank[i] => k[j] = u[j]
      PROVE  \A j \in X : i < j => u[j] = k[j]
  <2>1. ASSUME NEW j \in X, i < j PROVE u[j] = k[j]
    <3>1. rank[j] = N + 1 - j /\ rank[i] = N + 1 - i
      OBVIOUS
    <3>2. N + 1 - j < N + 1 - i
      BY <1>1, <2>1
    <3> HIDE DEF rank
    <3> QED
      BY <1>8, <2>1, <3>1, <3>2
  <2> QED
    BY <2>1
<1>9. ASSUME NEW k \in P, NEW u \in P, NEW i \in X, \A j \in X : rank[j] < rank[i] => k[j] = u[j]
      PROVE  F[k][i] = F[u][i]
  <2>1. \A j \in X : i < j => u[j] = k[j]
    <3> HIDE DEF X, rank
    <3> QED
      BY <1>8, <1>9
  <2>2. From(u, i) = From(k, i)
    BY <1>3, <2>1
  <2>3. F[k] = Row(k) /\ F[u] = Row(u)
    OBVIOUS
  <2> HIDE DEF F
  <2> QED
    BY <2>2, <2>3
<1>10. P # {}
  <2>1. <<>> \in V
    BY EmptySeq DEF V
  <2>2. [i \in X |-> <<>>] \in P
    BY <2>1
  <2> QED
    BY <2>2
<1>11. rank \in [X -> 0 .. N]
  <2>1. \A i \in X : N + 1 - i \in 0 .. N
    BY <1>1
  <2> QED
    BY <2>1
<1>12. LooksDown(F, P, X, V, rank, N)
  <2>1. P \subseteq [X -> V]
    OBVIOUS
  <2> HIDE DEF F, P, rank, X
  <2> QED
    BY <1>1, <1>7, <1>9, <1>10, <1>11, <2>1 DEF LooksDown
<1>13. PICK k \in P : F[k] = k
  <2> HIDE DEF F, P, rank, X
  <2> QED
    BY <1>12, Fixpoint
<1>14. k = Row(k)
  <2> HIDE DEF P, Row
  <2> QED
    BY <1>13
<1>15. kept = Row(kept)
  BY <1>5, <1>14
<1> DEFINE A == {i \in X : kept[i] = k[i]}
<1>16. ASSUME NEW i \in X, \A j \in X : rank[j] < rank[i] => j \in A PROVE i \in A
  <2>1. \A j \in X : rank[j] < rank[i] => k[j] = kept[j]
    BY <1>16
  <2>2. \A j \in X : i < j => kept[j] = k[j]
    <3> HIDE DEF X, rank
    <3> QED
      BY <1>8, <2>1
  <2>3. From(kept, i) = From(k, i)
    <3> HIDE DEF P, A
    <3> QED
      BY <1>3, <2>2
  <2>4. kept[i] = From(kept, i) /\ k[i] = From(k, i)
    BY <1>14, <1>15
  <2> QED
    BY <2>3, <2>4
<1>17. X \subseteq A
  <2> HIDE DEF A, X, rank
  <2> QED
    BY <1>1, <1>11, <1>16, RankInduction
<1>18. 1 \in X
  BY <1>1
<1>19. kept[1] = k[1]
  BY <1>17, <1>18
<1>20. Keeping(k, list, roots, end)
  <2>1. \A i \in X : k[i] = From(k, i)
    BY <1>14
  <2> QED
    BY <2>1 DEF Keeping, V, From
<1> QED
  BY <1>4, <1>19, <1>20 DEF end

\* What is kept of a list was in it.
LEMMA KeptWithin ==
    \A I, ctx, roots, list : IsOptions(I.option) /\ StoredList(list) => Kept(I, ctx, roots, list) \in Seq(ToSet(list))
<1> SUFFICES ASSUME NEW I, NEW ctx, NEW roots, NEW list, IsOptions(I.option), StoredList(list)
    PROVE  Kept(I, ctx, roots, list) \in Seq(ToSet(list))
  OBVIOUS
<1>1. PICK k : Keeping(k, list, roots, Subtrees(I, ctx, list)) /\ Kept(I, ctx, roots, list) = k[1]
  BY KeptGoes
<1>2. 1 \in 1 .. Len(list) + 1
  BY ListFacts DEF StoredList
<1> QED
  BY <1>1, <1>2 DEF Keeping

LEMMA CheckTaskSound ==
    \A I, ctx, task, list : IsOptions(I.option) /\ SoundList(list) => SoundList(CheckTask(I, ctx, task, list))
<1> SUFFICES ASSUME NEW I, NEW ctx, NEW task, NEW list, IsOptions(I.option), SoundList(list)
    PROVE  SoundList(CheckTask(I, ctx, task, list))
  OBVIOUS
<1> DEFINE roots == ToSet(I.task[task].roots)
           Stays(e) == e.name \in roots \/ e.name \notin DOMAIN I.option \/ Fits(I.option[e.name], ctx)
           V == {e \in ToSet(list) : Stays(e)}
           applicable == Only(list, V)
           deduped == [i \in DOMAIN applicable |-> Deduped(I, applicable[i])]
<1>1. CheckTask(I, ctx, task, list) = IF Fits(I.task[task], ctx) THEN Kept(I, ctx, roots, deduped) ELSE list
  BY DEF CheckTask
<1> HIDE DEF V, roots
<1>2. SoundList(applicable)
  BY SoundOnly
<1> HIDE DEF applicable
<1>3. \A i \in DOMAIN applicable : Sound(applicable[i])
  BY <1>2 DEF SoundList, ToSet
<1>4. deduped = [i \in DOMAIN applicable |-> deduped[i]] /\ \A i \in DOMAIN applicable : Sound(deduped[i])
  BY <1>3, CleanedIsSound
<1> HIDE DEF deduped
<1>5. SoundList(deduped)
  BY <1>2, <1>4, SoundEach DEF SoundList
<1>6. Kept(I, ctx, roots, deduped) \in Seq(ToSet(deduped))
  BY <1>5, SoundIsStored, KeptWithin
<1>7. SoundList(Kept(I, ctx, roots, deduped))
  BY <1>5, <1>6, SoundOver DEF SoundList
<1> QED
  BY <1>1, <1>7

-----------------------------------------------------------------------------
(* Lists that are completed already.                                        *)

\* An entry as the user's answers leave it: its choice is valid, no case is
\* there twice and no field is missing.
Settled(opt, e) == ValidChoice(opt, e) /\ WithDefaults(opt, e) = e /\ IsInjective(e.values)

LEMMA PickedCountFits ==
    \A opt, how : IsList(opt.cases) /\ opt.min \in Nat /\ opt.max \in Nat \cup {Unlimited} /\ ValidCheckbox(opt) =>
        \A vs \in PickCases(opt, how) : CountFits(opt, Len(vs))
<1> SUFFICES ASSUME NEW opt, NEW how, IsList(opt.cases), opt.min \in Nat, opt.max \in Nat \cup {Unlimited}, ValidCheckbox(opt),
                    NEW vs \in PickCases(opt, how)
    PROVE  CountFits(opt, Len(vs))
  OBVIOUS
<1>1. CASE opt.max = 0
  <2>1. Len(opt.cases) \in Nat /\ opt.max # Unlimited
    BY <1>1, ListFacts DEF Unlimited
  <2>2. opt.min <= opt.max
    BY <2>1 DEF ValidCheckbox
  <2>3. vs = <<>>
    BY <1>1 DEF PickCases
  <2>4. Len(vs) = 0
    BY <2>3
  <2> QED
    BY <1>1, <2>2, <2>4 DEF CountFits
<1>2. CASE opt.max # 0
  BY <1>2 DEF PickCases
<1> QED
  BY <1>1, <1>2

LEMMA PickedOnce == \A opt : IsList(opt.cases) => \A vs \in PickCases(opt, "unverified") : IsInjective(vs)
<1> SUFFICES ASSUME NEW opt, IsList(opt.cases), NEW vs \in PickCases(opt, "unverified") PROVE IsInjective(vs)
  OBVIOUS
<1>1. vs = <<>> \/ vs \in SetToAllKPermutations(ToSet(opt.cases))
  BY DEF PickCases
<1>2. IsFiniteSet(ToSet(opt.cases))
  BY RangeFinite
<1>3. \A s \in SetToAllKPermutations(ToSet(opt.cases)) : IsInjective(s)
  BY <1>2, OncePermutes
<1> QED
  BY <1>1, <1>3, OnceEmpty

\* The answers of the user are settled.
LEMMA AnswersSettled ==
    \A I : IsOptions(I.option) => \A o \in DOMAIN I.option : ValidCheckbox(I.option[o]) =>
        \A e \in Answers(I, o, "unverified") : Settled(I.option[o], e)
<1> SUFFICES ASSUME NEW I, IsOptions(I.option), NEW o \in DOMAIN I.option, ValidCheckbox(I.option[o]),
                    NEW e \in Answers(I, o, "unverified")
    PROVE  Settled(I.option[o], e)
  OBVIOUS
<1> DEFINE opt == I.option[o]
<1>1. /\ IsList(opt.cases) /\ opt.kind \in {"select", "switch", "checkbox", "input"}
      /\ opt.min \in Nat /\ opt.max \in Nat \cup {Unlimited}
  BY DEF IsOptions
<1>2. CASE IsChoice(opt)
  <2>1. opt.kind # "checkbox" /\ opt.kind # "input"
    BY <1>2 DEF IsChoice
  <2>2. Answers(I, o, "unverified") = {Entry(o, v, <<>>, NoInputs) : v \in PickCase(opt, "unverified")}
    BY <1>2, <2>1 DEF Answers
  <2>3. PICK v \in PickCase(opt, "unverified") : e = Entry(o, v, <<>>, NoInputs)
    BY <2>2
  <2>4. v \in ToSet(opt.cases)
    BY <1>1, PickedCaseIs
  <2>5. e.value = v /\ e.values = <<>>
    BY <2>3 DEF Entry
  <2>6. ValidChoice(opt, e) <=> e.value \in ToSet(opt.cases)
    BY <1>2, <2>1 DEF ValidChoice
  <2>7. WithDefaults(opt, e) = e
    BY <2>1 DEF WithDefaults
  <2> QED
    BY <2>4, <2>5, <2>6, <2>7, OnceEmpty DEF Settled
<1>3. CASE opt.kind = "checkbox"
  <2>1. ~IsChoice(opt)
    BY <1>3 DEF IsChoice
  <2>2. PICK vs \in PickCases(opt, "unverified") : e = Entry(o, NoValue, vs, NoInputs)
    BY <1>3, <2>1 DEF Answers
  <2>3. vs \in Seq(ToSet(opt.cases))
    BY <1>1, PickedCasesAre
  <2>4. ToSet(vs) \subseteq ToSet(opt.cases)
    BY <2>3, SeqIsList
  <2>5. CountFits(opt, Len(vs)) /\ IsInjective(vs)
    BY <1>1, PickedCountFits, PickedOnce
  <2>6. e.values = vs
    BY <2>2 DEF Entry
  <2>7. ValidChoice(opt, e)
    BY <1>3, <2>1, <2>4, <2>5, <2>6 DEF ValidChoice
  <2>8. WithDefaults(opt, e) = e
    BY <1>3 DEF WithDefaults
  <2> QED
    BY <2>5, <2>6, <2>7, <2>8 DEF Settled
<1>4. CASE opt.kind = "input"
  <2>1. ~IsChoice(opt) /\ opt.kind # "checkbox"
    BY <1>4 DEF IsChoice
  <2>2. PICK ins \in TypeInputs(opt, "unverified") : e = Entry(o, NoValue, <<>>, ins)
    BY <1>4, <2>1 DEF Answers
  <2>3. DOMAIN ins = opt.inputs /\ ins = [f \in opt.inputs |-> ins[f]]
    BY DEF TypeInputs
  <2> DEFINE more == [f \in DOMAIN e.inputs \cup opt.inputs |-> IF f \in DOMAIN e.inputs THEN e.inputs[f] ELSE Default]
  <2>4. e.inputs = ins /\ e.values = <<>>
    BY <2>2 DEF Entry
  <2>5. more = ins
    <3>1. DOMAIN e.inputs \cup opt.inputs = opt.inputs
      BY <2>3, <2>4
    <3>2. more = [f \in opt.inputs |-> ins[f]]
      BY <2>3, <2>4, <3>1
    <3> QED
      BY <2>3, <3>2
  <2>6. WithDefaults(opt, e) = [e EXCEPT !.inputs = more]
    BY <1>4 DEF WithDefaults
  <2> HIDE DEF more
  <2>7. WithDefaults(opt, e) = e
    BY <2>2, <2>5, <2>6 DEF Entry
  <2>8. ValidChoice(opt, e)
    BY <1>4, <2>1 DEF ValidChoice
  <2> QED
    BY <2>4, <2>7, <2>8, OnceEmpty DEF Settled
<1> QED
  BY <1>1, <1>2, <1>3, <1>4 DEF IsChoice

\* Completing moves from progress to progress, option by option.
Moves(I, ctx, list, how, o, gone) ==
    /\ Ensuring(I, ctx, list, how)[o][gone] \subseteq Progresses(Entries(I, list, how), SUBSET DOMAIN list)
    /\ Ensuring(I, ctx, list, how)[o][gone] = EnsuredAt(Ensuring(I, ctx, list, how), I, ctx, list, how, o, gone)

LEMMA EnsuringMoves ==
    \A I, ctx, list, how : IsOptions(I.option) /\ EndsEverywhere(I) /\ StoredList(list) =>
        \A o \in STRING : \A gone \in SUBSET DOMAIN list : Moves(I, ctx, list, how, o, gone)
<1> SUFFICES ASSUME NEW I, NEW ctx, NEW list, NEW how, IsOptions(I.option), EndsEverywhere(I), StoredList(list)
    PROVE  \A o \in STRING : \A gone \in SUBSET DOMAIN list : Moves(I, ctx, list, how, o, gone)
  OBVIOUS
<1> DEFINE E == Entries(I, list, how)
           D == SUBSET DOMAIN list
           V == Gifts(I, list, how)
           T == [o \in STRING |-> CompleteLists(I, ctx, E, {o})]
<1>3. \A o \in DOMAIN I.option : \A e \in V[o] :
          e \in E /\ e.name = o /\ IsStored(e) /\ Selects(I.option[o], e)
  BY GivenAre DEF Gifts
<1> HIDE DEF E, V
<1>4. Bears(T, I, ctx, V, E)
  BY <1>3, CompleteBears
<1> HIDE DEF T
<1>5. Completing(I, ctx, list, how, E, D, T)
  BY <1>4 DEF Provided, V, Completing, E
<1> HIDE DEF D
<1>6. \A o \in STRING : \A gone \in D : Ensuring(I, ctx, list, how)[o][gone] \subseteq Finished(T, E, D, o)
  BY <1>5, EnsuringBears
<1>7. \A o \in STRING : \A gone \in D :
          Ensuring(I, ctx, list, how)[o][gone] = EnsuredAt(Ensuring(I, ctx, list, how), I, ctx, list, how, o, gone)
  BY <1>5, EnsuringGoes
<1>8. \A o : Finished(T, E, D, o) \subseteq Progresses(E, D)
  BY DEF Finished
<1> QED
  BY <1>6, <1>7, <1>8 DEF E, D, Moves

\* The list, when all of its entries are in G, is all that comes of an option
\* from which nothing is gone.
Spared(ways, t, G, none) == ToSet(t) \subseteq G => ways[none] = {Progress(t, none, TRUE)}

\* So it is with the options of names.
AllStay(T, E, D, G, ways, names, start) ==
    /\ IsList(names) /\ Leads(ways, names, E, D) /\ start \in Progresses(E, D) /\ start.ok
    /\ \A o \in ToSet(names) : T[o] \subseteq {t \in Seq(E) : Spared(ways[o], t, G, start.gone)}

Remains(T, G, ways, names, start) ==
    \A l \in Forest(T, names) : ToSet(l) \subseteq G =>
        Walk(ways, start, names) = {Progress(start.out \o l, start.gone, TRUE)}

\* Then so it is with a forest.
LEMMA WalkStays ==
    \A T, E, D, G, ways, names, start : AllStay(T, E, D, G, ways, names, start) => Remains(T, G, ways, names, start)
<1> SUFFICES ASSUME NEW T, NEW E, NEW D, NEW G, NEW ways, NEW names, NEW start, AllStay(T, E, D, G, ways, names, start)
    PROVE  Remains(T, G, ways, names, start)
  OBVIOUS
<1>0. /\ IsList(names) /\ Leads(ways, names, E, D) /\ start \in Progresses(E, D) /\ start.ok
      /\ \A o \in ToSet(names) : T[o] \subseteq {t \in Seq(E) : Spared(ways[o], t, G, start.gone)}
  BY DEF AllStay
<1> USE <1>0
<1> DEFINE N == Len(names)
           none == start.gone
           At(l) == Progress(start.out \o l, none, TRUE)
<1>1. N \in Nat /\ DOMAIN names = 1 .. N /\ \A n \in 1 .. N : names[n] \in ToSet(names)
  BY ListFacts
<1>2. PICK f : Walked(f, ways, start, names, E, D)
  BY WalkGoes
<1>3. /\ f[0] = {start}
      /\ \A n \in 1 .. N : f[n] = Further(ways[names[n]], f[n - 1])
      /\ Walk(ways, start, names) = f[N]
  BY <1>2 DEF Walked
<1>4. start.out \in Seq(E) /\ start = Progress(start.out, none, TRUE)
  BY DEF Progresses, Progress
<1>5. PICK h : Planted(h, Seq(E), T, names)
  <2>1. \A o \in ToSet(names) : T[o] \subseteq Seq(E)
    OBVIOUS
  <2> QED
    BY <2>1, SeqCloses, ForestGoes
<1>6. /\ h[0] = {<<>>}
      /\ \A n \in 1 .. N : h[n] = Joined(h[n - 1], T[names[n]])
      /\ \A n \in 0 .. N : h[n] \subseteq Seq(E)
      /\ Forest(T, names) = h[N]
  BY <1>5 DEF Planted, Plants
<1> HIDE DEF N, none
<1> DEFINE S == {n \in 0 .. N : \A l \in h[n] : ToSet(l) \subseteq G => f[n] = {At(l)}}
<1>7. 0 \in S
  <2>1. start.out \o <<>> = start.out
    BY <1>4, ConcatEmptySeq
  <2>2. At(<<>>) = start
    BY <1>4, <2>1
  <2> HIDE DEF At
  <2> QED
    BY <1>1, <1>3, <1>6, <2>2
<1>8. ASSUME NEW n \in Nat, n < N, n \in S PROVE n + 1 \in S
  <2>1. n + 1 \in 0 .. N /\ n + 1 \in 1 .. N /\ n \in 0 .. N /\ (n + 1) - 1 = n
    BY <1>1, <1>8
  <2> DEFINE o == names[n + 1]
  <2>2. f[n + 1] = Further(ways[o], f[n]) /\ h[n + 1] = Joined(h[n], T[o]) /\ o \in ToSet(names)
    BY <1>1, <1>3, <1>6, <2>1
  <2> HIDE DEF o
  <2>3. ASSUME NEW l \in h[n + 1], ToSet(l) \subseteq G PROVE f[n + 1] = {At(l)}
    <3>1. PICK done \in h[n] : \E more \in T[o] : l = done \o more
      <4>1. l \in Joined(h[n], T[o])
        BY <2>2, <2>3
      <4> QED
        BY ONLY <4>1, JoinedAre
    <3>11. PICK more \in T[o] : l = done \o more
      BY <3>1
    <3>2. done \in Seq(E) /\ more \in Seq(E) /\ Spared(ways[o], more, G, none)
      BY <1>6, <2>1, <2>2 DEF none
    <3>3. ToSet(done) \subseteq G /\ ToSet(more) \subseteq G
      <4>1. ToSet(l) = ToSet(done) \cup ToSet(more)
        BY <3>11, <3>2, ConcatRange
      <4> QED
        BY <2>3, <4>1
    <3>4. f[n] = {At(done)}
      BY <1>8, <3>3
    <3>5. ways[o][none] = {Progress(more, none, TRUE)}
      BY <3>2, <3>3 DEF Spared
    <3>6. (start.out \o done) \o more = start.out \o l
      <4>1. \A s, t, u \in Seq(E) : (s \o t) \o u = s \o (t \o u)
        BY Associates
      <4> QED
        BY <1>4, <3>11, <3>2, <4>1
    <3> DEFINE p == At(done)
               r == Progress(more, none, TRUE)
    <3>7. p.ok /\ p.out = start.out \o done /\ p.gone = none /\ r.out = more /\ r.gone = none /\ r.ok = TRUE
      BY DEF Progress
    <3>8. f[n] = {p} /\ ways[o][none] = {r}
      BY <3>4, <3>5
    <3>9. Progress(p.out \o r.out, r.gone, r.ok) = At(l)
      BY <3>6, <3>7
    <3> HIDE DEF p, r, At
    <3>10. \A q : q \in f[n + 1] <=> q = At(l)
      <4>1. \A q : q \in Further(ways[o], {p}) <=>
                \E x \in {p} : \/ x.ok /\ \E y \in ways[o][x.gone] : q = Progress(x.out \o y.out, y.gone, y.ok)
                               \/ ~x.ok /\ q = x
        BY FurtherIs
      <4>2. \A q : q \in Further(ways[o], {p}) <=> q = Progress(p.out \o r.out, r.gone, r.ok)
        BY <3>7, <3>8, <4>1
      <4>3. f[n + 1] = Further(ways[o], {p})
        BY ONLY <2>2, <3>8
      <4> QED
        BY ONLY <3>9, <4>2, <4>3
    <3> QED
      BY <3>10
  <2> HIDE DEF At
  <2> QED
    BY <2>1, <2>3
<1> HIDE DEF S
<1>9. 0 .. N \subseteq S
  BY <1>1, <1>7, <1>8, UpTo
<1>10. \A l \in h[N] : ToSet(l) \subseteq G => f[N] = {At(l)}
  <2> HIDE DEF At
  <2> QED
    BY <1>1, <1>9 DEF S
<1> QED
  BY <1>3, <1>6, <1>10 DEF none, Remains

\* The entries stored for an option that applies are all e, which is settled.
Keeps(I, ctx, list, o, e) ==
    /\ StoredList(list) /\ o \in DOMAIN I.option /\ Fits(I.option[o], ctx)
    /\ e \in ToSet(list) /\ e.name = o /\ Settled(I.option[o], e)
    /\ \A x \in ToSet(list) : x.name = o => x = e

KeptAt(I, ctx, list, how, o, e) ==
    \A t : EnsuredAt(t, I, ctx, list, how, o, {}) = Walk(t, Progress(<<e>>, {}, TRUE), Children(I.option[o], e))

\* Then the option keeps it.
LEMMA SettledIsRetained ==
    \A I, ctx, list, how, o, e : Keeps(I, ctx, list, o, e) => KeptAt(I, ctx, list, how, o, e)
<1> SUFFICES ASSUME NEW I, NEW ctx, NEW list, NEW how, NEW o, NEW e, Keeps(I, ctx, list, o, e), NEW t
    PROVE  EnsuredAt(t, I, ctx, list, how, o, {}) = Walk(t, Progress(<<e>>, {}, TRUE), Children(I.option[o], e))
  BY DEF KeptAt
<1>0. /\ StoredList(list) /\ o \in DOMAIN I.option /\ Fits(I.option[o], ctx)
      /\ e \in ToSet(list) /\ e.name = o /\ Settled(I.option[o], e)
      /\ \A x \in ToSet(list) : x.name = o => x = e
  BY DEF Keeps
<1> USE <1>0
<1> DEFINE opt == I.option[o]
           found == Occurrences(list, o) \ {}
           i == CHOOSE f \in found : \A g \in found : f <= g
           entry == WithDefaults(opt, list[i])
<1>1. EnsuredAt(t, I, ctx, list, how, o, {}) =
          IF found = {} THEN Created(I, ctx, how, o, {})
          ELSE IF ~ValidChoice(opt, entry) THEN Created(I, ctx, how, o, {} \cup {i})
          ELSE Walk(t, Progress(<<entry>>, {}, TRUE), Children(opt, entry))
  BY DEF EnsuredAt
<1>2. DOMAIN list = 1 .. Len(list) /\ Len(list) \in Nat /\ \A j \in 1 .. Len(list) : list[j] \in ToSet(list)
  BY ListFacts DEF StoredList
<1>3. \A j \in found : j \in DOMAIN list /\ list[j].name = o
  BY DEF Occurrences
<1>4. found # {}
  BY OccursIn
<1> HIDE DEF found
<1>5. found \in SUBSET Nat
  BY <1>2, <1>3
<1>6. \E f \in found : \A g \in found : f <= g
  BY <1>4, <1>5, Least
<1>7. i \in found
  BY <1>6
<1> HIDE DEF i
<1>8. list[i] = e
  BY <1>2, <1>3, <1>7
<1>9. entry = e /\ ValidChoice(opt, e)
  BY <1>8 DEF Settled
<1> HIDE DEF entry
<1> QED
  BY <1>1, <1>4, <1>9

\* A complete list in which an option has the same entry everywhere.
IsKept(I, ctx, roots, list) ==
    /\ IsOptions(I.option) /\ EndsEverywhere(I) /\ \A o \in DOMAIN I.option : ValidCheckbox(I.option[o])
    /\ IsList(roots) /\ ToSet(roots) \subseteq STRING
    /\ StoredList(list) /\ list \in Filled(I, ctx, roots, "unverified")
    /\ \A x, y \in ToSet(list) : x.name = y.name => x = y

\* It stays as it is.
LEMMA EnsuredStays ==
    \A I, ctx, roots, list, how : IsKept(I, ctx, roots, list) =>
        Ensured(I, ctx, roots, list, how) = {Progress(list, {}, TRUE)}
<1> SUFFICES ASSUME NEW I, NEW ctx, NEW roots, NEW list, NEW how, IsKept(I, ctx, roots, list)
    PROVE  Ensured(I, ctx, roots, list, how) = {Progress(list, {}, TRUE)}
  OBVIOUS
<1>0. /\ IsOptions(I.option) /\ EndsEverywhere(I) /\ \A o \in DOMAIN I.option : ValidCheckbox(I.option[o])
      /\ IsList(roots) /\ ToSet(roots) \subseteq STRING
      /\ StoredList(list) /\ list \in Filled(I, ctx, roots, "unverified")
      /\ \A x, y \in ToSet(list) : x.name = y.name => x = y
  BY DEF IsKept
<1> DEFINE stored == Entries(I, list, how)
           E == stored \cup AllAnswers(I, "unverified")
           D == SUBSET DOMAIN list
           G == ToSet(list)
           ensure == Ensuring(I, ctx, list, how)
           none == {}
           V == [o \in DOMAIN I.option |-> Answers(I, o, "unverified")]
           Of(o) == {t \in Seq(E) : Spared(ensure[o], t, G, none)}
           T == [o \in STRING |-> Of(o)]
<1>1. \A o \in DOMAIN I.option : V[o] = Answers(I, o, "unverified") /\ V[o] \subseteq E
  BY DEF AllAnswers
<1>2. \A o \in DOMAIN I.option : \A e \in V[o] :
          e.name = o /\ Selects(I.option[o], e) /\ Settled(I.option[o], e)
  <2> SUFFICES ASSUME NEW o \in DOMAIN I.option, NEW e \in V[o]
      PROVE  e.name = o /\ Selects(I.option[o], e) /\ Settled(I.option[o], e)
    OBVIOUS
  <2>1. e \in Answers(I, o, "unverified")
    BY <1>1
  <2>2. Settled(I.option[o], e)
    BY <1>0, <2>1, AnswersSettled
  <2>3. \A auto2 : e \in Answers(I, o, auto2) => e.name = o /\ Selects(I.option[o], e)
    BY <1>0, AnswersAre
  <2> QED
    BY ONLY <2>1, <2>2, <2>3
<1>3. \A o \in STRING : T[o] = Of(o)
  OBVIOUS
<1>4. T \in [STRING -> SUBSET Seq(E)]
  OBVIOUS
<1>5. none \in D
  OBVIOUS
<1>6. \A o \in STRING : \A g \in D : Moves(I, ctx, list, how, o, g)
  BY <1>0, EnsuringMoves
<1>7. Progresses(stored, D) \subseteq Progresses(E, D)
  <2>1. Seq(stored) \subseteq Seq(E)
    <3> HIDE DEF stored
    <3>1. stored \subseteq E
      OBVIOUS
    <3> HIDE DEF E
    <3> QED
      BY <3>1
  <2> HIDE DEF E, D, stored
  <2> QED
    BY <2>1 DEF Progresses
<1>8. \A o \in STRING : \A g \in D :
          ensure[o][g] \subseteq Progresses(E, D) /\ ensure[o][g] = EnsuredAt(ensure, I, ctx, list, how, o, g)
  <2> HIDE DEF E
  <2> QED
    BY <1>6, <1>7 DEF Moves
<1>9. \A o \in DOMAIN I.option : Kids(I, o) \subseteq STRING /\ o \in STRING
  BY <1>0 DEF EndsEverywhere, Kids, IsOptions
<1> HIDE DEF E, D, V, T, Of, ensure, stored
<1>10. \A names, start : IsList(names) /\ ToSet(names) \subseteq STRING /\ start \in Progresses(E, D) /\ start.ok /\ start.gone = none =>
           AllStay(T, E, D, G, ensure, names, start)
  <2> SUFFICES ASSUME NEW names, NEW start, IsList(names), ToSet(names) \subseteq STRING, start \in Progresses(E, D),
                      start.ok, start.gone = none
      PROVE  AllStay(T, E, D, G, ensure, names, start)
    OBVIOUS
  <2>1. Leads(ensure, names, E, D)
    BY <1>8 DEF Leads
  <2>2. \A o \in ToSet(names) : T[o] \subseteq {t \in Seq(E) : Spared(ensure[o], t, G, start.gone)}
    BY <1>3 DEF Of
  <2> QED
    BY <2>1, <2>2 DEF AllStay
<1>11. \A o \in STRING : T[o] \subseteq Seq(E)
  BY <1>4
<1>12. ASSUME NEW o \in DOMAIN I.option, ~Fits(I.option[o], ctx) PROVE <<>> \in T[o]
  <2>1. ensure[o][none] = {Progress(<<>>, none, TRUE)}
    <3>1. ensure[o][none] = EnsuredAt(ensure, I, ctx, list, how, o, none)
      BY <1>5, <1>8, <1>9
    <3> QED
      BY <1>12, <3>1 DEF EnsuredAt
  <2>2. <<>> \in Seq(E)
    BY EmptySeq
  <2>3. Spared(ensure[o], <<>>, G, none)
    BY <2>1 DEF Spared
  <2> QED
    BY <1>3, <1>9, <2>2, <2>3 DEF Of
<1>13. ASSUME NEW o \in DOMAIN I.option, Fits(I.option[o], ctx), NEW e \in V[o], NEW rest \in Forest(T, Children(I.option[o], e))
       PROVE  <<e>> \o rest \in T[o]
  <2> DEFINE names == Children(I.option[o], e)
             l == <<e>> \o rest
             start == Progress(<<e>>, none, TRUE)
  <2>1. IsList(names) /\ ToSet(names) \subseteq Kids(I, o)
    BY <1>0, <1>2, ChildrenAre
  <2>2. ToSet(names) \subseteq STRING
    BY <1>9, <2>1
  <2>3. e \in E /\ e.name = o /\ Settled(I.option[o], e)
    BY <1>1, <1>2
  <2>4. <<e>> \in Seq(E)
    BY <2>3
  <2>5. start \in Progresses(E, D) /\ start.ok /\ start.gone = none /\ start.out = <<e>>
    BY <1>5, <2>4 DEF Progress, Progresses
  <2>6. rest \in Seq(E)
    <3>1. \A c \in ToSet(names) : T[c] \subseteq Seq(E)
      BY <1>11, <2>2
    <3>2. Forest(T, names) \subseteq Seq(E)
      BY <2>1, <3>1, SeqCloses, ForestFacts
    <3> QED
      BY <3>2
  <2>7. l \in Seq(E) /\ ToSet(l) = ToSet(<<e>>) \cup ToSet(rest)
    BY <2>4, <2>6, ConcatRange, ConcatProperties
  <2>8. e \in ToSet(<<e>>)
    BY DEF ToSet
  <2> HIDE DEF start, l
  <2>9. ASSUME ToSet(l) \subseteq G PROVE ensure[o][none] = {Progress(l, none, TRUE)}
    <3>1. e \in ToSet(list) /\ ToSet(rest) \subseteq G
      BY <2>7, <2>8, <2>9
    <3>2. \A x \in ToSet(list) : x.name = o => x = e
      BY <1>0, <2>3, <3>1
    <3>3. EnsuredAt(ensure, I, ctx, list, how, o, {}) = Walk(ensure, start, names)
      <4>1. Keeps(I, ctx, list, o, e)
        BY <1>0, <1>13, <2>3, <3>1, <3>2 DEF Keeps
      <4>2. KeptAt(I, ctx, list, how, o, e)
        BY ONLY <4>1, SettledIsRetained
      <4> QED
        BY <4>2 DEF start, KeptAt
    <3>4. ensure[o][none] = EnsuredAt(ensure, I, ctx, list, how, o, {})
      BY <1>5, <1>8, <1>9
    <3> HIDE DEF names
    <3>5. AllStay(T, E, D, G, ensure, names, start)
      BY <1>10, <2>1, <2>2, <2>5
    <3>6. rest \in Forest(T, names)
      BY DEF names
    <3>7. Walk(ensure, start, names) = {Progress(start.out \o rest, start.gone, TRUE)}
      <4> HIDE DEF G, none
      <4>1. Remains(T, G, ensure, names, start)
        BY ONLY <3>5, WalkStays
      <4> QED
        BY <3>1, <3>6, <4>1 DEF G, Remains
    <3> QED
      BY <2>5, <3>3, <3>4, <3>7 DEF l
  <2>10. Spared(ensure[o], l, G, none)
    BY <2>9 DEF Spared
  <2>11. l \in Of(o)
    BY <2>7, <2>10 DEF Of
  <2> QED
    BY <1>3, <1>9, <2>11 DEF l
<1>14. Bears(T, I, ctx, V, E)
  BY <1>4, <1>12, <1>13 DEF Bears
<1> DEFINE tree == Trees(I, ctx, "unverified")
<1>15. \A o \in STRING : tree[o] \subseteq T[o]
  <2>1. \A auto2 : (\A o \in DOMAIN I.option : Answers(I, o, auto2) \subseteq V[o]) =>
            \A o \in STRING : Trees(I, ctx, auto2)[o] \subseteq T[o]
    BY <1>0, <1>14, TreesBorne
  <2>2. \A o \in DOMAIN I.option : Answers(I, o, "unverified") \subseteq V[o]
    BY <1>1
  <2> QED
    BY ONLY <2>1, <2>2
<1>16. list \in Forest(tree, roots)
  BY <1>0 DEF Filled
<1> HIDE DEF tree
<1>17. Forest(tree, roots) \subseteq Forest(T, roots)
  <2>1. \A o \in ToSet(roots) : tree[o] \subseteq T[o] /\ T[o] \subseteq Seq(E)
    BY <1>0, <1>11, <1>15
  <2> QED
    BY <1>0, <2>1, SeqCloses, ForestWithin
<1> DEFINE start == Progress(<<>>, none, TRUE)
<1>18. start \in Progresses(E, D) /\ start.ok /\ start.gone = none /\ start.out = <<>>
  BY <1>5, EmptySeq DEF Progress, Progresses
<1> HIDE DEF start
<1>19. AllStay(T, E, D, G, ensure, roots, start)
  BY <1>0, <1>10, <1>18
<1>20. Walk(ensure, start, roots) = {Progress(start.out \o list, start.gone, TRUE)}
  <2> HIDE DEF G, none
  <2>1. Remains(T, G, ensure, roots, start)
    BY ONLY <1>19, WalkStays
  <2> QED
    BY <1>16, <1>17, <2>1 DEF G, Remains
<1>21. <<>> \o list = list
  <2>1. list \in Seq(E)
    BY <1>11, <1>0, <1>16, <1>17, SeqCloses, ForestFacts
  <2> QED
    BY <2>1, ConcatEmptySeq
<1>22. Ensured(I, ctx, roots, list, how) = Walk(ensure, start, roots)
  BY EnsuredWalks DEF ensure, start
<1> QED
  BY <1>18, <1>20, <1>21, <1>22

-----------------------------------------------------------------------------
(* Subtrees in other lists.                                                 *)

\* The m entries behind da in a are those behind db in b.
Window(a, b, da, db, m) ==
    /\ StoredList(a) /\ StoredList(b) /\ da \in Nat /\ db \in Nat /\ m \in Nat
    /\ da + m <= Len(a) /\ db + m <= Len(b)
    /\ \A k \in 1 .. m : b[db + k] = a[da + k]

\* A subtree within the window ends at the same entry in both.
EndsAlike(ea, eb, da, db, m, k) ==
    ea[da + k] # 0 /\ ea[da + k] <= da + m + 1 => eb[db + k] = (ea[da + k] - da) + db

\* So does what is followed from there, when the subtrees behind it do.
LEMMA FollowedAlike ==
    \A I, ctx, a, b, da, db, m : Window(a, b, da, db, m) => \A ea \in Ends(a) : \A eb : \A k \in 1 .. m :
        (\A j \in k + 1 .. m : EndsAlike(ea, eb, da, db, m, j)) =>
            \A at \in Behind(a, da + k) : \A x, c :
                (at <= da + m + 1 => x = (at - da) + db) =>
                    LET to == FollowedTo(ea, I, ctx, a, at, c)
                    IN to # 0 /\ to <= da + m + 1 => FollowedTo(eb, I, ctx, b, x, c) = (to - da) + db
<1> SUFFICES ASSUME NEW I, NEW ctx, NEW a, NEW b, NEW da, NEW db, NEW m, Window(a, b, da, db, m),
                    NEW ea \in Ends(a), NEW eb, NEW k \in 1 .. m, \A j \in k + 1 .. m : EndsAlike(ea, eb, da, db, m, j),
                    NEW at \in Behind(a, da + k), NEW x, NEW c, at <= da + m + 1 => x = (at - da) + db,
                    FollowedTo(ea, I, ctx, a, at, c) # 0, FollowedTo(ea, I, ctx, a, at, c) <= da + m + 1
    PROVE  FollowedTo(eb, I, ctx, b, x, c) = (FollowedTo(ea, I, ctx, a, at, c) - da) + db
  OBVIOUS
<1> DEFINE to == FollowedTo(ea, I, ctx, a, at, c)
<1>1. /\ da \in Nat /\ db \in Nat /\ m \in Nat /\ da + m <= Len(a) /\ db + m <= Len(b)
      /\ \A j \in 1 .. m : b[db + j] = a[da + j]
      /\ Len(a) \in Nat /\ DOMAIN a = 1 .. Len(a) /\ Len(b) \in Nat /\ DOMAIN b = 1 .. Len(b)
  BY ListFacts DEF Window, StoredList
<1>2. at # 0 /\ c \in DOMAIN I.option
  BY DEF FollowedTo
<1>3. at \in da + k + 1 .. Len(a) + 1
  BY <1>1, <1>2 DEF Behind
<1>4. CASE ~Fits(I.option[c], ctx)
  <2>1. to = at
    BY <1>2, <1>4 DEF FollowedTo
  <2>2. x = (at - da) + db /\ x # 0
    BY <1>1, <1>3, <2>1
  <2>3. FollowedTo(eb, I, ctx, b, x, c) = x
    BY <1>2, <1>4, <2>2 DEF FollowedTo
  <2> QED
    BY <2>1, <2>2, <2>3
<1>5. CASE Fits(I.option[c], ctx)
  <2>1. at \in DOMAIN a /\ a[at].name = c /\ to = ea[at]
    BY <1>2, <1>5 DEF FollowedTo
  <2>2. ea[at] \in Behind(a, at)
    BY <1>1, <2>1 DEF Ends
  <2>3. at < ea[at] /\ ea[at] <= da + m + 1 /\ ea[at] \in Nat
    BY <1>1, <1>3, <2>1, <2>2 DEF Behind
  <2> DEFINE j == at - da
  <2>4. j \in k + 1 .. m /\ j \in 1 .. m /\ da + j = at
    BY <1>1, <1>3, <2>3
  <2>5. x = db + j /\ x # 0 /\ x \in DOMAIN b
    BY <1>1, <1>3, <2>3, <2>4
  <2> HIDE DEF j
  <2>6. b[x] = a[at]
    BY <1>1, <2>4, <2>5
  <2>7. eb[db + j] = (ea[da + j] - da) + db
    BY <2>1, <2>3, <2>4 DEF EndsAlike
  <2>8. FollowedTo(eb, I, ctx, b, x, c) = eb[x]
    BY <1>2, <1>5, <2>1, <2>5, <2>6 DEF FollowedTo
  <2> QED
    BY <2>1, <2>4, <2>5, <2>7, <2>8
<1> QED
  BY <1>4, <1>5

LEMMA SubtreesAlike ==
    \A I, ctx, a, b, da, db, m : IsOptions(I.option) /\ Window(a, b, da, db, m) =>
        \A k \in 1 .. m : EndsAlike(Subtrees(I, ctx, a), Subtrees(I, ctx, b), da, db, m, k)
<1> SUFFICES ASSUME NEW I, NEW ctx, NEW a, NEW b, NEW da, NEW db, NEW m, IsOptions(I.option), Window(a, b, da, db, m)
    PROVE  \A k \in 1 .. m : EndsAlike(Subtrees(I, ctx, a), Subtrees(I, ctx, b), da, db, m, k)
  OBVIOUS
<1> DEFINE ea == Subtrees(I, ctx, a)
           eb == Subtrees(I, ctx, b)
           X == 1 .. m
           rank == [k \in X |-> m - k]
           S == {k \in X : EndsAlike(ea, eb, da, db, m, k)}
<1>1. /\ da \in Nat /\ db \in Nat /\ m \in Nat /\ da + m <= Len(a) /\ db + m <= Len(b)
      /\ \A k \in 1 .. m : b[db + k] = a[da + k]
      /\ StoredList(a) /\ StoredList(b)
      /\ Len(a) \in Nat /\ DOMAIN a = 1 .. Len(a) /\ Len(b) \in Nat /\ DOMAIN b = 1 .. Len(b)
  BY ListFacts DEF Window, StoredList
<1>2. /\ ea \in Ends(a) /\ \A i \in 1 .. Len(a) : ea[i] = EndAt(ea, I, ctx, a, i)
      /\ eb \in Ends(b) /\ \A i \in 1 .. Len(b) : eb[i] = EndAt(eb, I, ctx, b, i)
  BY <1>1, SubtreesEnd
<1> HIDE DEF ea, eb
<1>3. rank \in [X -> 0 .. m]
  <2>1. \A k \in X : m - k \in 0 .. m
    BY <1>1
  <2> QED
    BY <2>1
<1>4. ASSUME NEW k \in X, \A j \in X : rank[j] < rank[k] => j \in S PROVE k \in S
  <2> DEFINE i == da + k
             ib == db + k
             o == a[i].name
             names == Children(I.option[o], a[i])
             N == Len(names)
  <2>1. \A j \in k + 1 .. m : EndsAlike(ea, eb, da, db, m, j)
    <3> SUFFICES ASSUME NEW j \in k + 1 .. m PROVE EndsAlike(ea, eb, da, db, m, j)
      OBVIOUS
    <3>1. j \in X /\ rank[j] = m - j /\ rank[k] = m - k /\ m - j < m - k
      BY <1>1
    <3> HIDE DEF rank, X
    <3>2. j \in S
      BY <1>4, <3>1
    <3> QED
      BY <3>2
  <2>2. i \in 1 .. Len(a) /\ ib \in 1 .. Len(b) /\ b[ib] = a[i]
    BY <1>1
  <2>3. ea[i] = EndAt(ea, I, ctx, a, i) /\ eb[ib] = EndAt(eb, I, ctx, b, ib)
    BY <1>2, <2>2
  <2> SUFFICES ASSUME ea[i] # 0, ea[i] <= da + m + 1 PROVE eb[ib] = (ea[i] - da) + db
    BY DEF EndsAlike
  <2> HIDE DEF i, ib
  <2>4. /\ o \in DOMAIN I.option /\ Fits(I.option[o], ctx) /\ ValidChoice(I.option[o], a[i])
        /\ ea[i] = PastAll(ea, I, ctx, a, i, names) /\ eb[ib] = PastAll(eb, I, ctx, b, ib, names)
    BY <2>2, <2>3 DEF EndAt
  <2>5. IsList(names)
    <3>1. IsStored(a[i])
      BY <1>1, <2>2, ListFacts DEF StoredList
    <3>2. IsList(I.option[o].cases) /\ I.option[o].kind \in {"select", "switch", "checkbox", "input"}
      BY <2>4 DEF IsOptions
    <3>3. Selects(I.option[o], a[i])
      BY <2>4, <3>1, <3>2, ValidSelects
    <3> QED
      BY <2>4, <3>3, ChildrenAre
  <2> HIDE DEF names, o
  <2>6. N \in Nat
    BY <2>5, ListFacts
  <2>7. GoesPast(ea, I, ctx, a, i, names) /\ GoesPast(eb, I, ctx, b, ib, names)
    <3>1. SameBehind(a, i, ea, ea) /\ SameBehind(b, ib, eb, eb)
      BY DEF SameBehind
    <3>2. IsList(a) /\ IsList(b)
      BY <1>1 DEF StoredList
    <3> QED
      BY <1>2, <2>2, <2>5, <3>1, <3>2, PastGoes
  <2>8. PICK f \in [0 .. N -> Behind(a, i)] : Passing(f, ea, I, ctx, a, i, names) /\ ea[i] = f[N]
    BY <2>4, <2>7 DEF GoesPast
  <2>9. PICK g \in [0 .. N -> Behind(b, ib)] : Passing(g, eb, I, ctx, b, ib, names) /\ eb[ib] = g[N]
    BY <2>4, <2>7 DEF GoesPast
  <2>10. f[0] = i + 1 /\ \A n \in 1 .. N : f[n] = FollowedTo(ea, I, ctx, a, f[n - 1], names[n])
    BY <2>8 DEF Passing
  <2>11. g[0] = ib + 1 /\ \A n \in 1 .. N : g[n] = FollowedTo(eb, I, ctx, b, g[n - 1], names[n])
    BY <2>9 DEF Passing
  <2> HIDE DEF N
  <2> DEFINE W == {n \in 0 .. N : f[n] # 0 /\ f[n] <= da + m + 1 => g[n] = (f[n] - da) + db}
  <2>12. 0 \in W
    BY <1>1, <2>6, <2>10, <2>11 DEF i, ib
  <2>13. ASSUME NEW n \in Nat, n < N, n \in W PROVE n + 1 \in W
    <3>1. n + 1 \in 0 .. N /\ n + 1 \in 1 .. N /\ n \in 0 .. N /\ (n + 1) - 1 = n
      BY <2>6, <2>13
    <3>2. f[n + 1] = FollowedTo(ea, I, ctx, a, f[n], names[n + 1]) /\ g[n + 1] = FollowedTo(eb, I, ctx, b, g[n], names[n + 1])
      BY <2>10, <2>11, <3>1
    <3>3. f[n] \in Behind(a, da + k)
      BY <3>1 DEF i
    <3>4. f[n] <= da + m + 1 /\ f[n] # 0 => g[n] = (f[n] - da) + db
      BY <2>13
    <3>5. CASE f[n] = 0
      <4>1. f[n + 1] = 0
        BY <3>2, <3>5 DEF FollowedTo
      <4> QED
        BY <3>1, <4>1
    <3>6. CASE f[n] # 0
      <4>1. f[n] <= da + m + 1 => g[n] = (f[n] - da) + db
        BY <3>4, <3>6
      <4>2. /\ Window(a, b, da, db, m) /\ ea \in Ends(a) /\ k \in 1 .. m
            /\ \A j \in k + 1 .. m : EndsAlike(ea, eb, da, db, m, j)
        BY <1>2, <2>1
      <4>3. \A at \in Behind(a, da + k) : \A x, c :
                (at <= da + m + 1 => x = (at - da) + db) =>
                    LET to == FollowedTo(ea, I, ctx, a, at, c)
                    IN to # 0 /\ to <= da + m + 1 => FollowedTo(eb, I, ctx, b, x, c) = (to - da) + db
        BY ONLY <4>2, FollowedAlike
      <4>4. LET to == FollowedTo(ea, I, ctx, a, f[n], names[n + 1])
            IN to # 0 /\ to <= da + m + 1 => FollowedTo(eb, I, ctx, b, g[n], names[n + 1]) = (to - da) + db
        BY <3>3, <4>1, <4>3
      <4> QED
        BY <3>1, <3>2, <4>4
    <3> QED
      BY <3>5, <3>6
  <2> HIDE DEF W
  <2>14. 0 .. N \subseteq W
    BY <2>6, <2>12, <2>13, UpTo
  <2>15. N \in W
    BY <2>6, <2>14
  <2> QED
    BY <2>8, <2>9, <2>15 DEF W
<1>5. X \subseteq S
  <2> HIDE DEF S, X, rank
  <2> QED
    BY <1>1, <1>3, <1>4, RankInduction
<1> QED
  BY <1>5 DEF ea, eb

-----------------------------------------------------------------------------
(* Lists of whole subtrees.                                                 *)

\* The places in a list from which on it is one subtree of the task's own options
\* after the other.
Joints(B, I, ctx, roots, list) ==
    /\ B \subseteq 1 .. Len(list) + 1 /\ 1 \in B /\ Len(list) + 1 \in B
    /\ \A i \in B : i <= Len(list) => AtRoot(list, roots, i) /\ Subtrees(I, ctx, list)[i] \in B

Chained(I, ctx, roots, list) == StoredList(list) /\ \E B : Joints(B, I, ctx, roots, list)

\* Nothing is dropped from such a list.
LEMMA ChainIsKept ==
    \A I, ctx, roots, list : IsOptions(I.option) /\ Chained(I, ctx, roots, list) => Kept(I, ctx, roots, list) = list
<1> SUFFICES ASSUME NEW I, NEW ctx, NEW roots, NEW list, IsOptions(I.option), Chained(I, ctx, roots, list)
    PROVE  Kept(I, ctx, roots, list) = list
  OBVIOUS
<1> DEFINE N == Len(list)
           X == 1 .. N + 1
           end == Subtrees(I, ctx, list)
           rank == [i \in X |-> N + 1 - i]
<1>1. PICK B : Joints(B, I, ctx, roots, list)
  BY DEF Chained
<1>2. /\ StoredList(list) /\ N \in Nat /\ list \in Seq(ToSet(list))
      /\ B \subseteq X /\ 1 \in B
      /\ \A i \in B : i <= N => AtRoot(list, roots, i) /\ end[i] \in B
  BY <1>1, ListFacts DEF Chained, Joints, StoredList
<1>3. end \in Ends(list)
  BY <1>2, SubtreesEnd
<1>4. PICK k : Keeping(k, list, roots, end) /\ Kept(I, ctx, roots, list) = k[1]
  BY <1>2, KeptGoes
<1> HIDE DEF end
<1>5. \A i \in X : k[i] = KeptFrom(k, list, roots, end, i)
  BY <1>4 DEF Keeping
<1> DEFINE S == {i \in X : i \in B => k[i] = SubSeq(list, i, N)}
<1>6. rank \in [X -> 0 .. N]
  <2>1. \A i \in X : N + 1 - i \in 0 .. N
    BY <1>2
  <2> QED
    BY <2>1
<1> HIDE DEF N
<1>7. ASSUME NEW i \in X, \A j \in X : rank[j] < rank[i] => j \in S PROVE i \in S
  <2> SUFFICES ASSUME i \in B PROVE k[i] = SubSeq(list, i, N)
    OBVIOUS
  <2>1. CASE i > N
    <3>1. k[i] = <<>>
      BY <1>5, <2>1 DEF KeptFrom, N
    <3>2. SubSeq(list, i, N) = <<>>
      <4>1. i \in Int /\ N \in Int /\ N < i
        BY <1>2, <2>1
      <4> QED
        BY <4>1, SubSeqEmpty
    <3> QED
      BY <3>1, <3>2
  <2>2. CASE ~(i > N)
    <3> DEFINE at == end[i]
    <3>1. i \in 1 .. N /\ i <= N
      BY <1>2, <2>2
    <3>2. AtRoot(list, roots, i) /\ at \in B /\ at \in X /\ at \in Behind(list, i)
      BY <1>2, <1>3, <3>1 DEF Ends, N
    <3>3. i < at
      BY <1>2, <3>1, <3>2 DEF Behind, N
    <3>4. at # 0 /\ (at > N \/ AtRoot(list, roots, at))
      BY <1>2, <3>2
    <3>5. k[i] = SubSeq(list, i, at - 1) \o k[at]
      <4>1. IsWhole(list, roots, end, i)
        BY <3>2, <3>4 DEF IsWhole, N
      <4> QED
        BY <1>5, <2>2, <4>1 DEF KeptFrom, N
    <3> HIDE DEF at
    <3>6. k[at] = SubSeq(list, at, N)
      <4>1. rank[at] = N + 1 - at /\ rank[i] = N + 1 - i /\ N + 1 - at < N + 1 - i
        BY <1>2, <3>2, <3>3
      <4>2. at \in S
        <5> HIDE DEF S, rank, X
        <5> QED
          BY <1>7, <3>2, <4>1
      <4> QED
        BY <3>2, <4>2
    <3>7. SubSeq(list, i, at - 1) \o SubSeq(list, (at - 1) + 1, N) = SubSeq(list, i, N)
      <4>1. i \in 1 .. N + 1 /\ at - 1 \in i - 1 .. N /\ N \in at - 1 .. N
        BY <1>2, <3>1, <3>2, <3>3
      <4>2. \A S1 : \A s \in Seq(S1) : \A m \in 1 .. Len(s) + 1 : \A x \in m - 1 .. Len(s) : \A n \in x .. Len(s) :
                SubSeq(s, m, x) \o SubSeq(s, x + 1, n) = SubSeq(s, m, n)
        BY ConcatAdjacentSubSeq
      <4> QED
        BY <1>2, <4>1, <4>2 DEF N
    <3>8. (at - 1) + 1 = at
      BY <1>2, <3>2
    <3> QED
      BY <3>5, <3>6, <3>7, <3>8
  <2> QED
    BY <2>1, <2>2
<1>8. X \subseteq S
  <2> HIDE DEF S, X, rank
  <2> QED
    BY <1>2, <1>6, <1>7, RankInduction
<1>9. k[1] = SubSeq(list, 1, N)
  BY <1>2, <1>8
<1>10. SubSeq(list, 1, N) = list
  BY <1>2, SubSeqFull DEF N
<1> QED
  BY <1>4, <1>9, <1>10

LEMMA NothingChains == \A I, ctx, roots : Chained(I, ctx, roots, <<>>)
<1> SUFFICES ASSUME NEW I, NEW ctx, NEW roots PROVE Chained(I, ctx, roots, <<>>)
  OBVIOUS
<1>1. Len(<<>>) = 0
  OBVIOUS
<1>2. StoredList(<<>>)
  BY NothingIsList DEF StoredList, ToSet
<1>3. Joints({1}, I, ctx, roots, <<>>)
  BY <1>1 DEF Joints
<1> QED
  BY <1>2, <1>3 DEF Chained

\* Two of them, one behind the other, are one.
LEMMA ChainsJoin ==
    \A I, ctx, roots, s, t : IsOptions(I.option) /\ Chained(I, ctx, roots, s) /\ Chained(I, ctx, roots, t) =>
        Chained(I, ctx, roots, s \o t)
<1> SUFFICES ASSUME NEW I, NEW ctx, NEW roots, NEW s, NEW t, IsOptions(I.option),
                    Chained(I, ctx, roots, s), Chained(I, ctx, roots, t)
    PROVE  Chained(I, ctx, roots, s \o t)
  OBVIOUS
<1> DEFINE n == Len(s)
           m == Len(t)
           st == s \o t
           es == Subtrees(I, ctx, s)
           et == Subtrees(I, ctx, t)
           e == Subtrees(I, ctx, st)
           E == ToSet(s) \cup ToSet(t)
<1>1. PICK B : Joints(B, I, ctx, roots, s)
  BY DEF Chained
<1>2. PICK C : Joints(C, I, ctx, roots, t)
  BY DEF Chained
<1>3. StoredList(s) /\ StoredList(t)
  BY DEF Chained
<1>4. n \in Nat /\ m \in Nat /\ s \in Seq(E) /\ t \in Seq(E)
  BY <1>3, ListFacts DEF StoredList
<1> HIDE DEF E
<1>5. /\ st \in Seq(E) /\ Len(st) = n + m
      /\ \A i \in 1 .. n + m : st[i] = IF i <= n THEN s[i] ELSE t[i - n]
      /\ ToSet(st) = ToSet(s) \cup ToSet(t)
  BY <1>4, ConcatProperties, ConcatRange
<1>6. StoredList(st)
  BY <1>3, <1>5, SeqIsList DEF StoredList
<1>7. /\ B \subseteq 1 .. n + 1 /\ 1 \in B /\ n + 1 \in B
      /\ \A i \in B : i <= n => AtRoot(s, roots, i) /\ es[i] \in B
  BY <1>1 DEF Joints
<1>8. /\ C \subseteq 1 .. m + 1 /\ 1 \in C /\ m + 1 \in C
      /\ \A i \in C : i <= m => AtRoot(t, roots, i) /\ et[i] \in C
  BY <1>2 DEF Joints
<1> HIDE DEF n, m, st
<1>9. \A k \in 1 .. n : st[0 + k] = s[0 + k]
  BY <1>4, <1>5
<1>10. \A k \in 1 .. m : st[n + k] = t[0 + k]
  <2>1. ASSUME NEW k \in 1 .. m PROVE st[n + k] = t[0 + k]
    <3>1. n + k \in 1 .. n + m /\ ~(n + k <= n) /\ (n + k) - n = k /\ 0 + k = k
      BY <1>4
    <3> QED
      BY <1>5, <3>1
  <2> QED
    BY <2>1
<1>11. Window(s, st, 0, 0, n) /\ Window(t, st, 0, n, m)
  BY <1>3, <1>4, <1>5, <1>6, <1>9, <1>10 DEF Window, n, m
<1>12. /\ \A k \in 1 .. n : EndsAlike(es, e, 0, 0, n, k)
       /\ \A k \in 1 .. m : EndsAlike(et, e, 0, n, m, k)
  BY <1>11, SubtreesAlike
<1> HIDE DEF es, et, e
<1> DEFINE D == B \cup {n + j : j \in C}
<1>13. D \subseteq 1 .. n + m + 1 /\ 1 \in D /\ n + m + 1 \in D
  <2>1. n + (m + 1) = n + m + 1 /\ n + (m + 1) \in D
    BY <1>4, <1>8
  <2>2. \A j \in C : n + j \in 1 .. n + m + 1
    BY <1>4, <1>8
  <2>3. \A i \in B : i \in 1 .. n + m + 1
    BY <1>4, <1>7
  <2> QED
    BY <1>7, <2>1, <2>2, <2>3
<1>14. ASSUME NEW i \in D, i <= n + m PROVE AtRoot(st, roots, i) /\ e[i] \in D
  <2>1. CASE i \in B /\ i <= n
    <3>1. i \in 1 .. n /\ 0 + i = i /\ st[i] = s[i]
      BY <1>4, <1>7, <1>9, <2>1
    <3>2. AtRoot(s, roots, i) /\ es[i] \in B
      BY <1>7, <2>1
    <3>3. es[i] # 0 /\ es[i] <= 0 + n + 1 /\ (es[i] - 0) + 0 = es[i]
      <4>1. es[i] \in 1 .. n + 1
        BY <1>7, <3>2
      <4>2. \A x \in 1 .. n + 1 : x # 0 /\ x <= 0 + n + 1 /\ (x - 0) + 0 = x
        BY <1>4
      <4> QED
        BY ONLY <4>1, <4>2
    <3>4. e[i] = es[i]
      BY <1>12, <3>1, <3>3 DEF EndsAlike
    <3> QED
      BY <3>1, <3>2, <3>4 DEF AtRoot
  <2>2. CASE ~(i \in B /\ i <= n)
    <3>1. PICK j \in C : i = n + j
      <4>1. i = n + 1 \/ \E j \in C : i = n + j
        BY <1>4, <1>7, <2>2
      <4> QED
        BY <1>8, <4>1
    <3>2. j \in 1 .. m /\ 0 + j = j /\ st[n + j] = t[j] /\ j <= m
      BY <1>4, <1>8, <1>10, <1>14, <3>1
    <3>3. AtRoot(t, roots, j) /\ et[j] \in C
      BY <1>8, <3>2
    <3>4. et[j] # 0 /\ et[j] <= 0 + m + 1 /\ (et[j] - 0) + n = n + et[j]
      <4>1. et[j] \in 1 .. m + 1
        BY <1>8, <3>3
      <4>2. \A x \in 1 .. m + 1 : x # 0 /\ x <= 0 + m + 1 /\ (x - 0) + n = n + x
        BY <1>4
      <4> QED
        BY ONLY <4>1, <4>2
    <3>5. e[n + j] = n + et[j]
      BY <1>12, <3>2, <3>4 DEF EndsAlike
    <3> QED
      BY <3>1, <3>2, <3>3, <3>5 DEF AtRoot
  <2> QED
    BY <2>1, <2>2
<1> HIDE DEF D
<1>15. Joints(D, I, ctx, roots, st)
  BY <1>5, <1>13, <1>14 DEF Joints, e
<1> QED
  BY <1>6, <1>15 DEF Chained, st

\* A whole subtree of the task's own options is such a list.
LEMMA SubtreeChains ==
    \A I, ctx, roots, list : IsOptions(I.option) /\ StoredList(list) => \A i \in 1 .. Len(list) :
        IsWhole(list, roots, Subtrees(I, ctx, list), i) =>
            Chained(I, ctx, roots, SubSeq(list, i, Subtrees(I, ctx, list)[i] - 1))
<1> SUFFICES ASSUME NEW I, NEW ctx, NEW roots, NEW list, IsOptions(I.option), StoredList(list), NEW i \in 1 .. Len(list),
                    IsWhole(list, roots, Subtrees(I, ctx, list), i)
    PROVE  Chained(I, ctx, roots, SubSeq(list, i, Subtrees(I, ctx, list)[i] - 1))
  OBVIOUS
<1> DEFINE N == Len(list)
           S == ToSet(list)
           end == Subtrees(I, ctx, list)
           at == end[i]
           sub == SubSeq(list, i, at - 1)
           m == at - i
           own == Subtrees(I, ctx, sub)
<1>1. N \in Nat /\ list \in Seq(S) /\ DOMAIN list = 1 .. N
  BY ListFacts DEF StoredList
<1>2. end \in Ends(list)
  BY SubtreesEnd
<1>3. at \in Behind(list, i) /\ at # 0 /\ AtRoot(list, roots, i)
  BY <1>2 DEF Ends, IsWhole
<1>4. i \in 1 .. N /\ at \in 1 .. N + 1 /\ i < at
  BY <1>1, <1>3 DEF Behind
<1> HIDE DEF at
<1>5. m \in Nat /\ m >= 1 /\ (i - 1) + m <= N /\ i - 1 \in Nat /\ (at - 1) - i + 1 = m
  BY <1>1, <1>4
<1>6. /\ sub \in Seq(S) /\ Len(sub) = m
      /\ \A j \in 1 .. m : sub[j] = list[i + j - 1]
  <2>1. i \in Int /\ at - 1 \in Int /\ i <= at - 1
    BY <1>1, <1>4
  <2>2. \A j \in i .. at - 1 : list[j] \in S
    <3>1. \A j \in i .. at - 1 : j \in 1 .. N
      BY <1>1, <1>4
    <3>2. \A j \in 1 .. N : list[j] \in S
      BY <1>1
    <3> QED
      BY <3>1, <3>2
  <2> HIDE DEF S, m
  <2>3. /\ SubSeq(list, i, at - 1) \in Seq(S)
        /\ Len(SubSeq(list, i, at - 1)) = (IF i <= at - 1 THEN (at - 1) - i + 1 ELSE 0)
        /\ \A j \in 1 .. (at - 1) - i + 1 : SubSeq(list, i, at - 1)[j] = list[i + j - 1]
    BY <2>1, <2>2, SubSeqProperties
  <2> QED
    BY <1>5, <2>1, <2>3
<1> HIDE DEF sub, m
<1>7. StoredList(sub)
  BY <1>6, SeqIsList DEF StoredList
<1>8. \A k \in 1 .. m : sub[0 + k] = list[(i - 1) + k]
  <2>1. \A k \in 1 .. m : 0 + k = k /\ (i - 1) + k = i + k - 1
    BY <1>4, <1>5
  <2> QED
    BY <1>6, <2>1
<1>9. Window(list, sub, i - 1, 0, m)
  BY <1>1, <1>5, <1>6, <1>7, <1>8 DEF Window
<1>10. 1 \in 1 .. m
  BY <1>5
<1>11. EndsAlike(end, own, i - 1, 0, m, 1)
  BY <1>9, <1>10, SubtreesAlike
<1> HIDE DEF end, own
<1>12. own[1] = m + 1
  <2>1. (i - 1) + 1 = i /\ at <= (i - 1) + m + 1 /\ 0 + 1 = 1 /\ (at - (i - 1)) + 0 = m + 1
    BY <1>4, <1>5 DEF m
  <2> QED
    BY <1>3, <1>11, <2>1 DEF EndsAlike, at
<1>13. AtRoot(sub, roots, 1)
  <2>1. i + 1 - 1 = i
    BY <1>4
  <2> QED
    BY <1>3, <1>6, <1>10, <2>1 DEF AtRoot
<1>14. Joints({1, m + 1}, I, ctx, roots, sub)
  <2>1. {1, m + 1} \subseteq 1 .. m + 1 /\ \A j \in {1, m + 1} : j <= m => j = 1
    BY <1>5
  <2> QED
    BY <1>6, <1>12, <1>13, <2>1 DEF Joints, own
<1> QED
  BY <1>7, <1>14 DEF Chained, sub, at, end

\* What is kept of any list is one subtree of the task's own options after the other.
LEMMA KeptChains ==
    \A I, ctx, roots, list : IsOptions(I.option) /\ StoredList(list) => Chained(I, ctx, roots, Kept(I, ctx, roots, list))
<1> SUFFICES ASSUME NEW I, NEW ctx, NEW roots, NEW list, IsOptions(I.option), StoredList(list)
    PROVE  Chained(I, ctx, roots, Kept(I, ctx, roots, list))
  OBVIOUS
<1> DEFINE N == Len(list)
           X == 1 .. N + 1
           end == Subtrees(I, ctx, list)
           rank == [i \in X |-> N + 1 - i]
<1>1. N \in Nat /\ IsList(list)
  BY ListFacts DEF StoredList
<1>2. end \in Ends(list)
  BY SubtreesEnd
<1>3. PICK k : Keeping(k, list, roots, end) /\ Kept(I, ctx, roots, list) = k[1]
  BY KeptGoes
<1>4. \A i \in 1 .. Len(list) : IsWhole(list, roots, end, i) => Chained(I, ctx, roots, SubSeq(list, i, end[i] - 1))
  BY SubtreeChains
<1> HIDE DEF end
<1>5. \A i \in X : k[i] = KeptFrom(k, list, roots, end, i)
  BY <1>3 DEF Keeping
<1> DEFINE S == {i \in X : Chained(I, ctx, roots, k[i])}
<1>6. rank \in [X -> 0 .. N]
  <2>1. \A i \in X : N + 1 - i \in 0 .. N
    BY <1>1
  <2> QED
    BY <2>1
<1> HIDE DEF N
<1>7. ASSUME NEW i \in X, \A j \in X : rank[j] < rank[i] => j \in S PROVE i \in S
  <2>1. ASSUME NEW j \in X, i < j PROVE Chained(I, ctx, roots, k[j])
    <3>1. rank[j] = N + 1 - j /\ rank[i] = N + 1 - i /\ N + 1 - j < N + 1 - i
      BY <1>1, <2>1
    <3>2. j \in S
      <4> HIDE DEF S, rank, X
      <4> QED
        BY <1>7, <2>1, <3>1
    <3> QED
      BY <3>2
  <2> SUFFICES Chained(I, ctx, roots, k[i])
    OBVIOUS
  <2>2. CASE i > N
    BY <1>5, <2>2, NothingChains DEF KeptFrom, N
  <2>3. CASE ~(i > N) /\ IsWhole(list, roots, end, i)
    <3> DEFINE at == end[i]
    <3>1. i \in 1 .. N
      BY <1>1, <2>3
    <3>2. at \in Behind(list, i) /\ at # 0
      BY <1>2, <2>3, <3>1 DEF Ends, IsWhole, N
    <3>3. at \in X /\ i < at
      BY <1>1, <3>1, <3>2 DEF Behind, N
    <3>4. k[i] = SubSeq(list, i, at - 1) \o k[at]
      BY <1>5, <2>3 DEF KeptFrom, N
    <3>5. Chained(I, ctx, roots, SubSeq(list, i, at - 1))
      BY <1>4, <2>3, <3>1 DEF N
    <3> HIDE DEF at
    <3>6. Chained(I, ctx, roots, k[at])
      BY <2>1, <3>3
    <3> QED
      BY <3>4, <3>5, <3>6, ChainsJoin
  <2>4. CASE ~(i > N) /\ ~IsWhole(list, roots, end, i)
    <3> DEFINE at == NextRoot(list, roots, i)
    <3>1. i \in 1 .. N
      BY <1>1, <2>4
    <3>2. at \in X /\ i < at
      BY <1>1, <3>1, NextRootIs DEF N
    <3>3. k[i] = k[at]
      BY <1>5, <2>4 DEF KeptFrom, N
    <3> HIDE DEF at
    <3> QED
      BY <2>1, <3>2, <3>3
  <2> QED
    BY <2>2, <2>3, <2>4
<1>8. X \subseteq S
  <2> HIDE DEF S, X, rank
  <2> QED
    BY <1>1, <1>6, <1>7, RankInduction
<1>9. 1 \in X
  BY <1>1
<1> QED
  BY <1>3, <1>8, <1>9

\* An entry that the check of a task neither passes over nor changes.
Untouched(I, ctx, roots, e) ==
    /\ e.name \in roots \/ e.name \notin DOMAIN I.option \/ Fits(I.option[e.name], ctx)
    /\ Deduped(I, e) = e

\* The check leaves subtrees of such entries alone.
LEMMA CheckKeeps ==
    \A I, ctx, task, list :
        /\ IsOptions(I.option) /\ Chained(I, ctx, ToSet(I.task[task].roots), list)
        /\ \A e \in ToSet(list) : Untouched(I, ctx, ToSet(I.task[task].roots), e)
        => CheckTask(I, ctx, task, list) = list
<1> SUFFICES ASSUME NEW I, NEW ctx, NEW task, NEW list, IsOptions(I.option),
                    Chained(I, ctx, ToSet(I.task[task].roots), list),
                    \A e \in ToSet(list) : Untouched(I, ctx, ToSet(I.task[task].roots), e)
    PROVE  CheckTask(I, ctx, task, list) = list
  OBVIOUS
<1> DEFINE roots == ToSet(I.task[task].roots)
           Stays(e) == e.name \in roots \/ e.name \notin DOMAIN I.option \/ Fits(I.option[e.name], ctx)
           V == {e \in ToSet(list) : Stays(e)}
           applicable == Only(list, V)
           deduped == [i \in DOMAIN applicable |-> Deduped(I, applicable[i])]
<1>1. CheckTask(I, ctx, task, list) = IF Fits(I.task[task], ctx) THEN Kept(I, ctx, roots, deduped) ELSE list
  BY DEF CheckTask
<1>2. V = ToSet(list)
  BY DEF Untouched
<1>3. list \in Seq(ToSet(list)) /\ DOMAIN list = 1 .. Len(list) /\ \A i \in 1 .. Len(list) : list[i] \in ToSet(list)
  BY ListFacts DEF Chained, StoredList
<1> HIDE DEF V
<1>4. applicable = list
  BY <1>2, <1>3, OnlyAll
<1> HIDE DEF applicable
<1>5. \A i \in DOMAIN list : Deduped(I, list[i]) = list[i]
  BY <1>3 DEF Untouched
<1>6. deduped = list
  <2>1. deduped = [i \in DOMAIN list |-> list[i]]
    BY <1>4, <1>5
  <2>2. list = [i \in DOMAIN list |-> list[i]]
    BY <1>3
  <2> QED
    BY <2>1, <2>2
<1> HIDE DEF deduped
<1>7. Kept(I, ctx, roots, list) = list
  BY ChainIsKept
<1> QED
  BY <1>1, <1>6, <1>7

\* Removing the repeated cases of an entry again changes nothing.
LEMMA DedupedTwice ==
    \A I, e : IsStored(e) =>
        IsStored(Deduped(I, e)) /\ Deduped(I, e).name = e.name /\ Deduped(I, Deduped(I, e)) = Deduped(I, e)
<1> SUFFICES ASSUME NEW I, NEW e, IsStored(e)
    PROVE  IsStored(Deduped(I, e)) /\ Deduped(I, e).name = e.name /\ Deduped(I, Deduped(I, e)) = Deduped(I, e)
  OBVIOUS
<1>1. e = Entry(e.name, e.value, e.values, e.inputs) /\ IsList(e.values)
  BY DEF IsStored
<1>2. CASE e.name \in DOMAIN I.option /\ I.option[e.name].kind = "checkbox"
  <2> DEFINE once == Unique(e.values)
             d == Entry(e.name, e.value, once, e.inputs)
             S == ToSet(e.values)
  <2>1. Deduped(I, e) = d
    <3>1. Deduped(I, e) = [e EXCEPT !.values = Unique(@)]
      BY <1>2 DEF Deduped
    <3> QED
      BY <1>1, <3>1 DEF Entry
  <2>2. IsList(once)
    BY <1>1, NothingIsList, WithNewIsList DEF Unique
  <2>3. IsInjective(once)
    <3>1. e.values \in Seq(S) /\ <<>> \in Seq(S)
      BY <1>1, ListFacts, EmptySeq
    <3> HIDE DEF S
    <3> QED
      BY <3>1, OnceEmpty, WithNewOnce DEF Unique
  <2>4. Unique(once) = once
    <3>1. once \in Seq(ToSet(once))
      BY <2>2, ListFacts
    <3> HIDE DEF once
    <3> QED
      BY <2>3, <3>1, UniqueOnce
  <2> HIDE DEF once
  <2>5. d.name = e.name /\ d.value = e.value /\ d.values = once /\ d.inputs = e.inputs
    BY DEF Entry
  <2>6. IsStored(d)
    BY <2>2, <2>5 DEF IsStored
  <2>7. Deduped(I, d) = d
    <3>1. Deduped(I, d) = [d EXCEPT !.values = Unique(@)]
      BY <1>2, <2>5 DEF Deduped
    <3>2. [d EXCEPT !.values = Unique(@)] = [d EXCEPT !.values = once]
      BY <2>4, <2>5
    <3> QED
      BY <3>1, <3>2 DEF Entry
  <2> QED
    BY <2>1, <2>5, <2>6, <2>7
<1>3. CASE ~(e.name \in DOMAIN I.option /\ I.option[e.name].kind = "checkbox")
  BY <1>3 DEF Deduped
<1> QED
  BY <1>2, <1>3

\* A second check finds nothing to remove.
LEMMA CheckTwice ==
    \A I, ctx, task, list : IsOptions(I.option) /\ StoredList(list) =>
        CheckTask(I, ctx, task, CheckTask(I, ctx, task, list)) = CheckTask(I, ctx, task, list)
<1> SUFFICES ASSUME NEW I, NEW ctx, NEW task, NEW list, IsOptions(I.option), StoredList(list)
    PROVE  CheckTask(I, ctx, task, CheckTask(I, ctx, task, list)) = CheckTask(I, ctx, task, list)
  OBVIOUS
<1> DEFINE roots == ToSet(I.task[task].roots)
           Stays(e) == e.name \in roots \/ e.name \notin DOMAIN I.option \/ Fits(I.option[e.name], ctx)
           V == {e \in ToSet(list) : Stays(e)}
           applicable == Only(list, V)
           deduped == [i \in DOMAIN applicable |-> Deduped(I, applicable[i])]
           kept == Kept(I, ctx, roots, deduped)
<1>1. CheckTask(I, ctx, task, list) = IF Fits(I.task[task], ctx) THEN kept ELSE list
  BY DEF CheckTask
<1>2. CASE ~Fits(I.task[task], ctx)
  <2>1. \A l : CheckTask(I, ctx, task, l) = l
    BY <1>2 DEF CheckTask
  <2> QED
    BY <2>1
<1>3. CASE Fits(I.task[task], ctx)
  <2> DEFINE S == ToSet(list)
             D == {Deduped(I, e) : e \in V}
  <2>1. list \in Seq(S)
    BY ListFacts DEF StoredList
  <2>2. applicable \in Seq(S) /\ ToSet(applicable) = S \cap V
    <3> HIDE DEF S, V
    <3>1. Only(list, V) \in Seq(S) /\ ToSet(Only(list, V)) = ToSet(list) \cap V
      BY ONLY <2>1, OnlyRange
    <3> QED
      BY <3>1 DEF S
  <2>3. \A e \in V : IsStored(e) /\ Stays(e)
    BY DEF StoredList
  <2> HIDE DEF applicable, V
  <2>4. Len(applicable) \in Nat /\ DOMAIN applicable = 1 .. Len(applicable) /\ \A i \in 1 .. Len(applicable) : applicable[i] \in V
    <3>1. IsList(applicable)
      BY <2>2, SeqIsList
    <3> QED
      BY <2>2, <3>1, ListFacts
  <2>5. deduped \in Seq(D)
    <3>1. \A i \in 1 .. Len(applicable) : Deduped(I, applicable[i]) \in D
      BY <2>4
    <3>2. deduped = [i \in 1 .. Len(applicable) |-> Deduped(I, applicable[i])]
      BY <2>4
    <3> HIDE DEF D, deduped
    <3> QED
      BY <2>4, <3>1, <3>2
  <2>6. \A e \in D : IsStored(e) /\ Untouched(I, ctx, roots, e)
    <3> SUFFICES ASSUME NEW e \in V PROVE IsStored(Deduped(I, e)) /\ Untouched(I, ctx, roots, Deduped(I, e))
      OBVIOUS
    <3>1. IsStored(e) /\ Stays(e)
      BY <2>3
    <3>2. IsStored(Deduped(I, e)) /\ Deduped(I, e).name = e.name /\ Deduped(I, Deduped(I, e)) = Deduped(I, e)
      BY <3>1, DedupedTwice
    <3> QED
      BY <3>1, <3>2 DEF Untouched
  <2> HIDE DEF D, deduped, roots
  <2>7. StoredList(deduped) /\ ToSet(deduped) \subseteq D
    BY <2>5, <2>6, SeqIsList DEF StoredList
  <2>8. kept \in Seq(ToSet(deduped)) /\ Chained(I, ctx, roots, kept)
    BY <2>7, KeptWithin, KeptChains
  <2>9. \A e \in ToSet(kept) : Untouched(I, ctx, roots, e)
    BY <2>6, <2>7, <2>8, SeqIsList
  <2> HIDE DEF kept
  <2>10. CheckTask(I, ctx, task, kept) = kept
    BY <2>8, <2>9, CheckKeeps DEF roots
  <2> QED
    BY <1>1, <1>3, <2>10
<1> QED
  BY <1>2, <1>3

-----------------------------------------------------------------------------
(* What the prompts put together is such a list.                            *)

\* One subtree of the option, or nothing where the option does not apply.
IsSubtree(I, ctx, o, t) ==
    /\ ~Fits(I.option[o], ctx) => t = <<>>
    /\ Fits(I.option[o], ctx) =>
           /\ Len(t) >= 1 /\ t[1].name = o
           /\ Subtrees(I, ctx, t)[1] = Len(t) + 1

\* Where the first names of a list of names end, their subtrees one behind the other.
LEMMA PassesSubtrees ==
    \A I, ctx, E, T, names, e, rest :
        /\ IsOptions(I.option) /\ IsList(names) /\ ToSet(names) \subseteq DOMAIN I.option
        /\ \A x \in E : IsStored(x)
        /\ \A c \in ToSet(names) : T[c] \subseteq {t \in Seq(E) : IsSubtree(I, ctx, c, t)}
        /\ e \in E /\ rest \in Forest(T, names)
        => LET l == <<e>> \o rest IN
           \A f : Passing(f, Subtrees(I, ctx, l), I, ctx, l, 1, names) => f[Len(names)] = Len(l) + 1
<1> SUFFICES ASSUME NEW I, NEW ctx, NEW E, NEW T, NEW names, NEW e, NEW rest,
                    IsOptions(I.option), IsList(names), ToSet(names) \subseteq DOMAIN I.option,
                    \A x \in E : IsStored(x),
                    \A c \in ToSet(names) : T[c] \subseteq {t \in Seq(E) : IsSubtree(I, ctx, c, t)},
                    e \in E, rest \in Forest(T, names),
                    NEW f, Passing(f, Subtrees(I, ctx, <<e>> \o rest), I, ctx, <<e>> \o rest, 1, names)
    PROVE  f[Len(names)] = Len(<<e>> \o rest) + 1
  OBVIOUS
<1> DEFINE N == Len(names)
           l == <<e>> \o rest
           end == Subtrees(I, ctx, l)
<1>1. N \in Nat /\ \A n \in 1 .. N : names[n] \in ToSet(names)
  BY ListFacts
<1>2. PICK h : Planted(h, Seq(E), T, names)
  <2>1. \A o \in ToSet(names) : T[o] \subseteq Seq(E)
    OBVIOUS
  <2> QED
    BY <2>1, SeqCloses, ForestGoes
<1>3. /\ h[0] = {<<>>}
      /\ \A n \in 1 .. N : h[n] = Joined(h[n - 1], T[names[n]])
      /\ \A n \in 0 .. N : h[n] \subseteq Seq(E)
      /\ Forest(T, names) = h[N]
  BY <1>2 DEF Planted, Plants
<1>4. f[0] = 1 + 1 /\ \A n \in 1 .. N : f[n] = FollowedTo(end, I, ctx, l, f[n - 1], names[n])
  BY DEF Passing
<1>5. <<e>> \in Seq(E) /\ Len(<<e>>) = 1
  OBVIOUS
<1>6. rest \in Seq(E)
  BY <1>1, <1>3
<1>7. l \in Seq(E) /\ Len(l) = 1 + Len(rest)
  BY <1>5, <1>6, ConcatProperties
<1>8. StoredList(l)
  BY <1>7, SeqIsList DEF StoredList
<1> HIDE DEF N, end, l
<1> DEFINE S == {n \in 0 .. N : \A r \in h[n] : \A post \in Seq(E) : l = (<<e>> \o r) \o post => f[n] = Len(r) + 2}
<1>9. 0 \in S
  <2>1. Len(<<>>) + 2 = 1 + 1
    OBVIOUS
  <2> QED
    BY <1>1, <1>3, <1>4, <2>1
<1>10. ASSUME NEW n \in Nat, n < N, n \in S PROVE n + 1 \in S
  <2>1. n + 1 \in 0 .. N /\ n + 1 \in 1 .. N /\ n \in 0 .. N /\ (n + 1) - 1 = n
    BY <1>1, <1>10
  <2> DEFINE c == names[n + 1]
  <2>2. f[n + 1] = FollowedTo(end, I, ctx, l, f[n], c) /\ h[n + 1] = Joined(h[n], T[c]) /\ c \in ToSet(names)
    BY <1>1, <1>3, <1>4, <2>1
  <2> HIDE DEF c
  <2>3. ASSUME NEW r \in h[n + 1], NEW post \in Seq(E), l = (<<e>> \o r) \o post PROVE f[n + 1] = Len(r) + 2
    <3>1. PICK done \in h[n] : \E more \in T[c] : r = done \o more
      <4>1. r \in Joined(h[n], T[c])
        BY <2>2, <2>3
      <4> QED
        BY ONLY <4>1, JoinedAre
    <3>2. PICK more \in T[c] : r = done \o more
      BY <3>1
    <3>3. done \in Seq(E) /\ more \in Seq(E) /\ IsSubtree(I, ctx, c, more)
      BY <1>3, <2>1, <2>2
    <3> DEFINE pre == <<e>> \o done
               tail == more \o post
               d == Len(done)
               m == Len(more)
               p == Len(post)
    <3>4. d \in Nat /\ m \in Nat /\ p \in Nat
      BY <3>3
    <3>5. pre \in Seq(E) /\ Len(pre) = 1 + d
      BY <1>5, <3>3, ConcatProperties
    <3>6. tail \in Seq(E) /\ Len(tail) = m + p /\ \A i \in 1 .. m + p : tail[i] = IF i <= m THEN more[i] ELSE post[i - m]
      BY <3>3, ConcatProperties
    <3>7. l = pre \o tail
      <4>1. \A s, t, u \in Seq(E) : (s \o t) \o u = s \o (t \o u)
        BY Associates
      <4>2. <<e>> \o r = pre \o more
        BY <1>5, <3>2, <3>3, <4>1
      <4>3. (pre \o more) \o post = pre \o tail
        BY <3>3, <3>5, <4>1
      <4> QED
        BY <2>3, <4>2, <4>3
    <3>8. Len(r) = d + m
      BY <3>2, <3>3, ConcatProperties
    <3>9. f[n] = d + 2
      BY <1>10, <3>6, <3>7
    <3> HIDE DEF pre, tail, d, m, p
    <3>10. /\ Len(l) = (1 + d) + (m + p)
           /\ \A i \in 1 .. (1 + d) + (m + p) : l[i] = IF i <= 1 + d THEN pre[i] ELSE tail[i - (1 + d)]
      BY <3>5, <3>6, <3>7, ConcatProperties
    <3>11. c \in DOMAIN I.option /\ f[n] # 0
      BY <2>2, <3>4, <3>9
    <3>12. CASE ~Fits(I.option[c], ctx)
      <4>1. more = <<>> /\ m = 0
        BY <3>3, <3>12 DEF IsSubtree, m
      <4>2. f[n + 1] = f[n]
        BY <2>2, <3>11, <3>12 DEF FollowedTo
      <4> QED
        BY <3>4, <3>8, <3>9, <4>1, <4>2
    <3>13. CASE Fits(I.option[c], ctx)
      <4>1. m >= 1 /\ more[1].name = c /\ Subtrees(I, ctx, more)[1] = m + 1
        BY <3>3, <3>13 DEF IsSubtree, m
      <4>2. \A k \in 1 .. m : l[(1 + d) + k] = more[0 + k]
        <5>1. ASSUME NEW k \in 1 .. m PROVE l[(1 + d) + k] = more[0 + k]
          <6>1. /\ (1 + d) + k \in 1 .. (1 + d) + (m + p) /\ ~((1 + d) + k <= 1 + d)
                /\ ((1 + d) + k) - (1 + d) = k /\ 0 + k = k /\ k \in 1 .. m + p /\ k <= m
            BY <3>4
          <6> QED
            BY <3>6, <3>10, <6>1
        <5> QED
          BY <5>1
      <4>3. Window(more, l, 0, 1 + d, m)
        <5>1. StoredList(more)
          BY <3>3, SeqIsList DEF StoredList
        <5>2. 0 + m <= Len(more) /\ (1 + d) + m <= Len(l) /\ 1 + d \in Nat /\ 0 \in Nat
          BY <3>4, <3>10 DEF m
        <5> QED
          BY <1>8, <3>4, <4>2, <5>1, <5>2 DEF Window
      <4>4. 1 \in 1 .. m
        BY <3>4, <4>1
      <4>5. EndsAlike(Subtrees(I, ctx, more), end, 0, 1 + d, m, 1)
        BY <4>3, <4>4, SubtreesAlike DEF end
      <4>6. 0 + 1 = 1 /\ m + 1 # 0 /\ m + 1 <= 0 + m + 1 /\ (m + 1 - 0) + (1 + d) = Len(r) + 2 /\ (1 + d) + 1 = f[n]
        BY <3>4, <3>8, <3>9
      <4>7. end[f[n]] = Len(r) + 2
        <5> DEFINE own == Subtrees(I, ctx, more)
        <5>1. own[0 + 1] # 0 /\ own[0 + 1] <= 0 + m + 1 => end[(1 + d) + 1] = (own[0 + 1] - 0) + (1 + d)
          BY <4>5 DEF EndsAlike
        <5> HIDE DEF own
        <5>2. own[1] = m + 1
          BY <4>1 DEF own
        <5>3. own[0 + 1] = m + 1
          BY <4>6, <5>2
        <5>4. end[(1 + d) + 1] = (m + 1 - 0) + (1 + d)
          <6> DEFINE x == own[0 + 1]
          <6>1. x # 0 /\ x <= 0 + m + 1 => end[(1 + d) + 1] = (x - 0) + (1 + d)
            BY ONLY <5>1
          <6>2. x = m + 1
            BY ONLY <5>3
          <6> HIDE DEF x
          <6>3. x # 0 /\ x <= 0 + m + 1
            BY ONLY <4>6, <6>2
          <6>4. end[(1 + d) + 1] = (x - 0) + (1 + d)
            BY ONLY <6>1, <6>3
          <6> QED
            BY ONLY <6>2, <6>4
        <5> QED
          BY <4>6, <5>4
      <4>8. f[n] \in DOMAIN l /\ l[f[n]] = more[1]
        <5>1. DOMAIN l = 1 .. (1 + d) + (m + p)
          BY <1>7, <3>10
        <5>2. f[n] \in 1 .. (1 + d) + (m + p)
          BY <3>4, <3>9, <4>1
        <5> QED
          BY <4>2, <4>4, <4>6, <5>1, <5>2
      <4> QED
        BY <2>2, <3>11, <3>13, <4>1, <4>7, <4>8 DEF FollowedTo
    <3> QED
      BY <3>12, <3>13
  <2> QED
    BY <2>1, <2>3
<1> HIDE DEF S
<1>11. 0 .. N \subseteq S
  BY <1>1, <1>9, <1>10, UpTo
<1>12. rest \in h[N] /\ <<>> \in Seq(E) /\ l = (<<e>> \o rest) \o <<>>
  <2>1. l = l \o <<>>
    BY <1>7, ConcatEmptySeq
  <2> QED
    BY <1>3, <2>1, EmptySeq DEF l
<1>13. f[N] = Len(rest) + 2
  <2>1. N \in S
    BY <1>1, <1>11
  <2>2. \A r \in h[N] : \A post \in Seq(E) : l = (<<e>> \o r) \o post => f[N] = Len(r) + 2
    BY <2>1 DEF S
  <2> QED
    BY ONLY <1>12, <2>2
<1>14. Len(rest) \in Nat
  BY <1>6
<1>15. f[N] = Len(l) + 1
  BY <1>7, <1>13, <1>14
<1> QED
  BY <1>15 DEF N, l

\* The menu's answers where they apply.
ApplicableAnswers(I, ctx) == {e \in AllAnswers(I, "unverified") : Fits(I.option[e.name], ctx)}

\* The check of a task has nothing against them.
LEMMA AnswersUntouched ==
    \A I, ctx, roots : IsOptions(I.option) /\ (\A o \in DOMAIN I.option : ValidCheckbox(I.option[o])) =>
        \A e \in ApplicableAnswers(I, ctx) : IsStored(e) /\ Untouched(I, ctx, roots, e)
<1> SUFFICES ASSUME NEW I, NEW ctx, NEW roots, IsOptions(I.option), \A o \in DOMAIN I.option : ValidCheckbox(I.option[o]),
                    NEW e \in ApplicableAnswers(I, ctx)
    PROVE  IsStored(e) /\ Untouched(I, ctx, roots, e)
  OBVIOUS
<1>1. e \in AllAnswers(I, "unverified") /\ Fits(I.option[e.name], ctx)
  BY DEF ApplicableAnswers
<1>2. PICK o \in DOMAIN I.option : e \in Answers(I, o, "unverified")
  BY <1>1 DEF AllAnswers
<1>3. e.name = o /\ IsStored(e)
  <2>1. \A how : e \in Answers(I, o, how) => e.name = o /\ IsStored(e)
    BY <1>2, AnswersAre
  <2> QED
    BY ONLY <1>2, <2>1
<1>4. IsInjective(e.values)
  BY <1>2, AnswersSettled DEF Settled
<1>5. Unique(e.values) = e.values
  <2>1. e.values \in Seq(ToSet(e.values))
    BY <1>3, ListFacts DEF IsStored
  <2> QED
    BY <1>4, <2>1, UniqueOnce
<1>6. Deduped(I, e) = e
  <2>1. e = Entry(e.name, e.value, e.values, e.inputs)
    BY <1>3 DEF IsStored
  <2>2. [e EXCEPT !.values = Unique(@)] = e
    BY <1>5, <2>1 DEF Entry
  <2> QED
    BY <2>2 DEF Deduped
<1> QED
  BY <1>1, <1>3, <1>6 DEF Untouched

\* The lists over E that are one subtree of the option, for each option there is.
SubtreesOf(I, ctx, E) == [o \in STRING |-> {t \in Seq(E) : o \in DOMAIN I.option => IsSubtree(I, ctx, o, t)}]

\* What grows from entries that apply, their choices valid, is one subtree.
LEMMA SubtreesGrow ==
    \A I, ctx, V, E :
        /\ IsOptions(I.option) /\ EndsEverywhere(I)
        /\ \A e \in E : IsStored(e)
        /\ \A o \in DOMAIN I.option : \A e \in V[o] :
               /\ e.name = o /\ Selects(I.option[o], e) /\ ValidChoice(I.option[o], e)
               /\ Fits(I.option[o], ctx) => e \in E
        => Bears(SubtreesOf(I, ctx, E), I, ctx, V, E)
<1> SUFFICES ASSUME NEW I, NEW ctx, NEW V, NEW E,
                    IsOptions(I.option), EndsEverywhere(I), \A e \in E : IsStored(e),
                    \A o \in DOMAIN I.option : \A e \in V[o] :
                        /\ e.name = o /\ Selects(I.option[o], e) /\ ValidChoice(I.option[o], e)
                        /\ Fits(I.option[o], ctx) => e \in E
    PROVE  Bears(SubtreesOf(I, ctx, E), I, ctx, V, E)
  OBVIOUS
<1> DEFINE Of(o) == {t \in Seq(E) : o \in DOMAIN I.option => IsSubtree(I, ctx, o, t)}
           T == SubtreesOf(I, ctx, E)
<1>1. \A o \in STRING : T[o] = Of(o)
  BY DEF SubtreesOf
<1>2. T \in [STRING -> SUBSET Seq(E)]
  BY DEF SubtreesOf
<1>3. \A e \in E : IsStored(e)
  OBVIOUS
<1>4. \A o \in DOMAIN I.option : \A e \in V[o] :
          /\ e.name = o /\ Selects(I.option[o], e) /\ ValidChoice(I.option[o], e)
          /\ Fits(I.option[o], ctx) => e \in E
  OBVIOUS
<1>5. \A o \in DOMAIN I.option : Kids(I, o) \subseteq DOMAIN I.option /\ o \in STRING
  BY DEF EndsEverywhere, Kids, IsOptions
<1> HIDE DEF T, Of
<1>6. \A o \in DOMAIN I.option : T[o] \subseteq {t \in Seq(E) : IsSubtree(I, ctx, o, t)}
  BY <1>1, <1>5 DEF Of
<1>7. \A o \in DOMAIN I.option : \A t \in Seq(E) : IsSubtree(I, ctx, o, t) => t \in T[o]
  <2> SUFFICES ASSUME NEW o \in DOMAIN I.option, NEW t \in Seq(E), IsSubtree(I, ctx, o, t) PROVE t \in T[o]
    OBVIOUS
  <2>1. T[o] = Of(o)
    BY ONLY <1>1, <1>5
  <2>2. t \in Of(o)
    BY DEF Of
  <2> QED
    BY ONLY <2>1, <2>2
<1>8. ASSUME NEW o \in DOMAIN I.option, ~Fits(I.option[o], ctx) PROVE <<>> \in T[o]
  <2>1. <<>> \in Seq(E) /\ IsSubtree(I, ctx, o, <<>>)
    BY <1>8, EmptySeq DEF IsSubtree
  <2> QED
    BY ONLY <1>8, <1>7, <2>1
<1>9. ASSUME NEW o \in DOMAIN I.option, Fits(I.option[o], ctx), NEW e \in V[o], NEW rest \in Forest(T, Children(I.option[o], e))
      PROVE  <<e>> \o rest \in T[o]
  <2> DEFINE names == Children(I.option[o], e)
             l == <<e>> \o rest
             end == Subtrees(I, ctx, l)
  <2>1. e.name = o /\ ValidChoice(I.option[o], e) /\ e \in E
    BY <1>4, <1>9
  <2>2. IsList(names) /\ ToSet(names) \subseteq DOMAIN I.option
    <3>1. Selects(I.option[o], e)
      BY <1>4
    <3>2. IsList(names) /\ ToSet(names) \subseteq Kids(I, o)
      BY <3>1, ChildrenAre
    <3> QED
      BY <1>5, <3>2
  <2>3. rest \in Forest(T, names)
    OBVIOUS
  <2> HIDE DEF names
  <2>4. \A c \in ToSet(names) : T[c] \subseteq {t \in Seq(E) : IsSubtree(I, ctx, c, t)}
    BY <1>6, <2>2
  <2>5. rest \in Seq(E)
    <3>1. \A c \in ToSet(names) : T[c] \subseteq Seq(E)
      BY <2>4
    <3>2. Forest(T, names) \subseteq Seq(E)
      BY <2>2, <3>1, SeqCloses, ForestFacts
    <3> QED
      BY <2>3, <3>2
  <2>6. /\ l \in Seq(E) /\ Len(l) = 1 + Len(rest) /\ Len(rest) \in Nat
        /\ l[1] = e
    <3>1. <<e>> \in Seq(E) /\ Len(<<e>>) = 1 /\ <<e>>[1] = e
      BY <2>1
    <3>2. Len(rest) \in Nat
      BY <2>5
    <3>3. 1 \in 1 .. Len(<<e>>) + Len(rest) /\ 1 <= Len(<<e>>)
      BY <3>1, <3>2
    <3>4. /\ l \in Seq(E) /\ Len(l) = Len(<<e>>) + Len(rest)
          /\ \A i \in 1 .. Len(<<e>>) + Len(rest) : l[i] = IF i <= Len(<<e>>) THEN <<e>>[i] ELSE rest[i - Len(<<e>>)]
      BY <2>5, <3>1, ConcatProperties
    <3> HIDE DEF l
    <3> QED
      BY <3>1, <3>2, <3>3, <3>4
  <2>7. \A f : Passing(f, end, I, ctx, l, 1, names) => f[Len(names)] = Len(l) + 1
    BY <1>3, <2>1, <2>2, <2>3, <2>4, PassesSubtrees
  <2>8. StoredList(l)
    <3> HIDE DEF l
    <3> QED
      BY <1>3, <2>6, SeqIsList DEF StoredList
  <2>9. 1 \in 1 .. Len(l) /\ Len(l) >= 1
    BY <2>6
  <2> HIDE DEF l
  <2>10. end \in Ends(l) /\ end[1] = EndAt(end, I, ctx, l, 1)
    BY <2>8, <2>9, SubtreesEnd
  <2> HIDE DEF end
  <2>11. end[1] = PastAll(end, I, ctx, l, 1, names)
    BY <1>9, <2>1, <2>6, <2>10 DEF EndAt, names
  <2>12. GoesPast(end, I, ctx, l, 1, names)
    <3>1. SameBehind(l, 1, end, end)
      BY DEF SameBehind
    <3> QED
      BY <2>2, <2>8, <2>9, <2>10, <3>1, PastGoes DEF StoredList
  <2>13. PICK f \in [0 .. Len(names) -> Behind(l, 1)] :
             Passing(f, end, I, ctx, l, 1, names) /\ PastAll(end, I, ctx, l, 1, names) = f[Len(names)]
    BY <2>12 DEF GoesPast
  <2>14. end[1] = Len(l) + 1
    BY <2>7, <2>11, <2>13
  <2>15. IsSubtree(I, ctx, o, l)
    BY <1>9, <2>1, <2>6, <2>9, <2>14 DEF IsSubtree, end
  <2>16. l \in T[o]
    BY ONLY <1>9, <1>7, <2>6, <2>15
  <2> QED
    BY <2>16 DEF l
<1> QED
  BY <1>2, <1>8, <1>9 DEF Bears, T

\* Every tree the menu makes is one subtree of its option.
LEMMA TreesAreSubtrees ==
    \A I, ctx :
        IsOptions(I.option) /\ EndsEverywhere(I) /\ (\A o \in DOMAIN I.option : ValidCheckbox(I.option[o])) =>
            \A o \in DOMAIN I.option :
                Trees(I, ctx, "unverified")[o] \subseteq {t \in Seq(ApplicableAnswers(I, ctx)) : IsSubtree(I, ctx, o, t)}
<1> SUFFICES ASSUME NEW I, NEW ctx, IsOptions(I.option), EndsEverywhere(I), \A o \in DOMAIN I.option : ValidCheckbox(I.option[o])
    PROVE  \A o \in DOMAIN I.option :
               Trees(I, ctx, "unverified")[o] \subseteq {t \in Seq(ApplicableAnswers(I, ctx)) : IsSubtree(I, ctx, o, t)}
  OBVIOUS
<1> DEFINE E == ApplicableAnswers(I, ctx)
           V == [o \in DOMAIN I.option |-> Answers(I, o, "unverified")]
           T == SubtreesOf(I, ctx, E)
<1>1. \A e \in E : IsStored(e)
  BY AnswersUntouched
<1>2. \A o \in DOMAIN I.option : \A e \in V[o] :
          /\ e.name = o /\ Selects(I.option[o], e) /\ ValidChoice(I.option[o], e)
          /\ Fits(I.option[o], ctx) => e \in E
  <2> SUFFICES ASSUME NEW o \in DOMAIN I.option, NEW e \in V[o]
      PROVE  /\ e.name = o /\ Selects(I.option[o], e) /\ ValidChoice(I.option[o], e)
             /\ Fits(I.option[o], ctx) => e \in E
    OBVIOUS
  <2>1. e \in Answers(I, o, "unverified")
    OBVIOUS
  <2>2. ValidChoice(I.option[o], e)
    BY <2>1, AnswersSettled DEF Settled
  <2>3. \A auto2 : e \in Answers(I, o, auto2) => e.name = o /\ Selects(I.option[o], e)
    BY AnswersAre
  <2>4. e.name = o /\ Selects(I.option[o], e)
    BY ONLY <2>1, <2>3
  <2>5. Fits(I.option[o], ctx) => e \in E
    BY <2>1, <2>4 DEF AllAnswers, ApplicableAnswers
  <2> QED
    BY <2>2, <2>4, <2>5
<1> HIDE DEF E, V
<1>3. Bears(T, I, ctx, V, E)
  BY <1>1, <1>2, SubtreesGrow
<1>4. \A o \in STRING : Trees(I, ctx, "unverified")[o] \subseteq T[o]
  <2> HIDE DEF T
  <2>1. \A auto2 : (\A o \in DOMAIN I.option : Answers(I, o, auto2) \subseteq V[o]) =>
            \A o \in STRING : Trees(I, ctx, auto2)[o] \subseteq T[o]
    BY <1>3, TreesBorne
  <2>2. \A o \in DOMAIN I.option : Answers(I, o, "unverified") \subseteq V[o]
    BY DEF V
  <2> QED
    BY ONLY <2>1, <2>2
<1>5. \A o \in DOMAIN I.option : o \in STRING /\ T[o] \subseteq {t \in Seq(E) : IsSubtree(I, ctx, o, t)}
  BY DEF IsOptions, SubtreesOf
<1> QED
  BY <1>4, <1>5 DEF E

\* A list of subtrees of roots is one of them after the other.
LEMMA ForestChains ==
    \A I, ctx, E, T, roots :
        /\ IsOptions(I.option) /\ \A e \in E : IsStored(e)
        /\ IsList(roots) /\ ToSet(roots) \subseteq DOMAIN I.option
        /\ \A o \in ToSet(roots) : T[o] \subseteq {t \in Seq(E) : IsSubtree(I, ctx, o, t)}
        => \A l \in Forest(T, roots) : l \in Seq(E) /\ Chained(I, ctx, ToSet(roots), l)
<1> SUFFICES ASSUME NEW I, NEW ctx, NEW E, NEW T, NEW roots,
                    IsOptions(I.option), \A e \in E : IsStored(e),
                    IsList(roots), ToSet(roots) \subseteq DOMAIN I.option,
                    \A o \in ToSet(roots) : T[o] \subseteq {t \in Seq(E) : IsSubtree(I, ctx, o, t)}
    PROVE  \A l \in Forest(T, roots) : l \in Seq(E) /\ Chained(I, ctx, ToSet(roots), l)
  OBVIOUS
<1> DEFINE C == {l \in Seq(E) : Chained(I, ctx, ToSet(roots), l)}
<1>1. Closes(C)
  <2>1. <<>> \in C
    BY EmptySeq, NothingChains
  <2>2. ASSUME NEW s \in C, NEW t \in C PROVE s \o t \in C
    <3>1. s \o t \in Seq(E)
      BY ConcatProperties
    <3>2. Chained(I, ctx, ToSet(roots), s \o t)
      BY ChainsJoin
    <3> QED
      BY <3>1, <3>2
  <2> QED
    BY <2>1, <2>2 DEF Closes
<1>2. ASSUME NEW o \in ToSet(roots), NEW t \in T[o] PROVE t \in C
  <2>1. o \in DOMAIN I.option /\ t \in Seq(E) /\ IsSubtree(I, ctx, o, t)
    OBVIOUS
  <2>2. CASE ~Fits(I.option[o], ctx)
    BY <2>1, <2>2, EmptySeq, NothingChains DEF IsSubtree
  <2>3. CASE Fits(I.option[o], ctx)
    <3>1. Len(t) >= 1 /\ Len(t) \in Nat /\ t[1].name = o /\ Subtrees(I, ctx, t)[1] = Len(t) + 1
      BY <2>1, <2>3 DEF IsSubtree
    <3>2. StoredList(t)
      BY <2>1, SeqIsList DEF StoredList
    <3> DEFINE m == Len(t)
    <3>3. {1, m + 1} \subseteq 1 .. m + 1 /\ \A j \in {1, m + 1} : j <= m => j = 1
      BY <3>1
    <3>4. Joints({1, m + 1}, I, ctx, ToSet(roots), t)
      BY <3>1, <3>3 DEF Joints, AtRoot
    <3> QED
      BY <2>1, <3>2, <3>4 DEF Chained
  <2> QED
    BY <2>2, <2>3
<1> HIDE DEF C
<1>3. Forest(T, roots) \subseteq C
  <2>1. \A o \in ToSet(roots) : T[o] \subseteq C
    BY <1>2
  <2> QED
    BY <1>1, <2>1, ForestFacts
<1> QED
  BY <1>3 DEF C

\* A list the menu filled in for roots is one subtree of roots after the other.
LEMMA FilledChains ==
    \A I, ctx, roots :
        /\ IsOptions(I.option) /\ EndsEverywhere(I) /\ \A o \in DOMAIN I.option : ValidCheckbox(I.option[o])
        /\ IsList(roots) /\ ToSet(roots) \subseteq DOMAIN I.option
        => \A l \in Filled(I, ctx, roots, "unverified") :
               Chained(I, ctx, ToSet(roots), l) /\ \A e \in ToSet(l) : Untouched(I, ctx, ToSet(roots), e)
<1> SUFFICES ASSUME NEW I, NEW ctx, NEW roots,
                    IsOptions(I.option), EndsEverywhere(I), \A o \in DOMAIN I.option : ValidCheckbox(I.option[o]),
                    IsList(roots), ToSet(roots) \subseteq DOMAIN I.option
    PROVE  \A l \in Filled(I, ctx, roots, "unverified") :
               Chained(I, ctx, ToSet(roots), l) /\ \A e \in ToSet(l) : Untouched(I, ctx, ToSet(roots), e)
  OBVIOUS
<1> DEFINE E == ApplicableAnswers(I, ctx)
           tree == Trees(I, ctx, "unverified")
<1>1. \A o \in DOMAIN I.option : tree[o] \subseteq {t \in Seq(E) : IsSubtree(I, ctx, o, t)}
  BY TreesAreSubtrees
<1>2. \A e \in E : IsStored(e) /\ Untouched(I, ctx, ToSet(roots), e)
  BY AnswersUntouched
<1> HIDE DEF E, tree
<1>3. \A l \in Forest(tree, roots) : l \in Seq(E) /\ Chained(I, ctx, ToSet(roots), l)
  <2>1. /\ IsOptions(I.option) /\ \A e \in E : IsStored(e)
        /\ IsList(roots) /\ ToSet(roots) \subseteq DOMAIN I.option
        /\ \A o \in ToSet(roots) : tree[o] \subseteq {t \in Seq(E) : IsSubtree(I, ctx, o, t)}
    BY <1>1, <1>2
  <2> QED
    BY ONLY <2>1, ForestChains
<1>4. Filled(I, ctx, roots, "unverified") = Forest(tree, roots)
  BY DEF Filled, tree
<1>5. \A l \in Seq(E) : ToSet(l) \subseteq E
  BY SeqIsList
<1> QED
  BY <1>2, <1>3, <1>4, <1>5

-----------------------------------------------------------------------------
(* Where every option can be asked for, completing succeeds.                *)

\* The prompt of such an option has an answer, and so have the defaults.
LEMMA PickedCaseExists == \A opt, how : IsList(opt.cases) /\ CanAsk(opt) /\ IsChoice(opt) => PickCase(opt, how) # {}
<1> SUFFICES ASSUME NEW opt, NEW how, IsList(opt.cases), CanAsk(opt), IsChoice(opt) PROVE PickCase(opt, how) # {}
  OBVIOUS
<1> DEFINE n == Len(opt.cases)
<1>1. n \in Nat /\ \A i \in 1 .. n : opt.cases[i] \in ToSet(opt.cases)
  BY ListFacts
<1>2. n >= 1 /\ ~(n < IF opt.kind = "switch" THEN 2 ELSE 1)
  BY <1>1 DEF CanAsk, IsChoice
<1>3. opt.cases[1] \in ToSet(opt.cases)
  BY <1>1, <1>2
<1> QED
  BY <1>2, <1>3 DEF PickCase

\* Of a list without repetition as many stay as are wanted.
LEMMA OnlyCounts ==
    \A s, V : IsList(s) /\ IsInjective(s) /\ V \subseteq ToSet(s) => Len(Only(s, V)) = Cardinality(V)
<1> SUFFICES ASSUME NEW s, NEW V, IsList(s), IsInjective(s), V \subseteq ToSet(s) PROVE Len(Only(s, V)) = Cardinality(V)
  OBVIOUS
<1> DEFINE d == Only(s, V)
<1>1. s \in Seq(ToSet(s))
  BY DEF IsList
<1>2. d \in Seq(ToSet(s)) /\ ToSet(d) = V /\ IsInjective(d)
  <2>1. d \in Seq(ToSet(s)) /\ ToSet(d) = ToSet(s) \cap V
    BY <1>1, OnlyRange
  <2>2. IsInjective(d)
    BY <1>1, OnlyOnce
  <2> QED
    BY <2>1, <2>2
<1> HIDE DEF d
<1>3. IsList(d)
  BY <1>2, SeqIsList
<1>4. Len(d) \in Nat /\ DOMAIN d = 1 .. Len(d) /\ d \in [1 .. Len(d) -> V] /\ \A v \in V : \E i \in 1 .. Len(d) : d[i] = v
  <2>1. Len(d) \in Nat /\ d \in Seq(ToSet(d)) /\ DOMAIN d = 1 .. Len(d)
    BY <1>3, ListFacts
  <2>2. d \in [1 .. Len(d) -> V]
    BY <1>2, <2>1
  <2>3. V = {d[i] : i \in DOMAIN d}
    BY <1>2 DEF ToSet
  <2> QED
    BY <2>1, <2>2, <2>3
<1>5. \A i, j \in 1 .. Len(d) : d[i] = d[j] => i = j
  BY <1>2, <1>4 DEF IsInjective
<1>6. d \in Bijection(1 .. Len(d), V)
  BY <1>4, <1>5 DEF Bijection, Injection, Surjection, IsInjective
<1>7. ExistsBijection(1 .. Len(d), V)
  BY <1>6 DEF ExistsBijection
<1>8. Cardinality(V) = Len(d)
  BY <1>4, <1>7, FS_CountingElements
<1> QED
  BY <1>8 DEF d

LEMMA PickedCasesExist ==
    \A opt, how :
        /\ IsList(opt.cases) /\ opt.min \in Nat /\ opt.max \in Nat \cup {Unlimited}
        /\ CanAsk(opt) /\ ValidCheckbox(opt) /\ opt.kind = "checkbox"
        => PickCases(opt, how) # {}
<1> SUFFICES ASSUME NEW opt, NEW how, IsList(opt.cases), opt.min \in Nat, opt.max \in Nat \cup {Unlimited},
                    CanAsk(opt), ValidCheckbox(opt), opt.kind = "checkbox"
    PROVE  PickCases(opt, how) # {}
  OBVIOUS
<1> DEFINE C == ToSet(opt.cases)
           n == Len(opt.cases)
           m == opt.min
           first == [i \in 1 .. m |-> opt.cases[i]]
<1>1. n \in Nat /\ DOMAIN opt.cases = 1 .. n /\ \A i \in 1 .. n : opt.cases[i] \in C
  BY ListFacts
<1>2. n >= 1 /\ m <= n /\ m \in Nat /\ IsInjective(opt.cases) /\ opt.cases # <<>>
  <2>1. n >= 1 /\ m <= n /\ m \in Nat /\ IsInjective(opt.cases)
    BY DEF CanAsk, ValidCheckbox
  <2> QED
    BY <2>1
<1>3. CASE opt.max = 0
  BY <1>2, <1>3 DEF PickCases
<1>4. CASE opt.max # 0 /\ how = "auto" /\ DefaultCases(opt) # <<>>
  <2>1. opt.list /\ DefaultCases(opt) = Only(opt.cases, ToSet(opt.default))
    BY <1>4 DEF DefaultCases
  <2>2. ToSet(opt.default) \subseteq C /\ CountFits(opt, Cardinality(ToSet(opt.default)))
    BY <2>1 DEF ValidCheckbox
  <2>3. Len(Only(opt.cases, ToSet(opt.default))) = Cardinality(ToSet(opt.default))
    BY <1>2, <2>2, OnlyCounts
  <2>4. CountFits(opt, Len(DefaultCases(opt)))
    BY <2>1, <2>2, <2>3
  <2> QED
    BY <1>2, <1>4, <2>4 DEF PickCases
<1>5. CASE opt.max # 0 /\ ~(how = "auto" /\ DefaultCases(opt) # <<>>)
  <2>1. \A i \in 1 .. m : i \in 1 .. n
    BY <1>1, <1>2
  <2>2. first \in Seq(C) /\ Len(first) = m /\ IsInjective(first)
    <3>1. \A i \in 1 .. m : opt.cases[i] \in C
      BY <1>1, <2>1
    <3>2. first \in [1 .. m -> C]
      BY <3>1
    <3>3. \A i, j \in 1 .. m : first[i] = first[j] => i = j
      BY <1>1, <1>2, <2>1 DEF IsInjective
    <3> HIDE DEF first, C
    <3>4. first \in Seq(C) /\ Len(first) = m /\ DOMAIN first = 1 .. m
      BY <1>2, <3>2
    <3> QED
      BY <3>3, <3>4 DEF IsInjective
  <2>3. IsFiniteSet(C)
    BY RangeFinite
  <2> HIDE DEF first
  <2>4. first \in SetToAllKPermutations(C)
    BY <2>2, <2>3, OncePermutes
  <2>5. CountFits(opt, Len(first))
    <3>1. opt.max = Unlimited \/ m <= opt.max
      BY DEF ValidCheckbox
    <3>2. m <= m
      BY <1>2
    <3> QED
      BY <2>2, <3>1, <3>2 DEF CountFits
  <2>6. first \in PickCases(opt, how)
    BY <1>2, <1>5, <2>4, <2>5 DEF PickCases
  <2> QED
    BY <2>6
<1> QED
  BY <1>3, <1>4, <1>5

LEMMA AnswersExist ==
    \A I, how : how # "ask" /\ IsOptions(I.option) => \A o \in DOMAIN I.option : Asks(I.option[o]) => Answers(I, o, how) # {}
<1> SUFFICES ASSUME NEW I, NEW how, how # "ask", IsOptions(I.option), NEW o \in DOMAIN I.option, Asks(I.option[o])
    PROVE  Answers(I, o, how) # {}
  OBVIOUS
<1> DEFINE opt == I.option[o]
<1>1. /\ IsList(opt.cases) /\ opt.kind \in {"select", "switch", "checkbox", "input"} /\ CanAsk(opt) /\ ValidCheckbox(opt)
      /\ opt.min \in Nat /\ opt.max \in Nat \cup {Unlimited}
  BY DEF IsOptions, Asks
<1>2. CASE IsChoice(opt)
  <2>1. PickCase(opt, how) # {}
    BY <1>1, <1>2, PickedCaseExists
  <2>2. opt.kind # "checkbox" /\ opt.kind # "input"
    BY <1>2 DEF IsChoice
  <2>3. Answers(I, o, how) = {Entry(o, v, <<>>, NoInputs) : v \in PickCase(opt, how)}
    BY <1>2, <2>2 DEF Answers
  <2> QED
    BY <2>1, <2>3
<1>3. CASE opt.kind = "checkbox"
  <2>1. PickCases(opt, how) # {}
    BY <1>1, <1>3, PickedCasesExist
  <2>2. Answers(I, o, how) = {Entry(o, NoValue, vs, NoInputs) : vs \in PickCases(opt, how)}
    BY <1>3 DEF Answers, IsChoice
  <2> QED
    BY <2>1, <2>2
<1>4. CASE opt.kind = "input"
  <2>1. [f \in opt.inputs |-> Default] \in TypeInputs(opt, how)
    BY DEF TypeInputs
  <2>2. Answers(I, o, how) = {Entry(o, NoValue, <<>>, ins) : ins \in TypeInputs(opt, how)}
    BY <1>4 DEF Answers, IsChoice
  <2> QED
    BY <2>1, <2>2
<1> QED
  BY <1>1, <1>2, <1>3, <1>4 DEF IsChoice

LEMMA ForestExists ==
    \A T, tree, names :
        IsList(names) /\ Closes(T) /\ (\A o \in ToSet(names) : tree[o] \subseteq T /\ tree[o] # {}) =>
            Forest(tree, names) # {}
<1> SUFFICES ASSUME NEW T, NEW tree, NEW names, IsList(names), Closes(T),
                    \A o \in ToSet(names) : tree[o] \subseteq T /\ tree[o] # {}
    PROVE  Forest(tree, names) # {}
  OBVIOUS
<1> DEFINE N == Len(names)
<1>1. N \in Nat /\ \A n \in 1 .. N : names[n] \in ToSet(names)
  BY ListFacts
<1>2. PICK f : Planted(f, T, tree, names)
  BY ForestGoes
<1>3. f[0] = {<<>>} /\ (\A n \in 1 .. N : f[n] = Joined(f[n - 1], tree[names[n]])) /\ Forest(tree, names) = f[N]
  BY <1>2 DEF Planted, Plants
<1> HIDE DEF N
<1> DEFINE W == {n \in 0 .. N : f[n] # {}}
<1>4. 0 \in W
  <2>1. f[0] # {}
    BY <1>3
  <2> QED
    BY <1>1, <2>1
<1>5. ASSUME NEW n \in Nat, n < N, n \in W PROVE n + 1 \in W
  <2>1. n + 1 \in 0 .. N /\ n + 1 \in 1 .. N /\ (n + 1) - 1 = n
    BY <1>1, <1>5
  <2> DEFINE o == names[n + 1]
  <2>2. f[n + 1] = Joined(f[n], tree[o]) /\ tree[o] # {} /\ f[n] # {}
    BY <1>1, <1>3, <1>5, <2>1
  <2> HIDE DEF o
  <2>3. PICK done \in f[n], more \in tree[o] : TRUE
    BY <2>2
  <2>4. \A l : l = done \o more => l \in Joined(f[n], tree[o])
    BY <2>3, JoinedAre
  <2> QED
    BY <2>1, <2>2, <2>4
<1> HIDE DEF W
<1>6. 0 .. N \subseteq W
  BY <1>1, <1>4, <1>5, UpTo
<1>7. f[N] # {}
  BY <1>1, <1>6 DEF W
<1> QED
  BY <1>3, <1>7

\* process_option has a list for every option.
LEMMA TreesExist ==
    \A I, ctx, how : how # "ask" /\ IsOptions(I.option) /\ EndsEverywhere(I) /\ AsksAll(I) =>
        \A o \in DOMAIN I.option : Trees(I, ctx, how)[o] # {}
<1> SUFFICES ASSUME NEW I, NEW ctx, NEW how, how # "ask", IsOptions(I.option), EndsEverywhere(I), AsksAll(I)
    PROVE  \A o \in DOMAIN I.option : Trees(I, ctx, how)[o] # {}
  OBVIOUS
<1> DEFINE tree == Trees(I, ctx, how)
           S == Seq(AllAnswers(I, how))
           N == Cardinality(DOMAIN I.option)
           X == {o \in STRING : o \in DOMAIN I.option => tree[o] # {}}
<1>1. DOMAIN I.option \subseteq STRING /\ \A o \in DOMAIN I.option : Kids(I, o) \subseteq DOMAIN I.option
  BY DEF IsOptions, EndsEverywhere, Kids
<1>2. N \in Nat
  BY RanksFall
<1>3. PICK rank \in [STRING -> 0 .. N] : Ranks(rank, I)
  BY RanksFall
<1>4. \A o \in STRING : tree[o] = Grown(tree, I, ctx, how, o)
  BY TreesGrow
<1>5. \A o \in STRING : tree[o] \subseteq S
  <2>1. \A o \in STRING : tree[o] \subseteq CompleteLists(I, ctx, AllAnswers(I, how), {o})
    BY TreesComplete
  <2> QED
    BY <2>1 DEF CompleteLists
<1>6. Closes(S)
  BY SeqCloses
<1> HIDE DEF tree, N, S
<1>7. ASSUME NEW o \in STRING, \A c \in STRING : rank[c] < rank[o] => c \in X PROVE o \in X
  <2>1. CASE o \notin DOMAIN I.option
    BY <2>1
  <2>2. CASE o \in DOMAIN I.option /\ ~Fits(I.option[o], ctx)
    <3>1. tree[o] = {<<>>}
      BY <1>4, <2>2 DEF Grown
    <3> QED
      BY <3>1
  <2>3. CASE o \in DOMAIN I.option /\ Fits(I.option[o], ctx)
    <3>1. Answers(I, o, how) # {}
      BY <2>3, AnswersExist DEF AsksAll
    <3>2. PICK e \in Answers(I, o, how) : TRUE
      BY <3>1
    <3> DEFINE names == Children(I.option[o], e)
    <3>3. Selects(I.option[o], e)
      BY <2>3, AnswersAre
    <3>4. IsList(names) /\ ToSet(names) \subseteq Kids(I, o)
      BY <2>3, <3>3, ChildrenAre
    <3>5. \A c \in Kids(I, o) : c \in STRING /\ tree[c] # {} /\ tree[c] \subseteq S
      BY <1>1, <1>3, <1>5, <1>7, <2>3 DEF Ranks
    <3> HIDE DEF names
    <3>6. Forest(tree, names) # {}
      <4>1. IsList(names) /\ Closes(S) /\ \A c \in ToSet(names) : tree[c] \subseteq S /\ tree[c] # {}
        BY <1>6, <3>4, <3>5
      <4> QED
        BY ONLY <4>1, ForestExists
    <3>7. PICK rest \in Forest(tree, names) : TRUE
      BY <3>6
    <3> DEFINE From(x) == {<<x>> \o more : more \in Forest(tree, Children(I.option[o], x))}
    <3>8. tree[o] = UNION {From(x) : x \in Answers(I, o, how)}
      BY <1>4, <2>3 DEF Grown
    <3>9. <<e>> \o rest \in From(e)
      BY <3>7 DEF names
    <3> HIDE DEF From
    <3>10. <<e>> \o rest \in tree[o]
      BY <3>2, <3>8, <3>9
    <3> QED
      BY <3>10
  <2> QED
    BY <2>1, <2>2, <2>3
<1> HIDE DEF X
<1>8. STRING \subseteq X
  BY <1>2, <1>3, <1>7, RankInduction
<1> QED
  BY <1>1, <1>8 DEF X, tree

\* A walk of options that all succeed succeeds.
LEMMA WalkSucceeds ==
    \A E, D, ways, names, start :
        /\ IsList(names) /\ Leads(ways, names, E, D) /\ start \in Progresses(E, D) /\ start.ok
        /\ \A o \in ToSet(names) : \A g \in D : \A p \in ways[o][g] : p.ok
        => \A p \in Walk(ways, start, names) : p.ok
<1> SUFFICES ASSUME NEW E, NEW D, NEW ways, NEW names, NEW start,
                    IsList(names), Leads(ways, names, E, D), start \in Progresses(E, D), start.ok,
                    \A o \in ToSet(names) : \A g \in D : \A p \in ways[o][g] : p.ok
    PROVE  \A p \in Walk(ways, start, names) : p.ok
  OBVIOUS
<1> DEFINE N == Len(names)
<1>1. N \in Nat /\ \A n \in 1 .. N : names[n] \in ToSet(names)
  BY ListFacts
<1>2. PICK f : Walked(f, ways, start, names, E, D)
  BY WalkGoes
<1>3. /\ f[0] = {start}
      /\ \A n \in 1 .. N : f[n] = Further(ways[names[n]], f[n - 1])
      /\ \A n \in 0 .. N : f[n] \subseteq Progresses(E, D)
      /\ Walk(ways, start, names) = f[N]
  BY <1>2 DEF Walked
<1> HIDE DEF N
<1> DEFINE W == {n \in 0 .. N : \A p \in f[n] : p.ok}
<1>4. 0 \in W
  BY <1>1, <1>3
<1>5. ASSUME NEW n \in Nat, n < N, n \in W PROVE n + 1 \in W
  <2>1. n + 1 \in 0 .. N /\ n + 1 \in 1 .. N /\ (n + 1) - 1 = n /\ n \in 0 .. N
    BY <1>1, <1>5
  <2> DEFINE o == names[n + 1]
  <2>2. f[n + 1] = Further(ways[o], f[n]) /\ o \in ToSet(names) /\ (\A p \in f[n] : p.ok) /\ f[n] \subseteq Progresses(E, D)
    BY <1>1, <1>3, <1>5, <2>1
  <2> HIDE DEF o
  <2>3. ASSUME NEW q \in f[n + 1] PROVE q.ok
    <3>1. PICK p \in f[n] : \/ p.ok /\ \E r \in ways[o][p.gone] : q = Progress(p.out \o r.out, r.gone, r.ok)
                            \/ ~p.ok /\ q = p
      BY <2>2, FurtherIs
    <3>2. p.ok /\ p.gone \in D
      BY <2>2 DEF Progresses
    <3>3. PICK r \in ways[o][p.gone] : q = Progress(p.out \o r.out, r.gone, r.ok)
      BY <3>1, <3>2
    <3>4. r.ok
      BY <2>2, <3>2
    <3> QED
      BY <3>3, <3>4 DEF Progress
  <2> QED
    BY <2>1, <2>3
<1> HIDE DEF W
<1>6. 0 .. N \subseteq W
  BY <1>1, <1>4, <1>5, UpTo
<1> QED
  BY <1>1, <1>3, <1>6 DEF W

\* An interface whose options can all be asked for, with a list.
Answerable(I, list) == IsOptions(I.option) /\ EndsEverywhere(I) /\ AsksAll(I) /\ StoredList(list)

\* No option fails.
LEMMA EnsuringSucceeds ==
    \A I, ctx, list, how : how # "ask" /\ Answerable(I, list) =>
        \A o \in DOMAIN I.option : \A gone \in SUBSET DOMAIN list : \A p \in Ensuring(I, ctx, list, how)[o][gone] : p.ok
<1> SUFFICES ASSUME NEW I, NEW ctx, NEW list, NEW how, how # "ask", Answerable(I, list)
    PROVE  \A o \in DOMAIN I.option : \A gone \in SUBSET DOMAIN list : \A p \in Ensuring(I, ctx, list, how)[o][gone] : p.ok
  OBVIOUS
<1>0. IsOptions(I.option) /\ EndsEverywhere(I) /\ AsksAll(I) /\ StoredList(list)
  BY DEF Answerable
<1> DEFINE ensure == Ensuring(I, ctx, list, how)
           E == Entries(I, list, how)
           D == SUBSET DOMAIN list
           N == Cardinality(DOMAIN I.option)
           X == {o \in STRING : o \in DOMAIN I.option => \A gone \in D : \A p \in ensure[o][gone] : p.ok}
<1>1. DOMAIN I.option \subseteq STRING /\ \A o \in DOMAIN I.option : Kids(I, o) \subseteq DOMAIN I.option
  BY <1>0 DEF IsOptions, EndsEverywhere, Kids
<1>2. N \in Nat
  BY <1>0, RanksFall
<1>3. PICK rank \in [STRING -> 0 .. N] : Ranks(rank, I)
  BY <1>0, RanksFall
<1>4. \A o \in STRING : \A gone \in D :
          /\ ensure[o][gone] \subseteq Progresses(E, D)
          /\ ensure[o][gone] = EnsuredAt(ensure, I, ctx, list, how, o, gone)
  <2>1. \A o \in STRING : \A gone \in D : Moves(I, ctx, list, how, o, gone)
    BY <1>0, EnsuringMoves
  <2> QED
    BY <2>1 DEF Moves
<1>5. \A o \in DOMAIN I.option : \A g : \A p \in Created(I, ctx, how, o, g) : p.ok
  <2>1. \A o \in DOMAIN I.option : Trees(I, ctx, how)[o] # {}
    BY <1>0, TreesExist
  <2> QED
    BY <2>1 DEF Created, Progress
<1>6. \A o \in DOMAIN I.option : Fits(I.option[o], ctx) => \A gone \in D :
          \/ \E g \in D : Renews(I, ctx, list, how, o, gone, g)
          \/ \E e \in E : Retains(I, ctx, list, how, o, gone, e)
  BY <1>0, RenewsOrRetains
<1> HIDE DEF ensure, N, E
<1>7. ASSUME NEW o \in STRING, \A c \in STRING : rank[c] < rank[o] => c \in X, o \in DOMAIN I.option, NEW gone \in D,
             NEW p \in ensure[o][gone]
      PROVE  p.ok
  <2>0. p \in EnsuredAt(ensure, I, ctx, list, how, o, gone)
    BY <1>4, <1>7
  <2>1. CASE ~Fits(I.option[o], ctx)
    <3>1. EnsuredAt(ensure, I, ctx, list, how, o, gone) = {Progress(<<>>, gone, TRUE)}
      BY <1>7, <2>1 DEF EnsuredAt
    <3> QED
      BY <2>0, <3>1 DEF Progress
  <2>2. CASE \E g \in D : Renews(I, ctx, list, how, o, gone, g)
    <3>1. PICK g \in D : Renews(I, ctx, list, how, o, gone, g)
      BY <2>2
    <3>2. p \in Created(I, ctx, how, o, g)
      BY <2>0, <3>1 DEF Renews
    <3> QED
      BY <1>5, <1>7, <3>2
  <2>3. CASE \E e \in E : Retains(I, ctx, list, how, o, gone, e)
    <3>1. PICK e \in E : Retains(I, ctx, list, how, o, gone, e)
      BY <2>3
    <3> DEFINE names == Children(I.option[o], e)
               start == Progress(<<e>>, gone, TRUE)
    <3>2. Selects(I.option[o], e) /\ p \in Walk(ensure, start, names)
      BY <2>0, <3>1 DEF Retains
    <3>3. IsList(names) /\ ToSet(names) \subseteq Kids(I, o)
      BY <1>0, <1>7, <3>2, ChildrenAre
    <3>4. \A c \in Kids(I, o) : c \in STRING /\ \A g \in D : \A q \in ensure[c][g] : q.ok
      BY <1>1, <1>3, <1>7 DEF Ranks
    <3>5. start \in Progresses(E, D) /\ start.ok
      <4>1. <<e>> \in Seq(E)
        OBVIOUS
      <4> QED
        BY <4>1 DEF Progress, Progresses
    <3> HIDE DEF names, start, D
    <3>6. /\ IsList(names) /\ Leads(ensure, names, E, D) /\ start \in Progresses(E, D) /\ start.ok
          /\ \A c \in ToSet(names) : \A g \in D : \A q \in ensure[c][g] : q.ok
      BY <1>4, <3>3, <3>4, <3>5 DEF Leads
    <3>7. \A q \in Walk(ensure, start, names) : q.ok
      BY ONLY <3>6, WalkSucceeds
    <3> QED
      BY <3>2, <3>7
  <2> QED
    BY <1>6, <1>7, <2>1, <2>2, <2>3
<1>8. \A o \in STRING : (\A c \in STRING : rank[c] < rank[o] => c \in X) => o \in X
  BY <1>7
<1> HIDE DEF X
<1>9. STRING \subseteq X
  BY <1>2, <1>3, <1>8, RankInduction
<1> QED
  BY <1>1, <1>9 DEF X, ensure

\* Completing does not fail.
LEMMA EnsuredSucceeds ==
    \A I, ctx, roots, list, how : how # "ask" /\ Answerable(I, list) /\ IsList(roots) /\ ToSet(roots) \subseteq DOMAIN I.option =>
        \A p \in Ensured(I, ctx, roots, list, how) : p.ok
<1> SUFFICES ASSUME NEW I, NEW ctx, NEW roots, NEW list, NEW how, how # "ask", Answerable(I, list),
                    IsList(roots), ToSet(roots) \subseteq DOMAIN I.option
    PROVE  \A p \in Ensured(I, ctx, roots, list, how) : p.ok
  OBVIOUS
<1>0. IsOptions(I.option) /\ EndsEverywhere(I) /\ StoredList(list) /\ DOMAIN I.option \subseteq STRING
  BY DEF Answerable, IsOptions
<1> DEFINE ensure == Ensuring(I, ctx, list, how)
           E == Entries(I, list, how)
           D == SUBSET DOMAIN list
           start == Progress(<<>>, {}, TRUE)
<1>1. \A o \in STRING : \A gone \in D : ensure[o][gone] \subseteq Progresses(E, D)
  BY <1>0, EnsuringMoves DEF Moves
<1>2. \A o \in DOMAIN I.option : \A gone \in D : \A p \in ensure[o][gone] : p.ok
  BY EnsuringSucceeds
<1>3. start \in Progresses(E, D) /\ start.ok
  <2>1. {} \in D
    OBVIOUS
  <2> QED
    BY <2>1, EmptySeq DEF Progress, Progresses
<1>4. Ensured(I, ctx, roots, list, how) = Walk(ensure, start, roots)
  BY EnsuredWalks
<1> HIDE DEF ensure, E, D, start
<1>5. /\ IsList(roots) /\ Leads(ensure, roots, E, D) /\ start \in Progresses(E, D) /\ start.ok
      /\ \A o \in ToSet(roots) : \A g \in D : \A p \in ensure[o][g] : p.ok
  BY <1>0, <1>1, <1>2, <1>3 DEF Leads
<1>6. \A p \in Walk(ensure, start, roots) : p.ok
  BY ONLY <1>5, WalkSucceeds
<1> QED
  BY <1>4, <1>6

\* An entry that, completed and valid, is nothing but what a run reads of it.
Plain(I, e) ==
    e.name \in DOMAIN I.option =>
        LET d == WithDefaults(I.option[e.name], e) IN ValidChoice(I.option[e.name], d) => Reading(I, d) = d

\* The answers are such entries.
LEMMA AnswersRead ==
    \A I, how : IsOptions(I.option) => \A o \in DOMAIN I.option : \A e \in Answers(I, o, how) : Reading(I, e) = e
<1> SUFFICES ASSUME NEW I, NEW how, IsOptions(I.option), NEW o \in DOMAIN I.option, NEW e \in Answers(I, o, how)
    PROVE  Reading(I, e) = e
  OBVIOUS
<1> DEFINE opt == I.option[o]
<1>1. opt.kind \in {"select", "switch", "checkbox", "input"}
  BY DEF IsOptions
<1>2. CASE IsChoice(opt)
  <2>1. opt.kind # "checkbox" /\ opt.kind # "input"
    BY <1>2 DEF IsChoice
  <2>2. PICK v \in PickCase(opt, how) : e = Entry(o, v, <<>>, NoInputs)
    BY <1>2, <2>1 DEF Answers
  <2>3. e.name = o /\ e.value = v
    BY <2>2 DEF Entry
  <2>4. Reading(I, e) = Entry(e.name, e.value, <<>>, NoInputs)
    BY <1>2, <2>1, <2>3 DEF Reading, Read
  <2> QED
    BY <2>2, <2>3, <2>4
<1>3. CASE opt.kind = "checkbox"
  <2>1. ~IsChoice(opt)
    BY <1>3 DEF IsChoice
  <2>2. PICK vs \in PickCases(opt, how) : e = Entry(o, NoValue, vs, NoInputs)
    BY <1>3, <2>1 DEF Answers
  <2>3. e.name = o /\ e.values = vs
    BY <2>2 DEF Entry
  <2>4. Reading(I, e) = Entry(e.name, NoValue, e.values, NoInputs)
    BY <1>3, <2>1, <2>3 DEF Reading, Read
  <2> QED
    BY <2>2, <2>3, <2>4
<1>4. CASE opt.kind = "input"
  <2>1. ~IsChoice(opt) /\ opt.kind # "checkbox"
    BY <1>4 DEF IsChoice
  <2>2. PICK ins \in TypeInputs(opt, how) : e = Entry(o, NoValue, <<>>, ins)
    BY <1>4, <2>1 DEF Answers
  <2>3. e.name = o /\ e.inputs = ins
    BY <2>2 DEF Entry
  <2>4. DOMAIN ins = opt.inputs /\ ins = [f \in opt.inputs |-> ins[f]]
    BY DEF TypeInputs
  <2> DEFINE read == [f \in opt.inputs |-> IF f \in DOMAIN e.inputs THEN e.inputs[f] ELSE Default]
  <2>5. read = ins
    BY <2>3, <2>4
  <2>6. Reading(I, e) = Entry(e.name, NoValue, <<>>, read)
    BY <1>4, <2>1, <2>3 DEF Reading, Read
  <2> HIDE DEF read
  <2> QED
    BY <2>2, <2>3, <2>5, <2>6
<1> QED
  BY <1>1, <1>2, <1>3, <1>4 DEF IsChoice

\* A run uses what an option of the completed list was given.
LEMMA GivenUses ==
    \A I, ctx, list, how : IsOptions(I.option) /\ StoredList(list) => \A o \in DOMAIN I.option : Fits(I.option[o], ctx) =>
        \A e \in Given(I, o, list, how) : Uses(I, ctx, e)
<1> SUFFICES ASSUME NEW I, NEW ctx, NEW list, NEW how, IsOptions(I.option), StoredList(list), NEW o \in DOMAIN I.option,
                    Fits(I.option[o], ctx), NEW e \in Given(I, o, list, how)
    PROVE  Uses(I, ctx, e)
  OBVIOUS
<1> DEFINE opt == I.option[o]
<1>0. \A d \in Given(I, o, list, how) : d.name = o /\ Selects(I.option[o], d)
  <2>1. \A c \in DOMAIN I.option : \A d \in Given(I, c, list, how) : d.name = c /\ Selects(I.option[c], d)
    BY ONLY IsOptions(I.option), StoredList(list), GivenAre
  <2> QED
    BY <2>1
<1>1. e.name = o /\ Selects(opt, e)
  BY <1>0
<1>2. ASSUME IsChoice(opt) PROVE e.value \in ToSet(opt.cases)
  <2> DEFINE v == e.value
             C == ToSet(opt.cases)
  <2>1. opt.kind # "checkbox" /\ opt.kind # "input"
    BY <1>2 DEF IsChoice
  <2>2. Chosen(opt, e) = <<v>>
    BY <1>2, <2>1 DEF Chosen
  <2>3. <<v>> \in Seq(C)
    BY <1>1, <2>2 DEF Selects
  <2> HIDE DEF v, C
  <2>4. v \in C
    BY <2>3
  <2> QED
    BY <2>4 DEF v, C
<1> QED
  BY <1>1, <1>2 DEF Uses

\* A run reads a completed list of plain entries as it is.
LEMMA EnsuredIsRead ==
    \A I, ctx, roots, list, how :
        /\ IsOptions(I.option) /\ EndsEverywhere(I) /\ StoredList(list) /\ \A e \in ToSet(list) : Plain(I, e)
        /\ IsList(roots) /\ ToSet(roots) \subseteq STRING
        => \A p \in Ensured(I, ctx, roots, list, how) : p.ok => Effects(I, ctx, p.out) = p.out
<1> SUFFICES ASSUME NEW I, NEW ctx, NEW roots, NEW list, NEW how,
                    IsOptions(I.option), EndsEverywhere(I), StoredList(list), \A e \in ToSet(list) : Plain(I, e),
                    IsList(roots), ToSet(roots) \subseteq STRING,
                    NEW p \in Ensured(I, ctx, roots, list, how), p.ok
    PROVE  Effects(I, ctx, p.out) = p.out
  OBVIOUS
<1> DEFINE E == Entries(I, list, how)
           V == Gifts(I, list, how)
           P == {e \in E : Uses(I, ctx, e) /\ Reading(I, e) = e}
           T == [o \in STRING |-> Seq(P)]
<1>1. \A o \in DOMAIN I.option : \A e \in V[o] : e \in Given(I, o, list, how)
  BY DEF Gifts
<1>2. \A o \in DOMAIN I.option : \A e \in V[o] : e \in E /\ e.name = o /\ Selects(I.option[o], e)
  <2> SUFFICES ASSUME NEW o \in DOMAIN I.option, NEW e \in V[o] PROVE e \in E /\ e.name = o /\ Selects(I.option[o], e)
    OBVIOUS
  <2> HIDE DEF V, P, T
  <2>1. e \in Given(I, o, list, how)
    BY <1>1
  <2>2. e \in Entries(I, list, how) /\ e.name = o /\ IsStored(e) /\ Selects(I.option[o], e)
    BY ONLY <2>1, IsOptions(I.option), StoredList(list), o \in DOMAIN I.option, GivenAre
  <2> QED
    BY <2>2
<1>3. ASSUME NEW o \in DOMAIN I.option, NEW e \in V[o] PROVE Reading(I, e) = e
  <2>1. CASE e \in AllAnswers(I, how)
    <3>1. PICK c \in DOMAIN I.option : e \in Answers(I, c, how)
      BY <2>1 DEF AllAnswers
    <3> QED
      BY <3>1, AnswersRead
  <2>2. CASE e \notin AllAnswers(I, how)
    <3>1. e \notin Answers(I, o, how)
      BY <2>2 DEF AllAnswers
    <3>2. e \in E /\ e.name = o /\ ValidChoice(I.option[o], e)
      BY <1>1, <3>1 DEF Given
    <3> DEFINE From(c) == {WithDefaults(I.option[c], f) : f \in EntriesOf(list, c)}
    <3>3. e \in UNION {From(c) : c \in DOMAIN I.option}
      BY <2>2, <3>2 DEF Entries
    <3>4. PICK c \in DOMAIN I.option : e \in From(c)
      BY <3>3
    <3>5. PICK f \in EntriesOf(list, c) : e = WithDefaults(I.option[c], f)
      BY <3>4
    <3>6. f \in ToSet(list) /\ f.name = c
      BY <3>5 DEF EntriesOf
    <3>7. c = o
      <4>1. IsStored(f)
        BY <3>6 DEF StoredList
      <4> QED
        BY <3>2, <3>5, <3>6, <4>1, DefaultsKeep
    <3>8. Plain(I, f)
      BY <3>6
    <3> QED
      BY <3>2, <3>5, <3>6, <3>7, <3>8 DEF Plain
  <2> QED
    BY <2>1, <2>2
<1>4. ASSUME NEW o \in DOMAIN I.option, Fits(I.option[o], ctx), NEW e \in V[o] PROVE e \in P
  BY <1>1, <1>2, <1>3, <1>4, GivenUses
<1>5. P \subseteq E
  OBVIOUS
<1>6. \A o \in STRING : T[o] = Seq(P)
  OBVIOUS
<1>7. DOMAIN I.option \subseteq STRING /\ \A o \in DOMAIN I.option : Kids(I, o) \subseteq STRING
  BY DEF IsOptions, EndsEverywhere, Kids
<1> HIDE DEF E, V, P
<1>8. Seq(P) \subseteq Seq(E)
  BY <1>5
<1>9. T \in [STRING -> SUBSET Seq(E)]
  BY <1>8
<1> HIDE DEF T
<1>10. ASSUME NEW names, IsList(names), ToSet(names) \subseteq STRING PROVE Forest(T, names) \subseteq Seq(P)
  <2>1. \A o \in ToSet(names) : T[o] \subseteq Seq(P)
    BY <1>6, <1>10
  <2> QED
    BY <1>10, <2>1, SeqCloses, ForestFacts
<1>11. ASSUME NEW o \in DOMAIN I.option, ~Fits(I.option[o], ctx) PROVE <<>> \in T[o]
  BY <1>6, <1>7, EmptySeq
<1>12. ASSUME NEW o \in DOMAIN I.option, Fits(I.option[o], ctx), NEW e \in V[o],
              NEW rest \in Forest(T, Children(I.option[o], e))
       PROVE  <<e>> \o rest \in T[o]
  <2> DEFINE names == Children(I.option[o], e)
  <2>1. IsList(names) /\ ToSet(names) \subseteq Kids(I, o)
    BY <1>2, ChildrenAre
  <2>2. ToSet(names) \subseteq STRING
    BY <1>7, <2>1
  <2>3. rest \in Seq(P)
    BY <1>10, <2>1, <2>2
  <2>4. e \in P
    BY <1>4, <1>12
  <2>5. <<e>> \in Seq(P)
    BY <2>4
  <2>6. <<e>> \o rest \in Seq(P)
    BY <2>3, <2>5, ConcatProperties
  <2> QED
    BY <1>6, <1>7, <2>6
<1>13. Bears(T, I, ctx, V, E)
  BY <1>9, <1>11, <1>12 DEF Bears
<1>14. Provided(T, I, ctx, list, how, E)
  BY <1>13 DEF Provided, V
<1>15. p.out \in Seq(P)
  <2>1. p.out \in Forest(T, roots)
    <3>1. StoredList(list) /\ Provided(T, I, ctx, list, how, Entries(I, list, how)) /\ IsList(roots) /\ ToSet(roots) \subseteq STRING
      BY <1>14 DEF E
    <3> QED
      BY ONLY <3>1, p \in Ensured(I, ctx, roots, list, how), p.ok, EnsuredBears
  <2> QED
    BY <1>10, <2>1
<1>16. \A s \in Seq(P) : Effects(I, ctx, s) = s
  <2> SUFFICES ASSUME NEW s \in Seq(P) PROVE Effects(I, ctx, s) = s
    OBVIOUS
  <2>1. Used(I, ctx, P) = P /\ \A e \in P : Reading(I, e) = e
    BY DEF Used, P
  <2>2. Effects(I, ctx, s) = EachRead(I, Only(s, P))
    <3>1. Effects(I, ctx, s) = EachRead(I, Only(s, Used(I, ctx, P)))
      BY EffectsAre
    <3> QED
      BY <2>1, <3>1
  <2>3. Only(s, P) = s
    BY OnlyAll
  <2>4. EachRead(I, s) = s
    <3>1. DOMAIN s = 1 .. Len(s) /\ \A i \in DOMAIN s : s[i] \in P
      BY LenProperties
    <3>2. EachRead(I, s) = [i \in DOMAIN s |-> s[i]]
      BY <2>1, <3>1 DEF EachRead
    <3>3. s = [i \in DOMAIN s |-> s[i]]
      OBVIOUS
    <3> QED
      BY <3>2, <3>3
  <2> QED
    BY <2>2, <2>3, <2>4
<1> QED
  BY <1>15, <1>16

\* Completing a list of plain entries makes one of the lists the user could have
\* put together.
LEMMA EnsuredFills ==
    \A I, ctx, roots, list, how :
        /\ how # "ask"
        /\ IsOptions(I.option) /\ EndsEverywhere(I) /\ AsksAll(I)
        /\ SoundList(list) /\ (\A e \in ToSet(list) : Plain(I, e))
        /\ IsList(roots) /\ ToSet(roots) \subseteq DOMAIN I.option
        => \A p \in Ensured(I, ctx, roots, list, how) : p.ok /\ p.out \in Filled(I, ctx, roots, "unverified")
<1> SUFFICES ASSUME NEW I, NEW ctx, NEW roots, NEW list, NEW how, how # "ask",
                    IsOptions(I.option), EndsEverywhere(I), AsksAll(I),
                    SoundList(list), \A e \in ToSet(list) : Plain(I, e),
                    IsList(roots), ToSet(roots) \subseteq DOMAIN I.option
    PROVE  \A p \in Ensured(I, ctx, roots, list, how) : p.ok /\ p.out \in Filled(I, ctx, roots, "unverified")
  OBVIOUS
<1>1. StoredList(list) /\ Answerable(I, list)
  BY SoundIsStored DEF Answerable
<1>2. ToSet(roots) \subseteq STRING
  BY DEF IsOptions
<1>3. \A p \in Ensured(I, ctx, roots, list, how) : p.ok
  BY <1>1, EnsuredSucceeds
<1>4. \A p \in Ensured(I, ctx, roots, list, how) : p.ok => Effects(I, ctx, p.out) = p.out
  BY <1>1, <1>2, EnsuredIsRead
<1>5. \A p \in Ensured(I, ctx, roots, list, how) : p.ok => Effects(I, ctx, p.out) \in Filled(I, ctx, roots, "unverified")
  <2>1. \A a : \A p \in Ensured(I, ctx, roots, list, a) :
            SoundList(p.out) /\ (p.ok => Effects(I, ctx, p.out) \in Filled(I, ctx, roots, "unverified"))
    BY <1>2, EnsuredReads
  <2> QED
    BY ONLY <2>1
<1> QED
  BY <1>3, <1>4, <1>5

-----------------------------------------------------------------------------
(* Where an option can be answered again.                                   *)

\* A list of three parts, and the outer two of them.
LEMMA ThreeParts ==
    \A E : \A pre, t, post \in Seq(E) :
        /\ pre \o (t \o post) \in Seq(E)
        /\ Len(pre \o (t \o post)) = Len(pre) + Len(t) + Len(post)
        /\ \A k \in 1 .. Len(t) : (pre \o (t \o post))[Len(pre) + k] = t[k]
        /\ \A k \in 1 .. Len(post) : (pre \o (t \o post))[Len(pre) + Len(t) + k] = post[k]
        /\ SubSeq(pre \o (t \o post), 1, Len(pre)) = pre
        /\ SubSeq(pre \o (t \o post), Len(pre) + Len(t) + 1, Len(pre) + Len(t) + Len(post)) = post
<1> SUFFICES ASSUME NEW E, NEW pre \in Seq(E), NEW t \in Seq(E), NEW post \in Seq(E)
    PROVE  /\ pre \o (t \o post) \in Seq(E)
           /\ Len(pre \o (t \o post)) = Len(pre) + Len(t) + Len(post)
           /\ \A k \in 1 .. Len(t) : (pre \o (t \o post))[Len(pre) + k] = t[k]
           /\ \A k \in 1 .. Len(post) : (pre \o (t \o post))[Len(pre) + Len(t) + k] = post[k]
           /\ SubSeq(pre \o (t \o post), 1, Len(pre)) = pre
           /\ SubSeq(pre \o (t \o post), Len(pre) + Len(t) + 1, Len(pre) + Len(t) + Len(post)) = post
  OBVIOUS
<1> DEFINE p == Len(pre)
           n == Len(t)
           q == Len(post)
           back == t \o post
           l == pre \o back
<1>1. p \in Nat /\ n \in Nat /\ q \in Nat
  OBVIOUS
<1>2. back \in Seq(E) /\ Len(back) = n + q /\ \A i \in 1 .. n + q : back[i] = IF i <= n THEN t[i] ELSE post[i - n]
  BY ConcatProperties
<1>3. l \in Seq(E) /\ Len(l) = p + Len(back) /\ \A i \in 1 .. p + Len(back) : l[i] = IF i <= p THEN pre[i] ELSE back[i - p]
  <2> HIDE DEF back, l
  <2>1. back \in Seq(E)
    BY <1>2
  <2>2. /\ pre \o back \in Seq(E) /\ Len(pre \o back) = Len(pre) + Len(back)
        /\ \A i \in 1 .. Len(pre) + Len(back) :
               (pre \o back)[i] = IF i <= Len(pre) THEN pre[i] ELSE back[i - Len(pre)]
    BY ONLY <2>1, pre \in Seq(E), ConcatProperties
  <2> QED
    BY <2>2 DEF l
<1> HIDE DEF back, l
<1>4. Len(l) = p + n + q
  BY <1>1, <1>2, <1>3
<1>5. \A i \in 1 .. p : l[i] = pre[i]
  BY <1>1, <1>2, <1>3
<1>6. \A k \in 1 .. n : l[p + k] = t[k]
  <2> SUFFICES ASSUME NEW k \in 1 .. n PROVE l[p + k] = t[k]
    OBVIOUS
  <2>1. p + k \in 1 .. p + Len(back) /\ ~(p + k <= p) /\ (p + k) - p = k /\ k \in 1 .. n + q /\ k <= n
    BY <1>1, <1>2
  <2> QED
    BY <1>2, <1>3, <2>1
<1>7. \A k \in 1 .. q : l[p + n + k] = post[k]
  <2> SUFFICES ASSUME NEW k \in 1 .. q PROVE l[p + n + k] = post[k]
    OBVIOUS
  <2> DEFINE at == p + n + k
             in == n + k
  <2>1. at \in 1 .. p + Len(back) /\ ~(at <= p) /\ at - p = in /\ in \in 1 .. n + q /\ ~(in <= n) /\ in - n = k
    BY <1>1, <1>2
  <2> HIDE DEF at, in
  <2>2. l[at] = post[k]
    BY <1>2, <1>3, <2>1
  <2> QED
    BY <2>2 DEF at
<1>8. SubSeq(l, 1, p) = pre
  <2> DEFINE s == SubSeq(l, 1, p)
  <2>1. \A i \in 1 .. p : l[i] \in E
    BY <1>5
  <2>2. s \in Seq(E) /\ Len(s) = (IF 1 <= p THEN p - 1 + 1 ELSE 0) /\ \A i \in 1 .. p - 1 + 1 : s[i] = l[1 + i - 1]
    BY <1>1, <2>1, SubSeqProperties
  <2> HIDE DEF s
  <2>3. Len(s) = p /\ \A i \in 1 .. p : s[i] = l[i]
    <3>1. p - 1 + 1 = p /\ (~(1 <= p) => p = 0) /\ \A i \in 1 .. p : 1 + i - 1 = i
      BY <1>1
    <3> QED
      BY <2>2, <3>1
  <2>4. s = pre
    BY <1>5, <2>2, <2>3, SeqEqual
  <2> QED
    BY <2>4 DEF s
<1>9. SubSeq(l, p + n + 1, p + n + q) = post
  <2> DEFINE a == p + n + 1
             b == p + n + q
             s == SubSeq(l, a, b)
  <2>1. a \in Int /\ b \in Int /\ b - a + 1 = q /\ \A i \in a .. b : i \in 1 .. Len(l)
    BY <1>1, <1>4
  <2>2. \A i \in a .. b : l[i] \in E
    BY <1>3, <2>1
  <2> HIDE DEF a, b
  <2>3. s \in Seq(E) /\ Len(s) = (IF a <= b THEN b - a + 1 ELSE 0) /\ \A i \in 1 .. b - a + 1 : s[i] = l[a + i - 1]
    BY <2>1, <2>2, SubSeqProperties
  <2> HIDE DEF s
  <2>4. Len(s) = q
    BY <1>1, <2>1, <2>3 DEF a, b
  <2>5. \A i \in 1 .. q : s[i] = post[i]
    <3> SUFFICES ASSUME NEW i \in 1 .. q PROVE s[i] = post[i]
      OBVIOUS
    <3>1. a + i - 1 = p + n + i
      BY <1>1 DEF a
    <3> QED
      BY <1>7, <2>1, <2>3, <3>1
  <2>6. s = post
    BY <2>3, <2>4, <2>5, SeqEqual
  <2> QED
    BY <2>6 DEF s, a, b
<1> QED
  BY <1>3, <1>4, <1>6, <1>7, <1>8, <1>9 DEF l, back

\* In t each entry but those of names is of a child of one before it.
LedTo(I, t, k, o) == o \in ToSet(Children(I.option[t[k].name], t[k]))

Led(I, names, t) == \A j \in 1 .. Len(t) : t[j].name \in names \/ \E k \in 1 .. j - 1 : LedTo(I, t, k, t[j].name)

LEMMA LedJoins ==
    \A I, E, names : \A s, t \in Seq(E) : Led(I, names, s) /\ Led(I, names, t) => Led(I, names, s \o t)
<1> SUFFICES ASSUME NEW I, NEW E, NEW names, NEW s \in Seq(E), NEW t \in Seq(E), Led(I, names, s), Led(I, names, t),
                    NEW j \in 1 .. Len(s \o t)
    PROVE  (s \o t)[j].name \in names \/ \E k \in 1 .. j - 1 : LedTo(I, s \o t, k, (s \o t)[j].name)
  BY DEF Led
<1> DEFINE u == s \o t
           p == Len(s)
           q == Len(t)
<1>1. p \in Nat /\ q \in Nat
  OBVIOUS
<1>2. Len(u) = p + q /\ \A i \in 1 .. p + q : u[i] = IF i <= p THEN s[i] ELSE t[i - p]
  BY ConcatProperties
<1> HIDE DEF u
<1>3. j \in 1 .. p + q
  BY <1>2 DEF u
<1>4. CASE j <= p
  <2>1. j \in 1 .. p /\ u[j] = s[j]
    BY <1>1, <1>2, <1>3, <1>4
  <2>2. ASSUME NEW k \in 1 .. j - 1, LedTo(I, s, k, s[j].name) PROVE k \in 1 .. j - 1 /\ LedTo(I, u, k, u[j].name)
    <3>1. k \in 1 .. p + q /\ k <= p
      BY <1>1, <1>3, <1>4
    <3>2. u[k] = s[k]
      BY <1>2, <3>1
    <3> QED
      BY <2>1, <2>2, <3>2 DEF LedTo
  <2> QED
    BY <2>1, <2>2 DEF Led, u
<1>5. CASE ~(j <= p)
  <2> DEFINE i == j - p
  <2>1. i \in 1 .. q
    BY <1>1, <1>3, <1>5
  <2>2. u[j] = t[i]
    BY <1>2, <1>3, <1>5
  <2> HIDE DEF i
  <2>3. ASSUME NEW k \in 1 .. i - 1, LedTo(I, t, k, t[i].name) PROVE k + p \in 1 .. j - 1 /\ LedTo(I, u, k + p, u[j].name)
    <3>1. k + p \in 1 .. j - 1 /\ k + p \in 1 .. p + q /\ ~(k + p <= p) /\ (k + p) - p = k
      BY <1>1, <1>3, <2>1 DEF i
    <3>2. u[k + p] = t[k]
      BY <1>2, <3>1
    <3> QED
      BY <2>2, <2>3, <3>1, <3>2 DEF LedTo
  <2> QED
    BY <2>1, <2>2, <2>3 DEF Led, u
<1> QED
  BY <1>4, <1>5

\* An entry leads to the entries of its children.
LEMMA LedEntry ==
    \A I, E : \A e \in E : \A rest \in Seq(E) :
        Led(I, ToSet(Children(I.option[e.name], e)), rest) => Led(I, {e.name}, <<e>> \o rest)
<1> SUFFICES ASSUME NEW I, NEW E, NEW e \in E, NEW rest \in Seq(E), Led(I, ToSet(Children(I.option[e.name], e)), rest),
                    NEW j \in 1 .. Len(<<e>> \o rest)
    PROVE  (<<e>> \o rest)[j].name \in {e.name} \/ \E k \in 1 .. j - 1 : LedTo(I, <<e>> \o rest, k, (<<e>> \o rest)[j].name)
  BY DEF Led
<1> DEFINE s == <<e>>
           u == s \o rest
           q == Len(rest)
           C == ToSet(Children(I.option[e.name], e))
<1>1. q \in Nat /\ s \in Seq(E) /\ Len(s) = 1 /\ s[1] = e
  OBVIOUS
<1> HIDE DEF s
<1>2. Len(u) = 1 + q /\ \A i \in 1 .. 1 + q : u[i] = IF i <= 1 THEN s[i] ELSE rest[i - 1]
  <2>1. /\ Len(s \o rest) = Len(s) + Len(rest)
        /\ \A i \in 1 .. Len(s) + Len(rest) : (s \o rest)[i] = IF i <= Len(s) THEN s[i] ELSE rest[i - Len(s)]
    BY ONLY <1>1, rest \in Seq(E), ConcatProperties
  <2> HIDE DEF u
  <2> QED
    BY <1>1, <2>1 DEF u
<1> HIDE DEF u
<1>3. j \in 1 .. 1 + q
  BY <1>2 DEF u, s
<1>4. u[1] = e
  BY <1>1, <1>2
<1>5. CASE j = 1
  BY <1>4, <1>5 DEF u, s
<1>6. CASE j # 1
  <2> DEFINE i == j - 1
  <2>1. i \in 1 .. q /\ ~(j <= 1)
    BY <1>1, <1>3, <1>6
  <2>2. u[j] = rest[i]
    BY <1>2, <1>3, <2>1
  <2>3. ASSUME rest[i].name \in C PROVE 1 \in 1 .. j - 1 /\ LedTo(I, u, 1, u[j].name)
    <3>1. 1 \in 1 .. j - 1
      BY <1>3, <1>6
    <3> QED
      BY <1>4, <2>2, <2>3, <3>1 DEF LedTo
  <2>4. ASSUME NEW k \in 1 .. i - 1, LedTo(I, rest, k, rest[i].name) PROVE k + 1 \in 1 .. j - 1 /\ LedTo(I, u, k + 1, u[j].name)
    <3>1. k + 1 \in 1 .. j - 1 /\ k + 1 \in 1 .. 1 + q /\ ~(k + 1 <= 1) /\ (k + 1) - 1 = k
      BY <1>1, <1>3, <2>1
    <3>2. u[k + 1] = rest[k]
      BY <1>2, <3>1
    <3> QED
      BY <2>2, <2>4, <3>1, <3>2 DEF LedTo
  <2>5. rest[i].name \in C \/ \E k \in 1 .. i - 1 : LedTo(I, rest, k, rest[i].name)
    BY <2>1 DEF Led
  <2> QED
    BY <2>3, <2>4, <2>5 DEF u, s
<1> QED
  BY <1>5, <1>6

\* So a forest of led trees is led.
LEMMA ForestLed ==
    \A I, E, tree, names :
        IsList(names) /\ (\A o \in ToSet(names) : tree[o] \subseteq {t \in Seq(E) : Led(I, {o}, t)}) =>
            Forest(tree, names) \subseteq {t \in Seq(E) : Led(I, ToSet(names), t)}
<1> SUFFICES ASSUME NEW I, NEW E, NEW tree, NEW names, IsList(names),
                    \A o \in ToSet(names) : tree[o] \subseteq {t \in Seq(E) : Led(I, {o}, t)}
    PROVE  Forest(tree, names) \subseteq {t \in Seq(E) : Led(I, ToSet(names), t)}
  OBVIOUS
<1> DEFINE N == ToSet(names)
           C == {t \in Seq(E) : Led(I, N, t)}
<1>1. Closes(C)
  <2>1. <<>> \in C
    BY EmptySeq DEF Led
  <2>2. ASSUME NEW s \in C, NEW t \in C PROVE s \o t \in C
    BY LedJoins, ConcatProperties
  <2> QED
    BY <2>1, <2>2 DEF Closes
<1>2. ASSUME NEW o \in N, NEW t \in tree[o] PROVE t \in C
  <2>1. t \in Seq(E) /\ Led(I, {o}, t)
    OBVIOUS
  <2> QED
    BY <2>1 DEF Led
<1> HIDE DEF C
<1>3. Forest(tree, names) \subseteq C
  BY <1>1, <1>2, ForestFacts
<1> QED
  BY <1>3 DEF C

\* Whatever the menu appends for an option is led from it.
LEMMA TreesLed ==
    \A I, ctx, how : IsOptions(I.option) /\ EndsEverywhere(I) =>
        \A o \in STRING : Trees(I, ctx, how)[o] \subseteq {t \in Seq(AllAnswers(I, how)) : Led(I, {o}, t)}
<1> SUFFICES ASSUME NEW I, NEW ctx, NEW how, IsOptions(I.option), EndsEverywhere(I)
    PROVE  \A o \in STRING : Trees(I, ctx, how)[o] \subseteq {t \in Seq(AllAnswers(I, how)) : Led(I, {o}, t)}
  OBVIOUS
<1> DEFINE E == AllAnswers(I, how)
           V == [o \in DOMAIN I.option |-> Answers(I, o, how)]
           T == [o \in STRING |-> {t \in Seq(E) : Led(I, {o}, t)}]
<1>1. \A o \in DOMAIN I.option : V[o] = Answers(I, o, how) /\ V[o] \subseteq E
  BY DEF AllAnswers
<1>2. T \in [STRING -> SUBSET Seq(E)] /\ \A o \in STRING : T[o] = {t \in Seq(E) : Led(I, {o}, t)}
  OBVIOUS
<1>3. \A o \in DOMAIN I.option : \A e \in V[o] : e \in E /\ e.name = o /\ Selects(I.option[o], e)
  <2>1. \A c \in DOMAIN I.option : \A d \in Answers(I, c, how) : d.name = c /\ Selects(I.option[c], d)
    BY ONLY IsOptions(I.option), AnswersAre
  <2> HIDE DEF V, E
  <2> QED
    BY <1>1, <2>1
<1>4. \A o \in DOMAIN I.option : Kids(I, o) \subseteq STRING /\ o \in STRING
  BY DEF IsOptions, EndsEverywhere, Kids
<1> HIDE DEF E, V, T
<1>5. ASSUME NEW o \in DOMAIN I.option PROVE <<>> \in T[o]
  <2>1. \A names : Led(I, names, <<>>)
    BY DEF Led
  <2>2. <<>> \in Seq(E)
    BY EmptySeq
  <2> QED
    BY <1>2, <1>4, <2>1, <2>2
<1>6. ASSUME NEW o \in DOMAIN I.option, NEW e \in V[o], NEW rest \in Forest(T, Children(I.option[o], e))
      PROVE  <<e>> \o rest \in T[o]
  <2> DEFINE names == Children(I.option[o], e)
  <2>1. e \in E /\ e.name = o /\ Selects(I.option[o], e)
    BY <1>3
  <2>2. IsList(names) /\ ToSet(names) \subseteq Kids(I, o)
    BY <2>1, ChildrenAre
  <2>3. rest \in Forest(T, names)
    OBVIOUS
  <2>9. names = Children(I.option[e.name], e)
    BY <2>1
  <2> HIDE DEF names
  <2>4. \A c \in ToSet(names) : T[c] \subseteq {t \in Seq(E) : Led(I, {c}, t)}
    BY <1>2, <1>4, <2>2
  <2>5. rest \in Seq(E) /\ Led(I, ToSet(names), rest)
    BY <2>2, <2>3, <2>4, ForestLed
  <2>6. Led(I, {e.name}, <<e>> \o rest)
    BY <2>1, <2>5, <2>9, LedEntry
  <2>7. <<e>> \o rest \in Seq(E)
    <3>1. <<e>> \in Seq(E)
      BY <2>1
    <3> QED
      BY <2>5, <3>1, ConcatProperties
  <2> QED
    BY <1>2, <1>4, <2>1, <2>6, <2>7
<1>7. Bears(T, I, ctx, V, E)
  BY <1>2, <1>5, <1>6 DEF Bears
<1>8. \A o \in DOMAIN I.option : Answers(I, o, how) \subseteq V[o]
  BY <1>1
<1>9. IsOptions(I.option) /\ EndsEverywhere(I) /\ Bears(T, I, ctx, V, E)
  BY <1>7
<1>10. \A o \in STRING : Trees(I, ctx, how)[o] \subseteq T[o]
  BY ONLY <1>8, <1>9, TreesBorne
<1> QED
  BY <1>2, <1>10 DEF E

\* Entry i of l begins a list that tree has for its option, in whose place any
\* other of them makes a list in U.
IsCut(U, tree, l, i, pre, t, post) ==
    /\ l = pre \o (t \o post) /\ Len(pre) = i - 1 /\ Len(t) >= 1
    /\ t \in tree[l[i].name]
    /\ \A new \in tree[l[i].name] : pre \o (new \o post) \in U

Cut(U, tree, E, l, i) == \E pre \in Seq(E) : \E t \in Seq(E) : \E post \in Seq(E) : IsCut(U, tree, l, i, pre, t, post)

CutEverywhere(U, tree, E, l) == \A i \in 1 .. Len(l) : Cut(U, tree, E, l, i)

\* What tree has for the options of entries of E is over E.
Covers(tree, E) == \A e \in E : tree[e.name] \subseteq Seq(E)

\* Nothing is lost with more in front or more behind.
LEMMA CutsJoin ==
    \A tree, E, A, B : Covers(tree, E) /\ A \subseteq Seq(E) /\ B \subseteq Seq(E) =>
        \A s \in A : \A t \in B : CutEverywhere(A, tree, E, s) /\ CutEverywhere(B, tree, E, t) =>
            CutEverywhere(Joined(A, B), tree, E, s \o t)
<1> SUFFICES ASSUME NEW tree, NEW E, NEW A, NEW B, Covers(tree, E), A \subseteq Seq(E), B \subseteq Seq(E),
                    NEW s \in A, NEW t \in B, CutEverywhere(A, tree, E, s), CutEverywhere(B, tree, E, t),
                    NEW i \in 1 .. Len(s \o t)
    PROVE  Cut(Joined(A, B), tree, E, s \o t, i)
  BY DEF CutEverywhere
<1>0. \A a, b, c \in Seq(E) : (a \o b) \o c = a \o (b \o c)
  BY Associates
<1> DEFINE u == s \o t
           p == Len(s)
           q == Len(t)
<1>1. p \in Nat /\ q \in Nat /\ s \in Seq(E) /\ t \in Seq(E)
  OBVIOUS
<1>01. s \in Seq(E)
  BY <1>1
<1>2. u \in Seq(E) /\ Len(u) = p + q /\ \A k \in 1 .. p + q : u[k] = IF k <= p THEN s[k] ELSE t[k - p]
  BY <1>1, ConcatProperties
<1> HIDE DEF u
<1>3. i \in 1 .. p + q
  BY <1>2 DEF u
<1>4. u[i] \in E
  BY <1>2, <1>3
<1>5. tree[u[i].name] \subseteq Seq(E)
  BY <1>4 DEF Covers
<1>6. CASE i <= p
  <2>1. i \in 1 .. p /\ u[i] = s[i]
    BY <1>1, <1>2, <1>3, <1>6
  <2>2. Cut(A, tree, E, s, i)
    BY <2>1 DEF CutEverywhere
  <2>3. PICK pre \in Seq(E) : \E m \in Seq(E) : \E post \in Seq(E) : IsCut(A, tree, s, i, pre, m, post)
    BY <2>2 DEF Cut
  <2>4. PICK m \in Seq(E) : \E post \in Seq(E) : IsCut(A, tree, s, i, pre, m, post)
    BY <2>3
  <2>5. PICK post \in Seq(E) : IsCut(A, tree, s, i, pre, m, post)
    BY <2>4
  <2>6. post \o t \in Seq(E)
    BY <1>1, ConcatProperties
  <2>7. ASSUME NEW x \in Seq(E) PROVE (pre \o (x \o post)) \o t = pre \o (x \o (post \o t))
    <3>1. x \o post \in Seq(E)
      BY ConcatProperties
    <3>2. (pre \o (x \o post)) \o t = pre \o ((x \o post) \o t)
      <4> DEFINE back == x \o post
      <4>1. back \in Seq(E)
        BY <3>1
      <4> HIDE DEF back
      <4>2. (pre \o back) \o t = pre \o (back \o t)
        BY <1>0, <1>1, <4>1, Zenon
      <4> QED
        BY <4>2 DEF back
    <3>3. (x \o post) \o t = x \o (post \o t)
      BY ONLY <1>0, <1>1, x \in Seq(E), post \in Seq(E)
    <3> QED
      BY <3>2, <3>3
  <2>8. u = pre \o (m \o (post \o t))
    BY <2>5, <2>7 DEF IsCut, u
  <2>9. ASSUME NEW new \in tree[u[i].name] PROVE pre \o (new \o (post \o t)) \in Joined(A, B)
    <3>1. pre \o (new \o post) \in A /\ new \in Seq(E)
      BY <1>5, <2>1, <2>5 DEF IsCut
    <3>2. pre \o (new \o (post \o t)) = (pre \o (new \o post)) \o t
      BY <2>7, <3>1
    <3> QED
      BY <3>1, <3>2, JoinedAre
  <2>10. IsCut(Joined(A, B), tree, u, i, pre, m, post \o t)
    BY <2>1, <2>5, <2>8, <2>9 DEF IsCut
  <2> QED
    BY <2>6, <2>10 DEF Cut, u
<1>7. CASE ~(i <= p)
  <2> DEFINE k == i - p
  <2>1. k \in 1 .. q /\ u[i] = t[k]
    BY <1>1, <1>2, <1>3, <1>7
  <2>13. p + (k - 1) = i - 1
    BY <1>1, <1>3
  <2> HIDE DEF k
  <2>2. Cut(B, tree, E, t, k)
    BY <2>1 DEF CutEverywhere
  <2>3. PICK pre \in Seq(E) : \E m \in Seq(E) : \E post \in Seq(E) : IsCut(B, tree, t, k, pre, m, post)
    BY <2>2 DEF Cut
  <2>4. PICK m \in Seq(E) : \E post \in Seq(E) : IsCut(B, tree, t, k, pre, m, post)
    BY <2>3
  <2>5. PICK post \in Seq(E) : IsCut(B, tree, t, k, pre, m, post)
    BY <2>4
  <2>6. s \o pre \in Seq(E) /\ Len(s \o pre) = p + Len(pre)
    BY <1>1, ConcatProperties
  <2>7. ASSUME NEW x \in Seq(E) PROVE s \o (pre \o (x \o post)) = (s \o pre) \o (x \o post)
    <3>1. x \o post \in Seq(E)
      BY ConcatProperties
    <3> DEFINE back == x \o post
    <3>2. back \in Seq(E)
      BY <3>1
    <3> HIDE DEF back
    <3>3. (s \o pre) \o back = s \o (pre \o back)
      BY ONLY <1>0, <1>01, <3>2, pre \in Seq(E)
    <3> QED
      BY <3>3 DEF back
  <2>8. u = (s \o pre) \o (m \o post)
    BY <2>5, <2>7 DEF IsCut, u
  <2>9. ASSUME NEW new \in tree[u[i].name] PROVE (s \o pre) \o (new \o post) \in Joined(A, B)
    <3>1. pre \o (new \o post) \in B /\ new \in Seq(E)
      BY <1>5, <2>1, <2>5 DEF IsCut
    <3>2. (s \o pre) \o (new \o post) = s \o (pre \o (new \o post))
      BY <2>7, <3>1
    <3> QED
      BY <3>1, <3>2, JoinedAre
  <2>10. Len(s \o pre) = i - 1
    BY <2>5, <2>6, <2>13 DEF IsCut
  <2>11. IsCut(Joined(A, B), tree, u, i, s \o pre, m, post)
    BY <2>1, <2>5, <2>8, <2>9, <2>10 DEF IsCut
  <2> QED
    BY <2>6, <2>11 DEF Cut, u
<1> QED
  BY <1>6, <1>7

\* A forest of trees that can be cut can be.
LEMMA ForestCuts ==
    \A tree, E, names :
        /\ IsList(names) /\ Covers(tree, E)
        /\ \A o \in ToSet(names) : tree[o] \subseteq Seq(E) /\ \A t \in tree[o] : CutEverywhere(tree[o], tree, E, t)
        => \A l \in Forest(tree, names) : CutEverywhere(Forest(tree, names), tree, E, l)
<1> SUFFICES ASSUME NEW tree, NEW E, NEW names, IsList(names), Covers(tree, E),
                    \A o \in ToSet(names) : tree[o] \subseteq Seq(E) /\ \A t \in tree[o] : CutEverywhere(tree[o], tree, E, t)
    PROVE  \A l \in Forest(tree, names) : CutEverywhere(Forest(tree, names), tree, E, l)
  OBVIOUS
<1> DEFINE N == Len(names)
<1>1. N \in Nat /\ \A n \in 1 .. N : names[n] \in ToSet(names)
  BY ListFacts
<1>2. PICK f : Planted(f, Seq(E), tree, names)
  BY SeqCloses, ForestGoes
<1>3. f[0] = {<<>>} /\ (\A n \in 1 .. N : f[n] = Joined(f[n - 1], tree[names[n]])) /\ Forest(tree, names) = f[N]
  BY <1>2 DEF Planted, Plants
<1>4. \A n \in 0 .. N : f[n] \subseteq Seq(E)
  BY <1>2 DEF Planted
<1> HIDE DEF N
<1> DEFINE S == {n \in 0 .. N : \A l \in f[n] : CutEverywhere(f[n], tree, E, l)}
<1>5. 0 \in S
  <2>1. CutEverywhere(f[0], tree, E, <<>>)
    BY DEF CutEverywhere
  <2>2. \A l \in f[0] : l = <<>>
    BY <1>3
  <2>3. \A l \in f[0] : CutEverywhere(f[0], tree, E, l)
    BY <2>1, <2>2
  <2> QED
    BY <1>1, <2>3
<1>6. ASSUME NEW n \in Nat, n < N, n \in S PROVE n + 1 \in S
  <2>1. n + 1 \in 0 .. N /\ n + 1 \in 1 .. N /\ (n + 1) - 1 = n /\ n \in 0 .. N
    BY <1>1, <1>6
  <2> DEFINE A == f[n]
             B == tree[names[n + 1]]
  <2>2. f[n + 1] = Joined(A, B)
    BY <1>3, <2>1
  <2>3. A \subseteq Seq(E) /\ \A l \in A : CutEverywhere(A, tree, E, l)
    BY <1>4, <1>6, <2>1
  <2>4. B \subseteq Seq(E) /\ \A l \in B : CutEverywhere(B, tree, E, l)
    BY <1>1, <2>1
  <2> HIDE DEF A, B
  <2>5. ASSUME NEW l \in Joined(A, B) PROVE CutEverywhere(Joined(A, B), tree, E, l)
    <3>1. PICK done \in A : \E more \in B : l = done \o more
      BY JoinedAre
    <3>2. PICK more \in B : l = done \o more
      BY <3>1
    <3> QED
      BY <2>3, <2>4, <3>2, CutsJoin
  <2> QED
    BY <2>1, <2>2, <2>5
<1> HIDE DEF S
<1>7. 0 .. N \subseteq S
  BY <1>1, <1>5, <1>6, UpTo
<1> QED
  BY <1>1, <1>3, <1>7 DEF S

\* An entry in front of a forest that can be cut.
LEMMA EntryCuts ==
    \A tree, E, F, o : Covers(tree, E) /\ F \subseteq Seq(E) => \A e \in E : \A rest \in F :
        /\ e.name = o /\ CutEverywhere(F, tree, E, rest) /\ \A r \in F : <<e>> \o r \in tree[o]
        => CutEverywhere(tree[o], tree, E, <<e>> \o rest)
<1> SUFFICES ASSUME NEW tree, NEW E, NEW F, NEW o, Covers(tree, E), F \subseteq Seq(E), NEW e \in E, NEW rest \in F,
                    e.name = o, CutEverywhere(F, tree, E, rest), \A r \in F : <<e>> \o r \in tree[o],
                    NEW i \in 1 .. Len(<<e>> \o rest)
    PROVE  Cut(tree[o], tree, E, <<e>> \o rest, i)
  BY DEF CutEverywhere
<1>0. \A a, b, c \in Seq(E) : (a \o b) \o c = a \o (b \o c)
  BY Associates
<1> DEFINE s == <<e>>
           u == s \o rest
           q == Len(rest)
<1>1. q \in Nat /\ s \in Seq(E) /\ Len(s) = 1 /\ s[1] = e /\ rest \in Seq(E)
  OBVIOUS
<1>2. \A r \in F : s \o r \in tree[o]
  OBVIOUS
<1> HIDE DEF s
<1>01. s \in Seq(E)
  BY <1>1
<1>3. u \in Seq(E) /\ Len(u) = 1 + q /\ \A k \in 1 .. 1 + q : u[k] = IF k <= 1 THEN s[k] ELSE rest[k - 1]
  <2>1. /\ s \o rest \in Seq(E) /\ Len(s \o rest) = Len(s) + Len(rest)
        /\ \A k \in 1 .. Len(s) + Len(rest) : (s \o rest)[k] = IF k <= Len(s) THEN s[k] ELSE rest[k - Len(s)]
    BY ONLY <1>1, ConcatProperties
  <2> HIDE DEF u
  <2> QED
    BY <1>1, <2>1 DEF u
<1>4. u \in tree[o]
  BY <1>2
<1> HIDE DEF u
<1>5. i \in 1 .. 1 + q
  BY <1>3 DEF u, s
<1>6. u[i] \in E /\ u[1] = e
  BY <1>1, <1>3, <1>5
<1>7. tree[u[i].name] \subseteq Seq(E)
  BY <1>6 DEF Covers
<1>8. CASE i = 1
  <2>1. \A x \in Seq(E) : <<>> \o (x \o <<>>) = x
    BY ConcatEmptySeq
  <2>2. u[i].name = o /\ Len(<<>>) = i - 1 /\ Len(u) >= 1
    BY <1>1, <1>3, <1>6, <1>8
  <2>3. u = <<>> \o (u \o <<>>)
    BY <1>3, <2>1
  <2>4. \A new \in tree[u[i].name] : <<>> \o (new \o <<>>) \in tree[o]
    BY <1>7, <2>1, <2>2
  <2>5. IsCut(tree[o], tree, u, i, <<>>, u, <<>>)
    BY <1>4, <2>2, <2>3, <2>4 DEF IsCut
  <2>6. <<>> \in Seq(E)
    BY EmptySeq
  <2> QED
    BY <1>3, <2>5, <2>6 DEF Cut, u, s
<1>9. CASE i # 1
  <2> DEFINE k == i - 1
  <2>1. k \in 1 .. q /\ u[i] = rest[k]
    BY <1>1, <1>3, <1>5, <1>9
  <2>13. 1 + (k - 1) = i - 1
    BY <1>5
  <2> HIDE DEF k
  <2>2. Cut(F, tree, E, rest, k)
    BY <2>1 DEF CutEverywhere
  <2>3. PICK pre \in Seq(E) : \E m \in Seq(E) : \E post \in Seq(E) : IsCut(F, tree, rest, k, pre, m, post)
    BY <2>2 DEF Cut
  <2>4. PICK m \in Seq(E) : \E post \in Seq(E) : IsCut(F, tree, rest, k, pre, m, post)
    BY <2>3
  <2>5. PICK post \in Seq(E) : IsCut(F, tree, rest, k, pre, m, post)
    BY <2>4
  <2>6. s \o pre \in Seq(E) /\ Len(s \o pre) = 1 + Len(pre)
    BY <1>1, ConcatProperties
  <2>7. ASSUME NEW x \in Seq(E) PROVE s \o (pre \o (x \o post)) = (s \o pre) \o (x \o post)
    <3>1. x \o post \in Seq(E)
      BY ConcatProperties
    <3> DEFINE back == x \o post
    <3>2. back \in Seq(E)
      BY <3>1
    <3> HIDE DEF back
    <3>3. (s \o pre) \o back = s \o (pre \o back)
      BY ONLY <1>0, <1>01, <3>2, pre \in Seq(E)
    <3> QED
      BY <3>3 DEF back
  <2>8. u = (s \o pre) \o (m \o post)
    BY <2>5, <2>7 DEF IsCut, u
  <2>9. ASSUME NEW new \in tree[u[i].name] PROVE (s \o pre) \o (new \o post) \in tree[o]
    <3>1. pre \o (new \o post) \in F /\ new \in Seq(E)
      BY <1>7, <2>1, <2>5 DEF IsCut
    <3>2. (s \o pre) \o (new \o post) = s \o (pre \o (new \o post))
      BY <2>7, <3>1
    <3> QED
      BY <1>2, <3>1, <3>2
  <2>10. Len(s \o pre) = i - 1
    BY <2>5, <2>6, <2>13 DEF IsCut
  <2>11. IsCut(tree[o], tree, u, i, s \o pre, m, post)
    BY <2>1, <2>5, <2>8, <2>9, <2>10 DEF IsCut
  <2> QED
    BY <2>6, <2>11 DEF Cut, u, s
<1> QED
  BY <1>8, <1>9

\* In what the menu appends for an option every entry can be answered again.
LEMMA TreesCut ==
    \A I, ctx, how : IsOptions(I.option) /\ EndsEverywhere(I) =>
        /\ Covers(Trees(I, ctx, how), AllAnswers(I, how))
        /\ \A o \in STRING :
               /\ Trees(I, ctx, how)[o] \subseteq Seq(AllAnswers(I, how))
               /\ \A t \in Trees(I, ctx, how)[o] : CutEverywhere(Trees(I, ctx, how)[o], Trees(I, ctx, how), AllAnswers(I, how), t)
<1> SUFFICES ASSUME NEW I, NEW ctx, NEW how, IsOptions(I.option), EndsEverywhere(I)
    PROVE  /\ Covers(Trees(I, ctx, how), AllAnswers(I, how))
           /\ \A o \in STRING :
                  /\ Trees(I, ctx, how)[o] \subseteq Seq(AllAnswers(I, how))
                  /\ \A t \in Trees(I, ctx, how)[o] :
                         CutEverywhere(Trees(I, ctx, how)[o], Trees(I, ctx, how), AllAnswers(I, how), t)
  OBVIOUS
<1> DEFINE E == AllAnswers(I, how)
           tree == Trees(I, ctx, how)
           N == Cardinality(DOMAIN I.option)
           S == {o \in STRING : \A t \in tree[o] : CutEverywhere(tree[o], tree, E, t)}
<1>1. \A o \in STRING : tree[o] \subseteq Seq(E)
  <2>1. \A o \in STRING : tree[o] \subseteq CompleteLists(I, ctx, E, {o})
    BY TreesComplete
  <2> QED
    BY <2>1 DEF CompleteLists
<1>2. \A o \in DOMAIN I.option : o \in STRING /\ Kids(I, o) \subseteq STRING
  BY DEF IsOptions, EndsEverywhere, Kids
<1>3. \A o \in DOMAIN I.option : \A e \in Answers(I, o, how) : e \in E /\ e.name = o /\ Selects(I.option[o], e)
  <2> SUFFICES ASSUME NEW o \in DOMAIN I.option, NEW e \in Answers(I, o, how)
      PROVE  e \in E /\ e.name = o /\ Selects(I.option[o], e)
    OBVIOUS
  <2>1. e \in E
    BY DEF AllAnswers
  <2> QED
    BY <2>1, AnswersAre
<1>4. Covers(tree, E)
  <2> SUFFICES ASSUME NEW e \in E PROVE tree[e.name] \subseteq Seq(E)
    BY DEF Covers
  <2>1. PICK o \in DOMAIN I.option : e \in Answers(I, o, how)
    BY DEF AllAnswers
  <2>2. e.name \in STRING
    BY <1>2, <1>3, <2>1
  <2> HIDE DEF tree, E
  <2> QED
    BY <1>1, <2>2
<1>5. N \in Nat
  BY RanksFall
<1>6. PICK rank \in [STRING -> 0 .. N] : Ranks(rank, I)
  BY RanksFall
<1>7. \A o \in STRING : tree[o] = Grown(tree, I, ctx, how, o)
  BY TreesGrow
<1> HIDE DEF tree, N, E
<1>8. ASSUME NEW o \in STRING, \A c \in STRING : rank[c] < rank[o] => c \in S PROVE o \in S
  <2>1. CASE o \notin DOMAIN I.option
    BY <1>7, <2>1 DEF Grown
  <2>2. CASE o \in DOMAIN I.option /\ ~Fits(I.option[o], ctx)
    <3>1. tree[o] = {<<>>}
      BY <1>7, <2>2 DEF Grown
    <3>2. CutEverywhere(tree[o], tree, E, <<>>)
      BY DEF CutEverywhere
    <3> QED
      BY <3>1, <3>2
  <2>3. CASE o \in DOMAIN I.option /\ Fits(I.option[o], ctx)
    <3> DEFINE From(e) == {<<e>> \o rest : rest \in Forest(tree, Children(I.option[o], e))}
    <3>1. tree[o] = UNION {From(e) : e \in Answers(I, o, how)}
      BY <1>7, <2>3 DEF Grown
    <3>2. ASSUME NEW e \in Answers(I, o, how), NEW rest \in Forest(tree, Children(I.option[o], e))
          PROVE  CutEverywhere(tree[o], tree, E, <<e>> \o rest)
      <4> DEFINE names == Children(I.option[o], e)
                 F == Forest(tree, names)
      <4>1. e \in E /\ e.name = o /\ Selects(I.option[o], e)
        BY <1>3, <2>3
      <4>2. IsList(names) /\ ToSet(names) \subseteq Kids(I, o)
        BY <2>3, <4>1, ChildrenAre
      <4>3. rest \in F
        OBVIOUS
      <4>4. \A r \in F : <<e>> \o r \in tree[o]
        <5>1. \A r \in F : <<e>> \o r \in From(e)
          OBVIOUS
        <5> HIDE DEF From, F
        <5> QED
          BY <3>1, <5>1
      <4> HIDE DEF names
      <4>5. \A c \in ToSet(names) : tree[c] \subseteq Seq(E) /\ \A t \in tree[c] : CutEverywhere(tree[c], tree, E, t)
        <5>1. ASSUME NEW c \in ToSet(names) PROVE c \in STRING /\ c \in S
          <6>1. c \in Kids(I, o) /\ c \in STRING
            BY <1>2, <2>3, <4>2
          <6>2. rank[c] < rank[o]
            BY <1>6, <2>3, <6>1 DEF Ranks
          <6> HIDE DEF S
          <6> QED
            BY <1>8, <6>1, <6>2
        <5> QED
          BY <1>1, <5>1
      <4>6. F \subseteq Seq(E)
        BY <4>2, <4>5, SeqCloses, ForestFacts
      <4>7. \A l \in F : CutEverywhere(F, tree, E, l)
        BY <1>4, <4>2, <4>5, ForestCuts
      <4> HIDE DEF F
      <4> QED
        BY <1>4, <4>1, <4>3, <4>4, <4>6, <4>7, EntryCuts
    <3>3. ASSUME NEW l \in tree[o] PROVE CutEverywhere(tree[o], tree, E, l)
      <4> HIDE DEF From
      <4>1. PICK e \in Answers(I, o, how) : l \in From(e)
        BY <3>1
      <4>2. PICK rest \in Forest(tree, Children(I.option[o], e)) : l = <<e>> \o rest
        BY <4>1 DEF From
      <4> QED
        BY <3>2, <4>2
    <3> QED
      BY <3>3
  <2> QED
    BY <2>1, <2>2, <2>3
<1> HIDE DEF S
<1>9. STRING \subseteq S
  BY <1>5, <1>6, <1>8, RankInduction
<1>10. \A o \in STRING : \A t \in tree[o] : CutEverywhere(tree[o], tree, E, t)
  BY <1>9 DEF S
<1> QED
  BY <1>1, <1>4, <1>10 DEF tree, E

\* Entry i begins t in l, each of t is an active child of one of t before it,
\* and what follows t is of none.
Parted(I, ctx, l, i, pre, t, post) ==
    /\ l = pre \o (t \o post) /\ i = Len(pre) + 1 /\ Len(t) >= 1
    /\ \A j \in 2 .. Len(t) : \E k \in 1 .. j - 1 : t[j].name \in ActiveChildren(I, ctx, t[k].name, l)
    /\ Len(post) >= 1 => \A k \in 1 .. Len(t) : post[1].name \notin ActiveChildren(I, ctx, t[k].name, l)

\* Answered with new, t is replaced.
Replaced(I, ctx, l, i, pre, new, post) == Edited(I, ctx, l, i, new) = pre \o (new \o post)

\* Then t is what edit_task takes for the subtree of entry i.
LEMMA EditedIs ==
    \A I, ctx, E, l, i : \A pre, t, post, new \in Seq(E) :
        Parted(I, ctx, l, i, pre, t, post) => Replaced(I, ctx, l, i, pre, new, post)
<1> SUFFICES ASSUME NEW I, NEW ctx, NEW E, NEW l, NEW i,
                    NEW pre \in Seq(E), NEW t \in Seq(E), NEW post \in Seq(E), NEW new \in Seq(E),
                    Parted(I, ctx, l, i, pre, t, post)
    PROVE  Replaced(I, ctx, l, i, pre, new, post)
  OBVIOUS
<1>10. (pre \o new) \o post = pre \o (new \o post)
  BY Associates
<1> DEFINE p == Len(pre)
           n == Len(t)
           q == Len(post)
           z == p + n + 1
           In(j) == \E k \in i .. j - 1 : l[j].name \in ActiveChildren(I, ctx, l[k].name, l)
           Stop(k) == (k = Len(l) + 1 \/ ~In(k)) /\ \A j \in i + 1 .. k - 1 : In(j)
           end == CHOOSE k \in i + 1 .. Len(l) + 1 : Stop(k)
<1>1. p \in Nat /\ n \in Nat /\ q \in Nat /\ n >= 1 /\ i = p + 1
  BY DEF Parted
<1>2. /\ Len(l) = p + n + q
      /\ \A k \in 1 .. n : l[p + k] = t[k]
      /\ \A k \in 1 .. q : l[p + n + k] = post[k]
      /\ SubSeq(l, 1, p) = pre /\ SubSeq(l, p + n + 1, p + n + q) = post
  <2>1. /\ Len(pre \o (t \o post)) = p + n + q
        /\ \A k \in 1 .. n : (pre \o (t \o post))[p + k] = t[k]
        /\ \A k \in 1 .. q : (pre \o (t \o post))[p + n + k] = post[k]
        /\ SubSeq(pre \o (t \o post), 1, p) = pre
        /\ SubSeq(pre \o (t \o post), p + n + 1, p + n + q) = post
    BY ONLY pre \in Seq(E), t \in Seq(E), post \in Seq(E), ThreeParts
  <2>2. l = pre \o (t \o post)
    BY DEF Parted
  <2> QED
    BY <2>1, <2>2
<1>3. Edited(I, ctx, l, i, new) = SubSeq(l, 1, i - 1) \o new \o SubSeq(l, end, Len(l))
  BY DEF Edited
<1>11. \A j \in 2 .. n : \E k \in 1 .. j - 1 : t[j].name \in ActiveChildren(I, ctx, t[k].name, l)
  BY DEF Parted
<1>12. q >= 1 => \A k \in 1 .. n : post[1].name \notin ActiveChildren(I, ctx, t[k].name, l)
  BY DEF Parted
<1> HIDE DEF p, n, q, In, end
<1>4. \A j \in i + 1 .. p + n : In(j)
  <2> SUFFICES ASSUME NEW j \in i + 1 .. p + n PROVE In(j)
    OBVIOUS
  <2> DEFINE m == j - p
  <2>1. m \in 2 .. n /\ m \in 1 .. n /\ p + m = j
    BY <1>1
  <2> HIDE DEF m
  <2>2. PICK k \in 1 .. m - 1 : t[m].name \in ActiveChildren(I, ctx, t[k].name, l)
    BY <1>11, <2>1
  <2> DEFINE h == p + k
  <2>3. k \in 1 .. n /\ h \in i .. j - 1
    BY <1>1, <2>1
  <2>4. l[h] = t[k] /\ l[j] = t[m]
    BY <1>2, <2>1, <2>3
  <2> HIDE DEF h
  <2> QED
    BY <2>2, <2>3, <2>4 DEF In
<1>5. ASSUME z # Len(l) + 1, In(z) PROVE FALSE
  <2>1. q >= 1 /\ 1 \in 1 .. q
    BY ONLY <1>1, <1>2, <1>5 DEF z
  <2>2. PICK k \in i .. z - 1 : l[z].name \in ActiveChildren(I, ctx, l[k].name, l)
    BY <1>5 DEF In
  <2> DEFINE m == k - p
  <2>3. m \in 1 .. n /\ p + m = k
    BY <1>1
  <2> HIDE DEF m
  <2>4. l[k] = t[m] /\ l[z] = post[1]
    BY <1>2, <2>1, <2>3
  <2> QED
    BY <1>12, <2>1, <2>2, <2>3, <2>4
<1>6. z \in i + 1 .. Len(l) + 1 /\ Stop(z)
  <2>1. z \in i + 1 .. Len(l) + 1 /\ z - 1 = p + n
    BY <1>1, <1>2
  <2> HIDE DEF z
  <2> QED
    BY <1>4, <1>5, <2>1
<1>7. end \in i + 1 .. Len(l) + 1 /\ Stop(end)
  <2> HIDE DEF Stop
  <2> QED
    BY <1>6 DEF end
<1>8. end = z
  <2>1. Len(l) \in Nat /\ i \in Nat /\ z \in Nat /\ end \in Nat
    BY <1>1, <1>2, <1>7
  <2>2. CASE end < z
    <3>1. end \in i + 1 .. z - 1 /\ end # Len(l) + 1
      BY <1>6, <1>7, <2>1, <2>2
    <3> QED
      BY <1>6, <1>7, <3>1
  <2>3. CASE z < end
    <3>1. z \in i + 1 .. end - 1 /\ z # Len(l) + 1
      BY <1>6, <1>7, <2>1, <2>3
    <3> QED
      BY <1>6, <1>7, <3>1
  <2> QED
    BY <2>1, <2>2, <2>3
<1>9. SubSeq(l, 1, i - 1) = pre /\ SubSeq(l, end, Len(l)) = post
  <2>1. i - 1 = p
    BY <1>1
  <2> QED
    BY <1>2, <1>8, <2>1
<1> QED
  BY <1>3, <1>9, <1>10 DEF Replaced

\* In a list of the menu's answers that has each option once, its children are
\* those its entry demands.
LEMMA ActiveAre ==
    \A I, ctx : IsOptions(I.option) /\ (\A o \in DOMAIN I.option : ValidCheckbox(I.option[o])) =>
        \A l \in Seq(ApplicableAnswers(I, ctx)) : (\A i, j \in DOMAIN l : l[i].name = l[j].name => i = j) =>
            \A k \in 1 .. Len(l) : ActiveChildren(I, ctx, l[k].name, l) = ToSet(Children(I.option[l[k].name], l[k]))
<1> SUFFICES ASSUME NEW I, NEW ctx, IsOptions(I.option), \A o \in DOMAIN I.option : ValidCheckbox(I.option[o]),
                    NEW l \in Seq(ApplicableAnswers(I, ctx)), \A i, j \in DOMAIN l : l[i].name = l[j].name => i = j,
                    NEW k \in 1 .. Len(l)
    PROVE  ActiveChildren(I, ctx, l[k].name, l) = ToSet(Children(I.option[l[k].name], l[k]))
  OBVIOUS
<1> DEFINE e == l[k]
           o == e.name
           f == First(l, o)
<1>1. IsList(l) /\ DOMAIN l = 1 .. Len(l)
  BY SeqIsList, LenProperties
<1>2. e \in AllAnswers(I, "unverified") /\ Fits(I.option[o], ctx)
  <2>1. e \in ApplicableAnswers(I, ctx)
    OBVIOUS
  <2> QED
    BY <2>1 DEF ApplicableAnswers
<1>3. PICK c \in DOMAIN I.option : e \in Answers(I, c, "unverified")
  BY <1>2 DEF AllAnswers
<1>4. o = c
  <2>1. \A how : e \in Answers(I, c, how) => e.name = c
    BY AnswersAre
  <2> QED
    BY ONLY <1>3, <2>1
<1>5. ValidChoice(I.option[o], e)
  BY <1>3, <1>4, AnswersSettled DEF Settled
<1>6. k \in Occurrences(l, o)
  BY <1>1 DEF Occurrences
<1>7. f \in DOMAIN l /\ l[f].name = o
  BY <1>1, <1>6, FirstIs
<1> HIDE DEF f
<1>8. f = k
  BY <1>1, <1>7
<1> QED
  BY <1>2, <1>3, <1>4, <1>5, <1>6, <1>8 DEF ActiveChildren, f

\* Answering an option of such a list again makes a list the menu could have
\* put together.
LEMMA EditedFills ==
    \A I, ctx, roots :
        /\ IsOptions(I.option) /\ EndsEverywhere(I) /\ \A o \in DOMAIN I.option : ValidCheckbox(I.option[o])
        /\ IsList(roots) /\ ToSet(roots) \subseteq DOMAIN I.option
        => \A l \in Filled(I, ctx, roots, "unverified") : (\A i, j \in DOMAIN l : l[i].name = l[j].name => i = j) =>
               \A i \in DOMAIN l : \A new \in Trees(I, ctx, "unverified")[l[i].name] :
                   Edited(I, ctx, l, i, new) \in Filled(I, ctx, roots, "unverified")
<1> SUFFICES ASSUME NEW I, NEW ctx, NEW roots,
                    IsOptions(I.option), EndsEverywhere(I), \A o \in DOMAIN I.option : ValidCheckbox(I.option[o]),
                    IsList(roots), ToSet(roots) \subseteq DOMAIN I.option,
                    NEW l, l \in Filled(I, ctx, roots, "unverified"), \A i, j \in DOMAIN l : l[i].name = l[j].name => i = j,
                    NEW i, i \in DOMAIN l, NEW new, new \in Trees(I, ctx, "unverified")[l[i].name]
    PROVE  Edited(I, ctx, l, i, new) \in Filled(I, ctx, roots, "unverified")
  OBVIOUS
<1> DEFINE tree == Trees(I, ctx, "unverified")
           E == AllAnswers(I, "unverified")
           P == ApplicableAnswers(I, ctx)
           F == Forest(tree, roots)
<1>1. Filled(I, ctx, roots, "unverified") = F /\ l \in F
  BY DEF Filled
<1>2. ToSet(roots) \subseteq STRING /\ DOMAIN I.option \subseteq STRING
  BY DEF IsOptions
<1>3. l \in Seq(P)
  <2>1. \A o \in DOMAIN I.option : tree[o] \subseteq {t \in Seq(P) : IsSubtree(I, ctx, o, t)}
    BY TreesAreSubtrees
  <2>2. \A o \in ToSet(roots) : tree[o] \subseteq Seq(P)
    BY <2>1
  <2> HIDE DEF tree, P
  <2> QED
    BY <1>1, <2>2, SeqCloses, ForestFacts
<1>4. P \subseteq E
  BY DEF ApplicableAnswers
<1>5. /\ Covers(tree, E)
      /\ \A o \in STRING : tree[o] \subseteq Seq(E) /\ \A t \in tree[o] : CutEverywhere(tree[o], tree, E, t)
  <2>1. \A how :
            /\ Covers(Trees(I, ctx, how), AllAnswers(I, how))
            /\ \A o \in STRING :
                   /\ Trees(I, ctx, how)[o] \subseteq Seq(AllAnswers(I, how))
                   /\ \A t \in Trees(I, ctx, how)[o] :
                          CutEverywhere(Trees(I, ctx, how)[o], Trees(I, ctx, how), AllAnswers(I, how), t)
    BY TreesCut
  <2> QED
    BY ONLY <2>1
<1>6. \A o \in STRING : tree[o] \subseteq {t \in Seq(E) : Led(I, {o}, t)}
  <2>1. \A how : \A o \in STRING : Trees(I, ctx, how)[o] \subseteq {t \in Seq(AllAnswers(I, how)) : Led(I, {o}, t)}
    BY TreesLed
  <2> QED
    BY ONLY <2>1
<1>7. \A o \in STRING : tree[o] \subseteq CompleteLists(I, ctx, E, {o})
  <2>1. \A how : \A o \in STRING : Trees(I, ctx, how)[o] \subseteq CompleteLists(I, ctx, AllAnswers(I, how), {o})
    BY TreesComplete
  <2> QED
    BY ONLY <2>1
<1>8. \A k \in 1 .. Len(l) : ActiveChildren(I, ctx, l[k].name, l) = ToSet(Children(I.option[l[k].name], l[k]))
  BY <1>3, ActiveAre
<1>9. \A e \in P : e.name \in DOMAIN I.option /\ Fits(I.option[e.name], ctx)
  <2> SUFFICES ASSUME NEW e \in P PROVE e.name \in DOMAIN I.option /\ Fits(I.option[e.name], ctx)
    OBVIOUS
  <2>1. e \in E /\ Fits(I.option[e.name], ctx)
    BY DEF ApplicableAnswers
  <2>2. PICK c \in DOMAIN I.option : e \in Answers(I, c, "unverified")
    BY <2>1 DEF AllAnswers
  <2>3. \A how : e \in Answers(I, c, how) => e.name = c
    BY AnswersAre
  <2>4. e.name = c
    BY ONLY <2>2, <2>3
  <2> QED
    BY <2>1, <2>4
<1>10. new \in tree[l[i].name]
  OBVIOUS
<1> HIDE DEF tree, E, P, F
<1>11. Len(l) \in Nat /\ DOMAIN l = 1 .. Len(l) /\ \A k \in 1 .. Len(l) : l[k] \in P
  BY <1>3, LenProperties
<1>12. CutEverywhere(F, tree, E, l)
  <2>1. \A o \in ToSet(roots) : tree[o] \subseteq Seq(E) /\ \A t \in tree[o] : CutEverywhere(tree[o], tree, E, t)
    BY <1>2, <1>5
  <2>2. \A s \in F : CutEverywhere(F, tree, E, s)
    <3>1. \A s \in Forest(tree, roots) : CutEverywhere(Forest(tree, roots), tree, E, s)
      BY <1>5, <2>1, ForestCuts
    <3> QED
      BY <3>1 DEF F
  <2> QED
    BY <1>1, <2>2
<1>13. Cut(F, tree, E, l, i)
  BY <1>11, <1>12 DEF CutEverywhere
<1>14. PICK pre \in Seq(E) : \E m \in Seq(E) : \E post \in Seq(E) : IsCut(F, tree, l, i, pre, m, post)
  BY <1>13 DEF Cut
<1>15. PICK t \in Seq(E) : \E post \in Seq(E) : IsCut(F, tree, l, i, pre, t, post)
  BY <1>14
<1>16. PICK post \in Seq(E) : IsCut(F, tree, l, i, pre, t, post)
  BY <1>15
<1> DEFINE p == Len(pre)
           n == Len(t)
           q == Len(post)
           o == l[i].name
<1>17. /\ l = pre \o (t \o post) /\ p = i - 1 /\ n >= 1 /\ t \in tree[o]
       /\ \A x \in tree[o] : pre \o (x \o post) \in F
  BY <1>16 DEF IsCut
<1>18. p \in Nat /\ n \in Nat /\ q \in Nat /\ i = p + 1
  BY <1>11, <1>17
<1>19. /\ Len(l) = p + n + q
       /\ \A k \in 1 .. n : l[p + k] = t[k]
       /\ \A k \in 1 .. q : l[p + n + k] = post[k]
  <2>1. /\ Len(pre \o (t \o post)) = p + n + q
        /\ \A k \in 1 .. n : (pre \o (t \o post))[p + k] = t[k]
        /\ \A k \in 1 .. q : (pre \o (t \o post))[p + n + k] = post[k]
    BY ONLY pre \in Seq(E), t \in Seq(E), post \in Seq(E), ThreeParts
  <2> QED
    BY <1>17, <2>1
<1>20. o \in STRING
  BY <1>2, <1>9, <1>11
<1>21. new \in Seq(E)
  BY <1>5, <1>10, <1>20
<1> HIDE DEF o
<1>22. \A k \in 1 .. n : p + k \in 1 .. Len(l)
  BY <1>18, <1>19
<1>23. \A k \in 1 .. n : ActiveChildren(I, ctx, t[k].name, l) = ToSet(Children(I.option[t[k].name], t[k]))
  BY <1>8, <1>19, <1>22
<1>24. \A j, k \in 1 .. n : t[j].name = t[k].name => j = k
  <2> SUFFICES ASSUME NEW j \in 1 .. n, NEW k \in 1 .. n, t[j].name = t[k].name PROVE j = k
    OBVIOUS
  <2>1. p + j \in DOMAIN l /\ p + k \in DOMAIN l /\ l[p + j].name = l[p + k].name
    BY <1>11, <1>19, <1>22
  <2>2. p + j = p + k
    BY <2>1
  <2> QED
    BY <1>18, <2>2
<1>25. ASSUME NEW j \in 2 .. n PROVE \E k \in 1 .. j - 1 : t[j].name \in ActiveChildren(I, ctx, t[k].name, l)
  <2>1. Led(I, {o}, t)
    BY <1>6, <1>17, <1>20
  <2>2. j \in 1 .. n /\ 1 \in 1 .. n /\ j # 1
    BY <1>18
  <2>3. t[1].name = o
    <3>1. l[p + 1] = t[1]
      BY <1>19, <2>2
    <3> QED
      BY <1>18, <3>1 DEF o
  <2>4. t[j].name # o
    BY <1>24, <2>2, <2>3
  <2>5. PICK k \in 1 .. j - 1 : LedTo(I, t, k, t[j].name)
    BY <2>1, <2>2, <2>4 DEF Led
  <2>6. k \in 1 .. n
    BY <1>18
  <2> QED
    BY <1>23, <2>5, <2>6 DEF LedTo
<1>26. ASSUME q >= 1, NEW k \in 1 .. n, post[1].name \in ActiveChildren(I, ctx, t[k].name, l) PROVE FALSE
  <2> DEFINE c == post[1].name
             z == p + n + 1
  <2>1. z \in 1 .. Len(l) /\ 1 \in 1 .. q
    BY <1>18, <1>19, <1>26
  <2>2. l[z] = post[1] /\ l[z] \in P
    BY <1>11, <1>19, <2>1
  <2>3. c \in DOMAIN I.option /\ Fits(I.option[c], ctx)
    BY <1>9, <2>2
  <2>4. c \in ToSet(Children(I.option[t[k].name], t[k]))
    BY <1>23, <1>26
  <2>5. IsComplete(I, ctx, t)
    BY <1>7, <1>17, <1>20 DEF CompleteLists
  <2>6. DOMAIN t = 1 .. n
    BY LenProperties
  <2>7. t[k] \in ToSet(t)
    BY <2>6 DEF ToSet
  <2>8. \E e \in ToSet(t) : e.name = c
    BY <2>3, <2>4, <2>5, <2>7 DEF IsComplete, Meets
  <2>9. PICK m \in 1 .. n : t[m].name = c
    BY <2>6, <2>8 DEF ToSet
  <2>10. l[p + m] = t[m] /\ p + m \in 1 .. Len(l)
    BY <1>19, <1>22
  <2>11. p + m = z
    <3>1. l[p + m].name = l[z].name
      BY <2>2, <2>9, <2>10
    <3> HIDE DEF z
    <3> QED
      BY <1>11, <2>1, <2>10, <3>1
  <2> QED
    BY <1>18, <2>11
<1>27. Edited(I, ctx, l, i, new) = pre \o (new \o post)
  <2>1. Parted(I, ctx, l, i, pre, t, post)
    BY <1>17, <1>18, <1>25, <1>26 DEF Parted
  <2>2. pre \in Seq(E) /\ t \in Seq(E) /\ post \in Seq(E) /\ new \in Seq(E)
    BY <1>21
  <2>3. Replaced(I, ctx, l, i, pre, new, post)
    BY ONLY <2>1, <2>2, EditedIs
  <2> QED
    BY <2>3 DEF Replaced
<1>28. pre \o (new \o post) \in F
  BY <1>10, <1>17 DEF o
<1> QED
  BY <1>1, <1>27, <1>28

\* What is left of a list that was checked for its task are entries of it
\* without repeated cases.
LEMMA CheckedAre ==
    \A J, c, task, l : IsOptions(J.option) /\ StoredList(l) /\ Fits(J.task[task], c) =>
        CheckTask(J, c, task, l) \in Seq({Deduped(J, e) : e \in ToSet(l)})
<1> SUFFICES ASSUME NEW J, NEW c, NEW task, NEW l, IsOptions(J.option), StoredList(l), Fits(J.task[task], c)
    PROVE  CheckTask(J, c, task, l) \in Seq({Deduped(J, e) : e \in ToSet(l)})
  OBVIOUS
<1> DEFINE names == ToSet(J.task[task].roots)
           Stays(e) == e.name \in names \/ e.name \notin DOMAIN J.option \/ Fits(J.option[e.name], c)
           S == ToSet(l)
           V == {e \in S : Stays(e)}
           applicable == Only(l, V)
           deduped == [i \in DOMAIN applicable |-> Deduped(J, applicable[i])]
           D == {Deduped(J, e) : e \in S}
           kept == Kept(J, c, names, deduped)
<1>1. CheckTask(J, c, task, l) = kept
  BY DEF CheckTask
<1>2. l \in Seq(S) /\ \A e \in S : IsStored(e)
  BY ListFacts DEF StoredList
<1>3. \A e \in S : IsStored(Deduped(J, e)) /\ Deduped(J, e) \in D
  BY <1>2, DedupedTwice
<1>4. \A e \in D : IsStored(e)
  BY <1>3
<1> HIDE DEF S, V, names
<1>5. applicable \in Seq(S)
  BY <1>2, OnlyRange
<1> HIDE DEF applicable
<1>6. deduped \in Seq(D)
  <2>1. Len(applicable) \in Nat /\ DOMAIN applicable = 1 .. Len(applicable) /\ \A i \in 1 .. Len(applicable) : applicable[i] \in S
    BY <1>5, LenProperties
  <2>2. \A i \in 1 .. Len(applicable) : Deduped(J, applicable[i]) \in D
    BY <1>3, <2>1
  <2>3. deduped = [i \in 1 .. Len(applicable) |-> Deduped(J, applicable[i])]
    BY <2>1
  <2> HIDE DEF D, deduped
  <2> QED
    BY <2>1, <2>2, <2>3
<1> HIDE DEF D, deduped
<1>7. StoredList(deduped) /\ ToSet(deduped) \subseteq D
  BY <1>4, <1>6, SeqIsList DEF StoredList
<1>8. kept \in Seq(ToSet(deduped))
  BY <1>7, KeptWithin
<1> HIDE DEF kept
<1>9. kept \in Seq(D)
  BY <1>7, <1>8
<1> QED
  BY <1>1, <1>9 DEF D, S

-----------------------------------------------------------------------------
(* What a completion leaves, at the next start.                             *)

\* An entry the checks find nothing wrong with.
Lasts(I, e) == Sound(e) /\ e.name \in DOMAIN I.option /\ ValidChoice(I.option[e.name], e)

\* The defaults leave the choice of an entry alone.
LEMMA DefaultsChoose == \A opt, e : IsStored(e) => (ValidChoice(opt, WithDefaults(opt, e)) <=> ValidChoice(opt, e))
<1> SUFFICES ASSUME NEW opt, NEW e, IsStored(e)
    PROVE  ValidChoice(opt, WithDefaults(opt, e)) <=> ValidChoice(opt, e)
  OBVIOUS
<1> DEFINE ins == [f \in DOMAIN e.inputs \cup opt.inputs |-> IF f \in DOMAIN e.inputs THEN e.inputs[f] ELSE Default]
           d == WithDefaults(opt, e)
<1>1. e = Entry(e.name, e.value, e.values, e.inputs)
  BY DEF IsStored
<1>2. d = IF opt.kind = "input" THEN [e EXCEPT !.inputs = ins] ELSE e
  BY DEF WithDefaults
<1> HIDE DEF ins
<1>3. d.value = e.value /\ d.values = e.values
  BY <1>1, <1>2 DEF Entry
<1> HIDE DEF d
<1>4. ValidChoice(opt, d) <=> ValidChoice(opt, e)
  BY <1>3 DEF ValidChoice
<1> QED
  BY <1>4 DEF d

\* When nothing is wrong with a list, nothing is with what its completion leaves.
LEMMA EntriesLast ==
    \A I, list, how :
        IsOptions(I.option) /\ AsksAll(I) /\ SoundList(list) /\ (\A e \in ToSet(list) : Lasts(I, e)) =>
            \A e \in Entries(I, list, how) : Lasts(I, e)
<1> SUFFICES ASSUME NEW I, NEW list, NEW how, IsOptions(I.option), AsksAll(I), SoundList(list),
                    \A e \in ToSet(list) : Lasts(I, e), NEW e \in Entries(I, list, how)
    PROVE  Lasts(I, e)
  OBVIOUS
<1> DEFINE From(o) == {WithDefaults(I.option[o], f) : f \in EntriesOf(list, o)}
<1>1. ASSUME NEW o \in DOMAIN I.option, e \in Answers(I, o, how) PROVE Lasts(I, e)
  <2>1. Sound(e) /\ ValidChoice(I.option[o], e)
    BY <1>1, AnswersSound DEF AsksAll
  <2>2. \A auto2 : e \in Answers(I, o, auto2) => e.name = o
    BY <1>1, AnswersAre
  <2>3. e.name = o
    BY ONLY <1>1, <2>2
  <2> QED
    BY <2>1, <2>3 DEF Lasts
<1>2. CASE e \in AllAnswers(I, how)
  BY <1>1, <1>2 DEF AllAnswers
<1>3. CASE \E o \in DOMAIN I.option : e \in From(o)
  <2>1. PICK o \in DOMAIN I.option, f \in ToSet(list) : e = WithDefaults(I.option[o], f) /\ f.name = o
    BY <1>3 DEF EntriesOf
  <2>2. Sound(f) /\ IsStored(f) /\ ValidChoice(I.option[o], f)
    BY <2>1 DEF Lasts, Sound
  <2>3. Sound(e) /\ e.name = o /\ ValidChoice(I.option[o], e)
    BY <2>1, <2>2, DefaultsSound, DefaultsKeep, DefaultsChoose
  <2> QED
    BY <2>3 DEF Lasts
<1>4. e \in AllAnswers(I, how) \/ e \in UNION {From(o) : o \in DOMAIN I.option}
  BY DEF Entries
<1> HIDE DEF From
<1> QED
  BY <1>2, <1>3, <1>4

\* What the check of a level makes of such an entry.
Tidied(I, e) ==
    IF I.option[e.name].kind = "input"
    THEN [e EXCEPT !.inputs = [f \in DOMAIN e.inputs \cap I.option[e.name].inputs |-> e.inputs[f]]]
    ELSE Deduped(I, e)

LEMMA TidiedIs ==
    \A I, e : IsOptions(I.option) /\ Lasts(I, e) =>
        Lasts(I, Tidied(I, e)) /\ Tidied(I, e).name = e.name /\ Reading(I, Tidied(I, e)) = Reading(I, e)
<1> SUFFICES ASSUME NEW I, NEW e, IsOptions(I.option), Lasts(I, e)
    PROVE  Lasts(I, Tidied(I, e)) /\ Tidied(I, e).name = e.name /\ Reading(I, Tidied(I, e)) = Reading(I, e)
  OBVIOUS
<1> DEFINE opt == I.option[e.name]
<1>1. /\ e = Entry(e.name, e.value, e.values, e.inputs) /\ IsList(e.values) /\ IsInjective(e.values)
      /\ e.name \in STRING /\ e.value \in STRING /\ ToSet(e.values) \subseteq STRING
      /\ \A f \in DOMAIN e.inputs : e.inputs[f] \in Texts \cup {Default}
      /\ Sound(e) /\ e.name \in DOMAIN I.option /\ ValidChoice(opt, e)
  BY DEF Lasts, Sound, IsStored
<1>2. opt.kind \in {"select", "switch", "checkbox", "input"}
  BY <1>1 DEF IsOptions
<1>3. CASE opt.kind = "input"
  <2> DEFINE ins == [f \in DOMAIN e.inputs \cap opt.inputs |-> e.inputs[f]]
             d == Entry(e.name, e.value, e.values, ins)
  <2>1. Tidied(I, e) = d
    <3>1. Tidied(I, e) = [e EXCEPT !.inputs = ins]
      BY <1>3 DEF Tidied
    <3> HIDE DEF ins
    <3> QED
      BY <1>1, <3>1 DEF Entry
  <2>2. /\ DOMAIN ins = DOMAIN e.inputs \cap opt.inputs
        /\ \A f \in DOMAIN ins : f \in DOMAIN e.inputs /\ ins[f] = e.inputs[f]
    OBVIOUS
  <2> HIDE DEF ins
  <2>3. d.name = e.name /\ d.value = e.value /\ d.values = e.values /\ d.inputs = ins
    BY DEF Entry
  <2>4. Sound(d)
    BY <1>1, <2>2, <2>3 DEF Sound, IsStored
  <2>5. ~IsChoice(opt) /\ opt.kind # "checkbox"
    BY <1>3 DEF IsChoice
  <2>6. ValidChoice(opt, d)
    BY <1>3, <2>5 DEF ValidChoice
  <2>7. Read(opt, d) = Read(opt, e)
    <3>1. \A x : Read(opt, x) = Entry(x.name, NoValue, <<>>, [f \in opt.inputs |-> IF f \in DOMAIN x.inputs THEN x.inputs[f] ELSE Default])
      BY <1>3, <2>5 DEF Read
    <3> DEFINE fields(x) == [f \in opt.inputs |-> IF f \in DOMAIN x.inputs THEN x.inputs[f] ELSE Default]
    <3>2. fields(d) = fields(e)
      BY <2>2, <2>3
    <3>3. Read(opt, d) = Entry(d.name, NoValue, <<>>, fields(d)) /\ Read(opt, e) = Entry(e.name, NoValue, <<>>, fields(e))
      BY <3>1
    <3> HIDE DEF fields, d
    <3> QED
      BY <2>3, <3>2, <3>3
  <2> HIDE DEF d
  <2> QED
    BY <1>1, <2>1, <2>3, <2>4, <2>6, <2>7 DEF Lasts, Reading
<1>4. CASE opt.kind # "input"
  <2>1. Unique(e.values) = e.values
    <3>1. e.values \in Seq(ToSet(e.values))
      BY <1>1, ListFacts
    <3> QED
      BY <1>1, <3>1, UniqueOnce
  <2>2. [e EXCEPT !.values = Unique(@)] = e
    BY <1>1, <2>1 DEF Entry
  <2>3. Tidied(I, e) = e
    BY <1>4, <2>2 DEF Tidied, Deduped
  <2> QED
    BY <2>3
<1> QED
  BY <1>3, <1>4

\* The check of a level keeps all of such a list, and what it means.
LEMMA LevelLasts ==
    \A I, list : IsOptions(I.option) /\ SoundList(list) /\ (\A e \in ToSet(list) : Lasts(I, e)) =>
        CheckLevel(I, list) = [i \in DOMAIN list |-> Tidied(I, list[i])]
<1> SUFFICES ASSUME NEW I, NEW list, IsOptions(I.option), SoundList(list), \A e \in ToSet(list) : Lasts(I, e)
    PROVE  CheckLevel(I, list) = [i \in DOMAIN list |-> Tidied(I, list[i])]
  OBVIOUS
<1> DEFINE Known(e) == e.name \in DOMAIN I.option
           Valid(e) ==
               LET opt == I.option[e.name] IN ValidChoice(opt, e) \/ (IsChoice(opt) /\ e.value = NoValue)
           S == {e \in ToSet(list) : Known(e)}
           known == Only(list, S)
           each == [i \in DOMAIN known |-> Tidied(I, known[i])]
           V == {e \in ToSet(each) : Valid(e)}
<1>1. CheckLevel(I, list) = Only(each, V)
  BY DEF CheckLevel, Tidied
<1>2. S = ToSet(list) /\ list \in Seq(ToSet(list)) /\ DOMAIN list = 1 .. Len(list) /\ Len(list) \in Nat
      /\ \A i \in 1 .. Len(list) : list[i] \in ToSet(list)
  BY ListFacts DEF SoundList, Lasts
<1> HIDE DEF S
<1>3. known = list
  BY <1>2, OnlyAll
<1> HIDE DEF known
<1> DEFINE X == {Tidied(I, e) : e \in ToSet(list)}
<1>4. each \in Seq(X)
  <2>1. \A i \in 1 .. Len(list) : Tidied(I, list[i]) \in X
    BY <1>2
  <2>2. each = [i \in 1 .. Len(list) |-> Tidied(I, list[i])]
    BY <1>2, <1>3
  <2> HIDE DEF X, each
  <2> QED
    BY <1>2, <2>1, <2>2
<1>5. \A e \in X : Valid(e)
  BY TidiedIs DEF Lasts
<1> HIDE DEF X
<1>6. each \in Seq(V)
  <2>1. IsList(each) /\ ToSet(each) \subseteq X
    BY <1>4, SeqIsList
  <2>2. V = ToSet(each)
    BY <1>5, <2>1
  <2> HIDE DEF V, each
  <2> QED
    BY <2>1, <2>2 DEF IsList
<1>7. each = [i \in DOMAIN list |-> Tidied(I, list[i])]
  BY <1>3
<1> HIDE DEF V, each
<1>8. Only(each, V) = each
  BY <1>6, OnlyAll
<1> QED
  BY <1>1, <1>7, <1>8

\* No case of a sound entry is there twice.
LEMMA DedupedOnce == \A I, e : Sound(e) => Deduped(I, e) = e
<1> SUFFICES ASSUME NEW I, NEW e, Sound(e) PROVE Deduped(I, e) = e
  OBVIOUS
<1>1. e = Entry(e.name, e.value, e.values, e.inputs) /\ IsList(e.values) /\ IsInjective(e.values)
  BY DEF Sound, IsStored
<1>2. Unique(e.values) = e.values
  <2>1. e.values \in Seq(ToSet(e.values))
    BY <1>1, ListFacts
  <2> QED
    BY <1>1, <2>1, UniqueOnce
<1>3. [e EXCEPT !.values = Unique(@)] = e
  BY <1>1, <1>2 DEF Entry
<1> QED
  BY <1>3 DEF Deduped

\* What a run reads as a list that prompts for roots make, and the next start
\* takes as one: nothing is wrong with an entry, and where roots are options of
\* a task there is one subtree after the other.
AsFilled(I, ctx, list, roots) ==
    /\ Effects(I, ctx, list) \in Filled(I, ctx, roots, "unverified")
    /\ \A e \in ToSet(list) : Lasts(I, e) /\ Untouched(I, ctx, ToSet(roots), e)
    /\ ToSet(roots) \subseteq DOMAIN I.option => Chained(I, ctx, ToSet(roots), list)

\* The sound entries that apply, their choices valid.
Lasting(I, ctx, E) == {e \in E : Lasts(I, e) /\ Fits(I.option[e.name], ctx)}

\* So is what the completion of a sound list leaves.
LEMMA EnsuredIsAsFilled ==
    \A I, ctx, roots, list, how :
        /\ IsOptions(I.option) /\ EndsEverywhere(I) /\ AsksAll(I) /\ SoundList(list)
        /\ IsList(roots) /\ ToSet(roots) \subseteq STRING
        => \A p \in Ensured(I, ctx, roots, list, how) :
               /\ SoundList(p.out)
               /\ p.ok => AsFilled(I, ctx, p.out, roots)
               /\ (\A e \in ToSet(list) : Lasts(I, e)) => \A e \in ToSet(p.out) : Lasts(I, e)
<1> SUFFICES ASSUME NEW I, NEW ctx, NEW roots, NEW list, NEW how,
                    IsOptions(I.option), EndsEverywhere(I), AsksAll(I), SoundList(list),
                    IsList(roots), ToSet(roots) \subseteq STRING,
                    NEW p \in Ensured(I, ctx, roots, list, how)
    PROVE  /\ SoundList(p.out)
           /\ p.ok => AsFilled(I, ctx, p.out, roots)
           /\ (\A e \in ToSet(list) : Lasts(I, e)) => \A e \in ToSet(p.out) : Lasts(I, e)
  OBVIOUS
<1> DEFINE E == Entries(I, list, how)
           V == Gifts(I, list, how)
           F == Lasting(I, ctx, E)
           T == SubtreesOf(I, ctx, F)
<1>1. SoundList(p.out) /\ (p.ok => Effects(I, ctx, p.out) \in Filled(I, ctx, roots, "unverified"))
  <2>1. /\ IsOptions(I.option) /\ EndsEverywhere(I) /\ AsksAll(I) /\ SoundList(list)
        /\ IsList(roots) /\ ToSet(roots) \subseteq STRING
    OBVIOUS
  <2>2. \A q \in Ensured(I, ctx, roots, list, how) :
            SoundList(q.out) /\ (q.ok => Effects(I, ctx, q.out) \in Filled(I, ctx, roots, "unverified"))
    BY ONLY <2>1, EnsuredReads
  <2> QED
    BY <2>2
<1>2. StoredList(list)
  BY SoundIsStored
<1>3. \A e \in E : Sound(e)
  BY EntriesSound
<1>4. \A e \in F : e \in E /\ Lasts(I, e) /\ IsStored(e) /\ Fits(I.option[e.name], ctx)
  BY DEF Lasting, Lasts, Sound
<1>5. \A o \in DOMAIN I.option : \A e \in V[o] :
          /\ e.name = o /\ Selects(I.option[o], e) /\ ValidChoice(I.option[o], e)
          /\ Fits(I.option[o], ctx) => e \in F
  <2>1. IsOptions(I.option) /\ StoredList(list)
    BY <1>2
  <2>2. \A o \in DOMAIN I.option : \A e \in Given(I, o, list, how) :
            e \in Entries(I, list, how) /\ e.name = o /\ IsStored(e) /\ Selects(I.option[o], e)
    BY ONLY <2>1, GivenAre
  <2> SUFFICES ASSUME NEW o \in DOMAIN I.option, NEW e \in V[o]
      PROVE  /\ e.name = o /\ Selects(I.option[o], e) /\ ValidChoice(I.option[o], e)
             /\ Fits(I.option[o], ctx) => e \in F
    OBVIOUS
  <2>3. e \in Given(I, o, list, how)
    BY DEF Gifts
  <2>4. e \in E /\ e.name = o /\ Selects(I.option[o], e) /\ Sound(e)
    BY <1>3, <2>2, <2>3
  <2>5. ValidChoice(I.option[o], e)
    <3>1. CASE e \in Answers(I, o, how)
      BY <3>1, AnswersSound DEF AsksAll
    <3>2. CASE e \notin Answers(I, o, how)
      BY <2>3, <3>2 DEF Given
    <3> QED
      BY <3>1, <3>2
  <2> QED
    BY <2>4, <2>5 DEF Lasting, Lasts
<1> HIDE DEF E, V, F
<1>6. Bears(T, I, ctx, V, F)
  BY <1>4, <1>5, SubtreesGrow
<1>7. \A o \in DOMAIN I.option : T[o] \subseteq {t \in Seq(F) : IsSubtree(I, ctx, o, t)}
  BY DEF IsOptions, SubtreesOf
<1> HIDE DEF T
<1>8. Bears(T, I, ctx, V, E)
  <2>1. Seq(F) \subseteq Seq(E)
    <3>1. F \subseteq E
      BY <1>4
    <3> QED
      BY <3>1
  <2>2. T \in [STRING -> SUBSET Seq(E)]
    BY <1>6, <2>1 DEF Bears
  <2> QED
    BY <1>6, <2>2 DEF Bears
<1>9. StoredList(list) /\ Provided(T, I, ctx, list, how, E) /\ IsList(roots) /\ ToSet(roots) \subseteq STRING
  BY <1>2, <1>8 DEF Provided, V
<1>10. p.out \in Seq(E) /\ (p.ok => p.out \in Forest(T, roots))
  BY <1>9, EnsuredBears DEF E
<1>11. ASSUME p.ok, NEW e \in ToSet(p.out) PROVE Lasts(I, e) /\ Untouched(I, ctx, ToSet(roots), e)
  <2>1. \A o \in ToSet(roots) : T[o] \subseteq Seq(F)
    BY <1>6 DEF Bears
  <2>2. Forest(T, roots) \subseteq Seq(F)
    BY <2>1, SeqCloses, ForestFacts
  <2>3. e \in F
    BY <1>10, <1>11, <2>2, SeqIsList
  <2> QED
    BY <1>4, <2>3, DedupedOnce DEF Untouched, Lasts
<1>12. ASSUME p.ok, ToSet(roots) \subseteq DOMAIN I.option PROVE Chained(I, ctx, ToSet(roots), p.out)
  <2>1. /\ IsOptions(I.option) /\ \A e \in F : IsStored(e)
        /\ IsList(roots) /\ ToSet(roots) \subseteq DOMAIN I.option
        /\ \A o \in ToSet(roots) : T[o] \subseteq {t \in Seq(F) : IsSubtree(I, ctx, o, t)}
    BY <1>4, <1>7, <1>12
  <2>2. \A l \in Forest(T, roots) : l \in Seq(F) /\ Chained(I, ctx, ToSet(roots), l)
    BY ONLY <2>1, ForestChains
  <2> QED
    BY <1>10, <1>12, <2>2
<1>13. ASSUME \A e \in ToSet(list) : Lasts(I, e) PROVE \A e \in ToSet(p.out) : Lasts(I, e)
  <2>1. \A e \in E : Lasts(I, e)
    BY <1>13, EntriesLast DEF E
  <2> QED
    BY <1>10, <2>1, SeqIsList
<1> QED
  BY <1>1, <1>11, <1>12, <1>13 DEF AsFilled

\* The check of a task has nothing against it either.
LEMMA AsFilledIsKept ==
    \A I, ctx, task, list :
        /\ IsOptions(I.option) /\ ToSet(I.task[task].roots) \subseteq DOMAIN I.option
        /\ AsFilled(I, ctx, list, I.task[task].roots)
        => CheckTask(I, ctx, task, list) = list
  BY CheckKeeps DEF AsFilled
=============================================================================
