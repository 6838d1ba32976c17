------------------------ MODULE UrlNormalizer_proofs -------------------------
(***************************************************************************)
(* What the operators of UrlNormalizer compute, for URLs of any length:    *)
(* the folds over paths and queries, normpath, urljoin and the sorting of  *)
(* parameters, and that a normal form is its own normal form.              *)
(***************************************************************************)
EXTENDS UrlNormalizer, FiniteSetTheorems, FunctionTheorems, SequenceTheorems, TLAPS

-----------------------------------------------------------------------------
(* Induction, with a set for the predicate: a theorem that takes a         *)
(* predicate cannot be instantiated by the provers.                        *)

LEMMA SmallestExists ==
    ASSUME NEW T \in SUBSET Nat, T # {}
    PROVE  \E m \in T : \A n \in T : m <= n
<1>1. PICK m \in T : \A n \in T : ~(<<n, m>> \in OpToRel(<, Nat))
  BY WFMin, NatLessThanWellFounded
<1>2. \A n \in T : ~(n < m)
  BY <1>1 DEF OpToRel
<1> QED BY <1>2

LEMMA Induction ==
    ASSUME NEW n \in Nat, NEW S, 0 \in S, \A k \in 1 .. n : k - 1 \in S => k \in S
    PROVE  \A k \in 0 .. n : k \in S
<1> DEFINE T == (0 .. n) \ S
<1> SUFFICES ASSUME T # {} PROVE FALSE
  OBVIOUS
<1>1. T \in SUBSET Nat
  OBVIOUS
<1>2. PICK m \in T : \A k \in T : m <= k
  <2> HIDE DEF T
  <2> QED BY <1>1, SmallestExists
<1>3. m \in 1 .. n /\ m - 1 \in 0 .. n /\ m - 1 \in S
  BY <1>2
<1> QED BY <1>2, <1>3

LEMMA LargestIsMax ==
    ASSUME NEW T \in SUBSET Nat, NEW k \in T, \A y \in T : k >= y
    PROVE  Max(T) = k
<1>1. \A x \in T : (\A y \in T : x >= y) => x = k
  OBVIOUS
<1>2. \A x \in T : (\A y \in T : x >= y) <=> x = k
  BY <1>1
<1> QED BY <1>2 DEF Max

LEMMA MaxOfIndices ==
    ASSUME NEW n \in Nat, NEW T \in SUBSET (1 .. n), T # {}
    PROVE  Max(T) \in T /\ \A y \in T : Max(T) >= y
<1> DEFINE I == {n - y : y \in T}
<1>1. I \in SUBSET Nat /\ I # {}
  <2>1. \A y \in T : n - y \in Nat
    OBVIOUS
  <2> QED BY <2>1
<1>2. PICK m \in I : \A i \in I : m <= i
  <2> HIDE DEF I
  <2> QED BY <1>1, SmallestExists
<1>3. PICK x \in T : m = n - x
  BY <1>2
<1>4. \A y \in T : x >= y
  <2> SUFFICES ASSUME NEW y \in T PROVE x >= y
    OBVIOUS
  <2>1. m <= n - y
    BY <1>2
  <2> QED BY <1>3, <2>1
<1>5. Max(T) = x
  BY <1>4, LargestIsMax
<1> QED BY <1>4, <1>5

(* A fold goes through the sets of indices, the largest index last: there  *)
(* is a function that does.                                                *)
Folding(f, n, B, b, F) ==
    /\ f \in [SUBSET (1 .. n) -> B]
    /\ \A T \in SUBSET (1 .. n) : f[T] = IF T = {} THEN b ELSE F[f[T \ {Max(T)}]][Max(T)]

LEMMA FoldExists ==
    ASSUME NEW n \in Nat, NEW B, NEW b \in B, NEW F \in [B -> [1 .. n -> B]]
    PROVE  \E f : Folding(f, n, B, b, F)
<1> DEFINE Folds(f, k) == \A T \in SUBSET (1 .. k) :
               f[T] = IF T = {} THEN b ELSE F[f[T \ {Max(T)}]][Max(T)]
           S == {k \in 0 .. n : \E f \in [SUBSET (1 .. k) -> B] : Folds(f, k)}
<1>1. 0 \in S
  <2> DEFINE f == [T \in SUBSET (1 .. 0) |-> b]
  <2>1. f \in [SUBSET (1 .. 0) -> B] /\ Folds(f, 0)
    OBVIOUS
  <2> HIDE DEF f, Folds
  <2>2. \E e \in [SUBSET (1 .. 0) -> B] : Folds(e, 0)
    BY <2>1
  <2>3. 0 \in 0 .. n
    OBVIOUS
  <2> QED BY <2>2, <2>3
<1>2. ASSUME NEW k \in 1 .. n, k - 1 \in S PROVE k \in S
  <2>1. PICK f \in [SUBSET (1 .. k - 1) -> B] : Folds(f, k - 1)
    BY <1>2
  <2> DEFINE g == [T \in SUBSET (1 .. k) |-> IF k \in T THEN F[f[T \ {k}]][k] ELSE f[T]]
  <2>2. ASSUME NEW T \in SUBSET (1 .. k), k \in T
        PROVE  Max(T) = k /\ T \ {k} \in SUBSET (1 .. k - 1)
    <3>1. T \in SUBSET Nat /\ k \in T /\ \A y \in T : k >= y
      BY <2>2
    <3>2. Max(T) = k
      BY <3>1, LargestIsMax
    <3>3. T \ {k} \in SUBSET (1 .. k - 1)
      BY <2>2
    <3> QED BY <3>2, <3>3
  <2>3. ASSUME NEW T \in SUBSET (1 .. k), k \notin T
        PROVE  T \in SUBSET (1 .. k - 1)
    <3> SUFFICES ASSUME NEW y \in T PROVE y \in 1 .. k - 1
      OBVIOUS
    <3>1. y \in 1 .. k /\ y # k
      BY <2>3
    <3> QED BY <3>1
  <2>4. ASSUME NEW T \in SUBSET (1 .. k - 1), T # {}
        PROVE  T \ {Max(T)} \in SUBSET (1 .. k - 1) /\ k \notin T \ {Max(T)}
    <3>1. k \notin T
      BY <2>4
    <3>2. \A m : T \ {m} \in SUBSET (1 .. k - 1) /\ k \notin T \ {m}
      BY <2>4, <3>1
    <3> QED BY <3>2
  <2>5. g \in [SUBSET (1 .. k) -> B]
    <3>1. ASSUME NEW T \in SUBSET (1 .. k) PROVE g[T] \in B
      <4>1. CASE k \in T
        <5>1. T \ {k} \in SUBSET (1 .. k - 1)
          BY <2>2, <4>1
        <5>2. f[T \ {k}] \in B
          BY <5>1, <2>1
        <5>3. g[T] = F[f[T \ {k}]][k]
          BY <4>1
        <5> QED BY <5>2, <5>3
      <4>2. CASE k \notin T
        BY <4>2, <2>1, <2>3
      <4> QED BY <4>1, <4>2
    <3> QED BY <3>1
  <2>6. ASSUME NEW T \in SUBSET (1 .. k)
        PROVE  g[T] = IF T = {} THEN b ELSE F[g[T \ {Max(T)}]][Max(T)]
    <3>1. CASE k \in T
      <4>1. Max(T) = k /\ T \ {k} \in SUBSET (1 .. k - 1) /\ T \ {k} \in SUBSET (1 .. k)
        BY <2>2, <3>1
      <4>2. g[T \ {k}] = f[T \ {k}]
        BY <4>1
      <4>3. g[T] = F[f[T \ {k}]][k]
        BY <3>1
      <4> QED BY <3>1, <4>1, <4>2, <4>3
    <3>2. CASE k \notin T /\ T # {}
      <4>1. /\ T \in SUBSET (1 .. k - 1) /\ T \ {Max(T)} \in SUBSET (1 .. k)
            /\ k \notin T \ {Max(T)}
        BY <3>2, <2>3
      <4>2. g[T \ {Max(T)}] = f[T \ {Max(T)}]
        BY <4>1
      <4>3. g[T] = f[T]
        BY <3>2
      <4>4. f[T] = F[f[T \ {Max(T)}]][Max(T)]
        BY <2>1, <3>2, <4>1
      <4> QED BY <3>2, <4>2, <4>3, <4>4
    <3>3. CASE T = {}
      <4>1. g[T] = f[T] /\ {} \in SUBSET (1 .. k - 1)
        BY <3>3
      <4> QED BY <2>1, <3>3, <4>1
    <3> QED BY <3>1, <3>2, <3>3
  <2>7. Folds(g, k)
    BY <2>6
  <2> HIDE DEF g, Folds
  <2> QED BY <2>5, <2>7
<1>3. n \in S
  <2>1. \A k \in 1 .. n : k - 1 \in S => k \in S
    BY <1>2
  <2> HIDE DEF S
  <2>2. \A k \in 0 .. n : k \in S
    BY <1>1, <2>1, Induction
  <2> QED BY <2>2
<1> QED BY <1>3 DEF Folding

LEMMA FoldSteps ==
    ASSUME NEW n \in Nat, NEW k \in 1 .. n
    PROVE  /\ 1 .. k \in SUBSET (1 .. n) /\ 1 .. k # {}
           /\ Max(1 .. k) = k /\ (1 .. k) \ {k} = 1 .. k - 1
<1>1. 1 .. k \in SUBSET Nat /\ k \in 1 .. k /\ \A y \in 1 .. k : k >= y
  OBVIOUS
<1>2. Max(1 .. k) = k
  BY <1>1, LargestIsMax
<1> QED BY <1>2

-----------------------------------------------------------------------------
(* What a fold has after each element. *)

LEMMA AmongHistory ==
    ASSUME NEW A, NEW s \in Seq(A), NEW S
    PROVE  \E g \in [0 .. Len(s) -> Seq(A)] :
               /\ g[0] = <<>> /\ Among(s, S) = g[Len(s)]
               /\ \A k \in 1 .. Len(s) :
                      g[k] = IF s[k] \in S THEN Append(g[k - 1], s[k]) ELSE g[k - 1]
<1> DEFINE n == Len(s)
           B == Seq(A)
           Op(kept, x) == IF x \in S THEN Append(kept, x) ELSE kept
           F == [x \in B |-> [k \in 1 .. n |-> Op(x, s[k])]]
           Folds(f) == f = [T \in SUBSET (1 .. n) |->
                               IF T = {} THEN <<>> ELSE Op(f[T \ {Max(T)}], s[Max(T)])]
           iter == CHOOSE f : Folds(f)
           g == [k \in 0 .. n |-> iter[1 .. k]]
<1>1. n \in Nat /\ DOMAIN s = 1 .. n /\ <<>> \in B /\ \A k \in 1 .. n : s[k] \in A
  OBVIOUS
<1>2. ASSUME NEW x \in B, NEW k \in 1 .. n PROVE Op(x, s[k]) \in B
  BY <1>1
<1>3. \E f : Folds(f)
  <2>1. F \in [B -> [1 .. n -> B]]
    BY <1>2
  <2>2. PICK f \in [SUBSET (1 .. n) -> B] : \A T \in SUBSET (1 .. n) :
            f[T] = IF T = {} THEN <<>> ELSE F[f[T \ {Max(T)}]][Max(T)]
    <3> DEFINE b == <<>>
    <3>1. b \in B /\ n \in Nat
      BY <1>1
    <3> HIDE DEF F, B, b, n
    <3>2. \E f : Folding(f, n, B, b, F)
      BY <2>1, <3>1, FoldExists
    <3> QED BY <3>2 DEF b, Folding
  <2>3. ASSUME NEW T \in SUBSET (1 .. n), T # {}
        PROVE  f[T] = Op(f[T \ {Max(T)}], s[Max(T)])
    <3>1. Max(T) \in 1 .. n
      BY <2>3, MaxOfIndices, <1>1
    <3>2. f[T \ {Max(T)}] \in B
      BY <2>2, <3>1
    <3>3. \A x \in B : \A k \in 1 .. n : F[x][k] = Op(x, s[k])
      OBVIOUS
    <3>4. f[T] = F[f[T \ {Max(T)}]][Max(T)]
      <4> HIDE DEF F, B, n
      <4> QED BY <2>2, <2>3
    <3> HIDE DEF F, Op, B, n
    <3> QED BY <3>1, <3>2, <3>3, <3>4
  <2>4. Folds(f)
    <3> HIDE DEF Op, B, n
    <3> QED BY <2>2, <2>3
  <2> QED BY <2>4
<1>4. Folds(iter)
  <2> HIDE DEF Folds
  <2> QED BY <1>3
<1>5. Among(s, S) = iter[1 .. n]
  BY <1>1 DEF Among, FoldLeft, MapThenFoldSet
<1> HIDE DEF iter
<1>6. g[0] = <<>>
  BY <1>1, <1>4
<1>7. ASSUME NEW k \in 1 .. n PROVE g[k] = Op(g[k - 1], s[k])
  <2>1. /\ 1 .. k \in SUBSET (1 .. n) /\ 1 .. k # {}
        /\ Max(1 .. k) = k /\ (1 .. k) \ {k} = 1 .. k - 1
    BY <1>1, FoldSteps
  <2>2. iter[1 .. k] = Op(iter[1 .. k - 1], s[k])
    <3> HIDE DEF Op, n
    <3> QED BY <1>4, <2>1
  <2> QED BY <1>1, <2>2
<1>8. \A k \in 0 .. n : g[k] \in B
  <2> DEFINE I == {k \in 0 .. n : g[k] \in B}
  <2>1. 0 \in I
    <3>1. 0 \in 0 .. n
      BY <1>1
    <3> HIDE DEF g, B, n
    <3> QED BY <1>1, <1>6, <3>1
  <2>2. \A k \in 1 .. n : k - 1 \in I => k \in I
    <3> HIDE DEF g, Op
    <3> QED BY <1>1, <1>2, <1>7
  <2> HIDE DEF I
  <2>3. \A k \in 0 .. n : k \in I
    BY <1>1, <2>1, <2>2, Induction
  <2> QED BY <2>3 DEF I
<1>9. g \in [0 .. n -> B] /\ Among(s, S) = g[n]
  BY <1>1, <1>5, <1>8
<1> HIDE DEF g
<1> QED BY <1>6, <1>7, <1>9

LEMMA AmongType ==
    ASSUME NEW A, NEW s \in Seq(A), NEW S
    PROVE  Among(s, S) \in Seq(A \cap S)
<1>1. PICK g \in [0 .. Len(s) -> Seq(A)] :
          /\ g[0] = <<>> /\ Among(s, S) = g[Len(s)]
          /\ \A k \in 1 .. Len(s) :
                 g[k] = IF s[k] \in S THEN Append(g[k - 1], s[k]) ELSE g[k - 1]
  BY AmongHistory
<1> DEFINE I == {k \in 0 .. Len(s) : g[k] \in Seq(A \cap S)}
<1>2. Len(s) \in Nat
  OBVIOUS
<1>3. 0 \in I
  BY <1>1, <1>2
<1>4. \A k \in 1 .. Len(s) : k - 1 \in I => k \in I
  <2> SUFFICES ASSUME NEW k \in 1 .. Len(s), g[k - 1] \in Seq(A \cap S)
               PROVE  g[k] \in Seq(A \cap S)
    OBVIOUS
  <2>1. s[k] \in A
    OBVIOUS
  <2>2. s[k] \in S => Append(g[k - 1], s[k]) \in Seq(A \cap S)
    <3> DEFINE C == A \cap S
               t == g[k - 1]
    <3>1. t \in Seq(C) /\ (s[k] \in S => s[k] \in C)
      BY <2>1
    <3> HIDE DEF C, t
    <3>2. s[k] \in S => Append(t, s[k]) \in Seq(C)
      BY <3>1, AppendProperties
    <3> QED BY <3>2 DEF C, t
  <2> QED BY <1>1, <2>2
<1>5. \A k \in 0 .. Len(s) : k \in I
  <2> HIDE DEF I
  <2> QED BY <1>2, <1>3, <1>4, Induction
<1> QED BY <1>1, <1>2, <1>5

LEMMA CopyHistory ==
    ASSUME NEW A, NEW s \in Seq(A), NEW g \in [0 .. Len(s) -> Seq(A)]
    PROVE  g[0] = <<>> /\ (\A k \in 1 .. Len(s) : g[k] = Append(g[k - 1], s[k]))
           => g[Len(s)] = s
<1>0. SUFFICES ASSUME g[0] = <<>>, \A k \in 1 .. Len(s) : g[k] = Append(g[k - 1], s[k])
               PROVE  g[Len(s)] = s
  OBVIOUS
<1> DEFINE I == {k \in 0 .. Len(s) : Len(g[k]) = k /\ \A i \in 1 .. k : g[k][i] = s[i]}
<1>1. Len(s) \in Nat
  OBVIOUS
<1>2. 0 \in I
  BY <1>0, <1>1
<1>3. \A k \in 1 .. Len(s) : k - 1 \in I => k \in I
  <2> SUFFICES ASSUME NEW k \in 1 .. Len(s), k - 1 \in I PROVE k \in I
    OBVIOUS
  <2>1. g[k - 1] \in Seq(A) /\ s[k] \in A
    OBVIOUS
  <2>2. g[k] = Append(g[k - 1], s[k])
    BY <1>0
  <2>3. Len(g[k - 1]) = k - 1 /\ \A i \in 1 .. k - 1 : g[k - 1][i] = s[i]
    OBVIOUS
  <2>4. Len(g[k]) = k /\ \A i \in 1 .. k : g[k][i] = s[i]
    BY <2>1, <2>2, <2>3, AppendProperties
  <2> QED BY <2>4
<1>4. \A k \in 0 .. Len(s) : k \in I
  <2> HIDE DEF I
  <2> QED BY <1>1, <1>2, <1>3, Induction
<1>5. /\ g[Len(s)] \in Seq(A) /\ Len(g[Len(s)]) = Len(s)
      /\ \A i \in 1 .. Len(s) : g[Len(s)][i] = s[i]
  BY <1>1, <1>4
<1> QED BY <1>5, SeqEqual

LEMMA AmongAll ==
    ASSUME NEW A, NEW s \in Seq(A), NEW S, \A i \in 1 .. Len(s) : s[i] \in S
    PROVE  Among(s, S) = s
<1>1. PICK g \in [0 .. Len(s) -> Seq(A)] :
          /\ g[0] = <<>> /\ Among(s, S) = g[Len(s)]
          /\ \A k \in 1 .. Len(s) :
                 g[k] = IF s[k] \in S THEN Append(g[k - 1], s[k]) ELSE g[k - 1]
  BY AmongHistory
<1>2. \A k \in 1 .. Len(s) : g[k] = Append(g[k - 1], s[k])
  BY <1>1
<1> QED BY <1>1, <1>2, CopyHistory

-----------------------------------------------------------------------------
(* The order of parameters is strict and total. *)

LEMMA BelowTransitive ==
    ASSUME NEW s \in Seq(Nat), NEW t \in Seq(Nat), NEW u \in Seq(Nat), Below(s, t), Below(t, u)
    PROVE  Below(s, u)
<1>1. PICK i \in 1 .. Len(t) : /\ \A k \in 1 .. i - 1 : k <= Len(s) /\ s[k] = t[k]
                               /\ i > Len(s) \/ s[i] < t[i]
  BY DEF Below
<1>2. PICK j \in 1 .. Len(u) : /\ \A k \in 1 .. j - 1 : k <= Len(t) /\ t[k] = u[k]
                               /\ j > Len(t) \/ t[j] < u[j]
  BY DEF Below
<1>3. /\ Len(s) \in Nat /\ Len(t) \in Nat /\ Len(u) \in Nat
      /\ \A k \in 1 .. Len(s) : s[k] \in Nat
      /\ \A k \in 1 .. Len(t) : t[k] \in Nat
      /\ \A k \in 1 .. Len(u) : u[k] \in Nat
  OBVIOUS
<1>4. CASE i <= j
  <2>1. i \in 1 .. Len(u) /\ \A k \in 1 .. i - 1 : k <= Len(s) /\ s[k] = u[k]
    BY <1>1, <1>2, <1>3, <1>4
  <2>2. i > Len(s) \/ s[i] < u[i]
    <3>1. CASE i < j
      <4>1. t[i] = u[i]
        BY <1>2, <1>3, <3>1
      <4> QED BY <1>1, <4>1
    <3>2. CASE i = j
      <4>1. t[i] < u[i]
        BY <1>2, <1>3, <3>2
      <4>2. CASE i <= Len(s)
        <5>1. s[i] < t[i]
          BY <1>1, <1>3, <4>2
        <5>2. s[i] \in Nat /\ t[i] \in Nat /\ u[i] \in Nat
          <6>1. i \in 1 .. Len(s) /\ i \in 1 .. Len(t) /\ i \in 1 .. Len(u)
            BY <1>3, <2>1, <4>2
          <6> QED BY <1>3, <6>1
        <5> QED BY <4>1, <5>1, <5>2
      <4> QED BY <1>3, <4>2
    <3> QED BY <1>3, <1>4, <3>1, <3>2
  <2> QED BY <2>1, <2>2 DEF Below
<1>5. CASE j < i
  <2>1. /\ j <= Len(s) /\ s[j] = t[j] /\ t[j] < u[j]
        /\ \A k \in 1 .. j - 1 : k <= Len(s) /\ s[k] = u[k]
    BY <1>1, <1>2, <1>3, <1>5
  <2>2. s[j] < u[j]
    BY <2>1
  <2> QED BY <2>1, <2>2 DEF Below
<1> QED BY <1>3, <1>4, <1>5

LEMMA FirstDifference ==
    ASSUME NEW A, NEW s \in Seq(A), NEW t \in Seq(A), s # t
    PROVE  \E m \in Nat \ {0} :
               /\ \A k \in 1 .. m - 1 : k <= Len(s) /\ k <= Len(t) /\ s[k] = t[k]
               /\ m <= Len(s) \/ m <= Len(t)
               /\ m > Len(s) \/ m > Len(t) \/ s[m] # t[m]
<1>1. Len(s) \in Nat /\ Len(t) \in Nat
  OBVIOUS
<1> DEFINE Differ(i) == i > Len(s) \/ i > Len(t) \/ s[i] # t[i]
           T == {i \in Nat \ {0} : Differ(i)}
<1>2. PICK m \in T : \A i \in T : m <= i
  <2>1. Len(s) + 1 \in T
    BY <1>1
  <2>2. T \in SUBSET Nat /\ T # {}
    BY <2>1
  <2> HIDE DEF T
  <2> QED BY <2>2, SmallestExists
<1>3. \A k \in 1 .. m - 1 : k <= Len(s) /\ k <= Len(t) /\ s[k] = t[k]
  <2> SUFFICES ASSUME NEW k \in 1 .. m - 1 PROVE ~Differ(k)
    BY <1>1
  <2>1. k \in Nat \ {0} /\ ~(m <= k)
    OBVIOUS
  <2> QED BY <1>2, <2>1
<1>4. ~(m > Len(s) /\ m > Len(t))
  <2> SUFFICES ASSUME m > Len(s), m > Len(t) PROVE FALSE
    OBVIOUS
  <2>1. Len(s) = Len(t) /\ \A k \in 1 .. Len(s) : s[k] = t[k]
    <3>1. Len(s) >= m - 1 /\ Len(t) >= m - 1
      BY <1>1, <1>3
    <3> QED BY <1>1, <1>3, <3>1
  <2> QED BY <2>1, SeqEqual
<1> QED BY <1>1, <1>3, <1>4

LEMMA BelowTotal ==
    ASSUME NEW s \in Seq(Nat), NEW t \in Seq(Nat)
    PROVE  ~Below(s, s) /\ (s = t \/ Below(s, t) \/ Below(t, s))
<1>1. /\ Len(s) \in Nat /\ Len(t) \in Nat
      /\ \A k \in 1 .. Len(s) : s[k] \in Nat
      /\ \A k \in 1 .. Len(t) : t[k] \in Nat
  OBVIOUS
<1>2. ~Below(s, s)
  BY <1>1 DEF Below
<1> SUFFICES ASSUME s # t PROVE Below(s, t) \/ Below(t, s)
  BY <1>2
<1>3. PICK m \in Nat \ {0} :
          /\ \A k \in 1 .. m - 1 : k <= Len(s) /\ k <= Len(t) /\ s[k] = t[k]
          /\ m <= Len(s) \/ m <= Len(t)
          /\ m > Len(s) \/ m > Len(t) \/ s[m] # t[m]
  BY FirstDifference
<1>4. CASE m <= Len(t) /\ (m > Len(s) \/ s[m] < t[m])
  <2>1. m \in 1 .. Len(t)
    BY <1>1, <1>4
  <2> QED BY <1>3, <1>4, <2>1 DEF Below
<1>5. CASE m <= Len(s) /\ (m > Len(t) \/ t[m] < s[m])
  <2>1. m \in 1 .. Len(s)
    BY <1>1, <1>5
  <2> QED BY <1>3, <1>5, <2>1 DEF Below
<1> QED BY <1>1, <1>3, <1>4, <1>5

LEMMA BeforeIsTotalOrder ==
    /\ \A p \in Params : ~Before(p, p)
    /\ \A p, q \in Params : p = q \/ Before(p, q) \/ Before(q, p)
    /\ \A p, q, r \in Params : Before(p, q) /\ Before(q, r) => Before(p, r)
<1>1. \A p \in Params : p.key \in Nat /\ p.value \in Seq(Nat)
  BY DEF Params
<1>2. \A p, q \in Params : p.key = q.key /\ p.value = q.value => p = q
  BY DEF Params
<1>3. \A p, q \in Params : p.key = q.key \/ p.key < q.key \/ q.key < p.key
  BY <1>1
<1> QED BY <1>1, <1>2, <1>3, BelowTransitive, BelowTotal DEF Before

-----------------------------------------------------------------------------
(* Every query can be sorted: a parameter's place is one more than the     *)
(* number of those ahead of it.                                            *)
LEMMA OrderExists ==
    ASSUME NEW n \in Nat, NEW q, \A i \in 1 .. n : q[i] \in Params
    PROVE  \E p \in Bijection(1 .. n, 1 .. n) :
               \A i, k \in 1 .. n : i < k => ~Before(q[p[k]], q[p[i]])
<1> DEFINE Ahead(i, k) == Before(q[i], q[k]) \/ (q[i] = q[k] /\ i < k)
           Earlier(k) == {i \in 1 .. n : Ahead(i, k)}
           rank == [k \in 1 .. n |-> Cardinality(Earlier(k)) + 1]
<1>1. /\ \A i \in 1 .. n : ~Ahead(i, i)
      /\ \A i, k \in 1 .. n : i = k \/ Ahead(i, k) \/ Ahead(k, i)
      /\ \A i, k, m \in 1 .. n : Ahead(i, k) /\ Ahead(k, m) => Ahead(i, m)
  BY BeforeIsTotalOrder
<1>2. \A i, k \in 1 .. n : Ahead(i, k) => ~Before(q[k], q[i])
  BY BeforeIsTotalOrder
<1> HIDE DEF Ahead
<1>3. IsFiniteSet(1 .. n) /\ Cardinality(1 .. n) = n
  BY FS_Interval
<1>4. \A k \in 1 .. n : IsFiniteSet(Earlier(k)) /\ Cardinality(Earlier(k)) \in Nat
  BY <1>3, FS_Subset, FS_CardinalityType
<1>5. ASSUME NEW i \in 1 .. n, NEW k \in 1 .. n, Ahead(i, k)
      PROVE  rank[i] < rank[k]
  <2>1. Earlier(i) \in SUBSET Earlier(k) /\ i \in Earlier(k) /\ i \notin Earlier(i)
    BY <1>1, <1>5
  <2>2. Earlier(i) # Earlier(k)
    BY <2>1
  <2> HIDE DEF Earlier
  <2>3. Cardinality(Earlier(i)) < Cardinality(Earlier(k))
    <3>1. /\ Cardinality(Earlier(i)) <= Cardinality(Earlier(k))
          /\ Cardinality(Earlier(i)) # Cardinality(Earlier(k))
      BY <1>4, <2>1, <2>2, FS_Subset
    <3> QED BY <1>4, <3>1
  <2> QED BY <1>4, <2>3
<1>6. ASSUME NEW k \in 1 .. n PROVE rank[k] \in 1 .. n
  <2> DEFINE Rest == (1 .. n) \ {k}
  <2>1. IsFiniteSet(Rest) /\ Cardinality(Rest) = n - 1
    BY <1>3, FS_RemoveElement
  <2>2. Earlier(k) \in SUBSET Rest
    BY <1>1
  <2> HIDE DEF Earlier, Rest
  <2>3. Cardinality(Earlier(k)) <= n - 1
    BY <2>1, <2>2, FS_Subset
  <2> QED BY <1>4, <2>3
<1>7. rank \in [1 .. n -> 1 .. n]
  <2>1. rank = [k \in 1 .. n |-> rank[k]]
    OBVIOUS
  <2> HIDE DEF rank
  <2> QED BY <1>6, <2>1
<1> HIDE DEF rank, Earlier
<1>8. \A i, k \in 1 .. n : rank[i] = rank[k] => i = k
  <2>1. \A i, k \in 1 .. n : Ahead(i, k) => rank[i] # rank[k]
    BY <1>5, <1>7
  <2> QED BY <1>1, <2>1
<1>9. rank \in Bijection(1 .. n, 1 .. n)
  <2>1. rank \in Injection(1 .. n, 1 .. n)
    BY <1>7, <1>8, Fun_IsInj
  <2>2. rank \in Surjection(1 .. n, 1 .. n)
    BY <1>3, <2>1, FS_Injection
  <2> QED BY <2>1, <2>2 DEF Bijection
<1>10. PICK p : /\ p \in Bijection(1 .. n, 1 .. n)
                /\ \A i \in 1 .. n : p[rank[i]] = i
  <2>1. /\ Inverse(rank, 1 .. n, 1 .. n) \in Bijection(1 .. n, 1 .. n)
        /\ \A i \in 1 .. n : Inverse(rank, 1 .. n, 1 .. n)[rank[i]] = i
    BY <1>9, Fun_BijInverse
  <2> QED BY <2>1
<1>11. \A i \in 1 .. n : p[i] \in 1 .. n /\ rank[p[i]] = i
  <2> SUFFICES ASSUME NEW i \in 1 .. n PROVE p[i] \in 1 .. n /\ rank[p[i]] = i
    OBVIOUS
  <2>1. p \in [1 .. n -> 1 .. n]
    BY <1>10, Fun_BijectionProperties
  <2>2. PICK k \in 1 .. n : rank[k] = i
    <3>1. rank \in Surjection(1 .. n, 1 .. n)
      BY <1>9 DEF Bijection
    <3> QED BY <3>1 DEF Surjection
  <2> QED BY <1>10, <2>1, <2>2
<1>12. ASSUME NEW i \in 1 .. n, NEW k \in 1 .. n, i < k
       PROVE  ~Before(q[p[k]], q[p[i]])
  <2>1. p[i] # p[k] /\ ~(rank[p[k]] < rank[p[i]])
    BY <1>11, <1>12
  <2>2. Ahead(p[i], p[k])
    BY <1>1, <1>5, <1>11, <2>1
  <2> QED BY <1>2, <1>11, <2>2
<1> QED BY <1>10, <1>12

LEMMA SortedIsSorted ==
    ASSUME NEW q \in Seq(Params)
    PROVE  /\ Sorted(q) \in Seq(Params) /\ Len(Sorted(q)) = Len(q)
           /\ \A i, k \in 1 .. Len(q) : i < k => ~Before(Sorted(q)[k], Sorted(q)[i])
           /\ \E p \in Bijection(1 .. Len(q), 1 .. Len(q)) :
                  \A i \in 1 .. Len(q) : Sorted(q)[i] = q[p[i]]
<1> DEFINE n == Len(q)
           Orders == {p \in Bijection(1 .. n, 1 .. n) :
                          \A i, k \in 1 .. n : i < k => ~Before(q[p[k]], q[p[i]])}
           p == CHOOSE o \in Orders : TRUE
<1>1. n \in Nat /\ DOMAIN q = 1 .. n /\ \A i \in 1 .. n : q[i] \in Params
  OBVIOUS
<1>2. p \in Orders
  <2>1. Orders # {}
    <3> HIDE DEF n
    <3> QED BY <1>1, OrderExists
  <2> HIDE DEF Orders
  <2> QED BY <2>1
<1>3. Sorted(q) = [i \in 1 .. n |-> q[p[i]]]
  BY <1>1 DEF Sorted
<1> HIDE DEF p, n
<1>4. p \in Bijection(1 .. n, 1 .. n) /\ \A i \in 1 .. n : p[i] \in 1 .. n
  <2>1. p \in Bijection(1 .. n, 1 .. n)
    BY <1>2
  <2>2. p \in [1 .. n -> 1 .. n]
    BY <2>1, Fun_BijectionProperties
  <2> QED BY <2>1, <2>2
<1>5. Sorted(q) \in Seq(Params) /\ Len(Sorted(q)) = n
  BY <1>1, <1>3, <1>4
<1>6. \A i, k \in 1 .. n : i < k => ~Before(Sorted(q)[k], Sorted(q)[i])
  BY <1>2, <1>3
<1>7. \E o \in Bijection(1 .. n, 1 .. n) : \A i \in 1 .. n : Sorted(q)[i] = q[o[i]]
  BY <1>3, <1>4
<1> QED BY <1>5, <1>6, <1>7 DEF n

(* Two sorted queries with the same parameters are the same query.         *)
LEMMA SortedCounts ==
    ASSUME NEW q \in Seq(Params), NEW r \in Seq(Params), NEW m \in 1 .. Len(r),
           \A k \in 1 .. m - 1 : k <= Len(q) /\ q[k] = r[k],
           m > Len(q) \/ Before(r[m], q[m]),
           \A i, k \in 1 .. Len(q) : i < k => ~Before(q[k], q[i])
    PROVE  Cardinality({i \in DOMAIN q : q[i] = r[m]}) # Cardinality({i \in DOMAIN r : r[i] = r[m]})
<1> DEFINE Q == {i \in DOMAIN q : q[i] = r[m]}
           R == {i \in DOMAIN r : r[i] = r[m]}
<1>1. /\ Len(q) \in Nat /\ DOMAIN q = 1 .. Len(q) /\ Len(r) \in Nat /\ DOMAIN r = 1 .. Len(r)
      /\ r[m] \in Params
  OBVIOUS
<1>2. m \in R /\ m \notin Q
  <2>1. ~Before(r[m], r[m])
    BY <1>1, BeforeIsTotalOrder
  <2> QED BY <1>1, <2>1
<1>3. Q \in SUBSET R
  <2> SUFFICES ASSUME NEW i \in Q PROVE i \in R
    OBVIOUS
  <2>1. i \in 1 .. Len(q) /\ q[i] = r[m]
    BY <1>1
  <2>2. i < m
    <3> SUFFICES ASSUME ~(i < m) PROVE FALSE
      OBVIOUS
    <3>1. i > m /\ m \in 1 .. Len(q)
      BY <1>1, <1>2, <2>1
    <3>2. Before(q[i], q[m])
      BY <1>1, <2>1, <3>1
    <3> QED BY <2>1, <3>1, <3>2
  <2> QED BY <1>1, <2>1, <2>2
<1>4. IsFiniteSet(R)
  <2>1. IsFiniteSet(1 .. Len(r)) /\ R \in SUBSET (1 .. Len(r))
    BY <1>1, FS_Interval
  <2> QED BY <2>1, FS_Subset
<1> HIDE DEF Q, R
<1>5. Cardinality(Q) # Cardinality(R)
  BY <1>2, <1>3, <1>4, FS_Subset
<1> QED BY <1>5 DEF Q, R

LEMMA SortedUnique ==
    ASSUME NEW q \in Seq(Params), NEW r \in Seq(Params),
           \A i, k \in 1 .. Len(q) : i < k => ~Before(q[k], q[i]),
           \A i, k \in 1 .. Len(r) : i < k => ~Before(r[k], r[i]),
           \A x \in Params : Cardinality({i \in DOMAIN q : q[i] = x})
                             = Cardinality({i \in DOMAIN r : r[i] = x})
    PROVE  q = r
<1> SUFFICES ASSUME q # r PROVE FALSE
  OBVIOUS
<1>1. PICK m \in Nat \ {0} :
          /\ \A k \in 1 .. m - 1 : k <= Len(q) /\ k <= Len(r) /\ q[k] = r[k]
          /\ m <= Len(q) \/ m <= Len(r)
          /\ m > Len(q) \/ m > Len(r) \/ q[m] # r[m]
  BY FirstDifference
<1>2. Len(q) \in Nat /\ Len(r) \in Nat
  OBVIOUS
<1>3. CASE m <= Len(r) /\ (m > Len(q) \/ Before(r[m], q[m]))
  <2>1. m \in 1 .. Len(r) /\ r[m] \in Params
    BY <1>2, <1>3
  <2>2. Cardinality({i \in DOMAIN q : q[i] = r[m]}) # Cardinality({i \in DOMAIN r : r[i] = r[m]})
    BY <1>1, <1>3, <2>1, SortedCounts
  <2> QED BY <2>1, <2>2
<1>4. CASE m <= Len(q) /\ (m > Len(r) \/ Before(q[m], r[m]))
  <2>1. m \in 1 .. Len(q) /\ q[m] \in Params
    BY <1>2, <1>4
  <2>2. Cardinality({i \in DOMAIN r : r[i] = q[m]}) # Cardinality({i \in DOMAIN q : q[i] = q[m]})
    BY <1>1, <1>4, <2>1, SortedCounts
  <2> QED BY <2>1, <2>2
<1>5. CASE m <= Len(q) /\ m <= Len(r)
  <2>1. q[m] \in Params /\ r[m] \in Params /\ q[m] # r[m]
    BY <1>1, <1>2, <1>5
  <2> QED BY <1>3, <1>4, <1>5, <2>1, BeforeIsTotalOrder
<1> QED BY <1>1, <1>2, <1>3, <1>4, <1>5

(* Sorting keeps every parameter as often as it occurs. *)
LEMMA SortedKeeps ==
    ASSUME NEW q \in Seq(Params), NEW x
    PROVE  Cardinality({i \in DOMAIN Sorted(q) : Sorted(q)[i] = x})
           = Cardinality({i \in DOMAIN q : q[i] = x})
<1> DEFINE n == Len(q)
           r == Sorted(q)
           Q == {i \in 1 .. n : q[i] = x}
           R == {i \in 1 .. n : r[i] = x}
<1>1. n \in Nat /\ DOMAIN q = 1 .. n /\ DOMAIN r = 1 .. n
  BY SortedIsSorted
<1>2. PICK p \in Bijection(1 .. n, 1 .. n) : \A i \in 1 .. n : r[i] = q[p[i]]
  BY SortedIsSorted
<1> DEFINE f == [i \in R |-> p[i]]
<1>3. /\ p \in [1 .. n -> 1 .. n]
      /\ \A i, k \in 1 .. n : p[i] = p[k] => i = k
  <2>1. p \in Injection(1 .. n, 1 .. n)
    BY DEF Bijection
  <2> HIDE DEF n
  <2> QED BY <2>1, Fun_InjectionProperties
<1>4. \A k \in 1 .. n : \E i \in 1 .. n : p[i] = k
  BY DEF Bijection, Surjection
<1> HIDE DEF n, r
<1>5. f \in [R -> Q] /\ \A i \in R : f[i] = p[i]
  BY <1>2, <1>3
<1>6. \A i, k \in R : f[i] = f[k] => i = k
  BY <1>3, <1>5
<1>7. \A k \in Q : \E i \in R : f[i] = k
  <2> SUFFICES ASSUME NEW k \in Q PROVE \E i \in R : f[i] = k
    OBVIOUS
  <2>1. PICK i \in 1 .. n : p[i] = k
    BY <1>4
  <2>2. i \in R
    BY <1>2, <2>1
  <2> QED BY <1>5, <2>1, <2>2
<1>8. IsFiniteSet(R)
  <2>1. IsFiniteSet(1 .. n) /\ R \in SUBSET (1 .. n)
    BY <1>1, FS_Interval
  <2> QED BY <2>1, FS_Subset
<1> HIDE DEF f, Q, R
<1>9. Cardinality(Q) = Cardinality(R)
  <2>1. f \in Bijection(R, Q)
    BY <1>5, <1>6, <1>7, Fun_IsBij
  <2>2. ExistsBijection(R, Q)
    BY <2>1 DEF ExistsBijection
  <2> QED BY <1>8, <2>2, FS_Bijection
<1> QED BY <1>1, <1>9 DEF Q, R, r

LEMMA SortedFixed ==
    ASSUME NEW q \in Seq(Params), \A i, k \in 1 .. Len(q) : i < k => ~Before(q[k], q[i])
    PROVE  Sorted(q) = q
<1> DEFINE r == Sorted(q)
<1>1. /\ r \in Seq(Params)
      /\ \A i, k \in 1 .. Len(r) : i < k => ~Before(r[k], r[i])
  BY SortedIsSorted
<1>2. \A x \in Params : Cardinality({i \in DOMAIN r : r[i] = x})
                        = Cardinality({i \in DOMAIN q : q[i] = x})
  BY SortedKeeps
<1> HIDE DEF r
<1>3. r = q
  BY <1>1, <1>2, SortedUnique
<1> QED BY <1>3 DEF r

-----------------------------------------------------------------------------
(* Paths *)

LEMMA FrontProperties ==
    ASSUME NEW A, NEW s \in Seq(A), s # <<>>
    PROVE  /\ Front(s) \in Seq(A) /\ Len(Front(s)) = Len(s) - 1
           /\ \A i \in 1 .. Len(s) - 1 : Front(s)[i] = s[i]
<1>1. Len(s) \in Nat \ {0} /\ \A i \in 1 .. Len(s) - 1 : s[i] \in A
  OBVIOUS
<1> DEFINE n == Len(s) - 1
<1>2. n \in Nat
  BY <1>1
<1>3. Front(s) = SubSeq(s, 1, n)
  BY DEF Front
<1>4. \A i \in 1 .. n : s[i] \in A
  BY <1>1
<1> HIDE DEF n
<1>5. /\ SubSeq(s, 1, n) \in Seq(A)
      /\ Len(SubSeq(s, 1, n)) = IF 1 <= n THEN n - 1 + 1 ELSE 0
      /\ \A i \in 1 .. n - 1 + 1 : SubSeq(s, 1, n)[i] = s[1 + i - 1]
  <2>1. n \in Int /\ 1 \in Int
    BY <1>2
  <2> QED BY <2>1, <1>4, SubSeqProperties
<1>6. \A i \in 1 .. n : Front(s)[i] = s[i]
  BY <1>2, <1>3, <1>5
<1>7. Front(s) \in Seq(A) /\ Len(Front(s)) = n
  BY <1>2, <1>3, <1>5
<1> QED BY <1>6, <1>7 DEF n

LEMMA DownType ==
    ASSUME NEW A, NEW s \in Seq(A), NEW x \in A
    PROVE  Down(s, x) \in Seq(A)
<1>1. s # <<>> => Front(s) \in Seq(A)
  BY FrontProperties
<1>2. Append(s, x) \in Seq(A) /\ <<>> \in Seq(A)
  OBVIOUS
<1> HIDE DEF Front
<1>3. CASE x \in {"", "."}
  BY <1>3 DEF Down
<1>4. CASE x = ".."
  BY <1>1, <1>2, <1>4 DEF Down
<1>5. CASE x \notin {"", ".", ".."}
  BY <1>2, <1>5 DEF Down
<1> QED BY <1>3, <1>4, <1>5

LEMMA DownHistory ==
    ASSUME NEW A, NEW s \in Seq(A)
    PROVE  \E g \in [0 .. Len(s) -> Seq(A)] :
               /\ g[0] = <<>> /\ FoldLeft(Down, <<>>, s) = g[Len(s)]
               /\ \A k \in 1 .. Len(s) : g[k] = Down(g[k - 1], s[k])
<1> DEFINE n == Len(s)
           B == Seq(A)
           Op(kept, x) == Down(kept, x)
           F == [x \in B |-> [k \in 1 .. n |-> Op(x, s[k])]]
           Folds(f) == f = [T \in SUBSET (1 .. n) |->
                               IF T = {} THEN <<>> ELSE Op(f[T \ {Max(T)}], s[Max(T)])]
           iter == CHOOSE f : Folds(f)
           g == [k \in 0 .. n |-> iter[1 .. k]]
<1>1. n \in Nat /\ DOMAIN s = 1 .. n /\ <<>> \in B /\ \A k \in 1 .. n : s[k] \in A
  OBVIOUS
<1>2. ASSUME NEW x \in B, NEW k \in 1 .. n PROVE Op(x, s[k]) \in B
  BY <1>1, DownType
<1>3. \E f : Folds(f)
  <2>1. F \in [B -> [1 .. n -> B]]
    BY <1>2
  <2>2. PICK f \in [SUBSET (1 .. n) -> B] : \A T \in SUBSET (1 .. n) :
            f[T] = IF T = {} THEN <<>> ELSE F[f[T \ {Max(T)}]][Max(T)]
    <3> DEFINE b == <<>>
    <3>1. b \in B /\ n \in Nat
      BY <1>1
    <3> HIDE DEF F, B, b, n
    <3>2. \E f : Folding(f, n, B, b, F)
      BY <2>1, <3>1, FoldExists
    <3> QED BY <3>2 DEF b, Folding
  <2>3. ASSUME NEW T \in SUBSET (1 .. n), T # {}
        PROVE  f[T] = Op(f[T \ {Max(T)}], s[Max(T)])
    <3>1. Max(T) \in 1 .. n
      BY <2>3, MaxOfIndices, <1>1
    <3>2. f[T \ {Max(T)}] \in B
      BY <2>2, <3>1
    <3>3. \A x \in B : \A k \in 1 .. n : F[x][k] = Op(x, s[k])
      OBVIOUS
    <3>4. f[T] = F[f[T \ {Max(T)}]][Max(T)]
      <4> HIDE DEF F, B, n
      <4> QED BY <2>2, <2>3
    <3> HIDE DEF F, Op, B, n
    <3> QED BY <3>1, <3>2, <3>3, <3>4
  <2>4. Folds(f)
    <3> HIDE DEF Op, B, n
    <3> QED BY <2>2, <2>3
  <2> QED BY <2>4
<1>4. Folds(iter)
  <2> HIDE DEF Folds
  <2> QED BY <1>3
<1>5. FoldLeft(Down, <<>>, s) = iter[1 .. n]
  BY <1>1 DEF FoldLeft, MapThenFoldSet
<1> HIDE DEF iter
<1>6. g[0] = <<>>
  BY <1>1, <1>4
<1>7. ASSUME NEW k \in 1 .. n PROVE g[k] = Op(g[k - 1], s[k])
  <2>1. /\ 1 .. k \in SUBSET (1 .. n) /\ 1 .. k # {}
        /\ Max(1 .. k) = k /\ (1 .. k) \ {k} = 1 .. k - 1
    BY <1>1, FoldSteps
  <2>2. iter[1 .. k] = Op(iter[1 .. k - 1], s[k])
    <3> HIDE DEF Op, n
    <3> QED BY <1>4, <2>1
  <2> QED BY <1>1, <2>2
<1>8. \A k \in 0 .. n : g[k] \in B
  <2> DEFINE I == {k \in 0 .. n : g[k] \in B}
  <2>1. 0 \in I
    <3>1. 0 \in 0 .. n
      BY <1>1
    <3> HIDE DEF g, B, n
    <3> QED BY <1>1, <1>6, <3>1
  <2>2. \A k \in 1 .. n : k - 1 \in I => k \in I
    <3> HIDE DEF g, Op
    <3> QED BY <1>1, <1>2, <1>7
  <2> HIDE DEF I
  <2>3. \A k \in 0 .. n : k \in I
    BY <1>1, <2>1, <2>2, Induction
  <2> QED BY <2>3 DEF I
<1>9. g \in [0 .. n -> B] /\ FoldLeft(Down, <<>>, s) = g[n]
  BY <1>1, <1>5, <1>8
<1> HIDE DEF g
<1> QED BY <1>6, <1>7, <1>9



Dots == {"", ".", ".."}

LEMMA DownClean ==
    ASSUME NEW A, NEW s \in Seq(A)
    PROVE  FoldLeft(Down, <<>>, s) \in Seq(A \ Dots)
<1>1. PICK g \in [0 .. Len(s) -> Seq(A)] :
          /\ g[0] = <<>> /\ FoldLeft(Down, <<>>, s) = g[Len(s)]
          /\ \A k \in 1 .. Len(s) : g[k] = Down(g[k - 1], s[k])
  BY DownHistory
<1> DEFINE C == A \ Dots
           I == {k \in 0 .. Len(s) : g[k] \in Seq(C)}
<1>2. Len(s) \in Nat
  OBVIOUS
<1>3. 0 \in I
  BY <1>1, <1>2
<1>4. \A k \in 1 .. Len(s) : k - 1 \in I => k \in I
  <2> SUFFICES ASSUME NEW k \in 1 .. Len(s), k - 1 \in I PROVE k \in I
    OBVIOUS
  <2> DEFINE t == g[k - 1]
             x == s[k]
  <2>1. /\ t \in Seq(C) /\ x \in A /\ g[k] = Down(t, x)
        /\ (x \notin Dots => x \in C)
    BY <1>1
  <2> HIDE DEF C, t, x
  <2>2. Down(t, x) \in Seq(C)
    <3>1. CASE x \in {"", "."}
      BY <2>1, <3>1 DEF Down
    <3>2. CASE x = ".."
      <4>1. <<>> \in Seq(C) /\ (t # <<>> => Front(t) \in Seq(C))
        BY <2>1, FrontProperties
      <4> HIDE DEF Front
      <4> QED BY <3>2, <4>1 DEF Down
    <3>3. CASE x \notin Dots
      <4>1. Append(t, x) \in Seq(C)
        BY <2>1, <3>3
      <4> QED BY <3>3, <4>1 DEF Down, Dots
    <3> QED BY <3>1, <3>2, <3>3 DEF Dots
  <2> QED BY <2>1, <2>2
<1>5. \A k \in 0 .. Len(s) : k \in I
  <2> HIDE DEF I
  <2> QED BY <1>2, <1>3, <1>4, Induction
<1>6. g[Len(s)] \in Seq(C)
  BY <1>2, <1>5
<1> QED BY <1>1, <1>6

(* A path without dot segments and empty ones is what it was, and so is    *)
(* one with an empty segment in front of it.                               *)
LEMMA DownFixed ==
    ASSUME NEW A, NEW s \in Seq(A), NEW t \in Seq(A), NEW d \in {0, 1}
    PROVE  (/\ Len(s) = Len(t) + d
            /\ d = 1 => s[1] = ""
            /\ \A i \in 1 .. Len(t) : t[i] \notin Dots /\ s[i + d] = t[i])
           => FoldLeft(Down, <<>>, s) = t
<1>0. SUFFICES ASSUME Len(s) = Len(t) + d, d = 1 => s[1] = "",
                      \A i \in 1 .. Len(t) : t[i] \notin Dots /\ s[i + d] = t[i]
               PROVE  FoldLeft(Down, <<>>, s) = t
  OBVIOUS
<1>len. Len(s) = Len(t) + d
  BY <1>0
<1>first. d = 1 => s[1] = ""
  BY <1>0
<1>same. \A i \in 1 .. Len(t) : t[i] \notin Dots /\ s[i + d] = t[i]
  BY <1>0
<1>1. PICK g \in [0 .. Len(s) -> Seq(A)] :
          /\ g[0] = <<>> /\ FoldLeft(Down, <<>>, s) = g[Len(s)]
          /\ \A k \in 1 .. Len(s) : g[k] = Down(g[k - 1], s[k])
  BY DownHistory
<1> DEFINE I == {k \in 0 .. Len(t) : Len(g[k + d]) = k /\ \A i \in 1 .. k : g[k + d][i] = t[i]}
<1>2. Len(s) \in Nat /\ Len(t) \in Nat /\ d \in Nat
  OBVIOUS
<1>3. 0 \in I
  <2>1. g[d] = <<>>
    <3>1. CASE d = 0
      BY <1>1, <3>1
    <3>2. CASE d = 1
      <4>1. 1 \in 1 .. Len(s) /\ 1 - 1 = 0
        BY <1>len, <1>2, <3>2
      <4>2. g[1] = Down(g[1 - 1], s[1])
        BY <1>1, <4>1
      <4>3. g[1] = Down(<<>>, "")
        BY <1>1, <1>first, <3>2, <4>1, <4>2
      <4>4. Down(<<>>, "") = <<>>
        BY DEF Down
      <4> QED BY <3>2, <4>3, <4>4
    <3> QED BY <3>1, <3>2
  <2> QED BY <1>2, <2>1
<1>4. \A k \in 1 .. Len(t) : k - 1 \in I => k \in I
  <2> SUFFICES ASSUME NEW k \in 1 .. Len(t), k - 1 \in I PROVE k \in I
    OBVIOUS
  <2> DEFINE j == k + d
  <2>1. j \in 1 .. Len(s) /\ j - 1 = k - 1 + d /\ j - 1 \in 0 .. Len(s)
    BY <1>len, <1>2
  <2>2. s[j] = t[k] /\ t[k] \notin Dots /\ t[k] \in A
    BY <1>same
  <2>3. g[j] = Append(g[j - 1], t[k])
    BY <1>1, <2>1, <2>2 DEF Down, Dots
  <2>4. /\ g[j - 1] \in Seq(A) /\ Len(g[j - 1]) = k - 1
        /\ \A i \in 1 .. k - 1 : g[j - 1][i] = t[i]
    BY <1>1, <2>1
  <2> HIDE DEF j
  <2>5. Len(g[j]) = k /\ \A i \in 1 .. k : g[j][i] = t[i]
    BY <2>2, <2>3, <2>4, AppendProperties
  <2> QED BY <2>5 DEF j
<1>5. \A k \in 0 .. Len(t) : k \in I
  <2> HIDE DEF I
  <2> QED BY <1>2, <1>3, <1>4, Induction
<1>6. /\ g[Len(s)] \in Seq(A) /\ Len(g[Len(s)]) = Len(t)
      /\ \A i \in 1 .. Len(t) : g[Len(s)][i] = t[i]
  <2>1. Len(t) \in I
    <3> HIDE DEF I
    <3> QED BY <1>2, <1>5
  <2>2. Len(s) \in 0 .. Len(s)
    BY <1>2
  <2> QED BY <1>len, <1>1, <2>1, <2>2
<1>7. g[Len(s)] = t
  BY <1>6, SeqEqual
<1> QED BY <1>1, <1>7

LEMMA Prefixed ==
    ASSUME NEW A, NEW e \in A, NEW s \in Seq(A)
    PROVE  /\ <<e>> \o s \in Seq(A) /\ Len(<<e>> \o s) = Len(s) + 1
           /\ (<<e>> \o s)[1] = e
           /\ \A i \in 1 .. Len(s) : (<<e>> \o s)[i + 1] = s[i]
<1> DEFINE t == <<e>>
<1>1. t \in Seq(A) /\ Len(t) = 1 /\ t[1] = e
  OBVIOUS
<1>2. Len(s) \in Nat
  OBVIOUS
<1> HIDE DEF t
<1>3. /\ t \o s \in Seq(A) /\ Len(t \o s) = Len(t) + Len(s)
      /\ \A i \in 1 .. Len(t) + Len(s) : (t \o s)[i] = IF i <= Len(t) THEN t[i] ELSE s[i - Len(t)]
  BY <1>1, ConcatProperties
<1>4. (t \o s)[1] = e
  BY <1>1, <1>2, <1>3
<1>5. \A i \in 1 .. Len(s) : (t \o s)[i + 1] = s[i]
  <2> SUFFICES ASSUME NEW i \in 1 .. Len(s) PROVE (t \o s)[i + 1] = s[i]
    OBVIOUS
  <2>1. i + 1 \in 1 .. Len(t) + Len(s) /\ ~(i + 1 <= Len(t)) /\ i + 1 - Len(t) = i
    BY <1>1, <1>2
  <2> QED BY <1>3, <2>1
<1> QED BY <1>1, <1>2, <1>3, <1>4, <1>5 DEF t

LEMMA NormPathIsNormal ==
    ASSUME NEW A, NEW s \in Seq(A)
    PROVE  /\ NormPath(s) \in Seq(A)
           /\ \A k \in 1 .. Len(NormPath(s)) :
                  NormPath(s)[k] \notin Dots \/ (k = 1 /\ NormPath(s)[k] = "")
           /\ NormPath(NormPath(s)) = NormPath(s)
<1> DEFINE kept == FoldLeft(Down, <<>>, s)
           x == NormPath(s)
           empty == ""
<1>1. kept \in Seq(A \ Dots)
  BY DownClean
<1>2. x = IF TwoSlashes(s) /\ kept # <<>> THEN <<empty>> \o kept ELSE kept
  BY DEF NormPath
<1> HIDE DEF kept
<1>3. Len(kept) \in Nat
  BY <1>1
<1>4. \A i \in 1 .. Len(kept) : kept[i] \in A \ Dots
  BY <1>1
<1>5. kept \in Seq(A)
  BY <1>1, <1>3, <1>4
<1>6. empty \in Dots
  BY DEF Dots
<1>7. \A t : TwoSlashes(t) <=> Len(t) > 1 /\ t[1] = empty /\ t[2] # empty
  BY DEF TwoSlashes
<1>8. NormPath(x) = LET again == FoldLeft(Down, <<>>, x)
                    IN  IF TwoSlashes(x) /\ again # <<>> THEN <<empty>> \o again ELSE again
  BY DEF NormPath
<1> HIDE DEF empty, x
<1>9. CASE TwoSlashes(s) /\ kept # <<>>
  <2>1. empty \in A
    <3>1. Len(s) > 1 /\ s[1] = empty
      BY <1>7, <1>9
    <3> QED BY <3>1
  <2>2. /\ x \in Seq(A) /\ Len(x) = Len(kept) + 1 /\ x[1] = empty
        /\ \A i \in 1 .. Len(kept) : x[i + 1] = kept[i]
    BY <1>2, <1>5, <1>9, <2>1, Prefixed
  <2>3. FoldLeft(Down, <<>>, x) = kept
    <3>1. \A i \in 1 .. Len(kept) : kept[i] \notin Dots /\ x[i + 1] = kept[i]
      BY <1>4, <2>2
    <3>2. x[1] = ""
      BY <2>2 DEF empty
    <3> QED BY <1>5, <2>2, <3>1, <3>2, DownFixed
  <2>4. TwoSlashes(x)
    <3>1. Len(kept) > 0
      BY <1>3, <1>5, <1>9
    <3>2. 1 \in 1 .. Len(kept) /\ Len(x) > 1 /\ 1 + 1 = 2
      BY <1>3, <2>2, <3>1
    <3>3. kept[1] \notin Dots /\ x[2] = kept[1]
      BY <1>4, <2>2, <3>2
    <3> QED BY <1>6, <1>7, <2>2, <3>2, <3>3
  <2>5. NormPath(x) = x
    BY <1>2, <1>8, <1>9, <2>3, <2>4
  <2>6. \A k \in 1 .. Len(x) : x[k] \notin Dots \/ (k = 1 /\ x[k] = empty)
    <3> SUFFICES ASSUME NEW k \in 1 .. Len(x), k # 1 PROVE x[k] \notin Dots
      BY <2>2
    <3>1. k - 1 \in 1 .. Len(kept) /\ k = (k - 1) + 1
      BY <1>3, <2>2
    <3>2. x[k] = kept[k - 1]
      BY <2>2, <3>1
    <3> QED BY <1>4, <3>1, <3>2
  <2> QED BY <2>2, <2>5, <2>6 DEF empty, x
<1>10. CASE ~(TwoSlashes(s) /\ kept # <<>>)
  <2>1. x = kept
    BY <1>2, <1>10
  <2>2. FoldLeft(Down, <<>>, x) = x
    <3>1. Len(x) = Len(x) + 0
      BY <1>3, <2>1
    <3>2. \A i \in 1 .. Len(x) : x[i] \notin Dots /\ x[i + 0] = x[i]
      BY <1>3, <1>4, <2>1
    <3>3. 0 \in {0, 1} /\ (0 = 1 => x[1] = "")
      OBVIOUS
    <3> QED BY <1>5, <2>1, <3>1, <3>2, <3>3, DownFixed
  <2>3. ~TwoSlashes(x)
    <3> SUFFICES ASSUME TwoSlashes(x) PROVE FALSE
      OBVIOUS
    <3>1. Len(x) > 1 /\ x[1] = empty
      BY <1>7
    <3>2. 1 \in 1 .. Len(kept)
      BY <1>3, <2>1, <3>1
    <3>3. kept[1] \notin Dots
      BY <1>4, <3>2
    <3> QED BY <1>6, <2>1, <3>1, <3>3
  <2>4. NormPath(x) = x
    BY <1>8, <2>2, <2>3
  <2>5. \A k \in 1 .. Len(x) : x[k] \notin Dots
    BY <1>4, <2>1
  <2> QED BY <1>5, <2>1, <2>4, <2>5 DEF x
<1> QED BY <1>9, <1>10

(* The segments as they are after decoding. *)
Spelled == {Decode[s] : s \in Segments \ BadEscapes}

LEMMA SpelledIsDecoded ==
    /\ Spelled \subseteq Segments \ BadEscapes
    /\ \A s \in Spelled : Decode[s] = s
<1>1. /\ Decode \in [Segments -> Segments]
      /\ \A s \in Segments : Decode[Decode[s]] = Decode[s]
      /\ \A s \in Segments \ BadEscapes : Decode[s] \notin BadEscapes
  BY SegmentAssumption
<1> QED BY ONLY <1>1 DEF Spelled

LEMMA NormalizedPath ==
    ASSUME NEW path \in Seq(Segments), \A i \in DOMAIN path : path[i] \notin BadEscapes
    PROVE  /\ NormalizePath(path) \in Seq(Segments)
           /\ \A k \in DOMAIN NormalizePath(path) :
                  /\ NormalizePath(path)[k] \notin BadEscapes
                  /\ NormalizePath(path)[k] \notin Dots \/ (k = 1 /\ NormalizePath(path)[k] = "")
           /\ NormalizePath(NormalizePath(path)) = NormalizePath(path)
<1> DEFINE d == Decoded(path)
           x == NormalizePath(path)
<1>1. d \in Seq(Spelled)
  <2>1. \A i \in 1 .. Len(path) : path[i] \in Segments \ BadEscapes
    OBVIOUS
  <2>2. d = [i \in 1 .. Len(path) |-> Decode[path[i]]]
    BY DEF Decoded
  <2>3. \A i \in 1 .. Len(path) : Decode[path[i]] \in Spelled
    BY <2>1 DEF Spelled
  <2> HIDE DEF d
  <2> QED BY <2>2, <2>3
<1>2. x = NormPath(d)
  BY DEF NormalizePath
<1> HIDE DEF d, x
<1>3. x \in Seq(Spelled) /\ NormPath(x) = x
  BY <1>1, <1>2, NormPathIsNormal
<1>4. /\ DOMAIN x = 1 .. Len(x) /\ x = [i \in 1 .. Len(x) |-> x[i]]
      /\ Len(x) \in Nat /\ \A k \in 1 .. Len(x) : x[k] \in Spelled
  BY <1>3
<1>5. x \in Seq(Segments)
  <2>1. \A k \in 1 .. Len(x) : x[k] \in Segments
    BY <1>4, SpelledIsDecoded
  <2> QED BY <1>4, <2>1
<1>6. Decoded(x) = x
  <2>1. \A k \in 1 .. Len(x) : Decode[x[k]] = x[k]
    BY <1>4, SpelledIsDecoded
  <2> QED BY <1>4, <2>1 DEF Decoded
<1>7. \A k \in 1 .. Len(x) : x[k] \notin BadEscapes
  BY <1>4, SpelledIsDecoded
<1>8. \A k \in 1 .. Len(x) : x[k] \notin Dots \/ (k = 1 /\ x[k] = "")
  BY <1>1, <1>2, NormPathIsNormal
<1>9. NormalizePath(x) = x
  BY <1>3, <1>6 DEF NormalizePath
<1> QED BY <1>4, <1>5, <1>7, <1>8, <1>9 DEF x

-----------------------------------------------------------------------------
(* Entities *)

Read(done, p) ==
    IF done # <<>> /\ p.key \in EntityKeys
    THEN [done EXCEPT ![Len(done)].value = @ \o <<Sign(p.key)>> \o p.value]
    ELSE Append(done, p)

LEMMA ReadType ==
    ASSUME NEW done \in Seq(Params), NEW p \in Params
    PROVE  Read(done, p) \in Seq(Params)
<1>1. Append(done, p) \in Seq(Params)
  OBVIOUS
<1>2. ASSUME done # <<>>
      PROVE  [done EXCEPT ![Len(done)].value = @ \o <<Sign(p.key)>> \o p.value] \in Seq(Params)
  <2> DEFINE n == Len(done)
             v == done[n].value \o <<Sign(p.key)>> \o p.value
             e == [done[n] EXCEPT !.value = v]
  <2>1. n \in 1 .. Len(done)
    BY <1>2
  <2>2. done[n] \in Params
    BY <2>1
  <2>3. e \in Params
    <3> DEFINE x == done[n].value
               y == <<Sign(p.key)>>
    <3>1. x \in Seq(Nat) /\ y \in Seq(Nat) /\ p.value \in Seq(Nat)
      BY <2>2 DEF Params, Sign
    <3>2. x \o y \in Seq(Nat)
      <4> HIDE DEF x, y
      <4> QED BY <3>1, ConcatProperties
    <3>3. v \in Seq(Nat)
      <4> DEFINE xy == x \o y
      <4>1. xy \in Seq(Nat)
        BY <3>2
      <4> HIDE DEF xy
      <4>2. xy \o p.value \in Seq(Nat)
        BY <3>1, <4>1, ConcatProperties
      <4> QED BY <4>2 DEF xy
    <3> HIDE DEF v
    <3> QED BY <2>2, <3>3 DEF Params
  <2>4. [done EXCEPT ![n].value = @ \o <<Sign(p.key)>> \o p.value] = [done EXCEPT ![n] = e]
    BY <2>1, <2>2 DEF Params
  <2>5. [done EXCEPT ![n] = e] \in Seq(Params)
    <3> HIDE DEF e, n
    <3> QED BY <2>1, <2>3, ExceptSeq
  <2> QED BY <2>4, <2>5
<1> QED BY <1>1, <1>2 DEF Read

LEMMA UnescapeHistory ==
    ASSUME NEW s \in Seq(Params)
    PROVE  \E g \in [0 .. Len(s) -> Seq(Params)] :
               /\ g[0] = <<>> /\ Unescape(s) = g[Len(s)]
               /\ \A k \in 1 .. Len(s) : g[k] = Read(g[k - 1], s[k])
<1> DEFINE n == Len(s)
           B == Seq(Params)
           Op(kept, x) == Read(kept, x)
           F == [x \in B |-> [k \in 1 .. n |-> Op(x, s[k])]]
           Folds(f) == f = [T \in SUBSET (1 .. n) |->
                               IF T = {} THEN <<>> ELSE Op(f[T \ {Max(T)}], s[Max(T)])]
           iter == CHOOSE f : Folds(f)
           g == [k \in 0 .. n |-> iter[1 .. k]]
<1>1. n \in Nat /\ DOMAIN s = 1 .. n /\ <<>> \in B /\ \A k \in 1 .. n : s[k] \in Params
  OBVIOUS
<1>2. ASSUME NEW x \in B, NEW k \in 1 .. n PROVE Op(x, s[k]) \in B
  BY <1>1, ReadType
<1>3. \E f : Folds(f)
  <2>1. F \in [B -> [1 .. n -> B]]
    BY <1>2
  <2>2. PICK f \in [SUBSET (1 .. n) -> B] : \A T \in SUBSET (1 .. n) :
            f[T] = IF T = {} THEN <<>> ELSE F[f[T \ {Max(T)}]][Max(T)]
    <3> DEFINE b == <<>>
    <3>1. b \in B /\ n \in Nat
      BY <1>1
    <3> HIDE DEF F, B, b, n
    <3>2. \E f : Folding(f, n, B, b, F)
      BY <2>1, <3>1, FoldExists
    <3> QED BY <3>2 DEF b, Folding
  <2>3. ASSUME NEW T \in SUBSET (1 .. n), T # {}
        PROVE  f[T] = Op(f[T \ {Max(T)}], s[Max(T)])
    <3>1. Max(T) \in 1 .. n
      BY <2>3, MaxOfIndices, <1>1
    <3>2. f[T \ {Max(T)}] \in B
      BY <2>2, <3>1
    <3>3. \A x \in B : \A k \in 1 .. n : F[x][k] = Op(x, s[k])
      OBVIOUS
    <3>4. f[T] = F[f[T \ {Max(T)}]][Max(T)]
      <4> HIDE DEF F, B, n
      <4> QED BY <2>2, <2>3
    <3> HIDE DEF F, Op, B, n
    <3> QED BY <3>1, <3>2, <3>3, <3>4
  <2>4. Folds(f)
    <3> HIDE DEF Op, B, n
    <3> QED BY <2>2, <2>3
  <2> QED BY <2>4
<1>4. Folds(iter)
  <2> HIDE DEF Folds
  <2> QED BY <1>3
<1>5. Unescape(s) = iter[1 .. n]
  BY <1>1 DEF Unescape, Read, FoldLeft, MapThenFoldSet
<1> HIDE DEF iter
<1>6. g[0] = <<>>
  BY <1>1, <1>4
<1>7. ASSUME NEW k \in 1 .. n PROVE g[k] = Op(g[k - 1], s[k])
  <2>1. /\ 1 .. k \in SUBSET (1 .. n) /\ 1 .. k # {}
        /\ Max(1 .. k) = k /\ (1 .. k) \ {k} = 1 .. k - 1
    BY <1>1, FoldSteps
  <2>2. iter[1 .. k] = Op(iter[1 .. k - 1], s[k])
    <3> HIDE DEF Op, n
    <3> QED BY <1>4, <2>1
  <2> QED BY <1>1, <2>2
<1>8. \A k \in 0 .. n : g[k] \in B
  <2> DEFINE I == {k \in 0 .. n : g[k] \in B}
  <2>1. 0 \in I
    <3>1. 0 \in 0 .. n
      BY <1>1
    <3> HIDE DEF g, B, n
    <3> QED BY <1>1, <1>6, <3>1
  <2>2. \A k \in 1 .. n : k - 1 \in I => k \in I
    <3> HIDE DEF g, Op
    <3> QED BY <1>1, <1>2, <1>7
  <2> HIDE DEF I
  <2>3. \A k \in 0 .. n : k \in I
    BY <1>1, <2>1, <2>2, Induction
  <2> QED BY <2>3 DEF I
<1>9. g \in [0 .. n -> B] /\ Unescape(s) = g[n]
  BY <1>1, <1>5, <1>8
<1> HIDE DEF g
<1> QED BY <1>6, <1>7, <1>9

LEMMA UnescapeType ==
    ASSUME NEW q \in Seq(Params)
    PROVE  Unescape(q) \in Seq(Params)
<1>1. PICK g \in [0 .. Len(q) -> Seq(Params)] : Unescape(q) = g[Len(q)]
  BY UnescapeHistory
<1>2. Len(q) \in 0 .. Len(q)
  OBVIOUS
<1> QED BY <1>1, <1>2

LEMMA UnescapePlain ==
    ASSUME NEW q \in Seq(Params), \A i \in 2 .. Len(q) : q[i].key \notin EntityKeys
    PROVE  Unescape(q) = q
<1>1. PICK g \in [0 .. Len(q) -> Seq(Params)] :
          /\ g[0] = <<>> /\ Unescape(q) = g[Len(q)]
          /\ \A k \in 1 .. Len(q) : g[k] = Read(g[k - 1], q[k])
  BY UnescapeHistory
<1>2. ASSUME NEW k \in 1 .. Len(q) PROVE g[k] = Append(g[k - 1], q[k])
  <2>1. CASE k = 1
    <3>1. g[k - 1] = <<>>
      BY <1>1, <2>1
    <3> QED BY <1>1, <3>1 DEF Read
  <2>2. CASE k # 1
    <3>1. k \in 2 .. Len(q)
      BY <2>2
    <3> QED BY <1>1, <3>1 DEF Read
  <2> QED BY <2>1, <2>2
<1> QED BY <1>1, <1>2, CopyHistory

-----------------------------------------------------------------------------
(* normalize_url *)

LEMMA NormalizedQuery ==
    ASSUME NEW q \in Seq(Params)
    PROVE  /\ NormalizeQuery(q) \in Seq(Params)
           /\ \A k \in 1 .. Len(NormalizeQuery(q)) : NormalizeQuery(q)[k].key \notin Tracking
           /\ \A i, k \in 1 .. Len(NormalizeQuery(q)) :
                  i < k => ~Before(NormalizeQuery(q)[k], NormalizeQuery(q)[i])
           /\ NormalizeQuery(NormalizeQuery(q)) = NormalizeQuery(q)
<1> DEFINE w == Among(q, Wanted(q))
           r == NormalizeQuery(q)
<1>1. w \in Seq(Params \cap Wanted(q))
  BY AmongType
<1>2. r = Sorted(w)
  BY DEF NormalizeQuery
<1> HIDE DEF w, r
<1>3. Len(w) \in Nat /\ \A i \in 1 .. Len(w) : w[i] \in Params /\ w[i] \in Wanted(q)
  BY <1>1
<1>4. w \in Seq(Params)
  BY <1>1, <1>3
<1>5. /\ r \in Seq(Params) /\ Len(r) = Len(w)
      /\ \A i, k \in 1 .. Len(w) : i < k => ~Before(r[k], r[i])
  BY <1>2, <1>4, SortedIsSorted
<1>6. \A k \in 1 .. Len(r) : r[k].key \notin Tracking
  <2> SUFFICES ASSUME NEW k \in 1 .. Len(r) PROVE r[k].key \notin Tracking
    OBVIOUS
  <2>1. PICK p \in Bijection(1 .. Len(w), 1 .. Len(w)) : \A i \in 1 .. Len(w) : r[i] = w[p[i]]
    BY <1>2, <1>4, SortedIsSorted
  <2>2. p \in [1 .. Len(w) -> 1 .. Len(w)]
    BY <2>1, Fun_BijectionProperties
  <2>3. k \in 1 .. Len(w) /\ p[k] \in 1 .. Len(w)
    BY <1>5, <2>2
  <2>4. r[k] \in Wanted(q)
    BY <1>3, <2>1, <2>3
  <2> QED BY <2>4 DEF Wanted
<1>7. NormalizeQuery(r) = r
  <2>1. \A k \in 1 .. Len(r) : r[k] \in Wanted(r)
    <3>1. \A k \in 1 .. Len(r) : r[k] \in ToSet(r)
      BY <1>5 DEF ToSet
    <3> QED BY <1>6, <3>1 DEF Wanted
  <2>2. Among(r, Wanted(r)) = r
    BY <1>5, <2>1, AmongAll
  <2>3. Sorted(r) = r
    BY <1>5, SortedFixed
  <2> QED BY <2>2, <2>3 DEF NormalizeQuery
<1> QED BY <1>5, <1>6, <1>7 DEF r

(* What normalize_url gives without a base, and that it is a fixed point.  *)
NormalUrl(u) ==
    /\ u \in Urls
    /\ u.host \notin Refused /\ u.port # DefaultPort(u.scheme)
    /\ \A k \in DOMAIN u.path : /\ u.path[k] \notin BadEscapes
                                /\ u.path[k] \notin Dots \/ (k = 1 /\ u.path[k] = "")
    /\ \A k \in DOMAIN u.query : u.query[k].key \notin Tracking
    /\ \A i, k \in DOMAIN u.query : i < k => ~Before(u.query[k], u.query[i])
    /\ NormalizePath(u.path) = u.path
    /\ NormalizeQuery(u.query) = u.query

LEMMA UrlFields ==
    ASSUME NEW u \in Urls
    PROVE  /\ u.scheme \in {"http", "https"} /\ u.host \in Hosts /\ u.port \in Ports
           /\ u.path \in Seq(Segments) /\ u.query \in Seq(Params)
BY DEF Urls

(* What html.unescape makes of a path. *)
Literally(path) == [i \in DOMAIN path |-> Entities[path[i]]]

LEMMA LiterallyType ==
    ASSUME NEW path \in Seq(Segments)
    PROVE  /\ Literally(path) \in Seq(Segments) /\ Len(Literally(path)) = Len(path)
           /\ \A i \in 1 .. Len(path) : Literally(path)[i] = Entities[path[i]]
           /\ (\A i \in DOMAIN path : Entities[path[i]] = path[i]) => Literally(path) = path
<1>1. DOMAIN path = 1 .. Len(path) /\ Len(path) \in Nat /\ \A i \in 1 .. Len(path) : path[i] \in Segments
  OBVIOUS
<1>2. \A i \in 1 .. Len(path) : Entities[path[i]] \in Segments
  BY <1>1, SegmentAssumption
<1>3. Literally(path) = [i \in 1 .. Len(path) |-> Entities[path[i]]]
  BY <1>1 DEF Literally
<1>4. Literally(path) \in Seq(Segments) /\ Len(Literally(path)) = Len(path)
  BY <1>1, <1>2, <1>3
<1>5. ASSUME \A i \in DOMAIN path : Entities[path[i]] = path[i] PROVE Literally(path) = path
  <2>1. Literally(path) = [i \in 1 .. Len(path) |-> path[i]]
    BY <1>1, <1>3, <1>5
  <2> QED BY <1>1, <2>1
<1> QED BY <1>3, <1>4, <1>5

LEMMA UnescapedType ==
    ASSUME NEW u \in Urls
    PROVE  /\ Unescaped(u) \in Urls
           /\ Unescaped(u).scheme = u.scheme /\ Unescaped(u).host = u.host
           /\ Unescaped(u).port = u.port /\ Unescaped(u).path = Literally(u.path)
           /\ Unescaped(u).query = Unescape(u.query)
<1> DEFINE path == Literally(u.path)
           query == Unescape(u.query)
<1>1. path \in Seq(Segments) /\ query \in Seq(Params)
  BY UrlFields, LiterallyType, UnescapeType
<1>2. Unescaped(u) = [u EXCEPT !.path = path, !.query = query]
  BY DEF Unescaped, Literally
<1> HIDE DEF path, query
<1>3. /\ Unescaped(u) \in Urls
      /\ Unescaped(u).scheme = u.scheme /\ Unescaped(u).host = u.host
      /\ Unescaped(u).port = u.port /\ Unescaped(u).path = path
      /\ Unescaped(u).query = query
  BY <1>1, <1>2 DEF Urls
<1> QED BY <1>3 DEF path, query

(* Nothing changes where nothing looks like an entity. *)
LEMMA UnescapedLiteral ==
    ASSUME NEW u \in Urls,
           \A i \in 2 .. Len(u.query) : u.query[i].key \notin EntityKeys,
           \A i \in DOMAIN u.path : Entities[u.path[i]] = u.path[i]
    PROVE  Unescaped(u) = u
<1>1. Literally(u.path) = u.path
  BY UrlFields, LiterallyType
<1>2. Unescape(u.query) = u.query
  BY UrlFields, UnescapePlain
<1>3. Unescaped(u) = [u EXCEPT !.path = u.path, !.query = u.query]
  BY <1>1, <1>2 DEF Unescaped, Literally
<1> QED BY <1>3 DEF Urls

LEMMA NormalizedIsNormal ==
    ASSUME NEW u \in Urls, NEW strict \in BOOLEAN, Normalized(u, strict) # NoUrl
    PROVE  NormalUrl(Normalized(u, strict))
<1> DEFINE port == IF u.port = DefaultPort(u.scheme) THEN NoPort ELSE u.port
           path == NormalizePath(u.path)
           query == NormalizeQuery(u.query)
           v == Normalized(u, strict)
<1>1. u.host \notin Refused /\ \A i \in DOMAIN u.path : u.path[i] \notin BadEscapes
  BY DEF Normalized
<1>2. v = [u EXCEPT !.port = port, !.path = path, !.query = query]
  BY DEF Normalized
<1>3. port \in Ports /\ port # DefaultPort(u.scheme)
  <2>1. DefaultPort(u.scheme) \in {80, 443}
    BY DEF DefaultPort
  <2>2. u.port \in Ports
    BY UrlFields
  <2>3. NoPort \in Ports /\ NoPort \notin {80, 443}
    BY DEF NoPort, Ports
  <2> QED BY <2>1, <2>2, <2>3
<1>4. /\ path \in Seq(Segments) /\ NormalizePath(path) = path
      /\ \A k \in DOMAIN path : /\ path[k] \notin BadEscapes
                                /\ path[k] \notin Dots \/ (k = 1 /\ path[k] = "")
  BY <1>1, UrlFields, NormalizedPath
<1>5. u.query \in Seq(Params)
  BY UrlFields
<1>6. /\ query \in Seq(Params) /\ NormalizeQuery(query) = query
      /\ \A k \in 1 .. Len(query) : query[k].key \notin Tracking
      /\ \A i, k \in 1 .. Len(query) : i < k => ~Before(query[k], query[i])
  BY <1>5, NormalizedQuery
<1> HIDE DEF port, path, query, v
<1>7. DOMAIN query = 1 .. Len(query)
  BY <1>6
<1>8. /\ v \in Urls /\ v.scheme = u.scheme /\ v.host = u.host
      /\ v.port = port /\ v.path = path /\ v.query = query
  <2>1. port \in Ports /\ path \in Seq(Segments) /\ query \in Seq(Params)
    BY <1>3, <1>4, <1>6
  <2> QED BY <1>2, <2>1 DEF Urls
<1>9. NormalUrl(v)
  BY <1>1, <1>3, <1>4, <1>6, <1>7, <1>8 DEF NormalUrl
<1> QED BY <1>9 DEF v

LEMMA CanonicalIsNormal ==
    ASSUME NEW u \in Urls, NEW strict \in BOOLEAN, Canonical(u, strict) # NoUrl
    PROVE  NormalUrl(Canonical(u, strict))
BY UnescapedType, NormalizedIsNormal DEF Canonical

(* normalize_url changes nothing about a URL that is normal already, if    *)
(* nothing in its path or query looks like an entity, it is not too long   *)
(* and its host is public.                                                 *)
THEOREM CanonicalIsFixed ==
    ASSUME NEW v, NormalUrl(v), NEW strict \in BOOLEAN, strict => v.host \notin Private,
           ~Unfit(v),
           \A i \in 2 .. Len(v.query) : v.query[i].key \notin EntityKeys,
           \A i \in DOMAIN v.path : Entities[v.path[i]] = v.path[i]
    PROVE  Canonical(v, strict) = v
<1>1. /\ v \in Urls /\ v.host \notin Refused /\ v.port # DefaultPort(v.scheme)
      /\ \A k \in DOMAIN v.path : v.path[k] \notin BadEscapes
      /\ NormalizePath(v.path) = v.path /\ NormalizeQuery(v.query) = v.query
  BY DEF NormalUrl
<1>2. Unescaped(v) = v
  BY <1>1, UnescapedLiteral
<1>3. Canonical(v, strict) = Normalized(v, strict)
  BY <1>2 DEF Canonical
<1>4. Normalized(v, strict) = [v EXCEPT !.port = v.port, !.path = v.path, !.query = v.query]
  BY <1>1 DEF Normalized
<1> QED BY <1>1, <1>3, <1>4 DEF Urls

-----------------------------------------------------------------------------
(* urljoin *)

LEMMA UpType ==
    ASSUME NEW s \in Seq(Segments), NEW x \in Segments
    PROVE  Up(s, x) \in Seq(Segments)
<1>1. s # <<>> => Front(s) \in Seq(Segments)
  BY FrontProperties
<1>2. Append(s, x) \in Seq(Segments) /\ <<>> \in Seq(Segments)
  OBVIOUS
<1> HIDE DEF Front
<1>3. CASE x = "."
  BY <1>3 DEF Up
<1>4. CASE x = ".."
  BY <1>1, <1>2, <1>4 DEF Up
<1>5. CASE x \notin {".", ".."}
  BY <1>2, <1>5 DEF Up
<1> QED BY <1>3, <1>4, <1>5

LEMMA UpHistory ==
    ASSUME NEW start \in Seq(Segments), NEW s \in Seq(Segments)
    PROVE  \E g \in [0 .. Len(s) -> Seq(Segments)] :
               /\ g[0] = start /\ FoldLeft(Up, start, s) = g[Len(s)]
               /\ \A k \in 1 .. Len(s) : g[k] = Up(g[k - 1], s[k])
<1> DEFINE n == Len(s)
           B == Seq(Segments)
           Op(kept, x) == Up(kept, x)
           F == [x \in B |-> [k \in 1 .. n |-> Op(x, s[k])]]
           Folds(f) == f = [T \in SUBSET (1 .. n) |->
                               IF T = {} THEN start ELSE Op(f[T \ {Max(T)}], s[Max(T)])]
           iter == CHOOSE f : Folds(f)
           g == [k \in 0 .. n |-> iter[1 .. k]]
<1>1. n \in Nat /\ DOMAIN s = 1 .. n /\ start \in B /\ \A k \in 1 .. n : s[k] \in Segments
  OBVIOUS
<1>2. ASSUME NEW x \in B, NEW k \in 1 .. n PROVE Op(x, s[k]) \in B
  BY <1>1, UpType
<1>3. \E f : Folds(f)
  <2>1. F \in [B -> [1 .. n -> B]]
    BY <1>2
  <2>2. PICK f \in [SUBSET (1 .. n) -> B] : \A T \in SUBSET (1 .. n) :
            f[T] = IF T = {} THEN start ELSE F[f[T \ {Max(T)}]][Max(T)]
    <3> DEFINE b == start
    <3>1. b \in B /\ n \in Nat
      BY <1>1
    <3> HIDE DEF F, B, b, n
    <3>2. \E f : Folding(f, n, B, b, F)
      BY <2>1, <3>1, FoldExists
    <3> QED BY <3>2 DEF b, Folding
  <2>3. ASSUME NEW T \in SUBSET (1 .. n), T # {}
        PROVE  f[T] = Op(f[T \ {Max(T)}], s[Max(T)])
    <3>1. Max(T) \in 1 .. n
      BY <2>3, MaxOfIndices, <1>1
    <3>2. f[T \ {Max(T)}] \in B
      BY <2>2, <3>1
    <3>3. \A x \in B : \A k \in 1 .. n : F[x][k] = Op(x, s[k])
      OBVIOUS
    <3>4. f[T] = F[f[T \ {Max(T)}]][Max(T)]
      <4> HIDE DEF F, B, n
      <4> QED BY <2>2, <2>3
    <3> HIDE DEF F, Op, B, n
    <3> QED BY <3>1, <3>2, <3>3, <3>4
  <2>4. Folds(f)
    <3> HIDE DEF Op, B, n
    <3> QED BY <2>2, <2>3
  <2> QED BY <2>4
<1>4. Folds(iter)
  <2> HIDE DEF Folds
  <2> QED BY <1>3
<1>5. FoldLeft(Up, start, s) = iter[1 .. n]
  BY <1>1 DEF FoldLeft, MapThenFoldSet
<1> HIDE DEF iter
<1>6. g[0] = start
  BY <1>1, <1>4
<1>7. ASSUME NEW k \in 1 .. n PROVE g[k] = Op(g[k - 1], s[k])
  <2>1. /\ 1 .. k \in SUBSET (1 .. n) /\ 1 .. k # {}
        /\ Max(1 .. k) = k /\ (1 .. k) \ {k} = 1 .. k - 1
    BY <1>1, FoldSteps
  <2>2. iter[1 .. k] = Op(iter[1 .. k - 1], s[k])
    <3> HIDE DEF Op, n
    <3> QED BY <1>4, <2>1
  <2> QED BY <1>1, <2>2
<1>8. \A k \in 0 .. n : g[k] \in B
  <2> DEFINE I == {k \in 0 .. n : g[k] \in B}
  <2>1. 0 \in I
    <3>1. 0 \in 0 .. n
      BY <1>1
    <3> HIDE DEF g, B, n
    <3> QED BY <1>1, <1>6, <3>1
  <2>2. \A k \in 1 .. n : k - 1 \in I => k \in I
    <3> HIDE DEF g, Op
    <3> QED BY <1>1, <1>2, <1>7
  <2> HIDE DEF I
  <2>3. \A k \in 0 .. n : k \in I
    BY <1>1, <2>1, <2>2, Induction
  <2> QED BY <2>3 DEF I
<1>9. g \in [0 .. n -> B] /\ FoldLeft(Up, start, s) = g[n]
  BY <1>1, <1>5, <1>8
<1> HIDE DEF g
<1> QED BY <1>6, <1>7, <1>9

LEMMA JoinedPath ==
    ASSUME NEW base \in Seq(Segments), NEW kind, NEW path \in Seq(Segments), path # <<>>
    PROVE  JoinPaths(base, kind, path) \in Seq(Segments)
<1> DEFINE above == IF base = <<>> THEN <<>> ELSE Front(base)
           whole == above \o Front(path)
           kept  == Among(whole, Segments \ {""})
           parts == IF kind = "rooted" THEN path ELSE Append(kept, Last(path))
           left  == FoldLeft(Up, <<"">>, parts)
<1>1. above \in Seq(Segments) /\ Front(path) \in Seq(Segments)
  BY FrontProperties
<1>2. Last(path) \in Segments
  BY DEF Last
<1> HIDE DEF above
<1>3. whole \in Seq(Segments)
  <2> HIDE DEF Front
  <2> QED BY <1>1, ConcatProperties
<1> HIDE DEF whole
<1>4. kept \in Seq(Segments)
  <2> DEFINE C == Segments \ {""}
  <2>1. kept \in Seq(Segments \cap C)
    BY <1>3, AmongType
  <2> HIDE DEF kept, C
  <2>2. Len(kept) \in Nat /\ \A i \in 1 .. Len(kept) : kept[i] \in Segments
    BY <2>1
  <2> QED BY <2>1, <2>2
<1> HIDE DEF kept
<1>5. parts \in Seq(Segments)
  BY <1>2, <1>4
<1> HIDE DEF parts
<1>6. left \in Seq(Segments)
  <2>0. <<"">> \in Seq(Segments)
    <3>1. \A e \in Segments : <<e>> \in Seq(Segments)
      OBVIOUS
    <3>2. "" \in Segments
      BY SegmentAssumption
    <3> QED BY <3>1, <3>2
  <2>1. PICK g \in [0 .. Len(parts) -> Seq(Segments)] : left = g[Len(parts)]
    BY <1>5, <2>0, UpHistory
  <2>2. Len(parts) \in 0 .. Len(parts)
    BY <1>5
  <2> QED BY <2>1, <2>2
<1> DEFINE e == ""
           whole2 == IF Last(path) \in {".", ".."} THEN Append(left, e) ELSE left
<1>7. JoinPaths(base, kind, path)
      = IF Len(whole2) > 1 /\ Head(whole2) = "" THEN Tail(whole2) ELSE whole2
  BY DEF JoinPaths, above, whole, kept, parts
<1> HIDE DEF left
<1>8. whole2 \in Seq(Segments)
  <2>1. e \in Segments
    BY SegmentAssumption
  <2> HIDE DEF e
  <2> QED BY <1>6, <2>1, AppendProperties
<1> HIDE DEF whole2
<1>9. Len(whole2) > 1 => Tail(whole2) \in Seq(Segments)
  BY <1>8
<1> QED BY <1>7, <1>8, <1>9

LEMMA CanonicalType ==
    ASSUME NEW u \in Urls, NEW strict \in BOOLEAN
    PROVE  Canonical(u, strict) \in Urls \cup {NoUrl}
BY CanonicalIsNormal DEF NormalUrl

(* A base with a slash at its end, in the path or in the last value. *)
LEMMA WithSlashType ==
    ASSUME NEW b \in Urls
    PROVE  /\ [b EXCEPT !.path = Append(@, "")] \in Urls
           /\ b.query # <<>> => [b EXCEPT !.query[Len(b.query)].value = Append(@, Slash)] \in Urls
<1> DEFINE e == ""
           p == Append(b.path, e)
<1>1. p \in Seq(Segments)
  <2>1. e \in Segments /\ b.path \in Seq(Segments)
    BY SegmentAssumption, UrlFields
  <2> HIDE DEF e
  <2> QED BY <2>1, AppendProperties
<1>2. [b EXCEPT !.path = p] \in Urls
  <2> HIDE DEF p
  <2> QED BY <1>1 DEF Urls
<1>3. ASSUME b.query # <<>>
      PROVE  [b EXCEPT !.query[Len(b.query)].value = Append(@, Slash)] \in Urls
  <2> DEFINE q == b.query
             n == Len(q)
             x == q[n]
             y == [x EXCEPT !.value = Append(@, Slash)]
             r == [q EXCEPT ![n] = y]
  <2>1. q \in Seq(Params)
    BY UrlFields
  <2>2. n \in 1 .. Len(q) /\ x \in Params
    BY <1>3, <2>1
  <2>3. y \in Params
    <3>1. Slash \in Nat
      BY DEF Slash
    <3>2. Append(x.value, Slash) \in Seq(Nat)
      BY <2>2, <3>1 DEF Params
    <3> HIDE DEF x
    <3> QED BY <2>2, <3>2 DEF Params
  <2>4. r \in Seq(Params)
    <3> HIDE DEF q, n, y
    <3> QED BY <2>1, <2>2, <2>3
  <2>5. [b EXCEPT !.query = r] \in Urls
    <3> HIDE DEF r
    <3> QED BY <2>4 DEF Urls
  <2>6. [b EXCEPT !.query[Len(b.query)].value = Append(@, Slash)] = [b EXCEPT !.query = r]
    BY DEF Urls
  <2> QED BY <2>5, <2>6
<1> QED BY <1>2, <1>3

LEMMA ResolutionBaseType ==
    ASSUME NEW base \in Urls
    PROVE  ResolutionBase(base) \in Urls \cup {NoUrl}
<1> DEFINE b == Canonical(Unescaped(base), FALSE)
           P == [b EXCEPT !.path = Append(@, "")]
           Q == [b EXCEPT !.query[Len(b.query)].value = Append(@, Slash)]
<1>1. b \in Urls \cup {NoUrl}
  BY UnescapedType, CanonicalType
<1>2. \/ ResolutionBase(base) = b
      \/ b # NoUrl /\ ResolutionBase(base) = P
      \/ b # NoUrl /\ b.query # <<>> /\ ResolutionBase(base) = Q
  BY DEF ResolutionBase
<1>3. b # NoUrl => P \in Urls /\ (b.query # <<>> => Q \in Urls)
  <2> HIDE DEF b
  <2> QED BY <1>1, WithSlashType
<1> HIDE DEF b, P, Q
<1> QED BY <1>1, <1>2, <1>3

LEMMA UnescapedRef ==
    ASSUME NEW ref \in References
    PROVE  Unescaped(ref) \in References
<1> DEFINE path == Literally(ref.path)
           query == Unescape(ref.query)
           r == [ref EXCEPT !.path = path, !.query = query]
<1>1. Unescaped(ref) = r
  BY DEF Unescaped, Literally
<1>2. ref.path \in Seq(Segments) /\ ref.query \in Seq(Params)
  <2> DEFINE PathsOf == Seq(Segments)
             QueriesOf == Seq(Params)
             Absolutes == [kind : {"absolute"}, scheme : {"http", "https"}, host : Hosts,
                           port : Ports, path : PathsOf, query : QueriesOf]
             Networks == [kind : {"network"}, host : Hosts, port : Ports,
                          path : PathsOf, query : QueriesOf]
             Queries == [kind : {"query"}, path : {<<>>}, query : QueriesOf]
  <2>1. \/ ref \in Absolutes \/ ref \in Networks
        \/ ref \in [kind : {"relative"}, path : PathsOf \ {<<>>}, query : QueriesOf]
        \/ ref \in [kind : {"rooted"}, path : PathsOf \ {<<>>}, query : QueriesOf]
        \/ ref \in Queries
    BY DEF References
  <2>2. <<>> \in PathsOf
    OBVIOUS
  <2> HIDE DEF PathsOf, QueriesOf
  <2>3. ref.path \in PathsOf /\ ref.query \in QueriesOf
    BY <2>1, <2>2
  <2> QED BY <2>3 DEF PathsOf, QueriesOf
<1>3. /\ path \in Seq(Segments) /\ Len(path) = Len(ref.path)
      /\ \A i \in 1 .. Len(ref.path) : path[i] = Entities[ref.path[i]]
      /\ query \in Seq(Params)
  BY <1>2, LiterallyType, UnescapeType
<1>4. ref.path = <<>> => path = <<>>
  BY <1>2, <1>3
<1>5. ref.path # <<>> => path # <<>> /\ (path[1] = "" <=> ref.path[1] = "")
  <2> SUFFICES ASSUME ref.path # <<>> PROVE path # <<>> /\ (path[1] = "" <=> ref.path[1] = "")
    OBVIOUS
  <2>1. 1 \in 1 .. Len(ref.path) /\ ref.path[1] \in Segments /\ Len(path) # 0
    <3>1. Len(ref.path) \in Nat /\ Len(ref.path) # 0
      BY <1>2
    <3> HIDE DEF path
    <3> QED BY <1>2, <1>3, <3>1
  <2>2. path[1] = Entities[ref.path[1]]
    BY <1>3, <2>1
  <2> HIDE DEF path
  <2>3. path # <<>>
    BY <2>1
  <2> QED BY <2>1, <2>2, <2>3, SegmentAssumption
<1> HIDE DEF path, query
<1>6. r \in References
  BY <1>2, <1>3, <1>4, <1>5 DEF References
<1> QED BY <1>1, <1>6

LEMMA JoinType ==
    ASSUME NEW b \in Urls, NEW ref \in References
    PROVE  Join(b, ref) \in Urls
<1>3. CASE ref.kind \in {"absolute", "network"}
  <2>1. CASE ref.kind = "absolute"
    <3>1. Absolute(ref, ref.scheme) \in Urls
      BY <2>1 DEF References, Absolute, Urls
    <3> QED BY <2>1, <3>1 DEF Join
  <2>2. CASE ref.kind = "network"
    <3>1. Absolute(ref, b.scheme) \in Urls
      BY <2>2, UrlFields DEF References, Absolute, Urls
    <3> QED BY <2>2, <3>1 DEF Join
  <2> QED BY <1>3, <2>1, <2>2
<1>4. CASE ref.kind = "query"
  <2>1. ref.query \in Seq(Params)
    BY <1>4 DEF References
  <2>2. [b EXCEPT !.query = ref.query] \in Urls
    BY <2>1 DEF Urls
  <2> QED BY <1>4, <2>2 DEF Join
<1>5. CASE ref.kind \in {"relative", "rooted"}
  <2> DEFINE joined == JoinPaths(b.path, ref.kind, ref.path)
  <2>1. ref.query \in Seq(Params) /\ ref.path \in Seq(Segments) /\ ref.path # <<>>
    BY <1>5 DEF References
  <2>2. joined \in Seq(Segments)
    BY <2>1, UrlFields, JoinedPath
  <2>3. Join(b, ref) = [b EXCEPT !.path = joined, !.query = ref.query]
    BY <1>5 DEF Join
  <2> HIDE DEF joined
  <2>4. [b EXCEPT !.path = joined, !.query = ref.query] \in Urls
    BY <2>1, <2>2 DEF Urls
  <2> QED BY <2>3, <2>4
<1>6. ref.kind \in {"absolute", "network", "query", "relative", "rooted"}
  BY DEF References
<1> QED BY <1>3, <1>4, <1>5, <1>6

(* What is resolved is the normal form of some absolute URL.               *)
LEMMA ResolvedIsNormal ==
    ASSUME NEW ref \in References, NEW base \in Urls, NEW strict \in BOOLEAN,
           Resolve(ref, base, strict) # NoUrl
    PROVE  NormalUrl(Resolve(ref, base, strict))
<1> DEFINE b == ResolutionBase(base)
           u == Join(b, Unescaped(ref))
<1>1. b # NoUrl /\ Resolve(ref, base, strict) = Normalized(u, strict)
  BY DEF Resolve
<1>2. b \in Urls
  BY <1>1, ResolutionBaseType
<1>3. u \in Urls
  <2> HIDE DEF b
  <2> QED BY <1>2, UnescapedRef, JoinType
<1> HIDE DEF u
<1> QED BY <1>1, <1>3, NormalizedIsNormal

-----------------------------------------------------------------------------
(* Counting: two queries are normalised to the same query exactly if they  *)
(* have the same parameters, tracking parameters apart, as often.          *)

Times(s, n, x) == Cardinality({i \in 1 .. n : s[i] = x})

LEMMA CountOne ==
    ASSUME NEW n \in Nat, NEW s, NEW t, NEW x, \A i \in 1 .. n : t[i] = s[i]
    PROVE  Times(t, n + 1, x) = Times(s, n, x) + IF t[n + 1] = x THEN 1 ELSE 0
<1> DEFINE S == {i \in 1 .. n : s[i] = x}
           T == {i \in 1 .. n + 1 : t[i] = x}
<1>1. IsFiniteSet(S)
  <2>1. IsFiniteSet(1 .. n) /\ S \in SUBSET (1 .. n)
    BY FS_Interval
  <2> QED BY <2>1, FS_Subset
<1>2. n + 1 \notin S /\ T = IF t[n + 1] = x THEN S \cup {n + 1} ELSE S
  OBVIOUS
<1> HIDE DEF S, T
<1>3. Cardinality(S) \in Nat /\ Cardinality(S \cup {n + 1}) = Cardinality(S) + 1
  BY <1>1, <1>2, FS_AddElement, FS_CardinalityType
<1>4. Cardinality(T) = Cardinality(S) + IF t[n + 1] = x THEN 1 ELSE 0
  BY <1>2, <1>3
<1> QED BY <1>4 DEF S, T, Times

Count(q, x) == Cardinality({i \in DOMAIN q : q[i] = x})

LEMMA AmongKeeps ==
    ASSUME NEW A, NEW s \in Seq(A), NEW S, NEW x
    PROVE  Count(Among(s, S), x) = IF x \in S THEN Count(s, x) ELSE 0
<1> USE DEF Count
<1> DEFINE C == A \cap S
           a == Among(s, S)
<1>1. a \in Seq(C)
  BY AmongType
<1>2. DOMAIN a = 1 .. Len(a) /\ DOMAIN s = 1 .. Len(s) /\ Len(s) \in Nat
  BY <1>1
<1>3. CASE x \notin S
  <2>1. \A i \in 1 .. Len(a) : a[i] \in C
    <3> HIDE DEF a, C
    <3> QED BY <1>1
  <2>2. {i \in DOMAIN a : a[i] = x} = {}
    BY <1>2, <1>3, <2>1
  <2> QED BY <1>3, <2>2, FS_EmptySet
<1>4. CASE x \in S
  <2>1. PICK g \in [0 .. Len(s) -> Seq(A)] :
            /\ g[0] = <<>> /\ a = g[Len(s)]
            /\ \A k \in 1 .. Len(s) :
                   g[k] = IF s[k] \in S THEN Append(g[k - 1], s[k]) ELSE g[k - 1]
    BY AmongHistory
  <2> DEFINE G(k) == Times(g[k], Len(g[k]), x)
             N(k) == Times(s, k, x)
             I == {k \in 0 .. Len(s) : G(k) = N(k)}
  <2> HIDE DEF a
  <2>2. 0 \in I
    <3>1. {i \in 1 .. 0 : s[i] = x} = {} /\ {i \in 1 .. Len(g[0]) : g[0][i] = x} = {}
      BY <2>1
    <3>2. G(0) = N(0)
      BY <3>1 DEF Times
    <3> HIDE DEF G, N
    <3> QED BY <1>2, <3>2
  <2>3. \A k \in 1 .. Len(s) : k - 1 \in I => k \in I
    <3> SUFFICES ASSUME NEW k \in 1 .. Len(s), k - 1 \in I PROVE k \in I
      OBVIOUS
    <3> DEFINE n == k - 1
               p == g[n]
    <3>1. n \in Nat /\ n + 1 = k /\ n \in 0 .. Len(s)
      BY <1>2
    <3>2. p \in Seq(A) /\ s[k] \in A
      BY <2>1, <3>1
    <3>3. N(k) = N(n) + IF s[k] = x THEN 1 ELSE 0
      <4> HIDE DEF n
      <4>1. Times(s, n + 1, x) = Times(s, n, x) + IF s[n + 1] = x THEN 1 ELSE 0
        BY <3>1, CountOne
      <4> QED BY <3>1, <4>1
    <3>4. G(k) = G(n) + IF s[k] = x THEN 1 ELSE 0
      <4>1. CASE s[k] \in S
        <5> DEFINE t == Append(p, s[k])
        <5>1. /\ Len(p) \in Nat /\ Len(t) = Len(p) + 1 /\ t[Len(p) + 1] = s[k]
              /\ \A i \in 1 .. Len(p) : t[i] = p[i]
          BY <3>2, AppendProperties
        <5> HIDE DEF t, p
        <5> DEFINE m == Len(p)
        <5>2. Times(t, m + 1, x) = Times(p, m, x) + IF t[m + 1] = x THEN 1 ELSE 0
          <6>1. m \in Nat /\ \A i \in 1 .. m : t[i] = p[i]
            BY <5>1
          <6> HIDE DEF m
          <6> QED BY <6>1, CountOne
        <5>3. g[k] = t
          BY <2>1, <4>1 DEF t, p
        <5> QED BY <5>1, <5>2, <5>3 DEF p
      <4>2. CASE s[k] \notin S
        <5>1. g[k] = p /\ s[k] # x
          BY <1>4, <2>1, <4>2
        <5>2. G(n) \in Nat
          <6>1. Len(p) \in Nat /\ IsFiniteSet(1 .. Len(p))
            BY <3>2, FS_Interval
          <6> HIDE DEF p
          <6>2. IsFiniteSet({i \in 1 .. Len(p) : p[i] = x})
            BY <6>1, FS_Subset
          <6> QED BY <6>2, FS_CardinalityType DEF p, Times
        <5> QED BY <5>1, <5>2
      <4> QED BY <4>1, <4>2
    <3> HIDE DEF G, N
    <3> QED BY <3>1, <3>3, <3>4
  <2>4. \A k \in 0 .. Len(s) : k \in I
    <3> HIDE DEF I
    <3> QED BY <1>2, <2>2, <2>3, Induction
  <2>5. G(Len(s)) = N(Len(s))
    <3> HIDE DEF G, N
    <3> QED BY <1>2, <2>4
  <2> QED BY <1>2, <1>4, <2>1, <2>5 DEF a, Times
<1> QED BY <1>3, <1>4

LEMMA CountType ==
    ASSUME NEW A, NEW q \in Seq(A), NEW x
    PROVE  /\ Count(q, x) \in Nat
           /\ Count(q, x) = 0 <=> x \notin ToSet(q)
<1> DEFINE S == {i \in DOMAIN q : q[i] = x}
<1>1. IsFiniteSet(S)
  <2>1. IsFiniteSet(1 .. Len(q)) /\ S \in SUBSET (1 .. Len(q))
    BY FS_Interval
  <2> QED BY <2>1, FS_Subset
<1>2. S = {} <=> x \notin ToSet(q)
  BY DEF ToSet
<1> HIDE DEF S
<1>3. Cardinality(S) \in Nat /\ (Cardinality(S) = 0 <=> S = {})
  BY <1>1, FS_CardinalityType, FS_EmptySet
<1> QED BY <1>2, <1>3 DEF S, Count

LEMMA QueryCount ==
    ASSUME NEW q \in Seq(Params), NEW x
    PROVE  Count(NormalizeQuery(q), x) = IF x \in Wanted(q) THEN Count(q, x) ELSE 0
<1> DEFINE w == Among(q, Wanted(q))
<1>1. w \in Seq(Params)
  <2> DEFINE C == Params \cap Wanted(q)
  <2>1. w \in Seq(C)
    BY AmongType
  <2> HIDE DEF w
  <2>2. Len(w) \in Nat /\ \A i \in 1 .. Len(w) : w[i] \in C
    <3> HIDE DEF C
    <3> QED BY <2>1
  <2>3. \A i \in 1 .. Len(w) : w[i] \in Params
    BY <2>2
  <2> HIDE DEF C
  <2> QED BY <2>1, <2>2, <2>3
<1>2. Count(w, x) = IF x \in Wanted(q) THEN Count(q, x) ELSE 0
  BY AmongKeeps
<1> HIDE DEF w
<1>3. Count(Sorted(w), x) = Count(w, x)
  BY <1>1, SortedKeeps DEF Count
<1> QED BY <1>2, <1>3 DEF NormalizeQuery, w

LEMMA QueriesAgree ==
    ASSUME NEW q \in Seq(Params), NEW r \in Seq(Params)
    PROVE  NormalizeQuery(q) = NormalizeQuery(r)
           <=> Wanted(q) = Wanted(r) /\ \A p \in Wanted(q) : Count(q, p) = Count(r, p)
<1>1. /\ \A x : Count(q, x) \in Nat /\ (Count(q, x) = 0 <=> x \notin ToSet(q))
      /\ \A x : Count(r, x) \in Nat /\ (Count(r, x) = 0 <=> x \notin ToSet(r))
  BY CountType
<1>2. /\ \A x \in Wanted(q) : Count(q, x) # 0
      /\ \A x \in Wanted(r) : Count(r, x) # 0
  BY <1>1 DEF Wanted
<1>3. /\ \A x : Count(NormalizeQuery(q), x) = IF x \in Wanted(q) THEN Count(q, x) ELSE 0
      /\ \A x : Count(NormalizeQuery(r), x) = IF x \in Wanted(r) THEN Count(r, x) ELSE 0
  BY QueryCount
<1>4. ASSUME NormalizeQuery(q) = NormalizeQuery(r)
      PROVE  Wanted(q) = Wanted(r) /\ \A p \in Wanted(q) : Count(q, p) = Count(r, p)
  <2>1. \A x : (IF x \in Wanted(q) THEN Count(q, x) ELSE 0)
               = (IF x \in Wanted(r) THEN Count(r, x) ELSE 0)
    BY <1>3, <1>4
  <2>2. \A x : x \in Wanted(q) <=> x \in Wanted(r)
    BY <1>2, <2>1
  <2>3. Wanted(q) = Wanted(r)
    BY <2>2
  <2> QED BY <2>1, <2>3
<1>5. ASSUME Wanted(q) = Wanted(r), \A p \in Wanted(q) : Count(q, p) = Count(r, p)
      PROVE  NormalizeQuery(q) = NormalizeQuery(r)
  <2> DEFINE s == NormalizeQuery(q)
             t == NormalizeQuery(r)
  <2>1. \A x : Count(s, x) = Count(t, x)
    BY <1>3, <1>5
  <2>2. /\ s \in Seq(Params) /\ t \in Seq(Params)
        /\ \A i, k \in 1 .. Len(s) : i < k => ~Before(s[k], s[i])
        /\ \A i, k \in 1 .. Len(t) : i < k => ~Before(t[k], t[i])
    BY NormalizedQuery
  <2>3. \A x \in Params : Cardinality({i \in DOMAIN s : s[i] = x})
                        = Cardinality({i \in DOMAIN t : t[i] = x})
    <3> HIDE DEF s, t
    <3> QED BY <2>1 DEF Count
  <2> HIDE DEF s, t
  <2>4. s = t
    BY <2>2, <2>3, SortedUnique
  <2> QED BY <2>4 DEF s, t
<1> QED BY <1>4, <1>5

(* Two paths are normalised to the same path exactly if they go down the   *)
(* same segments and begin with two slashes or not alike.                  *)
Kept(path) == FoldLeft(Down, <<>>, Decoded(path))

LEMMA KeptType ==
    ASSUME NEW path \in Seq(Segments)
    PROVE  /\ Decoded(path) \in Seq(Segments) /\ Len(Decoded(path)) = Len(path)
           /\ Kept(path) \in Seq(Segments)
           /\ \A i \in 1 .. Len(Kept(path)) : Kept(path)[i] \notin Dots
<1>1. Decoded(path) = [i \in 1 .. Len(path) |-> Decode[path[i]]]
  BY DEF Decoded
<1>2. \A i \in 1 .. Len(path) : Decode[path[i]] \in Segments
  <2>1. Decode \in [Segments -> Segments]
    BY SegmentAssumption
  <2>2. \A i \in 1 .. Len(path) : path[i] \in Segments
    OBVIOUS
  <2> QED BY <2>1, <2>2
<1>3. Decoded(path) \in Seq(Segments) /\ Len(Decoded(path)) = Len(path)
  BY <1>1, <1>2
<1> DEFINE C == Segments \ Dots
           k == Kept(path)
<1>4. k \in Seq(C)
  BY <1>3, DownClean DEF Kept
<1> HIDE DEF k
<1>5. Len(k) \in Nat /\ \A i \in 1 .. Len(k) : k[i] \in C
  <2> HIDE DEF C
  <2> QED BY <1>4
<1>6. \A i \in 1 .. Len(k) : k[i] \in Segments /\ k[i] \notin Dots
  BY <1>5
<1>7. k \in Seq(Segments)
  <2> HIDE DEF C
  <2> QED BY <1>4, <1>5, <1>6
<1> QED BY <1>3, <1>6, <1>7 DEF k

LEMMA DecodedSlashes ==
    ASSUME NEW path \in Seq(Segments)
    PROVE  TwoSlashes(Decoded(path)) = TwoSlashes(path)
<1>1. Len(Decoded(path)) = Len(path) /\ Len(path) \in Nat
  BY KeptType
<1>2. ASSUME Len(path) > 1
      PROVE  (Decoded(path)[1] = "" <=> path[1] = "") /\ (Decoded(path)[2] = "" <=> path[2] = "")
  <2>1. path[1] \in Segments /\ path[2] \in Segments
    BY <1>1, <1>2
  <2>2. Decoded(path)[1] = Decode[path[1]] /\ Decoded(path)[2] = Decode[path[2]]
    BY <1>1, <1>2 DEF Decoded
  <2>3. \A s \in Segments : Decode[s] = "" <=> s = ""
    BY SegmentAssumption
  <2> QED BY <2>1, <2>2, <2>3
<1> QED BY <1>1, <1>2 DEF TwoSlashes

LEMMA PathsAgree ==
    ASSUME NEW p \in Seq(Segments), NEW q \in Seq(Segments)
    PROVE  NormalizePath(p) = NormalizePath(q)
           <=> Kept(p) = Kept(q) /\ (Kept(p) # <<>> => TwoSlashes(p) = TwoSlashes(q))
<1> DEFINE k == Kept(p)
           m == Kept(q)
           empty == ""
<1>1. /\ k \in Seq(Segments) /\ m \in Seq(Segments)
      /\ \A i \in 1 .. Len(k) : k[i] # empty
      /\ \A i \in 1 .. Len(m) : m[i] # empty
  BY KeptType DEF Dots
<1>2. /\ NormalizePath(p) = IF TwoSlashes(p) /\ k # <<>> THEN <<empty>> \o k ELSE k
      /\ NormalizePath(q) = IF TwoSlashes(q) /\ m # <<>> THEN <<empty>> \o m ELSE m
  BY DecodedSlashes DEF NormalizePath, NormPath, Kept
<1>3. empty \in Segments
  BY SegmentAssumption
<1> HIDE DEF k, m, empty
<1>4. /\ Len(<<empty>> \o k) = Len(k) + 1 /\ (<<empty>> \o k)[1] = empty
      /\ \A i \in 1 .. Len(k) : (<<empty>> \o k)[i + 1] = k[i]
      /\ Len(<<empty>> \o m) = Len(m) + 1 /\ (<<empty>> \o m)[1] = empty
      /\ \A i \in 1 .. Len(m) : (<<empty>> \o m)[i + 1] = m[i]
  BY <1>1, <1>3, Prefixed
<1>5. <<empty>> \o k = <<empty>> \o m => k = m
  <2> SUFFICES ASSUME <<empty>> \o k = <<empty>> \o m PROVE k = m
    OBVIOUS
  <2>1. Len(k) = Len(m)
    BY <1>1, <1>4
  <2>2. \A i \in 1 .. Len(k) : k[i] = m[i]
    BY <1>4, <2>1
  <2> QED BY <1>1, <2>1, <2>2, SeqEqual
<1>6. <<empty>> \o k # m /\ <<empty>> \o m # k
  <2>1. \A s \in Seq(Segments) : Len(s) \in Nat
    OBVIOUS
  <2>2. ASSUME <<empty>> \o k = m PROVE FALSE
    <3>1. 1 \in 1 .. Len(m) /\ m[1] = empty
      BY <1>1, <1>4, <2>1, <2>2
    <3> QED BY <1>1, <3>1
  <2>3. ASSUME <<empty>> \o m = k PROVE FALSE
    <3>1. 1 \in 1 .. Len(k) /\ k[1] = empty
      BY <1>1, <1>4, <2>1, <2>3
    <3> QED BY <1>1, <3>1
  <2> QED BY <2>2, <2>3
<1>7. TwoSlashes(p) \in BOOLEAN /\ TwoSlashes(q) \in BOOLEAN
  BY DEF TwoSlashes
<1>8. NormalizePath(p) = NormalizePath(q)
      <=> k = m /\ (k # <<>> => TwoSlashes(p) = TwoSlashes(q))
  BY <1>2, <1>5, <1>6, <1>7
<1> QED BY <1>8 DEF k, m

-----------------------------------------------------------------------------
(* Dot segments are resolved by urljoin and by normpath alike *)

LEMMA SeqInduction ==
    ASSUME NEW A, NEW S, <<>> \in S, \A s \in Seq(A) : \A e \in A : s \in S => Append(s, e) \in S
    PROVE  \A s \in Seq(A) : s \in S
<1> SUFFICES ASSUME NEW s \in Seq(A) PROVE s \in S
  OBVIOUS
<1> DEFINE n == Len(s)
           I == {k \in 0 .. n : \A t \in Seq(A) : Len(t) = k => t \in S}
<1>1. n \in Nat
  OBVIOUS
<1>2. 0 \in I
  <2>1. \A t \in Seq(A) : Len(t) = 0 => t = <<>>
    OBVIOUS
  <2> QED BY <1>1, <2>1
<1>3. \A k \in 1 .. n : k - 1 \in I => k \in I
  <2> SUFFICES ASSUME NEW k \in 1 .. n, k - 1 \in I, NEW t \in Seq(A), Len(t) = k
               PROVE  t \in S
    OBVIOUS
  <2>1. t # <<>>
    OBVIOUS
  <2>2. PICK u \in Seq(A), e \in A : t = Append(u, e)
    BY <2>1, SequenceEmptyOrAppend
  <2>3. Len(t) = Len(u) + 1 /\ Len(u) \in Nat
    BY <2>2, AppendProperties
  <2>4. Len(u) = k - 1
    BY <2>3
  <2>5. u \in S
    BY <2>4
  <2> QED BY <2>2, <2>5
<1> HIDE DEF I, n
<1>4. \A k \in 0 .. n : k \in I
  BY <1>1, <1>2, <1>3, Induction
<1>5. n \in I
  BY <1>1, <1>4
<1> QED BY <1>5 DEF I, n

Walked(s) == FoldLeft(Down, <<>>, s)

LEMMA WalkedType ==
    ASSUME NEW A, NEW s \in Seq(A)
    PROVE  /\ Walked(s) \in Seq(A) /\ \A i \in 1 .. Len(Walked(s)) : Walked(s)[i] \notin Dots
<1> DEFINE C == A \ Dots
           w == Walked(s)
<1>1. w \in Seq(C)
  BY DownClean DEF Walked
<1> HIDE DEF w
<1>2. Len(w) \in Nat /\ \A i \in 1 .. Len(w) : w[i] \in C
  <2> HIDE DEF C
  <2> QED BY <1>1
<1>3. \A i \in 1 .. Len(w) : w[i] \in A /\ w[i] \notin Dots
  BY <1>2
<1>4. w \in Seq(A)
  <2> HIDE DEF C
  <2> QED BY <1>1, <1>2, <1>3
<1> QED BY <1>3, <1>4 DEF w

LEMMA WalkedNone == Walked(<<>>) = <<>>
<1> DEFINE A == {0}
           empty == <<>>
<1>1. empty \in Seq(A) /\ Len(empty) = 0
  OBVIOUS
<1> HIDE DEF A, empty
<1>2. PICK g \in [0 .. Len(empty) -> Seq(A)] :
          g[0] = <<>> /\ FoldLeft(Down, <<>>, empty) = g[Len(empty)]
  BY <1>1, DownHistory
<1> QED BY <1>1, <1>2 DEF Walked, empty

LEMMA WalkedOne ==
    ASSUME NEW A, NEW s \in Seq(A), NEW x \in A
    PROVE  Walked(Append(s, x)) = Down(Walked(s), x)
<1> DEFINE n == Len(s)
           t == Append(s, x)
<1>1. PICK g \in [0 .. Len(s) -> Seq(A)] :
          /\ g[0] = <<>> /\ FoldLeft(Down, <<>>, s) = g[Len(s)]
          /\ \A k \in 1 .. Len(s) : g[k] = Down(g[k - 1], s[k])
  BY DownHistory
<1>2. n \in Nat /\ t \in Seq(A) /\ Len(t) = n + 1 /\ t[n + 1] = x /\ \A i \in 1 .. n : t[i] = s[i]
  BY AppendProperties
<1> HIDE DEF t
<1>3. PICK h \in [0 .. Len(t) -> Seq(A)] :
          /\ h[0] = <<>> /\ FoldLeft(Down, <<>>, t) = h[Len(t)]
          /\ \A k \in 1 .. Len(t) : h[k] = Down(h[k - 1], t[k])
  BY <1>2, DownHistory
<1>4. n \in Nat
  BY <1>2
<1> HIDE DEF n
<1> DEFINE I == {k \in 0 .. n : g[k] = h[k]}
<1>5. 0 \in I
  BY <1>1, <1>3, <1>4
<1>6. \A k \in 1 .. n : k - 1 \in I => k \in I
  <2> SUFFICES ASSUME NEW k \in 1 .. n, g[k - 1] = h[k - 1] PROVE g[k] = h[k]
    OBVIOUS
  <2>1. k \in 1 .. n + 1
    BY <1>4
  <2>2. g[k] = Down(g[k - 1], s[k])
    BY <1>1 DEF n
  <2>3. h[k] = Down(h[k - 1], t[k]) /\ t[k] = s[k]
    BY <1>2, <1>3, <2>1
  <2> QED BY <2>2, <2>3
<1>7. \A k \in 0 .. n : k \in I
  <2> HIDE DEF I
  <2> QED BY <1>4, <1>5, <1>6, Induction
<1>8. h[n] = g[n]
  BY <1>4, <1>7
<1>9. h[n + 1] = Down(h[n], x)
  <2>1. n + 1 \in 1 .. Len(t) /\ n + 1 - 1 = n
    BY <1>2, <1>4
  <2> QED BY <1>2, <1>3, <2>1
<1>10. Walked(t) = h[n + 1] /\ Walked(s) = g[n]
  BY <1>1, <1>2, <1>3 DEF Walked, n
<1> QED BY <1>8, <1>9, <1>10 DEF t

Raised(start, s) == FoldLeft(Up, start, s)

LEMMA RaisedNone ==
    ASSUME NEW start \in Seq(Segments)
    PROVE  Raised(start, <<>>) = start
<1> DEFINE empty == <<>>
<1>1. empty \in Seq(Segments) /\ Len(empty) = 0
  OBVIOUS
<1> HIDE DEF empty
<1>2. PICK g \in [0 .. Len(empty) -> Seq(Segments)] :
          /\ g[0] = start /\ FoldLeft(Up, start, empty) = g[Len(empty)]
          /\ \A k \in 1 .. Len(empty) : g[k] = Up(g[k - 1], empty[k])
  BY <1>1, UpHistory
<1> QED BY <1>1, <1>2 DEF Raised, empty

LEMMA RaisedOne ==
    ASSUME NEW start \in Seq(Segments), NEW s \in Seq(Segments), NEW x \in Segments
    PROVE  Raised(start, Append(s, x)) = Up(Raised(start, s), x)
<1> DEFINE n == Len(s)
           t == Append(s, x)
<1>1. PICK g \in [0 .. Len(s) -> Seq(Segments)] :
          /\ g[0] = start /\ FoldLeft(Up, start, s) = g[Len(s)]
          /\ \A k \in 1 .. Len(s) : g[k] = Up(g[k - 1], s[k])
  BY UpHistory
<1>2. n \in Nat /\ t \in Seq(Segments) /\ Len(t) = n + 1 /\ t[n + 1] = x
      /\ \A i \in 1 .. n : t[i] = s[i]
  BY AppendProperties
<1> HIDE DEF t
<1>3. PICK h \in [0 .. Len(t) -> Seq(Segments)] :
          /\ h[0] = start /\ FoldLeft(Up, start, t) = h[Len(t)]
          /\ \A k \in 1 .. Len(t) : h[k] = Up(h[k - 1], t[k])
  BY <1>2, UpHistory
<1>4. n \in Nat
  BY <1>2
<1> HIDE DEF n
<1> DEFINE I == {k \in 0 .. n : g[k] = h[k]}
<1>5. 0 \in I
  BY <1>1, <1>3, <1>4
<1>6. \A k \in 1 .. n : k - 1 \in I => k \in I
  <2> SUFFICES ASSUME NEW k \in 1 .. n, g[k - 1] = h[k - 1] PROVE g[k] = h[k]
    OBVIOUS
  <2>1. k \in 1 .. n + 1
    BY <1>4
  <2>2. g[k] = Up(g[k - 1], s[k])
    BY <1>1 DEF n
  <2>3. h[k] = Up(h[k - 1], t[k]) /\ t[k] = s[k]
    BY <1>2, <1>3, <2>1
  <2> QED BY <2>2, <2>3
<1>7. \A k \in 0 .. n : k \in I
  <2> HIDE DEF I
  <2> QED BY <1>4, <1>5, <1>6, Induction
<1>8. h[n] = g[n]
  BY <1>4, <1>7
<1>9. h[n + 1] = Up(h[n], x)
  <2>1. n + 1 \in 1 .. Len(t) /\ n + 1 - 1 = n
    BY <1>2, <1>4
  <2> QED BY <1>2, <1>3, <2>1
<1>10. Raised(start, t) = h[n + 1] /\ Raised(start, s) = g[n]
  BY <1>1, <1>2, <1>3 DEF Raised, n
<1> QED BY <1>8, <1>9, <1>10 DEF t

LEMMA SingletonType ==
    ASSUME NEW A, NEW c \in A
    PROVE  <<c>> \in Seq(A)
OBVIOUS

LEMMA Elements ==
    ASSUME NEW A, NEW s \in Seq(A)
    PROVE  /\ Len(s) \in Nat /\ \A i \in 1 .. Len(s) : s[i] \in A
           /\ s # <<>> => Head(s) = s[1] /\ 1 \in 1 .. Len(s)
OBVIOUS

LEMMA Narrowed ==
    ASSUME NEW A, NEW s \in Seq(A), NEW C
    PROVE  (\A i \in 1 .. Len(s) : s[i] \in C) => s \in Seq(C)
OBVIOUS

LEMMA AppendToNone ==
    ASSUME NEW c
    PROVE  /\ Append(<<>>, c) = <<c>> /\ <<c>> # <<>>
           /\ Head(<<c>>) = c /\ Tail(<<c>>) = <<>>
OBVIOUS

LEMMA ConcatAppend ==
    ASSUME NEW A, NEW s \in Seq(A), NEW z \in Seq(A), NEW e \in A
    PROVE  /\ s \o z \in Seq(A) /\ Append(z, e) \in Seq(A)
           /\ s \o Append(z, e) = Append(s \o z, e)
<1>1. s \o z \in Seq(A) /\ <<e>> \in Seq(A) /\ Append(z, e) \in Seq(A)
  BY ConcatProperties
<1>2. Append(z, e) = z \o <<e>> /\ Append(s \o z, e) = (s \o z) \o <<e>>
  BY <1>1, AppendIsConcat
<1>3. (s \o z) \o <<e>> = s \o (z \o <<e>>)
  BY <1>1, ConcatAssociative
<1> QED BY <1>1, <1>2, <1>3

LEMMA PathAppend ==
    ASSUME NEW s \in Seq(Segments), NEW z \in Seq(Segments), NEW c \in Segments
    PROVE  s \o Append(z, c) = Append(s \o z, c)
BY ConcatAppend

(* What a path is joined to matters only by what is kept of it. *)
LEMMA WalkedConcat ==
    ASSUME NEW A, NEW s \in Seq(A), NEW t \in Seq(A), Walked(s) = Walked(t), NEW y \in Seq(A)
    PROVE  Walked(s \o y) = Walked(t \o y)
<1> DEFINE S == {z \in Seq(A) : Walked(s \o z) = Walked(t \o z)}
<1>1. <<>> \in S
  <2>1. s \o <<>> = s /\ t \o <<>> = t /\ <<>> \in Seq(A)
    BY ConcatEmptySeq
  <2> QED BY <2>1
<1>2. ASSUME NEW z \in Seq(A), NEW e \in A, z \in S PROVE Append(z, e) \in S
  <2>1. /\ s \o Append(z, e) = Append(s \o z, e) /\ s \o z \in Seq(A)
        /\ t \o Append(z, e) = Append(t \o z, e) /\ t \o z \in Seq(A)
        /\ Append(z, e) \in Seq(A)
    BY ConcatAppend
  <2>2. Walked(s \o z) = Walked(t \o z)
    BY <1>2
  <2>3. Walked(Append(s \o z, e)) = Walked(Append(t \o z, e))
    BY <2>1, <2>2, WalkedOne
  <2> QED BY <2>1, <2>3
<1> HIDE DEF S
<1>3. \A z \in Seq(A) : z \in S
  BY <1>1, <1>2, SeqInduction
<1> QED BY <1>3 DEF S

LEMMA WalkedFixed ==
    ASSUME NEW A, NEW s \in Seq(A)
    PROVE  (\A i \in 1 .. Len(s) : s[i] \notin Dots) => Walked(s) = s
<1> SUFFICES ASSUME \A i \in 1 .. Len(s) : s[i] \notin Dots PROVE Walked(s) = s
  OBVIOUS
<1> DEFINE d == 0
<1>1. d \in {0, 1} /\ d # 1 /\ Len(s) = Len(s) + d /\ \A i \in 1 .. Len(s) : s[i + d] = s[i]
  OBVIOUS
<1> HIDE DEF d
<1>2. FoldLeft(Down, <<>>, s) = s
  BY <1>1, DownFixed
<1> QED BY <1>2 DEF Walked

LEMMA PrefixedFront ==
    ASSUME NEW A, NEW e \in A, NEW s \in Seq(A)
    PROVE  /\ <<e>> \o s # <<>> /\ Head(<<e>> \o s) = e /\ Tail(<<e>> \o s) = s
           /\ s = <<>> => Front(<<e>> \o s) = <<>>
           /\ s # <<>> => Front(<<e>> \o s) = <<e>> \o Front(s)
           /\ \A x \in A : Append(<<e>> \o s, x) = <<e>> \o Append(s, x)
<1> DEFINE t == <<e>> \o s
<1>1. t \in Seq(A) /\ Len(t) = Len(s) + 1 /\ t[1] = e /\ \A i \in 1 .. Len(s) : t[i + 1] = s[i]
  BY Prefixed
<1>2. Len(s) \in Nat
  OBVIOUS
<1>3. \A x \in A : Append(t, x) = <<e>> \o Append(s, x)
  <2> SUFFICES ASSUME NEW x \in A PROVE Append(t, x) = <<e>> \o Append(s, x)
    OBVIOUS
  <2>1. <<e>> \in Seq(A) /\ <<x>> \in Seq(A)
    OBVIOUS
  <2>2. Append(s, x) = s \o <<x>> /\ Append(t, x) = t \o <<x>>
    BY <1>1, AppendIsConcat
  <2>3. (<<e>> \o s) \o <<x>> = <<e>> \o (s \o <<x>>)
    BY <2>1, ConcatAssociative
  <2> QED BY <2>2, <2>3
<1> HIDE DEF t
<1>4. t # <<>> /\ Head(t) = e
  BY <1>1, <1>2
<1>5. Tail(t) = s
  <2>1. Tail(t) \in Seq(A) /\ Len(Tail(t)) = Len(t) - 1 /\ \A i \in 1 .. Len(Tail(t)) : Tail(t)[i] = t[i + 1]
    BY <1>1, <1>4, HeadTailProperties
  <2>2. Len(Tail(t)) = Len(s) /\ \A i \in 1 .. Len(s) : Tail(t)[i] = s[i]
    BY <1>1, <1>2, <2>1
  <2> QED BY <2>1, <2>2, SeqEqual
<1>6. /\ Front(t) \in Seq(A) /\ Len(Front(t)) = Len(s)
      /\ \A i \in 1 .. Len(s) : Front(t)[i] = t[i]
  <2>1. /\ Front(t) \in Seq(A) /\ Len(Front(t)) = Len(t) - 1
        /\ \A i \in 1 .. Len(t) - 1 : Front(t)[i] = t[i]
    BY <1>1, <1>4, FrontProperties
  <2>2. Len(t) - 1 = Len(s)
    BY <1>1, <1>2
  <2> QED BY <2>1, <2>2
<1>7. s = <<>> => Front(t) = <<>>
  <2> DEFINE f == Front(t)
  <2>1. f \in Seq(A) /\ Len(f) = Len(s)
    BY <1>6
  <2> HIDE DEF f
  <2>2. s = <<>> => f = <<>>
    BY <2>1
  <2> QED BY <2>2 DEF f
<1>8. ASSUME s # <<>> PROVE Front(t) = <<e>> \o Front(s)
  <2> DEFINE f == Front(s)
             h == <<e>> \o f
             k == Front(t)
  <2>1. f \in Seq(A) /\ Len(f) = Len(s) - 1 /\ \A i \in 1 .. Len(s) - 1 : f[i] = s[i]
    BY <1>8, FrontProperties
  <2>2. Len(s) \in Nat \ {0}
    BY <1>8
  <2> HIDE DEF f
  <2>3. h \in Seq(A) /\ Len(h) = Len(f) + 1 /\ h[1] = e /\ \A i \in 1 .. Len(f) : h[i + 1] = f[i]
    BY <2>1, Prefixed
  <2>4. k \in Seq(A) /\ Len(k) = Len(s) /\ \A i \in 1 .. Len(s) : k[i] = t[i]
    BY <1>6
  <2> HIDE DEF h, k
  <2>5. Len(h) = Len(s)
    BY <2>1, <2>2, <2>3
  <2>6. ASSUME NEW i \in 1 .. Len(s) PROVE h[i] = k[i]
    <3>1. CASE i = 1
      BY <1>1, <2>3, <2>4, <3>1
    <3>2. CASE i # 1
      <4>1. i - 1 \in 1 .. Len(s) - 1 /\ i - 1 + 1 = i /\ i - 1 \in 1 .. Len(s) /\ i - 1 \in 1 .. Len(f)
        BY <2>1, <2>2, <3>2
      <4>2. h[i - 1 + 1] = f[i - 1] /\ f[i - 1] = s[i - 1] /\ t[i - 1 + 1] = s[i - 1]
        BY <1>1, <2>1, <2>3, <4>1
      <4> QED BY <2>4, <4>1, <4>2
    <3> QED BY <3>1, <3>2
  <2>7. h = k
    BY <2>3, <2>4, <2>5, <2>6, SeqEqual
  <2> QED BY <2>7 DEF h, k, f
<1> QED BY <1>3, <1>4, <1>5, <1>7, <1>8 DEF t

(* What urljoin has made of the segments so far, with or without the slash *)
(* it begins with, is what normpath keeps of them.                         *)
LEMMA UpIsDown ==
    ASSUME NEW K \in Seq(Segments), NEW x \in Segments, x # "",
           NEW y, y \in {K, <<"">> \o K}
    PROVE  Up(y, x) \in {Down(K, x), <<"">> \o Down(K, x)}
<1> DEFINE e == ""
           L == <<e>> \o K
<1>1. e \in Segments
  BY SegmentAssumption
<1>2. y = K \/ y = L
  OBVIOUS
<1>3. x # e
  OBVIOUS
<1>4. /\ x = "." => Up(y, x) = y /\ Down(K, x) = K
      /\ x = ".." => /\ Up(y, x) = IF y = <<>> THEN <<>> ELSE Front(y)
                     /\ Down(K, x) = IF K = <<>> THEN <<>> ELSE Front(K)
      /\ x \notin {".", ".."} => Up(y, x) = Append(y, x) /\ Down(K, x) = Append(K, x)
  BY DEF Up, Down
<1> DEFINE U == Up(y, x)
           D == Down(K, x)
<1> HIDE DEF e, U, D
<1>5. /\ L # <<>>
      /\ K = <<>> => Front(L) = <<>>
      /\ K # <<>> => Front(L) = <<e>> \o Front(K)
      /\ Append(L, x) = <<e>> \o Append(K, x)
  BY <1>1, PrefixedFront
<1> HIDE DEF L, Front
<1>6. U = D \/ U = <<e>> \o D
  <2>1. CASE x = "."
    <3>1. U = y /\ D = K
      BY <1>4, <2>1 DEF U, D
    <3> QED BY <1>2, <3>1 DEF L
  <2>2. CASE x = ".."
    <3>1. U = (IF y = <<>> THEN <<>> ELSE Front(y)) /\ D = IF K = <<>> THEN <<>> ELSE Front(K)
      BY <1>4, <2>2 DEF U, D
    <3>2. CASE y = K
      BY <3>1, <3>2
    <3>3. CASE y = L
      <4>1. U = Front(L)
        BY <1>5, <3>1, <3>3
      <4>2. CASE K = <<>>
        BY <1>5, <3>1, <4>1, <4>2
      <4>3. CASE K # <<>>
        <5>1. D = Front(K)
          BY <3>1, <4>3
        <5> QED BY <1>5, <4>1, <4>3, <5>1
      <4> QED BY <4>2, <4>3
    <3> QED BY <1>2, <3>2, <3>3
  <2>3. CASE x \notin {".", ".."}
    <3>1. U = Append(y, x) /\ D = Append(K, x)
      BY <1>4, <2>3 DEF U, D
    <3> QED BY <1>2, <1>5, <3>1
  <2> QED BY <2>1, <2>2, <2>3
<1> QED BY <1>6 DEF U, D, e

LEMMA RaisedIsWalked ==
    ASSUME NEW q \in Seq(Segments \ {""})
    PROVE  Raised(<<"">>, q) \in {Walked(q), <<"">> \o Walked(q)}
<1> DEFINE A == Segments \ {""}
           e == ""
           S == {s \in Seq(A) : Raised(<<e>>, s) \in {Walked(s), <<e>> \o Walked(s)}}
<1>1. e \in Segments /\ A \subseteq Segments /\ \A x \in A : x \in Segments /\ x # ""
  BY SegmentAssumption
<1>2. <<e>> \in Seq(Segments) /\ <<e>> \o <<>> = <<e>>
  <2>1. <<e>> \in Seq(Segments)
    <3> HIDE DEF e
    <3> QED BY <1>1, SingletonType
  <2> DEFINE u == <<e>>
  <2> HIDE DEF u
  <2>2. u \in Seq(Segments) => u \o <<>> = u
    BY ConcatEmptySeq
  <2> QED BY <2>1, <2>2 DEF u
<1>3. <<>> \in S
  <2>1. <<>> \in Seq(A)
    <3> HIDE DEF A
    <3> QED BY EmptySeq
  <2>2. Raised(<<e>>, <<>>) = <<e>> /\ Walked(<<>>) = <<>>
    BY <1>2, RaisedNone, WalkedNone
  <2> HIDE DEF e, A
  <2> QED BY <1>2, <2>1, <2>2
<1>4. ASSUME NEW s \in Seq(A), NEW x \in A, s \in S PROVE Append(s, x) \in S
  <2>1. s \in Seq(Segments) /\ x \in Segments /\ x # "" /\ Append(s, x) \in Seq(A)
    <3>1. s \in Seq(Segments)
      <4> HIDE DEF A
      <4> QED BY <1>1, SeqMonotonic
    <3>2. Append(s, x) \in Seq(A)
      <4> HIDE DEF A
      <4> QED BY AppendProperties
    <3> QED BY <1>1, <3>1, <3>2
  <2>2. Walked(s) \in Seq(Segments)
    BY <2>1, WalkedType
  <2>3. Walked(Append(s, x)) = Down(Walked(s), x)
    BY <2>1, WalkedOne
  <2>4. Raised(<<e>>, Append(s, x)) = Up(Raised(<<e>>, s), x)
    <3> DEFINE u == <<e>>
    <3> HIDE DEF u
    <3>1. u \in Seq(Segments) => Raised(u, Append(s, x)) = Up(Raised(u, s), x)
      BY <2>1, RaisedOne
    <3> QED BY <1>2, <3>1 DEF u
  <2>5. Raised(<<e>>, s) \in {Walked(s), <<"">> \o Walked(s)}
    BY <1>4
  <2>6. Up(Raised(<<e>>, s), x) \in {Down(Walked(s), x), <<"">> \o Down(Walked(s), x)}
    BY <2>1, <2>2, <2>5, UpIsDown
  <2> QED BY <2>1, <2>3, <2>4, <2>6
<1> HIDE DEF S
<1>5. \A s \in Seq(A) : s \in S
  <2> HIDE DEF A
  <2> QED BY <1>3, <1>4, SeqInduction
<1>6. q \in S
  BY <1>5
<1> QED BY <1>6 DEF S

LEMMA FrontAndLast ==
    ASSUME NEW A, NEW s \in Seq(A)
    PROVE  /\ \A x \in A : Append(s, x) # <<>> /\ Front(Append(s, x)) = s /\ Last(Append(s, x)) = x
           /\ s # <<>> => Last(s) \in A /\ Front(s) \in Seq(A) /\ s = Append(Front(s), Last(s))
<1>1. Len(s) \in Nat
  OBVIOUS
<1>2. ASSUME NEW x \in A
      PROVE  Append(s, x) # <<>> /\ Front(Append(s, x)) = s /\ Last(Append(s, x)) = x
  <2> DEFINE t == Append(s, x)
  <2>1. t \in Seq(A) /\ t # <<>> /\ Len(t) = Len(s) + 1 /\ t[Len(s) + 1] = x
        /\ \A i \in 1 .. Len(s) : t[i] = s[i]
    BY AppendProperties
  <2> HIDE DEF t
  <2>2. Last(t) = x
    BY <2>1 DEF Last
  <2> DEFINE f == Front(t)
  <2>3. f \in Seq(A) /\ Len(f) = Len(t) - 1 /\ \A i \in 1 .. Len(t) - 1 : f[i] = t[i]
    BY <2>1, FrontProperties
  <2> HIDE DEF f
  <2>4. Len(f) = Len(s) /\ \A i \in 1 .. Len(s) : f[i] = s[i]
    BY <1>1, <2>1, <2>3
  <2>5. f = s
    BY <2>3, <2>4, SeqEqual
  <2> QED BY <2>1, <2>2, <2>5 DEF t, f
<1>3. ASSUME s # <<>>
      PROVE  Last(s) \in A /\ Front(s) \in Seq(A) /\ s = Append(Front(s), Last(s))
  <2>1. PICK u \in Seq(A), e \in A : s = Append(u, e)
    BY <1>3, SequenceEmptyOrAppend
  <2> DEFINE f == Front(s)
             l == Last(s)
             t == Append(f, l)
  <2>2. f \in Seq(A) /\ Len(f) = Len(s) - 1 /\ \A i \in 1 .. Len(s) - 1 : f[i] = s[i]
    BY <1>3, FrontProperties
  <2>3. l = s[Len(s)] /\ Len(s) \in Nat \ {0} /\ l \in A
    BY <1>3 DEF Last
  <2> HIDE DEF f, l
  <2>4. t \in Seq(A) /\ Len(t) = Len(f) + 1 /\ t[Len(f) + 1] = l
        /\ \A i \in 1 .. Len(f) : t[i] = f[i]
    BY <2>2, <2>3, AppendProperties
  <2> HIDE DEF t
  <2>5. Len(t) = Len(s) /\ \A i \in 1 .. Len(s) : t[i] = s[i]
    <3>1. \A i \in 1 .. Len(s) : i = Len(s) \/ i \in 1 .. Len(s) - 1
      BY <2>3
    <3> QED BY <2>2, <2>3, <2>4, <3>1
  <2>6. t = s
    BY <2>4, <2>5, SeqEqual
  <2> QED BY <2>2, <2>3, <2>6 DEF t, f, l
<1> QED BY <1>2, <1>3

LEMMA Lengths ==
    \A n, m, a, b :
        n \in Nat /\ m = n + 1 /\ a = 1 + n /\ b = 1 + m
        => /\ a = n + 1 /\ b = m + 1
OBVIOUS

LEMMA Longer ==
    \A n, m, a, b :
        n \in Nat /\ m = n + 1 /\ a = n + 1 /\ b = m + 1
        => /\ n = 0 => ~(n > 1) /\ ~(m > 1) /\ b > 1
           /\ n # 0 => a > 1 /\ b > 1
OBVIOUS

(* What urljoin leaves is what normpath keeps, and perhaps a slash.        *)
LEMMA LeftIsWalked ==
    ASSUME NEW q \in Seq(Segments \ {""}), NEW x \in Segments
    PROVE  LET left == FoldLeft(Up, <<"">>, Append(q, x))
               whole == IF x \in {".", ".."} THEN Append(left, "") ELSE left
               W == Walked(Append(q, x))
           IN  (IF Len(whole) > 1 /\ Head(whole) = "" THEN Tail(whole) ELSE whole)
               \in {W, Append(W, "")}
<1> DEFINE e == ""
           u == <<e>>
           left == FoldLeft(Up, u, Append(q, x))
           whole == IF x \in {".", ".."} THEN Append(left, e) ELSE left
           W == Walked(Append(q, x))
           K == Walked(q)
           y == Raised(u, q)
           Strip(s) == IF Len(s) > 1 /\ Head(s) = e THEN Tail(s) ELSE s
<1>1. e \in Segments /\ Segments \ {""} \subseteq Segments
  BY SegmentAssumption
<1>2. q \in Seq(Segments) /\ u \in Seq(Segments)
  <2> DEFINE A == Segments \ {""}
  <2>1. q \in Seq(A)
    OBVIOUS
  <2> HIDE DEF A, e
  <2> QED BY <1>1, <2>1, SeqMonotonic, SingletonType DEF A
<1>3. y = K \/ y = u \o K
  BY RaisedIsWalked
<1> HIDE DEF u
<1>4. left = Up(y, x) /\ W = Down(K, x)
  <2>1. Raised(u, Append(q, x)) = Up(Raised(u, q), x)
    BY <1>2, RaisedOne
  <2>2. W = Down(K, x)
    BY <1>2, WalkedOne
  <2> QED BY <2>1, <2>2 DEF Raised
<1>5. K \in Seq(Segments) /\ (\A i \in 1 .. Len(K) : K[i] # e)
      /\ W \in Seq(Segments) /\ (\A i \in 1 .. Len(W) : W[i] # e)
  <2>1. Append(q, x) \in Seq(Segments)
    BY <1>2, AppendProperties
  <2> QED BY <1>2, <2>1, WalkedType DEF Dots
<1>f. (x # e /\ x \notin {".", ".."}) \/ x = e \/ (x # e /\ x \in {".", ".."})
  OBVIOUS
<1> HIDE DEF left, W, K, y
<1>6. ASSUME NEW s \in Seq(Segments), \A i \in 1 .. Len(s) : s[i] # e
      PROVE  /\ Strip(s) = s /\ Strip(u \o s) \in {s, Append(s, e)}
             /\ Strip(Append(s, e)) = Append(s, e)
             /\ Strip(u \o Append(s, e)) = Append(s, e)
  <2> DEFINE t == Append(s, e)
  <2> HIDE DEF e
  <2>1. s # <<>> => Head(s) = s[1] /\ 1 \in 1 .. Len(s) /\ Head(t) = Head(s)
    BY <1>1, Elements, HeadTailAppend
  <2>2. u \o s # <<>> /\ Head(u \o s) = e /\ Tail(u \o s) = s
    BY <1>1, PrefixedFront DEF u, e
  <2>3. t \in Seq(Segments) /\ t # <<>> /\ Len(t) = Len(s) + 1 /\ Len(s) \in Nat
    BY <1>1, AppendProperties, Elements
  <2>4. u \o t # <<>> /\ Head(u \o t) = e /\ Tail(u \o t) = t
    BY <1>1, <2>3, PrefixedFront DEF u, e
  <2>5. Len(u) = 1 /\ Len(u \o s) = Len(s) + 1 /\ Len(u \o t) = Len(t) + 1
    <3>1. Len(u) = 1
      BY DEF u
    <3>2. Len(u \o s) = Len(u) + Len(s) /\ Len(u \o t) = Len(u) + Len(t)
      <4> HIDE DEF t
      <4> QED BY <1>2, <2>3, ConcatProperties
    <3> HIDE DEF t, u
    <3>3. Len(u \o s) = 1 + Len(s) /\ Len(u \o t) = 1 + Len(t)
      BY <3>1, <3>2, Zenon
    <3>4. Len(u \o s) = Len(s) + 1 /\ Len(u \o t) = Len(t) + 1
      BY <2>3, <3>3, Lengths, Zenon
    <3> QED BY <3>1, <3>4, Zenon
  <2>6. s = <<>> => t = u /\ u \o s = u /\ Len(s) = 0
    <3> SUFFICES ASSUME s = <<>> PROVE t = u /\ u \o s = u /\ Len(s) = 0
      OBVIOUS
    <3>1. t = u
      BY AppendToNone DEF u
    <3>2. u \o s = u
      BY <1>2, ConcatEmptySeq
    <3> QED BY <3>1, <3>2
  <2> HIDE DEF t, u
  <2>7. /\ s = <<>> <=> Len(s) = 0
        /\ Len(s) = 0 => ~(Len(s) > 1) /\ ~(Len(t) > 1) /\ Len(u \o t) > 1
        /\ Len(s) # 0 => Len(u \o s) > 1 /\ Len(u \o t) > 1
    <3>1. s = <<>> => Len(s) = 0
      BY <2>6, Zenon
    <3>2. s # <<>> => Len(s) # 0
      <4>1. s # <<>> => Len(s) \in Nat \ {0}
        BY EmptySeq, Zenon
      <4> QED BY <4>1, Zenon
    <3>3. /\ Len(s) = 0 => ~(Len(s) > 1) /\ ~(Len(t) > 1) /\ Len(u \o t) > 1
          /\ Len(s) # 0 => Len(u \o s) > 1 /\ Len(u \o t) > 1
      BY <2>3, <2>5, Longer, Zenon
    <3> QED BY <3>1, <3>2, <3>3, Zenon
  <2>8. CASE s = <<>>
    <3>1. Strip(s) = s /\ Strip(t) = t
      BY <2>7, <2>8, Zenon
    <3>2. Strip(u \o s) = t
      BY <3>1, <2>6, <2>8, Zenon
    <3>3. Strip(u \o t) = t
      BY <2>4, <2>7, <2>8, Zenon
    <3> QED BY <3>1, <3>2, <3>3 DEF t
  <2>9. CASE s # <<>>
    <3>1. Head(s) # e /\ Head(t) # e
      BY <1>6, <2>1, <2>9
    <3>2. Strip(s) = s /\ Strip(t) = t
      BY <3>1, Zenon
    <3>3. Strip(u \o s) = s /\ Strip(u \o t) = t
      BY <2>2, <2>4, <2>7, <2>9, Zenon
    <3> QED BY <3>2, <3>3 DEF t
  <2> QED BY <2>8, <2>9
<1>7. x # e => left \in {W, u \o W}
  <2> SUFFICES ASSUME x # e PROVE left \in {W, u \o W}
    OBVIOUS
  <2>1. y \in {K, <<"">> \o K}
    BY <1>3 DEF u
  <2>2. Up(y, x) \in {Down(K, x), <<"">> \o Down(K, x)}
    BY <1>5, <2>1, UpIsDown
  <2> QED BY <1>4, <2>2 DEF u
<1>8. CASE x # e /\ x \notin {".", ".."}
  <2>1. whole = left /\ left \in {W, u \o W}
    BY <1>7, <1>8
  <2>2. Strip(W) = W /\ Strip(u \o W) \in {W, Append(W, e)}
    BY <1>5, <1>6
  <2> HIDE DEF Strip, whole
  <2>3. Strip(whole) \in {W, Append(W, e)}
    BY <2>1, <2>2
  <2> QED BY <2>3 DEF left, whole, W, u, Strip
<1>9. CASE x # e /\ x \in {".", ".."}
  <2>1. whole = Append(left, e) /\ left \in {W, u \o W}
    BY <1>7, <1>9
  <2>2. Append(u \o W, e) = u \o Append(W, e)
    <3> HIDE DEF e
    <3> QED BY <1>1, <1>2, <1>5, PathAppend
  <2>3. Strip(Append(W, e)) = Append(W, e) /\ Strip(u \o Append(W, e)) = Append(W, e)
    BY <1>5, <1>6
  <2> HIDE DEF Strip, whole
  <2>4. Strip(whole) = Append(W, e)
    BY <2>1, <2>2, <2>3
  <2> QED BY <2>4 DEF left, whole, W, u, Strip
<1>10. CASE x = e
  <2>1. left = Append(y, e) /\ W = K
    BY <1>4, <1>10 DEF Up, Down
  <2>2. whole = left
    BY <1>10
  <2>3. Append(u \o K, e) = u \o Append(K, e)
    <3> HIDE DEF e
    <3> QED BY <1>1, <1>2, <1>5, PathAppend
  <2>4. Strip(Append(K, e)) = Append(K, e) /\ Strip(u \o Append(K, e)) = Append(K, e)
    BY <1>5, <1>6
  <2> HIDE DEF Strip, whole
  <2>5. Strip(whole) = Append(W, e)
    BY <1>3, <2>1, <2>2, <2>3, <2>4
  <2> QED BY <2>5 DEF left, whole, W, u, Strip
<1> QED BY <1>f, <1>8, <1>9, <1>10

LEMMA NormOfWalked ==
    ASSUME NEW W \in Seq(Segments)
    PROVE  (\A i \in 1 .. Len(W) : W[i] \notin Dots)
           => NormPath(W) = W /\ NormPath(Append(W, "")) = W
<1> DEFINE e == ""
           t == Append(W, e)
<1>0. SUFFICES ASSUME \A i \in 1 .. Len(W) : W[i] \notin Dots
               PROVE  NormPath(W) = W /\ NormPath(t) = W
  OBVIOUS
<1>e. e \in Segments
  BY SegmentAssumption
<1>1. e \in Segments /\ Len(W) \in Nat
  BY <1>e, Elements
<1>2. t \in Seq(Segments) /\ Len(t) = Len(W) + 1 /\ \A i \in 1 .. Len(W) : t[i] = W[i]
  <2> HIDE DEF e
  <2> QED BY <1>1, AppendProperties
<1>3. Walked(W) = W
  BY <1>0, WalkedFixed
<1>4. Walked(t) = W
  <2>1. Walked(t) = Down(Walked(W), e)
    BY <1>1, WalkedOne
  <2>2. Down(Walked(W), e) = Walked(W)
    BY DEF Down
  <2> QED BY <1>3, <2>1, <2>2
<1>5. \A i \in 1 .. Len(W) : W[i] # e
  BY <1>0 DEF Dots
<1> HIDE DEF e, t
<1>6. ~(Len(W) > 1 /\ W[1] = e) /\ ~(Len(t) > 1 /\ t[1] = e)
  BY <1>1, <1>2, <1>5
<1>7. ~TwoSlashes(W) /\ ~TwoSlashes(t)
  BY <1>6 DEF TwoSlashes, e
<1> QED BY <1>3, <1>4, <1>7 DEF NormPath, Walked, t, e

LEMMA JoinedIsWalked ==
    ASSUME NEW base, NEW above \in Seq(Segments \ {""}),
           NEW path \in Seq(Segments), path # <<>>
    PROVE  (/\ above = IF base = <<>> THEN <<>> ELSE Front(base)
            /\ \A i \in 1 .. Len(path) - 1 : path[i] # "")
           => JoinPaths(base, "relative", path)
              \in {Walked(above \o path), Append(Walked(above \o path), "")}
<1> DEFINE A == Segments \ {""}
           f == Front(path)
           x == Last(path)
           q == above \o f
<1>0. SUFFICES ASSUME above = (IF base = <<>> THEN <<>> ELSE Front(base)),
                      \A i \in 1 .. Len(path) - 1 : path[i] # ""
               PROVE  JoinPaths(base, "relative", path)
                      \in {Walked(above \o path), Append(Walked(above \o path), "")}
  OBVIOUS
<1>1. x \in Segments /\ f \in Seq(Segments) /\ path = Append(f, x) /\ A \subseteq Segments
  BY FrontAndLast
<1>2. f \in Seq(A) /\ above \in Seq(A)
  <2>1. Len(f) = Len(path) - 1 /\ \A i \in 1 .. Len(path) - 1 : f[i] = path[i]
    BY FrontProperties
  <2> HIDE DEF f
  <2>2. Len(f) \in Nat /\ \A i \in 1 .. Len(f) : f[i] \in Segments
    BY <1>1, Elements
  <2>3. \A i \in 1 .. Len(f) : f[i] \in A
    <3>1. \A i \in 1 .. Len(f) : f[i] = path[i] /\ path[i] # ""
      BY <1>0, <2>1
    <3> QED BY <2>2, <3>1
  <2> HIDE DEF A
  <2>4. f \in Seq(A)
    BY <1>1, <2>3, Narrowed
  <2> QED BY <2>4 DEF A
<1> HIDE DEF f, x, A
<1>3. q \in Seq(A)
  BY <1>2, ConcatProperties
<1>4. Among(q, A) = q
  <2> HIDE DEF q
  <2>1. \A i \in 1 .. Len(q) : q[i] \in A
    BY <1>3, Elements
  <2> QED BY <1>3, <2>1, AmongAll
<1>5. above \o path = Append(q, x)
  <2>1. above \in Seq(Segments)
    BY <1>1, <1>2, SeqMonotonic
  <2>2. f \in Seq(Segments) /\ x \in Segments
    BY <1>1
  <2>3. above \o Append(f, x) = Append(above \o f, x)
    BY <2>1, <2>2, PathAppend
  <2> QED BY <1>1, <2>3
<1>6. JoinPaths(base, "relative", path)
      = LET left == FoldLeft(Up, <<"">>, Append(q, x))
            whole == IF x \in {".", ".."} THEN Append(left, "") ELSE left
        IN  IF Len(whole) > 1 /\ Head(whole) = "" THEN Tail(whole) ELSE whole
  BY <1>0, <1>4 DEF JoinPaths, A, f, x
<1>7. q \in Seq(Segments \ {""})
  BY <1>3 DEF A
<1> HIDE DEF q
<1> QED BY <1>1, <1>5, <1>6, <1>7, LeftIsWalked

LEMMA Unwanted ==
    ASSUME NEW q \in Seq(Params)
    PROVE  NormalizeQuery(q) = <<>> <=> \A i \in 1 .. Len(q) : q[i].key \in Tracking
<1> DEFINE r == NormalizeQuery(q)
<1>1. r \in Seq(Params) /\ \A x : Count(r, x) = IF x \in Wanted(q) THEN Count(q, x) ELSE 0
  BY NormalizedQuery, QueryCount
<1> HIDE DEF r
<1>2. \A x : Count(r, x) = 0 <=> x \notin ToSet(r)
  BY <1>1, CountType
<1>3. \A x : Count(q, x) = 0 <=> x \notin ToSet(q)
  BY CountType
<1>4. ToSet(r) = {r[i] : i \in 1 .. Len(r)} /\ ToSet(q) = {q[i] : i \in 1 .. Len(q)}
  BY <1>1 DEF ToSet
<1>5. Wanted(q) = {p \in ToSet(q) : p.key \notin Tracking}
  BY DEF Wanted
<1>6. ASSUME r = <<>>, NEW i \in 1 .. Len(q), q[i].key \notin Tracking PROVE FALSE
  <2>1. q[i] \in Wanted(q) /\ q[i] \in ToSet(q)
    BY <1>4, <1>5, <1>6
  <2>2. q[i] \in ToSet(r)
    BY <1>1, <1>2, <1>3, <2>1
  <2>3. PICK k \in 1 .. Len(r) : TRUE
    BY <1>4, <2>2
  <2>4. Len(r) = 0
    BY <1>6
  <2> QED BY <2>3, <2>4
<1>7. ASSUME \A i \in 1 .. Len(q) : q[i].key \in Tracking, r # <<>> PROVE FALSE
  <2>1. r[1] \in ToSet(r)
    BY <1>1, <1>4, <1>7, Elements
  <2>2. r[1] \in Wanted(q)
    BY <1>1, <1>2, <2>1
  <2>3. \A p \in Wanted(q) : p \in ToSet(q) /\ p.key \notin Tracking
    BY <1>5
  <2>4. \A p \in ToSet(q) : p.key \in Tracking
    BY <1>4, <1>7
  <2> QED BY <2>2, <2>3, <2>4
<1> QED BY <1>6, <1>7 DEF r

(* Reading entities changes no key. *)
LEMMA UnescapeUnwanted ==
    ASSUME NEW q \in Seq(Params), NormalizeQuery(q) = <<>>
    PROVE  NormalizeQuery(Unescape(q)) = <<>>
<1>1. \A i \in 1 .. Len(q) : q[i].key \in Tracking
  BY Unwanted
<1>2. PICK g \in [0 .. Len(q) -> Seq(Params)] :
          /\ g[0] = <<>> /\ Unescape(q) = g[Len(q)]
          /\ \A k \in 1 .. Len(q) : g[k] = Read(g[k - 1], q[k])
  BY UnescapeHistory
<1>3. Len(q) \in Nat /\ \A k \in 1 .. Len(q) : q[k] \in Params
  BY Elements
<1> DEFINE I == {k \in 0 .. Len(q) : \A i \in 1 .. Len(g[k]) : g[k][i].key \in Tracking}
<1>4. 0 \in I
  BY <1>2, <1>3
<1>5. \A k \in 1 .. Len(q) : k - 1 \in I => k \in I
  <2> SUFFICES ASSUME NEW k \in 1 .. Len(q), k - 1 \in I PROVE k \in I
    OBVIOUS
  <2> DEFINE done == g[k - 1]
             p == q[k]
             t == g[k]
  <2>1. k - 1 \in 0 .. Len(q)
    BY <1>3
  <2>2. done \in Seq(Params) /\ p.key \in Tracking /\ p \in Params /\ t = Read(done, p)
    BY <1>1, <1>2, <1>3, <2>1
  <2>3. \A i \in 1 .. Len(done) : done[i].key \in Tracking
    OBVIOUS
  <2> HIDE DEF done, p, t
  <2>4. \A i \in 1 .. Len(t) : t[i].key \in Tracking
    <3>1. CASE done # <<>> /\ p.key \in EntityKeys
      <4>1. t = [done EXCEPT ![Len(done)].value = @ \o <<Sign(p.key)>> \o p.value]
        BY <2>2, <3>1 DEF Read
      <4>2. Len(t) = Len(done) /\ \A i \in 1 .. Len(done) : t[i].key = done[i].key
        <5> DEFINE n == Len(done)
                   v == done[n].value \o <<Sign(p.key)>> \o p.value
        <5>1. n \in 1 .. Len(done) /\ done[n] \in Params
          BY <2>2, <3>1
        <5>2. t = [done EXCEPT ![n] = [done[n] EXCEPT !.value = v]]
          BY <4>1
        <5> HIDE DEF v
        <5>3. [done[n] EXCEPT !.value = v].key = done[n].key
          BY <5>1 DEF Params
        <5> HIDE DEF n
        <5> DEFINE e == [done[n] EXCEPT !.value = v]
        <5> HIDE DEF e
        <5>4. Len(t) = Len(done) /\ \A i \in 1 .. Len(done) : t[i] = IF i = n THEN e ELSE done[i]
          BY <2>2, <5>1, <5>2 DEF e
        <5> QED BY <5>3, <5>4 DEF e
      <4> QED BY <2>3, <4>2
    <3>2. CASE ~(done # <<>> /\ p.key \in EntityKeys)
      <4>1. t = Append(done, p)
        BY <2>2, <3>2 DEF Read
      <4>2. Len(t) = Len(done) + 1 /\ t[Len(done) + 1] = p /\ Len(done) \in Nat
            /\ \A i \in 1 .. Len(done) : t[i] = done[i]
        BY <2>2, <4>1, AppendProperties
      <4>3. \A i \in 1 .. Len(t) : i = Len(done) + 1 \/ i \in 1 .. Len(done)
        BY <4>2
      <4> QED BY <2>2, <2>3, <4>2, <4>3
    <3> QED BY <3>1, <3>2
  <2> QED BY <2>4 DEF t
<1>6. \A k \in 0 .. Len(q) : k \in I
  <2> HIDE DEF I
  <2> QED BY <1>3, <1>4, <1>5, Induction
<1>7. \A i \in 1 .. Len(Unescape(q)) : Unescape(q)[i].key \in Tracking
  <2>1. Len(q) \in I
    BY <1>3, <1>6
  <2> QED BY <1>2, <2>1
<1> QED BY <1>7, UnescapeType, Unwanted
=============================================================================
