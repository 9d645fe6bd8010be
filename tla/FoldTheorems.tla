----------------------------- MODULE FoldTheorems -----------------------------
(***************************************************************************)
(* Induction over the natural numbers, and the folds of the community       *)
(* modules.                                                                 *)
(*                                                                          *)
(* The induction theorems of the library take an operator as parameter.     *)
(* Here it is a set, which the provers can instantiate: that finite sets    *)
(* are well-founded under strict inclusion says it of the sets 1..n.        *)
(*                                                                          *)
(* FoldLeft(op, base, seq) is a recursive function on the sets of positions *)
(* of seq.  FoldRuns says that such a function exists, with op as a         *)
(* function, so that the one that CHOOSE takes satisfies the equation.      *)
(* The same for Only (Lists), of which the rest is what a filter of a list  *)
(* does to its elements and to its parts.                                   *)
(***************************************************************************)
EXTENDS Lists, FiniteSetTheorems, SequenceTheorems, WellFoundedInduction, TLAPS

\* A set of natural numbers that is not empty has a least element.
LEMMA LeastNat ==
    ASSUME NEW T \in SUBSET Nat, T # {}
    PROVE  \E x \in T : \A y \in T : x <= y
  <1> DEFINE I == {1..n : n \in T}
  <1>1. I \subseteq FiniteSubsetsOf(Nat) /\ I # {}
    <2>1. ASSUME NEW n \in T PROVE IsFiniteSet(1..n) /\ 1..n \in SUBSET Nat
      BY FS_Interval
    <2> QED BY <2>1 DEF FiniteSubsetsOf
  <1>2. IsWellFoundedOn(StrictSubsetOrdering(Nat), FiniteSubsetsOf(Nat))
    BY FS_StrictSubsetOrderingWellFounded
  <1> HIDE DEF I
  <1>3. PICK S \in I : \A U \in I : ~ (<<U, S>> \in StrictSubsetOrdering(Nat))
    BY <1>1, <1>2, WFMin
  <1>4. PICK x \in T : S = 1..x
    BY DEF I
  <1>5. ASSUME NEW y \in T, ~(x <= y) PROVE FALSE
    <2>1. 1..y \in I
      BY DEF I
    <2>2. 1..y \subseteq 1..x /\ x \in 1..x /\ x \notin 1..y /\ x \in Nat /\ y \in Nat
      BY <1>5
    <2>3. <<1..y, S>> \in StrictSubsetOrdering(Nat)
      BY <1>4, <2>2 DEF StrictSubsetOrdering
    <2> QED BY <1>3, <2>1, <2>3
  <1> QED BY <1>5

\* A set that contains 0 and with each number the next one is that of all natural numbers.
LEMMA NatSet ==
    ASSUME NEW T \in SUBSET Nat, 0 \in T, \A n \in T : n + 1 \in T
    PROVE  T = Nat
  <1> SUFFICES ASSUME Nat \ T # {} PROVE FALSE
    OBVIOUS
  <1>1. PICK x \in Nat \ T : \A y \in Nat \ T : x <= y
    BY LeastNat
  <1>2. x - 1 \in Nat /\ x - 1 \in T
    BY <1>1
  <1> QED BY <1>1, <1>2

-----------------------------------------------------------------------------
(* Maxima and minima. *)

LEMMA MaxIs ==
    ASSUME NEW S \in SUBSET Int, NEW x \in S, \A y \in S : y <= x
    PROVE  Max(S) = x
  <1>1. Max(S) \in S /\ \A y \in S : Max(S) >= y
    BY DEF Max
  <1>2. Max(S) \in Int /\ x \in Int /\ Max(S) <= x /\ x <= Max(S)
    BY <1>1
  <1> HIDE DEF Max
  <1> QED BY <1>2

LEMMA MinIs ==
    ASSUME NEW S \in SUBSET Int, NEW x \in S, \A y \in S : x <= y
    PROVE  Min(S) = x
  <1>1. Min(S) \in S /\ \A y \in S : Min(S) <= y
    BY DEF Min
  <1>2. Min(S) \in Int /\ x \in Int /\ Min(S) <= x /\ x <= Min(S)
    BY <1>1
  <1> HIDE DEF Min
  <1> QED BY <1>2

LEMMA MinOfNats ==
    ASSUME NEW S \in SUBSET Nat, S # {}
    PROVE  Min(S) \in S /\ \A y \in S : Min(S) <= y
  <1>1. \E x \in S : \A y \in S : x <= y
    BY LeastNat
  <1> QED BY <1>1 DEF Min

LEMMA MaxOfNats ==
    ASSUME NEW n \in Nat, NEW S \in SUBSET (1..n), S # {}
    PROVE  Max(S) \in S /\ \A y \in S : y <= Max(S)
  <1> DEFINE U == {m \in Nat : \A y \in S : y <= m}
  <1>1. U \in SUBSET Nat /\ n \in U
    OBVIOUS
  <1> HIDE DEF U
  <1>2. PICK x \in U : \A m \in U : x <= m
    BY <1>1, LeastNat
  <1>3. x \in Nat /\ \A y \in S : y <= x /\ y \in Nat
    BY <1>2 DEF U
  <1>4. x \in S
    <2> SUFFICES ASSUME x \notin S PROVE FALSE
      OBVIOUS
    <2>1. \A y \in S : y <= x - 1
      BY <1>3
    <2>2. x - 1 \in Nat
      <3>1. PICK y \in S : TRUE
        OBVIOUS
      <3> QED BY <1>3, <2>1, <3>1
    <2>3. x - 1 \in U
      BY <2>1, <2>2 DEF U
    <2> QED BY <1>2, <1>3, <2>3
  <1>5. Max(S) = x
    BY <1>3, <1>4, MaxIs
  <1> QED BY <1>3, <1>4, <1>5

-----------------------------------------------------------------------------
(* Folds. *)

\* h[S] is what comes of base when step is applied to the positions in S, of the first m.
FoldsTo(h, base, step, m) ==
    \A S \in SUBSET (1..m) : h[S] = IF S = {} THEN base
                                     ELSE step[<<h[S \ {Max(S)}], Max(S)>>]

LEMMA FoldRuns ==
    ASSUME NEW X, NEW n \in Nat, NEW base \in X, NEW step \in [X \X (1..n) -> X]
    PROVE  \E h \in [SUBSET (1..n) -> X] : FoldsTo(h, base, step, n)
  <1> DEFINE Has(m) == \E h \in [SUBSET (1..m) -> X] : FoldsTo(h, base, step, m)
             T == {m \in Nat : m <= n => Has(m)}
  <1>1. 0 \in T
    <2> DEFINE h == [S \in SUBSET (1..0) |-> base]
    <2>1. SUBSET (1..0) = {{}}
      OBVIOUS
    <2>2. h \in [SUBSET (1..0) -> X] /\ FoldsTo(h, base, step, 0)
      BY <2>1 DEF FoldsTo
    <2> HIDE DEF h
    <2> QED BY <2>2
  <1>2. ASSUME NEW m \in T PROVE m + 1 \in T
    <2> SUFFICES ASSUME m + 1 <= n PROVE Has(m + 1)
      <3> HIDE DEF Has
      <3> QED OBVIOUS
    <2>0. Has(m)
      <3> HIDE DEF Has
      <3> QED OBVIOUS
    <2>1. PICK h \in [SUBSET (1..m) -> X] : FoldsTo(h, base, step, m)
      BY <2>0
    <2> DEFINE D == SUBSET (1..(m + 1))
               g == [S \in D |-> IF m + 1 \in S THEN step[<<h[S \ {m + 1}], m + 1>>]
                                 ELSE h[S]]
    <2>2. /\ m \in Nat /\ m + 1 \in 1..n
          /\ \A S \in D : S \ {m + 1} \in SUBSET (1..m)
          /\ \A S \in SUBSET (1..m) : S \in D /\ m + 1 \notin S
      OBVIOUS
    <2>3. ASSUME NEW S \in D, m + 1 \in S
          PROVE  Max(S) = m + 1
      BY <2>3, <2>2, MaxIs
    <2>4. \A S \in D : m + 1 \notin S => S \in SUBSET (1..m)
      BY <2>2
    <2>5. \A S \in SUBSET (1..m) : g[S] = h[S] /\ h[S] \in X
      BY <2>1, <2>2
    <2> HIDE DEF D
    <2>6. ASSUME NEW S \in D
          PROVE  /\ g[S] \in X
                 /\ g[S] = IF S = {} THEN base ELSE step[<<g[S \ {Max(S)}], Max(S)>>]
      <3>1. CASE m + 1 \in S
        <4>1. g[S] = step[<<h[S \ {m + 1}], m + 1>>]
          BY <3>1
        <4>2. g[S \ {m + 1}] = h[S \ {m + 1}] /\ h[S \ {m + 1}] \in X
          BY <2>2, <2>5
        <4> HIDE DEF g
        <4>3. g[S] \in X
          BY <2>2, <4>1, <4>2
        <4> QED BY <2>3, <3>1, <4>1, <4>2, <4>3
      <3>2. CASE m + 1 \notin S
        <4>1. S \in SUBSET (1..m) /\ S \ {Max(S)} \in SUBSET (1..m)
          BY <2>4, <3>2
        <4>2. /\ g[S] = h[S] /\ h[S] \in X
              /\ g[S \ {Max(S)}] = h[S \ {Max(S)}]
          BY <2>5, <4>1
        <4>3. h[S] = IF S = {} THEN base ELSE step[<<h[S \ {Max(S)}], Max(S)>>]
          BY <2>1, <4>1 DEF FoldsTo
        <4> HIDE DEF g
        <4> QED BY <4>2, <4>3
      <3> QED BY <3>1, <3>2
    <2>7. g \in [D -> X]
      BY <2>6
    <2> HIDE DEF g
    <2>8. FoldsTo(g, base, step, m + 1)
      BY <2>6 DEF FoldsTo, D
    <2> QED BY <2>7, <2>8 DEF D
  <1>3. T = Nat
    <2> HIDE DEF T
    <2>1. T \in SUBSET Nat
      BY DEF T
    <2> QED BY <1>1, <1>2, <2>1, NatSet
  <1>4. n \in T /\ n <= n
    <2> HIDE DEF T
    <2> QED BY <1>3
  <1>5. Has(n)
    <2> HIDE DEF Has
    <2> QED BY <1>4
  <1> QED BY <1>5

\* The function takes one position after the other.
LEMMA FoldStep ==
    ASSUME NEW k \in Nat
    PROVE  /\ Max(1..(k + 1)) = k + 1 /\ (1..(k + 1)) \ {k + 1} = 1..k
           /\ 1..(k + 1) # {} /\ 1..0 = {}
  <1>1. Max(1..(k + 1)) = k + 1
    <2> DEFINE S == 1..(k + 1)
    <2>1. S \in SUBSET Int /\ k + 1 \in S /\ \A y \in S : y <= k + 1
      OBVIOUS
    <2> HIDE DEF S
    <2> QED BY <2>1, MaxIs DEF S
  <1> QED BY <1>1

-----------------------------------------------------------------------------
(* The elements of a list that are in a set. *)

\* The function on the sets of positions that the fold of Only is.
OnlyAlong(s, S) ==
    CHOOSE it : it = [T \in SUBSET DOMAIN s |->
        IF T = {} THEN <<>> ELSE IF s[Max(T)] \in S THEN Append(it[T \ {Max(T)}], s[Max(T)])
                                 ELSE it[T \ {Max(T)}]]

LEMMA OnlyIs ==
    ASSUME NEW s, NEW S
    PROVE  Only(s, S) = OnlyAlong(s, S)[DOMAIN s]
  BY DEF Only, FoldLeft, MapThenFoldSet, OnlyAlong

\* p is what is chosen of s, position by position.
Chooses(p, s, S) ==
    p[0] = <<>> /\ \A k \in 1..Len(s) :
        p[k] = IF s[k] \in S THEN Append(p[k - 1], s[k]) ELSE p[k - 1]

LEMMA OnlyRuns ==
    ASSUME NEW X, NEW s \in Seq(X), NEW S
    PROVE  \E p \in [0..Len(s) -> Seq(X)] : Chooses(p, s, S) /\ Only(s, S) = p[Len(s)]
  <1> DEFINE n == Len(s)
             Y == Seq(X)
             step == [q \in Y \X (1..n) |-> IF s[q[2]] \in S THEN Append(q[1], s[q[2]]) ELSE q[1]]
  <1>1. n \in Nat /\ DOMAIN s = 1..n /\ \A i \in 1..n : s[i] \in X
    BY LenProperties, ElementOfSeq
  <1>2. ASSUME NEW l \in Y, NEW i \in 1..n PROVE Append(l, s[i]) \in Y
    BY <1>1, AppendProperties
  <1>3. step \in [Y \X (1..n) -> Y]
    BY <1>2
  <1>4. \A l \in Y : \A i \in 1..n : step[<<l, i>>] = IF s[i] \in S THEN Append(l, s[i]) ELSE l
    OBVIOUS
  <1>5. ASSUME NEW T \in SUBSET (1..n), T # {}
        PROVE  Max(T) \in 1..n /\ T \ {Max(T)} \in SUBSET (1..n)
    BY <1>1, <1>5, MaxOfNats
  <1>0. <<>> \in Y
    BY EmptySeq
  <1> HIDE DEF step, n, Y
  <1>6. PICK h \in [SUBSET (1..n) -> Y] : FoldsTo(h, <<>>, step, n)
    BY <1>0, <1>1, <1>3, FoldRuns
  <1>7. ASSUME NEW T \in SUBSET (1..n)
        PROVE  h[T] = IF T = {} THEN <<>> ELSE IF s[Max(T)] \in S
                      THEN Append(h[T \ {Max(T)}], s[Max(T)]) ELSE h[T \ {Max(T)}]
    <2>1. h[T] = IF T = {} THEN <<>> ELSE step[<<h[T \ {Max(T)}], Max(T)>>]
      BY <1>6 DEF FoldsTo
    <2>2. CASE T = {}
      BY <2>1, <2>2
    <2>3. CASE T # {}
      <3>1. Max(T) \in 1..n /\ h[T \ {Max(T)}] \in Y
        BY <1>5, <1>6, <2>3
      <3> QED BY <1>4, <2>1, <2>3, <3>1
    <2> QED BY <2>2, <2>3
  <1>8. h = [T \in SUBSET DOMAIN s |->
               IF T = {} THEN <<>> ELSE IF s[Max(T)] \in S
               THEN Append(h[T \ {Max(T)}], s[Max(T)]) ELSE h[T \ {Max(T)}]]
    BY <1>1, <1>6, <1>7
  <1> DEFINE it == OnlyAlong(s, S)
  <1>9. it = [T \in SUBSET DOMAIN s |->
               IF T = {} THEN <<>> ELSE IF s[Max(T)] \in S
               THEN Append(it[T \ {Max(T)}], s[Max(T)]) ELSE it[T \ {Max(T)}]]
    BY <1>8 DEF OnlyAlong
  <1>10. Only(s, S) = it[1..n]
    BY <1>1, OnlyIs
  <1> HIDE DEF it
  <1>11. ASSUME NEW T \in SUBSET (1..n)
         PROVE  it[T] = IF T = {} THEN <<>> ELSE IF s[Max(T)] \in S
                        THEN Append(it[T \ {Max(T)}], s[Max(T)]) ELSE it[T \ {Max(T)}]
    BY <1>1, <1>9
  <1>12. ASSUME NEW k \in 0..n PROVE it[1..k] \in Y
    <2> DEFINE Z == {j \in Nat : j <= n => it[1..j] \in Y}
    <2>1. 0 \in Z
      <3>1. it[{}] = <<>>
        BY <1>11
      <3> QED BY <1>0, <3>1, FoldStep
    <2>2. ASSUME NEW j \in Z PROVE j + 1 \in Z
      <3> SUFFICES ASSUME j + 1 <= n PROVE it[1..(j + 1)] \in Y
        OBVIOUS
      <3>1. 1..(j + 1) \in SUBSET (1..n) /\ j + 1 \in 1..n /\ it[1..j] \in Y
        BY <1>1
      <3>2. it[1..(j + 1)] = IF s[j + 1] \in S THEN Append(it[1..j], s[j + 1]) ELSE it[1..j]
        <4>1. /\ Max(1..(j + 1)) = j + 1 /\ (1..(j + 1)) \ {j + 1} = 1..j
              /\ 1..(j + 1) # {}
          BY FoldStep
        <4> QED BY <1>11, <3>1, <4>1
      <3> QED BY <1>2, <3>1, <3>2
    <2> HIDE DEF Z
    <2>3. Z = Nat
      <3>1. Z \in SUBSET Nat
        BY DEF Z
      <3> QED BY <2>1, <2>2, <3>1, NatSet
    <2>4. k \in Z /\ k <= n
      BY <1>1, <2>3
    <2> QED BY <2>4 DEF Z
  <1> DEFINE p == [k \in 0..n |-> it[1..k]]
  <1>13. p \in [0..n -> Y]
    BY <1>12
  <1>14. p[0] = <<>> /\ p[n] = it[1..n]
    <2>1. it[{}] = <<>>
      BY <1>11
    <2>2. 1..0 = {} /\ 0 \in 0..n /\ n \in 0..n
      BY <1>1
    <2> QED BY <2>1, <2>2
  <1>15. ASSUME NEW k \in 1..n
         PROVE  p[k] = IF s[k] \in S THEN Append(p[k - 1], s[k]) ELSE p[k - 1]
    <2>1. k - 1 \in Nat /\ k - 1 + 1 = k /\ 1..k \in SUBSET (1..n) /\ k \in 0..n /\ k - 1 \in 0..n
      BY <1>1
    <2>2. Max(1..k) = k /\ (1..k) \ {k} = 1..(k - 1) /\ 1..k # {}
      <3>1. PICK j \in Nat : j = k - 1 /\ j + 1 = k
        BY <2>1
      <3>2. /\ Max(1..(j + 1)) = j + 1 /\ (1..(j + 1)) \ {j + 1} = 1..j
            /\ 1..(j + 1) # {}
        BY FoldStep
      <3> QED BY <3>1, <3>2
    <2>3. it[1..k] = IF s[k] \in S THEN Append(it[1..(k - 1)], s[k]) ELSE it[1..(k - 1)]
      BY <1>11, <2>1, <2>2
    <2> QED BY <2>1, <2>3
  <1> HIDE DEF p
  <1> QED BY <1>10, <1>13, <1>14, <1>15 DEF Chooses, n, Y

LEMMA OnlyNone ==
    ASSUME NEW S
    PROVE  Only(<<>>, S) = <<>>
  <1>1. <<>> \in Seq({}) /\ Len(<<>>) = 0
    BY EmptySeq
  <1>2. PICK s \in Seq({}) : s = <<>>
    BY <1>1
  <1>3. PICK p \in [0..Len(s) -> Seq({})] : Chooses(p, s, S) /\ Only(s, S) = p[Len(s)]
    BY OnlyRuns
  <1> QED BY <1>1, <1>2, <1>3 DEF Chooses

LEMMA OnlyAppend ==
    ASSUME NEW X, NEW s \in Seq(X), NEW e \in X, NEW S
    PROVE  Only(Append(s, e), S) = IF e \in S THEN Append(Only(s, S), e) ELSE Only(s, S)
  <1> DEFINE n == Len(s)
             t == Append(s, e)
  <1>1. /\ n \in Nat /\ t \in Seq(X) /\ Len(t) = n + 1
        /\ \A i \in 1..n : t[i] = s[i]
        /\ t[n + 1] = e
    BY LenProperties, AppendProperties
  <1> HIDE DEF t
  <1>2. PICK p \in [0..n -> Seq(X)] : Chooses(p, s, S) /\ Only(s, S) = p[n]
    BY OnlyRuns
  <1>3. PICK q \in [0..(n + 1) -> Seq(X)] : Chooses(q, t, S) /\ Only(t, S) = q[n + 1]
    <2>1. \E q \in [0..Len(t) -> Seq(X)] : Chooses(q, t, S) /\ Only(t, S) = q[Len(t)]
      BY <1>1, OnlyRuns
    <2> QED BY <1>1, <2>1
  <1> HIDE DEF n
  <1> DEFINE Z == {k \in Nat : k <= n => q[k] = p[k]}
  <1>4. 0 \in Z
    BY <1>2, <1>3 DEF Chooses
  <1>5. ASSUME NEW k \in Z PROVE k + 1 \in Z
    <2> SUFFICES ASSUME k + 1 <= n PROVE q[k + 1] = p[k + 1]
      OBVIOUS
    <2>1. k + 1 \in 1..Len(s) /\ k + 1 \in 1..Len(t) /\ k + 1 - 1 = k /\ q[k] = p[k]
      BY <1>1 DEF n
    <2>2. t[k + 1] = s[k + 1]
      BY <1>1, <2>1 DEF n
    <2>3. p[k + 1] = IF s[k + 1] \in S THEN Append(p[k], s[k + 1]) ELSE p[k]
      BY <1>2, <2>1 DEF Chooses
    <2>4. q[k + 1] = IF t[k + 1] \in S THEN Append(q[k], t[k + 1]) ELSE q[k]
      BY <1>3, <2>1 DEF Chooses
    <2> QED BY <2>1, <2>2, <2>3, <2>4
  <1>6. Z = Nat
    <2> HIDE DEF Z
    <2>1. Z \in SUBSET Nat
      BY DEF Z
    <2> QED BY <1>4, <1>5, <2>1, NatSet
  <1>7. q[n] = p[n]
    <2>1. n \in Z /\ n <= n
      <3> HIDE DEF Z
      <3> QED BY <1>1, <1>6
    <2> QED BY <2>1
  <1>8. q[n + 1] = IF t[n + 1] \in S THEN Append(q[n], t[n + 1]) ELSE q[n]
    <2>1. n + 1 \in 1..Len(t) /\ n + 1 - 1 = n
      BY <1>1
    <2>2. \A k \in 1..Len(t) : q[k] = IF t[k] \in S THEN Append(q[k - 1], t[k]) ELSE q[k - 1]
      BY <1>3 DEF Chooses
    <2>3. PICK k \in 1..Len(t) : k = n + 1 /\ k - 1 = n
      BY <1>1, <2>1
    <2>4. q[k] = IF t[k] \in S THEN Append(q[k - 1], t[k]) ELSE q[k - 1]
      BY <2>2
    <2> QED BY <2>3, <2>4
  <1>9. Only(t, S) = IF e \in S THEN Append(Only(s, S), e) ELSE Only(s, S)
    BY <1>1, <1>2, <1>3, <1>7, <1>8
  <1> QED BY <1>9 DEF t

LEMMA OnlyType ==
    ASSUME NEW X, NEW s \in Seq(X), NEW S
    PROVE  Only(s, S) \in Seq(X)
  <1>1. PICK p \in [0..Len(s) -> Seq(X)] : Only(s, S) = p[Len(s)]
    BY OnlyRuns
  <1>2. Len(s) \in 0..Len(s)
    BY LenProperties
  <1> QED BY <1>1, <1>2

\* What holds of <<>>, and of Append(s, e) when it does of s, holds of all sequences:
\* P is the set of the sequences it holds of.
LEMMA SeqSet ==
    ASSUME NEW X, NEW P \in SUBSET Seq(X), <<>> \in P,
           \A s \in P : \A e \in X : Append(s, e) \in P
    PROVE  P = Seq(X)
  <1> DEFINE Z == {n \in Nat : \A s \in Seq(X) : Len(s) = n => s \in P}
  <1>1. 0 \in Z
    BY EmptySeq
  <1>2. ASSUME NEW n \in Z PROVE n + 1 \in Z
    <2> SUFFICES ASSUME NEW s \in Seq(X), Len(s) = n + 1 PROVE s \in P
      OBVIOUS
    <2>1. \A u \in Seq(X) : Len(u) = n => u \in P
      OBVIOUS
    <2>2. n \in Nat
      OBVIOUS
    <2> HIDE DEF Z
    <2>3. s # <<>>
      BY <2>2, EmptySeq
    <2>4. PICK u \in Seq(X), e \in X : s = Append(u, e)
      BY <2>3, SequenceEmptyOrAppend
    <2>5. Len(u) = n
      <3>1. Len(s) = Len(u) + 1 /\ Len(u) \in Nat
        BY <2>4, AppendProperties, LenProperties
      <3> QED BY <2>2, <3>1
    <2> QED BY <2>1, <2>4, <2>5
  <1>3. Z = Nat
    <2> HIDE DEF Z
    <2>1. Z \in SUBSET Nat
      BY DEF Z
    <2> QED BY <1>1, <1>2, <2>1, NatSet
  <1>4. ASSUME NEW s \in Seq(X) PROVE s \in P
    <2>1. Len(s) \in Z
      <3> HIDE DEF Z
      <3> QED BY <1>3, LenProperties
    <2> QED BY <2>1
  <1> QED BY <1>4

LEMMA OnlyConcat ==
    ASSUME NEW X, NEW a \in Seq(X), NEW b \in Seq(X), NEW S
    PROVE  Only(a \o b, S) = Only(a, S) \o Only(b, S)
  <1> DEFINE P == {l \in Seq(X) : Only(a \o l, S) = Only(a, S) \o Only(l, S)}
  <1>1. <<>> \in P
    BY OnlyNone, OnlyType, ConcatEmptySeq, EmptySeq
  <1>2. ASSUME NEW l \in P, NEW e \in X PROVE Append(l, e) \in P
    <2>1. /\ l \in Seq(X) /\ Only(a \o l, S) = Only(a, S) \o Only(l, S)
          /\ a \o l \in Seq(X) /\ Only(a, S) \in Seq(X) /\ Only(l, S) \in Seq(X)
      BY ConcatProperties, OnlyType
    <2>2. \A u, v \in Seq(X) : u \o Append(v, e) = Append(u \o v, e)
      <3> SUFFICES ASSUME NEW u \in Seq(X), NEW v \in Seq(X)
                   PROVE  u \o Append(v, e) = Append(u \o v, e)
        OBVIOUS
      <3>1. <<e>> \in Seq(X) /\ u \o v \in Seq(X)
        BY ConcatProperties
      <3>2. Append(v, e) = v \o <<e>> /\ Append(u \o v, e) = (u \o v) \o <<e>>
        BY <3>1, AppendIsConcat
      <3> QED BY <3>1, <3>2, ConcatAssociative
    <2>3. Append(l, e) \in Seq(X) /\ a \o Append(l, e) = Append(a \o l, e)
      BY <2>1, <2>2, AppendProperties
    <2>4. /\ Only(Append(a \o l, e), S) =
               IF e \in S THEN Append(Only(a \o l, S), e) ELSE Only(a \o l, S)
          /\ Only(Append(l, e), S) = IF e \in S THEN Append(Only(l, S), e) ELSE Only(l, S)
      <3>1. PICK u \in Seq(X) : u = a \o l
        BY <2>1
      <3>2. Only(Append(u, e), S) = IF e \in S THEN Append(Only(u, S), e) ELSE Only(u, S)
        BY OnlyAppend
      <3>3. Only(Append(l, e), S) = IF e \in S THEN Append(Only(l, S), e) ELSE Only(l, S)
        BY <2>1, OnlyAppend
      <3> QED BY <3>1, <3>2, <3>3
    <2>5. Only(a, S) \o Append(Only(l, S), e) = Append(Only(a, S) \o Only(l, S), e)
      BY <2>1, <2>2
    <2> QED BY <2>1, <2>3, <2>4, <2>5
  <1>3. P = Seq(X)
    <2> HIDE DEF P
    <2>1. P \in SUBSET Seq(X)
      BY DEF P
    <2> QED BY <1>1, <1>2, <2>1, SeqSet
  <1>4. b \in P
    <2> HIDE DEF P
    <2> QED BY <1>3
  <1> QED BY <1>4

LEMMA OnlyOne ==
    ASSUME NEW e, NEW S
    PROVE  Only(<<e>>, S) = IF e \in S THEN <<e>> ELSE <<>>
  <1>1. PICK s \in Seq({e}), x \in {e} : s = <<>> /\ x = e
    BY EmptySeq
  <1>2. Only(Append(s, x), S) = IF x \in S THEN Append(Only(s, S), x) ELSE Only(s, S)
    BY OnlyAppend
  <1>3. Append(s, x) = <<e>>
    <2>1. Append(s, x) = s \o <<x>>
      BY AppendIsConcat
    <2>2. <<e>> \in Seq({e})
      OBVIOUS
    <2> QED BY <1>1, <2>1, <2>2, ConcatEmptySeq
  <1>4. Only(s, S) = s
    BY <1>1, OnlyNone
  <1> QED BY <1>1, <1>2, <1>3, <1>4

LEMMA OnlyAll ==
    ASSUME NEW S, NEW s \in Seq(S)
    PROVE  Only(s, S) = s
  <1> DEFINE P == {l \in Seq(S) : Only(l, S) = l}
  <1>1. <<>> \in P
    BY OnlyNone, EmptySeq
  <1>2. ASSUME NEW l \in P, NEW e \in S PROVE Append(l, e) \in P
    BY OnlyAppend, AppendProperties
  <1>3. P = Seq(S)
    <2> HIDE DEF P
    <2>1. P \in SUBSET Seq(S)
      BY DEF P
    <2> QED BY <1>1, <1>2, <2>1, SeqSet
  <1> QED BY <1>3

LEMMA OnlyOthers ==
    ASSUME NEW X, NEW S, X \cap S = {}, NEW s \in Seq(X)
    PROVE  Only(s, S) = <<>>
  <1> DEFINE P == {l \in Seq(X) : Only(l, S) = <<>>}
  <1>1. <<>> \in P
    BY OnlyNone, EmptySeq
  <1>2. ASSUME NEW l \in P, NEW e \in X PROVE Append(l, e) \in P
    BY OnlyAppend, AppendProperties
  <1>3. P = Seq(X)
    <2> HIDE DEF P
    <2>1. P \in SUBSET Seq(X)
      BY DEF P
    <2> QED BY <1>1, <1>2, <2>1, SeqSet
  <1> QED BY <1>3

\* The elements of Only(s, S) are elements of S.
LEMMA OnlyIn ==
    ASSUME NEW X, NEW s \in Seq(X), NEW S
    PROVE  Only(s, S) \in Seq(X \cap S)
  <1> DEFINE P == {l \in Seq(X) : Only(l, S) \in Seq(X \cap S)}
  <1>1. <<>> \in P
    BY OnlyNone, EmptySeq
  <1>2. ASSUME NEW l \in P, NEW e \in X PROVE Append(l, e) \in P
    <2>1. l \in Seq(X) /\ Only(l, S) \in Seq(X \cap S) /\ Append(l, e) \in Seq(X)
      BY AppendProperties
    <2>2. Only(Append(l, e), S) = IF e \in S THEN Append(Only(l, S), e) ELSE Only(l, S)
      BY <2>1, OnlyAppend
    <2>3. e \in S => Append(Only(l, S), e) \in Seq(X \cap S)
      BY <2>1, AppendProperties
    <2> QED BY <2>1, <2>2, <2>3
  <1>3. P = Seq(X)
    <2> HIDE DEF P
    <2>1. P \in SUBSET Seq(X)
      BY DEF P
    <2> QED BY <1>1, <1>2, <2>1, SeqSet
  <1> QED BY <1>3
=============================================================================
