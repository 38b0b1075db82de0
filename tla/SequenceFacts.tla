---------------------------- MODULE SequenceFacts ----------------------------
(***************************************************************************)
(* Facts about what the modules do with sequences: the elements of a set   *)
(* in their order, sequences joined end to end, a finite set sorted by a   *)
(* key.  The recursive definitions are reasoned about by induction over a  *)
(* set of naturals, which needs no operator as a parameter.                *)
(***************************************************************************)
EXTENDS Subsequence, SequencesExt, Integers, FiniteSetTheorems, SequenceTheorems,
        WellFoundedInduction, TLAPS

\* Induction, over the naturals of a set.
LEMMA NatSetInduction ==
    ASSUME NEW T, 0 \in T, \A n \in Nat : n \in T => n + 1 \in T
    PROVE  Nat \subseteq T
<1>1. SUFFICES ASSUME NEW m \in Nat, m \notin T PROVE FALSE
  OBVIOUS
<1> DEFINE B == {0..k : k \in (0..m) \ T}
<1>2. IsFiniteSet(0..m)  BY FS_Interval
<1>3. B \subseteq FiniteSubsetsOf(0..m) /\ B # {}
  <2>1. ASSUME NEW k \in 0..m PROVE 0..k \in SUBSET (0..m) /\ IsFiniteSet(0..k)
    BY FS_Interval
  <2> QED BY <2>1, <1>1 DEF FiniteSubsetsOf
<1>4. PICK x \in B : \A y \in B : <<y, x>> \notin StrictSubsetOrdering(0..m)
  <2> HIDE DEF B
  <2> QED BY <1>3, WFMin, FS_StrictSubsetOrderingWellFounded
<1>5. PICK k \in (0..m) \ T : x = 0..k  OBVIOUS
<1>6. k # 0 /\ k - 1 \in Nat /\ k - 1 \in 0..m /\ (k - 1) + 1 = k OBVIOUS
<1>7. k - 1 \notin T  BY <1>6
<1>8. 0..(k-1) \in B BY <1>6, <1>7
<1>9. <<0..(k-1), 0..k>> \in StrictSubsetOrdering(0..m)
  <2>1. 0..(k-1) \subseteq 0..m /\ 0..k \subseteq 0..m /\ 0..(k-1) \subseteq 0..k BY <1>6
  <2>2. k \in 0..k /\ k \notin 0..(k-1) BY <1>6
  <2> QED BY <2>1, <2>2 DEF StrictSubsetOrdering
<1> QED BY <1>4, <1>5, <1>8, <1>9

\* A set of naturals has a least element.
LEMMA LeastElement ==
    ASSUME NEW T \in SUBSET Nat, T # {}
    PROVE  \E m \in T : \A k \in T : m <= k
<1>1. SUFFICES ASSUME \A m \in T : \E k \in T : k < m PROVE FALSE
  OBVIOUS
<1> DEFINE B == {n \in Nat : \A k \in 0..n : k \notin T}
<1>2. 0 \in B  BY <1>1
<1>3. \A n \in Nat : n \in B => n + 1 \in B
  <2> SUFFICES ASSUME NEW n \in B PROVE n + 1 \in B OBVIOUS
  <2>1. ASSUME n + 1 \in T PROVE FALSE
    <3>1. PICK k \in T : k < n + 1 BY <2>1, <1>1
    <3> QED BY <3>1
  <2> QED BY <2>1
<1>4. Nat \subseteq B
  <2> HIDE DEF B
  <2> QED BY <1>2, <1>3, NatSetInduction
<1>5. PICK t \in T : TRUE  OBVIOUS
<1>6. t \in Nat /\ t \in 0..t  OBVIOUS
<1>7. t \in B  BY <1>4, <1>6
<1> QED BY <1>6, <1>7

\* g[m] = c, and g[i] is what D[i] makes of g[i - 1]
Recurs(g, m, n, c, D) ==
    \A i \in m..n : g[i] = IF i = m THEN c ELSE D[i][g[i - 1]]

\* Where every step of a recursion leads from X to X, the recursive function there is.
LEMMA RecursionExists ==
    ASSUME NEW X, NEW m \in Nat, NEW n \in Nat, NEW c \in X, NEW D \in [m..n -> [X -> X]]
    PROVE  \E g \in [m..n -> X] : Recurs(g, m, n, c, D)
<1> USE DEF Recurs
<1> DEFINE Good(j, g) == \A i \in m..j : g[i] = IF i = m THEN c ELSE D[i][g[i - 1]]
           Reach(k) == m + k <= n => \E g \in [m..(m + k) -> X] : Good(m + k, g)
           B == {k \in Nat : Reach(k)}
<1>1. Reach(0)
  <2> DEFINE g == [i \in m..(m + 0) |-> c]
  <2>1. g \in [m..(m + 0) -> X] /\ \A i \in m..(m + 0) : i = m /\ g[i] = c OBVIOUS
  <2>2. Good(m + 0, g) BY <2>1
  <2> HIDE DEF g
  <2> QED BY <2>1, <2>2
<1>2. \A k \in Nat : Reach(k) => Reach(k + 1)
  <2> SUFFICES ASSUME NEW k \in Nat, Reach(k), m + (k + 1) <= n
               PROVE  \E g \in [m..(m + (k + 1)) -> X] : Good(m + (k + 1), g)
    OBVIOUS
  <2>1. PICK g \in [m..(m + k) -> X] : Good(m + k, g) OBVIOUS
  <2> DEFINE j == m + (k + 1)
             h == [i \in m..j |-> IF i = j THEN D[j][g[j - 1]] ELSE g[i]]
  <2>2. j \in m..n /\ j - 1 = m + k /\ j # m /\ m + k \in m..(m + k) OBVIOUS
  <2>3. D[j][g[j - 1]] \in X BY <2>2
  <2>4. h \in [m..j -> X] BY <2>2, <2>3
  <2>5. ASSUME NEW i \in m..j PROVE h[i] = IF i = m THEN c ELSE D[i][h[i - 1]]
    <3>1. CASE i = j BY <3>1, <2>2
    <3>2. CASE i # j
      <4>1. i \in m..(m+k) /\ h[i] = g[i] /\ (i # m => i - 1 \in m..(m+k) /\ h[i - 1] = g[i - 1]) BY <3>2, <2>2
      <4> QED BY <4>1, <2>1
    <3> QED BY <3>1, <3>2
  <2> QED BY <2>4, <2>5
<1>3. \A k \in Nat : Reach(k)
  <2> HIDE DEF Reach
  <2>1. 0 \in B /\ \A k \in Nat : k \in B => k + 1 \in B BY <1>1, <1>2
  <2> HIDE DEF B
  <2>2. Nat \subseteq B BY <2>1, NatSetInduction
  <2> QED BY <2>2 DEF B
<1>4. CASE n < m
  <2>1. m..n = {} BY <1>4
  <2> QED BY <2>1
<1>5. CASE m <= n
  <2>1. n - m \in Nat /\ m + (n - m) = n BY <1>5
  <2>2. Reach(n - m) BY <1>3, <2>1
  <2> QED BY <2>1, <2>2
<1> QED BY <1>4, <1>5

-----------------------------------------------------------------------------
(* The elements of a sequence that are in a set. *)
KeepStep(keep, s, S, i) ==
    IF i = 0 THEN <<>>
    ELSE IF s[i] \in S THEN Append(keep[i - 1], s[i]) ELSE keep[i - 1]

Keeping(s, S) == CHOOSE keep : keep = [i \in 0..Len(s) |-> KeepStep(keep, s, S, i)]

\* Only is what its recursion ends with, and the recursion is well defined.
LEMMA OnlyDef ==
    ASSUME NEW X, NEW s \in Seq(X), NEW S
    PROVE  /\ Only(s, S) = Keeping(s, S)[Len(s)]
           /\ Keeping(s, S) \in [0..Len(s) -> Seq(X)]
           /\ \A i \in 0..Len(s) : Keeping(s, S)[i] = KeepStep(Keeping(s, S), s, S, i)
<1> DEFINE n == Len(s)
           E == [i \in 0..n |-> [k \in Seq(X) |->
                    IF i # 0 /\ s[i] \in S THEN Append(k, s[i]) ELSE k]]
<1>1. n \in Nat /\ \A i \in 1..n : s[i] \in X  OBVIOUS
<1>3. E \in [0..n -> [Seq(X) -> Seq(X)]]
  <2>1. ASSUME NEW i \in 0..n, NEW k \in Seq(X)
        PROVE  (IF i # 0 /\ s[i] \in S THEN Append(k, s[i]) ELSE k) \in Seq(X)
    BY <1>1
  <2> QED BY <2>1
<1>4. <<>> \in Seq(X)  OBVIOUS
<1>5. PICK g \in [0..n -> Seq(X)] :
          \A i \in 0..n : g[i] = IF i = 0 THEN <<>> ELSE E[i][g[i - 1]]
  <2> DEFINE Y == Seq(X)
  <2>1. E \in [0..n -> [Y -> Y]] /\ <<>> \in Y /\ n \in Nat /\ 0 \in Nat  BY <1>1, <1>3, <1>4
  <2> HIDE DEF E, n, Y
  <2>2. \E g \in [0..n -> Y] : Recurs(g, 0, n, <<>>, E)
    BY <2>1, RecursionExists
  <2> QED BY <2>2 DEF Y, Recurs
<1>6. ASSUME NEW i \in 0..n PROVE g[i] = KeepStep(g, s, S, i)
  <2>1. CASE i = 0  BY <2>1, <1>5 DEF KeepStep
  <2>2. CASE i # 0
    <3>1. i - 1 \in 0..n /\ g[i - 1] \in Seq(X)  BY <2>2, <1>1
    <3>2. E[i][g[i - 1]] = IF s[i] \in S THEN Append(g[i - 1], s[i]) ELSE g[i - 1]
      BY <2>2, <3>1
    <3> HIDE DEF E, n
    <3> QED BY <1>5, <2>2, <3>2 DEF KeepStep
  <2> QED BY <2>1, <2>2
<1>7. g = [i \in 0..n |-> KeepStep(g, s, S, i)]  BY <1>6
<1>8. Keeping(s, S) = [i \in 0..n |-> KeepStep(Keeping(s, S), s, S, i)]
  <2> HIDE DEF E, n
  <2> QED BY <1>7 DEF Keeping, n
<1>9. Only(s, S) = Keeping(s, S)[n]  BY DEF Only, Keeping, KeepStep
<1> DEFINE B == {j \in Nat : j <= n => Keeping(s, S)[j] \in Seq(X)}
<1>10. \A j \in 0..n : Keeping(s, S)[j] = KeepStep(Keeping(s, S), s, S, j)
  <2> HIDE DEF n
  <2> QED BY <1>8, Zenon
<1>11. 0 \in B
  <2>1. Keeping(s, S)[0] = <<>>
    <3>1. 0 \in 0..n  BY <1>1
    <3> HIDE DEF n
    <3> QED BY <3>1, <1>10 DEF KeepStep
  <2> QED BY <2>1, <1>4
<1>12. \A j \in Nat : j \in B => j + 1 \in B
  <2> SUFFICES ASSUME NEW j \in B, j + 1 <= n PROVE Keeping(s, S)[j + 1] \in Seq(X)  OBVIOUS
  <2>1. j + 1 \in 0..n /\ j + 1 # 0 /\ (j + 1) - 1 = j /\ s[j + 1] \in X /\ Keeping(s, S)[j] \in Seq(X)
    BY <1>1
  <2>2. Keeping(s, S)[j + 1] = IF s[j + 1] \in S THEN Append(Keeping(s, S)[j], s[j + 1]) ELSE Keeping(s, S)[j]
    <3> HIDE DEF B, n
    <3> QED BY <2>1, <1>10 DEF KeepStep
  <2> HIDE DEF B, n
  <2> QED BY <2>1, <2>2
<1>13. Nat \subseteq B
  <2> HIDE DEF B
  <2> QED BY <1>11, <1>12, NatSetInduction
<1>14. \A j \in 0..n : Keeping(s, S)[j] \in Seq(X)  BY <1>13, <1>1
<1>15. Keeping(s, S) \in [0..n -> Seq(X)]
  <2> DEFINE C(i) == KeepStep(Keeping(s, S), s, S, i)
  <2>1. Keeping(s, S) = [i \in 0..n |-> C(i)] BY <1>8
  <2>2. \A i \in 0..n : C(i) \in Seq(X) BY <1>10, <1>14
  <2> HIDE DEF C, n
  <2> QED BY <2>1, <2>2
<1> QED BY <1>9, <1>15, <1>10

\* Only is whatever satisfies its recursion.
LEMMA OnlyUnique ==
    ASSUME NEW X, NEW s \in Seq(X), NEW S, NEW h,
           \A i \in 0..Len(s) : h[i] = KeepStep(h, s, S, i)
    PROVE  Only(s, S) = h[Len(s)]
<1> DEFINE n == Len(s)
           B == {j \in Nat : j <= n => Keeping(s, S)[j] = h[j]}
<1>1. n \in Nat  OBVIOUS
<1>2. \A i \in 0..n : Keeping(s, S)[i] = KeepStep(Keeping(s, S), s, S, i)  BY OnlyDef
<1>3. 0 \in B  BY <1>1, <1>2 DEF KeepStep
<1>4. \A j \in Nat : j \in B => j + 1 \in B
  <2> SUFFICES ASSUME NEW j \in B, j + 1 <= n PROVE Keeping(s, S)[j + 1] = h[j + 1]  OBVIOUS
  <2>1. j + 1 \in 0..n /\ j + 1 # 0 /\ (j + 1) - 1 = j /\ Keeping(s, S)[j] = h[j]
    BY <1>1
  <2> HIDE DEF B
  <2> QED BY <2>1, <1>2 DEF KeepStep
<1>5. Nat \subseteq B
  <2> HIDE DEF B
  <2> QED BY <1>3, <1>4, NatSetInduction
<1>6. Keeping(s, S)[n] = h[n]  BY <1>1, <1>5
<1> QED BY <1>6, OnlyDef

\* Nothing is kept of nothing.
LEMMA OnlyEmpty == \A S : Only(<<>>, S) = <<>>
<1> SUFFICES ASSUME NEW S PROVE Only(<<>>, S) = <<>>  OBVIOUS
<1>1. <<>> \in Seq({}) /\ Len(<<>>) = 0 /\ 0 \in 0..0  OBVIOUS
<1>2. Only(<<>>, S) = Keeping(<<>>, S)[0] /\ Keeping(<<>>, S)[0] = KeepStep(Keeping(<<>>, S), <<>>, S, 0)
  BY <1>1, OnlyDef
<1> QED BY <1>2 DEF KeepStep

\* The last element is kept or not.
LEMMA OnlyAppend ==
    ASSUME NEW X, NEW s \in Seq(X), NEW x \in X, NEW S
    PROVE  Only(Append(s, x), S) = IF x \in S THEN Append(Only(s, S), x) ELSE Only(s, S)
<1> DEFINE t == Append(s, x)
           k == Keeping(t, S)
<1>1. t \in Seq(X) /\ Len(t) = Len(s) + 1 /\ Len(s) \in Nat /\ t[Len(t)] = x
      /\ \A i \in 1..Len(s) : t[i] = s[i]
  OBVIOUS
<1>2. \A i \in 0..Len(t) : k[i] = KeepStep(k, t, S, i)  BY <1>1, OnlyDef
<1>3. ASSUME NEW i \in 0..Len(s) PROVE k[i] = KeepStep(k, s, S, i)
  BY <1>1, <1>2 DEF KeepStep
<1>4. Only(s, S) = k[Len(s)]
  <2> HIDE DEF k
  <2> QED BY <1>3, OnlyUnique
<1>5. Only(t, S) = k[Len(t)]  BY <1>1, OnlyDef
<1>6. k[Len(t)] = IF x \in S THEN Append(k[Len(s)], x) ELSE k[Len(s)]
  <2> HIDE DEF k, t
  <2>1. Len(t) \in 0..Len(t) /\ Len(t) # 0 /\ Len(t) - 1 = Len(s)  BY <1>1
  <2> QED BY <1>1, <1>2, <2>1 DEF KeepStep
<1> QED BY <1>4, <1>5, <1>6

\* Induction, over the sequences of a set.
LEMMA SeqSetInduction ==
    ASSUME NEW X, NEW T, <<>> \in T, \A s \in Seq(X), x \in X : s \in T => Append(s, x) \in T
    PROVE  Seq(X) \subseteq T
<1> DEFINE Has(n) == \A s \in Seq(X) : Len(s) = n => s \in T
           B == {n \in Nat : Has(n)}
<1>1. Has(0)
  <2>1. \A s \in Seq(X) : Len(s) = 0 => s = <<>>  OBVIOUS
  <2> QED BY <2>1
<1>2. \A n \in Nat : Has(n) => Has(n + 1)
  <2> SUFFICES ASSUME NEW n \in Nat, Has(n), NEW s \in Seq(X), Len(s) = n + 1 PROVE s \in T
    OBVIOUS
  <2>1. s # <<>>  OBVIOUS
  <2>2. PICK r \in Seq(X), x \in X : s = Append(r, x)  BY <2>1, SequenceEmptyOrAppend
  <2>3. Len(r) = n  BY <2>2
  <2> QED BY <2>2, <2>3
<1>3. 0 \in B /\ \A n \in Nat : n \in B => n + 1 \in B  BY <1>1, <1>2
<1>4. Nat \subseteq B
  <2> HIDE DEF B
  <2> QED BY <1>3, NatSetInduction
<1>5. \A s \in Seq(X) : Len(s) \in Nat  OBVIOUS
<1> QED BY <1>4, <1>5

\* where the elements of o come from in s
Places(at, s, S, o) ==
    /\ at \in [1..Len(o) -> 1..Len(s)]
    /\ \A a, b \in 1..Len(o) : a < b => at[a] < at[b]
    /\ \A j \in 1..Len(s) : s[j] \in S => \E a \in 1..Len(o) : at[a] = j
    /\ \A a \in 1..Len(o) : o[a] = s[at[a]] /\ o[a] \in S

\* What is kept comes from places of s, in their order, and every element of S is.
LEMMA OnlyPlaces ==
    ASSUME NEW X, NEW s \in Seq(X), NEW S
    PROVE  Only(s, S) \in Seq(X) /\ \E at : Places(at, s, S, Only(s, S))
<1> DEFINE Good(r) == Only(r, S) \in Seq(X) /\ \E at : Places(at, r, S, Only(r, S))
           T == {r \in Seq(X) : Good(r)}
<1>1. Good(<<>>)
  <2>1. 1..Len(<<>>) = {} /\ <<>> \in Seq(X)  OBVIOUS
  <2>2. \E at : Places(at, <<>>, S, <<>>)
    <3> DEFINE at == [a \in 1..Len(<<>>) |-> 1]
    <3>1. at \in [1..Len(<<>>) -> 1..Len(<<>>)]  BY <2>1
    <3> HIDE DEF at
    <3>2. Places(at, <<>>, S, <<>>)  BY <2>1, <3>1 DEF Places
    <3> QED BY <3>2
  <2> QED BY <2>1, <2>2, OnlyEmpty
<1>2. ASSUME NEW r \in Seq(X), NEW x \in X, Good(r) PROVE Good(Append(r, x))
  <2> DEFINE o == Only(r, S)
             t == Append(r, x)
  <2>1. PICK at : Places(at, r, S, o)  BY <1>2
  <2>2. o \in Seq(X)  BY <1>2
  <2>3. /\ t \in Seq(X) /\ Len(t) = Len(r) + 1 /\ Len(r) \in Nat /\ t[Len(t)] = x
        /\ \A j \in 1..Len(r) : t[j] = r[j]
    OBVIOUS
  <2>4. CASE x \notin S
    <3>1. Only(t, S) = o  BY <2>4, OnlyAppend
    <3>2. Places(at, t, S, o)
      <4> HIDE DEF t, o
      <4>1. at \in [1..Len(o) -> 1..Len(t)]
        <5>1. at \in [1..Len(o) -> 1..Len(r)] /\ 1..Len(r) \subseteq 1..Len(t)
          BY <2>1, <2>3 DEF Places
        <5> QED BY <5>1
      <4>2. \A j \in 1..Len(t) : t[j] \in S => \E a \in 1..Len(o) : at[a] = j
        <5> SUFFICES ASSUME NEW j \in 1..Len(t), t[j] \in S
                     PROVE  \E a \in 1..Len(o) : at[a] = j
          OBVIOUS
        <5>1. j \in 1..Len(r) /\ r[j] \in S  BY <2>3, <2>4
        <5> QED BY <5>1, <2>1 DEF Places
      <4>3. \A a \in 1..Len(o) : o[a] = t[at[a]] /\ o[a] \in S
        BY <2>1, <2>3 DEF Places
      <4> QED BY <4>1, <4>2, <4>3, <2>1 DEF Places
    <3> QED BY <3>1, <3>2, <2>2
  <2>5. CASE x \in S
    <3> DEFINE p == Append(o, x)
               ta == [a \in 1..Len(o) + 1 |-> IF a = Len(o) + 1 THEN Len(t) ELSE at[a]]
    <3>1. Only(t, S) = p  BY <2>5, OnlyAppend
    <3>2. /\ p \in Seq(X) /\ Len(p) = Len(o) + 1 /\ Len(o) \in Nat /\ p[Len(p)] = x
          /\ \A a \in 1..Len(o) : p[a] = o[a]
      BY <2>2
    <3>3. /\ ta[Len(p)] = Len(t) /\ \A a \in 1..Len(o) : ta[a] = at[a] /\ at[a] \in 1..Len(r)
      <4>1. \A a \in 1..Len(o) : at[a] \in 1..Len(r)
        <5> HIDE DEF o
        <5> QED BY <2>1 DEF Places
      <4> HIDE DEF p, t, o
      <4> QED BY <4>1, <3>2
    <3>4. ta \in [1..Len(p) -> 1..Len(t)]
      <4>1. DOMAIN ta = 1..Len(p)  BY <3>2
      <4> HIDE DEF p, t, o, ta
      <4>2. \A a \in 1..Len(p) : ta[a] \in 1..Len(t)  BY <3>2, <3>3, <2>3
      <4>3. ta = [a \in DOMAIN ta |-> ta[a]]
        <5> QED BY DEF ta
      <4> QED BY <4>1, <4>2, <4>3
    <3> HIDE DEF p, t, o, ta
    <3>5. ASSUME NEW a \in 1..Len(p), NEW b \in 1..Len(p), a < b PROVE ta[a] < ta[b]
      <4>1. a \in 1..Len(o)  BY <3>2, <3>5
      <4>2. CASE b = Len(p)  BY <4>1, <4>2, <3>3, <2>3
      <4>3. CASE b # Len(p)
        <5>1. b \in 1..Len(o)  BY <4>3, <3>2
        <5> QED BY <4>1, <5>1, <3>3, <3>5, <2>1 DEF Places
      <4> QED BY <4>2, <4>3
    <3>6. ASSUME NEW j \in 1..Len(t), t[j] \in S PROVE \E a \in 1..Len(p) : ta[a] = j
      <4>1. CASE j = Len(t)  BY <4>1, <3>2, <3>3
      <4>2. CASE j # Len(t)
        <5>1. j \in 1..Len(r) /\ r[j] \in S  BY <4>2, <2>3, <3>6
        <5>2. PICK a \in 1..Len(o) : at[a] = j  BY <5>1, <2>1 DEF Places
        <5> QED BY <5>2, <3>2, <3>3
      <4> QED BY <4>1, <4>2
    <3>7. ASSUME NEW a \in 1..Len(p) PROVE p[a] = t[ta[a]] /\ p[a] \in S
      <4>1. CASE a = Len(p)  BY <4>1, <3>2, <3>3, <2>3, <2>5
      <4>2. CASE a # Len(p)
        <5>1. a \in 1..Len(o)  BY <4>2, <3>2
        <5>2. p[a] = o[a] /\ ta[a] = at[a] /\ at[a] \in 1..Len(r)  BY <5>1, <3>2, <3>3
        <5>3. o[a] = r[at[a]] /\ o[a] \in S  BY <5>1, <2>1 DEF Places
        <5>4. t[at[a]] = r[at[a]]  BY <5>2, <2>3
        <5> QED BY <5>2, <5>3, <5>4
      <4> QED BY <4>1, <4>2
    <3>8. Places(ta, t, S, p)  BY <3>4, <3>5, <3>6, <3>7 DEF Places
    <3> QED BY <3>1, <3>2, <3>8 DEF t, o, p
  <2> QED BY <2>4, <2>5
<1>3. Seq(X) \subseteq T
  <2> HIDE DEF Good
  <2>1. <<>> \in T /\ \A r \in Seq(X), x \in X : r \in T => Append(r, x) \in T  BY <1>1, <1>2
  <2> HIDE DEF T
  <2> QED BY <2>1, SeqSetInduction
<1> QED BY <1>3

\* Keeping from a concatenation is keeping from its parts.
LEMMA OnlyConcat ==
    ASSUME NEW X, NEW s \in Seq(X), NEW t \in Seq(X), NEW S
    PROVE  Only(s \o t, S) = Only(s, S) \o Only(t, S)
<1> DEFINE Good(r) == Only(s \o r, S) = Only(s, S) \o Only(r, S)
           T == {r \in Seq(X) : Good(r)}
<1>1. Only(s, S) \in Seq(X)  BY OnlyPlaces
<1>2. Good(<<>>)
  <2>1. s \o <<>> = s /\ Only(s, S) \o <<>> = Only(s, S)  BY <1>1
  <2> QED BY <2>1, OnlyEmpty
<1>3. ASSUME NEW r \in Seq(X), NEW x \in X, Good(r) PROVE Good(Append(r, x))
  <2>1. s \o Append(r, x) = Append(s \o r, x) /\ s \o r \in Seq(X)  OBVIOUS
  <2>2. Only(r, S) \in Seq(X)  BY OnlyPlaces
  <2>3. Only(s, S) \o Append(Only(r, S), x) = Append(Only(s, S) \o Only(r, S), x)  BY <1>1, <2>2
  <2>4. Only(Append(r, x), S) = IF x \in S THEN Append(Only(r, S), x) ELSE Only(r, S)
    BY OnlyAppend
  <2>5. Only(Append(s \o r, x), S) = IF x \in S THEN Append(Only(s \o r, S), x) ELSE Only(s \o r, S)
    BY <2>1, OnlyAppend
  <2> QED BY <1>3, <2>1, <2>3, <2>4, <2>5
<1>4. Seq(X) \subseteq T
  <2> HIDE DEF Good
  <2>1. <<>> \in T /\ \A r \in Seq(X), x \in X : r \in T => Append(r, x) \in T  BY <1>2, <1>3
  <2> HIDE DEF T
  <2> QED BY <2>1, SeqSetInduction
<1> QED BY <1>4

\* Where every element is in S, all are kept.
LEMMA OnlyAll ==
    ASSUME NEW X, NEW s \in Seq(X), NEW S, \A i \in 1..Len(s) : s[i] \in S
    PROVE  Only(s, S) = s
<1> DEFINE h == [i \in 0..Len(s) |-> SubSeq(s, 1, i)]
<1>1. h[0] = <<>> /\ h[Len(s)] = s /\ Len(s) \in Nat  OBVIOUS
<1>2. ASSUME NEW i \in 0..Len(s) PROVE h[i] = KeepStep(h, s, S, i)
  <2>1. CASE i = 0  BY <2>1, <1>1 DEF KeepStep
  <2>2. CASE i # 0
    <3>1. i \in 1..Len(s) /\ i - 1 \in 0..Len(s) /\ h[i - 1] = SubSeq(s, 1, i - 1)  BY <2>2
    <3>2. SubSeq(s, 1, i) = Append(SubSeq(s, 1, i - 1), s[i])  BY <3>1
    <3> QED BY <2>2, <3>1, <3>2 DEF KeepStep
  <2> QED BY <2>1, <2>2
<1> QED
  <2> HIDE DEF h
  <2> QED BY <1>1, <1>2, OnlyUnique

\* Where no element is in S, none is.
LEMMA OnlyNone ==
    ASSUME NEW X, NEW s \in Seq(X), NEW S, \A i \in 1..Len(s) : s[i] \notin S
    PROVE  Only(s, S) = <<>>
<1> DEFINE h == [i \in 0..Len(s) |-> <<>>]
<1>1. h[Len(s)] = <<>> /\ Len(s) \in Nat  OBVIOUS
<1>2. ASSUME NEW i \in 0..Len(s) PROVE h[i] = KeepStep(h, s, S, i)
  <2>1. i # 0 => i \in 1..Len(s) /\ i - 1 \in 0..Len(s)  OBVIOUS
  <2> QED BY <2>1 DEF KeepStep
<1> QED
  <2> HIDE DEF h
  <2> QED BY <1>1, <1>2, OnlyUnique

-----------------------------------------------------------------------------
(* FlattenSeq of SequencesExt. *)
FlattenStep(flatten, ss, i) == IF i = 1 THEN ss[i] ELSE flatten[i - 1] \o ss[i]

Flattening(ss) == CHOOSE flatten : flatten = [i \in 1..Len(ss) |-> FlattenStep(flatten, ss, i)]

\* FlattenSeq is what its recursion ends with, and the recursion is well defined.
LEMMA FlatDef ==
    ASSUME NEW X, NEW ss \in Seq(Seq(X)), ss # <<>>
    PROVE  /\ FlattenSeq(ss) = Flattening(ss)[Len(ss)]
           /\ \A i \in 1..Len(ss) :
                  Flattening(ss)[i] = FlattenStep(Flattening(ss), ss, i) /\ Flattening(ss)[i] \in Seq(X)
<1> DEFINE n == Len(ss)
           Y == Seq(X)
           E == [i \in 1..n |-> [k \in Y |-> k \o ss[i]]]
<1>1. n \in Nat /\ n # 0 /\ 1 \in Nat /\ \A i \in 1..n : ss[i] \in Y  OBVIOUS
<1>2. E \in [1..n -> [Y -> Y]]
  <2>1. ASSUME NEW i \in 1..n, NEW k \in Y PROVE k \o ss[i] \in Y
    <3>1. ss[i] \in Seq(X) /\ k \in Seq(X)  BY <1>1
    <3> HIDE DEF n
    <3> QED BY <3>1
  <2> HIDE DEF n, Y
  <2> QED BY <2>1
<1>3. ss[1] \in Y  BY <1>1
<1>4. PICK g \in [1..n -> Y] : Recurs(g, 1, n, ss[1], E)
  <2> HIDE DEF E, n, Y
  <2> QED BY <1>1, <1>2, <1>3, RecursionExists
<1>5. ASSUME NEW i \in 1..n PROVE g[i] = FlattenStep(g, ss, i)
  <2>1. CASE i = 1  BY <2>1, <1>4 DEF FlattenStep, Recurs
  <2>2. CASE i # 1
    <3>1. i - 1 \in 1..n /\ g[i - 1] \in Y
      <4> HIDE DEF E, n, Y
      <4> QED BY <2>2, <1>1
    <3>2. E[i][g[i - 1]] = g[i - 1] \o ss[i]  BY <3>1
    <3> HIDE DEF E, n, Y
    <3> QED BY <1>4, <2>2, <3>2 DEF FlattenStep, Recurs
  <2> QED BY <2>1, <2>2
<1>6. g = [i \in 1..n |-> FlattenStep(g, ss, i)]  BY <1>5
<1>7. Flattening(ss) = [i \in 1..n |-> FlattenStep(Flattening(ss), ss, i)]
  <2> HIDE DEF E, n, Y
  <2> QED BY <1>6 DEF Flattening, n
<1>8. FlattenSeq(ss) = Flattening(ss)[n]  BY <1>1 DEF FlattenSeq, Flattening, FlattenStep
<1>9. \A i \in 1..n : Flattening(ss)[i] = FlattenStep(Flattening(ss), ss, i)
  <2> HIDE DEF n
  <2> QED BY <1>7, Zenon
<1> DEFINE B == {j \in Nat : j + 1 <= n => Flattening(ss)[j + 1] \in Y}
<1>10. 0 \in B
  <2>1. 1 \in 1..n /\ 0 + 1 = 1  BY <1>1
  <2> HIDE DEF n, Y
  <2> QED BY <2>1, <1>9, <1>1 DEF FlattenStep
<1>11. \A j \in Nat : j \in B => j + 1 \in B
  <2> SUFFICES ASSUME NEW j \in B, (j + 1) + 1 <= n PROVE Flattening(ss)[(j + 1) + 1] \in Y
    OBVIOUS
  <2>1. /\ (j + 1) + 1 \in 1..n /\ (j + 1) + 1 # 1 /\ ((j + 1) + 1) - 1 = j + 1
        /\ Flattening(ss)[j + 1] \in Seq(X) /\ ss[(j + 1) + 1] \in Seq(X)
    BY <1>1
  <2>2. Flattening(ss)[(j + 1) + 1] = Flattening(ss)[j + 1] \o ss[(j + 1) + 1]
    <3> HIDE DEF B, n, Y
    <3> QED BY <2>1, <1>9 DEF FlattenStep
  <2> HIDE DEF B, n
  <2> QED BY <2>1, <2>2
<1>12. Nat \subseteq B
  <2> HIDE DEF B
  <2> QED BY <1>10, <1>11, NatSetInduction
<1>13. ASSUME NEW i \in 1..n PROVE Flattening(ss)[i] \in Y
  <2>1. i - 1 \in Nat /\ (i - 1) + 1 = i /\ i <= n  BY <1>1
  <2>2. i - 1 \in B  BY <1>12, <2>1
  <2> QED BY <2>1, <2>2
<1> QED BY <1>8, <1>9, <1>13

\* where the elements of f come from in the first m sequences of ss
Origin(src, f, ss, m) ==
    /\ src \in [1..Len(f) -> 1..m]
    /\ \A a, b \in 1..Len(f) : a < b => src[a] <= src[b]
    /\ \A a \in 1..Len(f) : \E j \in 1..Len(ss[src[a]]) : f[a] = ss[src[a]][j]
    /\ \A i \in 1..m : \A j \in 1..Len(ss[i]) :
           \E a \in 1..Len(f) : src[a] = i /\ f[a] = ss[i][j]

\* The elements of FlattenSeq come from its sequences, one sequence after the other.
LEMMA FlattenOrigin ==
    ASSUME NEW X, NEW ss \in Seq(Seq(X))
    PROVE  FlattenSeq(ss) \in Seq(X) /\ \E src : Origin(src, FlattenSeq(ss), ss, Len(ss))
<1> DEFINE n == Len(ss)
           F == Flattening(ss)
           Good(m) == m + 1 <= n => \E src : Origin(src, F[m + 1], ss, m + 1)
           B == {m \in Nat : Good(m)}
<1>1. n \in Nat /\ \A i \in 1..n : ss[i] \in Seq(X)  OBVIOUS
<1>2. CASE ss = <<>>
  <2>1. FlattenSeq(ss) = <<>> /\ n = 0  BY <1>2 DEF FlattenSeq
  <2>2. 1..Len(<<>>) = {} /\ <<>> \in Seq(X) /\ 1..0 = {}  OBVIOUS
  <2> DEFINE src == [a \in 1..Len(<<>>) |-> 1]
  <2>3. src \in [1..Len(<<>>) -> 1..0]  BY <2>2
  <2> HIDE DEF src
  <2>4. Origin(src, <<>>, ss, 0)  BY <2>2, <2>3 DEF Origin
  <2> QED BY <2>1, <2>2, <2>4
<1>3. CASE ss # <<>>
  <2>1. /\ FlattenSeq(ss) = F[n] /\ n # 0
        /\ \A i \in 1..n : F[i] = FlattenStep(F, ss, i) /\ F[i] \in Seq(X)
    BY <1>3, FlatDef
  <2>2. Good(0)
    <3>1. 0 + 1 = 1 /\ 1 \in 1..n  BY <1>1, <2>1
    <3>2. F[1] = ss[1] /\ ss[1] \in Seq(X)
      <4> HIDE DEF F, n
      <4> QED BY <3>1, <2>1, <1>1 DEF FlattenStep
    <3> DEFINE src == [a \in 1..Len(ss[1]) |-> 1]
    <3>3. src \in [1..Len(ss[1]) -> 1..1] /\ \A a \in 1..Len(ss[1]) : src[a] = 1  OBVIOUS
    <3> HIDE DEF src
    <3>4. Origin(src, ss[1], ss, 1)  BY <3>3 DEF Origin
    <3> QED BY <3>1, <3>2, <3>4
  <2>3. ASSUME NEW k \in Nat, Good(k), (k + 1) + 1 <= n
        PROVE  \E src : Origin(src, F[(k + 1) + 1], ss, (k + 1) + 1)
    <3> DEFINE m == k + 1
               t == ss[m + 1]
               f == F[m]
               h == F[m + 1]
    <3>1. m \in Nat /\ m \in 1..n /\ m + 1 \in 1..n /\ m + 1 # 1 /\ (m + 1) - 1 = m
      BY <2>3
    <3>2. PICK src : Origin(src, f, ss, m)  BY <2>3, <3>1
    <3>3. f \in Seq(X) /\ t \in Seq(X) /\ h = f \o t
      <4> HIDE DEF F, n, m
      <4> QED BY <3>1, <2>1, <1>1 DEF FlattenStep
    <3> HIDE DEF m, t, f, h
    <3>4. /\ Len(f) \in Nat /\ Len(t) \in Nat /\ Len(h) = Len(f) + Len(t)
          /\ \A a \in 1..Len(f) : h[a] = f[a]
          /\ \A j \in 1..Len(t) : h[Len(f) + j] = t[j]
      BY <3>3
    <3> DEFINE ta == [a \in 1..Len(h) |-> IF a <= Len(f) THEN src[a] ELSE m + 1]
    <3>5. \A a \in 1..Len(f) : src[a] \in 1..m  BY <3>2 DEF Origin
    <3>6. /\ ta \in [1..Len(h) -> 1..m + 1]
          /\ \A a \in 1..Len(h) : ta[a] = IF a <= Len(f) THEN src[a] ELSE m + 1
      BY <3>1, <3>4, <3>5
    <3> HIDE DEF ta
    <3>7. ASSUME NEW a \in 1..Len(h), NEW b \in 1..Len(h), a < b PROVE ta[a] <= ta[b]
      <4>1. CASE b <= Len(f)
        <5>1. a \in 1..Len(f) /\ b \in 1..Len(f)  BY <4>1, <3>4, <3>7
        <5>2. src[a] <= src[b]  BY <5>1, <3>7, <3>2 DEF Origin
        <5> QED BY <5>1, <5>2, <3>6, <3>4
      <4>2. CASE b > Len(f)
        <5>1. ta[b] = m + 1 /\ ta[a] \in 1..m + 1  BY <4>2, <3>4, <3>6
        <5> QED BY <5>1, <3>1
      <4>3. b <= Len(f) \/ b > Len(f)  BY <3>4
      <4> QED BY <4>1, <4>2, <4>3
    <3>8. ASSUME NEW a \in 1..Len(h) PROVE \E j \in 1..Len(ss[ta[a]]) : h[a] = ss[ta[a]][j]
      <4>1. CASE a <= Len(f)
        <5>1. a \in 1..Len(f)  BY <4>1, <3>4
        <5>2. \E j \in 1..Len(ss[src[a]]) : f[a] = ss[src[a]][j]  BY <5>1, <3>2 DEF Origin
        <5> QED BY <4>1, <5>1, <5>2, <3>4, <3>6
      <4>2. CASE a > Len(f)
        <5>1. a - Len(f) \in 1..Len(t) /\ Len(f) + (a - Len(f)) = a  BY <4>2, <3>4
        <5>2. h[a] = t[a - Len(f)]  BY <5>1, <3>4
        <5>3. ta[a] = m + 1  BY <4>2, <3>4, <3>6
        <5> QED BY <5>1, <5>2, <5>3 DEF t
      <4>3. a <= Len(f) \/ a > Len(f)  BY <3>4
      <4> QED BY <4>1, <4>2, <4>3
    <3>9. ASSUME NEW i \in 1..m + 1, NEW j \in 1..Len(ss[i])
          PROVE  \E a \in 1..Len(h) : ta[a] = i /\ h[a] = ss[i][j]
      <4>1. CASE i = m + 1
        <5>1. j \in 1..Len(t) /\ ss[i][j] = t[j]  BY <4>1, <3>9 DEF t
        <5>2. Len(f) + j \in 1..Len(h) /\ ~(Len(f) + j <= Len(f))  BY <5>1, <3>4
        <5>3. h[Len(f) + j] = t[j] /\ ta[Len(f) + j] = m + 1  BY <5>1, <5>2, <3>4, <3>6
        <5> QED BY <4>1, <5>1, <5>2, <5>3
      <4>2. CASE i # m + 1
        <5>1. i \in 1..m  BY <4>2, <3>1
        <5>2. PICK a \in 1..Len(f) : src[a] = i /\ f[a] = ss[i][j]
          BY <5>1, <3>9, <3>2 DEF Origin
        <5>3. a \in 1..Len(h) /\ a <= Len(f)  BY <3>4
        <5>4. ta[a] = src[a] /\ h[a] = f[a]  BY <5>3, <3>4, <3>6
        <5> QED BY <5>2, <5>3, <5>4
      <4> QED BY <4>1, <4>2
    <3>10. Origin(ta, h, ss, m + 1)  BY <3>6, <3>7, <3>8, <3>9 DEF Origin
    <3> QED BY <3>10 DEF m, h
  <2>4. Nat \subseteq B
    <3>1. \A k \in Nat : Good(k) => Good(k + 1)  BY <2>3
    <3> HIDE DEF Good
    <3>2. 0 \in B /\ \A k \in Nat : k \in B => k + 1 \in B  BY <2>2, <3>1
    <3> HIDE DEF B
    <3> QED BY <3>2, NatSetInduction
  <2>5. n - 1 \in Nat /\ (n - 1) + 1 = n /\ n \in 1..n  BY <1>1, <2>1
  <2>6. n - 1 \in B  BY <2>4, <2>5
  <2>7. \E src : Origin(src, F[n], ss, n)  BY <2>5, <2>6
  <2> HIDE DEF F
  <2> QED BY <2>1, <2>5, <2>7
<1> QED BY <1>2, <1>3

-----------------------------------------------------------------------------
(* Cutting and joining. *)

\* The m-th to the n-th element: each has its place.
LEMMA SubSeqAt ==
    ASSUME NEW X, NEW s \in Seq(X), NEW m \in Nat \ {0}, NEW n \in Nat, m <= n + 1, n <= Len(s)
    PROVE  /\ SubSeq(s, m, n) \in Seq(X) /\ Len(SubSeq(s, m, n)) = n + 1 - m
           /\ \A i \in 1..n + 1 - m : SubSeq(s, m, n)[i] = s[(m - 1) + i]
<1>1. \A i \in m..n : s[i] \in X
  <2>1. \A i \in m..n : i \in 1..Len(s)  OBVIOUS
  <2> QED BY <2>1
<1>2. m \in Int /\ n \in Int  OBVIOUS
<1>3. /\ SubSeq(s, m, n) \in Seq(X) /\ Len(SubSeq(s, m, n)) = IF m <= n THEN n - m + 1 ELSE 0
      /\ \A i \in 1..n - m + 1 : SubSeq(s, m, n)[i] = s[m + i - 1]
  BY <1>1, <1>2, SubSeqProperties
<1>4. n + 1 - m = n - m + 1 /\ (~(m <= n) => n - m + 1 = 0)  OBVIOUS
<1>5. \A i \in 1..n - m + 1 : m + i - 1 = (m - 1) + i  OBVIOUS
<1> QED BY <1>3, <1>4, <1>5

\* The elements of the first sequence, then those of the second.
LEMMA ConcatAt ==
    ASSUME NEW X, NEW s \in Seq(X), NEW t \in Seq(X)
    PROVE  /\ s \o t \in Seq(X) /\ Len(s \o t) = Len(s) + Len(t)
           /\ \A i \in 1..Len(s) : (s \o t)[i] = s[i]
           /\ \A i \in 1..Len(t) : (s \o t)[Len(s) + i] = t[i]
<1>1. /\ s \o t \in Seq(X) /\ Len(s \o t) = Len(s) + Len(t)
      /\ \A i \in 1..Len(s) + Len(t) : (s \o t)[i] = IF i <= Len(s) THEN s[i] ELSE t[i - Len(s)]
  BY ConcatProperties
<1> DEFINE st == s \o t
<1> HIDE DEF st
<1>2. Len(s) \in Nat /\ Len(t) \in Nat  OBVIOUS
<1>3. \A i \in 1..Len(s) : st[i] = s[i]  BY <1>1, <1>2 DEF st
<1>4. ASSUME NEW i \in 1..Len(t) PROVE st[Len(s) + i] = t[i]
  <2>1. Len(s) + i \in 1..Len(s) + Len(t) /\ ~(Len(s) + i <= Len(s)) /\ Len(s) + i - Len(s) = i
    BY <1>2
  <2> QED BY <1>1, <2>1 DEF st
<1> QED BY <1>1, <1>3, <1>4 DEF st

\* A sequence is its first n elements and the others.
LEMMA SplitAt ==
    ASSUME NEW X, NEW s \in Seq(X), NEW n \in 0..Len(s)
    PROVE  s = SubSeq(s, 1, n) \o SubSeq(s, n + 1, Len(s))
<1>1. 1 \in 1..Len(s) + 1 /\ n \in 1 - 1..Len(s) /\ Len(s) \in n..Len(s)  OBVIOUS
<1>2. SubSeq(s, 1, n) \o SubSeq(s, n + 1, Len(s)) = SubSeq(s, 1, Len(s))
  BY <1>1, ConcatAdjacentSubSeq
<1> QED BY <1>2, SubSeqFull, Zenon

-----------------------------------------------------------------------------
(* A finite set in the order of a key. *)

Sorted(s, S, key) ==
    /\ s \in [1..Cardinality(S) -> S]
    /\ \A i, j \in 1..Cardinality(S) : i < j => key[s[i]] < key[s[j]]

\* A finite set whose elements have keys of their own can be put in their order.
LEMMA SortedExists ==
    ASSUME NEW S, IsFiniteSet(S), NEW key \in [S -> Nat],
           \A d, e \in S : key[d] = key[e] => d = e
    PROVE  \E s : Sorted(s, S, key)
<1> DEFINE n == Cardinality(S)
           low(e) == {d \in S : key[d] <= key[e]}
           rank == [e \in S |-> Cardinality(low(e))]
<1>1. n \in Nat  BY FS_CardinalityType
<1>2. ASSUME NEW e \in S
      PROVE  /\ low(e) \in SUBSET S /\ IsFiniteSet(low(e)) /\ Cardinality(low(e)) \in 1..n
             /\ rank[e] = Cardinality(low(e))
  <2>1. low(e) \in SUBSET S /\ e \in low(e)  OBVIOUS
  <2> HIDE DEF low
  <2>2. IsFiniteSet(low(e)) /\ Cardinality(low(e)) <= n  BY <2>1, FS_Subset
  <2>3. Cardinality(low(e)) \in Nat  BY <2>2, FS_CardinalityType
  <2>4. Cardinality(low(e)) # 0  BY <2>1, <2>2, FS_EmptySet
  <2> QED BY <1>1, <2>1, <2>2, <2>3, <2>4
<1>3. ASSUME NEW d \in S, NEW e \in S, key[d] < key[e] PROVE rank[d] < rank[e]
  <2>1. low(d) \in SUBSET low(e) /\ e \in low(e) /\ e \notin low(d)
    <3>1. key[d] \in Nat /\ key[e] \in Nat  OBVIOUS
    <3>2. ASSUME NEW x \in S, key[x] <= key[d] PROVE key[x] <= key[e]
      <4>1. key[x] \in Nat  OBVIOUS
      <4> QED BY <3>1, <3>2, <4>1, <1>3
    <3> QED BY <3>1, <3>2, <1>3
  <2>2. IsFiniteSet(low(e)) /\ Cardinality(low(e)) \in 1..n /\ Cardinality(low(d)) \in 1..n
    BY <1>2
  <2>3. low(d) # low(e)  BY <2>1
  <2> HIDE DEF low
  <2>4. Cardinality(low(d)) <= Cardinality(low(e)) /\ Cardinality(low(d)) # Cardinality(low(e))
    BY <2>1, <2>2, <2>3, FS_Subset
  <2>5. Cardinality(low(d)) < Cardinality(low(e))  BY <1>1, <2>2, <2>4
  <2> QED BY <2>5, <1>2
<1>4. rank \in [S -> 1..n]  BY <1>2
<1> HIDE DEF rank, low
<1>5. ASSUME NEW d \in S, NEW e \in S, rank[d] = rank[e] PROVE d = e
  <2>1. key[d] \in Nat /\ key[e] \in Nat /\ rank[d] \in Nat /\ rank[e] \in Nat
    BY <1>1, <1>4
  <2>2. ~(key[d] < key[e]) /\ ~(key[e] < key[d])
    <3>1. key[d] < key[e] => rank[d] < rank[e]  BY <1>3
    <3>2. key[e] < key[d] => rank[e] < rank[d]  BY <1>3
    <3> QED BY <3>1, <3>2, <2>1, <1>5
  <2>3. key[d] = key[e]  BY <2>1, <2>2
  <2> QED BY <2>3
<1>6. \A i \in 1..n : \E e \in S : rank[e] = i
  <2> DEFINE T == 1..n
  <2>1. IsFiniteSet(T) /\ Cardinality(T) = n  BY <1>1, FS_Interval
  <2>2. rank \in Injection(S, T)  BY <1>4, <1>5 DEF Injection, IsInjective
  <2> HIDE DEF T
  <2>3. rank \in Surjection(S, T)  BY <2>1, <2>2, FS_Injection
  <2> QED BY <2>3 DEF Surjection, T
<1> DEFINE s == [i \in 1..n |-> CHOOSE e \in S : rank[e] = i]
<1>7. s \in [1..n -> S] /\ \A i \in 1..n : rank[s[i]] = i  BY <1>6
<1> HIDE DEF s
<1>8. ASSUME NEW i \in 1..n, NEW j \in 1..n, i < j PROVE key[s[i]] < key[s[j]]
  <2>1. s[i] \in S /\ s[j] \in S /\ rank[s[i]] = i /\ rank[s[j]] = j  BY <1>7
  <2>2. key[s[i]] \in Nat /\ key[s[j]] \in Nat /\ s[i] # s[j]  BY <2>1, <1>8
  <2>3. ~(key[s[j]] < key[s[i]])
    <3>1. key[s[j]] < key[s[i]] => rank[s[j]] < rank[s[i]]  BY <2>1, <1>3
    <3> QED BY <3>1, <2>1, <1>8
  <2>4. key[s[i]] # key[s[j]]  BY <2>1, <2>2
  <2> QED BY <2>2, <2>3, <2>4
<1>9. Sorted(s, S, key)  BY <1>7, <1>8 DEF Sorted
<1> QED BY <1>9

\* A sorted set is there with all its elements.
LEMMA SortedOnto ==
    ASSUME NEW S, IsFiniteSet(S), NEW key \in [S -> Nat], NEW s, Sorted(s, S, key)
    PROVE  /\ s \in Seq(S) /\ Len(s) = Cardinality(S) /\ Cardinality(S) \in Nat
           /\ \A e \in S : \E i \in 1..Cardinality(S) : s[i] = e
<1> DEFINE n == Cardinality(S)
           T == 1..n
<1>1. n \in Nat /\ s \in [T -> S]  BY FS_CardinalityType DEF Sorted
<1>2. IsFiniteSet(T) /\ Cardinality(T) = n  BY <1>1, FS_Interval
<1>3. ASSUME NEW i \in T, NEW j \in T, s[i] = s[j] PROVE i = j
  <2>1. \A a, b \in T : a < b => key[s[a]] < key[s[b]]  BY DEF Sorted
  <2>2. key[s[i]] \in Nat  BY <1>1
  <2>3. ~(i < j)  BY <2>1, <2>2, <1>3
  <2>4. ~(j < i)  BY <2>1, <2>2, <1>3
  <2> QED BY <2>3, <2>4
<1>4. s \in Injection(T, S)  BY <1>1, <1>3 DEF Injection, IsInjective
<1>5. s \in Surjection(T, S)
  <2> HIDE DEF T, n
  <2>1. Cardinality(T) = Cardinality(S)  BY <1>2 DEF n
  <2> QED BY <2>1, <1>4, FS_Injection
<1>6. \A e \in S : \E i \in T : s[i] = e  BY <1>5 DEF Surjection
<1>7. s \in Seq(S) /\ Len(s) = n  BY <1>1
<1> QED BY <1>1, <1>6, <1>7

====
