-------------------------- MODULE RunQueue_proofs --------------------------
(***************************************************************************)
(* The run queue of a scope, for any children and any threshold: its       *)
(* counters are exact and it implements the FIFO of the runnable children. *)
(***************************************************************************)
EXTENDS RunQueue, FiniteSetTheorems, WellFoundedInduction, TLAPS

-----------------------------------------------------------------------------
(* Induction *)

\* Over the naturals, with the property as a set.
LEMMA NatSet ==
    ASSUME NEW T, 0 \in T, \A n \in Nat : n \in T => n + 1 \in T
    PROVE  \A n \in Nat : n \in T
  <1> SUFFICES ASSUME NEW k \in Nat, k \notin T PROVE FALSE
    OBVIOUS
  <1> DEFINE U == Nat \ T
             R == OpToRel(<, Nat)
  <1>1. IsWellFoundedOn(R, Nat)
    BY NatLessThanWellFounded
  <1>2. U \subseteq Nat /\ U # {}
    OBVIOUS
  <1> HIDE DEF R
  <1>3. PICK x \in U : \A y \in U : ~(<<y, x>> \in R)
    BY <1>1, <1>2, WFMin
  <1>4. x \in Nat /\ x # 0
    OBVIOUS
  <1>5. x - 1 \in Nat /\ x - 1 \in U
    BY <1>4
  <1>6. <<x - 1, x>> \in R
    BY <1>4, <1>5 DEF R, OpToRel
  <1> QED
    BY <1>3, <1>5, <1>6

\* Over sequences, which grow at their end.
LEMMA SeqSet ==
    ASSUME NEW A, NEW T, <<>> \in T, \A s \in Seq(A), x \in A : s \in T => Append(s, x) \in T
    PROVE  \A s \in Seq(A) : s \in T
  <1> DEFINE L == {n \in Nat : \A s \in Seq(A) : Len(s) = n => s \in T}
  <1>1. 0 \in L
    OBVIOUS
  <1>2. ASSUME NEW n \in Nat, n \in L PROVE n + 1 \in L
    <2> SUFFICES ASSUME NEW s \in Seq(A), Len(s) = n + 1 PROVE s \in T
      OBVIOUS
    <2> DEFINE f == SubSeq(s, 1, n)
    <2>1. f \in Seq(A) /\ Len(f) = n /\ s[n + 1] \in A
      OBVIOUS
    <2>2. s = Append(f, s[n + 1])
      OBVIOUS
    <2>3. f \in T
      BY <1>2, <2>1
    <2> HIDE DEF f
    <2> QED
      BY <2>1, <2>2, <2>3
  <1> HIDE DEF L
  <1>3. \A n \in Nat : n \in L
    BY <1>1, <1>2, NatSet
  <1> QED
    BY <1>3 DEF L

-----------------------------------------------------------------------------
(* What compaction keeps *)

\* The selections of a sequence's beginnings.
Selects(s, S, g) ==
    /\ g = [i \in 0..Len(s) |-> g[i]] /\ g[0] = <<>>
    /\ \A i \in 1..Len(s) : g[i] = IF s[i] \in S THEN Append(g[i - 1], s[i]) ELSE g[i - 1]

\* They determine what Only computes.
LEMMA SelectsOnly ==
    ASSUME NEW A, NEW S, NEW s \in Seq(A), NEW g, Selects(s, S, g)
    PROVE  Only(s, S) = g[Len(s)]
  <1> DEFINE n == Len(s)
             Eq(f) == f = [i \in 0..n |-> IF i = 0 THEN <<>> ELSE IF s[i] \in S THEN Append(f[i - 1], s[i]) ELSE f[i - 1]]
             t == CHOOSE f : Eq(f)
  <1>0. n \in Nat
    OBVIOUS
  <1>1. Only(s, S) = t[n]
    BY DEF Only
  <1>2. Eq(g)
    BY <1>0 DEF Selects
  <1>3. Eq(t)
    BY <1>2
  <1> HIDE DEF t
  <1>9. \A i \in 0..n : t[i] = IF i = 0 THEN <<>> ELSE IF s[i] \in S THEN Append(t[i - 1], s[i]) ELSE t[i - 1]
    BY <1>3, Zenon
  <1>4. t[0] = <<>> /\ \A i \in 1..n : t[i] = IF s[i] \in S THEN Append(t[i - 1], s[i]) ELSE t[i - 1]
    <2>1. 0 \in 0..n /\ \A i \in 1..n : i \in 0..n /\ i # 0
      BY <1>0
    <2> QED
      BY <1>9, <2>1
  <1> HIDE DEF Eq
  <1> DEFINE T == {i \in Nat : i <= n => t[i] = g[i]}
  <1>5. 0 \in T
    BY <1>4 DEF Selects
  <1>6. ASSUME NEW i \in Nat, i \in T PROVE i + 1 \in T
    <2> SUFFICES ASSUME i + 1 <= n PROVE t[i + 1] = g[i + 1]
      OBVIOUS
    <2>1. i + 1 \in 1..n /\ (i + 1) - 1 = i /\ t[i] = g[i]
      BY <1>0, <1>6
    <2> QED
      BY <2>1, <1>4 DEF Selects
  <1> HIDE DEF T
  <1>7. \A i \in Nat : i \in T
    BY <1>5, <1>6, NatSet
  <1> QED
    BY <1>0, <1>1, <1>7 DEF T

\* Every sequence has them, and one more member adds one more.
LEMMA SelectsAppend ==
    ASSUME NEW A, NEW S, NEW s \in Seq(A), NEW x \in A, NEW g, Selects(s, S, g)
    PROVE  \E h : /\ Selects(Append(s, x), S, h)
                  /\ h[Len(s) + 1] = IF x \in S THEN Append(g[Len(s)], x) ELSE g[Len(s)]
  <1> DEFINE n == Len(s)
             u == Append(s, x)
             last == IF x \in S THEN Append(g[n], x) ELSE g[n]
             h == [i \in 0..(n + 1) |-> IF i = n + 1 THEN last ELSE g[i]]
  <1>1. n \in Nat /\ Len(u) = n + 1 /\ u[n + 1] = x /\ \A i \in 1..n : u[i] = s[i]
    OBVIOUS
  <1>2. h[n + 1] = last /\ \A i \in 0..n : h[i] = g[i]
    BY <1>1
  <1>3. h = [i \in 0..(n + 1) |-> h[i]]
    OBVIOUS
  <1>4. h[0] = <<>>
    BY <1>1, <1>2 DEF Selects
  <1> HIDE DEF h, u
  <1>5. ASSUME NEW i \in 1..(n + 1)
        PROVE  h[i] = IF u[i] \in S THEN Append(h[i - 1], u[i]) ELSE h[i - 1]
    <2>1. CASE i = n + 1
      <3>1. i - 1 = n /\ n \in 0..n
        BY <1>1, <2>1
      <3> QED
        BY <1>1, <1>2, <2>1, <3>1
    <2>2. CASE i # n + 1
      <3>1. i \in 1..n /\ i \in 0..n /\ i - 1 \in 0..n
        BY <1>1, <2>2
      <3>2. g[i] = IF s[i] \in S THEN Append(g[i - 1], s[i]) ELSE g[i - 1]
        BY <3>1 DEF Selects
      <3> QED
        BY <1>1, <1>2, <3>1, <3>2
    <2> QED
      BY <2>1, <2>2
  <1>6. Selects(u, S, h)
    BY <1>1, <1>3, <1>4, <1>5 DEF Selects
  <1> QED
    BY <1>2, <1>6 DEF u

\* A sequence has selections.
LEMMA SelectsExist ==
    ASSUME NEW A, NEW S, NEW s \in Seq(A)
    PROVE  \E g : Selects(s, S, g)
  <1> DEFINE T == {u \in Seq(A) : \E g : Selects(u, S, g)}
  <1>1. <<>> \in T
    <2> DEFINE g == [i \in 0..0 |-> <<>>]
    <2>1. Selects(<<>>, S, g)
      BY DEF Selects
    <2> QED
      BY <2>1
  <1>2. ASSUME NEW u \in Seq(A), NEW x \in A, u \in T PROVE Append(u, x) \in T
    <2>1. PICK g : Selects(u, S, g)
      BY <1>2
    <2> QED
      BY <2>1, SelectsAppend
  <1> HIDE DEF T
  <1>3. s \in T
    BY <1>1, <1>2, SeqSet
  <1> QED
    BY <1>3 DEF T

\* The two equations of Only.
LEMMA OnlyEmpty == ASSUME NEW S PROVE Only(<<>>, S) = <<>>
  <1>0. <<>> \in Seq({}) /\ Len(<<>>) = 0
    OBVIOUS
  <1>1. PICK g : Selects(<<>>, S, g)
    BY <1>0, SelectsExist
  <1>2. Only(<<>>, S) = g[0]
    BY <1>0, <1>1, SelectsOnly
  <1> QED
    BY <1>1, <1>2 DEF Selects

\* One more member at the end.
LEMMA OnlyAppend ==
    ASSUME NEW A, NEW S, NEW s \in Seq(A), NEW x \in A
    PROVE  Only(Append(s, x), S) = IF x \in S THEN Append(Only(s, S), x) ELSE Only(s, S)
  <1>1. PICK g : Selects(s, S, g)
    BY SelectsExist
  <1>2. PICK h : /\ Selects(Append(s, x), S, h)
                 /\ h[Len(s) + 1] = IF x \in S THEN Append(g[Len(s)], x) ELSE g[Len(s)]
    BY <1>1, SelectsAppend
  <1>3. Only(s, S) = g[Len(s)]
    BY <1>1, SelectsOnly
  <1>4. Append(s, x) \in Seq(A) /\ Len(Append(s, x)) = Len(s) + 1
    OBVIOUS
  <1>5. Only(Append(s, x), S) = h[Len(s) + 1]
    BY <1>2, <1>4, SelectsOnly
  <1> QED
    BY <1>2, <1>3, <1>5

Distinct(s) == \A i, j \in 1..Len(s) : s[i] = s[j] => i = j

\* What is in a sequence with one more member.
LEMMA AppendFacts ==
    ASSUME NEW A, NEW s \in Seq(A), NEW x \in A
    PROVE  /\ Append(s, x) \in Seq(A) /\ Len(Append(s, x)) = Len(s) + 1 /\ Len(s) \in Nat
           /\ Append(s, x)[Len(s) + 1] = x /\ \A i \in 1..Len(s) : Append(s, x)[i] = s[i]
           /\ \A i \in 1..Len(s) : i \in 1..(Len(s) + 1)
           /\ \A i \in 1..(Len(s) + 1) : i \in 1..Len(s) \/ i = Len(s) + 1
           /\ \A y : Contains(Append(s, x), y) <=> Contains(s, y) \/ y = x
           /\ Distinct(Append(s, x)) <=> Distinct(s) /\ ~Contains(s, x)
  <1> DEFINE a == Append(s, x)
  <1>1. /\ a \in Seq(A) /\ Len(a) = Len(s) + 1 /\ a[Len(s) + 1] = x /\ Len(s) \in Nat
        /\ \A i \in 1..Len(s) : a[i] = s[i]
    OBVIOUS
  <1> HIDE DEF a
  <1>2. /\ \A i \in 1..(Len(s) + 1) : i \in 1..Len(s) \/ i = Len(s) + 1
        /\ \A i \in 1..Len(s) : i \in 1..(Len(s) + 1) /\ i # Len(s) + 1
        /\ Len(s) + 1 \in 1..(Len(s) + 1)
    BY <1>1
  <1>3. \A y : Contains(a, y) <=> Contains(s, y) \/ y = x
    BY <1>1, <1>2 DEF Contains
  <1>4. Distinct(a) => Distinct(s) /\ ~Contains(s, x)
    BY <1>1, <1>2 DEF Distinct, Contains
  <1>5. Distinct(s) /\ ~Contains(s, x) => Distinct(a)
    BY <1>1, <1>2 DEF Distinct, Contains
  <1> QED
    BY <1>1, <1>2, <1>3, <1>4, <1>5 DEF a

\* What is selected: exactly the members in S, once if they are distinct.
LEMMA OnlyFacts ==
    ASSUME NEW A, NEW S, NEW s \in Seq(A)
    PROVE  /\ Only(s, S) \in Seq(A) /\ Len(Only(s, S)) <= Len(s)
           /\ \A c : Contains(Only(s, S), c) <=> Contains(s, c) /\ c \in S
           /\ Distinct(s) => Distinct(Only(s, S))
           /\ (\A i \in 1..Len(s) : s[i] \in S) => Only(s, S) = s
           /\ (\A i \in 1..Len(s) : s[i] \notin S) => Only(s, S) = <<>>
  <1> DEFINE P(u) == /\ Only(u, S) \in Seq(A) /\ Len(Only(u, S)) <= Len(u)
                     /\ \A c : Contains(Only(u, S), c) <=> Contains(u, c) /\ c \in S
                     /\ Distinct(u) => Distinct(Only(u, S))
                     /\ (\A i \in 1..Len(u) : u[i] \in S) => Only(u, S) = u
                     /\ (\A i \in 1..Len(u) : u[i] \notin S) => Only(u, S) = <<>>
             T == {u \in Seq(A) : P(u)}
  <1>1. <<>> \in T
    <2>1. Only(<<>>, S) = <<>>
      BY OnlyEmpty
    <2>2. <<>> \in Seq(A) /\ Len(<<>>) = 0 /\ 1..0 = {}
      OBVIOUS
    <2>3. Distinct(<<>>) /\ \A c : ~Contains(<<>>, c)
      BY <2>2 DEF Contains, Distinct
    <2>5. Only(<<>>, S) \in Seq(A) /\ Len(Only(<<>>, S)) <= Len(<<>>)
      <3>1. Only(<<>>, S) \in Seq(A)
        BY <2>1, <2>2, Zenon
      <3>2. Len(Only(<<>>, S)) = 0
        BY <2>1, <2>2, Zenon
      <3> QED
        BY <2>2, <3>1, <3>2
    <2>6. \A c : Contains(Only(<<>>, S), c) <=> Contains(<<>>, c) /\ c \in S
      BY <2>1, <2>3
    <2>7. Distinct(Only(<<>>, S))
      BY <2>1, <2>3
    <2>4. P(<<>>)
      BY <2>1, <2>5, <2>6, <2>7
    <2> HIDE DEF P
    <2> QED
      BY <2>2, <2>4
  <1>2. ASSUME NEW u \in Seq(A), NEW x \in A, u \in T PROVE Append(u, x) \in T
    <2> DEFINE a == Append(u, x)
               o == Only(u, S)
    <2>0. P(u)
      BY <1>2
    <2>1. Only(a, S) = IF x \in S THEN Append(o, x) ELSE o
      BY OnlyAppend
    <2>2. /\ a \in Seq(A) /\ Len(a) = Len(u) + 1 /\ Len(u) \in Nat /\ a[Len(u) + 1] = x
          /\ \A i \in 1..Len(u) : a[i] = u[i] /\ i \in 1..(Len(u) + 1)
          /\ \A y : Contains(a, y) <=> Contains(u, y) \/ y = x
          /\ Distinct(a) <=> Distinct(u) /\ ~Contains(u, x)
          /\ Len(u) + 1 \in 1..(Len(u) + 1)
      BY AppendFacts
    <2>3. o \in Seq(A)
      BY <2>0
    <2>4. /\ Append(o, x) \in Seq(A) /\ Len(Append(o, x)) = Len(o) + 1 /\ Len(o) \in Nat
          /\ \A y : Contains(Append(o, x), y) <=> Contains(o, y) \/ y = x
          /\ Distinct(Append(o, x)) <=> Distinct(o) /\ ~Contains(o, x)
      BY <2>3, AppendFacts
    <2> HIDE DEF a, o
    <2>5. /\ o \in Seq(A) /\ Len(o) <= Len(u) /\ \A c : Contains(o, c) <=> Contains(u, c) /\ c \in S
          /\ (Distinct(u) => Distinct(o))
          /\ (\A i \in 1..Len(u) : u[i] \notin S) => o = <<>>
      BY <2>0 DEF o
    <2>6. (\A i \in 1..Len(u) : u[i] \in S) => o = u
      BY <2>0 DEF o
    <2>7. Only(a, S) \in Seq(A) /\ Len(Only(a, S)) <= Len(a)
      BY <2>1, <2>2, <2>4, <2>5
    <2>8. \A c : Contains(Only(a, S), c) <=> Contains(a, c) /\ c \in S
      BY <2>1, <2>2, <2>4, <2>5
    <2>9. Distinct(a) => Distinct(Only(a, S))
      BY <2>0, <2>1, <2>2, <2>4, <2>5 DEF o
    <2>10. (\A i \in 1..Len(a) : a[i] \in S) => Only(a, S) = a
      <3> SUFFICES ASSUME \A i \in 1..Len(a) : a[i] \in S PROVE Only(a, S) = a
        OBVIOUS
      <3>1. x \in S /\ \A i \in 1..Len(u) : u[i] \in S
        BY <2>2
      <3> QED
        BY <2>1, <2>6, <3>1 DEF a
    <2>11. (\A i \in 1..Len(a) : a[i] \notin S) => Only(a, S) = <<>>
      <3> SUFFICES ASSUME \A i \in 1..Len(a) : a[i] \notin S PROVE Only(a, S) = <<>>
        OBVIOUS
      <3>1. x \notin S /\ \A i \in 1..Len(u) : u[i] \notin S
        BY <2>2
      <3> QED
        BY <2>1, <2>5, <3>1
    <2> QED
      BY <2>2, <2>7, <2>8, <2>9, <2>10, <2>11 DEF a
  <1> HIDE DEF T
  <1>3. s \in T
    BY <1>1, <1>2, SeqSet
  <1> QED
    BY <1>3 DEF T

\* Only what is in the sequence matters.
LEMMA OnlySame ==
    ASSUME NEW A, NEW S, NEW R, NEW s \in Seq(A), \A c : Contains(s, c) => (c \in S <=> c \in R)
    PROVE  Only(s, S) = Only(s, R)
  <1> DEFINE Same(u) == \A c : Contains(u, c) => (c \in S <=> c \in R)
             T == {u \in Seq(A) : Same(u) => Only(u, S) = Only(u, R)}
  <1>1. <<>> \in T
    BY OnlyEmpty
  <1>2. ASSUME NEW u \in Seq(A), NEW x \in A, u \in T PROVE Append(u, x) \in T
    <2>1. Append(u, x) \in Seq(A) /\ \A y : Contains(Append(u, x), y) <=> Contains(u, y) \/ y = x
      BY AppendFacts
    <2> SUFFICES ASSUME Same(Append(u, x)) PROVE Only(Append(u, x), S) = Only(Append(u, x), R)
      BY <2>1
    <2>2. Same(u) /\ (x \in S <=> x \in R)
      BY <2>1
    <2>3. Only(u, S) = Only(u, R)
      BY <1>2, <2>2
    <2>4. /\ Only(Append(u, x), S) = IF x \in S THEN Append(Only(u, S), x) ELSE Only(u, S)
          /\ Only(Append(u, x), R) = IF x \in R THEN Append(Only(u, R), x) ELSE Only(u, R)
      BY OnlyAppend
    <2> QED
      BY <2>2, <2>3, <2>4
  <1>3. s \in T
    <2> HIDE DEF T
    <2> QED
      BY <1>1, <1>2, SeqSet
  <1> QED
    BY <1>3

\* A selection of two sequences in a row.
LEMMA OnlyConcat ==
    ASSUME NEW A, NEW S, NEW s \in Seq(A), NEW t \in Seq(A)
    PROVE  Only(s \o t, S) = Only(s, S) \o Only(t, S)
  <1> DEFINE T == {u \in Seq(A) : Only(s \o u, S) = Only(s, S) \o Only(u, S)}
  <1>0. Only(s, S) \in Seq(A)
    BY OnlyFacts
  <1>1. <<>> \in T
    <2>1. s \o <<>> = s /\ Only(s, S) \o <<>> = Only(s, S) /\ <<>> \in Seq(A)
      BY <1>0
    <2>2. Only(<<>>, S) = <<>>
      BY OnlyEmpty
    <2>3. Only(s \o <<>>, S) = Only(s, S) \o Only(<<>>, S)
      BY <2>1, <2>2
    <2> QED
      BY <2>1, <2>3
  <1>2. ASSUME NEW u \in Seq(A), NEW x \in A, u \in T PROVE Append(u, x) \in T
    <2>1. s \o Append(u, x) = Append(s \o u, x) /\ s \o u \in Seq(A) /\ Append(u, x) \in Seq(A)
      OBVIOUS
    <2>2. Only(u, S) \in Seq(A)
      BY OnlyFacts
    <2>3. Only(s, S) \o Append(Only(u, S), x) = Append(Only(s, S) \o Only(u, S), x)
      BY <1>0, <2>2
    <2>4. Only(Append(u, x), S) = IF x \in S THEN Append(Only(u, S), x) ELSE Only(u, S)
      BY OnlyAppend
    <2>6. Only(Append(s \o u, x), S) = IF x \in S THEN Append(Only(s \o u, S), x) ELSE Only(s \o u, S)
      <3> DEFINE v == s \o u
      <3>1. v \in Seq(A)
        BY <2>1
      <3> HIDE DEF v
      <3>2. Only(Append(v, x), S) = IF x \in S THEN Append(Only(v, S), x) ELSE Only(v, S)
        BY <3>1, OnlyAppend
      <3> QED
        BY <3>2 DEF v
    <2>5. Only(s \o u, S) = Only(s, S) \o Only(u, S)
      BY <1>2
    <2> QED
      BY <2>1, <2>3, <2>4, <2>5, <2>6
  <1>3. t \in T
    <2> HIDE DEF T
    <2> QED
      BY <1>1, <1>2, SeqSet
  <1> QED
    BY <1>3

\* A sequence of distinct members has as many as its set.
LEMMA DistinctCount ==
    ASSUME NEW A, NEW s \in Seq(A), Distinct(s), NEW S, \A c : c \in S <=> Contains(s, c)
    PROVE  IsFiniteSet(S) /\ Cardinality(S) = Len(s)
  <1> DEFINE n == Len(s)
             f == [i \in 1..n |-> s[i]]
  <1>0. n \in Nat /\ n \in Int /\ 1 \in Int
    OBVIOUS
  <1> HIDE DEF n
  <1>1. IsFiniteSet(1..n) /\ Cardinality(1..n) = n
    BY <1>0, FS_Interval
  <1>2. f \in [1..n -> S] /\ \A x \in S : \E i \in 1..n : f[i] = x
    BY DEF Contains, n
  <1>3. \A i, j \in 1..n : f[i] = f[j] => i = j
    BY DEF Distinct, n
  <1> HIDE DEF f
  <1>4. f \in Bijection(1..n, S)
    BY <1>2, <1>3 DEF Bijection, Injection, Surjection, IsInjective
  <1>5. ExistsBijection(1..n, S)
    BY <1>4 DEF ExistsBijection
  <1> QED
    BY <1>1, <1>5, FS_Bijection DEF n

\* A sequence around one of its members.
LEMMA Around ==
    ASSUME NEW A, NEW s \in Seq(A), NEW i \in 1..Len(s)
    PROVE  LET p == SubSeq(s, 1, i - 1)
               q == SubSeq(s, i + 1, Len(s)) IN
           /\ p \in Seq(A) /\ q \in Seq(A) /\ s[i] \in A /\ s = Append(p, s[i]) \o q
           /\ \A c : Contains(s, c) <=> Contains(p, c) \/ Contains(q, c) \/ c = s[i]
           /\ Len(q) = Len(s) - i /\ Len(p) = i - 1
           /\ Distinct(s) => Distinct(q) /\ ~Contains(p, s[i]) /\ ~Contains(q, s[i])
  <1> DEFINE p == SubSeq(s, 1, i - 1)
             q == SubSeq(s, i + 1, Len(s))
             x == s[i]
  <1>1. p \in Seq(A) /\ Len(p) = i - 1 /\ \A j \in 1..(i - 1) : p[j] = s[j]
    OBVIOUS
  <1>2. q \in Seq(A) /\ Len(q) = Len(s) - i /\ \A j \in 1..(Len(s) - i) : q[j] = s[i + j]
    OBVIOUS
  <1>3. x \in A /\ i \in Nat /\ Len(s) \in Nat /\ i <= Len(s) /\ 1 <= i
    OBVIOUS
  <1> HIDE DEF p, q
  <1>4. s = Append(p, x) \o q
    <2> DEFINE a == Append(p, x)
               r == a \o q
    <2>1. a \in Seq(A) /\ Len(a) = i /\ a[i] = x /\ \A j \in 1..(i - 1) : a[j] = p[j]
      BY <1>1, <1>3
    <2> HIDE DEF a
    <2>2. /\ r \in Seq(A) /\ Len(r) = Len(s) /\ \A j \in 1..i : r[j] = a[j]
          /\ \A j \in (i + 1)..Len(s) : r[j] = q[j - i]
      BY <1>2, <1>3, <2>1
    <2> HIDE DEF r
    <2>3. ASSUME NEW j \in 1..Len(s) PROVE r[j] = s[j]
      <3>1. CASE j < i
        <4>1. j \in 1..i /\ j \in 1..(i - 1)
          BY <1>3, <3>1
        <4> QED
          BY <4>1, <1>1, <2>1, <2>2
      <3>2. CASE j = i
        BY <1>3, <2>1, <2>2, <3>2
      <3>3. CASE j > i
        <4>1. j \in (i + 1)..Len(s) /\ j - i \in 1..(Len(s) - i) /\ i + (j - i) = j
          BY <1>3, <3>3
        <4> QED
          BY <4>1, <1>2, <2>2
      <3> QED
        BY <1>3, <3>1, <3>2, <3>3
    <2>4. s = r
      BY <2>2, <2>3
    <2> QED
      BY <2>4 DEF r, a
  <1>5. ASSUME NEW c PROVE Contains(s, c) <=> Contains(p, c) \/ Contains(q, c) \/ c = x
    <2>1. ASSUME NEW j \in 1..Len(s), s[j] = c PROVE Contains(p, c) \/ Contains(q, c) \/ c = x
      <3>1. CASE j < i
        <4>1. j \in 1..(i - 1)
          BY <3>1
        <4> QED
          BY <1>1, <2>1, <4>1 DEF Contains
      <3>2. CASE j > i
        <4>1. j - i \in 1..(Len(s) - i) /\ i + (j - i) = j
          BY <1>3, <3>2
        <4>2. q[j - i] = c
          BY <1>2, <2>1, <4>1
        <4> QED
          BY <1>2, <4>1, <4>2 DEF Contains
      <3> QED
        BY <1>3, <2>1, <3>1, <3>2
    <2>2. Contains(p, c) => Contains(s, c)
      <3> SUFFICES ASSUME NEW j \in 1..(i - 1), p[j] = c PROVE Contains(s, c)
        BY <1>1 DEF Contains
      <3>1. j \in 1..Len(s) /\ s[j] = c
        BY <1>1, <1>3
      <3> QED
        BY <3>1 DEF Contains
    <2>3. Contains(q, c) => Contains(s, c)
      <3> SUFFICES ASSUME NEW j \in 1..(Len(s) - i), q[j] = c PROVE Contains(s, c)
        BY <1>2 DEF Contains
      <3>1. i + j \in 1..Len(s) /\ s[i + j] = c
        BY <1>2, <1>3
      <3> QED
        BY <3>1 DEF Contains
    <2>4. c = x => Contains(s, c)
      BY DEF Contains
    <2> QED
      BY <2>1, <2>2, <2>3, <2>4 DEF Contains
  <1>6. ASSUME Distinct(s) PROVE Distinct(q) /\ ~Contains(p, x) /\ ~Contains(q, x)
    <2>1. \A j \in 1..(Len(s) - i) : i + j \in 1..Len(s) /\ i + j # i
      BY <1>3
    <2>2. \A j \in 1..(i - 1) : j \in 1..Len(s) /\ j # i
      BY <1>3
    <2>3. ~Contains(p, x)
      BY <1>1, <1>6, <2>2 DEF Contains, Distinct
    <2>4. ~Contains(q, x)
      BY <1>2, <1>6, <2>1 DEF Contains, Distinct
    <2>5. Distinct(q)
      <3> SUFFICES ASSUME NEW j \in 1..(Len(s) - i), NEW k \in 1..(Len(s) - i), q[j] = q[k] PROVE j = k
        BY <1>2 DEF Distinct
      <3>1. i + j = i + k
        BY <1>2, <1>6, <2>1 DEF Distinct
      <3> QED
        BY <1>3, <3>1
    <2> QED
      BY <2>3, <2>4, <2>5
  <1> QED
    BY <1>1, <1>2, <1>3, <1>4, <1>5, <1>6 DEF p, q

\* A selection around one of the members it keeps.
LEMMA OnlyAround ==
    ASSUME NEW A, NEW S, NEW p \in Seq(A), NEW x \in A, NEW q \in Seq(A), x \in S
    PROVE  /\ Only(p, S) \in Seq(A) /\ Only(q, S) \in Seq(A)
           /\ Only(Append(p, x) \o q, S) = Append(Only(p, S), x) \o Only(q, S)
  <1> DEFINE a == Append(p, x)
  <1>1. a \in Seq(A)
    OBVIOUS
  <1>2. Only(a, S) = Append(Only(p, S), x)
    BY OnlyAppend
  <1> HIDE DEF a
  <1>3. Only(a \o q, S) = Only(a, S) \o Only(q, S)
    BY <1>1, OnlyConcat
  <1>4. Only(p, S) \in Seq(A) /\ Only(q, S) \in Seq(A)
    BY OnlyFacts
  <1> QED
    BY <1>2, <1>3, <1>4 DEF a

\* The first of a member, which its beginning has not.
LEMMA FirstOf ==
    ASSUME NEW A, NEW a \in Seq(A), NEW x \in A, NEW b \in Seq(A), ~Contains(a, x)
    PROVE  RemoveFirst(Append(a, x) \o b, x) = a \o b
  <1> DEFINE s == Append(a, x) \o b
             k == Len(a) + 1
             I == {i \in 1..Len(s) : s[i] = x}
  <1>1. /\ s \in Seq(A) /\ Len(s) = Len(a) + 1 + Len(b) /\ Len(a) \in Nat /\ Len(b) \in Nat
        /\ s[k] = x /\ \A i \in 1..Len(a) : s[i] = a[i]
    OBVIOUS
  <1>2. k \in 1..Len(s) /\ k \in I
    BY <1>1
  <1>3. \A i \in 1..Len(s) : s[i] = x => k <= i
    BY <1>1 DEF Contains
  <1>4. Min(I) = k
    <2> DEFINE Q(y) == y \in I /\ \A z \in I : y <= z
    <2>1. Q(k)
      BY <1>2, <1>3
    <2>2. \A y : Q(y) => y = k
      BY <1>1, <1>2, <1>3
    <2>3. Min(I) = CHOOSE y \in I : \A z \in I : y <= z
      BY DEF Min
    <2> HIDE DEF I
    <2> QED
      BY <2>1, <2>2, <2>3
  <1>5. RemoveFirst(s, x) = RemoveAt(s, k)
    <2>1. SelectInSeq(s, LAMBDA v : v = x) = Min(I)
      BY <1>2 DEF SelectInSeq
    <2>2. RemoveFirst(s, x) = RemoveAt(s, SelectInSeq(s, LAMBDA v : v = x))
      BY <1>1, <1>2 DEF RemoveFirst
    <2> HIDE DEF I, s
    <2> QED
      BY <1>4, <2>1, <2>2
  <1>6. SubSeq(s, 1, k - 1) = a
    OBVIOUS
  <1>7. SubSeq(s, k + 1, Len(s)) = b
    OBVIOUS
  <1> QED
    BY <1>5, <1>6, <1>7 DEF RemoveAt

-----------------------------------------------------------------------------
(* The invariant *)

IInv == TypeOK /\ IsFiniteSet(runnable) /\ CountsExact /\ EntriesSound

\* The runnable children, in the order in which they became so.
Order == Only(entries, runnable)

\* What the order of the runnable children is worth.
LEMMA OrderFacts ==
    ASSUME IInv
    PROVE  /\ Order \in Seq(Children) /\ Distinct(entries) /\ Distinct(Order)
           /\ \A c : Contains(Order, c) <=> c \in runnable
  <1>1. Distinct(entries) /\ \A c \in runnable : Contains(entries, c)
    BY DEF IInv, EntriesSound, Distinct
  <1>2. entries \in Seq(Children)
    BY DEF IInv, TypeOK
  <1> QED
    BY <1>1, <1>2, OnlyFacts DEF Order

\* The queue this one implements searches and removes as this one does.
LEMMA FifoSame ==
    ASSUME NEW s, NEW c
    PROVE  Fifo!Contains(s, c) = Contains(s, c) /\ Fifo!RemoveFirst(s, c) = RemoveFirst(s, c)
  <1>1. Fifo!Contains(s, c) = Contains(s, c)
    BY DEF Fifo!Contains, Contains
  <1>2. \A k : Fifo!RemoveAt(s, k) = RemoveAt(s, k)
    BY DEF Fifo!RemoveAt, RemoveAt
  <1>3. Fifo!SelectInSeq(s, LAMBDA v : v = c) = SelectInSeq(s, LAMBDA v : v = c)
    BY Zenon DEF Fifo!SelectInSeq, SelectInSeq, Fifo!Min, Min
  <1>4. Fifo!RemoveFirst(s, c) = RemoveFirst(s, c)
    BY <1>1, <1>2, <1>3, Zenon DEF Fifo!RemoveFirst, RemoveFirst
  <1> QED
    BY <1>1, <1>4

\* A child is marked, and joins at the end.
LEMMA MarkStep ==
    ASSUME IInv, NEW c \in Children, MarkRunnable(c)
    PROVE  IInv' /\ Fifo!Join(c)
  <1>1. CASE c \in runnable
    <2>1. UNCHANGED <<entries, ready, stale, runnable, settled>> /\ took' = {} /\ c \notin settled
      BY <1>1 DEF MarkRunnable
    <2>2. IInv'
      BY <2>1 DEF IInv, TypeOK, CountsExact, EntriesSound
    <2>3. Contains(Order, c) /\ Order' = Order
      BY <1>1, <2>1, OrderFacts DEF Order
    <2>4. Fifo!Join(c)
      BY <2>1, <2>3, FifoSame DEF Fifo!Join, Order
    <2> QED
      BY <2>2, <2>4
  <1>2. CASE c \notin runnable
    <2>1. /\ c \notin settled /\ runnable' = runnable \union {c} /\ entries' = Append(entries, c) /\ ready' = ready + 1
          /\ took' = {} /\ UNCHANGED <<stale, settled>>
      BY <1>2 DEF MarkRunnable
    <2>2. entries \in Seq(Children) /\ ~Contains(entries, c) /\ Distinct(entries)
      BY <1>2, <2>1 DEF IInv, TypeOK, EntriesSound, Contains, Distinct
    <2>3. /\ entries' \in Seq(Children) /\ Len(entries') = Len(entries) + 1 /\ Len(entries) \in Nat
          /\ entries'[Len(entries) + 1] = c /\ \A i \in 1..Len(entries) : entries'[i] = entries[i]
          /\ \A i \in 1..(Len(entries) + 1) : i \in 1..Len(entries) \/ i = Len(entries) + 1
          /\ \A y : Contains(entries', y) <=> Contains(entries, y) \/ y = c
          /\ Distinct(entries')
      BY <2>1, <2>2, AppendFacts
    <2>4. IsFiniteSet(runnable') /\ Cardinality(runnable') = Cardinality(runnable) + 1
      BY <1>2, <2>1, FS_AddElement DEF IInv
    <2>5. TypeOK'
      BY <2>1, <2>3 DEF IInv, TypeOK
    <2>6. CountsExact'
      BY <2>1, <2>3, <2>4 DEF IInv, TypeOK, CountsExact
    <2>7. EntriesSound'
      <3>1. \A d \in runnable' : Contains(entries, d)'
        BY <2>1, <2>3 DEF IInv, EntriesSound
      <3>2. runnable' \cap settled' = {}
        BY <2>1 DEF IInv, EntriesSound
      <3>3. \A i \in 1..Len(entries') : entries'[i] \in runnable' \union settled'
        BY <2>1, <2>3 DEF IInv, EntriesSound
      <3> QED
        BY <2>3, <3>1, <3>2, <3>3 DEF EntriesSound, Distinct
    <2>8. Order' = Append(Order, c)
      <3>1. Only(entries, runnable \union {c}) = Only(entries, runnable)
        BY <2>2, OnlySame
      <3>2. Only(Append(entries, c), runnable \union {c}) = Append(Only(entries, runnable \union {c}), c)
        BY <2>2, OnlyAppend
      <3> QED
        BY <2>1, <3>1, <3>2 DEF Order
    <2>9. ~Contains(Order, c)
      BY <1>2, OrderFacts
    <2>10. Fifo!Join(c)
      BY <2>1, <2>8, <2>9, FifoSame DEF Fifo!Join, Order
    <2> QED
      BY <2>4, <2>5, <2>6, <2>7, <2>10 DEF IInv
  <1> QED
    BY <1>1, <1>2

\* A runnable child leaves the selection it was in.
LEMMA OnlyLeaves ==
    ASSUME NEW s \in Seq(Children), NEW S, NEW c \in S, Distinct(s), Contains(s, c)
    PROVE  Only(s, S \ {c}) = RemoveFirst(Only(s, S), c)
  <1>1. PICK i \in 1..Len(s) : s[i] = c
    BY DEF Contains
  <1> DEFINE p == SubSeq(s, 1, i - 1)
             q == SubSeq(s, i + 1, Len(s))
             R == S \ {c}
  <1>2. /\ p \in Seq(Children) /\ q \in Seq(Children) /\ c \in Children /\ s = Append(p, c) \o q
        /\ ~Contains(p, c) /\ ~Contains(q, c)
    BY <1>1, Around
  <1> HIDE DEF p, q
  <1>3. /\ Only(p, S) \in Seq(Children) /\ Only(q, S) \in Seq(Children)
        /\ Only(s, S) = Append(Only(p, S), c) \o Only(q, S)
    BY <1>2, OnlyAround
  <1>4. ~Contains(Only(p, S), c)
    BY <1>2, OnlyFacts
  <1>5. RemoveFirst(Only(s, S), c) = Only(p, S) \o Only(q, S)
    BY <1>2, <1>3, <1>4, FirstOf
  <1>6. Only(p, R) = Only(p, S) /\ Only(q, R) = Only(q, S)
    <2>1. \A d : d # c => (d \in R <=> d \in S)
      OBVIOUS
    <2> HIDE DEF R
    <2>2. /\ \A d : Contains(p, d) => (d \in R <=> d \in S)
          /\ \A d : Contains(q, d) => (d \in R <=> d \in S)
      BY <1>2, <2>1
    <2> QED
      BY <1>2, <2>2, OnlySame
  <1>7. Only(s, R) = Only(p, R) \o Only(q, R)
    <2> DEFINE a == Append(p, c)
    <2>1. a \in Seq(Children)
      BY <1>2
    <2>2. Only(a, R) = Only(p, R)
      BY <1>2, OnlyAppend
    <2> HIDE DEF a
    <2>3. Only(a \o q, R) = Only(a, R) \o Only(q, R)
      BY <1>2, <2>1, OnlyConcat
    <2> QED
      BY <1>2, <2>2, <2>3 DEF a
  <1> QED
    BY <1>5, <1>6, <1>7

\* A child settles, and leaves without being taken; compaction changes nothing
\* of the order.
LEMMA SettleStep ==
    ASSUME IInv, NEW c \in Children, SettleChild(c)
    PROVE  IInv' /\ Fifo!Leave(c)
  <1>0. entries \in Seq(Children) /\ Distinct(entries) /\ Len(entries) \in Nat
    BY OrderFacts DEF IInv, TypeOK
  <1>1. c \notin settled /\ settled' = settled \union {c} /\ took' = {}
    BY DEF SettleChild
  <1>2. CASE c \notin runnable
    <2>1. UNCHANGED <<entries, ready, stale, runnable>>
      BY <1>2 DEF SettleChild
    <2>2. IInv'
      BY <1>1, <1>2, <2>1 DEF IInv, TypeOK, CountsExact, EntriesSound
    <2>3. RemoveFirst(Order, c) = Order
      BY <1>2, OrderFacts DEF RemoveFirst, Contains
    <2>4. Fifo!Leave(c)
      BY <1>1, <2>1, <2>3, FifoSame DEF Fifo!Leave, Order
    <2> QED
      BY <2>2, <2>4
  <1>3. CASE c \in runnable
    <2> DEFINE kept == runnable \ {c}
               waste == stale + 1
    <2>1. runnable' = kept /\ ready' = ready - 1 /\ CompactQueue(kept, waste)
      BY <1>3 DEF SettleChild
    <2>2. IsFiniteSet(kept) /\ Cardinality(kept) = Cardinality(runnable) - 1
      BY <1>3, FS_RemoveElement DEF IInv
    <2>3. ready - 1 = Cardinality(kept) /\ (ready - 1) + waste = Len(entries) /\ waste \in Nat /\ Cardinality(kept) \in Nat
      BY <2>2, FS_CardinalityType DEF IInv, TypeOK, CountsExact
    <2>4. Contains(entries, c) /\ \A d \in kept : Contains(entries, d)
      BY <1>3 DEF IInv, EntriesSound
    <2>5. Only(entries, kept) = RemoveFirst(Order, c)
      BY <1>0, <1>3, <2>4, OnlyLeaves DEF Order
    <2>6. \A i \in 1..Len(entries) : entries[i] \in kept \union settled'
      BY <1>1 DEF IInv, EntriesSound
    <2>7. kept \cap settled' = {} /\ kept \subseteq Children /\ settled' \subseteq Children
      BY <1>1 DEF IInv, EntriesSound, TypeOK
    <2>8. CASE waste > Threshold /\ waste > Cardinality(kept)
      <3> DEFINE rest == Only(entries, kept)
      <3>1. entries' = rest /\ stale' = 0
        BY <2>1, <2>8 DEF CompactQueue
      <3>2. rest \in Seq(Children) /\ Distinct(rest) /\ \A d : Contains(rest, d) <=> d \in kept
        BY <1>0, <2>4, OnlyFacts
      <3> HIDE DEF rest, kept
      <3>3. Len(rest) = Cardinality(kept)
        BY <3>2, DistinctCount
      <3>4. \A i \in 1..Len(rest) : rest[i] \in kept
        BY <3>2 DEF Contains
      <3>5. Only(rest, kept) = rest
        BY <3>2, <3>4, OnlyFacts
      <3>6. TypeOK' /\ CountsExact'
        BY <1>1, <2>1, <2>3, <2>7, <3>1, <3>2, <3>3 DEF TypeOK, CountsExact
      <3>7. EntriesSound'
        BY <2>1, <2>7, <3>1, <3>2, <3>4 DEF EntriesSound, Distinct
      <3>8. Order' = RemoveFirst(Order, c)
        BY <2>1, <2>5, <3>1, <3>5 DEF Order, rest
      <3>9. Fifo!Leave(c)
        BY <1>1, <3>8, FifoSame DEF Fifo!Leave, Order
      <3> QED
        BY <2>1, <2>2, <3>6, <3>7, <3>9 DEF IInv
    <2>9. CASE ~(waste > Threshold /\ waste > Cardinality(kept))
      <3>1. entries' = entries /\ stale' = waste
        BY <2>1, <2>9 DEF CompactQueue
      <3> HIDE DEF kept, waste
      <3>2. TypeOK' /\ CountsExact'
        BY <1>0, <1>1, <2>1, <2>3, <2>7, <3>1 DEF TypeOK, CountsExact
      <3>3. EntriesSound'
        BY <1>0, <2>1, <2>4, <2>6, <2>7, <3>1 DEF EntriesSound, Distinct
      <3>4. Order' = RemoveFirst(Order, c)
        BY <2>1, <2>5, <3>1 DEF Order
      <3>5. Fifo!Leave(c)
        BY <1>1, <3>4, FifoSame DEF Fifo!Leave, Order
      <3> QED
        BY <2>1, <2>2, <3>2, <3>3, <3>5 DEF IInv
    <2> QED
      BY <2>8, <2>9
  <1> QED
    BY <1>2, <1>3

\* What is taken is the first in order, and what was skipped was stale.
LEMMA TakeStep == ASSUME IInv, TakeRunnable PROVE IInv' /\ Fifo!TakeNext
  <1>0. entries \in Seq(Children) /\ Distinct(entries) /\ Len(entries) \in Nat
    BY OrderFacts DEF IInv, TypeOK
  <1>1. CASE /\ \A i \in 1..Len(entries) : entries[i] \notin runnable
             /\ entries' = <<>> /\ stale' = 0 /\ took' = {}
             /\ UNCHANGED <<ready, runnable, settled>>
    <2>1. runnable = {}
      BY <1>1 DEF IInv, EntriesSound, Contains
    <2>2. ready = 0
      BY <2>1, FS_EmptySet DEF IInv, CountsExact
    <2>3. Order = <<>> /\ Order' = <<>>
      BY <1>0, <1>1, OnlyFacts, OnlyEmpty DEF Order
    <2>4. entries' \in Seq(Children) /\ Len(entries') = 0
      BY <1>1
    <2>5. IInv'
      BY <1>1, <2>1, <2>2, <2>4, FS_EmptySet DEF IInv, TypeOK, CountsExact, EntriesSound
    <2> QED
      BY <1>1, <2>3, <2>5 DEF Fifo!TakeNext, Order
  <1>2. ASSUME NEW i \in 1..Len(entries),
               entries[i] \in runnable, \A j \in 1..(i - 1) : entries[j] \notin runnable,
               entries' = SubSeq(entries, i + 1, Len(entries)), runnable' = runnable \ {entries[i]},
               ready' = ready - 1, stale' = stale - (i - 1), took' = {entries[i]}, UNCHANGED settled
        PROVE  IInv' /\ Fifo!TakeNext
    <2> DEFINE p == SubSeq(entries, 1, i - 1)
               q == SubSeq(entries, i + 1, Len(entries))
               e == entries[i]
               kept == runnable \ {e}
    <2>1. /\ p \in Seq(Children) /\ q \in Seq(Children) /\ e \in Children /\ entries = Append(p, e) \o q
          /\ \A c : Contains(entries, c) <=> Contains(p, c) \/ Contains(q, c) \/ c = e
          /\ Len(q) = Len(entries) - i /\ Len(p) = i - 1
          /\ Distinct(q) /\ ~Contains(p, e) /\ ~Contains(q, e)
      <3>1. /\ p \in Seq(Children) /\ q \in Seq(Children) /\ entries[i] \in Children /\ entries = Append(p, entries[i]) \o q
            /\ \A c : Contains(entries, c) <=> Contains(p, c) \/ Contains(q, c) \/ c = entries[i]
            /\ Len(q) = Len(entries) - i /\ Len(p) = i - 1
            /\ Distinct(entries) => Distinct(q) /\ ~Contains(p, entries[i]) /\ ~Contains(q, entries[i])
        BY <1>0, Around, Zenon
      <3> QED
        BY <1>0, <3>1, Zenon
    <2>2. \A j \in 1..Len(p) : p[j] \notin runnable
      <3>1. i \in Nat /\ i <= Len(entries) /\ Len(p) = i - 1
        BY <1>0, <2>1
      <3>2. \A j \in 1..(i - 1) : p[j] = entries[j]
        BY <1>0, <3>1
      <3> QED
        BY <1>2, <3>1, <3>2
    <2>3. entries' = q /\ runnable' = kept /\ took' = {e} /\ e \in runnable
      BY <1>2
    <2>4. \A j \in 1..Len(q) : q[j] \in runnable \union settled
      <3> TAKE j \in 1..Len(q)
      <3>1. Contains(entries, q[j])
        BY <2>1 DEF Contains
      <3> QED
        BY <3>1 DEF IInv, EntriesSound, Contains
    <2> HIDE DEF p, q, e
    <2>5. Only(p, runnable) = <<>>
      BY <2>1, <2>2, OnlyFacts
    <2>6. Only(q, runnable) \in Seq(Children) /\ Order = Append(Only(p, runnable), e) \o Only(q, runnable)
      <3> DEFINE a == Append(p, e)
      <3>1. a \in Seq(Children)
        BY <2>1
      <3>2. Only(a, runnable) = Append(Only(p, runnable), e)
        BY <2>1, <2>3, OnlyAppend
      <3>3. Only(q, runnable) \in Seq(Children)
        BY <2>1, OnlyFacts
      <3> HIDE DEF a
      <3>4. Only(a \o q, runnable) = Only(a, runnable) \o Only(q, runnable)
        BY <2>1, <3>1, OnlyConcat
      <3>5. Order = Only(a \o q, runnable)
        BY <2>1, Zenon DEF Order, a
      <3> QED
        BY <3>2, <3>3, <3>4, <3>5, Zenon
    <2>7. Order # <<>> /\ Head(Order) = e /\ Tail(Order) = Only(q, runnable)
      BY <2>1, <2>5, <2>6
    <2>8. Order' = Only(q, runnable)
      <3>1. Only(q, kept) = Only(q, runnable)
        BY <2>1, OnlySame
      <3> QED
        BY <2>3, <3>1 DEF Order
    <2>9. Fifo!TakeNext
      BY <1>2, <2>3, <2>7, <2>8 DEF Fifo!TakeNext, Order
    <2>10. IsFiniteSet(kept) /\ Cardinality(kept) = Cardinality(runnable) - 1 /\ Cardinality(kept) \in Nat
      BY <2>3, FS_RemoveElement, FS_CardinalityType DEF IInv
    <2>11. \A c \in kept : Contains(q, c)
      <3> TAKE c \in kept
      <3>1. Contains(entries, c)
        BY DEF IInv, EntriesSound
      <3>2. ~Contains(p, c)
        BY <2>2 DEF Contains
      <3> QED
        BY <2>1, <3>1, <3>2
    <2>12. Cardinality(kept) <= Len(q)
      <3>1. Only(q, kept) \in Seq(Children) /\ Distinct(Only(q, kept)) /\ Len(Only(q, kept)) <= Len(q)
        BY <2>1, OnlyFacts
      <3>2. \A c : Contains(Only(q, kept), c) <=> c \in kept
        BY <2>1, <2>11, OnlyFacts
      <3> HIDE DEF kept
      <3>3. Cardinality(kept) = Len(Only(q, kept))
        BY <3>1, <3>2, DistinctCount
      <3> QED
        BY <3>1, <3>3
    <2>13. ready - 1 = Cardinality(kept) /\ (ready - 1) + (stale - (i - 1)) = Len(q) /\ stale - (i - 1) \in Nat
      BY <1>0, <2>1, <2>10, <2>12 DEF IInv, TypeOK, CountsExact
    <2>14. TypeOK' /\ CountsExact'
      BY <1>2, <2>1, <2>3, <2>10, <2>13 DEF IInv, TypeOK, CountsExact
    <2>15. EntriesSound'
      <3>1. \A j \in 1..Len(q) : q[j] \in kept \union settled
        BY <2>1, <2>4 DEF Contains
      <3>2. kept \cap settled = {}
        BY DEF IInv, EntriesSound
      <3> HIDE DEF kept
      <3> QED
        BY <1>2, <2>1, <2>3, <2>11, <3>1, <3>2 DEF EntriesSound, Distinct
    <2> QED
      BY <2>3, <2>9, <2>10, <2>14, <2>15 DEF IInv
  <1> QED
    BY <1>1, <1>2 DEF TakeRunnable

\* The start.
LEMMA InitInv == Init => IInv /\ Fifo!FifoInit
  <1> SUFFICES ASSUME Init PROVE IInv /\ Fifo!FifoInit
    OBVIOUS
  <1>1. entries \in Seq(Children) /\ Len(entries) = 0
    BY DEF Init
  <1>2. IInv
    BY <1>1, FS_EmptySet DEF Init, IInv, TypeOK, CountsExact, EntriesSound
  <1> QED
    BY <1>2, OnlyEmpty DEF Init, Fifo!FifoInit

\* Every step keeps the counters and is one of the FIFO.
LEMMA InvStep ==
    ASSUME IInv, [Next]_vars
    PROVE  IInv' /\ [Fifo!FifoNext]_(Fifo!fifoVars)
  <1>1. CASE UNCHANGED vars
    BY <1>1 DEF vars, IInv, TypeOK, CountsExact, EntriesSound, Fifo!fifoVars
  <1>2. CASE Next
    BY <1>2, MarkStep, SettleStep, TakeStep DEF Next, Fifo!FifoNext
  <1> QED
    BY <1>1, <1>2

-----------------------------------------------------------------------------
\* For any children and threshold: however marking, settling, taking and
\* compaction interleave, `ready` counts the runnable children and `stale` the
\* entries that settled children left, no child is in the array twice, and what
\* is there and not runnable has settled.
THEOREM CountersAlwaysExact == Spec => [](TypeOK /\ CountsExact /\ EntriesSound)
  <1>1. Init => IInv
    BY InitInv
  <1>2. IInv /\ [Next]_vars => IInv'
    BY InvStep
  <1>3. IInv => TypeOK /\ CountsExact /\ EntriesSound
    BY DEF IInv
  <1> QED
    BY <1>1, <1>2, <1>3, PTL DEF Spec

\* The array with its stale entries and its compaction implements the FIFO of
\* runnable children that the scope's driver relies on.
THEOREM Refinement == Spec => ImplementsFifo
  <1>1. Init => IInv /\ Fifo!FifoInit
    BY InitInv
  <1>2. IInv /\ [Next]_vars => IInv' /\ [Fifo!FifoNext]_(Fifo!fifoVars)
    BY InvStep
  <1> QED
    BY <1>1, <1>2, PTL DEF Spec, ImplementsFifo, Fifo!FifoSpec
=============================================================================
