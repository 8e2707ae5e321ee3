------------------------- MODULE PortChannel_proofs -------------------------
(***************************************************************************)
(* A browser channel, for any limits, sizes, numbers of moves and of       *)
(* values: credits never exceed the limits, an end has one owner, nobody   *)
(* sleeps on a ready end, and, where a moved end leaves at once, nothing   *)
(* that was accepted is lost and every credit is somewhere.                *)
(***************************************************************************)
EXTENDS PortChannel, Integers, WellFoundedInduction, TLAPS

-----------------------------------------------------------------------------
(* Induction *)

\* Over the naturals, with the property as a set.
LEMMA NatSet ==
    ASSUME NEW T, 0 \in T, \A n \in Nat : n \in T => n + 1 \in T
    PROVE  \A n \in Nat : n \in T
  <1> SUFFICES ASSUME NEW k \in Nat, k \notin T PROVE FALSE
    OBVIOUS
  <1> DEFINE U == Nat \ T
             R == OpToRel(<, Nat)
  <1>1. IsWellFoundedOn(R, Nat)
    BY NatLessThanWellFounded
  <1>2. U \subseteq Nat /\ U # {}
    OBVIOUS
  <1> HIDE DEF R
  <1>3. PICK x \in U : \A y \in U : ~(<<y, x>> \in R)
    BY <1>1, <1>2, WFMin
  <1>4. x \in Nat /\ x # 0
    OBVIOUS
  <1>5. x - 1 \in Nat /\ x - 1 \in U
    BY <1>4
  <1>6. <<x - 1, x>> \in R
    BY <1>4, <1>5 DEF R, OpToRel
  <1> QED
    BY <1>3, <1>5, <1>6

\* Over sequences, which grow at their end.
LEMMA SeqSet ==
    ASSUME NEW A, NEW T, <<>> \in T, \A s \in Seq(A), x \in A : s \in T => Append(s, x) \in T
    PROVE  \A s \in Seq(A) : s \in T
  <1> DEFINE L == {n \in Nat : \A s \in Seq(A) : Len(s) = n => s \in T}
  <1>1. 0 \in L
    OBVIOUS
  <1>2. ASSUME NEW n \in Nat, n \in L PROVE n + 1 \in L
    <2> SUFFICES ASSUME NEW s \in Seq(A), Len(s) = n + 1 PROVE s \in T
      OBVIOUS
    <2> DEFINE f == SubSeq(s, 1, n)
    <2>1. f \in Seq(A) /\ Len(f) = n /\ s[n + 1] \in A
      OBVIOUS
    <2>2. s = Append(f, s[n + 1])
      OBVIOUS
    <2>3. f \in T
      BY <1>2, <2>1
    <2> HIDE DEF f
    <2> QED
      BY <2>1, <2>2, <2>3
  <1> HIDE DEF L
  <1>3. \A n \in Nat : n \in L
    BY <1>1, <1>2, NatSet
  <1> QED
    BY <1>3 DEF L

-----------------------------------------------------------------------------
(* The messages of a kind, and their bytes *)

\* The messages of one kind of a sequence's beginnings.
OfKinds(s, k, g) ==
    /\ g = [i \in 0..Len(s) |-> g[i]] /\ g[0] = <<>>
    /\ \A i \in 1..Len(s) : g[i] = IF s[i].kind = k THEN Append(g[i - 1], s[i]) ELSE g[i - 1]

\* They determine what OfKind computes.
LEMMA OfKindUnique ==
    ASSUME NEW A, NEW k, NEW s \in Seq(A), NEW g, OfKinds(s, k, g)
    PROVE  OfKind(s, k) = g[Len(s)]
  <1> DEFINE n == Len(s)
             Eq(f) == f = [i \in 0..n |-> IF i = 0 THEN <<>> ELSE IF s[i].kind = k THEN Append(f[i - 1], s[i]) ELSE f[i - 1]]
             t == CHOOSE f : Eq(f)
  <1>0. n \in Nat
    OBVIOUS
  <1>1. OfKind(s, k) = t[n]
    BY DEF OfKind
  <1>2. Eq(g)
    BY <1>0 DEF OfKinds
  <1>3. Eq(t)
    BY <1>2
  <1> HIDE DEF t
  <1>4. \A i \in 0..n : t[i] = IF i = 0 THEN <<>> ELSE IF s[i].kind = k THEN Append(t[i - 1], s[i]) ELSE t[i - 1]
    BY <1>3, Zenon
  <1>5. t[0] = <<>> /\ \A i \in 1..n : t[i] = IF s[i].kind = k THEN Append(t[i - 1], s[i]) ELSE t[i - 1]
    <2>1. 0 \in 0..n /\ \A i \in 1..n : i \in 0..n /\ i # 0
      BY <1>0
    <2> QED
      BY <1>4, <2>1
  <1> HIDE DEF Eq
  <1> DEFINE T == {i \in Nat : i <= n => t[i] = g[i]}
  <1>6. 0 \in T
    BY <1>5 DEF OfKinds
  <1>7. ASSUME NEW i \in Nat, i \in T PROVE i + 1 \in T
    <2> SUFFICES ASSUME i + 1 <= n PROVE t[i + 1] = g[i + 1]
      OBVIOUS
    <2>1. i + 1 \in 1..n /\ (i + 1) - 1 = i /\ t[i] = g[i]
      BY <1>0, <1>7
    <2> QED
      BY <2>1, <1>5 DEF OfKinds
  <1> HIDE DEF T
  <1>8. \A i \in Nat : i \in T
    BY <1>6, <1>7, NatSet
  <1> QED
    BY <1>0, <1>1, <1>8 DEF T

\* One more message adds one more.
LEMMA OfKindGrows ==
    ASSUME NEW A, NEW k, NEW s \in Seq(A), NEW x \in A, NEW g, OfKinds(s, k, g)
    PROVE  \E h : /\ OfKinds(Append(s, x), k, h)
                  /\ h[Len(s) + 1] = IF x.kind = k THEN Append(g[Len(s)], x) ELSE g[Len(s)]
  <1> DEFINE n == Len(s)
             u == Append(s, x)
             last == IF x.kind = k THEN Append(g[n], x) ELSE g[n]
             h == [i \in 0..(n + 1) |-> IF i = n + 1 THEN last ELSE g[i]]
  <1>1. n \in Nat /\ Len(u) = n + 1 /\ u[n + 1] = x /\ \A i \in 1..n : u[i] = s[i]
    OBVIOUS
  <1>2. h[n + 1] = last /\ \A i \in 0..n : h[i] = g[i]
    BY <1>1
  <1>3. h = [i \in 0..(n + 1) |-> h[i]]
    OBVIOUS
  <1>4. h[0] = <<>>
    BY <1>1, <1>2 DEF OfKinds
  <1> HIDE DEF h, u
  <1>5. ASSUME NEW i \in 1..(n + 1)
        PROVE  h[i] = IF u[i].kind = k THEN Append(h[i - 1], u[i]) ELSE h[i - 1]
    <2>1. CASE i = n + 1
      <3>1. i - 1 = n /\ n \in 0..n
        BY <1>1, <2>1
      <3> QED
        BY <1>1, <1>2, <2>1, <3>1
    <2>2. CASE i # n + 1
      <3>1. i \in 1..n /\ i \in 0..n /\ i - 1 \in 0..n
        BY <1>1, <2>2
      <3>2. g[i] = IF s[i].kind = k THEN Append(g[i - 1], s[i]) ELSE g[i - 1]
        BY <3>1 DEF OfKinds
      <3> QED
        BY <1>1, <1>2, <3>1, <3>2
    <2> QED
      BY <2>1, <2>2
  <1>6. OfKinds(u, k, h)
    BY <1>1, <1>3, <1>4, <1>5 DEF OfKinds
  <1> QED
    BY <1>2, <1>6 DEF u

\* Every sequence has them.
LEMMA OfKindExist ==
    ASSUME NEW A, NEW k, NEW s \in Seq(A)
    PROVE  \E g : OfKinds(s, k, g)
  <1> DEFINE T == {u \in Seq(A) : \E g : OfKinds(u, k, g)}
  <1>1. <<>> \in T
    <2> DEFINE g == [i \in 0..0 |-> <<>>]
    <2>1. OfKinds(<<>>, k, g)
      BY DEF OfKinds
    <2> QED
      BY <2>1
  <1>2. ASSUME NEW u \in Seq(A), NEW x \in A, u \in T PROVE Append(u, x) \in T
    <2>1. PICK g : OfKinds(u, k, g)
      BY <1>2
    <2> QED
      BY <2>1, OfKindGrows
  <1> HIDE DEF T
  <1>3. s \in T
    BY <1>1, <1>2, SeqSet
  <1> QED
    BY <1>3 DEF T

\* The two equations of OfKind.
LEMMA OfKindEmpty == ASSUME NEW k PROVE OfKind(<<>>, k) = <<>>
  <1>0. <<>> \in Seq({}) /\ Len(<<>>) = 0
    OBVIOUS
  <1>1. PICK g : OfKinds(<<>>, k, g)
    BY <1>0, OfKindExist
  <1>2. OfKind(<<>>, k) = g[0]
    BY <1>0, <1>1, OfKindUnique
  <1> QED
    BY <1>1, <1>2 DEF OfKinds

\* One more message at the end.
LEMMA OfKindAppend ==
    ASSUME NEW A, NEW k, NEW s \in Seq(A), NEW x \in A
    PROVE  OfKind(Append(s, x), k) = IF x.kind = k THEN Append(OfKind(s, k), x) ELSE OfKind(s, k)
  <1>1. PICK g : OfKinds(s, k, g)
    BY OfKindExist
  <1>2. PICK h : /\ OfKinds(Append(s, x), k, h)
                 /\ h[Len(s) + 1] = IF x.kind = k THEN Append(g[Len(s)], x) ELSE g[Len(s)]
    BY <1>1, OfKindGrows
  <1>3. OfKind(s, k) = g[Len(s)]
    BY <1>1, OfKindUnique
  <1>4. Append(s, x) \in Seq(A) /\ Len(Append(s, x)) = Len(s) + 1
    OBVIOUS
  <1>5. OfKind(Append(s, x), k) = h[Len(s) + 1]
    BY <1>2, <1>4, OfKindUnique
  <1> QED
    BY <1>2, <1>3, <1>5

\* The bytes of a sequence's beginnings.
Sizeds(s, g) ==
    /\ g = [i \in 0..Len(s) |-> g[i]] /\ g[0] = 0
    /\ \A i \in 1..Len(s) : g[i] = g[i - 1] + s[i].bytes

\* They determine what Sized computes.
LEMMA SizedUnique ==
    ASSUME NEW A, NEW s \in Seq(A), NEW g, Sizeds(s, g)
    PROVE  Sized(s) = g[Len(s)]
  <1> DEFINE n == Len(s)
             Eq(f) == f = [i \in 0..n |-> IF i = 0 THEN 0 ELSE f[i - 1] + s[i].bytes]
             t == CHOOSE f : Eq(f)
  <1>0. n \in Nat
    OBVIOUS
  <1>1. Sized(s) = t[n]
    BY DEF Sized
  <1>2. Eq(g)
    <2>1. g = [i \in 0..n |-> g[i]]
      BY DEF Sizeds
    <2>2. \A i \in 0..n : g[i] = IF i = 0 THEN 0 ELSE g[i - 1] + s[i].bytes
      <3> TAKE i \in 0..n
      <3>1. i # 0 => i \in 1..n
        BY <1>0
      <3> QED
        BY <3>1 DEF Sizeds
    <2>3. [i \in 0..n |-> g[i]] = [i \in 0..n |-> IF i = 0 THEN 0 ELSE g[i - 1] + s[i].bytes]
      BY <2>2, Zenon
    <2> QED
      BY <2>1, <2>3, Zenon
  <1>3. Eq(t)
    BY <1>2
  <1> HIDE DEF t
  <1>4. \A i \in 0..n : t[i] = IF i = 0 THEN 0 ELSE t[i - 1] + s[i].bytes
    BY <1>3, Zenon
  <1>5. t[0] = 0 /\ \A i \in 1..n : t[i] = t[i - 1] + s[i].bytes
    <2>1. 0 \in 0..n /\ \A i \in 1..n : i \in 0..n /\ i # 0
      BY <1>0
    <2> QED
      BY <1>4, <2>1
  <1> HIDE DEF Eq
  <1> DEFINE T == {i \in Nat : i <= n => t[i] = g[i]}
  <1>6. 0 \in T
    BY <1>5 DEF Sizeds
  <1>7. ASSUME NEW i \in Nat, i \in T PROVE i + 1 \in T
    <2> SUFFICES ASSUME i + 1 <= n PROVE t[i + 1] = g[i + 1]
      OBVIOUS
    <2>1. i + 1 \in 1..n /\ (i + 1) - 1 = i /\ t[i] = g[i]
      BY <1>0, <1>7
    <2> QED
      BY <2>1, <1>5 DEF Sizeds
  <1> HIDE DEF T
  <1>8. \A i \in Nat : i \in T
    BY <1>6, <1>7, NatSet
  <1> QED
    BY <1>0, <1>1, <1>8 DEF T

\* One more message adds one more.
LEMMA SizedGrows ==
    ASSUME NEW A, NEW s \in Seq(A), NEW x \in A, NEW g, Sizeds(s, g)
    PROVE  \E h : /\ Sizeds(Append(s, x), h)
                  /\ h[Len(s) + 1] = g[Len(s)] + x.bytes
  <1> DEFINE n == Len(s)
             u == Append(s, x)
             last == g[n] + x.bytes
             h == [i \in 0..(n + 1) |-> IF i = n + 1 THEN last ELSE g[i]]
  <1>1. n \in Nat /\ Len(u) = n + 1 /\ u[n + 1] = x /\ \A i \in 1..n : u[i] = s[i]
    OBVIOUS
  <1>2. h[n + 1] = last /\ \A i \in 0..n : h[i] = g[i]
    BY <1>1
  <1>3. h = [i \in 0..(n + 1) |-> h[i]]
    OBVIOUS
  <1>4. h[0] = 0
    BY <1>1, <1>2 DEF Sizeds
  <1> HIDE DEF h, u
  <1>5. ASSUME NEW i \in 1..(n + 1)
        PROVE  h[i] = h[i - 1] + u[i].bytes
    <2>1. CASE i = n + 1
      <3>1. i - 1 = n /\ n \in 0..n
        BY <1>1, <2>1
      <3> QED
        BY <1>1, <1>2, <2>1, <3>1
    <2>2. CASE i # n + 1
      <3>1. i \in 1..n /\ i \in 0..n /\ i - 1 \in 0..n
        BY <1>1, <2>2
      <3>2. g[i] = g[i - 1] + s[i].bytes
        BY <3>1 DEF Sizeds
      <3> QED
        BY <1>1, <1>2, <3>1, <3>2
    <2> QED
      BY <2>1, <2>2
  <1>6. Sizeds(u, h)
    BY <1>1, <1>3, <1>4, <1>5 DEF Sizeds
  <1> QED
    BY <1>2, <1>6 DEF u

\* Every sequence has them.
LEMMA SizedExist ==
    ASSUME NEW A, NEW s \in Seq(A)
    PROVE  \E g : Sizeds(s, g)
  <1> DEFINE T == {u \in Seq(A) : \E g : Sizeds(u, g)}
  <1>1. <<>> \in T
    <2> DEFINE g == [i \in 0..0 |-> 0]
    <2>1. Sizeds(<<>>, g)
      BY DEF Sizeds
    <2> QED
      BY <2>1
  <1>2. ASSUME NEW u \in Seq(A), NEW x \in A, u \in T PROVE Append(u, x) \in T
    <2>1. PICK g : Sizeds(u, g)
      BY <1>2
    <2> QED
      BY <2>1, SizedGrows
  <1> HIDE DEF T
  <1>3. s \in T
    BY <1>1, <1>2, SeqSet
  <1> QED
    BY <1>3 DEF T

\* The two equations of Sized.
LEMMA SizedEmpty == Sized(<<>>) = 0
  <1>0. <<>> \in Seq({}) /\ Len(<<>>) = 0
    OBVIOUS
  <1>1. PICK g : Sizeds(<<>>, g)
    BY <1>0, SizedExist
  <1>2. Sized(<<>>) = g[0]
    BY <1>0, <1>1, SizedUnique
  <1> QED
    BY <1>1, <1>2 DEF Sizeds

\* One more message at the end.
LEMMA SizedAppend ==
    ASSUME NEW A, NEW s \in Seq(A), NEW x \in A
    PROVE  Sized(Append(s, x)) = Sized(s) + x.bytes
  <1>1. PICK g : Sizeds(s, g)
    BY SizedExist
  <1>2. PICK h : /\ Sizeds(Append(s, x), h)
                 /\ h[Len(s) + 1] = g[Len(s)] + x.bytes
    BY <1>1, SizedGrows
  <1>3. Sized(s) = g[Len(s)]
    BY <1>1, SizedUnique
  <1>4. Append(s, x) \in Seq(A) /\ Len(Append(s, x)) = Len(s) + 1
    OBVIOUS
  <1>5. Sized(Append(s, x)) = h[Len(s) + 1]
    BY <1>2, <1>4, SizedUnique
  <1> QED
    BY <1>2, <1>3, <1>5

\* In front and at the end.
LEMMA BothEnds ==
    ASSUME NEW A, NEW y \in A, NEW w \in Seq(A), NEW x \in A
    PROVE  Append(<<y>> \o w, x) = <<y>> \o Append(w, x)
  <1> DEFINE a == Append(<<y>> \o w, x)
             b == <<y>> \o Append(w, x)
  <1>1. a \in Seq(A) /\ b \in Seq(A) /\ Len(a) = Len(w) + 2 /\ Len(b) = Len(w) + 2 /\ Len(w) \in Nat
    OBVIOUS
  <1>2. \A i \in 1..(Len(w) + 2) : a[i] = b[i]
    OBVIOUS
  <1> HIDE DEF a, b
  <1> QED
    BY <1>1, <1>2

\* At the end of two in a row.
LEMMA EndAppend ==
    ASSUME NEW A, NEW a \in Seq(A), NEW v \in Seq(A), NEW x \in A
    PROVE  Append(a \o v, x) = a \o Append(v, x)
  <1> DEFINE b == Append(a \o v, x)
             c == a \o Append(v, x)
             n == Len(a) + Len(v) + 1
  <1>1. b \in Seq(A) /\ c \in Seq(A) /\ Len(b) = n /\ Len(c) = n /\ n \in Nat
    OBVIOUS
  <1>2. ASSUME NEW i \in 1..n PROVE b[i] = c[i]
    <2>1. CASE i = n
      BY <2>1
    <2>2. CASE i \in 1..Len(a)
      BY <2>2
    <2>3. CASE i \in (Len(a) + 1)..(Len(a) + Len(v))
      BY <2>3
    <2> QED
      BY <2>1, <2>2, <2>3
  <1> HIDE DEF b, c, n
  <1>3. b = c
    BY <1>1, <1>2
  <1> QED
    BY <1>3 DEF b, c

\* The first of what follows joins what came before.
LEMMA FirstJoins ==
    ASSUME NEW A, NEW a \in Seq(A), NEW x \in A, NEW w \in Seq(A), NEW t, t = <<x>> \o w, NEW d, d = Append(a, x)
    PROVE  a \o t = d \o w
  OBVIOUS

Msg(K) == [kind : K, n : Nat, bytes : Nat]

\* Messages of one kind are messages, and bytes are counted.
LEMMA KindType ==
    ASSUME NEW K, NEW k, NEW s \in Seq(Msg(K))
    PROVE  OfKind(s, k) \in Seq(Msg(K)) /\ Sized(s) \in Nat /\ Len(OfKind(s, k)) \in Nat
  <1> DEFINE A == Msg(K)
             T == {u \in Seq(A) : OfKind(u, k) \in Seq(A) /\ Sized(u) \in Nat}
  <1>0. \A x \in A : x.bytes \in Nat
    BY DEF Msg
  <1> HIDE DEF A
  <1>1. <<>> \in T
    <2>1. <<>> \in Seq(A) /\ 0 \in Nat
      OBVIOUS
    <2>2. OfKind(<<>>, k) = <<>> /\ Sized(<<>>) = 0
      BY OfKindEmpty, SizedEmpty
    <2> QED
      BY <2>1, <2>2, Zenon
  <1>2. ASSUME NEW u \in Seq(A), NEW x \in A, u \in T PROVE Append(u, x) \in T
    <2>1. OfKind(u, k) \in Seq(A) /\ Sized(u) \in Nat
      BY <1>2
    <2>2. OfKind(Append(u, x), k) = IF x.kind = k THEN Append(OfKind(u, k), x) ELSE OfKind(u, k)
      BY OfKindAppend
    <2>3. Sized(Append(u, x)) = Sized(u) + x.bytes
      BY SizedAppend
    <2>4. Append(u, x) \in Seq(A) /\ Append(OfKind(u, k), x) \in Seq(A) /\ Sized(u) + x.bytes \in Nat
      BY <1>0, <2>1
    <2> QED
      BY <2>1, <2>2, <2>3, <2>4, Zenon
  <1>3. s \in T
    <2>1. s \in Seq(A)
      BY DEF A
    <2> HIDE DEF T
    <2> QED
      BY <1>1, <1>2, <2>1, SeqSet
  <1> QED
    BY <1>3 DEF A

\* From the front: the bytes, and the messages of one kind.
LEMMA SizedHead ==
    ASSUME NEW K, NEW s \in Seq(Msg(K)), s # <<>>
    PROVE  Sized(s) = Sized(Tail(s)) + Head(s).bytes
  <1> DEFINE A == Msg(K)
             P(u) == u # <<>> => Sized(u) = Sized(Tail(u)) + Head(u).bytes
             T == {u \in Seq(A) : P(u)}
  <1>0. \A x \in A : x.bytes \in Nat
    BY DEF Msg
  <1>9. \A u \in Seq(A) : Sized(u) \in Nat
    BY KindType
  <1> HIDE DEF A
  <1>1. <<>> \in T
    OBVIOUS
  <1>2. ASSUME NEW u \in Seq(A), NEW x \in A, u \in T PROVE Append(u, x) \in T
    <2> DEFINE a == Append(u, x)
    <2>1. Sized(a) = Sized(u) + x.bytes /\ a \in Seq(A)
      BY SizedAppend
    <2>2. Sized(a) = Sized(Tail(a)) + Head(a).bytes
      <3>1. CASE u = <<>>
        <4>1. Tail(a) = <<>> /\ Head(a) = x
          BY <3>1
        <4>2. Sized(<<>>) = 0
          BY SizedEmpty
        <4>3. Sized(u) = 0 /\ Sized(Tail(a)) = 0
          BY <3>1, <4>1, <4>2, Zenon
        <4> HIDE DEF a
        <4> QED
          BY <2>1, <4>1, <4>3
      <3>2. CASE u # <<>>
        <4>1. Tail(a) = Append(Tail(u), x) /\ Head(a) = Head(u) /\ Tail(u) \in Seq(A) /\ Head(u) \in A
          BY <3>2
        <4>2. Sized(u) = Sized(Tail(u)) + Head(u).bytes
          BY <1>2, <3>2
        <4> HIDE DEF a
        <4> DEFINE v == Tail(u)
        <4>3. v \in Seq(A)
          BY <4>1
        <4> HIDE DEF v
        <4>4. Sized(Append(v, x)) = Sized(v) + x.bytes /\ Sized(v) \in Nat
          BY <1>9, <4>3, SizedAppend
        <4>5. Sized(Tail(a)) = Sized(Append(v, x))
          BY <4>1, Zenon DEF v
        <4>6. Sized(u) = Sized(v) + Head(u).bytes /\ Head(a) = Head(u) /\ Head(u).bytes \in Nat
          BY <1>0, <4>1, <4>2, Zenon DEF v
        <4>7. x.bytes \in Nat
          BY <1>0
        <4> QED
          BY <2>1, <4>4, <4>5, <4>6, <4>7
      <3> QED
        BY <3>1, <3>2
    <2> HIDE DEF a
    <2>3. a \in T
      BY <2>1, <2>2
    <2> QED
      BY <2>3 DEF a
  <1>3. s \in T
    <2>1. s \in Seq(A)
      BY DEF A
    <2> HIDE DEF T
    <2> QED
      BY <1>1, <1>2, <2>1, SeqSet
  <1> QED
    BY <1>3

\* The same of the messages of a kind.
LEMMA KindHead ==
    ASSUME NEW K, NEW k, NEW s \in Seq(Msg(K)), s # <<>>
    PROVE  OfKind(s, k) = IF Head(s).kind = k THEN <<Head(s)>> \o OfKind(Tail(s), k) ELSE OfKind(Tail(s), k)
  <1> DEFINE A == Msg(K)
             Q(y, v) == IF y.kind = k THEN <<y>> \o v ELSE v
             P(u) == u # <<>> => OfKind(u, k) = Q(Head(u), OfKind(Tail(u), k))
             T == {u \in Seq(A) : P(u)}
  <1>9. \A u \in Seq(A) : OfKind(u, k) \in Seq(A)
    BY KindType
  <1> HIDE DEF A
  <1>1. <<>> \in T
    OBVIOUS
  <1>2. ASSUME NEW u \in Seq(A), NEW x \in A, u \in T PROVE Append(u, x) \in T
    <2> DEFINE a == Append(u, x)
    <2>1. OfKind(a, k) = (IF x.kind = k THEN Append(OfKind(u, k), x) ELSE OfKind(u, k)) /\ a \in Seq(A)
      BY OfKindAppend
    <2>2. OfKind(a, k) = Q(Head(a), OfKind(Tail(a), k))
      <3>1. CASE u = <<>>
        <4>1. Tail(a) = <<>> /\ Head(a) = x
          BY <3>1
        <4>2. OfKind(<<>>, k) = <<>>
          BY OfKindEmpty
        <4>3. OfKind(u, k) = <<>> /\ OfKind(Tail(a), k) = <<>>
          BY <3>1, <4>1, <4>2, Zenon
        <4>4. Append(<<>>, x) = <<x>> \o <<>>
          OBVIOUS
        <4> HIDE DEF a
        <4> QED
          BY <2>1, <4>1, <4>3, <4>4
      <3>2. CASE u # <<>>
        <4>1. Tail(a) = Append(Tail(u), x) /\ Head(a) = Head(u) /\ Tail(u) \in Seq(A) /\ Head(u) \in A
          BY <3>2
        <4>2. OfKind(u, k) = Q(Head(u), OfKind(Tail(u), k))
          BY <1>2, <3>2
        <4> HIDE DEF a
        <4> DEFINE v == Tail(u)
                   w == OfKind(v, k)
                   y == Head(u)
        <4>3. v \in Seq(A)
          BY <4>1
        <4> HIDE DEF v
        <4>4. OfKind(Append(v, x), k) = IF x.kind = k THEN Append(w, x) ELSE w
          BY <4>3, OfKindAppend
        <4>5. OfKind(Tail(a), k) = OfKind(Append(v, x), k)
          BY <4>1, Zenon DEF v
        <4>6. OfKind(u, k) = Q(y, w) /\ Head(a) = y /\ y \in A
          BY <4>1, <4>2, Zenon DEF v
        <4>7. w \in Seq(A)
          BY <1>9, <4>3
        <4> HIDE DEF w, y
        <4>8. Append(<<y>> \o w, x) = <<y>> \o Append(w, x)
          <5>1. y \in A /\ w \in Seq(A) /\ x \in A
            BY <4>6, <4>7
          <5> HIDE DEF T, P, Q
          <5> QED
            BY ONLY <5>1, BothEnds
        <4> QED
          BY <2>1, <4>4, <4>5, <4>6, <4>8
      <3> QED
        BY <3>1, <3>2
    <2> HIDE DEF a, Q
    <2>3. a \in T
      BY <2>1, <2>2
    <2> QED
      BY <2>3 DEF a
  <1>3. s \in T
    <2>1. s \in Seq(A)
      BY DEF A
    <2> HIDE DEF T
    <2> QED
      BY <1>1, <1>2, <2>1, SeqSet
  <1> QED
    BY <1>3

\* One more message at the end: among those of its kind, and not among others.
LEMMA Appended ==
    ASSUME NEW K, NEW k, NEW s \in Seq(Msg(K)), NEW x \in Msg(K)
    PROVE  /\ Append(s, x) \in Seq(Msg(K)) /\ Append(s, x) # <<>>
           /\ x.kind = k => /\ OfKind(Append(s, x), k) = Append(OfKind(s, k), x)
                            /\ Len(OfKind(Append(s, x), k)) = Len(OfKind(s, k)) + 1
                            /\ Sized(OfKind(Append(s, x), k)) = Sized(OfKind(s, k)) + x.bytes
           /\ x.kind # k => OfKind(Append(s, x), k) = OfKind(s, k)
  <1> DEFINE A == Msg(K)
             v == OfKind(s, k)
  <1>1. OfKind(Append(s, x), k) = IF x.kind = k THEN Append(v, x) ELSE v
    BY OfKindAppend
  <1>2. v \in Seq(A)
    BY KindType
  <1> HIDE DEF A, v
  <1>4. x \in A
    BY DEF A
  <1>3. Sized(Append(v, x)) = Sized(v) + x.bytes /\ Len(Append(v, x)) = Len(v) + 1
    BY <1>2, <1>4, SizedAppend
  <1>5. Append(s, x) \in Seq(A) /\ Append(s, x) # <<>>
    <2>1. s \in Seq(A)
      BY DEF A
    <2> QED
      BY <1>4, <2>1
  <1> QED
    BY <1>1, <1>3, <1>5, Zenon DEF v, A

\* One message fewer at the front.
LEMMA Taken ==
    ASSUME NEW K, NEW k, NEW s \in Seq(Msg(K)), s # <<>>
    PROVE  /\ Head(s) \in Msg(K) /\ Tail(s) \in Seq(Msg(K))
           /\ Head(s).kind = k => /\ OfKind(s, k) = <<Head(s)>> \o OfKind(Tail(s), k)
                                  /\ Len(OfKind(s, k)) = Len(OfKind(Tail(s), k)) + 1
                                  /\ Sized(OfKind(s, k)) = Sized(OfKind(Tail(s), k)) + Head(s).bytes
           /\ Head(s).kind # k => OfKind(s, k) = OfKind(Tail(s), k)
  <1> DEFINE A == Msg(K)
             x == Head(s)
             v == OfKind(Tail(s), k)
             w == <<x>> \o v
  <1>1. OfKind(s, k) = IF x.kind = k THEN w ELSE v
    BY KindHead
  <1>2. Head(s) \in Msg(K) /\ Tail(s) \in Seq(Msg(K))
    OBVIOUS
  <1>3. v \in Seq(Msg(K)) /\ x \in Msg(K)
    <2> DEFINE r == Tail(s)
    <2>1. r \in Seq(Msg(K))
      BY <1>2
    <2> HIDE DEF r
    <2>2. OfKind(r, k) \in Seq(Msg(K))
      BY <2>1, KindType
    <2> QED
      BY <1>2, <2>2, Zenon DEF r
  <1> HIDE DEF v, x
  <1>4. w \in Seq(Msg(K)) /\ w # <<>> /\ Head(w) = x /\ Tail(w) = v /\ Len(w) = Len(v) + 1
    <2>1. v \in Seq(A) /\ x \in A
      BY <1>3
    <2> HIDE DEF A
    <2>2. w \in Seq(A) /\ w # <<>> /\ Head(w) = x /\ Tail(w) = v /\ Len(w) = Len(v) + 1
      BY <2>1
    <2> QED
      BY <2>2 DEF A
  <1> HIDE DEF w
  <1>5. Sized(w) = Sized(Tail(w)) + Head(w).bytes
    BY <1>4, SizedHead
  <1>6. Sized(w) = Sized(v) + x.bytes
    BY <1>4, <1>5, Zenon
  <1> QED
    BY <1>1, <1>2, <1>4, <1>6, Zenon DEF v, x, w

-----------------------------------------------------------------------------
(* The invariant *)

ToReceiver == Msg({"value", "end"})
ToSender == Msg({"credit", "stop"})

\* An end is claimed while it is held and once it is over, and one that is over
\* is closed: nobody adopts it again.
Control ==
    /\ at \in [Ends -> {"held", "loose", "shipped", "over"}]
    /\ closed \in [Ends -> BOOLEAN] /\ claimed \in [Ends -> BOOLEAN]
    /\ waiting \in [Ends -> 0..NoWait] /\ generation \in [Ends -> 1..MaxGeneration]
    /\ owners \in [Ends -> Int] /\ remote \in [Ends -> {"none", "posted", "heard"}]
    /\ \A e \in Ends : (claimed[e] <=> at[e] \in {"held", "over"}) /\ (at[e] = "over" => closed[e])
    /\ OneOwner

\* Each direction carries its own messages.
Data ==
    /\ slots \in Nat /\ room \in Nat /\ retained = Sized(queue)
    /\ queue \in Seq(ToReceiver) /\ sent \in Seq(ToReceiver) /\ got \in Seq(ToReceiver)
    /\ wires = [e \in Ends |-> wires[e]]
    /\ wires["receiver"] \in Seq(ToReceiver) /\ wires["sender"] \in Seq(ToSender)

\* Credits are never more than the limits: an end that closes or perishes, a
\* value sent to one that is over and a message lost on the page only take some.
Within ==
    /\ slots + Len(Values(wires["receiver"])) + Len(queue) + Len(Credits(wires["sender"])) <= Messages
    /\ room + Sized(Values(wires["receiver"])) + Sized(queue) + Sized(Credits(wires["sender"])) <= Bytes

LinkInv == Control /\ Data /\ Within /\ WaitersSound

\* What is counted is a number.
LEMMA Counted ==
    ASSUME Data
    PROVE  /\ Len(Values(wires["receiver"])) \in Nat /\ Sized(Values(wires["receiver"])) \in Nat
           /\ Len(Credits(wires["sender"])) \in Nat /\ Sized(Credits(wires["sender"])) \in Nat
           /\ Len(queue) \in Nat /\ Sized(queue) \in Nat
           /\ Values(wires["receiver"]) \in Seq(ToReceiver)
  <1>1. wires["receiver"] \in Seq(Msg({"value", "end"})) /\ wires["sender"] \in Seq(Msg({"credit", "stop"}))
        /\ queue \in Seq(Msg({"value", "end"}))
    BY DEF Data, ToReceiver, ToSender
  <1> DEFINE v == OfKind(wires["receiver"], "value")
             c == OfKind(wires["sender"], "credit")
  <1>2. v \in Seq(Msg({"value", "end"})) /\ Len(v) \in Nat
    BY <1>1, KindType
  <1>3. c \in Seq(Msg({"credit", "stop"})) /\ Len(c) \in Nat
    BY <1>1, KindType
  <1> HIDE DEF v, c
  <1>4. Sized(v) \in Nat /\ Sized(c) \in Nat /\ Sized(queue) \in Nat
    BY <1>1, <1>2, <1>3, KindType
  <1>5. Len(queue) \in Nat
    BY <1>1
  <1> QED
    BY <1>2, <1>3, <1>4, <1>5 DEF v, c, Values, Credits, ToReceiver

\* What no kind's messages are.
LEMMA NoneSized ==
    /\ Values(<<>>) = <<>> /\ Credits(<<>>) = <<>> /\ Sized(<<>>) = 0 /\ Len(<<>>) = 0
    /\ <<>> \in Seq(ToReceiver) /\ <<>> \in Seq(ToSender)
  <1>1. OfKind(<<>>, "value") = <<>> /\ OfKind(<<>>, "credit") = <<>> /\ Sized(<<>>) = 0
    BY OfKindEmpty, SizedEmpty
  <1>2. Len(<<>>) = 0 /\ <<>> \in Seq(ToReceiver) /\ <<>> \in Seq(ToSender)
    OBVIOUS
  <1> QED
    BY <1>1, <1>2, Zenon DEF Values, Credits

\* A message posted to the receiver.
LEMMA PostedForward ==
    ASSUME Data, NEW m \in ToReceiver, NEW W, W = Posted("receiver", m)
    PROVE  /\ W = [e \in Ends |-> W[e]] /\ W["sender"] = wires["sender"] /\ W["receiver"] \in Seq(ToReceiver)
           /\ at["receiver"] = "over" => W = wires
           /\ m.kind # "value" => Values(W["receiver"]) = Values(wires["receiver"])
           /\ m.kind = "value" /\ at["receiver"] # "over" =>
                 /\ Values(W["receiver"]) = Append(Values(wires["receiver"]), m)
                 /\ Len(Values(W["receiver"])) = Len(Values(wires["receiver"])) + 1
                 /\ Sized(Values(W["receiver"])) = Sized(Values(wires["receiver"])) + m.bytes
  <1> DEFINE s == wires["receiver"]
             a == Append(s, m)
  <1>1. s \in Seq(Msg({"value", "end"})) /\ m \in Msg({"value", "end"}) /\ wires = [e \in Ends |-> wires[e]]
    BY DEF Data, ToReceiver
  <1>2. CASE at["receiver"] = "over"
    BY <1>1, <1>2 DEF Posted, ToReceiver
  <1>3. CASE at["receiver"] # "over"
    <2>1. W = [wires EXCEPT !["receiver"] = a]
      BY <1>3 DEF Posted
    <2> HIDE DEF a, s
    <2>2. W["receiver"] = a /\ W["sender"] = wires["sender"] /\ W = [e \in Ends |-> W[e]]
      BY <1>1, <2>1 DEF Ends
    <2>3. /\ a \in Seq(Msg({"value", "end"}))
          /\ m.kind = "value" => /\ OfKind(a, "value") = Append(OfKind(s, "value"), m)
                                 /\ Len(OfKind(a, "value")) = Len(OfKind(s, "value")) + 1
                                 /\ Sized(OfKind(a, "value")) = Sized(OfKind(s, "value")) + m.bytes
          /\ m.kind # "value" => OfKind(a, "value") = OfKind(s, "value")
      BY <1>1, Appended DEF a
    <2> QED
      BY <1>3, <2>2, <2>3, Zenon DEF Values, ToReceiver, s
  <1> QED
    BY <1>2, <1>3

\* A message posted to the sender.
LEMMA PostedBack ==
    ASSUME Data, NEW m \in ToSender, NEW W, W = Posted("sender", m)
    PROVE  /\ W = [e \in Ends |-> W[e]] /\ W["receiver"] = wires["receiver"] /\ W["sender"] \in Seq(ToSender)
           /\ at["sender"] = "over" => W = wires
           /\ m.kind # "credit" => Credits(W["sender"]) = Credits(wires["sender"])
           /\ m.kind = "credit" /\ at["sender"] # "over" =>
                 /\ Len(Credits(W["sender"])) = Len(Credits(wires["sender"])) + 1
                 /\ Sized(Credits(W["sender"])) = Sized(Credits(wires["sender"])) + m.bytes
  <1> DEFINE s == wires["sender"]
             a == Append(s, m)
  <1>1. s \in Seq(Msg({"credit", "stop"})) /\ m \in Msg({"credit", "stop"}) /\ wires = [e \in Ends |-> wires[e]]
    BY DEF Data, ToSender
  <1>2. CASE at["sender"] = "over"
    BY <1>1, <1>2 DEF Posted, ToSender
  <1>3. CASE at["sender"] # "over"
    <2>1. W = [wires EXCEPT !["sender"] = a]
      BY <1>3 DEF Posted
    <2> HIDE DEF a, s
    <2>2. W["sender"] = a /\ W["receiver"] = wires["receiver"] /\ W = [e \in Ends |-> W[e]]
      BY <1>1, <2>1 DEF Ends
    <2>3. /\ a \in Seq(Msg({"credit", "stop"}))
          /\ m.kind = "credit" => /\ Len(OfKind(a, "credit")) = Len(OfKind(s, "credit")) + 1
                                  /\ Sized(OfKind(a, "credit")) = Sized(OfKind(s, "credit")) + m.bytes
          /\ m.kind # "credit" => OfKind(a, "credit") = OfKind(s, "credit")
      BY <1>1, Appended DEF a
    <2> QED
      BY <1>3, <2>2, <2>3, Zenon DEF Credits, ToSender, s
  <1> QED
    BY <1>2, <1>3

\* The sender's first message, and what is left.
LEMMA SenderFirst ==
    ASSUME Data, wires["sender"] # <<>>
    PROVE  LET p == Head(wires["sender"])
               r == Tail(wires["sender"]) IN
           /\ p \in ToSender /\ p.bytes \in Nat /\ p.kind \in {"credit", "stop"} /\ r \in Seq(ToSender)
           /\ p.kind = "credit" => /\ Len(Credits(wires["sender"])) = Len(Credits(r)) + 1
                                   /\ Sized(Credits(wires["sender"])) = Sized(Credits(r)) + p.bytes
           /\ p.kind # "credit" => Credits(wires["sender"]) = Credits(r)
           /\ Len(Credits(r)) \in Nat /\ Sized(Credits(r)) \in Nat
  <1> DEFINE s == wires["sender"]
             p == Head(s)
             r == Tail(s)
             K == {"credit", "stop"}
  <1>1. s \in Seq(Msg(K))
    BY DEF Data, ToSender
  <1> HIDE DEF s, K
  <1>2. /\ p \in Msg(K) /\ r \in Seq(Msg(K))
        /\ p.kind = "credit" => /\ OfKind(s, "credit") = <<p>> \o OfKind(r, "credit")
                                /\ Len(OfKind(s, "credit")) = Len(OfKind(r, "credit")) + 1
                                /\ Sized(OfKind(s, "credit")) = Sized(OfKind(r, "credit")) + p.bytes
        /\ p.kind # "credit" => OfKind(s, "credit") = OfKind(r, "credit")
    BY <1>1, Taken DEF s
  <1> HIDE DEF p, r
  <1> DEFINE c == OfKind(r, "credit")
  <1>3. c \in Seq(Msg(K)) /\ Len(c) \in Nat
    BY <1>2, KindType
  <1> HIDE DEF c
  <1>4. Sized(c) \in Nat
    BY <1>3, KindType
  <1>5. p.bytes \in Nat /\ p.kind \in K
    BY <1>2 DEF Msg
  <1> QED
    BY <1>2, <1>3, <1>4, <1>5, Zenon DEF Credits, ToSender, s, p, r, K, c

\* The receiver's.
LEMMA ReceiverFirst ==
    ASSUME Data, wires["receiver"] # <<>>
    PROVE  LET p == Head(wires["receiver"])
               r == Tail(wires["receiver"]) IN
           /\ p \in ToReceiver /\ p.bytes \in Nat /\ p.kind \in {"value", "end"} /\ r \in Seq(ToReceiver)
           /\ p.kind = "value" => /\ Values(wires["receiver"]) = <<p>> \o Values(r)
                                  /\ Len(Values(wires["receiver"])) = Len(Values(r)) + 1
                                  /\ Sized(Values(wires["receiver"])) = Sized(Values(r)) + p.bytes
           /\ p.kind # "value" => Values(wires["receiver"]) = Values(r)
           /\ Len(Values(r)) \in Nat /\ Sized(Values(r)) \in Nat /\ Values(r) \in Seq(ToReceiver)
  <1> DEFINE s == wires["receiver"]
             p == Head(s)
             r == Tail(s)
             K == {"value", "end"}
  <1>1. s \in Seq(Msg(K))
    BY DEF Data, ToReceiver
  <1> HIDE DEF s, K
  <1>2. /\ p \in Msg(K) /\ r \in Seq(Msg(K))
        /\ p.kind = "value" => /\ OfKind(s, "value") = <<p>> \o OfKind(r, "value")
                               /\ Len(OfKind(s, "value")) = Len(OfKind(r, "value")) + 1
                               /\ Sized(OfKind(s, "value")) = Sized(OfKind(r, "value")) + p.bytes
        /\ p.kind # "value" => OfKind(s, "value") = OfKind(r, "value")
    BY <1>1, Taken DEF s
  <1> HIDE DEF p, r
  <1> DEFINE c == OfKind(r, "value")
  <1>3. c \in Seq(Msg(K)) /\ Len(c) \in Nat
    BY <1>2, KindType
  <1> HIDE DEF c
  <1>4. Sized(c) \in Nat
    BY <1>3, KindType
  <1>5. p.bytes \in Nat /\ p.kind \in K
    BY <1>2 DEF Msg
  <1> QED
    BY <1>2, <1>3, <1>4, <1>5, Zenon DEF Values, ToReceiver, s, p, r, K, c

\* All that is counted, as numbers.
Counts ==
    /\ Len(Values(wires["receiver"])) \in Nat /\ Sized(Values(wires["receiver"])) \in Nat
    /\ Len(Credits(wires["sender"])) \in Nat /\ Sized(Credits(wires["sender"])) \in Nat
    /\ Len(queue) \in Nat /\ Sized(queue) \in Nat /\ slots \in Nat /\ room \in Nat
    /\ Messages \in Nat /\ Bytes \in Nat /\ Within

\* What is counted in a state of the invariant.
LEMMA Amounts == ASSUME LinkInv PROVE Counts
  <1>1. Data /\ Within
    BY DEF LinkInv
  <1>2. slots \in Nat /\ room \in Nat
    BY <1>1 DEF Data
  <1> QED
    BY <1>1, <1>2, Counted, PortAssumption DEF Counts

-----------------------------------------------------------------------------
(* The steps *)

\* An end closes: the peer is told unless it is over.
LEMMA CloseStep ==
    ASSUME LinkInv, NEW e \in Ends, at[e] = "held", CloseEnd(e)
    PROVE  LinkInv' /\ (NothingStranded => NothingStranded')
  <1>0. Bytes \in Nat /\ NoWait \in 0..NoWait
    BY PortAssumption DEF NoWait
  <1>a. Counts
    BY Amounts
  <1>1. Control'
    BY <1>0 DEF LinkInv, Control, CloseEnd, Wake, OneOwner, Ends
  <1>2. WaitersSound'
    BY DEF LinkInv, Control, WaitersSound, Available, CloseEnd, Wake, Ends
  <1>3. CASE e = "sender"
    <2> DEFINE W == Posted("receiver", End)
    <2>1. End \in ToReceiver /\ End.kind = "end"
      BY DEF End, ToReceiver, Msg
    <2>2. wires' = [W EXCEPT !["sender"] = <<>>]
      BY <1>3 DEF CloseEnd, Told, Peer
    <2> HIDE DEF W
    <2>3. /\ W = [x \in Ends |-> W[x]] /\ W["sender"] = wires["sender"] /\ W["receiver"] \in Seq(ToReceiver)
          /\ Values(W["receiver"]) = Values(wires["receiver"])
      BY <2>1, PostedForward DEF LinkInv, W
    <2>4. wires' = [x \in Ends |-> wires'[x]] /\ wires'["sender"] = <<>> /\ wires'["receiver"] = W["receiver"]
      BY <2>2, <2>3 DEF Ends
    <2>5. UNCHANGED <<queue, retained, slots, room, sent, got>> /\ closed'["sender"] /\ at'["receiver"] = at["receiver"]
      BY <1>3 DEF CloseEnd, LinkInv, Control, Ends
    <2>6. Data'
      BY <2>3, <2>4, <2>5, NoneSized DEF LinkInv, Data
    <2>7. Values(wires'["receiver"]) = Values(wires["receiver"]) /\ Len(Credits(wires'["sender"])) = 0 /\ Sized(Credits(wires'["sender"])) = 0
      BY <2>3, <2>4, NoneSized, Zenon
    <2>8. Within'
      <3>1. slots' = slots /\ room' = room /\ queue' = queue
        BY <2>5
      <3>8. slots' + Len(Values(wires'["receiver"])) + Len(queue') + Len(Credits(wires'["sender"])) <= Messages
        BY ONLY <2>7, <3>1, <1>a, SMTT(60) DEF Counts, Within
      <3>9. room' + Sized(Values(wires'["receiver"])) + Sized(queue') + Sized(Credits(wires'["sender"])) <= Bytes
        BY ONLY <2>7, <3>1, <1>a, SMTT(60) DEF Counts, Within
      <3> QED
        BY <3>8, <3>9 DEF Within
    <2>9. NothingStranded => NothingStranded'
      BY <2>5, <2>7 DEF NothingStranded, NothingLost, CreditsExact
    <2> QED
      BY <1>1, <1>2, <2>6, <2>8, <2>9 DEF LinkInv
  <1>4. CASE e = "receiver"
    <2> DEFINE W == Posted("sender", Stop)
    <2>1. Stop \in ToSender /\ Stop.kind = "stop"
      BY DEF Stop, ToSender, Msg
    <2>2. wires' = [W EXCEPT !["receiver"] = <<>>]
      BY <1>4 DEF CloseEnd, Told, Peer
    <2> HIDE DEF W
    <2>3. /\ W = [x \in Ends |-> W[x]] /\ W["receiver"] = wires["receiver"] /\ W["sender"] \in Seq(ToSender)
          /\ Credits(W["sender"]) = Credits(wires["sender"])
      BY <2>1, PostedBack DEF LinkInv, W
    <2>4. wires' = [x \in Ends |-> wires'[x]] /\ wires'["receiver"] = <<>> /\ wires'["sender"] = W["sender"]
      BY <2>2, <2>3 DEF Ends
    <2>5. /\ UNCHANGED <<slots, room, sent, got>> /\ queue' = <<>> /\ retained' = 0
          /\ closed'["receiver"] /\ at'["receiver"] = "over"
      BY <1>4 DEF CloseEnd, LinkInv, Control, Ends
    <2>6. Data'
      BY <2>3, <2>4, <2>5, NoneSized DEF LinkInv, Data
    <2>7. /\ Len(Values(wires'["receiver"])) = 0 /\ Sized(Values(wires'["receiver"])) = 0
          /\ Credits(wires'["sender"]) = Credits(wires["sender"]) /\ Len(queue') = 0 /\ Sized(queue') = 0
      BY <2>3, <2>4, <2>5, NoneSized, Zenon
    <2>8. Within'
      <3>1. slots' = slots /\ room' = room
        BY <2>5
      <3>8. slots' + Len(Values(wires'["receiver"])) + Len(queue') + Len(Credits(wires'["sender"])) <= Messages
        BY ONLY <2>7, <3>1, <1>a, SMTT(60) DEF Counts, Within
      <3>9. room' + Sized(Values(wires'["receiver"])) + Sized(queue') + Sized(Credits(wires'["sender"])) <= Bytes
        BY ONLY <2>7, <3>1, <1>a, SMTT(60) DEF Counts, Within
      <3> QED
        BY <3>8, <3>9 DEF Within
    <2>9. NothingStranded => NothingStranded'
      BY <2>5 DEF NothingStranded, NothingLost, CreditsExact
    <2> QED
      BY <1>1, <1>2, <2>6, <2>8, <2>9 DEF LinkInv
  <1> QED
    BY <1>3, <1>4 DEF Ends

\* A value is posted for a credit.
LEMMA SendStep ==
    ASSUME LinkInv, NEW size \in Sizes, TrySend(size)
    PROVE  LinkInv' /\ (NothingStranded => NothingStranded')
  <1> DEFINE m == Value(Len(sent) + 1, size)
  <1>a. Counts
    BY Amounts
  <1>0. /\ size \in Nat /\ Bytes \in Nat /\ Messages \in Nat /\ slots > 0 /\ room >= size
        /\ slots' = slots - 1 /\ room' = room - size /\ sent' = Append(sent, m) /\ wires' = Posted("receiver", m)
        /\ UNCHANGED <<at, closed, queue, retained, waiting, identity, got>>
        /\ slots \in Nat /\ room \in Nat
    BY PortAssumption DEF TrySend, Spent, LinkInv, Data
  <1>1. m \in ToReceiver /\ m.kind = "value" /\ m.bytes = size
    BY <1>0 DEF Value, ToReceiver, Msg, LinkInv, Data
  <1> HIDE DEF m
  <1>2. Control'
    BY <1>0 DEF LinkInv, Control, OneOwner, identity
  <1>3. WaitersSound'
    <2> SUFFICES ASSUME NEW e \in Ends, waiting[e] # NoWait, Available(e, waiting[e])' PROVE Available(e, waiting[e])
      BY <1>0 DEF LinkInv, WaitersSound
    <2>1. waiting[e] \in Nat
      BY PortAssumption DEF LinkInv, Control, NoWait
    <2>2. CASE e = "receiver"
      BY <1>0, <2>2 DEF Available
    <2>3. CASE e = "sender" /\ slots' > 0 /\ room' >= waiting[e]
      BY <1>0, <2>1, <2>3 DEF Available
    <2>4. CASE at[e] # "held" \/ closed[e]
      BY <2>4 DEF Available
    <2> QED
      BY <1>0, <2>2, <2>3, <2>4 DEF Available, Ends
  <1>4. /\ wires' = [e \in Ends |-> wires'[e]] /\ wires'["sender"] = wires["sender"] /\ wires'["receiver"] \in Seq(ToReceiver)
        /\ at["receiver"] = "over" => wires' = wires
        /\ at["receiver"] # "over" =>
              /\ Values(wires'["receiver"]) = Append(Values(wires["receiver"]), m)
              /\ Len(Values(wires'["receiver"])) = Len(Values(wires["receiver"])) + 1
              /\ Sized(Values(wires'["receiver"])) = Sized(Values(wires["receiver"])) + size
    BY <1>0, <1>1, PostedForward DEF LinkInv
  <1>5. Data'
    <2>1. slots' \in Nat /\ room' \in Nat
      BY <1>0
    <2>2. sent' \in Seq(ToReceiver)
      BY <1>0, <1>1 DEF LinkInv, Data
    <2> QED
      BY <1>0, <1>4, <2>1, <2>2 DEF LinkInv, Data
  <1>6. Within'
    <2>0. /\ slots' = slots - 1 /\ room' = room - size /\ slots' \in Nat /\ room' \in Nat /\ size \in Nat
          /\ queue' = queue /\ wires'["sender"] = wires["sender"]
      BY <1>0, <1>4
    <2>1. CASE at["receiver"] = "over"
      <3>1. wires'["receiver"] = wires["receiver"]
        BY <1>4, <2>1
      <3>8. slots' + Len(Values(wires'["receiver"])) + Len(queue') + Len(Credits(wires'["sender"])) <= Messages
        BY ONLY <2>0, <3>1, <1>a, SMTT(60) DEF Counts, Within
      <3>9. room' + Sized(Values(wires'["receiver"])) + Sized(queue') + Sized(Credits(wires'["sender"])) <= Bytes
        BY ONLY <2>0, <3>1, <1>a, SMTT(60) DEF Counts, Within
      <3> QED
        BY <3>8, <3>9 DEF Within
    <2>2. CASE at["receiver"] # "over"
      <3>1. /\ Len(Values(wires'["receiver"])) = Len(Values(wires["receiver"])) + 1
            /\ Sized(Values(wires'["receiver"])) = Sized(Values(wires["receiver"])) + size
        BY <1>4, <2>2
      <3>8. slots' + Len(Values(wires'["receiver"])) + Len(queue') + Len(Credits(wires'["sender"])) <= Messages
        BY ONLY <2>0, <3>1, <1>a, SMTT(60) DEF Counts, Within
      <3>9. room' + Sized(Values(wires'["receiver"])) + Sized(queue') + Sized(Credits(wires'["sender"])) <= Bytes
        BY ONLY <2>0, <3>1, <1>a, SMTT(60) DEF Counts, Within
      <3> QED
        BY <3>8, <3>9 DEF Within
    <2> QED
      BY <2>1, <2>2
  <1>7. NothingLost => NothingLost'
    <2> SUFFICES ASSUME at["receiver"] # "over", sent = got \o queue \o Values(wires["receiver"])
                 PROVE  sent' = got \o queue \o Values(wires'["receiver"])
      BY <1>0 DEF NothingLost
    <2> DEFINE a == got \o queue
               v == Values(wires["receiver"])
    <2>1. a \in Seq(ToReceiver) /\ v \in Seq(ToReceiver)
      BY Counted DEF LinkInv, Data
    <2> HIDE DEF a, v
    <2>2. Append(a \o v, m) = a \o Append(v, m)
      BY ONLY <1>1, <2>1, EndAppend
    <2> QED
      BY <1>0, <1>4, <2>2 DEF a, v
  <1>8. CreditsExact => CreditsExact'
    <2> SUFFICES ASSUME CreditsExact, ~closed["sender"], ~closed["receiver"] PROVE CreditsExact'
      BY <1>0 DEF CreditsExact
    <2>1. at["receiver"] # "over"
      BY DEF LinkInv, Control, Ends
    <2>2. /\ slots' = slots - 1 /\ room' = room - size /\ size \in Nat
          /\ queue' = queue /\ wires'["sender"] = wires["sender"]
      BY <1>0, <1>4
    <2>3. /\ Len(Values(wires'["receiver"])) = Len(Values(wires["receiver"])) + 1
          /\ Sized(Values(wires'["receiver"])) = Sized(Values(wires["receiver"])) + size
      BY <1>4, <2>1
    <2>4. /\ slots + Len(Values(wires["receiver"])) + Len(queue) + Len(Credits(wires["sender"])) = Messages
          /\ room + Sized(Values(wires["receiver"])) + Sized(queue) + Sized(Credits(wires["sender"])) = Bytes
      BY DEF CreditsExact
    <2>5. slots' + Len(Values(wires'["receiver"])) + Len(queue') + Len(Credits(wires'["sender"])) = Messages
      BY ONLY <2>2, <2>3, <2>4, <1>a, SMTT(60) DEF Counts
    <2>6. room' + Sized(Values(wires'["receiver"])) + Sized(queue') + Sized(Credits(wires'["sender"])) = Bytes
      BY ONLY <2>2, <2>3, <2>4, <1>a, SMTT(60) DEF Counts
    <2> QED
      BY <2>5, <2>6 DEF CreditsExact
  <1> QED
    BY <1>2, <1>3, <1>5, <1>6, <1>7, <1>8 DEF LinkInv, NothingStranded

\* A value is consumed, and its credit goes back unless its end is known closed.
LEMMA ReceiveStep ==
    ASSUME LinkInv, TryReceive
    PROVE  LinkInv' /\ (NothingStranded => NothingStranded')
  <1> DEFINE x == Head(queue)
             b == x.bytes
             m == Credit(b)
             r == Tail(queue)
  <1>a. Counts
    BY Amounts
  <1>0. /\ at["receiver"] = "held" /\ queue # <<>> /\ queue' = r /\ retained' = retained - b /\ got' = Append(got, x)
        /\ wires' = IF closed["receiver"] THEN wires ELSE Posted("sender", m)
        /\ UNCHANGED <<at, closed, slots, room, waiting, identity, sent>>
    BY DEF TryReceive, Released, Returned
  <1>1. /\ x \in ToReceiver /\ r \in Seq(ToReceiver) /\ b \in Nat /\ queue \in Seq(ToReceiver) /\ got \in Seq(ToReceiver)
        /\ Len(queue) = Len(r) + 1 /\ Len(r) \in Nat /\ queue = <<x>> \o r
    <2>1. queue \in Seq(ToReceiver) /\ got \in Seq(ToReceiver) /\ queue # <<>>
      BY <1>0 DEF LinkInv, Data
    <2>2. x \in ToReceiver /\ r \in Seq(ToReceiver) /\ Len(queue) = Len(r) + 1 /\ Len(r) \in Nat /\ queue = <<x>> \o r
      BY <2>1
    <2> HIDE DEF x
    <2>3. b \in Nat
      BY <2>2 DEF ToReceiver, Msg
    <2> QED
      BY <2>1, <2>2, <2>3
  <1>2. Sized(queue) = Sized(r) + b /\ Sized(r) \in Nat
    <2>1. queue \in Seq(Msg({"value", "end"})) /\ r \in Seq(Msg({"value", "end"}))
      BY <1>1 DEF ToReceiver
    <2>2. Sized(queue) = Sized(Tail(queue)) + Head(queue).bytes
      BY <1>0, <2>1, SizedHead
    <2> HIDE DEF r
    <2>3. Sized(r) \in Nat
      BY <2>1, KindType
    <2> QED
      BY <2>2, <2>3 DEF r
  <1>3. m \in ToSender /\ m.kind = "credit" /\ m.bytes = b
    BY <1>1 DEF Credit, ToSender, Msg
  <1> HIDE DEF b, m, x, r
  <1>4. Control'
    BY <1>0 DEF LinkInv, Control, OneOwner, identity
  <1>5. WaitersSound'
    BY <1>0, <1>1 DEF LinkInv, WaitersSound, Available, Ends
  <1>6. /\ wires' = [e \in Ends |-> wires'[e]] /\ wires'["receiver"] = wires["receiver"] /\ wires'["sender"] \in Seq(ToSender)
        /\ closed["receiver"] \/ at["sender"] = "over" => wires' = wires
        /\ ~(closed["receiver"] \/ at["sender"] = "over") =>
              /\ Len(Credits(wires'["sender"])) = Len(Credits(wires["sender"])) + 1
              /\ Sized(Credits(wires'["sender"])) = Sized(Credits(wires["sender"])) + b
    <2>1. CASE closed["receiver"]
      <3>1. wires' = wires
        BY <1>0, <2>1
      <3> QED
        BY <2>1, <3>1 DEF LinkInv, Data
    <2>2. CASE ~closed["receiver"]
      <3>1. wires' = Posted("sender", m)
        BY <1>0, <2>2
      <3> QED
        BY <2>2, <3>1, <1>3, PostedBack DEF LinkInv
    <2> QED
      BY <2>1, <2>2
  <1>7. Data'
    <2>1. retained' = Sized(r) /\ got' \in Seq(ToReceiver)
      BY <1>0, <1>1, <1>2 DEF LinkInv, Data
    <2> QED
      BY <1>0, <1>1, <1>6, <2>1 DEF LinkInv, Data
  <1>8. Within'
    <2>0. /\ slots' = slots /\ room' = room /\ wires'["receiver"] = wires["receiver"] /\ b \in Nat
          /\ Len(queue) = Len(queue') + 1 /\ Len(queue') \in Nat
          /\ Sized(queue) = Sized(queue') + b /\ Sized(queue') \in Nat
      BY <1>0, <1>1, <1>2, <1>6
    <2>1. CASE closed["receiver"] \/ at["sender"] = "over"
      <3>1. wires'["sender"] = wires["sender"]
        BY <1>6, <2>1
      <3>2. slots' + Len(Values(wires'["receiver"])) + Len(queue') + Len(Credits(wires'["sender"])) <= Messages
        BY <2>0, <3>1, <1>a, SMTT(60) DEF Counts, Within
      <3>3. room' + Sized(Values(wires'["receiver"])) + Sized(queue') + Sized(Credits(wires'["sender"])) <= Bytes
        <4>1. Sized(queue') <= Sized(queue) /\ Sized(queue') \in Nat
          BY <2>0, <1>a DEF Counts
        <4>2. room' = room /\ wires'["receiver"] = wires["receiver"]
          BY <2>0
        <4> QED
          BY ONLY <3>1, <4>1, <4>2, <1>a, SMTT(60) DEF Counts, Within
      <3> QED
        BY <3>2, <3>3 DEF Within
    <2>2. CASE ~(closed["receiver"] \/ at["sender"] = "over")
      <3>1. /\ Len(Credits(wires'["sender"])) = Len(Credits(wires["sender"])) + 1
            /\ Sized(Credits(wires'["sender"])) = Sized(Credits(wires["sender"])) + b
        BY <1>6, <2>2
      <3>8. slots' + Len(Values(wires'["receiver"])) + Len(queue') + Len(Credits(wires'["sender"])) <= Messages
        BY ONLY <2>0, <3>1, <1>a, SMTT(60) DEF Counts, Within
      <3>9. room' + Sized(Values(wires'["receiver"])) + Sized(queue') + Sized(Credits(wires'["sender"])) <= Bytes
        BY ONLY <2>0, <3>1, <1>a, SMTT(60) DEF Counts, Within
      <3> QED
        BY <3>8, <3>9 DEF Within
    <2> QED
      BY <2>1, <2>2
  <1>9. NothingLost => NothingLost'
    <2> DEFINE v == Values(wires["receiver"])
    <2>1. v \in Seq(ToReceiver) /\ wires'["receiver"] = wires["receiver"]
      BY <1>6, Counted DEF LinkInv
    <2> HIDE DEF v
    <2>2. got \o queue = Append(got, x) \o r
      BY <1>1
    <2> QED
      BY <1>0, <2>1, <2>2 DEF NothingLost
  <1>10. CreditsExact => CreditsExact'
    <2> SUFFICES ASSUME CreditsExact, ~closed["sender"], ~closed["receiver"] PROVE CreditsExact'
      BY <1>0 DEF CreditsExact
    <2>1. at["sender"] # "over"
      BY DEF LinkInv, Control, Ends
    <2>2. /\ slots' = slots /\ room' = room /\ wires'["receiver"] = wires["receiver"] /\ b \in Nat
          /\ Len(queue) = Len(queue') + 1 /\ Len(queue') \in Nat
          /\ Sized(queue) = Sized(queue') + b /\ Sized(queue') \in Nat
      BY <1>0, <1>1, <1>2, <1>6
    <2>3. /\ Len(Credits(wires'["sender"])) = Len(Credits(wires["sender"])) + 1
          /\ Sized(Credits(wires'["sender"])) = Sized(Credits(wires["sender"])) + b
      BY <1>6, <2>1
    <2>4. /\ slots + Len(Values(wires["receiver"])) + Len(queue) + Len(Credits(wires["sender"])) = Messages
          /\ room + Sized(Values(wires["receiver"])) + Sized(queue) + Sized(Credits(wires["sender"])) = Bytes
      BY DEF CreditsExact
    <2>5. slots' + Len(Values(wires'["receiver"])) + Len(queue') + Len(Credits(wires'["sender"])) = Messages
      BY <2>2, <2>3, <2>4, <1>a DEF Counts
    <2>6. room' + Sized(Values(wires'["receiver"])) + Sized(queue') + Sized(Credits(wires'["sender"])) = Bytes
      BY <2>2, <2>3, <2>4, <1>a DEF Counts
    <2> QED
      BY <2>5, <2>6 DEF CreditsExact
  <1> QED
    BY <1>4, <1>5, <1>7, <1>8, <1>9, <1>10 DEF LinkInv, NothingStranded

\* A credit or the receiver's end arrives.
LEMMA SenderStep ==
    ASSUME LinkInv, SenderArrives
    PROVE  LinkInv' /\ (NothingStranded => NothingStranded')
  <1> DEFINE p == Head(wires["sender"])
             r == Tail(wires["sender"])
             b == p.bytes
  <1>a. Counts
    BY Amounts
  <1>0. at["sender"] = "held" /\ wires["sender"] # <<>>
    BY DEF SenderArrives
  <1>1. CASE p.kind = "credit" /\ ~closed["sender"] /\ ~CreditFits(p)
    <2>1. CloseEnd("sender")
      BY <1>1 DEF SenderArrives
    <2> QED
      BY <1>0, <2>1, CloseStep DEF Ends
  <1>2. CASE ~(p.kind = "credit" /\ ~closed["sender"] /\ ~CreditFits(p))
    <2>1. /\ wires' = [wires EXCEPT !["sender"] = r]
          /\ closed' = [closed EXCEPT !["sender"] = @ \/ p.kind = "stop"]
          /\ IF closed["sender"] \/ p.kind = "stop" THEN UNCHANGED <<slots, room>>
             ELSE slots' = slots + 1 /\ room' = room + b
          /\ IF p.kind = "credit" /\ closed["sender"] THEN UNCHANGED waiting ELSE Wake("sender")
          /\ UNCHANGED <<at, queue, retained, identity, sent, got>>
      BY <1>2 DEF SenderArrives
    <2>2. /\ p \in ToSender /\ b \in Nat /\ p.kind \in {"credit", "stop"} /\ r \in Seq(ToSender)
          /\ p.kind = "credit" => /\ Len(Credits(wires["sender"])) = Len(Credits(r)) + 1
                                  /\ Sized(Credits(wires["sender"])) = Sized(Credits(r)) + b
          /\ p.kind # "credit" => Credits(wires["sender"]) = Credits(r)
          /\ Len(Credits(r)) \in Nat /\ Sized(Credits(r)) \in Nat
      BY <1>0, SenderFirst, Zenon DEF LinkInv
    <2> HIDE DEF p, r, b
    <2>3. wires' = [e \in Ends |-> wires'[e]] /\ wires'["sender"] = r /\ wires'["receiver"] = wires["receiver"]
      BY <2>1 DEF LinkInv, Data, Ends
    <2>4. Control'
      <3>1. NoWait \in 0..NoWait
        BY PortAssumption DEF NoWait
      <3>2. waiting' \in [Ends -> 0..NoWait]
        BY <2>1, <3>1 DEF LinkInv, Control, Wake
      <3>3. closed' \in [Ends -> BOOLEAN] /\ \A e \in Ends : closed[e] => closed'[e]
        BY <2>1 DEF LinkInv, Control, Ends
      <3> QED
        BY <2>1, <3>2, <3>3 DEF LinkInv, Control, OneOwner, identity
    <2>5. slots' \in Nat /\ room' \in Nat
      <3>1. slots \in Nat /\ room \in Nat /\ b \in Nat
        BY <2>2, <1>a DEF Counts
      <3>2. (slots' = slots /\ room' = room) \/ (slots' = slots + 1 /\ room' = room + b)
        BY <2>1
      <3> QED
        BY ONLY <3>1, <3>2
    <2>6. Data'
      BY <2>1, <2>2, <2>3, <2>5 DEF LinkInv, Data
    <2>7. WaitersSound'
      <3>1. CASE p.kind = "credit" /\ closed["sender"]
        <4>1. UNCHANGED <<waiting, closed, slots, room, at, queue>>
          BY <2>1, <3>1 DEF LinkInv, Control, Ends
        <4> QED
          BY <4>1 DEF LinkInv, WaitersSound, Available
      <3>2. CASE ~(p.kind = "credit" /\ closed["sender"])
        <4>1. waiting' = [waiting EXCEPT !["sender"] = NoWait]
          BY <2>1, <3>2 DEF Wake
        <4>2. waiting'["sender"] = NoWait /\ waiting'["receiver"] = waiting["receiver"] /\ closed'["receiver"] = closed["receiver"]
          BY <2>1, <4>1 DEF LinkInv, Control, Ends
        <4> QED
          BY <2>1, <4>2 DEF LinkInv, WaitersSound, Available, Ends
      <3> QED
        BY <3>1, <3>2
    <2>8. CASE closed["sender"] \/ p.kind = "stop"
      <3>1. slots' = slots /\ room' = room /\ queue' = queue
        BY <2>1, <2>8
      <3>2. Len(Credits(wires'["sender"])) <= Len(Credits(wires["sender"])) /\ Sized(Credits(wires'["sender"])) <= Sized(Credits(wires["sender"]))
            /\ Len(Credits(wires'["sender"])) \in Nat /\ Sized(Credits(wires'["sender"])) \in Nat
        BY <2>2, <2>3, <1>a DEF Counts
      <3>3. Within'
        <4>1. wires'["receiver"] = wires["receiver"]
          BY <2>3
        <4>8. slots' + Len(Values(wires'["receiver"])) + Len(queue') + Len(Credits(wires'["sender"])) <= Messages
          BY ONLY <4>1, <3>1, <3>2, <1>a, SMTT(60) DEF Counts, Within
        <4>9. room' + Sized(Values(wires'["receiver"])) + Sized(queue') + Sized(Credits(wires'["sender"])) <= Bytes
          BY ONLY <4>1, <3>1, <3>2, <1>a, SMTT(60) DEF Counts, Within
        <4> QED
          BY <4>8, <4>9 DEF Within
      <3>4. closed'["sender"]
        BY <2>1, <2>8 DEF LinkInv, Control, Ends
      <3>5. NothingStranded => NothingStranded'
        BY <2>1, <2>3, <3>4 DEF NothingStranded, NothingLost, CreditsExact
      <3> QED
        BY <2>4, <2>6, <2>7, <3>3, <3>5 DEF LinkInv
    <2>9. CASE ~(closed["sender"] \/ p.kind = "stop")
      <3>1. slots' = slots + 1 /\ room' = room + b /\ queue' = queue /\ b \in Nat /\ p.kind = "credit"
        BY <2>1, <2>2, <2>9
      <3>2. /\ Len(Credits(wires["sender"])) = Len(Credits(wires'["sender"])) + 1
            /\ Sized(Credits(wires["sender"])) = Sized(Credits(wires'["sender"])) + b
            /\ Len(Credits(wires'["sender"])) \in Nat /\ Sized(Credits(wires'["sender"])) \in Nat
        BY <2>2, <2>3, <3>1
      <3>9. slots' = slots + 1 /\ room' = room + b /\ queue' = queue /\ b \in Nat /\ wires'["receiver"] = wires["receiver"]
        BY <2>3, <3>1
      <3>3. /\ slots' + Len(Values(wires'["receiver"])) + Len(queue') + Len(Credits(wires'["sender"]))
               = slots + Len(Values(wires["receiver"])) + Len(queue) + Len(Credits(wires["sender"]))
        BY ONLY <3>9, <3>2, <1>a DEF Counts
      <3>4. /\ room' + Sized(Values(wires'["receiver"])) + Sized(queue') + Sized(Credits(wires'["sender"]))
               = room + Sized(Values(wires["receiver"])) + Sized(queue) + Sized(Credits(wires["sender"]))
        BY ONLY <3>9, <3>2, <1>a DEF Counts
      <3>5. Within'
        <4>8. slots' + Len(Values(wires'["receiver"])) + Len(queue') + Len(Credits(wires'["sender"])) <= Messages
          BY ONLY <3>3, <3>4, <1>a, SMTT(60) DEF Counts, Within
        <4>9. room' + Sized(Values(wires'["receiver"])) + Sized(queue') + Sized(Credits(wires'["sender"])) <= Bytes
          BY ONLY <3>3, <3>4, <1>a, SMTT(60) DEF Counts, Within
        <4> QED
          BY <4>8, <4>9 DEF Within
      <3>6. closed'["sender"] = closed["sender"] /\ closed'["receiver"] = closed["receiver"]
        BY <2>1, <2>9 DEF LinkInv, Control, Ends
      <3>7. CreditsExact => CreditsExact'
        BY <3>3, <3>4, <3>6 DEF CreditsExact
      <3>8. NothingLost => NothingLost'
        BY <2>1, <2>3 DEF NothingLost
      <3> QED
        BY <2>4, <2>6, <2>7, <3>5, <3>7, <3>8 DEF LinkInv, NothingStranded
    <2> QED
      BY <2>8, <2>9
  <1> QED
    BY <1>1, <1>2

\* A value or the sender's end arrives.
LEMMA ReceiverStep ==
    ASSUME LinkInv, ReceiverArrives
    PROVE  LinkInv' /\ (NothingStranded => NothingStranded')
  <1> DEFINE p == Head(wires["receiver"])
             r == Tail(wires["receiver"])
             b == p.bytes
  <1>a. Counts
    BY Amounts
  <1>0. at["receiver"] = "held" /\ wires["receiver"] # <<>>
    BY DEF ReceiverArrives
  <1>1. CASE p.kind = "value" /\ (closed["receiver"] \/ ~ValueFits(p))
    <2>1. CloseEnd("receiver")
      BY <1>1 DEF ReceiverArrives
    <2> QED
      BY <1>0, <2>1, CloseStep DEF Ends
  <1>2. CASE ~(p.kind = "value" /\ (closed["receiver"] \/ ~ValueFits(p)))
    <2>1. /\ wires' = [wires EXCEPT !["receiver"] = r]
          /\ IF p.kind = "end"
             THEN closed' = [closed EXCEPT !["receiver"] = TRUE] /\ UNCHANGED <<queue, retained>>
             ELSE queue' = Append(queue, p) /\ retained' = retained + b /\ UNCHANGED closed
          /\ waiting' = [waiting EXCEPT !["receiver"] = NoWait]
          /\ UNCHANGED <<at, slots, room, identity, sent, got>>
      BY <1>2 DEF ReceiverArrives, Queued, Wake
    <2>2. /\ p \in ToReceiver /\ b \in Nat /\ p.kind \in {"value", "end"} /\ r \in Seq(ToReceiver)
          /\ p.kind = "value" => /\ Values(wires["receiver"]) = <<p>> \o Values(r)
                                 /\ Len(Values(wires["receiver"])) = Len(Values(r)) + 1
                                 /\ Sized(Values(wires["receiver"])) = Sized(Values(r)) + b
          /\ p.kind # "value" => Values(wires["receiver"]) = Values(r)
          /\ Len(Values(r)) \in Nat /\ Sized(Values(r)) \in Nat /\ Values(r) \in Seq(ToReceiver)
      BY <1>0, ReceiverFirst, Zenon DEF LinkInv
    <2>q. Sized(Append(queue, p)) = Sized(queue) + b /\ Append(queue, p) \in Seq(ToReceiver) /\ Len(Append(queue, p)) = Len(queue) + 1
      <3>1. queue \in Seq(ToReceiver) /\ p \in ToReceiver
        BY <2>2 DEF LinkInv, Data
      <3> HIDE DEF p
      <3> QED
        BY <3>1, SizedAppend DEF b
    <2> HIDE DEF p, r, b
    <2>3. wires' = [e \in Ends |-> wires'[e]] /\ wires'["receiver"] = r /\ wires'["sender"] = wires["sender"]
      BY <2>1 DEF LinkInv, Data, Ends
    <2>4. Control'
      <3>1. NoWait \in 0..NoWait
        BY PortAssumption DEF NoWait
      <3>2. waiting' \in [Ends -> 0..NoWait]
        BY <2>1, <3>1 DEF LinkInv, Control
      <3>3. closed' \in [Ends -> BOOLEAN] /\ \A e \in Ends : closed[e] => closed'[e]
        BY <2>1 DEF LinkInv, Control, Ends
      <3> QED
        BY <2>1, <3>2, <3>3 DEF LinkInv, Control, OneOwner, identity
    <2>5. WaitersSound'
      <3>1. waiting'["receiver"] = NoWait /\ waiting'["sender"] = waiting["sender"] /\ closed'["sender"] = closed["sender"]
        BY <2>1 DEF LinkInv, Control, Ends
      <3> QED
        BY <2>1, <3>1 DEF LinkInv, WaitersSound, Available, Ends
    <2>6. CASE p.kind = "end"
      <3>1. /\ UNCHANGED <<queue, retained, slots, room, sent, got, at>> /\ closed'["receiver"]
            /\ Values(wires'["receiver"]) = Values(wires["receiver"])
        BY <2>1, <2>2, <2>3, <2>6 DEF LinkInv, Control, Ends
      <3>2. Data'
        BY <2>2, <2>3, <3>1 DEF LinkInv, Data
      <3>3. Within'
        <4>1. slots' = slots /\ room' = room /\ queue' = queue /\ Values(wires'["receiver"]) = Values(wires["receiver"])
          BY <3>1
        <4>8. slots' + Len(Values(wires'["receiver"])) + Len(queue') + Len(Credits(wires'["sender"])) <= Messages
          BY ONLY <2>3, <4>1, <1>a, SMTT(60) DEF Counts, Within
        <4>9. room' + Sized(Values(wires'["receiver"])) + Sized(queue') + Sized(Credits(wires'["sender"])) <= Bytes
          BY ONLY <2>3, <4>1, <1>a, SMTT(60) DEF Counts, Within
        <4> QED
          BY <4>8, <4>9 DEF Within
      <3>4. NothingStranded => NothingStranded'
        BY <3>1 DEF NothingStranded, NothingLost, CreditsExact
      <3> QED
        BY <2>4, <2>5, <3>2, <3>3, <3>4 DEF LinkInv
    <2>7. CASE p.kind = "value"
      <3>1. /\ queue' = Append(queue, p) /\ retained' = retained + b /\ UNCHANGED <<closed, at, slots, room, sent, got>>
        BY <2>1, <2>7
      <3>2. Data'
        BY <2>2, <2>3, <2>q, <3>1 DEF LinkInv, Data
      <3>3. /\ slots' = slots /\ room' = room /\ b \in Nat
            /\ Len(queue') = Len(queue) + 1 /\ Sized(queue') = Sized(queue) + b
            /\ Len(Values(wires["receiver"])) = Len(Values(wires'["receiver"])) + 1
            /\ Sized(Values(wires["receiver"])) = Sized(Values(wires'["receiver"])) + b
            /\ Len(Values(wires'["receiver"])) \in Nat /\ Sized(Values(wires'["receiver"])) \in Nat
        BY <2>2, <2>3, <2>7, <2>q, <3>1
      <3>9. wires'["sender"] = wires["sender"]
        BY <2>3
      <3>4. /\ slots' + Len(Values(wires'["receiver"])) + Len(queue') + Len(Credits(wires'["sender"]))
               = slots + Len(Values(wires["receiver"])) + Len(queue) + Len(Credits(wires["sender"]))
        BY ONLY <3>9, <3>3, <1>a DEF Counts
      <3>5. /\ room' + Sized(Values(wires'["receiver"])) + Sized(queue') + Sized(Credits(wires'["sender"]))
               = room + Sized(Values(wires["receiver"])) + Sized(queue) + Sized(Credits(wires["sender"]))
        BY ONLY <3>9, <3>3, <1>a DEF Counts
      <3>6. Within'
        <4>8. slots' + Len(Values(wires'["receiver"])) + Len(queue') + Len(Credits(wires'["sender"])) <= Messages
          BY ONLY <3>4, <3>5, <1>a, SMTT(60) DEF Counts, Within
        <4>9. room' + Sized(Values(wires'["receiver"])) + Sized(queue') + Sized(Credits(wires'["sender"])) <= Bytes
          BY ONLY <3>4, <3>5, <1>a, SMTT(60) DEF Counts, Within
        <4> QED
          BY <4>8, <4>9 DEF Within
      <3>7. CreditsExact => CreditsExact'
        BY <3>1, <3>4, <3>5 DEF CreditsExact
      <3>8. NothingLost => NothingLost'
        <4> DEFINE w == Values(r)
        <4>1. got \in Seq(ToReceiver) /\ queue \in Seq(ToReceiver) /\ p \in ToReceiver /\ w \in Seq(ToReceiver)
          BY <2>2 DEF LinkInv, Data
        <4> HIDE DEF w
        <4> DEFINE v == <<p>> \o w
                   d == Append(queue, p)
        <4>2. v = <<p>> \o w /\ d = Append(queue, p)
          OBVIOUS
        <4> HIDE DEF v, d
        <4>3. (got \o queue) \o v = (got \o d) \o w
          <5> DEFINE f == got \o queue
                     g == got \o d
          <5>1. f \in Seq(ToReceiver) /\ g = Append(f, p)
            BY <4>1, <4>2
          <5> HIDE DEF f, g
          <5>2. f \o v = g \o w
            BY ONLY <4>1, <4>2, <5>1, FirstJoins
          <5> QED
            BY <5>2 DEF f, g
        <4>4. Values(wires["receiver"]) = v /\ Values(wires'["receiver"]) = w /\ queue' = d
          BY <2>2, <2>3, <2>7, <3>1, <4>2, Zenon DEF w
        <4> QED
          BY <3>1, <4>3, <4>4 DEF NothingLost
      <3> QED
        BY <2>4, <2>5, <3>2, <3>6, <3>7, <3>8 DEF LinkInv, NothingStranded
    <2> QED
      BY <2>2, <2>6, <2>7
  <1> QED
    BY <1>1, <1>2

\* What changes nothing that is counted, keeps it.
LEMMA Still ==
    ASSUME LinkInv, UNCHANGED <<slots, room, queue, retained, wires, sent, got>>
    PROVE  Data' /\ Within'
  BY DEF LinkInv, Data, Within

\* Termination takes a port without a word.
LEMMA PerishStep ==
    ASSUME LinkInv, NEW e \in Ends, Perish(e)
    PROVE  LinkInv' /\ (NothingStranded => NothingStranded')
  <1>a. Counts
    BY Amounts
  <1>0. /\ at' = [at EXCEPT ![e] = "over"] /\ closed' = [closed EXCEPT ![e] = TRUE] /\ wires' = [wires EXCEPT ![e] = <<>>]
        /\ claimed' = [claimed EXCEPT ![e] = TRUE] /\ owners' = [owners EXCEPT ![e] = 0]
        /\ waiting' = [waiting EXCEPT ![e] = NoWait] /\ remote' = [remote EXCEPT ![Peer(e)] = "posted"]
        /\ UNCHANGED <<slots, room, queue, retained, generation, snapshots, sent, got>>
    BY DEF Perish, Wake, Revoked
  <1>1. NoWait \in 0..NoWait
    BY PortAssumption DEF NoWait
  <1>2. Control'
    <2>1. /\ at' \in [Ends -> {"held", "loose", "shipped", "over"}]
          /\ closed' \in [Ends -> BOOLEAN] /\ claimed' \in [Ends -> BOOLEAN]
          /\ waiting' \in [Ends -> 0..NoWait] /\ generation' \in [Ends -> 1..MaxGeneration] /\ owners' \in [Ends -> Int]
      BY <1>0, <1>1 DEF LinkInv, Control
    <2>2. remote' \in [Ends -> {"none", "posted", "heard"}]
      BY <1>0 DEF LinkInv, Control
    <2>3. OneOwner' /\ \A x \in Ends : (claimed'[x] <=> at'[x] \in {"held", "over"}) /\ (at'[x] = "over" => closed'[x])
      BY <1>0 DEF LinkInv, Control, OneOwner
    <2> QED
      BY <2>1, <2>2, <2>3 DEF Control
  <1>3. WaitersSound'
    BY <1>0 DEF LinkInv, Control, WaitersSound, Available, Ends
  <1>4. CASE e = "sender"
    <2>1. /\ wires' = [x \in Ends |-> wires'[x]] /\ wires'["sender"] = <<>> /\ wires'["receiver"] = wires["receiver"]
          /\ closed'["sender"] /\ at'["receiver"] = at["receiver"]
      BY <1>0, <1>4 DEF LinkInv, Data, Control, Ends
    <2>2. Len(Credits(wires'["sender"])) = 0 /\ Sized(Credits(wires'["sender"])) = 0
      BY <2>1, NoneSized, Zenon
    <2>3. Data'
      BY <1>0, <2>1, NoneSized DEF LinkInv, Data
    <2>4. Within'
      <3>1. slots' = slots /\ room' = room /\ queue' = queue /\ wires'["receiver"] = wires["receiver"]
        BY <1>0, <2>1
      <3>8. slots' + Len(Values(wires'["receiver"])) + Len(queue') + Len(Credits(wires'["sender"])) <= Messages
        BY ONLY <2>2, <3>1, <1>a, SMTT(60) DEF Counts, Within
      <3>9. room' + Sized(Values(wires'["receiver"])) + Sized(queue') + Sized(Credits(wires'["sender"])) <= Bytes
        BY ONLY <2>2, <3>1, <1>a, SMTT(60) DEF Counts, Within
      <3> QED
        BY <3>8, <3>9 DEF Within
    <2>5. NothingStranded => NothingStranded'
      BY <1>0, <2>1 DEF NothingStranded, NothingLost, CreditsExact
    <2> QED
      BY <1>2, <1>3, <2>3, <2>4, <2>5 DEF LinkInv
  <1>5. CASE e = "receiver"
    <2>1. /\ wires' = [x \in Ends |-> wires'[x]] /\ wires'["receiver"] = <<>> /\ wires'["sender"] = wires["sender"]
          /\ closed'["receiver"] /\ at'["receiver"] = "over"
      BY <1>0, <1>5 DEF LinkInv, Data, Control, Ends
    <2>2. Len(Values(wires'["receiver"])) = 0 /\ Sized(Values(wires'["receiver"])) = 0
      BY <2>1, NoneSized, Zenon
    <2>3. Data'
      BY <1>0, <2>1, NoneSized DEF LinkInv, Data
    <2>4. Within'
      <3>1. slots' = slots /\ room' = room /\ queue' = queue /\ wires'["sender"] = wires["sender"]
        BY <1>0, <2>1
      <3>8. slots' + Len(Values(wires'["receiver"])) + Len(queue') + Len(Credits(wires'["sender"])) <= Messages
        BY ONLY <2>2, <3>1, <1>a, SMTT(60) DEF Counts, Within
      <3>9. room' + Sized(Values(wires'["receiver"])) + Sized(queue') + Sized(Credits(wires'["sender"])) <= Bytes
        BY ONLY <2>2, <3>1, <1>a, SMTT(60) DEF Counts, Within
      <3> QED
        BY <3>8, <3>9 DEF Within
    <2>5. NothingStranded => NothingStranded'
      BY <2>1 DEF NothingStranded, NothingLost, CreditsExact
    <2> QED
      BY <1>2, <1>3, <2>3, <2>4, <2>5 DEF LinkInv
  <1> QED
    BY <1>4, <1>5 DEF Ends

\* What the page posts or loses of its reports changes no end.
LEMMA ReportStep ==
    ASSUME LinkInv, NEW e \in Ends, Revoke(e) \/ LoseReport(e)
    PROVE  LinkInv' /\ (NothingStranded => NothingStranded')
  <1>0. /\ remote' = [remote EXCEPT ![Peer(e)] = "posted"] \/ remote' = [remote EXCEPT ![e] = "heard"]
        /\ UNCHANGED <<at, closed, slots, room, queue, retained, wires, waiting, generation, claimed, snapshots, owners, sent, got>>
    BY DEF Revoke, Revoked, LoseReport, state
  <1>1. Control' /\ WaitersSound'
    BY <1>0 DEF LinkInv, Control, OneOwner, WaitersSound, Available
  <1>2. Data' /\ Within'
    BY <1>0, Still
  <1>3. NothingStranded => NothingStranded'
    BY <1>0 DEF NothingStranded, NothingLost, CreditsExact
  <1> QED
    BY <1>1, <1>2, <1>3 DEF LinkInv

\* A report that the peer's end is gone closes and wakes.
LEMMA RemoteStep ==
    ASSUME LinkInv, NEW e \in Ends, RemoteClose(e)
    PROVE  LinkInv' /\ (NothingStranded => NothingStranded')
  <1>0. /\ closed' = [closed EXCEPT ![e] = TRUE] /\ waiting' = [waiting EXCEPT ![e] = NoWait]
        /\ remote' = [remote EXCEPT ![e] = "heard"]
        /\ UNCHANGED <<at, slots, room, queue, retained, wires, generation, claimed, snapshots, owners, sent, got>>
    BY DEF RemoteClose, Wake
  <1>1. NoWait \in 0..NoWait
    BY PortAssumption DEF NoWait
  <1>2. Control'
    BY <1>0, <1>1 DEF LinkInv, Control, OneOwner, Ends
  <1>3. WaitersSound'
    BY <1>0 DEF LinkInv, Control, WaitersSound, Available, Ends
  <1>4. Data' /\ Within'
    BY <1>0, Still
  <1>5. closed'[e] /\ \A x \in Ends : closed[x] => closed'[x]
    BY <1>0 DEF LinkInv, Control, Ends
  <1>6. NothingStranded => NothingStranded'
    BY <1>0, <1>5 DEF NothingStranded, NothingLost, CreditsExact, Ends
  <1> QED
    BY <1>2, <1>3, <1>4, <1>6 DEF LinkInv

\* An end is moved: the wrapper gives it up, or closes it at the last generation.
LEMMA MoveStep ==
    ASSUME LinkInv, NEW e \in Ends, Move(e)
    PROVE  LinkInv' /\ (NothingStranded => NothingStranded')
  <1>1. CASE generation[e] = MaxGeneration
    BY <1>1, CloseStep DEF Move
  <1>2. CASE generation[e] # MaxGeneration
    <2>0. /\ at[e] = "held" /\ waiting[e] = NoWait
          /\ at' = [at EXCEPT ![e] = "loose"] /\ generation' = [generation EXCEPT ![e] = @ + 1]
          /\ claimed' = [claimed EXCEPT ![e] = FALSE] /\ owners' = [owners EXCEPT ![e] = @ - 1]
          /\ UNCHANGED <<closed, slots, room, queue, retained, wires, waiting, remote, sent, got>>
      BY <1>2 DEF Move, state
    <2>1. generation' \in [Ends -> 1..MaxGeneration]
      BY <1>2, <2>0, PortAssumption DEF LinkInv, Control
    <2>2. Control'
      BY <2>0, <2>1 DEF LinkInv, Control, OneOwner, Ends
    <2>3. WaitersSound'
      BY <2>0 DEF LinkInv, Control, WaitersSound, Available, Ends
    <2>4. Data' /\ Within'
      BY <2>0, Still
    <2>5. at["receiver"] = "over" <=> at'["receiver"] = "over"
      BY <2>0 DEF LinkInv, Control, Ends
    <2>6. NothingStranded => NothingStranded'
      BY <2>0, <2>5 DEF NothingStranded, NothingLost, CreditsExact
    <2> QED
      BY <2>2, <2>3, <2>4, <2>6 DEF LinkInv
  <1> QED
    BY <1>1, <1>2

\* A snapshot is posted, with its port.
LEMMA ShipStep ==
    ASSUME LinkInv, NEW e \in Ends, Ship(e)
    PROVE  LinkInv' /\ (NothingStranded => NothingStranded')
  <1>0. /\ at[e] = "loose" /\ at' = [at EXCEPT ![e] = "shipped"]
        /\ UNCHANGED <<closed, slots, room, queue, retained, wires, waiting, identity, sent, got>>
    BY DEF Ship, state
  <1>2. Control'
    BY <1>0 DEF LinkInv, Control, OneOwner, Ends, identity
  <1>3. WaitersSound'
    BY <1>0 DEF LinkInv, Control, WaitersSound, Available, Ends
  <1>4. Data' /\ Within'
    BY <1>0, Still
  <1>5. at["receiver"] = "over" <=> at'["receiver"] = "over"
    BY <1>0 DEF LinkInv, Control, Ends
  <1>6. NothingStranded => NothingStranded'
    BY <1>0, <1>5 DEF NothingStranded, NothingLost, CreditsExact
  <1> QED
    BY <1>2, <1>3, <1>4, <1>6 DEF LinkInv

\* A snapshot is adopted: only one that is not claimed, so never of an end that
\* is over or held.
LEMMA AdoptStep ==
    ASSUME LinkInv, NEW e \in Ends, NEW g \in 1..MaxGeneration, AdoptPortEndpoint(e, g)
    PROVE  LinkInv' /\ (NothingStranded => NothingStranded')
  <1>0. /\ ~claimed[e] /\ at' = [at EXCEPT ![e] = "held"] /\ claimed' = [claimed EXCEPT ![e] = TRUE]
        /\ owners' = [owners EXCEPT ![e] = @ + 1]
        /\ UNCHANGED <<closed, slots, room, queue, retained, wires, waiting, generation, snapshots, remote, sent, got>>
    BY DEF AdoptPortEndpoint, MayAdopt, state
  <1>1. at[e] \in {"loose", "shipped"}
    BY <1>0 DEF LinkInv, Control
  <1>2. Control'
    BY <1>0, <1>1 DEF LinkInv, Control, OneOwner, Ends
  <1>3. WaitersSound'
    <2>1. waiting[e] = NoWait
      BY <1>1 DEF LinkInv, WaitersSound, Available
    <2> QED
      BY <1>0, <2>1 DEF LinkInv, Control, WaitersSound, Available, Ends
  <1>4. Data' /\ Within'
    BY <1>0, Still
  <1>5. at["receiver"] = "over" <=> at'["receiver"] = "over"
    BY <1>0, <1>1 DEF LinkInv, Control, Ends
  <1>6. NothingStranded => NothingStranded'
    BY <1>0, <1>5 DEF NothingStranded, NothingLost, CreditsExact
  <1> QED
    BY <1>2, <1>3, <1>4, <1>6 DEF LinkInv

\* A caller that was refused waits.
LEMMA SubscribeStep ==
    ASSUME LinkInv, NEW e \in Ends, NEW size \in (IF e = "sender" THEN Sizes ELSE {0}), Subscribe(e, size)
    PROVE  LinkInv' /\ (NothingStranded => NothingStranded')
  <1>0. /\ ~Available(e, size) /\ waiting' = [waiting EXCEPT ![e] = size]
        /\ UNCHANGED <<at, closed, slots, room, queue, retained, wires, identity, sent, got>>
    BY DEF Subscribe, MustWait, state
  <1>1. size \in 0..NoWait
    BY PortAssumption DEF NoWait
  <1>2. Control'
    BY <1>0, <1>1 DEF LinkInv, Control, OneOwner, identity
  <1>3. WaitersSound'
    BY <1>0 DEF LinkInv, Control, WaitersSound, Available
  <1>4. Data' /\ Within'
    BY <1>0, Still
  <1>6. NothingStranded => NothingStranded'
    BY <1>0 DEF NothingStranded, NothingLost, CreditsExact
  <1> QED
    BY <1>2, <1>3, <1>4, <1>6 DEF LinkInv

\* A message is lost on the page: the invariant stays, the exact count does not.
LEMMA LoseStep ==
    ASSUME LinkInv, NEW e \in Ends, Lose(e)
    PROVE  LinkInv'
  <1>a. Counts
    BY Amounts
  <1>0. /\ wires[e] # <<>> /\ wires' = [wires EXCEPT ![e] = Tail(wires[e])]
        /\ UNCHANGED <<at, closed, slots, room, queue, retained, waiting, identity, sent, got>>
    BY DEF Lose, state
  <1>1. Control' /\ WaitersSound'
    BY <1>0 DEF LinkInv, Control, OneOwner, identity, WaitersSound, Available
  <1>2. CASE e = "sender"
    <2>1. /\ wires' = [x \in Ends |-> wires'[x]] /\ wires'["sender"] = Tail(wires["sender"]) /\ wires'["receiver"] = wires["receiver"]
      BY <1>0, <1>2 DEF LinkInv, Data, Ends
    <2> DEFINE p == Head(wires["sender"])
               r == Tail(wires["sender"])
               b == p.bytes
    <2>2. /\ b \in Nat /\ r \in Seq(ToSender)
          /\ p.kind = "credit" => /\ Len(Credits(wires["sender"])) = Len(Credits(r)) + 1
                                  /\ Sized(Credits(wires["sender"])) = Sized(Credits(r)) + b
          /\ p.kind # "credit" => Credits(wires["sender"]) = Credits(r)
          /\ Len(Credits(r)) \in Nat /\ Sized(Credits(r)) \in Nat
      BY <1>0, <1>2, SenderFirst, Zenon DEF LinkInv
    <2>3. wires'["sender"] = r
      BY <2>1
    <2> HIDE DEF p, r, b
    <2>4. Len(Credits(r)) <= Len(Credits(wires["sender"])) /\ Sized(Credits(r)) <= Sized(Credits(wires["sender"]))
      BY <2>2, <1>a DEF Counts
    <2>5. Data'
      BY <1>0, <2>1, <2>2, <2>3 DEF LinkInv, Data
    <2>6. slots' = slots /\ room' = room /\ queue' = queue /\ wires'["receiver"] = wires["receiver"]
          /\ Len(Credits(r)) \in Nat /\ Sized(Credits(r)) \in Nat
      BY <1>0, <2>1, <2>2
    <2>7. Within'
      <3>8. slots' + Len(Values(wires'["receiver"])) + Len(queue') + Len(Credits(wires'["sender"])) <= Messages
        BY ONLY <2>3, <2>4, <2>6, <1>a, SMTT(60) DEF Counts, Within
      <3>9. room' + Sized(Values(wires'["receiver"])) + Sized(queue') + Sized(Credits(wires'["sender"])) <= Bytes
        BY ONLY <2>3, <2>4, <2>6, <1>a, SMTT(60) DEF Counts, Within
      <3> QED
        BY <3>8, <3>9 DEF Within
    <2> QED
      BY <1>1, <2>5, <2>7 DEF LinkInv
  <1>3. CASE e = "receiver"
    <2>1. /\ wires' = [x \in Ends |-> wires'[x]] /\ wires'["receiver"] = Tail(wires["receiver"]) /\ wires'["sender"] = wires["sender"]
      BY <1>0, <1>3 DEF LinkInv, Data, Ends
    <2> DEFINE p == Head(wires["receiver"])
               r == Tail(wires["receiver"])
               b == p.bytes
    <2>2. /\ b \in Nat /\ r \in Seq(ToReceiver)
          /\ p.kind = "value" => /\ Len(Values(wires["receiver"])) = Len(Values(r)) + 1
                                 /\ Sized(Values(wires["receiver"])) = Sized(Values(r)) + b
          /\ p.kind # "value" => Values(wires["receiver"]) = Values(r)
          /\ Len(Values(r)) \in Nat /\ Sized(Values(r)) \in Nat
      BY <1>0, <1>3, ReceiverFirst, Zenon DEF LinkInv
    <2>3. wires'["receiver"] = r
      BY <2>1
    <2> HIDE DEF p, r, b
    <2>4. Len(Values(r)) <= Len(Values(wires["receiver"])) /\ Sized(Values(r)) <= Sized(Values(wires["receiver"]))
      BY <2>2, <1>a DEF Counts
    <2>5. Data'
      BY <1>0, <2>1, <2>2, <2>3 DEF LinkInv, Data
    <2>6. slots' = slots /\ room' = room /\ queue' = queue /\ wires'["sender"] = wires["sender"]
          /\ Len(Values(r)) \in Nat /\ Sized(Values(r)) \in Nat
      BY <1>0, <2>1, <2>2
    <2>7. Within'
      <3>8. slots' + Len(Values(wires'["receiver"])) + Len(queue') + Len(Credits(wires'["sender"])) <= Messages
        BY ONLY <2>3, <2>4, <2>6, <1>a, SMTT(60) DEF Counts, Within
      <3>9. room' + Sized(Values(wires'["receiver"])) + Sized(queue') + Sized(Credits(wires'["sender"])) <= Bytes
        BY ONLY <2>3, <2>4, <2>6, <1>a, SMTT(60) DEF Counts, Within
      <3> QED
        BY <3>8, <3>9 DEF Within
    <2> QED
      BY <1>1, <2>5, <2>7 DEF LinkInv
  <1> QED
    BY <1>2, <1>3 DEF Ends

\* A new channel.
LEMMA InitLink == ASSUME Init PROVE LinkInv /\ NothingStranded
  <1>0. NoWait \in 0..NoWait /\ Messages \in Nat /\ Bytes \in Nat /\ 1 \in 1..MaxGeneration
    BY PortAssumption DEF NoWait
  <1>1. Control
    BY <1>0 DEF Init, Control, OneOwner, Ends
  <1>2. WaitersSound
    BY DEF Init, WaitersSound
  <1>3. queue = <<>> /\ wires["sender"] = <<>> /\ wires["receiver"] = <<>> /\ slots = Messages /\ room = Bytes /\ sent = <<>> /\ got = <<>>
    BY DEF Init, Ends
  <1>4. /\ Values(wires["receiver"]) = <<>> /\ Len(Values(wires["receiver"])) = 0 /\ Sized(Values(wires["receiver"])) = 0
        /\ Len(Credits(wires["sender"])) = 0 /\ Sized(Credits(wires["sender"])) = 0 /\ Len(queue) = 0 /\ Sized(queue) = 0
    BY <1>3, NoneSized, Zenon
  <1>5. Data
    <2>1. wires = [e \in Ends |-> wires[e]] /\ retained = 0
      BY DEF Init
    <2> QED
      BY <1>0, <1>3, <1>4, <2>1, NoneSized DEF Data
  <1>6. Within
    BY <1>0, <1>3, <1>4 DEF Within
  <1>7. NothingLost
    BY <1>3, <1>4 DEF NothingLost
  <1>8. CreditsExact
    BY <1>0, <1>3, <1>4 DEF CreditsExact
  <1> QED
    BY <1>1, <1>2, <1>5, <1>6, <1>7, <1>8 DEF LinkInv, NothingStranded

\* Every step keeps the invariant; where no message is lost on the page, every
\* step keeps the exact counts.
LEMMA EveryStep ==
    ASSUME LinkInv, [Next]_vars
    PROVE  LinkInv' /\ (~Loiters /\ NothingStranded => NothingStranded')
  <1>1. CASE UNCHANGED vars
    <2>1. UNCHANGED <<at, closed, slots, room, queue, retained, wires, waiting, generation, claimed, snapshots, owners, remote, sent, got>>
      BY <1>1 DEF vars, state, identity
    <2>2. Control' /\ WaitersSound'
      BY <2>1 DEF LinkInv, Control, OneOwner, WaitersSound, Available
    <2>3. NothingStranded => NothingStranded'
      BY <2>1 DEF NothingStranded, NothingLost, CreditsExact
    <2> QED
      BY <2>1, <2>2, <2>3, Still DEF LinkInv
  <1>2. CASE \E size \in Sizes : TrySend(size)
    BY <1>2, SendStep
  <1>3. CASE TryReceive \/ SenderArrives \/ ReceiverArrives
    BY <1>3, ReceiveStep, SenderStep, ReceiverStep
  <1>4. ASSUME NEW e \in Ends,
               \/ Close(e) \/ Perish(e) \/ Revoke(e) \/ RemoteClose(e) \/ Move(e) \/ Ship(e) \/ Lose(e) \/ LoseReport(e)
               \/ \E size \in IF e = "sender" THEN Sizes ELSE {0} : Subscribe(e, size)
               \/ \E g \in 1..MaxGeneration : AdoptPortEndpoint(e, g)
        PROVE  LinkInv' /\ (~Loiters /\ NothingStranded => NothingStranded')
    <2>1. CASE Close(e)
      BY <2>1, CloseStep DEF Close
    <2>2. CASE Lose(e)
      BY <2>2, LoseStep DEF Lose
    <2>3. CASE \E size \in IF e = "sender" THEN Sizes ELSE {0} : Subscribe(e, size)
      BY <2>3, SubscribeStep, Zenon
    <2>4. CASE \E g \in 1..MaxGeneration : AdoptPortEndpoint(e, g)
      BY <2>4, AdoptStep
    <2> QED
      BY <1>4, <2>1, <2>2, <2>3, <2>4, PerishStep, ReportStep, RemoteStep, MoveStep, ShipStep
  <1> QED
    BY <1>1, <1>2, <1>3, <1>4 DEF Next

\* The invariant gives what the runs check.
LEMMA LinkSound == ASSUME LinkInv PROVE TypeOK /\ NoOverrun /\ OneOwner /\ WaitersSound
  <1>a. Counts
    BY Amounts
  <1>0. slots <= Messages /\ room <= Bytes /\ Sized(queue) <= Bytes
    BY <1>a, SMTT(60) DEF Counts, Within
  <1>1. TypeOK
    <2>1. retained = Sized(queue) /\ slots \in 0..Messages /\ room \in 0..Bytes /\ retained \in 0..Bytes
      <3>1. retained = Sized(queue)
        BY DEF LinkInv, Data
      <3> QED
        BY <1>0, <1>a, <3>1 DEF Counts
    <2> QED
      BY <2>1 DEF LinkInv, Control, TypeOK
  <1>2. ASSUME wires["sender"] # <<>>
        PROVE  Head(wires["sender"]).kind = "stop" \/ CreditFits(Head(wires["sender"]))
    <2> DEFINE p == Head(wires["sender"])
               r == Tail(wires["sender"])
               b == p.bytes
    <2>2. /\ b \in Nat /\ p.kind \in {"credit", "stop"}
          /\ p.kind = "credit" => /\ Len(Credits(wires["sender"])) = Len(Credits(r)) + 1
                                  /\ Sized(Credits(wires["sender"])) = Sized(Credits(r)) + b
          /\ Len(Credits(r)) \in Nat /\ Sized(Credits(r)) \in Nat
      BY <1>2, SenderFirst, Zenon DEF LinkInv
    <2> HIDE DEF p, r, b
    <2>3. p.kind = "credit" => slots + 1 <= Messages /\ room + b <= Bytes
      BY <2>2, <1>a, SMTT(60) DEF Counts, Within
    <2> QED
      BY <2>2, <2>3 DEF p, b, CreditFits
  <1>3. ASSUME wires["receiver"] # <<>>, Head(wires["receiver"]).kind = "value"
        PROVE  ValueFits(Head(wires["receiver"]))
    <2> DEFINE p == Head(wires["receiver"])
               r == Tail(wires["receiver"])
               b == p.bytes
    <2>2. /\ b \in Nat /\ Len(Values(wires["receiver"])) = Len(Values(r)) + 1
          /\ Sized(Values(wires["receiver"])) = Sized(Values(r)) + b
          /\ Len(Values(r)) \in Nat /\ Sized(Values(r)) \in Nat
      BY <1>3, ReceiverFirst, Zenon DEF LinkInv
    <2> HIDE DEF p, r, b
    <2>3. Len(queue) < Messages /\ Sized(queue) + b <= Bytes
      <3>1. Len(queue) + 1 <= Messages
        BY ONLY <2>2, <1>a, SMTT(60) DEF Counts, Within
      <3>2. Sized(queue) + b <= Bytes
        <4>1. /\ room + Sized(Values(wires["receiver"])) + Sized(queue) + Sized(Credits(wires["sender"])) <= Bytes
              /\ room \in Nat /\ Sized(queue) \in Nat /\ Sized(Credits(wires["sender"])) \in Nat /\ Bytes \in Nat
          BY <1>a, SMTT(60) DEF Counts, Within
        <4> QED
          BY ONLY <2>2, <4>1
      <3> QED
        BY <3>1, <3>2, <1>a DEF Counts
    <2>4. retained = Sized(queue)
      BY DEF LinkInv, Data
    <2> QED
      BY <2>3, <2>4 DEF p, b, ValueFits
  <1>4. NoOverrun
    BY <1>2, <1>3 DEF NoOverrun
  <1> QED
    BY <1>1, <1>4 DEF LinkInv, Control

-----------------------------------------------------------------------------
\* For any limits, sizes, values and moves, messages lost on the page included:
\* between two honest ends no credit exceeds the limits it was taken from and
\* every accepted value has room, so no end closes itself over an arrival; an
\* end has one live wrapper at most, and nobody sleeps on an end that is ready.
THEOREM LinkAlwaysSound == Spec => [](TypeOK /\ NoOverrun /\ OneOwner /\ WaitersSound)
  <1>1. Init => LinkInv
    BY InitLink
  <1>2. LinkInv /\ [Next]_vars => LinkInv'
    BY EveryStep
  <1>3. LinkInv => TypeOK /\ NoOverrun /\ OneOwner /\ WaitersSound
    BY LinkSound
  <1> QED
    BY <1>1, <1>2, <1>3, PTL DEF Spec

\* Where an end that was moved is posted at once, nothing is stranded: an
\* accepted value is queued, on its way or consumed, in order, until the receiver
\* itself is over, and a credit is in exactly one place while both are open.
THEOREM NothingEverStranded ==
    ASSUME ~Loiters
    PROVE  Spec => []NothingStranded
  <1>1. Init => LinkInv /\ NothingStranded
    BY InitLink
  <1>2. LinkInv /\ NothingStranded /\ [Next]_vars => (LinkInv /\ NothingStranded)'
    BY EveryStep
  <1> QED
    BY <1>1, <1>2, PTL DEF Spec
=============================================================================
