------------------------ MODULE BoundedQueue_proofs ------------------------
(***************************************************************************)
(* Proofs about BoundedQueue, for every set of threads and messages, every *)
(* measure and every pair of limits: its accounts, its order, its wakeups, *)
(* and that it implements Channel.                                         *)
(***************************************************************************)
EXTENDS BoundedQueue, FiniteSetTheorems, WellFoundedInduction, TLAPS

\* A consumer is no producer: neither ever sleeps on the other's condition.
LEMMA CallShape ==
    ASSUME NEW x \in Calls
    PROVE  /\ x.op \in {"idle", "push_wait", "pop"}
           /\ x.op = "push_wait" => x.value \in Messages /\ x = [op |-> "push_wait", value |-> x.value]
           /\ x.op = "pop" => x \in [op : {"pop"}, timed : BOOLEAN, expired : BOOLEAN]
           /\ x.op = "idle" => x = Idle
  BY DEF Calls, Idle

\* What a notification may do to a wait set.
LEMMA NotifyOneShrinks ==
    ASSUME NEW w, NEW w2, NotifyOne(w, w2)
    PROVE  /\ w2 \subseteq w
           /\ w = {} => w2 = {}
           /\ w # {} => \E t \in w : w2 = w \ {t}
  BY DEF NotifyOne

\* Accepting keeps every variable in its type.
LEMMA AcceptType ==
    ASSUME TypeOK, NEW m \in Messages, Accept(m)
    PROVE  /\ entries' \in Seq(Messages) /\ bytes' \in Nat /\ closed' \in BOOLEAN
           /\ arrived' \in SUBSET Consumers /\ space' \in SUBSET Producers
           /\ accepted' \in Seq(Messages) /\ delivered' \in Seq(Messages)
           /\ fate' \in [Messages -> Fates]
  <1>1. bytes + Bytes[m] \in Nat
    BY BytesAssumption DEF TypeOK
  <1>2. arrived' \subseteq arrived
    BY NotifyOneShrinks DEF Accept
  <1> QED
    BY <1>1, <1>2 DEF Accept, TypeOK, Fates

\* Refusing a message keeps the types.
LEMMA RefuseType ==
    ASSUME TypeOK, NEW m \in Messages, Refuse(m)
    PROVE  /\ entries' \in Seq(Messages) /\ bytes' \in Nat /\ closed' \in BOOLEAN
           /\ arrived' \in SUBSET Consumers /\ space' \in SUBSET Producers
           /\ accepted' \in Seq(Messages) /\ delivered' \in Seq(Messages)
           /\ fate' \in [Messages -> Fates]
  BY DEF Refuse, TypeOK, Fates

\* Taking the front message keeps the types.
LEMMA TakeType ==
    ASSUME TypeOK, Take
    PROVE  /\ entries' \in Seq(Messages) /\ bytes' \in Nat /\ closed' \in BOOLEAN
           /\ arrived' \in SUBSET Consumers /\ space' \in SUBSET Producers
           /\ accepted' \in Seq(Messages) /\ delivered' \in Seq(Messages)
           /\ fate' \in [Messages -> Fates]
  <1>1. CASE entries = <<>>
    BY <1>1 DEF Take, TypeOK, queueVars
  <1>2. ASSUME NEW m \in Messages, Deliver(m), entries # <<>>
        PROVE  /\ entries' \in Seq(Messages) /\ bytes' \in Nat /\ closed' \in BOOLEAN
               /\ arrived' \in SUBSET Consumers /\ space' \in SUBSET Producers
               /\ accepted' \in Seq(Messages) /\ delivered' \in Seq(Messages)
               /\ fate' \in [Messages -> Fates]
    <2>1. bytes \in Nat /\ Bytes[m] \in Nat
      BY BytesAssumption DEF TypeOK
    <2>2. bytes' \in Nat
      BY <1>2, <2>1 DEF Deliver
    <2>3. space' \subseteq space
      BY <1>2, NotifyOneShrinks DEF Deliver
    <2>4. Tail(entries) \in Seq(Messages)
      BY <1>2 DEF TypeOK
    <2> QED
      BY <1>2, <2>2, <2>3, <2>4 DEF Deliver, TypeOK, Fates
  <1>3. CASE entries # <<>>
    <2>1. Head(entries) \in Messages
      BY <1>3 DEF TypeOK
    <2> QED
      BY <1>2, <1>3, <2>1 DEF Take
  <1> QED
    BY <1>1, <1>3

LEMMA TypeInit == Init => TypeOK
<1> SUFFICES ASSUME Init PROVE TypeOK
  OBVIOUS
<1>1. /\ entries \in Seq(Messages)
      /\ accepted \in Seq(Messages)
      /\ delivered \in Seq(Messages)
  BY DEF Init
<1>2. arrived \in SUBSET Consumers /\ space \in SUBSET Producers
  BY DEF Init
<1>3. bytes \in Nat /\ closed \in BOOLEAN
  BY DEF Init
<1>4. call \in [Threads -> Calls]
  BY DEF Init, Calls
<1>5. fate \in [Messages -> Fates]
  BY DEF Init, Fates
<1> QED
  BY <1>1, <1>2, <1>3, <1>4, <1>5 DEF TypeOK

LEMMA TypeStep == TypeOK /\ [Next]_vars => TypeOK'
<1> SUFFICES ASSUME TypeOK, [Next]_vars PROVE TypeOK'
  OBVIOUS
<1>1. ASSUME NEW p \in Producers, NEW m \in Messages, TryPush(p, m)
      PROVE  TypeOK'
  BY <1>1, AcceptType, RefuseType DEF TryPush, TypeOK
<1>2. ASSUME NEW p \in Producers, NEW m \in Messages, PushWait(p, m)
      PROVE  TypeOK'
  <2>1. CASE Accept(m) /\ UNCHANGED call
    BY <2>1, AcceptType DEF TypeOK
  <2>2. CASE Refuse(m) /\ UNCHANGED call
    BY <2>2, RefuseType DEF TypeOK
  <2>3. CASE /\ space' = space \union {p}
             /\ call' = [call EXCEPT ![p] = [op |-> "push_wait", value |-> m]]
             /\ fate' = [fate EXCEPT ![m] = "waiting"]
             /\ UNCHANGED <<queueVars, arrived, accepted, delivered>>
    BY <2>3 DEF TypeOK, queueVars, Calls, Fates, Threads
  <2> QED
    BY <1>2, <2>1, <2>2, <2>3 DEF PushWait
<1>3. ASSUME NEW p \in Producers, PushWoken(p)
      PROVE  TypeOK'
  <2>1. p \in Threads /\ call[p].value \in Messages
    BY <1>3, CallShape DEF PushWoken, TypeOK, Threads
  <2>2. Idle \in Calls
    BY DEF Calls
  <2>3. CASE Refuse(call[p].value) /\ call' = [call EXCEPT ![p] = Idle]
    BY <2>1, <2>2, <2>3, RefuseType DEF TypeOK
  <2>4. CASE Accept(call[p].value) /\ call' = [call EXCEPT ![p] = Idle]
    BY <2>1, <2>2, <2>4, AcceptType DEF TypeOK
  <2>5. CASE /\ space' = space \union {p}
             /\ UNCHANGED <<queueVars, arrived, call, accepted, delivered, fate>>
    BY <2>5 DEF TypeOK, queueVars
  <2> QED
    BY <1>3, <2>3, <2>4, <2>5 DEF PushWoken
<1>4. ASSUME NEW c \in Consumers, PopNow(c)
      PROVE  TypeOK'
  BY <1>4, TakeType DEF PopNow, TypeOK
<1>5. ASSUME NEW c \in Consumers, NEW timed \in BOOLEAN, PopWait(c, timed)
      PROVE  TypeOK'
  <2>1. CASE Take /\ UNCHANGED call
    BY <2>1, TakeType DEF TypeOK
  <2>2. CASE ~(Take /\ UNCHANGED call)
    <3>1. [op |-> "pop", timed |-> timed, expired |-> FALSE] \in Calls
      BY DEF Calls
    <3> QED
      BY <1>5, <2>2, <3>1 DEF PopWait, TypeOK, queueVars, Threads
  <2> QED
    BY <2>1, <2>2
<1>6. ASSUME NEW c \in Consumers, PopTimeout(c)
      PROVE  TypeOK'
  <2>1. c \in Threads /\ [call[c] EXCEPT !.expired = TRUE] \in Calls
    <3>1. call[c] \in Calls /\ c \in Threads
      BY DEF TypeOK, Threads
    <3>2. call[c].op = "pop"
      BY <1>6 DEF PopTimeout, TypeOK
    <3>3. call[c] \in [op : {"pop"}, timed : BOOLEAN, expired : BOOLEAN]
      BY <3>1, <3>2, CallShape
    <3> QED
      BY <3>1, <3>3 DEF Calls
  <2> QED
    BY <1>6, <2>1 DEF PopTimeout, TypeOK, queueVars
<1>7. ASSUME NEW c \in Consumers, PopWoken(c)
      PROVE  TypeOK'
  <2>1. Idle \in Calls /\ c \in Threads
    BY DEF Calls, Threads
  <2>2. CASE Take /\ call' = [call EXCEPT ![c] = Idle]
    BY <2>1, <2>2, TakeType DEF TypeOK
  <2>3. CASE ~(Take /\ call' = [call EXCEPT ![c] = Idle])
    BY <1>7, <2>1, <2>3 DEF PopWoken, TypeOK, queueVars
  <2> QED
    BY <2>2, <2>3
<1>8. ASSUME NEW t \in Threads, SpuriousWake(t)
      PROVE  TypeOK'
  BY <1>8 DEF SpuriousWake, TypeOK, queueVars
<1>9. CASE Close
  BY <1>9 DEF Close, TypeOK
<1>10. CASE CloseAndDiscard
  BY <1>10 DEF CloseAndDiscard, TypeOK, Fates
<1>11. CASE UNCHANGED vars
  BY <1>11 DEF vars, TypeOK
<1> QED
  BY <1>1, <1>2, <1>3, <1>4, <1>5, <1>6, <1>7, <1>8, <1>9, <1>10, <1>11
     DEF Next, Produce, Consume

-----------------------------------------------------------------------------
(* Measures *)

\* Induction over the naturals, from the well-foundedness of their order.
LEMMA Induction == ASSUME NEW T, 0 \in T, \A n \in Nat : n \in T => n + 1 \in T PROVE \A n \in Nat : n \in T
<1> SUFFICES ASSUME NEW k \in Nat, k \notin T PROVE FALSE OBVIOUS
<1> DEFINE U == Nat \ T
<1> DEFINE R == OpToRel(<, Nat)
<1>1. IsWellFoundedOn(R, Nat) BY NatLessThanWellFounded
<1>2. U \subseteq Nat /\ U # {} OBVIOUS
<1> HIDE DEF R
<1>3. PICK x \in U : \A y \in U : ~(<<y, x>> \in R) BY <1>1, <1>2, WFMin
<1>4. x \in Nat /\ x # 0 OBVIOUS
<1>5. x - 1 \in Nat /\ x - 1 \in U BY <1>4
<1>6. <<x - 1, x>> \in R BY <1>4, <1>5 DEF R, OpToRel
<1> QED BY <1>3, <1>5, <1>6

\* The sums of the measures of a sequence's beginnings.
Sums(s, g) ==
    /\ g \in [0..Len(s) -> Nat] /\ g[0] = 0
    /\ \A i \in 1..Len(s) : g[i] = g[i - 1] + Bytes[s[i]]

\* They determine what Held computes.
LEMMA SumsHeld ==
    ASSUME NEW s \in Seq(Messages), NEW g, Sums(s, g)
    PROVE  Held(s) = g[Len(s)]
<1> DEFINE n == Len(s)
<1> DEFINE Eq(f) == f = [i \in 0..n |-> IF i = 0 THEN 0 ELSE f[i - 1] + Bytes[s[i]]]
<1> DEFINE t == CHOOSE f : Eq(f)
<1>0. n \in Nat OBVIOUS
<1>1. Held(s) = t[n] BY DEF Held
<1>2. Eq(g) BY <1>0 DEF Sums
<1>3. Eq(t) BY <1>2
<1> HIDE DEF t
<1>4. t[0] = 0 /\ \A i \in 1..n : t[i] = t[i - 1] + Bytes[s[i]] BY <1>0, <1>3
<1> HIDE DEF Eq
<1> DEFINE T == {i \in Nat : i <= n => t[i] = g[i]}
<1>5. 0 \in T BY <1>4 DEF Sums
<1>6. ASSUME NEW i \in Nat, i \in T PROVE i + 1 \in T
  <2> SUFFICES ASSUME i + 1 <= n PROVE t[i + 1] = g[i + 1] OBVIOUS
  <2>1. i + 1 \in 1..n /\ (i + 1) - 1 = i /\ t[i] = g[i] BY <1>0, <1>6
  <2> QED BY <2>1, <1>4 DEF Sums
<1> HIDE DEF T
<1>7. \A i \in Nat : i \in T BY <1>5, <1>6, Induction
<1> QED BY <1>0, <1>1, <1>7 DEF T

\* The sums grow.
LEMMA SumsGrow ==
    ASSUME NEW s \in Seq(Messages), NEW g, Sums(s, g), NEW j \in 0..Len(s)
    PROVE  \A i \in j..Len(s) : g[j] <= g[i]
<1> DEFINE n == Len(s)
<1>0. n \in Nat OBVIOUS
<1> DEFINE T == {i \in Nat : j + i <= n => g[j] <= g[j + i]}
<1>5. 0 \in T BY <1>0 DEF Sums
<1>6. ASSUME NEW i \in Nat, i \in T PROVE i + 1 \in T
  <2> SUFFICES ASSUME j + (i + 1) <= n PROVE g[j] <= g[j + (i + 1)] OBVIOUS
  <2>1. j + i + 1 \in 1..n /\ (j + i + 1) - 1 = j + i /\ g[j] <= g[j + i] BY <1>0, <1>6
  <2>2. s[j + i + 1] \in Messages BY <2>1
  <2>3. Bytes[s[j + i + 1]] \in Nat BY <2>2, BytesAssumption
  <2>4. g[j + i + 1] = g[j + i] + Bytes[s[j + i + 1]] BY <2>1 DEF Sums
  <2>5. g[j] \in Nat /\ g[j + i] \in Nat BY <2>1 DEF Sums
  <2> QED BY <2>1, <2>3, <2>4, <2>5
<1> HIDE DEF T
<1>7. \A i \in Nat : i \in T BY <1>5, <1>6, Induction
<1>8. ASSUME NEW i \in j..n PROVE g[j] <= g[i]
  <2>1. i - j \in Nat /\ i - j \in T BY <1>7
  <2>2. j + (i - j) = i /\ i <= n OBVIOUS
  <2> QED BY <2>1, <2>2 DEF T
<1> QED BY <1>8

\* A message more, a message less.
LEMMA SumsAppend ==
    ASSUME NEW s \in Seq(Messages), NEW g, Sums(s, g), NEW m \in Messages
    PROVE  \E h : Sums(Append(s, m), h) /\ h[Len(s) + 1] = g[Len(s)] + Bytes[m]
<1> DEFINE n == Len(s)
<1> DEFINE h == [i \in 0..n + 1 |-> IF i = n + 1 THEN g[n] + Bytes[m] ELSE g[i]]
<1>0. n \in Nat /\ Len(Append(s, m)) = n + 1 OBVIOUS
<1>1. Bytes[m] \in Nat /\ g[n] \in Nat BY <1>0, BytesAssumption DEF Sums
<1>2. h \in [0..n + 1 -> Nat] /\ h[0] = 0 BY <1>0, <1>1 DEF Sums
<1>3. \A i \in 1..n + 1 : h[i] = h[i - 1] + Bytes[Append(s, m)[i]]
  <2> TAKE i \in 1..n + 1
  <2>1. CASE i = n + 1 BY <2>1, <1>0
  <2>2. CASE i # n + 1
    <3>1. i \in 1..n /\ i - 1 \in 0..n /\ Append(s, m)[i] = s[i] BY <2>2, <1>0
    <3> QED BY <3>1, <2>2, <1>0 DEF Sums
  <2> QED BY <2>1, <2>2
<1>4. h[n + 1] = g[n] + Bytes[m] BY <1>0
<1> HIDE DEF h
<1> QED BY <1>0, <1>2, <1>3, <1>4 DEF Sums

LEMMA SumsTail ==
    ASSUME NEW s \in Seq(Messages), s # <<>>, NEW g, Sums(s, g)
    PROVE  /\ g[Len(s)] >= Bytes[Head(s)]
           /\ \E h : Sums(Tail(s), h) /\ h[Len(s) - 1] = g[Len(s)] - Bytes[Head(s)]
<1> DEFINE n == Len(s)
<1> DEFINE h == [i \in 0..n - 1 |-> g[i + 1] - g[1]]
<1>0. n \in Nat /\ n > 0 /\ Len(Tail(s)) = n - 1 OBVIOUS
<1>1. Head(s) = s[1] /\ s[1] \in Messages BY <1>0
<1>2. g[1] = Bytes[Head(s)] /\ g[1] \in Nat
  <2>1. 1 \in 1..n /\ 1 - 1 = 0 BY <1>0
  <2>2. g[1] = g[0] + Bytes[s[1]] BY <2>1 DEF Sums
  <2> QED BY <2>1, <2>2, <1>1, BytesAssumption DEF Sums
<1>3. \A i \in 1..n : g[1] <= g[i] BY <1>0, SumsGrow
<1>4. h \in [0..n - 1 -> Nat] /\ h[0] = 0
  <2>1. ASSUME NEW i \in 0..n - 1 PROVE g[i + 1] - g[1] \in Nat
    <3>1. i + 1 \in 1..n BY <1>0
    <3>2. g[i + 1] \in Nat /\ g[1] <= g[i + 1] BY <3>1, <1>3 DEF Sums
    <3> QED BY <3>2, <1>2
  <2> QED BY <2>1, <1>0, <1>2
<1>5. \A i \in 1..n - 1 : h[i] = h[i - 1] + Bytes[Tail(s)[i]]
  <2> TAKE i \in 1..n - 1
  <2>1. i + 1 \in 1..n /\ i \in 0..n - 1 /\ i - 1 \in 0..n - 1 /\ (i + 1) - 1 = i /\ (i - 1) + 1 = i BY <1>0
  <2>2. Tail(s)[i] = s[i + 1] /\ s[i + 1] \in Messages BY <2>1, <1>0
  <2>3. g[i + 1] = g[i] + Bytes[s[i + 1]] BY <2>1 DEF Sums
  <2>4. g[i] \in Nat /\ Bytes[s[i + 1]] \in Nat BY <2>1, <2>2, BytesAssumption DEF Sums
  <2>5. h[i] = g[i + 1] - g[1] /\ h[i - 1] = g[i] - g[1] BY <2>1
  <2> HIDE DEF h
  <2> QED BY <2>2, <2>3, <2>4, <2>5, <1>2
<1>6. h[n - 1] = g[n] - Bytes[Head(s)] BY <1>0, <1>2
<1>7. g[n] >= Bytes[Head(s)]
  <2>1. g[1] <= g[n] BY <1>0, <1>3
  <2> QED BY <2>1, <1>2
<1> HIDE DEF h
<1> QED BY <1>0, <1>4, <1>5, <1>6, <1>7 DEF Sums

-----------------------------------------------------------------------------
(* The queue: measure and order *)

\* What a step does to the queue itself: it accepts, delivers, closes or
\* discards, or leaves it as it is.
Accepts == \E m \in Messages : ~closed /\ Fits(m) /\ Accept(m)
Delivers == entries # <<>> /\ Deliver(Head(entries))
Keeps == UNCHANGED <<entries, bytes, accepted, delivered>> /\ closed' \in {closed, TRUE}

LEMMA Kinds == ASSUME TypeOK, [Next]_vars PROVE Accepts \/ Delivers \/ Keeps \/ CloseAndDiscard
<1>0. ASSUME Take PROVE Delivers \/ Keeps BY <1>0 DEF Take, Delivers, Keeps, queueVars
<1>1. ASSUME NEW p \in Producers, NEW m \in Messages, TryPush(p, m) PROVE Accepts \/ Keeps
  BY <1>1 DEF TryPush, Accepts, Keeps, Refuse
<1>2. ASSUME NEW p \in Producers, NEW m \in Messages, PushWait(p, m) PROVE Accepts \/ Keeps
  BY <1>2 DEF PushWait, Accepts, Keeps, Refuse, queueVars
<1>3. ASSUME NEW p \in Producers, PushWoken(p) PROVE Accepts \/ Keeps
  <2>1. call[p].value \in Messages BY <1>3, CallShape DEF PushWoken, TypeOK, Threads
  <2> QED BY <1>3, <2>1 DEF PushWoken, Accepts, Keeps, Refuse, queueVars
<1>4. ASSUME NEW c \in Consumers, PopNow(c) PROVE Delivers \/ Keeps BY <1>0, <1>4 DEF PopNow
<1>5. ASSUME NEW c \in Consumers, NEW timed \in BOOLEAN, PopWait(c, timed) PROVE Delivers \/ Keeps
  BY <1>0, <1>5 DEF PopWait, Keeps, queueVars
<1>6. ASSUME NEW c \in Consumers, PopTimeout(c) PROVE Keeps BY <1>6 DEF PopTimeout, Keeps, queueVars
<1>7. ASSUME NEW c \in Consumers, PopWoken(c) PROVE Delivers \/ Keeps BY <1>0, <1>7 DEF PopWoken, Keeps, queueVars
<1>8. ASSUME NEW t \in Threads, SpuriousWake(t) PROVE Keeps BY <1>8 DEF SpuriousWake, Keeps, queueVars
<1>9. CASE Close BY <1>9 DEF Close, Keeps
<1>10. CASE UNCHANGED vars BY <1>10 DEF vars, Keeps
<1> QED BY <1>1, <1>2, <1>3, <1>4, <1>5, <1>6, <1>7, <1>8, <1>9, <1>10 DEF Next, Produce, Consume

\* The measure of what is held, within the limits.
Measured ==
    /\ \E g : Sums(entries, g) /\ bytes = g[Len(entries)]
    /\ bytes <= ByteLimit /\ Len(entries) <= MessageLimit

LEMMA MeasuredEmpty == ASSUME entries = <<>>, bytes = 0 PROVE Measured
<1> DEFINE g == [i \in 0..0 |-> 0]
<1>1. Sums(<<>>, g) /\ g[Len(<<>>)] = 0 BY DEF Sums
<1> QED BY <1>1, LimitsAssumption DEF Measured

LEMMA MeasuredStep == ASSUME TypeOK, Measured, [Next]_vars PROVE Measured'
<1>0. TypeOK' BY TypeStep
<1>1. PICK g : Sums(entries, g) /\ bytes = g[Len(entries)] BY DEF Measured
<1>2. entries \in Seq(Messages) /\ Len(entries) \in Nat /\ bytes \in Nat BY DEF TypeOK
<1>3. CASE Accepts
  <2>1. PICK m \in Messages : Fits(m) /\ Accept(m) BY <1>3 DEF Accepts
  <2>2. PICK h : Sums(Append(entries, m), h) /\ h[Len(entries) + 1] = g[Len(entries)] + Bytes[m]
    BY <1>1, <1>2, SumsAppend
  <2>3. entries' = Append(entries, m) /\ bytes' = bytes + Bytes[m] BY <2>1 DEF Accept
  <2>4. Len(entries') = Len(entries) + 1 BY <1>2, <2>3
  <2>5. bytes' <= ByteLimit BY <2>1, <2>3 DEF Fits
  <2>6. Len(entries') <= MessageLimit BY <1>2, <2>1, <2>4, LimitsAssumption DEF Fits
  <2> QED BY <1>1, <2>2, <2>3, <2>4, <2>5, <2>6 DEF Measured
<1>4. CASE Delivers
  <2>1. g[Len(entries)] >= Bytes[Head(entries)] BY <1>1, <1>2, <1>4, SumsTail DEF Delivers
  <2>2. PICK h : Sums(Tail(entries), h) /\ h[Len(entries) - 1] = g[Len(entries)] - Bytes[Head(entries)]
    BY <1>1, <1>2, <1>4, SumsTail DEF Delivers
  <2>3. entries' = Tail(entries) /\ bytes' = bytes - Bytes[Head(entries)] BY <1>1, <1>4, <2>1 DEF Delivers, Deliver
  <2>4. Len(entries') = Len(entries) - 1 BY <1>2, <1>4, <2>3 DEF Delivers
  <2>5. Bytes[Head(entries)] \in Nat BY <1>2, <1>4, BytesAssumption DEF Delivers
  <2>6. bytes' <= ByteLimit BY <1>2, <2>3, <2>5, LimitsAssumption DEF Measured
  <2>7. Len(entries') <= MessageLimit BY <1>2, <2>4, LimitsAssumption DEF Measured
  <2> QED BY <1>1, <2>2, <2>3, <2>4, <2>6, <2>7 DEF Measured
<1>5. CASE Keeps BY <1>5 DEF Keeps, Measured, Sums
<1>6. CASE CloseAndDiscard
  <2>1. entries' = <<>> /\ bytes' = 0 BY <1>6 DEF CloseAndDiscard
  <2> DEFINE z == [i \in 0..0 |-> 0]
  <2>2. Sums(<<>>, z) /\ z[Len(<<>>)] = 0 BY DEF Sums
  <2> QED BY <2>1, <2>2, LimitsAssumption DEF Measured
<1> QED BY <1>3, <1>4, <1>5, <1>6, Kinds

LEMMA FifoStep == ASSUME TypeOK, FifoPrefix, [Next]_vars PROVE FifoPrefix'
<1>1. /\ entries \in Seq(Messages) /\ accepted \in Seq(Messages) /\ delivered \in Seq(Messages)
      /\ Len(entries) \in Nat /\ Len(accepted) \in Nat /\ Len(delivered) \in Nat /\ closed \in BOOLEAN
  BY DEF TypeOK
<1>2. CASE Accepts
  <2>1. PICK m \in Messages : ~closed /\ Accept(m) BY <1>2 DEF Accepts
  <2>2. entries' = Append(entries, m) /\ accepted' = Append(accepted, m) /\ UNCHANGED <<delivered, closed>>
    BY <2>1 DEF Accept
  <2>3. Len(entries') = Len(entries) + 1 /\ Len(accepted') = Len(accepted) + 1 /\ Len(delivered') = Len(delivered)
    BY <1>1, <2>2
  <2>4. Len(delivered) + Len(entries) = Len(accepted) BY <2>1 DEF FifoPrefix, Cut
  <2>5. \A i \in 1..Len(delivered') : delivered'[i] = accepted'[i] BY <1>1, <2>2, <2>4 DEF FifoPrefix
  <2>6. \A i \in 1..Len(entries') : entries'[i] = accepted'[Len(delivered') + i]
    <3> TAKE i \in 1..Len(entries')
    <3>1. CASE i = Len(entries) + 1 BY <3>1, <1>1, <2>2, <2>3, <2>4
    <3>2. CASE i # Len(entries) + 1
      <4>1. i \in 1..Len(entries) /\ Len(delivered) + i \in 1..Len(accepted) BY <3>2, <1>1, <2>3, <2>4
      <4> QED BY <4>1, <1>1, <2>2 DEF FifoPrefix
    <3> QED BY <3>1, <3>2
  <2>7. Len(delivered') + Len(entries') = Len(accepted') /\ Len(accepted') \in Nat BY <1>1, <2>3, <2>4
  <2> QED BY <2>5, <2>6, <2>7 DEF FifoPrefix, Cut
<1>3. CASE Delivers
  <2>1. /\ entries # <<>> /\ entries' = Tail(entries) /\ delivered' = Append(delivered, Head(entries))
        /\ UNCHANGED <<accepted, closed>>
    BY <1>3 DEF Delivers, Deliver
  <2>2. Len(entries) > 0 /\ Head(entries) = entries[1] /\ Head(entries) \in Messages BY <1>1, <2>1
  <2>3. Len(entries') = Len(entries) - 1 /\ Len(delivered') = Len(delivered) + 1 BY <1>1, <2>1, <2>2
  <2>4. Len(delivered) + Len(entries) = Len(accepted) BY <2>1 DEF FifoPrefix, Cut
  <2>5. \A i \in 1..Len(delivered') : delivered'[i] = accepted'[i]
    <3> TAKE i \in 1..Len(delivered')
    <3>1. CASE i = Len(delivered) + 1
      <4>1. entries[1] = accepted[Len(delivered) + 1] BY <2>2, <1>1 DEF FifoPrefix
      <4> QED BY <3>1, <4>1, <1>1, <2>1, <2>2
    <3>2. CASE i # Len(delivered) + 1
      <4>1. i \in 1..Len(delivered) BY <3>2, <1>1, <2>3
      <4> QED BY <4>1, <1>1, <2>1 DEF FifoPrefix
    <3> QED BY <3>1, <3>2
  <2>6. \A i \in 1..Len(entries') : entries'[i] = accepted'[Len(delivered') + i]
    <3> TAKE i \in 1..Len(entries')
    <3>1. i + 1 \in 1..Len(entries) /\ Len(delivered') + i = Len(delivered) + (i + 1) BY <1>1, <2>3
    <3>2. entries'[i] = entries[i + 1] BY <3>1, <1>1, <2>1, <2>3
    <3> QED BY <3>1, <3>2, <2>1 DEF FifoPrefix
  <2>7. Len(delivered') + Len(entries') = Len(accepted') /\ Len(accepted') \in Nat BY <1>1, <2>1, <2>3, <2>4
  <2> QED BY <2>5, <2>6, <2>7 DEF FifoPrefix, Cut
<1>4. CASE Keeps BY <1>1, <1>4 DEF Keeps, FifoPrefix, Cut
<1>5. CASE CloseAndDiscard
  <2>1. entries' = <<>> /\ closed' /\ UNCHANGED <<accepted, delivered>> BY <1>5 DEF CloseAndDiscard
  <2> QED BY <1>1, <2>1 DEF FifoPrefix, Cut
<1> QED BY <1>2, <1>3, <1>4, <1>5, Kinds

-----------------------------------------------------------------------------
(* Ownership *)

\* What each thread may be doing: a sleeper is inside its own call, and only a
\* value that an empty queue could hold is waited with.
CallsFit ==
    /\ \A p \in Producers : call[p].op # "pop" /\ (call[p].op = "push_wait" => Bytes[call[p].value] <= ByteLimit)
    /\ \A c \in Consumers : call[c].op # "push_wait"
    /\ (\A p \in space : call[p].op = "push_wait") /\ (\A c \in arrived : call[c].op = "pop")

LEMMA CallsFitStep == ASSUME TypeOK, CallsFit, [Next]_vars PROVE CallsFit'
<1> USE ThreadsAssumption DEF CallsFit, TypeOK, Threads, Idle
<1>0. ASSUME Take PROVE arrived' = arrived /\ space' \subseteq space
  BY <1>0, NotifyOneShrinks DEF Take, Deliver
<1>1. ASSUME NEW p \in Producers, NEW m \in Messages, TryPush(p, m) PROVE CallsFit'
  <2>1. arrived' \subseteq arrived /\ space' = space BY <1>1, NotifyOneShrinks DEF TryPush, Accept, Refuse
  <2> QED BY <1>1, <2>1 DEF TryPush
<1>2. ASSUME NEW p \in Producers, NEW m \in Messages, PushWait(p, m) PROVE CallsFit'
  <2>1. CASE UNCHANGED call /\ (Accept(m) \/ Refuse(m))
    <3>1. arrived' \subseteq arrived /\ space' = space BY <2>1, NotifyOneShrinks DEF Accept, Refuse
    <3> QED BY <2>1, <3>1
  <2>2. CASE /\ Bytes[m] <= ByteLimit /\ space' = space \union {p} /\ UNCHANGED arrived
             /\ call' = [call EXCEPT ![p] = [op |-> "push_wait", value |-> m]]
    BY <2>2
  <2> QED BY <1>2, <2>1, <2>2 DEF PushWait
<1>3. ASSUME NEW p \in Producers, PushWoken(p) PROVE CallsFit'
  <2>1. CASE \E m \in {call[p].value} : (Accept(m) \/ Refuse(m)) /\ call' = [call EXCEPT ![p] = Idle]
    <3>1. arrived' \subseteq arrived /\ space' = space BY <2>1, NotifyOneShrinks DEF Accept, Refuse
    <3>2. p \notin space /\ p \notin arrived BY <1>3 DEF PushWoken, Asleep
    <3> QED BY <2>1, <3>1, <3>2
  <2>2. CASE space' = space \union {p} /\ UNCHANGED <<arrived, call>> BY <1>3, <2>2 DEF PushWoken
  <2> QED BY <1>3, <2>1, <2>2 DEF PushWoken
<1>4. ASSUME NEW c \in Consumers, PopNow(c) PROVE CallsFit' BY <1>0, <1>4 DEF PopNow
<1>5. ASSUME NEW c \in Consumers, NEW timed \in BOOLEAN, PopWait(c, timed) PROVE CallsFit'
  <2>1. CASE Take /\ UNCHANGED call BY <1>0, <2>1
  <2>2. CASE /\ arrived' = arrived \union {c} /\ UNCHANGED space
             /\ call' = [call EXCEPT ![c] = [op |-> "pop", timed |-> timed, expired |-> FALSE]]
    <3>1. call'[c].op = "pop" /\ \A t \in Threads : t # c => call'[t] = call[t] BY <2>2
    <3> QED BY <2>2, <3>1
  <2> QED BY <1>5, <2>1, <2>2 DEF PopWait
<1>6. ASSUME NEW c \in Consumers, PopTimeout(c) PROVE CallsFit'
  <2>1. call[c] \in [op : {"pop"}, timed : BOOLEAN, expired : BOOLEAN] BY <1>6, CallShape DEF PopTimeout
  <2>2. call'[c].op = "pop" /\ \A t \in Threads : t # c => call'[t] = call[t] BY <1>6, <2>1 DEF PopTimeout
  <2>3. arrived' = arrived \ {c} /\ UNCHANGED space BY <1>6 DEF PopTimeout
  <2> QED BY <2>2, <2>3
<1>7. ASSUME NEW c \in Consumers, PopWoken(c) PROVE CallsFit'
  <2>1. c \notin arrived /\ c \notin space BY <1>7 DEF PopWoken, Asleep
  <2>2. CASE Take /\ call' = [call EXCEPT ![c] = Idle] BY <1>0, <2>1, <2>2
  <2>3. CASE arrived' = arrived \union {c} /\ UNCHANGED <<call, space>> BY <1>7, <2>3 DEF PopWoken
  <2>4. CASE UNCHANGED <<arrived, space>> /\ call' = [call EXCEPT ![c] = Idle] BY <2>1, <2>4
  <2> QED BY <1>7, <2>2, <2>3, <2>4 DEF PopWoken
<1>8. ASSUME NEW t \in Threads, SpuriousWake(t) PROVE CallsFit' BY <1>8 DEF SpuriousWake
<1>9. CASE Close \/ CloseAndDiscard BY <1>9 DEF Close, CloseAndDiscard
<1>10. CASE UNCHANGED vars BY <1>10 DEF vars
<1> QED BY <1>1, <1>2, <1>3, <1>4, <1>5, <1>6, <1>7, <1>8, <1>9, <1>10 DEF Next, Produce, Consume

In(m, s) == \E i \in 1..Len(s) : s[i] = m
Distinct(s) == \A i, j \in 1..Len(s) : s[i] = s[j] => i = j

LEMMA InAppend ==
    ASSUME NEW s \in Seq(Messages), NEW m \in Messages
    PROVE  /\ \A x : In(x, Append(s, m)) <=> In(x, s) \/ x = m
           /\ Distinct(s) /\ ~In(m, s) => Distinct(Append(s, m))
<1> DEFINE a == Append(s, m)
<1>1. Len(a) = Len(s) + 1 /\ Len(s) \in Nat /\ a[Len(s) + 1] = m /\ \A i \in 1..Len(s) : a[i] = s[i] OBVIOUS
<1>2. \A i \in 1..Len(a) : i \in 1..Len(s) \/ i = Len(s) + 1 BY <1>1
<1>3. \A i \in 1..Len(s) : i \in 1..Len(a) BY <1>1
<1>4. Len(s) + 1 \in 1..Len(a) BY <1>1
<1> HIDE DEF a
<1>5. \A x : In(x, a) <=> In(x, s) \/ x = m BY <1>1, <1>2, <1>3, <1>4 DEF In
<1>6. Distinct(s) /\ ~In(m, s) => Distinct(a) BY <1>1, <1>2 DEF In, Distinct
<1> QED BY <1>5, <1>6 DEF a

LEMMA InTail ==
    ASSUME NEW s \in Seq(Messages), s # <<>>, Distinct(s)
    PROVE  /\ In(Head(s), s)
           /\ \A x : In(x, Tail(s)) <=> In(x, s) /\ x # Head(s)
<1> DEFINE t == Tail(s)
<1>1. Len(t) = Len(s) - 1 /\ Len(s) \in Nat /\ Len(s) >= 1 /\ Head(s) = s[1]
      /\ \A i \in 1..Len(t) : i + 1 \in 1..Len(s) /\ t[i] = s[i + 1]
  OBVIOUS
<1> HIDE DEF t
<1>2. ASSUME NEW x, In(x, t) PROVE In(x, s) /\ x # Head(s)
  <2>1. PICK i \in 1..Len(t) : t[i] = x BY <1>2 DEF In
  <2>2. i + 1 \in 1..Len(s) /\ s[i + 1] = x /\ i + 1 # 1 /\ 1 \in 1..Len(s) BY <1>1, <2>1
  <2> QED BY <1>1, <2>2 DEF In, Distinct
<1>3. ASSUME NEW x, In(x, s), x # Head(s) PROVE In(x, t)
  <2>1. PICK i \in 1..Len(s) : s[i] = x BY <1>3 DEF In
  <2>2. i # 1 BY <1>1, <1>3, <2>1
  <2>3. i - 1 \in 1..Len(t) /\ (i - 1) + 1 = i BY <1>1, <2>2
  <2>4. t[i - 1] = x BY <1>1, <2>1, <2>3
  <2> QED BY <2>3, <2>4 DEF In
<1>4. In(Head(s), s)
  <2>1. 1 \in 1..Len(s) BY <1>1
  <2> QED BY <2>1, <1>1 DEF In
<1> QED BY <1>2, <1>3, <1>4 DEF t

\* Who owns the messages the queue took, and who those it has not.
QueueOwned ==
    /\ \A m \in Messages : /\ fate[m] = "queue" <=> In(m, entries)
                           /\ fate[m] = "consumer" <=> In(m, delivered)
                           /\ In(m, accepted) => fate[m] \in {"queue", "consumer", "dropped"}
    /\ Distinct(accepted)
Offers(m) == [op |-> "push_wait", value |-> m]
WaitOwned ==
    /\ \A m \in Messages : fate[m] = "waiting" <=> \E p \in Producers : call[p] = Offers(m)
    /\ \A p, q \in Producers : \A m \in Messages : call[p] = Offers(m) /\ call[q] = Offers(m) => p = q

LEMMA EntriesDistinct == ASSUME TypeOK, FifoPrefix, Distinct(accepted) PROVE Distinct(entries)
<1>1. Len(entries) \in Nat /\ Len(delivered) \in Nat /\ Len(accepted) \in Nat BY DEF TypeOK
<1>2. \A i \in 1..Len(entries) : Len(delivered) + i \in 1..Len(accepted) BY <1>1 DEF FifoPrefix
<1>3. \A i \in 1..Len(entries) : entries[i] = accepted[Len(delivered) + i] BY DEF FifoPrefix
<1>4. ASSUME NEW i \in 1..Len(entries), NEW j \in 1..Len(entries), entries[i] = entries[j] PROVE i = j
  <2>1. Len(delivered) + i = Len(delivered) + j BY <1>2, <1>3, <1>4 DEF Distinct
  <2> QED BY <1>1, <2>1
<1> QED BY <1>4 DEF Distinct

LEMMA AcceptOwned ==
    ASSUME TypeOK, QueueOwned, NEW m \in Messages, fate[m] \in {"caller", "waiting"}, Accept(m)
    PROVE  QueueOwned'
<1>1. entries' = Append(entries, m) /\ accepted' = Append(accepted, m) /\ delivered' = delivered
      /\ fate' = [fate EXCEPT ![m] = "queue"]
  BY DEF Accept
<1>2. entries \in Seq(Messages) /\ accepted \in Seq(Messages) BY DEF TypeOK
<1>3. \A x \in Messages : fate'[x] = IF x = m THEN "queue" ELSE fate[x] BY <1>1 DEF TypeOK
<1>4. ~In(m, accepted) /\ ~In(m, entries) /\ ~In(m, delivered) BY DEF QueueOwned
<1>5. \A x : In(x, entries') <=> In(x, entries) \/ x = m BY <1>1, <1>2, InAppend
<1>6. \A x : In(x, accepted') <=> In(x, accepted) \/ x = m BY <1>1, <1>2, InAppend
<1>7. Distinct(accepted') BY <1>1, <1>2, <1>4, InAppend DEF QueueOwned
<1>8. \A x : In(x, delivered') <=> In(x, delivered) BY <1>1
<1> QED BY <1>3, <1>4, <1>5, <1>6, <1>7, <1>8 DEF QueueOwned

LEMMA DeliverOwned ==
    ASSUME TypeOK, FifoPrefix, QueueOwned, Delivers
    PROVE  QueueOwned' /\ \A x \in Messages : fate'[x] = "waiting" <=> fate[x] = "waiting"
<1> DEFINE m == Head(entries)
<1>1. entries' = Tail(entries) /\ delivered' = Append(delivered, m) /\ accepted' = accepted
      /\ fate' = [fate EXCEPT ![m] = "consumer"] /\ entries # <<>>
  BY DEF Delivers, Deliver
<1>2. entries \in Seq(Messages) /\ delivered \in Seq(Messages) /\ m \in Messages BY <1>1 DEF TypeOK
<1>3. Distinct(entries) BY EntriesDistinct DEF QueueOwned
<1>4. In(m, entries) /\ \A x : In(x, entries') <=> In(x, entries) /\ x # m BY <1>1, <1>2, <1>3, InTail
<1> HIDE DEF m
<1>5. \A x \in Messages : fate'[x] = IF x = m THEN "consumer" ELSE fate[x] BY <1>1 DEF TypeOK
<1>6. fate[m] = "queue" BY <1>2, <1>4 DEF QueueOwned
<1>7. \A x : In(x, delivered') <=> In(x, delivered) \/ x = m BY <1>1, <1>2, InAppend
<1>8. (\A x : In(x, accepted') <=> In(x, accepted)) /\ Distinct(accepted') BY <1>1 DEF QueueOwned
<1> QED BY <1>4, <1>5, <1>6, <1>7, <1>8 DEF QueueOwned

LEMMA RefuseOwned ==
    ASSUME TypeOK, QueueOwned, NEW m \in Messages, fate[m] \in {"caller", "waiting"},
           NEW f \in {"refused", "waiting"}, fate' = [fate EXCEPT ![m] = f], UNCHANGED <<entries, accepted, delivered>>
    PROVE  QueueOwned'
<1>1. \A x \in Messages : fate'[x] = IF x = m THEN f ELSE fate[x] BY DEF TypeOK
<1>2. ~In(m, accepted) /\ ~In(m, entries) /\ ~In(m, delivered) BY DEF QueueOwned
<1>3. \A x : (In(x, accepted') <=> In(x, accepted)) /\ (In(x, entries') <=> In(x, entries)) /\ (In(x, delivered') <=> In(x, delivered))
  OBVIOUS
<1>4. Distinct(accepted') BY DEF QueueOwned
<1> QED BY <1>1, <1>2, <1>3, <1>4 DEF QueueOwned

LEMMA OfferShape == ASSUME TypeOK, NEW t \in Threads, call[t].op = "push_wait"
                    PROVE call[t].value \in Messages /\ call[t] = Offers(call[t].value)
BY CallShape DEF TypeOK, Offers

\* A producer's call only: it offers another message, or none any more.
LEMMA OffersUnchanged ==
    ASSUME WaitOwned, \A p \in Producers : call'[p] = call[p],
           \A m \in Messages : fate'[m] = "waiting" <=> fate[m] = "waiting"
    PROVE  WaitOwned'
BY DEF WaitOwned, Offers

LEMMA OwnedStep == ASSUME TypeOK, FifoPrefix, CallsFit, QueueOwned, WaitOwned, [Next]_vars PROVE QueueOwned' /\ WaitOwned'
<1> DEFINE Goal == QueueOwned' /\ WaitOwned'
<1>a. ASSUME UNCHANGED <<entries, accepted, delivered, fate>> PROVE QueueOwned' BY <1>a DEF QueueOwned, In, Distinct
<1>b. ASSUME Take PROVE QueueOwned' /\ \A x \in Messages : fate'[x] = "waiting" <=> fate[x] = "waiting"
  <2>1. CASE entries = <<>> BY <1>a, <1>b, <2>1 DEF Take, queueVars
  <2>2. CASE entries # <<>> BY <1>b, <2>2, DeliverOwned DEF Take, Delivers
  <2> QED BY <2>1, <2>2
<1>c. ASSUME NEW m \in Messages, fate[m] = "caller", Accept(m) \/ Refuse(m), UNCHANGED call PROVE Goal
  <2>1. QueueOwned' BY <1>c, AcceptOwned, RefuseOwned DEF Refuse
  <2>2. fate' = [fate EXCEPT ![m] = "queue"] \/ fate' = [fate EXCEPT ![m] = "refused"] BY <1>c DEF Accept, Refuse
  <2>3. \A x \in Messages : fate'[x] = "waiting" <=> fate[x] = "waiting" BY <1>c, <2>2 DEF TypeOK
  <2> QED BY <1>c, <2>1, <2>3, OffersUnchanged
<1>1. ASSUME NEW p \in Producers, NEW m \in Messages, TryPush(p, m) PROVE Goal BY <1>1, <1>c DEF TryPush
<1>2. ASSUME NEW p \in Producers, NEW m \in Messages, PushWait(p, m) PROVE Goal
  <2>1. fate[m] = "caller" /\ call[p] = Idle BY <1>2 DEF PushWait
  <2>2. CASE (Accept(m) \/ Refuse(m)) /\ UNCHANGED call BY <1>c, <2>1, <2>2
  <2>3. CASE /\ call' = [call EXCEPT ![p] = [op |-> "push_wait", value |-> m]]
             /\ fate' = [fate EXCEPT ![m] = "waiting"] /\ UNCHANGED <<entries, accepted, delivered>>
    <3>1. QueueOwned' BY <2>1, <2>3, RefuseOwned
    <3>2. call'[p] = Offers(m) /\ \A q \in Producers : q # p => call'[q] = call[q] BY <2>3 DEF Offers, TypeOK, Threads
    <3>3. \A x \in Messages : fate'[x] = IF x = m THEN "waiting" ELSE fate[x] BY <2>3 DEF TypeOK
    <3>4. \A x \in Messages : call[p] # Offers(x) BY <2>1 DEF Idle, Offers
    <3>5. \A q \in Producers : call[q] # Offers(m) BY <2>1 DEF WaitOwned
    <3>6. \A x \in Messages : Offers(x) = Offers(m) => x = m BY DEF Offers
    <3>7. WaitOwned' BY <3>2, <3>3, <3>4, <3>5, <3>6 DEF WaitOwned
    <3> QED BY <3>1, <3>7
  <2> QED BY <1>2, <2>2, <2>3 DEF PushWait, queueVars
<1>3. ASSUME NEW p \in Producers, PushWoken(p) PROVE Goal
  <2> DEFINE m == call[p].value
  <2>1. m \in Messages /\ call[p] = Offers(m) BY <1>3, OfferShape DEF PushWoken, Threads
  <2>2. fate[m] = "waiting" BY <2>1 DEF WaitOwned
  <2>3. CASE (Accept(m) \/ Refuse(m)) /\ call' = [call EXCEPT ![p] = Idle]
    <3>1. QueueOwned' BY <2>1, <2>2, <2>3, AcceptOwned, RefuseOwned DEF Refuse
    <3>2. call'[p] = Idle /\ \A q \in Producers : q # p => call'[q] = call[q] BY <2>3 DEF TypeOK, Threads
    <3>3. fate' = [fate EXCEPT ![m] = "queue"] \/ fate' = [fate EXCEPT ![m] = "refused"] BY <2>3 DEF Accept, Refuse
    <3> HIDE DEF m
    <3>4. \A x \in Messages : fate'[x] = "waiting" <=> x # m /\ fate[x] = "waiting" BY <2>1, <3>3 DEF TypeOK
    <3>5. \A x \in Messages : Idle # Offers(x) BY DEF Idle, Offers
    <3>6. \A x \in Messages : Offers(x) = Offers(m) => x = m BY DEF Offers
    <3>7. WaitOwned' BY <2>1, <3>2, <3>4, <3>5, <3>6 DEF WaitOwned
    <3> QED BY <3>1, <3>7
  <2>4. CASE UNCHANGED <<queueVars, arrived, call, accepted, delivered, fate>>
    BY <1>a, <2>4, OffersUnchanged DEF queueVars
  <2> QED BY <1>3, <2>3, <2>4 DEF PushWoken
<1>d. ASSUME NEW c \in Consumers, NEW v, call' = [call EXCEPT ![c] = v] PROVE \A p \in Producers : call'[p] = call[p]
  BY <1>d, ThreadsAssumption DEF TypeOK, Threads
<1>4. ASSUME NEW c \in Consumers, PopNow(c) PROVE Goal BY <1>4, <1>b, OffersUnchanged DEF PopNow
<1>5. ASSUME NEW c \in Consumers, NEW timed \in BOOLEAN, PopWait(c, timed) PROVE Goal
  BY <1>5, <1>a, <1>b, <1>d, OffersUnchanged DEF PopWait, queueVars
<1>6. ASSUME NEW c \in Consumers, PopTimeout(c) PROVE Goal
  BY <1>6, <1>a, <1>d, OffersUnchanged DEF PopTimeout, queueVars
<1>7. ASSUME NEW c \in Consumers, PopWoken(c) PROVE Goal
  BY <1>7, <1>a, <1>b, <1>d, OffersUnchanged DEF PopWoken, queueVars
<1>8. ASSUME NEW t \in Threads, SpuriousWake(t) PROVE Goal BY <1>8, <1>a, OffersUnchanged DEF SpuriousWake, queueVars
<1>9. CASE Close BY <1>9, <1>a, OffersUnchanged DEF Close
<1>10. CASE CloseAndDiscard
  <2>1. fate' = [x \in Messages |-> IF fate[x] = "queue" THEN "dropped" ELSE fate[x]] /\ entries' = <<>>
        /\ UNCHANGED <<call, accepted, delivered>>
    BY <1>10 DEF CloseAndDiscard
  <2>2. \A x \in Messages : fate'[x] = IF fate[x] = "queue" THEN "dropped" ELSE fate[x] BY <2>1
  <2>3. \A x : ~In(x, entries') BY <2>1 DEF In
  <2>4. (\A x : In(x, accepted') <=> In(x, accepted)) /\ (\A x : In(x, delivered') <=> In(x, delivered)) /\ Distinct(accepted')
    BY <2>1 DEF QueueOwned
  <2>5. QueueOwned' BY <2>2, <2>3, <2>4 DEF QueueOwned
  <2> QED BY <2>1, <2>2, <2>5, OffersUnchanged
<1>11. CASE UNCHANGED vars BY <1>11, <1>a, OffersUnchanged DEF vars
<1> QED BY <1>1, <1>2, <1>3, <1>4, <1>5, <1>6, <1>7, <1>8, <1>9, <1>10, <1>11 DEF Next, Produce, Consume

-----------------------------------------------------------------------------
(* Wakeups *)

LEMMA ClosedStep == ASSUME TypeOK, ClosedWakesAll, [Next]_vars PROVE ClosedWakesAll'
<1> USE DEF ClosedWakesAll
<1>0. ASSUME Take PROVE ClosedWakesAll' BY <1>0, NotifyOneShrinks DEF Take, Deliver, queueVars
<1>1. ASSUME NEW m, Accept(m) \/ Refuse(m) PROVE ClosedWakesAll' BY <1>1, NotifyOneShrinks DEF Accept, Refuse
<1>2. ASSUME NEW p \in Producers, Produce(p) PROVE ClosedWakesAll'
  BY <1>1, <1>2 DEF Produce, TryPush, PushWait, PushWoken, queueVars
<1>3. ASSUME NEW c \in Consumers, Consume(c) PROVE ClosedWakesAll'
  BY <1>0, <1>3 DEF Consume, PopNow, PopWait, PopTimeout, PopWoken, queueVars
<1>4. ASSUME NEW t \in Threads, SpuriousWake(t) PROVE ClosedWakesAll' BY <1>4 DEF SpuriousWake, queueVars
<1>5. CASE Close \/ CloseAndDiscard BY <1>5 DEF Close, CloseAndDiscard
<1>6. CASE UNCHANGED vars BY <1>6 DEF vars
<1> QED BY <1>2, <1>3, <1>4, <1>5, <1>6 DEF Next

\* A producer sleeps only in front of a queue that holds something.
LEMMA NoRoomHeld == ASSUME TypeOK, Measured, NEW m \in Messages, Bytes[m] <= ByteLimit, ~Fits(m) PROVE entries # <<>>
<1> SUFFICES ASSUME entries = <<>> PROVE FALSE OBVIOUS
<1>1. PICK g : Sums(entries, g) /\ bytes = g[Len(entries)] BY DEF Measured
<1>2. Len(entries) = 0 /\ bytes = 0 BY <1>1 DEF Sums
<1>3. Bytes[m] \in Nat BY BytesAssumption
<1> QED BY <1>2, <1>3, LimitsAssumption DEF Fits

LEMMA SpaceStep ==
    ASSUME TypeOK, TypeOK', Measured, CallsFit, CallsFit', ClosedWakesAll, NoLostSpace, [Next]_vars
    PROVE  NoLostSpace'
<1> USE DEF NoLostSpace
<1>0. space \subseteq Producers BY DEF TypeOK
<1>a. ASSUME NEW m \in Messages, Accept(m) PROVE NoLostSpace'
  <2>1. entries' = Append(entries, m) /\ entries \in Seq(Messages) BY <1>a DEF Accept, TypeOK
  <2>2. entries' # <<>> BY <2>1
  <2> QED BY <2>2
<1>b. ASSUME NEW m, Refuse(m), UNCHANGED call PROVE NoLostSpace' BY <1>b DEF Refuse
<1>c. ASSUME Take, \A p \in Producers : call'[p] = call[p] PROVE NoLostSpace'
  <2>1. CASE entries = <<>> BY <1>c, <2>1 DEF Take, queueVars
  <2>2. CASE entries # <<>>
    <3>1. NotifyOne(space, space') BY <1>c, <2>2 DEF Take, Deliver
    <3>2. CASE space = {} BY <3>1, <3>2, NotifyOneShrinks
    <3>3. CASE space # {}
      <4>1. PICK t \in space : space' = space \ {t} BY <3>1, <3>3, NotifyOneShrinks
      <4>2. t \in Producers /\ call'[t].op = "push_wait" /\ t \notin space' BY <4>1, <1>0, <1>c DEF CallsFit
      <4> QED BY <4>2
    <3> QED BY <3>2, <3>3
  <2> QED BY <2>1, <2>2
<1>d. ASSUME UNCHANGED <<entries, space>>, \A p \in Producers : call'[p] = call[p] PROVE NoLostSpace' BY <1>d
<1>e. ASSUME NEW c \in Consumers, NEW v, call' = [call EXCEPT ![c] = v] PROVE \A p \in Producers : call'[p] = call[p]
  BY <1>e, ThreadsAssumption DEF TypeOK, Threads
<1>1. ASSUME NEW p \in Producers, NEW m \in Messages, TryPush(p, m) PROVE NoLostSpace' BY <1>1, <1>a, <1>b DEF TryPush
<1>2. ASSUME NEW p \in Producers, NEW m \in Messages, PushWait(p, m) PROVE NoLostSpace'
  BY <1>2, <1>a, <1>b, NoRoomHeld DEF PushWait, queueVars
<1>3. ASSUME NEW p \in Producers, PushWoken(p) PROVE NoLostSpace'
  <2> DEFINE m == call[p].value
  <2>1. m \in Messages BY <1>3, OfferShape DEF PushWoken, Threads
  <2>2. Bytes[m] <= ByteLimit BY <1>3 DEF PushWoken, CallsFit
  <2>3. CASE closed /\ Refuse(m) BY <2>3 DEF Refuse, ClosedWakesAll
  <2> QED BY <1>3, <1>a, <2>1, <2>2, <2>3, NoRoomHeld DEF PushWoken, queueVars
<1>4. ASSUME NEW c \in Consumers, PopNow(c) PROVE NoLostSpace' BY <1>4, <1>c DEF PopNow
<1>5. ASSUME NEW c \in Consumers, NEW timed \in BOOLEAN, PopWait(c, timed) PROVE NoLostSpace'
  BY <1>5, <1>c, <1>d, <1>e DEF PopWait, queueVars
<1>6. ASSUME NEW c \in Consumers, PopTimeout(c) PROVE NoLostSpace' BY <1>6, <1>d, <1>e DEF PopTimeout, queueVars
<1>7. ASSUME NEW c \in Consumers, PopWoken(c) PROVE NoLostSpace' BY <1>7, <1>c, <1>d, <1>e DEF PopWoken, queueVars
<1>8. ASSUME NEW t \in Threads, SpuriousWake(t) PROVE NoLostSpace'
  <2>1. space' = space \ {t} /\ UNCHANGED <<entries, call>> /\ t \in arrived \union space BY <1>8 DEF SpuriousWake, queueVars, Asleep
  <2>2. CASE t \in space BY <2>1, <2>2, <1>0 DEF CallsFit
  <2>3. CASE t \notin space
    <3>1. space' = space BY <2>1, <2>3
    <3> QED BY <2>1, <3>1
  <2> QED BY <2>2, <2>3
<1>9. CASE Close \/ CloseAndDiscard BY <1>9 DEF Close, CloseAndDiscard
<1>10. CASE UNCHANGED vars BY <1>10 DEF vars
<1> QED BY <1>1, <1>2, <1>3, <1>4, <1>5, <1>6, <1>7, <1>8, <1>9, <1>10 DEF Next, Produce, Consume

\* How many woken consumers come for what is held.
LEMMA WokenFinite == IsFiniteSet(WokenPoppers) /\ Cardinality(WokenPoppers) \in Nat
<1>1. WokenPoppers \subseteq Consumers BY DEF WokenPoppers
<1>2. IsFiniteSet(WokenPoppers) BY <1>1, ThreadsAssumption, FS_Subset
<1> QED BY <1>2, FS_CardinalityType
LEMMA MoreWoken == ASSUME NEW w, IsFiniteSet(w), NEW v, v \subseteq w PROVE Cardinality(v) <= Cardinality(w)
BY FS_Subset

LEMMA ArrivalStep ==
    ASSUME TypeOK, TypeOK', CallsFit, CallsFit', ClosedWakesAll, NoLostArrival, [Next]_vars
    PROVE  NoLostArrival'
<1> DEFINE W == WokenPoppers
<1>0. /\ IsFiniteSet(W) /\ IsFiniteSet(W') /\ Cardinality(W) \in Nat /\ Cardinality(W') \in Nat
      /\ Len(entries) \in Nat /\ Len(entries') \in Nat /\ arrived \subseteq Consumers
  <2>1. IsFiniteSet(W) /\ Cardinality(W) \in Nat BY WokenFinite
  <2>2. W' \subseteq Consumers BY DEF WokenPoppers
  <2>3. IsFiniteSet(W') BY <2>2, ThreadsAssumption, FS_Subset
  <2> QED BY <2>1, <2>3, FS_CardinalityType DEF TypeOK
\* Nobody who was awake goes, and nothing comes.
<1>a. ASSUME W \subseteq W', Len(entries') <= Len(entries), arrived' \subseteq arrived PROVE NoLostArrival'
  <2>1. Cardinality(W) <= Cardinality(W') BY <1>0, <1>a, MoreWoken
  <2>2. arrived' # {} => Len(entries) <= Cardinality(W) BY <1>a DEF NoLostArrival
  <2>3. arrived' # {} => Len(entries') <= Cardinality(W') BY <1>0, <1>a, <2>1, <2>2
  <2> QED BY <2>3 DEF NoLostArrival
<1>b. ASSUME entries' = <<>> PROVE NoLostArrival'
  <2>1. Len(entries') = 0 BY <1>b
  <2> QED BY <2>1, <1>0 DEF NoLostArrival
\* A message comes, and with it one who was asleep.
<1>c. ASSUME NEW m \in Messages, Accept(m), \A c \in Consumers : call'[c] = call[c] PROVE NoLostArrival'
  <2>1. entries' = Append(entries, m) /\ entries \in Seq(Messages) /\ NotifyOne(arrived, arrived') BY <1>c DEF Accept, TypeOK
  <2>2. Len(entries') = Len(entries) + 1 BY <2>1
  <2>3. CASE arrived = {} BY <2>1, <2>3, NotifyOneShrinks DEF NoLostArrival
  <2>4. CASE arrived # {}
    <3>1. PICK t \in arrived : arrived' = arrived \ {t} BY <2>1, <2>4, NotifyOneShrinks
    <3>2. W \union {t} \subseteq W' /\ t \notin W BY <1>0, <1>c, <3>1 DEF WokenPoppers, CallsFit
    <3>3. Cardinality(W \union {t}) = Cardinality(W) + 1 BY <1>0, <3>2, FS_AddElement
    <3>4. Cardinality(W \union {t}) <= Cardinality(W') BY <1>0, <3>2, MoreWoken
    <3>5. Len(entries) <= Cardinality(W) BY <2>4 DEF NoLostArrival
    <3>6. Len(entries') <= Cardinality(W') BY <1>0, <2>2, <3>3, <3>4, <3>5
    <3> QED BY <3>6 DEF NoLostArrival
  <2> QED BY <2>3, <2>4
\* One takes a message, and returns with it.
<1>d. ASSUME NEW c \in Consumers, Take, call' = [call EXCEPT ![c] = Idle] PROVE NoLostArrival'
  <2>1. CASE entries = <<>> BY <1>b, <1>d, <2>1 DEF Take, queueVars
  <2>2. CASE entries # <<>>
    <3>1. arrived' = arrived /\ entries' = Tail(entries) /\ entries \in Seq(Messages) BY <1>d, <2>2 DEF Take, Deliver, TypeOK
    <3>2. Len(entries') = Len(entries) - 1 BY <2>2, <3>1
    <3>3. \A k \in Consumers : k # c => call'[k] = call[k] BY <1>d DEF TypeOK, Threads
    <3>4. W \ {c} \subseteq W' BY <3>1, <3>3 DEF WokenPoppers
    <3>5. Cardinality(W \ {c}) >= Cardinality(W) - 1
      <4>1. Cardinality(W \ {c}) = IF c \in W THEN Cardinality(W) - 1 ELSE Cardinality(W) BY <1>0, FS_RemoveElement
      <4> HIDE DEF W
      <4> QED BY <4>1, <1>0
    <3>6. Cardinality(W \ {c}) <= Cardinality(W') BY <1>0, <3>4, MoreWoken
    <3>7. IsFiniteSet(W \ {c}) /\ Cardinality(W \ {c}) \in Nat BY <1>0, FS_RemoveElement, FS_CardinalityType
    <3>8. arrived' # {} => Len(entries) <= Cardinality(W) BY <3>1 DEF NoLostArrival
    <3>9. arrived' # {} => Len(entries') <= Cardinality(W') BY <1>0, <3>2, <3>5, <3>6, <3>7, <3>8
    <3> QED BY <3>9 DEF NoLostArrival
  <2> QED BY <2>1, <2>2
<1>e. ASSUME Take, UNCHANGED call PROVE NoLostArrival'
  <2>1. arrived' = arrived BY <1>e DEF Take, Deliver
  <2>2. Len(entries') <= Len(entries) BY <1>0, <1>e DEF Take, Deliver, TypeOK, queueVars
  <2> QED BY <1>a, <1>e, <2>1, <2>2 DEF WokenPoppers
<1>f. ASSUME UNCHANGED <<entries, arrived>>, \A c \in Consumers : call'[c] = call[c] PROVE NoLostArrival'
  BY <1>0, <1>a, <1>f DEF WokenPoppers
<1>g. ASSUME NEW p \in Producers, NEW v, call' = [call EXCEPT ![p] = v] PROVE \A c \in Consumers : call'[c] = call[c]
  BY <1>g, ThreadsAssumption DEF TypeOK, Threads
<1>1. ASSUME NEW p \in Producers, NEW m \in Messages, TryPush(p, m) PROVE NoLostArrival'
  BY <1>1, <1>c, <1>f DEF TryPush, Refuse
<1>2. ASSUME NEW p \in Producers, NEW m \in Messages, PushWait(p, m) PROVE NoLostArrival'
  BY <1>2, <1>c, <1>f, <1>g DEF PushWait, Refuse, queueVars
<1>3. ASSUME NEW p \in Producers, PushWoken(p) PROVE NoLostArrival'
  <2>1. call[p].value \in Messages BY <1>3, OfferShape DEF PushWoken, Threads
  <2> QED BY <1>3, <1>c, <1>f, <1>g, <2>1 DEF PushWoken, Refuse, queueVars
<1>4. ASSUME NEW c \in Consumers, PopNow(c) PROVE NoLostArrival' BY <1>4, <1>e DEF PopNow
<1>5. ASSUME NEW c \in Consumers, NEW timed \in BOOLEAN, PopWait(c, timed) PROVE NoLostArrival'
  BY <1>5, <1>b, <1>e DEF PopWait, queueVars
<1>6. ASSUME NEW c \in Consumers, PopTimeout(c) PROVE NoLostArrival'
  <2>1. arrived' = arrived \ {c} /\ UNCHANGED entries /\ \A k \in Consumers : k # c => call'[k] = call[k]
    BY <1>6 DEF PopTimeout, queueVars, TypeOK, Threads
  <2>2. c \notin W BY <1>6 DEF PopTimeout, WokenPoppers
  <2> QED BY <1>0, <1>a, <2>1, <2>2 DEF WokenPoppers
<1>7. ASSUME NEW c \in Consumers, PopWoken(c) PROVE NoLostArrival'
  BY <1>7, <1>b, <1>d DEF PopWoken, queueVars
<1>8. ASSUME NEW t \in Threads, SpuriousWake(t) PROVE NoLostArrival'
  BY <1>0, <1>8, <1>a DEF SpuriousWake, queueVars, WokenPoppers
<1>9. CASE Close \/ CloseAndDiscard BY <1>9 DEF Close, CloseAndDiscard, NoLostArrival
<1>10. CASE UNCHANGED vars BY <1>10, <1>f DEF vars
<1> QED BY <1>1, <1>2, <1>3, <1>4, <1>5, <1>6, <1>7, <1>8, <1>9, <1>10 DEF Next, Produce, Consume

-----------------------------------------------------------------------------
(* The theorems *)

IInv == TypeOK /\ Measured /\ FifoPrefix /\ CallsFit /\ QueueOwned /\ WaitOwned /\ NoLostWakeup

LEMMA InitInv == Init => IInv
<1> SUFFICES ASSUME Init PROVE IInv OBVIOUS
<1>1. TypeOK BY TypeInit
<1>2. Measured BY MeasuredEmpty DEF Init
<1>3. FifoPrefix BY DEF Init, FifoPrefix, Cut
<1>4. CallsFit BY DEF Init, CallsFit, Idle, Threads
<1>5. QueueOwned BY DEF Init, QueueOwned, In, Distinct
<1>6. WaitOwned BY DEF Init, WaitOwned, Offers, Idle, Threads
<1>7. NoLostWakeup BY DEF Init, NoLostWakeup, NoLostArrival, NoLostSpace, ClosedWakesAll
<1> QED BY <1>1, <1>2, <1>3, <1>4, <1>5, <1>6, <1>7 DEF IInv

LEMMA StepInv == IInv /\ [Next]_vars => IInv'
<1> SUFFICES ASSUME IInv, [Next]_vars PROVE IInv' OBVIOUS
<1>1. TypeOK' BY TypeStep DEF IInv
<1>2. Measured' BY MeasuredStep DEF IInv
<1>3. FifoPrefix' BY FifoStep DEF IInv
<1>4. CallsFit' BY CallsFitStep DEF IInv
<1>5. QueueOwned' /\ WaitOwned' BY OwnedStep DEF IInv
<1>6. ClosedWakesAll' BY ClosedStep DEF IInv, NoLostWakeup
<1>7. NoLostSpace' BY <1>1, <1>4, SpaceStep DEF IInv, NoLostWakeup
<1>8. NoLostArrival' BY <1>1, <1>4, ArrivalStep DEF IInv, NoLostWakeup
<1> QED BY <1>1, <1>2, <1>3, <1>4, <1>5, <1>6, <1>7, <1>8 DEF IInv, NoLostWakeup

LEMMA Invariance == Spec => []IInv
BY InitInv, StepInv, PTL DEF Spec

\* Every reachable state is well typed.
THEOREM TypeCorrect == Spec => []TypeOK
<1>1. IInv => TypeOK BY DEF IInv
<1> QED BY <1>1, Invariance, PTL

\* try_push, push_wait and pop keep their accounts: what is held measures
\* what `bytes` says, within both limits, leaves in the order it came, and has
\* one owner, for every number of threads, every measure and every limit.
THEOREM QueueAlwaysSound == Spec => []QueueSound
<1>1. IInv => QueueSound
  <2> SUFFICES ASSUME IInv PROVE QueueSound OBVIOUS
  <2>1. ByteAccounting
    <3>1. PICK g : Sums(entries, g) /\ bytes = g[Len(entries)] BY DEF IInv, Measured
    <3>2. Held(entries) = g[Len(entries)] BY <3>1, SumsHeld DEF IInv, TypeOK
    <3> QED BY <3>1, <3>2 DEF IInv, Measured, ByteAccounting, BytesHeld
  <2>2. OneOwner
    <3>1. ASSUME NEW m \in Messages
          PROVE  /\ fate[m] = "queue" <=> \E i \in 1..Len(entries) : entries[i] = m
                 /\ fate[m] = "consumer" <=> \E i \in 1..Len(delivered) : delivered[i] = m
                 /\ fate[m] = "waiting" <=> \E p \in Producers : call[p] = [op |-> "push_wait", value |-> m]
      <4>1. fate[m] = "queue" <=> In(m, entries) BY DEF IInv, QueueOwned
      <4>2. fate[m] = "consumer" <=> In(m, delivered) BY DEF IInv, QueueOwned
      <4>3. fate[m] = "waiting" <=> \E p \in Producers : call[p] = Offers(m) BY DEF IInv, WaitOwned
      <4> QED BY <4>1, <4>2, <4>3 DEF In, Offers
    <3>2. \A i, j \in 1..Len(accepted) : accepted[i] = accepted[j] => i = j BY DEF IInv, QueueOwned, Distinct
    <3>3. ASSUME NEW p \in Producers, NEW q \in Producers, p # q, call[p].op = "push_wait", call[q].op = "push_wait"
          PROVE  call[p].value # call[q].value
      <4>1. call[p].value \in Messages /\ call[p] = Offers(call[p].value) /\ call[q] = Offers(call[q].value)
        BY <3>3, OfferShape DEF IInv, Threads
      <4> QED BY <3>3, <4>1 DEF IInv, WaitOwned
    <3> QED BY <3>1, <3>2, <3>3 DEF OneOwner
  <2> QED BY <2>1, <2>2 DEF IInv, QueueSound
<1> QED BY <1>1, Invariance, PTL

\* One notify_one per message and per freed slot is enough: while consumers
\* sleep every held entry has a woken one coming for it, producers never all
\* sleep in front of an empty queue, and a close leaves nobody asleep.
THEOREM WakeupsReach == Spec => []NoLostWakeup
<1>1. IInv => NoLostWakeup BY DEF IInv
<1> QED BY <1>1, Invariance, PTL

\* Steps of the queue are steps of the channel it promises.
LEMMA RefineStep == IInv /\ IInv' /\ [Next]_vars => [Promise!Next]_(Promise!channelVars)
<1> SUFFICES ASSUME IInv, IInv', [Next]_vars PROVE [Promise!Next]_(Promise!channelVars) OBVIOUS
<1>0. /\ entries \in Seq(Messages) /\ accepted \in Seq(Messages) /\ delivered \in Seq(Messages)
      /\ Len(entries) \in Nat /\ Len(accepted) \in Nat /\ Len(delivered) \in Nat /\ closed \in BOOLEAN
  BY DEF IInv, TypeOK
<1>1. CASE Accepts
  <2>1. PICK m \in Messages : ~closed /\ Fits(m) /\ Accept(m) BY <1>1 DEF Accepts
  <2>2. accepted' = Append(accepted, m) /\ closed' = closed /\ delivered' = delivered BY <2>1 DEF Accept
  <2>3. ~Cut /\ ~Cut' BY <2>1, <2>2 DEF IInv, FifoPrefix
  <2>4. Len(accepted) - Len(delivered) = Len(entries) BY <1>0, <2>3 DEF Cut
  <2>6. Len(entries) < MessageLimit BY <2>1 DEF Fits
  <2>7. Cut' = Cut /\ (~closed)' = ~closed BY <2>2, <2>3 DEF Cut
  <2>5. Promise!Send(m) BY <2>1, <2>2, <2>4, <2>6, <2>7 DEF Promise!Send
  <2> QED BY <2>5 DEF Promise!Next
<1>2. CASE Delivers
  <2>1. /\ entries # <<>> /\ entries' = Tail(entries) /\ delivered' = Append(delivered, Head(entries))
        /\ accepted' = accepted /\ closed' = closed
    BY <1>2 DEF Delivers, Deliver
  <2>2. ~Cut BY <2>1 DEF IInv, FifoPrefix
  <2>3. Len(entries) > 0 /\ Head(entries) = entries[1] BY <1>0, <2>1
  <2>9. 1 \in 1..Len(entries) BY <1>0, <2>3
  <2>4. Head(entries) = accepted[Len(delivered) + 1] BY <2>3, <2>9 DEF IInv, FifoPrefix
  <2>5. Len(entries') = Len(entries) - 1 /\ Len(delivered') = Len(delivered) + 1 BY <1>0, <2>1
  <2>6. Cut' = Cut /\ (~closed)' = ~closed
    <3>1. Len(accepted') = Len(accepted) BY <2>1
    <3>2. Len(delivered') + Len(entries') = Len(delivered) + Len(entries) BY <1>0, <2>5
    <3> QED BY <2>1, <3>1, <3>2 DEF Cut
  <2>7. Len(delivered) < Len(accepted) BY <1>0, <2>2, <2>3 DEF Cut
  <2>8. Promise!Receive BY <2>1, <2>2, <2>4, <2>6, <2>7 DEF Promise!Receive
  <2> QED BY <2>8 DEF Promise!Next
<1>3. CASE Keeps
  <2>1. UNCHANGED <<accepted, delivered, Cut>> BY <1>3 DEF Keeps, Cut
  <2>2. CASE closed' = closed BY <2>1, <2>2 DEF Promise!channelVars
  <2>3. CASE closed' = TRUE BY <2>1, <2>3 DEF Promise!Close, Promise!Next
  <2> QED BY <1>3, <2>2, <2>3 DEF Keeps
<1>4. CASE CloseAndDiscard
  <2>1. entries' = <<>> /\ closed' = TRUE /\ UNCHANGED <<accepted, delivered>> BY <1>4 DEF CloseAndDiscard
  <2>2. CASE Len(delivered) = Len(accepted)
    <3>1. ~Cut' BY <1>0, <2>1, <2>2 DEF Cut
    <3>2. ~Cut BY <1>0, <2>2 DEF IInv, FifoPrefix, Cut
    <3>4. Cut' = Cut BY <3>1, <3>2 DEF Cut
    <3>3. Promise!Close BY <2>1, <3>4 DEF Promise!Close
    <3> QED BY <3>3 DEF Promise!Next
  <2>3. CASE Len(delivered) # Len(accepted)
    <3>1. Cut' /\ Len(delivered) < Len(accepted) BY <1>0, <2>1, <2>3 DEF IInv, FifoPrefix, Cut
    <3>2. Promise!Discard BY <2>1, <3>1 DEF Promise!Discard
    <3> QED BY <3>2 DEF Promise!Next
  <2> QED BY <2>2, <2>3
<1> QED BY <1>1, <1>2, <1>3, <1>4, Kinds DEF IInv

\* The queue of channels.rs implements the bounded channel its header comment
\* promises: locks, wakeups, timeouts and threads are stutters of it.
THEOREM Refinement == Spec => ImplementsChannel
<1>1. Init => Promise!Init BY DEF Init, Promise!Init, Cut
<1>2. Spec => [][Promise!Next]_(Promise!channelVars) BY Invariance, RefineStep, PTL DEF Spec
<1> QED BY <1>1, <1>2, PTL DEF Spec, ImplementsChannel, Promise!Spec
=============================================================================
