------------------------ MODULE NativeWorkers_proofs ------------------------
(***************************************************************************)
(* The replies, the results and the end of a scope of native workers, for  *)
(* any number of tasks and lanes, any room in their queues, with lanes     *)
(* that end early, with and without deadlines and a suspension handler.    *)
(***************************************************************************)
EXTENDS NativeWorkers, FiniteSetTheorems, TLAPS

\* Names are apart: a coroutine is a task's or the one that closes, a lane is
\* of the pool or of one dedicated task.
Named ==
    /\ None \notin Tasks /\ None \notin Pooled /\ "close" \notin Tasks
    /\ Dedicated \subseteq Tasks /\ Pooled \cap Dedicated = {}

-----------------------------------------------------------------------------
(* Sequences of distinct members *)

Distinct(s) == \A i, j \in 1..Len(s) : s[i] = s[j] => i = j

\* A sequence without its member at k: what is where.
LEMMA CutAt ==
    ASSUME NEW S, NEW s \in Seq(S), NEW k \in 1..Len(s)
    PROVE  LET c == SubSeq(s, 1, k - 1) \o SubSeq(s, k + 1, Len(s)) IN
           /\ c \in Seq(S) /\ Len(c) = Len(s) - 1
           /\ \A i \in 1..(k - 1) : c[i] = s[i]
           /\ \A i \in k..(Len(s) - 1) : c[i] = s[i + 1]
  <1> DEFINE a == SubSeq(s, 1, k - 1)
             b == SubSeq(s, k + 1, Len(s))
  <1>1. /\ a \in Seq(S) /\ Len(a) = k - 1 /\ \A i \in 1..(k - 1) : a[i] = s[i]
    OBVIOUS
  <1>2. /\ b \in Seq(S) /\ Len(b) = Len(s) - k /\ \A i \in 1..(Len(s) - k) : b[i] = s[k + i]
    OBVIOUS
  <1> HIDE DEF a, b
  <1>9. a \in Seq(S) /\ b \in Seq(S)
    BY <1>1, <1>2
  <1>3. a \o b \in Seq(S) /\ Len(a \o b) = Len(a) + Len(b)
    BY <1>9
  <1>8. Len(a \o b) = Len(s) - 1 /\ Len(s) \in Nat
    BY <1>1, <1>2, <1>3
  <1>6. \A i \in 1..(k - 1) : (a \o b)[i] = a[i]
    BY <1>1, <1>2
  <1>7. \A i \in k..(Len(s) - 1) : (a \o b)[i] = b[i - (k - 1)]
    BY <1>1, <1>2
  <1>4. \A i \in k..(Len(s) - 1) : b[i - (k - 1)] = s[i + 1]
    <2> TAKE i \in k..(Len(s) - 1)
    <2>1. i - (k - 1) \in 1..(Len(s) - k) /\ k + (i - (k - 1)) = i + 1
      OBVIOUS
    <2> QED
      BY <1>2, <2>1
  <1>5. a \o b = SubSeq(s, 1, k - 1) \o SubSeq(s, k + 1, Len(s))
    BY DEF a, b
  <1> QED
    BY <1>1, <1>3, <1>4, <1>5, <1>6, <1>7, <1>8

\* What is left when one of its members leaves a sequence of distinct ones.
LEMMA WithoutFacts ==
    ASSUME NEW S, NEW s \in Seq(S), NEW x, Distinct(s)
    PROVE  /\ Without(s, x) \in Seq(S \ {x}) /\ Distinct(Without(s, x))
           /\ \A y : y # x => (Contains(Without(s, x), y) <=> Contains(s, y))
           /\ ~Contains(Without(s, x), x)
           /\ Len(Without(s, x)) = IF Contains(s, x) THEN Len(s) - 1 ELSE Len(s)
  <1>1. CASE Contains(s, x)
    <2> DEFINE k == CHOOSE i \in 1..Len(s) : s[i] = x
               c == Without(s, x)
    <2>1. k \in 1..Len(s) /\ s[k] = x
      BY <1>1 DEF Contains
    <2>2. c = SubSeq(s, 1, k - 1) \o SubSeq(s, k + 1, Len(s))
      BY <1>1 DEF Without, RemoveAt, Contains
    <2> HIDE DEF k, c
    <2>3. /\ c \in Seq(S) /\ Len(c) = Len(s) - 1
          /\ \A i \in 1..(k - 1) : c[i] = s[i]
          /\ \A i \in k..(Len(s) - 1) : c[i] = s[i + 1]
      BY <2>1, <2>2, CutAt
    <2>4. \A i \in 1..Len(c) : \E j \in 1..Len(s) :
             c[i] = s[j] /\ j # k /\ j = IF i < k THEN i ELSE i + 1
      <3> TAKE i \in 1..Len(c)
      <3>1. CASE i < k
        <4>1. i \in 1..Len(s) /\ i \in 1..(k - 1) /\ i # k
          BY <3>1, <2>1, <2>3
        <4> QED
          BY <3>1, <4>1, <2>3
      <3>2. CASE ~(i < k)
        <4>1. i + 1 \in 1..Len(s) /\ i \in k..(Len(s) - 1) /\ i + 1 # k
          BY <3>2, <2>1, <2>3
        <4> QED
          BY <3>2, <4>1, <2>3
      <3> QED
        BY <3>1, <3>2
    <2>5. \A i \in 1..Len(c) : c[i] \in S \ {x}
      BY <2>1, <2>4 DEF Distinct
    <2>6. c \in Seq(S \ {x})
      BY <2>3, <2>5
    <2>7. Distinct(c)
      BY <2>1, <2>3, <2>4 DEF Distinct
    <2>8. ASSUME NEW y, y # x
          PROVE  Contains(c, y) <=> Contains(s, y)
      <3>1. Contains(c, y) => Contains(s, y)
        BY <2>4 DEF Contains
      <3>2. ASSUME NEW j \in 1..Len(s), s[j] = y
            PROVE  Contains(c, y)
        <4>1. j # k
          BY <2>1, <2>8, <3>2
        <4>2. CASE j < k
          BY <3>2, <4>2, <2>1, <2>3 DEF Contains
        <4>3. CASE j > k
          <5>1. j - 1 \in k..(Len(s) - 1) /\ j - 1 \in 1..Len(c) /\ (j - 1) + 1 = j
            BY <4>3, <2>1, <2>3
          <5>2. c[j - 1] = y
            BY <5>1, <3>2, <2>3
          <5> QED
            BY <5>1, <5>2 DEF Contains
        <4> QED
          BY <4>1, <4>2, <4>3, <2>1
      <3> QED
        BY <3>1, <3>2 DEF Contains
    <2>9. ~Contains(c, x)
      BY <2>5 DEF Contains
    <2> QED
      BY <1>1, <2>3, <2>6, <2>7, <2>8, <2>9 DEF c
  <1>2. CASE ~Contains(s, x)
    <2>1. Without(s, x) = s
      BY <1>2 DEF Without, Contains
    <2>2. \A i \in 1..Len(s) : s[i] \in S \ {x}
      BY <1>2 DEF Contains
    <2>3. s \in Seq(S \ {x})
      BY <2>2
    <2> QED
      BY <1>2, <2>1, <2>3
  <1> QED
    BY <1>1, <1>2

\* What joins a sequence at its end.
LEMMA AppendFacts ==
    ASSUME NEW S, NEW s \in Seq(S), NEW x \in S
    PROVE  /\ Append(s, x) \in Seq(S) /\ Len(Append(s, x)) = Len(s) + 1
           /\ \A y : Contains(Append(s, x), y) <=> Contains(s, y) \/ y = x
           /\ Distinct(s) /\ ~Contains(s, x) => Distinct(Append(s, x))
  <1> DEFINE a == Append(s, x)
  <1>1. /\ a \in Seq(S) /\ Len(a) = Len(s) + 1 /\ a[Len(s) + 1] = x
        /\ \A i \in 1..Len(s) : a[i] = s[i]
    OBVIOUS
  <1> HIDE DEF a
  <1>2. 1..Len(a) = 1..Len(s) \union {Len(s) + 1}
    BY <1>1
  <1>3. \A y : Contains(a, y) <=> Contains(s, y) \/ y = x
    BY <1>1, <1>2 DEF Contains
  <1>4. ASSUME Distinct(s), ~Contains(s, x) PROVE Distinct(a)
    BY <1>1, <1>2, <1>4 DEF Distinct, Contains
  <1> QED
    BY <1>1, <1>3, <1>4 DEF a

\* What the first member leaves behind.
LEMMA TailFacts ==
    ASSUME NEW S, NEW s \in Seq(S), s # <<>>, Distinct(s)
    PROVE  /\ Tail(s) \in Seq(S) /\ Distinct(Tail(s)) /\ Head(s) \in S
           /\ \A y : Contains(s, y) <=> Contains(Tail(s), y) \/ y = Head(s)
           /\ ~Contains(Tail(s), Head(s))
  <1> DEFINE u == Tail(s)
  <1>1. /\ u \in Seq(S) /\ Len(u) = Len(s) - 1 /\ Len(s) > 0 /\ Head(s) = s[1] /\ s[1] \in S
        /\ \A i \in 1..Len(u) : u[i] = s[i + 1]
    OBVIOUS
  <1> HIDE DEF u
  <1>2. \A i \in 1..Len(u) : i + 1 \in 1..Len(s)
    BY <1>1
  <1>3. Distinct(u)
    BY <1>1, <1>2 DEF Distinct
  <1>4. ~Contains(u, Head(s))
    BY <1>1, <1>2 DEF Distinct, Contains
  <1>5. ASSUME NEW y PROVE Contains(s, y) <=> Contains(u, y) \/ y = Head(s)
    <2>1. Contains(u, y) \/ y = Head(s) => Contains(s, y)
      BY <1>1, <1>2 DEF Contains
    <2>2. ASSUME NEW i \in 1..Len(s), s[i] = y, i # 1 PROVE Contains(u, y)
      <3>1. i - 1 \in 1..Len(u) /\ (i - 1) + 1 = i
        BY <2>2, <1>1
      <3> QED
        BY <2>2, <3>1, <1>1 DEF Contains
    <2> QED
      BY <2>1, <2>2, <1>1 DEF Contains
  <1> QED
    BY <1>1, <1>3, <1>4, <1>5 DEF u

\* Two sequences, one after the other.
LEMMA ConcatFacts ==
    ASSUME NEW S, NEW a \in Seq(S), NEW b \in Seq(S)
    PROVE  /\ a \o b \in Seq(S)
           /\ \A y : Contains(a \o b, y) <=> Contains(a, y) \/ Contains(b, y)
           /\ Distinct(a) /\ Distinct(b) /\ (\A y \in S : ~(Contains(a, y) /\ Contains(b, y))) => Distinct(a \o b)
  <1> DEFINE c == a \o b
  <1>1. c \in Seq(S) /\ Len(c) = Len(a) + Len(b) /\ Len(a) \in Nat /\ Len(b) \in Nat
    OBVIOUS
  <1>2. \A i \in 1..Len(a) : c[i] = a[i]
    OBVIOUS
  <1>3. \A i \in 1..Len(b) : c[Len(a) + i] = b[i]
    OBVIOUS
  <1> HIDE DEF c
  <1>4. ASSUME NEW i \in 1..Len(c)
        PROVE  \/ i \in 1..Len(a) /\ c[i] = a[i]
               \/ \E k \in 1..Len(b) : i = Len(a) + k /\ c[i] = b[k]
    <2>1. CASE i <= Len(a)
      <3>1. i \in 1..Len(a)
        BY <1>1, <2>1
      <3> QED
        BY <1>2, <3>1
    <2>2. CASE ~(i <= Len(a))
      <3>1. i - Len(a) \in 1..Len(b) /\ i = Len(a) + (i - Len(a))
        BY <1>1, <2>2
      <3> QED
        BY <1>3, <3>1
    <2> QED
      BY <2>1, <2>2
  <1>5. ASSUME NEW y PROVE Contains(c, y) <=> Contains(a, y) \/ Contains(b, y)
    <2>1. Contains(c, y) => Contains(a, y) \/ Contains(b, y)
      BY <1>4 DEF Contains
    <2>2. \A i \in 1..Len(a) : i \in 1..Len(c)
      BY <1>1
    <2>3. \A i \in 1..Len(b) : Len(a) + i \in 1..Len(c)
      BY <1>1
    <2> QED
      BY <1>2, <1>3, <2>1, <2>2, <2>3 DEF Contains
  <1>6. ASSUME Distinct(a), Distinct(b), \A y \in S : ~(Contains(a, y) /\ Contains(b, y)) PROVE Distinct(c)
    <2> SUFFICES ASSUME NEW i \in 1..Len(c), NEW j \in 1..Len(c), c[i] = c[j] PROVE i = j
      BY DEF Distinct
    <2>1. c[i] \in S
      BY <1>1
    <2>2. CASE i \in 1..Len(a) /\ c[i] = a[i]
      <3>1. ~Contains(b, c[j])
        BY <1>6, <2>1, <2>2 DEF Contains
      <3> QED
        BY <1>4, <1>6, <2>2, <3>1 DEF Contains, Distinct
    <2>3. CASE \E k \in 1..Len(b) : i = Len(a) + k /\ c[i] = b[k]
      <3>1. ~Contains(a, c[j])
        BY <1>6, <2>1, <2>3 DEF Contains
      <3> QED
        BY <1>4, <1>6, <2>3, <3>1 DEF Contains, Distinct
    <2> QED
      BY <1>4, <2>2, <2>3
  <1> QED
    BY <1>1, <1>5, <1>6 DEF c

\* The tasks of a sequence of replies.
TasksOf(s) == [i \in DOMAIN s |-> s[i].task]
Answers == [task : Tasks, answer : Settled]

\* What comes off, and onto, a sequence of replies.
LEMMA TasksOfFacts ==
    ASSUME NEW s \in Seq(Answers)
    PROVE  /\ TasksOf(s) \in Seq(Tasks) /\ Len(TasksOf(s)) = Len(s)
           /\ \A r \in Answers : TasksOf(Append(s, r)) = Append(TasksOf(s), r.task)
           /\ s # <<>> => /\ TasksOf(Tail(s)) = Tail(TasksOf(s)) /\ TasksOf(s) # <<>>
                          /\ Head(TasksOf(s)) = Head(s).task /\ Head(s) \in Answers
  <1>5. DOMAIN s = 1..Len(s) /\ Len(s) \in Nat /\ \A i \in 1..Len(s) : s[i] \in Answers
    OBVIOUS
  <1>6. \A r \in Answers : r.task \in Tasks
    BY DEF Answers
  <1>1. DOMAIN s = 1..Len(s) /\ Len(s) \in Nat /\ \A i \in 1..Len(s) : s[i].task \in Tasks
    BY <1>5, <1>6
  <1>2. TasksOf(s) \in Seq(Tasks) /\ Len(TasksOf(s)) = Len(s) /\ \A i \in 1..Len(s) : TasksOf(s)[i] = s[i].task
    BY <1>1 DEF TasksOf
  <1>3. ASSUME NEW r \in Answers PROVE TasksOf(Append(s, r)) = Append(TasksOf(s), r.task)
    <2>1. /\ DOMAIN Append(s, r) = 1..(Len(s) + 1) /\ Append(s, r)[Len(s) + 1] = r
          /\ \A i \in 1..Len(s) : Append(s, r)[i] = s[i]
      BY <1>1
    <2>2. /\ Append(TasksOf(s), r.task) \in Seq(Tasks) /\ DOMAIN Append(TasksOf(s), r.task) = 1..(Len(s) + 1)
          /\ Append(TasksOf(s), r.task)[Len(s) + 1] = r.task
          /\ \A i \in 1..Len(s) : Append(TasksOf(s), r.task)[i] = s[i].task
      BY <1>2 DEF Answers
    <2>3. TasksOf(Append(s, r)) = [i \in 1..(Len(s) + 1) |-> Append(s, r)[i].task]
      BY <2>1 DEF TasksOf
    <2>4. \A i \in 1..(Len(s) + 1) : Append(s, r)[i].task = Append(TasksOf(s), r.task)[i]
      <3> TAKE i \in 1..(Len(s) + 1)
      <3>1. i \in 1..Len(s) \/ i = Len(s) + 1
        BY <1>1
      <3> QED
        BY <2>1, <2>2, <3>1
    <2>5. Append(TasksOf(s), r.task) = [i \in 1..(Len(s) + 1) |-> Append(TasksOf(s), r.task)[i]]
      BY <2>2
    <2> QED
      BY <2>3, <2>4, <2>5
  <1>4. ASSUME s # <<>>
        PROVE  /\ TasksOf(Tail(s)) = Tail(TasksOf(s)) /\ TasksOf(s) # <<>>
               /\ Head(TasksOf(s)) = Head(s).task /\ Head(s) \in Answers
    <2>1. Len(s) > 0 /\ Head(s) = s[1] /\ Head(s) \in Answers
      BY <1>4
    <2>2. Tail(s) \in Seq(Answers) /\ DOMAIN Tail(s) = 1..(Len(s) - 1) /\ \A i \in 1..(Len(s) - 1) : Tail(s)[i] = s[i + 1]
      BY <2>1
    <2>3. TasksOf(s) # <<>> /\ Head(TasksOf(s)) = TasksOf(s)[1]
      BY <1>2, <2>1
    <2>4. /\ Tail(TasksOf(s)) \in Seq(Tasks) /\ DOMAIN Tail(TasksOf(s)) = 1..(Len(s) - 1)
          /\ \A i \in 1..(Len(s) - 1) : Tail(TasksOf(s))[i] = TasksOf(s)[i + 1]
      BY <1>2, <2>1, <2>3
    <2>5. \A i \in 1..(Len(s) - 1) : Tail(s)[i].task = Tail(TasksOf(s))[i]
      <3> TAKE i \in 1..(Len(s) - 1)
      <3>1. i + 1 \in 1..Len(s)
        BY <1>1
      <3> QED
        BY <1>2, <2>2, <2>4, <3>1
    <2>6. TasksOf(Tail(s)) = [i \in 1..(Len(s) - 1) |-> Tail(s)[i].task]
      BY <2>2 DEF TasksOf
    <2> DEFINE u == Tail(TasksOf(s))
    <2>9. u \in Seq(Tasks) /\ DOMAIN u = 1..(Len(s) - 1)
      BY <2>4
    <2> HIDE DEF u
    <2>10. u = [i \in 1..(Len(s) - 1) |-> u[i]]
      BY <2>9
    <2>7. Tail(TasksOf(s)) = [i \in 1..(Len(s) - 1) |-> Tail(TasksOf(s))[i]]
      BY <2>10 DEF u
    <2>8. 1 \in 1..Len(s)
      BY <1>1, <2>1
    <2> QED
      BY <1>2, <2>1, <2>3, <2>5, <2>6, <2>7, <2>8
  <1> QED
    BY <1>2, <1>3, <1>4

-----------------------------------------------------------------------------
(* The invariant *)

Places == {"pop", "run", "answer", "stopped", "discarded", "reported", "ended"}
Doings == {"nothing", "admit", "push", "poll", "retire", "join", "isdone", "cancel"}
Wheres == {"no", "isdone", "reply", "end", "returned", "raised", "settle"}

\* The tables of the parent and its lanes.
BooksOK ==
    /\ up \in [Lanes -> {"no", "up", "retired"}] /\ on \in [Tasks -> Lanes \cup {None}]
    /\ pending \in [Lanes -> SUBSET Tasks] /\ inflight \in [Lanes -> Int]
    /\ status \in [Tasks -> {None, "queued", "running", "requested", "cancelled", "done"}]
    /\ state \in [Tasks -> {"new", "queued", "refused"} \cup Settled]
    /\ list \in Seq(Tasks)
LanesOK ==
    /\ inbox \in [Lanes -> Seq(Tasks)] /\ outbox \in [Lanes -> Seq(Answers)]
    /\ closed \subseteq Lanes \X {"in", "out"}
    /\ thread \in [Lanes -> [at : Places, task : Tasks \cup {None}, answer : Settled \cup {None}]]
    /\ ran \subseteq Tasks /\ crashed \subseteq Lanes
    /\ storage \in [Tasks -> {None, "result", "taken", "freed"}]
FibersOK ==
    /\ observed \subseteq Tasks /\ todo \in Seq(Tasks) /\ frees \in BOOLEAN /\ joinee \in Lanes \cup {None}
    /\ at \in [Fibers -> Wheres] /\ waiters \subseteq Fibers
    /\ busy \in [does : Doings, who : Fibers \cup {None}, lane : Lanes \cup {None}, left : SUBSET Lanes]
Typed == BooksOK /\ LanesOK /\ FibersOK

\* Where a task of a lane is between its submission and its reply.
In(l, t) == Contains(inbox[l], t)
Held(l, t) == thread[l].task = t
Out(l, t) == Contains(TasksOf(outbox[l]), t)
Pushing(l, t) == busy.does = "push" /\ busy.lane = l /\ busy.who = t
Somewhere(l, t) == In(l, t) \/ Held(l, t) \/ Out(l, t) \/ Pushing(l, t)

\* It is in one place.
Apart(l) ==
    /\ Distinct(inbox[l]) /\ Distinct(TasksOf(outbox[l]))
    /\ \A t \in Tasks : /\ In(l, t) => ~Held(l, t) /\ ~Out(l, t) /\ ~Pushing(l, t)
                        /\ Held(l, t) => ~Out(l, t) /\ ~Pushing(l, t)
                        /\ Out(l, t) => ~Pushing(l, t)

\* The books of a lane: they hold what is somewhere, and all of it is
\* somewhere unless the lane ended early.
Counted(l) == IsFiniteSet(pending[l]) /\ inflight[l] = Cardinality(pending[l])
Booked(l) ==
    \A t \in Tasks : /\ Somewhere(l, t) => t \in pending[l]
                     /\ l \notin crashed /\ t \in pending[l] => Somewhere(l, t)

\* A thread that has a task runs or answers it; a lane that has stopped takes
\* nothing more; a dedicated lane is joined when it owes no reply.
Thready(l) ==
    /\ thread[l].at \in {"run", "answer"} <=> thread[l].task # None
    /\ thread[l].at = "answer" => thread[l].answer \in Settled
    /\ thread[l].at = "run" => thread[l].task \in ran
    /\ thread[l].at \in {"discarded", "reported", "ended"} \/ (thread[l].at = "stopped" /\ l \notin crashed)
          => inbox[l] = <<>> /\ ~InOpen(l)
    /\ <<l, "out">> \in closed => thread[l].at \in {"reported", "ended"}
Joined(l) ==
    up[l] = "retired" \/ (busy.does = "join" /\ busy.lane = l)
        => l \in Dedicated /\ (l \notin crashed => pending[l] = {})

LaneInv(l) == Apart(l) /\ Counted(l) /\ Booked(l) /\ Thready(l) /\ Joined(l)

\* A task, as the parent's table, its lane's and the shared state know it.
TaskInv(t) ==
    /\ state[t] # "new" => on[t] \in Lanes
    /\ \A l \in Lanes : t \in pending[l] => on[t] = l /\ state[t] \in {"queued", "cancelled"}
    /\ state[t] = "queued" => t \in pending[on[t]]
    /\ state[t] = "new" => t \notin ran /\ at[t] = "no" /\ t \notin observed
    /\ status[t] = "queued" => state[t] = "queued" /\ t \notin ran
    /\ state[t] = "cancelled" /\ t \in pending[on[t]] => t \notin ran
    /\ storage[t] # None => t \in ran /\ t \in Moving
    /\ on[t] # None => (t \in Dedicated => on[t] = t) /\ (t \notin Dedicated => on[t] \in Pooled)

\* What the parent is in the middle of.
Submitting == busy.does \in {"admit", "poll", "retire", "join"} /\ busy.who # None
BusyInv ==
    /\ busy.does = "nothing" => busy = Idle
    /\ busy.does = "admit" => busy.who \in Tasks
    /\ Submitting => busy.who \in Tasks /\ state[busy.who] = "new" /\ at["close"] = "no"
    /\ busy.does = "push" =>
          /\ busy.who \in Tasks /\ busy.lane \in Lanes /\ on[busy.who] = busy.lane /\ at[busy.who] = "no"
          /\ at["close"] = "no" /\ status[busy.who] = "queued" /\ busy.who \notin observed
          /\ ~Contains(list, busy.who)
    /\ busy.does = "isdone" => busy.who \in Fibers /\ at[busy.who] = "isdone" /\ busy.lane \in Lanes
    /\ busy.does = "cancel" => busy.who \in Tasks /\ state[busy.who] # "new" /\ busy.lane \in Lanes
    /\ busy.does \in {"retire", "join"} => busy.lane \in Lanes

\* A coroutine, what it waits for, and how its wait can have ended.
Known(t) == t \in Tasks /\ state[t] \notin {"new", "refused"}
FiberInv(f) ==
    /\ at[f] = "isdone" => busy.does = "isdone" /\ busy.who = f
    /\ f \in waiters => at[f] \in Waiting
    /\ at[f] \in {"isdone", "reply"} => Known(Target(f))
    /\ at[f] = "end" /\ Target(f) \in Tasks => state[Target(f)] \in Settled
    /\ f \in Tasks /\ at[f] = "returned" => state[f] \in Settled
    /\ f \in Tasks => at[f] # "settle" /\ (at["close"] # "no" => at[f] \notin {"isdone", "reply", "end"})
    /\ at[f] = "raised" /\ (f = "close" \/ ~Abandons) => Known(Target(f)) /\ Ended(on[Target(f)])
    /\ f \in waiters /\ at[f] = "reply" => ~Ready(Target(f))

\* The scope's list, and what closing has still to settle.
Heading == at["close"] \in {"isdone", "reply", "end", "raised"} /\ todo # <<>>
ListInv ==
    /\ Distinct(list)
    /\ \A t \in Tasks : Contains(list, t) \/ Contains(todo, t) => state[t] \notin {"new", "refused"}
    /\ \A t \in Tasks : state[t] = "queued" => Contains(list, t) \/ (busy.does = "push" /\ busy.who = t)
    /\ at["close"] = "no" => todo = <<>>
    /\ at["close"] # "no" => \A t \in Tasks : Contains(list, t) => Contains(todo, t)
    /\ Heading => Head(todo) \in observed
    /\ at["close"] = "returned" => todo = <<>> /\ Owned = {}

\* A result that moved storage: what was awaited and is not answered is waited
\* for, by its coroutine or by closing, which then frees it; once answered it
\* is listed for closing, or with who waits.
Freed(t) == Heading /\ Head(todo) = t /\ frees
MoveInv(t) ==
    /\ t \in observed /\ state[t] = "queued" /\ at[t] = "no" => Freed(t)
    /\ storage[t] = "result" /\ Ready(t) =>
          (t \notin observed /\ Contains(list, t)) \/ at[t] \in {"isdone", "reply", "end"} \/ Freed(t)

LaneInvs == \A l \in Lanes : LaneInv(l)
TaskInvs == \A t \in Tasks : TaskInv(t)
FiberInvs == \A f \in Fibers : FiberInv(f)
MoveInvs == \A t \in Tasks : MoveInv(t)

\* The invariant, without moved storage and with.
Inv == Typed /\ BusyInv /\ LaneInvs /\ TaskInvs /\ FiberInvs /\ ListInv
IInv == Inv /\ MoveInvs

-----------------------------------------------------------------------------
(* Types *)

\* What a dedicated lane's channels are once its inbox is closed.
LEMMA ClosedBehindFacts ==
    ASSUME LanesOK, NEW l \in Lanes
    PROVE  /\ ClosedBehind(l) \subseteq Lanes \X {"in", "out"} /\ closed \subseteq ClosedBehind(l)
           /\ \A x \in ClosedBehind(l) : x \in closed \/ (x = <<l, "in">> /\ l \in Dedicated)
  BY DEF ClosedBehind, LanesOK

\* The rest of a poll is something to be doing.
LEMMA PollingFacts ==
    ASSUME NEW t \in Tasks \cup {None}, NEW L \in SUBSET Lanes
    PROVE  /\ Polling(t, L) \in [does : Doings, who : Fibers \cup {None}, lane : Lanes \cup {None}, left : SUBSET Lanes]
           /\ Polling(t, L).does \in {"nothing", "admit", "poll"}
           /\ Polling(t, L).does = "nothing" => Polling(t, L) = Idle
           /\ Polling(t, L).does = "admit" => t # None
           /\ Polling(t, L).does # "nothing" => Polling(t, L).who = t
  BY DEF Polling, Doing, Idle, Doings, Fibers

\* A task that has settled, or is released, leaves the list or stays.
LEMMA ReleasedFacts ==
    ASSUME Typed, Distinct(list), NEW t \in Tasks
    PROVE  /\ Without(list, t) \in Seq(Tasks) /\ Released(t) \in Seq(Tasks)
           /\ Distinct(Without(list, t)) /\ Distinct(Released(t))
           /\ Released(t) = list \/ Released(t) = Without(list, t)
           /\ \A u : u # t => (Contains(Without(list, t), u) <=> Contains(list, u))
           /\ \A u : u # t => (Contains(Released(t), u) <=> Contains(list, u))
           /\ ~Contains(Without(list, t), t)
  <1>1. list \in Seq(Tasks)
    BY DEF Typed, BooksOK
  <1>2. Without(list, t) \in Seq(Tasks \ {t})
    BY <1>1, WithoutFacts
  <1>3. Without(list, t) \in Seq(Tasks)
    BY <1>2
  <1> QED
    BY <1>1, <1>3, WithoutFacts DEF Released

\* Where a coroutine that waits looks.
LEMMA TargetFacts ==
    ASSUME Typed, NEW f \in Fibers
    PROVE  /\ f # "close" => Target(f) = f /\ f \in Tasks
           /\ Target(f) \in Tasks \cup {None}
           /\ LaneOf(f) \in Lanes \cup {None}
           /\ todo # <<>> => Target("close") = Head(todo) /\ Head(todo) \in Tasks
           /\ todo = <<>> => Target("close") = None
  <1>1. todo # <<>> => Head(todo) \in Tasks
    BY DEF Typed, FibersOK
  <1>2. f # "close" => Target(f) = f /\ f \in Tasks
    BY DEF Target, Fibers
  <1>3. Target(f) \in Tasks \cup {None}
    BY <1>1, <1>2 DEF Target
  <1>4. LaneOf(f) \in Lanes \cup {None}
    BY <1>3 DEF LaneOf, Typed, FibersOK, BooksOK
  <1> QED
    BY <1>1, <1>2, <1>3, <1>4 DEF Target

\* A reply on its way.
LEMMA RouteTypes ==
    ASSUME Named, Typed, NEW l \in Lanes, Route(l)
    PROVE  /\ Head(outbox[l]) \in Answers /\ outbox[l] # <<>> /\ up[l] = "up"
           /\ Tail(outbox[l]) \in Seq(Answers)
  <1>1. outbox[l] # <<>> /\ up[l] = "up"
    BY DEF Route, Drained
  <1>2. outbox[l] \in Seq(Answers)
    BY DEF Typed, LanesOK
  <1> QED
    BY <1>1, <1>2

\* The steps of the parent that only move a coroutine, or what it is doing.
Calm ==
    \/ \E t \in Tasks : Submit(t) \/ AdmitRefused(t) \/ Await(t) \/ Cancel(t) \/ Abandon(t)
    \/ IsdoneEnds \/ PollStarts \/ PollWakes \/ Close \/ CloseSettles \/ CloseFrees \/ CloseJoins
    \/ \E f \in Fibers : ReplyCame(f) \/ LaneGone(f) \/ Parks(f) \/ Returns(f)

\* A reply is taken, in a call, in a poll or by who blocks for it.
Routes(l) == Route(l) /\ UNCHANGED busy /\ busy.does \in {"isdone", "cancel", "poll", "nothing"}

\* The steps.
LEMMA Steps ==
    ASSUME Named, Inv, Next
    PROVE  \/ Calm \/ Push \/ PushRefused \/ CancelEnds \/ PollRetires \/ JoinEnds
           \/ \E t \in Tasks : Admit(t)
           \/ \E f \in Fibers : Joins(f)
           \/ \E l \in Lanes : Routes(l) \/ Lane(l) \/ LaneCrashes(l)
  <1>1. ASSUME IsdoneRoutes PROVE \E l \in Lanes : Routes(l)
    BY <1>1 DEF IsdoneRoutes, Routes, Inv, BusyInv
  <1>2. ASSUME PollRoutes PROVE \E l \in Lanes : Routes(l)
    <2>1. busy.left \subseteq Lanes
      BY DEF Inv, Typed, FibersOK
    <2> QED
      BY <1>2, <2>1 DEF PollRoutes, Routes
  <1>3. ASSUME NEW f \in Fibers, Blocks(f) PROVE \E l \in Lanes : Routes(l)
    <2>1. busy.does = "nothing" /\ UNCHANGED busy /\ Route(LaneOf(f))
      BY <1>3 DEF Blocks, Looks, Idle, Doing
    <2>2. CASE at[f] = "reply"
      <3>1. Target(f) \in Tasks /\ state[Target(f)] # "new"
        BY <2>2 DEF Inv, FiberInvs, FiberInv, Known
      <3>2. on[Target(f)] \in Lanes
        BY <3>1 DEF Inv, TaskInvs, TaskInv
      <3>3. LaneOf(f) = on[Target(f)]
        BY <3>1 DEF LaneOf, Named
      <3> QED
        BY <2>1, <3>2, <3>3 DEF Routes
    <2>3. CASE Unended(f)
      <3>1. LaneOf(f) \in Lanes
        BY <2>3 DEF Unended, Owned, Lanes
      <3> QED
        BY <2>1, <3>1 DEF Routes
    <2> QED
      BY <1>3, <2>2, <2>3 DEF Blocks, Looks
  <1>4. ASSUME Parent
        PROVE  \/ Calm \/ Push \/ PushRefused \/ CancelEnds \/ PollRetires \/ JoinEnds
               \/ (\E t \in Tasks : Admit(t)) \/ (\E l \in Lanes : Routes(l))
    BY <1>1, <1>2, <1>4 DEF Parent, Calm
  <1>5. ASSUME NEW f \in Fibers, Waits(f) PROVE Calm \/ Joins(f) \/ (\E l \in Lanes : Routes(l))
    BY <1>3, <1>5 DEF Waits, Calm
  <1>6. ASSUME \/ \E t \in Tasks : Submit(t) \/ Await(t) \/ Cancel(t) \/ Abandon(t)
               \/ Close \/ PollStarts
        PROVE  Calm
    BY <1>6 DEF Calm
  <1> QED
    BY <1>4, <1>5, <1>6 DEF Next

\* What can be at the head of what closing settles.
LEMMA TodoFacts ==
    ASSUME Typed, todo # <<>>
    PROVE  Head(todo) \in Tasks /\ Tail(todo) \in Seq(Tasks)
  BY DEF Typed, FibersOK

\* The parent's tables keep their types.
LEMMA BooksTypes ==
    ASSUME Named, Inv, [Next]_vars
    PROVE  BooksOK'
  <1>0. Typed /\ BooksOK /\ Distinct(list)
    BY DEF Inv, Typed, ListInv
  <1>1. CASE UNCHANGED vars
    BY <1>0, <1>1 DEF BooksOK, vars, books
  <1>2. ASSUME Calm PROVE BooksOK'
    <2>1. CASE \E f \in Fibers : Returns(f)
      <3>1. PICK t \in Tasks : list' = Without(list, t) /\ UNCHANGED <<up, on, pending, inflight, status, state>>
        BY <2>1 DEF Returns
      <3> QED
        BY <1>0, <3>1, ReleasedFacts DEF BooksOK
    <2>2. CASE CloseFrees
      <3>1. PICK t \in Tasks : list' = Without(list, t) /\ UNCHANGED <<up, on, pending, inflight, status, state>>
        BY <1>0, <2>2, TodoFacts DEF CloseFrees
      <3> QED
        BY <1>0, <3>1, ReleasedFacts DEF BooksOK
    <2>3. CASE UNCHANGED books
      BY <1>0, <2>3 DEF BooksOK, books
    <2> QED
      BY <1>2, <2>1, <2>2, <2>3 DEF Calm, Submit, AdmitRefused, Await, Cancel, Abandon, IsdoneEnds, PollStarts,
         PollWakes, Close, CloseSettles, CloseJoins, ReplyCame, LaneGone, Parks
  <1>3. CASE Push
    BY <1>0, <1>3 DEF Push, BooksOK, Inv, BusyInv
  <1>4. CASE PushRefused
    <2>1. busy.who \in Tasks /\ busy.lane \in Lanes
      BY <1>4 DEF PushRefused, Inv, BusyInv
    <2> QED
      BY <1>0, <1>4, <2>1 DEF PushRefused, BooksOK, Answered
  <1>5. CASE CancelEnds
    <2>1. busy.who \in Tasks
      BY <1>5 DEF CancelEnds, Inv, BusyInv
    <2>2. list' \in Seq(Tasks)
      BY <1>0, <1>5, <2>1, ReleasedFacts DEF CancelEnds, BooksOK
    <2> QED
      BY <1>0, <1>5, <2>1, <2>2 DEF CancelEnds, BooksOK, Settled
  <1>6. CASE PollRetires \/ \E f \in Fibers : Joins(f)
    BY <1>0, <1>6 DEF PollRetires, Joins, BooksOK, books
  <1>7. CASE JoinEnds
    BY <1>0, <1>7 DEF JoinEnds, BooksOK
  <1>8. CASE \E t \in Tasks : Admit(t)
    BY <1>0, <1>8 DEF Admit, BooksOK
  <1>9. CASE \E l \in Lanes : Routes(l)
    <2> PICK l \in Lanes : Route(l)
      BY <1>9 DEF Routes
    <2>1. Head(outbox[l]).task \in Tasks /\ Head(outbox[l]).answer \in Settled
      BY <1>0, RouteTypes DEF Answers
    <2>2. list' \in Seq(Tasks)
      BY <1>0, <2>1, ReleasedFacts DEF Route, BooksOK
    <2> QED
      BY <1>0, <2>1, <2>2 DEF Route, BooksOK, Answered
  <1>10. CASE \E l \in Lanes : Lane(l) \/ LaneCrashes(l)
    <2> PICK l \in Lanes : Lane(l) \/ LaneCrashes(l)
      BY <1>10
    <2>1. CASE LaneStarts(l)
      <3>1. Head(inbox[l]) \in Tasks
        BY <1>0, <2>1 DEF LaneStarts, Typed, LanesOK
      <3> QED
        BY <1>0, <2>1, <3>1 DEF LaneStarts, BooksOK
    <2>2. CASE LaneFinishes(l)
      <3>1. thread[l].task \in Tasks
        BY <1>0, <2>2 DEF LaneFinishes, Typed, LanesOK, Inv, LaneInvs, LaneInv, Thready
      <3> QED
        BY <1>0, <2>2, <3>1 DEF LaneFinishes, BooksOK
    <2>3. CASE UNCHANGED books
      BY <1>0, <2>3 DEF BooksOK, books
    <2> QED
      BY <2>1, <2>2, <2>3 DEF Lane, LaneReplies, LaneReturns, LaneDiscards, LaneReports, LaneCrashes
  <1> QED
    BY <1>1, <1>2, <1>3, <1>4, <1>5, <1>6, <1>7, <1>8, <1>9, <1>10, Steps

\* The lanes' queues and threads keep their types.
LEMMA LanesTypes ==
    ASSUME Named, Inv, [Next]_vars
    PROVE  LanesOK'
  <1>0. Typed /\ LanesOK
    BY DEF Inv, Typed
  <1>1. CASE UNCHANGED vars
    BY <1>0, <1>1 DEF LanesOK, vars, laneVars
  <1>2. ASSUME Calm PROVE LanesOK'
    <2>1. CASE \E f \in Fibers : Returns(f)
      BY <1>0, <2>1 DEF Returns, LanesOK, Taken, laneVars
    <2>2. CASE CloseFrees
      BY <1>0, <2>2, TodoFacts DEF CloseFrees, LanesOK, laneVars
    <2>3. CASE UNCHANGED <<laneVars, outbox, closed, storage>>
      BY <1>0, <2>3 DEF LanesOK, laneVars
    <2> QED
      BY <1>2, <2>1, <2>2, <2>3 DEF Calm, Submit, AdmitRefused, Await, Cancel, Abandon, IsdoneEnds, PollStarts,
         PollWakes, Close, CloseSettles, CloseJoins, ReplyCame, LaneGone, Parks
  <1>3. CASE Push \/ PushRefused
    <2>1. busy.who \in Tasks /\ busy.lane \in Lanes
      BY <1>3 DEF PushRefused, Push, Inv, BusyInv
    <2>2. closed' \subseteq Lanes \X {"in", "out"}
      BY <1>0, <1>3, <2>1, ClosedBehindFacts DEF PushRefused, Push
    <2>3. CASE Push
      BY <1>0, <2>1, <2>2, <2>3 DEF Push, LanesOK
    <2>4. CASE PushRefused
      BY <1>0, <2>1, <2>2, <2>4 DEF PushRefused, LanesOK, laneVars
    <2> QED
      BY <1>3, <2>3, <2>4
  <1>5. CASE CancelEnds \/ \E t \in Tasks : Admit(t)
    BY <1>0, <1>5 DEF CancelEnds, Admit, LanesOK, laneVars
  <1>6. CASE PollRetires \/ \E f \in Fibers : Joins(f)
    <2>1. \E l \in Lanes : closed' = ClosedBehind(l) \/ closed' = closed
      BY <1>6 DEF PollRetires, Joins, Inv, BusyInv, Unended, Owned, Lanes
    <2>2. closed' \subseteq Lanes \X {"in", "out"}
      BY <1>0, <2>1, ClosedBehindFacts DEF LanesOK
    <2> QED
      BY <1>0, <1>6, <2>2 DEF PollRetires, Joins, LanesOK, laneVars
  <1>7. CASE JoinEnds
    BY <1>0, <1>7 DEF JoinEnds, LanesOK, Places
  <1>9. CASE \E l \in Lanes : Routes(l)
    <2> PICK l \in Lanes : Route(l)
      BY <1>9 DEF Routes
    <2>1. outbox' \in [Lanes -> Seq(Answers)]
      BY <1>0, RouteTypes DEF Route, LanesOK
    <2> QED
      BY <1>0, <2>1 DEF Route, LanesOK, laneVars
  <1>10. CASE \E l \in Lanes : Lane(l) \/ LaneCrashes(l)
    <2> PICK l \in Lanes : Lane(l) \/ LaneCrashes(l)
      BY <1>10
    <2>0. inbox[l] \in Seq(Tasks) /\ outbox[l] \in Seq(Answers) /\ (inbox[l] # <<>> => Head(inbox[l]) \in Tasks)
          /\ (inbox[l] # <<>> => Tail(inbox[l]) \in Seq(Tasks))
      BY <1>0 DEF LanesOK
    <2>1. CASE LaneStarts(l)
      <3>1. /\ inbox' \in [Lanes -> Seq(Tasks)] /\ ran' \subseteq Tasks
            /\ UNCHANGED <<outbox, closed, crashed, storage>>
        BY <1>0, <2>0, <2>1 DEF LaneStarts, LanesOK
      <3>2. \/ thread' = [thread EXCEPT ![l] = Thread("run", Head(inbox[l]), None)]
            \/ thread' = [thread EXCEPT ![l] = Thread("answer", Head(inbox[l]), "cancelled")]
        BY <2>1 DEF LaneStarts
      <3>3. thread' \in [Lanes -> [at : Places, task : Tasks \cup {None}, answer : Settled \cup {None}]]
        <4>1. Head(inbox[l]) \in Tasks /\ {"run", "answer"} \subseteq Places /\ "cancelled" \in Settled
          BY <2>0, <2>1 DEF LaneStarts, Places, Settled
        <4>2. ASSUME NEW p \in Places, NEW a \in Settled \cup {None}
              PROVE  Thread(p, Head(inbox[l]), a) \in [at : Places, task : Tasks \cup {None}, answer : Settled \cup {None}]
          BY <4>1 DEF Thread
        <4> QED
          <5>1. PICK r \in [at : Places, task : Tasks \cup {None}, answer : Settled \cup {None}] :
                   thread' = [thread EXCEPT ![l] = r]
            BY <3>2, <4>1, <4>2
          <5> QED
            BY <1>0, <5>1 DEF LanesOK
      <3> QED
        BY <1>0, <3>1, <3>3 DEF LanesOK
    <2>2. CASE LaneFinishes(l)
      <3>1. thread[l].task \in Tasks
        BY <1>0, <2>2 DEF LaneFinishes, Typed, LanesOK, Inv, LaneInvs, LaneInv, Thready
      <3> QED
        BY <1>0, <2>2, <3>1 DEF LaneFinishes, LanesOK, Thread, Places, Settled
    <2>3. CASE LaneReplies(l)
      <3>1. thread[l].task \in Tasks /\ thread[l].answer \in Settled
        BY <1>0, <2>3 DEF LaneReplies, Typed, LanesOK, Inv, LaneInvs, LaneInv, Thready
      <3>2. [task |-> thread[l].task, answer |-> thread[l].answer] \in Answers
        BY <3>1 DEF Answers
      <3>3. Append(outbox[l], [task |-> thread[l].task, answer |-> thread[l].answer]) \in Seq(Answers)
        BY <2>0, <3>2
      <3>4. outbox' \in [Lanes -> Seq(Answers)]
        BY <1>0, <2>3, <3>3 DEF LaneReplies, LanesOK
      <3> QED
        BY <1>0, <2>3, <3>4 DEF LaneReplies, LanesOK, Thread, Places
    <2>4. CASE LaneReturns(l)
      BY <1>0, <2>4 DEF LaneReturns, LanesOK, Thread, Places
    <2>5. CASE LaneDiscards(l)
      <3>1. thread' = [thread EXCEPT ![l].at = "discarded"] /\ closed' = closed \cup {<<l, "in">>}
        BY <2>5 DEF LaneDiscards, Closes
      <3>2. thread' \in [Lanes -> [at : Places, task : Tasks \cup {None}, answer : Settled \cup {None}]]
        BY <1>0, <3>1 DEF LanesOK, Places
      <3>3. closed' \subseteq Lanes \X {"in", "out"} /\ inbox' \in [Lanes -> Seq(Tasks)]
        BY <1>0, <2>5, <3>1 DEF LanesOK, LaneDiscards
      <3> QED
        BY <1>0, <2>5, <3>2, <3>3 DEF LanesOK, LaneDiscards
    <2>6. CASE LaneReports(l)
      <3>1. thread' = [thread EXCEPT ![l].at = "reported"] /\ closed' = closed \cup {<<l, "out">>}
        BY <2>6 DEF LaneReports, Closes
      <3>2. thread' \in [Lanes -> [at : Places, task : Tasks \cup {None}, answer : Settled \cup {None}]]
        BY <1>0, <3>1 DEF LanesOK, Places
      <3>3. closed' \subseteq Lanes \X {"in", "out"} /\ inbox' \in [Lanes -> Seq(Tasks)]
        BY <1>0, <2>6, <3>1 DEF LanesOK, LaneReports
      <3> QED
        BY <1>0, <2>6, <3>2, <3>3 DEF LanesOK, LaneReports
    <2>7. CASE LaneCrashes(l)
      BY <1>0, <2>0, <2>7 DEF LaneCrashes, LanesOK, Thread, Places
    <2> QED
      BY <2>1, <2>2, <2>3, <2>4, <2>5, <2>6, <2>7 DEF Lane
  <1> QED
    BY <1>1, <1>2, <1>3, <1>5, <1>6, <1>7, <1>9, <1>10, Steps

\* Coroutines, and what the parent is doing, keep their types.
LEMMA FibersTypes ==
    ASSUME Named, Inv, [Next]_vars
    PROVE  FibersOK'
  <1>0. Typed /\ FibersOK /\ todo \in Seq(Tasks) /\ busy.left \subseteq Lanes /\ "close" \in Fibers /\ Tasks \subseteq Fibers
    BY DEF Inv, Typed, FibersOK, Fibers
  <1> DEFINE Doable == [does : Doings, who : Fibers \cup {None}, lane : Lanes \cup {None}, left : SUBSET Lanes]
  <1>d. ASSUME NEW d \in Doings, NEW w \in Fibers \cup {None}, NEW k \in Lanes \cup {None}, NEW L \in SUBSET Lanes
        PROVE  Doing(d, w, k, L) \in Doable
    BY DEF Doing
  <1>i. Idle \in Doable
    BY DEF Idle, Doing, Doings
  <1>1. CASE UNCHANGED vars
    BY <1>0, <1>1 DEF FibersOK, vars, closing
  <1>s. Started \subseteq Lanes
    BY DEF Started
  <1>2. ASSUME Calm PROVE FibersOK'
    <2>1. CASE \E t \in Tasks : Submit(t)
      BY <1>0, <1>s, <2>1, PollingFacts DEF Submit, FibersOK, closing
    <2>2. CASE (\E t \in Tasks : AdmitRefused(t)) \/ PollStarts
      <3>1. busy' = Idle \/ busy' = Polling(None, Started)
        BY <2>2 DEF AdmitRefused, PollStarts
      <3>2. busy' \in Doable
        BY <1>s, <1>i, <3>1, PollingFacts
      <3> QED
        BY <1>0, <2>2, <3>2 DEF AdmitRefused, PollStarts, FibersOK, closing
    <2>3. CASE \E t \in Tasks : Await(t)
      <3> PICK t \in Tasks : Await(t)
        BY <2>3
      <3>1. on[t] \in Lanes \cup {None}
        BY <1>0 DEF Typed, BooksOK
      <3>2. busy' \in Doable
        BY <1>0, <1>i, <1>d, <3>1 DEF Await, Doings
      <3> QED
        BY <1>0, <3>2 DEF Await, FibersOK, closing, Wheres
    <2>4. CASE \E t \in Tasks : Cancel(t)
      <3> PICK t \in Tasks : Cancel(t)
        BY <2>4
      <3>1. on[t] \in Lanes \cup {None}
        BY <1>0 DEF Typed, BooksOK
      <3>2. busy' \in Doable
        BY <1>0, <1>d, <3>1 DEF Cancel, Doings
      <3> QED
        BY <1>0, <3>2 DEF Cancel, FibersOK, closing
    <2>5. CASE \E t \in Tasks : Abandon(t)
      BY <1>0, <2>5 DEF Abandon, FibersOK, closing, Wheres
    <2>6. CASE IsdoneEnds
      BY <1>0, <1>i, <2>6 DEF IsdoneEnds, FibersOK, closing, Wheres
    <2>7. CASE PollWakes
      <3>1. busy.who \in Fibers \cup {None}
        BY <1>0 DEF FibersOK
      <3>2. busy' \in Doable /\ waiters' \subseteq waiters
        <4> PICK l \in busy.left : /\ waiters' \subseteq waiters
                                  /\ busy' = Doing("retire", busy.who, l, busy.left \ {l})
          BY <2>7 DEF PollWakes
        <4>1. l \in Lanes /\ busy.left \ {l} \in SUBSET Lanes /\ "retire" \in Doings
          BY <1>0 DEF Doings
        <4> QED
          BY <1>d, <3>1, <4>1
      <3> QED
        BY <1>0, <2>7, <3>2 DEF PollWakes, FibersOK, closing
    <2>8. CASE Close
      BY <1>0, <2>8 DEF Close, FibersOK, Wheres, Typed, BooksOK
    <2>9. CASE CloseSettles
      <3>1. Head(todo) \in Tasks /\ on[Head(todo)] \in Lanes \cup {None}
        BY <1>0, <2>9, TodoFacts DEF CloseSettles, Typed, BooksOK
      <3>2. busy' \in Doable
        BY <1>0, <1>i, <1>d, <2>9, <3>1 DEF CloseSettles, Doings
      <3> QED
        BY <1>0, <2>9, <3>1, <3>2 DEF CloseSettles, FibersOK, Wheres
    <2>10. CASE CloseFrees
      BY <1>0, <2>10, TodoFacts DEF CloseFrees, FibersOK, Wheres
    <2>11. CASE CloseJoins
      <3>1. joinee' \in Lanes \cup {None}
        BY <2>11 DEF CloseJoins, Left, Owned, Lanes
      <3> QED
        BY <1>0, <2>11, <3>1 DEF CloseJoins, FibersOK, Wheres
    <2>12. CASE \E f \in Fibers : ReplyCame(f) \/ LaneGone(f) \/ Parks(f) \/ Returns(f)
      BY <1>0, <2>12 DEF ReplyCame, LaneGone, Parks, Returns, FibersOK, Wheres, closing
    <2> QED
      BY <1>2, <2>1, <2>2, <2>3, <2>4, <2>5, <2>6, <2>7, <2>8, <2>9, <2>10, <2>11, <2>12 DEF Calm
  <1>3. CASE Push \/ CancelEnds
    BY <1>0, <1>i, <1>3 DEF Push, CancelEnds, FibersOK, closing
  <1>4. CASE PushRefused
    <2>1. busy' \in Doable
      BY <1>i, <1>d, <1>4 DEF PushRefused, Inv, BusyInv, Doings
    <2> QED
      BY <1>0, <1>4, <2>1 DEF PushRefused, FibersOK, closing
  <1>5. CASE \E t \in Tasks : Admit(t)
    <2>1. busy' \in Doable
      BY <1>0, <1>d, <1>5 DEF Admit, Doings
    <2> QED
      BY <1>0, <1>5, <2>1 DEF Admit, FibersOK, closing
  <1>6. CASE PollRetires
    <2>1. busy.who \in Tasks \cup {None} /\ busy.lane \in Lanes
      BY <1>6 DEF PollRetires, Inv, BusyInv, Submitting
    <2>2. busy' \in Doable
      BY <1>0, <1>d, <1>6, <2>1, PollingFacts DEF PollRetires, Doings
    <2> QED
      BY <1>0, <1>6, <2>2 DEF PollRetires, FibersOK, closing
  <1>7. CASE JoinEnds
    <2>1. busy.who \in Tasks \cup {None}
      BY <1>7 DEF JoinEnds, Inv, BusyInv, Submitting
    <2>2. busy' \in Doable
      BY <1>0, <1>7, <2>1, PollingFacts DEF JoinEnds
    <2> QED
      BY <1>0, <1>7, <2>2 DEF JoinEnds, FibersOK, closing
  <1>8. CASE \E f \in Fibers : Joins(f)
    <2>1. busy' \in Doable
      <3> PICK k \in Lanes : busy' = Doing("join", None, k, {})
        BY <1>8 DEF Joins, Unended, Owned, Lanes
      <3>1. "join" \in Doings
        BY DEF Doings
      <3> QED
        BY <1>d, <3>1
    <2> QED
      BY <1>0, <1>8, <2>1 DEF Joins, FibersOK, closing
  <1>9. CASE \E l \in Lanes : Routes(l)
    BY <1>0, <1>9 DEF Routes, Route, FibersOK, closing
  <1>10. CASE \E l \in Lanes : Lane(l) \/ LaneCrashes(l)
    BY <1>0, <1>10 DEF Lane, LaneStarts, LaneFinishes, LaneReplies, LaneReturns, LaneDiscards, LaneReports, LaneCrashes,
       FibersOK, closing
  <1> QED
    BY <1>1, <1>2, <1>3, <1>4, <1>5, <1>6, <1>7, <1>8, <1>9, <1>10, Steps

\* Every step keeps the types.
LEMMA TypedStep ==
    ASSUME Named, Inv, [Next]_vars
    PROVE  Typed'
  BY BooksTypes, LanesTypes, FibersTypes DEF Typed

-----------------------------------------------------------------------------
(* Lanes *)

\* A lane that a step leaves alone.
LEMMA LaneStays ==
    ASSUME NEW k \in Lanes, LaneInv(k),
           inbox'[k] = inbox[k], outbox'[k] = outbox[k], thread'[k] = thread[k], pending'[k] = pending[k],
           inflight'[k] = inflight[k], up'[k] = up[k], crashed \subseteq crashed', ran \subseteq ran',
           closed \subseteq closed', <<k, "out">> \in closed' => <<k, "out">> \in closed,
           \A t \in Tasks : Pushing(k, t)' <=> Pushing(k, t),
           busy'.does = "join" /\ busy'.lane = k =>
              (busy.does = "join" /\ busy.lane = k) \/ (k \in Dedicated /\ (k \notin crashed => pending[k] = {}))
    PROVE  LaneInv(k)'
  <1>1. \A t \in Tasks : /\ In(k, t)' <=> In(k, t)
                         /\ Held(k, t)' <=> Held(k, t)
                         /\ Out(k, t)' <=> Out(k, t)
    BY DEF In, Held, Out
  <1>2. Apart(k)'
    BY <1>1 DEF LaneInv, Apart
  <1>3. Counted(k)'
    BY DEF LaneInv, Counted
  <1>4. Booked(k)'
    BY <1>1 DEF LaneInv, Booked, Somewhere
  <1>5. Thready(k)'
    BY DEF LaneInv, Thready, InOpen
  <1>6. Joined(k)'
    BY DEF LaneInv, Joined
  <1> QED
    BY <1>2, <1>3, <1>4, <1>5, <1>6 DEF LaneInv

\* What the steps that only move a coroutine leave alone.
core == <<up, on, pending, inflight, inbox, outbox, closed, status, thread, state, ran, crashed>>

\* The parent neither pushes nor joins in such a step.
LEMMA CalmFacts ==
    ASSUME Named, Inv, Calm
    PROVE  UNCHANGED core /\ busy.does # "push" /\ busy'.does \notin {"push", "join"}
  <1>1. UNCHANGED core
    BY DEF Calm, Submit, AdmitRefused, Await, Cancel, Abandon, IsdoneEnds, PollStarts, PollWakes, Close, CloseSettles,
       CloseFrees, CloseJoins, ReplyCame, LaneGone, Parks, Returns, core, books, laneVars
  <1>2. CASE \E t \in Tasks : Submit(t)
    <2>1. Started \subseteq Lanes
      BY DEF Started
    <2>2. busy = Idle /\ \E t \in Tasks : busy' = Polling(t, Started) \/ busy' = Polling(t, {})
      BY <1>2 DEF Submit, Free
    <2> QED
      BY <1>1, <2>1, <2>2, PollingFacts DEF Idle, Doing
  <1>3. CASE PollStarts
    <2>1. Started \subseteq Lanes
      BY DEF Started
    <2>2. busy = Idle /\ busy' = Polling(None, Started)
      BY <1>3 DEF PollStarts, Free
    <2> QED
      BY <1>1, <2>1, <2>2, PollingFacts DEF Idle, Doing
  <1>4. CASE \/ \E t \in Tasks : AdmitRefused(t) \/ Await(t) \/ Cancel(t) \/ Abandon(t)
             \/ IsdoneEnds \/ PollWakes \/ Close \/ CloseSettles \/ CloseFrees \/ CloseJoins
             \/ \E f \in Fibers : ReplyCame(f) \/ LaneGone(f) \/ Parks(f) \/ Returns(f)
    BY <1>1, <1>4 DEF AdmitRefused, Await, Cancel, Abandon, IsdoneEnds, PollWakes, Close, CloseSettles,
       CloseFrees, CloseJoins, ReplyCame, LaneGone, Parks, Returns, Looks, Free, Idle, Doing
  <1> QED
    BY <1>2, <1>3, <1>4 DEF Calm

\* The tasks of a dedicated lane.
LEMMA DedicatedOwn ==
    ASSUME Named, Inv, NEW l \in Dedicated, NEW t \in pending[l]
    PROVE  t = l
  <1>1. l \in Lanes /\ t \in Tasks
    BY DEF Lanes, Inv, Typed, BooksOK
  <1>2. on[t] = l /\ l # None
    BY <1>1 DEF Inv, TaskInvs, TaskInv, Named
  <1> QED
    BY <1>1, <1>2 DEF Inv, TaskInvs, TaskInv, Named

\* A lane whose thread has stopped, its replies taken, owes none.
LEMMA EndedOwesNothing ==
    ASSUME Inv, NEW l \in Lanes, l \notin crashed, <<l, "out">> \in closed, outbox[l] = <<>>, busy.does # "push", Named
    PROVE  pending[l] = {}
  <1>1. LaneInv(l) /\ pending[l] \subseteq Tasks
    BY DEF Inv, LaneInvs, Typed, BooksOK
  <1>2. inbox[l] = <<>> /\ thread[l].task = None
    BY <1>1 DEF LaneInv, Thready
  <1>3. TasksOf(outbox[l]) = <<>>
    BY DEF TasksOf
  <1>4. ASSUME NEW t \in Tasks PROVE ~Somewhere(l, t)
    BY <1>2, <1>3 DEF Somewhere, In, Held, Out, Pushing, Contains, Named
  <1> QED
    BY <1>1, <1>4 DEF LaneInv, Booked

\* Steps of the parent between two of its calls to a lane.
LEMMA LanesCalm ==
    ASSUME Named, Inv, Calm \/ CancelEnds \/ UNCHANGED vars, NEW k \in Lanes
    PROVE  LaneInv(k)'
  <1>1. UNCHANGED <<up, pending, inflight, inbox, outbox, closed, thread, ran, crashed>>
    BY CalmFacts DEF core, CancelEnds, laneVars, vars, books
  <1>2. UNCHANGED busy \/ (busy.does # "push" /\ busy'.does \notin {"push", "join"})
    BY CalmFacts DEF CancelEnds, vars, Idle, Doing
  <1> QED
    BY <1>1, <1>2, LaneStays DEF Inv, LaneInvs, Pushing

\* A poll or a blocked wait decides to join a lane.
LEMMA LanesJoined ==
    ASSUME Named, Inv, PollRetires \/ \E f \in Fibers : Joins(f), NEW k \in Lanes
    PROVE  LaneInv(k)'
  <1>0. Typed /\ LaneInv(k)
    BY DEF Inv, LaneInvs
  <1>1. UNCHANGED <<up, pending, inflight, inbox, outbox, thread, ran, crashed>>
    BY DEF PollRetires, Joins, laneVars, books
  <1>2. \E l \in Lanes : closed' = closed \/ closed' = ClosedBehind(l)
    BY DEF PollRetires, Joins, Unended, Owned, Lanes, Inv, BusyInv
  <1>3. closed \subseteq closed' /\ (<<k, "out">> \in closed' => <<k, "out">> \in closed)
    BY <1>0, <1>2, ClosedBehindFacts DEF Typed
  <1>4. CASE PollRetires
    <2>1. busy.does = "retire" /\ busy.lane \in Lanes /\ busy.who \in Tasks \cup {None} /\ busy.left \subseteq Lanes
      BY <1>0, <1>4 DEF PollRetires, Inv, BusyInv, Submitting, Typed, FibersOK
    <2>2. CASE Retirable(busy.lane)
      <3>1. busy' = Doing("join", busy.who, busy.lane, busy.left) /\ busy.lane \in Dedicated /\ inflight[busy.lane] = 0
        BY <1>4, <2>2 DEF PollRetires, Retirable
      <3>2. pending[busy.lane] = {}
        BY <2>1, <3>1, FS_EmptySet DEF Inv, LaneInvs, LaneInv, Counted
      <3> QED
        BY <1>0, <1>1, <1>3, <2>1, <3>1, <3>2, LaneStays DEF Pushing, Doing
    <2>3. CASE ~Retirable(busy.lane)
      <3>1. busy' = Polling(busy.who, busy.left)
        BY <1>4, <2>3 DEF PollRetires
      <3>2. busy'.does \notin {"push", "join"}
        BY <2>1, <3>1, PollingFacts
      <3> QED
        BY <1>0, <1>1, <1>3, <2>1, <3>2, LaneStays DEF Pushing
    <2> QED
      BY <2>2, <2>3
  <1>5. CASE \E f \in Fibers : Joins(f)
    <2> PICK f \in Fibers : Joins(f)
      BY <1>5
    <2> DEFINE l == LaneOf(f)
    <2>1. /\ l \in Dedicated /\ l \in Lanes /\ up[l] = "up" /\ Ended(l) /\ busy = Idle
          /\ busy' = Doing("join", None, l, {})
      BY DEF Joins, Unended, Owned, Lanes, Looks
    <2>2. l \notin crashed => pending[l] = {}
      BY <2>1, EndedOwesNothing DEF Ended, Idle, Doing
    <2> HIDE DEF l
    <2> QED
      BY <1>0, <1>1, <1>3, <2>1, <2>2, LaneStays DEF Pushing, Doing, Idle
  <1> QED
    BY <1>4, <1>5

\* The joined thread has reported its end: the lane is retired.
LEMMA LanesJoinEnds ==
    ASSUME Named, Inv, JoinEnds, NEW k \in Lanes
    PROVE  LaneInv(k)'
  <1>0. Typed /\ LaneInv(k)
    BY DEF Inv, LaneInvs
  <1>1. busy.does = "join" /\ busy.lane \in Lanes /\ busy.who \in Tasks \cup {None} /\ busy.left \subseteq Lanes
    BY <1>0 DEF JoinEnds, Inv, BusyInv, Submitting, Typed, FibersOK
  <1>2. busy'.does \notin {"push", "join"}
    BY <1>1, PollingFacts DEF JoinEnds
  <1>3. UNCHANGED <<pending, inflight, inbox, outbox, closed, ran, crashed>>
    BY DEF JoinEnds
  <1>4. /\ up' = [up EXCEPT ![busy.lane] = "retired"] /\ thread' = [thread EXCEPT ![busy.lane].at = "ended"]
        /\ thread[busy.lane].at = "reported"
    BY DEF JoinEnds
  <1>5. /\ k # busy.lane => up'[k] = up[k] /\ thread'[k] = thread[k]
        /\ k = busy.lane => thread'[k] = [thread[k] EXCEPT !.at = "ended"]
    BY <1>0, <1>1, <1>4 DEF Typed, BooksOK, LanesOK
  <1>6. CASE k # busy.lane
    BY <1>0, <1>1, <1>2, <1>3, <1>5, <1>6, LaneStays DEF Pushing
  <1>7. CASE k = busy.lane
    <2>1. thread'[k].at = "ended" /\ thread'[k].task = thread[k].task /\ thread'[k].answer = thread[k].answer
      BY <1>0, <1>5, <1>7 DEF Typed, LanesOK
    <2>2. \A t \in Tasks : /\ In(k, t)' <=> In(k, t)
                           /\ Held(k, t)' <=> Held(k, t)
                           /\ Out(k, t)' <=> Out(k, t)
                           /\ Pushing(k, t)' <=> Pushing(k, t)
      BY <1>1, <1>2, <1>3, <2>1 DEF In, Held, Out, Pushing
    <2>3. Apart(k)' /\ Counted(k)'
      BY <1>0, <1>3, <2>2 DEF LaneInv, Apart, Counted
    <2>4. Booked(k)'
      BY <1>0, <1>3, <2>2 DEF LaneInv, Booked, Somewhere
    <2>5. Thready(k)'
      BY <1>0, <1>3, <1>4, <1>7, <2>1 DEF LaneInv, Thready, InOpen
    <2>6. Joined(k)'
      BY <1>0, <1>1, <1>3, <1>7 DEF LaneInv, Joined
    <2> QED
      BY <2>3, <2>4, <2>5, <2>6 DEF LaneInv
  <1> QED
    BY <1>6, <1>7


\* A task that is not known yet is not in any lane's books.
LEMMA NewIsNowhere ==
    ASSUME Named, Inv, NEW t \in Tasks, state[t] = "new", NEW l \in Lanes
    PROVE  t \notin pending[l] /\ ~Somewhere(l, t)
  <1>1. t \notin pending[l]
    BY DEF Inv, TaskInvs, TaskInv
  <1> QED
    BY <1>1 DEF Inv, LaneInvs, LaneInv, Booked

\* A task is registered with a lane.
LEMMA LanesAdmit ==
    ASSUME Named, Inv, NEW t \in Tasks, Admit(t), NEW k \in Lanes
    PROVE  LaneInv(k)'
  <1>0. Typed /\ LaneInv(k)
    BY DEF Inv, LaneInvs
  <1>1. PICK l \in Lanes :
          /\ up' = [up EXCEPT ![l] = "up"] /\ pending' = [pending EXCEPT ![l] = @ \cup {t}]
          /\ inflight' = [inflight EXCEPT ![l] = @ + 1] /\ busy' = Doing("push", t, l, {})
    BY DEF Admit
  <1>2. busy.does = "admit" /\ busy.who = t
    BY DEF Admit, Doing
  <1>3. state[t] = "new" /\ t # None
    BY <1>2 DEF Inv, BusyInv, Submitting, Named
  <1>4. UNCHANGED <<inbox, outbox, closed, thread, ran, crashed>>
    BY DEF Admit, laneVars
  <1>5. busy'.does = "push" /\ busy'.who = t /\ busy'.lane = l
    BY <1>1 DEF Doing
  <1>6. CASE k # l
    <2>1. pending'[k] = pending[k] /\ inflight'[k] = inflight[k] /\ up'[k] = up[k]
      BY <1>0, <1>1, <1>6 DEF Typed, BooksOK
    <2> QED
      BY <1>0, <1>2, <1>4, <1>5, <1>6, <2>1, LaneStays DEF Pushing
  <1>7. CASE k = l
    <2>1. pending'[k] = pending[k] \cup {t} /\ inflight'[k] = inflight[k] + 1 /\ up'[k] = "up"
      BY <1>0, <1>1, <1>7 DEF Typed, BooksOK
    <2>2. t \notin pending[k] /\ ~Somewhere(k, t)
      BY <1>3, NewIsNowhere
    <2>3. \A u \in Tasks : /\ In(k, u)' <=> In(k, u)
                           /\ Held(k, u)' <=> Held(k, u)
                           /\ Out(k, u)' <=> Out(k, u)
                           /\ ~Pushing(k, u)
                           /\ Pushing(k, u)' <=> u = t
      BY <1>2, <1>4, <1>5, <1>7 DEF In, Held, Out, Pushing
    <2>4. Apart(k)'
      BY <1>0, <1>4, <2>2, <2>3 DEF LaneInv, Apart, Somewhere
    <2>5. Counted(k)'
      <3>1. IsFiniteSet(pending[k]) /\ inflight[k] = Cardinality(pending[k])
        BY <1>0 DEF LaneInv, Counted
      <3>2. IsFiniteSet(pending[k] \cup {t}) /\ Cardinality(pending[k] \cup {t}) = Cardinality(pending[k]) + 1
        BY <2>2, <3>1, FS_AddElement
      <3> QED
        BY <2>1, <3>1, <3>2 DEF Counted
    <2>6. Booked(k)'
      BY <1>0, <1>4, <2>1, <2>2, <2>3 DEF LaneInv, Booked, Somewhere
    <2>7. Thready(k)'
      BY <1>0, <1>4 DEF LaneInv, Thready, InOpen
    <2>8. Joined(k)'
      BY <1>5, <2>1 DEF Joined
    <2> QED
      BY <2>4, <2>5, <2>6, <2>7, <2>8 DEF LaneInv
  <1> QED
    BY <1>6, <1>7

\* The task is pushed: it was nowhere else.
LEMMA LanesPush ==
    ASSUME Named, Inv, Push, NEW k \in Lanes
    PROVE  LaneInv(k)'
  <1> DEFINE l == busy.lane
             t == busy.who
  <1>0. Typed /\ LaneInv(k) /\ inbox[k] \in Seq(Tasks)
    BY DEF Inv, LaneInvs, Typed, LanesOK
  <1>1. busy.does = "push" /\ l \in Lanes /\ t \in Tasks /\ InOpen(l)
    BY DEF Push, Inv, BusyInv
  <1>2. UNCHANGED <<up, pending, inflight, outbox, thread, ran, crashed>>
    BY DEF Push
  <1>3. closed' = ClosedBehind(l) /\ inbox' = [inbox EXCEPT ![l] = Append(@, t)] /\ busy' = Idle
    BY DEF Push
  <1>4. busy'.does = "nothing"
    BY <1>3 DEF Idle, Doing
  <1>5. closed \subseteq closed' /\ (<<k, "out">> \in closed' => <<k, "out">> \in closed)
    BY <1>0, <1>1, <1>3, ClosedBehindFacts DEF Typed
  <1>6. CASE k # l
    <2>1. inbox'[k] = inbox[k]
      BY <1>0, <1>1, <1>3, <1>6 DEF Typed, LanesOK
    <2> QED
      BY <1>0, <1>1, <1>2, <1>4, <1>5, <1>6, <2>1, LaneStays DEF Pushing
  <1>7. CASE k = l
    <2> HIDE DEF t
    <2>1. inbox'[k] = Append(inbox[k], t)
      BY <1>0, <1>1, <1>3, <1>7 DEF Typed, LanesOK
    <2>2. Pushing(k, t)
      BY <1>1, <1>7 DEF Pushing, t
    <2>3. Distinct(inbox[k]) /\ ~Contains(inbox[k], t)
      BY <1>0, <1>1, <2>2 DEF LaneInv, Apart, In
    <2>4. /\ Distinct(inbox'[k])
          /\ \A u : Contains(inbox'[k], u) <=> Contains(inbox[k], u) \/ u = t
      BY <1>0, <1>1, <2>1, <2>3, AppendFacts
    <2>5. \A u \in Tasks : /\ In(k, u)' <=> In(k, u) \/ u = t
                           /\ Held(k, u)' <=> Held(k, u)
                           /\ Out(k, u)' <=> Out(k, u)
                           /\ ~Pushing(k, u)'
                           /\ Pushing(k, u) <=> u = t
      BY <1>1, <1>2, <1>4, <1>7, <2>4 DEF In, Held, Out, Pushing, t
    <2>6. Apart(k)'
      BY <1>0, <1>1, <1>2, <2>2, <2>4, <2>5 DEF LaneInv, Apart
    <2>7. Counted(k)'
      BY <1>0, <1>2 DEF LaneInv, Counted
    <2>8. Booked(k)'
      BY <1>0, <1>2, <2>5 DEF LaneInv, Booked, Somewhere
    <2>9. Thready(k)'
      BY <1>0, <1>1, <1>2, <1>5, <1>7 DEF LaneInv, Thready, InOpen
    <2>10. Joined(k)'
      BY <1>0, <1>2, <1>4 DEF LaneInv, Joined
    <2> QED
      BY <2>6, <2>7, <2>8, <2>9, <2>10 DEF LaneInv
  <1> QED
    BY <1>6, <1>7

\* The push is refused, and what was registered is taken back.
LEMMA LanesPushRefused ==
    ASSUME Named, Inv, PushRefused, NEW k \in Lanes
    PROVE  LaneInv(k)'
  <1> DEFINE l == busy.lane
             t == busy.who
  <1>0. Typed /\ LaneInv(k)
    BY DEF Inv, LaneInvs, Typed, LanesOK
  <1>1. busy.does = "push" /\ l \in Lanes /\ t \in Tasks
    BY DEF PushRefused, Inv, BusyInv
  <1>2. UNCHANGED <<up, inbox, outbox, thread, ran, crashed>>
    BY DEF PushRefused, laneVars
  <1>3. closed' = ClosedBehind(l) /\ busy' = IF l \in Dedicated THEN Doing("join", None, l, {}) ELSE Idle
    BY DEF PushRefused
  <1>4. pending' = [pending EXCEPT ![l] = @ \ {t}] /\ inflight' = [inflight EXCEPT ![l] = @ - 1]
    BY <1>0, <1>1 DEF PushRefused, Answered, Typed, BooksOK
  <1>5. closed \subseteq closed' /\ (<<k, "out">> \in closed' => <<k, "out">> \in closed)
    BY <1>0, <1>1, <1>3, ClosedBehindFacts DEF Typed
  <1>6. busy'.does # "push" /\ (busy'.does = "join" => busy'.lane = l /\ l \in Dedicated)
    BY <1>3 DEF Idle, Doing
  <1>7. CASE k # l
    <2>1. pending'[k] = pending[k] /\ inflight'[k] = inflight[k]
      BY <1>0, <1>1, <1>4, <1>7 DEF Typed, BooksOK
    <2> QED
      BY <1>0, <1>1, <1>2, <1>5, <1>6, <1>7, <2>1, LaneStays DEF Pushing
  <1>8. CASE k = l
    <2>1. Pushing(k, t) /\ Somewhere(k, t)
      BY <1>1, <1>8 DEF Pushing, Somewhere
    <2> HIDE DEF t
    <2>2. pending'[k] = pending[k] \ {t} /\ inflight'[k] = inflight[k] - 1
      BY <1>0, <1>1, <1>4, <1>8 DEF Typed, BooksOK
    <2>3. t \in pending[k] /\ ~In(k, t) /\ ~Held(k, t) /\ ~Out(k, t)
      BY <1>0, <1>1, <2>1 DEF LaneInv, Apart, Booked
    <2>4. \A u \in Tasks : /\ In(k, u)' <=> In(k, u)
                           /\ Held(k, u)' <=> Held(k, u)
                           /\ Out(k, u)' <=> Out(k, u)
                           /\ ~Pushing(k, u)'
                           /\ Pushing(k, u) <=> u = t
      BY <1>1, <1>2, <1>6, <1>8 DEF In, Held, Out, Pushing, t
    <2>5. Apart(k)'
      BY <1>0, <1>2, <2>4 DEF LaneInv, Apart
    <2>6. Counted(k)'
      BY <1>0, <2>2, <2>3, FS_RemoveElement DEF LaneInv, Counted
    <2>7. Booked(k)'
      BY <1>0, <1>2, <2>2, <2>3, <2>4 DEF LaneInv, Booked, Somewhere
    <2>8. Thready(k)'
      BY <1>0, <1>2, <1>5 DEF LaneInv, Thready, InOpen
    <2>9. k \in Dedicated => pending'[k] = {}
      BY <2>2, <2>3, DedicatedOwn
    <2>10. Joined(k)'
      BY <1>0, <1>2, <1>6, <1>8, <2>2, <2>9 DEF LaneInv, Joined
    <2> QED
      BY <2>5, <2>6, <2>7, <2>8, <2>10 DEF LaneInv
  <1> QED
    BY <1>7, <1>8

\* The reply a route takes is for a task the lane owes, and for that one only.
LEMMA RouteFacts ==
    ASSUME Named, Inv, NEW l \in Lanes, Routes(l)
    PROVE  LET t == Head(outbox[l]).task IN
           /\ t \in Tasks /\ Head(outbox[l]).answer \in Settled /\ Out(l, t) /\ t \in pending[l] /\ on[t] = l
           /\ state[t] \in {"queued", "cancelled"} /\ outbox[l] # <<>> /\ up[l] = "up"
  <1> DEFINE t == Head(outbox[l]).task
  <1>0. Typed /\ LaneInv(l) /\ outbox[l] \in Seq(Answers)
    BY DEF Inv, LaneInvs, Typed, LanesOK
  <1>1. outbox[l] # <<>> /\ up[l] = "up" /\ Head(outbox[l]) \in Answers
    BY <1>0, RouteTypes DEF Routes
  <1>2. TasksOf(outbox[l]) \in Seq(Tasks) /\ TasksOf(outbox[l]) # <<>> /\ Head(TasksOf(outbox[l])) = t
    BY <1>0, <1>1, TasksOfFacts
  <1>3. Contains(TasksOf(outbox[l]), t)
    BY <1>2 DEF Contains
  <1>4. t \in Tasks /\ Head(outbox[l]).answer \in Settled /\ Out(l, t)
    BY <1>1, <1>3 DEF Answers, Out
  <1>5. t \in pending[l]
    BY <1>0, <1>4 DEF LaneInv, Booked, Somewhere
  <1> QED
    BY <1>1, <1>4, <1>5 DEF Inv, TaskInvs, TaskInv

\* A reply is taken: its task leaves the lane's books with it.
LEMMA LanesRoute ==
    ASSUME Named, Inv, NEW l \in Lanes, Routes(l), NEW k \in Lanes
    PROVE  LaneInv(k)'
  <1> DEFINE t == Head(outbox[l]).task
  <1>0. Typed /\ LaneInv(k) /\ LaneInv(l)
    BY DEF Inv, LaneInvs, Typed, LanesOK
  <1>1. t \in Tasks /\ Out(l, t) /\ t \in pending[l] /\ outbox[l] # <<>> /\ up[l] = "up"
    BY RouteFacts
  <1>2. UNCHANGED <<up, inbox, closed, thread, ran, crashed, busy>> /\ busy.does \notin {"push", "join"}
    BY DEF Routes, Route, laneVars
  <1>3. /\ outbox' = [outbox EXCEPT ![l] = Tail(@)] /\ pending' = [pending EXCEPT ![l] = @ \ {t}]
        /\ inflight' = [inflight EXCEPT ![l] = @ - 1]
    BY <1>0 DEF Routes, Route, Answered, Typed, BooksOK
  <1> HIDE DEF t
  <1>4. CASE k # l
    <2>1. pending'[k] = pending[k] /\ inflight'[k] = inflight[k] /\ outbox'[k] = outbox[k]
      BY <1>0, <1>3, <1>4 DEF Typed, BooksOK, LanesOK
    <2> QED
      BY <1>0, <1>2, <2>1, LaneStays DEF Pushing
  <1>5. CASE k = l
    <2>1. pending'[k] = pending[k] \ {t} /\ inflight'[k] = inflight[k] - 1 /\ outbox'[k] = Tail(outbox[k])
      BY <1>0, <1>3, <1>5 DEF Typed, BooksOK, LanesOK
    <2>2. outbox[k] \in Seq(Answers) /\ TasksOf(outbox[k]) \in Seq(Tasks) /\ Distinct(TasksOf(outbox[k]))
      BY <1>0, TasksOfFacts DEF Typed, LanesOK, LaneInv, Apart
    <2>3. /\ TasksOf(outbox'[k]) = Tail(TasksOf(outbox[k])) /\ TasksOf(outbox[k]) # <<>>
          /\ Head(TasksOf(outbox[k])) = t
      BY <1>1, <1>5, <2>1, <2>2, TasksOfFacts DEF t
    <2>4. /\ Distinct(TasksOf(outbox'[k])) /\ ~Contains(TasksOf(outbox'[k]), t)
          /\ \A u : Contains(TasksOf(outbox[k]), u) <=> Contains(TasksOf(outbox'[k]), u) \/ u = t
      BY <2>2, <2>3, TailFacts
    <2>5. \A u \in Tasks : /\ In(k, u)' <=> In(k, u)
                           /\ Held(k, u)' <=> Held(k, u)
                           /\ Out(k, u)' <=> Out(k, u) /\ u # t
                           /\ ~Pushing(k, u)' /\ ~Pushing(k, u)
      BY <1>2, <2>4 DEF In, Held, Out, Pushing
    <2>6. Apart(k)'
      BY <1>0, <1>2, <2>4, <2>5 DEF LaneInv, Apart
    <2>7. Counted(k)'
      BY <1>0, <1>1, <1>5, <2>1, FS_RemoveElement DEF LaneInv, Counted
    <2>8. Booked(k)'
      <3>1. ~In(k, t) /\ ~Held(k, t)
        BY <1>0, <1>1, <1>5 DEF LaneInv, Apart
      <3> QED
        BY <1>0, <1>2, <2>1, <2>5, <3>1 DEF LaneInv, Booked, Somewhere
    <2>9. Thready(k)'
      BY <1>0, <1>2 DEF LaneInv, Thready, InOpen
    <2>10. Joined(k)'
      BY <1>1, <1>2, <1>5 DEF Joined
    <2> QED
      BY <2>6, <2>7, <2>8, <2>9, <2>10 DEF LaneInv
  <1> QED
    BY <1>4, <1>5

\* A lane's step leaves the other lanes alone.
LEMMA LanesOther ==
    ASSUME Named, Inv, NEW l \in Lanes, Lane(l) \/ LaneCrashes(l), NEW k \in Lanes, k # l
    PROVE  LaneInv(k)'
  <1>0. Typed /\ LaneInv(k)
    BY DEF Inv, LaneInvs
  <1>1. UNCHANGED <<up, pending, inflight, busy>> /\ ran \subseteq ran' /\ crashed \subseteq crashed'
        /\ closed \subseteq closed' /\ (<<k, "out">> \in closed' => <<k, "out">> \in closed)
    BY DEF Lane, LaneStarts, LaneFinishes, LaneReplies, LaneReturns, LaneDiscards, LaneReports, LaneCrashes, books, Closes
  <1>2. inbox'[k] = inbox[k]
    BY <1>0 DEF Lane, LaneStarts, LaneFinishes, LaneReplies, LaneReturns, LaneDiscards, LaneReports, LaneCrashes,
       Typed, LanesOK
  <1>3. outbox'[k] = outbox[k]
    BY <1>0 DEF Lane, LaneStarts, LaneFinishes, LaneReplies, LaneReturns, LaneDiscards, LaneReports, LaneCrashes,
       Typed, LanesOK
  <1>4. thread'[k] = thread[k]
    BY <1>0 DEF Lane, LaneStarts, LaneFinishes, LaneReplies, LaneReturns, LaneDiscards, LaneReports, LaneCrashes,
       Typed, LanesOK
  <1> QED
    BY <1>0, <1>1, <1>2, <1>3, <1>4, LaneStays DEF Pushing

\* What a lane's step changes of itself.
LEMMA LaneSelf ==
    ASSUME Named, Inv, NEW l \in Lanes, Lane(l) \/ LaneCrashes(l)
    PROVE  /\ UNCHANGED <<up, pending, inflight, busy>>
           /\ Counted(l)' /\ Joined(l)'
           /\ \A t \in Tasks : Pushing(l, t)' <=> Pushing(l, t)
           /\ inbox[l] \in Seq(Tasks) /\ outbox[l] \in Seq(Answers) /\ thread[l].task \in Tasks \cup {None}
           /\ l \in DOMAIN inbox /\ l \in DOMAIN outbox /\ l \in DOMAIN thread
  <1>0. Typed /\ LaneInv(l)
    BY DEF Inv, LaneInvs
  <1>1. UNCHANGED <<up, pending, inflight, busy>> /\ crashed \subseteq crashed'
    BY DEF Lane, LaneStarts, LaneFinishes, LaneReplies, LaneReturns, LaneDiscards, LaneReports, LaneCrashes, books
  <1> QED
    BY <1>0, <1>1 DEF Typed, LanesOK, LaneInv, Counted, Joined, Pushing

\* A lane takes the next task of its inbox.
LEMMA LanesStart ==
    ASSUME Named, Inv, NEW l \in Lanes, LaneStarts(l)
    PROVE  LaneInv(l)'
  <1> DEFINE t == Head(inbox[l])
  <1>0. Typed /\ LaneInv(l) /\ Lane(l)
    BY DEF Inv, LaneInvs, Lane
  <1>1. /\ thread[l].at = "pop" /\ inbox[l] # <<>> /\ inbox' = [inbox EXCEPT ![l] = Tail(@)]
        /\ UNCHANGED <<outbox, closed, crashed>>
    BY DEF LaneStarts
  <1>2. t \in Tasks /\ t # None
    BY <1>0, <1>1, LaneSelf DEF Named
  <1>3. inbox'[l] = Tail(inbox[l])
    BY <1>0, <1>1, LaneSelf
  <1>4. \/ thread' = [thread EXCEPT ![l] = Thread("run", t, None)] /\ ran' = ran \cup {t}
        \/ thread' = [thread EXCEPT ![l] = Thread("answer", t, "cancelled")] /\ ran' = ran
    BY DEF LaneStarts
  <1>5. /\ thread'[l].task = t
        /\ \/ thread'[l].at = "run" /\ t \in ran'
           \/ thread'[l].at = "answer" /\ thread'[l].answer = "cancelled"
    BY <1>0, <1>4, LaneSelf DEF Thread
  <1>6. thread[l].task = None
    BY <1>0, <1>1 DEF LaneInv, Thready
  <1>7. /\ Distinct(inbox'[l]) /\ ~Contains(inbox'[l], t)
        /\ \A u : Contains(inbox[l], u) <=> Contains(inbox'[l], u) \/ u = t
    BY <1>0, <1>1, <1>3, LaneSelf, TailFacts DEF LaneInv, Apart
  <1> HIDE DEF t
  <1>8. \A u \in Tasks : /\ In(l, u)' <=> In(l, u) /\ u # t
                         /\ ~Held(l, u)
                         /\ Held(l, u)' <=> u = t
                         /\ Out(l, u)' <=> Out(l, u)
                         /\ Pushing(l, u)' <=> Pushing(l, u)
    BY <1>0, <1>1, <1>5, <1>6, <1>7, LaneSelf DEF In, Held, Out, Named
  <1>9. In(l, t)
    BY <1>2, <1>7 DEF In
  <1>10. Apart(l)'
    BY <1>0, <1>1, <1>2, <1>7, <1>8, <1>9 DEF LaneInv, Apart
  <1>11. Booked(l)'
    BY <1>0, <1>1, <1>8, <1>9, LaneSelf DEF LaneInv, Booked, Somewhere
  <1>12. Thready(l)'
    BY <1>0, <1>1, <1>2, <1>5 DEF LaneInv, Thready, Settled
  <1> QED
    BY <1>0, <1>10, <1>11, <1>12, LaneSelf DEF LaneInv

\* A task's function has ended.
LEMMA LanesFinish ==
    ASSUME Named, Inv, NEW l \in Lanes, LaneFinishes(l)
    PROVE  LaneInv(l)'
  <1>0. Typed /\ LaneInv(l) /\ Lane(l)
    BY DEF Inv, LaneInvs, Lane
  <1>1. thread[l].at = "run" /\ UNCHANGED <<inbox, outbox, closed, crashed, ran>>
    BY DEF LaneFinishes
  <1>2. PICK a \in Settled : thread' = [thread EXCEPT ![l] = Thread("answer", thread[l].task, a)]
    BY DEF LaneFinishes, Settled
  <1>3. thread'[l].task = thread[l].task /\ thread'[l].at = "answer" /\ thread'[l].answer \in Settled
    BY <1>0, <1>2, LaneSelf DEF Thread
  <1>4. \A u \in Tasks : /\ In(l, u)' <=> In(l, u)
                         /\ Held(l, u)' <=> Held(l, u)
                         /\ Out(l, u)' <=> Out(l, u)
                         /\ Pushing(l, u)' <=> Pushing(l, u)
    BY <1>0, <1>1, <1>3, LaneSelf DEF In, Held, Out
  <1>5. Apart(l)'
    BY <1>0, <1>1, <1>4 DEF LaneInv, Apart
  <1>6. Booked(l)'
    BY <1>0, <1>1, <1>4, LaneSelf DEF LaneInv, Booked, Somewhere
  <1>7. Thready(l)'
    BY <1>0, <1>1, <1>3 DEF LaneInv, Thready
  <1> QED
    BY <1>0, <1>5, <1>6, <1>7, LaneSelf DEF LaneInv

\* A lane sends its answer.
LEMMA LanesReply ==
    ASSUME Named, Inv, NEW l \in Lanes, LaneReplies(l)
    PROVE  LaneInv(l)'
  <1> DEFINE t == thread[l].task
             r == [task |-> t, answer |-> thread[l].answer]
  <1>0. Typed /\ LaneInv(l) /\ Lane(l)
    BY DEF Inv, LaneInvs, Lane
  <1>1. /\ thread[l].at = "answer" /\ outbox' = [outbox EXCEPT ![l] = Append(@, r)]
        /\ thread' = [thread EXCEPT ![l] = Thread("pop", None, None)]
        /\ UNCHANGED <<inbox, closed, crashed, ran>>
    BY DEF LaneReplies
  <1>2. t \in Tasks /\ thread[l].answer \in Settled /\ t # None /\ Held(l, t)
    BY <1>0, <1>1, LaneSelf DEF LaneInv, Thready, Held
  <1>3. r \in Answers /\ r.task = t
    BY <1>2 DEF Answers
  <1>4. outbox'[l] = Append(outbox[l], r) /\ thread'[l].task = None /\ thread'[l].at = "pop"
    BY <1>0, <1>1, LaneSelf DEF Thread
  <1>5. /\ TasksOf(outbox[l]) \in Seq(Tasks) /\ TasksOf(outbox'[l]) = Append(TasksOf(outbox[l]), t)
    BY <1>0, <1>3, <1>4, LaneSelf, TasksOfFacts
  <1>6. Distinct(TasksOf(outbox[l])) /\ ~Contains(TasksOf(outbox[l]), t)
    BY <1>0, <1>2 DEF LaneInv, Apart, Out
  <1>7. /\ Distinct(TasksOf(outbox'[l]))
        /\ \A u : Contains(TasksOf(outbox'[l]), u) <=> Contains(TasksOf(outbox[l]), u) \/ u = t
    BY <1>2, <1>5, <1>6, AppendFacts
  <1>8. \A u \in Tasks : Held(l, u) <=> u = t
    BY DEF Held
  <1> HIDE DEF t, r
  <1>9. \A u \in Tasks : /\ In(l, u)' <=> In(l, u)
                         /\ ~Held(l, u)'
                         /\ Out(l, u)' <=> Out(l, u) \/ u = t
                         /\ Pushing(l, u)' <=> Pushing(l, u)
    BY <1>0, <1>1, <1>4, <1>7, LaneSelf DEF In, Held, Out, Named
  <1>10. Apart(l)'
    BY <1>0, <1>1, <1>2, <1>7, <1>8, <1>9 DEF LaneInv, Apart
  <1>11. Booked(l)'
    BY <1>0, <1>1, <1>8, <1>9, LaneSelf DEF LaneInv, Booked, Somewhere
  <1>12. Thready(l)'
    BY <1>0, <1>1, <1>4 DEF LaneInv, Thready
  <1> QED
    BY <1>0, <1>10, <1>11, <1>12, LaneSelf DEF LaneInv

\* A lane stops, discards its inbox and reports its end.
LEMMA LanesStop ==
    ASSUME Named, Inv, NEW l \in Lanes, LaneReturns(l) \/ LaneDiscards(l) \/ LaneReports(l)
    PROVE  LaneInv(l)'
  <1>0. Typed /\ LaneInv(l) /\ Lane(l)
    BY DEF Inv, LaneInvs, Lane
  <1>1. thread[l].at \in {"pop", "stopped", "discarded"} /\ UNCHANGED <<outbox, crashed, ran>>
    BY DEF LaneReturns, LaneDiscards, LaneReports
  <1>2. thread[l].task = None
    BY <1>0, <1>1 DEF LaneInv, Thready
  <1>3. thread[l] \in [at : Places, task : Tasks \cup {None}, answer : Settled \cup {None}]
    BY <1>0 DEF Typed, LanesOK
  <1>4. /\ LaneReturns(l) => thread'[l].at = "stopped" /\ thread'[l].task = None
        /\ LaneDiscards(l) => thread'[l].at = "discarded" /\ thread'[l].task = None
        /\ LaneReports(l) => thread'[l].at = "reported" /\ thread'[l].task = None
    BY <1>0, <1>2, <1>3, LaneSelf DEF LaneReturns, LaneDiscards, LaneReports, Thread
  <1>5. /\ LaneReturns(l) => inbox'[l] = inbox[l] /\ inbox[l] = <<>> /\ ~InOpen(l) /\ closed' = closed
        /\ LaneDiscards(l) => inbox'[l] = <<>> /\ closed' = closed \cup {<<l, "in">>} /\ thread[l].at = "stopped"
        /\ LaneReports(l) => inbox'[l] = inbox[l] /\ closed' = closed \cup {<<l, "out">>} /\ thread[l].at = "discarded"
    BY <1>0, LaneSelf DEF LaneReturns, LaneDiscards, LaneReports, Closes
  <1>6. /\ \A u \in Tasks : /\ ~Held(l, u)' /\ ~Held(l, u)
                            /\ Out(l, u)' <=> Out(l, u)
                            /\ Pushing(l, u)' <=> Pushing(l, u)
    BY <1>0, <1>1, <1>2, <1>4, LaneSelf DEF Held, Out, Named
  <1>7. inbox'[l] = inbox[l] \/ (inbox'[l] = <<>> /\ l \in crashed)
    BY <1>0, <1>5 DEF LaneInv, Thready
  <1>8. Distinct(inbox'[l]) /\ \A u : Contains(inbox'[l], u) => Contains(inbox[l], u)
    <2>1. Distinct(inbox[l])
      BY <1>0 DEF LaneInv, Apart
    <2>2. Len(<<>>) = 0
      OBVIOUS
    <2> QED
      BY <1>7, <2>1, <2>2 DEF Distinct, Contains
  <1>9. \A u \in Tasks : /\ In(l, u)' => In(l, u)
                         /\ l \notin crashed /\ In(l, u) => In(l, u)'
    BY <1>7, <1>8 DEF In
  <1>10. Apart(l)'
    BY <1>0, <1>1, <1>6, <1>8, <1>9 DEF LaneInv, Apart
  <1>11. Booked(l)'
    BY <1>0, <1>1, <1>6, <1>9, LaneSelf DEF LaneInv, Booked, Somewhere
  <1>12. Thready(l)'
    BY <1>0, <1>1, <1>4, <1>5 DEF LaneInv, Thready, InOpen
  <1> QED
    BY <1>0, <1>10, <1>11, <1>12, LaneSelf DEF LaneInv

\* A lane ends early, with the task it has.
LEMMA LanesCrash ==
    ASSUME Named, Inv, NEW l \in Lanes, LaneCrashes(l)
    PROVE  LaneInv(l)'
  <1>0. Typed /\ LaneInv(l)
    BY DEF Inv, LaneInvs
  <1>1. /\ l \in crashed' /\ UNCHANGED <<outbox, closed, ran>> /\ thread[l].at \in {"run", "pop"}
        /\ thread' = [thread EXCEPT ![l] = Thread("stopped", None, None)]
    BY DEF LaneCrashes
  <1>2. thread'[l].at = "stopped" /\ thread'[l].task = None
    BY <1>0, <1>1, LaneSelf DEF Thread
  <1>3. inbox'[l] = inbox[l] \/ (inbox[l] # <<>> /\ inbox'[l] = Tail(inbox[l]))
    BY <1>0, LaneSelf DEF LaneCrashes
  <1>4. Distinct(inbox'[l]) /\ \A u : Contains(inbox'[l], u) => Contains(inbox[l], u)
    BY <1>0, <1>3, LaneSelf, TailFacts DEF LaneInv, Apart
  <1>5. \A u \in Tasks : /\ In(l, u)' => In(l, u)
                         /\ ~Held(l, u)'
                         /\ Out(l, u)' <=> Out(l, u)
                         /\ Pushing(l, u)' <=> Pushing(l, u)
    BY <1>1, <1>2, <1>4, LaneSelf DEF In, Held, Out, Named
  <1>6. Apart(l)'
    BY <1>0, <1>1, <1>4, <1>5 DEF LaneInv, Apart
  <1>7. Booked(l)'
    BY <1>0, <1>1, <1>5, LaneSelf DEF LaneInv, Booked, Somewhere
  <1>8. Thready(l)'
    BY <1>0, <1>1, <1>2 DEF LaneInv, Thready
  <1> QED
    BY <1>6, <1>7, <1>8, LaneSelf DEF LaneInv

\* Every step keeps every lane's books.
LEMMA LanesStep ==
    ASSUME Named, Inv, [Next]_vars
    PROVE  LaneInvs'
  <1> SUFFICES ASSUME NEW k \in Lanes PROVE LaneInv(k)'
    BY DEF LaneInvs
  <1>1. CASE Calm \/ CancelEnds \/ UNCHANGED vars
    BY <1>1, LanesCalm
  <1>2. CASE PollRetires \/ \E f \in Fibers : Joins(f)
    BY <1>2, LanesJoined
  <1>3. CASE JoinEnds
    BY <1>3, LanesJoinEnds
  <1>4. CASE \E t \in Tasks : Admit(t)
    BY <1>4, LanesAdmit
  <1>5. CASE Push
    BY <1>5, LanesPush
  <1>6. CASE PushRefused
    BY <1>6, LanesPushRefused
  <1>7. CASE \E l \in Lanes : Routes(l)
    BY <1>7, LanesRoute
  <1>8. CASE \E l \in Lanes : Lane(l) \/ LaneCrashes(l)
    BY <1>8, LanesOther, LanesStart, LanesFinish, LanesReply, LanesStop, LanesCrash DEF Lane
  <1> QED
    BY <1>1, <1>2, <1>3, <1>4, <1>5, <1>6, <1>7, <1>8, Steps

-----------------------------------------------------------------------------
(* Tasks *)

\* A coroutine moves only for a task that is known.
LEMMA CalmMoves ==
    ASSUME Named, Inv, Calm, NEW t \in Tasks, state[t] = "new"
    PROVE  at'[t] = at[t] /\ (t \in observed' => t \in observed)
  <1>0. Typed /\ TaskInv(t) /\ at[t] = "no" /\ at \in [Fibers -> Wheres] /\ t \in Fibers /\ t # "close"
    BY DEF Inv, TaskInvs, TaskInv, Typed, FibersOK, Fibers, Named
  <1>1. CASE \E u \in Tasks : Await(u)
    BY <1>0, <1>1 DEF Await, Settled
  <1>2. CASE \E u \in Tasks : Abandon(u)
    <2> PICK u \in Tasks : Abandon(u)
      BY <1>2
    <2>1. at[u] \in Waiting
      BY DEF Abandon, Inv, FiberInvs, FiberInv, Fibers
    <2> QED
      BY <1>0, <2>1 DEF Abandon, Waiting
  <1>3. CASE IsdoneEnds
    <2>1. at[busy.who] = "isdone"
      BY <1>3 DEF IsdoneEnds, Inv, BusyInv
    <2> QED
      BY <1>0, <1>3, <2>1 DEF IsdoneEnds
  <1>4. CASE CloseSettles
    <2>1. Head(todo) # t
      <3>1. todo # <<>> /\ todo \in Seq(Tasks)
        BY <1>4, <1>0 DEF CloseSettles, Typed, FibersOK
      <3>2. Contains(todo, Head(todo))
        BY <3>1 DEF Contains
      <3> QED
        BY <3>2 DEF Inv, ListInv
    <2> QED
      BY <1>0, <1>4, <2>1 DEF CloseSettles
  <1>5. CASE \E f \in Fibers : ReplyCame(f) \/ LaneGone(f) \/ Parks(f) \/ Returns(f)
    BY <1>0, <1>5 DEF ReplyCame, LaneGone, Parks, Returns, Looks
  <1>6. CASE Close \/ CloseFrees \/ CloseJoins
    BY <1>0, <1>6 DEF Close, CloseFrees, CloseJoins
  <1>7. CASE (\E u \in Tasks : Submit(u) \/ AdmitRefused(u) \/ Cancel(u)) \/ PollStarts \/ PollWakes
    BY <1>7 DEF Submit, AdmitRefused, Cancel, PollStarts, PollWakes
  <1> QED
    BY <1>1, <1>2, <1>3, <1>4, <1>5, <1>6, <1>7 DEF Calm

\* What a coroutine takes, or closing frees, was a result.
LEMMA CalmStorage ==
    ASSUME Named, Inv, Calm, NEW t \in Tasks
    PROVE  /\ storage'[t] # None => storage[t] # None
           /\ storage'[t] = "result" => storage[t] = "result"
           /\ ~((\E f \in Fibers : Returns(f)) \/ CloseFrees) => storage' = storage
  <1>0. Typed /\ storage \in [Tasks -> {None, "result", "taken", "freed"}]
    BY DEF Inv, Typed, LanesOK
  <1>1. CASE (\E f \in Fibers : Returns(f)) \/ CloseFrees
    <2>1. PICK u \in Tasks :
             storage' = storage \/ (storage[u] = "result" /\ \E how \in {"taken", "freed"} : storage' = [storage EXCEPT ![u] = how])
      <3>1. CASE \E f \in Fibers : Returns(f)
        BY <3>1 DEF Returns, Taken
      <3>2. CASE CloseFrees
        BY <1>0, <3>2, TodoFacts DEF CloseFrees
      <3> QED
        BY <1>1, <3>1, <3>2
    <2> QED
      BY <1>0, <1>1, <2>1 DEF None
  <1>3. CASE storage' = storage
    BY <1>3
  <1> QED
    BY <1>1, <1>3 DEF Calm, Submit, AdmitRefused, Await, Cancel, Abandon, IsdoneEnds, PollStarts, PollWakes, Close,
       CloseSettles, CloseJoins, ReplyCame, LaneGone, Parks

\* Every step keeps what is known of every task.
LEMMA TasksStep ==
    ASSUME Named, Inv, [Next]_vars, NEW t \in Tasks
    PROVE  TaskInv(t)'
  <1>0. Typed /\ TaskInv(t) /\ BooksOK /\ storage \in [Tasks -> {None, "result", "taken", "freed"}] /\ t # None
        /\ None \notin Lanes
    BY DEF Inv, TaskInvs, Typed, LanesOK, Named, Lanes
  <1>1. CASE Calm
    <2>1. UNCHANGED <<up, on, pending, status, state, ran>>
      BY <1>1, CalmFacts DEF core
    <2>2. storage'[t] # None => storage[t] # None
      BY <1>1, CalmStorage
    <2>3. state[t] = "new" => at'[t] = at[t] /\ (t \in observed' => t \in observed)
      BY <1>1, CalmMoves
    <2> QED
      BY <1>0, <2>1, <2>2, <2>3 DEF TaskInv
  <1>2. CASE \/ Push \/ PollRetires \/ (\E f \in Fibers : Joins(f)) \/ JoinEnds \/ UNCHANGED vars
             \/ \E l \in Lanes : LaneReplies(l) \/ LaneReturns(l) \/ LaneDiscards(l) \/ LaneReports(l) \/ LaneCrashes(l)
    <2>1. UNCHANGED <<on, pending, status, state, ran, at, observed, storage>>
      BY <1>2 DEF Push, PollRetires, Joins, JoinEnds, vars, books, laneVars, LaneReplies, LaneReturns, LaneDiscards,
         LaneReports, LaneCrashes
    <2> QED
      BY <1>0, <2>1 DEF TaskInv
  <1>3. CASE PushRefused
    <2>1. /\ busy.does = "push" /\ busy.who \in Tasks /\ busy.lane \in Lanes /\ on[busy.who] = busy.lane
          /\ pending' = [pending EXCEPT ![busy.lane] = @ \ {busy.who}]
          /\ status' = [status EXCEPT ![busy.who] = None] /\ state' = [state EXCEPT ![busy.who] = "refused"]
          /\ UNCHANGED <<up, on, ran, at, observed, storage>>
      BY <1>3 DEF PushRefused, Inv, BusyInv, laneVars
    <2>2. CASE t = busy.who
      <3>1. state'[t] = "refused" /\ status'[t] = None /\ on'[t] \in Lanes
        BY <1>0, <2>1, <2>2 DEF BooksOK
      <3>2. \A l \in Lanes : t \notin pending'[l]
        BY <1>0, <2>1, <2>2 DEF BooksOK, TaskInv
      <3> QED
        BY <1>0, <2>1, <3>1, <3>2 DEF TaskInv, None
    <2>3. CASE t # busy.who
      <3>1. state'[t] = state[t] /\ status'[t] = status[t] /\ \A l \in Lanes : t \in pending'[l] <=> t \in pending[l]
        BY <1>0, <2>1, <2>3 DEF BooksOK
      <3> QED
        BY <1>0, <2>1, <3>1 DEF TaskInv
    <2> QED
      BY <2>2, <2>3
  <1>4. CASE CancelEnds
    <2>1. /\ busy.who \in Tasks /\ UNCHANGED <<up, on, pending, ran, at, observed, storage>>
          /\ state[busy.who] # "new"
          /\ state' = IF TakenBack(busy.who) THEN [state EXCEPT ![busy.who] = "cancelled"] ELSE state
          /\ status' = [status EXCEPT ![busy.who] = IF TakenBack(busy.who) THEN "cancelled"
                                     ELSE IF state[busy.who] = "queued" /\ @ = "running" THEN "requested" ELSE @]
      BY <1>4 DEF CancelEnds, Inv, BusyInv, laneVars
    <2>2. CASE t # busy.who
      <3>1. state'[t] = state[t] /\ status'[t] = status[t]
        BY <1>0, <2>1, <2>2 DEF BooksOK
      <3> QED
        BY <1>0, <2>1, <3>1 DEF TaskInv
    <2>3. CASE t = busy.who /\ TakenBack(t)
      <3>1. state[t] = "queued" /\ status[t] = "queued" /\ state'[t] = "cancelled" /\ status'[t] = "cancelled"
        BY <1>0, <2>1, <2>3 DEF BooksOK, TakenBack
      <3> QED
        BY <1>0, <2>1, <3>1 DEF TaskInv
    <2>4. CASE t = busy.who /\ ~TakenBack(t)
      <3>1. state'[t] = state[t] /\ (status'[t] = status[t] \/ status'[t] = "requested")
        BY <1>0, <2>1, <2>4 DEF BooksOK
      <3> QED
        BY <1>0, <2>1, <3>1 DEF TaskInv
    <2> QED
      BY <2>2, <2>3, <2>4
  <1>5. CASE \E u \in Tasks : Admit(u)
    <2> PICK u \in Tasks, l \in Lanes :
           /\ Admits(u, l) /\ on' = [on EXCEPT ![u] = l] /\ pending' = [pending EXCEPT ![l] = @ \cup {u}]
           /\ status' = [status EXCEPT ![u] = "queued"] /\ state' = [state EXCEPT ![u] = "queued"]
           /\ busy = Doing("admit", u, None, {}) /\ UNCHANGED <<ran, at, observed, storage>>
      BY <1>5 DEF Admit, laneVars
    <2>1. state[u] = "new" /\ TaskInv(u)
      <3>1. busy.does = "admit" /\ busy.who = u /\ u # None
        BY DEF Doing, Named
      <3> QED
        BY <3>1 DEF Inv, BusyInv, Submitting, TaskInvs
    <2>2. CASE t # u
      <3>1. state'[t] = state[t] /\ status'[t] = status[t] /\ on'[t] = on[t]
            /\ \A k \in Lanes : t \in pending'[k] <=> t \in pending[k]
        BY <1>0, <2>2 DEF BooksOK
      <3> QED
        BY <1>0, <3>1 DEF TaskInv
    <2>3. CASE t = u
      <3>1. state'[t] = "queued" /\ on'[t] = l /\ t \in pending'[l] /\ \A k \in Lanes : t \in pending'[k] => k = l
        <4>1. \A k \in Lanes : t \notin pending[k]
          BY <2>1, <2>3 DEF TaskInv
        <4> QED
          BY <1>0, <2>3, <4>1 DEF BooksOK
      <3>2. t \in Dedicated => l = t
        BY <2>3 DEF Admits
      <3>3. t \notin Dedicated => l \in Pooled
        BY <2>3 DEF Admits
      <3>4. t \notin ran
        BY <2>1, <2>3 DEF TaskInv
      <3> QED
        BY <1>0, <3>1, <3>2, <3>3, <3>4 DEF TaskInv
    <2> QED
      BY <2>2, <2>3
  <1>6. CASE \E l \in Lanes : Routes(l)
    <2> PICK l \in Lanes : Routes(l)
      BY <1>6
    <2> DEFINE u == Head(outbox[l]).task
               a == Head(outbox[l]).answer
    <2>1. u \in Tasks /\ a \in Settled /\ u \in pending[l] /\ on[u] = l /\ state[u] \in {"queued", "cancelled"}
      BY RouteFacts
    <2>2. /\ pending' = [pending EXCEPT ![l] = @ \ {u}] /\ status' = [status EXCEPT ![u] = None]
          /\ state' = [state EXCEPT ![u] = IF @ = "cancelled" THEN @ ELSE a]
          /\ UNCHANGED <<up, on, ran, at, observed, storage>>
      BY DEF Routes, Route, laneVars
    <2> HIDE DEF u, a
    <2>3. CASE t # u
      <3>1. state'[t] = state[t] /\ status'[t] = status[t] /\ \A k \in Lanes : t \in pending'[k] <=> t \in pending[k]
        BY <1>0, <2>2, <2>3 DEF BooksOK
      <3> QED
        BY <1>0, <2>2, <3>1 DEF TaskInv
    <2>4. CASE t = u
      <3>1. state'[t] \in Settled /\ status'[t] = None
        BY <1>0, <2>1, <2>2, <2>4 DEF BooksOK, Settled
      <3>2. \A k \in Lanes : t \notin pending'[k]
        BY <1>0, <2>1, <2>2, <2>4 DEF BooksOK, TaskInv
      <3> QED
        BY <1>0, <2>1, <2>2, <2>4, <3>1, <3>2 DEF TaskInv, Settled, None
    <2> QED
      BY <2>3, <2>4
  <1>7. CASE \E l \in Lanes : LaneStarts(l)
    <2> PICK l \in Lanes : LaneStarts(l)
      BY <1>7
    <2> DEFINE u == Head(inbox[l])
    <2>1. u \in Tasks /\ In(l, u)
      <3>1. inbox[l] \in Seq(Tasks) /\ inbox[l] # <<>>
        BY <1>0 DEF LaneStarts, Typed, LanesOK
      <3> QED
        BY <3>1 DEF In, Contains
    <2>2. u \in pending[l]
      BY <2>1 DEF Inv, LaneInvs, LaneInv, Booked, Somewhere
    <2>3. /\ UNCHANGED <<up, on, pending, state, at, observed, storage>>
          /\ \/ status[u] = "queued" /\ status' = [status EXCEPT ![u] = "running"] /\ ran' = ran \cup {u}
             \/ status' = [status EXCEPT ![u] = "done"] /\ ran' = ran
      BY DEF LaneStarts, Starts
    <2> HIDE DEF u
    <2>4. CASE t # u
      <3>1. status'[t] = status[t] /\ (t \in ran' <=> t \in ran)
        BY <1>0, <2>3, <2>4 DEF BooksOK
      <3> QED
        BY <1>0, <2>3, <3>1 DEF TaskInv
    <2>5. CASE t = u
      <3>1. state[t] \in {"queued", "cancelled"}
        BY <1>0, <2>2, <2>5 DEF TaskInv
      <3>2. /\ status'[t] \in {"running", "done"} /\ ran \subseteq ran'
            /\ t \in ran' => t \in ran \/ state[t] = "queued"
        BY <1>0, <2>3, <2>5 DEF BooksOK, TaskInv
      <3> QED
        BY <1>0, <2>3, <3>1, <3>2 DEF TaskInv
    <2> QED
      BY <2>4, <2>5
  <1>8. CASE \E l \in Lanes : LaneFinishes(l)
    <2> PICK l \in Lanes : LaneFinishes(l)
      BY <1>8
    <2> DEFINE u == thread[l].task
    <2>1. thread[l].at = "run" /\ u \in Tasks /\ u \in ran
      BY <1>0 DEF LaneFinishes, Inv, LaneInvs, LaneInv, Thready, Typed, LanesOK
    <2>2. /\ UNCHANGED <<up, on, pending, state, at, observed, ran>> /\ status' = [status EXCEPT ![u] = "done"]
          /\ (storage' = storage \/ (u \in Moving /\ storage' = [storage EXCEPT ![u] = "result"]))
      BY DEF LaneFinishes
    <2> HIDE DEF u
    <2>3. /\ status'[t] # "queued" \/ status'[t] = status[t]
          /\ storage'[t] = storage[t] \/ (t = u /\ u \in Moving)
      BY <1>0, <2>1, <2>2 DEF BooksOK
    <2> QED
      BY <1>0, <2>1, <2>2, <2>3 DEF TaskInv
  <1> QED
    BY <1>1, <1>2, <1>3, <1>4, <1>5, <1>6, <1>7, <1>8, Steps DEF Lane

-----------------------------------------------------------------------------
(* What the parent is in the middle of *)

\* Nothing.
LEMMA IdleIsBusyInv ==
    ASSUME busy' = Idle
    PROVE  BusyInv'
  BY DEF BusyInv, Submitting, Idle, Doing

\* The rest of a poll.
LEMMA PollingIsBusyInv ==
    ASSUME Named, NEW w \in Tasks \cup {None}, NEW L \in SUBSET Lanes, busy' = Polling(w, L),
           w # None => state'[w] = "new" /\ at'["close"] = "no"
    PROVE  BusyInv'
  <1>1. /\ busy'.does \in {"nothing", "admit", "poll"} /\ (busy'.does = "nothing" => busy' = Idle)
        /\ busy'.does = "admit" => w # None
        /\ busy'.does # "nothing" => busy'.who = w
    BY PollingFacts
  <1> QED
    BY <1>1 DEF BusyInv, Submitting

\* Every step keeps what is known of what the parent is doing.
LEMMA BusyStep ==
    ASSUME Named, Inv, [Next]_vars
    PROVE  BusyInv'
  <1>0. /\ Typed /\ BusyInv /\ BooksOK /\ busy.left \subseteq Lanes /\ at \in [Fibers -> Wheres] /\ "close" \in Fibers
        /\ Tasks \subseteq Fibers /\ Started \subseteq Lanes
    BY DEF Inv, Typed, FibersOK, Fibers, Started
  <1>1. CASE UNCHANGED vars
    BY <1>0, <1>1 DEF BusyInv, Submitting, vars, books
  <1>2. CASE Calm
    <2>1. CASE busy' = Idle
      BY <2>1, IdleIsBusyInv
    <2>2. CASE \E t \in Tasks : Submit(t)
      <3> PICK t \in Tasks : Submit(t)
        BY <2>2
      <3>1. busy' = Polling(t, IF t \in Dedicated THEN Started ELSE {}) /\ state'[t] = "new" /\ at'["close"] = "no"
        BY DEF Submit, books
      <3> QED
        BY <1>0, <3>1, PollingIsBusyInv
    <2>3. CASE PollStarts
      BY <1>0, <2>3, PollingIsBusyInv DEF PollStarts
    <2>4. CASE \E t \in Tasks : Await(t) \/ Cancel(t)
      <3> PICK t \in Tasks : Await(t) \/ Cancel(t)
        BY <2>4
      <3>1. state[t] = "queued" => on[t] \in Lanes
        BY DEF Inv, TaskInvs, TaskInv
      <3>2. CASE Await(t) /\ state[t] = "queued"
        <4>1. busy' = Doing("isdone", t, on[t], {}) /\ at'[t] = "isdone"
          BY <1>0, <3>2 DEF Await
        <4> QED
          BY <1>0, <3>1, <3>2, <4>1 DEF BusyInv, Submitting, Doing
      <3>3. CASE Cancel(t)
        <4>1. busy' = Doing("cancel", t, on[t], {}) /\ state'[t] = "queued"
          BY <3>3 DEF Cancel, books
        <4> QED
          BY <3>1, <3>3, <4>1 DEF BusyInv, Submitting, Doing, Cancel
      <3> QED
        BY <2>1, <3>2, <3>3 DEF Await
    <2>5. CASE PollWakes
      <3> PICK l \in busy.left : busy' = Doing("retire", busy.who, l, busy.left \ {l})
        BY <2>5 DEF PollWakes
      <3>1. busy.does = "poll" /\ UNCHANGED <<state, at>> /\ l \in Lanes
        BY <1>0, <2>5 DEF PollWakes, books
      <3> QED
        BY <1>0, <3>1 DEF BusyInv, Submitting, Doing
    <2>6. CASE CloseSettles
      <3>1. Head(todo) \in Tasks
        BY <1>0, <2>6, TodoFacts DEF CloseSettles
      <3>2. CASE state[Head(todo)] = "queued"
        <4>1. busy' = Doing("isdone", "close", on[Head(todo)], {}) /\ at'["close"] = "isdone"
          BY <1>0, <2>6, <3>2 DEF CloseSettles
        <4>2. on[Head(todo)] \in Lanes
          BY <3>1, <3>2 DEF Inv, TaskInvs, TaskInv
        <4> QED
          BY <1>0, <4>1, <4>2 DEF BusyInv, Submitting, Doing
      <3> QED
        BY <2>1, <2>6, <3>2 DEF CloseSettles
    <2> QED
      BY <1>2, <2>1, <2>2, <2>3, <2>4, <2>5, <2>6 DEF Calm, AdmitRefused, Abandon, IsdoneEnds, Close, CloseFrees,
         CloseJoins, ReplyCame, LaneGone, Parks, Returns, Looks, Free
  <1>3. CASE Push \/ CancelEnds
    BY <1>3, IdleIsBusyInv DEF Push, CancelEnds
  <1>4. CASE PushRefused \/ \E f \in Fibers : Joins(f)
    <2>1. busy' = Idle \/ \E l \in Lanes : busy' = Doing("join", None, l, {})
      BY <1>4 DEF PushRefused, Joins, Unended, Owned, Lanes
    <2>2. CASE \E l \in Lanes : busy' = Doing("join", None, l, {})
      BY <2>2 DEF BusyInv, Submitting, Doing
    <2> QED
      BY <2>1, <2>2, IdleIsBusyInv
  <1>5. CASE PollRetires \/ JoinEnds
    <2>1. /\ busy.does \in {"retire", "join"} /\ busy.lane \in Lanes /\ UNCHANGED <<state, at>>
      BY <1>0, <1>5 DEF PollRetires, JoinEnds, BusyInv, books
    <2>2. busy.who \in Tasks \cup {None} /\ (busy.who # None => state'[busy.who] = "new" /\ at'["close"] = "no")
      BY <1>0, <2>1 DEF BusyInv, Submitting
    <2>3. CASE busy' = Polling(busy.who, busy.left)
      BY <1>0, <2>2, <2>3, PollingIsBusyInv
    <2>4. CASE busy' = Doing("join", busy.who, busy.lane, busy.left)
      BY <1>0, <2>1, <2>2, <2>4 DEF BusyInv, Submitting, Doing
    <2> QED
      BY <1>5, <2>3, <2>4 DEF PollRetires, JoinEnds
  <1>6. CASE \E t \in Tasks : Admit(t)
    <2> PICK t \in Tasks, l \in Lanes :
           /\ on' = [on EXCEPT ![t] = l] /\ status' = [status EXCEPT ![t] = "queued"]
           /\ busy = Doing("admit", t, None, {}) /\ busy' = Doing("push", t, l, {}) /\ UNCHANGED <<at, observed, list>>
      BY <1>6 DEF Admit
    <2>1. busy.does = "admit" /\ busy.who = t /\ t # None
      BY DEF Doing, Named
    <2>2. state[t] = "new" /\ at["close"] = "no"
      BY <1>0, <2>1 DEF BusyInv, Submitting
    <2>3. at[t] = "no" /\ t \notin observed /\ ~Contains(list, t)
      BY <2>2 DEF Inv, TaskInvs, TaskInv, ListInv
    <2>4. busy'.does = "push" /\ busy'.who = t /\ busy'.lane = l /\ on'[t] = l /\ status'[t] = "queued"
      BY <1>0 DEF Doing, BooksOK
    <2> QED
      BY <1>0, <2>2, <2>3, <2>4 DEF BusyInv, Submitting
  <1>7. CASE \E l \in Lanes : Routes(l)
    <2> PICK l \in Lanes : Routes(l)
      BY <1>7
    <2> DEFINE u == Head(outbox[l]).task
               a == Head(outbox[l]).answer
    <2>1. u \in Tasks /\ a \in Settled /\ state[u] \in {"queued", "cancelled"}
      BY RouteFacts
    <2>2. state' = [state EXCEPT ![u] = IF @ = "cancelled" THEN @ ELSE a] /\ UNCHANGED <<on, at, observed, busy>>
          /\ busy.does # "push"
      BY DEF Routes, Route
    <2> HIDE DEF u, a
    <2>3. \A t \in Tasks : state'[t] = "new" <=> state[t] = "new"
      BY <1>0, <2>1, <2>2 DEF BooksOK, Settled
    <2> QED
      BY <1>0, <2>2, <2>3 DEF BusyInv, Submitting
  <1>8. CASE \E l \in Lanes : Lane(l) \/ LaneCrashes(l)
    <2> PICK l \in Lanes : Lane(l) \/ LaneCrashes(l)
      BY <1>8
    <2>1. UNCHANGED <<on, state, at, observed, busy, list>>
      BY DEF Lane, LaneStarts, LaneFinishes, LaneReplies, LaneReturns, LaneDiscards, LaneReports, LaneCrashes, books
    <2>2. ASSUME busy.does = "push" PROVE status'[busy.who] = status[busy.who]
      <3>1. busy.who \in Tasks /\ on[busy.who] = busy.lane /\ busy.lane \in Lanes
        BY <1>0, <2>2 DEF BusyInv
      <3>2. CASE LaneStarts(l)
        <4>1. inbox[l] \in Seq(Tasks) /\ inbox[l] # <<>>
          BY <1>0, <3>2 DEF LaneStarts, Typed, LanesOK
        <4>2. Head(inbox[l]) \in Tasks /\ In(l, Head(inbox[l]))
          BY <4>1 DEF In, Contains
        <4>3. Head(inbox[l]) \in pending[l] /\ ~Pushing(l, Head(inbox[l]))
          BY <4>2 DEF Inv, LaneInvs, LaneInv, Booked, Somewhere, Apart
        <4>4. on[Head(inbox[l])] = l
          BY <4>2, <4>3 DEF Inv, TaskInvs, TaskInv
        <4>5. Head(inbox[l]) # busy.who
          BY <2>2, <3>1, <4>3, <4>4 DEF Pushing
        <4>6. \E s : status' = [status EXCEPT ![Head(inbox[l])] = s]
          BY <3>2 DEF LaneStarts
        <4> QED
          BY <1>0, <3>1, <4>5, <4>6 DEF BooksOK
      <3>3. CASE LaneFinishes(l)
        <4>1. thread[l].task \in Tasks /\ Held(l, thread[l].task)
          BY <1>0, <3>3 DEF LaneFinishes, Typed, LanesOK, Inv, LaneInvs, LaneInv, Thready, Held
        <4>2. thread[l].task \in pending[l] /\ ~Pushing(l, thread[l].task)
          BY <4>1 DEF Inv, LaneInvs, LaneInv, Booked, Somewhere, Apart
        <4>3. on[thread[l].task] = l
          BY <4>1, <4>2 DEF Inv, TaskInvs, TaskInv
        <4>4. thread[l].task # busy.who
          BY <2>2, <3>1, <4>2, <4>3 DEF Pushing
        <4> QED
          BY <1>0, <3>1, <3>3, <4>4 DEF LaneFinishes, BooksOK
      <3> QED
        BY <3>2, <3>3 DEF Lane, LaneReplies, LaneReturns, LaneDiscards, LaneReports, LaneCrashes, books
    <2> QED
      BY <1>0, <2>1, <2>2 DEF BusyInv, Submitting
  <1> QED
    BY <1>1, <1>2, <1>3, <1>4, <1>5, <1>6, <1>7, <1>8, Steps

-----------------------------------------------------------------------------
(* Coroutines *)

\* Nobody is in isdone unless the parent is.
LEMMA NobodyInIsdone ==
    ASSUME Inv, NEW f \in Fibers, at[f] = "isdone"
    PROVE  busy.does = "isdone" /\ busy.who = f
  BY DEF Inv, FiberInvs, FiberInv

\* A coroutine a step leaves where it is.
LEMMA FiberStays ==
    ASSUME Named, NEW f \in Fibers, FiberInv(f), UNCHANGED core, at'[f] = at[f], Target(f)' = Target(f),
           f \in waiters' => f \in waiters,
           at[f] = "isdone" => busy'.does = "isdone" /\ busy'.who = f,
           f \in Tasks /\ at'["close"] # "no" => at["close"] # "no" \/ at[f] \notin {"isdone", "reply", "end"}
    PROVE  FiberInv(f)'
  <1>1. Known(Target(f)) => Known(Target(f))'
    BY DEF Known, core
  <1>2. Known(Target(f)) /\ Ended(on[Target(f)]) => Ended(on[Target(f)])'
    BY DEF Ended, core
  <1>3. ~Ready(Target(f)) => (~Ready(Target(f)))'
    BY DEF Ready, core
  <1>4. UNCHANGED state
    BY DEF core
  <1> QED
    BY <1>1, <1>2, <1>3, <1>4 DEF FiberInv

\* A coroutine a step moves: where it goes, and what it has been waiting for.
LEMMA FiberMoves ==
    ASSUME Named, NEW f \in Fibers, UNCHANGED core, f \notin waiters', f = "close" \/ at'["close"] = at["close"],
           \/ at'[f] = "isdone" /\ busy'.does = "isdone" /\ busy'.who = f /\ Known(Target(f)')
           \/ at'[f] = "reply" /\ Known(Target(f)')
           \/ at'[f] = "end" /\ (Target(f)' \in Tasks => state[Target(f)'] \in Settled)
           \/ at'[f] = "returned" /\ (f \in Tasks => state[f] \in Settled)
           \/ at'[f] = "raised" /\ Known(Target(f)') /\ Ended(on[Target(f)'])
           \/ at'[f] = "raised" /\ Abandons /\ f # "close"
           \/ at'[f] = "settle" /\ f = "close",
           f \in Tasks /\ at["close"] # "no" => at'[f] \notin {"isdone", "reply", "end"}
    PROVE  FiberInv(f)'
  <1>1. UNCHANGED <<state, on>>
    BY DEF core
  <1>2. Known(Target(f)') => Known(Target(f))'
    BY <1>1 DEF Known
  <1>3. Known(Target(f)') /\ Ended(on[Target(f)']) => Ended(on[Target(f)])'
    BY <1>1 DEF Ended, core
  <1>4. f \in Tasks => f # "close"
    BY DEF Named
  <1> QED
    BY <1>1, <1>2, <1>3, <1>4 DEF FiberInv, Waiting

\* What is known of a coroutine when only coroutines move.
LEMMA FibersCalm ==
    ASSUME Named, Inv, Calm, NEW f \in Fibers
    PROVE  FiberInv(f)'
  <1>0. /\ Typed /\ FiberInv(f) /\ at \in [Fibers -> Wheres] /\ "close" \in Fibers /\ Tasks \subseteq Fibers /\ UNCHANGED core
        /\ "close" \notin Tasks /\ (f # "close" => f \in Tasks) /\ FiberInv("close") /\ None \notin Tasks
    BY CalmFacts DEF Inv, Typed, FibersOK, Fibers, FiberInvs, Named
  <1>s. ASSUME UNCHANGED todo PROVE \A g \in Fibers : Target(g)' = Target(g)
    BY <1>s DEF Target
  <1>t. f # "close" => Target(f) = f /\ Target(f)' = f
    BY DEF Target
  <1>1. CASE (\E t \in Tasks : Submit(t) \/ Cancel(t) \/ AdmitRefused(t)) \/ PollStarts \/ PollWakes
    <2>1. UNCHANGED <<at, todo>> /\ waiters' \subseteq waiters
      BY <1>1 DEF Submit, Cancel, AdmitRefused, PollStarts, PollWakes, closing
    <2>2. busy.does # "isdone"
      BY <1>1 DEF Submit, Cancel, AdmitRefused, PollStarts, PollWakes, Free, Idle, Doing
    <2> QED
      BY <1>0, <1>s, <2>1, <2>2, NobodyInIsdone, FiberStays
  <1>2. CASE \E t \in Tasks : Await(t)
    <2> PICK t \in Tasks : Await(t)
      BY <1>2
    <2>1. /\ busy = Idle /\ busy.does # "isdone" /\ at[t] = "no" /\ at["close"] = "no" /\ UNCHANGED <<todo, waiters>>
          /\ at' = [at EXCEPT ![t] = IF state[t] = "queued" THEN "isdone" ELSE "end"]
          /\ busy' = IF state[t] = "queued" THEN Doing("isdone", t, on[t], {}) ELSE Idle
          /\ state[t] \in Settled \cup {"queued"} /\ t # "close" /\ t \in Fibers
      BY <1>0 DEF Await, Free, Idle, Doing, closing
    <2>2. at'["close"] = at["close"]
      BY <1>0, <2>1
    <2>3. CASE f = t
      <3>1. t \notin waiters
        BY <1>0, <2>1, <2>3 DEF FiberInv, Waiting
      <3>2. CASE state[t] = "queued"
        <4>1. at'[f] = "isdone" /\ busy'.does = "isdone" /\ busy'.who = f /\ Known(Target(f)')
          BY <1>0, <1>t, <2>1, <2>3, <3>2 DEF Doing, Known
        <4> QED
          BY <1>0, <2>1, <2>2, <2>3, <3>1, <4>1, FiberMoves
      <3>3. CASE state[t] # "queued"
        <4>1. at'[f] = "end" /\ (Target(f)' \in Tasks => state[Target(f)'] \in Settled)
          BY <1>0, <1>t, <2>1, <2>3, <3>3
        <4> QED
          BY <1>0, <2>1, <2>2, <2>3, <3>1, <4>1, FiberMoves
      <3> QED
        BY <3>2, <3>3
    <2>4. CASE f # t
      <3>1. at'[f] = at[f]
        BY <1>0, <2>1, <2>4
      <3> QED
        BY <1>0, <1>s, <2>1, <2>2, <3>1, NobodyInIsdone, FiberStays
    <2> QED
      BY <2>3, <2>4
  <1>3. CASE IsdoneEnds
    <2> DEFINE g == busy.who
    <2>1. /\ busy.does = "isdone" /\ g \in Fibers /\ at[g] = "isdone" /\ UNCHANGED <<todo, waiters>> /\ busy' = Idle
          /\ at' = [at EXCEPT ![g] = IF state[Target(g)] = "queued" THEN "reply" ELSE "end"]
      BY <1>3 DEF IsdoneEnds, Inv, BusyInv, closing
    <2>2. Known(Target(g)) /\ g \notin waiters
      BY <2>1 DEF Inv, FiberInvs, FiberInv, Waiting
    <2>3. CASE f = g
      <3>1. at'["close"] = at["close"] \/ f = "close"
        BY <1>0, <2>1, <2>3
      <3>2. f \in Tasks => at["close"] = "no"
        BY <1>0, <2>1, <2>3 DEF FiberInv
      <3>3. Target(f)' = Target(g)
        BY <1>0, <1>s, <2>1, <2>3
      <3>4. CASE state[Target(g)] = "queued"
        <4>1. at'[f] = "reply" /\ Known(Target(f)')
          BY <1>0, <2>1, <2>2, <2>3, <3>3, <3>4
        <4> QED
          BY <1>0, <2>1, <2>2, <2>3, <3>1, <3>2, <4>1, FiberMoves
      <3>5. CASE state[Target(g)] # "queued"
        <4>1. state[Target(g)] \in Settled
          BY <1>0, <2>2, <3>5 DEF Known, Typed, BooksOK
        <4>2. at'[f] = "end" /\ state[Target(f)'] \in Settled
          BY <1>0, <2>1, <2>3, <3>3, <3>5, <4>1
        <4> QED
          BY <1>0, <2>1, <2>2, <2>3, <3>1, <3>2, <4>2, FiberMoves
      <3> QED
        BY <3>4, <3>5
    <2>4. CASE f # g
      <3>1. at'[f] = at[f] /\ at[f] # "isdone"
        BY <1>0, <2>1, <2>4, NobodyInIsdone
      <3>2. f \in Tasks /\ at'["close"] # "no" => at["close"] # "no"
        BY <1>0, <2>1
      <3> QED
        BY <1>0, <1>s, <2>1, <3>1, <3>2, FiberStays
    <2> QED
      BY <2>3, <2>4
  <1>4. CASE \E g \in Fibers : ReplyCame(g) \/ LaneGone(g)
    <2> PICK g \in Fibers : ReplyCame(g) \/ LaneGone(g)
      BY <1>4
    <2>1. /\ busy = Idle /\ busy.does # "isdone" /\ at[g] = "reply" /\ g \notin waiters
          /\ UNCHANGED <<todo, waiters, busy>>
          /\ at' = [at EXCEPT ![g] = "end"] \/ at' = [at EXCEPT ![g] = "raised"]
      BY DEF ReplyCame, LaneGone, Looks, Idle, Doing, closing
    <2>2. Known(Target(g)) /\ Target(g) \in Tasks
      BY <2>1 DEF Inv, FiberInvs, FiberInv, Known
    <2>3. f # g => FiberInv(f)'
      <3>1. f # g => at'[f] = at[f]
        BY <1>0, <2>1
      <3>2. f \in Tasks /\ at'["close"] # "no" => at["close"] # "no"
        BY <1>0, <2>1
      <3> QED
        BY <1>0, <1>s, <2>1, <3>1, <3>2, NobodyInIsdone, FiberStays
    <2>4. CASE f = g
      <3>1. at'["close"] = at["close"] \/ f = "close"
        BY <1>0, <2>1, <2>4
      <3>2. f \in Tasks => at["close"] = "no"
        BY <1>0, <2>1, <2>4 DEF FiberInv
      <3>3. Target(f)' = Target(g)
        BY <1>0, <1>s, <2>1, <2>4
      <3>4. CASE ReplyCame(g)
        <4>1. state[Target(g)] \in Settled
          <5>1. Target(g) \notin pending[on[Target(g)]]
            BY <3>4 DEF ReplyCame, Ready
          <5>2. state[Target(g)] # "queued"
            BY <2>2, <5>1 DEF Inv, TaskInvs, TaskInv
          <5> QED
            BY <1>0, <2>2, <5>2 DEF Known, Typed, BooksOK
        <4>2. at'[f] = "end" /\ state[Target(f)'] \in Settled
          BY <1>0, <2>4, <3>3, <3>4, <4>1 DEF ReplyCame
        <4> QED
          BY <1>0, <2>1, <2>4, <3>1, <3>2, <4>2, FiberMoves
      <3>5. CASE LaneGone(g)
        <4>1. Ended(on[Target(g)])
          BY <1>0, <2>2, <3>5 DEF LaneGone, LaneOf
        <4>2. at'[f] = "raised" /\ Known(Target(f)') /\ Ended(on[Target(f)'])
          BY <1>0, <2>2, <2>4, <3>3, <3>5, <4>1 DEF LaneGone
        <4> QED
          BY <1>0, <2>1, <2>4, <3>1, <3>2, <4>2, FiberMoves
      <3> QED
        BY <3>4, <3>5
    <2> QED
      BY <2>3, <2>4
  <1>5. CASE \E g \in Fibers : Parks(g)
    <2> PICK g \in Fibers : Parks(g)
      BY <1>5
    <2>1. busy.does # "isdone" /\ UNCHANGED <<at, todo, busy>> /\ waiters' = waiters \cup {g} /\ at[g] \in Waiting
      BY DEF Parks, Looks, Idle, Doing, closing, Waiting
    <2>2. CASE f # g
      BY <1>0, <1>s, <2>1, <2>2, NobodyInIsdone, FiberStays
    <2>3. CASE f = g
      <3>1. at[f] = "reply" => ~Ready(Target(f))
        BY <2>3 DEF Parks, Looks
      <3>2. at[f] = "reply" => (~Ready(Target(f)))'
        BY <1>0, <1>s, <2>1, <3>1 DEF Ready, core
      <3>3. Target(f)' = Target(f) /\ UNCHANGED <<state, on>>
        BY <1>0, <1>s, <2>1 DEF core
      <3>4. Known(Target(f)) => Known(Target(f))'
        BY <3>3 DEF Known
      <3> QED
        BY <1>0, <2>1, <2>3, <3>2, <3>3, <3>4 DEF FiberInv, Waiting
    <2> QED
      BY <2>2, <2>3
  <1>6. CASE \E g \in Fibers : Returns(g)
    <2> PICK g \in Tasks : Returns(g)
      BY <1>6 DEF Returns
    <2>1. /\ busy.does # "isdone" /\ at[g] = "end" /\ g \notin waiters /\ UNCHANGED <<todo, waiters, busy>>
          /\ at' = [at EXCEPT ![g] = "returned"] /\ g \in Fibers /\ g # "close"
      BY <1>0 DEF Returns, Looks, Idle, Doing, closing
    <2>2. at'["close"] = at["close"]
      BY <1>0, <2>1
    <2>3. CASE f # g
      <3>1. at'[f] = at[f]
        BY <1>0, <2>1, <2>3
      <3> QED
        BY <1>0, <1>s, <2>1, <2>2, <3>1, NobodyInIsdone, FiberStays
    <2>4. CASE f = g
      <3>1. at'[f] = "returned" /\ state[f] \in Settled
        BY <1>0, <1>t, <2>1, <2>4 DEF FiberInv
      <3> QED
        BY <1>0, <2>1, <2>2, <2>4, <3>1, FiberMoves
    <2> QED
      BY <2>3, <2>4
  <1>7. CASE \E g \in Tasks : Abandon(g)
    <2> PICK g \in Tasks : Abandon(g)
      BY <1>7
    <2>1. /\ busy.does # "isdone" /\ waiters' = waiters \ {g} /\ UNCHANGED <<todo, busy>> /\ Abandons
          /\ at' = [at EXCEPT ![g] = "raised"] /\ g \in Fibers /\ g # "close"
      BY <1>0 DEF Abandon, Idle, Doing, closing
    <2>2. at'["close"] = at["close"]
      BY <1>0, <2>1
    <2>3. CASE f # g
      <3>1. at'[f] = at[f]
        BY <1>0, <2>1, <2>3
      <3> QED
        BY <1>0, <1>s, <2>1, <2>2, <3>1, NobodyInIsdone, FiberStays
    <2>4. CASE f = g
      <3>1. at'[f] = "raised"
        BY <1>0, <2>1, <2>4
      <3> QED
        BY <1>0, <2>1, <2>2, <2>4, <3>1, FiberMoves
    <2> QED
      BY <2>3, <2>4
  <1>8. CASE Close \/ CloseSettles \/ CloseFrees \/ CloseJoins
    <2>1. /\ busy.does # "isdone" /\ UNCHANGED waiters /\ (at["close"] = "no" => Close)
          /\ \E w \in Wheres : at' = [at EXCEPT !["close"] = w]
      BY <1>8 DEF Close, CloseSettles, CloseFrees, CloseJoins, Looks, Free, Idle, Doing, Wheres
    <2>2. CASE f # "close"
      <3>1. at'[f] = at[f]
        BY <1>0, <2>1, <2>2
      <3>2. f \in Tasks /\ at'["close"] # "no" => at["close"] # "no" \/ at[f] \notin {"isdone", "reply", "end"}
        BY <1>0, <2>1, NobodyInIsdone DEF Close, Waiting
      <3> QED
        BY <1>0, <1>t, <2>1, <2>2, <3>1, <3>2, NobodyInIsdone, FiberStays
    <2>3. CASE f = "close"
      <3>1. "close" \notin waiters
        BY <1>0, <1>8 DEF Close, CloseSettles, CloseFrees, CloseJoins, Looks, FiberInv, Waiting
      <3>2. CASE Close \/ CloseFrees
        <4>1. at'["close"] = "settle"
          BY <1>0, <3>2 DEF Close, CloseFrees
        <4> QED
          BY <1>0, <2>1, <2>3, <3>1, <4>1, FiberMoves
      <3>3. CASE CloseJoins
        <4>1. at'["close"] = "returned" \/ (at'["close"] = "end" /\ Target("close")' \notin Tasks)
          BY <1>0, <3>3 DEF CloseJoins, Target
        <4> QED
          BY <1>0, <2>1, <2>3, <3>1, <4>1, FiberMoves
      <3>4. CASE CloseSettles
        <4>1. todo # <<>> /\ todo \in Seq(Tasks) /\ UNCHANGED todo
          BY <1>0, <3>4 DEF CloseSettles, Typed, FibersOK
        <4>2. Head(todo) \in Tasks /\ Contains(todo, Head(todo)) /\ Target("close") = Head(todo)
          BY <4>1 DEF Contains, Target
        <4>3. Known(Head(todo)) /\ Target("close")' = Head(todo)
          BY <1>0, <1>s, <4>1, <4>2 DEF Inv, ListInv, Known
        <4>4. CASE state[Head(todo)] = "queued"
          <5>1. at'["close"] = "isdone" /\ busy'.does = "isdone" /\ busy'.who = "close"
            BY <1>0, <3>4, <4>4 DEF CloseSettles, Doing
          <5> QED
            BY <1>0, <2>1, <2>3, <3>1, <4>3, <5>1, FiberMoves
        <4>5. CASE state[Head(todo)] # "queued"
          <5>1. at'["close"] = "end"
            BY <1>0, <3>4, <4>5 DEF CloseSettles
          <5>2. state[Head(todo)] \in Settled
            BY <1>0, <4>2, <4>3, <4>5 DEF Known, Typed, BooksOK
          <5> QED
            BY <1>0, <2>1, <2>3, <3>1, <4>3, <5>1, <5>2, FiberMoves
        <4> QED
          BY <4>4, <4>5
      <3> QED
        BY <1>8, <3>2, <3>3, <3>4
    <2> QED
      BY <2>2, <2>3
  <1> QED
    BY <1>1, <1>2, <1>3, <1>4, <1>5, <1>6, <1>7, <1>8 DEF Calm

\* A task that is known stays known, on its lane, settled if it was; and a lane
\* that has ended stays so.
Stays(u) ==
    Known(u) /\ ~(busy.does = "push" /\ busy.who = u) =>
        /\ Known(u)' /\ on'[u] = on[u] /\ (state[u] \in Settled => state'[u] \in Settled)
        /\ Ended(on[u]) => Ended(on[u])'

\* Every other step leaves a known task known.
LEMMA TasksStay ==
    ASSUME Named, Inv, NEW u \in Tasks,
           \/ Push \/ PushRefused \/ CancelEnds \/ PollRetires \/ JoinEnds
           \/ \E t \in Tasks : Admit(t)
           \/ \E f \in Fibers : Joins(f)
           \/ \E l \in Lanes : Routes(l) \/ Lane(l) \/ LaneCrashes(l)
    PROVE  Stays(u)
  <1> SUFFICES ASSUME Known(u), ~(busy.does = "push" /\ busy.who = u)
               PROVE  /\ Known(u)' /\ on'[u] = on[u] /\ (state[u] \in Settled => state'[u] \in Settled)
                      /\ Ended(on[u]) => Ended(on[u])'
    BY DEF Stays
  <1>0. Typed /\ BooksOK /\ LanesOK /\ on[u] \in Lanes /\ TaskInv(u) /\ state[u] \notin {"new", "refused"}
        /\ LaneInv(on[u])
    BY DEF Inv, Typed, TaskInvs, TaskInv, LaneInvs, Known
  <1>1. CASE Push \/ PushRefused \/ PollRetires \/ \E f \in Fibers : Joins(f)
    <2>1. \E l \in Lanes : closed' = closed \/ closed' = ClosedBehind(l)
      BY <1>1 DEF Push, PushRefused, PollRetires, Joins, Unended, Owned, Lanes, Inv, BusyInv
    <2>2. closed \subseteq closed' /\ UNCHANGED <<up, on, outbox>>
      BY <1>0, <1>1, <2>1, ClosedBehindFacts DEF Push, PushRefused, PollRetires, Joins, books
    <2>3. state'[u] = state[u]
      BY <1>0, <1>1 DEF Push, PushRefused, PollRetires, Joins, books, BooksOK
    <2> QED
      BY <1>0, <2>2, <2>3 DEF Known, Ended
  <1>2. CASE CancelEnds
    <2>1. UNCHANGED <<up, on, outbox, closed>> /\ (state'[u] = state[u] \/ (state[u] = "queued" /\ state'[u] = "cancelled"))
      BY <1>0, <1>2 DEF CancelEnds, BooksOK, TakenBack
    <2> QED
      BY <1>0, <2>1 DEF Known, Ended, Settled
  <1>3. CASE JoinEnds
    <2>1. UNCHANGED <<on, outbox, closed, state>> /\ up' = [up EXCEPT ![busy.lane] = "retired"]
      BY <1>3 DEF JoinEnds
    <2>2. up[on[u]] = "retired" => up'[on[u]] = "retired"
      BY <1>0, <2>1 DEF BooksOK
    <2> QED
      BY <1>0, <2>1, <2>2 DEF Known, Ended
  <1>4. CASE \E t \in Tasks : Admit(t)
    <2> PICK t \in Tasks, l \in Lanes :
           /\ Admits(t, l) /\ on' = [on EXCEPT ![t] = l] /\ up' = [up EXCEPT ![l] = "up"]
           /\ state' = [state EXCEPT ![t] = "queued"] /\ busy = Doing("admit", t, None, {}) /\ UNCHANGED <<outbox, closed>>
      BY <1>4 DEF Admit
    <2>1. state[t] = "new"
      <3>1. busy.does = "admit" /\ busy.who = t /\ t # None
        BY DEF Doing, Named
      <3> QED
        BY <3>1 DEF Inv, BusyInv, Submitting
    <2>2. u # t
      BY <1>0, <2>1
    <2>3. on'[u] = on[u] /\ state'[u] = state[u]
      BY <1>0, <2>2 DEF BooksOK
    <2>4. up[on[u]] = "retired" => on[u] # l
      <3>1. SUFFICES ASSUME up[on[u]] = "retired", on[u] = l PROVE FALSE
        OBVIOUS
      <3>2. l \in Dedicated
        BY <1>0, <3>1 DEF LaneInv, Joined
      <3>3. t = l
        BY <3>2 DEF Admits, Named
      <3>4. on[u] # None
        BY <1>0 DEF Named, Lanes
      <3>5. u = l
        BY <1>0, <3>1, <3>2, <3>4 DEF TaskInv, Named
      <3> QED
        BY <2>2, <3>3, <3>5
    <2>5. up[on[u]] = "retired" => up'[on[u]] = "retired"
      BY <1>0, <2>4 DEF BooksOK
    <2> QED
      BY <1>0, <2>3, <2>5 DEF Known, Ended
  <1>5. CASE \E l \in Lanes : Routes(l)
    <2> PICK l \in Lanes : Routes(l)
      BY <1>5
    <2> DEFINE t == Head(outbox[l]).task
               a == Head(outbox[l]).answer
    <2>1. t \in Tasks /\ a \in Settled /\ outbox[l] # <<>> /\ up[l] = "up"
      BY RouteFacts
    <2>2. /\ state' = [state EXCEPT ![t] = IF @ = "cancelled" THEN @ ELSE a] /\ UNCHANGED <<up, on, closed>>
          /\ outbox' = [outbox EXCEPT ![l] = Tail(@)]
      BY DEF Routes, Route
    <2> HIDE DEF t, a
    <2>3. state'[u] = state[u] \/ state'[u] \in Settled
      BY <1>0, <2>1, <2>2 DEF BooksOK
    <2>4. Ended(on[u]) => outbox'[on[u]] = outbox[on[u]] \/ up[on[u]] = "retired"
      BY <1>0, <2>1, <2>2 DEF Ended, LanesOK
    <2> QED
      BY <1>0, <2>2, <2>3, <2>4 DEF Known, Ended, Settled
  <1>6. CASE \E l \in Lanes : Lane(l) \/ LaneCrashes(l)
    <2> PICK l \in Lanes : Lane(l) \/ LaneCrashes(l)
      BY <1>6
    <2>1. UNCHANGED <<up, on, state>> /\ closed \subseteq closed' /\ (outbox' = outbox \/ LaneReplies(l))
      BY DEF Lane, LaneStarts, LaneFinishes, LaneReplies, LaneReturns, LaneDiscards, LaneReports, LaneCrashes, books, Closes
    <2>2. <<on[u], "out">> \in closed => outbox'[on[u]] = outbox[on[u]]
      <3>1. CASE LaneReplies(l) /\ on[u] = l
        BY <1>0, <3>1 DEF LaneInv, Thready, LaneReplies
      <3>2. CASE LaneReplies(l) /\ on[u] # l
        BY <1>0, <3>2 DEF LanesOK, LaneReplies
      <3> QED
        BY <2>1, <3>1, <3>2
    <2> QED
      BY <1>0, <2>1, <2>2 DEF Known, Ended
  <1> QED
    BY <1>1, <1>2, <1>3, <1>4, <1>5, <1>6

\* A coroutine that the parent and the lanes leave where it is.
LEMMA FiberKept ==
    ASSUME Named, Inv, NEW f \in Fibers, UNCHANGED <<at, todo>>, f \in waiters' => f \in waiters,
           at[f] = "isdone" => busy'.does = "isdone" /\ busy'.who = f,
           \A u \in Tasks : Stays(u),
           f \in waiters' /\ at[f] = "reply" /\ ~Ready(Target(f)) => (~Ready(Target(f)))'
    PROVE  FiberInv(f)'
  <1>0. /\ FiberInv(f) /\ Target(f)' = Target(f) /\ (f # "close" => Target(f) = f /\ f \in Tasks) /\ "close" \notin Tasks
        /\ Target(f) \in Tasks \cup {None} /\ None \notin Tasks
    BY TargetFacts DEF Inv, FiberInvs, Target, Named
  <1>1. at[f] # "no" => ~(busy.does = "push" /\ busy.who = Target(f))
    BY <1>0 DEF Inv, BusyInv
  <1>2. state[Target(f)] \in Settled /\ Target(f) \in Tasks => Known(Target(f))
    BY DEF Known, Settled
  <1>3. at[f] # "no" /\ Known(Target(f)) =>
          /\ Known(Target(f))' /\ on'[Target(f)] = on[Target(f)]
          /\ state[Target(f)] \in Settled => state'[Target(f)] \in Settled
          /\ Ended(on[Target(f)]) => Ended(on[Target(f)])'
    <2>1. SUFFICES ASSUME at[f] # "no", Known(Target(f))
                   PROVE /\ Known(Target(f))' /\ on'[Target(f)] = on[Target(f)]
                         /\ state[Target(f)] \in Settled => state'[Target(f)] \in Settled
                         /\ Ended(on[Target(f)]) => Ended(on[Target(f)])'
      OBVIOUS
    <2>2. PICK u \in Tasks : u = Target(f)
      BY <2>1 DEF Known
    <2>3. Stays(u) /\ Known(u) /\ ~(busy.does = "push" /\ busy.who = u)
      BY <1>1, <2>1, <2>2
    <2>4. /\ Known(u)' /\ on'[u] = on[u] /\ (state[u] \in Settled => state'[u] \in Settled)
          /\ Ended(on[u]) => Ended(on[u])'
      BY <2>3 DEF Stays
    <2>5. Target(f)' = u
      BY <1>0, <2>2
    <2>6. (Known(Target(f))' <=> Known(u)') /\ (Ended(on[Target(f)])' <=> Ended(on[u])')
      BY <2>5 DEF Known, Ended
    <2> QED
      BY <2>2, <2>4, <2>6
  <1>4. f \in Tasks => Target(f) = f
    BY <1>0
  <1> QED
    BY <1>0, <1>2, <1>3, <1>4 DEF FiberInv

\* Every step keeps what is known of every coroutine.
LEMMA FibersStep ==
    ASSUME Named, Inv, [Next]_vars, NEW f \in Fibers
    PROVE  FiberInv(f)'
  <1>0. /\ Typed /\ FiberInv(f) /\ Target(f) \in Tasks \cup {None} /\ BooksOK
        /\ (f # "close" => Target(f) = f /\ f \in Tasks)
    BY TargetFacts DEF Inv, FiberInvs, Typed
  <1>1. CASE UNCHANGED vars
    BY <1>0, <1>1 DEF FiberInv, vars, books, closing, Known, Target, Ready, Ended
  <1>2. CASE Calm
    BY <1>2, FibersCalm
  <1>3. CASE Push \/ PollRetires \/ (\E g \in Fibers : Joins(g)) \/ JoinEnds \/ CancelEnds
             \/ \E l \in Lanes : Lane(l) \/ LaneCrashes(l)
    <2>1. \A u \in Tasks : Stays(u)
      BY <1>3, TasksStay
    <2>2. UNCHANGED <<at, todo, waiters, pending, on>>
      BY <1>3 DEF Push, PollRetires, Joins, JoinEnds, CancelEnds, books, closing, Lane, LaneStarts, LaneFinishes, LaneReplies,
         LaneReturns, LaneDiscards, LaneReports, LaneCrashes
    <2>3. UNCHANGED busy \/ busy.does # "isdone"
      <3>1. CASE Push \/ PollRetires \/ (\E g \in Fibers : Joins(g)) \/ JoinEnds \/ CancelEnds
        BY <3>1 DEF Push, PollRetires, Joins, JoinEnds, CancelEnds, Looks, Idle, Doing
      <3>2. CASE \E l \in Lanes : Lane(l) \/ LaneCrashes(l)
        BY <3>2 DEF Lane, LaneStarts, LaneFinishes, LaneReplies, LaneReturns, LaneDiscards, LaneReports, LaneCrashes
      <3> QED
        BY <1>3, <3>1, <3>2
    <2>4. Target(f)' = Target(f)
      BY <2>2 DEF Target
    <2>5. ~Ready(Target(f)) => (~Ready(Target(f)))'
      BY <2>2, <2>4 DEF Ready
    <2> QED
      BY <2>1, <2>2, <2>3, <2>5, NobodyInIsdone, FiberKept
  <1>4. CASE PushRefused \/ \E t \in Tasks : Admit(t)
    <2>1. \A u \in Tasks : Stays(u)
      BY <1>4, TasksStay
    <2>2. UNCHANGED <<at, todo, waiters>> /\ busy.does # "isdone"
      BY <1>4 DEF PushRefused, Admit, closing, Doing
    <2>3. Target(f)' = Target(f)
      BY <2>2 DEF Target
    <2>4. ASSUME at[f] = "reply", ~Ready(Target(f)) PROVE (~Ready(Target(f)))'
      <3> DEFINE u == Target(f)
      <3>1. Known(u) /\ u \in Tasks /\ state[u] \notin {"new", "refused"} /\ u' = u
        BY <1>0, <2>3, <2>4 DEF FiberInv, Known
      <3>2. on[u] \in Lanes /\ u \in pending[on[u]]
        BY <2>4, <3>1 DEF Ready, Inv, TaskInvs, TaskInv
      <3>3. CASE PushRefused
        <4>1. busy.does = "push" /\ busy.who # u /\ busy.lane \in Lanes
          BY <1>0, <2>4, <3>3 DEF PushRefused, Inv, BusyInv
        <4>2. UNCHANGED on /\ pending' = [pending EXCEPT ![busy.lane] = @ \ {busy.who}]
          BY <3>3 DEF PushRefused
        <4>3. u \in pending'[on'[u]]
          BY <1>0, <3>2, <4>1, <4>2 DEF BooksOK
        <4> QED
          BY <3>1, <4>3 DEF Ready
      <3>4. CASE \E t \in Tasks : Admit(t)
        <4> PICK t \in Tasks, l \in Lanes :
               /\ on' = [on EXCEPT ![t] = l] /\ pending' = [pending EXCEPT ![l] = @ \cup {t}]
               /\ busy = Doing("admit", t, None, {})
          BY <3>4 DEF Admit
        <4>1. busy.does = "admit" /\ busy.who = t /\ t # None
          BY DEF Doing, Named
        <4>2. u # t
          BY <3>1, <4>1 DEF Inv, BusyInv, Submitting
        <4>3. u \in pending'[on'[u]]
          BY <1>0, <3>1, <3>2, <4>2 DEF BooksOK
        <4> QED
          BY <3>1, <4>3 DEF Ready
      <3> QED
        BY <1>4, <3>3, <3>4
    <2> QED
      BY <2>1, <2>2, <2>4, NobodyInIsdone, FiberKept
  <1>5. CASE \E l \in Lanes : Routes(l)
    <2> PICK l \in Lanes : Routes(l)
      BY <1>5
    <2> DEFINE t == Head(outbox[l]).task
    <2>1. \A u \in Tasks : Stays(u)
      BY <1>5, TasksStay
    <2>2. /\ UNCHANGED <<at, todo, busy, on>> /\ waiters' = waiters \ WokenBy(t)
          /\ pending' = [pending EXCEPT ![l] = @ \ {t}]
      BY DEF Routes, Route, closing
    <2> HIDE DEF t
    <2>3. Target(f)' = Target(f)
      BY <2>2 DEF Target
    <2>4. ASSUME f \in waiters', at[f] = "reply", ~Ready(Target(f)) PROVE (~Ready(Target(f)))'
      <3> DEFINE u == Target(f)
      <3>1. Known(u) /\ u \in Tasks /\ state[u] \notin {"new", "refused"} /\ u' = u
        BY <1>0, <2>3, <2>4 DEF FiberInv, Known
      <3>2. on[u] \in Lanes /\ u \in pending[on[u]]
        BY <2>4, <3>1 DEF Ready, Inv, TaskInvs, TaskInv
      <3>3. u # t
        BY <2>2, <2>4 DEF WokenBy
      <3>4. u \in pending'[on'[u]]
        BY <1>0, <2>2, <3>2, <3>3 DEF BooksOK
      <3> QED
        BY <3>1, <3>4 DEF Ready
    <2> QED
      BY <1>0, <2>1, <2>2, <2>4, NobodyInIsdone, FiberKept
  <1> QED
    BY <1>1, <1>2, <1>3, <1>4, <1>5, Steps

-----------------------------------------------------------------------------
(* The scope's list *)

\* The first of a sequence, and the others.
LEMMA HeadOrTail ==
    ASSUME NEW S, NEW s \in Seq(S), s # <<>>
    PROVE  /\ Tail(s) \in Seq(S) /\ Head(s) \in S /\ Contains(s, Head(s))
           /\ \A y : Contains(s, y) <=> Contains(Tail(s), y) \/ y = Head(s)
  <1> DEFINE u == Tail(s)
  <1>1. /\ u \in Seq(S) /\ Len(s) \in Nat \ {0} /\ Len(u) = Len(s) - 1 /\ Head(s) = s[1] /\ s[1] \in S
        /\ \A i \in 1..Len(u) : u[i] = s[i + 1]
    OBVIOUS
  <1> HIDE DEF u
  <1>2. 1 \in 1..Len(s) /\ \A i \in 1..Len(u) : i + 1 \in 1..Len(s)
    BY <1>1
  <1>3. ASSUME NEW y PROVE Contains(s, y) <=> Contains(u, y) \/ y = Head(s)
    <2>1. Contains(u, y) \/ y = Head(s) => Contains(s, y)
      BY <1>1, <1>2 DEF Contains
    <2>2. ASSUME NEW i \in 1..Len(s), s[i] = y, y # Head(s) PROVE Contains(u, y)
      <3>1. i - 1 \in 1..Len(u) /\ (i - 1) + 1 = i
        BY <2>2, <1>1
      <3> QED
        BY <2>2, <3>1, <1>1 DEF Contains
    <2> QED
      BY <2>1, <2>2, <1>1 DEF Contains
  <1> QED
    BY <1>1, <1>2, <1>3 DEF u, Contains

\* Releasing a task takes it off the list at most, and no other.
LEMMA ReleasedWithin ==
    ASSUME Typed, Distinct(list), NEW t \in Tasks, NEW k, k \in {list, Released(t), Without(list, t)}
    PROVE  /\ Distinct(k) /\ (\A u : Contains(k, u) => Contains(list, u))
           /\ \A u : u # t => (Contains(k, u) <=> Contains(list, u))
  BY ReleasedFacts

\* The list and what closing settles, when only coroutines move.
LEMMA ListCalm ==
    ASSUME Named, Inv, Calm
    PROVE  ListInv'
  <1>0. /\ Typed /\ ListInv /\ at \in [Fibers -> Wheres] /\ "close" \in Fibers /\ Tasks \subseteq Fibers /\ UNCHANGED core
        /\ "close" \notin Tasks /\ FiberInv("close") /\ busy.does # "push" /\ todo \in Seq(Tasks) /\ Distinct(list)
        /\ list \in Seq(Tasks)
    BY CalmFacts DEF Inv, Typed, FibersOK, BooksOK, Fibers, FiberInvs, Named, ListInv
  <1>c. UNCHANGED <<up, state>>
    BY <1>0 DEF core
  <1>1. ASSUME UNCHANGED <<list, todo>>, observed \subseteq observed', at["close"] = "no" => at'["close"] = "no",
               at'["close"] = "no" => at["close"] = "no", at'["close"] = "returned" => at["close"] = "returned",
               at'["close"] \in {"isdone", "reply", "end", "raised"} => at["close"] \in {"isdone", "reply", "end", "raised"}
        PROVE  ListInv'
    BY <1>0, <1>c, <1>1 DEF ListInv, Heading, Owned
  <1>2. CASE \/ \E t \in Tasks : Submit(t) \/ AdmitRefused(t) \/ Cancel(t) \/ Await(t) \/ Abandon(t)
             \/ PollStarts \/ PollWakes
    <2>1. UNCHANGED <<list, todo>> /\ observed \subseteq observed'
      BY <1>2 DEF Submit, AdmitRefused, Cancel, Await, Abandon, PollStarts, PollWakes, books, closing
    <2>2. at'["close"] = at["close"]
      BY <1>0, <1>2 DEF Submit, AdmitRefused, Cancel, Await, Abandon, PollStarts, PollWakes
    <2> QED
      BY <1>1, <2>1, <2>2
  <1>3. CASE IsdoneEnds \/ \E f \in Fibers : ReplyCame(f) \/ LaneGone(f) \/ Parks(f)
    <2>1. UNCHANGED <<list, todo, observed>>
      BY <1>3 DEF IsdoneEnds, ReplyCame, LaneGone, Parks, books, closing
    <2>2. \/ at'["close"] = at["close"]
          \/ at["close"] \in {"isdone", "reply"} /\ at'["close"] \in {"reply", "end", "raised"}
      BY <1>0, <1>3 DEF IsdoneEnds, ReplyCame, LaneGone, Parks, Looks, Inv, BusyInv
    <2> QED
      BY <1>1, <2>1, <2>2
  <1>4. CASE \E f \in Fibers : Returns(f)
    <2> PICK t \in Tasks : Returns(t)
      BY <1>4 DEF Returns
    <2>1. /\ at[t] = "end" /\ list' = Without(list, t) /\ UNCHANGED <<todo, observed>> /\ at'["close"] = at["close"]
      BY <1>0 DEF Returns, Looks, closing
    <2>2. state[t] \in Settled
      BY <1>0, <2>1 DEF Inv, FiberInvs, FiberInv, Target
    <2>3. /\ Distinct(list') /\ \A u : Contains(list', u) => Contains(list, u)
          /\ \A u : u # t => (Contains(list', u) <=> Contains(list, u))
      BY <1>0, <2>1, ReleasedWithin
    <2> QED
      BY <1>0, <1>c, <2>1, <2>2, <2>3 DEF ListInv, Heading, Owned, Settled
  <1>5. CASE Close
    <2>1. at'["close"] = "settle" /\ todo' = list /\ UNCHANGED <<list, observed>>
      BY <1>0, <1>5 DEF Close, books
    <2> QED
      BY <1>0, <1>c, <2>1 DEF ListInv, Heading
  <1>6. CASE CloseSettles
    <2>1. /\ UNCHANGED <<list, todo>> /\ observed' = observed \cup {Head(todo)} /\ at["close"] = "settle"
          /\ at'["close"] \in {"isdone", "end"}
      BY <1>0, <1>6 DEF CloseSettles, books
    <2> QED
      BY <1>0, <1>c, <2>1 DEF ListInv, Heading
  <1>7. CASE CloseFrees
    <2> DEFINE t == Head(todo)
    <2>1. /\ todo # <<>> /\ todo' = Tail(todo) /\ list' = Without(list, t) /\ at["close"] = "end"
          /\ at'["close"] = "settle"
      BY <1>0, <1>7 DEF CloseFrees, Looks
    <2>2. t \in Tasks /\ \A y : Contains(todo, y) <=> Contains(todo', y) \/ y = t
      BY <1>0, <2>1, HeadOrTail
    <2>3. state[t] \in Settled
      BY <1>0, <2>1, <2>2 DEF FiberInv, Target
    <2>4. /\ Distinct(list') /\ ~Contains(list', t) /\ \A u : Contains(list', u) => Contains(list, u)
          /\ \A u : u # t => (Contains(list', u) <=> Contains(list, u))
      BY <1>0, <2>1, <2>2, ReleasedWithin, ReleasedFacts
    <2> HIDE DEF t
    <2> QED
      BY <1>0, <1>c, <2>1, <2>2, <2>3, <2>4 DEF ListInv, Heading, Settled
  <1>8. CASE CloseJoins
    <2>1. /\ UNCHANGED <<list, todo, observed>> /\ todo = <<>> /\ at["close"] # "no"
          /\ at'["close"] = IF Owned = {} THEN "returned" ELSE "end"
      BY <1>0, <1>8 DEF CloseJoins, books, Left
    <2> QED
      BY <1>0, <1>c, <2>1 DEF ListInv, Heading, Owned
  <1> QED
    BY <1>2, <1>3, <1>4, <1>5, <1>6, <1>7, <1>8 DEF Calm

\* Every step keeps the list in order.
LEMMA ListStep ==
    ASSUME Named, Inv, [Next]_vars
    PROVE  ListInv'
  <1>0. /\ Typed /\ ListInv /\ BooksOK /\ BusyInv /\ Distinct(list) /\ list \in Seq(Tasks)
    BY DEF Inv, Typed, BooksOK, ListInv
  <1>1. CASE Calm
    BY <1>1, ListCalm
  <1>2. CASE \/ UNCHANGED vars \/ PollRetires \/ (\E f \in Fibers : Joins(f)) \/ JoinEnds
             \/ \E l \in Lanes : Lane(l) \/ LaneCrashes(l)
    <2>1. UNCHANGED <<list, todo, observed, at, state>>
      BY <1>2 DEF vars, PollRetires, Joins, JoinEnds, books, closing, Lane, LaneStarts, LaneFinishes, LaneReplies,
         LaneReturns, LaneDiscards, LaneReports, LaneCrashes
    <2>2. UNCHANGED busy \/ busy.does # "push"
      <3>1. CASE PollRetires \/ (\E f \in Fibers : Joins(f)) \/ JoinEnds
        BY <3>1 DEF PollRetires, Joins, JoinEnds, Looks, Idle, Doing
      <3>2. CASE UNCHANGED vars \/ \E l \in Lanes : Lane(l) \/ LaneCrashes(l)
        BY <3>2 DEF vars, Lane, LaneStarts, LaneFinishes, LaneReplies, LaneReturns, LaneDiscards, LaneReports, LaneCrashes
      <3> QED
        BY <1>2, <3>1, <3>2
    <2>3. up' = up \/ up' = [up EXCEPT ![busy.lane] = "retired"]
      BY <1>2 DEF vars, PollRetires, Joins, JoinEnds, books, closing, Lane, LaneStarts, LaneFinishes, LaneReplies,
         LaneReturns, LaneDiscards, LaneReports, LaneCrashes
    <2>4. Owned' \subseteq Owned
      BY <1>0, <2>3 DEF Owned, BooksOK, Lanes
    <2> QED
      BY <1>0, <2>1, <2>2, <2>4 DEF ListInv, Heading
  <1>3. CASE Push
    <2>1. /\ busy.does = "push" /\ busy.who \in Tasks /\ list' = Append(list, busy.who) /\ busy' = Idle
          /\ UNCHANGED <<up, todo, observed, at, state>> /\ at["close"] = "no" /\ ~Contains(list, busy.who)
          /\ status[busy.who] = "queued"
      BY <1>0, <1>3 DEF Push, closing, BusyInv
    <2>2. state[busy.who] = "queued"
      BY <2>1 DEF Inv, TaskInvs, TaskInv
    <2>3. Distinct(list') /\ \A y : Contains(list', y) <=> Contains(list, y) \/ y = busy.who
      BY <1>0, <2>1, AppendFacts
    <2> QED
      BY <1>0, <2>1, <2>2, <2>3 DEF ListInv, Heading
  <1>4. CASE PushRefused
    <2>1. /\ busy.does = "push" /\ busy.who \in Tasks /\ state' = [state EXCEPT ![busy.who] = "refused"]
          /\ UNCHANGED <<up, list, todo, observed, at>> /\ at["close"] = "no" /\ ~Contains(list, busy.who)
      BY <1>0, <1>4 DEF PushRefused, closing, BusyInv
    <2>2. todo = <<>> /\ \A y : ~Contains(todo, y)
      BY <1>0, <2>1 DEF ListInv, Contains
    <2>3. \A t \in Tasks : t # busy.who => state'[t] = state[t]
      BY <1>0, <2>1 DEF BooksOK
    <2>4. state'[busy.who] = "refused"
      BY <1>0, <2>1 DEF BooksOK
    <2> QED
      BY <1>0, <2>1, <2>2, <2>3, <2>4 DEF ListInv, Heading
  <1>5. CASE CancelEnds
    <2> DEFINE t == busy.who
    <2>1. /\ busy.does = "cancel" /\ t \in Tasks /\ UNCHANGED <<up, todo, observed, at>>
          /\ state' = (IF TakenBack(t) THEN [state EXCEPT ![t] = "cancelled"] ELSE state)
          /\ list' = IF TakenBack(t) THEN Released(t) ELSE list
      BY <1>0, <1>5 DEF CancelEnds, closing, BusyInv
    <2> HIDE DEF t
    <2>2. /\ Distinct(list') /\ (\A u : Contains(list', u) => Contains(list, u))
          /\ \A u : u # t => (Contains(list', u) <=> Contains(list, u))
      BY <1>0, <2>1, ReleasedWithin
    <2>3. \A u \in Tasks : u # t => state'[u] = state[u]
      BY <1>0, <2>1 DEF BooksOK
    <2>4. \/ state'[t] = "cancelled" /\ TakenBack(t)
          \/ state' = state /\ list' = list
      BY <1>0, <2>1 DEF BooksOK
    <2>5. at["close"] = at'["close"] /\ Owned' = Owned
      BY <2>1 DEF Owned
    <2> QED
      BY <1>0, <2>1, <2>2, <2>3, <2>4, <2>5 DEF ListInv, Heading
  <1>6. CASE \E t \in Tasks : Admit(t)
    <2> PICK t \in Tasks, l \in Lanes :
           /\ state' = [state EXCEPT ![t] = "queued"] /\ UNCHANGED <<todo, observed, at, list>>
           /\ busy = Doing("admit", t, None, {}) /\ busy' = Doing("push", t, l, {})
      BY <1>6 DEF Admit, closing
    <2>1. busy.does = "admit" /\ busy.who = t /\ t # None /\ busy'.does = "push" /\ busy'.who = t
      BY DEF Doing, Named
    <2>2. at["close"] = "no"
      BY <1>0, <2>1 DEF BusyInv, Submitting
    <2>3. state'[t] = "queued" /\ \A u \in Tasks : u # t => state'[u] = state[u]
      BY <1>0 DEF BooksOK
    <2> QED
      BY <1>0, <2>1, <2>2, <2>3 DEF ListInv, Heading
  <1>7. CASE \E l \in Lanes : Routes(l)
    <2> PICK l \in Lanes : Routes(l)
      BY <1>7
    <2> DEFINE t == Head(outbox[l]).task
               a == Head(outbox[l]).answer
    <2>1. t \in Tasks /\ a \in Settled
      BY RouteFacts
    <2>2. /\ state' = [state EXCEPT ![t] = IF @ = "cancelled" THEN @ ELSE a] /\ UNCHANGED <<up, todo, observed, at, busy>>
          /\ list' = (IF state[t] = "cancelled" THEN list ELSE Released(t)) /\ busy.does # "push"
      BY DEF Routes, Route, closing
    <2> HIDE DEF t, a
    <2>3. /\ Distinct(list') /\ (\A u : Contains(list', u) => Contains(list, u))
          /\ \A u : u # t => (Contains(list', u) <=> Contains(list, u))
      BY <1>0, <2>1, <2>2, ReleasedWithin
    <2>4. state'[t] \in Settled /\ \A u \in Tasks : u # t => state'[u] = state[u]
      BY <1>0, <2>1, <2>2 DEF BooksOK, Settled
    <2>5. Owned' = Owned
      BY <2>2 DEF Owned
    <2> QED
      BY <1>0, <2>1, <2>2, <2>3, <2>4, <2>5 DEF ListInv, Heading, Settled
  <1> QED
    BY <1>1, <1>2, <1>3, <1>4, <1>5, <1>6, <1>7, Steps

-----------------------------------------------------------------------------
(* Moved storage *)

\* A task whose result a step leaves where it is.
LEMMA MoveStays ==
    ASSUME NEW t \in Tasks, MoveInv(t), t \in observed' => t \in observed, at'[t] = at[t], Freed(t) => Freed(t)',
           state'[t] = "queued" => state[t] = "queued",
           storage'[t] = "result" /\ Ready(t)' =>
              storage[t] = "result" /\ Ready(t) /\ (Contains(list, t) => Contains(list', t))
    PROVE  MoveInv(t)'
  BY DEF MoveInv

\* A result that is ready has run, and its task is settled.
LEMMA ResultFacts ==
    ASSUME Named, Inv, NEW t \in Tasks, storage[t] = "result"
    PROVE  t \in ran /\ t \in Moving /\ (~Ready(t) => state[t] = "queued")
  <1>1. t \in ran /\ t \in Moving /\ state[t] # "new"
    BY DEF Inv, TaskInvs, TaskInv, None
  <1>2. on[t] \in Lanes
    BY <1>1 DEF Inv, TaskInvs, TaskInv
  <1> QED
    BY <1>1, <1>2 DEF Inv, TaskInvs, TaskInv, Ready

\* A result's owner, when only coroutines move.
LEMMA MoveCalm ==
    ASSUME Named, Abandons => Moving = {}, IInv, Calm, NEW t \in Tasks
    PROVE  MoveInv(t)'
  <1>0. /\ Typed /\ Inv /\ at \in [Fibers -> Wheres] /\ "close" \in Fibers /\ Tasks \subseteq Fibers /\ UNCHANGED core
        /\ "close" \notin Tasks /\ FiberInv("close") /\ FiberInv(t) /\ TaskInv(t) /\ MoveInv(t) /\ ListInv
        /\ todo \in Seq(Tasks) /\ list \in Seq(Tasks) /\ Distinct(list) /\ t # "close"
        /\ storage \in [Tasks -> {None, "result", "taken", "freed"}]
    BY CalmFacts DEF IInv, Inv, Typed, FibersOK, BooksOK, LanesOK, Fibers, FiberInvs, TaskInvs, MoveInvs, Named, ListInv
  <1>c. state'[t] = state[t] /\ (Ready(t)' <=> Ready(t))
    BY <1>0 DEF core, Ready
  <1>r. storage'[t] = "result" => storage[t] = "result"
    BY <1>0, CalmStorage
  <1>1. CASE (\E u \in Tasks : Submit(u) \/ AdmitRefused(u) \/ Cancel(u)) \/ PollStarts \/ PollWakes
             \/ \E f \in Fibers : Parks(f)
    <2>1. UNCHANGED <<list, todo, frees, at, observed>>
      BY <1>1 DEF Submit, AdmitRefused, Cancel, PollStarts, PollWakes, Parks, books, closing
    <2> QED
      BY <1>0, <1>c, <1>r, <2>1, MoveStays DEF Freed, Heading
  <1>2. CASE \E u \in Tasks : Await(u)
    <2> PICK u \in Tasks : Await(u)
      BY <1>2
    <2>1. /\ UNCHANGED <<list, todo, frees>> /\ observed' = observed \cup {u} /\ at'["close"] = at["close"]
          /\ t # u => at'[t] = at[t]
          /\ at'[u] \in {"isdone", "end"}
      BY <1>0 DEF Await, books, closing
    <2>2. CASE t = u
      BY <2>1, <2>2 DEF MoveInv
    <2>3. CASE t # u
      BY <1>0, <1>c, <1>r, <2>1, <2>3, MoveStays DEF Freed, Heading
    <2> QED
      BY <2>2, <2>3
  <1>3. CASE IsdoneEnds
    <2> DEFINE g == busy.who
    <2>1. /\ UNCHANGED <<list, todo, frees, observed>> /\ g \in Fibers /\ at[g] = "isdone"
          /\ at' = [at EXCEPT ![g] = IF state[Target(g)] = "queued" THEN "reply" ELSE "end"]
      BY <1>3 DEF IsdoneEnds, Inv, BusyInv, books, closing, IInv
    <2> HIDE DEF g
    <2>2. at'[g] \in {"reply", "end"} /\ (t # g => at'[t] = at[t])
      BY <1>0, <2>1
    <2>3. Freed(t) => Freed(t)'
      BY <1>0, <2>1, <2>2 DEF Freed, Heading
    <2>4. CASE t = g
      BY <2>2, <2>4 DEF MoveInv
    <2>5. CASE t # g
      BY <1>0, <1>c, <1>r, <2>1, <2>2, <2>3, <2>5, MoveStays
    <2> QED
      BY <2>4, <2>5
  <1>4. CASE \E f \in Fibers : ReplyCame(f) \/ LaneGone(f)
    <2> PICK g \in Fibers : ReplyCame(g) \/ LaneGone(g)
      BY <1>4
    <2>1. /\ UNCHANGED <<list, todo, frees, observed>> /\ at[g] = "reply"
          /\ at' = [at EXCEPT ![g] = "end"] \/ at' = [at EXCEPT ![g] = "raised"]
      BY DEF ReplyCame, LaneGone, Looks, books, closing
    <2>2. at'[g] \in {"end", "raised"} /\ (t # g => at'[t] = at[t])
      BY <1>0, <2>1
    <2>3. Freed(t) => Freed(t)'
      BY <1>0, <2>1, <2>2 DEF Freed, Heading
    <2>4. CASE t = g /\ ReplyCame(g)
      <3>1. at'[t] = "end"
        BY <1>0, <2>4 DEF ReplyCame
      <3> QED
        BY <3>1 DEF MoveInv
    <2>5. CASE t = g /\ LaneGone(g)
      <3>1. ~Ready(t) /\ at'[t] = "raised"
        BY <1>0, <2>5 DEF LaneGone, Target
      <3> QED
        BY <1>c, <3>1 DEF MoveInv
    <2>6. CASE t # g
      BY <1>0, <1>c, <1>r, <2>1, <2>2, <2>3, <2>6, MoveStays
    <2> QED
      BY <2>4, <2>5, <2>6
  <1>5. CASE \E f \in Fibers : Returns(f)
    <2> PICK u \in Tasks : Returns(u)
      BY <1>5 DEF Returns
    <2>1. /\ UNCHANGED <<todo, frees, observed>> /\ list' = Without(list, u) /\ storage' = Taken(u)
          /\ at' = [at EXCEPT ![u] = "returned"]
      BY DEF Returns, closing
    <2>2. at'["close"] = at["close"]
      BY <1>0, <2>1
    <2>3. CASE t = u
      <3>1. storage'[t] # "result" /\ at'[t] = "returned"
        BY <1>0, <2>1, <2>3 DEF Taken
      <3> QED
        BY <3>1 DEF MoveInv
    <2>4. CASE t # u
      <3>1. Contains(list', t) <=> Contains(list, t)
        BY <1>0, <2>1, <2>4, ReleasedWithin
      <3>2. at'[t] = at[t]
        BY <1>0, <2>1, <2>4
      <3> QED
        BY <1>0, <1>c, <1>r, <2>1, <2>2, <3>1, <3>2, MoveStays DEF Freed, Heading
    <2> QED
      BY <2>3, <2>4
  <1>6. CASE \E u \in Tasks : Abandon(u)
    <2> PICK u \in Tasks : Abandon(u)
      BY <1>6
    <2>1. /\ UNCHANGED <<list, todo, frees, observed>> /\ at' = [at EXCEPT ![u] = "raised"] /\ Abandons
      BY DEF Abandon, books, closing
    <2>2. storage[t] # "result"
      BY <1>0, <2>1, ResultFacts
    <2>3. CASE t = u
      <3>1. at'[t] = "raised"
        BY <1>0, <2>1, <2>3
      <3> QED
        BY <1>r, <2>2, <3>1 DEF MoveInv
    <2>4. CASE t # u
      <3>1. at'[t] = at[t] /\ at'["close"] = at["close"]
        BY <1>0, <2>1, <2>4
      <3> QED
        BY <1>0, <1>c, <1>r, <2>1, <3>1, MoveStays DEF Freed, Heading
    <2> QED
      BY <2>3, <2>4
  <1>7. CASE Close
    <2>1. UNCHANGED <<list, observed>> /\ at'[t] = at[t] /\ at["close"] = "no"
      BY <1>0, <1>7 DEF Close, books
    <2>2. ~Freed(t)
      BY <2>1 DEF Freed, Heading
    <2> QED
      BY <1>0, <1>c, <1>r, <2>1, <2>2, MoveStays
  <1>8. CASE CloseSettles
    <2> DEFINE u == Head(todo)
    <2>1. /\ UNCHANGED <<list, todo>> /\ at'[t] = at[t] /\ at["close"] = "settle" /\ todo # <<>>
          /\ frees' = (u \notin observed) /\ observed' = observed \cup {u} /\ at'["close"] \in {"isdone", "end"}
      BY <1>0, <1>8 DEF CloseSettles, books
    <2>2. ~Freed(t)
      BY <2>1 DEF Freed, Heading
    <2>3. CASE t # u \/ t \in observed
      <3>1. t \in observed' => t \in observed
        BY <2>1, <2>3
      <3> QED
        BY <1>0, <1>c, <1>r, <2>1, <2>2, <3>1, MoveStays
    <2>4. CASE t = u /\ t \notin observed
      <3>1. Freed(t)'
        BY <2>1, <2>4 DEF Freed, Heading
      <3> QED
        BY <3>1 DEF MoveInv
    <2> QED
      BY <2>3, <2>4
  <1>9. CASE CloseFrees
    <2> DEFINE u == Head(todo)
    <2>1. /\ UNCHANGED <<observed>> /\ at'[t] = at[t] /\ at["close"] = "end" /\ todo # <<>> /\ list' = Without(list, u)
          /\ storage' = IF frees /\ storage[u] = "result" THEN [storage EXCEPT ![u] = "freed"] ELSE storage
      BY <1>0, <1>9 DEF CloseFrees, Looks
    <2>2. u \in Tasks
      BY <1>0, <2>1
    <2> HIDE DEF u
    <2>3. CASE t = u
      <3>1. state[t] \in Settled /\ t \in observed
        BY <1>0, <2>1, <2>3 DEF FiberInv, Target, ListInv, Heading, u
      <3>2. at[t] \notin {"isdone", "reply", "end"}
        BY <1>0, <2>1 DEF FiberInv
      <3>3. storage[t] = "result" /\ Ready(t) => frees
        BY <1>0, <3>1, <3>2 DEF MoveInv, Freed
      <3>4. storage[t] = "result" => Ready(t)
        BY <1>0, <3>1, ResultFacts DEF Settled
      <3>5. storage'[t] # "result"
        BY <1>0, <2>1, <2>3, <3>3, <3>4
      <3> QED
        BY <1>c, <3>1, <3>5 DEF MoveInv, Settled
    <2>4. CASE t # u
      <3>1. ~Freed(t)
        BY <2>4 DEF Freed, u
      <3>2. Contains(list', t) <=> Contains(list, t)
        BY <1>0, <2>1, <2>2, <2>4, ReleasedWithin
      <3> QED
        BY <1>0, <1>c, <1>r, <2>1, <3>1, <3>2, MoveStays
    <2> QED
      BY <2>3, <2>4
  <1>10. CASE CloseJoins
    <2>1. UNCHANGED <<list, observed>> /\ at'[t] = at[t] /\ todo = <<>>
      BY <1>0, <1>10 DEF CloseJoins, books
    <2>2. ~Freed(t)
      BY <2>1 DEF Freed, Heading
    <2> QED
      BY <1>0, <1>c, <1>r, <2>1, <2>2, MoveStays
  <1> QED
    BY <1>1, <1>2, <1>3, <1>4, <1>5, <1>6, <1>7, <1>8, <1>9, <1>10 DEF Calm

\* Every step keeps every moved allocation with an owner.
LEMMA MoveStep ==
    ASSUME Named, Abandons => Moving = {}, IInv, [Next]_vars, NEW t \in Tasks
    PROVE  MoveInv(t)'
  <1>0. /\ Typed /\ Inv /\ BooksOK /\ BusyInv /\ FiberInv(t) /\ TaskInv(t) /\ MoveInv(t) /\ ListInv
        /\ list \in Seq(Tasks) /\ Distinct(list) /\ t # "close" /\ storage \in [Tasks -> {None, "result", "taken", "freed"}]
        /\ t \in Fibers
    BY DEF IInv, Inv, Typed, LanesOK, BooksOK, FiberInvs, TaskInvs, MoveInvs, Named, ListInv, Fibers
  <1>1. CASE Calm
    BY <1>1, MoveCalm
  <1>2. CASE \/ UNCHANGED vars \/ PollRetires \/ (\E f \in Fibers : Joins(f)) \/ JoinEnds
             \/ \E l \in Lanes : \/ LaneStarts(l) \/ LaneReplies(l) \/ LaneReturns(l) \/ LaneDiscards(l) \/ LaneReports(l)
                                 \/ LaneCrashes(l)
    <2>1. UNCHANGED <<list, todo, frees, observed, at, state, storage, pending, on>>
      BY <1>2 DEF vars, PollRetires, Joins, JoinEnds, books, closing, LaneStarts, LaneReplies,
         LaneReturns, LaneDiscards, LaneReports, LaneCrashes
    <2> QED
      BY <1>0, <2>1, MoveStays DEF Freed, Heading, Ready
  <1>3. CASE \E l \in Lanes : LaneFinishes(l)
    <2> PICK l \in Lanes : LaneFinishes(l)
      BY <1>3
    <2> DEFINE u == thread[l].task
    <2>1. /\ UNCHANGED <<list, todo, frees, observed, at, state, pending, on>>
          /\ (storage' = storage \/ storage' = [storage EXCEPT ![u] = "result"])
      BY DEF LaneFinishes, closing
    <2>2. u \in Tasks /\ Held(l, u)
      BY <1>0 DEF LaneFinishes, Typed, LanesOK, Inv, LaneInvs, LaneInv, Thready, Held
    <2>3. u \in pending[l]
      BY <1>0, <2>2 DEF Inv, LaneInvs, LaneInv, Booked, Somewhere
    <2>4. ~Ready(u)
      BY <1>0, <2>2, <2>3 DEF Inv, TaskInvs, TaskInv, Ready
    <2> HIDE DEF u
    <2>5. (Ready(t)' <=> Ready(t)) /\ (t # u => storage'[t] = storage[t]) /\ (t = u => ~Ready(t))
      BY <1>0, <2>1, <2>4 DEF Ready
    <2> QED
      BY <1>0, <2>1, <2>5, MoveStays DEF Freed, Heading
  <1>4. CASE Push
    <2>1. /\ UNCHANGED <<todo, frees, observed, at, state, storage, pending, on>> /\ list' = Append(list, busy.who)
          /\ busy.who \in Tasks
      BY <1>0, <1>4 DEF Push, closing, BusyInv
    <2>2. Contains(list, t) => Contains(list', t)
      BY <1>0, <2>1, AppendFacts
    <2> QED
      BY <1>0, <2>1, <2>2, MoveStays DEF Freed, Heading, Ready
  <1>5. CASE PushRefused
    <2>1. /\ UNCHANGED <<list, todo, frees, observed, at, storage, on>> /\ busy.who \in Tasks
          /\ state' = [state EXCEPT ![busy.who] = "refused"] /\ status[busy.who] = "queued"
          /\ pending' = [pending EXCEPT ![busy.lane] = @ \ {busy.who}] /\ busy.lane \in Lanes
      BY <1>0, <1>5 DEF PushRefused, closing, BusyInv
    <2>2. t = busy.who => storage[t] # "result" /\ state'[t] = "refused"
      <3>1. t = busy.who => t \notin ran
        BY <1>0, <2>1 DEF TaskInv
      <3> QED
        BY <1>0, <2>1, <3>1, ResultFacts DEF BooksOK
    <2>3. t # busy.who => state'[t] = state[t] /\ (Ready(t)' => Ready(t) \/ on[t] \notin Lanes)
      BY <1>0, <2>1 DEF BooksOK, Ready
    <2>4. storage[t] = "result" => on[t] \in Lanes
      <3>1. storage[t] = "result" => state[t] # "new"
        BY <1>0, ResultFacts DEF TaskInv
      <3> QED
        BY <1>0, <3>1 DEF TaskInv
    <2> QED
      BY <1>0, <2>1, <2>2, <2>3, <2>4, MoveStays DEF Freed, Heading
  <1>6. CASE CancelEnds
    <2> DEFINE u == busy.who
    <2>1. /\ UNCHANGED <<todo, frees, observed, at, storage, on, pending>> /\ u \in Tasks
          /\ state' = (IF TakenBack(u) THEN [state EXCEPT ![u] = "cancelled"] ELSE state)
          /\ list' = IF TakenBack(u) THEN Released(u) ELSE list
      BY <1>0, <1>6 DEF CancelEnds, closing, BusyInv
    <2> HIDE DEF u
    <2>2. (state'[t] = "queued" => state[t] = "queued") /\ (Ready(t)' <=> Ready(t))
      BY <1>0, <2>1 DEF BooksOK, Ready
    <2>3. CASE t = u /\ TakenBack(u)
      <3>1. t \notin ran
        BY <1>0, <2>3 DEF TaskInv, TakenBack
      <3>2. storage[t] # "result"
        BY <1>0, <3>1, ResultFacts
      <3> QED
        BY <1>0, <2>1, <2>2, <3>2, MoveStays DEF Freed, Heading
    <2>4. CASE ~(t = u /\ TakenBack(u))
      <3>1. Contains(list', t) <=> Contains(list, t)
        BY <1>0, <2>1, <2>4, ReleasedWithin
      <3> QED
        BY <1>0, <2>1, <2>2, <3>1, MoveStays DEF Freed, Heading
    <2> QED
      BY <2>3, <2>4
  <1>7. CASE \E u \in Tasks : Admit(u)
    <2> PICK u \in Tasks, l \in Lanes :
           /\ state' = [state EXCEPT ![u] = "queued"] /\ on' = [on EXCEPT ![u] = l]
           /\ pending' = [pending EXCEPT ![l] = @ \cup {u}]
           /\ busy = Doing("admit", u, None, {}) /\ UNCHANGED <<list, todo, frees, observed, at, storage>>
      BY <1>7 DEF Admit, closing
    <2>1. state[u] = "new"
      <3>1. busy.does = "admit" /\ busy.who = u /\ u # None
        BY DEF Doing, Named
      <3> QED
        BY <1>0, <3>1 DEF BusyInv, Submitting
    <2>2. CASE t = u
      <3>1. t \notin observed /\ t \notin ran
        BY <1>0, <2>1, <2>2 DEF TaskInv
      <3>2. storage[t] # "result"
        BY <1>0, <3>1, ResultFacts
      <3> QED
        BY <3>1, <3>2 DEF MoveInv
    <2>3. CASE t # u
      <3>1. state'[t] = state[t] /\ on'[t] = on[t]
        BY <1>0, <2>3 DEF BooksOK
      <3>2. storage[t] = "result" => on[t] \in Lanes
        <4>1. storage[t] = "result" => state[t] # "new"
          BY <1>0, ResultFacts DEF TaskInv
        <4> QED
          BY <1>0, <4>1 DEF TaskInv
      <3>3. storage[t] = "result" => (Ready(t)' <=> Ready(t))
        BY <1>0, <2>3, <3>1, <3>2 DEF BooksOK, Ready
      <3> QED
        BY <1>0, <3>1, <3>3, MoveStays DEF Freed, Heading
    <2> QED
      BY <2>2, <2>3
  <1>8. CASE \E l \in Lanes : Routes(l)
    <2> PICK l \in Lanes : Routes(l)
      BY <1>8
    <2> DEFINE u == Head(outbox[l]).task
               a == Head(outbox[l]).answer
    <2>1. u \in Tasks /\ a \in Settled /\ on[u] = l /\ state[u] \in {"queued", "cancelled"} /\ u \in pending[l]
          /\ outbox[l] # <<>> /\ up[l] = "up"
      BY <1>0, RouteFacts
    <2>2. /\ state' = [state EXCEPT ![u] = IF @ = "cancelled" THEN @ ELSE a]
          /\ UNCHANGED <<todo, frees, observed, at, storage, on>>
          /\ list' = (IF state[u] = "cancelled" THEN list ELSE Released(u)) /\ busy.does # "push"
          /\ pending' = [pending EXCEPT ![l] = @ \ {u}]
      BY DEF Routes, Route, closing
    <2> HIDE DEF u, a
    <2>3. Freed(t) => Freed(t)'
      BY <2>2 DEF Freed, Heading
    <2>4. CASE t # u
      <3>1. state'[t] = state[t] /\ (Contains(list', t) <=> Contains(list, t))
        BY <1>0, <2>1, <2>2, <2>4, ReleasedWithin DEF BooksOK
      <3>2. storage[t] = "result" => on[t] \in Lanes
        <4>1. storage[t] = "result" => state[t] # "new"
          BY <1>0, ResultFacts DEF TaskInv
        <4> QED
          BY <1>0, <4>1 DEF TaskInv
      <3>3. storage[t] = "result" => (Ready(t)' <=> Ready(t))
        BY <1>0, <2>2, <2>4, <3>2 DEF BooksOK, Ready
      <3> QED
        BY <1>0, <2>2, <2>3, <3>1, <3>3, MoveStays
    <2>5. CASE t = u
      <3>1. state'[t] \in Settled
        BY <1>0, <2>1, <2>2, <2>5 DEF BooksOK, Settled
      <3>2. ASSUME storage[t] = "result"
            PROVE  (t \notin observed /\ Contains(list', t)) \/ at[t] \in {"isdone", "reply", "end"} \/ Freed(t)
        <4>1. t \in ran /\ t \in Moving /\ ~Abandons
          BY <1>0, <3>2, ResultFacts
        <4>2. state[t] = "queued"
          BY <1>0, <2>1, <2>5, <4>1 DEF TaskInv
        <4>3. CASE t \notin observed
          <5>1. list' = list
            BY <2>2, <2>5, <3>2, <4>3 DEF Released
          <5>2. Contains(list, t)
            BY <1>0, <2>2, <4>2 DEF ListInv
          <5> QED
            BY <4>3, <5>1, <5>2
        <4>4. CASE t \in observed
          <5>1. at[t] # "returned"
            BY <1>0, <4>2 DEF FiberInv, Settled
          <5>2. at[t] # "settle"
            BY <1>0 DEF FiberInv
          <5>3. at[t] # "raised"
            BY <1>0, <2>1, <2>5, <4>1 DEF FiberInv, Target, Ended
          <5>4. at[t] = "no" => Freed(t)
            BY <1>0, <4>2, <4>4 DEF MoveInv
          <5>5. at[t] \in Wheres
            BY <1>0 DEF Typed, FibersOK
          <5> QED
            BY <5>1, <5>2, <5>3, <5>4, <5>5 DEF Wheres
        <4> QED
          BY <4>3, <4>4
      <3> QED
        BY <2>2, <2>3, <3>1, <3>2 DEF MoveInv, Settled
    <2> QED
      BY <2>4, <2>5
  <1> QED
    BY <1>0, <1>1, <1>2, <1>3, <1>4, <1>5, <1>6, <1>7, <1>8, Steps DEF Lane

-----------------------------------------------------------------------------
(* What follows *)

\* The invariant holds at the start.
LEMMA InitInv ==
    ASSUME Named, Init
    PROVE  IInv
  <1> USE DEF Init
  <1>0. /\ "close" \in Fibers /\ Tasks \subseteq Fibers /\ "close" \notin Tasks /\ None \notin Tasks
    BY DEF Fibers, Named
  <1>1. BooksOK
    <2>1. up \in [Lanes -> {"no", "up", "retired"}] /\ on \in [Tasks -> Lanes \cup {None}]
      OBVIOUS
    <2>2. pending \in [Lanes -> SUBSET Tasks] /\ inflight \in [Lanes -> Int] /\ list \in Seq(Tasks)
      OBVIOUS
    <2>3. /\ status \in [Tasks -> {None, "queued", "running", "requested", "cancelled", "done"}]
          /\ state \in [Tasks -> {"new", "queued", "refused"} \cup Settled]
      OBVIOUS
    <2> QED
      BY <2>1, <2>2, <2>3 DEF BooksOK
  <1>2. LanesOK
    <2>1. inbox \in [Lanes -> Seq(Tasks)] /\ outbox \in [Lanes -> Seq(Answers)]
      OBVIOUS
    <2>2. thread \in [Lanes -> [at : Places, task : Tasks \cup {None}, answer : Settled \cup {None}]]
      BY DEF Thread, Places
    <2>3. closed = {} /\ ran = {} /\ crashed = {} /\ storage \in [Tasks -> {None, "result", "taken", "freed"}]
      OBVIOUS
    <2> QED
      BY <2>1, <2>2, <2>3 DEF LanesOK
  <1>3. busy.does = "nothing" /\ busy = Idle
    BY DEF Idle, Doing
  <1>4. FibersOK
    <2>1. busy \in [does : Doings, who : Fibers \cup {None}, lane : Lanes \cup {None}, left : SUBSET Lanes]
      BY DEF Idle, Doing, Doings
    <2>2. at \in [Fibers -> Wheres] /\ todo \in Seq(Tasks)
      BY DEF Wheres
    <2>3. observed = {} /\ waiters = {} /\ frees \in BOOLEAN /\ joinee \in Lanes \cup {None}
      OBVIOUS
    <2> QED
      BY <2>1, <2>2, <2>3 DEF FibersOK
  <1>5. BusyInv
    BY <1>3 DEF BusyInv, Submitting
  <1>6. ASSUME NEW l \in Lanes PROVE LaneInv(l)
    <2>1. /\ inbox[l] = <<>> /\ outbox[l] = <<>> /\ thread[l].at = "pop" /\ thread[l].task = None /\ pending[l] = {}
          /\ inflight[l] = 0 /\ up[l] # "retired"
      BY DEF Thread
    <2>2. TasksOf(outbox[l]) = <<>>
      BY <2>1 DEF TasksOf
    <2>3. \A t \in Tasks : ~Somewhere(l, t)
      BY <1>0, <1>3, <2>1, <2>2 DEF Somewhere, In, Held, Out, Pushing, Contains
    <2>4. Apart(l)
      BY <2>1, <2>2, <2>3 DEF Apart, Distinct, Somewhere
    <2>5. Counted(l)
      BY <2>1, FS_EmptySet DEF Counted
    <2>6. Booked(l) /\ Joined(l)
      BY <1>3, <2>1, <2>3 DEF Booked, Joined
    <2>7. Thready(l)
      BY <2>1 DEF Thready
    <2> QED
      BY <2>4, <2>5, <2>6, <2>7 DEF LaneInv
  <1>7. ASSUME NEW t \in Tasks PROVE TaskInv(t) /\ MoveInv(t)
    <2>1. /\ state[t] = "new" /\ on[t] = None /\ status[t] = None /\ storage[t] = None /\ at[t] = "no"
          /\ \A l \in Lanes : pending[l] = {}
      BY <1>0
    <2> QED
      BY <2>1 DEF TaskInv, MoveInv, None
  <1>8. ASSUME NEW f \in Fibers PROVE FiberInv(f)
    <2>1. at[f] = "no" /\ waiters = {}
      OBVIOUS
    <2> QED
      BY <2>1 DEF FiberInv
  <1>9. ListInv
    <2>1. list = <<>> /\ todo = <<>> /\ at["close"] = "no" /\ \A t \in Tasks : state[t] = "new"
      BY <1>0
    <2> QED
      BY <2>1 DEF ListInv, Distinct, Contains, Heading
  <1> QED
    BY <1>1, <1>2, <1>4, <1>5, <1>6, <1>7, <1>8, <1>9 DEF IInv, Inv, Typed, LaneInvs, TaskInvs, FiberInvs, MoveInvs

\* The invariant is inductive.
LEMMA InvStep ==
    ASSUME Named, Inv, [Next]_vars
    PROVE  Inv'
  BY TypedStep, BusyStep, LanesStep, TasksStep, FibersStep, ListStep DEF Inv, TaskInvs, FiberInvs

\* The same with moved storage, where no await is abandoned.
LEMMA IInvStep ==
    ASSUME Named, Abandons => Moving = {}, IInv, [Next]_vars
    PROVE  IInv'
  BY InvStep, MoveStep DEF IInv, MoveInvs

\* A sequence and the set of its members.
LEMMA ToSetFacts ==
    ASSUME NEW S, NEW s \in Seq(S)
    PROVE  /\ \A y : y \in ToSet(s) <=> Contains(s, y)
           /\ Distinct(s) <=> IsInjective(s)
  <1>1. DOMAIN s = 1..Len(s)
    OBVIOUS
  <1> QED
    BY <1>1 DEF ToSet, Contains, Distinct, IsInjective

\* What is in a lane's places: each task that is somewhere, once.
LEMMA PlacesFacts ==
    ASSUME Named, Inv, NEW l \in Lanes
    PROVE  /\ ToSet(InPlaces(l)) = {t \in Tasks : Somewhere(l, t)}
           /\ IsInjective(InPlaces(l))
  <1> DEFINE a == inbox[l]
             b == IF thread[l].task = None THEN <<>> ELSE <<thread[l].task>>
             c == TasksOf(outbox[l])
             d == IF busy.does = "push" /\ busy.lane = l THEN <<busy.who>> ELSE <<>>
  <1>0. Typed /\ LaneInv(l) /\ Apart(l)
    BY DEF Inv, LaneInvs, LaneInv
  <1>1. a \in Seq(Tasks) /\ c \in Seq(Tasks) /\ Distinct(a) /\ Distinct(c)
    BY <1>0, TasksOfFacts DEF Typed, LanesOK, Apart
  <1>2. b \in Seq(Tasks) /\ Distinct(b) /\ \A y \in Tasks : Contains(b, y) <=> Held(l, y)
    <2>1. CASE thread[l].task = None
      BY <2>1 DEF Distinct, Contains, Held, Named
    <2>2. CASE thread[l].task # None
      <3>1. thread[l].task \in Tasks
        BY <1>0, <2>2 DEF Typed, LanesOK
      <3> QED
        BY <2>2, <3>1 DEF Distinct, Contains, Held
    <2> QED
      BY <2>1, <2>2
  <1>3. d \in Seq(Tasks) /\ Distinct(d) /\ \A y \in Tasks : Contains(d, y) <=> Pushing(l, y)
    <2>1. CASE busy.does = "push" /\ busy.lane = l
      <3>1. busy.who \in Tasks
        BY <2>1 DEF Inv, BusyInv
      <3> QED
        BY <2>1, <3>1 DEF Distinct, Contains, Pushing
    <2>2. CASE ~(busy.does = "push" /\ busy.lane = l)
      BY <2>2 DEF Distinct, Contains, Pushing
    <2> QED
      BY <2>1, <2>2
  <1>4. InPlaces(l) = ((a \o b) \o c) \o d
    BY DEF InPlaces, TasksOf
  <1>5. /\ \A y \in Tasks : Contains(a, y) <=> In(l, y)
        /\ \A y \in Tasks : Contains(c, y) <=> Out(l, y)
    BY DEF In, Out
  <1> HIDE DEF a, b, c, d
  <1>6. /\ a \o b \in Seq(Tasks) /\ Distinct(a \o b)
        /\ \A y : Contains(a \o b, y) <=> Contains(a, y) \/ Contains(b, y)
    BY <1>0, <1>1, <1>2, <1>5, ConcatFacts DEF Apart
  <1>7. /\ (a \o b) \o c \in Seq(Tasks) /\ Distinct((a \o b) \o c)
        /\ \A y : Contains((a \o b) \o c, y) <=> Contains(a \o b, y) \/ Contains(c, y)
    BY <1>0, <1>1, <1>2, <1>5, <1>6, ConcatFacts DEF Apart
  <1>8. /\ ((a \o b) \o c) \o d \in Seq(Tasks) /\ Distinct(((a \o b) \o c) \o d)
        /\ \A y : Contains(((a \o b) \o c) \o d, y) <=> Contains((a \o b) \o c, y) \/ Contains(d, y)
    <2>1. \A y \in Tasks : ~(Contains((a \o b) \o c, y) /\ Contains(d, y))
      BY <1>0, <1>2, <1>3, <1>5, <1>6, <1>7 DEF Apart
    <2> DEFINE e == (a \o b) \o c
    <2>2. e \in Seq(Tasks) /\ Distinct(e) /\ \A y \in Tasks : ~(Contains(e, y) /\ Contains(d, y))
      BY <1>7, <2>1
    <2> HIDE DEF e
    <2>3. e \o d \in Seq(Tasks) /\ Distinct(e \o d) /\ \A y : Contains(e \o d, y) <=> Contains(e, y) \/ Contains(d, y)
      BY <1>3, <2>2, ConcatFacts
    <2> QED
      BY <2>3 DEF e
  <1>9. ToSet(InPlaces(l)) \subseteq Tasks
    BY <1>4, <1>8 DEF ToSet
  <1>10. \A y \in Tasks : y \in ToSet(InPlaces(l)) <=> Somewhere(l, y)
    BY <1>2, <1>3, <1>4, <1>5, <1>6, <1>7, <1>8, ToSetFacts DEF Somewhere
  <1> QED
    BY <1>4, <1>8, <1>9, <1>10, ToSetFacts

\* The books account for every reply.
LEMMA InvReplies ==
    ASSUME Named, Inv
    PROVE  RepliesAccounted
  <1>1. SUFFICES ASSUME NEW l \in Lanes
                 PROVE  /\ inflight[l] = Cardinality(pending[l])
                        /\ ToSet(InPlaces(l)) \subseteq pending[l] /\ IsInjective(InPlaces(l))
                        /\ l \notin crashed => ToSet(InPlaces(l)) = pending[l] /\ (up[l] = "retired" => pending[l] = {})
                        /\ \A f \in waiters : at[f] = "reply" => ~Ready(Target(f))
    BY DEF RepliesAccounted
  <1>2. LaneInv(l) /\ pending[l] \subseteq Tasks /\ waiters \subseteq Fibers
    BY DEF Inv, LaneInvs, Typed, BooksOK, FibersOK
  <1>3. inflight[l] = Cardinality(pending[l]) /\ (l \notin crashed => (up[l] = "retired" => pending[l] = {}))
    BY <1>2 DEF LaneInv, Counted, Joined
  <1>4. /\ ToSet(InPlaces(l)) \subseteq pending[l] /\ IsInjective(InPlaces(l))
        /\ l \notin crashed => ToSet(InPlaces(l)) = pending[l]
    BY <1>2, PlacesFacts DEF LaneInv, Booked
  <1>5. \A f \in waiters : at[f] = "reply" => ~Ready(Target(f))
    BY <1>2 DEF Inv, FiberInvs, FiberInv
  <1> QED
    BY <1>3, <1>4, <1>5

\* A task that was taken back has not run.
LEMMA InvTakenBack ==
    ASSUME Inv
    PROVE  TakenBackNeverRuns
  BY DEF Inv, TaskInvs, TaskInv, TakenBackNeverRuns, Ready

\* A moved result has an owner.
LEMMA InvMoved ==
    ASSUME Named, IInv
    PROVE  MovedOwned
  <1>1. SUFFICES ASSUME NEW t \in Tasks, storage[t] = "result", Ready(t)
                 PROVE  t \in ToSet(list) \/ at[t] \in {"isdone", "reply", "end"} \/ t \in ToSet(todo)
    BY DEF MovedOwned
  <1>2. list \in Seq(Tasks) /\ todo \in Seq(Tasks)
    BY DEF IInv, Inv, Typed, BooksOK, FibersOK
  <1>3. Contains(list, t) \/ at[t] \in {"isdone", "reply", "end"} \/ Freed(t)
    BY <1>1 DEF IInv, MoveInvs, MoveInv
  <1>4. Freed(t) => Contains(todo, t)
    BY <1>2, HeadOrTail DEF Freed, Heading
  <1> QED
    BY <1>2, <1>3, <1>4, ToSetFacts

\* A scope that returned from closing left nothing.
LEMMA InvClosed ==
    ASSUME Named, IInv
    PROVE  CloseLeavesNothing
  <1>1. SUFFICES ASSUME at["close"] = "returned"
                 PROVE  Owned = {} /\ list = <<>> /\ \A t \in Tasks : state[t] # "queued" /\ storage[t] # "result"
    BY DEF CloseLeavesNothing
  <1>2. todo = <<>> /\ Owned = {} /\ \A t \in Tasks : Contains(list, t) => Contains(todo, t)
    BY <1>1 DEF IInv, Inv, ListInv
  <1>3. \A t \in Tasks : ~Contains(list, t)
    BY <1>2 DEF Contains
  <1>4. list = <<>>
    <2>1. list \in Seq(Tasks)
      BY DEF IInv, Inv, Typed, BooksOK
    <2> QED
      BY <1>3, <2>1, HeadOrTail
  <1>5. ASSUME NEW t \in Tasks PROVE state[t] # "queued" /\ storage[t] # "result"
    <2>1. busy.does # "push"
      BY <1>1 DEF IInv, Inv, BusyInv
    <2>2. state[t] # "queued"
      BY <1>3, <2>1 DEF IInv, Inv, ListInv
    <2>3. at[t] \notin {"isdone", "reply", "end"}
      BY <1>1 DEF IInv, Inv, FiberInvs, FiberInv, Fibers
    <2>4. ~Freed(t)
      BY <1>2 DEF Freed, Heading
    <2>5. storage[t] = "result" => ~Ready(t)
      BY <1>3, <2>3, <2>4 DEF IInv, MoveInvs, MoveInv
    <2> QED
      BY <2>2, <2>5, ResultFacts DEF IInv
  <1> QED
    BY <1>2, <1>4, <1>5

\* Replies are accounted for in every scope of workers, with any tasks, lanes
\* and room, whether or not awaits are abandoned and results move: a lane's
\* counter is the number of tasks it owes, each is in one place until its reply
\* is routed, no reply is lost to a join and none is routed past a coroutine
\* that is parked for it.
THEOREM RepliesAlwaysAccounted ==
    ASSUME Named
    PROVE  Spec => [](RepliesAccounted /\ TakenBackNeverRuns)
  <1>1. Init => Inv
    BY InitInv DEF IInv
  <1>2. Inv /\ [Next]_vars => Inv'
    BY InvStep
  <1>3. Inv => RepliesAccounted /\ TakenBackNeverRuns
    BY InvReplies, InvTakenBack
  <1> QED
    BY <1>1, <1>2, <1>3, PTL DEF Spec

\* Where no await is abandoned whose result would move storage: every reply is
\* routed once and past nobody, a task taken back never runs, a moved result
\* always has an owner, and a scope that closed without raising has settled its
\* tasks, joined its dedicated lanes and freed what nobody took, in every order
\* of replies, cancellations, early ends, polls and closes.
THEOREM WorkersAlwaysSound ==
    ASSUME Named, Abandons => Moving = {}
    PROVE  Spec => []WorkersSound
  <1>1. Init => IInv
    BY InitInv
  <1>2. IInv /\ [Next]_vars => IInv'
    BY IInvStep
  <1>3. IInv => WorkersSound
    BY InvReplies, InvTakenBack, InvMoved, InvClosed DEF IInv, WorkersSound
  <1> QED
    BY <1>1, <1>2, <1>3, PTL DEF Spec
=============================================================================
