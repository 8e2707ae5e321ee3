----------------------- MODULE TaskScopeWaits_proofs ------------------------
(***************************************************************************)
(* The waits of a TaskScope: every open wait for a sibling or for a slot   *)
(* has its resume in exactly one place, registered or owed, and nothing    *)
(* resumes a wait that is over or was given up.  With LifeInv this makes   *)
(* MembersSound an invariant.                                              *)
(*                                                                         *)
(* Wait(t) says so of one child.  A step leaves most children alone        *)
(* (WaitStays); a child that moves was registered nowhere (WaitFree), and  *)
(* the few steps that register, call or drop a resume have lemmas of their *)
(* own.                                                                    *)
(***************************************************************************)
EXTENDS TaskScope_proofs, FiniteSetTheorems

-----------------------------------------------------------------------------
(* The resumes in a sequence of callbacks *)

\* The resume of p is among them.
ResumeIn(s, p) == \E i \in 1..Len(s) : s[i] = Call("resume", p)

\* No wait is resumed twice.
Once(s) == \A i, j \in 1..Len(s) : s[i].do = "resume" /\ s[i] = s[j] => i = j

\* A resume is one of a child or of the block.
LEMMA ResumeShape ==
    ASSUME NEW c \in Callbacks, c.do = "resume"
    PROVE  c = Call("resume", c.who) /\ c.who \in Tasks \union {Block}
  <1>1. c \in [do : {"resume"}, who : Tasks \union {Block}]
    BY DEF Callbacks
  <1> QED
    BY <1>1 DEF Call

\* The resumes of two sequences, one after the other.
LEMMA ConcatResumes ==
    ASSUME NEW a \in Seq(Callbacks), NEW b \in Seq(Callbacks)
    PROVE  /\ a \o b \in Seq(Callbacks)
           /\ \A p : ResumeIn(a \o b, p) <=> ResumeIn(a, p) \/ ResumeIn(b, p)
           /\ Once(a) /\ Once(b)
              /\ (\A p \in Tasks \union {Block} : ~(ResumeIn(a, p) /\ ResumeIn(b, p)))
              => Once(a \o b)
  <1> DEFINE c == a \o b
  <1>1. c \in Seq(Callbacks) /\ Len(c) = Len(a) + Len(b) /\ Len(a) \in Nat /\ Len(b) \in Nat
    OBVIOUS
  <1>2. \A i \in 1..Len(a) : c[i] = a[i]
    OBVIOUS
  <1>3. \A i \in 1..Len(b) : c[Len(a) + i] = b[i]
    OBVIOUS
  <1> HIDE DEF c
  <1>4. \A i \in 1..Len(c) : i \in 1..Len(a) \/ (i - Len(a) \in 1..Len(b) /\ i = Len(a) + (i - Len(a)))
    BY <1>1
  <1>5. \A i \in 1..Len(a) : i \in 1..Len(c)
    BY <1>1
  <1>6. \A i \in 1..Len(b) : Len(a) + i \in 1..Len(c)
    BY <1>1
  <1>7. ASSUME NEW p PROVE ResumeIn(c, p) <=> ResumeIn(a, p) \/ ResumeIn(b, p)
    <2>1. ResumeIn(a, p) => ResumeIn(c, p)
      BY <1>2, <1>5 DEF ResumeIn
    <2>2. ResumeIn(b, p) => ResumeIn(c, p)
      BY <1>3, <1>6 DEF ResumeIn
    <2>3. ResumeIn(c, p) => ResumeIn(a, p) \/ ResumeIn(b, p)
      BY <1>2, <1>3, <1>4 DEF ResumeIn
    <2> QED
      BY <2>1, <2>2, <2>3
  <1>8. ASSUME Once(a), Once(b),
               \A p \in Tasks \union {Block} : ~(ResumeIn(a, p) /\ ResumeIn(b, p))
        PROVE  Once(c)
    <2> SUFFICES ASSUME NEW i \in 1..Len(c), NEW j \in 1..Len(c), c[i].do = "resume", c[i] = c[j]
                 PROVE  i = j
      BY DEF Once
    <2>1. c[i] \in Callbacks
      BY <1>1
    <2>2. PICK p \in Tasks \union {Block} : c[i] = Call("resume", p)
      BY <2>1, ResumeShape
    <2>3. CASE i \in 1..Len(a) /\ j \in 1..Len(a)
      BY <2>3, <1>2, <1>8 DEF Once
    <2>4. CASE i - Len(a) \in 1..Len(b) /\ j - Len(a) \in 1..Len(b)
      <3>1. b[i - Len(a)] = c[i] /\ b[j - Len(a)] = c[j]
        <4>1. i = Len(a) + (i - Len(a)) /\ j = Len(a) + (j - Len(a))
          BY <1>1
        <4> QED
          BY <2>4, <4>1, <1>3
      <3>2. i - Len(a) = j - Len(a)
        BY <2>4, <3>1, <1>8 DEF Once
      <3> QED
        BY <3>2, <1>1
    <2>5. ASSUME NEW k \in 1..Len(c), NEW l \in 1..Len(c), c[k] = c[i], c[l] = c[i],
                 k \in 1..Len(a), l - Len(a) \in 1..Len(b)
          PROVE  FALSE
      <3>1. ResumeIn(a, p)
        BY <2>2, <2>5, <1>2 DEF ResumeIn
      <3>2. ResumeIn(b, p)
        <4>1. l = Len(a) + (l - Len(a))
          BY <1>1
        <4>2. b[l - Len(a)] = c[l]
          BY <2>5, <4>1, <1>3
        <4> QED
          BY <2>2, <2>5, <4>2 DEF ResumeIn
      <3> QED
        BY <3>1, <3>2, <1>8
    <2> QED
      BY <1>4, <2>3, <2>4, <2>5
  <1> QED
    BY <1>1, <1>7, <1>8 DEF c

\* The resumes of those who wait in a sequence.
LEMMA AllResumes ==
    ASSUME NEW s \in Seq(Tasks)
    PROVE  /\ CallAll("resume", s) \in Seq(Callbacks)
           /\ \A p : ResumeIn(CallAll("resume", s), p) <=> Contains(s, p)
           /\ Distinct(s) => Once(CallAll("resume", s))
  <1> DEFINE c == CallAll("resume", s)
  <1>1. c \in Seq(Callbacks)
    BY CallAllTypes
  <1>2. Len(c) = Len(s) /\ \A i \in 1..Len(s) : c[i] = Call("resume", s[i])
    BY DEF CallAll
  <1>3. \A x, y : Call("resume", x) = Call("resume", y) <=> x = y
    <2> TAKE x, y
    <2>1. Call("resume", x).who = x /\ Call("resume", y).who = y
      BY DEF Call
    <2> QED
      BY <2>1
  <1> HIDE DEF c
  <1>4. \A p : ResumeIn(c, p) <=> Contains(s, p)
    BY <1>2, <1>3 DEF ResumeIn, Contains
  <1>5. Distinct(s) => Once(c)
    BY <1>2, <1>3 DEF Distinct, Once
  <1> QED
    BY <1>1, <1>4, <1>5 DEF c

\* Requests, cancels and the rest resume nobody.
LEMMA NoResumes ==
    ASSUME NEW s \in Seq(Callbacks), \A i \in 1..Len(s) : s[i].do # "resume"
    PROVE  Once(s) /\ \A p : ~ResumeIn(s, p)
  BY DEF Once, ResumeIn, Call

\* Nor does what asks everybody to stop.
LEMMA CancellingResumes ==
    ASSUME NEW l \in Seq(Tasks), NEW o \in Seq(Forks)
    PROVE  /\ Cancelling(l, o) \in Seq(Callbacks)
           /\ Once(Cancelling(l, o)) /\ \A p : ~ResumeIn(Cancelling(l, o), p)
  <1>1. /\ CallAll("request", l) \in Seq(Callbacks)
        /\ \A i \in 1..Len(CallAll("request", l)) : CallAll("request", l)[i].do # "resume"
    BY CallAllTypes DEF CallAll, Call
  <1>2. /\ CallAll("cancel", o) \in Seq(Callbacks)
        /\ \A i \in 1..Len(CallAll("cancel", o)) : CallAll("cancel", o)[i].do # "resume"
    BY CallAllTypes DEF CallAll, Call
  <1>3. /\ Once(CallAll("request", l)) /\ \A p : ~ResumeIn(CallAll("request", l), p)
    BY <1>1, NoResumes
  <1>4. /\ Once(CallAll("cancel", o)) /\ \A p : ~ResumeIn(CallAll("cancel", o), p)
    BY <1>2, NoResumes
  <1> QED
    BY <1>1, <1>2, <1>3, <1>4, ConcatResumes DEF Cancelling

\* One callback, and none.
LEMMA OneResume ==
    /\ <<>> \in Seq(Callbacks) /\ Once(<<>>) /\ \A p : ~ResumeIn(<<>>, p)
    /\ \A c \in Callbacks : /\ <<c>> \in Seq(Callbacks) /\ Once(<<c>>)
                            /\ c.do # "resume" => \A p : ~ResumeIn(<<c>>, p)
    /\ \A q : \A p : ResumeIn(<<Call("resume", q)>>, p) <=> p = q
  <1>1. <<>> \in Seq(Callbacks) /\ Once(<<>>) /\ \A p : ~ResumeIn(<<>>, p)
    BY DEF Once, ResumeIn
  <1>2. \A c \in Callbacks : /\ <<c>> \in Seq(Callbacks) /\ Once(<<c>>)
                             /\ c.do # "resume" => \A p : ~ResumeIn(<<c>>, p)
    BY DEF Once, ResumeIn, Call
  <1>3. ASSUME NEW q, NEW p PROVE ResumeIn(<<Call("resume", q)>>, p) <=> p = q
    <2>1. ResumeIn(<<Call("resume", q)>>, p) <=> Call("resume", q) = Call("resume", p)
      BY DEF ResumeIn
    <2>2. Call("resume", q).who = q /\ Call("resume", p).who = p
      BY DEF Call
    <2> QED
      BY <2>1, <2>2
  <1> QED
    BY <1>1, <1>2, <1>3

\* The callback that is made next is no longer owed.
LEMMA TailResumes ==
    ASSUME NEW s \in Seq(Callbacks), s # <<>>, Once(s)
    PROVE  /\ Tail(s) \in Seq(Callbacks) /\ Once(Tail(s)) /\ Head(s) \in Callbacks
           /\ Head(s).do # "resume" => \A p : ResumeIn(Tail(s), p) <=> ResumeIn(s, p)
           /\ Head(s).do = "resume" =>
                /\ ResumeIn(s, Head(s).who)
                /\ \A p : ResumeIn(Tail(s), p) <=> ResumeIn(s, p) /\ p # Head(s).who
  <1> DEFINE u == Tail(s)
  <1>1. /\ u \in Seq(Callbacks) /\ Len(u) = Len(s) - 1 /\ Len(s) > 0 /\ Head(s) = s[1]
        /\ s[1] \in Callbacks /\ \A i \in 1..Len(u) : u[i] = s[i + 1]
    OBVIOUS
  <1> HIDE DEF u
  <1>2. \A i \in 1..Len(u) : i + 1 \in 1..Len(s) /\ i + 1 # 1
    BY <1>1
  <1>3. Once(u)
    BY <1>1, <1>2 DEF Once
  <1>4. \A p : ResumeIn(u, p) => ResumeIn(s, p)
    BY <1>1, <1>2 DEF ResumeIn
  <1>5. ASSUME NEW p, NEW i \in 1..Len(s), s[i] = Call("resume", p), i # 1 PROVE ResumeIn(u, p)
    <2>1. i - 1 \in 1..Len(u) /\ (i - 1) + 1 = i
      BY <1>1, <1>5
    <2> QED
      BY <1>1, <1>5, <2>1 DEF ResumeIn
  <1>6. ASSUME Head(s).do # "resume", NEW p, ResumeIn(s, p) PROVE ResumeIn(u, p)
    BY <1>1, <1>5, <1>6 DEF ResumeIn, Call
  <1>7. ASSUME Head(s).do = "resume"
        PROVE  /\ ResumeIn(s, Head(s).who)
               /\ \A p : ResumeIn(u, p) <=> ResumeIn(s, p) /\ p # Head(s).who
    <2>1. s[1] = Call("resume", Head(s).who) /\ 1 \in 1..Len(s)
      BY <1>1, <1>7, ResumeShape
    <2>2. ASSUME NEW p, ResumeIn(s, p), p # Head(s).who PROVE ResumeIn(u, p)
      <3>1. Call("resume", p) # s[1]
        BY <2>1, <2>2 DEF Call
      <3> QED
        BY <2>2, <3>1, <1>5 DEF ResumeIn
    <2>3. ~ResumeIn(u, Head(s).who)
      BY <1>1, <1>2, <1>7, <2>1 DEF ResumeIn, Once
    <2> QED
      BY <2>1, <2>2, <2>3, <1>4 DEF ResumeIn
  <1> QED
    BY <1>1, <1>3, <1>4, <1>6, <1>7 DEF u

-----------------------------------------------------------------------------
(* Waits and the resumes they were given *)

\* A child that waits for nothing, or whose wait is over.
Free(t) == act[t].at \notin Waits \/ act[t].ready

\* Where the resume of a child is registered, or owed, its wait is open; an
\* open wait for a sibling or a slot has its resume in one place.
Wait(t) ==
    /\ \A u \in Tasks : Contains(waiters[u], t) => Awaiting(t, u)
    /\ \A u \in Tasks : Awaiting(t, u) => (Contains(waiters[u], t) <=> ~ResumeIn(owed, t))
    /\ Contains(slotWaiters, t) => act[t].at = "lend" /\ ~act[t].ready
    /\ act[t].at = "lend" /\ ~act[t].ready => (Contains(slotWaiters, t) <=> ~ResumeIn(owed, t))
    /\ ResumeIn(owed, t) => ~Free(t)
    /\ \A w \in Forks : fork[w].waiter = t =>
         act[t].at = "fork" /\ act[t].on = w /\ ~act[t].ready /\ ~ResumeIn(owed, t)

\* So for every child.
Waitings == \A t \in Tasks : Wait(t)

\* Nobody is registered twice.
Registered == (\A u \in Tasks : Distinct(waiters[u])) /\ Distinct(slotWaiters) /\ Once(owed)

\* A worker task resumes the block only out of the wait for its reply.
BlockWaits ==
    \A w \in Forks : fork[w].waiter = Block =>
        block.wait = "reply" /\ block.fork = w /\ ~block.ready /\ ~ResumeIn(owed, Block)

\* The invariant.
WaitInv == Waitings /\ Registered /\ BlockWaits

\* The waits are what WaitersSound says of them.
LEMMA WaitSound ==
    ASSUME WaitInv
    PROVE  WaitersSound
  <1>1. \A t : Resuming(t) <=> ResumeIn(owed, t)
    BY DEF Resuming, ResumeIn
  <1> QED
    BY <1>1 DEF WaitInv, Waitings, Wait, Registered, WaitersSound, Once, Free

\* A free child is registered nowhere.
LEMMA FreeUnregistered ==
    ASSUME NEW t \in Tasks, Wait(t), Free(t)
    PROVE  /\ \A u \in Tasks : ~Contains(waiters[u], t)
           /\ ~Contains(slotWaiters, t) /\ ~ResumeIn(owed, t)
           /\ \A w \in Forks : fork[w].waiter # t
  BY DEF Wait, Free, Awaiting, Waits

\* A child whose wait and whose registrations stay.
LEMMA WaitStays ==
    ASSUME NEW t \in Tasks, Wait(t), act'[t] = act[t],
           \A u \in Tasks : Contains(waiters'[u], t) <=> Contains(waiters[u], t),
           Contains(slotWaiters', t) <=> Contains(slotWaiters, t),
           ResumeIn(owed', t) <=> ResumeIn(owed, t),
           \A w \in Forks : fork'[w].waiter = t => fork[w].waiter = t
    PROVE  Wait(t)'
  BY DEF Wait, Free, Awaiting

\* A child that is registered nowhere and does not wait for a sibling or a slot.
LEMMA WaitFree ==
    ASSUME NEW t \in Tasks, act'[t].at \notin {"await", "lend"} \/ act'[t].ready,
           \A u \in Tasks : ~Contains(waiters'[u], t),
           ~Contains(slotWaiters', t), ~ResumeIn(owed', t),
           \A w \in Forks : fork'[w].waiter # t
    PROVE  Wait(t)'
  BY DEF Wait, Free, Awaiting

\* Whoever moves was free and registers nowhere.
Moves(t) == Free(t) /\ (act'[t].at \notin {"await", "lend"} \/ act'[t].ready)

\* The same waits are owed a resume.
SameResumes == Once(owed') /\ \A p \in Tasks : ResumeIn(owed', p) <=> ResumeIn(owed, p)

\* No child starts waiting for a worker task.
NoNewWaiter == \A w \in Forks : fork'[w].waiter \in {fork[w].waiter, NoOne, Block}

\* The children are none of the other names.
LEMMA Names == Block \notin Tasks /\ NoOne \notin Tasks /\ Block # NoOne
  BY TasksAssumption DEF Block, NoOne

\* A step in which some free children move and nobody registers.
LEMMA WaitMoves ==
    ASSUME Waitings, Registered, UNCHANGED <<waiters, slotWaiters>>, SameResumes, NoNewWaiter,
           \A t \in Tasks : act'[t] = act[t] \/ Moves(t)
    PROVE  Waitings' /\ Registered'
  <1>1. Registered'
    BY DEF Registered, SameResumes
  <1>2. ASSUME NEW t \in Tasks PROVE Wait(t)'
    <2>0. Wait(t)
      BY DEF Waitings
    <2>1. \A w \in Forks : fork'[w].waiter = t => fork[w].waiter = t
      BY Names DEF NoNewWaiter
    <2>2. CASE act'[t] = act[t]
      BY <2>0, <2>1, <2>2, WaitStays DEF SameResumes
    <2>3. CASE Moves(t)
      BY <2>0, <2>1, <2>3, FreeUnregistered, WaitFree DEF SameResumes, Moves
    <2> QED
      BY <2>2, <2>3
  <1> QED
    BY <1>1, <1>2 DEF Waitings

\* The block's wait for a reply stays, or is given up with its registration.
LEMMA BlockWaitStays ==
    ASSUME BlockWaits,
           \A w \in Forks : fork'[w].waiter = Block =>
              /\ fork[w].waiter = Block
              /\ block'.wait = block.wait /\ block'.fork = block.fork /\ block'.ready = block.ready
              /\ ResumeIn(owed', Block) => ResumeIn(owed, Block)
    PROVE  BlockWaits'
  BY DEF BlockWaits

\* Nothing is owed while somebody runs.
LEMMA QuietResumes ==
    ASSUME Quiet
    PROVE  Once(owed) /\ \A p : ~ResumeIn(owed, p)
  BY OneResume DEF Quiet

\* What asks everybody to stop resumes nobody.
LEMMA QuietSame ==
    ASSUME TypeOK, Quiet,
           \/ UNCHANGED owed \/ owed' = Cancelling(list, outstanding) \/ DeadlinePassed
           \/ owed' = <<>>
           \/ \E c \in Callbacks : c.do # "resume" /\ owed' = <<c>>
    PROVE  SameResumes /\ (ResumeIn(owed', Block) => ResumeIn(owed, Block))
  <1>1. list \in Seq(Tasks) /\ outstanding \in Seq(Forks)
    BY DEF TypeOK, ScheduleOK, LanesOK
  <1>2. owed' = owed \/ owed' = Cancelling(list, outstanding)
        \/ owed' = <<>> \/ \E c \in Callbacks : c.do # "resume" /\ owed' = <<c>>
    BY DEF DeadlinePassed
  <1>3. Once(owed') /\ \A p : ~ResumeIn(owed', p)
    BY <1>1, <1>2, QuietResumes, OneResume, CancellingResumes
  <1> QED
    BY <1>3, QuietResumes DEF SameResumes

-----------------------------------------------------------------------------
(* Resumes that are made or become owed *)

\* Children who wait for a slot are resumed, and nobody else but who is called after.
LEMMA WaitSlotsWoken ==
    ASSUME TypeOK, Waitings, Registered, NEW cs \in Seq(Callbacks), NEW after \in Seq(Callbacks),
           Once(cs), \A p : ~ResumeIn(cs, p),
           Once(after), \A t \in Tasks : Contains(slotWaiters, t) => ~ResumeIn(after, t)
    PROVE  LET o == cs \o WakeSlots \o after IN
           /\ Once(o)
           /\ \A t \in Tasks : ResumeIn(o, t) <=> Contains(slotWaiters, t) \/ ResumeIn(after, t)
           /\ ResumeIn(o, Block) <=> ResumeIn(after, Block)
  <1> DEFINE s == WakeSlots
             c == cs \o s
  <1>0. slotWaiters \in Seq(Tasks)
    BY DEF TypeOK, SlotsOK
  <1>1. /\ s \in Seq(Callbacks) /\ Once(s) /\ \A p : ResumeIn(s, p) <=> Contains(slotWaiters, p)
    BY <1>0, AllResumes DEF WakeSlots, Registered
  <1>2. ~Contains(slotWaiters, Block)
    BY <1>0, Names DEF Contains
  <1> HIDE DEF s
  <1>3. c \in Seq(Callbacks) /\ Once(c) /\ \A p : ResumeIn(c, p) <=> Contains(slotWaiters, p)
    BY <1>1, ConcatResumes
  <1> HIDE DEF c
  <1>4. \A p \in Tasks \union {Block} : ~(ResumeIn(c, p) /\ ResumeIn(after, p))
    BY <1>2, <1>3
  <1>5. Once(c \o after) /\ \A p : ResumeIn(c \o after, p) <=> ResumeIn(c, p) \/ ResumeIn(after, p)
    BY <1>3, <1>4, ConcatResumes
  <1>6. c \o after = cs \o WakeSlots \o after
    BY DEF c, s
  <1> QED
    BY <1>2, <1>3, <1>5, <1>6

\* The resume that is made ends the wait it was given to.
LEMMA WaitResume ==
    ASSUME LifeInv, WaitInv, RunResume
    PROVE  WaitInv'
  <1> DEFINE p == Head(owed).who
  <1> USE DEF WaitInv
  <1>1. owed \in Seq(Callbacks) /\ owed # <<>> /\ Head(owed).do = "resume" /\ owed' = Tail(owed)
        /\ UNCHANGED <<waiters, slotWaiters, fork>>
    BY DEF RunResume, LifeInv, TypeOK, ControlOK, slots, lanes
  <1>2. /\ Once(owed') /\ p \in Tasks \union {Block} /\ ResumeIn(owed, p)
        /\ \A q : ResumeIn(owed', q) <=> ResumeIn(owed, q) /\ q # p
    BY <1>1, TailResumes, ResumeShape DEF Registered
  <1>3. Registered'
    BY <1>1, <1>2 DEF Registered
  <1>4. \/ p = Block /\ block' = [block EXCEPT !.ready = TRUE] /\ UNCHANGED act
        \/ p # Block /\ act' = [act EXCEPT ![p].ready = TRUE] /\ MarkRunnable(p)
    BY DEF RunResume
  <1> HIDE DEF p
  <1>5. act \in [Tasks -> [at : Places, on : Nat, ready : BOOLEAN]]
    BY DEF LifeInv, TypeOK, ControlOK
  <1>6. ASSUME NEW t \in Tasks PROVE Wait(t)'
    <2>1. Wait(t)
      BY DEF Waitings
    <2>2. CASE t # p
      <3>1. act'[t] = act[t]
        BY <1>4, <2>2, <1>5
      <3> QED
        BY <1>1, <1>2, <2>1, <2>2, <3>1, WaitStays
    <2>3. CASE t = p
      <3>1. act'[t].at = act[t].at /\ act'[t].ready = TRUE
        BY <1>4, <1>5, <2>3, Names
      <3>2. ResumeIn(owed, t) /\ ~ResumeIn(owed', t)
        BY <1>2, <2>3
      <3>3. /\ \A u \in Tasks : ~Contains(waiters[u], t)
            /\ ~Contains(slotWaiters, t) /\ \A w \in Forks : fork[w].waiter # t
        BY <2>1, <3>2 DEF Wait
      <3> QED
        BY <1>1, <3>1, <3>2, <3>3, WaitFree
    <2> QED
      BY <2>2, <2>3
  <1>7. BlockWaits'
    <2>1. CASE p = Block
      BY <1>1, <1>2, <2>1 DEF BlockWaits
    <2>2. CASE p # Block
      <3>1. block' = block \/ (FireWakers /\ "park" \in wakers)
        BY <1>4, <2>2 DEF MarkRunnable, FireWakers
      <3>2. CASE block' = block
        BY <1>1, <1>2, <3>2, BlockWaitStays
      <3>3. CASE FireWakers /\ "park" \in wakers
        BY <1>1, <3>3 DEF BlockWaits, LifeInv, Waiting
      <3> QED
        BY <3>1, <3>2, <3>3
    <2> QED
      BY <2>1, <2>2
  <1> QED
    BY <1>3, <1>6, <1>7 DEF Waitings

\* A callback that only makes a child runnable.
LEMMA WaitMark ==
    ASSUME LifeInv, WaitInv, RunRequest \/ RunMark
    PROVE  WaitInv'
  <1> USE DEF WaitInv
  <1>1. /\ owed \in Seq(Callbacks) /\ owed # <<>> /\ Head(owed).do # "resume" /\ owed' = Tail(owed)
        /\ UNCHANGED <<waiters, slotWaiters, fork, act>> /\ MarkRunnable(Head(owed).who)
    BY DEF RunRequest, RunMark, LifeInv, TypeOK, ControlOK, slots, lanes
  <1>2. SameResumes /\ (ResumeIn(owed', Block) <=> ResumeIn(owed, Block))
    BY <1>1, TailResumes DEF Registered, SameResumes
  <1>3. Waitings' /\ Registered'
    BY <1>1, <1>2, WaitMoves DEF NoNewWaiter
  <1>4. block' = block \/ (FireWakers /\ "park" \in wakers)
    BY <1>1 DEF MarkRunnable, FireWakers
  <1>5. CASE block' = block
    BY <1>1, <1>2, <1>3, <1>5, BlockWaitStays
  <1>6. CASE FireWakers /\ "park" \in wakers
    BY <1>1, <1>3, <1>6 DEF BlockWaits, LifeInv, Waiting
  <1> QED
    BY <1>4, <1>5, <1>6

\* A worker task settles: the slot waiters and who waited for it are resumed.
LEMMA WaitForkSettled ==
    ASSUME TypeOK, WaitInv, owed # <<>>, Head(owed).do # "resume", UNCHANGED <<act, waiters, block>>,
           NEW w \in Forks, NEW st, NEW wt \in Seq(Callbacks), ForkSettled(w, st, wt \o Tail(owed)),
           \/ wt = <<>>
           \/ fork[w].waiter # NoOne /\ wt = <<Call("resume", fork[w].waiter)>>
              /\ fork'[w].waiter = NoOne,
           fork'[w].waiter \in {fork[w].waiter, NoOne},
           \A v \in Forks \ {w} : fork'[v].waiter = fork[v].waiter
    PROVE  WaitInv'
  <1> USE DEF WaitInv
  <1> DEFINE tl == Tail(owed)
             after == wt \o tl
             cs == IF st = "failed" THEN Cancelling(list, Without(outstanding, w)) ELSE <<>>
  <1>0. /\ owed \in Seq(Callbacks) /\ slotWaiters \in Seq(Tasks) /\ list \in Seq(Tasks)
        /\ Without(outstanding, w) \in Seq(Forks)
    BY WithoutType DEF TypeOK, ControlOK, SlotsOK, ScheduleOK, LanesOK
  <1>1. tl \in Seq(Callbacks) /\ Once(tl) /\ \A p : ResumeIn(tl, p) <=> ResumeIn(owed, p)
    BY <1>0, TailResumes DEF Registered
  <1>2. cs \in Seq(Callbacks) /\ Once(cs) /\ \A p : ~ResumeIn(cs, p)
    BY <1>0, CancellingResumes, OneResume
  <1>3. owed' = cs \o WakeSlots \o after /\ slotWaiters' = <<>>
    BY DEF ForkSettled
  <1> HIDE DEF tl, cs
  <1>4. Once(wt) /\ \A p : ResumeIn(wt, p) => fork[w].waiter = p /\ fork'[w].waiter = NoOne
    <2>1. CASE wt = <<>>
      BY <2>1, OneResume
    <2>2. CASE /\ fork[w].waiter # NoOne /\ wt = <<Call("resume", fork[w].waiter)>>
               /\ fork'[w].waiter = NoOne
      <3>1. fork[w].waiter \in Tasks \union {Block}
        BY <2>2 DEF TypeOK, LanesOK, ForkRecords
      <3>2. Call("resume", fork[w].waiter) \in Callbacks
        BY <3>1, CallTypes
      <3> QED
        BY <2>2, <3>2, OneResume
    <2> QED
      BY <2>1, <2>2
  <1>5. \A p \in Tasks \union {Block} : fork[w].waiter = p => ~ResumeIn(owed, p)
    BY DEF Waitings, Wait, BlockWaits
  <1>6. /\ after \in Seq(Callbacks) /\ Once(after)
        /\ \A p : ResumeIn(after, p) <=> ResumeIn(wt, p) \/ ResumeIn(owed, p)
    BY <1>1, <1>4, <1>5, ConcatResumes
  <1> HIDE DEF after
  <1>7. \A t \in Tasks : Contains(slotWaiters, t) => ~ResumeIn(after, t)
    <2> SUFFICES ASSUME NEW t \in Tasks, Contains(slotWaiters, t) PROVE ~ResumeIn(after, t)
      OBVIOUS
    <2>1. Wait(t)
      BY DEF Waitings
    <2>2. act[t].at = "lend" /\ ~ResumeIn(owed, t) /\ fork[w].waiter # t
      BY <2>1 DEF Wait
    <2> QED
      BY <1>4, <1>6, <2>2
  <1>8. /\ Once(owed')
        /\ \A t \in Tasks : ResumeIn(owed', t) <=> Contains(slotWaiters, t) \/ ResumeIn(after, t)
        /\ ResumeIn(owed', Block) <=> ResumeIn(after, Block)
    BY <1>2, <1>3, <1>6, <1>7, WaitSlotsWoken
  <1>9. ~\E p : Contains(slotWaiters', p)
    BY <1>3 DEF Contains
  <1>10. Registered'
    BY <1>3, <1>8 DEF Registered, Distinct
  <1>11. ASSUME NEW t \in Tasks PROVE Wait(t)'
    <2>1. Wait(t)
      BY DEF Waitings
    <2>2. ASSUME NEW v \in Forks, fork'[v].waiter = t PROVE fork[v].waiter = t /\ ~ResumeIn(wt, t)
      <3>1. fork[v].waiter = t
        BY <2>2, Names
      <3>2. act[t].at = "fork" /\ act[t].on = v
        BY <2>1, <3>1 DEF Wait
      <3>3. fork[w].waiter = t => w = v
        BY <2>1, <3>2 DEF Wait
      <3> QED
        BY <1>4, <2>2, <3>1, <3>3, Names
    <2>3. CASE Contains(slotWaiters, t)
      <3>1. ResumeIn(owed', t) /\ ~ResumeIn(owed, t)
        BY <1>6, <1>7, <1>8, <2>3
      <3> QED
        BY <1>9, <2>1, <2>2, <2>3, <3>1 DEF Wait, Free, Awaiting, Waits
    <2>4. CASE ~Contains(slotWaiters, t) /\ ResumeIn(wt, t)
      <3>1. ResumeIn(owed', t) /\ fork[w].waiter = t
        BY <1>4, <1>6, <1>8, <2>4
      <3>2. act[t].at = "fork" /\ ~act[t].ready
        BY <2>1, <3>1 DEF Wait
      <3> QED
        BY <1>9, <2>1, <2>2, <2>4, <3>1, <3>2 DEF Wait, Free, Awaiting, Waits
    <2>5. CASE ~Contains(slotWaiters, t) /\ ~ResumeIn(wt, t)
      <3>1. ResumeIn(owed', t) <=> ResumeIn(owed, t)
        BY <1>6, <1>8, <2>5
      <3> QED
        BY <1>9, <2>1, <2>2, <2>5, <3>1, WaitStays
    <2> QED
      BY <2>3, <2>4, <2>5
  <1>12. BlockWaits'
    <2>1. ASSUME NEW v \in Forks, fork'[v].waiter = Block
          PROVE  fork[v].waiter = Block /\ (ResumeIn(owed', Block) => ResumeIn(owed, Block))
      <3>1. fork[v].waiter = Block
        BY <2>1, Names
      <3>2. fork[w].waiter = Block => w = v
        BY <3>1 DEF BlockWaits
      <3>3. ~ResumeIn(wt, Block)
        BY <1>4, <2>1, <3>2, Names
      <3> QED
        BY <1>6, <1>8, <3>1, <3>3
    <2> QED
      BY <2>1, BlockWaitStays
  <1> QED
    BY <1>10, <1>11, <1>12 DEF Waitings

\* A reply is routed: whoever waited for it is resumed.
LEMMA WaitRoute ==
    ASSUME TypeOK, WaitInv, owed # <<>>, Head(owed).do # "resume", UNCHANGED <<act, waiters, block>>,
           NEW w \in Forks, Route(w)
    PROVE  WaitInv'
  <1> USE DEF WaitInv
  <1> DEFINE wt == IF fork[w].waiter = NoOne THEN <<>> ELSE <<Call("resume", fork[w].waiter)>>
             tl == Tail(owed)
  <1>1. fork'[w].waiter = NoOne /\ \A v \in Forks \ {w} : fork'[v].waiter = fork[v].waiter
    BY RouteFork
  <1>2. \/ ForkSettled(w, fork[w].lane, wt \o tl)
        \/ owed' = wt \o tl /\ UNCHANGED slotWaiters
    BY DEF Route
  <1>3. wt \in Seq(Callbacks) /\ Once(wt)
    <2>1. fork[w].waiter # NoOne => Call("resume", fork[w].waiter) \in Callbacks
      BY CallTypes DEF TypeOK, LanesOK, ForkRecords
    <2> QED
      BY <2>1, OneResume
  <1>4. \A p : ResumeIn(wt, p) <=> fork[w].waiter # NoOne /\ fork[w].waiter = p
    BY OneResume
  <1>5. wt = <<>> \/ (fork[w].waiter # NoOne /\ wt = <<Call("resume", fork[w].waiter)>>)
    OBVIOUS
  <1>6. owed \in Seq(Callbacks)
    BY DEF TypeOK, ControlOK
  <1>7. tl \in Seq(Callbacks) /\ Once(tl) /\ \A p : ResumeIn(tl, p) <=> ResumeIn(owed, p)
    BY <1>6, TailResumes DEF Registered
  <1> HIDE DEF wt
  <1>8. CASE ForkSettled(w, fork[w].lane, wt \o tl)
    BY <1>1, <1>3, <1>5, <1>8, WaitForkSettled
  <1> HIDE DEF tl
  <1>9. CASE owed' = wt \o tl /\ UNCHANGED slotWaiters
    <2>1. \A p \in Tasks \union {Block} : fork[w].waiter = p => ~ResumeIn(owed, p)
      BY DEF Waitings, Wait, BlockWaits
    <2>2. Once(owed') /\ \A p : ResumeIn(owed', p) <=> ResumeIn(wt, p) \/ ResumeIn(owed, p)
      BY <1>3, <1>4, <1>7, <1>9, <2>1, ConcatResumes
    <2>3. Registered'
      BY <1>9, <2>2 DEF Registered
    <2>4. ASSUME NEW t \in Tasks PROVE Wait(t)'
      <3>1. Wait(t)
        BY DEF Waitings
      <3>2. \A v \in Forks : fork'[v].waiter = t => fork[v].waiter = t /\ fork[w].waiter # t
        BY <1>1, <3>1, Names DEF Wait
      <3>3. CASE fork[w].waiter = t
        <4>1. ResumeIn(owed', t) /\ act[t].at = "fork" /\ ~act[t].ready
          BY <1>4, <2>2, <3>1, <3>3, Names DEF Wait
        <4> QED
          BY <1>9, <3>1, <3>2, <3>3, <4>1 DEF Wait, Free, Awaiting, Waits
      <3>4. CASE fork[w].waiter # t
        <4>1. ResumeIn(owed', t) <=> ResumeIn(owed, t)
          BY <1>4, <2>2, <3>4
        <4> QED
          BY <1>9, <3>1, <3>2, <4>1, WaitStays
      <3> QED
        BY <3>3, <3>4
    <2>5. BlockWaits'
      <3>1. ASSUME NEW v \in Forks, fork'[v].waiter = Block
            PROVE  fork[v].waiter = Block /\ (ResumeIn(owed', Block) => ResumeIn(owed, Block))
        <4>1. v # w /\ fork[v].waiter = Block
          BY <1>1, <3>1, Names
        <4>2. fork[w].waiter # Block
          BY <4>1 DEF BlockWaits
        <4> QED
          BY <1>4, <2>2, <4>1, <4>2
      <3> QED
        BY <3>1, BlockWaitStays
    <2> QED
      BY <2>3, <2>4, <2>5 DEF Waitings
  <1> QED
    BY <1>2, <1>8, <1>9

\* Callbacks keep the waits sound.
LEMMA WaitCallback ==
    ASSUME LifeInv, WaitInv, RunCallback
    PROVE  WaitInv'
  <1> USE DEF WaitInv
  <1>0. TypeOK
    BY DEF LifeInv
  <1>1. CASE RunResume
    BY <1>1, WaitResume
  <1>2. CASE RunRequest \/ RunMark
    BY <1>2, WaitMark
  <1> DEFINE w == Head(owed).who
             Rest == owed' = Tail(owed) /\ UNCHANGED slotWaiters
                     /\ \A v \in Forks : fork'[v].waiter = fork[v].waiter
  <1>3. ASSUME RunRoute \/ RunCancel
        PROVE  /\ owed # <<>> /\ Head(owed).do # "resume" /\ w \in Forks
               /\ UNCHANGED <<act, waiters, block>>
    BY <1>0, <1>3, ControlTypes, HeadCallback, CallbackShape DEF RunRoute, RunCancel
  <1>5. ASSUME RunRoute PROVE Route(w) \/ Rest
    BY <1>5 DEF RunRoute, lanes
  <1>6. ASSUME RunCancel
        PROVE  \/ Route(w)
               \/ /\ fork'[w].waiter = fork[w].waiter /\ ForkSettled(w, "cancelled", Tail(owed))
                  /\ \A v \in Forks \ {w} : fork'[v].waiter = fork[v].waiter
               \/ Rest
    BY <1>0, <1>6, RunCancelFork
  <1> HIDE DEF w
  <1>7. ASSUME RunRoute \/ RunCancel, Rest PROVE WaitInv'
    <2>1. owed \in Seq(Callbacks)
      BY <1>0 DEF TypeOK, ControlOK
    <2>2. SameResumes /\ (ResumeIn(owed', Block) <=> ResumeIn(owed, Block))
      BY <1>3, <1>7, <2>1, TailResumes DEF Registered, SameResumes
    <2>3. Waitings' /\ Registered'
      BY <1>3, <1>7, <2>2, WaitMoves DEF NoNewWaiter
    <2> QED
      BY <1>3, <1>7, <2>2, <2>3, BlockWaitStays
  <1>8. ASSUME RunCancel, fork'[w].waiter = fork[w].waiter, ForkSettled(w, "cancelled", Tail(owed)),
               \A v \in Forks \ {w} : fork'[v].waiter = fork[v].waiter
        PROVE  WaitInv'
    <2>1. Tail(owed) = <<>> \o Tail(owed) /\ <<>> \in Seq(Callbacks)
      BY <1>0, <1>3, <1>8 DEF TypeOK, ControlOK
    <2>2. ForkSettled(w, "cancelled", <<>> \o Tail(owed))
      BY <1>8, <2>1
    <2> QED
      BY <1>0, <1>3, <1>8, <2>1, <2>2, WaitForkSettled
  <1>9. ASSUME RunRoute \/ RunCancel, Route(w) PROVE WaitInv'
    BY <1>0, <1>3, <1>9, WaitRoute
  <1> QED
    BY <1>1, <1>2, <1>5, <1>6, <1>7, <1>8, <1>9 DEF RunCallback

\* A child settles: those who wait for it, or for a slot, are resumed.
LEMMA WaitSettle ==
    ASSUME TypeOK, WaitInv, Quiet, NEW u \in Tasks, NEW st, NEW cs \in Seq(Callbacks), Once(cs),
           \A p : ~ResumeIn(cs, p), SettleChild(u, st, cs),
           Free(u), act' = [act EXCEPT ![u].at = "over"], UNCHANGED <<fork, block>>
    PROVE  WaitInv'
  <1> USE DEF WaitInv
  <1> DEFINE a == CallAll("resume", waiters[u])
             o == a \o WakeSlots
  <1>0. slotWaiters \in Seq(Tasks) /\ waiters \in [Tasks -> Seq(Tasks)] /\ waiters[u] \in Seq(Tasks)
        /\ act \in [Tasks -> [at : Places, on : Nat, ready : BOOLEAN]]
    BY DEF TypeOK, SlotsOK, ControlOK
  <1>1. /\ a \in Seq(Callbacks) /\ Once(a) /\ \A p : ResumeIn(a, p) <=> Contains(waiters[u], p)
    BY <1>0, AllResumes DEF Registered
  <1>2. /\ WakeSlots \in Seq(Callbacks) /\ Once(WakeSlots)
        /\ \A p : ResumeIn(WakeSlots, p) <=> Contains(slotWaiters, p)
    BY <1>0, AllResumes DEF WakeSlots, Registered
  <1>3. owed' = o \o cs /\ slotWaiters' = <<>> /\ waiters' = [waiters EXCEPT ![u] = <<>>]
    BY DEF SettleChild
  <1>4. \A p \in Tasks : ~(Contains(waiters[u], p) /\ Contains(slotWaiters, p))
    BY DEF Waitings, Wait, Awaiting
  <1>5. ~Contains(waiters[u], Block) /\ ~Contains(slotWaiters, Block)
    BY <1>0, Names DEF Contains
  <1> HIDE DEF a
  <1>6. /\ o \in Seq(Callbacks) /\ Once(o)
        /\ \A p : ResumeIn(o, p) <=> Contains(waiters[u], p) \/ Contains(slotWaiters, p)
    BY <1>1, <1>2, <1>4, <1>5, ConcatResumes
  <1> HIDE DEF o
  <1>7. /\ Once(owed')
        /\ \A p : ResumeIn(owed', p) <=> Contains(waiters[u], p) \/ Contains(slotWaiters, p)
    BY <1>3, <1>6, ConcatResumes
  <1>8. \A v \in Tasks : waiters'[v] = IF v = u THEN <<>> ELSE waiters[v]
    BY <1>0, <1>3
  <1>9. \A p : ~Contains(<<>>, p)
    BY DEF Contains
  <1>10. Registered'
    BY <1>3, <1>7, <1>8 DEF Registered, Distinct
  <1>11. \A p : ~ResumeIn(owed, p)
    BY QuietResumes
  <1>12. ASSUME NEW t \in Tasks PROVE Wait(t)'
    <2>1. Wait(t)
      BY DEF Waitings
    <2>2. CASE t = u
      <3>1. act'[t].at = "over"
        BY <1>0, <2>2
      <3>2. /\ \A v \in Tasks : ~Contains(waiters[v], t) 
            /\ ~Contains(slotWaiters, t) /\ \A w \in Forks : fork[w].waiter # t
        BY <2>1, <2>2, FreeUnregistered
      <3> QED
        BY <1>3, <1>7, <1>8, <1>9, <3>1, <3>2, WaitFree
    <2>3. CASE t # u
      <3>1. act'[t] = act[t]
        BY <1>0, <2>3
      <3>2. CASE Contains(waiters[u], t)
        <4>1. Awaiting(t, u) /\ ~Contains(slotWaiters, t) /\ ResumeIn(owed', t)
          BY <1>4, <1>7, <2>1, <3>2 DEF Wait
        <4>2. \A v \in Tasks : ~Contains(waiters'[v], t)
          BY <1>8, <1>9, <2>1, <4>1 DEF Wait, Awaiting
        <4> QED
          BY <1>3, <1>9, <2>1, <3>1, <4>1, <4>2 DEF Wait, Free, Awaiting, Waits
      <3>3. CASE Contains(slotWaiters, t)
        <4>1. act[t].at = "lend" /\ ~act[t].ready /\ ResumeIn(owed', t)
          BY <1>7, <2>1, <3>3 DEF Wait
        <4>2. \A v \in Tasks : ~Contains(waiters'[v], t)
          BY <1>8, <1>9, <2>1, <4>1 DEF Wait, Awaiting
        <4> QED
          BY <1>3, <1>9, <2>1, <3>1, <4>1, <4>2 DEF Wait, Free, Awaiting, Waits
      <3>4. CASE ~Contains(waiters[u], t) /\ ~Contains(slotWaiters, t)
        <4>1. ~ResumeIn(owed', t) /\ ~Contains(slotWaiters', t)
          BY <1>3, <1>7, <1>9, <3>4
        <4>2. \A v \in Tasks : Contains(waiters'[v], t) <=> Contains(waiters[v], t)
          BY <1>8, <1>9, <3>4
        <4> QED
          BY <1>11, <2>1, <3>1, <3>4, <4>1, <4>2, WaitStays
      <3> QED
        BY <3>2, <3>3, <3>4
    <2> QED
      BY <2>2, <2>3
  <1>13. BlockWaits'
    BY <1>5, <1>7, BlockWaitStays
  <1> QED
    BY <1>10, <1>12, <1>13 DEF Waitings

-----------------------------------------------------------------------------
(* Steps of children and of the block *)

\* A callback that resumes nobody becomes owed, or none.
OwesNoResume ==
    \/ UNCHANGED owed \/ owed' = Cancelling(list, outstanding) \/ DeadlinePassed \/ owed' = <<>>
    \/ \E c \in Callbacks : c.do # "resume" /\ owed' = <<c>>

\* A child goes on without a registration.
LEMMA WaitGoesOn ==
    ASSUME TypeOK, WaitInv, Quiet, NEW t \in Tasks, OwesNoResume,
           UNCHANGED <<waiters, slotWaiters, block>>,
           \A w \in Forks : fork'[w].waiter \in {fork[w].waiter, NoOne},
           \A v \in Tasks \ {t} : act'[v] = act[v],
           act' = act \/ (Free(t) /\ act'[t].at \notin {"await", "lend"})
    PROVE  WaitInv'
  <1>1. SameResumes /\ (ResumeIn(owed', Block) => ResumeIn(owed, Block))
    BY QuietSame DEF OwesNoResume
  <1>2. Waitings' /\ Registered'
    BY <1>1, WaitMoves DEF NoNewWaiter, Moves, WaitInv
  <1>3. BlockWaits'
    BY <1>1, BlockWaitStays, Names DEF WaitInv
  <1> QED
    BY <1>2, <1>3 DEF WaitInv

\* What a change to one child's place comes to.
LEMMA ActAt ==
    ASSUME TypeOK, NEW t \in Tasks
    PROVE  /\ \A p, n, r : act' = [act EXCEPT ![t] = [at |-> p, on |-> n, ready |-> r]] =>
                /\ act'[t].at = p /\ act'[t].on = n /\ act'[t].ready = r
                /\ \A v \in Tasks \ {t} : act'[v] = act[v]
           /\ \A p : act' = [act EXCEPT ![t].at = p] =>
                act'[t].at = p /\ \A v \in Tasks \ {t} : act'[v] = act[v]
           /\ \A r : act' = [act EXCEPT ![t].ready = r] =>
                /\ act'[t].at = act[t].at /\ act'[t].on = act[t].on /\ act'[t].ready = r
                /\ \A v \in Tasks \ {t} : act'[v] = act[v]
           /\ \A p, r : act' = [act EXCEPT ![t].ready = r, ![t].at = p] =>
                act'[t].at = p /\ act'[t].ready = r /\ \A v \in Tasks \ {t} : act'[v] = act[v]
  <1>1. act \in [Tasks -> [at : Places, on : Nat, ready : BOOLEAN]]
    BY DEF TypeOK, ControlOK
  <1> QED
    BY <1>1

\* A child parks with its resume registered in one place.
LEMMA WaitParks ==
    ASSUME TypeOK, WaitInv, Quiet, NEW t \in Tasks, Free(t), UNCHANGED block,
           \A v \in Tasks \ {t} : act'[v] = act[v], ~act'[t].ready, OwesNoResume,
           \/ /\ act'[t].at = "lend" /\ slotWaiters' = Append(slotWaiters, t) /\ UNCHANGED waiters
              /\ \A w \in Forks : fork'[w].waiter \in {fork[w].waiter, NoOne}
           \/ /\ UNCHANGED <<slotWaiters, fork>>
              /\ \E u \in Tasks : /\ act'[t].at = "await" /\ act'[t].on = u
                                  /\ waiters' = [waiters EXCEPT ![u] = Append(@, t)]
           \/ /\ act'[t].at = "fork" /\ UNCHANGED <<slotWaiters, waiters>>
              /\ \A w \in Forks : fork'[w].waiter = IF w = act'[t].on THEN t ELSE fork[w].waiter
    PROVE  WaitInv'
  <1> USE DEF WaitInv
  <1>0. slotWaiters \in Seq(Tasks) /\ waiters \in [Tasks -> Seq(Tasks)]
    BY DEF TypeOK, SlotsOK
  <1>1. /\ \A u \in Tasks : ~Contains(waiters[u], t)
        /\ ~Contains(slotWaiters, t) /\ \A w \in Forks : fork[w].waiter # t
    BY FreeUnregistered DEF Waitings
  <1>2. Once(owed') /\ (\A p \in Tasks : ~ResumeIn(owed', p))
        /\ (\A p : ~ResumeIn(owed, p)) /\ ~ResumeIn(owed', Block)
    BY QuietSame, QuietResumes DEF OwesNoResume, SameResumes
  <1>3. CASE /\ act'[t].at = "lend" /\ slotWaiters' = Append(slotWaiters, t) /\ UNCHANGED waiters
             /\ \A w \in Forks : fork'[w].waiter \in {fork[w].waiter, NoOne}
    <2>1. /\ \A y : Contains(slotWaiters', y) <=> Contains(slotWaiters, y) \/ y = t
          /\ Distinct(slotWaiters')
      BY <1>0, <1>1, <1>3, AppendFacts DEF Registered
    <2>2. Registered'
      BY <1>2, <1>3, <2>1 DEF Registered
    <2>3. ASSUME NEW v \in Tasks, v # t PROVE Wait(v)'
      BY <1>2, <1>3, <2>1, <2>3, WaitStays, Names DEF Waitings
    <2>4. Wait(t)'
      BY <1>1, <1>2, <1>3, <2>1, Names DEF Wait, Awaiting, Free, Waits
    <2>5. BlockWaits'
      BY <1>2, <1>3, BlockWaitStays, Names
    <2> QED
      BY <2>2, <2>3, <2>4, <2>5 DEF Waitings
  <1>4. CASE /\ UNCHANGED <<slotWaiters, fork>>
             /\ \E u \in Tasks : /\ act'[t].at = "await" /\ act'[t].on = u
                                 /\ waiters' = [waiters EXCEPT ![u] = Append(@, t)]
    <2>0. PICK u \in Tasks : /\ act'[t].at = "await" /\ act'[t].on = u
                             /\ waiters' = [waiters EXCEPT ![u] = Append(@, t)]
      BY <1>4
    <2>1. /\ \A y : Contains(waiters'[u], y) <=> Contains(waiters[u], y) \/ y = t
          /\ Distinct(waiters'[u])
      <3>1. waiters'[u] = Append(waiters[u], t) /\ waiters[u] \in Seq(Tasks)
        BY <1>0, <2>0
      <3> QED
        BY <1>1, <3>1, AppendFacts DEF Registered
    <2>2. \A v \in Tasks \ {u} : waiters'[v] = waiters[v]
      BY <1>0, <2>0
    <2>3. Registered'
      BY <1>2, <1>4, <2>1, <2>2 DEF Registered
    <2>4. ASSUME NEW v \in Tasks, v # t PROVE Wait(v)'
      BY <1>2, <1>4, <2>1, <2>2, <2>4, WaitStays DEF Waitings
    <2>5. Wait(t)'
      <3>1. \A v \in Tasks : Contains(waiters'[v], t) <=> v = u
        BY <1>1, <2>1, <2>2
      <3> QED
        BY <1>1, <1>2, <1>4, <2>0, <3>1 DEF Wait, Awaiting, Free, Waits
    <2>6. BlockWaits'
      BY <1>2, <1>4, BlockWaitStays
    <2> QED
      BY <2>3, <2>4, <2>5, <2>6 DEF Waitings
  <1>5. CASE /\ act'[t].at = "fork" /\ UNCHANGED <<slotWaiters, waiters>>
             /\ \A w \in Forks : fork'[w].waiter = IF w = act'[t].on THEN t ELSE fork[w].waiter
    <2>1. Registered'
      BY <1>2, <1>5 DEF Registered
    <2>2. ASSUME NEW v \in Tasks, v # t PROVE Wait(v)'
      BY <1>2, <1>5, <2>2, WaitStays DEF Waitings
    <2>3. Wait(t)'
      BY <1>1, <1>2, <1>5 DEF Wait, Awaiting, Free, Waits
    <2>4. BlockWaits'
      BY <1>2, <1>5, BlockWaitStays, Names
    <2> QED
      BY <2>1, <2>2, <2>3, <2>4 DEF Waitings
  <1> QED
    BY <1>3, <1>4, <1>5

\* A child that gives up its wait is registered nowhere any more.
LEMMA WaitGivesUp ==
    ASSUME TypeOK, WaitInv, NEW t \in Tasks, WakeCancelled(t)
    PROVE  WaitInv'
  <1> USE DEF WaitInv
  <1>0. slotWaiters \in Seq(Tasks) /\ waiters \in [Tasks -> Seq(Tasks)]
    BY DEF TypeOK, SlotsOK
  <1>1. /\ waiters' = [u \in Tasks |-> Without(waiters[u], t)]
        /\ slotWaiters' = Without(slotWaiters, t) /\ UNCHANGED <<block, owed>> /\ Quiet
        /\ act' = [act EXCEPT ![t] = [at |-> "raisedCancel", on |-> 0, ready |-> FALSE]]
    BY DEF WakeCancelled, Runs
  <1>2. /\ Distinct(slotWaiters') /\ ~Contains(slotWaiters', t)
        /\ \A y : y # t => (Contains(slotWaiters', y) <=> Contains(slotWaiters, y))
    BY <1>0, <1>1, WithoutFacts DEF Registered
  <1>3. ASSUME NEW u \in Tasks
        PROVE  /\ Distinct(waiters'[u]) /\ ~Contains(waiters'[u], t)
               /\ \A y : y # t => (Contains(waiters'[u], y) <=> Contains(waiters[u], y))
    <2> DEFINE s == waiters[u]
    <2>1. waiters'[u] = Without(s, t) /\ s \in Seq(Tasks) /\ Distinct(s)
      BY <1>0, <1>1 DEF Registered
    <2> HIDE DEF s
    <2>2. /\ Distinct(Without(s, t)) /\ ~Contains(Without(s, t), t)
          /\ \A y : y # t => (Contains(Without(s, t), y) <=> Contains(s, y))
      BY <2>1, WithoutFacts
    <2> QED
      BY <2>1, <2>2 DEF s
  <1>4. /\ \A w \in Forks : fork'[w].waiter # t
        /\ \A v \in Tasks \union {Block} : \A w \in Forks : fork'[w].waiter = v => fork[w].waiter = v
    BY WakeCancelledFork, Names
  <1>5. Registered'
    BY <1>1, <1>2, <1>3 DEF Registered
  <1>6. ASSUME NEW v \in Tasks PROVE Wait(v)'
    <2>1. CASE v = t
      <3>1. act'[t].at = "raisedCancel"
        BY <1>1, ActAt
      <3>2. ~ResumeIn(owed', t)
        BY <1>1, QuietResumes
      <3> QED
        BY <1>2, <1>3, <1>4, <2>1, <3>1, <3>2, WaitFree
    <2>2. CASE v # t
      <3>1. act'[v] = act[v]
        BY <1>1, <2>2, ActAt
      <3> QED
        BY <1>1, <1>2, <1>3, <1>4, <2>2, <3>1, WaitStays DEF Waitings
    <2> QED
      BY <2>1, <2>2
  <1>7. BlockWaits'
    BY <1>1, <1>4, BlockWaitStays
  <1> QED
    BY <1>5, <1>6, <1>7 DEF Waitings

\* Finishing a child.
LEMMA WaitFinish ==
    ASSUME TypeOK, WaitInv, NEW t \in Tasks, Runs(t), act[t].at \notin Waits, NEW st, Finish(t, st)
    PROVE  WaitInv'
  <1> DEFINE cs == IF st = "failed" THEN Cancelling(Without(list, t), outstanding) ELSE <<>>
  <1>1. Without(list, t) \in Seq(Tasks) /\ outstanding \in Seq(Forks)
    BY WithoutType DEF TypeOK, ScheduleOK, LanesOK
  <1>2. cs \in Seq(Callbacks) /\ Once(cs) /\ \A p : ~ResumeIn(cs, p)
    BY <1>1, CancellingResumes, OneResume
  <1>3. SettleChild(t, st, cs) /\ act' = [act EXCEPT ![t].at = "over"] /\ UNCHANGED <<fork, block>>
    BY DEF Finish, lanes
  <1>4. Quiet /\ Free(t)
    BY DEF Runs, Free
  <1> HIDE DEF cs
  <1> QED
    BY <1>2, <1>3, <1>4, WaitSettle

\* Cancelling a child.
LEMMA WaitCancel ==
    ASSUME LifeInv, WaitInv, Quiet, NEW u \in Tasks, CancelChild(u), UNCHANGED <<fork, block>>
    PROVE  WaitInv'
  <1>0. TypeOK
    BY DEF LifeInv
  <1>1. \/ UNCHANGED <<waiters, slotWaiters, act, owed>>
        \/ /\ status[u] = "queued" /\ act' = [act EXCEPT ![u].at = "over"]
           /\ SettleChild(u, "cancelled", <<>>)
        \/ owed' = <<Call("mark", u)>> /\ UNCHANGED <<waiters, slotWaiters, act>>
    BY DEF CancelChild
  <1>2. CASE UNCHANGED <<waiters, slotWaiters, act, owed>>
    BY <1>0, <1>2, WaitGoesOn DEF OwesNoResume
  <1>3. CASE /\ status[u] = "queued" /\ act' = [act EXCEPT ![u].at = "over"]
             /\ SettleChild(u, "cancelled", <<>>)
    <2>1. Life(u)
      BY DEF LifeInv, Lives
    <2>2. act[u].at = "new"
      BY <1>3, <2>1 DEF Life, Ended, Ends
    <2>3. Free(u)
      BY <2>2 DEF Free, Waits
    <2> QED
      BY <1>0, <1>3, <2>3, OneResume, WaitSettle
  <1>4. CASE owed' = <<Call("mark", u)>> /\ UNCHANGED <<waiters, slotWaiters, act>>
    <2>1. Call("mark", u) \in Callbacks /\ Call("mark", u).do # "resume"
      BY CallTypes DEF Call
    <2> QED
      BY <1>0, <1>4, <2>1, WaitGoesOn DEF OwesNoResume
  <1> QED
    BY <1>1, <1>2, <1>3, <1>4

\* Steps of a child keep the waits sound.
LEMMA WaitTask ==
    ASSUME LifeInv, WaitInv, NEW t \in Tasks, TaskStep(t)
    PROVE  WaitInv'
  <1>0. TypeOK
    BY DEF LifeInv
  <1>1. /\ {"new", "body", "awaited", "forked", "raisedCancel", "raisedError", "over"} \intersect Waits = {}
        /\ Raised \notin {"await", "lend"}
    BY DEF Waits, Raised
  <1>2. CASE Enter(t) \/ BodyReturns(t) \/ BodyFails(t) \/ Unwinds(t)
    <2>1. /\ Runs(t) /\ act[t].at \in {"new", "body", "raisedCancel", "raisedError"}
          /\ \/ \E st : Finish(t, st)
             \/ /\ act' = [act EXCEPT ![t].at = "body"]
                /\ UNCHANGED <<owed, slotWaiters, waiters, fork, block>>
      BY <1>2 DEF Enter, BodyReturns, BodyFails, Unwinds, slots, lanes
    <2>2. act[t].at \notin Waits
      BY <1>1, <2>1
    <2>3. CASE \E st : Finish(t, st)
      BY <1>0, <2>1, <2>2, <2>3, WaitFinish
    <2>4. CASE /\ act' = [act EXCEPT ![t].at = "body"]
               /\ UNCHANGED <<owed, slotWaiters, waiters, fork, block>>
      <3>1. act'[t].at = "body" /\ \A v \in Tasks \ {t} : act'[v] = act[v]
        BY <1>0, <2>4, ActAt
      <3> QED
        BY <1>0, <2>1, <2>2, <2>4, <3>1, WaitGoesOn DEF OwesNoResume, Free, Runs
    <2> QED
      BY <2>1, <2>3, <2>4
  <1>3. CASE WakeCancelled(t)
    BY <1>0, <1>3, WaitGivesUp
  <1>4. CASE WakeEarly(t)
    BY <1>0, <1>4, WaitGoesOn DEF WakeEarly, Runs, slots, lanes, OwesNoResume
  <1>5. CASE WakeReady(t)
    <2>1. /\ Quiet /\ Free(t) /\ UNCHANGED <<owed, slotWaiters, waiters, fork, block>>
      BY <1>5 DEF WakeReady, Runs, slots, lanes, Free
    <2>2. \E p \in {"body", "awaited", "forked"} : act' = [act EXCEPT ![t].ready = FALSE, ![t].at = p]
      BY <1>5 DEF WakeReady
    <2>3. act'[t].at \in {"body", "awaited", "forked"} /\ \A v \in Tasks \ {t} : act'[v] = act[v]
      <3>1. PICK p \in {"body", "awaited", "forked"} :
                   act' = [act EXCEPT ![t].ready = FALSE, ![t].at = p]
        BY <2>2
      <3>2. act'[t].at = p /\ \A v \in Tasks \ {t} : act'[v] = act[v]
        BY <1>0, <3>1, ActAt
      <3> QED
        BY <3>1, <3>2
    <2> QED
      BY <1>0, <2>1, <2>3, WaitGoesOn DEF OwesNoResume
  <1>6. CASE WakeLender(t)
    <2>1. /\ Quiet /\ Free(t) /\ act[t].at = "lend" /\ UNCHANGED <<owed, waiters, fork, block>>
      BY <1>6 DEF WakeLender, Runs, lanes, Free
    <2>2. \/ slotWaiters' = Append(slotWaiters, t) /\ act' = [act EXCEPT ![t].ready = FALSE]
          \/ /\ UNCHANGED slotWaiters
             /\ act' = [act EXCEPT ![t] = [at |-> "body", on |-> 0, ready |-> FALSE]]
      BY <1>6 DEF WakeLender
    <2>3. CASE slotWaiters' = Append(slotWaiters, t) /\ act' = [act EXCEPT ![t].ready = FALSE]
      <3>1. act'[t].at = "lend" /\ ~act'[t].ready /\ \A v \in Tasks \ {t} : act'[v] = act[v]
        BY <1>0, <2>1, <2>3, ActAt
      <3> QED
        BY <1>0, <2>1, <2>3, <3>1, WaitParks DEF OwesNoResume
    <2>4. CASE /\ UNCHANGED slotWaiters
               /\ act' = [act EXCEPT ![t] = [at |-> "body", on |-> 0, ready |-> FALSE]]
      <3>1. act'[t].at = "body" /\ \A v \in Tasks \ {t} : act'[v] = act[v]
        BY <1>0, <2>4, ActAt
      <3> QED
        BY <1>0, <2>1, <2>4, <3>1, WaitGoesOn DEF OwesNoResume
    <2> QED
      BY <2>2, <2>3, <2>4
  <1>7. CASE WakeDrained(t) \/ Catch(t)
    <2>1. /\ Quiet /\ Free(t) /\ UNCHANGED <<owed, slotWaiters, waiters, fork, block>>
      BY <1>7, <1>1 DEF WakeDrained, Catch, Runs, slots, lanes, Free
    <2>2. \/ \E p \in {"raisedCancel", "body"} :
               act' = [act EXCEPT ![t] = [at |-> p, on |-> 0, ready |-> FALSE]]
          \/ act' = [act EXCEPT ![t].at = "body"]
      BY <1>7 DEF WakeDrained, Catch
    <2>3. act'[t].at \in {"raisedCancel", "body"} /\ \A v \in Tasks \ {t} : act'[v] = act[v]
      BY <1>0, <2>2, ActAt
    <2> QED
      BY <1>0, <2>1, <2>3, WaitGoesOn DEF OwesNoResume
  <1>8. CASE \/ ParkExternally(t) \/ Checkpoint(t) \/ AwaitReturns(t) \/ CancelScope(t)
             \/ (\E d \in Deliberate : DrainNested(t, d))
             \/ \E w \in Forks : AwaitFork(t, w) \/ CancelFork(t, w)
    <2>1. /\ Quiet /\ act[t].at \in {"body", "awaited"}
          /\ UNCHANGED <<slotWaiters, waiters, fork, block>>
      BY <1>8 DEF ParkExternally, Checkpoint, AwaitReturns, CancelScope, DrainNested, AwaitFork,
                  CancelFork, Does, Runs, slots, lanes
    <2>2. \/ act' = act
          \/ \E p \in {"ext", "drain", "body", "forked", "raisedCancel", "raisedError"} : \E n :
               act' = [act EXCEPT ![t] = [at |-> p, on |-> n, ready |-> FALSE]]
      BY <1>8 DEF ParkExternally, Checkpoint, AwaitReturns, CancelScope, DrainNested, AwaitFork,
                  CancelFork, Raises, Parked, Raised
    <2>3. /\ act' = act \/ act'[t].at \notin {"await", "lend"}
          /\ \A v \in Tasks \ {t} : act'[v] = act[v]
      BY <1>0, <2>2, ActAt
    <2>4. OwesNoResume
      <3>1. \A w \in Forks : /\ Call("route", w) \in Callbacks /\ Call("route", w).do # "resume"
                             /\ Call("cancel", w) \in Callbacks /\ Call("cancel", w).do # "resume"
        BY CallTypes DEF Call
      <3>2. CASE \E w \in Forks : AwaitFork(t, w) \/ CancelFork(t, w)
        <4>1. \/ UNCHANGED owed \/ owed' = <<>>
              \/ \E w \in Forks : owed' = <<Call("route", w)>> \/ owed' = <<Call("cancel", w)>>
          BY <3>2 DEF AwaitFork, CancelFork
        <4> QED
          BY <3>1, <4>1 DEF OwesNoResume
      <3> QED
        BY <1>8, <3>2 DEF ParkExternally, Checkpoint, AwaitReturns, CancelScope, DrainNested,
                          CancelImpl, OwesNoResume
    <2>5. Free(t)
      BY <2>1, <1>1 DEF Free
    <2> QED
      BY <1>0, <2>1, <2>3, <2>4, <2>5, WaitGoesOn
  <1>9. CASE \E u \in Tasks : Spawn(t, u)
    <2> PICK u \in Tasks : Spawn(t, u)
      BY <1>9
    <2>1. /\ Quiet /\ act[t].at = "body" /\ UNCHANGED <<waiters, fork, block>>
      BY DEF Spawn, Does, Runs, lanes
    <2>2. Free(t)
      BY <1>1, <2>1 DEF Free
    <2>3. OwesNoResume
      <3>1. Call("mark", u) \in Callbacks /\ Call("mark", u).do # "resume"
        BY CallTypes DEF Call
      <3> QED
        BY <3>1 DEF OwesNoResume, Spawn, Register
    <2>4. \/ Raises(t, Raised) /\ UNCHANGED slotWaiters
          \/ Lend(t, Full)
      BY DEF Spawn
    <2>5. CASE Raises(t, Raised) /\ UNCHANGED slotWaiters
      <3>1. act'[t].at = Raised /\ \A v \in Tasks \ {t} : act'[v] = act[v]
        BY <1>0, <2>5, ActAt DEF Raises, Parked
      <3> QED
        BY <1>0, <1>1, <2>1, <2>2, <2>3, <2>5, <3>1, WaitGoesOn
    <2>6. CASE Lend(t, Full) /\ Full
      <3>1. slotWaiters' = Append(slotWaiters, t) /\ act' = [act EXCEPT ![t] = Parked("lend", 0)]
        BY <2>6 DEF Lend
      <3>2. act'[t].at = "lend" /\ ~act'[t].ready /\ \A v \in Tasks \ {t} : act'[v] = act[v]
        BY <1>0, <3>1, ActAt DEF Parked
      <3> QED
        BY <1>0, <2>1, <2>2, <2>3, <3>1, <3>2, WaitParks
    <2>7. CASE Lend(t, Full) /\ ~Full
      BY <1>0, <2>1, <2>2, <2>3, <2>7, WaitGoesOn DEF Lend
    <2> QED
      BY <2>4, <2>5, <2>6, <2>7
  <1>10. CASE \E w \in Forks : Work(t, w)
    <2> PICK w \in Forks : Work(t, w)
      BY <1>10
    <2>1. /\ Quiet /\ act[t].at = "body" /\ UNCHANGED <<waiters, owed, block>>
      BY DEF Work, Does, Runs
    <2>2. Free(t) /\ OwesNoResume
      BY <1>1, <2>1 DEF Free, OwesNoResume
    <2>4. \/ Raises(t, Raised) /\ UNCHANGED <<slotWaiters, fork>>
          \/ Lend(t, Full) /\ Submit(w, t)
      BY DEF Work, lanes
    <2>5. CASE Raises(t, Raised) /\ UNCHANGED <<slotWaiters, fork>>
      <3>1. act'[t].at = Raised /\ \A v \in Tasks \ {t} : act'[v] = act[v]
        BY <1>0, <2>5, ActAt DEF Raises, Parked
      <3> QED
        BY <1>0, <1>1, <2>1, <2>2, <2>5, <3>1, WaitGoesOn
    <2>6. ASSUME Submit(w, t) PROVE \A v \in Forks : fork'[v].waiter \in {fork[v].waiter, NoOne}
      BY <1>0, <2>6, SubmitFork
    <2>7. CASE Lend(t, Full) /\ Full /\ Submit(w, t)
      <3>1. slotWaiters' = Append(slotWaiters, t) /\ act' = [act EXCEPT ![t] = Parked("lend", 0)]
        BY <2>7 DEF Lend
      <3>2. act'[t].at = "lend" /\ ~act'[t].ready /\ \A v \in Tasks \ {t} : act'[v] = act[v]
        BY <1>0, <3>1, ActAt DEF Parked
      <3> QED
        BY <1>0, <2>1, <2>2, <2>6, <2>7, <3>1, <3>2, WaitParks
    <2>8. CASE Lend(t, Full) /\ ~Full /\ Submit(w, t)
      BY <1>0, <2>1, <2>2, <2>6, <2>8, WaitGoesOn DEF Lend
    <2> QED
      BY <2>4, <2>5, <2>7, <2>8
  <1>11. CASE \E u \in Tasks : Await(t, u)
    <2> PICK u \in Tasks : Await(t, u)
      BY <1>11
    <2>1. /\ Quiet /\ act[t].at = "body" /\ UNCHANGED <<slotWaiters, owed, fork, block>>
      BY DEF Await, Does, Runs, lanes
    <2>2. Free(t) /\ OwesNoResume
      BY <1>1, <2>1 DEF Free, OwesNoResume
    <2>3. \/ act' = [act EXCEPT ![t] = Parked("awaited", u)] /\ UNCHANGED waiters
          \/ /\ act' = [act EXCEPT ![t] = Parked("await", u)]
             /\ waiters' = [waiters EXCEPT ![u] = Append(@, t)]
      BY DEF Await
    <2>4. CASE act' = [act EXCEPT ![t] = Parked("awaited", u)] /\ UNCHANGED waiters
      <3>1. act'[t].at = "awaited" /\ \A v \in Tasks \ {t} : act'[v] = act[v]
        BY <1>0, <2>4, ActAt DEF Parked
      <3> QED
        BY <1>0, <2>1, <2>2, <2>4, <3>1, WaitGoesOn
    <2>5. CASE /\ act' = [act EXCEPT ![t] = Parked("await", u)]
               /\ waiters' = [waiters EXCEPT ![u] = Append(@, t)]
      <3>1. /\ act'[t].at = "await" /\ act'[t].on = u /\ ~act'[t].ready
            /\ \A v \in Tasks \ {t} : act'[v] = act[v]
        <4>1. act' = [act EXCEPT ![t] = [at |-> "await", on |-> u, ready |-> FALSE]]
          BY <2>5 DEF Parked
        <4>2. act \in [Tasks -> [at : Places, on : Nat, ready : BOOLEAN]]
          BY <1>0 DEF TypeOK, ControlOK
        <4>3. act'[t] = [at |-> "await", on |-> u, ready |-> FALSE]
          BY <4>1, <4>2
        <4> QED
          BY <4>1, <4>2, <4>3
      <3> QED
        BY <1>0, <2>1, <2>2, <2>5, <3>1, WaitParks
    <2> QED
      BY <2>3, <2>4, <2>5
  <1>12. CASE AwaitForkReturns(t)
    <2>1. /\ Quiet /\ act[t].at = "forked" /\ UNCHANGED <<slotWaiters, waiters, block>>
      BY <1>12 DEF AwaitForkReturns, Runs, slots
    <2>2. Free(t)
      BY <1>1, <2>1 DEF Free
    <2>3. \/ /\ fork' = [fork EXCEPT ![act[t].on].waiter = t] /\ UNCHANGED owed
             /\ act' = [act EXCEPT ![t] = Parked("fork", act[t].on)]
          \/ UNCHANGED fork /\ DeadlinePassed
             /\ \E p \in {"body", "raisedCancel", "raisedError"} : Raises(t, p)
      BY <1>12 DEF AwaitForkReturns, Raised
    <2>4. CASE /\ fork' = [fork EXCEPT ![act[t].on].waiter = t] /\ UNCHANGED owed
               /\ act' = [act EXCEPT ![t] = Parked("fork", act[t].on)]
      <3>1. /\ act'[t].at = "fork" /\ act'[t].on = act[t].on /\ ~act'[t].ready
            /\ \A v \in Tasks \ {t} : act'[v] = act[v]
        BY <1>0, <2>4, ActAt DEF Parked
      <3>2. \A w \in Forks : fork'[w].waiter = IF w = act'[t].on THEN t ELSE fork[w].waiter
        BY <1>0, <2>4, <3>1, ForkFields
      <3> QED
        BY <1>0, <2>1, <2>2, <2>4, <3>1, <3>2, WaitParks DEF OwesNoResume
    <2>5. CASE UNCHANGED fork /\ DeadlinePassed
               /\ \E p \in {"body", "raisedCancel", "raisedError"} : Raises(t, p)
      <3>1. act'[t].at \in {"body", "raisedCancel", "raisedError"}
            /\ \A v \in Tasks \ {t} : act'[v] = act[v]
        <4>1. PICK p \in {"body", "raisedCancel", "raisedError"} :
                     act' = [act EXCEPT ![t] = [at |-> p, on |-> 0, ready |-> FALSE]]
          BY <2>5 DEF Raises, Parked
        <4>2. act'[t].at = p /\ \A v \in Tasks \ {t} : act'[v] = act[v]
          BY <1>0, <4>1, ActAt
        <4> QED
          BY <4>1, <4>2
      <3> QED
        BY <1>0, <2>1, <2>2, <2>5, <3>1, WaitGoesOn DEF OwesNoResume
    <2> QED
      BY <2>3, <2>4, <2>5
  <1>13. CASE \E u \in Tasks : CancelTask(t, u)
    BY <1>13, WaitCancel DEF CancelTask, Does, Runs, lanes
  <1> QED
    BY <1>2, <1>3, <1>4, <1>5, <1>6, <1>7, <1>8, <1>9, <1>10, <1>11, <1>12, <1>13 DEF TaskStep

\* The block goes on, or leaves a wait that no worker task will resume.
LEMMA WaitBlockMoves ==
    ASSUME LifeInv, WaitInv, Quiet, OwesNoResume, UNCHANGED <<waiters, slotWaiters, act>>,
           \A w \in Forks : fork'[w].waiter \in {fork[w].waiter, NoOne},
           \/ block.at \notin Away \/ block.ready \/ block.wait # "reply"
           \/ block'.wait = block.wait /\ block'.fork = block.fork /\ block'.ready = block.ready
           \/ \A w \in Forks : fork'[w].waiter # Block
    PROVE  WaitInv'
  <1>0. TypeOK /\ Waiting
    BY DEF LifeInv
  <1>1. SameResumes /\ (ResumeIn(owed', Block) => ResumeIn(owed, Block))
    BY <1>0, QuietSame DEF OwesNoResume
  <1>2. Waitings' /\ Registered'
    BY <1>1, WaitMoves DEF NoNewWaiter, WaitInv
  <1>3. \A w \in Forks : fork'[w].waiter = Block => fork[w].waiter = Block
    BY Names
  <1>4. CASE block.at \notin Away \/ block.ready \/ block.wait # "reply"
    <2>1. \A w \in Forks : fork[w].waiter # Block
      BY <1>0, <1>4 DEF WaitInv, BlockWaits, Waiting
    <2> QED
      BY <1>2, <1>3, <2>1 DEF WaitInv, BlockWaits
  <1>5. CASE block'.wait = block.wait /\ block'.fork = block.fork /\ block'.ready = block.ready
    BY <1>1, <1>2, <1>3, <1>5, BlockWaitStays DEF WaitInv
  <1>6. CASE \A w \in Forks : fork'[w].waiter # Block
    BY <1>2, <1>6 DEF WaitInv, BlockWaits
  <1> QED
    BY <1>4, <1>5, <1>6

\* The block's step looks for a reply, asks everybody to stop, or starts a child.
LEMMA BlockOwes ==
    /\ \A w \in Forks : owed' = <<Call("route", w)>> \/ owed' = <<Call("cancel", w)>> => OwesNoResume
    /\ \A u \in Tasks : owed' = <<Call("mark", u)>> => OwesNoResume
  <1>1. \A w \in Forks : /\ Call("route", w) \in Callbacks /\ Call("route", w).do # "resume"
                         /\ Call("cancel", w) \in Callbacks /\ Call("cancel", w).do # "resume"
    BY CallTypes DEF Call
  <1>2. \A u \in Tasks : Call("mark", u) \in Callbacks /\ Call("mark", u).do # "resume"
    BY CallTypes DEF Call
  <1> QED
    BY <1>1, <1>2 DEF OwesNoResume

\* Steps of the block keep the waits sound.
LEMMA WaitBlock ==
    ASSUME LifeInv, WaitInv, BlockStep
    PROVE  WaitInv'
  <1>0. TypeOK /\ Waiting
    BY DEF LifeInv
  <1>a. {"run", "slot", "pump", "pumping", "reply", "workers", "done"} \intersect Away = {}
    BY DEF Away
  <1>b. /\ DOMAIN block = {"at", "op", "on", "fork", "wait", "ready"}
        /\ block \in [at : BlockPlaces, op : BlockOperations, on : Nat, fork : Nat,
                      wait : {"none", "scope", "turn", "ext", "reply"}, ready : BOOLEAN]
    BY <1>0, BlockFields DEF TypeOK, BlockOK
  <1>1. CASE \E u \in Tasks : BlockSpawn(u)
    <2>1. /\ Quiet /\ block.at = "run" /\ UNCHANGED <<waiters, slotWaiters, act, fork, owed>>
      BY <1>1 DEF BlockSpawn, BlockDoes, BlockRuns, slots, lanes
    <2> QED
      BY <2>1, <1>a, WaitBlockMoves DEF OwesNoResume
  <1>2. CASE \E w \in Forks : BlockWork(w)
    <2> PICK w \in Forks : BlockWork(w)
      BY <1>2
    <2>1. /\ Quiet /\ block.at = "run" /\ UNCHANGED <<waiters, slotWaiters, act, owed>>
          /\ UNCHANGED fork \/ fork' = [fork EXCEPT ![w].task = "admitting"]
      BY DEF BlockWork, BlockDoes, BlockRuns, slots
    <2>2. \A v \in Forks : fork'[v].waiter = fork[v].waiter
      BY <1>0, <2>1, TaskFork
    <2> QED
      BY <2>1, <2>2, <1>a, WaitBlockMoves DEF OwesNoResume
  <1>3. CASE \E u \in Tasks : BlockAwait(u) \/ BlockCancelTask(u)
    <2> PICK u \in Tasks : BlockAwait(u) \/ BlockCancelTask(u)
      BY <1>3
    <2>1. CASE BlockAwait(u)
      <3>1. /\ Quiet /\ block.at = "run" /\ UNCHANGED <<waiters, slotWaiters, act, fork, owed>>
        BY <2>1 DEF BlockAwait, BlockDoes, BlockRuns, slots, lanes
      <3> QED
        BY <3>1, <1>a, WaitBlockMoves DEF OwesNoResume
    <2>2. CASE BlockCancelTask(u)
      BY <2>2, WaitCancel DEF BlockCancelTask, BlockDoes, BlockRuns, lanes
    <2> QED
      BY <2>1, <2>2
  <1>4. CASE \E w \in Forks : BlockAwaitFork(w) \/ BlockCancelFork(w)
    <2> PICK w \in Forks : BlockAwaitFork(w) \/ BlockCancelFork(w)
      BY <1>4
    <2>1. /\ Quiet /\ block.at = "run" /\ UNCHANGED <<waiters, slotWaiters, act, fork>>
          /\ \/ UNCHANGED owed \/ owed' = <<>>
             \/ owed' = <<Call("route", w)>> \/ owed' = <<Call("cancel", w)>>
      BY DEF BlockAwaitFork, BlockCancelFork, BlockDoes, BlockRuns, slots, lanes
    <2>2. OwesNoResume
      BY <2>1, BlockOwes DEF OwesNoResume
    <2> QED
      BY <2>1, <2>2, <1>a, WaitBlockMoves
  <1>5. CASE BlockParks \/ BlockCancelScope \/ BlockCheckpoint \/ BlockCloses
    <2>1. /\ Quiet /\ block.at = "run" /\ UNCHANGED <<waiters, slotWaiters, act, fork>>
          /\ OwesNoResume
      BY <1>5 DEF BlockParks, BlockCancelScope, BlockCheckpoint, BlockCloses, CancelImpl, BlockDoes,
                  BlockRuns, slots, lanes, OwesNoResume
    <2> QED
      BY <2>1, <1>a, WaitBlockMoves
  <1>6. CASE SlotTaken
    <2>1. /\ Quiet /\ block.at = "slot" /\ UNCHANGED <<waiters, slotWaiters, act>>
          /\ block.op \in {"spawn", "work"}
          /\ block.op = "spawn" => block.on \in Tasks
          /\ block.op = "work" => block.on \in Forks
      BY <1>0, <1>6 DEF SlotTaken, BlockRuns, slots, TypeOK, BlockOK
    <2>2. \/ UNCHANGED <<fork, owed>>
          \/ block.op = "work" /\ fork' = [fork EXCEPT ![block.on].task = "refused"] /\ UNCHANGED owed
          \/ block.op = "spawn" /\ UNCHANGED fork /\ owed' = <<Call("mark", block.on)>>
          \/ block.op = "work" /\ Submit(block.on, Block) /\ UNCHANGED owed
      BY <1>6, <2>1 DEF SlotTaken, BlockRefused, RefuseBody, Register, lanes
    <2>3. OwesNoResume
      BY <2>1, <2>2, BlockOwes DEF OwesNoResume
    <2>4. \A v \in Forks : fork'[v].waiter \in {fork[v].waiter, NoOne}
      BY <1>0, <2>1, <2>2, TaskFork, SubmitFork
    <2> QED
      BY <2>1, <2>3, <2>4, <1>a, WaitBlockMoves
  <1>7. CASE SlotWanted \/ WorkersDrain
    <2>1. /\ Quiet /\ block.at \in {"slot", "workers"}
          /\ UNCHANGED <<waiters, slotWaiters, act, fork>>
          /\ \/ UNCHANGED owed
             \/ outstanding # <<>> /\ owed' = <<Call("route", Head(outstanding))>>
      BY <1>7 DEF SlotWanted, WorkersDrain, BlockRuns, slots, lanes
    <2>2. outstanding # <<>> => Head(outstanding) \in Forks
      BY <1>0 DEF TypeOK, LanesOK
    <2>3. OwesNoResume
      BY <2>1, <2>2, BlockOwes DEF OwesNoResume
    <2> QED
      BY <2>1, <2>3, <1>a, WaitBlockMoves
  <1>8. CASE \/ PumpReturns \/ PumpPass \/ PumpResumes \/ PumpParks \/ PumpDefers
             \/ ReplyTaken \/ ScopeCloses
    <2>1. /\ Quiet /\ block.at \in {"pump", "pumping", "reply", "workers"}
          /\ UNCHANGED <<waiters, slotWaiters, act, fork>> /\ OwesNoResume
      BY <1>8 DEF PumpReturns, PumpPass, PumpResumes, PumpParks, PumpDefers, ReplyTaken, ScopeCloses,
                  BlockRuns, slots, lanes, OwesNoResume
    <2> QED
      BY <2>1, <1>a, WaitBlockMoves
  <1>9. CASE DrivePass \/ DriveResumes \/ DriveParks
    <2>1. /\ Quiet /\ UNCHANGED <<waiters, slotWaiters, act, fork>> /\ OwesNoResume
          /\ \E p : block' = [block EXCEPT !.at = p]
      BY <1>9 DEF DrivePass, DriveResumes, DriveParks, BlockRuns, slots, lanes, OwesNoResume
    <2>2. block'.wait = block.wait /\ block'.fork = block.fork /\ block'.ready = block.ready
      BY <1>b, <2>1
    <2> QED
      BY <2>1, <2>2, WaitBlockMoves
  <1>10. CASE DriveRaises
    <2>1. /\ Quiet /\ UNCHANGED <<waiters, slotWaiters, act, owed>> /\ Abandon
      BY <1>10 DEF DriveRaises, BlockRuns, slots
    <2>2. \A v \in Forks : fork'[v].waiter \in {fork[v].waiter, NoOne} /\ fork'[v].waiter # Block
      BY <1>0, <2>1, AbandonFork, Names
    <2> QED
      BY <2>1, <2>2, WaitBlockMoves DEF OwesNoResume
  <1>11. CASE DriveLeaves
    <2>1. /\ Quiet /\ block.at = "leaving" /\ UNCHANGED <<waiters, slotWaiters, act, fork, owed>>
      BY <1>11 DEF DriveLeaves, BlockRuns, slots, lanes
    <2> QED
      BY <1>0, <2>1, WaitBlockMoves DEF OwesNoResume, Waiting
  <1>12. CASE ReplyAwaited
    <2>1. /\ Quiet /\ block.at = "reply" /\ UNCHANGED <<waiters, slotWaiters, act, owed>>
          /\ fork' = [fork EXCEPT ![block.fork].waiter = Block]
          /\ block' = [block EXCEPT !.at = "drive", !.wait = "reply", !.ready = FALSE]
      BY <1>12 DEF ReplyAwaited, BlockRuns, slots
    <2>2. \A w \in Forks : fork'[w].waiter = IF w = block.fork THEN Block ELSE fork[w].waiter
      BY <1>0, <2>1, ForkFields
    <2>3. \A w \in Forks : fork[w].waiter # Block
      BY <1>0, <1>a, <2>1 DEF WaitInv, BlockWaits, Waiting
    <2>4. SameResumes
      BY <1>0, <2>1, QuietSame
    <2>5. Waitings' /\ Registered'
      BY <2>1, <2>2, <2>4, WaitMoves DEF NoNewWaiter, WaitInv
    <2>6. ~ResumeIn(owed', Block)
      BY <2>1, QuietResumes
    <2>7. block'.wait = "reply" /\ block'.fork = block.fork /\ block'.ready = FALSE
      BY <1>b, <2>1
    <2> QED
      BY <2>2, <2>3, <2>5, <2>6, <2>7 DEF WaitInv, BlockWaits
  <1> QED
    BY <1>1, <1>2, <1>3, <1>4, <1>5, <1>6, <1>7, <1>8, <1>9, <1>10, <1>11, <1>12 DEF BlockStep

\* The host resumes waits that are open; the lanes and the clock none.
LEMMA WaitRest ==
    ASSUME LifeInv, WaitInv,
           HostStep \/ (\E w \in Forks : LaneStep(w)) \/ ClockPasses \/ UNCHANGED vars
    PROVE  WaitInv'
  <1>0. TypeOK /\ Waiting
    BY DEF LifeInv
  <1>b. DOMAIN block = {"at", "op", "on", "fork", "wait", "ready"}
    BY <1>0, BlockFields
  <1>1. CASE HostResumes \/ HostArms
    <2>1. /\ Quiet /\ UNCHANGED <<waiters, slotWaiters, act, fork, owed>>
          /\ block' = block \/ \E p : block' = [block EXCEPT !.at = p]
      BY <1>1 DEF HostResumes, HostArms, HostRuns, slots, lanes
    <2>2. block'.wait = block.wait /\ block'.fork = block.fork /\ block'.ready = block.ready
      BY <1>b, <2>1
    <2> QED
      BY <2>1, <2>2, WaitBlockMoves DEF OwesNoResume
  <1>2. CASE \E w \in Forks : RouteReply(w)
    <2>1. /\ Quiet /\ UNCHANGED <<waiters, slotWaiters, act, fork, block>>
          /\ \E w \in Forks : owed' = <<Call("route", w)>>
      BY <1>2 DEF RouteReply, HostRuns, slots, lanes
    <2>2. OwesNoResume
      BY <2>1, BlockOwes
    <2> QED
      BY <2>1, <2>2, WaitBlockMoves
  <1>3. CASE TimerFires
    <2>1. /\ Quiet /\ UNCHANGED <<waiters, slotWaiters, act, fork, owed>>
          /\ block' = block \/ "park" \in wakers
      BY <1>3 DEF TimerFires, HostRuns, FireWakers, slots, lanes
    <2> QED
      BY <1>0, <2>1, WaitBlockMoves DEF OwesNoResume, Waiting
  <1>4. CASE BlockReady \/ NextTurn
    <2>1. /\ Quiet /\ UNCHANGED <<waiters, slotWaiters, act, fork, block>>
          /\ \/ block.wait \in {"ext", "turn"} /\ owed' = <<Call("resume", Block)>>
             \/ owed' = <<>>
      BY <1>4 DEF BlockReady, NextTurn, HostRuns, slots, lanes
    <2>2. CASE owed' = <<>>
      BY <2>1, <2>2, WaitBlockMoves DEF OwesNoResume
    <2>3. CASE block.wait \in {"ext", "turn"} /\ owed' = <<Call("resume", Block)>>
      <3>1. Call("resume", Block) \in Callbacks
        BY CallTypes
      <3>2. SameResumes
        BY <2>1, <2>3, <3>1, OneResume, QuietResumes, Names DEF SameResumes
      <3>3. Waitings' /\ Registered'
        BY <2>1, <3>2, WaitMoves DEF NoNewWaiter, WaitInv
      <3>4. BlockWaits'
        BY <2>1, <2>3 DEF WaitInv, BlockWaits
      <3> QED
        BY <3>3, <3>4 DEF WaitInv
    <2> QED
      BY <2>1, <2>2, <2>3
  <1>5. CASE \E t \in Tasks : ExternalReady(t)
    <2> PICK t \in Tasks : ExternalReady(t)
      BY <1>5
    <2>1. /\ Quiet /\ UNCHANGED <<waiters, slotWaiters, act, fork, block>>
          /\ act[t].at \in {"ext", "drain"} /\ ~act[t].ready /\ owed' = <<Call("resume", t)>>
      BY DEF ExternalReady, HostRuns, slots, lanes
    <2>2. Call("resume", t) \in Callbacks
      BY CallTypes
    <2>3. Once(owed') /\ (\A p : ResumeIn(owed', p) <=> p = t) /\ \A p : ~ResumeIn(owed, p)
      BY <2>1, <2>2, OneResume, QuietResumes
    <2>4. Registered'
      BY <2>1, <2>3 DEF WaitInv, Registered
    <2>5. ASSUME NEW v \in Tasks PROVE Wait(v)'
      <3>1. Wait(v)
        BY DEF WaitInv, Waitings
      <3>2. CASE v # t
        BY <2>1, <2>3, <3>1, <3>2, WaitStays
      <3>3. CASE v = t
        BY <2>1, <2>3, <3>1, <3>3 DEF Wait, Free, Awaiting, Waits
      <3> QED
        BY <3>2, <3>3
    <2>6. BlockWaits'
      BY <2>1, <2>3, BlockWaitStays, Names DEF WaitInv
    <2> QED
      BY <2>4, <2>5, <2>6 DEF WaitInv, Waitings
  <1>6. ASSUME UNCHANGED <<waiters, slotWaiters, act, block, owed>>,
               \A v \in Forks : fork'[v].waiter = fork[v].waiter
        PROVE  WaitInv'
    <2>1. SameResumes
      BY <1>6 DEF SameResumes, WaitInv, Registered
    <2>2. Waitings' /\ Registered'
      BY <1>6, <2>1, WaitMoves DEF NoNewWaiter, WaitInv
    <2> QED
      BY <1>6, <2>2, BlockWaitStays DEF WaitInv
  <1>7. CASE \E w \in Forks : LaneStep(w)
    <2> PICK w \in Forks : LaneStep(w)
      BY <1>7
    <2>1. UNCHANGED <<waiters, slotWaiters, act, block, owed>>
      BY DEF LaneStep, LaneStarts, LaneFinishes, LaneReplies, slots
    <2>2. \A v \in Forks : fork'[v].waiter = fork[v].waiter
      BY <1>0, LaneFork
    <2> QED
      BY <1>6, <2>1, <2>2
  <1>8. CASE ClockPasses \/ UNCHANGED vars
    BY <1>6, <1>8 DEF ClockPasses, vars, slots, lanes
  <1> QED
    BY <1>1, <1>2, <1>3, <1>4, <1>5, <1>7, <1>8 DEF HostStep

\* Nobody waits at first.
LEMMA WaitInit == Init => WaitInv
  <1> SUFFICES ASSUME Init PROVE WaitInv
    OBVIOUS
  <1>1. owed = <<>> /\ slotWaiters = <<>> /\ waiters = [t \in Tasks |-> <<>>]
    BY DEF Init
  <1>2. \A t \in Tasks : act[t].at = "new"
    BY DEF Init
  <1>3. \A w \in Forks : fork[w].waiter = NoOne
    BY DEF Init
  <1>4. \A p : ~ResumeIn(owed, p) /\ ~Contains(<<>>, p)
    BY <1>1, OneResume DEF Contains
  <1>5. Registered
    BY <1>1, OneResume DEF Registered, Distinct
  <1>6. ASSUME NEW t \in Tasks PROVE Wait(t)
    BY <1>1, <1>2, <1>3, <1>4, Names DEF Wait, Awaiting, Free, Waits
  <1>7. BlockWaits
    BY <1>3, Names DEF BlockWaits
  <1> QED
    BY <1>5, <1>6, <1>7 DEF WaitInv, Waitings

\* Every step keeps the waits sound.
LEMMA WaitNext ==
    ASSUME LifeInv, WaitInv, [Next]_vars
    PROVE  WaitInv'
  <1> QED
    BY WaitCallback, WaitTask, WaitBlock, WaitRest DEF Next

\* The two invariants hold together.
LEMMA WaitAlways == Spec => [](LifeInv /\ WaitInv)
  <1>1. Init => LifeInv /\ WaitInv
    BY LifeInit, WaitInit
  <1>2. LifeInv /\ WaitInv /\ [Next]_vars => LifeInv' /\ WaitInv'
    BY LifeNext, WaitNext
  <1> QED
    BY <1>1, <1>2, PTL DEF Spec

\* Children are listed exactly while they live, every open wait has exactly one
\* resume and every resume an open wait, and each body is called or dropped.
THEOREM MembersAlwaysSound == Spec => []MembersSound
  <1>1. LifeInv /\ WaitInv => MembersSound
    BY ListedMembership, WaitSound, LifeBodies DEF LifeInv, MembersSound
  <1> QED
    BY <1>1, WaitAlways, PTL

-----------------------------------------------------------------------------
(***************************************************************************)
(* The slots of a TaskScope, and what is left when it has closed.          *)
(*                                                                         *)
(* A body that caught what is raised out of lendSlot would run on with its *)
(* slot lent; the theorems say what holds where none does.                 *)
(***************************************************************************)

(* Slots *)

\* Whoever lends its slot is in lendSlot, or unwinds out of it.
Lender(t) ==
    /\ t \in lending => Live(t) /\ act[t].at \in {"lend", "raisedCancel"}
    /\ act[t].at = "lend" => t \in lending

\* As many slots are lent as there are lenders.
Lenders == IsFiniteSet(lending) /\ lent = Cardinality(lending) /\ \A t \in Tasks : Lender(t)

\* There is room for whoever holds a slot, until a failure ends the lending.
Room == failed \/ Occupied <= Limit

\* The invariant.
SlotInv == ForksCounted /\ Lenders /\ Room

\* A sequence of distinct members is as long as the set it lists.
LEMMA DistinctLength ==
    ASSUME NEW S, NEW s \in Seq(S), Distinct(s), \A x \in S : Contains(s, x)
    PROVE  IsFiniteSet(S) /\ Cardinality(S) = Len(s)
  <1> DEFINE n == Len(s)
  <1>1. n \in Nat /\ s \in [1..n -> S]
    OBVIOUS
  <1>2. \A a, b \in 1..n : s[a] = s[b] => a = b
    BY DEF Distinct
  <1>3. \A x \in S : \E a \in 1..n : s[a] = x
    BY DEF Contains
  <1>4. s \in Bijection(1..n, S)
    BY <1>1, <1>2, <1>3 DEF Bijection, Injection, Surjection, IsInjective
  <1>5. IsFiniteSet(1..n) /\ Cardinality(1..n) = n
    BY <1>1, FS_Interval
  <1>6. ExistsBijection(1..n, S)
    BY <1>4 DEF ExistsBijection
  <1> QED
    BY <1>5, <1>6, FS_Bijection

\* The invariant is what SlotsSound says of the slots.
LEMMA SlotSound ==
    ASSUME LifeInv, SlotInv
    PROVE  SlotsSound
  <1> DEFINE L == LiveTasks
  <1>1. IsFiniteSet(L) /\ Cardinality(L) = Len(list)
    <2>1. list \in Seq(L) /\ Distinct(list) /\ \A t \in L : Contains(list, t)
      BY DEF LifeInv, Listed, LiveTasks
    <2> HIDE DEF L
    <2> QED
      BY <2>1, DistinctLength
  <1>2. lending \subseteq L
    BY DEF SlotInv, Lenders, Lender, LiveTasks, LifeInv, TypeOK, SlotsOK
  <1>3. L \intersect lending = lending
    BY <1>2
  <1>4. {t \in Tasks : Live(t) /\ t \notin lending} = L \ lending
    BY DEF LiveTasks
  <1> HIDE DEF L
  <1>5. Cardinality(L \ lending) = Cardinality(L) - Cardinality(lending)
    <2>1. Cardinality(L \ lending) = Cardinality(L) - Cardinality(L \intersect lending)
      BY <1>1, FS_Difference, Zenon
    <2> QED
      BY <1>3, <2>1, Zenon
  <1>6. LimitHeld
    <2>1. Len(list) \in Nat /\ forks \in Int /\ lent \in Int /\ Limit \in Nat
      BY LimitAssumption DEF LifeInv, TypeOK, ScheduleOK, LanesOK, SlotsOK
    <2>2. Cardinality(L \ lending) = Len(list) - lent
      BY <1>1, <1>5 DEF SlotInv, Lenders
    <2>3. failed \/ Len(list) + forks - lent <= Limit
      BY DEF SlotInv, Room, Occupied
    <2>4. failed \/ (Len(list) - lent) + forks <= Limit
      BY <2>1, <2>3
    <2>5. failed \/ Cardinality(L \ lending) + forks <= Limit
      BY <2>2, <2>4
    <2> QED
      BY <1>4, <2>5 DEF LimitHeld
  <1>7. LentExactly /\ LenderParked
    BY DEF LentExactly, LenderParked, SlotInv, Lenders, Lender, LifeInv, TypeOK, SlotsOK
  <1> QED
    BY <1>6, <1>7 DEF SlotsSound, SlotInv

\* The worker tasks that are outstanding stay the same.
LEMMA CountStays ==
    ASSUME ForksCounted, UNCHANGED <<forks, outstanding>>,
           \A w \in Forks : fork'[w].task = "queued" <=> fork[w].task = "queued"
    PROVE  ForksCounted'
  BY DEF ForksCounted

\* One more is submitted.
LEMMA CountSubmit ==
    ASSUME TypeOK, ForksCounted, NEW w \in Forks, NEW p, Submit(w, p), fork[w].task # "queued"
    PROVE  ForksCounted' /\ forks' = forks + 1
  <1>1. forks' = forks + 1 /\ outstanding' = Append(outstanding, w) /\ outstanding \in Seq(Forks)
    BY DEF Submit, TypeOK, LanesOK
  <1>2. fork'[w].task = "queued" /\ \A v \in Forks \ {w} : fork'[v] = fork[v]
    BY SubmitFork
  <1>3. ~Contains(outstanding, w)
    BY DEF ForksCounted
  <1>4. /\ Len(outstanding') = Len(outstanding) + 1 /\ Distinct(outstanding')
        /\ \A y : Contains(outstanding', y) <=> Contains(outstanding, y) \/ y = w
    BY <1>1, <1>3, AppendFacts DEF ForksCounted
  <1> QED
    BY <1>1, <1>2, <1>4 DEF ForksCounted

\* One has settled.
LEMMA CountSettled ==
    ASSUME TypeOK, ForksCounted, NEW w \in Forks, fork[w].task = "queued", fork'[w].task # "queued",
           \A v \in Forks \ {w} : fork'[v] = fork[v], NEW st, NEW after, ForkSettled(w, st, after)
    PROVE  ForksCounted' /\ forks' = forks - 1 /\ (failed => failed')
  <1>1. forks' = forks - 1 /\ outstanding' = Without(outstanding, w) /\ outstanding \in Seq(Forks)
        /\ (failed => failed')
    BY DEF ForkSettled, TypeOK, LanesOK
  <1>2. Contains(outstanding, w)
    BY DEF ForksCounted
  <1>3. /\ Len(outstanding') = Len(outstanding) - 1 /\ Distinct(outstanding')
        /\ \A y : y # w => (Contains(outstanding', y) <=> Contains(outstanding, y))
        /\ ~Contains(outstanding', w)
    BY <1>1, <1>2, WithoutFacts DEF ForksCounted
  <1> QED
    BY <1>1, <1>3 DEF ForksCounted

\* Nobody lends a slot or takes one back; who moves was not lending.
LEMMA LendersStay ==
    ASSUME Lenders, UNCHANGED <<lending, lent>>,
           \A t \in Tasks : t \in lending => (Live(t) => Live(t)'),
           \A t \in Tasks : \/ act'[t].at = act[t].at
                            \/ t \notin lending /\ act'[t].at # "lend"
                            \/ t \in lending /\ act'[t].at = "raisedCancel"
    PROVE  Lenders'
  BY DEF Lenders, Lender

\* A child lends its slot.
LEMMA LendersLend ==
    ASSUME Lenders, NEW t \in Tasks, t \notin lending, lending' = lending \union {t}, lent' = lent + 1,
           Live(t)', act'[t].at = "lend", \A v \in Tasks \ {t} : act'[v].at = act[v].at,
           \A v \in Tasks : Live(v) => Live(v)'
    PROVE  Lenders'
  <1>1. IsFiniteSet(lending') /\ Cardinality(lending') = Cardinality(lending) + 1
    BY FS_AddElement DEF Lenders
  <1> QED
    BY <1>1 DEF Lenders, Lender

\* A child takes its slot back, or settles.
LEMMA LendersBack ==
    ASSUME Lenders, NEW t \in Tasks, lending' = lending \ {t},
           lent' = IF t \in lending THEN lent - 1 ELSE lent,
           act'[t].at # "lend", \A v \in Tasks \ {t} : act'[v].at = act[v].at,
           \A v \in Tasks \ {t} : Live(v) => Live(v)'
    PROVE  Lenders'
  <1>1. /\ IsFiniteSet(lending')
        /\ Cardinality(lending') = IF t \in lending THEN Cardinality(lending) - 1
                                                    ELSE Cardinality(lending)
    BY FS_RemoveElement DEF Lenders
  <1> QED
    BY <1>1 DEF Lenders, Lender

\* What the slots are counted with.
LEMMA SlotNumbers ==
    ASSUME LifeInv
    PROVE  /\ Len(list) \in Nat /\ forks \in Int /\ lent \in Int /\ Limit \in Nat
           /\ Occupied \in Int
  BY LimitAssumption DEF LifeInv, TypeOK, ScheduleOK, LanesOK, SlotsOK, Occupied

\* No more is occupied than before.
LEMMA RoomStays ==
    ASSUME LifeInv, LifeInv', Room, failed => failed', Occupied' <= Occupied
    PROVE  Room'
  <1>1. Occupied \in Int /\ Occupied' \in Int /\ Limit \in Nat
    <2>1. LifeInv => Occupied \in Int /\ Limit \in Nat
      BY SlotNumbers
    <2>2. LifeInv' => Occupied' \in Int
      <3>1. Len(list') \in Nat /\ forks' \in Int /\ lent' \in Int
        BY DEF LifeInv, TypeOK, ScheduleOK, LanesOK, SlotsOK
      <3> QED
        BY <3>1 DEF Occupied
    <2> QED
      BY <2>1, <2>2
  <1> QED
    BY <1>1 DEF Room

-----------------------------------------------------------------------------
(* Steps *)

\* A step that leaves the slots alone.
LEMMA SlotStays ==
    ASSUME LifeInv, LifeInv', SlotInv, UNCHANGED <<lending, lent, forks, outstanding>>,
           Len(list') = Len(list), failed => failed',
           \A w \in Forks : fork'[w].task = "queued" <=> fork[w].task = "queued",
           \A t \in Tasks : t \in lending => (Live(t) => Live(t)'),
           \A t \in Tasks : \/ act'[t].at = act[t].at
                            \/ t \notin lending /\ act'[t].at # "lend"
                            \/ t \in lending /\ act'[t].at = "raisedCancel"
    PROVE  SlotInv'
  <1>1. Occupied' = Occupied /\ Occupied \in Int
    BY SlotNumbers DEF Occupied
  <1>2. Room'
    BY <1>1, RoomStays DEF SlotInv
  <1> QED
    BY <1>2, CountStays, LendersStay DEF SlotInv

\* A worker task settles.
LEMMA SlotForkSettled ==
    ASSUME LifeInv, LifeInv', SlotInv, UNCHANGED <<lending, lent, list, status, act>>,
           NEW w \in Forks, fork[w].task = "queued", fork'[w].task # "queued",
           \A v \in Forks \ {w} : fork'[v] = fork[v], NEW st, NEW after, ForkSettled(w, st, after)
    PROVE  SlotInv'
  <1>0. TypeOK
    BY DEF LifeInv
  <1>1. ForksCounted' /\ forks' = forks - 1 /\ (failed => failed')
    BY <1>0, CountSettled DEF SlotInv
  <1>2. Lenders'
    BY LendersStay DEF SlotInv, Live
  <1>3. Occupied' <= Occupied
    BY <1>1, SlotNumbers DEF Occupied
  <1> QED
    BY <1>1, <1>2, <1>3, RoomStays DEF SlotInv

\* A reply is routed.
LEMMA SlotRoute ==
    ASSUME LifeInv, LifeInv', SlotInv, UNCHANGED <<lending, lent, list, status, act>>,
           NEW w \in Forks, Route(w)
    PROVE  SlotInv'
  <1>0. TypeOK
    BY DEF LifeInv
  <1>1. /\ \A v \in Forks \ {w} : fork'[v] = fork[v]
        /\ fork'[w].task = IF fork[w].task = "queued" THEN fork[w].lane ELSE fork[w].task
        /\ fork[w].lane \in Replies
    BY <1>0, RouteFork DEF Route
  <1>2. CASE fork[w].task = "queued"
    <2>1. PICK after : ForkSettled(w, fork[w].lane, after)
      BY <1>2 DEF Route
    <2>2. fork'[w].task # "queued"
      BY <1>1, <1>2 DEF Replies, Ends
    <2> QED
      BY <1>1, <1>2, <2>1, <2>2, SlotForkSettled
  <1>3. CASE fork[w].task # "queued"
    <2>1. UNCHANGED <<forks, outstanding, failed>>
      BY <1>3 DEF Route
    <2> QED
      BY <1>1, <1>3, <2>1, SlotStays DEF Live
  <1> QED
    BY <1>2, <1>3

\* Callbacks keep the slots sound.
LEMMA SlotCallback ==
    ASSUME LifeInv, LifeInv', SlotInv, RunCallback
    PROVE  SlotInv'
  <1>0. TypeOK
    BY DEF LifeInv
  <1>1. CASE RunResume \/ RunRequest \/ RunMark
    <2>1. UNCHANGED <<lending, lent, forks, outstanding, fork, list, status, failed>>
      BY <1>1 DEF RunResume, RunRequest, RunMark, slots, lanes, flags
    <2>2. act' = act \/ act' = [act EXCEPT ![Head(owed).who].ready = TRUE]
      BY <1>1 DEF RunResume, RunRequest, RunMark
    <2>3. ASSUME NEW t \in Tasks PROVE act'[t].at = act[t].at
      <3>1. act \in [Tasks -> [at : Places, on : Nat, ready : BOOLEAN]]
        BY <1>0 DEF TypeOK, ControlOK
      <3>3. act'[t] = act[t] \/ act'[t] = [act[t] EXCEPT !.ready = TRUE]
        BY <2>2, <3>1
      <3> QED
        BY <3>1, <3>3
    <2> QED
      BY <2>1, <2>3, SlotStays DEF Live
  <1> DEFINE w == Head(owed).who
  <1>2. CASE RunRoute
    <2>1. w \in Forks
      BY <1>0, <1>2, ControlTypes, HeadCallback, CallbackShape DEF RunRoute
    <2>2. /\ UNCHANGED <<lending, lent, list, status, act>>
          /\ Route(w) \/ UNCHANGED <<forks, outstanding, fork, failed>>
      BY <1>2 DEF RunRoute, schedule, lanes
    <2> HIDE DEF w
    <2>3. CASE Route(w)
      BY <2>1, <2>2, <2>3, SlotRoute
    <2>4. CASE UNCHANGED <<forks, outstanding, fork, failed>>
      BY <2>2, <2>4, SlotStays DEF Live
    <2> QED
      BY <2>2, <2>3, <2>4
  <1>3. CASE RunCancel
    <2>1. /\ w \in Forks /\ \A v \in Forks \ {w} : fork'[v] = fork[v]
          /\ \/ Route(w)
             \/ /\ fork[w].task = "queued" /\ fork'[w].task = "cancelled"
                /\ ForkSettled(w, "cancelled", Tail(owed))
             \/ fork'[w].task = fork[w].task /\ UNCHANGED <<forks, outstanding, failed>>
      BY <1>0, <1>3, RunCancelFork
    <2>2. UNCHANGED <<lending, lent, list, status, act>>
      BY <1>3 DEF RunCancel, schedule
    <2> HIDE DEF w
    <2>3. CASE Route(w)
      BY <2>1, <2>2, <2>3, SlotRoute
    <2>4. CASE /\ fork[w].task = "queued" /\ fork'[w].task = "cancelled"
               /\ ForkSettled(w, "cancelled", Tail(owed))
      BY <2>1, <2>2, <2>4, SlotForkSettled
    <2>5. CASE fork'[w].task = fork[w].task /\ UNCHANGED <<forks, outstanding, failed>>
      BY <2>1, <2>2, <2>5, SlotStays DEF Live
    <2> QED
      BY <2>1, <2>3, <2>4, <2>5
  <1> QED
    BY <1>1, <1>2, <1>3 DEF RunCallback

\* A child settles and takes back what it lent.
LEMMA SlotSettle ==
    ASSUME LifeInv, LifeInv', SlotInv, NEW u \in Tasks, NEW st, NEW after, Live(u),
           SettleChild(u, st, after), act' = [act EXCEPT ![u].at = "over"],
           UNCHANGED lanes, failed => failed'
    PROVE  SlotInv'
  <1>0. TypeOK
    BY DEF LifeInv
  <1>1. /\ status' = [status EXCEPT ![u] = st] /\ list' = Without(list, u)
        /\ lending' = lending \ {u} /\ lent' = IF u \in lending THEN lent - 1 ELSE lent
    BY DEF SettleChild
  <1>2. /\ \A v \in Tasks \ {u} : act'[v].at = act[v].at /\ act'[u].at = "over"
        /\ \A v \in Tasks \ {u} : Live(v) => Live(v)'
    BY <1>0, <1>1 DEF TypeOK, ControlOK, ScheduleOK, Live
  <1>3. act'[u].at = "over"
    BY <1>0 DEF TypeOK, ControlOK
  <1>4. Lenders'
    BY <1>1, <1>2, <1>3, LendersBack DEF SlotInv
  <1>5. ForksCounted'
    BY CountStays DEF lanes, SlotInv
  <1>6. Len(list') = Len(list) - 1
    <2>1. Contains(list, u) /\ Distinct(list) /\ list \in Seq(LiveTasks)
      BY DEF LifeInv, Listed
    <2> QED
      BY <1>1, <2>1, WithoutFacts
  <1>7. Occupied' <= Occupied
    BY <1>1, <1>6, SlotNumbers DEF Occupied, lanes
  <1> QED
    BY <1>4, <1>5, <1>7, RoomStays DEF SlotInv

\* One more slot is held: there was room, or the scope has failed, or whoever
\* asked for it lends its own.
LEMMA SlotTake ==
    ASSUME LifeInv, LifeInv', Room, failed => failed', Len(list') + forks' = Len(list) + forks + 1,
           \/ lent' = lent /\ (Occupied < Limit \/ failed)
           \/ lent' = lent + 1
    PROVE  Room'
  <1>1. /\ Len(list') \in Nat /\ forks' \in Int /\ lent' \in Int
    BY DEF LifeInv, TypeOK, ScheduleOK, LanesOK, SlotsOK
  <1>2. Len(list) \in Nat /\ forks \in Int /\ lent \in Int /\ Limit \in Nat
    BY SlotNumbers
  <1>3. CASE failed
    BY <1>3 DEF Room
  <1>4. CASE ~failed
    <2>1. Occupied <= Limit
      BY <1>4 DEF Room
    <2>2. Occupied' <= Limit
      BY <1>1, <1>2, <1>4, <2>1 DEF Occupied
    <2> QED
      BY <2>2 DEF Room
  <1> QED
    BY <1>3, <1>4

\* A child goes on that neither lends its slot nor takes it back.
LEMMA SlotGoesOn ==
    ASSUME LifeInv, LifeInv', SlotInv, UNCHANGED <<lending, lent, forks, outstanding, list, status>>,
           failed => failed', \A w \in Forks : fork'[w].task = fork[w].task,
           NEW t \in Tasks, \A v \in Tasks \ {t} : act'[v] = act[v],
           \/ act' = act
           \/ act[t].at \notin {"lend", "raisedCancel"} /\ act'[t].at # "lend"
           \/ t \notin lending /\ act'[t].at # "lend"
           \/ act'[t].at = "raisedCancel"
    PROVE  SlotInv'
  <1>1. act[t].at \notin {"lend", "raisedCancel"} => t \notin lending
    BY DEF SlotInv, Lenders, Lender
  <1> QED
    BY <1>1, SlotStays DEF Live

\* Only a child that runs, and lives, takes a step.
LEMMA RunsLive ==
    ASSUME LifeInv, NEW t \in Tasks, Runs(t)
    PROVE  status[t] = "running" /\ Live(t)
  BY DEF Runs, LifeInv, CpuLive, Live

\* Finishing a child.
LEMMA SlotFinish ==
    ASSUME LifeInv, LifeInv', SlotInv, NEW t \in Tasks, Runs(t), NEW st, Finish(t, st)
    PROVE  SlotInv'
  <1>1. Live(t)
    BY RunsLive
  <1>2. \E after : SettleChild(t, st, after)
    BY DEF Finish
  <1>3. act' = [act EXCEPT ![t].at = "over"] /\ UNCHANGED lanes /\ (failed => failed')
    BY DEF Finish
  <1> QED
    BY <1>1, <1>2, <1>3, SlotSettle

\* Cancelling a child.
LEMMA SlotCancel ==
    ASSUME LifeInv, LifeInv', SlotInv, NEW u \in Tasks, CancelChild(u), UNCHANGED <<lanes, failed>>
    PROVE  SlotInv'
  <1>1. \/ UNCHANGED <<list, status, lending, lent, act>>
        \/ /\ status[u] = "queued" /\ act' = [act EXCEPT ![u].at = "over"]
           /\ SettleChild(u, "cancelled", <<>>)
    BY DEF CancelChild
  <1>2. CASE UNCHANGED <<list, status, lending, lent, act>>
    BY <1>2, SlotGoesOn DEF lanes
  <1>3. CASE /\ status[u] = "queued" /\ act' = [act EXCEPT ![u].at = "over"]
             /\ SettleChild(u, "cancelled", <<>>)
    <2>1. Live(u) /\ UNCHANGED lanes /\ (failed => failed')
      BY <1>3 DEF Live
    <2> QED
      BY <1>3, <2>1, SlotSettle
  <1> QED
    BY <1>1, <1>2, <1>3

\* A child starts another, or a worker task: there is room, or it lends its slot.
LEMMA SlotLend ==
    ASSUME LifeInv, LifeInv', SlotInv, NEW t \in Tasks, Runs(t), act[t].at = "body", Lend(t, Full),
           Len(list') + forks' = Len(list) + forks + 1, UNCHANGED failed, ForksCounted',
           \A v \in Tasks : Live(v) => Live(v)'
    PROVE  SlotInv'
  <1>0. TypeOK
    BY DEF LifeInv
  <1>1. CASE Full
    <2>1. lending' = lending \union {t} /\ lent' = lent + 1
          /\ act' = [act EXCEPT ![t] = Parked("lend", 0)]
      BY <1>1 DEF Lend
    <2>2. act'[t].at = "lend" /\ \A v \in Tasks \ {t} : act'[v].at = act[v].at
      BY <1>0, <2>1, ActAt DEF Parked
    <2>3. t \notin lending /\ Live(t)'
      BY RunsLive DEF SlotInv, Lenders, Lender
    <2>4. Lenders'
      BY <2>1, <2>2, <2>3, LendersLend DEF SlotInv
    <2>5. Room'
      BY <2>1, SlotTake DEF SlotInv
    <2> QED
      BY <2>4, <2>5 DEF SlotInv
  <1>2. CASE ~Full
    <2>1. UNCHANGED <<lending, lent, act>>
      BY <1>2 DEF Lend
    <2>2. Lenders'
      BY <2>1, LendersStay DEF SlotInv
    <2>3. Occupied < Limit \/ failed
      BY <1>2, SlotNumbers DEF Full
    <2>4. Room'
      BY <2>1, <2>3, SlotTake DEF SlotInv
    <2> QED
      BY <2>2, <2>4 DEF SlotInv
  <1> QED
    BY <1>1, <1>2

\* Steps of a child keep the slots sound.
LEMMA SlotTask ==
    ASSUME ~LenderCatches, LifeInv, LifeInv', SlotInv, NEW t \in Tasks, TaskStep(t)
    PROVE  SlotInv'
  <1>0. TypeOK
    BY DEF LifeInv
  <1>1. CASE Enter(t) \/ BodyReturns(t) \/ BodyFails(t) \/ Unwinds(t)
    <2>1. /\ Runs(t)
          /\ \/ \E st : Finish(t, st)
             \/ /\ act[t].at = "new" /\ act' = [act EXCEPT ![t].at = "body"]
                /\ UNCHANGED <<lending, lent, forks, outstanding, list, status, failed, fork>>
      BY <1>1 DEF Enter, BodyReturns, BodyFails, Unwinds, slots, lanes, flags
    <2>2. CASE \E st : Finish(t, st)
      BY <2>1, <2>2, SlotFinish
    <2>3. CASE /\ act[t].at = "new" /\ act' = [act EXCEPT ![t].at = "body"]
               /\ UNCHANGED <<lending, lent, forks, outstanding, list, status, failed, fork>>
      <3>1. act'[t].at = "body" /\ \A v \in Tasks \ {t} : act'[v] = act[v]
        BY <1>0, <2>3, ActAt
      <3> QED
        BY <2>3, <3>1, SlotGoesOn
    <2> QED
      BY <2>1, <2>2, <2>3
  <1>2. CASE WakeCancelled(t)
    <2>1. /\ act' = [act EXCEPT ![t] = [at |-> "raisedCancel", on |-> 0, ready |-> FALSE]]
          /\ UNCHANGED <<lending, lent, forks, outstanding, list, status, failed>>
      BY <1>2 DEF WakeCancelled, flags
    <2>2. act'[t].at = "raisedCancel" /\ \A v \in Tasks \ {t} : act'[v] = act[v]
      BY <1>0, <2>1, ActAt
    <2>3. \A w \in Forks : fork'[w].task = fork[w].task
      BY <1>0, <1>2, WakeCancelledFork
    <2> QED
      BY <2>1, <2>2, <2>3, SlotGoesOn
  <1>3. CASE WakeEarly(t)
    BY <1>3, SlotGoesOn DEF WakeEarly, schedule, slots, lanes, flags
  <1>4. CASE WakeReady(t)
    <2>1. /\ UNCHANGED <<lending, lent, forks, outstanding, list, status, failed, fork>>
          /\ act[t].at \in {"ext", "await", "fork"}
      BY <1>4 DEF WakeReady, schedule, slots, lanes, flags
    <2>2. PICK p \in {"body", "awaited", "forked"} :
                 act' = [act EXCEPT ![t].ready = FALSE, ![t].at = p]
      BY <1>4 DEF WakeReady
    <2>3. act'[t].at = p /\ \A v \in Tasks \ {t} : act'[v] = act[v]
      BY <1>0, <2>2, ActAt
    <2> QED
      BY <2>1, <2>3, SlotGoesOn
  <1>5. CASE WakeLender(t)
    <2>1. /\ act[t].at = "lend" /\ UNCHANGED <<forks, outstanding, list, status, failed, fork>>
          /\ \/ /\ act' = [act EXCEPT ![t].ready = FALSE] /\ UNCHANGED <<lending, lent>>
             \/ /\ ~(Occupied >= Limit /\ ~failed) /\ lending' = lending \ {t} /\ lent' = lent - 1
                /\ act' = [act EXCEPT ![t] = [at |-> "body", on |-> 0, ready |-> FALSE]]
      BY <1>5 DEF WakeLender, schedule, lanes, flags
    <2>2. CASE act' = [act EXCEPT ![t].ready = FALSE] /\ UNCHANGED <<lending, lent>>
      <3>1. \A v \in Tasks : act'[v].at = act[v].at
        BY <1>0, <2>2, ActAt
      <3> QED
        BY <2>1, <2>2, <3>1, SlotStays DEF Live
    <2>3. CASE /\ ~(Occupied >= Limit /\ ~failed) /\ lending' = lending \ {t} /\ lent' = lent - 1
               /\ act' = [act EXCEPT ![t] = [at |-> "body", on |-> 0, ready |-> FALSE]]
      <3>1. act'[t].at = "body" /\ \A v \in Tasks \ {t} : act'[v] = act[v]
        BY <1>0, <2>3, ActAt
      <3>2. t \in lending
        BY <2>1 DEF SlotInv, Lenders, Lender
      <3>3. Lenders'
        BY <2>1, <2>3, <3>1, <3>2, LendersBack DEF SlotInv, Live
      <3>4. ForksCounted'
        BY <2>1, CountStays DEF SlotInv
      <3>5. Room'
        <4>1. Len(list) \in Nat /\ forks \in Int /\ lent \in Int /\ Limit \in Nat
          BY SlotNumbers
        <4>2. CASE failed
          BY <2>1, <4>2 DEF Room
        <4>3. CASE ~failed
          <5>1. Occupied < Limit /\ Occupied' = Occupied + 1
            BY <2>1, <2>3, <4>1, <4>3 DEF Occupied
          <5> QED
            BY <5>1, SlotNumbers DEF Room
        <4> QED
          BY <4>2, <4>3
      <3> QED
        BY <3>3, <3>4, <3>5 DEF SlotInv
    <2> QED
      BY <2>1, <2>2, <2>3
  <1>6. CASE WakeDrained(t) \/ Catch(t)
    <2>1. /\ UNCHANGED <<lending, lent, forks, outstanding, list, status, failed, fork>>
          /\ act[t].at = "drain" \/ t \notin lending
      BY <1>6 DEF WakeDrained, Catch, schedule, slots, lanes, flags
    <2>2. \/ \E p \in {"raisedCancel", "body"} :
               act' = [act EXCEPT ![t] = [at |-> p, on |-> 0, ready |-> FALSE]]
          \/ act' = [act EXCEPT ![t].at = "body"]
      BY <1>6 DEF WakeDrained, Catch
    <2>3. act'[t].at \in {"raisedCancel", "body"} /\ \A v \in Tasks \ {t} : act'[v] = act[v]
      BY <1>0, <2>2, ActAt
    <2> QED
      BY <2>1, <2>3, SlotGoesOn
  <1>7. CASE \/ ParkExternally(t) \/ Checkpoint(t) \/ AwaitReturns(t) \/ CancelScope(t)
             \/ (\E d \in Deliberate : DrainNested(t, d)) \/ (\E u \in Tasks : Await(t, u))
             \/ \E w \in Forks : AwaitFork(t, w) \/ CancelFork(t, w)
    <2>1. /\ act[t].at \in {"body", "awaited"}
          /\ UNCHANGED <<lending, lent, forks, outstanding, list, status, failed, fork>>
      BY <1>7 DEF ParkExternally, Checkpoint, AwaitReturns, CancelScope, DrainNested, AwaitFork,
                  CancelFork, CancelImpl, Await, Does, Runs, schedule, slots, lanes, flags
    <2>2. \/ act' = act
          \/ \E p \in {"ext", "drain", "body", "await", "awaited", "forked", "raisedCancel",
                       "raisedError"} : \E n :
               act' = [act EXCEPT ![t] = [at |-> p, on |-> n, ready |-> FALSE]]
      BY <1>7 DEF ParkExternally, Checkpoint, AwaitReturns, CancelScope, DrainNested, AwaitFork,
                  CancelFork, Await, Raises, Parked, Raised
    <2>3. /\ act' = act \/ act'[t].at # "lend"
          /\ \A v \in Tasks \ {t} : act'[v] = act[v]
      BY <1>0, <2>2, ActAt
    <2> QED
      BY <2>1, <2>3, SlotGoesOn
  <1>8. CASE AwaitForkReturns(t)
    <2>1. /\ act[t].at = "forked"
          /\ UNCHANGED <<lending, lent, forks, outstanding, list, status, failed>>
      BY <1>8 DEF AwaitForkReturns, slots
    <2>2. PICK p, n : p \in {"fork", "body", "raisedCancel", "raisedError"} /\
                 act' = [act EXCEPT ![t] = [at |-> p, on |-> n, ready |-> FALSE]]
      BY <1>8 DEF AwaitForkReturns, Raises, Parked, Raised
    <2>3. act'[t].at = p /\ \A v \in Tasks \ {t} : act'[v] = act[v]
      BY <1>0, <2>2, ActAt
    <2>4. UNCHANGED fork \/ fork' = [fork EXCEPT ![act[t].on].waiter = t]
      BY <1>8 DEF AwaitForkReturns
    <2>5. \A w \in Forks : fork'[w].task = fork[w].task
      BY <1>0, <2>4, ForkFields
    <2> QED
      BY <2>1, <2>2, <2>3, <2>5, SlotGoesOn
  <1>9. CASE \E u \in Tasks : Spawn(t, u)
    <2> PICK u \in Tasks : Spawn(t, u)
      BY <1>9
    <2>1. /\ Runs(t) /\ act[t].at = "body" /\ status[u] = "new"
          /\ UNCHANGED <<forks, outstanding, failed, fork>>
      BY DEF Spawn, Does, NextTask, lanes, flags
    <2>2. \/ /\ Raises(t, Raised) /\ status' = [status EXCEPT ![u] = "refused"]
             /\ UNCHANGED <<lending, lent, list>>
          \/ /\ Lend(t, Full) /\ status' = [status EXCEPT ![u] = "queued"]
             /\ list' = Append(list, u)
      BY DEF Spawn, RefuseBody, Register
    <2>3. \A v \in Tasks : Live(v) => Live(v)'
      BY <1>0, <2>1, <2>2 DEF Live, TypeOK, ScheduleOK
    <2>4. CASE /\ Raises(t, Raised) /\ UNCHANGED <<lending, lent, list>>
      <3>1. act'[t].at \in {"raisedCancel", "raisedError"} /\ \A v \in Tasks \ {t} : act'[v] = act[v]
        BY <1>0, <2>4, ActAt DEF Raises, Parked, Raised
      <3>2. t \notin lending
        BY <2>1 DEF SlotInv, Lenders, Lender
      <3> QED
        BY <2>1, <2>3, <2>4, <3>1, <3>2, SlotStays
    <2>5. CASE Lend(t, Full) /\ list' = Append(list, u)
      <3>1. Len(list') = Len(list) + 1
        BY <1>0, <2>5 DEF TypeOK, ScheduleOK
      <3>2. ForksCounted'
        BY <2>1, CountStays DEF SlotInv
      <3>3. Len(list') + forks' = Len(list) + forks + 1
        BY <2>1, <3>1, SlotNumbers
      <3> QED
        BY <2>1, <2>3, <2>5, <3>2, <3>3, SlotLend
    <2> QED
      BY <2>2, <2>4, <2>5
  <1>10. CASE \E w \in Forks : Work(t, w)
    <2> PICK w \in Forks : Work(t, w)
      BY <1>10
    <2>1. /\ Runs(t) /\ act[t].at = "body" /\ fork[w].task = "new"
          /\ UNCHANGED <<list, status, failed>>
      BY DEF Work, Does, NextFork, flags
    <2>2. \/ Raises(t, Raised) /\ UNCHANGED <<lending, lent, forks, outstanding, fork>>
          \/ Lend(t, Full) /\ Submit(w, t)
      BY DEF Work, lanes
    <2>3. \A v \in Tasks : Live(v) => Live(v)'
      BY <2>1 DEF Live
    <2>4. CASE Raises(t, Raised) /\ UNCHANGED <<lending, lent, forks, outstanding, fork>>
      <3>1. act'[t].at \in {"raisedCancel", "raisedError"} /\ \A v \in Tasks \ {t} : act'[v] = act[v]
        BY <1>0, <2>4, ActAt DEF Raises, Parked, Raised
      <3> QED
        BY <2>1, <2>4, <3>1, SlotGoesOn
    <2>5. CASE Lend(t, Full) /\ Submit(w, t)
      <3>1. ForksCounted' /\ forks' = forks + 1
        BY <1>0, <2>1, <2>5, CountSubmit DEF SlotInv
      <3>2. Len(list') + forks' = Len(list) + forks + 1
        BY <2>1, <3>1, SlotNumbers
      <3> QED
        BY <2>1, <2>3, <2>5, <3>1, <3>2, SlotLend
    <2> QED
      BY <2>2, <2>4, <2>5
  <1>11. CASE \E u \in Tasks : CancelTask(t, u)
    BY <1>11, SlotCancel DEF CancelTask, flags
  <1> QED
    BY <1>1, <1>2, <1>3, <1>4, <1>5, <1>6, <1>7, <1>8, <1>9, <1>10, <1>11 DEF TaskStep

\* The block takes a slot for what it is starting, or gives it up.
LEMMA SlotTakes ==
    ASSUME LifeInv, LifeInv', SlotInv, SlotTaken
    PROVE  SlotInv'
  <1>0. TypeOK /\ Starting
    BY DEF LifeInv
  <1>1. /\ block.at = "slot" /\ block.op \in {"spawn", "work"}
        /\ block.op = "spawn" => block.on \in Tasks /\ status[block.on] = "admitting"
        /\ block.op = "work" => block.on \in Forks /\ fork[block.on].task = "admitting"
        /\ UNCHANGED <<lending, lent, failed, act>>
    BY <1>0 DEF SlotTaken, BlockRuns, TypeOK, BlockOK, Starting, slots, flags
  <1>2. Occupied < Limit \/ failed
    <2>1. CASE SlotFree
      BY <2>1 DEF SlotFree
    <2>2. CASE list = <<>> /\ outstanding = <<>>
      <3>1. forks = 0 /\ Len(list) = 0
        BY <2>2 DEF SlotInv, ForksCounted
      <3>2. lent \in Nat
        BY FS_CardinalityType DEF SlotInv, Lenders
      <3>3. Limit \in Nat \ {0}
        BY LimitAssumption
      <3> QED
        BY <3>1, <3>2, <3>3 DEF Occupied
    <2> QED
      BY <2>1, <2>2 DEF SlotTaken
  <1>3. CASE ScopeRaises
    <2>1. /\ UNCHANGED <<forks, outstanding, list>>
          /\ \/ block.op = "spawn" /\ status' = [status EXCEPT ![block.on] = "refused"] /\ UNCHANGED fork
             \/ /\ block.op = "work" /\ fork' = [fork EXCEPT ![block.on].task = "refused"]
                /\ UNCHANGED status
      BY <1>1, <1>3 DEF SlotTaken, BlockRefused, RefuseBody
    <2>2. \A v \in Tasks : Live(v) => Live(v)'
      BY <1>0, <1>1, <2>1 DEF Live, TypeOK, ScheduleOK
    <2>3. \A w \in Forks : fork'[w].task = "queued" <=> fork[w].task = "queued"
      BY <1>0, <1>1, <2>1, TaskFork
    <2> QED
      BY <1>1, <2>1, <2>2, <2>3, SlotStays
  <1>4. CASE ~ScopeRaises /\ block.op = "spawn"
    <2>1. /\ UNCHANGED <<forks, outstanding, fork>> /\ list' = Append(list, block.on)
          /\ status' = [status EXCEPT ![block.on] = "queued"]
      BY <1>1, <1>4 DEF SlotTaken, Register, lanes
    <2>2. \A v \in Tasks : Live(v) => Live(v)'
      BY <1>0, <1>1, <2>1 DEF Live, TypeOK, ScheduleOK
    <2>3. Len(list') = Len(list) + 1
      BY <1>0, <1>1, <1>4, <2>1 DEF TypeOK, ScheduleOK
    <2>4. Len(list') + forks' = Len(list) + forks + 1
      BY <2>1, <2>3, SlotNumbers
    <2>5. Room'
      BY <1>1, <1>2, <2>4, SlotTake DEF SlotInv
    <2> QED
      BY <1>1, <2>1, <2>2, <2>5, CountStays, LendersStay DEF SlotInv
  <1>5. CASE ~ScopeRaises /\ block.op = "work"
    <2>1. Submit(block.on, Block) /\ UNCHANGED <<list, status>>
      BY <1>1, <1>5 DEF SlotTaken
    <2>2. ForksCounted' /\ forks' = forks + 1
      BY <1>0, <1>1, <1>5, <2>1, CountSubmit DEF SlotInv
    <2>3. Len(list') + forks' = Len(list) + forks + 1
      BY <2>1, <2>2, SlotNumbers
    <2>4. Room'
      BY <1>1, <1>2, <2>3, SlotTake DEF SlotInv
    <2> QED
      BY <1>1, <2>1, <2>2, <2>4, LendersStay DEF SlotInv, Live
  <1> QED
    BY <1>1, <1>3, <1>4, <1>5

\* Steps of the block keep the slots sound.
LEMMA SlotBlock ==
    ASSUME LifeInv, LifeInv', SlotInv, BlockStep
    PROVE  SlotInv'
  <1>0. TypeOK /\ Starting
    BY DEF LifeInv
  <1>1. CASE \E u \in Tasks : BlockSpawn(u)
    <2> PICK u \in Tasks : BlockSpawn(u)
      BY <1>1
    <2>1. /\ UNCHANGED <<lending, lent, forks, outstanding, list, failed, fork, act>>
          /\ status[u] = "new"
          /\ \E st : status' = [status EXCEPT ![u] = st]
      BY DEF BlockSpawn, RefuseBody, NextTask, slots, lanes, flags
    <2>2. \A v \in Tasks : Live(v) => Live(v)'
      BY <1>0, <2>1 DEF Live, TypeOK, ScheduleOK
    <2> QED
      BY <2>1, <2>2, SlotStays
  <1>2. CASE \E w \in Forks : BlockWork(w)
    <2> PICK w \in Forks : BlockWork(w)
      BY <1>2
    <2>1. /\ UNCHANGED <<lending, lent, forks, outstanding, list, failed, status, act>>
          /\ fork[w].task = "new"
          /\ UNCHANGED fork \/ fork' = [fork EXCEPT ![w].task = "admitting"]
      BY DEF BlockWork, NextFork, schedule, slots, flags
    <2>2. \A v \in Forks : fork'[v].task = "queued" <=> fork[v].task = "queued"
      BY <1>0, <2>1, TaskFork
    <2> QED
      BY <2>1, <2>2, SlotStays DEF Live
  <1>3. CASE \E u \in Tasks : BlockCancelTask(u)
    BY <1>3, SlotCancel DEF BlockCancelTask, flags
  <1>4. CASE \/ (\E u \in Tasks : BlockAwait(u))
             \/ (\E w \in Forks : BlockAwaitFork(w) \/ BlockCancelFork(w))
             \/ BlockParks \/ BlockCancelScope \/ BlockCheckpoint \/ BlockCloses \/ SlotWanted
             \/ PumpReturns \/ PumpPass \/ PumpParks \/ PumpDefers \/ DrivePass \/ DriveParks
             \/ DriveLeaves \/ ReplyTaken \/ WorkersDrain \/ ScopeCloses
    <2>1. UNCHANGED <<lending, lent, forks, outstanding, list, failed, status, act, fork>>
      BY <1>4 DEF BlockAwait, BlockAwaitFork, BlockCancelFork, BlockParks, BlockCancelScope,
                  CancelImpl, BlockCheckpoint, BlockCloses, SlotWanted, PumpReturns, PumpPass,
                  PumpParks, PumpDefers, DrivePass, DriveParks, DriveLeaves, ReplyTaken, WorkersDrain,
                  ScopeCloses, schedule, slots, lanes, flags
    <2> QED
      BY <2>1, SlotStays DEF Live
  <1>5. CASE PumpResumes \/ DriveResumes
    <2>1. /\ UNCHANGED <<lending, lent, forks, outstanding, list, failed, act, fork>>
          /\ status' = [status EXCEPT ![Head(queue)] = "running"]
      BY <1>5 DEF PumpResumes, DriveResumes, ResumeChild, slots, lanes, flags
    <2>2. \A v \in Tasks : Live(v) => Live(v)'
      BY <1>0, <2>1 DEF Live, TypeOK, ScheduleOK
    <2> QED
      BY <2>1, <2>2, SlotStays
  <1>6. CASE SlotTaken
    BY <1>6, SlotTakes
  <1>7. CASE DriveRaises
    <2>1. /\ UNCHANGED <<lending, lent, forks, outstanding, failed, act>> /\ Abandon
      BY <1>7 DEF DriveRaises, slots, flags
    <2>2. /\ UNCHANGED list
          /\ \/ UNCHANGED status
             \/ block.op = "spawn" /\ status' = [status EXCEPT ![block.on] = "refused"]
      BY <2>1 DEF Abandon, RefuseBody
    <2>3. \A v \in Tasks : Live(v) => Live(v)'
      BY <1>0, <2>2 DEF Live, TypeOK, ScheduleOK, Starting
    <2>4. \A v \in Forks : fork'[v].task = "queued" <=> fork[v].task = "queued"
      BY <1>0, <2>1, AbandonFork DEF Starting
    <2> QED
      BY <2>1, <2>2, <2>3, <2>4, SlotStays
  <1>8. CASE ReplyAwaited
    <2>1. /\ UNCHANGED <<lending, lent, forks, outstanding, list, failed, status, act>>
          /\ fork' = [fork EXCEPT ![block.fork].waiter = Block]
      BY <1>8 DEF ReplyAwaited, schedule, slots, flags
    <2>2. \A v \in Forks : fork'[v].task = fork[v].task
      BY <1>0, <2>1, ForkFields
    <2> QED
      BY <2>1, <2>2, SlotStays DEF Live
  <1> QED
    BY <1>1, <1>2, <1>3, <1>4, <1>5, <1>6, <1>7, <1>8 DEF BlockStep

\* So do the host, the lanes and the clock.
LEMMA SlotRest ==
    ASSUME LifeInv, LifeInv', SlotInv,
           HostStep \/ (\E w \in Forks : LaneStep(w)) \/ ClockPasses \/ UNCHANGED vars
    PROVE  SlotInv'
  <1>0. TypeOK
    BY DEF LifeInv
  <1>1. UNCHANGED <<lending, lent, forks, outstanding, list, failed, status, act>>
    BY DEF HostStep, HostResumes, HostArms, BlockReady, TimerFires, NextTurn, ExternalReady,
           RouteReply, LaneStep, LaneStarts, LaneFinishes, LaneReplies, ClockPasses, vars, schedule,
           slots, lanes, flags
  <1>2. \A v \in Forks : fork'[v].task = fork[v].task
    <2>1. CASE \E w \in Forks : LaneStep(w)
      BY <1>0, <2>1, LaneFork
    <2>2. CASE HostStep \/ ClockPasses \/ UNCHANGED vars
      BY <2>2 DEF HostStep, HostResumes, HostArms, BlockReady, TimerFires, NextTurn, ExternalReady,
             RouteReply, ClockPasses, vars, lanes
    <2> QED
      BY <2>1, <2>2
  <1> QED
    BY <1>1, <1>2, SlotStays DEF Live

\* No slot is held at first.
LEMMA SlotInit == Init => SlotInv
  <1> SUFFICES ASSUME Init PROVE SlotInv
    OBVIOUS
  <1>1. ForksCounted
    BY DEF Init, ForksCounted, Distinct, Contains
  <1>2. Lenders
    BY FS_EmptySet DEF Init, Lenders, Lender
  <1>3. Room
    BY LimitAssumption DEF Init, Room, Occupied
  <1> QED
    BY <1>1, <1>2, <1>3 DEF SlotInv

\* Every step keeps the slots sound.
LEMMA SlotNext ==
    ASSUME ~LenderCatches, LifeInv, SlotInv, [Next]_vars
    PROVE  SlotInv'
  <1>1. LifeInv'
    BY LifeNext
  <1> QED
    BY <1>1, SlotCallback, SlotTask, SlotBlock, SlotRest DEF Next

\* Where no body goes on with its slot lent, slots are counted exactly and the
\* children and worker tasks that hold one never outnumber the limit, whoever
\* lends, takes back, settles or fails in between.
THEOREM SlotsAlwaysSound ==
    ASSUME ~LenderCatches
    PROVE  Spec => []SlotsSound
  <1>1. Init => LifeInv /\ SlotInv
    BY LifeInit, SlotInit
  <1>2. LifeInv /\ SlotInv /\ [Next]_vars => LifeInv' /\ SlotInv'
    BY LifeNext, SlotNext
  <1>3. LifeInv /\ SlotInv => SlotsSound
    BY SlotSound
  <1> QED
    BY <1>1, <1>2, <1>3, PTL DEF Spec

-----------------------------------------------------------------------------
(* What a closed scope leaves behind *)

\* The block settles worker tasks on its way out only once the children are
\* gone, and closes once those are gone as well.
Drained ==
    /\ block.at = "workers" => list = <<>>
    /\ block.op = "drain" /\ (block.at = "reply" \/ block.wait = "reply") => list = <<>>
    /\ closed => list = <<>> /\ outstanding = <<>>

\* Once the children are gone nobody starts another but the block.
LEMMA EmptyStays ==
    ASSUME LifeInv, Kinds, [Next]_vars, list = <<>>, block.at # "slot"
    PROVE  list' = <<>> /\ (outstanding = <<>> => outstanding' = <<>>)
  <1>0. TypeOK
    BY DEF LifeInv
  <1>1. cpu \notin Tasks
    BY DEF LifeInv, CpuLive, Listed, Live, Contains
  <1>2. \A x : Without(<<>>, x) = <<>>
    BY DEF Without
  <1>3. CASE RunCallback
    <2>1. list' = list
      BY <1>3 DEF RunCallback, RunResume, RunRequest, RunMark, RunRoute, RunCancel, schedule
    <2>2. UNCHANGED outstanding \/ \E w : outstanding' = Without(outstanding, w)
      BY <1>3 DEF RunCallback, RunResume, RunRequest, RunMark, RunRoute, RunCancel, Route,
                  ForkSettled, lanes
    <2> QED
      BY <1>2, <2>1, <2>2
  <1>4. CASE \E t \in Tasks : TaskStep(t)
    BY <1>1, <1>4 DEF TaskStep, Enter, WakeCancelled, WakeEarly, WakeReady, WakeLender, WakeDrained,
                      BodyReturns, BodyFails, Unwinds, Catch, ParkExternally, Checkpoint,
                      AwaitReturns, AwaitForkReturns, CancelScope, DrainNested, Spawn, Await,
                      CancelTask, Work, AwaitFork, CancelFork, Does, Runs
  <1>5. CASE BlockStep
    <2>1. UNCHANGED outstanding
      BY <1>5 DEF BlockStep, BlockSpawn, BlockAwait, BlockCancelTask, BlockWork, BlockAwaitFork,
                  BlockCancelFork, BlockParks, BlockCancelScope, BlockCheckpoint, BlockCloses,
                  SlotTaken, SlotWanted, PumpReturns, PumpPass, PumpResumes, PumpParks, PumpDefers,
                  DrivePass, DriveRaises, DriveResumes, DriveParks, DriveLeaves, ReplyAwaited,
                  ReplyTaken, WorkersDrain, ScopeCloses, BlockRuns, lanes
    <2>2. UNCHANGED list \/ \E u \in Tasks : list' = Without(list, u)
      BY <1>5 DEF BlockStep, BlockSpawn, BlockAwait, BlockCancelTask, BlockWork, BlockAwaitFork,
                  BlockCancelFork, BlockParks, BlockCancelScope, BlockCheckpoint, BlockCloses,
                  SlotTaken, SlotWanted, PumpReturns, PumpPass, PumpResumes, PumpParks, PumpDefers,
                  DrivePass, DriveRaises, DriveResumes, DriveParks, DriveLeaves, ReplyAwaited,
                  ReplyTaken, WorkersDrain, ScopeCloses, BlockRuns, schedule, CancelChild,
                  SettleChild, RefuseBody, Abandon
    <2> QED
      BY <1>2, <2>1, <2>2
  <1>6. CASE HostStep \/ (\E w \in Forks : LaneStep(w)) \/ ClockPasses \/ UNCHANGED vars
    <2>1. UNCHANGED <<list, outstanding>>
      BY <1>6 DEF HostStep, HostResumes, HostArms, BlockReady, TimerFires, NextTurn, ExternalReady,
             RouteReply, LaneStep, LaneStarts, LaneFinishes, LaneReplies, ClockPasses, vars, schedule,
             lanes
    <2> QED
      BY <2>1
  <1> QED
    BY <1>3, <1>4, <1>5, <1>6 DEF Next

\* The block stays where it drains, or comes there from where it did.
LEMMA DrainMoves ==
    ASSUME LifeInv, Drained, [Next]_vars
    PROVE  \/ ~(block'.at = "workers"
                \/ (block'.op = "drain" /\ (block'.at = "reply" \/ block'.wait = "reply")))
           \/ list = <<>> /\ block.at # "slot"
  <1>0. TypeOK /\ Waiting /\ Starting
    BY DEF LifeInv
  <1>1. /\ DOMAIN block = {"at", "op", "on", "fork", "wait", "ready"}
    BY <1>0, BlockFields
  <1> DEFINE Here == block.at = "workers"
                     \/ (block.op = "drain" /\ (block.at = "reply" \/ block.wait = "reply"))
             There == block'.at = "workers"
                      \/ (block'.op = "drain" /\ (block'.at = "reply" \/ block'.wait = "reply"))
  <1>2. ASSUME Here PROVE list = <<>> /\ block.at # "slot"
    BY <1>0, <1>2 DEF Drained, Waiting, Away
  <1>3. ASSUME block'.at = block.at, block'.op = block.op, block'.wait = block.wait
        PROVE  There => Here
    BY <1>3
  <1>4. CASE block' = block \/ block' = [block EXCEPT !.ready = TRUE]
    BY <1>1, <1>2, <1>3, <1>4
  <1>5. CASE RunCallback
    <2>1. block' = block \/ block' = [block EXCEPT !.ready = TRUE]
      BY <1>5 DEF RunCallback, RunResume, RunRequest, RunMark, RunRoute, RunCancel, MarkRunnable,
                  FireWakers
    <2> QED
      BY <1>4, <2>1
  <1>6. CASE \E t \in Tasks : TaskStep(t)
    <2>1. block' = block
      BY <1>6 DEF TaskStep, Enter, WakeCancelled, WakeEarly, WakeReady, WakeLender, WakeDrained,
                  BodyReturns, BodyFails, Unwinds, Catch, ParkExternally, Checkpoint,
                  AwaitReturns, AwaitForkReturns, CancelScope, DrainNested, Spawn, Await,
                  CancelTask, Work, AwaitFork, CancelFork, Finish
    <2> QED
      BY <1>4, <2>1
  <1>7. CASE BlockStep
    <2>1. CASE \/ (\E u \in Tasks : BlockSpawn(u) \/ BlockAwait(u) \/ BlockCancelTask(u))
               \/ (\E w \in Forks : BlockWork(w) \/ BlockAwaitFork(w) \/ BlockCancelFork(w))
               \/ BlockParks \/ BlockCancelScope \/ BlockCheckpoint \/ BlockCloses
               \/ SlotTaken \/ DriveRaises \/ ScopeCloses
      <3>1. \/ block' = block
            \/ block'.op # "drain" /\ block'.at # "workers"
            \/ block'.op = "drain" /\ block'.at = "pump" /\ block'.wait = "none"
        <4>1. CASE \E u \in Tasks : BlockSpawn(u) \/ BlockAwait(u) \/ BlockCancelTask(u)
          BY <4>1 DEF BlockSpawn, BlockAwait, BlockCancelTask, Doing, Running
        <4>2. CASE \E w \in Forks : BlockWork(w) \/ BlockCancelFork(w)
          BY <4>2 DEF BlockWork, BlockCancelFork, Doing
        <4>3. CASE (\E w \in Forks : BlockAwaitFork(w)) \/ BlockParks
          <5>1. \/ block' = block
                \/ \E w \in Forks : block' = [Doing("reply", "fork", 0) EXCEPT !.fork = w]
                \/ block' = [Doing("drive", "ext", 0) EXCEPT !.wait = "ext"]
            BY <4>3 DEF BlockAwaitFork, BlockParks
          <5> QED
            BY <5>1 DEF Doing
        <4>4. CASE BlockCancelScope \/ BlockCheckpoint \/ BlockCloses
          BY <4>4 DEF BlockCancelScope, BlockCheckpoint, BlockCloses, Doing
        <4>5. CASE SlotTaken \/ DriveRaises \/ ScopeCloses
          <5>1. block' \in {Running, Doing("done", "none", 0)}
            BY <4>5 DEF SlotTaken, DriveRaises, ScopeCloses, Abandon
          <5> QED
            BY <5>1 DEF Doing, Running
        <4> QED
          BY <2>1, <4>1, <4>2, <4>3, <4>4, <4>5
      <3> QED
        BY <1>4, <3>1
    <2>2. CASE SlotWanted
      <3>1. block.op # "drain" /\ block.at = "slot"
        BY <1>0, <2>2 DEF SlotWanted, BlockRuns, TypeOK, BlockOK
      <3>2. block'.op = block.op /\ block'.at \in {"pump", "reply"}
        BY <1>1, <2>2 DEF SlotWanted
      <3> QED
        BY <3>1, <3>2
    <2>3. CASE PumpReturns
      <3>1. block.at = "pump" /\ block.op \in PumpOps /\ Settled
        BY <1>0, <2>3 DEF PumpReturns, BlockRuns, Waiting
      <3>2. CASE block.op = "drain"
        <4>1. list = <<>>
          BY <3>1, <3>2 DEF Settled
        <4> QED
          BY <3>1, <4>1
      <3>3. CASE block.op = "await"
        BY <2>3, <3>3 DEF PumpReturns, Running, Doing
      <3>4. CASE block.op \in {"spawn", "work"}
        <4>1. block' = [block EXCEPT !.at = "slot"]
          BY <2>3, <3>4 DEF PumpReturns
        <4> QED
          BY <1>1, <3>4, <4>1
      <3> QED
        BY <3>1, <3>2, <3>3, <3>4 DEF PumpOps
    <2>4. CASE PumpPass \/ PumpResumes \/ PumpParks \/ PumpDefers
      <3>1. /\ block'.at \in {"pump", "pumping", "drive"}
            /\ block'.wait \in {block.wait, "scope", "turn"} /\ block.at \in {"pump", "pumping"}
        BY <1>1, <2>4 DEF PumpPass, PumpResumes, PumpParks, PumpDefers, BlockRuns
      <3>2. block.wait = "none"
        BY <1>0, <3>1 DEF Waiting, Away
      <3> QED
        BY <3>1, <3>2
    <2>5. CASE DrivePass \/ DriveResumes \/ DriveParks
      <3>1. /\ block'.at \in {"leaving", "driving", "drive", "out"}
            /\ block'.wait = block.wait /\ block'.op = block.op
        BY <1>1, <2>5 DEF DrivePass, DriveResumes, DriveParks
      <3> QED
        BY <1>2, <3>1
    <2>6. CASE DriveLeaves
      <3>1. \/ block'.op # "drain" /\ block'.at # "workers"
            \/ block.wait = "reply" /\ block'.op = block.op /\ block'.at = "reply"
            \/ block'.at = "pump" /\ block'.wait = "none"
        BY <1>1, <2>6 DEF DriveLeaves, Running, Doing
      <3> QED
        BY <1>2, <3>1
    <2>7. CASE ReplyAwaited \/ WorkersDrain
      <3>1. /\ block'.op = block.op /\ block'.at \in {"drive", "reply"}
            /\ block.at \in {"reply", "workers"}
        BY <1>1, <2>7 DEF ReplyAwaited, WorkersDrain, BlockRuns
      <3> QED
        BY <1>2, <3>1
    <2>8. CASE ReplyTaken
      <3>1. block.at = "reply" /\ block.op \in ReplyOps
        BY <1>0, <2>8 DEF ReplyTaken, BlockRuns, Waiting
      <3>2. CASE block.op = "drain"
        BY <1>2, <3>1, <3>2
      <3>3. CASE block.op = "fork"
        BY <2>8, <3>3 DEF ReplyTaken, Running, Doing
      <3>4. CASE block.op \in {"spawn", "work"}
        <4>1. block' = [block EXCEPT !.at = "slot"]
          BY <2>8, <3>4 DEF ReplyTaken
        <4> QED
          BY <1>1, <3>4, <4>1
      <3> QED
        BY <3>1, <3>2, <3>3, <3>4 DEF ReplyOps
    <2> QED
      BY <1>7, <2>1, <2>2, <2>3, <2>4, <2>5, <2>6, <2>7, <2>8 DEF BlockStep
  <1>8. CASE HostStep \/ (\E w \in Forks : LaneStep(w)) \/ ClockPasses \/ UNCHANGED vars
    <2>1. \/ block' = block \/ block' = [block EXCEPT !.ready = TRUE]
          \/ block' = [block EXCEPT !.at = "drive"]
      BY <1>8 DEF HostStep, HostResumes, HostArms, BlockReady, TimerFires, NextTurn, ExternalReady,
             RouteReply, LaneStep, LaneStarts, LaneFinishes, LaneReplies, ClockPasses, vars, FireWakers
    <2>2. CASE block' = [block EXCEPT !.at = "drive"]
      BY <1>1, <1>2, <2>2
    <2> QED
      BY <1>4, <2>1, <2>2
  <1> QED
    BY <1>5, <1>6, <1>7, <1>8 DEF Next

\* Every step keeps it.
LEMMA DrainedNext ==
    ASSUME LifeInv, Drained, [Next]_vars
    PROVE  Drained'
  <1>1. Kinds
    BY LifeNext
  <1>2. CASE ~closed /\ closed'
    <2>1. ScopeCloses
      <3>1. CASE RunCallback
        BY <1>2, <3>1 DEF RunCallback, RunResume, RunRequest, RunMark, RunRoute, RunCancel, flags
      <3>2. CASE \E t \in Tasks : TaskStep(t)
        <4>1. PICK t \in Tasks : TaskStep(t)
          BY <3>2
        <4>2. UNCHANGED closed
          BY <4>1 DEF TaskStep, Enter, WakeCancelled, WakeEarly, WakeReady, WakeLender, WakeDrained,
                      BodyReturns, BodyFails, Unwinds, Catch, ParkExternally, Checkpoint,
                      AwaitReturns, AwaitForkReturns, CancelScope, DrainNested, Spawn, Await,
                      CancelTask, Work, AwaitFork, CancelFork, Finish, flags
        <4> QED
          BY <1>2, <4>2
      <3>3. CASE BlockStep
        BY <1>2, <3>3 DEF BlockStep, BlockSpawn, BlockAwait, BlockCancelTask, BlockWork,
                  BlockAwaitFork, BlockCancelFork, BlockParks, BlockCancelScope, BlockCheckpoint,
                  BlockCloses, SlotTaken, SlotWanted, PumpReturns, PumpPass, PumpResumes, PumpParks,
                  PumpDefers, DrivePass, DriveRaises, DriveResumes, DriveParks, DriveLeaves,
                  ReplyAwaited, ReplyTaken, WorkersDrain, flags
      <3>4. CASE HostStep \/ (\E w \in Forks : LaneStep(w)) \/ ClockPasses \/ UNCHANGED vars
        BY <1>2, <3>4 DEF HostStep, HostResumes, HostArms, BlockReady, TimerFires, NextTurn,
                  ExternalReady, RouteReply, LaneStep, LaneStarts, LaneFinishes, LaneReplies,
                  ClockPasses, vars, flags
      <3> QED
        BY <3>1, <3>2, <3>3, <3>4 DEF Next
    <2>2. /\ block.at = "workers" /\ outstanding = <<>> /\ block' = Doing("done", "none", 0)
          /\ UNCHANGED <<list, outstanding>>
      BY <2>1 DEF ScopeCloses, BlockRuns, schedule, lanes
    <2> QED
      BY <2>2 DEF Drained, Doing
  <1>3. CASE closed
    <2>1. list = <<>> /\ outstanding = <<>> /\ block.at # "slot"
      BY <1>3 DEF Drained, LifeInv, Driving
    <2>2. list' = <<>> /\ outstanding' = <<>>
      BY <1>1, <2>1, EmptyStays
    <2> QED
      BY <2>2 DEF Drained
  <1>4. CASE ~closed'
    <2>1. CASE list = <<>> /\ block.at # "slot"
      BY <1>1, <1>4, <2>1, EmptyStays DEF Drained
    <2>2. CASE ~(list = <<>> /\ block.at # "slot")
      BY <1>4, <2>2, DrainMoves DEF Drained
    <2> QED
      BY <2>1, <2>2
  <1> QED
    BY <1>2, <1>3, <1>4

\* A closed scope has nothing left.
LEMMA ClosedEmpty ==
    ASSUME LifeInv, WaitInv, SlotInv, Drained
    PROVE  NothingLeft
  <1> SUFFICES ASSUME closed PROVE ClosedSettled
    BY LifeBodies DEF NothingLeft, ClosedSettled
  <1>0. TypeOK
    BY DEF LifeInv
  <1>1. list = <<>> /\ outstanding = <<>> /\ block.at = "done"
    BY DEF Drained, LifeInv, Driving
  <1>2. \A t \in Tasks : ~Live(t)
    BY <1>1 DEF LifeInv, Listed, Contains
  <1>3. queue = <<>>
    <2>1. queue \in Seq(LiveTasks) /\ LiveTasks = {}
      BY <1>2 DEF LifeInv, Listed, LiveTasks
    <2> QED
      BY <2>1
  <1>4. forks = 0 /\ \A w \in Forks : fork[w].task # "queued"
    BY <1>1 DEF SlotInv, ForksCounted, Contains
  <1>5. lent = 0
    <2>1. lending = {}
      BY <1>0, <1>2 DEF SlotInv, Lenders, Lender, TypeOK, SlotsOK
    <2> QED
      BY <2>1, FS_EmptySet DEF SlotInv, Lenders
  <1>6. \A t \in Tasks : act[t].at \notin Inside /\ body[t] # "held"
    <2> TAKE t \in Tasks
    <2>1. Life(t) /\ ~Live(t) /\ status[t] # "admitting"
      BY <1>1, <1>2 DEF LifeInv, Lives, Starting
    <2> QED
      BY <2>1 DEF Life, Live, Inside, Waits, Ended, Ends
  <1>7. \A t \in Tasks : Wait(t)
    BY DEF WaitInv, Waitings
  <1>8. slotWaiters = <<>>
    <2>1. slotWaiters \in Seq(Tasks)
      BY <1>0 DEF TypeOK, SlotsOK
    <2>2. \A t \in Tasks : ~Contains(slotWaiters, t)
      BY <1>6, <1>7 DEF Wait, Inside, Waits
    <2>3. slotWaiters # <<>> => slotWaiters[1] \in Tasks /\ Contains(slotWaiters, slotWaiters[1])
      BY <2>1 DEF Contains
    <2> QED
      BY <2>2, <2>3
  <1>9. ASSUME NEW u \in Tasks PROVE waiters[u] = <<>>
    <2>1. waiters[u] \in Seq(Tasks)
      BY <1>0 DEF TypeOK, SlotsOK
    <2>2. \A t \in Tasks : ~Contains(waiters[u], t)
      BY <1>6, <1>7 DEF Wait, Awaiting, Inside, Waits
    <2>3. waiters[u] # <<>> => waiters[u][1] \in Tasks /\ Contains(waiters[u], waiters[u][1])
      BY <2>1 DEF Contains
    <2> QED
      BY <2>2, <2>3
  <1> QED
    BY <1>1, <1>2, <1>3, <1>4, <1>5, <1>6, <1>8, <1>9 DEF ClosedSettled

\* A closed scope has left no child, worker task, slot, waiter or body behind,
\* however it was failed, cancelled or run out of time before.
THEOREM ClosedLeavesNothing ==
    ASSUME ~LenderCatches
    PROVE  Spec => []NothingLeft
  <1>1. Init => LifeInv /\ WaitInv /\ SlotInv /\ Drained
    <2>1. Init => Drained
      BY DEF Init, Drained
    <2> QED
      BY <2>1, LifeInit, WaitInit, SlotInit
  <1>2. LifeInv /\ WaitInv /\ SlotInv /\ Drained /\ [Next]_vars
          => LifeInv' /\ WaitInv' /\ SlotInv' /\ Drained'
    BY LifeNext, WaitNext, SlotNext, DrainedNext
  <1>3. LifeInv /\ WaitInv /\ SlotInv /\ Drained => NothingLeft
    BY ClosedEmpty
  <1> QED
    BY <1>1, <1>2, <1>3, PTL DEF Spec

-----------------------------------------------------------------------------
(***************************************************************************)
(* Who hears of what in a TaskScope: a child that is asked to stop hears   *)
(* of it, and a host that sleeps is not needed.                            *)
(*                                                                         *)
(* A child that drains a scope it cancelled itself is not told; the        *)
(* theorem about requests says what holds where no child does.  A failing  *)
(* worker task fires no waker, and a block that waits for something of its *)
(* own is not resumed by the next turn; the theorem about the host says    *)
(* what holds where there is neither.                                      *)
(***************************************************************************)

(* Requests *)

\* A callback about a child is owed.
Owes(do, t) == Contains(owed, Call(do, t))

\* Once the scope is cancelled every live child was asked or will be.
Asked == cancelled => \A t \in Tasks : Live(t) => t \in requested \/ Owes("request", t)

\* Outside its waits a body runs only while its child has control.
Placed == \A t \in Tasks : act[t].at \in Inside \ Waits => cpu = t

\* No child drains a scope that it cancelled itself.
Nested == \A t \in Tasks : act[t].at = "drain" => act[t].on = 0

\* A child comes to hear of a request: it is queued or will be, or it is
\* about to look.  One that drains a scope of its own looks afterwards.
Hears(t) ==
    \/ Contains(queue, t) \/ Owes("request", t) \/ Owes("mark", t)
    \/ act[t].at = "drain" \/ (cpu = t /\ act[t].at \in Waits \union {"new"})

Heard == \A t \in Tasks : Live(t) /\ t \in requested \ told => Hears(t)

\* The invariant.
CancelInv ==
    /\ failed => cancelled
    /\ Asked /\ Placed
    /\ TRUE \notin Deliberate => Nested /\ Heard

\* Two sequences, one after the other, have the members of both.
LEMMA ConcatMembers ==
    ASSUME NEW S, NEW a \in Seq(S), NEW b \in Seq(S)
    PROVE  /\ a \o b \in Seq(S)
           /\ \A y : Contains(a \o b, y) <=> Contains(a, y) \/ Contains(b, y)
  <1> DEFINE c == a \o b
  <1>1. c \in Seq(S) /\ Len(c) = Len(a) + Len(b) /\ Len(a) \in Nat /\ Len(b) \in Nat
    OBVIOUS
  <1>2. \A i \in 1..Len(a) : c[i] = a[i]
    OBVIOUS
  <1>3. \A i \in 1..Len(b) : c[Len(a) + i] = b[i]
    OBVIOUS
  <1> HIDE DEF c
  <1>4. ASSUME NEW y, NEW i \in 1..Len(c), c[i] = y PROVE Contains(a, y) \/ Contains(b, y)
    <2>1. CASE i <= Len(a)
      <3>1. i \in 1..Len(a)
        BY <1>1, <2>1
      <3> QED
        BY <1>2, <1>4, <3>1 DEF Contains
    <2>2. CASE ~(i <= Len(a))
      <3>1. i - Len(a) \in 1..Len(b) /\ Len(a) + (i - Len(a)) = i
        BY <1>1, <2>2
      <3>2. b[i - Len(a)] = y
        BY <1>3, <1>4, <3>1
      <3> QED
        BY <3>1, <3>2 DEF Contains
    <2> QED
      BY <2>1, <2>2
  <1>5. ASSUME NEW y, Contains(a, y) PROVE Contains(c, y)
    <2>1. \A i \in 1..Len(a) : i \in 1..Len(c)
      BY <1>1
    <2> QED
      BY <1>2, <1>5, <2>1 DEF Contains
  <1>6. ASSUME NEW y, Contains(b, y) PROVE Contains(c, y)
    <2>1. \A i \in 1..Len(b) : Len(a) + i \in 1..Len(c)
      BY <1>1
    <2> QED
      BY <1>3, <1>6, <2>1 DEF Contains
  <1>7. \A y : Contains(c, y) <=> Contains(a, y) \/ Contains(b, y)
    BY <1>4, <1>5, <1>6 DEF Contains
  <1> QED
    BY <1>1, <1>7 DEF c

\* What requestCancellation owes asks every child of the list.
LEMMA AsksListed ==
    ASSUME NEW l \in Seq(Tasks), NEW o \in Seq(Forks)
    PROVE  /\ Cancelling(l, o) \in Seq(Callbacks)
           /\ \A t : Contains(l, t) => Contains(Cancelling(l, o), Call("request", t))
  <1>1. CallAll("request", l) \in Seq(Callbacks) /\ CallAll("cancel", o) \in Seq(Callbacks)
    BY CallAllTypes
  <1>2. \A t : Contains(l, t) => Contains(CallAll("request", l), Call("request", t))
    BY DEF Contains, CallAll
  <1> QED
    BY <1>1, <1>2, ConcatMembers DEF Cancelling

\* What is owed after the head.
LEMMA TailMembers ==
    ASSUME NEW S, NEW s \in Seq(S), s # <<>>
    PROVE  /\ Tail(s) \in Seq(S)
           /\ \A y : Contains(s, y) <=> Contains(Tail(s), y) \/ y = Head(s)
  <1> DEFINE u == Tail(s)
  <1>1. /\ u \in Seq(S) /\ Len(u) = Len(s) - 1 /\ Len(s) \in Nat \ {0} /\ Head(s) = s[1]
        /\ \A i \in 1..Len(u) : u[i] = s[i + 1]
    OBVIOUS
  <1> HIDE DEF u
  <1>2. \A i \in 1..Len(u) : i + 1 \in 1..Len(s)
    BY <1>1
  <1>3. 1 \in 1..Len(s)
    BY <1>1
  <1>4. ASSUME NEW y, NEW i \in 1..Len(s), s[i] = y, i # 1 PROVE Contains(u, y)
    <2>1. i - 1 \in 1..Len(u) /\ (i - 1) + 1 = i
      BY <1>1, <1>4
    <2> QED
      BY <1>1, <1>4, <2>1 DEF Contains
  <1>5. \A y : Contains(s, y) <=> Contains(u, y) \/ y = Head(s)
    BY <1>1, <1>2, <1>3, <1>4 DEF Contains
  <1> QED
    BY <1>1, <1>5 DEF u

\* Nothing is owed while somebody runs.
LEMMA QuietOwes ==
    ASSUME Quiet
    PROVE  \A do, t : ~Owes(do, t)
  BY DEF Quiet, Owes, Contains

\* What CancellationReaches says of the invariant.
LEMMA CancelSound ==
    ASSUME LifeInv, CancelInv
    PROVE  /\ FamilyAsked
           /\ TRUE \notin Deliberate => CancellationReaches
  <1>1. FamilyAsked
    BY QuietOwes DEF CancelInv, Asked, FamilyAsked
  <1>2. ASSUME TRUE \notin Deliberate, NEW t \in Tasks, Quiet, cpu # t, t \in requested \ told,
               act[t].at \in Waits \ {"drain"}
        PROVE  Contains(queue, t)
    <2>1. Life(t)
      BY DEF LifeInv, Lives
    <2>2. Live(t)
      BY <1>2, <2>1 DEF Life, Live, Waits
    <2>3. Hears(t)
      BY <1>2, <2>2 DEF CancelInv, Heard
    <2> QED
      BY <1>2, <2>3, QuietOwes DEF Hears
  <1> QED
    BY <1>1, <1>2 DEF CancellationReaches, RequestObserved

\* The first state.
LEMMA CancelInit == Init => CancelInv
  <1> SUFFICES ASSUME Init PROVE CancelInv
    OBVIOUS
  <1>1. \A t \in Tasks : act[t].at = "new"
    BY DEF Init
  <1>2. requested = {} /\ failed = FALSE /\ cancelled = FALSE
    BY DEF Init
  <1> QED
    BY <1>1, <1>2 DEF CancelInv, Asked, Placed, Nested, Heard, Inside, Waits

\* A step that leaves everything alone that the invariant is about.
LEMMA CancelStays ==
    ASSUME CancelInv,
           UNCHANGED <<failed, cancelled, status, requested, told, queue, owed, act, cpu>>
    PROVE  CancelInv'
  BY DEF CancelInv, Asked, Placed, Nested, Heard, Hears, Owes, Live

\* The whole family is asked.
AsksAll == \A v \in Tasks : Live(v)' => Owes("request", v)'

\* Who is asked anew is made runnable or does not live.
NewlyAsked ==
    /\ requested \subseteq requested' /\ told \subseteq told'
    /\ \A v \in Tasks : v \in requested' => v \in requested \/ Owes("mark", v)' \/ ~Live(v)'

\* Who is started was asked where the scope is cancelled, and is made runnable.
NewlyStarted ==
    \A v \in Tasks : Live(v)' => Live(v) \/ ((cancelled => v \in requested') /\ Owes("mark", v)')

\* The scope is cancelled by asking everybody.
FlagsKept == (failed' => cancelled') /\ (cancelled' = cancelled \/ AsksAll)

\* Who has no control stays where it is, or ends; a child that leaves the queue
\* gets control or has ended.
OthersStay ==
    \A v \in Tasks :
        /\ v # cpu => act'[v] = act[v] \/ (act'[v].at = "over" /\ ~Live(v)')
        /\ Contains(queue, v) /\ Live(v)' =>
              Contains(queue', v) \/ (cpu \notin Tasks /\ cpu' = v /\ act' = act)

\* Who had control keeps it unless it waits or has ended; and it was not asked,
\* was told, drains, or was running and stays queued if it was.
MoverHears(t) ==
    /\ act'[t].at \in Inside \ Waits => cpu' = t
    /\ act'[t].at = "drain" => act'[t].on = 0 \/ TRUE \in Deliberate
    /\ \/ TRUE \in Deliberate \/ ~Live(t)' \/ t \notin requested' \/ t \in told'
       \/ act'[t].at = "drain" \/ act[t].at \in Inside \ Waits

\* A step of whoever has control.
LEMMA CancelStep ==
    ASSUME LifeInv, CancelInv, Quiet, NewlyAsked, NewlyStarted, FlagsKept, OthersStay,
           cpu \in Tasks => Live(cpu) /\ MoverHears(cpu)
    PROVE  CancelInv'
  <1>1. Asked'
    <2>1. CASE AsksAll
      BY <2>1 DEF Asked, AsksAll, Owes
    <2>2. CASE cancelled' = cancelled
      <3> SUFFICES ASSUME cancelled, NEW v \in Tasks, Live(v)'
                   PROVE  v \in requested'
        BY <2>2 DEF Asked
      <3>1. CASE Live(v)
        BY <3>1, QuietOwes DEF CancelInv, Asked, NewlyAsked
      <3>2. CASE ~Live(v)
        BY <3>2 DEF NewlyStarted
      <3> QED
        BY <3>1, <3>2
    <2> QED
      BY <2>1, <2>2 DEF FlagsKept
  <1>2. Placed'
    <2> SUFFICES ASSUME NEW v \in Tasks, act'[v].at \in Inside \ Waits
                 PROVE  cpu' = v
      BY DEF Placed
    <2>1. CASE v = cpu
      BY <2>1 DEF MoverHears
    <2>2. CASE v # cpu
      <3>1. act'[v].at # "over"
        BY DEF Inside, Waits
      <3>2. act'[v] = act[v]
        BY <2>2, <3>1 DEF OthersStay
      <3> QED
        BY <2>2, <3>2 DEF CancelInv, Placed
    <2> QED
      BY <2>1, <2>2
  <1>3. ASSUME TRUE \notin Deliberate PROVE Nested'
    <2> SUFFICES ASSUME NEW v \in Tasks, act'[v].at = "drain"
                 PROVE  act'[v].on = 0
      BY DEF Nested
    <2>1. v # cpu => act'[v] = act[v]
      BY DEF OthersStay
    <2> QED
      BY <1>3, <2>1 DEF CancelInv, Nested, MoverHears
  <1>4. ASSUME TRUE \notin Deliberate, NEW v \in Tasks, Live(v)', v \in requested' \ told'
        PROVE  Hears(v)'
    <2>1. CASE Owes("mark", v)'
      BY <2>1 DEF Hears, Owes
    <2> SUFFICES ASSUME ~Owes("mark", v)' PROVE Hears(v)'
      BY <2>1
    <2>2. Live(v) /\ v \in requested \ told
      BY <1>4 DEF NewlyStarted, NewlyAsked
    <2>3. Hears(v)
      BY <1>4, <2>2 DEF CancelInv, Heard
    <2>4. CASE Contains(queue, v)
      <3>1. CASE Contains(queue', v)
        BY <3>1 DEF Hears
      <3>2. CASE cpu \notin Tasks /\ cpu' = v /\ act' = act
        <4>1. act[v].at \notin Inside \ Waits
          BY <3>2 DEF CancelInv, Placed
        <4>2. Life(v)
          BY DEF LifeInv, Lives
        <4>3. act[v].at \in Waits \union {"new"}
          BY <2>2, <4>1, <4>2 DEF Life, Live, Ended, Ends, Inside
        <4> QED
          BY <3>2, <4>3 DEF Hears
      <3> QED
        BY <1>4, <2>4, <3>1, <3>2 DEF OthersStay
    <2>5. CASE ~Contains(queue, v)
      <3>1. act[v].at = "drain" \/ (cpu = v /\ act[v].at \in Waits \union {"new"})
        BY <2>3, <2>5, QuietOwes DEF Hears
      <3>2. CASE v # cpu
        <4>1. act'[v] = act[v]
          BY <1>4, <3>2 DEF OthersStay
        <4> QED
          BY <3>1, <3>2, <4>1 DEF Hears
      <3>3. CASE v = cpu
        <4>1. act[v].at \notin Inside \ Waits
          BY <3>1 DEF Inside, Waits
        <4>2. MoverHears(v)
          BY <3>3
        <4>3. act'[v].at = "drain"
          BY <1>4, <4>1, <4>2 DEF MoverHears
        <4> QED
          BY <4>3 DEF Hears
      <3> QED
        BY <3>2, <3>3
    <2> QED
      BY <2>4, <2>5
  <1> QED
    BY <1>1, <1>2, <1>3, <1>4 DEF CancelInv, Heard, FlagsKept

\* Somebody is made runnable: nobody leaves the queue, and who has not ended
\* is in it.
LEMMA MarkMembers ==
    ASSUME TypeOK, NEW t \in Tasks, MarkRunnable(t)
    PROVE  /\ \A v : Contains(queue, v) => Contains(queue', v)
           /\ ~Ended(t) => Contains(queue', t)
  <1>1. queue \in Seq(Tasks)
    BY DEF TypeOK, ScheduleOK
  <1>2. (queue' = queue /\ (Ended(t) \/ Contains(queue, t))) \/ queue' = Append(queue, t)
    BY DEF MarkRunnable
  <1>3. \A y : Contains(Append(queue, t), y) <=> Contains(queue, y) \/ y = t
    BY <1>1, AppendFacts
  <1>4. CASE queue' = queue /\ (Ended(t) \/ Contains(queue, t))
    BY <1>4
  <1>5. CASE queue' = Append(queue, t)
    BY <1>3, <1>5
  <1> QED
    BY <1>2, <1>4, <1>5

\* A callback that resumes, asks or marks a child, or resumes the block.
LEMMA CancelMark ==
    ASSUME LifeInv, CancelInv, RunResume \/ RunRequest \/ RunMark
    PROVE  CancelInv'
  <1> DEFINE c == Head(owed)
             t == Head(owed).who
  <1>0. TypeOK
    BY DEF LifeInv
  <1>1. /\ owed # <<>> /\ owed \in Seq(Callbacks) /\ owed' = Tail(owed)
        /\ UNCHANGED <<failed, cancelled, status, told, cpu>>
    BY <1>0 DEF RunResume, RunRequest, RunMark, flags, TypeOK, ControlOK
  <1>2. c \in Callbacks /\ \A do, v : Owes(do, v) <=> Owes(do, v)' \/ Call(do, v) = c
    <2>1. \A y : Contains(owed, y) <=> Contains(owed', y) \/ y = c
      BY <1>1, TailMembers
    <2> QED
      BY <1>1, <2>1, HeadCallback DEF Owes
  <1>3. \A v \in Tasks : act'[v].at = act[v].at /\ act'[v].on = act[v].on
    <2>1. act' = act \/ act' = [act EXCEPT ![t].ready = TRUE]
      BY DEF RunResume, RunRequest, RunMark
    <2>2. act \in [Tasks -> [at : Places, on : Nat, ready : BOOLEAN]]
      BY <1>0 DEF TypeOK, ControlOK
    <2>3. ASSUME NEW v \in Tasks PROVE act'[v] = act[v] \/ act'[v] = [act[v] EXCEPT !.ready = TRUE]
      BY <2>1, <2>2
    <2> QED
      BY <2>2, <2>3
  <1>4. /\ c.do \in {"resume", "request", "mark"}
        /\ c.do = "resume" => UNCHANGED requested
        /\ c.do = "mark" => UNCHANGED requested
        /\ c.do = "request" => requested' = requested \union {t}
        /\ (UNCHANGED queue /\ t = Block) \/ (MarkRunnable(t) /\ t # Block)
    BY <1>2, CallbackShape, Names DEF RunResume, RunRequest, RunMark
  <1>5. t \in Tasks \union {Block} /\ (c.do \in {"request", "mark"} => t \in Tasks)
    BY <1>2, <1>4, CallbackShape
  <1>6. /\ \A v : Contains(queue, v) => Contains(queue', v)
        /\ t \in Tasks /\ ~Ended(t) => Contains(queue', t)
    <2>1. CASE UNCHANGED queue /\ t = Block
      BY <2>1, Names
    <2>2. CASE MarkRunnable(t) /\ t \in Tasks
      BY <1>0, <2>2, MarkMembers
    <2> QED
      BY <1>4, <1>5, <2>1, <2>2
  <1>7. \A do, v : Call(do, v) = c => do = c.do /\ v = t
    BY DEF Call
  <1> HIDE DEF c, t
  <1>8. Asked'
    BY <1>1, <1>2, <1>4, <1>7 DEF CancelInv, Asked, Live
  <1>9. Placed'
    BY <1>1, <1>3 DEF CancelInv, Placed
  <1>10. ASSUME TRUE \notin Deliberate PROVE Nested'
    BY <1>3, <1>10 DEF CancelInv, Nested
  <1>11. ASSUME TRUE \notin Deliberate, NEW v \in Tasks, Live(v)', v \in requested' \ told'
         PROVE  Hears(v)'
    <2>1. Live(v) /\ ~Ended(v)
      BY <1>1, <1>11 DEF Live, Ended, Ends
    <2>2. CASE v = t /\ c.do \in {"request", "mark"}
      BY <1>6, <2>1, <2>2 DEF Hears
    <2>3. CASE ~(v = t /\ c.do \in {"request", "mark"})
      <3>1. v \in requested \ told
        BY <1>1, <1>4, <1>11, <2>3
      <3>2. Hears(v)
        BY <1>11, <2>1, <3>1 DEF CancelInv, Heard
      <3>3. /\ Owes("request", v) => Owes("request", v)'
            /\ Owes("mark", v) => Owes("mark", v)'
        BY <1>2, <1>7, <2>3
      <3> QED
        BY <1>1, <1>3, <1>6, <3>2, <3>3 DEF Hears
    <2> QED
      BY <2>2, <2>3
  <1> QED
    BY <1>1, <1>8, <1>9, <1>10, <1>11 DEF CancelInv, Heard

\* A worker task settles: what was owed stays owed, and the family is asked if
\* it failed.
LEMMA CancelForkSettled ==
    ASSUME LifeInv, NEW w \in Forks, NEW st, NEW a \in Seq(Callbacks), owed # <<>>,
           ForkSettled(w, st, a \o Tail(owed)), UNCHANGED status
    PROVE  /\ \A y : Contains(Tail(owed), y) => Contains(owed', y)
           /\ failed' = (failed \/ st = "failed") /\ cancelled' = (cancelled \/ st = "failed")
           /\ st = "failed" => \A v \in Tasks : Live(v)' => Owes("request", v)'
  <1> DEFINE b == a \o Tail(owed)
             o == Without(outstanding, w)
             f == IF st = "failed" THEN Cancelling(list, o) ELSE <<>>
  <1>1. /\ owed \in Seq(Callbacks) /\ list \in Seq(Tasks) /\ o \in Seq(Forks)
        /\ WakeSlots \in Seq(Callbacks)
    BY WithoutType, CallAllTypes
       DEF LifeInv, TypeOK, ControlOK, ScheduleOK, LanesOK, SlotsOK, WakeSlots
  <1>2. b \in Seq(Callbacks) /\ \A y : Contains(Tail(owed), y) => Contains(b, y)
    <2>1. Tail(owed) \in Seq(Callbacks)
      BY <1>1, HeadCallback
    <2> QED
      BY <2>1, ConcatMembers
  <1>3. owed' = f \o WakeSlots \o b
    BY DEF ForkSettled
  <1>4. f \in Seq(Callbacks)
        /\ (st = "failed" => \A v : Contains(list, v) => Contains(f, Call("request", v)))
    BY <1>1, AsksListed
  <1> HIDE DEF b, f, o
  <1>5. \A y : Contains(f, y) \/ Contains(b, y) => Contains(owed', y)
    <2>1. f \o WakeSlots \in Seq(Callbacks) /\ \A y : Contains(f, y) => Contains(f \o WakeSlots, y)
      BY <1>1, <1>4, ConcatMembers
    <2> QED
      BY <1>2, <1>3, <2>1, ConcatMembers
  <1>6. st = "failed" => \A v \in Tasks : Live(v)' => Owes("request", v)'
    <2>1. \A v \in Tasks : Live(v)' => Contains(list, v)
      BY DEF LifeInv, Listed, Live
    <2> QED
      BY <1>4, <1>5, <2>1 DEF Owes
  <1> QED
    BY <1>2, <1>5, <1>6 DEF ForkSettled

\* A callback about a worker task.
LEMMA CancelLanes ==
    ASSUME LifeInv, CancelInv, RunRoute \/ RunCancel
    PROVE  CancelInv'
  <1> DEFINE w == Head(owed).who
  <1>0. TypeOK
    BY DEF LifeInv
  <1>1. /\ owed # <<>> /\ owed \in Seq(Callbacks) /\ Head(owed).do \in {"route", "cancel"}
        /\ UNCHANGED <<status, requested, told, queue, act, cpu>>
    BY <1>0 DEF RunRoute, RunCancel, schedule, TypeOK, ControlOK
  <1>2. w \in Forks
    BY <1>1, HeadCallback, CallbackShape
  <1>3. \/ \E st, a : a \in Seq(Callbacks) /\ ForkSettled(w, st, a \o Tail(owed))
        \/ UNCHANGED <<failed, cancelled>> /\ \E a \in Seq(Callbacks) : owed' = a \o Tail(owed)
    <2>1. /\ Tail(owed) \in Seq(Callbacks) /\ <<>> \in Seq(Callbacks)
          /\ <<>> \o Tail(owed) = Tail(owed)
      BY <1>1, HeadCallback
    <2>2. CASE Route(w)
      <3> DEFINE a == IF fork[w].waiter = NoOne THEN <<>> ELSE <<Call("resume", fork[w].waiter)>>
      <3>1. a \in Seq(Callbacks)
        <4>1. fork[w].waiter # NoOne => Call("resume", fork[w].waiter) \in Callbacks
          BY <1>0, <1>2, CallTypes DEF TypeOK, LanesOK, ForkRecords
        <4> QED
          BY <4>1
      <3>2. \/ ForkSettled(w, fork[w].lane, a \o Tail(owed))
            \/ UNCHANGED <<failed, cancelled>> /\ owed' = a \o Tail(owed)
        BY <2>2 DEF Route
      <3> QED
        BY <3>1, <3>2
    <2>3. CASE ForkSettled(w, "cancelled", Tail(owed))
      <3>1. ForkSettled(w, "cancelled", <<>> \o Tail(owed))
        BY <2>1, <2>3
      <3> QED
        BY <2>1, <3>1
    <2>4. CASE UNCHANGED <<failed, cancelled>> /\ owed' = Tail(owed)
      BY <2>1, <2>4
    <2>5. Route(w) \/ ForkSettled(w, "cancelled", Tail(owed))
          \/ (UNCHANGED <<failed, cancelled>> /\ owed' = Tail(owed))
      BY DEF RunRoute, RunCancel
    <2> QED
      BY <2>2, <2>3, <2>4, <2>5
  <1> HIDE DEF w
  <1>4. /\ \A y : Contains(Tail(owed), y) => Contains(owed', y)
        /\ \/ UNCHANGED <<failed, cancelled>>
           \/ /\ failed' = TRUE /\ cancelled' = TRUE
              /\ \A v \in Tasks : Live(v)' => Owes("request", v)'
    <2>1. CASE \E st, a : a \in Seq(Callbacks) /\ ForkSettled(w, st, a \o Tail(owed))
      <3> PICK st, a : a \in Seq(Callbacks) /\ ForkSettled(w, st, a \o Tail(owed))
        BY <2>1
      <3>1. /\ \A y : Contains(Tail(owed), y) => Contains(owed', y)
            /\ failed' = (failed \/ st = "failed") /\ cancelled' = (cancelled \/ st = "failed")
            /\ st = "failed" => \A v \in Tasks : Live(v)' => Owes("request", v)'
        BY <1>1, <1>2, CancelForkSettled
      <3>2. failed \in BOOLEAN /\ cancelled \in BOOLEAN
        BY <1>0 DEF TypeOK, FlagsOK
      <3> QED
        BY <3>1, <3>2
    <2>2. CASE UNCHANGED <<failed, cancelled>> /\ \E a \in Seq(Callbacks) : owed' = a \o Tail(owed)
      <3>1. Tail(owed) \in Seq(Callbacks)
        BY <1>1, HeadCallback
      <3> QED
        BY <2>2, <3>1, ConcatMembers
    <2> QED
      BY <1>3, <2>1, <2>2
  <1>5. \A v : /\ Owes("request", v) => Owes("request", v)'
               /\ Owes("mark", v) => Owes("mark", v)'
    <2>1. \A y : Contains(owed, y) <=> Contains(Tail(owed), y) \/ y = Head(owed)
      BY <1>1, TailMembers
    <2>2. \A v : Call("request", v) # Head(owed) /\ Call("mark", v) # Head(owed)
      BY <1>1 DEF Call
    <2> QED
      BY <1>4, <2>1, <2>2 DEF Owes
  <1>6. Asked'
    BY <1>1, <1>4, <1>5 DEF CancelInv, Asked, Live
  <1>7. Placed' /\ (TRUE \notin Deliberate => Nested')
    BY <1>1 DEF CancelInv, Placed, Nested
  <1>8. TRUE \notin Deliberate => Heard'
    BY <1>1, <1>5 DEF CancelInv, Heard, Hears, Live
  <1>9. failed' => cancelled'
    <2>1. (failed' = failed /\ cancelled' = cancelled) \/ cancelled' = TRUE
      BY <1>4
    <2>2. failed => cancelled
      BY DEF CancelInv
    <2>3. CASE failed' = failed /\ cancelled' = cancelled
      BY <2>2, <2>3
    <2>4. CASE cancelled' = TRUE
      BY <2>4
    <2> QED
      BY <2>1, <2>3, <2>4
  <1> QED
    BY <1>6, <1>7, <1>8, <1>9 DEF CancelInv

-----------------------------------------------------------------------------
(* Steps that keep the promise *)

\* The scope is left as it is, or is cancelled here and now.
Decides ==
    \/ UNCHANGED <<failed, cancelled>>
    \/ failed' = failed /\ cancelled' = TRUE /\ owed' = Cancelling(list, outstanding)

\* What deadlinePassed and cancelImpl do, everybody being asked.
LEMMA Deciding ==
    ASSUME LifeInv, CancelInv, Decides, UNCHANGED status
    PROVE  FlagsKept
  <1>1. CASE UNCHANGED <<failed, cancelled>>
    BY <1>1 DEF FlagsKept, CancelInv
  <1>2. CASE failed' = failed /\ cancelled' = TRUE /\ owed' = Cancelling(list, outstanding)
    <2>1. list \in Seq(Tasks) /\ outstanding \in Seq(Forks)
      BY DEF LifeInv, TypeOK, ScheduleOK, LanesOK
    <2>2. \A v : Contains(list, v) => Contains(owed', Call("request", v))
      BY <1>2, <2>1, AsksListed
    <2>3. \A v \in Tasks : Live(v)' => Contains(list, v)
      BY DEF LifeInv, Listed, Live
    <2>4. AsksAll
      BY <2>2, <2>3 DEF AsksAll, Owes
    <2> QED
      BY <1>2, <2>4 DEF FlagsKept
  <1> QED
    BY <1>1, <1>2 DEF Decides

\* The child that runs goes on, parks or is told; the others stay where they are.
LEMMA CancelGoesOn ==
    ASSUME LifeInv, CancelInv, NEW t \in Tasks, Runs(t), UNCHANGED <<status, requested, queue>>,
           told \subseteq told', Decides, \A v \in Tasks \ {t} : act'[v] = act[v], MoverHears(t)
    PROVE  CancelInv'
  <1>1. cpu = t /\ Quiet /\ Live(t)
    BY DEF Runs, LifeInv, CpuLive, Live
  <1>2. NewlyAsked /\ NewlyStarted /\ OthersStay
    BY <1>1 DEF NewlyAsked, NewlyStarted, OthersStay, Live
  <1> QED
    BY <1>1, <1>2, Deciding, CancelStep

\* The block or the host does something that is no child's business.
LEMMA CancelElsewhere ==
    ASSUME LifeInv, CancelInv, cpu \notin Tasks, Quiet, UNCHANGED <<requested, queue, told, act>>,
           Decides, UNCHANGED status
    PROVE  CancelInv'
  <1>1. NewlyAsked /\ NewlyStarted /\ OthersStay
    BY DEF NewlyAsked, NewlyStarted, OthersStay, Live
  <1> QED
    BY <1>1, Deciding, CancelStep

\* A child settles.
LEMMA CancelSettle ==
    ASSUME LifeInv, LifeInv', CancelInv, NEW u \in Tasks, NEW st \in Ends, NEW after, Quiet,
           SettleChild(u, st, after), act' = [act EXCEPT ![u].at = "over"], FlagsKept,
           requested' \in {requested, requested \union {u}}, UNCHANGED told,
           \/ cpu = u
           \/ cpu \in Tasks \ {u} /\ Live(cpu) /\ cpu' = cpu /\ act[cpu].at \in Inside \ Waits
           \/ cpu \notin Tasks
    PROVE  CancelInv'
  <1>0. TypeOK
    BY DEF LifeInv
  <1>1. /\ status' = [status EXCEPT ![u] = st] /\ queue' = Without(queue, u)
    BY DEF SettleChild
  <1>2. ~Live(u)' /\ \A v \in Tasks \ {u} : status'[v] = status[v]
    BY <1>0, <1>1 DEF TypeOK, ScheduleOK, Live, Ends
  <1>3. act'[u].at = "over" /\ \A v \in Tasks \ {u} : act'[v] = act[v]
    BY <1>0, ActAt
  <1>4. \A y : y # u => (Contains(queue', y) <=> Contains(queue, y))
    <2>1. queue \in Seq(LiveTasks) /\ Distinct(queue)
      BY DEF LifeInv, Listed
    <2> QED
      BY <1>1, <2>1, WithoutFacts
  <1>5. NewlyAsked
    BY <1>2 DEF NewlyAsked
  <1>6. NewlyStarted
    BY <1>2 DEF NewlyStarted, Live
  <1>7. OthersStay
    BY <1>2, <1>3, <1>4 DEF OthersStay
  <1>8. cpu \in Tasks => Live(cpu) /\ MoverHears(cpu)
    <2>1. CASE cpu = u
      <3>1. Live(cpu)
        BY <2>1 DEF LifeInv, CpuLive, Live
      <3>2. MoverHears(u)
        BY <1>2, <1>3 DEF MoverHears, Inside, Waits
      <3> QED
        BY <2>1, <3>1, <3>2
    <2>2. CASE cpu \in Tasks \ {u} /\ Live(cpu) /\ cpu' = cpu /\ act[cpu].at \in Inside \ Waits
      <3>1. act'[cpu] = act[cpu] /\ act[cpu].at # "drain"
        BY <1>3, <2>2 DEF Waits
      <3> QED
        BY <2>2, <3>1 DEF MoverHears
    <2> QED
      BY <2>1, <2>2
  <1> QED
    BY <1>5, <1>6, <1>7, <1>8, CancelStep

\* The child that runs has ended.
LEMMA CancelFinish ==
    ASSUME LifeInv, LifeInv', CancelInv, NEW t \in Tasks, Runs(t), NEW st \in Ends, Finish(t, st)
    PROVE  CancelInv'
  <1> DEFINE o == Cancelling(Without(list, t), outstanding)
             after == IF st = "failed" THEN o ELSE <<>>
  <1>1. /\ SettleChild(t, st, after) /\ act' = [act EXCEPT ![t].at = "over"]
        /\ failed' = (failed \/ st = "failed") /\ cancelled' = (cancelled \/ st = "failed")
        /\ cpu = t /\ Quiet /\ UNCHANGED <<requested, told>>
    BY DEF Finish, Runs
  <1>2. st = "failed" => AsksAll
    <2> HAVE st = "failed"
    <2>1. /\ list \in Seq(Tasks) /\ outstanding \in Seq(Forks) /\ Without(list, t) \in Seq(Tasks)
          /\ CallAll("resume", waiters[t]) \in Seq(Callbacks) /\ WakeSlots \in Seq(Callbacks)
      BY WithoutType, CallAllTypes
         DEF LifeInv, TypeOK, ScheduleOK, LanesOK, SlotsOK, WakeSlots
    <2>2. o \in Seq(Callbacks) /\ \A v : Contains(list', v) => Contains(o, Call("request", v))
      BY <1>1, <2>1, AsksListed DEF SettleChild
    <2>3. owed' = CallAll("resume", waiters[t]) \o WakeSlots \o o
      BY <1>1 DEF SettleChild
    <2> HIDE DEF o
    <2>4. CallAll("resume", waiters[t]) \o WakeSlots \in Seq(Callbacks)
      BY <2>1, ConcatMembers
    <2>5. \A y : Contains(o, y) => Contains(owed', y)
      BY <2>2, <2>3, <2>4, ConcatMembers
    <2>6. \A v \in Tasks : Live(v)' => Contains(list', v)
      BY DEF LifeInv, Listed
    <2> QED
      BY <2>2, <2>5, <2>6 DEF AsksAll, Owes
  <1>3. FlagsKept
    <2>1. failed \in BOOLEAN /\ cancelled \in BOOLEAN /\ (failed => cancelled)
      BY DEF LifeInv, TypeOK, FlagsOK, CancelInv
    <2>2. CASE st = "failed"
      BY <1>1, <1>2, <2>2 DEF FlagsKept
    <2>3. CASE st # "failed"
      <3>1. failed' = failed /\ cancelled' = cancelled
        BY <1>1, <2>1, <2>3
      <3> QED
        BY <2>1, <3>1 DEF FlagsKept
    <2> QED
      BY <2>2, <2>3
  <1> HIDE DEF after
  <1> QED
    BY <1>1, <1>3, CancelSettle

\* task:cancel, from a body or from the block.
LEMMA CancelCancel ==
    ASSUME LifeInv, LifeInv', CancelInv, NEW u \in Tasks, CancelChild(u), Quiet,
           UNCHANGED <<failed, cancelled, told, cpu>>,
           cpu \in Tasks => Live(cpu) /\ act[cpu].at \in Inside \ Waits
    PROVE  CancelInv'
  <1>1. CASE u \notin requested /\ status[u] = "queued"
    <2>1. /\ requested' = requested \union {u} /\ act' = [act EXCEPT ![u].at = "over"]
          /\ SettleChild(u, "cancelled", <<>>) /\ "cancelled" \in Ends
      BY <1>1 DEF CancelChild, Ended, Ends
    <2>2. FlagsKept
      BY DEF FlagsKept, CancelInv
    <2> QED
      BY <2>1, <2>2, CancelSettle
  <1>2. CASE ~(u \notin requested /\ status[u] = "queued")
    <2>1. /\ UNCHANGED <<queue, status, act>>
          /\ \/ requested' = requested
             \/ requested' = requested \union {u} /\ owed' = <<Call("mark", u)>>
      BY <1>2 DEF CancelChild
    <2>2. requested' # requested => Owes("mark", u)'
      BY <2>1 DEF Owes, Contains
    <2>3. NewlyAsked /\ NewlyStarted /\ OthersStay
      BY <2>1, <2>2 DEF NewlyAsked, NewlyStarted, OthersStay, Live
    <2>4. FlagsKept
      BY DEF FlagsKept, CancelInv
    <2>5. cpu \in Tasks => MoverHears(cpu)
      BY <2>1 DEF MoverHears, Inside, Waits
    <2> QED
      BY <2>3, <2>4, <2>5, CancelStep
  <1> QED
    BY <1>1, <1>2

\* A child is started or refused, by the block or by a child that goes on.
LEMMA CancelStarts ==
    ASSUME LifeInv, CancelInv, NEW u \in Tasks, NEW p, Quiet, status[u] \in {"new", "admitting"},
           UNCHANGED <<queue, failed, cancelled>>, told \subseteq told',
           \A v \in Tasks : v # cpu => act'[v] = act[v],
           \/ Register(u, p)
           \/ UNCHANGED requested /\ \E st : /\ status' = [status EXCEPT ![u] = st]
                                            /\ st \notin {"queued", "running"},
           cpu \in Tasks => Live(cpu) /\ MoverHears(cpu)
    PROVE  CancelInv'
  <1>1. FlagsKept /\ OthersStay
    BY DEF FlagsKept, CancelInv, OthersStay
  <1>2. status \in [Tasks -> Statuses] /\ requested \in SUBSET Tasks /\ ~Live(u)
    BY DEF LifeInv, TypeOK, ScheduleOK, Live
  <1>3. CASE Register(u, p)
    <2>1. /\ \A v \in Tasks \ {u} : status'[v] = status[v]
          /\ requested' = IF cancelled THEN requested \union {u} ELSE requested
          /\ Owes("mark", u)'
      BY <1>2, <1>3 DEF Register, Owes, Contains
    <2>2. NewlyAsked /\ NewlyStarted
      BY <2>1 DEF NewlyAsked, NewlyStarted, Live
    <2> QED
      BY <1>1, <2>2, CancelStep
  <1>4. CASE UNCHANGED requested /\ \E st : /\ status' = [status EXCEPT ![u] = st]
                                            /\ st \notin {"queued", "running"}
    <2>1. ~Live(u)' /\ \A v \in Tasks \ {u} : status'[v] = status[v]
      BY <1>2, <1>4 DEF Live
    <2>2. NewlyAsked /\ NewlyStarted
      BY <1>4, <2>1 DEF NewlyAsked, NewlyStarted, Live
    <2> QED
      BY <1>1, <2>2, CancelStep
  <1> QED
    BY <1>3, <1>4

\* Where the mover is afterwards: it runs on, or has parked, having been in its
\* body before; or it was told; or it had not been asked.
LEMMA Hearing ==
    ASSUME NEW t \in Tasks, act'[t].at \in Waits \/ cpu' = t,
           act'[t].at = "drain" => act'[t].on = 0 \/ TRUE \in Deliberate,
           \/ TRUE \in Deliberate \/ t \notin requested' \/ t \in told' \/ act'[t].at = "drain"
           \/ act[t].at \in {"body", "awaited", "forked", "raisedCancel", "raisedError"}
    PROVE  MoverHears(t)
  BY DEF MoverHears, Inside, Waits

\* Steps of a child keep the promise.
LEMMA CancelTasks ==
    ASSUME LifeInv, LifeInv', CancelInv, NEW t \in Tasks, TaskStep(t)
    PROVE  CancelInv'
  <1>0. TypeOK
    BY DEF LifeInv
  <1>1. CASE Enter(t) \/ BodyReturns(t) \/ BodyFails(t) \/ Unwinds(t)
    <2>1. /\ Runs(t)
          /\ \/ \E st \in Ends : Finish(t, st)
             \/ /\ t \notin requested /\ act' = [act EXCEPT ![t].at = "body"]
                /\ UNCHANGED <<status, requested, queue, told, failed, cancelled, cpu>>
      BY <1>1 DEF Enter, BodyReturns, BodyFails, Unwinds, flags, Ends
    <2>2. CASE \E st \in Ends : Finish(t, st)
      BY <2>1, <2>2, CancelFinish
    <2>3. CASE /\ t \notin requested /\ act' = [act EXCEPT ![t].at = "body"]
               /\ UNCHANGED <<status, requested, queue, told, failed, cancelled, cpu>>
      <3>1. act'[t].at = "body" /\ \A v \in Tasks \ {t} : act'[v] = act[v]
        BY <1>0, <2>3, ActAt
      <3>2. MoverHears(t)
        BY <2>1, <2>3, <3>1, Hearing DEF Runs
      <3> QED
        BY <2>1, <2>3, <3>1, <3>2, CancelGoesOn DEF Decides
    <2> QED
      BY <2>1, <2>2, <2>3
  <1>2. CASE WakeCancelled(t)
    <2>1. /\ act' = [act EXCEPT ![t] = [at |-> "raisedCancel", on |-> 0, ready |-> FALSE]]
          /\ Runs(t) /\ UNCHANGED <<status, requested, queue, failed, cancelled, cpu>>
          /\ told' = told \union {t}
      BY <1>2 DEF WakeCancelled, flags
    <2>2. act'[t].at = "raisedCancel" /\ \A v \in Tasks \ {t} : act'[v] = act[v]
      BY <1>0, <2>1, ActAt
    <2>3. MoverHears(t)
      BY <2>1, <2>2, Hearing DEF Runs
    <2> QED
      BY <2>1, <2>2, <2>3, CancelGoesOn DEF Decides
  <1>3. CASE WakeEarly(t)
    <2>1. /\ Runs(t) /\ act[t].at \in Waits /\ (t \notin requested \/ act[t].at = "drain")
          /\ UNCHANGED <<status, requested, queue, told, failed, cancelled, act>>
      BY <1>3 DEF WakeEarly, Observes, schedule, flags
    <2>2. act[t].at = "drain" => act[t].on = 0 \/ TRUE \in Deliberate
      BY DEF CancelInv, Nested
    <2>3. MoverHears(t)
      BY <2>1, <2>2, Hearing
    <2> QED
      BY <2>1, <2>3, CancelGoesOn DEF Decides
  <1>4. CASE WakeReady(t)
    <2>1. /\ Runs(t) /\ t \notin requested
          /\ UNCHANGED <<status, requested, queue, told, failed, cancelled, cpu>>
      BY <1>4 DEF WakeReady, Observes, schedule, flags
    <2>2. PICK p \in {"body", "awaited", "forked"} :
                 act' = [act EXCEPT ![t].ready = FALSE, ![t].at = p]
      BY <1>4 DEF WakeReady
    <2>3. act'[t].at = p /\ \A v \in Tasks \ {t} : act'[v] = act[v]
      BY <1>0, <2>2, ActAt
    <2>4. MoverHears(t)
      BY <2>1, <2>3, Hearing DEF Runs
    <2> QED
      BY <2>1, <2>3, <2>4, CancelGoesOn DEF Decides
  <1>5. CASE WakeLender(t)
    <2>1. /\ Runs(t) /\ t \notin requested /\ act[t].at = "lend"
          /\ UNCHANGED <<status, requested, queue, told, failed, cancelled>>
          /\ \/ act' = [act EXCEPT ![t].ready = FALSE]
             \/ /\ act' = [act EXCEPT ![t] = [at |-> "body", on |-> 0, ready |-> FALSE]]
                /\ cpu' = cpu
      BY <1>5 DEF WakeLender, Observes, schedule, flags
    <2>2. CASE act' = [act EXCEPT ![t].ready = FALSE]
      <3>1. act'[t].at = "lend" /\ \A v \in Tasks \ {t} : act'[v] = act[v]
        BY <1>0, <2>1, <2>2, ActAt
      <3>2. MoverHears(t)
        BY <2>1, <3>1, Hearing DEF Waits
      <3> QED
        BY <2>1, <3>1, <3>2, CancelGoesOn DEF Decides
    <2>3. CASE /\ act' = [act EXCEPT ![t] = [at |-> "body", on |-> 0, ready |-> FALSE]]
               /\ cpu' = cpu
      <3>1. act'[t].at = "body" /\ \A v \in Tasks \ {t} : act'[v] = act[v]
        BY <1>0, <2>3, ActAt
      <3>2. MoverHears(t)
        BY <2>1, <2>3, <3>1, Hearing DEF Runs
      <3> QED
        BY <2>1, <3>1, <3>2, CancelGoesOn DEF Decides
    <2> QED
      BY <2>1, <2>2, <2>3
  <1>6. CASE WakeDrained(t)
    <2>1. /\ Runs(t) /\ UNCHANGED <<status, requested, queue, failed, cancelled, cpu>>
          /\ \/ told' = told \union {t}
             \/ told' = told /\ (t \notin requested \/ act[t].on # 0)
      BY <1>6 DEF WakeDrained, flags
    <2>2. PICK p \in {"raisedCancel", "body"} :
                 act' = [act EXCEPT ![t] = [at |-> p, on |-> 0, ready |-> FALSE]]
      BY <1>6 DEF WakeDrained
    <2>3. act'[t].at = p /\ \A v \in Tasks \ {t} : act'[v] = act[v]
      BY <1>0, <2>2, ActAt
    <2>4. TRUE \notin Deliberate => t \notin requested' \/ t \in told'
      <3>1. TRUE \notin Deliberate => act[t].on = 0
        BY <1>6 DEF CancelInv, Nested, WakeDrained
      <3> QED
        BY <2>1, <3>1
    <2>5. MoverHears(t)
      BY <2>1, <2>3, <2>4, Hearing DEF Runs
    <2> QED
      BY <2>1, <2>3, <2>5, CancelGoesOn DEF Decides
  <1>7. CASE \/ Catch(t) \/ ParkExternally(t) \/ Checkpoint(t) \/ AwaitReturns(t) \/ CancelScope(t)
             \/ (\E u \in Tasks : Await(t, u))
             \/ (\E w \in Forks : AwaitFork(t, w) \/ CancelFork(t, w)) \/ AwaitForkReturns(t)
             \/ (\E d \in Deliberate : DrainNested(t, d)) \/ (\E w \in Forks : Work(t, w))
    <2>1. /\ Runs(t)
          /\ act[t].at \in {"body", "awaited", "forked", "raisedCancel", "raisedError"}
          /\ UNCHANGED <<status, requested, queue>> /\ told \subseteq told'
      BY <1>7 DEF Catch, ParkExternally, Checkpoint, AwaitReturns, CancelScope, Await, AwaitFork,
                  CancelFork, AwaitForkReturns, DrainNested, Work, Does, schedule
    <2>2. Decides
      BY <1>7 DEF Catch, ParkExternally, Checkpoint, AwaitReturns, CancelScope, Await, AwaitFork,
                  CancelFork, AwaitForkReturns, DrainNested, Work, DeadlinePassed, CancelImpl,
                  Decides, flags
    <2>3. \A p : act' = [act EXCEPT ![t].at = p] =>
                   act'[t].at = p /\ \A v \in Tasks \ {t} : act'[v] = act[v]
      BY <1>0, ActAt
    <2>4. ASSUME NEW p, NEW n, act' = [act EXCEPT ![t] = Parked(p, n)]
          PROVE  act'[t].at = p /\ act'[t].on = n /\ \A v \in Tasks \ {t} : act'[v] = act[v]
      <3>1. act' = [act EXCEPT ![t] = [at |-> p, on |-> n, ready |-> FALSE]]
        BY <2>4 DEF Parked
      <3>2. act \in [Tasks -> [at : Places, on : Nat, ready : BOOLEAN]]
        BY <1>0 DEF TypeOK, ControlOK
      <3>3. act'[t] = [at |-> p, on |-> n, ready |-> FALSE]
        BY <3>1, <3>2
      <3> QED
        BY <3>1, <3>2, <3>3
    <2>5. /\ \A v \in Tasks \ {t} : act'[v] = act[v]
          /\ act'[t].at \in Waits \/ cpu' = cpu
          /\ act'[t].at = "drain" => act'[t].on = 0 \/ TRUE \in Deliberate
      <3>1. CASE Catch(t)
        <4>1. act' = [act EXCEPT ![t].at = "body"] /\ cpu' = cpu
          BY <3>1 DEF Catch
        <4> QED
          BY <2>3, <4>1
      <3>2. CASE \E p \in {"body", "awaited", "forked", "raisedCancel", "raisedError"} : \E n :
                   act' = [act EXCEPT ![t] = Parked(p, n)] /\ cpu' = cpu
        <4>1. PICK p, n : p \in {"body", "awaited", "forked", "raisedCancel", "raisedError"} /\
                     act' = [act EXCEPT ![t] = Parked(p, n)] /\ cpu' = cpu
          BY <3>2
        <4> QED
          BY <2>4, <4>1
      <3>3. CASE \E p \in {"ext", "await", "fork", "lend"} : \E n :
                   act' = [act EXCEPT ![t] = Parked(p, n)]
        <4>2. PICK p \in {"ext", "await", "fork", "lend"} : \E n : act' = [act EXCEPT ![t] = Parked(p, n)]
          BY <3>3
        <4>1. PICK n : act' = [act EXCEPT ![t] = Parked(p, n)]
          BY <4>2
        <4> QED
          BY <2>4, <4>1 DEF Waits
      <3>4. CASE act' = act /\ cpu' = cpu
        BY <2>1, <3>4
      <3>5. CASE \E d \in Deliberate : DrainNested(t, d)
        <4>1. PICK d \in Deliberate : act' = [act EXCEPT ![t] = Parked("drain", IF d THEN 1 ELSE 0)]
          BY <3>5 DEF DrainNested
        <4>2. CASE d
          <5>1. d = TRUE
            BY <4>1, <4>2, OptionsAssumption
          <5>2. act' = [act EXCEPT ![t] = Parked("drain", 1)]
            BY <4>1, <4>2
          <5> QED
            BY <2>4, <5>1, <5>2 DEF Waits
        <4>3. CASE ~d
          <5>1. act' = [act EXCEPT ![t] = Parked("drain", 0)]
            BY <4>1, <4>3
          <5> QED
            BY <2>4, <5>1 DEF Waits
        <4> QED
          BY <4>2, <4>3
      <3>6. CASE ParkExternally(t) \/ (\E u \in Tasks : Await(t, u)) \/ AwaitForkReturns(t)
        BY <3>2, <3>3, <3>6 DEF ParkExternally, Await, AwaitForkReturns, Raises, Raised
      <3>7. CASE Checkpoint(t) \/ AwaitReturns(t) \/ CancelScope(t)
        BY <3>2, <3>4, <3>7 DEF Checkpoint, AwaitReturns, CancelScope, Raises, Raised
      <3>8. CASE \E w \in Forks : AwaitFork(t, w) \/ CancelFork(t, w)
        BY <3>2, <3>4, <3>8 DEF AwaitFork, CancelFork, Raises, Raised
      <3>9. CASE \E w \in Forks : Work(t, w)
        BY <3>2, <3>3, <3>4, <3>9 DEF Work, Raises, Raised, Lend
      <3> QED
        BY <1>7, <3>1, <3>6, <3>7, <3>8, <3>9, <3>5
    <2>6. MoverHears(t)
      BY <2>1, <2>5, Hearing DEF Runs
    <2> QED
      BY <2>1, <2>2, <2>5, <2>6, CancelGoesOn
  <1>8. CASE \E u \in Tasks : Spawn(t, u)
    <2> PICK u \in Tasks : Spawn(t, u)
      BY <1>8
    <2>1. /\ Runs(t) /\ act[t].at = "body" /\ status[u] = "new" /\ told \subseteq told'
          /\ UNCHANGED <<queue, failed, cancelled>>
      BY DEF Spawn, Does, NextTask, flags
    <2>2. cpu = t /\ Quiet /\ Live(t)
      BY <2>1 DEF Runs, LifeInv, CpuLive, Live
    <2>3. /\ \A v \in Tasks \ {t} : act'[v] = act[v]
          /\ act'[t].at \in Waits \ {"drain"} \/ (cpu' = cpu /\ act'[t].at # "drain")
      <3>1. \/ \E p \in {"raisedCancel", "raisedError"} :
                 act' = [act EXCEPT ![t] = [at |-> p, on |-> 0, ready |-> FALSE]] /\ cpu' = cpu
            \/ act' = [act EXCEPT ![t] = [at |-> "lend", on |-> 0, ready |-> FALSE]]
            \/ act' = act /\ cpu' = cpu
        BY DEF Spawn, Raises, Raised, Lend, Parked
      <3>2. CASE \E p \in {"raisedCancel", "raisedError"} :
                 act' = [act EXCEPT ![t] = [at |-> p, on |-> 0, ready |-> FALSE]] /\ cpu' = cpu
        <4>1. PICK p \in {"raisedCancel", "raisedError"} :
                 act' = [act EXCEPT ![t] = [at |-> p, on |-> 0, ready |-> FALSE]] /\ cpu' = cpu
          BY <3>2
        <4> QED
          BY <1>0, <4>1, ActAt
      <3>3. CASE act' = [act EXCEPT ![t] = [at |-> "lend", on |-> 0, ready |-> FALSE]]
        <4>1. act'[t].at = "lend" /\ \A v \in Tasks \ {t} : act'[v] = act[v]
          BY <1>0, <3>3, ActAt
        <4> QED
          BY <4>1 DEF Waits
      <3>4. CASE act' = act /\ cpu' = cpu
        BY <2>1, <3>4
      <3> QED
        BY <3>1, <3>2, <3>3, <3>4
    <2>4. MoverHears(t)
      BY <2>1, <2>2, <2>3, Hearing
    <2>5. \/ status' = [status EXCEPT ![u] = "refused"] /\ UNCHANGED requested
          \/ Register(u, t)
      BY DEF Spawn, RefuseBody
    <2> QED
      BY <2>1, <2>2, <2>3, <2>4, <2>5, CancelStarts
  <1>9. CASE \E u \in Tasks : CancelTask(t, u)
    <2> PICK u \in Tasks : CancelTask(t, u)
      BY <1>9
    <2>1. /\ Runs(t) /\ act[t].at = "body" /\ CancelChild(u)
          /\ UNCHANGED <<failed, cancelled, told, cpu>>
      BY DEF CancelTask, Does, flags
    <2>2. cpu = t /\ Quiet /\ Live(t) /\ act[t].at \in Inside \ Waits
      BY <2>1 DEF Runs, LifeInv, CpuLive, Live, Inside, Waits
    <2> QED
      BY <2>1, <2>2, CancelCancel
  <1> QED
    BY <1>1, <1>2, <1>3, <1>4, <1>5, <1>6, <1>7, <1>8, <1>9 DEF TaskStep

\* The first of the queue gets control and looks.
LEMMA CancelResumes ==
    ASSUME LifeInv, CancelInv, PumpResumes \/ DriveResumes
    PROVE  CancelInv'
  <1>1. /\ cpu = Block /\ Quiet /\ queue # <<>> /\ cpu' = Head(queue) /\ queue' = Tail(queue)
        /\ status' = [status EXCEPT ![Head(queue)] = "running"]
        /\ UNCHANGED <<requested, told, failed, cancelled, act>>
    BY DEF PumpResumes, DriveResumes, ResumeChild, BlockRuns, flags
  <1>2. queue \in Seq(LiveTasks) /\ status \in [Tasks -> Statuses] /\ cpu \notin Tasks
    BY <1>1, Names DEF LifeInv, Listed, TypeOK, ScheduleOK
  <1>3. \A y : Contains(queue, y) <=> Contains(queue', y) \/ y = cpu'
    BY <1>1, <1>2, TailMembers
  <1>4. \A v \in Tasks : Live(v)' => Live(v)
    <2>1. Head(queue) \in LiveTasks
      BY <1>1, <1>2
    <2> QED
      BY <1>1, <1>2, <2>1 DEF Live, LiveTasks
  <1>5. NewlyAsked /\ NewlyStarted /\ FlagsKept
    BY <1>1, <1>4 DEF NewlyAsked, NewlyStarted, FlagsKept, CancelInv
  <1>6. OthersStay
    BY <1>1, <1>2, <1>3 DEF OthersStay
  <1> QED
    BY <1>1, <1>2, <1>5, <1>6, CancelStep

\* Steps of the block keep the promise.
LEMMA CancelBlock ==
    ASSUME LifeInv, LifeInv', CancelInv, BlockStep
    PROVE  CancelInv'
  <1>0. TypeOK /\ Starting
    BY DEF LifeInv
  <1>1. cpu = Block /\ Quiet /\ cpu \notin Tasks
    <2>1. cpu = Block /\ Quiet
      BY DEF BlockStep, BlockSpawn, BlockAwait, BlockCancelTask, BlockWork, BlockAwaitFork,
             BlockCancelFork, BlockParks, BlockCancelScope, BlockCheckpoint, BlockCloses,
             SlotTaken, SlotWanted, PumpReturns, PumpPass, PumpResumes, PumpParks, PumpDefers,
             DrivePass, DriveRaises, DriveResumes, DriveParks, DriveLeaves, ReplyAwaited,
             ReplyTaken, WorkersDrain, ScopeCloses, BlockRuns, BlockDoes
    <2> QED
      BY <2>1, Names
  <1>2. CASE \E u \in Tasks : BlockSpawn(u)
    <2> PICK u \in Tasks : BlockSpawn(u)
      BY <1>2
    <2>1. /\ UNCHANGED <<queue, failed, cancelled, requested, told, act>> /\ status[u] = "new"
          /\ \E st \in {"refused", "admitting"} : status' = [status EXCEPT ![u] = st]
      BY DEF BlockSpawn, RefuseBody, NextTask, flags
    <2> QED
      BY <1>1, <2>1, CancelStarts
  <1>3. CASE \E u \in Tasks : BlockCancelTask(u)
    BY <1>1, <1>3, CancelCancel DEF BlockCancelTask, flags
  <1>4. CASE \/ (\E u \in Tasks : BlockAwait(u))
             \/ (\E w \in Forks : BlockWork(w) \/ BlockAwaitFork(w) \/ BlockCancelFork(w))
             \/ BlockParks \/ BlockCancelScope \/ BlockCheckpoint \/ BlockCloses \/ SlotWanted
             \/ PumpReturns \/ PumpPass \/ PumpParks \/ PumpDefers \/ DrivePass \/ DriveParks
             \/ DriveLeaves \/ ReplyAwaited \/ ReplyTaken \/ WorkersDrain \/ ScopeCloses
    <2>1. UNCHANGED <<status, requested, queue, told, act>>
      BY <1>4 DEF BlockAwait, BlockWork, BlockAwaitFork, BlockCancelFork, BlockParks,
                  BlockCancelScope, BlockCheckpoint, BlockCloses, SlotWanted, PumpReturns, PumpPass,
                  PumpParks, PumpDefers, DrivePass, DriveParks, DriveLeaves, ReplyAwaited,
                  ReplyTaken, WorkersDrain, ScopeCloses, schedule
    <2>2. Decides
      BY <1>4 DEF BlockAwait, BlockWork, BlockAwaitFork, BlockCancelFork, BlockParks,
                  BlockCancelScope, BlockCheckpoint, BlockCloses, SlotWanted, PumpReturns, PumpPass,
                  PumpParks, PumpDefers, DrivePass, DriveParks, DriveLeaves, ReplyAwaited,
                  ReplyTaken, WorkersDrain, ScopeCloses, CancelImpl, DeadlinePassed, Decides, flags
    <2> QED
      BY <1>1, <2>1, <2>2, CancelElsewhere
  <1>5. CASE PumpResumes \/ DriveResumes
    BY <1>5, CancelResumes
  <1>6. CASE SlotTaken
    <2>1. /\ block.at = "slot" /\ block.op \in {"spawn", "work"}
          /\ block.op = "spawn" => block.on \in Tasks /\ status[block.on] = "admitting"
          /\ UNCHANGED <<queue, told, failed, cancelled, act>>
      BY <1>0, <1>6 DEF SlotTaken, BlockRuns, TypeOK, BlockOK, Starting, flags
    <2>2. CASE block.op = "spawn"
      <3>1. \/ Register(block.on, Block)
            \/ UNCHANGED requested /\ status' = [status EXCEPT ![block.on] = "refused"]
        BY <1>6, <2>2 DEF SlotTaken, BlockRefused, RefuseBody
      <3> QED
        BY <1>1, <2>1, <2>2, <3>1, CancelStarts
    <2>3. CASE block.op = "work"
      <3>1. UNCHANGED <<status, requested>>
        BY <1>6, <2>3 DEF SlotTaken, BlockRefused
      <3> QED
        BY <1>1, <2>1, <3>1, CancelElsewhere DEF Decides
    <2> QED
      BY <2>1, <2>2, <2>3
  <1>7. CASE DriveRaises
    <2>1. /\ UNCHANGED <<queue, told, failed, cancelled, act>> /\ Abandon
      BY <1>7 DEF DriveRaises, flags
    <2>2. \/ UNCHANGED <<status, requested>>
          \/ /\ block.op = "spawn" /\ status' = [status EXCEPT ![block.on] = "refused"]
             /\ UNCHANGED requested
      BY <2>1 DEF Abandon, RefuseBody
    <2>3. CASE UNCHANGED <<status, requested>>
      BY <1>1, <2>1, <2>3, CancelElsewhere DEF Decides
    <2>4. CASE /\ block.op = "spawn" /\ status' = [status EXCEPT ![block.on] = "refused"]
               /\ UNCHANGED requested
      <3>1. block.on \in Tasks /\ status[block.on] = "admitting"
        BY <1>0, <2>4 DEF TypeOK, BlockOK, Starting
      <3>2. \E st : status' = [status EXCEPT ![block.on] = st] /\ st \notin {"queued", "running"}
        <4>1. "refused" \notin {"queued", "running"}
          OBVIOUS
        <4> QED
          BY <2>4, <4>1, Zenon
      <3>3. told \subseteq told' /\ \A v \in Tasks : v # cpu => act'[v] = act[v]
        BY <2>1
      <3> QED
        BY <1>1, <2>1, <2>4, <3>1, <3>2, <3>3, CancelStarts
    <2> QED
      BY <2>2, <2>3, <2>4
  <1> QED
    BY <1>2, <1>3, <1>4, <1>5, <1>6, <1>7 DEF BlockStep

\* So do the host, the lanes and the clock.
LEMMA CancelRest ==
    ASSUME LifeInv, CancelInv,
           HostStep \/ (\E w \in Forks : LaneStep(w)) \/ ClockPasses \/ UNCHANGED vars
    PROVE  CancelInv'
  <1>1. UNCHANGED <<failed, cancelled, status, requested, told, queue, act>>
    BY DEF HostStep, HostResumes, HostArms, BlockReady, TimerFires, NextTurn, ExternalReady,
           RouteReply, LaneStep, LaneStarts, LaneFinishes, LaneReplies, ClockPasses, vars, schedule,
           flags
  <1>2. CASE HostStep
    <2>1. cpu = Host /\ Quiet
      BY <1>2 DEF HostStep, HostResumes, HostArms, BlockReady, TimerFires, NextTurn, ExternalReady,
                  RouteReply, HostRuns
    <2>2. cpu \notin Tasks
      BY <2>1, TasksAssumption DEF Host
    <2> QED
      BY <1>1, <2>1, <2>2, CancelElsewhere DEF Decides
  <1>3. CASE (\E w \in Forks : LaneStep(w)) \/ ClockPasses \/ UNCHANGED vars
    <2>1. UNCHANGED <<cpu, owed>>
      BY <1>3 DEF LaneStep, LaneStarts, LaneFinishes, LaneReplies, ClockPasses, vars
    <2> QED
      BY <1>1, <2>1, CancelStays
  <1> QED
    BY <1>2, <1>3

\* Every step keeps the promise.
LEMMA CancelNext ==
    ASSUME LifeInv, CancelInv, [Next]_vars
    PROVE  CancelInv'
  <1>1. LifeInv'
    BY LifeNext
  <1> QED
    BY <1>1, CancelMark, CancelLanes, CancelTasks, CancelBlock, CancelRest DEF Next, RunCallback

\* The promise is always kept.
LEMMA CancelAlways == Spec => [](LifeInv /\ CancelInv)
  <1>1. Init => LifeInv /\ CancelInv
    BY LifeInit, CancelInit
  <1>2. LifeInv /\ CancelInv /\ [Next]_vars => LifeInv' /\ CancelInv'
    BY LifeNext, CancelNext
  <1> QED
    BY <1>1, <1>2, PTL DEF Spec

\* Once the scope has failed or was cancelled, no child lives on unasked: not
\* one that was started while it was, and not one that somebody lends a slot to.
THEOREM FamilyAlwaysAsked == Spec => []FamilyAsked
  <1>1. LifeInv /\ CancelInv => FamilyAsked
    BY CancelSound
  <1> QED
    BY <1>1, CancelAlways, PTL

\* Where no body drains a scope that it cancelled itself, every child that was
\* asked to stop and waits is queued to hear of it, whatever made it wait.
THEOREM CancellationAlwaysReaches ==
    ASSUME TRUE \notin Deliberate
    PROVE  Spec => []CancellationReaches
  <1>1. LifeInv /\ CancelInv => CancellationReaches
    BY CancelSound
  <1> QED
    BY <1>1, CancelAlways, PTL

-----------------------------------------------------------------------------
(* A host that sleeps *)

\* The deadline's timer fires when it is due, and the block waits for the
\* scope's children or the next turn of the host.
Waited ==
    /\ timer = "fired" => expired
    /\ block.at # "reply" /\ block.wait \notin {"ext", "reply"}

\* A block that waits for the scope is woken by whoever becomes runnable.
Parks == block.wait = "scope" => block.ready \/ ("park" \in wakers /\ queue = <<>>)

\* What the scope has to raise, its deadline aside.
Raising == ~settling /\ (failed \/ (cancelled /\ ~deliberate))

\* A host sleeps on the armed wait only when there is nothing to do: nobody can
\* be resumed in this turn, or the block is about to be; the deadline has its
\* timer.
Sleeps ==
    /\ "arm" \in wakers /\ ~block.ready /\ ~Raising
    /\ HasDeadline /\ ~settling => timer = "set"
    /\ queue = <<>> \/ ~(turn > 0) \/ Owes("resume", Block)

\* The invariant.
HostInv == Waited /\ Parks /\ (cpu = Host /\ woken = FALSE => Sleeps)

\* What HostNotNeeded says of it.
LEMMA HostSound ==
    ASSUME LifeInv, HostInv
    PROVE  HostNotNeeded
  <1> SUFFICES ASSUME HostRuns, Hosted, ~woken, CombinedReady
               PROVE  Overdue /\ timer = "set"
    BY DEF HostNotNeeded
  <1>1. woken \in BOOLEAN
    BY DEF LifeInv, TypeOK, HostOK
  <1>2. Sleeps
    BY <1>1 DEF HostInv, HostRuns
  <1>3. ~Owes("resume", Block)
    BY QuietOwes DEF HostRuns
  <1>4. ~(queue # <<>> /\ TurnAvailable)
    BY <1>2, <1>3 DEF Sleeps, TurnAvailable
  <1>5. ~settling /\ Overdue
    BY <1>2, <1>4 DEF Sleeps, Raising, CombinedReady, ScopeReady
  <1> QED
    BY <1>2, <1>5 DEF Sleeps, Overdue

\* The first state.
LEMMA HostInit == Init => HostInv
  BY TasksAssumption DEF Init, HostInv, Waited, Parks, Block, Host

\* The host has no control afterwards, or has been woken.
LEMMA HostAwake ==
    ASSUME Waited', Parks', cpu' # Host \/ woken' = TRUE
    PROVE  HostInv'
  BY DEF HostInv

\* Whoever waits is woken.
LEMMA HostFires ==
    ASSUME LifeInv, HostInv, FireWakers
    PROVE  Parks' /\ (cpu = Host => woken' = TRUE)
  <1>1. TypeOK
    BY DEF LifeInv
  <1>2. block'.wait = block.wait
    BY <1>1, BlockFields
  <1>3. Parks'
    <2>1. CASE "park" \in wakers
      <3>1. block' = [block EXCEPT !.ready = TRUE]
        BY <2>1 DEF FireWakers
      <3> QED
        BY <1>1, <3>1, BlockFields DEF Parks
    <2>2. CASE "park" \notin wakers
      <3>1. block' = block
        BY <2>2 DEF FireWakers
      <3> QED
        BY <2>2, <3>1 DEF HostInv, Parks
    <2> QED
      BY <2>1, <2>2
  <1>4. cpu = Host => woken' = TRUE
    <2>1. woken' = (woken \/ wakers # {}) /\ woken \in BOOLEAN
      BY <1>1 DEF FireWakers, TypeOK, HostOK
    <2>2. CASE woken = TRUE
      BY <2>1, <2>2
    <2>3. CASE woken = FALSE
      <3>1. cpu = Host => wakers # {}
        BY <2>3 DEF HostInv, Sleeps
      <3> QED
        BY <2>1, <2>3, <3>1
    <2> QED
      BY <2>1, <2>2, <2>3
  <1> QED
    BY <1>3, <1>4

\* Callbacks wake a host that is needed.
LEMMA HostCallback ==
    ASSUME Forks = {}, LifeInv, HostInv, RunCallback
    PROVE  HostInv'
  <1> DEFINE c == Head(owed)
             t == Head(owed).who
  <1>0. TypeOK
    BY DEF LifeInv
  <1>1. owed # <<>> /\ owed \in Seq(Callbacks) /\ c \in Callbacks
    BY <1>0, HeadCallback DEF RunCallback, RunResume, RunRequest, RunMark, RunRoute, RunCancel,
                              TypeOK, ControlOK
  <1>2. RunResume \/ RunRequest \/ RunMark
    <2>1. c.do \notin {"route", "cancel"}
      BY <1>1, CallbackShape
    <2> QED
      BY <2>1 DEF RunCallback, RunRoute, RunCancel
  <1>3. /\ owed' = Tail(owed)
        /\ UNCHANGED <<timer, turn, expired, cpu, settling, failed, cancelled, deliberate>>
    BY <1>2 DEF RunResume, RunRequest, RunMark, flags
  <1>4. \/ /\ t = Block /\ block' = [block EXCEPT !.ready = TRUE] /\ woken' = TRUE
           /\ UNCHANGED <<queue, wakers>>
        \/ FireWakers
        \/ UNCHANGED <<queue, wakers, block, woken>> /\ (c.do = "resume" => t # Block)
    <2>1. CASE RunResume
      BY <2>1 DEF RunResume, MarkRunnable
    <2>2. CASE RunRequest \/ RunMark
      BY <2>2 DEF RunRequest, RunMark, MarkRunnable
    <2> QED
      BY <1>2, <2>1, <2>2
  <1>5. CASE /\ t = Block /\ block' = [block EXCEPT !.ready = TRUE] /\ woken' = TRUE
             /\ UNCHANGED <<queue, wakers>>
    <2>1. block'.ready = TRUE /\ block'.at = block.at /\ block'.wait = block.wait
      BY <1>0, <1>5, BlockFields
    <2> QED
      BY <1>3, <1>5, <2>1, HostAwake DEF HostInv, Waited, Parks
  <1>6. CASE FireWakers
    <2>1. block'.at = block.at /\ block'.wait = block.wait
      BY <1>0, <1>6, BlockFields
    <2>2. Waited'
      BY <1>3, <2>1 DEF HostInv, Waited
    <2> QED
      BY <1>3, <1>6, <2>2, HostFires, HostAwake
  <1>7. CASE UNCHANGED <<queue, wakers, block, woken>> /\ (c.do = "resume" => t # Block)
    <2>1. Waited' /\ Parks'
      BY <1>3, <1>7 DEF HostInv, Waited, Parks
    <2>2. Owes("resume", Block) => Owes("resume", Block)'
      <3>1. \A y : Contains(owed, y) <=> Contains(Tail(owed), y) \/ y = c
        BY <1>1, TailMembers
      <3>2. Call("resume", Block) # c
        BY <1>7 DEF Call
      <3> QED
        BY <1>3, <3>1, <3>2 DEF Owes
    <2>3. Sleeps => Sleeps'
      BY <1>3, <1>7, <2>2 DEF Sleeps, Raising
    <2> QED
      BY <1>3, <1>7, <2>1, <2>3 DEF HostInv
  <1> QED
    BY <1>4, <1>5, <1>6, <1>7

\* Steps of a child wake nobody who waits, and the host has no control.
LEMMA HostTask ==
    ASSUME LifeInv, HostInv, NEW t \in Tasks, TaskStep(t)
    PROVE  HostInv'
  <1>1. UNCHANGED <<block, wakers, timer, expired>>
    BY DEF TaskStep, Enter, WakeCancelled, WakeEarly, WakeReady, WakeLender, WakeDrained,
           BodyReturns, BodyFails, Unwinds, Catch, ParkExternally, Checkpoint,
           AwaitReturns, AwaitForkReturns, CancelScope, DrainNested, Spawn, Await,
           CancelTask, Work, AwaitFork, CancelFork, Finish, host
  <1>2. UNCHANGED queue \/ \E u : queue' = Without(queue, u)
    BY DEF TaskStep, Enter, WakeCancelled, WakeEarly, WakeReady, WakeLender, WakeDrained,
           BodyReturns, BodyFails, Unwinds, Catch, ParkExternally, Checkpoint,
           AwaitReturns, AwaitForkReturns, CancelScope, DrainNested, Spawn, Await,
           CancelTask, Work, AwaitFork, CancelFork, Finish, SettleChild, CancelChild, schedule
  <1>3. cpu = t /\ cpu' \in {cpu, Block}
    BY DEF TaskStep, Enter, WakeCancelled, WakeEarly, WakeReady, WakeLender, WakeDrained,
           BodyReturns, BodyFails, Unwinds, Catch, ParkExternally, Checkpoint,
           AwaitReturns, AwaitForkReturns, CancelScope, DrainNested, Spawn, Await,
           CancelTask, Work, AwaitFork, CancelFork, Finish, Runs, Does, Lend
  <1>4. queue = <<>> => queue' = <<>>
    BY <1>2 DEF Without
  <1>5. cpu' # Host
    BY <1>3, TasksAssumption DEF Block, Host
  <1> QED
    BY <1>1, <1>4, <1>5, HostAwake DEF HostInv, Waited, Parks

\* Steps of the block keep it so that whoever becomes runnable wakes it.
LEMMA HostBlock ==
    ASSUME Forks = {}, "ext" \notin BlockOps, LifeInv, HostInv, BlockStep
    PROVE  HostInv'
  <1>0. TypeOK /\ Waiting /\ Driving
    BY DEF LifeInv
  <1>1. /\ DOMAIN block = {"at", "op", "on", "fork", "wait", "ready"} /\ outstanding = <<>>
    <2>1. outstanding \in Seq({})
      BY <1>0 DEF TypeOK, LanesOK
    <2> QED
      BY <1>0, <2>1, BlockFields
  <1>2. /\ cpu = Block /\ Block # Host
        /\ cpu' # Host \/ woken' = TRUE
    <2>1. Block # Host /\ Host \notin Tasks
      BY TasksAssumption DEF Block, Host
    <2>2. cpu = Block
      BY DEF BlockStep, BlockSpawn, BlockAwait, BlockCancelTask, BlockWork, BlockAwaitFork,
             BlockCancelFork, BlockParks, BlockCancelScope, BlockCheckpoint, BlockCloses,
             SlotTaken, SlotWanted, PumpReturns, PumpPass, PumpResumes, PumpParks, PumpDefers,
             DrivePass, DriveRaises, DriveResumes, DriveParks, DriveLeaves, ReplyAwaited,
             ReplyTaken, WorkersDrain, ScopeCloses, BlockRuns, BlockDoes
    <2>3. CASE PumpResumes \/ DriveResumes
      <3>1. queue \in Seq(Tasks) /\ queue # <<>> /\ cpu' = Head(queue)
        BY <1>0, <2>3 DEF PumpResumes, DriveResumes, ResumeChild, TypeOK, ScheduleOK
      <3> QED
        BY <2>1, <2>2, <3>1
    <2>4. CASE DriveParks
      BY <2>1, <2>2, <2>4 DEF DriveParks
    <2>5. CASE ~(PumpResumes \/ DriveResumes \/ DriveParks)
      <3>1. cpu' = cpu
        BY <2>5 DEF BlockStep, BlockSpawn, BlockAwait, BlockCancelTask, BlockWork, BlockAwaitFork,
             BlockCancelFork, BlockParks, BlockCancelScope, BlockCheckpoint, BlockCloses,
             SlotTaken, SlotWanted, PumpReturns, PumpPass, PumpParks, PumpDefers,
             DrivePass, DriveRaises, DriveLeaves, ReplyAwaited, ReplyTaken, WorkersDrain,
             ScopeCloses
      <3> QED
        BY <2>1, <2>2, <3>1
    <2> QED
      BY <2>1, <2>2, <2>3, <2>4, <2>5
  <1>3. expired' = expired /\ timer' \in {timer, "off", "set"}
    BY DEF BlockStep, BlockSpawn, BlockAwait, BlockCancelTask, BlockWork, BlockAwaitFork,
           BlockCancelFork, BlockParks, BlockCancelScope, BlockCheckpoint, BlockCloses,
           SlotTaken, SlotWanted, PumpReturns, PumpPass, PumpResumes, PumpParks, PumpDefers,
           DrivePass, DriveRaises, DriveResumes, DriveParks, DriveLeaves, ReplyAwaited,
           ReplyTaken, WorkersDrain, ScopeCloses, Abandon, host
  <1>4. ASSUME block'.at # "reply", block'.wait \notin {"ext", "reply"}, Parks' PROVE HostInv'
    BY <1>2, <1>3, <1>4, HostAwake DEF HostInv, Waited
  <1>5. CASE block'.wait = "none" /\ block'.at # "reply"
    BY <1>4, <1>5 DEF Parks
  <1>6. CASE \/ (\E u \in Tasks : BlockSpawn(u) \/ BlockAwait(u) \/ BlockCancelTask(u))
             \/ BlockCancelScope \/ BlockCheckpoint \/ BlockCloses
             \/ SlotTaken \/ DriveRaises \/ ScopeCloses
    <2>1. \/ block' = block /\ block.at = "run"
          \/ \E p \in {"run", "slot", "pump", "done"} : \E o, n : block' = Doing(p, o, n)
      BY <1>6 DEF BlockSpawn, BlockAwait, BlockCancelTask, BlockCancelScope, BlockCheckpoint,
                  BlockCloses, SlotTaken, DriveRaises, ScopeCloses, Abandon, Running, BlockDoes,
                  BlockRuns
    <2>2. CASE block' = block /\ block.at = "run"
      BY <1>0, <1>5, <2>2 DEF Waiting, Away
    <2>3. CASE \E p \in {"run", "slot", "pump", "done"} : \E o, n : block' = Doing(p, o, n)
      BY <1>5, <2>3 DEF Doing
    <2> QED
      BY <2>1, <2>2, <2>3
  <1>7. CASE SlotWanted \/ PumpReturns \/ PumpPass \/ PumpResumes
    <2>1. /\ block.at \in {"slot", "pump", "pumping"}
          /\ block' = Running
             \/ \E p \in {"pump", "slot", "workers", "pumping"} : block' = [block EXCEPT !.at = p]
      BY <1>1, <1>7 DEF SlotWanted, PumpReturns, PumpPass, PumpResumes, BlockRuns
    <2>2. block.wait = "none"
      BY <1>0, <2>1 DEF Waiting, Away
    <2> QED
      BY <1>1, <1>5, <2>1, <2>2 DEF Running, Doing
  <1>8. CASE PumpParks
    <2>1. /\ queue' = <<>> /\ "park" \in wakers'
          /\ block' = [block EXCEPT !.at = "drive", !.wait = "scope", !.ready = FALSE]
      BY <1>8 DEF PumpParks, schedule
    <2> QED
      BY <1>1, <1>4, <2>1 DEF Parks
  <1>9. CASE PumpDefers
    <2>1. block' = [block EXCEPT !.at = "drive", !.wait = "turn", !.ready = FALSE]
      BY <1>9 DEF PumpDefers
    <2> QED
      BY <1>1, <1>4, <2>1 DEF Parks
  <1>10. CASE DrivePass \/ DriveParks \/ DriveResumes
    <2>1. /\ wakers' = wakers /\ (queue' = queue \/ queue # <<>>)
          /\ \E p \in {"leaving", "driving", "drive", "out"} : block' = [block EXCEPT !.at = p]
      BY <1>10 DEF DrivePass, DriveParks, DriveResumes, schedule, host
    <2>2. block'.at # "reply" /\ block'.wait = block.wait /\ block'.ready = block.ready
      BY <1>1, <2>1
    <2>3. Parks'
      BY <2>1, <2>2 DEF HostInv, Parks
    <2> QED
      BY <1>4, <2>2, <2>3 DEF HostInv, Waited
  <1>11. CASE DriveLeaves
    <2>1. block.wait \notin {"ext", "reply"}
      BY DEF HostInv, Waited
    <2>2. block' = [block EXCEPT !.at = "pump", !.wait = "none"]
      BY <1>11, <2>1 DEF DriveLeaves
    <2> QED
      BY <1>1, <1>5, <2>2
  <1>12. /\ ~BlockParks /\ ~ReplyAwaited /\ ~ReplyTaken /\ ~WorkersDrain
         /\ ~\E w \in Forks : BlockWork(w) \/ BlockAwaitFork(w) \/ BlockCancelFork(w)
    BY <1>1 DEF BlockParks, BlockDoes, ReplyAwaited, ReplyTaken, WorkersDrain, BlockRuns, HostInv,
                Waited
  <1> QED
    BY <1>6, <1>7, <1>8, <1>9, <1>10, <1>11, <1>12 DEF BlockStep

\* The host sleeps when there is nothing to do, and the clock has a timer.
LEMMA HostRest ==
    ASSUME Forks = {}, LifeInv, HostInv, HostStep \/ ClockPasses \/ UNCHANGED vars
    PROVE  HostInv'
  <1>0. TypeOK /\ Waiting /\ Driving
    BY DEF LifeInv
  <1>1. /\ DOMAIN block = {"at", "op", "on", "fork", "wait", "ready"}
        /\ woken \in BOOLEAN /\ expired \in BOOLEAN /\ Host # Block
    BY <1>0, BlockFields DEF TypeOK, HostOK, Host, Block
  <1>2. CASE HostResumes
    <2>1. /\ cpu' = Block /\ block' = [block EXCEPT !.at = "drive"] /\ wakers' = wakers \ {"arm"}
          /\ timer' \in {timer, "off"} /\ UNCHANGED <<queue, expired>>
      BY <1>2 DEF HostResumes, schedule
    <2>2. block'.at = "drive" /\ block'.wait = block.wait /\ block'.ready = block.ready
      BY <1>1, <2>1
    <2> QED
      BY <1>1, <2>1, <2>2, HostAwake DEF HostInv, Waited, Parks
  <1>3. CASE HostArms
    <2>1. /\ cpu = Host /\ wakers' = wakers \union {"arm"} /\ ~CombinedReady
          /\ timer' = IF HasDeadline /\ timer = "off" THEN "set" ELSE timer
          /\ UNCHANGED <<queue, settling, failed, cancelled, deliberate, turn, expired, block>>
          /\ Hosted
      BY <1>3 DEF HostArms, HostRuns, schedule, flags
    <2>2. Waited' /\ Parks'
      BY <2>1 DEF HostInv, Waited, Parks
    <2>3. ~block.ready /\ ~Raising /\ ~(queue # <<>> /\ turn > 0) /\ (Overdue => settling)
      BY <2>1 DEF CombinedReady, ScopeReady, Raising, TurnAvailable
    <2>4. HasDeadline /\ ~settling => timer' = "set"
      <3>1. timer = "fired" => expired
        BY DEF HostInv, Waited
      <3>2. timer \in {"off", "set", "fired"}
        BY <1>0 DEF TypeOK, HostOK
      <3> QED
        BY <2>1, <2>3, <3>1, <3>2 DEF Overdue
    <2>5. Sleeps'
      BY <2>1, <2>3, <2>4 DEF Sleeps, Raising
    <2> QED
      BY <2>2, <2>5 DEF HostInv
  <1>4. CASE TimerFires
    <2>1. FireWakers /\ expired = TRUE /\ UNCHANGED <<expired, cpu>> /\ cpu = Host
      BY <1>1, <1>4 DEF TimerFires, HostRuns
    <2>2. block'.at = block.at /\ block'.wait = block.wait
      BY <1>0, <2>1, BlockFields
    <2>3. Waited'
      BY <2>1, <2>2 DEF HostInv, Waited
    <2> QED
      BY <2>1, <2>3, HostFires, HostAwake
  <1>5. CASE NextTurn
    <2>1. /\ UNCHANGED <<queue, settling, failed, cancelled, deliberate, wakers, woken, timer,
                         expired, cpu, block>>
          /\ cpu = Host /\ Quiet
          /\ block.wait = "turn" /\ ~block.ready => owed' = <<Call("resume", Block)>>
      BY <1>5 DEF NextTurn, HostRuns, schedule, flags
    <2>2. Waited' /\ Parks'
      BY <2>1 DEF HostInv, Waited, Parks
    <2>3. Sleeps => Sleeps'
      <3>1. block.wait \in {"scope", "turn"}
        <4>1. block.at \in Away /\ block.wait \in {"none", "scope", "turn", "ext", "reply"}
          BY <1>0, <2>1 DEF Driving, Away, TypeOK, BlockOK
        <4> QED
          BY <1>0, <4>1 DEF Waiting, HostInv, Waited
      <3>2. CASE block.wait = "scope"
        BY <2>1, <3>2 DEF HostInv, Parks, Sleeps, Raising
      <3>3. CASE block.wait = "turn" /\ ~block.ready
        <4>1. Owes("resume", Block)'
          BY <2>1, <3>3 DEF Owes, Contains
        <4> QED
          BY <2>1, <4>1 DEF Sleeps, Raising
      <3> QED
        BY <3>1, <3>2, <3>3 DEF Sleeps
    <2> QED
      BY <2>1, <2>2, <2>3 DEF HostInv
  <1>6. CASE \E t \in Tasks : ExternalReady(t)
    <2>1. /\ UNCHANGED <<queue, settling, failed, cancelled, deliberate, wakers, woken, timer,
                         expired, cpu, block, turn>> /\ Quiet
      BY <1>6 DEF ExternalReady, HostRuns, schedule, flags, host
    <2> QED
      BY <2>1, QuietOwes DEF HostInv, Waited, Parks, Sleeps, Raising
  <1>7. CASE ClockPasses
    <2>1. /\ UNCHANGED <<queue, settling, failed, cancelled, deliberate, wakers, woken, timer,
                         cpu, block, turn, owed>> /\ expired' = TRUE
      BY <1>7 DEF ClockPasses, schedule, flags
    <2> QED
      BY <2>1 DEF HostInv, Waited, Parks, Sleeps, Raising, Owes
  <1>8. CASE UNCHANGED vars
    BY <1>8 DEF vars, schedule, flags, host, HostInv, Waited, Parks, Sleeps, Raising, Owes
  <1>9. ~BlockReady /\ ~\E w \in Forks : RouteReply(w)
    BY DEF BlockReady, HostInv, Waited
  <1> QED
    BY <1>2, <1>3, <1>4, <1>5, <1>6, <1>7, <1>8, <1>9 DEF HostStep

\* Every step keeps it.
LEMMA HostNext ==
    ASSUME Forks = {}, "ext" \notin BlockOps, LifeInv, HostInv, [Next]_vars
    PROVE  HostInv'
  BY HostCallback, HostTask, HostBlock, HostRest DEF Next

\* In a scope without worker tasks whose block waits for nothing of its own, a
\* host sleeps on the combined wait only while there is nothing to do for it,
\* or the deadline's timer is set and about to fire: no wakeup is lost between
\* the look at the wait and the sleep on it, or when a turn is used up.
THEOREM HostNeverNeeded ==
    ASSUME Forks = {}, "ext" \notin BlockOps
    PROVE  Spec => []HostNotNeeded
  <1>1. Init => LifeInv /\ HostInv
    BY LifeInit, HostInit
  <1>2. LifeInv /\ HostInv /\ [Next]_vars => LifeInv' /\ HostInv'
    BY LifeNext, HostNext
  <1>3. LifeInv /\ HostInv => HostNotNeeded
    BY HostSound
  <1> QED
    BY <1>1, <1>2, <1>3, PTL DEF Spec
=============================================================================
